---------------------------- MODULE WorkerLogin ----------------------------
(***************************************************************************)
(* How the goroutines of the workers share a session: Api.guid of a        *)
(* worker, AddJob's login when there is none, under loginmutex, and the    *)
(* loop of sendStatus, that logs in again, without loginmutex, when the    *)
(* manager answers 401.  The manager's side is Sessions.                   *)
(*                                                                         *)
(* A thread is one AddJob handler of a worker: at most one login of its    *)
(* own, <<t, 1>>, and one of its sendStatus, <<t, 2>>; sendStatus makes    *)
(* the request <<t, 1>>, and <<t, 2>> after a second login.                *)
(***************************************************************************)
EXTENDS Sessions, Integers

CONSTANTS
    Workers,         \* the worker daemons
    Account,         \* [Workers -> Users]: User of the worker's configuration
    Threads,         \* the AddJob handlers
    Home,            \* [Threads -> Workers]
    NoGuid           \* the empty GUID

Calls == Threads \X {1, 2}

VARIABLES
    guid,    \* [Workers -> Api.guid]
    lock,    \* [Workers -> loginmutex is held]
    thread   \* [Threads -> where AddJob is, and its retries]

workerLoginVars == <<guid, lock, thread>>
allVars == <<sessionVars, workerLoginVars>>

ASSUME WorkerLoginAssumption ==
    /\ Account \in [Workers -> Users]
    /\ Home \in [Threads -> Workers]
    /\ NoGuid \notin Calls
    /\ Logins = Calls
    /\ Requests = Calls

ThreadState == {"start", "lock", "login", "send", "wait", "relogin",
                "reported", "lost", "aborted"}

WorkerLoginInit ==
    /\ SessionsInit
    /\ guid = [w \in Workers |-> NoGuid]
    /\ lock = [w \in Workers |-> FALSE]
    /\ thread = [t \in Threads |-> [pc |-> "start", tries |-> 0]]

WorkerLoginTypeOK ==
    /\ SessionsTypeOK
    /\ guid \in [Workers -> Calls \cup {NoGuid}]
    /\ lock \in [Workers -> BOOLEAN]
    /\ thread \in [Threads -> [pc : ThreadState, tries : 0 .. 1]]

-----------------------------------------------------------------------------
Goto(t, pc) == thread' = [thread EXCEPT ![t] = [pc |-> pc, tries |-> thread[t].tries]]
SetLock(w, held) == lock' = [lock EXCEPT ![w] = held]
LoginOf(t) == <<t, IF thread[t].pc = "login" THEN 1 ELSE 2>>
RequestOf(t) == <<t, thread[t].tries + 1>>
LoggingIn(t) == thread[t].pc \in {"login", "relogin"}

-----------------------------------------------------------------------------
(* AddJob *)

AddJobBegin(t) ==
    /\ thread[t].pc = "start"
    /\ Goto(t, IF guid[Home[t]] = NoGuid THEN "lock" ELSE "send")
    /\ UNCHANGED <<sessionVars, guid, lock>>

(* The GUID is not looked at again once the lock is there. *)
AddJobLock(t) ==
    /\ thread[t].pc = "lock"
    /\ ~lock[Home[t]]
    /\ SetLock(Home[t], TRUE)
    /\ Goto(t, "login")
    /\ UNCHANGED <<sessionVars, guid>>

(* AddJob returns the error, and frees loginmutex. *)
AddJobLoginFails(t) ==
    /\ thread[t].pc = "login"
    /\ login[LoginOf(t)].pc = "refused"
    /\ SetLock(Home[t], FALSE)
    /\ Goto(t, "aborted")
    /\ UNCHANGED <<sessionVars, guid>>

-----------------------------------------------------------------------------
(* Login, that both call: the POST, and the GUID of the answer is kept. *)

Login(t) ==
    /\ LoggingIn(t)
    /\ DoLoginFind(LoginOf(t), Account[Home[t]]) \/ DoLoginRefuse(LoginOf(t), Account[Home[t]])
    /\ UNCHANGED workerLoginVars

(* Mutant of LoggedIn: a login under loginmutex does not free it. *)
LoggedInKeepsLock(t) ==
    /\ LoggingIn(t)
    /\ login[LoginOf(t)].pc = "done"
    /\ guid' = [guid EXCEPT ![Home[t]] = LoginOf(t)]
    /\ Goto(t, "send")
    /\ UNCHANGED <<sessionVars, lock>>

LoggedIn(t) ==
    /\ LoggingIn(t)
    /\ login[LoginOf(t)].pc = "done"
    /\ guid' = [guid EXCEPT ![Home[t]] = LoginOf(t)]
    /\ IF thread[t].pc = "login" THEN SetLock(Home[t], FALSE) ELSE UNCHANGED lock
    /\ Goto(t, "send")
    /\ UNCHANGED sessionVars

(* sendStatus does not look at the error: it sends with the old GUID. *)
ReLoginFails(t) ==
    /\ thread[t].pc = "relogin"
    /\ login[LoginOf(t)].pc = "refused"
    /\ Goto(t, "send")
    /\ UNCHANGED <<sessionVars, guid, lock>>

-----------------------------------------------------------------------------
(* The loop of sendStatus *)

Send(t) ==
    /\ thread[t].pc = "send"
    /\ CheckUser(RequestOf(t), "call", Account[Home[t]], guid[Home[t]])
    /\ Goto(t, "wait")
    /\ UNCHANGED <<guid, lock>>

Answered(t) ==
    /\ thread[t].pc = "wait"
    /\ request[RequestOf(t)].pc = "done"
    /\ Goto(t, "reported")
    /\ UNCHANGED <<sessionVars, guid, lock>>

(* Mutant of Unauthorized: no second try. *)
UnauthorizedOnce(t) ==
    /\ thread[t].pc = "wait"
    /\ request[RequestOf(t)].pc = "refused"
    /\ Goto(t, "lost")
    /\ UNCHANGED <<sessionVars, guid, lock>>

Unauthorized(t) ==
    /\ thread[t].pc = "wait"
    /\ request[RequestOf(t)].pc = "refused"
    /\ thread' = [thread EXCEPT ![t] =
                    IF thread[t].tries = 1 THEN [pc |-> "lost", tries |-> 1]
                    ELSE [pc |-> "relogin", tries |-> 1]]
    /\ UNCHANGED <<sessionVars, guid, lock>>

ThreadStep(t) ==
    \/ AddJobBegin(t) \/ AddJobLock(t) \/ AddJobLoginFails(t)
    \/ Login(t) \/ LoggedIn(t) \/ ReLoginFails(t)
    \/ Send(t) \/ Answered(t) \/ Unauthorized(t)

-----------------------------------------------------------------------------
(* The manager's part.  session_timeout is in minutes, so no session ages  *)
(* while a thread is at its second try, nor before its login is answered.  *)
ManagerStep(c) ==
    /\ DoLoginStep(c) \/ RequestStep(c)
    /\ UNCHANGED workerLoginVars

Ages(c) ==
    /\ \A t \in Threads : thread[t].tries = 1 => thread[t].pc \in {"reported", "lost"}
    /\ ~(LoggingIn(c[1]) /\ LoginOf(c[1]) = c)
    /\ Expire(c)
    /\ UNCHANGED workerLoginVars

WorkerLoginNext ==
    \/ \E t \in Threads : ThreadStep(t)
    \/ \E c \in Calls : ManagerStep(c) \/ Ages(c)

WorkerLoginSpec == WorkerLoginInit /\ [][WorkerLoginNext]_allVars

(* Goroutines of both daemons are scheduled: a thread and the handlers     *)
(* that serve it take turns.  Of loginmutex no fairness is needed, as a    *)
(* thread takes it once.                                                   *)
Served(t) == \E n \in {1, 2} : ManagerStep(<<t, n>>)

WorkerLoginFairSpec ==
    WorkerLoginSpec /\ \A t \in Threads : WF_allVars(ThreadStep(t) \/ Served(t))

-----------------------------------------------------------------------------
(* A report is lost after two tries (sendStatus: "Retry login (only once)  *)
(* on a 401") only if one of the thread's own logins was refused, or, when *)
(* the account is not MultiLogin, if another thread logged in to it; two   *)
(* logins of one worker can leave it with the GUID that was closed.        *)
LostNeedsRival ==
    \A t \in Threads : thread[t].pc = "lost" =>
        \/ login[<<t, 2>>].pc = "refused"
        \/ /\ ~user[Account[Home[t]]].multi
           /\ \E c \in Calls : /\ c[1] # t
                               /\ login[c].pc \in {"found", "done"}
                               /\ login[c].user = Account[Home[t]]

(* Every handler ends, whatever logins fail or close each other's sessions *)
(* (AddJob and sendStatus hold loginmutex across no other wait).           *)
ThreadsEnd ==
    <>(\A t \in Threads : thread[t].pc \in {"reported", "lost", "aborted"})
=============================================================================
