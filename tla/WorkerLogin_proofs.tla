------------------------- MODULE WorkerLogin_proofs -------------------------
(***************************************************************************)
(* Proofs about WorkerLogin, for any workers, threads, accounts and users: *)
(* type correctness, and that a report is lost only to a rival login.      *)
(*                                                                         *)
(* A lost report was refused at its second try.  If the login before that  *)
(* try was not refused itself, Api.guid held a session that was young: the *)
(* one just made, or that of another thread's login, made since (LoginOf   *)
(* never names an older one).  No session ages during a second try, so it  *)
(* was refused because the session had been closed, and only a login to an *)
(* account that is not MultiLogin closes sessions: the rival.              *)
(*                                                                         *)
(* The composition implements its component: every step is one of Sessions *)
(* or leaves its variables alone, as a thread reports only under a GUID    *)
(* that a login brought.  So what is proved of Sessions holds here.        *)
(***************************************************************************)
EXTENDS WorkerLogin, Sessions_proofs

Young(c) == session[c].row \in {"fresh", "gone"}

(* Where a thread is, and what its calls have come to. *)
Turn(t) ==
    /\ thread[t].pc \in {"start", "lock"} => login[<<t, 1>>].pc = "start"
    /\ thread[t].tries = 0 => login[<<t, 2>>].pc = "start"
    /\ thread[t].tries = 0 => thread[t].pc \notin {"relogin", "lost"}
    /\ thread[t].tries = 1 =>
         thread[t].pc \in {"relogin", "send", "wait", "reported", "lost"}
    /\ thread[t].tries = 1 /\ thread[t].pc # "relogin" =>
         login[<<t, 2>>].pc \in {"done", "refused"}
    /\ thread[t].pc = "lost" => request[<<t, 2>>].pc = "refused"
    /\ thread[t].pc \in {"send", "wait", "relogin"} => guid[Home[t]] # NoGuid

(* A login that has found its user is the one its thread waits for, and    *)
(* the session it makes is young until the thread has its GUID.            *)
Found(t) ==
    /\ login[<<t, 1>>].pc = "found" => thread[t].pc = "login"
    /\ login[<<t, 2>>].pc = "found" => thread[t].pc = "relogin"
    /\ thread[t].pc = "login" /\ login[<<t, 1>>].pc = "done" => Young(<<t, 1>>)
    /\ thread[t].pc = "relogin" /\ login[<<t, 2>>].pc = "done" => Young(<<t, 2>>)

(* The second report is on its way only after the second login, and its    *)
(* session is young, or was closed.                                        *)
Second(t) ==
    /\ request[<<t, 2>>].pc # "start" =>
         thread[t].tries = 1 /\ thread[t].pc \in {"wait", "reported", "lost"}
    /\ request[<<t, 2>>].pc \in {"named", "admitted"} => thread[t].pc = "wait"
    /\ login[<<t, 2>>].pc = "done" =>
         /\ thread[t].tries = 1 /\ thread[t].pc = "send" =>
              Young(guid[Home[t]]) /\ guid[Home[t]] # <<t, 1>>
         /\ request[<<t, 2>>].pc = "named" => Young(request[<<t, 2>>].guid)
         /\ request[<<t, 2>>].pc = "refused" =>
              session[request[<<t, 2>>].guid].row = "gone"
         /\ request[<<t, 2>>].pc # "start" => request[<<t, 2>>].guid # <<t, 1>>

(* Another thread's login to the same account. *)
Rival(t, u) ==
    \E c \in Calls :
        c[1] # t /\ login[c].pc \in {"found", "done"} /\ login[c].user = u

(* A session of a second login is closed only by a rival's. *)
Rivalled(t) == session[<<t, 2>>].row = "gone" => Rival(t, session[<<t, 2>>].user)

(* A login is to the account of its worker, and makes one session, that    *)
(* is closed only if the account is not MultiLogin.                        *)
LoginOK(c) ==
    /\ login[c].pc \in {"found", "done"} =>
         /\ login[c].user = Account[Home[c[1]]]
         /\ login[c].multi = user[login[c].user].multi
    /\ login[c].pc = "done" => session[c].row # "none"
    /\ session[c].row # "none" =>
         login[c].pc = "done" /\ session[c].user = login[c].user
    /\ session[c].row = "gone" => ~user[session[c].user].multi

(* A report names a session of its worker's account. *)
ReportOK(c) ==
    request[c].pc # "start" =>
        /\ request[c].kind = "call"
        /\ request[c].user = Account[Home[c[1]]]
        /\ session[request[c].guid].row # "none"
        /\ session[request[c].guid].user = request[c].user

(* Api.guid is what a login of the worker's own brought. *)
GuidOK(w) == guid[w] # NoGuid => login[guid[w]].pc = "done" /\ Home[guid[w][1]] = w

ThreadsInv == \A t \in Threads : Turn(t) /\ Found(t) /\ Second(t) /\ Rivalled(t)
CallsInv == \A c \in Calls : LoginOK(c) /\ ReportOK(c)
GuidsInv == \A w \in Workers : GuidOK(w)
UsersInv == \A u \in Users : user[u].live

WorkInv == WorkerLoginTypeOK /\ ThreadsInv /\ CallsInv /\ GuidsInv /\ UsersInv

(* The calls of a thread, and its own among them. *)
LEMMA CallsOf ==
    /\ \A t \in Threads : <<t, 1>> \in Calls /\ <<t, 2>> \in Calls /\ <<t, 1>> # <<t, 2>>
                          /\ <<t, 1>>[1] = t /\ <<t, 2>>[1] = t
    /\ \A c \in Calls : c[1] \in Threads /\ (c = <<c[1], 1>> \/ c = <<c[1], 2>>)
BY DEF Calls

(* The values a step of thread t reads. *)
LEMMA TypesOf ==
    ASSUME WorkInv, NEW t \in Threads
    PROVE  /\ thread[t].tries = 0 \/ thread[t].tries = 1
           /\ thread[t].tries = 0 => RequestOf(t) = <<t, 1>>
           /\ thread[t].tries = 1 => RequestOf(t) = <<t, 2>>
           /\ thread[t].pc = "login" => LoginOf(t) = <<t, 1>>
           /\ thread[t].pc # "login" => LoginOf(t) = <<t, 2>>
           /\ thread[t].pc \in ThreadState
           /\ Home[t] \in Workers /\ Account[Home[t]] \in Users
<1>1. thread[t].tries \in 0 .. 1 /\ thread[t].pc \in ThreadState
  BY DEF WorkInv, WorkerLoginTypeOK
<1>2. Home[t] \in Workers /\ Account[Home[t]] \in Users
  BY WorkerLoginAssumption
<1>3. thread[t].tries = 0 \/ thread[t].tries = 1
  BY <1>1
<1>4. thread[t].tries = 0 => RequestOf(t) = <<t, 1>>
  <2>1. 0 + 1 = 1
    OBVIOUS
  <2> QED BY <2>1 DEF RequestOf
<1>5. thread[t].tries = 1 => RequestOf(t) = <<t, 2>>
  <2>1. 1 + 1 = 2
    OBVIOUS
  <2> QED BY <2>1 DEF RequestOf
<1>6. /\ thread[t].pc = "login" => LoginOf(t) = <<t, 1>>
      /\ thread[t].pc # "login" => LoginOf(t) = <<t, 2>>
  BY DEF LoginOf
<1> QED BY <1>1, <1>2, <1>3, <1>4, <1>5, <1>6

(* The calls that it is at. *)
LEMMA OwnCalls ==
    ASSUME WorkInv, NEW t \in Threads
    PROVE  /\ LoginOf(t) \in Calls /\ LoginOf(t)[1] = t
           /\ RequestOf(t) \in Calls /\ RequestOf(t)[1] = t
           /\ \/ thread[t].tries = 0 /\ RequestOf(t) = <<t, 1>>
              \/ thread[t].tries = 1 /\ RequestOf(t) = <<t, 2>>
<1>1. /\ <<t, 1>> \in Calls /\ <<t, 2>> \in Calls
      /\ <<t, 1>>[1] = t /\ <<t, 2>>[1] = t
  BY CallsOf
<1>2. LoginOf(t) = <<t, 1>> \/ LoginOf(t) = <<t, 2>>
  BY TypesOf
<1>3. \/ thread[t].tries = 0 /\ RequestOf(t) = <<t, 1>>
      \/ thread[t].tries = 1 /\ RequestOf(t) = <<t, 2>>
  BY TypesOf
<1> QED BY <1>1, <1>2, <1>3

(* A step of thread t that leaves sessions and Api.guid alone keeps the    *)
(* invariant if it keeps what concerns t.                                  *)
LEMMA ThreadMoves ==
    ASSUME WorkInv, WorkerLoginTypeOK', NEW t \in Threads,
           UNCHANGED <<user, session, login, request, guid>>,
           \A s \in Threads : s # t => thread'[s] = thread[s],
           Turn(t)', Found(t)', Second(t)'
    PROVE  WorkInv'
<1>1. ASSUME NEW s \in Threads PROVE Turn(s)' /\ Found(s)' /\ Second(s)' /\ Rivalled(s)'
  <2>1. Turn(s) /\ Found(s) /\ Second(s) /\ Rivalled(s)
    BY DEF WorkInv, ThreadsInv
  <2>2. Rivalled(s)'
    BY <2>1 DEF Rivalled, Rival
  <2>3. CASE s # t
    <3>1. thread'[s] = thread[s]
      BY <2>3
    <3>2. Turn(s)'
      BY <2>1, <3>1 DEF Turn
    <3>3. Found(s)'
      BY <2>1, <3>1 DEF Found, Young
    <3>4. Second(s)'
      BY <2>1, <3>1 DEF Second, Young
    <3> QED BY <2>2, <3>2, <3>3, <3>4
  <2> QED BY <2>2, <2>3
<1>2. CallsInv' /\ GuidsInv' /\ UsersInv'
  BY DEF WorkInv, CallsInv, GuidsInv, UsersInv, LoginOK, ReportOK, GuidOK
<1> QED BY <1>1, <1>2 DEF WorkInv, ThreadsInv

LEMMA BeginKeeps ==
    ASSUME WorkInv, NEW t \in Threads, AddJobBegin(t)
    PROVE  WorkInv'
<1>1. Turn(t) /\ Found(t) /\ Second(t)
  BY DEF WorkInv, ThreadsInv
<1>2. UNCHANGED <<user, session, login, request, guid>> /\ WorkerLoginTypeOK'
  BY WorkerLoginAssumption, TypesOf
  DEF AddJobBegin, Goto, SetLock, sessionVars, WorkInv, WorkerLoginTypeOK, SessionsTypeOK,
      ThreadState
<1>3. \A s \in Threads : s # t => thread'[s] = thread[s]
  BY DEF AddJobBegin, Goto, WorkInv, WorkerLoginTypeOK
<1>4. /\ thread[t].pc = "start" /\ thread'[t].tries = thread[t].tries
      /\ IF guid[Home[t]] = NoGuid THEN thread'[t].pc = "lock" ELSE thread'[t].pc = "send"
  BY TypesOf DEF AddJobBegin, Goto, WorkInv, WorkerLoginTypeOK
<1>5. Turn(t)'
  BY <1>1, <1>2, <1>4, TypesOf DEF Turn, Second
<1>6. Found(t)'
  BY <1>1, <1>2, <1>4, TypesOf DEF Turn, Found, Young
<1>7. Second(t)'
  BY <1>1, <1>2, <1>4, TypesOf DEF Turn, Second, Young
<1> QED BY <1>2, <1>3, <1>5, <1>6, <1>7, ThreadMoves

LEMMA LockKeeps ==
    ASSUME WorkInv, NEW t \in Threads, AddJobLock(t)
    PROVE  WorkInv'
<1>1. Turn(t) /\ Found(t) /\ Second(t)
  BY DEF WorkInv, ThreadsInv
<1>2. UNCHANGED <<user, session, login, request, guid>> /\ WorkerLoginTypeOK'
  BY WorkerLoginAssumption, TypesOf
  DEF AddJobLock, Goto, SetLock, sessionVars, WorkInv, WorkerLoginTypeOK, SessionsTypeOK,
      ThreadState
<1>3. \A s \in Threads : s # t => thread'[s] = thread[s]
  BY DEF AddJobLock, Goto, WorkInv, WorkerLoginTypeOK
<1>4. /\ thread[t].pc = "lock" /\ thread'[t].tries = thread[t].tries /\ thread'[t].pc = "login"
  BY TypesOf DEF AddJobLock, Goto, WorkInv, WorkerLoginTypeOK
<1>5. Turn(t)'
  BY <1>1, <1>2, <1>4, TypesOf DEF Turn, Second
<1>6. Found(t)'
  BY <1>1, <1>2, <1>4, TypesOf DEF Turn, Found, Young
<1>7. Second(t)'
  BY <1>1, <1>2, <1>4, TypesOf DEF Turn, Second, Young
<1> QED BY <1>2, <1>3, <1>5, <1>6, <1>7, ThreadMoves

LEMMA FailsKeeps ==
    ASSUME WorkInv, NEW t \in Threads, AddJobLoginFails(t)
    PROVE  WorkInv'
<1>1. Turn(t) /\ Found(t) /\ Second(t)
  BY DEF WorkInv, ThreadsInv
<1>2. UNCHANGED <<user, session, login, request, guid>> /\ WorkerLoginTypeOK'
  BY WorkerLoginAssumption, TypesOf
  DEF AddJobLoginFails, Goto, SetLock, sessionVars, WorkInv, WorkerLoginTypeOK, SessionsTypeOK,
      ThreadState
<1>3. \A s \in Threads : s # t => thread'[s] = thread[s]
  BY DEF AddJobLoginFails, Goto, WorkInv, WorkerLoginTypeOK
<1>4. /\ thread[t].pc = "login" /\ thread'[t].tries = thread[t].tries /\ thread'[t].pc = "aborted"
      /\ login[<<t, 1>>].pc = "refused"
  BY TypesOf DEF AddJobLoginFails, Goto, WorkInv, WorkerLoginTypeOK
<1>5. Turn(t)'
  BY <1>1, <1>2, <1>4, TypesOf DEF Turn, Second
<1>6. Found(t)'
  BY <1>1, <1>2, <1>4, TypesOf DEF Turn, Found, Young
<1>7. Second(t)'
  BY <1>1, <1>2, <1>4, TypesOf DEF Turn, Second, Young
<1> QED BY <1>2, <1>3, <1>5, <1>6, <1>7, ThreadMoves

LEMMA ReLoginFailsKeeps ==
    ASSUME WorkInv, NEW t \in Threads, ReLoginFails(t)
    PROVE  WorkInv'
<1>1. Turn(t) /\ Found(t) /\ Second(t)
  BY DEF WorkInv, ThreadsInv
<1>2. UNCHANGED <<user, session, login, request, guid>> /\ WorkerLoginTypeOK'
  BY WorkerLoginAssumption, TypesOf
  DEF ReLoginFails, Goto, SetLock, sessionVars, WorkInv, WorkerLoginTypeOK, SessionsTypeOK,
      ThreadState
<1>3. \A s \in Threads : s # t => thread'[s] = thread[s]
  BY DEF ReLoginFails, Goto, WorkInv, WorkerLoginTypeOK
<1>4. /\ thread[t].pc = "relogin" /\ thread'[t].tries = thread[t].tries /\ thread'[t].pc = "send"
      /\ login[<<t, 2>>].pc = "refused"
  BY TypesOf DEF ReLoginFails, Goto, WorkInv, WorkerLoginTypeOK
<1>5. Turn(t)'
  BY <1>1, <1>2, <1>4, TypesOf DEF Turn, Second
<1>6. Found(t)'
  BY <1>1, <1>2, <1>4, TypesOf DEF Turn, Found, Young
<1>7. Second(t)'
  BY <1>1, <1>2, <1>4, TypesOf DEF Turn, Second, Young
<1> QED BY <1>2, <1>3, <1>5, <1>6, <1>7, ThreadMoves

LEMMA AnsweredKeeps ==
    ASSUME WorkInv, NEW t \in Threads, Answered(t)
    PROVE  WorkInv'
<1>1. Turn(t) /\ Found(t) /\ Second(t)
  BY DEF WorkInv, ThreadsInv
<1>2. UNCHANGED <<user, session, login, request, guid>> /\ WorkerLoginTypeOK'
  BY WorkerLoginAssumption, TypesOf
  DEF Answered, Goto, SetLock, sessionVars, WorkInv, WorkerLoginTypeOK, SessionsTypeOK,
      ThreadState
<1>3. \A s \in Threads : s # t => thread'[s] = thread[s]
  BY DEF Answered, Goto, WorkInv, WorkerLoginTypeOK
<1>4. /\ thread[t].pc = "wait" /\ thread'[t].tries = thread[t].tries /\ thread'[t].pc = "reported"
      /\ thread[t].tries = 1 => request[<<t, 2>>].pc = "done"
  BY TypesOf DEF Answered, Goto, WorkInv, WorkerLoginTypeOK
<1>5. Turn(t)'
  BY <1>1, <1>2, <1>4, TypesOf DEF Turn, Second
<1>6. Found(t)'
  BY <1>1, <1>2, <1>4, TypesOf DEF Turn, Found, Young
<1>7. Second(t)'
  BY <1>1, <1>2, <1>4, TypesOf DEF Turn, Second, Young
<1> QED BY <1>2, <1>3, <1>5, <1>6, <1>7, ThreadMoves

LEMMA UnauthorizedKeeps ==
    ASSUME WorkInv, NEW t \in Threads, Unauthorized(t)
    PROVE  WorkInv'
<1>1. Turn(t) /\ Found(t) /\ Second(t)
  BY DEF WorkInv, ThreadsInv
<1>2. UNCHANGED <<user, session, login, request, guid>> /\ WorkerLoginTypeOK'
  BY WorkerLoginAssumption, TypesOf
  DEF Unauthorized, Goto, SetLock, sessionVars, WorkInv, WorkerLoginTypeOK, SessionsTypeOK,
      ThreadState
<1>3. \A s \in Threads : s # t => thread'[s] = thread[s]
  BY DEF Unauthorized, Goto, WorkInv, WorkerLoginTypeOK
<1>4. /\ thread[t].pc = "wait" /\ thread'[t].tries = 1
      /\ \/ /\ thread[t].tries = 0 /\ thread'[t].pc = "relogin"
            /\ login[<<t, 2>>].pc = "start" /\ request[<<t, 2>>].pc = "start"
         \/ thread[t].tries = 1 /\ thread'[t].pc = "lost" /\ request[<<t, 2>>].pc = "refused"
  BY <1>1, TypesOf DEF Unauthorized, Turn, Second, WorkInv, WorkerLoginTypeOK
<1>5. Turn(t)'
  BY <1>1, <1>2, <1>4 DEF Turn, Second
<1>6. Found(t)'
  BY <1>1, <1>2, <1>4 DEF Turn, Found, Young
<1>7. Second(t)'
  BY <1>1, <1>2, <1>4 DEF Turn, Second, Young
<1> QED BY <1>2, <1>3, <1>5, <1>6, <1>7, ThreadMoves

(* A login that is refused, or finds its user. *)
LEMMA LoginMoves ==
    ASSUME WorkInv, WorkerLoginTypeOK', NEW t \in Threads, LoggingIn(t),
           UNCHANGED <<user, session, request, guid, thread>>,
           login[LoginOf(t)].pc = "start",
           \A c \in Calls : c # LoginOf(t) => login'[c] = login[c],
           \/ login'[LoginOf(t)].pc = "refused"
           \/ /\ login'[LoginOf(t)].pc = "found"
              /\ login'[LoginOf(t)].user = Account[Home[t]]
              /\ login'[LoginOf(t)].multi = user[Account[Home[t]]].multi
    PROVE  WorkInv'
<1> DEFINE l == LoginOf(t)
<1>1. /\ l \in Calls /\ l[1] = t
      /\ \/ thread[t].pc = "login" /\ l = <<t, 1>>
         \/ thread[t].pc = "relogin" /\ l = <<t, 2>>
      /\ \A c \in Calls : c # l => login'[c] = login[c]
  BY TypesOf, CallsOf DEF LoggingIn
<1>2. login[l].pc = "start" /\ login'[l].pc \in {"found", "refused"}
      /\ (login'[l].pc = "found" =>
            /\ login'[l].user = Account[Home[t]]
            /\ login'[l].multi = user[Account[Home[t]]].multi)
  OBVIOUS
<1>3. LoginOK(l)
  BY <1>1 DEF WorkInv, CallsInv
<1> HIDE DEF l
<1>4. ASSUME NEW s \in Threads PROVE Turn(s)' /\ Found(s)' /\ Second(s)' /\ Rivalled(s)'
  <2>1. Turn(s) /\ Found(s) /\ Second(s) /\ Rivalled(s)
    BY DEF WorkInv, ThreadsInv
  <2>2. s # t => login'[<<s, 1>>] = login[<<s, 1>>] /\ login'[<<s, 2>>] = login[<<s, 2>>]
    BY <1>1, CallsOf
  <2>3. \A n \in {1, 2} : <<s, n>> # l => login'[<<s, n>>] = login[<<s, n>>]
    BY <1>1, CallsOf
  <2>4. Turn(s)'
    BY <1>1, <1>2, <2>1, <2>2, <2>3, CallsOf, TypesOf DEF Turn
  <2>5. Found(s)'
    BY <1>1, <1>2, <2>1, <2>2, <2>3, CallsOf DEF Found, Young
  <2>6. Second(s)'
    BY <1>1, <1>2, <2>1, <2>2, <2>3, CallsOf DEF Second, Young
  <2>7. Rivalled(s)'
    BY <1>1, <1>2, <2>1 DEF Rivalled, Rival
  <2> QED BY <2>4, <2>5, <2>6, <2>7
<1>5. \A c \in Calls : LoginOK(c)' /\ ReportOK(c)'
  BY <1>1, <1>2, <1>3 DEF WorkInv, CallsInv, LoginOK, ReportOK
<1>6. GuidsInv' /\ UsersInv'
  BY <1>1, <1>2 DEF WorkInv, GuidsInv, UsersInv, GuidOK, WorkerLoginTypeOK
<1> QED BY <1>4, <1>5, <1>6 DEF WorkInv, ThreadsInv, CallsInv

LEMMA LoginKeeps ==
    ASSUME WorkInv, NEW t \in Threads, Login(t)
    PROVE  WorkInv'
<1> DEFINE l == LoginOf(t)
<1>1. l \in Logins /\ Account[Home[t]] \in Users
  BY TypesOf, OwnCalls, WorkerLoginAssumption
<1>2. SessionsTypeOK
  BY DEF WorkInv, WorkerLoginTypeOK
<1>3. UNCHANGED <<guid, lock, thread>> /\ LoggingIn(t)
  BY DEF Login, workerLoginVars
<1> HIDE DEF l
<1>4. CASE DoLoginFind(l, Account[Home[t]])
  <2>1. SessionsTypeOK'
    BY <1>1, <1>2, <1>4 DEF SessionsTypeOK, DoLoginFind, LoginState
  <2>2. /\ UNCHANGED <<user, session, request>> /\ login[l].pc = "start"
        /\ \A c \in Calls : c # l => login'[c] = login[c]
        /\ login'[l] = [pc |-> "found", user |-> Account[Home[t]],
                       multi |-> user[Account[Home[t]]].multi]
    BY <1>1, <1>2, <1>4, WorkerLoginAssumption DEF DoLoginFind, SessionsTypeOK
  <2> QED BY <1>3, <2>1, <2>2, LoginMoves DEF l, WorkInv, WorkerLoginTypeOK
<1>5. CASE DoLoginRefuse(l, Account[Home[t]])
  <2>1. SessionsTypeOK'
    BY <1>1, <1>2, <1>5 DEF SessionsTypeOK, DoLoginRefuse, LoginGoto, LoginState
  <2>2. /\ UNCHANGED <<user, session, request>> /\ login[l].pc = "start"
        /\ \A c \in Calls : c # l => login'[c] = login[c]
        /\ login'[l].pc = "refused"
    BY <1>1, <1>2, <1>5, WorkerLoginAssumption DEF DoLoginRefuse, LoginGoto, SessionsTypeOK
  <2> QED BY <1>3, <2>1, <2>2, LoginMoves DEF l, WorkInv, WorkerLoginTypeOK
<1> QED BY <1>4, <1>5 DEF Login, l

(* The GUID that is kept is of a session that is young. *)
LEMMA LoggedInKeeps ==
    ASSUME WorkInv, NEW t \in Threads, LoggedIn(t)
    PROVE  WorkInv'
<1> DEFINE l == LoginOf(t)
<1>1. /\ l \in Calls /\ l[1] = t /\ l # NoGuid
      /\ \/ thread[t].pc = "login" /\ l = <<t, 1>>
         \/ thread[t].pc = "relogin" /\ l = <<t, 2>>
  <2>1. thread[t].pc \in {"login", "relogin"}
    BY DEF LoggingIn, LoggedIn
  <2>2. \/ thread[t].pc = "login" /\ l = <<t, 1>>
        \/ thread[t].pc = "relogin" /\ l = <<t, 2>>
    <3>1. CASE thread[t].pc = "login"
      BY <3>1, TypesOf
    <3>2. CASE thread[t].pc = "relogin"
      BY <3>2, TypesOf
    <3> QED BY <2>1, <3>1, <3>2
  <2>3. l \in Calls /\ l[1] = t
    BY <2>2, CallsOf
  <2> QED BY <2>2, <2>3, WorkerLoginAssumption
<1>2. /\ UNCHANGED <<user, session, login, request>>
      /\ login[l].pc = "done"
      /\ guid' = [guid EXCEPT ![Home[t]] = l]
  BY DEF LoggedIn, sessionVars
<1>3. /\ thread'[t].pc = "send" /\ thread'[t].tries = thread[t].tries
      /\ \A s \in Threads : s # t => thread'[s] = thread[s]
  BY DEF LoggedIn, Goto, WorkInv, WorkerLoginTypeOK
<1>4. WorkerLoginTypeOK'
  <2>1. /\ thread' \in [Threads -> [pc : ThreadState, tries : 0 .. 1]]
        /\ lock' \in [Workers -> BOOLEAN]
    BY WorkerLoginAssumption
    DEF LoggedIn, Goto, SetLock, WorkInv, WorkerLoginTypeOK, ThreadState
  <2>2. guid' \in [Workers -> Calls \cup {NoGuid}]
    BY <1>1, <1>2 DEF WorkInv, WorkerLoginTypeOK
  <2>3. SessionsTypeOK'
    BY DEF WorkInv, WorkerLoginTypeOK, SessionsTypeOK, LoggedIn, sessionVars
  <2> QED BY <2>1, <2>2, <2>3 DEF WorkerLoginTypeOK
<1> HIDE DEF l
<1>5. /\ guid'[Home[t]] = l
      /\ \A w \in Workers : w # Home[t] => guid'[w] = guid[w]
  BY <1>2, TypesOf DEF WorkInv, WorkerLoginTypeOK
<1>6. Young(l)
  BY <1>1, <1>2 DEF WorkInv, ThreadsInv, Found
<1>7. ASSUME NEW s \in Threads PROVE Turn(s)' /\ Found(s)' /\ Second(s)' /\ Rivalled(s)'
  <2>1. Turn(s) /\ Found(s) /\ Second(s) /\ Rivalled(s)
    BY DEF WorkInv, ThreadsInv
  <2>2. Home[s] \in Workers
    BY TypesOf
  <2>3. Turn(s)'
    BY <1>1, <1>2, <1>3, <1>5, <2>1, <2>2 DEF Turn
  <2>4. Found(s)'
    BY <1>1, <1>2, <1>3, <2>1 DEF Found, Young
  <2>5. ASSUME l = <<s, 1>> PROVE s = t /\ thread[t].pc = "login"
    <3>1. s = t
      BY <1>1, <2>5, CallsOf
    <3> QED BY <1>1, <2>5, <3>1, CallsOf
  <2>6. Second(s)'
    BY <1>1, <1>2, <1>3, <1>5, <1>6, <2>1, <2>2, <2>5 DEF Second, Young, Turn
  <2>7. Rivalled(s)'
    BY <1>2, <2>1 DEF Rivalled, Rival
  <2> QED BY <2>3, <2>4, <2>6, <2>7
<1>8. CallsInv' /\ UsersInv'
  BY <1>2 DEF WorkInv, CallsInv, UsersInv, LoginOK, ReportOK
<1>9. GuidsInv'
  BY <1>1, <1>2, <1>5 DEF WorkInv, GuidsInv, GuidOK
<1> QED BY <1>4, <1>7, <1>8, <1>9 DEF WorkInv, ThreadsInv

(* A report goes out with the GUID the worker has. *)
LEMMA SendKeeps ==
    ASSUME WorkInv, NEW t \in Threads, Send(t)
    PROVE  WorkInv'
<1> DEFINE r == RequestOf(t)
<1>1. /\ Turn(t) /\ Found(t) /\ Second(t) /\ Rivalled(t)
      /\ thread[t].pc = "send" /\ Home[t] \in Workers /\ Account[Home[t]] \in Users
  BY TypesOf DEF WorkInv, ThreadsInv, Send
<1>2. /\ r \in Calls /\ r[1] = t
      /\ \/ thread[t].tries = 0 /\ r = <<t, 1>>
         \/ thread[t].tries = 1 /\ r = <<t, 2>>
  BY OwnCalls
<1>3. PICK g \in Calls :
        g = guid[Home[t]] /\ login[g].pc = "done" /\ Home[g[1]] = Home[t]
  <2>1. guid[Home[t]] \in Calls \cup {NoGuid} /\ GuidOK(Home[t])
    BY <1>1 DEF WorkInv, GuidsInv, WorkerLoginTypeOK
  <2> QED BY <1>1, <2>1 DEF GuidOK, Turn
<1>4. session[g].row # "none" /\ session[g].user = Account[Home[t]]
  BY <1>3 DEF WorkInv, CallsInv, LoginOK
<1>5. /\ UNCHANGED <<user, session, stray, login, guid, lock>>
      /\ request' = [request EXCEPT ![r] = [pc |-> "named", kind |-> "call",
                                           user |-> Account[Home[t]], guid |-> g]]
  BY <1>1, <1>3 DEF Send, CheckUser, WorkInv, UsersInv
<1>6. /\ thread'[t].pc = "wait" /\ thread'[t].tries = thread[t].tries
      /\ \A s \in Threads : s # t => thread'[s] = thread[s]
  BY DEF Send, Goto, WorkInv, WorkerLoginTypeOK
<1>7. WorkerLoginTypeOK'
  <2>1. thread' \in [Threads -> [pc : ThreadState, tries : 0 .. 1]]
    BY DEF Send, Goto, WorkInv, WorkerLoginTypeOK, ThreadState
  <2>2. SessionsTypeOK'
    BY <1>1, <1>2, <1>3, <1>5, WorkerLoginAssumption
    DEF WorkInv, WorkerLoginTypeOK, SessionsTypeOK, RequestState, Kind
  <2> QED BY <1>5, <2>1, <2>2 DEF WorkInv, WorkerLoginTypeOK
<1> HIDE DEF r
<1>8. /\ \A c \in Calls : c # r => request'[c] = request[c]
      /\ request'[r].pc = "named" /\ request'[r].kind = "call"
      /\ request'[r].user = Account[Home[t]] /\ request'[r].guid = g
  BY <1>2, <1>5, WorkerLoginAssumption DEF WorkInv, WorkerLoginTypeOK, SessionsTypeOK
<1>9. Second(t)'
  <2>1. UNCHANGED <<session, login, guid>>
    BY <1>5
  <2>2. CASE r = <<t, 1>>
    <3>1. thread[t].tries = 0 /\ request'[<<t, 2>>] = request[<<t, 2>>]
      BY <1>2, <1>8, <2>2, CallsOf
    <3> QED BY <1>1, <1>6, <2>1, <3>1 DEF Second, Turn
  <2>3. CASE r = <<t, 2>>
    <3>1. thread[t].tries = 1 /\ request'[<<t, 2>>].pc = "named" /\ request'[<<t, 2>>].guid = g
      BY <1>2, <1>8, <2>3, CallsOf
    <3>2. login[<<t, 2>>].pc = "done" => Young(g) /\ g # <<t, 1>>
      BY <1>1, <1>3, <3>1 DEF Second
    <3> QED BY <1>6, <2>1, <3>1, <3>2 DEF Second, Young
  <2> QED BY <1>2, <2>2, <2>3
<1>10. ASSUME NEW s \in Threads PROVE Turn(s)' /\ Found(s)' /\ Second(s)' /\ Rivalled(s)'
  <2>1. Turn(s) /\ Found(s) /\ Second(s) /\ Rivalled(s)
    BY DEF WorkInv, ThreadsInv
  <2>2. r # <<s, 2>> => request'[<<s, 2>>] = request[<<s, 2>>]
    BY <1>8, CallsOf
  <2>3. r = <<s, 2>> => s = t /\ thread[t].tries = 1
    BY <1>2, CallsOf
  <2>4. Turn(s)'
    BY <1>1, <1>5, <1>6, <2>1, <2>2, <2>3 DEF Turn
  <2>5. Found(s)'
    BY <1>1, <1>5, <1>6, <2>1 DEF Found, Young
  <2>6. Second(s)'
    <3>1. CASE s = t
      BY <1>9, <3>1
    <3>2. CASE s # t
      <4>1. request'[<<s, 2>>] = request[<<s, 2>>] /\ thread'[s] = thread[s]
        BY <1>6, <2>2, <2>3, <3>2
      <4>2. UNCHANGED <<session, login, guid>>
        BY <1>5
      <4> QED BY <2>1, <4>1, <4>2 DEF Second, Young
    <3> QED BY <3>1, <3>2
  <2>7. Rivalled(s)'
    BY <1>5, <2>1 DEF Rivalled, Rival
  <2> QED BY <2>4, <2>5, <2>6, <2>7
<1>11. CallsInv'
  BY <1>2, <1>4, <1>5, <1>8 DEF WorkInv, CallsInv, LoginOK, ReportOK
<1>12. GuidsInv' /\ UsersInv'
  BY <1>5 DEF WorkInv, GuidsInv, UsersInv, GuidOK
<1> QED BY <1>7, <1>10, <1>11, <1>12 DEF WorkInv, ThreadsInv

(* What may happen to the row of a session that is open; a handler may end *)
(* in the same step.                                                       *)
LEMMA RowMoves ==
    ASSUME WorkInv, WorkerLoginTypeOK', UNCHANGED <<user, login, guid, thread>>,
           NEW g \in Calls, session[g].row \in {"fresh", "stale"},
           session'[g].user = session[g].user,
           session'[g].row \in {"fresh", "stale", "gone"},
           \A c \in Calls : c # g => session'[c] = session[c],
           \A c \in Calls : /\ request'[c].kind = request[c].kind
                            /\ request'[c].user = request[c].user
                            /\ request'[c].guid = request[c].guid
                            /\ request'[c].pc # request[c].pc =>
                                 request[c].pc = "admitted" /\ request'[c].pc = "done",
           session'[g].row = "gone" =>
               /\ ~user[session[g].user].multi
               /\ \A t \in Threads : g = <<t, 2>> => Rival(t, session[g].user),
           session'[g].row = "stale" => \A t \in Threads :
               /\ thread[t].tries = 1 => thread[t].pc \in {"reported", "lost"}
               /\ thread[t].pc = "login" => g # <<t, 1>>
    PROVE  WorkInv'
<1>1. \A c \in Calls : /\ session'[c].user = session[c].user
                       /\ session'[c].row = "none" <=> session[c].row = "none"
                       /\ session[c].row = "gone" => session'[c].row = "gone"
  OBVIOUS
<1>2. \A c \in Calls : Young(c) /\ session'[g].row # "stale" => Young(c)'
  BY DEF Young
<1>3. ASSUME NEW t \in Threads PROVE Turn(t)' /\ Found(t)' /\ Second(t)' /\ Rivalled(t)'
  <2>1. Turn(t) /\ Found(t) /\ Second(t) /\ Rivalled(t)
    BY DEF WorkInv, ThreadsInv
  <2>2. <<t, 1>> \in Calls /\ <<t, 2>> \in Calls
    BY CallsOf
  <2>3. Turn(t)'
    BY <2>1, <2>2 DEF Turn
  <2>4. Found(t)'
    <3>1. CASE session'[g].row # "stale"
      BY <1>2, <2>1, <2>2, <3>1 DEF Found
    <3>2. CASE session'[g].row = "stale"
      <4>1. thread[t].pc # "relogin"
        BY <2>1, <3>2, TypesOf DEF Turn
      <4>2. thread[t].pc = "login" => session'[<<t, 1>>] = session[<<t, 1>>]
        BY <2>2, <3>2
      <4> QED BY <2>1, <4>1, <4>2 DEF Found, Young
    <3> QED BY <3>1, <3>2
  <2>5. request[<<t, 2>>].guid \in Calls
    BY <2>2, WorkerLoginAssumption DEF WorkInv, WorkerLoginTypeOK, SessionsTypeOK
  <2>6. thread[t].pc = "send" => guid[Home[t]] \in Calls
    BY <2>1, TypesOf DEF Turn, WorkInv, WorkerLoginTypeOK
  <2>7. session'[g].row = "stale" =>
          ~(thread[t].tries = 1 /\ thread[t].pc = "send") /\ request[<<t, 2>>].pc # "named"
    BY <2>1 DEF Second
  <2>8. Second(t)'
    BY <1>1, <1>2, <2>1, <2>2, <2>5, <2>6, <2>7 DEF Second
  <2>9. Rivalled(t)'
    <3>1. CASE g = <<t, 2>>
      BY <1>1, <2>2, <3>1 DEF Rivalled, Rival
    <3>2. CASE g # <<t, 2>>
      BY <2>1, <2>2, <3>2 DEF Rivalled, Rival
    <3> QED BY <3>1, <3>2
  <2> QED BY <2>3, <2>4, <2>8, <2>9
<1>4. ASSUME NEW c \in Calls PROVE LoginOK(c)' /\ ReportOK(c)'
  <2>1. LoginOK(c) /\ ReportOK(c) /\ LoginOK(g)
    BY DEF WorkInv, CallsInv
  <2>2. LoginOK(c)'
    BY <1>1, <2>1 DEF LoginOK
  <2>3. request[c].guid \in Calls
    BY WorkerLoginAssumption DEF WorkInv, WorkerLoginTypeOK, SessionsTypeOK
  <2>4. ReportOK(c)'
    BY <1>1, <2>1, <2>3 DEF ReportOK
  <2> QED BY <2>2, <2>4
<1>5. GuidsInv' /\ UsersInv'
  BY DEF WorkInv, GuidsInv, UsersInv, GuidOK
<1> QED BY <1>3, <1>4, <1>5 DEF WorkInv, ThreadsInv, CallsInv

(* DoLogin saves the session of the login that its thread waits for. *)
LEMMA SaveKeeps ==
    ASSUME WorkInv, NEW c \in Calls, DoLoginSave(c), UNCHANGED workerLoginVars
    PROVE  WorkInv'
<1>1. /\ UNCHANGED <<user, stray, request, guid, lock, thread>>
      /\ c \in Logins /\ c[1] \in Threads /\ SessionsTypeOK
      /\ login[c].pc = "found" /\ LoginOK(c)
      /\ session' = [session EXCEPT ![c] = [row |-> "fresh", user |-> login[c].user]]
      /\ login' = [login EXCEPT ![c] = [pc |-> "done", user |-> login[c].user,
                                       multi |-> login[c].multi]]
  BY CallsOf, WorkerLoginAssumption
  DEF DoLoginSave, LoginGoto, workerLoginVars, WorkInv, WorkerLoginTypeOK, CallsInv
<1>2. WorkerLoginTypeOK'
  BY <1>1 DEF WorkInv, WorkerLoginTypeOK, SessionsTypeOK, RowState, LoginState
<1>3. /\ session'[c].row = "fresh" /\ session'[c].user = login[c].user
      /\ login'[c].pc = "done" /\ login'[c].user = login[c].user
      /\ login'[c].multi = login[c].multi
      /\ \A d \in Calls : d # c => session'[d] = session[d] /\ login'[d] = login[d]
  BY <1>1, WorkerLoginAssumption DEF SessionsTypeOK
<1>4. session[c].row = "none"
  BY <1>1 DEF LoginOK
<1>5. ASSUME NEW t \in Threads PROVE Turn(t)' /\ Found(t)' /\ Second(t)' /\ Rivalled(t)'
  <2>1. Turn(t) /\ Found(t) /\ Second(t) /\ Rivalled(t)
    BY DEF WorkInv, ThreadsInv
  <2>2. <<t, 1>> \in Calls /\ <<t, 2>> \in Calls /\ <<t, 1>> # <<t, 2>>
    BY CallsOf
  <2>3. \/ c = <<t, 1>> /\ thread[t].pc = "login"
        \/ c = <<t, 2>> /\ thread[t].pc = "relogin"
        \/ c # <<t, 1>> /\ c # <<t, 2>>
    BY <1>1, <2>1 DEF Found
  <2>4. Turn(t)'
    BY <1>1, <1>3, <2>1, <2>2, <2>3, TypesOf DEF Turn
  <2>5. Found(t)'
    BY <1>1, <1>3, <2>1, <2>2, <2>3 DEF Found, Young
  <2>6. request[<<t, 2>>].pc # "start" => request[<<t, 2>>].guid # c
    BY <1>4, <2>2 DEF WorkInv, CallsInv, ReportOK
  <2>7. thread[t].pc = "send" => guid[Home[t]] # c /\ guid[Home[t]] \in Calls
    BY <1>1, <2>1, TypesOf DEF Turn, WorkInv, WorkerLoginTypeOK, GuidsInv, GuidOK
  <2>8. request[<<t, 2>>].guid \in Calls
    BY <1>1, <2>2, WorkerLoginAssumption DEF SessionsTypeOK
  <2>9. Second(t)'
    BY <1>1, <1>3, <2>1, <2>2, <2>3, <2>6, <2>7, <2>8 DEF Second, Young
  <2>10. Rivalled(t)'
    BY <1>1, <1>3, <2>1, <2>2 DEF Rivalled, Rival
  <2> QED BY <2>4, <2>5, <2>9, <2>10
<1>6. ASSUME NEW d \in Calls PROVE LoginOK(d)' /\ ReportOK(d)'
  <2>1. LoginOK(d) /\ ReportOK(d)
    BY DEF WorkInv, CallsInv
  <2>2. LoginOK(d)'
    BY <1>1, <1>3, <2>1 DEF LoginOK
  <2>3. request[d].guid \in Calls
    BY <1>1, WorkerLoginAssumption DEF SessionsTypeOK
  <2>4. ReportOK(d)'
    BY <1>1, <1>3, <1>4, <2>1, <2>3 DEF ReportOK
  <2> QED BY <2>2, <2>4
<1>7. GuidsInv' /\ UsersInv'
  BY <1>1, <1>3 DEF WorkInv, WorkerLoginTypeOK, GuidsInv, UsersInv, GuidOK
<1> QED BY <1>2, <1>5, <1>6, <1>7 DEF WorkInv, ThreadsInv, CallsInv

(* DoLogin deletes an older session: its own thread's second login cannot  *)
(* be that session's, so it is a rival.                                    *)
LEMMA DeleteKeeps ==
    ASSUME WorkInv, NEW c \in Calls, DoLoginDelete(c), UNCHANGED workerLoginVars
    PROVE  WorkInv'
<1>1. /\ UNCHANGED <<user, stray, login, request, guid, lock, thread>>
      /\ c \in Logins /\ c[1] \in Threads /\ SessionsTypeOK
      /\ login[c].pc = "found" /\ LoginOK(c) /\ ~login[c].multi
  BY CallsOf, WorkerLoginAssumption
  DEF DoLoginDelete, workerLoginVars, WorkInv, WorkerLoginTypeOK, CallsInv
<1>2. PICK g \in Calls : /\ session[g].row \in {"fresh", "stale"}
                        /\ session[g].user = login[c].user
                        /\ session' = [session EXCEPT ![g] =
                                          [row |-> "gone", user |-> session[g].user]]
  BY WorkerLoginAssumption DEF DoLoginDelete, OpenOf, Open, SetRow
<1>3. WorkerLoginTypeOK'
  BY <1>1, <1>2, WorkerLoginAssumption
  DEF WorkInv, WorkerLoginTypeOK, SessionsTypeOK, RowState
<1>4. /\ session'[g].row = "gone" /\ session'[g].user = session[g].user
      /\ \A d \in Calls : d # g => session'[d] = session[d]
  BY <1>1, <1>2, WorkerLoginAssumption DEF SessionsTypeOK
<1>5. ~user[session[g].user].multi
  BY <1>1, <1>2 DEF LoginOK
<1>6. ASSUME NEW t \in Threads, g = <<t, 2>> PROVE Rival(t, session[g].user)
  <2>1. Turn(t) /\ Found(t) /\ LoginOK(g)
    BY DEF WorkInv, ThreadsInv, CallsInv
  <2>2. c # <<t, 2>>
    BY <1>1, <1>2, <1>6, <2>1 DEF LoginOK
  <2>3. c # <<t, 1>>
    BY <1>1, <1>2, <1>6, <2>1, TypesOf DEF LoginOK, Turn, Found
  <2>4. c[1] # t
    BY <2>2, <2>3, CallsOf
  <2> QED BY <1>1, <1>2, <2>4 DEF Rival
<1> QED BY <1>1, <1>2, <1>3, <1>4, <1>5, <1>6, RowMoves

(* A handler of the manager comes to an answer. *)
LEMMA RequestMoves ==
    ASSUME WorkInv, WorkerLoginTypeOK', UNCHANGED <<user, session, login, guid, thread>>,
           \A c \in Calls : /\ request'[c].kind = request[c].kind
                            /\ request'[c].user = request[c].user
                            /\ request'[c].guid = request[c].guid
                            /\ request'[c].pc # request[c].pc =>
                                 \/ request[c].pc = "admitted" /\ request'[c].pc = "done"
                                 \/ request[c].pc = "named" /\ request'[c].pc = "admitted"
                                 \/ /\ request[c].pc = "named" /\ request'[c].pc = "refused"
                                    /\ session[request[c].guid].row # "fresh"
    PROVE  WorkInv'
<1>1. ASSUME NEW t \in Threads PROVE Turn(t)' /\ Found(t)' /\ Second(t)' /\ Rivalled(t)'
  <2>1. Turn(t) /\ Found(t) /\ Second(t) /\ Rivalled(t)
    BY DEF WorkInv, ThreadsInv
  <2>2. <<t, 2>> \in Calls
    BY CallsOf
  <2>3. Turn(t)'
    BY <2>1, <2>2 DEF Turn
  <2>4. Found(t)' /\ Rivalled(t)'
    BY <2>1 DEF Found, Young, Rivalled, Rival
  <2>5. Second(t)'
    BY <2>1, <2>2 DEF Second, Young
  <2> QED BY <2>3, <2>4, <2>5
<1>2. CallsInv'
  BY DEF WorkInv, CallsInv, LoginOK, ReportOK
<1>3. GuidsInv' /\ UsersInv'
  BY DEF WorkInv, GuidsInv, UsersInv, GuidOK
<1> QED BY <1>1, <1>2, <1>3 DEF WorkInv, ThreadsInv

LEMMA TouchKeeps ==
    ASSUME WorkInv, NEW c \in Calls, TouchSession(c), UNCHANGED workerLoginVars
    PROVE  WorkInv'
<1> DEFINE g == request[c].guid
<1>1. /\ UNCHANGED <<user, login, guid, lock, thread>> /\ SessionsTypeOK
      /\ request[c].pc = "admitted" /\ g \in Calls
      /\ request' = [request EXCEPT ![c] =
                       [pc |-> "done", kind |-> request[c].kind,
                        user |-> request[c].user, guid |-> g]]
  BY WorkerLoginAssumption
  DEF TouchSession, RequestGoto, workerLoginVars, WorkInv, WorkerLoginTypeOK, SessionsTypeOK
<1>2. WorkerLoginTypeOK'
  <2>1. request' \in [Requests -> [pc : RequestState, kind : Kind,
                                  user : Users, guid : Logins]]
    BY <1>1, WorkerLoginAssumption DEF SessionsTypeOK, RequestState
  <2>2. session' \in [Logins -> [row : RowState, user : Users]] /\ stray' \in BOOLEAN
    <3>1. CASE Open(g)
      <4>1. /\ stray' = stray /\ g \in Logins
            /\ session' = [session EXCEPT ![g] = [row |-> "fresh", user |-> session[g].user]]
        BY <1>1, <3>1, WorkerLoginAssumption DEF TouchSession, SetRow
      <4> QED BY <1>1, <4>1 DEF SessionsTypeOK, RowState
    <3>2. CASE ~Open(g)
      BY <1>1, <3>2 DEF SessionsTypeOK, TouchSession
    <3> QED BY <3>1, <3>2
  <2> QED BY <1>1, <2>1, <2>2 DEF WorkInv, WorkerLoginTypeOK, SessionsTypeOK
<1>3. \A d \in Calls : /\ request'[d].kind = request[d].kind
                       /\ request'[d].user = request[d].user
                       /\ request'[d].guid = request[d].guid
                       /\ request'[d].pc # request[d].pc =>
                            request[d].pc = "admitted" /\ request'[d].pc = "done"
  BY <1>1, WorkerLoginAssumption DEF SessionsTypeOK
<1>4. CASE Open(g)
  <2>1. session' = [session EXCEPT ![g] = [row |-> "fresh", user |-> session[g].user]]
    BY <1>4 DEF TouchSession, SetRow
  <2>2. /\ session'[g].row = "fresh" /\ session'[g].user = session[g].user
        /\ \A d \in Calls : d # g => session'[d] = session[d]
    BY <1>1, <2>1, WorkerLoginAssumption DEF SessionsTypeOK
  <2> QED BY <1>1, <1>2, <1>3, <1>4, <2>2, RowMoves DEF Open
<1>5. CASE ~Open(g)
  <2>1. UNCHANGED session
    BY <1>5 DEF TouchSession
  <2> QED BY <1>1, <1>2, <1>3, <2>1, RequestMoves
<1> QED BY <1>4, <1>5

LEMMA CheckKeeps ==
    ASSUME WorkInv, NEW c \in Calls, CheckSession(c), UNCHANGED workerLoginVars
    PROVE  WorkInv'
<1> DEFINE g == request[c].guid
<1>1. /\ UNCHANGED <<user, session, stray, login, guid, lock, thread>> /\ SessionsTypeOK
      /\ request[c].pc = "named" /\ g \in Logins /\ c \in Requests /\ ReportOK(c)
  BY WorkerLoginAssumption
  DEF CheckSession, workerLoginVars, WorkInv, WorkerLoginTypeOK, SessionsTypeOK, CallsInv
<1>2. PICK to \in {"admitted", "refused"} :
        /\ request' = [request EXCEPT ![c] =
                         [pc |-> to, kind |-> request[c].kind,
                          user |-> request[c].user, guid |-> g]]
        /\ to = "refused" => session[g] # [row |-> "fresh", user |-> request[c].user]
  BY DEF CheckSession, RequestGoto
<1>3. WorkerLoginTypeOK'
  BY <1>1, <1>2 DEF WorkInv, WorkerLoginTypeOK, SessionsTypeOK, RequestState
<1>4. to = "refused" => session[g].row # "fresh"
  BY <1>1, <1>2 DEF ReportOK, SessionsTypeOK
<1>5. \A d \in Calls : /\ request'[d].kind = request[d].kind
                       /\ request'[d].user = request[d].user
                       /\ request'[d].guid = request[d].guid
                       /\ d = c => request'[d].pc = to
                       /\ d # c => request'[d].pc = request[d].pc
  BY <1>1, <1>2, WorkerLoginAssumption DEF SessionsTypeOK
<1> QED BY <1>1, <1>3, <1>4, <1>5, RequestMoves

(* A session ages in nobody's second try, and when it has been used. *)
LEMMA AgesKeeps ==
    ASSUME WorkInv, NEW c \in Calls, Ages(c)
    PROVE  WorkInv'
<1>1. /\ UNCHANGED <<user, stray, login, request, guid, lock, thread>> /\ SessionsTypeOK
      /\ session[c].row = "fresh" /\ c \in Logins
      /\ session' = [session EXCEPT ![c] = [row |-> "stale", user |-> session[c].user]]
  BY WorkerLoginAssumption
  DEF Ages, Expire, SetRow, workerLoginVars, WorkInv, WorkerLoginTypeOK
<1>2. WorkerLoginTypeOK'
  BY <1>1 DEF WorkInv, WorkerLoginTypeOK, SessionsTypeOK, RowState
<1>3. /\ session'[c].row = "stale" /\ session'[c].user = session[c].user
      /\ \A d \in Calls : d # c => session'[d] = session[d]
  BY <1>1, WorkerLoginAssumption DEF SessionsTypeOK
<1>4. ASSUME NEW t \in Threads
      PROVE  /\ thread[t].tries = 1 => thread[t].pc \in {"reported", "lost"}
             /\ thread[t].pc = "login" => c # <<t, 1>>
  BY TypesOf, CallsOf DEF Ages, LoggingIn
<1> QED BY <1>1, <1>2, <1>3, <1>4, RowMoves

LEMMA WorkInvInit == WorkerLoginInit => WorkInv
<1> SUFFICES ASSUME WorkerLoginInit PROVE WorkInv
  OBVIOUS
<1> USE WorkerLoginAssumption DEF WorkerLoginInit
<1>1. SessionsTypeOK
  BY FillersTyped DEF SessionsInit, SessionsTypeOK, RowState, LoginState, RequestState, Kind
<1>2. WorkerLoginTypeOK
  BY <1>1 DEF WorkerLoginTypeOK, ThreadState
<1>3. /\ \A c \in Calls : /\ login[c].pc = "start" /\ request[c].pc = "start"
                          /\ session[c].row = "none"
      /\ \A t \in Threads : thread[t].pc = "start" /\ thread[t].tries = 0
      /\ \A w \in Workers : guid[w] = NoGuid
  BY DEF SessionsInit
<1>4. ThreadsInv
  BY <1>3, CallsOf DEF ThreadsInv, Turn, Found, Second, Rivalled
<1>5. CallsInv /\ GuidsInv
  BY <1>3 DEF CallsInv, GuidsInv, LoginOK, ReportOK, GuidOK
<1>6. UsersInv
  BY DEF UsersInv, SessionsInit
<1> QED BY <1>2, <1>4, <1>5, <1>6 DEF WorkInv

LEMMA WorkInvNext == WorkInv /\ [WorkerLoginNext]_allVars => WorkInv'
<1> SUFFICES ASSUME WorkInv, [WorkerLoginNext]_allVars PROVE WorkInv'
  OBVIOUS
<1>1. ASSUME NEW t \in Threads, ThreadStep(t) PROVE WorkInv'
  BY <1>1, BeginKeeps, LockKeeps, FailsKeeps, LoginKeeps, LoggedInKeeps,
     ReLoginFailsKeeps, SendKeeps, AnsweredKeeps, UnauthorizedKeeps DEF ThreadStep
<1>2. ASSUME NEW c \in Calls, ManagerStep(c) PROVE WorkInv'
  <2>1. ~Logout(c)
    BY DEF Logout, WorkInv, CallsInv, ReportOK
  <2> QED BY <1>2, <2>1, SaveKeeps, DeleteKeeps, CheckKeeps, TouchKeeps
      DEF ManagerStep, DoLoginStep, RequestStep
<1>3. CASE UNCHANGED allVars
  <2>1. UNCHANGED <<user, session, stray, login, request, guid, lock, thread>>
    BY <1>3 DEF allVars, sessionVars, workerLoginVars
  <2>2. WorkerLoginTypeOK'
    BY <2>1 DEF WorkInv, WorkerLoginTypeOK, SessionsTypeOK
  <2> QED BY <2>1, <2>2, RequestMoves
<1> QED BY <1>1, <1>2, <1>3, AgesKeeps DEF WorkerLoginNext

(* The inductive invariant holds throughout. *)
THEOREM WorkInvariance == WorkerLoginSpec => []WorkInv
BY WorkInvInit, WorkInvNext, PTL DEF WorkerLoginSpec

(* The manager's tables, Api.guid, loginmutex and the threads of the       *)
(* workers keep to their types: no thread tries a third time (sendStatus:  *)
(* "Retry login (only once)").                                             *)
THEOREM WorkerLoginTypes == WorkerLoginSpec => []WorkerLoginTypeOK
<1>1. WorkInv => WorkerLoginTypeOK
  BY DEF WorkInv
<1> QED BY <1>1, WorkInvariance, PTL

(* A report is lost only if one of the thread's own logins was refused, or *)
(* another thread logged in to the same account, that is not MultiLogin.   *)
THEOREM LostOnlyToRivals == WorkerLoginSpec => []LostNeedsRival
<1>1. ASSUME WorkInv PROVE LostNeedsRival
  <2> SUFFICES ASSUME NEW t \in Threads, thread[t].pc = "lost",
                      login[<<t, 2>>].pc # "refused"
               PROVE  ~user[Account[Home[t]]].multi /\ Rival(t, Account[Home[t]])
    BY DEF LostNeedsRival, Rival
  <2> DEFINE g == request[<<t, 2>>].guid
  <2>1. Turn(t) /\ Second(t) /\ Rivalled(t) /\ <<t, 2>> \in Calls
    BY <1>1, CallsOf DEF WorkInv, ThreadsInv
  <2>2. thread[t].tries = 1 /\ login[<<t, 2>>].pc = "done" /\ request[<<t, 2>>].pc = "refused"
    BY <1>1, <2>1, TypesOf DEF Turn
  <2>3. session[g].row = "gone" /\ g # <<t, 1>>
    BY <2>1, <2>2 DEF Second
  <2>4. session[g].user = Account[Home[t]]
    BY <1>1, <2>1, <2>2, CallsOf DEF WorkInv, CallsInv, ReportOK
  <2>5. g \in Calls
    BY <1>1, <2>1, WorkerLoginAssumption DEF WorkInv, WorkerLoginTypeOK, SessionsTypeOK
  <2>6. LoginOK(g)
    BY <1>1, <2>5 DEF WorkInv, CallsInv
  <2>7. CASE g = <<t, 2>>
    BY <2>1, <2>3, <2>4, <2>6, <2>7 DEF Rivalled, LoginOK
  <2>8. CASE g # <<t, 2>>
    <3>1. g[1] # t
      BY <2>3, <2>5, <2>8, CallsOf
    <3> QED BY <2>3, <2>4, <2>5, <2>6, <3>1 DEF LoginOK, Rival
  <2> QED BY <2>7, <2>8
<1> QED BY <1>1, WorkInvariance, PTL

(* A thread's step is a step of the manager's handlers, or none of theirs. *)
LEMMA ThreadsCall ==
    ASSUME WorkInv, NEW t \in Threads, ThreadStep(t)
    PROVE  [SessionsNext]_sessionVars
<1> USE DEF ThreadStep
<1>1. Account[Home[t]] \in Users /\ LoginOf(t) \in Logins /\ RequestOf(t) \in Requests
  BY OwnCalls, TypesOf, WorkerLoginAssumption
<1>2. CASE Login(t)
  BY <1>1, <1>2 DEF Login, SessionsNext
<1>3. CASE Send(t)
  <2>1. PICK g \in Logins : g = guid[Home[t]] /\ session[g].row # "none"
    <3>1. thread[t].pc = "send" /\ Turn(t)
      BY <1>3 DEF Send, WorkInv, ThreadsInv
    <3>2. guid[Home[t]] \in Calls /\ GuidOK(Home[t])
      BY <3>1, TypesOf DEF Turn, WorkInv, WorkerLoginTypeOK, GuidsInv
    <3>3. session[guid[Home[t]]].row # "none"
      BY <3>1, <3>2, TypesOf DEF Turn, GuidOK, WorkInv, CallsInv, LoginOK
    <3> QED BY <3>2, <3>3, WorkerLoginAssumption
  <2>2. CheckUser(RequestOf(t), "call", Account[Home[t]], g) /\ "call" \in Kind
    BY <1>3, <2>1 DEF Send, Kind
  <2> QED BY <1>1, <2>1, <2>2 DEF SessionsNext
<1>4. CASE ~Login(t) /\ ~Send(t)
  BY <1>4 DEF AddJobBegin, AddJobLock, AddJobLoginFails, LoggedIn, ReLoginFails, Answered,
     Unauthorized
<1> QED BY <1>2, <1>3, <1>4

(* The composition implements its component: whatever the threads of the   *)
(* workers do, the manager's sessions behave as Sessions says.             *)
THEOREM WorkersUseSessions == WorkerLoginSpec => SessionsSpec
<1>1. WorkerLoginInit => SessionsInit
  BY DEF WorkerLoginInit
<1>2. WorkInv /\ [WorkerLoginNext]_allVars => [SessionsNext]_sessionVars
  <2> SUFFICES ASSUME WorkInv, [WorkerLoginNext]_allVars PROVE [SessionsNext]_sessionVars
    OBVIOUS
  <2>1. ASSUME NEW c \in Calls, ManagerStep(c) \/ Ages(c) PROVE SessionsNext
    BY <2>1, WorkerLoginAssumption DEF ManagerStep, Ages, SessionsNext
  <2>2. CASE UNCHANGED allVars
    BY <2>2 DEF allVars
  <2> QED BY <2>1, <2>2, ThreadsCall DEF WorkerLoginNext
<1> QED BY <1>1, <1>2, WorkInvariance, PTL DEF WorkerLoginSpec, SessionsSpec

(* However many threads of however many workers log in and retry, two      *)
(* sessions of one account are open only if it was MultiLogin.             *)
THEOREM WorkersHoldOneSession == WorkerLoginSpec => []OneSession
BY WorkersUseSessions, OneSessionHolds

(* No report of a worker that is still being served opens the session      *)
(* again that the login of another one has closed.                         *)
THEOREM WorkersReopenNothing == WorkerLoginSpec => ClosedForGood
BY WorkersUseSessions, ClosedSessionsStayClosed

-----------------------------------------------------------------------------
(* Nobody is stuck                                                         *)

(* loginmutex of a worker is held by the one thread that logs in under it. *)
LockExclusive ==
    /\ \A w \in Workers : lock[w] <=> \E t \in Threads : Home[t] = w /\ thread[t].pc = "login"
    /\ \A s, t \in Threads :
         thread[s].pc = "login" /\ thread[t].pc = "login" /\ Home[s] = Home[t] => s = t

(* A step in which nobody takes loginmutex, or frees it. *)
LEMMA LockStays ==
    ASSUME LockExclusive, UNCHANGED lock,
           \A t \in Threads : thread'[t].pc = "login" <=> thread[t].pc = "login"
    PROVE  LockExclusive'
BY DEF LockExclusive

(* The steps of a thread: where it is, and where it goes. *)
LEMMA ThreadGoes ==
    ASSUME WorkInv, NEW t \in Threads, ThreadStep(t)
    PROVE  /\ \A s \in Threads : s # t => thread'[s] = thread[s]
           /\ \/ UNCHANGED <<thread, lock>>
              \/ /\ thread[t].pc = "start" /\ thread'[t].pc \in {"lock", "send"}
                 /\ thread'[t].tries = thread[t].tries /\ UNCHANGED lock
              \/ /\ thread[t].pc = "lock" /\ thread'[t].pc = "login" /\ ~lock[Home[t]]
                 /\ thread'[t].tries = thread[t].tries /\ SetLock(Home[t], TRUE)
              \/ /\ thread[t].pc = "login" /\ thread'[t].pc \in {"aborted", "send"}
                 /\ thread'[t].tries = thread[t].tries /\ SetLock(Home[t], FALSE)
              \/ /\ thread[t].pc = "relogin" /\ thread'[t].pc = "send"
                 /\ thread'[t].tries = thread[t].tries /\ UNCHANGED lock
              \/ /\ thread[t].pc = "send" /\ thread'[t].pc = "wait"
                 /\ thread'[t].tries = thread[t].tries /\ UNCHANGED lock
              \/ /\ thread[t].pc = "wait" /\ thread'[t].pc = "reported"
                 /\ thread'[t].tries = thread[t].tries /\ UNCHANGED lock
              \/ /\ thread[t].pc = "wait" /\ thread'[t].tries = 1 /\ UNCHANGED lock
                 /\ \/ thread[t].tries = 0 /\ thread'[t].pc = "relogin"
                    \/ thread[t].tries = 1 /\ thread'[t].pc = "lost"
<1>0. thread \in [Threads -> [pc : ThreadState, tries : 0 .. 1]]
  BY DEF WorkInv, WorkerLoginTypeOK
<1>1. CASE AddJobBegin(t)
  BY <1>0, <1>1 DEF AddJobBegin, Goto
<1>2. CASE AddJobLock(t)
  BY <1>0, <1>2 DEF AddJobLock, Goto
<1>3. CASE AddJobLoginFails(t)
  BY <1>0, <1>3 DEF AddJobLoginFails, Goto
<1>4. CASE Login(t)
  BY <1>4 DEF Login, workerLoginVars
<1>5. CASE LoggedIn(t)
  BY <1>0, <1>5 DEF LoggedIn, Goto, LoggingIn
<1>6. CASE ReLoginFails(t)
  BY <1>0, <1>6 DEF ReLoginFails, Goto
<1>7. CASE Send(t)
  BY <1>0, <1>7 DEF Send, Goto
<1>8. CASE Answered(t)
  BY <1>0, <1>8 DEF Answered, Goto
<1>9. CASE Unauthorized(t)
  <2>1. thread[t].tries \in {0, 1}
    BY <1>0
  <2> QED BY <1>0, <1>9, <2>1 DEF Unauthorized
<1> QED BY <1>1, <1>2, <1>3, <1>4, <1>5, <1>6, <1>7, <1>8, <1>9 DEF ThreadStep

LEMMA LockExclusiveNext ==
    ASSUME WorkInv, LockExclusive, NEW t \in Threads, ThreadStep(t)
    PROVE  LockExclusive'
<1> DEFINE w == Home[t]
<1>0. w \in Workers /\ lock \in [Workers -> BOOLEAN] /\ \A s \in Threads : Home[s] \in Workers
  BY TypesOf DEF WorkInv, WorkerLoginTypeOK
<1>1. \A s \in Threads : s # t => thread'[s] = thread[s]
  BY ThreadGoes
<1>2. CASE thread[t].pc = "lock" /\ thread'[t].pc = "login" /\ ~lock[w] /\ SetLock(w, TRUE)
  <2>1. lock'[w] /\ \A v \in Workers : v # w => lock'[v] = lock[v]
    BY <1>0, <1>2 DEF SetLock
  <2>2. \A s \in Threads : Home[s] = w => thread[s].pc # "login"
    BY <1>0, <1>2 DEF LockExclusive
  <2>3. \A v \in Workers :
          lock'[v] <=> \E s \in Threads : Home[s] = v /\ thread'[s].pc = "login"
    <3> SUFFICES ASSUME NEW v \in Workers
                 PROVE  lock'[v] <=> \E s \in Threads : Home[s] = v /\ thread'[s].pc = "login"
      OBVIOUS
    <3>1. CASE v = w
      BY <1>2, <2>1, <3>1
    <3>2. CASE v # w
      BY <1>1, <2>1, <3>2 DEF LockExclusive
    <3> QED BY <3>1, <3>2
  <2>4. \A r, s \in Threads :
          thread'[r].pc = "login" /\ thread'[s].pc = "login" /\ Home[r] = Home[s] => r = s
    BY <1>1, <2>2 DEF LockExclusive
  <2> QED BY <2>3, <2>4 DEF LockExclusive
<1>3. CASE thread[t].pc = "login" /\ thread'[t].pc # "login" /\ SetLock(w, FALSE)
  <2>1. ~lock'[w] /\ \A v \in Workers : v # w => lock'[v] = lock[v]
    BY <1>0, <1>3 DEF SetLock
  <2>2. \A s \in Threads : Home[s] = w => thread'[s].pc # "login"
    BY <1>1, <1>3 DEF LockExclusive
  <2>3. \A v \in Workers :
          lock'[v] <=> \E s \in Threads : Home[s] = v /\ thread'[s].pc = "login"
    <3> SUFFICES ASSUME NEW v \in Workers
                 PROVE  lock'[v] <=> \E s \in Threads : Home[s] = v /\ thread'[s].pc = "login"
      OBVIOUS
    <3>1. CASE v = w
      BY <2>1, <2>2, <3>1
    <3>2. CASE v # w
      BY <1>1, <2>1, <3>2 DEF LockExclusive
    <3> QED BY <3>1, <3>2
  <2>4. \A r, s \in Threads :
          thread'[r].pc = "login" /\ thread'[s].pc = "login" /\ Home[r] = Home[s] => r = s
    BY <1>1, <1>3 DEF LockExclusive
  <2> QED BY <2>3, <2>4 DEF LockExclusive
<1>4. CASE UNCHANGED lock /\ (thread'[t].pc = "login" <=> thread[t].pc = "login")
  BY <1>1, <1>4, LockStays
<1> QED BY <1>2, <1>3, <1>4, ThreadGoes

(* loginmutex is held exactly while one of the worker's threads logs in    *)
(* under it: no way out of AddJob leaves it locked, and the logins under   *)
(* it never overlap.                                                       *)
THEOREM LoginsExclude == WorkerLoginSpec => []LockExclusive
<1>1. WorkerLoginInit => LockExclusive
  BY DEF WorkerLoginInit, LockExclusive
<1>2. WorkInv /\ LockExclusive /\ [WorkerLoginNext]_allVars => LockExclusive'
  <2> SUFFICES ASSUME WorkInv, LockExclusive, [WorkerLoginNext]_allVars
               PROVE  LockExclusive'
    OBVIOUS
  <2>1. CASE \E c \in Calls : ManagerStep(c) \/ Ages(c)
    BY <2>1, LockStays DEF ManagerStep, Ages, workerLoginVars
  <2>2. CASE UNCHANGED allVars
    BY <2>2, LockStays DEF allVars, workerLoginVars
  <2> QED BY <2>1, <2>2, LockExclusiveNext DEF WorkerLoginNext
<1> QED BY <1>1, <1>2, WorkInvariance, PTL DEF WorkerLoginSpec

-----------------------------------------------------------------------------
(* A thread has sent its report of this try exactly if it waits for the    *)
(* answer, or has it.                                                      *)
Place(t) ==
    /\ thread[t].tries = 0 =>
         (request[<<t, 1>>].pc = "start" <=> thread[t].pc \notin {"wait", "reported"})
    /\ thread[t].tries = 1 =>
         (request[<<t, 2>>].pc = "start" <=> thread[t].pc \in {"relogin", "send"})
PlacesInv == \A t \in Threads : Place(t)

(* A step that sends no report. *)
LEMMA NobodySends ==
    ASSUME WorkInv, PlacesInv, NEW t \in Threads,
           \A c \in Calls : request'[c].pc = "start" <=> request[c].pc = "start",
           UNCHANGED thread \/ (ThreadStep(t) /\ ~Send(t))
    PROVE  PlacesInv'
<1>0. WorkInv /\ PlacesInv
  OBVIOUS
<1> SUFFICES ASSUME NEW s \in Threads PROVE Place(s)'
  BY DEF PlacesInv
<1>1. /\ Place(s) /\ Turn(s) /\ Second(s)
      /\ thread[s].tries = 0 \/ thread[s].tries = 1
      /\ <<s, 1>> \in Calls /\ <<s, 2>> \in Calls
  BY <1>0, TypesOf, CallsOf DEF PlacesInv, WorkInv, ThreadsInv
<1>2. CASE thread'[s] = thread[s]
  BY <1>1, <1>2 DEF Place
<1>3. CASE thread'[s] # thread[s]
  <2>1. s = t /\ ThreadStep(t) /\ ~Send(t)
    BY <1>0, <1>3, ThreadGoes
  <2>2. \/ /\ thread[t].pc \in {"start", "lock", "login", "relogin"}
           /\ thread'[t].pc \in {"lock", "login", "aborted", "send"}
           /\ thread'[t].tries = thread[t].tries
        \/ /\ thread[t].pc = "wait" /\ thread'[t].pc = "reported"
           /\ thread'[t].tries = thread[t].tries
        \/ /\ thread[t].pc = "wait" /\ thread[t].tries = 0
           /\ thread'[t].pc = "relogin" /\ thread'[t].tries = 1
        \/ /\ thread[t].pc = "wait" /\ thread[t].tries = 1
           /\ thread'[t].pc = "lost" /\ thread'[t].tries = 1
    <3>1. ~(thread[t].pc = "send" /\ thread'[t].pc = "wait")
      BY <2>1 DEF ThreadStep, AddJobBegin, AddJobLock, AddJobLoginFails, Login, LoggedIn,
         ReLoginFails, Answered, Unauthorized, LoggingIn
    <3> QED BY <1>3, <2>1, <3>1, ThreadGoes
  <2>3. /\ request'[<<s, 1>>].pc = "start" <=> request[<<s, 1>>].pc = "start"
        /\ request'[<<s, 2>>].pc = "start" <=> request[<<s, 2>>].pc = "start"
    BY <1>1
  <2>4. CASE /\ thread[t].pc \in {"start", "lock", "login", "relogin"}
             /\ thread'[t].pc \in {"lock", "login", "aborted", "send"}
             /\ thread'[t].tries = thread[t].tries
    <3>1. CASE thread[s].tries = 0
      BY <1>1, <2>1, <2>3, <2>4, <3>1 DEF Place
    <3>2. CASE thread[s].tries = 1
      <4>1. thread[s].pc = "relogin"
        BY <1>1, <2>1, <2>4, <3>2 DEF Turn
      <4>2. thread'[s].pc = "send"
        BY <2>1, <4>1, <1>0, ThreadGoes, <2>4
      <4> QED BY <1>1, <2>1, <2>3, <2>4, <3>2, <4>1, <4>2 DEF Place
    <3> QED BY <1>1, <3>1, <3>2
  <2>5. CASE thread[t].pc = "wait"
    BY <1>1, <2>1, <2>2, <2>3, <2>5 DEF Place, Second
  <2> QED BY <2>2, <2>4, <2>5
<1> QED BY <1>2, <1>3

LEMMA SendPlaces ==
    ASSUME WorkInv, PlacesInv, NEW t \in Threads, Send(t)
    PROVE  PlacesInv'
<1>0. WorkInv /\ PlacesInv /\ ThreadStep(t)
  BY DEF ThreadStep
<1>1. /\ RequestOf(t) \in Calls /\ RequestOf(t) \in Requests
      /\ \/ thread[t].tries = 0 /\ RequestOf(t) = <<t, 1>>
         \/ thread[t].tries = 1 /\ RequestOf(t) = <<t, 2>>
  BY <1>0, OwnCalls, WorkerLoginAssumption
<1>2. /\ request'[RequestOf(t)].pc # "start"
      /\ \A c \in Calls : c # RequestOf(t) => request'[c] = request[c]
  BY <1>1, WorkerLoginAssumption
  DEF Send, CheckUser, WorkInv, WorkerLoginTypeOK, SessionsTypeOK
<1>3. /\ thread[t].pc = "send" /\ thread'[t].pc = "wait" /\ thread'[t].tries = thread[t].tries
      /\ \A s \in Threads : s # t => thread'[s] = thread[s]
  BY DEF Send, Goto, WorkInv, WorkerLoginTypeOK
<1> SUFFICES ASSUME NEW s \in Threads PROVE Place(s)'
  BY DEF PlacesInv
<1>4. Place(s) /\ <<s, 1>> \in Calls /\ <<s, 2>> \in Calls
  BY <1>0, CallsOf DEF PlacesInv
<1>5. CASE s = t
  BY <1>1, <1>2, <1>3, <1>5 DEF Place
<1>6. CASE s # t
  <2>1. RequestOf(t) # <<s, 1>> /\ RequestOf(t) # <<s, 2>>
    BY <1>1, <1>6, CallsOf
  <2> QED BY <1>2, <1>3, <1>4, <1>6, <2>1 DEF Place
<1> QED BY <1>5, <1>6

THEOREM PlacesInvariance == WorkerLoginSpec => []PlacesInv
<1>1. WorkerLoginInit => PlacesInv
  <2> SUFFICES ASSUME WorkerLoginInit PROVE PlacesInv
    OBVIOUS
  <2>1. /\ \A c \in Calls : request[c].pc = "start"
        /\ \A t \in Threads : thread[t].pc = "start" /\ thread[t].tries = 0
    BY WorkerLoginAssumption DEF WorkerLoginInit, SessionsInit
  <2> QED BY <2>1, CallsOf DEF PlacesInv, Place
<1>2. WorkInv /\ PlacesInv /\ [WorkerLoginNext]_allVars => PlacesInv'
  <2> SUFFICES ASSUME WorkInv, PlacesInv, [WorkerLoginNext]_allVars PROVE PlacesInv'
    OBVIOUS
  <2>1. CASE \E t \in Threads : ThreadStep(t)
    <3>1. PICK t \in Threads : ThreadStep(t)
      BY <2>1
    <3>2. CASE Send(t)
      BY <3>2, SendPlaces
    <3>3. CASE ~Send(t)
      <4>1. UNCHANGED request
        BY <3>1, <3>3 DEF ThreadStep, AddJobBegin, AddJobLock, AddJobLoginFails, Login,
           LoggedIn, ReLoginFails, Answered, Unauthorized, DoLoginFind, DoLoginRefuse,
           sessionVars
      <4> QED BY <3>1, <3>3, <4>1, NobodySends
    <3> QED BY <3>2, <3>3
  <2>2. CASE \E c \in Calls : ManagerStep(c) \/ Ages(c)
    <3>1. PICK c \in Calls : ManagerStep(c) \/ Ages(c)
      BY <2>2
    <3>2. UNCHANGED thread
      BY <3>1 DEF ManagerStep, Ages, workerLoginVars
    <3>3. \A d \in Calls : request'[d].pc = "start" <=> request[d].pc = "start"
      <4>1. CASE UNCHANGED request
        BY <4>1
      <4>2. CASE RequestStep(c)
        <5>1. request[c].pc # "start" /\ request'[c].pc # "start"
          BY <4>2, WorkerLoginAssumption
          DEF RequestStep, CheckSession, TouchSession, Logout, RequestGoto, WorkInv,
              WorkerLoginTypeOK, SessionsTypeOK
        <5>2. \A d \in Calls : d # c => request'[d] = request[d]
          BY <4>2, WorkerLoginAssumption
          DEF RequestStep, CheckSession, TouchSession, Logout, RequestGoto, WorkInv,
              WorkerLoginTypeOK, SessionsTypeOK
        <5> QED BY <5>1, <5>2
      <4> QED BY <3>1, <4>1, <4>2 DEF ManagerStep, Ages, DoLoginStep, DoLoginSave,
             DoLoginDelete, Expire
    <3>4. c[1] \in Threads
      BY CallsOf
    <3> QED BY <3>2, <3>3, <3>4, NobodySends
  <2>3. CASE UNCHANGED allVars
    BY <2>3 DEF allVars, sessionVars, workerLoginVars, PlacesInv, Place
  <2> QED BY <2>1, <2>2, <2>3 DEF WorkerLoginNext
<1> QED BY <1>1, <1>2, WorkInvariance, PTL DEF WorkerLoginSpec

Ended(t) == thread[t].pc \in {"reported", "lost", "aborted"}

(* When a thread can take a step, and when one of the handlers of the      *)
(* manager that serve it can.                                              *)
ThreadCan(t) ==
    \/ thread[t].pc = "start"
    \/ thread[t].pc = "lock" /\ ~lock[Home[t]]
    \/ /\ LoggingIn(t)
       /\ \/ login[LoginOf(t)].pc = "start" /\ user[Account[Home[t]]].live
          \/ login[LoginOf(t)].pc \in {"done", "refused"}
    \/ thread[t].pc = "send" /\ request[RequestOf(t)].pc = "start"
    \/ thread[t].pc = "wait" /\ request[RequestOf(t)].pc \in {"done", "refused"}

ServedCan(t) ==
    \E n \in {1, 2} :
        \/ login[<<t, n>>].pc = "found"
        \/ request[<<t, n>>].pc = "named"
        \/ request[<<t, n>>].pc = "admitted" /\ request[<<t, n>>].kind = "call"

(* A thread that has not ended can go on, or the handler that serves it    *)
(* can, or it waits for loginmutex, and the thread that holds it can go on *)
(* or is served (ThreadsEnd).                                              *)
HandlersNotStuck ==
    \A t \in Threads :
        \/ Ended(t) \/ ThreadCan(t) \/ ServedCan(t)
        \/ /\ thread[t].pc = "lock"
           /\ \E s \in Threads : /\ Home[s] = Home[t] /\ thread[s].pc = "login"
                                 /\ ThreadCan(s) \/ ServedCan(s)

THEOREM ThreadsAreNotStuck == WorkerLoginSpec => []HandlersNotStuck
<1>1. ASSUME WorkInv, LockExclusive, PlacesInv PROVE HandlersNotStuck
  <2>1. \A t \in Threads : /\ LoginOf(t) \in Calls /\ RequestOf(t) \in Calls
                           /\ LoginOf(t) = <<t, 1>> \/ LoginOf(t) = <<t, 2>>
                           /\ RequestOf(t) = <<t, 1>> \/ RequestOf(t) = <<t, 2>>
    BY <1>1, OwnCalls, TypesOf
  <2>2. ASSUME NEW t \in Threads, LoggingIn(t) PROVE ThreadCan(t) \/ ServedCan(t)
    <3>1. login[LoginOf(t)].pc \in LoginState
      BY <1>1, <2>1, WorkerLoginAssumption DEF WorkInv, WorkerLoginTypeOK, SessionsTypeOK
    <3>2. user[Account[Home[t]]].live
      BY <1>1, TypesOf DEF WorkInv, UsersInv
    <3>3. CASE login[LoginOf(t)].pc = "found"
      BY <2>1, <3>3 DEF ServedCan
    <3>4. CASE login[LoginOf(t)].pc # "found"
      BY <2>2, <3>1, <3>2, <3>4 DEF LoginState, ThreadCan
    <3> QED BY <3>3, <3>4
  <2>3. ASSUME NEW t \in Threads, thread[t].pc = "send" PROVE ThreadCan(t)
    <3>1. Place(t)
      BY <1>1 DEF PlacesInv
    <3>2. \/ thread[t].tries = 0 /\ RequestOf(t) = <<t, 1>>
          \/ thread[t].tries = 1 /\ RequestOf(t) = <<t, 2>>
      BY <1>1, OwnCalls
    <3>3. request[RequestOf(t)].pc = "start"
      BY <2>3, <3>1, <3>2 DEF Place
    <3> QED BY <2>3, <3>3 DEF ThreadCan
  <2>4. ASSUME NEW t \in Threads, thread[t].pc = "wait" PROVE ThreadCan(t) \/ ServedCan(t)
    <3>0. /\ Place(t)
          /\ \/ thread[t].tries = 0 /\ RequestOf(t) = <<t, 1>>
             \/ thread[t].tries = 1 /\ RequestOf(t) = <<t, 2>>
      BY <1>1, OwnCalls DEF PlacesInv
    <3>1. request[RequestOf(t)].pc # "start"
      BY <2>4, <3>0 DEF Place
    <3>2. request[RequestOf(t)].pc \in RequestState /\ request[RequestOf(t)].kind = "call"
      BY <1>1, <2>1, <3>1, WorkerLoginAssumption
      DEF WorkInv, WorkerLoginTypeOK, SessionsTypeOK, CallsInv, ReportOK
    <3>3. CASE request[RequestOf(t)].pc \in {"done", "refused"}
      BY <2>4, <3>3 DEF ThreadCan
    <3>4. CASE request[RequestOf(t)].pc \in {"named", "admitted"}
      BY <2>1, <3>2, <3>4 DEF ServedCan
    <3> QED BY <3>1, <3>2, <3>3, <3>4 DEF RequestState
  <2>5. ASSUME NEW t \in Threads, thread[t].pc = "lock", lock[Home[t]]
        PROVE  \E s \in Threads : /\ Home[s] = Home[t] /\ thread[s].pc = "login"
                                  /\ ThreadCan(s) \/ ServedCan(s)
    <3>1. PICK s \in Threads : Home[s] = Home[t] /\ thread[s].pc = "login"
      BY <1>1, <2>5, TypesOf DEF LockExclusive
    <3> QED BY <2>2, <3>1 DEF LoggingIn
  <2>6. ASSUME NEW t \in Threads, thread[t].pc \in {"start", "lock"}, ~lock[Home[t]]
        PROVE  ThreadCan(t)
    BY <2>6 DEF ThreadCan
  <2>7. \A t \in Threads : thread[t].pc \in ThreadState
    BY <1>1, TypesOf
  <2>8. \A t \in Threads : thread[t].pc = "start" => ThreadCan(t)
    BY DEF ThreadCan
  <2> QED BY <2>2, <2>3, <2>4, <2>5, <2>6, <2>7, <2>8
      DEF HandlersNotStuck, Ended, ThreadState, LoggingIn
<1> QED BY <1>1, WorkInvariance, LoginsExclude, PlacesInvariance, PTL

(* How far a thread has come, of its two tries. *)
Turns(t) ==
    CASE thread[t].pc = "start" -> 0
      [] thread[t].pc = "lock" -> 1
      [] thread[t].pc = "login" -> 2
      [] thread[t].pc = "send" -> 3 + 3 * thread[t].tries
      [] thread[t].pc = "wait" -> 4 + 3 * thread[t].tries
      [] thread[t].pc = "relogin" -> 5
      [] OTHER -> 8

(* A thread only goes forward, so that it has ended after eight steps of   *)
(* its own: whatever is refused, it tries once more at most (sendStatus:   *)
(* "Retry login (only once) on a 401").                                    *)
OnlyTwoTries ==
    [][\A t \in Threads : thread'[t] # thread[t] => Turns(t) < Turns(t)']_allVars

THEOREM ThreadsGoForward == WorkerLoginSpec => OnlyTwoTries
<1>1. WorkInv /\ [WorkerLoginNext]_allVars =>
        [\A t \in Threads : thread'[t] # thread[t] => Turns(t) < Turns(t)']_allVars
  <2> SUFFICES ASSUME WorkInv, WorkerLoginNext, NEW t \in Threads, thread'[t] # thread[t]
               PROVE  Turns(t) < Turns(t)'
    OBVIOUS
  <2>1. ThreadStep(t)
    <3>1. ~\E c \in Calls : ManagerStep(c) \/ Ages(c)
      BY DEF ManagerStep, Ages, workerLoginVars
    <3>2. PICK s \in Threads : ThreadStep(s)
      BY <3>1 DEF WorkerLoginNext
    <3> QED BY <3>2, ThreadGoes
  <2>2. (thread[t].tries = 0 \/ thread[t].tries = 1) /\ Turn(t)
    BY TypesOf DEF WorkInv, ThreadsInv
  <2>3. \/ /\ thread'[t].tries = thread[t].tries
           /\ \/ thread[t].pc = "start" /\ thread'[t].pc \in {"lock", "send"}
              \/ thread[t].pc = "lock" /\ thread'[t].pc = "login"
              \/ thread[t].pc = "login" /\ thread'[t].pc \in {"aborted", "send"}
              \/ thread[t].pc = "relogin" /\ thread'[t].pc = "send"
              \/ thread[t].pc = "send" /\ thread'[t].pc = "wait"
              \/ thread[t].pc = "wait" /\ thread'[t].pc = "reported"
        \/ /\ thread[t].pc = "wait" /\ thread'[t].tries = 1
           /\ \/ thread[t].tries = 0 /\ thread'[t].pc = "relogin"
              \/ thread[t].tries = 1 /\ thread'[t].pc = "lost"
    BY <2>1, ThreadGoes
  <2>4. thread[t].pc = "relogin" => thread[t].tries = 1
    BY <2>2 DEF Turn
  <2> QED BY <2>2, <2>3, <2>4 DEF Turns
<1> QED BY <1>1, WorkInvariance, PTL DEF WorkerLoginSpec, OnlyTwoTries
=============================================================================
