------------------------------ MODULE UserPage ------------------------------
(***************************************************************************)
(* The users' form, controller userCtrl.  $scope.envs is the list of the   *)
(* environments, each with what the form shows of the user's permission    *)
(* for it: FillEnvTable fetches the list, and SetEnvTableFromPerms then    *)
(* copies the user's permissions into whatever list is there.  Applying    *)
(* saves the user and then the permissions of the list, one by one.        *)
(***************************************************************************)
EXTENDS WebPage

CONSTANTS
    NUsers,  \* the users there are at first
    NEnvs    \* the environments

Envs == 1 .. NEnvs
Users == 1 .. NUsers
NewUser == NUsers + 1  \* whom the add form makes
UserList == 0
AddForm == -1

ASSUME UserAssumption == NEnvs \in Nat /\ NUsers \in Nat

VARIABLES
    edituser,  \* the user whose form is shown, UserList or AddForm
    envs,      \* $scope.envs: the permission shown for each environment
    error,     \* $scope.error
    dbusers,   \* the server's users
    dbperms    \* the server's permissions: [id -> user, env, enabled]

userVars == <<edituser, envs, error, dbusers, dbperms>>

(* An environment has no .perm, one the user made by ticking it, which has *)
(* no Id, or a copy of a permission of the server.                         *)
NoPerm == [on |-> FALSE, id |-> -1]
NoPerms == [e \in Envs |-> NoPerm]
Ticked(b) == [on |-> b, id |-> 0]
Copied(i) == [on |-> dbperms[i].on, id |-> i]

PermIds(u) == {i \in DOMAIN dbperms : dbperms[i].user = u}
Has(u, e) == \E i \in PermIds(u) : dbperms[i].env = e
AllowedBy(perms, u, e) ==
    \E i \in DOMAIN perms : perms[i] = [user |-> u, env |-> e, on |-> TRUE]

UserInit ==
    /\ edituser = UserList
    /\ envs = NoPerms
    /\ error = FALSE
    /\ dbusers = Users
    /\ dbperms = [i \in Users \cap Envs |-> [user |-> i, env |-> i, on |-> i = 1]]

-----------------------------------------------------------------------------
(* The user                                                                *)

(* A request about u.  EditUserApply and AddUserApply keep the array of       *)
(* $scope.envs in arr, which stays the list that is shown until            *)
(* FillEnvTable's callback puts another in its place.                      *)
AboutUser(u) == [user |-> u, arr |-> [live |-> TRUE, list |-> None]]

EditUser(u) ==
    /\ edituser = UserList
    /\ u \in dbusers
    /\ UserActs
    /\ Send("envs", AboutUser(0))
    /\ edituser' = u
    /\ UNCHANGED <<envs, error, dbusers, dbperms>>

CloseUser ==
    /\ edituser \in dbusers
    /\ UserActs
    /\ edituser' = UserList
    /\ UNCHANGED <<net, envs, error, dbusers, dbperms>>

AddUser(tf) ==
    /\ edituser = IF tf THEN UserList ELSE AddForm
    /\ UserActs
    /\ Send("envs", AboutUser(0))
    /\ edituser' = IF tf THEN AddForm ELSE UserList
    /\ UNCHANGED <<envs, error, dbusers, dbperms>>

(* The box of environment e: ng-model makes .perm if there is none.        *)
Tick(e) ==
    /\ edituser # UserList
    /\ UserActs
    /\ envs' = [envs EXCEPT ![e] = IF envs[e] = NoPerm THEN Ticked(TRUE)
                                   ELSE [on |-> ~envs[e].on, id |-> envs[e].id]]
    /\ UNCHANGED <<net, edituser, error, dbusers, dbperms>>

EditUserApply ==
    /\ edituser \in dbusers
    /\ UserActs
    /\ Send("put", AboutUser(edituser))
    /\ UNCHANGED userVars

AddUserApply ==
    /\ edituser = AddForm
    /\ UserActs
    /\ Send("post", AboutUser(NewUser))
    /\ UNCHANGED userVars

-----------------------------------------------------------------------------
(* The server                                                              *)

ServeEnvs(s) == Awaited(s, "envs") /\ Answer(s, "ok", None) /\ UNCHANGED userVars

ServePerms(s) ==
    /\ Awaited(s, "perms")
    /\ Answer(s, "ok", [i \in PermIds(net[s].arg.user) |->
                          [env |-> dbperms[i].env, perm |-> Copied(i)]])
    /\ UNCHANGED userVars

ServePutUser(s) == Awaited(s, "put") /\ Answer(s, "ok", None) /\ UNCHANGED userVars

ServePostUser(s) ==
    /\ Awaited(s, "post")
    /\ Answer(s, IF NewUser \in dbusers THEN "refused" ELSE "ok", None)
    /\ dbusers' = dbusers \cup {NewUser}
    /\ UNCHANGED <<edituser, envs, error, dbperms>>

-----------------------------------------------------------------------------
(* The callbacks                                                           *)

(* The calls in flight hold on to the list that is replaced.               *)
Detached(n) ==
    [s \in Slots |->
        IF n[s] # NoRequest /\ n[s].op \in {"put", "post"} /\ n[s].arg.arr.live
        THEN [op |-> n[s].op, st |-> n[s].st, data |-> n[s].data,
              arg |-> [user |-> n[s].arg.user, arr |-> [live |-> FALSE, list |-> envs]]]
        ELSE n[s]]

(* edituser > 0: the list is a user's, whose permissions come next.        *)
ListFetched(n) == IF edituser > 0 THEN SendFrom(n, "perms", AboutUser(edituser)) ELSE net' = n

(* Mutant of ListAnew: the list that is there is not replaced.             *)
KeptEnvs == envs

ListAnew == NoPerms

EnvsArrive(s) ==
    /\ Arrived(s, "envs")
    /\ envs' = ListAnew
    /\ ListFetched(Detached(Without(s)))
    /\ UNCHANGED <<pageurl, loop, moves, session, broke, hasty>>
    /\ UNCHANGED <<edituser, error, dbusers, dbperms>>

PermsArrive(s) ==
    LET got == net[s].data
    IN /\ Arrived(s, "perms")
       /\ Callback(s)
       /\ envs' = [e \in Envs |->
                     IF \E i \in DOMAIN got : got[i].env = e
                     THEN got[CHOOSE i \in DOMAIN got : got[i].env = e].perm
                     ELSE envs[e]]
       /\ UNCHANGED <<edituser, error, dbusers, dbperms>>

ArrOf(s) == IF net[s].arg.arr.live THEN envs ELSE net[s].arg.arr.list

(* The loop over arr: at environment e, about to PUT or to POST, or after  *)
(* the last one.                                                           *)
Loop(edit, u, arr, e, retry) ==
    IF e > NEnvs THEN NoLoop
    ELSE [page |-> "users", edit |-> edit, user |-> u, arr |-> arr, env |-> e, post |-> retry]

PutUserArrives(s) ==
    /\ Arrived(s, "put")
    /\ EnterLoop(s, Loop(TRUE, net[s].arg.user, ArrOf(s), 1, FALSE))
    /\ UNCHANGED userVars

PostUserArrives(s) ==
    /\ Arrived(s, "post")
    /\ IF net[s].st = "ok"
       THEN /\ EnterLoop(s, Loop(FALSE, NewUser, ArrOf(s), 1, TRUE))
            /\ UNCHANGED error
       ELSE Callback(s) /\ error' = TRUE
    /\ UNCHANGED <<edituser, envs, dbusers, dbperms>>

UserRequestFails(s) ==
    LET read == net[s].op \in {"envs", "perms"}
    IN /\ ErrorCallback(s, read)
       /\ error' = (error \/ (~read /\ net[s].st = "broken"))
       /\ UNCHANGED <<edituser, envs, dbusers, dbperms>>

NextEnv == Loop(loop.edit, loop.user, loop.arr, loop.env + 1, ~loop.edit)

(* Mutant of AfterPut: what the server refused is not looked at.           *)
NoPost(err) == NextEnv

(* In EditUserApply a POST follows if $scope.error is true after the PUT,  *)
(* or was before it: nothing clears it but the POST itself.                *)
AfterPut(err) == IF err THEN Loop(TRUE, loop.user, loop.arr, loop.env, TRUE) ELSE NextEnv

SkipPut ==
    /\ loop # NoLoop
    /\ ~loop.post
    /\ loop.arr[loop.env] = NoPerm
    /\ loop' = AfterPut(error)
    /\ UNCHANGED <<pageurl, net, moves, session, broke, hasty, userVars>>

PutPerm(o) ==
    LET p == loop.arr[loop.env]
        saved == [dbperms EXCEPT ![p.id] = [user |-> dbperms[p.id].user,
                                            env |-> dbperms[p.id].env, on |-> p.on]]
        err == error \/ o \in {"refused", "broken"}
    IN /\ ~loop.post
       /\ p # NoPerm
       /\ SyncCall(o, AfterPut(err))
       /\ error' = err
       /\ \/ o \in {"ok", "broken"} /\ p.id # 0 /\ dbperms' = saved
          \/ o = "refused" /\ p.id = 0 /\ UNCHANGED dbperms
          \/ o \in {"broken", "expired"} /\ UNCHANGED dbperms
       /\ UNCHANGED <<edituser, envs, dbusers>>

PostPerm(o) ==
    LET new == [user |-> loop.user, env |-> loop.env, on |-> loop.arr[loop.env].on]
    IN /\ loop.post
       /\ SyncCall(o, NextEnv)
       /\ error' = (o \in {"refused", "broken"} \/ (~loop.edit /\ error))
       /\ \/ /\ o \in {"ok", "broken"}
             /\ ~Has(loop.user, loop.env)
             /\ dbperms' = WithRow(dbperms, NextId(dbperms), new)
          \/ o = "refused" /\ Has(loop.user, loop.env) /\ UNCHANGED dbperms
          \/ o \in {"broken", "expired"} /\ UNCHANGED dbperms
       /\ UNCHANGED <<edituser, envs, dbusers>>

-----------------------------------------------------------------------------
UserUser ==
    \/ \E u \in Users \cup {NewUser} : EditUser(u)
    \/ CloseUser
    \/ \E tf \in BOOLEAN : AddUser(tf)
    \/ \E e \in Envs : Tick(e)
    \/ EditUserApply
    \/ AddUserApply

UserServer ==
    \/ \E s \in Slots : ServeEnvs(s) \/ ServePerms(s) \/ ServePutUser(s) \/ ServePostUser(s)
    \/ ServerFaults /\ UNCHANGED userVars

UserCallbacks ==
    \/ \E s \in Slots : \/ EnvsArrive(s) \/ PermsArrive(s)
                        \/ PutUserArrives(s) \/ PostUserArrives(s) \/ UserRequestFails(s)
    \/ SkipPut
    \/ loop # NoLoop /\ \E o \in {"ok", "refused", "expired", "broken"} : PutPerm(o) \/ PostPerm(o)

UserNext == UserUser \/ UserServer \/ UserCallbacks

-----------------------------------------------------------------------------
UserTypeOK ==
    /\ edituser \in {UserList, AddForm} \cup dbusers
    /\ dbusers \subseteq Users \cup {NewUser}
    /\ \A e \in Envs : envs[e] = NoPerm \/ envs[e].id \in DOMAIN dbperms \cup {0}
    /\ \A i \in DOMAIN dbperms : dbperms[i].user \in dbusers /\ dbperms[i].env \in Envs

(* Applying a user's form changes this user's permissions and no other's:  *)
(* the Ids in the list belong to the user the form is about, although list *)
(* and permissions arrive one after the other, long after the form has     *)
(* opened.                                                                 *)
PermsOwn ==
    [][~hasty =>
         \A i \in DOMAIN dbperms' :
            \/ i \in DOMAIN dbperms /\ dbperms'[i] = dbperms[i]
            \/ dbperms'[i].user = loop.user /\ loop.user = IF loop.edit THEN edituser ELSE NewUser
      ]_<<webVars, userVars>>

(* When a patient user's EditUserApply or AddUserApply is over, the user   *)
(* is allowed in those environments that the form has ticked.  The         *)
(* exception: a box that was ticked in this form and applied has a row and *)
(* still no Id; its PUT is refused, and so is the POST that follows.       *)
PermsSaved ==
    [][Patient' /\ loop # NoLoop /\ loop' = NoLoop /\ loop.page = "users" =>
         \A e \in Envs :
            \/ AllowedBy(dbperms', loop.user, e) = envs[e].on
            \/ envs[e].id = 0 /\ Has(loop.user, e)
      ]_<<webVars, userVars>>
=============================================================================
