------------------------------ MODULE Sessions ------------------------------
(***************************************************************************)
(* The manager's sessions: table sessions, the handlers DoLogin and        *)
(* Logout, and what every other handler does with a session: CheckLogin    *)
(* when it begins and TouchSession when it returns.  An action is one      *)
(* critical section of the global mutex.                                   *)
(*                                                                         *)
(* A login that saves a session mints a GUID of its own, so the session is *)
(* named by the login; a row once deleted (softly) is never found again.   *)
(***************************************************************************)
CONSTANTS
    Users,     \* the rows of table users
    Logins,    \* the calls of DoLogin, and the GUIDs they mint
    Requests,  \* the calls of the other handlers
    Events     \* what may happen in this instance: a subset of SessionEvents

(* "expire": a session is not touched for session_timeout minutes;         *)
(* "password": a login with a wrong password;  "admin": UpdateUser changes *)
(* MultiLogin, DeleteUser deletes a user.                                  *)
SessionEvents == {"expire", "password", "admin"}

ASSUME SessionsAssumption ==
    /\ Users # {}
    /\ Logins # {}
    /\ Events \subseteq SessionEvents

VARIABLES
    user,     \* [Users -> the row: is it live, and its MultiLogin]
    session,  \* [Logins -> the session row the login saved, and its owner]
    stray,    \* TouchSession has inserted a row that has no owner
    login,    \* [Logins -> where DoLogin is, and the user row it read]
    request   \* [Requests -> where the handler is, and its credentials]

sessionVars == <<user, session, stray, login, request>>

(* "fresh" and "stale": the row is there, "stale" if it has timed out.     *)
RowState == {"none", "fresh", "stale", "gone"}
LoginState == {"start", "found", "done", "refused"}
RequestState == {"start", "named", "admitted", "done", "refused"}
Kind == {"call", "logout", "output"}

AnyUser == CHOOSE u \in Users : TRUE
AnyLogin == CHOOSE l \in Logins : TRUE

SessionsInit ==
    /\ user \in [Users -> [live : {TRUE}, multi : BOOLEAN]]
    /\ session = [l \in Logins |-> [row |-> "none", user |-> AnyUser]]
    /\ stray = FALSE
    /\ login = [l \in Logins |-> [pc |-> "start", user |-> AnyUser, multi |-> FALSE]]
    /\ request = [r \in Requests |-> [pc |-> "start", kind |-> "call",
                                      user |-> AnyUser, guid |-> AnyLogin]]

SessionsTypeOK ==
    /\ user \in [Users -> [live : BOOLEAN, multi : BOOLEAN]]
    /\ session \in [Logins -> [row : RowState, user : Users]]
    /\ stray \in BOOLEAN
    /\ login \in [Logins -> [pc : LoginState, user : Users, multi : BOOLEAN]]
    /\ request \in [Requests -> [pc : RequestState, kind : Kind,
                                 user : Users, guid : Logins]]

-----------------------------------------------------------------------------
Open(g) == session[g].row \in {"fresh", "stale"}
OpenOf(u) == {g \in Logins : Open(g) /\ session[g].user = u}

SetRow(g, state) ==
    session' = [session EXCEPT ![g] = [row |-> state, user |-> session[g].user]]
LoginGoto(l, pc) ==
    login' = [login EXCEPT ![l] =
                [pc |-> pc, user |-> login[l].user, multi |-> login[l].multi]]
RequestGoto(r, pc) ==
    request' = [request EXCEPT ![r] =
                  [pc |-> pc, kind |-> request[r].kind,
                   user |-> request[r].user, guid |-> request[r].guid]]

-----------------------------------------------------------------------------
(* DoLogin                                                                 *)

(* The user's row is read once, its MultiLogin with it. *)
DoLoginFind(l, u) ==
    /\ login[l].pc = "start"
    /\ user[u].live
    /\ login' = [login EXCEPT ![l] =
                   [pc |-> "found", user |-> u, multi |-> user[u].multi]]
    /\ UNCHANGED <<user, session, stray, request>>

DoLoginRefuse(l, u) ==
    /\ login[l].pc = "start"
    /\ ~user[u].live \/ "password" \in Events
    /\ LoginGoto(l, "refused")
    /\ UNCHANGED <<user, session, stray, request>>

(* Mutant of DoLoginSave: the insertion is in a critical section after     *)
(* that of the look-up.                                                    *)
DoLoginSaveUnchecked(l) ==
    /\ login[l].pc = "found"
    /\ session' = [session EXCEPT ![l] = [row |-> "fresh", user |-> login[l].user]]
    /\ LoginGoto(l, "done")
    /\ UNCHANGED <<user, stray, request>>

(* Mutant of DoLoginSave: deleted rows are found as well. *)
DoLoginSaveUnscoped(l) ==
    /\ login[l].pc = "found"
    /\ \/ login[l].multi
       \/ \A g \in Logins : session[g].row = "none" \/ session[g].user # login[l].user
    /\ session' = [session EXCEPT ![l] = [row |-> "fresh", user |-> login[l].user]]
    /\ LoginGoto(l, "done")
    /\ UNCHANGED <<user, stray, request>>

(* The look-up and what follows from it are one turn of the loop. *)
DoLoginSave(l) ==
    /\ login[l].pc = "found"
    /\ login[l].multi \/ OpenOf(login[l].user) = {}
    /\ session' = [session EXCEPT ![l] = [row |-> "fresh", user |-> login[l].user]]
    /\ LoginGoto(l, "done")
    /\ UNCHANGED <<user, stray, request>>

(* The other turn deletes one old session, the one with the lowest id. *)
DoLoginDelete(l) ==
    /\ login[l].pc = "found"
    /\ ~login[l].multi
    /\ \E g \in OpenOf(login[l].user) : SetRow(g, "gone")
    /\ UNCHANGED <<user, stray, login, request>>

DoLoginStep(l) == DoLoginSave(l) \/ DoLoginDelete(l)

-----------------------------------------------------------------------------
(* CheckLogin, the first critical section: is there such a user? *)
CheckUser(r, kind, u, g) ==
    /\ request[r].pc = "start"
    /\ kind \in {"call", "logout"}
    /\ request' = [request EXCEPT ![r] =
                     [pc |-> IF user[u].live THEN "named" ELSE "refused",
                      kind |-> kind, user |-> u, guid |-> g]]
    /\ UNCHANGED <<user, session, stray, login>>

(* The second: does he have a session with this GUID, and is it recent? *)
CheckSession(r) ==
    LET g == request[r].guid IN
    /\ request[r].pc = "named"
    /\ RequestGoto(r, IF session[g] = [row |-> "fresh", user |-> request[r].user]
                      THEN "admitted" ELSE "refused")
    /\ UNCHANGED <<user, session, stray, login>>

(* CheckLoginNoExpiry of AddOutputLine: one critical section, no age, and  *)
(* no TouchSession after it.                                               *)
CheckNoExpiry(r, u, g) ==
    /\ request[r].pc = "start"
    /\ request' = [request EXCEPT ![r] =
                     [pc |-> IF user[u].live /\ g \in OpenOf(u)
                             THEN "done" ELSE "refused",
                      kind |-> "output", user |-> u, guid |-> g]]
    /\ UNCHANGED <<user, session, stray, login>>

(* Mutant of TouchSession: the row CheckLogin found is saved, with no look *)
(* whether it is still there.                                              *)
TouchSessionAnew(r) ==
    /\ request[r].pc = "admitted" /\ request[r].kind = "call"
    /\ SetRow(request[r].guid, "fresh")
    /\ RequestGoto(r, "done")
    /\ UNCHANGED <<user, stray, login>>

(* A handler returns.  When no row has its GUID any more, First leaves an  *)
(* empty session, which Save inserts.                                      *)
TouchSession(r) ==
    LET g == request[r].guid IN
    /\ request[r].pc = "admitted" /\ request[r].kind = "call"
    /\ IF Open(g) THEN SetRow(g, "fresh") /\ UNCHANGED stray
       ELSE stray' = TRUE /\ UNCHANGED session
    /\ RequestGoto(r, "done")
    /\ UNCHANGED <<user, login>>

Logout(r) ==
    /\ request[r].pc = "admitted" /\ request[r].kind = "logout"
    /\ SetRow(request[r].guid, "gone")
    /\ RequestGoto(r, "done")
    /\ UNCHANGED <<user, stray, login>>

RequestStep(r) == CheckSession(r) \/ TouchSession(r) \/ Logout(r)

-----------------------------------------------------------------------------
(* UpdateUser and DeleteUser, as sessions see them. *)
ChangeUser(u) ==
    /\ "admin" \in Events
    /\ user[u].live
    /\ \E live, multi \in BOOLEAN : user' = [user EXCEPT ![u] =
                                                [live |-> live, multi |-> multi]]
    /\ UNCHANGED <<session, stray, login, request>>

(* session_timeout minutes have passed since UpdatedAt. *)
Expire(g) ==
    /\ "expire" \in Events
    /\ session[g].row = "fresh"
    /\ SetRow(g, "stale")
    /\ UNCHANGED <<user, stray, login, request>>

-----------------------------------------------------------------------------
(* Any caller may log in as anyone, and use any GUID that was given out    *)
(* with any login name.                                                    *)
SessionsNext ==
    \/ \E l \in Logins :
         \/ \E u \in Users : DoLoginFind(l, u) \/ DoLoginRefuse(l, u)
         \/ DoLoginStep(l)
    \/ \E r \in Requests :
         \/ \E u \in Users, g \in Logins :
              /\ session[g].row # "none"
              /\ CheckNoExpiry(r, u, g) \/ \E k \in Kind : CheckUser(r, k, u, g)
         \/ RequestStep(r)
    \/ \E u \in Users : ChangeUser(u)
    \/ \E g \in Logins : Expire(g)

SessionsSpec == SessionsInit /\ [][SessionsNext]_sessionVars

(* A login that has found its user is scheduled; of the other handlers     *)
(* nothing is assumed.                                                     *)
SessionsFairSpec == SessionsSpec /\ \A l \in Logins : WF_sessionVars(DoLoginStep(l))

-----------------------------------------------------------------------------
(* However logins, logouts and touches of one user interleave, two of his  *)
(* sessions are open only if one was saved by a login that read MultiLogin *)
(* (DoLogin: "any previous sessions for that user are closed").            *)
OneSession ==
    \A g, h \in Logins :
        g # h /\ Open(g) /\ Open(h) /\ session[g].user = session[h].user
            => login[g].multi \/ login[h].multi

(* A session that was closed, by Logout or by a later login, is never open *)
(* again, whatever handlers were still at work under it (TouchSession).    *)
ClosedForGood ==
    [][\A g \in Logins : session[g].row = "gone" => session'[g].row = "gone"]_sessionVars

(* Logins that delete each other's sessions all come to an end (DoLogin's  *)
(* loop has no bound).                                                     *)
LoginsEnd == <>[](\A l \in Logins : login[l].pc # "found")

(* What OneSession rests on: only a login that is over has a session. *)
OwnersInv ==
    \A g \in Logins :
        session[g].row # "none" => login[g].pc = "done" /\ session[g].user = login[g].user

(* obdi/api.go:80 "TouchSession: Updates the UpdatedAt field": it does not *)
(* insert rows.                                                            *)
TouchOnlyUpdates == ~stray
=============================================================================
