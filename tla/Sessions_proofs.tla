-------------------------- MODULE Sessions_proofs --------------------------
(***************************************************************************)
(* Proofs about Sessions, for any users, logins, requests and events.      *)
(*                                                                         *)
(* OneSession is inductive once it is known that only a login that is over *)
(* has a session, the user's it logged in (OwnersInv): then a login that   *)
(* is about to save changes no row that is there, and what it read of      *)
(* MultiLogin does not change afterwards.  OwnersInv in turn needs that an *)
(* admitted request names a session that was saved (AdmittedInv), or       *)
(* Logout would make a row for a login still at work.                      *)
(***************************************************************************)
EXTENDS Sessions, TLAPS

AdmittedInv ==
    \A r \in Requests :
        request[r].pc = "admitted" => session[request[r].guid].row # "none"

SessionsInv == SessionsTypeOK /\ OwnersInv /\ AdmittedInv /\ OneSession

(* The fillers of unused fields are of their type. *)
LEMMA FillersTyped == AnyUser \in Users /\ AnyLogin \in Logins
BY SessionsAssumption DEF AnyUser, AnyLogin

THEOREM SessionsInvInit == SessionsInit => SessionsInv
<1> SUFFICES ASSUME SessionsInit PROVE SessionsInv
  OBVIOUS
<1>1. SessionsTypeOK
  BY FillersTyped DEF SessionsInit, SessionsTypeOK, RowState, LoginState,
     RequestState, Kind
<1>2. OwnersInv /\ AdmittedInv /\ OneSession
  BY DEF SessionsInit, OwnersInv, AdmittedInv, OneSession, Open
<1> QED BY <1>1, <1>2 DEF SessionsInv

(* What a step does to the sessions when it goes through SetRow, to a row  *)
(* that is there: no new session, no new owner, and open only if it was.   *)
LEMMA RowStep ==
    ASSUME SessionsInv, NEW g \in Logins, NEW state \in {"fresh", "stale", "gone"},
           SetRow(g, state), session[g].row # "none",
           state # "gone" => Open(g), UNCHANGED login
    PROVE  /\ session' \in [Logins -> [row : RowState, user : Users]]
           /\ OwnersInv' /\ OneSession'
           /\ \A h \in Logins : session[h].row # "none" => session'[h].row # "none"
           /\ \A h \in Logins : session[h].row = "gone" => session'[h].row = "gone"
<1> USE DEF SessionsInv, SessionsTypeOK, SetRow
<1>1. session' \in [Logins -> [row : RowState, user : Users]]
  BY DEF RowState
<1>2. \A h \in Logins :
         /\ session'[h].user = session[h].user
         /\ h # g => session'[h] = session[h]
  OBVIOUS
<1>3. session'[g].row = state
  OBVIOUS
<1>4. \A h \in Logins : Open(h)' => Open(h)
  BY <1>2, <1>3 DEF Open
<1>5. OwnersInv'
  BY <1>2, <1>3 DEF OwnersInv
<1>6. OneSession'
  BY <1>2, <1>4 DEF OneSession
<1>7. \A h \in Logins : session[h].row # "none" => session'[h].row # "none"
  BY <1>2, <1>3
<1>8. \A h \in Logins : session[h].row = "gone" => session'[h].row = "gone"
  BY <1>2, <1>3 DEF Open
<1> QED BY <1>1, <1>5, <1>6, <1>7, <1>8

(* A login that saves its session makes an open row of a login that had    *)
(* none.                                                                   *)
LEMMA SaveStep ==
    ASSUME SessionsInv, NEW l \in Logins, DoLoginSave(l)
    PROVE  SessionsInv' /\ \A h \in Logins : session[h].row = "gone" => session'[h].row = "gone"
<1> USE DEF SessionsInv, SessionsTypeOK, DoLoginSave, LoginGoto
<1>1. session[l].row = "none"
  BY DEF OwnersInv
<1>2. /\ session'[l] = [row |-> "fresh", user |-> login[l].user]
      /\ \A h \in Logins : h # l => session'[h] = session[h]
  OBVIOUS
<1>3. /\ login'[l] = [pc |-> "done", user |-> login[l].user, multi |-> login[l].multi]
      /\ \A h \in Logins : h # l => login'[h] = login[h]
  OBVIOUS
<1>4. SessionsTypeOK'
  BY DEF RowState, LoginState
<1>5. OwnersInv'
  BY <1>2, <1>3 DEF OwnersInv
<1>6. AdmittedInv'
  BY <1>2 DEF AdmittedInv
<1>7. OneSession'
  BY <1>1, <1>2, <1>3 DEF OneSession, OpenOf, Open
<1> QED BY <1>1, <1>2, <1>4, <1>5, <1>6, <1>7

(* The steps that leave the sessions alone, and the logins that have one.  *)
LEMMA QuietStep ==
    ASSUME SessionsInv, SessionsTypeOK', AdmittedInv', UNCHANGED session,
           \A l \in Logins : login'[l] = login[l] \/ login[l].pc = "start"
    PROVE  SessionsInv'
<1> USE DEF SessionsInv
<1>1. \A g \in Logins : session[g].row # "none" => login'[g] = login[g]
  BY DEF OwnersInv
<1>2. OwnersInv'
  BY <1>1 DEF OwnersInv
<1>3. OneSession'
  BY <1>1 DEF OneSession, Open
<1> QED BY <1>2, <1>3

(* Every step keeps the invariant, and opens no session that was closed.   *)
THEOREM SessionsInvNext ==
    ASSUME SessionsInv, [SessionsNext]_sessionVars
    PROVE  SessionsInv' /\ \A g \in Logins : session[g].row = "gone" => session'[g].row = "gone"
<1> DEFINE Closed == \A g \in Logins : session[g].row = "gone" => session'[g].row = "gone"
<1> USE DEF SessionsInv
<1>1. ASSUME NEW l \in Logins, NEW u \in Users, DoLoginFind(l, u) \/ DoLoginRefuse(l, u)
      PROVE  SessionsInv' /\ Closed
  <2> USE <1>1 DEF DoLoginFind, DoLoginRefuse, LoginGoto
  <2>1. SessionsTypeOK'
    BY DEF SessionsTypeOK, LoginState
  <2>2. AdmittedInv' /\ UNCHANGED session
    BY DEF AdmittedInv
  <2>3. \A k \in Logins : login'[k] = login[k] \/ login[k].pc = "start"
    BY DEF SessionsTypeOK
  <2> QED BY <2>1, <2>2, <2>3, QuietStep
<1>2. ASSUME NEW l \in Logins, DoLoginSave(l)
      PROVE  SessionsInv' /\ Closed
  BY <1>2, SaveStep
<1>3. ASSUME NEW l \in Logins, DoLoginDelete(l)
      PROVE  SessionsInv' /\ Closed
  <2>1. PICK g \in OpenOf(login[l].user) : SetRow(g, "gone")
    BY <1>3 DEF DoLoginDelete
  <2>2. g \in Logins /\ session[g].row # "none"
    BY <2>1 DEF OpenOf, Open
  <2>3. UNCHANGED <<user, stray, login, request>>
    BY <1>3 DEF DoLoginDelete
  <2> QED BY <2>1, <2>2, <2>3, RowStep DEF SessionsTypeOK, AdmittedInv
<1>4. ASSUME NEW r \in Requests, NEW u \in Users, NEW g \in Logins, NEW k \in Kind,
             session[g].row # "none", CheckNoExpiry(r, u, g) \/ CheckUser(r, k, u, g)
      PROVE  SessionsInv' /\ Closed
  <2>1. UNCHANGED <<user, session, stray, login>>
    BY <1>4 DEF CheckNoExpiry, CheckUser
  <2>2. PICK pc \in RequestState \ {"admitted"}, kind \in Kind :
          request' = [request EXCEPT ![r] = [pc |-> pc, kind |-> kind, user |-> u, guid |-> g]]
    <3>1. CASE CheckNoExpiry(r, u, g)
      <4> DEFINE pc == IF user[u].live /\ g \in OpenOf(u) THEN "done" ELSE "refused"
      <4>1. pc \in RequestState \ {"admitted"} /\ "output" \in Kind
        BY DEF RequestState, Kind
      <4> QED BY <3>1, <4>1 DEF CheckNoExpiry
    <3>2. CASE CheckUser(r, k, u, g)
      <4> DEFINE pc == IF user[u].live THEN "named" ELSE "refused"
      <4>1. pc \in RequestState \ {"admitted"}
        BY DEF RequestState
      <4> QED BY <3>2, <4>1 DEF CheckUser
    <3> QED BY <1>4, <3>1, <3>2
  <2>3. SessionsTypeOK'
    BY <2>1, <2>2 DEF SessionsTypeOK
  <2>4. AdmittedInv'
    BY <2>1, <2>2 DEF AdmittedInv, SessionsTypeOK
  <2> QED BY <2>1, <2>3, <2>4, QuietStep
<1>5. ASSUME NEW r \in Requests, CheckSession(r)
      PROVE  SessionsInv' /\ Closed
  <2> USE <1>5 DEF CheckSession, RequestGoto
  <2>1. SessionsTypeOK'
    BY DEF SessionsTypeOK, RequestState
  <2>2. AdmittedInv' /\ UNCHANGED <<session, login>>
    BY DEF AdmittedInv, SessionsTypeOK
  <2> QED BY <2>1, <2>2, QuietStep
<1>6. ASSUME NEW r \in Requests, TouchSession(r)
      PROVE  SessionsInv' /\ Closed
  <2> USE <1>6 DEF TouchSession, RequestGoto
  <2>1. request[r].guid \in Logins /\ UNCHANGED <<user, login>> /\ stray' \in BOOLEAN
    BY DEF SessionsTypeOK
  <2>2. request' \in [Requests -> [pc : RequestState, kind : Kind, user : Users, guid : Logins]]
    BY DEF SessionsTypeOK, RequestState
  <2>3. \A q \in Requests : request'[q].pc = "admitted" =>
           request[q].pc = "admitted" /\ request'[q].guid = request[q].guid
    BY DEF SessionsTypeOK
  <2>4. CASE Open(request[r].guid)
    <3>1. session[request[r].guid].row # "none"
      BY <2>4 DEF Open
    <3> QED BY <2>1, <2>2, <2>3, <2>4, <3>1, RowStep DEF SessionsTypeOK, AdmittedInv
  <2>5. CASE ~Open(request[r].guid)
    <3>1. UNCHANGED session
      BY <2>5
    <3> QED BY <2>1, <2>2, <2>3, <3>1, QuietStep DEF SessionsTypeOK, AdmittedInv
  <2> QED BY <2>4, <2>5
<1>7. ASSUME NEW r \in Requests, Logout(r)
      PROVE  SessionsInv' /\ Closed
  <2> USE <1>7 DEF Logout, RequestGoto
  <2>1. /\ request[r].guid \in Logins /\ UNCHANGED <<user, stray, login>>
        /\ SetRow(request[r].guid, "gone") /\ session[request[r].guid].row # "none"
    BY DEF SessionsTypeOK, AdmittedInv
  <2>2. request' \in [Requests -> [pc : RequestState, kind : Kind, user : Users, guid : Logins]]
    BY DEF SessionsTypeOK, RequestState
  <2>3. \A q \in Requests : request'[q].pc = "admitted" =>
           request[q].pc = "admitted" /\ request'[q].guid = request[q].guid
    BY DEF SessionsTypeOK
  <2> QED BY <2>1, <2>2, <2>3, RowStep DEF SessionsTypeOK, AdmittedInv
<1>8. ASSUME NEW u \in Users, ChangeUser(u)
      PROVE  SessionsInv' /\ Closed
  <2>1. SessionsTypeOK'
    BY <1>8 DEF ChangeUser, SessionsTypeOK
  <2>2. AdmittedInv' /\ UNCHANGED <<session, login>>
    BY <1>8 DEF ChangeUser, AdmittedInv
  <2> QED BY <2>1, <2>2, QuietStep
<1>9. ASSUME NEW g \in Logins, Expire(g)
      PROVE  SessionsInv' /\ Closed
  <2>1. SetRow(g, "stale") /\ session[g].row = "fresh" /\ Open(g)
    BY <1>9 DEF Expire, Open
  <2>2. UNCHANGED <<user, stray, login, request>>
    BY <1>9 DEF Expire
  <2> QED BY <2>1, <2>2, RowStep DEF SessionsTypeOK, AdmittedInv
<1>10. CASE UNCHANGED sessionVars
  BY <1>10 DEF sessionVars, SessionsTypeOK, OwnersInv, AdmittedInv, OneSession, Open
<1> QED
  BY <1>1, <1>2, <1>3, <1>4, <1>5, <1>6, <1>7, <1>8, <1>9, <1>10
  DEF SessionsNext, DoLoginStep, RequestStep, Kind

(* The inductive invariant holds throughout. *)
THEOREM SessionsInvariance == SessionsSpec => []SessionsInv
<1>1. SessionsInv /\ [SessionsNext]_sessionVars => SessionsInv'
  BY SessionsInvNext
<1> QED BY <1>1, SessionsInvInit, PTL DEF SessionsSpec

(* Two sessions of one user are open only if one of the logins was to an   *)
(* account that was MultiLogin when DoLogin read it.                       *)
THEOREM OneSessionHolds == SessionsSpec => []OneSession
<1>1. SessionsInv => OneSession
  BY DEF SessionsInv
<1> QED BY <1>1, SessionsInvariance, PTL

(* What Logout or a later DoLogin closed is not opened again, by any       *)
(* TouchSession of a handler still at work.                                *)
THEOREM ClosedSessionsStayClosed == SessionsSpec => ClosedForGood
<1>1. SessionsInv /\ [SessionsNext]_sessionVars =>
        [\A g \in Logins : session[g].row = "gone" => session'[g].row = "gone"]_sessionVars
  BY SessionsInvNext
<1> QED BY <1>1, SessionsInvariance, PTL DEF SessionsSpec, ClosedForGood

(* Rows, logins and handlers keep to their types: no handler comes to a    *)
(* state, a user or a GUID that is none.                                   *)
THEOREM SessionTypes == SessionsSpec => []SessionsTypeOK
<1>1. SessionsInv => SessionsTypeOK
  BY DEF SessionsInv
<1> QED BY <1>1, SessionsInvariance, PTL
=============================================================================
