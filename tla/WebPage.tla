------------------------------ MODULE WebPage ------------------------------
(***************************************************************************)
(* What the controllers of the admin's pages have in common.  A page sends *)
(* requests with $http and gets their answers in callbacks, in any order.  *)
(* Some callbacks go on with calls of jQuery.ajax with async: false, one   *)
(* after the other; until the last of them is answered the page does       *)
(* nothing else, while the server does.  There is one admin.               *)
(*                                                                         *)
(* A patient user waits for the answers before doing anything else; the    *)
(* pages do not make anyone wait.                                          *)
(***************************************************************************)
EXTENDS Integers, Sequences

CONSTANTS
    Slots,     \* the requests that may be in flight
    MaxMoves,  \* a bound on what the user does
    Faults,    \* what may go wrong in this instance: see AllFaults
    None       \* undefined, or null

NoRequest == [st |-> "none"]
NoLoop == [page |-> "none"]

AllFaults == {"expire", "break"}

ASSUME WebAssumption ==
    /\ MaxMoves \in Nat
    /\ Faults \subseteq AllFaults
    /\ None \notin Slots

VARIABLES
    pageurl,  \* login.pageurl
    net,      \* [Slots -> the request and its answer, or NoRequest]
    loop,     \* the callback that is amid its synchronous calls, or NoLoop
    moves,    \* what the user has done so far, counted
    session,  \* the server knows login.guid
    broke,    \* history: an answer did not come; at most one does not
    hasty     \* history: the user acted while a request was in flight

webVars == <<pageurl, net, loop, moves, session, broke, hasty>>

WebInit(url) ==
    /\ pageurl = url
    /\ net = [s \in Slots |-> NoRequest]
    /\ loop = NoLoop
    /\ moves = 0
    /\ session = TRUE
    /\ broke = FALSE
    /\ hasty = FALSE

InFlight == \E s \in Slots : net[s] # NoRequest

(* Someone who has not had a hasty moment, nor a request that failed.      *)
Patient == ~hasty /\ session /\ ~broke

-----------------------------------------------------------------------------
(* The user clicks or types.                                               *)
ActsOn(urls) ==
    /\ pageurl \in urls
    /\ loop = NoLoop
    /\ moves < MaxMoves
    /\ moves' = moves + 1
    /\ hasty' = (hasty \/ InFlight)
    /\ UNCHANGED <<pageurl, loop, session, broke>>

UserActs == ActsOn({"admin.html"})

(* n is net without the request whose callback sends this one.             *)
SendFrom(n, op, arg) ==
    \E s \in Slots :
        /\ n[s] = NoRequest
        /\ net' = [n EXCEPT ![s] = [op |-> op, arg |-> arg, st |-> "open", data |-> None]]

Send(op, arg) == SendFrom(net, op, arg)

-----------------------------------------------------------------------------
(* The server                                                              *)

Awaited(s, op) == net[s] # NoRequest /\ net[s].op = op /\ net[s].st = "open"

Answered(s, st, d) ==
    [net EXCEPT ![s] = [op |-> net[s].op, arg |-> net[s].arg, st |-> st, data |-> d]]

Answer(s, st, d) ==
    /\ session
    /\ net' = Answered(s, st, d)
    /\ UNCHANGED <<pageurl, loop, moves, session, broke, hasty>>

Expire ==
    /\ "expire" \in Faults
    /\ session
    /\ session' = FALSE
    /\ UNCHANGED <<pageurl, net, loop, moves, broke, hasty>>

(* A request with a GUID the server does not know: 401.                    *)
Refuse401(s) ==
    /\ net[s] # NoRequest
    /\ net[s].st = "open"
    /\ ~session
    /\ net' = Answered(s, "expired", None)
    /\ UNCHANGED <<pageurl, loop, moves, session, broke, hasty>>

(* The answer is a status 0 or 5xx, whether or not the server has done     *)
(* what it was asked.                                                      *)
Break(s) ==
    /\ "break" \in Faults
    /\ ~broke
    /\ net[s] # NoRequest
    /\ broke' = TRUE
    /\ net' = Answered(s, "broken", None)
    /\ UNCHANGED <<pageurl, loop, moves, session, hasty>>

ServerFaults == Expire \/ \E s \in Slots : Refuse401(s) \/ Break(s)

-----------------------------------------------------------------------------
(* The callbacks                                                           *)

Arrived(s, op) ==
    loop = NoLoop /\ net[s] # NoRequest /\ net[s].op = op /\ net[s].st \in {"ok", "refused"}
Bad(s) == net[s].st \in {"expired", "broken"}
Without(s) == [net EXCEPT ![s] = NoRequest]

Callback(s) ==
    /\ net' = Without(s)
    /\ UNCHANGED <<pageurl, loop, moves, session, broke, hasty>>

(* .error(): a Fill function gives up the page whatever the status was,    *)
(* the others only on 401.                                                 *)
ErrorCallback(s, gives_up) ==
    /\ loop = NoLoop
    /\ net[s] # NoRequest
    /\ Bad(s)
    /\ net' = Without(s)
    /\ pageurl' = IF net[s].st = "expired" \/ gives_up THEN "login.html" ELSE pageurl
    /\ UNCHANGED <<loop, moves, session, broke, hasty>>

(* The callback goes on with a synchronous loop.                           *)
EnterLoop(s, l) ==
    /\ net' = Without(s)
    /\ loop' = l
    /\ UNCHANGED <<pageurl, moves, session, broke, hasty>>

(* jQuery.ajax with async: false has returned with outcome o; l is what is *)
(* left of the loop.                                                       *)
SyncCall(o, l) ==
    /\ loop' = l
    /\ o = "expired" <=> ~session
    /\ o = "broken" => "break" \in Faults /\ ~broke
    /\ broke' = (broke \/ o = "broken")
    /\ pageurl' = IF o = "expired" THEN "login.html" ELSE pageurl
    /\ UNCHANGED <<net, moves, session, hasty>>

-----------------------------------------------------------------------------
(* Tables of the server: ids are given out as in module Catalog.           *)
NextId(rows) ==
    IF DOMAIN rows = {} THEN 1
    ELSE 1 + (CHOOSE m \in DOMAIN rows : \A i \in DOMAIN rows : i <= m)
WithRow(rows, i, r) == [j \in DOMAIN rows \cup {i} |-> IF j = i THEN r ELSE rows[j]]
WithoutRow(rows, i) == [j \in DOMAIN rows \ {i} |-> rows[j]]

(* An array without its i-th element.                                      *)
WithoutAt(q, i) == [j \in 1 .. Len(q) - 1 |-> IF j < i THEN q[j] ELSE q[j + 1]]
=============================================================================
