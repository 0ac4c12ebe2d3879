------------------------------ MODULE ListPage ------------------------------
(***************************************************************************)
(* The list of a table with its dialogs: controller capsCtrl, of which     *)
(* envcaps.js and repos.js are copies; the lists of the other pages have   *)
(* the same Delete and the same Fill function.  The dialog in which an     *)
(* element is edited works on the element of the list itself.              *)
(***************************************************************************)
EXTENDS WebPage

CONSTANT Codes

Unnamed == 0  \* newcap = {}

ASSUME ListAssumption == Codes # {} /\ Unnamed \notin Codes

VARIABLES
    dccaps,    \* $scope.dccaps: [Id -> Code]
    dccap,     \* the Id of $scope.dccap, the element being edited, or 0
    code,      \* its Code
    detached,  \* the list has been read again since dccap was taken from it
    id,        \* $scope.id of the dialog that deletes, 0 if there is none
    newcap,    \* the Code typed for a new element
    dbcaps,    \* the server's table
    draft      \* history: the list shows what was typed but not saved

listVars == <<dccaps, dccap, code, detached, id, newcap, dbcaps, draft>>

ListInit ==
    /\ dccaps = [i \in {1} |-> CHOOSE c \in Codes : TRUE]
    /\ dccap = 0
    /\ code = Unnamed
    /\ detached = FALSE
    /\ id = 0
    /\ newcap = Unnamed
    /\ dbcaps = dccaps
    /\ draft = FALSE

Dialog == dccap # 0 \/ id # 0
Element(i, c) == [id |-> i, code |-> c]

-----------------------------------------------------------------------------
(* The user                                                                *)

dialog(i) ==
    /\ ~Dialog
    /\ i \in DOMAIN dccaps
    /\ UserActs
    /\ id' = i
    /\ UNCHANGED <<net, dccaps, dccap, code, detached, newcap, dbcaps, draft>>

Delete(ok) ==
    /\ id # 0
    /\ UserActs
    /\ IF ok THEN Send("delete", Element(id, Unnamed)) ELSE UNCHANGED net
    /\ id' = 0
    /\ UNCHANGED <<dccaps, dccap, code, detached, newcap, dbcaps, draft>>

(* The user types a name and clicks Add.                                   *)
AddCapability(c) ==
    /\ ~Dialog
    /\ UserActs
    /\ newcap' = c
    /\ Send("post", Element(0, c))
    /\ UNCHANGED <<dccaps, dccap, code, detached, id, dbcaps, draft>>

editdialog(i) ==
    /\ ~Dialog
    /\ i \in DOMAIN dccaps
    /\ UserActs
    /\ dccap' = i
    /\ code' = dccaps[i]
    /\ detached' = FALSE
    /\ UNCHANGED <<net, dccaps, id, newcap, dbcaps, draft>>

Type(c) ==
    /\ dccap # 0
    /\ UserActs
    /\ code' = c
    /\ dccaps' = IF detached THEN dccaps ELSE [dccaps EXCEPT ![dccap] = c]
    /\ draft' = (draft \/ ~detached)
    /\ UNCHANGED <<net, dccap, detached, id, newcap, dbcaps>>

UpdateCap(ok) ==
    /\ dccap # 0
    /\ UserActs
    /\ IF ok THEN Send("put", Element(dccap, code)) ELSE UNCHANGED net
    /\ dccap' = 0
    /\ UNCHANGED <<dccaps, code, detached, id, newcap, dbcaps, draft>>

-----------------------------------------------------------------------------
(* The server, whose tables are those of module Catalog                    *)

ServeFill(s) == Awaited(s, "fill") /\ Answer(s, "ok", dbcaps) /\ UNCHANGED listVars

Write(s, allowed, rows) ==
    /\ Answer(s, IF allowed THEN "ok" ELSE "refused", None)
    /\ dbcaps' = IF allowed THEN rows ELSE dbcaps
    /\ UNCHANGED <<dccaps, dccap, code, detached, id, newcap, draft>>

New(c) == \A i \in DOMAIN dbcaps : dbcaps[i] # c

(* AddDcCap wants a Code that no row has; UpdateDcCap does not look.       *)
ServeWrite(s) ==
    LET i == net[s].arg.id  c == net[s].arg.code
        more == WithRow(dbcaps, NextId(dbcaps), c)
    IN \/ Awaited(s, "post") /\ Write(s, c \in Codes /\ New(c), more)
       \/ Awaited(s, "put") /\ Write(s, i \in DOMAIN dbcaps, WithRow(dbcaps, i, c))
       \/ Awaited(s, "delete") /\ Write(s, i \in DOMAIN dbcaps, WithoutRow(dbcaps, i))

-----------------------------------------------------------------------------
(* The callbacks                                                           *)

ListArrives(s) ==
    /\ Arrived(s, "fill")
    /\ Callback(s)
    /\ dccaps' = net[s].data
    /\ detached' = TRUE
    /\ draft' = FALSE
    /\ UNCHANGED <<dccap, code, id, newcap, dbcaps>>

(* Mutant of FillCapsTable: the callback does not read the list again.     *)
NoFill(n) == net' = n

FillCapsTable(n) == SendFrom(n, "fill", Element(0, Unnamed))

ListWritten(s) ==
    /\ Arrived(s, "post") \/ Arrived(s, "put") \/ Arrived(s, "delete")
    /\ IF net[s].st = "ok" THEN FillCapsTable(Without(s)) ELSE net' = Without(s)
    /\ newcap' = IF net[s].op = "post" /\ net[s].st = "ok" THEN Unnamed ELSE newcap
    /\ UNCHANGED <<pageurl, loop, moves, session, broke, hasty>>
    /\ UNCHANGED <<dccaps, dccap, code, detached, id, dbcaps, draft>>

ListRequestFails(s) == ErrorCallback(s, net[s].op = "fill") /\ UNCHANGED listVars

-----------------------------------------------------------------------------
ListUser ==
    \/ \E i \in DOMAIN dccaps : dialog(i) \/ editdialog(i)
    \/ \E c \in Codes \cup {Unnamed} : AddCapability(c) \/ Type(c)
    \/ \E ok \in BOOLEAN : Delete(ok) \/ UpdateCap(ok)

ListServer ==
    \/ \E s \in Slots : ServeFill(s) \/ ServeWrite(s)
    \/ ServerFaults /\ UNCHANGED listVars

ListCallbacks == \E s \in Slots : ListArrives(s) \/ ListWritten(s) \/ ListRequestFails(s)

ListNext == ListUser \/ ListServer \/ ListCallbacks

-----------------------------------------------------------------------------
ListTypeOK ==
    /\ \A i \in DOMAIN dccaps : dccaps[i] \in Codes \cup {Unnamed}
    /\ dccap = 0 \/ id = 0
    /\ detached \/ dccap \in DOMAIN dccaps \cup {0}
    /\ code \in Codes \cup {Unnamed}

(* At rest the list that a patient user sees is the server's table,        *)
(* although only a later request reads what the one before has changed;    *)
(* the exception is an edit that was dismissed, which stays in the list.   *)
ListShown == Patient /\ ~InFlight /\ ~draft => dccaps = dbcaps
=============================================================================
