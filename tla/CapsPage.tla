------------------------------ MODULE CapsPage ------------------------------
(***************************************************************************)
(* The forms of a data centre and of an environment: controllers dcCtrl    *)
(* and envCtrl, which are copies of one another up to what kind tells      *)
(* apart.  A form shows the capabilities mapped to its row in $scope's     *)
(* dccapmaps or envcapmaps, notes what the user adds in newcap.newcapmaps  *)
(* and what the user removes in delcaps.ids, and saves both after the row  *)
(* itself was saved.                                                       *)
(***************************************************************************)
EXTENDS WebPage

CONSTANTS
    Caps,
    NRows  \* the rows there are at first

Rows == 1 .. NRows

(* A capability that nobody chose; the row the add form makes; what is     *)
(* shown when it is not the form of a row.                                 *)
NoCap == 0
NewRow == NRows + 1
List == 0
Add == -1

ASSUME CapsAssumption == Caps # {} /\ NRows \in Nat /\ NoCap \notin Caps

VARIABLES
    kind,        \* "dcs" or "envs"
    form,        \* what is shown: the list, the add form or a row's form
    obj,         \* the Id of $scope.dc or $scope.env; 0 if it has none
    capmaps,     \* the table in the form; an item just added has Id 0
    newcapmaps,  \* what to POST
    delcaps,     \* what to DELETE
    dbrows,      \* the server's rows
    dbmaps,      \* the server's maps: [id -> row and capability]
    slips        \* history: what the form has lost track of since it opened

capsVars == <<kind, form, obj, capmaps, newcapmaps, delcaps, dbrows, dbmaps, slips>>

MapsOf(r) == {[id |-> i, cap |-> dbmaps[i].cap] : i \in {j \in DOMAIN dbmaps : dbmaps[j].row = r}}
CapsIn(items) == {m.cap : m \in items}

FirstCap == CHOOSE c \in Caps : TRUE

CapsInit ==
    /\ kind \in {"dcs", "envs"}
    /\ form = List
    /\ obj = 0
    /\ capmaps = {}
    /\ newcapmaps = <<>>
    /\ delcaps = <<>>
    /\ dbrows = Rows
    /\ dbmaps = [i \in Rows |-> [row |-> i, cap |-> FirstCap]]
    /\ slips = {}

-----------------------------------------------------------------------------
(* The user                                                                *)

(* delcaps entries remember the form they were made in, and whether that   *)
(* form has been left since.                                               *)
Left(d) == [i \in DOMAIN d |-> [id |-> d[i].id, for |-> d[i].for, kept |-> TRUE]]

(* Mutant of DelcapsOnEdit: the data centres' form does not start afresh.  *)
KeepDelcaps(k) == Left(delcaps)

(* EditDC empties delcaps.ids, EditEnv does not.                           *)
DelcapsOnEdit(k) == IF k = "dcs" THEN <<>> ELSE Left(delcaps)

(* Mutant of NewcapsOnEdit: the form does not start afresh.                *)
KeepNewcaps == newcapmaps

NewcapsOnEdit == <<>>

EditRow(r) ==
    /\ form = List
    /\ r \in dbrows
    /\ UserActs
    /\ Send("maps", r)
    /\ form' = r
    /\ obj' = r
    /\ newcapmaps' = NewcapsOnEdit
    /\ delcaps' = DelcapsOnEdit(kind)
    /\ slips' = IF DelcapsOnEdit(kind) # <<>> THEN {"kept"} ELSE {}
    /\ UNCHANGED <<kind, capmaps, dbrows, dbmaps>>

CloseEdit ==
    /\ form \in dbrows
    /\ UserActs
    /\ form' = List
    /\ delcaps' = DelcapsOnEdit(kind)
    /\ UNCHANGED <<net, kind, obj, capmaps, newcapmaps, dbrows, dbmaps, slips>>

AddRow(tf) ==
    /\ form = IF tf THEN List ELSE Add
    /\ UserActs
    /\ form' = IF tf THEN Add ELSE List
    /\ obj' = 0
    /\ newcapmaps' = <<>>
    /\ UNCHANGED <<net, kind, capmaps, delcaps, dbrows, dbmaps, slips>>

Chosen(c) == Append(newcapmaps, [cap |-> c, for |-> form])

EditAddCapMap(c) ==
    /\ form \in dbrows
    /\ UserActs
    /\ delcaps' = <<>>
    /\ IF c \notin CapsIn(capmaps) /\ (c # NoCap \/ kind = "dcs")
       THEN /\ newcapmaps' = Chosen(c)
            /\ capmaps' = capmaps \cup {[id |-> 0, cap |-> c]}
       ELSE UNCHANGED <<newcapmaps, capmaps>>
    /\ slips' = slips \cup (IF delcaps # <<>> THEN {"forgot"} ELSE {})
                      \cup (IF c = NoCap THEN {"nocap"} ELSE {})
    /\ UNCHANGED <<net, kind, form, obj, dbrows, dbmaps>>

AddCapMap(c) ==
    /\ form = Add
    /\ UserActs
    /\ newcapmaps' = IF \E i \in DOMAIN newcapmaps : newcapmaps[i].cap = c
                     THEN newcapmaps ELSE Chosen(c)
    /\ UNCHANGED <<net, kind, form, obj, capmaps, delcaps, dbrows, dbmaps, slips>>

(* No capability is there twice.                                           *)
AddDeleteCapMap(c) ==
    /\ form = Add
    /\ UserActs
    /\ \/ \E i \in DOMAIN newcapmaps :
             newcapmaps[i].cap = c /\ newcapmaps' = WithoutAt(newcapmaps, i)
       \/ (\A i \in DOMAIN newcapmaps : newcapmaps[i].cap # c) /\ UNCHANGED newcapmaps
    /\ UNCHANGED <<net, kind, form, obj, capmaps, delcaps, dbrows, dbmaps, slips>>

(* The filter of newcapmaps looks at a field its elements do not have: it  *)
(* lets everything pass for an Id and nothing for undefined.               *)
EditDeleteCapMap(m) ==
    /\ form \in dbrows
    /\ m \in capmaps
    /\ UserActs
    /\ capmaps' = {e \in capmaps : e.id # m.id}
    /\ IF m.id # 0
       THEN /\ delcaps' = Append(delcaps, [id |-> m.id, for |-> form, kept |-> FALSE])
            /\ UNCHANGED newcapmaps
       ELSE newcapmaps' = <<>> /\ UNCHANGED delcaps
    /\ UNCHANGED <<net, kind, form, obj, dbrows, dbmaps, slips>>

EditRowApply ==
    /\ form \in dbrows
    /\ UserActs
    /\ Send("put", obj)
    /\ UNCHANGED capsVars

AddRowApply ==
    /\ form = Add
    /\ UserActs
    /\ Send("post", NewRow)
    /\ UNCHANGED capsVars

-----------------------------------------------------------------------------
(* The server                                                              *)

ServeMaps(s) == Awaited(s, "maps") /\ Answer(s, "ok", MapsOf(net[s].arg)) /\ UNCHANGED capsVars

ServePutRow(s) == Awaited(s, "put") /\ Answer(s, "ok", None) /\ UNCHANGED capsVars

ServePostRow(s) ==
    /\ Awaited(s, "post")
    /\ Answer(s, IF NewRow \in dbrows THEN "refused" ELSE "ok", None)
    /\ dbrows' = dbrows \cup {NewRow}
    /\ UNCHANGED <<kind, form, obj, capmaps, newcapmaps, delcaps, dbmaps, slips>>

-----------------------------------------------------------------------------
(* The callbacks                                                           *)

MapsArrive(s) ==
    /\ Arrived(s, "maps")
    /\ Callback(s)
    /\ capmaps' = net[s].data
    /\ UNCHANGED <<kind, form, obj, newcapmaps, delcaps, dbrows, dbmaps, slips>>

(* The callback of the PUT reads $scope.editdc, which is false, here 0, in *)
(* the list.                                                               *)
TargetRow == IF form \in dbrows THEN form ELSE 0

(* Saving the maps of row r: the POSTs come first, then the DELETEs.       *)
Saving(edit, r, posts, dels) ==
    [page |-> "rows", edit |-> edit, row |-> r, posts |-> posts, dels |-> dels]

PutRowArrives(s) ==
    /\ Arrived(s, "put")
    /\ EnterLoop(s, Saving(TRUE, TargetRow, newcapmaps, delcaps))
    /\ UNCHANGED capsVars

PostRowArrives(s) ==
    /\ Arrived(s, "post")
    /\ IF net[s].st = "ok"
       THEN EnterLoop(s, Saving(FALSE, net[s].arg, newcapmaps, <<>>))
       ELSE Callback(s)
    /\ UNCHANGED capsVars

CapsRequestFails(s) == ErrorCallback(s, net[s].op = "maps") /\ UNCHANGED capsVars

(* A 4xx other than 401: AddCapMap_noasync looks for data['Error'], there  *)
(* is no data, and the exception ends the callback.                        *)
AfterCall(o, rest) == IF o = "refused" THEN NoLoop ELSE rest

PostMap(o) ==
    LET c == Head(loop.posts).cap
        rest == Saving(loop.edit, loop.row, Tail(loop.posts), loop.dels)
        fits == /\ loop.row \in dbrows /\ c \in Caps
                /\ \A i \in DOMAIN dbmaps : dbmaps[i] # [row |-> loop.row, cap |-> c]
        saved == WithRow(dbmaps, NextId(dbmaps), [row |-> loop.row, cap |-> c])
    IN /\ loop.posts # <<>>
       /\ SyncCall(o, AfterCall(o, rest))
       /\ \/ o = "ok" /\ fits /\ dbmaps' = saved
          \/ o = "refused" /\ ~fits /\ UNCHANGED dbmaps
          \/ o = "broken" /\ fits /\ dbmaps' = saved
          \/ o \in {"broken", "expired"} /\ UNCHANGED dbmaps
       /\ UNCHANGED <<kind, form, obj, capmaps, newcapmaps, delcaps, dbrows, slips>>

DeleteMap(o) ==
    LET i == Head(loop.dels).id
        rest == Saving(loop.edit, loop.row, <<>>, Tail(loop.dels))
    IN /\ loop.posts = <<>>
       /\ loop.dels # <<>>
       /\ SyncCall(o, AfterCall(o, rest))
       /\ \/ o \in {"ok", "broken"} /\ i \in DOMAIN dbmaps /\ dbmaps' = WithoutRow(dbmaps, i)
          \/ o = "refused" /\ i \notin DOMAIN dbmaps /\ UNCHANGED dbmaps
          \/ o \in {"broken", "expired"} /\ UNCHANGED dbmaps
       /\ UNCHANGED <<kind, form, obj, capmaps, newcapmaps, delcaps, dbrows, slips>>

(* "Changes were applied."  Only the environments' form reads its maps     *)
(* again and forgets what it has added.                                    *)
LoopEnds ==
    /\ loop # NoLoop
    /\ loop.posts = <<>>
    /\ loop.dels = <<>>
    /\ loop' = NoLoop
    /\ delcaps' = IF loop.edit THEN <<>> ELSE delcaps
    /\ IF loop.edit /\ kind = "envs"
       THEN newcapmaps' = <<>> /\ Send("maps", obj)
       ELSE UNCHANGED <<newcapmaps, net>>
    /\ slips' = slips \cup (IF loop.edit /\ kind = "dcs" /\ newcapmaps # <<>>
                           THEN {"reposts"} ELSE {})
    /\ UNCHANGED <<pageurl, moves, session, broke, hasty>>
    /\ UNCHANGED <<kind, form, obj, capmaps, dbrows, dbmaps>>

-----------------------------------------------------------------------------
CapsUser ==
    \/ \E r \in Rows \cup {NewRow} : EditRow(r)
    \/ CloseEdit
    \/ \E tf \in BOOLEAN : AddRow(tf)
    \/ \E c \in Caps \cup {NoCap} : EditAddCapMap(c) \/ AddCapMap(c) \/ AddDeleteCapMap(c)
    \/ \E m \in capmaps : EditDeleteCapMap(m)
    \/ EditRowApply
    \/ AddRowApply

CapsServer ==
    \/ \E s \in Slots : ServeMaps(s) \/ ServePutRow(s) \/ ServePostRow(s)
    \/ ServerFaults /\ UNCHANGED capsVars

Outcomes == {"ok", "refused", "expired", "broken"}

CapsCallbacks ==
    \/ \E s \in Slots : \/ MapsArrive(s) \/ PutRowArrives(s)
                        \/ PostRowArrives(s) \/ CapsRequestFails(s)
    \/ loop # NoLoop /\ \E o \in Outcomes : PostMap(o) \/ DeleteMap(o)
    \/ LoopEnds

CapsNext == CapsUser \/ CapsServer \/ CapsCallbacks

-----------------------------------------------------------------------------
CapsTypeOK ==
    /\ form \in {List, Add} \cup dbrows
    /\ dbrows \subseteq Rows \cup {NewRow}
    /\ \A m \in capmaps : m.cap \in Caps \cup {NoCap}
    /\ \A i \in DOMAIN newcapmaps : newcapmaps[i].cap \in Caps \cup {NoCap}
    /\ \A i \in DOMAIN dbmaps : dbmaps[i].row \in dbrows /\ dbmaps[i].cap \in Caps

(* What a patient user adds to a form or removes from it is added to and   *)
(* removed from the row of that form, and no map of another row: whatever  *)
(* the callbacks of EditRowApply and AddRowApply read from $scope is still *)
(* about the row that was applied.  Not so in the environments' form,      *)
(* where what was removed from a form that was then left is deleted by the *)
(* next AddRowApply of any other.                                          *)
CapsOwn ==
    [][~hasty /\ loop # NoLoop =>
         /\ \A i \in DOMAIN dbmaps' \ DOMAIN dbmaps :
                Head(loop.posts).for = IF loop.edit THEN dbmaps'[i].row ELSE Add
         /\ \A i \in DOMAIN dbmaps \ DOMAIN dbmaps' :
                \/ dbmaps[i].row = loop.row
                \/ kind = "envs" /\ Head(loop.dels).kept
      ]_<<webVars, capsVars>>

(* When the callback of a patient user's EditRowApply is over, for         *)
(* whatever reason, the server has what the form shows.  The exceptions:   *)
(* EditAddCapMap forgets what was removed before; the data centres' form   *)
(* POSTs again what it has added; an empty choice is refused; something    *)
(* was kept from another form.                                             *)
CapsSaved ==
    [][Patient' /\ loop # NoLoop /\ loop' = NoLoop
         /\ loop.page = "rows" /\ loop.edit /\ slips = {} =>
         CapsIn(MapsOf(form)) = CapsIn(capmaps)
      ]_<<webVars, capsVars>>
=============================================================================
