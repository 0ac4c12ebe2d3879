------------------------ MODULE AdminConsole_proofs ------------------------
(***************************************************************************)
(* Proofs about the pages of AdminConsole whose data the server keeps: the *)
(* workers, the plugins, the tables and the sessions, for any number of    *)
(* requests in flight, moves, rows and faults.                             *)
(*                                                                         *)
(* They share one argument.  A user who waits for the answers has one      *)
(* request in flight at most (Waits), so that what a page shows, and what  *)
(* the one request says, is compared with the server's rows in one         *)
(* invariant per page (DialogInv, PluginSeen, ListSeen, LoginSeen); every  *)
(* step of every page is of one of few forms (WebMove), and each of them   *)
(* keeps Waits.  What the server promises to everybody, FilesOwned and     *)
(* InstallsWhole, needs no such user: it is an invariant of the rows and   *)
(* of the script that is running (PluginInv).                              *)
(***************************************************************************)
EXTENDS AdminConsole, WellFoundedInduction, FiniteSetTheorems, SequenceTheorems, TLAPS

(* Nothing is in flight.                                                   *)
Idle == \A s \in Slots : net[s] = NoRequest

OneInv == \A s, r \in Slots : net[s] # NoRequest /\ net[r] # NoRequest => s = r

(* A user who waits for the answers has one request in flight at most, and *)
(* none during a loop of synchronous calls.                                *)
Waits ==
    /\ net = [s \in Slots |-> net[s]]
    /\ ~hasty => OneInv /\ (loop # NoLoop => Idle)

(* What a step of a page does to what is in flight.                        *)
Begins(n) == \E s \in Slots : n[s] = NoRequest /\ \E r : net' = [n EXCEPT ![s] = r]

ByUser ==
    /\ loop = NoLoop
    /\ UNCHANGED loop
    /\ hasty' = (hasty \/ InFlight)
    /\ UNCHANGED net \/ Begins(net)

InSlot(s) ==
    /\ net[s] # NoRequest
    /\ UNCHANGED hasty
    /\ \/ UNCHANGED loop /\ \E r : net' = [net EXCEPT ![s] = r]
       \/ loop = NoLoop /\ net' = Without(s)
       \/ /\ loop = NoLoop
          /\ UNCHANGED loop
          /\ \E n : /\ n = [q \in Slots |-> n[q]]
                    /\ \A q \in Slots : Without(s)[q] = NoRequest => n[q] = NoRequest
                    /\ net' = n \/ Begins(n)

InLoop ==
    /\ UNCHANGED hasty
    /\ \/ UNCHANGED net /\ (loop = NoLoop => UNCHANGED loop)
       \/ loop # NoLoop /\ loop' = NoLoop /\ Begins(net)

WebMove ==
    /\ pageurl' \in {pageurl, "login.html", "admin.html", "run.html"}
    /\ session' => session
    /\ broke => broke'
    /\ ByUser \/ (\E s \in Slots : InSlot(s)) \/ InLoop

LEMMA IdleMeans == Idle <=> ~InFlight
BY DEF Idle, InFlight

LEMMA WaitsNext ==
    ASSUME Waits, WebMove
    PROVE  Waits' /\ (~hasty' => ~hasty) /\ (Patient' => Patient)
<1>1. (~hasty' => ~hasty) /\ (Patient' => Patient)
  <2>1. ~hasty' => ~hasty
    <3>1. CASE ByUser
      BY Zenon, <3>1 DEF ByUser
    <3>2. CASE UNCHANGED hasty
      BY Zenon, <3>2
    <3> QED BY Zenon, <3>1, <3>2 DEF WebMove, InSlot, InLoop
  <2> QED BY Zenon, <2>1 DEF WebMove, Patient
<1>2. CASE ByUser
  <2>1. net' = [s \in Slots |-> net'[s]]
    BY <1>2 DEF ByUser, Begins, Waits
  <2>2. ASSUME ~hasty' PROVE OneInv' /\ loop' = NoLoop
    <3>1. Idle /\ loop' = NoLoop
      BY Zenon, <1>2, <2>2, IdleMeans DEF ByUser
    <3>2. UNCHANGED net \/ \E s \in Slots : \A q \in Slots : q # s => net'[q] = NoRequest
      BY <1>2, <3>1 DEF ByUser, Begins, Waits, Idle
    <3> QED BY <3>1, <3>2 DEF OneInv, Idle
  <2>3. ~hasty' => OneInv' /\ (loop' # NoLoop => Idle')
    BY Zenon, <2>2
  <2> QED BY <1>1, <2>1, <2>3 DEF Waits
<1>3. ASSUME NEW s \in Slots, InSlot(s) PROVE Waits'
  <2>1. CASE UNCHANGED loop /\ \E r : net' = [net EXCEPT ![s] = r]
    BY <1>3, <2>1 DEF InSlot, Waits, OneInv, Idle
  <2>2. CASE loop = NoLoop /\ net' = Without(s)
    BY <1>3, <2>2 DEF InSlot, Waits, OneInv, Idle, Without
  <2>3. ASSUME loop = NoLoop, UNCHANGED loop,
               NEW n, n = [q \in Slots |-> n[q]],
               \A q \in Slots : Without(s)[q] = NoRequest => n[q] = NoRequest,
               net' = n \/ Begins(n)
        PROVE  Waits'
    <3>1. net' = [q \in Slots |-> net'[q]]
      BY <2>3 DEF Begins
    <3>2. ASSUME ~hasty PROVE \A q \in Slots : n[q] = NoRequest
      BY <1>3, <2>3, <3>2 DEF InSlot, Waits, OneInv, Without
    <3>3. ASSUME ~hasty PROVE OneInv'
      <4>1. CASE net' = n
        BY <3>2, <3>3, <4>1 DEF OneInv
      <4>2. CASE Begins(n)
        <5>1. PICK q \in Slots : \E r : net' = [n EXCEPT ![q] = r]
          BY <4>2 DEF Begins
        <5>2. \A p \in Slots : p # q => net'[p] = NoRequest
          BY <2>3, <3>2, <3>3, <5>1
        <5> QED BY <5>2 DEF OneInv
      <4> QED BY <2>3, <4>1, <4>2
    <3> QED BY <1>3, <2>3, <3>1, <3>3 DEF InSlot, Waits
  <2> QED BY <1>3, <2>1, <2>2, <2>3 DEF InSlot
<1>4. CASE InLoop
  <2>1. CASE UNCHANGED net /\ (loop = NoLoop => UNCHANGED loop)
    <3>1. ASSUME ~hasty PROVE OneInv' /\ (loop' # NoLoop => Idle')
      BY <2>1, <3>1 DEF Waits, OneInv, Idle
    <3>2. net' = [q \in Slots |-> net'[q]]
      BY <2>1 DEF Waits
    <3> QED BY <1>1, <3>1, <3>2 DEF Waits
  <2>2. CASE loop # NoLoop /\ loop' = NoLoop /\ Begins(net)
    <3>1. PICK q \in Slots : \E r : net' = [net EXCEPT ![q] = r]
      BY <2>2 DEF Begins
    <3>2. ASSUME ~hasty PROVE OneInv'
      <4>1. \A p \in Slots : p # q => net'[p] = NoRequest
        BY <2>2, <3>1, <3>2 DEF Waits, Idle
      <4> QED BY <4>1 DEF OneInv
    <3>3. net' = [p \in Slots |-> net'[p]]
      BY <3>1 DEF Waits
    <3> QED BY <1>1, <2>2, <3>2, <3>3 DEF Waits
  <2> QED BY <1>4, <2>1, <2>2 DEF InLoop
<1> QED BY <1>1, <1>2, <1>3, <1>4 DEF WebMove

-----------------------------------------------------------------------------
LEMMA Acted ==
    ASSUME NEW urls, ActsOn(urls)
    PROVE  /\ pageurl \in urls /\ loop = NoLoop
           /\ UNCHANGED <<pageurl, loop, session, broke>>
           /\ hasty' = (hasty \/ InFlight)
           /\ ~hasty' => ~hasty /\ Idle
BY Zenon, IdleMeans DEF ActsOn

(* A request that was sent.                                                *)
Sent(r, op, arg) == r # NoRequest /\ r.op = op /\ r.arg = arg /\ r.st = "open"

LEMMA SentOne ==
    ASSUME NEW n, n = [q \in Slots |-> n[q]], NEW op, NEW arg, SendFrom(n, op, arg)
    PROVE  /\ Begins(n)
           /\ net' = [q \in Slots |-> net'[q]]
           /\ \A q \in Slots : net'[q] = n[q] \/ Sent(net'[q], op, arg)
           /\ ~Idle'
<1>1. PICK s \in Slots :
        /\ n[s] = NoRequest
        /\ net' = [n EXCEPT ![s] = [op |-> op, arg |-> arg, st |-> "open", data |-> None]]
  BY DEF SendFrom
<1>2. /\ Begins(n) /\ net' = [q \in Slots |-> net'[q]]
      /\ \A q \in Slots : q # s => net'[q] = n[q]
      /\ net'[s] = [op |-> op, arg |-> arg, st |-> "open", data |-> None]
  BY <1>1 DEF Begins
<1>3. Sent(net'[s], op, arg)
  BY <1>2 DEF Sent, NoRequest
<1> QED BY <1>2, <1>3 DEF Idle, Sent

(* What becomes of the requests when one of them is answered.              *)
LEMMA AnsweredOne ==
    ASSUME Waits, NEW s \in Slots, net[s] # NoRequest,
           NEW st, st # "none", NEW d, net' = Answered(s, st, d),
           UNCHANGED <<pageurl, loop, hasty>>, session' => session, broke => broke'
    PROVE  /\ WebMove
           /\ net'[s] # NoRequest
           /\ net'[s].op = net[s].op /\ net'[s].arg = net[s].arg
           /\ net'[s].st = st /\ net'[s].data = d
           /\ \A q \in Slots : q # s => net'[q] = net[q]
           /\ ~hasty => \A q \in Slots : q # s => net[q] = NoRequest
<1>1. net'[s] = [op |-> net[s].op, arg |-> net[s].arg, st |-> st, data |-> d]
  BY DEF Waits, Answered
<1>2. net'[s] # NoRequest
  BY <1>1 DEF NoRequest
<1>3. \A q \in Slots : q # s => net'[q] = net[q]
  BY DEF Waits, Answered
<1>4. ~hasty => \A q \in Slots : q # s => net[q] = NoRequest
  BY DEF Waits, OneInv
<1>5. WebMove
  BY DEF InSlot, Answered, WebMove
<1> QED BY <1>1, <1>2, <1>3, <1>4, <1>5

(* A request that fails is not forgotten, but its user is not patient.     *)
Failed(new, old) ==
    /\ old # NoRequest /\ new # NoRequest
    /\ new.op = old.op /\ new.arg = old.arg /\ new.st \in {"expired", "broken"}

LEMMA FailedOne ==
    ASSUME Waits, ServerFaults
    PROVE  /\ WebMove /\ ~Patient' /\ UNCHANGED <<pageurl, loop, hasty>>
           /\ \A q \in Slots : net'[q] = net[q] \/ Failed(net'[q], net[q])
<1>1. CASE Expire
  BY <1>1 DEF Expire, WebMove, InLoop, Patient
<1>2. ASSUME NEW s \in Slots, Refuse401(s) \/ Break(s)
      PROVE  /\ WebMove /\ ~Patient' /\ UNCHANGED <<pageurl, loop, hasty>>
             /\ \A q \in Slots : net'[q] = net[q] \/ Failed(net'[q], net[q])
  <2>1. PICK st \in {"expired", "broken"} :
          /\ net[s] # NoRequest /\ net' = Answered(s, st, None) /\ ~Patient'
          /\ UNCHANGED <<pageurl, loop, session, hasty>> /\ (broke => broke')
    BY <1>2 DEF Refuse401, Break, Patient
  <2>2. /\ WebMove /\ net'[s] # NoRequest
        /\ net'[s].op = net[s].op /\ net'[s].arg = net[s].arg /\ net'[s].st = st
        /\ \A q \in Slots : q # s => net'[q] = net[q]
    BY <2>1, AnsweredOne
  <2> QED BY <2>1, <2>2 DEF Failed
<1> QED BY <1>1, <1>2 DEF ServerFaults

(* The callback of a request has run.                                      *)
LEMMA TakenOne ==
    ASSUME Waits, NEW s \in Slots, net[s] # NoRequest
    PROVE  /\ Without(s) = [q \in Slots |-> Without(s)[q]]
           /\ \A q \in Slots : Without(s)[q] = IF q = s THEN NoRequest ELSE net[q]
           /\ ~hasty => \A q \in Slots : Without(s)[q] = NoRequest
BY DEF Waits, OneInv, Without

LEMMA CallbackOne ==
    ASSUME Waits, NEW s \in Slots, net[s] # NoRequest, net' = Without(s),
           pageurl' \in {pageurl, "login.html", "admin.html", "run.html"},
           UNCHANGED <<session, broke, hasty>>, UNCHANGED loop \/ loop = NoLoop
    PROVE  /\ WebMove
           /\ \A q \in Slots : net'[q] = NoRequest \/ net'[q] = net[q]
           /\ ~hasty => Idle'
<1>1. WebMove
  BY DEF WebMove, InSlot, Without
<1> QED BY <1>1, TakenOne DEF Idle

LEMMA ErrorOne ==
    ASSUME Waits, NEW s \in Slots, NEW gives_up, ErrorCallback(s, gives_up)
    PROVE  /\ WebMove
           /\ net[s] # NoRequest /\ net[s].st \in {"expired", "broken"}
           /\ UNCHANGED <<loop, session, broke, hasty>> /\ pageurl' \in {pageurl, "login.html"}
           /\ \A q \in Slots : net'[q] = NoRequest \/ net'[q] = net[q]
           /\ ~hasty => Idle'
BY CallbackOne DEF ErrorCallback, Bad

(* A callback that sends a request.                                        *)
LEMMA FollowOne ==
    ASSUME Waits, NEW s \in Slots, net[s] # NoRequest, loop = NoLoop,
           NEW op, NEW arg, SendFrom(Without(s), op, arg),
           pageurl' \in {pageurl, "login.html", "admin.html", "run.html"},
           UNCHANGED <<loop, session, broke, hasty>>
    PROVE  /\ WebMove
           /\ \A q \in Slots : \/ net'[q] = NoRequest \/ net'[q] = net[q]
                               \/ Sent(net'[q], op, arg)
           /\ ~Idle'
           /\ ~hasty => \A q \in Slots : net'[q] = NoRequest \/ Sent(net'[q], op, arg)
<1>1. /\ Begins(Without(s)) /\ ~Idle'
      /\ \A q \in Slots : net'[q] = Without(s)[q] \/ Sent(net'[q], op, arg)
  BY TakenOne, SentOne
<1>2. WebMove
  BY <1>1, TakenOne DEF WebMove, InSlot
<1> QED BY <1>1, <1>2, TakenOne

-----------------------------------------------------------------------------
(***************************************************************************)
(* The page of the plugins: the rows and the script that adds them.        *)
(***************************************************************************)

(* The rows that NextId counts from.                                       *)
Numbered(rows) == \E b \in Nat : DOMAIN rows \subseteq 1 .. b

LEMMA LastRow ==
    ASSUME NEW D, NEW b \in Nat, D \subseteq 1 .. b, D # {}
    PROVE  \E m \in D : \A i \in D : i <= m
<1> DEFINE Above == {k \in Nat : \A i \in D : i <= k}
<1>1. Above # {}
  <2>1. b \in Above
    OBVIOUS
  <2> QED BY <2>1
<1>2. PICK k \in Above : \A j \in Above : k <= j
  <2> DEFINE R == {q \in Nat \X Nat : q[1] < q[2]}
  <2>1. IsWellFoundedOn(R, Nat)
    BY NatLessThanWellFounded DEF OpToRel
  <2> HIDE DEF Above
  <2>2. PICK k \in Above : \A j \in Above : <<j, k>> \notin R
    <3> HIDE DEF R
    <3>1. Above \subseteq Nat
      BY DEF Above
    <3> QED BY <1>1, <2>1, <3>1, WFMin
  <2>3. k \in Nat /\ \A j \in Above : j \in Nat
    BY DEF Above
  <2>4. \A i, j \in Nat : i < j => <<i, j>> \in R
    OBVIOUS
  <2> HIDE DEF R
  <2>5. ASSUME NEW j \in Above PROVE k <= j
    <3>1. ~ j < k
      BY <2>2, <2>3, <2>4
    <3> QED BY <2>3, <3>1
  <2> QED BY <2>5
<1>3. k \in D
  <2> SUFFICES ASSUME k \notin D PROVE FALSE
    OBVIOUS
  <2>1. \A i \in D : i \in 1 .. b /\ i <= k /\ i # k
    BY <1>2
  <2>2. PICK i \in D : TRUE
    OBVIOUS
  <2>3. k - 1 \in Above
    BY <1>2, <2>1, <2>2
  <2> QED BY <1>2, <2>3
<1> QED BY <1>2, <1>3

(* A new row has an id of its own, and the other rows stay as they are.    *)
LEMMA RowAdded ==
    ASSUME NEW rows, Numbered(rows), NEW r, NEW more, more = WithRow(rows, NextId(rows), r)
    PROVE  /\ NextId(rows) \in Nat \ {0}
           /\ \A i \in DOMAIN rows : i \in Nat \ {0} /\ i < NextId(rows)
           /\ DOMAIN more = DOMAIN rows \cup {NextId(rows)}
           /\ more[NextId(rows)] = r
           /\ \A i \in DOMAIN rows : more[i] = rows[i]
           /\ Numbered(more)
<1>1. PICK b \in Nat : DOMAIN rows \subseteq 1 .. b
  BY DEF Numbered
<1>2. NextId(rows) \in Nat \ {0} /\ \A i \in DOMAIN rows : i < NextId(rows)
  <2>1. CASE DOMAIN rows = {}
    BY <2>1 DEF NextId
  <2>2. CASE DOMAIN rows # {}
    <3> DEFINE m == CHOOSE m \in DOMAIN rows : \A i \in DOMAIN rows : i <= m
    <3>1. m \in DOMAIN rows /\ \A i \in DOMAIN rows : i <= m
      BY <1>1, <2>2, LastRow
    <3>2. NextId(rows) = 1 + m
      BY <2>2 DEF NextId
    <3> HIDE DEF m
    <3> QED BY <1>1, <3>1, <3>2
  <2> QED BY <2>1, <2>2
<1> DEFINE n == NextId(rows)
<1>3. n \in Nat \ {0} /\ \A i \in DOMAIN rows : i < n
  BY <1>2
<1>4. more = WithRow(rows, n, r)
  OBVIOUS
<1> HIDE DEF n
<1>5. /\ DOMAIN more = DOMAIN rows \cup {n} /\ more[n] = r
      /\ \A i \in DOMAIN rows : more[i] = rows[i]
  BY <1>1, <1>3, <1>4 DEF WithRow
<1>6. Numbered(more)
  <2>1. DOMAIN more \subseteq 1 .. n
    BY <1>1, <1>3, <1>5
  <2> QED BY <1>3, <2>1 DEF Numbered
<1> QED BY <1>1, <1>3, <1>5, <1>6 DEF n

-----------------------------------------------------------------------------
(* The script adds the files of its plugin in their order, while           *)
(* cachemutex is held; one whose file was checked is there or was deleted  *)
(* since.                                                                  *)
ScriptOK ==
    /\ cachemutex \in Slots \cup {None}
    /\ cachemutex = None <=> script.at = "none"
    /\ \/ script = NoScript
       \/ /\ script.name \in Names
          /\ script = [name |-> script.name, plugin |-> 0, file |-> 0, at |-> "start"]
       \/ /\ script.plugin \in 1 .. lastplugin
          /\ script.file \in 1 .. NFiles + 1
          /\ script.at \in {"call", "named", "checked"}
          /\ script.at # "call" => script.file \in FileNames
          /\ script.at = "checked" => script.plugin \in DOMAIN dbplugins \cup late

RowsOK ==
    /\ lastplugin \in Nat
    /\ DOMAIN dbplugins \subseteq 1 .. lastplugin
    /\ \A i \in DOMAIN dbplugins : dbplugins[i] \in Names
    /\ Numbered(dbfiles)
    /\ \A f \in DOMAIN dbfiles :
         dbfiles[f].plugin \in 1 .. lastplugin /\ dbfiles[f].name \in FileNames

(* What an installation has added is there unless it was deleted since.    *)
StillThere(i, fs) == i \in DOMAIN dbplugins => i \in lost \/ fs \subseteq FilesOf(i)

WholeInv ==
    /\ script.at \in {"call", "named", "checked"} =>
         StillThere(script.plugin, 1 .. script.file - 1)
    /\ \A i \in whole : i \in 1 .. lastplugin /\ StillThere(i, FileNames)

PluginInv == ScriptOK /\ RowsOK /\ FilesOwned /\ WholeInv

LEMMA PluginInvInit == PluginInit => PluginInv
<1> SUFFICES ASSUME PluginInit PROVE PluginInv
  OBVIOUS
<1>1. /\ cachemutex = None /\ script = NoScript /\ lastplugin = 0 /\ whole = {}
      /\ DOMAIN dbplugins = {} /\ DOMAIN dbfiles = {}
  BY DEF PluginInit
<1>2. ScriptOK
  BY <1>1 DEF ScriptOK, NoScript
<1>3. RowsOK
  BY <1>1 DEF RowsOK, Numbered
<1>4. FilesOwned /\ WholeInv
  BY <1>1 DEF FilesOwned, WholeInv, NoScript
<1> QED BY <1>2, <1>3, <1>4 DEF PluginInv

(* What the invariant is about does not change.                            *)
LEMMA SameServer ==
    ASSUME PluginInv,
           UNCHANGED <<cachemutex, script, dbplugins, dbfiles, lastplugin, whole, lost, late>>
    PROVE  PluginInv'
BY DEF PluginInv, ScriptOK, RowsOK, Numbered, FilesOwned, WholeInv, StillThere, FilesOf

LEMMA CloneKeeps ==
    ASSUME PluginInv, NEW s \in Slots, InstallClone(s)
    PROVE  PluginInv'
<1>1. UNCHANGED <<dbplugins, dbfiles, lastplugin, whole, lost, late>> /\ cachemutex = None
  BY DEF InstallClone
<1>2. CASE UNCHANGED <<cachemutex, script>>
  BY <1>1, <1>2, SameServer
<1>3. CASE /\ net[s].arg \in Offered
           /\ cachemutex' = s
           /\ script' = [name |-> net[s].arg, plugin |-> 0, file |-> 0, at |-> "start"]
  <2>1. net[s].arg \in Names
    BY <1>3 DEF Offered
  <2>2. ScriptOK'
    BY <1>3, <2>1, WebAssumption DEF ScriptOK, NoScript
  <2>3. WholeInv'
    BY <1>1, <1>3 DEF PluginInv, WholeInv, StillThere, FilesOf
  <2> QED BY <1>1, <2>2, <2>3 DEF PluginInv, RowsOK, Numbered, FilesOwned
<1> QED BY <1>2, <1>3 DEF InstallClone

(* The plugin's id is new: no file has it, and none was answered for.      *)
LEMMA AddsPluginKeeps ==
    ASSUME PluginInv, ScriptAddsPlugin
    PROVE  PluginInv'
<1> PICK n : n = lastplugin + 1
  OBVIOUS
<1>1. /\ UNCHANGED <<cachemutex, dbfiles, whole, lost, late>>
      /\ script.at = "start" /\ script.name \in Names /\ cachemutex # None
      /\ lastplugin' = n /\ dbplugins' = WithRow(dbplugins, n, script.name)
      /\ script' = [name |-> script.name, plugin |-> n, file |-> 1, at |-> "call"]
  BY DEF ScriptAddsPlugin, PluginInv, ScriptOK, NoScript
<1>2. lastplugin \in Nat /\ n \in Nat /\ n \notin 1 .. lastplugin
  BY DEF PluginInv, RowsOK
<1>3. /\ DOMAIN dbplugins' = DOMAIN dbplugins \cup {n} /\ dbplugins'[n] = script.name
      /\ \A i \in DOMAIN dbplugins : dbplugins'[i] = dbplugins[i]
  BY <1>1, <1>2 DEF WithRow, PluginInv, RowsOK
<1>4. ScriptOK'
  BY <1>1, <1>2, PluginAssumption DEF PluginInv, ScriptOK, NoScript, FileNames
<1>5. RowsOK'
  BY <1>1, <1>2, <1>3 DEF PluginInv, RowsOK, Numbered
<1>6. FilesOwned'
  BY <1>1, <1>3 DEF PluginInv, FilesOwned
<1>7. WholeInv'
  <2>1. StillThere(n, 1 .. 0)'
    BY DEF StillThere
  <2>2. ASSUME NEW i \in whole PROVE i \in 1 .. lastplugin' /\ StillThere(i, FileNames)'
    <3>1. i \in 1 .. lastplugin /\ StillThere(i, FileNames)
      BY <2>2 DEF PluginInv, WholeInv
    <3> QED BY <1>1, <1>2, <1>3, <3>1 DEF StillThere, FilesOf
  <2>3. script'.plugin = n /\ script'.file - 1 = 0 /\ whole' = whole
    BY <1>1
  <2> QED BY <2>1, <2>2, <2>3 DEF WholeInv
<1> QED BY <1>4, <1>5, <1>6, <1>7 DEF PluginInv

LEMMA ScriptProceeds ==
    ASSUME PluginInv, AddFileName \/ AddFileChecked
    PROVE  PluginInv'
<1>1. UNCHANGED <<cachemutex, dbplugins, dbfiles, lastplugin, whole, lost, late>>
  BY DEF AddFileName, AddFileChecked
<1>2. /\ script.plugin \in 1 .. lastplugin /\ script.file \in 1 .. NFiles + 1
      /\ script.at \in {"call", "named"} /\ script.file \in FileNames /\ cachemutex # None
      /\ script' = [script EXCEPT !.at = IF script.at = "call" THEN "named" ELSE "checked"]
      /\ script.at = "named" => script.plugin \in DOMAIN dbplugins
  BY DEF AddFileName, AddFileChecked, Proceeds, PluginKnown, PluginInv, ScriptOK, NoScript
<1>3. /\ script'.plugin = script.plugin /\ script'.file = script.file
      /\ script'.at = IF script.at = "call" THEN "named" ELSE "checked"
  BY <1>2 DEF PluginInv, ScriptOK, NoScript
<1>4. ScriptOK'
  BY <1>1, <1>2, <1>3 DEF PluginInv, ScriptOK, NoScript
<1>5. WholeInv'
  BY <1>1, <1>2, <1>3 DEF PluginInv, WholeInv, StillThere, FilesOf
<1> QED BY <1>1, <1>4, <1>5 DEF PluginInv, RowsOK, Numbered, FilesOwned

LEMMA FileSaveKeeps ==
    ASSUME PluginInv, AddFileSave
    PROVE  PluginInv'
<1> PICK f, p, k : f = NextId(dbfiles) /\ p = script.plugin /\ k = script.file
  OBVIOUS
<1>1. /\ UNCHANGED <<cachemutex, dbplugins, lastplugin, whole, lost, late>>
      /\ script.at = "checked"
      /\ dbfiles' = WithRow(dbfiles, NextId(dbfiles), [plugin |-> p, name |-> k])
      /\ script' = [script EXCEPT !.file = @ + 1, !.at = "call"]
  BY DEF AddFileSave
<1>2. /\ p \in 1 .. lastplugin /\ k \in FileNames
      /\ cachemutex # None /\ p \in DOMAIN dbplugins \cup late
  BY <1>1 DEF PluginInv, ScriptOK, NoScript
<1>3. script'.plugin = p /\ script'.file = k + 1 /\ script'.at = "call"
  BY <1>1 DEF PluginInv, ScriptOK, NoScript
<1>4. /\ DOMAIN dbfiles' = DOMAIN dbfiles \cup {f} /\ dbfiles'[f] = [plugin |-> p, name |-> k]
      /\ \A g \in DOMAIN dbfiles : dbfiles'[g] = dbfiles[g] /\ g # f
      /\ Numbered(dbfiles')
  <2>1. Numbered(dbfiles)
    BY DEF PluginInv, RowsOK
  <2> QED BY <1>1, <2>1, RowAdded
<1>5. ScriptOK'
  BY <1>1, <1>2, <1>3, PluginAssumption DEF PluginInv, ScriptOK, NoScript, FileNames
<1>6. RowsOK' /\ FilesOwned'
  BY <1>1, <1>2, <1>4 DEF PluginInv, RowsOK, FilesOwned
<1>7. (\A i : FilesOf(i) \subseteq FilesOf(i)') /\ k \in FilesOf(p)'
  BY <1>4 DEF FilesOf
<1>8. WholeInv'
  <2>1. StillThere(p, 1 .. k)'
    <3>1. StillThere(p, 1 .. k - 1)
      BY <1>1 DEF PluginInv, WholeInv
    <3>2. 1 .. k = 1 .. (k - 1) \cup {k}
      BY <1>2, PluginAssumption DEF FileNames
    <3> QED BY <1>1, <1>7, <3>1, <3>2 DEF StillThere
  <2>2. ASSUME NEW i \in whole PROVE i \in 1 .. lastplugin' /\ StillThere(i, FileNames)'
    BY <1>1, <1>7, <2>2 DEF PluginInv, WholeInv, StillThere
  <2>3. script'.plugin = p /\ script'.file - 1 = k /\ whole' = whole
    BY <1>1, <1>2, <1>3, PluginAssumption DEF FileNames
  <2> QED BY <2>1, <2>2, <2>3 DEF WholeInv
<1> QED BY <1>5, <1>6, <1>8 DEF PluginInv

(* Only a script that has come to its end is answered "ok".                *)
LEMMA EndsKeeps ==
    ASSUME PluginInv, NEW complete \in BOOLEAN, InstallEnds(complete)
    PROVE  PluginInv'
<1>1. /\ UNCHANGED <<dbplugins, dbfiles, lastplugin, lost, late>>
      /\ cachemutex' = None /\ script' = NoScript
      /\ script.at \in {"start", "call", "named"}
  BY DEF InstallEnds, Unlocked, PluginInv, ScriptOK, NoScript
<1>2. ScriptOK'
  BY <1>1 DEF ScriptOK, NoScript
<1>3. ASSUME NEW i \in whole' PROVE i \in 1 .. lastplugin' /\ StillThere(i, FileNames)'
  <2>1. CASE i \in whole
    BY <1>1, <2>1 DEF PluginInv, WholeInv, StillThere, FilesOf
  <2>2. CASE i \notin whole
    <3>1. i = script.plugin /\ script.file = NFiles + 1
      BY <1>3, <2>2 DEF InstallEnds, Status
    <3>2. script.at \in {"call", "named"} /\ i \in 1 .. lastplugin
      BY <1>1, <3>1, PluginAssumption DEF PluginInv, ScriptOK, NoScript
    <3>3. StillThere(i, 1 .. script.file - 1)
      BY <3>1, <3>2 DEF PluginInv, WholeInv
    <3>4. 1 .. script.file - 1 = FileNames
      BY <3>1, PluginAssumption DEF FileNames
    <3> QED BY <1>1, <3>2, <3>3, <3>4 DEF StillThere, FilesOf
  <2> QED BY <2>1, <2>2
<1>4. WholeInv'
  BY <1>1, <1>3 DEF WholeInv, NoScript
<1> QED BY <1>1, <1>2, <1>4 DEF PluginInv, RowsOK, Numbered, FilesOwned

(* A plugin goes with all of its files; the files that stay are of others. *)
LEMMA DeletePluginKeeps ==
    ASSUME PluginInv, NEW s \in Slots, DeletePluginAndFiles(s)
    PROVE  PluginInv'
<1> DEFINE i == net[s].arg
<1>1. /\ UNCHANGED <<cachemutex, script, lastplugin, whole, lost>>
      /\ dbplugins' = WithoutRow(dbplugins, i)
      /\ dbfiles' = Kept(FilesToo(i))
      /\ late' = IF script.at = "checked" /\ script.plugin = i THEN late \cup {i} ELSE late
  BY DEF DeletePluginAndFiles
<1> HIDE DEF i
<1>2. /\ DOMAIN dbplugins' = DOMAIN dbplugins \ {i}
      /\ \A j \in DOMAIN dbplugins' : dbplugins'[j] = dbplugins[j]
      /\ DOMAIN dbfiles' = {f \in DOMAIN dbfiles : dbfiles[f].plugin # i}
      /\ \A f \in DOMAIN dbfiles' : dbfiles'[f] = dbfiles[f]
  BY <1>1 DEF WithoutRow, Kept, FilesToo
<1>3. ScriptOK'
  BY <1>1, <1>2 DEF PluginInv, ScriptOK
<1>4. RowsOK'
  BY <1>1, <1>2 DEF PluginInv, RowsOK, Numbered
<1>5. FilesOwned'
  BY <1>1, <1>2 DEF PluginInv, FilesOwned
<1>6. \A j : j # i => FilesOf(j)' = FilesOf(j)
  BY <1>2 DEF FilesOf
<1>7. \A j, fs : StillThere(j, fs) => StillThere(j, fs)'
  BY <1>1, <1>2, <1>6 DEF StillThere
<1>8. WholeInv'
  BY <1>1, <1>7 DEF PluginInv, WholeInv
<1> QED BY <1>3, <1>4, <1>5, <1>8 DEF PluginInv

LEMMA DeleteRepoKeeps ==
    ASSUME PluginInv, NEW s \in Slots, DeleteRepoAndFile(s)
    PROVE  PluginInv'
<1> DEFINE r == net[s].arg
<1>1. /\ UNCHANGED <<cachemutex, script, dbplugins, lastplugin, whole, late>>
      /\ dbfiles' = Kept({r})
      /\ lost' = IF r \in DOMAIN dbfiles THEN lost \cup {dbfiles[r].plugin} ELSE lost
  BY DEF DeleteRepoAndFile
<1> HIDE DEF r
<1>2. /\ DOMAIN dbfiles' = DOMAIN dbfiles \ {r}
      /\ \A f \in DOMAIN dbfiles' : dbfiles'[f] = dbfiles[f]
  BY <1>1 DEF Kept
<1>3. ScriptOK'
  BY <1>1 DEF PluginInv, ScriptOK
<1>4. RowsOK' /\ FilesOwned'
  BY <1>1, <1>2 DEF PluginInv, RowsOK, Numbered, FilesOwned
<1>5. \A j : j \notin lost' => FilesOf(j)' = FilesOf(j)
  BY <1>1, <1>2 DEF FilesOf
<1>6. \A j, fs : StillThere(j, fs) => StillThere(j, fs)'
  BY <1>1, <1>5 DEF StillThere
<1>7. WholeInv'
  BY <1>1, <1>6 DEF PluginInv, WholeInv
<1> QED BY <1>3, <1>4, <1>7 DEF PluginInv

LEMMA PluginInvNext ==
    ASSUME PluginInv, PluginNext
    PROVE  PluginInv'
<1>1. ASSUME UNCHANGED serverVars PROVE PluginInv'
  BY <1>1, SameServer DEF serverVars
<1>2. CASE PluginUser
  <2>1. CASE \E tf \in BOOLEAN : AddPlugin(tf)
    BY <1>1, <2>1 DEF AddPlugin
  <2>2. CASE \E i \in DOMAIN avail : RestAddPlugin(i)
    BY <1>1, <2>2 DEF RestAddPlugin
  <2>3. CASE (\E i \in shown : DeletePlugin(i)) \/ \E r \in dbrepos : DeleteRepo(r)
    BY <1>1, <2>3 DEF DeletePlugin, DeleteRepo, pluginVars
  <2> QED BY <1>2, <2>1, <2>2, <2>3 DEF PluginUser
<1>3. CASE PluginServer
  <2>1. ASSUME NEW s \in Slots,
               ServePlugins(s) \/ ServeAvail(s) \/ InstallCheck(s) \/ DeleteCheck(s)
        PROVE  PluginInv'
    BY <1>1, <2>1 DEF ServePlugins, ServeAvail, InstallCheck, DeleteCheck, pluginVars
  <2>2. CASE ServerFaults /\ UNCHANGED pluginVars
    BY <1>1, <2>2 DEF pluginVars
  <2> QED BY <1>3, <2>1, <2>2, CloneKeeps, DeletePluginKeeps, DeleteRepoKeeps, AddsPluginKeeps,
         ScriptProceeds, FileSaveKeeps, EndsKeeps DEF PluginServer
<1>4. CASE PluginCallbacks
  <2>1. ASSUME NEW s \in Slots, PluginsArrive(s) \/ AvailArrives(s) \/ PluginInstalled(s)
        PROVE  PluginInv'
    BY <1>1, <2>1 DEF PluginsArrive, AvailArrives, PluginInstalled
  <2>2. ASSUME NEW s \in Slots, Deleted(s) \/ PluginRequestFails(s) PROVE PluginInv'
    BY <1>1, <2>2 DEF Deleted, PluginRequestFails, pluginVars
  <2> QED BY <1>4, <2>1, <2>2 DEF PluginCallbacks
<1> QED BY <1>2, <1>3, <1>4 DEF PluginNext

LEMMA PluginInvMeans == PluginInv => PluginTypeOK /\ FilesOwned /\ InstallsWhole
<1> SUFFICES ASSUME PluginInv PROVE PluginTypeOK /\ InstallsWhole
  BY DEF PluginInv
<1>1. PluginTypeOK
  BY PluginAssumption DEF PluginInv, ScriptOK, RowsOK, PluginTypeOK, NoScript, FileNames
<1>2. \A i : FilesOf(i) \subseteq FileNames
  BY DEF FilesOf, PluginInv, RowsOK
<1>3. InstallsWhole
  BY <1>2 DEF InstallsWhole, PluginInv, WholeInv, StillThere
<1> QED BY <1>1, <1>3

-----------------------------------------------------------------------------
(***************************************************************************)
(* The page of the plugins: what a patient user is offered.                *)
(***************************************************************************)

Listing(q, names) == \E n \in Nat : q \in [1 .. n -> names] /\ Lists(q, names)

(* The list in the form, unless an installation was refused.               *)
Shows(names) == adding => refused \/ Listing(avail, names)

(* What the request in flight says about the form and the script.          *)
PluginFlight(r) ==
    /\ r.op \in {"fill", "avail", "install", "delplugin", "delrepo"}
    /\ r.st \in {"open", "running", "ok", "refused"}
    /\ r.op \notin {"avail", "install"} => ~adding
    /\ r.op = "avail" => r.st = "open" \/ (r.st = "ok" /\ Listing(r.data.avail, Offered))
    /\ r.op = "install" /\ r.st = "open" => Shows(Offered)
    /\ r.op = "install" /\ r.st = "running" /\ script.plugin = 0 => Shows(Offered)
    /\ r.op = "install" /\ (r.st = "ok" \/ (r.st = "running" /\ script.plugin # 0)) =>
         r.arg \in Names \ Offered /\ Shows(Offered \cup {r.arg})

(* A script that runs is the one of the installation in flight.            *)
ScriptFlight ==
    script.at # "none" =>
        /\ net[cachemutex] # NoRequest
        /\ net[cachemutex].op = "install" /\ net[cachemutex].st = "running"
        /\ net[cachemutex].arg = script.name
        /\ script.at = "start" => script.name \in Offered

PluginSeen ==
    /\ Idle => Shows(Offered)
    /\ ScriptFlight
    /\ \A s \in Slots : net[s] # NoRequest => PluginFlight(net[s])

PluginsInv == Waits /\ PluginInv /\ (Patient => PluginSeen)

LEMMA SplicedList ==
    ASSUME NEW S, S \subseteq Int, Listing(avail, S), NEW a \in S
    PROVE  Listing(Splice(avail, IndexOf(a)), S \ {a})
<1>1. PICK n \in Nat : avail \in [1 .. n -> S] /\ Lists(avail, S)
  BY DEF Listing
<1>2. \E i \in DOMAIN avail : avail[i] = a
  BY <1>1 DEF Lists
<1>3. IndexOf(a) \in 1 .. n /\ avail[IndexOf(a)] = a
  BY <1>1, <1>2 DEF IndexOf
<1>4. PICK i \in 1 .. n : i = IndexOf(a) /\ avail[i] = a
  BY <1>3
<1>5. Len(avail) = n
  BY <1>1
<1>6. Splice(avail, i) = [j \in 1 .. n - 1 |-> IF j < i THEN avail[j] ELSE avail[j + 1]]
  BY <1>1, <1>4, <1>5 DEF Splice, WithoutAt
<1> DEFINE q == [j \in 1 .. n - 1 |-> IF j < i THEN avail[j] ELSE avail[j + 1]]
<1>7. \A j \in 1 .. n : avail[j] \in S /\ (j < i => avail[j] < a) /\ (i < j => a < avail[j])
  BY <1>1, <1>4 DEF Lists
<1>8. n - 1 \in Nat /\ q \in [1 .. n - 1 -> S \ {a}]
  <2>1. n - 1 \in Nat
    BY <1>4
  <2>2. ASSUME NEW j \in 1 .. n - 1 PROVE q[j] \in S \ {a}
    BY <1>4, <1>7, <2>2
  <2> QED BY <2>1, <2>2
<1>9. \A j, k \in DOMAIN q : j < k => q[j] < q[k]
  <2>1. \A j, k \in 1 .. n : j < k => avail[j] < avail[k]
    BY <1>1 DEF Lists
  <2> QED BY <1>4, <2>1
<1>10. {q[j] : j \in DOMAIN q} = S \ {a}
  <2>1. ASSUME NEW x \in S \ {a} PROVE \E j \in DOMAIN q : q[j] = x
    <3>1. PICK k \in 1 .. n : avail[k] = x
      BY <1>1 DEF Lists
    <3>2. CASE k < i
      <4>1. k \in DOMAIN q /\ q[k] = x
        BY <1>4, <3>1, <3>2
      <4> QED BY <4>1
    <3>3. CASE i < k
      <4>1. k - 1 \in DOMAIN q /\ q[k - 1] = x
        BY <1>4, <3>1, <3>3
      <4> QED BY <4>1
    <3> QED BY <1>4, <3>1, <3>2, <3>3
  <2> QED BY <1>8, <2>1
<1>11. Splice(avail, i) = q
  BY <1>6
<1> HIDE DEF q
<1>12. Lists(q, S \ {a})
  BY <1>9, <1>10 DEF Lists
<1>13. PICK m \in Nat : m = n - 1 /\ q \in [1 .. m -> S \ {a}]
  BY <1>8
<1>14. Listing(q, S \ {a})
  BY <1>12, <1>13 DEF Listing
<1>15. Splice(avail, IndexOf(a)) = q
  BY <1>4, <1>11
<1> QED BY <1>14, <1>15

LEMMA OfferedNames ==
    /\ Offered \subseteq Names /\ Names \subseteq Int
    /\ Cardinality(Offered) \in Nat
<1>1. IsFiniteSet(Names) /\ Names \subseteq Int
  BY FS_Interval, PluginAssumption DEF Names
<1>2. Offered \subseteq Names
  BY DEF Offered
<1> QED BY <1>1, <1>2, FS_Subset, FS_CardinalityType

(* Nobody but the request in flight of a patient user uses the server.     *)
LEMMA NoScriptBut ==
    ASSUME PluginsInv, Patient, NEW s \in Slots, net[s] # NoRequest
    PROVE  /\ \A q \in Slots : q # s => net[q] = NoRequest
           /\ script.at # "none" => s = cachemutex
<1>1. \A q \in Slots : q # s => net[q] = NoRequest
  BY DEF PluginsInv, Waits, OneInv, Patient
<1>2. script.at # "none" => cachemutex \in Slots
  BY DEF PluginsInv, PluginInv, ScriptOK
<1> QED BY <1>1, <1>2 DEF PluginsInv, PluginSeen, ScriptFlight

LEMMA PluginUserSeen ==
    ASSUME PluginsInv, PluginUser
    PROVE  WebMove /\ Waits' /\ (Patient' => PluginSeen')
<1>1. net = [s \in Slots |-> net[s]]
  BY DEF PluginsInv, Waits
<1>2. UserActs /\ UNCHANGED serverVars
  BY DEF PluginUser, AddPlugin, RestAddPlugin, DeletePlugin, DeleteRepo, pluginVars
<1>3. PICK op, arg :
        /\ Send(op, arg)
        /\ \/ /\ op \in {"avail", "fill"} /\ adding' = (op = "avail")
           \/ /\ op = "install" /\ adding /\ UNCHANGED <<adding, avail, refused>>
           \/ /\ op \in {"delplugin", "delrepo"} /\ ~adding /\ UNCHANGED adding
  <2>1. ASSUME NEW tf \in BOOLEAN, AddPlugin(tf)
        PROVE  \E op \in {"avail", "fill"} : Send(op, 0) /\ adding' = (op = "avail")
    <3>1. CASE tf
      <4>1. Send("avail", 0) /\ adding' = TRUE
        BY <2>1, <3>1 DEF AddPlugin
      <4> QED BY <4>1
    <3>2. CASE ~tf
      <4>1. Send("fill", 0) /\ adding' = FALSE
        BY <2>1, <3>2 DEF AddPlugin
      <4> QED BY <4>1
    <3> QED BY <3>1, <3>2
  <2>2. ASSUME NEW i, RestAddPlugin(i)
        PROVE  Send("install", avail[i]) /\ adding /\ UNCHANGED <<adding, avail, refused>>
    BY <2>2 DEF RestAddPlugin
  <2>3. ASSUME NEW i, DeletePlugin(i) PROVE Send("delplugin", i) /\ ~adding /\ UNCHANGED adding
    BY <2>3 DEF DeletePlugin, pluginVars, pageVars
  <2>4. ASSUME NEW i, DeleteRepo(i) PROVE Send("delrepo", i) /\ ~adding /\ UNCHANGED adding
    BY <2>4 DEF DeleteRepo, pluginVars, pageVars
  <2> QED BY <2>1, <2>2, <2>3, <2>4 DEF PluginUser
<1>4. /\ WebMove /\ ~Idle'
      /\ \A q \in Slots : net'[q] = net[q] \/ Sent(net'[q], op, arg)
  BY <1>1, <1>2, <1>3, Acted, SentOne DEF Send, UserActs, WebMove, ByUser
<1>5. Waits' /\ (Patient' => Patient /\ Idle)
  BY <1>2, <1>4, WaitsNext, Acted DEF PluginsInv, UserActs, Patient
<1>6. ASSUME Patient' PROVE PluginSeen'
  <2>1. /\ PluginSeen /\ Idle /\ cachemutex \in Slots \cup {None}
        /\ cachemutex = None => script.at = "none"
    BY <1>5, <1>6 DEF PluginsInv, PluginInv, ScriptOK
  <2>2. script.at = "none"
    BY <2>1 DEF PluginSeen, ScriptFlight, Idle
  <2>3. Shows(Offered)
    BY <2>1 DEF PluginSeen
  <2>4. UNCHANGED <<script, Offered>>
    BY <1>2 DEF serverVars, Offered, Installed
  <2>5. ScriptFlight'
    BY <2>2, <2>4 DEF ScriptFlight
  <2>6. op = "install" => Shows(Offered)'
    BY <1>3, <2>3, <2>4 DEF Shows
  <2>7. \A q \in Slots : net'[q] # NoRequest => Sent(net'[q], op, arg)
    BY <1>4, <2>1 DEF Idle
  <2>8. op \in {"delplugin", "delrepo", "fill"} => ~adding'
    BY <1>3
  <2>9. ASSUME NEW q \in Slots, net'[q] # NoRequest PROVE PluginFlight(net[q])'
    <3>1. net'[q].op = op /\ net'[q].st = "open"
      BY <2>7, <2>9 DEF Sent
    <3>2. op \in {"fill", "avail", "install", "delplugin", "delrepo"}
      BY <1>3
    <3>3. op \notin {"avail", "install"} => ~adding'
      BY <2>8, <3>2
    <3> QED BY <2>6, <3>1, <3>2, <3>3 DEF PluginFlight
  <2> QED BY <1>4, <2>5, <2>9 DEF PluginSeen
<1> QED BY <1>4, <1>5, <1>6

(* An answer to the request in flight.                                     *)
LEMMA PluginAnswer ==
    ASSUME PluginsInv, NEW s \in Slots, net[s] # NoRequest,
           NEW st \in {"running", "ok", "refused"}, NEW d, net' = Answered(s, st, d),
           UNCHANGED <<pageurl, loop, moves, session, broke, hasty>>,
           UNCHANGED <<adding, avail, refused>>
    PROVE  /\ WebMove /\ Waits'
           /\ Patient' => /\ Patient /\ ~Idle' /\ PluginFlight(net[s])
                          /\ \A q \in Slots : q # s => net'[q] = NoRequest
                          /\ script.at # "none" => s = cachemutex
           /\ net'[s] # NoRequest /\ net'[s].op = net[s].op /\ net'[s].arg = net[s].arg
           /\ net'[s].st = st /\ net'[s].data = d
<1>1. /\ WebMove
      /\ net'[s] # NoRequest
      /\ net'[s].op = net[s].op /\ net'[s].arg = net[s].arg
      /\ net'[s].st = st /\ net'[s].data = d
      /\ \A q \in Slots : q # s => net'[q] = net[q]
  BY AnsweredOne DEF PluginsInv
<1>2. Waits' /\ (Patient' => Patient)
  BY <1>1, WaitsNext DEF PluginsInv
<1>3. Patient => PluginFlight(net[s])
  BY DEF PluginsInv, PluginSeen
<1> QED BY <1>1, <1>2, <1>3, NoScriptBut DEF Idle

LEMMA AnswersSeen ==
    ASSUME PluginsInv, NEW s \in Slots,
           ServePlugins(s) \/ ServeAvail(s) \/ InstallCheck(s) \/ DeleteCheck(s)
    PROVE  WebMove /\ Waits' /\ (Patient' => PluginSeen')
<1>1. /\ net[s] # NoRequest /\ net[s].st = "open" /\ UNCHANGED pluginVars
      /\ UNCHANGED <<pageurl, loop, moves, session, broke, hasty>>
  BY DEF ServePlugins, ServeAvail, InstallCheck, DeleteCheck, Awaited, Answer
<1>20. PICK st \in {"running", "ok", "refused"} : \E d :
        /\ net' = Answered(s, st, d)
        /\ net[s].op = "avail" => Listing(d.avail, Offered)
        /\ net[s].op \in {"fill", "avail"} => st = "ok"
        /\ net[s].op = "install" => st # "ok"
  <2>1. CASE ServePlugins(s)
    BY <2>1 DEF ServePlugins, Awaited, Answer
  <2>2. CASE ServeAvail(s)
    <3>1. PICK q \in [1 .. Cardinality(Offered) -> Offered] :
            Lists(q, Offered) /\ net' = Answered(s, "ok", [plugins |-> {}, avail |-> q])
      BY <2>2 DEF ServeAvail, Answer
    <3>2. Listing([plugins |-> {}, avail |-> q].avail, Offered)
      BY <3>1, OfferedNames DEF Listing
    <3>3. net[s].op = "avail"
      BY <2>2 DEF ServeAvail, Awaited
    <3> QED BY <3>1, <3>2, <3>3
  <2>3. CASE InstallCheck(s)
    BY <2>3 DEF InstallCheck, Awaited, Answer
  <2>4. CASE DeleteCheck(s)
    BY <2>4 DEF DeleteCheck, Awaited, Answer, Found
  <2> QED BY <2>1, <2>2, <2>3, <2>4
<1>2. PICK d :
        /\ net' = Answered(s, st, d)
        /\ net[s].op = "avail" => Listing(d.avail, Offered)
        /\ net[s].op \in {"fill", "avail"} => st = "ok"
        /\ net[s].op = "install" => st # "ok"
  BY <1>20
<1>3. UNCHANGED <<adding, avail, refused, script, cachemutex, Offered>>
  BY <1>1 DEF pluginVars, pageVars, serverVars, Offered, Installed
<1>4. /\ WebMove /\ Waits'
      /\ Patient' => /\ Patient /\ ~Idle' /\ PluginFlight(net[s])
                     /\ \A q \in Slots : q # s => net'[q] = NoRequest
                     /\ script.at # "none" => s = cachemutex
      /\ net'[s] # NoRequest /\ net'[s].op = net[s].op /\ net'[s].arg = net[s].arg
      /\ net'[s].st = st /\ net'[s].data = d
  BY <1>1, <1>2, <1>3, PluginAnswer
<1>5. ASSUME Patient' PROVE PluginSeen'
  <2>1. script.at = "none"
    BY <1>1, <1>4, <1>5 DEF PluginsInv, PluginSeen, ScriptFlight
  <2>2. script.plugin = 0
    BY <2>1 DEF PluginsInv, PluginInv, ScriptOK, NoScript
  <2>3. PluginFlight(net[s])'
    BY <1>1, <1>2, <1>3, <1>4, <1>5, <2>2 DEF PluginFlight, Shows
  <2> QED BY <1>3, <1>4, <1>5, <2>1, <2>3 DEF PluginSeen, ScriptFlight
<1> QED BY <1>4, <1>5

LEMMA CloneSeen ==
    ASSUME PluginsInv, NEW s \in Slots, InstallClone(s)
    PROVE  WebMove /\ Waits' /\ (Patient' => PluginSeen')
<1>1. /\ net[s] # NoRequest /\ net[s].st = "running" /\ net[s].op = "install"
      /\ script = NoScript
      /\ UNCHANGED <<adding, avail, refused, Offered>>
  BY DEF InstallClone, Continue, pageVars, Offered, Installed, PluginsInv, PluginInv, ScriptOK,
     NoScript
<1>2. CASE /\ net[s].arg \in Offered /\ cachemutex' = s
           /\ script' = [name |-> net[s].arg, plugin |-> 0, file |-> 0, at |-> "start"]
           /\ UNCHANGED webVars
  <2>1. WebMove /\ Waits' /\ (Patient' => Patient) /\ UNCHANGED net
    BY <1>2 DEF webVars, WebMove, InLoop, PluginsInv, Waits, OneInv, Idle, Patient
  <2>2. ASSUME Patient PROVE PluginSeen'
    <3>1. PluginSeen
      BY <2>2 DEF PluginsInv
    <3>2. ScriptFlight'
      BY <1>1, <1>2, <2>1 DEF ScriptFlight
    <3>3. script.plugin = 0 /\ script'.plugin = 0
      BY <1>1, <1>2 DEF NoScript
    <3>4. ASSUME NEW q \in Slots, net[q] # NoRequest PROVE PluginFlight(net[q])'
      BY <1>1, <2>1, <3>1, <3>3, <3>4 DEF PluginFlight, PluginSeen, Shows
    <3> QED BY <1>1, <2>1, <3>1, <3>2, <3>4 DEF PluginSeen, Idle, Shows
  <2> QED BY <2>1, <2>2
<1>3. CASE Serves(s, "refused") /\ UNCHANGED <<cachemutex, script>>
  <2>1. /\ WebMove /\ Waits'
        /\ Patient' => /\ Patient /\ ~Idle' /\ PluginFlight(net[s])
                       /\ \A q \in Slots : q # s => net'[q] = NoRequest
        /\ net'[s] # NoRequest /\ net'[s].op = net[s].op /\ net'[s].st = "refused"
    BY <1>1, <1>3, PluginAnswer DEF Serves
  <2>2. ASSUME Patient' PROVE PluginSeen'
    BY <1>1, <1>3, <2>1, <2>2 DEF PluginSeen, PluginFlight, ScriptFlight, NoScript
  <2> QED BY <2>1, <2>2
<1> QED BY <1>2, <1>3 DEF InstallClone

(* The plugin whose installation is in flight is not offered any more.     *)
LEMMA AddsPluginSeen ==
    ASSUME PluginsInv, ScriptAddsPlugin
    PROVE  WebMove /\ Waits' /\ (Patient' => PluginSeen')
<1> PICK s, name, n : s = cachemutex /\ name = script.name /\ n = lastplugin + 1
  OBVIOUS
<1>1. /\ UNCHANGED <<webVars, adding, avail, refused, cachemutex, dbrepos>>
      /\ script.at = "start" /\ script.plugin = 0
      /\ script' = [name |-> name, plugin |-> n, file |-> 1, at |-> "call"]
      /\ dbplugins' = WithRow(dbplugins, n, name) /\ n \notin DOMAIN dbplugins /\ n # 0
  BY DEF ScriptAddsPlugin, pageVars, PluginsInv, PluginInv, ScriptOK, NoScript, RowsOK
<1>2. Installed' = Installed \cup {name}
  BY <1>1 DEF Installed, WithRow
<1>3. Offered' = Offered \ {name}
  BY <1>1, <1>2 DEF Offered
<1>4. WebMove /\ Waits' /\ (Patient' => Patient) /\ UNCHANGED net
  BY <1>1 DEF webVars, WebMove, InLoop, PluginsInv, Waits, OneInv, Idle, Patient
<1>5. ASSUME Patient PROVE PluginSeen'
  <2>1. /\ s \in Slots /\ net[s] # NoRequest /\ net[s].op = "install" /\ net[s].st = "running"
        /\ net[s].arg = name /\ name \in Offered /\ PluginFlight(net[s])
    BY <1>1, <1>5 DEF PluginsInv, PluginSeen, ScriptFlight, PluginInv, ScriptOK
  <2>2. \A q \in Slots : q # s => net[q] = NoRequest
    BY <1>5, <2>1, NoScriptBut
  <2>3. Shows(Offered)
    BY <1>1, <2>1 DEF PluginFlight
  <2>4. Offered' \cup {name} = Offered /\ name \in Names \ Offered'
    BY <1>3, <2>1 DEF Offered
  <2>5. PluginFlight(net[s])'
    BY <1>1, <1>4, <2>1, <2>3, <2>4 DEF PluginFlight, Shows
  <2>6. ScriptFlight'
    BY <1>1, <1>4, <2>1 DEF ScriptFlight
  <2> QED BY <1>4, <2>1, <2>2, <2>5, <2>6 DEF PluginSeen, Idle
<1> QED BY <1>4, <1>5

LEMMA FilesSeen ==
    ASSUME PluginsInv, AddFileName \/ AddFileChecked \/ AddFileSave
    PROVE  WebMove /\ Waits' /\ (Patient' => PluginSeen')
<1>1. /\ UNCHANGED <<webVars, adding, avail, refused, cachemutex, Offered>>
      /\ script.at \in {"call", "named", "checked"} /\ script'.at \in {"call", "named", "checked"}
      /\ script'.name = script.name /\ script'.plugin = script.plugin
  <2>1. /\ UNCHANGED <<webVars, adding, avail, refused, cachemutex, Offered>>
        /\ script.at \in {"call", "named", "checked"}
    BY DEF AddFileName, AddFileChecked, AddFileSave, Proceeds, pageVars, Offered, Installed
  <2>2. /\ script'.name = script.name /\ script'.plugin = script.plugin
        /\ script'.at \in {"call", "named", "checked"}
    <3>1. CASE AddFileName
      BY <3>1 DEF AddFileName, Proceeds, PluginsInv, PluginInv, ScriptOK, NoScript
    <3>2. CASE AddFileChecked
      BY <3>2 DEF AddFileChecked, Proceeds, PluginsInv, PluginInv, ScriptOK, NoScript
    <3>3. CASE AddFileSave
      BY <3>3 DEF AddFileSave, PluginsInv, PluginInv, ScriptOK, NoScript
    <3> QED BY <3>1, <3>2, <3>3
  <2> QED BY <2>1, <2>2
<1>2. WebMove /\ Waits' /\ (Patient' => Patient) /\ UNCHANGED net
  BY <1>1 DEF webVars, WebMove, InLoop, PluginsInv, Waits, OneInv, Idle, Patient
<1>3. ASSUME Patient PROVE PluginSeen'
  <2>1. PluginSeen
    BY <1>3 DEF PluginsInv
  <2>2. ScriptFlight'
    BY <1>1, <1>2, <2>1 DEF PluginSeen, ScriptFlight
  <2>3. ASSUME NEW q \in Slots, net[q] # NoRequest PROVE PluginFlight(net[q])'
    BY <1>1, <1>2, <2>1, <2>3 DEF PluginFlight, PluginSeen, Shows
  <2> QED BY <1>1, <1>2, <2>1, <2>2, <2>3 DEF PluginSeen, Idle, Shows
<1> QED BY <1>2, <1>3

LEMMA EndsSeen ==
    ASSUME PluginsInv, NEW complete \in BOOLEAN, InstallEnds(complete)
    PROVE  WebMove /\ Waits' /\ (Patient' => PluginSeen')
<1> PICK s : s = cachemutex
  OBVIOUS
<1>1. /\ UNCHANGED <<adding, avail, refused, Offered>> /\ s \in Slots
      /\ script.at \in {"start", "call", "named"} /\ script' = NoScript
      /\ complete => script.plugin # 0
      /\ IF Continue(s) THEN Serves(s, Status(complete)) ELSE UNCHANGED webVars
  BY PluginAssumption DEF InstallEnds, pageVars, Offered, Installed, PluginsInv, PluginInv,
     ScriptOK, RowsOK, NoScript
<1>2. CASE ~Continue(s)
  <2>1. WebMove /\ Waits' /\ (Patient' => Patient) /\ UNCHANGED net
    BY <1>1, <1>2 DEF webVars, WebMove, InLoop, PluginsInv, Waits, OneInv, Idle, Patient
  <2>2. ~Patient
    BY <1>1, <1>2 DEF PluginsInv, PluginSeen, ScriptFlight, Continue
  <2> QED BY <2>1, <2>2
<1>3. CASE Continue(s)
  <2>1. Serves(s, Status(complete)) /\ net[s] # NoRequest /\ net[s].st = "running"
    BY <1>1, <1>3 DEF Continue
  <2>2. PICK st \in {"ok", "refused"} : st = Status(complete) /\ (st = "ok" => complete)
    BY DEF Status
  <2>3. /\ WebMove /\ Waits'
        /\ Patient' => /\ Patient /\ ~Idle' /\ PluginFlight(net[s])
                       /\ \A q \in Slots : q # s => net'[q] = NoRequest
        /\ net'[s] # NoRequest /\ net'[s].op = net[s].op /\ net'[s].arg = net[s].arg
        /\ net'[s].st = st
    BY <1>1, <2>1, <2>2, PluginAnswer DEF Serves
  <2>4. ASSUME Patient' PROVE PluginSeen'
    <3>1. net[s].op = "install"
      BY <1>1, <2>3, <2>4 DEF PluginsInv, PluginSeen, ScriptFlight
    <3>2. PluginFlight(net[s])'
      BY <1>1, <2>1, <2>2, <2>3, <2>4, <3>1 DEF PluginFlight, Shows
    <3> QED BY <1>1, <2>3, <2>4, <3>2 DEF PluginSeen, ScriptFlight, NoScript
  <2> QED BY <2>3, <2>4
<1> QED BY <1>2, <1>3

LEMMA DeletesSeen ==
    ASSUME PluginsInv, NEW s \in Slots, DeletePluginAndFiles(s) \/ DeleteRepoAndFile(s)
    PROVE  WebMove /\ Waits' /\ (Patient' => PluginSeen')
<1>1. /\ net[s] # NoRequest /\ net[s].op \in {"delplugin", "delrepo"}
      /\ Serves(s, "ok") /\ UNCHANGED <<adding, avail, refused, script, cachemutex>>
  BY DEF DeletePluginAndFiles, DeleteRepoAndFile, Continue, pageVars
<1>2. /\ WebMove /\ Waits'
      /\ Patient' => /\ Patient /\ ~Idle' /\ PluginFlight(net[s])
                     /\ \A q \in Slots : q # s => net'[q] = NoRequest
                     /\ script.at # "none" => s = cachemutex
      /\ net'[s] # NoRequest /\ net'[s].op = net[s].op /\ net'[s].st = "ok"
  BY <1>1, PluginAnswer DEF Serves
<1>3. ASSUME Patient' PROVE PluginSeen'
  <2>1. script.at = "none"
    BY <1>1, <1>2, <1>3 DEF PluginsInv, PluginSeen, ScriptFlight
  <2>2. PluginFlight(net[s])'
    BY <1>1, <1>2, <1>3 DEF PluginFlight
  <2> QED BY <1>1, <1>2, <1>3, <2>1, <2>2 DEF PluginSeen, ScriptFlight
<1> QED BY <1>2, <1>3

(* The callback of a request that was answered has run.                    *)
LEMMA PluginTaken ==
    ASSUME PluginsInv, NEW s \in Slots, net[s] # NoRequest, net[s].st \in {"ok", "refused"},
           loop = NoLoop, Callback(s), UNCHANGED serverVars,
           Patient /\ PluginFlight(net[s]) => Shows(Offered)'
    PROVE  WebMove /\ Waits' /\ (Patient' => PluginSeen')
<1>1. WebMove /\ (~hasty => Idle') /\ Waits' /\ (Patient' => Patient)
  BY CallbackOne, WaitsNext DEF Callback, PluginsInv
<1>2. UNCHANGED <<script, cachemutex, Offered>>
  BY DEF serverVars, Offered, Installed
<1>3. ASSUME Patient PROVE PluginSeen'
  <2>1. PluginFlight(net[s]) /\ script.at = "none"
    BY <1>3, NoScriptBut DEF PluginsInv, PluginSeen, ScriptFlight
  <2>2. Shows(Offered)' /\ Idle' /\ ScriptFlight'
    BY <1>1, <1>2, <1>3, <2>1 DEF Patient, ScriptFlight
  <2> QED BY <2>2 DEF PluginSeen, Idle
<1> QED BY <1>1, <1>3

LEMMA PluginCallbackSeen ==
    ASSUME PluginsInv, NEW s \in Slots,
           \/ PluginsArrive(s) \/ AvailArrives(s) \/ PluginInstalled(s)
           \/ Deleted(s) \/ PluginRequestFails(s)
    PROVE  WebMove /\ Waits' /\ (Patient' => PluginSeen')
<1>1. CASE PluginsArrive(s)
  <2>1. PluginFlight(net[s]) => ~adding'
    BY <1>1 DEF PluginsArrive, Arrived, PluginFlight
  <2> QED BY <1>1, <2>1, PluginTaken DEF PluginsArrive, Arrived, Shows
<1>2. CASE AvailArrives(s)
  <2>1. UNCHANGED Offered /\ avail' = net[s].data.avail
    BY <1>2 DEF AvailArrives, serverVars, Offered, Installed
  <2>2. PluginFlight(net[s]) => Listing(avail, Offered)'
    BY <1>2, <2>1 DEF AvailArrives, Arrived, PluginFlight
  <2> QED BY <1>2, <2>2, PluginTaken DEF AvailArrives, Arrived, Shows
<1>3. CASE PluginInstalled(s)
  <2> DEFINE a == net[s].arg
  <2>1. UNCHANGED <<adding, Offered>>
    BY <1>3 DEF PluginInstalled, serverVars, Offered, Installed
  <2>2. ASSUME net[s].st = "ok", PluginFlight(net[s]) PROVE Shows(Offered)'
    <3> HIDE DEF a
    <3>0. net[s].op = "install" /\ net[s].arg = a
      BY <1>3 DEF PluginInstalled, Arrived, a
    <3>1. a \in Names \ Offered /\ Shows(Offered \cup {a})
      BY <2>2, <3>0 DEF PluginFlight
    <3>2. avail' = Splice(avail, IndexOf(a)) /\ UNCHANGED refused
      BY <1>3, <2>2 DEF PluginInstalled, a
    <3>3. ASSUME Listing(avail, Offered \cup {a}) PROVE Listing(avail, Offered)'
      <4>1. PICK b, S : b = a /\ S = Offered /\ b \notin S
        BY <3>1
      <4>2. S \cup {b} \subseteq Int /\ (S \cup {b}) \ {b} = S
        BY <3>1, <4>1, OfferedNames
      <4>3. Listing(Splice(avail, IndexOf(b)), S)
        BY <3>3, <4>1, <4>2, SplicedList
      <4> QED BY <2>1, <3>2, <4>1, <4>3
    <3> QED BY <2>1, <3>1, <3>2, <3>3 DEF Shows
  <2>3. net[s].st # "ok" => Shows(Offered)'
    BY <1>3 DEF PluginInstalled, Shows
  <2> QED BY <1>3, <2>2, <2>3, PluginTaken DEF PluginInstalled, Arrived
<1>4. CASE Deleted(s)
  <2>1. /\ net[s] # NoRequest /\ net[s].op \in {"delplugin", "delrepo"} /\ loop = NoLoop
        /\ net[s].st \in {"ok", "refused"}
        /\ UNCHANGED <<serverVars, adding>>
    BY <1>4 DEF Deleted, Arrived, pluginVars, pageVars
  <2>2. PluginFlight(net[s]) => ~adding
    BY <2>1 DEF PluginFlight
  <2>3. CASE Callback(s)
    BY <2>1, <2>2, <2>3, PluginTaken DEF Shows
  <2>4. CASE /\ SendFrom(Without(s), "fill", 0)
             /\ UNCHANGED <<pageurl, loop, moves, session, broke, hasty>>
    <3>1. /\ WebMove /\ ~Idle' /\ Waits' /\ (Patient' => Patient)
          /\ ~hasty => \A q \in Slots : net'[q] = NoRequest \/ Sent(net'[q], "fill", 0)
      BY <2>1, <2>4, FollowOne, WaitsNext DEF PluginsInv
    <3>2. ASSUME Patient PROVE PluginSeen'
      <4>1. ~adding' /\ script.at = "none" /\ UNCHANGED script
        BY <2>1, <2>2, <3>2, NoScriptBut DEF PluginsInv, PluginSeen, ScriptFlight, serverVars
      <4>2. \A q \in Slots : net'[q] # NoRequest => Sent(net'[q], "fill", 0)
        BY <3>1, <3>2 DEF Patient
      <4>3. \A q \in Slots : net'[q] # NoRequest => PluginFlight(net[q])'
        BY <4>1, <4>2 DEF PluginFlight, Sent
      <4> QED BY <3>1, <4>1, <4>3 DEF PluginSeen, ScriptFlight
    <3> QED BY <3>1, <3>2
  <2> QED BY <1>4, <2>3, <2>4 DEF Deleted
<1>5. CASE PluginRequestFails(s)
  <2>1. /\ WebMove /\ net[s] # NoRequest /\ net[s].st \in {"expired", "broken"}
        /\ UNCHANGED <<session, broke, hasty>>
    BY <1>5, ErrorOne DEF PluginRequestFails, PluginsInv
  <2>2. ~Patient
    BY <2>1 DEF PluginsInv, PluginSeen, PluginFlight
  <2> QED BY <2>1, <2>2, WaitsNext DEF PluginsInv, Patient
<1> QED BY <1>1, <1>2, <1>3, <1>4, <1>5

LEMMA PluginsInvNext == ASSUME PluginsInv, PluginNext PROVE WebMove /\ PluginsInv'
<1>1. CASE ServerFaults /\ UNCHANGED pluginVars
  BY <1>1, FailedOne, WaitsNext, PluginInvNext DEF PluginsInv
<1>2. PluginInv'
  BY PluginInvNext DEF PluginsInv
<1>3. WebMove /\ Waits' /\ (Patient' => PluginSeen')
  <2>1. CASE PluginUser
    BY <2>1, PluginUserSeen
  <2>2. CASE PluginServer
    BY <1>1, <2>2, AnswersSeen, CloneSeen, AddsPluginSeen, FilesSeen, EndsSeen, DeletesSeen
    DEF PluginServer, PluginsInv
  <2>3. CASE PluginCallbacks
    BY <2>3, PluginCallbackSeen DEF PluginCallbacks
  <2> QED BY <2>1, <2>2, <2>3 DEF PluginNext
<1> QED BY <1>2, <1>3 DEF PluginsInv

LEMMA PluginsInvInit == ConsoleInit => PluginsInv
<1> SUFFICES ASSUME ConsoleInit PROVE PluginsInv
  OBVIOUS
<1>1. /\ PluginInit /\ net = [s \in Slots |-> NoRequest] /\ loop = NoLoop
  BY DEF ConsoleInit, WebInit
<1>2. Waits
  BY <1>1 DEF Waits, OneInv
<1>3. PluginSeen
  BY <1>1 DEF PluginSeen, Shows, ScriptFlight, PluginInit, NoScript
<1> QED BY <1>1, <1>2, <1>3, PluginInvInit DEF PluginsInv

LEMMA PluginsInvMeans == PluginsInv => PluginTypeOK /\ FilesOwned /\ InstallsWhole /\ AvailShown
BY PluginInvMeans, IdleMeans DEF PluginsInv, PluginSeen, Shows, Listing, AvailShown

-----------------------------------------------------------------------------
(***************************************************************************)
(* The tables of module ListPage.                                          *)
(***************************************************************************)

Coded(table) == \A i \in DOMAIN table : table[i] \in Codes \cup {Unnamed}

ListRequest(r) ==
    /\ r.op \in {"fill", "post", "put", "delete"}
    /\ r.arg.code \in Codes \cup {Unnamed}
    /\ r.op = "fill" => r.st # "refused" /\ (r.st = "ok" => Coded(r.data))

(* A write that is not answered "ok" has changed nothing, and a fill that  *)
(* is answered carries the table.                                          *)
ListFlight(r) ==
    /\ r.st \in {"open", "ok", "refused"}
    /\ r.op = "fill" /\ r.st = "ok" => r.data = dbcaps
    /\ r.op # "fill" /\ r.st # "ok" /\ ~draft => dccaps = dbcaps

ListSeen ==
    /\ Idle /\ ~draft => dccaps = dbcaps
    /\ \A s \in Slots : net[s] # NoRequest => ListFlight(net[s])

ListInv ==
    /\ Waits
    /\ ListTypeOK
    /\ Coded(dbcaps)
    /\ \A s \in Slots : net[s] # NoRequest => ListRequest(net[s])
    /\ Patient => ListSeen

(* What the user sends, if anything.                                       *)
ListSends ==
    \E op \in {"post", "put", "delete"} : \E arg :
        arg.code \in Codes \cup {Unnamed} /\ (UNCHANGED net \/ Send(op, arg))

LEMMA ListUserKeeps ==
    ASSUME ListInv, ListUser
    PROVE  ListInv' /\ WebMove
<1>1. ListSends
  <2>1. ASSUME NEW i, NEW c \in Codes \cup {Unnamed}, UNCHANGED net \/ Send("post", Element(i, c)) 
               \/ Send("delete", Element(i, c)) \/ Send("put", Element(i, c))
        PROVE ListSends
    <3>1. Element(i, c).code = c
      BY DEF Element
    <3> QED BY <2>1, <3>1 DEF ListSends
  <2>2. code \in Codes \cup {Unnamed}
    BY DEF ListInv, ListTypeOK
  <2> QED BY <2>1, <2>2 DEF ListUser, dialog, editdialog, AddCapability, Type, Delete, UpdateCap
<1>2. UserActs /\ UNCHANGED dbcaps
  BY DEF ListUser, dialog, editdialog, AddCapability, Type, Delete, UpdateCap
<1>3. net = [s \in Slots |-> net[s]]
  BY DEF ListInv, Waits
<1>4. WebMove
  BY <1>1, <1>2, <1>3, Acted, SentOne DEF ListSends, UserActs, Send, WebMove, ByUser
<1>5. Waits' /\ (Patient' => Patient /\ Idle)
  BY <1>2, <1>4, WaitsNext, Acted DEF ListInv, UserActs, Patient
<1>6. ListTypeOK' /\ (~draft' => ~draft /\ UNCHANGED dccaps)
  <2>1. ListTypeOK
    BY DEF ListInv
  <2>2. ASSUME NEW i \in DOMAIN dccaps, dialog(i) \/ editdialog(i)
        PROVE  ListTypeOK' /\ UNCHANGED <<dccaps, draft>>
    BY <2>1, <2>2 DEF ListTypeOK, dialog, editdialog, Dialog
  <2>3. ASSUME NEW c \in Codes \cup {Unnamed}, Type(c)
        PROVE  ListTypeOK' /\ (~draft' => ~draft /\ UNCHANGED dccaps)
    <3>1. /\ dccap # 0 /\ code' = c /\ UNCHANGED <<dccap, detached, id>>
          /\ dccaps' = IF detached THEN dccaps ELSE [dccaps EXCEPT ![dccap] = c]
      BY <2>3 DEF Type
    <3>2. draft' = (draft \/ ~detached)
      BY <2>3 DEF Type
    <3>3. CASE detached
      <4>1. ~draft' => ~draft
        BY Zenon, <3>2, <3>3
      <4> QED BY <2>1, <3>1, <3>3, <4>1 DEF ListTypeOK
    <3>4. CASE ~detached
      <4>1. draft'
        BY Zenon, <3>2, <3>4
      <4>2. /\ DOMAIN dccaps' = DOMAIN dccaps /\ dccap \in DOMAIN dccaps
            /\ \A i \in DOMAIN dccaps : dccaps'[i] \in {dccaps[i], c}
        BY <2>1, <3>1, <3>4 DEF ListTypeOK
      <4> QED BY <2>1, <3>1, <4>1, <4>2 DEF ListTypeOK
    <3> QED BY <3>3, <3>4
  <2>4. ASSUME NEW c, NEW ok, AddCapability(c) \/ Delete(ok) \/ UpdateCap(ok)
        PROVE  ListTypeOK' /\ UNCHANGED <<dccaps, draft>>
    BY <2>1, <2>4 DEF ListTypeOK, AddCapability, Delete, UpdateCap
  <2> QED BY <2>2, <2>3, <2>4 DEF ListUser
<1>7. \A s \in Slots : net'[s] # NoRequest => ListRequest(net'[s])
  BY <1>1, <1>3, SentOne DEF ListSends, Send, ListInv, ListRequest, Sent
<1>8. ASSUME Patient' PROVE ListSeen'
  <2>1. Idle /\ (~draft => dccaps = dbcaps)
    BY <1>5, <1>8 DEF ListInv, ListSeen
  <2>2. CASE UNCHANGED net
    BY <1>2, <1>6, <2>1, <2>2 DEF ListSeen, Idle
  <2>3. ASSUME NEW op \in {"post", "put", "delete"}, NEW arg, Send(op, arg)
        PROVE  ListSeen'
    <3>1. ~Idle' /\ \A s \in Slots : net'[s] # NoRequest => Sent(net'[s], op, arg)
      BY <1>3, <2>1, <2>3, SentOne DEF Send, Idle
    <3> QED BY <1>2, <1>6, <2>1, <3>1 DEF ListSeen, ListFlight, Sent
  <2> QED BY <1>1, <2>2, <2>3 DEF ListSends
<1> QED BY <1>2, <1>4, <1>5, <1>6, <1>7, <1>8 DEF ListInv, Coded

LEMMA ListAnswerKeeps ==
    ASSUME ListInv, NEW s \in Slots, net[s] # NoRequest, net[s].st = "open",
           NEW st \in {"ok", "refused"}, NEW d, net' = Answered(s, st, d),
           UNCHANGED <<pageurl, loop, session, broke, hasty>>,
           UNCHANGED <<dccaps, dccap, code, detached, id, draft>>, Coded(dbcaps'),
           st # "ok" => UNCHANGED dbcaps,
           net[s].op = "fill" => st = "ok" /\ d = dbcaps /\ UNCHANGED dbcaps
    PROVE  ListInv' /\ WebMove
<1>1. /\ WebMove
      /\ net'[s] # NoRequest
      /\ net'[s].op = net[s].op /\ net'[s].arg = net[s].arg
      /\ net'[s].st = st /\ net'[s].data = d
      /\ \A q \in Slots : q # s => net'[q] = net[q]
      /\ ~hasty => \A q \in Slots : q # s => net[q] = NoRequest
  BY AnsweredOne DEF ListInv
<1>2. Waits' /\ (Patient' => Patient)
  BY <1>1, WaitsNext DEF ListInv
<1>3. ListTypeOK'
  BY DEF ListInv, ListTypeOK
<1>4. \A q \in Slots : net'[q] # NoRequest => ListRequest(net'[q])
  <2>1. ListRequest(net[s]) /\ Coded(dbcaps)
    BY DEF ListInv
  <2>2. ListRequest(net'[s])
    BY <1>1, <2>1 DEF ListRequest
  <2> QED BY <1>1, <2>2 DEF ListInv
<1>5. ASSUME Patient' PROVE ListSeen'
  <2>1. ~Idle' /\ ~hasty
    BY <1>1, <1>2, <1>5 DEF Idle, Patient
  <2>2. ListFlight(net[s])
    BY <1>2, <1>5 DEF ListInv, ListSeen
  <2>3. ListFlight(net[s])'
    BY <1>1, <2>2 DEF ListFlight
  <2> QED BY <1>1, <2>1, <2>3 DEF ListSeen
<1> QED BY <1>1, <1>2, <1>3, <1>4, <1>5 DEF ListInv

LEMMA ListServerKeeps ==
    ASSUME ListInv, ListServer
    PROVE  ListInv' /\ WebMove
<1>1. ASSUME NEW s \in Slots, ServeFill(s) PROVE ListInv' /\ WebMove
  <2>1. Coded(dbcaps)
    BY DEF ListInv
  <2> QED BY <1>1, <2>1, ListAnswerKeeps DEF ServeFill, Awaited, Answer, listVars
<1>2. ASSUME NEW s \in Slots, ServeWrite(s) PROVE ListInv' /\ WebMove
  <2>1. PICK st \in {"ok", "refused"} :
          /\ net[s] # NoRequest /\ net[s].op # "fill" /\ net[s].st = "open"
          /\ net' = Answered(s, st, None)
          /\ UNCHANGED <<dccaps, dccap, code, detached, id, draft>>
          /\ UNCHANGED <<pageurl, loop, session, broke, hasty>>
          /\ st # "ok" => UNCHANGED dbcaps
    BY <1>2 DEF ServeWrite, Awaited, Write, Answer
  <2>2. ListRequest(net[s]) /\ Coded(dbcaps)
    BY <2>1 DEF ListInv
  <2>3. Coded(dbcaps')
    BY <1>2, <2>2 DEF ServeWrite, Write, WithRow, WithoutRow, Coded, ListRequest
  <2> QED BY <2>1, <2>3, ListAnswerKeeps
<1>3. ASSUME ServerFaults, UNCHANGED listVars PROVE ListInv' /\ WebMove
  <2>1. /\ WebMove /\ ~Patient' /\ Waits'
        /\ \A q \in Slots : net'[q] = net[q] \/ Failed(net'[q], net[q])
    BY <1>3, FailedOne, WaitsNext DEF ListInv
  <2>2. \A q \in Slots : net'[q] # NoRequest => ListRequest(net'[q])
    BY <2>1 DEF ListInv, ListRequest, Failed
  <2> QED BY <1>3, <2>1, <2>2 DEF ListInv, ListTypeOK, Coded, listVars
<1> QED BY <1>1, <1>2, <1>3 DEF ListServer

LEMMA ListCallbackKeeps ==
    ASSUME ListInv, ListCallbacks
    PROVE  ListInv' /\ WebMove
<1>1. ASSUME NEW s \in Slots, ListArrives(s) PROVE ListInv' /\ WebMove
  <2>1. /\ net[s] # NoRequest /\ net[s].op = "fill" /\ net[s].st \in {"ok", "refused"}
        /\ net' = Without(s) /\ UNCHANGED <<pageurl, loop, session, broke, hasty>>
        /\ dccaps' = net[s].data /\ detached' /\ ~draft'
        /\ UNCHANGED <<dccap, code, id, dbcaps>>
    BY <1>1 DEF ListArrives, Arrived, Callback
  <2>2. /\ WebMove /\ \A q \in Slots : net'[q] = NoRequest \/ net'[q] = net[q]
        /\ ~hasty => Idle'
    BY <2>1, CallbackOne DEF ListInv
  <2>3. Waits' /\ (Patient' => Patient)
    BY <2>2, WaitsNext DEF ListInv
  <2>4. Coded(net[s].data)
    BY <2>1 DEF ListInv, ListRequest
  <2>5. ListTypeOK'
    BY <2>1, <2>4 DEF ListInv, ListTypeOK, Coded
  <2>6. ASSUME Patient' PROVE ListSeen'
    <3>1. ListFlight(net[s]) /\ ListRequest(net[s]) /\ ~hasty
      BY <2>1, <2>3, <2>6 DEF ListInv, ListSeen, Patient
    <3>2. Idle' /\ dccaps' = dbcaps
      BY <2>1, <2>2, <3>1 DEF ListFlight, ListRequest
    <3> QED BY <2>1, <3>2 DEF ListSeen, Idle
  <2> QED BY <2>1, <2>2, <2>3, <2>5, <2>6 DEF ListInv
<1>2. ASSUME NEW s \in Slots, ListWritten(s) PROVE ListInv' /\ WebMove
  <2>1. /\ net[s] # NoRequest /\ net[s].op # "fill" /\ net[s].st \in {"ok", "refused"}
        /\ loop = NoLoop /\ UNCHANGED <<pageurl, loop, session, broke, hasty>>
        /\ UNCHANGED <<dccaps, dccap, code, detached, id, dbcaps, draft>>
    BY <1>2 DEF ListWritten, Arrived
  <2>2. CASE net[s].st = "ok"
    <3>1. SendFrom(Without(s), "fill", Element(0, Unnamed)) /\ Element(0, Unnamed).code = Unnamed
      BY <1>2, <2>2 DEF ListWritten, FillCapsTable, Element
    <3>2. /\ WebMove /\ ~Idle'
          /\ \A q \in Slots : \/ net'[q] = NoRequest \/ net'[q] = net[q]
                              \/ Sent(net'[q], "fill", Element(0, Unnamed))
          /\ ~hasty => \A q \in Slots : net'[q] = NoRequest
                                        \/ Sent(net'[q], "fill", Element(0, Unnamed))
      BY <2>1, <3>1, FollowOne DEF ListInv
    <3>3. Waits' /\ (~hasty' => ~hasty)
      BY <3>2, WaitsNext DEF ListInv
    <3>4. \A q \in Slots : net'[q] # NoRequest => ListRequest(net'[q])
      BY <3>1, <3>2 DEF ListInv, ListRequest, Sent
    <3>5. Patient' => ListSeen'
      BY <3>2, <3>3 DEF ListSeen, ListFlight, Sent, Patient
    <3> QED BY <2>1, <3>2, <3>3, <3>4, <3>5 DEF ListInv, ListTypeOK, Coded
  <2>3. CASE net[s].st # "ok"
    <3>1. /\ WebMove /\ \A q \in Slots : net'[q] = NoRequest \/ net'[q] = net[q]
          /\ ~hasty => Idle'
      BY <1>2, <2>1, <2>3, CallbackOne DEF ListInv, ListWritten
    <3>2. Waits' /\ (Patient' => Patient)
      BY <3>1, WaitsNext DEF ListInv
    <3>3. ASSUME Patient' PROVE ListSeen'
      <4>1. ListFlight(net[s]) /\ ~hasty
        BY <2>1, <3>2, <3>3 DEF ListInv, ListSeen, Patient
      <4> QED BY <2>1, <2>3, <3>1, <4>1 DEF ListFlight, ListSeen, Idle
    <3> QED BY <2>1, <3>1, <3>2, <3>3 DEF ListInv, ListTypeOK, Coded
  <2> QED BY <2>2, <2>3
<1>3. ASSUME NEW s \in Slots, ListRequestFails(s) PROVE ListInv' /\ WebMove
  <2>1. /\ WebMove /\ net[s] # NoRequest /\ net[s].st \in {"expired", "broken"}
        /\ \A q \in Slots : net'[q] = NoRequest \/ net'[q] = net[q]
        /\ UNCHANGED listVars
    BY <1>3, ErrorOne DEF ListInv, ListRequestFails
  <2>2. Waits' /\ (Patient' => Patient)
    BY <2>1, WaitsNext DEF ListInv
  <2>3. ~Patient'
    BY <2>1, <2>2 DEF ListInv, ListSeen, ListFlight
  <2> QED BY <2>1, <2>2, <2>3 DEF ListInv, ListTypeOK, Coded, listVars
<1> QED BY <1>1, <1>2, <1>3 DEF ListCallbacks

LEMMA ListInvNext ==
    ASSUME ListInv, ListNext
    PROVE  ListInv' /\ WebMove
BY ListUserKeeps, ListServerKeeps, ListCallbackKeeps DEF ListNext

LEMMA ListInvInit == ConsoleInit => ListInv
<1> SUFFICES ASSUME ConsoleInit PROVE ListInv
  OBVIOUS
<1>1. /\ net = [s \in Slots |-> NoRequest] /\ loop = NoLoop
      /\ dccaps = [i \in {1} |-> CHOOSE c \in Codes : TRUE] /\ dbcaps = dccaps
      /\ dccap = 0 /\ code = Unnamed /\ id = 0
  BY DEF ConsoleInit, WebInit, ListInit
<1>2. (CHOOSE c \in Codes : TRUE) \in Codes
  BY ListAssumption
<1>3. Waits
  BY <1>1 DEF Waits, OneInv, Idle
<1>4. ListTypeOK /\ Coded(dbcaps)
  BY <1>1, <1>2 DEF ListTypeOK, Coded
<1> QED BY <1>1, <1>3, <1>4 DEF ListInv, ListSeen

LEMMA ListInvMeans == ListInv => ListTypeOK /\ ListShown
BY IdleMeans DEF ListInv, ListSeen, ListShown

-----------------------------------------------------------------------------
(***************************************************************************)
(* The login page.                                                         *)
(***************************************************************************)

(* The page is open with the one session there is, or with none.           *)
Out == pageurl = "login.html" /\ DOMAIN dbsessions = {}
In ==
    /\ pageurl = PageOf(userid) /\ pageurl = PageOf(interface)
    /\ DOMAIN dbsessions = {guid} /\ dbsessions[guid] = userid

(* LoginTypeOK, with the logins there are in a set.                        *)
Logins == {"", "admin", "user"}
LoginTyped ==
    /\ pageurl \in Pages \cup {"login.html"}
    /\ userid \in Logins
    /\ guid \in 0 .. lastguid
    /\ \A g \in DOMAIN dbsessions : g \in 1 .. lastguid /\ dbsessions[g] \in {"admin", "user"}

LEMMA LoginTypedMeans ==
    /\ LoginTyped <=> LoginTypeOK
    /\ "" \in Logins /\ {"admin", "user"} \subseteq Logins
    /\ \A u \in Logins : u # "" => u \in {"admin", "user"}
<1>1. LoginTyped <=> LoginTypeOK
  BY Zenon DEF LoginTyped, LoginTypeOK, Logins
<1>2. "" \in Logins /\ {"admin", "user"} \subseteq Logins
  BY Zenon DEF Logins
<1>3. \A u \in Logins : u # "" => u \in {"admin", "user"}
  BY Zenon DEF Logins
<1> QED BY Zenon, <1>1, <1>2, <1>3

(* The types of a request, and what the one in flight says.                *)
LoginRequest(r) ==
    /\ r.op \in {"login", "fill", "logout"}
    /\ r.op = "login" => r.arg.user \in Logins
    /\ r.op = "login" /\ r.st = "ok" => r.data \in 1 .. lastguid

LoginFlight(r) ==
    /\ r.op = "login" =>
         /\ pageurl = "login.html" /\ r.arg.user = userid /\ PageOf(userid) = PageOf(interface)
         /\ r.st \in {"open", "refused"} => DOMAIN dbsessions = {}
         /\ r.st = "ok" => DOMAIN dbsessions = {r.data} /\ dbsessions[r.data] = userid
    /\ r.op = "fill" \/ (r.op = "logout" /\ r.st = "open") =>
         In /\ r.arg = Credentials(userid, guid)
    /\ r.op = "logout" /\ r.st = "ok" => DOMAIN dbsessions = {}
    /\ r.st \in {"open", "ok"} \/ (r.op = "login" /\ r.st = "refused")

LoginSeen ==
    /\ Idle => Out \/ In
    /\ \A s \in Slots : net[s] # NoRequest => LoginFlight(net[s])

LoginInv ==
    /\ Waits
    /\ LoginTyped
    /\ lastguid \in Nat
    /\ \A s \in Slots : net[s] # NoRequest => LoginRequest(net[s])
    /\ Patient => LoginSeen

LEMMA LoginUserKeeps ==
    ASSUME LoginInv, LoginUser
    PROVE  LoginInv' /\ WebMove
<1>1. UNCHANGED <<interface, guid, multi, dbsessions, lastguid>>
  BY DEF LoginUser, TypeLogin, dologin, Fill, Logout, loginVars
<1>2. \E urls : ActsOn(urls)
  BY DEF LoginUser, TypeLogin, dologin, Fill, Logout
<1>3. /\ loop = NoLoop /\ UNCHANGED <<pageurl, loop, session, broke>>
      /\ hasty' = (hasty \/ InFlight) /\ (~hasty' => ~hasty /\ Idle)
  BY <1>2, Acted
<1>4. CASE /\ UNCHANGED net
           /\ userid' \in Logins
           /\ pageurl = "login.html"
  <2>1. WebMove
    BY <1>3, <1>4 DEF WebMove, ByUser
  <2>2. Waits' /\ (Patient' => Patient /\ Idle)
    BY <1>3, <2>1, WaitsNext DEF LoginInv, Patient
  <2>3. ASSUME Patient' PROVE LoginSeen'
    BY <1>1, <1>3, <1>4, <2>2, <2>3 DEF LoginInv, LoginSeen, Out, In, Idle, PageOf
  <2> QED BY <1>1, <1>3, <1>4, <2>1, <2>2, <2>3 DEF LoginInv, LoginTyped, LoginRequest
<1>5. CASE \E op \in {"login", "fill", "logout"} : \E g \in {0, guid} :
             /\ Send(op, Credentials(userid, g)) /\ UNCHANGED userid
             /\ op = "login" => pageurl = "login.html" /\ PageOf(userid) = PageOf(interface)
             /\ op # "login" => pageurl \in Pages /\ g = guid
  <2>1. PICK op \in {"login", "fill", "logout"}, g \in {0, guid} :
             /\ Send(op, Credentials(userid, g)) /\ UNCHANGED userid
             /\ op = "login" => pageurl = "login.html" /\ PageOf(userid) = PageOf(interface)
             /\ op # "login" => pageurl \in Pages /\ g = guid
    BY <1>5
  <2>2. /\ Begins(net) /\ ~Idle'
        /\ \A q \in Slots : net'[q] = net[q] \/ Sent(net'[q], op, Credentials(userid, g))
    BY <2>1, SentOne DEF Send, LoginInv, Waits
  <2>3. WebMove
    BY <1>3, <2>2 DEF WebMove, ByUser
  <2>4. Waits' /\ (Patient' => Patient /\ Idle)
    BY <1>3, <2>3, WaitsNext DEF LoginInv, Patient
  <2>5. Credentials(userid, g).user = userid
    BY DEF Credentials
  <2>6. \A q \in Slots : net'[q] # NoRequest => LoginRequest(net[q])'
    BY <1>1, <2>1, <2>2, <2>5 DEF LoginInv, LoginRequest, Sent, LoginTyped
  <2>7. ASSUME Patient' PROVE LoginSeen'
    <3>1. Out \/ In
      BY <2>4, <2>7 DEF LoginInv, LoginSeen
    <3>2. op = "login" => Out
      BY <2>1, <3>1 DEF Out, In, PageOf
    <3>3. op # "login" => In
      BY <2>1, <3>1 DEF Out, In, Pages
    <3>4. ASSUME NEW q \in Slots, net'[q] # NoRequest PROVE LoginFlight(net[q])'
      <4>1. Sent(net'[q], op, Credentials(userid, g))
        BY <2>2, <2>4, <2>7, <3>4 DEF Idle
      <4>2. CASE op = "login"
        BY <1>1, <1>3, <2>1, <2>5, <3>2, <4>1, <4>2 DEF LoginFlight, Sent, Out
      <4>3. CASE op # "login"
        BY <1>1, <1>3, <2>1, <3>3, <4>1, <4>3 DEF LoginFlight, Sent, In
      <4> QED BY <4>2, <4>3
    <3> QED BY <2>2, <3>4 DEF LoginSeen
  <2> QED BY <1>1, <1>3, <2>1, <2>3, <2>4, <2>6, <2>7 DEF LoginInv, LoginTyped
<1>6. CASE \E u \in {"admin", "user"} : TypeLogin(u)
  <2>1. UNCHANGED net /\ userid' \in Logins /\ pageurl = "login.html"
    BY Zenon, <1>6, LoginTypedMeans DEF TypeLogin, ActsOn
  <2> QED BY <1>4, <2>1
<1>7. CASE dologin
  <2>1. pageurl = "login.html"
    BY <1>7 DEF dologin, ActsOn
  <2>2. CASE (userid = "admin") = (interface = "admin")
    <3>1. PageOf(userid) = PageOf(interface)
      BY <2>2 DEF PageOf
    <3>2. Send("login", Credentials(userid, 0)) /\ UNCHANGED userid
      BY Zenon, <1>7, <2>2 DEF dologin
    <3> QED BY <1>5, <2>1, <3>1, <3>2
  <2>3. CASE (userid = "admin") # (interface = "admin")
    <3>1. UNCHANGED net /\ userid' \in Logins
      BY Zenon, <1>7, <2>3, LoginTypedMeans DEF dologin
    <3> QED BY <1>4, <2>1, <3>1
  <2> QED BY <2>2, <2>3
<1>8. CASE Fill
  <2>1. pageurl \in Pages /\ Send("fill", Credentials(userid, guid)) /\ UNCHANGED userid
    BY <1>8 DEF Fill, ActsOn, loginVars
  <2> QED BY <1>5, <2>1
<1>9. CASE Logout
  <2>1. pageurl \in Pages /\ Send("logout", Credentials(userid, guid)) /\ UNCHANGED userid
    BY <1>9 DEF Logout, ActsOn, loginVars
  <2> QED BY <1>5, <2>1
<1> QED BY <1>6, <1>7, <1>8, <1>9 DEF LoginUser

LEMMA DoLoginKeeps ==
    ASSUME LoginInv, NEW s \in Slots, DoLogin(s)
    PROVE  LoginInv' /\ WebMove
<1>u. PICK u : u = net[s].arg.user
  OBVIOUS
<1>n. PICK n : n = lastguid + 1
  OBVIOUS
<1>1. /\ net[s] # NoRequest /\ net[s].op = "login" /\ net[s].st = "open"
      /\ UNCHANGED <<pageurl, loop, moves, session, broke, hasty>>
      /\ UNCHANGED <<interface, userid, guid, multi>>
      /\ u \in Logins
  BY <1>u DEF DoLogin, Awaited, LoginInv, LoginRequest
<1>0. lastguid \in Nat /\ n \in Nat /\ n \notin 0 .. lastguid
  BY <1>n DEF LoginInv
<1>2. PICK st \in {"ok", "refused"} : \E d :
        /\ net' = Answered(s, st, d)
        /\ st = "ok" => /\ u # "" /\ d = n /\ lastguid' = n
                        /\ dbsessions' = WithRow(Others(u), n, u)
        /\ st = "refused" => UNCHANGED <<lastguid, dbsessions>>
  BY Zenon, <1>u, <1>n DEF DoLogin
<1>3. PICK d :
        /\ net' = Answered(s, st, d)
        /\ st = "ok" => /\ u # "" /\ d = n /\ lastguid' = n
                        /\ dbsessions' = WithRow(Others(u), n, u)
        /\ st = "refused" => UNCHANGED <<lastguid, dbsessions>>
  BY <1>2
<1>d. st = "ok" => u \in {"admin", "user"}
  BY Zenon, <1>1, <1>3, LoginTypedMeans
<1>a. st = "ok" => d = n /\ lastguid' = n
  BY Zenon, <1>3
<1>b. st = "ok" => dbsessions' = WithRow(Others(u), n, u)
  BY Zenon, <1>3
<1>c. st = "refused" => UNCHANGED <<lastguid, dbsessions>>
  BY Zenon, <1>3
<1>e. net' = Answered(s, st, d)
  BY Zenon, <1>3
<1>4. /\ WebMove /\ net'[s] # NoRequest
      /\ net'[s].op = "login" /\ net'[s].arg = net[s].arg
      /\ net'[s].st = st /\ net'[s].data = d
      /\ \A q \in Slots : q # s => net'[q] = net[q]
      /\ ~hasty => \A q \in Slots : q # s => net[q] = NoRequest
  BY <1>1, <1>e, AnsweredOne DEF LoginInv
<1>5. Waits' /\ (Patient' => Patient)
  BY <1>4, WaitsNext DEF LoginInv
<1>6. st = "ok" =>
        /\ DOMAIN dbsessions' = DOMAIN Others(u) \cup {n} /\ dbsessions'[n] = u
        /\ \A g \in DOMAIN Others(u) : g \in DOMAIN dbsessions /\ dbsessions'[g] = dbsessions[g]
  <2>1. DOMAIN Others(u) \subseteq DOMAIN dbsessions
    BY DEF Others
  <2>2. \A g \in DOMAIN Others(u) : Others(u)[g] = dbsessions[g] /\ g # n
    BY <1>0, <2>1 DEF Others, LoginInv, LoginTyped
  <2> QED BY <1>b, <2>1, <2>2 DEF WithRow
<1>7. LoginTyped' /\ lastguid' \in Nat
  <2>1. CASE st = "ok"
    <3>1. /\ pageurl \in Pages \cup {"login.html"} /\ userid \in Logins
          /\ guid \in 0 .. n
          /\ \A g \in DOMAIN dbsessions : g \in 1 .. n /\ dbsessions[g] \in {"admin", "user"}
      BY <1>n, <1>0 DEF LoginInv, LoginTyped
    <3>2. u \in {"admin", "user"} /\ n \in 1 .. n /\ lastguid' = n
      BY <1>0, <1>a, <1>d, <2>1
    <3> QED BY <1>1, <1>6, <2>1, <3>1, <3>2 DEF LoginTyped
  <2>2. CASE st = "refused"
    BY <1>1, <1>c, <2>2 DEF LoginInv, LoginTyped
  <2> QED BY <2>1, <2>2
<1>8. \A q \in Slots : net'[q] # NoRequest => LoginRequest(net[q])'
  <2>1. \A i \in 1 .. lastguid : i \in 1 .. lastguid'
    BY <1>n, <1>0, <1>a, <1>c
  <2>2. st = "ok" => d \in 1 .. lastguid'
    BY <1>n, <1>0, <1>a, <1>c
  <2>3. LoginRequest(net[s])'
    BY <1>1, <1>4, <2>2 DEF LoginInv, LoginRequest
  <2> QED BY <1>4, <2>1, <2>3 DEF LoginInv, LoginRequest
<1>9. ASSUME Patient' PROVE LoginSeen'
  <2>1. LoginFlight(net[s]) /\ ~hasty
    BY <1>1, <1>5, <1>9 DEF LoginInv, LoginSeen, Patient
  <2>2. /\ pageurl = "login.html" /\ DOMAIN dbsessions = {} /\ userid = u
        /\ PageOf(userid) = PageOf(interface)
    BY <1>u, <1>1, <2>1 DEF LoginFlight
  <2>3. st = "ok" => DOMAIN dbsessions' = {n} /\ dbsessions'[n] = u
    BY <1>6, <2>2 DEF Others
  <2>4. PageOf(userid)' = PageOf(interface)'
    BY <1>1, <2>2 DEF PageOf
  <2>5. LoginFlight(net[s])'
    BY <1>u, <1>1, <1>a, <1>c, <1>4, <2>2, <2>3, <2>4 DEF LoginFlight
  <2> QED BY <1>4, <2>1, <2>5 DEF LoginSeen, Idle
<1> QED BY <1>4, <1>5, <1>7, <1>8, <1>9 DEF LoginInv

LEMMA CheckLoginKeeps ==
    ASSUME LoginInv, NEW s \in Slots, CheckLogin(s)
    PROVE  LoginInv' /\ WebMove
<1> PICK c : c = net[s].arg
  OBVIOUS
<1>1. /\ net[s] # NoRequest /\ net[s].op \in {"fill", "logout"} /\ net[s].st = "open"
      /\ UNCHANGED <<pageurl, loop, moves, session, broke, hasty>>
      /\ UNCHANGED <<interface, userid, guid, multi, lastguid>>
      /\ dbsessions' = IF Known(c) /\ net[s].op = "logout"
                       THEN WithoutRow(dbsessions, c.guid) ELSE dbsessions
  BY DEF CheckLogin, Awaited
<1>2. PICK st \in {"ok", "expired"} : net' = Answered(s, st, 0) /\ (st = "ok" <=> Known(c))
  <2>1. CASE Known(c)
    BY <2>1 DEF CheckLogin
  <2>2. CASE ~Known(c)
    BY <2>2 DEF CheckLogin
  <2> QED BY <2>1, <2>2
<1>3. /\ WebMove /\ net'[s] # NoRequest
      /\ net'[s].op = net[s].op /\ net'[s].arg = net[s].arg /\ net'[s].st = st
      /\ \A q \in Slots : q # s => net'[q] = net[q]
      /\ ~hasty => \A q \in Slots : q # s => net[q] = NoRequest
  BY <1>1, <1>2, AnsweredOne DEF LoginInv
<1>4. Waits' /\ (Patient' => Patient)
  BY <1>3, WaitsNext DEF LoginInv
<1>5. LoginTyped'
  BY <1>1 DEF LoginInv, LoginTyped, WithoutRow
<1>6. \A q \in Slots : net'[q] # NoRequest => LoginRequest(net[q])'
  BY <1>1, <1>3 DEF LoginInv, LoginRequest
<1>7. ASSUME Patient' PROVE LoginSeen'
  <2>1. In /\ c = Credentials(userid, guid)
    BY <1>1, <1>4, <1>7 DEF LoginInv, LoginSeen, LoginFlight
  <2>2. Known(c) /\ c.guid = guid
    BY <2>1 DEF In, Credentials, Known
  <2>3. net[s].op = "logout" => DOMAIN dbsessions' = {}
    BY <1>1, <2>1, <2>2 DEF In, WithoutRow
  <2>4. net[s].op = "fill" => In' /\ c = Credentials(userid, guid)'
    BY <1>1, <2>1, <2>2 DEF In, PageOf, Credentials
  <2>5. st = "ok"
    BY <1>2, <2>2
  <2>6. LoginFlight(net[s])'
    BY <1>1, <1>3, <2>3, <2>4, <2>5 DEF LoginFlight
  <2> QED BY <1>3, <1>4, <1>7, <2>6 DEF LoginSeen, Idle, Patient
<1> QED BY <1>1, <1>3, <1>4, <1>5, <1>6, <1>7 DEF LoginInv

(* Faults: their user is not patient.                                      *)
LEMMA LoginFaultKeeps ==
    ASSUME LoginInv, ServerFaults, UNCHANGED <<interface, userid, guid, multi, lastguid>>,
           UNCHANGED dbsessions \/ \E g : dbsessions' = WithoutRow(dbsessions, g)
    PROVE  LoginInv' /\ WebMove
<1>1. /\ WebMove /\ ~Patient' /\ UNCHANGED <<pageurl, loop, hasty>>
      /\ \A q \in Slots : net'[q] = net[q] \/ Failed(net'[q], net[q])
  BY FailedOne DEF LoginInv
<1>2. Waits'
  BY <1>1, WaitsNext DEF LoginInv
<1>3. LoginTyped'
  BY <1>1 DEF LoginInv, LoginTyped, WithoutRow
<1>4. \A q \in Slots : net'[q] # NoRequest => LoginRequest(net[q])'
  BY <1>1 DEF LoginInv, LoginRequest, Failed
<1> QED BY <1>1, <1>2, <1>3, <1>4 DEF LoginInv

LEMMA LoginArrivesKeeps ==
    ASSUME LoginInv, NEW s \in Slots, LoginArrives(s)
    PROVE  LoginInv' /\ WebMove
<1>1. /\ loop = NoLoop /\ net[s] # NoRequest /\ net[s].op = "login"
      /\ net[s].st \in {"ok", "refused"}
      /\ UNCHANGED <<loop, moves, session, broke, hasty>>
      /\ UNCHANGED <<interface, multi, dbsessions, lastguid>>
  BY DEF LoginArrives, Arrived
<1>2. LoginRequest(net[s]) /\ LoginTyped /\ Waits /\ lastguid \in Nat
  BY <1>1 DEF LoginInv
<1>3. CASE net[s].st = "refused"
  <2>1. net' = Without(s) /\ userid' = "" /\ UNCHANGED <<guid, pageurl>>
    BY Zenon, <1>3 DEF LoginArrives
  <2>2. userid' \in Logins
    BY Zenon, <2>1, LoginTypedMeans
  <2>3. /\ WebMove /\ (~hasty => Idle')
        /\ \A q \in Slots : net'[q] = NoRequest \/ net'[q] = net[q]
    BY <1>1, <1>2, <2>1, CallbackOne
  <2>4. Waits' /\ (Patient' => Patient)
    BY <1>2, <2>3, WaitsNext
  <2>5. ASSUME Patient' PROVE LoginSeen'
    <3>1. LoginFlight(net[s]) /\ Idle'
      BY <1>1, <2>3, <2>4, <2>5 DEF LoginInv, LoginSeen, Patient
    <3>2. UNCHANGED pageurl
      BY Zenon, <2>1
    <3>3. Out'
      BY <1>1, <1>3, <3>1, <3>2 DEF LoginFlight, Out
    <3> QED BY <3>1, <3>3 DEF LoginSeen, Idle
  <2>6. LoginTyped'
    <3>1. UNCHANGED <<guid, pageurl>>
      BY Zenon, <2>1
    <3> QED BY <1>1, <1>2, <2>2, <3>1 DEF LoginTyped
  <2> QED BY <1>1, <2>3, <2>4, <2>5, <2>6 DEF LoginInv, LoginRequest
<1>4. CASE net[s].st = "ok"
  <2>1. /\ guid' = net[s].data /\ pageurl' = PageOf(userid) /\ UNCHANGED userid
        /\ IF pageurl' = pageurl THEN net' = Without(s)
           ELSE SendFrom(Without(s), "fill", Credentials(userid, net[s].data))
    BY Zenon, <1>4 DEF LoginArrives, GuidForPage
  <2>2. guid' \in 1 .. lastguid /\ pageurl' \in Pages
    BY <1>1, <1>2, <1>4, <2>1 DEF LoginRequest, PageOf, Pages
  <2>3. LoginTyped' /\ lastguid' \in Nat
    BY <1>1, <1>2, <2>1, <2>2 DEF LoginTyped
  <2>4. CASE pageurl' = pageurl
    <3>1. /\ WebMove /\ (~hasty => Idle')
          /\ \A q \in Slots : net'[q] = NoRequest \/ net'[q] = net[q]
      BY <1>1, <1>2, <2>1, <2>4, CallbackOne
    <3>2. Waits' /\ (Patient' => Patient)
      BY <1>2, <3>1, WaitsNext
    <3>3. ~Patient
      BY <1>1, <2>2, <2>4 DEF LoginInv, LoginSeen, LoginFlight, Pages
    <3> QED BY <1>1, <2>3, <3>1, <3>2, <3>3 DEF LoginInv, LoginRequest
  <2>5. CASE pageurl' # pageurl
    <3>1. PICK c : c = Credentials(userid, net[s].data)
      OBVIOUS
    <3>2. SendFrom(Without(s), "fill", c)
      BY <2>1, <2>5, <3>1
    <3>3. pageurl' \in {pageurl, "login.html", "admin.html", "run.html"}
      BY <2>2 DEF Pages
    <3>4. /\ WebMove /\ ~Idle'
          /\ \A q \in Slots : net'[q] = NoRequest \/ net'[q] = net[q] \/ Sent(net'[q], "fill", c)
          /\ ~hasty => \A q \in Slots : net'[q] = NoRequest \/ Sent(net'[q], "fill", c)
      BY <1>1, <1>2, <3>2, <3>3, FollowOne
    <3>5. Waits' /\ (Patient' => Patient)
      BY <1>2, <3>4, WaitsNext
    <3>6. \A q \in Slots : net'[q] # NoRequest => LoginRequest(net[q])'
      BY <1>1, <3>4 DEF LoginInv, LoginRequest, Sent
    <3>7. ASSUME Patient' PROVE LoginSeen'
      <4>1. LoginFlight(net[s]) /\ ~hasty
        BY <1>1, <3>5, <3>7 DEF LoginInv, LoginSeen, Patient
      <4>2. In'
        BY <1>1, <1>4, <2>1, <4>1 DEF LoginFlight, In, PageOf
      <4>3. c = Credentials(userid, guid)'
        BY <2>1, <3>1 DEF Credentials
      <4>4. \A q \in Slots : net'[q] # NoRequest => LoginFlight(net[q])'
        BY <3>4, <4>1, <4>2, <4>3 DEF LoginFlight, Sent
      <4> QED BY <3>4, <4>4 DEF LoginSeen
    <3> QED BY <2>3, <3>4, <3>5, <3>6, <3>7 DEF LoginInv
  <2> QED BY <2>4, <2>5
<1> QED BY <1>1, <1>3, <1>4

LEMMA LoginCallbackKeeps ==
    ASSUME LoginInv, NEW s \in Slots,
           LoginFails(s) \/ FillArrives(s) \/ FillFails(s) \/ LogoutArrives(s)
    PROVE  LoginInv' /\ WebMove
<1>1. /\ net[s] # NoRequest /\ net' = Without(s)
      /\ UNCHANGED <<loop, session, broke, hasty>>
      /\ UNCHANGED <<interface, multi, dbsessions, lastguid>>
      /\ pageurl' \in {pageurl, "login.html"}
  BY DEF LoginFails, FillArrives, FillFails, LogoutArrives, Arrived, Callback, ErrorCallback,
     loginVars
<1>2. /\ WebMove /\ (~hasty => Idle')
      /\ \A q \in Slots : net'[q] = NoRequest \/ net'[q] = net[q]
  BY <1>1, CallbackOne DEF LoginInv
<1>3. Waits' /\ (Patient' => Patient)
  BY <1>2, WaitsNext DEF LoginInv
<1>4. userid' \in Logins /\ (guid' = guid \/ guid' = 0)
  <2>1. LoginTyped
    BY DEF LoginInv
  <2>2. userid \in Logins
    BY <2>1 DEF LoginTyped
  <2> QED BY Zenon, <2>2, LoginTypedMeans
      DEF LoginFails, FillArrives, FillFails, LogoutArrives, loginVars
<1>5. LoginTyped'
  BY <1>1, <1>4 DEF LoginInv, LoginTyped
<1>6. ASSUME Patient' PROVE LoginSeen'
  <2>1. LoginFlight(net[s]) /\ Idle'
    BY <1>1, <1>2, <1>3, <1>6 DEF LoginInv, LoginSeen, Patient
  <2>2. net[s].st \in {"open", "ok", "refused"}
    BY <2>1 DEF LoginFlight
  <2>3. CASE FillArrives(s)
    <3>1. UNCHANGED <<pageurl, userid, guid>> /\ net[s].op = "fill"
      BY <2>3 DEF FillArrives, Callback, Arrived, loginVars
    <3>2. In'
      BY <1>1, <2>1, <3>1 DEF LoginFlight, In, PageOf
    <3> QED BY <2>1, <3>2 DEF LoginSeen, Idle
  <2>4. CASE LogoutArrives(s)
    <3>1. net[s].op = "logout" /\ net[s].st # "open" /\ pageurl' = "login.html"
      BY Zenon, <2>4 DEF LogoutArrives
    <3>2. Out'
      BY <1>1, <2>1, <3>1 DEF LoginFlight, Out
    <3> QED BY <2>1, <3>2 DEF LoginSeen, Idle
  <2>5. ~LoginFails(s) /\ ~FillFails(s)
    BY <2>2 DEF LoginFails, FillFails, ErrorCallback, Bad
  <2> QED BY <2>3, <2>4, <2>5
<1> QED BY <1>1, <1>2, <1>3, <1>5, <1>6 DEF LoginInv, LoginRequest

LEMMA LoginInvNext == ASSUME LoginInv, LoginNext PROVE LoginInv' /\ WebMove
<1>1. CASE \E g \in DOMAIN dbsessions : SessionExpires(g)
  BY <1>1, LoginFaultKeeps DEF SessionExpires, ServerFaults
<1>2. CASE \E s \in Slots : Break(s) /\ UNCHANGED loginVars
  BY <1>2, LoginFaultKeeps DEF ServerFaults, loginVars
<1> QED BY <1>1, <1>2, LoginUserKeeps, DoLoginKeeps, CheckLoginKeeps, LoginArrivesKeeps,
       LoginCallbackKeeps DEF LoginNext, LoginServer, LoginCallbacks

LEMMA LoginInvInit == ConsoleInit /\ page = "login" => LoginInv
<1> SUFFICES ASSUME ConsoleInit, page = "login" PROVE LoginInv
  OBVIOUS
<1>1. /\ net = [s \in Slots |-> NoRequest] /\ loop = NoLoop /\ pageurl = "login.html"
      /\ guid = 0 /\ lastguid = 0 /\ DOMAIN dbsessions = {}
  BY DEF ConsoleInit, WebInit, LoginInit
<1>2. userid \in Logins
  BY Zenon, LoginTypedMeans DEF ConsoleInit, LoginInit
<1>3. LoginTyped
  BY <1>1, <1>2 DEF LoginTyped
<1>4. Waits /\ LoginSeen
  BY <1>1 DEF Waits, OneInv, LoginSeen, Out
<1> QED BY <1>1, <1>3, <1>4 DEF LoginInv

LEMMA LoginInvMeans == LoginInv => LoginTypeOK /\ LoginShown
<1> SUFFICES ASSUME LoginInv, Patient, ~InFlight
             PROVE  IF pageurl = "login.html" THEN DOMAIN dbsessions = {}
                    ELSE /\ pageurl = PageOf(userid) /\ pageurl = PageOf(interface)
                         /\ Known(Credentials(userid, guid))
  BY Zenon, LoginTypedMeans DEF LoginInv, LoginShown
<1>1. Out \/ In
  BY Zenon, IdleMeans DEF LoginInv, LoginSeen
<1> QED BY <1>1 DEF Out, In, PageOf, Known, Credentials

-----------------------------------------------------------------------------
(***************************************************************************)
(* The page of the workers.  $scope.worker belongs to the dialog that is   *)
(* open only because a user who waits has one dialog at most and nothing   *)
(* in flight below it: then no other look-up has changed $scope.worker,    *)
(* and no other request the table, since the dialog's own look-up          *)
(* (DialogInv, Flight).                                                    *)
(***************************************************************************)

(* The ids of the workers are positive, and one of them is the highest.    *)
IdsInv ==
    /\ net = [s \in Slots |-> net[s]]
    /\ DOMAIN dbworkers \subseteq Nat \ {0}
    /\ \/ DOMAIN dbworkers = {}
       \/ \E m \in DOMAIN dbworkers : \A i \in DOMAIN dbworkers : i <= m

(* What a look-up found is still true. *)
Current(p, w) == IF w = 0 THEN IdsOf(p) = {} ELSE w \in IdsOf(p)

(* The open dialog and $scope.worker are of one look-up. *)
DialogInv ==
    \/ dialogs = <<>>
    \/ /\ \A s \in Slots : net[s] = NoRequest
       /\ \E p \in Pairs, b \in BOOLEAN :
            /\ dialogs = <<[pair |-> p, recordexists |-> b]>>
            /\ b <=> worker # 0
            /\ Current(p, worker)

(* What a request in flight says is true as well. *)
Flight(s) ==
    net[s] # NoRequest =>
        /\ net[s].op = "get" => net[s].arg.pair \in Pairs /\ net[s].st # "refused"
        /\ net[s].op = "get" /\ net[s].st = "ok" => Current(net[s].arg.pair, net[s].data)
        /\ net[s].op = "put" => net[s].arg.id \in IdsOf(net[s].arg.pair)
        /\ net[s].st = "checked" => net[s].op = "post" /\ IdsOf(net[s].arg.pair) = {}

FlightInv == \A s \in Slots : Flight(s)

WorkerInv == ~hasty => IdsInv /\ OneInv /\ DialogInv /\ FlightInv

NoOther == ~hasty /\ IdsInv /\ OneInv /\ DialogInv /\ FlightInv

(* What WorkerOwn allows. *)
Owned ==
    \A i \in DOMAIN dbworkers' :
        IF i \in DOMAIN dbworkers THEN dbworkers'[i] = dbworkers[i]
        ELSE IdsOf(dbworkers'[i]) = {}

(* A new worker's id is higher than the others. *)
LEMMA NewIds ==
    ASSUME IdsInv
    PROVE  NextId(dbworkers) \in Nat \ {0} /\ \A i \in DOMAIN dbworkers : i < NextId(dbworkers)
<1>1. CASE DOMAIN dbworkers = {}
  BY <1>1 DEF NextId
<1>2. CASE DOMAIN dbworkers # {}
  <2> DEFINE m == CHOOSE m \in DOMAIN dbworkers : \A i \in DOMAIN dbworkers : i <= m
  <2>1. m \in DOMAIN dbworkers /\ \A i \in DOMAIN dbworkers : i <= m
    BY <1>2 DEF IdsInv
  <2>2. NextId(dbworkers) = 1 + m
    BY <1>2 DEF NextId
  <2> HIDE DEF m
  <2> QED BY <2>1, <2>2 DEF IdsInv
<1> QED BY <1>1, <1>2

-----------------------------------------------------------------------------
(* A user who acts and is not hasty has nothing in flight. *)
LEMMA WaitedFor ==
    ASSUME UserActs, ~hasty'
    PROVE  ~hasty /\ \A s \in Slots : net[s] = NoRequest
BY Zenon DEF UserActs, ActsOn, InFlight

(* What he sends is then the only request. *)
LEMMA SentAlone ==
    ASSUME NoOther, \A s \in Slots : net[s] = NoRequest, NEW op, NEW arg, Send(op, arg)
    PROVE  /\ net' = [s \in Slots |-> net'[s]]
           /\ OneInv'
           /\ \A s \in Slots : net'[s] # NoRequest =>
                net'[s].op = op /\ net'[s].arg = arg /\ net'[s].st = "open"
<1>1. PICK s \in Slots :
        net' = [net EXCEPT ![s] = [op |-> op, arg |-> arg, st |-> "open", data |-> None]]
  BY DEF Send, SendFrom
<1>2. /\ net' = [r \in Slots |-> net'[r]]
      /\ net'[s] = [op |-> op, arg |-> arg, st |-> "open", data |-> None]
      /\ \A r \in Slots : r # s => net'[r] = NoRequest
  BY <1>1 DEF NoOther, IdsInv
<1> QED BY <1>2 DEF OneInv

LEMMA EditKeeps ==
    ASSUME WorkerInv, NEW p \in Pairs, Edit_WorkerModal(p)
    PROVE  WorkerInv' /\ UNCHANGED dbworkers
<1>1. UNCHANGED <<worker, dialogs, dbworkers>> /\ UserActs /\ dialogs = <<>>
  BY DEF Edit_WorkerModal, workerVars
<1>2. ASSUME ~hasty' PROVE (IdsInv /\ OneInv /\ DialogInv /\ FlightInv)'
  <2>1. ~hasty /\ \A s \in Slots : net[s] = NoRequest
    BY <1>1, <1>2, WaitedFor
  <2>2. NoOther
    BY <2>1 DEF WorkerInv, NoOther
  <2>3. /\ net' = [s \in Slots |-> net'[s]] /\ OneInv'
        /\ \A s \in Slots : net'[s] # NoRequest =>
             net'[s].op = "get" /\ net'[s].arg = AboutPair(p) /\ net'[s].st = "open"
    BY <2>1, <2>2, SentAlone DEF Edit_WorkerModal
  <2>4. IdsInv'
    BY <1>1, <2>2, <2>3 DEF NoOther, IdsInv
  <2>5. DialogInv'
    BY <1>1 DEF DialogInv
  <2>6. FlightInv'
    BY <2>3 DEF FlightInv, Flight, AboutPair
  <2> QED BY <2>3, <2>4, <2>5, <2>6
<1> QED BY <1>1, <1>2 DEF WorkerInv

(* The dialog that is closed is the only one. *)
LEMMA LastDialog ==
    ASSUME NoOther, dialogs # <<>>
    PROVE  /\ Closed = <<>>
           /\ Top.pair \in Pairs /\ (Top.recordexists <=> worker # 0)
           /\ Current(Top.pair, worker)
<1>1. PICK p \in Pairs, b \in BOOLEAN :
        /\ dialogs = <<[pair |-> p, recordexists |-> b]>>
        /\ b <=> worker # 0
        /\ Current(p, worker)
  BY DEF NoOther, DialogInv
<1>2. Len(dialogs) = 1
  BY <1>1
<1>3. Top = [pair |-> p, recordexists |-> b]
  BY <1>1, <1>2 DEF Top
<1>4. Closed = <<>>
  BY <1>1, <1>2 DEF Closed
<1> QED BY <1>1, <1>3, <1>4

LEMMA OkKeeps ==
    ASSUME WorkerInv, NEW filled \in BOOLEAN, Ok(filled)
    PROVE  WorkerInv' /\ UNCHANGED dbworkers
<1>1. UNCHANGED <<worker, dbworkers>> /\ UserActs /\ dialogs # <<>> /\ dialogs' = Closed
  BY DEF Ok
<1>2. ASSUME ~hasty' PROVE (IdsInv /\ OneInv /\ DialogInv /\ FlightInv)'
  <2>1. ~hasty /\ \A s \in Slots : net[s] = NoRequest
    BY <1>1, <1>2, WaitedFor
  <2>2. NoOther
    BY <2>1 DEF WorkerInv, NoOther
  <2>3. DialogInv'
    BY <1>1, <2>2, LastDialog DEF DialogInv
  <2>4. CASE Top.recordexists /\ worker # 0 /\ UpdateWorkerEntry
    <3>1. /\ net' = [s \in Slots |-> net'[s]] /\ OneInv'
          /\ \A s \in Slots : net'[s] # NoRequest =>
               /\ net'[s].op = "put" /\ net'[s].st = "open"
               /\ net'[s].arg = [pair |-> Top.pair, id |-> worker, filled |-> TRUE]
      BY <2>1, <2>2, <2>4, SentAlone DEF UpdateWorkerEntry
    <3>2. PICK p \in Pairs : p = Top.pair /\ worker \in IdsOf(p)
      BY <1>1, <2>2, <2>4, LastDialog DEF Current
    <3>3. \A s \in Slots : net'[s] # NoRequest => net'[s].arg.pair = p /\ net'[s].arg.id = worker
      BY <3>1, <3>2
    <3>4. FlightInv'
      BY <1>1, <3>1, <3>2, <3>3 DEF FlightInv, Flight, IdsOf
    <3> QED BY <1>1, <2>2, <2>3, <3>1, <3>4 DEF NoOther, IdsInv
  <2>5. CASE UNCHANGED net
    BY <1>1, <2>2, <2>3, <2>5 DEF NoOther, IdsInv, OneInv, FlightInv, Flight, Current, IdsOf
  <2>6. CASE AddWorkerEntry(filled)
    <3>1. /\ net' = [s \in Slots |-> net'[s]] /\ OneInv'
          /\ \A s \in Slots : net'[s] # NoRequest => net'[s].op = "post" /\ net'[s].st = "open"
      BY <2>1, <2>2, <2>6, SentAlone DEF AddWorkerEntry
    <3>2. FlightInv'
      BY <3>1 DEF FlightInv, Flight
    <3> QED BY <1>1, <2>2, <2>3, <3>1, <3>2 DEF NoOther, IdsInv
  <2> QED BY <2>4, <2>5, <2>6 DEF Ok
<1> QED BY <1>1, <1>2 DEF WorkerInv

LEMMA CancelKeeps ==
    ASSUME WorkerInv, Cancel
    PROVE  WorkerInv' /\ UNCHANGED dbworkers
<1>1. UNCHANGED <<net, worker, dbworkers>> /\ UserActs /\ dialogs # <<>> /\ dialogs' = Closed
  BY DEF Cancel
<1>2. ASSUME ~hasty' PROVE (IdsInv /\ OneInv /\ DialogInv /\ FlightInv)'
  <2>1. NoOther
    BY <1>1, <1>2, WaitedFor DEF WorkerInv, NoOther
  <2>2. DialogInv'
    BY <1>1, <2>1, LastDialog DEF DialogInv
  <2> QED BY <1>1, <2>1, <2>2 DEF NoOther, IdsInv, OneInv, FlightInv, Flight, Current, IdsOf
<1> QED BY <1>1, <1>2 DEF WorkerInv

-----------------------------------------------------------------------------
(* A slot whose request is answered, or whose callback has run. *)
LEMMA SlotMoves ==
    ASSUME NoOther, NEW s \in Slots, net[s] # NoRequest, NEW r,
           net' = [net EXCEPT ![s] = r]
    PROVE  /\ dialogs = <<>>
           /\ net' = [q \in Slots |-> net'[q]] /\ OneInv'
           /\ net'[s] = r /\ \A q \in Slots : q # s => net[q] = NoRequest /\ net'[q] = NoRequest
<1>1. /\ net' = [q \in Slots |-> net'[q]] /\ net'[s] = r
      /\ \A q \in Slots : q # s => net'[q] = net[q]
  BY DEF NoOther, IdsInv
<1>2. dialogs = <<>>
  BY DEF NoOther, DialogInv
<1>3. \A q \in Slots : q # s => net[q] = NoRequest
  BY DEF NoOther, OneInv
<1> QED BY <1>1, <1>2, <1>3 DEF OneInv

(* A step that changes neither the dialogs nor the server's table keeps    *)
(* the invariant if what it answers is true.                               *)
LEMMA AnswerKeeps ==
    ASSUME WorkerInv, NEW s \in Slots, net[s] # NoRequest, NEW r,
           net' = [net EXCEPT ![s] = r],
           hasty' = hasty, UNCHANGED <<worker, dialogs, dbworkers>>,
           NoOther => Flight(s)'
    PROVE  WorkerInv'
<1>1. ASSUME ~hasty' PROVE (IdsInv /\ OneInv /\ DialogInv /\ FlightInv)'
  <2>1. NoOther
    BY <1>1 DEF WorkerInv, NoOther
  <2>2. /\ dialogs = <<>> /\ OneInv' /\ net' = [q \in Slots |-> net'[q]]
        /\ \A q \in Slots : q # s => net'[q] = NoRequest
    BY <2>1, SlotMoves
  <2>3. IdsInv' /\ DialogInv'
    BY <2>1, <2>2 DEF NoOther, IdsInv, DialogInv
  <2>4. ASSUME NEW q \in Slots PROVE Flight(q)'
    <3>1. CASE q = s
      BY <2>1, <3>1
    <3>2. CASE q # s
      BY <2>2, <3>2 DEF Flight
    <3> QED BY <3>1, <3>2
  <2> QED BY <2>2, <2>3, <2>4 DEF FlightInv
<1> QED BY <1>1 DEF WorkerInv

LEMMA ServeGetKeeps ==
    ASSUME WorkerInv, NEW s \in Slots, ServeGet(s)
    PROVE  WorkerInv' /\ UNCHANGED dbworkers
<1>1. /\ UNCHANGED <<worker, dialogs, dbworkers, hasty>>
      /\ net[s] # NoRequest /\ net[s].op = "get"
  BY DEF ServeGet, Awaited, Answer, workerVars
<1>2. PICK w : /\ Answer(s, "ok", w)
              /\ \/ w = 0 /\ IdsOf(net[s].arg.pair) = {}
                 \/ w \in IdsOf(net[s].arg.pair)
  BY DEF ServeGet
<1> DEFINE r == [op |-> net[s].op, arg |-> net[s].arg, st |-> "ok", data |-> w]
<1>3. net' = [net EXCEPT ![s] = r]
  BY <1>2 DEF Answer, Answered
<1>4. ASSUME NoOther PROVE Flight(s)'
  <2>1. net'[s] = r
    BY <1>1, <1>3, <1>4, SlotMoves
  <2>2. Flight(s)
    BY <1>4 DEF NoOther, FlightInv
  <2>3. Current(net[s].arg.pair, w)
    BY <1>2, <1>4 DEF Current, IdsOf, NoOther, IdsInv
  <2>4. net'[s].op = "get" /\ net'[s].st = "ok" /\ net'[s].arg = net[s].arg /\ net'[s].data = w
    BY <1>1, <2>1
  <2> QED BY <1>1, <2>2, <2>3, <2>4 DEF Flight, Current, IdsOf
<1> QED BY <1>1, <1>3, <1>4, AnswerKeeps

LEMMA ServeAddKeeps ==
    ASSUME WorkerInv, NEW s \in Slots, ServeAdd(s)
    PROVE  WorkerInv' /\ UNCHANGED dbworkers
<1>1. /\ UNCHANGED <<worker, dialogs, dbworkers, hasty>>
      /\ net[s] # NoRequest /\ net[s].op = "post"
  BY DEF ServeAdd, Awaited, Answer, workerVars
<1>2. PICK st \in {"checked", "refused"} :
        /\ net' = [net EXCEPT ![s] = [op |-> net[s].op, arg |-> net[s].arg,
                                     st |-> st, data |-> 0]]
        /\ st = "checked" => IdsOf(net[s].arg.pair) = {}
  <2>1. CASE net[s].arg.filled /\ IdsOf(net[s].arg.pair) = {}
    <3>1. net' = Answered(s, "checked", 0)
      BY <2>1 DEF ServeAdd, Answer
    <3> QED BY <2>1, <3>1 DEF Answered
  <2>2. CASE ~(net[s].arg.filled /\ IdsOf(net[s].arg.pair) = {})
    <3>1. net' = Answered(s, "refused", 0)
      BY <2>2 DEF ServeAdd, Answer
    <3> QED BY <3>1 DEF Answered
  <2> QED BY <2>1, <2>2
<1> DEFINE r == [op |-> net[s].op, arg |-> net[s].arg, st |-> st, data |-> 0]
<1>3. net' = [net EXCEPT ![s] = r]
  BY <1>2
<1>4. ASSUME NoOther PROVE Flight(s)'
  <2>1. net'[s] = r
    BY <1>1, <1>3, <1>4, SlotMoves
  <2>2. net'[s].op = "post" /\ net'[s].st = st /\ net'[s].arg = net[s].arg
    BY <1>1, <2>1
  <2> QED BY <1>1, <1>2, <2>2 DEF Flight, IdsOf
<1> QED BY <1>1, <1>3, <1>4, AnswerKeeps

(* A request that fails says nothing any more. *)
LEMMA FaultKeeps ==
    ASSUME WorkerInv, NEW s \in Slots, net[s] # NoRequest, NEW st \in {"expired", "broken"},
           net' = Answered(s, st, None),
           UNCHANGED <<hasty, worker, dialogs, dbworkers>>
    PROVE  WorkerInv'
<1> DEFINE r == [op |-> net[s].op, arg |-> net[s].arg, st |-> st, data |-> None]
<1>1. net' = [net EXCEPT ![s] = r]
  BY DEF Answered
<1>2. ASSUME NoOther PROVE Flight(s)'
  <2>1. net'[s] = r
    BY <1>1, <1>2, SlotMoves
  <2>2. Flight(s)
    BY <1>2 DEF NoOther, FlightInv
  <2>3. net'[s].op = net[s].op /\ net'[s].st = st /\ net'[s].arg = net[s].arg
    BY <2>1
  <2> QED BY <2>2, <2>3 DEF Flight, IdsOf
<1> QED BY <1>1, <1>2, AnswerKeeps

(* The new row is of a pair that had none. *)
LEMMA ServeSaveKeeps ==
    ASSUME WorkerInv, NEW s \in Slots, ServeSave(s)
    PROVE  WorkerInv' /\ (~hasty => Owned)
<1> DEFINE p == net[s].arg.pair
           n == NextId(dbworkers)
           r == [op |-> net[s].op, arg |-> net[s].arg, st |-> "ok", data |-> 0]
<1>1. /\ UNCHANGED <<worker, dialogs, hasty>>
      /\ net[s] # NoRequest /\ net[s].st = "checked"
      /\ dbworkers' = WithRow(dbworkers, n, p)
      /\ net' = [net EXCEPT ![s] = r]
  BY DEF ServeSave, Answered
<1>2. ASSUME NoOther PROVE (IdsInv /\ OneInv /\ DialogInv /\ FlightInv)' /\ Owned
  <2>1. /\ dialogs = <<>> /\ OneInv' /\ net' = [q \in Slots |-> net'[q]]
        /\ net'[s] = r /\ \A q \in Slots : q # s => net'[q] = NoRequest
    BY <1>1, <1>2, SlotMoves
  <2>2. net[s].op = "post" /\ IdsOf(p) = {}
    BY <1>1, <1>2 DEF NoOther, FlightInv, Flight
  <2>3. n \in Nat \ {0} /\ \A i \in DOMAIN dbworkers : i < n
    BY <1>2, NewIds DEF NoOther
  <2>4. /\ DOMAIN dbworkers' = DOMAIN dbworkers \cup {n} /\ dbworkers'[n] = p
        /\ \A i \in DOMAIN dbworkers : dbworkers'[i] = dbworkers[i]
    BY <1>1, <2>3 DEF WithRow, NoOther, IdsInv
  <2>5. IdsInv'
    BY <1>2, <2>1, <2>3, <2>4 DEF NoOther, IdsInv
  <2>6. DialogInv'
    BY <1>1, <2>1 DEF DialogInv
  <2>7. net'[s].op = "post" /\ net'[s].st = "ok"
    BY <2>1, <2>2
  <2>8. FlightInv'
    BY <2>1, <2>7 DEF FlightInv, Flight
  <2>9. Owned
    BY <2>2, <2>3, <2>4 DEF Owned
  <2> QED BY <2>1, <2>5, <2>6, <2>8, <2>9
<1> QED BY <1>1, <1>2 DEF WorkerInv, NoOther

(* The row that is overwritten is the pair's own, and stays as it was. *)
LEMMA ServeUpdateKeeps ==
    ASSUME WorkerInv, NEW s \in Slots, ServeUpdate(s)
    PROVE  WorkerInv' /\ (~hasty => Owned)
<1> DEFINE r == [op |-> net[s].op, arg |-> net[s].arg, st |-> "ok", data |-> 0]
<1>1. /\ UNCHANGED <<worker, dialogs, hasty>>
      /\ net[s] # NoRequest /\ net[s].op = "put"
      /\ dbworkers' = WithRow(dbworkers, net[s].arg.id, net[s].arg.pair)
      /\ net' = [net EXCEPT ![s] = r]
  BY DEF ServeUpdate, Awaited, Answer, Answered
<1>2. ASSUME NoOther
      PROVE  /\ DOMAIN dbworkers' = DOMAIN dbworkers
             /\ \A i \in DOMAIN dbworkers : dbworkers'[i] = dbworkers[i]
  <2>1. net[s].arg.id \in IdsOf(net[s].arg.pair)
    BY <1>1, <1>2 DEF NoOther, FlightInv, Flight
  <2> QED BY <1>1, <2>1 DEF WithRow, IdsOf
<1>3. ASSUME NoOther PROVE (IdsInv /\ OneInv /\ DialogInv /\ FlightInv)'
  <2>1. /\ dialogs = <<>> /\ OneInv' /\ net' = [q \in Slots |-> net'[q]]
        /\ net'[s] = r /\ \A q \in Slots : q # s => net'[q] = NoRequest
    BY <1>1, <1>3, SlotMoves
  <2>2. IdsInv' /\ DialogInv'
    BY <1>1, <1>2, <1>3, <2>1 DEF NoOther, IdsInv, DialogInv
  <2>3. net'[s].op = "put" /\ net'[s].st = "ok" /\ net'[s].arg = net[s].arg
    BY <1>1, <2>1
  <2>4. Flight(s)
    BY <1>3 DEF NoOther, FlightInv
  <2>5. Flight(s)'
    BY <1>1, <1>2, <1>3, <2>3, <2>4 DEF Flight, IdsOf
  <2>6. FlightInv'
    BY <2>1, <2>5 DEF FlightInv, Flight
  <2> QED BY <2>1, <2>2, <2>6
<1>4. NoOther => Owned
  BY <1>2 DEF Owned
<1> QED BY <1>1, <1>3, <1>4 DEF WorkerInv, NoOther

-----------------------------------------------------------------------------
(* The dialog that opens is of the look-up that has just come. *)
LEMMA ArrivesKeeps ==
    ASSUME WorkerInv, NEW s \in Slots, WorkerArrives(s)
    PROVE  WorkerInv' /\ UNCHANGED dbworkers
<1>1. /\ UNCHANGED <<dbworkers, hasty>>
      /\ net[s] # NoRequest /\ net[s].op = "get" /\ net[s].st \in {"ok", "refused"}
      /\ net' = [net EXCEPT ![s] = NoRequest]
      /\ worker' = net[s].data
      /\ dialogs' = Append(dialogs, [pair |-> net[s].arg.pair,
                                     recordexists |-> worker' # 0])
  BY DEF WorkerArrives, Arrived, Callback, Without, LookedUp
<1>2. ASSUME NoOther PROVE (IdsInv /\ OneInv /\ DialogInv /\ FlightInv)'
  <2>1. /\ dialogs = <<>> /\ OneInv' /\ net' = [q \in Slots |-> net'[q]]
        /\ \A q \in Slots : net'[q] = NoRequest
    BY <1>1, <1>2, SlotMoves
  <2>2. Flight(s)
    BY <1>2 DEF NoOther, FlightInv
  <2>3. PICK p \in Pairs : p = net[s].arg.pair /\ Current(p, worker')
    BY <1>1, <2>2 DEF Flight
  <2>4. PICK b \in BOOLEAN : b <=> worker' # 0
    OBVIOUS
  <2>5. dialogs' = <<[pair |-> p, recordexists |-> b]>>
    <3>1. (worker' # 0) = b
      BY <2>4
    <3> QED BY <1>1, <2>1, <2>3, <3>1
  <2>6. Current(p, worker)'
    BY <1>1, <2>3 DEF Current, IdsOf
  <2>7. DialogInv'
    BY <2>1, <2>4, <2>5, <2>6 DEF DialogInv
  <2>8. IdsInv' /\ FlightInv'
    BY <1>1, <1>2, <2>1 DEF NoOther, IdsInv, FlightInv, Flight
  <2> QED BY <2>1, <2>7, <2>8
<1> QED BY <1>1, <1>2 DEF WorkerInv, NoOther

(* The other callbacks only take their request away. *)
LEMMA CallbackKeeps ==
    ASSUME WorkerInv, NEW s \in Slots, net[s] # NoRequest, net' = Without(s),
           UNCHANGED <<hasty, worker, dialogs, dbworkers>>
    PROVE  WorkerInv'
<1>1. ASSUME NoOther PROVE Flight(s)'
  BY <1>1, SlotMoves DEF Without, Flight
<1> QED BY <1>1, AnswerKeeps DEF Without

LEMMA WorkerInvInit == ConsoleInit => WorkerInv
<1> SUFFICES ASSUME ConsoleInit PROVE WorkerInv
  OBVIOUS
<1>1. /\ net = [s \in Slots |-> NoRequest] /\ dialogs = <<>>
      /\ \E n \in 0 .. 2 : dbworkers \in [1 .. n -> Pairs]
  BY DEF ConsoleInit, WebInit, WorkerInit
<1>2. PICK n \in 0 .. 2 : DOMAIN dbworkers = 1 .. n
  BY <1>1
<1>3. IdsInv
  <2>1. CASE n = 0
    BY <1>1, <1>2, <2>1 DEF IdsInv
  <2>2. CASE n # 0
    <3>1. n \in DOMAIN dbworkers /\ \A i \in DOMAIN dbworkers : i <= n
      BY <1>2, <2>2
    <3> QED BY <1>1, <1>2, <3>1 DEF IdsInv
  <2> QED BY <2>1, <2>2
<1> QED BY <1>1, <1>3 DEF WorkerInv, OneInv, DialogInv, FlightInv, Flight

LEMMA WorkerInvNext ==
    ASSUME WorkerInv, WorkerNext
    PROVE  WorkerInv' /\ (~hasty => Owned)
<1>1. UNCHANGED dbworkers => Owned
  BY DEF Owned
<1>2. CASE WorkerUser
  BY <1>1, <1>2, EditKeeps, OkKeeps, CancelKeeps DEF WorkerUser
<1>3. CASE WorkerServer
  <2>1. ASSUME NEW s \in Slots, ServeGet(s) \/ ServeAdd(s) \/ ServeSave(s) \/ ServeUpdate(s)
        PROVE  WorkerInv' /\ (~hasty => Owned)
    BY <1>1, <2>1, ServeGetKeeps, ServeAddKeeps, ServeSaveKeeps, ServeUpdateKeeps
  <2>2. ASSUME Expire, UNCHANGED workerVars PROVE WorkerInv' /\ UNCHANGED dbworkers
    BY <2>2 DEF Expire, workerVars, WorkerInv, IdsInv, OneInv, DialogInv, FlightInv,
       Flight, Current, IdsOf
  <2>3. ASSUME NEW s \in Slots, Refuse401(s) \/ Break(s), UNCHANGED workerVars
        PROVE  WorkerInv' /\ UNCHANGED dbworkers
    <3>1. UNCHANGED <<worker, dialogs, dbworkers>>
      BY <2>3 DEF workerVars
    <3>2. /\ net[s] # NoRequest /\ UNCHANGED hasty
          /\ net' = Answered(s, "expired", None) \/ net' = Answered(s, "broken", None)
      BY <2>3 DEF Refuse401, Break
    <3> QED BY <3>1, <3>2, FaultKeeps
  <2> QED BY <1>1, <1>3, <2>1, <2>2, <2>3 DEF WorkerServer, ServerFaults
<1>4. CASE WorkerCallbacks
  <2>1. ASSUME NEW s \in Slots, WorkerSaved(s) \/ WorkerRequestFails(s)
        PROVE  WorkerInv' /\ UNCHANGED dbworkers
    <3>1. /\ net[s] # NoRequest /\ net' = Without(s)
          /\ UNCHANGED <<hasty, worker, dialogs, dbworkers>>
      BY <2>1 DEF WorkerSaved, WorkerRequestFails, Arrived, Callback, ErrorCallback, workerVars
    <3> QED BY <3>1, CallbackKeeps
  <2> QED BY <1>1, <1>4, <2>1, ArrivesKeeps DEF WorkerCallbacks
<1> QED BY <1>2, <1>3, <1>4 DEF WorkerNext

(* On the other pages nobody touches the workers. *)
PageInv == page = "workers" => WorkerInv

LEMMA PageInvNext ==
    PageInv /\ [ConsoleNext]_consoleVars => PageInv' /\ (~hasty => Owned)
<1> SUFFICES ASSUME PageInv, [ConsoleNext]_consoleVars
             PROVE  PageInv' /\ (~hasty => Owned)
  OBVIOUS
<1>1. CASE WorkerStep
  BY <1>1, WorkerInvNext DEF WorkerStep, PageInv
<1>2. ASSUME UNCHANGED <<page, workerVars>>, page # "workers"
      PROVE  PageInv' /\ (~hasty => Owned)
  BY <1>2 DEF PageInv, workerVars, Owned
<1>3. CASE UNCHANGED consoleVars
  BY <1>3 DEF consoleVars, webVars, workerVars, PageInv, WorkerInv, IdsInv, OneInv,
     DialogInv, FlightInv, Flight, Current, IdsOf, Owned
<1> QED BY <1>1, <1>2, <1>3
    DEF ConsoleNext, CapsStep, UserStep, ScriptStep, PluginStep, ListStep, LoginStep

(* A user who waits for the answers changes, on the page of the workers,   *)
(* the worker that the dialog names, and adds one only where there is none *)
(* although all dialogs share $scope.worker.                               *)
THEOREM WorkersKeepTheirPair == ConsoleSpec => WorkerOwn
<1>1. ConsoleInit => PageInv
  BY WorkerInvInit DEF PageInv
<1>2. PageInv /\ [ConsoleNext]_consoleVars => PageInv'
  BY PageInvNext
<1>3. PageInv /\ [ConsoleNext]_consoleVars =>
        [~hasty =>
           \A i \in DOMAIN dbworkers' :
              IF i \in DOMAIN dbworkers THEN dbworkers'[i] = dbworkers[i]
              ELSE IdsOf(dbworkers'[i]) = {}
        ]_<<webVars, workerVars>>
  BY PageInvNext DEF Owned
<1> QED BY <1>1, <1>2, <1>3, PTL DEF ConsoleSpec, WorkerOwn

-----------------------------------------------------------------------------
(* The types of the page of the workers.                                   *)
(* The types of what is in flight.                                         *)
WorkerRequest(r) ==
    /\ r.op \in {"get", "post", "put"} /\ r.arg.pair \in Pairs
    /\ r.op = "get" => /\ r.st # "refused"
                       /\ r.st = "ok" => r.data \in DOMAIN dbworkers \cup {0}

WorkerTyped ==
    /\ Waits
    /\ WorkerTypeOK
    /\ dialogs \in Seq([pair : Pairs, recordexists : BOOLEAN])
    /\ \A s \in Slots : net[s] # NoRequest => WorkerRequest(net[s])

LEMMA DialogsMean ==
    ASSUME NEW q \in Seq([pair : Pairs, recordexists : BOOLEAN])
    PROVE  /\ Len(q) \in Nat /\ DOMAIN q = 1 .. Len(q)
           /\ \A i \in DOMAIN q : q[i].pair \in Pairs
           /\ \A n \in Nat : n <= Len(q) =>
                 SubSeq(q, 1, n) \in Seq([pair : Pairs, recordexists : BOOLEAN])
<1> PICK D : D = [pair : Pairs, recordexists : BOOLEAN]
  OBVIOUS
<1>1. /\ Len(q) \in Nat /\ DOMAIN q = 1 .. Len(q)
      /\ \A i \in DOMAIN q : q[i] \in D
  BY LenProperties, ElementOfSeq
<1>2. \A i \in DOMAIN q : q[i].pair \in Pairs
  BY <1>1
<1>3. ASSUME NEW n \in Nat, n <= Len(q) PROVE SubSeq(q, 1, n) \in Seq(D)
  <2>1. \A i \in 1 .. n : q[i] \in D
    BY <1>1, <1>3
  <2> QED BY <2>1, SubSeqProperties
<1> QED BY <1>1, <1>2, <1>3

(* A request is answered, and the table grows at most. *)
LEMMA WorkerAnswerTyped ==
    ASSUME WorkerTyped, NEW s \in Slots, net[s] # NoRequest, NEW st, st # "none", NEW d,
           net' = Answered(s, st, d),
           UNCHANGED <<pageurl, loop, moves, session, broke, hasty, worker, dialogs>>,
           UNCHANGED dbworkers \/ \E i : dbworkers' = WithRow(dbworkers, i, net[s].arg.pair),
           net[s].op = "get" => st = "ok" /\ d \in DOMAIN dbworkers' \cup {0}
    PROVE  WorkerTyped' /\ WebMove
<1>1. /\ WebMove /\ net'[s].op = net[s].op /\ net'[s].arg = net[s].arg
      /\ net'[s].st = st /\ net'[s].data = d
      /\ \A q \in Slots : q # s => net'[q] = net[q]
  BY AnsweredOne DEF WorkerTyped
<1>2. Waits'
  BY <1>1, WaitsNext DEF WorkerTyped
<1>3. /\ DOMAIN dbworkers \subseteq DOMAIN dbworkers'
      /\ \A i \in DOMAIN dbworkers' : dbworkers'[i] \in Pairs
  BY DEF WithRow, WorkerTyped, WorkerTypeOK, WorkerRequest
<1>4. WorkerTypeOK'
  BY <1>3 DEF WorkerTyped, WorkerTypeOK
<1>5. \A q \in Slots : net'[q] # NoRequest => WorkerRequest(net[q])'
  BY <1>1, <1>3 DEF WorkerTyped, WorkerRequest
<1> QED BY <1>1, <1>2, <1>4, <1>5 DEF WorkerTyped

(* What the user sends, if anything.                                       *)
WorkerSends ==
    \E op \in {"get", "post", "put"} : \E arg : Send(op, arg) /\ arg.pair \in Pairs

LEMMA WorkerUserTyped ==
    ASSUME WorkerTyped, WorkerUser
    PROVE  WorkerTyped' /\ WebMove
<1>1. UserActs /\ UNCHANGED <<worker, dbworkers>>
  BY DEF WorkerUser, Edit_WorkerModal, Ok, Cancel, workerVars
<1>2. /\ loop = NoLoop /\ UNCHANGED <<pageurl, loop, session, broke>>
      /\ hasty' = (hasty \/ InFlight)
  BY <1>1, Acted DEF UserActs
<1>3. dialogs # <<>> =>
        /\ Top.pair \in Pairs
        /\ Closed \in Seq([pair : Pairs, recordexists : BOOLEAN])
  <2> SUFFICES ASSUME dialogs # <<>>
               PROVE  /\ Top.pair \in Pairs
                      /\ Closed \in Seq([pair : Pairs, recordexists : BOOLEAN])
    OBVIOUS
  <2>1. dialogs \in Seq([pair : Pairs, recordexists : BOOLEAN])
    BY DEF WorkerTyped
  <2>2. Len(dialogs) \in Nat \ {0}
    BY <2>1, EmptySeq
  <2>3. /\ Len(dialogs) \in DOMAIN dialogs
        /\ Len(dialogs) - 1 \in Nat /\ Len(dialogs) - 1 <= Len(dialogs)
    BY <2>1, <2>2, DialogsMean
  <2>4. Top.pair \in Pairs
    BY <2>1, <2>3, DialogsMean DEF Top
  <2>5. Closed \in Seq([pair : Pairs, recordexists : BOOLEAN])
    BY <2>1, <2>3, DialogsMean DEF Closed
  <2> QED BY <2>4, <2>5
<1>4. /\ dialogs' \in Seq([pair : Pairs, recordexists : BOOLEAN])
      /\ \A i \in DOMAIN dialogs' : dialogs'[i].pair \in Pairs
  <2>1. UNCHANGED dialogs \/ (dialogs # <<>> /\ dialogs' = Closed)
    BY DEF WorkerUser, Edit_WorkerModal, Ok, Cancel, workerVars
  <2>2. dialogs' \in Seq([pair : Pairs, recordexists : BOOLEAN])
    BY <1>3, <2>1 DEF WorkerTyped
  <2> QED BY <2>2, DialogsMean
<1>5. UNCHANGED net \/ WorkerSends
  <2>1. ASSUME NEW p \in Pairs, Edit_WorkerModal(p)
        PROVE  WorkerSends
    BY <2>1 DEF WorkerSends, Edit_WorkerModal, AboutPair
  <2>2. ASSUME NEW filled \in BOOLEAN, Ok(filled)
        PROVE  UNCHANGED net \/ WorkerSends
    BY <1>3, <2>2 DEF WorkerSends, Ok, UpdateWorkerEntry, AddWorkerEntry
  <2>3. Cancel => UNCHANGED net
    BY DEF Cancel
  <2> QED BY <2>1, <2>2, <2>3 DEF WorkerUser
<1>6. WebMove /\ \A q \in Slots : net'[q] # NoRequest => WorkerRequest(net[q])'
  <2>1. CASE UNCHANGED net
    BY <1>1, <1>2, <2>1 DEF WebMove, ByUser, WorkerTyped, WorkerRequest
  <2>2. ASSUME NEW op \in {"get", "post", "put"}, NEW arg, Send(op, arg),
               arg.pair \in Pairs
        PROVE  WebMove /\ \A q \in Slots : net'[q] # NoRequest => WorkerRequest(net[q])'
    <3>1. Begins(net) /\ \A q \in Slots : net'[q] = net[q] \/ Sent(net'[q], op, arg)
      BY <2>2, SentOne DEF Send, WorkerTyped, Waits
    <3> QED BY <1>1, <1>2, <2>2, <3>1 DEF WebMove, ByUser, WorkerTyped, WorkerRequest, Sent
  <2> QED BY <1>5, <2>1, <2>2 DEF WorkerSends
<1>7. Waits'
  BY <1>6, WaitsNext DEF WorkerTyped
<1> QED BY <1>1, <1>4, <1>6, <1>7 DEF WorkerTyped, WorkerTypeOK

LEMMA WorkerTypedNext ==
    ASSUME WorkerTyped, WorkerNext
    PROVE  WorkerTyped' /\ WebMove
<1>1. ASSUME NEW s \in Slots, ServeGet(s) \/ ServeAdd(s) \/ ServeSave(s) \/ ServeUpdate(s)
      PROVE  WorkerTyped' /\ WebMove
  <2>1. /\ net[s] # NoRequest /\ UNCHANGED <<worker, dialogs>>
        /\ UNCHANGED <<pageurl, loop, moves, session, broke, hasty>>
    BY <1>1 DEF ServeGet, ServeAdd, ServeSave, ServeUpdate, Awaited, Answer, workerVars
  <2>2. CASE ServeGet(s)
    <3>1. UNCHANGED dbworkers
      BY <2>2 DEF ServeGet, workerVars
    <3>2. PICK d \in DOMAIN dbworkers \cup {0} : net' = Answered(s, "ok", d)
      BY <2>2 DEF ServeGet, IdsOf, Answer
    <3> QED BY <2>1, <3>1, <3>2, WorkerAnswerTyped
  <2>3. CASE ServeAdd(s)
    <3>1. UNCHANGED dbworkers /\ net[s].op = "post"
      BY <2>3 DEF ServeAdd, Awaited, workerVars
    <3>2. PICK st \in {"checked", "refused"} : net' = Answered(s, st, 0)
      BY <2>3 DEF ServeAdd, Answer
    <3> QED BY <2>1, <3>1, <3>2, WorkerAnswerTyped
  <2>4. CASE ServeSave(s) \/ ServeUpdate(s)
    <3>1. /\ \E i : dbworkers' = WithRow(dbworkers, i, net[s].arg.pair)
          /\ net' = Answered(s, "ok", 0)
      BY <2>4 DEF ServeSave, ServeUpdate, Answer
    <3> QED BY <2>1, <3>1, WorkerAnswerTyped
  <2> QED BY <1>1, <2>2, <2>3, <2>4
<1>2. CASE ServerFaults /\ UNCHANGED workerVars
  <2>1. WebMove /\ \A q \in Slots : net'[q] = net[q] \/ Failed(net'[q], net[q])
    BY <1>2, FailedOne DEF WorkerTyped
  <2>2. UNCHANGED <<worker, dialogs, dbworkers>>
    BY <1>2 DEF workerVars
  <2>3. \A q \in Slots : net'[q] # NoRequest => WorkerRequest(net[q])'
    BY <2>1, <2>2 DEF WorkerTyped, WorkerRequest, Failed
  <2> QED BY <2>1, <2>2, <2>3, WaitsNext DEF WorkerTyped, WorkerTypeOK
<1>3. ASSUME NEW s \in Slots, WorkerArrives(s) \/ WorkerSaved(s) \/ WorkerRequestFails(s)
      PROVE  WorkerTyped' /\ WebMove
  <2>1. /\ net[s] # NoRequest /\ loop = NoLoop /\ UNCHANGED dbworkers
        /\ net' = Without(s) /\ pageurl' \in {pageurl, "login.html"}
        /\ UNCHANGED <<loop, session, broke, hasty>>
    BY <1>3 DEF WorkerArrives, WorkerSaved, WorkerRequestFails, Arrived, Callback,
       ErrorCallback, workerVars
  <2>2. WebMove /\ \A q \in Slots : net'[q] = NoRequest \/ net'[q] = net[q]
    BY <2>1, CallbackOne DEF WorkerTyped
  <2>3. \A q \in Slots : net'[q] # NoRequest => WorkerRequest(net[q])'
    BY <2>1, <2>2 DEF WorkerTyped, WorkerRequest
  <2>4. /\ worker' \in DOMAIN dbworkers \cup {0}
        /\ dialogs' \in Seq([pair : Pairs, recordexists : BOOLEAN])
        /\ \A i \in DOMAIN dialogs' : dialogs'[i].pair \in Pairs
    <3>1. CASE WorkerArrives(s)
      <4>1. WorkerRequest(net[s]) /\ net[s].op = "get" /\ net[s].st = "ok"
        BY <2>1, <3>1 DEF WorkerTyped, WorkerRequest, WorkerArrives, Arrived
      <4>2. PICK w \in DOMAIN dbworkers \cup {0}, p \in Pairs :
              w = net[s].data /\ p = net[s].arg.pair
        BY <4>1 DEF WorkerRequest
      <4>3. worker' = w /\ dialogs' = Append(dialogs, [pair |-> p, recordexists |-> w # 0])
        BY <3>1, <4>2 DEF WorkerArrives, LookedUp
      <4>4. dialogs \in Seq([pair : Pairs, recordexists : BOOLEAN])
        BY DEF WorkerTyped
      <4>5. [pair |-> p, recordexists |-> w # 0] \in [pair : Pairs, recordexists : BOOLEAN]
        OBVIOUS
      <4>6. dialogs' \in Seq([pair : Pairs, recordexists : BOOLEAN])
        BY <4>3, <4>4, <4>5, AppendProperties
      <4> QED BY <2>1, <4>3, <4>6, DialogsMean
    <3>2. CASE WorkerSaved(s) \/ WorkerRequestFails(s)
      BY <3>2 DEF WorkerSaved, WorkerRequestFails, workerVars, WorkerTyped, WorkerTypeOK
    <3> QED BY <1>3, <3>1, <3>2
  <2> QED BY <2>1, <2>2, <2>3, <2>4, WaitsNext DEF WorkerTyped, WorkerTypeOK
<1> QED BY <1>1, <1>2, <1>3, WorkerUserTyped DEF WorkerNext, WorkerServer, WorkerCallbacks

LEMMA WorkerTypedInit == ConsoleInit => WorkerTyped
<1> SUFFICES ASSUME ConsoleInit PROVE WorkerTyped
  OBVIOUS
<1>1. /\ net = [s \in Slots |-> NoRequest] /\ loop = NoLoop
      /\ dialogs = <<>> /\ worker = 0 /\ \E n \in 0 .. 2 : dbworkers \in [1 .. n -> Pairs]
  BY DEF ConsoleInit, WebInit, WorkerInit
<1> QED BY <1>1 DEF WorkerTyped, Waits, OneInv, WorkerTypeOK

-----------------------------------------------------------------------------
(***************************************************************************)
(* The pages together: a page that is not shown keeps what it had.         *)
(***************************************************************************)

PagesInv ==
    /\ PluginInv
    /\ IF page = "plugins" THEN PluginsInv ELSE ~adding
    /\ IF page = "lists" THEN ListInv ELSE ListTypeOK /\ dccaps = dbcaps
    /\ page = "login" => LoginInv

LEMMA PagesInvInit == ConsoleInit => PagesInv
<1> SUFFICES ASSUME ConsoleInit PROVE PagesInv
  OBVIOUS
<1>1. PluginInv /\ PluginsInv /\ ListInv /\ ListTypeOK
  BY PluginsInvInit, ListInvInit, ListInvMeans DEF PluginsInv
<1>2. ~adding /\ dccaps = dbcaps
  BY DEF ConsoleInit, PluginInit, ListInit
<1>3. page = "login" => LoginInv
  BY LoginInvInit
<1> QED BY <1>1, <1>2, <1>3 DEF PagesInv

LEMMA PagesInvNext ==
    ASSUME PagesInv, [ConsoleNext]_consoleVars
    PROVE  PagesInv'
<1>1. UNCHANGED page
  BY DEF ConsoleNext, CapsStep, UserStep, WorkerStep, ScriptStep, PluginStep, ListStep, LoginStep,
     consoleVars
<1>2. UNCHANGED pluginVars => PluginInv' /\ (~adding => ~adding')
  <2> SUFFICES ASSUME UNCHANGED pluginVars PROVE PluginInv' /\ (~adding => ~adding')
    OBVIOUS
  <2>1. PluginInv'
    BY SameServer DEF pluginVars, serverVars, PagesInv
  <2>2. ~adding => ~adding'
    BY Zenon DEF pluginVars, pageVars
  <2> QED BY <2>1, <2>2
<1>3. UNCHANGED listVars /\ ListTypeOK /\ dccaps = dbcaps => (ListTypeOK /\ dccaps = dbcaps)'
  BY DEF listVars, ListTypeOK
<1>4. /\ PluginInv'
      /\ (IF page = "plugins" THEN PluginsInv ELSE ~adding)'
  <2>1. CASE PluginStep
    BY <1>1, <2>1, PluginsInvNext DEF PluginStep, PagesInv, PluginsInv
  <2>2. CASE page # "plugins" /\ UNCHANGED pluginVars
    BY <1>1, <1>2, <2>2 DEF PagesInv
  <2>3. CASE UNCHANGED consoleVars
    <3>1. UNCHANGED <<pluginVars, net, loop, hasty, session, broke>>
      BY <2>3 DEF consoleVars, webVars
    <3>2. UNCHANGED <<adding, avail, refused, script, cachemutex, dbrepos, dbplugins>>
      BY Zenon, <3>1 DEF pluginVars, pageVars, serverVars
    <3>3. UNCHANGED Offered
      BY <3>2 DEF Offered, Installed
    <3>4. \A S : Shows(S) => Shows(S)'
      BY <3>2 DEF Shows, Listing, Lists
    <3>5. \A r : PluginFlight(r) => PluginFlight(r)'
      BY <3>2, <3>3, <3>4 DEF PluginFlight, Listing, Lists
    <3>6. PluginSeen => PluginSeen'
      BY <3>1, <3>2, <3>3, <3>4, <3>5 DEF PluginSeen, Idle, ScriptFlight
    <3>7. (Waits => Waits') /\ (Patient' => Patient)
      BY Zenon, <3>1 DEF Waits, OneInv, Idle, Patient
    <3>8. PluginsInv => PluginsInv'
      BY <1>2, <3>1, <3>6, <3>7 DEF PluginsInv
    <3> QED BY <1>1, <1>2, <3>1, <3>8 DEF PagesInv
  <2> QED BY <2>1, <2>2, <2>3
      DEF ConsoleNext, CapsStep, UserStep, WorkerStep, ScriptStep, ListStep, LoginStep
<1>5. (IF page = "lists" THEN ListInv ELSE ListTypeOK /\ dccaps = dbcaps)'
  <2>1. CASE ListStep
    BY <1>1, <2>1, ListInvNext DEF ListStep, PagesInv
  <2>2. CASE page # "lists" /\ UNCHANGED listVars
    BY <1>1, <1>3, <2>2 DEF PagesInv
  <2>3. CASE UNCHANGED consoleVars
    <3>1. UNCHANGED <<listVars, net, loop, hasty, session, broke, pageurl>>
      BY <2>3 DEF consoleVars, webVars
    <3>2. ListInv => ListInv'
      BY <3>1 DEF ListInv, Waits, OneInv, Idle, Patient, ListTypeOK, Coded, ListRequest,
         ListSeen, ListFlight, listVars
    <3> QED BY <1>1, <1>3, <3>1, <3>2 DEF PagesInv
  <2> QED BY <2>1, <2>2, <2>3
      DEF ConsoleNext, CapsStep, UserStep, WorkerStep, ScriptStep, PluginStep, LoginStep
<1>6. (page = "login" => LoginInv)'
  <2>1. CASE LoginStep
    BY <1>1, <2>1, LoginInvNext DEF LoginStep, PagesInv
  <2>2. CASE page # "login"
    BY <1>1, <2>2
  <2>3. CASE UNCHANGED consoleVars
    <3>1. UNCHANGED <<loginVars, net, loop, hasty, session, broke, pageurl>>
      BY <2>3 DEF consoleVars, webVars
    <3>2. LoginInv => LoginInv'
      BY Zenon, <3>1 DEF LoginInv, Waits, OneInv, Idle, Patient, LoginTyped, LoginRequest,
         LoginSeen, LoginFlight, Out, In, loginVars
    <3> QED BY <1>1, <3>1, <3>2 DEF PagesInv
  <2> QED BY <2>1, <2>2, <2>3
      DEF ConsoleNext, CapsStep, UserStep, WorkerStep, ScriptStep, PluginStep, ListStep
<1> QED BY <1>4, <1>5, <1>6 DEF PagesInv

LEMMA PagesInvMeans == PagesInv => FilesOwned /\ InstallsWhole /\ TableShown /\ SessionShown
<1> SUFFICES ASSUME PagesInv PROVE FilesOwned /\ InstallsWhole /\ TableShown /\ SessionShown
  OBVIOUS
<1>1. FilesOwned /\ InstallsWhole
  BY PluginInvMeans DEF PagesInv
<1>2. ListShown
  BY ListInvMeans DEF PagesInv, ListShown
<1>3. AvailShown
  BY PluginsInvMeans DEF PagesInv, AvailShown
<1> QED BY <1>1, <1>2, <1>3, LoginInvMeans DEF PagesInv, TableShown, SessionShown

(* Every file that the server gives out belongs to a plugin that is there, *)
(* whoever deletes plugins while install_plugin.sh adds their files, but   *)
(* for the one file that had just found its plugin.                        *)
THEOREM FilesStayOwned == ConsoleSpec => []FilesOwned
<1>1. ConsoleInit => PagesInv
  BY PagesInvInit
<1>2. PagesInv /\ [ConsoleNext]_consoleVars => PagesInv'
  BY PagesInvNext
<1>3. PagesInv => FilesOwned
  BY PagesInvMeans
<1> QED BY <1>1, <1>2, <1>3, PTL DEF ConsoleSpec

(* A plugin whose installation was answered "ok" keeps all of its files    *)
(* until it is deleted, of however many installations are asked for at a   *)
(* time, but for a file that DeleteRepo took.                              *)
THEOREM InstalledWhole == ConsoleSpec => []InstallsWhole
<1>1. ConsoleInit => PagesInv
  BY PagesInvInit
<1>2. PagesInv /\ [ConsoleNext]_consoleVars => PagesInv'
  BY PagesInvNext
<1>3. PagesInv => InstallsWhole
  BY PagesInvMeans
<1> QED BY <1>1, <1>2, <1>3, PTL DEF ConsoleSpec

(* At rest a patient user sees the server's table and the plugins that can *)
(* be installed, although what a request has changed is read by a later    *)
(* one, and a plugin that was installed is spliced out of the list.        *)
THEOREM TablesAreShown == ConsoleSpec => []TableShown
<1>1. ConsoleInit => PagesInv
  BY PagesInvInit
<1>2. PagesInv /\ [ConsoleNext]_consoleVars => PagesInv'
  BY PagesInvNext
<1>3. PagesInv => TableShown
  BY PagesInvMeans
<1> QED BY <1>1, <1>2, <1>3, PTL DEF ConsoleSpec

(* At rest a patient user sees the login page if the server has no         *)
(* session, and otherwise the page of the user whose session it is, with   *)
(* the GUID of it: a session that a login or a logout leaves behind is     *)
(* never in the way of the page.                                           *)
THEOREM SessionsAreShown == ConsoleSpec => []SessionShown
<1>1. ConsoleInit => PagesInv
  BY PagesInvInit
<1>2. PagesInv /\ [ConsoleNext]_consoleVars => PagesInv'
  BY PagesInvNext
<1>3. PagesInv => SessionShown
  BY PagesInvMeans
<1> QED BY <1>1, <1>2, <1>3, PTL DEF ConsoleSpec
=============================================================================
