--------------------------- MODULE Catalog_proofs ---------------------------
(***************************************************************************)
(* Proofs about the catalogue.  CatalogInv says, besides the types and the *)
(* invariants of Catalog, what every call knows from its last look at the  *)
(* database (CallInv) and what is true of every row (RowInv).              *)
(***************************************************************************)
EXTENDS Catalog, TLAPS

Saving(c) == pc[c] \in {"ref1", "ref2", "recheck", "truncate", "write", "probe", "save"}

(* What a handler's position says of what it was asked and will save. *)
ShapeOK(c) ==
    /\ Saving(c) <=> what[c].op \in {"add", "update"}
    /\ pc[c] = "delete" <=> what[c].op = "delete"
    /\ what[c].op # "none" => what[c].table \in Tables
    /\ what[c].op = "none" => what[c].table = None
    /\ Saving(c) => /\ mem[c].key # None /\ mem[c].text # None
                    /\ Hashes(what[c].table) => mem[c].hash # 0
    /\ what[c].op \in {"update", "delete"} => what[c].id \in Ids
    /\ pc[c] \in {"ref1", "ref2"} => what[c].op = "add"
    /\ pc[c] = "recheck" => what[c].op = "update"

(* What it found is so still, if nobody has saved since. *)
FreshOK(c) ==
    c \notin stale =>
      /\ what[c].op = "add" => ~Taken(what[c].table, mem[c].key)
      /\ what[c].op = "update" =>
           /\ Live(what[c].table, what[c].id) =>
                LET d == rows[what[c].table][what[c].id].data
                IN /\ what[c].keySent \/ d.key = mem[c].key
                   /\ what[c].textSent \/ (d.text = mem[c].text /\ d.hash = mem[c].hash)
           /\ Recheck(what[c].table) /\ pc[c] # "recheck" =>
                ~TakenByOther(what[c].table, mem[c].key, what[c].id)

MeansOK(c) ==
    what[c].op \in {"update", "delete"} /\ Soft(what[c].table) =>
      /\ what[c].id \in DOMAIN rows[what[c].table]
      /\ rows[what[c].table][what[c].id].born = what[c].born

(* The rows it refers to were there, once it has looked for them. *)
RefOK(c) ==
    Saving(c) /\ Refs(what[c].table) # <<>> =>
      /\ what[c].op = "add" /\ pc[c] # "ref1" => WasThere(Refs(what[c].table)[1], mem[c].key[1])
      /\ what[c].op = "add" /\ pc[c] \notin {"ref1", "ref2"} =>
           WasThere(Refs(what[c].table)[2], mem[c].key[2])
      /\ what[c].op = "update" /\ ~what[c].edited =>
           \A n \in {1, 2} : WasThere(Refs(what[c].table)[n], mem[c].key[n])

(* The file holds its source, if nobody else wrote to it. *)
ProbeOK(c) ==
    c \notin mixed =>
      /\ pc[c] = "probe" => tmp = mem[c].text
      /\ pc[c] = "save" /\ Probes(what[c].table) => mem[c].typ \in {mem[c].text, "unknown"}

CallInv == \A c \in Calls : ShapeOK(c) /\ FreshOK(c) /\ MeansOK(c) /\ RefOK(c) /\ ProbeOK(c)

RowOK(t, i) ==
    /\ i \in 1 .. births[t]
    /\ Hashes(t) => rows[t][i].data.hash # 0
    /\ Refs(t) # <<>> /\ ~rows[t][i].edited =>
         \A n \in {1, 2} : WasThere(Refs(t)[n], rows[t][i].data.key[n])
    /\ Probes(t) => \/ rows[t][i].data.typ \in {rows[t][i].data.text, "unknown"}
                    \/ rows[t][i].mixed

RowInv == \A t \in Tables : \A i \in DOMAIN rows[t] : RowOK(t, i)

CatalogInv == CatalogTypeOK /\ CallInv /\ RowInv /\ DuplicatesExplained

-----------------------------------------------------------------------------
(* Hashed leaves all columns but one alone, and that one only if it is a   *)
(* hash already.                                                           *)
LEMMA HashedColumns ==
    ASSUME NEW t, NEW d \in Columns
    PROVE  /\ Hashed(t, d) \in Columns
           /\ Hashed(t, d).key = d.key /\ Hashed(t, d).text = d.text
           /\ Hashed(t, d).typ = d.typ
           /\ Hashes(t) => Hashed(t, d).hash # 0
           /\ ~Hashes(t) \/ d.hash # 0 => Hashed(t, d).hash = d.hash
<1>1. CASE Hashes(t) /\ d.hash = 0
  BY <1>1 DEF Hashed, Columns
<1>2. CASE ~(Hashes(t) /\ d.hash = 0)
  BY <1>2 DEF Hashed, Columns
<1> QED BY <1>1, <1>2

(* Putting one row into a table. *)
LEMMA RowSet ==
    ASSUME CatalogTypeOK, NEW t \in Tables, NEW i \in Ids, NEW r \in Rows, SetRow(t, i, r)
    PROVE  /\ DOMAIN rows' = Tables
           /\ DOMAIN rows'[t] = DOMAIN rows[t] \cup {i}
           /\ rows'[t] \in [DOMAIN rows'[t] -> Rows]
           /\ rows'[t][i] = r
           /\ \A j \in DOMAIN rows[t] : j # i => rows'[t][j] = rows[t][j]
           /\ \A u \in Tables : u # t => rows'[u] = rows[u]
           /\ \A u \in Tables : /\ DOMAIN rows'[u] \subseteq Ids
                               /\ rows'[u] \in [DOMAIN rows'[u] -> Rows]
<1>1. rows'[t] = [j \in DOMAIN rows[t] \cup {i} |-> IF j = i THEN r ELSE rows[t][j]]
  BY DEF SetRow, CatalogTypeOK
<1>2. \A u \in Tables : u # t => rows'[u] = rows[u]
  BY DEF SetRow, CatalogTypeOK
<1>3. DOMAIN rows' = Tables
  BY DEF SetRow, CatalogTypeOK
<1>4. rows'[t] \in [DOMAIN rows'[t] -> Rows] /\ DOMAIN rows'[t] \subseteq Ids
  BY <1>1 DEF CatalogTypeOK
<1> QED BY <1>1, <1>2, <1>3, <1>4 DEF CatalogTypeOK

-----------------------------------------------------------------------------
(* A step of c that changes no row: whatever the other calls know stays    *)
(* true, if they are stale after it when they were before.                 *)
Apart(c) ==
    \A d \in Calls \ {c} :
      /\ pc'[d] = pc[d] /\ what'[d] = what[d] /\ mem'[d] = mem[d]
      /\ d \notin stale' => d \notin stale
      /\ d \notin mixed' => d \notin mixed
      /\ pc[d] = "probe" /\ d \notin mixed' => tmp' = tmp

LEMMA OthersKeep ==
    ASSUME CatalogInv, NEW c \in Calls, UNCHANGED <<rows, births>>, Apart(c)
    PROVE  \A d \in Calls \ {c} :
             ShapeOK(d)' /\ FreshOK(d)' /\ MeansOK(d)' /\ RefOK(d)' /\ ProbeOK(d)'
<1> SUFFICES ASSUME NEW d \in Calls, d # c
             PROVE  ShapeOK(d)' /\ FreshOK(d)' /\ MeansOK(d)' /\ RefOK(d)' /\ ProbeOK(d)'
  OBVIOUS
<1>1. ShapeOK(d) /\ FreshOK(d) /\ MeansOK(d) /\ RefOK(d) /\ ProbeOK(d)
  BY DEF CatalogInv, CallInv
<1>2. /\ pc'[d] = pc[d] /\ what'[d] = what[d] /\ mem'[d] = mem[d]
      /\ d \notin stale' => d \notin stale
      /\ d \notin mixed' => d \notin mixed
      /\ pc[d] = "probe" /\ d \notin mixed' => tmp' = tmp
  BY DEF Apart
<1>3. ShapeOK(d)'
  BY <1>1, <1>2 DEF ShapeOK, Saving
<1>4. FreshOK(d)'
  BY <1>1, <1>2 DEF FreshOK, Live, LiveIds, Taken, TakenByOther
<1>5. MeansOK(d)'
  BY <1>1, <1>2 DEF MeansOK
<1>6. RefOK(d)'
  BY <1>1, <1>2 DEF RefOK, Saving, WasThere
<1>7. ProbeOK(d)'
  BY <1>1, <1>2 DEF ProbeOK
<1> QED BY <1>3, <1>4, <1>5, <1>6, <1>7

(* So only what c knows is to be shown. *)
LEMMA QuietStep ==
    ASSUME CatalogInv, NEW c \in Calls, UNCHANGED <<rows, births, excused>>, Apart(c),
           CatalogTypeOK',
           ShapeOK(c)' /\ FreshOK(c)' /\ MeansOK(c)' /\ RefOK(c)' /\ ProbeOK(c)'
    PROVE  CatalogInv'
<1>1. CallInv'
  BY OthersKeep DEF CallInv
<1>2. RowInv'
  BY DEF CatalogInv, RowInv, RowOK, WasThere
<1>3. DuplicatesExplained'
  BY DEF CatalogInv, DuplicatesExplained, LiveIds
<1> QED BY <1>1, <1>2, <1>3 DEF CatalogInv

LEMMA NothingTyped == Nothing \in Questions /\ Blank \in Columns
BY DEF Nothing, Questions, Blank, Columns

LEMMA ReturnKeeps ==
    ASSUME CatalogInv, NEW c \in Calls, Return(c)
    PROVE  CatalogInv'
<1>1. CatalogTypeOK'
  BY NothingTyped DEF CatalogInv, CatalogTypeOK, Return, CallState
<1>2. Apart(c)
  BY DEF Apart, Return, CatalogInv, CatalogTypeOK
<1>3. pc'[c] = "done" /\ what'[c] = Nothing
  BY DEF Return, CatalogInv, CatalogTypeOK
<1>4. ShapeOK(c)' /\ FreshOK(c)' /\ MeansOK(c)' /\ RefOK(c)' /\ ProbeOK(c)'
  BY <1>3 DEF ShapeOK, FreshOK, MeansOK, RefOK, ProbeOK, Saving, Nothing
<1> QED BY <1>1, <1>2, <1>4, QuietStep DEF Return

-----------------------------------------------------------------------------
(* Adding: the steps up to the save.                                       *)
LEMMA AddCheckKeeps ==
    ASSUME CatalogInv, NEW c \in Calls, NEW t \in Tables, NEW k \in KeysOf(t),
           NEW b \in Bodies, AddCheck(c, t, k, b)
    PROVE  CatalogInv'
<1> DEFINE d == [key |-> k, text |-> b, hash |-> 0, typ |-> "none"]
<1>1. d \in Columns
  BY DEF KeysOf, Columns
<1>2. /\ Hashed(t, d) \in Columns /\ Hashed(t, d).key = k /\ Hashed(t, d).text = b
      /\ Hashes(t) => Hashed(t, d).hash # 0
  BY <1>1, HashedColumns
<1> HIDE DEF d
<1>3. /\ pc' = [pc EXCEPT ![c] = IF Refs(t) = <<>> THEN AfterChecks(t) ELSE "ref1"]
      /\ what' = [what EXCEPT ![c] =
                    [op |-> "add", table |-> t, id |-> 0, keySent |-> TRUE,
                     textSent |-> TRUE, born |-> 0, edited |-> FALSE]]
      /\ mem' = [mem EXCEPT ![c] = Hashed(t, d)]
      /\ stale' = stale \ {c} /\ ~Taken(t, k)
      /\ UNCHANGED <<focus, rows, tmp, births, mixed, excused>>
  BY DEF AddCheck, AddBegin, d
<1>4. CatalogTypeOK'
  BY <1>2, <1>3 DEF CatalogInv, CatalogTypeOK, CallState, Questions, AfterChecks
<1>5. Apart(c)
  BY <1>3 DEF Apart, CatalogInv, CatalogTypeOK
<1>6. /\ what'[c].op = "add" /\ what'[c].table = t /\ mem'[c] = Hashed(t, d)
      /\ pc'[c] = IF Refs(t) = <<>> THEN AfterChecks(t) ELSE "ref1"
  BY <1>3 DEF CatalogInv, CatalogTypeOK
<1>7. k # None /\ b # None /\ t # None
  BY CatalogAssumption, Zenon DEF KeysOf
<1>8. ShapeOK(c)'
  BY <1>2, <1>6, <1>7 DEF ShapeOK, Saving, AfterChecks
<1>9. FreshOK(c)'
  BY <1>2, <1>3, <1>6 DEF FreshOK, Taken, LiveIds
<1>10. MeansOK(c)' /\ RefOK(c)' /\ ProbeOK(c)'
  BY <1>6 DEF MeansOK, RefOK, ProbeOK, AfterChecks
<1> QED BY <1>3, <1>4, <1>5, <1>8, <1>9, <1>10, QuietStep

LEMMA RefCheckKeeps ==
    ASSUME CatalogInv, NEW c \in Calls, NEW n \in {1, 2}, RefCheck(c, n)
    PROVE  CatalogInv'
<1>1. /\ pc' = [pc EXCEPT ![c] = AfterRef(c, n)] /\ pc[c] = RefState(n)
      /\ Live(Refs(what[c].table)[n], mem[c].key[n])
      /\ UNCHANGED <<focus, rows, what, mem, tmp, births, stale, mixed, excused>>
  BY DEF RefCheck, Goto, Referred
<1>2. ShapeOK(c) /\ FreshOK(c) /\ MeansOK(c) /\ RefOK(c) /\ ProbeOK(c)
  BY DEF CatalogInv, CallInv
<1>3. CatalogTypeOK'
  BY <1>1 DEF CatalogInv, CatalogTypeOK, CallState, AfterRef, AfterChecks
<1>4. Apart(c)
  BY <1>1 DEF Apart, CatalogInv, CatalogTypeOK
<1>5. pc'[c] = AfterRef(c, n) /\ what[c].op = "add" /\ what[c].table \in Tables
  BY <1>1, <1>2 DEF CatalogInv, CatalogTypeOK, ShapeOK, RefState
<1>6. Refs(what[c].table) # <<>> => WasThere(Refs(what[c].table)[n], mem[c].key[n])
  BY <1>1, <1>5, CatalogAssumption DEF CatalogInv, RowInv, RowOK, Live, WasThere
<1>7. ShapeOK(c)'
  BY <1>1, <1>2, <1>5 DEF ShapeOK, Saving, AfterRef, AfterChecks, RefState
<1>8. FreshOK(c)' /\ MeansOK(c)'
  BY <1>1, <1>2, <1>5 DEF FreshOK, MeansOK, Taken, LiveIds
<1>9. RefOK(c)'
  BY <1>1, <1>2, <1>5, <1>6 DEF RefOK, Saving, AfterRef, AfterChecks, RefState, WasThere
<1>10. ProbeOK(c)'
  BY <1>5, <1>1 DEF ProbeOK, AfterRef, AfterChecks
<1> QED BY <1>1, <1>3, <1>4, <1>7, <1>8, <1>9, <1>10, QuietStep

(* The type of a script.                                                   *)
LEMMA ProbeStepsKeep ==
    ASSUME CatalogInv, NEW c \in Calls,
           Truncate(c) \/ Write(c) \/ Probe(c) \/ ProbeFails(c)
    PROVE  CatalogInv'
<1>1. ShapeOK(c) /\ FreshOK(c) /\ MeansOK(c) /\ RefOK(c) /\ ProbeOK(c)
  BY DEF CatalogInv, CallInv
<1>2. /\ UNCHANGED <<focus, rows, what, births, stale, excused>>
      /\ pc[c] \in {"truncate", "write", "probe"}
      /\ pc' = [pc EXCEPT ![c] = pc'[c]] /\ pc'[c] \in {"write", "probe", "save"}
  BY DEF Truncate, Write, Probe, ProbeFails, CatalogInv, CatalogTypeOK
<1>3. /\ mem' \in [Calls -> Columns]
      /\ \A d \in Calls \ {c} : mem'[d] = mem[d]
      /\ mem'[c].key = mem[c].key /\ mem'[c].text = mem[c].text
      /\ mem'[c].hash = mem[c].hash
  <2>1. CASE Truncate(c) \/ Write(c)
    BY <2>1 DEF Truncate, Write, CatalogInv, CatalogTypeOK
  <2>2. CASE Probe(c) \/ ProbeFails(c)
    <3>1. PICK y \in Bodies \cup {"empty", "unknown"} : SetType(c, y)
      BY <2>2, Zenon DEF Probe, ProbeFails, CatalogInv, CatalogTypeOK
    <3>2. mem[c] \in Columns
      BY DEF CatalogInv, CatalogTypeOK
    <3> DEFINE m == [key |-> mem[c].key, text |-> mem[c].text, hash |-> mem[c].hash, typ |-> y]
    <3>3. m \in Columns
      BY <3>2 DEF Columns
    <3>4. mem' = [mem EXCEPT ![c] = m] /\ mem \in [Calls -> Columns]
      BY <3>1 DEF SetType, CatalogInv, CatalogTypeOK
    <3> QED BY <3>3, <3>4
  <2> QED BY <2>1, <2>2
<1>4. Saving(c) /\ mem[c].text # None
  BY <1>1, <1>2 DEF ShapeOK, Saving
<1>5. tmp' \in Bodies \cup {"empty"} /\ mixed' \subseteq Calls
  BY <1>4 DEF Truncate, Write, Probe, ProbeFails, SetType, Disturb, CatalogInv,
              CatalogTypeOK, Columns
<1>6. CatalogTypeOK'
  BY <1>2, <1>3, <1>5 DEF CatalogInv, CatalogTypeOK, CallState
<1>7. Apart(c)
  BY <1>2, <1>3 DEF Apart, Truncate, Write, Probe, ProbeFails, Disturb, CatalogInv, CatalogTypeOK
<1>8. ShapeOK(c)'
  BY <1>1, <1>2, <1>3 DEF ShapeOK, Saving
<1>9. FreshOK(c)' /\ MeansOK(c)'
  <2>1. CASE what[c].op = "add"
    BY <1>1, <1>2, <1>3, <2>1 DEF FreshOK, MeansOK, Taken, LiveIds
  <2>2. CASE what[c].op # "add"
    <3>1. PICK t, k, i : t = what[c].table /\ k = mem[c].key /\ i = what[c].id
      OBVIOUS
    <3>2. TakenByOther(t, k, i)' = TakenByOther(t, k, i) /\ Live(t, i)' = Live(t, i)
      BY <1>2 DEF TakenByOther, Live, LiveIds
    <3>3. MeansOK(c)'
      BY <1>1, <1>2 DEF MeansOK
    <3>4. CASE c \in stale \/ what[c].op # "update"
      BY <1>2, <2>2, <3>3, <3>4 DEF FreshOK
    <3>5. CASE c \notin stale /\ what[c].op = "update"
      <4>1. /\ Live(t, i) =>
                 /\ what[c].keySent \/ rows[t][i].data.key = k
                 /\ \/ what[c].textSent
                    \/ rows[t][i].data.text = mem[c].text /\ rows[t][i].data.hash = mem[c].hash
            /\ Recheck(t) => ~TakenByOther(t, k, i)
        BY <1>1, <1>2, <3>1, <3>5 DEF FreshOK
      <4>2. /\ what'[c] = what[c] /\ mem'[c].key = k /\ rows' = rows
            /\ mem'[c].text = mem[c].text /\ mem'[c].hash = mem[c].hash
        BY <1>2, <1>3, <3>1
      <4>3. FreshOK(c)'
        BY <2>2, <3>1, <4>1, <4>2 DEF FreshOK, TakenByOther, Live, LiveIds
      <4> QED BY <3>3, <4>3
    <3> QED BY <3>4, <3>5
  <2> QED BY <2>1, <2>2
<1>10. RefOK(c)'
  BY <1>1, <1>2, <1>3 DEF RefOK, Saving, WasThere
<1>11. ProbeOK(c)'
  BY <1>1, <1>2, <1>3 DEF ProbeOK, Truncate, Write, Probe, ProbeFails, SetType, CatalogInv,
                          CatalogTypeOK
<1> QED BY <1>2, <1>6, <1>7, <1>8, <1>9, <1>10, <1>11, QuietStep

-----------------------------------------------------------------------------
(* Updating and deleting: what was found.                                  *)
LEMMA MergeColumns ==
    ASSUME NEW t \in Tables, NEW d \in Columns, d.key # None, d.text # None,
           NEW k \in KeysOf(t) \cup {None}, NEW b \in Bodies \cup {None}
    PROVE  /\ Merge(d, k, b) \in Columns
           /\ Merge(d, k, b).key # None /\ Merge(d, k, b).text # None
           /\ k = None => Merge(d, k, b).key = d.key
           /\ b = None => Merge(d, k, b).text = d.text /\ Merge(d, k, b).hash = d.hash
<1>1. k \in Names \cup (RefIds \X RefIds) \cup {None}
  BY DEF KeysOf
<1>2. /\ (IF k = None THEN d.key ELSE k) \in Names \cup (RefIds \X RefIds) \cup {None}
      /\ (IF b = None THEN d.text ELSE b) \in Bodies \cup {None}
      /\ (IF b = None THEN d.hash ELSE 0) \in Nat
      /\ d.typ \in Bodies \cup {"none", "empty", "unknown"}
  BY <1>1 DEF Columns
<1> QED BY <1>2 DEF Merge, Columns

LEMMA UpdateFindKeeps ==
    ASSUME CatalogInv, NEW c \in Calls, NEW t \in Tables, NEW i \in Ids,
           NEW k \in KeysOf(t) \cup {None}, NEW b \in Bodies \cup {None},
           UpdateFind(c, t, i, k, b)
    PROVE  CatalogInv'
<1> DEFINE d == Merge(rows[t][i].data, k, b)
           ks == k # None
           bs == b # None
           ed == rows[t][i].edited \/ k # None
           q == [op |-> "update", table |-> t, id |-> i, keySent |-> ks,
                 textSent |-> bs, born |-> rows[t][i].born, edited |-> ed]
<1>1. /\ pc' = [pc EXCEPT ![c] = IF Recheck(t) THEN "recheck" ELSE AfterChecks(t)]
      /\ what' = [what EXCEPT ![c] = q]
      /\ mem' = [mem EXCEPT ![c] = Hashed(t, d)]
      /\ stale' = stale \ {c} /\ i \in DOMAIN rows[t]
      /\ UNCHANGED <<focus, rows, tmp, births, mixed, excused>>
  BY DEF UpdateFind, Live
<1>2. rows[t][i] \in Rows /\ RowOK(t, i)
  BY <1>1 DEF CatalogInv, CatalogTypeOK, RowInv
<1>3. /\ rows[t][i].data \in Columns
      /\ rows[t][i].data.key # None /\ rows[t][i].data.text # None
      /\ rows[t][i].born \in Nat /\ rows[t][i].edited \in BOOLEAN
  BY <1>2 DEF Rows
<1>4. /\ d \in Columns /\ d.key # None /\ d.text # None
      /\ k = None => d.key = rows[t][i].data.key
      /\ b = None => d.text = rows[t][i].data.text /\ d.hash = rows[t][i].data.hash
  BY <1>3, MergeColumns
<1> HIDE DEF d
<1>5. /\ Hashed(t, d) \in Columns /\ Hashed(t, d).key = d.key /\ Hashed(t, d).text = d.text
      /\ Hashes(t) => Hashed(t, d).hash # 0
      /\ b = None => Hashed(t, d).hash = rows[t][i].data.hash
  BY <1>2, <1>4, HashedColumns DEF RowOK
<1>6. q \in Questions
  BY <1>3 DEF Questions
<1> DEFINE born == rows[t][i].born
<1>61. /\ q = [op |-> "update", table |-> t, id |-> i, keySent |-> ks,
               textSent |-> bs, born |-> born, edited |-> ed]
       /\ (ks <=> k # None) /\ (bs <=> b # None) /\ (ed <=> rows[t][i].edited \/ k # None)
  OBVIOUS
<1>62. born = rows[t][i].born
  OBVIOUS
<1> HIDE DEF q, ks, bs, ed, born
<1>63. /\ q.op = "update" /\ q.table = t /\ q.id = i /\ q.keySent = ks
       /\ q.textSent = bs /\ q.born = born /\ q.edited = ed
  BY <1>61
<1>7. CatalogTypeOK'
  BY <1>1, <1>5, <1>6 DEF CatalogInv, CatalogTypeOK, CallState, AfterChecks
<1>8. Apart(c)
  BY <1>1 DEF Apart, CatalogInv, CatalogTypeOK
<1>9. /\ what'[c] = q
      /\ mem'[c] = Hashed(t, d)
      /\ pc'[c] = IF Recheck(t) THEN "recheck" ELSE AfterChecks(t)
  BY <1>1 DEF CatalogInv, CatalogTypeOK
<1>10. ShapeOK(c)'
  BY <1>4, <1>5, <1>9, <1>63 DEF ShapeOK, Saving, AfterChecks
<1>11. FreshOK(c)'
  <2>1. /\ what'[c].keySent \/ rows[t][i].data.key = mem'[c].key
        /\ \/ what'[c].textSent
           \/ rows[t][i].data.text = mem'[c].text /\ rows[t][i].data.hash = mem'[c].hash
    BY <1>4, <1>5, <1>9, <1>61, <1>63
  <2>2. Recheck(t) => pc'[c] = "recheck"
    BY <1>9
  <2> QED BY <1>1, <1>9, <1>63, <2>1, <2>2 DEF FreshOK
<1>12. MeansOK(c)'
  BY <1>1, <1>9, <1>63, <1>62 DEF MeansOK
<1>13. RefOK(c)'
  <2>1. ~what'[c].edited => ~rows[t][i].edited /\ mem'[c].key = rows[t][i].data.key
    BY <1>4, <1>5, <1>9, <1>61, <1>63
  <2> QED BY <1>1, <1>2, <1>9, <1>63, <2>1 DEF RefOK, RowOK, WasThere
<1>14. ProbeOK(c)'
  BY <1>9, <1>63 DEF ProbeOK, AfterChecks
<1> QED BY <1>1, <1>7, <1>8, <1>10, <1>11, <1>12, <1>13, <1>14, QuietStep

LEMMA RecheckNameKeeps ==
    ASSUME CatalogInv, NEW c \in Calls, RecheckName(c)
    PROVE  CatalogInv'
<1>1. /\ pc' = [pc EXCEPT ![c] = AfterChecks(what[c].table)] /\ pc[c] = "recheck"
      /\ ~TakenByOther(what[c].table, mem[c].key, what[c].id)
      /\ UNCHANGED <<focus, rows, what, mem, tmp, births, stale, mixed, excused>>
  BY DEF RecheckName, Goto
<1>2. ShapeOK(c) /\ FreshOK(c) /\ MeansOK(c) /\ RefOK(c)
  BY DEF CatalogInv, CallInv
<1>3. CatalogTypeOK'
  BY <1>1 DEF CatalogInv, CatalogTypeOK, CallState, AfterChecks
<1>4. Apart(c)
  BY <1>1 DEF Apart, CatalogInv, CatalogTypeOK
<1>5. pc'[c] = AfterChecks(what[c].table) /\ what[c].op = "update"
  BY <1>1, <1>2 DEF CatalogInv, CatalogTypeOK, ShapeOK
<1>6. ShapeOK(c)'
  BY <1>1, <1>2, <1>5 DEF ShapeOK, Saving, AfterChecks
<1>7. FreshOK(c)' /\ MeansOK(c)'
  BY <1>1, <1>2, <1>5 DEF FreshOK, MeansOK, TakenByOther, Live, LiveIds
<1>8. RefOK(c)'
  BY <1>1, <1>2, <1>5 DEF RefOK, Saving, AfterChecks, WasThere
<1>9. ProbeOK(c)'
  BY <1>5, <1>1 DEF ProbeOK, AfterChecks
<1> QED BY <1>1, <1>3, <1>4, <1>6, <1>7, <1>8, <1>9, QuietStep

LEMMA DeleteFindKeeps ==
    ASSUME CatalogInv, NEW c \in Calls, NEW t \in Tables, NEW i \in Ids, DeleteFind(c, t, i)
    PROVE  CatalogInv'
<1> DEFINE q == [op |-> "delete", table |-> t, id |-> i, keySent |-> FALSE,
                 textSent |-> FALSE, born |-> rows[t][i].born, edited |-> FALSE]
<1>1. /\ pc' = [pc EXCEPT ![c] = "delete"] /\ what' = [what EXCEPT ![c] = q]
      /\ i \in DOMAIN rows[t]
      /\ UNCHANGED <<focus, rows, mem, tmp, births, stale, mixed, excused>>
  BY DEF DeleteFind, Live
<1>2. rows[t][i] \in Rows
  BY <1>1 DEF CatalogInv, CatalogTypeOK
<1>3. q \in Questions
  BY <1>2 DEF Questions, Rows
<1>4. CatalogTypeOK'
  BY <1>1, <1>3 DEF CatalogInv, CatalogTypeOK, CallState
<1>5. Apart(c)
  BY <1>1 DEF Apart, CatalogInv, CatalogTypeOK
<1>6. pc'[c] = "delete" /\ what'[c] = q
  BY <1>1 DEF CatalogInv, CatalogTypeOK
<1>7. ShapeOK(c)' /\ FreshOK(c)' /\ RefOK(c)' /\ ProbeOK(c)'
  BY <1>6 DEF ShapeOK, FreshOK, RefOK, ProbeOK, Saving
<1>8. MeansOK(c)'
  BY <1>1, <1>6 DEF MeansOK
<1> QED BY <1>1, <1>4, <1>5, <1>7, <1>8, QuietStep

-----------------------------------------------------------------------------
(* Saving a row: what the others know of other tables stays, and those who *)
(* looked at this one are stale.                                           *)
SavesRow(c, t, i, r) ==
    /\ SetRow(t, i, r) /\ Saved(c, t)
    /\ i \in DOMAIN rows[t] => r.born = rows[t][i].born
    /\ \A u \in Tables : births[u] \in Nat /\ births'[u] \in Nat /\ births[u] <= births'[u]
    /\ UNCHANGED tmp

LEMMA WasThereStays ==
    ASSUME CatalogInv, NEW c \in Calls, NEW t \in Tables, NEW i \in Ids, NEW r \in Rows,
           SavesRow(c, t, i, r), NEW u \in Tables, NEW j, WasThere(u, j)
    PROVE  WasThere(u, j)'
<1>1. j \in 1 .. births'[u]
  BY DEF WasThere, SavesRow
<1>2. DOMAIN rows[u] \subseteq DOMAIN rows'[u]
  BY RowSet DEF SavesRow, CatalogInv
<1> QED BY <1>1, <1>2 DEF WasThere

LEMMA RefsTyped ==
    ASSUME NEW t \in Tables, Refs(t) # <<>>, NEW n \in {1, 2}
    PROVE  Refs(t)[n] \in Tables
BY CatalogAssumption

LEMMA SaveKeepsCalls ==
    ASSUME CatalogInv, NEW c \in Calls, NEW t \in Tables, NEW i \in Ids, NEW r \in Rows,
           SavesRow(c, t, i, r)
    PROVE  CallInv'
<1> SUFFICES ASSUME NEW d \in Calls
             PROVE  ShapeOK(d)' /\ FreshOK(d)' /\ MeansOK(d)' /\ RefOK(d)' /\ ProbeOK(d)'
  BY DEF CallInv
<1>1. CASE d = c
  <2>1. pc'[c] = "done" /\ what'[c] = Nothing
    BY DEF SavesRow, Saved, CatalogInv, CatalogTypeOK
  <2> QED BY <1>1, <2>1 DEF ShapeOK, FreshOK, MeansOK, RefOK, ProbeOK, Saving, Nothing
<1>2. CASE d # c
  <2>1. ShapeOK(d) /\ FreshOK(d) /\ MeansOK(d) /\ RefOK(d) /\ ProbeOK(d)
    BY DEF CatalogInv, CallInv
  <2>2. /\ pc'[d] = pc[d] /\ what'[d] = what[d] /\ mem'[d] = mem[d] /\ tmp' = tmp
        /\ d \notin stale' => d \notin stale /\ what[d].table # t
        /\ d \notin mixed' => d \notin mixed
    BY <1>2 DEF SavesRow, Saved, CatalogInv, CatalogTypeOK
  <2>3. ShapeOK(d)'
    BY <2>1, <2>2 DEF ShapeOK, Saving
  <2>4. \A u \in Tables : u # t => rows'[u] = rows[u]
    BY RowSet DEF SavesRow, CatalogInv
  <2>5. FreshOK(d)'
    <3> SUFFICES ASSUME d \notin stale', what[d].op \in {"add", "update"} PROVE FreshOK(d)'
      BY <2>2 DEF FreshOK
    <3>1. rows'[what[d].table] = rows[what[d].table]
      BY <2>1, <2>2, <2>4 DEF ShapeOK
    <3>2. CASE what[d].op = "add"
      BY <2>1, <2>2, <3>1, <3>2 DEF FreshOK, Taken, LiveIds
    <3>3. CASE what[d].op = "update"
      BY <2>1, <2>2, <3>1, <3>3 DEF FreshOK, Live, TakenByOther, LiveIds
    <3> QED BY <3>2, <3>3
  <2>6. MeansOK(d)'
    <3> SUFFICES ASSUME what[d].op \in {"update", "delete"}, Soft(what[d].table) PROVE MeansOK(d)'
      BY <2>2 DEF MeansOK
    <3>1. what[d].table \in Tables
      BY <2>1 DEF ShapeOK
    <3>2. /\ what[d].id \in DOMAIN rows[what[d].table]
          /\ rows[what[d].table][what[d].id].born = what[d].born
      BY <2>1 DEF MeansOK
    <3>3. CASE what[d].table = t
      <4>1. what[d].id \in DOMAIN rows'[t] /\ rows'[t][what[d].id].born = what[d].born
        BY <3>2, <3>3, RowSet DEF SavesRow, CatalogInv
      <4> QED BY <2>2, <3>3, <4>1 DEF MeansOK
    <3>4. CASE what[d].table # t
      BY <2>2, <2>4, <3>1, <3>2, <3>4 DEF MeansOK
    <3> QED BY <3>3, <3>4
  <2>7. RefOK(d)'
    <3> SUFFICES ASSUME Saving(d), Refs(what[d].table) # <<>> PROVE RefOK(d)'
      BY <2>2 DEF RefOK, Saving
    <3>1. what[d].table \in Tables
      BY <2>1 DEF ShapeOK
    <3>2. \A n \in {1, 2} : Refs(what[d].table)[n] \in Tables
      BY <3>1, RefsTyped
    <3>3. \A n \in {1, 2} : WasThere(Refs(what[d].table)[n], mem[d].key[n])
                              => WasThere(Refs(what[d].table)[n], mem[d].key[n])'
      BY <3>2, <2>2, WasThereStays
    <3> QED BY <2>1, <2>2, <3>3 DEF RefOK, WasThere, Saving
  <2>8. ProbeOK(d)'
    BY <2>1, <2>2 DEF ProbeOK
  <2> QED BY <2>3, <2>5, <2>6, <2>7, <2>8
<1> QED BY <1>1, <1>2

LEMMA SaveKeepsRows ==
    ASSUME CatalogInv, NEW c \in Calls, NEW t \in Tables, NEW i \in Ids, NEW r \in Rows,
           SavesRow(c, t, i, r), i \in 1 .. births'[t],
           Hashes(t) => r.data.hash # 0,
           Refs(t) # <<>> /\ ~r.edited => \A n \in {1, 2} : WasThere(Refs(t)[n], r.data.key[n]),
           Probes(t) => r.data.typ \in {r.data.text, "unknown"} \/ r.mixed
    PROVE  RowInv'
<1> SUFFICES ASSUME NEW u \in Tables, NEW j \in DOMAIN rows'[u] PROVE RowOK(u, j)'
  BY DEF RowInv
<1>1. CASE u = t /\ j = i
  <2>1. rows'[u][j] = r
    BY <1>1, RowSet DEF SavesRow, CatalogInv
  <2>2. Refs(t) # <<>> /\ ~r.edited => \A n \in {1, 2} : WasThere(Refs(t)[n], r.data.key[n])'
    BY WasThereStays, RefsTyped
  <2> QED BY <1>1, <2>1, <2>2 DEF RowOK, WasThere
<1>2. CASE ~(u = t /\ j = i)
  <2>1. j \in DOMAIN rows[u] /\ rows'[u][j] = rows[u][j]
    BY <1>2, RowSet DEF SavesRow, CatalogInv
  <2>2. RowOK(u, j)
    BY <2>1 DEF CatalogInv, RowInv
  <2>3. Refs(u) # <<>> /\ ~rows[u][j].edited =>
           \A n \in {1, 2} : WasThere(Refs(u)[n], rows[u][j].data.key[n])'
    <3> SUFFICES ASSUME Refs(u) # <<>>, ~rows[u][j].edited, NEW n \in {1, 2}
                 PROVE  WasThere(Refs(u)[n], rows[u][j].data.key[n])'
      BY Zenon
    <3>1. WasThere(Refs(u)[n], rows[u][j].data.key[n]) /\ Refs(u)[n] \in Tables
      BY <2>2, RefsTyped DEF RowOK
    <3>2. \A x : WasThere(Refs(u)[n], x) => WasThere(Refs(u)[n], x)'
      BY <3>1, WasThereStays
    <3> QED BY <2>1, <3>1, <3>2
  <2>4. j \in 1 .. births'[u]
    BY <2>2 DEF RowOK, SavesRow
  <2> QED BY <2>1, <2>2, <2>3, <2>4 DEF RowOK, WasThere
<1> QED BY <1>1, <1>2

(* The saved row has the name of another one only in an excused table.     *)
LEMMA SaveKeepsNames ==
    ASSUME CatalogInv, NEW c \in Calls, NEW t \in Tables, NEW i \in Ids, NEW r \in Rows,
           SavesRow(c, t, i, r), excused \subseteq excused',
           t \notin excused' => \A j \in LiveIds(t) : j # i => rows[t][j].data.key # r.data.key
    PROVE  DuplicatesExplained'
<1> SUFFICES ASSUME NEW u \in Tables \ excused', NEW j \in LiveIds(u)', NEW k \in LiveIds(u)',
                    rows'[u][j].data.key = rows'[u][k].data.key
             PROVE  j = k
  BY DEF DuplicatesExplained
<1>1. \A a, b \in LiveIds(u) : rows[u][a].data.key = rows[u][b].data.key => a = b
  BY DEF CatalogInv, DuplicatesExplained
<1>2. CASE u # t
  BY <1>1, <1>2, RowSet DEF SavesRow, CatalogInv, LiveIds
<1>3. CASE u = t
  <2>1. /\ rows'[t][i] = r
        /\ \A a \in LiveIds(u)' : a # i => a \in LiveIds(t) /\ rows'[t][a] = rows[t][a]
    BY <1>3, RowSet DEF SavesRow, CatalogInv, LiveIds
  <2> QED BY <1>1, <1>3, <2>1
<1> QED BY <1>2, <1>3

LEMMA SaveKeepsTypes ==
    ASSUME CatalogInv, NEW c \in Calls, NEW t \in Tables, NEW i \in Ids, NEW r \in Rows,
           SavesRow(c, t, i, r), births' \in [Tables -> Nat], excused' \subseteq Tables,
           UNCHANGED focus
    PROVE  CatalogTypeOK'
<1>1. /\ DOMAIN rows' = Tables
      /\ \A u \in Tables : DOMAIN rows'[u] \subseteq Ids /\ rows'[u] \in [DOMAIN rows'[u] -> Rows]
  BY RowSet DEF SavesRow, CatalogInv
<1>2. /\ pc' \in [Calls -> CallState] /\ what' \in [Calls -> Questions]
      /\ mem' \in [Calls -> Columns] /\ stale' \subseteq Calls /\ mixed' \subseteq Calls
  BY NothingTyped DEF SavesRow, Saved, CatalogInv, CatalogTypeOK, CallState
<1> QED BY <1>1, <1>2 DEF SavesRow, CatalogInv, CatalogTypeOK

LEMMA AddSaveKeeps ==
    ASSUME CatalogInv, NEW c \in Calls, AddSave(c)
    PROVE  CatalogInv'
<1> DEFINE t == what[c].table
           mx == c \in mixed
           r == [data |-> mem[c], live |-> TRUE, born |-> births[t] + 1,
                 edited |-> FALSE, mixed |-> mx]
<1>1. PICK n \in Ids :
        /\ IsNextId(t, n) /\ SetRow(t, n, r) /\ Saved(c, t)
        /\ births' = [births EXCEPT ![t] = @ + 1]
        /\ excused' = IF c \in stale THEN excused \cup {t} ELSE excused
        /\ pc[c] = "save" /\ what[c].op = "add" /\ UNCHANGED <<focus, tmp>>
  BY DEF AddSave
<1>2. ShapeOK(c) /\ FreshOK(c) /\ RefOK(c) /\ ProbeOK(c)
  BY DEF CatalogInv, CallInv
<1>3. t \in Tables
  BY <1>1, <1>2 DEF ShapeOK
<1>4. mem[c] \in Columns /\ mem[c].key # None /\ mem[c].text # None
  BY <1>1, <1>2 DEF ShapeOK, Saving, CatalogInv, CatalogTypeOK
<1>5. /\ births \in [Tables -> Nat] /\ births' \in [Tables -> Nat]
      /\ births'[t] = births[t] + 1
      /\ \A u \in Tables : births[u] <= births'[u]
  BY <1>1, <1>3 DEF CatalogInv, CatalogTypeOK
<1>6. r \in Rows
  BY <1>3, <1>4, <1>5 DEF Rows
<1>7. /\ r.data = mem[c] /\ r.born = births[t] + 1 /\ ~r.edited
      /\ c \in mixed => r.mixed
  <2>1. r.data = mem[c] /\ r.born = births[t] + 1 /\ ~r.edited /\ r.mixed = mx
    OBVIOUS
  <2> QED BY <2>1, Zenon
<1> HIDE DEF r, mx
<1>8. n \notin DOMAIN rows[t] /\ n \in 1 .. births'[t]
  <2>1. \A j \in DOMAIN rows[t] : j \in Ids /\ j \in 1 .. births[t]
    BY <1>3 DEF CatalogInv, CatalogTypeOK, RowInv, RowOK
  <2> QED BY <1>1, <1>3, <1>5, <2>1 DEF IsNextId, Ids
<1>9. SavesRow(c, t, n, r)
  BY <1>1, <1>5, <1>8 DEF SavesRow
<1>10. CallInv'
  BY <1>3, <1>6, <1>9, SaveKeepsCalls
<1>11. RowInv'
  <2>1. Hashes(t) => r.data.hash # 0
    BY <1>1, <1>2, <1>7 DEF ShapeOK, Saving
  <2>2. Refs(t) # <<>> /\ ~r.edited => \A m \in {1, 2} : WasThere(Refs(t)[m], r.data.key[m])
    BY <1>1, <1>2, <1>7 DEF RefOK, Saving
  <2>3. Probes(t) => r.data.typ \in {r.data.text, "unknown"} \/ r.mixed
    BY <1>1, <1>2, <1>7 DEF ProbeOK
  <2> QED BY <1>3, <1>6, <1>8, <1>9, <2>1, <2>2, <2>3, SaveKeepsRows
<1>12. DuplicatesExplained'
  <2>1. t \notin excused' => \A j \in LiveIds(t) : j # n => rows[t][j].data.key # r.data.key
    BY <1>1, <1>2, <1>7 DEF FreshOK, Taken
  <2> QED BY <1>1, <1>3, <1>6, <1>9, <2>1, SaveKeepsNames
<1>13. CatalogTypeOK'
  <2>1. excused' \subseteq Tables
    BY <1>1, <1>3 DEF CatalogInv, CatalogTypeOK
  <2> QED BY <1>1, <1>3, <1>5, <1>6, <1>9, <2>1, SaveKeepsTypes
<1> QED BY <1>10, <1>11, <1>12, <1>13 DEF CatalogInv

LEMMA UpdateSaveKeeps ==
    ASSUME CatalogInv, NEW c \in Calls, UpdateSave(c)
    PROVE  CatalogInv'
<1> DEFINE t == what[c].table
           i == what[c].id
           ed == what[c].edited
           mx == c \in mixed
           born == rows[t][i].born
           r == [data |-> mem[c], live |-> TRUE, born |-> born, edited |-> ed, mixed |-> mx]
<1>1. pc[c] = "save" /\ what[c].op = "update"
  BY DEF UpdateSave
<1>2. CASE ~Hit(t, i)
  BY <1>2, ReturnKeeps DEF UpdateSave
<1>3. CASE Hit(t, i)
  <2>1. /\ SetRow(t, i, r) /\ Saved(c, t)
        /\ excused' = IF c \in stale \/ (what[c].keySent /\ ~Recheck(t))
                      THEN excused \cup {t} ELSE excused
        /\ UNCHANGED <<focus, tmp, births>>
    BY <1>3 DEF UpdateSave
  <2>2. ShapeOK(c) /\ FreshOK(c) /\ RefOK(c) /\ ProbeOK(c)
    BY DEF CatalogInv, CallInv
  <2>3. t \in Tables /\ i \in Ids /\ Live(t, i)
    BY <1>1, <1>3, <2>2 DEF ShapeOK, Hit
  <2>4. mem[c] \in Columns /\ mem[c].key # None /\ mem[c].text # None
    BY <1>1, <2>2 DEF ShapeOK, Saving, CatalogInv, CatalogTypeOK
  <2>5. births \in [Tables -> Nat] /\ rows[t][i] \in Rows /\ i \in DOMAIN rows[t] /\ RowOK(t, i)
    BY <2>3 DEF CatalogInv, CatalogTypeOK, RowInv, Live
  <2>6. r \in Rows
    <3>1. what[c].edited \in BOOLEAN
      BY DEF CatalogInv, CatalogTypeOK, Questions
    <3> QED BY <2>4, <2>5, <3>1 DEF Rows
  <2>7. /\ r.data = mem[c] /\ r.born = rows[t][i].born /\ r.edited = what[c].edited
        /\ c \in mixed => r.mixed
    <3>1. r.data = mem[c] /\ r.born = born /\ r.edited = ed /\ r.mixed = mx
      OBVIOUS
    <3> QED BY <3>1, Zenon
  <2> HIDE DEF r, mx, ed, born
  <2>8. SavesRow(c, t, i, r)
    BY <2>1, <2>5, <2>7 DEF SavesRow
  <2>9. CallInv'
    BY <2>3, <2>6, <2>8, SaveKeepsCalls
  <2>10. RowInv'
    <3>1. Hashes(t) => r.data.hash # 0
      BY <1>1, <2>2, <2>7 DEF ShapeOK, Saving
    <3>2. Refs(t) # <<>> /\ ~r.edited => \A m \in {1, 2} : WasThere(Refs(t)[m], r.data.key[m])
      BY <1>1, <2>2, <2>7 DEF RefOK, Saving
    <3>3. Probes(t) => r.data.typ \in {r.data.text, "unknown"} \/ r.mixed
      BY <1>1, <2>2, <2>7 DEF ProbeOK
    <3>4. i \in 1 .. births'[t]
      BY <2>1, <2>5 DEF RowOK
    <3> QED BY <2>3, <2>6, <2>8, <3>1, <3>2, <3>3, <3>4, SaveKeepsRows
  <2>11. DuplicatesExplained'
    <3>1. ASSUME t \notin excused', NEW j \in LiveIds(t), j # i
          PROVE  rows[t][j].data.key # r.data.key
      <4>1. c \notin stale /\ t \notin excused /\ (~what[c].keySent \/ Recheck(t))
        BY <2>1, <3>1
      <4>2. CASE Recheck(t)
        BY <1>1, <2>2, <2>7, <3>1, <4>1, <4>2 DEF FreshOK, TakenByOther
      <4>3. CASE ~what[c].keySent
        <5>1. rows[t][i].data.key = r.data.key /\ i \in LiveIds(t)
          BY <1>1, <2>2, <2>3, <2>7, <4>1, <4>3 DEF FreshOK, Live, LiveIds
        <5> QED BY <2>3, <3>1, <4>1, <5>1 DEF CatalogInv, DuplicatesExplained
      <4> QED BY <4>1, <4>2, <4>3
    <3> QED BY <2>1, <2>3, <2>6, <2>8, <3>1, SaveKeepsNames
  <2>12. CatalogTypeOK'
    <3>1. excused' \subseteq Tables /\ births' \in [Tables -> Nat]
      BY <2>1, <2>3, <2>5 DEF CatalogInv, CatalogTypeOK
    <3> QED BY <2>1, <2>3, <2>6, <2>8, <3>1, SaveKeepsTypes
  <2> QED BY <2>9, <2>10, <2>11, <2>12 DEF CatalogInv
<1> QED BY <1>2, <1>3

-----------------------------------------------------------------------------
(* Deleting.  A row is marked, or taken out of a table in which ids may be *)
(* given to another row.                                                   *)
Drops(t, i) ==
    /\ \A u \in Tables :
         /\ Soft(u) => DOMAIN rows'[u] = DOMAIN rows[u]
         /\ DOMAIN rows'[u] \subseteq DOMAIN rows[u]
         /\ \A j \in DOMAIN rows'[u] :
              \/ rows'[u][j] = rows[u][j]
              \/ u = t /\ j = i /\ Live(t, i) /\ rows'[u][j] = Marked(rows[u][j])
    /\ DOMAIN rows' = Tables
    /\ \A u \in Tables : rows'[u] \in [DOMAIN rows'[u] -> Rows]

LEMMA MarkedTyped ==
    ASSUME NEW r \in Rows
    PROVE  /\ Marked(r) \in Rows /\ ~Marked(r).live /\ Marked(r).data = r.data
           /\ Marked(r).born = r.born
           /\ Marked(r).edited = r.edited /\ Marked(r).mixed = r.mixed
BY DEF Marked, Rows

LEMMA DeleteDrops ==
    ASSUME CatalogInv, NEW c \in Calls, DeleteRow(c)
    PROVE  Drops(what[c].table, what[c].id) /\ what[c].table \in Tables
<1> DEFINE t == what[c].table
           i == what[c].id
<1>1. t \in Tables /\ i \in Ids
  BY DEF DeleteRow, CatalogInv, CallInv, ShapeOK
<1>2. \A u \in Tables : rows[u] \in [DOMAIN rows[u] -> Rows]
  BY DEF CatalogInv, CatalogTypeOK
<1>3. DOMAIN rows = Tables
  BY DEF CatalogInv, CatalogTypeOK
<1>4. CASE ~Live(t, i)
  <2>1. rows' = rows
    BY <1>4 DEF DeleteRow
  <2> QED BY <1>1, <1>2, <1>3, <2>1 DEF Drops
<1>5. CASE Live(t, i) /\ Soft(t)
  <2> DEFINE r == Marked(rows[t][i])
  <2>1. SetRow(t, i, r) /\ i \in DOMAIN rows[t]
    BY <1>5 DEF DeleteRow, Live
  <2>2. r \in Rows
    BY <1>1, <1>2, <2>1, MarkedTyped
  <2>11. DOMAIN rows[t] \cup {i} = DOMAIN rows[t]
    BY <2>1
  <2> HIDE DEF r
  <2>12. /\ DOMAIN rows' = Tables
         /\ DOMAIN rows'[t] = DOMAIN rows[t] \cup {i}
         /\ rows'[t][i] = r
         /\ \A j \in DOMAIN rows[t] : j # i => rows'[t][j] = rows[t][j]
         /\ \A u \in Tables : u # t => rows'[u] = rows[u]
         /\ \A u \in Tables : rows'[u] \in [DOMAIN rows'[u] -> Rows]
    <3> HIDE DEF t, i
    <3> QED BY <1>1, <2>1, <2>2, RowSet DEF CatalogInv
  <2>3. DOMAIN rows'[t] = DOMAIN rows[t]
    BY <2>11, <2>12
  <2>4. r = Marked(rows[t][i])
    BY DEF r
  <2> QED BY <1>1, <1>5, <2>12, <2>3, <2>4 DEF Drops
<1>6. CASE Live(t, i) /\ ~Soft(t)
  <2> DEFINE f == [j \in DOMAIN rows[t] \ {i} |-> rows[t][j]]
  <2>1. rows' = [rows EXCEPT ![t] = f]
    BY <1>6 DEF DeleteRow
  <2>2. f \in [DOMAIN f -> Rows] /\ DOMAIN f = DOMAIN rows[t] \ {i}
        /\ \A j \in DOMAIN f : f[j] = rows[t][j]
    BY <1>1, <1>2
  <2> HIDE DEF f
  <2>3. /\ DOMAIN rows' = Tables /\ rows'[t] = f
        /\ \A u \in Tables : u # t => rows'[u] = rows[u]
    BY <1>1, <1>3, <2>1
  <2> QED BY <1>1, <1>2, <1>6, <2>2, <2>3 DEF Drops
<1> QED BY <1>1, <1>4, <1>5, <1>6

LEMMA DeleteRowKeeps ==
    ASSUME CatalogInv, NEW c \in Calls, DeleteRow(c)
    PROVE  CatalogInv'
<1> DEFINE t == what[c].table
           i == what[c].id
<1>1. t \in Tables /\ Drops(t, i)
  BY DeleteDrops
<1>2. /\ pc' = [pc EXCEPT ![c] = "done"] /\ what' = [what EXCEPT ![c] = Nothing]
      /\ stale' = stale \ {c} /\ UNCHANGED <<focus, mem, tmp, births, mixed, excused>>
  BY DEF DeleteRow
<1>3. \A u \in Tables : \A j : j \in DOMAIN rows'[u] =>
        /\ j \in DOMAIN rows[u] /\ rows'[u][j].data = rows[u][j].data
        /\ rows'[u][j].born = rows[u][j].born /\ rows'[u][j].edited = rows[u][j].edited
        /\ rows'[u][j].mixed = rows[u][j].mixed
        /\ rows'[u][j].live => rows[u][j].live
  <2> SUFFICES ASSUME NEW u \in Tables, NEW j \in DOMAIN rows'[u]
               PROVE /\ j \in DOMAIN rows[u] /\ rows'[u][j].data = rows[u][j].data
                     /\ rows'[u][j].born = rows[u][j].born /\ rows'[u][j].edited = rows[u][j].edited
                     /\ rows'[u][j].mixed = rows[u][j].mixed
                     /\ rows'[u][j].live => rows[u][j].live
    OBVIOUS
  <2>1. j \in DOMAIN rows[u]
    BY <1>1 DEF Drops
  <2>2. rows[u][j] \in Rows
    BY <2>1 DEF CatalogInv, CatalogTypeOK
  <2>3. rows'[u][j] = rows[u][j] \/ rows'[u][j] = Marked(rows[u][j])
    BY <1>1 DEF Drops
  <2> QED BY <2>1, <2>2, <2>3, MarkedTyped
<1>4. \A u \in Tables : Soft(u) => DOMAIN rows'[u] = DOMAIN rows[u]
  BY <1>1 DEF Drops
<1>5. \A u \in Tables : \A j : WasThere(u, j)' <=> WasThere(u, j)
  BY <1>2, <1>4 DEF WasThere
<1>6. CatalogTypeOK'
  <2>1. /\ DOMAIN rows' = Tables
        /\ \A u \in Tables : DOMAIN rows'[u] \subseteq Ids /\ rows'[u] \in [DOMAIN rows'[u] -> Rows]
    BY <1>1 DEF Drops, CatalogInv, CatalogTypeOK
  <2> QED BY <1>2, <2>1, NothingTyped DEF CatalogInv, CatalogTypeOK, CallState
<1>7. DuplicatesExplained'
  BY <1>2, <1>3 DEF CatalogInv, DuplicatesExplained, LiveIds
<1>8. RowInv'
  <2> SUFFICES ASSUME NEW u \in Tables, NEW j \in DOMAIN rows'[u] PROVE RowOK(u, j)'
    BY DEF RowInv
  <2>1. RowOK(u, j)
    BY <1>3 DEF CatalogInv, RowInv
  <2>2. Refs(u) # <<>> /\ ~rows'[u][j].edited =>
          \A n \in {1, 2} : WasThere(Refs(u)[n], rows[u][j].data.key[n]) /\ Refs(u)[n] \in Tables
    BY <1>3, <2>1, RefsTyped DEF RowOK
  <2>3. Refs(u) # <<>> => \A n \in {1, 2} : Refs(u)[n] \in Tables
    BY RefsTyped
  <2>4. Refs(u) # <<>> /\ ~rows'[u][j].edited =>
          \A n \in {1, 2} : WasThere(Refs(u)[n], rows[u][j].data.key[n])'
    BY <1>3, <1>5, <2>2, <2>3
  <2> QED BY <1>2, <1>3, <2>1, <2>4 DEF RowOK
<1>9. CallInv'
  <2> SUFFICES ASSUME NEW d \in Calls
               PROVE  ShapeOK(d)' /\ FreshOK(d)' /\ MeansOK(d)' /\ RefOK(d)' /\ ProbeOK(d)'
    BY DEF CallInv
  <2>1. ShapeOK(d) /\ FreshOK(d) /\ MeansOK(d) /\ RefOK(d) /\ ProbeOK(d)
    BY DEF CatalogInv, CallInv
  <2>2. CASE d = c
    <3>1. pc'[c] = "done" /\ what'[c] = Nothing
      BY <1>2 DEF CatalogInv, CatalogTypeOK
    <3> QED BY <2>2, <3>1 DEF ShapeOK, FreshOK, MeansOK, RefOK, ProbeOK, Saving, Nothing
  <2>3. CASE d # c
    <3>1. /\ pc'[d] = pc[d] /\ what'[d] = what[d] /\ mem'[d] = mem[d] /\ tmp' = tmp
          /\ d \notin stale' => d \notin stale
          /\ mixed' = mixed
      BY <1>2, <2>3 DEF CatalogInv, CatalogTypeOK
    <3>2. ShapeOK(d)'
      BY <2>1, <3>1 DEF ShapeOK, Saving
    <3>3. FreshOK(d)'
      <4> SUFFICES ASSUME d \notin stale', what[d].op \in {"add", "update"} PROVE FreshOK(d)'
        BY <3>1 DEF FreshOK
      <4>1. PICK u, k, j : u \in Tables /\ u = what[d].table /\ k = mem[d].key /\ j = what[d].id
        BY <2>1 DEF ShapeOK
      <4>2. Taken(u, k)' => Taken(u, k)
        BY <1>3, <4>1 DEF Taken, LiveIds
      <4>3. TakenByOther(u, k, j)' => TakenByOther(u, k, j)
        BY <1>3, <4>1 DEF TakenByOther, LiveIds
      <4>4. Live(u, j)' => Live(u, j) /\ rows'[u][j].data = rows[u][j].data
        BY <1>3, <4>1 DEF Live
      <4>5. what'[d].table = u /\ mem'[d].key = k /\ what'[d].id = j
        BY <3>1, <4>1
      <4>6. CASE what[d].op = "add"
        BY <2>1, <3>1, <4>1, <4>2, <4>5, <4>6 DEF FreshOK, Taken, LiveIds
      <4>7. CASE what[d].op = "update"
        BY <2>1, <3>1, <4>1, <4>3, <4>4, <4>5, <4>7 DEF FreshOK, TakenByOther, Live, LiveIds
      <4> QED BY <4>6, <4>7
    <3>4. MeansOK(d)'
      BY <1>3, <1>4, <2>1, <3>1 DEF MeansOK, ShapeOK
    <3>5. RefOK(d)'
      <4> SUFFICES ASSUME Saving(d), Refs(what[d].table) # <<>> PROVE RefOK(d)'
        BY <3>1 DEF RefOK, Saving
      <4>1. \A n \in {1, 2} : Refs(what[d].table)[n] \in Tables
        BY <2>1, RefsTyped DEF ShapeOK
      <4>2. \A n \in {1, 2} : WasThere(Refs(what[d].table)[n], mem[d].key[n])
                                => WasThere(Refs(what[d].table)[n], mem[d].key[n])'
        BY <1>5, <3>1, <4>1
      <4> QED BY <2>1, <3>1, <4>2 DEF RefOK, WasThere, Saving
    <3>6. ProbeOK(d)'
      BY <2>1, <3>1 DEF ProbeOK
    <3> QED BY <3>2, <3>3, <3>4, <3>5, <3>6
  <2> QED BY <2>2, <2>3
<1> QED BY <1>6, <1>7, <1>8, <1>9 DEF CatalogInv

-----------------------------------------------------------------------------
LEMMA InitHolds == CatalogInit => CatalogInv
<1> SUFFICES ASSUME CatalogInit PROVE CatalogInv
  OBVIOUS
<1>1. PICK k \in Names, b \in Bodies, full \in SUBSET {t \in focus : Refs(t) = <<>>} :
        /\ rows = [t \in Tables |-> IF t \in full THEN [i \in {1} |-> FirstRow(t, k, b)]
                                              ELSE NoRows]
        /\ births = [t \in Tables |-> IF t \in full THEN 1 ELSE 0]
  BY DEF CatalogInit
<1>2. k # None /\ b # None /\ 1 \in Ids
  BY CatalogAssumption DEF Ids
<1>3. ASSUME NEW t \in Tables
      PROVE  /\ FirstRow(t, k, b) \in Rows
             /\ FirstRow(t, k, b).data.text = b
             /\ Probes(t) => FirstRow(t, k, b).data.typ = b
             /\ Hashes(t) => FirstRow(t, k, b).data.hash # 0
  <2>1. /\ (IF Hashes(t) THEN 1 ELSE 0) \in Nat
        /\ (IF Probes(t) THEN b ELSE "none") \in Bodies \cup {"none"}
    OBVIOUS
  <2> QED BY <1>2, <2>1 DEF FirstRow, Rows, Columns
<1>4. ASSUME NEW t \in Tables
      PROVE  \/ /\ Refs(t) = <<>> /\ births[t] = 1
                /\ DOMAIN rows[t] = {1} /\ rows[t][1] = FirstRow(t, k, b)
                /\ rows[t] \in [{1} -> Rows]
             \/ births[t] = 0 /\ rows[t] = NoRows
  BY <1>1, <1>3
<1>5. DOMAIN NoRows = {} /\ NoRows \in [{} -> Rows]
  BY DEF NoRows
<1>6. CatalogTypeOK
  <2>1. /\ DOMAIN rows = Tables /\ births \in [Tables -> Nat]
        /\ \A t \in Tables : DOMAIN rows[t] \subseteq Ids /\ rows[t] \in [DOMAIN rows[t] -> Rows]
    BY <1>1, <1>2, <1>4, <1>5
  <2> QED BY <2>1, NothingTyped DEF CatalogInit, CatalogTypeOK, CallState
<1>7. CallInv
  BY DEF CatalogInit, CallInv, ShapeOK, FreshOK, MeansOK, RefOK, ProbeOK, Saving, Nothing
<1>8. RowInv
  BY <1>3, <1>4, <1>5 DEF RowInv, RowOK
<1>9. DuplicatesExplained
  BY <1>4, <1>5 DEF DuplicatesExplained, LiveIds
<1> QED BY <1>6, <1>7, <1>8, <1>9 DEF CatalogInv

(* What a call can do, by its first step or a later one. *)
First(c) ==
    \E t \in focus :
      \/ \E k \in KeysOf(t), b \in Bodies : AddCheck(c, t, k, b)
      \/ \E k \in KeysOf(t) : AddExists(c, t, k)
      \/ \E i \in Ids, k \in KeysOf(t) \cup {None}, b \in Bodies \cup {None} :
           UpdateFind(c, t, i, k, b)
      \/ \E i \in Ids : NotFound(c, t, i) \/ DeleteFind(c, t, i)

Later(c) ==
    \/ \E n \in {1, 2} : RefCheck(c, n) \/ RefMissing(c, n)
    \/ RecheckName(c) \/ RecheckExists(c)
    \/ Truncate(c) \/ Write(c) \/ Probe(c) \/ ProbeFails(c)

Changes(c) == AddSave(c) \/ UpdateSave(c) \/ DeleteRow(c)

LEMMA NextSplit ==
    ASSUME CatalogNext
    PROVE  \E c \in Calls : First(c) \/ Later(c) \/ Changes(c)
BY DEF CatalogNext, First, Later, Changes

LEMMA NextKeeps == CatalogInv /\ [CatalogNext]_catalogVars => CatalogInv'
<1> SUFFICES ASSUME CatalogInv, [CatalogNext]_catalogVars PROVE CatalogInv'
  OBVIOUS
<1>1. CASE UNCHANGED catalogVars
  <2> USE <1>1 DEF catalogVars, CatalogInv
  <2>1. CatalogTypeOK' /\ DuplicatesExplained'
    BY DEF CatalogTypeOK, DuplicatesExplained, LiveIds
  <2>2. RowInv'
    BY DEF RowInv, RowOK, WasThere
  <2>3. ASSUME NEW c \in Calls PROVE ShapeOK(c)' /\ MeansOK(c)' /\ ProbeOK(c)'
    BY DEF CallInv, ShapeOK, MeansOK, ProbeOK, Saving
  <2>4. ASSUME NEW c \in Calls PROVE RefOK(c)'
    BY DEF CallInv, RefOK, Saving, WasThere
  <2>5. ASSUME NEW c \in Calls PROVE FreshOK(c)'
    BY DEF CallInv, FreshOK, Taken, TakenByOther, LiveIds, Live
  <2> QED BY <2>1, <2>2, <2>3, <2>4, <2>5 DEF CallInv
<1>2. CASE CatalogNext
  <2>1. PICK c \in Calls : First(c) \/ Later(c) \/ Changes(c)
    BY <1>2, NextSplit
  <2>2. CASE First(c)
    <3>1. PICK t \in focus :
            \/ \E k \in KeysOf(t), b \in Bodies : AddCheck(c, t, k, b)
            \/ \E k \in KeysOf(t) : AddExists(c, t, k)
            \/ \E i \in Ids, k \in KeysOf(t) \cup {None}, b \in Bodies \cup {None} :
                 UpdateFind(c, t, i, k, b)
            \/ \E i \in Ids : NotFound(c, t, i) \/ DeleteFind(c, t, i)
      BY <2>2 DEF First
    <3>2. t \in Tables
      BY CatalogAssumption DEF CatalogInv, CatalogTypeOK
    <3>3. CASE \E k \in KeysOf(t), b \in Bodies : AddCheck(c, t, k, b)
      BY <3>2, <3>3, AddCheckKeeps
    <3>4. CASE \E k \in KeysOf(t) : AddExists(c, t, k)
      BY <3>4, ReturnKeeps DEF AddExists
    <3>5. CASE \E i \in Ids, k \in KeysOf(t) \cup {None}, b \in Bodies \cup {None} :
                 UpdateFind(c, t, i, k, b)
      BY <3>2, <3>5, UpdateFindKeeps
    <3>6. CASE \E i \in Ids : NotFound(c, t, i) \/ DeleteFind(c, t, i)
      BY <3>2, <3>6, ReturnKeeps, DeleteFindKeeps DEF NotFound
    <3> QED BY <3>1, <3>3, <3>4, <3>5, <3>6
  <2>3. CASE Later(c)
    BY <2>3, RefCheckKeeps, ReturnKeeps, RecheckNameKeeps, ProbeStepsKeep
       DEF Later, RefMissing, RecheckExists
  <2>4. CASE Changes(c)
    BY <2>4, AddSaveKeeps, UpdateSaveKeeps, DeleteRowKeeps DEF Changes
  <2> QED BY <2>1, <2>2, <2>3, <2>4
<1> QED BY <1>1, <1>2

-----------------------------------------------------------------------------
(* CatalogInv holds in every reachable state: rows are typed, and what a   *)
(* handler goes by after its look-up is what it found, or it is stale.     *)
THEOREM CatalogInvariance == CatalogSpec => []CatalogInv
BY InitHolds, NextKeeps, PTL DEF CatalogSpec

(* Two live rows have one name only after a race, or after a rename that   *)
(* was not checked.                                                        *)
THEOREM DuplicatesAreExplained == CatalogSpec => []DuplicatesExplained
<1>1. CatalogInv => DuplicatesExplained
  BY DEF CatalogInv
<1> QED BY <1>1, CatalogInvariance, PTL

(* The type of a script is its own, unless the shared file was written to  *)
(* by another call.                                                        *)
THEOREM TypesAreExplained == CatalogSpec => []TypesExplained
<1>1. CatalogInv => TypesExplained
  BY DEF CatalogInv, RowInv, RowOK, TypesExplained, LiveIds
<1> QED BY <1>1, CatalogInvariance, PTL

(* A map that was added refers to rows that were there. *)
THEOREM RefsAreReal == CatalogSpec => []RefsWereReal
<1>1. CatalogInv => RefsWereReal
  BY DEF CatalogInv, RowInv, RowOK, RefsWereReal, LiveIds
<1> QED BY <1>1, CatalogInvariance, PTL

(* With soft deletion, an id never comes to mean another row. *)
THEOREM CallsMeanTheirRow == CatalogSpec => []MeansItsRow
<1>1. CatalogInv => MeansItsRow
  BY DEF CatalogInv, CallInv, MeansOK, MeansItsRow
<1> QED BY <1>1, CatalogInvariance, PTL

-----------------------------------------------------------------------------
(* A first step touches no row, and moves the handler that makes it only.  *)
LEMMA FirstMoves ==
    ASSUME NEW c \in Calls, First(c)
    PROVE  rows' = rows /\ \E s : pc' = [pc EXCEPT ![c] = s]
<1>1. PICK t \in focus :
        \/ \E k \in KeysOf(t), b \in Bodies : AddCheck(c, t, k, b)
        \/ \E k \in KeysOf(t) : AddExists(c, t, k)
        \/ \E i \in Ids, k \in KeysOf(t) \cup {None}, b \in Bodies \cup {None} :
             UpdateFind(c, t, i, k, b)
        \/ \E i \in Ids : NotFound(c, t, i) \/ DeleteFind(c, t, i)
  BY DEF First
<1>2. CASE \E k \in KeysOf(t), b \in Bodies : AddCheck(c, t, k, b)
  BY <1>2 DEF AddCheck, AddBegin
<1>3. CASE \E k \in KeysOf(t) : AddExists(c, t, k)
  BY <1>3 DEF AddExists, Return
<1>4. CASE \E i \in Ids, k \in KeysOf(t) \cup {None}, b \in Bodies \cup {None} :
             UpdateFind(c, t, i, k, b)
  BY <1>4 DEF UpdateFind
<1>5. CASE \E i \in Ids : NotFound(c, t, i) \/ DeleteFind(c, t, i)
  BY <1>5 DEF NotFound, DeleteFind, Return
<1> QED BY <1>1, <1>2, <1>3, <1>4, <1>5

(* Only Changes touches a row. *)
LEMMA OthersLeaveRows ==
    ASSUME NEW c \in Calls, First(c) \/ Later(c)
    PROVE  rows' = rows
<1>1. CASE First(c)
  BY <1>1, FirstMoves
<1>2. CASE Later(c)
  BY <1>2 DEF Later, RefCheck, RefMissing, RecheckName, RecheckExists, Truncate, Write, Probe,
     ProbeFails, Return, Goto
<1> QED BY <1>1, <1>2

(* What SetRow does to the rows of other ids, whatever is set. *)
LEMMA SetRowLeaves ==
    ASSUME CatalogInv, NEW t \in Tables, NEW i, NEW r, SetRow(t, i, r),
           NEW u \in Tables, NEW j \in DOMAIN rows[u], u # t \/ j # i
    PROVE  j \in DOMAIN rows'[u] /\ rows'[u][j] = rows[u][j]
BY DEF SetRow, CatalogInv, CatalogTypeOK

LEMMA DeletedKept ==
    ASSUME CatalogInv, NEW c \in Calls, Changes(c), NEW t \in Tables, Soft(t),
           NEW i \in DOMAIN rows[t], ~rows[t][i].live
    PROVE  i \in DOMAIN rows'[t] /\ rows'[t][i] = rows[t][i]
<1>1. ~Live(t, i)
  BY DEF Live
<1>2. CASE AddSave(c)
  <2>1. what[c].table \in Tables
    BY <1>2 DEF AddSave, CatalogInv, CallInv, ShapeOK
  <2>2. PICK n, r : n \in Ids /\ SetRow(what[c].table, n, r) /\ IsNextId(what[c].table, n)
    BY <1>2 DEF AddSave
  <2>3. i \in Nat /\ (what[c].table = t => i < n) /\ n \in Nat
    BY <2>2 DEF IsNextId, CatalogInv, CatalogTypeOK, Ids
  <2> QED BY <2>1, <2>2, <2>3, SetRowLeaves
<1>3. CASE UpdateSave(c)
  <2>1. what[c].table \in Tables
    BY <1>3 DEF UpdateSave, CatalogInv, CallInv, ShapeOK
  <2>2. CASE Hit(what[c].table, what[c].id)
    <3>1. \E r : SetRow(what[c].table, what[c].id, r)
      BY <1>3, <2>2 DEF UpdateSave
    <3> QED BY <1>1, <2>1, <2>2, <3>1, SetRowLeaves DEF Hit
  <2>3. CASE ~Hit(what[c].table, what[c].id)
    BY <1>3, <2>3 DEF UpdateSave, Return
  <2> QED BY <2>2, <2>3
<1>4. CASE DeleteRow(c)
  BY <1>1, <1>4, DeleteDrops DEF Drops
<1> QED BY <1>2, <1>3, <1>4 DEF Changes

(* A row marked as deleted is never touched again. *)
THEOREM DeletedRowsStay == CatalogSpec => DeletedStays
<1>1. CatalogInv /\ [CatalogNext]_catalogVars =>
        [\A t \in Tables : Soft(t) =>
           \A i \in DOMAIN rows[t] : ~rows[t][i].live =>
             i \in DOMAIN rows'[t] /\ rows'[t][i] = rows[t][i]]_rows
  <2> SUFFICES ASSUME CatalogInv, CatalogNext, NEW t \in Tables, Soft(t),
                      NEW i \in DOMAIN rows[t], ~rows[t][i].live
               PROVE  i \in DOMAIN rows'[t] /\ rows'[t][i] = rows[t][i]
    BY DEF catalogVars
  <2>1. PICK c \in Calls : First(c) \/ Later(c) \/ Changes(c)
    BY NextSplit
  <2> QED BY <2>1, OthersLeaveRows, DeletedKept
<1> QED BY <1>1, CatalogInvariance, PTL DEF CatalogSpec, DeletedStays

(* A step moves the handler that makes it only. *)
LEMMA OneMoves ==
    ASSUME CatalogInv, NEW c \in Calls, First(c) \/ Later(c) \/ Changes(c), NEW d \in Calls, d # c
    PROVE  pc'[d] = pc[d]
<1> USE DEF CatalogInv, CatalogTypeOK
<1>1. CASE First(c)
  BY <1>1, FirstMoves
<1>2. CASE Later(c)
  BY <1>2 DEF Later, RefCheck, RefMissing, RecheckName, RecheckExists, Truncate, Write, Probe,
     ProbeFails, Return, Goto
<1>3. CASE Changes(c)
  BY <1>3 DEF Changes, AddSave, UpdateSave, DeleteRow, Return, Saved
<1> QED BY <1>1, <1>2, <1>3

(* An Update that nobody got ahead of changes only what was sent. *)
THEOREM FreshSavesAreExact == CatalogSpec => FreshSavesKeep
<1>1. CatalogInv /\ [CatalogNext]_catalogVars =>
        [\A c \in Calls :
           (what[c].op = "update" /\ pc[c] = "save" /\ pc'[c] = "done" /\ c \notin stale) =>
             LET t == what[c].table
                 i == what[c].id
             IN Live(t, i) =>
                  /\ what[c].keySent \/ rows'[t][i].data.key = rows[t][i].data.key
                  /\ \/ what[c].textSent
                     \/ /\ rows'[t][i].data.text = rows[t][i].data.text
                        /\ rows'[t][i].data.hash = rows[t][i].data.hash]_catalogVars
  <2> SUFFICES ASSUME CatalogInv, CatalogNext, NEW c \in Calls, what[c].op = "update",
                      pc[c] = "save", pc'[c] = "done", c \notin stale,
                      Live(what[c].table, what[c].id)
               PROVE  LET t == what[c].table
                          i == what[c].id
                      IN /\ what[c].keySent \/ rows'[t][i].data.key = rows[t][i].data.key
                         /\ \/ what[c].textSent
                            \/ /\ rows'[t][i].data.text = rows[t][i].data.text
                               /\ rows'[t][i].data.hash = rows[t][i].data.hash
    OBVIOUS
  <2>1. PICK d \in Calls : First(d) \/ Later(d) \/ Changes(d)
    BY NextSplit
  <2>2. d = c
    BY <2>1, OneMoves
  <2>3. UpdateSave(c)
    BY <2>1, <2>2 DEF First, Later, Changes, AddCheck, AddExists, UpdateFind, NotFound, DeleteFind,
       RefCheck, RefMissing, RefState, RecheckName, RecheckExists, Truncate, Write, Probe,
       ProbeFails, AddSave, DeleteRow
  <2>4. what[c].table \in Tables
    BY DEF CatalogInv, CallInv, ShapeOK
  <2>5. PICK r : SetRow(what[c].table, what[c].id, r) /\ r.data = mem[c]
    <3>1. SetRow(what[c].table, what[c].id,
                 [data |-> mem[c], live |-> TRUE, born |-> rows[what[c].table][what[c].id].born,
                  edited |-> what[c].edited, mixed |-> c \in mixed])
      BY <2>3 DEF UpdateSave, Hit
    <3> QED BY <3>1
  <2>6. rows'[what[c].table][what[c].id].data = mem[c]
    BY <2>4, <2>5 DEF SetRow, CatalogInv, CatalogTypeOK
  <2> QED BY <2>6 DEF CatalogInv, CallInv, FreshOK
<1> QED BY <1>1, CatalogInvariance, PTL DEF CatalogSpec, FreshSavesKeep

(* Rows and handlers keep to their types: no merge saves a column that is  *)
(* none.                                                                   *)
THEOREM CatalogTypes == CatalogSpec => []CatalogTypeOK
<1>1. CatalogInv => CatalogTypeOK
  BY DEF CatalogInv
<1> QED BY <1>1, CatalogInvariance, PTL
=============================================================================
