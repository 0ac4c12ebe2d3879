------------------------------ MODULE Catalog ------------------------------
(***************************************************************************)
(* The tables an administrator keeps: data centres, environments,          *)
(* capabilities, workers, users, scripts and so on.  Each table has an     *)
(* Add, an Update and a Delete handler.  The handlers are copies of one    *)
(* another: Schema has what is different about those of a table.           *)
(*                                                                         *)
(* An action is one critical section of the global mutex, or one access to *)
(* the file with which the type of a script is found out.  A handler looks *)
(* in one critical section and saves in a later one.                       *)
(***************************************************************************)
EXTENDS Integers

CONSTANTS
    Calls,   \* the requests; each is one call of a handler
    Tables,  \* the tables of this instance, a subset of DOMAIN Schema
    Groups,  \* sets of tables; the calls of a behaviour are to one of them
    Names,   \* what a row is known by: a name, a code, a pair of ids
    Bodies,  \* its other columns
    MaxId,   \* a bound on the ids of rows
    RefIds,  \* the ids a payload may refer to
    None

Ids == 1 .. MaxId

(* A table has soft deletion if its struct has DeletedAt.  refs: the       *)
(* tables AddXxx looks its ids up in;  recheck: UpdateXxx looks for the    *)
(* name as well;  probes: file(1) tells the column Type;  hashes: Passhash *)
(* is hashed unless it is a hash.                                          *)
Plain   == [soft |-> TRUE, refs |-> <<>>, recheck |-> FALSE, probes |-> FALSE,
            hashes |-> FALSE]
Dcs     == Plain
Envs    == Plain
Perms   == Plain
Users   == [Plain EXCEPT !.hashes = TRUE]
Scripts == [Plain EXCEPT !.recheck = TRUE, !.probes = TRUE]
DcCaps      == [Plain EXCEPT !.soft = FALSE]
EnvCaps     == [Plain EXCEPT !.soft = FALSE]
Workers     == [Plain EXCEPT !.soft = FALSE]
JsonObjects == [Plain EXCEPT !.soft = FALSE]
DcCapMaps   == [Plain EXCEPT !.soft = FALSE, !.refs = <<"dcs", "dccaps">>]
EnvCapMaps  == [Plain EXCEPT !.soft = FALSE, !.refs = <<"envs", "envcaps">>]

Schema == [dcs |-> Dcs, envs |-> Envs, perms |-> Perms, users |-> Users,
           scripts |-> Scripts, dccaps |-> DcCaps, envcaps |-> EnvCaps,
           workers |-> Workers, jsonobjects |-> JsonObjects,
           dccapmaps |-> DcCapMaps, envcapmaps |-> EnvCapMaps]

Soft(t) == Schema[t].soft
Refs(t) == Schema[t].refs
Recheck(t) == Schema[t].recheck
Probes(t) == Schema[t].probes
Hashes(t) == Schema[t].hashes

KeysOf(t) == IF Refs(t) = <<>> THEN Names ELSE RefIds \X RefIds

ASSUME CatalogAssumption ==
    /\ MaxId \in Nat \ {0}
    /\ RefIds \subseteq Nat
    /\ Tables \subseteq DOMAIN Schema
    /\ \A g \in Groups : g \subseteq Tables
    /\ \A t \in Tables : Refs(t) # <<>> => {Refs(t)[1], Refs(t)[2]} \subseteq Tables
    /\ None \notin Calls \cup Tables \cup Names \cup Bodies \cup (RefIds \X RefIds)

VARIABLES
    focus,   \* the group of tables this behaviour is about
    rows,    \* [Tables -> the rows that are there, by id]
    pc,      \* [Calls -> where the handler is]
    what,    \* [Calls -> which handler it is, and what it was asked]
    mem,     \* [Calls -> the struct the handler will save]
    tmp,     \* what is in obdi_scriptcheck
    births,  \* history: [Tables -> how many rows were inserted]
    stale,   \* history: the calls whose table was saved to since they looked
    mixed,   \* history: the calls whose file was written to by others
    excused  \* history: tables in which two rows may have one key

catalogVars == <<focus, rows, pc, what, mem, tmp, births, stale, mixed, excused>>

(* The columns: hash says how often text went through Crypt, typ is what   *)
(* file(1) said of the source it was shown.                                *)
Blank == [key |-> None, text |-> None, hash |-> 0, typ |-> "none"]
Nothing == [op |-> "none", table |-> None, id |-> 0, keySent |-> FALSE,
            textSent |-> FALSE, born |-> 0, edited |-> FALSE]

CallState == {"idle", "ref1", "ref2", "recheck", "truncate", "write", "probe",
              "save", "delete", "done"}

-----------------------------------------------------------------------------
NoRows == [i \in {} |-> Blank]

FirstRow(t, k, b) ==
    [data |-> [key |-> k, text |-> b, hash |-> IF Hashes(t) THEN 1 ELSE 0,
               typ |-> IF Probes(t) THEN b ELSE "none"],
     live |-> TRUE, born |-> 1, edited |-> FALSE, mixed |-> FALSE]

CatalogInit ==
    /\ focus \in Groups
    /\ \E k \in Names, b \in Bodies, full \in SUBSET {t \in focus : Refs(t) = <<>>} :
         /\ rows = [t \in Tables |-> IF t \in full THEN [i \in {1} |-> FirstRow(t, k, b)]
                                                   ELSE NoRows]
         /\ births = [t \in Tables |-> IF t \in full THEN 1 ELSE 0]
    /\ pc = [c \in Calls |-> "idle"]
    /\ what = [c \in Calls |-> Nothing]
    /\ mem = [c \in Calls |-> Blank]
    /\ tmp = "empty"
    /\ stale = {}
    /\ mixed = {}
    /\ excused = {}

-----------------------------------------------------------------------------
(* The database                                                            *)

Live(t, i) == i \in DOMAIN rows[t] /\ rows[t][i].live
LiveIds(t) == {i \in DOMAIN rows[t] : rows[t][i].live}
Taken(t, k) == \E i \in LiveIds(t) : rows[t][i].data.key = k

(* Mutant of IsNextId: rows that are only marked as deleted do not count. *)
IsNextLiveId(t, n) ==
    /\ \A i \in LiveIds(t) : i < n
    /\ n = 1 \/ n - 1 \in LiveIds(t)

(* An INTEGER PRIMARY KEY without AUTOINCREMENT: one more than the largest *)
(* that is there.                                                          *)
IsNextId(t, n) ==
    /\ \A i \in DOMAIN rows[t] : i < n
    /\ n = 1 \/ n - 1 \in DOMAIN rows[t]

SetRow(t, i, r) ==
    rows' = [rows EXCEPT ![t] =
               [j \in DOMAIN rows[t] \cup {i} |-> IF j = i THEN r ELSE rows[t][j]]]

(* c has saved to t and returns: whoever has looked there before is stale. *)
Saved(c, t) ==
    /\ pc' = [pc EXCEPT ![c] = "done"]
    /\ what' = [what EXCEPT ![c] = Nothing]
    /\ mem' = [mem EXCEPT ![c] = Blank]
    /\ stale' = (stale \cup {d \in Calls : what[d].table = t}) \ {c}
    /\ mixed' = mixed \ {c}

(* c returns. *)
Return(c) ==
    /\ pc' = [pc EXCEPT ![c] = "done"]
    /\ what' = [what EXCEPT ![c] = Nothing]
    /\ mem' = [mem EXCEPT ![c] = Blank]
    /\ stale' = stale \ {c}
    /\ mixed' = mixed \ {c}
    /\ UNCHANGED <<focus, rows, tmp, births, excused>>

(* c goes on; it has changed nothing that others see. *)
Goto(c, state) ==
    /\ pc' = [pc EXCEPT ![c] = state]
    /\ UNCHANGED <<focus, rows, what, mem, tmp, births, stale, mixed, excused>>

-----------------------------------------------------------------------------
(* Add                                                                     *)

AfterChecks(t) == IF Probes(t) THEN "truncate" ELSE "save"

(* Mutant of Hashed: what is in Passhash is taken for a password. *)
HashedAgain(t, d) ==
    [key |-> d.key, text |-> d.text, typ |-> d.typ,
     hash |-> IF Hashes(t) THEN d.hash + 1 ELSE d.hash]

Hashed(t, d) ==
    [key |-> d.key, text |-> d.text, typ |-> d.typ,
     hash |-> IF Hashes(t) /\ d.hash = 0 THEN 1 ELSE d.hash]

AddExists(c, t, k) ==
    /\ pc[c] = "idle"
    /\ Taken(t, k)
    /\ Return(c)

(* The payload is complete: a call without a name, a password, ... ends    *)
(* before it changes anything.                                             *)
AddBegin(c, t, k, b) ==
    /\ pc' = [pc EXCEPT ![c] = IF Refs(t) = <<>> THEN AfterChecks(t) ELSE "ref1"]
    /\ what' = [what EXCEPT ![c] =
                  [op |-> "add", table |-> t, id |-> 0, keySent |-> TRUE,
                   textSent |-> TRUE, born |-> 0, edited |-> FALSE]]
    /\ mem' = [mem EXCEPT ![c] =
                 Hashed(t, [key |-> k, text |-> b, hash |-> 0, typ |-> "none"])]
    /\ stale' = stale \ {c}
    /\ UNCHANGED <<focus, rows, tmp, births, mixed, excused>>

(* Mutant of AddCheck: the name is not looked for. *)
AddUnchecked(c, t, k, b) ==
    /\ pc[c] = "idle"
    /\ AddBegin(c, t, k, b)

AddCheck(c, t, k, b) ==
    /\ pc[c] = "idle"
    /\ ~Taken(t, k)
    /\ AddBegin(c, t, k, b)

Referred(c, n) == <<Refs(what[c].table)[n], mem[c].key[n]>>

RefState(n) == IF n = 1 THEN "ref1" ELSE "ref2"
AfterRef(c, n) == IF n = 1 THEN "ref2" ELSE AfterChecks(what[c].table)

(* Mutant of RefCheck: any id will do. *)
RefUnchecked(c, n) ==
    /\ pc[c] = RefState(n)
    /\ Goto(c, AfterRef(c, n))

RefCheck(c, n) ==
    /\ pc[c] = RefState(n)
    /\ Live(Referred(c, n)[1], Referred(c, n)[2])
    /\ Goto(c, AfterRef(c, n))

RefMissing(c, n) ==
    /\ pc[c] = RefState(n)
    /\ ~Live(Referred(c, n)[1], Referred(c, n)[2])
    /\ Return(c)

AddSave(c) ==
    /\ pc[c] = "save" /\ what[c].op = "add"
    /\ LET t == what[c].table IN
       \E n \in Ids :
         /\ IsNextId(t, n)
         /\ SetRow(t, n, [data |-> mem[c], live |-> TRUE, born |-> births[t] + 1,
                          edited |-> FALSE, mixed |-> c \in mixed])
         /\ births' = [births EXCEPT ![t] = @ + 1]
         /\ Saved(c, t)
         /\ excused' = IF c \in stale THEN excused \cup {t} ELSE excused
    /\ UNCHANGED <<focus, tmp>>

-----------------------------------------------------------------------------
(* The type of a script: its source is written to a file whose name is the *)
(* same for all calls, and file(1) is run on it.                           *)

SetType(c, type) ==
    mem' = [mem EXCEPT ![c] = [key |-> mem[c].key, text |-> mem[c].text,
                               hash |-> mem[c].hash, typ |-> type]]

Disturb(c) == mixed \cup {d \in Calls \ {c} : pc[d] \in {"write", "probe"}}

(* Mutant of Truncate: the file is only written if it is not there yet. *)
TruncateOnce(c) ==
    /\ pc[c] = "truncate"
    /\ pc' = [pc EXCEPT ![c] = IF tmp = "empty" THEN "write" ELSE "probe"]
    /\ mixed' = mixed \ {c}
    /\ UNCHANGED <<focus, rows, what, mem, tmp, births, stale, excused>>

Truncate(c) ==
    /\ pc[c] = "truncate"
    /\ pc' = [pc EXCEPT ![c] = "write"]
    /\ tmp' = "empty"
    /\ mixed' = Disturb(c) \ {c}
    /\ UNCHANGED <<focus, rows, what, mem, births, stale, excused>>

Write(c) ==
    /\ pc[c] = "write"
    /\ pc' = [pc EXCEPT ![c] = "probe"]
    /\ tmp' = mem[c].text
    /\ mixed' = Disturb(c)
    /\ UNCHANGED <<focus, rows, what, mem, births, stale, excused>>

Probe(c) ==
    /\ pc[c] = "probe"
    /\ pc' = [pc EXCEPT ![c] = "save"]
    /\ SetType(c, tmp)
    /\ UNCHANGED <<focus, rows, what, tmp, births, stale, mixed, excused>>

(* WriteFile or file(1) failed. *)
ProbeFails(c) ==
    /\ pc[c] \in {"truncate", "write", "probe"}
    /\ pc' = [pc EXCEPT ![c] = "save"]
    /\ SetType(c, "unknown")
    /\ UNCHANGED <<focus, rows, what, tmp, births, stale, mixed, excused>>

-----------------------------------------------------------------------------
(* Update and Delete                                                       *)

NotFound(c, t, i) ==
    /\ pc[c] = "idle"
    /\ ~Live(t, i)
    /\ Return(c)

(* d with the fields that were sent. *)
Merge(d, k, b) ==
    [key |-> IF k = None THEN d.key ELSE k,
     text |-> IF b = None THEN d.text ELSE b,
     hash |-> IF b = None THEN d.hash ELSE 0,
     typ |-> d.typ]

UpdateFind(c, t, i, k, b) ==
    /\ pc[c] = "idle"
    /\ Live(t, i)
    /\ pc' = [pc EXCEPT ![c] = IF Recheck(t) THEN "recheck" ELSE AfterChecks(t)]
    /\ what' = [what EXCEPT ![c] =
                  [op |-> "update", table |-> t, id |-> i, keySent |-> k # None,
                   textSent |-> b # None, born |-> rows[t][i].born,
                   edited |-> rows[t][i].edited \/ k # None]]
    /\ mem' = [mem EXCEPT ![c] = Hashed(t, Merge(rows[t][i].data, k, b))]
    /\ stale' = stale \ {c}
    /\ UNCHANGED <<focus, rows, tmp, births, mixed, excused>>

TakenByOther(t, k, i) == \E j \in LiveIds(t) : j # i /\ rows[t][j].data.key = k

(* A look-up of its own: what was saved before it does not matter to it,   *)
(* but it does to the row that was read, so the call stays stale.          *)
RecheckName(c) ==
    /\ pc[c] = "recheck"
    /\ ~TakenByOther(what[c].table, mem[c].key, what[c].id)
    /\ Goto(c, AfterChecks(what[c].table))

RecheckExists(c) ==
    /\ pc[c] = "recheck"
    /\ TakenByOther(what[c].table, mem[c].key, what[c].id)
    /\ Return(c)

(* Mutant of Hit: gorm's where clause leaves deleted_at out. *)
HitAny(t, i) == i \in DOMAIN rows[t]

(* The row that an UPDATE by id changes: none, and no error, if it is gone. *)
Hit(t, i) == Live(t, i)

UpdateSave(c) ==
    /\ pc[c] = "save" /\ what[c].op = "update"
    /\ LET t == what[c].table
           i == what[c].id
       IN IF Hit(t, i)
          THEN /\ SetRow(t, i, [data |-> mem[c], live |-> TRUE, born |-> rows[t][i].born,
                                edited |-> what[c].edited, mixed |-> c \in mixed])
               /\ Saved(c, t)
               /\ excused' = IF c \in stale \/ (what[c].keySent /\ ~Recheck(t))
                             THEN excused \cup {t} ELSE excused
               /\ UNCHANGED <<focus, tmp, births>>
          ELSE Return(c)

DeleteFind(c, t, i) ==
    /\ pc[c] = "idle"
    /\ Live(t, i)
    /\ pc' = [pc EXCEPT ![c] = "delete"]
    /\ what' = [what EXCEPT ![c] =
                  [op |-> "delete", table |-> t, id |-> i, keySent |-> FALSE,
                   textSent |-> FALSE, born |-> rows[t][i].born, edited |-> FALSE]]
    /\ UNCHANGED <<focus, rows, mem, tmp, births, stale, mixed, excused>>

Marked(r) == [data |-> r.data, live |-> FALSE, born |-> r.born,
              edited |-> r.edited, mixed |-> r.mixed]

DeleteRow(c) ==
    /\ pc[c] = "delete"
    /\ LET t == what[c].table
           i == what[c].id
       IN IF ~Live(t, i) THEN UNCHANGED rows
          ELSE IF Soft(t) THEN SetRow(t, i, Marked(rows[t][i]))
          ELSE rows' = [rows EXCEPT ![t] =
                          [j \in DOMAIN rows[t] \ {i} |-> rows[t][j]]]
    /\ pc' = [pc EXCEPT ![c] = "done"]
    /\ what' = [what EXCEPT ![c] = Nothing]
    /\ stale' = stale \ {c}
    /\ UNCHANGED <<focus, mem, tmp, births, mixed, excused>>

-----------------------------------------------------------------------------
(* A behaviour is about the tables of focus.  That is a bound only: calls   *)
(* to tables that do not refer to each other share nothing but the mutex.  *)
CatalogNext ==
    \E c \in Calls :
      \/ \E t \in focus :
           \/ \E k \in KeysOf(t), b \in Bodies : AddCheck(c, t, k, b)
           \/ \E k \in KeysOf(t) : AddExists(c, t, k)
           \/ \E i \in Ids, k \in KeysOf(t) \cup {None}, b \in Bodies \cup {None} :
                UpdateFind(c, t, i, k, b)
           \/ \E i \in Ids : NotFound(c, t, i) \/ DeleteFind(c, t, i)
      \/ \E n \in {1, 2} : RefCheck(c, n) \/ RefMissing(c, n)
      \/ RecheckName(c) \/ RecheckExists(c)
      \/ Truncate(c) \/ Write(c) \/ Probe(c) \/ ProbeFails(c)
      \/ AddSave(c) \/ UpdateSave(c) \/ DeleteRow(c)

CatalogSpec == CatalogInit /\ [][CatalogNext]_catalogVars

-----------------------------------------------------------------------------
Columns == [key : Names \cup (RefIds \X RefIds) \cup {None}, text : Bodies \cup {None},
            hash : Nat, typ : Bodies \cup {"none", "empty", "unknown"}]
Rows == [data : {d \in Columns : d.key # None /\ d.text # None}, live : BOOLEAN,
         born : Nat, edited : BOOLEAN, mixed : BOOLEAN]
Questions == [op : {"none", "add", "update", "delete"}, table : Tables \cup {None},
              id : Ids \cup {0}, keySent : BOOLEAN, textSent : BOOLEAN,
              born : Nat, edited : BOOLEAN]

(* Types.  A row has a name and a body, whatever the payloads left out. *)
CatalogTypeOK ==
    /\ focus \in Groups
    /\ DOMAIN rows = Tables
    /\ \A t \in Tables : DOMAIN rows[t] \subseteq Ids /\ rows[t] \in [DOMAIN rows[t] -> Rows]
    /\ pc \in [Calls -> CallState]
    /\ what \in [Calls -> Questions]
    /\ mem \in [Calls -> Columns]
    /\ tmp \in Bodies \cup {"empty"}
    /\ births \in [Tables -> Nat]
    /\ stale \subseteq Calls /\ mixed \subseteq Calls
    /\ excused \subseteq Tables

(* "Can't add if it exists already": two live rows of a table have the     *)
(* same name only if some handler saved after another one had saved to     *)
(* what it had looked at, or if an Update changed a name: those do not     *)
(* look, but UpdateScript does.                                            *)
DuplicatesExplained ==
    \A t \in Tables \ excused : \A i, j \in LiveIds(t) :
      rows[t][i].data.key = rows[t][j].data.key => i = j

(* "Work out type": the type of a script is that of its own source, or     *)
(* unknown, unless another call wrote to the file before file(1) was done. *)
TypesExplained ==
    \A t \in Tables : Probes(t) =>
      \A i \in LiveIds(t) :
        \/ rows[t][i].data.typ \in {rows[t][i].data.text, "unknown"}
        \/ rows[t][i].mixed

WasThere(t, i) == i \in 1 .. births[t] /\ (Soft(t) => i \in DOMAIN rows[t])

(* "Check that EnvId and EnvCapId exist": a map that was added, and whose  *)
(* ids no Update has changed, refers to rows that once were there; those   *)
(* of a table with soft deletion still are, live or not.                   *)
RefsWereReal ==
    \A t \in Tables : Refs(t) # <<>> =>
      \A i \in LiveIds(t), n \in {1, 2} :
        rows[t][i].edited \/ WasThere(Refs(t)[n], rows[t][i].data.key[n])

(* In a table with soft deletion, the id an Update or a Delete is about to *)
(* use is that of the row it found, not of one that came after it.         *)
MeansItsRow ==
    \A c \in Calls : what[c].op \in {"update", "delete"} =>
      LET t == what[c].table
          i == what[c].id
      IN Soft(t) => i \in DOMAIN rows[t] /\ rows[t][i].born = what[c].born

(* A row that was marked as deleted stays so, with its columns, although   *)
(* an Update that read it before saves all columns, DeletedAt included.    *)
DeletedStays ==
    [][\A t \in Tables : Soft(t) =>
         \A i \in DOMAIN rows[t] : ~rows[t][i].live =>
           i \in DOMAIN rows'[t] /\ rows'[t][i] = rows[t][i]]_rows

(* "... overwrite any sent fields": an Update that no other save got ahead *)
(* of changes no column that was not sent, a stored hash included.         *)
FreshSavesKeep ==
    [][\A c \in Calls :
         (what[c].op = "update" /\ pc[c] = "save" /\ pc'[c] = "done" /\ c \notin stale) =>
           LET t == what[c].table
               i == what[c].id
           IN Live(t, i) =>
                /\ what[c].keySent \/ rows'[t][i].data.key = rows[t][i].data.key
                /\ \/ what[c].textSent
                   \/ /\ rows'[t][i].data.text = rows[t][i].data.text
                      /\ rows'[t][i].data.hash = rows[t][i].data.hash]_catalogVars
=============================================================================
