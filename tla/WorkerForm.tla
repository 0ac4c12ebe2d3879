----------------------------- MODULE WorkerForm -----------------------------
(***************************************************************************)
(* The dialog in which the admin enters the worker of an environment and a *)
(* capability, in envs.js.  The dialog opens when the worker of the pair   *)
(* has been looked up, which leaves the answer in $scope.worker for every  *)
(* dialog to use.  The dialog of the JSON objects is the same code.        *)
(***************************************************************************)
EXTENDS WebPage

CONSTANT Pairs  \* an environment with one of its capabilities

VARIABLES
    worker,    \* $scope.worker[0].Id, or 0: the last look-up found nothing
    dialogs,   \* the open dialogs, the last one on top
    dbworkers  \* the server's workers: [id -> the pair]

workerVars == <<worker, dialogs, dbworkers>>

WorkerInit ==
    /\ worker = 0
    /\ dialogs = <<>>
    /\ \E n \in 0 .. 2 : dbworkers \in [1 .. n -> Pairs]
    /\ \A i, j \in DOMAIN dbworkers : dbworkers[i] = dbworkers[j] => i = j

IdsOf(p) == {i \in DOMAIN dbworkers : dbworkers[i] = p}

-----------------------------------------------------------------------------
(* The user.  A dialog keeps the page below from being clicked.            *)

AboutPair(p) == [pair |-> p, id |-> 0, filled |-> TRUE]

Edit_WorkerModal(p) ==
    /\ dialogs = <<>>
    /\ UserActs
    /\ Send("get", AboutPair(p))
    /\ UNCHANGED workerVars

Top == dialogs[Len(dialogs)]
Closed == SubSeq(dialogs, 1, Len(dialogs) - 1)

UpdateWorkerEntry == Send("put", [pair |-> Top.pair, id |-> worker, filled |-> TRUE])
AddWorkerEntry(filled) == Send("post", [pair |-> Top.pair, id |-> 0, filled |-> filled])

(* The button OK.  $scope.worker[0] of undefined ends the callback with an *)
(* exception: nothing is sent.                                             *)
Ok(filled) ==
    /\ dialogs # <<>>
    /\ UserActs
    /\ dialogs' = Closed
    /\ \/ Top.recordexists /\ worker # 0 /\ UpdateWorkerEntry
       \/ Top.recordexists /\ worker = 0 /\ UNCHANGED net
       \/ ~Top.recordexists /\ AddWorkerEntry(filled)
    /\ UNCHANGED <<worker, dbworkers>>

Cancel ==
    /\ dialogs # <<>>
    /\ UserActs
    /\ dialogs' = Closed
    /\ UNCHANGED <<net, worker, dbworkers>>

-----------------------------------------------------------------------------
(* The server                                                              *)

ServeGet(s) ==
    /\ Awaited(s, "get")
    /\ LET found == IdsOf(net[s].arg.pair)
       IN \/ found = {} /\ Answer(s, "ok", 0)
          \/ \E i \in found : (\A j \in found : i <= j) /\ Answer(s, "ok", i)
    /\ UNCHANGED workerVars

(* AddWorker: "WorkerUrl is unset.", "Record exists."; the row is saved    *)
(* later than that.                                                        *)
ServeAdd(s) ==
    /\ Awaited(s, "post")
    /\ Answer(s, IF net[s].arg.filled /\ IdsOf(net[s].arg.pair) = {} THEN "checked"
                 ELSE "refused", 0)
    /\ UNCHANGED workerVars

ServeSave(s) ==
    /\ net[s] # NoRequest
    /\ net[s].st = "checked"
    /\ dbworkers' = WithRow(dbworkers, NextId(dbworkers), net[s].arg.pair)
    /\ net' = Answered(s, "ok", 0)
    /\ UNCHANGED <<pageurl, loop, moves, session, broke, hasty, worker, dialogs>>

(* UpdateWorker overwrites the row with what was sent, the pair too.       *)
ServeUpdate(s) ==
    /\ Awaited(s, "put")
    /\ dbworkers' = WithRow(dbworkers, net[s].arg.id, net[s].arg.pair)
    /\ Answer(s, "ok", 0)
    /\ UNCHANGED <<worker, dialogs>>

-----------------------------------------------------------------------------
(* The callbacks                                                           *)

(* Mutant of LookedUp: an empty answer leaves $scope.worker as it was.     *)
KeptWorker(id) == IF id = 0 THEN worker ELSE id

LookedUp(id) == id

WorkerArrives(s) ==
    /\ Arrived(s, "get")
    /\ Callback(s)
    /\ worker' = LookedUp(net[s].data)
    /\ dialogs' = Append(dialogs, [pair |-> net[s].arg.pair,
                                   recordexists |-> LookedUp(net[s].data) # 0])
    /\ UNCHANGED dbworkers

WorkerSaved(s) ==
    /\ Arrived(s, "put") \/ Arrived(s, "post")
    /\ Callback(s)
    /\ UNCHANGED workerVars

WorkerRequestFails(s) == ErrorCallback(s, TRUE) /\ UNCHANGED workerVars

-----------------------------------------------------------------------------
WorkerUser ==
    \/ \E p \in Pairs : Edit_WorkerModal(p)
    \/ \E filled \in BOOLEAN : Ok(filled)
    \/ Cancel

WorkerServer ==
    \/ \E s \in Slots : ServeGet(s) \/ ServeAdd(s) \/ ServeSave(s) \/ ServeUpdate(s)
    \/ ServerFaults /\ UNCHANGED workerVars

WorkerCallbacks ==
    \E s \in Slots : WorkerArrives(s) \/ WorkerSaved(s) \/ WorkerRequestFails(s)

WorkerNext == WorkerUser \/ WorkerServer \/ WorkerCallbacks

-----------------------------------------------------------------------------
WorkerTypeOK ==
    /\ worker \in DOMAIN dbworkers \cup {0}
    /\ \A i \in DOMAIN dialogs : dialogs[i].pair \in Pairs
    /\ \A i \in DOMAIN dbworkers : dbworkers[i] \in Pairs

(* A patient user changes the worker of the pair that the dialog names and *)
(* adds one only where there is none, although the row to be changed comes *)
(* from $scope.worker and the pair from the dialog: no row passes to       *)
(* another pair, and no pair gets a second row.                            *)
WorkerOwn ==
    [][~hasty =>
         \A i \in DOMAIN dbworkers' :
            IF i \in DOMAIN dbworkers THEN dbworkers'[i] = dbworkers[i]
            ELSE IdsOf(dbworkers'[i]) = {}
      ]_<<webVars, workerVars>>
=============================================================================
