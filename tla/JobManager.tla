----------------------------- MODULE JobManager -----------------------------
(***************************************************************************)
(* The job API of the manager: table jobs of the database and the handlers *)
(* AddJob, UpdateJob, KillJob and DeleteJob.  Each handler is a thread of  *)
(* its own; the global mutex is held for one database call at a time, so a *)
(* handler is cut into one action per critical section and what it read in *)
(* an earlier one may be stale when it saves.                              *)
(*                                                                         *)
(* gorm's Save of a row that was read is an UPDATE of every column of the  *)
(* live row with that id: it takes back what others wrote in between, and  *)
(* changes nothing (and reports nothing) when the row is soft-deleted.     *)
(***************************************************************************)
EXTENDS JobBase

VARIABLES
    row,   \* [Jobs -> Status of the live row, or NoRow]
    add,   \* [Jobs -> where the AddJob handler of the job is]
    kill,  \* [Kills -> where the KillJob handler is, and its job]
    edit,  \* [Edits -> a user's UpdateJob: where it is, its job and snapshot]
    conf   \* the worker tables, as they bear on the jobs' environment

managerVars == <<row, add, kill, edit, conf>>

AddState == {"start", "inserted", "routed", "stored", "waiting", "accepted",
             "failing", "failed", "dead"}
KillerState == {"start", "read", "waiting", "done", "failing", "failed", "dead"}
EditState == {"start", "merged", "done"}

(* default: WorkerUrl and WorkerKey of the row in envs; override: the row  *)
(* of table workers that envcaps and envcapmaps lead to, if they do.       *)
Config == [default : Workers \cup {NoWorker}, override : Workers \cup {NoWorker}]

ManagerInit ==
    /\ row = [j \in Jobs |-> NoRow]
    /\ add = [j \in Jobs |-> "start"]
    /\ kill = [k \in Kills |-> [pc |-> "start", job |-> AnyJob]]
    /\ edit = [e \in Edits |-> [pc |-> "start", job |-> AnyJob,
                                status |-> "UNKNOWN"]]
    /\ conf \in Config

ManagerTypeOK ==
    /\ row \in [Jobs -> Status \cup {NoRow}]
    /\ add \in [Jobs -> AddState]
    /\ kill \in [Kills -> [pc : KillerState, job : Jobs]]
    /\ edit \in [Edits -> [pc : EditState, job : Jobs, status : Status]]
    /\ conf \in Config

-----------------------------------------------------------------------------
(* Mutant of SaveRow: an UPDATE that finds no row inserts one. *)
SaveOrInsertRow(j, s) == row' = [row EXCEPT ![j] = s]

(* api.db.Save of a job that already has an id. *)
SaveRow(j, s) ==
    row' = IF row[j] = NoRow THEN row ELSE [row EXCEPT ![j] = s]

(* The worker for the environment: the capability's own one before the     *)
(* environment's default.                                                  *)
SelectWorker == IF conf.override # NoWorker THEN conf.override ELSE conf.default

AddGoto(j, pc) == add' = [add EXCEPT ![j] = pc]
KillGoto(k, pc) == kill' = [kill EXCEPT ![k] = [pc |-> pc, job |-> kill[k].job]]
ReportGoto(j, pc) ==
    report' = [report EXCEPT ![j] = [pc |-> pc, status |-> report[j].status]]

-----------------------------------------------------------------------------
(* AddJob                                                                  *)

AddJobInsert(j) ==
    /\ add[j] = "start"
    /\ row' = [row EXCEPT ![j] = "UNKNOWN"]
    /\ AddGoto(j, "inserted")
    /\ UNCHANGED <<kill, edit, conf, netVars>>

AddJobRoute(j) ==
    /\ add[j] = "inserted"
    /\ to' = [to EXCEPT ![j] = SelectWorker]
    /\ AddGoto(j, IF SelectWorker = NoWorker THEN "failing" ELSE "routed")
    /\ UNCHANGED <<row, kill, edit, conf, submit, report, wkill>>

(* The second saveJob writes the whole snapshot, its Status included. *)
AddJobStore(j) ==
    /\ add[j] = "routed"
    /\ SaveRow(j, "UNKNOWN")
    /\ AddGoto(j, "stored")
    /\ UNCHANGED <<kill, edit, conf, netVars>>

AddJobNoScript(j) ==
    /\ add[j] = "stored"
    /\ AddGoto(j, "failing")
    /\ UNCHANGED <<row, kill, edit, conf, netVars>>

AddJobSend(j) ==
    /\ add[j] = "stored"
    /\ submit' = [submit EXCEPT ![j] = "sent"]
    /\ AddGoto(j, "waiting")
    /\ UNCHANGED <<row, kill, edit, conf, to, report, wkill>>

(* On success the handler saves nothing: the row is the worker's now. *)
AddJobAccepted(j) ==
    /\ add[j] = "waiting"
    /\ submit[j] = "ok"
    /\ AddGoto(j, "accepted")
    /\ UNCHANGED <<row, kill, edit, conf, netVars>>

(* Mutant of AddJobRejected: the error of POST is not looked at. *)
AddJobRejectionIgnored(j) ==
    /\ add[j] = "waiting"
    /\ submit[j] = "error"
    /\ AddGoto(j, "accepted")
    /\ UNCHANGED <<row, kill, edit, conf, netVars>>

AddJobRejected(j) ==
    /\ add[j] = "waiting"
    /\ submit[j] = "error"
    /\ AddGoto(j, "failing")
    /\ UNCHANGED <<row, kill, edit, conf, netVars>>

(* The connection breaks under POST; the worker may go on with the job. *)
AddJobBroken(j) ==
    /\ "break" \in Events
    /\ add[j] = "waiting"
    /\ AddGoto(j, "failing")
    /\ UNCHANGED <<row, kill, edit, conf, netVars>>

(* The saveJob of every failing path: ERROR over the handler's snapshot. *)
AddJobSaveError(j) ==
    /\ add[j] = "failing"
    /\ SaveRow(j, "ERROR")
    /\ AddGoto(j, "failed")
    /\ UNCHANGED <<kill, edit, conf, netVars>>

AddJobStep(j) ==
    \/ AddJobInsert(j)   \/ AddJobRoute(j)    \/ AddJobStore(j)
    \/ AddJobNoScript(j) \/ AddJobSend(j)     \/ AddJobAccepted(j)
    \/ AddJobRejected(j) \/ AddJobSaveError(j)

-----------------------------------------------------------------------------
(* UpdateJob, called by a worker's sendStatus *)

UpdateJobRefuse(j) ==
    /\ report[j].pc = "sent"
    /\ row[j] = NoRow \/ "refuse" \in Events
    /\ ReportGoto(j, "refused")
    /\ UNCHANGED <<managerVars, to, submit, wkill>>

UpdateJobRead(j) ==
    /\ report[j].pc = "sent"
    /\ row[j] # NoRow
    /\ ReportGoto(j, "merged")
    /\ UNCHANGED <<managerVars, to, submit, wkill>>

UpdateJobSave(j) ==
    /\ report[j].pc = "merged"
    /\ SaveRow(j, report[j].status)
    /\ ReportGoto(j, "saved")
    /\ UNCHANGED <<add, kill, edit, conf, to, submit, wkill>>

UpdateJobStep(j) == UpdateJobRefuse(j) \/ UpdateJobRead(j) \/ UpdateJobSave(j)

-----------------------------------------------------------------------------
(* UpdateJob, called by a user whose payload has no Status *)

EditOver(e) == [pc |-> "done", job |-> edit[e].job, status |-> edit[e].status]

(* Mutant of EditJobRead: RecordNotFound is not checked. *)
EditJobReadBlindly(e, j) ==
    /\ edit[e].pc = "start"
    /\ edit' = [edit EXCEPT ![e] = [pc |-> "merged", job |-> j, status |-> row[j]]]
    /\ UNCHANGED <<row, add, kill, conf, netVars>>

EditJobRead(e, j) ==
    /\ edit[e].pc = "start"
    /\ row[j] # NoRow
    /\ edit' = [edit EXCEPT ![e] = [pc |-> "merged", job |-> j, status |-> row[j]]]
    /\ UNCHANGED <<row, add, kill, conf, netVars>>

EditJobSave(e) ==
    /\ edit[e].pc = "merged"
    /\ SaveRow(edit[e].job, edit[e].status)
    /\ edit' = [edit EXCEPT ![e] = EditOver(e)]
    /\ UNCHANGED <<add, kill, conf, netVars>>

-----------------------------------------------------------------------------
(* DeleteJob.  Its look-up and its delete are two critical sections, but   *)
(* deleting a row that is gone by then changes nothing.                    *)

DeleteJob(j) ==
    /\ "delete" \in Events
    /\ row[j] # NoRow
    /\ row' = [row EXCEPT ![j] = NoRow]
    /\ UNCHANGED <<add, kill, edit, conf, netVars>>

-----------------------------------------------------------------------------
(* KillJob *)

KillJobFind(k, j) ==
    /\ kill[k].pc = "start"
    /\ row[j] # NoRow
    /\ kill' = [kill EXCEPT ![k] = [pc |-> "read", job |-> j]]
    /\ UNCHANGED <<row, add, edit, conf, netVars>>

(* The worker is selected anew: WorkerUrl of the row is not looked at. *)
KillJobSend(k) ==
    /\ kill[k].pc = "read"
    /\ SelectWorker # NoWorker
    /\ wkill' = [wkill EXCEPT ![k] = [pc |-> "sent", job |-> kill[k].job,
                                      to |-> SelectWorker, pid |-> FALSE]]
    /\ KillGoto(k, "waiting")
    /\ UNCHANGED <<row, add, edit, conf, to, submit, report>>

KillJobNoWorker(k) ==
    /\ kill[k].pc = "read"
    /\ SelectWorker = NoWorker
    /\ KillGoto(k, "failing")
    /\ UNCHANGED <<row, add, edit, conf, netVars>>

KillJobSaveError(k) ==
    /\ kill[k].pc = "failing"
    /\ SaveRow(kill[k].job, "ERROR")
    /\ KillGoto(k, "failed")
    /\ UNCHANGED <<add, edit, conf, netVars>>

(* Answered, or the connection broke: nothing is saved either way. *)
KillJobReturn(k) ==
    /\ kill[k].pc = "waiting"
    /\ wkill[k].pc = "done" \/ "break" \in Events
    /\ KillGoto(k, "done")
    /\ UNCHANGED <<row, add, edit, conf, netVars>>

KillJobStep(k) ==
    \/ KillJobSend(k) \/ KillJobNoWorker(k) \/ KillJobSaveError(k) \/ KillJobReturn(k)

-----------------------------------------------------------------------------
(* The environment of the manager *)

(* AddWorker, UpdateEnv, DeleteEnvCapMap, ...: an admin changes the tables. *)
Reconfigure ==
    /\ "reconf" \in Events
    /\ conf' \in Config
    /\ UNCHANGED <<row, add, kill, edit, netVars>>

(* The manager dies and is started again: every running handler is lost,   *)
(* the database stays.  A PUT being served has no answer.                  *)
ManagerCrash ==
    /\ "mgrcrash" \in Events
    /\ add' = [j \in Jobs |->
                 IF add[j] \in {"start", "accepted", "failed"} THEN add[j] ELSE "dead"]
    /\ kill' = [k \in Kills |->
                 IF kill[k].pc \in {"start", "done", "failed"} THEN kill[k]
                 ELSE [pc |-> "dead", job |-> kill[k].job]]
    /\ edit' = [e \in Edits |->
                 IF edit[e].pc = "merged" THEN EditOver(e) ELSE edit[e]]
    /\ report' = [j \in Jobs |->
                 IF report[j].pc = "merged"
                 THEN [pc |-> "broken", status |-> report[j].status]
                 ELSE report[j]]
    /\ UNCHANGED <<row, conf, to, submit, wkill>>

ManagerNext ==
    \/ \E j \in Jobs : AddJobStep(j) \/ AddJobBroken(j) \/ UpdateJobStep(j) \/ DeleteJob(j)
    \/ \E e \in Edits : (\E j \in Jobs : EditJobRead(e, j)) \/ EditJobSave(e)
    \/ \E k \in Kills : (\E j \in Jobs : KillJobFind(k, j)) \/ KillJobStep(k)
    \/ Reconfigure
    \/ ManagerCrash
=============================================================================
