----------------------------- MODULE JobDispatch -----------------------------
(***************************************************************************)
(* The manager's job API and the workers together: a step is a step of one *)
(* of them, and what passes between them is netVars.                       *)
(***************************************************************************)
EXTENDS JobManager, JobWorker

vars == <<row, add, kill, edit, conf, up, guid, entry, wadd, exec, proc,
          cancelled, to, submit, report, wkill>>

Init == NetInit /\ ManagerInit /\ WorkerInit

Next ==
    \/ ManagerNext /\ UNCHANGED workerVars
    \/ WorkerNext /\ UNCHANGED managerVars

Spec == Init /\ [][Next]_vars

(***************************************************************************)
(* A handler or goroutine that can go on is scheduled by the Go runtime,   *)
(* a call on a connection that holds is served, and a script is assumed    *)
(* to end.  Users, admins and faults are under no obligation.              *)
(***************************************************************************)
Fairness ==
    /\ \A j \in Jobs :
         /\ WF_vars(AddJobStep(j) /\ UNCHANGED workerVars)
         /\ WF_vars(UpdateJobStep(j) /\ UNCHANGED workerVars)
         /\ WF_vars(WAddStep(j) /\ UNCHANGED managerVars)
         /\ WF_vars(ExecStep(j) /\ UNCHANGED managerVars)
         /\ WF_vars(ScriptExit(j) /\ UNCHANGED managerVars)
         /\ WF_vars(SubmitNoWorker(j) /\ UNCHANGED managerVars)
    /\ \A k \in Kills :
         /\ WF_vars(KillJobStep(k) /\ UNCHANGED workerVars)
         /\ WF_vars(WKillStep(k) /\ UNCHANGED managerVars)
         /\ WF_vars(KillNoWorker(k) /\ UNCHANGED managerVars)

FairSpec == Spec /\ Fairness

-----------------------------------------------------------------------------
TypeOK == NetTypeOK /\ ManagerTypeOK /\ WorkerTypeOK

(* The statuses the manager is entitled to show for job j. *)
Justified(j) == {s \in Status :
    /\ s = "NOTSTARTED" => wadd[j] \in {"reporting", "done", "aborted"}
    /\ s = "INPROGRESS" => proc[j] # "none"
    /\ s = "OK" => proc[j] = "exit0"
    /\ s = "USERCANCELLED" => j \in cancelled /\ proc[j] \in {"exit1", "killed"}
    /\ s = "SYSCANCELLED" => proc[j] = "none" /\ exec[j] \in {"failing", "done", "dead"}
    /\ s = "ERROR" =>
         \/ add[j] = "failed"
         \/ \E k \in Kills : kill[k].job = j /\ kill[k].pc = "failed"
         \/ proc[j] \in {"exit1", "killed"}}

(* The status in the database is never a fiction: whatever order stale     *)
(* snapshots, delayed PUTs, kills, crashes and retries are saved in        *)
(* (saveJob, UpdateJob, KillJob), a row says OK only when the script       *)
(* exited 0, USERCANCELLED only when a kill was accepted and the script    *)
(* did not succeed, SYSCANCELLED only when no script will ever run, and    *)
(* ERROR only when the script or a manager handler failed.                 *)
StatusJustified == \A j \in Jobs : row[j] # NoRow => row[j] \in Justified(j)

(* A script that runs is one a kill can find: while its worker lives, its  *)
(* entry is in api.jobs until the script has ended (AppendJob before       *)
(* execCmd, RemoveJob after Wait; DeleteJob must not remove it), and its   *)
(* goroutine is still there to report the end.                             *)
RunningIsListed ==
    \A j \in Jobs :
        proc[j] = "running" /\ exec[j] # "dead" =>
            /\ entry[j].listed
            /\ exec[j] \in {"announcing", "pumping"}

(* An entry that outlives execCmd is one whose script never ran: every     *)
(* run, cancelled or not, takes its entry out of api.jobs.                 *)
RanJobsLeaveTheList ==
    \A j \in Jobs : exec[j] = "done" /\ entry[j].listed => proc[j] = "none"

(* A user's PUT saved in this step, on job j. *)
EditSaved(j) ==
    \E e \in Edits : edit[e].pc = "merged" /\ edit[e].job = j /\ edit'[e].pc = "done"

(* Reports land in the order the worker made them: NOTSTARTED is never     *)
(* saved once execCmd exists, nor INPROGRESS once the script's end was     *)
(* reported, because each PUT is awaited before the next step.             *)
ReportsInOrder ==
    [][\A j \in Jobs :
         row'[j] # row[j] /\ ~EditSaved(j) =>
           /\ row'[j] = "NOTSTARTED" => exec[j] = "idle"
           /\ row'[j] = "INPROGRESS" => exec[j] \in {"announcing", "dead"}]_vars

(* When execCmd has returned, its last word stays in the row: only a       *)
(* deletion, a manager handler's ERROR or a user's stale PUT replaces it.  *)
LastWordStays ==
    [][\A j \in Jobs :
         exec[j] = "done" /\ row'[j] # row[j] =>
            row'[j] \in {NoRow, "ERROR"} \/ EditSaved(j)]_vars

(* The worker a job was sent to has died, and was not started again. *)
Stranded(j) == to[j] # NoWorker /\ ~up[to[j]]

(* Every row a user gets for a job ends up, for good, in a final status    *)
(* (or deleted), unless the worker it was sent to dies: no handler of      *)
(* AddJob, UpdateJob, execCmd waits forever, and none saves an old status  *)
(* over the last one.                                                      *)
JobSettles ==
    \A j \in Jobs :
        (row[j] # NoRow) ~> [](row[j] \in Ended \cup {NoRow} \/ Stranded(j))

(* A job whose kill a worker accepted (SetUserCancel) leaves the worker's  *)
(* list for good, as DeleteJob's last comment promises, unless its script  *)
(* was never started: see ExecFail.                                        *)
CancelledJobsLeave ==
    \A j \in Jobs :
        (j \in cancelled) ~> [](~entry[j].listed \/ proc[j] = "none")
-----------------------------------------------------------------------------
(* The inductive invariant behind them.  A handler's position determines   *)
(* what the other parts may be doing with the same job; with that, every   *)
(* status on its way to a row (in a PUT, in a user's snapshot) stays       *)
(* justified until it is saved.                                            *)

SubmitInv ==
    \A j \in Jobs :
        /\ add[j] = "start" => row[j] = NoRow
        /\ add[j] \in {"start", "inserted", "routed", "stored"} => submit[j] = "none"
        /\ submit[j] \in {"none", "sent"} => wadd[j] = "idle"

ExecInv ==
    \A j \in Jobs :
        /\ exec[j] # "idle" => wadd[j] = "done"
        /\ exec[j] \in {"idle", "prep", "failing"} => proc[j] = "none"
        /\ exec[j] \in {"announcing", "pumping", "finishing"} => proc[j] # "none"
        /\ exec[j] \in {"finishing", "done"} => proc[j] # "running"

ListInv ==
    \A j \in Jobs :
        /\ wadd[j] \in {"listed", "ready", "reporting"} => entry[j].listed
        /\ exec[j] \in {"prep", "failing", "announcing", "pumping", "finishing"}
              => entry[j].listed
        /\ exec[j] = "done" /\ entry[j].listed => proc[j] = "none"
        /\ UserCancel(j) => j \in cancelled

ReportInv ==
    \A j \in Jobs : report[j].pc \in {"sent", "merged"} =>
        /\ exec[j] # "done"
        /\ report[j].status = "NOTSTARTED" => exec[j] = "idle"
        /\ report[j].status = "INPROGRESS" => exec[j] \in {"announcing", "dead"}

SnapshotInv ==
    /\ \A j \in Jobs :
         report[j].pc \in {"sent", "merged"} => report[j].status \in Justified(j)
    /\ \A e \in Edits :
         edit[e].pc = "merged" => edit[e].status \in Justified(edit[e].job)

ControlInv == SubmitInv /\ ExecInv /\ ListInv /\ ReportInv

IInv == TypeOK /\ ControlInv /\ SnapshotInv /\ StatusJustified
-----------------------------------------------------------------------------
(* The refinement mapping to JobLifecycle.                                 *)

Gone == {j \in Jobs : add[j] # "start" /\ row[j] = NoRow}

Blamed ==
    {j \in Jobs : \/ add[j] = "failed"
                  \/ \E k \in Kills : kill[k].job = j /\ kill[k].pc = "failed"}

LifeOf(j) ==
    IF proc[j] # "none" THEN proc[j]
    ELSE IF exec[j] \in {"failing", "done", "dead"} THEN "never"
    ELSE IF wadd[j] \in {"reporting", "done", "aborted"} THEN "taken" ELSE "new"

Lifecycle == INSTANCE JobLifecycle WITH
    shown <- row, gone <- Gone, life <- [j \in Jobs |-> LifeOf(j)],
    flagged <- cancelled, blamed <- Blamed

(* The manager and the workers, with all that may go wrong between them,   *)
(* keep what JobLifecycle promises: every save of a row is warranted by    *)
(* the script's life at that moment, a deleted job stays deleted whatever  *)
(* late save comes in, and a script's life never goes back.                *)
ImplementsLifecycle == Lifecycle!Spec
-----------------------------------------------------------------------------
(* Statements of the repository that the code does not keep.               *)

(* obdi-worker/jobs.go:114 "Kill the whole process group (-pid)", for      *)
(* which exec.go:159 saves the pid "so it can be killed": when DeleteJob   *)
(* has sent its signal to a job with an entry, the script is not running.  *)
KillStopsTheScript ==
    [][\A k \in Kills :
         wkill[k].pc = "marked" /\ wkill'[k].pc = "done"
            => up'[wkill[k].to] = up[wkill[k].to] /\ proc'[wkill[k].job] # "running"]_vars

(* obdi/jobs.go:486 "Load data from db, then ... overwrite any sent        *)
(* fields": a PUT without Status leaves Status as it is in the database.   *)
OnlySentFieldsChange == [][\A j \in Jobs : EditSaved(j) => row'[j] = row[j]]_vars
=============================================================================
