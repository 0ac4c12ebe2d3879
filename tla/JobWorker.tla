------------------------------ MODULE JobWorker ------------------------------
(***************************************************************************)
(* The worker daemons: the list of jobs each keeps, its handlers AddJob    *)
(* and DeleteJob, the goroutine execCmd that runs a job's script, and the  *)
(* process group of the script itself.  A job is sent to one worker, once, *)
(* so everything is indexed by the job; to[j] says which worker it is on.  *)
(***************************************************************************)
EXTENDS JobBase

VARIABLES
    up,        \* [Workers -> the daemon is running]
    guid,      \* [Workers -> the daemon has a session GUID]
    entry,     \* [Jobs -> the job's entry in api.jobs]
    wadd,      \* [Jobs -> where the worker's AddJob handler is]
    exec,      \* [Jobs -> where execCmd is]
    proc,      \* [Jobs -> the script's process group]
    cancelled  \* history: the jobs SetUserCancel was done for

workerVars == <<up, guid, entry, wadd, exec, proc, cancelled>>

WaddState == {"idle", "listed", "ready", "reporting", "done", "aborted"}
ExecState == {"idle", "prep", "failing", "announcing", "pumping", "finishing",
              "done", "dead"}
ProcState == {"none", "running", "exit0", "exit1", "killed"}
Entry == [listed : BOOLEAN, pid : BOOLEAN, cancel : BOOLEAN]
NoEntry == [listed |-> FALSE, pid |-> FALSE, cancel |-> FALSE]

WorkerInit ==
    /\ up = [w \in Workers |-> TRUE]
    /\ guid = [w \in Workers |-> FALSE]
    /\ entry = [j \in Jobs |-> NoEntry]
    /\ wadd = [j \in Jobs |-> "idle"]
    /\ exec = [j \in Jobs |-> "idle"]
    /\ proc = [j \in Jobs |-> "none"]
    /\ cancelled = {}

WorkerTypeOK ==
    /\ up \in [Workers -> BOOLEAN]
    /\ guid \in [Workers -> BOOLEAN]
    /\ entry \in [Jobs -> Entry]
    /\ wadd \in [Jobs -> WaddState]
    /\ exec \in [Jobs -> ExecState]
    /\ proc \in [Jobs -> ProcState]
    /\ cancelled \subseteq Jobs

-----------------------------------------------------------------------------
WaddGoto(j, pc) == wadd' = [wadd EXCEPT ![j] = pc]
ExecGoto(j, pc) == exec' = [exec EXCEPT ![j] = pc]
Reply(j, answer) == submit' = [submit EXCEPT ![j] = answer]

(* The operations on api.jobs, each under api.mutex: they look the job up  *)
(* by its id, and do nothing when it is not in the list.                   *)
AppendJob(j) ==
    entry' = [entry EXCEPT ![j] = [listed |-> TRUE, pid |-> FALSE, cancel |-> FALSE]]
SetPid(j) ==
    entry' = IF ~entry[j].listed THEN entry
             ELSE [entry EXCEPT ![j] =
                     [listed |-> TRUE, pid |-> TRUE, cancel |-> entry[j].cancel]]

(* Mutant of SetUserCancel: the call jobs.go:119 has commented out. *)
SetUserCancelAndRemove(j) == entry' = [entry EXCEPT ![j] = NoEntry]

SetUserCancel(j) ==
    entry' = IF ~entry[j].listed THEN entry
             ELSE [entry EXCEPT ![j] =
                     [listed |-> TRUE, pid |-> entry[j].pid, cancel |-> TRUE]]
RemoveJob(j) == entry' = [entry EXCEPT ![j] = NoEntry]
UserCancel(j) == entry[j].listed /\ entry[j].cancel

KillAt(k, pc, pid) == [pc |-> pc, job |-> wkill[k].job, to |-> wkill[k].to, pid |-> pid]

(* Worker w dies: its list, its GUID, its handlers and its goroutines go,  *)
(* the connections of the calls it was serving break.  The scripts it had  *)
(* started run on, in sessions of their own.                               *)
Die(w) ==
    LET On(j) == to[j] = w IN
    /\ up' = [up EXCEPT ![w] = FALSE]
    /\ guid' = [guid EXCEPT ![w] = FALSE]
    /\ entry' = [j \in Jobs |-> IF On(j) THEN NoEntry ELSE entry[j]]
    /\ wadd' = [j \in Jobs |->
                  IF On(j) /\ wadd[j] \in {"listed", "ready", "reporting"}
                  THEN "aborted" ELSE wadd[j]]
    /\ exec' = [j \in Jobs |->
                  IF On(j) /\ exec[j] \notin {"idle", "done"} THEN "dead" ELSE exec[j]]
    /\ submit' = [j \in Jobs |->
                  IF On(j) /\ submit[j] = "held" THEN "error" ELSE submit[j]]
    /\ wkill' = [k \in Kills |->
                  IF wkill[k].to = w /\ wkill[k].pc \in {"found", "marked"}
                  THEN KillAt(k, "done", wkill[k].pid) ELSE wkill[k]]
    /\ UNCHANGED <<proc, cancelled, to, report>>

-----------------------------------------------------------------------------
(* AddJob                                                                  *)

WAddBadKey(j) ==
    /\ submit[j] = "sent" /\ up[to[j]]
    /\ to[j] \in MisKeyed
    /\ Reply(j, "error")
    /\ UNCHANGED <<workerVars, to, report, wkill>>

WAddAppend(j) ==
    /\ submit[j] = "sent" /\ up[to[j]]
    /\ to[j] \notin MisKeyed
    /\ AppendJob(j)
    /\ WaddGoto(j, "listed")
    /\ Reply(j, "held")
    /\ UNCHANGED <<up, guid, exec, proc, cancelled, to, report, wkill>>

(* Logs in when there is no GUID yet; login.go of the manager serves it. *)
WAddLogin(j) ==
    /\ wadd[j] = "listed"
    /\ guid' = [guid EXCEPT ![to[j]] = TRUE]
    /\ WaddGoto(j, "ready")
    /\ UNCHANGED <<up, entry, exec, proc, cancelled, netVars>>

(* Login failed: the error is returned, the entry stays in the list. *)
WAddLoginFails(j) ==
    /\ "login" \in Events
    /\ wadd[j] = "listed"
    /\ ~guid[to[j]]
    /\ WaddGoto(j, "aborted")
    /\ Reply(j, "error")
    /\ UNCHANGED <<up, guid, entry, exec, proc, cancelled, to, report, wkill>>

WAddReport(j) ==
    /\ wadd[j] = "ready"
    /\ SendStatus(j, "NOTSTARTED")
    /\ WaddGoto(j, "reporting")
    /\ UNCHANGED <<up, guid, entry, exec, proc, cancelled, to, submit, wkill>>

(* Mutant of WAddSpawn: NOTSTARTED is sent by a goroutine of its own. *)
WAddSpawnAtOnce(j) ==
    /\ wadd[j] = "reporting"
    /\ WaddGoto(j, "done")
    /\ Reply(j, "ok")
    /\ ExecGoto(j, "prep")
    /\ UNCHANGED <<up, guid, entry, proc, cancelled, to, report, wkill>>

WAddSpawn(j) ==
    /\ wadd[j] = "reporting"
    /\ Answered(j)
    /\ WaddGoto(j, "done")
    /\ Reply(j, "ok")
    /\ ExecGoto(j, "prep")
    /\ UNCHANGED <<up, guid, entry, proc, cancelled, to, report, wkill>>

(* The nil response panics in the handler, which go-json-rest recovers: it *)
(* answers 500, and execCmd is never started.                              *)
WAddPanic(j) ==
    /\ wadd[j] = "reporting"
    /\ NoResponse(j)
    /\ WaddGoto(j, "aborted")
    /\ Reply(j, "error")
    /\ UNCHANGED <<up, guid, entry, exec, proc, cancelled, to, report, wkill>>

WAddStep(j) ==
    \/ WAddBadKey(j) \/ WAddAppend(j) \/ WAddLogin(j) \/ WAddReport(j) \/ WAddSpawn(j)

-----------------------------------------------------------------------------
(* execCmd                                                                 *)

(* TempFile, Write, a pipe or the fork failed. *)
ExecFail(j) ==
    /\ "prep" \in Events
    /\ exec[j] = "prep"
    /\ SendStatus(j, "SYSCANCELLED")
    /\ ExecGoto(j, "failing")
    /\ UNCHANGED <<up, guid, entry, wadd, proc, cancelled, to, submit, wkill>>

(* Those paths return without RemoveJob. *)
ExecFailed(j) ==
    /\ exec[j] = "failing"
    /\ Answered(j)
    /\ ExecGoto(j, "done")
    /\ UNCHANGED <<up, guid, entry, wadd, proc, cancelled, netVars>>

ExecStart(j) ==
    /\ exec[j] = "prep"
    /\ proc' = [proc EXCEPT ![j] = "running"]
    /\ SendStatus(j, "INPROGRESS")
    /\ ExecGoto(j, "announcing")
    /\ UNCHANGED <<up, guid, entry, wadd, cancelled, to, submit, wkill>>

ExecSetPid(j) ==
    /\ exec[j] = "announcing"
    /\ Answered(j)
    /\ SetPid(j)
    /\ ExecGoto(j, "pumping")
    /\ UNCHANGED <<up, guid, wadd, proc, cancelled, netVars>>

(* Mutant of FinalStatus: UserCancel is asked before the exit status. *)
CancelFirstStatus(j) ==
    IF UserCancel(j) THEN "USERCANCELLED"
    ELSE IF proc[j] = "exit0" THEN "OK" ELSE "ERROR"

(* What Wait and UserCancel make of the end of the script. *)
FinalStatus(j) ==
    IF proc[j] = "exit0" THEN "OK"
    ELSE IF UserCancel(j) THEN "USERCANCELLED" ELSE "ERROR"

(* Both pipes are at end of file once the process group is gone. *)
ExecWait(j) ==
    /\ exec[j] = "pumping"
    /\ proc[j] # "running"
    /\ SendStatus(j, FinalStatus(j))
    /\ ExecGoto(j, "finishing")
    /\ UNCHANGED <<up, guid, entry, wadd, proc, cancelled, to, submit, wkill>>

(* Mutant of ExecRemove: an early return like those of ExecFailed. *)
ExecReturnEarly(j) ==
    /\ exec[j] = "finishing"
    /\ Answered(j)
    /\ ExecGoto(j, "done")
    /\ UNCHANGED <<up, guid, entry, wadd, proc, cancelled, netVars>>

(* Mutant of ExecRemove: the last status is sent by a goroutine of its own. *)
ExecRemoveAtOnce(j) ==
    /\ exec[j] = "finishing"
    /\ RemoveJob(j)
    /\ ExecGoto(j, "done")
    /\ UNCHANGED <<up, guid, wadd, proc, cancelled, netVars>>

ExecRemove(j) ==
    /\ exec[j] = "finishing"
    /\ Answered(j)
    /\ RemoveJob(j)
    /\ ExecGoto(j, "done")
    /\ UNCHANGED <<up, guid, wadd, proc, cancelled, netVars>>

(* The nil response panics in a goroutine: the whole worker dies. *)
ExecPanic(j) ==
    /\ exec[j] \in {"failing", "announcing", "finishing"}
    /\ NoResponse(j)
    /\ Die(to[j])

ExecStep(j) ==
    \/ ExecFailed(j) \/ ExecStart(j) \/ ExecSetPid(j) \/ ExecWait(j) \/ ExecRemove(j)

(* The script ends by itself. *)
ScriptExit(j) ==
    /\ proc[j] = "running"
    /\ \E p \in {"exit0", "exit1"} : proc' = [proc EXCEPT ![j] = p]
    /\ UNCHANGED <<up, guid, entry, wadd, exec, cancelled, netVars>>

-----------------------------------------------------------------------------
(* DeleteJob, which serves a kill                                          *)

WKillGoto(k, pc) == wkill' = [wkill EXCEPT ![k] = KillAt(k, pc, wkill[k].pid)]
Reaches(k, j) == wkill[k].to = to[j] /\ entry[j].listed

(* FindJob copies the entry, its Pid with it. *)
WKillFind(k) ==
    LET j == wkill[k].job IN
    /\ wkill[k].pc = "sent" /\ up[wkill[k].to]
    /\ wkill[k].to \notin MisKeyed
    /\ Reaches(k, j)
    /\ wkill' = [wkill EXCEPT ![k] = KillAt(k, "found", entry[j].pid)]
    /\ UNCHANGED <<workerVars, to, submit, report>>

(* Invalid key, or the job is not in this worker's list. *)
WKillRefuse(k) ==
    /\ wkill[k].pc = "sent" /\ up[wkill[k].to]
    /\ wkill[k].to \in MisKeyed \/ ~Reaches(k, wkill[k].job)
    /\ WKillGoto(k, "done")
    /\ UNCHANGED <<workerVars, to, submit, report>>

WKillMark(k) ==
    LET j == wkill[k].job IN
    /\ wkill[k].pc = "found"
    /\ SetUserCancel(j)
    /\ cancelled' = IF entry[j].listed THEN cancelled \cup {j} ELSE cancelled
    /\ WKillGoto(k, "marked")
    /\ UNCHANGED <<up, guid, wadd, exec, proc, to, submit, report>>

(* kill(-pid): the script's process group, if it is still there. *)
WKillGroup(k) ==
    LET j == wkill[k].job IN
    /\ wkill[k].pc = "marked"
    /\ wkill[k].pid
    /\ proc' = IF proc[j] = "running" THEN [proc EXCEPT ![j] = "killed"] ELSE proc
    /\ WKillGoto(k, "done")
    /\ UNCHANGED <<up, guid, entry, wadd, exec, cancelled, to, submit, report>>

(* The entry had no Pid yet: kill(0) is the worker's own process group. *)
WKillSelf(k) ==
    /\ wkill[k].pc = "marked"
    /\ ~wkill[k].pid
    /\ Die(wkill[k].to)

WKillStep(k) ==
    \/ WKillFind(k) \/ WKillRefuse(k) \/ WKillMark(k) \/ WKillGroup(k) \/ WKillSelf(k)

-----------------------------------------------------------------------------
(* The environment of a worker *)

WorkerCrash(w) ==
    /\ "crash" \in Events
    /\ up[w]
    /\ Die(w)

(* init/obdi-worker.service: Restart=always. *)
WorkerRestart(w) ==
    /\ "restart" \in Events
    /\ ~up[w]
    /\ up' = [up EXCEPT ![w] = TRUE]
    /\ UNCHANGED <<guid, entry, wadd, exec, proc, cancelled, netVars>>

(* A call to a worker that is down is refused by its host. *)
SubmitNoWorker(j) ==
    /\ submit[j] = "sent" /\ ~up[to[j]]
    /\ Reply(j, "error")
    /\ UNCHANGED <<workerVars, to, report, wkill>>

KillNoWorker(k) ==
    /\ wkill[k].pc = "sent" /\ ~up[wkill[k].to]
    /\ WKillGoto(k, "done")
    /\ UNCHANGED <<workerVars, to, submit, report>>

WorkerNext ==
    \/ \E j \in Jobs :
         \/ WAddStep(j) \/ WAddLoginFails(j) \/ WAddPanic(j)
         \/ ExecStep(j) \/ ExecFail(j) \/ ExecPanic(j)
         \/ ScriptExit(j) \/ SubmitNoWorker(j)
    \/ \E k \in Kills : WKillStep(k) \/ KillNoWorker(k)
    \/ \E w \in Workers : WorkerCrash(w) \/ WorkerRestart(w)
=============================================================================
