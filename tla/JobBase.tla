------------------------------ MODULE JobBase ------------------------------
(***************************************************************************)
(* What the obdi manager and the obdi workers share about a job: the       *)
(* status codes, and the three HTTP calls that carry a job between them.   *)
(*                                                                         *)
(*   POST   /api/jobs              manager -> worker   (submit)            *)
(*   PUT    /api/<user>/<guid>/jobs/<id>  worker -> manager (report)       *)
(*   DELETE /api/jobs              manager -> worker   (wkill)             *)
(*                                                                         *)
(* Neither daemon sets a timeout on its transport, so a caller waits until *)
(* it is answered or its connection breaks; a call whose connection broke  *)
(* may still be served.                                                    *)
(***************************************************************************)
CONSTANTS
    Jobs,      \* the jobs users submit; each becomes one row of table jobs
    Workers,   \* the worker daemons
    NoWorker,  \* an environment (or capability) with no WorkerUrl/WorkerKey
    MisKeyed,  \* the workers whose key differs from the one the manager has
    Kills,     \* the KillJob requests users make
    Edits,     \* the PUTs of users that change another field than Status
    Events     \* what the environment may do in this instance: see AllEvents

(***************************************************************************)
(* "break": a connection breaks under a caller;  "refuse": the manager     *)
(* answers a PUT 401 twice;  "login": a worker cannot log in;              *)
(* "prep": a script cannot be written or forked;  "crash", "restart": of a *)
(* worker;  "mgrcrash": the manager dies and is started again;  "delete":  *)
(* a user deletes a job;  "reconf": an admin changes the worker tables.    *)
(***************************************************************************)
AllEvents == {"break", "refuse", "login", "prep", "crash", "restart",
              "mgrcrash", "delete", "reconf"}

ASSUME JobsAssumption ==
    /\ Jobs # {}
    /\ NoWorker \notin Workers
    /\ MisKeyed \subseteq Workers
    /\ Events \subseteq AllEvents

(* The status codes of both daemons (the const blocks agree). *)
Status == {"UNKNOWN", "NOTSTARTED", "USERCANCELLED", "SYSCANCELLED",
           "INPROGRESS", "OK", "ERROR"}

(* A job in one of these has ended, as far as its reader can tell. *)
Ended == {"USERCANCELLED", "SYSCANCELLED", "OK", "ERROR"}

(* No live row: not inserted yet, or soft-deleted. *)
NoRow == "NOROW"

(* The job field of a request that is not made yet. *)
AnyJob == CHOOSE j \in Jobs : TRUE

VARIABLES
    to,      \* [Jobs -> worker AddJob selected for the job, or NoWorker]
    submit,  \* [Jobs -> the POST that carries the job to its worker]
    report,  \* [Jobs -> the PUT that carries a status to the manager]
    wkill    \* [Kills -> the DELETE that carries a kill to a worker]

netVars == <<to, submit, report, wkill>>

(* "sent": on the wire; "held": a worker's AddJob handler is running. *)
SubmitState == {"none", "sent", "held", "ok", "error"}

(* "merged": UpdateJob has read the row and overlaid the payload, and has  *)
(* not saved it yet; "saved" and "refused" are answers; "broken": the      *)
(* manager died while serving the call.                                    *)
ReportState == {"none", "sent", "merged", "saved", "refused", "broken"}

(* pid: what FindJob returned, TRUE once SetPid has run. *)
KillState == {"none", "sent", "found", "marked", "done"}

NetInit ==
    /\ to = [j \in Jobs |-> NoWorker]
    /\ submit = [j \in Jobs |-> "none"]
    /\ report = [j \in Jobs |-> [pc |-> "none", status |-> "UNKNOWN"]]
    /\ wkill = [k \in Kills |->
                  [pc |-> "none", job |-> AnyJob,
                   to |-> NoWorker, pid |-> FALSE]]

NetTypeOK ==
    /\ to \in [Jobs -> Workers \cup {NoWorker}]
    /\ submit \in [Jobs -> SubmitState]
    /\ report \in [Jobs -> [pc : ReportState, status : Status]]
    /\ wkill \in [Kills -> [pc : KillState, job : Jobs,
                            to : Workers \cup {NoWorker}, pid : BOOLEAN]]

(* sendStatus begins: the PUT leaves, and the caller waits for its answer. *)
SendStatus(j, s) ==
    report' = [report EXCEPT ![j] = [pc |-> "sent", status |-> s]]

(* sendStatus returned; its result is only logged. *)
Answered(j) == report[j].pc \in {"saved", "refused"}

(* client.Do failed: PUT drops the error and returns a nil response, which *)
(* sendStatus dereferences.                                                *)
NoResponse(j) ==
    \/ report[j].pc = "broken"
    \/ "break" \in Events /\ report[j].pc # "none"
=============================================================================
