---------------------------- MODULE JobLifecycle ----------------------------
(***************************************************************************)
(* What obdi promises about a job, seen from outside: the life of its      *)
(* script on the worker, which only moves forward, and the status shown    *)
(* in the manager, which may lag, skip or fall back, but never claims what *)
(* the script's life does not warrant, and never comes back once deleted.  *)
(***************************************************************************)
CONSTANTS Jobs, Status, NoRow

VARIABLES
    shown,    \* [Jobs -> Status of the job's row, or NoRow]
    gone,     \* the jobs whose row was deleted
    life,     \* [Jobs -> Life]
    flagged,  \* the jobs a worker accepted a kill for
    blamed    \* the jobs one of the manager's handlers failed on

vars == <<shown, gone, life, flagged, blamed>>

Life == {"new", "taken", "running", "never", "exit0", "exit1", "killed"}

(* "never": the worker gave the script up, or died, before starting it. *)
Follows == {<<"new", "taken">>, <<"taken", "running">>, <<"taken", "never">>,
            <<"running", "exit0">>, <<"running", "exit1">>, <<"running", "killed">>}

Init ==
    /\ shown = [j \in Jobs |-> NoRow]
    /\ gone = {}
    /\ life = [j \in Jobs |-> "new"]
    /\ flagged = {}
    /\ blamed = {}

Warranted(j, s) ==
    /\ s = "NOTSTARTED" => life[j] # "new"
    /\ s = "INPROGRESS" => life[j] \in {"running", "exit0", "exit1", "killed"}
    /\ s = "OK" => life[j] = "exit0"
    /\ s = "USERCANCELLED" => j \in flagged /\ life[j] \in {"exit1", "killed"}
    /\ s = "SYSCANCELLED" => life[j] = "never"
    /\ s = "ERROR" => j \in blamed \/ life[j] \in {"exit1", "killed"}

Submit(j) ==
    /\ shown[j] = NoRow /\ j \notin gone
    /\ shown' = [shown EXCEPT ![j] = "UNKNOWN"]
    /\ UNCHANGED <<gone, life, flagged, blamed>>

Show(j, s) ==
    /\ shown[j] # NoRow
    /\ Warranted(j, s)
    /\ shown' = [shown EXCEPT ![j] = s]
    /\ UNCHANGED <<gone, life, flagged, blamed>>

(* One of the manager's handlers gives up on the job and says so. *)
GiveUp(j) ==
    /\ blamed' = blamed \cup {j}
    /\ shown' = IF shown[j] = NoRow THEN shown ELSE [shown EXCEPT ![j] = "ERROR"]
    /\ UNCHANGED <<gone, life, flagged>>

Delete(j) ==
    /\ shown[j] # NoRow
    /\ shown' = [shown EXCEPT ![j] = NoRow]
    /\ gone' = gone \cup {j}
    /\ UNCHANGED <<life, flagged, blamed>>

Flag(j) ==
    /\ flagged' = flagged \cup {j}
    /\ UNCHANGED <<shown, gone, life, blamed>>

(* Lives move forward; a worker's death moves those of all its jobs. *)
Advance ==
    /\ life' \in [Jobs -> Life]
    /\ \A j \in Jobs : life'[j] = life[j] \/ <<life[j], life'[j]>> \in Follows
    /\ UNCHANGED <<shown, gone, flagged, blamed>>

Next ==
    \/ \E j \in Jobs :
         \/ Submit(j) \/ GiveUp(j) \/ Delete(j) \/ Flag(j)
         \/ \E s \in Status : Show(j, s)
    \/ Advance

Spec == Init /\ [][Next]_vars
=============================================================================
