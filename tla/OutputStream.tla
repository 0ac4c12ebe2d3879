---------------------------- MODULE OutputStream ----------------------------
(***************************************************************************)
(* The output of one job: the script that writes to two pipes, execCmd     *)
(* that reads them, and the rows it has the manager save.                  *)
(*                                                                         *)
(* What is written to stdout is counted in characters; the numbers in      *)
(* Newlines are the line feeds.  Nobody changes the text, so every place   *)
(* it passes is a stretch of the count:                                    *)
(*   flushed <= gathered <= queued <= taken <= wrote                       *)
(*     sent  |  lines    | input   | getInput | pipe                       *)
(***************************************************************************)
EXTENDS Integers

CONSTANTS
    MaxOut, MaxErr,  \* what the script writes at most (a bound)
    OutCap, ErrCap,  \* what the pipes hold
    Newlines,        \* where the line feeds are
    Events           \* what may happen in this instance: a subset of OutputEvents

(* "lose": a POST fails, or is refused twice;  "break": its connection     *)
(* breaks while the manager serves it;  "delete": DeleteOutputLine;        *)
(* "kill": the script is killed.                                           *)
OutputEvents == {"lose", "break", "delete", "kill"}

ASSUME OutputAssumption ==
    /\ MaxOut \in Nat /\ MaxErr \in Nat
    /\ OutCap \in Nat \ {0} /\ ErrCap \in Nat \ {0}
    /\ Newlines \subseteq 1 .. MaxOut
    /\ Events \subseteq OutputEvents

VARIABLES
    type,      \* job.Type: 1, a user's job, or 2, a system job
    script,    \* what the script is at
    wrote,     \* how much it has written to stdout
    errWrote,  \* and to stderr
    rdr,       \* where the goroutine getInput is
    taken,     \* how much was read from stdout
    queued,    \* how much of it was put into the channel input
    full,      \* there is an element in the channel
    pc,        \* where execCmd is
    gathered,  \* how much is or was in lines
    flushed,   \* how much of it was sent
    serial,    \* the number of the next row
    post,      \* the row sendOutputLine is sending
    errTaken,  \* how much was read from stderr
    table,     \* the job's rows of table output_lines
    late,      \* rows the manager still has to save, after their caller left
    gone       \* history: rows that were lost or deleted

scriptVars == <<type, script, wrote, errWrote>>
inputVars == <<rdr, taken, queued, full>>
execVars == <<pc, gathered, flushed, serial, post, errTaken>>
tableVars == <<table, late, gone>>
outputVars == <<scriptVars, inputVars, execVars, tableVars>>

ScriptState == {"computing", "out", "err", "exit0", "exit1"}
ReaderState == {"read", "put", "putlast", "close", "closed"}
ExecState == {"loop", "all", "sendloop", "sendlast", "stderr", "wait", "senderr", "done"}

(* The stretch from + 1 .. to of what the script wrote. *)
Row == [serial : Nat \ {0}, kind : {"out", "err"}, from : Nat, to : Nat]
NoRow == [serial |-> 0, kind |-> "out", from |-> 0, to |-> 0]

OutputInit ==
    /\ type \in {1, 2}
    /\ script = "computing" /\ wrote = 0 /\ errWrote = 0
    /\ rdr = "read" /\ taken = 0 /\ queued = 0 /\ full = FALSE
    /\ pc = IF type = 2 THEN "all" ELSE "loop"
    /\ gathered = 0 /\ flushed = 0 /\ serial = 1 /\ post = NoRow /\ errTaken = 0
    /\ table = {} /\ late = {} /\ gone = {}

OutputTypeOK ==
    /\ type \in {1, 2} /\ script \in ScriptState /\ wrote \in Nat /\ errWrote \in Nat
    /\ rdr \in ReaderState /\ taken \in Nat /\ queued \in Nat /\ full \in BOOLEAN
    /\ pc \in ExecState /\ gathered \in Nat /\ flushed \in Nat /\ serial \in Nat
    /\ post \in Row \cup {NoRow} /\ errTaken \in Nat
    /\ table \subseteq Row /\ late \subseteq Row /\ gone \subseteq Row

-----------------------------------------------------------------------------
(* The script: it writes one character at a time, and waits while the pipe *)
(* is full.                                                                *)
Exited == script \in {"exit0", "exit1"}

ScriptDecides ==
    /\ script = "computing"
    /\ \/ wrote < MaxOut /\ script' = "out"
       \/ errWrote < MaxErr /\ script' = "err"
       \/ script' \in {"exit0", "exit1"}
    /\ UNCHANGED <<type, wrote, errWrote, inputVars, execVars, tableVars>>

ScriptWritesOut ==
    /\ script = "out"
    /\ wrote - taken < OutCap
    /\ wrote' = wrote + 1
    /\ script' = "computing"
    /\ UNCHANGED <<type, errWrote, inputVars, execVars, tableVars>>

ScriptWritesErr ==
    /\ script = "err"
    /\ errWrote - errTaken < ErrCap
    /\ errWrote' = errWrote + 1
    /\ script' = "computing"
    /\ UNCHANGED <<type, wrote, inputVars, execVars, tableVars>>

ScriptKilled ==
    /\ "kill" \in Events
    /\ ~Exited
    /\ script' = "exit1"
    /\ UNCHANGED <<type, wrote, errWrote, inputVars, execVars, tableVars>>

ScriptStep == ScriptDecides \/ ScriptWritesOut \/ ScriptWritesErr

-----------------------------------------------------------------------------
(* getInput                                                                *)

(* ReadString: to the next line feed ... *)
GetInputRead ==
    /\ type = 1 /\ rdr = "read"
    /\ taken < wrote
    /\ taken' = taken + 1
    /\ rdr' = IF taken + 1 \in Newlines THEN "put" ELSE "read"
    /\ UNCHANGED <<queued, full, scriptVars, execVars, tableVars>>

(* Mutant of GetInputEof: what was read before the end is dropped. *)
GetInputEofDrops ==
    /\ type = 1 /\ rdr = "read"
    /\ taken = wrote /\ Exited
    /\ rdr' = "close"
    /\ UNCHANGED <<taken, queued, full, scriptVars, execVars, tableVars>>

(* Mutant of GetInputEof: the error is not looked at. *)
GetInputEofAgain ==
    /\ type = 1 /\ rdr = "read"
    /\ taken = wrote /\ Exited
    /\ rdr' = "put"
    /\ UNCHANGED <<taken, queued, full, scriptVars, execVars, tableVars>>

(* ... or to the end of the file, with an error. *)
GetInputEof ==
    /\ type = 1 /\ rdr = "read"
    /\ taken = wrote /\ Exited
    /\ rdr' = "putlast"
    /\ UNCHANGED <<taken, queued, full, scriptVars, execVars, tableVars>>

(* The channel holds one element. *)
GetInputPut ==
    /\ rdr \in {"put", "putlast"}
    /\ ~full
    /\ full' = TRUE
    /\ queued' = taken
    /\ rdr' = IF rdr = "put" THEN "read" ELSE "close"
    /\ UNCHANGED <<taken, scriptVars, execVars, tableVars>>

GetInputClose ==
    /\ rdr = "close"
    /\ rdr' = "closed"
    /\ UNCHANGED <<taken, queued, full, scriptVars, execVars, tableVars>>

GetInput == GetInputRead \/ GetInputEof \/ GetInputPut \/ GetInputClose

-----------------------------------------------------------------------------
(* The loop of execCmd                                                     *)

Post(kind, from, to) ==
    post' = [serial |-> serial, kind |-> kind, from |-> from, to |-> to]

LoopInput ==
    /\ pc = "loop"
    /\ full
    /\ full' = FALSE
    /\ gathered' = queued
    /\ UNCHANGED <<rdr, taken, queued, pc, flushed, serial, post, errTaken,
                   scriptVars, tableVars>>

(* Mutant of LoopTick: serial is not counted up. *)
LoopTickSameSerial ==
    /\ pc = "loop"
    /\ flushed < gathered
    /\ Post("out", flushed, gathered)
    /\ flushed' = gathered
    /\ pc' = "sendloop"
    /\ UNCHANGED <<gathered, serial, errTaken, scriptVars, inputVars, tableVars>>

(* Mutant of LoopTick: what there is is sent only once the channel is closed. *)
LoopTickAtEof ==
    /\ pc = "loop"
    /\ flushed < gathered /\ rdr = "closed"
    /\ Post("out", flushed, gathered)
    /\ serial' = serial + 1
    /\ flushed' = gathered
    /\ pc' = "sendloop"
    /\ UNCHANGED <<gathered, errTaken, scriptVars, inputVars, tableVars>>

(* The ticker ticks every second. *)
LoopTick ==
    /\ pc = "loop"
    /\ flushed < gathered
    /\ Post("out", flushed, gathered)
    /\ serial' = serial + 1
    /\ flushed' = gathered
    /\ pc' = "sendloop"
    /\ UNCHANGED <<gathered, errTaken, scriptVars, inputVars, tableVars>>

(* The channel is closed and empty; serial is counted up in the loop and   *)
(* once more after it.                                                     *)
LoopEnd ==
    /\ pc = "loop"
    /\ ~full /\ rdr = "closed"
    /\ Post("out", flushed, gathered)
    /\ serial' = serial + 2
    /\ flushed' = gathered
    /\ pc' = "sendlast"
    /\ UNCHANGED <<gathered, errTaken, scriptVars, inputVars, tableVars>>

-----------------------------------------------------------------------------
(* A system job: all of stdout is read, and sent in one row. *)
AllRead ==
    /\ pc = "all"
    /\ taken < wrote
    /\ taken' = taken + 1
    /\ UNCHANGED <<rdr, queued, full, execVars, scriptVars, tableVars>>

AllEnd ==
    /\ pc = "all"
    /\ taken = wrote /\ Exited
    /\ Post("out", 0, taken)
    /\ serial' = serial + 1
    /\ queued' = taken /\ gathered' = taken /\ flushed' = taken
    /\ pc' = "sendlast"
    /\ UNCHANGED <<rdr, taken, full, errTaken, scriptVars, tableVars>>

-----------------------------------------------------------------------------
(* stderr, once stdout is at its end *)
StderrRead ==
    /\ pc = "stderr"
    /\ errTaken < errWrote
    /\ errTaken' = errTaken + 1
    /\ UNCHANGED <<pc, gathered, flushed, serial, post, scriptVars, inputVars, tableVars>>

StderrEnd ==
    /\ pc = "stderr"
    /\ errTaken = errWrote /\ Exited
    /\ pc' = "wait"
    /\ UNCHANGED <<gathered, flushed, serial, post, errTaken, scriptVars, inputVars, tableVars>>

(* It is sent if the script failed. *)
Wait ==
    /\ pc = "wait"
    /\ IF script = "exit0" THEN pc' = "done" /\ UNCHANGED post
       ELSE pc' = "senderr" /\ Post("err", 0, errTaken)
    /\ UNCHANGED <<gathered, flushed, serial, errTaken, scriptVars, inputVars, tableVars>>

-----------------------------------------------------------------------------
(* sendOutputLine, whose error nobody looks at, and AddOutputLine.         *)
Sending == pc \in {"sendloop", "sendlast", "senderr"}
AfterSend == CASE pc = "sendloop" -> "loop"
               [] pc = "sendlast" -> "stderr"
               [] pc = "senderr" -> "done"

Sent ==
    /\ Sending
    /\ pc' = AfterSend
    /\ UNCHANGED <<gathered, flushed, serial, post, errTaken, scriptVars, inputVars>>

AddOutputLine ==
    /\ Sent
    /\ table' = table \cup {post}
    /\ UNCHANGED <<late, gone>>

SendFails ==
    /\ "lose" \in Events
    /\ Sent
    /\ gone' = gone \cup {post}
    /\ UNCHANGED <<table, late>>

SendBreaks ==
    /\ "break" \in Events
    /\ Sent
    /\ late' = late \cup {post}
    /\ UNCHANGED <<table, gone>>

AddLate ==
    /\ \E row \in late : late' = late \ {row} /\ table' = table \cup {row}
    /\ UNCHANGED <<gone, scriptVars, inputVars, execVars>>

DeleteOutputLine ==
    /\ "delete" \in Events
    /\ table # {}
    /\ table' = {}
    /\ gone' = gone \cup table
    /\ UNCHANGED <<late, scriptVars, inputVars, execVars>>

-----------------------------------------------------------------------------
ExecStep ==
    \/ LoopInput \/ LoopTick \/ LoopEnd \/ AllRead \/ AllEnd
    \/ StderrRead \/ StderrEnd \/ Wait
    \/ AddOutputLine \/ SendFails \/ SendBreaks

OutputNext ==
    \/ ScriptStep \/ ScriptKilled
    \/ GetInput
    \/ ExecStep
    \/ AddLate \/ DeleteOutputLine

OutputSpec == OutputInit /\ [][OutputNext]_outputVars

(* The goroutines are scheduled, the ticker ticks, the manager answers.    *)
(* Nothing is assumed of the script.                                       *)
OutputFairSpec ==
    /\ OutputSpec
    /\ WF_outputVars(GetInput) /\ WF_outputVars(ExecStep)
    /\ WF_outputVars(LoopTick) /\ WF_outputVars(AddLate)

(* A script that does not loop, and whose writes return if there is room.  *)
OutputScriptSpec == OutputFairSpec /\ WF_outputVars(ScriptStep)

-----------------------------------------------------------------------------
Sets == table \cup late \cup gone
Posted == Sets \cup (IF Sending THEN {post} ELSE {})

(* The rows of table output_lines, ordered by serial, are in the order the *)
(* script wrote, without overlap, and stderr comes last; whatever was      *)
(* lost, deleted or saved late (GetAllOutputLines orders by serial).       *)
RowsInOrder ==
    \A r, s \in table : r # s =>
        /\ r.serial # s.serial
        /\ r.serial < s.serial => r.kind = "out" /\ (s.kind = "out" => r.to <= s.from)

(* When execCmd is at its end, each character of stdout is in a row that   *)
(* was sent, none was sent twice, and so is stderr if the script failed    *)
(* (the three places output can be cut: line feed, tick, end of file).     *)
NothingMissing ==
    pc = "done" =>
        /\ \A i \in 1 .. wrote : \E r \in Sets : r.kind = "out" /\ r.from < i /\ i <= r.to
        /\ script = "exit1" =>
             \E r \in Sets : r.kind = "err" /\ r.to = errWrote

(* A complete line of a user's job gets to the manager while the script    *)
(* still runs, even if it does nothing more (the ticker of execCmd).       *)
LinesAppear ==
    \A n \in Newlines :
        (type = 1 /\ wrote >= n) ~>
            (\E r \in Sets : r.kind = "out" /\ r.from < n /\ n <= r.to)

(* If the script does not loop, execCmd ends, unless the script waits for  *)
(* room in its stderr, which is not read before stdout is at its end.      *)
StderrFull == script = "err" /\ errWrote - errTaken = ErrCap
EndsUnlessFull ==
    WF_outputVars(ScriptStep) => <>[](pc = "done" \/ (StderrFull /\ pc \in {"loop", "all"}))

(* obdi-worker/exec.go:216 "Read anything in stderr": whatever is written  *)
(* to it.                                                                  *)
StderrIsRead == \A n \in 1 .. MaxErr : (errWrote >= n) ~> (errTaken >= n)
=============================================================================
