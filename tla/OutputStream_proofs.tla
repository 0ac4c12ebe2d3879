------------------------ MODULE OutputStream_proofs ------------------------
(***************************************************************************)
(* Proofs about OutputStream, for any bounds, pipes, line feeds and events.*)
(*                                                                         *)
(* The rows that were ever made, with the one being sent, are Posted.      *)
(* Nothing but the four steps that make a row changes this set, so the     *)
(* argument is about them: a new row begins where the last one ended       *)
(* (RowsInv), with a higher number, and ends where everything has been     *)
(* gathered (StretchInv).                                                  *)
(***************************************************************************)
EXTENDS OutputStream, TLAPS

AtEnd == pc \in {"sendlast", "stderr", "wait", "senderr", "done"}

(* The stretches of stdout, and where its reader is. *)
StretchInv ==
    /\ flushed <= gathered /\ gathered <= queued /\ queued <= taken
    /\ taken <= wrote
    /\ ~full => gathered = queued
    /\ rdr \in {"putlast", "close", "closed"} => taken = wrote /\ Exited
    /\ rdr \in {"close", "closed"} => queued = taken
    /\ AtEnd => flushed = wrote /\ Exited
    /\ pc \in {"loop", "sendloop"} => type = 1
    /\ pc = "all" => type = 2 /\ flushed = 0 /\ gathered = 0 /\ queued = 0
    /\ type = 2 => rdr = "read" /\ ~full

StderrInv ==
    /\ errTaken <= errWrote
    /\ pc \in {"wait", "senderr", "done"} => errTaken = errWrote
    /\ pc = "senderr" => /\ post.kind = "err" /\ post.to = errTaken
                         /\ script = "exit1"
    /\ pc \in {"sendloop", "sendlast"} => post.kind = "out"

(* Two rows in their order. *)
InOrder(r, s) ==
    /\ r.serial # s.serial
    /\ r.serial < s.serial => r.kind = "out" /\ (s.kind = "out" => r.to <= s.from)

RowsInv ==
    /\ Sending => post \in Row
    /\ serial >= 1
    /\ \A r \in Posted :
         /\ r.kind = "out" => r.serial < serial /\ r.to <= flushed
         /\ r.kind = "err" => r.serial = serial /\ pc \in {"senderr", "done"}
    /\ \A r, s \in Posted : r # s => InOrder(r, s)

Covered(i) == \E r \in Posted : r.kind = "out" /\ r.from < i /\ i <= r.to

CoverInv ==
    /\ \A i \in 1 .. flushed : Covered(i)
    /\ pc = "done" /\ script = "exit1" =>
         \E r \in Posted : r.kind = "err" /\ r.to = errWrote

OutputInv == OutputTypeOK /\ StretchInv /\ StderrInv /\ RowsInv /\ CoverInv

-----------------------------------------------------------------------------
THEOREM OutputInvInit == OutputInit => OutputInv
<1> SUFFICES ASSUME OutputInit PROVE OutputInv
  OBVIOUS
<1> USE DEF OutputInit
<1>1. OutputTypeOK
  BY DEF OutputTypeOK, ScriptState, ReaderState, ExecState
<1>2. StretchInv /\ StderrInv
  BY DEF StretchInv, StderrInv, AtEnd
<1>3. Posted = {}
  BY DEF Posted, Sets, Sending
<1>4. RowsInv /\ CoverInv
  BY <1>3 DEF RowsInv, CoverInv, Covered, Sending
<1> QED BY <1>1, <1>2, <1>4 DEF OutputInv

-----------------------------------------------------------------------------
(* A step that makes no row: it keeps what is said about the rows.         *)
LEMMA NoNewRow ==
    ASSUME OutputInv, OutputTypeOK', StretchInv', StderrInv',
           Posted' = Posted, UNCHANGED <<flushed, serial>>,
           Sending' => post' \in Row,
           pc \in {"senderr", "done"} => pc' \in {"senderr", "done"},
           pc' = "done" /\ script' = "exit1" =>
             \E r \in Posted : r.kind = "err" /\ r.to = errWrote'
    PROVE  OutputInv'
<1> USE DEF OutputInv
<1>1. RowsInv'
  BY DEF RowsInv, InOrder
<1>2. CoverInv'
  BY DEF CoverInv, Covered
<1> QED BY <1>1, <1>2

(* Before the end nothing was sent from stderr; after it, nothing moves.   *)
LEMMA NoErrRow ==
    ASSUME OutputInv, pc \notin {"senderr", "done"}
    PROVE  \A r \in Posted : r.kind = "out" /\ r.serial < serial /\ r.to <= flushed
BY DEF OutputInv, RowsInv, OutputTypeOK, Posted, Sets, Row, Sending

(* A step that makes the row of the stretch from flushed on.               *)
LEMMA NewOutRow ==
    ASSUME OutputInv, OutputTypeOK', StretchInv', StderrInv',
           ~Sending, pc \notin {"senderr", "done"}, pc' \in {"sendloop", "sendlast"},
           UNCHANGED tableVars,
           Post("out", flushed, flushed'), flushed <= flushed', serial < serial'
    PROVE  OutputInv'
<1> USE DEF OutputInv
<1>1. /\ serial \in Nat /\ serial >= 1 /\ serial' \in Nat
      /\ flushed \in Nat /\ flushed' \in Nat
  BY DEF OutputTypeOK, RowsInv
<1>2. Sending' /\ Posted' = Posted \cup {post'}
  BY DEF Sending, Posted, Sets, tableVars
<1>3. /\ post' \in Row /\ post'.serial = serial /\ post'.kind = "out"
      /\ post'.from = flushed /\ post'.to = flushed'
  BY <1>1 DEF Post, Row
<1>4. \A r \in Posted : /\ r.kind = "out" /\ r.serial < serial /\ r.to <= flushed
                        /\ r.serial \in Nat /\ r.to \in Nat
  BY NoErrRow DEF Posted, Sets, OutputTypeOK, Row, Sending
<1>5. RowsInv'
  <2>1. \A r \in Posted' : r.kind = "out" /\ r.serial < serial' /\ r.to <= flushed'
    BY <1>1, <1>2, <1>3, <1>4
  <2>2. \A r \in Posted : InOrder(r, post') /\ InOrder(post', r)
    BY <1>1, <1>3, <1>4 DEF InOrder
  <2>3. \A r, s \in Posted' : r # s => InOrder(r, s)
    BY <1>2, <2>2 DEF RowsInv
  <2> QED BY <1>1, <1>3, <2>1, <2>3 DEF RowsInv, InOrder
<1>6. CoverInv'
  <2>1. \A i \in 1 .. flushed' : i <= flushed \/ (post'.from < i /\ i <= post'.to)
    BY <1>1, <1>3
  <2>2. \A i \in 1 .. flushed' : i <= flushed => i \in 1 .. flushed
    BY <1>1
  <2>3. \A i \in 1 .. flushed' : \E r \in Posted' : r.kind = "out" /\ r.from < i /\ i <= r.to
    BY <1>2, <1>3, <2>1, <2>2 DEF CoverInv, Covered
  <2> QED BY <2>3 DEF CoverInv, Covered
<1> QED BY <1>5, <1>6

-----------------------------------------------------------------------------
(* A step of the script, of its reader, or one that moves a row.           *)
LEMMA ScriptKeeps ==
    ASSUME OutputInv, ScriptStep \/ ScriptKilled PROVE OutputInv'
<1> USE DEF OutputInv, ScriptStep, ScriptDecides, ScriptWritesOut, ScriptWritesErr,
            ScriptKilled, inputVars, execVars, tableVars, Exited
<1>0. ~Exited
  OBVIOUS
<1>1. OutputTypeOK'
  BY DEF OutputTypeOK, ScriptState
<1>2. StretchInv'
  BY <1>0 DEF StretchInv, OutputTypeOK, AtEnd
<1>3. StderrInv'
  BY <1>0 DEF StretchInv, StderrInv, OutputTypeOK, AtEnd
<1>4. Posted' = Posted /\ Sending' = Sending
  BY DEF Posted, Sets, Sending
<1>5. ~AtEnd
  BY <1>0 DEF StretchInv
<1> QED
  BY <1>1, <1>2, <1>3, <1>4, <1>5, NoNewRow DEF AtEnd, RowsInv

LEMMA GetInputKeeps ==
    ASSUME OutputInv, GetInput PROVE OutputInv'
<1> USE DEF OutputInv, GetInput, GetInputRead, GetInputEof, GetInputPut, GetInputClose,
            scriptVars, execVars, tableVars
<1>1. OutputTypeOK'
  <2>1. taken' \in Nat /\ queued' \in Nat /\ rdr' \in ReaderState
    BY DEF OutputTypeOK, ReaderState
  <2>2. full' \in BOOLEAN
    BY Zenon DEF OutputTypeOK
  <2> QED BY <2>1, <2>2 DEF OutputTypeOK
<1>2. StretchInv'
  BY DEF StretchInv, OutputTypeOK, AtEnd, Exited
<1>3. StderrInv'
  BY DEF StderrInv
<1>4. Posted' = Posted /\ Sending' = Sending
  BY DEF Posted, Sets, Sending
<1> QED BY <1>1, <1>2, <1>3, <1>4, NoNewRow DEF RowsInv, CoverInv

LEMMA LoopInputKeeps ==
    ASSUME OutputInv, LoopInput PROVE OutputInv'
<1> USE DEF OutputInv, LoopInput, scriptVars, tableVars
<1>1. OutputTypeOK'
  BY DEF OutputTypeOK
<1>2. StretchInv'
  BY DEF StretchInv, OutputTypeOK, AtEnd, Exited
<1>3. StderrInv'
  BY DEF StderrInv
<1>4. Posted' = Posted /\ Sending' = Sending
  BY DEF Posted, Sets, Sending
<1> QED BY <1>1, <1>2, <1>3, <1>4, NoNewRow DEF RowsInv, CoverInv

LEMMA AllReadKeeps ==
    ASSUME OutputInv, AllRead PROVE OutputInv'
<1> USE DEF OutputInv, AllRead, scriptVars, execVars, tableVars
<1>1. OutputTypeOK'
  BY DEF OutputTypeOK
<1>2. StretchInv'
  BY DEF StretchInv, OutputTypeOK, AtEnd, Exited
<1>3. StderrInv'
  BY DEF StderrInv
<1>4. Posted' = Posted /\ Sending' = Sending
  BY DEF Posted, Sets, Sending
<1> QED BY <1>1, <1>2, <1>3, <1>4, NoNewRow DEF RowsInv, CoverInv

LEMMA StderrKeeps ==
    ASSUME OutputInv, StderrRead \/ StderrEnd PROVE OutputInv'
<1> USE DEF OutputInv, StderrRead, StderrEnd, scriptVars, inputVars, tableVars
<1>1. OutputTypeOK'
  BY DEF OutputTypeOK, ExecState
<1>2. StretchInv'
  BY DEF StretchInv, OutputTypeOK, AtEnd, Exited
<1>3. StderrInv'
  BY DEF StderrInv, OutputTypeOK
<1>4. Posted' = Posted /\ ~Sending'
  BY DEF Posted, Sets, Sending
<1> QED BY <1>1, <1>2, <1>3, <1>4, NoNewRow

-----------------------------------------------------------------------------
(* The steps that make a row. *)
LEMMA LoopPosts ==
    ASSUME OutputInv, LoopTick \/ LoopEnd PROVE OutputInv'
<1> USE DEF OutputInv, LoopTick, LoopEnd, scriptVars, inputVars
<1>1. pc = "loop" /\ pc' \in {"sendloop", "sendlast"} /\ flushed' = gathered
  OBVIOUS
<1>2. post' \in Row /\ post'.kind = "out"
  BY DEF Post, Row, OutputTypeOK, RowsInv
<1>3. OutputTypeOK'
  <2>1. flushed' \in Nat /\ serial' \in Nat /\ pc' \in ExecState
    BY <1>1 DEF OutputTypeOK, ExecState
  <2> QED BY <1>2, <2>1 DEF OutputTypeOK, tableVars
<1>4. StretchInv'
  BY DEF StretchInv, OutputTypeOK, AtEnd, Exited
<1>5. StderrInv'
  BY <1>1, <1>2 DEF StderrInv
<1>6. flushed <= flushed' /\ serial < serial' /\ Post("out", flushed, flushed')
  BY <1>1 DEF StretchInv, OutputTypeOK, Post
<1> QED BY <1>1, <1>3, <1>4, <1>5, <1>6, NewOutRow DEF Sending, tableVars

LEMMA AllPosts ==
    ASSUME OutputInv, AllEnd PROVE OutputInv'
<1> USE DEF OutputInv, AllEnd, scriptVars
<1>1. pc = "all" /\ pc' = "sendlast" /\ flushed = 0 /\ flushed' = taken
  BY DEF StretchInv
<1>2. post' \in Row /\ post'.kind = "out"
  BY DEF Post, Row, OutputTypeOK, RowsInv
<1>3. OutputTypeOK'
  <2>1. queued' \in Nat /\ gathered' \in Nat /\ flushed' \in Nat /\ serial' \in Nat
        /\ pc' \in ExecState
    BY <1>1 DEF OutputTypeOK, ExecState
  <2> QED BY <1>2, <2>1 DEF OutputTypeOK, tableVars
<1>4. StretchInv'
  BY DEF StretchInv, OutputTypeOK, AtEnd, Exited
<1>5. StderrInv'
  BY <1>1, <1>2 DEF StderrInv
<1>6. flushed <= flushed' /\ serial < serial' /\ Post("out", flushed, flushed')
  BY <1>1 DEF OutputTypeOK, Post
<1> QED BY <1>1, <1>3, <1>4, <1>5, <1>6, NewOutRow DEF Sending, tableVars

LEMMA WaitPosts ==
    ASSUME OutputInv, Wait PROVE OutputInv'
<1> USE DEF OutputInv, Wait, scriptVars, inputVars, tableVars
<1>1. AtEnd /\ AtEnd' /\ pc = "wait" /\ ~Sending
  BY DEF AtEnd, Sending
<1>2. StretchInv'
  BY <1>1 DEF StretchInv, AtEnd, Exited
<1>3. CASE script = "exit0"
  <2>1. OutputTypeOK' /\ StderrInv'
    BY <1>3 DEF OutputTypeOK, ExecState, StderrInv
  <2>2. Posted' = Posted /\ ~Sending'
    BY <1>3 DEF Posted, Sets, Sending
  <2> QED BY <1>2, <1>3, <2>1, <2>2, NoNewRow
<1>4. CASE script # "exit0"
  <2>1. script = "exit1"
    BY <1>1, <1>4 DEF StretchInv, Exited
  <2>2. /\ post' \in Row /\ post'.serial = serial /\ post'.kind = "err"
        /\ post'.to = errTaken /\ pc' = "senderr"
    BY <1>4 DEF Post, Row, OutputTypeOK, RowsInv
  <2>3. OutputTypeOK'
    BY <2>2 DEF OutputTypeOK, ExecState
  <2>4. StderrInv'
    BY <2>1, <2>2 DEF StderrInv
  <2>5. Sending' /\ Posted' = Posted \cup {post'}
    BY <1>1, <2>2 DEF Sending, Posted, Sets
  <2>6. \A r \in Posted : /\ r.kind = "out" /\ r.serial < serial /\ r.to <= flushed
                          /\ r.serial \in Nat
    BY <1>1, NoErrRow DEF Posted, Sets, OutputTypeOK, Row
  <2>7. \A r \in Posted : InOrder(r, post') /\ InOrder(post', r)
    BY <2>2, <2>6 DEF InOrder, OutputTypeOK
  <2>8. \A r, s \in Posted' : r # s => InOrder(r, s)
    BY <2>5, <2>7 DEF RowsInv
  <2>9. RowsInv'
    BY <2>2, <2>5, <2>6, <2>8 DEF RowsInv, InOrder
  <2>10. CoverInv'
    BY <2>2, <2>5 DEF CoverInv, Covered
  <2> QED BY <1>2, <2>3, <2>4, <2>9, <2>10
<1> QED BY <1>3, <1>4

(* A row that was sent is in the table, lost, or still under way. *)
LEMMA SentKeeps ==
    ASSUME OutputInv, AddOutputLine \/ SendFails \/ SendBreaks PROVE OutputInv'
<1> USE DEF OutputInv, AddOutputLine, SendFails, SendBreaks, Sent, scriptVars, inputVars
<1>1. /\ Sending /\ post \in Row
      /\ pc = "sendloop" => pc' = "loop"
      /\ pc = "sendlast" => pc' = "stderr"
      /\ pc = "senderr" => pc' = "done"
  BY DEF RowsInv, Sending, AfterSend
<1>2. OutputTypeOK'
  BY <1>1 DEF OutputTypeOK, ExecState, Sending
<1>3. StretchInv' /\ StderrInv'
  BY <1>1 DEF StretchInv, StderrInv, AtEnd, Exited, Sending
<1>4. ~Sending' /\ Posted' = Posted
  BY <1>1 DEF Posted, Sets, Sending
<1>5. pc' = "done" => \E r \in Posted : r.kind = "err" /\ r.to = errWrote'
  BY <1>1 DEF StderrInv, Posted, Sending
<1> QED BY <1>1, <1>2, <1>3, <1>4, <1>5, NoNewRow DEF Sending

LEMMA MovesKeep ==
    ASSUME OutputInv, AddLate \/ DeleteOutputLine PROVE OutputInv'
<1> USE DEF OutputInv, AddLate, DeleteOutputLine, scriptVars, inputVars, execVars
<1>1. OutputTypeOK'
  BY DEF OutputTypeOK
<1>2. StretchInv' /\ StderrInv'
  BY DEF StretchInv, StderrInv, AtEnd, Exited
<1>3. Posted' = Posted /\ Sending' = Sending
  BY DEF Posted, Sets, Sending
<1> QED BY <1>1, <1>2, <1>3, NoNewRow DEF RowsInv, CoverInv

-----------------------------------------------------------------------------
THEOREM OutputInvNext == OutputInv /\ [OutputNext]_outputVars => OutputInv'
<1> SUFFICES ASSUME OutputInv, [OutputNext]_outputVars PROVE OutputInv'
  OBVIOUS
<1>1. CASE UNCHANGED outputVars
  <2> USE <1>1 DEF outputVars, scriptVars, inputVars, execVars, tableVars, OutputInv
  <2>1. OutputTypeOK' /\ StretchInv' /\ StderrInv'
    BY DEF OutputTypeOK, StretchInv, StderrInv, AtEnd, Exited
  <2>2. Posted' = Posted /\ Sending' = Sending
    BY DEF Posted, Sets, Sending
  <2> QED BY <2>1, <2>2, NoNewRow DEF RowsInv, CoverInv
<1> QED
  BY <1>1, ScriptKeeps, GetInputKeeps, LoopInputKeeps, LoopPosts, AllReadKeeps, AllPosts,
     StderrKeeps, WaitPosts, SentKeeps, MovesKeep
  DEF OutputNext, ExecStep

(* The inductive invariant holds throughout. *)
THEOREM OutputInvariance == OutputSpec => []OutputInv
BY OutputInvInit, OutputInvNext, PTL DEF OutputSpec

(* The rows of a job are in the order of its output, whatever was lost,    *)
(* deleted, or saved late.                                                 *)
THEOREM RowsAreInOrder == OutputSpec => []RowsInOrder
<1>1. OutputInv => RowsInOrder
  BY DEF OutputInv, RowsInv, RowsInOrder, InOrder, Posted, Sets
<1> QED BY <1>1, OutputInvariance, PTL

(* When execCmd ends it has sent all there was. *)
THEOREM NothingIsMissing == OutputSpec => []NothingMissing
<1>1. OutputInv => NothingMissing
  BY DEF OutputInv, StretchInv, CoverInv, Covered, NothingMissing, AtEnd, Posted, Sending
<1> QED BY <1>1, OutputInvariance, PTL

(* The pipe, the serials, the POSTs and the rows of the output keep to     *)
(* their types.                                                            *)
THEOREM OutputTypes == OutputSpec => []OutputTypeOK
<1>1. OutputInv => OutputTypeOK
  BY DEF OutputInv
<1> QED BY <1>1, OutputInvariance, PTL

-----------------------------------------------------------------------------
(* The pipeline moves                                                      *)

(* When the script can take a step, when getInput can, and when execCmd.   *)
ScriptCan ==
    \/ script = "computing"
    \/ script = "out" /\ wrote - taken < OutCap
    \/ script = "err" /\ errWrote - errTaken < ErrCap

GetInputCan ==
    \/ type = 1 /\ rdr = "read" /\ (taken < wrote \/ Exited)
    \/ rdr \in {"put", "putlast"} /\ ~full
    \/ rdr = "close"

ExecCan ==
    \/ pc = "loop" /\ (full \/ flushed < gathered \/ rdr = "closed")
    \/ pc = "all" /\ (taken < wrote \/ Exited)
    \/ pc = "stderr" /\ (errTaken < errWrote \/ Exited)
    \/ pc = "wait" \/ Sending

(* A pipe is never overfull, and while getInput reads on, it has put all   *)
(* the lines it has read into the channel.                                 *)
PipesInv == wrote - taken <= OutCap /\ errWrote - errTaken <= ErrCap
LinesInv == type = 1 /\ rdr = "read" => \A n \in Newlines : n <= taken => n <= queued
MoveInv == PipesInv /\ LinesInv

THEOREM MoveInvariance == OutputSpec => []MoveInv
<1>1. OutputInit => MoveInv
  BY OutputAssumption DEF OutputInit, MoveInv, PipesInv, LinesInv
<1>2. OutputInv /\ MoveInv /\ [OutputNext]_outputVars => MoveInv'
  <2> SUFFICES ASSUME OutputTypeOK, StretchInv, MoveInv, [OutputNext]_outputVars
               PROVE  MoveInv'
    BY DEF OutputInv
  <2> USE OutputAssumption DEF MoveInv
  <2>1. ASSUME UNCHANGED <<type, wrote, errWrote, rdr, taken, queued, errTaken>>
        PROVE  MoveInv'
    BY <2>1 DEF PipesInv, LinesInv
  <2>2. CASE ScriptStep \/ ScriptKilled
    <3>1. wrote' = wrote \/ (wrote' = wrote + 1 /\ wrote - taken < OutCap)
      BY <2>2 DEF ScriptStep, ScriptDecides, ScriptWritesOut, ScriptWritesErr, ScriptKilled
    <3>2. errWrote' = errWrote \/ (errWrote' = errWrote + 1 /\ errWrote - errTaken < ErrCap)
      BY <2>2 DEF ScriptStep, ScriptDecides, ScriptWritesOut, ScriptWritesErr, ScriptKilled
    <3>3. UNCHANGED <<type, inputVars, execVars>>
      BY <2>2 DEF ScriptStep, ScriptDecides, ScriptWritesOut, ScriptWritesErr, ScriptKilled
    <3>4. PipesInv'
      BY <3>1, <3>2, <3>3 DEF PipesInv, OutputTypeOK, inputVars, execVars
    <3> QED BY <3>3, <3>4 DEF LinesInv, inputVars
  <2>3. CASE GetInput
    <3>1. /\ UNCHANGED <<type, wrote, errWrote, errTaken>>
          /\ taken' = taken \/ taken' = taken + 1
      BY <2>3 DEF GetInput, GetInputRead, GetInputEof, GetInputPut, GetInputClose, scriptVars,
         execVars
    <3>2. PipesInv'
      BY <3>1 DEF PipesInv, OutputTypeOK
    <3>3. CASE GetInputRead
      <4>1. /\ type' = type /\ rdr = "read" /\ taken' = taken + 1 /\ queued' = queued
            /\ rdr' = "read" => taken + 1 \notin Newlines
        BY <3>3 DEF GetInputRead, scriptVars
      <4>2. \A n \in Newlines : n <= taken + 1 /\ n # taken + 1 => n <= taken
        BY DEF OutputTypeOK
      <4> QED BY <3>2, <4>1, <4>2 DEF LinesInv
    <3>4. CASE GetInputPut
      BY <3>2, <3>4 DEF GetInputPut, LinesInv
    <3>5. CASE GetInputEof \/ GetInputClose
      BY <3>2, <3>5 DEF GetInputEof, GetInputClose, LinesInv
    <3> QED BY <2>3, <3>3, <3>4, <3>5 DEF GetInput
  <2>4. CASE AllRead
    BY <2>4 DEF AllRead, PipesInv, LinesInv, OutputTypeOK, StretchInv, scriptVars, execVars
  <2>5. CASE AllEnd
    BY <2>5 DEF AllEnd, PipesInv, LinesInv, StretchInv, scriptVars
  <2>6. CASE StderrRead
    BY <2>6 DEF StderrRead, PipesInv, LinesInv, OutputTypeOK, scriptVars, inputVars
  <2>7. CASE LoopInput \/ LoopTick \/ LoopEnd \/ StderrEnd \/ Wait
    BY <2>1, <2>7 DEF LoopInput, LoopTick, LoopEnd, StderrEnd, Wait, scriptVars, inputVars
  <2>8. CASE AddOutputLine \/ SendFails \/ SendBreaks \/ AddLate \/ DeleteOutputLine
    BY <2>1, <2>8 DEF AddOutputLine, SendFails, SendBreaks, Sent, AddLate, DeleteOutputLine,
       scriptVars, inputVars, execVars
  <2>9. CASE UNCHANGED outputVars
    BY <2>1, <2>9 DEF outputVars, scriptVars, inputVars, execVars
  <2> QED BY <2>2, <2>3, <2>4, <2>5, <2>6, <2>7, <2>8, <2>9 DEF OutputNext, ExecStep
<1> QED BY <1>1, <1>2, OutputInvariance, PTL DEF OutputSpec

(* The script, getInput and execCmd do not all wait for each other before  *)
(* execCmd has ended, but for the script that waits for room in its        *)
(* stderr, which nobody reads before stdout is at its end (EndsUnlessFull).*)
NeverStuck ==
    \/ pc = "done" \/ ScriptCan \/ GetInputCan \/ ExecCan
    \/ StderrFull /\ pc \in {"loop", "all"}

THEOREM PipelineIsNotStuck == OutputSpec => []NeverStuck
<1>1. OutputInv /\ MoveInv => NeverStuck
  <2> SUFFICES ASSUME OutputTypeOK, StretchInv, StderrInv, PipesInv, pc # "done",
                      ~ScriptCan, ~GetInputCan, ~ExecCan
               PROVE  StderrFull /\ pc \in {"loop", "all"}
    BY DEF OutputInv, MoveInv, NeverStuck
  <2> USE OutputAssumption DEF OutputTypeOK, ScriptCan, GetInputCan, ExecCan
  <2>1. pc \in {"loop", "all"}
    BY DEF ExecState, StretchInv, AtEnd, Sending
  <2>2. script # "out"
    <3>1. CASE pc = "loop"
      <4>1. type = 1 /\ ~full /\ rdr # "closed"
        BY <3>1 DEF StretchInv
      <4>2. rdr = "read" /\ taken = wrote
        BY <4>1 DEF ReaderState, StretchInv
      <4> QED BY <4>2
    <3>2. CASE pc = "all"
      BY <3>2 DEF StretchInv
    <3> QED BY <2>1, <3>1, <3>2
  <2>3. ~Exited
    <3>1. CASE pc = "loop"
      BY <3>1 DEF StretchInv, ReaderState
    <3>2. CASE pc = "all"
      BY <3>2
    <3> QED BY <2>1, <3>1, <3>2
  <2>4. script = "err" /\ errWrote - errTaken = ErrCap
    BY <2>2, <2>3 DEF ScriptState, Exited, PipesInv
  <2> QED BY <2>1, <2>4 DEF StderrFull
<1> QED BY <1>1, OutputInvariance, MoveInvariance, PTL

(* When getInput and execCmd have nothing left to do, every complete line  *)
(* of a user's job has been sent: none waits for the script to write more, *)
(* or to end (LinesAppear).                                                *)
NoLineWaits ==
    type = 1 /\ ~GetInputCan /\ ~ExecCan =>
        \A n \in Newlines : n <= wrote =>
            \E r \in Sets : r.kind = "out" /\ r.from < n /\ n <= r.to

THEOREM LinesDoNotWait == OutputSpec => []NoLineWaits
<1>1. OutputInv /\ MoveInv => NoLineWaits
  <2> SUFFICES ASSUME OutputTypeOK, StretchInv, CoverInv, LinesInv,
                      type = 1, ~GetInputCan, ~ExecCan, NEW n \in Newlines, n <= wrote
               PROVE  \E r \in Sets : r.kind = "out" /\ r.from < n /\ n <= r.to
    BY DEF OutputInv, MoveInv, NoLineWaits
  <2> USE DEF OutputTypeOK, GetInputCan, ExecCan
  <2>1. n \in Nat /\ 1 <= n
    BY OutputAssumption
  <2>2. Posted = Sets
    BY DEF Posted
  <2>3. n <= flushed
    <3>1. CASE pc = "loop"
      <4>1. ~full /\ rdr # "closed" /\ flushed = queued
        BY <3>1 DEF StretchInv
      <4>2. rdr = "read" /\ taken = wrote
        BY <4>1 DEF ReaderState, StretchInv
      <4> QED BY <4>1, <4>2 DEF LinesInv
    <3>2. CASE pc # "loop"
      <4>1. AtEnd
        BY <3>2 DEF ExecState, AtEnd, StretchInv, Sending
      <4> QED BY <4>1 DEF StretchInv
    <3> QED BY <3>1, <3>2
  <2>4. n \in 1 .. flushed
    BY <2>1, <2>3
  <2> QED BY <2>2, <2>4 DEF CoverInv, Covered
<1> QED BY <1>1, OutputInvariance, MoveInvariance, PTL
=============================================================================
