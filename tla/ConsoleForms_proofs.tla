------------------------- MODULE ConsoleForms_proofs -------------------------
(***************************************************************************)
(* Proofs about the pages of AdminConsole whose forms a user fills in and  *)
(* applies: the scripts, the users, the data centres and environments.     *)
(*                                                                         *)
(* A form is filled in from $scope, sent by a callback that reads $scope   *)
(* again, and saved by a loop of calls that outlives both.  The argument   *)
(* is the one of AdminConsole_proofs: while the user waits, one request is *)
(* in flight or one loop is under way, so that each of them can say which  *)
(* form it is for (ScriptFlightOf, UserFlight and LoopSeen, CapsFlight and *)
(* CapsLoopSeen).  What is left to save and what the server has are then   *)
(* together what the form shows (Form and Saved for the users, Matches for *)
(* the maps), and every call of the loop keeps that sum.                   *)
(***************************************************************************)
EXTENDS AdminConsole_proofs

-----------------------------------------------------------------------------
(***************************************************************************)
(* The page of the scripts.                                                *)
(***************************************************************************)

AllScripts == Scripts \cup {NewScript}
Sources == Files \cup {None}

(* The types of what is in flight.                                         *)
ScriptRequest(r) ==
    /\ r.op \in {"fill", "get", "read", "addscript", "putscript"}
    /\ r.arg.source \in Sources

ScriptTyped ==
    /\ ScriptTypeOK
    /\ scripts \in [AllScripts -> Sources]
    /\ DOMAIN dbscripts \subseteq AllScripts
    /\ dbscripts = [i \in DOMAIN dbscripts |-> dbscripts[i]]

(* What is in the form once the file that was chosen has been read.        *)
FormSeen ==
    /\ editscript = AddScriptForm => chosen \in {None, file_b64}
    /\ editscript \in DOMAIN dbscripts =>
         \/ files = 0 /\ source = None /\ chosen = None
         \/ files = 1 /\ chosen = file_b64

ScriptFlightOf(r) ==
    /\ r.st \in {"open", "ok", "refused"}
    /\ r.op = "fill" \/ ~inlist
    /\ r.op = "read" =>
         /\ chosen = r.arg.source
         /\ editscript \in DOMAIN dbscripts => files = 1
    /\ r.op # "read" => FormSeen
    /\ r.op = "addscript" => editscript = AddScriptForm /\ chosen \in {r.arg.source, None}
    /\ r.op = "putscript" =>
         /\ editscript \in DOMAIN dbscripts
         /\ r.arg.script = editscript /\ r.arg.source = chosen
         /\ r.st = "ok" => chosen = None \/ dbscripts[editscript] = chosen

ScriptSeen ==
    /\ scripts = NoSources
    /\ Idle => ~inlist /\ FormSeen
    /\ \A s \in Slots : net[s] # NoRequest => ScriptFlightOf(net[s])

ScriptInv ==
    /\ Waits
    /\ ScriptTyped
    /\ \A s \in Slots : net[s] # NoRequest => ScriptRequest(net[s])
    /\ Patient => ScriptSeen

(* What the server may do to the scripts.                                  *)
ScriptKept ==
    \A i \in DOMAIN dbscripts' :
        \/ i \in DOMAIN dbscripts /\ dbscripts'[i] = dbscripts[i]
        \/ i = editscript /\ dbscripts'[i] = chosen
        \/ i = NewScript /\ editscript = AddScriptForm /\ chosen \in {dbscripts'[i], None}

LEMMA ScriptIds ==
    /\ AllScripts \subseteq Nat \ {0}
    /\ ScriptList \notin AllScripts /\ AddScriptForm \notin AllScripts
    /\ ScriptList # AddScriptForm /\ NewScript \in AllScripts
    /\ NoSources = [i \in AllScripts |-> None]
BY ScriptAssumption DEF AllScripts, Scripts, NewScript, ScriptList, AddScriptForm, NoSources

(* The user does something that sends a request.                           *)
LEMMA ScriptSends ==
    ASSUME ScriptInv, UserActs, UNCHANGED dbscripts, ScriptTyped',
           NEW op \in {"fill", "get", "read", "addscript", "putscript"}, NEW arg,
           arg.source \in Sources,
           UNCHANGED net \/ (Begins(net) /\ \A q \in Slots : \/ net'[q] = net[q]
                                 \/ /\ net'[q] # NoRequest
                                    /\ net'[q].op = op /\ net'[q].arg = arg
                                    /\ net'[q].st \in {"open", "ok"}
                                    /\ op # "read" => net'[q].st = "open"),
           ScriptSeen /\ Idle =>
             /\ scripts' = NoSources
             /\ op = "fill" \/ ~inlist'
             /\ op = "read" => /\ ~Idle'
                               /\ chosen' = arg.source
                               /\ editscript' \in DOMAIN dbscripts => files' = 1
             /\ op # "read" => FormSeen' /\ (inlist' => ~Idle')
             /\ op = "addscript" => editscript' = AddScriptForm /\ chosen' \in {arg.source, None}
             /\ op = "putscript" =>
                  /\ editscript' \in DOMAIN dbscripts
                  /\ arg.script = editscript' /\ arg.source = chosen'
    PROVE  ScriptInv' /\ WebMove
<1>1. /\ loop = NoLoop /\ UNCHANGED <<pageurl, loop, session, broke>>
      /\ hasty' = (hasty \/ InFlight) /\ (~hasty' => ~hasty /\ Idle)
  BY Acted DEF UserActs
<1>2. WebMove
  BY <1>1 DEF WebMove, ByUser
<1>3. Waits' /\ (Patient' => Patient /\ Idle)
  BY <1>1, <1>2, WaitsNext DEF ScriptInv, Patient
<1>4. \A q \in Slots : net'[q] # NoRequest => ScriptRequest(net[q])'
  BY DEF ScriptInv, ScriptRequest
<1>5. ASSUME Patient' PROVE ScriptSeen'
  <2>1. ScriptSeen /\ Idle
    BY <1>3, <1>5 DEF ScriptInv
  <2>2. ASSUME NEW q \in Slots, net'[q] # NoRequest PROVE ScriptFlightOf(net[q])'
    <3>1. net'[q].op = op /\ net'[q].arg = arg /\ net'[q].st \in {"open", "ok"}
          /\ (op # "read" => net'[q].st = "open")
      BY <2>1, <2>2 DEF Idle
    <3> QED BY <2>1, <3>1 DEF ScriptFlightOf
  <2>3. Idle' => ~inlist' /\ FormSeen'
    BY <2>1
  <2> QED BY <2>1, <2>2, <2>3 DEF ScriptSeen
<1> QED BY <1>2, <1>3, <1>4, <1>5 DEF ScriptInv

LEMMA ScriptSent ==
    ASSUME ScriptInv, NEW op, NEW arg, Send(op, arg)
    PROVE  /\ Begins(net) /\ ~Idle'
           /\ \A q \in Slots : \/ net'[q] = net[q]
                               \/ /\ net'[q] # NoRequest
                                  /\ net'[q].op = op /\ net'[q].arg = arg
                                  /\ net'[q].st \in {"open", "ok"}
                                  /\ op # "read" => net'[q].st = "open"
BY SentOne DEF Send, ScriptInv, Waits, Sent

LEMMA EditScriptKeeps ==
    ASSUME ScriptInv, NEW i, EditScript(i)
    PROVE  ScriptInv' /\ WebMove
<1> PICK arg : arg = AboutScript(0, None)
  OBVIOUS
<1>1. /\ UserActs /\ UNCHANGED <<dbscripts, scripts, file_b64>> /\ Send("fill", arg)
      /\ i \in DOMAIN dbscripts /\ editscript' = i /\ source' = scripts[i]
      /\ files' = 0 /\ chosen' = None
  BY DEF EditScript, FilesOnEdit
<1>2. arg.source \in Sources
  BY DEF AboutScript, Sources
<1>3. ScriptTyped'
  BY <1>1 DEF ScriptInv, ScriptTyped, ScriptTypeOK, Sources
<1>4. ASSUME ScriptSeen PROVE scripts' = NoSources /\ FormSeen'
  BY <1>1, <1>4, ScriptIds DEF ScriptSeen, FormSeen, ScriptInv, ScriptTyped
<1> QED BY <1>1, <1>2, <1>3, <1>4, ScriptSent, ScriptSends

LEMMA CloseScriptKeeps ==
    ASSUME ScriptInv, CloseScript
    PROVE  ScriptInv' /\ WebMove
<1> PICK arg : arg = AboutScript(0, None)
  OBVIOUS
<1>1. /\ UserActs /\ Send("fill", arg) /\ editscript' = ScriptList
      /\ UNCHANGED <<dbscripts, scripts, file_b64, source, files, chosen>>
  BY DEF CloseScript
<1>2. arg.source \in Sources
  BY DEF AboutScript, Sources
<1>3. ScriptTyped'
  BY <1>1 DEF ScriptInv, ScriptTyped, ScriptTypeOK
<1>4. ASSUME ScriptSeen PROVE scripts' = NoSources /\ FormSeen'
  BY <1>1, <1>4, ScriptIds DEF ScriptSeen, FormSeen, ScriptInv, ScriptTyped
<1> QED BY <1>1, <1>2, <1>3, <1>4, ScriptSent, ScriptSends

LEMMA AddScriptKeeps ==
    ASSUME ScriptInv, NEW tf \in BOOLEAN, AddScript(tf)
    PROVE  ScriptInv' /\ WebMove
<1> PICK arg : arg = AboutScript(0, None)
  OBVIOUS
<1>1. /\ UserActs /\ UNCHANGED net /\ editscript' \in {ScriptList, AddScriptForm}
      /\ UNCHANGED <<dbscripts, scripts, file_b64, files>>
      /\ chosen' = None /\ source' = None /\ ~inlist'
  BY DEF AddScript
<1>2. arg.source \in Sources
  BY DEF AboutScript, Sources
<1>3. ScriptTyped'
  BY <1>1 DEF ScriptInv, ScriptTyped, ScriptTypeOK
<1>4. ASSUME ScriptSeen PROVE scripts' = NoSources /\ FormSeen'
  BY <1>1, <1>4, ScriptIds DEF ScriptSeen, FormSeen, ScriptInv, ScriptTyped
<1> QED BY <1>1, <1>2, <1>3, <1>4, ScriptSends

LEMMA handleFileSelectKeeps ==
    ASSUME ScriptInv, NEW f \in Files, handleFileSelect(f)
    PROVE  ScriptInv' /\ WebMove
<1> PICK arg : arg = AboutScript(0, f)
  OBVIOUS
<1>1. /\ UserActs /\ files' = 1 /\ chosen' = f
      /\ UNCHANGED <<editscript, scripts, inlist, source, file_b64, dbscripts>>
  BY DEF handleFileSelect
<1>2. arg.source = f /\ f \in Sources
  BY DEF AboutScript, Sources
<1>3. ScriptTyped'
  BY <1>1 DEF ScriptInv, ScriptTyped, ScriptTypeOK
<1>4. PICK s \in Slots :
        /\ net[s] = NoRequest
        /\ net' = [net EXCEPT ![s] = [op |-> "read", arg |-> arg, st |-> "ok", data |-> None]]
  BY DEF handleFileSelect
<1>5. /\ net'[s] = [op |-> "read", arg |-> arg, st |-> "ok", data |-> None]
      /\ \A q \in Slots : q # s => net'[q] = net[q]
  BY <1>4 DEF ScriptInv, Waits
<1>6. Begins(net)
  BY <1>4 DEF Begins
<1>7. /\ net'[s] # NoRequest /\ net'[s].op = "read" /\ net'[s].arg = arg
      /\ net'[s].st \in {"open", "ok"}
  BY <1>5 DEF NoRequest
<1>8. /\ ~Idle'
      /\ \A q \in Slots : \/ net'[q] = net[q]
                          \/ /\ net'[q] # NoRequest
                             /\ net'[q].op = "read" /\ net'[q].arg = arg
                             /\ net'[q].st \in {"open", "ok"}
  BY <1>5, <1>7 DEF Idle
<1>9. ScriptSeen /\ Idle => scripts' = NoSources /\ ~inlist'
  BY <1>1 DEF ScriptSeen
<1> QED BY <1>1, <1>2, <1>3, <1>6, <1>8, <1>9, ScriptSends

LEMMA ApplyKeeps ==
    ASSUME ScriptInv, AddScriptApply \/ EditScriptApply
    PROVE  ScriptInv' /\ WebMove
<1>1. PICK f, op, arg :
        /\ UserActs /\ SourceIs(f) /\ Send(op, arg)
        /\ UNCHANGED <<editscript, inlist, files, file_b64, dbscripts, chosen>>
        /\ \/ /\ op = "addscript" /\ editscript = AddScriptForm
              /\ f = file_b64 /\ arg = AboutScript(NewScript, f)
           \/ /\ op = "putscript" /\ editscript \in DOMAIN dbscripts
              /\ f = ChosenSource /\ arg = AboutScript(editscript, f)
  BY DEF AddScriptApply, EditScriptApply
<1>2. f \in Sources
  BY <1>1 DEF ChosenSource, ScriptInv, ScriptTyped, ScriptTypeOK, Sources
<1>3. arg.source = f
  BY <1>1 DEF AboutScript
<1>4. ScriptTyped'
  <2>1. source' = f /\ scripts' \in [AllScripts -> Sources]
    BY <1>1, <1>2 DEF SourceIs, ScriptInv, ScriptTyped
  <2> QED BY <1>1, <1>2, <2>1 DEF ScriptInv, ScriptTyped, ScriptTypeOK, Sources
<1>5. ASSUME ScriptSeen, Idle
      PROVE  /\ scripts' = NoSources /\ FormSeen' /\ ~inlist'
             /\ op = "addscript" => chosen' \in {f, None}
             /\ op = "putscript" => f = chosen' /\ arg.script = editscript
  <2>1. scripts = NoSources /\ ~inlist /\ FormSeen
    BY <1>5 DEF ScriptSeen
  <2>2. scripts' = NoSources /\ source' = f
    BY <1>1, <2>1 DEF SourceIs
  <2>3. ~inlist'
    BY Zenon, <1>1, <2>1
  <2>4. CASE op = "addscript"
    <3>1. editscript \notin DOMAIN dbscripts /\ editscript = AddScriptForm /\ f = file_b64
      BY <1>1, <2>4, ScriptIds DEF ScriptInv, ScriptTyped
    <3> QED BY <1>1, <2>1, <2>2, <2>3, <2>4, <3>1 DEF FormSeen
  <2>5. CASE op = "putscript"
    <3>1. editscript \in DOMAIN dbscripts /\ f = ChosenSource /\ arg.script = editscript
      BY <1>1, <2>5 DEF AboutScript
    <3>2. editscript # AddScriptForm
      BY <3>1, ScriptIds DEF ScriptInv, ScriptTyped
    <3>3. f = chosen
      BY <2>1, <3>1 DEF FormSeen, ChosenSource
    <3> QED BY <1>1, <2>1, <2>2, <2>3, <2>5, <3>1, <3>2, <3>3 DEF FormSeen
  <2> QED BY <1>1, <2>4, <2>5
<1> QED BY <1>1, <1>2, <1>3, <1>4, <1>5, ScriptSent, ScriptSends

LEMMA DownloadKeeps ==
    ASSUME ScriptInv, DownloadFile
    PROVE  ScriptInv' /\ WebMove
<1> PICK arg : arg = AboutScript(editscript, None)
  OBVIOUS
<1>1. UserActs /\ Send("get", arg) /\ UNCHANGED scriptVars
  BY DEF DownloadFile
<1>2. arg.source \in Sources
  BY DEF AboutScript, Sources
<1>3. ScriptTyped'
  BY <1>1 DEF ScriptInv, ScriptTyped, ScriptTypeOK, scriptVars
<1>4. ASSUME ScriptSeen, Idle PROVE scripts' = NoSources /\ FormSeen'
  BY <1>1, <1>4 DEF ScriptSeen, FormSeen, scriptVars
<1>5. ScriptSeen /\ Idle => ~inlist'
  BY Zenon, <1>1 DEF ScriptSeen, scriptVars
<1> QED BY <1>1, <1>2, <1>3, <1>4, <1>5, ScriptSent, ScriptSends DEF scriptVars

-----------------------------------------------------------------------------
(* The request in flight has been answered.                                *)
LEMMA ScriptAnswer ==
    ASSUME ScriptInv, NEW s \in Slots, net[s] # NoRequest,
           NEW st \in {"ok", "refused"}, net' = Answered(s, st, None),
           UNCHANGED <<pageurl, loop, moves, session, broke, hasty>>,
           UNCHANGED <<editscript, scripts, inlist, source, files, file_b64, chosen>>,
           ScriptTyped',
           Patient /\ ScriptFlightOf(net[s]) =>
             /\ editscript \in DOMAIN dbscripts <=> editscript \in DOMAIN dbscripts'
             /\ net[s].op = "putscript" /\ st = "ok" =>
                  chosen = None \/ dbscripts'[editscript] = chosen
    PROVE  ScriptInv' /\ WebMove
<1>1. /\ WebMove /\ net'[s] # NoRequest
      /\ net'[s].op = net[s].op /\ net'[s].arg = net[s].arg /\ net'[s].st = st
      /\ \A q \in Slots : q # s => net'[q] = net[q]
      /\ ~hasty => \A q \in Slots : q # s => net[q] = NoRequest
  BY AnsweredOne DEF ScriptInv
<1>2. Waits' /\ (Patient' => Patient)
  BY <1>1, WaitsNext DEF ScriptInv
<1>3. \A q \in Slots : net'[q] # NoRequest => ScriptRequest(net[q])'
  BY <1>1 DEF ScriptInv, ScriptRequest
<1>4. ASSUME Patient' PROVE ScriptSeen'
  <2>1. /\ ScriptFlightOf(net[s]) /\ scripts = NoSources
        /\ \A q \in Slots : q # s => net'[q] = NoRequest
    BY <1>1, <1>2, <1>4 DEF ScriptInv, ScriptSeen, Patient
  <2>2. editscript \in DOMAIN dbscripts <=> editscript \in DOMAIN dbscripts'
    BY <1>2, <1>4, <2>1
  <2>3. ScriptFlightOf(net[s])'
    BY <1>1, <1>2, <1>4, <2>1, <2>2 DEF ScriptFlightOf, FormSeen
  <2> QED BY <1>1, <2>1, <2>3 DEF ScriptSeen, Idle
<1> QED BY <1>1, <1>2, <1>3, <1>4 DEF ScriptInv

LEMMA ScriptAnswersKeep ==
    ASSUME ScriptInv, NEW s \in Slots,
           ServeScripts(s) \/ ServeAddScript(s) \/ ServeUpdateScript(s)
    PROVE  ScriptInv' /\ WebMove /\ (Patient => ScriptKept)
<1> PICK f, i : f = net[s].arg.source /\ i = net[s].arg.script
  OBVIOUS
<1>1. /\ net[s] # NoRequest
      /\ UNCHANGED <<pageurl, loop, moves, session, broke, hasty>>
      /\ UNCHANGED <<editscript, scripts, inlist, source, files, file_b64, chosen>>
  BY DEF ServeScripts, ServeAddScript, ServeUpdateScript, Awaited, Answer, scriptVars
<1>2. f \in Sources /\ (Patient => ScriptFlightOf(net[s]))
  BY <1>1 DEF ScriptInv, ScriptRequest, ScriptSeen
<1>3. ASSUME UNCHANGED dbscripts PROVE ScriptTyped' /\ ScriptKept
  BY <1>1, <1>3 DEF ScriptInv, ScriptTyped, ScriptTypeOK, ScriptKept
<1>4. CASE ServeScripts(s)
  <2>1. net' = Answered(s, "ok", None) /\ UNCHANGED dbscripts /\ net[s].op # "putscript"
    BY <1>4 DEF ServeScripts, Answer, Awaited, scriptVars
  <2> QED BY <1>1, <1>3, <2>1, ScriptAnswer
<1>5. CASE ServeAddScript(s)
  <2>1. net[s].op = "addscript"
    BY <1>5 DEF ServeAddScript, Awaited
  <2>2. CASE f # None /\ NewScript \notin DOMAIN dbscripts
    <3>1. net' = Answered(s, "ok", None) /\ dbscripts' = WithRow(dbscripts, NewScript, f)
      BY <1>5, <2>2 DEF ServeAddScript, Answer
    <3>2. /\ DOMAIN dbscripts' = DOMAIN dbscripts \cup {NewScript} /\ dbscripts'[NewScript] = f
          /\ dbscripts' = [j \in DOMAIN dbscripts' |-> dbscripts'[j]]
          /\ \A j \in DOMAIN dbscripts : dbscripts'[j] = dbscripts[j]
      BY <2>2, <3>1 DEF WithRow
    <3>3. ScriptTyped'
      BY <1>1, <1>2, <2>2, <3>2, ScriptIds DEF ScriptInv, ScriptTyped, ScriptTypeOK, Sources
    <3>4. ASSUME Patient
          PROVE  /\ editscript = AddScriptForm /\ chosen \in {f, None}
                 /\ editscript \notin DOMAIN dbscripts /\ editscript \notin DOMAIN dbscripts'
      <4>1. editscript = AddScriptForm /\ chosen \in {f, None}
        BY <1>2, <2>1, <3>4 DEF ScriptFlightOf
      <4> QED BY <3>2, <4>1, ScriptIds DEF ScriptInv, ScriptTyped
    <3>5. Patient => ScriptKept
      BY <3>2, <3>4 DEF ScriptKept
    <3> QED BY <1>1, <2>1, <3>1, <3>3, <3>4, <3>5, ScriptAnswer
  <2>3. CASE ~(f # None /\ NewScript \notin DOMAIN dbscripts)
    <3>1. net' = Answered(s, "refused", None) /\ UNCHANGED dbscripts
      BY <1>5, <2>3 DEF ServeAddScript, Answer
    <3> QED BY <1>1, <1>3, <3>1, ScriptAnswer
  <2> QED BY <2>2, <2>3
<1>6. CASE ServeUpdateScript(s)
  <2>1. net[s].op = "putscript"
    BY <1>6 DEF ServeUpdateScript, Awaited
  <2>2. CASE net' = Answered(s, "refused", None) /\ UNCHANGED dbscripts
    BY <1>1, <1>3, <2>2, ScriptAnswer
  <2>3. CASE /\ net' = Answered(s, "ok", None)
             /\ dbscripts' = IF f = None THEN dbscripts ELSE [dbscripts EXCEPT ![i] = f]
    <3>1. ScriptTyped' /\ DOMAIN dbscripts' = DOMAIN dbscripts
      BY <1>1, <1>2, <2>3 DEF ScriptInv, ScriptTyped, ScriptTypeOK, Sources
    <3>2. ASSUME Patient
          PROVE  /\ editscript \in DOMAIN dbscripts /\ i = editscript /\ f = chosen
                 /\ chosen = None \/ dbscripts'[editscript] = chosen
                 /\ ScriptKept
      <4>1. editscript \in DOMAIN dbscripts /\ i = editscript /\ f = chosen
        BY <1>2, <2>1, <3>2 DEF ScriptFlightOf
      <4>2. /\ chosen = None \/ dbscripts'[editscript] = chosen
            /\ \A j \in DOMAIN dbscripts : j # editscript => dbscripts'[j] = dbscripts[j]
            /\ chosen = None => dbscripts' = dbscripts
        BY <2>3, <4>1 DEF ScriptInv, ScriptTyped
      <4> QED BY <3>1, <4>1, <4>2 DEF ScriptKept
    <3> QED BY <1>1, <2>3, <3>1, <3>2, ScriptAnswer
  <2> QED BY <1>6, <2>2, <2>3 DEF ServeUpdateScript, Answer
<1> QED BY <1>4, <1>5, <1>6

LEMMA ScriptFaultKeeps ==
    ASSUME ScriptInv, ServerFaults, UNCHANGED scriptVars
    PROVE  ScriptInv' /\ WebMove
<1>1. /\ WebMove /\ ~Patient'
      /\ \A q \in Slots : net'[q] = net[q] \/ Failed(net'[q], net[q])
  BY FailedOne DEF ScriptInv
<1>2. ScriptTyped'
  BY DEF ScriptInv, ScriptTyped, ScriptTypeOK, scriptVars
<1>3. \A q \in Slots : net'[q] # NoRequest => ScriptRequest(net[q])'
  BY <1>1 DEF ScriptInv, ScriptRequest, Failed
<1> QED BY <1>1, <1>2, <1>3, WaitsNext DEF ScriptInv

-----------------------------------------------------------------------------
(* The callback of a request has run, and nothing else is in flight.       *)
LEMMA ScriptTaken ==
    ASSUME ScriptInv, NEW s \in Slots, net[s] # NoRequest, loop = NoLoop, net' = Without(s),
           pageurl' \in {pageurl, "login.html"}, UNCHANGED <<loop, session, broke, hasty>>,
           ScriptTyped',
           Patient /\ ScriptFlightOf(net[s]) /\ scripts = NoSources =>
             scripts' = NoSources /\ ~inlist' /\ FormSeen'
    PROVE  ScriptInv' /\ WebMove
<1>1. /\ WebMove /\ (~hasty => Idle')
      /\ \A q \in Slots : net'[q] = NoRequest \/ net'[q] = net[q]
  BY CallbackOne DEF ScriptInv
<1>2. Waits' /\ (Patient' => Patient)
  BY <1>1, WaitsNext DEF ScriptInv
<1>3. \A q \in Slots : net'[q] # NoRequest => ScriptRequest(net[q])'
  BY <1>1 DEF ScriptInv, ScriptRequest
<1>4. ASSUME Patient' PROVE ScriptSeen'
  BY <1>1, <1>2, <1>4 DEF ScriptInv, ScriptSeen, Idle, Patient
<1> QED BY <1>1, <1>2, <1>3, <1>4 DEF ScriptInv

LEMMA ScriptCallbackKeeps ==
    ASSUME ScriptInv, NEW s \in Slots,
           \/ ScriptsArrive(s) \/ FileRead(s) \/ SourceArrives(s)
           \/ ScriptSaved(s) \/ ScriptRequestFails(s)
    PROVE  ScriptInv' /\ WebMove
<1>1. ASSUME UNCHANGED scriptVars PROVE ScriptTyped' /\ (FormSeen => FormSeen')
  BY <1>1 DEF ScriptInv, ScriptTyped, ScriptTypeOK, scriptVars, FormSeen
<1>2. CASE ScriptsArrive(s)
  <2>1. /\ net[s] # NoRequest /\ loop = NoLoop /\ net' = Without(s) /\ net[s].op = "fill"
        /\ UNCHANGED <<pageurl, loop, session, broke, hasty>>
        /\ scripts' = NoSources /\ ~inlist'
        /\ UNCHANGED <<editscript, source, files, file_b64, dbscripts, chosen>>
    BY <1>2 DEF ScriptsArrive, Arrived, Callback
  <2>2. ScriptTyped'
    BY <2>1, ScriptIds DEF ScriptInv, ScriptTyped, ScriptTypeOK, Sources
  <2>3. ScriptFlightOf(net[s]) => FormSeen'
    BY <2>1 DEF ScriptFlightOf, FormSeen
  <2> QED BY <2>1, <2>2, <2>3, ScriptTaken
<1>3. CASE FileRead(s)
  <2>1. /\ net[s] # NoRequest /\ loop = NoLoop /\ net' = Without(s) /\ net[s].op = "read"
        /\ UNCHANGED <<pageurl, loop, session, broke, hasty>>
        /\ file_b64' = net[s].arg.source
        /\ UNCHANGED <<editscript, scripts, inlist, source, files, dbscripts, chosen>>
    BY <1>3 DEF FileRead, Arrived, Callback
  <2>2. ScriptTyped'
    BY <2>1 DEF ScriptInv, ScriptRequest, ScriptTyped, ScriptTypeOK, Sources
  <2>3. ScriptFlightOf(net[s]) => FormSeen'
    BY <2>1 DEF ScriptFlightOf, FormSeen
  <2>4. ScriptFlightOf(net[s]) => ~inlist'
    BY <2>1 DEF ScriptFlightOf
  <2> QED BY <2>1, <2>2, <2>3, <2>4, ScriptTaken
<1>4. ASSUME Callback(s), UNCHANGED scriptVars, net[s] # NoRequest, loop = NoLoop,
             net[s].op \in {"get", "putscript", "addscript"}
      PROVE  ScriptInv' /\ WebMove
  <2>1. net' = Without(s) /\ UNCHANGED <<pageurl, loop, session, broke, hasty, scripts>>
    BY <1>4 DEF Callback, scriptVars
  <2>2. ScriptFlightOf(net[s]) => FormSeen' /\ ~inlist'
    <3>1. inlist' = inlist
      BY Zenon, <1>4 DEF scriptVars
    <3> QED BY <1>1, <1>4, <3>1 DEF ScriptFlightOf
  <2> QED BY <1>1, <1>4, <2>1, <2>2, ScriptTaken
<1>5. CASE SourceArrives(s)
  BY <1>4, <1>5 DEF SourceArrives, Arrived
<1>6. CASE ScriptSaved(s)
  <2>1. /\ net[s] # NoRequest /\ loop = NoLoop /\ net[s].op \in {"putscript", "addscript"}
        /\ UNCHANGED scriptVars
    BY <1>6 DEF ScriptSaved, Arrived
  <2>2. CASE Callback(s)
    BY <1>4, <2>1, <2>2
  <2>3. CASE /\ SendFrom(Without(s), "fill", AboutScript(0, None))
             /\ UNCHANGED <<pageurl, loop, moves, session, broke, hasty>>
    <3>0. AboutScript(0, None).source \in Sources
      BY DEF AboutScript, Sources
    <3>1. PICK arg : arg = AboutScript(0, None) /\ arg.source \in Sources
      BY <3>0
    <3>2. /\ WebMove /\ ~Idle'
          /\ \A q \in Slots : net'[q] = NoRequest \/ net'[q] = net[q] \/ Sent(net'[q], "fill", arg)
          /\ ~hasty => \A q \in Slots : net'[q] = NoRequest \/ Sent(net'[q], "fill", arg)
      BY <2>1, <2>3, <3>1, FollowOne DEF ScriptInv
    <3>3. Waits' /\ (Patient' => Patient)
      BY <3>2, WaitsNext DEF ScriptInv
    <3>4. \A q \in Slots : net'[q] # NoRequest => ScriptRequest(net[q])'
      BY <3>1, <3>2 DEF ScriptInv, ScriptRequest, Sent
    <3>5. ASSUME Patient' PROVE ScriptSeen'
      <4>1. ScriptFlightOf(net[s]) /\ scripts = NoSources /\ ~hasty
        BY <2>1, <3>3, <3>5 DEF ScriptInv, ScriptSeen, Patient
      <4>2. FormSeen' /\ scripts' = NoSources
        BY <1>1, <2>1, <4>1 DEF ScriptFlightOf, scriptVars
      <4>3. \A q \in Slots : net'[q] # NoRequest => ScriptFlightOf(net[q])'
        BY <3>2, <4>1, <4>2 DEF ScriptFlightOf, Sent
      <4> QED BY <3>2, <4>2, <4>3 DEF ScriptSeen
    <3> QED BY <1>1, <2>1, <3>2, <3>3, <3>4, <3>5 DEF ScriptInv
  <2> QED BY <1>6, <2>2, <2>3 DEF ScriptSaved
<1>7. CASE ScriptRequestFails(s)
  <2>1. /\ net[s] # NoRequest /\ loop = NoLoop /\ net' = Without(s)
        /\ pageurl' \in {pageurl, "login.html"} /\ UNCHANGED <<loop, session, broke, hasty>>
        /\ UNCHANGED scriptVars /\ net[s].st \in {"expired", "broken"}
    BY <1>7 DEF ScriptRequestFails, ErrorCallback, Bad
  <2>2. ~ScriptFlightOf(net[s])
    BY <2>1 DEF ScriptFlightOf
  <2> QED BY <1>1, <2>1, <2>2, ScriptTaken
<1> QED BY <1>2, <1>3, <1>5, <1>6, <1>7

LEMMA ScriptInvNext ==
    ASSUME ScriptInv, ScriptNext
    PROVE  ScriptInv' /\ WebMove /\ (Patient => ScriptKept)
<1>1. UNCHANGED dbscripts => ScriptKept
  BY DEF ScriptKept
<1>2. CASE ScriptUser
  <2>1. UNCHANGED dbscripts
    BY <1>2 DEF ScriptUser, EditScript, CloseScript, AddScript, handleFileSelect,
       AddScriptApply, EditScriptApply, DownloadFile, scriptVars
  <2> QED BY <1>1, <1>2, <2>1, EditScriptKeeps, CloseScriptKeeps, AddScriptKeeps,
         handleFileSelectKeeps, ApplyKeeps, DownloadKeeps DEF ScriptUser
<1>3. CASE ScriptServer
  <2>1. CASE ServerFaults /\ UNCHANGED scriptVars
    BY <1>1, <2>1, ScriptFaultKeeps DEF scriptVars
  <2> QED BY <1>3, <2>1, ScriptAnswersKeep DEF ScriptServer
<1>4. CASE ScriptCallbacks
  <2>1. UNCHANGED dbscripts
    BY <1>4 DEF ScriptCallbacks, ScriptsArrive, FileRead, SourceArrives, ScriptSaved,
       ScriptRequestFails, scriptVars
  <2> QED BY <1>1, <1>4, <2>1, ScriptCallbackKeeps DEF ScriptCallbacks
<1> QED BY <1>2, <1>3, <1>4 DEF ScriptNext

LEMMA ScriptInvInit == ConsoleInit => ScriptInv
<1> SUFFICES ASSUME ConsoleInit PROVE ScriptInv
  OBVIOUS
<1>1. /\ net = [s \in Slots |-> NoRequest] /\ loop = NoLoop
      /\ editscript = ScriptList /\ scripts = NoSources /\ source = None /\ files = 0
      /\ file_b64 = None /\ chosen = None /\ dbscripts = [i \in Scripts |-> FirstFile]
      /\ ~inlist
  BY DEF ConsoleInit, WebInit, ScriptInit
<1>2. FirstFile \in Files
  BY ScriptAssumption DEF FirstFile
<1>3. ScriptTyped
  BY <1>1, <1>2, ScriptIds DEF ScriptTyped, ScriptTypeOK, Sources, AllScripts
<1>4. Waits /\ ScriptSeen
  BY <1>1, ScriptIds DEF Waits, OneInv, ScriptSeen, FormSeen, AllScripts
<1> QED BY <1>1, <1>3, <1>4 DEF ScriptInv

-----------------------------------------------------------------------------
(***************************************************************************)
(* The page of the users.                                                  *)
(***************************************************************************)

(* The types of what is in flight, and of the loop.                        *)
UserRequest(r) ==
    /\ r.op \in {"envs", "perms", "put", "post"}
    /\ r.op = "perms" =>
         /\ r.st # "refused"
         /\ r.st = "ok" => \A i \in DOMAIN r.data : i \in DOMAIN dbperms /\ r.data[i].perm.id = i
    /\ r.op = "put" => r.arg.user \in dbusers
    /\ r.op = "post" /\ r.st = "ok" => NewUser \in dbusers

AtEnv(ed, u, arr, e, po) ==
    [page |-> "users", edit |-> ed, user |-> u, arr |-> arr, env |-> e, post |-> po]

LoopTyped ==
    loop = NoLoop \/ \E ed, po \in BOOLEAN, u \in dbusers, e \in Envs :
                        (ed \/ po) /\ \E arr : loop = AtEnv(ed, u, arr, e, po)

UserTyped ==
    /\ UserTypeOK
    /\ envs = [e \in Envs |-> envs[e]]
    /\ Numbered(dbperms)
    /\ LoopTyped

(* The list is of the user whose form is shown, and shows what this user   *)
(* is allowed; without a permission the box is empty.                      *)
FormOwn == \A e \in Envs : envs[e].id \in {-1, 0} \cup PermIds(edituser)
FormRows ==
    \A e \in Envs :
        /\ envs[e].id = -1 => ~AllowedBy(dbperms, edituser, e)
        /\ envs[e].id \in PermIds(edituser) => dbperms[envs[e].id].env = e
Form == FormOwn /\ (Patient => FormRows)

PermsTyped ==
    /\ \A e \in Envs : envs[e].on \in BOOLEAN /\ (envs[e].id = -1 => envs[e].on = FALSE)
    /\ \A i \in DOMAIN dbperms : dbperms[i] \in [user : dbusers, env : Envs, on : BOOLEAN]

OneRow == \A i, j \in DOMAIN dbperms :
    dbperms[i].user = dbperms[j].user /\ dbperms[i].env = dbperms[j].env => i = j

(* What PermsSaved asks for.                                               *)
Saved(u, e) ==
    (AllowedBy(dbperms, u, e) <=> envs[e].on = TRUE) \/ (envs[e].id = 0 /\ Has(u, e))

(* The loop of EditUserApply or AddUserApply has come this far.            *)
LoopSeen ==
    loop # NoLoop =>
        /\ loop.arr = envs
        /\ \/ loop.edit /\ loop.user = edituser
           \/ ~loop.edit /\ loop.post /\ loop.user = NewUser /\ edituser = AddForm
        /\ Form
        /\ Patient => \A e \in Envs :
             /\ e < loop.env => Saved(loop.user, e)
             /\ ~loop.edit /\ e >= loop.env => ~Has(NewUser, e)
             /\ loop.edit /\ loop.post /\ e = loop.env /\ envs[e].id \in PermIds(edituser) =>
                  Saved(loop.user, e)

UserFlight(r) ==
    /\ r.op = "perms" =>
         /\ envs = NoPerms /\ r.arg.user = edituser
         /\ r.st = "ok" =>
              r.data = [i \in PermIds(edituser) |-> [env |-> dbperms[i].env, perm |-> Copied(i)]]
    /\ r.op \in {"put", "post"} => Form /\ r.arg.arr.live
    /\ r.op = "put" => r.arg.user = edituser
    /\ r.op = "post" => /\ edituser = AddForm
                        /\ Patient /\ r.st = "ok" => \A e \in Envs : ~Has(NewUser, e)

UserSeen ==
    /\ PermsTyped
    /\ Patient => OneRow
    /\ Idle /\ loop = NoLoop /\ pageurl = "admin.html" /\ edituser # UserList => Form
    /\ LoopSeen
    /\ \A s \in Slots : net[s] # NoRequest => UserFlight(net[s])

UserInv ==
    /\ Waits
    /\ UserTyped
    /\ \A s \in Slots : net[s] # NoRequest => UserRequest(net[s])
    /\ ~hasty => UserSeen

LEMMA UserIds ==
    /\ UserList \notin Users \cup {NewUser} /\ AddForm \notin Users \cup {NewUser}
    /\ \A u \in Users \cup {NewUser} : u > 0 /\ u \in Int
    /\ UserList # AddForm /\ ~(UserList > 0) /\ ~(AddForm > 0)
BY UserAssumption DEF UserList, AddForm, Users, NewUser

(* The forms stay what they are if the tables and the list do.             *)
LEMMA SameForm ==
    ASSUME UNCHANGED <<envs, edituser, dbperms>>, Patient' => Patient, Form
    PROVE  Form'
BY DEF Form, FormOwn, FormRows, PermIds, AllowedBy

LEMMA SameRows ==
    ASSUME UNCHANGED <<envs, dbperms>>
    PROVE  /\ \A u, e : Saved(u, e)' <=> Saved(u, e)
           /\ \A u, e : Has(u, e)' <=> Has(u, e)
           /\ \A u : PermIds(u)' = PermIds(u)
           /\ OneRow => OneRow'
BY DEF Saved, Has, PermIds, AllowedBy, OneRow

LEMMA EmptyBox == NoPerm.on = FALSE /\ NoPerm.id = -1
BY DEF NoPerm

(* The permissions of a user who is not there.                             *)
LEMMA NoRowsOf ==
    ASSUME UserTyped, NEW u, u \notin dbusers
    PROVE  PermIds(u) = {} /\ \A e : ~Has(u, e) /\ ~AllowedBy(dbperms, u, e)
BY DEF UserTyped, UserTypeOK, PermIds, Has, AllowedBy

-----------------------------------------------------------------------------
(* The user does something; FormThen is what becomes of the form.          *)
LEMMA UserActsKeeps ==
    ASSUME UserInv, UserActs, UNCHANGED <<dbusers, dbperms>>, UserTyped',
           NEW op \in {"envs", "put", "post"}, NEW u, u \in dbusers \/ op # "put",
           UNCHANGED net \/ Send(op, AboutUser(u)),
           UserSeen /\ Idle /\ pageurl = "admin.html" /\ (Patient' => Patient) =>
             /\ PermsTyped'
             /\ UNCHANGED net /\ edituser' # UserList => Form'
             /\ op \in {"put", "post"} => Form'
             /\ op = "put" => u = edituser'
             /\ op = "post" => edituser' = AddForm
    PROVE  UserInv' /\ WebMove
<1>1. /\ loop = NoLoop /\ UNCHANGED <<pageurl, loop, session, broke>> /\ pageurl = "admin.html"
      /\ hasty' = (hasty \/ InFlight) /\ (~hasty' => ~hasty /\ Idle)
  BY Acted DEF UserActs
<1>2. Send(op, AboutUser(u)) =>
        /\ Begins(net) /\ ~Idle'
        /\ \A q \in Slots : net'[q] = net[q] \/ Sent(net'[q], op, AboutUser(u))
  BY SentOne DEF Send, UserInv, Waits
<1>3. WebMove
  BY <1>1, <1>2 DEF WebMove, ByUser
<1>4. Waits' /\ (Patient' => Patient)
  BY <1>3, WaitsNext DEF UserInv
<1>5. AboutUser(u).user = u /\ AboutUser(u).arr.live
  BY DEF AboutUser
<1>6. \A q \in Slots : net'[q] # NoRequest => UserRequest(net[q])'
  <2>1. ASSUME NEW q \in Slots, net'[q] = net[q], net[q] # NoRequest PROVE UserRequest(net[q])'
    BY <2>1 DEF UserInv, UserRequest
  <2>2. ASSUME NEW q \in Slots, Sent(net'[q], op, AboutUser(u)) PROVE UserRequest(net[q])'
    BY <1>5, <2>2 DEF UserRequest, Sent
  <2> QED BY <1>2, <2>1, <2>2
<1>7. ASSUME ~hasty' PROVE UserSeen'
  <2>1. UserSeen /\ Idle /\ pageurl = "admin.html" /\ (Patient' => Patient)
    BY <1>1, <1>4, <1>7 DEF UserInv
  <2>2. PermsTyped' /\ (UNCHANGED net /\ edituser' # UserList => Form')
    BY <2>1
  <2>3. (Patient => OneRow)' /\ LoopSeen'
    BY <1>1, <2>1 DEF UserSeen, OneRow, LoopSeen
  <2>4. ASSUME NEW q \in Slots, net'[q] # NoRequest PROVE UserFlight(net[q])'
    <3>1. Sent(net'[q], op, AboutUser(u))
      BY <1>2, <2>1, <2>4 DEF Idle
    <3> QED BY <1>5, <2>1, <3>1 DEF UserFlight, Sent
  <2>5. Idle' => UNCHANGED net
    BY <1>2
  <2> QED BY <2>2, <2>3, <2>4, <2>5 DEF UserSeen
<1> QED BY <1>3, <1>4, <1>6, <1>7 DEF UserInv

(* Nothing but the form that is shown changes.                             *)
LEMMA FormChanges ==
    ASSUME UserInv, UNCHANGED <<envs, error, dbusers, dbperms, loop>>,
           edituser' \in {UserList, AddForm} \cup dbusers
    PROVE  UserTyped' /\ (UserSeen => PermsTyped')
BY DEF UserInv, UserTyped, UserTypeOK, LoopTyped, Numbered, UserSeen, PermsTyped

LEMMA EditUserKeeps == ASSUME UserInv, NEW u, EditUser(u) PROVE UserInv' /\ WebMove
<1>1. UserActs /\ Send("envs", AboutUser(0)) /\ UNCHANGED <<envs, error, dbusers, dbperms>>
      /\ edituser' = u /\ u \in dbusers
  BY DEF EditUser
<1>2. UNCHANGED loop
  BY <1>1, Acted DEF UserActs
<1>3. ~UNCHANGED net
  BY <1>1, SentOne DEF Send, SendFrom, UserInv, Waits, NoRequest
<1> QED BY <1>1, <1>2, <1>3, FormChanges, UserActsKeeps

LEMMA CloseUserKeeps == ASSUME UserInv, CloseUser PROVE UserInv' /\ WebMove
<1>1. UserActs /\ UNCHANGED <<net, envs, error, dbusers, dbperms>> /\ edituser' = UserList
  BY DEF CloseUser
<1>2. UNCHANGED loop
  BY <1>1, Acted DEF UserActs
<1> QED BY <1>1, <1>2, FormChanges, UserActsKeeps

LEMMA AddUserKeeps == ASSUME UserInv, NEW tf \in BOOLEAN, AddUser(tf) PROVE UserInv' /\ WebMove
<1>1. UserActs /\ Send("envs", AboutUser(0)) /\ UNCHANGED <<envs, error, dbusers, dbperms>>
      /\ edituser' \in {UserList, AddForm}
  BY DEF AddUser
<1>2. UNCHANGED loop
  BY <1>1, Acted DEF UserActs
<1>3. ~UNCHANGED net
  BY <1>1, SentOne DEF Send, SendFrom, UserInv, Waits, NoRequest
<1> QED BY <1>1, <1>2, <1>3, FormChanges, UserActsKeeps

LEMMA ApplyUserKeeps ==
    ASSUME UserInv, EditUserApply \/ AddUserApply
    PROVE  UserInv' /\ WebMove
<1>1. UserActs /\ UNCHANGED userVars
  BY DEF EditUserApply, AddUserApply
<1>2. /\ UNCHANGED <<edituser, envs, error, dbusers, dbperms, loop>> /\ loop = NoLoop
      /\ edituser \in {UserList, AddForm} \cup dbusers
  BY <1>1, Acted DEF UserActs, userVars, UserInv, UserTyped, UserTypeOK
<1>3. edituser # UserList
  BY UserIds DEF EditUserApply, AddUserApply, UserInv, UserTyped, UserTypeOK
<1>4. UserSeen /\ Idle /\ pageurl = "admin.html" /\ (Patient' => Patient) => Form'
  BY <1>2, <1>3, SameForm DEF UserSeen
<1>5. UserTyped' /\ (UserSeen => PermsTyped')
  BY <1>2, FormChanges
<1>6. CASE EditUserApply
  <2>1. Send("put", AboutUser(edituser)) /\ edituser \in dbusers
    BY <1>6 DEF EditUserApply
  <2> QED BY <1>1, <1>2, <1>4, <1>5, <2>1, UserActsKeeps
<1>7. CASE AddUserApply
  <2>1. Send("post", AboutUser(NewUser)) /\ edituser = AddForm
    BY <1>7 DEF AddUserApply
  <2> QED BY <1>1, <1>2, <1>4, <1>5, <2>1, UserActsKeeps
<1> QED BY <1>6, <1>7

LEMMA TickKeeps == ASSUME UserInv, NEW e \in Envs, Tick(e) PROVE UserInv' /\ WebMove
<1>1. /\ UserActs /\ UNCHANGED <<net, edituser, error, dbusers, dbperms>> /\ edituser # UserList
      /\ envs' = [envs EXCEPT ![e] = IF envs[e] = NoPerm THEN Ticked(TRUE)
                                    ELSE [on |-> ~envs[e].on, id |-> envs[e].id]]
  BY DEF Tick
<1>2. UNCHANGED loop /\ loop = NoLoop
  BY <1>1, Acted DEF UserActs
<1>3. /\ envs' = [c \in Envs |-> envs'[c]]
      /\ \A c \in Envs : c # e => envs'[c] = envs[c]
      /\ envs'[e] = IF envs[e] = NoPerm THEN Ticked(TRUE)
                    ELSE [on |-> ~envs[e].on, id |-> envs[e].id]
  BY <1>1 DEF UserInv, UserTyped
<1>4. /\ envs'[e].on \in BOOLEAN
      /\ envs[e] = NoPerm => envs'[e].id = 0
      /\ envs[e] # NoPerm => envs'[e].id = envs[e].id /\ envs[e].id # -1
  <2>1. CASE envs[e] = NoPerm
    BY <1>3, <2>1 DEF Ticked
  <2>2. CASE envs[e] # NoPerm
    <3>1. envs[e].id \in DOMAIN dbperms \cup {0}
      BY <2>2 DEF UserInv, UserTyped, UserTypeOK
    <3>2. envs[e].id # -1
      BY <3>1 DEF UserInv, UserTyped, Numbered
    <3> QED BY <1>3, <2>2, <3>2
  <2> QED BY <2>1, <2>2
<1>5. UserTyped'
  <2>1. ASSUME NEW c \in Envs
        PROVE  envs'[c] = NoPerm \/ envs'[c].id \in DOMAIN dbperms \cup {0}
    BY <1>3, <1>4, <2>1 DEF UserInv, UserTyped, UserTypeOK
  <2> QED BY <1>1, <1>2, <1>3, <2>1 DEF UserInv, UserTyped, UserTypeOK, LoopTyped, Numbered
<1>6. ASSUME UserSeen PROVE PermsTyped'
  <2>1. ASSUME NEW c \in Envs
        PROVE  envs'[c].on \in BOOLEAN /\ (envs'[c].id = -1 => envs'[c].on = FALSE)
    <3>1. CASE c = e
      <4>1. envs'[e].id # -1
        BY <1>4
      <4> QED BY <1>4, <3>1, <4>1
    <3>2. CASE c # e
      BY <1>3, <1>6, <3>2 DEF UserSeen, PermsTyped
    <3> QED BY <3>1, <3>2
  <2> QED BY <1>1, <1>6, <2>1 DEF UserSeen, PermsTyped
<1>7. ASSUME UserSeen, Idle, pageurl = "admin.html", Patient' => Patient PROVE Form'
  <2>1. Form
    BY <1>1, <1>2, <1>7 DEF UserSeen
  <2>2. PermIds(edituser)' = PermIds(edituser)
        /\ \A c : AllowedBy(dbperms, edituser, c)' <=> AllowedBy(dbperms, edituser, c)
    BY <1>1 DEF PermIds, AllowedBy
  <2>3. NoPerm.id = -1
    BY DEF NoPerm
  <2>4. FormOwn'
    BY <1>3, <1>4, <2>1, <2>2, <2>3 DEF Form, FormOwn
  <2>5. ASSUME FormRows PROVE FormRows'
    <3>1. ~(0 \in PermIds(edituser))
      BY DEF PermIds, UserInv, UserTyped, Numbered
    <3>2. ASSUME NEW c \in Envs
          PROVE  /\ envs'[c].id = -1 => envs'[c] = envs[c]
                 /\ envs'[c].id \in PermIds(edituser) => envs'[c].id = envs[c].id
      <4>1. CASE c = e
        <5>1. envs'[e].id # -1 /\ (envs'[e].id = 0 \/ envs'[e].id = envs[e].id)
          BY <1>4
        <5> QED BY <3>1, <4>1, <5>1
      <4>2. CASE c # e
        BY <1>3, <4>2
      <4> QED BY <4>1, <4>2
    <3> QED BY <1>1, <2>2, <2>5, <3>2 DEF FormRows
  <2> QED BY <1>7, <2>1, <2>4, <2>5 DEF Form
<1> QED BY <1>1, <1>5, <1>6, <1>7, UserActsKeeps

-----------------------------------------------------------------------------
(* The rows, the list and the form stay; what is in flight may change.     *)
LEMMA UserStays ==
    ASSUME UserInv, WebMove, UNCHANGED <<hasty, loop, edituser, envs, dbperms>>,
           dbusers \subseteq dbusers', dbusers' \subseteq Users \cup {NewUser},
           \A q \in Slots : net'[q] # NoRequest => UserRequest(net[q])',
           ~hasty /\ UserSeen =>
             \A q \in Slots : net'[q] # NoRequest => UserFlight(net[q])',
           ~hasty /\ UserSeen /\ Idle' /\ loop = NoLoop /\ pageurl' = "admin.html"
             /\ edituser # UserList => Form
    PROVE  UserInv'
<1>1. Waits' /\ (Patient' => Patient)
  BY WaitsNext DEF UserInv
<1>2. UserTyped'
  <2>1. LoopTyped'
    BY DEF UserInv, UserTyped, LoopTyped
  <2>2. UserTypeOK'
    BY DEF UserInv, UserTyped, UserTypeOK
  <2> QED BY <2>1, <2>2 DEF UserInv, UserTyped, Numbered
<1>3. ASSUME ~hasty PROVE UserSeen'
  <2>1. UserSeen
    BY <1>3 DEF UserInv
  <2>2. PermsTyped'
    BY <2>1 DEF UserSeen, PermsTyped
  <2>3. (Patient => OneRow)' /\ (Form => Form')
    BY <1>1, <2>1, SameRows, SameForm DEF UserSeen
  <2>4. LoopSeen'
    <3>1. LoopSeen
      BY <2>1 DEF UserSeen
    <3> QED BY <1>1, <2>3, <3>1, SameRows DEF LoopSeen
  <2> QED BY <1>3, <2>1, <2>2, <2>3, <2>4 DEF UserSeen
<1> QED BY <1>1, <1>2, <1>3 DEF UserInv

(* A request is answered. *)
LEMMA UserAnswerKeeps ==
    ASSUME UserInv, NEW s \in Slots, net[s] # NoRequest,
           NEW st \in {"ok", "refused"}, NEW d, Answer(s, st, d),
           UNCHANGED <<edituser, envs, dbperms>>,
           dbusers \subseteq dbusers', dbusers' \subseteq Users \cup {NewUser},
           net[s].op = "perms" =>
             /\ st = "ok"
             /\ d = [i \in PermIds(net[s].arg.user) |->
                       [env |-> dbperms[i].env, perm |-> Copied(i)]],
           net[s].op = "post" /\ st = "ok" =>
             NewUser \in dbusers' /\ \A e \in Envs : ~Has(NewUser, e)
    PROVE  UserInv' /\ WebMove
<1>1. net' = Answered(s, st, d) /\ UNCHANGED <<pageurl, loop, moves, session, broke, hasty>>
  BY DEF Answer
<1>2. /\ WebMove /\ net'[s] # NoRequest
      /\ net'[s].op = net[s].op /\ net'[s].arg = net[s].arg
      /\ net'[s].st = st /\ net'[s].data = d
      /\ \A q \in Slots : q # s => net'[q] = net[q]
  BY <1>1, AnsweredOne DEF UserInv
<1>3. \A q \in Slots : net'[q] # NoRequest => UserRequest(net[q])'
  <2>1. \A q \in Slots : q # s /\ net'[q] # NoRequest => UserRequest(net[q])'
    BY <1>2 DEF UserInv, UserRequest
  <2>2. net[s].op = "perms" =>
          \A i \in DOMAIN d : i \in DOMAIN dbperms /\ d[i].perm.id = i
    BY DEF PermIds, Copied
  <2>3. UserRequest(net[s])'
    BY <1>2, <2>2 DEF UserInv, UserRequest
  <2> QED BY <2>1, <2>3
<1>4. ASSUME ~hasty, UserSeen
      PROVE  \A q \in Slots : net'[q] # NoRequest => UserFlight(net[q])'
  <2>1. (Form => Form') /\ (Patient' => Patient)
    BY <1>1, SameForm DEF Patient
  <2>2. UNCHANGED PermIds(edituser) /\ \A i : UNCHANGED Copied(i)
    BY DEF PermIds, Copied
  <2>3. \A e : Has(NewUser, e)' <=> Has(NewUser, e)
    BY DEF Has, PermIds
  <2>4. UserFlight(net[s])
    BY <1>4 DEF UserSeen
  <2>5. UserFlight(net[s])'
    BY <1>2, <2>1, <2>2, <2>3, <2>4 DEF UserFlight
  <2>6. ASSUME NEW q \in Slots, q # s, net'[q] # NoRequest PROVE UserFlight(net[q])'
    <3>1. UserFlight(net[q]) /\ net'[q] = net[q]
      BY <1>2, <1>4, <2>6 DEF UserSeen
    <3> QED BY <2>1, <2>2, <2>3, <3>1 DEF UserFlight
  <2> QED BY <2>5, <2>6
<1>5. ~Idle'
  BY <1>2 DEF Idle
<1> QED BY <1>1, <1>2, <1>3, <1>4, <1>5, UserStays

LEMMA UserServerKeeps == ASSUME UserInv, UserServer PROVE UserInv' /\ WebMove
<1>1. dbusers \subseteq Users \cup {NewUser}
  BY DEF UserInv, UserTyped, UserTypeOK
<1>2. ASSUME NEW s \in Slots,
             ServeEnvs(s) \/ ServePerms(s) \/ ServePutUser(s) \/ ServePostUser(s)
      PROVE  UserInv' /\ WebMove
  <2>1. /\ net[s] # NoRequest /\ UNCHANGED <<edituser, envs, dbperms>>
    BY <1>2 DEF ServeEnvs, ServePerms, ServePutUser, ServePostUser, Awaited, userVars
  <2>2. CASE ServeEnvs(s) \/ ServePutUser(s)
    <3>1. net[s].op \in {"envs", "put"} /\ Answer(s, "ok", None) /\ UNCHANGED dbusers
      BY <2>2 DEF ServeEnvs, ServePutUser, Awaited, userVars
    <3> QED BY <1>1, <2>1, <3>1, UserAnswerKeeps
  <2>3. CASE ServePerms(s)
    <3>1. PICK d : d = [i \in PermIds(net[s].arg.user) |->
                          [env |-> dbperms[i].env, perm |-> Copied(i)]]
      OBVIOUS
    <3>2. net[s].op = "perms" /\ Answer(s, "ok", d) /\ UNCHANGED dbusers
      BY <2>3, <3>1 DEF ServePerms, Awaited, userVars
    <3> QED BY <1>1, <2>1, <3>1, <3>2, UserAnswerKeeps
  <2>4. CASE ServePostUser(s)
    <3>1. net[s].op = "post" /\ dbusers' = dbusers \cup {NewUser}
      BY <2>4 DEF ServePostUser, Awaited
    <3>2. PICK st \in {"ok", "refused"} :
            Answer(s, st, None) /\ (st = "ok" => NewUser \notin dbusers)
      BY <2>4 DEF ServePostUser
    <3>3. st = "ok" => \A e \in Envs : ~Has(NewUser, e)
      BY <3>2, NoRowsOf DEF UserInv
    <3> QED BY <1>1, <2>1, <3>1, <3>2, <3>3, UserAnswerKeeps
  <2> QED BY <1>2, <2>2, <2>3, <2>4
<1>3. CASE ServerFaults /\ UNCHANGED userVars
  <2>1. /\ WebMove /\ ~Patient' /\ UNCHANGED <<pageurl, loop, hasty>>
        /\ \A q \in Slots : net'[q] = net[q] \/ Failed(net'[q], net[q])
    BY <1>3, FailedOne DEF UserInv
  <2>2. UNCHANGED <<edituser, envs, dbperms, dbusers>>
    BY <1>3 DEF userVars
  <2>3. \A q \in Slots : net'[q] # NoRequest => UserRequest(net[q])'
    BY <2>1, <2>2 DEF UserInv, UserRequest, Failed
  <2>4. (Form => Form') /\ (Patient' => Patient)
    BY <2>1, <2>2, SameForm
  <2>5. UNCHANGED PermIds(edituser) /\ \A i : UNCHANGED Copied(i)
    BY <2>2 DEF PermIds, Copied
  <2>6. \A e : Has(NewUser, e)' <=> Has(NewUser, e)
    BY <2>2 DEF Has, PermIds
  <2>7. ASSUME UserSeen, NEW q \in Slots, net'[q] # NoRequest PROVE UserFlight(net[q])'
    BY <2>1, <2>2, <2>4, <2>5, <2>6, <2>7 DEF UserSeen, UserFlight, Failed
  <2>8. Idle' => Idle
    BY <2>1 DEF Idle, Failed
  <2> QED BY <1>1, <2>1, <2>2, <2>3, <2>7, <2>8, UserStays DEF UserSeen
<1> QED BY <1>2, <1>3 DEF UserServer

-----------------------------------------------------------------------------
(* The callbacks of the requests                                           *)

LEMMA DetachedMeans ==
    ASSUME NEW n, n = [q \in Slots |-> n[q]]
    PROVE  /\ Detached(n) = [q \in Slots |-> Detached(n)[q]]
           /\ \A q \in Slots :
                /\ n[q] = NoRequest => Detached(n)[q] = NoRequest
                /\ n[q] # NoRequest =>
                     \/ Detached(n)[q] = n[q]
                     \/ /\ n[q].op \in {"put", "post"}
                        /\ Detached(n)[q].op = n[q].op /\ Detached(n)[q].st = n[q].st
                        /\ Detached(n)[q].arg.user = n[q].arg.user
BY DEF Detached

LEMMA EnvsArriveKeeps ==
    ASSUME UserInv, NEW s \in Slots, EnvsArrive(s)
    PROVE  UserInv' /\ WebMove
<1>1. /\ net[s] # NoRequest /\ loop = NoLoop /\ envs' = NoPerms
      /\ UNCHANGED <<pageurl, loop, moves, session, broke, hasty>>
      /\ UNCHANGED <<edituser, error, dbusers, dbperms>>
      /\ ListFetched(Detached(Without(s)))
  BY DEF EnvsArrive, Arrived, ListAnew
<1> PICK n : n = Detached(Without(s))
  OBVIOUS
<1>2. /\ Without(s) = [q \in Slots |-> Without(s)[q]]
      /\ \A q \in Slots : Without(s)[q] = IF q = s THEN NoRequest ELSE net[q]
      /\ ~hasty => \A q \in Slots : Without(s)[q] = NoRequest
  BY <1>1, TakenOne DEF UserInv
<1>3. /\ n = [q \in Slots |-> n[q]]
      /\ \A q \in Slots : Without(s)[q] = NoRequest => n[q] = NoRequest
      /\ \A q \in Slots : n[q] # NoRequest =>
           /\ net[q] # NoRequest /\ n[q].op = net[q].op
           /\ n[q].op = "perms" => n[q] = net[q]
           /\ n[q].st = net[q].st
           /\ n[q].arg.user = net[q].arg.user
  <2> PICK v : v = Without(s)
    OBVIOUS
  <2>1. /\ n = [q \in Slots |-> n[q]]
        /\ \A q \in Slots :
             /\ v[q] = NoRequest => n[q] = NoRequest
             /\ v[q] # NoRequest =>
                  \/ n[q] = v[q]
                  \/ /\ v[q].op \in {"put", "post"}
                     /\ n[q].op = v[q].op /\ n[q].st = v[q].st
                     /\ n[q].arg.user = v[q].arg.user
    BY <1>2, DetachedMeans
  <2>2. \A q \in Slots : v[q] # NoRequest => v[q] = net[q]
    BY <1>2
  <2> QED BY <2>1, <2>2
<1>4. IF edituser > 0 THEN SendFrom(n, "perms", AboutUser(edituser)) ELSE net' = n
  BY <1>1 DEF ListFetched
<1>5. edituser > 0 =>
        /\ Begins(n) /\ ~Idle'
        /\ \A q \in Slots : net'[q] = n[q] \/ Sent(net'[q], "perms", AboutUser(edituser))
  BY <1>3, <1>4, SentOne
<1>6. WebMove
  BY <1>1, <1>3, <1>4, <1>5 DEF WebMove, InSlot
<1>7. Waits' /\ (Patient' => Patient)
  BY <1>6, WaitsNext DEF UserInv
<1>8. \A q \in Slots : net'[q] = n[q] \/ Sent(net'[q], "perms", AboutUser(edituser))
  BY <1>4, <1>5
<1>9. \A q \in Slots : net'[q] # NoRequest => UserRequest(net[q])'
  <2>1. ASSUME NEW q \in Slots, net'[q] = n[q], n[q] # NoRequest PROVE UserRequest(net[q])'
    <3>1. UserRequest(net[q])
      BY <1>3, <2>1 DEF UserInv
    <3> QED BY <1>1, <1>3, <2>1, <3>1 DEF UserRequest
  <2>2. ASSUME NEW q \in Slots, Sent(net'[q], "perms", AboutUser(edituser))
        PROVE  UserRequest(net[q])'
    BY <2>2 DEF UserRequest, Sent
  <2> QED BY <1>8, <2>1, <2>2
<1>10. /\ NoPerms = [e \in Envs |-> NoPerms[e]]
       /\ \A e \in Envs : NoPerms[e] = NoPerm
  BY DEF NoPerms
<1>11. UserTyped'
  BY <1>1, <1>10 DEF UserInv, UserTyped, UserTypeOK, LoopTyped, Numbered
<1>12. ASSUME ~hasty PROVE UserSeen'
  <2>1. UserSeen /\ \A q \in Slots : n[q] = NoRequest
    BY <1>2, <1>3, <1>12 DEF UserInv
  <2>2. PermsTyped'
    <3>1. \A e \in Envs : envs'[e].on = FALSE
      BY <1>1, <1>10, EmptyBox
    <3> QED BY <1>1, <2>1, <3>1 DEF UserSeen, PermsTyped
  <2>3. (Patient => OneRow)' /\ LoopSeen'
    BY <1>1, <1>7, <2>1 DEF UserSeen, OneRow, LoopSeen
  <2>4. \A q \in Slots : net'[q] # NoRequest => UserFlight(net[q])'
    <3>1. \A q \in Slots : net'[q] # NoRequest => Sent(net'[q], "perms", AboutUser(edituser))
      BY <1>8, <2>1
    <3> QED BY <1>1, <3>1 DEF UserFlight, Sent, AboutUser
  <2>5. ASSUME Idle', edituser' # UserList PROVE Form'
    <3>1. edituser \notin dbusers
      <4>1. ~(edituser > 0)
        BY <1>5, <2>5
      <4> QED BY <4>1, UserIds DEF UserInv, UserTyped, UserTypeOK
    <3>2. PermIds(edituser) = {} /\ \A e : ~AllowedBy(dbperms, edituser, e)
      BY <3>1, NoRowsOf DEF UserInv
    <3>3. UNCHANGED PermIds(edituser)
      BY <1>1 DEF PermIds
    <3> QED BY <1>1, <1>10, <3>2, <3>3 DEF Form, FormOwn, FormRows, NoPerm
  <2> QED BY <2>2, <2>3, <2>4, <2>5 DEF UserSeen
<1> QED BY <1>1, <1>6, <1>7, <1>9, <1>11, <1>12 DEF UserInv

LEMMA PermsArriveKeeps ==
    ASSUME UserInv, NEW s \in Slots, PermsArrive(s)
    PROVE  UserInv' /\ WebMove
<1> PICK got : got = net[s].data
  OBVIOUS
<1>1. /\ net[s] # NoRequest /\ net[s].op = "perms" /\ loop = NoLoop /\ net' = Without(s)
      /\ UNCHANGED <<pageurl, loop, moves, session, broke, hasty>>
      /\ UNCHANGED <<edituser, error, dbusers, dbperms>>
  BY DEF PermsArrive, Arrived, Callback
<1>2. /\ net[s].st = "ok"
      /\ \A i \in DOMAIN got : i \in DOMAIN dbperms /\ got[i].perm.id = i
  BY <1>1 DEF UserInv, UserRequest, PermsArrive, Arrived
<1>3. /\ envs' = [e \in Envs |-> envs'[e]]
      /\ \A e \in Envs : \/ (\A i \in DOMAIN got : got[i].env # e) /\ envs'[e] = envs[e]
                         \/ \E i \in DOMAIN got : got[i].env = e /\ envs'[e] = got[i].perm
  BY DEF PermsArrive
<1>4. /\ WebMove /\ (~hasty => Idle')
      /\ \A q \in Slots : net'[q] = NoRequest \/ net'[q] = net[q]
  BY <1>1, CallbackOne DEF UserInv
<1>5. Waits' /\ (Patient' => Patient)
  BY <1>4, WaitsNext DEF UserInv
<1>6. \A q \in Slots : net'[q] # NoRequest => UserRequest(net[q])'
  BY <1>1, <1>4 DEF UserInv, UserRequest
<1>7. UserTyped'
  <2>1. ASSUME NEW e \in Envs
        PROVE  envs'[e] = NoPerm \/ envs'[e].id \in DOMAIN dbperms \cup {0}
    BY <1>2, <1>3, <2>1 DEF UserInv, UserTyped, UserTypeOK
  <2> QED BY <1>1, <1>3, <2>1 DEF UserInv, UserTyped, UserTypeOK, LoopTyped, Numbered
<1>8. ASSUME ~hasty PROVE UserSeen'
  <2>1. UserSeen /\ envs = NoPerms
        /\ got = [i \in PermIds(edituser) |-> [env |-> dbperms[i].env, perm |-> Copied(i)]]
    BY <1>1, <1>2, <1>8 DEF UserInv, UserSeen, UserFlight
  <2>2. ASSUME NEW e \in Envs
        PROVE  \/ envs'[e] = NoPerm /\ \A i \in PermIds(edituser) : dbperms[i].env # e
               \/ \E i \in PermIds(edituser) :
                     dbperms[i].env = e /\ envs'[e].on = dbperms[i].on /\ envs'[e].id = i
    <3>1. CASE (\A i \in DOMAIN got : got[i].env # e) /\ envs'[e] = envs[e]
      <4>1. \A i \in PermIds(edituser) : got[i].env = dbperms[i].env
        BY <2>1
      <4> QED BY <2>1, <2>2, <3>1, <4>1 DEF NoPerms
    <3>2. ASSUME NEW i \in DOMAIN got, got[i].env = e, envs'[e] = got[i].perm
          PROVE  i \in PermIds(edituser) /\ dbperms[i].env = e
                 /\ envs'[e].on = dbperms[i].on /\ envs'[e].id = i
      <4>1. i \in PermIds(edituser)
        BY <2>1
      <4>2. got[i].env = dbperms[i].env /\ got[i].perm = Copied(i)
        BY <2>1, <4>1
      <4> QED BY <3>2, <4>1, <4>2 DEF Copied
    <3> QED BY <1>3, <2>2, <3>1, <3>2
  <2>3. -1 \notin DOMAIN dbperms /\ 0 \notin DOMAIN dbperms
    BY DEF UserInv, UserTyped, Numbered
  <2>4. PermsTyped'
    <3>1. \A i \in PermIds(edituser) : i # -1 /\ dbperms[i].on \in BOOLEAN
      BY <2>1, <2>3 DEF UserSeen, PermsTyped, PermIds
    <3>2. ASSUME NEW e \in Envs
          PROVE  envs'[e].on \in BOOLEAN /\ (envs'[e].id = -1 => envs'[e].on = FALSE)
      <4>1. CASE envs'[e] = NoPerm
        BY <4>1, EmptyBox
      <4>2. ASSUME NEW i \in PermIds(edituser),
                   envs'[e].on = dbperms[i].on, envs'[e].id = i
            PROVE  envs'[e].on \in BOOLEAN /\ envs'[e].id # -1
        BY <3>1, <4>2
      <4> QED BY <2>2, <3>2, <4>1, <4>2
    <3> QED BY <1>1, <2>1, <3>2 DEF UserSeen, PermsTyped
  <2>5. (Patient => OneRow)' /\ LoopSeen'
    BY <1>1, <1>5, <2>1 DEF UserSeen, OneRow, LoopSeen
  <2>6. Form'
    <3>1. PermIds(edituser)' = PermIds(edituser)
          /\ \A c : AllowedBy(dbperms, edituser, c)' <=> AllowedBy(dbperms, edituser, c)
      BY <1>1 DEF PermIds, AllowedBy
    <3>2. FormOwn'
      BY <2>2, <3>1 DEF FormOwn, NoPerm
    <3>3. ASSUME NEW e \in Envs, envs'[e].id = -1 PROVE ~AllowedBy(dbperms, edituser, e)
      BY <2>2, <2>3, <3>3 DEF AllowedBy, PermIds
    <3>4. ASSUME NEW e \in Envs, envs'[e].id \in PermIds(edituser)
          PROVE  dbperms[envs'[e].id].env = e
      BY <2>2, <2>3, <3>4 DEF PermIds, NoPerm
    <3> QED BY <1>1, <3>1, <3>2, <3>3, <3>4 DEF Form, FormRows
  <2> QED BY <1>4, <1>8, <2>4, <2>5, <2>6 DEF UserSeen, Idle
<1> QED BY <1>1, <1>4, <1>5, <1>6, <1>7, <1>8 DEF UserInv

LEMMA UserRequestFailsKeeps ==
    ASSUME UserInv, NEW s \in Slots, UserRequestFails(s)
    PROVE  UserInv' /\ WebMove
<1>1. /\ WebMove /\ net[s] # NoRequest /\ net[s].st \in {"expired", "broken"}
      /\ UNCHANGED <<loop, session, broke, hasty>> /\ pageurl' \in {pageurl, "login.html"}
      /\ \A q \in Slots : net'[q] = NoRequest \/ net'[q] = net[q]
      /\ ~hasty => Idle'
  BY ErrorOne DEF UserInv, UserRequestFails
<1>2. UNCHANGED <<edituser, envs, dbusers, dbperms>>
      /\ (net[s].op \in {"envs", "perms"} => pageurl' = "login.html")
  BY DEF UserRequestFails, ErrorCallback
<1>3. \A q \in Slots : net'[q] # NoRequest => UserRequest(net[q])'
  BY <1>1, <1>2 DEF UserInv, UserRequest
<1>4. ~hasty => \A q \in Slots : net'[q] # NoRequest => UserFlight(net[q])'
  BY <1>1 DEF Idle
<1>5. net[s].op \in {"put", "post"} /\ ~hasty /\ UserSeen => Form
  BY <1>1 DEF UserSeen, UserFlight
<1>6. net[s].op \in {"envs", "perms", "put", "post"}
  BY <1>1 DEF UserInv, UserRequest
<1>7. dbusers' \subseteq Users \cup {NewUser}
  BY <1>2 DEF UserInv, UserTyped, UserTypeOK
<1> QED BY <1>1, <1>2, <1>3, <1>4, <1>5, <1>6, <1>7, UserStays

-----------------------------------------------------------------------------
(* The loops                                                               *)

(* The loop is at one of the environments, or over.                        *)
LEMMA LoopMeans ==
    ASSUME NEW ed \in BOOLEAN, NEW po \in BOOLEAN, NEW u, NEW arr, NEW e \in Nat
    PROVE  /\ Loop(ed, u, arr, e, po) = NoLoop <=> e > NEnvs
           /\ e <= NEnvs => Loop(ed, u, arr, e, po) = AtEnv(ed, u, arr, e, po)
           /\ AtEnv(ed, u, arr, e, po) # NoLoop
           /\ LET l == AtEnv(ed, u, arr, e, po)
              IN /\ (l.edit <=> ed) /\ (l.post <=> po)
                 /\ l.user = u /\ l.arr = arr /\ l.env = e
<1>1. AtEnv(ed, u, arr, e, po) # NoLoop
  BY DEF AtEnv, NoLoop
<1>2. NEnvs \in Nat
  BY UserAssumption
<1>3. e > NEnvs => Loop(ed, u, arr, e, po) = NoLoop
  BY DEF Loop
<1>4. ~(e > NEnvs) => Loop(ed, u, arr, e, po) = AtEnv(ed, u, arr, e, po)
  BY DEF Loop, AtEnv
<1>5. LET l == AtEnv(ed, u, arr, e, po)
      IN /\ (l.edit <=> ed) /\ (l.post <=> po)
         /\ l.user = u /\ l.arr = arr /\ l.env = e
  BY DEF AtEnv
<1> QED BY <1>1, <1>2, <1>3, <1>4, <1>5

(* Nothing in the rows, the list and the form changes, and a loop begins.  *)
LEMMA LoopBegins ==
    ASSUME UserInv, NEW s \in Slots, net[s] # NoRequest, loop = NoLoop,
           net' = Without(s), UNCHANGED <<pageurl, moves, session, broke, hasty>>,
           UNCHANGED <<edituser, envs, dbusers, dbperms>>,
           NEW ed \in BOOLEAN, NEW po \in BOOLEAN, po <=> ~ed, NEW u \in dbusers, NEW arr,
           loop' = Loop(ed, u, arr, 1, po),
           ~hasty /\ UserSeen =>
             /\ Form /\ arr = envs
             /\ IF ed THEN u = edituser
                ELSE /\ u = NewUser /\ edituser = AddForm
                     /\ Patient => \A e \in Envs : ~Has(NewUser, e)
    PROVE  UserInv' /\ WebMove
<1>1. /\ WebMove /\ (~hasty => Idle')
      /\ \A q \in Slots : net'[q] = NoRequest \/ net'[q] = net[q]
  BY CallbackOne DEF UserInv
<1>2. Waits' /\ (Patient' => Patient)
  BY <1>1, WaitsNext DEF UserInv
<1>3. \A q \in Slots : net'[q] # NoRequest => UserRequest(net[q])'
  BY <1>1 DEF UserInv, UserRequest
<1>4. loop' = NoLoop \/ (loop' = AtEnv(ed, u, arr, 1, po) /\ 1 \in Envs)
  BY LoopMeans, UserAssumption DEF Envs
<1>5. UserTyped'
  <2>1. LoopTyped'
    <3>1. CASE loop' = NoLoop
      BY <3>1 DEF LoopTyped
    <3>2. CASE loop' = AtEnv(ed, u, arr, 1, po) /\ 1 \in Envs
      <4>1. u \in dbusers'
        OBVIOUS
      <4> QED BY <3>2, <4>1 DEF LoopTyped
    <3> QED BY <1>4, <3>1, <3>2
  <2>2. UserTypeOK'
    BY DEF UserInv, UserTyped, UserTypeOK
  <2> QED BY <2>1, <2>2 DEF UserInv, UserTyped, Numbered
<1>6. ASSUME ~hasty PROVE UserSeen'
  <2>1. UserSeen /\ Form
    BY <1>6 DEF UserInv
  <2>2. Form' /\ PermsTyped' /\ (Patient => OneRow)'
    BY <1>2, <2>1, SameForm DEF UserSeen, PermsTyped, OneRow
  <2>3. LoopSeen'
    <3>1. CASE loop' = NoLoop
      BY <3>1 DEF LoopSeen
    <3>2. CASE loop' = AtEnv(ed, u, arr, 1, po)
      <4>1. /\ (loop'.edit <=> ed) /\ (loop'.post <=> po)
            /\ loop'.user = u /\ loop'.arr = arr /\ loop'.env = 1
        BY <3>2, LoopMeans
      <4>2. \A e \in Envs : (Has(NewUser, e)' <=> Has(NewUser, e)) /\ ~(e < 1)
        BY SameRows, UserAssumption DEF Envs
      <4>3. arr = envs /\ IF ed THEN u = edituser
                          ELSE /\ u = NewUser /\ edituser = AddForm
                               /\ Patient => \A e \in Envs : ~Has(NewUser, e)
        BY <1>6, <2>1
      <4>4. loop'.arr = envs' /\ Form'
        BY <2>2, <4>1, <4>3
      <4>5. /\ loop'.edit => loop'.user = edituser'
            /\ ~loop'.edit => /\ loop'.post /\ loop'.user = NewUser /\ edituser' = AddForm
                              /\ Patient' => \A e \in Envs : ~Has(NewUser, e)'
            /\ ~(loop'.edit /\ loop'.post)
        BY <1>2, <4>1, <4>2, <4>3
      <4>6. \A e \in Envs : ~(e < loop'.env)
        BY <4>1, <4>2
      <4> QED BY <4>4, <4>5, <4>6 DEF LoopSeen
    <3> QED BY <1>4, <3>1, <3>2
  <2> QED BY <1>1, <1>6, <2>2, <2>3 DEF UserSeen, Idle
<1> QED BY <1>1, <1>2, <1>3, <1>5, <1>6 DEF UserInv

LEMMA PutUserArrivesKeeps ==
    ASSUME UserInv, NEW s \in Slots, PutUserArrives(s)
    PROVE  UserInv' /\ WebMove
<1>1. /\ net[s] # NoRequest /\ net[s].op = "put" /\ loop = NoLoop
      /\ net' = Without(s) /\ UNCHANGED <<pageurl, moves, session, broke, hasty>>
      /\ loop' = Loop(TRUE, net[s].arg.user, ArrOf(s), 1, FALSE)
      /\ UNCHANGED <<edituser, envs, dbusers, dbperms>>
  BY DEF PutUserArrives, Arrived, EnterLoop, userVars
<1>2. PICK u \in dbusers : u = net[s].arg.user
  BY <1>1 DEF UserInv, UserRequest
<1> PICK arr : arr = ArrOf(s)
  OBVIOUS
<1>3. ~hasty /\ UserSeen => Form /\ arr = envs /\ u = edituser
  BY <1>1, <1>2 DEF UserSeen, UserFlight, ArrOf
<1>4. loop' = Loop(TRUE, u, arr, 1, FALSE)
  BY <1>1, <1>2
<1> QED BY <1>1, <1>3, <1>4, LoopBegins

LEMMA PostUserArrivesKeeps ==
    ASSUME UserInv, NEW s \in Slots, PostUserArrives(s)
    PROVE  UserInv' /\ WebMove
<1>1. /\ net[s] # NoRequest /\ net[s].op = "post" /\ loop = NoLoop
      /\ net' = Without(s) /\ UNCHANGED <<pageurl, moves, session, broke, hasty>>
      /\ UNCHANGED <<edituser, envs, dbusers, dbperms>>
  BY DEF PostUserArrives, Arrived, EnterLoop, Callback
<1>2. ~hasty /\ UserSeen =>
        /\ Form /\ net[s].arg.arr.live /\ edituser = AddForm
        /\ Patient /\ net[s].st = "ok" => \A e \in Envs : ~Has(NewUser, e)
  BY <1>1 DEF UserSeen, UserFlight
<1>3. CASE net[s].st = "ok"
  <2>1. PICK arr : arr = ArrOf(s) /\ loop' = Loop(FALSE, NewUser, arr, 1, TRUE)
    BY <1>3 DEF PostUserArrives, EnterLoop
  <2>2. NewUser \in dbusers
    BY <1>1, <1>3 DEF UserInv, UserRequest
  <2>3. ~hasty /\ UserSeen => arr = envs
    BY <1>2, <2>1 DEF ArrOf
  <2> QED BY <1>1, <1>2, <1>3, <2>1, <2>2, <2>3, LoopBegins
<1>4. CASE net[s].st # "ok"
  <2>1. UNCHANGED loop
    BY <1>4 DEF PostUserArrives, Callback
  <2>2. /\ WebMove /\ (~hasty => Idle')
        /\ \A q \in Slots : net'[q] = NoRequest \/ net'[q] = net[q]
    BY <1>1, <2>1, CallbackOne DEF UserInv
  <2>3. \A q \in Slots : net'[q] # NoRequest => UserRequest(net[q])'
    BY <1>1, <2>2 DEF UserInv, UserRequest
  <2>4. dbusers' \subseteq Users \cup {NewUser}
    BY <1>1 DEF UserInv, UserTyped, UserTypeOK
  <2> QED BY <1>1, <1>2, <2>1, <2>2, <2>3, <2>4, UserStays DEF Idle
<1> QED BY <1>3, <1>4

(* The form and the rows agree about u in environment e, after this step.  *)
SavedNow(u, e) ==
    (AllowedBy(dbperms', u, e) <=> envs[e].on = TRUE) \/ (envs[e].id = 0 /\ Has(u, e))

(* What one call may do to the rows of another environment than e.         *)
OnlyAt(e) ==
    /\ \A u : \A c \in Envs \ {e} :
         (AllowedBy(dbperms', u, c) <=> AllowedBy(dbperms, u, c)) /\ (Has(u, c)' <=> Has(u, c))
    /\ \A u : Has(u, e) => Has(u, e)'

(* One step of a loop over u's permissions, that goes on at environment n. *)
LEMMA LoopGoesOn ==
    ASSUME UserInv, NEW ed \in BOOLEAN, NEW po \in BOOLEAN, NEW u \in dbusers, NEW e \in Envs,
           NEW arr, loop = AtEnv(ed, u, arr, e, po),
           UNCHANGED <<net, session, hasty, edituser, envs, dbusers>>, broke => broke',
           pageurl' \in {pageurl, "login.html"},
           NEW n, NEW b \in BOOLEAN, loop' = Loop(ed, u, arr, n, b),
           \/ n = e + 1 /\ (b <=> ~ed)
           \/ n = e /\ b /\ ed,
           Numbered(dbperms'), DOMAIN dbperms \subseteq DOMAIN dbperms',
           \A i \in DOMAIN dbperms' : dbperms'[i].user \in dbusers /\ dbperms'[i].env \in Envs,
           ~hasty /\ UserSeen => PermsTyped' /\ FormOwn',
           ~hasty /\ UserSeen /\ Patient /\ Patient' =>
             /\ FormRows' /\ OneRow' /\ OnlyAt(e)
             /\ n = e + 1 \/ envs[e].id \in PermIds(edituser)' => SavedNow(u, e)
    PROVE  /\ UserInv' /\ WebMove
           /\ ~hasty /\ Patient' /\ loop' = NoLoop => \A c \in Envs : SavedNow(u, c)
<1>1. loop # NoLoop /\ (loop.edit <=> ed) /\ (loop.post <=> po)
      /\ loop.user = u /\ loop.arr = arr /\ loop.env = e
  BY LoopMeans, UserAssumption DEF Envs
<1>2. WebMove
  BY <1>1 DEF WebMove, InLoop
<1>3. Waits' /\ (Patient' => Patient)
  BY <1>2, WaitsNext DEF UserInv
<1>4. /\ n \in Nat /\ n <= NEnvs + 1 /\ NEnvs \in Nat
      /\ e \in Nat /\ e <= NEnvs /\ e >= 1 /\ (n = e \/ n = e + 1)
  BY UserAssumption DEF Envs
<1>5. \/ loop' = NoLoop /\ n = NEnvs + 1
      \/ loop' = AtEnv(ed, u, arr, n, b) /\ n \in Envs
  BY <1>4, LoopMeans DEF Envs
<1>6. UserTyped'
  <2>1. LoopTyped'
    <3>1. CASE loop' = NoLoop
      BY <3>1 DEF LoopTyped
    <3>2. CASE loop' = AtEnv(ed, u, arr, n, b) /\ n \in Envs
      <4>1. u \in dbusers'
        OBVIOUS
      <4> QED BY <3>2, <4>1 DEF LoopTyped
    <3> QED BY <1>5, <3>1, <3>2
  <2>2. UserTypeOK'
    BY DEF UserInv, UserTyped, UserTypeOK
  <2> QED BY <2>1, <2>2 DEF UserInv, UserTyped
<1>7. \A q \in Slots : net'[q] # NoRequest => UserRequest(net[q])'
  BY DEF UserInv, UserRequest
<1>8. ASSUME ~hasty
      PROVE  UserSeen' /\ (Patient' /\ loop' = NoLoop => \A c \in Envs : SavedNow(u, c))
  <2>1. UserSeen /\ Idle /\ LoopSeen
    BY <1>1, <1>8 DEF UserInv, Waits, UserSeen
  <2>2. Form' /\ PermsTyped' /\ (Patient' => OneRow')
    BY <1>3, <1>8, <2>1 DEF Form
  <2>3. /\ arr = envs
        /\ IF ed THEN u = edituser ELSE u = NewUser /\ edituser = AddForm
    BY <1>1, <2>1 DEF LoopSeen
  <2>4. ASSUME Patient'
        PROVE  /\ \A c \in Envs : c < n => SavedNow(u, c)
               /\ \A c \in Envs : SavedNow(u, c) => Saved(u, c)'
               /\ ~ed => \A c \in Envs : c >= n => ~Has(NewUser, c)'
               /\ n = e /\ envs[e].id \in PermIds(edituser)' => Saved(u, e)'
    <3>1. /\ OnlyAt(e)
          /\ n = e + 1 \/ envs[e].id \in PermIds(edituser)' => SavedNow(u, e)
      BY <1>3, <1>8, <2>1, <2>4
    <3>2. /\ \A c \in Envs : c < e => Saved(u, c)
          /\ ~ed => \A c \in Envs : c >= e => ~Has(NewUser, c)
      BY <1>1, <1>3, <2>1, <2>4 DEF LoopSeen
    <3>3. \A c \in Envs : c < e => SavedNow(u, c)
      BY <1>4, <3>1, <3>2 DEF Saved, SavedNow, OnlyAt, Envs
    <3>4. \A c \in Envs : c < n => SavedNow(u, c)
      BY <1>4, <3>1, <3>3 DEF Envs
    <3>5. \A c \in Envs : SavedNow(u, c) => Saved(u, c)'
      BY <3>1 DEF Saved, SavedNow, OnlyAt
    <3>6. ASSUME ~ed, NEW c \in Envs, c >= n PROVE ~Has(NewUser, c)'
      <4>1. c # e /\ c >= e
        BY <1>4, <3>6 DEF Envs
      <4> QED BY <3>1, <3>2, <3>6, <4>1 DEF OnlyAt
    <3> QED BY <3>1, <3>4, <3>5, <3>6
  <2>5. LoopSeen'
    <3>1. CASE loop' = NoLoop
      BY <3>1 DEF LoopSeen
    <3>2. CASE loop' = AtEnv(ed, u, arr, n, b)
      <4>1. /\ (loop'.edit <=> ed) /\ (loop'.post <=> b)
            /\ loop'.user = u /\ loop'.arr = arr /\ loop'.env = n
        BY <1>4, <3>2, LoopMeans
      <4>2. loop'.arr = envs' /\ Form'
        BY <2>2, <2>3, <4>1
      <4>3. /\ loop'.edit => loop'.user = edituser'
            /\ ~loop'.edit => /\ loop'.post /\ loop'.user = NewUser /\ edituser' = AddForm
                              /\ Patient' => \A c \in Envs : c >= n => ~Has(NewUser, c)'
            /\ loop'.edit /\ loop'.post => n = e
        BY <1>4, <2>3, <2>4, <4>1
      <4>4. Patient' => /\ \A c \in Envs : c < n => Saved(u, c)'
                        /\ n = e /\ envs[e].id \in PermIds(edituser)' => Saved(u, e)'
        BY <2>4
      <4> QED BY <4>1, <4>2, <4>3, <4>4 DEF LoopSeen
    <3> QED BY <1>5, <3>1, <3>2
  <2>6. Patient' /\ loop' = NoLoop => \A c \in Envs : SavedNow(u, c)
    <3>1. loop' = NoLoop => n = NEnvs + 1
      BY <1>4, <1>5, LoopMeans
    <3> QED BY <1>4, <2>4, <3>1 DEF Envs
  <2> QED BY <2>1, <2>2, <2>5, <2>6 DEF UserSeen, Idle
<1> QED BY <1>2, <1>3, <1>6, <1>7, <1>8 DEF UserInv

(* What a step of a loop changes: the rows of the loop's user only.        *)
UserOwn ==
    \A i \in DOMAIN dbperms' :
        \/ i \in DOMAIN dbperms /\ dbperms'[i] = dbperms[i]
        \/ dbperms'[i].user = loop.user /\ loop.user = IF loop.edit THEN edituser ELSE NewUser

UserSaved ==
    Patient' /\ loop # NoLoop /\ loop' = NoLoop =>
        \A e \in Envs : SavedNow(loop.user, e)

LoopKept == UserInv' /\ WebMove /\ (~hasty => UserOwn /\ UserSaved)

LEMMA LoopAt ==
    ASSUME UserInv, loop # NoLoop
    PROVE  \E ed, po \in BOOLEAN, u \in dbusers, e \in Envs : \E arr :
             /\ loop = AtEnv(ed, u, arr, e, po)
             /\ ed \/ po
             /\ (loop.edit <=> ed) /\ (loop.post <=> po)
             /\ loop.user = u /\ loop.arr = arr /\ loop.env = e
             /\ ~hasty => /\ arr = envs /\ Form
                          /\ IF ed THEN u = edituser ELSE u = NewUser /\ edituser = AddForm
<1>1. PICK ed \in BOOLEAN, po \in BOOLEAN, u \in dbusers, e \in Envs :
        (ed \/ po) /\ \E arr : loop = AtEnv(ed, u, arr, e, po)
  BY DEF UserInv, UserTyped, LoopTyped
<1>2. PICK arr : loop = AtEnv(ed, u, arr, e, po)
  BY <1>1
<1>3. /\ (loop.edit <=> ed) /\ (loop.post <=> po)
      /\ loop.user = u /\ loop.arr = arr /\ loop.env = e
  BY <1>2, LoopMeans, UserAssumption DEF Envs
<1>4. ~hasty => /\ arr = envs /\ Form
                /\ IF ed THEN u = edituser ELSE u = NewUser /\ edituser = AddForm
  BY <1>3 DEF UserInv, UserSeen, LoopSeen
<1> QED BY <1>1, <1>2, <1>3, <1>4

LEMMA SkipPutKeeps ==
    ASSUME UserInv, SkipPut
    PROVE  LoopKept
<1>1. loop # NoLoop /\ UNCHANGED <<pageurl, net, session, broke, hasty>> /\ UNCHANGED userVars
  BY DEF SkipPut
<1>2. PICK ed \in BOOLEAN, po \in BOOLEAN, u \in dbusers, e \in Envs : \E arr :
        /\ loop = AtEnv(ed, u, arr, e, po)
        /\ ed \/ po
        /\ (loop.edit <=> ed) /\ (loop.post <=> po)
        /\ loop.user = u /\ loop.arr = arr /\ loop.env = e
        /\ ~hasty => /\ arr = envs /\ Form
                     /\ IF ed THEN u = edituser ELSE u = NewUser /\ edituser = AddForm
  BY <1>1, LoopAt
<1>3. PICK arr :
        /\ loop = AtEnv(ed, u, arr, e, po)
        /\ ed \/ po
        /\ (loop.edit <=> ed) /\ (loop.post <=> po)
        /\ loop.user = u /\ loop.arr = arr /\ loop.env = e
        /\ ~hasty => /\ arr = envs /\ Form
                     /\ IF ed THEN u = edituser ELSE u = NewUser /\ edituser = AddForm
  BY <1>2
<1>4. UNCHANGED <<edituser, envs, dbusers, dbperms>>
  BY <1>1 DEF userVars
<1>5. ed /\ arr[e] = NoPerm
  BY <1>3 DEF SkipPut
<1>6. loop' = AfterPut(error)
  BY DEF SkipPut
<1>7. PICK n : \E b \in BOOLEAN :
        /\ loop' = Loop(TRUE, u, arr, n, b)
        /\ \/ n = e + 1 /\ b = FALSE
           \/ n = e /\ b = TRUE
  <2>1. CASE error
    <3>1. AfterPut(error) = Loop(TRUE, u, arr, e, TRUE)
      <4>1. AfterPut(error) = Loop(TRUE, loop.user, loop.arr, loop.env, TRUE)
        BY Zenon, <2>1 DEF AfterPut
      <4> QED BY <1>3, <4>1
    <3> QED BY <1>6, <3>1
  <2>2. CASE ~error
    <3>1. AfterPut(error) = Loop(TRUE, u, arr, e + 1, FALSE)
      <4>1. AfterPut(error) = Loop(loop.edit, loop.user, loop.arr, loop.env + 1, ~loop.edit)
        BY Zenon, <2>2 DEF AfterPut, NextEnv
      <4>2. Loop(loop.edit, u, arr, e + 1, ~loop.edit) = Loop(TRUE, u, arr, e + 1, FALSE)
        BY <1>3, <1>5 DEF Loop
      <4> QED BY <1>3, <4>1, <4>2
    <3> QED BY <1>6, <3>1
  <2> QED BY <2>1, <2>2
<1>13. PICK b \in BOOLEAN :
        /\ loop' = Loop(ed, u, arr, n, b)
        /\ \/ n = e + 1 /\ b = FALSE
           \/ n = e /\ b = TRUE
  BY <1>5, <1>7
<1>8. /\ Numbered(dbperms')
      /\ \A i \in DOMAIN dbperms' : dbperms'[i].user \in dbusers /\ dbperms'[i].env \in Envs
  BY <1>4 DEF UserInv, UserTyped, UserTypeOK
<1>9. ASSUME ~hasty, UserSeen PROVE PermsTyped' /\ FormOwn'
  BY <1>3, <1>4, <1>9 DEF UserSeen, PermsTyped, Form, FormOwn, PermIds
<1>10. ASSUME ~hasty, UserSeen, Patient
       PROVE  FormRows' /\ OneRow' /\ OnlyAt(e) /\ SavedNow(u, e)
  <2>1. FormRows' /\ OneRow'
    BY <1>3, <1>4, <1>10, SameRows DEF UserSeen, Form, FormRows, PermIds, AllowedBy
  <2>2. OnlyAt(e)
    BY <1>4, SameRows DEF OnlyAt
  <2>3. SavedNow(u, e)
    <3>1. envs[e].id = -1 /\ envs[e].on = FALSE /\ u = edituser
      BY <1>3, <1>5, <1>10, EmptyBox
    <3>2. ~AllowedBy(dbperms, u, e)
      BY <1>3, <1>10, <3>1 DEF Form, FormRows
    <3> QED BY <1>4, <3>1, <3>2 DEF SavedNow
  <2> QED BY <2>1, <2>2, <2>3
<1>11. /\ UserInv' /\ WebMove
       /\ ~hasty /\ Patient' /\ loop' = NoLoop => \A d \in Envs : SavedNow(u, d)
  <2>1. \/ n = e + 1 /\ (b <=> ~ed)
        \/ n = e /\ b /\ ed
    BY <1>5, <1>13
  <2>2. /\ DOMAIN dbperms \subseteq DOMAIN dbperms' /\ loop' = Loop(ed, u, arr, n, b)
        /\ broke => broke' /\ pageurl' \in {pageurl, "login.html"}
    BY <1>1, <1>4, <1>13
  <2> QED BY <1>1, <1>3, <1>4, <1>8, <1>9, <1>10, <2>1, <2>2, LoopGoesOn
<1>12. UserOwn
  BY <1>4 DEF UserOwn
<1> QED BY <1>3, <1>11, <1>12 DEF LoopKept, UserSaved

(* What a call with outcome o does besides the rows.                       *)
LEMMA CallMeans ==
    ASSUME NEW o, NEW l, SyncCall(o, l)
    PROVE  /\ loop' = l /\ UNCHANGED <<net, session, hasty>>
           /\ broke => broke'
           /\ pageurl' \in {pageurl, "login.html"}
           /\ Patient' => o \notin {"expired", "broken"}
<1>1. loop' = l /\ UNCHANGED <<net, session, hasty>> /\ pageurl' \in {pageurl, "login.html"}
  BY DEF SyncCall
<1>2. broke => broke'
  BY Zenon DEF SyncCall
<1>3. o = "expired" => ~Patient'
  BY Zenon DEF SyncCall, Patient
<1>4. o = "broken" => ~Patient'
  BY Zenon DEF SyncCall, Patient
<1> QED BY <1>1, <1>2, <1>3, <1>4

LEMMA PutPermKeeps ==
    ASSUME UserInv, loop # NoLoop, NEW o \in {"ok", "refused", "expired", "broken"}, PutPerm(o)
    PROVE  LoopKept
<1>1. PICK ed \in BOOLEAN, po \in BOOLEAN, u \in dbusers, e \in Envs : \E arr :
        /\ loop = AtEnv(ed, u, arr, e, po)
        /\ ed \/ po
        /\ (loop.edit <=> ed) /\ (loop.post <=> po)
        /\ loop.user = u /\ loop.arr = arr /\ loop.env = e
        /\ ~hasty => /\ arr = envs /\ Form
                     /\ IF ed THEN u = edituser ELSE u = NewUser /\ edituser = AddForm
  BY LoopAt
<1>2. PICK arr :
        /\ loop = AtEnv(ed, u, arr, e, po)
        /\ ed \/ po
        /\ (loop.edit <=> ed) /\ (loop.post <=> po)
        /\ loop.user = u /\ loop.arr = arr /\ loop.env = e
        /\ ~hasty => /\ arr = envs /\ Form
                     /\ IF ed THEN u = edituser ELSE u = NewUser /\ edituser = AddForm
  BY <1>1
<1>3. PICK p : p = arr[e]
  OBVIOUS
<1>4. /\ ed /\ p # NoPerm /\ UNCHANGED <<edituser, envs, dbusers>>
      /\ SyncCall(o, AfterPut(error \/ o \in {"refused", "broken"}))
  BY Zenon, <1>2, <1>3 DEF PutPerm
<1>5. \/ /\ o \in {"ok", "broken"} /\ p.id # 0
         /\ dbperms' = [dbperms EXCEPT ![p.id] = [user |-> dbperms[p.id].user,
                                                  env |-> dbperms[p.id].env, on |-> p.on]]
      \/ o = "refused" /\ p.id = 0 /\ UNCHANGED dbperms
      \/ o \in {"broken", "expired"} /\ UNCHANGED dbperms
  BY Zenon, <1>2, <1>3 DEF PutPerm
<1>6. /\ loop' = AfterPut(error \/ o \in {"refused", "broken"})
      /\ UNCHANGED <<net, session, hasty>> /\ pageurl' \in {pageurl, "login.html"}
      /\ broke => broke'
      /\ Patient' => o \notin {"expired", "broken"}
  BY Zenon, <1>4, CallMeans
<1>7. PICK n : \E b \in BOOLEAN :
        /\ loop' = Loop(TRUE, u, arr, n, b)
        /\ \/ n = e + 1 /\ b = FALSE /\ o \notin {"refused", "broken"}
           \/ n = e /\ b = TRUE
  <2>1. CASE error \/ o \in {"refused", "broken"}
    <3>1. loop' = Loop(TRUE, loop.user, loop.arr, loop.env, TRUE)
      BY Zenon, <1>6, <2>1 DEF AfterPut
    <3> QED BY <1>2, <3>1
  <2>2. CASE ~(error \/ o \in {"refused", "broken"})
    <3>1. loop' = Loop(loop.edit, loop.user, loop.arr, loop.env + 1, ~loop.edit)
      BY Zenon, <1>6, <2>2 DEF AfterPut, NextEnv
    <3>2. Loop(loop.edit, u, arr, e + 1, ~loop.edit) = Loop(TRUE, u, arr, e + 1, FALSE)
      BY <1>2, <1>4 DEF Loop
    <3>3. o \notin {"refused", "broken"}
      BY Zenon, <2>2
    <3> QED BY <1>2, <3>1, <3>2, <3>3
  <2> QED BY Zenon, <2>1, <2>2
<1>8. PICK b \in BOOLEAN :
        /\ loop' = Loop(ed, u, arr, n, b)
        /\ \/ n = e + 1 /\ b = FALSE /\ o \notin {"refused", "broken"}
           \/ n = e /\ b = TRUE
  BY <1>4, <1>7
<1>9. /\ DOMAIN dbperms' = DOMAIN dbperms
      /\ \A i \in DOMAIN dbperms :
           \/ dbperms'[i] = dbperms[i]
           \/ /\ i = p.id
              /\ dbperms'[i] = [user |-> dbperms[i].user, env |-> dbperms[i].env, on |-> p.on]
  BY <1>5
<1>10. \A i \in DOMAIN dbperms :
         dbperms'[i].user = dbperms[i].user /\ dbperms'[i].env = dbperms[i].env
  BY <1>9
<1>11. /\ \A w : PermIds(w)' = PermIds(w)
       /\ \A w, c : Has(w, c)' <=> Has(w, c)
  <2>1. \A w : PermIds(w)' = PermIds(w)
    BY <1>9, <1>10 DEF PermIds
  <2> QED BY <1>10, <2>1 DEF Has, PermIds
<1>12. /\ Numbered(dbperms')
       /\ \A i \in DOMAIN dbperms' : dbperms'[i].user \in dbusers /\ dbperms'[i].env \in Envs
  BY <1>9, <1>10 DEF UserInv, UserTyped, UserTypeOK, Numbered
<1>13. ASSUME ~hasty, UserSeen
       PROVE  /\ PermsTyped' /\ FormOwn' /\ envs[e].id # -1
              /\ p.id = 0 \/ p.id \in PermIds(edituser)
              /\ p = envs[e] /\ p.on \in BOOLEAN /\ u = edituser
  <2>1. p = envs[e] /\ Form /\ u = edituser
    BY <1>2, <1>3, <1>4, <1>13
  <2>2. p.id \in DOMAIN dbperms \cup {0} /\ p.id # -1
    BY <1>4, <2>1 DEF UserInv, UserTyped, UserTypeOK, Numbered
  <2>3. p.on \in BOOLEAN
    BY <1>13, <2>1 DEF UserSeen, PermsTyped
  <2>4. PermsTyped'
    <3>1. \A i \in DOMAIN dbperms : dbperms'[i] \in [user : dbusers, env : Envs, on : BOOLEAN]
      BY <1>9, <1>13, <2>3 DEF UserSeen, PermsTyped
    <3> QED BY <1>4, <1>9, <1>13, <3>1 DEF UserSeen, PermsTyped
  <2>5. FormOwn'
    BY <1>4, <1>11, <2>1 DEF Form, FormOwn
  <2>6. p.id = 0 \/ p.id \in PermIds(edituser)
    BY <2>1, <2>2 DEF Form, FormOwn
  <2> QED BY <2>1, <2>2, <2>3, <2>4, <2>5, <2>6
<1>14. ASSUME ~hasty, UserSeen, Patient, Patient'
       PROVE  /\ FormRows' /\ OneRow' /\ OnlyAt(e)
              /\ n = e + 1 \/ envs[e].id \in PermIds(edituser)' => SavedNow(u, e)
  <2>1. /\ p = envs[e] /\ p.id # -1 /\ p.on \in BOOLEAN /\ u = edituser
        /\ p.id = 0 \/ p.id \in PermIds(edituser)
        /\ FormRows /\ OneRow
    BY <1>2, <1>13, <1>14 DEF Form, UserSeen
  <2>2. p.id # 0 => p.id \in DOMAIN dbperms /\ dbperms[p.id].env = e /\ dbperms[p.id].user = u
    BY <2>1 DEF FormRows, PermIds
  <2>3. OneRow'
    BY <1>9, <1>10, <2>1 DEF OneRow
  <2>4. OnlyAt(e)
    <3>1. ASSUME NEW w, NEW c \in Envs \ {e}
          PROVE  AllowedBy(dbperms', w, c) <=> AllowedBy(dbperms, w, c)
      <4>1. \A i \in DOMAIN dbperms : dbperms[i].env = c => dbperms'[i] = dbperms[i]
        BY <1>5, <1>9, <2>2, <3>1
      <4>2. [user |-> w, env |-> c, on |-> TRUE].env = c
        OBVIOUS
      <4>3. \A i \in DOMAIN dbperms : dbperms'[i] = [user |-> w, env |-> c, on |-> TRUE]
                                   <=> dbperms[i] = [user |-> w, env |-> c, on |-> TRUE]
        BY Zenon, <1>10, <4>1, <4>2
      <4> QED BY Zenon, <1>9, <4>3 DEF AllowedBy
    <3>2. \A w : \A c \in Envs \ {e} : AllowedBy(dbperms', w, c) <=> AllowedBy(dbperms, w, c)
      BY <3>1
    <3> QED BY Zenon, <1>11, <3>2 DEF OnlyAt
  <2>5. FormRows'
    <3>1. ASSUME NEW c \in Envs, envs[c].id = -1 PROVE ~AllowedBy(dbperms', edituser, c)
      BY <2>1, <2>4, <3>1 DEF FormRows, OnlyAt
    <3>2. ASSUME NEW c \in Envs, envs[c].id \in PermIds(edituser)
          PROVE  dbperms'[envs[c].id].env = c
      BY <1>10, <2>1, <3>2 DEF FormRows, PermIds
    <3>3. UNCHANGED PermIds(edituser)
      BY <1>4, <1>11 DEF PermIds
    <3> QED BY <1>4, <3>1, <3>2, <3>3 DEF FormRows
  <2>6. CASE o = "ok"
    <3>1. /\ p.id \in DOMAIN dbperms' /\ dbperms'[p.id] = [user |-> u, env |-> e, on |-> p.on]
      BY <1>5, <1>9, <2>2, <2>6
    <3>2. \A i \in DOMAIN dbperms' :
             dbperms'[i].user = u /\ dbperms'[i].env = e => i = p.id
      BY <2>3, <3>1 DEF OneRow
    <3>3. AllowedBy(dbperms', u, e) <=> p.on = TRUE
      BY <3>1, <3>2 DEF AllowedBy
    <3> QED BY <2>1, <2>3, <2>4, <2>5, <3>3 DEF SavedNow
  <2>7. CASE o = "refused"
    <3>1. n # e + 1
      BY <1>8, <2>7, UserAssumption DEF Envs
    <3>2. envs[e].id = 0 /\ 0 \notin PermIds(edituser)'
      BY <1>5, <1>12, <2>1, <2>7 DEF PermIds, Numbered
    <3> QED BY <2>3, <2>4, <2>5, <3>1, <3>2
  <2> QED BY <1>6, <1>14, <2>6, <2>7
<1>15. /\ UserInv' /\ WebMove
       /\ ~hasty /\ Patient' /\ loop' = NoLoop => \A d \in Envs : SavedNow(u, d)
  <2>1. \/ n = e + 1 /\ (b <=> ~ed)
        \/ n = e /\ b /\ ed
    BY <1>4, <1>8
  <2>2. DOMAIN dbperms \subseteq DOMAIN dbperms' /\ loop' = Loop(ed, u, arr, n, b)
    BY <1>8, <1>9
  <2>3. ~hasty /\ UserSeen => PermsTyped' /\ FormOwn'
    BY <1>13
  <2>4. ~hasty /\ UserSeen /\ Patient /\ Patient' =>
          /\ FormRows' /\ OneRow' /\ OnlyAt(e)
          /\ n = e + 1 \/ envs[e].id \in PermIds(edituser)' => SavedNow(u, e)
    BY <1>14
  <2>5. /\ loop = AtEnv(ed, u, arr, e, po)
        /\ UNCHANGED <<net, session, hasty, edituser, envs, dbusers>> /\ (broke => broke')
        /\ pageurl' \in {pageurl, "login.html"}
    BY <1>2, <1>4, <1>6
  <2> QED BY <1>12, <2>1, <2>2, <2>3, <2>4, <2>5, LoopGoesOn
<1>16. ASSUME ~hasty PROVE UserOwn
  <2>1. UserSeen
    BY <1>16 DEF UserInv
  <2>2. /\ p.id = 0 \/ p.id \in PermIds(edituser)
        /\ u = edituser /\ loop.user = u /\ loop.edit /\ UNCHANGED edituser
    BY <1>2, <1>4, <1>13, <1>16, <2>1
  <2>3. p.id \in DOMAIN dbperms => p.id # 0
    BY DEF UserInv, UserTyped, Numbered
  <2>4. \A i \in DOMAIN dbperms : i = p.id => dbperms'[i].user = edituser
    BY <1>10, <2>2, <2>3 DEF PermIds
  <2> QED BY <1>9, <2>2, <2>4 DEF UserOwn
<1> QED BY <1>2, <1>15, <1>16 DEF LoopKept, UserSaved

(* A row is added for one user and environment.                            *)
LEMMA RowAdds ==
    ASSUME UserInv, NEW u, NEW e, NEW on,
           dbperms' = WithRow(dbperms, NextId(dbperms), [user |-> u, env |-> e, on |-> on])
    PROVE  \E k : /\ Numbered(dbperms') /\ k \notin DOMAIN dbperms
                  /\ DOMAIN dbperms' = DOMAIN dbperms \cup {k}
                  /\ dbperms'[k] = [user |-> u, env |-> e, on |-> on]
                  /\ \A i \in DOMAIN dbperms : dbperms'[i] = dbperms[i]
<1>1. PICK r : r = [user |-> u, env |-> e, on |-> on]
  OBVIOUS
<1>2. PICK more : more = dbperms'
  OBVIOUS
<1>3. Numbered(dbperms) /\ more = WithRow(dbperms, NextId(dbperms), r)
  BY <1>1, <1>2 DEF UserInv, UserTyped
<1>4. PICK k : k = NextId(dbperms)
  OBVIOUS
<1>5. /\ Numbered(more) /\ k \in Nat \ {0} /\ \A i \in DOMAIN dbperms : i < k
      /\ DOMAIN more = DOMAIN dbperms \cup {k} /\ more[k] = r
      /\ \A i \in DOMAIN dbperms : more[i] = dbperms[i] /\ i \in Nat
  BY <1>3, <1>4, RowAdded
<1>6. k \notin DOMAIN dbperms
  BY <1>5
<1> QED BY <1>1, <1>2, <1>5, <1>6

LEMMA PostPermKeeps ==
    ASSUME UserInv, loop # NoLoop, NEW o \in {"ok", "refused", "expired", "broken"}, PostPerm(o)
    PROVE  LoopKept
<1>1. PICK ed \in BOOLEAN, po \in BOOLEAN, u \in dbusers, e \in Envs : \E arr :
        /\ loop = AtEnv(ed, u, arr, e, po)
        /\ ed \/ po
        /\ (loop.edit <=> ed) /\ (loop.post <=> po)
        /\ loop.user = u /\ loop.arr = arr /\ loop.env = e
        /\ ~hasty => /\ arr = envs /\ Form
                     /\ IF ed THEN u = edituser ELSE u = NewUser /\ edituser = AddForm
  BY LoopAt
<1>2. PICK arr :
        /\ loop = AtEnv(ed, u, arr, e, po)
        /\ ed \/ po
        /\ (loop.edit <=> ed) /\ (loop.post <=> po)
        /\ loop.user = u /\ loop.arr = arr /\ loop.env = e
        /\ ~hasty => /\ arr = envs /\ Form
                     /\ IF ed THEN u = edituser ELSE u = NewUser /\ edituser = AddForm
  BY <1>1
<1>3. PICK on : on = arr[e].on
  OBVIOUS
<1>4. loop.post /\ UNCHANGED <<edituser, envs, dbusers>> /\ SyncCall(o, NextEnv)
  BY Zenon DEF PostPerm
<1>5. \/ /\ o \in {"ok", "broken"} /\ ~Has(u, e)
         /\ dbperms' = WithRow(dbperms, NextId(dbperms), [user |-> u, env |-> e, on |-> on])
      \/ o = "refused" /\ Has(u, e) /\ UNCHANGED dbperms
      \/ o \in {"broken", "expired"} /\ UNCHANGED dbperms
  BY Zenon, <1>2, <1>3 DEF PostPerm
<1>6. /\ loop' = NextEnv
      /\ UNCHANGED <<net, session, hasty>> /\ pageurl' \in {pageurl, "login.html"}
      /\ broke => broke'
      /\ Patient' => o \notin {"expired", "broken"}
  BY Zenon, <1>4, CallMeans
<1>7. PICK b \in BOOLEAN : (b <=> ~ed) /\ loop' = Loop(ed, u, arr, e + 1, b)
  <2>1. PICK b \in BOOLEAN : b <=> ~ed
    OBVIOUS
  <2>2. loop' = Loop(loop.edit, u, arr, e + 1, ~loop.edit)
    BY Zenon, <1>2, <1>6 DEF NextEnv
  <2>3. Loop(loop.edit, u, arr, e + 1, ~loop.edit) = Loop(ed, u, arr, e + 1, b)
    <3>1. loop.edit = ed
      BY <1>2 DEF AtEnv
    <3>2. (~loop.edit) = b
      BY <1>2, <2>1
    <3> QED BY <3>1, <3>2
  <2> QED BY <2>1, <2>2, <2>3
<1>8. \/ UNCHANGED dbperms /\ (o = "refused" => Has(u, e))
      \/ /\ ~Has(u, e)
         /\ \E k : /\ Numbered(dbperms') /\ k \notin DOMAIN dbperms
                   /\ DOMAIN dbperms' = DOMAIN dbperms \cup {k}
                   /\ dbperms'[k] = [user |-> u, env |-> e, on |-> on]
                   /\ \A i \in DOMAIN dbperms : dbperms'[i] = dbperms[i]
  BY <1>5, RowAdds
<1>9. ASSUME ~hasty, UserSeen
      PROVE  /\ on = envs[e].on /\ on \in BOOLEAN /\ Form
             /\ IF ed THEN u = edituser ELSE u = NewUser /\ edituser = AddForm
  BY <1>2, <1>3, <1>9 DEF UserSeen, PermsTyped
<1>10. UserTyped /\ \A i \in DOMAIN dbperms : i \in Nat \ {0}
  BY DEF UserInv, UserTyped, Numbered
<1>11. CASE UNCHANGED dbperms /\ (o = "refused" => Has(u, e)) /\ o \notin {"ok"}
  <2>1. /\ Numbered(dbperms') /\ DOMAIN dbperms \subseteq DOMAIN dbperms'
        /\ \A i \in DOMAIN dbperms' : dbperms'[i].user \in dbusers /\ dbperms'[i].env \in Envs
    BY <1>10, <1>11 DEF UserTyped, UserTypeOK
  <2>2. ~hasty /\ UserSeen => PermsTyped' /\ FormOwn'
    BY <1>4, <1>9, <1>11 DEF UserSeen, PermsTyped, Form, FormOwn, PermIds
  <2>3. ASSUME ~hasty, UserSeen, Patient, Patient'
        PROVE  FormRows' /\ OneRow' /\ OnlyAt(e)
    <3>1. FormRows' /\ OneRow'
      BY <1>4, <1>9, <1>11, <2>3, SameRows DEF UserSeen, Form, FormRows, PermIds, AllowedBy
    <3>2. OnlyAt(e)
      BY <1>4, <1>11, SameRows DEF OnlyAt
    <3> QED BY <3>1, <3>2
  <2>4. ASSUME ~hasty, Patient' PROVE SavedNow(u, e)
    <3>1. UserSeen /\ Patient /\ Has(u, e) /\ loop # NoLoop
      BY <1>6, <1>11, <2>4, <1>4, WaitsNext DEF UserInv, Patient
    <3>2. LoopSeen /\ FormOwn /\ FormRows
      BY <1>9, <2>4, <3>1 DEF UserSeen, Form
    <3>3. ed
      <4> SUFFICES ASSUME ~ed PROVE FALSE
        OBVIOUS
      <4>1. ~loop.edit /\ loop.env = e /\ e >= e /\ u = NewUser
        BY <1>2, <2>4, UserAssumption DEF Envs
      <4>2. ~Has(NewUser, e)
        BY <3>1, <3>2, <4>1 DEF LoopSeen
      <4> QED BY <3>1, <4>1, <4>2
    <3>4. u = edituser /\ envs[e].id \in {-1, 0} \cup PermIds(edituser)
      BY <1>9, <2>4, <3>1, <3>2, <3>3 DEF FormOwn
    <3>5. CASE envs[e].id = -1
      BY <1>9, <1>11, <2>4, <3>1, <3>2, <3>4, <3>5 DEF SavedNow, FormRows, UserSeen, PermsTyped
    <3>6. CASE envs[e].id = 0
      BY <3>1, <3>6 DEF SavedNow
    <3>7. CASE envs[e].id \in PermIds(edituser)
      <4>1. Saved(u, e)
        BY <1>2, <1>4, <3>1, <3>2, <3>3, <3>7 DEF LoopSeen
      <4> QED BY <1>11, <4>1 DEF Saved, SavedNow
    <3> QED BY <3>4, <3>5, <3>6, <3>7
  <2>5. UserOwn
    BY <1>11 DEF UserOwn
  <2>6. /\ UserInv' /\ WebMove
        /\ ~hasty /\ Patient' /\ loop' = NoLoop => \A c \in Envs : SavedNow(u, c)
    <3>1. /\ loop = AtEnv(ed, u, arr, e, po)
          /\ UNCHANGED <<net, session, hasty, edituser, envs, dbusers>> /\ (broke => broke')
          /\ pageurl' \in {pageurl, "login.html"}
      BY <1>2, <1>4, <1>6
    <3>2. ~hasty /\ UserSeen /\ Patient /\ Patient' =>
            /\ FormRows' /\ OneRow' /\ OnlyAt(e)
            /\ e + 1 = e + 1 \/ envs[e].id \in PermIds(edituser)' => SavedNow(u, e)
      BY <2>3, <2>4
    <3> QED BY <1>7, <2>1, <2>2, <3>1, <3>2, LoopGoesOn
  <2> QED BY <1>2, <2>5, <2>6 DEF LoopKept, UserSaved
<1>12. ASSUME ~Has(u, e),
             NEW k, Numbered(dbperms'), k \notin DOMAIN dbperms,
             DOMAIN dbperms' = DOMAIN dbperms \cup {k},
             dbperms'[k] = [user |-> u, env |-> e, on |-> on],
             \A i \in DOMAIN dbperms : dbperms'[i] = dbperms[i]
       PROVE  LoopKept
  <2>1. /\ DOMAIN dbperms \subseteq DOMAIN dbperms'
        /\ \A i \in DOMAIN dbperms' : dbperms'[i].user \in dbusers /\ dbperms'[i].env \in Envs
    BY <1>10, <1>12 DEF UserTyped, UserTypeOK
  <2>2. /\ \A w : PermIds(w) \subseteq PermIds(w)' /\ PermIds(w)' \subseteq PermIds(w) \cup {k}
        /\ \A w : \A i \in PermIds(w)' : i # k \/ w = u
        /\ k \in PermIds(u)'
    BY <1>12 DEF PermIds
  <2>3. \A w, c : Has(w, c)' <=> (Has(w, c) \/ (w = u /\ c = e))
    <3> TAKE w, c
    <3>1. Has(w, c)' <=> \E i \in DOMAIN dbperms' : dbperms'[i].user = w /\ dbperms'[i].env = c
      BY DEF Has, PermIds
    <3>2. Has(w, c) <=> \E i \in DOMAIN dbperms : dbperms[i].user = w /\ dbperms[i].env = c
      BY DEF Has, PermIds
    <3> QED BY <1>12, <3>1, <3>2
  <2>4. ASSUME ~hasty, UserSeen PROVE PermsTyped' /\ FormOwn'
    <3>1. on \in BOOLEAN /\ FormOwn
      BY <1>9, <2>4 DEF Form
    <3>2. PermsTyped'
      BY <1>4, <1>12, <2>4, <3>1 DEF UserSeen, PermsTyped
    <3>3. FormOwn'
      BY <1>4, <2>2, <3>1 DEF FormOwn
    <3> QED BY <3>2, <3>3
  <2>5. ASSUME ~hasty, UserSeen, Patient, Patient'
        PROVE  FormRows' /\ OneRow' /\ OnlyAt(e) /\ SavedNow(u, e)
    <3>1. Form /\ FormRows /\ FormOwn /\ OneRow /\ on = envs[e].on /\ on \in BOOLEAN
      BY <1>9, <2>5 DEF Form, UserSeen
    <3>2. \A i \in DOMAIN dbperms : ~(dbperms[i].user = u /\ dbperms[i].env = e)
      BY <1>12 DEF Has, PermIds
    <3>3. OneRow'
      BY <1>12, <3>1, <3>2 DEF OneRow
    <3>4. \A w, c : c # e => (AllowedBy(dbperms', w, c) <=> AllowedBy(dbperms, w, c))
      <4> TAKE w, c
      <4> HAVE c # e
      <4>1. dbperms'[k] # [user |-> w, env |-> c, on |-> TRUE]
        BY <1>12
      <4> QED BY Zenon, <1>12, <4>1 DEF AllowedBy
    <3>5. OnlyAt(e)
      <4>1. \A w, c : c # e => (Has(w, c)' <=> Has(w, c))
        BY <2>3
      <4>2. \A w : Has(w, e) => Has(w, e)'
        BY <2>3
      <4> QED BY Zenon, <3>4, <4>1, <4>2 DEF OnlyAt
    <3>6. AllowedBy(dbperms', u, e) <=> on = TRUE
      <4>1. \A i \in DOMAIN dbperms : dbperms'[i] # [user |-> u, env |-> e, on |-> TRUE]
        BY <1>12, <3>2
      <4>2. dbperms'[k] = [user |-> u, env |-> e, on |-> TRUE] <=> on = TRUE
        <5>1. dbperms'[k].on = on /\ [user |-> u, env |-> e, on |-> TRUE].on = TRUE
          BY <1>12
        <5>2. on = TRUE => dbperms'[k] = [user |-> u, env |-> e, on |-> TRUE]
          BY <1>12
        <5> QED BY Zenon, <5>1, <5>2
      <4>3. k \in DOMAIN dbperms' /\ \A i \in DOMAIN dbperms' : i = k \/ i \in DOMAIN dbperms
        BY <1>12
      <4> QED BY Zenon, <4>1, <4>2, <4>3 DEF AllowedBy
    <3>7. SavedNow(u, e)
      BY <3>1, <3>6 DEF SavedNow
    <3>8. FormRows'
      <4>1. \A w, c : AllowedBy(dbperms', w, c) =>
                        AllowedBy(dbperms, w, c) \/ (w = u /\ c = e /\ on = TRUE)
        BY <1>12 DEF AllowedBy
      <4>2. ASSUME NEW c \in Envs, envs[c].id = -1 PROVE ~AllowedBy(dbperms', edituser, c)
        <5>1. envs[c].on = FALSE /\ ~AllowedBy(dbperms, edituser, c)
          BY <2>5, <3>1, <4>2 DEF UserSeen, PermsTyped, FormRows
        <5> QED BY <3>1, <4>1, <5>1
      <4>3. ASSUME NEW c \in Envs, envs[c].id \in PermIds(edituser)'
            PROVE  dbperms'[envs[c].id].env = c
        <5>1. envs[c].id # k
          <6>1. k \in Nat \ {0}
            BY <1>12 DEF Numbered
          <6>2. envs[c].id \in DOMAIN dbperms \cup {0} \/ envs[c] = NoPerm
            BY <1>10 DEF UserTyped, UserTypeOK
          <6> QED BY <1>12, <6>1, <6>2, EmptyBox
        <5>2. envs[c].id \in PermIds(edituser)
          BY <1>4, <2>2, <4>3, <5>1 DEF PermIds
        <5> QED BY <1>12, <3>1, <5>2 DEF FormRows, PermIds
      <4> QED BY <1>4, <4>2, <4>3 DEF FormRows
    <3> QED BY <3>3, <3>5, <3>7, <3>8
  <2>6. ~hasty => UserOwn
    <3>1. ~hasty => loop.user = u /\ loop.user = IF loop.edit THEN edituser ELSE NewUser
      BY <1>2
    <3> QED BY <1>12, <3>1 DEF UserOwn
  <2>7. /\ UserInv' /\ WebMove
        /\ ~hasty /\ Patient' /\ loop' = NoLoop => \A c \in Envs : SavedNow(u, c)
    <3>1. /\ loop = AtEnv(ed, u, arr, e, po)
          /\ UNCHANGED <<net, session, hasty, edituser, envs, dbusers>> /\ (broke => broke')
          /\ pageurl' \in {pageurl, "login.html"}
      BY <1>2, <1>4, <1>6
    <3>2. ~hasty /\ UserSeen /\ Patient /\ Patient' =>
            /\ FormRows' /\ OneRow' /\ OnlyAt(e)
            /\ e + 1 = e + 1 \/ envs[e].id \in PermIds(edituser)' => SavedNow(u, e)
      BY <2>5
    <3> QED BY <1>7, <1>12, <2>1, <2>4, <3>1, <3>2, LoopGoesOn
  <2> QED BY <1>2, <2>6, <2>7 DEF LoopKept, UserSaved
<1>13. CASE UNCHANGED dbperms /\ o = "ok"
  <2>1. o = "ok" => dbperms' = WithRow(dbperms, NextId(dbperms), [user |-> u, env |-> e, on |-> on])
    BY <1>5
  <2>2. \E k : k \notin DOMAIN dbperms /\ DOMAIN dbperms' = DOMAIN dbperms \cup {k}
    BY <1>13, <2>1, RowAdds
  <2> QED BY <1>13, <2>2
<1> QED BY <1>8, <1>11, <1>12, <1>13

-----------------------------------------------------------------------------
(* Every step of the page.                                                 *)
LEMMA UserInvNext ==
    ASSUME UserInv, UserNext
    PROVE  UserInv' /\ WebMove /\ (~hasty => UserOwn /\ UserSaved)
<1>1. CASE SkipPut
  BY <1>1, SkipPutKeeps DEF LoopKept
<1>2. ASSUME loop # NoLoop, NEW o \in {"ok", "refused", "expired", "broken"},
             PutPerm(o) \/ PostPerm(o)
      PROVE  UserInv' /\ WebMove /\ (~hasty => UserOwn /\ UserSaved)
  BY <1>2, PutPermKeeps, PostPermKeeps DEF LoopKept
<1>3. CASE UserUser
  <2>1. UserInv' /\ WebMove
    BY <1>3, EditUserKeeps, CloseUserKeeps, AddUserKeeps, TickKeeps, ApplyUserKeeps DEF UserUser
  <2>2. UserActs /\ UNCHANGED dbperms
    BY <1>3 DEF UserUser, EditUser, CloseUser, AddUser, Tick, EditUserApply, AddUserApply, userVars
  <2>3. loop = NoLoop
    BY <2>2, Acted DEF UserActs
  <2> QED BY <2>1, <2>2, <2>3 DEF UserOwn, UserSaved
<1>4. CASE UserServer
  <2>1. UserInv' /\ WebMove
    BY <1>4, UserServerKeeps
  <2>2. UNCHANGED <<dbperms, loop>>
    BY <1>4 DEF UserServer, ServeEnvs, ServePerms, ServePutUser, ServePostUser, userVars, Answer,
                ServerFaults, Expire, Refuse401, Break
  <2> QED BY <2>1, <2>2 DEF UserOwn, UserSaved
<1>5. ASSUME NEW s \in Slots, \/ EnvsArrive(s) \/ PermsArrive(s)
                              \/ PutUserArrives(s) \/ PostUserArrives(s) \/ UserRequestFails(s)
      PROVE  UserInv' /\ WebMove /\ (~hasty => UserOwn /\ UserSaved)
  <2>1. UserInv' /\ WebMove
    BY <1>5, EnvsArriveKeeps, PermsArriveKeeps, PutUserArrivesKeeps, PostUserArrivesKeeps,
       UserRequestFailsKeeps
  <2>2. loop = NoLoop
    BY <1>5 DEF EnvsArrive, PermsArrive, PutUserArrives, PostUserArrives, UserRequestFails,
                Arrived, ErrorCallback
  <2>3. UNCHANGED dbperms
    BY <1>5 DEF EnvsArrive, PermsArrive, PutUserArrives, PostUserArrives, UserRequestFails, userVars
  <2> QED BY <2>1, <2>2, <2>3 DEF UserOwn, UserSaved
<1> QED BY <1>1, <1>2, <1>3, <1>4, <1>5 DEF UserNext, UserCallbacks

LEMMA UserInvInit == ASSUME WebInit("admin.html"), UserInit PROVE UserInv
<1>1. Waits /\ loop = NoLoop /\ edituser = UserList /\ envs = NoPerms /\ dbusers = Users
      /\ dbperms = [i \in Users \cap Envs |-> [user |-> i, env |-> i, on |-> i = 1]]
      /\ \A q \in Slots : net[q] = NoRequest
  BY DEF WebInit, UserInit, Waits, OneInv, Idle
<1>2. /\ NEnvs \in Nat /\ NUsers \in Nat /\ Users = 1 .. NUsers
      /\ NoPerms = [e \in Envs |-> NoPerms[e]]
      /\ \A e \in Envs : NoPerms[e] = NoPerm
  BY UserAssumption DEF Users, NoPerms
<1>3. UserTyped
  <2>1. Numbered(dbperms)
    <3>1. DOMAIN dbperms \subseteq 1 .. NUsers
      BY <1>1, <1>2
    <3> QED BY <1>2, <3>1 DEF Numbered
  <2>2. LoopTyped
    BY <1>1 DEF LoopTyped
  <2>3. UserTypeOK
    BY <1>1, <1>2 DEF UserTypeOK
  <2> QED BY <1>1, <1>2, <2>1, <2>2, <2>3 DEF UserTyped
<1>4. UserSeen
  <2>1. PermsTyped
    BY <1>1, <1>2, EmptyBox DEF PermsTyped
  <2>2. OneRow /\ LoopSeen
    BY <1>1, <1>2 DEF OneRow, LoopSeen
  <2> QED BY <1>1, <2>1, <2>2 DEF UserSeen
<1> QED BY <1>1, <1>3, <1>4 DEF UserInv

-----------------------------------------------------------------------------
(***************************************************************************)
(* The forms of the data centres and environments.                         *)
(***************************************************************************)

(* The types of what the form keeps.                                       *)
Items == [id : Nat, cap : Caps \cup {NoCap}]
News == [cap : Caps \cup {NoCap}, for : Int]
Dels == [id : Nat, for : Int, kept : BOOLEAN]

CapsRequest(r) ==
    /\ r.op \in {"maps", "put", "post"}
    /\ r.op # "post" => r.st # "refused"
    /\ r.op = "maps" /\ r.st = "ok" => \A m \in r.data : m \in Items /\ m.cap \in Caps

CapsLoopTyped ==
    loop = NoLoop \/ \E ed \in BOOLEAN, P \in Seq(News), D \in Seq(Dels) :
                        \E r : loop = Saving(ed, r, P, D)

CapsTyped ==
    /\ CapsTypeOK
    /\ kind \in {"dcs", "envs"}
    /\ \A m \in capmaps : m \in Items
    /\ newcapmaps \in Seq(News)
    /\ delcaps \in Seq(Dels)
    /\ Numbered(dbmaps)
    /\ form \in dbrows => obj = form
    /\ CapsLoopTyped

(* What is removed was shown in this form, or kept from another one.       *)
RowIs(i, r) == i \in DOMAIN dbmaps => dbmaps[i].row = r
DelOwn(d) == (kind = "envs" /\ d.kept) \/ (form \in dbrows /\ RowIs(d.id, form))
DelsOwn(D) == \A i \in DOMAIN D : DelOwn(D[i])
NewsOwn(P, f) == \A i \in DOMAIN P : P[i].for = f

(* What is shown is mapped to the row of the form.                         *)
Held == \A m \in capmaps : m.id # 0 => RowIs(m.id, form)

(* Once the maps of C are made and those of I are gone the server has what *)
(* the form shows, and nothing is in the way of either.                    *)
Maps(i, c) == dbmaps[i].row = form /\ dbmaps[i].cap = c
FitsIn(C, I) ==
    /\ C \subseteq Caps /\ I \subseteq DOMAIN dbmaps
    /\ \A m \in capmaps :
         \/ m.id = 0 /\ (m.cap \in C \/ \E i \in DOMAIN dbmaps \ I : Maps(i, m.cap))
         \/ m.id \in DOMAIN dbmaps \ I /\ Maps(m.id, m.cap)
    /\ \A i \in DOMAIN dbmaps \ I :
         dbmaps[i].row = form => \E m \in capmaps : m.cap = dbmaps[i].cap /\ m.id \in {0, i}
    /\ \A c \in C : /\ \A i \in DOMAIN dbmaps : ~Maps(i, c)
                    /\ \E m \in capmaps : m.id = 0 /\ m.cap = c

CapsOf(P) == {P[i].cap : i \in DOMAIN P}
IdsIn(D) == {D[i].id : i \in DOMAIN D}
OnceCaps(P) == \A i, j \in DOMAIN P : P[i].cap = P[j].cap => i = j
OnceIds(D) == \A i, j \in DOMAIN D : D[i].id = D[j].id => i = j
Fits(P, D) == FitsIn(CapsOf(P), IdsIn(D)) /\ OnceCaps(P) /\ OnceIds(D)

(* What was added and is shown without an Id is still to be saved.         *)
Zeros == \A m \in capmaps : m.id = 0 => m.cap \in CapsOf(newcapmaps)

Saves == Patient /\ slips = {}
Matches(P, D) == Held /\ (Saves => Zeros /\ Fits(P, D))

CapsFlight(r) ==
    /\ r.op = "maps" => /\ form \in dbrows /\ r.arg = form /\ newcapmaps = <<>>
                        /\ r.st = "ok" => r.data = MapsOf(form)
                        /\ Saves => delcaps = <<>>
    /\ r.op = "put" => form \in dbrows /\ pageurl = "admin.html"
    /\ r.op = "post" => form = Add /\ r.arg = NewRow

NoMaps == \A s \in Slots : net[s] # NoRequest => net[s].op # "maps"

CapsLoopSeen ==
    loop # NoLoop =>
        /\ DelsOwn(loop.dels)
        /\ \/ /\ loop.edit /\ form \in dbrows /\ loop.row = form
              /\ NewsOwn(loop.posts, form)
              /\ Matches(loop.posts, loop.dels)
           \/ ~loop.edit /\ form = Add /\ loop.dels = <<>> /\ NewsOwn(loop.posts, Add)

CapsSeen ==
    /\ form # List => NewsOwn(newcapmaps, form)
    /\ DelsOwn(delcaps)
    /\ form \in dbrows /\ loop = NoLoop /\ pageurl = "admin.html" /\ NoMaps =>
         Matches(newcapmaps, delcaps)
    /\ CapsLoopSeen
    /\ \A s \in Slots : net[s] # NoRequest => CapsFlight(net[s])

CapsInv ==
    /\ Waits
    /\ CapsTyped
    /\ \A s \in Slots : net[s] # NoRequest => CapsRequest(net[s])
    /\ ~hasty => CapsSeen

-----------------------------------------------------------------------------
(* Sequences                                                               *)

LEMMA Appended ==
    ASSUME NEW S, NEW s \in Seq(S), NEW e \in S, NEW t, t = Append(s, e)
    PROVE  /\ t \in Seq(S)
           /\ \E k : /\ k \notin DOMAIN s /\ DOMAIN t = DOMAIN s \cup {k} /\ t[k] = e
                     /\ \A i \in DOMAIN s : t[i] = s[i]
<1>1. /\ t \in Seq(S) /\ Len(t) = Len(s) + 1 /\ t[Len(s) + 1] = e
      /\ \A i \in 1 .. Len(s) : t[i] = s[i]
      /\ Len(s) \in Nat /\ DOMAIN s = 1 .. Len(s) /\ DOMAIN t = 1 .. Len(t)
  BY AppendProperties, LenProperties
<1>2. Len(s) + 1 \notin DOMAIN s /\ DOMAIN t = DOMAIN s \cup {Len(s) + 1}
  BY <1>1
<1> QED BY <1>1, <1>2

LEMMA Rest ==
    ASSUME NEW S, NEW s \in Seq(S), s # <<>>, NEW t, t = Tail(s)
    PROVE  /\ t \in Seq(S) /\ Head(s) \in S
           /\ 1 \in DOMAIN s /\ s[1] = Head(s)
           /\ \A i \in DOMAIN t : i + 1 \in DOMAIN s /\ i + 1 # 1 /\ t[i] = s[i + 1]
           /\ \A j \in DOMAIN s : j = 1 \/ \E i \in DOMAIN t : j = i + 1
           /\ DOMAIN t \subseteq Nat
<1>1. /\ t \in Seq(S) /\ Len(t) = Len(s) - 1
      /\ \A i \in 1 .. Len(t) : t[i] = s[i + 1]
      /\ Len(s) \in Nat /\ DOMAIN s = 1 .. Len(s) /\ DOMAIN t = 1 .. Len(t)
      /\ Head(s) = s[1]
  BY LenProperties, HeadTailProperties
<1>2. Len(s) # 0
  BY EmptySeq
<1>3. ASSUME NEW j \in DOMAIN s, j # 1 PROVE \E i \in DOMAIN t : j = i + 1
  <2>1. j - 1 \in DOMAIN t /\ j = j - 1 + 1
    BY <1>1, <1>3
  <2> QED BY <2>1
<1>4. 1 \in DOMAIN s
  BY <1>1, <1>2
<1>5. Head(s) \in S
  BY <1>1, <1>4, ElementOfSeq
<1>6. \A i \in DOMAIN t : i + 1 \in DOMAIN s /\ i + 1 # 1 /\ i \in Nat
  BY <1>1
<1> QED BY <1>1, <1>3, <1>4, <1>5, <1>6

LEMMA NoneLeft ==
    /\ CapsOf(<<>>) = {} /\ IdsIn(<<>>) = {} /\ OnceCaps(<<>>) /\ OnceIds(<<>>)
    /\ DelsOwn(<<>>) /\ \A f : NewsOwn(<<>>, f)
    /\ \A S : <<>> \in Seq(S)
BY DEF CapsOf, IdsIn, OnceCaps, OnceIds, DelsOwn, NewsOwn

(* An array without one of its elements.                                   *)
LEMMA LessOne ==
    ASSUME NEW S, NEW s \in Seq(S), NEW k \in DOMAIN s, NEW t, t = WithoutAt(s, k)
    PROVE  t \in Seq(S) /\ \A i \in DOMAIN t : \E j \in DOMAIN s : t[i] = s[j]
<1>1. Len(s) \in Nat /\ DOMAIN s = 1 .. Len(s) /\ \A j \in DOMAIN s : s[j] \in S
  BY LenProperties, ElementOfSeq
<1>2. Len(s) - 1 \in Nat /\ k \in Nat
  BY <1>1
<1>3. DOMAIN t = 1 .. Len(s) - 1 /\ t = [i \in 1 .. Len(s) - 1 |-> t[i]]
      /\ \A i \in DOMAIN t : t[i] = IF i < k THEN s[i] ELSE s[i + 1]
  BY DEF WithoutAt
<1>4. \A i \in DOMAIN t : \E j \in DOMAIN s : t[i] = s[j]
  <2> TAKE i \in DOMAIN t
  <2>1. i \in DOMAIN s /\ i + 1 \in DOMAIN s
    BY <1>1, <1>2, <1>3
  <2> QED BY <1>3, <2>1
<1>5. \A i \in 1 .. Len(s) - 1 : t[i] \in S
  BY <1>1, <1>3, <1>4
<1>6. t \in Seq(S)
  BY <1>2, <1>3, <1>5, IsASeq
<1> QED BY <1>4, <1>6

(* The maps that are left to POST, the ids that are left to DELETE.        *)
LEMMA CapsLeft ==
    ASSUME NEW P \in Seq(News), P # <<>>, NEW t, t = Tail(P), NEW c, c = Head(P).cap
    PROVE  /\ c \in CapsOf(P) /\ CapsOf(t) \subseteq CapsOf(P)
           /\ OnceCaps(P) => OnceCaps(t) /\ CapsOf(t) = CapsOf(P) \ {c}
<1>1. /\ 1 \in DOMAIN P /\ P[1] = Head(P)
      /\ \A i \in DOMAIN t : i + 1 \in DOMAIN P /\ i + 1 # 1 /\ t[i] = P[i + 1]
      /\ \A j \in DOMAIN P : j = 1 \/ \E i \in DOMAIN t : j = i + 1
      /\ DOMAIN t \subseteq Nat
  BY Rest
<1>2. c \in CapsOf(P) /\ CapsOf(t) \subseteq CapsOf(P)
  BY <1>1 DEF CapsOf
<1>3. ASSUME OnceCaps(P) PROVE OnceCaps(t)
  BY <1>1, <1>3 DEF OnceCaps
<1>4. ASSUME OnceCaps(P) PROVE c \notin CapsOf(t)
  BY <1>1, <1>4 DEF OnceCaps, CapsOf
<1>5. ASSUME NEW j \in DOMAIN P PROVE P[j].cap \in CapsOf(t) \cup {c}
  <2>1. CASE j = 1
    BY <1>1, <2>1
  <2>2. ASSUME NEW i \in DOMAIN t, j = i + 1 PROVE P[j].cap \in CapsOf(t)
    <3>1. t[i].cap \in CapsOf(t) /\ t[i] = P[j]
      BY <1>1, <2>2 DEF CapsOf
    <3> QED BY <3>1
  <2> QED BY <1>1, <2>1, <2>2
<1>6. CapsOf(P) \subseteq CapsOf(t) \cup {c}
  BY <1>5 DEF CapsOf
<1> QED BY <1>2, <1>3, <1>4, <1>6

LEMMA IdsLeft ==
    ASSUME NEW D \in Seq(Dels), D # <<>>, NEW t, t = Tail(D), NEW d, d = Head(D).id
    PROVE  /\ d \in IdsIn(D) /\ IdsIn(t) \subseteq IdsIn(D)
           /\ OnceIds(D) => OnceIds(t) /\ IdsIn(t) = IdsIn(D) \ {d}
<1>1. /\ 1 \in DOMAIN D /\ D[1] = Head(D)
      /\ \A i \in DOMAIN t : i + 1 \in DOMAIN D /\ i + 1 # 1 /\ t[i] = D[i + 1]
      /\ \A j \in DOMAIN D : j = 1 \/ \E i \in DOMAIN t : j = i + 1
      /\ DOMAIN t \subseteq Nat
  BY Rest
<1>2. d \in IdsIn(D) /\ IdsIn(t) \subseteq IdsIn(D)
  BY <1>1 DEF IdsIn
<1>3. ASSUME OnceIds(D) PROVE OnceIds(t)
  BY <1>1, <1>3 DEF OnceIds
<1>4. ASSUME OnceIds(D) PROVE d \notin IdsIn(t)
  BY <1>1, <1>4 DEF OnceIds, IdsIn
<1>5. ASSUME NEW j \in DOMAIN D PROVE D[j].id \in IdsIn(t) \cup {d}
  <2>1. CASE j = 1
    BY <1>1, <2>1
  <2>2. ASSUME NEW i \in DOMAIN t, j = i + 1 PROVE D[j].id \in IdsIn(t)
    <3>1. t[i].id \in IdsIn(t) /\ t[i] = D[j]
      BY <1>1, <2>2 DEF IdsIn
    <3> QED BY <3>1
  <2> QED BY <1>1, <2>1, <2>2
<1>6. IdsIn(D) \subseteq IdsIn(t) \cup {d}
  BY <1>5 DEF IdsIn
<1> QED BY <1>2, <1>3, <1>4, <1>6

LEMMA OneMoreCap ==
    ASSUME NEW P \in Seq(News), NEW e \in News, NEW t, t = Append(P, e)
    PROVE  /\ CapsOf(t) = CapsOf(P) \cup {e.cap}
           /\ OnceCaps(P) /\ e.cap \notin CapsOf(P) => OnceCaps(t)
<1>1. PICK k : /\ k \notin DOMAIN P /\ DOMAIN t = DOMAIN P \cup {k} /\ t[k] = e
               /\ \A i \in DOMAIN P : t[i] = P[i]
  BY Appended
<1> QED BY <1>1 DEF CapsOf, OnceCaps

LEMMA OneMoreId ==
    ASSUME NEW D \in Seq(Dels), NEW e \in Dels, NEW t, t = Append(D, e)
    PROVE  /\ IdsIn(t) = IdsIn(D) \cup {e.id}
           /\ OnceIds(D) /\ e.id \notin IdsIn(D) => OnceIds(t)
<1>1. PICK k : /\ k \notin DOMAIN D /\ DOMAIN t = DOMAIN D \cup {k} /\ t[k] = e
               /\ \A i \in DOMAIN D : t[i] = D[i]
  BY Appended
<1> QED BY <1>1 DEF IdsIn, OnceIds

-----------------------------------------------------------------------------
(* What the form shows and what is left to do, when one of them changes.   *)

LEMMA SameFits ==
    ASSUME UNCHANGED <<form, capmaps, dbmaps>>
    PROVE  /\ \A C, I : FitsIn(C, I) => FitsIn(C, I)'
           /\ \A i, r : RowIs(i, r) => RowIs(i, r)'
           /\ Held => Held'
BY DEF FitsIn, Maps, RowIs, Held

LEMMA FitsAdd ==
    ASSUME NEW C, NEW c \in Caps, FitsIn(C, {}), \A m \in capmaps : m.cap # c,
           capmaps' = capmaps \cup {[id |-> 0, cap |-> c]}, UNCHANGED <<form, dbmaps>>
    PROVE  FitsIn(C \cup {c}, {})'
<1>1. \A i, k : Maps(i, k)' <=> Maps(i, k)
  BY DEF Maps
<1>2. PICK z : z = [id |-> 0, cap |-> c]
  OBVIOUS
<1>3. z.id = 0 /\ z.cap = c /\ capmaps' = capmaps \cup {z}
  BY <1>2
<1>4. \A m \in capmaps' :
        \/ m.id = 0 /\ (m.cap \in C \cup {c} \/ \E i \in DOMAIN dbmaps \ {} : Maps(i, m.cap))
        \/ m.id \in DOMAIN dbmaps \ {} /\ Maps(m.id, m.cap)
  BY <1>3 DEF FitsIn
<1>5. \A i \in DOMAIN dbmaps \ {} :
        dbmaps[i].row = form => \E m \in capmaps' : m.cap = dbmaps[i].cap /\ m.id \in {0, i}
  BY <1>3 DEF FitsIn
<1>6. \A i \in DOMAIN dbmaps : ~Maps(i, c)
  BY DEF FitsIn, Maps
<1>7. \A k \in C \cup {c} : /\ \A i \in DOMAIN dbmaps : ~Maps(i, k)
                            /\ \E m \in capmaps' : m.id = 0 /\ m.cap = k
  BY <1>3, <1>6 DEF FitsIn
<1> QED BY <1>1, <1>4, <1>5, <1>7 DEF FitsIn

LEMMA FitsRemove ==
    ASSUME NEW C, NEW I, FitsIn(C, I), NEW m \in capmaps, m.id # 0,
           \A z \in capmaps : z.id = 0 => z.cap \in C,
           capmaps' = {e \in capmaps : e.id # m.id}, UNCHANGED <<form, dbmaps>>
    PROVE  FitsIn(C, I \cup {m.id})' /\ m.id \notin I
<1>1. \A i, k : Maps(i, k)' <=> Maps(i, k)
  BY DEF Maps
<1>2. m.id \in DOMAIN dbmaps \ I
  BY DEF FitsIn
<1>3. \A e \in capmaps' :
        \/ e.id = 0 /\ e.cap \in C
        \/ e.id \in DOMAIN dbmaps \ (I \cup {m.id}) /\ Maps(e.id, e.cap)
  BY DEF FitsIn
<1>4. ASSUME NEW i \in DOMAIN dbmaps \ (I \cup {m.id}), dbmaps[i].row = form
      PROVE  \E e \in capmaps' : e.cap = dbmaps[i].cap /\ e.id \in {0, i}
  <2>1. PICK e \in capmaps : e.cap = dbmaps[i].cap /\ e.id \in {0, i}
    BY <1>4 DEF FitsIn
  <2>2. e \in capmaps'
    BY <1>4, <2>1
  <2> QED BY <2>1, <2>2
<1>5. \A c \in C : /\ \A i \in DOMAIN dbmaps : ~Maps(i, c)
                   /\ \E e \in capmaps' : e.id = 0 /\ e.cap = c
  <2> TAKE c \in C
  <2>1. PICK e \in capmaps : e.id = 0 /\ e.cap = c
    BY DEF FitsIn
  <2>2. e \in capmaps'
    BY <2>1
  <2> QED BY <2>1, <2>2 DEF FitsIn
<1>6. C \subseteq Caps /\ I \cup {m.id} \subseteq DOMAIN dbmaps
  BY <1>2 DEF FitsIn
<1> QED BY <1>1, <1>2, <1>3, <1>4, <1>5, <1>6 DEF FitsIn

LEMMA FitsForget ==
    ASSUME NEW C, NEW I, FitsIn(C, I), \A z \in capmaps : z.id = 0 => z.cap \in C,
           capmaps' = {e \in capmaps : e.id # 0}, UNCHANGED <<form, dbmaps>>
    PROVE  FitsIn({}, I)'
<1>1. \A i, k : Maps(i, k)' <=> Maps(i, k)
  BY DEF Maps
<1>2. \A e \in capmaps' : e.id \in DOMAIN dbmaps \ I /\ Maps(e.id, e.cap)
  BY DEF FitsIn
<1>3. ASSUME NEW i \in DOMAIN dbmaps \ I, dbmaps[i].row = form
      PROVE  \E e \in capmaps' : e.cap = dbmaps[i].cap /\ e.id \in {0, i}
  <2>1. PICK e \in capmaps : e.cap = dbmaps[i].cap /\ e.id \in {0, i}
    BY <1>3 DEF FitsIn
  <2>2. e.id # 0
    BY <1>3, <2>1 DEF FitsIn, Maps
  <2> QED BY <2>1, <2>2
<1> QED BY <1>1, <1>2, <1>3 DEF FitsIn

LEMMA FitsFetched ==
    ASSUME capmaps' = MapsOf(form), UNCHANGED <<form, dbmaps>>, Numbered(dbmaps)
    PROVE  /\ FitsIn({}, {})' /\ Held'
           /\ \A m \in capmaps' : m.id # 0
<1>1. \A i, k : Maps(i, k)' <=> Maps(i, k)
  BY DEF Maps
<1>2. \A i \in DOMAIN dbmaps : i # 0
  BY DEF Numbered
<1>3. \A m \in capmaps' : m.id \in DOMAIN dbmaps \ {} /\ Maps(m.id, m.cap)
  BY DEF MapsOf, Maps
<1>4. ASSUME NEW i \in DOMAIN dbmaps \ {}, dbmaps[i].row = form
      PROVE  \E m \in capmaps' : m.cap = dbmaps[i].cap /\ m.id \in {0, i}
  <2> PICK m : m = [id |-> i, cap |-> dbmaps[i].cap]
    OBVIOUS
  <2>1. m \in capmaps'
    BY <1>4 DEF MapsOf
  <2>2. m.cap = dbmaps[i].cap /\ m.id = i
    OBVIOUS
  <2> QED BY <2>1, <2>2
<1>5. FitsIn({}, {})'
  BY <1>1, <1>3, <1>4 DEF FitsIn
<1>6. Held'
  BY <1>3 DEF Held, RowIs, Maps
<1> QED BY <1>2, <1>3, <1>5, <1>6

LEMMA FitsPosted ==
    ASSUME NEW C, NEW I, FitsIn(C, I), NEW c \in C, NEW k, k \notin DOMAIN dbmaps,
           DOMAIN dbmaps' = DOMAIN dbmaps \cup {k},
           dbmaps'[k].row = form, dbmaps'[k].cap = c,
           \A i \in DOMAIN dbmaps : dbmaps'[i] = dbmaps[i],
           UNCHANGED <<form, capmaps>>
    PROVE  FitsIn(C \ {c}, I)'
<1>1. \A i \in DOMAIN dbmaps : \A b : Maps(i, b)' <=> Maps(i, b)
  BY DEF Maps
<1>2. \A b : Maps(k, b)' <=> b = c
  BY DEF Maps
<1>3. C \subseteq Caps /\ I \subseteq DOMAIN dbmaps /\ k \notin I
  BY DEF FitsIn
<1>4. ASSUME NEW m \in capmaps
      PROVE  \/ m.id = 0 /\ (m.cap \in C \ {c} \/ \E i \in DOMAIN dbmaps' \ I : Maps(i, m.cap)')
             \/ m.id \in DOMAIN dbmaps' \ I /\ Maps(m.id, m.cap)'
  <2>1. CASE m.id = 0 /\ m.cap \in C
    BY <1>2, <1>3, <2>1
  <2>2. ASSUME m.id = 0, NEW i \in DOMAIN dbmaps \ I, Maps(i, m.cap)
        PROVE  \E j \in DOMAIN dbmaps' \ I : Maps(j, m.cap)'
    BY <1>1, <2>2
  <2>3. CASE m.id \in DOMAIN dbmaps \ I /\ Maps(m.id, m.cap)
    BY <1>1, <2>3
  <2> QED BY <1>4, <2>1, <2>2, <2>3 DEF FitsIn
<1>5. ASSUME NEW i \in DOMAIN dbmaps' \ I, dbmaps'[i].row = form
      PROVE  \E m \in capmaps : m.cap = dbmaps'[i].cap /\ m.id \in {0, i}
  <2>1. CASE i = k
    BY <2>1 DEF FitsIn
  <2>2. CASE i # k
    BY <1>5, <2>2 DEF FitsIn
  <2> QED BY <2>1, <2>2
<1>6. \A b \in C \ {c} : /\ \A i \in DOMAIN dbmaps' : ~Maps(i, b)'
                         /\ \E m \in capmaps : m.id = 0 /\ m.cap = b
  BY <1>1, <1>2 DEF FitsIn
<1> QED BY <1>3, <1>4, <1>5, <1>6 DEF FitsIn

LEMMA FitsDeleted ==
    ASSUME NEW C, NEW I, FitsIn(C, I), NEW d \in I,
           DOMAIN dbmaps' = DOMAIN dbmaps \ {d},
           \A i \in DOMAIN dbmaps' : dbmaps'[i] = dbmaps[i],
           UNCHANGED <<form, capmaps>>
    PROVE  FitsIn(C, I \ {d})'
<1>1. \A i \in DOMAIN dbmaps' : \A b : Maps(i, b)' <=> Maps(i, b)
  BY DEF Maps
<1>2. I \subseteq DOMAIN dbmaps /\ DOMAIN dbmaps' \ (I \ {d}) = DOMAIN dbmaps \ I
  BY DEF FitsIn
<1>3. \A m \in capmaps :
        \/ m.id = 0 /\ (m.cap \in C \/ \E i \in DOMAIN dbmaps \ I : Maps(i, m.cap)')
        \/ m.id \in DOMAIN dbmaps \ I /\ Maps(m.id, m.cap)'
  BY <1>1, <1>2 DEF FitsIn
<1>4. \A i \in DOMAIN dbmaps \ I : dbmaps'[i].row = form =>
        \E m \in capmaps : m.cap = dbmaps'[i].cap /\ m.id \in {0, i}
  BY <1>2 DEF FitsIn
<1>5. \A c \in C : /\ \A i \in DOMAIN dbmaps' : ~Maps(i, c)'
                   /\ \E m \in capmaps : m.id = 0 /\ m.cap = c
  BY <1>1 DEF FitsIn
<1>6. C \subseteq Caps /\ I \ {d} \subseteq DOMAIN dbmaps'
  BY <1>2 DEF FitsIn
<1> QED BY <1>2, <1>3, <1>4, <1>5, <1>6 DEF FitsIn

(* When nothing is left to do the server has what the form shows.          *)
LEMMA FitsAtLast ==
    ASSUME FitsIn({}, {})
    PROVE  CapsIn(MapsOf(form)) = CapsIn(capmaps)
<1>1. ASSUME NEW m \in capmaps PROVE m.cap \in CapsIn(MapsOf(form))
  <2>1. PICK i \in DOMAIN dbmaps : dbmaps[i].row = form /\ dbmaps[i].cap = m.cap
    BY <1>1 DEF FitsIn, Maps
  <2>2. [id |-> i, cap |-> dbmaps[i].cap] \in MapsOf(form)
    BY <2>1 DEF MapsOf
  <2> QED BY <2>1, <2>2 DEF CapsIn
<1>2. ASSUME NEW z \in MapsOf(form) PROVE z.cap \in CapsIn(capmaps)
  <2>1. PICK i \in DOMAIN dbmaps : dbmaps[i].row = form /\ z = [id |-> i, cap |-> dbmaps[i].cap]
    BY <1>2 DEF MapsOf
  <2>2. \E m \in capmaps : m.cap = dbmaps[i].cap
    BY <2>1 DEF FitsIn
  <2> QED BY <2>1, <2>2 DEF CapsIn
<1>3. CapsIn(capmaps) \subseteq CapsIn(MapsOf(form))
  BY <1>1 DEF CapsIn
<1>4. CapsIn(MapsOf(form)) \subseteq CapsIn(capmaps)
  BY <1>2 DEF CapsIn
<1> QED BY <1>3, <1>4

-----------------------------------------------------------------------------
(* The user                                                                *)

LEMMA RowIds ==
    /\ List \notin Rows \cup {NewRow} /\ Add \notin Rows \cup {NewRow} /\ List # Add
    /\ Rows \cup {NewRow} \subseteq Int /\ List \in Int /\ Add \in Int
BY CapsAssumption DEF List, Add, Rows, NewRow

LEMMA FormMeans ==
    ASSUME CapsTyped
    PROVE  /\ form \in Int /\ dbrows \subseteq Rows \cup {NewRow}
           /\ form \in dbrows => form # List /\ form # Add
           /\ \A i \in DOMAIN dbmaps : i \in Nat \ {0}
BY RowIds DEF CapsTyped, CapsTypeOK, Numbered

(* The user does something, and perhaps sends a request about a.           *)
LEMMA CapsActsKeeps ==
    ASSUME CapsInv, UserActs, CapsTyped', UNCHANGED dbrows,
           NEW op \in {"none", "maps", "put", "post"}, NEW a,
           IF op = "none" THEN UNCHANGED net ELSE Send(op, a),
           CapsSeen /\ Idle /\ pageurl = "admin.html" /\ (Patient' => Patient) =>
             /\ form' # List => NewsOwn(newcapmaps, form)'
             /\ DelsOwn(delcaps)'
             /\ op # "maps" /\ form' \in dbrows => Matches(newcapmaps, delcaps)'
             /\ op = "maps" => /\ form' \in dbrows /\ a = form' /\ newcapmaps' = <<>>
                               /\ slips' = {} => delcaps' = <<>>
             /\ op = "put" => form' \in dbrows
             /\ op = "post" => form' = Add /\ a = NewRow
    PROVE  CapsInv' /\ WebMove
<1>1. /\ loop = NoLoop /\ UNCHANGED <<pageurl, loop, session, broke>> /\ pageurl = "admin.html"
      /\ hasty' = (hasty \/ InFlight) /\ (~hasty' => ~hasty /\ Idle)
  BY Acted DEF UserActs
<1>2. op # "none" => /\ Begins(net)
                     /\ \A q \in Slots : net'[q] = net[q] \/ Sent(net'[q], op, a)
                     /\ ~Idle'
  BY SentOne DEF Send, CapsInv, Waits
<1>3. WebMove
  BY <1>1, <1>2 DEF WebMove, ByUser
<1>4. Waits' /\ (Patient' => Patient)
  BY <1>3, WaitsNext DEF CapsInv
<1>5. \A q \in Slots : net'[q] # NoRequest => CapsRequest(net[q])'
  <2>1. ASSUME NEW q \in Slots, net'[q] = net[q], net[q] # NoRequest PROVE CapsRequest(net[q])'
    BY <2>1 DEF CapsInv, CapsRequest
  <2>2. ASSUME NEW q \in Slots, op # "none", Sent(net'[q], op, a) PROVE CapsRequest(net[q])'
    BY <2>2 DEF CapsRequest, Sent
  <2> QED BY <1>2, <2>1, <2>2
<1>6. ASSUME ~hasty' PROVE CapsSeen'
  <2>1. CapsSeen /\ Idle /\ pageurl = "admin.html" /\ (Patient' => Patient)
    BY <1>1, <1>4, <1>6 DEF CapsInv
  <2>2. /\ form' # List => NewsOwn(newcapmaps, form)'
        /\ DelsOwn(delcaps)'
        /\ op # "maps" /\ form' \in dbrows => Matches(newcapmaps, delcaps)'
    BY <2>1
  <2>3. \A q \in Slots : net'[q] # NoRequest => op # "none" /\ Sent(net'[q], op, a)
    BY <1>2, <2>1 DEF Idle
  <2>4. ASSUME NEW q \in Slots, net'[q] # NoRequest PROVE CapsFlight(net[q])'
    <3>1. net'[q].op = op /\ net'[q].arg = a /\ net'[q].st = "open"
      BY <2>3, <2>4 DEF Sent
    <3>2. Saves' => slips' = {}
      BY DEF Saves
    <3> QED BY <1>1, <2>1, <3>1, <3>2 DEF CapsFlight
  <2>5. NoMaps' => op # "maps"
    <3> SUFFICES ASSUME op = "maps" PROVE ~NoMaps'
      OBVIOUS
    <3>1. PICK q \in Slots : net'[q] # NoRequest
      BY <1>2 DEF Idle
    <3>2. net'[q].op = "maps"
      BY <2>3, <3>1 DEF Sent
    <3> QED BY <3>1, <3>2 DEF NoMaps
  <2>6. CapsLoopSeen'
    BY <1>1 DEF CapsLoopSeen
  <2> QED BY <2>2, <2>4, <2>5, <2>6 DEF CapsSeen
<1> QED BY <1>3, <1>4, <1>5, <1>6 DEF CapsInv

(* Form, maps and rows stay as they are: so does what was said of them.    *)
LEMMA SameShown ==
    ASSUME UNCHANGED <<kind, form, capmaps, newcapmaps, dbmaps, slips>>, Patient' => Patient,
           dbrows \subseteq dbrows'
    PROVE  /\ \A D : DelsOwn(D) => DelsOwn(D)'
           /\ \A P, D : Matches(P, D) => Matches(P, D)'
           /\ \A P, f : NewsOwn(P, f)' <=> NewsOwn(P, f)
           /\ MapsOf(form)' = MapsOf(form)
<1>1. \A D : DelsOwn(D) => DelsOwn(D)'
  BY SameFits DEF DelsOwn, DelOwn
<1>2. Saves' => Saves
  BY DEF Saves
<1>3. Zeros => Zeros'
  BY DEF Zeros
<1>4. \A P, D : Fits(P, D) => Fits(P, D)'
  <2> TAKE P, D
  <2>1. FitsIn(CapsOf(P), IdsIn(D)) => FitsIn(CapsOf(P), IdsIn(D))'
    BY SameFits DEF CapsOf, IdsIn, FitsIn, Maps
  <2> QED BY <2>1 DEF Fits, OnceCaps, OnceIds
<1>5. \A P, D : Matches(P, D) => Matches(P, D)'
  BY <1>2, <1>3, <1>4, SameFits DEF Matches
<1>6. \A P, f : NewsOwn(P, f)' <=> NewsOwn(P, f)
  BY DEF NewsOwn
<1>7. MapsOf(form)' = MapsOf(form)
  BY DEF MapsOf
<1> QED BY <1>1, <1>5, <1>6, <1>7

LEMMA CapsApplyKeeps ==
    ASSUME CapsInv, EditRowApply \/ AddRowApply
    PROVE  CapsInv' /\ WebMove
<1>1. UserActs /\ UNCHANGED capsVars
  BY DEF EditRowApply, AddRowApply
<1>2. /\ UNCHANGED <<kind, form, obj, capmaps, newcapmaps, delcaps, dbrows, dbmaps, slips, loop>>
      /\ loop = NoLoop
  BY <1>1, Acted DEF capsVars, UserActs
<1>3. CapsTyped'
  BY <1>2 DEF CapsInv, CapsTyped, CapsTypeOK, Numbered, CapsLoopTyped
<1>4. CapsSeen /\ Idle /\ pageurl = "admin.html" /\ (Patient' => Patient) =>
        /\ form' # List => NewsOwn(newcapmaps, form)'
        /\ DelsOwn(delcaps)'
        /\ form' \in dbrows => Matches(newcapmaps, delcaps)'
  BY <1>2, SameShown DEF CapsSeen, Idle, NoMaps, NewsOwn
<1>5. CASE EditRowApply
  <2>1. Send("put", obj) /\ form \in dbrows
    BY <1>5 DEF EditRowApply
  <2> QED BY <1>1, <1>2, <1>3, <1>4, <2>1, CapsActsKeeps
<1>6. CASE AddRowApply
  <2>1. Send("post", NewRow) /\ form = Add
    BY <1>6 DEF AddRowApply
  <2> QED BY <1>1, <1>2, <1>3, <1>4, <2>1, CapsActsKeeps
<1> QED BY <1>5, <1>6

LEMMA KeptFor ==
    ASSUME NEW D \in Seq(Dels)
    PROVE  Left(D) \in Seq(Dels) /\ \A i \in DOMAIN Left(D) : Left(D)[i].kept = TRUE
<1>1. Len(D) \in Nat /\ DOMAIN D = 1 .. Len(D) /\ \A i \in DOMAIN D : D[i] \in Dels
  BY LenProperties, ElementOfSeq
<1>2. /\ Left(D) = [i \in 1 .. Len(D) |-> Left(D)[i]]
      /\ \A i \in 1 .. Len(D) : Left(D)[i] = [id |-> D[i].id, for |-> D[i].for, kept |-> TRUE]
  BY <1>1 DEF Left
<1>3. \A i \in 1 .. Len(D) : Left(D)[i] \in Dels /\ Left(D)[i].kept = TRUE
  <2> TAKE i \in 1 .. Len(D)
  <2>1. D[i].id \in Nat /\ D[i].for \in Int
    BY <1>1 DEF Dels
  <2>2. Left(D)[i] = [id |-> D[i].id, for |-> D[i].for, kept |-> TRUE]
    BY <1>2
  <2> QED BY <2>1, <2>2 DEF Dels
<1>4. Left(D) \in Seq(Dels)
  BY <1>1, <1>2, <1>3, IsASeq
<1> QED BY <1>1, <1>2, <1>3, <1>4

(* What was removed and not applied when a form is opened or closed.       *)
LEMMA DelcapsMean ==
    ASSUME CapsTyped
    PROVE  /\ DelcapsOnEdit(kind) \in Seq(Dels)
           /\ kind = "envs" \/ DelcapsOnEdit(kind) = <<>>
           /\ \A i \in DOMAIN DelcapsOnEdit(kind) : DelcapsOnEdit(kind)[i].kept = TRUE
<1>1. CASE kind = "dcs"
  BY <1>1, NoneLeft DEF DelcapsOnEdit
<1>2. CASE kind = "envs"
  BY <1>2, KeptFor DEF DelcapsOnEdit, CapsTyped
<1> QED BY <1>1, <1>2 DEF CapsTyped

LEMMA EditRowKeeps == ASSUME CapsInv, NEW r, EditRow(r) PROVE CapsInv' /\ WebMove
<1>1. /\ r \in dbrows /\ UserActs /\ Send("maps", r) /\ form' = r /\ obj' = r /\ newcapmaps' = <<>>
      /\ delcaps' = DelcapsOnEdit(kind) /\ UNCHANGED <<kind, capmaps, dbrows, dbmaps>>
  BY DEF EditRow, NewcapsOnEdit
<1>2. slips' = {} => delcaps' = <<>>
  BY <1>1 DEF EditRow
<1>3. UNCHANGED loop
  BY <1>1, Acted DEF UserActs
<1>4. /\ delcaps' \in Seq(Dels) /\ DelsOwn(delcaps)'
  <2>1. /\ delcaps' \in Seq(Dels)
        /\ kind = "envs" \/ delcaps' = <<>>
        /\ \A i \in DOMAIN delcaps' : delcaps'[i].kept = TRUE
    BY <1>1, DelcapsMean DEF CapsInv
  <2> QED BY <1>1, <2>1, NoneLeft DEF DelsOwn, DelOwn
<1>5. CapsTyped'
  BY <1>1, <1>3, <1>4, NoneLeft DEF CapsInv, CapsTyped, CapsTypeOK, Numbered, CapsLoopTyped
<1>6. NewsOwn(newcapmaps, form)'
  BY <1>1 DEF NewsOwn
<1> QED BY <1>1, <1>2, <1>4, <1>5, <1>6, CapsActsKeeps

LEMMA CloseEditKeeps == ASSUME CapsInv, CloseEdit PROVE CapsInv' /\ WebMove
<1>1. /\ UserActs /\ form' = List /\ delcaps' = DelcapsOnEdit(kind)
      /\ UNCHANGED <<net, kind, obj, capmaps, newcapmaps, dbrows, dbmaps, slips>>
  BY DEF CloseEdit
<1>2. UNCHANGED loop
  BY <1>1, Acted DEF UserActs
<1>3. /\ delcaps' \in Seq(Dels) /\ DelsOwn(delcaps)'
  <2>1. /\ delcaps' \in Seq(Dels)
        /\ kind = "envs" \/ delcaps' = <<>>
        /\ \A i \in DOMAIN delcaps' : delcaps'[i].kept = TRUE
    BY <1>1, DelcapsMean DEF CapsInv
  <2> QED BY <1>1, <2>1, NoneLeft DEF DelsOwn, DelOwn
<1>4. form' \notin dbrows'
  BY <1>1, RowIds DEF CapsInv, CapsTyped, CapsTypeOK
<1>5. CapsTyped'
  BY <1>1, <1>2, <1>3, <1>4 DEF CapsInv, CapsTyped, CapsTypeOK, Numbered, CapsLoopTyped
<1>6. UNCHANGED dbrows
  BY <1>1
<1> QED BY <1>1, <1>3, <1>4, <1>5, CapsActsKeeps

LEMMA AddRowKeeps == ASSUME CapsInv, NEW tf \in BOOLEAN, AddRow(tf) PROVE CapsInv' /\ WebMove
<1>1. /\ UserActs /\ form \in {List, Add} /\ form' \in {List, Add} /\ newcapmaps' = <<>>
      /\ UNCHANGED <<net, kind, capmaps, delcaps, dbrows, dbmaps, slips>>
  BY DEF AddRow
<1>2. UNCHANGED loop
  BY <1>1, Acted DEF UserActs
<1>3. form \notin dbrows /\ form' \notin dbrows'
  BY <1>1, RowIds DEF CapsInv, CapsTyped, CapsTypeOK
<1>4. CapsTyped'
  BY <1>1, <1>2, <1>3, NoneLeft DEF CapsInv, CapsTyped, CapsTypeOK, Numbered, CapsLoopTyped
<1>5. CapsSeen => DelsOwn(delcaps)'
  BY <1>1, <1>3 DEF CapsSeen, DelsOwn, DelOwn
<1>6. NewsOwn(newcapmaps, form)'
  BY <1>1 DEF NewsOwn
<1> QED BY <1>1, <1>3, <1>4, <1>5, <1>6, CapsActsKeeps

(* In the add form.                                                        *)
LEMMA NewcapsKeep ==
    ASSUME CapsInv, UserActs, form = Add, newcapmaps' \in Seq(News),
           UNCHANGED <<net, kind, form, obj, capmaps, delcaps, dbrows, dbmaps, slips>>,
           \A i \in DOMAIN newcapmaps' :
              \/ newcapmaps'[i].for = Add
              \/ \E j \in DOMAIN newcapmaps : newcapmaps'[i] = newcapmaps[j]
    PROVE  CapsInv' /\ WebMove
<1>1. UNCHANGED loop
  BY Acted DEF UserActs
<1>2. form' \notin dbrows'
  BY RowIds DEF CapsInv, CapsTyped, CapsTypeOK
<1>3. CapsTyped'
  <2>1. \A i \in DOMAIN newcapmaps' : newcapmaps'[i].cap \in Caps \cup {NoCap}
    <3> PICK P \in Seq(News) : P = newcapmaps'
      OBVIOUS
    <3>1. \A i \in DOMAIN P : P[i] \in News
      BY ElementOfSeq, LenProperties
    <3> QED BY <3>1 DEF News
  <2> QED BY <1>1, <1>2, <2>1 DEF CapsInv, CapsTyped, CapsTypeOK, Numbered, CapsLoopTyped
<1>4. CapsSeen => DelsOwn(delcaps)'
  BY <1>2 DEF CapsSeen, DelsOwn, DelOwn
<1>5. CapsSeen => NewsOwn(newcapmaps, form)'
  BY RowIds DEF CapsSeen, NewsOwn
<1> QED BY <1>2, <1>3, <1>4, <1>5, CapsActsKeeps

LEMMA ChosenMeans ==
    ASSUME CapsTyped, NEW c \in Caps \cup {NoCap}
    PROVE  /\ [cap |-> c, for |-> form] \in News
           /\ Chosen(c) = Append(newcapmaps, [cap |-> c, for |-> form])
           /\ Chosen(c) \in Seq(News)
           /\ \A i \in DOMAIN Chosen(c) :
                 \/ Chosen(c)[i] = [cap |-> c, for |-> form]
                 \/ \E j \in DOMAIN newcapmaps : Chosen(c)[i] = newcapmaps[j]
<1>1. [cap |-> c, for |-> form] \in News
  BY FormMeans DEF News
<1>2. Chosen(c) = Append(newcapmaps, [cap |-> c, for |-> form]) /\ newcapmaps \in Seq(News)
  BY DEF Chosen, CapsTyped
<1> QED BY <1>1, <1>2, Appended

LEMMA AddCapMapKeeps ==
    ASSUME CapsInv, NEW c \in Caps \cup {NoCap}, AddCapMap(c) \/ AddDeleteCapMap(c)
    PROVE  CapsInv' /\ WebMove
<1>1. /\ UserActs /\ form = Add
      /\ UNCHANGED <<net, kind, form, obj, capmaps, delcaps, dbrows, dbmaps, slips>>
  BY DEF AddCapMap, AddDeleteCapMap
<1>2. \/ UNCHANGED newcapmaps
      \/ newcapmaps' = Chosen(c)
      \/ \E i \in DOMAIN newcapmaps : newcapmaps' = WithoutAt(newcapmaps, i)
  BY DEF AddCapMap, AddDeleteCapMap
<1>3. newcapmaps \in Seq(News)
  BY DEF CapsInv, CapsTyped
<1>4. CASE UNCHANGED newcapmaps
  BY <1>1, <1>3, <1>4, NewcapsKeep
<1>5. CASE newcapmaps' = Chosen(c)
  <2>1. /\ newcapmaps' \in Seq(News)
        /\ \A i \in DOMAIN newcapmaps' :
                 \/ newcapmaps'[i] = [cap |-> c, for |-> form]
                 \/ \E j \in DOMAIN newcapmaps : newcapmaps'[i] = newcapmaps[j]
    BY <1>5, ChosenMeans DEF CapsInv
  <2>2. [cap |-> c, for |-> form].for = Add
    BY <1>1
  <2> QED BY <1>1, <2>1, <2>2, NewcapsKeep
<1>6. ASSUME NEW i \in DOMAIN newcapmaps, newcapmaps' = WithoutAt(newcapmaps, i)
      PROVE  CapsInv' /\ WebMove
  <2>1. /\ newcapmaps' \in Seq(News)
        /\ \A k \in DOMAIN newcapmaps' : \E j \in DOMAIN newcapmaps : newcapmaps'[k] = newcapmaps[j]
    BY <1>3, <1>6, LessOne
  <2> QED BY <1>1, <2>1, NewcapsKeep
<1> QED BY <1>2, <1>4, <1>5, <1>6

LEMMA EditAddCapMapKeeps ==
    ASSUME CapsInv, NEW c \in Caps \cup {NoCap}, EditAddCapMap(c)
    PROVE  CapsInv' /\ WebMove
<1>1. /\ form \in dbrows /\ UserActs /\ delcaps' = <<>>
      /\ UNCHANGED <<net, kind, form, obj, dbrows, dbmaps>>
  BY DEF EditAddCapMap
<1>2. /\ slips = {} \/ slips' # {}
      /\ slips' = {} => delcaps = <<>> /\ c # NoCap
  BY DEF EditAddCapMap
<1>3. \/ /\ c \notin CapsIn(capmaps) /\ newcapmaps' = Chosen(c)
         /\ capmaps' = capmaps \cup {[id |-> 0, cap |-> c]}
      \/ UNCHANGED <<newcapmaps, capmaps>>
  BY DEF EditAddCapMap
<1>4. UNCHANGED loop
  BY <1>1, Acted DEF UserActs
<1>5. DelsOwn(delcaps)' /\ delcaps' \in Seq(Dels)
  BY <1>1, NoneLeft DEF DelsOwn
<1>6. /\ newcapmaps \in Seq(News) /\ form # List
      /\ \A i \in DOMAIN newcapmaps : newcapmaps[i].cap \in Caps \cup {NoCap}
      /\ \A m \in capmaps : m \in Items /\ m.cap \in Caps \cup {NoCap}
  BY <1>1, FormMeans DEF CapsInv, CapsTyped, CapsTypeOK
<1>7. CASE UNCHANGED <<newcapmaps, capmaps>>
  <2>1. CapsTyped'
    BY <1>1, <1>4, <1>5, <1>6, <1>7 DEF CapsInv, CapsTyped, CapsTypeOK, Numbered, CapsLoopTyped
  <2>2. ASSUME CapsSeen, Idle, pageurl = "admin.html", Patient' => Patient
        PROVE  NewsOwn(newcapmaps, form)' /\ Matches(newcapmaps, delcaps)'
    <3>1. NewsOwn(newcapmaps, form) /\ Matches(newcapmaps, delcaps)
      BY <1>1, <1>4, <1>6, <2>2, Acted DEF CapsSeen, NoMaps, Idle, UserActs
    <3>2. Held' /\ NewsOwn(newcapmaps, form)'
      BY <1>1, <1>7, <3>1, SameFits DEF Matches, NewsOwn
    <3>3. ASSUME Saves' PROVE Zeros' /\ Fits(newcapmaps, delcaps)'
      <4>1. Saves /\ delcaps' = delcaps
        BY <1>1, <1>2, <2>2, <3>3 DEF Saves
      <4>2. Zeros /\ Fits(newcapmaps, delcaps)
        BY <3>1, <4>1 DEF Matches
      <4>3. CapsOf(newcapmaps)' = CapsOf(newcapmaps) /\ IdsIn(delcaps)' = IdsIn(delcaps)
        BY <1>7, <4>1 DEF CapsOf, IdsIn
      <4>4. FitsIn(CapsOf(newcapmaps), IdsIn(delcaps))'
        BY <1>1, <1>7, <4>2, <4>3 DEF Fits, FitsIn, Maps
      <4> QED BY <1>7, <4>1, <4>2, <4>3, <4>4 DEF Zeros, Fits, OnceCaps, OnceIds
    <3> QED BY <3>2, <3>3 DEF Matches
  <2> QED BY <1>1, <1>5, <2>1, <2>2, CapsActsKeeps
<1>8. CASE /\ c \notin CapsIn(capmaps) /\ newcapmaps' = Chosen(c)
           /\ capmaps' = capmaps \cup {[id |-> 0, cap |-> c]}
  <2>1. PICK n \in News : n = [cap |-> c, for |-> form]
    BY ChosenMeans DEF CapsInv
  <2>2. PICK z : z = [id |-> 0, cap |-> c]
    OBVIOUS
  <2>3. /\ n.cap = c /\ n.for = form /\ z.id = 0 /\ z.cap = c
        /\ capmaps' = capmaps \cup {z}
    BY <1>8, <2>1, <2>2
  <2>4. PICK P : P = newcapmaps'
    OBVIOUS
  <2>5. /\ P = Append(newcapmaps, n) /\ P \in Seq(News)
        /\ \A i \in DOMAIN P : P[i] = n \/ \E j \in DOMAIN newcapmaps : P[i] = newcapmaps[j]
    BY <1>8, <2>1, <2>4, ChosenMeans DEF CapsInv
  <2>6. CapsTyped'
    <3>1. \A i \in DOMAIN P : P[i].cap \in Caps \cup {NoCap}
      BY <1>6, <2>3, <2>5
    <3>2. \A m \in capmaps' : m \in Items /\ m.cap \in Caps \cup {NoCap}
      BY <1>6, <2>2, <2>3 DEF Items
    <3> QED BY <1>1, <1>4, <1>5, <2>4, <2>5, <3>1, <3>2
            DEF CapsInv, CapsTyped, CapsTypeOK, Numbered, CapsLoopTyped
  <2>7. ASSUME CapsSeen, Idle, pageurl = "admin.html", Patient' => Patient
        PROVE  NewsOwn(newcapmaps, form)' /\ Matches(newcapmaps, delcaps)'
    <3>1. NewsOwn(newcapmaps, form) /\ Matches(newcapmaps, delcaps)
      BY <1>1, <1>4, <1>6, <2>7, Acted DEF CapsSeen, NoMaps, Idle, UserActs
    <3>2. Held'
      BY <1>1, <2>3, <3>1, SameFits DEF Matches, Held, RowIs
    <3>3. NewsOwn(P, form)
      BY <2>3, <2>5, <3>1 DEF NewsOwn
    <3>4. NewsOwn(newcapmaps, form)'
      BY <1>1, <2>4, <3>3 DEF NewsOwn
    <3>5. ASSUME Saves' PROVE Zeros' /\ Fits(newcapmaps, delcaps)'
      <4>1. Saves /\ delcaps = <<>> /\ c \in Caps
        BY <1>2, <2>7, <3>5 DEF Saves
      <4>2. Zeros /\ Fits(newcapmaps, <<>>)
        BY <3>1, <4>1 DEF Matches
      <4>3. PICK C : C = CapsOf(newcapmaps)
        OBVIOUS
      <4>4. FitsIn(C, {}) /\ OnceCaps(newcapmaps) /\ \A m \in capmaps : m.cap # c
        BY <1>8, <4>2, <4>3, NoneLeft DEF Fits, CapsIn
      <4>5. FitsIn(C \cup {c}, {})' /\ c \notin C
        <5>1. FitsIn(C \cup {c}, {})'
          BY <1>1, <1>8, <4>1, <4>4, FitsAdd
        <5>2. c \notin C
          BY <4>4 DEF FitsIn
        <5> QED BY <5>1, <5>2
      <4>6. CapsOf(P) = C \cup {c} /\ OnceCaps(P)
        <5>1. /\ CapsOf(P) = CapsOf(newcapmaps) \cup {n.cap}
              /\ OnceCaps(newcapmaps) /\ n.cap \notin CapsOf(newcapmaps) => OnceCaps(P)
          BY <1>6, <2>5, OneMoreCap
        <5> QED BY <2>3, <4>3, <4>4, <4>5, <5>1
      <4>7. Zeros'
        <5>1. \A m \in capmaps' : m.id = 0 => m.cap \in CapsOf(P)
          BY <2>3, <4>2, <4>3, <4>6 DEF Zeros
        <5>2. CapsOf(newcapmaps)' = CapsOf(P)
          BY <2>4 DEF CapsOf
        <5> QED BY <5>1, <5>2 DEF Zeros
      <4>8. Fits(newcapmaps, delcaps)'
        <5>1. /\ CapsOf(newcapmaps)' = C \cup {c} /\ IdsIn(delcaps)' = {}
              /\ OnceCaps(newcapmaps)' /\ OnceIds(delcaps)'
          BY <1>1, <2>4, <4>6, NoneLeft DEF CapsOf, IdsIn, OnceCaps, OnceIds
        <5>2. FitsIn(CapsOf(newcapmaps), IdsIn(delcaps))'
          BY <4>5, <5>1 DEF FitsIn, Maps
        <5> QED BY <5>1, <5>2 DEF Fits
      <4> QED BY <4>7, <4>8
    <3> QED BY <3>2, <3>4, <3>5 DEF Matches
  <2> QED BY <1>1, <1>5, <2>6, <2>7, CapsActsKeeps
<1> QED BY <1>3, <1>7, <1>8

LEMMA EditDeleteCapMapKeeps ==
    ASSUME CapsInv, NEW m \in capmaps, EditDeleteCapMap(m)
    PROVE  CapsInv' /\ WebMove
<1>1. /\ form \in dbrows /\ UserActs /\ capmaps' = {e \in capmaps : e.id # m.id}
      /\ UNCHANGED <<net, kind, form, obj, dbrows, dbmaps, slips>>
  BY DEF EditDeleteCapMap
<1>2. UNCHANGED loop
  BY <1>1, Acted DEF UserActs
<1>3. /\ newcapmaps \in Seq(News) /\ delcaps \in Seq(Dels) /\ form # List
      /\ \A i \in DOMAIN newcapmaps : newcapmaps[i].cap \in Caps \cup {NoCap}
      /\ \A e \in capmaps : e \in Items /\ e.cap \in Caps \cup {NoCap}
      /\ m.id \in Nat /\ form \in Int
  BY <1>1, FormMeans DEF CapsInv, CapsTyped, CapsTypeOK, Items
<1>4. CapsSeen /\ Idle /\ pageurl = "admin.html" =>
        NewsOwn(newcapmaps, form) /\ DelsOwn(delcaps) /\ Matches(newcapmaps, delcaps)
  BY <1>1, <1>2, <1>3, Acted DEF CapsSeen, NoMaps, Idle, UserActs
<1>5. ASSUME Patient' => Patient PROVE Saves' => Saves
  BY <1>1, <1>5 DEF Saves
<1>6. Held => Held'
  BY <1>1 DEF Held, RowIs
<1>7. CASE m.id # 0
  <2>1. PICK d : d = [id |-> m.id, for |-> form, kept |-> FALSE]
    OBVIOUS
  <2>2. d.id = m.id /\ d \in Dels
    BY <1>3, <2>1 DEF Dels
  <2>3. PICK D : D = delcaps'
    OBVIOUS
  <2>4. /\ D = Append(delcaps, d) /\ UNCHANGED newcapmaps
    BY <1>7, <2>1, <2>3 DEF EditDeleteCapMap
  <2>5. /\ D \in Seq(Dels)
        /\ \A i \in DOMAIN D : D[i] = d \/ \E j \in DOMAIN delcaps : D[i] = delcaps[j]
    BY <1>3, <2>2, <2>4, Appended
  <2>6. CapsTyped'
    BY <1>1, <1>2, <1>3, <2>3, <2>4, <2>5
       DEF CapsInv, CapsTyped, CapsTypeOK, Numbered, CapsLoopTyped
  <2>7. ASSUME CapsSeen, Idle, pageurl = "admin.html", Patient' => Patient
        PROVE  NewsOwn(newcapmaps, form)' /\ DelsOwn(delcaps)' /\ Matches(newcapmaps, delcaps)'
    <3>1. NewsOwn(newcapmaps, form) /\ DelsOwn(delcaps) /\ Matches(newcapmaps, delcaps)
      BY <1>4, <2>7
    <3>2. Held' /\ NewsOwn(newcapmaps, form)'
      BY <1>1, <1>6, <2>4, <3>1 DEF Matches, NewsOwn
    <3>3. DelsOwn(delcaps)'
      <4>1. DelOwn(d)
        BY <1>1, <2>2, <1>7, <3>1 DEF DelOwn, Matches, Held
      <4>2. DelsOwn(D)
        BY <2>5, <3>1, <4>1 DEF DelsOwn
      <4> QED BY <1>1, <2>3, <4>2 DEF DelsOwn, DelOwn, RowIs
    <3>4. ASSUME Saves' PROVE Zeros' /\ Fits(newcapmaps, delcaps)'
      <4>1. Zeros /\ Fits(newcapmaps, delcaps)
        BY <1>5, <2>7, <3>1, <3>4 DEF Matches
      <4>2. PICK C, I : C = CapsOf(newcapmaps) /\ I = IdsIn(delcaps)
        OBVIOUS
      <4>3. /\ FitsIn(C, I) /\ OnceCaps(newcapmaps) /\ OnceIds(delcaps)
            /\ \A z \in capmaps : z.id = 0 => z.cap \in C
        BY <4>1, <4>2 DEF Fits, Zeros
      <4>4. FitsIn(C, I \cup {m.id})' /\ m.id \notin I
        BY <1>1, <1>7, <4>3, FitsRemove
      <4>5. /\ IdsIn(D) = IdsIn(delcaps) \cup {d.id}
            /\ OnceIds(delcaps) /\ d.id \notin IdsIn(delcaps) => OnceIds(D)
        BY <1>3, <2>2, <2>4, OneMoreId
      <4>6. /\ CapsOf(newcapmaps)' = C /\ IdsIn(delcaps)' = I \cup {m.id}
            /\ OnceCaps(newcapmaps)' /\ OnceIds(delcaps)'
        BY <2>2, <2>3, <2>4, <4>2, <4>3, <4>4, <4>5 DEF CapsOf, IdsIn, OnceCaps, OnceIds
      <4>7. FitsIn(CapsOf(newcapmaps), IdsIn(delcaps))'
        BY <4>4, <4>6 DEF FitsIn, Maps
      <4>8. Zeros'
        BY <1>1, <4>2, <4>3, <4>6 DEF Zeros
      <4> QED BY <4>6, <4>7, <4>8 DEF Fits
    <3> QED BY <3>2, <3>3, <3>4 DEF Matches
  <2> QED BY <1>1, <2>6, <2>7, CapsActsKeeps
<1>8. CASE m.id = 0
  <2>1. newcapmaps' = <<>> /\ UNCHANGED delcaps
    BY <1>8 DEF EditDeleteCapMap
  <2>2. CapsTyped'
    BY <1>1, <1>2, <1>3, <2>1, NoneLeft
       DEF CapsInv, CapsTyped, CapsTypeOK, Numbered, CapsLoopTyped
  <2>3. ASSUME CapsSeen, Idle, pageurl = "admin.html", Patient' => Patient
        PROVE  NewsOwn(newcapmaps, form)' /\ DelsOwn(delcaps)' /\ Matches(newcapmaps, delcaps)'
    <3>1. NewsOwn(newcapmaps, form) /\ DelsOwn(delcaps) /\ Matches(newcapmaps, delcaps)
      BY <1>4, <2>3
    <3>2. Held' /\ NewsOwn(newcapmaps, form)'
      BY <1>1, <1>6, <2>1, <3>1 DEF Matches, NewsOwn
    <3>3. DelsOwn(delcaps)'
      BY <1>1, <2>1, <3>1 DEF DelsOwn, DelOwn, RowIs
    <3>4. ASSUME Saves' PROVE Zeros' /\ Fits(newcapmaps, delcaps)'
      <4>1. Zeros /\ Fits(newcapmaps, delcaps)
        BY <1>5, <2>3, <3>1, <3>4 DEF Matches
      <4>2. PICK C, I : C = CapsOf(newcapmaps) /\ I = IdsIn(delcaps)
        OBVIOUS
      <4>3. /\ FitsIn(C, I) /\ OnceIds(delcaps)
            /\ \A z \in capmaps : z.id = 0 => z.cap \in C
        BY <4>1, <4>2 DEF Fits, Zeros
      <4>4. FitsIn({}, I)'
        BY <1>1, <1>8, <4>3, FitsForget
      <4>5. /\ CapsOf(newcapmaps)' = {} /\ IdsIn(delcaps)' = I
            /\ OnceCaps(newcapmaps)' /\ OnceIds(delcaps)'
        BY <2>1, <4>2, <4>3, NoneLeft DEF CapsOf, IdsIn, OnceCaps, OnceIds
      <4>6. FitsIn(CapsOf(newcapmaps), IdsIn(delcaps))'
        BY <4>4, <4>5 DEF FitsIn, Maps
      <4>7. Zeros'
        BY <1>1, <1>8 DEF Zeros
      <4> QED BY <4>5, <4>6, <4>7 DEF Fits
    <3> QED BY <3>2, <3>3, <3>4 DEF Matches
  <2> QED BY <1>1, <2>2, <2>3, CapsActsKeeps
<1> QED BY <1>7, <1>8

-----------------------------------------------------------------------------
LEMMA MatchesStays ==
    ASSUME UNCHANGED <<kind, form, capmaps, newcapmaps, delcaps, dbmaps, slips>>,
           Patient' => Patient, dbrows \subseteq dbrows', Matches(newcapmaps, delcaps)
    PROVE  Matches(newcapmaps, delcaps)'
<1> PICK P, D : P = newcapmaps /\ D = delcaps
  OBVIOUS
<1>1. Matches(P, D)'
  BY SameShown
<1>2. /\ CapsOf(newcapmaps)' = CapsOf(P) /\ IdsIn(delcaps)' = IdsIn(D)
      /\ (OnceCaps(newcapmaps)' <=> OnceCaps(P)) /\ (OnceIds(delcaps)' <=> OnceIds(D))
  BY DEF CapsOf, IdsIn, OnceCaps, OnceIds
<1>3. Saves' => FitsIn(CapsOf(P), IdsIn(D))' /\ OnceCaps(P) /\ OnceIds(D) /\ Zeros'
  BY <1>1 DEF Matches, Fits, OnceCaps, OnceIds
<1>4. Saves' => FitsIn(CapsOf(newcapmaps), IdsIn(delcaps))'
  <2> PICK C, I : C = CapsOf(P) /\ I = IdsIn(D)
    OBVIOUS
  <2>1. Saves' => FitsIn(C, I)'
    BY <1>3 DEF CapsOf, IdsIn, FitsIn, Maps
  <2>2. CapsOf(newcapmaps)' = C /\ IdsIn(delcaps)' = I
    BY <1>2
  <2> QED BY <2>1, <2>2 DEF FitsIn, Maps
<1>5. Saves' => Fits(newcapmaps, delcaps)'
  BY <1>2, <1>3, <1>4 DEF Fits
<1>6. Held'
  BY <1>1 DEF Matches
<1> QED BY <1>3, <1>5, <1>6 DEF Matches

(* The form and the maps stay; what is in flight may change.               *)
LEMMA CapsStays ==
    ASSUME CapsInv, WebMove, UNCHANGED <<hasty, loop, dbmaps>>,
           UNCHANGED <<kind, form, obj, capmaps, newcapmaps, delcaps, slips>>,
           dbrows \subseteq dbrows', dbrows' \subseteq Rows \cup {NewRow},
           \A q \in Slots : net'[q] # NoRequest => CapsRequest(net[q])',
           ~hasty /\ CapsSeen =>
             \A q \in Slots : net'[q] # NoRequest => CapsFlight(net[q])',
           ~hasty /\ CapsSeen /\ form \in dbrows /\ loop = NoLoop
             /\ pageurl' = "admin.html" /\ NoMaps' => pageurl = "admin.html" /\ NoMaps
    PROVE  CapsInv'
<1>1. Waits' /\ (Patient' => Patient)
  BY WaitsNext DEF CapsInv
<1>2. form \in dbrows' => form \in dbrows
  BY RowIds DEF CapsInv, CapsTyped, CapsTypeOK
<1>3. CapsTyped'
  BY <1>2 DEF CapsInv, CapsTyped, CapsTypeOK, Numbered, CapsLoopTyped
<1>4. ASSUME ~hasty PROVE CapsSeen'
  <2>1. CapsSeen
    BY <1>4 DEF CapsInv
  <2>2. /\ \A D : DelsOwn(D) => DelsOwn(D)'
        /\ \A P, D : Matches(P, D) => Matches(P, D)'
        /\ \A P, f : NewsOwn(P, f)' <=> NewsOwn(P, f)
    BY <1>1, SameShown
  <2>3. NewsOwn(newcapmaps, form)' = NewsOwn(newcapmaps, form)
    BY DEF NewsOwn
  <2>4. DelsOwn(delcaps)'
    BY <2>1, <2>2 DEF CapsSeen, DelsOwn, DelOwn, RowIs
  <2>5. Matches(newcapmaps, delcaps) => Matches(newcapmaps, delcaps)'
    BY <1>1, MatchesStays
  <2>6. CapsLoopSeen'
    BY <2>1, <2>2 DEF CapsSeen, CapsLoopSeen
  <2> QED BY <1>2, <1>4, <2>1, <2>3, <2>4, <2>5, <2>6 DEF CapsSeen
<1> QED BY <1>1, <1>3, <1>4 DEF CapsInv

LEMMA CapsAnswerKeeps ==
    ASSUME CapsInv, NEW s \in Slots, net[s] # NoRequest,
           NEW st \in {"ok", "refused"}, NEW d, Answer(s, st, d),
           net[s].op # "post" => st = "ok",
           net[s].op = "maps" => d = MapsOf(net[s].arg),
           UNCHANGED <<kind, form, obj, capmaps, newcapmaps, delcaps, dbmaps, slips>>,
           dbrows \subseteq dbrows', dbrows' \subseteq Rows \cup {NewRow}
    PROVE  CapsInv' /\ WebMove
<1>1. net' = Answered(s, st, d) /\ UNCHANGED <<pageurl, loop, moves, session, broke, hasty>>
  BY DEF Answer
<1>2. /\ WebMove /\ net'[s] # NoRequest
      /\ net'[s].op = net[s].op /\ net'[s].arg = net[s].arg
      /\ net'[s].st = st /\ net'[s].data = d
      /\ \A q \in Slots : q # s => net'[q] = net[q]
  BY <1>1, AnsweredOne DEF CapsInv
<1>3. \A q \in Slots : net'[q] # NoRequest => CapsRequest(net[q])'
  <2>1. \A q \in Slots : q # s /\ net'[q] # NoRequest => CapsRequest(net[q])'
    BY <1>2 DEF CapsInv, CapsRequest
  <2>2. ASSUME net[s].op = "maps", NEW m \in d PROVE m \in Items /\ m.cap \in Caps
    <3>1. PICK i \in DOMAIN dbmaps : m = [id |-> i, cap |-> dbmaps[i].cap]
      BY <2>2 DEF MapsOf
    <3>2. i \in Nat /\ dbmaps[i].cap \in Caps
      BY FormMeans DEF CapsInv, CapsTyped, CapsTypeOK
    <3> QED BY <3>1, <3>2 DEF Items
  <2>3. CapsRequest(net[s])'
    BY <1>2, <2>2 DEF CapsInv, CapsRequest
  <2> QED BY <2>1, <2>3
<1>4. ASSUME ~hasty, CapsSeen
      PROVE  \A q \in Slots : net'[q] # NoRequest => CapsFlight(net[q])'
  <2>1. (Saves' => Saves) /\ MapsOf(form)' = MapsOf(form)
    BY <1>1 DEF Saves, Patient, MapsOf
  <2>2. CapsFlight(net[s])
    BY <1>4 DEF CapsSeen
  <2>3. CapsFlight(net[s])'
    BY <1>1, <1>2, <2>1, <2>2 DEF CapsFlight
  <2>4. ASSUME NEW q \in Slots, q # s, net'[q] # NoRequest PROVE CapsFlight(net[q])'
    <3>1. CapsFlight(net[q]) /\ net'[q] = net[q]
      BY <1>2, <1>4, <2>4 DEF CapsSeen
    <3> QED BY <1>1, <2>1, <3>1 DEF CapsFlight
  <2> QED BY <2>3, <2>4
<1>5. NoMaps' => NoMaps
  BY <1>2 DEF NoMaps
<1> QED BY <1>1, <1>2, <1>3, <1>4, <1>5, CapsStays

LEMMA CapsServerKeeps == ASSUME CapsInv, CapsServer PROVE CapsInv' /\ WebMove
<1>1. dbrows \subseteq Rows \cup {NewRow}
  BY FormMeans DEF CapsInv
<1>2. ASSUME NEW s \in Slots, ServeMaps(s) \/ ServePutRow(s) \/ ServePostRow(s)
      PROVE  CapsInv' /\ WebMove
  <2>1. /\ net[s] # NoRequest
        /\ UNCHANGED <<kind, form, obj, capmaps, newcapmaps, delcaps, dbmaps, slips>>
    BY <1>2 DEF ServeMaps, ServePutRow, ServePostRow, Awaited, capsVars
  <2>2. CASE ServeMaps(s)
    <3>1. PICK d : d = MapsOf(net[s].arg)
      OBVIOUS
    <3>2. net[s].op = "maps" /\ Answer(s, "ok", d) /\ UNCHANGED dbrows
      BY <2>2, <3>1 DEF ServeMaps, Awaited, capsVars
    <3> QED BY <1>1, <2>1, <3>1, <3>2, CapsAnswerKeeps
  <2>3. CASE ServePutRow(s)
    <3>1. net[s].op = "put" /\ Answer(s, "ok", None) /\ UNCHANGED dbrows
      BY <2>3 DEF ServePutRow, Awaited, capsVars
    <3> QED BY <1>1, <2>1, <3>1, CapsAnswerKeeps
  <2>4. CASE ServePostRow(s)
    <3>1. net[s].op = "post" /\ dbrows' = dbrows \cup {NewRow}
      BY <2>4 DEF ServePostRow, Awaited
    <3>2. PICK st \in {"ok", "refused"} : Answer(s, st, None)
      BY <2>4 DEF ServePostRow
    <3> QED BY <1>1, <2>1, <3>1, <3>2, CapsAnswerKeeps
  <2> QED BY <1>2, <2>2, <2>3, <2>4
<1>3. CASE ServerFaults /\ UNCHANGED capsVars
  <2>1. /\ WebMove /\ ~Patient' /\ UNCHANGED <<pageurl, loop, hasty>>
        /\ \A q \in Slots : net'[q] = net[q] \/ Failed(net'[q], net[q])
    BY <1>3, FailedOne DEF CapsInv
  <2>2. UNCHANGED <<kind, form, obj, capmaps, newcapmaps, delcaps, dbrows, dbmaps, slips>>
    BY <1>3 DEF capsVars
  <2>3. \A q \in Slots : net'[q] # NoRequest => CapsRequest(net[q])'
    BY <2>1, <2>2 DEF CapsInv, CapsRequest, Failed
  <2>4. ~Saves' /\ MapsOf(form)' = MapsOf(form)
    BY <2>1, <2>2 DEF Saves, MapsOf
  <2>5. ASSUME CapsSeen, NEW q \in Slots, net'[q] # NoRequest PROVE CapsFlight(net[q])'
    <3>1. net[q] # NoRequest /\ net'[q].op = net[q].op /\ net'[q].arg = net[q].arg
          /\ (net'[q].st = "ok" => net'[q] = net[q])
      BY <2>1, <2>5 DEF Failed
    <3>2. CapsFlight(net[q])
      BY <2>5, <3>1 DEF CapsSeen
    <3> QED BY <2>1, <2>2, <2>4, <3>1, <3>2 DEF CapsFlight
  <2>6. NoMaps' => NoMaps
    BY <2>1 DEF NoMaps, Failed
  <2> QED BY <1>1, <2>1, <2>2, <2>3, <2>5, <2>6, CapsStays
<1> QED BY <1>2, <1>3 DEF CapsServer

-----------------------------------------------------------------------------
(* The callbacks                                                           *)

LEMMA MapsArriveKeeps ==
    ASSUME CapsInv, NEW s \in Slots, MapsArrive(s)
    PROVE  CapsInv' /\ WebMove
<1>1. /\ net[s] # NoRequest /\ net[s].op = "maps" /\ loop = NoLoop /\ net' = Without(s)
      /\ net[s].st \in {"ok", "refused"} /\ capmaps' = net[s].data
      /\ UNCHANGED <<pageurl, loop, moves, session, broke, hasty>>
      /\ UNCHANGED <<kind, form, obj, newcapmaps, delcaps, dbrows, dbmaps, slips>>
  BY DEF MapsArrive, Arrived, Callback
<1>2. /\ net[s].st = "ok"
      /\ \A m \in capmaps' : m \in Items /\ m.cap \in Caps
  BY <1>1 DEF CapsInv, CapsRequest
<1>3. /\ WebMove /\ (~hasty => Idle')
      /\ \A q \in Slots : net'[q] = NoRequest \/ net'[q] = net[q]
  BY <1>1, CallbackOne DEF CapsInv
<1>4. Waits' /\ (Patient' => Patient)
  BY <1>3, WaitsNext DEF CapsInv
<1>5. \A q \in Slots : net'[q] # NoRequest => CapsRequest(net[q])'
  BY <1>1, <1>3 DEF CapsInv, CapsRequest
<1>6. CapsTyped'
  BY <1>1, <1>2 DEF CapsInv, CapsTyped, CapsTypeOK, Numbered, CapsLoopTyped
<1>7. ASSUME ~hasty PROVE CapsSeen'
  <2>1. CapsSeen /\ CapsFlight(net[s])
    BY <1>1, <1>7 DEF CapsInv, CapsSeen
  <2>2. capmaps' = MapsOf(form) /\ newcapmaps = <<>> /\ (Saves => delcaps = <<>>)
    BY <1>1, <1>2, <2>1 DEF CapsFlight
  <2>3. /\ FitsIn({}, {})' /\ Held' /\ \A m \in capmaps' : m.id # 0
    BY <1>1, <2>2, FitsFetched DEF CapsInv, CapsTyped
  <2>4. Matches(newcapmaps, delcaps)'
    <3>1. ASSUME Saves' PROVE Zeros' /\ Fits(newcapmaps, delcaps)'
      <4>1. Saves
        BY <1>1, <1>4, <3>1 DEF Saves
      <4>2. newcapmaps' = <<>> /\ delcaps' = <<>>
        BY <1>1, <2>2, <4>1
      <4>3. /\ CapsOf(newcapmaps)' = {} /\ IdsIn(delcaps)' = {}
            /\ OnceCaps(newcapmaps)' /\ OnceIds(delcaps)'
        BY <4>2, NoneLeft DEF CapsOf, IdsIn, OnceCaps, OnceIds
      <4>4. FitsIn(CapsOf(newcapmaps), IdsIn(delcaps))'
        BY <2>3, <4>3 DEF FitsIn, Maps
      <4> QED BY <2>3, <4>3, <4>4 DEF Fits, Zeros
    <3> QED BY <2>3, <3>1 DEF Matches
  <2>5. form # List => NewsOwn(newcapmaps, form)'
    BY <1>1, <2>1 DEF CapsSeen, NewsOwn
  <2>6. DelsOwn(delcaps)'
    BY <1>1, <2>1 DEF CapsSeen, DelsOwn, DelOwn, RowIs
  <2>7. CapsLoopSeen'
    BY <1>1 DEF CapsLoopSeen
  <2> QED BY <1>1, <1>3, <1>7, <2>4, <2>5, <2>6, <2>7 DEF CapsSeen, Idle
<1>8. ~hasty' => ~hasty
  BY <1>1
<1> QED BY <1>3, <1>4, <1>5, <1>6, <1>7, <1>8 DEF CapsInv

LEMMA CapsRequestFailsKeeps ==
    ASSUME CapsInv, NEW s \in Slots, CapsRequestFails(s)
    PROVE  CapsInv' /\ WebMove
<1>1. /\ WebMove /\ net[s] # NoRequest /\ net[s].st \in {"expired", "broken"}
      /\ UNCHANGED <<loop, session, broke, hasty>> /\ pageurl' \in {pageurl, "login.html"}
      /\ \A q \in Slots : net'[q] = NoRequest \/ net'[q] = net[q]
      /\ ~hasty => Idle'
  BY ErrorOne DEF CapsInv, CapsRequestFails
<1>2. UNCHANGED <<kind, form, obj, capmaps, newcapmaps, delcaps, dbrows, dbmaps, slips>>
      /\ (net[s].op = "maps" => pageurl' = "login.html")
  BY DEF CapsRequestFails, ErrorCallback, capsVars
<1>3. \A q \in Slots : net'[q] # NoRequest => CapsRequest(net[q])'
  BY <1>1, <1>2 DEF CapsInv, CapsRequest
<1>4. ~hasty => \A q \in Slots : net'[q] # NoRequest => CapsFlight(net[q])'
  BY <1>1 DEF Idle
<1>5. ~hasty => \A q \in Slots : q # s => net[q] = NoRequest
  BY <1>1 DEF CapsInv, Waits, OneInv
<1>6. ~hasty /\ pageurl' = "admin.html" => pageurl = "admin.html" /\ NoMaps
  BY <1>1, <1>2, <1>5 DEF NoMaps
<1>7. dbrows' \subseteq Rows \cup {NewRow}
  BY <1>2, FormMeans DEF CapsInv
<1> QED BY <1>1, <1>2, <1>3, <1>4, <1>6, <1>7, CapsStays

(* A loop begins.                                                          *)
LEMMA CapsLoopMeans ==
    ASSUME NEW ed \in BOOLEAN, NEW r, NEW P, NEW D, NEW l, l = Saving(ed, r, P, D)
    PROVE  /\ l # NoLoop /\ (l.edit <=> ed) /\ l.edit = ed /\ l.row = r
           /\ l.posts = P /\ l.dels = D /\ l.page = "rows"
BY DEF Saving, NoLoop

LEMMA CapsLoopBegins ==
    ASSUME CapsInv, NEW s \in Slots, net[s] # NoRequest, loop = NoLoop,
           EnterLoop(s, loop'), UNCHANGED capsVars,
           NEW ed \in BOOLEAN, NEW r, NEW D \in Seq(Dels), loop' = Saving(ed, r, newcapmaps, D),
           ~hasty /\ CapsSeen =>
             IF ed THEN form \in dbrows /\ r = form /\ D = delcaps /\ Matches(newcapmaps, delcaps)
             ELSE form = Add /\ D = <<>>
    PROVE  CapsInv' /\ WebMove
<1>1. /\ net' = Without(s) /\ UNCHANGED <<pageurl, moves, session, broke, hasty>>
      /\ UNCHANGED <<kind, form, obj, capmaps, newcapmaps, delcaps, dbrows, dbmaps, slips>>
  BY DEF EnterLoop, capsVars
<1>2. /\ WebMove /\ (~hasty => Idle')
      /\ \A q \in Slots : net'[q] = NoRequest \/ net'[q] = net[q]
  BY <1>1, CallbackOne DEF CapsInv
<1>3. Waits' /\ (Patient' => Patient)
  BY <1>2, WaitsNext DEF CapsInv
<1>4. \A q \in Slots : net'[q] # NoRequest => CapsRequest(net[q])'
  BY <1>1, <1>2 DEF CapsInv, CapsRequest
<1> PICK P \in Seq(News) : P = newcapmaps
  BY DEF CapsInv, CapsTyped
<1>5. loop' = Saving(ed, r, P, D)
  OBVIOUS
<1>6. CapsTyped'
  BY <1>1, <1>5 DEF CapsInv, CapsTyped, CapsTypeOK, Numbered, CapsLoopTyped
<1>7. /\ loop' # NoLoop /\ (loop'.edit <=> ed) /\ loop'.row = r
      /\ loop'.posts = P /\ loop'.dels = D
  BY <1>5, CapsLoopMeans
<1>8. ASSUME ~hasty PROVE CapsSeen'
  <2>1. CapsSeen
    BY <1>8 DEF CapsInv
  <2>2. /\ \A X : DelsOwn(X) => DelsOwn(X)'
        /\ \A X, Y : Matches(X, Y) => Matches(X, Y)'
        /\ \A X, f : NewsOwn(X, f)' <=> NewsOwn(X, f)
    BY <1>1, <1>3, SameShown
  <2>3. NewsOwn(newcapmaps, form)' = NewsOwn(newcapmaps, form)
    BY <1>1 DEF NewsOwn
  <2>4. DelsOwn(delcaps)'
    BY <1>1, <2>1 DEF CapsSeen, DelsOwn, DelOwn, RowIs
  <2>5. form # List => NewsOwn(P, form)
    BY <2>1 DEF CapsSeen
  <2>6. CASE ed
    <3>1. form \in dbrows /\ r = form /\ form # List /\ D = delcaps /\ Matches(P, D)
      BY <1>8, <2>1, <2>6, FormMeans DEF CapsInv
    <3>2. /\ DelsOwn(D)' /\ Matches(P, D)' /\ NewsOwn(P, form)
          /\ NewsOwn(P, form) => NewsOwn(P, form')
      BY <1>1, <2>1, <2>2, <2>5, <3>1 DEF CapsSeen
    <3>3. CapsLoopSeen'
      BY <1>1, <1>7, <2>2, <2>6, <3>1, <3>2 DEF CapsLoopSeen
    <3> QED BY <1>1, <1>2, <1>7, <1>8, <2>1, <2>3, <2>4, <3>3 DEF CapsSeen, Idle
  <2>7. CASE ~ed
    <3>1. form = Add /\ D = <<>>
      BY <1>8, <2>1, <2>7
    <3>2. DelsOwn(D)' /\ NewsOwn(P, Add)'
      BY <2>2, <2>5, <3>1, RowIds, NoneLeft
    <3>3. CapsLoopSeen'
      BY <1>1, <1>7, <2>7, <3>1, <3>2 DEF CapsLoopSeen
    <3> QED BY <1>1, <1>2, <1>7, <1>8, <2>1, <2>3, <2>4, <3>3 DEF CapsSeen, Idle
  <2> QED BY <2>6, <2>7
<1>9. ~hasty' => ~hasty
  BY <1>1
<1> QED BY <1>2, <1>3, <1>4, <1>6, <1>8, <1>9 DEF CapsInv

LEMMA PutRowArrivesKeeps ==
    ASSUME CapsInv, NEW s \in Slots, PutRowArrives(s)
    PROVE  CapsInv' /\ WebMove
<1>1. /\ net[s] # NoRequest /\ net[s].op = "put" /\ loop = NoLoop /\ UNCHANGED capsVars
      /\ EnterLoop(s, loop') /\ loop' = Saving(TRUE, TargetRow, newcapmaps, delcaps)
  BY DEF PutRowArrives, Arrived, EnterLoop
<1>2. delcaps \in Seq(Dels)
  BY DEF CapsInv, CapsTyped
<1>3. ASSUME ~hasty, CapsSeen
      PROVE  form \in dbrows /\ TargetRow = form /\ Matches(newcapmaps, delcaps)
  <2>1. form \in dbrows /\ pageurl = "admin.html"
    BY <1>1, <1>3 DEF CapsSeen, CapsFlight
  <2>2. NoMaps
    BY <1>1, <1>3 DEF NoMaps, CapsInv, Waits, OneInv
  <2> QED BY <1>1, <1>3, <2>1, <2>2 DEF CapsSeen, TargetRow
<1> QED BY <1>1, <1>2, <1>3, CapsLoopBegins

LEMMA PostRowArrivesKeeps ==
    ASSUME CapsInv, NEW s \in Slots, PostRowArrives(s)
    PROVE  CapsInv' /\ WebMove
<1>1. /\ net[s] # NoRequest /\ net[s].op = "post" /\ loop = NoLoop /\ UNCHANGED capsVars
  BY DEF PostRowArrives, Arrived
<1>2. CASE net[s].st = "ok"
  <2>1. EnterLoop(s, loop') /\ loop' = Saving(FALSE, net[s].arg, newcapmaps, <<>>)
    BY <1>2 DEF PostRowArrives, EnterLoop
  <2>2. ~hasty /\ CapsSeen => form = Add
    BY <1>1 DEF CapsSeen, CapsFlight
  <2> QED BY <1>1, <2>1, <2>2, NoneLeft, CapsLoopBegins
<1>3. CASE net[s].st # "ok"
  <2>1. Callback(s)
    BY <1>3 DEF PostRowArrives
  <2>2. /\ net' = Without(s) /\ UNCHANGED <<pageurl, loop, session, broke, hasty>>
        /\ UNCHANGED <<kind, form, obj, capmaps, newcapmaps, delcaps, dbrows, dbmaps, slips>>
    BY <1>1, <2>1 DEF Callback, capsVars
  <2>3. /\ WebMove /\ (~hasty => Idle')
        /\ \A q \in Slots : net'[q] = NoRequest \/ net'[q] = net[q]
    BY <1>1, <2>2, CallbackOne DEF CapsInv
  <2>4. \A q \in Slots : net'[q] # NoRequest => CapsRequest(net[q])'
    BY <2>2, <2>3 DEF CapsInv, CapsRequest
  <2>5. ~hasty => \A q \in Slots : net'[q] # NoRequest => CapsFlight(net[q])'
    BY <2>3 DEF Idle
  <2>6. ~hasty /\ CapsSeen => form \notin dbrows
    BY <1>1, FormMeans DEF CapsSeen, CapsFlight, CapsInv
  <2>7. dbrows' \subseteq Rows \cup {NewRow}
    BY <2>2, FormMeans DEF CapsInv
  <2> QED BY <2>2, <2>3, <2>4, <2>5, <2>6, <2>7, CapsStays
<1> QED BY <1>2, <1>3

-----------------------------------------------------------------------------
(* The loop                                                                *)

(* What a step of a loop does to the server's maps.                        *)
CapsStepOwn ==
    loop # NoLoop =>
      /\ \A i \in DOMAIN dbmaps' \ DOMAIN dbmaps :
           Head(loop.posts).for = IF loop.edit THEN dbmaps'[i].row ELSE Add
      /\ \A i \in DOMAIN dbmaps \ DOMAIN dbmaps' :
           \/ dbmaps[i].row = loop.row
           \/ kind = "envs" /\ Head(loop.dels).kept

CapsStepSaved ==
    Patient' /\ loop # NoLoop /\ loop' = NoLoop /\ loop.edit /\ slips = {} =>
      CapsIn(MapsOf(form)) = CapsIn(capmaps)

CapsKept == CapsInv' /\ WebMove /\ (~hasty => CapsStepOwn /\ CapsStepSaved)

(* The loop saves for the form that is shown.                              *)
ForForm(ed, r, P, D) ==
    /\ DelsOwn(D)
    /\ \/ ed /\ form \in dbrows /\ r = form /\ NewsOwn(P, form) /\ Matches(P, D)
       \/ ~ed /\ form = Add /\ D = <<>> /\ NewsOwn(P, Add)

LEMMA CapsLoopAt ==
    ASSUME CapsInv, loop # NoLoop
    PROVE  \E ed \in BOOLEAN, P \in Seq(News), D \in Seq(Dels) : \E r :
             /\ loop = Saving(ed, r, P, D) /\ loop.edit = ed /\ (loop.edit <=> ed)
             /\ loop.row = r /\ loop.posts = P /\ loop.dels = D
             /\ ~hasty => ForForm(ed, r, P, D)
<1>1. PICK ed \in BOOLEAN, P \in Seq(News), D \in Seq(Dels) : \E r : loop = Saving(ed, r, P, D)
  BY DEF CapsInv, CapsTyped, CapsLoopTyped
<1>2. PICK r : loop = Saving(ed, r, P, D)
  BY <1>1
<1>3. /\ loop.edit = ed /\ (loop.edit <=> ed) /\ loop.row = r
      /\ loop.posts = P /\ loop.dels = D
  BY <1>2, CapsLoopMeans
<1>4. ASSUME ~hasty PROVE ForForm(ed, r, P, D)
  <2>1. CapsSeen
    BY <1>4 DEF CapsInv
  <2>2. CapsLoopSeen
    BY <2>1 DEF CapsSeen
  <2> QED BY <1>3, <2>2 DEF CapsLoopSeen, ForForm
<1> QED BY <1>2, <1>3, <1>4

(* A call of the loop that goes on, or is over because it was refused.     *)
LEMMA CapsGoesOn ==
    ASSUME CapsInv, loop # NoLoop,
           UNCHANGED <<net, session, hasty>>, broke => broke', pageurl' \in {pageurl, "login.html"},
           NEW ed \in BOOLEAN, NEW r, NEW Q \in Seq(News), NEW E \in Seq(Dels),
           loop' = NoLoop \/ loop' = Saving(ed, r, Q, E),
           UNCHANGED <<kind, form, obj, capmaps, newcapmaps, delcaps, dbrows, slips>>,
           Numbered(dbmaps'),
           \A i \in DOMAIN dbmaps' : dbmaps'[i].row \in dbrows /\ dbmaps'[i].cap \in Caps,
           ~hasty /\ CapsSeen =>
             /\ DelsOwn(delcaps)' /\ ForForm(ed, r, Q, E)'
             /\ loop' = NoLoop => ~(Saves' /\ form \in dbrows)
    PROVE  CapsInv' /\ WebMove
<1>1. WebMove
  BY DEF WebMove, InLoop
<1>2. Waits' /\ (Patient' => Patient)
  BY <1>1, WaitsNext DEF CapsInv
<1>3. \A q \in Slots : net'[q] # NoRequest => CapsRequest(net[q])'
  BY DEF CapsInv, CapsRequest
<1>4. CapsTyped'
  BY DEF CapsInv, CapsTyped, CapsTypeOK, CapsLoopTyped
<1>5. ASSUME ~hasty PROVE CapsSeen'
  <2>1. CapsSeen /\ Idle
    BY <1>5 DEF CapsInv, Waits
  <2>2. /\ DelsOwn(delcaps)' /\ ForForm(ed, r, Q, E)'
        /\ loop' = NoLoop => ~(Saves' /\ form \in dbrows)
    BY <1>5, <2>1
  <2>3. form # List => NewsOwn(newcapmaps, form)'
    BY <2>1 DEF CapsSeen, NewsOwn
  <2>4. form \in dbrows /\ loop' = NoLoop => Matches(newcapmaps, delcaps)'
    <3>1. form \in dbrows => Held'
      <4>1. form \in dbrows => form # Add
        BY FormMeans DEF CapsInv
      <4> QED BY <2>2, <4>1 DEF ForForm, Matches
    <3> QED BY <2>2, <3>1 DEF Matches
  <2>5. CapsLoopSeen'
    <3>1. CASE loop' = NoLoop
      BY <3>1 DEF CapsLoopSeen
    <3>2. CASE loop' # NoLoop
      <4>1. loop' = Saving(ed, r, Q, E)
        BY <3>2
      <4>2. (loop'.edit <=> ed) /\ loop'.row = r /\ loop'.posts = Q /\ loop'.dels = E
        BY <4>1, CapsLoopMeans
      <4> QED BY <2>2, <4>2 DEF CapsLoopSeen, ForForm
    <3> QED BY <3>1, <3>2
  <2>6. \A q \in Slots : net'[q] = NoRequest
    BY <2>1 DEF Idle
  <2> QED BY <2>2, <2>3, <2>4, <2>5, <2>6 DEF CapsSeen
<1>6. ~hasty' => ~hasty
  OBVIOUS
<1> QED BY <1>1, <1>2, <1>3, <1>4, <1>5, <1>6 DEF CapsInv

LEMMA MapAdded ==
    ASSUME CapsInv, NEW rec, dbmaps' = WithRow(dbmaps, NextId(dbmaps), rec)
    PROVE  \E k : /\ k \notin DOMAIN dbmaps /\ DOMAIN dbmaps' = DOMAIN dbmaps \cup {k}
                  /\ dbmaps'[k] = rec /\ \A i \in DOMAIN dbmaps : dbmaps'[i] = dbmaps[i]
                  /\ Numbered(dbmaps')
<1>1. PICK more : more = dbmaps'
  OBVIOUS
<1>2. Numbered(dbmaps) /\ more = WithRow(dbmaps, NextId(dbmaps), rec)
  BY <1>1 DEF CapsInv, CapsTyped
<1>3. PICK k : k = NextId(dbmaps)
  OBVIOUS
<1>4. /\ Numbered(more) /\ k \in Nat \ {0} /\ \A i \in DOMAIN dbmaps : i < k
      /\ DOMAIN more = DOMAIN dbmaps \cup {k} /\ more[k] = rec
      /\ \A i \in DOMAIN dbmaps : more[i] = dbmaps[i] /\ i \in Nat
  BY <1>2, <1>3, RowAdded
<1>5. k \notin DOMAIN dbmaps
  BY <1>4
<1> QED BY <1>1, <1>4, <1>5

LEMMA PostMapKeeps ==
    ASSUME CapsInv, loop # NoLoop, NEW o \in Outcomes, PostMap(o)
    PROVE  CapsKept
<1>1. PICK ed \in BOOLEAN, P \in Seq(News), D \in Seq(Dels) : \E r :
        /\ loop = Saving(ed, r, P, D) /\ loop.edit = ed /\ (loop.edit <=> ed)
        /\ loop.row = r /\ loop.posts = P /\ loop.dels = D
        /\ ~hasty => ForForm(ed, r, P, D)
  BY CapsLoopAt
<1>2. PICK r :
        /\ loop = Saving(ed, r, P, D) /\ loop.edit = ed /\ (loop.edit <=> ed)
        /\ loop.row = r /\ loop.posts = P /\ loop.dels = D
        /\ ~hasty => ForForm(ed, r, P, D)
  BY <1>1
<1>3. P # <<>>
  BY <1>2 DEF PostMap
<1> PICK T, c : T = Tail(P) /\ c = Head(P).cap
  OBVIOUS
<1> PICK rec : rec = [row |-> r, cap |-> c]
  OBVIOUS
<1>4. /\ T \in Seq(News) /\ c \in CapsOf(P) /\ CapsOf(T) \subseteq CapsOf(P)
      /\ OnceCaps(P) => OnceCaps(T) /\ CapsOf(T) = CapsOf(P) \ {c}
      /\ 1 \in DOMAIN P /\ P[1] = Head(P)
      /\ \A f : NewsOwn(P, f) => NewsOwn(T, f) /\ Head(P).for = f
  <2>1. /\ T \in Seq(News) /\ 1 \in DOMAIN P /\ P[1] = Head(P)
        /\ \A i \in DOMAIN T : i + 1 \in DOMAIN P /\ T[i] = P[i + 1]
    BY <1>3, Rest
  <2>2. /\ c \in CapsOf(P) /\ CapsOf(T) \subseteq CapsOf(P)
        /\ OnceCaps(P) => OnceCaps(T) /\ CapsOf(T) = CapsOf(P) \ {c}
    BY <1>3, CapsLeft
  <2>3. \A f : NewsOwn(P, f) => NewsOwn(T, f) /\ Head(P).for = f
    BY <2>1 DEF NewsOwn
  <2> QED BY <2>1, <2>2, <2>3
<1>5. /\ SyncCall(o, AfterCall(o, Saving(ed, r, T, D)))
      /\ UNCHANGED <<kind, form, obj, capmaps, newcapmaps, delcaps, dbrows, slips>>
  BY <1>2 DEF PostMap
<1> PICK fits \in BOOLEAN : fits <=> /\ r \in dbrows /\ c \in Caps
                                     /\ \A i \in DOMAIN dbmaps : dbmaps[i] # rec
  OBVIOUS
<1>6. /\ \/ o = "refused" /\ ~fits
         \/ o \in {"ok", "broken"} /\ fits
         \/ o \in {"broken", "expired"}
      /\ \/ UNCHANGED dbmaps /\ o # "ok"
         \/ fits /\ dbmaps' = WithRow(dbmaps, NextId(dbmaps), rec)
  BY <1>2 DEF PostMap
<1>7. /\ UNCHANGED <<net, session, hasty>> /\ (broke => broke')
      /\ pageurl' \in {pageurl, "login.html"}
      /\ (loop' = NoLoop /\ o = "refused") \/ loop' = Saving(ed, r, T, D)
      /\ Patient' => o \notin {"expired", "broken"}
  BY <1>5, CallMeans DEF AfterCall
<1>8. Patient' => Patient
  BY Zenon, <1>7 DEF Patient
<1>9. CASE UNCHANGED dbmaps /\ o # "ok"
  <2>1. ASSUME ~hasty, Saves', ed PROVE FALSE
    <3>1. Saves /\ o = "refused"
      BY <1>5, <1>6, <1>7, <1>8, <1>9, <2>1 DEF Saves, Outcomes
    <3>2. form \in dbrows /\ r = form /\ FitsIn(CapsOf(P), IdsIn(D))
      BY <1>2, <2>1, <3>1 DEF ForForm, Matches, Fits
    <3>3. c \in Caps /\ \A i \in DOMAIN dbmaps : ~Maps(i, c)
      BY <1>4, <3>2 DEF FitsIn
    <3>4. \A i \in DOMAIN dbmaps : dbmaps[i] # rec
      BY <3>2, <3>3 DEF Maps
    <3> QED BY <1>6, <3>1, <3>2, <3>3, <3>4
  <2>2. ASSUME ~hasty, CapsSeen
        PROVE  /\ DelsOwn(delcaps)' /\ ForForm(ed, r, T, D)'
               /\ loop' = NoLoop => ~(Saves' /\ form \in dbrows)
    <3>1. DelsOwn(D)' /\ DelsOwn(delcaps)'
      BY <1>2, <1>5, <1>9, <2>2 DEF CapsSeen, ForForm, DelsOwn, DelOwn, RowIs
    <3>2. Held => Held'
      BY <1>5, <1>9 DEF Held, RowIs
    <3>3. CASE ed
      BY <1>2, <1>4, <1>5, <2>1, <2>2, <3>1, <3>2, <3>3 DEF ForForm, Matches, NewsOwn
    <3>4. CASE ~ed
      <4>1. form = Add /\ form \notin dbrows /\ D = <<>> /\ NewsOwn(P, Add)
        BY <1>2, <2>2, <3>4, FormMeans DEF ForForm, CapsInv
      <4> QED BY <1>4, <1>5, <3>1, <3>4, <4>1 DEF ForForm, NewsOwn
    <3> QED BY <3>3, <3>4
  <2>3. Numbered(dbmaps')
        /\ \A i \in DOMAIN dbmaps' : dbmaps'[i].row \in dbrows /\ dbmaps'[i].cap \in Caps
    BY <1>9 DEF CapsInv, CapsTyped, CapsTypeOK
  <2>4. CapsInv' /\ WebMove
    BY <1>4, <1>5, <1>7, <2>2, <2>3, CapsGoesOn
  <2>5. CapsStepOwn
    BY <1>9 DEF CapsStepOwn
  <2>6. ~hasty => CapsStepSaved
    BY <1>2, <1>5, <2>1 DEF CapsStepSaved, Saves
  <2> QED BY <2>4, <2>5, <2>6 DEF CapsKept
<1>10. CASE fits /\ dbmaps' = WithRow(dbmaps, NextId(dbmaps), rec)
  <2>1. PICK k : /\ k \notin DOMAIN dbmaps /\ DOMAIN dbmaps' = DOMAIN dbmaps \cup {k}
                 /\ dbmaps'[k] = rec /\ \A i \in DOMAIN dbmaps : dbmaps'[i] = dbmaps[i]
                 /\ Numbered(dbmaps')
    BY <1>10, MapAdded
  <2>2. rec.row = r /\ rec.cap = c /\ r \in dbrows /\ c \in Caps
    BY <1>10
  <2>3. \A i \in DOMAIN dbmaps' : dbmaps'[i].row \in dbrows /\ dbmaps'[i].cap \in Caps
    BY <2>1, <2>2 DEF CapsInv, CapsTyped, CapsTypeOK
  <2>4. ASSUME ~hasty, CapsSeen, ed
        PROVE  /\ DelsOwn(delcaps)' /\ ForForm(ed, r, T, D)' /\ form = r
               /\ Head(P).for = form
    <3>1. /\ DelsOwn(D) /\ DelsOwn(delcaps) /\ form \in dbrows /\ r = form /\ NewsOwn(P, form)
          /\ Matches(P, D)
      BY <1>2, <2>4 DEF ForForm, CapsSeen
    <3>2. \A i : RowIs(i, form) => RowIs(i, form)'
      BY <1>5, <2>1, <2>2, <3>1 DEF RowIs
    <3>3. DelsOwn(delcaps)' /\ DelsOwn(D)' /\ Held'
      BY <1>5, <3>1, <3>2 DEF DelsOwn, DelOwn, Matches, Held
    <3>4. ASSUME Saves' PROVE Zeros' /\ Fits(T, D)'
      <4>1. Zeros /\ Fits(P, D)
        BY <1>5, <1>8, <3>1, <3>4 DEF Saves, Matches
      <4>2. /\ FitsIn(CapsOf(P), IdsIn(D)) /\ OnceCaps(P) /\ OnceIds(D)
            /\ OnceCaps(T) /\ CapsOf(T) = CapsOf(P) \ {c}
        BY <1>4, <4>1 DEF Fits
      <4>3. PICK C, I : C = CapsOf(P) /\ I = IdsIn(D)
        OBVIOUS
      <4>4. FitsIn(C, I) /\ c \in C /\ dbmaps'[k].row = form /\ dbmaps'[k].cap = c
        BY <1>4, <2>1, <2>2, <3>1, <4>2, <4>3
      <4>5. FitsIn(C \ {c}, I)'
        BY <1>5, <2>1, <4>4, FitsPosted
      <4>6. CapsOf(T)' = C \ {c} /\ IdsIn(D)' = I
        BY <4>2, <4>3 DEF CapsOf, IdsIn
      <4>7. FitsIn(CapsOf(T), IdsIn(D))'
        BY <4>5, <4>6 DEF FitsIn, Maps
      <4>8. Zeros'
        BY <1>5, <4>1 DEF Zeros
      <4>9. OnceCaps(T)' /\ OnceIds(D)'
        BY <4>2 DEF OnceCaps, OnceIds
      <4> QED BY <4>7, <4>8, <4>9 DEF Fits
    <3>5. NewsOwn(T, form)' /\ Head(P).for = form
      BY <1>4, <1>5, <3>1 DEF NewsOwn
    <3>6. Matches(T, D)'
      BY <3>3, <3>4 DEF Matches
    <3> QED BY <1>5, <2>4, <3>1, <3>3, <3>5, <3>6 DEF ForForm
  <2>5. ASSUME ~hasty, CapsSeen, ~ed
        PROVE  /\ DelsOwn(delcaps)' /\ ForForm(ed, r, T, D)' /\ Head(P).for = Add
               /\ form \notin dbrows
    <3>1. /\ form = Add /\ form \notin dbrows /\ D = <<>> /\ NewsOwn(P, Add) /\ DelsOwn(delcaps)
      BY <1>2, <2>5, FormMeans DEF ForForm, CapsInv, CapsSeen
    <3>2. DelsOwn(delcaps)'
      BY <1>5, <3>1 DEF DelsOwn, DelOwn
    <3>3. NewsOwn(T, Add)' /\ Head(P).for = Add
      BY <1>4, <3>1 DEF NewsOwn
    <3>4. DelsOwn(D)'
      BY <3>1 DEF DelsOwn
    <3> QED BY <1>5, <2>5, <3>1, <3>2, <3>3, <3>4 DEF ForForm
  <2>6. o # "refused" \/ ~fits
    BY <1>6
  <2>7. loop' = Saving(ed, r, T, D)
    BY <1>7, <1>10, <2>6
  <2>8. loop' # NoLoop
    BY <2>7, CapsLoopMeans
  <2>9. CapsInv' /\ WebMove
    BY <1>4, <1>5, <1>7, <2>1, <2>3, <2>4, <2>5, <2>7, <2>8, CapsGoesOn
  <2>10. ~hasty => CapsStepOwn
    <3> SUFFICES ASSUME ~hasty PROVE CapsStepOwn
      OBVIOUS
    <3>1. CapsSeen
      BY DEF CapsInv
    <3>2. Head(P).for = IF ed THEN dbmaps'[k].row ELSE Add
      BY <2>1, <2>2, <2>4, <2>5, <3>1
    <3> QED BY <1>2, <2>1, <3>2 DEF CapsStepOwn
  <2> QED BY <2>8, <2>9, <2>10 DEF CapsKept, CapsStepSaved
<1> QED BY <1>6, <1>9, <1>10

LEMMA DeleteMapKeeps ==
    ASSUME CapsInv, loop # NoLoop, NEW o \in Outcomes, DeleteMap(o)
    PROVE  CapsKept
<1>1. PICK ed \in BOOLEAN, P \in Seq(News), D \in Seq(Dels) : \E r :
        /\ loop = Saving(ed, r, P, D) /\ loop.edit = ed /\ (loop.edit <=> ed)
        /\ loop.row = r /\ loop.posts = P /\ loop.dels = D
        /\ ~hasty => ForForm(ed, r, P, D)
  BY CapsLoopAt
<1>2. PICK r :
        /\ loop = Saving(ed, r, P, D) /\ loop.edit = ed /\ (loop.edit <=> ed)
        /\ loop.row = r /\ loop.posts = P /\ loop.dels = D
        /\ ~hasty => ForForm(ed, r, P, D)
  BY <1>1
<1>3. D # <<>> /\ P = <<>>
  BY <1>2 DEF DeleteMap
<1> PICK T, d : T = Tail(D) /\ d = Head(D).id
  OBVIOUS
<1>4. /\ T \in Seq(Dels) /\ d \in IdsIn(D) /\ IdsIn(T) \subseteq IdsIn(D)
      /\ OnceIds(D) => OnceIds(T) /\ IdsIn(T) = IdsIn(D) \ {d}
      /\ 1 \in DOMAIN D /\ D[1] = Head(D)
      /\ DelsOwn(D) => DelsOwn(T) /\ DelOwn(Head(D))
  <2>1. /\ T \in Seq(Dels) /\ 1 \in DOMAIN D /\ D[1] = Head(D)
        /\ \A i \in DOMAIN T : i + 1 \in DOMAIN D /\ T[i] = D[i + 1]
    BY <1>3, Rest
  <2>2. /\ d \in IdsIn(D) /\ IdsIn(T) \subseteq IdsIn(D)
        /\ OnceIds(D) => OnceIds(T) /\ IdsIn(T) = IdsIn(D) \ {d}
    BY <1>3, IdsLeft
  <2>3. DelsOwn(D) => DelsOwn(T) /\ DelOwn(Head(D))
    BY <2>1 DEF DelsOwn
  <2> QED BY <2>1, <2>2, <2>3
<1>5. /\ SyncCall(o, AfterCall(o, Saving(ed, r, P, T)))
      /\ UNCHANGED <<kind, form, obj, capmaps, newcapmaps, delcaps, dbrows, slips>>
  BY <1>2, <1>3 DEF DeleteMap
<1>6. \/ o \in {"ok", "broken"} /\ d \in DOMAIN dbmaps /\ dbmaps' = WithoutRow(dbmaps, d)
      \/ o = "refused" /\ d \notin DOMAIN dbmaps /\ UNCHANGED dbmaps
      \/ o \in {"broken", "expired"} /\ UNCHANGED dbmaps
  BY <1>2 DEF DeleteMap
<1>7. /\ UNCHANGED <<net, session, hasty>> /\ (broke => broke')
      /\ pageurl' \in {pageurl, "login.html"}
      /\ (loop' = NoLoop /\ o = "refused") \/ (loop' = Saving(ed, r, P, T) /\ o # "refused")
      /\ Patient' => o \notin {"expired", "broken"}
  BY <1>5, CallMeans DEF AfterCall
<1>8. Patient' => Patient
  BY Zenon, <1>7 DEF Patient
<1>9. /\ DOMAIN dbmaps' \subseteq DOMAIN dbmaps
      /\ \A i \in DOMAIN dbmaps' : dbmaps'[i] = dbmaps[i]
      /\ DOMAIN dbmaps \ DOMAIN dbmaps' \subseteq {d}
      /\ o = "ok" => d \in DOMAIN dbmaps /\ DOMAIN dbmaps' = DOMAIN dbmaps \ {d}
  BY <1>6 DEF WithoutRow
<1>10. /\ Numbered(dbmaps')
       /\ \A i \in DOMAIN dbmaps' : dbmaps'[i].row \in dbrows /\ dbmaps'[i].cap \in Caps
  <2>1. PICK b \in Nat : DOMAIN dbmaps \subseteq 1 .. b
    BY DEF CapsInv, CapsTyped, Numbered
  <2>2. DOMAIN dbmaps' \subseteq 1 .. b
    BY <1>9, <2>1
  <2> QED BY <1>9, <2>2 DEF CapsInv, CapsTyped, CapsTypeOK, Numbered
<1>11. ASSUME ~hasty
       PROVE  /\ CapsSeen /\ ed /\ form \in dbrows /\ r = form /\ Matches(P, D)
              /\ DelsOwn(D) /\ NewsOwn(P, form)
  BY <1>2, <1>3, <1>11 DEF ForForm, CapsInv
<1>12. ASSUME ~hasty, Saves' PROVE o = "ok"
  <2>1. Saves /\ o \notin {"expired", "broken"}
    BY <1>5, <1>7, <1>8, <1>12 DEF Saves
  <2>2. d \in DOMAIN dbmaps
    BY <1>4, <1>11, <1>12, <2>1 DEF Matches, Fits, FitsIn
  <2> QED BY <1>6, <2>1, <2>2
<1>13. ASSUME ~hasty, CapsSeen
       PROVE  /\ DelsOwn(delcaps)' /\ ForForm(ed, r, P, T)'
              /\ loop' = NoLoop => ~(Saves' /\ form \in dbrows)
  <2>1. \A i, f : RowIs(i, f) => RowIs(i, f)'
    BY <1>9 DEF RowIs
  <2>2. DelsOwn(delcaps)' /\ DelsOwn(T)' /\ Held'
    BY <1>4, <1>5, <1>11, <1>13, <2>1 DEF CapsSeen, DelsOwn, DelOwn, Matches, Held
  <2>3. ASSUME Saves' PROVE Zeros' /\ Fits(P, T)'
    <3>1. Saves /\ o = "ok"
      BY <1>5, <1>8, <1>12, <1>13, <2>3 DEF Saves
    <3>2. Zeros /\ Fits(P, D)
      BY <1>11, <1>13, <3>1 DEF Matches
    <3>3. /\ FitsIn(CapsOf(P), IdsIn(D)) /\ OnceCaps(P) /\ OnceIds(D)
          /\ OnceIds(T) /\ IdsIn(T) = IdsIn(D) \ {d}
      BY <1>4, <3>2 DEF Fits
    <3>4. PICK C, I : C = CapsOf(P) /\ I = IdsIn(D)
      OBVIOUS
    <3>5. FitsIn(C, I) /\ d \in I /\ DOMAIN dbmaps' = DOMAIN dbmaps \ {d}
      BY <1>4, <1>9, <3>1, <3>3, <3>4
    <3>6. FitsIn(C, I \ {d})'
      BY <1>5, <1>9, <3>5, FitsDeleted
    <3>7. CapsOf(P)' = C /\ IdsIn(T)' = I \ {d}
      BY <3>3, <3>4 DEF CapsOf, IdsIn
    <3>8. FitsIn(CapsOf(P), IdsIn(T))'
      BY <3>6, <3>7 DEF FitsIn, Maps
    <3>9. Zeros' /\ OnceCaps(P)' /\ OnceIds(T)'
      BY <1>5, <3>2, <3>3 DEF Zeros, OnceCaps, OnceIds
    <3> QED BY <3>8, <3>9 DEF Fits
  <2>4. NewsOwn(P, form)'
    BY <1>5, <1>11, <1>13 DEF NewsOwn
  <2>5. Matches(P, T)'
    BY <2>2, <2>3 DEF Matches
  <2>6. loop' = NoLoop => ~Saves'
    <3>1. Saving(ed, r, P, T) # NoLoop
      BY CapsLoopMeans
    <3> QED BY <1>7, <1>12, <1>13, <3>1
  <2> QED BY <1>5, <1>11, <1>13, <2>2, <2>4, <2>5, <2>6 DEF ForForm
<1>14. CapsInv' /\ WebMove
  <2>1. loop' = NoLoop \/ loop' = Saving(ed, r, P, T)
    BY <1>7
  <2> QED BY <1>4, <1>5, <1>7, <1>10, <1>13, <2>1, CapsGoesOn
<1>15. ~hasty => CapsStepOwn
  <2> SUFFICES ASSUME ~hasty PROVE CapsStepOwn
    OBVIOUS
  <2>1. DOMAIN dbmaps' \ DOMAIN dbmaps = {}
    BY <1>9
  <2>2. DelOwn(Head(D)) /\ r = form
    BY <1>4, <1>11
  <2>3. ASSUME d \in DOMAIN dbmaps
        PROVE  dbmaps[d].row = r \/ (kind = "envs" /\ Head(D).kept)
    BY <2>2, <2>3 DEF DelOwn, RowIs
  <2> QED BY <1>2, <1>9, <2>1, <2>3 DEF CapsStepOwn
<1>16. ~hasty => CapsStepSaved
  <2>1. Saving(ed, r, P, T) # NoLoop
    BY CapsLoopMeans
  <2>2. ~hasty /\ loop' = NoLoop /\ Patient' /\ slips = {} => FALSE
    BY <1>5, <1>7, <1>12, <2>1 DEF Saves
  <2> QED BY <2>2 DEF CapsStepSaved
<1> QED BY <1>14, <1>15, <1>16 DEF CapsKept

LEMMA LoopEndsKeeps == ASSUME CapsInv, LoopEnds PROVE CapsKept
<1>1. PICK ed \in BOOLEAN, P \in Seq(News), D \in Seq(Dels) : \E r :
        /\ loop = Saving(ed, r, P, D) /\ loop.edit = ed /\ (loop.edit <=> ed)
        /\ loop.row = r /\ loop.posts = P /\ loop.dels = D
        /\ ~hasty => ForForm(ed, r, P, D)
  BY CapsLoopAt DEF LoopEnds
<1>2. PICK r :
        /\ loop = Saving(ed, r, P, D) /\ loop.edit = ed /\ (loop.edit <=> ed)
        /\ loop.row = r /\ loop.posts = P /\ loop.dels = D
        /\ ~hasty => ForForm(ed, r, P, D)
  BY <1>1
<1>3. P = <<>> /\ D = <<>> /\ loop # NoLoop /\ loop' = NoLoop
  BY <1>2 DEF LoopEnds
<1>4. /\ UNCHANGED <<pageurl, moves, session, broke, hasty>>
      /\ UNCHANGED <<kind, form, obj, capmaps, dbrows, dbmaps>>
      /\ delcaps' = IF ed THEN <<>> ELSE delcaps
      /\ IF ed /\ kind = "envs" THEN newcapmaps' = <<>> /\ Send("maps", obj)
         ELSE UNCHANGED <<newcapmaps, net>>
      /\ slips' = slips \cup (IF ed /\ kind = "dcs" /\ newcapmaps # <<>> THEN {"reposts"} ELSE {})
  BY <1>2 DEF LoopEnds
<1>5. /\ \/ UNCHANGED net
         \/ /\ Begins(net)
            /\ \A q \in Slots : net'[q] = net[q] \/ Sent(net'[q], "maps", obj)
            /\ ~Idle'
      /\ ed /\ kind = "envs" => \E q \in Slots : net'[q] # NoRequest
  <2>1. CASE ed /\ kind = "envs"
    BY <1>4, <2>1, SentOne DEF Send, CapsInv, Waits, Idle
  <2>2. CASE ~(ed /\ kind = "envs")
    BY <1>4, <2>2
  <2> QED BY <2>1, <2>2
<1>6. WebMove
  BY <1>3, <1>4, <1>5 DEF WebMove, InLoop
<1>7. Waits' /\ (Patient' => Patient) /\ (~hasty' => ~hasty)
  BY <1>6, WaitsNext DEF CapsInv
<1>8. \A q \in Slots : net'[q] # NoRequest => CapsRequest(net[q])'
  <2> SUFFICES ASSUME NEW q \in Slots, net'[q] # NoRequest PROVE CapsRequest(net[q])'
    OBVIOUS
  <2>1. CASE net'[q] = net[q]
    BY <2>1 DEF CapsInv, CapsRequest
  <2>2. CASE Sent(net'[q], "maps", obj)
    BY <2>2 DEF CapsRequest, Sent
  <2> QED BY <1>5, <2>1, <2>2
<1>9. CapsTyped'
  <2>1. newcapmaps' \in Seq(News) /\ delcaps' \in Seq(Dels)
    BY <1>4, NoneLeft DEF CapsInv, CapsTyped
  <2>2. \A i \in DOMAIN newcapmaps' : newcapmaps'[i].cap \in Caps \cup {NoCap}
    BY <1>4, NoneLeft DEF CapsInv, CapsTyped, CapsTypeOK
  <2> QED BY <1>3, <1>4, <2>1, <2>2 DEF CapsInv, CapsTyped, CapsTypeOK, Numbered, CapsLoopTyped
<1>10. ASSUME ~hasty PROVE CapsSeen'
  <2>1. CapsSeen /\ Idle /\ ForForm(ed, r, P, D)
    BY <1>2, <1>3, <1>10 DEF CapsInv, Waits
  <2>2. CASE ed /\ kind = "envs"
    <3>1. /\ newcapmaps' = <<>> /\ delcaps' = <<>> /\ form \in dbrows /\ obj = form
      BY <1>4, <2>1, <2>2 DEF ForForm, CapsInv, CapsTyped
    <3>2. NewsOwn(newcapmaps, form)' /\ DelsOwn(delcaps)'
      BY <3>1 DEF NewsOwn, DelsOwn
    <3>3. \A q \in Slots : net'[q] # NoRequest => Sent(net'[q], "maps", obj)
      BY <1>5, <2>1 DEF Idle
    <3>4. PICK q \in Slots : net'[q] # NoRequest
      BY <1>5, <2>2
    <3>5. ~NoMaps'
      BY <3>3, <3>4 DEF NoMaps, Sent
    <3>6. \A s \in Slots : net'[s] # NoRequest => CapsFlight(net[s])'
      BY <1>4, <3>1, <3>3 DEF CapsFlight, Sent
    <3> QED BY <1>3, <3>2, <3>5, <3>6 DEF CapsSeen, CapsLoopSeen
  <2>3. CASE ed /\ kind # "envs"
    <3>1. /\ newcapmaps' = newcapmaps /\ delcaps' = <<>> /\ UNCHANGED net /\ kind = "dcs"
          /\ form \in dbrows /\ Matches(P, D)
      BY <1>4, <2>1, <2>3 DEF ForForm, CapsInv, CapsTyped
    <3>2. (form # List => NewsOwn(newcapmaps, form)') /\ DelsOwn(delcaps)'
      BY <1>4, <2>1, <3>1 DEF CapsSeen, NewsOwn, DelsOwn
    <3>3. Held'
      BY <1>4, <3>1 DEF Matches, Held, RowIs
    <3>4. ASSUME Saves' PROVE Zeros' /\ Fits(newcapmaps, delcaps)'
      <4>1. newcapmaps = <<>> /\ Saves
        BY <1>4, <1>7, <2>3, <3>1, <3>4 DEF Saves
      <4>2. Zeros /\ FitsIn({}, {})
        BY <1>3, <3>1, <4>1, NoneLeft DEF Matches, Fits
      <4>3. /\ CapsOf(newcapmaps)' = {} /\ IdsIn(delcaps)' = {}
            /\ OnceCaps(newcapmaps)' /\ OnceIds(delcaps)'
        BY <3>1, <4>1, NoneLeft DEF CapsOf, IdsIn, OnceCaps, OnceIds
      <4>4. FitsIn({}, {})'
        BY <1>4, <4>2, SameFits
      <4>5. FitsIn(CapsOf(newcapmaps), IdsIn(delcaps))'
        BY <4>3, <4>4 DEF FitsIn, Maps
      <4>6. Zeros'
        BY <1>4, <3>1, <4>2 DEF Zeros
      <4> QED BY <4>3, <4>5, <4>6 DEF Fits
    <3>5. Matches(newcapmaps, delcaps)'
      BY <3>3, <3>4 DEF Matches
    <3>6. \A s \in Slots : net'[s] = NoRequest
      BY <2>1, <3>1 DEF Idle
    <3> QED BY <1>3, <1>4, <3>2, <3>5, <3>6 DEF CapsSeen, CapsLoopSeen
  <2>4. CASE ~ed
    <3>1. UNCHANGED <<newcapmaps, delcaps, net, slips>> /\ form = Add /\ form \notin dbrows
      BY <1>4, <2>1, <2>4, FormMeans DEF ForForm, CapsInv
    <3>2. (form # List => NewsOwn(newcapmaps, form)') /\ DelsOwn(delcaps)'
      BY <1>4, <2>1, <3>1 DEF CapsSeen, NewsOwn, DelsOwn, DelOwn, RowIs
    <3>3. \A s \in Slots : net'[s] = NoRequest
      BY <2>1, <3>1 DEF Idle
    <3> QED BY <1>3, <1>4, <3>1, <3>2, <3>3 DEF CapsSeen, CapsLoopSeen
  <2> QED BY <2>2, <2>3, <2>4
<1>11. CapsInv'
  BY <1>7, <1>8, <1>9, <1>10 DEF CapsInv
<1>12. CapsStepOwn
  BY <1>4 DEF CapsStepOwn
<1>13. ~hasty => CapsStepSaved
  <2> SUFFICES ASSUME ~hasty, Patient', ed, slips = {} PROVE CapsIn(MapsOf(form)) = CapsIn(capmaps)
    BY <1>2 DEF CapsStepSaved
  <2>1. Matches(P, D) /\ Saves
    BY <1>2, <1>7 DEF ForForm, Saves
  <2>2. FitsIn({}, {})
    BY <1>3, <2>1, NoneLeft DEF Matches, Fits
  <2> QED BY <2>2, FitsAtLast
<1> QED BY <1>6, <1>11, <1>12, <1>13 DEF CapsKept

-----------------------------------------------------------------------------
(* Every step                                                              *)
LEMMA CapsInvNext ==
    ASSUME CapsInv, CapsNext
    PROVE  CapsKept
<1>1. CASE CapsUser
  <2>1. CapsInv' /\ WebMove
    <3>1. ASSUME NEW r, EditRow(r) PROVE CapsInv' /\ WebMove
      BY <3>1, EditRowKeeps
    <3>2. CASE CloseEdit
      BY <3>2, CloseEditKeeps
    <3>3. ASSUME NEW tf \in BOOLEAN, AddRow(tf) PROVE CapsInv' /\ WebMove
      BY <3>3, AddRowKeeps
    <3>4. ASSUME NEW c \in Caps \cup {NoCap}, EditAddCapMap(c) \/ AddCapMap(c) \/ AddDeleteCapMap(c)
          PROVE  CapsInv' /\ WebMove
      BY <3>4, EditAddCapMapKeeps, AddCapMapKeeps
    <3>5. ASSUME NEW m \in capmaps, EditDeleteCapMap(m) PROVE CapsInv' /\ WebMove
      BY <3>5, EditDeleteCapMapKeeps
    <3>6. CASE EditRowApply \/ AddRowApply
      BY <3>6, CapsApplyKeeps
    <3> QED BY <1>1, <3>1, <3>2, <3>3, <3>4, <3>5, <3>6 DEF CapsUser
  <2>2. loop = NoLoop
    BY <1>1 DEF CapsUser, EditRow, CloseEdit, AddRow, EditAddCapMap, AddCapMap, AddDeleteCapMap,
                EditDeleteCapMap, EditRowApply, AddRowApply, UserActs, ActsOn
  <2> QED BY <2>1, <2>2 DEF CapsKept, CapsStepOwn, CapsStepSaved
<1>2. CASE CapsServer
  <2>1. CapsInv' /\ WebMove
    BY <1>2, CapsServerKeeps
  <2>2. UNCHANGED <<dbmaps, loop>>
    BY <1>2 DEF CapsServer, ServeMaps, ServePutRow, ServePostRow, capsVars, Answer,
                ServerFaults, Expire, Refuse401, Break
  <2> QED BY <2>1, <2>2 DEF CapsKept, CapsStepOwn, CapsStepSaved
<1>3. ASSUME NEW s \in Slots, MapsArrive(s) \/ PutRowArrives(s)
                              \/ PostRowArrives(s) \/ CapsRequestFails(s)
      PROVE  CapsKept
  <2>1. CapsInv' /\ WebMove
    BY <1>3, MapsArriveKeeps, PutRowArrivesKeeps, PostRowArrivesKeeps, CapsRequestFailsKeeps
  <2>2. UNCHANGED dbmaps /\ (loop = NoLoop \/ UNCHANGED loop)
    BY <1>3 DEF MapsArrive, PutRowArrives, PostRowArrives, CapsRequestFails, capsVars, Arrived,
                ErrorCallback
  <2> QED BY <2>1, <2>2 DEF CapsKept, CapsStepOwn, CapsStepSaved
<1>4. ASSUME loop # NoLoop, NEW o \in Outcomes, PostMap(o) \/ DeleteMap(o) PROVE CapsKept
  BY <1>4, PostMapKeeps, DeleteMapKeeps
<1> QED BY <1>1, <1>2, <1>3, <1>4, LoopEndsKeeps DEF CapsNext, CapsCallbacks

LEMMA CapsInvInit == ASSUME WebInit("admin.html"), CapsInit PROVE CapsInv
<1>1. /\ Waits /\ loop = NoLoop /\ form = List /\ capmaps = {} /\ newcapmaps = <<>>
      /\ delcaps = <<>> /\ dbrows = Rows /\ kind \in {"dcs", "envs"}
      /\ dbmaps = [i \in Rows |-> [row |-> i, cap |-> FirstCap]]
      /\ \A q \in Slots : net[q] = NoRequest
  BY DEF WebInit, CapsInit, Waits, OneInv, Idle
<1>2. FirstCap \in Caps
  BY CapsAssumption DEF FirstCap
<1>3. CapsTypeOK
  BY <1>1, <1>2, NoneLeft DEF CapsTypeOK
<1>4. Numbered(dbmaps)
  <2>1. DOMAIN dbmaps \subseteq 1 .. NRows
    BY <1>1 DEF Rows
  <2> QED BY <2>1, CapsAssumption DEF Numbered
<1>5. CapsTyped
  BY <1>1, <1>3, <1>4, RowIds, NoneLeft DEF CapsTyped, CapsLoopTyped
<1>6. CapsSeen
  BY <1>1, RowIds, NoneLeft DEF CapsSeen, CapsLoopSeen
<1> QED BY <1>1, <1>5, <1>6 DEF CapsInv

-----------------------------------------------------------------------------
(***************************************************************************)
(* The pages together: a page that is not shown keeps what it had, and a   *)
(* loop of synchronous calls is one of the page that is shown.             *)
(***************************************************************************)

FormsInv ==
    /\ page \in AllPages
    /\ IF page = "rows" THEN CapsInv ELSE CapsTypeOK
    /\ IF page = "users" THEN UserInv ELSE UserTypeOK
    /\ IF page = "workers" THEN WorkerTyped ELSE WorkerTypeOK
    /\ IF page = "scripts" THEN ScriptInv ELSE ScriptTypeOK
    /\ LoginTypeOK
    /\ page \notin {"rows", "users"} => loop = NoLoop
    /\ PagesInv

LEMMA FormsInvInit == ConsoleInit => FormsInv
<1> SUFFICES ASSUME ConsoleInit PROVE FormsInv
  OBVIOUS
<1>1. /\ CapsInit /\ UserInit /\ page \in AllPages /\ loop = NoLoop
      /\ page \in {"rows", "users"} => WebInit("admin.html")
  BY DEF ConsoleInit, WebInit
<1>2. CapsTypeOK /\ (page = "rows" => CapsInv)
  <2>1. CapsTypeOK
    <3>1. FirstCap \in Caps
      BY CapsAssumption DEF FirstCap
    <3> QED BY <1>1, <3>1 DEF CapsInit, CapsTypeOK
  <2> QED BY <1>1, <2>1, CapsInvInit
<1>3. UserTypeOK /\ (page = "users" => UserInv)
  <2>1. UserTypeOK
    BY <1>1, UserAssumption DEF UserInit, UserTypeOK, NoPerms, Envs
  <2> QED BY <1>1, <2>1, UserInvInit
<1>4. WorkerTyped /\ ScriptInv
  BY WorkerTypedInit, ScriptInvInit
<1>5. WorkerTypeOK /\ ScriptTypeOK
  BY <1>4 DEF WorkerTyped, ScriptInv, ScriptTyped
<1>6. LoginTypeOK
  <2>1. userid \in Logins
    BY Zenon, LoginTypedMeans DEF ConsoleInit, LoginInit
  <2>2. guid = 0 /\ lastguid = 0 /\ DOMAIN dbsessions = {}
    BY DEF ConsoleInit, LoginInit
  <2>3. pageurl \in Pages \cup {"login.html"}
    BY DEF ConsoleInit, WebInit, Pages
  <2>4. LoginTyped
    BY <2>1, <2>2, <2>3 DEF LoginTyped
  <2> QED BY <2>4, LoginTypedMeans
<1> QED BY <1>1, <1>2, <1>3, <1>4, <1>5, <1>6, PagesInvInit DEF FormsInv

(* These pages have no synchronous calls.                                  *)
LEMMA NoLoopHere ==
    ASSUME loop = NoLoop, WorkerNext \/ ScriptNext \/ PluginNext \/ ListNext \/ LoginNext
    PROVE  UNCHANGED loop
<1>1. ASSUME ServerFaults PROVE UNCHANGED loop
  BY <1>1 DEF ServerFaults, Expire, Refuse401, Break
<1>2. ASSUME UserActs PROVE UNCHANGED loop
  BY <1>2, Acted DEF UserActs
<1>3. ASSUME NEW s, NEW st, NEW d, Answer(s, st, d) PROVE UNCHANGED loop
  BY <1>3 DEF Answer
<1>4. ASSUME NEW s, Callback(s) PROVE UNCHANGED loop
  BY <1>4 DEF Callback
<1>5. ASSUME NEW s, NEW b, ErrorCallback(s, b) PROVE UNCHANGED loop
  BY <1>5 DEF ErrorCallback
<1>6. CASE WorkerNext
  <2>1. CASE WorkerUser
    BY <1>2, <2>1 DEF WorkerUser, Edit_WorkerModal, Ok, Cancel
  <2>2. CASE WorkerServer
    BY <1>1, <1>3, <2>2 DEF WorkerServer, ServeGet, ServeAdd, ServeSave, ServeUpdate
  <2>3. CASE WorkerCallbacks
    BY <1>4, <1>5, <2>3 DEF WorkerCallbacks, WorkerArrives, WorkerSaved, WorkerRequestFails
  <2> QED BY <1>6, <2>1, <2>2, <2>3 DEF WorkerNext
<1>7. CASE ScriptNext
  <2>1. CASE ScriptUser
    BY <1>2, <2>1 DEF ScriptUser, EditScript, CloseScript, AddScript, handleFileSelect,
       AddScriptApply, EditScriptApply, DownloadFile
  <2>2. CASE ScriptServer
    BY <1>1, <1>3, <2>2 DEF ScriptServer, ServeScripts, ServeAddScript, ServeUpdateScript
  <2>3. CASE ScriptCallbacks
    BY <1>4, <1>5, <2>3 DEF ScriptCallbacks, ScriptsArrive, FileRead, SourceArrives, ScriptSaved,
       ScriptRequestFails
  <2> QED BY <1>7, <2>1, <2>2, <2>3 DEF ScriptNext
<1>8. CASE PluginNext
  <2>1. CASE PluginUser
    BY <1>2, <2>1 DEF PluginUser, AddPlugin, RestAddPlugin, DeletePlugin, DeleteRepo
  <2>2. CASE PluginServer
    BY <1>1, <1>3, <2>2 DEF PluginServer, ServePlugins, ServeAvail, Serves, InstallCheck,
       InstallClone, DeleteCheck, DeletePluginAndFiles, DeleteRepoAndFile, ScriptAddsPlugin,
       AddFileName, AddFileChecked, AddFileSave, InstallEnds, webVars
  <2>3. CASE PluginCallbacks
    BY <1>4, <1>5, <2>3 DEF PluginCallbacks, PluginsArrive, AvailArrives, PluginInstalled,
       Deleted, PluginRequestFails
  <2> QED BY <1>8, <2>1, <2>2, <2>3 DEF PluginNext
<1>9. CASE ListNext
  <2>1. CASE ListUser
    BY <1>2, <2>1 DEF ListUser, dialog, Delete, AddCapability, editdialog, Type, UpdateCap
  <2>2. CASE ListServer
    BY <1>1, <1>3, <2>2 DEF ListServer, ServeFill, ServeWrite, Write
  <2>3. CASE ListCallbacks
    BY <1>4, <1>5, <2>3 DEF ListCallbacks, ListArrives, ListWritten, ListRequestFails
  <2> QED BY <1>9, <2>1, <2>2, <2>3 DEF ListNext
<1>10. CASE LoginNext
  <2>1. CASE LoginUser
    BY <2>1, Acted DEF LoginUser, TypeLogin, dologin, Fill, Logout
  <2>2. CASE LoginServer
    BY <1>3, <2>2 DEF LoginServer, DoLogin, CheckLogin, SessionExpires, Expire, Break
  <2>3. CASE LoginCallbacks
    BY <1>4, <1>5, <2>3 DEF LoginCallbacks, LoginArrives, LoginFails, FillArrives, FillFails,
       LogoutArrives
  <2> QED BY <1>10, <2>1, <2>2, <2>3 DEF LoginNext
<1> QED BY <1>6, <1>7, <1>8, <1>9, <1>10

LEMMA FormsInvNext ==
    ASSUME FormsInv, [ConsoleNext]_consoleVars
    PROVE  FormsInv'
<1>1. UNCHANGED page
  BY DEF ConsoleNext, CapsStep, UserStep, WorkerStep, ScriptStep, PluginStep, ListStep, LoginStep,
     consoleVars
<1>2. PagesInv'
  BY PagesInvNext DEF FormsInv
<1>3. WebMove
  <2>1. CASE CapsStep
    BY <2>1, CapsInvNext DEF CapsStep, FormsInv, CapsKept
  <2>2. CASE UserStep
    BY <2>2, UserInvNext DEF UserStep, FormsInv
  <2>3. CASE WorkerStep
    BY <2>3, WorkerTypedNext DEF WorkerStep, FormsInv
  <2>4. CASE ScriptStep
    BY <2>4, ScriptInvNext DEF ScriptStep, FormsInv
  <2>5. CASE PluginStep
    BY <2>5, PluginsInvNext DEF PluginStep, FormsInv, PagesInv
  <2>6. CASE ListStep
    BY <2>6, ListInvNext DEF ListStep, FormsInv, PagesInv
  <2>7. CASE LoginStep
    BY <2>7, LoginInvNext DEF LoginStep, FormsInv, PagesInv
  <2>8. CASE UNCHANGED consoleVars
    BY <2>8 DEF consoleVars, webVars, WebMove, InLoop
  <2> QED BY <2>1, <2>2, <2>3, <2>4, <2>5, <2>6, <2>7, <2>8 DEF ConsoleNext
<1>4. (IF page = "rows" THEN CapsInv ELSE CapsTypeOK)'
  <2>1. CASE CapsStep
    BY <1>1, <2>1, CapsInvNext DEF CapsStep, FormsInv, CapsKept
  <2>2. CASE page # "rows" /\ UNCHANGED capsVars
    BY <1>1, <2>2 DEF FormsInv, capsVars, CapsTypeOK
  <2>3. CASE page = "rows" /\ UNCHANGED consoleVars
    <3>1. /\ UNCHANGED <<hasty, loop, dbmaps, net, pageurl, session, broke>>
          /\ UNCHANGED <<kind, form, obj, capmaps, newcapmaps, delcaps, slips, dbrows>>
      BY <2>3 DEF consoleVars, webVars, capsVars
    <3>2. CapsInv /\ dbrows \subseteq Rows \cup {NewRow}
      BY <2>3, FormMeans DEF FormsInv, CapsInv
    <3>3. \A q \in Slots : net'[q] # NoRequest => CapsRequest(net[q])'
      BY <3>1, <3>2 DEF CapsInv, CapsRequest
    <3>4. Patient' => Patient
      BY Zenon, <3>1 DEF Patient
    <3>5. ~hasty /\ CapsSeen => \A q \in Slots : net'[q] # NoRequest => CapsFlight(net[q])'
      <4>1. UNCHANGED MapsOf(form)
        BY <3>1 DEF MapsOf
      <4> QED BY <3>1, <3>4, <4>1 DEF CapsSeen, CapsFlight, Saves
    <3>6. NoMaps' => NoMaps
      BY <3>1 DEF NoMaps
    <3> QED BY <1>1, <1>3, <2>3, <3>1, <3>2, <3>3, <3>5, <3>6, CapsStays
  <2> QED BY <2>1, <2>2, <2>3 DEF ConsoleNext, UserStep, WorkerStep, ScriptStep, PluginStep,
         ListStep, LoginStep, consoleVars
<1>5. (IF page = "users" THEN UserInv ELSE UserTypeOK)'
  <2>1. CASE UserStep
    BY <1>1, <2>1, UserInvNext DEF UserStep, FormsInv
  <2>2. CASE page # "users" /\ UNCHANGED userVars
    BY <1>1, <2>2 DEF FormsInv, userVars, UserTypeOK
  <2>3. CASE page = "users" /\ UNCHANGED consoleVars
    <3>1. UNCHANGED <<hasty, loop, net, pageurl, session, broke, edituser, envs, dbusers, dbperms>>
      BY <2>3 DEF consoleVars, webVars, userVars
    <3>2. UserInv /\ dbusers \subseteq Users \cup {NewUser}
      BY <2>3 DEF FormsInv, UserInv, UserTyped, UserTypeOK
    <3>3. \A q \in Slots : net'[q] # NoRequest => UserRequest(net[q])'
      BY <3>1, <3>2 DEF UserInv, UserRequest
    <3>4. Patient' => Patient
      BY Zenon, <3>1 DEF Patient
    <3>5. ~hasty /\ UserSeen => \A q \in Slots : net'[q] # NoRequest => UserFlight(net[q])'
      <4>1. (Form => Form') /\ UNCHANGED PermIds(edituser)
        BY <3>1, <3>4, SameForm DEF PermIds
      <4>2. \A i : UNCHANGED Copied(i)
        BY <3>1 DEF Copied
      <4>3. (\A e \in Envs : ~Has(NewUser, e)) => (\A e \in Envs : ~Has(NewUser, e))'
        BY <3>1 DEF Has, PermIds
      <4> QED BY <3>1, <3>4, <4>1, <4>2, <4>3 DEF UserSeen, UserFlight
    <3>6. ~hasty /\ UserSeen /\ Idle' /\ loop = NoLoop /\ pageurl' = "admin.html"
            /\ edituser # UserList => Form
      BY <3>1 DEF UserSeen, Idle
    <3> QED BY <1>1, <1>3, <2>3, <3>1, <3>2, <3>3, <3>5, <3>6, UserStays
  <2> QED BY <2>1, <2>2, <2>3 DEF ConsoleNext, CapsStep, WorkerStep, ScriptStep, PluginStep,
         ListStep, LoginStep, consoleVars
<1>6. (IF page = "workers" THEN WorkerTyped ELSE WorkerTypeOK)'
  <2>1. CASE WorkerStep
    BY <1>1, <2>1, WorkerTypedNext DEF WorkerStep, FormsInv
  <2>2. CASE page # "workers" /\ UNCHANGED workerVars
    BY <1>1, <2>2 DEF FormsInv, workerVars, WorkerTypeOK
  <2>3. CASE page = "workers" /\ UNCHANGED consoleVars
    <3>1. UNCHANGED <<worker, dialogs, dbworkers, net>> /\ WorkerTyped
      BY <2>3 DEF FormsInv, consoleVars, webVars, workerVars
    <3>2. Waits'
      BY <1>3, <3>1, WaitsNext DEF WorkerTyped
    <3>3. \A q \in Slots : net'[q] # NoRequest => WorkerRequest(net[q])'
      BY <3>1 DEF WorkerTyped, WorkerRequest
    <3> QED BY <1>1, <2>3, <3>1, <3>2, <3>3 DEF WorkerTyped, WorkerTypeOK
  <2> QED BY <2>1, <2>2, <2>3 DEF ConsoleNext, CapsStep, UserStep, ScriptStep, PluginStep,
         ListStep, LoginStep, consoleVars
<1>7. (IF page = "scripts" THEN ScriptInv ELSE ScriptTypeOK)'
  <2>1. CASE ScriptStep
    BY <1>1, <2>1, ScriptInvNext DEF ScriptStep, FormsInv
  <2>2. CASE page # "scripts" /\ UNCHANGED scriptVars
    BY <1>1, <2>2 DEF FormsInv, scriptVars, ScriptTypeOK
  <2>3. CASE page = "scripts" /\ UNCHANGED consoleVars
    <3>1. UNCHANGED <<scriptVars, net, hasty, session, broke>> /\ ScriptInv
      BY <2>3 DEF FormsInv, consoleVars, webVars
    <3>2. Waits' /\ (Patient' => Patient)
      BY <1>3, <3>1, WaitsNext DEF ScriptInv
    <3>3. ScriptInv'
      BY <3>1, <3>2 DEF ScriptInv, ScriptTyped, ScriptTypeOK, ScriptRequest, ScriptSeen, Idle,
         FormSeen, ScriptFlightOf, scriptVars
    <3> QED BY <1>1, <2>3, <3>3
  <2> QED BY <2>1, <2>2, <2>3 DEF ConsoleNext, CapsStep, UserStep, WorkerStep, PluginStep,
         ListStep, LoginStep, consoleVars
<1>8. LoginTypeOK'
  <2>1. CASE page = "login"
    <3>1. LoginInv'
      BY <1>1, <1>2, <2>1 DEF PagesInv
    <3>2. LoginTyped'
      BY <3>1 DEF LoginInv
    <3> QED BY Zenon, <3>2 DEF LoginTyped, LoginTypeOK, Logins
  <2>2. CASE page # "login"
    <3>1. UNCHANGED loginVars
      BY <2>2 DEF ConsoleNext, CapsStep, UserStep, WorkerStep, ScriptStep, PluginStep, ListStep,
         LoginStep, consoleVars
    <3>2. pageurl' \in Pages \cup {"login.html"}
      <4>1. pageurl \in Pages \cup {"login.html"}
        BY Zenon DEF FormsInv, LoginTypeOK
      <4> QED BY <1>3, <4>1 DEF WebMove, Pages
    <3> QED BY Zenon, <3>1, <3>2 DEF FormsInv, LoginTypeOK, loginVars
  <2> QED BY <2>1, <2>2
<1>9. (page \notin {"rows", "users"} => loop = NoLoop)'
  <2> SUFFICES ASSUME page \notin {"rows", "users"} PROVE loop' = NoLoop
    BY <1>1
  <2>1. loop = NoLoop
    BY DEF FormsInv
  <2>2. \/ WorkerNext \/ ScriptNext \/ PluginNext \/ ListNext \/ LoginNext
        \/ UNCHANGED loop
    BY DEF ConsoleNext, CapsStep, UserStep, WorkerStep, ScriptStep, PluginStep, ListStep,
       LoginStep, consoleVars, webVars
  <2> QED BY <2>1, <2>2, NoLoopHere
<1> QED BY <1>1, <1>2, <1>4, <1>5, <1>6, <1>7, <1>8, <1>9 DEF FormsInv

LEMMA FormsInvMeans == FormsInv => ConsoleTypeOK
<1> SUFFICES ASSUME FormsInv PROVE ConsoleTypeOK
  OBVIOUS
<1>1. CapsTypeOK
  BY DEF FormsInv, CapsInv, CapsTyped
<1>2. UserTypeOK
  BY DEF FormsInv, UserInv, UserTyped
<1>3. WorkerTypeOK
  BY DEF FormsInv, WorkerTyped
<1>4. ScriptTypeOK
  BY DEF FormsInv, ScriptInv, ScriptTyped
<1>5. PluginTypeOK
  BY PluginInvMeans DEF FormsInv, PagesInv
<1>6. ListTypeOK
  BY ListInvMeans DEF FormsInv, PagesInv
<1>7. LoginTypeOK
  BY DEF FormsInv
<1> QED BY <1>1, <1>2, <1>3, <1>4, <1>5, <1>6, <1>7 DEF ConsoleTypeOK

(* The other pages have no request that saves a script.                    *)
LEMMA NoPutScript ==
    ASSUME FormsInv, Patient, page # "scripts", NEW s \in Slots
    PROVE  ~Arrived(s, "putscript")
<1> SUFFICES ASSUME net[s] # NoRequest PROVE net[s].op # "putscript"
  BY DEF Arrived
<1>1. ~hasty
  BY Zenon DEF Patient
<1>2. CASE page = "rows"
  BY <1>2 DEF FormsInv, CapsInv, CapsRequest
<1>3. CASE page = "users"
  BY <1>3 DEF FormsInv, UserInv, UserRequest
<1>4. CASE page = "workers"
  BY <1>4 DEF FormsInv, WorkerTyped, WorkerRequest
<1>5. CASE page = "plugins"
  BY <1>5 DEF FormsInv, PagesInv, PluginsInv, PluginSeen, PluginFlight
<1>6. CASE page = "lists"
  BY <1>6 DEF FormsInv, PagesInv, ListInv, ListRequest
<1>7. CASE page = "login"
  BY <1>7 DEF FormsInv, PagesInv, LoginInv, LoginRequest
<1> QED BY <1>2, <1>3, <1>4, <1>5, <1>6, <1>7 DEF FormsInv, AllPages

(* What SourceChosen asks of a step.                                       *)
SourceKept ==
    Patient =>
      /\ ScriptKept
      /\ \A s \in Slots :
           Arrived(s, "putscript") /\ net[s].st = "ok" /\ ScriptSaved(s) /\ chosen # None
              => dbscripts[net[s].arg.script] = chosen

LEMMA SourceStep ==
    ASSUME FormsInv, [ConsoleNext]_consoleVars
    PROVE  SourceKept
<1> SUFFICES ASSUME Patient PROVE SourceKept
  BY DEF SourceKept
<1>1. ScriptKept
  <2>1. CASE ScriptStep
    BY <2>1, ScriptInvNext DEF ScriptStep, FormsInv
  <2>2. CASE UNCHANGED scriptVars
    BY <2>2 DEF scriptVars, ScriptKept
  <2> QED BY <2>1, <2>2 DEF ConsoleNext, CapsStep, UserStep, WorkerStep, PluginStep, ListStep,
         LoginStep, consoleVars
<1>2. ASSUME NEW s \in Slots, Arrived(s, "putscript"), net[s].st = "ok", chosen # None
      PROVE  dbscripts[net[s].arg.script] = chosen
  <2>1. page = "scripts"
    BY <1>2, NoPutScript
  <2>2. ScriptFlightOf(net[s])
    BY <1>2, <2>1 DEF FormsInv, ScriptInv, ScriptSeen, Arrived
  <2> QED BY <1>2, <2>2 DEF ScriptFlightOf, Arrived
<1> QED BY <1>1, <1>2 DEF SourceKept

(* A loop is about the page it is on.                                      *)
LEMMA LoopOfPage ==
    ASSUME FormsInv, loop # NoLoop
    PROVE  page \in {"rows", "users"} /\ loop.page = page
<1>1. page \in {"rows", "users"}
  BY DEF FormsInv
<1>2. CASE page = "rows"
  <2>1. CapsInv
    BY <1>2 DEF FormsInv
  <2>2. PICK ed \in BOOLEAN, P \in Seq(News), D \in Seq(Dels) : \E r : loop = Saving(ed, r, P, D)
    BY <2>1 DEF CapsInv, CapsTyped, CapsLoopTyped
  <2>3. loop.page = "rows"
    BY <2>2, CapsLoopMeans
  <2> QED BY <1>2, <2>3
<1>3. CASE page = "users"
  <2>1. PICK ed \in BOOLEAN, po \in BOOLEAN, u \in dbusers, e \in Envs :
          \E arr : loop = AtEnv(ed, u, arr, e, po)
    BY <1>3 DEF FormsInv, UserInv, UserTyped, LoopTyped
  <2>2. loop.page = "users"
    BY <2>1 DEF AtEnv
  <2> QED BY <1>3, <2>2
<1> QED BY <1>1, <1>2, <1>3

(* What PermsOwn and PermsSaved ask of a step.                             *)
PermsLoopSaved ==
    Patient' /\ loop # NoLoop /\ loop' = NoLoop /\ loop.page = "users" =>
        \A e \in Envs :
            \/ AllowedBy(dbperms', loop.user, e) = envs[e].on
            \/ envs[e].id = 0 /\ Has(loop.user, e)

LEMMA PermsStep ==
    ASSUME FormsInv, [ConsoleNext]_consoleVars
    PROVE  (~hasty => UserOwn) /\ PermsLoopSaved
<1>1. CASE UserStep
  <2>1. UserInv /\ UserNext
    BY <1>1 DEF UserStep, FormsInv
  <2>2. UserInv' /\ WebMove /\ (~hasty => UserOwn /\ UserSaved)
    BY <2>1, UserInvNext
  <2>3. Patient' => Patient /\ ~hasty
    BY Zenon, <2>1, <2>2, WaitsNext DEF UserInv, Patient
  <2>4. ASSUME Patient', loop # NoLoop, loop' = NoLoop, NEW e \in Envs
        PROVE  \/ AllowedBy(dbperms', loop.user, e) = envs[e].on
               \/ envs[e].id = 0 /\ Has(loop.user, e)
    <3>1. SavedNow(loop.user, e)
      BY <2>2, <2>3, <2>4 DEF UserSaved
    <3>2. envs[e].on \in BOOLEAN
      BY <2>1, <2>3, <2>4 DEF UserInv, UserSeen, PermsTyped
    <3>3. AllowedBy(dbperms', loop.user, e) \in BOOLEAN
      BY Zenon DEF AllowedBy
    <3> QED BY Zenon, <3>1, <3>2, <3>3 DEF SavedNow
  <2> QED BY <2>2, <2>4 DEF PermsLoopSaved
<1>2. CASE page # "users" /\ UNCHANGED userVars
  <2>1. UserOwn
    BY <1>2 DEF userVars, UserOwn
  <2>2. PermsLoopSaved
    BY <1>2, LoopOfPage DEF PermsLoopSaved
  <2> QED BY <2>1, <2>2
<1>3. CASE UNCHANGED consoleVars
  <2>1. UNCHANGED <<dbperms, loop>>
    BY <1>3 DEF consoleVars, webVars, userVars
  <2> QED BY <2>1 DEF UserOwn, PermsLoopSaved
<1> QED BY <1>1, <1>2, <1>3
    DEF ConsoleNext, CapsStep, WorkerStep, ScriptStep, PluginStep, ListStep, LoginStep

(* What CapsOwn and CapsSaved ask of a step.                               *)
MapsLoopSaved ==
    Patient' /\ loop # NoLoop /\ loop' = NoLoop /\ loop.page = "rows" /\ loop.edit /\ slips = {} =>
        CapsIn(MapsOf(form)) = CapsIn(capmaps)

LEMMA MapsStep ==
    ASSUME FormsInv, [ConsoleNext]_consoleVars
    PROVE  (~hasty => CapsStepOwn) /\ MapsLoopSaved
<1>1. CASE CapsStep
  <2>1. CapsInv /\ CapsNext
    BY <1>1 DEF CapsStep, FormsInv
  <2>2. CapsInv' /\ WebMove /\ (~hasty => CapsStepOwn /\ CapsStepSaved)
    BY <2>1, CapsInvNext DEF CapsKept
  <2>3. Patient' => ~hasty
    BY Zenon, <2>1, <2>2, WaitsNext DEF CapsInv, Patient
  <2> QED BY <2>2, <2>3 DEF CapsStepSaved, MapsLoopSaved
<1>2. CASE page # "rows" /\ UNCHANGED capsVars
  <2>1. CapsStepOwn
    BY <1>2 DEF capsVars, CapsStepOwn
  <2>2. MapsLoopSaved
    BY <1>2, LoopOfPage DEF MapsLoopSaved
  <2> QED BY <2>1, <2>2
<1>3. CASE UNCHANGED consoleVars
  <2>1. UNCHANGED <<dbmaps, loop>>
    BY <1>3 DEF consoleVars, webVars, capsVars
  <2> QED BY <2>1 DEF CapsStepOwn, MapsLoopSaved
<1> QED BY <1>1, <1>2, <1>3
    DEF ConsoleNext, UserStep, WorkerStep, ScriptStep, PluginStep, ListStep, LoginStep

-----------------------------------------------------------------------------
(* What a page keeps in $scope stays what its templates expect, and the    *)
(* tables of the server keep their references, of whatever page it is and  *)
(* however hasty the user.                                                 *)
THEOREM ConsoleTypes == ConsoleSpec => []ConsoleTypeOK
<1>1. ConsoleInit => FormsInv
  BY FormsInvInit
<1>2. FormsInv /\ [ConsoleNext]_consoleVars => FormsInv'
  BY FormsInvNext
<1>3. FormsInv => ConsoleTypeOK
  BY FormsInvMeans
<1> QED BY <1>1, <1>2, <1>3, PTL DEF ConsoleSpec

(* What the server saves of a patient user's script is the file that was   *)
(* chosen in the form that is shown, although FileReader reads it later    *)
(* and into a place that all forms share.                                  *)
THEOREM ScriptsAreTheChosen == ConsoleSpec => SourceChosen
<1>1. ConsoleInit => FormsInv
  BY FormsInvInit
<1>2. FormsInv /\ [ConsoleNext]_consoleVars => FormsInv'
  BY FormsInvNext
<1>3. FormsInv /\ [ConsoleNext]_consoleVars =>
        [Patient =>
           /\ \A i \in DOMAIN dbscripts' :
                \/ i \in DOMAIN dbscripts /\ dbscripts'[i] = dbscripts[i]
                \/ i = editscript /\ dbscripts'[i] = chosen
                \/ i = NewScript /\ editscript = AddScriptForm /\ chosen \in {dbscripts'[i], None}
           /\ \A s \in Slots :
                Arrived(s, "putscript") /\ net[s].st = "ok" /\ ScriptSaved(s) /\ chosen # None
                   => dbscripts[net[s].arg.script] = chosen
        ]_<<webVars, scriptVars>>
  BY SourceStep DEF SourceKept, ScriptKept
<1> QED BY <1>1, <1>2, <1>3, PTL DEF ConsoleSpec, SourceChosen

(* Of a user who waits for the answers, a form's loop of calls changes the *)
(* permissions of the form's user and no other's, although the list and    *)
(* its permissions arrive long after the form has opened.                  *)
THEOREM PermissionsOfTheForm == ConsoleSpec => PermsOwn
<1>1. ConsoleInit => FormsInv
  BY FormsInvInit
<1>2. FormsInv /\ [ConsoleNext]_consoleVars => FormsInv'
  BY FormsInvNext
<1>3. FormsInv /\ [ConsoleNext]_consoleVars =>
        [~hasty =>
           \A i \in DOMAIN dbperms' :
              \/ i \in DOMAIN dbperms /\ dbperms'[i] = dbperms[i]
              \/ dbperms'[i].user = loop.user /\ loop.user = IF loop.edit THEN edituser ELSE NewUser
        ]_<<webVars, userVars>>
  BY PermsStep DEF UserOwn
<1> QED BY <1>1, <1>2, <1>3, PTL DEF ConsoleSpec, PermsOwn

(* When a patient user's loop over the environments ends, the user is      *)
(* allowed exactly where the form has ticked, but for a box that was       *)
(* ticked and applied before: it has a row and still no Id.                *)
THEOREM PermissionsAreSaved == ConsoleSpec => PermsSaved
<1>1. ConsoleInit => FormsInv
  BY FormsInvInit
<1>2. FormsInv /\ [ConsoleNext]_consoleVars => FormsInv'
  BY FormsInvNext
<1>3. FormsInv /\ [ConsoleNext]_consoleVars =>
        [Patient' /\ loop # NoLoop /\ loop' = NoLoop /\ loop.page = "users" =>
           \A e \in Envs :
              \/ AllowedBy(dbperms', loop.user, e) = envs[e].on
              \/ envs[e].id = 0 /\ Has(loop.user, e)
        ]_<<webVars, userVars>>
  BY PermsStep DEF PermsLoopSaved
<1> QED BY <1>1, <1>2, <1>3, PTL DEF ConsoleSpec, PermsSaved

(* Of a user who waits for the answers, the calls of EditRowApply and      *)
(* AddRowApply add to and remove from the row that was applied, but for    *)
(* what the environments' form has kept of another one.                    *)
THEOREM MapsOfTheForm == ConsoleSpec => CapsOwn
<1>1. ConsoleInit => FormsInv
  BY FormsInvInit
<1>2. FormsInv /\ [ConsoleNext]_consoleVars => FormsInv'
  BY FormsInvNext
<1>3. FormsInv /\ [ConsoleNext]_consoleVars =>
        [~hasty /\ loop # NoLoop =>
           /\ \A i \in DOMAIN dbmaps' \ DOMAIN dbmaps :
                  Head(loop.posts).for = IF loop.edit THEN dbmaps'[i].row ELSE Add
           /\ \A i \in DOMAIN dbmaps \ DOMAIN dbmaps' :
                  \/ dbmaps[i].row = loop.row
                  \/ kind = "envs" /\ Head(loop.dels).kept
        ]_<<webVars, capsVars>>
  BY MapsStep DEF CapsStepOwn
<1> QED BY <1>1, <1>2, <1>3, PTL DEF ConsoleSpec, CapsOwn

(* When a patient user's EditRowApply is over, however it ends, the server *)
(* has the capabilities that the form shows, but for the forms that have   *)
(* already slipped.                                                        *)
THEOREM MapsAreSaved == ConsoleSpec => CapsSaved
<1>1. ConsoleInit => FormsInv
  BY FormsInvInit
<1>2. FormsInv /\ [ConsoleNext]_consoleVars => FormsInv'
  BY FormsInvNext
<1>3. FormsInv /\ [ConsoleNext]_consoleVars =>
        [Patient' /\ loop # NoLoop /\ loop' = NoLoop /\ loop.page = "rows"
           /\ loop.edit /\ slips = {} =>
           CapsIn(MapsOf(form)) = CapsIn(capmaps)
        ]_<<webVars, capsVars>>
  BY MapsStep DEF MapsLoopSaved
<1> QED BY <1>1, <1>2, <1>3, PTL DEF ConsoleSpec, CapsSaved
=============================================================================
