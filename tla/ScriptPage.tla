----------------------------- MODULE ScriptPage -----------------------------
(***************************************************************************)
(* The scripts' form, scripts.js.  A file that is chosen is read by a      *)
(* FileReader, whose onload puts it into $scope.file_b64 some time later;  *)
(* AddScriptApply and EditScriptApply send what is there.  A read is in    *)
(* flight as a request is, and one that is "broken" could not read its     *)
(* file.                                                                   *)
(***************************************************************************)
EXTENDS WebPage

CONSTANTS
    Files,    \* the files the admin may choose
    NScripts  \* the scripts there are at first

ASSUME ScriptAssumption == NScripts \in Nat /\ Files # {} /\ None \notin Files

Scripts == 1 .. NScripts
NewScript == NScripts + 1
ScriptList == 0
AddScriptForm == -1

VARIABLES
    editscript,  \* the list, the add form or the script whose form is shown
    scripts,     \* .Source of what is in $scope.scripts, None if it has none
    inlist,      \* $scope.script is one of $scope.scripts
    source,      \* $scope.script.Source
    files,       \* $scope.files.length
    file_b64,    \* $scope.file_b64, None at first
    dbscripts,   \* the server's scripts
    chosen       \* history: the file the user has chosen in this form

scriptVars == <<editscript, scripts, inlist, source, files, file_b64, dbscripts, chosen>>

FirstFile == CHOOSE f \in Files : TRUE
NoSources == [i \in Scripts \cup {NewScript} |-> None]

ScriptInit ==
    /\ editscript = ScriptList
    /\ scripts = NoSources
    /\ inlist = FALSE
    /\ source = None
    /\ files = 0
    /\ file_b64 = None
    /\ dbscripts = [i \in Scripts |-> FirstFile]
    /\ chosen = None

-----------------------------------------------------------------------------
(* The user                                                                *)

AboutScript(i, f) == [script |-> i, source |-> f]

(* Mutant of FilesOnEdit: the file of the form before is kept.             *)
KeepFiles == files

FilesOnEdit == 0

EditScript(i) ==
    /\ editscript = ScriptList
    /\ i \in DOMAIN dbscripts
    /\ UserActs
    /\ Send("fill", AboutScript(0, None))
    /\ editscript' = i
    /\ inlist' = TRUE
    /\ source' = scripts[i]
    /\ files' = FilesOnEdit
    /\ chosen' = None
    /\ UNCHANGED <<scripts, file_b64, dbscripts>>

CloseScript ==
    /\ editscript \in DOMAIN dbscripts
    /\ UserActs
    /\ Send("fill", AboutScript(0, None))
    /\ editscript' = ScriptList
    /\ UNCHANGED <<scripts, inlist, source, files, file_b64, dbscripts, chosen>>

AddScript(tf) ==
    /\ editscript = IF tf THEN ScriptList ELSE AddScriptForm
    /\ UserActs
    /\ editscript' = IF tf THEN AddScriptForm ELSE ScriptList
    /\ inlist' = FALSE
    /\ source' = None
    /\ chosen' = None
    /\ UNCHANGED <<net, scripts, files, file_b64, dbscripts>>

(* "Remove" empties the input field of the page but leaves $scope.files    *)
(* and file_b64 as they are: it is no action here.                         *)
handleFileSelect(f) ==
    /\ editscript # ScriptList
    /\ UserActs
    /\ \E s \in Slots :
        /\ net[s] = NoRequest
        /\ net' = [net EXCEPT ![s] = [op |-> "read", arg |-> AboutScript(0, f),
                                      st |-> "ok", data |-> None]]
    /\ files' = 1
    /\ chosen' = f
    /\ UNCHANGED <<editscript, scripts, inlist, source, file_b64, dbscripts>>

SourceIs(f) ==
    /\ source' = f
    /\ scripts' = IF inlist THEN [scripts EXCEPT ![editscript] = f] ELSE scripts

AddScriptApply ==
    /\ editscript = AddScriptForm
    /\ UserActs
    /\ SourceIs(file_b64)
    /\ Send("addscript", AboutScript(NewScript, file_b64))
    /\ UNCHANGED <<editscript, inlist, files, file_b64, dbscripts, chosen>>

ChosenSource == IF files = 1 THEN file_b64 ELSE source

EditScriptApply ==
    /\ editscript \in DOMAIN dbscripts
    /\ UserActs
    /\ SourceIs(ChosenSource)
    /\ Send("putscript", AboutScript(editscript, ChosenSource))
    /\ UNCHANGED <<editscript, inlist, files, file_b64, dbscripts, chosen>>

(* The eye is shown until a file is chosen, so that the length is never 1. *)
DownloadFile ==
    /\ editscript \in DOMAIN dbscripts
    /\ files = 0
    /\ UserActs
    /\ Send("get", AboutScript(editscript, None))
    /\ UNCHANGED scriptVars

-----------------------------------------------------------------------------
(* The server                                                              *)

ServeScripts(s) ==
    /\ Awaited(s, "fill") \/ Awaited(s, "get")
    /\ Answer(s, "ok", None)
    /\ UNCHANGED scriptVars

(* "Incorrect data format received.", "Record exists."                     *)
ServeAddScript(s) ==
    /\ Awaited(s, "addscript")
    /\ IF net[s].arg.source # None /\ NewScript \notin DOMAIN dbscripts
       THEN /\ Answer(s, "ok", None)
            /\ dbscripts' = WithRow(dbscripts, NewScript, net[s].arg.source)
       ELSE Answer(s, "refused", None) /\ UNCHANGED dbscripts
    /\ UNCHANGED <<editscript, scripts, inlist, source, files, file_b64, chosen>>

(* A script that is sent without its source keeps the one it has.  A name  *)
(* that another script has is refused.                                     *)
ServeUpdateScript(s) ==
    /\ Awaited(s, "putscript")
    /\ \/ /\ Answer(s, "ok", None)
          /\ dbscripts' = IF net[s].arg.source = None THEN dbscripts
                          ELSE [dbscripts EXCEPT ![net[s].arg.script] = net[s].arg.source]
       \/ Answer(s, "refused", None) /\ UNCHANGED dbscripts
    /\ UNCHANGED <<editscript, scripts, inlist, source, files, file_b64, chosen>>

-----------------------------------------------------------------------------
(* The callbacks                                                           *)

ScriptsArrive(s) ==
    /\ Arrived(s, "fill")
    /\ Callback(s)
    /\ scripts' = NoSources
    /\ inlist' = FALSE
    /\ UNCHANGED <<editscript, source, files, file_b64, dbscripts, chosen>>

FileRead(s) ==
    /\ Arrived(s, "read")
    /\ Callback(s)
    /\ file_b64' = net[s].arg.source
    /\ UNCHANGED <<editscript, scripts, inlist, source, files, dbscripts, chosen>>

SourceArrives(s) == Arrived(s, "get") /\ Callback(s) /\ UNCHANGED scriptVars

ScriptSaved(s) ==
    /\ Arrived(s, "putscript") \/ Arrived(s, "addscript")
    /\ IF net[s].st = "ok"
       THEN /\ SendFrom(Without(s), "fill", AboutScript(0, None))
            /\ UNCHANGED <<pageurl, loop, moves, session, broke, hasty>>
       ELSE Callback(s)
    /\ UNCHANGED scriptVars

ScriptRequestFails(s) == ErrorCallback(s, net[s].op = "fill") /\ UNCHANGED scriptVars

-----------------------------------------------------------------------------
ScriptUser ==
    \/ \E i \in Scripts \cup {NewScript} : EditScript(i)
    \/ CloseScript
    \/ \E tf \in BOOLEAN : AddScript(tf)
    \/ \E f \in Files : handleFileSelect(f)
    \/ AddScriptApply
    \/ EditScriptApply
    \/ DownloadFile

ScriptServer ==
    \/ \E s \in Slots : ServeScripts(s) \/ ServeAddScript(s) \/ ServeUpdateScript(s)
    \/ ServerFaults /\ UNCHANGED scriptVars

ScriptCallbacks ==
    \E s \in Slots : \/ ScriptsArrive(s) \/ FileRead(s) \/ SourceArrives(s)
                     \/ ScriptSaved(s) \/ ScriptRequestFails(s)

ScriptNext == ScriptUser \/ ScriptServer \/ ScriptCallbacks

-----------------------------------------------------------------------------
ScriptTypeOK ==
    /\ editscript \in {ScriptList, AddScriptForm} \cup DOMAIN dbscripts
    /\ {source, file_b64, chosen} \subseteq Files \cup {None}
    /\ \A i \in DOMAIN dbscripts : dbscripts[i] \in Files

(* Of a patient user's script the server gets the file that was chosen in  *)
(* the form of this script and no other, although it is read after it was  *)
(* chosen and into a place that all forms share; and when "Changes were    *)
(* applied."  is shown the server has it.  The exception: the add form in  *)
(* which no file was chosen sends the file of the form before.             *)
SourceChosen ==
    [][Patient =>
         /\ \A i \in DOMAIN dbscripts' :
              \/ i \in DOMAIN dbscripts /\ dbscripts'[i] = dbscripts[i]
              \/ i = editscript /\ dbscripts'[i] = chosen
              \/ i = NewScript /\ editscript = AddScriptForm /\ chosen \in {dbscripts'[i], None}
         /\ \A s \in Slots :
              Arrived(s, "putscript") /\ net[s].st = "ok" /\ ScriptSaved(s) /\ chosen # None
                 => dbscripts[net[s].arg.script] = chosen
      ]_<<webVars, scriptVars>>
=============================================================================
