----------------------------- MODULE PluginPage -----------------------------
(***************************************************************************)
(* Installing plugins: the page, plugins.js, and what the server does for  *)
(* it.  AddRepoPlugin clones the plugin's repository and runs the script   *)
(* install_plugin.sh that comes with it, which registers the plugin and    *)
(* its files with calls of the server's own API, one after the other,      *)
(* while the page may delete plugins and repositories.                     *)
(***************************************************************************)
EXTENDS WebPage, FiniteSets

CONSTANTS
    NPlugins,  \* the number of plugins the repositories offer
    NFiles     \* the number of files of a plugin

ASSUME PluginAssumption == NPlugins \in Nat /\ NFiles \in Nat

Names == 1 .. NPlugins
FileNames == 1 .. NFiles

VARIABLES
    adding,     \* $scope.addplugins: the form, or else the list of plugins
    avail,      \* $scope.pluginsAvail
    meta,       \* $scope.pluginsAvailMeta: [index -> Disabled]
    shown,      \* $scope.plugins: their Ids
    cachemutex, \* the request whose handler holds it, or None
    script,     \* what the install script has done: see Install below
    dbrepos, dbplugins, dbfiles,  \* the server's tables
    lastplugin, \* the highest id given out; rows of plugins are kept
    whole,      \* history: the plugins whose installation was answered "ok"
    lost,       \* history: the plugins of which DeleteRepo took a file
    late,       \* history: the plugins deleted while AddFile was amid one
    refused     \* history: an installation was refused since avail was read

pageVars == <<adding, avail, meta, shown, refused>>
serverVars == <<cachemutex, script, dbrepos, dbplugins, dbfiles, lastplugin, whole, lost, late>>
pluginVars == <<pageVars, serverVars>>

NoScript == [name |-> 0, plugin |-> 0, file |-> 0, at |-> "none"]

PluginInit ==
    /\ adding = FALSE
    /\ avail = <<>>
    /\ meta = <<>>
    /\ shown = {}
    /\ cachemutex = None
    /\ script = NoScript
    /\ dbrepos = {1, 2}
    /\ dbplugins = [i \in {} |-> 0]
    /\ dbfiles = [i \in {} |-> 0]
    /\ lastplugin = 0
    /\ whole = {}
    /\ lost = {}
    /\ late = {}
    /\ refused = FALSE

Installed == {dbplugins[i] : i \in DOMAIN dbplugins}
Offered == IF dbrepos = {} THEN {} ELSE Names \ Installed
Lists(q, names) ==
    /\ \A i, j \in DOMAIN q : i < j => q[i] < q[j]
    /\ {q[i] : i \in DOMAIN q} = names
FilesOf(i) == {dbfiles[f].name : f \in {g \in DOMAIN dbfiles : dbfiles[g].plugin = i}}

-----------------------------------------------------------------------------
(* The user                                                                *)

AddPlugin(tf) ==
    /\ adding = ~tf
    /\ UserActs
    /\ Send(IF tf THEN "avail" ELSE "fill", 0)
    /\ adding' = tf
    /\ meta' = <<>>
    /\ avail' = IF tf THEN <<>> ELSE avail
    /\ UNCHANGED <<shown, refused, serverVars>>

(* The button is gone while the plugin is "Installing".                    *)
RestAddPlugin(i) ==
    LET longer == IF i > Len(meta) THEN i ELSE Len(meta)
    IN /\ adding
       /\ i \in DOMAIN avail
       /\ ~(i \in DOMAIN meta /\ meta[i])
       /\ UserActs
       /\ Send("install", avail[i])
       /\ meta' = [j \in 1 .. longer |-> j = i \/ (j \in DOMAIN meta /\ meta[j])]
       /\ UNCHANGED <<adding, avail, shown, refused, serverVars>>

DeletePlugin(i) ==
    /\ ~adding
    /\ i \in shown
    /\ UserActs
    /\ Send("delplugin", i)
    /\ UNCHANGED pluginVars

DeleteRepo(r) ==
    /\ ~adding
    /\ r \in dbrepos
    /\ UserActs
    /\ Send("delrepo", r)
    /\ UNCHANGED pluginVars

-----------------------------------------------------------------------------
(* The server                                                              *)

ServePlugins(s) ==
    /\ Awaited(s, "fill")
    /\ Answer(s, "ok", [plugins |-> DOMAIN dbplugins, avail |-> <<>>])
    /\ UNCHANGED pluginVars

(* GetAllRepoPlugins holds cachemutex while it clones the metadata, and    *)
(* lists the plugins in the order of the repositories.                     *)
ServeAvail(s) ==
    /\ Awaited(s, "avail")
    /\ cachemutex = None
    /\ \E q \in [1 .. Cardinality(Offered) -> Offered] :
         Lists(q, Offered) /\ Answer(s, "ok", [plugins |-> {}, avail |-> q])
    /\ UNCHANGED pluginVars

(* The handlers that take several critical sections are in this state      *)
(* after the first of them.                                                *)
Continue(s) == net[s] # NoRequest /\ net[s].st = "running"
Serves(s, st) ==
    /\ net' = Answered(s, st, None)
    /\ UNCHANGED <<pageurl, loop, moves, session, broke, hasty>>

(* AddRepoPlugin: "Record exists."                                         *)
InstallCheck(s) ==
    /\ Awaited(s, "install")
    /\ Answer(s, IF net[s].arg \in Installed THEN "refused" ELSE "running", None)
    /\ UNCHANGED pluginVars

(* It takes cachemutex, looks for the plugin among those that are not      *)
(* installed and clones it; "Plugin not found.", git may fail.             *)
InstallClone(s) ==
    /\ Continue(s)
    /\ net[s].op = "install"
    /\ cachemutex = None
    /\ \/ /\ net[s].arg \in Offered
          /\ cachemutex' = s
          /\ script' = [name |-> net[s].arg, plugin |-> 0, file |-> 0, at |-> "start"]
          /\ UNCHANGED webVars
       \/ Serves(s, "refused") /\ UNCHANGED <<cachemutex, script>>
    /\ UNCHANGED <<pageVars, dbrepos, dbplugins, dbfiles, lastplugin, whole, lost, late>>

(* The script: AddPlugin, then AddFile for each file; a call that is       *)
(* refused ends it, and so may anything else.  AddFile checks the name,    *)
(* then the plugin, then saves.                                            *)
Proceeds(from, to) == script.at = from /\ script' = [script EXCEPT !.at = to]

ScriptAddsPlugin ==
    /\ script.at = "start"
    /\ session
    /\ script.name \notin Installed
    /\ lastplugin' = lastplugin + 1
    /\ dbplugins' = WithRow(dbplugins, lastplugin', script.name)
    /\ script' = [name |-> script.name, plugin |-> lastplugin', file |-> 1, at |-> "call"]
    /\ UNCHANGED <<webVars, pageVars, cachemutex, dbrepos, dbfiles, whole, lost, late>>

AddFileName ==
    /\ script.file \in FileNames
    /\ session
    /\ script.file \notin FilesOf(script.plugin)
    /\ Proceeds("call", "named")
    /\ UNCHANGED <<webVars, pageVars, cachemutex, dbrepos, dbplugins, dbfiles, lastplugin>>
    /\ UNCHANGED <<whole, lost, late>>

(* Mutant of PluginKnown: "Plugin ID not found" is not asked for.          *)
AnyPlugin(i) == i > 0

PluginKnown(i) == i \in DOMAIN dbplugins

AddFileChecked ==
    /\ PluginKnown(script.plugin)
    /\ Proceeds("named", "checked")
    /\ UNCHANGED <<webVars, pageVars, cachemutex, dbrepos, dbplugins, dbfiles, lastplugin>>
    /\ UNCHANGED <<whole, lost, late>>

AddFileSave ==
    /\ script.at = "checked"
    /\ dbfiles' = WithRow(dbfiles, NextId(dbfiles),
                          [plugin |-> script.plugin, name |-> script.file])
    /\ script' = [script EXCEPT !.file = @ + 1, !.at = "call"]
    /\ UNCHANGED <<webVars, pageVars, cachemutex, dbrepos, dbplugins, lastplugin>>
    /\ UNCHANGED <<whole, lost, late>>

(* Mutant of Status: the exit status of the script is not looked at.       *)
AnyStatus(complete) == "ok"

Status(complete) == IF complete THEN "ok" ELSE "refused"

(* Mutant of Unlocked: cachemutex.Unlock() is not deferred.                *)
StillLocked == cachemutex

Unlocked == None

(* The script exits, and cachemutex is released.  The page may have been   *)
(* told already that the connection was lost.                              *)
InstallEnds(complete) ==
    /\ script.at \notin {"none", "checked"}
    /\ complete => script.file = NFiles + 1
    /\ cachemutex' = Unlocked
    /\ script' = NoScript
    /\ IF Continue(cachemutex) THEN Serves(cachemutex, Status(complete)) ELSE UNCHANGED webVars
    /\ whole' = IF Status(complete) = "ok" THEN whole \cup {script.plugin} ELSE whole
    /\ UNCHANGED <<pageVars, dbrepos, dbplugins, dbfiles, lastplugin, lost, late>>

Found(i, ids) == IF i \in ids THEN "running" ELSE "refused"

(* DeletePlugin and DeleteRepo: "Record not found."                        *)
DeleteCheck(s) ==
    /\ \/ Awaited(s, "delplugin") /\ Answer(s, Found(net[s].arg, DOMAIN dbplugins), None)
       \/ Awaited(s, "delrepo") /\ Answer(s, Found(net[s].arg, dbrepos), None)
    /\ UNCHANGED pluginVars

Kept(fs) == [f \in DOMAIN dbfiles \ fs |-> dbfiles[f]]

FilesToo(i) == {f \in DOMAIN dbfiles : dbfiles[f].plugin = i}

DeletePluginAndFiles(s) ==
    LET i == net[s].arg
    IN /\ Continue(s)
       /\ net[s].op = "delplugin"
       /\ Serves(s, "ok")
       /\ dbplugins' = WithoutRow(dbplugins, i)
       /\ dbfiles' = Kept(FilesToo(i))
       /\ late' = IF script.at = "checked" /\ script.plugin = i THEN late \cup {i} ELSE late
       /\ UNCHANGED <<pageVars, cachemutex, script, dbrepos, lastplugin, whole, lost>>

(* The file that is deleted with a repository is the one with its id.      *)
DeleteRepoAndFile(s) ==
    LET r == net[s].arg
    IN /\ Continue(s)
       /\ net[s].op = "delrepo"
       /\ Serves(s, "ok")
       /\ dbrepos' = dbrepos \ {r}
       /\ dbfiles' = Kept({r})
       /\ lost' = IF r \in DOMAIN dbfiles THEN lost \cup {dbfiles[r].plugin} ELSE lost
       /\ UNCHANGED <<pageVars, cachemutex, script, dbplugins, lastplugin, whole, late>>

-----------------------------------------------------------------------------
(* The callbacks                                                           *)

PluginsArrive(s) ==
    /\ Arrived(s, "fill")
    /\ Callback(s)
    /\ shown' = net[s].data.plugins
    /\ UNCHANGED <<adding, avail, meta, refused, serverVars>>

AvailArrives(s) ==
    /\ Arrived(s, "avail")
    /\ Callback(s)
    /\ avail' = net[s].data.avail
    /\ refused' = FALSE
    /\ UNCHANGED <<adding, meta, shown, serverVars>>

(* Array.splice(i - 1, 1): of -1 it is the last element that goes.         *)
Splice(q, i) ==
    LET at == IF i = 0 THEN Len(q) ELSE i
    IN IF at \in DOMAIN q THEN WithoutAt(q, at) ELSE q

IndexOf(n) == IF \E i \in DOMAIN avail : avail[i] = n
              THEN CHOOSE i \in DOMAIN avail : avail[i] = n ELSE 0

PluginInstalled(s) ==
    /\ Arrived(s, "install")
    /\ Callback(s)
    /\ IF net[s].st = "ok"
       THEN /\ avail' = Splice(avail, IndexOf(net[s].arg))
            /\ meta' = Splice(meta, IndexOf(net[s].arg))
            /\ UNCHANGED refused
       ELSE refused' = TRUE /\ UNCHANGED <<avail, meta>>
    /\ UNCHANGED <<adding, shown, serverVars>>

Deleted(s) ==
    /\ Arrived(s, "delplugin") \/ Arrived(s, "delrepo")
    /\ IF net[s].st = "ok" /\ net[s].op = "delplugin"
       THEN /\ SendFrom(Without(s), "fill", 0)
            /\ UNCHANGED <<pageurl, loop, moves, session, broke, hasty>>
       ELSE Callback(s)
    /\ UNCHANGED pluginVars

PluginRequestFails(s) ==
    /\ ErrorCallback(s, net[s].op \in {"fill", "avail", "install"})
    /\ UNCHANGED pluginVars

-----------------------------------------------------------------------------
PluginUser ==
    \/ \E tf \in BOOLEAN : AddPlugin(tf)
    \/ \E i \in DOMAIN avail : RestAddPlugin(i)
    \/ \E i \in shown : DeletePlugin(i)
    \/ \E r \in dbrepos : DeleteRepo(r)

PluginServer ==
    \/ \E s \in Slots : \/ ServePlugins(s) \/ ServeAvail(s) \/ InstallCheck(s) \/ InstallClone(s)
                        \/ DeleteCheck(s) \/ DeletePluginAndFiles(s) \/ DeleteRepoAndFile(s)
    \/ ScriptAddsPlugin \/ AddFileName \/ AddFileChecked \/ AddFileSave
    \/ \E complete \in BOOLEAN : InstallEnds(complete)
    \/ ServerFaults /\ UNCHANGED pluginVars

PluginCallbacks ==
    \E s \in Slots : \/ PluginsArrive(s) \/ AvailArrives(s) \/ PluginInstalled(s)
                     \/ Deleted(s) \/ PluginRequestFails(s)

PluginNext == PluginUser \/ PluginServer \/ PluginCallbacks

-----------------------------------------------------------------------------
PluginTypeOK ==
    /\ cachemutex \in Slots \cup {None}
    /\ cachemutex = None <=> script = NoScript
    /\ script.file \in 0 .. NFiles + 1
    /\ DOMAIN dbplugins \subseteq 1 .. lastplugin
    /\ \A i \in DOMAIN dbplugins : dbplugins[i] \in Names
    /\ \A f \in DOMAIN dbfiles : dbfiles[f].plugin \in 1 .. lastplugin

(* The files that the server gives out belong to a plugin that is          *)
(* installed, whoever deletes plugins while install_plugin.sh adds them;   *)
(* the one exception is the file whose AddFile had just found its plugin   *)
(* when DeletePlugin deleted it.                                           *)
FilesOwned ==
    \A f \in DOMAIN dbfiles : dbfiles[f].plugin \in DOMAIN dbplugins \cup late

(* A plugin whose installation was answered "ok" has all of its files      *)
(* until it is deleted, of however many installations that the page has    *)
(* asked for at a time; the exception is a file that DeleteRepo took.      *)
InstallsWhole ==
    \A i \in whole \cap DOMAIN dbplugins : FilesOf(i) = FileNames \/ i \in lost

(* At rest a patient user is offered the plugins that are not installed,   *)
(* unless an installation was refused: its row may be there and its name   *)
(* still in the list.                                                      *)
AvailShown == Patient /\ ~InFlight /\ adding /\ ~refused => Lists(avail, Offered)
=============================================================================
