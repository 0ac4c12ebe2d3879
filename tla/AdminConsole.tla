---------------------------- MODULE AdminConsole ----------------------------
(***************************************************************************)
(* The web interface: one of its pages at a time, with the part of the     *)
(* server that it calls.  Which page it is does not change: a page that is *)
(* left takes its $scope with it.                                          *)
(***************************************************************************)
EXTENDS CapsPage, UserPage, WorkerForm, ScriptPage, PluginPage, ListPage, LoginPage

VARIABLE page

consoleVars == <<page, webVars, capsVars, userVars, workerVars,
                 scriptVars, pluginVars, listVars, loginVars>>

AllPages == {"rows", "users", "workers", "scripts", "plugins", "lists", "login"}

(* What a page that is not shown starts with does not matter.              *)
Unseen ==
    /\ page = "rows" \/ kind = "dcs"
    /\ page = "workers" \/ dbworkers = <<>>
    /\ page = "login" \/ (interface = "admin" /\ ~multi)

ConsoleInit ==
    /\ page \in AllPages
    /\ WebInit(IF page = "login" THEN "login.html" ELSE "admin.html")
    /\ CapsInit /\ UserInit /\ WorkerInit /\ ScriptInit
    /\ PluginInit /\ ListInit /\ LoginInit
    /\ Unseen

CapsStep ==
    /\ page = "rows"
    /\ CapsNext
    /\ UNCHANGED <<page, userVars, workerVars, scriptVars, pluginVars, listVars, loginVars>>

UserStep ==
    /\ page = "users"
    /\ UserNext
    /\ UNCHANGED <<page, capsVars, workerVars, scriptVars, pluginVars, listVars, loginVars>>

WorkerStep ==
    /\ page = "workers"
    /\ WorkerNext
    /\ UNCHANGED <<page, capsVars, userVars, scriptVars, pluginVars, listVars, loginVars>>

ScriptStep ==
    /\ page = "scripts"
    /\ ScriptNext
    /\ UNCHANGED <<page, capsVars, userVars, workerVars, pluginVars, listVars, loginVars>>

PluginStep ==
    /\ page = "plugins"
    /\ PluginNext
    /\ UNCHANGED <<page, capsVars, userVars, workerVars, scriptVars, listVars, loginVars>>

ListStep ==
    /\ page = "lists"
    /\ ListNext
    /\ UNCHANGED <<page, capsVars, userVars, workerVars, scriptVars, pluginVars, loginVars>>

LoginStep ==
    /\ page = "login"
    /\ LoginNext
    /\ UNCHANGED <<page, capsVars, userVars, workerVars, scriptVars, pluginVars, listVars>>

ConsoleNext ==
    \/ CapsStep \/ UserStep \/ WorkerStep \/ ScriptStep
    \/ PluginStep \/ ListStep \/ LoginStep

ConsoleSpec == ConsoleInit /\ [][ConsoleNext]_consoleVars

-----------------------------------------------------------------------------
ConsoleTypeOK ==
    /\ CapsTypeOK /\ UserTypeOK /\ WorkerTypeOK /\ ScriptTypeOK
    /\ PluginTypeOK /\ ListTypeOK /\ LoginTypeOK

(* At rest a patient user sees what the server has: the tables of module   *)
(* ListPage, the plugins that can be installed.                            *)
TableShown == ListShown /\ AvailShown

(* At rest a patient user sees the login page if and only if there is no   *)
(* session on the server, and otherwise the page of the user who has it:   *)
(* the page that opens works with the GUID of this login, and a logout     *)
(* that has shown the login page has left nothing behind.                  *)
SessionShown == page = "login" => LoginShown
=============================================================================
