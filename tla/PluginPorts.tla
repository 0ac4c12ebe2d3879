---------------------------- MODULE PluginPorts ----------------------------
(***************************************************************************)
(* The calls of one plugin: a request to its endpoint takes a port from    *)
(* the pool Api.port, compiles the plugin if need be, starts it on that    *)
(* port, gives it a secret data token (a session of sduser), dials it,     *)
(* makes one RPC call, and waits until it has exited.                      *)
(*                                                                         *)
(* A plugin is named by the call that started it.  Ports are numbered from *)
(* 1, which stands for Api.baseport; 0 is what Port returns if none is     *)
(* free.                                                                   *)
(***************************************************************************)
EXTENDS Integers, FiniteSets

CONSTANTS
    Calls,      \* the requests
    NoCall,
    NPorts,     \* how many ports there are (5000)
    MaxSource,  \* how often the source is installed (a bound)
    Events      \* what may happen in this instance: a subset of PortEvents

(* "slow": a plugin does not listen within the 2000 tries;  "die": it      *)
(* dies, or cannot be started;  "body": the body of a request breaks off;  *)
(* "dbfail": a token is not saved or deleted, or there is no sduser;       *)
(* "source": AddRepoPlugin installs other sources.                         *)
PortEvents == {"slow", "die", "body", "dbfail", "source"}

Ports == 1 .. NPorts

ASSUME PortsAssumption ==
    /\ NPorts \in Nat
    /\ MaxSource \in Nat
    /\ NoCall \notin Calls
    /\ Events \subseteq PortEvents

VARIABLES
    pc,        \* [Calls -> where the handler is]
    port,      \* [Calls -> iport]
    body,      \* [Calls -> a body is still to be read]
    taken,     \* the ports p with api.port[p] = 1
    wedged,    \* apimutex was left locked
    holder,    \* who holds api.compile
    source,    \* the version of the plugin's source, 0 if there is none
    building,  \* the version that is being compiled
    exe,       \* the plugin's file: what it was compiled from, and what the
               \* source was when it was written (its ModTime); 0 if there is none
    wanted,    \* history: the version of the source when the call came
    plugin,    \* [Calls -> the process the call started]
    conn,      \* [Calls -> the plugin the call has dialed]
    token      \* [Calls -> its row in table sessions]

compileVars == <<holder, source, building, exe, wanted>>
portVars == <<port, taken, wedged>>
runVars == <<plugin, conn, token>>
vars == <<pc, body, compileVars, portVars, runVars>>

CallState == {"start", "compile", "admincompile", "decide", "admindecide",
              "build", "adminbuild", "run", "token", "dial", "send", "call",
              "waiterr", "drain", "delete", "return", "done"}
PluginState == {"none", "starting", "listening", "called", "replied", "gone"}
TokenState == {"none", "live", "gone", "failed"}

PortsInit ==
    /\ pc = [c \in Calls |-> "start"]
    /\ port = [c \in Calls |-> 0]
    /\ body = [c \in Calls |-> FALSE]
    /\ taken = {} /\ wedged = FALSE
    /\ holder = NoCall /\ building = 0
    /\ source \in 0 .. MaxSource
    /\ exe = [from |-> 0, at |-> 0]
    /\ wanted = [c \in Calls |-> 0]
    /\ plugin = [c \in Calls |-> "none"]
    /\ conn = [c \in Calls |-> NoCall]
    /\ token = [c \in Calls |-> "none"]

PortsTypeOK ==
    /\ pc \in [Calls -> CallState]
    /\ port \in [Calls -> 0 .. NPorts]
    /\ body \in [Calls -> BOOLEAN]
    /\ taken \subseteq Ports /\ wedged \in BOOLEAN
    /\ holder \in Calls \cup {NoCall}
    /\ source \in Nat /\ building \in Nat
    /\ exe \in [from : Nat, at : Nat]
    /\ wanted \in [Calls -> Nat]
    /\ plugin \in [Calls -> PluginState]
    /\ conn \in [Calls -> Calls \cup {NoCall}]
    /\ token \in [Calls -> TokenState]

Goto(c, place) == pc' = [pc EXCEPT ![c] = place]
Set(c, state) == plugin' = [plugin EXCEPT ![c] = state]
SetToken(c, state) == token' = [token EXCEPT ![c] = state]

-----------------------------------------------------------------------------
(* The pool *)
Free == Ports \ taken
Hand(c, p) == port' = [port EXCEPT ![c] = p]

(* Mutant of Port: the pool is read and written in two critical sections.  *)
PortUnmarked(c) ==
    /\ ~wedged
    /\ IF Free = {} THEN Hand(c, 0) ELSE \E p \in Free : Hand(c, p)
    /\ UNCHANGED <<taken, wedged>>

(* The first free one is taken. *)
Port(c) ==
    /\ ~wedged
    /\ IF Free = {} THEN Hand(c, 0) /\ UNCHANGED taken
       ELSE \E p \in Free : /\ \A q \in Free : p <= q
                            /\ Hand(c, p)
                            /\ taken' = taken \cup {p}
    /\ UNCHANGED wedged

(* For port 0 the index is out of range, and the panic leaves apimutex     *)
(* locked.                                                                 *)
DecrementPort(c) ==
    /\ ~wedged
    /\ taken' = taken \ {port[c]}
    /\ wedged' = (port[c] = 0)
    /\ UNCHANGED port

-----------------------------------------------------------------------------
(* The four handlers, up to where they differ: what is refused, what an    *)
(* admin may do, and whether there is a body.                              *)
Begin(c, next, hasBody) ==
    /\ pc[c] = "start"
    /\ Port(c)
    /\ Goto(c, next)
    /\ body' = [body EXCEPT ![c] = hasBody]
    /\ wanted' = [wanted EXCEPT ![c] = source]
    /\ UNCHANGED <<holder, source, building, exe, runVars>>

GenericGetEndpoint(c) ==
    \E next \in {"return", "compile", "admincompile"} : Begin(c, next, FALSE)
GenericPostEndpoint(c) == \E next \in {"return", "compile"} : Begin(c, next, TRUE)
GenericDeleteEndpoint(c) == \E next \in {"return", "compile"} : Begin(c, next, FALSE)
GenericPutEndpoint(c) == \E next \in {"return", "compile"} : Begin(c, next, TRUE)

(* The handler returns, whether it wrote the plugin's answer, an error, or *)
(* panicked on an answer that is no JSON object.                           *)
Return(c) ==
    /\ pc[c] = "return"
    /\ DecrementPort(c)
    /\ Goto(c, "done")
    /\ UNCHANGED <<body, compileVars, runVars>>

-----------------------------------------------------------------------------
(* CompilePlugin; an admin's call goes no further. *)
ByAdmin(c) == pc[c] \in {"admincompile", "admindecide", "adminbuild"}
AfterCompile(c) == IF ByAdmin(c) THEN "return" ELSE "run"

CompileLock(c) ==
    /\ pc[c] \in {"compile", "admincompile"}
    /\ holder = NoCall
    /\ holder' = c
    /\ Goto(c, IF ByAdmin(c) THEN "admindecide" ELSE "decide")
    /\ UNCHANGED <<body, source, building, exe, wanted, portVars, runVars>>

Outdated == exe.from = 0 \/ exe.at < source

(* Mutant of CompileRefuse: api.compile is not unlocked. *)
CompileRefuseLocked(c) ==
    /\ pc[c] \in {"decide", "admindecide"}
    /\ Outdated /\ source = 0
    /\ Goto(c, "return")
    /\ UNCHANGED <<body, compileVars, portVars, runVars>>

CompileRefuse(c) ==
    /\ pc[c] \in {"decide", "admindecide"}
    /\ Outdated /\ source = 0
    /\ holder' = NoCall
    /\ Goto(c, "return")
    /\ UNCHANGED <<body, source, building, exe, wanted, portVars, runVars>>

(* Mutant of CompileSkip: the times are not compared. *)
CompileSkipOld(c) ==
    /\ pc[c] \in {"decide", "admindecide"}
    /\ exe.from # 0
    /\ holder' = NoCall
    /\ Goto(c, AfterCompile(c))
    /\ UNCHANGED <<body, source, building, exe, wanted, portVars, runVars>>

CompileSkip(c) ==
    /\ pc[c] \in {"decide", "admindecide"}
    /\ ~Outdated
    /\ holder' = NoCall
    /\ Goto(c, AfterCompile(c))
    /\ UNCHANGED <<body, source, building, exe, wanted, portVars, runVars>>

CompileBegin(c) ==
    /\ pc[c] \in {"decide", "admindecide"}
    /\ Outdated /\ source # 0
    /\ building' = source
    /\ Goto(c, IF ByAdmin(c) THEN "adminbuild" ELSE "build")
    /\ UNCHANGED <<body, holder, source, exe, wanted, portVars, runVars>>

(* go build; or it fails. *)
CompileEnd(c) ==
    /\ pc[c] \in {"build", "adminbuild"}
    /\ \/ exe' = [from |-> building, at |-> source] /\ Goto(c, AfterCompile(c))
       \/ UNCHANGED exe /\ Goto(c, "return")
    /\ holder' = NoCall
    /\ building' = 0
    /\ UNCHANGED <<body, source, wanted, portVars, runVars>>

(* AddRepoPlugin gets the sources of the repository as they are now. *)
NewSource ==
    /\ "source" \in Events
    /\ source < MaxSource
    /\ source' = source + 1
    /\ UNCHANGED <<pc, body, holder, building, exe, wanted, portVars, runVars>>

-----------------------------------------------------------------------------
(* RunPluginUsingRPC *)

Run(c) ==
    /\ pc[c] = "run"
    /\ \/ Goto(c, "token") /\ Set(c, "starting")
       \/ "die" \in Events /\ Goto(c, "return") /\ UNCHANGED plugin
    /\ UNCHANGED <<body, compileVars, portVars, conn, token>>

(* The token is saved; there is no sduser; or it is not saved, and nobody  *)
(* waits for the plugin.                                                   *)
SaveToken(c) ==
    /\ pc[c] = "token"
    /\ \/ SetToken(c, "live") /\ Goto(c, "dial")
       \/ "dbfail" \in Events /\ UNCHANGED token /\ Goto(c, "dial")
       \/ "dbfail" \in Events /\ SetToken(c, "failed") /\ Goto(c, "return")
    /\ UNCHANGED <<body, compileVars, portVars, plugin, conn>>

(* The plugins that listen on a port of the pool: there is one at most. *)
ListensOn(d, p) == p # 0 /\ port[d] = p /\ plugin[d] \in {"listening", "called"}

Dial(c) ==
    /\ pc[c] = "dial"
    /\ \E d \in Calls :
         /\ ListensOn(d, port[c])
         /\ conn' = [conn EXCEPT ![c] = d]
    /\ Goto(c, "send")
    /\ UNCHANGED <<body, compileVars, portVars, plugin, token>>

(* Mutant of DialGivesUp: the handler returns without waiting for the      *)
(* plugin.                                                                 *)
DialGivesUpAtOnce(c) ==
    /\ pc[c] = "dial"
    /\ "slow" \in Events \/ port[c] = 0 \/ plugin[c] = "gone"
    /\ Goto(c, "return")
    /\ UNCHANGED <<body, compileVars, portVars, runVars>>

(* After 2000 tries, even if the last of them had a connection. *)
DialGivesUp(c) ==
    /\ pc[c] = "dial"
    /\ "slow" \in Events \/ port[c] = 0 \/ plugin[c] = "gone"
    /\ Goto(c, "waiterr")
    /\ UNCHANGED <<body, compileVars, portVars, runVars>>

BodyBreaks(c) ==
    /\ "body" \in Events
    /\ pc[c] = "send" /\ body[c]
    /\ Goto(c, "waiterr")
    /\ body' = [body EXCEPT ![c] = FALSE]
    /\ UNCHANGED <<compileVars, portVars, runVars>>

Call(c) ==
    /\ pc[c] = "send"
    /\ plugin[conn[c]] = "listening"
    /\ Set(conn[c], "called")
    /\ Goto(c, "call")
    /\ body' = [body EXCEPT ![c] = FALSE]
    /\ UNCHANGED <<compileVars, portVars, conn, token>>

CallFails(c) ==
    /\ pc[c] \in {"send", "call"}
    /\ plugin[conn[c]] = "gone"
    /\ Goto(c, "waiterr")
    /\ body' = [body EXCEPT ![c] = FALSE]
    /\ UNCHANGED <<compileVars, portVars, runVars>>

(* cmd.Wait, on the way out with an error: the token is left. *)
WaitAfterError(c) ==
    /\ pc[c] = "waiterr"
    /\ plugin[c] = "gone"
    /\ Goto(c, "return")
    /\ UNCHANGED <<body, compileVars, portVars, runVars>>

(* Mutant of Wait: the token is deleted before the plugin has exited.      *)
WaitNot(c) ==
    /\ pc[c] = "drain"
    /\ Goto(c, "delete")
    /\ UNCHANGED <<body, compileVars, portVars, runVars>>

(* The plugin's stdout is read to its end, and then cmd.Wait. *)
Wait(c) ==
    /\ pc[c] = "drain"
    /\ plugin[c] = "gone"
    /\ Goto(c, "delete")
    /\ UNCHANGED <<body, compileVars, portVars, runVars>>

DeleteToken(c) ==
    /\ pc[c] = "delete"
    /\ \/ token[c] = "live" /\ SetToken(c, "gone")
       \/ (token[c] = "none" \/ "dbfail" \in Events) /\ UNCHANGED token
    /\ Goto(c, "return")
    /\ UNCHANGED <<body, compileVars, portVars, plugin, conn>>

-----------------------------------------------------------------------------
(* The plugin: it listens on its port, or exits when someone else does; it *)
(* serves one call, and exits.                                             *)
PluginListens(c) ==
    /\ plugin[c] = "starting"
    /\ Set(c, IF \E d \in Calls : ListensOn(d, port[c]) THEN "gone" ELSE "listening")
    /\ UNCHANGED <<pc, body, compileVars, portVars, conn, token>>

PluginReplies(c) ==
    /\ plugin[c] = "called"
    /\ Set(c, "replied")
    /\ pc' = [d \in Calls |-> IF conn[d] = c /\ pc[d] = "call" THEN "drain" ELSE pc[d]]
    /\ UNCHANGED <<body, compileVars, portVars, conn, token>>

PluginExits(c) ==
    /\ plugin[c] = "replied"
    /\ Set(c, "gone")
    /\ UNCHANGED <<pc, body, compileVars, portVars, conn, token>>

PluginDies(c) ==
    /\ "die" \in Events
    /\ plugin[c] \in {"starting", "listening", "called"}
    /\ Set(c, "gone")
    /\ UNCHANGED <<pc, body, compileVars, portVars, conn, token>>

-----------------------------------------------------------------------------
GenericEndpoint(c) ==
    \/ GenericGetEndpoint(c) \/ GenericPostEndpoint(c)
    \/ GenericDeleteEndpoint(c) \/ GenericPutEndpoint(c)

CompileStep(c) ==
    \/ CompileLock(c) \/ CompileRefuse(c) \/ CompileSkip(c)
    \/ CompileBegin(c) \/ CompileEnd(c)

RpcStep(c) ==
    \/ Run(c) \/ SaveToken(c) \/ Dial(c) \/ DialGivesUp(c)
    \/ BodyBreaks(c) \/ Call(c) \/ CallFails(c)
    \/ WaitAfterError(c) \/ Wait(c) \/ DeleteToken(c)

HandlerStep(c) == CompileStep(c) \/ RpcStep(c) \/ Return(c)
PluginStep(c) == PluginListens(c) \/ PluginReplies(c) \/ PluginExits(c)

PortsNext ==
    \/ \E c \in Calls :
         GenericEndpoint(c) \/ HandlerStep(c) \/ PluginStep(c) \/ PluginDies(c)
    \/ NewSource

PortsSpec == PortsInit /\ [][PortsNext]_vars

(* Handlers and plugins are scheduled, and go build ends. *)
PortsFairSpec ==
    PortsSpec /\ \A c \in Calls : WF_vars(HandlerStep(c)) /\ WF_vars(PluginStep(c))

-----------------------------------------------------------------------------
InProgress(c) == pc[c] \notin {"start", "done"}

(* A port of the pool belongs to one call, and to no call that is over     *)
(* ("Reserve the tcp plugin port now").                                    *)
OnePerPort ==
    /\ \A p \in taken : \E c \in Calls : InProgress(c) /\ port[c] = p
    /\ \A c, d \in Calls :
         c # d /\ InProgress(c) /\ InProgress(d) => port[c] # port[d] \/ port[c] = 0

(* Api.port and the calls' own numbers together are the pool of PortPool:  *)
(* no port is leased twice or lost, none is refused while one is free, and *)
(* what a call gives back is its own, once ("Reserve the tcp plugin port   *)
(* now").                                                                  *)
Leases == {<<c, port[c]>> : c \in {d \in Calls : InProgress(d) /\ port[d] # 0}}

Pool == INSTANCE PortPool WITH
    leases <- Leases, served <- {c \in Calls : pc[c] # "start"},
    over <- {c \in Calls : pc[c] = "done"}, jammed <- wedged

ImplementsPool == Pool!PoolSpec

(* A call talks to the plugin it started, and to that of another call only *)
(* if the other call returned without waiting for its plugin, because its  *)
(* token could not be saved.                                               *)
OwnPlugin ==
    \A c \in Calls : conn[c] \in {NoCall, c} \/ token[conn[c]] = "failed"

(* A token is deleted only "after the plugin exits".                       *)
TokenOutlivesPlugin ==
    \A c \in Calls : token[c] = "gone" => plugin[c] = "gone"

(* A call never runs a file older than the source there was when the call  *)
(* came, unless the source changed while that file was compiled: then the  *)
(* file looks newer than it is, and CompilePlugin skips it for good.       *)
NoOldFile ==
    [][\A c \in Calls :
         pc[c] = "run" => \/ pc'[c] = "run"
                          \/ exe.from >= wanted[c] \/ exe.from < exe.at]_vars

(* Every call ends, unless it waits for a plugin that waits for a call, or *)
(* a call without a port has left apimutex locked.                         *)
Waiting(c) == pc[c] \in {"waiterr", "drain"} /\ plugin[c] = "listening"
CallsEnd ==
    <>[](\A c \in Calls :
           InProgress(c) => Waiting(c) \/ (pc[c] = "return" /\ wedged))
=============================================================================
