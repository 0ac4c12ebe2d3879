------------------------ MODULE PluginPorts_proofs ------------------------
(***************************************************************************)
(* Proofs about PluginPorts, for any calls, ports, sources and events.     *)
(*                                                                         *)
(* A port has one holder because Port marks what it hands out (LeaseInv).  *)
(* That a call talks to no other's plugin needs more than that: a plugin   *)
(* that still listens when its call is over must be one nobody waited for  *)
(* (CallInv), as Dial only looks who listens.                              *)
(***************************************************************************)
EXTENDS PluginPorts, TLAPS

LeaseInv ==
    /\ \A c \in Calls : InProgress(c) /\ port[c] # 0 => port[c] \in taken
    /\ OnePerPort

BeforeRun(c) ==
    pc[c] \in {"start", "compile", "admincompile", "decide", "admindecide",
               "build", "adminbuild", "run"}

CallOK(c) ==
    /\ BeforeRun(c) => plugin[c] = "none" /\ token[c] = "none"
    /\ pc[c] = "token" => token[c] = "none"
    /\ pc[c] \in {"send", "call"} => conn[c] # NoCall
    /\ pc[c] = "delete" => plugin[c] = "gone"
    /\ pc[c] \in {"return", "done"} => plugin[c] \in {"none", "gone"} \/ token[c] = "failed"
    /\ token[c] = "failed" => pc[c] \in {"return", "done"}
CallInv == \A c \in Calls : CallOK(c)

FileOK(c) ==
    /\ wanted[c] <= source
    /\ pc[c] = "run" => exe.from >= wanted[c] \/ exe.from < exe.at
FileInv == building <= source /\ \A c \in Calls : FileOK(c)

PortsInv ==
    /\ PortsTypeOK /\ LeaseInv /\ CallInv /\ FileInv
    /\ OwnPlugin /\ TokenOutlivesPlugin

-----------------------------------------------------------------------------
THEOREM PortsInvInit == PortsInit => PortsInv
<1> SUFFICES ASSUME PortsInit PROVE PortsInv
  OBVIOUS
<1> USE PortsAssumption DEF PortsInit
<1>1. PortsTypeOK
  <2>1. source \in Nat /\ building \in Nat /\ exe \in [from : Nat, at : Nat]
    OBVIOUS
  <2>2. port \in [Calls -> 0 .. NPorts] /\ wanted \in [Calls -> Nat]
    OBVIOUS
  <2>3. taken \subseteq Ports /\ wedged \in BOOLEAN /\ holder \in Calls \cup {NoCall}
    OBVIOUS
  <2>4. /\ pc \in [Calls -> CallState] /\ body \in [Calls -> BOOLEAN]
        /\ plugin \in [Calls -> PluginState] /\ conn \in [Calls -> Calls \cup {NoCall}]
        /\ token \in [Calls -> TokenState]
    BY DEF CallState, PluginState, TokenState
  <2> QED BY <2>1, <2>2, <2>3, <2>4 DEF PortsTypeOK
<1>2. LeaseInv
  BY DEF LeaseInv, OnePerPort, InProgress
<1>3. CallInv /\ FileInv
  BY DEF CallInv, CallOK, FileInv, FileOK, BeforeRun
<1>4. OwnPlugin /\ TokenOutlivesPlugin
  BY DEF OwnPlugin, TokenOutlivesPlugin
<1> QED BY <1>1, <1>2, <1>3, <1>4 DEF PortsInv

-----------------------------------------------------------------------------
(* A step of one call from place to place that leaves the pool alone.      *)
LEMMA LeasesStay ==
    ASSUME PortsInv, UNCHANGED <<port, taken>>,
           \A d \in Calls : InProgress(d)' = InProgress(d)
    PROVE  LeaseInv'
BY DEF PortsInv, LeaseInv, OnePerPort, InProgress

(* Of a handler that moves on, and nothing else about it. *)
LEMMA Moves ==
    ASSUME PortsInv, NEW c \in Calls, NEW next \in CallState, Goto(c, next),
           InProgress(c), next \notin {"start", "done"},
           UNCHANGED <<portVars, runVars>>,
           PortsTypeOK', FileInv', CallOK(c)'
    PROVE  PortsInv'
<1> USE DEF PortsInv
<1>1. \A d \in Calls : InProgress(d)' = InProgress(d)
  BY DEF Goto, InProgress, PortsTypeOK
<1>2. LeaseInv'
  BY <1>1, LeasesStay DEF portVars
<1>3. \A d \in Calls : d # c => CallOK(d)'
  BY DEF CallInv, CallOK, BeforeRun, Goto, PortsTypeOK, runVars
<1>4. OwnPlugin' /\ TokenOutlivesPlugin'
  BY DEF OwnPlugin, TokenOutlivesPlugin, runVars
<1> QED BY <1>2, <1>3, <1>4 DEF CallInv

-----------------------------------------------------------------------------
(* The pool *)
LEMMA PortTaken ==
    ASSUME PortsInv, NEW c \in Calls, Port(c), ~InProgress(c), InProgress(c)',
           \A d \in Calls : d # c => pc'[d] = pc[d]
    PROVE  LeaseInv' /\ port' \in [Calls -> 0 .. NPorts] /\ taken' \subseteq Ports
<1> USE DEF PortsInv, PortsTypeOK
<1>1. /\ port' \in [Calls -> 0 .. NPorts] /\ taken' \subseteq Ports
      /\ \A d \in Calls : d # c => port'[d] = port[d]
      /\ \/ port'[c] = 0 /\ taken' = taken
         \/ port'[c] \in Ports \ taken /\ taken' = taken \cup {port'[c]}
  <2>1. CASE Free = {}
    BY <2>1, PortsAssumption DEF Port, Hand
  <2>2. CASE Free # {}
    <3>1. PICK p \in Free : Hand(c, p) /\ taken' = taken \cup {p}
      BY <2>2 DEF Port
    <3>2. p \in Ports \ taken /\ p \in 0 .. NPorts
      BY <3>1, PortsAssumption DEF Free, Ports
    <3> QED BY <3>1, <3>2 DEF Hand
  <2> QED BY <2>1, <2>2
<1>2. \A d \in Calls : d # c => InProgress(d)' = InProgress(d)
  BY DEF InProgress
<1> QED BY <1>1, <1>2 DEF LeaseInv, OnePerPort

LEMMA PortReturned ==
    ASSUME PortsInv, NEW c \in Calls, DecrementPort(c), InProgress(c), ~InProgress(c)',
           \A d \in Calls : d # c => pc'[d] = pc[d]
    PROVE  LeaseInv'
<1> USE DEF PortsInv, PortsTypeOK, DecrementPort
<1>1. \A d \in Calls : d # c => InProgress(d)' = InProgress(d)
  BY DEF InProgress
<1>2. \A d \in Calls : d # c /\ InProgress(d) /\ port[d] # 0 => port[d] \in taken'
  BY DEF LeaseInv, OnePerPort
<1>3. \A p \in taken' : \E d \in Calls : d # c /\ InProgress(d) /\ port[d] = p
  BY DEF LeaseInv, OnePerPort
<1> QED BY <1>1, <1>2, <1>3 DEF LeaseInv, OnePerPort

LEMMA EndpointKeeps ==
    ASSUME PortsInv, NEW c \in Calls, GenericEndpoint(c) PROVE PortsInv'
<1> USE DEF PortsInv
<1>1. PICK next \in {"return", "compile", "admincompile"}, b \in BOOLEAN : Begin(c, next, b)
  BY DEF GenericEndpoint, GenericGetEndpoint, GenericPostEndpoint,
     GenericDeleteEndpoint, GenericPutEndpoint
<1> USE <1>1 DEF Begin
<1>2. /\ pc' = [pc EXCEPT ![c] = next] /\ pc[c] = "start" /\ Port(c)
      /\ pc' \in [Calls -> CallState]
  BY DEF Goto, PortsTypeOK, CallState
<1>3. LeaseInv' /\ port' \in [Calls -> 0 .. NPorts] /\ taken' \subseteq Ports
  BY <1>2, PortTaken DEF InProgress, PortsTypeOK
<1>4. PortsTypeOK'
  BY <1>2, <1>3 DEF PortsTypeOK, runVars, Port
<1>5. FileInv'
  BY <1>2 DEF FileInv, FileOK, PortsTypeOK
<1>6. CallInv'
  BY <1>2 DEF CallInv, CallOK, BeforeRun, PortsTypeOK, runVars
<1>7. OwnPlugin' /\ TokenOutlivesPlugin'
  BY DEF OwnPlugin, TokenOutlivesPlugin, runVars
<1> QED BY <1>3, <1>4, <1>5, <1>6, <1>7

LEMMA ReturnKeeps ==
    ASSUME PortsInv, NEW c \in Calls, Return(c) PROVE PortsInv'
<1> USE DEF PortsInv, Return
<1>1. /\ pc' = [pc EXCEPT ![c] = "done"] /\ pc[c] = "return"
      /\ pc' \in [Calls -> CallState]
  BY DEF Goto, PortsTypeOK, CallState
<1>2. LeaseInv'
  BY <1>1, PortReturned DEF InProgress, PortsTypeOK
<1>3. PortsTypeOK'
  BY <1>1 DEF PortsTypeOK, DecrementPort, compileVars, runVars
<1>4. FileInv'
  BY <1>1 DEF FileInv, FileOK, PortsTypeOK, compileVars
<1>5. CallInv'
  BY <1>1 DEF CallInv, CallOK, BeforeRun, PortsTypeOK, runVars
<1>6. OwnPlugin' /\ TokenOutlivesPlugin'
  BY DEF OwnPlugin, TokenOutlivesPlugin, runVars
<1> QED BY <1>2, <1>3, <1>4, <1>5, <1>6

-----------------------------------------------------------------------------
(* The file of the plugin *)

(* A build that began at a source no newer than now makes either a file of *)
(* the source as it is, or one whose source changed while it was built.    *)
LEMMA CompileKeeps ==
    ASSUME PortsInv, NEW c \in Calls, CompileStep(c) PROVE PortsInv'
<1> USE DEF PortsInv, CompileStep, CompileLock, CompileRefuse, CompileSkip,
            CompileBegin, CompileEnd
<1>1. PICK next \in CallState : Goto(c, next) /\ next \notin {"start", "done"}
        /\ next \in {"decide", "admindecide", "return", "run", "build", "adminbuild"}
  BY DEF AfterCompile, CallState
<1>2. UNCHANGED <<body, source, wanted, portVars, runVars>> /\ InProgress(c) /\ BeforeRun(c)
  BY DEF InProgress, BeforeRun
<1>3. PortsTypeOK'
  <2>1. pc' \in [Calls -> CallState]
    BY <1>1 DEF Goto, PortsTypeOK
  <2>2. holder' \in Calls \cup {NoCall} /\ building' \in Nat
    BY DEF PortsTypeOK
  <2>3. exe' \in [from : Nat, at : Nat]
    BY DEF PortsTypeOK
  <2> QED BY <1>2, <2>1, <2>2, <2>3 DEF PortsTypeOK, portVars, runVars
<1>4. FileInv'
  <2>1. building' <= source'
    BY DEF FileInv, PortsTypeOK
  <2>2. CASE exe' = [from |-> building, at |-> source]
    <3>1. exe'.from = building /\ exe'.at = source /\ building <= source
      BY <2>2 DEF FileInv
    <3> QED BY <1>2, <2>1, <3>1 DEF FileInv, FileOK, PortsTypeOK
  <2>3. CASE CompileSkip(c)
    <3>1. exe' = exe /\ exe.at >= source /\ source >= wanted[c]
      BY <2>3 DEF Outdated, FileInv, FileOK, compileVars, PortsTypeOK
    <3>2. FileOK(c)'
      BY <1>2, <3>1 DEF FileInv, FileOK, PortsTypeOK
    <3> QED BY <1>1, <1>2, <2>1, <3>1, <3>2 DEF FileInv, FileOK, PortsTypeOK, Goto
  <2>4. CASE exe' = exe /\ next # "run"
    BY <1>1, <1>2, <2>1, <2>4 DEF FileInv, FileOK, PortsTypeOK, Goto
  <2>5. \/ exe' = [from |-> building, at |-> source] \/ CompileSkip(c)
        \/ exe' = exe /\ next # "run"
    BY <1>1, PortsTypeOK DEF Goto, PortsTypeOK, compileVars
  <2> QED BY <2>2, <2>3, <2>4, <2>5
<1>5. CallOK(c)'
  <2>1. plugin'[c] = "none" /\ token'[c] = "none"
    BY <1>2 DEF CallInv, CallOK, runVars
  <2>2. pc'[c] = next
    BY <1>1 DEF Goto, PortsTypeOK
  <2> QED BY <1>1, <2>1, <2>2 DEF CallOK
<1> QED BY <1>1, <1>2, <1>3, <1>4, <1>5, Moves

LEMMA SourceKeeps ==
    ASSUME PortsInv, NewSource PROVE PortsInv'
<1> USE DEF PortsInv, NewSource, portVars, runVars
<1>1. PortsTypeOK'
  BY DEF PortsTypeOK
<1>2. FileInv'
  BY DEF FileInv, FileOK, PortsTypeOK
<1>3. LeaseInv' /\ CallInv' /\ OwnPlugin' /\ TokenOutlivesPlugin'
  BY DEF LeaseInv, OnePerPort, InProgress, CallInv, CallOK, BeforeRun,
     OwnPlugin, TokenOutlivesPlugin
<1> QED BY <1>1, <1>2, <1>3

-----------------------------------------------------------------------------
(* RunPluginUsingRPC and the plugin *)

(* What all these steps leave alone, and what they keep. *)
LEMMA RpcFrame ==
    ASSUME PortsInv, UNCHANGED <<compileVars, portVars>>,
           pc' \in [Calls -> CallState],
           \A d \in Calls : /\ InProgress(d)' = InProgress(d)
                            /\ pc'[d] = "run" => pc[d] = "run",
           body' \in [Calls -> BOOLEAN], plugin' \in [Calls -> PluginState],
           conn' \in [Calls -> Calls \cup {NoCall}], token' \in [Calls -> TokenState],
           CallInv', OwnPlugin', TokenOutlivesPlugin'
    PROVE  PortsInv'
<1> USE DEF PortsInv, compileVars, portVars
<1>1. PortsTypeOK'
  BY DEF PortsTypeOK
<1>2. LeaseInv'
  BY LeasesStay
<1>3. FileInv'
  BY DEF FileInv, FileOK
<1> QED BY <1>1, <1>2, <1>3

(* A plugin that listens on the port of a call in progress is the call's   *)
(* own, or one that nobody waited for.                                     *)
LEMMA WhoListens ==
    ASSUME PortsInv, NEW c \in Calls, InProgress(c), NEW d \in Calls, d # c,
           ListensOn(d, port[c])
    PROVE  token[d] = "failed"
<1> USE DEF PortsInv, ListensOn
<1>1. ~InProgress(d)
  BY DEF LeaseInv, OnePerPort
<1>2. pc[d] # "start"
  BY DEF CallInv, CallOK, BeforeRun
<1> QED BY <1>1, <1>2 DEF InProgress, CallInv, CallOK

LEMMA RunKeeps ==
    ASSUME PortsInv, NEW c \in Calls, Run(c) \/ SaveToken(c) PROVE PortsInv'
<1> USE DEF PortsInv, Run, SaveToken
<1>1. PICK next \in {"token", "dial", "return"} : Goto(c, next)
  OBVIOUS
<1>2. /\ pc' \in [Calls -> CallState] /\ pc'[c] = next
      /\ \A d \in Calls : d # c => pc'[d] = pc[d]
  BY <1>1 DEF Goto, PortsTypeOK, CallState
<1>3. \A d \in Calls : InProgress(d)' = InProgress(d) /\ (pc'[d] = "run" => pc[d] = "run")
  BY <1>2 DEF InProgress
<1>4. plugin' \in [Calls -> PluginState] /\ token' \in [Calls -> TokenState]
  BY DEF PortsTypeOK, PluginState, TokenState, Set, SetToken
<1>5. \A d \in Calls : d # c => plugin'[d] = plugin[d] /\ token'[d] = token[d]
  BY DEF PortsTypeOK, Set, SetToken
<1>6. token[c] = "none"
  BY DEF CallInv, CallOK, BeforeRun
<1>7. CallInv'
  <2>1. \A d \in Calls : d # c => CallOK(d)'
    BY <1>2, <1>5 DEF CallInv, CallOK, BeforeRun
  <2>2. CASE Run(c)
    <3>1. token'[c] = "none" /\ (next = "token" \/ (next = "return" /\ plugin'[c] = "none"))
      BY <1>2, <1>6, <2>2 DEF CallInv, CallOK, BeforeRun, Goto, PortsTypeOK
    <3> QED BY <1>2, <2>1, <3>1 DEF CallInv, CallOK, BeforeRun
  <2>3. CASE SaveToken(c)
    <3>1. /\ next = "dial" => token'[c] \in {"live", "none"}
          /\ next = "return" => token'[c] = "failed"
          /\ next \in {"dial", "return"}
      BY <1>2, <1>6, <2>3 DEF Goto, SetToken, PortsTypeOK
    <3> QED BY <1>2, <2>1, <3>1 DEF CallInv, CallOK, BeforeRun
  <2> QED BY <2>2, <2>3
<1>8. OwnPlugin' /\ TokenOutlivesPlugin'
  <2>1. token'[c] # "gone"
    BY <1>6 DEF SetToken, PortsTypeOK
  <2> QED BY <1>5, <1>6, <2>1 DEF OwnPlugin, TokenOutlivesPlugin, PortsTypeOK
<1> QED
  BY <1>2, <1>3, <1>4, <1>7, <1>8, RpcFrame DEF PortsTypeOK

LEMMA DialKeeps ==
    ASSUME PortsInv, NEW c \in Calls, Dial(c) PROVE PortsInv'
<1> USE DEF PortsInv, Dial
<1>1. PICK d \in Calls : ListensOn(d, port[c]) /\ conn' = [conn EXCEPT ![c] = d]
  OBVIOUS
<1>2. /\ pc' \in [Calls -> CallState] /\ pc'[c] = "send"
      /\ \A e \in Calls : e # c => pc'[e] = pc[e]
  BY DEF Goto, PortsTypeOK, CallState
<1>3. \A e \in Calls : InProgress(e)' = InProgress(e) /\ (pc'[e] = "run" => pc[e] = "run")
  BY <1>2 DEF InProgress
<1>4. /\ conn' \in [Calls -> Calls \cup {NoCall}] /\ conn'[c] = d /\ d # NoCall
      /\ \A e \in Calls : e # c => conn'[e] = conn[e]
  BY <1>1, PortsAssumption DEF PortsTypeOK
<1>5. CallInv'
  BY <1>2, <1>4 DEF CallInv, CallOK, BeforeRun
<1>6. d = c \/ token[d] = "failed"
  BY <1>1, WhoListens DEF InProgress
<1>7. OwnPlugin' /\ TokenOutlivesPlugin'
  BY <1>4, <1>6 DEF OwnPlugin, TokenOutlivesPlugin
<1> QED
  BY <1>2, <1>3, <1>4, <1>5, <1>7, RpcFrame DEF PortsTypeOK

(* Steps that only move the handler on. *)
LEMMA WaitsKeep ==
    ASSUME PortsInv, NEW c \in Calls,
           DialGivesUp(c) \/ BodyBreaks(c) \/ CallFails(c) \/ WaitAfterError(c) \/ Wait(c)
    PROVE  PortsInv'
<1> USE DEF PortsInv, DialGivesUp, BodyBreaks, CallFails, WaitAfterError, Wait, runVars
<1>1. PICK next \in {"waiterr", "return", "delete"} : Goto(c, next)
  OBVIOUS
<1>2. /\ pc' \in [Calls -> CallState] /\ pc'[c] = next
      /\ \A d \in Calls : d # c => pc'[d] = pc[d]
      /\ next \in {"return", "delete"} => plugin[c] = "gone"
  BY <1>1 DEF Goto, PortsTypeOK, CallState
<1>3. \A d \in Calls : InProgress(d)' = InProgress(d) /\ (pc'[d] = "run" => pc[d] = "run")
  BY <1>2 DEF InProgress
<1>4. body' \in [Calls -> BOOLEAN]
  BY Zenon DEF PortsTypeOK
<1>5. CallInv'
  BY <1>2 DEF CallInv, CallOK, BeforeRun
<1>6. OwnPlugin' /\ TokenOutlivesPlugin'
  BY DEF OwnPlugin, TokenOutlivesPlugin
<1> QED
  BY <1>2, <1>3, <1>4, <1>5, <1>6, RpcFrame DEF PortsTypeOK

LEMMA CallKeeps ==
    ASSUME PortsInv, NEW c \in Calls, Call(c) PROVE PortsInv'
<1> USE DEF PortsInv, Call
<1>1. /\ pc' \in [Calls -> CallState] /\ pc'[c] = "call" /\ pc[c] = "send"
      /\ \A e \in Calls : e # c => pc'[e] = pc[e]
  BY DEF Goto, PortsTypeOK, CallState
<1>2. \A e \in Calls : InProgress(e)' = InProgress(e) /\ (pc'[e] = "run" => pc[e] = "run")
  BY <1>1 DEF InProgress
<1>3. PICK d \in Calls : d = conn[c]
  BY <1>1 DEF CallInv, CallOK, PortsTypeOK
<1>4. /\ plugin' \in [Calls -> PluginState] /\ plugin[d] = "listening"
      /\ \A e \in Calls : plugin'[e] = plugin[e] \/ e = d
  BY <1>3 DEF Set, PortsTypeOK, PluginState
<1>5. body' \in [Calls -> BOOLEAN]
  BY Zenon DEF PortsTypeOK
<1>6. CallInv'
  <2>1. ~BeforeRun(d) /\ pc[d] # "delete" /\ (pc[d] \in {"return", "done"} => token[d] = "failed")
        /\ token[d] # "gone"
    BY <1>4 DEF CallInv, CallOK, TokenOutlivesPlugin
  <2> QED BY <1>1, <1>4, <2>1 DEF CallInv, CallOK, BeforeRun
<1>7. OwnPlugin' /\ TokenOutlivesPlugin'
  BY <1>4 DEF OwnPlugin, TokenOutlivesPlugin
<1> QED
  BY <1>1, <1>2, <1>4, <1>5, <1>6, <1>7, RpcFrame DEF PortsTypeOK

LEMMA DeleteKeeps ==
    ASSUME PortsInv, NEW c \in Calls, DeleteToken(c) PROVE PortsInv'
<1> USE DEF PortsInv, DeleteToken
<1>1. /\ pc' \in [Calls -> CallState] /\ pc'[c] = "return" /\ pc[c] = "delete"
      /\ \A e \in Calls : e # c => pc'[e] = pc[e]
  BY DEF Goto, PortsTypeOK, CallState
<1>2. \A e \in Calls : InProgress(e)' = InProgress(e) /\ (pc'[e] = "run" => pc[e] = "run")
  BY <1>1 DEF InProgress
<1>3. plugin[c] = "gone" /\ token[c] # "failed"
  BY <1>1 DEF CallInv, CallOK
<1>4. /\ token' \in [Calls -> TokenState]
      /\ \A e \in Calls : e # c => token'[e] = token[e]
      /\ token'[c] # "failed"
  BY <1>3 DEF SetToken, PortsTypeOK, TokenState
<1>5. CallInv'
  BY <1>1, <1>3, <1>4 DEF CallInv, CallOK, BeforeRun
<1>6. OwnPlugin' /\ TokenOutlivesPlugin'
  BY <1>3, <1>4 DEF OwnPlugin, TokenOutlivesPlugin, PortsTypeOK
<1> QED
  BY <1>1, <1>2, <1>4, <1>5, <1>6, RpcFrame DEF PortsTypeOK

(* The process moves on, and a caller gets its answer. *)
LEMMA PluginKeeps ==
    ASSUME PortsInv, NEW c \in Calls, PluginStep(c) \/ PluginDies(c) PROVE PortsInv'
<1> USE DEF PortsInv, PluginStep, PluginListens, PluginReplies, PluginExits, PluginDies
<1>1. PICK state \in {"listening", "replied", "gone"} : Set(c, state)
  OBVIOUS
<1>2. /\ plugin' \in [Calls -> PluginState] /\ plugin'[c] = state
      /\ plugin[c] \in {"starting", "listening", "called", "replied"}
      /\ \A d \in Calls : d # c => plugin'[d] = plugin[d]
  BY <1>1 DEF Set, PortsTypeOK, PluginState
<1>3. /\ pc' \in [Calls -> CallState]
      /\ \A d \in Calls : pc'[d] = pc[d] \/ (pc[d] = "call" /\ pc'[d] = "drain")
  BY DEF PortsTypeOK, CallState
<1>4. \A d \in Calls : InProgress(d)' = InProgress(d) /\ (pc'[d] = "run" => pc[d] = "run")
  BY <1>3 DEF InProgress
<1>5. /\ ~BeforeRun(c) /\ pc[c] # "delete" /\ token[c] # "gone"
      /\ pc[c] \in {"return", "done"} => token[c] = "failed"
  BY <1>2 DEF CallInv, CallOK, TokenOutlivesPlugin
<1>6. CallInv'
  BY <1>2, <1>3, <1>5 DEF CallInv, CallOK, BeforeRun
<1>7. OwnPlugin' /\ TokenOutlivesPlugin'
  BY <1>2, <1>5 DEF OwnPlugin, TokenOutlivesPlugin
<1> QED
  BY <1>2, <1>3, <1>4, <1>6, <1>7, RpcFrame DEF PortsTypeOK

-----------------------------------------------------------------------------
THEOREM PortsInvNext == PortsInv /\ [PortsNext]_vars => PortsInv'
<1> SUFFICES ASSUME PortsInv, [PortsNext]_vars PROVE PortsInv'
  OBVIOUS
<1>1. CASE UNCHANGED vars
  <2> USE <1>1 DEF vars, compileVars, portVars, runVars, PortsInv
  <2>1. PortsTypeOK'
    BY DEF PortsTypeOK
  <2> QED BY <2>1 DEF LeaseInv, OnePerPort, InProgress, CallInv, CallOK, BeforeRun,
                      FileInv, FileOK, OwnPlugin, TokenOutlivesPlugin
<1> QED
  BY <1>1, EndpointKeeps, CompileKeeps, RunKeeps, DialKeeps, WaitsKeep, CallKeeps,
     DeleteKeeps, ReturnKeeps, PluginKeeps, SourceKeeps
  DEF PortsNext, HandlerStep, RpcStep

(* The inductive invariant holds throughout. *)
THEOREM PortsInvariance == PortsSpec => []PortsInv
BY PortsInvInit, PortsInvNext, PTL DEF PortsSpec

(* A port is held by one call in progress, whatever the others do. *)
THEOREM PortsAreExclusive == PortsSpec => []OnePerPort
<1>1. PortsInv => OnePerPort
  BY DEF PortsInv, LeaseInv
<1> QED BY <1>1, PortsInvariance, PTL

(* A call's answer comes from the plugin it started, or from one whose     *)
(* token could not be saved.                                               *)
THEOREM PluginsAreOwn == PortsSpec => []OwnPlugin
<1>1. PortsInv => OwnPlugin
  BY DEF PortsInv
<1> QED BY <1>1, PortsInvariance, PTL

(* No token is deleted under a plugin that may still use it. *)
THEOREM TokensOutlivePlugins == PortsSpec => []TokenOutlivesPlugin
<1>1. PortsInv => TokenOutlivesPlugin
  BY DEF PortsInv
<1> QED BY <1>1, PortsInvariance, PTL

(* No call runs a file that is older than the source it came to, but for   *)
(* one whose source changed while it was compiled.                         *)
THEOREM OldFilesWereRaced == PortsSpec => NoOldFile
<1>1. PortsInv => \A c \in Calls : pc[c] = "run" =>
                    exe.from >= wanted[c] \/ exe.from < exe.at
  BY DEF PortsInv, FileInv, FileOK
<1>2. PortsInv /\ [PortsNext]_vars =>
        [\A c \in Calls :
           pc[c] = "run" => \/ pc'[c] = "run"
                            \/ exe.from >= wanted[c] \/ exe.from < exe.at]_vars
  BY <1>1
<1> QED BY <1>2, PortsInvariance, PTL DEF PortsSpec, NoOldFile

(* Handlers, ports, plugin processes and files keep to their types: no     *)
(* port outside the range is given out.                                    *)
THEOREM PortTypes == PortsSpec => []PortsTypeOK
<1>1. PortsInv => PortsTypeOK
  BY DEF PortsInv
<1> QED BY <1>1, PortsInvariance, PTL

-----------------------------------------------------------------------------
(* PluginPorts implements PortPool                                         *)

(* A handler that is at work, and a plugin, leave the pool alone.          *)
Inside(c) == pc[c] \notin {"start", "done"}

StaysInside ==
    /\ UNCHANGED <<port, wedged>>
    /\ \A d \in Calls : pc'[d] = pc[d] \/ (Inside(d) /\ Inside(d)')

LEMMA PoolStays ==
    ASSUME StaysInside PROVE UNCHANGED Pool!poolVars
<1> USE DEF StaysInside
<1>1. \A d \in Calls : /\ InProgress(d)' = InProgress(d)
                       /\ pc'[d] = "start" <=> pc[d] = "start"
                       /\ pc'[d] = "done" <=> pc[d] = "done"
  BY DEF Inside, InProgress
<1>2. {d \in Calls : InProgress(d) /\ port[d] # 0}' = {d \in Calls : InProgress(d) /\ port[d] # 0}
  BY <1>1
<1>3. UNCHANGED Leases
  BY <1>2 DEF Leases
<1>4. UNCHANGED {c \in Calls : pc[c] # "start"} /\ UNCHANGED {c \in Calls : pc[c] = "done"}
  BY <1>1
<1> QED BY <1>3, <1>4 DEF Pool!poolVars

LEMMA CompileStaysInside ==
    ASSUME PortsTypeOK, NEW c \in Calls, CompileStep(c)
    PROVE  StaysInside
<1> USE DEF CompileStep, CompileLock, CompileRefuse, CompileSkip, CompileBegin, CompileEnd
<1>1. UNCHANGED <<port, wedged>> /\ Inside(c)
  BY DEF portVars, compileVars, Inside
<1>2. PICK next \in CallState : Goto(c, next) /\ next \notin {"start", "done"}
  BY DEF AfterCompile, CallState
<1>3. \A d \in Calls : pc'[d] = pc[d] \/ (Inside(d) /\ Inside(d)')
  BY <1>1, <1>2 DEF Goto, PortsTypeOK, Inside
<1> QED BY <1>1, <1>3 DEF StaysInside

LEMMA RpcStaysInside ==
    ASSUME PortsTypeOK, NEW c \in Calls, RpcStep(c)
    PROVE  StaysInside
<1> USE DEF RpcStep, Run, SaveToken, Dial, DialGivesUp, BodyBreaks, Call, CallFails,
            WaitAfterError, Wait, DeleteToken
<1>1. UNCHANGED <<port, wedged>> /\ Inside(c)
  BY DEF portVars, Inside
<1>2. PICK next \in CallState : Goto(c, next) /\ next \notin {"start", "done"}
  BY DEF CallState
<1>3. \A d \in Calls : pc'[d] = pc[d] \/ (Inside(d) /\ Inside(d)')
  BY <1>1, <1>2 DEF Goto, PortsTypeOK, Inside
<1> QED BY <1>1, <1>3 DEF StaysInside

LEMMA PluginsStayOutside ==
    ASSUME PortsTypeOK, NEW c \in Calls, PluginStep(c) \/ PluginDies(c)
    PROVE  StaysInside
<1> USE DEF PluginStep, PluginListens, PluginReplies, PluginExits, PluginDies
<1>1. UNCHANGED <<port, wedged>>
  BY DEF portVars
<1>2. \A d \in Calls : pc'[d] = pc[d] \/ (Inside(d) /\ Inside(d)')
  BY DEF Inside
<1> QED BY <1>1, <1>2 DEF StaysInside

(* All the steps but the first and the last of a call. *)
LEMMA StepsInside ==
    ASSUME PortsTypeOK, [PortsNext]_vars
    PROVE  StaysInside \/ \E c \in Calls : GenericEndpoint(c) \/ Return(c)
<1>1. CASE NewSource \/ UNCHANGED vars
  BY <1>1 DEF NewSource, vars, portVars, StaysInside
<1> QED BY <1>1, CompileStaysInside, RpcStaysInside, PluginsStayOutside DEF PortsNext, HandlerStep

(* Whoever gets a port gets one that nobody has: what is not marked as     *)
(* taken is leased to no call (LeaseInv).                                  *)
LEMMA BeginLeases ==
    ASSUME PortsInv, NEW c \in Calls, GenericEndpoint(c)
    PROVE  Pool!PoolNext
<1> USE DEF PortsInv
<1>1. PICK next \in {"return", "compile", "admincompile"}, b \in BOOLEAN : Begin(c, next, b)
  BY DEF GenericEndpoint, GenericGetEndpoint, GenericPostEndpoint,
     GenericDeleteEndpoint, GenericPutEndpoint
<1>2. /\ pc[c] = "start" /\ pc' = [pc EXCEPT ![c] = next] /\ Port(c)
      /\ ~wedged /\ UNCHANGED wedged
  BY <1>1 DEF Begin, Goto, Port
<1>3. /\ pc'[c] = next /\ next \notin {"start", "done"}
      /\ \A d \in Calls : d # c => pc'[d] = pc[d]
  BY <1>2 DEF PortsTypeOK
<1>4. Pool!Leased = taken
  <2>1. \A p \in taken : \E d \in Calls : InProgress(d) /\ port[d] = p /\ p # 0
    BY DEF LeaseInv, OnePerPort, PortsTypeOK, Ports
  <2>2. ASSUME NEW p \in taken
        PROVE  \E lease \in Leases : lease[2] = p
    <3>1. PICK d \in Calls : InProgress(d) /\ port[d] = p /\ p # 0
      BY <2>1
    <3>2. d \in {e \in Calls : InProgress(e) /\ port[e] # 0}
      BY <3>1
    <3>3. <<d, port[d]>> \in Leases
      BY <3>2 DEF Leases
    <3>4. <<d, port[d]>>[2] = p
      BY <3>1
    <3> QED BY <3>3, <3>4
  <2>3. \A lease \in Leases : lease[2] \in taken
    BY DEF Leases, LeaseInv
  <2> QED BY <2>2, <2>3 DEF Pool!Leased
<1>5. /\ {d \in Calls : pc[d] # "start"}' = {d \in Calls : pc[d] # "start"} \cup {c}
      /\ {d \in Calls : pc[d] = "done"}' = {d \in Calls : pc[d] = "done"}
      /\ c \notin {d \in Calls : pc[d] # "start"}
  BY <1>2, <1>3
<1>6. CASE Free = {}
  <2>1. port' = [port EXCEPT ![c] = 0] /\ UNCHANGED taken
    BY <1>2, <1>6 DEF Port, Hand
  <2>2. {d \in Calls : InProgress(d) /\ port[d] # 0}' = {d \in Calls : InProgress(d) /\ port[d] # 0}
    BY <1>2, <1>3, <2>1 DEF InProgress, PortsTypeOK
  <2>3. UNCHANGED Leases
    BY <2>1, <2>2, <1>2 DEF Leases, InProgress, PortsTypeOK
  <2>4. Ports = Pool!Leased
    BY <1>4, <1>6 DEF Free, PortsTypeOK
  <2>5. Pool!Refuse(c)
    BY <1>2, <1>5, <2>3, <2>4 DEF Pool!Refuse
  <2> QED BY <2>5 DEF Pool!PoolNext
<1>7. CASE Free # {}
  <2>1. PICK p \in Free : port' = [port EXCEPT ![c] = p]
    BY <1>2, <1>7 DEF Port, Hand
  <2>2. p \in Ports /\ p \notin taken /\ p # 0
    BY <2>1 DEF Free, Ports
  <2>3. /\ port'[c] = p /\ \A d \in Calls : d # c => port'[d] = port[d]
        /\ InProgress(c)' /\ ~InProgress(c)
        /\ \A d \in Calls : d # c => InProgress(d)' = InProgress(d)
    BY <1>2, <1>3, <2>1 DEF InProgress, PortsTypeOK
  <2>4. Leases' = Leases \cup {<<c, p>>}
    BY <2>2, <2>3 DEF Leases
  <2>5. Pool!Lease(c, p)
    BY <1>2, <1>4, <1>5, <2>2, <2>4 DEF Pool!Lease
  <2> QED BY <2>2, <2>5 DEF Pool!PoolNext
<1> QED BY <1>6, <1>7

LEMMA ReturnGivesBack ==
    ASSUME PortsInv, NEW c \in Calls, Return(c)
    PROVE  Pool!PoolNext
<1> USE DEF PortsInv, Return, DecrementPort
<1>1. /\ pc[c] = "return" /\ pc' = [pc EXCEPT ![c] = "done"] /\ port' = port
      /\ ~wedged /\ wedged' = (port[c] = 0)
  BY DEF Goto
<1>2. /\ InProgress(c) /\ ~InProgress(c)'
      /\ \A d \in Calls : d # c => pc'[d] = pc[d] /\ InProgress(d)' = InProgress(d)
  BY <1>1 DEF InProgress, PortsTypeOK
<1>3. /\ {d \in Calls : pc[d] # "start"}' = {d \in Calls : pc[d] # "start"}
      /\ {d \in Calls : pc[d] = "done"}' = {d \in Calls : pc[d] = "done"} \cup {c}
      /\ c \in {d \in Calls : pc[d] # "start"} \ {d \in Calls : pc[d] = "done"}
  BY <1>1, <1>2 DEF PortsTypeOK
<1>4. Leases' = {lease \in Leases : lease[1] # c}
  BY <1>1, <1>2 DEF Leases
<1>5. wedged' = (\A p \in Ports : <<c, p>> \notin Leases)
  <2>1. port[c] \in 0 .. NPorts
    BY DEF PortsTypeOK
  <2>2. port[c] # 0 => port[c] \in Ports
    BY <2>1, PortsAssumption DEF Ports
  <2>3. \A p \in Ports : <<c, p>> \in Leases <=> p = port[c] /\ p # 0
    BY <1>2 DEF Leases
  <2>4. \A p \in Ports : p # 0
    BY DEF Ports
  <2> QED BY <1>1, <2>2, <2>3, <2>4
<1> QED BY <1>1, <1>3, <1>4, <1>5 DEF Pool!PoolNext, Pool!GiveBack

(* The calls and the table of ports behave as the pool of PortPool, for    *)
(* any number of calls and ports.                                          *)
THEOREM PoolRefinement == PortsSpec => ImplementsPool
<1>1. PortsInit => Pool!PoolInit
  BY DEF PortsInit, Pool!PoolInit, Leases, InProgress
<1>2. PortsInv /\ [PortsNext]_vars => [Pool!PoolNext]_(Pool!poolVars)
  <2> SUFFICES ASSUME PortsInv, [PortsNext]_vars
               PROVE  Pool!PoolNext \/ UNCHANGED Pool!poolVars
    OBVIOUS
  <2>1. CASE StaysInside
    BY <2>1, PoolStays
  <2> QED BY <2>1, StepsInside, BeginLeases, ReturnGivesBack DEF PortsInv
<1> QED BY <1>1, <1>2, PortsInvariance, PTL DEF PortsSpec, ImplementsPool, Pool!PoolSpec

-----------------------------------------------------------------------------
(* Nobody is stuck: api.compile and apimutex                               *)

Compiling(c) == pc[c] \in {"decide", "admindecide", "build", "adminbuild"}
Building(c) == pc[c] \in {"build", "adminbuild"}

(* api.compile is locked by the call that is in CompilePlugin, and one     *)
(* version at most is being compiled.                                      *)
CompileExclusive ==
    /\ \A c \in Calls : Compiling(c) <=> holder = c
    /\ building # 0 <=> \E c \in Calls : Building(c)

(* A step that leaves api.compile alone. *)
LEMMA CompileStays ==
    ASSUME CompileExclusive, UNCHANGED <<holder, building>>,
           \A d \in Calls : /\ Compiling(d)' = Compiling(d)
                            /\ Building(d)' = Building(d)
    PROVE  CompileExclusive'
BY DEF CompileExclusive

LEMMA CompileStepKeeps ==
    ASSUME PortsTypeOK, CompileExclusive, NEW c \in Calls, CompileStep(c)
    PROVE  CompileExclusive'
<1> USE DEF CompileExclusive
<1>1. CASE CompileLock(c)
  <2>1. holder = NoCall /\ holder' = c /\ building' = building
    BY <1>1 DEF CompileLock
  <2>2. /\ ~Compiling(c) /\ Compiling(c)' /\ ~Building(c)' /\ ~Building(c)
        /\ \A d \in Calls : d # c => pc'[d] = pc[d]
    BY <1>1 DEF CompileLock, Goto, ByAdmin, PortsTypeOK, Compiling, Building
  <2>3. \A d \in Calls : ~Compiling(d)
    BY <2>1, PortsAssumption
  <2>4. \A d \in Calls : Compiling(d)' <=> holder' = d
    BY <2>1, <2>2, <2>3 DEF Compiling
  <2>5. \A d \in Calls : Building(d)' = Building(d)
    BY <2>2 DEF Building
  <2> QED BY <2>1, <2>4, <2>5
<1>2. CASE CompileRefuse(c) \/ CompileSkip(c)
  <2>1. holder' = NoCall /\ building' = building
    BY <1>2 DEF CompileRefuse, CompileSkip
  <2>2. /\ Compiling(c) /\ ~Compiling(c)' /\ ~Building(c)' /\ ~Building(c)
        /\ \A d \in Calls : d # c => pc'[d] = pc[d]
    BY <1>2 DEF CompileRefuse, CompileSkip, Goto, AfterCompile, PortsTypeOK, Compiling, Building
  <2>3. \A d \in Calls : ~Compiling(d)'
    BY <2>2 DEF Compiling
  <2>4. \A d \in Calls : Building(d)' = Building(d)
    BY <2>2 DEF Building
  <2> QED BY <2>1, <2>3, <2>4, PortsAssumption
<1>3. CASE CompileBegin(c)
  <2>1. holder' = holder /\ building' = source /\ source # 0
    BY <1>3 DEF CompileBegin
  <2>2. /\ Compiling(c) /\ Compiling(c)' /\ Building(c)'
        /\ \A d \in Calls : d # c => pc'[d] = pc[d]
    BY <1>3 DEF CompileBegin, Goto, ByAdmin, PortsTypeOK, Compiling, Building
  <2>3. \A d \in Calls : Compiling(d)' = Compiling(d)
    BY <2>2 DEF Compiling
  <2> QED BY <2>1, <2>2, <2>3
<1>4. CASE CompileEnd(c)
  <2>1. holder' = NoCall /\ building' = 0
    BY <1>4 DEF CompileEnd
  <2>2. /\ Compiling(c) /\ ~Compiling(c)'
        /\ \A d \in Calls : d # c => pc'[d] = pc[d]
    BY <1>4 DEF CompileEnd, Goto, AfterCompile, PortsTypeOK, Compiling
  <2>3. \A d \in Calls : ~Compiling(d)'
    BY <2>2 DEF Compiling
  <2>4. \A d \in Calls : ~Building(d)'
    BY <2>3 DEF Compiling, Building
  <2> QED BY <2>1, <2>3, <2>4, PortsAssumption
<1> QED BY <1>1, <1>2, <1>3, <1>4 DEF CompileStep

(* Where a handler is when it is not in CompilePlugin. *)
LEMMA OutsideStays ==
    ASSUME PortsTypeOK, CompileExclusive, UNCHANGED <<holder, building>>,
           \A d \in Calls : pc'[d] = pc[d] \/ (~Compiling(d) /\ ~Compiling(d)')
    PROVE  CompileExclusive'
<1>1. \A d \in Calls : Compiling(d)' = Compiling(d) /\ Building(d)' = Building(d)
  BY DEF Compiling, Building
<1> QED BY <1>1, CompileStays

(* A handler that is not in CompilePlugin, and goes where it is not.       *)
LEMMA GoesOutside ==
    ASSUME PortsTypeOK, CompileExclusive, NEW c \in Calls,
           GenericEndpoint(c) \/ RpcStep(c) \/ Return(c) \/ PluginStep(c) \/ PluginDies(c)
    PROVE  CompileExclusive'
<1>1. CASE GenericEndpoint(c)
  <2>1. PICK next \in {"return", "compile", "admincompile"}, b \in BOOLEAN : Begin(c, next, b)
    BY <1>1 DEF GenericEndpoint, GenericGetEndpoint, GenericPostEndpoint,
       GenericDeleteEndpoint, GenericPutEndpoint
  <2>2. /\ pc[c] = "start" /\ pc' = [pc EXCEPT ![c] = next]
        /\ UNCHANGED <<holder, building>>
    BY <2>1 DEF Begin, Goto
  <2>3. \A d \in Calls : pc'[d] = pc[d] \/ (~Compiling(d) /\ ~Compiling(d)')
    BY <2>2 DEF PortsTypeOK, Compiling
  <2> QED BY <2>2, <2>3, OutsideStays
<1>2. CASE RpcStep(c) \/ Return(c)
  <2> USE <1>2 DEF RpcStep, Run, SaveToken, Dial, DialGivesUp, BodyBreaks, Call, CallFails,
                   WaitAfterError, Wait, DeleteToken, Return
  <2>1. UNCHANGED <<holder, building>> /\ ~Compiling(c)
    BY DEF compileVars, Compiling
  <2>2. PICK next \in CallState : /\ pc' = [pc EXCEPT ![c] = next]
                                  /\ next \notin {"decide", "admindecide", "build", "adminbuild"}
    BY DEF CallState, Goto
  <2>3. \A d \in Calls : pc'[d] = pc[d] \/ (~Compiling(d) /\ ~Compiling(d)')
    BY <2>1, <2>2 DEF PortsTypeOK, Compiling
  <2> QED BY <2>1, <2>3, OutsideStays
<1>3. CASE PluginStep(c) \/ PluginDies(c)
  <2> USE <1>3 DEF PluginStep, PluginListens, PluginReplies, PluginExits, PluginDies
  <2>1. UNCHANGED <<holder, building>>
    BY DEF compileVars
  <2>2. \A d \in Calls : pc'[d] = pc[d] \/ (pc[d] = "call" /\ pc'[d] = "drain")
    BY DEF PortsTypeOK
  <2>3. \A d \in Calls : pc'[d] = pc[d] \/ (~Compiling(d) /\ ~Compiling(d)')
    BY <2>2 DEF Compiling
  <2> QED BY <2>1, <2>3, OutsideStays
<1> QED BY <1>1, <1>2, <1>3

(* api.compile is held by whoever compiles, and by nobody else: no way out *)
(* of CompilePlugin leaves it locked.                                      *)
THEOREM CompileIsExclusive == PortsSpec => []CompileExclusive
<1>1. PortsInit => CompileExclusive
  BY PortsAssumption DEF PortsInit, CompileExclusive, Compiling, Building
<1>2. PortsInv /\ CompileExclusive /\ [PortsNext]_vars => CompileExclusive'
  <2> SUFFICES ASSUME PortsTypeOK, CompileExclusive, [PortsNext]_vars
               PROVE  CompileExclusive'
    BY DEF PortsInv
  <2>1. CASE NewSource \/ UNCHANGED vars
    <3>1. UNCHANGED <<holder, building, pc>>
      BY <2>1 DEF NewSource, vars, compileVars
    <3> QED BY <3>1, OutsideStays
  <2> QED BY <2>1, CompileStepKeeps, GoesOutside DEF PortsNext, HandlerStep
<1> QED BY <1>1, <1>2, PortsInvariance, PTL DEF PortsSpec

(* apimutex is left locked by a call that got no port and gave it back,    *)
(* and by no other.                                                        *)
WedgedByRefused == wedged <=> \E c \in Calls : pc[c] = "done" /\ port[c] = 0

THEOREM WedgedByTheRefused == PortsSpec => []WedgedByRefused
<1>1. PortsInit => WedgedByRefused
  BY DEF PortsInit, WedgedByRefused
<1>2. PortsInv /\ WedgedByRefused /\ [PortsNext]_vars => WedgedByRefused'
  <2> SUFFICES ASSUME PortsTypeOK, WedgedByRefused, [PortsNext]_vars
               PROVE  WedgedByRefused'
    BY DEF PortsInv
  <2> USE DEF WedgedByRefused
  <2>1. CASE StaysInside
    BY <2>1 DEF StaysInside, Inside
  <2>2. ASSUME NEW c \in Calls, GenericEndpoint(c)
        PROVE  WedgedByRefused'
    <3>1. PICK next \in {"return", "compile", "admincompile"}, b \in BOOLEAN : Begin(c, next, b)
      BY <2>2 DEF GenericEndpoint, GenericGetEndpoint, GenericPostEndpoint,
         GenericDeleteEndpoint, GenericPutEndpoint
    <3>2. /\ pc[c] = "start" /\ pc' = [pc EXCEPT ![c] = next] /\ UNCHANGED wedged
          /\ \E p \in 0 .. NPorts : port' = [port EXCEPT ![c] = p]
      BY <3>1, PortsAssumption DEF Begin, Goto, Port, Hand, Free, Ports, PortsTypeOK
    <3>3. /\ \A d \in Calls : d # c => pc'[d] = pc[d] /\ port'[d] = port[d]
          /\ pc'[c] # "done"
      BY <3>2 DEF PortsTypeOK
    <3> QED BY <3>2, <3>3
  <2>3. ASSUME NEW c \in Calls, Return(c)
        PROVE  WedgedByRefused'
    <3>1. /\ ~wedged /\ wedged' = (port[c] = 0) /\ port' = port
          /\ pc' = [pc EXCEPT ![c] = "done"]
      BY <2>3 DEF Return, DecrementPort, Goto
    <3>2. pc'[c] = "done" /\ \A d \in Calls : d # c => pc'[d] = pc[d]
      BY <3>1 DEF PortsTypeOK
    <3> QED BY <3>1, <3>2
  <2> QED BY <2>1, <2>2, <2>3, StepsInside
<1> QED BY <1>1, <1>2, PortsInvariance, PTL DEF PortsSpec

-----------------------------------------------------------------------------
(* Nobody is stuck: the calls and their plugins                            *)

Flowing == {"token", "dial", "send", "call", "waiterr", "drain", "delete"}

(* A plugin was started before anyone looks for it, and was listening when *)
(* somebody got a connection to it; a call waits for an answer only from a *)
(* plugin that has the call.                                               *)
FlowOK(c) ==
    /\ pc[c] \in Flowing => plugin[c] # "none"
    /\ conn[c] # NoCall => plugin[conn[c]] \in {"listening", "called", "replied", "gone"}
    /\ pc[c] = "call" => plugin[conn[c]] \in {"called", "gone"}
    /\ token[c] = "gone" => pc[c] \in {"return", "done"}
FlowInv == \A c \in Calls : FlowOK(c)

(* A step about no plugin, connection or token. *)
LEMMA FlowStays ==
    ASSUME PortsInv, FlowInv, UNCHANGED runVars,
           \A d \in Calls : \/ pc'[d] = pc[d] \/ pc'[d] \in {"return", "done"}
                            \/ BeforeRun(d) /\ BeforeRun(d)'
                            \/ pc[d] \in Flowing /\ pc'[d] \in {"waiterr", "delete"}
    PROVE  FlowInv'
<1> SUFFICES ASSUME NEW c \in Calls PROVE FlowOK(c)'
  BY DEF FlowInv
<1>1. FlowOK(c) /\ CallOK(c)
  BY DEF PortsInv, CallInv, FlowInv
<1>2. UNCHANGED <<plugin, conn, token>>
  BY DEF runVars
<1>3. CASE pc'[c] = pc[c]
  BY <1>1, <1>2, <1>3 DEF FlowOK
<1>4. CASE pc'[c] \in {"return", "done"}
  BY <1>1, <1>2, <1>4 DEF FlowOK, Flowing
<1>5. CASE BeforeRun(c) /\ BeforeRun(c)'
  BY <1>1, <1>2, <1>5 DEF FlowOK, CallOK, BeforeRun, Flowing
<1>6. CASE pc[c] \in Flowing /\ pc'[c] \in {"waiterr", "delete"}
  BY <1>1, <1>2, <1>6 DEF FlowOK, Flowing
<1> QED BY <1>3, <1>4, <1>5, <1>6

LEMMA HandlersFlow ==
    ASSUME PortsInv, FlowInv, NEW c \in Calls,
           GenericEndpoint(c) \/ CompileStep(c) \/ Return(c)
    PROVE  FlowInv'
<1> USE DEF PortsInv, PortsTypeOK
<1>1. UNCHANGED runVars
  BY DEF GenericEndpoint, GenericGetEndpoint, GenericPostEndpoint, GenericDeleteEndpoint,
     GenericPutEndpoint, Begin, CompileStep, CompileLock, CompileRefuse, CompileSkip,
     CompileBegin, CompileEnd, Return
<1>2. CASE GenericEndpoint(c)
  <2>1. PICK next \in {"return", "compile", "admincompile"}, b \in BOOLEAN : Begin(c, next, b)
    BY <1>2 DEF GenericEndpoint, GenericGetEndpoint, GenericPostEndpoint,
       GenericDeleteEndpoint, GenericPutEndpoint
  <2>2. pc[c] = "start" /\ pc' = [pc EXCEPT ![c] = next]
    BY <2>1 DEF Begin, Goto
  <2>3. \A d \in Calls : \/ pc'[d] = pc[d] \/ pc'[d] \in {"return", "done"}
                         \/ BeforeRun(d) /\ BeforeRun(d)'
    BY <2>2 DEF BeforeRun
  <2> QED BY <1>1, <2>3, FlowStays
<1>3. CASE CompileStep(c)
  <2>1. PICK next \in CallState : pc' = [pc EXCEPT ![c] = next]
    BY <1>3 DEF CompileStep, CompileLock, CompileRefuse, CompileSkip, CompileBegin, CompileEnd,
       Goto, AfterCompile, CallState
  <2>2. BeforeRun(c) /\ (BeforeRun(c)' \/ pc'[c] = "return")
    BY <1>3 DEF CompileStep, CompileLock, CompileRefuse, CompileSkip, CompileBegin, CompileEnd,
       Goto, AfterCompile, BeforeRun
  <2>3. \A d \in Calls : \/ pc'[d] = pc[d] \/ pc'[d] \in {"return", "done"}
                         \/ BeforeRun(d) /\ BeforeRun(d)'
    BY <2>1, <2>2 DEF BeforeRun
  <2> QED BY <1>1, <2>3, FlowStays
<1>4. CASE Return(c)
  <2>1. \A d \in Calls : pc'[d] = pc[d] \/ pc'[d] \in {"return", "done"}
    BY <1>4 DEF Return, Goto
  <2> QED BY <1>1, <2>1, FlowStays
<1> QED BY <1>2, <1>3, <1>4

LEMMA RpcFlows ==
    ASSUME PortsInv, FlowInv, NEW c \in Calls, RpcStep(c)
    PROVE  FlowInv'
<1> USE DEF PortsInv, PortsTypeOK
<1>0. \A d \in Calls : FlowOK(d) /\ CallOK(d)
  BY DEF FlowInv, CallInv
<1>1. CASE DialGivesUp(c) \/ BodyBreaks(c) \/ CallFails(c) \/ WaitAfterError(c) \/ Wait(c)
  <2>1. UNCHANGED runVars
    BY <1>1 DEF DialGivesUp, BodyBreaks, CallFails, WaitAfterError, Wait
  <2>2. \A d \in Calls : \/ pc'[d] = pc[d] \/ pc'[d] \in {"return", "done"}
                         \/ pc[d] \in Flowing /\ pc'[d] \in {"waiterr", "delete"}
    BY <1>1 DEF DialGivesUp, BodyBreaks, CallFails, WaitAfterError, Wait, Goto, Flowing
  <2> QED BY <2>1, <2>2, FlowStays
<1>2. CASE Run(c)
  <2>1. /\ pc[c] = "run" /\ plugin[c] = "none" /\ token[c] = "none"
        /\ UNCHANGED <<conn, token>>
    BY <1>0, <1>2 DEF Run, CallOK, BeforeRun
  <2>2. \A d \in Calls : conn[d] # c \/ conn[d] = NoCall
    BY <1>0, <2>1 DEF FlowOK
  <2>3. /\ \A d \in Calls : d # c => pc'[d] = pc[d] /\ plugin'[d] = plugin[d]
        /\ \/ pc'[c] = "return"
           \/ pc'[c] = "token" /\ plugin'[c] = "starting"
    BY <1>2 DEF Run, Goto, Set
  <2>4. conn[c] # c => conn[c] = NoCall \/ plugin'[conn[c]] = plugin[conn[c]]
    BY <2>3
  <2>5. FlowOK(c)'
    BY <1>0, <2>1, <2>2, <2>3, <2>4 DEF FlowOK, Flowing
  <2>6. ASSUME NEW d \in Calls, d # c PROVE FlowOK(d)'
    <3>1. conn[d] # NoCall => plugin'[conn[d]] = plugin[conn[d]]
      BY <2>2, <2>3
    <3>2. pc[d] = "call" => conn[d] # NoCall
      BY <1>0 DEF CallOK
    <3> QED BY <1>0, <2>1, <2>3, <2>6, <3>1, <3>2 DEF FlowOK
  <2> QED BY <2>5, <2>6 DEF FlowInv
<1>3. CASE SaveToken(c)
  <2>1. pc[c] = "token" /\ UNCHANGED <<plugin, conn>>
    BY <1>3 DEF SaveToken
  <2>2. /\ \A d \in Calls : d # c => pc'[d] = pc[d] /\ token'[d] = token[d]
        /\ pc'[c] \in {"dial", "return"}
        /\ token'[c] \in {token[c], "live", "failed"}
    BY <1>3 DEF SaveToken, Goto, SetToken
  <2>3. \A d \in Calls : FlowOK(d)'
    BY <1>0, <2>1, <2>2 DEF FlowOK, Flowing
  <2> QED BY <2>3 DEF FlowInv
<1>4. CASE Dial(c)
  <2>1. PICK d \in Calls : ListensOn(d, port[c]) /\ conn' = [conn EXCEPT ![c] = d]
    BY <1>4 DEF Dial
  <2>2. pc[c] = "dial" /\ pc'[c] = "send" /\ UNCHANGED <<plugin, token>>
    BY <1>4 DEF Dial, Goto
  <2>3. /\ \A e \in Calls : e # c => pc'[e] = pc[e] /\ conn'[e] = conn[e]
        /\ conn'[c] = d /\ plugin[d] \in {"listening", "called"}
    BY <1>4, <2>1 DEF Dial, Goto, ListensOn
  <2>4. \A e \in Calls : FlowOK(e)'
    BY <1>0, <2>2, <2>3 DEF FlowOK, Flowing
  <2> QED BY <2>4 DEF FlowInv
<1>5. CASE Call(c)
  <2>1. /\ pc[c] = "send" /\ pc'[c] = "call" /\ UNCHANGED <<conn, token>>
        /\ plugin[conn[c]] = "listening" /\ plugin' = [plugin EXCEPT ![conn[c]] = "called"]
        /\ \A d \in Calls : d # c => pc'[d] = pc[d]
    BY <1>5 DEF Call, Goto, Set
  <2>2. conn[c] \in Calls /\ \A d \in Calls : pc[d] = "call" => conn[d] \in Calls
    BY <1>0, <2>1 DEF CallOK
  <2>3. \A d \in Calls : plugin'[d] = plugin[d] \/ (d = conn[c] /\ plugin'[d] = "called")
    BY <2>1
  <2>4. \A d \in Calls : conn[d] \in Calls \/ conn[d] = NoCall
    OBVIOUS
  <2>5. plugin'[conn[c]] = "called"
    BY <2>1, <2>2
  <2>6. \A d \in Calls : FlowOK(d)'
    BY <1>0, <2>1, <2>2, <2>3, <2>4, <2>5 DEF FlowOK, Flowing
  <2> QED BY <2>6 DEF FlowInv
<1>6. CASE DeleteToken(c)
  <2>1. UNCHANGED <<plugin, conn>> /\ pc'[c] = "return"
    BY <1>6 DEF DeleteToken, Goto
  <2>2. \A d \in Calls : d # c => pc'[d] = pc[d] /\ token'[d] = token[d]
    BY <1>6 DEF DeleteToken, Goto, SetToken
  <2>3. \A d \in Calls : FlowOK(d)'
    BY <1>0, <2>1, <2>2 DEF FlowOK, Flowing
  <2> QED BY <2>3 DEF FlowInv
<1> QED BY <1>1, <1>2, <1>3, <1>4, <1>5, <1>6 DEF RpcStep

LEMMA PluginsFlow ==
    ASSUME PortsInv, FlowInv, NEW c \in Calls, PluginStep(c) \/ PluginDies(c)
    PROVE  FlowInv'
<1> USE DEF PortsInv, PortsTypeOK, PluginStep, PluginListens, PluginReplies, PluginExits,
            PluginDies, Set
<1>0. \A d \in Calls : FlowOK(d) /\ CallOK(d)
  BY DEF FlowInv, CallInv
<1>1. /\ UNCHANGED <<conn, token>>
      /\ \A d \in Calls : d # c => plugin'[d] = plugin[d]
      /\ plugin'[c] \in {"listening", "replied", "gone"}
      /\ plugin'[c] = "listening" => plugin[c] = "starting"
  OBVIOUS
<1>2. \A d \in Calls : \/ pc'[d] = pc[d]
                       \/ pc[d] = "call" /\ pc'[d] = "drain"
  OBVIOUS
<1>3. plugin'[c] = "replied" => \A d \in Calls : conn[d] = c => pc'[d] # "call"
  OBVIOUS
<1>4. ASSUME NEW d \in Calls PROVE FlowOK(d)'
  <2>1. pc'[d] \in Flowing => pc[d] \in Flowing
    BY <1>2 DEF Flowing
  <2>2. pc'[d] \in Flowing => plugin'[d] # "none"
    BY <1>0, <1>1, <2>1 DEF FlowOK
  <2>3. conn[d] # NoCall =>
          plugin'[conn[d]] \in {"listening", "called", "replied", "gone"}
    BY <1>0, <1>1 DEF FlowOK
  <2>4. pc'[d] = "call" => plugin'[conn[d]] \in {"called", "gone"}
    <3>1. pc'[d] = "call" => pc[d] = "call" /\ conn[d] \in Calls
      BY <1>0, <1>2 DEF CallOK
    <3> QED BY <1>0, <1>1, <1>3, <3>1 DEF FlowOK
  <2>5. token'[d] = "gone" => pc'[d] \in {"return", "done"}
    BY <1>0, <1>1, <1>2 DEF FlowOK
  <2> QED BY <1>1, <2>2, <2>3, <2>4, <2>5 DEF FlowOK
<1> QED BY <1>4 DEF FlowInv

(* When a handler can take a step, and when a plugin can. *)
HandlerCan(c) ==
    \/ pc[c] \in {"compile", "admincompile"} /\ holder = NoCall
    \/ Compiling(c)
    \/ pc[c] \in {"run", "token"}
    \/ /\ pc[c] = "dial"
       /\ \/ \E d \in Calls : ListensOn(d, port[c])
          \/ "slow" \in Events \/ port[c] = 0 \/ plugin[c] = "gone"
    \/ pc[c] = "send" /\ plugin[conn[c]] \in {"listening", "gone"}
    \/ pc[c] = "call" /\ plugin[conn[c]] = "gone"
    \/ pc[c] \in {"waiterr", "drain"} /\ plugin[c] = "gone"
    \/ pc[c] = "delete" /\ token[c] \in {"live", "none"}
    \/ pc[c] = "return" /\ ~wedged

PluginCan(c) == plugin[c] \in {"starting", "called", "replied"}

(* A call that has not ended can go on, or whoever it waits for can: its   *)
(* plugin, the one it talks to, or the call that compiles; but for a call  *)
(* that waits for its plugin that waits for a call, and one that waits for *)
(* apimutex, left locked (CallsEnd).                                       *)
NobodyStuck ==
    \A c \in Calls : InProgress(c) =>
        \/ Waiting(c) \/ (pc[c] = "return" /\ wedged)
        \/ HandlerCan(c)
        \/ holder \in Calls /\ HandlerCan(holder)
        \/ \E d \in Calls : d \in {c, conn[c]} /\ PluginCan(d)

THEOREM CallsAreNotStuck == PortsSpec => []NobodyStuck
<1>1. PortsInit => FlowInv
  BY DEF PortsInit, FlowInv, FlowOK, Flowing
<1>2. PortsInv /\ FlowInv /\ [PortsNext]_vars => FlowInv'
  <2> SUFFICES ASSUME PortsInv, FlowInv, [PortsNext]_vars PROVE FlowInv'
    OBVIOUS
  <2>1. CASE NewSource \/ UNCHANGED vars
    BY <2>1, FlowStays DEF NewSource, vars
  <2> QED BY <2>1, HandlersFlow, RpcFlows, PluginsFlow DEF PortsNext, HandlerStep
<1>3. PortsInv /\ CompileExclusive /\ FlowInv => NobodyStuck
  <2> SUFFICES ASSUME PortsInv, CompileExclusive, FlowInv, NEW c \in Calls, InProgress(c),
                      ~Waiting(c), ~(pc[c] = "return" /\ wedged), ~HandlerCan(c)
               PROVE  \/ holder \in Calls /\ HandlerCan(holder)
                      \/ \E d \in Calls : d \in {c, conn[c]} /\ PluginCan(d)
    BY DEF NobodyStuck
  <2> USE DEF HandlerCan, PluginCan
  <2>0. FlowOK(c) /\ CallOK(c) /\ PortsTypeOK
    BY DEF PortsInv, FlowInv, CallInv
  <2>1. plugin[c] \in PluginState /\ pc[c] \in CallState \ {"start", "done"}
    BY <2>0 DEF PortsTypeOK, InProgress
  <2>2. CASE pc[c] \in {"compile", "admincompile"}
    <3>1. holder \in Calls
      BY <2>0, <2>2 DEF PortsTypeOK
    <3>2. Compiling(holder)
      BY <3>1 DEF CompileExclusive
    <3> QED BY <3>1, <3>2
  <2>3. CASE pc[c] = "dial"
    <3>1. plugin[c] \in {"starting", "replied", "listening", "called"}
      BY <2>0, <2>1, <2>3 DEF FlowOK, Flowing, PluginState
    <3>2. plugin[c] \notin {"listening", "called"}
      BY <2>3, <3>1 DEF ListensOn
    <3> QED BY <3>1, <3>2
  <2>4. CASE pc[c] \in {"send", "call"}
    <3>1. conn[c] \in Calls /\ plugin[conn[c]] \in {"listening", "called", "replied", "gone"}
      BY <2>0, <2>4 DEF FlowOK, CallOK, PortsTypeOK
    <3>2. plugin[conn[c]] \in {"called", "replied"}
      BY <2>0, <2>4, <3>1 DEF FlowOK
    <3> QED BY <3>1, <3>2
  <2>5. CASE pc[c] \in {"waiterr", "drain"}
    BY <2>0, <2>1, <2>5 DEF FlowOK, Flowing, PluginState, Waiting
  <2>6. CASE pc[c] = "delete"
    <3>1. token[c] \in {"live", "none"}
      BY <2>0, <2>6 DEF FlowOK, CallOK, PortsTypeOK, TokenState
    <3> QED BY <2>6, <3>1
  <2>7. CASE Compiling(c) \/ pc[c] \in {"run", "token", "return"}
    BY <2>7
  <2> QED BY <2>1, <2>2, <2>3, <2>4, <2>5, <2>6, <2>7 DEF CallState, Compiling
<1> QED BY <1>1, <1>2, <1>3, PortsInvariance, CompileIsExclusive, PTL DEF PortsSpec

(* How far a handler has come. *)
Phase(place) ==
    CASE place = "start" -> 0
      [] place \in {"compile", "admincompile"} -> 1
      [] place \in {"decide", "admindecide"} -> 2
      [] place \in {"build", "adminbuild"} -> 3
      [] place = "run" -> 4
      [] place = "token" -> 5
      [] place = "dial" -> 6
      [] place = "send" -> 7
      [] place = "call" -> 8
      [] place \in {"waiterr", "drain"} -> 9
      [] place = "delete" -> 10
      [] place = "return" -> 11
      [] OTHER -> 12

(* A handler only goes forward: no failure, of its own or of its plugin,   *)
(* makes it try a step again, so that it ends after twelve steps at most.  *)
OnlyForward ==
    [][\A c \in Calls : pc'[c] # pc[c] => Phase(pc[c]) < Phase(pc'[c])]_vars

THEOREM CallsGoForward == PortsSpec => OnlyForward
<1>1. PortsInv /\ [PortsNext]_vars =>
        [\A c \in Calls : pc'[c] # pc[c] => Phase(pc[c]) < Phase(pc'[c])]_vars
  <2> SUFFICES ASSUME PortsTypeOK, PortsNext, NEW c \in Calls, pc'[c] # pc[c]
               PROVE  Phase(pc[c]) < Phase(pc'[c])
    BY DEF PortsInv
  <2> USE DEF PortsTypeOK, Phase
  <2>1. CASE \E d \in Calls : GenericEndpoint(d)
    <3>1. PICK d \in Calls : GenericEndpoint(d)
      BY <2>1
    <3>2. d = c /\ pc[c] = "start" /\ pc'[c] \in {"return", "compile", "admincompile"}
      BY <3>1 DEF GenericEndpoint, GenericGetEndpoint, GenericPostEndpoint,
         GenericDeleteEndpoint, GenericPutEndpoint, Begin, Goto
    <3> QED BY <3>2
  <2>2. CASE \E d \in Calls : CompileStep(d)
    <3>1. PICK d \in Calls : CompileStep(d)
      BY <2>2
    <3>2. d = c
      BY <3>1 DEF CompileStep, CompileLock, CompileRefuse, CompileSkip, CompileBegin, CompileEnd,
         Goto
    <3>3. \/ /\ pc[c] \in {"compile", "admincompile"}
             /\ pc'[c] \in {"decide", "admindecide"}
          \/ /\ pc[c] \in {"decide", "admindecide"}
             /\ pc'[c] \in {"build", "adminbuild", "return", "run"}
          \/ pc[c] \in {"build", "adminbuild"} /\ pc'[c] \in {"return", "run"}
      BY <3>1, <3>2 DEF CompileStep, CompileLock, CompileRefuse, CompileSkip, CompileBegin,
         CompileEnd, Goto, ByAdmin, AfterCompile
    <3> QED BY <3>3
  <2>3. CASE \E d \in Calls : RpcStep(d) \/ Return(d)
    <3>1. PICK d \in Calls : RpcStep(d) \/ Return(d)
      BY <2>3
    <3> USE DEF RpcStep, Run, SaveToken, Dial, DialGivesUp, BodyBreaks, Call, CallFails,
                WaitAfterError, Wait, DeleteToken, Return, Goto
    <3>2. d = c
      BY <3>1
    <3>3. \/ pc[c] = "run" /\ pc'[c] \in {"token", "return"}
          \/ pc[c] = "token" /\ pc'[c] \in {"dial", "return"}
          \/ pc[c] = "dial" /\ pc'[c] \in {"send", "waiterr"}
          \/ pc[c] \in {"send", "call"} /\ pc'[c] = "waiterr"
          \/ pc[c] = "send" /\ pc'[c] = "call"
          \/ pc[c] = "waiterr" /\ pc'[c] = "return"
          \/ pc[c] = "drain" /\ pc'[c] = "delete"
          \/ pc[c] = "delete" /\ pc'[c] = "return"
          \/ pc[c] = "return" /\ pc'[c] = "done"
      BY <3>1, <3>2
    <3> QED BY <3>3
  <2>4. CASE \E d \in Calls : PluginStep(d) \/ PluginDies(d)
    <3>1. pc[c] = "call" /\ pc'[c] = "drain"
      BY <2>4 DEF PluginStep, PluginListens, PluginReplies, PluginExits, PluginDies
    <3> QED BY <3>1
  <2>5. ~NewSource
    BY DEF NewSource
  <2> QED BY <2>1, <2>2, <2>3, <2>4, <2>5 DEF PortsNext, HandlerStep
<1> QED BY <1>1, PortsInvariance, PTL DEF PortsSpec, OnlyForward
=============================================================================
