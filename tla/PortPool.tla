------------------------------ MODULE PortPool ------------------------------
(***************************************************************************)
(* What the manager promises about the ports of its plugins, seen from     *)
(* outside: a call asks once, gets a port that nobody has, or none if      *)
(* every one is leased, and gives it back once, when it is over.  A call   *)
(* that got none and gives that back leaves the pool jammed.               *)
(***************************************************************************)
CONSTANTS Calls, Ports

VARIABLES
    leases,  \* the pairs <<call, port>> that are out
    served,  \* the calls that have asked
    over,    \* the calls that have given back what they got
    jammed   \* the pool serves nobody any more

poolVars == <<leases, served, over, jammed>>

Leased == {lease[2] : lease \in leases}

PoolInit == leases = {} /\ served = {} /\ over = {} /\ jammed = FALSE

Lease(c, p) ==
    /\ ~jammed
    /\ c \notin served
    /\ p \in Ports \ Leased
    /\ leases' = leases \cup {<<c, p>>}
    /\ served' = served \cup {c}
    /\ UNCHANGED <<over, jammed>>

Refuse(c) ==
    /\ ~jammed
    /\ c \notin served
    /\ Ports = Leased
    /\ served' = served \cup {c}
    /\ UNCHANGED <<leases, over, jammed>>

GiveBack(c) ==
    /\ ~jammed
    /\ c \in served \ over
    /\ leases' = {lease \in leases : lease[1] # c}
    /\ over' = over \cup {c}
    /\ jammed' = (\A p \in Ports : <<c, p>> \notin leases)
    /\ UNCHANGED served

PoolNext ==
    \E c \in Calls : Refuse(c) \/ GiveBack(c) \/ \E p \in Ports : Lease(c, p)

PoolSpec == PoolInit /\ [][PoolNext]_poolVars
=============================================================================
