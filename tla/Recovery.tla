------------------------------ MODULE Recovery ------------------------------
(***************************************************************************)
(* What a destination promises to whoever looks at its public files: it is *)
(* bound to one source and policy, then to one plan; after that files only *)
(* appear, whole, each at its own path and only while the path is free;    *)
(* and it is finished no earlier than the last of them.  Other programs    *)
(* may put files there too, and keep them.                                 *)
(*                                                                         *)
(* A plan is seen here as the function from path to the content it gets,   *)
(* or Absent.  There is no process, journal, staging or retry.             *)
(***************************************************************************)
EXTENDS Naturals

CONSTANTS
    Path,       \* public paths
    Content,    \* contents the tool may publish
    Owner,      \* identities a destination can be bound to
    Absent, Foreign

VARIABLES
    bound,      \* {} or {the identity the destination belongs to}
    promise,    \* {} or {the plan: path -> content or Absent}
    shown,      \* what stands at each path
    finished

recoveryVars == <<bound, promise, shown, finished>>

RecoveryInit ==
    /\ bound = {}
    /\ promise = {}
    /\ shown = [f \in Path |-> Absent]
    /\ finished = FALSE

Bind(o) ==
    /\ bound = {} /\ bound' = {o}
    /\ UNCHANGED <<promise, shown, finished>>

Decide(pl) ==
    /\ bound # {} /\ promise = {} /\ promise' = {pl}
    /\ \A f, g \in Path : pl[f] = pl[g] /\ pl[f] # Absent => f = g
    /\ UNCHANGED <<bound, shown, finished>>

Deliver(f) ==
    /\ shown[f] = Absent
    /\ \E pl \in promise : pl[f] # Absent /\ shown' = [shown EXCEPT ![f] = pl[f]]
    /\ UNCHANGED <<bound, promise, finished>>

Finish ==
    /\ promise # {}
    /\ \A pl \in promise : \A f \in Path : pl[f] # Absent => shown[f] = pl[f]
    /\ finished' = TRUE
    /\ UNCHANGED <<bound, promise, shown>>

Occupy(f) ==
    /\ shown[f] = Absent
    /\ shown' = [shown EXCEPT ![f] = Foreign]
    /\ UNCHANGED <<bound, promise, finished>>

RecoveryNext ==
    \/ \E o \in Owner : Bind(o)
    \/ \E pl \in [Path -> Content \cup {Absent}] : Decide(pl)
    \/ \E f \in Path : Deliver(f) \/ Occupy(f)
    \/ Finish

RecoverySpec == RecoveryInit /\ [][RecoveryNext]_recoveryVars
=============================================================================
