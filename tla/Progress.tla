------------------------------ MODULE Progress -------------------------------
(***************************************************************************)
(* progress.Progress: counters that the main thread changes inside a lock, *)
(* field by field, and a daemon thread that wakes up from time to time,    *)
(* takes the lock and shows them.  Showing has no effect on the state: the *)
(* rate limit of _emit, the rate and the estimate are left out.            *)
(***************************************************************************)
EXTENDS Naturals, SequencesExt

VARIABLES
    counters,   \* _phase, _current, _total (0 if unknown), _durable, _failures
    calls,      \* calls of the main thread that are still to be made
    writes,     \* assignments left in the critical section of the main thread
    lock,       \* who holds _lock
    beat,       \* where the heartbeat thread is
    stopping    \* _stop is set

progressVars == <<counters, calls, writes, lock, beat, stopping>>

Phases == {"fingerprint", "discovery", "expand", "plan", "publish", "report", "completion"}

ProgressInit ==
    /\ counters = [phase |-> "fingerprint", current |-> 0, total |-> 0, durable |-> 0, failures |-> 0]
    /\ calls = <<>> /\ writes = <<>>
    /\ lock = "free"
    /\ beat = "waiting"
    /\ stopping = FALSE

-----------------------------------------------------------------------------
\* The calls of the main thread.

Set(field, value) == [field |-> field, value |-> value]

Phase(name, total) == <<"phase", name, total>>
Count(field) == <<"count", field>>
AdvanceCall == Count("current")
CommittedCall == Count("durable")
FailedCall == Count("failures")
CloseCall == <<"close">>

\* What a call assigns, one field after the other.
Assignments(call) ==
    CASE call[1] = "phase" -> <<Set("phase", call[2]), Set("current", 0), Set("total", call[3])>>
      [] call[1] = "count" -> <<Set(call[2], counters[call[2]] + 1)>>
      [] call[1] = "close" -> <<Set("phase", "completion"), Set("current", counters.durable),
                                Set("total", counters.durable)>>

\* The main thread has made its calls and goes on with its own work.
Ready == calls = <<>> /\ lock # "main"

BeginCall ==
    /\ calls # <<>> /\ lock = "free"
    /\ lock' = "main"
    /\ writes' = Assignments(Head(calls))
    /\ calls' = Tail(calls)
    /\ UNCHANGED <<counters, beat, stopping>>

Assign ==
    /\ lock = "main" /\ writes # <<>>
    /\ counters' = [counters EXCEPT ![Head(writes).field] = Head(writes).value]
    /\ writes' = Tail(writes)
    /\ UNCHANGED <<calls, lock, beat, stopping>>

EndCall ==
    /\ lock = "main" /\ writes = <<>>
    /\ lock' = "free"
    /\ UNCHANGED <<counters, calls, writes, beat, stopping>>

\* close, up to the join: the flag is set first.
Stop ==
    /\ stopping' = TRUE
    /\ UNCHANGED <<counters, calls, writes, lock, beat>>

\* join(timeout=1.0) returns when the thread is gone, or after a second; then
\* the final values are set.
Join ==
    /\ stopping
    /\ calls' = <<CloseCall>>
    /\ UNCHANGED <<counters, writes, lock, beat, stopping>>

-----------------------------------------------------------------------------
\* The heartbeat thread.

\* The wait ran into its timeout before the flag was set.
Wake ==
    /\ beat = "waiting" /\ ~stopping
    /\ beat' = "due"
    /\ UNCHANGED <<counters, calls, writes, lock, stopping>>

\* Mutant: the heartbeat shows the counters without taking the lock.
LockIgnored == TRUE

LockFree == lock = "free"

BeginBeat ==
    /\ beat = "due" /\ LockFree
    /\ lock' = "heartbeat"
    /\ beat' = "emitting"
    /\ UNCHANGED <<counters, calls, writes, stopping>>

EndBeat ==
    /\ beat = "emitting"
    /\ lock' = "free"
    /\ beat' = "waiting"
    /\ UNCHANGED <<counters, calls, writes, stopping>>

Quit ==
    /\ beat = "waiting" /\ stopping
    /\ beat' = "gone"
    /\ UNCHANGED <<counters, calls, writes, lock, stopping>>

Heartbeat == Wake \/ BeginBeat \/ EndBeat \/ Quit

ProgressTypeOK ==
    /\ counters \in [phase : Phases, current : Nat, total : Nat, durable : Nat, failures : Nat]
    /\ lock \in {"free", "main", "heartbeat"}
    /\ beat \in {"waiting", "due", "emitting", "gone"}
    /\ stopping \in BOOLEAN
=============================================================================
