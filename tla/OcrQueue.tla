------------------------------ MODULE OcrQueue ------------------------------
(***************************************************************************)
(* The BullMQ entry of an OCR job, as OcrQueueService configures it: keyed *)
(* by the job id, `attempts` deliveries, finished entries removed at once, *)
(* one stalled redelivery.  BullMQ itself is external; the operators are   *)
(* what the worker and the producer rely on.  An entry is a record         *)
(*   state   absent, waiting, active or delayed (backoff)                  *)
(*   made    deliveries that ended in an exception                         *)
(*   stalls  times the lock of a delivery expired                          *)
(*   owner   the instance holding the lock of an active entry              *)
(* An entry in a finished state never exists (removeOnComplete,            *)
(* removeOnFail), so removeStaleEntry, which only removes such an entry,   *)
(* changes nothing.                                                        *)
(***************************************************************************)
EXTENDS Naturals

CONSTANTS
    Instances,      \* processes that run OcrWorkerService
    NoInstance,     \* nobody
    MaxAttempts     \* max_attempts of a job and `attempts` of its entry

ASSUME InstancesAssumption == NoInstance \notin Instances

ASSUME MaxAttemptsAssumption == MaxAttempts \in Nat \ {0}

MaxStalledCount == 1

\* How a delivery ends for BullMQ: the handler returned, threw, or threw an
\* UnrecoverableError.
Outcome == {"done", "retry", "dead"}

Entry ==
    [ state  : {"absent", "waiting", "active", "delayed"},
      made   : Nat,
      stalls : Nat,
      owner  : Instances \union {NoInstance} ]

NoEntry == [state |-> "absent", made |-> 0, stalls |-> 0, owner |-> NoInstance]

IsPending(e) == e.state # "absent"

\* enqueue: adding an id that exists returns the existing entry.
AddEntry(e) == IF IsPending(e) THEN e ELSE [NoEntry EXCEPT !.state = "waiting"]

TakeEntry(e, i) == [e EXCEPT !.state = "active", !.owner = i]

\* The end of instance i's delivery; without the lock BullMQ ignores it.
SettleEntry(e, i, outcome) ==
    CASE e.state # "active" \/ e.owner # i -> e
      [] e.state = "active" /\ e.owner = i /\ outcome = "retry"
            /\ e.made + 1 < MaxAttempts
            -> [e EXCEPT !.state = "delayed", !.made = @ + 1, !.owner = NoInstance]
      [] OTHER -> NoEntry

\* The stalled check found the lock of an active entry expired.
StallEntry(e) ==
    IF e.stalls < MaxStalledCount
    THEN [e EXCEPT !.state = "waiting", !.stalls = @ + 1, !.owner = NoInstance]
    ELSE NoEntry

PromoteEntry(e) == [e EXCEPT !.state = "waiting"]

=============================================================================
