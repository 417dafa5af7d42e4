---------------------------- MODULE OcrLifecycle ----------------------------
(***************************************************************************)
(* What the OCR subsystem promises about a job, without workers, queue or  *)
(* heartbeats: its status, the number of attempts started and the set of   *)
(* pages with a stored result.  Pages are stored in order and never lost;  *)
(* a job ends COMPLETED or PARTIAL only when every page of the document    *)
(* has a result; a terminal status is final.                               *)
(***************************************************************************)
EXTENDS Naturals

CONSTANTS
    Jobs,
    PageCount       \* pages of the document of a job

VARIABLES
    status,
    attempts,
    stored

vars == <<status, attempts, stored>>

Active == {"QUEUED", "PROCESSING"}

Init ==
    /\ status = [j \in Jobs |-> "QUEUED"]
    /\ attempts = [j \in Jobs |-> 0]
    /\ stored = [j \in Jobs |-> {}]

\* A worker starts an attempt, of a queued job or of one whose worker died.
Start(j) ==
    /\ status[j] \in Active
    /\ status' = [status EXCEPT ![j] = "PROCESSING"]
    /\ attempts' = [attempts EXCEPT ![j] = @ + 1]
    /\ UNCHANGED stored

\* The result of a page that follows the stored ones (or replaces one).
StorePage(j, p) ==
    /\ \A q \in 1..(p - 1) : q \in stored[j]
    /\ stored' = [stored EXCEPT ![j] = @ \union {p}]
    /\ UNCHANGED <<status, attempts>>

\* A transient failure or a recovery gives the job back.
GiveBack(j) ==
    /\ status[j] = "PROCESSING"
    /\ status' = [status EXCEPT ![j] = "QUEUED"]
    /\ UNCHANGED <<attempts, stored>>

\* Every page has a result.
Conclude(j, s) ==
    /\ status[j] = "PROCESSING"
    /\ stored[j] = 1..PageCount[j]
    /\ status' = [status EXCEPT ![j] = s]
    /\ UNCHANGED <<attempts, stored>>

\* A permanent error, an exhausted budget or a vanished document.
GiveUp(j, s) ==
    /\ status[j] \in Active
    /\ status' = [status EXCEPT ![j] = s]
    /\ UNCHANGED <<attempts, stored>>

Next ==
    \E j \in Jobs :
        \/ Start(j)
        \/ GiveBack(j)
        \/ \E p \in 1..PageCount[j] : StorePage(j, p)
        \/ \E s \in {"COMPLETED", "PARTIAL"} : Conclude(j, s)
        \/ \E s \in {"FAILED", "CANCELLED"} : GiveUp(j, s)

Spec == Init /\ [][Next]_vars

=============================================================================
