--------------------------- MODULE MCOcrPipeline ---------------------------
(* Small instances of OcrPipeline for TLC. *)
EXTENDS OcrPipeline

\* Documents of two pages, so that a job can be cut between pages and can end
\* with both kinds of page.
TwoPages == [j \in Jobs |-> 2]

\* The faults a behaviour has had, other than lapses.
OtherFaults ==
    { f \in {"crash", "loss", "deletion", "mkdtemp"} :
        \/ f = "crash" /\ budget.crashes < MaxCrashes
        \/ f = "loss" /\ budget.losses < MaxLosses
        \/ f = "deletion" /\ \E j \in Jobs : ~docs[j].ready
        \/ f = "mkdtemp" /\ \E i \in Instances : leaked[i] # {} }

\* Faults come in pairs, except that a behaviour in which a live worker's
\* heartbeat or lock lapses has no other fault and reads its first page without
\* error.
FewFaults ==
    /\ Cardinality(OtherFaults) <= 2
    /\ budget.lapses < MaxLapses =>
          /\ OtherFaults = {}
          /\ \A j \in Jobs : pages[j][1] # "failed"

OnePage == [j \in Jobs |-> 1]
=============================================================================
