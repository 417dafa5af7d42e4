----------------------------- MODULE OcrResults ------------------------------
(***************************************************************************)
(* A client that reads the results of the job of OcrExtraction             *)
(* (OcrService.results): it is refused as long as the job is active and    *)
(* then walks through the pages of results until the last it is told of.   *)
(* Like OcrExtraction it has one worker: the pages that a worker without   *)
(* its claim writes after the end are the subject of ResultsImmutable in   *)
(* OcrPipeline.  The pageNumber filter of the query is left out.           *)
(***************************************************************************)
EXTENDS OcrExtraction, Paging

CONSTANT MaxLimit   \* OCR_RESULTS_MAX_PAGE_SIZE

ASSUME ResultsAssumption == MaxLimit \in Nat \ {0}

VARIABLE reader     \* limit 0: nothing read yet; got: the page numbers received

rvars == <<file, stored, attempts, work, disk, reader>>

RInit == Init /\ reader = [limit |-> 0, page |-> 1, got |-> <<>>]

\* The rows of the job, ordered by page number.
Rows ==
    [k \in 1..Cardinality(DOMAIN stored) |->
        CHOOSE p \in DOMAIN stored : Cardinality({q \in DOMAIN stored : q <= p}) = k]

Terminated == work.pc \in {"done", "failed"}

\* The answer to a client that comes too early is OCR_NOT_READY.
ResultsNotReady == ~Terminated /\ UNCHANGED rvars

\* The client asks for its next page; the first is asked for in any case.
ReadResults(limit) ==
    /\ Terminated
    /\ reader.limit \in {0, limit}
    /\ reader.page = 1 \/ reader.page <= TotalPages(Len(Rows), limit)
    /\ reader' = [limit |-> limit, page |-> reader.page + 1,
                  got |-> reader.got \o Items(Rows, reader.page, limit)]
    /\ UNCHANGED vars

\* Only a further attempt would change the rows, and a job that ended has none.
RNext ==
    \/ Next /\ UNCHANGED reader
    \/ ResultsNotReady
    \/ \E limit \in 1..MaxLimit : ReadResults(limit)

RSpec == RInit /\ [][RNext]_rvars

-----------------------------------------------------------------------------
(* Properties *)

\* A client that follows the page count gets every stored page of the job exactly
\* once and in order, whatever its limit and however many pages the attempts
\* have left behind; and it has seen no page while the job was active.
WalkExact ==
    /\ reader.got # <<>> => Terminated
    /\ reader.limit # 0 /\ reader.page > TotalPages(Len(Rows), reader.limit) =>
          reader.got = Rows
=============================================================================
