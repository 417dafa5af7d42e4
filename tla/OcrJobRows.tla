----------------------------- MODULE OcrJobRows -----------------------------
(***************************************************************************)
(* The persistence layer of an OCR job (OcrJobService): the row of         *)
(* `ocr_jobs`, the rows of `ocr_pages` that belong to it, and the          *)
(* conditional UPDATE statements, one operator per statement.  An operator *)
(* takes the row before the statement and returns the row after it; a      *)
(* statement whose WHERE clause does not match returns the row unchanged.  *)
(*                                                                         *)
(* A row is a record                                                       *)
(*   status     the OcrJobStatus                                           *)
(*   attempts   attempt_count                                              *)
(*   total      total_pages, 0 for NULL                                    *)
(*   processed  processed_pages                                            *)
(*   failed     failed_pages                                               *)
(*   error      error_code, abstracted to whether it is one of             *)
(*              PERMANENT_OCR_ERROR_CODES ("permanent") or another code    *)
(*              ("retryable"); "none" for NULL                             *)
(*   fresh      heartbeat_at is younger than OCR_STALE_JOB_MS              *)
(* The pages of a job are a function from page numbers to "none" (no row), *)
(* "ok" (COMPLETED or EMPTY) or "failed" (FAILED).                         *)
(***************************************************************************)
EXTENDS Naturals, FiniteSets

ActiveStatus == {"QUEUED", "PROCESSING"}

TerminalStatus == {"COMPLETED", "PARTIAL", "FAILED", "CANCELLED"}

ErrorCode == {"permanent", "retryable"}

JobRow ==
    [ status    : ActiveStatus \union TerminalStatus,
      attempts  : Nat,
      total     : Nat,
      processed : Nat,
      failed    : Nat,
      error     : ErrorCode \union {"none"},
      fresh     : BOOLEAN ]

PageRow == {"none", "ok", "failed"}

\* The row createJob inserts.
NewJob ==
    [ status |-> "QUEUED", attempts |-> 0, total |-> 0, processed |-> 0,
      failed |-> 0, error |-> "none", fresh |-> FALSE ]

-----------------------------------------------------------------------------
(* Pages *)

StoredPages(pg) == {p \in DOMAIN pg : pg[p] # "none"}

FailedPages(pg) == {p \in DOMAIN pg : pg[p] = "failed"}

\* What finalize reads: how many pages there are and how many failed.
Tally(pg) ==
    [all |-> Cardinality(StoredPages(pg)), failed |-> Cardinality(FailedPages(pg))]

\* persistedProgress: the highest page number with a row, 0 when there is none.
LastPage(pg) ==
    IF StoredPages(pg) = {} THEN 0
    ELSE CHOOSE p \in StoredPages(pg) : \A q \in StoredPages(pg) : q <= p

-----------------------------------------------------------------------------
(* Statements of the worker *)

Stale(r) == r.status = "PROCESSING" /\ ~r.fresh

\* Mutant: the claim ignores the heartbeat.
ClaimableAnyActive(r) == r.status \in ActiveStatus

Claimable(r) == r.status = "QUEUED" \/ Stale(r)

\* Mutant: the claim counts the attempts down.
ClaimRowCountsDown(r) ==
    IF Claimable(r)
    THEN [r EXCEPT !.status = "PROCESSING", !.fresh = TRUE,
                   !.attempts = @ - 1, !.error = "none"]
    ELSE r

\* Mutant: a new attempt starts its counters at zero.
ClaimRowResetsCounters(r) ==
    IF Claimable(r)
    THEN [r EXCEPT !.status = "PROCESSING", !.fresh = TRUE, !.attempts = @ + 1,
                   !.error = "none", !.processed = 0, !.failed = 0]
    ELSE r

ClaimRow(r) ==
    IF Claimable(r)
    THEN [r EXCEPT !.status = "PROCESSING", !.fresh = TRUE,
                   !.attempts = @ + 1, !.error = "none"]
    ELSE r

HeartbeatRow(r) ==
    IF r.status = "PROCESSING" THEN [r EXCEPT !.fresh = TRUE] ELSE r

TotalPagesRow(r, n) ==
    IF r.status = "PROCESSING" THEN [r EXCEPT !.total = n, !.fresh = TRUE] ELSE r

\* Mutant: the counters are written whatever the status.
CountersRowAlways(r, pg) ==
    [r EXCEPT !.processed = Tally(pg).all, !.failed = Tally(pg).failed]

\* The second statement of persistPage: LEAST(COALESCE(total_pages, cnt), cnt).
CountersRow(r, pg) ==
    LET t == Tally(pg)
    IN  IF r.status = "PROCESSING"
        THEN [r EXCEPT !.processed = IF r.total = 0 \/ t.all <= r.total
                                     THEN t.all ELSE r.total,
                       !.failed = t.failed,
                       !.fresh = TRUE]
        ELSE r

\* The status finalize derives from the pages it read.
Verdict(t) ==
    CASE t.all = 0 \/ t.failed = t.all -> "FAILED"
      [] t.all # 0 /\ t.failed # t.all /\ t.failed > 0 -> "PARTIAL"
      [] OTHER -> "COMPLETED"

\* The error codes finalize may record: the most common code of the failed
\* pages, which the model does not keep; NULL when no page failed.
DominantErrors(t) == IF t.failed > 0 THEN ErrorCode ELSE {"none"}

\* Mutant: finalize accepts any active job.
FinalizeRowAnyActive(r, t, dominant) ==
    IF r.status \in ActiveStatus
    THEN [r EXCEPT !.status = Verdict(t),
                   !.error = IF Verdict(t) = "COMPLETED" THEN "none" ELSE dominant,
                   !.processed = t.all, !.failed = t.failed, !.fresh = TRUE]
    ELSE r

\* Mutant: only a FAILED job records the error of its pages.
FinalizeRowForgetsPartial(r, t, dominant) ==
    IF r.status = "PROCESSING"
    THEN [r EXCEPT !.status = Verdict(t),
                   !.error = IF Verdict(t) = "FAILED" THEN dominant ELSE "none",
                   !.processed = t.all, !.failed = t.failed, !.fresh = TRUE]
    ELSE r

FinalizeRow(r, t, dominant) ==
    IF r.status = "PROCESSING"
    THEN [r EXCEPT !.status = Verdict(t),
                   !.error = IF Verdict(t) = "COMPLETED" THEN "none" ELSE dominant,
                   !.processed = t.all, !.failed = t.failed, !.fresh = TRUE]
    ELSE r

FailRow(r, code) ==
    IF r.status \in ActiveStatus
    THEN [r EXCEPT !.status = "FAILED", !.error = code, !.fresh = TRUE]
    ELSE r

RequeueRow(r, code) ==
    IF r.status = "PROCESSING"
    THEN [r EXCEPT !.status = "QUEUED", !.error = code, !.fresh = TRUE]
    ELSE r

CancelRow(r, code) ==
    IF r.status \in ActiveStatus
    THEN [r EXCEPT !.status = "CANCELLED", !.error = code, !.fresh = TRUE]
    ELSE r

-----------------------------------------------------------------------------
(* What a client is shown *)

\* The progress of toOcrJobDto in tenths of a percent, rounded to the nearest;
\* 0 also for null, which stands for an unknown number of pages.
Progress(r) ==
    IF r.total = 0 THEN 0
    ELSE LET tenths == (2000 * r.processed + r.total) \div (2 * r.total)
         IN  IF tenths <= 1000 THEN tenths ELSE 1000

-----------------------------------------------------------------------------
(* Statement of the reconciler *)

RecoverRow(r) ==
    IF Stale(r) THEN [r EXCEPT !.status = "QUEUED", !.fresh = TRUE] ELSE r

=============================================================================
