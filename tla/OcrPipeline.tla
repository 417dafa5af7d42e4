----------------------------- MODULE OcrPipeline -----------------------------
(***************************************************************************)
(* Processing of OCR jobs: the API's scheduling of a committed row, BullMQ *)
(* deliveries, OcrWorkerService.process/run/handleFailure in every worker  *)
(* instance (one delivery at a time, the default OCR_MAX_CONCURRENCY), its *)
(* heartbeat interval, and OcrWorkerService.reconcile.  Each await of the  *)
(* code that reads or writes shared state is a step of its own, so         *)
(* instances, reconcilers, deletions and faults interleave between them.   *)
(*                                                                         *)
(* Faults: an instance dies and restarts (Crash), Redis loses an entry     *)
(* (LoseEntry), a Redis or database call throws (the ...Fails actions), an *)
(* instance stalls for so long that its heartbeat or its BullMQ lock       *)
(* expires while it is alive (a lapse), mkdtemp throws.  The budgets bound *)
(* how often each happens in a behaviour.                                  *)
(***************************************************************************)
EXTENDS OcrJobRows, OcrQueue

CONSTANTS
    Jobs,           \* OCR jobs, all created by the API
    NoJob,          \* no job
    PageCount,      \* pages of the document of each job
    Reconcilers,    \* bound: instances whose reconcile timer fires
    Deletable,      \* bound: jobs whose document may be deleted
    MaxCrashes,     \* bound on Crash
    MaxLapses,      \* bound on expiries of a live instance's heartbeat or lock
    MaxLosses,      \* bound on LoseEntry
    MaxFaults,      \* bound on failing database and Redis calls
    MkdtempMayFail  \* whether mkdtemp may throw

ASSUME JobsAssumption == NoJob \notin Jobs

ASSUME PageCountAssumption == PageCount \in [Jobs -> Nat \ {0}]

ASSUME AttemptsAssumption == MaxAttempts \in Nat

ASSUME BoundsAssumption ==
    /\ Reconcilers \subseteq Instances /\ Deletable \subseteq Jobs
    /\ MaxCrashes \in Nat /\ MaxLapses \in Nat
    /\ MaxLosses \in Nat /\ MaxFaults \in Nat
    /\ MkdtempMayFail \in BOOLEAN

VARIABLES
    jobs,           \* ocr_jobs: the row of each job
    pages,          \* ocr_pages: the pages of each job
    docs,           \* the document of each job
    entries,        \* Redis: the queue entry of each job
    unscheduled,    \* jobs committed by the API whose enqueue has not run yet
    slots,          \* the delivery each instance is processing
    leaked,         \* jobs whose heartbeat interval an instance never cleared
    recs,           \* the reconciliation each instance is running
    budget          \* faults still allowed

vars == <<jobs, pages, docs, entries, unscheduled, slots, leaked, recs, budget>>

\* Errors thrown by run: a permanent error with a permanent code, the missing
\* object (permanent, but with the code OCR_STORAGE_ERROR), a transient error.
RunError == {"permanent", "missing", "transient"}

Code(err) == IF err = "permanent" THEN "permanent" ELSE "retryable"

\* Where run may throw: every await between mkdtemp and handleFailure.
RunPc == {"load", "cancel", "fetch", "total", "progress", "page", "finalize"}

\* Steps taken between a successful claim and the last write of the delivery.
HoldPc == RunPc \union {"reread", "exhausted", "mkdtemp", "handle"}

SlotPc == HoldPc \union {"idle", "find", "claim", "settle"}

Slot ==
    [ pc      : SlotPc,
      job     : Jobs \union {NoJob},
      att     : Nat,                            \* claimedJob.attemptCount
      next    : Nat,                            \* next page to persist
      tally   : [all : Nat, failed : Nat],      \* pages read by finalize
      err     : RunError \union {"none"},
      outcome : Outcome ]

Idle ==
    [ pc |-> "idle", job |-> NoJob, att |-> 0, next |-> 0,
      tally |-> [all |-> 0, failed |-> 0], err |-> "none", outcome |-> "done" ]

Rec ==
    [ pc     : {"idle", "stale", "reenqueue", "queued"},
      stale  : SUBSET [job : Jobs, attempts : Nat],  \* findStaleProcessing
      queued : SUBSET Jobs,                          \* findQueued
      cur    : Jobs \union {NoJob} ]

NotReconciling == [pc |-> "idle", stale |-> {}, queued |-> {}, cur |-> NoJob]

Init ==
    /\ jobs = [j \in Jobs |-> NewJob]
    /\ pages = [j \in Jobs |-> [p \in 1..PageCount[j] |-> "none"]]
    /\ docs = [j \in Jobs |-> [ready |-> TRUE, pageCount |-> 0]]
    /\ entries = [j \in Jobs |-> NoEntry]
    /\ unscheduled = Jobs
    /\ slots = [i \in Instances |-> Idle]
    /\ leaked = [i \in Instances |-> {}]
    /\ recs = [i \in Instances |-> NotReconciling]
    /\ budget = [crashes |-> MaxCrashes, lapses |-> MaxLapses,
                 losses |-> MaxLosses, faults |-> MaxFaults]

SetJob(j, r) == jobs' = [jobs EXCEPT ![j] = r]

SetEntry(j, e) == entries' = [entries EXCEPT ![j] = e]

SetSlot(i, s) == slots' = [slots EXCEPT ![i] = s]

SetRec(i, r) == recs' = [recs EXCEPT ![i] = r]

\* The handler returned or threw; `finally` has cleared the heartbeat.
Ended(i, outcome) ==
    [Idle EXCEPT !.pc = "settle", !.job = slots[i].job, !.outcome = outcome]

SpendFault ==
    /\ budget.faults > 0
    /\ budget' = [budget EXCEPT !.faults = @ - 1]

-----------------------------------------------------------------------------
(* The API *)

Schedule(j) ==
    /\ j \in unscheduled
    /\ unscheduled' = unscheduled \ {j}
    /\ SetEntry(j, AddEntry(entries[j]))
    /\ UNCHANGED <<jobs, pages, docs, slots, leaked, recs, budget>>

\* Redis is unreachable or the API process dies: the row stays QUEUED.
ScheduleFails(j) ==
    /\ j \in unscheduled
    /\ SpendFault
    /\ unscheduled' = unscheduled \ {j}
    /\ UNCHANGED <<jobs, pages, docs, entries, slots, leaked, recs>>

\* DocumentsService.remove soft-deletes the document.
DeleteDocument(j) ==
    /\ j \in Deletable
    /\ docs[j].ready
    /\ docs' = [docs EXCEPT ![j].ready = FALSE]
    /\ UNCHANGED <<jobs, pages, entries, unscheduled, slots, leaked, recs, budget>>

-----------------------------------------------------------------------------
(* A delivery: OcrWorkerService.process *)

Deliver(i, j) ==
    /\ slots[i].pc = "idle"
    /\ entries[j].state = "waiting"
    /\ SetEntry(j, TakeEntry(entries[j], i))
    /\ SetSlot(i, [Idle EXCEPT !.pc = "find", !.job = j])
    /\ UNCHANGED <<jobs, pages, docs, unscheduled, leaked, recs, budget>>

\* findById: a terminal job is ignored.
FindJob(i) ==
    /\ slots[i].pc = "find"
    /\ SetSlot(i, IF jobs[slots[i].job].status \in TerminalStatus
                  THEN Ended(i, "done")
                  ELSE [slots[i] EXCEPT !.pc = "claim"])
    /\ UNCHANGED <<jobs, pages, docs, entries, unscheduled, leaked, recs, budget>>

\* A refused claim throws, so that the queue delivers again later.
ClaimJob(i) ==
    LET j == slots[i].job
    IN  /\ slots[i].pc = "claim"
        /\ SetJob(j, ClaimRow(jobs[j]))
        /\ SetSlot(i, IF Claimable(jobs[j])
                      THEN [slots[i] EXCEPT !.pc = "reread"]
                      ELSE Ended(i, "retry"))
        /\ UNCHANGED <<pages, docs, entries, unscheduled, leaked, recs, budget>>

\* The second findById; within the attempt budget the heartbeat starts.
RereadJob(i) ==
    LET att == jobs[slots[i].job].attempts
    IN  /\ slots[i].pc = "reread"
        /\ SetSlot(i, [slots[i] EXCEPT
                         !.pc = IF att > MaxAttempts THEN "exhausted" ELSE "mkdtemp",
                         !.att = att])
        /\ UNCHANGED <<jobs, pages, docs, entries, unscheduled, leaked, recs, budget>>

FailExhausted(i) ==
    LET j == slots[i].job
    IN  /\ slots[i].pc = "exhausted"
        /\ SetJob(j, FailRow(jobs[j], "retryable"))
        /\ SetSlot(i, Ended(i, "dead"))
        /\ UNCHANGED <<pages, docs, entries, unscheduled, leaked, recs, budget>>

MakeWorkDir(i) ==
    /\ slots[i].pc = "mkdtemp"
    /\ SetSlot(i, [slots[i] EXCEPT !.pc = "load"])
    /\ UNCHANGED <<jobs, pages, docs, entries, unscheduled, leaked, recs, budget>>

\* mkdtemp throws outside the try: neither handleFailure nor clearInterval runs.
MakeWorkDirFails(i) ==
    /\ MkdtempMayFail
    /\ slots[i].pc = "mkdtemp"
    /\ leaked' = [leaked EXCEPT ![i] = @ \union {slots[i].job}]
    /\ SetSlot(i, Ended(i, "retry"))
    /\ UNCHANGED <<jobs, pages, docs, entries, unscheduled, recs, budget>>

-----------------------------------------------------------------------------
(* OcrWorkerService.run *)

LoadDocument(i) ==
    /\ slots[i].pc = "load"
    /\ SetSlot(i, [slots[i] EXCEPT
                     !.pc = IF docs[slots[i].job].ready THEN "fetch" ELSE "cancel"])
    /\ UNCHANGED <<jobs, pages, docs, entries, unscheduled, leaked, recs, budget>>

CancelJob(i) ==
    LET j == slots[i].job
    IN  /\ slots[i].pc = "cancel"
        /\ SetJob(j, CancelRow(jobs[j], "permanent"))
        /\ SetSlot(i, Ended(i, "done"))
        /\ UNCHANGED <<pages, docs, entries, unscheduled, leaked, recs, budget>>

\* Size check, download and inspect succeed.
FetchAndInspect(i) ==
    /\ slots[i].pc = "fetch"
    /\ SetSlot(i, [slots[i] EXCEPT !.pc = "total"])
    /\ UNCHANGED <<jobs, pages, docs, entries, unscheduled, leaked, recs, budget>>

SetTotalPages(i) ==
    LET j == slots[i].job
    IN  /\ slots[i].pc = "total"
        /\ SetJob(j, TotalPagesRow(jobs[j], PageCount[j]))
        /\ docs' = [docs EXCEPT ![j].pageCount = IF docs[j].ready THEN PageCount[j] ELSE @]
        /\ SetSlot(i, [slots[i] EXCEPT !.pc = "progress"])
        /\ UNCHANGED <<pages, entries, unscheduled, leaked, recs, budget>>

\* Mutant: every attempt starts at the first page.
ReadProgressFromStart(i) ==
    /\ slots[i].pc = "progress"
    /\ SetSlot(i, [slots[i] EXCEPT !.pc = "page", !.next = 1])
    /\ UNCHANGED <<jobs, pages, docs, entries, unscheduled, leaked, recs, budget>>

\* Mutant: the page after the last stored one is skipped.
ReadProgressSkips(i) ==
    /\ slots[i].pc = "progress"
    /\ SetSlot(i, [slots[i] EXCEPT !.pc = "page",
                                   !.next = LastPage(pages[slots[i].job]) + 2])
    /\ UNCHANGED <<jobs, pages, docs, entries, unscheduled, leaked, recs, budget>>

ReadProgress(i) ==
    /\ slots[i].pc = "progress"
    /\ SetSlot(i, [slots[i] EXCEPT !.pc = "page",
                                   !.next = LastPage(pages[slots[i].job]) + 1])
    /\ UNCHANGED <<jobs, pages, docs, entries, unscheduled, leaked, recs, budget>>

\* One turn of the for-await loop: the page is extracted and persisted.
PersistPage(i, result) ==
    LET j  == slots[i].job
        pg == [pages[j] EXCEPT ![slots[i].next] = result]
    IN  /\ slots[i].pc = "page"
        /\ slots[i].next <= PageCount[j]
        /\ pages' = [pages EXCEPT ![j] = pg]
        /\ SetJob(j, CountersRow(jobs[j], pg))
        /\ SetSlot(i, [slots[i] EXCEPT !.next = @ + 1])
        /\ UNCHANGED <<docs, entries, unscheduled, leaked, recs, budget>>

\* Mutant: the loop may end before the last page.
ReadTallyEarly(i) ==
    /\ slots[i].pc = "page"
    /\ SetSlot(i, [slots[i] EXCEPT !.pc = "finalize", !.tally = Tally(pages[slots[i].job])])
    /\ UNCHANGED <<jobs, pages, docs, entries, unscheduled, leaked, recs, budget>>

\* The loop is over; finalize reads the pages ...
ReadTally(i) ==
    LET j == slots[i].job
    IN  /\ slots[i].pc = "page"
        /\ slots[i].next > PageCount[j]
        /\ SetSlot(i, [slots[i] EXCEPT !.pc = "finalize", !.tally = Tally(pages[j])])
        /\ UNCHANGED <<jobs, pages, docs, entries, unscheduled, leaked, recs, budget>>

\* ... and then writes the status it derived from them.
Finalize(i) ==
    LET j == slots[i].job
    IN  /\ slots[i].pc = "finalize"
        /\ \E dominant \in DominantErrors(slots[i].tally) :
               SetJob(j, FinalizeRow(jobs[j], slots[i].tally, dominant))
        /\ SetSlot(i, Ended(i, "done"))
        /\ UNCHANGED <<pages, docs, entries, unscheduled, leaked, recs, budget>>

\* An await of run throws.  Only size check, download and inspect throw
\* permanent errors; a failing query or an unavailable tool is transient.
RunThrows(i, err) ==
    /\ slots[i].pc \in RunPc
    /\ err = "transient" \/ slots[i].pc = "fetch"
    /\ SetSlot(i, [slots[i] EXCEPT !.pc = "handle", !.err = err, !.next = 0,
                                   !.tally = Idle.tally])
    /\ UNCHANGED <<jobs, pages, docs, entries, unscheduled, leaked, recs, budget>>

\* Mutant: the attempt that is failing is counted a second time.
HandleFailureTooEarly(i) ==
    LET j    == slots[i].job
        err  == slots[i].err
        fail == err # "transient" \/ slots[i].att + 1 >= MaxAttempts
    IN  /\ slots[i].pc = "handle"
        /\ SetJob(j, IF fail THEN FailRow(jobs[j], Code(err))
                             ELSE RequeueRow(jobs[j], Code(err)))
        /\ SetSlot(i, Ended(i, IF fail THEN "dead" ELSE "retry"))
        /\ UNCHANGED <<pages, docs, entries, unscheduled, leaked, recs, budget>>

HandleFailure(i) ==
    LET j    == slots[i].job
        err  == slots[i].err
        fail == err # "transient" \/ slots[i].att >= MaxAttempts
    IN  /\ slots[i].pc = "handle"
        /\ SetJob(j, IF fail THEN FailRow(jobs[j], Code(err))
                             ELSE RequeueRow(jobs[j], Code(err)))
        /\ SetSlot(i, Ended(i, IF fail THEN "dead" ELSE "retry"))
        /\ UNCHANGED <<pages, docs, entries, unscheduled, leaked, recs, budget>>

\* A query outside run throws: the job is left as it is, the queue retries.
QueryFails(i) ==
    /\ slots[i].pc \in {"find", "claim", "reread", "exhausted", "handle"}
    /\ SpendFault
    /\ SetSlot(i, Ended(i, "retry"))
    /\ UNCHANGED <<jobs, pages, docs, entries, unscheduled, leaked, recs>>

\* BullMQ records the end of the delivery.
Settle(i) ==
    LET j == slots[i].job
    IN  /\ slots[i].pc = "settle"
        /\ SetEntry(j, SettleEntry(entries[j], i, slots[i].outcome))
        /\ SetSlot(i, Idle)
        /\ UNCHANGED <<jobs, pages, docs, unscheduled, leaked, recs, budget>>

-----------------------------------------------------------------------------
(* Time: heartbeats, locks, backoff *)

Beats(i, j) ==
    \/ j \in leaked[i]
    \/ /\ slots[i].job = j
       /\ slots[i].pc \in RunPc \union {"mkdtemp", "handle"}

Heartbeat(i, j) ==
    /\ Beats(i, j)
    /\ HeartbeatRow(jobs[j]) # jobs[j]
    /\ SetJob(j, HeartbeatRow(jobs[j]))
    /\ UNCHANGED <<pages, docs, entries, unscheduled, slots, leaked, recs, budget>>

Works(i, j) == slots[i].job = j /\ slots[i].pc \in HoldPc

Holds(i, j) == j \in leaked[i] \/ Works(i, j)

\* OCR_STALE_JOB_MS passes without a heartbeat.
HeartbeatExpires(j) ==
    /\ jobs[j].status = "PROCESSING"
    /\ jobs[j].fresh
    /\ \A i \in Instances : ~Holds(i, j)
    /\ SetJob(j, [jobs[j] EXCEPT !.fresh = FALSE])
    /\ UNCHANGED <<pages, docs, entries, unscheduled, slots, leaked, recs, budget>>

\* The same although an instance is still working on the job: a stalled
\* process, an unreachable database, a clock ahead of the others.
HeartbeatLapses(j) ==
    /\ jobs[j].status = "PROCESSING"
    /\ jobs[j].fresh
    /\ \E i \in Instances : Holds(i, j)
    /\ budget.lapses > 0
    /\ budget' = [budget EXCEPT !.lapses = @ - 1]
    /\ SetJob(j, [jobs[j] EXCEPT !.fresh = FALSE])
    /\ UNCHANGED <<pages, docs, entries, unscheduled, slots, leaked, recs>>

\* The lock of a delivery is not renewed because its process is gone.
LockExpires(j) ==
    /\ entries[j].state = "active"
    /\ slots[entries[j].owner].job # j
    /\ SetEntry(j, StallEntry(entries[j]))
    /\ UNCHANGED <<jobs, pages, docs, unscheduled, slots, leaked, recs, budget>>

\* The lock of a live delivery expires.
LockLapses(j) ==
    /\ entries[j].state = "active"
    /\ slots[entries[j].owner].job = j
    /\ budget.lapses > 0
    /\ budget' = [budget EXCEPT !.lapses = @ - 1]
    /\ SetEntry(j, StallEntry(entries[j]))
    /\ UNCHANGED <<jobs, pages, docs, unscheduled, slots, leaked, recs>>

BackoffEnds(j) ==
    /\ entries[j].state = "delayed"
    /\ SetEntry(j, PromoteEntry(entries[j]))
    /\ UNCHANGED <<jobs, pages, docs, unscheduled, slots, leaked, recs, budget>>

-----------------------------------------------------------------------------
(* OcrWorkerService.reconcile *)

\* Mutant: the heartbeat comparison is the wrong way round.
FindFreshProcessing(i) ==
    /\ i \in Reconcilers
    /\ recs[i].pc = "idle"
    /\ SetRec(i, [recs[i] EXCEPT
                    !.pc = "stale",
                    !.stale = {[job |-> j, attempts |-> jobs[j].attempts] :
                                  j \in {k \in Jobs : jobs[k].status = "PROCESSING"
                                                       /\ jobs[k].fresh}}])
    /\ UNCHANGED <<jobs, pages, docs, entries, unscheduled, slots, leaked, budget>>

\* The timer (or the start of the instance); `reconciling` was false.
FindStaleProcessing(i) ==
    /\ i \in Reconcilers
    /\ recs[i].pc = "idle"
    /\ SetRec(i, [recs[i] EXCEPT
                    !.pc = "stale",
                    !.stale = {[job |-> j, attempts |-> jobs[j].attempts] :
                                  j \in {k \in Jobs : Stale(jobs[k])}}])
    /\ UNCHANGED <<jobs, pages, docs, entries, unscheduled, slots, leaked, budget>>

\* A stale job without attempts left is failed.
FailInterrupted(i, s) ==
    /\ recs[i].pc = "stale"
    /\ s \in recs[i].stale
    /\ s.attempts >= MaxAttempts
    /\ SetJob(s.job, FailRow(jobs[s.job], "retryable"))
    /\ SetRec(i, [recs[i] EXCEPT !.stale = @ \ {s}])
    /\ UNCHANGED <<pages, docs, entries, unscheduled, slots, leaked, budget>>

\* Another one is reset to QUEUED, provided it is still stale.
RecoverInterrupted(i, s) ==
    LET rest == recs[i].stale \ {s}
    IN  /\ recs[i].pc = "stale"
        /\ s \in recs[i].stale
        /\ s.attempts < MaxAttempts
        /\ SetJob(s.job, RecoverRow(jobs[s.job]))
        /\ SetRec(i, IF Stale(jobs[s.job])
                     THEN [recs[i] EXCEPT !.pc = "reenqueue", !.stale = rest, !.cur = s.job]
                     ELSE [recs[i] EXCEPT !.stale = rest])
        /\ UNCHANGED <<pages, docs, entries, unscheduled, slots, leaked, budget>>

ReenqueueRecovered(i) ==
    /\ recs[i].pc = "reenqueue"
    /\ SetEntry(recs[i].cur, AddEntry(entries[recs[i].cur]))
    /\ SetRec(i, [recs[i] EXCEPT !.pc = "stale", !.cur = NoJob])
    /\ UNCHANGED <<jobs, pages, docs, unscheduled, slots, leaked, budget>>

\* Mutant: jobs of any status are enqueued again.
FindAny(i) ==
    /\ recs[i].pc = "stale"
    /\ recs[i].stale = {}
    /\ SetRec(i, [recs[i] EXCEPT !.pc = "queued", !.queued = Jobs])
    /\ UNCHANGED <<jobs, pages, docs, entries, unscheduled, slots, leaked, budget>>

FindQueued(i) ==
    /\ recs[i].pc = "stale"
    /\ recs[i].stale = {}
    /\ SetRec(i, [recs[i] EXCEPT !.pc = "queued",
                                 !.queued = {j \in Jobs : jobs[j].status = "QUEUED"}])
    /\ UNCHANGED <<jobs, pages, docs, entries, unscheduled, slots, leaked, budget>>

\* isPending and enqueue: a pending entry is left alone.
EnqueueQueued(i, j) ==
    /\ recs[i].pc = "queued"
    /\ j \in recs[i].queued
    /\ SetEntry(j, AddEntry(entries[j]))
    /\ SetRec(i, [recs[i] EXCEPT !.queued = @ \ {j}])
    /\ UNCHANGED <<jobs, pages, docs, unscheduled, slots, leaked, budget>>

ReconcileEnds(i) ==
    /\ recs[i].pc = "queued"
    /\ recs[i].queued = {}
    /\ SetRec(i, NotReconciling)
    /\ UNCHANGED <<jobs, pages, docs, entries, unscheduled, slots, leaked, budget>>

\* A call throws: the rest of the round is skipped.
ReconcileFails(i) ==
    /\ recs[i].pc # "idle"
    /\ SpendFault
    /\ SetRec(i, NotReconciling)
    /\ UNCHANGED <<jobs, pages, docs, entries, unscheduled, slots, leaked>>

-----------------------------------------------------------------------------
(* Crashes *)

\* The process of an instance dies, with its delivery, its intervals and its
\* reconciliation, and is started again.
Crash(i) ==
    /\ budget.crashes > 0
    /\ budget' = [budget EXCEPT !.crashes = @ - 1]
    /\ SetSlot(i, Idle)
    /\ SetRec(i, NotReconciling)
    /\ leaked' = [leaked EXCEPT ![i] = {}]
    /\ UNCHANGED <<jobs, pages, docs, entries, unscheduled>>

LoseEntry(j) ==
    /\ budget.losses > 0
    /\ budget' = [budget EXCEPT !.losses = @ - 1]
    /\ IsPending(entries[j])
    /\ SetEntry(j, NoEntry)
    /\ UNCHANGED <<jobs, pages, docs, unscheduled, slots, leaked, recs>>

-----------------------------------------------------------------------------

Api(j) == Schedule(j) \/ ScheduleFails(j) \/ DeleteDocument(j)

\* The steps of a delivery that is allowed to proceed.
DeliveryStep(i) ==
    \/ FindJob(i) \/ ClaimJob(i) \/ RereadJob(i) \/ FailExhausted(i)
    \/ MakeWorkDir(i)
    \/ LoadDocument(i) \/ CancelJob(i) \/ FetchAndInspect(i) \/ SetTotalPages(i)
    \/ ReadProgress(i)
    \/ \E result \in {"ok", "failed"} : PersistPage(i, result)
    \/ ReadTally(i) \/ Finalize(i) \/ HandleFailure(i) \/ Settle(i)

DeliveryFails(i) ==
    \/ MakeWorkDirFails(i)
    \/ \E err \in RunError : RunThrows(i, err)
    \/ QueryFails(i)

ReconcileStep(i) ==
    \/ FindStaleProcessing(i)
    \/ \E s \in recs[i].stale : FailInterrupted(i, s) \/ RecoverInterrupted(i, s)
    \/ ReenqueueRecovered(i)
    \/ FindQueued(i)
    \/ \E j \in recs[i].queued : EnqueueQueued(i, j)
    \/ ReconcileEnds(i)

Time(j) ==
    \/ \E i \in Instances : Heartbeat(i, j)
    \/ HeartbeatExpires(j) \/ HeartbeatLapses(j)
    \/ LockExpires(j) \/ LockLapses(j)
    \/ BackoffEnds(j)

Next ==
    \/ \E j \in Jobs : Api(j) \/ Time(j) \/ LoseEntry(j)
    \/ \E i \in Instances :
          \/ \E j \in Jobs : Deliver(i, j)
          \/ DeliveryStep(i) \/ DeliveryFails(i)
          \/ ReconcileStep(i) \/ ReconcileFails(i)
          \/ Crash(i)

Spec == Init /\ [][Next]_vars

\* The event loop of an instance keeps running, BullMQ keeps delivering, its
\* stalled check and the backoff timers fire, and reconcile runs on its timer.
Fairness ==
    /\ \A i \in Instances :
          /\ WF_vars(\E j \in Jobs : Deliver(i, j))
          /\ WF_vars(DeliveryStep(i))
          /\ WF_vars(ReconcileStep(i))
    /\ \A j \in Jobs :
          /\ WF_vars(HeartbeatExpires(j))
          /\ WF_vars(LockExpires(j))
          /\ WF_vars(BackoffEnds(j))

FairSpec == Spec /\ Fairness

-----------------------------------------------------------------------------
(* Properties *)

\* Every variable holds what the schema and the code allow it to hold.
TypeOK ==
    /\ jobs \in [Jobs -> JobRow]
    /\ DOMAIN pages = Jobs
    /\ \A j \in Jobs : pages[j] \in [1..PageCount[j] -> PageRow]
    /\ docs \in [Jobs -> [ready : BOOLEAN, pageCount : Nat]]
    /\ entries \in [Jobs -> Entry]
    /\ unscheduled \subseteq Jobs
    /\ slots \in [Instances -> Slot]
    /\ leaked \in [Instances -> SUBSET Jobs]
    /\ recs \in [Instances -> Rec]
    /\ budget \in [crashes : Nat, lapses : Nat, losses : Nat, faults : Nat]

\* The stored pages of a job are 1..n for some n, whatever crashes, duplicate
\* deliveries and overlapping workers do: resuming after the highest stored
\* page (persistedProgress) therefore never skips one.
PagesContiguous ==
    \A j \in Jobs : \E n \in 0..PageCount[j] : StoredPages(pages[j]) = 1..n

\* A COMPLETED or PARTIAL job has a result for every page of the document and
\* reports all of them as processed, even when it was finalized by a worker
\* that had lost the job to another one.
ResultsComplete ==
    \A j \in Jobs :
        jobs[j].status \in {"COMPLETED", "PARTIAL"} =>
            /\ StoredPages(pages[j]) = 1..PageCount[j]
            /\ jobs[j].processed = PageCount[j]

\* A job that ended without a full result says why (error_code is set by fail,
\* cancel and finalize and not erased by a late claim); a COMPLETED one has no error.
FailureExplained ==
    \A j \in Jobs :
        /\ jobs[j].status \in {"PARTIAL", "FAILED", "CANCELLED"} => jobs[j].error # "none"
        /\ jobs[j].status = "COMPLETED" => jobs[j].error = "none"

\* The row of a terminal job never changes again: no stale worker, duplicate
\* delivery or concurrent reconciler moves it or touches its counters.
TerminalRowKept == \A j \in Jobs : jobs[j].status \in TerminalStatus => jobs'[j] = jobs[j]

TerminalRowFrozen == [][TerminalRowKept]_vars

\* Instance i is failing job j for good: with an error that is not retried, or
\* because no page of the document could be read.
FailsForGood(i, j) ==
    /\ slots[i].job = j
    /\ \/ slots[i].pc = "handle" /\ slots[i].err # "transient"
       \/ slots[i].pc = "finalize" /\ slots[i].tally.failed = PageCount[j]

\* An attempt at job j has thrown on instance i or was found interrupted by it.
AttemptOver(i, j) ==
    \/ slots[i].job = j /\ slots[i].pc = "handle"
    \/ \E s \in recs[i].stale : s.job = j

MayGiveUp(j) ==
    \/ jobs[j].attempts > MaxAttempts
    \/ jobs[j].attempts = MaxAttempts /\ \E i \in Instances : AttemptOver(i, j)
    \/ \E i \in Instances : FailsForGood(i, j)

\* A job is not given up before its last attempt is over: the step that makes it
\* FAILED has a reason other than the budget, or more attempts than MaxAttempts
\* were claimed, or the last of them has thrown or was interrupted.  The budget
\* is checked in three places (process, handleFailure and reconcile), each time
\* against a count read earlier, with claims, crashes, recoveries and lapses in
\* between.
AttemptsUsedUp ==
    [][\A j \in Jobs :
          jobs[j].status \in ActiveStatus /\ jobs'[j].status = "FAILED" =>
              MayGiveUp(j)]_vars

\* No live instance has lost its heartbeat or its lock.
NoLapse == budget.lapses = MaxLapses

\* A job never has two workers between claim and final write, as long as no live
\* worker's heartbeat or lock has expired.
SingleWorker ==
    NoLapse => \A j \in Jobs : \A i, k \in Instances : Works(i, j) /\ Works(k, j) => i = k

\* processed_pages and failed_pages agree with the stored pages in every
\* state, after crashes and resumed attempts too (without lapses).
CountersMatchPages ==
    NoLapse =>
        \A j \in Jobs :
            /\ jobs[j].processed = Cardinality(StoredPages(pages[j]))
            /\ jobs[j].failed = Cardinality(FailedPages(pages[j]))

\* A finished page is never processed again by a later attempt, and a job that
\* has ended gets no further page (without lapses).
PagesWrittenOnce ==
    [][NoLapse =>
          \A j \in Jobs :
              /\ \A p \in StoredPages(pages[j]) : pages'[j][p] = pages[j][p]
              /\ jobs[j].status \in TerminalStatus => pages'[j] = pages[j]]_vars

\* The progress a client polls never falls, over crashes, resumed attempts and
\* totals that are determined again, and a client that sees 100 % finds every
\* page stored (without lapses, and with fewer than 2000 pages).
ProgressNeverFalls ==
    [][NoLapse =>
          \A j \in Jobs :
              /\ Progress(jobs'[j]) >= Progress(jobs[j])
              /\ Progress(jobs'[j]) = 1000 => StoredPages(pages'[j]) = 1..PageCount[j]]_vars

\* The pages of a terminal job never change.
ResultsImmutable ==
    [][\A j \in Jobs : jobs[j].status \in TerminalStatus => pages'[j] = pages[j]]_vars

\* The pipeline implements the lifecycle a client of a job can rely on.
Lifecycle ==
    INSTANCE OcrLifecycle WITH
        status   <- [j \in Jobs |-> jobs[j].status],
        attempts <- [j \in Jobs |-> jobs[j].attempts],
        stored   <- [j \in Jobs |-> StoredPages(pages[j])]

\* Every step of workers, reconcilers and faults is a step of the lifecycle or
\* invisible to it.
ImplementsLifecycle == Lifecycle!Spec

\* No job stays QUEUED or PROCESSING forever.
EveryJobEnds == \A j \in Jobs : <>(jobs[j].status \in TerminalStatus)

\* Once the jobs are over their entries leave the queue for good: reconcilers
\* that looked before a job ended do not keep it alive.
QueueDrains == <>[](\A j \in Jobs : entries[j].state = "absent")

=============================================================================
