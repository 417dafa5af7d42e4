------------------------- MODULE OcrOwnershipProofs -------------------------
(***************************************************************************)
(* What holds in OcrPipeline as long as no live instance has lost its      *)
(* heartbeat: a job has one worker, its counters are those of its pages,   *)
(* no page is written twice and the progress a client polls never falls.   *)
(*                                                                         *)
(* The inductive invariant OwnInv speaks of holders: an instance holds a   *)
(* job from its claim to its last write, and as long as a heartbeat        *)
(* interval it never cleared beats for the job.  A held row is PROCESSING  *)
(* and fresh, so that neither a claim nor a reconciler takes it - with one *)
(* exception: a reconciler that read the job stale, with its attempts      *)
(* spent, fails it even if it has been claimed since.  RoundsInv shows     *)
(* that such a claim is beyond the attempts too, so that its delivery only *)
(* goes on to fail the job itself and never stores a page (Spent).         *)
(***************************************************************************)
EXTENDS OcrPipelineProofs

-----------------------------------------------------------------------------
(* Holders *)

\* The delivery has claimed a job beyond its attempts and will only fail it.
Spent(i, j) ==
    /\ slots[i].job = j /\ slots[i].pc \in {"reread", "exhausted"}
    /\ j \notin leaked[i]
    /\ jobs[j].attempts > MaxAttempts

\* The row of a job that instance i holds: nobody else can claim it; only a
\* reconciler may have failed it, when its attempts are spent.
Held(i, j) ==
    \/ jobs[j].status = "PROCESSING" /\ jobs[j].fresh
    \/ jobs[j].status = "FAILED" /\ Spent(i, j)

LeakedAndWorks(i, j) == j \in leaked[i] /\ Works(i, j)

HoldersInv ==
    \A i \in Instances, j \in Jobs :
        Holds(i, j) =>
            /\ Held(i, j)
            /\ ~LeakedAndWorks(i, j)
            /\ \A k \in Instances : Holds(k, j) => k = i

\* A job that a reconciler is about to fail has used up its attempts, whoever
\* has claimed it since the reconciler read it.
RoundsInv ==
    \A i \in Instances : \A s \in recs[i].stale :
        s.attempts >= MaxAttempts =>
            /\ jobs[s.job].attempts >= s.attempts
            /\ \A k \in Instances : Holds(k, s.job) => Spent(k, s.job)

\* A step that makes nobody a holder and lets those who remain keep their claim.
NoNewHolder ==
    /\ \A i \in Instances, j \in Jobs :
          Holds(i, j)' =>
              /\ Holds(i, j)
              /\ Held(i, j) => Held(i, j)'
              /\ Spent(i, j) => Spent(i, j)'
              /\ LeakedAndWorks(i, j)' => LeakedAndWorks(i, j)
    /\ \A j \in Jobs : jobs'[j].attempts >= jobs[j].attempts
    /\ \A i \in Instances : recs'[i].stale \subseteq recs[i].stale

\* Such a step keeps the invariant about holders.
LEMMA NoNewHolderKeeps ==
    ASSUME Inv, Inv', HoldersInv, RoundsInv, NoNewHolder
    PROVE  HoldersInv' /\ RoundsInv'
  <1>1. HoldersInv'
    BY DEF HoldersInv, NoNewHolder
  <1>2. ASSUME NEW i \in Instances, NEW s \in recs'[i].stale, s.attempts >= MaxAttempts
        PROVE  /\ jobs'[s.job].attempts >= s.attempts
               /\ \A k \in Instances : Holds(k, s.job)' => Spent(k, s.job)'
    <2>1. s \in recs[i].stale /\ s.job \in Jobs /\ s.attempts \in Nat
      BY <1>2 DEF Inv, RecsInv, Rec, NoNewHolder
    <2>2. jobs[s.job].attempts \in Nat /\ jobs'[s.job].attempts \in Nat
      BY <2>1 DEF Inv, JobsInv, JobRow
    <2>3. jobs[s.job].attempts >= s.attempts /\ jobs'[s.job].attempts >= jobs[s.job].attempts
      BY <1>2, <2>1 DEF RoundsInv, NoNewHolder
    <2>4. \A k \in Instances : Holds(k, s.job) => Spent(k, s.job)
      BY <1>2, <2>1 DEF RoundsInv
    <2> QED
      BY <2>1, <2>2, <2>3, <2>4 DEF NoNewHolder
  <1> QED
    BY <1>1, <1>2 DEF RoundsInv

\* What the assignment of one slot means for holders.
LEMMA SlotChange ==
    ASSUME Inv, NEW i \in Instances, NEW s \in Slot, SetSlot(i, s), UNCHANGED leaked,
           s.pc \in HoldPc => slots[i].pc \in HoldPc /\ s.job = slots[i].job,
           NEW k \in Instances, NEW j \in Jobs, Holds(k, j)'
    PROVE  /\ Holds(k, j)
           /\ LeakedAndWorks(k, j)' => LeakedAndWorks(k, j)
           /\ k # i => slots'[k] = slots[k]
           /\ k = i => slots'[k] = s
  <1>1. slots \in [Instances -> Slot]
    BY DEF Inv, SlotsInv
  <1>2. slots' = [slots EXCEPT ![i] = s]
    BY DEF SetSlot
  <1>3. (k # i => slots'[k] = slots[k]) /\ (k = i => slots'[k] = s)
    BY <1>1, <1>2
  <1> QED
    BY <1>3 DEF Holds, Works, LeakedAndWorks

\* The delivery moves on, or ends, without a write.
LEMMA QuietSlot ==
    ASSUME Inv, HoldersInv, RoundsInv, NEW i \in Instances, NEW s \in Slot, SetSlot(i, s),
           s.pc \in HoldPc =>
               /\ slots[i].pc \in HoldPc /\ s.job = slots[i].job
               /\ slots[i].pc \in {"reread", "exhausted"} /\ jobs[s.job].attempts > MaxAttempts
                    => s.pc \in {"reread", "exhausted"},
           UNCHANGED <<jobs, leaked>>,
           \A k \in Instances : recs'[k].stale \subseteq recs[k].stale
    PROVE  NoNewHolder
  <1>1. ASSUME NEW k \in Instances, NEW j \in Jobs, Holds(k, j)'
        PROVE  /\ Holds(k, j)
               /\ Held(k, j) => Held(k, j)'
               /\ Spent(k, j) => Spent(k, j)'
               /\ LeakedAndWorks(k, j)' => LeakedAndWorks(k, j)
    <2>1. /\ Holds(k, j)
          /\ LeakedAndWorks(k, j)' => LeakedAndWorks(k, j)
          /\ k # i => slots'[k] = slots[k]
          /\ k = i => slots'[k] = s
      BY <1>1, SlotChange
    <2>2. Spent(k, j) => Spent(k, j)'
      <3>1. CASE k # i
        BY <2>1, <3>1 DEF Spent
      <3>2. CASE k = i
        BY <1>1, <2>1, <3>2 DEF Spent, Holds, Works
      <3> QED
        BY <3>1, <3>2
    <2> QED
      BY <2>1, <2>2 DEF Held
  <1>2. \A j \in Jobs : jobs'[j].attempts >= jobs[j].attempts
    BY DEF Inv, JobsInv, JobRow
  <1> QED
    BY <1>1, <1>2 DEF NoNewHolder

\* The delivery that holds the job ends with a write.
LEMMA EndingWrite ==
    ASSUME Inv, HoldersInv, NEW i \in Instances, NEW o, Ended(i, o) \in Slot,
           SetSlot(i, Ended(i, o)),
           slots[i].pc \in HoldPc, NEW r \in JobRow, SetJob(slots[i].job, r),
           r.attempts = jobs[slots[i].job].attempts, UNCHANGED <<leaked, recs>>
    PROVE  NoNewHolder
  <1> DEFINE w == slots[i].job
  <1>0. w \in Jobs /\ Works(i, w)
    BY DEF Inv, SlotsInv, SlotOK, HoldPc, RunPc, Works
  <1>a. jobs \in [Jobs -> JobRow] /\ jobs' = [jobs EXCEPT ![w] = r]
    BY DEF Inv, JobsInv, SetJob
  <1>b. Ended(i, o).pc = "settle"
    BY DEF Ended, Idle
  <1>1. ASSUME NEW k \in Instances, NEW j \in Jobs, Holds(k, j)'
        PROVE  /\ Holds(k, j)
               /\ Held(k, j) => Held(k, j)'
               /\ Spent(k, j) => Spent(k, j)'
               /\ LeakedAndWorks(k, j)' => LeakedAndWorks(k, j)
    <2>1. /\ Holds(k, j)
          /\ LeakedAndWorks(k, j)' => LeakedAndWorks(k, j)
          /\ k # i => slots'[k] = slots[k]
          /\ k = i => slots'[k] = Ended(i, o)
      BY <1>1, <1>b, SlotChange DEF HoldPc, RunPc
    <2>2. CASE j = w
      <3>1. k = i
        BY <1>0, <2>1, <2>2 DEF HoldersInv, Holds
      <3>2. w \notin leaked[i]
        BY <1>0 DEF HoldersInv, Holds, LeakedAndWorks
      <3> QED
        BY <1>1, <1>b, <2>1, <2>2, <3>1, <3>2 DEF Holds, Works, HoldPc, RunPc
    <2>3. CASE j # w
      <3>1. jobs'[j] = jobs[j]
        BY <1>0, <1>a, <2>3
      <3>2. Spent(k, j) => Spent(k, j)'
        <4>1. CASE k # i
          BY <2>1, <3>1, <4>1 DEF Spent
        <4>2. CASE k = i
          BY <2>3, <4>2 DEF Spent
        <4> QED
          BY <4>1, <4>2
      <3> QED
        BY <2>1, <3>1, <3>2 DEF Held
    <2> QED
      BY <2>2, <2>3
  <1>2. \A j \in Jobs : jobs'[j].attempts >= jobs[j].attempts
    BY <1>a DEF JobRow
  <1> QED
    BY <1>1, <1>2 DEF NoNewHolder

\* A worker in run, or one whose failure is being handled, has the job.
LEMMA WorkerHas ==
    ASSUME Inv, HoldersInv, NEW i \in Instances,
           slots[i].pc \in RunPc \union {"mkdtemp", "handle"}
    PROVE  /\ slots[i].job \in Jobs
           /\ jobs[slots[i].job].status = "PROCESSING" /\ jobs[slots[i].job].fresh
           /\ slots[i].job \notin leaked[i]
           /\ \A k \in Instances : Holds(k, slots[i].job) => k = i
  <1>1. slots[i].job \in Jobs /\ Works(i, slots[i].job)
    BY DEF Inv, SlotsInv, SlotOK, HoldPc, RunPc, Works
  <1>2. ~Spent(i, slots[i].job)
    BY DEF Spent, RunPc
  <1> QED
    BY <1>1, <1>2 DEF HoldersInv, Holds, Held, LeakedAndWorks

\* The worker goes on after a write that keeps the row in its hands.
LEMMA WorkingWrite ==
    ASSUME Inv, HoldersInv, NEW i \in Instances, NEW s \in Slot, SetSlot(i, s),
           slots[i].pc \in RunPc, s.job = slots[i].job, s.pc \in RunPc,
           NEW r \in JobRow, SetJob(slots[i].job, r),
           r.attempts = jobs[slots[i].job].attempts, r.status = "PROCESSING", r.fresh,
           UNCHANGED <<leaked, recs>>
    PROVE  NoNewHolder
  <1> DEFINE w == slots[i].job
  <1>0. /\ w \in Jobs /\ w \notin leaked[i]
        /\ \A k \in Instances : Holds(k, w) => k = i
    BY WorkerHas
  <1>a. jobs \in [Jobs -> JobRow] /\ jobs' = [jobs EXCEPT ![w] = r]
    BY DEF Inv, JobsInv, SetJob
  <1>1. ASSUME NEW k \in Instances, NEW j \in Jobs, Holds(k, j)'
        PROVE  /\ Holds(k, j)
               /\ Held(k, j) => Held(k, j)'
               /\ Spent(k, j) => Spent(k, j)'
               /\ LeakedAndWorks(k, j)' => LeakedAndWorks(k, j)
    <2>1. /\ Holds(k, j)
          /\ LeakedAndWorks(k, j)' => LeakedAndWorks(k, j)
          /\ k # i => slots'[k] = slots[k]
          /\ k = i => slots'[k] = s
      BY <1>1, SlotChange DEF HoldPc
    <2>2. CASE j = w
      <3>1. k = i
        BY <1>0, <2>1, <2>2
      <3>2. ~Spent(k, j)
        BY <3>1 DEF Spent, RunPc
      <3>3. Held(k, j)'
        BY <1>0, <1>a, <2>2 DEF Held
      <3> QED
        BY <2>1, <3>2, <3>3
    <2>3. CASE j # w
      <3>1. jobs'[j] = jobs[j]
        BY <1>0, <1>a, <2>3
      <3>2. Spent(k, j) => Spent(k, j)'
        <4>1. CASE k # i
          BY <2>1, <3>1, <4>1 DEF Spent
        <4>2. CASE k = i
          BY <2>3, <4>2 DEF Spent
        <4> QED
          BY <4>1, <4>2
      <3> QED
        BY <2>1, <3>1, <3>2 DEF Held
    <2> QED
      BY <2>2, <2>3
  <1>2. \A j \in Jobs : jobs'[j].attempts >= jobs[j].attempts
    BY <1>a DEF JobRow
  <1> QED
    BY <1>1, <1>2 DEF NoNewHolder

-----------------------------------------------------------------------------
(* Steps of a delivery *)

\* Whatever a step assigns to a slot is a slot.
LEMMA SlotTyped ==
    ASSUME Inv, Inv', NEW i \in Instances, NEW s, SetSlot(i, s)
    PROVE  s \in Slot
  <1>1. slots \in [Instances -> Slot] /\ slots' \in [Instances -> Slot]
    BY DEF Inv, SlotsInv
  <1>2. slots'[i] = s
    BY <1>1 DEF SetSlot
  <1> QED
    BY <1>1, <1>2

\* A handler that has returned or thrown is not between claim and last write.
LEMMA EndedPc ==
    ASSUME NEW i, NEW o
    PROVE  Ended(i, o).pc = "settle" /\ Ended(i, o).pc \notin HoldPc
  BY DEF Ended, Idle, HoldPc, RunPc

\* A slot that holds a job already held it; a delivery beyond the attempts only
\* goes on to fail the job.
QuietChange(i, s) ==
    s.pc \in HoldPc =>
        /\ slots[i].pc \in HoldPc /\ s.job = slots[i].job
        /\ slots[i].pc \in {"reread", "exhausted"} /\ jobs[s.job].attempts > MaxAttempts
             => s.pc \in {"reread", "exhausted"}

\* Steps of a delivery that write nothing.
LEMMA QuietDelivery ==
    ASSUME Inv, Inv', HoldersInv, RoundsInv, NEW i \in Instances,
           \/ \E j \in Jobs : Deliver(i, j)
           \/ FindJob(i) \/ RereadJob(i) \/ MakeWorkDir(i) \/ LoadDocument(i)
           \/ FetchAndInspect(i) \/ ReadProgress(i) \/ ReadTally(i) \/ Settle(i)
           \/ \E err \in RunError : RunThrows(i, err)
           \/ QueryFails(i)
    PROVE  NoNewHolder
  <1>0. slots \in [Instances -> Slot]
    BY DEF Inv, SlotsInv
  <1>1. PICK s : SetSlot(i, s) /\ QuietChange(i, s)
    <2> USE DEF QuietChange
    <2>1. ASSUME NEW j \in Jobs, Deliver(i, j)
          PROVE  \E s : SetSlot(i, s) /\ QuietChange(i, s)
      <3> DEFINE s == [Idle EXCEPT !.pc = "find", !.job = j]
      <3>1. s.pc = "find" /\ SetSlot(i, s)
        BY <2>1 DEF Deliver, Idle
      <3> QED
        BY <3>1 DEF HoldPc, RunPc
    <2>2. CASE FindJob(i)
      <3>1. CASE SetSlot(i, Ended(i, "done"))
        BY <3>1, EndedPc
      <3>2. CASE SetSlot(i, [slots[i] EXCEPT !.pc = "claim"])
        <4> DEFINE s == [slots[i] EXCEPT !.pc = "claim"]
        <4>1. s.pc = "claim"
          BY <1>0 DEF Slot
        <4> QED
          BY <3>2, <4>1 DEF HoldPc, RunPc
      <3> QED
        BY <2>2, <3>1, <3>2 DEF FindJob
    <2>3. CASE RereadJob(i)
      <3> DEFINE att == jobs[slots[i].job].attempts
                 s == [slots[i] EXCEPT
                         !.pc = IF att > MaxAttempts THEN "exhausted" ELSE "mkdtemp",
                         !.att = att]
      <3>1. SetSlot(i, s) /\ slots[i].pc = "reread"
        BY <2>3 DEF RereadJob
      <3>2. s.job = slots[i].job /\ s.pc = IF att > MaxAttempts THEN "exhausted" ELSE "mkdtemp"
        BY <1>0 DEF Slot
      <3> QED
        BY <3>1, <3>2 DEF HoldPc
    <2>4. CASE \/ MakeWorkDir(i) \/ LoadDocument(i) \/ FetchAndInspect(i)
      <3>1. PICK p \in {"load", "cancel", "fetch", "total"} :
                /\ SetSlot(i, [slots[i] EXCEPT !.pc = p])
                /\ slots[i].pc \in {"mkdtemp", "load", "fetch"}
        BY <2>4 DEF MakeWorkDir, LoadDocument, FetchAndInspect
      <3> DEFINE s == [slots[i] EXCEPT !.pc = p]
      <3>2. s.job = slots[i].job /\ s.pc = p
        BY <1>0 DEF Slot
      <3> QED
        BY <3>1, <3>2 DEF HoldPc, RunPc
    <2>5. CASE ReadProgress(i)
      <3> DEFINE s == [slots[i] EXCEPT !.pc = "page",
                                       !.next = LastPage(pages[slots[i].job]) + 1]
      <3>1. s.job = slots[i].job /\ s.pc = "page"
        BY <1>0 DEF Slot
      <3> QED
        BY <2>5, <3>1 DEF HoldPc, RunPc, ReadProgress
    <2>6. CASE ReadTally(i)
      <3> DEFINE s == [slots[i] EXCEPT !.pc = "finalize", !.tally = Tally(pages[slots[i].job])]
      <3>1. s.job = slots[i].job /\ s.pc = "finalize"
        BY <1>0 DEF Slot
      <3> QED
        BY <2>6, <3>1 DEF HoldPc, RunPc, ReadTally
    <2>7. CASE Settle(i)
      <3>1. Idle.pc = "idle"
        BY DEF Idle
      <3> QED
        BY <2>7, <3>1 DEF HoldPc, RunPc, Settle
    <2>8. ASSUME NEW err \in RunError, RunThrows(i, err)
          PROVE  \E s : SetSlot(i, s) /\ QuietChange(i, s)
      <3> DEFINE s == [slots[i] EXCEPT !.pc = "handle", !.err = err, !.next = 0,
                                       !.tally = Idle.tally]
      <3>1. s.job = slots[i].job /\ s.pc = "handle"
        BY <1>0 DEF Slot
      <3> QED
        BY <2>8, <3>1 DEF HoldPc, RunPc, RunThrows
    <2>9. CASE QueryFails(i)
      BY <2>9, EndedPc DEF QueryFails
    <2> QED
      BY <2>1, <2>2, <2>3, <2>4, <2>5, <2>6, <2>7, <2>8, <2>9
  <1>2. UNCHANGED <<jobs, leaked, recs>>
    BY DEF Deliver, FindJob, RereadJob, MakeWorkDir, LoadDocument, FetchAndInspect,
           ReadProgress, ReadTally, Settle, RunThrows, QueryFails
  <1>3. s \in Slot
    BY <1>1, SlotTyped
  <1> QED
    BY <1>1, <1>2, <1>3, QuietSlot DEF QuietChange

\* Statements that leave the counters of a row alone.
CountsKept(r, q) == q.total = r.total /\ q.processed = r.processed /\ q.failed = r.failed

OnlyMoved(r, q) == CountsKept(r, q) /\ q.attempts = r.attempts

\* claim, heartbeat, recover, fail, requeue and cancel are such statements.
LEMMA RowsKeepCounts ==
    ASSUME NEW r \in JobRow
    PROVE  /\ CountsKept(r, ClaimRow(r))
           /\ OnlyMoved(r, HeartbeatRow(r))
           /\ OnlyMoved(r, RecoverRow(r))
           /\ OnlyMoved(r, [r EXCEPT !.fresh = FALSE])
           /\ \A code : /\ OnlyMoved(r, FailRow(r, code))
                        /\ OnlyMoved(r, RequeueRow(r, code))
                        /\ OnlyMoved(r, CancelRow(r, code))
  <1> USE DEF JobRow, CountsKept, OnlyMoved
  <1>1. CountsKept(r, ClaimRow(r))
    BY DEF ClaimRow
  <1>2. OnlyMoved(r, HeartbeatRow(r)) /\ OnlyMoved(r, RecoverRow(r))
    BY DEF HeartbeatRow, RecoverRow
  <1>3. OnlyMoved(r, [r EXCEPT !.fresh = FALSE])
    OBVIOUS
  <1>4. ASSUME NEW code
        PROVE  /\ OnlyMoved(r, FailRow(r, code))
               /\ OnlyMoved(r, RequeueRow(r, code))
               /\ OnlyMoved(r, CancelRow(r, code))
    BY DEF FailRow, RequeueRow, CancelRow
  <1> QED
    BY <1>1, <1>2, <1>3, <1>4

\* The last write of a delivery.
LEMMA DeliveryEnds ==
    ASSUME Inv, Inv', HoldersInv, NEW i \in Instances,
           FailExhausted(i) \/ CancelJob(i) \/ HandleFailure(i) \/ Finalize(i)
    PROVE  NoNewHolder
  <1> DEFINE w == slots[i].job
  <1>0. w \in Jobs /\ slots[i].pc \in HoldPc
    BY DEF Inv, SlotsInv, SlotOK, HoldPc, RunPc, FailExhausted, CancelJob, HandleFailure, Finalize
  <1>1. jobs \in [Jobs -> JobRow] /\ jobs' \in [Jobs -> JobRow]
    BY DEF Inv, JobsInv
  <1>2. PICK r : SetJob(w, r) /\ r.attempts = jobs[w].attempts
    <2>0. ASSUME NEW r, SetJob(w, r), OnlyMoved(jobs[w], r)
          PROVE  \E q : SetJob(w, q) /\ q.attempts = jobs[w].attempts
      BY <2>0 DEF OnlyMoved
    <2>1. CASE FailExhausted(i) \/ CancelJob(i) \/ HandleFailure(i)
      <3>1. PICK code : \/ SetJob(w, FailRow(jobs[w], code))
                        \/ SetJob(w, RequeueRow(jobs[w], code))
                        \/ SetJob(w, CancelRow(jobs[w], code))
        BY <2>1 DEF FailExhausted, CancelJob, HandleFailure
      <3> QED
        BY <1>0, <1>1, <2>0, <3>1, RowsKeepCounts
    <2>4. CASE Finalize(i)
      <3>1. PICK d : SetJob(w, FinalizeRow(jobs[w], slots[i].tally, d))
        BY <2>4 DEF Finalize
      <3>2. FinalizeRow(jobs[w], slots[i].tally, d).attempts = jobs[w].attempts
        BY <1>0, <1>1 DEF FinalizeRow, JobRow
      <3> QED
        BY <3>1, <3>2
    <2> QED
      BY <2>1, <2>4
  <1>3. r \in JobRow
    BY <1>0, <1>1, <1>2 DEF SetJob
  <1>4. PICK o : SetSlot(i, Ended(i, o))
    BY DEF FailExhausted, CancelJob, HandleFailure, Finalize
  <1>5. Ended(i, o) \in Slot
    BY <1>4, SlotTyped
  <1>6. UNCHANGED <<leaked, recs>>
    BY DEF FailExhausted, CancelJob, HandleFailure, Finalize
  <1> QED
    BY <1>0, <1>2, <1>3, <1>4, <1>5, <1>6, EndingWrite

\* setTotalPages and persistPage.
LEMMA DeliveryWrites ==
    ASSUME Inv, Inv', HoldersInv, NEW i \in Instances,
           SetTotalPages(i) \/ \E result \in {"ok", "failed"} : PersistPage(i, result)
    PROVE  NoNewHolder
  <1> DEFINE w == slots[i].job
  <1>0. slots[i].pc \in RunPc /\ slots[i] \in Slot
    BY DEF Inv, SlotsInv, RunPc, SetTotalPages, PersistPage
  <1>1. jobs \in [Jobs -> JobRow] /\ jobs' \in [Jobs -> JobRow]
    BY DEF Inv, JobsInv
  <1>2. /\ w \in Jobs
        /\ jobs[w].status = "PROCESSING" /\ jobs[w].fresh
    BY <1>0, WorkerHas
  <1>3. PICK r : /\ SetJob(w, r) /\ r.attempts = jobs[w].attempts
                 /\ r.status = "PROCESSING" /\ r.fresh
    <2>1. CASE SetTotalPages(i)
      <3> DEFINE q == TotalPagesRow(jobs[w], PageCount[w])
      <3>1. SetJob(w, q)
        BY <2>1 DEF SetTotalPages
      <3>2. q.attempts = jobs[w].attempts /\ q.status = "PROCESSING" /\ q.fresh
        BY <1>1, <1>2 DEF TotalPagesRow, JobRow
      <3> QED
        BY <3>1, <3>2
    <2>2. ASSUME NEW result \in {"ok", "failed"}, PersistPage(i, result)
          PROVE  \E r : /\ SetJob(w, r) /\ r.attempts = jobs[w].attempts
                       /\ r.status = "PROCESSING" /\ r.fresh
      <3>1. PICK pg : SetJob(w, CountersRow(jobs[w], pg))
        BY <2>2 DEF PersistPage
      <3>2. /\ CountersRow(jobs[w], pg).attempts = jobs[w].attempts
            /\ CountersRow(jobs[w], pg).status = "PROCESSING"
            /\ CountersRow(jobs[w], pg).fresh
        BY <1>1, <1>2 DEF CountersRow, JobRow
      <3> QED
        BY <3>1, <3>2
    <2> QED
      BY <2>1, <2>2
  <1>4. r \in JobRow
    BY <1>1, <1>2, <1>3 DEF SetJob
  <1>5. PICK s : SetSlot(i, s) /\ s.job = w /\ s.pc \in RunPc
    <2>1. CASE SetTotalPages(i)
      <3> DEFINE s == [slots[i] EXCEPT !.pc = "progress"]
      <3>1. s.job = w /\ s.pc = "progress"
        BY <1>0 DEF Slot
      <3> QED
        BY <2>1, <3>1 DEF SetTotalPages, RunPc
    <2>2. ASSUME NEW result \in {"ok", "failed"}, PersistPage(i, result)
          PROVE  \E s : SetSlot(i, s) /\ s.job = w /\ s.pc \in RunPc
      <3> DEFINE s == [slots[i] EXCEPT !.next = @ + 1]
      <3>1. s.job = w /\ s.pc = slots[i].pc
        BY <1>0 DEF Slot
      <3> QED
        BY <1>0, <2>2, <3>1 DEF PersistPage
    <2> QED
      BY <2>1, <2>2
  <1>6. s \in Slot
    BY <1>5, SlotTyped
  <1>7. UNCHANGED <<leaked, recs>>
    BY DEF SetTotalPages, PersistPage
  <1> QED
    BY <1>0, <1>3, <1>4, <1>5, <1>6, <1>7, WorkingWrite

\* mkdtemp throws: the instance keeps the job through its heartbeat interval.
LEMMA LeakKeeps ==
    ASSUME Inv, Inv', HoldersInv, NEW i \in Instances, MakeWorkDirFails(i)
    PROVE  NoNewHolder
  <1> DEFINE w == slots[i].job
  <1>1. w \in Jobs /\ w \notin leaked[i] /\ Works(i, w)
    BY WorkerHas DEF MakeWorkDirFails, Works, HoldPc
  <1>2. /\ slots \in [Instances -> Slot] /\ leaked \in [Instances -> SUBSET Jobs]
        /\ UNCHANGED <<jobs, recs>>
    BY DEF Inv, SlotsInv, RestInv, MakeWorkDirFails
  <1>3. /\ slots'[i].pc \notin HoldPc
        /\ leaked'[i] = leaked[i] \union {w}
        /\ \A k \in Instances \ {i} : slots'[k] = slots[k] /\ leaked'[k] = leaked[k]
    BY <1>2, EndedPc DEF MakeWorkDirFails, SetSlot
  <1>4. ASSUME NEW k \in Instances, NEW j \in Jobs, Holds(k, j)'
        PROVE  /\ Holds(k, j)
               /\ Held(k, j) => Held(k, j)'
               /\ Spent(k, j) => Spent(k, j)'
               /\ LeakedAndWorks(k, j)' => LeakedAndWorks(k, j)
    <2>1. CASE k = i
      <3>1. ~Works(i, j)' /\ j \in leaked'[i]
        BY <1>3, <1>4, <2>1 DEF Holds, Works
      <3>2. Holds(i, j)
        BY <1>1, <1>3, <3>1 DEF Holds
      <3>3. ~Spent(i, j)
        BY DEF Spent, MakeWorkDirFails
      <3> QED
        BY <1>2, <2>1, <3>1, <3>2, <3>3 DEF LeakedAndWorks, Held
    <2>2. CASE k # i
      BY <1>2, <1>3, <1>4, <2>2 DEF Holds, Works, LeakedAndWorks, Spent, Held
    <2> QED
      BY <2>1, <2>2
  <1> QED
    BY <1>2, <1>4 DEF NoNewHolder, Inv, JobsInv, JobRow

-----------------------------------------------------------------------------
(* Claims, time, reconcilers and crashes *)

\* A claim succeeds only when nobody holds the job, and makes the claimant its
\* only holder; if a reconciler is about to fail the job, the claim is already
\* beyond the attempts.
LEMMA ClaimKeeps ==
    ASSUME Inv, Inv', HoldersInv, RoundsInv, NEW i \in Instances, ClaimJob(i)
    PROVE  HoldersInv' /\ RoundsInv'
  <1>w. PICK w \in Jobs : w = slots[i].job
    BY DEF Inv, SlotsInv, SlotOK, ClaimJob
  <1>0. slots[i].pc = "claim" /\ slots \in [Instances -> Slot]
    BY DEF Inv, SlotsInv, ClaimJob
  <1>1. jobs \in [Jobs -> JobRow]
    BY DEF Inv, JobsInv
  <1>2. UNCHANGED <<leaked, recs>>
    BY DEF ClaimJob
  <1>3. CASE ~Claimable(jobs[w])
    <2>1. jobs' = jobs
      BY <1>w, <1>0, <1>1, <1>3 DEF ClaimJob, ClaimRow, SetJob
    <2>2. SetSlot(i, Ended(i, "retry")) /\ Ended(i, "retry").pc \notin HoldPc
      BY <1>w, <1>3, EndedPc DEF ClaimJob
    <2>3. Ended(i, "retry") \in Slot
      BY <2>2, SlotTyped
    <2>4. NoNewHolder
      BY <1>2, <2>1, <2>2, <2>3, QuietSlot
    <2> QED
      BY <2>4, NoNewHolderKeeps
  <1>4. CASE Claimable(jobs[w])
    <2>1. \A k \in Instances : ~Holds(k, w)
      BY <1>w, <1>0, <1>4 DEF Claimable, Stale, HoldersInv, Held
    <2>2. /\ jobs'[w] = ClaimRow(jobs[w])
          /\ \A x \in Jobs \ {w} : jobs'[x] = jobs[x]
      BY <1>w, <1>0, <1>1 DEF ClaimJob, SetJob
    <2>3. /\ jobs'[w].status = "PROCESSING" /\ jobs'[w].fresh
          /\ jobs'[w].attempts = jobs[w].attempts + 1
      BY <1>w, <1>0, <1>1, <1>4, <2>2 DEF ClaimRow, JobRow
    <2>4. /\ slots'[i].pc = "reread" /\ slots'[i].job = w
          /\ \A k \in Instances \ {i} : slots'[k] = slots[k]
      BY <1>w, <1>0, <1>4 DEF ClaimJob, SetSlot, Slot
    <2>5. \A k \in Instances : Holds(k, w)' => k = i
      BY <1>2, <2>1, <2>4 DEF Holds, Works
    <2>6. w \notin leaked[i]
      BY <2>1 DEF Holds
    <2>7. ASSUME NEW k \in Instances, NEW x \in Jobs \ {w}, Holds(k, x)'
          PROVE  /\ Holds(k, x)
                 /\ Held(k, x) => Held(k, x)'
                 /\ Spent(k, x) => Spent(k, x)'
                 /\ LeakedAndWorks(k, x)' => LeakedAndWorks(k, x)
      <3>1. CASE k = i
        BY <1>2, <2>2, <2>4, <2>7, <3>1 DEF Holds, Works, LeakedAndWorks, Held, Spent
      <3>2. CASE k # i
        BY <1>2, <2>2, <2>4, <2>7, <3>2 DEF Holds, Works, LeakedAndWorks, Held, Spent
      <3> QED
        BY <3>1, <3>2
    <2>8. HoldersInv'
      <3> SUFFICES ASSUME NEW k \in Instances, NEW x \in Jobs, Holds(k, x)'
                   PROVE  /\ Held(k, x)'
                          /\ ~LeakedAndWorks(k, x)'
                          /\ \A m \in Instances : Holds(m, x)' => m = k
        BY DEF HoldersInv
      <3>1. CASE x = w
        BY <1>2, <2>3, <2>5, <2>6, <3>1 DEF Held, LeakedAndWorks
      <3>2. CASE x # w
        BY <2>7, <3>2 DEF HoldersInv
      <3> QED
        BY <3>1, <3>2
    <2>9. ASSUME NEW m \in Instances, NEW s \in recs'[m].stale, s.attempts >= MaxAttempts
          PROVE  /\ jobs'[s.job].attempts >= s.attempts
                 /\ \A k \in Instances : Holds(k, s.job)' => Spent(k, s.job)'
      <3>1. /\ s.job \in Jobs /\ s.attempts \in Nat
            /\ jobs[s.job].attempts >= s.attempts
            /\ \A k \in Instances : Holds(k, s.job) => Spent(k, s.job)
        BY <1>2, <2>9 DEF Inv, RecsInv, Rec, RoundsInv
      <3>2. CASE s.job = w
        <4>1. jobs[w].attempts \in Nat /\ MaxAttempts \in Nat
          BY <1>w, <1>0, <1>1, MaxAttemptsAssumption DEF JobRow
        <4>2. jobs'[w].attempts >= s.attempts /\ jobs'[w].attempts > MaxAttempts
          <5>1. jobs[w].attempts >= s.attempts
            BY <3>1, <3>2
          <5>2. \A a, b, c \in Nat : a >= b /\ b >= c => a + 1 >= b /\ a + 1 > c
            OBVIOUS
          <5> QED
            BY <2>3, <2>9, <3>1, <4>1, <5>1, <5>2
        <4>3. Spent(i, w)'
          BY <1>2, <2>4, <2>6, <4>2 DEF Spent
        <4> QED
          BY <2>5, <3>2, <4>2, <4>3
      <3>3. CASE s.job # w
        BY <2>2, <2>7, <3>1, <3>3
      <3> QED
        BY <3>2, <3>3
    <2> QED
      BY <2>8, <2>9 DEF RoundsInv
  <1> QED
    BY <1>3, <1>4

\* Steps that change neither deliveries nor heartbeat intervals, and a row, if
\* at all, in a way that its holders do not notice.
LEMMA RowTouched ==
    ASSUME Inv, NEW w \in Jobs, NEW r, SetJob(w, r), r.attempts = jobs[w].attempts,
           \A k \in Instances : Holds(k, w) =>
               \/ r.status = jobs[w].status /\ (jobs[w].fresh => r.fresh)
               \/ r.status = "FAILED" /\ Spent(k, w),
           UNCHANGED <<slots, leaked>>,
           \A k \in Instances : recs'[k].stale \subseteq recs[k].stale
    PROVE  NoNewHolder
  <1>1. jobs \in [Jobs -> JobRow]
    BY DEF Inv, JobsInv
  <1>2. jobs'[w] = r /\ \A x \in Jobs \ {w} : jobs'[x] = jobs[x]
    BY <1>1 DEF SetJob
  <1>3. \A j \in Jobs : jobs'[j].attempts = jobs[j].attempts
    BY <1>2
  <1>4. ASSUME NEW k \in Instances, NEW j \in Jobs, Holds(k, j)'
        PROVE  /\ Holds(k, j)
               /\ Held(k, j) => Held(k, j)'
               /\ Spent(k, j) => Spent(k, j)'
               /\ LeakedAndWorks(k, j)' => LeakedAndWorks(k, j)
    <2>1. /\ Holds(k, j)
          /\ Spent(k, j) => Spent(k, j)'
          /\ LeakedAndWorks(k, j)' => LeakedAndWorks(k, j)
      BY <1>3, <1>4 DEF Holds, Works, Spent, LeakedAndWorks
    <2>2. Held(k, j) => Held(k, j)'
      BY <1>2, <2>1 DEF Held
    <2> QED
      BY <2>1, <2>2
  <1>5. \A j \in Jobs : jobs'[j].attempts >= jobs[j].attempts
    BY <1>1, <1>3 DEF JobRow
  <1> QED
    BY <1>4, <1>5 DEF NoNewHolder

\* Nothing that concerns holders changes.
LEMMA NothingTouched ==
    ASSUME Inv, UNCHANGED <<jobs, slots, leaked>>,
           \A k \in Instances : recs'[k].stale \subseteq recs[k].stale
    PROVE  NoNewHolder
  BY DEF NoNewHolder, Holds, Works, Held, Spent, LeakedAndWorks, Inv, JobsInv, JobRow

\* Heartbeats and expiring heartbeats.
LEMMA TimeKeeps ==
    ASSUME Inv, Inv', HoldersInv, NEW j \in Jobs,
           \/ \E i \in Instances : Heartbeat(i, j)
           \/ HeartbeatExpires(j)
    PROVE  NoNewHolder
  <1>1. jobs[j] \in JobRow
    BY DEF Inv, JobsInv
  <1>2. CASE \E i \in Instances : Heartbeat(i, j)
    <2>1. SetJob(j, HeartbeatRow(jobs[j])) /\ UNCHANGED <<slots, leaked, recs>>
      BY <1>2 DEF Heartbeat
    <2>2. /\ HeartbeatRow(jobs[j]).attempts = jobs[j].attempts
          /\ HeartbeatRow(jobs[j]).status = jobs[j].status
          /\ jobs[j].fresh => HeartbeatRow(jobs[j]).fresh
      BY <1>1 DEF HeartbeatRow, JobRow
    <2> QED
      BY <2>1, <2>2, RowTouched
  <1>3. CASE HeartbeatExpires(j)
    <2>1. SetJob(j, [jobs[j] EXCEPT !.fresh = FALSE]) /\ UNCHANGED <<slots, leaked, recs>>
      BY <1>3 DEF HeartbeatExpires
    <2>2. [jobs[j] EXCEPT !.fresh = FALSE].attempts = jobs[j].attempts
      BY <1>1 DEF JobRow
    <2>3. \A k \in Instances : ~Holds(k, j)
      BY <1>3 DEF HeartbeatExpires
    <2> QED
      BY <2>1, <2>2, <2>3, RowTouched
  <1> QED
    BY <1>2, <1>3

\* A job that reconcile finds stale is held by nobody.
LEMMA FindStaleKeeps ==
    ASSUME Inv, HoldersInv, RoundsInv, NEW i \in Instances, FindStaleProcessing(i)
    PROVE  HoldersInv' /\ RoundsInv'
  <1>1. UNCHANGED <<jobs, slots, leaked>>
    BY DEF FindStaleProcessing
  <1>2. HoldersInv'
    BY <1>1 DEF HoldersInv, Holds, Works, Held, Spent, LeakedAndWorks
  <1>3. recs \in [Instances -> Rec] /\ jobs \in [Jobs -> JobRow]
    BY DEF Inv, RecsInv, JobsInv
  <1> DEFINE found == {[job |-> j, attempts |-> jobs[j].attempts] :
                            j \in {k \in Jobs : Stale(jobs[k])}}
  <1>4. recs'[i].stale = found /\ \A k \in Instances \ {i} : recs'[k] = recs[k]
    BY <1>3 DEF FindStaleProcessing, SetRec, Rec
  <1>5. ASSUME NEW m \in Instances, NEW s \in recs'[m].stale, s.attempts >= MaxAttempts
        PROVE  /\ jobs[s.job].attempts >= s.attempts
               /\ \A k \in Instances : Holds(k, s.job) => Spent(k, s.job)
    <2>1. CASE m # i
      BY <1>4, <1>5, <2>1 DEF RoundsInv
    <2>2. CASE m = i
      <3>1. PICK j \in Jobs : Stale(jobs[j]) /\ s = [job |-> j, attempts |-> jobs[j].attempts]
        BY <1>4, <1>5, <2>2
      <3>2. jobs[j].attempts \in Nat
        BY <1>3 DEF JobRow
      <3>3. \A k \in Instances : ~Holds(k, j)
        BY <3>1 DEF HoldersInv, Held, Stale
      <3> QED
        BY <3>1, <3>2, <3>3
    <2> QED
      BY <2>1, <2>2
  <1>6. RoundsInv'
    BY <1>1, <1>5 DEF RoundsInv, Holds, Works, Spent
  <1> QED
    BY <1>2, <1>6

\* reconcile takes no job away from a worker that could still store a page.
LEMMA ReconcileKeeps ==
    ASSUME Inv, Inv', HoldersInv, RoundsInv, NEW i \in Instances,
           \/ \E s \in recs[i].stale : FailInterrupted(i, s) \/ RecoverInterrupted(i, s)
           \/ ReenqueueRecovered(i) \/ FindQueued(i)
           \/ \E j \in recs[i].queued : EnqueueQueued(i, j)
           \/ ReconcileEnds(i) \/ ReconcileFails(i)
    PROVE  NoNewHolder
  <1>0. /\ UNCHANGED <<slots, leaked>>
        /\ recs \in [Instances -> Rec] /\ jobs \in [Jobs -> JobRow]
    BY DEF Inv, RecsInv, JobsInv, FailInterrupted, RecoverInterrupted, ReenqueueRecovered,
           FindQueued, EnqueueQueued, ReconcileEnds, ReconcileFails
  <1>1. ASSUME NEW k \in Instances
        PROVE  recs'[k].stale \subseteq recs[k].stale
    <2>1. PICK r : SetRec(i, r) /\ r.stale \subseteq recs[i].stale
      <3>1. ASSUME NEW s \in recs[i].stale, FailInterrupted(i, s)
            PROVE  \E r : SetRec(i, r) /\ r.stale \subseteq recs[i].stale
        <4>1. [recs[i] EXCEPT !.stale = @ \ {s}].stale \subseteq recs[i].stale
          BY <1>0 DEF Rec
        <4> QED
          BY <3>1, <4>1 DEF FailInterrupted
      <3>2. ASSUME NEW s \in recs[i].stale, RecoverInterrupted(i, s)
            PROVE  \E r : SetRec(i, r) /\ r.stale \subseteq recs[i].stale
        <4> DEFINE rest == recs[i].stale \ {s}
        <4>1. /\ [recs[i] EXCEPT !.pc = "reenqueue", !.stale = rest, !.cur = s.job].stale = rest
              /\ [recs[i] EXCEPT !.stale = rest].stale = rest
          BY <1>0 DEF Rec
        <4> QED
          BY <3>2, <4>1 DEF RecoverInterrupted
      <3>3. CASE ReenqueueRecovered(i)
        <4>1. [recs[i] EXCEPT !.pc = "stale", !.cur = NoJob].stale = recs[i].stale
          BY <1>0 DEF Rec
        <4> QED
          BY <3>3, <4>1 DEF ReenqueueRecovered
      <3>4. CASE FindQueued(i)
        <4>1. [recs[i] EXCEPT !.pc = "queued",
                              !.queued = {j \in Jobs : jobs[j].status = "QUEUED"}].stale
                = recs[i].stale
          BY <1>0 DEF Rec
        <4> QED
          BY <3>4, <4>1 DEF FindQueued
      <3>5. ASSUME NEW j \in recs[i].queued, EnqueueQueued(i, j)
            PROVE  \E r : SetRec(i, r) /\ r.stale \subseteq recs[i].stale
        <4>1. [recs[i] EXCEPT !.queued = @ \ {j}].stale = recs[i].stale
          BY <1>0 DEF Rec
        <4> QED
          BY <3>5, <4>1 DEF EnqueueQueued
      <3>6. CASE ReconcileEnds(i) \/ ReconcileFails(i)
        <4>1. NotReconciling.stale = {}
          BY DEF NotReconciling
        <4> QED
          BY <3>6, <4>1 DEF ReconcileEnds, ReconcileFails
      <3> QED
        BY <3>1, <3>2, <3>3, <3>4, <3>5, <3>6
    <2> QED
      BY <1>0, <2>1 DEF SetRec
  <1>2. ASSUME NEW s \in recs[i].stale, FailInterrupted(i, s)
        PROVE  NoNewHolder
    <2>1. s.job \in Jobs
      BY <1>0 DEF Rec
    <2>2. \A k \in Instances : Holds(k, s.job) => Spent(k, s.job)
      BY <1>2 DEF FailInterrupted, RoundsInv
    <2> DEFINE q == FailRow(jobs[s.job], "retryable")
    <2>3. SetJob(s.job, q)
      BY <1>2 DEF FailInterrupted
    <2>4. /\ q.attempts = jobs[s.job].attempts
          /\ q.status = "FAILED" \/ q = jobs[s.job]
      BY <1>0, <2>1 DEF FailRow, JobRow
    <2> HIDE DEF q
    <2> QED
      BY <1>0, <1>1, <2>1, <2>2, <2>3, <2>4, RowTouched
  <1>3. ASSUME NEW s \in recs[i].stale, RecoverInterrupted(i, s)
        PROVE  NoNewHolder
    <2>1. s.job \in Jobs
      BY <1>0 DEF Rec
    <2> DEFINE q == RecoverRow(jobs[s.job])
    <2>3. SetJob(s.job, q)
      BY <1>3 DEF RecoverInterrupted
    <2>4. q.attempts = jobs[s.job].attempts
      BY <1>0, <2>1 DEF RecoverRow, JobRow
    <2>5. Stale(jobs[s.job]) => \A k \in Instances : ~Holds(k, s.job)
      BY <2>1 DEF HoldersInv, Held, Stale
    <2>6. ~Stale(jobs[s.job]) => q = jobs[s.job]
      BY DEF RecoverRow
    <2> HIDE DEF q
    <2> QED
      BY <1>0, <1>1, <2>1, <2>3, <2>4, <2>5, <2>6, RowTouched
  <1>4. CASE \/ ReenqueueRecovered(i) \/ FindQueued(i)
             \/ \E j \in recs[i].queued : EnqueueQueued(i, j)
             \/ ReconcileEnds(i) \/ ReconcileFails(i)
    <2>1. UNCHANGED jobs
      BY <1>4 DEF ReenqueueRecovered, FindQueued, EnqueueQueued, ReconcileEnds, ReconcileFails
    <2> QED
      BY <1>0, <1>1, <2>1, NothingTouched
  <1> QED
    BY <1>2, <1>3, <1>4

\* A crash only takes holders away.
LEMMA CrashKeeps ==
    ASSUME Inv, NEW i \in Instances, Crash(i)
    PROVE  NoNewHolder
  <1>1. /\ slots'[i] = Idle /\ leaked'[i] = {} /\ recs'[i] = NotReconciling
        /\ \A k \in Instances \ {i} : slots'[k] = slots[k] /\ leaked'[k] = leaked[k]
                                      /\ recs'[k] = recs[k]
        /\ jobs' = jobs
    BY DEF Inv, SlotsInv, RecsInv, RestInv, Crash, SetSlot, SetRec
  <1>2. \A j : ~Holds(i, j)'
    BY <1>1 DEF Holds, Works, Idle, HoldPc, RunPc
  <1>3. ASSUME NEW k \in Instances, NEW j \in Jobs, Holds(k, j)'
        PROVE  /\ Holds(k, j)
               /\ Held(k, j) => Held(k, j)'
               /\ Spent(k, j) => Spent(k, j)'
               /\ LeakedAndWorks(k, j)' => LeakedAndWorks(k, j)
    BY <1>1, <1>2, <1>3 DEF Holds, Works, Held, Spent, LeakedAndWorks
  <1>4. \A k \in Instances : recs'[k].stale \subseteq recs[k].stale
    BY <1>1 DEF NotReconciling
  <1> QED
    BY <1>1, <1>3, <1>4 DEF NoNewHolder, Inv, JobsInv, JobRow

\* Every step but a lapse keeps every job with at most one holder.
LEMMA StepKeepsHolders ==
    ASSUME Inv, Inv', HoldersInv, RoundsInv, [Next]_vars,
           \A j \in Jobs : ~HeartbeatLapses(j)
    PROVE  HoldersInv' /\ RoundsInv'
  <1>1. ASSUME NEW j \in Jobs, Api(j) \/ Time(j) \/ LoseEntry(j)
        PROVE  NoNewHolder
    <2>1. CASE Api(j) \/ LoseEntry(j) \/ LockExpires(j) \/ LockLapses(j) \/ BackoffEnds(j)
      <3>1. UNCHANGED <<jobs, slots, leaked, recs>>
        BY <2>1 DEF Api, Schedule, ScheduleFails, DeleteDocument, LoseEntry, LockExpires,
                    LockLapses, BackoffEnds
      <3> QED
        BY <3>1, NothingTouched
    <2> QED
      BY <1>1, <2>1, TimeKeeps DEF Time
  <1>2. ASSUME NEW i \in Instances,
               \/ \E j \in Jobs : Deliver(i, j)
               \/ DeliveryStep(i) \/ DeliveryFails(i)
        PROVE  ClaimJob(i) \/ NoNewHolder
    BY <1>2, QuietDelivery, DeliveryEnds, DeliveryWrites, LeakKeeps
       DEF DeliveryStep, DeliveryFails
  <1>3. ASSUME NEW i \in Instances, ReconcileStep(i) \/ ReconcileFails(i) \/ Crash(i)
        PROVE  FindStaleProcessing(i) \/ NoNewHolder
    BY <1>3, ReconcileKeeps, CrashKeeps DEF ReconcileStep
  <1>4. CASE UNCHANGED vars
    BY <1>4, NothingTouched, NoNewHolderKeeps DEF vars
  <1> QED
    BY <1>1, <1>2, <1>3, <1>4, ClaimKeeps, FindStaleKeeps, NoNewHolderKeeps DEF Next

-----------------------------------------------------------------------------
(* Counters and resume points *)

\* total_pages is unknown or the number of pages of the document.
TotalsInv == \A j \in Jobs : jobs[j].total \in {0, PageCount[j]}

\* Without lapses a worker in the page loop has stored exactly the pages before
\* `next`, and finalize's tally is still the state of the pages.
ProgressInv ==
    \A i \in Instances :
        /\ slots[i].pc = "page" =>
               StoredPages(pages[slots[i].job]) = 1..(slots[i].next - 1)
        /\ slots[i].pc = "finalize" => slots[i].tally = Tally(pages[slots[i].job])

\* The counters of a job are those of its pages.
Counted(r, pg) ==
    /\ r.processed = Cardinality(StoredPages(pg))
    /\ r.failed = Cardinality(FailedPages(pg))

CountersInv == \A j \in Jobs : Counted(jobs[j], pages[j])

CountsInv == TotalsInv /\ ProgressInv /\ CountersInv

\* A step that touches neither pages nor counters, and starts neither the page
\* loop nor finalize.
Uncounted ==
    /\ UNCHANGED pages
    /\ \A j \in Jobs : CountsKept(jobs[j], jobs'[j])
    /\ \A i \in Instances : slots'[i].pc \in {"page", "finalize"} => slots'[i] = slots[i]

\* Such a step keeps counters and resume points right.
LEMMA UncountedKeeps ==
    ASSUME Inv, CountsInv, Uncounted
    PROVE  CountsInv'
  <1>1. TotalsInv' /\ CountersInv'
    BY DEF CountsInv, TotalsInv, CountersInv, Counted, Uncounted, CountsKept
  <1>2. ProgressInv'
    BY DEF CountsInv, ProgressInv, Uncounted
  <1> QED
    BY <1>1, <1>2 DEF CountsInv

\* A statement that leaves the counters of one row alone leaves all alone.
LEMMA RowCountsKept ==
    ASSUME Inv, NEW j \in Jobs, NEW r, SetJob(j, r), CountsKept(jobs[j], r)
    PROVE  \A x \in Jobs : CountsKept(jobs[x], jobs'[x])
  <1>1. jobs \in [Jobs -> JobRow]
    BY DEF Inv, JobsInv
  <1> QED
    BY <1>1 DEF SetJob, CountsKept

\* A delivery that does not enter the page loop or finalize.
LEMMA SlotUncounted ==
    ASSUME Inv, NEW i \in Instances, NEW s, SetSlot(i, s), s.pc \notin {"page", "finalize"}
    PROVE  \A k \in Instances : slots'[k].pc \in {"page", "finalize"} => slots'[k] = slots[k]
  <1>1. slots \in [Instances -> Slot]
    BY DEF Inv, SlotsInv
  <1> QED
    BY <1>1 DEF SetSlot

\* Everything but setTotalPages, the page loop and finalize.
LEMMA MostUncounted ==
    ASSUME Inv, Inv', [Next]_vars,
           \A i \in Instances :
               /\ ~SetTotalPages(i) /\ ~ReadProgress(i) /\ ~ReadTally(i) /\ ~Finalize(i)
               /\ \A result \in {"ok", "failed"} : ~PersistPage(i, result)
    PROVE  Uncounted
  <1>0. /\ jobs \in [Jobs -> JobRow]
        /\ slots \in [Instances -> Slot]
        /\ \A j \in Jobs : CountsKept(jobs[j], jobs[j])
    BY DEF Inv, JobsInv, SlotsInv, CountsKept
  <1>1. ASSUME NEW j \in Jobs, NEW r, SetJob(j, r), OnlyMoved(jobs[j], r)
        PROVE  \A x \in Jobs : CountsKept(jobs[x], jobs'[x])
    BY <1>1, RowCountsKept DEF OnlyMoved
  <1>2. ASSUME NEW j \in Jobs, Api(j) \/ Time(j) \/ LoseEntry(j)
        PROVE  Uncounted
    <2>1. UNCHANGED <<pages, slots>>
      BY <1>2 DEF Api, Schedule, ScheduleFails, DeleteDocument, LoseEntry, Time, Heartbeat,
                  HeartbeatExpires, HeartbeatLapses, LockExpires, LockLapses, BackoffEnds
    <2>2. \/ UNCHANGED jobs \/ SetJob(j, HeartbeatRow(jobs[j]))
          \/ SetJob(j, [jobs[j] EXCEPT !.fresh = FALSE])
      BY <1>2 DEF Api, Schedule, ScheduleFails, DeleteDocument, LoseEntry, Time, Heartbeat,
                  HeartbeatExpires, HeartbeatLapses, LockExpires, LockLapses, BackoffEnds
    <2>3. \A x \in Jobs : CountsKept(jobs[x], jobs'[x])
      BY <1>0, <1>1, <2>2, RowsKeepCounts
    <2> QED
      BY <2>1, <2>3 DEF Uncounted
  <1>3. ASSUME NEW i \in Instances, DeliveryStep(i) \/ DeliveryFails(i)
        PROVE  Uncounted
    <2>1. slots[i].pc # "idle" => slots[i].job \in Jobs
      BY DEF Inv, SlotsInv, SlotOK
    <2>2. CASE \/ FindJob(i) \/ RereadJob(i) \/ MakeWorkDir(i) \/ LoadDocument(i)
               \/ FetchAndInspect(i) \/ Settle(i) \/ DeliveryFails(i)
      <3>1. UNCHANGED <<jobs, pages>>
        BY <2>2 DEF FindJob, RereadJob, MakeWorkDir, LoadDocument, FetchAndInspect, Settle,
                    DeliveryFails, MakeWorkDirFails, RunThrows, QueryFails
      <3>2. PICK s : SetSlot(i, s) /\ s.pc \notin {"page", "finalize"}
        <4>1. CASE \/ MakeWorkDir(i) \/ LoadDocument(i) \/ FetchAndInspect(i)
                   \/ SetSlot(i, [slots[i] EXCEPT !.pc = "claim"])
          <5>1. PICK p \in {"load", "cancel", "fetch", "total", "claim"} :
                    SetSlot(i, [slots[i] EXCEPT !.pc = p])
            BY <4>1 DEF MakeWorkDir, LoadDocument, FetchAndInspect
          <5>2. [slots[i] EXCEPT !.pc = p].pc = p
            BY <1>0 DEF Slot
          <5> QED
            BY <5>1, <5>2
        <4>2. CASE RereadJob(i)
          <5> DEFINE att == jobs[slots[i].job].attempts
                     s == [slots[i] EXCEPT
                         !.pc = IF att > MaxAttempts THEN "exhausted" ELSE "mkdtemp",
                         !.att = att]
          <5>1. SetSlot(i, s)
            BY <4>2 DEF RereadJob
          <5>2. s.pc \in {"exhausted", "mkdtemp"}
            BY <1>0 DEF Slot
          <5> QED
            BY <5>1, <5>2
        <4>3. CASE Settle(i)
          <5>1. Idle.pc = "idle"
            BY DEF Idle
          <5> QED
            BY <4>3, <5>1 DEF Settle
        <4>4. ASSUME NEW err \in RunError, RunThrows(i, err)
              PROVE  \E s : SetSlot(i, s) /\ s.pc \notin {"page", "finalize"}
          <5> DEFINE s == [slots[i] EXCEPT !.pc = "handle", !.err = err, !.next = 0,
                                           !.tally = Idle.tally]
          <5>1. SetSlot(i, s)
            BY <4>4 DEF RunThrows
          <5>2. s.pc = "handle"
            BY <1>0 DEF Slot
          <5> QED
            BY <5>1, <5>2
        <4>5. CASE \E o : SetSlot(i, Ended(i, o))
          BY <4>5, EndedPc
        <4> QED
          BY <2>2, <4>1, <4>2, <4>3, <4>4, <4>5
             DEF FindJob, DeliveryFails, MakeWorkDirFails, QueryFails
      <3> QED
        BY <1>0, <3>1, <3>2, SlotUncounted DEF Uncounted
    <2>3. CASE FailExhausted(i) \/ CancelJob(i) \/ HandleFailure(i)
      <3>1. UNCHANGED pages /\ \E o : SetSlot(i, Ended(i, o))
        BY <2>3 DEF FailExhausted, CancelJob, HandleFailure
      <3>2. PICK code : \/ SetJob(slots[i].job, FailRow(jobs[slots[i].job], code))
                        \/ SetJob(slots[i].job, RequeueRow(jobs[slots[i].job], code))
                        \/ SetJob(slots[i].job, CancelRow(jobs[slots[i].job], code))
        BY <2>3 DEF FailExhausted, CancelJob, HandleFailure
      <3>3. slots[i].job \in Jobs
        BY <2>1, <2>3 DEF FailExhausted, CancelJob, HandleFailure
      <3>4. \A x \in Jobs : CountsKept(jobs[x], jobs'[x])
        BY <1>0, <1>1, <3>2, <3>3, RowsKeepCounts
      <3> QED
        BY <3>1, <3>4, EndedPc, SlotUncounted DEF Uncounted
    <2>4. CASE ClaimJob(i)
      <3>1. UNCHANGED pages
        BY <2>4 DEF ClaimJob
      <3>2. SetJob(slots[i].job, ClaimRow(jobs[slots[i].job])) /\ slots[i].job \in Jobs
        BY <2>1, <2>4 DEF ClaimJob
      <3>3. \A x \in Jobs : CountsKept(jobs[x], jobs'[x])
        BY <1>0, <3>2, RowsKeepCounts, RowCountsKept
      <3>4. PICK s : SetSlot(i, s) /\ s.pc \notin {"page", "finalize"}
        <4>1. [slots[i] EXCEPT !.pc = "reread"].pc = "reread"
          BY <1>0 DEF Slot
        <4> QED
          BY <2>4, <4>1, EndedPc DEF ClaimJob
      <3> QED
        BY <3>1, <3>3, <3>4, SlotUncounted DEF Uncounted
    <2> QED
      BY <1>3, <2>2, <2>3, <2>4 DEF DeliveryStep
  <1>4. ASSUME NEW i \in Instances, \/ Crash(i) \/ \E j \in Jobs : Deliver(i, j)
        PROVE  Uncounted
    <2>1. UNCHANGED <<jobs, pages>>
      BY <1>4 DEF Crash, Deliver
    <2>2. PICK s : SetSlot(i, s) /\ s.pc \notin {"page", "finalize"}
      <3>1. Idle.pc = "idle" /\ \A j : [Idle EXCEPT !.pc = "find", !.job = j].pc = "find"
        BY DEF Idle
      <3> QED
        BY <1>4, <3>1 DEF Crash, Deliver
    <2> QED
      BY <1>0, <2>1, <2>2, SlotUncounted DEF Uncounted
  <1>5. ASSUME NEW i \in Instances, ReconcileStep(i) \/ ReconcileFails(i)
        PROVE  Uncounted
    <2>1. UNCHANGED <<pages, slots>>
      BY <1>5 DEF ReconcileStep, FindStaleProcessing, FailInterrupted, RecoverInterrupted,
                  ReenqueueRecovered, FindQueued, EnqueueQueued, ReconcileEnds, ReconcileFails
    <2>2. \/ UNCHANGED jobs
          \/ \E s \in recs[i].stale : \/ SetJob(s.job, FailRow(jobs[s.job], "retryable"))
                                      \/ SetJob(s.job, RecoverRow(jobs[s.job]))
      BY <1>5 DEF ReconcileStep, FindStaleProcessing, FailInterrupted, RecoverInterrupted,
                  ReenqueueRecovered, FindQueued, EnqueueQueued, ReconcileEnds, ReconcileFails
    <2>3. \A s \in recs[i].stale : s.job \in Jobs
      BY DEF Inv, RecsInv, Rec
    <2>4. \A x \in Jobs : CountsKept(jobs[x], jobs'[x])
      BY <1>0, <1>1, <2>2, <2>3, RowsKeepCounts
    <2> QED
      BY <2>1, <2>4 DEF Uncounted
  <1>6. CASE UNCHANGED vars
    BY <1>0, <1>6 DEF Uncounted, vars
  <1> QED
    BY <1>2, <1>3, <1>4, <1>5, <1>6 DEF Next

-----------------------------------------------------------------------------
(* The page loop and finalize *)

\* persistedProgress of an interval is its upper end.
LEMMA LastPageOf ==
    ASSUME NEW n \in Nat, NEW pg, StoredPages(pg) = 1..n
    PROVE  LastPage(pg) = n
  <1>1. CASE n = 0
    BY <1>1 DEF LastPage
  <1>2. CASE n # 0
    <2>1. n \in 1..n /\ \A q \in 1..n : q <= n
      BY <1>2
    <2>2. \A p \in 1..n : (\A q \in 1..n : q <= p) => p = n
      BY <2>1
    <2> QED
      BY <2>1, <2>2 DEF LastPage
  <1> QED
    BY <1>1, <1>2

\* setTotalPages writes the same number every time.
LEMMA TotalKeepsCounts ==
    ASSUME Inv, CountsInv, NEW i \in Instances, SetTotalPages(i)
    PROVE  CountsInv'
  <1>w. PICK w \in Jobs : w = slots[i].job
    BY DEF Inv, SlotsInv, SlotOK, SetTotalPages
  <1>1. jobs \in [Jobs -> JobRow] /\ slots \in [Instances -> Slot]
    BY DEF Inv, JobsInv, SlotsInv
  <1> DEFINE q == TotalPagesRow(jobs[w], PageCount[w])
  <1>2. jobs'[w] = q /\ \A x \in Jobs \ {w} : jobs'[x] = jobs[x]
    BY <1>w, <1>1 DEF SetTotalPages, SetJob
  <1>3. /\ q.processed = jobs[w].processed /\ q.failed = jobs[w].failed
        /\ q.total \in {jobs[w].total, PageCount[w]}
    BY <1>1 DEF TotalPagesRow, JobRow
  <1> HIDE DEF q
  <1>4. UNCHANGED pages
    BY DEF SetTotalPages
  <1>5. TotalsInv' /\ CountersInv'
    BY <1>2, <1>3, <1>4 DEF CountsInv, TotalsInv, CountersInv, Counted
  <1>6. [slots[i] EXCEPT !.pc = "progress"].pc = "progress"
    BY <1>1 DEF Slot
  <1>7. \A k \in Instances : slots'[k].pc \in {"page", "finalize"} => slots'[k] = slots[k]
    BY <1>6, SlotUncounted DEF SetTotalPages
  <1>8. ProgressInv'
    BY <1>4, <1>7 DEF CountsInv, ProgressInv
  <1> QED
    BY <1>5, <1>8 DEF CountsInv

\* The page loop starts after the last stored page, finalize reads the pages.
LEMMA ReadsKeepCounts ==
    ASSUME Inv, CountsInv, NEW i \in Instances, ReadProgress(i) \/ ReadTally(i)
    PROVE  CountsInv'
  <1>w. PICK w \in Jobs : w = slots[i].job
    BY DEF Inv, SlotsInv, SlotOK, ReadProgress, ReadTally
  <1>1. slots \in [Instances -> Slot] /\ PageCount[w] \in Nat
    BY PageCountAssumption DEF Inv, SlotsInv
  <1>2. UNCHANGED <<jobs, pages>>
    BY DEF ReadProgress, ReadTally
  <1>3. TotalsInv' /\ CountersInv'
    BY <1>2 DEF CountsInv, TotalsInv, CountersInv, Counted
  <1>4. PICK n \in 0..PageCount[w] : StoredPages(pages[w]) = 1..n
    BY DEF Inv, PagesInv, PagesContiguous
  <1>5. n \in Nat /\ (n + 1) - 1 = n
    BY <1>1
  <1>6. \A k \in Instances \ {i} : slots'[k] = slots[k]
    BY <1>1 DEF ReadProgress, ReadTally, SetSlot
  <1>7. /\ slots'[i].job = w
        /\ slots'[i].pc = "page" => StoredPages(pages[w]) = 1..(slots'[i].next - 1)
        /\ slots'[i].pc = "finalize" => slots'[i].tally = Tally(pages[w])
    <2>1. CASE ReadProgress(i)
      <3>1. LastPage(pages[w]) = n
        BY <1>4, <1>5, LastPageOf
      <3>2. slots'[i].job = w /\ slots'[i].pc = "page" /\ slots'[i].next = n + 1
        BY <1>w, <1>1, <2>1, <3>1 DEF ReadProgress, SetSlot, Slot
      <3> QED
        BY <1>4, <1>5, <3>2
    <2>2. CASE ReadTally(i)
      BY <1>w, <1>1, <2>2 DEF ReadTally, SetSlot, Slot
    <2> QED
      BY <2>1, <2>2
  <1>8. ProgressInv'
    BY <1>2, <1>6, <1>7 DEF CountsInv, ProgressInv
  <1> QED
    BY <1>3, <1>8 DEF CountsInv

\* finalize writes the counts of the pages as they are.
LEMMA FinalizeKeepsCounts ==
    ASSUME Inv, CountsInv, NEW i \in Instances, Finalize(i)
    PROVE  CountsInv'
  <1>w. PICK w \in Jobs : w = slots[i].job
    BY DEF Inv, SlotsInv, SlotOK, Finalize
  <1>1. jobs \in [Jobs -> JobRow]
    BY DEF Inv, JobsInv
  <1>2. slots[i].tally = Tally(pages[w])
    BY <1>w DEF CountsInv, ProgressInv, Finalize
  <1>3. PICK d : SetJob(w, FinalizeRow(jobs[w], Tally(pages[w]), d))
    BY <1>w, <1>2 DEF Finalize
  <1> DEFINE q == FinalizeRow(jobs[w], Tally(pages[w]), d)
  <1>4. q.total = jobs[w].total /\ Counted(q, pages[w])
    <2>1. Counted(jobs[w], pages[w])
      BY DEF CountsInv, CountersInv
    <2> QED
      BY <1>1, <2>1 DEF FinalizeRow, JobRow, Counted, Tally
  <1>5. jobs'[w] = q /\ \A x \in Jobs \ {w} : jobs'[x] = jobs[x]
    BY <1>1, <1>3 DEF SetJob
  <1> HIDE DEF q
  <1>6. UNCHANGED pages /\ SetSlot(i, Ended(i, "done"))
    BY DEF Finalize
  <1>7. TotalsInv' /\ CountersInv'
    <2>1. TotalsInv'
      BY <1>4, <1>5 DEF CountsInv, TotalsInv
    <2>2. \A x \in Jobs : Counted(jobs'[x], pages[x])
      BY <1>4, <1>5 DEF CountsInv, CountersInv
    <2> QED
      BY <1>6, <2>1, <2>2 DEF CountersInv, Counted
  <1>8. \A k \in Instances : slots'[k].pc \in {"page", "finalize"} => slots'[k] = slots[k]
    BY <1>6, EndedPc, SlotUncounted
  <1>9. ProgressInv'
    BY <1>6, <1>8 DEF CountsInv, ProgressInv
  <1> QED
    BY <1>7, <1>9 DEF CountsInv

\* What persistPage does to the pages, the row and the slot of the only holder.
StoresNext(i, w, result) ==
    LET k  == slots[i].next
        pg == [pages[w] EXCEPT ![k] = result]
    IN  /\ k \in 1..PageCount[w]
        /\ pages[w] \in [1..PageCount[w] -> PageRow]
        /\ StoredPages(pages[w]) = 1..(k - 1)
        /\ StoredPages(pg) = 1..k
        /\ Cardinality(StoredPages(pg)) = k
        /\ pages'[w] = pg /\ \A x \in Jobs \ {w} : pages'[x] = pages[x]
        /\ jobs[w].status = "PROCESSING"
        /\ jobs'[w] = CountersRow(jobs[w], pg)
        /\ \A x \in Jobs \ {w} : jobs'[x] = jobs[x]
        /\ slots'[i] = [slots[i] EXCEPT !.next = @ + 1]
        /\ \A m \in Instances \ {i} : slots'[m] = slots[m]

\* A worker without a rival stores the page after the last one.
LEMMA PageStored ==
    ASSUME Inv, HoldersInv, CountsInv, NEW i \in Instances, NEW result \in {"ok", "failed"},
           PersistPage(i, result), NEW w \in Jobs, w = slots[i].job
    PROVE  StoresNext(i, w, result)
  <1> DEFINE k  == slots[i].next
             n  == PageCount[w]
             pg == [pages[w] EXCEPT ![k] = result]
  <1>1. k \in 1..n /\ n \in Nat
    <2>1. n \in Nat
      BY PageCountAssumption
    <2>2. k \in 1..(n + 1) /\ k <= n
      BY DEF Inv, SlotsInv, SlotOK, PersistPage
    <2> QED
      BY <2>1, <2>2
  <1>2. pages[w] \in [1..n -> PageRow] /\ DOMAIN pages = Jobs
    BY DEF Inv, PagesInv
  <1>3. StoredPages(pages[w]) = 1..(k - 1)
    BY DEF CountsInv, ProgressInv, PersistPage
  <1>4. pg \in [1..n -> PageRow] /\ StoredPages(pg) = StoredPages(pages[w]) \union {k}
    BY <1>1, <1>2 DEF StoredPages, PageRow
  <1>5. (1..(k - 1)) \union {k} = 1..k
    BY <1>1
  <1>6. Cardinality(1..k) = k
    BY <1>1, FS_Interval
  <1>7. jobs[w].status = "PROCESSING"
    BY WorkerHas DEF PersistPage, RunPc
  <1>8. pages' = [pages EXCEPT ![w] = pg] /\ jobs' = [jobs EXCEPT ![w] = CountersRow(jobs[w], pg)]
    BY DEF PersistPage, SetJob
  <1>9. slots' = [slots EXCEPT ![i] = [slots[i] EXCEPT !.next = @ + 1]]
    BY DEF PersistPage, SetSlot
  <1>10. /\ pages'[w] = pg /\ \A x \in Jobs \ {w} : pages'[x] = pages[x]
         /\ jobs'[w] = CountersRow(jobs[w], pg)
         /\ \A x \in Jobs \ {w} : jobs'[x] = jobs[x]
    <2>1. DOMAIN jobs = Jobs
      BY DEF Inv, JobsInv
    <2> HIDE DEF pg
    <2> QED
      BY <1>2, <1>8, <2>1
  <1>11. /\ slots'[i] = [slots[i] EXCEPT !.next = @ + 1]
         /\ \A m \in Instances \ {i} : slots'[m] = slots[m]
    BY <1>9 DEF Inv, SlotsInv
  <1> QED
    BY <1>1, <1>2, <1>3, <1>4, <1>5, <1>6, <1>7, <1>10, <1>11 DEF StoresNext

\* persistPage counts every stored page: no other worker has the job.
LEMMA PersistKeepsCounts ==
    ASSUME Inv, HoldersInv, CountsInv, NEW i \in Instances, NEW result \in {"ok", "failed"},
           PersistPage(i, result)
    PROVE  CountsInv'
  <1>w. PICK w \in Jobs : w = slots[i].job
    BY DEF Inv, SlotsInv, SlotOK, PersistPage
  <1> DEFINE k  == slots[i].next
             pg == [pages[w] EXCEPT ![k] = result]
  <1>1. /\ k \in 1..PageCount[w]
        /\ StoredPages(pg) = 1..k
        /\ Cardinality(StoredPages(pg)) = k
        /\ pages'[w] = pg /\ \A x \in Jobs \ {w} : pages'[x] = pages[x]
        /\ jobs[w].status = "PROCESSING"
        /\ jobs'[w] = CountersRow(jobs[w], pg)
        /\ \A x \in Jobs \ {w} : jobs'[x] = jobs[x]
        /\ slots'[i] = [slots[i] EXCEPT !.next = @ + 1]
        /\ \A m \in Instances \ {i} : slots'[m] = slots[m]
    BY <1>w, PageStored DEF StoresNext
  <1> HIDE DEF pg
  <1>2. PageCount[w] \in Nat /\ k \in Nat
    BY <1>1, PageCountAssumption
  <1>3. jobs[w].total \in {0, PageCount[w]} /\ jobs[w] \in JobRow
    BY DEF CountsInv, TotalsInv, Inv, JobsInv
  <1>4. jobs'[w].total = jobs[w].total /\ Counted(jobs'[w], pg)
    <2>1. Tally(pg).all = k /\ Tally(pg).failed = Cardinality(FailedPages(pg))
      BY <1>1 DEF Tally
    <2>2. jobs[w].total = 0 \/ Tally(pg).all <= jobs[w].total
      BY <1>1, <1>2, <1>3, <2>1
    <2> QED
      BY <1>1, <1>3, <2>1, <2>2 DEF CountersRow, JobRow, Counted
  <1>5. TotalsInv'
    BY <1>1, <1>4 DEF CountsInv, TotalsInv
  <1>6. CountersInv'
    <2>1. \A x \in Jobs : Counted(jobs'[x], pages'[x])
      BY <1>1, <1>4 DEF CountsInv, CountersInv
    <2> QED
      BY <2>1 DEF CountersInv, Counted
  <1>7. \A m \in Instances : Holds(m, w) => m = i
    BY <1>w, WorkerHas DEF PersistPage, RunPc
  <1>8. ASSUME NEW m \in Instances
        PROVE  /\ slots'[m].pc = "page" =>
                      StoredPages(pages'[slots'[m].job]) = 1..(slots'[m].next - 1)
               /\ slots'[m].pc = "finalize" => slots'[m].tally = Tally(pages'[slots'[m].job])
    <2>1. CASE m = i
      <3>1. /\ slots'[i].pc = "page" /\ slots'[i].job = w /\ slots'[i].next = k + 1
        BY <1>w, <1>1 DEF PersistPage, Inv, SlotsInv, Slot
      <3>2. (k + 1) - 1 = k
        BY <1>2
      <3> QED
        BY <1>1, <2>1, <3>1, <3>2
    <2>2. CASE m # i /\ slots[m].pc \in {"page", "finalize"}
      <3>1. slots[m].job \in Jobs /\ slots'[m] = slots[m]
        BY <1>1, <2>2 DEF Inv, SlotsInv, SlotOK
      <3>2. slots[m].job # w
        BY <1>7, <2>2 DEF Holds, Works, HoldPc, RunPc
      <3>3. pages'[slots[m].job] = pages[slots[m].job]
        BY <1>1, <3>1, <3>2
      <3> QED
        BY <3>1, <3>3 DEF CountsInv, ProgressInv
    <2> QED
      BY <1>1, <2>1, <2>2
  <1>9. ProgressInv'
    BY <1>8 DEF ProgressInv
  <1> QED
    BY <1>5, <1>6, <1>9 DEF CountsInv

\* Every step keeps the counters right as long as every job has one holder.
LEMMA StepKeepsCounts ==
    ASSUME Inv, Inv', HoldersInv, CountsInv, [Next]_vars
    PROVE  CountsInv'
  BY MostUncounted, UncountedKeeps, TotalKeepsCounts, ReadsKeepCounts, FinalizeKeepsCounts,
     PersistKeepsCounts

-----------------------------------------------------------------------------
(* Theorems *)

\* The inductive invariant about ownership: until a live instance loses its
\* heartbeat, a job has one holder and the counters are right.
OwnInv ==
    /\ budget.lapses <= MaxLapses
    /\ NoLapse => HoldersInv /\ RoundsInv /\ CountsInv

\* A step spends at most one fault of one kind.
BudgetMoves ==
    \/ UNCHANGED budget
    \/ SpendFault
    \/ budget' = [budget EXCEPT !.lapses = @ - 1]
    \/ budget' = [budget EXCEPT !.crashes = @ - 1]
    \/ budget' = [budget EXCEPT !.losses = @ - 1]

\* The budget of lapses never grows, and a lapse ends NoLapse.
LEMMA LapsesFall ==
    ASSUME Inv, [Next]_vars
    PROVE  /\ budget'.lapses = budget.lapses \/ budget'.lapses = budget.lapses - 1
           /\ budget'.lapses = budget.lapses => \A j \in Jobs : ~HeartbeatLapses(j)
  <1>0. budget \in [crashes : Nat, lapses : Nat, losses : Nat, faults : Nat]
    BY DEF Inv, RestInv
  <1>1. BudgetMoves
    <2> USE DEF BudgetMoves
    <2>1. ASSUME NEW j \in Jobs, Api(j) \/ Time(j) \/ LoseEntry(j)
          PROVE  BudgetMoves
      BY <2>1 DEF Api, Schedule, ScheduleFails, DeleteDocument, LoseEntry, Time, Heartbeat,
                  HeartbeatExpires, HeartbeatLapses, LockExpires, LockLapses, BackoffEnds
    <2>2. ASSUME NEW i \in Instances, DeliveryStep(i)
          PROVE  UNCHANGED budget
      BY <2>2 DEF DeliveryStep, FindJob, ClaimJob, RereadJob, FailExhausted, MakeWorkDir,
                  LoadDocument, CancelJob, FetchAndInspect, SetTotalPages, ReadProgress,
                  PersistPage, ReadTally, Finalize, HandleFailure, Settle
    <2>3. ASSUME NEW i \in Instances,
                 \/ \E j \in Jobs : Deliver(i, j)
                 \/ DeliveryFails(i) \/ ReconcileStep(i) \/ ReconcileFails(i) \/ Crash(i)
          PROVE  BudgetMoves
      BY <2>3 DEF Deliver, DeliveryFails, MakeWorkDirFails, RunThrows, QueryFails,
                  ReconcileStep, FindStaleProcessing, FailInterrupted, RecoverInterrupted,
                  ReenqueueRecovered, FindQueued, EnqueueQueued, ReconcileEnds,
                  ReconcileFails, Crash
    <2>4. CASE UNCHANGED vars
      BY <2>4 DEF vars
    <2> QED
      BY <2>1, <2>2, <2>3, <2>4 DEF Next
  <1>2. budget'.lapses = budget.lapses \/ budget'.lapses = budget.lapses - 1
    BY <1>0, <1>1 DEF SpendFault, BudgetMoves
  <1>3. ASSUME NEW j \in Jobs, HeartbeatLapses(j)
        PROVE  budget'.lapses # budget.lapses
    BY <1>0, <1>3 DEF HeartbeatLapses
  <1> QED
    BY <1>2, <1>3

\* The invariant holds initially.
LEMMA InitOwn == Init => OwnInv
  <1> SUFFICES ASSUME Init PROVE OwnInv
    OBVIOUS
  <1>1. budget.lapses <= MaxLapses
    BY BoundsAssumption DEF Init
  <1>2. \A i \in Instances, j \in Jobs : ~Holds(i, j)
    BY DEF Init, Holds, Works, Idle, HoldPc, RunPc
  <1>3. HoldersInv /\ RoundsInv
    BY <1>2 DEF HoldersInv, RoundsInv, Init, NotReconciling
  <1>4. TotalsInv /\ ProgressInv
    BY DEF Init, TotalsInv, ProgressInv, NewJob, Idle
  <1>5. ASSUME NEW j \in Jobs
        PROVE  Counted(jobs[j], pages[j])
    <2>1. StoredPages(pages[j]) = {} /\ FailedPages(pages[j]) = {}
      BY DEF Init, StoredPages, FailedPages
    <2>2. Cardinality({}) = 0
      BY FS_EmptySet
    <2> QED
      BY <2>1, <2>2 DEF Init, Counted, NewJob
  <1> QED
    BY <1>1, <1>3, <1>4, <1>5 DEF OwnInv, CountsInv, CountersInv

\* Every step keeps it.
LEMMA NextOwn ==
    ASSUME Inv, Inv', OwnInv, [Next]_vars
    PROVE  OwnInv'
  <1>1. budget.lapses \in Nat /\ budget'.lapses \in Nat /\ MaxLapses \in Nat
    BY BoundsAssumption DEF Inv, RestInv
  <1>2. /\ budget'.lapses = budget.lapses \/ budget'.lapses = budget.lapses - 1
        /\ budget'.lapses = budget.lapses => \A j \in Jobs : ~HeartbeatLapses(j)
    BY LapsesFall
  <1>3. budget'.lapses <= MaxLapses
    BY <1>1, <1>2 DEF OwnInv
  <1>4. ASSUME NoLapse'
        PROVE  HoldersInv' /\ RoundsInv' /\ CountsInv'
    <2>1. NoLapse /\ budget'.lapses = budget.lapses
      BY <1>1, <1>2, <1>4 DEF OwnInv, NoLapse
    <2> QED
      BY <1>2, <2>1, StepKeepsHolders, StepKeepsCounts DEF OwnInv
  <1> QED
    BY <1>3, <1>4 DEF OwnInv

\* OwnInv is an invariant: of any number of instances, reconcilers, jobs and
\* pages, under any budget of crashes, lost entries and failing calls.
THEOREM Ownership == Spec => []OwnInv
  <1>1. Inv /\ Inv' /\ OwnInv /\ [Next]_vars => OwnInv'
    BY NextOwn
  <1> QED
    BY <1>1, InitOwn, Invariance, PTL DEF Spec

\* Without lapses a job never has two workers between claim and final write,
\* whatever crashes, duplicate deliveries, leaked intervals and reconcilers do.
THEOREM OneWorkerPerJob == Spec => []SingleWorker
  <1>1. OwnInv => SingleWorker
    BY DEF OwnInv, SingleWorker, HoldersInv, Holds
  <1> QED
    BY <1>1, Ownership, PTL

\* Without lapses processed_pages and failed_pages are the numbers of stored
\* and failed pages in every state.
THEOREM CountersAlwaysMatch == Spec => []CountersMatchPages
  <1>1. OwnInv => CountersMatchPages
    BY DEF OwnInv, CountersMatchPages, CountsInv, CountersInv, Counted
  <1> QED
    BY <1>1, Ownership, PTL

-----------------------------------------------------------------------------
(* What a client sees *)

\* Only persistPage writes pages.
LEMMA PagesChange ==
    ASSUME Inv, Inv', [Next]_vars, pages' # pages
    PROVE  \E i \in Instances, result \in {"ok", "failed"} : PersistPage(i, result)
  BY NextMoves DEF Moves, Finalize

\* The step of PagesWrittenOnce.
LEMMA StepWritesOnce ==
    ASSUME Inv, Inv', OwnInv, [Next]_vars, NoLapse, NEW j \in Jobs
    PROVE  /\ \A p \in StoredPages(pages[j]) : pages'[j][p] = pages[j][p]
           /\ jobs[j].status \in TerminalStatus => pages'[j] = pages[j]
  <1>1. CASE pages' = pages
    BY <1>1
  <1>2. CASE pages' # pages
    <2>1. PICK i \in Instances, result \in {"ok", "failed"} : PersistPage(i, result)
      BY <1>2, PagesChange
    <2>w. PICK w \in Jobs : w = slots[i].job
      BY <2>1 DEF Inv, SlotsInv, SlotOK, PersistPage
    <2> DEFINE k == slots[i].next
               pg == [pages[w] EXCEPT ![k] = result]
    <2>2. /\ k \in 1..PageCount[w]
          /\ pages[w] \in [1..PageCount[w] -> PageRow]
          /\ StoredPages(pages[w]) = 1..(k - 1)
          /\ pages'[w] = pg /\ \A x \in Jobs \ {w} : pages'[x] = pages[x]
          /\ jobs[w].status = "PROCESSING"
      <3>1. HoldersInv /\ CountsInv
        BY DEF OwnInv
      <3>2. StoresNext(i, w, result)
        BY <2>1, <2>w, <3>1, PageStored
      <3> QED
        BY <3>2 DEF StoresNext
    <2>3. CASE j = w
      <3>1. k \notin 1..(k - 1) /\ jobs[w].status \notin TerminalStatus
        BY <2>2 DEF TerminalStatus
      <3>2. \A p \in 1..(k - 1) : pg[p] = pages[w][p]
        <4>1. 1..(k - 1) \subseteq 1..PageCount[w]
          BY <2>2 DEF StoredPages
        <4> QED
          BY <2>2, <3>1, <4>1
      <3> QED
        BY <2>2, <2>3, <3>1, <3>2
    <2> QED
      BY <2>2, <2>3
  <1> QED
    BY <1>1, <1>2

\* Without lapses a stored page is never written again, and a job that has
\* ended gets no further page.
THEOREM PagesAreWrittenOnce == Spec => PagesWrittenOnce
  <1>1. Inv /\ Inv' /\ OwnInv /\ [Next]_vars =>
            (NoLapse =>
                \A j \in Jobs :
                    /\ \A p \in StoredPages(pages[j]) : pages'[j][p] = pages[j][p]
                    /\ jobs[j].status \in TerminalStatus => pages'[j] = pages[j])
    BY StepWritesOnce
  <1> QED
    BY <1>1, Invariance, Ownership, PTL DEF Spec, PagesWrittenOnce

-----------------------------------------------------------------------------

\* A longer list of pages is not a smaller percentage.
LEMMA RoundingMonotone ==
    ASSUME NEW a \in Nat, NEW b \in Nat, NEW d \in Nat \ {0}, a <= b
    PROVE  a \div d \in Nat /\ b \div d \in Nat /\ a \div d <= b \div d
  BY Z3

\* The progress of toOcrJobDto grows with processed_pages while total_pages stays.
LEMMA ProgressMonotone ==
    ASSUME NEW r \in JobRow, NEW q \in JobRow, r.processed <= q.processed,
           r.total = 0 \/ r.total = q.total
    PROVE  Progress(r) <= Progress(q)
  <1>1. r.processed \in Nat /\ q.processed \in Nat /\ r.total \in Nat /\ q.total \in Nat
    BY DEF JobRow
  <1> DEFINE a == 2000 * r.processed + q.total
             b == 2000 * q.processed + q.total
             d == 2 * q.total
  <1>2. CASE q.total = 0
    <2>1. Progress(r) = 0 /\ Progress(q) = 0
      BY <1>2 DEF Progress
    <2> QED
      BY <2>1
  <1>3. CASE q.total # 0
    <2>1. a \in Nat /\ b \in Nat /\ d \in Nat \ {0} /\ a <= b
      BY <1>1, <1>3
    <2>2. /\ Progress(q) = IF b \div d <= 1000 THEN b \div d ELSE 1000
          /\ Progress(r) = IF r.total = 0 THEN 0
                           ELSE IF a \div d <= 1000 THEN a \div d ELSE 1000
      BY <1>3 DEF Progress
    <2> HIDE DEF a, b, d
    <2>3. a \div d \in Nat /\ b \div d \in Nat /\ a \div d <= b \div d
      BY <2>1, RoundingMonotone
    <2> QED
      BY <2>2, <2>3
  <1> QED
    BY <1>2, <1>3

\* No step lowers a counter or forgets a total.
LEMMA CountersGrow ==
    ASSUME Inv, Inv', HoldersInv, CountsInv, CountsInv', [Next]_vars, NEW j \in Jobs
    PROVE  /\ jobs[j].processed <= jobs'[j].processed
           /\ jobs[j].total = 0 \/ jobs'[j].total = jobs[j].total
  <1>1. jobs \in [Jobs -> JobRow] /\ jobs' \in [Jobs -> JobRow]
    BY DEF Inv, JobsInv
  <1>2. jobs[j].processed \in Nat /\ jobs'[j].processed \in Nat
    BY <1>1 DEF JobRow
  <1>3. jobs[j].processed <= jobs'[j].processed
    <2>1. /\ jobs[j].processed = Cardinality(StoredPages(pages[j]))
          /\ jobs'[j].processed = Cardinality(StoredPages(pages'[j]))
      BY DEF CountsInv, CountersInv, Counted
    <2>2. CASE pages' = pages
      BY <1>2, <2>1, <2>2
    <2>3. CASE pages' # pages
      <3>1. PICK i \in Instances, result \in {"ok", "failed"} : PersistPage(i, result)
        BY <2>3, PagesChange
      <3>w. PICK w \in Jobs : w = slots[i].job
        BY <3>1 DEF Inv, SlotsInv, SlotOK, PersistPage
      <3> DEFINE k == slots[i].next
                 pg == [pages[w] EXCEPT ![k] = result]
      <3>2. /\ k \in 1..PageCount[w]
            /\ StoredPages(pages[w]) = 1..(k - 1)
            /\ StoredPages(pg) = 1..k
            /\ pages'[w] = pg /\ \A x \in Jobs \ {w} : pages'[x] = pages[x]
        <4>1. StoresNext(i, w, result)
          BY <3>1, <3>w, PageStored
        <4> QED
          BY <4>1 DEF StoresNext
      <3>3. Cardinality(1..(k - 1)) = k - 1 /\ Cardinality(1..k) = k
        BY <3>2, FS_Interval
      <3> HIDE DEF pg
      <3>4. CASE j = w
        BY <2>1, <3>2, <3>3, <3>4
      <3>5. CASE j # w
        BY <1>2, <2>1, <3>2, <3>5
      <3> QED
        BY <3>4, <3>5
    <2> QED
      BY <2>2, <2>3
  <1>4. jobs[j].total = 0 \/ jobs'[j].total = jobs[j].total
    <2>1. jobs[j].total \in {0, PageCount[j]} /\ jobs'[j].total \in {0, PageCount[j]}
      BY DEF CountsInv, TotalsInv
    <2>2. jobs[j].total # 0 => jobs'[j].total # 0
      <3>1. CASE Uncounted
        BY <3>1 DEF Uncounted, CountsKept
      <3>2. ASSUME NEW i \in Instances, SetTotalPages(i)
            PROVE  jobs[j].total # 0 => jobs'[j].total # 0
        <4>w. PICK w \in Jobs : w = slots[i].job
          BY <3>2 DEF Inv, SlotsInv, SlotOK, SetTotalPages
        <4>1. PageCount[w] # 0
          BY PageCountAssumption
        <4>2. jobs[w].total # 0 => TotalPagesRow(jobs[w], PageCount[w]).total # 0
          BY <1>1, <4>1 DEF TotalPagesRow, JobRow
        <4> QED
          BY <1>1, <3>2, <4>w, <4>2 DEF SetTotalPages, SetJob
      <3>3. ASSUME NEW i \in Instances, ReadProgress(i) \/ ReadTally(i)
            PROVE  jobs[j].total # 0 => jobs'[j].total # 0
        BY <3>3 DEF ReadProgress, ReadTally
      <3>4. ASSUME NEW i \in Instances, NEW result \in {"ok", "failed"}, PersistPage(i, result)
            PROVE  jobs[j].total # 0 => jobs'[j].total # 0
        <4>w. PICK w \in Jobs : w = slots[i].job
          BY <3>4 DEF Inv, SlotsInv, SlotOK, PersistPage
        <4>1. \A pg : CountersRow(jobs[w], pg).total = jobs[w].total
          BY <1>1 DEF CountersRow, JobRow
        <4>2. PICK pg : SetJob(w, CountersRow(jobs[w], pg))
          BY <3>4, <4>w DEF PersistPage
        <4> QED
          BY <1>1, <4>1, <4>2 DEF SetJob
      <3>5. ASSUME NEW i \in Instances, Finalize(i)
            PROVE  jobs[j].total # 0 => jobs'[j].total # 0
        <4>w. PICK w \in Jobs : w = slots[i].job
          BY <3>5 DEF Inv, SlotsInv, SlotOK, Finalize
        <4>1. \A t, d : FinalizeRow(jobs[w], t, d).total = jobs[w].total
          BY <1>1 DEF FinalizeRow, JobRow
        <4>2. PICK t, d : SetJob(w, FinalizeRow(jobs[w], t, d))
          BY <3>5, <4>w DEF Finalize
        <4> QED
          BY <1>1, <4>1, <4>2 DEF SetJob
      <3> QED
        BY <3>1, <3>2, <3>3, <3>4, <3>5, MostUncounted
    <2> QED
      BY <2>1, <2>2
  <1> QED
    BY <1>3, <1>4

\* The step of ProgressNeverFalls.
LEMMA StepProgress ==
    ASSUME \A j \in Jobs : PageCount[j] < 2000,
           Inv, Inv', OwnInv, [Next]_vars, NoLapse, NEW j \in Jobs
    PROVE  /\ Progress(jobs'[j]) >= Progress(jobs[j])
           /\ Progress(jobs'[j]) = 1000 => StoredPages(pages'[j]) = 1..PageCount[j]
  <1>1. jobs[j] \in JobRow /\ jobs'[j] \in JobRow
    BY DEF Inv, JobsInv
  <1>2. HoldersInv /\ CountsInv /\ CountsInv'
    BY StepKeepsCounts DEF OwnInv
  <1>3. /\ jobs[j].processed <= jobs'[j].processed
        /\ jobs[j].total = 0 \/ jobs'[j].total = jobs[j].total
    BY <1>2, CountersGrow
  <1>4. Progress(jobs[j]) <= Progress(jobs'[j])
    BY <1>1, <1>3, ProgressMonotone
  <1>5. ASSUME Progress(jobs'[j]) = 1000
        PROVE  StoredPages(pages'[j]) = 1..PageCount[j]
    <2>1. jobs'[j].total # 0
      BY <1>5 DEF Progress
    <2>2. jobs'[j].total = PageCount[j] /\ PageCount[j] \in Nat /\ PageCount[j] < 2000
      BY <1>2, <2>1, PageCountAssumption DEF CountsInv, TotalsInv
    <2>3. ~(jobs'[j].processed < PageCount[j])
      BY <1>1, <1>5, <2>2, HundredPercentMeansAll
    <2>4. PICK n \in 0..PageCount[j] : StoredPages(pages'[j]) = 1..n
      BY DEF Inv, PagesInv, PagesContiguous
    <2>5. n \in Nat /\ Cardinality(1..n) = n
      BY <2>2, FS_Interval
    <2>6. jobs'[j].processed = n
      BY <1>2, <2>4, <2>5 DEF CountsInv, CountersInv, Counted
    <2> QED
      BY <2>2, <2>3, <2>4, <2>5, <2>6
  <1>6. \A r \in JobRow, q \in JobRow : Progress(r) <= Progress(q) => Progress(q) >= Progress(r)
    OBVIOUS
  <1> QED
    BY <1>1, <1>4, <1>5, <1>6

\* Without lapses the progress a client polls never falls, and 100 % means that
\* every page is stored, for documents of fewer than 2000 pages.
THEOREM ProgressIsMonotone ==
    ASSUME \A j \in Jobs : PageCount[j] < 2000
    PROVE  Spec => ProgressNeverFalls
  <1>1. Inv /\ Inv' /\ OwnInv /\ [Next]_vars =>
            (NoLapse =>
                \A j \in Jobs :
                    /\ Progress(jobs'[j]) >= Progress(jobs[j])
                    /\ Progress(jobs'[j]) = 1000 => StoredPages(pages'[j]) = 1..PageCount[j])
    BY StepProgress
  <1> QED
    BY <1>1, Invariance, Ownership, PTL DEF Spec, ProgressNeverFalls

=============================================================================
