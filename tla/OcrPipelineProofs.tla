-------------------------- MODULE OcrPipelineProofs --------------------------
(***************************************************************************)
(* Type correctness of OcrPipeline, the safety properties of its results   *)
(* that hold whatever happens, lapses included, and the refinement of      *)
(* OcrLifecycle, for every number of instances, jobs, pages and faults.    *)
(* They follow from one inductive invariant, Inv.  Its heart is SlotOK: a  *)
(* worker about to persist page n knows that pages 1..n-1 are stored, and  *)
(* a worker about to finalize has counted every page.  Neither fact needs  *)
(* the worker to be the only one, since no step ever removes a page.  The  *)
(* refinement and the finality of terminal rows rest on what a single      *)
(* statement may do to a row (RowMoves).  The attempt budget rests on      *)
(* AttemptsInv: counts read earlier are never more than the row's.         *)
(***************************************************************************)
EXTENDS OcrPipeline, FiniteSetTheorems, TLAPS

\* Every UPDATE of OcrJobService but finalize and persistPage's yields a row
\* of the schema's type.
LEMMA RowUpdates ==
    ASSUME NEW r \in JobRow
    PROVE  /\ ClaimRow(r) \in JobRow
           /\ HeartbeatRow(r) \in JobRow
           /\ RecoverRow(r) \in JobRow
           /\ [r EXCEPT !.fresh = FALSE] \in JobRow
           /\ \A code \in ErrorCode : /\ FailRow(r, code) \in JobRow
                                      /\ RequeueRow(r, code) \in JobRow
                                      /\ CancelRow(r, code) \in JobRow
           /\ \A n \in Nat : TotalPagesRow(r, n) \in JobRow
  <1> USE DEF JobRow, ActiveStatus, TerminalStatus
  <1>1. ClaimRow(r) \in JobRow
    <2>1. r.attempts + 1 \in Nat
      OBVIOUS
    <2>2. QED
      BY <2>1 DEF ClaimRow
  <1>2. HeartbeatRow(r) \in JobRow /\ RecoverRow(r) \in JobRow
    BY DEF HeartbeatRow, RecoverRow
  <1>3. [r EXCEPT !.fresh = FALSE] \in JobRow
    OBVIOUS
  <1>4. ASSUME NEW code \in ErrorCode
        PROVE  /\ FailRow(r, code) \in JobRow
               /\ RequeueRow(r, code) \in JobRow
               /\ CancelRow(r, code) \in JobRow
    BY <1>4 DEF FailRow, RequeueRow, CancelRow
  <1>5. ASSUME NEW n \in Nat
        PROVE  TotalPagesRow(r, n) \in JobRow
    BY <1>5 DEF TotalPagesRow
  <1>6. QED
    BY <1>1, <1>2, <1>3, <1>4, <1>5

\* finalize derives one of three statuses, whatever it read.
LEMMA VerdictType ==
    ASSUME NEW t
    PROVE  Verdict(t) \in {"COMPLETED", "PARTIAL", "FAILED"}
  BY DEF Verdict

\* The UPDATE of finalize yields a well-typed row.
LEMMA FinalizeType ==
    ASSUME NEW r \in JobRow, NEW t \in [all : Nat, failed : Nat],
           NEW d \in ErrorCode \union {"none"}
    PROVE  FinalizeRow(r, t, d) \in JobRow
  BY VerdictType DEF JobRow, FinalizeRow, TerminalStatus

\* What the queue does to an entry yields a well-typed entry.
LEMMA EntryUpdates ==
    ASSUME NEW e \in Entry
    PROVE  /\ NoEntry \in Entry
           /\ AddEntry(e) \in Entry
           /\ StallEntry(e) \in Entry
           /\ PromoteEntry(e) \in Entry
           /\ \A i \in Instances : TakeEntry(e, i) \in Entry
           /\ \A i \in Instances, o \in Outcome : SettleEntry(e, i, o) \in Entry
  <1>1. NoEntry \in Entry
    BY DEF NoEntry, Entry
  <1>2. AddEntry(e) \in Entry /\ PromoteEntry(e) \in Entry
    BY <1>1 DEF AddEntry, PromoteEntry, NoEntry, Entry
  <1>3. StallEntry(e) \in Entry
    <2>1. e.stalls + 1 \in Nat
      BY DEF Entry
    <2>2. QED
      BY <1>1, <2>1 DEF StallEntry, Entry
  <1>4. ASSUME NEW i \in Instances
        PROVE  TakeEntry(e, i) \in Entry
    BY DEF TakeEntry, Entry
  <1>5. ASSUME NEW i \in Instances, NEW o \in Outcome
        PROVE  SettleEntry(e, i, o) \in Entry
    <2>1. e.made + 1 \in Nat
      BY DEF Entry
    <2>2. [e EXCEPT !.state = "delayed", !.made = @ + 1, !.owner = NoInstance] \in Entry
      BY <2>1 DEF Entry
    <2>3. QED
      BY <1>1, <2>2 DEF SettleEntry
  <1>6. QED
    BY <1>1, <1>2, <1>3, <1>4, <1>5

\* The counts finalize and persistPage take over the pages of a job are
\* naturals, and equal the page count once every page is stored.
LEMMA TallyType ==
    ASSUME NEW n \in Nat, NEW pg \in [1..n -> PageRow]
    PROVE  /\ Tally(pg) \in [all : Nat, failed : Nat]
           /\ StoredPages(pg) = 1..n => Tally(pg).all = n
  <1>1. /\ IsFiniteSet(1..n)
        /\ Cardinality(1..n) = n
    BY FS_Interval
  <1>2. StoredPages(pg) \in SUBSET (1..n) /\ FailedPages(pg) \in SUBSET (1..n)
    BY DEF StoredPages, FailedPages
  <1>3. IsFiniteSet(StoredPages(pg)) /\ IsFiniteSet(FailedPages(pg))
    BY <1>1, <1>2, FS_Subset
  <1>4. Cardinality(StoredPages(pg)) \in Nat /\ Cardinality(FailedPages(pg)) \in Nat
    BY <1>3, FS_CardinalityType
  <1>5. QED
    BY <1>1, <1>4 DEF Tally

-----------------------------------------------------------------------------
(* The inductive invariant *)

\* A job that reports a result has all its pages.
ResultOK(r, pg, n) ==
    r.status \in {"COMPLETED", "PARTIAL"} => StoredPages(pg) = 1..n /\ r.processed = n

\* A delivery in the page loop has every page before `next` stored, one about
\* to finalize has counted all pages.
SlotOK(s, pgs) ==
    /\ s.pc # "idle" => s.job \in Jobs
    /\ s.pc = "page" => /\ s.next \in 1..(PageCount[s.job] + 1)
                        /\ 1..(s.next - 1) \subseteq StoredPages(pgs[s.job])
    /\ s.pc = "finalize" => /\ StoredPages(pgs[s.job]) = 1..PageCount[s.job]
                            /\ s.tally.all = PageCount[s.job]

JobsInv ==
    /\ jobs \in [Jobs -> JobRow]
    /\ \A j \in Jobs : ResultOK(jobs[j], pages[j], PageCount[j])

PagesInv ==
    /\ DOMAIN pages = Jobs
    /\ \A j \in Jobs : pages[j] \in [1..PageCount[j] -> PageRow]
    /\ PagesContiguous

SlotsInv ==
    /\ slots \in [Instances -> Slot]
    /\ \A i \in Instances : SlotOK(slots[i], pages)

RecsInv ==
    /\ recs \in [Instances -> Rec]
    /\ \A i \in Instances : recs[i].pc = "reenqueue" => recs[i].cur \in Jobs

RestInv ==
    /\ docs \in [Jobs -> [ready : BOOLEAN, pageCount : Nat]]
    /\ entries \in [Jobs -> Entry]
    /\ unscheduled \subseteq Jobs
    /\ leaked \in [Instances -> SUBSET Jobs]
    /\ budget \in [crashes : Nat, lapses : Nat, losses : Nat, faults : Nat]

Inv == JobsInv /\ PagesInv /\ SlotsInv /\ RecsInv /\ RestInv

\* The inductive invariant implies the properties it was built for.
LEMMA InvImplies == Inv => TypeOK /\ PagesContiguous /\ ResultsComplete
  BY DEF Inv, JobsInv, PagesInv, SlotsInv, RecsInv, RestInv, TypeOK, ResultsComplete,
         ResultOK

\* Assigning a good slot keeps SlotsInv when the pages do not change.
LEMMA SlotAssigned ==
    ASSUME Inv, NEW i \in Instances, NEW s \in Slot, SlotOK(s, pages),
           SetSlot(i, s), pages' = pages
    PROVE  SlotsInv'
  BY DEF Inv, SlotsInv, SetSlot

\* Assigning a good row keeps JobsInv when the pages do not change.
LEMMA JobAssigned ==
    ASSUME Inv, NEW j \in Jobs, NEW r \in JobRow, ResultOK(r, pages[j], PageCount[j]),
           SetJob(j, r), pages' = pages
    PROVE  JobsInv'
  BY DEF Inv, JobsInv, SetJob

\* Assigning a well-typed queue entry keeps RestInv.
LEMMA EntryAssigned ==
    ASSUME RestInv, NEW j \in Jobs, NEW e \in Entry, SetEntry(j, e),
           UNCHANGED <<docs, leaked>>, unscheduled' \subseteq unscheduled,
           budget' \in [crashes : Nat, lapses : Nat, losses : Nat, faults : Nat]
    PROVE  RestInv'
  BY DEF RestInv, SetEntry

\* Assigning a good reconciliation state keeps RecsInv.
LEMMA RecAssigned ==
    ASSUME RecsInv, NEW i \in Instances, NEW r \in Rec,
           r.pc = "reenqueue" => r.cur \in Jobs, SetRec(i, r)
    PROVE  RecsInv'
  BY DEF RecsInv, SetRec

\* An instance without a delivery is in a good state.
LEMMA IdleOK == Idle \in Slot /\ SlotOK(Idle, pages)
  BY DEF Idle, Slot, SlotOK, SlotPc, HoldPc, RunPc, Outcome

\* So is one whose handler has returned or thrown.
LEMMA EndedOK ==
    ASSUME Inv, NEW i \in Instances, slots[i].pc # "idle", NEW o \in Outcome
    PROVE  Ended(i, o) \in Slot /\ SlotOK(Ended(i, o), pages)
  BY DEF Inv, SlotsInv, Ended, Idle, Slot, SlotOK, SlotPc, HoldPc, RunPc

\* Spending a fault keeps the budget well-typed.
LEMMA BudgetSpent ==
    ASSUME RestInv, SpendFault
    PROVE  budget' \in [crashes : Nat, lapses : Nat, losses : Nat, faults : Nat]
  <1>1. budget.faults - 1 \in Nat
    BY DEF RestInv, SpendFault
  <1>2. QED
    BY <1>1 DEF RestInv, SpendFault

\* A reconciliation that is over is in a good state.
LEMMA NotReconcilingOK ==
    NotReconciling \in Rec /\ (NotReconciling.pc = "reenqueue" => NotReconciling.cur \in Jobs)
  BY DEF NotReconciling, Rec

\* The invariant holds initially.
LEMMA InitInv == Init => Inv
  <1> SUFFICES ASSUME Init PROVE Inv
    OBVIOUS
  <1>1. NewJob \in JobRow /\ NewJob.status = "QUEUED"
    BY DEF NewJob, JobRow, ActiveStatus
  <1>2. JobsInv
    BY <1>1 DEF Init, JobsInv, ResultOK
  <1>3. PagesInv
    <2>1. ASSUME NEW j \in Jobs
          PROVE  /\ pages[j] \in [1..PageCount[j] -> PageRow]
                 /\ \E n \in 0..PageCount[j] : StoredPages(pages[j]) = 1..n
      <3>1. StoredPages(pages[j]) = 1..0 /\ 0 \in 0..PageCount[j]
        BY PageCountAssumption DEF Init, StoredPages
      <3>2. QED
        BY <3>1 DEF Init, PageRow
    <2>2. QED
      BY <2>1 DEF Init, PagesInv, PagesContiguous
  <1>4. SlotsInv
    BY IdleOK DEF Init, SlotsInv
  <1>5. RecsInv
    BY NotReconcilingOK DEF Init, RecsInv
  <1>6. RestInv
    <2>1. NoEntry \in Entry
      BY DEF NoEntry, Entry
    <2>2. QED
      BY <2>1, BoundsAssumption DEF Init, RestInv
  <1>7. QED
    BY <1>2, <1>3, <1>4, <1>5, <1>6 DEF Inv

-----------------------------------------------------------------------------
(* Steps that change neither the rows nor the pages *)

\* A step that writes neither job rows nor pages keeps the invariant if it
\* keeps the parts about slots, reconciliations, queue and documents.
LEMMA QuietStep ==
    ASSUME Inv, UNCHANGED <<jobs, pages>>, SlotsInv', RecsInv', RestInv'
    PROVE  Inv'
  BY DEF Inv, JobsInv, PagesInv, PagesContiguous

\* Scheduling a job (or failing to) and deleting a document keep it.
LEMMA ApiInv ==
    ASSUME Inv, NEW j \in Jobs, Api(j)
    PROVE  Inv'
  <1>1. UNCHANGED <<jobs, pages, slots, recs>>
    BY DEF Api, Schedule, ScheduleFails, DeleteDocument
  <1>2. RestInv'
    <2>1. CASE Schedule(j)
      BY <2>1, EntryAssigned, EntryUpdates DEF Inv, RestInv, Schedule
    <2>2. CASE ScheduleFails(j)
      BY <2>2, BudgetSpent DEF Inv, RestInv, ScheduleFails
    <2>3. CASE DeleteDocument(j)
      BY <2>3 DEF Inv, RestInv, DeleteDocument
    <2>4. QED
      BY <2>1, <2>2, <2>3 DEF Api
  <1>3. SlotsInv' /\ RecsInv'
    BY <1>1 DEF Inv, SlotsInv, RecsInv
  <1>4. QED
    BY <1>1, <1>2, <1>3, QuietStep

\* So does the start of a delivery.
LEMMA DeliverInv ==
    ASSUME Inv, NEW i \in Instances, NEW j \in Jobs, Deliver(i, j)
    PROVE  Inv'
  <1> DEFINE s == [Idle EXCEPT !.pc = "find", !.job = j]
  <1>1. s \in Slot /\ SlotOK(s, pages)
    BY DEF Idle, Slot, SlotOK, SlotPc, HoldPc, RunPc, Outcome
  <1>2. SlotsInv'
    BY <1>1, SlotAssigned DEF Deliver
  <1>3. TakeEntry(entries[j], i) \in Entry
    BY EntryUpdates DEF Inv, RestInv
  <1>4. RestInv'
    BY <1>3, EntryAssigned DEF Inv, Deliver, RestInv
  <1>5. QED
    BY <1>2, <1>4, QuietStep DEF Inv, RecsInv, Deliver

\* A delivery that only moves on, without touching `next` or the tally.
LEMMA SlotMoves ==
    ASSUME Inv, NEW i \in Instances, slots[i].pc # "idle",
           NEW p \in SlotPc \ {"page", "finalize"}
    PROVE  /\ [slots[i] EXCEPT !.pc = p] \in Slot
           /\ SlotOK([slots[i] EXCEPT !.pc = p], pages)
  BY DEF Inv, SlotsInv, Slot, SlotOK

\* So does the first findById of process.
LEMMA FindJobInv ==
    ASSUME Inv, NEW i \in Instances, FindJob(i)
    PROVE  Inv'
  <1>1. SlotsInv'
    BY SlotMoves, EndedOK, SlotAssigned DEF FindJob, SlotPc, Outcome
  <1>2. QED
    BY <1>1, QuietStep DEF Inv, RecsInv, RestInv, FindJob

\* So does the second findById and the budget check that follows it.
LEMMA RereadJobInv ==
    ASSUME Inv, NEW i \in Instances, RereadJob(i)
    PROVE  Inv'
  <1> DEFINE att == jobs[slots[i].job].attempts
             s == [slots[i] EXCEPT
                      !.pc = IF att > MaxAttempts THEN "exhausted" ELSE "mkdtemp",
                      !.att = att]
  <1>1. slots[i] \in Slot /\ slots[i].job \in Jobs
    BY DEF Inv, SlotsInv, SlotOK, RereadJob
  <1>2. att \in Nat
    BY <1>1 DEF Inv, JobsInv, JobRow
  <1>3. s \in Slot /\ SlotOK(s, pages)
    BY <1>1, <1>2 DEF Slot, SlotOK, SlotPc, HoldPc, RunPc
  <1>4. SlotsInv'
    BY <1>3, SlotAssigned DEF RereadJob
  <1>5. QED
    BY <1>4, QuietStep DEF Inv, RecsInv, RestInv, RereadJob

\* So do the steps of process and run that only move on.
LEMMA MovesInv ==
    ASSUME Inv, NEW i \in Instances,
           MakeWorkDir(i) \/ LoadDocument(i) \/ FetchAndInspect(i)
    PROVE  Inv'
  <1>1. SlotsInv'
    BY SlotMoves, SlotAssigned
       DEF MakeWorkDir, LoadDocument, FetchAndInspect, SlotPc, HoldPc, RunPc
  <1>2. QED
    BY <1>1, QuietStep
       DEF Inv, RecsInv, RestInv, MakeWorkDir, LoadDocument, FetchAndInspect

\* So does a throwing mkdtemp.
LEMMA MakeWorkDirFailsInv ==
    ASSUME Inv, NEW i \in Instances, MakeWorkDirFails(i)
    PROVE  Inv'
  <1>1. SlotsInv'
    BY EndedOK, SlotAssigned DEF MakeWorkDirFails, Outcome
  <1>2. slots[i].job \in Jobs
    BY DEF Inv, SlotsInv, SlotOK, MakeWorkDirFails
  <1>3. RestInv'
    BY <1>2 DEF Inv, RestInv, MakeWorkDirFails
  <1>4. QED
    BY <1>1, <1>3, QuietStep DEF Inv, RecsInv, MakeWorkDirFails

\* persistedProgress returns a resume point with every earlier page stored:
\* the stored pages are an interval, so its maximum bounds them all.
LEMMA ReadProgressInv ==
    ASSUME Inv, NEW i \in Instances, ReadProgress(i)
    PROVE  Inv'
  <1> DEFINE j == slots[i].job
             s == [slots[i] EXCEPT !.pc = "page", !.next = LastPage(pages[j]) + 1]
  <1>1. slots[i] \in Slot /\ j \in Jobs
    BY DEF Inv, SlotsInv, SlotOK, ReadProgress
  <1>2. PageCount[j] \in Nat
    BY <1>1, PageCountAssumption
  <1>3. PICK n \in 0..PageCount[j] : StoredPages(pages[j]) = 1..n
    BY <1>1 DEF Inv, PagesInv, PagesContiguous
  <1>4. LastPage(pages[j]) = n
    <2>1. CASE n = 0
      BY <1>3, <2>1 DEF LastPage
    <2>2. CASE n # 0
      <3>1. n \in 1..n /\ \A q \in 1..n : q <= n
        BY <1>2, <2>2
      <3>2. \A p \in 1..n : (\A q \in 1..n : q <= p) => p = n
        BY <1>2, <3>1
      <3>3. QED
        BY <1>3, <3>1, <3>2 DEF LastPage
    <2>3. QED
      BY <2>1, <2>2
  <1>5. s \in Slot /\ SlotOK(s, pages)
    <2>1. n + 1 \in 1..(PageCount[j] + 1) /\ n + 1 \in Nat /\ (n + 1) - 1 = n
      BY <1>2
    <2>2. s.pc = "page" /\ s.next = n + 1 /\ s.job = j /\ s \in Slot
      BY <1>1, <1>4, <2>1 DEF Slot, SlotPc, HoldPc, RunPc
    <2>3. QED
      BY <1>1, <1>3, <2>1, <2>2 DEF SlotOK
  <1>6. SlotsInv'
    BY <1>5, SlotAssigned DEF ReadProgress
  <1>7. QED
    BY <1>6, QuietStep DEF Inv, RecsInv, RestInv, ReadProgress

\* When the page loop is over every page is stored, so finalize counts all
\* of them.
LEMMA ReadTallyInv ==
    ASSUME Inv, NEW i \in Instances, ReadTally(i)
    PROVE  Inv'
  <1> DEFINE j == slots[i].job
             s == [slots[i] EXCEPT !.pc = "finalize", !.tally = Tally(pages[j])]
  <1>1. slots[i] \in Slot /\ j \in Jobs
    BY DEF Inv, SlotsInv, SlotOK, ReadTally
  <1>2. PageCount[j] \in Nat
    BY <1>1, PageCountAssumption
  <1>3. StoredPages(pages[j]) = 1..PageCount[j]
    <2>1. slots[i].next - 1 = PageCount[j] /\ 1..(slots[i].next - 1) \subseteq StoredPages(pages[j])
      BY <1>2 DEF Inv, SlotsInv, SlotOK, ReadTally
    <2>2. StoredPages(pages[j]) \subseteq 1..PageCount[j]
      BY <1>1 DEF Inv, PagesInv, StoredPages
    <2>3. QED
      BY <1>2, <2>1, <2>2
  <1>4. /\ Tally(pages[j]) \in [all : Nat, failed : Nat]
        /\ Tally(pages[j]).all = PageCount[j]
    BY <1>1, <1>2, <1>3, TallyType DEF Inv, PagesInv
  <1>5. s \in Slot /\ SlotOK(s, pages)
    BY <1>1, <1>3, <1>4 DEF Slot, SlotOK, SlotPc, HoldPc, RunPc
  <1>6. SlotsInv'
    BY <1>5, SlotAssigned DEF ReadTally
  <1>7. QED
    BY <1>6, QuietStep DEF Inv, RecsInv, RestInv, ReadTally

\* An exception in run keeps the invariant.
LEMMA RunThrowsInv ==
    ASSUME Inv, NEW i \in Instances, NEW err \in RunError, RunThrows(i, err)
    PROVE  Inv'
  <1> DEFINE s == [slots[i] EXCEPT !.pc = "handle", !.err = err, !.next = 0,
                                   !.tally = Idle.tally]
  <1>1. slots[i] \in Slot /\ slots[i].job \in Jobs
    BY DEF Inv, SlotsInv, SlotOK, RunThrows, RunPc
  <1>2. s \in Slot /\ SlotOK(s, pages)
    BY <1>1 DEF Slot, SlotOK, SlotPc, HoldPc, RunPc, Idle
  <1>3. SlotsInv'
    BY <1>2, SlotAssigned DEF RunThrows
  <1>4. QED
    BY <1>3, QuietStep DEF Inv, RecsInv, RestInv, RunThrows

\* So does a failing query outside run.
LEMMA QueryFailsInv ==
    ASSUME Inv, NEW i \in Instances, QueryFails(i)
    PROVE  Inv'
  <1>1. SlotsInv'
    BY EndedOK, SlotAssigned DEF QueryFails, Outcome
  <1>2. RestInv'
    BY BudgetSpent DEF Inv, RestInv, QueryFails
  <1>3. QED
    BY <1>1, <1>2, QuietStep DEF Inv, RecsInv, QueryFails

\* So does BullMQ's record of the end of a delivery.
LEMMA SettleInv ==
    ASSUME Inv, NEW i \in Instances, Settle(i)
    PROVE  Inv'
  <1>1. SlotsInv'
    BY IdleOK, SlotAssigned DEF Settle
  <1>2. slots[i].job \in Jobs /\ slots[i].outcome \in Outcome
    BY DEF Inv, SlotsInv, SlotOK, Slot, Settle
  <1>3. SettleEntry(entries[slots[i].job], i, slots[i].outcome) \in Entry
    BY <1>2, EntryUpdates DEF Inv, RestInv
  <1>4. RestInv'
    BY <1>2, <1>3, EntryAssigned DEF Inv, RestInv, Settle
  <1>5. QED
    BY <1>1, <1>4, QuietStep DEF Inv, RecsInv, Settle

-----------------------------------------------------------------------------
(* Steps that change a row *)

\* No statement other than finalize turns a row into a result.
LEMMA RowUpdatesKeepResult ==
    ASSUME NEW r \in JobRow, NEW pg, NEW n, ResultOK(r, pg, n)
    PROVE  /\ ResultOK(ClaimRow(r), pg, n)
           /\ ResultOK(HeartbeatRow(r), pg, n)
           /\ ResultOK(RecoverRow(r), pg, n)
           /\ r.status = "PROCESSING" => ResultOK([r EXCEPT !.fresh = FALSE], pg, n)
           /\ \A code \in ErrorCode : /\ ResultOK(FailRow(r, code), pg, n)
                                      /\ ResultOK(RequeueRow(r, code), pg, n)
                                      /\ ResultOK(CancelRow(r, code), pg, n)
           /\ \A m \in Nat : ResultOK(TotalPagesRow(r, m), pg, n)
  <1> USE DEF ResultOK, JobRow
  <1>1. ResultOK(ClaimRow(r), pg, n)
    BY DEF ClaimRow
  <1>2. /\ ResultOK(HeartbeatRow(r), pg, n)
        /\ ResultOK(RecoverRow(r), pg, n)
        /\ r.status = "PROCESSING" => ResultOK([r EXCEPT !.fresh = FALSE], pg, n)
    BY DEF HeartbeatRow, RecoverRow
  <1>3. ASSUME NEW code \in ErrorCode
        PROVE  /\ ResultOK(FailRow(r, code), pg, n)
               /\ ResultOK(RequeueRow(r, code), pg, n)
               /\ ResultOK(CancelRow(r, code), pg, n)
    BY DEF FailRow, RequeueRow, CancelRow
  <1>4. ASSUME NEW m \in Nat
        PROVE  ResultOK(TotalPagesRow(r, m), pg, n)
    BY DEF TotalPagesRow
  <1>5. QED
    BY <1>1, <1>2, <1>3, <1>4

\* A step that writes rows but no pages keeps the invariant if it keeps every
\* part but the one about pages.
LEMMA RowStep ==
    ASSUME Inv, UNCHANGED pages, JobsInv', SlotsInv', RecsInv', RestInv'
    PROVE  Inv'
  BY DEF Inv, PagesInv, PagesContiguous

\* Every error maps to an error code.
LEMMA CodeType == \A err : Code(err) \in ErrorCode
  BY DEF Code, ErrorCode

\* A claim, successful or refused, keeps the invariant.
LEMMA ClaimJobInv ==
    ASSUME Inv, NEW i \in Instances, ClaimJob(i)
    PROVE  Inv'
  <1> DEFINE j == slots[i].job
  <1>1. j \in Jobs
    BY DEF Inv, SlotsInv, SlotOK, ClaimJob
  <1>2. ClaimRow(jobs[j]) \in JobRow /\ ResultOK(ClaimRow(jobs[j]), pages[j], PageCount[j])
    BY <1>1, RowUpdates, RowUpdatesKeepResult DEF Inv, JobsInv
  <1>3. JobsInv'
    BY <1>1, <1>2, JobAssigned DEF ClaimJob
  <1>4. SlotsInv'
    BY SlotMoves, EndedOK, SlotAssigned DEF ClaimJob, SlotPc, HoldPc, Outcome
  <1>5. QED
    BY <1>3, <1>4, RowStep DEF Inv, RecsInv, RestInv, ClaimJob

\* So do the steps of process and run that fail, requeue or cancel a job.
LEMMA GivesUpInv ==
    ASSUME Inv, NEW i \in Instances, FailExhausted(i) \/ CancelJob(i) \/ HandleFailure(i)
    PROVE  Inv'
  <1> DEFINE j == slots[i].job
  <1>1. j \in Jobs
    BY DEF Inv, SlotsInv, SlotOK, FailExhausted, CancelJob, HandleFailure
  <1>2. \A code \in ErrorCode :
            /\ FailRow(jobs[j], code) \in JobRow
            /\ RequeueRow(jobs[j], code) \in JobRow
            /\ CancelRow(jobs[j], code) \in JobRow
            /\ ResultOK(FailRow(jobs[j], code), pages[j], PageCount[j])
            /\ ResultOK(RequeueRow(jobs[j], code), pages[j], PageCount[j])
            /\ ResultOK(CancelRow(jobs[j], code), pages[j], PageCount[j])
    BY <1>1, RowUpdates, RowUpdatesKeepResult DEF Inv, JobsInv
  <1>3. "permanent" \in ErrorCode /\ "retryable" \in ErrorCode
    BY DEF ErrorCode
  <1>4. UNCHANGED pages
    BY DEF FailExhausted, CancelJob, HandleFailure
  <1>5. JobsInv'
    BY <1>1, <1>2, <1>3, <1>4, CodeType, JobAssigned DEF FailExhausted, CancelJob, HandleFailure
  <1>6. SlotsInv'
    BY <1>4, EndedOK, SlotAssigned DEF FailExhausted, CancelJob, HandleFailure, Outcome
  <1>7. QED
    BY <1>4, <1>5, <1>6, RowStep
       DEF Inv, RecsInv, RestInv, FailExhausted, CancelJob, HandleFailure

\* So does setTotalPages.
LEMMA SetTotalPagesInv ==
    ASSUME Inv, NEW i \in Instances, SetTotalPages(i)
    PROVE  Inv'
  <1> DEFINE j == slots[i].job
  <1>1. j \in Jobs
    BY DEF Inv, SlotsInv, SlotOK, SetTotalPages
  <1>2. PageCount[j] \in Nat
    BY <1>1, PageCountAssumption
  <1>3. JobsInv'
    BY <1>1, <1>2, RowUpdates, RowUpdatesKeepResult, JobAssigned
       DEF Inv, JobsInv, SetTotalPages
  <1>4. SlotsInv'
    BY SlotMoves, SlotAssigned DEF SetTotalPages, SlotPc, HoldPc, RunPc
  <1>5. RestInv'
    BY <1>1, <1>2 DEF Inv, RestInv, SetTotalPages
  <1>6. QED
    BY <1>3, <1>4, <1>5, RowStep DEF Inv, RecsInv, SetTotalPages

\* finalize concludes a job only with the tally of all its pages, even when
\* the worker lost the job to another one in the meantime.
LEMMA FinalizeInv ==
    ASSUME Inv, NEW i \in Instances, Finalize(i)
    PROVE  Inv'
  <1> DEFINE j == slots[i].job
             t == slots[i].tally
  <1>1. /\ j \in Jobs
        /\ t \in [all : Nat, failed : Nat]
        /\ t.all = PageCount[j]
        /\ StoredPages(pages[j]) = 1..PageCount[j]
    BY DEF Inv, SlotsInv, SlotOK, Slot, Finalize
  <1>2. PICK d \in DominantErrors(t) : SetJob(j, FinalizeRow(jobs[j], t, d))
    BY DEF Finalize
  <1>3. d \in ErrorCode \union {"none"}
    BY DEF DominantErrors
  <1>4. jobs[j] \in JobRow /\ ResultOK(jobs[j], pages[j], PageCount[j])
    BY <1>1 DEF Inv, JobsInv
  <1>5. FinalizeRow(jobs[j], t, d) \in JobRow
    BY <1>1, <1>3, <1>4, FinalizeType
  <1>6. ResultOK(FinalizeRow(jobs[j], t, d), pages[j], PageCount[j])
    BY <1>1, <1>4 DEF ResultOK, FinalizeRow, JobRow
  <1>7. JobsInv'
    BY <1>1, <1>2, <1>5, <1>6, JobAssigned DEF Finalize
  <1>8. SlotsInv'
    BY EndedOK, SlotAssigned DEF Finalize, Outcome
  <1>9. QED
    BY <1>7, <1>8, RowStep DEF Inv, RecsInv, RestInv, Finalize

\* The counter UPDATE of persistPage yields a well-typed row.
LEMMA CountersType ==
    ASSUME NEW n \in Nat, NEW pg \in [1..n -> PageRow], NEW r \in JobRow
    PROVE  CountersRow(r, pg) \in JobRow
  <1>1. Tally(pg) \in [all : Nat, failed : Nat]
    BY TallyType
  <1>2. QED
    BY <1>1 DEF CountersRow, JobRow

\* Adding to 1..m one of its elements or m + 1 yields an interval again.
LEMMA IntervalAdd ==
    ASSUME NEW m \in Nat, NEW k \in Nat, 1 <= k
    PROVE  /\ k <= m => (1..m) \union {k} = 1..m
           /\ k = m + 1 => (1..m) \union {k} = 1..k
  OBVIOUS

\* Persisting the page after a stored prefix keeps every prefix stored and the
\* set of stored pages an interval; the worker that does it need not be the
\* only one.
LEMMA PersistPageInv ==
    ASSUME Inv, NEW i \in Instances, NEW result \in {"ok", "failed"}, PersistPage(i, result)
    PROVE  Inv'
  <1> DEFINE j  == slots[i].job
             k  == slots[i].next
             n  == PageCount[j]
             pg == [pages[j] EXCEPT ![k] = result]
             s  == [slots[i] EXCEPT !.next = @ + 1]
  <1>1. /\ slots[i] \in Slot
        /\ j \in Jobs
        /\ k \in 1..(n + 1)
        /\ 1..(k - 1) \subseteq StoredPages(pages[j])
    BY DEF Inv, SlotsInv, SlotOK, PersistPage
  <1>2. n \in Nat
    BY <1>1, PageCountAssumption
  <1>3. k \in 1..n /\ k \in Nat
    BY <1>1, <1>2 DEF PersistPage
  <1>4. pages[j] \in [1..n -> PageRow]
    BY <1>1 DEF Inv, PagesInv
  <1>5. /\ pg \in [1..n -> PageRow]
        /\ StoredPages(pg) = StoredPages(pages[j]) \union {k}
    BY <1>3, <1>4 DEF StoredPages, PageRow
  <1>6. /\ DOMAIN pages' = Jobs
        /\ pages'[j] = pg
        /\ \A x \in Jobs \ {j} : pages'[x] = pages[x]
    BY <1>1 DEF Inv, PagesInv, PersistPage
  <1>7. PICK m \in 0..n : StoredPages(pages[j]) = 1..m
    BY <1>1 DEF Inv, PagesInv, PagesContiguous
  <1>8. PagesInv'
    <2>1. \E q \in 0..n : StoredPages(pg) = 1..q
      <3>1. CASE k <= m
        <4>1. StoredPages(pg) = 1..m
          <5>1. m \in Nat /\ 1 <= k
            BY <1>2, <1>3, <1>7
          <5>2. (1..m) \union {k} = 1..m
            BY <1>3, <3>1, <5>1, IntervalAdd
          <5>3. QED
            BY <1>5, <1>7, <5>2
        <4>2. QED
          BY <1>7, <4>1
      <3>2. CASE k > m
        <4>1. k = m + 1
          <5>1. SUFFICES ASSUME k > m + 1 PROVE FALSE
            BY <1>3, <1>7, <3>2
          <5>2. m + 1 \in 1..(k - 1)
            BY <1>3, <1>7, <5>1
          <5>3. QED
            BY <1>1, <1>7, <5>2
        <4>2. StoredPages(pg) = 1..k
          <5>1. m \in Nat /\ 1 <= k
            BY <1>2, <1>3, <1>7
          <5>2. (1..m) \union {k} = 1..k
            BY <1>3, <4>1, <5>1, IntervalAdd
          <5>3. QED
            BY <1>5, <1>7, <5>2
        <4>3. QED
          BY <1>2, <1>3, <4>2
      <3>3. QED
        BY <1>3, <1>7, <3>1, <3>2
    <2>2. QED
      BY <1>5, <1>6, <2>1 DEF Inv, PagesInv, PagesContiguous
  <1>9. \A x \in Jobs : /\ StoredPages(pages[x]) \subseteq StoredPages(pages'[x])
                        /\ StoredPages(pages[x]) = 1..PageCount[x] =>
                               StoredPages(pages'[x]) = 1..PageCount[x]
    <2>1. StoredPages(pages[j]) = 1..n => StoredPages(pg) = 1..n
      <3>1. (1..n) \union {k} = 1..n
        BY <1>2, <1>3, IntervalAdd
      <3>2. QED
        BY <1>5, <3>1
    <2>2. QED
      BY <1>5, <1>6, <2>1
  <1>10. JobsInv'
    <2>1. jobs[j] \in JobRow /\ CountersRow(jobs[j], pg) \in JobRow
      BY <1>1, <1>2, <1>5, CountersType DEF Inv, JobsInv
    <2>2. ResultOK(CountersRow(jobs[j], pg), pages'[j], PageCount[j])
      BY <1>1, <1>9, <2>1 DEF Inv, JobsInv, ResultOK, CountersRow, JobRow
    <2>3. \A x \in Jobs : ResultOK(jobs[x], pages'[x], PageCount[x])
      BY <1>9 DEF Inv, JobsInv, ResultOK
    <2>4. SetJob(j, CountersRow(jobs[j], pg))
      BY DEF PersistPage
    <2>5. QED
      BY <1>1, <2>1, <2>2, <2>3, <2>4 DEF Inv, JobsInv, SetJob
  <1>11. SlotsInv'
    <2>1. s \in Slot
      <3>1. k + 1 \in Nat
        BY <1>3
      <3>2. QED
        BY <1>1, <3>1 DEF Slot
    <2>2. SlotOK(s, pages')
      <3>1. s.pc = "page" /\ s.job = j /\ s.next = k + 1
        BY <1>1 DEF Slot, PersistPage
      <3>2. k + 1 \in 1..(n + 1) /\ (k + 1) - 1 = k
        BY <1>2, <1>3
      <3>3. 1..k \subseteq StoredPages(pages'[j])
        BY <1>1, <1>3, <1>5, <1>6
      <3>4. QED
        BY <1>1, <3>1, <3>2, <3>3 DEF SlotOK
    <2>3. \A x \in Instances : SlotOK(slots[x], pages')
      BY <1>9 DEF Inv, SlotsInv, SlotOK
    <2>4. SetSlot(i, s)
      BY DEF PersistPage
    <2>5. QED
      BY <2>1, <2>2, <2>3, <2>4 DEF Inv, SlotsInv, SetSlot
  <1>12. QED
    BY <1>8, <1>10, <1>11 DEF Inv, RecsInv, RestInv, PersistPage

-----------------------------------------------------------------------------
(* Time, faults and the reconciler *)

\* Heartbeats, expiring heartbeats and locks and the end of a backoff keep
\* the invariant.
LEMMA TimeInv ==
    ASSUME Inv, NEW j \in Jobs, Time(j)
    PROVE  Inv'
  <1>1. UNCHANGED <<pages, slots, recs>>
    BY DEF Time, Heartbeat, HeartbeatExpires, HeartbeatLapses, LockExpires, LockLapses,
           BackoffEnds
  <1>2. SlotsInv' /\ RecsInv'
    BY <1>1 DEF Inv, SlotsInv, RecsInv
  <1>3. /\ jobs[j] \in JobRow
        /\ ResultOK(jobs[j], pages[j], PageCount[j])
        /\ entries[j] \in Entry
    BY DEF Inv, JobsInv, RestInv
  <1>4. budget.lapses > 0 =>
          [budget EXCEPT !.lapses = @ - 1] \in
              [crashes : Nat, lapses : Nat, losses : Nat, faults : Nat]
    <2>1. budget.lapses > 0 => budget.lapses - 1 \in Nat
      BY DEF Inv, RestInv
    <2>2. QED
      BY <2>1 DEF Inv, RestInv
  <1>5. JobsInv'
    <2>1. CASE \E i \in Instances : Heartbeat(i, j)
      BY <1>1, <1>3, <2>1, RowUpdates, RowUpdatesKeepResult, JobAssigned DEF Heartbeat
    <2>2. CASE HeartbeatExpires(j) \/ HeartbeatLapses(j)
      BY <1>1, <1>3, <2>2, RowUpdates, RowUpdatesKeepResult, JobAssigned
         DEF HeartbeatExpires, HeartbeatLapses
    <2>3. CASE LockExpires(j) \/ LockLapses(j) \/ BackoffEnds(j)
      BY <1>1, <2>3 DEF Inv, JobsInv, LockExpires, LockLapses, BackoffEnds
    <2>4. QED
      BY <2>1, <2>2, <2>3 DEF Time
  <1>6. RestInv'
    <2>1. CASE (\E i \in Instances : Heartbeat(i, j)) \/ HeartbeatExpires(j)
      BY <2>1 DEF Inv, RestInv, Heartbeat, HeartbeatExpires
    <2>2. CASE HeartbeatLapses(j)
      BY <1>4, <2>2 DEF Inv, RestInv, HeartbeatLapses
    <2>3. CASE LockExpires(j) \/ BackoffEnds(j)
      BY <1>3, <2>3, EntryUpdates, EntryAssigned DEF Inv, RestInv, LockExpires, BackoffEnds
    <2>4. CASE LockLapses(j)
      BY <1>3, <1>4, <2>4, EntryUpdates, EntryAssigned DEF Inv, RestInv, LockLapses
    <2>5. QED
      BY <2>1, <2>2, <2>3, <2>4 DEF Time
  <1>7. QED
    BY <1>1, <1>2, <1>5, <1>6, RowStep

\* Every step of reconcile keeps the invariant.
LEMMA ReconcileStepInv ==
    ASSUME Inv, NEW i \in Instances, ReconcileStep(i)
    PROVE  Inv'
  <1>1. UNCHANGED <<pages, slots, docs, unscheduled, leaked, budget>>
    BY DEF ReconcileStep, FindStaleProcessing, FailInterrupted, RecoverInterrupted,
           ReenqueueRecovered, FindQueued, EnqueueQueued, ReconcileEnds
  <1>2. SlotsInv'
    BY <1>1 DEF Inv, SlotsInv
  <1>3. recs[i] \in Rec /\ (recs[i].pc = "reenqueue" => recs[i].cur \in Jobs) /\ RecsInv /\ RestInv
    BY DEF Inv, RecsInv
  <1>4. /\ JobsInv /\ UNCHANGED jobs => JobsInv'
        /\ RestInv /\ UNCHANGED entries => RestInv'
    BY <1>1 DEF JobsInv, RestInv
  <1>5. CASE FindStaleProcessing(i)
    <2> DEFINE found == {[job |-> j, attempts |-> jobs[j].attempts] :
                            j \in {k \in Jobs : Stale(jobs[k])}}
               r == [recs[i] EXCEPT !.pc = "stale", !.stale = found]
    <2>1. found \in SUBSET [job : Jobs, attempts : Nat]
      BY DEF Inv, JobsInv, JobRow
    <2>2. r \in Rec /\ (r.pc = "reenqueue" => r.cur \in Jobs)
      BY <1>3, <2>1 DEF Rec
    <2>3. RecsInv'
      BY <1>3, <1>5, <2>2, RecAssigned DEF FindStaleProcessing
    <2>4. QED
      BY <1>1, <1>2, <1>4, <1>5, <2>3, RowStep DEF Inv, FindStaleProcessing
  <1>6. ASSUME NEW s \in recs[i].stale, FailInterrupted(i, s) \/ RecoverInterrupted(i, s)
        PROVE  Inv'
    <2>1. s.job \in Jobs
      BY <1>3 DEF Rec
    <2>2. "retryable" \in ErrorCode
      BY DEF ErrorCode
    <2>3. JobsInv'
      BY <1>1, <1>6, <2>1, <2>2, RowUpdates, RowUpdatesKeepResult, JobAssigned
         DEF Inv, JobsInv, FailInterrupted, RecoverInterrupted
    <2>4. recs[i].stale \ {s} \in SUBSET [job : Jobs, attempts : Nat]
      BY <1>3 DEF Rec
    <2>5. RecsInv'
      <3> DEFINE r1 == [recs[i] EXCEPT !.stale = recs[i].stale \ {s}]
                 r2 == [recs[i] EXCEPT !.pc = "reenqueue", !.stale = recs[i].stale \ {s},
                                       !.cur = s.job]
      <3>1. /\ r1 \in Rec /\ (r1.pc = "reenqueue" => r1.cur \in Jobs)
            /\ r2 \in Rec /\ (r2.pc = "reenqueue" => r2.cur \in Jobs)
        BY <1>3, <2>1, <2>4 DEF Rec
      <3>2. SetRec(i, r1) \/ SetRec(i, r2)
        BY <1>6 DEF FailInterrupted, RecoverInterrupted
      <3>3. QED
        BY <1>3, <3>1, <3>2, RecAssigned
    <2>6. UNCHANGED entries
      BY <1>6 DEF FailInterrupted, RecoverInterrupted
    <2>7. QED
      BY <1>1, <1>2, <1>3, <1>4, <2>3, <2>5, <2>6, RowStep
  <1>7. CASE ReenqueueRecovered(i)
    <2> DEFINE r == [recs[i] EXCEPT !.pc = "stale", !.cur = NoJob]
    <2>1. r \in Rec /\ (r.pc = "reenqueue" => r.cur \in Jobs)
      BY <1>3 DEF Rec
    <2>2. RecsInv'
      BY <1>3, <1>7, <2>1, RecAssigned DEF ReenqueueRecovered
    <2>3. recs[i].cur \in Jobs
      BY <1>3, <1>7 DEF ReenqueueRecovered
    <2>4. AddEntry(entries[recs[i].cur]) \in Entry
      BY <2>3, EntryUpdates DEF Inv, RestInv
    <2>5. RestInv'
      BY <1>1, <1>7, <2>3, <2>4, EntryAssigned DEF Inv, RestInv, ReenqueueRecovered
    <2>6. QED
      BY <1>1, <1>2, <1>4, <1>7, <2>2, <2>5, RowStep DEF Inv, ReenqueueRecovered
  <1>8. CASE FindQueued(i)
    <2> DEFINE r == [recs[i] EXCEPT !.pc = "queued",
                                    !.queued = {j \in Jobs : jobs[j].status = "QUEUED"}]
    <2>1. r \in Rec /\ (r.pc = "reenqueue" => r.cur \in Jobs)
      BY <1>3 DEF Rec
    <2>2. RecsInv'
      BY <1>3, <1>8, <2>1, RecAssigned DEF FindQueued
    <2>3. QED
      BY <1>1, <1>2, <1>4, <1>8, <2>2, RowStep DEF Inv, FindQueued
  <1>9. ASSUME NEW j \in recs[i].queued, EnqueueQueued(i, j)
        PROVE  Inv'
    <2> DEFINE r == [recs[i] EXCEPT !.queued = @ \ {j}]
    <2>1. j \in Jobs
      BY <1>3 DEF Rec
    <2>2. recs[i].queued \ {j} \in SUBSET Jobs
      BY <1>3 DEF Rec
    <2>3. r \in Rec /\ (r.pc = "reenqueue" => r.cur \in Jobs)
      BY <1>3, <2>2 DEF Rec
    <2>4. RecsInv'
      BY <1>3, <1>9, <2>3, RecAssigned DEF EnqueueQueued
    <2>5. AddEntry(entries[j]) \in Entry
      BY <2>1, EntryUpdates DEF Inv, RestInv
    <2>6. RestInv'
      BY <1>1, <1>9, <2>1, <2>5, EntryAssigned DEF Inv, RestInv, EnqueueQueued
    <2>7. QED
      BY <1>1, <1>2, <1>4, <1>9, <2>4, <2>6, RowStep DEF Inv, EnqueueQueued
  <1>10. CASE ReconcileEnds(i)
    <2>1. RecsInv'
      BY <1>3, <1>10, NotReconcilingOK, RecAssigned DEF ReconcileEnds
    <2>2. QED
      BY <1>1, <1>2, <1>4, <1>10, <2>1, RowStep DEF Inv, ReconcileEnds
  <1>11. QED
    BY <1>5, <1>6, <1>7, <1>8, <1>9, <1>10 DEF ReconcileStep

\* A failed reconciliation, a crash and a lost queue entry keep the invariant.
LEMMA FaultsInv ==
    ASSUME Inv, \/ \E i \in Instances : ReconcileFails(i) \/ Crash(i)
                \/ \E j \in Jobs : LoseEntry(j)
    PROVE  Inv'
  <1>1. ASSUME NEW i \in Instances, ReconcileFails(i)
        PROVE  Inv'
    <2>1. RecsInv'
      BY <1>1, NotReconcilingOK, RecAssigned DEF Inv, ReconcileFails
    <2>2. RestInv'
      BY <1>1, BudgetSpent DEF Inv, RestInv, ReconcileFails
    <2>3. QED
      BY <1>1, <2>1, <2>2, QuietStep DEF Inv, SlotsInv, ReconcileFails
  <1>2. ASSUME NEW i \in Instances, Crash(i)
        PROVE  Inv'
    <2>1. SlotsInv' /\ RecsInv'
      BY <1>2, IdleOK, SlotAssigned, NotReconcilingOK, RecAssigned DEF Inv, Crash
    <2>2. budget.crashes - 1 \in Nat
      BY <1>2 DEF Inv, RestInv, Crash
    <2>3. RestInv'
      BY <1>2, <2>2 DEF Inv, RestInv, Crash
    <2>4. QED
      BY <1>2, <2>1, <2>3, QuietStep DEF Crash
  <1>3. ASSUME NEW j \in Jobs, LoseEntry(j)
        PROVE  Inv'
    <2>1. budget.losses - 1 \in Nat
      BY <1>3 DEF Inv, RestInv, LoseEntry
    <2>2. budget' \in [crashes : Nat, lapses : Nat, losses : Nat, faults : Nat]
      BY <1>3, <2>1 DEF Inv, RestInv, LoseEntry
    <2>3. RestInv'
      BY <1>3, <2>2, EntryUpdates, EntryAssigned DEF Inv, RestInv, LoseEntry
    <2>4. QED
      BY <1>3, <2>3, QuietStep DEF Inv, SlotsInv, RecsInv, LoseEntry
  <1>4. QED
    BY <1>1, <1>2, <1>3

-----------------------------------------------------------------------------
(* Theorems *)

\* Every step keeps the invariant.
LEMMA NextInv == Inv /\ [Next]_vars => Inv'
  <1> SUFFICES ASSUME Inv, [Next]_vars PROVE Inv'
    OBVIOUS
  <1>1. ASSUME NEW i \in Instances, DeliveryStep(i)
        PROVE  Inv'
    BY <1>1, FindJobInv, ClaimJobInv, RereadJobInv, GivesUpInv, MovesInv, SetTotalPagesInv,
       ReadProgressInv, PersistPageInv, ReadTallyInv, FinalizeInv, SettleInv
       DEF DeliveryStep
  <1>2. ASSUME NEW i \in Instances, DeliveryFails(i)
        PROVE  Inv'
    BY <1>2, MakeWorkDirFailsInv, RunThrowsInv, QueryFailsInv DEF DeliveryFails
  <1>3. CASE UNCHANGED vars
    BY <1>3 DEF vars, Inv, JobsInv, PagesInv, PagesContiguous, SlotsInv, RecsInv, RestInv
  <1>4. QED
    BY <1>1, <1>2, <1>3, ApiInv, DeliverInv, TimeInv, ReconcileStepInv, FaultsInv DEF Next

\* Inv is an invariant of the pipeline: of any number of instances, jobs and
\* pages, under any budget of crashes, lapses, losses and faults.
THEOREM Invariance == Spec => []Inv
  BY InitInv, NextInv, PTL DEF Spec

\* Type correctness of the pipeline.
THEOREM TypeCorrect == Spec => []TypeOK
  BY Invariance, InvImplies, PTL

\* For any number of workers, jobs, pages, attempts and faults - lapses
\* included - the stored pages of a job are an initial interval.
THEOREM PagesAreContiguous == Spec => []PagesContiguous
  BY Invariance, InvImplies, PTL

\* For any number of workers, jobs, pages, attempts and faults a COMPLETED or
\* PARTIAL job has a result for every page.
THEOREM ResultsAreComplete == Spec => []ResultsComplete
  BY Invariance, InvImplies, PTL

\* Below 2000 pages an unfinished job rounds to less than 100 %.
LEMMA Rounding ==
    ASSUME NEW p \in Nat, NEW m \in Nat, p < m, m < 2000
    PROVE  /\ (2000 * p + m) \div (2 * m) \in Int
           /\ (2000 * p + m) \div (2 * m) < 1000
<1> DEFINE a == 2000 * p + m
           d == 2 * m
<1>1. a \in Nat /\ d \in Nat \ {0} /\ a < 1000 * d
  OBVIOUS
<1> HIDE DEF a, d
<1>2. a \div d \in Int /\ a \div d < 1000
  BY <1>1, Z3
<1> QED
  BY <1>2 DEF a, d

\* toOcrJobDto rounds: below 2000 pages the progress reaches 100 % only when
\* every page is processed.  (With 2000, the most OCR_MAX_PDF_PAGES allows, it
\* shows 100 % one page too early.)
THEOREM HundredPercentMeansAll ==
    ASSUME NEW r \in JobRow, r.total < 2000, r.processed < r.total
    PROVE  Progress(r) < 1000
<1> DEFINE p == r.processed
           m == r.total
<1>1. p \in Nat /\ m \in Nat /\ p < m /\ m < 2000
  BY DEF JobRow
<1>2. Progress(r) = IF m = 0 THEN 0
                    ELSE IF (2000 * p + m) \div (2 * m) <= 1000
                         THEN (2000 * p + m) \div (2 * m) ELSE 1000
  BY DEF Progress
<1> HIDE DEF p, m
<1>3. /\ (2000 * p + m) \div (2 * m) \in Int
      /\ (2000 * p + m) \div (2 * m) < 1000
  BY <1>1, Rounding
<1> QED
  BY <1>1, <1>2, <1>3

-----------------------------------------------------------------------------
(* The moves of a row *)

\* What any statement but finalize may do to a row.
RowMove(r, q) ==
    /\ r.status \in TerminalStatus => q = r
    /\ \/ q.status = r.status /\ q.attempts = r.attempts
       \/ /\ r.status \in ActiveStatus
          /\ q.status = "PROCESSING" /\ q.attempts = r.attempts + 1
       \/ /\ r.status = "PROCESSING"
          /\ q.status = "QUEUED" /\ q.attempts = r.attempts
       \/ /\ r.status \in ActiveStatus
          /\ q.status \in {"FAILED", "CANCELLED"} /\ q.attempts = r.attempts

\* A row in which some statement is applied moves along the lifecycle.
LEMMA RowMoves ==
    ASSUME NEW r \in JobRow
    PROVE  /\ RowMove(r, ClaimRow(r))
           /\ RowMove(r, HeartbeatRow(r))
           /\ RowMove(r, RecoverRow(r))
           /\ r.status = "PROCESSING" => RowMove(r, [r EXCEPT !.fresh = FALSE])
           /\ \A code \in ErrorCode : /\ RowMove(r, FailRow(r, code))
                                      /\ RowMove(r, RequeueRow(r, code))
                                      /\ RowMove(r, CancelRow(r, code))
           /\ \A m \in Nat : RowMove(r, TotalPagesRow(r, m))
           /\ \A pg : RowMove(r, CountersRow(r, pg))
  <1> USE DEF RowMove, JobRow, ActiveStatus, TerminalStatus
  <1>1. RowMove(r, ClaimRow(r))
    BY DEF ClaimRow, Claimable, Stale
  <1>2. /\ RowMove(r, HeartbeatRow(r))
        /\ r.status = "PROCESSING" => RowMove(r, [r EXCEPT !.fresh = FALSE])
    BY DEF HeartbeatRow
  <1>3. RowMove(r, RecoverRow(r))
    BY DEF RecoverRow, Stale
  <1>4. ASSUME NEW code \in ErrorCode
        PROVE  /\ RowMove(r, FailRow(r, code))
               /\ RowMove(r, RequeueRow(r, code))
               /\ RowMove(r, CancelRow(r, code))
    BY DEF FailRow, RequeueRow, CancelRow
  <1>5. ASSUME NEW m \in Nat
        PROVE  RowMove(r, TotalPagesRow(r, m))
    BY DEF TotalPagesRow
  <1>6. ASSUME NEW pg
        PROVE  RowMove(r, CountersRow(r, pg))
    BY DEF CountersRow
  <1>7. QED
    BY <1>1, <1>2, <1>3, <1>4, <1>5, <1>6

\* The same for finalize, which may also conclude a PROCESSING job.
LEMMA FinalizeMoves ==
    ASSUME NEW r \in JobRow, NEW t, NEW d
    PROVE  \/ RowMove(r, FinalizeRow(r, t, d))
           \/ /\ r.status = "PROCESSING"
              /\ FinalizeRow(r, t, d).status \in {"COMPLETED", "PARTIAL"}
              /\ FinalizeRow(r, t, d).attempts = r.attempts
  BY VerdictType DEF RowMove, JobRow, FinalizeRow, ActiveStatus, TerminalStatus

-----------------------------------------------------------------------------

\* A step either leaves rows and pages alone, or applies a statement to one
\* row, or stores a page and refreshes the counters, or finalizes.
Moves ==
    \/ UNCHANGED <<jobs, pages>>
    \/ \E j \in Jobs, r \in JobRow :
          RowMove(jobs[j], r) /\ SetJob(j, r) /\ UNCHANGED pages
    \/ \E i \in Instances, result \in {"ok", "failed"} : PersistPage(i, result)
    \/ \E i \in Instances : Finalize(i)

\* Every step moves every row along the lifecycle, finalize's step included.
LEMMA NextMoves ==
    ASSUME Inv, Inv', [Next]_vars
    PROVE  Moves
  <1> USE DEF Moves
  <1>1. jobs \in [Jobs -> JobRow] /\ jobs' \in [Jobs -> JobRow]
    BY DEF Inv, JobsInv
  <1>2. ASSUME NEW j \in Jobs, NEW r, RowMove(jobs[j], r), SetJob(j, r), UNCHANGED pages
        PROVE  Moves
    <2>1. r \in JobRow
      BY <1>1, <1>2 DEF SetJob
    <2>2. QED
      BY <1>2, <2>1
  <1>3. "permanent" \in ErrorCode /\ "retryable" \in ErrorCode
    BY DEF ErrorCode
  <1>4. ASSUME NEW j \in Jobs, Api(j) \/ Time(j) \/ LoseEntry(j)
        PROVE  Moves
    <2>1. CASE Api(j) \/ LoseEntry(j)
      BY <2>1 DEF Api, Schedule, ScheduleFails, DeleteDocument, LoseEntry
    <2>2. CASE \E i \in Instances : Heartbeat(i, j)
      BY <1>1, <1>2, <2>2, RowMoves DEF Heartbeat
    <2>3. CASE HeartbeatExpires(j) \/ HeartbeatLapses(j)
      BY <1>1, <1>2, <2>3, RowMoves DEF HeartbeatExpires, HeartbeatLapses
    <2>4. CASE LockExpires(j) \/ LockLapses(j) \/ BackoffEnds(j)
      BY <2>4 DEF LockExpires, LockLapses, BackoffEnds
    <2>5. QED
      BY <1>4, <2>1, <2>2, <2>3, <2>4 DEF Time
  <1>5. ASSUME NEW i \in Instances, DeliveryStep(i)
        PROVE  Moves
    <2>1. slots[i].pc # "idle" => slots[i].job \in Jobs
      BY DEF Inv, SlotsInv, SlotOK
    <2>2. CASE ClaimJob(i)
      BY <1>1, <1>2, <2>1, <2>2, RowMoves DEF ClaimJob
    <2>3. CASE FailExhausted(i) \/ CancelJob(i)
      BY <1>1, <1>2, <1>3, <2>1, <2>3, RowMoves DEF FailExhausted, CancelJob
    <2>4. CASE HandleFailure(i)
      BY <1>1, <1>2, <2>1, <2>4, CodeType, RowMoves DEF HandleFailure
    <2>5. CASE SetTotalPages(i)
      <3>1. slots[i].job \in Jobs /\ PageCount[slots[i].job] \in Nat
        BY <2>1, <2>5, PageCountAssumption DEF SetTotalPages
      <3>2. QED
        BY <1>1, <1>2, <2>5, <3>1, RowMoves DEF SetTotalPages
    <2>6. CASE \/ FindJob(i) \/ RereadJob(i) \/ MakeWorkDir(i) \/ LoadDocument(i)
               \/ FetchAndInspect(i) \/ ReadProgress(i) \/ ReadTally(i) \/ Settle(i)
      BY <2>6 DEF FindJob, RereadJob, MakeWorkDir, LoadDocument, FetchAndInspect,
                  ReadProgress, ReadTally, Settle
    <2>7. CASE Finalize(i) \/ \E result \in {"ok", "failed"} : PersistPage(i, result)
      BY <2>7
    <2>8. QED
      BY <1>5, <2>2, <2>3, <2>4, <2>5, <2>6, <2>7 DEF DeliveryStep
  <1>6. ASSUME NEW i \in Instances,
               \/ DeliveryFails(i) \/ ReconcileFails(i) \/ Crash(i)
               \/ \E j \in Jobs : Deliver(i, j)
        PROVE  Moves
    BY <1>6 DEF DeliveryFails, MakeWorkDirFails, RunThrows, QueryFails, ReconcileFails,
                Crash, Deliver
  <1>7. ASSUME NEW i \in Instances, ReconcileStep(i)
        PROVE  Moves
    <2>1. ASSUME NEW s \in recs[i].stale, FailInterrupted(i, s) \/ RecoverInterrupted(i, s)
          PROVE  Moves
      <3>1. s.job \in Jobs
        BY DEF Inv, RecsInv, Rec
      <3>2. QED
        BY <1>1, <1>2, <1>3, <2>1, <3>1, RowMoves DEF FailInterrupted, RecoverInterrupted
    <2>2. QED
      BY <1>7, <2>1 DEF ReconcileStep, FindStaleProcessing, ReenqueueRecovered, FindQueued,
                        EnqueueQueued, ReconcileEnds
  <1>8. CASE UNCHANGED vars
    BY <1>8 DEF vars
  <1>9. QED
    BY <1>4, <1>5, <1>6, <1>7, <1>8 DEF Next

-----------------------------------------------------------------------------
(* Terminal rows *)

\* A move leaves the row of a terminal job alone.
LEMMA MovesKeepTerminal ==
    ASSUME Inv, Moves
    PROVE  TerminalRowKept
  <1>1. jobs \in [Jobs -> JobRow]
    BY DEF Inv, JobsInv
  <1>2. CASE UNCHANGED <<jobs, pages>>
    BY <1>2 DEF TerminalRowKept
  <1>3. ASSUME NEW j \in Jobs, NEW r \in JobRow, RowMove(jobs[j], r), SetJob(j, r)
        PROVE  TerminalRowKept
    BY <1>1, <1>3 DEF TerminalRowKept, RowMove, SetJob
  <1>4. ASSUME NEW i \in Instances, NEW result \in {"ok", "failed"}, PersistPage(i, result)
        PROVE  TerminalRowKept
    <2>1. PICK j \in Jobs : \E pg : SetJob(j, CountersRow(jobs[j], pg))
      BY <1>4 DEF Inv, SlotsInv, SlotOK, PersistPage
    <2>2. PICK pg : SetJob(j, CountersRow(jobs[j], pg))
      BY <2>1
    <2>3. RowMove(jobs[j], CountersRow(jobs[j], pg))
      BY <1>1, RowMoves
    <2>4. QED
      BY <1>1, <2>2, <2>3 DEF TerminalRowKept, RowMove, SetJob
  <1>5. ASSUME NEW i \in Instances, Finalize(i)
        PROVE  TerminalRowKept
    <2>1. PICK j \in Jobs : \E t, d : SetJob(j, FinalizeRow(jobs[j], t, d))
      BY <1>5 DEF Inv, SlotsInv, SlotOK, Finalize
    <2>2. PICK t, d : SetJob(j, FinalizeRow(jobs[j], t, d))
      BY <2>1
    <2>3. jobs[j].status \in TerminalStatus => FinalizeRow(jobs[j], t, d) = jobs[j]
      BY <1>1 DEF FinalizeRow, TerminalStatus
    <2>4. QED
      BY <1>1, <2>2, <2>3 DEF TerminalRowKept, SetJob
  <1>6. QED
    BY <1>2, <1>3, <1>4, <1>5 DEF Moves

\* No stale worker, duplicate delivery, crash or reconciler changes the row of
\* a terminal job, for any number of them.
THEOREM TerminalRowsFrozen == Spec => TerminalRowFrozen
  <1>1. Inv /\ [Next]_vars => TerminalRowKept
    BY NextInv, NextMoves, MovesKeepTerminal
  <1>2. QED
    BY <1>1, Invariance, PTL DEF Spec, TerminalRowFrozen

-----------------------------------------------------------------------------
(* Refinement *)

\* An initial state of the pipeline is an initial state of the lifecycle.
LEMMA InitRefines == Init => Lifecycle!Init
  <1> SUFFICES ASSUME Init PROVE Lifecycle!Init
    OBVIOUS
  <1>1. ASSUME NEW j \in Jobs
        PROVE  jobs[j].status = "QUEUED" /\ jobs[j].attempts = 0 /\ StoredPages(pages[j]) = {}
    BY DEF Init, NewJob, StoredPages
  <1>2. QED
    BY <1>1 DEF Lifecycle!Init

\* A statement on one row is a step of the lifecycle or a stutter.
LEMMA RowMoveRefines ==
    ASSUME Inv, NEW j \in Jobs, NEW r \in JobRow, RowMove(jobs[j], r), SetJob(j, r),
           UNCHANGED pages
    PROVE  [Lifecycle!Next]_(Lifecycle!vars)
  <1> DEFINE st  == [x \in Jobs |-> jobs[x].status]
             at  == [x \in Jobs |-> jobs[x].attempts]
  <1>1. jobs \in [Jobs -> JobRow]
    BY DEF Inv, JobsInv
  <1>2. jobs' = [jobs EXCEPT ![j] = r]
    BY DEF SetJob
  <1>3. /\ st' = [st EXCEPT ![j] = r.status]
        /\ at' = [at EXCEPT ![j] = r.attempts]
        /\ st[j] = jobs[j].status /\ at[j] = jobs[j].attempts
    BY <1>1, <1>2
  <1>4. UNCHANGED [x \in Jobs |-> StoredPages(pages[x])]
    OBVIOUS
  <1>5. CASE r.status = jobs[j].status /\ r.attempts = jobs[j].attempts
    <2>1. st' = st /\ at' = at
      BY <1>3, <1>5
    <2>2. QED
      BY <1>4, <2>1 DEF Lifecycle!vars
  <1>6. CASE /\ jobs[j].status \in ActiveStatus
             /\ r.status = "PROCESSING" /\ r.attempts = jobs[j].attempts + 1
    <2>1. Lifecycle!Start(j)
      BY <1>3, <1>4, <1>6 DEF Lifecycle!Start, Lifecycle!Active, ActiveStatus
    <2>2. QED
      BY <2>1 DEF Lifecycle!Next
  <1>7. CASE /\ jobs[j].status = "PROCESSING"
             /\ r.status = "QUEUED" /\ r.attempts = jobs[j].attempts
    <2>1. at' = at
      BY <1>3, <1>7
    <2>2. Lifecycle!GiveBack(j)
      BY <1>3, <1>4, <1>7, <2>1 DEF Lifecycle!GiveBack
    <2>3. QED
      BY <2>2 DEF Lifecycle!Next
  <1>8. CASE /\ jobs[j].status \in ActiveStatus
             /\ r.status \in {"FAILED", "CANCELLED"} /\ r.attempts = jobs[j].attempts
    <2>1. at' = at
      BY <1>3, <1>8
    <2>2. Lifecycle!GiveUp(j, r.status)
      BY <1>3, <1>4, <1>8, <2>1 DEF Lifecycle!GiveUp, Lifecycle!Active, ActiveStatus
    <2>3. QED
      BY <1>8, <2>2 DEF Lifecycle!Next
  <1>9. QED
    BY <1>5, <1>6, <1>7, <1>8 DEF RowMove

\* Persisting a page is storing it after the pages before it.
LEMMA PersistPageRefines ==
    ASSUME Inv, NEW i \in Instances, NEW result \in {"ok", "failed"}, PersistPage(i, result)
    PROVE  Lifecycle!Next
  <1> DEFINE j == slots[i].job
             k == slots[i].next
             pg == [pages[j] EXCEPT ![k] = result]
             sp == [x \in Jobs |-> StoredPages(pages[x])]
  <1>1. /\ j \in Jobs
        /\ k \in 1..(PageCount[j] + 1)
        /\ 1..(k - 1) \subseteq StoredPages(pages[j])
    BY DEF Inv, SlotsInv, SlotOK, PersistPage
  <1>2. k \in 1..PageCount[j]
    BY <1>1, PageCountAssumption DEF PersistPage
  <1>3. pages[j] \in [1..PageCount[j] -> PageRow] /\ DOMAIN pages = Jobs
    BY <1>1 DEF Inv, PagesInv
  <1>4. StoredPages(pg) = StoredPages(pages[j]) \union {k}
    BY <1>2, <1>3 DEF StoredPages, PageRow
  <1>5. pages'[j] = pg /\ \A x \in Jobs \ {j} : pages'[x] = pages[x]
    BY <1>1, <1>3 DEF PersistPage
  <1>6. sp' = [sp EXCEPT ![j] = @ \union {k}]
    BY <1>1, <1>4, <1>5
  <1>7. /\ [x \in Jobs |-> jobs[x].status]' = [x \in Jobs |-> jobs[x].status]
        /\ [x \in Jobs |-> jobs[x].attempts]' = [x \in Jobs |-> jobs[x].attempts]
    <2>1. jobs \in [Jobs -> JobRow]
      BY DEF Inv, JobsInv
    <2>2. jobs' = [jobs EXCEPT ![j] = CountersRow(jobs[j], pg)]
      BY DEF PersistPage, SetJob
    <2>3. /\ CountersRow(jobs[j], pg).status = jobs[j].status
          /\ CountersRow(jobs[j], pg).attempts = jobs[j].attempts
      BY <1>1, <2>1 DEF CountersRow, JobRow
    <2>4. QED
      BY <2>1, <2>2, <2>3
  <1>8. Lifecycle!StorePage(j, k)
    BY <1>1, <1>6, <1>7 DEF Lifecycle!StorePage
  <1>9. QED
    BY <1>1, <1>2, <1>8 DEF Lifecycle!Next

\* finalize is a step that concludes or gives up the job, or is invisible.
LEMMA FinalizeRefines ==
    ASSUME Inv, Inv', NEW i \in Instances, Finalize(i)
    PROVE  [Lifecycle!Next]_(Lifecycle!vars)
  <1> DEFINE j == slots[i].job
             t == slots[i].tally
             st  == [x \in Jobs |-> jobs[x].status]
             at  == [x \in Jobs |-> jobs[x].attempts]
  <1>1. j \in Jobs /\ StoredPages(pages[j]) = 1..PageCount[j]
    BY DEF Inv, SlotsInv, SlotOK, Finalize
  <1>2. jobs \in [Jobs -> JobRow] /\ jobs' \in [Jobs -> JobRow]
    BY DEF Inv, JobsInv
  <1>3. PICK d : SetJob(j, FinalizeRow(jobs[j], t, d))
    BY DEF Finalize
  <1> DEFINE r == FinalizeRow(jobs[j], t, d)
  <1>4. r \in JobRow /\ UNCHANGED pages
    BY <1>1, <1>2, <1>3 DEF SetJob, Finalize
  <1>5. CASE RowMove(jobs[j], r)
    BY <1>1, <1>3, <1>4, <1>5, RowMoveRefines
  <1>6. CASE /\ jobs[j].status = "PROCESSING"
             /\ r.status \in {"COMPLETED", "PARTIAL"}
             /\ r.attempts = jobs[j].attempts
    <2>1. st' = [st EXCEPT ![j] = r.status] /\ at' = at /\ st[j] = jobs[j].status
      BY <1>1, <1>2, <1>3, <1>6 DEF SetJob
    <2>2. PICK y \in Jobs : y = j
      BY <1>1
    <2>3. PICK s \in {"COMPLETED", "PARTIAL"} : s = r.status
      BY <1>6
    <2>4. Lifecycle!Conclude(y, s)
      BY <1>1, <1>4, <1>6, <2>1, <2>2, <2>3 DEF Lifecycle!Conclude
    <2>5. QED
      BY <2>4 DEF Lifecycle!Next
  <1>7. QED
    BY <1>1, <1>2, <1>5, <1>6, FinalizeMoves

\* The pipeline implements the lifecycle.
THEOREM PipelineImplementsLifecycle == Spec => ImplementsLifecycle
  <1>1. Inv /\ Inv' /\ [Next]_vars => [Lifecycle!Next]_(Lifecycle!vars)
    <2> SUFFICES ASSUME Inv, Inv', [Next]_vars
                 PROVE  [Lifecycle!Next]_(Lifecycle!vars)
      OBVIOUS
    <2>1. CASE UNCHANGED <<jobs, pages>>
      BY <2>1 DEF Lifecycle!vars
    <2>2. QED
      BY <2>1, NextMoves, RowMoveRefines, PersistPageRefines, FinalizeRefines DEF Moves
  <1>2. QED
    BY <1>1, InitRefines, Invariance, PTL DEF Spec, ImplementsLifecycle, Lifecycle!Spec

-----------------------------------------------------------------------------
(* Failures *)

\* FailureExplained for one row.
Explained(r) ==
    /\ r.status \in {"PARTIAL", "FAILED", "CANCELLED"} => r.error # "none"
    /\ r.status = "COMPLETED" => r.error = "none"

\* No statement but finalize conceals or invents a failure.
LEMMA RowsExplained ==
    ASSUME NEW r \in JobRow, Explained(r)
    PROVE  /\ Explained(ClaimRow(r))
           /\ Explained(HeartbeatRow(r))
           /\ Explained(RecoverRow(r))
           /\ Explained([r EXCEPT !.fresh = FALSE])
           /\ \A code \in ErrorCode : /\ Explained(FailRow(r, code))
                                      /\ Explained(RequeueRow(r, code))
                                      /\ Explained(CancelRow(r, code))
           /\ \A m : Explained(TotalPagesRow(r, m))
           /\ \A pg : Explained(CountersRow(r, pg))
  <1> USE DEF Explained, JobRow
  <1>1. Explained(ClaimRow(r))
    BY DEF ClaimRow
  <1>2. Explained(HeartbeatRow(r)) /\ Explained(RecoverRow(r))
    BY DEF HeartbeatRow, RecoverRow
  <1>3. Explained([r EXCEPT !.fresh = FALSE])
    OBVIOUS
  <1>4. ASSUME NEW code \in ErrorCode
        PROVE  /\ Explained(FailRow(r, code))
               /\ Explained(RequeueRow(r, code))
               /\ Explained(CancelRow(r, code))
    BY DEF FailRow, RequeueRow, CancelRow, ErrorCode
  <1>5. ASSUME NEW m PROVE Explained(TotalPagesRow(r, m))
    BY DEF TotalPagesRow
  <1>6. ASSUME NEW pg PROVE Explained(CountersRow(r, pg))
    BY DEF CountersRow
  <1> QED
    BY <1>1, <1>2, <1>3, <1>4, <1>5, <1>6

\* finalize records an error whenever a page failed; a document has a page, so
\* it never fails a job for want of pages.
LEMMA FinalizeExplained ==
    ASSUME NEW r \in JobRow, Explained(r), NEW t \in [all : Nat, failed : Nat], t.all > 0,
           NEW d \in DominantErrors(t)
    PROVE  Explained(FinalizeRow(r, t, d))
  <1>1. CASE r.status # "PROCESSING"
    BY <1>1 DEF FinalizeRow
  <1>2. CASE r.status = "PROCESSING"
    <2> DEFINE v == Verdict(t)
    <2>1. FinalizeRow(r, t, d).status = v
          /\ FinalizeRow(r, t, d).error = IF v = "COMPLETED" THEN "none" ELSE d
      BY <1>2 DEF FinalizeRow, JobRow
    <2>2. v \in {"PARTIAL", "FAILED"} => t.failed > 0
      BY DEF Verdict
    <2>3. t.failed > 0 => d # "none"
      BY DEF DominantErrors, ErrorCode
    <2>4. v \in {"COMPLETED", "PARTIAL", "FAILED"}
      BY VerdictType
    <2> HIDE DEF v
    <2> QED
      BY <2>1, <2>2, <2>3, <2>4 DEF Explained
  <1> QED
    BY <1>1, <1>2

\* Every step keeps every ended job explained.
LEMMA StepExplained ==
    ASSUME Inv, Inv', FailureExplained, [Next]_vars
    PROVE  FailureExplained'
  <1>0. /\ jobs \in [Jobs -> JobRow]
        /\ \A j \in Jobs : Explained(jobs[j])
        /\ "permanent" \in ErrorCode /\ "retryable" \in ErrorCode
    BY DEF Inv, JobsInv, FailureExplained, Explained, ErrorCode
  <1>1. ASSUME NEW j \in Jobs, NEW r, Explained(r), SetJob(j, r)
        PROVE  FailureExplained'
    BY <1>0, <1>1 DEF SetJob, FailureExplained, Explained
  <1>2. CASE UNCHANGED jobs
    BY <1>2 DEF FailureExplained
  <1>3. ASSUME NEW j \in Jobs, Api(j) \/ Time(j) \/ LoseEntry(j)
        PROVE  FailureExplained'
    <2>1. \/ UNCHANGED jobs \/ SetJob(j, HeartbeatRow(jobs[j]))
          \/ SetJob(j, [jobs[j] EXCEPT !.fresh = FALSE])
      BY <1>3 DEF Api, Schedule, ScheduleFails, DeleteDocument, LoseEntry, Time, Heartbeat,
                  HeartbeatExpires, HeartbeatLapses, LockExpires, LockLapses, BackoffEnds
    <2> QED
      BY <1>0, <1>1, <1>2, <2>1, RowsExplained
  <1>4. ASSUME NEW i \in Instances, DeliveryStep(i)
        PROVE  FailureExplained'
    <2>1. slots[i].pc # "idle" => slots[i].job \in Jobs
      BY DEF Inv, SlotsInv, SlotOK
    <2>2. CASE \/ FindJob(i) \/ RereadJob(i) \/ MakeWorkDir(i) \/ LoadDocument(i)
               \/ FetchAndInspect(i) \/ ReadProgress(i) \/ ReadTally(i) \/ Settle(i)
      BY <1>2, <2>2 DEF FindJob, RereadJob, MakeWorkDir, LoadDocument, FetchAndInspect,
                        ReadProgress, ReadTally, Settle
    <2>3. CASE ClaimJob(i)
      BY <1>0, <1>1, <2>1, <2>3, RowsExplained DEF ClaimJob
    <2>4. CASE FailExhausted(i) \/ CancelJob(i) \/ HandleFailure(i)
      <3>1. slots[i].job \in Jobs
        BY <2>1, <2>4 DEF FailExhausted, CancelJob, HandleFailure
      <3>2. PICK code \in ErrorCode :
                \/ SetJob(slots[i].job, FailRow(jobs[slots[i].job], code))
                \/ SetJob(slots[i].job, RequeueRow(jobs[slots[i].job], code))
                \/ SetJob(slots[i].job, CancelRow(jobs[slots[i].job], code))
        BY <1>0, <2>4, CodeType DEF FailExhausted, CancelJob, HandleFailure
      <3> QED
        BY <1>0, <1>1, <3>1, <3>2, RowsExplained
    <2>5. CASE SetTotalPages(i)
      <3>1. PICK m : SetJob(slots[i].job, TotalPagesRow(jobs[slots[i].job], m))
        BY <2>5 DEF SetTotalPages
      <3>2. slots[i].job \in Jobs
        BY <2>1, <2>5 DEF SetTotalPages
      <3> QED
        BY <1>0, <1>1, <3>1, <3>2, RowsExplained
    <2>6. ASSUME NEW result \in {"ok", "failed"}, PersistPage(i, result)
          PROVE  FailureExplained'
      <3>1. PICK pg : SetJob(slots[i].job, CountersRow(jobs[slots[i].job], pg))
        BY <2>6 DEF PersistPage
      <3>2. slots[i].job \in Jobs
        BY <2>1, <2>6 DEF PersistPage
      <3> QED
        BY <1>0, <1>1, <3>1, <3>2, RowsExplained
    <2>7. CASE Finalize(i)
      <3> DEFINE w == slots[i].job
                 t == slots[i].tally
      <3>1. w \in Jobs /\ t \in [all : Nat, failed : Nat] /\ t.all = PageCount[w]
        BY <2>7 DEF Inv, SlotsInv, SlotOK, Slot, Finalize
      <3>2. t.all > 0
        BY <3>1, PageCountAssumption
      <3>3. PICK d \in DominantErrors(t) : SetJob(w, FinalizeRow(jobs[w], t, d))
        BY <2>7 DEF Finalize
      <3>4. Explained(FinalizeRow(jobs[w], t, d))
        BY <1>0, <3>1, <3>2, FinalizeExplained
      <3> QED
        BY <1>1, <3>1, <3>3, <3>4
    <2> QED
      BY <1>4, <2>2, <2>3, <2>4, <2>5, <2>6, <2>7 DEF DeliveryStep
  <1>5. ASSUME NEW i \in Instances,
               \/ DeliveryFails(i) \/ ReconcileFails(i) \/ Crash(i)
               \/ \E j \in Jobs : Deliver(i, j)
        PROVE  FailureExplained'
    BY <1>2, <1>5 DEF DeliveryFails, MakeWorkDirFails, RunThrows, QueryFails, ReconcileFails,
                      Crash, Deliver
  <1>6. ASSUME NEW i \in Instances, ReconcileStep(i)
        PROVE  FailureExplained'
    <2>1. \/ UNCHANGED jobs
          \/ \E s \in recs[i].stale : \/ SetJob(s.job, FailRow(jobs[s.job], "retryable"))
                                      \/ SetJob(s.job, RecoverRow(jobs[s.job]))
      BY <1>6 DEF ReconcileStep, FindStaleProcessing, FailInterrupted, RecoverInterrupted,
                  ReenqueueRecovered, FindQueued, EnqueueQueued, ReconcileEnds
    <2>2. \A s \in recs[i].stale : s.job \in Jobs
      BY DEF Inv, RecsInv, Rec
    <2> QED
      BY <1>0, <1>1, <1>2, <2>1, <2>2, RowsExplained
  <1>7. CASE UNCHANGED vars
    BY <1>2, <1>7 DEF vars
  <1> QED
    BY <1>3, <1>4, <1>5, <1>6, <1>7 DEF Next

\* For any number of workers, jobs, pages and faults - lapses included - a job
\* that ended without a full result says why, and a COMPLETED one has no error.
THEOREM FailuresAreExplained == Spec => []FailureExplained
  <1>1. Init => FailureExplained
    BY DEF Init, FailureExplained, NewJob
  <1>2. Inv /\ Inv' /\ FailureExplained /\ [Next]_vars => FailureExplained'
    BY StepExplained
  <1> QED
    BY <1>1, <1>2, Invariance, PTL DEF Spec

-----------------------------------------------------------------------------
(* The attempt budget *)

\* What a delivery knows of the attempts is at most what the row says, since
\* attempts are never taken back; only one beyond the budget is exhausted.
SlotCounts(s, rows) ==
    s.pc # "idle" =>
        /\ s.att <= rows[s.job].attempts
        /\ s.pc = "exhausted" => s.att > MaxAttempts

\* The same for what a reconciler has read.
AttemptsInv ==
    /\ \A i \in Instances : SlotCounts(slots[i], jobs)
    /\ \A i \in Instances : \A s \in recs[i].stale : s.attempts <= jobs[s.job].attempts

\* Attempts are never taken back.
LEMMA AttemptsGrow ==
    ASSUME Inv, Inv', [Next]_vars, NEW j \in Jobs
    PROVE  jobs'[j].attempts >= jobs[j].attempts
  <1>1. jobs \in [Jobs -> JobRow] /\ jobs' \in [Jobs -> JobRow]
    BY DEF Inv, JobsInv
  <1>2. jobs[j].attempts \in Nat /\ jobs'[j].attempts \in Nat
    BY <1>1 DEF JobRow
  <1>3. CASE UNCHANGED <<jobs, pages>>
    BY <1>2, <1>3
  <1>4. ASSUME NEW k \in Jobs, NEW r \in JobRow, RowMove(jobs[k], r), SetJob(k, r)
        PROVE  jobs'[j].attempts >= jobs[j].attempts
    BY <1>1, <1>2, <1>4 DEF SetJob, RowMove
  <1>5. ASSUME NEW i \in Instances, NEW result \in {"ok", "failed"}, PersistPage(i, result)
        PROVE  jobs'[j].attempts >= jobs[j].attempts
    <2>1. PICK w \in Jobs : w = slots[i].job
      BY <1>5 DEF Inv, SlotsInv, SlotOK, PersistPage
    <2>2. PICK pg : SetJob(w, CountersRow(jobs[w], pg))
      BY <1>5, <2>1 DEF PersistPage
    <2>3. RowMove(jobs[w], CountersRow(jobs[w], pg))
      BY <1>1, RowMoves
    <2> QED
      BY <1>1, <1>2, <2>2, <2>3 DEF SetJob, RowMove
  <1>6. ASSUME NEW i \in Instances, Finalize(i)
        PROVE  jobs'[j].attempts >= jobs[j].attempts
    <2>1. PICK w \in Jobs : w = slots[i].job
      BY <1>6 DEF Inv, SlotsInv, SlotOK, Finalize
    <2>2. PICK t, d : SetJob(w, FinalizeRow(jobs[w], t, d))
      BY <1>6, <2>1 DEF Finalize
    <2>3. FinalizeRow(jobs[w], t, d).attempts = jobs[w].attempts
      BY <1>1 DEF FinalizeRow, JobRow
    <2> QED
      BY <1>1, <1>2, <2>2, <2>3 DEF SetJob
  <1> QED
    BY <1>3, <1>4, <1>5, <1>6, NextMoves DEF Moves

\* A slot starts with no count, keeps the one it has or reads the row's.
CountKept(i, s) ==
    \/ s.att = 0 /\ s.pc # "exhausted"
    \/ /\ slots[i].pc # "idle" /\ s.job = slots[i].job /\ s.att = slots[i].att
       /\ s.pc # "exhausted"
    \/ /\ s.job = slots[i].job /\ s.att = jobs[s.job].attempts
       /\ s.pc = "exhausted" => s.att > MaxAttempts

\* No step of a delivery, and no crash, does anything else to a slot.
LEMMA SlotReads ==
    ASSUME Inv, NEW i \in Instances,
           \/ \E j \in Jobs : Deliver(i, j)
           \/ DeliveryStep(i) \/ DeliveryFails(i) \/ Crash(i)
    PROVE  \E s : SetSlot(i, s) /\ CountKept(i, s)
  <1>1. slots \in [Instances -> Slot]
    BY DEF Inv, SlotsInv
  <1>2. \A o : Ended(i, o).att = 0 /\ Ended(i, o).pc = "settle"
    BY DEF Ended, Idle
  <1>3. ASSUME NEW o, SetSlot(i, Ended(i, o))
        PROVE  \E s : SetSlot(i, s) /\ CountKept(i, s)
    BY <1>2, <1>3 DEF CountKept
  <1>4. ASSUME NEW s, SetSlot(i, s), slots[i].pc # "idle", s.job = slots[i].job,
               s.att = slots[i].att, s.pc # "exhausted"
        PROVE  \E q : SetSlot(i, q) /\ CountKept(i, q)
    BY <1>4 DEF CountKept
  <1>5. ASSUME NEW j \in Jobs, Deliver(i, j)
        PROVE  \E s : SetSlot(i, s) /\ CountKept(i, s)
    <2> DEFINE s == [Idle EXCEPT !.pc = "find", !.job = j]
    <2>1. SetSlot(i, s) /\ s.att = 0 /\ s.pc = "find"
      BY <1>5 DEF Deliver, Idle
    <2> QED
      BY <2>1 DEF CountKept
  <1>6. CASE \/ FailExhausted(i) \/ CancelJob(i) \/ Finalize(i) \/ HandleFailure(i)
             \/ MakeWorkDirFails(i) \/ QueryFails(i)
    BY <1>3, <1>6 DEF FailExhausted, CancelJob, Finalize, HandleFailure, MakeWorkDirFails,
                      QueryFails
  <1>7. CASE Settle(i) \/ Crash(i)
    <2>1. SetSlot(i, Idle) /\ Idle.att = 0 /\ Idle.pc = "idle"
      BY <1>7 DEF Settle, Crash, Idle
    <2> QED
      BY <2>1 DEF CountKept
  <1>8. CASE RereadJob(i)
    <2>1. PICK a : a = jobs[slots[i].job].attempts
      OBVIOUS
    <2>2. PICK s : s = [slots[i] EXCEPT !.pc = IF a > MaxAttempts THEN "exhausted" ELSE "mkdtemp",
                                        !.att = a]
      OBVIOUS
    <2>3. SetSlot(i, s)
      BY <1>8, <2>1, <2>2 DEF RereadJob
    <2>4. /\ s.job = slots[i].job /\ s.att = a
          /\ s.pc = IF a > MaxAttempts THEN "exhausted" ELSE "mkdtemp"
      BY <1>1, <2>2 DEF Slot
    <2>5. CountKept(i, s)
      BY <2>1, <2>4 DEF CountKept
    <2> QED
      BY <2>3, <2>5
  <1>9. CASE \/ FindJob(i) \/ ClaimJob(i) \/ MakeWorkDir(i) \/ LoadDocument(i)
             \/ FetchAndInspect(i) \/ SetTotalPages(i)
    <2>1. ASSUME NEW p \in {"claim", "reread", "load", "fetch", "cancel", "total", "progress"},
                 SetSlot(i, [slots[i] EXCEPT !.pc = p]), slots[i].pc # "idle"
          PROVE  \E s : SetSlot(i, s) /\ CountKept(i, s)
      <3>1. PICK s : s = [slots[i] EXCEPT !.pc = p]
        OBVIOUS
      <3>2. s.job = slots[i].job /\ s.att = slots[i].att /\ s.pc = p
        BY <1>1, <3>1 DEF Slot
      <3> QED
        BY <1>4, <2>1, <3>1, <3>2
    <2> QED
      BY <1>3, <1>9, <2>1 DEF FindJob, ClaimJob, MakeWorkDir, LoadDocument, FetchAndInspect,
                              SetTotalPages
  <1>10. CASE ReadProgress(i)
    <2>1. PICK s : s = [slots[i] EXCEPT !.pc = "page",
                                        !.next = LastPage(pages[slots[i].job]) + 1]
      OBVIOUS
    <2>2. s.job = slots[i].job /\ s.att = slots[i].att /\ s.pc = "page"
      BY <1>1, <2>1 DEF Slot
    <2>3. SetSlot(i, s) /\ slots[i].pc # "idle"
      BY <1>10, <2>1 DEF ReadProgress
    <2> QED
      BY <1>4, <2>2, <2>3
  <1>11. CASE ReadTally(i)
    <2>1. PICK s : s = [slots[i] EXCEPT !.pc = "finalize", !.tally = Tally(pages[slots[i].job])]
      OBVIOUS
    <2>2. s.job = slots[i].job /\ s.att = slots[i].att /\ s.pc = "finalize"
      BY <1>1, <2>1 DEF Slot
    <2>3. SetSlot(i, s) /\ slots[i].pc # "idle"
      BY <1>11, <2>1 DEF ReadTally
    <2> QED
      BY <1>4, <2>2, <2>3
  <1>12. ASSUME NEW result \in {"ok", "failed"}, PersistPage(i, result)
         PROVE  \E s : SetSlot(i, s) /\ CountKept(i, s)
    <2>1. PICK s : s = [slots[i] EXCEPT !.next = @ + 1]
      OBVIOUS
    <2>2. s.job = slots[i].job /\ s.att = slots[i].att /\ s.pc = slots[i].pc
      BY <1>1, <2>1 DEF Slot
    <2>3. SetSlot(i, s) /\ slots[i].pc = "page"
      BY <1>12, <2>1 DEF PersistPage
    <2> QED
      BY <1>4, <2>2, <2>3
  <1>13. ASSUME NEW err \in RunError, RunThrows(i, err)
         PROVE  \E s : SetSlot(i, s) /\ CountKept(i, s)
    <2>1. PICK s : s = [slots[i] EXCEPT !.pc = "handle", !.err = err, !.next = 0,
                                        !.tally = Idle.tally]
      OBVIOUS
    <2>2. s.job = slots[i].job /\ s.att = slots[i].att /\ s.pc = "handle"
      BY <1>1, <2>1 DEF Slot
    <2>3. SetSlot(i, s) /\ slots[i].pc # "idle"
      BY <1>13, <2>1 DEF RunThrows, RunPc
    <2> QED
      BY <1>4, <2>2, <2>3
  <1> QED
    BY <1>5, <1>6, <1>7, <1>8, <1>9, <1>10, <1>11, <1>12,
       <1>13 DEF DeliveryStep, DeliveryFails

\* Only FindStaleProcessing adds to what a reconciler has read.
LEMMA RecReads ==
    ASSUME Inv, [Next]_vars, NEW i \in Instances, ~FindStaleProcessing(i)
    PROVE  recs'[i].stale \subseteq recs[i].stale
  <1>1. recs \in [Instances -> Rec]
    BY DEF Inv, RecsInv
  <1>2. ASSUME NEW k \in Instances, NEW q, SetRec(k, q), q.stale \subseteq recs[k].stale
        PROVE  recs'[i].stale \subseteq recs[i].stale
    BY <1>1, <1>2 DEF SetRec
  <1>3. NotReconciling.stale = {}
    BY DEF NotReconciling
  <1>4. CASE UNCHANGED recs
    BY <1>4
  <1>5. ASSUME NEW k \in Instances, ReconcileStep(k)
        PROVE  recs'[i].stale \subseteq recs[i].stale
    <2>1. CASE FindStaleProcessing(k)
      BY <1>1, <2>1 DEF FindStaleProcessing, SetRec
    <2>2. ASSUME NEW s \in recs[k].stale, FailInterrupted(k, s) \/ RecoverInterrupted(k, s)
          PROVE  recs'[i].stale \subseteq recs[i].stale
      <3>1. PICK q : SetRec(k, q) /\ (\/ q = [recs[k] EXCEPT !.stale = @ \ {s}]
                                      \/ q = [recs[k] EXCEPT !.pc = "reenqueue",
                                                             !.stale = recs[k].stale \ {s},
                                                             !.cur = s.job]
                                      \/ q = [recs[k] EXCEPT !.stale = recs[k].stale \ {s}])
        BY <2>2 DEF FailInterrupted, RecoverInterrupted
      <3>2. q.stale \subseteq recs[k].stale
        BY <1>1, <3>1 DEF Rec
      <3> QED
        BY <1>2, <3>1, <3>2
    <2>3. CASE ReenqueueRecovered(k)
      <3>1. PICK q : SetRec(k, q) /\ q = [recs[k] EXCEPT !.pc = "stale", !.cur = NoJob]
        BY <2>3 DEF ReenqueueRecovered
      <3>2. q.stale \subseteq recs[k].stale
        BY <1>1, <3>1 DEF Rec
      <3> QED
        BY <1>2, <3>1, <3>2
    <2>4. CASE FindQueued(k)
      <3>1. PICK q : SetRec(k, q) /\ \E J : q = [recs[k] EXCEPT !.pc = "queued", !.queued = J]
        BY <2>4 DEF FindQueued
      <3>2. q.stale \subseteq recs[k].stale
        BY <1>1, <3>1 DEF Rec
      <3> QED
        BY <1>2, <3>1, <3>2
    <2>5. ASSUME NEW j \in recs[k].queued, EnqueueQueued(k, j)
          PROVE  recs'[i].stale \subseteq recs[i].stale
      <3>1. PICK q : SetRec(k, q) /\ q = [recs[k] EXCEPT !.queued = @ \ {j}]
        BY <2>5 DEF EnqueueQueued
      <3>2. q.stale \subseteq recs[k].stale
        BY <1>1, <3>1 DEF Rec
      <3> QED
        BY <1>2, <3>1, <3>2
    <2>6. CASE ReconcileEnds(k)
      BY <1>2, <1>3, <2>6 DEF ReconcileEnds
    <2> QED
      BY <1>5, <2>1, <2>2, <2>3, <2>4, <2>5, <2>6 DEF ReconcileStep
  <1>6. ASSUME NEW k \in Instances, ReconcileFails(k) \/ Crash(k)
        PROVE  recs'[i].stale \subseteq recs[i].stale
    BY <1>2, <1>3, <1>6 DEF ReconcileFails, Crash
  <1>7. ASSUME NEW j \in Jobs, Api(j) \/ Time(j) \/ LoseEntry(j)
        PROVE  UNCHANGED recs
    BY <1>7 DEF Api, Schedule, ScheduleFails, DeleteDocument, Time, Heartbeat,
                HeartbeatExpires, HeartbeatLapses, LockExpires, LockLapses, BackoffEnds,
                LoseEntry
  <1>8. ASSUME NEW k \in Instances,
               \/ \E j \in Jobs : Deliver(k, j)
               \/ DeliveryStep(k) \/ DeliveryFails(k)
        PROVE  UNCHANGED recs
    BY <1>8 DEF Deliver, DeliveryStep, DeliveryFails, FindJob, ClaimJob, RereadJob,
                FailExhausted, MakeWorkDir, LoadDocument, CancelJob, FetchAndInspect,
                SetTotalPages, ReadProgress, PersistPage, ReadTally, Finalize,
                HandleFailure, Settle, MakeWorkDirFails, RunThrows, QueryFails
  <1> QED
    BY <1>4, <1>5, <1>6, <1>7, <1>8 DEF Next, vars

\* Every step keeps the counts below the rows'.
LEMMA NextAttempts ==
    ASSUME Inv, Inv', AttemptsInv, [Next]_vars
    PROVE  AttemptsInv'
  <1>1. /\ slots \in [Instances -> Slot] /\ slots' \in [Instances -> Slot]
        /\ jobs \in [Jobs -> JobRow] /\ jobs' \in [Jobs -> JobRow]
        /\ recs \in [Instances -> Rec] /\ recs' \in [Instances -> Rec]
    BY DEF Inv, SlotsInv, JobsInv, RecsInv
  <1>2. \A j \in Jobs : /\ jobs[j].attempts \in Nat /\ jobs'[j].attempts \in Nat
                        /\ jobs'[j].attempts >= jobs[j].attempts
    BY <1>1, AttemptsGrow DEF JobRow
  <1>3. ASSUME NEW i \in Instances
        PROVE  SlotCounts(slots'[i], jobs')
    <2>1. slots'[i].pc # "idle" => slots'[i].job \in Jobs
      BY DEF Inv, SlotsInv, SlotOK
    <2>2. slots[i].att \in Nat /\ slots'[i].att \in Nat
      BY <1>1 DEF Slot
    <2>3. CASE slots'[i] = slots[i]
      BY <1>2, <2>1, <2>2, <2>3 DEF AttemptsInv, SlotCounts
    <2>4. CASE \E s : SetSlot(i, s) /\ CountKept(i, s)
      <3>1. CountKept(i, slots'[i])
        BY <1>1, <2>4 DEF SetSlot
      <3> QED
        BY <1>2, <2>1, <2>2, <3>1 DEF CountKept, AttemptsInv, SlotCounts
    <2>5. ASSUME NEW k \in Instances,
                 \/ \E j \in Jobs : Deliver(k, j)
                 \/ DeliveryStep(k) \/ DeliveryFails(k) \/ Crash(k)
          PROVE  slots'[i] = slots[i] \/ \E s : SetSlot(i, s) /\ CountKept(i, s)
      <3>1. PICK s : SetSlot(k, s) /\ CountKept(k, s)
        BY <2>5, SlotReads
      <3>2. k # i => slots'[i] = slots[i]
        BY <1>1, <3>1 DEF SetSlot
      <3> QED
        BY <3>1, <3>2
    <2>6. ASSUME NEW k \in Instances, ReconcileStep(k) \/ ReconcileFails(k)
          PROVE  UNCHANGED slots
      BY <2>6 DEF ReconcileStep, ReconcileFails, FindStaleProcessing, FailInterrupted,
                  RecoverInterrupted, ReenqueueRecovered, FindQueued, EnqueueQueued,
                  ReconcileEnds
    <2>7. ASSUME NEW j \in Jobs, Api(j) \/ Time(j) \/ LoseEntry(j)
          PROVE  UNCHANGED slots
      BY <2>7 DEF Api, Schedule, ScheduleFails, DeleteDocument, Time, Heartbeat,
                  HeartbeatExpires, HeartbeatLapses, LockExpires, LockLapses, BackoffEnds,
                  LoseEntry
    <2> QED
      BY <2>3, <2>4, <2>5, <2>6, <2>7 DEF Next, vars
  <1>4. ASSUME NEW i \in Instances, NEW s \in recs'[i].stale
        PROVE  s.attempts <= jobs'[s.job].attempts
    <2>1. s.job \in Jobs /\ s.attempts \in Nat
      BY <1>1 DEF Rec
    <2>2. CASE FindStaleProcessing(i)
      <3>1. PICK q : /\ SetRec(i, q)
                     /\ q = [recs[i] EXCEPT
                               !.pc = "stale",
                               !.stale = {[job |-> j, attempts |-> jobs[j].attempts] :
                                            j \in {k \in Jobs : Stale(jobs[k])}}]
        BY <2>2 DEF FindStaleProcessing
      <3>2. q.stale = {[job |-> j, attempts |-> jobs[j].attempts] :
                          j \in {k \in Jobs : Stale(jobs[k])}}
        BY <1>1, <3>1 DEF Rec
      <3>3. recs'[i] = q
        BY <1>1, <3>1 DEF SetRec
      <3>4. s.attempts = jobs[s.job].attempts
        BY <3>2, <3>3
      <3> QED
        BY <1>2, <2>1, <3>4
    <2>3. CASE ~FindStaleProcessing(i)
      <3>1. s \in recs[i].stale
        BY <2>3, RecReads
      <3> QED
        BY <1>2, <2>1, <3>1 DEF AttemptsInv
    <2> QED
      BY <2>2, <2>3
  <1> QED
    BY <1>3, <1>4 DEF AttemptsInv

\* No other statement makes an active job FAILED.
LEMMA OnlyFailFails ==
    ASSUME NEW r \in JobRow, r.status \in ActiveStatus
    PROVE  /\ ClaimRow(r).status # "FAILED"
           /\ HeartbeatRow(r).status # "FAILED"
           /\ RecoverRow(r).status # "FAILED"
           /\ [r EXCEPT !.fresh = FALSE].status # "FAILED"
           /\ \A code : /\ RequeueRow(r, code).status # "FAILED"
                        /\ CancelRow(r, code).status # "FAILED"
           /\ \A m : TotalPagesRow(r, m).status # "FAILED"
           /\ \A pg : CountersRow(r, pg).status # "FAILED"
  BY DEF ClaimRow, HeartbeatRow, RecoverRow, RequeueRow, CancelRow, TotalPagesRow,
         CountersRow, ActiveStatus, JobRow

\* The step of AttemptsUsedUp.
LEMMA StepUsesUp ==
    ASSUME Inv, AttemptsInv, [Next]_vars, NEW j \in Jobs,
           jobs[j].status \in ActiveStatus, jobs'[j].status = "FAILED"
    PROVE  MayGiveUp(j)
  <1>1. /\ jobs \in [Jobs -> JobRow] /\ jobs[j] \in JobRow /\ jobs[j].attempts \in Nat
        /\ jobs' # jobs
    BY DEF Inv, JobsInv, JobRow, ActiveStatus
  <1>2. ASSUME NEW w \in Jobs, NEW r, SetJob(w, r)
        PROVE  w = j /\ r.status = "FAILED"
    BY <1>1, <1>2 DEF SetJob, ActiveStatus
  <1>3. ASSUME NEW i \in Instances, slots[i].pc # "idle"
        PROVE  /\ slots[i].job \in Jobs
               /\ slots[i].att \in Nat /\ slots[i].att <= jobs[slots[i].job].attempts
               /\ slots[i].pc = "exhausted" => slots[i].att > MaxAttempts
    BY <1>3 DEF Inv, SlotsInv, SlotOK, Slot, AttemptsInv, SlotCounts
  <1>4. ASSUME NEW k \in Jobs, Api(k) \/ Time(k) \/ LoseEntry(k)
        PROVE  FALSE
    <2>1. CASE \/ Api(k) \/ LoseEntry(k) \/ LockExpires(k) \/ LockLapses(k)
               \/ BackoffEnds(k)
      BY <1>1, <2>1 DEF Api, Schedule, ScheduleFails, DeleteDocument, LoseEntry,
                        LockExpires, LockLapses, BackoffEnds
    <2>2. CASE \/ \E i \in Instances : Heartbeat(i, k)
               \/ HeartbeatExpires(k) \/ HeartbeatLapses(k)
      <3>1. PICK r \in {HeartbeatRow(jobs[k]), [jobs[k] EXCEPT !.fresh = FALSE]} : SetJob(k, r)
        BY <2>2 DEF Heartbeat, HeartbeatExpires, HeartbeatLapses
      <3> QED
        BY <1>1, <1>2, <3>1, OnlyFailFails
    <2> QED
      BY <1>4, <2>1, <2>2 DEF Time
  <1>5. ASSUME NEW i \in Instances, DeliveryStep(i)
        PROVE  MayGiveUp(j)
    <2>1. CASE \/ FindJob(i) \/ RereadJob(i) \/ MakeWorkDir(i) \/ LoadDocument(i)
               \/ FetchAndInspect(i) \/ ReadProgress(i) \/ ReadTally(i) \/ Settle(i)
      BY <1>1, <2>1 DEF FindJob, RereadJob, MakeWorkDir, LoadDocument, FetchAndInspect,
                        ReadProgress, ReadTally, Settle
    <2>2. CASE \/ ClaimJob(i) \/ CancelJob(i) \/ SetTotalPages(i)
               \/ \E result \in {"ok", "failed"} : PersistPage(i, result)
      <3>1. PICK w \in Jobs : w = slots[i].job
        BY <1>3, <2>2 DEF ClaimJob, CancelJob, SetTotalPages, PersistPage
      <3>2. PICK r : /\ SetJob(w, r)
                     /\ \/ r = ClaimRow(jobs[w])
                        \/ r = CancelRow(jobs[w], "permanent")
                        \/ \E m : r = TotalPagesRow(jobs[w], m)
                        \/ \E pg : r = CountersRow(jobs[w], pg)
        BY <2>2, <3>1 DEF ClaimJob, CancelJob, SetTotalPages, PersistPage
      <3> QED
        BY <1>1, <1>2, <3>2, OnlyFailFails
    <2>3. CASE FailExhausted(i)
      <3>1. slots[i].job = j /\ slots[i].pc = "exhausted"
        BY <1>2, <1>3, <2>3 DEF FailExhausted
      <3> QED
        BY <1>1, <1>3, <3>1, AttemptsAssumption DEF MayGiveUp
    <2>4. CASE Finalize(i)
      <3>1. slots[i].pc = "finalize" /\ slots[i].job \in Jobs
        BY <1>3, <2>4 DEF Finalize
      <3>2. PICK d : SetJob(slots[i].job, FinalizeRow(jobs[slots[i].job], slots[i].tally, d))
        BY <2>4 DEF Finalize
      <3>3. /\ slots[i].job = j
            /\ FinalizeRow(jobs[j], slots[i].tally, d).status = "FAILED"
        BY <1>2, <3>1, <3>2
      <3>4. Verdict(slots[i].tally) = "FAILED"
        BY <1>1, <3>3 DEF FinalizeRow, JobRow, ActiveStatus
      <3>5. slots[i].tally.all = PageCount[j] /\ PageCount[j] \in Nat \ {0}
        BY <3>1, <3>3, PageCountAssumption DEF Inv, SlotsInv, SlotOK
      <3>6. slots[i].tally.failed = PageCount[j]
        BY <3>4, <3>5 DEF Verdict
      <3> QED
        BY <3>1, <3>3, <3>6 DEF MayGiveUp, FailsForGood
    <2>5. CASE HandleFailure(i)
      <3>1. slots[i].pc = "handle" /\ slots[i].job \in Jobs
        BY <1>3, <2>5 DEF HandleFailure
      <3>2. slots[i].job = j
        BY <1>2, <2>5, <3>1 DEF HandleFailure
      <3>3. CASE slots[i].err # "transient"
        BY <3>1, <3>2, <3>3 DEF MayGiveUp, FailsForGood
      <3>4. CASE slots[i].err = "transient" /\ slots[i].att >= MaxAttempts
        BY <1>1, <1>3, <3>1, <3>2, <3>4, AttemptsAssumption DEF MayGiveUp, AttemptOver
      <3>5. CASE slots[i].err = "transient" /\ ~(slots[i].att >= MaxAttempts)
        <4>1. SetJob(j, RequeueRow(jobs[j], Code(slots[i].err)))
          BY <2>5, <3>2, <3>5 DEF HandleFailure
        <4> QED
          BY <1>1, <1>2, <4>1, OnlyFailFails
      <3> QED
        BY <3>3, <3>4, <3>5
    <2> QED
      BY <1>5, <2>1, <2>2, <2>3, <2>4, <2>5 DEF DeliveryStep
  <1>6. ASSUME NEW i \in Instances,
               \/ DeliveryFails(i) \/ ReconcileFails(i) \/ Crash(i)
               \/ \E k \in Jobs : Deliver(i, k)
        PROVE  FALSE
    BY <1>1, <1>6 DEF DeliveryFails, MakeWorkDirFails, RunThrows, QueryFails,
                      ReconcileFails, Crash, Deliver
  <1>7. ASSUME NEW i \in Instances, ReconcileStep(i)
        PROVE  MayGiveUp(j)
    <2>1. ASSUME NEW s \in recs[i].stale
          PROVE  /\ s.job \in Jobs /\ s.attempts \in Nat
                 /\ s.attempts <= jobs[s.job].attempts
      BY <2>1 DEF Inv, RecsInv, Rec, AttemptsInv
    <2>2. ASSUME NEW s \in recs[i].stale, FailInterrupted(i, s)
          PROVE  MayGiveUp(j)
      <3>1. s.job = j /\ s.attempts >= MaxAttempts
        BY <1>2, <2>1, <2>2 DEF FailInterrupted
      <3> QED
        BY <1>1, <2>1, <3>1, AttemptsAssumption DEF MayGiveUp, AttemptOver
    <2>3. ASSUME NEW s \in recs[i].stale, RecoverInterrupted(i, s)
          PROVE  FALSE
      BY <1>1, <1>2, <2>1, <2>3, OnlyFailFails DEF RecoverInterrupted
    <2> QED
      BY <1>1, <1>7, <2>2, <2>3 DEF ReconcileStep, FindStaleProcessing, ReenqueueRecovered,
                                    FindQueued, EnqueueQueued, ReconcileEnds
  <1>8. CASE UNCHANGED vars
    BY <1>1, <1>8 DEF vars
  <1> QED
    BY <1>4, <1>5, <1>6, <1>7, <1>8 DEF Next

\* For any number of workers, reconcilers, jobs, attempts and faults - lapses
\* included - no job is given up for its attempts before the last of them is over.
THEOREM NoJobGivenUpEarly == Spec => AttemptsUsedUp
  <1>1. Init => AttemptsInv
    BY DEF Init, AttemptsInv, SlotCounts, Idle, NotReconciling
  <1>2. Inv /\ Inv' /\ AttemptsInv /\ [Next]_vars => AttemptsInv'
    BY NextAttempts
  <1>3. Inv /\ AttemptsInv /\ [Next]_vars =>
            [\A j \in Jobs :
                jobs[j].status \in ActiveStatus /\ jobs'[j].status = "FAILED" =>
                    MayGiveUp(j)]_vars
    BY StepUsesUp
  <1> QED
    BY <1>1, <1>2, <1>3, Invariance, PTL DEF Spec, AttemptsUsedUp

=============================================================================
