------------------------- MODULE OcrRequestsProofs -------------------------
(***************************************************************************)
(* What the advisory lock of a document buys, for any number of documents, *)
(* users, languages and concurrent requests.  The argument: a handler      *)
(* between the start of its transaction and its end holds the lock of its  *)
(* document (LockInv); once its policy check has passed, the document has  *)
(* no active job, so no worker can move one of its jobs, and no other      *)
(* handler can insert one: the history is frozen until the insert, and     *)
(* what was checked of it (ChecksInv) still holds then.                    *)
(*                                                                         *)
(* The language cache only delays requests: every step of OcrLanguages is  *)
(* a step of OcrRequests or leaves its variables alone, so that what is    *)
(* proved of OcrRequests holds with the cache as well.  Besides, for any   *)
(* configuration and whatever the probes find: no job gets a language that *)
(* is not configured, and resolve leaves the language list of every job as *)
(* it is.                                                                  *)
(***************************************************************************)
EXTENDS OcrLanguages, InductionLemmas, FiniteSetTheorems, SequenceTheorems

Holds(h) == handlers[h].pc \in {"policy", "quota", "insert"}

Checked(h) == handlers[h].pc \in {"quota", "insert"}

\* No two transactions of a document overlap: each holds the document's lock.
LockInv ==
    /\ \A h \in Handlers : handlers[h].pc # "idle" => handlers[h].doc \in Docs
    /\ \A h \in Handlers : Holds(h) => lock[handlers[h].doc] = h

\* The language of the job to be inserted is known.
LangInv ==
    \A h \in Handlers :
        \/ handlers[h].pc = "idle"
        \/ handlers[h].op = "retry" /\ ~Checked(h)
        \/ handlers[h].lang \in Langs

\* What a request relies on when it inserts its row.
Approved(h) ==
    LET d == handlers[h].doc
    IN  /\ handlers[h].op = "request" => handlers[h].force \/ ~HasResult(d, handlers[h].lang)
        /\ handlers[h].op = "retry" =>
              Retryable(d) /\ handlers[h].lang = history[d][Len(history[d])].lang

ChecksInv ==
    \A h \in Handlers :
        /\ Checked(h) => ~HasActive(handlers[h].doc) /\ Approved(h)
        /\ handlers[h].pc = "insert" => Len(history[handlers[h].doc]) < MaxJobsPerDocument

Inv == TypeOK /\ LockInv /\ LangInv /\ OnlyLatestActive /\ DocumentQuota /\ ChecksInv

-----------------------------------------------------------------------------
(* Steps that leave the history alone *)

\* A step of handler h that changes at most h and the lock of its document
\* preserves what the other handlers rely on.
LEMMA QuietStep ==
    ASSUME Inv, history' = history, handlers' \in [Handlers -> Handler],
           lock' \in [Docs -> Handlers \union {NoHandler}], deleted' \subseteq Docs,
           LockInv', LangInv',
           \A h \in Handlers : Checked(h)' =>
               \/ Checked(h) /\ handlers'[h].doc = handlers[h].doc
                             /\ handlers'[h].op = handlers[h].op
                             /\ handlers'[h].lang = handlers[h].lang
                             /\ handlers'[h].force = handlers[h].force
               \/ ~HasActive(handlers'[h].doc) /\ Approved(h)',
           \A h \in Handlers : handlers'[h].pc = "insert" =>
               Len(history[handlers'[h].doc]) < MaxJobsPerDocument
    PROVE  Inv'
  <1>1. TypeOK' /\ OnlyLatestActive' /\ DocumentQuota'
    BY DEF Inv, TypeOK, OnlyLatestActive, DocumentQuota
  <1>2. ASSUME NEW h \in Handlers, Checked(h)'
        PROVE  (~HasActive(handlers[h].doc))' /\ Approved(h)'
    <2>1. CASE /\ Checked(h) /\ handlers'[h].doc = handlers[h].doc
               /\ handlers'[h].op = handlers[h].op
               /\ handlers'[h].lang = handlers[h].lang
               /\ handlers'[h].force = handlers[h].force
      BY <2>1 DEF Inv, ChecksInv, Approved, HasActive, HasResult, Retryable
    <2>2. CASE ~HasActive(handlers'[h].doc) /\ Approved(h)'
      BY <2>2 DEF HasActive
    <2>3. QED
      BY <1>2, <2>1, <2>2
  <1>3. ChecksInv'
    BY <1>2 DEF ChecksInv
  <1>4. QED
    BY <1>1, <1>3 DEF Inv

-----------------------------------------------------------------------------
(* The steps of a handler *)

\* Handlers that start, that wait, that are refused and that give up.
LEMMA WaitingSteps ==
    ASSUME Inv, NEW h \in Handlers,
           \/ \E d \in Docs, l \in Langs, f \in BOOLEAN : BeginRequest(h, d, l, f)
           \/ \E d \in Docs : BeginRetry(h, d)
           \/ AcquireLock(h)
           \/ Abort(h)
           \/ UNCHANGED <<history, deleted>> /\ EndTransaction(h) /\ Holds(h)
    PROVE  Inv'
  <1> DEFINE Begun(q) == /\ q \in Handler
                         /\ handlers' = [handlers EXCEPT ![h] = q]
                         /\ q.pc \in {"idle", "lock", "policy"}
                         /\ q.pc # "idle" => q.doc \in Docs
                         /\ q.pc = "idle" \/ q.op = "retry" \/ q.lang \in Langs
                         /\ q.pc = "policy" => lock'[q.doc] = h
  <1> DEFINE Locks == \/ lock' = lock
                      \/ /\ handlers[h].doc \in Docs /\ lock[handlers[h].doc] \in {h, NoHandler}
                         /\ \E x \in Handlers \union {NoHandler} :
                               lock' = [lock EXCEPT ![handlers[h].doc] = x]
  <1>1. (\E q : Begun(q)) /\ Locks /\ history' = history /\ deleted' = deleted
    <2>1. IdleHandler \in Handler /\ IdleHandler.pc = "idle"
      BY DEF Handler, IdleHandler
    <2>2. CASE \E d \in Docs, l \in Langs, f \in BOOLEAN : BeginRequest(h, d, l, f)
      <3>1. PICK d \in Docs, l \in Langs, f \in BOOLEAN : BeginRequest(h, d, l, f)
        BY <2>2
      <3>2. Begun([pc |-> "lock", op |-> "request", doc |-> d, lang |-> l, force |-> f])
        BY <3>1 DEF BeginRequest, Handler
      <3>3. QED
        BY <3>1, <3>2 DEF BeginRequest
    <2>3. CASE \E d \in Docs : BeginRetry(h, d)
      <3>1. PICK d \in Docs : BeginRetry(h, d)
        BY <2>3
      <3>2. Begun([IdleHandler EXCEPT !.pc = "lock", !.op = "retry", !.doc = d])
        BY <3>1 DEF BeginRetry, Handler, IdleHandler
      <3>3. QED
        BY <3>1, <3>2 DEF BeginRetry
    <2>4. CASE AcquireLock(h)
      <3>1. handlers[h] \in Handler /\ handlers[h].pc = "lock" /\ handlers[h].doc \in Docs
        BY <2>4 DEF AcquireLock, Inv, TypeOK, LockInv
      <3>2. handlers[h].op = "retry" \/ handlers[h].lang \in Langs
        BY <3>1 DEF Inv, LangInv
      <3>3. lock' = [lock EXCEPT ![handlers[h].doc] = h] /\ lock[handlers[h].doc] = NoHandler
        BY <2>4 DEF AcquireLock
      <3>4. Begun([handlers[h] EXCEPT !.pc = "policy"])
        BY <2>4, <3>1, <3>2, <3>3 DEF AcquireLock, Handler, Inv, TypeOK
      <3>5. QED
        BY <2>4, <3>1, <3>3, <3>4 DEF AcquireLock
    <2>5. CASE Abort(h)
      <3>1. handlers[h].doc \in Docs
        BY <2>5 DEF Abort, Inv, LockInv
      <3>2. Begun(IdleHandler)
        BY <2>1, <2>5 DEF Abort
      <3>3. Locks
        BY <2>5, <3>1 DEF Abort, Inv, TypeOK
      <3>4. QED
        BY <2>5, <3>2, <3>3 DEF Abort
    <2>6. CASE UNCHANGED <<history, deleted>> /\ EndTransaction(h) /\ Holds(h)
      <3>1. handlers[h].doc \in Docs /\ lock[handlers[h].doc] = h
        BY <2>6 DEF Inv, LockInv, Holds
      <3>2. Begun(IdleHandler)
        BY <2>1, <2>6 DEF EndTransaction
      <3>3. QED
        BY <2>6, <3>1, <3>2 DEF EndTransaction
    <2>7. QED
      BY <2>2, <2>3, <2>4, <2>5, <2>6
  <1>2. PICK q : Begun(q)
    BY <1>1
  <1>3. /\ handlers' \in [Handlers -> Handler] /\ handlers'[h] = q
        /\ \A g \in Handlers : g # h => handlers'[g] = handlers[g]
    BY <1>2 DEF Inv, TypeOK
  <1>4. lock' \in [Docs -> Handlers \union {NoHandler}]
    BY <1>1 DEF Inv, TypeOK
  <1>5. ASSUME NEW g \in Handlers, Holds(g)'
        PROVE  lock'[handlers'[g].doc] = g
    <2>1. CASE g = h
      BY <2>1, <1>2, <1>3, <1>5 DEF Holds
    <2>2. CASE g # h
      <3>1. handlers[g].doc \in Docs /\ lock[handlers[g].doc] = g
        BY <2>2, <1>3, <1>5 DEF Inv, LockInv, Holds
      <3>2. lock'[handlers[g].doc] = g
        BY <2>2, <3>1, <1>1, RequestsAssumption DEF Inv, TypeOK
      <3>3. QED
        BY <2>2, <3>2, <1>3
    <2>3. QED
      BY <2>1, <2>2
  <1>6. LockInv'
    BY <1>2, <1>3, <1>5 DEF Inv, LockInv
  <1>7. LangInv'
    BY <1>2, <1>3 DEF Inv, LangInv, Checked
  <1>8. \A g \in Handlers : Checked(g)' => Checked(g) /\ handlers'[g] = handlers[g]
    BY <1>2, <1>3 DEF Checked
  <1>9. \A g \in Handlers : handlers'[g].pc = "insert" =>
            Len(history[handlers'[g].doc]) < MaxJobsPerDocument
    BY <1>2, <1>3 DEF Inv, ChecksInv
  <1>10. deleted' \subseteq Docs
    BY <1>1 DEF Inv, TypeOK
  <1>11. QED
    BY <1>1, <1>3, <1>4, <1>6, <1>7, <1>8, <1>9, <1>10, QuietStep

\* The duplicate-job policy of request.
LEMMA CheckRequestStep ==
    ASSUME Inv, NEW h \in Handlers, CheckRequest(h)
    PROVE  Inv'
  <1> DEFINE d == handlers[h].doc
  <1>1. CASE HasActive(d) \/ (~handlers[h].force /\ HasResult(d, handlers[h].lang))
    BY <1>1, WaitingSteps DEF CheckRequest, Holds
  <1>2. CASE ~(HasActive(d) \/ (~handlers[h].force /\ HasResult(d, handlers[h].lang)))
    <2>1. /\ handlers[h].pc = "policy" /\ handlers[h].op = "request"
          /\ handlers' = [handlers EXCEPT ![h].pc = "quota"]
          /\ UNCHANGED <<lock, history, deleted>>
      BY <1>2 DEF CheckRequest
    <2>2. handlers' \in [Handlers -> Handler]
      BY <2>1 DEF Inv, TypeOK, Handler
    <2>3. \A g \in Handlers : g # h => handlers'[g] = handlers[g]
      BY <2>1 DEF Inv, TypeOK
    <2>4. /\ handlers'[h].pc = "quota" /\ handlers'[h].doc = d
          /\ handlers'[h].op = "request" /\ handlers'[h].lang = handlers[h].lang
          /\ handlers'[h].force = handlers[h].force
      BY <2>1 DEF Inv, TypeOK, Handler
    <2>5. LockInv' /\ LangInv'
      BY <2>1, <2>3, <2>4 DEF Inv, LockInv, LangInv, Holds, Checked
    <2>6. Approved(h)'
      BY <1>2, <2>1, <2>4 DEF Approved, HasResult
    <2>7. QED
      BY <1>2, <2>1, <2>2, <2>3, <2>4, <2>5, <2>6, QuietStep
      DEF Inv, TypeOK, Checked, ChecksInv
  <1>3. QED
    BY <1>1, <1>2

\* The eligibility check of retry: the latest job is terminal, hence all are.
LEMMA CheckRetryStep ==
    ASSUME Inv, NEW h \in Handlers, CheckRetry(h)
    PROVE  Inv'
  <1> DEFINE d == handlers[h].doc
             last == history[d][Len(history[d])]
  <1>1. CASE ~Retryable(d)
    BY <1>1, WaitingSteps DEF CheckRetry, Holds
  <1>2. CASE Retryable(d)
    <2>1. /\ handlers[h].pc = "policy" /\ handlers[h].op = "retry"
          /\ handlers' = [handlers EXCEPT ![h].pc = "quota", ![h].lang = last.lang]
          /\ UNCHANGED <<lock, history, deleted>>
      BY <1>2 DEF CheckRetry
    <2>2. d \in Docs
      BY <2>1 DEF Inv, LockInv
    <2>3. history[d] \in Seq(Job) /\ history[d] # <<>>
      BY <1>2, <2>2 DEF Inv, TypeOK, Retryable
    <2>4. Len(history[d]) \in Nat \ {0}
      BY <2>3, EmptySeq
    <2>5. last \in Job
      BY <2>3, <2>4, ElementOfSeq
    <2>6. ~HasActive(d)
      <3>1. ~IsActive(last)
        BY <1>2 DEF Retryable, IsActive, Active
      <3>2. ASSUME NEW k \in 1..Len(history[d])
            PROVE  ~IsActive(history[d][k])
        BY <2>2, <2>4, <3>1 DEF Inv, OnlyLatestActive
      <3>3. QED
        BY <3>2 DEF HasActive
    <2>7. handlers'[h] = [handlers[h] EXCEPT !.pc = "quota", !.lang = last.lang]
      BY <2>1 DEF Inv, TypeOK
    <2>8. last.lang \in Langs
      BY <2>5 DEF Job
    <2>9. handlers' \in [Handlers -> Handler]
      <3>1. handlers[h] \in Handler /\ handlers \in [Handlers -> Handler]
        BY DEF Inv, TypeOK
      <3>2. [handlers[h] EXCEPT !.pc = "quota", !.lang = last.lang] \in Handler
        BY <2>8, <3>1 DEF Handler
      <3>3. handlers' = [handlers EXCEPT
                           ![h] = [handlers[h] EXCEPT !.pc = "quota", !.lang = last.lang]]
        BY <2>1
      <3>4. QED
        BY <3>1, <3>2, <3>3
    <2>10. \A g \in Handlers : g # h => handlers'[g] = handlers[g]
      BY <2>1 DEF Inv, TypeOK
    <2>11. /\ handlers'[h].doc = d /\ handlers'[h].pc = "quota"
           /\ handlers'[h].op = "retry" /\ handlers'[h].lang = last.lang
      BY <2>1, <2>7 DEF Inv, TypeOK, Handler
    <2>12. LockInv' /\ LangInv'
      BY <2>1, <2>8, <2>10, <2>11 DEF Inv, LockInv, LangInv, Holds, Checked
    <2>13. Approved(h)'
      BY <1>2, <2>1, <2>11 DEF Approved, Retryable
    <2>14. QED
      BY <2>1, <2>6, <2>9, <2>10, <2>11, <2>12, <2>13, QuietStep
      DEF Inv, TypeOK, Checked, ChecksInv
  <1>3. QED
    BY <1>1, <1>2

\* The quotas.
LEMMA AssertQuotaStep ==
    ASSUME Inv, NEW h \in Handlers, AssertQuota(h)
    PROVE  Inv'
  <1> DEFINE d == handlers[h].doc
             full == \/ Cardinality(ActiveJobsOf(OwnerOf[d])) >= MaxActiveJobsPerUser
                     \/ Len(history[d]) >= MaxJobsPerDocument
  <1>1. CASE full
    BY <1>1, WaitingSteps DEF AssertQuota, Holds
  <1>2. CASE ~full
    <2>1. /\ handlers[h].pc = "quota"
          /\ handlers' = [handlers EXCEPT ![h].pc = "insert"]
          /\ UNCHANGED <<lock, history, deleted>>
      BY <1>2 DEF AssertQuota
    <2>2. handlers' \in [Handlers -> Handler]
      BY <2>1 DEF Inv, TypeOK, Handler
    <2>3. \A g \in Handlers : g # h => handlers'[g] = handlers[g]
      BY <2>1 DEF Inv, TypeOK
    <2>4. /\ handlers'[h].pc = "insert" /\ handlers'[h].doc = d
          /\ handlers'[h].op = handlers[h].op /\ handlers'[h].lang = handlers[h].lang
          /\ handlers'[h].force = handlers[h].force
      BY <2>1 DEF Inv, TypeOK, Handler
    <2>5. LockInv' /\ LangInv'
      BY <2>1, <2>3, <2>4 DEF Inv, LockInv, LangInv, Holds, Checked
    <2>6. Len(history[d]) \in Nat
      BY <2>1, LenProperties DEF Inv, TypeOK, LockInv
    <2>7. Len(history[d]) < MaxJobsPerDocument
      BY <1>2, <2>6, RequestsAssumption
    <2>8. Checked(h)
      BY <2>1 DEF Checked
    <2>9. \A g \in Handlers : Checked(g)' =>
               Checked(g) /\ handlers'[g].doc = handlers[g].doc
                          /\ handlers'[g].op = handlers[g].op
                          /\ handlers'[g].lang = handlers[g].lang
                          /\ handlers'[g].force = handlers[g].force
      BY <2>3, <2>4, <2>8 DEF Checked
    <2>10. \A g \in Handlers : handlers'[g].pc = "insert" =>
               Len(history[handlers'[g].doc]) < MaxJobsPerDocument
      BY <2>3, <2>4, <2>7 DEF Inv, ChecksInv
    <2>11. QED
      BY <2>1, <2>2, <2>5, <2>9, <2>10, QuietStep DEF Inv, TypeOK
  <1>3. QED
    BY <1>1, <1>2

-----------------------------------------------------------------------------
(* Steps that change the history of a document *)

\* A handler whose checks have passed and whose document keeps its history
\* keeps what it relies on.
LEMMA UntouchedHandler ==
    ASSUME Inv, NEW g \in Handlers, Checked(g)', handlers'[g] = handlers[g],
           history'[handlers[g].doc] = history[handlers[g].doc]
    PROVE  /\ (~HasActive(handlers[g].doc))' /\ Approved(g)'
           /\ handlers'[g].pc = "insert" =>
                 Len(history'[handlers'[g].doc]) < MaxJobsPerDocument
  <1>1. Checked(g)
    BY DEF Checked
  <1>2. ~HasActive(handlers[g].doc) /\ Approved(g)
    BY <1>1 DEF Inv, ChecksInv
  <1>3. (~HasActive(handlers[g].doc))' /\ Approved(g)'
    BY <1>2 DEF HasActive, Approved, HasResult, Retryable
  <1>4. QED
    BY <1>3 DEF Inv, ChecksInv

\* The insert: the document had room and no active job.
LEMMA CreateJobStep ==
    ASSUME Inv, NEW h \in Handlers, CreateJob(h)
    PROVE  Inv'
  <1> DEFINE d == handlers[h].doc
             job == [lang |-> handlers[h].lang, status |-> "QUEUED", error |-> "none"]
  <1>1. /\ handlers[h].pc = "insert" /\ deleted' = deleted
        /\ history' = [history EXCEPT ![d] = Append(@, job)]
        /\ lock' = [lock EXCEPT ![d] = NoHandler]
        /\ handlers' = [handlers EXCEPT ![h] = IdleHandler]
    BY DEF CreateJob, EndTransaction
  <1>2. d \in Docs /\ handlers[h].lang \in Langs /\ lock[d] = h
    BY <1>1 DEF Inv, LockInv, LangInv, Checked, Holds
  <1>3. job \in Job
    BY <1>2 DEF Job, Active
  <1>4. history[d] \in Seq(Job)
    BY <1>2 DEF Inv, TypeOK
  <1>5. /\ Append(history[d], job) \in Seq(Job)
        /\ Len(Append(history[d], job)) = Len(history[d]) + 1
        /\ \A k \in 1..Len(history[d]) : Append(history[d], job)[k] = history[d][k]
        /\ Len(history[d]) \in Nat
    BY <1>3, <1>4, AppendProperties, LenProperties
  <1>6. history'[d] = Append(history[d], job) /\ \A e \in Docs : e # d => history'[e] = history[e]
    BY <1>1, <1>2 DEF Inv, TypeOK
  <1>7. TypeOK'
    <2>1. history' \in [Docs -> Seq(Job)]
      BY <1>1, <1>5 DEF Inv, TypeOK
    <2>2. handlers' \in [Handlers -> Handler]
      BY <1>1 DEF Inv, TypeOK, Handler, IdleHandler
    <2>3. lock' \in [Docs -> Handlers \union {NoHandler}]
      BY <1>1 DEF Inv, TypeOK
    <2>4. QED
      BY <1>1, <2>1, <2>2, <2>3 DEF Inv, TypeOK
  <1>8. \A g \in Handlers : handlers'[g] = IF g = h THEN IdleHandler ELSE handlers[g]
    BY <1>1 DEF Inv, TypeOK
  <1>9. LockInv'
    BY <1>1, <1>2, <1>8 DEF Inv, TypeOK, LockInv, Holds, IdleHandler
  <1>10. LangInv'
    BY <1>8 DEF Inv, LangInv, Checked, IdleHandler
  <1>11. ~HasActive(d) /\ Len(history[d]) < MaxJobsPerDocument
    BY <1>1 DEF Inv, ChecksInv, Checked
  <1>12. OnlyLatestActive'
    <2>1. ASSUME NEW e \in Docs, NEW k \in 1..(Len(history'[e]) - 1)
          PROVE  ~IsActive(history'[e][k])
      <3>1. CASE e # d
        BY <3>1, <1>6 DEF Inv, OnlyLatestActive
      <3>2. CASE e = d
        <4>1. k \in 1..Len(history[d])
          BY <3>2, <1>5, <1>6
        <4>2. QED
          BY <3>2, <4>1, <1>5, <1>6, <1>11 DEF HasActive
      <3>3. QED
        BY <3>1, <3>2
    <2>2. QED
      BY <2>1 DEF OnlyLatestActive, IsActive
  <1>13. DocumentQuota'
    BY <1>5, <1>6, <1>11, RequestsAssumption DEF Inv, DocumentQuota
  <1>14. ChecksInv'
    <2>1. ASSUME NEW g \in Handlers, Checked(g)'
          PROVE  /\ (~HasActive(handlers[g].doc))' /\ Approved(g)'
                 /\ handlers'[g].pc = "insert" =>
                       Len(history'[handlers'[g].doc]) < MaxJobsPerDocument
      <3>1. g # h /\ handlers'[g] = handlers[g]
        BY <2>1, <1>8 DEF Checked, IdleHandler
      <3>2. handlers[g].doc \in Docs /\ lock[handlers[g].doc] = g
        BY <2>1, <3>1 DEF Inv, LockInv, Holds, Checked
      <3>3. handlers[g].doc # d
        BY <3>1, <3>2, <1>2
      <3>4. QED
        BY <2>1, <3>1, <3>2, <3>3, <1>6, UntouchedHandler
    <2>2. QED
      BY <2>1 DEF ChecksInv, Checked
  <1>15. QED
    BY <1>7, <1>9, <1>10, <1>12, <1>13, <1>14 DEF Inv

\* A worker moves only active jobs, hence the latest job of a document no
\* request is about to act on.
LEMMA WorkerStepStep ==
    ASSUME Inv, NEW d \in Docs, NEW k \in 1..Len(history[d]),
           NEW s \in Active \union Terminal, NEW e \in {"none", "permanent", "retryable"},
           WorkerStep(d, k, s, e)
    PROVE  Inv'
  <1> DEFINE job == [history[d][k] EXCEPT !.status = s, !.error = e]
  <1>1. /\ IsActive(history[d][k])
        /\ history' = [history EXCEPT ![d] = [history[d] EXCEPT ![k] = job]]
        /\ UNCHANGED <<deleted, lock, handlers>>
    <2>1. history[d] \in Seq(Job) /\ history[d][k] \in Job
      BY ElementOfSeq DEF Inv, TypeOK
    <2>2. DOMAIN history[d] = 1..Len(history[d])
      BY <2>1, LenProperties
    <2>3. QED
      BY <2>1, <2>2 DEF WorkerStep, Inv, TypeOK, Job
  <1>2. history[d] \in Seq(Job) /\ history[d][k] \in Job
    BY ElementOfSeq DEF Inv, TypeOK
  <1>3. job \in Job
    BY <1>2 DEF Job
  <1> DEFINE new == [history[d] EXCEPT ![k] = job]
  <1>4. /\ new \in Seq(Job) /\ Len(new) = Len(history[d]) /\ Len(history[d]) \in Nat
        /\ \A m \in 1..Len(history[d]) : m # k => new[m] = history[d][m]
    BY <1>2, <1>3, ExceptSeq, LenProperties
  <1>5. history'[d] = new /\ \A x \in Docs : x # d => history'[x] = history[x]
    BY <1>1 DEF Inv, TypeOK
  <1>6. TypeOK'
    BY <1>1, <1>4 DEF Inv, TypeOK
  <1>7. LockInv' /\ LangInv'
    BY <1>1 DEF Inv, LockInv, LangInv, Holds, Checked
  <1>8. OnlyLatestActive'
    <2>1. ASSUME NEW x \in Docs, NEW m \in 1..(Len(history'[x]) - 1)
          PROVE  ~IsActive(history'[x][m])
      <3>1. CASE x # d
        BY <3>1, <1>5 DEF Inv, OnlyLatestActive
      <3>2. CASE x = d
        <4>1. m \in 1..(Len(history[d]) - 1)
          BY <3>2, <1>4, <1>5
        <4>2. ~IsActive(history[d][m])
          BY <4>1 DEF Inv, OnlyLatestActive
        <4>3. m # k
          BY <4>2, <1>1
        <4>4. m \in 1..Len(history[d])
          BY <4>1, <1>4
        <4>5. QED
          BY <3>2, <4>2, <4>3, <4>4, <1>4, <1>5
      <3>3. QED
        BY <3>1, <3>2
    <2>2. QED
      BY <2>1 DEF OnlyLatestActive, IsActive
  <1>9. DocumentQuota'
    BY <1>4, <1>5 DEF Inv, DocumentQuota
  <1>10. ChecksInv'
    <2>1. ASSUME NEW g \in Handlers, Checked(g)'
          PROVE  /\ (~HasActive(handlers[g].doc))' /\ Approved(g)'
                 /\ handlers'[g].pc = "insert" =>
                       Len(history'[handlers'[g].doc]) < MaxJobsPerDocument
      <3>1. handlers'[g] = handlers[g] /\ Checked(g)
        BY <2>1, <1>1 DEF Checked
      <3>2. handlers[g].doc \in Docs /\ ~HasActive(handlers[g].doc)
        BY <3>1 DEF Inv, LockInv, ChecksInv, Checked
      <3>3. handlers[g].doc # d
        BY <3>2, <1>1 DEF HasActive
      <3>4. QED
        BY <2>1, <3>1, <3>2, <3>3, <1>5, UntouchedHandler
    <2>2. QED
      BY <2>1 DEF ChecksInv, Checked
  <1>11. QED
    BY <1>6, <1>7, <1>8, <1>9, <1>10 DEF Inv

-----------------------------------------------------------------------------
(* Theorems *)

\* Every step preserves the inductive invariant.
LEMMA NextStep ==
    ASSUME Inv, [Next]_vars
    PROVE  Inv'
  <1>1. CASE UNCHANGED vars
    BY <1>1, QuietStep DEF vars, Inv, TypeOK, LockInv, LangInv, ChecksInv, Holds, Checked
  <1>2. ASSUME NEW h \in Handlers, NEW d \in Docs, Refuse(h, d)
        PROVE  Inv'
    BY <1>1, <1>2 DEF Refuse
  <1>3. ASSUME NEW d \in Docs, DeleteDocument(d)
        PROVE  Inv'
    <2>1. /\ UNCHANGED <<history, lock, handlers>>
          /\ deleted' \subseteq Docs
      BY <1>3 DEF DeleteDocument, Inv, TypeOK
    <2>2. QED
      BY <2>1, QuietStep DEF Inv, TypeOK, LockInv, LangInv, ChecksInv, Holds, Checked
  <1>4. ASSUME NEW h \in Handlers, HandlerStep(h)
        PROVE  Inv'
    BY <1>4, CheckRequestStep, CheckRetryStep, AssertQuotaStep, CreateJobStep DEF HandlerStep
  <1>5. ASSUME NEW h \in Handlers,
               \/ \E d \in Docs, l \in Langs, f \in BOOLEAN : BeginRequest(h, d, l, f)
               \/ \E d \in Docs : BeginRetry(h, d)
               \/ AcquireLock(h)
               \/ Abort(h)
        PROVE  Inv'
    BY <1>5, WaitingSteps
  <1>6. ASSUME NEW d \in Docs, NEW k \in 1..Len(history[d]), NEW s \in Active \union Terminal,
               NEW e \in {"none", "permanent", "retryable"}, WorkerStep(d, k, s, e)
        PROVE  Inv'
    BY <1>6, WorkerStepStep
  <1>7. QED
    BY <1>1, <1>2, <1>3, <1>4, <1>5, <1>6 DEF Next

\* The inductive invariant holds in every reachable state.
THEOREM RequestsInvariance == Spec => []Inv
  <1>1. Init => Inv
    <2>1. ASSUME Init
          PROVE  Inv
      <3>1. history \in [Docs -> Seq(Job)] /\ \A d \in Docs : Len(history[d]) = 0
        BY <2>1, EmptySeq DEF Init
      <3>2. TypeOK
        BY <2>1, <3>1 DEF Init, TypeOK, Handler, IdleHandler
      <3>3. LockInv /\ LangInv /\ ChecksInv
        BY <2>1 DEF Init, LockInv, LangInv, ChecksInv, IdleHandler, Holds, Checked
      <3>4. OnlyLatestActive
        BY <3>1 DEF OnlyLatestActive
      <3>5. DocumentQuota
        BY <3>1, RequestsAssumption DEF DocumentQuota
      <3>6. QED
        BY <3>2, <3>3, <3>4, <3>5 DEF Inv
    <2>2. QED
      BY <2>1
  <1>2. QED
    BY <1>1, NextStep, PTL DEF Spec

\* A document never has two active jobs, and its active job is its latest:
\* OcrService.retry, which looks at nothing but the latest job, is right to.
THEOREM OneActiveJob == Spec => []OnlyLatestActive
  <1>1. Inv => OnlyLatestActive
    BY DEF Inv
  <1>2. QED
    BY <1>1, RequestsInvariance, PTL

\* maxJobsPerDocument is never exceeded, although assertQuota counts before
\* createJob inserts: the count is taken under the lock of the document.
THEOREM DocumentQuotaHolds == Spec => []DocumentQuota
  <1>1. Inv => DocumentQuota
    BY DEF Inv
  <1>2. QED
    BY <1>1, RequestsInvariance, PTL

\* What request and retry checked at the start of their transaction still
\* holds when they insert the row.
THEOREM CreationPolicyHolds == Spec => CreationPolicy
  <1>1. ASSUME Inv, NEW h \in Handlers, CreateJob(h)
        PROVE  PolicyHolds(h)
    <2> DEFINE d == handlers[h].doc
               job == [lang |-> handlers[h].lang, status |-> "QUEUED", error |-> "none"]
    <2>1. /\ handlers[h].pc = "insert"
          /\ history' = [history EXCEPT ![d] = Append(@, job)]
      BY <1>1 DEF CreateJob
    <2>2. ~HasActive(d) /\ Approved(h) /\ d \in Docs /\ handlers[h].lang \in Langs
      BY <1>1, <2>1 DEF Inv, ChecksInv, LockInv, LangInv, Checked
    <2>3. job \in Job /\ history[d] \in Seq(Job)
      BY <1>1, <2>2 DEF Job, Active, Inv, TypeOK
    <2>4. Append(history[d], job)[Len(history[d]) + 1] = job
      BY <2>3, AppendProperties
    <2>5. history'[d][Len(history[d]) + 1].lang = handlers[h].lang
      BY <1>1, <2>1, <2>2, <2>4 DEF Inv, TypeOK
    <2>6. handlers[h].op \in {"request", "retry"}
      BY <1>1 DEF Inv, TypeOK, Handler
    <2>7. QED
      BY <2>2, <2>5, <2>6 DEF PolicyHolds, Approved
  <1>2. ASSUME Inv
        PROVE  [\A h \in Handlers : CreateJob(h) => PolicyHolds(h)]_vars
    BY <1>1, <1>2
  <1>3. QED
    BY <1>2, RequestsInvariance, PTL DEF CreationPolicy

-----------------------------------------------------------------------------
(* The refinement *)

\* Every step of the composition is a step of OcrRequests or a stutter.
LEMMA StepRefines ==
    ASSUME [LNext]_lvars
    PROVE  [Next]_vars
<1> USE DEF vars
<1>1. ASSUME NEW h \in Handlers, NEW d \in Docs, NEW raw \in Inputs, NEW force \in BOOLEAN,
             RequestAsks(h, d, raw, force)
      PROVE  Next
  <2>1. Canonical(raw) \in Langs
    BY LanguagesTyped
  <2>2. BeginRequest(h, d, Canonical(raw), force)
    BY <1>1 DEF RequestAsks
  <2> QED
    BY <2>1, <2>2 DEF Next
<1>2. ASSUME NEW h \in Handlers, LockGranted(h) \/ HandlerMoves(h) \/ Fail(h)
      PROVE  Next
  BY <1>2 DEF LockGranted, HandlerMoves, Fail, RetryAsks, QuotaAsked, RefuseLanguage, Next,
              HandlerStep
<1>3. ASSUME NEW h \in Handlers, NEW d \in Docs,
             Refuse(h, d) \/ BeginRetry(h, d)
      PROVE  Next
  BY <1>3 DEF Next
<1>4. ASSUME NEW d \in Docs,
             \/ DeleteDocument(d)
             \/ \E k \in 1..Len(history[d]), s \in Active \union Terminal,
                   e \in {"none", "permanent", "retryable"} : WorkerStep(d, k, s, e)
      PROVE  Next
  BY <1>4 DEF Next
<1>5. CASE HealthCheck \/ Describe \/ ProbeEnds \/ Expire
  BY <1>5 DEF HealthCheck, Describe, ProbeEnds, Expire
<1>6. CASE UNCHANGED lvars
  BY <1>6 DEF lvars
<1> QED
  BY <1>1, <1>2, <1>3, <1>4, <1>5, <1>6 DEF LNext

\* OcrLanguages implements OcrRequests: waiting for the answer of a probe, before
\* the lock or under it, adds no behaviour to the creation of jobs.
THEOREM LanguagesImplementRequests == LSpec => Spec
<1>1. LInit => Init
  BY DEF LInit
<1>2. [LNext]_lvars => [Next]_vars
  BY StepRefines
<1> QED
  BY <1>1, <1>2, PTL DEF LSpec, Spec

\* The policy for new jobs holds with the language cache in the way, although a
\* retry waits for a probe between its check and its insert.
THEOREM CreationPolicyWithLanguages == LSpec => CreationPolicy
  BY LanguagesImplementRequests, CreationPolicyHolds, PTL

-----------------------------------------------------------------------------
(* The answers *)

\* An answer that accepts a language accepts a configured one.
LEMMA VerdictSound ==
    ASSUME NEW available, available \subseteq Configured, NEW l, Verdict(available, l) = "ok"
    PROVE  Acceptable(l)
  BY DEF Verdict, Acceptable

\* Asking for the languages keeps the types of the variables of this module.
LEMMA AvailabilityStep ==
    ASSUME LanguagesTypeOK, NEW h \in Handlers, NEW l, Availability(h, l), UNCHANGED cache
    PROVE  LanguagesTypeOK'
<1> USE DEF LanguagesTypeOK, Probe
<1>1. Verdict(cache.available, l) \in {"ok", "refused"}
  BY DEF Verdict
<1>2. CASE cache.fresh
  BY <1>1, <1>2 DEF Availability
<1>3. CASE ~cache.fresh
  BY <1>3 DEF Availability
<1> QED
  BY <1>2, <1>3

\* The probe and the clock keep them, too.
LEMMA ProbeSteps ==
    ASSUME LanguagesTypeOK, HealthCheck \/ Describe \/ ProbeEnds \/ Expire
    PROVE  LanguagesTypeOK'
<1> USE DEF LanguagesTypeOK, Probe, Cache
<1>1. CASE HealthCheck
  BY <1>1 DEF HealthCheck
<1>2. CASE Describe
  <2>1. PICK found \in InstalledSets : probe' = [state |-> "described", found |-> found]
    BY <1>2 DEF Describe
  <2>2. found \in SUBSET UNION InstalledSets
    OBVIOUS
  <2> QED
    BY <1>2, <2>1, <2>2 DEF Describe
<1>3. CASE ProbeEnds
  <2>1. cache' \in Cache /\ probe' \in Probe
    BY <1>3 DEF ProbeEnds, Answer, Offered, NoProbe
  <2>2. \A h \in Handlers : Verdict(Offered(probe.found), handlers[h].lang) \in {"ok", "refused"}
    BY DEF Verdict
  <2>3. \A h \in Handlers : calls'[h] \in {"none", "ok", "refused"}
    BY <1>3, <2>2 DEF ProbeEnds
  <2>4. calls' \in [Handlers -> {"none", "waiting", "ok", "refused"}]
    BY <1>3, <2>2 DEF ProbeEnds
  <2> QED
    BY <2>1, <2>3, <2>4
<1>4. CASE Expire
  BY <1>4 DEF Expire, NoCache
<1> QED
  BY <1>1, <1>2, <1>3, <1>4

\* A step of a handler that does not ask.
LEMMA AnsweredStep ==
    ASSUME LanguagesTypeOK, Unasked \/ \E h \in Handlers : CallDone(h)
    PROVE  LanguagesTypeOK'
  BY DEF LanguagesTypeOK, Unasked, CallDone

\* Every step keeps the types.
LEMMA CallsNext ==
    ASSUME LanguagesTypeOK, [LNext]_lvars
    PROVE  LanguagesTypeOK'
<1>1. ASSUME NEW h \in Handlers, NEW d \in Docs, NEW raw \in Inputs, NEW force \in BOOLEAN,
             RequestAsks(h, d, raw, force)
      PROVE  LanguagesTypeOK'
  BY <1>1, AvailabilityStep DEF RequestAsks
<1>2. ASSUME NEW h \in Handlers, RetryAsks(h)
      PROVE  LanguagesTypeOK'
  <2>1. CASE Retryable(handlers[h].doc)
    BY <1>2, <2>1, AvailabilityStep DEF RetryAsks
  <2>2. CASE ~Retryable(handlers[h].doc)
    BY <1>2, <2>2, AnsweredStep DEF RetryAsks, Unasked
  <2> QED
    BY <2>1, <2>2
<1>3. ASSUME Unasked \/ \E h \in Handlers : CallDone(h)
      PROVE  LanguagesTypeOK'
  BY <1>3, AnsweredStep
<1>4. CASE HealthCheck \/ Describe \/ ProbeEnds \/ Expire
  BY <1>4, ProbeSteps
<1>5. CASE UNCHANGED lvars
  BY <1>5 DEF lvars, LanguagesTypeOK
<1> QED
  BY <1>1, <1>2, <1>3, <1>4, <1>5
  DEF LNext, LockGranted, HandlerMoves, QuotaAsked, RefuseLanguage, Fail

\* The variables of the language cache keep their types: only configured
\* languages are ever cached.
THEOREM LanguagesTypes == LSpec => []LanguagesTypeOK
<1>1. ASSUME LInit
      PROVE  LanguagesTypeOK
  <2>1. PICK found \in InstalledSets : cache = Answer(found)
    BY <1>1 DEF LInit
  <2>2. cache \in Cache
    BY <2>1 DEF Cache, Answer, Offered
  <2>3. probe \in Probe
    BY <1>1 DEF LInit, Probe, NoProbe
  <2> QED
    BY <1>1, <2>2, <2>3 DEF LInit, LanguagesTypeOK
<1>2. LanguagesTypeOK /\ [LNext]_lvars => LanguagesTypeOK'
  BY CallsNext
<1> QED
  BY <1>1, <1>2, PTL DEF LSpec

-----------------------------------------------------------------------------
(* The languages of the jobs *)

\* When a handler may have a call, and which languages are known to be acceptable.
HandlerInv(h) ==
    /\ calls[h] # "none" =>
          \/ handlers[h].pc = "lock" /\ handlers[h].op = "request"
          \/ handlers[h].pc = "quota" /\ handlers[h].op = "retry"
    /\ calls[h] = "ok" => Acceptable(handlers[h].lang)
    /\ handlers[h].op = "request" /\ Holds(h) => Acceptable(handlers[h].lang)
    /\ handlers[h].op = "retry" /\ Checked(h) => Acceptable(handlers[h].lang)

OfferedInv == JobsOffered /\ \A h \in Handlers : HandlerInv(h)

\* A worker changes no language of a job and creates no job.
LEMMA WorkerKeepsLanguages ==
    ASSUME TypeOK, NEW d \in Docs, NEW k \in 1..Len(history[d]), NEW s, NEW e,
           WorkerStep(d, k, s, e), NEW x \in Docs, NEW m \in 1..Len(history'[x])
    PROVE  m \in 1..Len(history[x]) /\ history'[x][m].lang = history[x][m].lang
<1>1. history[d] \in Seq(Job)
  BY DEF TypeOK
<1>2. history' = [history EXCEPT ![d] = [history[d] EXCEPT
                     ![k] = [history[d][k] EXCEPT !.status = s, !.error = e]]]
  BY DEF WorkerStep, TypeOK
<1>3. CASE x # d
  BY <1>2, <1>3 DEF TypeOK
<1>4. CASE x = d
  <2>1. history'[x] = [history[d] EXCEPT
                          ![k] = [history[d][k] EXCEPT !.status = s, !.error = e]]
    BY <1>2, <1>4 DEF TypeOK
  <2>2. history[d][k] \in Job
    BY <1>1
  <2>3. [history[d][k] EXCEPT !.status = s, !.error = e].lang = history[d][k].lang
    BY <2>2 DEF Job
  <2>4. Len(history'[x]) = Len(history[d]) /\ DOMAIN history[d] = 1..Len(history[d])
    <3>1. Len(history[d]) \in Nat /\ DOMAIN history[d] = 1..Len(history[d])
      BY <1>1
    <3>2. history'[x] \in [1..Len(history[d]) -> {history'[x][i] : i \in 1..Len(history[d])}]
      BY <2>1, <3>1
    <3> QED
      BY <3>1, <3>2, SeqDef, LenProperties, Z3
  <2> QED
    BY <2>1, <2>3, <2>4, <1>4
<1> QED
  BY <1>3, <1>4

\* The only new job is the one a handler inserts, with the language of its request.
LEMMA InsertedLanguage ==
    ASSUME Inv, NEW h \in Handlers, CreateJob(h),
           NEW e \in Docs, NEW k \in 1..Len(history'[e])
    PROVE  \/ k \in 1..Len(history[e]) /\ history'[e][k].lang = history[e][k].lang
           \/ history'[e][k].lang = handlers[h].lang
<1> DEFINE d   == handlers[h].doc
           job == [lang |-> handlers[h].lang, status |-> "QUEUED", error |-> "none"]
<1>1. d \in Docs
  BY DEF CreateJob, Inv, LockInv
<1>2. history[d] \in Seq(Job)
  BY <1>1 DEF Inv, TypeOK
<1>3. history' = [history EXCEPT ![d] = Append(history[d], job)]
  BY DEF CreateJob
<1>4. CASE e # d
  BY <1>3, <1>4 DEF Inv, TypeOK
<1>5. CASE e = d
  <2>1. history'[e] = Append(history[d], job)
    BY <1>3, <1>5 DEF Inv, TypeOK
  <2>2. Len(history[d]) \in Nat /\ Len(history'[e]) = Len(history[d]) + 1
    BY <1>2, <2>1
  <2>3. CASE k \in 1..Len(history[d])
    <3>1. history'[e][k] = history[d][k]
      BY <1>2, <2>1, <2>3
    <3> QED
      BY <1>5, <2>3, <3>1
  <2>4. CASE k = Len(history[d]) + 1
    <3>1. history'[e][k] = job
      BY <1>2, <2>1, <2>4
    <3> QED
      BY <3>1
  <2> QED
    BY <2>2, <2>3, <2>4
<1> QED
  BY <1>4, <1>5

\* What a step of one handler has to show.
LEMMA OneHandler ==
    ASSUME OfferedInv, TypeOK, LanguagesTypeOK, NEW h \in Handlers, JobsOffered', HandlerInv(h)',
           NEW r, handlers' = [handlers EXCEPT ![h] = r],
           NEW c, calls' = [calls EXCEPT ![h] = c]
    PROVE  OfferedInv'
<1>1. ASSUME NEW g \in Handlers, g # h
      PROVE  HandlerInv(g)'
  <2>1. handlers'[g] = handlers[g] /\ calls'[g] = calls[g]
    BY <1>1 DEF TypeOK, LanguagesTypeOK
  <2>2. HandlerInv(g)
    BY DEF OfferedInv
  <2> QED
    BY <2>1, <2>2 DEF HandlerInv, Holds, Checked
<1> QED
  BY <1>1 DEF OfferedInv

\* Every step keeps the languages of jobs and of approved requests acceptable.
LEMMA OfferedNext ==
    ASSUME OfferedInv, Inv, LanguagesTypeOK, [LNext]_lvars
    PROVE  OfferedInv'
<1>t. TypeOK /\ LanguagesTypeOK
  BY DEF Inv
<1>j. ASSUME history' = history
      PROVE  JobsOffered'
  BY <1>j DEF OfferedInv, JobsOffered
<1>v. ASSUME NEW l, Verdict(cache.available, l) = "ok"
      PROVE  Acceptable(l)
  BY <1>v, <1>t, VerdictSound DEF LanguagesTypeOK, Cache
\* The handler goes idle, or on, and its call is over.
<1>e. ASSUME NEW h \in Handlers, history' = history, NEW r,
             handlers' = [handlers EXCEPT ![h] = r],
             NEW c, calls' = [calls EXCEPT ![h] = c],
             c # "none" => \/ r.pc = "lock" /\ r.op = "request"
                           \/ r.pc = "quota" /\ r.op = "retry",
             c = "ok" => Acceptable(r.lang),
             \/ r.pc \in {"idle", "lock"}
             \/ r.pc = "policy" /\ r.op = "retry"
             \/ Acceptable(r.lang)
      PROVE  OfferedInv'
  <2>1. handlers'[h] = r /\ calls'[h] = c
    BY <1>e, <1>t DEF TypeOK, LanguagesTypeOK
  <2>2. HandlerInv(h)'
    BY <1>e, <2>1 DEF HandlerInv, Holds, Checked
  <2> QED
    BY <1>e, <1>t, <1>j, <2>2, OneHandler
<1>1. ASSUME NEW h \in Handlers, NEW d \in Docs, NEW raw \in Inputs, NEW force \in BOOLEAN,
             RequestAsks(h, d, raw, force)
      PROVE  OfferedInv'
  <2> DEFINE r == [pc |-> "lock", op |-> "request", doc |-> d, lang |-> Canonical(raw),
                   force |-> force]
             c == IF cache.fresh THEN Verdict(cache.available, Canonical(raw)) ELSE "waiting"
  <2>1. /\ history' = history
        /\ handlers' = [handlers EXCEPT ![h] = r]
        /\ calls' = [calls EXCEPT ![h] = c]
    BY <1>1 DEF RequestAsks, BeginRequest, Availability
  <2>2. c = "ok" => Acceptable(r.lang)
    BY <1>v
  <2>3. r.pc = "lock" /\ r.op = "request"
    OBVIOUS
  <2> HIDE DEF r, c
  <2> QED
    BY <2>1, <2>2, <2>3, <1>e
<1>2. ASSUME NEW h \in Handlers, NEW d \in Docs, BeginRetry(h, d), Unasked
      PROVE  OfferedInv'
  <2> DEFINE r == [IdleHandler EXCEPT !.pc = "lock", !.op = "retry", !.doc = d]
  <2>1. handlers' = [handlers EXCEPT ![h] = r] /\ history' = history
    BY <1>2 DEF BeginRetry
  <2>2. r.pc = "lock"
    BY DEF IdleHandler
  <2>3. calls[h] = "none"
    BY <1>2 DEF BeginRetry, OfferedInv, HandlerInv
  <2>4. calls' = [calls EXCEPT ![h] = "none"]
    BY <1>2, <1>t, <2>3 DEF Unasked, LanguagesTypeOK
  <2> HIDE DEF r
  <2> QED
    BY <2>1, <2>2, <2>4, <1>e
<1>3. ASSUME NEW h \in Handlers, LockGranted(h)
      PROVE  OfferedInv'
  <2> DEFINE r == [handlers[h] EXCEPT !.pc = "policy"]
  <2>1. /\ handlers' = [handlers EXCEPT ![h] = r]
        /\ history' = history
        /\ calls' = [calls EXCEPT ![h] = "none"]
    BY <1>3 DEF LockGranted, AcquireLock, CallDone
  <2>2. r.pc = "policy" /\ r.op = handlers[h].op /\ r.lang = handlers[h].lang
    BY <1>t DEF TypeOK, Handler
  <2>3. handlers[h].op \in {"request", "retry"}
    BY <1>t DEF TypeOK, Handler
  <2>4. handlers[h].op = "request" => Acceptable(handlers[h].lang)
    BY <1>3 DEF LockGranted, OfferedInv, HandlerInv
  <2> HIDE DEF r
  <2> QED
    BY <2>1, <2>2, <2>3, <2>4, <1>e
<1>4. ASSUME NEW h \in Handlers, CheckRequest(h), Unasked
      PROVE  OfferedInv'
  <2>1. calls[h] = "none"
    BY <1>4 DEF CheckRequest, OfferedInv, HandlerInv
  <2>2. calls' = [calls EXCEPT ![h] = "none"]
    BY <1>4, <1>t, <2>1 DEF Unasked, LanguagesTypeOK
  <2>3. CASE EndTransaction(h)
    <3>1. handlers' = [handlers EXCEPT ![h] = IdleHandler] /\ history' = history
      BY <1>4, <2>3 DEF CheckRequest, EndTransaction
    <3>2. IdleHandler.pc = "idle"
      BY DEF IdleHandler
    <3> QED
      BY <2>2, <3>1, <3>2, <1>e
  <2>4. CASE handlers' = [handlers EXCEPT ![h].pc = "quota"]
    <3> DEFINE r == [handlers[h] EXCEPT !.pc = "quota"]
    <3>1. handlers' = [handlers EXCEPT ![h] = r] /\ history' = history
      BY <1>4, <2>4 DEF CheckRequest
    <3>2. r.lang = handlers[h].lang
      BY <1>t DEF TypeOK, Handler
    <3>3. Acceptable(handlers[h].lang)
      BY <1>4 DEF CheckRequest, OfferedInv, HandlerInv, Holds
    <3> HIDE DEF r
    <3> QED
      BY <2>2, <3>1, <3>2, <3>3, <1>e
  <2> QED
    BY <1>4, <2>3, <2>4 DEF CheckRequest
<1>5. ASSUME NEW h \in Handlers, RetryAsks(h)
      PROVE  OfferedInv'
  <2> DEFINE d == handlers[h].doc
             l == history[d][Len(history[d])].lang
             r == [handlers[h] EXCEPT !.pc = "quota", !.lang = l]
  <2>1. CASE Retryable(d)
    <3> DEFINE c == IF cache.fresh THEN Verdict(cache.available, l) ELSE "waiting"
    <3>1. /\ history' = history
          /\ handlers' = [handlers EXCEPT ![h] = r]
          /\ calls' = [calls EXCEPT ![h] = c]
      BY <1>5, <2>1 DEF RetryAsks, CheckRetry, Availability
    <3>2. r.pc = "quota" /\ r.op = "retry" /\ r.lang = l
      BY <1>5, <1>t DEF RetryAsks, CheckRetry, TypeOK, Handler
    <3>3. d \in Docs
      BY <1>5 DEF RetryAsks, CheckRetry, Inv, LockInv
    <3>4. Len(history[d]) \in 1..Len(history[d])
      <4>1. history[d] \in Seq(Job) /\ history[d] # <<>>
        BY <2>1, <3>3, <1>t DEF Retryable, TypeOK
      <4>2. Len(history[d]) \in Nat /\ Len(history[d]) # 0
        BY <4>1, EmptySeq, LenProperties
      <4> QED
        BY <4>2
    <3>5. Acceptable(l)
      BY <3>3, <3>4 DEF OfferedInv, JobsOffered
    <3> HIDE DEF d, l, r, c
    <3> QED
      BY <3>1, <3>2, <3>5, <1>e
  <2>2. CASE ~Retryable(d)
    <3>1. calls[h] = "none"
      BY <1>5 DEF RetryAsks, CheckRetry, OfferedInv, HandlerInv
    <3>2. calls' = [calls EXCEPT ![h] = "none"]
      BY <1>5, <2>2, <1>t, <3>1 DEF RetryAsks, LanguagesTypeOK
    <3>3. handlers' = [handlers EXCEPT ![h] = IdleHandler] /\ history' = history
      BY <1>5, <2>2 DEF RetryAsks, CheckRetry, EndTransaction
    <3>4. IdleHandler.pc = "idle"
      BY DEF IdleHandler
    <3> QED
      BY <3>2, <3>3, <3>4, <1>e
  <2> QED
    BY <2>1, <2>2
<1>6. ASSUME NEW h \in Handlers, QuotaAsked(h)
      PROVE  OfferedInv'
  <2>1. calls' = [calls EXCEPT ![h] = "none"] /\ history' = history
    BY <1>6 DEF QuotaAsked, CallDone, AssertQuota
  <2>2. CASE EndTransaction(h)
    <3>1. handlers' = [handlers EXCEPT ![h] = IdleHandler]
      BY <2>2 DEF EndTransaction
    <3>2. IdleHandler.pc = "idle"
      BY DEF IdleHandler
    <3> QED
      BY <2>1, <3>1, <3>2, <1>e
  <2>3. CASE handlers' = [handlers EXCEPT ![h].pc = "insert"]
    <3> DEFINE r == [handlers[h] EXCEPT !.pc = "insert"]
    <3>1. handlers' = [handlers EXCEPT ![h] = r]
      BY <2>3
    <3>2. r.lang = handlers[h].lang /\ handlers[h].op \in {"request", "retry"}
      BY <1>t DEF TypeOK, Handler
    <3>3. Acceptable(handlers[h].lang)
      BY <1>6, <3>2 DEF QuotaAsked, AssertQuota, OfferedInv, HandlerInv, Holds, Checked
    <3> HIDE DEF r
    <3> QED
      BY <2>1, <3>1, <3>2, <3>3, <1>e
  <2> QED
    BY <1>6, <2>2, <2>3 DEF QuotaAsked, AssertQuota
<1>7. ASSUME NEW h \in Handlers, Abort(h), CallDone(h)
      PROVE  OfferedInv'
  <2>1. /\ calls' = [calls EXCEPT ![h] = "none"] /\ history' = history
        /\ handlers' = [handlers EXCEPT ![h] = IdleHandler]
    BY <1>7 DEF CallDone, Abort
  <2>2. IdleHandler.pc = "idle"
    BY DEF IdleHandler
  <2> QED
    BY <2>1, <2>2, <1>e
<1>8. ASSUME NEW h \in Handlers, CreateJob(h), Unasked
      PROVE  OfferedInv'
  <2>3. Acceptable(handlers[h].lang)
    <3>1. handlers[h].op \in {"request", "retry"}
      BY <1>t DEF TypeOK, Handler
    <3> QED
      BY <1>8, <3>1 DEF CreateJob, OfferedInv, HandlerInv, Holds, Checked
  <2>5. ASSUME NEW e \in Docs, NEW k \in 1..Len(history'[e])
        PROVE  Acceptable(history'[e][k].lang)
    <3>1. \/ k \in 1..Len(history[e]) /\ history'[e][k].lang = history[e][k].lang
          \/ history'[e][k].lang = handlers[h].lang
      BY <1>8, InsertedLanguage
    <3> QED
      BY <2>3, <3>1 DEF OfferedInv, JobsOffered
  <2>6. JobsOffered'
    BY <2>5 DEF JobsOffered
  <2>7. calls[h] = "none"
    BY <1>8 DEF CreateJob, OfferedInv, HandlerInv
  <2>8. calls' = [calls EXCEPT ![h] = "none"] /\ calls'[h] = "none"
    BY <1>8, <1>t, <2>7 DEF Unasked, LanguagesTypeOK
  <2>9. handlers' = [handlers EXCEPT ![h] = IdleHandler] /\ handlers'[h] = IdleHandler
    BY <1>8, <1>t DEF CreateJob, EndTransaction, TypeOK
  <2>10. HandlerInv(h)'
    BY <2>8, <2>9 DEF HandlerInv, IdleHandler, Holds, Checked
  <2> QED
    BY <2>6, <2>8, <2>9, <2>10, <1>t, OneHandler
<1>h. ASSUME handlers' = handlers, calls' = calls, JobsOffered'
      PROVE  OfferedInv'
  BY <1>h DEF OfferedInv, HandlerInv, Holds, Checked
<1>9. ASSUME NEW d \in Docs, NEW k \in 1..Len(history[d]), NEW s, NEW e,
             WorkerStep(d, k, s, e), Unasked
      PROVE  OfferedInv'
  <2>3. ASSUME NEW x \in Docs, NEW m \in 1..Len(history'[x])
        PROVE  m \in 1..Len(history[x]) /\ history'[x][m].lang = history[x][m].lang
    BY <1>9, <1>t, WorkerKeepsLanguages
  <2>4. JobsOffered'
    BY <2>3 DEF OfferedInv, JobsOffered
  <2> QED
    BY <1>9, <1>h, <2>4 DEF WorkerStep, Unasked
<1>10. CASE ProbeEnds
  <2>1. /\ history' = history /\ handlers' = handlers
        /\ calls' = [h \in Handlers |-> IF calls[h] = "waiting"
                        THEN Verdict(Offered(probe.found), handlers[h].lang) ELSE calls[h]]
    BY <1>10 DEF ProbeEnds, vars
  <2>2. ASSUME NEW h \in Handlers
        PROVE  HandlerInv(h)'
    <3>1. Verdict(Offered(probe.found), handlers[h].lang) = "ok" => Acceptable(handlers[h].lang)
      BY VerdictSound DEF Offered
    <3>2. HandlerInv(h)
      BY DEF OfferedInv
    <3> QED
      BY <2>1, <3>1, <3>2 DEF HandlerInv, Holds, Checked
  <2> QED
    BY <2>1, <2>2, <1>j DEF OfferedInv
<1>11. CASE HealthCheck \/ Describe \/ Expire \/ UNCHANGED lvars
  BY <1>11, <1>h, <1>j DEF HealthCheck, Describe, Expire, lvars, vars
<1>12. ASSUME NEW h \in Handlers, NEW d \in Docs, Refuse(h, d), Unasked
       PROVE  OfferedInv'
  BY <1>12, <1>h, <1>j DEF Refuse, Unasked, vars
<1>13. ASSUME NEW d \in Docs, DeleteDocument(d), Unasked
       PROVE  OfferedInv'
  BY <1>13, <1>h, <1>j DEF DeleteDocument, Unasked
<1> QED
  BY <1>1, <1>2, <1>3, <1>4, <1>5, <1>6, <1>7, <1>8, <1>9, <1>10, <1>11, <1>12, <1>13
  DEF LNext, HandlerMoves, RefuseLanguage, Fail

\* No job, requested or retried, ever has a language that is not configured or
\* more languages than allowed, whatever the engine answers.
THEOREM OnlyOfferedLanguages == LSpec => []JobsOffered
<1>1. ASSUME LInit
      PROVE  OfferedInv
  <2>1. \A d \in Docs : history[d] = <<>>
    BY <1>1 DEF LInit, Init
  <2>2. JobsOffered
    BY <2>1 DEF JobsOffered
  <2> QED
    BY <1>1, <2>2 DEF LInit, Init, OfferedInv, HandlerInv, IdleHandler, Holds, Checked
<1>2. OfferedInv /\ Inv /\ LanguagesTypeOK /\ [LNext]_lvars => OfferedInv'
  BY OfferedNext
<1>3. OfferedInv => JobsOffered
  BY DEF OfferedInv
<1> QED
  BY <1>1, <1>2, <1>3, LanguagesImplementRequests, RequestsInvariance, LanguagesTypes, PTL
  DEF LSpec

-----------------------------------------------------------------------------
(* Canonical lists *)

\* A finite set of numbers has a k-th smallest element for each k up to its size:
\* the least bound below which there are k of them.
LEMMA NthExists ==
    ASSUME NEW n \in Nat, NEW S \in SUBSET (1..n), NEW k \in 1..Cardinality(S)
    PROVE  /\ Nth(S, k) \in S
           /\ Cardinality({j \in S : j <= Nth(S, k)}) = k
<1> DEFINE Upto(m) == {j \in S : j <= m}
           T == {m \in 0..n : Cardinality(Upto(m)) >= k}
<1>0. IsFiniteSet(S) /\ Cardinality(S) \in Nat /\ k \in Nat /\ k >= 1
  <2>1. IsFiniteSet(1..n)
    BY FS_Interval
  <2>2. IsFiniteSet(S)
    BY <2>1, FS_Subset
  <2> QED
    BY <2>2, FS_CardinalityType
<1>1. \A m \in 0..n : IsFiniteSet(Upto(m)) /\ Cardinality(Upto(m)) \in Nat
  BY <1>0, FS_Subset, FS_CardinalityType
<1>2. T \subseteq Nat /\ n \in T
  <2>0. \A j \in S : j <= n
    OBVIOUS
  <2>1. Upto(n) = S
    BY <2>0
  <2> QED
    BY <1>0, <2>1
<1>3. PICK m \in T : \A l \in T : m <= l
  <2> HIDE DEF T
  <2> QED
    BY <1>2, LeastNatural
<1>a. m \in 0..n /\ Cardinality(Upto(m)) >= k /\ \A l \in 0..n : l < m => Cardinality(Upto(l)) < k
  <2> HIDE DEF Upto
  <2>1. m \in 0..n /\ Cardinality(Upto(m)) >= k /\ \A l \in 0..n : l < m => l \notin T
    BY <1>3
  <2>2. \A l \in 0..n : l < m => ~(Cardinality(Upto(l)) >= k)
    BY <2>1
  <2> QED
    BY <1>0, <1>1, <2>1, <2>2
<1>4. m # 0
  <2>0. \A j \in S : ~(j <= 0)
    OBVIOUS
  <2>1. Upto(0) = {}
    BY <2>0
  <2>2. Cardinality(Upto(0)) = 0
    BY <2>1, FS_EmptySet
  <2> HIDE DEF Upto
  <2> QED
    BY <1>0, <1>a, <2>2
<1>5. m - 1 \in 0..n /\ m - 1 < m /\ Cardinality(Upto(m - 1)) < k
  <2> HIDE DEF Upto
  <2>1. m - 1 \in 0..n /\ m - 1 < m
    BY <1>a, <1>4
  <2> QED
    BY <1>a, <2>1
<1>b. \A j \in S : j <= m <=> (j <= m - 1 \/ j = m)
  BY <1>a
<1>c. ~(m <= m - 1)
  BY <1>a
<1>6. m \in S /\ Cardinality(Upto(m)) = k
  <2>1. CASE m \notin S
    <3>1. Upto(m) = Upto(m - 1)
      BY <1>b, <2>1
    <3> HIDE DEF Upto
    <3> QED
      BY <1>0, <1>1, <1>a, <1>5, <3>1
  <2>2. CASE m \in S
    <3>1. Upto(m) = Upto(m - 1) \union {m} /\ m \notin Upto(m - 1)
      BY <1>b, <1>c, <2>2
    <3> HIDE DEF Upto
    <3>2. Cardinality(Upto(m)) = Cardinality(Upto(m - 1)) + 1
      BY <1>1, <1>5, <3>1, FS_AddElement
    <3> QED
      BY <1>0, <1>1, <1>a, <1>5, <2>2, <3>2
  <2> QED
    BY <2>1, <2>2
<1>7. \E i \in S : Cardinality({j \in S : j <= i}) = k
  BY <1>6
<1> QED
  BY <1>7 DEF Nth

\* A list of n codes in which none occurs twice.
UniqueCodes(l, n) ==
    /\ l = [k \in 1..n |-> l[k]]
    /\ \A i, j \in 1..n : l[i] = l[j] => i = j

\* A list in which no code occurs twice.
Unique(l) == \E n \in Nat : UniqueCodes(l, n)

\* resolve makes the codes unique: [...new Set(codes)].
LEMMA CanonicalUnique ==
    ASSUME NEW raw \in Inputs
    PROVE  Unique(Canonical(raw))
<1>1. PICK list : list = IF raw = <<>> THEN DefaultLanguage ELSE raw
  OBVIOUS
<1> DEFINE F == Firsts(list)
           N == Cardinality(F)
           C == Canonical(raw)
<1>2. list \in Seq(Codes(list))
  BY <1>1, ListsAssumption
<1>3. PICK n \in Nat : n = Len(list) /\ DOMAIN list = 1..n
  BY <1>2
<1>4. F \subseteq 1..n
  BY <1>3 DEF Firsts
<1>5. IsFiniteSet(F) /\ N \in Nat
  <2>1. IsFiniteSet(1..n)
    BY FS_Interval
  <2> QED
    BY <1>4, <2>1, FS_Subset, FS_CardinalityType
<1>6. C = [k \in 1..N |-> list[Nth(F, k)]]
  BY <1>1 DEF Canonical
<1>7. \A k \in 1..N : Nth(F, k) \in F /\ Cardinality({j \in F : j <= Nth(F, k)}) = k
  <2> HIDE DEF F
  <2> QED
    BY <1>4, NthExists
<1>8. ASSUME NEW k \in 1..N, NEW l \in 1..N, C[k] = C[l]
      PROVE  k = l
  <2>1. list[Nth(F, k)] = list[Nth(F, l)]
    <3> HIDE DEF F, C, N
    <3> QED
      BY <1>6, <1>8
  <2>2. PICK a \in F : a = Nth(F, k)
    BY <1>7
  <2>3. PICK b \in F : b = Nth(F, l)
    BY <1>7
  <2>4. a = b
    <3>1. a \in 1..n /\ b \in 1..n /\ list[a] = list[b]
      BY <1>4, <2>1, <2>2, <2>3
    <3>2. (\A j \in 1..(a - 1) : list[j] # list[a]) /\ (\A j \in 1..(b - 1) : list[j] # list[b])
      BY DEF Firsts
    <3> QED
      BY <3>1, <3>2
  <2> QED
    BY <1>7, <2>2, <2>3, <2>4
<1>9. C = [k \in 1..N |-> C[k]]
  <2> HIDE DEF F, N
  <2> QED
    BY <1>6
<1> HIDE DEF C, N
<1> QED
  BY <1>5, <1>8, <1>9 DEF Unique, UniqueCodes, C

\* resolve leaves a list without repetitions as it is.
LEMMA CanonicalFixed ==
    ASSUME NEW l, Unique(l), l # <<>>
    PROVE  Canonical(l) = l
<1>1. PICK n \in Nat : UniqueCodes(l, n)
  BY DEF Unique
<1>2. DOMAIN l = 1..n /\ l = [k \in 1..n |-> l[k]]
  BY <1>1 DEF UniqueCodes
<1>3. Firsts(l) = 1..n
  <2>1. ASSUME NEW i \in 1..n, NEW j \in 1..(i - 1)
        PROVE  l[j] # l[i]
    <3>1. j \in 1..n /\ j # i
      OBVIOUS
    <3> QED
      BY <1>1, <3>1 DEF UniqueCodes
  <2> QED
    BY <1>2, <2>1 DEF Firsts
<1>4. Cardinality(1..n) = n
  BY FS_Interval
<1>5. ASSUME NEW k \in 1..n
      PROVE  Nth(1..n, k) = k
  <2>1. PICK S : S = 1..n
    OBVIOUS
  <2>2. Nth(S, k) \in S /\ Cardinality({j \in S : j <= Nth(S, k)}) = k
    BY <1>4, <2>1, NthExists
  <2>3. PICK m \in 1..n : m = Nth(S, k)
    BY <2>1, <2>2
  <2>4. {j \in S : j <= m} = 1..m
    BY <2>1
  <2>5. Cardinality(1..m) = m
    BY FS_Interval
  <2> QED
    BY <2>1, <2>2, <2>3, <2>4, <2>5
<1>6. Canonical(l) = [k \in 1..n |-> l[Nth(1..n, k)]]
  BY <1>3, <1>4 DEF Canonical
<1>7. [k \in 1..n |-> l[Nth(1..n, k)]] = [k \in 1..n |-> l[k]]
  BY <1>5
<1> QED
  BY <1>2, <1>6, <1>7

\* No job's list repeats a code.
JobsUnique == \A d \in Docs : \A k \in 1..Len(history[d]) : Unique(history[d][k].lang)

\* The language a handler has resolved, or taken from a job, is canonical.
LanguageSet(h) ==
    \/ handlers[h].op = "request" /\ handlers[h].pc # "idle"
    \/ Checked(h)

\* The inductive invariant for JobsCanonical.
CanonicalInv ==
    /\ JobsUnique
    /\ \A h \in Handlers : LanguageSet(h) => Unique(handlers[h].lang)

\* Every step keeps the lists without repetitions: resolve makes them so, retry
\* copies one.
LEMMA CanonicalNext ==
    ASSUME CanonicalInv, Inv, [LNext]_lvars
    PROVE  CanonicalInv'
<1>t. TypeOK
  BY DEF Inv
<1>j. ASSUME history' = history
      PROVE  JobsUnique'
  BY <1>j DEF CanonicalInv, JobsUnique
\* One handler goes on as r.
<1>e. ASSUME NEW h \in Handlers, JobsUnique', NEW r, handlers' = [handlers EXCEPT ![h] = r],
             \/ r.pc = "idle"
             \/ r.op = "retry" /\ r.pc \in {"lock", "policy"}
             \/ Unique(r.lang)
      PROVE  CanonicalInv'
  <2>1. handlers'[h] = r
    BY <1>e, <1>t DEF TypeOK
  <2>2. ASSUME NEW g \in Handlers, LanguageSet(g)'
        PROVE  Unique(handlers'[g].lang)
    <3>1. CASE g = h
      BY <1>e, <2>1, <2>2, <3>1 DEF LanguageSet, Checked
    <3>2. CASE g # h
      <4>1. handlers'[g] = handlers[g]
        BY <1>e, <1>t, <3>2 DEF TypeOK
      <4> QED
        BY <2>2, <4>1 DEF LanguageSet, Checked, CanonicalInv
    <3> QED
      BY <3>1, <3>2
  <2> QED
    BY <1>e, <2>2 DEF CanonicalInv, Unique, UniqueCodes
<1>p. PICK idle : idle = IdleHandler
  OBVIOUS
<1>i. idle = IdleHandler /\ idle.pc = "idle"
  BY <1>p DEF IdleHandler
<1>1. ASSUME NEW h \in Handlers, NEW d \in Docs, NEW raw \in Inputs, NEW force \in BOOLEAN,
             RequestAsks(h, d, raw, force)
      PROVE  CanonicalInv'
  <2> DEFINE r == [pc |-> "lock", op |-> "request", doc |-> d, lang |-> Canonical(raw),
                   force |-> force]
  <2>1. history' = history /\ handlers' = [handlers EXCEPT ![h] = r]
    BY <1>1 DEF RequestAsks, BeginRequest
  <2>2. Unique(r.lang)
    BY CanonicalUnique
  <2> HIDE DEF r
  <2> QED
    BY <2>1, <2>2, <1>e, <1>j
<1>2. ASSUME NEW h \in Handlers, NEW d \in Docs, BeginRetry(h, d)
      PROVE  CanonicalInv'
  <2> DEFINE r == [IdleHandler EXCEPT !.pc = "lock", !.op = "retry", !.doc = d]
  <2>1. handlers' = [handlers EXCEPT ![h] = r] /\ history' = history
    BY <1>2 DEF BeginRetry
  <2>2. r.pc = "lock" /\ r.op = "retry"
    BY DEF IdleHandler
  <2> HIDE DEF r
  <2> QED
    BY <2>1, <2>2, <1>e, <1>j
<1>3. ASSUME NEW h \in Handlers, AcquireLock(h)
      PROVE  CanonicalInv'
  <2>0. PICK r : r = [handlers[h] EXCEPT !.pc = "policy"]
    OBVIOUS
  <2>1. handlers' = [handlers EXCEPT ![h] = r] /\ history' = history /\ handlers[h].pc = "lock"
    BY <1>3, <2>0 DEF AcquireLock
  <2>2. /\ r.pc = "policy" /\ r.op = handlers[h].op /\ r.lang = handlers[h].lang
        /\ handlers[h].op \in {"request", "retry"}
    BY <1>t, <2>0 DEF TypeOK, Handler
  <2>3. handlers[h].op = "request" => Unique(handlers[h].lang)
    BY <2>1 DEF CanonicalInv, LanguageSet
  <2>4. (r.op = "retry" /\ r.pc \in {"lock", "policy"}) \/ Unique(r.lang)
    BY <2>2, <2>3
  <2> QED
    BY <2>1, <2>4, <1>e, <1>j
<1>4. ASSUME NEW h \in Handlers, history' = history,
             EndTransaction(h) \/ handlers' = [handlers EXCEPT ![h] = IdleHandler]
      PROVE  CanonicalInv'
  <2>1. handlers' = [handlers EXCEPT ![h] = idle]
    BY <1>4, <1>i DEF EndTransaction
  <2> QED
    BY <1>4, <1>e, <1>i, <1>j, <2>1
<1>5. ASSUME NEW h \in Handlers, CheckRequest(h) \/ AssertQuota(h)
      PROVE  CanonicalInv'
  <2>1. history' = history
    BY <1>5 DEF CheckRequest, AssertQuota
  <2>2. PICK c \in {"quota", "insert"} :
           EndTransaction(h) \/ handlers' = [handlers EXCEPT ![h].pc = c]
    BY <1>5 DEF CheckRequest, AssertQuota
  <2>3. CASE handlers' = [handlers EXCEPT ![h].pc = c]
    <3>0. PICK r : r = [handlers[h] EXCEPT !.pc = c]
      OBVIOUS
    <3>1. handlers' = [handlers EXCEPT ![h] = r]
      BY <2>3, <3>0
    <3>2. r.lang = handlers[h].lang
      BY <1>t, <3>0 DEF TypeOK, Handler
    <3>3. Unique(handlers[h].lang)
      BY <1>5 DEF CheckRequest, AssertQuota, CanonicalInv, LanguageSet, Checked
    <3> QED
      BY <2>1, <3>1, <3>2, <3>3, <1>e, <1>j
  <2> QED
    BY <1>4, <2>1, <2>2, <2>3
<1>6. ASSUME NEW h \in Handlers, CheckRetry(h)
      PROVE  CanonicalInv'
  <2>0. PICK d : d = handlers[h].doc
    OBVIOUS
  <2>1. history' = history
    BY <1>6 DEF CheckRetry
  <2>2. CASE Retryable(d)
    <3>0. PICK l : l = history[d][Len(history[d])].lang
      OBVIOUS
    <3>1. PICK r : r = [handlers[h] EXCEPT !.pc = "quota", !.lang = l]
      OBVIOUS
    <3>2. handlers' = [handlers EXCEPT ![h] = r]
      BY <1>6, <2>0, <2>2, <3>0, <3>1 DEF CheckRetry
    <3>3. r.lang = l
      BY <1>t, <3>1 DEF TypeOK, Handler
    <3>4. d \in Docs
      BY <1>6, <2>0 DEF CheckRetry, Inv, LockInv
    <3>5. Len(history[d]) \in 1..Len(history[d])
      <4>1. history[d] \in Seq(Job) /\ history[d] # <<>>
        BY <2>2, <3>4, <1>t DEF Retryable, TypeOK
      <4>2. Len(history[d]) \in Nat /\ Len(history[d]) # 0
        BY <4>1, EmptySeq, LenProperties
      <4> QED
        BY <4>2
    <3>6. Unique(l)
      BY <3>0, <3>4, <3>5 DEF CanonicalInv, JobsUnique
    <3> QED
      BY <2>1, <3>2, <3>3, <3>6, <1>e, <1>j
  <2>3. CASE ~Retryable(d)
    BY <1>4, <1>6, <2>0, <2>1, <2>3 DEF CheckRetry
  <2> QED
    BY <2>2, <2>3
<1>7. ASSUME NEW h \in Handlers, CreateJob(h)
      PROVE  CanonicalInv'
  <2>1. Unique(handlers[h].lang)
    BY <1>7 DEF CreateJob, CanonicalInv, LanguageSet, Checked
  <2>2. ASSUME NEW e \in Docs, NEW k \in 1..Len(history'[e])
        PROVE  Unique(history'[e][k].lang)
    <3>1. \/ k \in 1..Len(history[e]) /\ history'[e][k].lang = history[e][k].lang
          \/ history'[e][k].lang = handlers[h].lang
      BY <1>7, InsertedLanguage
    <3> QED
      BY <2>1, <3>1 DEF CanonicalInv, JobsUnique
  <2>3. JobsUnique'
    BY <2>2 DEF JobsUnique, Unique, UniqueCodes
  <2>4. handlers' = [handlers EXCEPT ![h] = idle]
    BY <1>7, <1>i DEF CreateJob, EndTransaction
  <2> QED
    BY <1>e, <1>i, <2>3, <2>4
<1>h. ASSUME handlers' = handlers, JobsUnique'
      PROVE  CanonicalInv'
  BY <1>h DEF CanonicalInv, LanguageSet, Checked
<1>8. ASSUME NEW d \in Docs, NEW k \in 1..Len(history[d]), NEW s, NEW e, WorkerStep(d, k, s, e)
      PROVE  CanonicalInv'
  <2>1. ASSUME NEW x \in Docs, NEW m \in 1..Len(history'[x])
        PROVE  Unique(history'[x][m].lang)
    <3>1. m \in 1..Len(history[x]) /\ history'[x][m].lang = history[x][m].lang
      BY <1>8, <1>t, WorkerKeepsLanguages
    <3> QED
      BY <3>1 DEF CanonicalInv, JobsUnique
  <2>2. JobsUnique'
    BY <2>1 DEF JobsUnique, Unique, UniqueCodes
  <2> QED
    BY <1>8, <1>h, <2>2 DEF WorkerStep
<1>9. ASSUME NEW h \in Handlers, Abort(h)
      PROVE  CanonicalInv'
  BY <1>4, <1>9 DEF Abort
<1>10. CASE HealthCheck \/ Describe \/ ProbeEnds \/ Expire \/ UNCHANGED lvars
  BY <1>10, <1>h, <1>j DEF HealthCheck, Describe, ProbeEnds, Expire, lvars, vars
<1>11. ASSUME NEW h \in Handlers, NEW d \in Docs, Refuse(h, d)
       PROVE  CanonicalInv'
  BY <1>11, <1>h, <1>j DEF Refuse, vars
<1>12. ASSUME NEW d \in Docs, DeleteDocument(d)
       PROVE  CanonicalInv'
  BY <1>12, <1>h, <1>j DEF DeleteDocument
<1> QED
  BY <1>1, <1>2, <1>3, <1>5, <1>6, <1>7, <1>8, <1>9, <1>10, <1>11, <1>12
  DEF LNext, HandlerMoves, LockGranted, RetryAsks, QuotaAsked, RefuseLanguage, Fail

\* JobsCanonical: whatever lists clients send and whatever the probes find, the
\* list of every requested or retried job is left as it is by resolve, so that the
\* list retry stores is the list it has had accepted.
THEOREM JobLanguagesCanonical == LSpec => []JobsCanonical
<1>1. ASSUME LInit
      PROVE  CanonicalInv
  <2>1. \A d \in Docs : history[d] = <<>>
    BY <1>1 DEF LInit, Init
  <2>2. JobsUnique
    BY <2>1 DEF JobsUnique
  <2> QED
    BY <1>1, <2>2 DEF LInit, Init, CanonicalInv, LanguageSet, Checked, IdleHandler
<1>2. CanonicalInv /\ Inv /\ [LNext]_lvars => CanonicalInv'
  BY CanonicalNext
<1>3. CanonicalInv /\ JobsOffered => JobsCanonical
  BY CanonicalFixed DEF CanonicalInv, JobsUnique, JobsOffered, Acceptable, JobsCanonical
<1> QED
  BY <1>1, <1>2, <1>3, LanguagesImplementRequests, RequestsInvariance, OnlyOfferedLanguages, PTL
  DEF LSpec
=============================================================================
