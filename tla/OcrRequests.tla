----------------------------- MODULE OcrRequests -----------------------------
(***************************************************************************)
(* Creation of OCR jobs by the API (OcrService.request and retry).  Every  *)
(* API handler reads the document, then runs a transaction that takes the  *)
(* advisory lock of the document, applies the duplicate-job policy and the *)
(* quotas and inserts the row.  Each query is a step of its own; READ      *)
(* COMMITTED shows it what other transactions have committed by then.      *)
(* What happens to a job after its creation is the business of OcrPipeline *)
(* and appears here as WorkerStep.                                         *)
(***************************************************************************)
EXTENDS Integers, Sequences, FiniteSets

CONSTANTS
    Docs,
    Users,
    OwnerOf,                \* the owner of each document
    Langs,                  \* canonical language lists
    Handlers,               \* concurrent requests to the API
    NoHandler,
    NoDoc,
    NoLang,
    MaxActiveJobsPerUser,
    MaxJobsPerDocument

ASSUME RequestsAssumption ==
    /\ OwnerOf \in [Docs -> Users]
    /\ NoHandler \notin Handlers /\ NoDoc \notin Docs /\ NoLang \notin Langs
    /\ MaxActiveJobsPerUser \in Nat \ {0}
    /\ MaxJobsPerDocument \in Nat \ {0}

VARIABLES
    history,    \* the jobs of each document in the order of their creation
    deleted,    \* soft-deleted documents
    lock,       \* holder of the advisory lock of each document
    handlers    \* the request each handler is processing

vars == <<history, deleted, lock, handlers>>

Active == {"QUEUED", "PROCESSING"}

Terminal == {"COMPLETED", "PARTIAL", "FAILED", "CANCELLED"}

\* error: no code, one of PERMANENT_OCR_ERROR_CODES, another code.
Job == [lang : Langs, status : Active \union Terminal, error : {"none", "permanent", "retryable"}]

Handler ==
    [ pc    : {"idle", "lock", "policy", "quota", "insert"},
      op    : {"request", "retry"},
      doc   : Docs \union {NoDoc},
      lang  : Langs \union {NoLang},
      force : BOOLEAN ]

IdleHandler == [pc |-> "idle", op |-> "request", doc |-> NoDoc, lang |-> NoLang, force |-> FALSE]

Init ==
    /\ history = [d \in Docs |-> <<>>]
    /\ deleted = {}
    /\ lock = [d \in Docs |-> NoHandler]
    /\ handlers = [h \in Handlers |-> IdleHandler]

-----------------------------------------------------------------------------
(* Queries *)

IsActive(job) == job.status \in Active

\* countActiveForUser
ActiveJobsOf(u) ==
    LET jobs == UNION {{d} \X (1..Len(history[d])) : d \in {x \in Docs : OwnerOf[x] = u}}
    IN  {p \in jobs : IsActive(history[p[1]][p[2]])}

HasActive(d) == \E k \in 1..Len(history[d]) : IsActive(history[d][k])

\* latestForLanguage exists and is COMPLETED or PARTIAL
HasResult(d, l) ==
    \E k \in 1..Len(history[d]) :
        /\ history[d][k].lang = l
        /\ history[d][k].status \in {"COMPLETED", "PARTIAL"}
        /\ \A m \in (k + 1)..Len(history[d]) : history[d][m].lang # l

\* The latest job of the document may be retried.
Retryable(d) ==
    /\ history[d] # <<>>
    /\ history[d][Len(history[d])].status \in {"FAILED", "PARTIAL"}
    /\ history[d][Len(history[d])].error # "permanent"

-----------------------------------------------------------------------------
(* A request *)

\* getOwned and assertProcessable, outside the transaction.
BeginRequest(h, d, l, force) ==
    /\ handlers[h].pc = "idle"
    /\ d \notin deleted
    /\ handlers' = [handlers EXCEPT ![h] = [pc |-> "lock", op |-> "request", doc |-> d,
                                            lang |-> l, force |-> force]]
    /\ UNCHANGED <<history, deleted, lock>>

BeginRetry(h, d) ==
    /\ handlers[h].pc = "idle"
    /\ d \notin deleted
    /\ handlers' = [handlers EXCEPT ![h] = [IdleHandler EXCEPT !.pc = "lock", !.op = "retry",
                                                               !.doc = d]]
    /\ UNCHANGED <<history, deleted, lock>>

\* The document is gone: the request is refused.
Refuse(h, d) ==
    /\ handlers[h].pc = "idle"
    /\ d \in deleted
    /\ UNCHANGED vars

\* Mutant: the lock does not exclude.
AcquireSharedLock(h) ==
    /\ handlers[h].pc = "lock"
    /\ lock' = [lock EXCEPT ![handlers[h].doc] = h]
    /\ handlers' = [handlers EXCEPT ![h].pc = "policy"]
    /\ UNCHANGED <<history, deleted>>

\* withDocumentLock
AcquireLock(h) ==
    LET d == handlers[h].doc
    IN  /\ handlers[h].pc = "lock"
        /\ lock[d] = NoHandler
        /\ lock' = [lock EXCEPT ![d] = h]
        /\ handlers' = [handlers EXCEPT ![h].pc = "policy"]
        /\ UNCHANGED <<history, deleted>>

\* Mutant: a lock of the session, which the end of the transaction keeps.
EndTransactionKeepsLock(h) ==
    /\ handlers' = [handlers EXCEPT ![h] = IdleHandler]
    /\ UNCHANGED lock

\* The transaction ends, committed or rolled back, and with it the lock.
EndTransaction(h) ==
    /\ lock' = [lock EXCEPT ![handlers[h].doc] = NoHandler]
    /\ handlers' = [handlers EXCEPT ![h] = IdleHandler]

\* Mutant: a usable result does not stop a request.
CheckRequestActiveOnly(h) ==
    /\ handlers[h].pc = "policy"
    /\ handlers[h].op = "request"
    /\ IF HasActive(handlers[h].doc)
       THEN EndTransaction(h)
       ELSE /\ handlers' = [handlers EXCEPT ![h].pc = "quota"]
            /\ UNCHANGED lock
    /\ UNCHANGED <<history, deleted>>

\* request: an active job is returned or refused, a usable result is returned.
CheckRequest(h) ==
    LET d == handlers[h].doc
    IN  /\ handlers[h].pc = "policy"
        /\ handlers[h].op = "request"
        /\ IF HasActive(d) \/ (~handlers[h].force /\ HasResult(d, handlers[h].lang))
           THEN EndTransaction(h)
           ELSE /\ handlers' = [handlers EXCEPT ![h].pc = "quota"]
                /\ UNCHANGED lock
        /\ UNCHANGED <<history, deleted>>

\* retry: the latest job decides, and gives its language to the new one.
CheckRetry(h) ==
    LET d == handlers[h].doc
    IN  /\ handlers[h].pc = "policy"
        /\ handlers[h].op = "retry"
        /\ IF Retryable(d)
           THEN /\ handlers' = [handlers EXCEPT ![h].pc = "quota",
                                                ![h].lang = history[d][Len(history[d])].lang]
                /\ UNCHANGED lock
           ELSE EndTransaction(h)
        /\ UNCHANGED <<history, deleted>>

\* Mutant: the limits are off by one.
AssertQuotaOffByOne(h) ==
    LET d == handlers[h].doc
    IN  /\ handlers[h].pc = "quota"
        /\ IF \/ Cardinality(ActiveJobsOf(OwnerOf[d])) > MaxActiveJobsPerUser
              \/ Len(history[d]) > MaxJobsPerDocument
           THEN EndTransaction(h)
           ELSE /\ handlers' = [handlers EXCEPT ![h].pc = "insert"]
                /\ UNCHANGED lock
        /\ UNCHANGED <<history, deleted>>

AssertQuota(h) ==
    LET d == handlers[h].doc
    IN  /\ handlers[h].pc = "quota"
        /\ IF \/ Cardinality(ActiveJobsOf(OwnerOf[d])) >= MaxActiveJobsPerUser
              \/ Len(history[d]) >= MaxJobsPerDocument
           THEN EndTransaction(h)
           ELSE /\ handlers' = [handlers EXCEPT ![h].pc = "insert"]
                /\ UNCHANGED lock
        /\ UNCHANGED <<history, deleted>>

\* createJob and the commit.
CreateJob(h) ==
    LET d   == handlers[h].doc
        job == [lang |-> handlers[h].lang, status |-> "QUEUED", error |-> "none"]
    IN  /\ handlers[h].pc = "insert"
        /\ history' = [history EXCEPT ![d] = Append(@, job)]
        /\ EndTransaction(h)
        /\ UNCHANGED deleted

\* A query throws, the language of a retry is not installed any more, the
\* transaction times out or the API process dies: rollback.
Abort(h) ==
    /\ handlers[h].pc \in {"lock", "policy", "quota", "insert"}
    /\ handlers' = [handlers EXCEPT ![h] = IdleHandler]
    /\ lock' = [lock EXCEPT ![handlers[h].doc] = IF @ = h THEN NoHandler ELSE @]
    /\ UNCHANGED <<history, deleted>>

-----------------------------------------------------------------------------
(* Everybody else *)

\* A worker or reconciler moves an active job along its lifecycle.
WorkerStep(d, k, status, error) ==
    /\ IsActive(history[d][k])
    /\ status \in {"COMPLETED", "PARTIAL"} => history[d][k].status = "PROCESSING"
    /\ (status = "COMPLETED") => (error = "none")
    /\ status \in {"PARTIAL", "FAILED"} => error # "none"
    /\ status = "CANCELLED" => error = "permanent"
    /\ status = "QUEUED" => history[d][k].status = "PROCESSING" /\ error # "permanent"
    /\ status = "PROCESSING" => error = "none"
    /\ history' = [history EXCEPT ![d][k].status = status, ![d][k].error = error]
    /\ UNCHANGED <<deleted, lock, handlers>>

DeleteDocument(d) ==
    /\ d \notin deleted
    /\ deleted' = deleted \union {d}
    /\ UNCHANGED <<history, lock, handlers>>

HandlerStep(h) ==
    \/ CheckRequest(h) \/ CheckRetry(h) \/ AssertQuota(h) \/ CreateJob(h)

Next ==
    \/ \E h \in Handlers :
          \/ \E d \in Docs :
                \/ Refuse(h, d)
                \/ BeginRetry(h, d)
                \/ \E l \in Langs, force \in BOOLEAN : BeginRequest(h, d, l, force)
          \/ AcquireLock(h) \/ HandlerStep(h) \/ Abort(h)
    \/ \E d \in Docs :
          \/ DeleteDocument(d)
          \/ \E k \in 1..Len(history[d]), s \in Active \union Terminal,
                e \in {"none", "permanent", "retryable"} : WorkerStep(d, k, s, e)

Spec == Init /\ [][Next]_vars

\* A handler keeps running; the lock queue of Postgres is first come, first served.
FairSpec ==
    /\ Spec
    /\ \A h \in Handlers : WF_vars(HandlerStep(h)) /\ SF_vars(AcquireLock(h))

-----------------------------------------------------------------------------
(* Properties *)

\* Every variable holds what the code can put into it.
TypeOK ==
    /\ history \in [Docs -> Seq(Job)]
    /\ deleted \subseteq Docs
    /\ lock \in [Docs -> Handlers \union {NoHandler}]
    /\ handlers \in [Handlers -> Handler]

\* Only the latest job of a document can be active, so a document never has two
\* active jobs: retry relies on this, it looks at the latest job only.
OnlyLatestActive ==
    \A d \in Docs : \A k \in 1..(Len(history[d]) - 1) : ~IsActive(history[d][k])

\* A document never gets more jobs than maxJobsPerDocument, although the count
\* is taken before the insert.
DocumentQuota == \A d \in Docs : Len(history[d]) <= MaxJobsPerDocument

\* What the policy checked at the start of the transaction still holds when
\* the row is inserted: without force no usable result of the language is
\* repeated, a retry follows a retryable job and keeps its language.
PolicyHolds(h) ==
    LET d   == handlers[h].doc
        old == history[d]
    IN  CASE handlers[h].op = "request" ->
                ~HasActive(d) /\ (handlers[h].force \/ ~HasResult(d, handlers[h].lang))
          [] handlers[h].op = "retry" ->
                Retryable(d) /\ history'[d][Len(old) + 1].lang = old[Len(old)].lang

CreationPolicy == [][\A h \in Handlers : CreateJob(h) => PolicyHolds(h)]_vars

\* A user never has more than maxActiveJobsPerUser queued or processing jobs.
UserQuota == \A u \in Users : Cardinality(ActiveJobsOf(u)) <= MaxActiveJobsPerUser

\* A request that waits for the lock of its document is answered.
EveryRequestAnswered ==
    \A h \in Handlers : handlers[h].pc = "lock" ~> handlers[h].pc = "idle"

=============================================================================
