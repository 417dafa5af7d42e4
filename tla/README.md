# A TLA+ model of DocuAI

DocuAI is a NestJS API with an OCR worker: users register, organise documents
in folders, upload files to an S3 store through presigned URLs, and have their
text extracted in the background. PostgreSQL (through Prisma) holds all state
that matters, Redis (through BullMQ) only carries queue entries. This directory
models the parts in which several requests, workers, timers and external
services act on the same rows, checks them with TLC on small instances and
proves the main results with TLAPS for every instance.

Paths below are relative to `src/backend/src/` unless they start with `src/`.

## 1. Inventory

| Component | State | Operations | Talks to |
|---|---|---|---|
| OCR requests (`ocr/ocr.service.ts`) | `ocr_jobs` | request, retry, status, results | job persistence, queue, documents |
| OCR job persistence (`ocr/ocr-job.service.ts`) | `ocr_jobs`, `ocr_pages` | claim, heartbeat, persistPage, finalize, fail, requeue, cancel, recover | PostgreSQL |
| OCR queue (`ocr/ocr-queue.service.ts`) | BullMQ entries in Redis | enqueue, isPending, removal of finished entries | Redis |
| OCR worker (`ocr/ocr-worker.service.ts`) | one delivery per slot, heartbeat interval, reconcile timer | process, run, handleFailure, reconcile | all of the above, store, extraction |
| OCR extraction (`ocr/ocr-extraction.service.ts`, `ocr/tools`, `ocr/providers`) | a work directory | inspect, extract pages | poppler and tesseract subprocesses |
| OCR languages (`ocr/ocr-languages.service.ts`) | the cached answer of the engine, the promise of a running probe | availability, resolve, probe | tesseract |
| Document files (`documents/document-files.service.ts`) | file columns of `documents` | upload-url, upload-complete, download-url | store |
| Storage (`storage/`) | objects, presigned URLs | sign, HEAD, DELETE, GET | S3 |
| Documents (`documents/documents.service.ts`) | `documents` | create, list, update, remove | folders |
| Folders (`folders/folders.service.ts`) | `folders` | create, list, update (rename, move), remove | documents |
| Authentication (`auth/auth.service.ts`) | `refresh_tokens` | register, login, refresh, logout | users |
| Users (`users/users.service.ts`) | `users` | create, find, updateProfile | |
| Configuration, HTTP layer, health, Redis/Prisma clients, security services | none, or connections | parsing, guards, envelopes, probes, hashing, logging | |

What is hard in this code:

* **OCR processing.** A job can be delivered several times at once: by BullMQ
  after a stalled lock, by a retry, by a reconciler of any instance. Ownership
  is only the combination of `status` and a fresh `heartbeat_at`; all that
  protects a row are the WHERE clauses of single statements. Workers die between
  any two of them, Redis may lose entries, and a stalled worker may come back
  after it was given up.
* **Creation of jobs.** Policy and quotas are counted before the insert, under
  an advisory lock of the document.
* **Languages.** The engine is asked by a subprocess, at most one at a time; its
  answer is cached for a minute, also when it is a failure. A retry waits for it
  while it holds the lock of the document and a transaction.
* **Uploads.** The client PUTs to the store directly, at any time until its URL
  expires; the API verifies with a HEAD whose answer may be old when it is used.
* **Folders.** Validity of a move is computed by queries that precede the update.
* **Sessions.** Refresh tokens are rotated, and concurrent requests may present
  the same one.

The hazards are listed one by one, at their lines, in `PROJECT.json`.

What makes each component correct:

* pipeline: stored results are complete when a job says so, a terminal job is
  final and is not given up before its last attempt, every job ends and its entry
  leaves the queue; the progress a client polls never falls;
* requests: at most one active job per document, the policy still holds at the
  insert, quotas are not exceeded, nobody waits for the lock for ever;
* languages: jobs only have languages that are offered, as lists that `resolve`
  leaves as they are; a failing engine is not remembered for ever;
* results: a client that pages through them gets every page once, in order;
* uploads: what is served fits what the row announces, cleaning up never hits
  the current object, a settled row is not touched;
* folders: a forest of bounded depth, no dangling references, deletion keeps the
  order of the rest;
* extraction: limits of text, pages, pixels and bytes hold over all attempts, and
  a document interrupted anywhere has the pages of one that was not;
* sessions: a token is exchanged at most once and is dead from then on; the use
  of a dead one ends every session of the user.

## 2. Modules

| Module | Models | Notes |
|---|---|---|
| `OcrJobRows` | the SQL of `ocr-job.service.ts`, one operator per UPDATE | row before → row after; unchanged if WHERE does not match |
| `OcrQueue` | options of `ocr-queue.service.ts` and the BullMQ behaviour the code relies on | BullMQ is external |
| `OcrLifecycle` | abstract specification of a job | what a client can rely on |
| `OcrPipeline` | worker, reconciler, scheduling, faults | composes `OcrJobRows` and `OcrQueue`; instantiates `OcrLifecycle` |
| `OcrExtraction` | download, `OcrExtractionService`, the tool wrappers, over the attempts of one job | the inside of `FetchAndInspect` and `PersistPage` of `OcrPipeline`; tools are external |
| `OcrRequests` | `OcrService.request` and `retry` | workers appear as `WorkerStep` |
| `OcrLanguages` | `OcrLanguagesService` | composed with `OcrRequests`, whose handlers it makes wait for their language |
| `Paging` | skip, take and page count of the lists | no state; used by `OcrResults` |
| `OcrResults` | `OcrService.results` and a client walking through them | composed with `OcrExtraction`, which leaves the rows behind |
| `DocumentUpload` | upload-url, upload-complete, deletion, the store | one document: every key contains the id of its document |
| `FolderTree` | `FoldersService`, placement of documents | one user: every query is scoped by user |
| `AuthSessions` | `AuthService`, `UsersService.create` | |
| `MC…` | instances for TLC: page counts, file bodies, owners, symmetry | |
| `InductionLemmas` | | induction and recursion over naturals, for the proofs |
| `…Proofs` | invariants, lemmas and theorems | |

### How code becomes actions

Every `await` that reads or writes shared state ends a step: the model may
interleave anything at that point. Code between two such awaits is one step. A
statement in PostgreSQL is atomic; a transaction whose intermediate states no
other transaction can see (the rotation of a token, the three statements of a
folder deletion, registration) takes effect in one step, while a transaction
that *reads* before it writes is split at its queries, because READ COMMITTED
shows each query what others have committed by then. Exceptions thrown by a
call, and the death of the process, are actions (`QueryFails`, `RunThrows`,
`HandlerFails`, `Abort`, `Crash`).

Data is abstracted to what the properties tell apart. Times become flags: a
heartbeat is fresh or not, a URL or a token has expired or not. `error_code`
becomes "none", "permanent" (in `PERMANENT_OCR_ERROR_CODES`) or "retryable". A
page is absent, ok (COMPLETED or EMPTY) or failed. A file is a size, a type and
an etag.

**OcrPipeline.** `slots[i]` is the stack of `process` in instance i: `Deliver`
(BullMQ hands an entry over), `FindJob`, `ClaimJob`, `RereadJob`,
`FailExhausted`, `MakeWorkDir` (mkdtemp), then `run`: `LoadDocument`,
`CancelJob`, `FetchAndInspect`, `SetTotalPages`, `ReadProgress`, `PersistPage`
per page, `ReadTally` and `Finalize`; `HandleFailure` on an error; `Settle` when
the handler returns to BullMQ. `recs[i]` is one round of `reconcile`, with the
rows it has read. `leaked` holds heartbeat intervals that no `finally` clears
(`MakeWorkDirFails`). `Progress` (in `OcrJobRows`) is what the serializer makes
of the counters, in tenths of a percent; it is 0 where the serializer says null.
Four ways of losing a job are kept apart: the instance
dies (`Crash`), its heartbeat expires although it is alive (`HeartbeatLapses`),
its BullMQ lock does (`LockLapses`), Redis loses the entry (`LoseEntry`).

**OcrExtraction.** The file is chosen in `Init`. `work` is the stack of `run` and
of the generator `extractPdf`; `stored` the rows of `ocr_pages`; `disk` the work
directory. A text is its length and the counts `isNativeTextUsable` looks at, so
`normalizeExtractedText` and `truncateText` are arithmetic on lengths; each tool
ends in any of five ways. `Crash` forgets `work` and keeps `stored`.

**OcrRequests.** `history[d]` is the sequence of jobs of a document. A handler
goes through the advisory lock, the policy (`CheckRequest` or `CheckRetry`), the
quotas (`AssertQuota`) and the insert (`CreateJob`). `WorkerStep` is any move
the pipeline can make with a job, taken from the abstract lifecycle.

**OcrLanguages.** `cache` is the last answer as long as it is fresh, `probe` the
promise `refreshing`, `calls[h]` what the call of a handler has come to. `request`
asks before it queues for the lock (`RequestAsks`, then `LockGranted`), `retry`
under the lock (`RetryAsks`, then `QuotaAsked`). `Describe` is the subprocess
(external): it finds any of `InstalledSets`, nothing when it fails. `Canonical`,
`Offered` and `Verdict` are the three parts of `resolve`.

**OcrResults.** `reader` is a client that chooses a limit, is refused while the
job is active and then asks for one page after the other until the page count it
was told. The rows are whatever the attempts of `OcrExtraction` have stored.

**DocumentUpload.** A handler of upload-url claims the row with a new key,
removes the superseded object and signs; one of upload-complete asks the store
(`HeadObject`) and then marks the row READY, or FAILED and deletes the object.
`enforced` says whether the store rejects a PUT that contradicts the signed
headers; it is chosen once and for all, so both kinds of store are checked.

**FolderTree.** The recursive queries are operators over the ancestor function
(`AncestorChain`, `SubtreeHeight`), cut at `RecursionLimit` as in the SQL.

**AuthSessions.** `prev` of a token is the one it was exchanged for; the code
records it in the event REFRESH_TOKEN_ROTATED only. The update of `handleReuse`
is two steps: its snapshot (`ScanSessions`) and, after waiting for the locks of
running rotations, its writes (`RevokeSessions`).

## 3. Runs

| Run | Instance | Shows |
|---|---|---|
| `pipeline` | 2 instances, one reconciling, 1 job of 2 pages, 2 attempts; two of 1 crash, 1 lost entry, deletion and a throwing mkdtemp, or 2 lapses | contiguous and complete results, failures explained, terminal rows frozen, no job given up before its last attempt is over, refinement of `OcrLifecycle`, also with overlapping workers; until a lapse one worker per job, exact counters, no page processed twice or after the end, progress that never falls |
| `pipeline_live` | 1 instance, 1 page, 2 attempts, one crash, lapse, loss and fault each | every job ends, the queue drains |
| `requests` | 2 handlers, 1 document, 2 jobs per document, 2 configured languages; the default list, the same one with a repeated code, a list with a language that is not configured; an engine that works or fails | one active job, quota, policy at the insert, offered languages in lists `resolve` leaves as they are, everyone who waits for the lock or the probe answered, refusals end |
| `upload` | 2 handlers, 3 keys, 3 kinds of file | see the properties of `DocumentUpload` |
| `folders` | 4 folders, 1 document, 2 handlers, depth 3 | bounded depth, hence no cycle; nothing dangles; deletion keeps the order |
| `sessions` | 2 accounts, 4 tokens, 2 handlers | exchanged once, one live token per session, revocation is final |
| `extraction` | every PDF of 1 or 2 pages of 5 kinds or 3 pages of 3, an image, 10 files that are refused; 2 attempts | text of an uninterrupted run after any crash, bounded work directory, no page left out; a client reading with a limit of 1 to 3 gets exactly the rows |
| `stuck_job` | mkdtemp may throw | **violated**: a job stays PROCESSING for ever |
| `results_immutable` | 2 lapses | **violated**: a stale worker overwrites a page of a finished job |
| `user_quota` | 2 documents of one user | **violated**: both requests pass the count |
| `reuse` | 1 account, 3 tokens, 2 handlers | **violated**: a session survives the detection of a reused token |
| `ready_without_object` | 2 handlers | **violated**: a rejected completion removes the object of a READY document |

The five violated properties quote what the repository says of itself; the
findings in `PROJECT.json` give the quotations and the lines.

### Bounds and why they are enough

* *Two instances.* Ownership conflicts are between two workers, or a worker and
  a reconciler. One of the two reconciles as well, so a reconciler with an old
  list meets its own worker and a foreign one; a second reconciler is left to
  the proofs.
* *Two pages* distinguish "resume after the last page" from "start over" and
  from "skip one", and leave room for an overlap in the middle of a job.
* *Two attempts* have a last and a not-last one, which is where the code branches.
* *Budgets* (`MaxCrashes`, `MaxLapses`, `MaxLosses`, `MaxFaults`) bound faults
  per behaviour; one or two of each suffice to hit every await, since the model
  chooses when. The proofs have no bound. The constraint `FewFaults` of
  `pipeline` bounds the number of states: crash, loss, deletion and a throwing
  mkdtemp meet in pairs, and a behaviour with lapses (already the case of a
  worker taken for dead) has none of them, and no failed first page.
  `pipeline_live` combines crash, lapse, loss and fault on one instance.
* *Two jobs per document* are the limit and one below it, and give a retry
  something to follow. *Three keys* are the current upload and two concurrent
  new ones. *Three levels of four folders* allow a move to be too deep, to be a
  cycle, and a deletion in the middle of a chain. *Four tokens* allow two
  sessions with a rotation each, or a chain of three rotations.
* *Two configured languages, one that is not, and two states of the engine* give
  every verdict: accepted, not offered, unavailable, and each of them from the
  cache or from a probe. The accepted list has two codes, so that its order is
  seen to be kept. Two different accepted lists at once (a million states, too
  many for the liveness properties) are left to the theorems
  `OnlyOfferedLanguages` and `JobLanguagesCanonical`.
* *Up to three pages of five kinds* (short text; text over the page limit; OCR within
  the pixels; garbage on a page too large to render; a page of unknown size) with
  3 characters per page and 5 per document reach both limits exactly, in the
  middle of a page, and across an interruption; some of the layers overflow the
  buffer of pdftotext.

Symmetry is used for identifiers the code does not compare (keys,
folder ids, tokens, handlers), and never in a run with a liveness property.

### Fairness

`OcrPipeline!Fairness`: weak fairness of deliveries, of the steps of a delivery
(Node's event loop runs on, and every await settles), of the reconcile timer
(`setInterval` in `onModuleInit`), of BullMQ's stalled check and backoff timers,
and of the expiry of heartbeats that nobody renews. Nothing is assumed about
the API, about faults or about `Heartbeat`. What this leaves out is an await
that never settles, such as a download without timeout.

`OcrLanguages!LFairSpec`: weak fairness of the steps of a handler that has its
answer or holds the lock, and strong fairness of `LockGranted`, because
PostgreSQL queues the waiters of a lock in order; weak fairness of `Describe` and
`ProbeEnds`, because the two commands have time limits of five seconds each and
their promise settles either way; weak fairness of `Expire`, because time
passes. Nothing is assumed about clients, workers and the health check.
`OcrRequests!FairSpec` is the same without languages.

## 4. Proofs

All theorems hold for every value of the constants that satisfies the ASSUMEs of
the modules; TLC evaluates those on the instances.

* `InductionLemmas`: induction over an interval of naturals and the existence of
  functions defined by recursion over one. The induction theorems of the library
  take an operator as a parameter, which the provers cannot instantiate; here a
  property is given as the *set* of the numbers that have it (`SetInduction`) and
  a recursion as the function of its steps (`Recursion`), which is first-order.
  The ancestor chains of `FolderTree`, the sums and the buffer of `OcrExtraction`
  and the lists of `OcrLanguages` are reasoned about with these two.
* `OcrPipelineProofs`: `TypeCorrect`, `PagesAreContiguous`, `ResultsAreComplete`,
  `HundredPercentMeansAll`, `TerminalRowsFrozen`, `PipelineImplementsLifecycle`,
  `FailuresAreExplained`, `NoJobGivenUpEarly`; all of them with any number of
  lapses, that is with overlapping workers.
  The properties are not inductive: a worker that has lost its job still writes.
  The invariant adds what each delivery knows (`SlotOK`): before persisting page
  n, pages 1..n-1 are stored; before finalizing, the tally it has read is that of
  all pages. It survives other workers because no step ever removes a page.
  `HundredPercentMeansAll` is arithmetic: below 2000 pages the progress rounds to
  100 % only when every page is done. For the refinement one lemma says what each
  UPDATE can do to a row (`RowMoves`); every action maps to a lifecycle step or a
  stutter, and `Conclude` needs the invariant.
  `NoJobGivenUpEarly` needs that the count a delivery or a reconciler has read is
  never more than the row's (`AttemptsInv`): claims only raise it, so a comparison
  with an old count can only give up too late.
* `OcrOwnershipProofs`: until a lapse, `OneWorkerPerJob`, `CountersAlwaysMatch`,
  `PagesAreWrittenOnce`, `ProgressIsMonotone` (for fewer than 2000 pages, the
  bound of `HundredPercentMeansAll`). An instance holds a job from its claim to
  its last write, and as long as an interval it never cleared beats for it; a held
  row is PROCESSING and fresh, so that neither a claim nor a reconciler takes it
  (`HoldersInv`). There is one exception, which makes the invariant what it is: a
  reconciler that has read a job as stale with its attempts used up fails it even
  when it was claimed since. `RoundsInv` shows that such a claim is beyond the
  attempts as well, so its delivery never stores a page.
* `OcrRequestsProofs`: `OneActiveJob`, `DocumentQuotaHolds`,
  `CreationPolicyHolds`. A handler past the lock holds it (`LockInv`); once its
  policy check has passed, no worker can move a job of the document and nobody
  else can insert, so what was checked still holds (`ChecksInv`). The type
  invariant is part of what `RequestsInvariance` proves.
  With the languages: `LanguagesImplementRequests` (every step is one of
  `OcrRequests` or leaves its variables alone, so its theorems carry over, as in
  `CreationPolicyWithLanguages`), `LanguagesTypes`,
  `OnlyOfferedLanguages` and `JobLanguagesCanonical`. A retry stores the language
  of an older job, so the last two need the same fact for requests that have not
  inserted yet (`OfferedInv`, `CanonicalInv`): a handler past its call has a
  list that was offered and repeats no code.
* `OcrResultsProofs`, for every file, every limit and any number of attempts:
  `ExtractionTyped`, `TextFollowsTheBudget`, `NativeTextOfThePage`,
  `WorkDirectoryBounded`, `ResumesWithoutGap`. The invariant `ExtractionInv` says
  that the rows are those of the first n pages, each cut to what the rows before
  it leave of the limit of the document (`RowsOK`); that the worker is at page
  n + 1 and its budget, the row it is about to store and the stored rows add up to
  the limit (`WorkOK`); and that a whole image belongs to that page (`DiskOK`).
  A crash forgets the worker only, and `ReadProgress` recovers the same sum from
  the rows.
  For the client: `PagesPartition` (for every total and limit each row is on
  exactly one page up to the page count), `ItemsOfPage` (a page holds the rows at
  its positions), `ReadingIsPassive` (the theorems above hold with a client) and
  `ClientGetsEveryPage`: before page k the client has exactly the first
  (k - 1) * limit rows (`WalkOK`), and they stay what they are, since a job that
  has ended takes no further step.
* `FolderTreeProofs`: `FoldersTyped`, `FoldersReachTheRoot`,
  `NoDanglingReference`, `DeletionsKeepTheOrder`, for every number of folders and
  every depth limit. Each statement that changes the hierarchy turns a tree within
  the limit into another one (`InsertKeepsTree`, `MoveKeepsTree`,
  `RemoveKeepsTree`), provided that what the transaction has read still holds.
  That is the second half of `FolderInv`: past the lock nobody else changes the
  hierarchy, so depth, chain and height are still those the checks have seen
  (`Established`).
* `DocumentUploadProofs`: `UploadTyped`, `OnlySupersededRemoved`, `DownloadsFit`,
  `CompletionsAsDeclared`, `SettledRowsStay`. A key belongs to one upload
  (`FreshInv`), so whoever remembers the key of the row remembers its declaration
  (`AgreeInv`), and the object under it fits (`StoreInv`).
* `AuthSessionsProofs`: `SessionsTyped`, `TokensExchangedOnce`,
  `SessionsHaveOneLiveToken`, `RevocationIsFinal`. A token with a successor is
  revoked, so it cannot get a second one; this needs that unissued tokens have
  no successors (`SuccessorsOfIssued`) and what requests carry (`WorkTyped`).

Assumptions on constants that are not merely types, and where the code has them:
`MinChars` is at least 1 (`config/env.validation.ts:233`), so that a usable text
is never empty, and an image has one page (`inspect`). What a client
sends as languages are lists (`ListsAssumption`); `RecursionLimit`, the cut of
the recursive queries, is above `MaxFolderDepth`. `TextAccounted` and the others
are proved from these and from nothing else.

Every invariant and action property of the passing runs is stated by a theorem.
Only model-checked: the four liveness properties (`EveryJobEnds`, `QueueDrains`,
`EveryRequestAnswered`, `RefusalsEnd`), which need fairness and ENABLED, and the
five violated properties.

## 5. Observations

Beside the findings, things met while modelling that are not runs:

* `claim` increments `attempt_count` before `process` compares it with
  `max_attempts`: a redelivery of a stale job in its last attempt stores
  max_attempts + 1 before it fails the job, although
  `src/backend/prisma/schema.prisma:225` calls the count bounded.
* The update of `createUploadUrl` does not test the key it has read, so two
  concurrent calls both succeed; the object of the key in between is removed by
  nobody. `src/docs/ARCHITECTURE.md:289` says such calls cannot interleave.
* A presigned PUT stays valid after completion, so a second PUT of the same size
  and type replaces the file of a READY document; `src/docs/ARCHITECTURE.md:304`
  says that a file can never be silently replaced. An OCR job that is resumed in
  between would join pages of two files (`OcrExtraction` has one file per job).
* `runCommand` drops a chunk of output that does not fit its buffer but keeps a
  later, smaller one. For a text layer over the buffer the pages behind the gap
  move to earlier indices; `NativeTextOfItsPage` fails without its condition.
* The schema says `truncated` marks a cut at the limit of the page; it is also set
  by a cut at the limit of the document.
* A crash leaves the work directory of the attempt behind; nothing removes it.
* What pdftoppm has written of an image when it fails or is killed stays until the
  end of the attempt, one file per such page; `ScratchBounded` speaks of whole
  images only.
* The same codes in another order are another request: `resolve` keeps the order
  (`ocr/ocr-languages.service.ts:73`) and `request` compares the joined lists
  (`ocr/ocr.service.ts:114`), so `eng+fra` is processed again after `fra+eng`, and
  is refused while that one is active. The order is the priority of the engine.
* With 2000 pages, the most `OCR_MAX_PDF_PAGES` allows, 1999 of them round to a
  progress of 100 %.
* A retry asks for the languages while it holds the advisory lock and its
  transaction; when the cache is stale both are held for the time of a
  subprocess. A probe that fails once refuses everyone for a minute.
* Results asked for without a jobId are those of the latest job of the moment: a
  retry between two pages makes a client join pages of two jobs. The list of
  documents counts and reads in two statements, and offsets shift when documents
  come or go between two pages; the tie-breaker mentioned at
  `documents/documents.service.ts:112` only helps while the rows stay.
* An account that is suspended between the check of a refresh and its rotation
  still gets the new token.
* The folder of a document is checked without the lock of the hierarchy; only the
  foreign key prevents a dangling reference, and the request then fails with
  an unspecific error.

## 6. Not modelled

The output formats of poppler and tesseract and the parsing of image headers;
the rounding of a rendered image to whole pixels, and boxes of a page other than
the one pdfinfo reports; presentation (serializers other than the progress, controllers, DTOs); endpoints that only
read (status, the filters and orders of lists, the filter of results on one
page); the HTTP layer; configuration parsing, whose values are the constants
here; health checks beyond the probe they start; hashing, signing and logging;
single-row profile updates; rate limiting (framework). See `components` in
`PROJECT.json`.

`persistPage` is atomic in the model. Its counters come from a sub-select under
READ COMMITTED, so two *overlapping* workers may each miss the other's page; the
model claims exact counters only without lapses. `OcrResults` reads what one
worker at a time has left; that a worker without its claim may still write pages
of a finished job is the finding `ResultsImmutable`.

## 7. Plan

Done: the pipeline, its lifecycle and progress, extraction, requests with their
languages, results, uploads, folders, sessions; proofs of every safety property
the runs check.

Next:

1. What holds in place of the violated properties, as theorems: results that are
   immutable until a lapse, a quota of the user exceeded by no more than the
   requests that run at once.
2. A refinement between `OcrExtraction` and the page steps of `OcrPipeline`.
3. `persistPage` split at the sub-select of its counters.
