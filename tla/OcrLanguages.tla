----------------------------- MODULE OcrLanguages ----------------------------
(***************************************************************************)
(* The languages of one API process (OcrLanguagesService), composed with   *)
(* the requests of OcrRequests.  A language is offered when it is          *)
(* configured and the engine has its data; the answer of the engine is     *)
(* cached, and everyone who finds no fresh answer waits for the one probe  *)
(* that is running.  request asks before it takes the lock of the          *)
(* document, retry asks while it holds the lock and its transaction.       *)
(*                                                                         *)
(* The handlers advance as in OcrRequests; this module only delays them    *)
(* until their call is answered, so that a handler in pc "lock" (request)  *)
(* or "quota" (retry) may still be waiting for its language.               *)
(***************************************************************************)
EXTENDS OcrRequests

CONSTANTS
    Inputs,             \* lists of codes a client may send; <<>> is none
    DefaultLanguage,    \* config.defaultLanguage
    Configured,         \* config.supportedLanguages
    MaxLanguagesPerJob,
    InstalledSets       \* what the engine may have; {} also when it fails

ASSUME LanguagesAssumption ==
    /\ MaxLanguagesPerJob \in Nat
    /\ InstalledSets # {}

VARIABLES
    cache,      \* the last answer while it is fresh; afterwards nobody reads it
    probe,      \* the promise `refreshing`
    calls       \* what each handler knows about its language

lvars == <<history, deleted, lock, handlers, cache, probe, calls>>

Probe == [state : {"none", "running", "described"}, found : SUBSET UNION InstalledSets]

Cache == [fresh : BOOLEAN, available : SUBSET Configured]

NoCache == [fresh |-> FALSE, available |-> {}]

NoProbe == [state |-> "none", found |-> {}]

-----------------------------------------------------------------------------
(* Language lists *)

Codes(l) == {l[i] : i \in DOMAIN l}

\* The positions of the first occurrence of each code.
Firsts(list) == {i \in DOMAIN list : \A j \in 1..(i - 1) : list[j] # list[i]}

\* The k-th smallest number of a set.
Nth(S, k) == CHOOSE i \in S : Cardinality({j \in S : j <= i}) = k

\* resolve: the default for an empty list, then the first occurrence of each
\* code, in the order given.
Canonical(raw) ==
    LET list == IF raw = <<>> THEN DefaultLanguage ELSE raw
    IN  [k \in 1..Cardinality(Firsts(list)) |-> list[Nth(Firsts(list), k)]]

\* What a client sends and the default are lists of codes.
ASSUME ListsAssumption == \A raw \in Inputs \union {DefaultLanguage} : raw \in Seq(Codes(raw))

ASSUME LanguagesTyped == \A raw \in Inputs : Canonical(raw) \in Langs

\* Mutant: what is installed is offered.
OfferedAll(found) == found

\* probe: the configured languages whose data is installed.
Offered(found) == Configured \intersect found

\* The cache after a probe.
Answer(found) == [fresh |-> TRUE, available |-> Offered(found)]

\* resolve: with no language at all OCR is unavailable; otherwise every code must
\* be offered.  (The syntax of a code need not be looked at: parseLanguageList
\* lets no other code through.)
Verdict(available, l) ==
    IF /\ available # {}
       /\ l # <<>> /\ Len(l) <= MaxLanguagesPerJob
       /\ Codes(l) \subseteq available
    THEN "ok" ELSE "refused"

\* onModuleInit has awaited a probe before the first request arrives.
LInit ==
    /\ Init
    /\ cache \in {Answer(found) : found \in InstalledSets}
    /\ probe = NoProbe
    /\ calls = [h \in Handlers |-> "none"]

-----------------------------------------------------------------------------
(* The cache *)

\* availability, called by a handler.
Availability(h, l) ==
    IF cache.fresh
    THEN /\ calls' = [calls EXCEPT ![h] = Verdict(cache.available, l)]
         /\ UNCHANGED probe
    ELSE /\ calls' = [calls EXCEPT ![h] = "waiting"]
         /\ probe' = IF probe.state = "none" THEN [probe EXCEPT !.state = "running"] ELSE probe

\* The health check asks for the same answer and may be the first to do so.
HealthCheck ==
    /\ ~cache.fresh /\ probe.state = "none"
    /\ probe' = [probe EXCEPT !.state = "running"]
    /\ UNCHANGED <<vars, cache, calls>>

\* describe: tesseract --list-langs, with a time limit of its own.  Language packs
\* come and go, and an engine that fails has none.
Describe ==
    /\ probe.state = "running"
    /\ \E found \in InstalledSets : probe' = [state |-> "described", found |-> found]
    /\ UNCHANGED <<vars, cache, calls>>

\* The answer, whatever it is, is cached; `refreshing` is reset, and everyone
\* who waits for it goes on.
ProbeEnds ==
    /\ probe.state = "described"
    /\ cache' = Answer(probe.found)
    /\ probe' = NoProbe
    /\ calls' = [h \in Handlers |-> IF calls[h] = "waiting"
                                    THEN Verdict(Offered(probe.found), handlers[h].lang) ELSE calls[h]]
    /\ UNCHANGED vars

\* Mutant: an answer that offers nothing does not expire.
ExpireUnlessEmpty ==
    /\ cache.fresh /\ cache.available # {}
    /\ cache' = NoCache
    /\ UNCHANGED <<vars, probe, calls>>

\* The answer is REFRESH_MS old.
Expire ==
    /\ cache.fresh
    /\ cache' = NoCache
    /\ UNCHANGED <<vars, probe, calls>>

-----------------------------------------------------------------------------
(* The requests *)

Unasked == UNCHANGED <<cache, probe, calls>>

CallDone(h) ==
    /\ calls' = [calls EXCEPT ![h] = "none"]
    /\ UNCHANGED <<cache, probe>>

\* Mutant: the list is validated, but stored as the client sent it.
RequestKeepsRaw(h, d, raw, force) ==
    /\ BeginRequest(h, d, raw, force)
    /\ Availability(h, Canonical(raw))
    /\ UNCHANGED cache

\* request: getOwned, then resolve; its result is what the job gets.
RequestAsks(h, d, raw, force) ==
    /\ BeginRequest(h, d, Canonical(raw), force)
    /\ Availability(h, Canonical(raw))
    /\ UNCHANGED cache

\* request takes the lock when its language is accepted; retry has not asked yet.
LockGranted(h) ==
    /\ handlers[h].op = "request" => calls[h] = "ok"
    /\ AcquireLock(h)
    /\ CallDone(h)

\* retry: a retryable job, then resolve of its language, under the lock.  The
\* result is dropped; that it is the stored list itself is JobsCanonical.
RetryAsks(h) ==
    LET d == handlers[h].doc
    IN  /\ CheckRetry(h)
        /\ IF Retryable(d)
           THEN Availability(h, history[d][Len(history[d])].lang)
           ELSE UNCHANGED <<probe, calls>>
        /\ UNCHANGED cache

\* assertQuota follows resolve.
QuotaAsked(h) ==
    /\ handlers[h].op = "retry" => calls[h] = "ok"
    /\ AssertQuota(h)
    /\ CallDone(h)

\* resolve throws; a retry is rolled back.
RefuseLanguage(h) == calls[h] = "refused" /\ Abort(h) /\ CallDone(h)

\* assertProcessable refuses the file of the document, a quota is exhausted, or the
\* request dies, also while it waits for the answer.
Fail(h) == Abort(h) /\ CallDone(h)

-----------------------------------------------------------------------------

HandlerMoves(h) ==
    \/ CheckRequest(h) /\ Unasked
    \/ RetryAsks(h)
    \/ QuotaAsked(h)
    \/ CreateJob(h) /\ Unasked
    \/ RefuseLanguage(h)

LNext ==
    \/ \E h \in Handlers :
          \/ \E d \in Docs :
                \/ Refuse(h, d) /\ Unasked
                \/ BeginRetry(h, d) /\ Unasked
                \/ \E raw \in Inputs, force \in BOOLEAN : RequestAsks(h, d, raw, force)
          \/ LockGranted(h) \/ HandlerMoves(h) \/ Fail(h)
    \/ \E d \in Docs :
          \/ DeleteDocument(d) /\ Unasked
          \/ \E k \in 1..Len(history[d]), s \in Active \union Terminal,
                e \in {"none", "permanent", "retryable"} : WorkerStep(d, k, s, e) /\ Unasked
    \/ HealthCheck \/ Describe \/ ProbeEnds \/ Expire

LSpec == LInit /\ [][LNext]_lvars

\* As in OcrRequests; the two commands of describe have a time limit of five
\* seconds, and time passes.
LFairSpec ==
    /\ LSpec
    /\ \A h \in Handlers : WF_lvars(HandlerMoves(h)) /\ SF_lvars(LockGranted(h))
    /\ WF_lvars(Describe) /\ WF_lvars(ProbeEnds) /\ WF_lvars(Expire)

-----------------------------------------------------------------------------
(* Properties *)

\* Every variable holds what the code can put into it; only configured languages
\* are cached.
LanguagesTypeOK ==
    /\ cache \in Cache
    /\ probe \in Probe
    /\ calls \in [Handlers -> {"none", "waiting", "ok", "refused"}]

\* The language of every job, requested or retried any number of times, is what
\* resolve makes of it.  So the list that retry stores is the one resolve has just
\* accepted, although retry drops the result, and a request that sends the list of
\* a job gets that list to compare with.  The order of the codes counts: it is the
\* priority of the engine, and the same codes in another order are another list.
JobsCanonical ==
    \A d \in Docs : \A k \in 1..Len(history[d]) :
        Canonical(history[d][k].lang) = history[d][k].lang

\* What resolve accepts when everything configured is installed.
Acceptable(l) == l # <<>> /\ Len(l) <= MaxLanguagesPerJob /\ Codes(l) \subseteq Configured

\* Every language of every job is configured, and there are not too many of them,
\* whatever the engine has installed while requests and retries come in.
JobsOffered ==
    \A d \in Docs : \A k \in 1..Len(history[d]) : Acceptable(history[d][k].lang)

\* A failing engine is not remembered for ever although its empty answer is
\* cached like any other: when from some time on every probe finds the languages
\* of a list, requests for it are at some time no longer refused.
RefusalsEnd ==
    \A l \in {Canonical(raw) : raw \in Inputs} :
        Acceptable(l) =>
            (<>[](probe.state = "described" => Codes(l) \subseteq probe.found)
               => <>[](\A h \in Handlers : ~(handlers[h].lang = l /\ calls[h] = "refused")))

=============================================================================
