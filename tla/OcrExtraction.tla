---------------------------- MODULE OcrExtraction ----------------------------
(***************************************************************************)
(* One OCR job from the inside: what OcrWorkerService.run does with the    *)
(* file of a document and OcrExtractionService with its pages, over all    *)
(* the attempts of the job.  OcrPipeline has the claims, the queue and the *)
(* other workers; here one worker at a time holds the job, may crash, and  *)
(* the next attempt resumes from the rows of `ocr_pages`.                  *)
(*                                                                         *)
(* The file is chosen at the start and stays.  Of a text only what the     *)
(* rules look at is kept, a record                                         *)
(*   raw       characters the tool writes                                  *)
(*   noise     characters normalizeExtractedText drops                     *)
(*   gaps      further characters that collapsing white space drops        *)
(*   nonSpace  characters that are not white space                         *)
(*   alnum     letters and digits among them                               *)
(* and a stored text is a prefix, given by its length.  The external tools *)
(* (pdfinfo, pdftotext, pdftoppm, tesseract) end in one of Outcomes.       *)
(***************************************************************************)
EXTENDS Integers, Sequences, FiniteSets, FiniteSetsExt

CONSTANTS
    Files,              \* the files a document may have
    MaxAttempts,        \* OCR_MAX_ATTEMPTS
    MaxFileSize,        \* limits.maxFileSizeBytes
    MaxPdfPages,        \* limits.maxPdfPages
    MaxImagePixels,     \* limits.maxImagePixels
    MaxTextPerPage,     \* limits.maxTextPerPage
    MaxTextPerDocument, \* limits.maxTextPerDocument
    LayerSlack,         \* the 1 MiB added to the buffer of pdftotext
    RenderDpi,          \* limits.renderDpi
    MinRenderDpi,       \* MIN_RENDER_DPI
    MaxRenderPixels,    \* limits.maxRenderPixels
    MinChars,           \* nativeText.minChars
    MinAlnumPercent     \* nativeText.minAlphanumericRatio, in percent

VARIABLES
    file,      \* the stored object and what the tools make of it
    stored,    \* the rows of ocr_pages: page number -> PageRow
    attempts,  \* attempt_count
    work,      \* the worker
    disk       \* its work directory

vars == <<file, stored, attempts, work, disk>>

Text ==
    {t \in [raw : Nat, noise : Nat, gaps : Nat, nonSpace : Nat, alnum : Nat] :
        t.noise + t.gaps <= t.raw}

NoText == [raw |-> 0, noise |-> 0, gaps |-> 0, nonSpace |-> 0, alnum |-> 0]

\* A page: its text layer, what the engine recognises, its size in square
\* inches and whether pdfinfo reports it.
Page == [native : Text, ocr : Text, area : Nat, reported : BOOLEAN]

\* declared is the file_size of the row, length the Content-Length of the store
\* (0: not known); readable says that pdfinfo or the header parser understands
\* the file; an image has one page.
File ==
    [ format : {"pdf", "image", "none"}, matches : BOOLEAN, readable : BOOLEAN,
      declared : Nat, length : Nat, bytes : Nat, pixels : Nat, pages : Seq(Page) ]

ASSUME ExtractionAssumption ==
    /\ {MaxAttempts, MaxTextPerPage, MaxTextPerDocument, MinRenderDpi, MinChars} \subseteq Nat \ {0}
    /\ {MaxFileSize, MaxPdfPages, MaxImagePixels, LayerSlack, RenderDpi,
        MaxRenderPixels, MinAlnumPercent} \subseteq Nat
    /\ MinRenderDpi <= RenderDpi
    /\ Files \subseteq File
    /\ \A f \in Files : f.format = "image" => Len(f.pages) = 1

\* How runCommand ends: exit status 0, another one, killed at the time limit,
\* ENOENT, or another error of spawn.
Outcomes == {"ok", "exit", "timeout", "notFound", "other"}

\* A tool that ran and failed spoils one page; one that could not be started
\* aborts the attempt.
Spoiled == {"exit", "timeout"}

Unavailable == {"notFound", "other"}

\* from is the page the text is of; rated says that confidence is not NULL.
PageRow ==
    [ status : {"COMPLETED", "EMPTY", "FAILED"}, method : {"NATIVE_TEXT", "OCR", "none"},
      from : Nat, chars : Nat, truncated : BOOLEAN, rated : BOOLEAN,
      code : {"none", "OCR_TEXT_LIMIT_EXCEEDED", "OCR_PROCESSING_TIMEOUT",
              "OCR_PAGE_TOO_LARGE", "OCR_INVALID_FILE", "OCR_PROCESSING_FAILED"} ]

FailedPage(code, method) ==
    [ status |-> "FAILED", method |-> method, from |-> 0, chars |-> 0,
      truncated |-> FALSE, rated |-> FALSE, code |-> code ]

NoRow == FailedPage("none", "none")

Busy == {"open", "download", "inspect", "progress", "layer", "page", "ocr", "persist"}

Timed == {"layer", "page", "ocr", "persist"}

Idle ==
    [ pc |-> "idle", page |-> 0, budget |-> 0, layer |-> <<>>, late |-> FALSE,
      out |-> NoRow ]

EmptyDir == [input |-> 0, images |-> {}]

Total == IF file.format = "pdf" THEN Len(file.pages) ELSE 1

Init ==
    /\ file \in Files
    /\ stored = [p \in {} |-> NoRow]
    /\ attempts = 0
    /\ work = Idle
    /\ disk = EmptyDir

-----------------------------------------------------------------------------
(* The rules *)

\* normalizeExtractedText: control characters, trailing blanks, repeated blank
\* lines and outer white space go.
Normalized(t) == t.raw - t.noise

\* isNativeTextUsable.
Usable(t) ==
    /\ Normalized(t) - t.gaps >= MinChars
    /\ t.nonSpace > 0
    /\ t.alnum * 100 >= MinAlnumPercent * t.nonSpace

\* Mutant: the cut looks at the limit of the page only.
StoreTextWhole(method, from, chars, rated, budget) ==
    [ status |-> IF chars = 0 THEN "EMPTY" ELSE "COMPLETED", method |-> method,
      from |-> from, chars |-> Min({chars, MaxTextPerPage}),
      truncated |-> chars > MaxTextPerPage, rated |-> rated, code |-> "none" ]

\* truncateText: how many characters are left of a text within the limits.
TruncateText(chars, limits) == Min({chars} \union limits)

StoreText(method, from, chars, rated, budget) ==
    LET cut == TruncateText(chars, {MaxTextPerPage, budget})
        row == [ status |-> "EMPTY", method |-> method, from |-> from, chars |-> 0,
                 truncated |-> FALSE, rated |-> rated, code |-> "none" ]
    IN  CASE chars = 0 -> row
          [] chars > 0 /\ budget <= 0 -> FailedPage("OCR_TEXT_LIMIT_EXCEEDED", method)
          [] OTHER -> [row EXCEPT !.status = "COMPLETED", !.chars = cut,
                                  !.truncated = chars > cut]

\* renderDpiFor: the largest resolution that keeps the page within the pixels,
\* at most the configured one, which is also that of a page of unknown size.
DpiFor(page) ==
    IF page.reported /\ page.area > 0
    THEN Max({d \in 0..RenderDpi : d * d * page.area <= MaxRenderPixels})
    ELSE RenderDpi

\* Mutant: pages without a text layer leave no entry.
CapturedNonEmpty(pages) == SelectSeq([p \in DOMAIN pages |-> p], LAMBDA p : pages[p].native.raw > 1)

\* runCommand: a chunk of the output (here the text of page p with its form feed)
\* that does not fit the buffer is dropped, and a later one may still fit.
Keep(pages, acc, p) ==
    IF acc.bytes + pages[p].native.raw > 4 * MaxTextPerDocument + LayerSlack
    THEN acc
    ELSE [bytes |-> acc.bytes + pages[p].native.raw, kept |-> Append(acc.kept, p)]

\* What is kept of the output of pdftotext, as the sequence of the pages whose
\* text is kept.
Captured(pages) ==
    LET read[p \in 0..Len(pages)] ==
          IF p = 0 THEN [bytes |-> 0, kept |-> <<>>] ELSE Keep(pages, read[p - 1], p)
    IN  read[Len(pages)].kept

\* The page whose text the array of extractText has at index p (0: padding).
Source(p) == IF p <= Len(work.layer) THEN work.layer[p] ELSE 0

NativeText(p) == IF Source(p) = 0 THEN NoText ELSE file.pages[Source(p)].native

SumTo(c, n) ==
    LET sum[p \in 0..n] == IF p = 0 THEN 0 ELSE sum[p - 1] + c[p]
    IN  sum[n]

\* The characters stored for the pages up to n.
Used(rows, n) ==
    SumTo([p \in 1..n |-> IF p \in DOMAIN rows THEN rows[p].chars ELSE 0], n)

-----------------------------------------------------------------------------
(* The attempt and the file *)

\* run throws or returns: the finally of process removes the work directory;
\* handleFailure decides between a further attempt and the end.
Stop(permanent) ==
    /\ work' = [Idle EXCEPT !.pc = IF permanent \/ attempts >= MaxAttempts
                                   THEN "failed" ELSE "idle"]
    /\ disk' = EmptyDir
    /\ UNCHANGED <<file, stored, attempts>>

\* A claim that finds the attempts used up (after a crash in the last one).
GiveUp ==
    /\ work.pc = "idle"
    /\ attempts = MaxAttempts
    /\ Stop(TRUE)

\* run: the declared size is checked before anything is read.
Begin ==
    /\ work.pc = "idle"
    /\ attempts < MaxAttempts
    /\ attempts' = attempts + 1
    /\ work' = [Idle EXCEPT !.pc = IF file.declared > MaxFileSize THEN "failed" ELSE "open"]
    /\ UNCHANGED <<file, stored, disk>>

\* download: a missing object, or one whose length is over the limit, is final.
OpenObject ==
    /\ work.pc = "open"
    /\ IF file.length > MaxFileSize
       THEN Stop(TRUE)
       ELSE /\ work' = [work EXCEPT !.pc = "download"]
            /\ UNCHANGED <<file, stored, attempts, disk>>

ObjectMissing == work.pc = "open" /\ Stop(TRUE)

\* The store fails at the request or within the stream.
StorageFails == work.pc \in {"open", "download"} /\ Stop(FALSE)

\* The limiter counts before it passes a chunk on.
ReceiveChunk(n) ==
    /\ work.pc = "download"
    /\ disk.input + n <= file.bytes
    /\ IF disk.input + n > MaxFileSize
       THEN Stop(TRUE)
       ELSE /\ disk' = [disk EXCEPT !.input = @ + n]
            /\ UNCHANGED <<file, stored, attempts, work>>

DownloadEnds ==
    /\ work.pc = "download"
    /\ disk.input = file.bytes
    /\ work' = [work EXCEPT !.pc = "inspect"]
    /\ UNCHANGED <<file, stored, attempts, disk>>

\* inspect: the bytes decide the format, which must be the declared one.
InspectFormat ==
    /\ work.pc = "inspect"
    /\ file.format = "none" \/ ~file.matches
    /\ Stop(TRUE)

InspectImage ==
    /\ work.pc = "inspect"
    /\ file.format = "image" /\ file.matches
    /\ IF ~file.readable \/ file.pixels > MaxImagePixels
       THEN Stop(TRUE)
       ELSE /\ work' = [work EXCEPT !.pc = "progress"]
            /\ UNCHANGED <<file, stored, attempts, disk>>

\* A PDF that pdfinfo cannot parse, or with no page or too many, is final; a
\* pdfinfo that is missing or runs out of time is not.
InspectPdf(o) ==
    /\ work.pc = "inspect"
    /\ file.format = "pdf" /\ file.matches
    /\ IF o \in Unavailable \union {"timeout"} THEN Stop(FALSE)
       ELSE IF o = "exit" \/ ~file.readable \/ Len(file.pages) \notin 1..MaxPdfPages
       THEN Stop(TRUE)
       ELSE /\ work' = [work EXCEPT !.pc = "progress"]
            /\ UNCHANGED <<file, stored, attempts, disk>>

\* Mutant: the text of earlier attempts is not counted.
ReadProgressFullBudget ==
    /\ work.pc = "progress"
    /\ LET last == Max({0} \union DOMAIN stored)
       IN  work' = [work EXCEPT
                      !.pc = IF file.format = "pdf" THEN "layer"
                             ELSE IF last = 0 THEN "ocr" ELSE "page",
                      !.page = last + 1,
                      !.budget = MaxTextPerDocument]
    /\ UNCHANGED <<file, stored, attempts, disk>>

\* persistedProgress, the deadline, and the first step of extract: an image has
\* nothing to do when its page is stored.
ReadProgress ==
    /\ work.pc = "progress"
    /\ LET last == Max({0} \union DOMAIN stored)
       IN  work' = [work EXCEPT
                      !.pc = IF file.format = "pdf" THEN "layer"
                             ELSE IF last = 0 THEN "ocr" ELSE "page",
                      !.page = last + 1,
                      !.budget = MaxTextPerDocument - Used(stored, last)]
    /\ UNCHANGED <<file, stored, attempts, disk>>

-----------------------------------------------------------------------------
(* The pages *)

\* extractPdf: whatever OcrProcessingError pdftotext ends in, every page of this
\* attempt goes to OCR.
ReadLayer(o) ==
    /\ work.pc = "layer"
    /\ IF o = "other" THEN Stop(FALSE)
       ELSE /\ work' = [work EXCEPT !.pc = "page",
                                    !.layer = IF o = "ok" THEN Captured(file.pages) ELSE <<>>]
            /\ UNCHANGED <<file, stored, attempts, disk>>

\* The clock reaches the deadline of the attempt.
DeadlinePasses ==
    /\ work.pc \in Timed
    /\ ~work.late
    /\ work' = [work EXCEPT !.late = TRUE]
    /\ UNCHANGED <<file, stored, attempts, disk>>

\* The page is yielded to the worker.
Yield(row) ==
    /\ work' = [work EXCEPT !.pc = "persist", !.out = row, !.budget = @ - row.chars]
    /\ UNCHANGED <<file, stored, attempts>>

\* Mutant: the loop continues without a yield.
PageTimedOutSilently ==
    /\ work.pc = "page" /\ work.page <= Total
    /\ work.late
    /\ work' = [work EXCEPT !.page = @ + 1]
    /\ UNCHANGED <<file, stored, attempts, disk>>

PageTimedOut ==
    /\ work.pc = "page" /\ work.page <= Total
    /\ work.late
    /\ Yield(FailedPage("OCR_PROCESSING_TIMEOUT", "none"))
    /\ UNCHANGED disk

PageNative ==
    /\ work.pc = "page" /\ work.page <= Total
    /\ ~work.late
    /\ Usable(NativeText(work.page))
    /\ Yield(StoreText("NATIVE_TEXT", Source(work.page), Normalized(NativeText(work.page)),
                       FALSE, work.budget))
    /\ UNCHANGED disk

\* pageFailure: the code a tool that ran and failed leaves on the page.
ToolCode(o, exitCode) == IF o = "timeout" THEN "OCR_PROCESSING_TIMEOUT" ELSE exitCode

\* The file pdftoppm writes: the whole image, or as much of it as there is when
\* pdftoppm fails or is killed.  Its size is that of the box pdfinfo reports:
\* rendering rounds each side up to a pixel, and a box that differs from the
\* reported one is left out.
Image(whole) ==
    LET page == file.pages[work.page]
    IN  [page |-> work.page, whole |-> whole, pixels |-> DpiFor(page) * DpiFor(page) * page.area]

\* renderDpiFor refuses the page, or pdftoppm renders it.  A partial image is
\* removed by nobody before the end of the attempt.
RenderPage(o, partial) ==
    LET dpi == DpiFor(file.pages[work.page])
    IN  /\ work.pc = "page" /\ work.page <= Total
        /\ ~work.late
        /\ ~Usable(NativeText(work.page))
        /\ \/ /\ dpi < MinRenderDpi
              /\ Yield(FailedPage("OCR_PAGE_TOO_LARGE", "none"))
              /\ UNCHANGED disk
           \/ /\ dpi >= MinRenderDpi
              /\ o = "ok"
              /\ disk' = [disk EXCEPT !.images = @ \union {Image(TRUE)}]
              /\ work' = [work EXCEPT !.pc = "ocr"]
              /\ UNCHANGED <<file, stored, attempts>>
           \/ /\ dpi >= MinRenderDpi
              /\ o \in Spoiled
              /\ Yield(FailedPage(ToolCode(o, "OCR_INVALID_FILE"), "none"))
              /\ disk' = [disk EXCEPT !.images = IF partial THEN @ \union {Image(FALSE)} ELSE @]
           \/ /\ dpi >= MinRenderDpi
              /\ o \in Unavailable
              /\ Stop(FALSE)

\* What recognize returns: an output file that is missing reads as empty.
Recognized(lost) == IF "txt" \in lost THEN NoText ELSE file.pages[work.page].ocr

\* parseTsvConfidence has a mean when there is a word.
Rated(lost) == "tsv" \notin lost /\ file.pages[work.page].ocr.nonSpace > 0

\* ocrPage, on the rendered page or on the image itself.  An engine that exits
\* with an error says whether the image was at fault.
Recognize(o, lost, atFault) ==
    /\ work.pc = "ocr"
    /\ \/ /\ o = "ok"
          /\ Yield(StoreText("OCR", work.page, Normalized(Recognized(lost)), Rated(lost),
                             work.budget))
          /\ UNCHANGED disk
       \/ /\ o \in Spoiled
          /\ Yield(FailedPage(ToolCode(o, IF atFault THEN "OCR_INVALID_FILE"
                                          ELSE "OCR_PROCESSING_FAILED"), "none"))
          /\ UNCHANGED disk
       \/ /\ o \in Unavailable
          /\ Stop(FALSE)

\* Mutant: the rendered image stays until the end of the attempt.
PersistPageKeepsImage ==
    /\ work.pc = "persist"
    /\ stored' = [p \in DOMAIN stored \union {work.page} |->
                    IF p = work.page THEN work.out ELSE stored[p]]
    /\ work' = [work EXCEPT !.pc = "page", !.page = @ + 1, !.out = NoRow]
    /\ UNCHANGED <<file, attempts, disk>>

\* persistPage upserts the row; the generator resumes, and its finally removes
\* the image it has rendered.
PersistPage ==
    /\ work.pc = "persist"
    /\ stored' = [p \in DOMAIN stored \union {work.page} |->
                    IF p = work.page THEN work.out ELSE stored[p]]
    /\ work' = [work EXCEPT !.pc = "page", !.page = @ + 1, !.out = NoRow]
    /\ disk' = [disk EXCEPT !.images = {i \in @ : ~i.whole}]
    /\ UNCHANGED <<file, attempts>>

\* A query of run fails.
QueryFails == work.pc \in {"progress", "persist"} /\ Stop(FALSE)

\* The pages are exhausted: finalize follows, and the work directory goes.
Finish ==
    /\ work.pc = "page" /\ work.page > Total
    /\ work' = [Idle EXCEPT !.pc = "done"]
    /\ disk' = EmptyDir
    /\ UNCHANGED <<file, stored, attempts>>

\* The process dies; its work directory stays behind, and the next attempt makes
\* a new one.
Crash ==
    /\ work.pc \in Busy
    /\ work' = Idle
    /\ disk' = EmptyDir
    /\ UNCHANGED <<file, stored, attempts>>

Next ==
    \/ GiveUp
    \/ Begin
    \/ OpenObject
    \/ ObjectMissing
    \/ StorageFails
    \/ \E n \in 1..(MaxFileSize + 1) : ReceiveChunk(n)
    \/ DownloadEnds
    \/ InspectFormat
    \/ InspectImage
    \/ \E o \in Outcomes : InspectPdf(o)
    \/ ReadProgress
    \/ \E o \in Outcomes : ReadLayer(o)
    \/ DeadlinePasses
    \/ PageTimedOut
    \/ PageNative
    \/ \E o \in Outcomes, partial \in BOOLEAN : RenderPage(o, partial)
    \/ \E o \in Outcomes, lost \in SUBSET {"txt", "tsv"}, atFault \in BOOLEAN :
           Recognize(o, lost, atFault)
    \/ PersistPage
    \/ QueryFails
    \/ Finish
    \/ Crash

Spec == Init /\ [][Next]_vars

-----------------------------------------------------------------------------
(* Properties *)

\* Types; in particular the remaining budget of charBudget, which extract keeps
\* decreasing, is never negative.
TypeOK ==
    /\ file \in Files
    /\ DOMAIN stored \subseteq 1..MaxPdfPages \union {1}
    /\ \A p \in DOMAIN stored : stored[p] \in PageRow
    /\ attempts \in 0..MaxAttempts
    /\ work.pc \in Busy \union {"idle", "done", "failed"}
    /\ work.page \in 0..(MaxPdfPages + 1) \union {2}
    /\ work.budget \in 0..MaxTextPerDocument
    /\ work.late \in BOOLEAN
    /\ work.out \in PageRow
    /\ disk.input \in Nat

\* The text of page p in the row of page p.
RowText(p) ==
    Normalized(IF stored[p].method = "NATIVE_TEXT" THEN file.pages[stored[p].from].native
               ELSE file.pages[p].ocr)

\* Over all attempts, crashes and resumes (the charBudget of run is computed anew
\* in each) every page has exactly the text that one uninterrupted run would give
\* it when it reads the page by the method stored: as much as the limit of the
\* page and what the pages before it have left of the limit of the document
\* allow, flagged when it is cut; and a page is refused with
\* OCR_TEXT_LIMIT_EXCEEDED only when nothing is left.  Only a text of the engine
\* has a confidence.
TextAccounted ==
    \A p \in DOMAIN stored :
        LET left == MaxTextPerDocument - Used(stored, p - 1)
        IN  /\ stored[p].rated => stored[p].method = "OCR"
            /\ CASE stored[p].status = "COMPLETED" ->
                       /\ stored[p].chars = Min({RowText(p), MaxTextPerPage, left})
                       /\ stored[p].chars > 0
                       /\ stored[p].truncated <=> stored[p].chars < RowText(p)
                 [] stored[p].status = "EMPTY" ->
                       stored[p].chars = 0 /\ stored[p].method = "OCR"
                 [] stored[p].status = "FAILED" ->
                       /\ stored[p].chars = 0
                       /\ (stored[p].code = "OCR_TEXT_LIMIT_EXCEEDED") <=> (stored[p].method # "none")
                       /\ stored[p].method # "none" => left = 0

\* What pdftotext writes for the pages up to n.
LayerSize(pages, n) == SumTo([p \in 1..n |-> pages[p].native.raw], n)

\* As long as the whole text layer fits the buffer of extractText, the native
\* text stored for a page is the text of that page: the split at form feeds, the
\* padding and the index of extractPdf agree.  (Without the condition it fails:
\* runCommand drops a chunk that does not fit but keeps a later, smaller one,
\* whose pages then have a wrong index.)
NativeTextOfItsPage ==
    LayerSize(file.pages, Len(file.pages)) <= 4 * MaxTextPerDocument + LayerSlack
    => \A p \in DOMAIN stored :
           stored[p].status = "COMPLETED" => stored[p].from = p

\* What the code itself bounds in the work directory while the job runs: the
\* limiter of download never writes more than the limit, there is at most one
\* whole rendered image, that of the page being recognised or stored, and no
\* image is rendered with more pixels than allowed of a page whose size pdfinfo
\* reports.  The images of pages whose pdftoppm failed are not bounded: they stay
\* until the end of the attempt.
ScratchBounded ==
    /\ disk.input <= MaxFileSize
    /\ \A i \in disk.images :
          /\ i.whole => i.page = work.page /\ work.pc \in {"ocr", "persist"}
          /\ file.pages[i.page].reported => i.pixels <= MaxRenderPixels

\* The rows are always the pages 1..n, so that the highest page number is a
\* resume point, and when run reaches finalize there is a row for every page:
\* failed tools and a passed deadline leave FAILED pages, never gaps.
ResumePointExact ==
    /\ DOMAIN stored = 1..Cardinality(DOMAIN stored)
    /\ work.pc = "persist" => work.page = Cardinality(DOMAIN stored) + 1
    /\ work.pc = "done" => DOMAIN stored = 1..Total
=============================================================================
