--------------------------- MODULE MCOcrExtraction ---------------------------
(* Small files for OcrExtraction and OcrResults. *)
EXTENDS OcrResults

\* A layer of form feed and noise, one of garbage, one of text of n characters,
\* with their form feed.
Blank == [raw |-> 1, noise |-> 1, gaps |-> 0, nonSpace |-> 0, alnum |-> 0]
Garbage == [raw |-> 5, noise |-> 1, gaps |-> 1, nonSpace |-> 3, alnum |-> 1]
Words(n) == [raw |-> n + 2, noise |-> 2, gaps |-> 0, nonSpace |-> n - 1, alnum |-> n - 1]
Padded(n) == [Words(n) EXCEPT !.raw = @ + 14, !.noise = @ + 14]

PageKinds ==
    { [native |-> Words(2), ocr |-> NoText, area |-> 1, reported |-> TRUE],
      [native |-> Padded(5), ocr |-> NoText, area |-> 1, reported |-> TRUE],
      [native |-> Blank, ocr |-> Words(3), area |-> 5, reported |-> TRUE],
      [native |-> Garbage, ocr |-> Blank, area |-> 9, reported |-> TRUE],
      [native |-> Blank, ocr |-> Words(2), area |-> 9, reported |-> FALSE] }

Pdf(pages) ==
    [ format |-> "pdf", matches |-> TRUE, readable |-> TRUE, declared |-> 1,
      length |-> 1, bytes |-> 1, pixels |-> 0, pages |-> pages ]

APage == CHOOSE k \in PageKinds : k.ocr = Words(3)

Photo == [Pdf(<<APage>>) EXCEPT !.format = "image", !.pixels = 4, !.bytes = 2, !.length = 0]

\* The files that are refused, each for a reason of its own.
Refused ==
    { [Photo EXCEPT !.declared = 4],
      [Photo EXCEPT !.declared = 0, !.length = 4],
      [Photo EXCEPT !.declared = 0, !.bytes = 4],
      [Photo EXCEPT !.format = "none"],
      [Photo EXCEPT !.matches = FALSE],
      [Photo EXCEPT !.readable = FALSE],
      [Photo EXCEPT !.pixels = 5],
      [Pdf(<<APage>>) EXCEPT !.readable = FALSE],
      Pdf(<<>>),
      Pdf(<<APage, APage, APage, APage>>) }

\* Every document of one or two pages, and those of three pages that have text.
Readable == {k \in PageKinds : k.native # Garbage /\ k.reported}

MCFiles ==
    {Photo} \union Refused
        \union {Pdf(s) : s \in UNION {[1..n -> PageKinds] : n \in 1..2}}
        \union {Pdf(s) : s \in [1..3 -> Readable]}
=============================================================================
