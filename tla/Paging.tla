------------------------------- MODULE Paging -------------------------------
(***************************************************************************)
(* Offset pagination, as OcrJobService.pages and DocumentsService.list do  *)
(* it: rows in a fixed order, `skip` and `take` of one page, and the       *)
(* number of pages a client is told.                                       *)
(***************************************************************************)
EXTENDS Integers, Sequences

\* Mutant: pages are counted from 0.
SkipFromZero(page, limit) == page * limit

\* skip: (page - 1) * limit
Skip(page, limit) == (page - 1) * limit

\* Mutant: a last page that is not full is not counted.
TotalPagesFloor(total, limit) == total \div limit

\* Math.ceil(total / limit)
TotalPages(total, limit) == (total + limit - 1) \div limit

\* The row at position i is on the page.
OnPage(i, page, limit) == Skip(page, limit) < i /\ i <= Skip(page, limit) + limit

\* findMany with orderBy, skip and take.
Items(rows, page, limit) ==
    LET last == Skip(page, limit) + limit
    IN  SubSeq(rows, Skip(page, limit) + 1, IF last <= Len(rows) THEN last ELSE Len(rows))
=============================================================================
