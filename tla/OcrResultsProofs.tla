-------------------------- MODULE OcrResultsProofs --------------------------
(***************************************************************************)
(* Proofs about OcrExtraction, Paging and OcrResults.  The first part has  *)
(* what sums, cuts and the buffer of runCommand compute; the second shows  *)
(* that offset pagination loses no row and shows none twice; the third is  *)
(* the inductive invariant of the extraction: over all attempts the rows   *)
(* are a prefix of the pages, each with the text the rows before it leave  *)
(* room for; the last one follows the client through the results.          *)
(***************************************************************************)
EXTENDS OcrResults, InductionLemmas, FiniteSetTheorems, SequenceTheorems

-----------------------------------------------------------------------------
(* Sums, cuts and the buffer *)

\* The limits are naturals.
LEMMA Limits ==
    /\ MaxAttempts \in Nat /\ MaxTextPerPage \in Nat /\ MaxTextPerPage > 0
    /\ MaxTextPerDocument \in Nat /\ MaxTextPerDocument > 0
    /\ MinRenderDpi \in Nat /\ MinChars \in Nat /\ MinChars > 0
    /\ MaxFileSize \in Nat /\ MaxPdfPages \in Nat /\ LayerSlack \in Nat
    /\ RenderDpi \in Nat /\ MaxRenderPixels \in Nat
  BY ExtractionAssumption

\* g has the partial sums of c.
IsSum(g, c, n) ==
    /\ g \in [0..n -> Nat] /\ g[0] = 0
    /\ \A p \in 1..n : g[p] = g[p - 1] + c[p]

\* The recursion of SumTo defines a function, the partial sums.
LEMMA SumDef ==
    ASSUME NEW n \in Nat, NEW c \in [1..n -> Nat]
    PROVE  \E g : IsSum(g, c, n) /\ SumTo(c, n) = g[n]
  <1> DEFINE Is(s) == s = [p \in 0..n |-> IF p = 0 THEN 0 ELSE s[p - 1] + c[p]]
             step == [p \in 1..n |-> [x \in Nat |-> x + c[p]]]
  <1>1. step \in Steps(n, Nat)
    BY DEF Steps
  <1>2. PICK g : g \in [0..n -> Nat] /\ g[0] = 0 /\ \A p \in 1..n : g[p] = step[p][g[p - 1]]
    <2> HIDE DEF step
    <2>1. PICK g : Follows(g, n, Nat, 0, step)
      BY <1>1, Recursion
    <2> QED
      BY <2>1 DEF Follows
  <1>3. \A p \in 1..n : p - 1 \in 0..n /\ p \in 0..n
    OBVIOUS
  <1>4. \A p \in 1..n : g[p] = g[p - 1] + c[p]
    BY <1>2, <1>3
  <1>5. Is(g)
    <2>1. \A p \in 0..n : p # 0 => p \in 1..n
      OBVIOUS
    <2>2. \A p \in 0..n : g[p] = IF p = 0 THEN 0 ELSE g[p - 1] + c[p]
      BY <1>2, <1>4, <2>1
    <2> QED
      BY <1>2, <2>2
  <1> DEFINE s == CHOOSE u : Is(u)
  <1>6. Is(s)
    <2> HIDE DEF Is
    <2> QED
      BY <1>5, Zenon
  <1>7. SumTo(c, n) = s[n]
    BY Zenon DEF SumTo
  <1> HIDE DEF s
  <1>8. s[0] = 0 /\ \A p \in 1..n : s[p] = s[p - 1] + c[p]
    <2>1. 0 \in 0..n /\ \A p \in 1..n : p \in 0..n /\ p # 0
      OBVIOUS
    <2> QED
      BY <1>6, <2>1
  <1>9. \A p \in 0..n : s[p] \in Nat
    <2> DEFINE Good == {p \in 0..n : s[p] \in Nat}
    <2>1. 0 \in Good
      BY <1>8
    <2>2. \A p \in 1..n : p - 1 \in Good => p \in Good
      BY <1>3, <1>8
    <2> HIDE DEF Good
    <2>3. \A p \in 0..n : p \in Good
      BY <2>1, <2>2, SetInduction
    <2> QED
      BY <2>3 DEF Good
  <1>10. IsSum(s, c, n)
    <2>1. s \in [0..n -> Nat]
      BY <1>6, <1>9
    <2> HIDE DEF Is
    <2> QED
      BY <1>8, <2>1 DEF IsSum
  <1> QED
    BY <1>7, <1>10

\* Partial sums depend only on the terms before them.
LEMMA SumsAgree ==
    ASSUME NEW n \in Nat, NEW m \in 0..n, NEW c, NEW d, NEW g, NEW h,
           IsSum(g, c, n), IsSum(h, d, m), \A p \in 1..m : c[p] = d[p]
    PROVE  g[m] = h[m]
  <1> DEFINE Good == {p \in 0..m : g[p] = h[p]}
  <1>1. 0 \in Good
    BY DEF IsSum
  <1>2. ASSUME NEW p \in 1..m, p - 1 \in Good
        PROVE  p \in Good
    <2>1. p \in 1..n /\ p \in 0..m
      OBVIOUS
    <2>2. g[p] = g[p - 1] + c[p] /\ h[p] = h[p - 1] + d[p]
      BY <2>1 DEF IsSum
    <2> QED
      BY <1>2, <2>1, <2>2
  <1>3. \A p \in 1..m : p - 1 \in Good => p \in Good
    BY <1>2
  <1> HIDE DEF Good
  <1>4. m \in Nat
    OBVIOUS
  <1>5. \A p \in 0..m : p \in Good
    BY <1>1, <1>3, <1>4, SetInduction
  <1> QED
    BY <1>4, <1>5 DEF Good

\* The empty sum, and one more term.
LEMMA SumStep ==
    ASSUME NEW n \in Nat, NEW c \in [1..n -> Nat]
    PROVE  /\ SumTo(c, n) \in Nat
           /\ n = 0 => SumTo(c, n) = 0
           /\ \A d \in [1..(n - 1) -> Nat] :
                 n > 0 /\ (\A p \in 1..(n - 1) : c[p] = d[p]) =>
                    SumTo(c, n) = SumTo(d, n - 1) + c[n]
  <1>1. PICK g : IsSum(g, c, n) /\ SumTo(c, n) = g[n]
    BY SumDef
  <1>2. SumTo(c, n) \in Nat /\ (n = 0 => SumTo(c, n) = 0)
    BY <1>1 DEF IsSum
  <1>3. ASSUME NEW d \in [1..(n - 1) -> Nat], n > 0, \A p \in 1..(n - 1) : c[p] = d[p]
        PROVE  SumTo(c, n) = SumTo(d, n - 1) + c[n]
    <2>1. n - 1 \in Nat /\ n - 1 \in 0..n /\ n \in 1..n
      BY <1>3
    <2>2. PICK h : IsSum(h, d, n - 1) /\ SumTo(d, n - 1) = h[n - 1]
      BY <2>1, SumDef
    <2>3. g[n - 1] = h[n - 1]
      BY <1>1, <1>3, <2>1, <2>2, SumsAgree
    <2> QED
      BY <1>1, <2>1, <2>2, <2>3 DEF IsSum
  <1> QED
    BY <1>2, <1>3

\* Rows that have a number of characters.
Rowlike(rows) == \A p \in DOMAIN rows : rows[p].chars \in Nat

\* The characters of the pages up to n, and those of one page more.
LEMMA UsedStep ==
    ASSUME NEW rows, Rowlike(rows), NEW n \in Nat
    PROVE  /\ Used(rows, n) \in Nat
           /\ n = 0 => Used(rows, n) = 0
           /\ n > 0 /\ n \in DOMAIN rows => Used(rows, n) = Used(rows, n - 1) + rows[n].chars
  <1> DEFINE C(k) == [p \in 1..k |-> IF p \in DOMAIN rows THEN rows[p].chars ELSE 0]
  <1>1. C(n) \in [1..n -> Nat] /\ C(n - 1) \in [1..(n - 1) -> Nat]
    BY DEF Rowlike
  <1>2. n > 0 => \A p \in 1..(n - 1) : C(n)[p] = C(n - 1)[p]
    OBVIOUS
  <1>3. n > 0 /\ n \in DOMAIN rows => C(n)[n] = rows[n].chars
    OBVIOUS
  <1>4. Used(rows, n) = SumTo(C(n), n) /\ Used(rows, n - 1) = SumTo(C(n - 1), n - 1)
    BY DEF Used
  <1> HIDE DEF C
  <1> QED
    BY <1>1, <1>2, <1>3, <1>4, SumStep

\* Rows beyond n do not count.
LEMMA UsedAgrees ==
    ASSUME NEW rows, NEW other, NEW n \in Nat,
           \A p \in 1..n : /\ p \in DOMAIN rows <=> p \in DOMAIN other
                           /\ p \in DOMAIN rows => rows[p] = other[p]
    PROVE  Used(rows, n) = Used(other, n)
  <1>1. [p \in 1..n |-> IF p \in DOMAIN rows THEN rows[p].chars ELSE 0]
        = [p \in 1..n |-> IF p \in DOMAIN other THEN other[p].chars ELSE 0]
    OBVIOUS
  <1> QED
    BY <1>1, Zenon DEF Used

\* Of a page.
LEMMA PageFacts ==
    ASSUME NEW page \in Page
    PROVE  /\ page.native.raw \in Nat /\ page.area \in Nat
           /\ Normalized(page.native) \in Nat /\ Normalized(page.ocr) \in Nat
  BY DEF Page, Text, Normalized

\* The bytes of the layer up to n, one page at a time; they only grow.
LEMMA LayerStep ==
    ASSUME NEW pages \in Seq(Page), NEW n \in 0..Len(pages)
    PROVE  /\ LayerSize(pages, n) \in Nat
           /\ n = 0 => LayerSize(pages, n) = 0
           /\ n > 0 => LayerSize(pages, n) = LayerSize(pages, n - 1) + pages[n].native.raw
  <1> DEFINE C(k) == [p \in 1..k |-> pages[p].native.raw]
  <1>1. C(n) \in [1..n -> Nat] /\ C(n - 1) \in [1..(n - 1) -> Nat]
    <2>1. \A p \in 1..n : p \in 1..Len(pages)
      OBVIOUS
    <2>2. \A p \in 1..n : pages[p] \in Page
      BY <2>1
    <2> QED
      BY <2>2, PageFacts
  <1>2. \A p \in 1..(n - 1) : C(n)[p] = C(n - 1)[p]
    OBVIOUS
  <1>3. n > 0 => C(n)[n] = pages[n].native.raw
    OBVIOUS
  <1>4. LayerSize(pages, n) = SumTo(C(n), n) /\ LayerSize(pages, n - 1) = SumTo(C(n - 1), n - 1)
    BY DEF LayerSize
  <1> HIDE DEF C
  <1>5. n \in Nat
    OBVIOUS
  <1> QED
    BY <1>1, <1>2, <1>3, <1>4, <1>5, SumStep

LEMMA LayerGrows ==
    ASSUME NEW pages \in Seq(Page), NEW n \in 0..Len(pages)
    PROVE  LayerSize(pages, n) <= LayerSize(pages, Len(pages))
  <1> DEFINE N == Len(pages)
             L == [k \in 0..N |-> LayerSize(pages, k)]
             Good == {k \in 0..N : n <= k => L[n] <= L[k]}
  <1>0. N \in Nat /\ n \in 0..N
    OBVIOUS
  <1>a. \A k \in 0..N : L[k] \in Nat /\ (k > 0 => L[k] = L[k - 1] + pages[k].native.raw)
    <2>1. \A k \in 0..N : k > 0 => k - 1 \in 0..N
      OBVIOUS
    <2> QED
      BY <2>1, LayerStep
  <1>b. \A k \in 1..N : pages[k].native.raw \in Nat
    <2>1. \A k \in 1..N : pages[k] \in Page
      OBVIOUS
    <2> QED
      BY <2>1, PageFacts
  <1> HIDE DEF L
  <1>1. 0 \in Good
    <2>1. n <= 0 => n = 0
      BY <1>0
    <2> QED
      BY <1>0, <1>a, <2>1
  <1>2. ASSUME NEW k \in 1..N, k - 1 \in Good
        PROVE  k \in Good
    <2>1. k \in 0..N /\ k - 1 \in 0..N
      BY <1>0
    <2>6. L[k] = L[k - 1] + pages[k].native.raw /\ pages[k].native.raw \in Nat
      BY <1>a, <1>b, <2>1
    <2>2. L[k - 1] <= L[k] /\ L[k] \in Nat /\ L[k - 1] \in Nat /\ L[n] \in Nat
      BY <1>0, <1>a, <2>1, <2>6
    <2>3. CASE n = k
      BY <2>1, <2>2, <2>3
    <2>4. CASE n <= k - 1
      BY <1>2, <2>1, <2>2, <2>4
    <2>5. CASE n > k
      BY <2>1, <2>5, <1>0
    <2> QED
      BY <1>0, <2>3, <2>4, <2>5
  <1>3. \A k \in 1..N : k - 1 \in Good => k \in Good
    BY <1>2
  <1> HIDE DEF Good
  <1>4. \A k \in 0..N : k \in Good
    BY <1>0, <1>1, <1>3, SetInduction
  <1>5. N \in Good /\ N \in 0..N /\ n <= N
    BY <1>0, <1>4
  <1> QED
    BY <1>5 DEF Good, L

\* A cut to three limits.
LEMMA Cut ==
    ASSUME NEW a \in Nat, NEW b \in Nat, NEW c \in Nat
    PROVE  /\ Min({a, b, c}) \in Nat
           /\ Min({a, b, c}) <= a /\ Min({a, b, c}) <= b /\ Min({a, b, c}) <= c
           /\ Min({a, b, c}) \in {a, b, c}
  <1> DEFINE S == {a, b, c}
  <1>1. \E x \in S : \A y \in S : x <= y
    OBVIOUS
  <1>2. Min(S) \in S /\ \A y \in S : Min(S) <= y
    <2> HIDE DEF S
    <2> QED
      BY <1>1 DEF Min
  <1> QED
    BY <1>2

\* A number that is at least every element of a nonempty set of naturals up to R:
\* the set has a greatest element.
LEMMA Greatest ==
    ASSUME NEW R \in Nat, NEW T \in SUBSET (0..R), T # {}
    PROVE  Max(T) \in T /\ \A y \in T : Max(T) >= y
  <1> DEFINE D == {k \in 0..R : R - k \in T}
  <1>0. \A d \in T : d \in Nat /\ d <= R /\ R - d \in 0..R /\ R - (R - d) = d
    OBVIOUS
  <1>1. D \subseteq Nat /\ D # {}
    <2>1. PICK d \in T : TRUE
      OBVIOUS
    <2>2. R - d \in D
      BY <1>0
    <2>3. \A k \in D : k \in Nat
      OBVIOUS
    <2> HIDE DEF D
    <2> QED
      BY <2>2, <2>3
  <1>2. PICK m \in D : \A k \in D : m <= k
    <2> HIDE DEF D
    <2> QED
      BY <1>1, LeastNatural
  <1>3. R - m \in T /\ m \in 0..R
    BY <1>2
  <1>4. ASSUME NEW y \in T
        PROVE  R - m >= y
    <2>1. R - y \in D
      BY <1>0
    <2>2. m <= R - y
      BY <1>2, <2>1
    <2> QED
      BY <1>0, <1>3, <2>2
  <1>5. \E x \in T : \A y \in T : x >= y
    BY <1>3, <1>4
  <1> QED
    BY <1>5 DEF Max

\* The resolution keeps a page of known size within the pixels.
LEMMA DpiFits ==
    ASSUME NEW page \in Page
    PROVE  /\ DpiFor(page) \in Nat
           /\ page.reported => DpiFor(page) * DpiFor(page) * page.area <= MaxRenderPixels
  <1> DEFINE T == {d \in 0..RenderDpi : d * d * page.area <= MaxRenderPixels}
  <1>0. page.area \in Nat
    BY PageFacts
  <1>1. CASE page.reported /\ page.area > 0
    <2>1. T \in SUBSET (0..RenderDpi) /\ T # {}
      <3>1. 0 \in T
        BY <1>0, Limits
      <3> QED
        BY <3>1
    <2>2. DpiFor(page) = Max(T)
      BY <1>1 DEF DpiFor
    <2>3. Max(T) \in T
      <3> HIDE DEF T
      <3> QED
        BY <2>1, Limits, Greatest
    <2> QED
      BY <2>2, <2>3, Limits
  <1>2. CASE ~(page.reported /\ page.area > 0)
    <2>1. DpiFor(page) = RenderDpi /\ RenderDpi \in Nat /\ MaxRenderPixels \in Nat
      BY <1>2, Limits DEF DpiFor
    <2>2. page.reported => page.area = 0
      BY <1>0, <1>2
    <2>3. page.reported => RenderDpi * RenderDpi * page.area = 0
      BY <2>1, <2>2
    <2> QED
      BY <2>1, <2>3
  <1> QED
    BY <1>1, <1>2

\* What runCommand has at a moment of the output of pdftotext.
Kept(pages) == [bytes : Nat, kept : Seq(1..Len(pages))]

Nothing == [bytes |-> 0, kept |-> <<>>]

LEMMA KeepType ==
    ASSUME NEW pages \in Seq(Page), NEW p \in 1..Len(pages), NEW acc \in Kept(pages)
    PROVE  Keep(pages, acc, p) \in Kept(pages)
  <1>1. pages[p].native.raw \in Nat
    <2>1. pages[p] \in Page
      OBVIOUS
    <2> QED
      BY <2>1, PageFacts
  <1>2. acc.bytes \in Nat /\ acc.kept \in Seq(1..Len(pages))
    BY DEF Kept
  <1>3. Append(acc.kept, p) \in Seq(1..Len(pages))
    BY <1>2, AppendProperties
  <1> QED
    BY <1>1, <1>2, <1>3 DEF Keep, Kept

\* r follows the chunks of the output.
IsRead(r, pages) ==
    /\ r[0] = Nothing
    /\ \A p \in 1..Len(pages) : r[p] = Keep(pages, r[p - 1], p)
    /\ \A p \in 0..Len(pages) : r[p] \in Kept(pages)
    /\ Captured(pages) = r[Len(pages)].kept

\* The recursion of Captured defines a function.
LEMMA CapturedDef ==
    ASSUME NEW pages \in Seq(Page)
    PROVE  \E r : IsRead(r, pages)
  <1> DEFINE N == Len(pages)
             S == Kept(pages)
             Is(r) == r = [p \in 0..N |-> IF p = 0 THEN [bytes |-> 0, kept |-> <<>>]
                                          ELSE Keep(pages, r[p - 1], p)]
             step == [p \in 1..N |-> [x \in S |-> Keep(pages, x, p)]]
  <1>0. N \in Nat
    OBVIOUS
  <1>a. Nothing \in S
    BY DEF Nothing, Kept
  <1>1. step \in Steps(N, S)
    BY KeepType DEF Steps
  <1> HIDE DEF S
  <1>2. PICK g : g \in [0..N -> S] /\ g[0] = Nothing /\ \A p \in 1..N : g[p] = step[p][g[p - 1]]
    <2> HIDE DEF step, N
    <2>1. PICK g : Follows(g, N, S, Nothing, step)
      BY <1>0, <1>a, <1>1, Recursion
    <2> QED
      BY <2>1 DEF Follows
  <1>3. \A p \in 1..N : p - 1 \in 0..N /\ p \in 0..N
    BY <1>0
  <1>4. \A p \in 1..N : g[p] = Keep(pages, g[p - 1], p)
    BY <1>2, <1>3
  <1>5. Is(g)
    <2>1. \A p \in 0..N : p # 0 => p \in 1..N
      BY <1>0
    <2>2. \A p \in 0..N : g[p] = IF p = 0 THEN [bytes |-> 0, kept |-> <<>>]
                                 ELSE Keep(pages, g[p - 1], p)
      BY <1>2, <1>4, <2>1 DEF Nothing
    <2> QED
      BY <1>2, <2>2
  <1> DEFINE r == CHOOSE u : Is(u)
  <1>6. Is(r)
    <2> HIDE DEF Is
    <2> QED
      BY <1>5, Zenon
  <1>7. Captured(pages) = r[N].kept
    BY Zenon DEF Captured
  <1> HIDE DEF r
  <1>8. r[0] = Nothing /\ \A p \in 1..N : r[p] = Keep(pages, r[p - 1], p)
    <2>1. 0 \in 0..N /\ \A p \in 1..N : p \in 0..N /\ p # 0
      BY <1>0
    <2> QED
      BY <1>6, <2>1 DEF Nothing
  <1>9. \A p \in 0..N : r[p] \in S
    <2> DEFINE Good == {p \in 0..N : r[p] \in S}
    <2>1. 0 \in Good
      BY <1>0, <1>8, <1>a
    <2>2. \A p \in 1..N : p - 1 \in Good => p \in Good
      BY <1>3, <1>8, KeepType DEF S
    <2> HIDE DEF Good
    <2>3. \A p \in 0..N : p \in Good
      BY <1>0, <2>1, <2>2, SetInduction
    <2> QED
      BY <2>3 DEF Good
  <1>10. IsRead(r, pages)
    BY <1>7, <1>8, <1>9, Zenon DEF IsRead, S
  <1> QED
    BY <1>10

\* The whole text layer fits the buffer of extractText.
Fits(f) == LayerSize(f.pages, Len(f.pages)) <= 4 * MaxTextPerDocument + LayerSlack

\* Every entry of the array of extractText is the text of a page of the file, and
\* of the page with its index when everything fits.
LayerOK(f, layer) ==
    /\ layer \in Seq(1..Len(f.pages))
    /\ Fits(f) => \A i \in 1..Len(layer) : layer[i] = i

LEMMA CapturedOK ==
    ASSUME NEW f \in File
    PROVE  LayerOK(f, Captured(f.pages))
  <1> DEFINE pages == f.pages
             N == Len(pages)
             B == 4 * MaxTextPerDocument + LayerSlack
  <1>0. pages \in Seq(Page) /\ N \in Nat
    BY DEF File
  <1> HIDE DEF pages
  <1>1. PICK r : IsRead(r, pages)
    BY <1>0, CapturedDef
  <1>2. Captured(pages) \in Seq(1..N)
    <2>1. r[N] \in Kept(pages) /\ Captured(pages) = r[N].kept
      BY <1>0, <1>1 DEF IsRead
    <2> QED
      BY <2>1 DEF Kept
  <1>3. ASSUME Fits(f)
        PROVE  \A i \in 1..Len(Captured(pages)) : Captured(pages)[i] = i
    <2> DEFINE L == [k \in 0..N |-> LayerSize(pages, k)]
               Good == {p \in 0..N : /\ r[p].bytes = L[p] /\ Len(r[p].kept) = p
                                     /\ \A i \in 1..p : r[p].kept[i] = i}
    <2>a. /\ \A k \in 0..N : L[k] \in Nat /\ L[k] <= B
          /\ L[0] = 0 /\ \A k \in 1..N : L[k] = L[k - 1] + pages[k].native.raw
      <3>1. \A k \in 1..N : k \in 0..N /\ k - 1 \in 0..N /\ k > 0
        BY <1>0
      <3>2. 0 \in 0..N /\ N \in 0..N
        BY <1>0
      <3>3. \A k \in 0..N : L[k] \in Nat /\ L[k] <= LayerSize(pages, N)
        BY <1>0, LayerStep, LayerGrows
      <3>4. LayerSize(pages, N) <= B /\ LayerSize(pages, N) \in Nat /\ B \in Nat
        BY <1>0, <1>3, <3>2, LayerStep, Limits DEF Fits, pages
      <3>5. L[0] = 0 /\ \A k \in 1..N : L[k] = L[k - 1] + pages[k].native.raw
        BY <1>0, <3>1, <3>2, LayerStep
      <3> HIDE DEF L, N, B
      <3> QED
        BY <3>3, <3>4, <3>5
    <2> HIDE DEF L
    <2>1. 0 \in Good
      <3>1. r[0] = Nothing
        BY <1>1 DEF IsRead
      <3> QED
        BY <1>0, <2>a, <3>1 DEF Nothing
    <2>2. ASSUME NEW p \in 1..N, p - 1 \in Good
          PROVE  p \in Good
      <3>1. p \in 0..N /\ p - 1 \in 0..N
        BY <1>0
      <3>2. r[p] = Keep(pages, r[p - 1], p) /\ r[p - 1] \in Kept(pages)
        BY <1>1, <3>1 DEF IsRead
      <3>3. r[p - 1].bytes + pages[p].native.raw = L[p] /\ L[p] \in Nat /\ L[p] <= B /\ B \in Nat
        BY <2>2, <2>a, <3>1, Limits
      <3>4. r[p] = [bytes |-> L[p], kept |-> Append(r[p - 1].kept, p)]
        <4>1. ~(r[p - 1].bytes + pages[p].native.raw > 4 * MaxTextPerDocument + LayerSlack)
          BY <3>3
        <4>2. r[p] = [bytes |-> r[p - 1].bytes + pages[p].native.raw,
                      kept |-> Append(r[p - 1].kept, p)]
          BY <3>2, <4>1, Zenon DEF Keep
        <4> QED
          BY <3>3, <4>2, Zenon
      <3>5. r[p - 1].kept \in Seq(1..N) /\ Len(r[p - 1].kept) = p - 1
            /\ \A i \in 1..(p - 1) : r[p - 1].kept[i] = i
        BY <2>2, <3>2 DEF Kept
      <3>6. /\ Len(Append(r[p - 1].kept, p)) = p
            /\ \A i \in 1..p : Append(r[p - 1].kept, p)[i] = i
        BY <1>0, <3>1, <3>5, AppendProperties
      <3>7. PICK k : k = Append(r[p - 1].kept, p)
        OBVIOUS
      <3>8. r[p].bytes = L[p] /\ r[p].kept = k
        BY <3>4, <3>7
      <3>9. Len(k) = p /\ \A i \in 1..p : k[i] = i
        BY <3>6, <3>7, Zenon
      <3> QED
        BY <3>1, <3>8, <3>9
    <2>3. \A p \in 1..N : p - 1 \in Good => p \in Good
      BY <2>2
    <2> HIDE DEF Good
    <2>4. \A p \in 0..N : p \in Good
      BY <1>0, <2>1, <2>3, SetInduction
    <2>5. N \in Good
      BY <1>0, <2>4
    <2>6. Captured(pages) = r[N].kept
      BY <1>1 DEF IsRead
    <2> QED
      BY <2>5, <2>6 DEF Good
  <1> QED
    BY <1>2, <1>3 DEF LayerOK, pages

-----------------------------------------------------------------------------
(* Pages of results *)

LEMMA Division ==
    ASSUME NEW n \in Nat, NEW d \in Nat \ {0}
    PROVE  /\ n \div d \in Nat
           /\ (n \div d) * d <= n
           /\ n < (n \div d) * d + d
  BY Z3

LEMMA ProductOrder ==
    ASSUME NEW a \in Int, NEW b \in Int, NEW d \in Nat \ {0}, a < b
    PROVE  a * d + d <= b * d
<1>1. b - a - 1 \in Nat
  OBVIOUS
<1>2. (b - a - 1) * d >= 0
  BY <1>1
<1>3. (b - a - 1) * d = b * d - a * d - d
  BY Z3
<1> QED
  BY <1>2, <1>3, Z3

\* No row is on two pages.
LEMMA OnOnePageOnly ==
    ASSUME NEW limit \in Nat \ {0}, NEW i \in Int, NEW p \in Int, NEW q \in Int,
           OnPage(i, p, limit), OnPage(i, q, limit)
    PROVE  p = q
<1>1. ASSUME NEW a \in Int, NEW b \in Int, a < b, OnPage(i, a, limit)
      PROVE  ~OnPage(i, b, limit)
  <2>1. (a - 1) * limit + limit <= (b - 1) * limit
    BY <1>1, ProductOrder
  <2>2. (a - 1) * limit \in Int /\ (b - 1) * limit \in Int
    OBVIOUS
  <2> QED
    BY <1>1, <2>1, <2>2 DEF OnPage, Skip
<1> QED
  BY <1>1

\* Every row is on one of the pages that are counted.
LEMMA OnSomePage ==
    ASSUME NEW limit \in Nat \ {0}, NEW total \in Nat, NEW i \in 1..total
    PROVE  \E p \in 1..TotalPages(total, limit) : OnPage(i, p, limit)
<1> DEFINE q == (i - 1) \div limit
           t == TotalPages(total, limit)
<1>1. q \in Nat /\ q * limit <= i - 1 /\ i - 1 < q * limit + limit
  BY Division
<1>2. t \in Nat /\ total + limit - 1 < t * limit + limit
  BY Division DEF TotalPages
<1> HIDE DEF q, t
<1>3. q * limit \in Int /\ t * limit \in Int
  BY <1>1, <1>2
<1>4. q < t
  <2>1. SUFFICES ASSUME t <= q
                 PROVE  FALSE
    BY <1>1, <1>2
  <2>2. t * limit <= q * limit
    <3>1. CASE t = q
      BY <3>1, <1>3
    <3>2. CASE t < q
      BY <3>2, <1>1, <1>2, <1>3, ProductOrder
    <3> QED
      BY <2>1, <3>1, <3>2, <1>1, <1>2
  <2> QED
    BY <2>2, <1>1, <1>2, <1>3
<1>5. OnPage(i, q + 1, limit)
  <2>1. (q + 1 - 1) * limit = q * limit
    BY <1>1
  <2> QED
    BY <1>1, <1>3, <2>1 DEF OnPage, Skip
<1> QED
  BY <1>1, <1>2, <1>4, <1>5 DEF t

\* Math.ceil and skip fit together in OcrJobService.pages and
\* DocumentsService.list: of the pages a client is told of exactly one has the
\* row at a given position.
THEOREM PagesPartition ==
    ASSUME NEW limit \in Nat \ {0}, NEW total \in Nat, NEW i \in 1..total
    PROVE  \E p \in 1..TotalPages(total, limit) :
              /\ OnPage(i, p, limit)
              /\ \A q \in 1..TotalPages(total, limit) : OnPage(i, q, limit) => q = p
<1>1. PICK p \in 1..TotalPages(total, limit) : OnPage(i, p, limit)
  BY OnSomePage
<1>2. \A q \in 1..TotalPages(total, limit) : OnPage(i, q, limit) => q = p
  BY <1>1, OnOnePageOnly
<1> QED
  BY <1>1, <1>2

\* What skip and take return for a page are the rows of that page, in their order.
THEOREM ItemsOfPage ==
    ASSUME NEW S, NEW rows \in Seq(S), NEW limit \in Nat \ {0}, NEW page \in Nat \ {0},
           NEW i \in 1..Len(rows), OnPage(i, page, limit)
    PROVE  Items(rows, page, limit)[i - Skip(page, limit)] = rows[i]
<1> DEFINE skip == Skip(page, limit)
           last == IF skip + limit <= Len(rows) THEN skip + limit ELSE Len(rows)
<1>1. skip \in Nat
  <2>1. page - 1 \in Nat
    OBVIOUS
  <2> QED
    BY <2>1 DEF Skip
<1>2. Items(rows, page, limit) = SubSeq(rows, skip + 1, last)
  BY DEF Items
<1>3. skip < i /\ i <= skip + limit
  BY DEF OnPage
<1> HIDE DEF skip
<1>4. last \in 1..Len(rows) /\ i <= last /\ skip + 1 <= last /\ skip + 1 \in 1..Len(rows)
  BY <1>1, <1>3
<1> HIDE DEF last
<1>5. SubSeq(rows, skip + 1, last)[i - skip] = rows[i]
  <2>1. \A k \in skip + 1..last : rows[k] \in S
    BY <1>1, <1>4
  <2>2. \A k \in 1..last - (skip + 1) + 1 :
            SubSeq(rows, skip + 1, last)[k] = rows[skip + 1 + k - 1]
    BY <1>1, <1>4, <2>1, SubSeqProperties
  <2>3. i - skip \in 1..last - (skip + 1) + 1 /\ skip + 1 + (i - skip) - 1 = i
    BY <1>1, <1>3, <1>4
  <2> QED
    BY <2>2, <2>3
<1> QED
  BY <1>2, <1>5 DEF skip

-----------------------------------------------------------------------------
(* The extraction *)

\* inspect has accepted the file.
Inspected(f) == f.format = "image" \/ (f.format = "pdf" /\ Len(f.pages) \in 1..MaxPdfPages)

\* The text the row of page p is cut from.
TextOf(f, p, row) ==
    Normalized(IF row.method = "NATIVE_TEXT" THEN f.pages[row.from].native
               ELSE f.pages[p].ocr)

\* The row is what one uninterrupted run would store for page p with this much
\* of the limit of the document left.
RowOK(f, p, row, left) ==
    /\ row \in PageRow
    /\ row.chars <= left
    /\ row.rated => row.method = "OCR"
    /\ row.status = "COMPLETED" =>
          /\ row.chars = Min({TextOf(f, p, row), MaxTextPerPage, left})
          /\ row.chars > 0
          /\ row.truncated <=> row.chars < TextOf(f, p, row)
          /\ Fits(f) => row.from = p
    /\ row.status = "EMPTY" => row.chars = 0 /\ row.method = "OCR"
    /\ row.status = "FAILED" =>
          /\ row.chars = 0
          /\ (row.code = "OCR_TEXT_LIMIT_EXCEEDED") <=> (row.method # "none")
          /\ row.method # "none" => left = 0

\* The rows are those of the first n pages.
RowsOK(f, rows, n) ==
    /\ n \in Nat /\ rows \in [1..n -> PageRow]
    /\ n > 0 => Inspected(f) /\ n <= Len(f.pages)
    /\ Used(rows, n) <= MaxTextPerDocument
    /\ \A p \in 1..n : RowOK(f, p, rows[p], MaxTextPerDocument - Used(rows, p - 1))

Work(f) ==
    [ pc : Busy \union {"idle", "done", "failed"}, page : Nat, budget : Nat,
      layer : Seq(1..Len(f.pages)), late : BOOLEAN, out : PageRow ]

\* The worker is at the page after the last stored one, and its budget is what
\* the stored pages (used) and the page it yields leave.
WorkOK(f, used, n, w) ==
    /\ w \in Work(f)
    /\ LayerOK(f, w.layer)
    /\ w.pc \in Timed \union {"progress"} => Inspected(f)
    /\ w.pc \in Timed => w.page = n + 1 /\ w.budget + w.out.chars + used = MaxTextPerDocument
    /\ w.pc \notin Timed => w.page = 0 /\ w.budget = 0
    /\ w.pc # "persist" => w.out = NoRow
    /\ w.pc \in {"ocr", "persist"} => n + 1 <= Len(f.pages)
    /\ w.pc = "persist" => RowOK(f, n + 1, w.out, MaxTextPerDocument - used)
    /\ w.pc = "done" => Inspected(f) /\ n = Len(f.pages)

Directory == [input : Nat, images : SUBSET [page : Nat, whole : BOOLEAN, pixels : Nat]]

\* The work directory.
DiskOK(f, d, w) ==
    /\ d \in Directory
    /\ d.input <= MaxFileSize
    /\ \A i \in d.images :
          /\ i.whole => i.page = w.page /\ w.pc \in {"ocr", "persist"}
          /\ f.pages[i.page].reported => i.pixels <= MaxRenderPixels

ExtractionAt(n) ==
    /\ file \in Files
    /\ attempts \in 0..MaxAttempts
    /\ RowsOK(file, stored, n)
    /\ WorkOK(file, Used(stored, n), n, work)
    /\ DiskOK(file, disk, work)

\* The inductive invariant.
ExtractionInv == ExtractionAt(Cardinality(DOMAIN stored))

\* The number of the rows.
LEMMA RowCount ==
    ASSUME NEW n \in Nat, NEW rows \in [1..n -> PageRow]
    PROVE  Cardinality(DOMAIN rows) = n
  <1>1. DOMAIN rows = 1..n
    OBVIOUS
  <1>2. Cardinality(1..n) = n
    BY FS_Interval
  <1> QED
    BY <1>1, <1>2

\* Facts about a file.
LEMMA FileFacts ==
    ASSUME NEW f \in Files
    PROVE  /\ f \in File /\ f.pages \in Seq(Page) /\ Len(f.pages) \in Nat
           /\ \A p \in 1..Len(f.pages) : f.pages[p] \in Page
           /\ Inspected(f) => Len(f.pages) >= 1
           /\ f.format = "image" => Len(f.pages) = 1
           /\ f.bytes \in Nat
  <1>1. f \in File /\ (f.format = "image" => Len(f.pages) = 1)
    BY ExtractionAssumption
  <1>2. f.pages \in Seq(Page) /\ f.bytes \in Nat
    BY <1>1 DEF File
  <1> QED
    BY <1>1, <1>2, Limits DEF Inspected

\* The number of pages of an inspected file.
LEMMA TotalIs ==
    ASSUME file \in Files, Inspected(file)
    PROVE  Total = Len(file.pages)
  BY FileFacts DEF Total, Inspected

Codes == {"none", "OCR_TEXT_LIMIT_EXCEEDED", "OCR_PROCESSING_TIMEOUT",
          "OCR_PAGE_TOO_LARGE", "OCR_INVALID_FILE", "OCR_PROCESSING_FAILED"}

\* A failed page, whatever is left.
LEMMA FailedRowOK ==
    ASSUME NEW f, NEW p, NEW left \in Nat, NEW code \in Codes \ {"OCR_TEXT_LIMIT_EXCEEDED"}
    PROVE  /\ RowOK(f, p, FailedPage(code, "none"), left)
           /\ FailedPage(code, "none").chars = 0
  <1>1. FailedPage(code, "none") \in PageRow
    BY DEF FailedPage, PageRow, Codes
  <1> QED
    BY <1>1 DEF FailedPage, RowOK

\* What storeText makes of a text.
LEMMA StoreTextOK ==
    ASSUME NEW f, NEW p, NEW left \in Nat, NEW method \in {"NATIVE_TEXT", "OCR"},
           NEW from \in Nat, NEW chars \in Nat, NEW rated \in BOOLEAN,
           chars > 0 => chars = Normalized(IF method = "NATIVE_TEXT" THEN f.pages[from].native
                                           ELSE f.pages[p].ocr),
           method = "NATIVE_TEXT" => chars > 0 /\ ~rated,
           Fits(f) => from = p
    PROVE  RowOK(f, p, StoreText(method, from, chars, rated, left), left)
  <1> DEFINE row == StoreText(method, from, chars, rated, left)
             cut == Min({chars, MaxTextPerPage, left})
  <1>0. /\ cut \in Nat /\ cut <= chars /\ cut <= left
        /\ cut \in {chars, MaxTextPerPage, left}
        /\ MaxTextPerPage \in Nat /\ MaxTextPerPage > 0
    BY Limits, Cut
  <1>a. SUFFICES RowOK(f, p, row, left)
    OBVIOUS
  <1>1. CASE chars = 0
    <2>1. row = [ status |-> "EMPTY", method |-> method, from |-> from, chars |-> 0,
                  truncated |-> FALSE, rated |-> rated, code |-> "none" ]
      BY <1>1 DEF StoreText
    <2>2. row \in PageRow
      BY <2>1 DEF PageRow
    <2> HIDE DEF row
    <2> QED
      BY <1>1, <2>1, <2>2 DEF RowOK
  <1>2. CASE chars > 0 /\ left = 0
    <2>1. row = [ status |-> "FAILED", method |-> method, from |-> 0, chars |-> 0,
                  truncated |-> FALSE, rated |-> FALSE, code |-> "OCR_TEXT_LIMIT_EXCEEDED" ]
      BY <1>2 DEF StoreText, FailedPage
    <2>2. row \in PageRow
      BY <2>1 DEF PageRow
    <2> HIDE DEF row
    <2> QED
      BY <1>2, <2>1, <2>2 DEF RowOK
  <1>3. CASE chars > 0 /\ left > 0
    <2> DEFINE row0 == [ status |-> "EMPTY", method |-> method, from |-> from, chars |-> 0,
                         truncated |-> FALSE, rated |-> rated, code |-> "none" ]
    <2>1. row = [row0 EXCEPT !.status = "COMPLETED", !.chars = cut, !.truncated = chars > cut]
      <3>1. ~(chars = 0) /\ ~(chars > 0 /\ left <= 0)
        BY <1>3
      <3>2. TruncateText(chars, {MaxTextPerPage, left}) = cut
        <4>1. {chars} \union {MaxTextPerPage, left} = {chars, MaxTextPerPage, left}
          OBVIOUS
        <4> QED
          BY <4>1 DEF TruncateText
      <3> QED
        BY <3>1, <3>2 DEF StoreText
    <2>a. row0 \in PageRow /\ (chars > cut) \in BOOLEAN /\ cut \in Nat
      BY <1>0 DEF PageRow
    <2> HIDE DEF cut, row
    <2>2. row \in PageRow
      <3>1. PICK t \in BOOLEAN : t = (chars > cut)
        BY <2>a
      <3>2. row = [row0 EXCEPT !.status = "COMPLETED", !.chars = cut, !.truncated = t]
        BY <2>1, <3>1
      <3> QED
        BY <2>a, <3>2 DEF PageRow
    <2>6. /\ row.status = "COMPLETED" /\ row.chars = cut /\ row.rated = rated
          /\ row.method = method /\ row.from = from /\ row.truncated = (chars > cut)
      BY <2>1
    <2>3. TextOf(f, p, row) = chars
      BY <1>3, <2>6 DEF TextOf
    <2>4. row.chars = Min({TextOf(f, p, row), MaxTextPerPage, left})
      BY <2>6, <2>3 DEF cut
    <2>5. cut > 0
      BY <1>0, <1>3
    <2>7. row.truncated <=> (row.chars < TextOf(f, p, row))
      BY <1>0, <2>3, <2>6
    <2> HIDE DEF row0
    <2> QED
      BY <1>0, <2>2, <2>4, <2>5, <2>6, <2>7 DEF RowOK
  <1> QED
    BY <1>1, <1>2, <1>3

\* A worker that has nothing at hand.
LEMMA IdleOK ==
    ASSUME NEW f \in Files, NEW used, NEW n, NEW pc \in {"idle", "failed", "open"}
    PROVE  /\ WorkOK(f, used, n, [Idle EXCEPT !.pc = pc]) /\ WorkOK(f, used, n, Idle)
           /\ \A w : DiskOK(f, EmptyDir, w)
  <1> DEFINE w == [Idle EXCEPT !.pc = pc]
  <1>2. NoRow \in PageRow /\ <<>> \in Seq(1..Len(f.pages))
    BY DEF NoRow, FailedPage, PageRow
  <1>1. Idle \in Work(f)
    BY <1>2 DEF Idle, Work
  <1>3. w \in Work(f)
    BY <1>1 DEF Work, Busy
  <1>5. w.pc = pc /\ w.page = 0 /\ w.budget = 0 /\ w.out = NoRow /\ w.layer = <<>>
    BY DEF Idle
  <1>4. LayerOK(f, w.layer)
    <2>1. LayerOK(f, <<>>)
      BY <1>2 DEF LayerOK
    <2> QED
      BY <1>5, <2>1
  <1>8. WorkOK(f, used, n, Idle)
    <2>1. /\ Idle.pc = "idle" /\ Idle.page = 0 /\ Idle.budget = 0 /\ Idle.out = NoRow
          /\ LayerOK(f, Idle.layer)
      BY <1>4, <1>5 DEF Idle
    <2> QED
      BY <1>1, <2>1 DEF WorkOK, Timed
  <1> HIDE DEF w
  <1>6. WorkOK(f, used, n, w)
    BY <1>3, <1>4, <1>5 DEF WorkOK, Timed
  <1>7. \A v : DiskOK(f, EmptyDir, v)
    BY Limits DEF DiskOK, EmptyDir, Directory
  <1> QED
    BY <1>6, <1>7, <1>8 DEF w

\* What the steps need of the rows.
LEMMA RowsFacts ==
    ASSUME NEW f, NEW rows, NEW n, RowsOK(f, rows, n)
    PROVE  /\ n \in Nat /\ Rowlike(rows) /\ DOMAIN rows = 1..n
           /\ Used(rows, n) \in Nat /\ MaxTextPerDocument - Used(rows, n) \in Nat
  <1>1. n \in Nat /\ rows \in [1..n -> PageRow] /\ Used(rows, n) <= MaxTextPerDocument
    BY DEF RowsOK
  <1>2. Rowlike(rows)
    BY <1>1 DEF Rowlike, PageRow
  <1>3. Used(rows, n) \in Nat
    BY <1>1, <1>2, UsedStep
  <1> QED
    BY <1>1, <1>2, <1>3, Limits

\* The worker in its steps before the pages.
LEMMA MoveOK ==
    ASSUME NEW f, NEW used, NEW n, NEW w, WorkOK(f, used, n, w),
           w.pc \in {"open", "download", "inspect"},
           NEW pc \in {"download", "inspect", "progress"}, pc = "progress" => Inspected(f)
    PROVE  WorkOK(f, used, n, [w EXCEPT !.pc = pc])
  <1>1. PICK v : v = [w EXCEPT !.pc = pc]
    OBVIOUS
  <1>2. w \in Work(f)
    BY DEF WorkOK
  <1>3. v \in Work(f) /\ v.pc = pc /\ v.page = w.page /\ v.budget = w.budget
        /\ v.out = w.out /\ v.layer = w.layer
    BY <1>1, <1>2 DEF Work, Busy
  <1>4. WorkOK(f, used, n, v)
    BY <1>3 DEF WorkOK, Timed
  <1> QED
    BY <1>1, <1>4

\* The worker yields the row of its page.
LEMMA YieldOK ==
    ASSUME NEW f, NEW used \in Nat, NEW n \in Nat, NEW w, WorkOK(f, used, n, w),
           w.pc \in {"page", "ocr"}, n + 1 <= Len(f.pages),
           NEW row, RowOK(f, n + 1, row, MaxTextPerDocument - used)
    PROVE  WorkOK(f, used, n, [w EXCEPT !.pc = "persist", !.out = row, !.budget = @ - row.chars])
  <1>1. PICK v : v = [w EXCEPT !.pc = "persist", !.out = row, !.budget = @ - row.chars]
    OBVIOUS
  <1>2. w \in Work(f) /\ w.budget \in Nat /\ w.out = NoRow
    BY DEF WorkOK, Work
  <1>3. w.budget + used = MaxTextPerDocument /\ w.page = n + 1
    BY <1>2 DEF WorkOK, Timed, NoRow, FailedPage
  <1>4. row \in PageRow /\ row.chars \in Nat /\ row.chars <= w.budget
    BY <1>2, <1>3, Limits DEF RowOK, PageRow
  <1>5. w.budget - row.chars \in Nat
    BY <1>2, <1>4
  <1>6. v \in Work(f) /\ v.pc = "persist" /\ v.page = w.page /\ v.out = row
        /\ v.layer = w.layer /\ v.budget = w.budget - row.chars
    BY <1>1, <1>2, <1>4, <1>5 DEF Work, Busy
  <1>7. v.budget + v.out.chars + used = MaxTextPerDocument
    BY <1>2, <1>3, <1>4, <1>6
  <1>8. WorkOK(f, used, n, v)
    BY <1>3, <1>6, <1>7 DEF WorkOK, Timed
  <1> QED
    BY <1>1, <1>8

\* A step that leaves the directory alone.
LEMMA DiskKept ==
    ASSUME NEW f, NEW d, NEW w, NEW v, DiskOK(f, d, w),
           \/ w.pc \notin {"ocr", "persist"}
           \/ v.page = w.page /\ v.pc \in {"ocr", "persist"}
    PROVE  DiskOK(f, d, v)
  BY DEF DiskOK

\* A step that leaves the rows alone.
LEMMA RowsKept ==
    ASSUME NEW n, ExtractionAt(n), file' = file, stored' = stored, attempts' \in 0..MaxAttempts,
           WorkOK(file, Used(stored, n), n, work'), DiskOK(file, disk', work')
    PROVE  ExtractionAt(n)'
  BY DEF ExtractionAt

\* run ends early.
LEMMA StopOK ==
    ASSUME NEW n, ExtractionAt(n), NEW permanent, Stop(permanent)
    PROVE  ExtractionAt(n)'
  <1>1. PICK pc \in {"idle", "failed"} : work' = [Idle EXCEPT !.pc = pc]
    BY DEF Stop
  <1>2. file \in Files /\ attempts \in 0..MaxAttempts
    BY DEF ExtractionAt
  <1>3. WorkOK(file, Used(stored, n), n, work') /\ DiskOK(file, EmptyDir, work')
    BY <1>1, <1>2, IdleOK
  <1>4. disk' = EmptyDir /\ file' = file /\ stored' = stored /\ attempts' = attempts
    BY DEF Stop
  <1> QED
    BY <1>2, <1>3, <1>4, RowsKept

\* The steps before the pages.
LEMMA BeginOK ==
    ASSUME NEW n, ExtractionAt(n), Begin
    PROVE  ExtractionAt(n)'
  <1>1. PICK pc \in {"failed", "open"} : work' = [Idle EXCEPT !.pc = pc]
    BY DEF Begin
  <1>2. file \in Files /\ attempts' \in 0..MaxAttempts
    BY Limits DEF ExtractionAt, Begin
  <1>3. WorkOK(file, Used(stored, n), n, work')
    BY <1>1, <1>2, IdleOK
  <1>4. DiskOK(file, disk', work')
    <2>1. DiskOK(file, disk, work) /\ work.pc = "idle" /\ disk' = disk
      BY DEF ExtractionAt, Begin
    <2> QED
      BY <2>1, DiskKept
  <1>5. file' = file /\ stored' = stored
    BY DEF Begin
  <1> QED
    BY <1>2, <1>3, <1>4, <1>5, RowsKept

\* A step that only changes the pc, before the pages.
LEMMA AdvanceOK ==
    ASSUME NEW n, ExtractionAt(n), work.pc \in {"open", "download", "inspect"},
           NEW pc \in {"download", "inspect", "progress"}, pc = "progress" => Inspected(file),
           work' = [work EXCEPT !.pc = pc], UNCHANGED <<file, stored, attempts, disk>>
    PROVE  ExtractionAt(n)'
  <1>1. /\ WorkOK(file, Used(stored, n), n, work) /\ DiskOK(file, disk, work)
        /\ attempts \in 0..MaxAttempts
    BY DEF ExtractionAt
  <1>2. WorkOK(file, Used(stored, n), n, work')
    BY <1>1, MoveOK
  <1>3. DiskOK(file, disk', work')
    BY <1>1, DiskKept
  <1> QED
    BY <1>1, <1>2, <1>3, RowsKept

LEMMA FetchOK ==
    ASSUME NEW n, ExtractionAt(n),
           \/ OpenObject \/ DownloadEnds \/ InspectFormat \/ InspectImage
           \/ \E o \in Outcomes : InspectPdf(o)
    PROVE  ExtractionAt(n)'
  <1>1. CASE OpenObject
    BY <1>1, StopOK, AdvanceOK DEF OpenObject
  <1>2. CASE DownloadEnds
    BY <1>2, AdvanceOK DEF DownloadEnds
  <1>3. CASE InspectFormat
    BY <1>3, StopOK DEF InspectFormat
  <1>4. CASE InspectImage
    BY <1>4, StopOK, AdvanceOK DEF InspectImage, Inspected
  <1>5. CASE \E o \in Outcomes : InspectPdf(o)
    <2>1. PICK o \in Outcomes : InspectPdf(o)
      BY <1>5
    <2> QED
      BY <2>1, StopOK, AdvanceOK DEF InspectPdf, Inspected
  <1> QED
    BY <1>1, <1>2, <1>3, <1>4, <1>5

LEMMA ReceiveChunkOK ==
    ASSUME NEW n, ExtractionAt(n), NEW k \in 1..(MaxFileSize + 1), ReceiveChunk(k)
    PROVE  ExtractionAt(n)'
  <1>1. CASE disk.input + k > MaxFileSize
    BY <1>1, StopOK DEF ReceiveChunk
  <1>2. CASE ~(disk.input + k > MaxFileSize)
    <2>1. /\ WorkOK(file, Used(stored, n), n, work) /\ DiskOK(file, disk, work)
          /\ attempts \in 0..MaxAttempts
      BY DEF ExtractionAt
    <2>2. /\ work' = work /\ disk' = [disk EXCEPT !.input = @ + k]
          /\ file' = file /\ stored' = stored /\ attempts' = attempts
      BY <1>2 DEF ReceiveChunk
    <2>3. disk \in Directory
      BY <2>1 DEF DiskOK
    <2>4. /\ disk' \in Directory /\ disk'.input = disk.input + k
          /\ disk'.images = disk.images /\ disk.input \in Nat
      BY <2>2, <2>3, Limits DEF Directory
    <2>5. DiskOK(file, disk', work')
      BY <1>2, <2>1, <2>2, <2>4, Limits DEF DiskOK
    <2> QED
      BY <2>1, <2>2, <2>5, RowsKept
  <1> QED
    BY <1>1, <1>2

\* persistedProgress: the last page number is the number of the rows.
LEMMA LastRow ==
    ASSUME NEW n \in Nat
    PROVE  Max({0} \union 1..n) = n
  <1> DEFINE T == {0} \union 1..n
  <1>1. T \in SUBSET (0..n) /\ T # {} /\ n \in T /\ \A y \in T : y \in Nat /\ y <= n
    OBVIOUS
  <1> HIDE DEF T
  <1>2. Max(T) \in T /\ \A y \in T : Max(T) >= y
    BY <1>1, Greatest
  <1>3. PICK m : m = Max(T)
    OBVIOUS
  <1>4. m \in Nat /\ m <= n /\ m >= n
    BY <1>1, <1>2, <1>3
  <1> QED
    BY <1>3, <1>4 DEF T

LEMMA ReadProgressOK ==
    ASSUME NEW n, ExtractionAt(n), ReadProgress
    PROVE  ExtractionAt(n)'
  <1> DEFINE used == Used(stored, n)
  <1>1. /\ WorkOK(file, used, n, work) /\ DiskOK(file, disk, work) /\ file \in Files
        /\ attempts \in 0..MaxAttempts /\ RowsOK(file, stored, n)
    BY DEF ExtractionAt
  <1>2. n \in Nat /\ DOMAIN stored = 1..n /\ used \in Nat /\ MaxTextPerDocument - used \in Nat
    BY <1>1, RowsFacts
  <1>3. Max({0} \union DOMAIN stored) = n
    BY <1>2, LastRow
  <1>4. PICK pc : pc = IF file.format = "pdf" THEN "layer" ELSE IF n = 0 THEN "ocr" ELSE "page"
    OBVIOUS
  <1>5. /\ work.pc = "progress"
        /\ work' = [work EXCEPT !.pc = pc, !.page = n + 1, !.budget = MaxTextPerDocument - used]
        /\ file' = file /\ stored' = stored /\ attempts' = attempts /\ disk' = disk
    BY <1>3, <1>4 DEF ReadProgress
  <1> HIDE DEF used
  <1>6. Inspected(file) /\ work \in Work(file) /\ work.out = NoRow /\ LayerOK(file, work.layer)
    BY <1>1, <1>5 DEF WorkOK
  <1>7. pc \in {"layer", "ocr", "page"} /\ (pc = "ocr" => n = 0)
    BY <1>4
  <1>8. /\ work' \in Work(file) /\ work'.pc = pc /\ work'.page = n + 1
        /\ work'.budget = MaxTextPerDocument - used /\ work'.out = NoRow
        /\ work'.layer = work.layer
    <2>1. PICK b \in Nat : b = MaxTextPerDocument - used
      BY <1>2
    <2>2. work' = [work EXCEPT !.pc = pc, !.page = n + 1, !.budget = b]
      BY <1>5, <2>1
    <2>3. n + 1 \in Nat /\ pc \in Busy
      BY <1>2, <1>7 DEF Busy
    <2> QED
      BY <1>6, <2>1, <2>2, <2>3 DEF Work
  <1>9. NoRow.chars = 0
    BY DEF NoRow, FailedPage
  <1>10. work'.budget + work'.out.chars + used = MaxTextPerDocument
    BY <1>2, <1>8, <1>9, Limits
  <1>11. pc = "ocr" => n + 1 <= Len(file.pages)
    BY <1>1, <1>6, <1>7, FileFacts
  <1>12. WorkOK(file, used, n, work')
    BY <1>6, <1>7, <1>8, <1>10, <1>11 DEF WorkOK, Timed
  <1>13. DiskOK(file, disk', work')
    BY <1>1, <1>5, DiskKept
  <1> QED
    BY <1>1, <1>5, <1>12, <1>13, RowsKept DEF used

LEMMA ReadLayerOK ==
    ASSUME NEW n, ExtractionAt(n), NEW o \in Outcomes, ReadLayer(o)
    PROVE  ExtractionAt(n)'
  <1>1. CASE o = "other"
    BY <1>1, StopOK DEF ReadLayer
  <1>2. CASE o # "other"
    <2> DEFINE used == Used(stored, n)
    <2>1. /\ WorkOK(file, used, n, work) /\ DiskOK(file, disk, work) /\ file \in Files
          /\ attempts \in 0..MaxAttempts
      BY DEF ExtractionAt
    <2> HIDE DEF used
    <2>2. PICK layer : layer = IF o = "ok" THEN Captured(file.pages) ELSE <<>>
      OBVIOUS
    <2>3. /\ work.pc = "layer" /\ work' = [work EXCEPT !.pc = "page", !.layer = layer]
          /\ file' = file /\ stored' = stored /\ attempts' = attempts /\ disk' = disk
      BY <1>2, <2>2 DEF ReadLayer
    <2>4. LayerOK(file, layer)
      <3>1. LayerOK(file, Captured(file.pages))
        BY <2>1, FileFacts, CapturedOK
      <3>2. LayerOK(file, <<>>)
        BY DEF LayerOK
      <3> QED
        BY <2>2, <3>1, <3>2
    <2>5. work \in Work(file) /\ layer \in Seq(1..Len(file.pages))
      BY <2>1, <2>4 DEF WorkOK, LayerOK
    <2>6. /\ work' \in Work(file) /\ work'.pc = "page" /\ work'.page = work.page
          /\ work'.budget = work.budget /\ work'.out = work.out /\ work'.layer = layer
      BY <2>3, <2>5 DEF Work, Busy
    <2>7. WorkOK(file, used, n, work')
      BY <2>1, <2>3, <2>4, <2>6 DEF WorkOK, Timed
    <2>8. DiskOK(file, disk', work')
      BY <2>1, <2>3, DiskKept
    <2> QED
      BY <2>1, <2>3, <2>7, <2>8, RowsKept DEF used
  <1> QED
    BY <1>1, <1>2

LEMMA DeadlineOK ==
    ASSUME NEW n, ExtractionAt(n), DeadlinePasses
    PROVE  ExtractionAt(n)'
  <1> DEFINE used == Used(stored, n)
  <1>1. /\ WorkOK(file, used, n, work) /\ DiskOK(file, disk, work) /\ attempts \in 0..MaxAttempts
    BY DEF ExtractionAt
  <1> HIDE DEF used
  <1>2. /\ work' = [work EXCEPT !.late = TRUE] /\ work \in Work(file)
        /\ file' = file /\ stored' = stored /\ attempts' = attempts /\ disk' = disk
    BY <1>1 DEF DeadlinePasses, WorkOK
  <1>3. /\ work' \in Work(file) /\ work'.pc = work.pc /\ work'.page = work.page
        /\ work'.budget = work.budget /\ work'.out = work.out /\ work'.layer = work.layer
    BY <1>2 DEF Work
  <1>4. WorkOK(file, used, n, work')
    BY <1>1, <1>3 DEF WorkOK
  <1>5. DiskOK(file, disk', work')
    BY <1>1, <1>2, <1>3 DEF DiskOK
  <1> QED
    BY <1>1, <1>2, <1>4, <1>5, RowsKept DEF used

\* What holds when a page is worked on.
LEMMA AtPage ==
    ASSUME NEW n, ExtractionAt(n), work.pc \in {"page", "ocr"},
           work.pc = "page" => work.page <= Total
    PROVE  /\ n \in Nat /\ Used(stored, n) \in Nat /\ file \in Files
           /\ MaxTextPerDocument - Used(stored, n) \in Nat
           /\ work.budget = MaxTextPerDocument - Used(stored, n)
           /\ work.page = n + 1 /\ n + 1 \in 1..Len(file.pages)
           /\ file.pages[n + 1] \in Page
           /\ LayerOK(file, work.layer)
           /\ attempts \in 0..MaxAttempts
           /\ WorkOK(file, Used(stored, n), n, work) /\ DiskOK(file, disk, work)
           /\ work \in Work(file)
  <1> DEFINE used == Used(stored, n)
  <1>1. /\ WorkOK(file, used, n, work) /\ DiskOK(file, disk, work) /\ file \in Files
        /\ attempts \in 0..MaxAttempts /\ RowsOK(file, stored, n)
    BY DEF ExtractionAt
  <1>2. n \in Nat /\ used \in Nat /\ MaxTextPerDocument - used \in Nat
    BY <1>1, RowsFacts
  <1> HIDE DEF used
  <1>3. /\ work.page = n + 1 /\ LayerOK(file, work.layer) /\ Inspected(file)
        /\ work.out = NoRow /\ work \in Work(file)
        /\ work.budget + work.out.chars + used = MaxTextPerDocument
        /\ (work.pc = "ocr" => n + 1 <= Len(file.pages))
    BY <1>1 DEF WorkOK, Timed
  <1>4. NoRow.chars = 0 /\ work.budget \in Nat
    BY <1>3 DEF NoRow, FailedPage, Work
  <1>5. work.budget = MaxTextPerDocument - used
    BY <1>2, <1>3, <1>4, Limits
  <1>6. n + 1 <= Len(file.pages) /\ Len(file.pages) \in Nat
    BY <1>1, <1>3, TotalIs, FileFacts
  <1>7. n + 1 \in 1..Len(file.pages)
    BY <1>2, <1>6
  <1>8. file.pages[n + 1] \in Page
    BY <1>1, <1>7, FileFacts
  <1> QED
    BY <1>1, <1>2, <1>3, <1>5, <1>7, <1>8 DEF used

\* A page is yielded.
LEMMA YieldStep ==
    ASSUME NEW n, ExtractionAt(n), work.pc \in {"page", "ocr"},
           work.pc = "page" => work.page <= Total,
           NEW row, RowOK(file, n + 1, row, MaxTextPerDocument - Used(stored, n)), Yield(row)
    PROVE  /\ WorkOK(file, Used(stored, n), n, work')
           /\ work'.page = n + 1 /\ work'.pc = "persist"
           /\ disk' = disk => DiskOK(file, disk', work') /\ ExtractionAt(n)'
  <1>1. /\ n \in Nat /\ Used(stored, n) \in Nat /\ n + 1 <= Len(file.pages)
        /\ WorkOK(file, Used(stored, n), n, work) /\ DiskOK(file, disk, work)
        /\ attempts \in 0..MaxAttempts /\ work.page = n + 1 /\ work \in Work(file)
    BY AtPage
  <1>2. /\ work' = [work EXCEPT !.pc = "persist", !.out = row, !.budget = @ - row.chars]
        /\ file' = file /\ stored' = stored /\ attempts' = attempts
    BY DEF Yield
  <1>3. WorkOK(file, Used(stored, n), n, work')
    BY <1>1, <1>2, YieldOK
  <1>4. work'.page = n + 1 /\ work'.pc = "persist"
    BY <1>1, <1>2 DEF Work
  <1>5. DiskOK(file, disk, work')
    BY <1>1, <1>4, DiskKept
  <1>6. disk' = disk => ExtractionAt(n)'
    BY <1>1, <1>2, <1>3, <1>5, RowsKept
  <1> QED
    BY <1>3, <1>4, <1>5, <1>6

LEMMA PageTimedOutOK ==
    ASSUME NEW n, ExtractionAt(n), PageTimedOut
    PROVE  ExtractionAt(n)'
  <1>1. /\ work.pc = "page" /\ work.page <= Total /\ disk' = disk
        /\ Yield(FailedPage("OCR_PROCESSING_TIMEOUT", "none"))
    BY DEF PageTimedOut
  <1>2. MaxTextPerDocument - Used(stored, n) \in Nat
    BY <1>1, AtPage
  <1>3. RowOK(file, n + 1, FailedPage("OCR_PROCESSING_TIMEOUT", "none"),
              MaxTextPerDocument - Used(stored, n))
    BY <1>2, FailedRowOK DEF Codes
  <1> QED
    BY <1>1, <1>3, YieldStep

LEMMA PageNativeOK ==
    ASSUME NEW n, ExtractionAt(n), PageNative
    PROVE  ExtractionAt(n)'
  <1> DEFINE left == MaxTextPerDocument - Used(stored, n)
  <1>1. work.pc = "page" /\ work.page <= Total /\ disk' = disk /\ Usable(NativeText(work.page))
    BY DEF PageNative
  <1>2. /\ left \in Nat /\ work.budget = left /\ work.page = n + 1 /\ n \in Nat
        /\ LayerOK(file, work.layer) /\ file \in Files
    BY <1>1, AtPage
  <1>3. PICK from : from = Source(n + 1)
    OBVIOUS
  <1>4. from # 0
    <2>1. SUFFICES ASSUME from = 0 PROVE FALSE
      OBVIOUS
    <2>2. NativeText(n + 1) = NoText
      BY <1>3, <2>1 DEF NativeText
    <2>3. Normalized(NoText) - NoText.gaps = 0
      BY DEF Normalized, NoText
    <2> QED
      BY <1>1, <1>2, <2>2, <2>3, Limits DEF Usable
  <1>5. from \in 1..Len(file.pages) /\ (Fits(file) => from = n + 1)
    <2>1. n + 1 <= Len(work.layer) /\ from = work.layer[n + 1]
      BY <1>3, <1>4 DEF Source
    <2>2. work.layer \in Seq(1..Len(file.pages))
      BY <1>2 DEF LayerOK
    <2>3. n + 1 \in 1..Len(work.layer)
      BY <1>2, <2>1, <2>2
    <2> QED
      BY <1>2, <2>1, <2>2, <2>3 DEF LayerOK
  <1>6. PICK t : t = file.pages[from].native
    OBVIOUS
  <1>7. NativeText(n + 1) = t
    BY <1>3, <1>4, <1>6 DEF NativeText
  <1>8. t \in Text /\ from \in Nat
    <2>1. file.pages[from] \in Page
      BY <1>2, <1>5, FileFacts
    <2> QED
      BY <1>5, <1>6, <2>1 DEF Page
  <1>9. Normalized(t) \in Nat /\ Normalized(t) > 0
    <2>1. Normalized(t) - t.gaps >= MinChars
      BY <1>1, <1>2, <1>7 DEF Usable
    <2>2. t.gaps \in Nat /\ Normalized(t) \in Nat
      BY <1>8 DEF Text, Normalized
    <2> QED
      BY <2>1, <2>2, Limits
  <1>10. PICK row : row = StoreText("NATIVE_TEXT", from, Normalized(t), FALSE, left)
    OBVIOUS
  <1>11. RowOK(file, n + 1, row, left)
    <2> HIDE DEF left
    <2> QED
      BY <1>2, <1>5, <1>6, <1>8, <1>9, <1>10, StoreTextOK
  <1>12. Yield(row)
    BY <1>2, <1>3, <1>7, <1>10 DEF PageNative
  <1> QED
    BY <1>1, <1>11, <1>12, YieldStep

\* An image that is added to the directory.
LEMMA ImageOK ==
    ASSUME NEW n, ExtractionAt(n), work.pc = "page", work.page <= Total,
           NEW whole \in BOOLEAN, NEW w, w.page = n + 1, w.pc \in {"ocr", "persist"}
    PROVE  DiskOK(file, [disk EXCEPT !.images = @ \union {Image(whole)}], w)
  <1>1. /\ n \in Nat /\ DiskOK(file, disk, work) /\ work.page = n + 1
        /\ file.pages[n + 1] \in Page
    BY AtPage
  <1>2. PICK page \in Page : page = file.pages[n + 1]
    BY <1>1
  <1>3. PICK d : d = DpiFor(page)
    OBVIOUS
  <1>4. /\ d \in Nat /\ page.area \in Nat /\ (page.reported => d * d * page.area <= MaxRenderPixels)
    BY <1>3, DpiFits, PageFacts
  <1>5. PICK pixels \in Nat : pixels = d * d * page.area
    BY <1>4
  <1>6. PICK i : i = [page |-> n + 1, whole |-> whole, pixels |-> pixels]
    OBVIOUS
  <1>7. Image(whole) = i
    BY <1>1, <1>2, <1>3, <1>5, <1>6, Zenon DEF Image
  <1>8. /\ i \in [page : Nat, whole : BOOLEAN, pixels : Nat]
        /\ i.page = n + 1 /\ i.pixels = pixels
    BY <1>1, <1>5, <1>6
  <1>9. PICK e : e = [disk EXCEPT !.images = @ \union {i}]
    OBVIOUS
  <1>10. disk \in Directory
    BY <1>1 DEF DiskOK
  <1>11. e \in Directory /\ e.input = disk.input /\ e.images = disk.images \union {i}
    BY <1>8, <1>9, <1>10 DEF Directory
  <1>12. file.pages[i.page].reported => i.pixels <= MaxRenderPixels
    BY <1>2, <1>4, <1>5, <1>8
  <1>13. DiskOK(file, e, w)
    BY <1>1, <1>8, <1>11, <1>12 DEF DiskOK
  <1> QED
    BY <1>7, <1>9, <1>13

LEMMA RenderPageOK ==
    ASSUME NEW n, ExtractionAt(n), NEW o \in Outcomes, NEW partial \in BOOLEAN,
           RenderPage(o, partial)
    PROVE  ExtractionAt(n)'
  <1> DEFINE left == MaxTextPerDocument - Used(stored, n)
  <1>1. work.pc = "page" /\ work.page <= Total
    BY DEF RenderPage
  <1>2. /\ left \in Nat /\ work.page = n + 1 /\ n \in Nat /\ work \in Work(file)
        /\ attempts \in 0..MaxAttempts /\ WorkOK(file, Used(stored, n), n, work)
        /\ n + 1 <= Len(file.pages)
    BY <1>1, AtPage
  <1>3. CASE Yield(FailedPage("OCR_PAGE_TOO_LARGE", "none")) /\ disk' = disk
    <2>1. RowOK(file, n + 1, FailedPage("OCR_PAGE_TOO_LARGE", "none"), left)
      BY <1>2, FailedRowOK DEF Codes
    <2> QED
      BY <1>1, <1>3, <2>1, YieldStep
  <1>4. CASE /\ disk' = [disk EXCEPT !.images = @ \union {Image(TRUE)}]
             /\ work' = [work EXCEPT !.pc = "ocr"]
             /\ UNCHANGED <<file, stored, attempts>>
    <2>1. /\ work' \in Work(file) /\ work'.pc = "ocr" /\ work'.page = n + 1
          /\ work'.budget = work.budget /\ work'.out = work.out /\ work'.layer = work.layer
      BY <1>2, <1>4 DEF Work, Busy
    <2>2. WorkOK(file, Used(stored, n), n, work')
      BY <1>1, <1>2, <2>1 DEF WorkOK, Timed
    <2>3. DiskOK(file, disk', work')
      BY <1>1, <1>4, <2>1, ImageOK
    <2> QED
      BY <1>2, <1>4, <2>2, <2>3, RowsKept
  <1>5. CASE /\ o \in Spoiled
             /\ Yield(FailedPage(ToolCode(o, "OCR_INVALID_FILE"), "none"))
             /\ disk' = [disk EXCEPT !.images = IF partial THEN @ \union {Image(FALSE)} ELSE @]
    <2>1. ToolCode(o, "OCR_INVALID_FILE") \in Codes \ {"OCR_TEXT_LIMIT_EXCEEDED"}
      BY DEF ToolCode, Codes
    <2>2. RowOK(file, n + 1, FailedPage(ToolCode(o, "OCR_INVALID_FILE"), "none"), left)
      BY <1>2, <2>1, FailedRowOK
    <2>3. /\ WorkOK(file, Used(stored, n), n, work')
          /\ work'.page = n + 1 /\ work'.pc = "persist"
          /\ (disk' = disk => ExtractionAt(n)')
      BY <1>1, <1>5, <2>2, YieldStep
    <2>4. file' = file /\ stored' = stored /\ attempts' = attempts
      BY <1>5 DEF Yield
    <2>5. CASE partial
      <3>1. disk' = [disk EXCEPT !.images = @ \union {Image(FALSE)}]
        BY <1>5, <2>5
      <3>2. DiskOK(file, disk', work')
        BY <1>1, <2>3, <3>1, ImageOK
      <3> QED
        BY <1>2, <2>3, <2>4, <3>2, RowsKept
    <2>6. CASE ~partial
      <3>1. disk \in Directory
        BY <1>1, AtPage DEF DiskOK
      <3>2. disk' = disk
        BY <1>5, <2>6, <3>1 DEF Directory
      <3> QED
        BY <2>3, <3>2
    <2> QED
      BY <2>5, <2>6
  <1>6. CASE Stop(FALSE)
    BY <1>6, StopOK
  <1> QED
    BY <1>3, <1>4, <1>5, <1>6 DEF RenderPage

LEMMA RecognizeOK ==
    ASSUME NEW n, ExtractionAt(n), NEW o \in Outcomes, NEW lost \in SUBSET {"txt", "tsv"},
           NEW atFault \in BOOLEAN, Recognize(o, lost, atFault)
    PROVE  ExtractionAt(n)'
  <1> DEFINE left == MaxTextPerDocument - Used(stored, n)
  <1>1. work.pc = "ocr"
    BY DEF Recognize
  <1>2. /\ left \in Nat /\ work.page = n + 1 /\ n \in Nat /\ work.budget = left
        /\ file.pages[n + 1] \in Page
    BY <1>1, AtPage
  <1>3. CASE /\ Yield(StoreText("OCR", work.page, Normalized(Recognized(lost)), Rated(lost),
                                work.budget))
             /\ disk' = disk
    <2>1. PICK chars : chars = Normalized(Recognized(lost))
      OBVIOUS
    <2>2. chars \in Nat /\ (chars > 0 => chars = Normalized(file.pages[n + 1].ocr))
      <3>1. CASE "txt" \in lost
        <4>1. chars = 0
          BY <2>1, <3>1 DEF Recognized, Normalized, NoText
        <4> QED
          BY <4>1
      <3>2. CASE "txt" \notin lost
        <4>1. chars = Normalized(file.pages[n + 1].ocr)
          BY <1>2, <2>1, <3>2 DEF Recognized
        <4> QED
          BY <1>2, <4>1, PageFacts
      <3> QED
        BY <3>1, <3>2
    <2>3. PICK rated \in BOOLEAN : rated = Rated(lost)
      BY DEF Rated
    <2>4. PICK row : row = StoreText("OCR", n + 1, chars, rated, left)
      OBVIOUS
    <2>5. RowOK(file, n + 1, row, left)
      <3> HIDE DEF left
      <3> QED
        <4>1. n + 1 \in Nat
          BY <1>2
        <4>2. chars > 0 => chars = Normalized(IF "OCR" = "NATIVE_TEXT"
                                              THEN file.pages[n + 1].native
                                              ELSE file.pages[n + 1].ocr)
          BY <2>2
        <4> QED
          BY <1>2, <2>2, <2>4, <4>1, <4>2, StoreTextOK
    <2>6. Yield(row)
      BY <1>2, <1>3, <2>1, <2>3, <2>4
    <2> QED
      BY <1>1, <1>3, <2>5, <2>6, YieldStep
  <1>4. CASE /\ Yield(FailedPage(ToolCode(o, IF atFault THEN "OCR_INVALID_FILE"
                                             ELSE "OCR_PROCESSING_FAILED"), "none"))
             /\ disk' = disk
    <2>1. PICK code : code = ToolCode(o, IF atFault THEN "OCR_INVALID_FILE"
                                         ELSE "OCR_PROCESSING_FAILED")
      OBVIOUS
    <2>2. code \in Codes \ {"OCR_TEXT_LIMIT_EXCEEDED"}
      BY <2>1 DEF ToolCode, Codes
    <2>3. RowOK(file, n + 1, FailedPage(code, "none"), left)
      BY <1>2, <2>2, FailedRowOK
    <2> QED
      BY <1>1, <1>4, <2>1, <2>3, YieldStep
  <1>5. CASE Stop(FALSE)
    BY <1>5, StopOK
  <1> QED
    BY <1>3, <1>4, <1>5 DEF Recognize

AddRow(rows, page, row) ==
    [p \in DOMAIN rows \union {page} |-> IF p = page THEN row ELSE rows[p]]

\* The row of the next page is added to the rows.
LEMMA RowAdded ==
    ASSUME NEW f, NEW n, NEW rows, RowsOK(f, rows, n), Inspected(f), n + 1 <= Len(f.pages),
           NEW row, RowOK(f, n + 1, row, MaxTextPerDocument - Used(rows, n)),
           NEW more, more = AddRow(rows, n + 1, row)
    PROVE  /\ RowsOK(f, more, n + 1)
           /\ Used(more, n + 1) = Used(rows, n) + row.chars
  <1>1. /\ n \in Nat /\ DOMAIN rows = 1..n
        /\ Used(rows, n) \in Nat /\ MaxTextPerDocument - Used(rows, n) \in Nat
    BY RowsFacts
  <1>2. row \in PageRow /\ row.chars \in Nat /\ row.chars <= MaxTextPerDocument - Used(rows, n)
    BY DEF RowOK, PageRow
  <1>3. DOMAIN rows \union {n + 1} = 1..(n + 1)
    BY <1>1
  <1>4. /\ DOMAIN more = 1..(n + 1) /\ more[n + 1] = row
        /\ \A p \in 1..n : more[p] = rows[p] /\ p \in DOMAIN more
    BY <1>1, <1>3 DEF AddRow
  <1>5. more \in [1..(n + 1) -> PageRow]
    <2>1. \A p \in 1..(n + 1) : p = n + 1 \/ p \in 1..n
      BY <1>1
    <2>2. \A p \in 1..n : rows[p] \in PageRow
      BY DEF RowsOK
    <2>3. \A p \in 1..(n + 1) : more[p] \in PageRow
      BY <1>2, <1>4, <2>1, <2>2
    <2>4. more = [p \in 1..(n + 1) |-> more[p]]
      BY <1>3 DEF AddRow
    <2> QED
      BY <2>3, <2>4
  <1>6. \A k \in 0..n : Used(more, k) = Used(rows, k)
    <2>1. ASSUME NEW k \in 0..n
          PROVE  Used(more, k) = Used(rows, k)
      <3>1. k \in Nat /\ \A p \in 1..k : p \in 1..n
        BY <1>1
      <3>2. \A p \in 1..k : /\ p \in DOMAIN more <=> p \in DOMAIN rows
                            /\ p \in DOMAIN more => more[p] = rows[p]
        BY <1>1, <1>4, <3>1
      <3> QED
        BY <3>1, <3>2, UsedAgrees
    <2> QED
      BY <2>1
  <1>7. Used(more, n + 1) = Used(rows, n) + row.chars
    <2>1. Rowlike(more)
      BY <1>5 DEF Rowlike, PageRow
    <2>2. n + 1 \in Nat /\ n + 1 > 0 /\ n + 1 \in DOMAIN more /\ (n + 1) - 1 = n
      BY <1>1, <1>4
    <2>3. Used(more, n + 1) = Used(more, n) + more[n + 1].chars
      BY <2>1, <2>2, UsedStep
    <2>4. Used(more, n) = Used(rows, n)
      <3>1. n \in 0..n
        BY <1>1
      <3> QED
        BY <1>6, <3>1
    <2> QED
      BY <1>4, <2>3, <2>4
  <1>8. Used(more, n + 1) <= MaxTextPerDocument
    BY <1>1, <1>2, <1>7, Limits
  <1>9. ASSUME NEW p \in 1..(n + 1)
        PROVE  RowOK(f, p, more[p], MaxTextPerDocument - Used(more, p - 1))
    <2>1. CASE p = n + 1
      <3>1. p - 1 = n /\ n \in 0..n
        BY <1>1, <2>1
      <3>2. Used(more, p - 1) = Used(rows, n)
        BY <1>6, <3>1
      <3> QED
        BY <1>4, <2>1, <3>2
    <2>2. CASE p # n + 1
      <3>1. p \in 1..n /\ p - 1 \in 0..n
        BY <1>1, <2>2
      <3>2. Used(more, p - 1) = Used(rows, p - 1) /\ more[p] = rows[p]
        BY <1>4, <1>6, <3>1
      <3> QED
        BY <3>1, <3>2 DEF RowsOK
    <2> QED
      BY <2>1, <2>2
  <1>10. n + 1 \in Nat
    BY <1>1
  <1>11. RowsOK(f, more, n + 1)
    BY <1>5, <1>8, <1>9, <1>10 DEF RowsOK
  <1> QED
    BY <1>7, <1>11

LEMMA PersistPageOK ==
    ASSUME NEW n, ExtractionAt(n), PersistPage
    PROVE  ExtractionAt(n + 1)'
  <1> DEFINE used == Used(stored, n)
  <1>1. /\ WorkOK(file, used, n, work) /\ DiskOK(file, disk, work) /\ file \in Files
        /\ attempts \in 0..MaxAttempts /\ RowsOK(file, stored, n)
    BY DEF ExtractionAt
  <1>2. n \in Nat /\ used \in Nat
    BY <1>1, RowsFacts
  <1>3. /\ work.pc = "persist" /\ file' = file /\ attempts' = attempts
        /\ work' = [work EXCEPT !.pc = "page", !.page = @ + 1, !.out = NoRow]
        /\ disk' = [disk EXCEPT !.images = {i \in @ : ~i.whole}]
    BY DEF PersistPage
  <1>a. /\ work.page = n + 1 /\ Inspected(file) /\ n + 1 <= Len(file.pages)
        /\ RowOK(file, n + 1, work.out, MaxTextPerDocument - used)
        /\ work.budget + work.out.chars + used = MaxTextPerDocument
        /\ work \in Work(file) /\ LayerOK(file, work.layer)
    BY <1>1, <1>3 DEF WorkOK, Timed
  <1>4. stored' = AddRow(stored, n + 1, work.out)
    BY <1>a DEF PersistPage, AddRow
  <1>5. RowsOK(file, stored', n + 1) /\ Used(stored', n + 1) = used + work.out.chars
    BY <1>1, <1>a, <1>4, RowAdded
  <1>6. NoRow \in PageRow /\ NoRow.chars = 0
    BY DEF NoRow, FailedPage, PageRow
  <1>7. PICK used2 : used2 = Used(stored', n + 1)
    OBVIOUS
  <1> HIDE DEF used
  <1>8. /\ work' \in Work(file) /\ work'.pc = "page" /\ work'.page = (n + 1) + 1
        /\ work'.budget = work.budget /\ work'.out = NoRow /\ work'.layer = work.layer
    <2>1. PICK k \in Nat : k = (n + 1) + 1
      BY <1>2
    <2>2. work' = [work EXCEPT !.pc = "page", !.page = k, !.out = NoRow]
      BY <1>3, <1>a, <2>1
    <2> QED
      BY <1>a, <1>6, <2>1, <2>2 DEF Work, Busy
  <1>9. work'.budget + work'.out.chars + used2 = MaxTextPerDocument
    <2>1. work.budget \in Nat /\ work.out.chars \in Nat
      BY <1>a DEF Work, PageRow
    <2> QED
      BY <1>2, <1>a, <1>5, <1>6, <1>7, <1>8, <2>1
  <1>10. WorkOK(file, used2, n + 1, work')
    BY <1>a, <1>8, <1>9 DEF WorkOK, Timed
  <1>11. DiskOK(file, disk', work')
    <2>1. disk \in Directory
      BY <1>1 DEF DiskOK
    <2>2. PICK rest : rest = {i \in disk.images : ~i.whole}
      OBVIOUS
    <2>3. disk' = [disk EXCEPT !.images = rest]
      BY <1>3, <2>2
    <2>4. rest \subseteq disk.images /\ \A i \in rest : ~i.whole
      BY <2>2
    <2>5. disk' \in Directory /\ disk'.input = disk.input /\ disk'.images = rest
      BY <2>1, <2>3, <2>4 DEF Directory
    <2> QED
      BY <1>1, <2>4, <2>5 DEF DiskOK
  <1> QED
    BY <1>1, <1>3, <1>5, <1>7, <1>10, <1>11 DEF ExtractionAt

LEMMA FinishOK ==
    ASSUME NEW n, ExtractionAt(n), Finish
    PROVE  ExtractionAt(n)'
  <1> DEFINE used == Used(stored, n)
  <1>1. /\ WorkOK(file, used, n, work) /\ file \in Files
        /\ attempts \in 0..MaxAttempts /\ RowsOK(file, stored, n)
    BY DEF ExtractionAt
  <1> HIDE DEF used
  <1>2. /\ work.pc = "page" /\ work.page > Total /\ work' = [Idle EXCEPT !.pc = "done"]
        /\ disk' = EmptyDir /\ file' = file /\ stored' = stored /\ attempts' = attempts
    BY DEF Finish
  <1>3. Inspected(file) /\ work.page = n + 1 /\ n \in Nat
    BY <1>1, <1>2 DEF WorkOK, Timed, RowsOK
  <1>4. n = Len(file.pages)
    <2>1. Total = Len(file.pages) /\ Len(file.pages) \in Nat /\ Len(file.pages) >= 1
      BY <1>1, <1>3, TotalIs, FileFacts
    <2>2. n > 0 => n <= Len(file.pages)
      BY <1>1 DEF RowsOK
    <2> QED
      BY <1>2, <1>3, <2>1, <2>2
  <1>5. WorkOK(file, used, n, [Idle EXCEPT !.pc = "idle"]) /\ DiskOK(file, EmptyDir, work')
    BY <1>1, IdleOK
  <1>6. PICK w : w = [Idle EXCEPT !.pc = "idle"]
    OBVIOUS
  <1>7. /\ w \in Work(file) /\ w.page = 0 /\ w.budget = 0 /\ w.out = NoRow
        /\ LayerOK(file, w.layer) /\ w.layer = <<>>
    BY <1>5, <1>6 DEF WorkOK, Timed, Idle
  <1>8. /\ work'.pc = "done" /\ work'.page = 0 /\ work'.budget = 0 /\ work'.out = NoRow
        /\ work'.layer = <<>>
    BY <1>2 DEF Idle
  <1>9. work' \in Work(file)
    <2>1. Idle \in Work(file)
      BY <1>6, <1>7 DEF Work, Idle
    <2> QED
      BY <1>2, <2>1 DEF Work
  <1>10. WorkOK(file, used, n, work')
    BY <1>3, <1>4, <1>7, <1>8, <1>9 DEF WorkOK, Timed
  <1> QED
    BY <1>1, <1>2, <1>5, <1>10, RowsKept DEF used

LEMMA CrashOK ==
    ASSUME NEW n, ExtractionAt(n), Crash
    PROVE  ExtractionAt(n)'
  <1>1. file \in Files /\ attempts \in 0..MaxAttempts
    BY DEF ExtractionAt
  <1>3. WorkOK(file, Used(stored, n), n, Idle) /\ DiskOK(file, EmptyDir, Idle)
    BY <1>1, IdleOK
  <1> QED
    BY <1>1, <1>3, RowsKept DEF Crash

LEMMA InitOK == Init => ExtractionInv
  <1>1. SUFFICES ASSUME Init PROVE ExtractionInv
    OBVIOUS
  <1>2. file \in Files /\ attempts \in 0..MaxAttempts
    BY <1>1, Limits DEF Init
  <1>3. stored \in [1..0 -> PageRow] /\ \A p \in 1..0 : FALSE
    BY <1>1 DEF Init
  <1>4. Cardinality(DOMAIN stored) = 0
    BY <1>3, RowCount
  <1>5. Used(stored, 0) <= MaxTextPerDocument
    <2>1. Rowlike(stored)
      BY <1>3 DEF Rowlike
    <2>2. Used(stored, 0) = 0
      BY <2>1, UsedStep
    <2> QED
      BY <2>2, Limits
  <1>6. RowsOK(file, stored, 0)
    BY <1>3, <1>5 DEF RowsOK
  <1>7. WorkOK(file, Used(stored, 0), 0, work) /\ DiskOK(file, disk, work)
    BY <1>1, <1>2, IdleOK DEF Init
  <1> QED
    BY <1>2, <1>4, <1>6, <1>7 DEF ExtractionInv, ExtractionAt

\* The rows after a step are still counted by their number.
LEMMA StillCounted ==
    ASSUME NEW m, ExtractionAt(m)'
    PROVE  ExtractionInv'
  <1>1. RowsOK(file', stored', m)
    BY DEF ExtractionAt
  <1>2. m \in Nat /\ stored' \in [1..m -> PageRow]
    BY <1>1 DEF RowsOK
  <1>3. Cardinality(DOMAIN stored') = m
    BY <1>2, RowCount
  <1> QED
    BY <1>3 DEF ExtractionInv, ExtractionAt

LEMMA NextOK == ExtractionInv /\ [Next]_vars => ExtractionInv'
  <1>1. SUFFICES ASSUME ExtractionInv, [Next]_vars
                 PROVE  ExtractionInv'
    OBVIOUS
  <1>2. PICK n : n = Cardinality(DOMAIN stored)
    OBVIOUS
  <1>3. ExtractionAt(n)
    BY <1>1, <1>2 DEF ExtractionInv
  <1>4. CASE GiveUp \/ ObjectMissing \/ StorageFails \/ QueryFails
    BY <1>3, <1>4, StopOK, StillCounted DEF GiveUp, ObjectMissing, StorageFails, QueryFails
  <1>5. CASE Begin
    BY <1>3, <1>5, BeginOK, StillCounted
  <1>6. CASE \/ OpenObject \/ DownloadEnds \/ InspectFormat \/ InspectImage
             \/ \E o \in Outcomes : InspectPdf(o)
    BY <1>3, <1>6, FetchOK, StillCounted
  <1>7. CASE \E k \in 1..(MaxFileSize + 1) : ReceiveChunk(k)
    BY <1>3, <1>7, ReceiveChunkOK, StillCounted
  <1>8. CASE ReadProgress
    BY <1>3, <1>8, ReadProgressOK, StillCounted
  <1>9. CASE \E o \in Outcomes : ReadLayer(o)
    BY <1>3, <1>9, ReadLayerOK, StillCounted
  <1>10. CASE DeadlinePasses
    BY <1>3, <1>10, DeadlineOK, StillCounted
  <1>11. CASE PageTimedOut
    BY <1>3, <1>11, PageTimedOutOK, StillCounted
  <1>12. CASE PageNative
    BY <1>3, <1>12, PageNativeOK, StillCounted
  <1>13. CASE \E o \in Outcomes, partial \in BOOLEAN : RenderPage(o, partial)
    BY <1>3, <1>13, RenderPageOK, StillCounted
  <1>14. CASE \E o \in Outcomes, lost \in SUBSET {"txt", "tsv"}, atFault \in BOOLEAN :
                  Recognize(o, lost, atFault)
    BY <1>3, <1>14, RecognizeOK, StillCounted
  <1>15. CASE PersistPage
    BY <1>3, <1>15, PersistPageOK, StillCounted
  <1>16. CASE Finish
    BY <1>3, <1>16, FinishOK, StillCounted
  <1>17. CASE Crash
    BY <1>3, <1>17, CrashOK, StillCounted
  <1>18. CASE UNCHANGED vars
    BY <1>1, <1>18 DEF vars, ExtractionInv, ExtractionAt
  <1> QED
    BY <1>1, <1>4, <1>5, <1>6, <1>7, <1>8, <1>9, <1>10, <1>11, <1>12, <1>13, <1>14, <1>15,
       <1>16, <1>17, <1>18 DEF Next

\* The inductive invariant of the extraction: over all attempts the rows are those
\* of the first pages, and the worker is at the page after them.
THEOREM ExtractionInvariance == Spec => []ExtractionInv
  <1>1. Init => ExtractionInv
    BY InitOK
  <1>2. ExtractionInv /\ [Next]_vars => ExtractionInv'
    BY NextOK
  <1> QED
    BY <1>1, <1>2, PTL DEF Spec

\* What the invariant says of a state.
LEMMA Counted ==
    ASSUME ExtractionInv
    PROVE  \E n \in Nat : /\ n = Cardinality(DOMAIN stored) /\ DOMAIN stored = 1..n
                          /\ ExtractionAt(n)
  <1>1. PICK n : n = Cardinality(DOMAIN stored)
    OBVIOUS
  <1>2. ExtractionAt(n)
    BY <1>1 DEF ExtractionInv
  <1>3. n \in Nat /\ DOMAIN stored = 1..n
    BY <1>2, RowsFacts DEF ExtractionAt
  <1> QED
    BY <1>1, <1>2, <1>3

LEMMA TypedFromInv == ExtractionInv => TypeOK
  <1>1. SUFFICES ASSUME ExtractionInv PROVE TypeOK
    OBVIOUS
  <1>2. PICK n \in Nat : DOMAIN stored = 1..n /\ ExtractionAt(n)
    BY <1>1, Counted
  <1>3. /\ file \in Files /\ attempts \in 0..MaxAttempts /\ RowsOK(file, stored, n)
        /\ WorkOK(file, Used(stored, n), n, work) /\ DiskOK(file, disk, work)
    BY <1>2 DEF ExtractionAt
  <1>4. n <= MaxPdfPages \/ n <= 1
    BY <1>3, FileFacts, Limits DEF RowsOK, Inspected
  <1>5. DOMAIN stored \subseteq 1..MaxPdfPages \union {1}
    BY <1>2, <1>4, Limits
  <1>6. \A p \in DOMAIN stored : stored[p] \in PageRow
    BY <1>2, <1>3 DEF RowsOK
  <1>7. /\ work.pc \in Busy \union {"idle", "done", "failed"} /\ work.late \in BOOLEAN
        /\ work.out \in PageRow /\ work.budget \in Nat /\ work.out.chars \in Nat
    BY <1>3 DEF WorkOK, Work, PageRow
  <1>8. work.page \in 0..(MaxPdfPages + 1) \union {2}
    <2>1. CASE work.pc \in Timed
      <3>1. work.page = n + 1
        BY <1>3, <2>1 DEF WorkOK
      <3> QED
        BY <1>4, <3>1, Limits
    <2>2. CASE work.pc \notin Timed
      <3>1. work.page = 0
        BY <1>3, <2>2 DEF WorkOK
      <3> QED
        BY <3>1, Limits
    <2> QED
      BY <2>1, <2>2
  <1>9. work.budget \in 0..MaxTextPerDocument
    <2>1. Used(stored, n) \in Nat
      BY <1>3, RowsFacts
    <2>2. PICK used \in Nat : used = Used(stored, n)
      BY <2>1
    <2>3. work.budget + work.out.chars + used = MaxTextPerDocument \/ work.budget = 0
      BY <1>3, <2>2 DEF WorkOK
    <2> QED
      BY <1>7, <2>2, <2>3, Limits
  <1>10. disk.input \in Nat
    BY <1>3 DEF DiskOK, Directory
  <1> QED
    BY <1>3, <1>5, <1>6, <1>7, <1>8, <1>9, <1>10 DEF TypeOK

LEMMA AccountedFromInv == ExtractionInv => TextAccounted
  <1>1. SUFFICES ASSUME ExtractionInv, NEW p \in DOMAIN stored
        PROVE  LET left == MaxTextPerDocument - Used(stored, p - 1)
               IN  /\ stored[p].rated => stored[p].method = "OCR"
                   /\ CASE stored[p].status = "COMPLETED" ->
                              /\ stored[p].chars = Min({RowText(p), MaxTextPerPage, left})
                              /\ stored[p].chars > 0
                              /\ stored[p].truncated <=> stored[p].chars < RowText(p)
                        [] stored[p].status = "EMPTY" ->
                              stored[p].chars = 0 /\ stored[p].method = "OCR"
                        [] stored[p].status = "FAILED" ->
                              /\ stored[p].chars = 0
                              /\ (stored[p].code = "OCR_TEXT_LIMIT_EXCEEDED")
                                     <=> (stored[p].method # "none")
                              /\ stored[p].method # "none" => left = 0
    BY Zenon DEF TextAccounted
  <1>2. PICK n \in Nat : DOMAIN stored = 1..n /\ ExtractionAt(n)
    BY <1>1, Counted
  <1>3. PICK left : left = MaxTextPerDocument - Used(stored, p - 1)
    OBVIOUS
  <1>4. RowOK(file, p, stored[p], left)
    BY <1>1, <1>2, <1>3 DEF ExtractionAt, RowsOK
  <1>5. PICK row : row = stored[p]
    OBVIOUS
  <1>6. PICK text : text = RowText(p)
    OBVIOUS
  <1>7. TextOf(file, p, row) = text
    BY <1>5, <1>6 DEF TextOf, RowText
  <1>8. row \in PageRow /\ row.status \in {"COMPLETED", "EMPTY", "FAILED"}
    BY <1>4, <1>5 DEF RowOK, PageRow
  <1>9. /\ row.rated => row.method = "OCR"
        /\ row.status = "COMPLETED" => /\ row.chars = Min({text, MaxTextPerPage, left})
                                       /\ row.chars > 0
                                       /\ row.truncated <=> row.chars < text
        /\ row.status = "EMPTY" => row.chars = 0 /\ row.method = "OCR"
        /\ row.status = "FAILED" =>
              /\ row.chars = 0
              /\ (row.code = "OCR_TEXT_LIMIT_EXCEEDED") <=> (row.method # "none")
              /\ row.method # "none" => left = 0
    BY <1>4, <1>5, <1>7 DEF RowOK
  <1> QED
    BY <1>3, <1>5, <1>6, <1>8, <1>9

LEMMA NativeFromInv == ExtractionInv => NativeTextOfItsPage
  <1>1. SUFFICES ASSUME ExtractionInv, Fits(file), NEW p \in DOMAIN stored,
                        stored[p].status = "COMPLETED"
                 PROVE  stored[p].from = p
    BY DEF NativeTextOfItsPage, Fits
  <1>2. PICK n \in Nat : DOMAIN stored = 1..n /\ ExtractionAt(n)
    BY <1>1, Counted
  <1>3. RowOK(file, p, stored[p], MaxTextPerDocument - Used(stored, p - 1))
    BY <1>1, <1>2 DEF ExtractionAt, RowsOK
  <1> QED
    BY <1>1, <1>3 DEF RowOK

LEMMA ResumeFromInv == ExtractionInv => ResumePointExact
  <1>1. SUFFICES ASSUME ExtractionInv PROVE ResumePointExact
    OBVIOUS
  <1>2. PICK n \in Nat : /\ n = Cardinality(DOMAIN stored) /\ DOMAIN stored = 1..n
                         /\ ExtractionAt(n)
    BY <1>1, Counted
  <1>3. /\ file \in Files /\ WorkOK(file, Used(stored, n), n, work)
    BY <1>2 DEF ExtractionAt
  <1>4. work.pc = "persist" => work.page = n + 1
    BY <1>3 DEF WorkOK, Timed
  <1>5. work.pc = "done" => n = Total
    BY <1>3, TotalIs DEF WorkOK
  <1> QED
    BY <1>2, <1>4, <1>5 DEF ResumePointExact

\* Types of OcrExtraction; the budget of charBudget is never negative.
THEOREM ExtractionTyped == Spec => []TypeOK
  BY ExtractionInvariance, TypedFromInv, PTL

\* Every stored page has the text one uninterrupted run would give it, over any
\* number of attempts, crashes and failed tools, and the limit of the document is
\* exact: the charBudget of run is computed from the rows and decreases with each
\* yield of extract.
THEOREM TextFollowsTheBudget == Spec => []TextAccounted
  BY ExtractionInvariance, AccountedFromInv, PTL

\* When the text layer fits the buffer of runCommand, the native text of a page is
\* its own: no chunk is dropped, and the pages are at their index.
THEOREM NativeTextOfThePage == Spec => []NativeTextOfItsPage
  BY ExtractionInvariance, NativeFromInv, PTL

\* The work directory holds at most the allowed file and one whole image, that of
\* the page of the worker, of at most the allowed pixels: the limiter of download,
\* renderDpiFor and the finally of extractPdf.
THEOREM WorkDirectoryBounded == Spec => []ScratchBounded
  <1>1. ExtractionInv => ScratchBounded
    BY DEF ExtractionInv, ExtractionAt, DiskOK, ScratchBounded
  <1> QED
    BY <1>1, ExtractionInvariance, PTL

\* persistedProgress resumes after the last of the rows, which have no gap, and
\* run reaches finalize with a row for every page.
THEOREM ResumesWithoutGap == Spec => []ResumePointExact
  BY ExtractionInvariance, ResumeFromInv, PTL

-----------------------------------------------------------------------------
(* The client of the results *)

\* The page numbers up to k.
Numbers(k) == [i \in 1..k |-> i]

\* How many of n rows the pages before this one have.
Before(n, page, limit) ==
    IF n <= (page - 1) * limit THEN n ELSE (page - 1) * limit

\* The client has received the rows before its page, each once and in order.
WalkOK(r, n, terminated) ==
    /\ r \in [limit : Nat, page : Nat, got : Seq(Nat)]
    /\ r.limit = 0 => r.page = 1 /\ r.got = <<>>
    /\ r.limit # 0 =>
          /\ terminated
          /\ r.page >= 2
          /\ r.got = Numbers(Before(n, r.page, r.limit))

\* The inductive invariant of the client and the extraction.
ResultsInv == ExtractionInv /\ WalkOK(reader, Cardinality(DOMAIN stored), Terminated)

LEMMA NumbersSeq ==
    ASSUME NEW k \in Nat
    PROVE  /\ Numbers(k) \in Seq(Nat) /\ Len(Numbers(k)) = k
           /\ \A i \in 1..k : Numbers(k)[i] = i
           /\ k = 0 => Numbers(k) = <<>>
  <1>1. Numbers(k) \in Seq(Nat) /\ Len(Numbers(k)) = k /\ \A i \in 1..k : Numbers(k)[i] = i
    BY DEF Numbers
  <1>2. k = 0 => Numbers(k) = <<>>
    BY <1>1, EmptySeq
  <1> QED
    BY <1>1, <1>2

\* The rows are ordered by page number, which is their position.
LEMMA RowsAreNumbers ==
    ASSUME NEW n \in Nat, DOMAIN stored = 1..n
    PROVE  Rows = Numbers(n)
  <1>1. Cardinality(1..n) = n
    BY FS_Interval
  <1>2. ASSUME NEW p \in 1..n
        PROVE  Cardinality({q \in DOMAIN stored : q <= p}) = p
    <2>1. {q \in DOMAIN stored : q <= p} = 1..p
      OBVIOUS
    <2>2. Cardinality(1..p) = p
      BY FS_Interval
    <2> QED
      BY <2>1, <2>2
  <1>3. ASSUME NEW k \in 1..n
        PROVE  (CHOOSE p \in DOMAIN stored : Cardinality({q \in DOMAIN stored : q <= p}) = k) = k
    <2> DEFINE C(p) == Cardinality({q \in DOMAIN stored : q <= p})
    <2>1. \A p \in 1..n : C(p) = p
      BY <1>2
    <2> HIDE DEF C
    <2>2. k \in DOMAIN stored /\ C(k) = k /\ \A p \in DOMAIN stored : C(p) = k => p = k
      BY <2>1
    <2>3. (CHOOSE p \in DOMAIN stored : C(p) = k) = k
      BY <2>2
    <2> QED
      BY <2>3 DEF C
  <1>4. Rows = [k \in 1..n |-> CHOOSE p \in DOMAIN stored :
                                  Cardinality({q \in DOMAIN stored : q <= p}) = k]
    BY <1>1 DEF Rows
  <1> QED
    BY <1>3, <1>4 DEF Numbers

\* One page of the rows, appended to those before it.
LEMMA PageAppended ==
    ASSUME NEW n \in Nat, NEW page \in Nat \ {0}, NEW limit \in Nat \ {0},
           (page - 1) * limit <= n
    PROVE  Numbers(Before(n, page, limit)) \o Items(Numbers(n), page, limit)
              = Numbers(Before(n, page + 1, limit))
  <1> DEFINE skip == (page - 1) * limit
  <1>1. skip \in Nat /\ skip <= n
    <2>1. page - 1 \in Nat
      OBVIOUS
    <2> QED
      BY <2>1
  <1>2. (page + 1 - 1) * limit = skip + limit
    <2>1. page + 1 - 1 = (page - 1) + 1
      OBVIOUS
    <2>2. ((page - 1) + 1) * limit = (page - 1) * limit + limit
      BY Z3
    <2> QED
      BY <2>1, <2>2
  <1>3. Before(n, page, limit) = skip
    BY <1>1 DEF Before
  <1>4. Skip(page, limit) = skip
    BY DEF Skip
  <1> HIDE DEF skip
  <1>5. PICK last : last = IF skip + limit <= n THEN skip + limit ELSE n
    OBVIOUS
  <1>6. last \in Nat /\ skip <= last /\ last <= n
    BY <1>1, <1>5
  <1>7. Before(n, page + 1, limit) = last
    BY <1>1, <1>2, <1>5 DEF Before
  <1>8. Items(Numbers(n), page, limit) = SubSeq(Numbers(n), skip + 1, last)
    BY <1>4, <1>5, NumbersSeq DEF Items
  <1>9. PICK t : t = SubSeq(Numbers(n), skip + 1, last)
    OBVIOUS
  <1>10. /\ t \in Seq(Nat) /\ Len(t) = last - skip
         /\ \A i \in 1..(last - skip) : t[i] = skip + i
    <2>1. \A i \in (skip + 1)..last : i \in 1..n /\ i \in Nat
      BY <1>1, <1>6
    <2>2. \A i \in (skip + 1)..last : Numbers(n)[i] = i /\ Numbers(n)[i] \in Nat
      BY <2>1, NumbersSeq
    <2>3. /\ t \in Seq(Nat)
          /\ Len(t) = (IF skip + 1 <= last THEN last - (skip + 1) + 1 ELSE 0)
          /\ \A i \in 1..(last - (skip + 1) + 1) : t[i] = Numbers(n)[skip + 1 + i - 1]
      BY <1>1, <1>6, <1>9, <2>2, SubSeqProperties
    <2>4. last - (skip + 1) + 1 = last - skip
      BY <1>1, <1>6
    <2>5. Len(t) = last - skip
      BY <1>1, <1>6, <2>3
    <2>6. ASSUME NEW i \in 1..(last - skip)
          PROVE  t[i] = skip + i
      <3>1. skip + 1 + i - 1 = skip + i /\ skip + i \in (skip + 1)..last
        BY <1>1, <1>6
      <3> QED
        BY <2>2, <2>3, <2>4, <3>1
    <2> QED
      BY <2>3, <2>5, <2>6
  <1>11. PICK s : s = Numbers(skip)
    OBVIOUS
  <1>12. s \in Seq(Nat) /\ Len(s) = skip /\ \A i \in 1..skip : s[i] = i
    BY <1>1, <1>11, NumbersSeq
  <1>13. PICK u : u = Numbers(last)
    OBVIOUS
  <1>14. u \in Seq(Nat) /\ Len(u) = last /\ \A i \in 1..last : u[i] = i
    BY <1>6, <1>13, NumbersSeq
  <1>15. s \o t = u
    <2>1. /\ s \o t \in Seq(Nat) /\ Len(s \o t) = skip + (last - skip)
          /\ \A i \in 1..(skip + (last - skip)) :
                (s \o t)[i] = IF i <= skip THEN s[i] ELSE t[i - skip]
      <3>1. /\ s \o t \in Seq(Nat) /\ Len(s \o t) = Len(s) + Len(t)
            /\ \A i \in 1..(Len(s) + Len(t)) :
                  (s \o t)[i] = IF i <= Len(s) THEN s[i] ELSE t[i - Len(s)]
        BY <1>10, <1>12, ConcatProperties
      <3>2. Len(s) = skip /\ Len(t) = last - skip
        BY <1>10, <1>12
      <3> QED
        BY <3>1, <3>2, Zenon
    <2>2. skip + (last - skip) = last
      BY <1>1, <1>6
    <2>3. ASSUME NEW i \in 1..last
          PROVE  (s \o t)[i] = i
      <3>1. (s \o t)[i] = IF i <= skip THEN s[i] ELSE t[i - skip]
        BY <2>1, <2>2
      <3>2. CASE i <= skip
        BY <1>1, <1>12, <3>1, <3>2
      <3>3. CASE ~(i <= skip)
        <4>1. i - skip \in 1..(last - skip) /\ skip + (i - skip) = i
          BY <1>1, <1>6, <3>3
        <4> QED
          BY <1>10, <3>1, <3>3, <4>1
      <3> QED
        BY <3>2, <3>3
    <2>4. PICK v : v = s \o t
      OBVIOUS
    <2>5. v \in Seq(Nat) /\ Len(v) = last /\ \A i \in 1..last : v[i] = u[i]
      BY <1>14, <2>1, <2>2, <2>3, <2>4
    <2>6. v = u
      BY <1>14, <2>5, SeqEqual
    <2> QED
      BY <2>4, <2>6
  <1> QED
    BY <1>3, <1>7, <1>8, <1>9, <1>11, <1>13, <1>15

\* A page that is counted starts before the end of the rows, and one that is not
\* counted starts after it.
LEMMA PageBounds ==
    ASSUME NEW n \in Nat, NEW page \in Nat \ {0}, NEW limit \in Nat \ {0}
    PROVE  /\ page <= TotalPages(n, limit) => (page - 1) * limit <= n
           /\ page > TotalPages(n, limit) => n <= (page - 1) * limit
           /\ page = 1 => (page - 1) * limit <= n
  <1>1. PICK t : t = TotalPages(n, limit)
    OBVIOUS
  <1>2. t \in Nat /\ t * limit <= n + limit - 1 /\ n + limit - 1 < t * limit + limit
    BY <1>1, Division DEF TotalPages
  <1>3. PICK prior \in Int : prior = (page - 1) * limit
    OBVIOUS
  <1>4. PICK all \in Int : all = t * limit
    BY <1>2
  <1>5. page <= t => prior <= n
    <2>1. SUFFICES ASSUME page <= t PROVE prior <= n
      OBVIOUS
    <2>2. prior + limit <= all
      BY <1>2, <1>3, <1>4, <2>1, ProductOrder
    <2> QED
      BY <1>2, <1>4, <2>2
  <1>6. page > t => n <= prior
    <2>1. SUFFICES ASSUME page > t PROVE n <= prior
      OBVIOUS
    <2>2. all <= prior
      <3>1. CASE t = page - 1
        BY <1>3, <1>4, <3>1
      <3>2. CASE t < page - 1
        <4>1. t * limit + limit <= (page - 1) * limit
          BY <1>2, <3>2, ProductOrder
        <4> QED
          BY <1>3, <1>4, <4>1
      <3> QED
        BY <1>2, <2>1, <3>1, <3>2
    <2> QED
      BY <1>2, <1>4, <2>2
  <1>7. page = 1 => prior = 0
    BY <1>3
  <1> QED
    BY <1>1, <1>3, <1>5, <1>6, <1>7

\* A job that has ended takes no further step.
LEMMA EndedStays == Terminated => ~Next
  BY DEF Terminated, Next, GiveUp, Begin, OpenObject, ObjectMissing, StorageFails, ReceiveChunk,
         DownloadEnds, InspectFormat, InspectImage, InspectPdf, ReadProgress, ReadLayer,
         DeadlinePasses, Timed, PageTimedOut, PageNative, RenderPage, Recognize, PersistPage,
         QueryFails, Finish, Crash, Busy

LEMMA ReadResultsOK ==
    ASSUME ResultsInv, NEW limit \in 1..MaxLimit, ReadResults(limit)
    PROVE  ResultsInv'
  <1>1. PICK n \in Nat : /\ n = Cardinality(DOMAIN stored) /\ DOMAIN stored = 1..n
    BY Counted DEF ResultsInv
  <1>2. WalkOK(reader, n, Terminated) /\ ExtractionInv
    BY <1>1 DEF ResultsInv
  <1>3. /\ Terminated /\ reader.limit \in {0, limit}
        /\ reader.page = 1 \/ reader.page <= TotalPages(Len(Rows), limit)
        /\ reader' = [limit |-> limit, page |-> reader.page + 1,
                      got |-> reader.got \o Items(Rows, reader.page, limit)]
        /\ UNCHANGED vars
    BY DEF ReadResults
  <1>4. Rows = Numbers(n) /\ Len(Numbers(n)) = n
    BY <1>1, RowsAreNumbers, NumbersSeq
  <1>5. PICK page : page = reader.page
    OBVIOUS
  <1>6. page \in Nat \ {0} /\ limit \in Nat \ {0}
    BY <1>2, <1>5, ResultsAssumption DEF WalkOK
  <1>7. (page - 1) * limit <= n
    BY <1>3, <1>4, <1>5, <1>6, PageBounds
  <1>8. reader.got = Numbers(Before(n, page, limit))
    <2>1. CASE reader.limit = 0
      <3>1. page = 1 /\ reader.got = <<>>
        BY <1>2, <1>5, <2>1 DEF WalkOK
      <3>2. Before(n, page, limit) = 0
        BY <1>6, <3>1 DEF Before
      <3> QED
        BY <3>1, <3>2, NumbersSeq
    <2>2. CASE reader.limit # 0
      <3>1. reader.limit = limit
        BY <1>3, <2>2
      <3> QED
        BY <1>2, <1>5, <2>2, <3>1 DEF WalkOK
    <2> QED
      BY <2>1, <2>2
  <1>9. PICK got : got = Numbers(Before(n, page + 1, limit))
    OBVIOUS
  <1>10. reader.got \o Items(Rows, reader.page, limit) = got
    <2>1. Numbers(Before(n, page, limit)) \o Items(Numbers(n), page, limit)
             = Numbers(Before(n, page + 1, limit))
      BY <1>6, <1>7, PageAppended
    <2> QED
      BY <1>4, <1>5, <1>8, <1>9, <2>1, Zenon
  <1>11. got \in Seq(Nat)
    <2>1. Before(n, page + 1, limit) \in Nat
      <3>1. PICK k \in Nat : k = page + 1 /\ k - 1 \in Nat
        BY <1>6
      <3>2. (k - 1) * limit \in Nat
        BY <1>6, <3>1
      <3>3. Before(n, k, limit) \in Nat
        BY <3>2 DEF Before
      <3> QED
        BY <3>1, <3>3
    <2> QED
      BY <1>9, <2>1, NumbersSeq
  <1>12. reader' = [limit |-> limit, page |-> page + 1, got |-> got]
    BY <1>3, <1>5, <1>10
  <1>13. /\ reader' \in [limit : Nat, page : Nat, got : Seq(Nat)]
         /\ reader'.limit = limit /\ reader'.page = page + 1 /\ reader'.got = got
    BY <1>6, <1>11, <1>12
  <1>14. WalkOK(reader', n, TRUE)
    BY <1>6, <1>9, <1>13 DEF WalkOK
  <1>15. Terminated' /\ stored' = stored /\ ExtractionInv'
    BY <1>2, <1>3, NextOK DEF vars, Terminated
  <1> QED
    BY <1>1, <1>14, <1>15 DEF ResultsInv, WalkOK

\* The inductive invariant of the client.
THEOREM ResultsInvariance == RSpec => []ResultsInv
  <1>1. RInit => ResultsInv
    BY InitOK DEF RInit, ResultsInv, WalkOK
  <1>2. ResultsInv /\ [RNext]_rvars => ResultsInv'
    <2>1. SUFFICES ASSUME ResultsInv, [RNext]_rvars
                   PROVE  ResultsInv'
      OBVIOUS
    <2>2. CASE Next /\ UNCHANGED reader
      <3>1. ExtractionInv'
        BY <2>1, <2>2, NextOK DEF ResultsInv
      <3>2. ~Terminated
        BY <2>2, EndedStays
      <3>3. reader.limit = 0
        BY <2>1, <3>2 DEF ResultsInv, WalkOK
      <3> QED
        BY <2>1, <2>2, <3>1, <3>3 DEF ResultsInv, WalkOK
    <2>3. CASE \E limit \in 1..MaxLimit : ReadResults(limit)
      BY <2>1, <2>3, ReadResultsOK
    <2>4. CASE UNCHANGED rvars
      <3>1. UNCHANGED vars /\ reader' = reader
        BY <2>4 DEF rvars, vars
      <3>2. ExtractionInv'
        BY <2>1, <3>1, NextOK DEF ResultsInv
      <3> QED
        BY <2>1, <3>1, <3>2 DEF ResultsInv, WalkOK, Terminated, vars
    <2> QED
      BY <2>1, <2>2, <2>3, <2>4 DEF RNext, ResultsNotReady
  <1> QED
    BY <1>1, <1>2, PTL DEF RSpec

\* OcrService.results changes nothing: what the extraction guarantees holds in
\* the presence of the client.
THEOREM ReadingIsPassive == RSpec => Spec
  <1>1. RInit => Init
    BY DEF RInit
  <1>2. [RNext]_rvars => [Next]_vars
    BY DEF RNext, ResultsNotReady, ReadResults, rvars, vars
  <1> QED
    BY <1>1, <1>2, PTL DEF RSpec, Spec

\* A client that follows the page count of OcrService.results has, at the end,
\* every row exactly once and in order, and it has seen none before the job ended.
THEOREM ClientGetsEveryPage == RSpec => []WalkExact
  <1>1. ResultsInv => WalkExact
    <2>1. SUFFICES ASSUME ResultsInv PROVE WalkExact
      OBVIOUS
    <2>2. PICK n \in Nat : /\ n = Cardinality(DOMAIN stored) /\ DOMAIN stored = 1..n
      BY <2>1, Counted DEF ResultsInv
    <2>3. WalkOK(reader, n, Terminated)
      BY <2>1, <2>2 DEF ResultsInv
    <2>4. Rows = Numbers(n) /\ Len(Numbers(n)) = n
      BY <2>2, RowsAreNumbers, NumbersSeq
    <2>5. reader.got # <<>> => Terminated
      BY <2>3 DEF WalkOK
    <2>6. ASSUME reader.limit # 0, reader.page > TotalPages(n, reader.limit)
          PROVE  reader.got = Numbers(n)
      <3>1. PICK page, limit : page = reader.page /\ limit = reader.limit
        OBVIOUS
      <3>2. page \in Nat \ {0} /\ limit \in Nat \ {0} /\ page > TotalPages(n, limit)
        BY <2>3, <2>6, <3>1 DEF WalkOK
      <3>3. n <= (page - 1) * limit
        BY <3>2, PageBounds
      <3>4. Before(n, page, limit) = n
        BY <3>3 DEF Before
      <3> QED
        BY <2>3, <2>6, <3>1, <3>4 DEF WalkOK
    <2> QED
      BY <2>4, <2>5, <2>6 DEF WalkExact
  <1> QED
    BY <1>1, ResultsInvariance, PTL
=============================================================================
