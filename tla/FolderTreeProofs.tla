-------------------------- MODULE FolderTreeProofs --------------------------
(***************************************************************************)
(* Proofs about FolderTree.  The chain of ancestors is a function defined  *)
(* by recursion over the levels; the lemmas of the first part say how      *)
(* chains compose and when two hierarchies have the same chain.  The       *)
(* second part shows that an insertion, a move that assertValidMove        *)
(* accepts and a deletion each turn a hierarchy within the depth limit     *)
(* into another one.  The third part is the inductive invariant: what a    *)
(* transaction has read under the lock still holds when it writes.         *)
(***************************************************************************)
EXTENDS FolderTree, InductionLemmas, FiniteSetTheorems

\* A folder or the root.
Place == Folders \union {NoFolder}

\* One level up.
Up(par, x) == IF x = NoFolder THEN NoFolder ELSE par[x]

\* What FolderAssumption says of the limits.
LEMMA Limits ==
    /\ NoFolder \notin Folders
    /\ MaxFolderDepth \in Nat /\ MaxFolderDepth >= 1
    /\ RecursionLimit \in Nat /\ RecursionLimit > MaxFolderDepth
  BY FolderAssumption

\* One level up from a folder or the root is a folder or the root.
LEMMA UpType ==
    ASSUME NEW par \in [Folders -> Place], NEW x \in Place
    PROVE  Up(par, x) \in Place
  BY DEF Up, Place

\* The recursion of Ancestor defines a function: f, then one level up each time.
LEMMA AncestorDef ==
    ASSUME NEW par \in [Folders -> Place], NEW f \in Place
    PROVE  /\ Ancestor(par, f)[0] = f
           /\ \A n \in 0..RecursionLimit : Ancestor(par, f)[n] \in Place
           /\ \A n \in 1..RecursionLimit :
                  Ancestor(par, f)[n] = Up(par, Ancestor(par, f)[n - 1])
  <1> DEFINE R == RecursionLimit
             IsUp(up) == up = [n \in 0..R |-> IF n = 0 THEN f
                                 ELSE IF up[n - 1] = NoFolder THEN NoFolder ELSE par[up[n - 1]]]
             step == [n \in 1..R |-> [x \in Place |-> Up(par, x)]]
  <1>0. R \in Nat
    BY Limits
  <1>1. step \in Steps(R, Place)
    BY UpType DEF Steps
  <1>2. PICK g : g \in [0..R -> Place] /\ g[0] = f /\ \A n \in 1..R : g[n] = step[n][g[n - 1]]
    <2> HIDE DEF step, R
    <2>1. PICK g : Follows(g, R, Place, f, step)
      BY <1>0, <1>1, Recursion
    <2> QED
      BY <2>1 DEF Follows
  <1>3. \A n \in 1..R : n - 1 \in 0..R /\ n \in 0..R
    BY <1>0
  <1>4. \A n \in 1..R : g[n] = Up(par, g[n - 1])
    BY <1>2, <1>3
  <1>5. IsUp(g)
    <2>1. \A n \in 0..R : n # 0 => n \in 1..R
      BY <1>0
    <2>2. ASSUME NEW n \in 0..R
          PROVE  g[n] = IF n = 0 THEN f
                        ELSE IF g[n - 1] = NoFolder THEN NoFolder ELSE par[g[n - 1]]
      <3>1. CASE n = 0
        BY <1>2, <3>1
      <3>2. CASE n # 0
        <4>1. g[n] = Up(par, g[n - 1])
          BY <1>4, <2>1, <3>2
        <4> QED
          BY <3>2, <4>1 DEF Up
      <3> QED
        BY <3>1, <3>2
    <2> QED
      BY <1>2, <2>2
  <1> DEFINE up == CHOOSE u : IsUp(u)
  <1>6. IsUp(up)
    <2> HIDE DEF IsUp
    <2> QED
      BY <1>5, Zenon
  <1>7. Ancestor(par, f) = up
    BY Zenon DEF Ancestor
  <1> HIDE DEF up
  <1>8. up[0] = f /\ \A n \in 1..R : up[n] = Up(par, up[n - 1])
    <2>1. 0 \in 0..R /\ \A n \in 1..R : n \in 0..R /\ n # 0
      BY <1>0
    <2> QED
      BY <1>6, <2>1 DEF Up
  <1>9. \A n \in 0..R : up[n] \in Place
    <2> DEFINE Good == {n \in 0..R : up[n] \in Place}
    <2>1. 0 \in Good
      BY <1>0, <1>8
    <2>2. \A n \in 1..R : n - 1 \in Good => n \in Good
      BY <1>3, <1>8, UpType
    <2> HIDE DEF Good
    <2>3. \A n \in 0..R : n \in Good
      BY <1>0, <2>1, <2>2, SetInduction
    <2> QED
      BY <2>3 DEF Good
  <1> QED
    BY <1>7, <1>8, <1>9

\* A chain that has reached the root stays there.
LEMMA Roots ==
    ASSUME NEW par \in [Folders -> Place], NEW f \in Place,
           NEW n \in 0..RecursionLimit, Ancestor(par, f)[n] = NoFolder,
           NEW m \in n..RecursionLimit
    PROVE  Ancestor(par, f)[m] = NoFolder
  <1> DEFINE A == Ancestor(par, f)
             R == RecursionLimit
             Good == {k \in 0..R : n <= k => A[k] = NoFolder}
  <1>0. R \in Nat
    BY Limits
  <1>a. \A k \in 1..R : A[k] = Up(par, A[k - 1])
    BY AncestorDef
  <1> HIDE DEF A
  <1>b. A[n] = NoFolder
    BY DEF A
  <1>1. 0 \in Good
    BY <1>0, <1>b
  <1>2. ASSUME NEW k \in 1..R, k - 1 \in Good
        PROVE  k \in Good
    <2>1. CASE n <= k - 1
      BY <1>0, <1>a, <1>2, <2>1 DEF Up
    <2>2. CASE n = k
      BY <1>0, <1>b, <2>2
    <2>3. CASE n > k
      BY <1>0, <2>3
    <2> QED
      BY <1>0, <2>1, <2>2, <2>3
  <1> HIDE DEF Good
  <1>3. \A k \in 0..R : k \in Good
    BY <1>0, <1>1, <1>2, SetInduction
  <1>4. m \in 0..R /\ n <= m
    BY <1>0
  <1> QED
    BY <1>3, <1>4 DEF Good, A

\* The chain of an ancestor is the rest of the chain.
LEMMA Compose ==
    ASSUME NEW par \in [Folders -> Place], NEW f \in Place,
           NEW n \in 0..RecursionLimit, NEW m \in 0..(RecursionLimit - n)
    PROVE  Ancestor(par, f)[n + m] = Ancestor(par, Ancestor(par, f)[n])[m]
  <1> DEFINE R == RecursionLimit
             A == Ancestor(par, f)
             x == A[n]
             B == Ancestor(par, x)
             Good == {k \in 0..(R - n) : A[n + k] = B[k]}
  <1>0. R \in Nat /\ R - n \in Nat
    BY Limits
  <1>a. x \in Place /\ \A k \in 1..R : A[k] = Up(par, A[k - 1])
    BY AncestorDef
  <1> HIDE DEF x
  <1>b. B[0] = x /\ \A k \in 1..R : B[k] = Up(par, B[k - 1])
    BY <1>a, AncestorDef
  <1> HIDE DEF A, B
  <1>1. 0 \in Good
    BY <1>0, <1>b DEF x
  <1>2. ASSUME NEW k \in 1..(R - n), k - 1 \in Good
        PROVE  k \in Good
    <2>1. k \in 1..R /\ n + k \in 1..R /\ (n + k) - 1 = n + (k - 1) /\ k \in 0..(R - n)
      BY <1>0
    <2>2. A[n + (k - 1)] = B[k - 1]
      BY <1>2
    <2>3. A[n + k] = Up(par, A[(n + k) - 1])
      BY <1>a, <2>1
    <2>4. B[k] = Up(par, B[k - 1])
      BY <1>b, <2>1
    <2> QED
      BY <2>1, <2>2, <2>3, <2>4
  <1>3. \A k \in 1..(R - n) : k - 1 \in Good => k \in Good
    BY <1>2
  <1> HIDE DEF Good
  <1>4. \A k \in 0..(R - n) : k \in Good
    BY <1>0, <1>1, <1>3, SetInduction
  <1> QED
    BY <1>4 DEF Good, A, B, x

\* Two hierarchies that agree along a chain have the chain in common.
LEMMA Agree ==
    ASSUME NEW par \in [Folders -> Place], NEW q \in [Folders -> Place], NEW f \in Place,
           NEW N \in 0..RecursionLimit,
           \A k \in 0..(N - 1) : Ancestor(par, f)[k] # NoFolder =>
                q[Ancestor(par, f)[k]] = par[Ancestor(par, f)[k]]
    PROVE  \A k \in 0..N : Ancestor(q, f)[k] = Ancestor(par, f)[k]
  <1> DEFINE A == Ancestor(par, f)
             B == Ancestor(q, f)
             R == RecursionLimit
             Good == {k \in 0..N : B[k] = A[k]}
  <1>0. R \in Nat /\ N \in Nat /\ N <= R
    BY Limits
  <1>a. A[0] = f /\ \A k \in 1..R : A[k] = Up(par, A[k - 1])
    BY AncestorDef
  <1>b. B[0] = f /\ \A k \in 1..R : B[k] = Up(q, B[k - 1])
    BY AncestorDef
  <1>c. \A k \in 0..(N - 1) : A[k] # NoFolder => q[A[k]] = par[A[k]]
    OBVIOUS
  <1> HIDE DEF A, B
  <1>1. 0 \in Good
    BY <1>0, <1>a, <1>b
  <1>2. ASSUME NEW k \in 1..N, k - 1 \in Good
        PROVE  k \in Good
    <2>1. k \in 1..R /\ k - 1 \in 0..(N - 1) /\ k \in 0..N
      BY <1>0
    <2>2. A[k] = Up(par, A[k - 1]) /\ B[k] = Up(q, B[k - 1]) /\ B[k - 1] = A[k - 1]
      BY <1>a, <1>b, <1>2, <2>1
    <2>3. Up(par, A[k - 1]) = Up(q, A[k - 1])
      BY <1>c, <2>1 DEF Up
    <2> QED
      BY <2>1, <2>2, <2>3
  <1>3. \A k \in 1..N : k - 1 \in Good => k \in Good
    BY <1>2
  <1> HIDE DEF Good
  <1>4. \A k \in 0..N : k \in Good
    BY <1>0, <1>1, <1>3, SetInduction
  <1> QED
    BY <1>4 DEF Good, A, B

\* The parents of folders of a set are in it or the root: so are all ancestors.
LEMMA ChainIn ==
    ASSUME NEW par \in [Folders -> Place], NEW S \in SUBSET Folders,
           \A g \in S : par[g] \in S \union {NoFolder},
           NEW f \in S \union {NoFolder}
    PROVE  \A n \in 0..RecursionLimit : Ancestor(par, f)[n] \in S \union {NoFolder}
  <1> DEFINE A == Ancestor(par, f)
             R == RecursionLimit
             Good == {k \in 0..R : A[k] \in S \union {NoFolder}}
  <1>0. R \in Nat /\ f \in Place
    BY Limits DEF Place
  <1>a. A[0] = f /\ \A k \in 1..R : A[k] = Up(par, A[k - 1])
    BY <1>0, AncestorDef
  <1> HIDE DEF A
  <1>1. 0 \in Good
    BY <1>0, <1>a
  <1>2. ASSUME NEW k \in 1..R, k - 1 \in Good
        PROVE  k \in Good
    BY <1>0, <1>a, <1>2 DEF Up
  <1>3. \A k \in 1..R : k - 1 \in Good => k \in Good
    BY <1>2
  <1> HIDE DEF Good
  <1>4. \A k \in 0..R : k \in Good
    BY <1>0, <1>1, <1>3, SetInduction
  <1> QED
    BY <1>4 DEF Good, A

\* A folder that reaches the root is not its own ancestor.
LEMMA Acyclic ==
    ASSUME NEW par \in [Folders -> Place], NEW f \in Folders,
           NEW n \in 0..RecursionLimit, Ancestor(par, f)[n] = NoFolder,
           NEW m \in 1..RecursionLimit
    PROVE  Ancestor(par, f)[m] # f
  <1> DEFINE A == Ancestor(par, f)
             R == RecursionLimit
             Ends == {k \in 0..R : A[k] = NoFolder}
  <1>0. R \in Nat /\ f \in Place /\ f # NoFolder
    BY Limits DEF Place
  <1>1. SUFFICES ASSUME A[m] = f PROVE FALSE
    OBVIOUS
  <1>a. /\ \A k \in 0..R : \A l \in k..R : A[k] = NoFolder => A[l] = NoFolder
        /\ \A l \in 0..(R - m) : A[m + l] = Ancestor(par, A[m])[l]
    <2>1. \A k \in 0..R : \A l \in k..R : A[k] = NoFolder => A[l] = NoFolder
      BY <1>0, Roots
    <2>2. m \in 0..R
      BY <1>0
    <2> QED
      BY <1>0, <2>1, <2>2, Compose
  <1>b. \A l \in 0..(R - m) : A[m + l] = A[l]
    BY <1>1, <1>a
  <1>c. n \in Ends
    OBVIOUS
  <1> HIDE DEF A
  <1>2. PICK k \in Ends : \A l \in Ends : k <= l
    <2>1. Ends \subseteq Nat
      BY <1>0
    <2> HIDE DEF Ends
    <2> QED
      BY <1>c, <2>1, LeastNatural
  <1>3. CASE k < m
    <2>1. m \in k..R
      BY <1>0, <1>2, <1>3
    <2> QED
      BY <1>0, <1>1, <1>2, <1>a, <2>1
  <1>4. CASE k >= m
    <2>1. k - m \in 0..(R - m) /\ m + (k - m) = k /\ k - m \in 0..R /\ k - m < k
      BY <1>0, <1>2, <1>4
    <2>2. A[k - m] = NoFolder
      BY <1>2, <1>b, <2>1
    <2>3. k - m \in Ends
      BY <2>1, <2>2
    <2> QED
      BY <1>2, <2>1, <2>3
  <1> QED
    BY <1>0, <1>2, <1>3, <1>4

-----------------------------------------------------------------------------
(* Hierarchies: a set of folders and their parents *)

\* Every folder reaches the root within the limit, over folders of the set.
Tree(S, par) ==
    /\ S \subseteq Folders
    /\ par \in [Folders -> Place]
    /\ \A g \in S : par[g] \in S \union {NoFolder}
    /\ \A g \in S : Ancestor(par, g)[MaxFolderDepth] = NoFolder

\* Facts about the chain of a folder of a hierarchy, or of the root.
LEMMA TreeChain ==
    ASSUME NEW S, NEW par, Tree(S, par), NEW f \in S \union {NoFolder}
    PROVE  /\ f \in Place
           /\ \A n \in 0..RecursionLimit : Ancestor(par, f)[n] \in S \union {NoFolder}
           /\ \A n \in MaxFolderDepth..RecursionLimit : Ancestor(par, f)[n] = NoFolder
  <1>1. f \in Place
    BY DEF Tree, Place
  <1>2. \A n \in 0..RecursionLimit : Ancestor(par, f)[n] \in S \union {NoFolder}
    BY ChainIn DEF Tree
  <1>3. MaxFolderDepth \in 0..RecursionLimit /\ 0 \in 0..RecursionLimit
    BY Limits
  <1>4. Ancestor(par, f)[MaxFolderDepth] = NoFolder
    <2>1. CASE f \in S
      BY <2>1 DEF Tree
    <2>2. CASE f = NoFolder
      <3>1. Ancestor(par, f)[0] = NoFolder
        BY <1>1, <2>2, AncestorDef DEF Tree
      <3>2. MaxFolderDepth \in 0..RecursionLimit
        BY Limits
      <3> QED
        BY <1>1, <1>3, <3>1, <3>2, Roots DEF Tree
    <2> QED
      BY <2>1, <2>2
  <1>5. ASSUME NEW n \in MaxFolderDepth..RecursionLimit
        PROVE  Ancestor(par, f)[n] = NoFolder
    BY <1>1, <1>3, <1>4, Roots DEF Tree
  <1> QED
    BY <1>1, <1>2, <1>5

\* The length of a chain bounds its ancestors.
LEMMA ChainLength ==
    ASSUME NEW S, NEW par, Tree(S, par), NEW f \in S, NEW c \in Nat,
           c < RecursionLimit,
           Cardinality({n \in 0..(RecursionLimit - 1) : Ancestor(par, f)[n] # NoFolder}) <= c
    PROVE  Ancestor(par, f)[c] = NoFolder
  <1> DEFINE C == {n \in 0..(RecursionLimit - 1) : Ancestor(par, f)[n] # NoFolder}
  <1>0. RecursionLimit \in Nat /\ f \in Place /\ par \in [Folders -> Place]
    BY Limits, TreeChain DEF Tree
  <1>1. SUFFICES ASSUME Ancestor(par, f)[c] # NoFolder PROVE FALSE
    OBVIOUS
  <1>2. 0..c \subseteq C
    <2> SUFFICES ASSUME NEW n \in 0..c PROVE Ancestor(par, f)[n] # NoFolder
      BY <1>0
    <2>1. n \in 0..RecursionLimit /\ c \in n..RecursionLimit
      BY <1>0
    <2> QED
      BY <1>0, <1>1, <2>1, Roots
  <1>3. IsFiniteSet(0..(RecursionLimit - 1)) /\ Cardinality(0..c) = c + 1
    BY <1>0, FS_Interval
  <1>4. IsFiniteSet(C)
    BY <1>3, FS_Subset
  <1>5. Cardinality(0..c) <= Cardinality(C) /\ Cardinality(C) \in Nat
    BY <1>2, <1>4, FS_Subset, FS_CardinalityType
  <1> QED
    BY <1>3, <1>5

\* A new folder below p: the folders keep their chains, and the chain of the new
\* one is that of p, one longer.
LEMMA InsertKeepsTree ==
    ASSUME NEW S, NEW par, Tree(S, par), NEW f \in Folders \ S,
           NEW p \in S \union {NoFolder}, Ancestor(par, p)[MaxFolderDepth - 1] = NoFolder
    PROVE  Tree(S \union {f}, [par EXCEPT ![f] = p])
  <1> DEFINE D == MaxFolderDepth
             R == RecursionLimit
             q == [par EXCEPT ![f] = p]
  <1>0. /\ D \in Nat /\ D >= 1 /\ R \in Nat /\ R > D /\ f # NoFolder /\ S \subseteq Folders
        /\ par \in [Folders -> Place] /\ f \in Place /\ p \in Place
    BY Limits DEF Tree, Place
  <1>1. /\ q \in [Folders -> Place] /\ q[f] = p
        /\ \A g \in Folders \ {f} : q[g] = par[g]
    BY <1>0
  <1> HIDE DEF q
  <1>2. \A g \in S \union {f} : q[g] \in S \union {f, NoFolder}
    BY <1>0, <1>1 DEF Tree
  <1>3. ASSUME NEW g \in S \union {NoFolder}
        PROVE  \A k \in 0..R : Ancestor(q, g)[k] = Ancestor(par, g)[k]
    <2>1. g \in Place /\ \A n \in 0..R : Ancestor(par, g)[n] \in S \union {NoFolder}
      BY TreeChain
    <2>2. \A k \in 0..(R - 1) : Ancestor(par, g)[k] # NoFolder =>
              q[Ancestor(par, g)[k]] = par[Ancestor(par, g)[k]]
      BY <1>0, <1>1, <2>1
    <2>3. R \in 0..R
      BY <1>0
    <2> QED
      BY <1>0, <1>1, <2>1, <2>2, <2>3, Agree
  <1>4. \A g \in S : Ancestor(q, g)[D] = NoFolder
    BY <1>0, <1>3 DEF Tree
  <1>5. Ancestor(q, f)[D] = NoFolder
    <2>1. 1 \in 0..R /\ 1 \in 1..R /\ D - 1 \in 0..(R - 1) /\ 1 + (D - 1) = D /\ D - 1 \in 0..R
          /\ 1 - 1 = 0
      BY <1>0
    <2>2. Ancestor(q, f)[1] = p
      <3>1. Ancestor(q, f)[0] = f /\ Ancestor(q, f)[1] = Up(q, Ancestor(q, f)[1 - 1])
        BY <1>0, <1>1, <2>1, AncestorDef
      <3> QED
        BY <1>0, <1>1, <2>1, <3>1 DEF Up
    <2>3. Ancestor(q, f)[1 + (D - 1)] = Ancestor(q, Ancestor(q, f)[1])[D - 1]
      BY <1>0, <1>1, <2>1, Compose
    <2> QED
      BY <1>3, <2>1, <2>2, <2>3
  <1> QED
    BY <1>0, <1>1, <1>2, <1>4, <1>5 DEF Tree, q

\* What assertValidMove establishes: f is not above p, and below f there is no
\* folder that would come to lie too deep below p.
MoveFits(S, par, f, p) ==
    /\ \A k \in 0..RecursionLimit : Ancestor(par, p)[k] # f
    /\ \A g \in S : \A k \in 0..(MaxFolderDepth - 1) :
           Ancestor(par, g)[k] = f => Ancestor(par, p)[MaxFolderDepth - k - 1] = NoFolder

\* Such a move leaves a hierarchy.
LEMMA MoveKeepsTree ==
    ASSUME NEW S, NEW par, Tree(S, par), NEW f \in S, NEW p \in S \union {NoFolder},
           MoveFits(S, par, f, p)
    PROVE  Tree(S, [par EXCEPT ![f] = p])
  <1> DEFINE D == MaxFolderDepth
             R == RecursionLimit
             q == [par EXCEPT ![f] = p]
  <1>0. /\ D \in Nat /\ D >= 1 /\ R \in Nat /\ R > D /\ f # NoFolder /\ S \subseteq Folders
        /\ par \in [Folders -> Place] /\ f \in Place /\ p \in Place /\ f \in Folders
    BY Limits DEF Tree, Place
  <1>1. /\ q \in [Folders -> Place] /\ q[f] = p
        /\ \A g \in Folders \ {f} : q[g] = par[g]
    BY <1>0
  <1> HIDE DEF q
  <1>2. \A g \in S : q[g] \in S \union {NoFolder}
    BY <1>0, <1>1 DEF Tree
  <1>3. ASSUME NEW g \in S \union {NoFolder}, NEW N \in 0..R,
               \A k \in 0..(N - 1) : Ancestor(par, g)[k] # f
        PROVE  \A k \in 0..N : Ancestor(q, g)[k] = Ancestor(par, g)[k]
    <2>1. g \in Place /\ \A n \in 0..R : Ancestor(par, g)[n] \in S \union {NoFolder}
      BY TreeChain
    <2>2. \A k \in 0..(N - 1) : Ancestor(par, g)[k] # NoFolder =>
              q[Ancestor(par, g)[k]] = par[Ancestor(par, g)[k]]
      BY <1>0, <1>1, <1>3, <2>1
    <2> QED
      BY <1>0, <1>1, <2>1, <2>2, Agree
  <1>4. \A k \in 0..R : Ancestor(q, p)[k] = Ancestor(par, p)[k]
    <2>1. R \in 0..R /\ \A k \in 0..(R - 1) : Ancestor(par, p)[k] # f
      BY <1>0 DEF MoveFits
    <2> QED
      BY <1>3, <2>1
  <1>5. ASSUME NEW g \in S
        PROVE  Ancestor(q, g)[D] = NoFolder
    <2> DEFINE Hits == {k \in 0..(D - 1) : Ancestor(par, g)[k] = f}
    <2>1. CASE Hits = {}
      <3>1. D \in 0..R /\ D \in 0..D /\ \A k \in 0..(D - 1) : Ancestor(par, g)[k] # f
        BY <1>0, <2>1
      <3>2. Ancestor(q, g)[D] = Ancestor(par, g)[D]
        BY <1>3, <3>1
      <3> QED
        BY <3>2 DEF Tree
    <2>2. CASE Hits # {}
      <3>1. PICK k \in Hits : \A l \in Hits : k <= l
        <4>1. Hits \subseteq Nat
          BY <1>0
        <4> HIDE DEF Hits
        <4> QED
          BY <2>2, <4>1, LeastNatural
      <3>2. k \in 0..R /\ k \in 0..k /\ k \in 0..(D - 1) /\ k + 1 \in 1..R /\ (k + 1) - 1 = k
            /\ k + 1 \in 0..R /\ D - k - 1 \in 0..(R - (k + 1)) /\ (k + 1) + (D - k - 1) = D
            /\ D - k - 1 \in 0..R
        BY <1>0, <3>1
      <3>3. \A l \in 0..(k - 1) : Ancestor(par, g)[l] # f
        BY <1>0, <3>1
      <3>4. Ancestor(q, g)[k] = f
        BY <1>3, <3>1, <3>2, <3>3
      <3>5. g \in Place
        BY <1>0 DEF Place
      <3>6. Ancestor(q, g)[k + 1] = p
        <4>1. Ancestor(q, g)[k + 1] = Up(q, Ancestor(q, g)[(k + 1) - 1])
          BY <1>1, <3>2, <3>5, AncestorDef
        <4> QED
          BY <1>0, <1>1, <3>2, <3>4, <4>1 DEF Up
      <3>7. Ancestor(q, g)[(k + 1) + (D - k - 1)] = Ancestor(q, Ancestor(q, g)[k + 1])[D - k - 1]
        BY <1>1, <3>2, <3>5, Compose
      <3>8. Ancestor(par, p)[D - k - 1] = NoFolder
        BY <3>1, <3>2 DEF MoveFits
      <3> QED
        BY <1>4, <3>2, <3>6, <3>7, <3>8
    <2> QED
      BY <2>1, <2>2
  <1> QED
    BY <1>0, <1>1, <1>2, <1>5 DEF Tree, q

\* The parents once f is gone and its children belong to its parent.
Removed(par, f) ==
    [g \in Folders |-> IF g = f THEN NoFolder ELSE IF par[g] = f THEN par[f] ELSE par[g]]

\* Removed, argument by argument.
LEMMA RemovedDef ==
    ASSUME NEW par \in [Folders -> Place], NEW f \in Folders
    PROVE  /\ Removed(par, f) \in [Folders -> Place]
           /\ \A g \in Folders : g # f /\ par[g] = f => Removed(par, f)[g] = par[f]
           /\ \A g \in Folders : g # f /\ par[g] # f => Removed(par, f)[g] = par[g]
  BY DEF Removed, Place

\* As far as a chain does not meet f it stays.
LEMMA RemovedKeeps ==
    ASSUME NEW S, NEW par, Tree(S, par), NEW f \in S, NEW g \in S \union {NoFolder},
           NEW N \in 0..RecursionLimit, \A k \in 0..N : Ancestor(par, g)[k] # f
    PROVE  \A k \in 0..N : Ancestor(Removed(par, f), g)[k] = Ancestor(par, g)[k]
  <1> DEFINE A == Ancestor(par, g)
             R == RecursionLimit
             q == Removed(par, f)
  <1>0. /\ R \in Nat /\ S \subseteq Folders /\ par \in [Folders -> Place] /\ f \in Folders
        /\ g \in Place /\ NoFolder \notin Folders
    BY Limits, TreeChain DEF Tree
  <1>1. /\ q \in [Folders -> Place]
        /\ \A x \in Folders : x # f /\ par[x] # f => q[x] = par[x]
    BY <1>0, RemovedDef
  <1>2. \A k \in 1..R : A[k] = Up(par, A[k - 1])
    BY <1>0, AncestorDef
  <1>3. \A k \in 0..R : A[k] \in S \union {NoFolder}
    BY TreeChain
  <1>a. \A k \in 0..N : A[k] # f
    OBVIOUS
  <1> HIDE DEF A, q
  <1>4. ASSUME NEW k \in 0..(N - 1), A[k] # NoFolder
        PROVE  q[A[k]] = par[A[k]]
    <2>1. k \in 0..R /\ k + 1 \in 1..R /\ (k + 1) - 1 = k /\ k \in 0..N /\ k + 1 \in 0..N
      BY <1>0
    <2>2. A[k] \in Folders /\ A[k] # f
      BY <1>0, <1>3, <1>4, <1>a, <2>1
    <2>3. par[A[k]] = A[k + 1]
      <3>1. A[k + 1] = Up(par, A[k])
        BY <1>2, <2>1
      <3> QED
        BY <1>4, <3>1 DEF Up
    <2> QED
      BY <1>1, <1>a, <2>1, <2>2, <2>3
  <1>5. \A k \in 0..(N - 1) : Ancestor(par, g)[k] # NoFolder =>
            q[Ancestor(par, g)[k]] = par[Ancestor(par, g)[k]]
    BY <1>4 DEF A
  <1>6. \A k \in 0..N : Ancestor(q, g)[k] = Ancestor(par, g)[k]
    BY <1>0, <1>1, <1>5, Agree
  <1> QED
    BY <1>6 DEF q

\* The chain of the parent of f does not meet f.
LEMMA AboveParent ==
    ASSUME NEW S, NEW par, Tree(S, par), NEW f \in S
    PROVE  /\ par[f] \in S \union {NoFolder}
           /\ \A l \in 0..RecursionLimit : Ancestor(par, par[f])[l] # f
  <1> DEFINE R == RecursionLimit
             x == par[f]
  <1>0. /\ R \in Nat /\ R > MaxFolderDepth /\ S \subseteq Folders /\ par \in [Folders -> Place]
        /\ f \in Folders /\ f \in Place /\ f # NoFolder /\ MaxFolderDepth \in 0..R /\ 1 \in 1..R
        /\ MaxFolderDepth \in Nat /\ 1 \in 0..R /\ 1 - 1 = 0
    BY Limits DEF Tree, Place
  <1>1. x \in S \union {NoFolder}
    BY DEF Tree
  <1>2. Ancestor(par, f)[1] = x
    <2>1. Ancestor(par, f)[0] = f /\ Ancestor(par, f)[1] = Up(par, Ancestor(par, f)[1 - 1])
      BY <1>0, AncestorDef
    <2> QED
      BY <1>0, <2>1 DEF Up
  <1> HIDE DEF x
  <1>3. ASSUME NEW l \in 0..R
        PROVE  Ancestor(par, x)[l] # f
    <2>1. CASE l = R
      <3>1. R \in MaxFolderDepth..R
        BY <1>0
      <3>2. Ancestor(par, x)[R] = NoFolder
        BY <1>1, <3>1, TreeChain
      <3> QED
        BY <1>0, <2>1, <3>2
    <2>2. CASE l # R
      <3>1. l \in 0..(R - 1) /\ 1 + l \in 1..R
        BY <1>0, <2>2
      <3>2. Ancestor(par, f)[1 + l] = Ancestor(par, Ancestor(par, f)[1])[l]
        BY <1>0, <3>1, Compose
      <3>3. Ancestor(par, f)[MaxFolderDepth] = NoFolder
        BY DEF Tree
      <3>4. Ancestor(par, f)[1 + l] # f
        BY <1>0, <3>1, <3>3, Acyclic
      <3> QED
        BY <1>2, <3>2, <3>4
    <2> QED
      BY <2>1, <2>2
  <1> QED
    BY <1>1, <1>3 DEF x

\* What becomes of the chain A of a folder when f, which is above it at
\* distance k, goes: B is A without its element k.
Shortened(A, B, k, f) ==
    /\ A[k] = f
    /\ \A l \in 0..(k - 1) : A[l] # f /\ B[l] = A[l]
    /\ \A l \in k..(RecursionLimit - 1) : A[l + 1] # f /\ B[l] = A[l + 1]

\* The chain of a folder that stays, before and after f goes.
LEMMA RemovedChain ==
    ASSUME NEW S, NEW par, Tree(S, par), NEW f \in S, NEW g \in S \ {f}
    PROVE  \/ \A k \in 0..RecursionLimit :
                 /\ Ancestor(par, g)[k] # f
                 /\ Ancestor(Removed(par, f), g)[k] = Ancestor(par, g)[k]
           \/ \E k \in 1..(MaxFolderDepth - 1) :
                 Shortened(Ancestor(par, g), Ancestor(Removed(par, f), g), k, f)
  <1> DEFINE A == Ancestor(par, g)
             R == RecursionLimit
             D == MaxFolderDepth
             q == Removed(par, f)
             B == Ancestor(q, g)
             x == par[f]
             Hits == {k \in 0..R : A[k] = f}
  <1>0. /\ R \in Nat /\ D \in Nat /\ D < R /\ D >= 1 /\ S \subseteq Folders
        /\ par \in [Folders -> Place] /\ f \in Folders /\ f # NoFolder
        /\ g \in Place /\ NoFolder \notin Folders /\ g \in S \union {NoFolder}
    BY Limits, TreeChain DEF Tree
  <1>1. /\ q \in [Folders -> Place]
        /\ \A y \in Folders : y # f /\ par[y] = f => q[y] = par[f]
    BY <1>0, RemovedDef
  <1>2. CASE Hits = {}
    <2>1. R \in 0..R /\ \A k \in 0..R : A[k] # f
      BY <1>0, <1>2
    <2>2. \A k \in 0..R : B[k] = A[k]
      BY <1>0, <2>1, RemovedKeeps
    <2> QED
      BY <2>1, <2>2
  <1>3. CASE Hits # {}
    <2>1. PICK k \in Hits : \A l \in Hits : k <= l
      <3>1. Hits \subseteq Nat
        BY <1>0
      <3> HIDE DEF Hits
      <3> QED
        BY <1>3, <3>1, LeastNatural
    <2>2. A[0] = g /\ \A l \in 1..R : A[l] = Up(par, A[l - 1])
      BY <1>0, AncestorDef
    <2>3. \A l \in D..R : A[l] = NoFolder
      BY TreeChain
    <2>4. k \in 1..(D - 1) /\ k \in 1..R /\ k - 1 \in 0..R /\ k \in 0..R /\ A[k] = f
      <3>1. k # 0
        BY <2>1, <2>2
      <3>2. k < D
        BY <1>0, <2>1, <2>3
      <3> QED
        BY <1>0, <2>1, <3>1, <3>2
    <2>5. \A l \in 0..(k - 1) : A[l] # f
      BY <1>0, <2>1, <2>4
    <2>6. \A l \in 0..(k - 1) : B[l] = A[l]
      BY <1>0, <2>4, <2>5, RemovedKeeps
    <2>7. B[k] = x
      <3>1. A[k] = Up(par, A[k - 1])
        BY <2>2, <2>4
      <3>2. A[k - 1] # NoFolder /\ par[A[k - 1]] = f
        BY <1>0, <2>4, <3>1 DEF Up
      <3>3. k - 1 \in 0..(k - 1)
        BY <2>4
      <3>4. A[k - 1] # f /\ B[k - 1] = A[k - 1]
        BY <2>5, <2>6, <3>3
      <3>5. A[k - 1] \in Folders
        <4>1. A[k - 1] \in S \union {NoFolder}
          BY <1>0, <2>4, TreeChain
        <4> QED
          BY <1>0, <3>2, <4>1
      <3>6. B[k] = Up(q, B[k - 1])
        BY <1>0, <1>1, <2>4, AncestorDef
      <3> QED
        BY <1>1, <3>2, <3>4, <3>5, <3>6 DEF Up
    <2>8. A[k + 1] = x
      <3>1. k + 1 \in 1..R /\ (k + 1) - 1 = k
        BY <1>0, <2>4
      <3>2. A[k + 1] = Up(par, A[(k + 1) - 1])
        BY <2>2, <3>1
      <3> QED
        BY <1>0, <2>4, <3>1, <3>2 DEF Up
    <2>9. x \in S \union {NoFolder} /\ \A l \in 0..R : Ancestor(par, x)[l] # f
      BY AboveParent
    <2>10. \A l \in 0..R : Ancestor(q, x)[l] = Ancestor(par, x)[l]
      <3>1. R \in 0..R
        BY <1>0
      <3> HIDE DEF x
      <3> QED
        BY <2>9, <3>1, RemovedKeeps
    <2> HIDE DEF x, q, A, B
    <2>11. ASSUME NEW l \in k..(R - 1)
           PROVE  A[l + 1] # f /\ B[l] = A[l + 1]
      <3>1. /\ l - k \in 0..(R - k) /\ l - k \in 0..(R - (k + 1)) /\ k + 1 \in 0..R
            /\ k + (l - k) = l /\ (k + 1) + (l - k) = l + 1 /\ l - k \in 0..R
        BY <1>0, <2>4
      <3>2. B[k + (l - k)] = Ancestor(q, B[k])[l - k]
        BY <1>0, <1>1, <2>4, <3>1, Compose DEF B
      <3>3. A[(k + 1) + (l - k)] = Ancestor(par, A[k + 1])[l - k]
        BY <1>0, <3>1, Compose DEF A
      <3> QED
        BY <2>7, <2>8, <2>9, <2>10, <3>1, <3>2, <3>3
    <2>12. Shortened(A, B, k, f)
      BY <2>4, <2>5, <2>6, <2>11 DEF Shortened
    <2> QED
      BY <2>4, <2>12 DEF A, B, q
  <1> QED
    BY <1>2, <1>3


\* A deletion leaves a hierarchy.
LEMMA RemoveKeepsTree ==
    ASSUME NEW S, NEW par, Tree(S, par), NEW f \in S
    PROVE  Tree(S \ {f}, Removed(par, f))
  <1> DEFINE D == MaxFolderDepth
             R == RecursionLimit
             q == Removed(par, f)
  <1>0. /\ D \in Nat /\ R \in Nat /\ R > D /\ D >= 1 /\ S \subseteq Folders
        /\ par \in [Folders -> Place] /\ f \in Folders
    BY Limits DEF Tree
  <1>1. /\ q \in [Folders -> Place]
        /\ \A g \in Folders : g # f /\ par[g] = f => q[g] = par[f]
        /\ \A g \in Folders : g # f /\ par[g] # f => q[g] = par[g]
    BY <1>0, RemovedDef
  <1>2. par[f] # f /\ par[f] \in S \union {NoFolder}
    <2>1. par[f] \in S \union {NoFolder} /\ \A l \in 0..R : Ancestor(par, par[f])[l] # f
      BY AboveParent
    <2>2. 0 \in 0..R /\ par[f] \in Place
      BY <1>0
    <2>3. Ancestor(par, par[f])[0] = par[f]
      BY <1>0, <2>2, AncestorDef
    <2> QED
      BY <2>1, <2>2, <2>3
  <1> HIDE DEF q
  <1>3. \A g \in S \ {f} : q[g] \in (S \ {f}) \union {NoFolder}
    BY <1>0, <1>1, <1>2 DEF Tree
  <1>4. ASSUME NEW g \in S \ {f}
        PROVE  Ancestor(q, g)[D] = NoFolder
    <2>1. \A n \in D..R : Ancestor(par, g)[n] = NoFolder
      BY TreeChain
    <2>2. D \in D..R /\ D + 1 \in D..R /\ D \in 0..R
      BY <1>0
    <2>3. CASE \A k \in 0..R : /\ Ancestor(par, g)[k] # f
                               /\ Ancestor(q, g)[k] = Ancestor(par, g)[k]
      BY <2>1, <2>2, <2>3
    <2>4. CASE \E k \in 1..(D - 1) : Shortened(Ancestor(par, g), Ancestor(q, g), k, f)
      <3>1. PICK k \in 1..(D - 1) : Shortened(Ancestor(par, g), Ancestor(q, g), k, f)
        BY <2>4
      <3>2. D \in k..(R - 1)
        BY <1>0
      <3> QED
        BY <2>1, <2>2, <3>1, <3>2 DEF Shortened
    <2> QED
      BY <2>3, <2>4, RemovedChain DEF q
  <1> QED
    BY <1>0, <1>1, <1>3, <1>4 DEF Tree, q

\* A deletion keeps the order of the folders that stay.
LEMMA RemoveKeepsOrder ==
    ASSUME NEW S, NEW par, Tree(S, par), NEW f \in S, NEW x \in S \ {f}, NEW g \in S \ {f}
    PROVE  Below(par, g, x) <=> Below(Removed(par, f), g, x)
  <1> DEFINE D == MaxFolderDepth
             R == RecursionLimit
             A == Ancestor(par, g)
             B == Ancestor(Removed(par, f), g)
  <1>0. D \in Nat /\ R \in Nat /\ R > D /\ D >= 1 /\ x # NoFolder /\ x # f
    BY Limits DEF Tree
  <1>1. \A n \in D..R : A[n] = NoFolder
    BY TreeChain
  <1>2. \A n \in D..R : B[n] = NoFolder
    <2>1. Tree(S \ {f}, Removed(par, f))
      BY RemoveKeepsTree
    <2> QED
      BY <2>1, TreeChain
  <1>3. CASE \A k \in 0..R : A[k] # f /\ B[k] = A[k]
    <2>1. \A n \in 1..R : n \in 0..R
      BY <1>0
    <2> QED
      BY <1>3, <2>1 DEF Below
  <1>4. CASE \E k \in 1..(D - 1) : Shortened(A, B, k, f)
    <2>1. PICK k \in 1..(D - 1) : Shortened(A, B, k, f)
      BY <1>4
    <2>2. /\ A[k] = f
          /\ \A l \in 0..(k - 1) : B[l] = A[l]
          /\ \A l \in k..(R - 1) : B[l] = A[l + 1]
      BY <2>1 DEF Shortened
    <2> HIDE DEF A, B
    <2>3. ASSUME NEW n \in 1..R, A[n] = x
          PROVE  \E m \in 1..R : B[m] = x
      <3>1. CASE n < k
        <4>1. n \in 0..(k - 1)
          BY <3>1
        <4> QED
          BY <2>2, <2>3, <4>1
      <3>2. CASE n > k
        <4>1. n - 1 \in k..(R - 1) /\ n - 1 \in 1..R /\ (n - 1) + 1 = n
          BY <1>0, <3>2
        <4> QED
          BY <2>2, <2>3, <4>1
      <3>3. n # k
        BY <1>0, <2>2, <2>3
      <3> QED
        BY <1>0, <3>1, <3>2, <3>3
    <2>4. ASSUME NEW n \in 1..R, B[n] = x
          PROVE  \E m \in 1..R : A[m] = x
      <3>1. CASE n < k
        <4>1. n \in 0..(k - 1)
          BY <3>1
        <4> QED
          BY <2>2, <2>4, <4>1
      <3>2. CASE n >= k /\ n < R
        <4>1. n \in k..(R - 1) /\ n + 1 \in 1..R
          BY <1>0, <3>2
        <4> QED
          BY <2>2, <2>4, <4>1
      <3>3. n # R
        BY <1>0, <1>2, <2>4
      <3> QED
        BY <1>0, <3>1, <3>2, <3>3
    <2> QED
      BY <2>3, <2>4 DEF Below, A, B
  <1> QED
    BY <1>3, <1>4, RemovedChain

-----------------------------------------------------------------------------
(* The invariant *)

\* The steps of a transaction that holds the lock.
Locked == {"check", "insert", "read", "chain", "height", "move", "delete"}

\* What a transaction has established about the hierarchy by the time it is at
\* each step; nobody else changes the hierarchy before it ends.
Established(r) ==
    /\ r.pc = "insert" =>
          /\ r.target \in folders \union {NoFolder}
          /\ Ancestor(parent, r.target)[MaxFolderDepth - 1] = NoFolder
    /\ r.pc \in {"chain", "height", "move", "delete"} => r.id \in folders
    /\ r.pc \in {"height", "move"} => r.target \in folders \union {NoFolder}
    /\ r.pc = "height" =>
          /\ \A k \in 0..RecursionLimit : Ancestor(parent, r.target)[k] # r.id
          /\ r.depth = Cardinality(AncestorChain(r.target))
    /\ r.pc = "move" => MoveFits(folders, parent, r.id, r.target)
    /\ r.pc = "delete" => r.current = parent[r.id]

\* A transaction past the lock holds it, and what it read still holds.
HandlerOK(h) ==
    /\ handlers[h].pc \in Locked => lock = h
    /\ Established(handlers[h])

\* The documents' half of NothingDangles.
DocumentsPlaced == \A d \in Docs : folderOf[d] \in folders \union {NoFolder}

\* The inductive invariant.
FolderInv ==
    /\ TypeOK
    /\ Tree(folders, parent)
    /\ DocumentsPlaced
    /\ \A h \in Handlers : HandlerOK(h)


\* Two transactions are not both past the lock.
LEMMA Exclusive ==
    ASSUME FolderInv, NEW h \in Handlers, handlers[h].pc \in Locked,
           NEW g \in Handlers \ {h}
    PROVE  handlers[g].pc \notin Locked
  BY DEF FolderInv, HandlerOK

\* Nothing is demanded of a request that does not hold the lock.
LEMMA Waiting ==
    ASSUME NEW g \in Handlers, handlers'[g].pc \notin Locked
    PROVE  HandlerOK(g)'
  BY DEF HandlerOK, Established, Locked

\* What a transaction has established stays while the hierarchy does.
LEMMA StaysEstablished ==
    ASSUME UNCHANGED <<folders, parent>>, NEW r, Established(r)
    PROVE  Established(r)'
  <1>1. AncestorChain(r.target)' = AncestorChain(r.target)
    BY DEF AncestorChain
  <1> QED
    BY <1>1 DEF Established

\* A request that is over.
LEMMA Idle ==
    /\ IdleHandler \in Handler
    /\ IdleHandler.pc = "idle" /\ IdleHandler.pc \notin Locked
  BY DEF IdleHandler, Handler, Locked

\* The end of a transaction that holds the lock.
LEMMA EndOK ==
    ASSUME FolderInv, NEW h \in Handlers, handlers[h].pc \in Locked, EndTransaction(h)
    PROVE  /\ lock' \in Handlers \union {NoHandler}
           /\ handlers' \in [Handlers -> Handler]
           /\ \A g \in Handlers : HandlerOK(g)'
  <1>1. handlers \in [Handlers -> Handler]
    BY DEF FolderInv, TypeOK
  <1>2. handlers' \in [Handlers -> Handler] /\ lock' \in Handlers \union {NoHandler}
    BY <1>1, Idle DEF EndTransaction
  <1>3. ASSUME NEW g \in Handlers
        PROVE  handlers'[g].pc \notin Locked
    <2>1. CASE g = h
      BY <1>1, <2>1, Idle DEF EndTransaction
    <2>2. CASE g # h
      <3>1. handlers'[g] = handlers[g]
        BY <1>1, <2>2 DEF EndTransaction
      <3> QED
        BY <2>2, <3>1, Exclusive
    <2> QED
      BY <2>1, <2>2
  <1> QED
    BY <1>2, <1>3, Waiting

\* A step of a transaction that goes on as r or is rolled back.
LEMMA ProceedOK ==
    ASSUME FolderInv, NEW h \in Handlers, handlers[h].pc \in Locked,
           UNCHANGED <<folders, parent, folderOf, used>>,
           NEW r, (handlers' = [handlers EXCEPT ![h] = r] /\ UNCHANGED lock) \/ EndTransaction(h),
           handlers' = [handlers EXCEPT ![h] = r] => r \in Handler /\ Established(r)
    PROVE  FolderInv'
  <1>0. handlers \in [Handlers -> Handler] /\ lock \in Handlers \union {NoHandler} /\ lock = h
    BY DEF FolderInv, TypeOK, HandlerOK
  <1>1. /\ lock' \in Handlers \union {NoHandler}
        /\ handlers' \in [Handlers -> Handler]
        /\ \A g \in Handlers : HandlerOK(g)'
    <2>1. CASE EndTransaction(h)
      BY <2>1, EndOK
    <2>2. CASE handlers' = [handlers EXCEPT ![h] = r] /\ UNCHANGED lock
      <3>1. r \in Handler /\ Established(r)
        BY <2>2
      <3>2. handlers' \in [Handlers -> Handler] /\ handlers'[h] = r
        BY <1>0, <2>2, <3>1
      <3>3. ASSUME NEW g \in Handlers
            PROVE  HandlerOK(g)'
        <4>1. CASE g = h
          <5>1. Established(r)'
            BY <3>1, StaysEstablished
          <5>2. lock' = g
            BY <1>0, <2>2, <4>1
          <5> QED
            BY <3>2, <4>1, <5>1, <5>2 DEF HandlerOK, Established
        <4>2. CASE g # h
          <5>1. handlers'[g] = handlers[g]
            BY <1>0, <2>2, <4>2
          <5> QED
            BY <4>2, <5>1, Exclusive, Waiting
        <4> QED
          BY <4>1, <4>2
      <3> QED
        BY <1>0, <2>2, <3>2, <3>3
    <2> QED
      BY <2>1, <2>2
  <1>2. TypeOK'
    BY <1>1 DEF FolderInv, TypeOK
  <1>3. Tree(folders, parent)' /\ DocumentsPlaced'
    BY DEF FolderInv, Tree, DocumentsPlaced
  <1> QED
    BY <1>1, <1>2, <1>3 DEF FolderInv


-----------------------------------------------------------------------------
(* One lemma per action *)

\* No folder, no request.
LEMMA InitOK == Init => FolderInv
  <1> SUFFICES ASSUME Init PROVE FolderInv
    OBVIOUS
  <1>1. TypeOK
    BY Idle DEF Init, TypeOK
  <1>2. Tree(folders, parent)
    BY DEF Init, Tree, Place
  <1>3. DocumentsPlaced
    BY DEF Init, DocumentsPlaced
  <1>4. \A h \in Handlers : HandlerOK(h)
    BY Idle DEF Init, HandlerOK, Established, Locked
  <1> QED
    BY <1>1, <1>2, <1>3, <1>4 DEF FolderInv

\* A request that starts, or ends, outside of the lock.
LEMMA OutsideOK ==
    ASSUME FolderInv, NEW h \in Handlers, NEW r \in Handler, r.pc \notin Locked,
           handlers' = [handlers EXCEPT ![h] = r],
           UNCHANGED <<folders, parent, used, lock>>,
           folderOf' \in [Docs -> Folders \union {NoFolder}], DocumentsPlaced'
    PROVE  FolderInv'
  <1>0. handlers \in [Handlers -> Handler]
    BY DEF FolderInv, TypeOK
  <1>1. TypeOK'
    BY <1>0 DEF FolderInv, TypeOK
  <1>2. Tree(folders, parent)'
    BY DEF FolderInv, Tree
  <1>3. ASSUME NEW g \in Handlers
        PROVE  HandlerOK(g)'
    <2>1. CASE g = h
      BY <1>0, <2>1, Waiting
    <2>2. CASE g # h
      <3>1. handlers'[g] = handlers[g] /\ HandlerOK(g)
        BY <1>0, <2>2 DEF FolderInv
      <3>2. PICK w : w = handlers[g]
        OBVIOUS
      <3>3. Established(w)'
        BY <3>1, <3>2, StaysEstablished DEF HandlerOK
      <3> QED
        BY <3>1, <3>2, <3>3 DEF HandlerOK, Established
    <2> QED
      BY <2>1, <2>2
  <1> QED
    BY <1>1, <1>2, <1>3 DEF FolderInv

\* A request starts outside of the lock.
LEMMA BeginOK ==
    ASSUME FolderInv, NEW h \in Handlers, NEW r \in Handler, r.pc \notin Locked, Begin(h, r)
    PROVE  FolderInv'
  <1>1. folderOf' \in [Docs -> Folders \union {NoFolder}] /\ DocumentsPlaced'
    BY DEF FolderInv, TypeOK, DocumentsPlaced, Begin
  <1> QED
    BY <1>1, OutsideOK DEF Begin

\* Every kind of request does.
LEMMA BeginsOK ==
    ASSUME FolderInv, NEW h \in Handlers
    PROVE  /\ \A p \in used \union {NoFolder} :
                 /\ BeginCreate(h, p) => FolderInv'
                 /\ \A f \in used : BeginUpdate(h, f, p) => FolderInv'
                 /\ \A d \in Docs : BeginPlace(h, d, p) => FolderInv'
           /\ \A f \in used : BeginRemove(h, f) => FolderInv'
  <1>0. used \subseteq Folders
    BY DEF FolderInv, TypeOK
  <1>1. ASSUME NEW p \in used \union {NoFolder}, BeginCreate(h, p)
        PROVE  FolderInv'
    <2> DEFINE r == [IdleHandler EXCEPT !.pc = "lock", !.target = p]
    <2>1. r \in Handler /\ r.pc \notin Locked
      BY <1>0 DEF IdleHandler, Handler, Locked
    <2> QED
      BY <1>1, <2>1, BeginOK DEF BeginCreate
  <1>2. ASSUME NEW p \in used \union {NoFolder}, NEW f \in used, BeginUpdate(h, f, p)
        PROVE  FolderInv'
    <2> DEFINE r == [IdleHandler EXCEPT !.pc = "lock", !.op = "update", !.id = f, !.target = p]
    <2>1. r \in Handler /\ r.pc \notin Locked
      BY <1>0 DEF IdleHandler, Handler, Locked
    <2> QED
      BY <1>2, <2>1, BeginOK DEF BeginUpdate
  <1>3. ASSUME NEW p \in used \union {NoFolder}, NEW d \in Docs, BeginPlace(h, d, p)
        PROVE  FolderInv'
    <2> DEFINE r == [IdleHandler EXCEPT !.pc = "place", !.op = "place", !.id = d, !.target = p]
    <2>1. r \in Handler /\ r.pc \notin Locked
      BY <1>0 DEF IdleHandler, Handler, Locked
    <2> QED
      BY <1>3, <2>1, BeginOK DEF BeginPlace
  <1>4. ASSUME NEW f \in used, BeginRemove(h, f)
        PROVE  FolderInv'
    <2> DEFINE r == [IdleHandler EXCEPT !.pc = "lock", !.op = "remove", !.id = f]
    <2>1. r \in Handler /\ r.pc \notin Locked
      BY <1>0 DEF IdleHandler, Handler, Locked
    <2> QED
      BY <1>4, <2>1, BeginOK DEF BeginRemove
  <1> QED
    BY <1>1, <1>2, <1>3, <1>4

\* The foreign key refuses a folder that is gone.
LEMMA PlaceOK ==
    ASSUME FolderInv, NEW h \in Handlers, PlaceDocument(h)
    PROVE  FolderInv'
  <1>0. handlers[h].target \in Folders \union {NoFolder}
    BY DEF FolderInv, TypeOK, Handler
  <1>1. folderOf' \in [Docs -> Folders \union {NoFolder}] /\ DocumentsPlaced'
    BY <1>0 DEF FolderInv, TypeOK, DocumentsPlaced, PlaceDocument
  <1> QED
    BY <1>1, Idle, OutsideOK DEF PlaceDocument

\* Nobody is past the lock when it is free.
LEMMA LockOK ==
    ASSUME FolderInv, NEW h \in Handlers, LockUserHierarchy(h)
    PROVE  FolderInv'
  <1>0. handlers \in [Handlers -> Handler]
    BY DEF FolderInv, TypeOK
  <1> DEFINE c == IF handlers[h].op = "create" THEN "check" ELSE "read"
  <1>1. handlers' = [handlers EXCEPT ![h].pc = c] /\ c \in {"check", "read"}
    BY DEF LockUserHierarchy
  <1>2. PICK w : w = c
    OBVIOUS
  <1> HIDE DEF c
  <1>3. /\ handlers' = [handlers EXCEPT ![h].pc = w] /\ w \in {"check", "read"}
        /\ lock = NoHandler /\ lock' = h /\ UNCHANGED <<folders, parent, folderOf, used>>
    BY <1>1, <1>2 DEF LockUserHierarchy
  <1>4. handlers' \in [Handlers -> Handler] /\ handlers'[h].pc = w
    BY <1>0, <1>3 DEF Handler
  <1>5. ASSUME NEW g \in Handlers
        PROVE  HandlerOK(g)'
    <2>1. CASE g = h
      BY <1>3, <1>4, <2>1 DEF HandlerOK, Established
    <2>2. CASE g # h
      <3>1. handlers'[g] = handlers[g]
        BY <1>0, <1>3, <2>2
      <3>2. handlers[g].pc \notin Locked
        BY <1>3, FolderAssumption DEF FolderInv, HandlerOK
      <3> QED
        BY <3>1, <3>2, Waiting
    <2> QED
      BY <2>1, <2>2
  <1>6. TypeOK' /\ Tree(folders, parent)' /\ DocumentsPlaced'
    BY <1>3, <1>4 DEF FolderInv, TypeOK, Tree, DocumentsPlaced
  <1> QED
    BY <1>5, <1>6 DEF FolderInv

\* Whatever a transaction had read goes with it, and the lock if it had it.
LEMMA AbortOK ==
    ASSUME FolderInv, NEW h \in Handlers, Abort(h)
    PROVE  FolderInv'
  <1>0. handlers \in [Handlers -> Handler] /\ lock \in Handlers \union {NoHandler}
    BY DEF FolderInv, TypeOK
  <1>1. /\ handlers' = [handlers EXCEPT ![h] = IdleHandler]
        /\ lock' = IF lock = h THEN NoHandler ELSE lock
        /\ UNCHANGED <<folders, parent, folderOf, used>>
    BY DEF Abort
  <1>2. TypeOK' /\ Tree(folders, parent)' /\ DocumentsPlaced'
    BY <1>0, <1>1, Idle DEF FolderInv, TypeOK, Tree, DocumentsPlaced
  <1>3. ASSUME NEW g \in Handlers
        PROVE  HandlerOK(g)'
    <2>1. CASE g = h
      BY <1>0, <1>1, <2>1, Idle, Waiting
    <2>2. CASE g # h
      <3>1. handlers'[g] = handlers[g] /\ HandlerOK(g)
        BY <1>0, <1>1, <2>2 DEF FolderInv
      <3>2. PICK w : w = handlers[g]
        OBVIOUS
      <3>3. Established(w)'
        BY <1>1, <3>1, <3>2, StaysEstablished DEF HandlerOK
      <3>4. handlers[g].pc \in Locked => lock' = g
        BY <1>1, <2>2, <3>1 DEF HandlerOK
      <3> QED
        BY <3>1, <3>2, <3>3, <3>4 DEF HandlerOK, Established
    <2> QED
      BY <2>1, <2>2
  <1> QED
    BY <1>2, <1>3 DEF FolderInv


\* The length of a chain is a number.
LEMMA ChainType ==
    ASSUME NEW f
    PROVE  /\ IsFiniteSet(AncestorChain(f))
           /\ Cardinality(AncestorChain(f)) \in Nat
           /\ f \notin folders => Cardinality(AncestorChain(f)) = 0
  <1>1. IsFiniteSet(0..(RecursionLimit - 1))
    BY Limits, FS_Interval
  <1>2. AncestorChain(f) \subseteq 0..(RecursionLimit - 1)
    BY DEF AncestorChain
  <1>3. IsFiniteSet(AncestorChain(f))
    BY <1>1, <1>2, FS_Subset
  <1>4. f \notin folders => AncestorChain(f) = {}
    BY DEF AncestorChain
  <1> QED
    BY <1>3, <1>4, FS_CardinalityType, FS_EmptySet

\* A new parent whose chain has at most c folders has no ancestor at distance c.
LEMMA ChainShort ==
    ASSUME FolderInv, NEW p \in folders \union {NoFolder}, NEW c \in Nat, c < RecursionLimit,
           p # NoFolder => Cardinality(AncestorChain(p)) <= c
    PROVE  Ancestor(parent, p)[c] = NoFolder
  <1>0. Tree(folders, parent) /\ RecursionLimit \in Nat
    BY Limits DEF FolderInv
  <1>1. CASE p = NoFolder
    <2>1. p \in Place /\ parent \in [Folders -> Place]
      BY <1>0, TreeChain DEF Tree
    <2>2. Ancestor(parent, p)[0] = NoFolder /\ 0 \in 0..RecursionLimit /\ c \in 0..RecursionLimit
      BY <1>0, <1>1, <2>1, AncestorDef
    <2> QED
      BY <2>1, <2>2, Roots
  <1>2. CASE p # NoFolder
    <2>1. AncestorChain(p) =
             {n \in 0..(RecursionLimit - 1) : Ancestor(parent, p)[n] # NoFolder}
      BY <1>2 DEF AncestorChain
    <2> QED
      BY <1>0, <1>2, <2>1, ChainLength
  <1> QED
    BY <1>1, <1>2

\* create accepts a parent with room for one more level.
LEMMA CheckOK ==
    ASSUME FolderInv, NEW h \in Handlers, CheckCreate(h)
    PROVE  FolderInv'
  <1>0. handlers[h] \in Handler /\ folders \subseteq Folders
    BY DEF FolderInv, TypeOK
  <1> DEFINE ok == \/ handlers[h].target = NoFolder
                   \/ /\ Cardinality(AncestorChain(handlers[h].target)) > 0
                      /\ Cardinality(AncestorChain(handlers[h].target)) + 1 <= MaxFolderDepth
  <1>1. PICK r : r = [handlers[h] EXCEPT !.pc = "insert"]
    OBVIOUS
  <1>2. /\ handlers[h].pc = "check" /\ UNCHANGED <<folders, parent, folderOf, used>>
        /\ \/ ok /\ handlers' = [handlers EXCEPT ![h] = r] /\ UNCHANGED lock
           \/ ~ok /\ EndTransaction(h)
    BY <1>1 DEF CheckCreate, Proceed
  <1>3. r \in Handler /\ r.pc = "insert" /\ r.target = handlers[h].target
    BY <1>0, <1>1 DEF Handler
  <1>4. ok => Established(r)
    <2> SUFFICES ASSUME ok PROVE Established(r)
      OBVIOUS
    <2> DEFINE p == handlers[h].target
    <2>1. Cardinality(AncestorChain(p)) \in Nat
          /\ (p \notin folders => Cardinality(AncestorChain(p)) = 0)
      BY ChainType
    <2>2. p \in folders \union {NoFolder}
      BY <2>1
    <2>3. MaxFolderDepth - 1 \in Nat /\ MaxFolderDepth - 1 < RecursionLimit
      BY Limits
    <2>4. p # NoFolder => Cardinality(AncestorChain(p)) <= MaxFolderDepth - 1
      BY <2>1, Limits
    <2>5. Ancestor(parent, p)[MaxFolderDepth - 1] = NoFolder
      <3> HIDE DEF p
      <3> QED
        BY <2>2, <2>3, <2>4, ChainShort
    <2> QED
      BY <1>3, <2>2, <2>5 DEF Established
  <1> HIDE DEF ok
  <1>5. CASE ok /\ handlers' = [handlers EXCEPT ![h] = r] /\ UNCHANGED lock
    BY <1>2, <1>3, <1>4, <1>5, ProceedOK DEF Locked
  <1>6. CASE EndTransaction(h) /\ ~(ok /\ handlers' = [handlers EXCEPT ![h] = r])
    <2>1. PICK w : w = IdleHandler
      OBVIOUS
    <2>2. w \in Handler /\ Established(w)
      BY <2>1, Idle DEF Established
    <2> QED
      BY <1>2, <1>6, <2>2, ProceedOK DEF Locked
  <1> QED
    BY <1>2, <1>5, <1>6

\* It still has it when the row is inserted.
LEMMA InsertOK ==
    ASSUME FolderInv, NEW h \in Handlers, NEW f \in Folders, InsertFolder(h, f)
    PROVE  FolderInv'
  <1>0. PICK p : p = handlers[h].target
    OBVIOUS
  <1>1. /\ handlers[h].pc = "insert" /\ handlers[h].pc \in Locked /\ f \notin used
        /\ used' = used \union {f} /\ folders \subseteq used /\ used \subseteq Folders
        /\ EndTransaction(h) /\ folderOf' = folderOf /\ f \in Folders \ folders
    BY DEF InsertFolder, FolderInv, TypeOK, Locked
  <1>2. /\ Tree(folders, parent)
        /\ p \in folders \union {NoFolder}
        /\ Ancestor(parent, p)[MaxFolderDepth - 1] = NoFolder
    BY <1>0, <1>1 DEF FolderInv, HandlerOK, Established
  <1>3. folders' = folders \union {f} /\ parent' = [parent EXCEPT ![f] = p]
    BY <1>0, <1>2 DEF InsertFolder
  <1>4. Tree(folders', parent')
    BY <1>1, <1>2, <1>3, InsertKeepsTree
  <1>5. /\ lock' \in Handlers \union {NoHandler}
        /\ handlers' \in [Handlers -> Handler]
        /\ \A g \in Handlers : HandlerOK(g)'
    BY <1>1, EndOK
  <1>6. TypeOK'
    BY <1>1, <1>3, <1>4, <1>5 DEF FolderInv, TypeOK, Tree, Place
  <1>7. DocumentsPlaced'
    BY <1>1, <1>3 DEF FolderInv, DocumentsPlaced
  <1> QED
    BY <1>4, <1>5, <1>6, <1>7 DEF FolderInv

\* update and remove read a row that is still there when they use it.
LEMMA ReadFolderOK ==
    ASSUME FolderInv, NEW h \in Handlers, ReadFolder(h)
    PROVE  FolderInv'
  <1>0. /\ handlers[h] \in Handler /\ folders \subseteq Folders
        /\ parent \in [Folders -> Folders \union {NoFolder}]
    BY DEF FolderInv, TypeOK
  <1>1. handlers[h].pc = "read" /\ handlers[h].pc \in Locked
        /\ UNCHANGED <<folders, parent, folderOf, used>>
    BY DEF ReadFolder, Locked
  <1>2. PICK f : f = handlers[h].id
    OBVIOUS
  <1>3. PICK r1 : r1 = [handlers[h] EXCEPT !.pc = "delete", !.current = parent[f]]
    OBVIOUS
  <1>4. PICK r2 : r2 = [handlers[h] EXCEPT !.pc = "chain"]
    OBVIOUS
  <1>5. \/ f \in folders /\ handlers' = [handlers EXCEPT ![h] = r1] /\ UNCHANGED lock
        \/ f \in folders /\ handlers' = [handlers EXCEPT ![h] = r2] /\ UNCHANGED lock
        \/ EndTransaction(h)
    BY <1>2, <1>3, <1>4 DEF ReadFolder, Proceed
  <1>6. CASE f \in folders /\ handlers' = [handlers EXCEPT ![h] = r1] /\ UNCHANGED lock
    <2>1. r1 \in Handler /\ r1.pc = "delete" /\ r1.id = f /\ r1.current = parent[f]
      BY <1>0, <1>2, <1>3, <1>6 DEF Handler
    <2>2. Established(r1)
      BY <1>6, <2>1 DEF Established
    <2> QED
      BY <1>1, <1>6, <2>1, <2>2, ProceedOK
  <1>7. CASE f \in folders /\ handlers' = [handlers EXCEPT ![h] = r2] /\ UNCHANGED lock
    <2>1. r2 \in Handler /\ r2.pc = "chain" /\ r2.id = f
      BY <1>0, <1>2, <1>4 DEF Handler
    <2>2. Established(r2)
      BY <1>7, <2>1 DEF Established
    <2> QED
      BY <1>1, <1>7, <2>1, <2>2, ProceedOK
  <1>8. CASE EndTransaction(h)
    <2>1. PICK w : w = IdleHandler
      OBVIOUS
    <2>2. w \in Handler /\ Established(w)
      BY <2>1, Idle DEF Established
    <2> QED
      BY <1>1, <1>8, <2>2, ProceedOK
  <1> QED
    BY <1>5, <1>6, <1>7, <1>8


\* The first half of assertValidMove: the folder is not above its new parent.
LEMMA ReadChainOK ==
    ASSUME FolderInv, NEW h \in Handlers, ReadChain(h)
    PROVE  FolderInv'
  <1>0. handlers[h] \in Handler /\ folders \subseteq Folders /\ Tree(folders, parent)
    BY DEF FolderInv, TypeOK
  <1>1. handlers[h].pc = "chain" /\ handlers[h].pc \in Locked
        /\ UNCHANGED <<folders, parent, folderOf, used>>
    BY DEF ReadChain, Locked
  <1>2. PICK f : f = handlers[h].id
    OBVIOUS
  <1>3. PICK p : p = handlers[h].target
    OBVIOUS
  <1>4. PICK n : n = Cardinality(AncestorChain(p))
    OBVIOUS
  <1>5. PICK r : r = [handlers[h] EXCEPT !.pc = "height", !.depth = n]
    OBVIOUS
  <1>6. \/ /\ p = NoFolder \/ (p \in folders /\ ~InChain(f, p))
           /\ handlers' = [handlers EXCEPT ![h] = r] /\ UNCHANGED lock
        \/ EndTransaction(h)
    BY <1>2, <1>3, <1>4, <1>5 DEF ReadChain, Proceed
  <1>7. CASE /\ p = NoFolder \/ (p \in folders /\ ~InChain(f, p))
             /\ handlers' = [handlers EXCEPT ![h] = r] /\ UNCHANGED lock
    <2>1. r \in Handler /\ r.pc = "height" /\ r.id = f /\ r.target = p /\ r.depth = n
      <3>1. n \in Nat
        BY <1>4, ChainType
      <3> QED
        BY <1>0, <1>2, <1>3, <1>5, <3>1 DEF Handler
    <2>2. f \in folders /\ f # NoFolder /\ p \in folders \union {NoFolder}
      BY <1>0, <1>1, <1>2, <1>7, Limits DEF FolderInv, HandlerOK, Established
    <2>3. ASSUME NEW k \in 0..RecursionLimit
          PROVE  Ancestor(parent, p)[k] # f
      <3>1. CASE p = NoFolder
        <4>1. Ancestor(parent, p)[0] = NoFolder /\ 0 \in 0..RecursionLimit /\ k \in 0..RecursionLimit
              /\ p \in Place /\ parent \in [Folders -> Place]
          BY <1>0, <3>1, AncestorDef, Limits DEF Tree, Place
        <4> QED
          BY <2>2, <4>1, Roots
      <3>2. CASE p \in folders /\ ~InChain(f, p) /\ k \in 0..(RecursionLimit - 1)
        BY <2>2, <3>2 DEF InChain, AncestorChain
      <3>3. CASE k = RecursionLimit
        <4>1. k \in MaxFolderDepth..RecursionLimit
          BY <3>3, Limits
        <4> QED
          BY <1>0, <2>2, <4>1, TreeChain
      <3> QED
        BY <1>7, <3>1, <3>2, <3>3, Limits
    <2>4. Established(r)
      BY <1>4, <2>1, <2>2, <2>3 DEF Established
    <2> QED
      BY <1>1, <1>7, <2>1, <2>4, ProceedOK
  <1>8. CASE EndTransaction(h)
    <2>1. PICK w : w = IdleHandler
      OBVIOUS
    <2>2. w \in Handler /\ Established(w)
      BY <2>1, Idle DEF Established
    <2> QED
      BY <1>1, <1>8, <2>2, ProceedOK
  <1> QED
    BY <1>6, <1>7, <1>8

\* A folder k levels below f makes the subtree of f at least k + 1 high.
LEMMA HeightCounts ==
    ASSUME FolderInv, NEW f \in folders, NEW g \in folders, NEW k \in 0..(MaxFolderDepth - 1),
           Ancestor(parent, g)[k] = f
    PROVE  SubtreeHeight(f) \in Nat /\ SubtreeHeight(f) >= k + 1
  <1> DEFINE R == RecursionLimit
             levels == {n \in 0..(R - 1) : \E x \in folders : Ancestor(parent, x)[n] = f}
  <1>0. /\ R \in Nat /\ MaxFolderDepth \in Nat /\ MaxFolderDepth < R /\ Tree(folders, parent)
        /\ parent \in [Folders -> Place] /\ g \in Place /\ f # NoFolder /\ k \in 0..R
    BY Limits DEF FolderInv, Tree, Place
  <1>1. 0..k \subseteq levels
    <2> SUFFICES ASSUME NEW j \in 0..k PROVE \E x \in folders : Ancestor(parent, x)[j] = f
      BY <1>0
    <2>1. k - j \in 0..R /\ j \in 0..(R - (k - j)) /\ (k - j) + j = k /\ k \in (k - j)..R
      BY <1>0
    <2>2. Ancestor(parent, g)[k - j] # NoFolder
      BY <1>0, <2>1, Roots
    <2>3. Ancestor(parent, g)[k - j] \in folders
      BY <1>0, <2>1, <2>2, TreeChain
    <2>4. Ancestor(parent, g)[(k - j) + j] = Ancestor(parent, Ancestor(parent, g)[k - j])[j]
      BY <1>0, <2>1, Compose
    <2> QED
      BY <2>1, <2>3, <2>4
  <1>2. IsFiniteSet(0..(R - 1)) /\ Cardinality(0..k) = k + 1
    BY <1>0, FS_Interval
  <1>3. IsFiniteSet(levels)
    BY <1>2, FS_Subset
  <1>4. Cardinality(0..k) <= Cardinality(levels) /\ Cardinality(levels) \in Nat
    BY <1>1, <1>3, FS_Subset, FS_CardinalityType
  <1> QED
    BY <1>2, <1>4 DEF SubtreeHeight

\* The second half: the subtree fits below the new parent.
LEMMA ReadHeightOK ==
    ASSUME FolderInv, NEW h \in Handlers, ReadHeight(h)
    PROVE  FolderInv'
  <1>0. handlers[h] \in Handler /\ folders \subseteq Folders /\ Tree(folders, parent)
    BY DEF FolderInv, TypeOK
  <1>1. handlers[h].pc = "height" /\ handlers[h].pc \in Locked
        /\ UNCHANGED <<folders, parent, folderOf, used>>
    BY DEF ReadHeight, Locked
  <1>2. PICK f : f = handlers[h].id
    OBVIOUS
  <1>3. PICK p : p = handlers[h].target
    OBVIOUS
  <1>4. PICK r : r = [handlers[h] EXCEPT !.pc = "move"]
    OBVIOUS
  <1>5. /\ f \in folders /\ p \in folders \union {NoFolder}
        /\ \A k \in 0..RecursionLimit : Ancestor(parent, p)[k] # f
        /\ handlers[h].depth = Cardinality(AncestorChain(p))
    BY <1>1, <1>2, <1>3 DEF FolderInv, HandlerOK, Established
  <1>6. \/ /\ Cardinality(AncestorChain(p)) + SubtreeHeight(f) <= MaxFolderDepth
           /\ handlers' = [handlers EXCEPT ![h] = r] /\ UNCHANGED lock
        \/ EndTransaction(h)
    BY <1>2, <1>4, <1>5 DEF ReadHeight, Proceed
  <1>7. CASE /\ Cardinality(AncestorChain(p)) + SubtreeHeight(f) <= MaxFolderDepth
             /\ handlers' = [handlers EXCEPT ![h] = r] /\ UNCHANGED lock
    <2>1. r \in Handler /\ r.pc = "move" /\ r.id = f /\ r.target = p
      BY <1>0, <1>2, <1>3, <1>4 DEF Handler
    <2>2. ASSUME NEW g \in folders, NEW k \in 0..(MaxFolderDepth - 1),
                 Ancestor(parent, g)[k] = f
          PROVE  Ancestor(parent, p)[MaxFolderDepth - k - 1] = NoFolder
      <3>1. SubtreeHeight(f) \in Nat /\ SubtreeHeight(f) >= k + 1
        BY <1>5, <2>2, HeightCounts
      <3>2. Cardinality(AncestorChain(p)) \in Nat
        BY ChainType
      <3>3. MaxFolderDepth - k - 1 \in Nat /\ MaxFolderDepth - k - 1 < RecursionLimit
        BY Limits
      <3>4. Cardinality(AncestorChain(p)) <= MaxFolderDepth - k - 1
        BY <1>7, <3>1, <3>2, Limits
      <3> QED
        BY <1>5, <3>3, <3>4, ChainShort
    <2>3. Established(r)
      BY <1>5, <2>1, <2>2 DEF Established, MoveFits
    <2> QED
      BY <1>1, <1>7, <2>1, <2>3, ProceedOK
  <1>8. CASE EndTransaction(h)
    <2>1. PICK w : w = IdleHandler
      OBVIOUS
    <2>2. w \in Handler /\ Established(w)
      BY <2>1, Idle DEF Established
    <2> QED
      BY <1>1, <1>8, <2>2, ProceedOK
  <1> QED
    BY <1>6, <1>7, <1>8

\* The move writes what assertValidMove accepted.
LEMMA MoveOK ==
    ASSUME FolderInv, NEW h \in Handlers, MoveFolder(h)
    PROVE  FolderInv'
  <1>0. PICK f : f = handlers[h].id
    OBVIOUS
  <1>1. PICK p : p = handlers[h].target
    OBVIOUS
  <1>2. /\ handlers[h].pc = "move" /\ handlers[h].pc \in Locked
        /\ EndTransaction(h) /\ UNCHANGED <<folders, folderOf, used>>
    BY DEF MoveFolder, Locked
  <1>3. /\ Tree(folders, parent) /\ f \in folders /\ p \in folders \union {NoFolder}
        /\ MoveFits(folders, parent, f, p)
    BY <1>0, <1>1, <1>2 DEF FolderInv, HandlerOK, Established
  <1>4. parent' = [parent EXCEPT ![f] = p]
    BY <1>0, <1>1, <1>3 DEF MoveFolder
  <1>5. Tree(folders', parent')
    BY <1>2, <1>3, <1>4, MoveKeepsTree
  <1>6. /\ lock' \in Handlers \union {NoHandler}
        /\ handlers' \in [Handlers -> Handler]
        /\ \A g \in Handlers : HandlerOK(g)'
    BY <1>2, EndOK
  <1>7. TypeOK'
    BY <1>2, <1>5, <1>6 DEF FolderInv, TypeOK, Tree, Place
  <1>8. DocumentsPlaced'
    BY <1>2 DEF FolderInv, DocumentsPlaced
  <1> QED
    BY <1>5, <1>6, <1>7, <1>8 DEF FolderInv

\* What a deletion does to the hierarchy, under the invariant.
LEMMA DeleteEffect ==
    ASSUME FolderInv, NEW h \in Handlers, DeleteFolder(h)
    PROVE  \E f \in folders :
              /\ folders' = folders \ {f} /\ parent' = Removed(parent, f)
              /\ folderOf' = [d \in Docs |-> IF folderOf[d] = f THEN NoFolder ELSE folderOf[d]]
  <1>1. /\ handlers[h].id \in folders
        /\ handlers[h].current = parent[handlers[h].id]
    BY DEF FolderInv, HandlerOK, Established, DeleteFolder
  <1> QED
    BY <1>1 DEF DeleteFolder, Removed

\* The deletion gives the children to the parent as read.
LEMMA DeleteOK ==
    ASSUME FolderInv, NEW h \in Handlers, DeleteFolder(h)
    PROVE  FolderInv'
  <1>1. PICK f \in folders :
           /\ folders' = folders \ {f} /\ parent' = Removed(parent, f)
           /\ folderOf' = [d \in Docs |-> IF folderOf[d] = f THEN NoFolder ELSE folderOf[d]]
    BY DeleteEffect
  <1>2. handlers[h].pc \in Locked /\ EndTransaction(h) /\ UNCHANGED used
    BY DEF DeleteFolder, Locked
  <1>3. Tree(folders', parent')
    BY <1>1, RemoveKeepsTree DEF FolderInv
  <1>4. /\ lock' \in Handlers \union {NoHandler}
        /\ handlers' \in [Handlers -> Handler]
        /\ \A g \in Handlers : HandlerOK(g)'
    BY <1>2, EndOK
  <1>5. folderOf' \in [Docs -> Folders \union {NoFolder}]
    BY <1>1 DEF FolderInv, TypeOK
  <1>6. TypeOK'
    BY <1>1, <1>2, <1>3, <1>4, <1>5 DEF FolderInv, TypeOK, Tree, Place
  <1>7. DocumentsPlaced'
    BY <1>1 DEF FolderInv, DocumentsPlaced
  <1> QED
    BY <1>3, <1>4, <1>6, <1>7 DEF FolderInv

-----------------------------------------------------------------------------
(* The theorems *)

\* Every step of every request keeps the invariant.
LEMMA FolderStep == FolderInv /\ [Next]_vars => FolderInv'
  <1> SUFFICES ASSUME FolderInv, [Next]_vars PROVE FolderInv'
    OBVIOUS
  <1>1. CASE UNCHANGED vars
    <2>1. TypeOK' /\ Tree(folders, parent)' /\ DocumentsPlaced'
      BY <1>1 DEF vars, FolderInv, TypeOK, Tree, DocumentsPlaced
    <2>2. ASSUME NEW h \in Handlers
          PROVE  HandlerOK(h)'
      <3>1. PICK w : w = handlers[h]
        OBVIOUS
      <3>2. Established(w)'
        BY <1>1, <3>1, StaysEstablished DEF vars, FolderInv, HandlerOK
      <3> QED
        BY <1>1, <3>1, <3>2 DEF vars, FolderInv, HandlerOK, Established
    <2> QED
      BY <2>1, <2>2 DEF FolderInv
  <1>2. ASSUME NEW h \in Handlers, HandlerStep(h)
        PROVE  FolderInv'
    BY <1>2, LockOK, CheckOK, InsertOK, ReadFolderOK, ReadChainOK, ReadHeightOK, MoveOK,
       DeleteOK, PlaceOK DEF HandlerStep
  <1> QED
    BY <1>1, <1>2, BeginsOK, AbortOK DEF Next

\* The invariant holds in every state of every behaviour.
THEOREM FolderInvariance == Spec => []FolderInv
  BY InitOK, FolderStep, PTL DEF Spec

\* TypeOK: every variable of the folder model holds what the code can put into it.
THEOREM FoldersTyped == Spec => []TypeOK
  <1>1. FolderInv => TypeOK
    BY DEF FolderInv
  <1> QED
    BY <1>1, FolderInvariance, PTL

\* DepthBounded: whatever creations, moves and deletions of FoldersService
\* interleave, over any number of requests and any depth limit, every folder
\* reaches the root within MAX_FOLDER_DEPTH levels, so there is no cycle.
THEOREM FoldersReachTheRoot == Spec => []DepthBounded
  <1>1. FolderInv => DepthBounded
    BY DEF FolderInv, Tree, DepthBounded
  <1> QED
    BY <1>1, FolderInvariance, PTL

\* NothingDangles: no parent and no document refers to a folder that is gone, though
\* documents are placed without the lock.
THEOREM NoDanglingReference == Spec => []NothingDangles
  <1>1. FolderInv => NothingDangles
    BY DEF FolderInv, Tree, DocumentsPlaced, NothingDangles
  <1> QED
    BY <1>1, FolderInvariance, PTL


\* Folders go by deletion only.
LEMMA OnlyDeletionShrinks ==
    ASSUME FolderInv, [Next]_vars, folders' # folders, folders' \subseteq folders
    PROVE  \E h \in Handlers : DeleteFolder(h)
  <1>1. PICK h \in Handlers : HandlerStep(h)
    BY DEF Next, vars, BeginCreate, BeginUpdate, BeginPlace, BeginRemove, Begin, Abort
  <1>2. ASSUME NEW f \in Folders, InsertFolder(h, f)
        PROVE  FALSE
    BY <1>2 DEF InsertFolder
  <1> QED
    BY <1>1, <1>2 DEF HandlerStep, LockUserHierarchy, CheckCreate, ReadFolder, ReadChain,
       ReadHeight, MoveFolder, PlaceDocument

\* DeletionKeepsOrder: a deletion (FoldersService.remove) that gives the children
\* to the parent it read earlier in the same transaction keeps every other folder
\* below exactly the folders it was below, and every document of them in place.
THEOREM DeletionsKeepTheOrder == Spec => DeletionKeepsOrder
  <1>1. ASSUME FolderInv, [Next]_vars, folders' # folders, folders' \subseteq folders
        PROVE  /\ \A f, g \in folders' : Below(parent, g, f) <=> Below(parent', g, f)
               /\ \A d \in Docs : folderOf[d] \in folders' => folderOf'[d] = folderOf[d]
    <2>1. PICK h \in Handlers : DeleteFolder(h)
      BY <1>1, OnlyDeletionShrinks
    <2>2. PICK f \in folders :
             /\ folders' = folders \ {f} /\ parent' = Removed(parent, f)
             /\ folderOf' = [d \in Docs |-> IF folderOf[d] = f THEN NoFolder ELSE folderOf[d]]
      BY <1>1, <2>1, DeleteEffect
    <2>3. Tree(folders, parent)
      BY <1>1 DEF FolderInv
    <2>4. ASSUME NEW x \in folders', NEW g \in folders'
          PROVE  Below(parent, g, x) <=> Below(parent', g, x)
      <3>1. x \in folders \ {f} /\ g \in folders \ {f}
        BY <2>2
      <3>2. Below(parent, g, x) <=> Below(Removed(parent, f), g, x)
        BY <2>3, <3>1, RemoveKeepsOrder
      <3> QED
        BY <2>2, <3>2
    <2> QED
      BY <2>2, <2>4
  <1>2. ASSUME FolderInv, [Next]_vars
        PROVE  [folders' # folders /\ folders' \subseteq folders =>
                  /\ \A f, g \in folders' : Below(parent, g, f) <=> Below(parent', g, f)
                  /\ \A d \in Docs : folderOf[d] \in folders' => folderOf'[d] = folderOf[d]]_vars
    BY <1>1, <1>2
  <1> QED
    BY <1>2, FolderInvariance, PTL DEF Spec, DeletionKeepsOrder


=============================================================================
