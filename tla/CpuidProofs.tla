----------------------------- MODULE CpuidProofs -----------------------------
(***************************************************************************)
(* Proof that the search of CPUID leaf 2 ends with the closest descriptor, *)
(* whatever is asked of it.                                                *)
(*                                                                         *)
(* The search is a recursive function over the rows of the table.  What it *)
(* computes is shown by induction, stated for sets: of the rows up to      *)
(* which the search is not right there would be a first.                   *)
(***************************************************************************)
EXTENDS Cpuid, SequenceTheorems, WellFoundedInduction, TLAPS

(***************************************************************************)
(* Induction over a range of numbers.                                      *)
(***************************************************************************)

\* Every set of natural numbers has a least one.
LEMMA LeastNumber ==
  ASSUME NEW T \in SUBSET Nat, T # {}
  PROVE  \E n \in T : \A m \in T : n <= m
  <1> DEFINE R == {ss \in Nat \X Nat : ss[1] < ss[2]}
  <1>1. IsWellFoundedOn(R, Nat)
    BY NatLessThanWellFounded, Zenon DEF OpToRel
  <1>2. \A x, y \in Nat : y < x => <<y, x>> \in R
    OBVIOUS
  <1> HIDE DEF R
  <1>3. PICK x \in T : \A y \in T : ~ (<<y, x>> \in R)
    BY <1>1, WFMin
  <1>4. \A y \in T : ~ (y < x)
    BY <1>2, <1>3
  <1>5. \A y \in T : x <= y
    BY <1>4
  <1> QED
    BY <1>5

\* A set that has 0, and each number up to n whose predecessor it has, has all
\* of them.
LEMMA Induction ==
  ASSUME NEW n \in Nat, NEW T, 0 \in T, \A i \in 1 .. n : i - 1 \in T => i \in T
  PROVE  0 .. n \subseteq T
  <1> DEFINE bad == (0 .. n) \ T
  <1> SUFFICES ASSUME bad # {} PROVE FALSE
    OBVIOUS
  <1>1. bad \in SUBSET Nat
    OBVIOUS
  <1>2. PICK i \in bad : \A j \in bad : i <= j
    BY <1>1, LeastNumber
  <1>3. i \in 1 .. n /\ i - 1 \in 0 .. n
    BY <1>2
  <1>4. i - 1 \in T
    BY <1>2, <1>3
  <1> QED
    BY <1>2, <1>3, <1>4

-----------------------------------------------------------------------------
(***************************************************************************)
(* The search as a function.                                               *)
(***************************************************************************)

RowData == Nat \X Nat \X Nat \X Nat
Types   == {"TLB", "CACHE", "PREFETCH"}
Levels  == {"INST", "DATA", "L1_INST", "L1_DATA", "L2", "L2_2LINESECTOR",
            "L3_2LINESECTOR", "L3", "NA"}
RowSet  == [value : Nat, type : Types, level : Levels, ways : Nat, size : Nat,
            entries : Nat]

\* Rows of one type and level are rows of the table.
LEMMA SomeRows ==
  ASSUME NEW type \in Types, NEW level \in Levels, NEW ds \in Seq(RowData)
  PROVE  Rows(type, level, ds) \in Seq(RowSet)
  <1>1. \A i \in 1 .. Len(ds) : ds[i] \in RowData
    OBVIOUS
  <1>2. \A d \in RowData : Row(type, level, d) \in RowSet
    BY DEF Row, RowSet, RowData
  <1>3. Len(ds) \in Nat
    OBVIOUS
  <1>4. Rows(type, level, ds) \in [1 .. Len(ds) -> RowSet]
    BY <1>1, <1>2, Zenon DEF Rows
  <1> QED
    BY <1>3, <1>4, SeqDef, Zenon

\* The table is a sequence of rows.
LEMMA TableRows == mCacheDescriptorMap \in Seq(RowSet)
  <1> USE DEF RowData, SMALL, LARGE, FULLY
  <1>1. InstTlb \in Seq(RowData)
    BY DEF InstTlb
  <1>2. DataTlb \in Seq(RowData)
    BY DEF DataTlb
  <1>3. L1Inst \in Seq(RowData)
    BY DEF L1Inst
  <1>4. L1Data \in Seq(RowData)
    BY DEF L1Data
  <1>5. L2 \in Seq(RowData)
    BY DEF L2
  <1>6. L2TwoLines \in Seq(RowData)
    BY DEF L2TwoLines
  <1>7. L3TwoLines \in Seq(RowData)
    BY DEF L3TwoLines
  <1>8. L3 \in Seq(RowData)
    BY DEF L3
  <1>9. Prefetch \in Seq(RowData)
    BY DEF Prefetch
  <1> HIDE DEF RowData, SMALL, LARGE, FULLY
  <1>10. \A t \in Types, l \in Levels : \A ds \in Seq(RowData) : Rows(t, l, ds) \in Seq(RowSet)
    BY SomeRows
  <1>11. Rows("TLB", "INST", InstTlb) \in Seq(RowSet)
    BY <1>1, <1>10 DEF Types, Levels
  <1>12. Rows("TLB", "DATA", DataTlb) \in Seq(RowSet)
    BY <1>2, <1>10 DEF Types, Levels
  <1>13. Rows("CACHE", "L1_INST", L1Inst) \in Seq(RowSet)
    BY <1>3, <1>10 DEF Types, Levels
  <1>14. Rows("CACHE", "L1_DATA", L1Data) \in Seq(RowSet)
    BY <1>4, <1>10 DEF Types, Levels
  <1>15. Rows("CACHE", "L2", L2) \in Seq(RowSet)
    BY <1>5, <1>10 DEF Types, Levels
  <1>16. Rows("CACHE", "L2_2LINESECTOR", L2TwoLines) \in Seq(RowSet)
    BY <1>6, <1>10 DEF Types, Levels
  <1>17. Rows("CACHE", "L3_2LINESECTOR", L3TwoLines) \in Seq(RowSet)
    BY <1>7, <1>10 DEF Types, Levels
  <1>18. Rows("CACHE", "L3", L3) \in Seq(RowSet)
    BY <1>8, <1>10 DEF Types, Levels
  <1>19. Rows("PREFETCH", "NA", Prefetch) \in Seq(RowSet)
    BY <1>9, <1>10 DEF Types, Levels
  <1>20. \A s, t \in Seq(RowSet) : s \o t \in Seq(RowSet)
    OBVIOUS
  <1> QED
    BY <1>11, <1>12, <1>13, <1>14, <1>15, <1>16, <1>17, <1>18, <1>19, <1>20, Zenon DEF mCacheDescriptorMap

-----------------------------------------------------------------------------
(***************************************************************************)
(* The search as a function.                                               *)
(***************************************************************************)

N == Len(mCacheDescriptorMap)

LEMMA TableRow == N \in Nat /\ \A i \in 1 .. N : mCacheDescriptorMap[i] \in RowSet
  BY TableRows DEF N

\* An iteration keeps the row found or takes the one it looks at.
LEMMA ScanTakesOrKeeps ==
  ASSUME NEW q, NEW i, NEW d
  PROVE  Scan(q, i, d) \in {i, d}
  BY DEF Scan

\* g is the search up to row m.
SearchUpTo(q, m, g) ==
  /\ g \in [0 .. m -> 0 .. N]
  /\ g[0] = NULL
  /\ \A i \in 1 .. m : g[i] = Scan(q, i, g[i - 1])

LEMMA SearchExists ==
  ASSUME NEW q
  PROVE  \E g : SearchUpTo(q, N, g)
  <1> DEFINE T == {m \in 0 .. N : \E g : SearchUpTo(q, m, g)}
  <1>1. 0 \in T
    <2>1. SearchUpTo(q, 0, [i \in 0 .. 0 |-> 0])
      BY TableRow DEF SearchUpTo, NULL
    <2> QED
      BY <2>1, TableRow
  <1>2. ASSUME NEW i \in 1 .. N, i - 1 \in T PROVE i \in T
    <2>1. PICK g : SearchUpTo(q, i - 1, g)
      BY <1>2
    <2>2. /\ g \in [0 .. i - 1 -> 0 .. N] /\ g[0] = 0
          /\ \A j \in 1 .. i - 1 : g[j] = Scan(q, j, g[j - 1])
      BY <2>1 DEF SearchUpTo, NULL
    <2> DEFINE found == Scan(q, i, g[i - 1])
    <2>3. found \in 0 .. N
      BY <2>2, ScanTakesOrKeeps, TableRow
    <2> HIDE DEF found
    <2> DEFINE h == [j \in 0 .. i |-> IF j = i THEN found ELSE g[j]]
    <2>4. h \in [0 .. i -> 0 .. N] /\ h[0] = 0
      BY <2>2, <2>3, TableRow
    <2>5. ASSUME NEW j \in 1 .. i PROVE h[j] = Scan(q, j, h[j - 1])
      <3>1. CASE j = i
        <4>1. h[j] = found /\ h[j - 1] = g[i - 1]
          BY <3>1, TableRow
        <4> QED
          BY <3>1, <4>1 DEF found
      <3>2. CASE j # i
        <4>1. h[j] = g[j] /\ h[j - 1] = g[j - 1] /\ j \in 1 .. i - 1
          BY <3>2, TableRow
        <4> QED
          BY <4>1, <2>2
      <3> QED
        BY <3>1, <3>2
    <2>6. SearchUpTo(q, i, h)
      BY <2>4, <2>5, Zenon DEF SearchUpTo, NULL
    <2> HIDE DEF h
    <2>7. \E g1 : SearchUpTo(q, i, g1)
      BY <2>6, Zenon
    <2> QED
      BY <2>7
  <1>3. 0 .. N \subseteq T
    <2> HIDE DEF T
    <2> QED
      BY <1>1, <1>2, TableRow, Induction
  <1>4. N \in T
    BY <1>3, TableRow
  <1> QED
    BY <1>4

\* The search is the function its recursion describes.
LEMMA SearchIsRecursive ==
  ASSUME NEW q
  PROVE  SearchUpTo(q, N, Search(q))
  <1> DEFINE P(g) == g = [i \in 0 .. Len(mCacheDescriptorMap) |->
                            IF i = 0 THEN NULL ELSE Scan(q, i, g[i - 1])]
  <1>1. Search(q) = CHOOSE g : P(g)
    BY Zenon DEF Search
  <1>2. PICK g : SearchUpTo(q, N, g)
    BY SearchExists
  <1>3. P(g)
    <2> DEFINE h == [i \in 0 .. N |-> IF i = 0 THEN NULL ELSE Scan(q, i, g[i - 1])]
    <2>1. \A i \in 0 .. N : g[i] = h[i]
      BY <1>2, TableRow DEF SearchUpTo
    <2>2. g \in [0 .. N -> 0 .. N]
      BY <1>2 DEF SearchUpTo
    <2>3. g = h
      BY <2>1, <2>2
    <2> QED
      BY <2>3, Zenon DEF N
  <1>4. P(Search(q))
    <2> HIDE DEF P
    <2> QED
      BY <1>1, <1>3, Zenon
  <1>5. \A i \in 0 .. N : Search(q)[i] = IF i = 0 THEN NULL ELSE Scan(q, i, Search(q)[i - 1])
    BY <1>4, Zenon DEF N
  <1>6. Search(q)[0] = NULL /\ \A i \in 1 .. N : Search(q)[i] = Scan(q, i, Search(q)[i - 1])
    BY <1>5, TableRow
  <1> DEFINE T == {m \in 0 .. N : Search(q)[m] \in 0 .. N}
  <1>7. 0 \in T
    BY <1>6, TableRow DEF NULL
  <1>8. ASSUME NEW i \in 1 .. N, i - 1 \in T PROVE i \in T
    BY <1>6, <1>8, ScanTakesOrKeeps, TableRow
  <1>9. \A i \in 0 .. N : Search(q)[i] \in 0 .. N
    <2>1. 0 .. N \subseteq T
      <3> HIDE DEF T
      <3> QED
        BY <1>7, <1>8, TableRow, Induction
    <2> QED
      BY <2>1
  <1>10. Search(q) = [i \in 0 .. N |-> Search(q)[i]]
    <2>1. Search(q) = [i \in 0 .. N |-> IF i = 0 THEN NULL ELSE Scan(q, i, Search(q)[i - 1])]
      BY <1>4, Zenon DEF N
    <2> QED
      BY <2>1, <1>5, Zenon
  <1>11. Search(q) \in [0 .. N -> 0 .. N]
    BY <1>9, <1>10, Zenon
  <1> QED
    BY <1>6, <1>11, Zenon DEF SearchUpTo

-----------------------------------------------------------------------------
(***************************************************************************)
(* What it finds.                                                          *)
(***************************************************************************)

\* What rows that fit are compared by.
Key(q, w) == IF q.type = "TLB" THEN w.entries ELSE w.size

\* Row d is the best of the first m rows.
BestOf(q, m, d) ==
  \/ d = NULL /\ \A j \in 1 .. m : ~ Fits(mCacheDescriptorMap[j], q)
  \/ /\ d \in 1 .. m /\ Fits(mCacheDescriptorMap[d], q)
     /\ \A j \in 1 .. m : Fits(mCacheDescriptorMap[j], q) =>
          Key(q, mCacheDescriptorMap[j]) <= Key(q, mCacheDescriptorMap[d])

\* No row that fits is larger than an exact match.
LEMMA ExactIsBest ==
  ASSUME NEW q, NEW w \in RowSet, NEW d \in RowSet, Fits(w, q), Exact(d, q)
  PROVE  Key(q, w) <= Key(q, d)
  <1>1. w.size \in Nat /\ w.entries \in Nat /\ d.size \in Nat /\ d.entries \in Nat
    BY DEF RowSet
  <1>2. d.size = q.size /\ d.entries = q.entries
    BY DEF Exact
  <1>3. CASE q.type = "TLB"
    <2>1. w.entries <= q.entries
      BY <1>3 DEF Fits
    <2> QED
      BY <1>1, <1>2, <1>3, <2>1 DEF Key
  <1>4. CASE q.type = "CACHE"
    <2>1. w.size <= q.size
      BY <1>4 DEF Fits
    <2> QED
      BY <1>1, <1>2, <1>4, <2>1 DEF Key
  <1>5. CASE q.type # "TLB" /\ q.type # "CACHE"
    <2>1. w.size = q.size
      BY <1>5 DEF Fits, Exact
    <2> QED
      BY <1>1, <1>2, <1>5, <2>1 DEF Key
  <1> QED
    BY <1>3, <1>4, <1>5

\* Rows that fit differ in what they are compared by only, so that taking the
\* row that is larger in size or entries is taking the larger by this.
LEMMA BetterIsLarger ==
  ASSUME NEW q, NEW w \in RowSet, NEW d \in RowSet, Fits(w, q), Fits(d, q)
  PROVE  Better(w, d) <=> Key(q, w) > Key(q, d)
  <1>1. w.size \in Nat /\ w.entries \in Nat /\ d.size \in Nat /\ d.entries \in Nat
    BY DEF RowSet
  <1>2. CASE q.type = "TLB"
    <2>1. w.size = d.size
      BY <1>2 DEF Fits
    <2> QED
      BY <1>1, <1>2, <2>1 DEF Key, Better
  <1>3. CASE q.type # "TLB"
    <2>1. w.entries = d.entries
      BY <1>3 DEF Fits, Exact
    <2> QED
      BY <1>1, <1>3, <2>1 DEF Key, Better
  <1> QED
    BY <1>2, <1>3

\* An iteration keeps the best of the rows it has seen.
LEMMA ScanKeepsBest ==
  ASSUME NEW q, NEW i \in 1 .. N, NEW d, BestOf(q, i - 1, d)
  PROVE  BestOf(q, i, Scan(q, i, d))
  <1> DEFINE map == mCacheDescriptorMap
             S   == Scan(q, i, d)
  <1>1. \A j \in 1 .. i : /\ map[j] \in RowSet
                          /\ Key(q, map[j]) \in Nat
    <2>1. \A j \in 1 .. i : map[j] \in RowSet
      BY TableRow
    <2>2. \A w \in RowSet : w.size \in Nat /\ w.entries \in Nat
      BY DEF RowSet
    <2> QED
      BY <2>1, <2>2 DEF Key
  <1>2. \A j \in 1 .. i : j = i \/ j \in 1 .. i - 1
    BY TableRow
  <1>3. i \in 1 .. i /\ \A j \in 1 .. i - 1 : j \in 1 .. i /\ j # NULL
    BY TableRow DEF NULL
  <1>4. CASE ~ Fits(map[i], q)
    <2>1. S = d
      BY <1>4 DEF Scan
    <2> QED
      BY <1>2, <1>3, <1>4, <2>1, Zenon DEF BestOf
  <1>5. CASE Fits(map[i], q) /\ d = NULL
    <2>1. S = i
      BY <1>5 DEF Scan
    <2>2. \A j \in 1 .. i - 1 : ~ Fits(map[j], q)
      BY <1>3, <1>5 DEF BestOf
    <2>3. Key(q, map[i]) <= Key(q, map[i])
      BY <1>1, <1>3
    <2> QED
      BY <1>2, <1>3, <1>5, <2>1, <2>2, <2>3, Zenon DEF BestOf
  <1>6. CASE Fits(map[i], q) /\ d # NULL
    <2>1. /\ d \in 1 .. i - 1 /\ Fits(map[d], q)
          /\ \A j \in 1 .. i - 1 : Fits(map[j], q) => Key(q, map[j]) <= Key(q, map[d])
      BY <1>6 DEF BestOf
    <2>2. \/ S = d /\ Exact(map[d], q)
          \/ S = i /\ Exact(map[i], q)
          \/ S = i /\ Better(map[i], map[d])
          \/ S = d /\ ~ Better(map[i], map[d])
      BY <1>6 DEF Scan, Takes
    <2>3. CASE Exact(map[S], q) /\ S \in {i, d}
      <3>1. S \in 1 .. i /\ Fits(map[S], q)
        BY <2>3, <2>1, <1>3, <1>6
      <3>2. \A j \in 1 .. i : Fits(map[j], q) => Key(q, map[j]) <= Key(q, map[S])
        BY <3>1, <2>3, <1>1, ExactIsBest
      <3> QED
        BY <3>1, <3>2, Zenon DEF BestOf
    <2>4. CASE S = i /\ Better(map[i], map[d])
      <3>1. Key(q, map[d]) < Key(q, map[i])
        BY <1>1, <1>3, <1>6, <2>1, <2>4, BetterIsLarger
      <3>2. \A j \in 1 .. i : Fits(map[j], q) => Key(q, map[j]) <= Key(q, map[i])
        BY <3>1, <2>1, <1>1, <1>2, <1>3
      <3> QED
        BY <2>4, <3>2, <1>3, <1>6, Zenon DEF BestOf
    <2>5. CASE S = d /\ ~ Better(map[i], map[d])
      <3>1. Key(q, map[i]) <= Key(q, map[d])
        BY <1>1, <1>3, <1>6, <2>1, <2>5, BetterIsLarger
      <3>2. \A j \in 1 .. i : Fits(map[j], q) => Key(q, map[j]) <= Key(q, map[d])
        BY <3>1, <2>1, <1>2, Zenon
      <3> QED
        BY <2>5, <3>2, <2>1, <1>3, Zenon DEF BestOf
    <2> QED
      BY <2>2, <2>3, <2>4, <2>5
  <1> QED
    BY <1>4, <1>5, <1>6

\* InternalCacheInfoToDescriptor: whatever is asked for, the descriptor it
\* returns is that of a row that fits, no row that fits is larger, and it is 0
\* only if there is none.
THEOREM SearchIsBestFit == \A q : BestFit(q, CacheInfoToDescriptor(q))
  <1> TAKE q
  <1> DEFINE T == {m \in 0 .. N : BestOf(q, m, Search(q)[m])}
             best == Search(q)[N]
  <1>1. SearchUpTo(q, N, Search(q))
    BY SearchIsRecursive
  <1>2. 0 \in T
    BY <1>1, TableRow DEF SearchUpTo, BestOf
  <1>3. ASSUME NEW i \in 1 .. N, i - 1 \in T PROVE i \in T
    <2>1. Search(q)[i] = Scan(q, i, Search(q)[i - 1])
      BY <1>1, TableRow DEF SearchUpTo
    <2>2. BestOf(q, i, Search(q)[i])
      BY <1>3, <2>1, ScanKeepsBest
    <2> QED
      BY <2>2, TableRow
  <1>4. 0 .. N \subseteq T
    <2> HIDE DEF T
    <2> QED
      BY <1>2, <1>3, TableRow, Induction
  <1>5. BestOf(q, N, best)
    BY <1>4, TableRow
  <1>6. CacheInfoToDescriptor(q) = IF best = NULL THEN NULL
                                   ELSE mCacheDescriptorMap[best].value
    BY Zenon DEF CacheInfoToDescriptor, N
  <1> HIDE DEF best
  <1>7. CASE best = NULL
    <2>1. best \notin 1 .. N
      BY <1>7, TableRow DEF NULL
    <2>2. \A j \in 1 .. N : ~ Fits(mCacheDescriptorMap[j], q)
      BY <1>5, <2>1 DEF BestOf
    <2>3. {j \in 1 .. N : Fits(mCacheDescriptorMap[j], q)} = {}
      BY <2>2
    <2> QED
      BY <1>6, <1>7, <2>3, Zenon DEF BestFit, N
  <1>8. CASE best # NULL
    <2> DEFINE fits == {j \in 1 .. N : Fits(mCacheDescriptorMap[j], q)}
    <2>1. /\ best \in fits
          /\ \A j \in fits : Key(q, mCacheDescriptorMap[j]) <= Key(q, mCacheDescriptorMap[best])
      BY <1>5, <1>8 DEF BestOf
    <2>2. mCacheDescriptorMap[best].value = CacheInfoToDescriptor(q)
      BY <1>6, <1>8
    <2>3. \A j \in fits :
            IF q.type = "TLB"
            THEN mCacheDescriptorMap[j].entries <= mCacheDescriptorMap[best].entries
            ELSE mCacheDescriptorMap[j].size <= mCacheDescriptorMap[best].size
      BY <2>1, Zenon DEF Key
    <2>4. fits # {}
      BY <2>1
    <2> QED
      BY <2>1, <2>2, <2>3, <2>4, Zenon DEF BestFit, N
  <1> QED
    BY <1>7, <1>8
=============================================================================
