--------------------------- MODULE ProtectionProofs ---------------------------
(***************************************************************************)
(* Proof that the protection pass of PageTables hides every earlier table, *)
(* for every number of threads, any sizes and whatever memory UEFI hands   *)
(* out.                                                                    *)
(*                                                                         *)
(* The argument: the pools are one ring.  Those the walk has passed lead   *)
(* only to each other and to the pool it is at; a pool allocated meanwhile *)
(* is inserted behind the current one, so it joins them exactly if the     *)
(* walk does not come to it, and then it holds no page of an earlier       *)
(* table.  When the walk is back at its head nothing leads out of what it  *)
(* passed, so that is the whole ring.                                      *)
(***************************************************************************)
EXTENDS PageTablesProofs

(***************************************************************************)
(* What an allocation does to the ring.                                    *)
(***************************************************************************)

\* The pools ps are the present ones with base inserted behind the current one,
\* in memory that is neither a pool's nor the VMM's.
Inserted(ps, base) ==
  /\ base \notin DOMAIN pools
  /\ DOMAIN ps = DOMAIN pools \cup {base}
  /\ ps[base].next = IF current = None THEN base ELSE pools[current].next
  /\ \A c \in DOMAIN pools :
       ps[c].next = IF c = current THEN base ELSE pools[c].next
  /\ Run(ps, base) \cap (PoolUnits \cup vmm .. vmm + VmmUnits - 1) = {}

SameRing(ps) ==
  /\ DOMAIN ps = DOMAIN pools
  /\ \A c \in DOMAIN pools : ps[c].next = pools[c].next

\* An allocation inserts at most one pool, which then is the current one.
LEMMA AllocateLinks ==
  ASSUME GoodPools(pools), current \in DOMAIN pools \cup {None},
         NEW n \in Nat \ {0}, NEW a \in AllocatePageTableMemory(n)
  PROVE  \/ SameRing(a.pools)
         \/ \E base \in DOMAIN a.pools : Inserted(a.pools, base)
  <1>1. ASSUME NEW ps, NEW b \in DOMAIN ps, ps[b] \in Pool, a = Take(ps, b, n)
        PROVE  /\ DOMAIN a.pools = DOMAIN ps
               /\ \A c \in DOMAIN ps : /\ a.pools[c].next = ps[c].next
                                       /\ a.pools[c].units = ps[c].units
    <2> DEFINE r == Advanced(ps[b], n)
    <2>1. a.pools = [ps EXCEPT ![b] = r]
      BY <1>1 DEF Take
    <2>2. r.next = ps[b].next /\ r.units = ps[b].units
      BY <1>1 DEF Advanced, Pool
    <2> HIDE DEF r
    <2> QED
      BY <2>1, <2>2
  <1>2. CASE current # None /\ n <= pools[current].freePages
    <2>1. a = Take(pools, current, n) /\ current \in DOMAIN pools
      BY <1>2 DEF AllocatePageTableMemory
    <2>2. pools[current] \in Pool
      BY <2>1 DEF GoodPools, GoodPool
    <2> QED
      BY <1>1, <2>1, <2>2 DEF SameRing
  <1>3. CASE ~(current # None /\ n <= pools[current].freePages)
    <2> DEFINE m == n \div UnitPages + 1
    <2>1. m \in Nat \ {0}
      BY EnoughUnits
    <2>2. PICK base \in FreeRuns(m) : a = Take(LinkPool(base, m), base, n)
      BY <1>3 DEF AllocatePageTableMemory
    <2> HIDE DEF m
    <2> DEFINE q == LinkPool(base, m)
               after == IF current = None THEN base ELSE pools[current].next
    <2>3. GoodPools(q) /\ DOMAIN q = DOMAIN pools \cup {base}
      BY <2>1, LinkGood
    <2>4. /\ base \in Nat
          /\ (base .. base + m - 1) \cap (PoolUnits \cup vmm .. vmm + VmmUnits - 1) = {}
      BY SizesAssumption DEF FreeRuns, Unit
    <2>5. base \notin DOMAIN pools
      <3>1. \A c \in DOMAIN pools : c \in PoolUnits
        <4> TAKE c \in DOMAIN pools
        <4>1. c \in Nat /\ pools[c].units \in Nat \ {0}
          BY DEF GoodPools, GoodPool, Unit, Pool
        <4>2. c \in UnitsOf(c)
          BY <4>1 DEF UnitsOf
        <4> QED
          BY <4>2 DEF PoolUnits
      <3>2. base \in base .. base + m - 1
        BY <2>1, <2>4
      <3> QED
        BY <2>4, <3>1, <3>2
    <2>6. q[base] = NewPool(m, after)
      <3>1. base # current
        BY <2>4, <2>5 DEF None
      <3> QED
        BY <3>1 DEF LinkPool
    <2>7. \A c \in DOMAIN pools :
            q[c] = IF c = current THEN Relinked(pools[c], base) ELSE pools[c]
      BY <2>5 DEF LinkPool
    <2>8. q[base].next = after /\ q[base].units = m
      BY <2>6 DEF NewPool
    <2>9. \A c \in DOMAIN pools :
            q[c].next = IF c = current THEN base ELSE pools[c].next
      <3>1. \A c \in DOMAIN pools : pools[c] \in Pool
        BY DEF GoodPools, GoodPool
      <3>2. \A c \in DOMAIN pools : Relinked(pools[c], base).next = base
        BY <3>1 DEF Relinked, Pool
      <3> QED
        BY <2>7, <3>2
    <2>10. base \in DOMAIN q /\ q[base] \in Pool /\ a = Take(q, base, n)
      BY <2>2, <2>3 DEF GoodPools, GoodPool
    <2> HIDE DEF q
    <2>11. /\ DOMAIN a.pools = DOMAIN q
           /\ \A c \in DOMAIN q : /\ a.pools[c].next = q[c].next
                                  /\ a.pools[c].units = q[c].units
      BY <1>1, <2>10
    <2>12. Run(a.pools, base) = base .. base + m - 1
      BY <2>8, <2>10, <2>11 DEF Run
    <2>13. Inserted(a.pools, base)
      BY <2>3, <2>4, <2>5, <2>8, <2>9, <2>11, <2>12 DEF Inserted
    <2> QED
      BY <2>10, <2>11, <2>13
  <1> QED
    BY <1>2, <1>3

\* The pools part of the invariant.
PoolsInv ==
  /\ OneRing
  /\ current = None => DOMAIN pools = {}
  /\ PoolUnits \cap vmm .. vmm + VmmUnits - 1 = {}

\* A ring with a pool inserted is a ring.
LEMMA InsertedRing ==
  ASSUME GoodPools(pools), OneRing, current \in DOMAIN pools \cup {None},
         current = None => DOMAIN pools = {},
         NEW base, Inserted(pools', base)
  PROVE  OneRing'
  <1> SUFFICES ASSUME NEW S \in SUBSET DOMAIN pools', S # {},
                      \A b \in S : pools'[b].next \in S
               PROVE  S = DOMAIN pools'
    BY DEF OneRing
  <1> DEFINE old == S \ {base}
  <1>1. /\ DOMAIN pools' = DOMAIN pools \cup {base} /\ base \notin DOMAIN pools
        /\ old \in SUBSET DOMAIN pools
    BY DEF Inserted
  <1>2. \A c \in DOMAIN pools : pools[c].next \in DOMAIN pools
    BY DEF GoodPools, GoodPool
  <1>3. CASE current = None
    BY <1>1, <1>3
  <1>4. CASE current # None
    <2>1. pools'[base].next = pools[current].next /\ current \in DOMAIN pools
      BY <1>4 DEF Inserted
    <2>2. base \in S => pools[current].next \in old
      BY <1>1, <1>2, <2>1
    <2>3. old # {}
      BY <2>2
    <2>4. \A b \in old : pools[b].next \in old
      <3> TAKE b \in old
      <3>1. b \in DOMAIN pools /\ b \in S /\ pools[b].next # base
        BY <1>1, <1>2
      <3>2. CASE b = current
        <4>1. pools'[b].next = base
          BY <3>1, <3>2 DEF Inserted
        <4> QED
          BY <2>2, <3>1, <3>2, <4>1
      <3>3. CASE b # current
        <4>1. pools'[b].next = pools[b].next
          BY <3>1, <3>3 DEF Inserted
        <4> QED
          BY <3>1, <4>1
      <3> QED
        BY <3>2, <3>3
    <2>5. old = DOMAIN pools
      BY <1>1, <2>3, <2>4 DEF OneRing
    <2>6. current \in S /\ pools'[current].next = base
      BY <2>1, <2>5 DEF Inserted
    <2> QED
      BY <1>1, <2>5, <2>6
  <1> QED
    BY <1>3, <1>4

\* Every allocation keeps the ring, and the pools apart from the VMM.
LEMMA GrantRing ==
  ASSUME IInv, PoolsInv, NEW n \in Nat \ {0}, NEW a \in AllocatePageTableMemory(n),
         pools' = a.pools, current' = a.current, vmm' = vmm
  PROVE  PoolsInv' /\ (SameRing(pools') \/ \E base \in DOMAIN pools' : Inserted(pools', base))
  <1>1. GoodPools(pools) /\ current \in DOMAIN pools \cup {None}
    BY DEF IInv, TypeOK
  <1>2. /\ GoodPools(pools') /\ current' \in DOMAIN pools'
        /\ \A c \in DOMAIN pools : pools'[c].units = pools[c].units
    BY <1>1, AllocateGood
  <1>3. SameRing(pools') \/ \E base \in DOMAIN pools' : Inserted(pools', base)
    BY <1>1, AllocateLinks
  <1>4. (current = None => DOMAIN pools = {})'
    BY <1>2 DEF None, GoodPools, GoodPool, Unit
  <1>5. VmmUnits' = VmmUnits
    BY DEF VmmUnits
  <1>6. \A c \in DOMAIN pools : UnitsOf(c)' = UnitsOf(c)
    BY <1>2 DEF UnitsOf
  <1>7. CASE SameRing(pools')
    <2>1. PoolUnits' = PoolUnits
      BY <1>6, <1>7 DEF SameRing, PoolUnits
    <2>2. OneRing'
      BY <1>7 DEF SameRing, PoolsInv, OneRing
    <2> QED
      BY <1>3, <1>4, <1>5, <2>1, <2>2 DEF PoolsInv
  <1>8. ASSUME NEW base \in DOMAIN pools', Inserted(pools', base)
        PROVE  PoolsInv'
    <2>1. OneRing'
      BY <1>1, <1>8, InsertedRing DEF PoolsInv
    <2>2. UnitsOf(base)' \cap vmm .. vmm + VmmUnits - 1 = {}
      BY <1>8 DEF Inserted, Run, UnitsOf
    <2>3. PoolUnits' = PoolUnits \cup UnitsOf(base)'
      BY <1>6, <1>8 DEF Inserted, PoolUnits
    <2> QED
      BY <1>4, <1>5, <2>1, <2>2, <2>3 DEF PoolsInv
  <1> QED
    BY <1>3, <1>7, <1>8

-----------------------------------------------------------------------------
(***************************************************************************)
(* What the walk makes not present.                                        *)
(***************************************************************************)

SplitsMatch ==
  \A t \in Thread, u \in Unit : table[t].pt[u] # None => UnitMatches(u)

\* Where Page1GSupport is off nothing is left to split.
AllSplit == pc \in {"map", "protect"} /\ ~page1G => Own.split1G = Giga

\* A unit with something to unmap is the local APIC's or one of the VMM's.
LEMMA MatchedUnits ==
  ASSUME IInv, NEW u \in Nat, UnitMatches(u)
  PROVE  u = LapicUnit \/ u \in vmm .. vmm + VmmUnits - 1
  <1>1. /\ VmmPages \in Nat \ {0} /\ vmm \in Nat /\ LapicPage \in Nat
        /\ LapicUnit \in Nat
        /\ LapicUnit * UnitPages <= LapicPage /\ LapicPage < (LapicUnit + 1) * UnitPages
    BY VmmFacts, SizesAssumption DEF PagesOfUnit, Unit
  <1>2. VmmUnits \in Nat \ {0} /\ VmmPages <= VmmUnits * UnitPages
    <2>1. VmmPages - 1 \in Nat
      BY <1>1
    <2>2. /\ (VmmPages - 1) \div UnitPages + 1 \in Nat \ {0}
          /\ VmmPages - 1 <= ((VmmPages - 1) \div UnitPages + 1) * UnitPages - 1
      BY <2>1, EnoughUnits
    <2> HIDE DEF VmmUnits
    <2>3. VmmUnits \in Nat \ {0} /\ VmmPages - 1 <= VmmUnits * UnitPages - 1
      BY <2>2, Zenon DEF VmmUnits
    <2>4. VmmUnits * UnitPages \in Nat
      BY <2>3, SizesAssumption
    <2> QED
      BY <1>1, <2>3, <2>4
  <1>3. /\ u * UnitPages \in Nat /\ (u + 1) * UnitPages \in Nat
        /\ u * UnitPages < (u + 1) * UnitPages
        /\ VmmStart \in Nat /\ VmmStart = vmm * UnitPages
    BY <1>1, SizesAssumption DEF VmmStart
  <1>4. CASE MatchesVmm(u * UnitPages, (u + 1) * UnitPages)
    <2>1. CASE VmmStart <= u * UnitPages /\ (u + 1) * UnitPages <= VmmStart + VmmPages
      <3>1. vmm <= u
        <4> SUFFICES ASSUME u + 1 <= vmm PROVE FALSE
          BY <1>1
        <4>1. (u + 1) * UnitPages <= vmm * UnitPages
          BY <1>1, MulMono
        <4> QED
          BY <1>3, <2>1, <4>1
      <3>2. u < vmm + VmmUnits
        <4> SUFFICES ASSUME vmm + VmmUnits <= u PROVE FALSE
          BY <1>1, <1>2
        <4>1. (vmm + VmmUnits) * UnitPages <= u * UnitPages
          BY <1>1, <1>2, MulMono
        <4>2. (vmm + VmmUnits) * UnitPages = VmmStart + VmmUnits * UnitPages
          BY <1>1, <1>2, <1>3, SizesAssumption
        <4>3. VmmUnits * UnitPages \in Nat
          BY <1>2, SizesAssumption
        <4>4. VmmStart + VmmPages <= u * UnitPages
          BY <1>1, <1>2, <1>3, <4>1, <4>2, <4>3
        <4> QED
          BY <1>1, <1>3, <2>1, <4>4
      <3> QED
        BY <1>1, <1>2, <3>1, <3>2
    <2>2. CASE u * UnitPages <= VmmStart /\ VmmStart + VmmPages <= (u + 1) * UnitPages
      <3>1. u <= vmm
        <4> SUFFICES ASSUME vmm + 1 <= u PROVE FALSE
          BY <1>1
        <4>1. (vmm + 1) * UnitPages <= u * UnitPages
          BY <1>1, MulMono
        <4>2. vmm * UnitPages < (vmm + 1) * UnitPages /\ (vmm + 1) * UnitPages \in Nat
          BY <1>1, SizesAssumption
        <4> QED
          BY <1>3, <2>2, <4>1, <4>2
      <3>2. vmm <= u
        <4> SUFFICES ASSUME u + 1 <= vmm PROVE FALSE
          BY <1>1
        <4>1. (u + 1) * UnitPages <= vmm * UnitPages
          BY <1>1, MulMono
        <4> QED
          BY <1>1, <1>3, <2>2, <4>1
      <3> QED
        BY <1>1, <1>2, <3>1, <3>2
    <2> QED
      BY <1>4, <2>1, <2>2 DEF MatchesVmm, ContainsOrContained
  <1>5. CASE MatchesMmio(u * UnitPages, (u + 1) * UnitPages)
    <2>1. u * UnitPages <= LapicPage /\ LapicPage < (u + 1) * UnitPages
      BY <1>1, <1>3, <1>5 DEF MatchesMmio, ContainsOrContained
    <2>2. u <= LapicUnit
      <3> SUFFICES ASSUME LapicUnit + 1 <= u PROVE FALSE
        BY <1>1
      <3>1. (LapicUnit + 1) * UnitPages <= u * UnitPages
        BY <1>1, MulMono
      <3>2. (LapicUnit + 1) * UnitPages \in Nat
        BY <1>1, SizesAssumption
      <3> QED
        BY <1>1, <1>3, <2>1, <3>1, <3>2
    <2>3. LapicUnit <= u
      <3> SUFFICES ASSUME u + 1 <= LapicUnit PROVE FALSE
        BY <1>1
      <3>1. (u + 1) * UnitPages <= LapicUnit * UnitPages
        BY <1>1, MulMono
      <3>2. LapicUnit * UnitPages \in Nat
        BY <1>1, SizesAssumption
      <3> QED
        BY <1>1, <1>3, <2>1, <3>1, <3>2
    <2> QED
      BY <1>1, <2>2, <2>3
  <1> QED
    BY <1>4, <1>5 DEF UnitMatches, SplitAndUnmapPage

\* No unit of a pool was split, so SetPageTablePoolUnmapped clears it.
LEMMA UnitCleared ==
  ASSUME IInv, PoolsInv, SplitsMatch, pc = "protect"
  PROVE  Cleared(Own, walk.unit) = Own.clear \cup {walk.unit}
  <1>1. walk.unit \in Unit /\ walk.unit \in PoolUnits /\ walk.unit \in Nat
    BY ClearedUnits DEF Unit
  <1>2. thread \in Thread
    BY DEF IInv, TypeOK
  <1>3. walk.unit \in Ram
    BY <1>1 DEF IInv, GoodPools, GoodPool, PoolUnits, UnitsOf, Run
  <1>4. ~UnitMatches(walk.unit)
    BY <1>1, <1>3, MatchedUnits, VmmFacts DEF PoolsInv
  <1>5. Own.pt[walk.unit] = None
    BY <1>1, <1>2, <1>4 DEF SplitsMatch, Own
  <1> QED
    BY <1>5 DEF Cleared

\* The pages handed out of a pool are in its units.
LEMMA HandedUnits ==
  ASSUME NEW ps, GoodPools(ps), NEW b \in DOMAIN ps, NEW p \in HandedFrom(ps, b)
  PROVE  UnitOf(p) \in Run(ps, b)
  <1> DEFINE n == ps[b].units
             o == ps[b].offset
  <1>1. /\ b \in Nat /\ n \in Nat /\ o \in Nat /\ o <= n * UnitPages
        /\ n * UnitPages \in Nat
    BY SizesAssumption DEF GoodPools, GoodPool, Pool, PoolSize, Unit
  <1>2. p \in Nat /\ b * UnitPages <= p /\ p < b * UnitPages + n * UnitPages
        /\ b * UnitPages \in Nat
    BY <1>1, SizesAssumption DEF HandedFrom
  <1> HIDE DEF n, o
  <1>3. b * UnitPages + n * UnitPages = (b + n) * UnitPages
    BY <1>1, SizesAssumption
  <1>4. p < (b + n) * UnitPages
    BY <1>2, <1>3
  <1>5. UnitOf(p) \in Nat /\ UnitOf(p) * UnitPages <= p /\ p < (UnitOf(p) + 1) * UnitPages
    BY <1>2, SizesAssumption DEF UnitOf
  <1>6. b <= UnitOf(p)
    <2> SUFFICES ASSUME UnitOf(p) + 1 <= b PROVE FALSE
      BY <1>1, <1>5
    <2>1. (UnitOf(p) + 1) * UnitPages <= b * UnitPages
      BY <1>1, <1>5, MulMono
    <2>2. (UnitOf(p) + 1) * UnitPages \in Nat
      BY <1>5, SizesAssumption
    <2> QED
      BY <1>2, <1>5, <2>1, <2>2
  <1>7. UnitOf(p) < b + n
    <2> SUFFICES ASSUME b + n <= UnitOf(p) PROVE FALSE
      BY <1>1, <1>5
    <2>1. (b + n) * UnitPages <= UnitOf(p) * UnitPages
      BY <1>1, <1>5, MulMono
    <2>2. UnitOf(p) * UnitPages \in Nat /\ (b + n) * UnitPages \in Nat
      BY <1>1, <1>5, SizesAssumption
    <2> QED
      BY <1>2, <1>4, <1>5, <2>1, <2>2
  <1> QED
    BY <1>1, <1>5, <1>6, <1>7 DEF Run, n

-----------------------------------------------------------------------------
(***************************************************************************)
(* One iteration of the walk.                                              *)
(***************************************************************************)

\* Every page of a table lies in a unit of a pool.
LEMMA UsedUnits ==
  ASSUME GoodPools(pools), Accounted, NEW t \in Thread, NEW p \in table[t].used
  PROVE  \E b \in DOMAIN pools : UnitOf(p) \in Run(pools, b)
  <1>1. p \in Handed(pools)
    BY DEF Accounted
  <1>2. PICK b \in DOMAIN pools : p \in HandedFrom(pools, b)
    BY <1>1 DEF Handed
  <1> QED
    BY <1>2, HandedUnits

\* The walk has passed S when the pools are ps: WalkedOver, before it moves on.
Passed(S, ps) ==
  /\ walk.head \in S \cup {walk.pool}
  /\ \A b \in S : ps[b].next \in S \cup {walk.pool}
  /\ \A t \in ToHide : \A p \in table[t].used : \A b \in S :
       UnitOf(p) \in Run(ps, b) => UnitOf(p) \in Own.clear

\* A pool inserted during the walk is among those passed exactly if the one it
\* was inserted behind is.
LEMMA StillPassed ==
  ASSUME IInv, NEW S \in SUBSET DOMAIN pools, Passed(S, pools),
         \A c \in DOMAIN pools : pools'[c].units = pools[c].units,
         SameRing(pools') \/ \E base \in DOMAIN pools' : Inserted(pools', base)
  PROVE  \E R \in SUBSET DOMAIN pools' : Passed(R, pools')
  <1>1. \A c \in S : Run(pools', c) = Run(pools, c)
    BY DEF Run
  <1>2. CASE SameRing(pools')
    <2>1. S \in SUBSET DOMAIN pools' /\ Passed(S, pools')
      BY <1>1, <1>2 DEF SameRing, Passed
    <2> QED
      BY <2>1
  <1>3. ASSUME NEW base \in DOMAIN pools', Inserted(pools', base)
        PROVE  \E R \in SUBSET DOMAIN pools' : Passed(R, pools')
    <2>1. /\ DOMAIN pools' = DOMAIN pools \cup {base} /\ base \notin DOMAIN pools
          /\ base \notin S
      BY <1>3 DEF Inserted
    <2>2. CASE current \notin S
      <3>1. \A b \in S : pools'[b].next = pools[b].next
        BY <1>3, <2>2 DEF Inserted
      <3>2. S \in SUBSET DOMAIN pools' /\ Passed(S, pools')
        BY <1>1, <2>1, <3>1 DEF Passed
      <3> QED
        BY <3>2
    <2>3. CASE current \in S
      <3> DEFINE R == S \cup {base}
      <3>1. current # None
        BY <2>3 DEF IInv, TypeOK, None, Unit
      <3>2. pools'[base].next = pools[current].next
        BY <1>3, <3>1 DEF Inserted
      <3>3. pools'[base].next \in R \cup {walk.pool}
        BY <2>3, <3>2 DEF Passed
      <3>4. \A b \in S : pools'[b].next \in R \cup {walk.pool}
        <4> TAKE b \in S
        <4>1. pools'[b].next = IF b = current THEN base ELSE pools[b].next
          BY <1>3 DEF Inserted
        <4> QED
          BY <4>1 DEF Passed
      <3>5. ASSUME NEW t \in ToHide, NEW p \in table[t].used
            PROVE  UnitOf(p) \notin Run(pools', base)
        <4>1. t \in Thread
          BY DEF ToHide
        <4>2. PICK b \in DOMAIN pools : UnitOf(p) \in Run(pools, b)
          BY <4>1, UsedUnits DEF IInv
        <4>3. UnitOf(p) \in PoolUnits
          BY <4>2 DEF PoolUnits, UnitsOf, Run
        <4> QED
          BY <1>3, <4>3 DEF Inserted
      <3>6. ASSUME NEW t \in ToHide, NEW p \in table[t].used, NEW b \in R,
                   UnitOf(p) \in Run(pools', b)
            PROVE  UnitOf(p) \in Own.clear
        <4>1. b \in S
          BY <3>5, <3>6
        <4> QED
          BY <1>1, <3>6, <4>1 DEF Passed
      <3>7. R \in SUBSET DOMAIN pools' /\ Passed(R, pools')
        <4>1. walk.head \in R \cup {walk.pool}
          BY DEF Passed
        <4> QED
          BY <2>1, <3>3, <3>4, <3>6, <4>1 DEF Passed
      <3> QED
        BY <3>7
    <2> QED
      BY <2>2, <2>3
  <1> QED
    BY <1>2, <1>3

\* Finished tables do not change, so they keep hiding what they hid.
LEMMA FinishedStillProtected ==
  ASSUME TablesProtected, thread \in Nat, page1G' = page1G,
         \A t \in Thread : t # thread => table'[t] = table[t],
         NEW t \in Thread, t < thread, NEW t2 \in 0 .. t, t2 < t \/ ~page1G'
  PROVE  Unmapped(t, table[t2].used)'
  <1>1. t2 \in Thread /\ t2 # thread /\ t # thread
    BY SizesAssumption DEF Thread
  <1>2. Unmapped(t, table[t2].used)
    BY DEF TablesProtected, Finished
  <1> QED
    BY <1>1, <1>2 DEF Unmapped

\* The walk passes on, or the table is finished and hides what it has to.
LEMMA WalkKeeps ==
  ASSUME IInv, IInv', PoolsInv, PoolsInv', SplitsMatch, TablesProtected,
         pc = "protect", UNCHANGED page1G,
         NEW S \in SUBSET DOMAIN pools, WalkedOver(S),
         DOMAIN pools \subseteq DOMAIN pools',
         \A c \in DOMAIN pools : pools'[c].units = pools[c].units,
         SameRing(pools') \/ \E base \in DOMAIN pools' : Inserted(pools', base),
         NextUnit(pools'),
         \A t \in Thread : t # thread => table'[t] = table[t],
         table'[thread].clear = Cleared(Own, walk.unit),
         ~page1G => table'[thread].used = Own.used
  PROVE  /\ (pc = "protect" => \E R \in SUBSET DOMAIN pools : WalkedOver(R))'
         /\ TablesProtected'
  <1> DEFINE b == walk.pool
             next == pools'[b].next
  <1>1. /\ thread \in Thread /\ thread \in Nat
        /\ walk \in [head : Unit, pool : Unit, unit : Unit, size : Nat]
        /\ b \in Nat /\ walk.unit \in Nat
    BY DEF IInv, TypeOK, Thread, Unit
  <1>2. /\ b \in DOMAIN pools /\ walk.unit \in Run(pools, b)
        /\ walk.size = (b + pools[b].units - walk.unit) * UnitPages
        /\ pools[b].units \in Nat
    BY DEF IInv, WalkGood, GoodPools, GoodPool, Pool
  <1>3. GoodPools(pools') /\ Accounted' /\ b \in DOMAIN pools' /\ next \in DOMAIN pools'
    BY <1>2 DEF IInv, GoodPools, GoodPool
  <1>4. table'[thread].clear = Own.clear \cup {walk.unit}
    BY UnitCleared
  <1>5. b .. walk.unit - 1 \subseteq Own.clear
    BY DEF WalkedOver
  <1>6. b .. walk.unit \subseteq table'[thread].clear
    BY <1>1, <1>4, <1>5
  <1>7. PICK R \in SUBSET DOMAIN pools' : Passed(R, pools')
    <2>1. Passed(S, pools)
      BY DEF WalkedOver, Passed, UnitsOf, Run
    <2> QED
      BY <2>1, StillPassed
  <1>8. \A t \in ToHide : t \in Thread /\ table'[t].used = table[t].used
    <2> TAKE t \in ToHide
    <2>1. t \in Thread /\ (t = thread => ~page1G)
      BY <1>1 DEF ToHide
    <2>2. CASE t = thread
      BY <2>1, <2>2 DEF Own
    <2>3. CASE t # thread
      BY <2>1, <2>3
    <2> QED
      BY <2>1, <2>2, <2>3
  <1>9. CASE walk.size > UnitPages
    <2>1. WalkTo(walk.head, b, walk.unit + 1, walk.size - UnitPages)
          /\ thread' = thread /\ pc' = pc
      BY <1>1, <1>9, SizesAssumption DEF NextUnit
    <2>2. walk'.head = walk.head /\ walk'.pool = b /\ walk'.unit = walk.unit + 1
      BY <2>1 DEF WalkTo
    <2>3. ToHide' = ToHide /\ Own' = table'[thread]
      BY <2>1 DEF ToHide, Own
    <2>4. walk'.pool .. walk'.unit - 1 \subseteq Own'.clear
      BY <1>1, <1>6, <2>2, <2>3
    <2>5. \A t \in ToHide' : \A p \in table'[t].used :
            UnitOf(p) \in UNION {UnitsOf(c)' : c \in R} => UnitOf(p) \in Own'.clear
      BY <1>4, <1>7, <1>8, <2>3 DEF Passed, UnitsOf, Run
    <2>6. WalkedOver(R)'
      BY <1>7, <2>2, <2>4, <2>5 DEF Passed, WalkedOver
    <2>7. TablesProtected'
      BY <1>1, <2>1, FinishedStillProtected DEF TablesProtected, Finished
    <2> QED
      BY <2>6, <2>7
  <1>10. PICK Q \in SUBSET DOMAIN pools' : Q = R \cup {b}
    BY <1>3
  <1>11. ASSUME walk.size <= UnitPages
         PROVE  \A t \in ToHide : \A p \in table'[t].used : \A c \in Q :
                  UnitOf(p) \in Run(pools', c) => UnitOf(p) \in table'[thread].clear
    <2> DEFINE left == b + pools[b].units - walk.unit
    <2>1. left \in Nat \ {0} /\ walk.unit + left = b + pools[b].units
      BY <1>1, <1>2 DEF Run
    <2>2. left * UnitPages <= UnitPages
      BY <1>2, <1>11
    <2> HIDE DEF left
    <2>3. left = 1
      BY <2>1, <2>2, SizesAssumption
    <2>4. Run(pools', b) = b .. walk.unit
      <3>1. pools'[b].units = pools[b].units
        BY <1>2
      <3>2. b + pools[b].units - 1 = walk.unit
        BY <1>1, <1>2, <2>1, <2>3
      <3> QED
        BY <3>1, <3>2 DEF Run
    <2> TAKE t \in ToHide
    <2> TAKE p \in table'[t].used
    <2> TAKE c \in Q
    <2>5. CASE c = b
      BY <1>6, <2>4, <2>5
    <2>6. CASE c \in R
      BY <1>4, <1>7, <1>8, <2>6 DEF Passed
    <2> QED
      BY <1>10, <2>5, <2>6
  <1>12. Q \in SUBSET DOMAIN pools' /\ walk.head \in Q /\ \A c \in R : pools'[c].next \in Q
    BY <1>7, <1>10 DEF Passed
  <1>13. CASE walk.size <= UnitPages /\ next # walk.head
    <2>1. WalkTo(walk.head, next, next, PoolSize(pools', next))
          /\ thread' = thread /\ pc' = pc
      BY <1>1, <1>13, SizesAssumption DEF NextUnit
    <2>2. walk'.head = walk.head /\ walk'.pool = next /\ walk'.unit = next
      BY <2>1 DEF WalkTo
    <2>3. ToHide' = ToHide /\ Own' = table'[thread]
      BY <2>1 DEF ToHide, Own
    <2>4. walk'.pool .. walk'.unit - 1 \subseteq Own'.clear
      <3>1. next \in Nat
        BY <1>3 DEF GoodPools, GoodPool, Unit
      <3>2. next .. next - 1 = {}
        BY <3>1
      <3> QED
        BY <2>2, <3>2
    <2>5. \A t \in ToHide' : \A p \in table'[t].used :
            UnitOf(p) \in UNION {UnitsOf(c)' : c \in Q} => UnitOf(p) \in Own'.clear
      BY <1>11, <1>13, <2>3 DEF UnitsOf, Run
    <2>6. WalkedOver(Q)'
      <3>1. \A c \in Q : pools'[c].next \in Q \cup {walk'.pool}
        BY <1>10, <1>12, <2>2
      <3> QED
        BY <1>12, <2>2, <2>4, <2>5, <3>1 DEF WalkedOver
    <2>7. TablesProtected'
      BY <1>1, <2>1, FinishedStillProtected DEF TablesProtected, Finished
    <2> QED
      BY <1>12, <2>6, <2>7
  <1>14. CASE walk.size <= UnitPages /\ next = walk.head
    <2>1. thread' = thread + 1 /\ pc' # "protect"
      BY <1>1, <1>14, SizesAssumption DEF NextUnit
    <2>2. Q = DOMAIN pools'
      <3>1. \A c \in Q : pools'[c].next \in Q
        BY <1>10, <1>12, <1>14
      <3> HIDE DEF next
      <3>2. Q # {}
        BY <1>12
      <3> QED
        BY <1>12, <3>1, <3>2 DEF PoolsInv, OneRing
    <2>3. ASSUME NEW t2 \in ToHide, NEW p \in table'[t2].used
          PROVE  UnitOf(p) \in table'[thread].clear
      <3>1. \E c \in DOMAIN pools' : UnitOf(p) \in Run(pools', c)
        <4>1. t2 \in Thread
          BY <1>8
        <4>2. p \in Handed(pools')
          BY <1>3, <2>3, <4>1 DEF Accounted
        <4>3. PICK c \in DOMAIN pools' : p \in HandedFrom(pools', c)
          BY <4>2 DEF Handed
        <4> QED
          BY <1>3, <4>3, HandedUnits
      <3> QED
        BY <1>11, <1>14, <2>2, <3>1
    <2>4. ASSUME NEW t \in Thread, t < thread + 1, NEW t2 \in 0 .. t, t2 < t \/ ~page1G'
          PROVE  Unmapped(t, table[t2].used)'
      <3>1. CASE t < thread
        BY <1>1, <2>4, <3>1, FinishedStillProtected
      <3>2. CASE t = thread
        <4>1. t2 \in ToHide
          BY <1>1, <2>4, <3>2, SizesAssumption DEF ToHide, Thread
        <4> QED
          BY <2>3, <3>2, <4>1 DEF Unmapped
      <3> QED
        BY <1>1, <2>4, <3>1, <3>2 DEF Thread
    <2>5. TablesProtected'
      BY <2>1, <2>4 DEF TablesProtected, Finished
    <2> QED
      BY <2>1, <2>5
  <1> QED
    BY <1>1, <1>9, <1>13, <1>14, SizesAssumption

-----------------------------------------------------------------------------
(***************************************************************************)
(* The steps.                                                              *)
(***************************************************************************)

ProtectIInv == ProtectInv /\ TablesProtected

\* The invariant, part by part.
LEMMA ProtectParts ==
  ProtectIInv <=>
    /\ PoolsInv /\ SplitsMatch /\ AllSplit /\ TablesProtected
    /\ pc = "protect" => \E S \in SUBSET DOMAIN pools : WalkedOver(S)
  BY DEF ProtectIInv, ProtectInv, PoolsInv, SplitsMatch, AllSplit

\* Steps that do not belong to the walk: finished tables stay, the current one
\* splits only units that match.
LEMMA BuildingKeeps ==
  ASSUME IInv, ProtectIInv, PoolsInv',
         UNCHANGED <<page1G, vmm, thread>>, thread \in Thread,
         \A t \in Thread : t # thread => table'[t] = table[t],
         \A u \in Unit : table'[thread].pt[u] = Own.pt[u] \/ UnitMatches(u),
         AllSplit', pc' # "protect"
  PROVE  ProtectIInv'
  <1>1. PoolsInv /\ SplitsMatch /\ TablesProtected
    BY ProtectParts
  <1>2. \A u \in Unit : UnitMatches(u)' <=> UnitMatches(u)
    BY DEF UnitMatches, SplitAndUnmapPage, MatchesVmm, MatchesMmio, ContainsOrContained,
       VmmStart
  <1>3. SplitsMatch'
    <2> SUFFICES ASSUME NEW t \in Thread, NEW u \in Unit, table'[t].pt[u] # None
                 PROVE  UnitMatches(u)
      BY <1>2 DEF SplitsMatch
    <2> QED
      BY <1>1 DEF SplitsMatch, Own
  <1>4. TablesProtected'
    <2>1. thread \in Nat
      BY DEF Thread
    <2> QED
      BY <1>1, <2>1, FinishedStillProtected DEF TablesProtected, Finished
  <1>5. PoolsInv' /\ SplitsMatch' /\ AllSplit' /\ TablesProtected'
        /\ (pc = "protect" => \E S \in SUBSET DOMAIN pools : WalkedOver(S))'
    BY <1>3, <1>4
  <1> QED
    BY <1>5 DEF ProtectIInv, ProtectInv, PoolsInv, SplitsMatch, AllSplit

\* Nothing is allocated, split or finished yet.
LEMMA InitProtect == Init => ProtectIInv
  <1> SUFFICES ASSUME Init PROVE ProtectIInv
    OBVIOUS
  <1> USE DEF Init
  <1>1. DOMAIN pools = {} /\ pc = "create"
    OBVIOUS
  <1>2. OneRing
    BY <1>1 DEF OneRing
  <1>3. PoolUnits = {}
    BY <1>1 DEF PoolUnits
  <1>4. \A t \in Thread, u \in Unit : table[t].pt[u] = None
    OBVIOUS
  <1>5. TablesProtected
    BY SizesAssumption DEF TablesProtected, Finished, Thread
  <1> QED
    BY <1>1, <1>2, <1>3, <1>4, <1>5 DEF ProtectIInv, ProtectInv

\* A new table has either no 1G page split, or all.
LEMMA CreateProtect ==
  ASSUME IInv, ProtectIInv, CreatePageTables
  PROVE  ProtectIInv'
  <1> DEFINE n == TotalPagesNum
             roots == IF page1G THEN {} ELSE Giga
  <1>1. n \in Nat \ {0} /\ roots \subseteq Giga
    BY SizesAssumption DEF TotalPagesNum
  <1>2. thread \in Thread /\ table \in [Thread -> Table] /\ Own \in Table
    BY DEF IInv, TypeOK, CreatePageTables, Own
  <1>3. PICK a \in AllocatePageTableMemory(n) :
          /\ pools' = a.pools /\ current' = a.current
          /\ SetOwn([Extended(a, n) EXCEPT !.split1G = roots])
    BY DEF CreatePageTables
  <1>4. pc' = "map" /\ UNCHANGED <<page1G, vmm, thread>>
    BY DEF CreatePageTables
  <1> DEFINE E == Extended(a, n)
             T == [E EXCEPT !.split1G = roots]
  <1>5. a.first .. a.first + n - 1 \subseteq Page
    BY <1>1, AllocateGood DEF IInv, TypeOK
  <1>6. PoolsInv'
    BY <1>1, <1>3, <1>4, GrantRing, ProtectParts
  <1> HIDE DEF n
  <1>7. E \in Table /\ E.pt = Own.pt
    BY <1>1, <1>2, <1>5, ExtendedTable
  <1> HIDE DEF E, roots
  <1>8. T \in Table
    BY <1>1, <1>7, Zenon DEF Table
  <1>9. T.pt = Own.pt /\ T.split1G = roots
    BY <1>7 DEF Table
  <1>10. SetOwn(T)
    BY <1>3 DEF E
  <1> HIDE DEF T
  <1>11. /\ table'[thread] = T
         /\ \A t \in Thread : t # thread => table'[t] = table[t]
    BY <1>2, <1>8, <1>10, SetOwnTable
  <1>12. AllSplit'
    BY <1>4, <1>9, <1>11 DEF AllSplit, Own, roots
  <1> QED
    BY <1>2, <1>4, <1>6, <1>9, <1>11, <1>12, BuildingKeeps

\* Mapping a page changes no table.
LEMMA MapProtect ==
  ASSUME IInv, ProtectIInv, Map1GPage \/ Map2MPage
  PROVE  ProtectIInv'
  <1>1. UNCHANGED <<page1G, vmm, pools, current, table, thread, pc>> /\ pc = "map"
    BY DEF Map1GPage, Map2MPage, At1G, At2M, Mapping
  <1>2. thread \in Thread
    BY <1>1 DEF IInv, TypeOK
  <1>3. PoolsInv' /\ AllSplit'
    BY <1>1, ProtectParts DEF PoolsInv, OneRing, PoolUnits, UnitsOf, VmmUnits, AllSplit, Own
  <1> QED
    BY <1>1, <1>2, <1>3, BuildingKeeps DEF Own

\* Splitting a 1G page takes no 2M page's place.
LEMMA Split1GProtect ==
  ASSUME IInv, ProtectIInv, Split1GPageTo2M
  PROVE  ProtectIInv'
  <1> DEFINE g == GigaOf(cursor)
             pte == IF MatchesMmio(GigaStart(g), GigaStart(g + 1)) THEN None ELSE Own.pte
  <1>1. /\ pc = "map" /\ cursor \in Unit
        /\ UNCHANGED <<page1G, vmm, thread, pc, cursor, walk>>
    BY DEF Split1GPageTo2M, At1G, Mapping
  <1>2. thread \in Thread /\ table \in [Thread -> Table] /\ Own \in Table
    BY <1>1 DEF IInv, TypeOK, Own
  <1>3. PICK a \in AllocatePageTableMemory(1) :
          /\ pools' = a.pools /\ current' = a.current
          /\ SetOwn([Extended(a, 1) EXCEPT
                       !.split1G = @ \cup {g},
                       !.pte = IF MatchesMmio(GigaStart(g), GigaStart(g + 1))
                               THEN None ELSE @])
    BY DEF Split1GPageTo2M
  <1> DEFINE E == Extended(a, 1)
             T == [E EXCEPT !.split1G = E.split1G \cup {g}, !.pte = pte]
  <1>4. a.first .. a.first + 1 - 1 \subseteq Page
    BY AllocateGood DEF IInv, TypeOK
  <1>5. E \in Table /\ E.pt = Own.pt /\ E.split1G = Own.split1G /\ E.pte = Own.pte
    BY <1>2, <1>4, ExtendedTable
  <1>6. g \in Giga
    BY <1>1, GigaInGiga
  <1>7. SetOwn(T)
    BY <1>3, <1>5
  <1> HIDE DEF E
  <1>8. pte \in Page \cup {None}
    BY <1>2 DEF Table
  <1>9. E.split1G \cup {g} \subseteq Giga
    BY <1>5, <1>6 DEF Table
  <1> HIDE DEF g, pte
  <1>10. T \in Table
    BY <1>5, <1>8, <1>9, Zenon DEF Table
  <1>11. T.pt = Own.pt /\ T.split1G = Own.split1G \cup {g}
    BY <1>5 DEF Table
  <1> HIDE DEF T
  <1>12. PoolsInv'
    BY <1>1, <1>3, GrantRing, ProtectParts
  <1>13. /\ table'[thread] = T
         /\ \A t \in Thread : t # thread => table'[t] = table[t]
    BY <1>2, <1>7, <1>10, SetOwnTable
  <1>14. AllSplit'
    BY <1>1, <1>6, <1>11, <1>13, ProtectParts DEF AllSplit, Own
  <1> QED
    BY <1>1, <1>2, <1>11, <1>12, <1>13, <1>14, BuildingKeeps

\* Only 2M pages with something to unmap are split.
LEMMA Split2MProtect ==
  ASSUME IInv, ProtectIInv, Split2MPageTo4K
  PROVE  ProtectIInv'
  <1> DEFINE u == cursor
  <1>1. /\ pc = "map" /\ u \in Unit /\ UnitMatches(u)
        /\ UNCHANGED <<page1G, vmm, thread, pc, walk>>
    BY DEF Split2MPageTo4K, At2M, Mapping
  <1>2. thread \in Thread /\ table \in [Thread -> Table] /\ Own \in Table
    BY <1>1 DEF IInv, TypeOK, Own
  <1>3. PICK a \in AllocatePageTableMemory(1) :
          /\ pools' = a.pools /\ current' = a.current
          /\ SetOwn([Extended(a, 1) EXCEPT
                       !.pt = [Own.pt EXCEPT ![u] = a.first],
                       !.hole = @ \cup Holes(u),
                       !.pte = PteAfterSplit(u, a.first, @)])
    BY DEF Split2MPageTo4K
  <1>4. a.first .. a.first + 1 - 1 \subseteq Page /\ a.first \in Page
    BY AllocateGood DEF IInv, TypeOK
  <1> DEFINE E == Extended(a, 1)
             pt == [Own.pt EXCEPT ![u] = a.first]
             T == [E EXCEPT !.pt = pt, !.hole = E.hole \cup Holes(u),
                            !.pte = PteAfterSplit(u, a.first, E.pte)]
  <1>5. E \in Table /\ E.split1G = Own.split1G
    BY <1>2, <1>4, ExtendedTable
  <1>6. SetOwn(T)
    BY <1>3
  <1> HIDE DEF E
  <1>7. Own.pt \in [Unit -> Page \cup {None}]
    BY <1>2 DEF Table
  <1>8. pt \in [Unit -> Page \cup {None}] /\ \A v \in Unit : v # u => pt[v] = Own.pt[v]
    BY <1>4, <1>7
  <1> HIDE DEF pt
  <1>9. T.pt = pt /\ T.split1G = Own.split1G
    BY <1>5 DEF Table
  <1> HIDE DEF T
  <1>10. /\ table'[thread] = T
         /\ \A t \in Thread : t # thread => table'[t] = table[t]
    BY <1>2, <1>6 DEF SetOwn
  <1>11. PoolsInv'
    BY <1>1, <1>3, GrantRing, ProtectParts
  <1>12. AllSplit'
    BY <1>1, <1>9, <1>10, ProtectParts DEF AllSplit, Own
  <1>13. \A v \in Unit : table'[thread].pt[v] = Own.pt[v] \/ UnitMatches(v)
    BY <1>1, <1>8, <1>9, <1>10
  <1> QED
    BY <1>1, <1>2, <1>10, <1>11, <1>12, <1>13, BuildingKeeps

\* The walk starts at its head, having passed nothing.
LEMMA EnableProtect ==
  ASSUME IInv, ProtectIInv, EnablePageTableProtection
  PROVE  ProtectIInv'
  <1>1. /\ pc = "map" /\ pc' = "protect"
        /\ walk'.head = current /\ walk'.pool = current /\ walk'.unit = current
        /\ UNCHANGED <<page1G, vmm, pools, current, table, thread>>
    BY DEF EnablePageTableProtection, WalkTo
  <1>2. current \in Nat
    BY <1>1 DEF IInv, TypeOK, Unit
  <1>3. current .. current - 1 = {}
    BY <1>2
  <1>4. WalkedOver({})'
    BY <1>1, <1>3 DEF WalkedOver
  <1>5. PoolsInv' /\ SplitsMatch' /\ AllSplit' /\ TablesProtected'
    BY <1>1, ProtectParts DEF PoolsInv, OneRing, PoolUnits, UnitsOf, VmmUnits, AllSplit,
       Own, SplitsMatch, UnitMatches, SplitAndUnmapPage, MatchesVmm, MatchesMmio,
       ContainsOrContained, VmmStart, TablesProtected, Finished, Unmapped
  <1>6. {} \in SUBSET DOMAIN pools'
    OBVIOUS
  <1> QED
    BY <1>4, <1>5, <1>6 DEF ProtectIInv, ProtectInv, PoolsInv, SplitsMatch, AllSplit

\* Both actions of the walk, given what they do to the pools and the table.
LEMMA ProtectingKeeps ==
  ASSUME IInv, IInv', ProtectIInv, PoolsInv',
         pc = "protect", UNCHANGED <<page1G, vmm>>,
         DOMAIN pools \subseteq DOMAIN pools',
         \A c \in DOMAIN pools : pools'[c].units = pools[c].units,
         SameRing(pools') \/ \E base \in DOMAIN pools' : Inserted(pools', base),
         NextUnit(pools'),
         \A t \in Thread : t # thread => table'[t] = table[t],
         table'[thread].clear = Cleared(Own, walk.unit),
         table'[thread].pt = Own.pt,
         ~page1G => table'[thread].used = Own.used /\ table'[thread].split1G = Own.split1G
  PROVE  ProtectIInv'
  <1>1. PoolsInv /\ SplitsMatch /\ AllSplit /\ TablesProtected
    BY ProtectParts
  <1>2. PICK S \in SUBSET DOMAIN pools : WalkedOver(S)
    BY ProtectParts
  <1>3. /\ (pc = "protect" => \E R \in SUBSET DOMAIN pools : WalkedOver(R))'
        /\ TablesProtected'
    BY <1>1, <1>2, WalkKeeps
  <1>4. thread \in Thread
    BY DEF IInv, TypeOK
  <1>5. SplitsMatch'
    <2>1. \A u \in Unit : UnitMatches(u)' <=> UnitMatches(u)
      BY DEF UnitMatches, SplitAndUnmapPage, MatchesVmm, MatchesMmio,
         ContainsOrContained, VmmStart
    <2>2. \A t \in Thread : table'[t].pt = table[t].pt
      BY <1>4 DEF Own
    <2> QED
      BY <1>1, <2>1, <2>2 DEF SplitsMatch
  <1>6. AllSplit'
    <2>1. pc' \in {"map", "protect"} => thread' = thread
      BY <1>4, SizesAssumption DEF NextUnit, IInv, TypeOK
    <2> QED
      BY <1>1, <2>1 DEF AllSplit, Own
  <1> QED
    BY <1>3, <1>5, <1>6 DEF ProtectIInv, ProtectInv, PoolsInv, SplitsMatch, AllSplit

\* The walk without an allocation.
LEMMA SetUnitProtect ==
  ASSUME IInv, IInv', ProtectIInv, SetUnitUnmapped
  PROVE  ProtectIInv'
  <1> DEFINE T == [Own EXCEPT !.clear = Cleared(Own, walk.unit)]
  <1>1. /\ pc = "protect" /\ SetOwn(T) /\ NextUnit(pools)
        /\ UNCHANGED <<page1G, vmm, pools, current, cursor>>
    BY DEF SetUnitUnmapped
  <1>2. thread \in Thread /\ table \in [Thread -> Table] /\ Own \in Table
    BY <1>1 DEF IInv, TypeOK, Own
  <1>3. Cleared(Own, walk.unit) \subseteq Unit
    BY <1>1, <1>2, ClearedUnits DEF Table
  <1>4. T \in Table
    BY <1>2, <1>3, Zenon DEF Table
  <1>5. /\ T.used = Own.used /\ T.pt = Own.pt /\ T.split1G = Own.split1G
        /\ T.clear = Cleared(Own, walk.unit)
    BY <1>2 DEF Table
  <1> HIDE DEF T
  <1>6. table'[thread] = T /\ \A t \in Thread : t # thread => table'[t] = table[t]
    BY <1>1, <1>2, <1>4, SetOwnTable
  <1>7. PoolsInv' /\ SameRing(pools') /\ NextUnit(pools')
    BY <1>1, ProtectParts DEF PoolsInv, OneRing, PoolUnits, UnitsOf, VmmUnits, SameRing
  <1>8. /\ DOMAIN pools \subseteq DOMAIN pools'
        /\ \A c \in DOMAIN pools : pools'[c].units = pools[c].units
    BY <1>1
  <1> QED
    BY <1>1, <1>5, <1>6, <1>7, <1>8, ProtectingKeeps

\* A 1G page is left to be split only with Page1GSupport.
LEMMA SplitAndSetUnitProtect ==
  ASSUME IInv, IInv', ProtectIInv, SplitAndSetUnitUnmapped
  PROVE  ProtectIInv'
  <1> DEFINE g == GigaOf(walk.unit)
  <1>1. pc = "protect" /\ UNCHANGED <<page1G, vmm, cursor>> /\ g \notin Own.split1G
    BY DEF SplitAndSetUnitUnmapped
  <1>2. thread \in Thread /\ table \in [Thread -> Table] /\ Own \in Table
    BY <1>1 DEF IInv, TypeOK, Own
  <1>3. PICK a \in AllocatePageTableMemory(1) :
          /\ pools' = a.pools /\ current' = a.current
          /\ SetOwn([Extended(a, 1) EXCEPT !.split1G = @ \cup {g},
                                           !.clear = Cleared(Own, walk.unit)])
          /\ NextUnit(a.pools)
    BY DEF SplitAndSetUnitUnmapped
  <1> DEFINE E == Extended(a, 1)
             cleared == Cleared(Own, walk.unit)
             T == [E EXCEPT !.split1G = E.split1G \cup {g}, !.clear = cleared]
  <1>4. a.first .. a.first + 1 - 1 \subseteq Page
    BY AllocateGood DEF IInv, TypeOK
  <1>5. E \in Table /\ E.pt = Own.pt
    BY <1>2, <1>4, ExtendedTable
  <1>6. SetOwn(T)
    BY <1>3, <1>5
  <1> HIDE DEF E
  <1>7. cleared \subseteq Unit /\ walk.unit \in Unit
    BY <1>1, <1>2, ClearedUnits DEF Table
  <1>8. g \in Giga
    BY <1>7, GigaInGiga
  <1>9. page1G
    BY <1>1, <1>8, ProtectParts DEF AllSplit
  <1>10. E.split1G \cup {g} \subseteq Giga
    BY <1>5, <1>8 DEF Table
  <1> HIDE DEF g, cleared
  <1>11. T \in Table
    BY <1>5, <1>7, <1>10, Zenon DEF Table
  <1>12. T.pt = Own.pt /\ T.clear = cleared
    BY <1>5 DEF Table
  <1> HIDE DEF T
  <1>13. table'[thread] = T /\ \A t \in Thread : t # thread => table'[t] = table[t]
    BY <1>2, <1>6, <1>11, SetOwnTable
  <1>14. PoolsInv' /\ (SameRing(pools') \/ \E base \in DOMAIN pools' : Inserted(pools', base))
    BY <1>1, <1>3, GrantRing, ProtectParts
  <1>15. /\ DOMAIN pools \subseteq DOMAIN pools'
         /\ \A c \in DOMAIN pools : pools'[c].units = pools[c].units
    BY <1>3, AllocateGood DEF IInv, TypeOK
  <1>16. NextUnit(pools')
    BY <1>3
  <1> QED
    BY <1>1, <1>9, <1>12, <1>13, <1>14, <1>15, <1>16, ProtectingKeeps DEF cleared

\* Nothing is lost where the model stops.
LEMMA StutterProtect ==
  ASSUME ProtectIInv,
         UNCHANGED <<page1G, vmm, pools, current, table, thread, walk>>,
         pc' \in {pc, "outOfMemory"}
  PROVE  ProtectIInv'
  <1>1. PoolsInv' /\ SplitsMatch' /\ AllSplit' /\ TablesProtected'
    BY ProtectParts DEF PoolsInv, OneRing, PoolUnits, UnitsOf, VmmUnits, AllSplit,
       Own, SplitsMatch, UnitMatches, SplitAndUnmapPage, MatchesVmm, MatchesMmio,
       ContainsOrContained, VmmStart, TablesProtected, Finished, Unmapped
  <1>2. ASSUME pc' = "protect"
        PROVE  \E S \in SUBSET DOMAIN pools' : WalkedOver(S)'
    <2>1. PICK S \in SUBSET DOMAIN pools : WalkedOver(S)
      BY <1>2, ProtectParts
    <2>2. WalkedOver(S)'
      BY <2>1 DEF WalkedOver, ToHide, Own, UnitsOf
    <2> QED
      BY <2>1, <2>2
  <1> QED
    BY <1>1, <1>2 DEF ProtectIInv, ProtectInv, PoolsInv, SplitsMatch, AllSplit

\* Every step, stuttering included, preserves the invariant.
LEMMA NextProtect ==
  ASSUME IInv, IInv', ProtectIInv, [Next]_vars
  PROVE  ProtectIInv'
  <1>1. CASE OutOfMemory
    BY <1>1, StutterProtect DEF OutOfMemory
  <1>2. CASE UNCHANGED vars
    BY <1>2, StutterProtect DEF vars
  <1> QED
    BY <1>1, <1>2, CreateProtect, MapProtect, Split1GProtect, Split2MProtect,
       EnableProtect, SetUnitProtect, SplitAndSetUnitProtect DEF Next

-----------------------------------------------------------------------------
(***************************************************************************)
(* The theorems.                                                           *)
(***************************************************************************)

\* The pools stay one ring, and the walk of EnablePageTableProtection leaves
\* behind only pools that lead to where it is and that hide what they have to.
THEOREM WalkInvariant == Spec => []ProtectInv
  <1>1. Init => ProtectIInv
    BY InitProtect
  <1>2. IInv /\ IInv' /\ ProtectIInv /\ [Next]_vars => ProtectIInv'
    BY NextProtect
  <1>3. ProtectIInv => ProtectInv
    BY DEF ProtectIInv
  <1> QED
    BY <1>1, <1>2, <1>3, InductiveInvariant, PTL DEF Spec

\* Every finished table hides the tables built before it from the guest, and
\* itself where nothing had to be split while it was being protected.
THEOREM TablesAlwaysProtected == Spec => []TablesProtected
  <1>1. Init => ProtectIInv
    BY InitProtect
  <1>2. IInv /\ IInv' /\ ProtectIInv /\ [Next]_vars => ProtectIInv'
    BY NextProtect
  <1>3. ProtectIInv => TablesProtected
    BY DEF ProtectIInv
  <1> QED
    BY <1>1, <1>2, <1>3, InductiveInvariant, PTL DEF Spec

=============================================================================
