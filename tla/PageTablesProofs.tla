-------------------------- MODULE PageTablesProofs --------------------------
(***************************************************************************)
(* Proofs about PageTables, for every number of threads, every size of     *)
(* pages and memory, and whatever memory UEFI hands out.                   *)
(*                                                                         *)
(* The argument: pools are runs of units that do not overlap; in each, the *)
(* pages between header and offset are those handed out.  Linking a pool   *)
(* hands out nothing, taking pages hands out exactly pages that were not.  *)
(***************************************************************************)
EXTENDS PageTables, TLAPS

(***************************************************************************)
(* Arithmetic of units and pages.                                          *)
(***************************************************************************)

\* More units are more pages.
LEMMA MulMono == \A a, b \in Nat : a <= b => a * UnitPages <= b * UnitPages
  BY SizesAssumption

\* A new pool has room for what was asked of it, and for its header.
LEMMA EnoughUnits ==
  ASSUME NEW n \in Nat
  PROVE  /\ n \div UnitPages + 1 \in Nat \ {0}
         /\ n <= (n \div UnitPages + 1) * UnitPages - 1
  BY SizesAssumption

\* A unit of the address space consists of pages of the address space.
LEMMA UnitInPage ==
  ASSUME NEW u \in Unit
  PROVE  u * UnitPages .. (u + 1) * UnitPages - 1 \subseteq Page
  <1> DEFINE N == NumGigas * UnitsPerGiga
  <1>1. N \in Nat
    BY SizesAssumption DEF NumGigas
  <1>2. u \in Nat /\ u + 1 <= N
    BY <1>1 DEF Unit
  <1>3. (u + 1) * UnitPages <= N * UnitPages
    BY <1>1, <1>2, MulMono
  <1> QED
    BY <1>1, <1>2, <1>3, SizesAssumption DEF Page

-----------------------------------------------------------------------------
(***************************************************************************)
(* Pools.                                                                  *)
(***************************************************************************)

Run(ps, b) == b .. b + ps[b].units - 1
HandedFrom(ps, b) == b * UnitPages + 1 .. b * UnitPages + ps[b].offset - 1
Handed(ps) == UNION {HandedFrom(ps, b) : b \in DOMAIN ps}

GoodPool(ps, b) ==
  /\ b \in Unit /\ ps[b] \in Pool
  /\ ps[b].units > 0 /\ ps[b].offset > 0
  /\ PoolSize(ps, b) = ps[b].units * UnitPages
  /\ Run(ps, b) \subseteq Ram
  /\ ps[b].next \in DOMAIN ps

GoodPools(ps) ==
  /\ \A b \in DOMAIN ps : GoodPool(ps, b)
  /\ \A b, c \in DOMAIN ps : b # c => Run(ps, b) \cap Run(ps, c) = {}

\* Pages of two pools that do not overlap are different.
LEMMA RunsApart ==
  ASSUME NEW b \in Nat, NEW m \in Nat \ {0}, NEW c \in Nat, NEW k \in Nat \ {0},
         (b .. b + m - 1) \cap (c .. c + k - 1) = {}
  PROVE  (b + m) * UnitPages <= c * UnitPages \/ (c + k) * UnitPages <= b * UnitPages
  <1>1. b + m <= c \/ c + k <= b
    <2>1. SUFFICES ASSUME b + m > c, c + k > b
                   PROVE  FALSE
      BY SMT
    <2>2. CASE b <= c
      BY <2>1, <2>2, c \in (b .. b + m - 1) \cap (c .. c + k - 1)
    <2>3. CASE b > c
      BY <2>1, <2>3, b \in (b .. b + m - 1) \cap (c .. c + k - 1)
    <2> QED
      BY <2>2, <2>3
  <1> QED
    BY <1>1, MulMono

\* Taking n free pages of pool b keeps the pools good, hands out exactly those
\* pages, and none of them had been handed out before.
LEMMA TakeGood ==
  ASSUME NEW ps, GoodPools(ps), NEW b \in DOMAIN ps,
         NEW n \in Nat \ {0}, n <= ps[b].freePages,
         NEW a, a = Take(ps, b, n)
  PROVE  /\ GoodPools(a.pools)
         /\ DOMAIN a.pools = DOMAIN ps
         /\ \A c \in DOMAIN ps : a.pools[c].units = ps[c].units
         /\ a.current = b
         /\ a.first \in Page
         /\ a.first .. a.first + n - 1 \subseteq Page
         /\ Handed(a.pools) = Handed(ps) \cup a.first .. a.first + n - 1
         /\ Handed(ps) \cap a.first .. a.first + n - 1 = {}
  <1> DEFINE q == a.pools
  <1> DEFINE r == Advanced(ps[b], n)
  <1>1. q = [ps EXCEPT ![b] = r] /\ a.current = b
        /\ a.first = b * UnitPages + ps[b].offset
    BY DEF Take
  <1>2. DOMAIN q = DOMAIN ps
    BY <1>1
  <1>3. q[b] = r /\ \A c \in DOMAIN ps : c # b => q[c] = ps[c]
    BY <1>1
  <1>4. ps[b] \in Pool /\ b \in Unit /\ b \in Nat
    BY DEF GoodPools, GoodPool, Unit
  <1>5. /\ r.offset = ps[b].offset + n
        /\ r.freePages = ps[b].freePages - n
        /\ r.units = ps[b].units
        /\ r.next = ps[b].next
    BY <1>4 DEF Pool, Advanced
  <1>6. r \in Pool
    <2>1. ps[b].offset + n \in Nat /\ ps[b].freePages - n \in Nat
      BY <1>4 DEF Pool
    <2> QED
      BY <2>1, <1>4, Zenon DEF Pool, Advanced
  <1> HIDE DEF r
  <1>7. \A c \in DOMAIN ps : Run(q, c) = Run(ps, c)
    BY <1>3, <1>5 DEF Run
  <1>8. GoodPool(q, b)
    <2>1. GoodPool(ps, b)
      BY DEF GoodPools
    <2>2. PoolSize(q, b) = PoolSize(ps, b)
      BY <1>3, <1>4, <1>5 DEF PoolSize, Pool
    <2>3. q[b].offset > 0
      BY <1>3, <1>4, <1>5, <2>1 DEF GoodPool, Pool
    <2> QED
      BY <1>2, <1>3, <1>5, <1>6, <1>7, <2>1, <2>2, <2>3 DEF GoodPool
  <1>9. \A c \in DOMAIN ps : c # b => GoodPool(q, c)
    BY <1>2, <1>3, <1>7 DEF GoodPools, GoodPool, PoolSize
  <1>10. GoodPools(q)
    BY <1>2, <1>7, <1>8, <1>9 DEF GoodPools
  <1>11. \A c \in DOMAIN q : c \in Nat /\ q[c].units \in Nat \ {0} /\ q[c].offset \in Nat
          /\ q[c].freePages \in Nat /\ q[c].offset + q[c].freePages = q[c].units * UnitPages
    BY <1>10 DEF GoodPools, GoodPool, Pool, PoolSize, Unit
  <1>12. a.first .. a.first + n - 1 \subseteq Page
    <2>1. b + q[b].units - 1 \in Unit
      <3>1. b + q[b].units - 1 \in Run(q, b)
        BY <1>2, <1>11 DEF Run
      <3> QED
        BY <1>8, <3>1, SizesAssumption DEF GoodPool
    <2>2. (b + q[b].units) * UnitPages <= NumGigas * UnitsPerGiga * UnitPages
      <3>1. NumGigas * UnitsPerGiga \in Nat
        BY SizesAssumption DEF NumGigas
      <3>2. b + q[b].units <= NumGigas * UnitsPerGiga
        BY <1>2, <1>11, <2>1, <3>1 DEF Unit
      <3> QED
        BY <1>2, <1>11, <3>1, <3>2, MulMono
    <2>3. a.first + n <= (b + q[b].units) * UnitPages
      BY <1>1, <1>2, <1>3, <1>4, <1>5, <1>11, SizesAssumption DEF Pool
    <2>4. a.first \in Nat
      BY <1>1, <1>4, SizesAssumption DEF Pool
    <2>5. NumGigas * UnitsPerGiga * UnitPages \in Nat
      BY SizesAssumption DEF NumGigas
    <2>6. (b + q[b].units) * UnitPages \in Nat
      BY <1>2, <1>11, SizesAssumption
    <2>7. a.first + n <= NumGigas * UnitsPerGiga * UnitPages
      <3> HIDE DEF q
      <3> QED
        BY <2>2, <2>3, <2>4, <2>5, <2>6
    <2> QED
      BY <2>4, <2>5, <2>7 DEF Page
  <1>13. HandedFrom(q, b) = HandedFrom(ps, b) \cup a.first .. a.first + n - 1
    <2>1. ps[b].offset > 0
      BY DEF GoodPools, GoodPool
    <2> QED
      BY <1>1, <1>3, <1>4, <1>5, <2>1, SizesAssumption DEF HandedFrom, Pool
  <1>14. \A c \in DOMAIN ps : c # b => HandedFrom(q, c) = HandedFrom(ps, c)
    BY <1>3 DEF HandedFrom
  <1>15. Handed(q) = Handed(ps) \cup a.first .. a.first + n - 1
    BY <1>2, <1>13, <1>14 DEF Handed
  <1>16. \A c \in DOMAIN ps : HandedFrom(ps, c) \cap a.first .. a.first + n - 1 = {}
    <2> TAKE c \in DOMAIN ps
    <2>1. CASE c = b
      BY <1>1, <1>4, <2>1, SizesAssumption DEF HandedFrom, Pool
    <2>2. CASE c # b
      <3>1. Run(q, b) \cap Run(q, c) = {}
        BY <1>2, <1>10, <2>2 DEF GoodPools
      <3>2. \/ (b + q[b].units) * UnitPages <= c * UnitPages
            \/ (c + q[c].units) * UnitPages <= b * UnitPages
        BY <1>2, <1>11, <3>1, RunsApart DEF Run
      <3>3. HandedFrom(ps, c) \subseteq
              c * UnitPages .. (c + q[c].units) * UnitPages - 1
        BY <1>2, <1>3, <1>11, <2>2, SizesAssumption DEF HandedFrom
      <3>4. a.first .. a.first + n - 1 \subseteq
              b * UnitPages .. (b + q[b].units) * UnitPages - 1
        BY <1>1, <1>2, <1>3, <1>4, <1>5, <1>11, SizesAssumption DEF Pool
      <3> QED
        BY <1>2, <1>4, <1>11, <3>2, <3>3, <3>4, SizesAssumption
    <2> QED
      BY <2>1, <2>2
  <1>17. a.first \in Page
    <2>1. a.first \in Nat
      BY <1>1, <1>4, SizesAssumption DEF Pool
    <2>2. a.first \in a.first .. a.first + n - 1
      BY <2>1
    <2> QED
      BY <1>12, <2>2
  <1>18. Handed(ps) \cap a.first .. a.first + n - 1 = {}
    BY <1>16 DEF Handed
  <1>19. \A c \in DOMAIN ps : q[c].units = ps[c].units
    BY <1>3, <1>5
  <1> QED
    BY <1>1, <1>2, <1>10, <1>12, <1>15, <1>17, <1>18, <1>19

\* Linking a pool of m units keeps the pools good and hands out nothing.
LEMMA LinkGood ==
  ASSUME GoodPools(pools), current \in DOMAIN pools \cup {None},
         NEW m \in Nat \ {0}, NEW base \in FreeRuns(m),
         NEW q, q = LinkPool(base, m)
  PROVE  /\ GoodPools(q)
         /\ DOMAIN q = DOMAIN pools \cup {base}
         /\ \A c \in DOMAIN pools : q[c].units = pools[c].units
         /\ q[base].freePages = m * UnitPages - 1
         /\ Handed(q) = Handed(pools)
  <1> DEFINE after == IF current = None THEN base ELSE pools[current].next
             new == NewPool(m, after)
  <1>1. /\ base \in Unit /\ base \in Nat
        /\ base .. base + m - 1 \subseteq Ram
        /\ (base .. base + m - 1) \cap PoolUnits = {}
    BY SizesAssumption DEF FreeRuns, Unit
  <1>2. \A c \in DOMAIN pools : /\ c \in Nat /\ pools[c].units \in Nat \ {0}
                               /\ Run(pools, c) \subseteq PoolUnits
                               /\ c \in PoolUnits
    <2> TAKE c \in DOMAIN pools
    <2>1. c \in Nat /\ pools[c].units \in Nat \ {0}
      BY DEF GoodPools, GoodPool, Unit, Pool
    <2>2. Run(pools, c) \subseteq PoolUnits
      BY DEF Run, PoolUnits, UnitsOf
    <2>3. c \in Run(pools, c)
      BY <2>1 DEF Run
    <2> QED
      BY <2>1, <2>2, <2>3
  <1>3. base \notin DOMAIN pools
    <2>1. base \in base .. base + m - 1
      BY <1>1
    <2> QED
      BY <1>1, <1>2, <2>1
  <1>4. DOMAIN q = DOMAIN pools \cup {base}
    BY DEF LinkPool
  <1>5. q[base] = new
    <2>1. base # current
      BY <1>1, <1>3 DEF None
    <2> QED
      BY <2>1 DEF LinkPool
  <1>6. \A c \in DOMAIN pools :
          q[c] = IF c = current THEN Relinked(pools[c], base) ELSE pools[c]
    BY <1>3 DEF LinkPool
  <1> HIDE DEF new
  <1>7. \A c \in DOMAIN pools :
          /\ q[c].units = pools[c].units
          /\ q[c].offset = pools[c].offset
          /\ q[c].freePages = pools[c].freePages
          /\ q[c].next = IF c = current THEN base ELSE pools[c].next
          /\ q[c] \in Pool
    <2> TAKE c \in DOMAIN pools
    <2>1. pools[c] \in Pool
      BY DEF GoodPools, GoodPool
    <2>2. CASE c = current
      <3>1. q[c] = Relinked(pools[c], base)
        BY <1>6, <2>2
      <3>2. q[c] \in Pool
        BY <1>1, <2>1, <3>1, Zenon DEF Pool, Relinked
      <3> QED
        BY <2>1, <2>2, <3>1, <3>2 DEF Pool, Relinked
    <2>3. CASE c # current
      BY <1>6, <2>1, <2>3
    <2> QED
      BY <2>2, <2>3
  <1>8. /\ new \in Pool /\ new.units = m /\ new.offset = 1
        /\ new.freePages = m * UnitPages - 1
        /\ new.next \in DOMAIN pools \cup {base}
    <2>1. m * UnitPages - 1 \in Nat
      BY SizesAssumption
    <2>2. new.next = after /\ after \in DOMAIN pools \cup {base}
      BY DEF new, NewPool, GoodPools, GoodPool
    <2>3. new.next \in Unit
      BY <1>1, <2>2 DEF GoodPools, GoodPool
    <2> QED
      BY <2>1, <2>2, <2>3 DEF new, NewPool, Pool
  <1>9. \A c \in DOMAIN pools : Run(q, c) = Run(pools, c)
    BY <1>7 DEF Run
  <1>10. Run(q, base) = base .. base + m - 1
    BY <1>5, <1>8 DEF Run
  <1>11. \A c \in DOMAIN pools : GoodPool(q, c)
    <2> TAKE c \in DOMAIN pools
    <2>1. GoodPool(pools, c)
      BY DEF GoodPools
    <2>2. q[c].next \in DOMAIN q
      BY <1>4, <1>7, <2>1 DEF GoodPool
    <2> QED
      BY <1>7, <1>9, <2>1, <2>2 DEF GoodPool, PoolSize
  <1>12. GoodPool(q, base)
    <2>1. PoolSize(q, base) = m * UnitPages
      BY <1>5, <1>8, SizesAssumption DEF PoolSize
    <2> QED
      BY <1>1, <1>4, <1>5, <1>8, <1>10, <2>1 DEF GoodPool
  <1>13. GoodPools(q)
    <2>1. \A b, c \in DOMAIN pools : b # c => Run(q, b) \cap Run(q, c) = {}
      BY <1>9 DEF GoodPools
    <2>2. \A c \in DOMAIN pools : Run(q, base) \cap Run(q, c) = {}
      BY <1>1, <1>2, <1>9, <1>10
    <2> QED
      BY <1>4, <1>11, <1>12, <2>1, <2>2 DEF GoodPools
  <1>14. Handed(q) = Handed(pools)
    <2>1. \A c \in DOMAIN pools : HandedFrom(q, c) = HandedFrom(pools, c)
      BY <1>7 DEF HandedFrom
    <2>2. HandedFrom(q, base) = {}
      BY <1>1, <1>5, <1>8, SizesAssumption DEF HandedFrom
    <2> QED
      BY <1>4, <2>1, <2>2 DEF Handed
  <1> QED
    BY <1>4, <1>5, <1>7, <1>8, <1>13, <1>14

\* AllocatePageTableMemory, with or without a new pool.
LEMMA AllocateGood ==
  ASSUME GoodPools(pools), current \in DOMAIN pools \cup {None},
         NEW n \in Nat \ {0}, NEW a \in AllocatePageTableMemory(n)
  PROVE  /\ GoodPools(a.pools)
         /\ a.current \in DOMAIN a.pools
         /\ DOMAIN pools \subseteq DOMAIN a.pools
         /\ \A c \in DOMAIN pools : a.pools[c].units = pools[c].units
         /\ a.first \in Page
         /\ a.first .. a.first + n - 1 \subseteq Page
         /\ Handed(a.pools) = Handed(pools) \cup a.first .. a.first + n - 1
         /\ Handed(pools) \cap a.first .. a.first + n - 1 = {}
  <1>1. CASE current # None /\ n <= pools[current].freePages
    <2>1. a = Take(pools, current, n)
      BY <1>1 DEF AllocatePageTableMemory
    <2>2. current \in DOMAIN pools
      BY <1>1
    <2> QED
      BY <1>1, <2>1, <2>2, TakeGood
  <1>2. CASE ~(current # None /\ n <= pools[current].freePages)
    <2> DEFINE m == n \div UnitPages + 1
    <2>1. m \in Nat \ {0} /\ n <= m * UnitPages - 1
      BY EnoughUnits
    <2>2. PICK base \in FreeRuns(m) : a = Take(LinkPool(base, m), base, n)
      BY <1>2 DEF AllocatePageTableMemory
    <2> HIDE DEF m
    <2> DEFINE q == LinkPool(base, m)
    <2>3. /\ GoodPools(q)
          /\ DOMAIN q = DOMAIN pools \cup {base}
          /\ \A c \in DOMAIN pools : q[c].units = pools[c].units
          /\ q[base].freePages = m * UnitPages - 1
          /\ Handed(q) = Handed(pools)
      BY <2>1, LinkGood
    <2> HIDE DEF q
    <2>4. base \in DOMAIN q /\ n <= q[base].freePages
      BY <2>1, <2>3
    <2>5. a = Take(q, base, n)
      BY <2>2 DEF q
    <2>6. /\ GoodPools(a.pools)
          /\ DOMAIN a.pools = DOMAIN q
          /\ \A c \in DOMAIN q : a.pools[c].units = q[c].units
          /\ a.current = base
          /\ a.first \in Page
          /\ a.first .. a.first + n - 1 \subseteq Page
          /\ Handed(a.pools) = Handed(q) \cup a.first .. a.first + n - 1
          /\ Handed(q) \cap a.first .. a.first + n - 1 = {}
      BY <2>3, <2>4, <2>5, TakeGood
    <2> QED
      BY <2>3, <2>4, <2>6
  <1> QED
    BY <1>1, <1>2
-----------------------------------------------------------------------------
(***************************************************************************)
(* The inductive invariant.                                                *)
(***************************************************************************)

LapicUnit == UnitOf(LapicPage)
VmmMemory == VmmStart .. VmmStart + VmmPages - 1

\* The table of t has been built beyond unit u.
Past(t, u) ==
  \/ t < thread
  \/ t = thread /\ pc = "protect"
  \/ t = thread /\ pc = "map" /\ cursor > u

LapicDone(t) ==
  /\ table[t].pte # None
  /\ table[t].pte = table[t].pt[LapicUnit]
  /\ table[t].pte \in table[t].used
  /\ LapicPage \in table[t].hole

\* The walk is at a unit of a pool, with the rest of that pool before it.
WalkGood ==
  pc = "protect" =>
    /\ walk.head \in DOMAIN pools /\ walk.pool \in DOMAIN pools
    /\ walk.unit \in Run(pools, walk.pool)
    /\ walk.size =
         (walk.pool + pools[walk.pool].units - walk.unit) * UnitPages

Accounted ==
  /\ \A t1, t2 \in Thread : t1 # t2 => table[t1].used \cap table[t2].used = {}
  /\ UNION {table[t].used : t \in Thread} = Handed(pools)

\* The loops enter a 1G page at its start.
AtGigaStart ==
  pc = "map" /\ cursor \in Unit /\ GigaOf(cursor) \notin table[thread].split1G
    => cursor = GigaOf(cursor) * UnitsPerGiga

IInv ==
  /\ TypeOK
  /\ GoodPools(pools)
  /\ vmm .. vmm + VmmUnits - 1 \subseteq Ram
  /\ pc = "map" => current # None
  /\ WalkGood
  /\ Accounted
  /\ GuestMemoryKept
  /\ AtGigaStart
  /\ \A t \in Thread : Past(t, LapicUnit) => LapicDone(t)
  /\ VmmPages <= UnitPages =>
       \A t \in Thread : Past(t, vmm) => VmmMemory \subseteq table[t].hole

-----------------------------------------------------------------------------
(***************************************************************************)
(* Every action that allocates gives the pages to the current thread.      *)
(***************************************************************************)

\* The table with new pages: a table again, changed in nothing else.
LEMMA ExtendedTable ==
  ASSUME Own \in Table, NEW n \in Nat, NEW a,
         a.first .. a.first + n - 1 \subseteq Page,
         NEW T, T = Extended(a, n)
  PROVE  /\ T \in Table
         /\ T.used = Own.used \cup a.first .. a.first + n - 1
         /\ T.split1G = Own.split1G /\ T.pt = Own.pt /\ T.hole = Own.hole
         /\ T.clear = Own.clear /\ T.pte = Own.pte
  <1>1. Own.used \cup a.first .. a.first + n - 1 \subseteq Page
    BY DEF Table
  <1>2. T \in Table
    BY <1>1, Zenon DEF Extended, Table
  <1> QED
    BY <1>2 DEF Extended, Table

\* Replacing the current thread's table.
LEMMA SetOwnTable ==
  ASSUME table \in [Thread -> Table], thread \in Thread, NEW T \in Table, SetOwn(T)
  PROVE  /\ table' \in [Thread -> Table]
         /\ table'[thread] = T
         /\ \A t \in Thread : t # thread => table'[t] = table[t]
  BY DEF SetOwn

\* The pools and the accounts after an allocation.
LEMMA GrantKeeps ==
  ASSUME IInv, thread \in Thread, NEW n \in Nat \ {0},
         NEW a \in AllocatePageTableMemory(n), pools' = a.pools, current' = a.current,
         NEW T \in Table, T.used = Own.used \cup a.first .. a.first + n - 1, SetOwn(T)
  PROVE  /\ GoodPools(pools') /\ Accounted'
         /\ current' \in DOMAIN pools' /\ DOMAIN pools \subseteq DOMAIN pools'
         /\ \A c \in DOMAIN pools : pools'[c].units = pools[c].units
         /\ PoolUnits \subseteq PoolUnits'
  <1> DEFINE new == a.first .. a.first + n - 1
  <1>1. /\ GoodPools(pools)
        /\ current \in DOMAIN pools \cup {None}
        /\ table \in [Thread -> Table]
        /\ Accounted
    BY DEF IInv, TypeOK
  <1>2. /\ GoodPools(pools')
        /\ current' \in DOMAIN pools'
        /\ DOMAIN pools \subseteq DOMAIN pools'
        /\ \A c \in DOMAIN pools : pools'[c].units = pools[c].units
        /\ Handed(pools') = Handed(pools) \cup new
        /\ Handed(pools) \cap new = {}
    BY <1>1, AllocateGood
  <1>3. /\ table'[thread].used = table[thread].used \cup new
        /\ \A t \in Thread : t # thread => table'[t].used = table[t].used
    BY <1>1, SetOwnTable DEF Own
  <1> HIDE DEF new
  <1>4. \A t \in Thread : table[t].used \subseteq Handed(pools)
    BY <1>1 DEF Accounted
  <1>5. \A t1, t2 \in Thread : t1 # t2 => table'[t1].used \cap table'[t2].used = {}
    BY <1>1, <1>2, <1>3, <1>4 DEF Accounted
  <1>6. UNION {table'[t].used : t \in Thread} = Handed(pools')
    <2>1. UNION {table'[t].used : t \in Thread}
            = (UNION {table[t].used : t \in Thread}) \cup new
      BY <1>3
    <2> QED
      BY <1>1, <1>2, <2>1 DEF Accounted
  <1>7. PoolUnits \subseteq PoolUnits'
    BY <1>2 DEF PoolUnits, UnitsOf
  <1> QED
    BY <1>2, <1>5, <1>6, <1>7 DEF Accounted

\* Sizes of the VMM's memory; it does not contain the local APIC page.
LEMMA VmmFacts ==
  ASSUME IInv
  PROVE  /\ VmmPages \in Nat \ {0} /\ vmm \in Nat /\ VmmStart \in Nat
         /\ LapicPage \in Nat /\ LapicUnit \in Unit
         /\ LapicPage \in PagesOfUnit(LapicUnit)
         /\ LapicPage \notin VmmMemory
         /\ LapicUnit \notin Ram /\ LapicUnit # vmm
  <1>1. VmmPages \in Nat \ {0}
    BY SizesAssumption DEF VmmPages
  <1>2. vmm \in Nat /\ VmmStart \in Nat
    BY SizesAssumption DEF IInv, TypeOK, VmmStart, Unit
  <1>3. LapicPage \in Nat /\ LapicPage \in Page
    BY SizesAssumption DEF Page
  <1>4. LapicUnit \in Unit /\ LapicPage \in PagesOfUnit(LapicUnit)
    <2> DEFINE N == NumGigas * UnitsPerGiga
    <2>1. N \in Nat
      BY SizesAssumption DEF NumGigas
    <2>2. LapicPage \in 0 .. N * UnitPages - 1
      BY <1>3 DEF Page
    <2> HIDE DEF N
    <2>3. LapicPage \div UnitPages \in 0 .. N - 1
      BY <2>1, <2>2, SizesAssumption
    <2>4. LapicPage \in (LapicPage \div UnitPages) * UnitPages
                          .. (LapicPage \div UnitPages + 1) * UnitPages - 1
      BY <1>3, SizesAssumption
    <2> QED
      BY <2>3, <2>4 DEF LapicUnit, UnitOf, PagesOfUnit, Unit, N
  <1>5. LapicUnit \notin Ram
    BY SizesAssumption DEF LapicUnit
  <1>6. VmmUnits \in Nat \ {0} /\ VmmPages - 1 <= VmmUnits * UnitPages - 1
    <2>1. VmmPages - 1 \in Nat
      BY <1>1
    <2> QED
      BY <2>1, EnoughUnits DEF VmmUnits
  <1>7. LapicPage \notin VmmMemory
    <2> SUFFICES ASSUME LapicPage \in VmmMemory
                 PROVE  LapicUnit \in vmm .. vmm + VmmUnits - 1
      BY <1>5 DEF IInv
    <2>1. LapicPage >= vmm * UnitPages /\ LapicPage < (vmm + VmmUnits) * UnitPages
      BY <1>1, <1>2, <1>3, <1>6, SizesAssumption DEF VmmMemory, VmmStart
    <2>2. LapicUnit * UnitPages <= LapicPage /\ LapicPage < (LapicUnit + 1) * UnitPages
          /\ LapicUnit \in Nat
      BY <1>3, <1>4, SizesAssumption DEF PagesOfUnit, Unit
    <2>3. LapicUnit >= vmm /\ LapicUnit < vmm + VmmUnits
      <3>1. CASE LapicUnit < vmm
        <4>1. (LapicUnit + 1) * UnitPages <= vmm * UnitPages
          BY <1>2, <2>2, <3>1, MulMono
        <4> QED
          BY <1>2, <1>3, <2>1, <2>2, <4>1, SizesAssumption
      <3>2. CASE LapicUnit >= vmm + VmmUnits
        <4>1. (vmm + VmmUnits) * UnitPages <= LapicUnit * UnitPages
          BY <1>2, <1>6, <2>2, <3>2, MulMono
        <4> QED
          BY <1>2, <1>3, <1>6, <2>1, <2>2, <4>1, SizesAssumption
      <3> QED
        BY <1>2, <1>6, <2>2, <3>1, <3>2
    <2> QED
      BY <1>2, <1>6, <2>2, <2>3
  <1>8. LapicUnit # vmm
    BY <1>2, <1>5, <1>6, vmm \in vmm .. vmm + VmmUnits - 1 DEF IInv
  <1> QED
    BY <1>1, <1>2, <1>3, <1>4, <1>5, <1>7, <1>8

\* The tables other than the current one keep what they have; so does the
\* current one in a step that changes neither its PTEs nor the record of them.
LEMMA FinishedKept ==
  ASSUME IInv, table' \in [Thread -> Table], thread \in Thread,
         \A t \in Thread : t # thread => table'[t] = table[t],
         vmm' = vmm, NEW t \in Thread, t < thread
  PROVE  /\ LapicDone(t)'
         /\ VmmPages <= UnitPages => (VmmMemory \subseteq table[t].hole)'
  <1>1. t # thread
    BY DEF Thread
  <1>2. Past(t, LapicUnit) /\ Past(t, vmm)
    BY DEF Past
  <1> QED
    BY <1>1, <1>2 DEF IInv, LapicDone, VmmMemory, VmmStart

-----------------------------------------------------------------------------
(***************************************************************************)
(* One lemma per action.                                                   *)
(***************************************************************************)

\* Init establishes the invariant.
LEMMA InitIInv == Init => IInv
  <1> SUFFICES ASSUME Init PROVE IInv
    OBVIOUS
  <1> USE DEF Init
  <1>1. DOMAIN pools = {}
    OBVIOUS
  <1>2. TypeOK
    <2>1. vmm \in Unit
      BY SizesAssumption
    <2>2. table \in [Thread -> Table]
      BY Zenon DEF Table
    <2>3. 0 \in Unit
      <3>1. NumGigas * UnitsPerGiga \in Nat \ {0}
        BY SizesAssumption DEF NumGigas
      <3> QED
        BY <3>1 DEF Unit
    <2>4. 0 \in Thread
      BY SizesAssumption DEF Thread
    <2>5. walk \in [head : Unit, pool : Unit, unit : Unit, size : Nat]
      BY <2>3
    <2>6. thread \in 0 .. NumProcessors /\ thread \in Thread /\ cursor \in Nat
      BY <2>4, SizesAssumption
    <2> QED
      BY <1>1, <2>1, <2>2, <2>5, <2>6, Zenon DEF TypeOK
  <1>3. GoodPools(pools) /\ WalkGood /\ AtGigaStart
    BY <1>1 DEF GoodPools, WalkGood, AtGigaStart
  <1>4. Accounted
    <2>1. \A t \in Thread : table[t].used = {}
      OBVIOUS
    <2>2. Handed(pools) = {}
      BY <1>1 DEF Handed
    <2>3. UNION {table[t].used : t \in Thread} = {}
      BY <2>1
    <2> QED
      BY <2>1, <2>2, <2>3 DEF Accounted
  <1>5. GuestMemoryKept
    BY DEF GuestMemoryKept
  <1>6. \A t \in Thread, u \in Nat : ~Past(t, u)
    BY DEF Past, Thread
  <1>7. LapicUnit \in Nat /\ vmm \in Nat
    BY SizesAssumption DEF Page, LapicUnit, UnitOf, Unit
  <1>8. vmm .. vmm + VmmUnits - 1 \subseteq Ram /\ pc # "map"
    OBVIOUS
  <1> QED
    BY <1>2, <1>3, <1>4, <1>5, <1>6, <1>7, <1>8 DEF IInv

\* A new table starts with nothing hidden.
LEMMA CreateKeeps ==
  ASSUME IInv, CreatePageTables
  PROVE  IInv'
  <1> DEFINE n == TotalPagesNum
             roots == IF page1G THEN {} ELSE Giga
  <1>1. n \in Nat \ {0} /\ roots \subseteq Giga
    BY SizesAssumption DEF TotalPagesNum
  <1>2. thread \in Thread /\ table \in [Thread -> Table] /\ Own \in Table
    BY DEF IInv, TypeOK, CreatePageTables, Own
  <1>3. PICK a \in AllocatePageTableMemory(n) :
          /\ pools' = a.pools /\ current' = a.current
          /\ SetOwn([Extended(a, n) EXCEPT !.split1G = roots])
    BY DEF CreatePageTables
  <1> DEFINE E == Extended(a, n)
             T == [E EXCEPT !.split1G = roots]
  <1>4. a.first .. a.first + n - 1 \subseteq Page
    BY <1>1, AllocateGood DEF IInv, TypeOK
  <1> HIDE DEF n, roots
  <1>5. /\ E \in Table
        /\ E.used = Own.used \cup a.first .. a.first + n - 1
        /\ E.hole = Own.hole /\ E.clear = Own.clear
    BY <1>1, <1>2, <1>4, ExtendedTable
  <1> HIDE DEF E
  <1>6. T \in Table
    BY <1>1, <1>5, Zenon DEF Table
  <1>7. T.used = Own.used \cup a.first .. a.first + n - 1
        /\ T.hole = Own.hole /\ T.clear = Own.clear
    BY <1>5 DEF Table
  <1>8. SetOwn(T)
    BY <1>3 DEF E
  <1> HIDE DEF T
  <1>9. /\ GoodPools(pools') /\ Accounted'
        /\ current' \in DOMAIN pools' /\ PoolUnits \subseteq PoolUnits'
    BY <1>1, <1>2, <1>3, <1>6, <1>7, <1>8, GrantKeeps
  <1>10. /\ table' \in [Thread -> Table] /\ table'[thread] = T
         /\ \A t \in Thread : t # thread => table'[t] = table[t]
    BY <1>2, <1>6, <1>8, SetOwnTable
  <1>11. pc' = "map" /\ cursor' = 0
         /\ page1G' = page1G /\ vmm' = vmm /\ thread' = thread /\ walk' = walk
    BY DEF CreatePageTables
  <1>12. TypeOK'
    BY <1>2, <1>9, <1>10, <1>11 DEF IInv, TypeOK, GoodPools, GoodPool
  <1>13. GuestMemoryKept'
    BY <1>2, <1>7, <1>9, <1>10, <1>11 DEF IInv, GuestMemoryKept, Own, VmmStart
  <1>14. AtGigaStart'
    BY <1>11, SizesAssumption DEF AtGigaStart, GigaOf
  <1>15. \A t \in Thread, u \in Nat : Past(t, u)' => t < thread
    BY <1>11 DEF Past
  <1>16. LapicUnit \in Nat /\ vmm \in Nat
    BY VmmFacts DEF Unit
  <1>17. /\ \A t \in Thread : Past(t, LapicUnit)' => LapicDone(t)'
         /\ VmmPages <= UnitPages =>
             \A t \in Thread : Past(t, vmm)' => (VmmMemory \subseteq table[t].hole)'
    BY <1>2, <1>10, <1>11, <1>15, <1>16, FinishedKept
  <1>18. (vmm .. vmm + VmmUnits - 1 \subseteq Ram)' /\ (pc = "map" => current # None)'
         /\ WalkGood'
    BY <1>9, <1>11 DEF IInv, VmmUnits, WalkGood, GoodPools, GoodPool, Unit, None
  <1> QED
    BY <1>9, <1>11, <1>12, <1>13, <1>14, <1>17, <1>18 DEF IInv, Past, VmmMemory, VmmStart

\* A page that contains the local APIC page, or all of the VMM's memory,
\* matches; a 4K page matches only if it is one of these pages.
LEMMA Matching ==
  ASSUME IInv, NEW lo \in Nat, NEW hi \in Nat
  PROVE  /\ lo <= LapicPage /\ LapicPage < hi => SplitAndUnmapPage(lo, hi)
         /\ lo <= VmmStart /\ VmmStart + VmmPages <= hi => SplitAndUnmapPage(lo, hi)
         /\ SplitAndUnmapPage(lo, lo + 1) => lo \in VmmMemory \cup {LapicPage}
         /\ MatchesMmio(lo, lo + 1) <=> lo = LapicPage
         /\ lo \in VmmMemory => SplitAndUnmapPage(lo, lo + 1)
         /\ MatchesMmio(lo, hi) => \/ LapicPage \in lo .. hi - 1
                                  \/ lo = LapicPage \/ hi <= lo
  BY VmmFacts DEF SplitAndUnmapPage, MatchesVmm, MatchesMmio, ContainsOrContained,
     VmmMemory

\* A unit lies in its 1G page.
LEMMA UnitInGiga ==
  ASSUME NEW u \in Nat, NEW g \in Nat, g = GigaOf(u)
  PROVE  /\ g * UnitsPerGiga <= u /\ u < (g + 1) * UnitsPerGiga
         /\ GigaStart(g) <= u * UnitPages /\ (u + 1) * UnitPages <= GigaStart(g + 1)
         /\ GigaStart(g) \in Nat /\ GigaStart(g + 1) \in Nat
  <1>1. /\ g * UnitsPerGiga <= u /\ u < (g + 1) * UnitsPerGiga
        /\ g * UnitsPerGiga \in Nat /\ (g + 1) * UnitsPerGiga \in Nat
    BY SizesAssumption DEF GigaOf
  <1>2. g * UnitsPerGiga * UnitPages <= u * UnitPages
    BY <1>1, MulMono
  <1>3. (u + 1) * UnitPages <= (g + 1) * UnitsPerGiga * UnitPages
    BY <1>1, MulMono
  <1> QED
    BY <1>1, <1>2, <1>3, SizesAssumption DEF GigaStart

\* The 1G page of a unit of the address space is in the address space.
LEMMA GigaInGiga ==
  ASSUME NEW u \in Unit
  PROVE  GigaOf(u) \in Giga
  <1> DEFINE U == NumGigas
  <1>1. U \in Nat /\ UnitsPerGiga \in Nat \ {0} /\ u \in 0 .. U * UnitsPerGiga - 1
    BY SizesAssumption DEF NumGigas, Unit
  <1> HIDE DEF U
  <1>2. u \div UnitsPerGiga \in 0 .. U - 1
    BY <1>1
  <1> QED
    BY <1>2 DEF Giga, GigaOf, U

\* The local APIC's unit matches, and so does the VMM's if it is one unit.
LEMMA UnitsMatch ==
  ASSUME IInv
  PROVE  /\ UnitMatches(LapicUnit) /\ GigaMatches(GigaOf(LapicUnit))
         /\ VmmPages <= UnitPages => UnitMatches(vmm) /\ GigaMatches(GigaOf(vmm))
  <1>1. LapicUnit \in Nat /\ GigaOf(LapicUnit) \in Nat /\ vmm \in Nat /\ GigaOf(vmm) \in Nat
    BY VmmFacts, SizesAssumption DEF GigaOf, Unit
  <1>2. /\ LapicUnit * UnitPages \in Nat /\ (LapicUnit + 1) * UnitPages \in Nat
        /\ vmm * UnitPages \in Nat /\ (vmm + 1) * UnitPages \in Nat
    BY <1>1, SizesAssumption
  <1>3. LapicUnit * UnitPages <= LapicPage /\ LapicPage < (LapicUnit + 1) * UnitPages
    BY <1>1, <1>2, VmmFacts DEF PagesOfUnit
  <1>4. UnitMatches(LapicUnit)
    BY <1>2, <1>3, Matching DEF UnitMatches
  <1>5. GigaMatches(GigaOf(LapicUnit))
    <2>1. /\ GigaStart(GigaOf(LapicUnit)) <= LapicPage
          /\ LapicPage < GigaStart(GigaOf(LapicUnit) + 1)
          /\ GigaStart(GigaOf(LapicUnit)) \in Nat /\ GigaStart(GigaOf(LapicUnit) + 1) \in Nat
      BY <1>1, <1>2, <1>3, UnitInGiga, VmmFacts
    <2> QED
      BY <2>1, Matching DEF GigaMatches
  <1>6. ASSUME VmmPages <= UnitPages
        PROVE  UnitMatches(vmm) /\ GigaMatches(GigaOf(vmm))
    <2>1. VmmStart + VmmPages <= (vmm + 1) * UnitPages
      BY <1>1, <1>6, VmmFacts, SizesAssumption DEF VmmStart
    <2>2. UnitMatches(vmm)
      BY <1>2, <2>1, Matching DEF UnitMatches, VmmStart
    <2>3. /\ GigaStart(GigaOf(vmm)) <= VmmStart
          /\ VmmStart + VmmPages <= GigaStart(GigaOf(vmm) + 1)
          /\ GigaStart(GigaOf(vmm)) \in Nat /\ GigaStart(GigaOf(vmm) + 1) \in Nat
      BY <1>1, <1>2, <2>1, UnitInGiga, VmmFacts DEF VmmStart
    <2> QED
      BY <2>2, <2>3, Matching DEF GigaMatches
  <1> QED
    BY <1>4, <1>5, <1>6

\* A 1G page is passed over only if it holds neither.
LEMMA Map1GKeeps ==
  ASSUME IInv, Map1GPage
  PROVE  IInv'
  <1> DEFINE g == GigaOf(cursor)
  <1>1. /\ pc = "map" /\ cursor \in Unit /\ cursor \in Nat
        /\ g \notin table[thread].split1G /\ ~GigaMatches(g)
        /\ cursor' = cursor + UnitsPerGiga
        /\ UNCHANGED <<page1G, vmm, pools, current, table, thread, pc, walk>>
    BY DEF Map1GPage, At1G, Mapping, Own, Unit
  <1>2. g \in Nat /\ cursor = g * UnitsPerGiga /\ cursor' = (g + 1) * UnitsPerGiga
    BY <1>1, SizesAssumption DEF IInv, AtGigaStart, GigaOf
  <1>3. cursor' \in Nat /\ GigaOf(cursor') = g + 1
    BY <1>2, SizesAssumption DEF GigaOf
  <1>4. \A u \in Nat : cursor' > u => cursor > u \/ GigaOf(u) = g
    BY <1>1, <1>2, SizesAssumption DEF GigaOf
  <1>5. LapicUnit \in Nat /\ vmm \in Nat
    BY VmmFacts DEF Unit
  <1>6. \A t \in Thread : Past(t, LapicUnit)' => Past(t, LapicUnit)
    BY <1>1, <1>4, <1>5, UnitsMatch DEF Past
  <1>7. VmmPages <= UnitPages => \A t \in Thread : Past(t, vmm)' => Past(t, vmm)
    BY <1>1, <1>4, <1>5, UnitsMatch DEF Past
  <1>8. AtGigaStart'
    BY <1>2, <1>3 DEF AtGigaStart
  <1>9. TypeOK'
    BY <1>1, <1>3 DEF IInv, TypeOK
  <1> QED
    BY <1>1, <1>6, <1>7, <1>8, <1>9 DEF IInv, WalkGood, Accounted, GuestMemoryKept,
       LapicDone, VmmMemory, VmmStart, VmmUnits, PoolUnits, UnitsOf

\* A 2M page is passed over only if it holds neither.
LEMMA Map2MKeeps ==
  ASSUME IInv, Map2MPage
  PROVE  IInv'
  <1> DEFINE g == GigaOf(cursor)
  <1>1. /\ pc = "map" /\ cursor \in Unit /\ cursor \in Nat
        /\ g \in table[thread].split1G /\ ~UnitMatches(cursor)
        /\ cursor' = cursor + 1
        /\ UNCHANGED <<page1G, vmm, pools, current, table, thread, pc, walk>>
    BY DEF Map2MPage, At2M, Mapping, Own, Unit
  <1>2. cursor' \in Nat
    BY <1>1
  <1>3. GigaOf(cursor') = g \/ cursor' = GigaOf(cursor') * UnitsPerGiga
    BY <1>1, SizesAssumption DEF GigaOf
  <1>4. \A u \in Nat : cursor' > u => cursor > u \/ u = cursor
    BY <1>1
  <1>5. LapicUnit \in Nat /\ vmm \in Nat
    BY VmmFacts DEF Unit
  <1>6. \A t \in Thread : Past(t, LapicUnit)' => Past(t, LapicUnit)
    BY <1>1, <1>4, <1>5, UnitsMatch DEF Past
  <1>7. VmmPages <= UnitPages => \A t \in Thread : Past(t, vmm)' => Past(t, vmm)
    BY <1>1, <1>4, <1>5, UnitsMatch DEF Past
  <1>8. AtGigaStart'
    BY <1>1, <1>3 DEF AtGigaStart
  <1>9. TypeOK'
    BY <1>1, <1>2 DEF IInv, TypeOK
  <1> QED
    BY <1>1, <1>6, <1>7, <1>8, <1>9 DEF IInv, WalkGood, Accounted, GuestMemoryKept,
       LapicDone, VmmMemory, VmmStart, VmmUnits, PoolUnits, UnitsOf

\* Splitting a 1G page hides nothing; the record of the PTE is only lost
\* before the local APIC page is reached.
LEMMA Split1GKeeps ==
  ASSUME IInv, Split1GPageTo2M
  PROVE  IInv'
  <1> DEFINE g == GigaOf(cursor)
             pte == IF MatchesMmio(GigaStart(g), GigaStart(g + 1)) THEN None ELSE Own.pte
  <1>1. /\ pc = "map" /\ cursor \in Unit /\ cursor \in Nat
        /\ g \notin table[thread].split1G
        /\ UNCHANGED <<page1G, vmm, thread, pc, cursor, walk>>
    BY DEF Split1GPageTo2M, At1G, Mapping, Own, Unit
  <1>2. thread \in Thread /\ table \in [Thread -> Table] /\ Own \in Table
    BY <1>1 DEF IInv, TypeOK, Own
  <1>3. PICK a \in AllocatePageTableMemory(1) :
          /\ pools' = a.pools /\ current' = a.current
          /\ SetOwn([Extended(a, 1) EXCEPT
                       !.split1G = @ \cup {g},
                       !.pte = IF MatchesMmio(GigaStart(g), GigaStart(g + 1))
                               THEN None ELSE @])
    BY DEF Split1GPageTo2M
  <1> DEFINE E == Extended(a, 1)
             T == [E EXCEPT !.split1G = E.split1G \cup {g}, !.pte = pte]
  <1>4. a.first .. a.first + 1 - 1 \subseteq Page
    BY AllocateGood DEF IInv, TypeOK
  <1>5. /\ E \in Table
        /\ E.used = Own.used \cup a.first .. a.first + 1 - 1
        /\ E.hole = Own.hole /\ E.clear = Own.clear /\ E.pt = Own.pt
        /\ E.split1G = Own.split1G /\ E.pte = Own.pte
    BY <1>2, <1>4, ExtendedTable
  <1>6. g \in Giga
    BY <1>1, GigaInGiga
  <1>7. SetOwn(T)
    BY <1>3, <1>5
  <1> HIDE DEF E
  <1>8. pte \in Page \cup {None}
    BY <1>2 DEF Table
  <1>9. E.split1G \cup {g} \subseteq Giga
    BY <1>5, <1>6 DEF Table
  <1> HIDE DEF g, pte
  <1>10. T \in Table
    BY <1>5, <1>8, <1>9, Zenon DEF Table
  <1>11. /\ T.used = Own.used \cup a.first .. a.first + 1 - 1
         /\ T.hole = Own.hole /\ T.clear = Own.clear /\ T.pt = Own.pt
         /\ T.split1G = Own.split1G \cup {g} /\ T.pte = pte
    BY <1>5 DEF Table
  <1> HIDE DEF T
  <1>12. /\ GoodPools(pools') /\ Accounted'
         /\ current' \in DOMAIN pools' /\ PoolUnits \subseteq PoolUnits'
    BY <1>2, <1>3, <1>7, <1>10, <1>11, GrantKeeps
  <1>13. /\ table' \in [Thread -> Table] /\ table'[thread] = T
         /\ \A t \in Thread : t # thread => table'[t] = table[t]
    BY <1>2, <1>7, <1>10, SetOwnTable
  <1>14. TypeOK'
    BY <1>1, <1>2, <1>12, <1>13 DEF IInv, TypeOK, GoodPools, GoodPool
  <1>15. GuestMemoryKept'
    BY <1>1, <1>2, <1>11, <1>12, <1>13 DEF IInv, GuestMemoryKept, Own, VmmStart
  <1>16. AtGigaStart'
    BY <1>1, <1>11, <1>13 DEF AtGigaStart, g
  <1>17. LapicDone(thread) /\ cursor > LapicUnit => LapicDone(thread)'
    <2> SUFFICES ASSUME LapicDone(thread), cursor > LapicUnit PROVE LapicDone(thread)'
      OBVIOUS
    <2>1. ~MatchesMmio(GigaStart(g), GigaStart(g + 1))
      <3>1. g \in Nat /\ cursor = g * UnitsPerGiga
        BY <1>1, SizesAssumption DEF IInv, AtGigaStart, GigaOf, g
      <3>2. GigaStart(g) = cursor * UnitPages
        BY <3>1 DEF GigaStart
      <3>3. LapicPage < (LapicUnit + 1) * UnitPages /\ LapicUnit + 1 \in Nat
        BY VmmFacts, SizesAssumption DEF PagesOfUnit, Unit
      <3>4. (LapicUnit + 1) * UnitPages <= cursor * UnitPages
        BY <1>1, <3>3, MulMono, VmmFacts DEF Unit
      <3>5. GigaStart(g) \in Nat /\ GigaStart(g + 1) \in Nat /\ GigaStart(g) < GigaStart(g + 1)
        BY <3>1, SizesAssumption DEF GigaStart
      <3>6. LapicPage < GigaStart(g)
        BY <1>1, <3>2, <3>3, <3>4, <3>5, VmmFacts, SizesAssumption
      <3> QED
        BY <3>5, <3>6, Matching, VmmFacts
    <2>2. T.pte = Own.pte
      BY <1>11, <2>1 DEF pte
    <2> QED
      BY <1>1, <1>2, <1>11, <1>13, <2>2 DEF LapicDone, Own
  <1>18. LapicUnit \in Nat /\ vmm \in Nat
    BY VmmFacts DEF Unit
  <1>19. \A t \in Thread, u \in Nat :
           Past(t, u)' => Past(t, u) /\ (t < thread \/ (t = thread /\ cursor > u))
    BY <1>1 DEF Past
  <1>20. \A t \in Thread : Past(t, LapicUnit)' => LapicDone(t)'
    <2> SUFFICES ASSUME NEW t \in Thread, Past(t, LapicUnit)' PROVE LapicDone(t)'
      OBVIOUS
    <2>1. CASE t < thread
      BY <1>1, <1>2, <1>13, <2>1, FinishedKept
    <2>2. CASE t = thread /\ cursor > LapicUnit
      <3>1. LapicDone(t)
        BY <1>18, <1>19 DEF IInv
      <3> QED
        BY <1>1, <1>17, <2>2, <3>1 DEF LapicDone
    <2> QED
      BY <1>18, <1>19, <2>1, <2>2
  <1>21. ASSUME VmmPages <= UnitPages, NEW t \in Thread, Past(t, vmm)'
         PROVE  (VmmMemory \subseteq table[t].hole)'
    BY <1>1, <1>2, <1>11, <1>13, <1>18, <1>19, <1>21 DEF IInv, VmmMemory, VmmStart, Own
  <1>22. (vmm .. vmm + VmmUnits - 1 \subseteq Ram)' /\ (pc = "map" => current # None)'
         /\ WalkGood'
    BY <1>1, <1>12 DEF IInv, VmmUnits, WalkGood, GoodPools, GoodPool, Unit, None
  <1> QED
    BY <1>1, <1>12, <1>14, <1>15, <1>16, <1>20, <1>21, <1>22
    DEF IInv, Past, VmmMemory, VmmStart

\* What splitting a 2M page hides, and what becomes of the PTE.
LEMMA Splitting2M ==
  ASSUME IInv, NEW u \in Unit, NEW first, NEW before
  PROVE  /\ Holes(u) \subseteq Page
         /\ Holes(u) \subseteq VmmMemory \cup {LapicPage}
         /\ u = LapicUnit => /\ LapicPage \in Holes(u)
                            /\ PteAfterSplit(u, first, before) = first
         /\ u # LapicUnit => PteAfterSplit(u, first, before) = before
         /\ VmmPages <= UnitPages /\ u = vmm => VmmMemory \subseteq Holes(u)
  <1>1. /\ u \in Nat /\ u * UnitPages \in Nat /\ (u + 1) * UnitPages \in Nat
        /\ u * UnitPages < (u + 1) * UnitPages
    BY SizesAssumption DEF Unit
  <1>2. PagesOfUnit(u) \subseteq Page /\ PagesOfUnit(u) \subseteq Nat
    BY <1>1, UnitInPage DEF PagesOfUnit
  <1>3. Holes(u) \subseteq Page
    BY <1>2 DEF Holes
  <1>4. Holes(u) \subseteq VmmMemory \cup {LapicPage}
    BY <1>2, Matching DEF Holes
  <1>5. ASSUME u = LapicUnit
        PROVE  LapicPage \in Holes(u) /\ PteAfterSplit(u, first, before) = first
    <2>1. LapicPage \in PagesOfUnit(u) /\ MatchesMmio(LapicPage, LapicPage + 1)
      BY <1>2, <1>5, Matching, VmmFacts
    <2> QED
      BY <2>1 DEF Holes, SplitAndUnmapPage, PteAfterSplit
  <1>6. ASSUME u # LapicUnit
        PROVE  PteAfterSplit(u, first, before) = before
    <2>1. LapicPage \notin PagesOfUnit(u)
      <3> SUFFICES ASSUME LapicPage \in PagesOfUnit(u) PROVE u = LapicUnit
        BY <1>6
      <3> QED
        BY <1>1, SizesAssumption DEF PagesOfUnit, LapicUnit, UnitOf
    <2>2. \A p \in PagesOfUnit(u) : ~MatchesMmio(p, p + 1)
      BY <1>2, <2>1, Matching
    <2>3. ~MatchesMmio(u * UnitPages, (u + 1) * UnitPages)
      BY <1>1, <2>1, Matching DEF PagesOfUnit
    <2> QED
      BY <2>2, <2>3 DEF PteAfterSplit
  <1>7. ASSUME VmmPages <= UnitPages, u = vmm
        PROVE  VmmMemory \subseteq Holes(u)
    <2>1. VmmMemory \subseteq PagesOfUnit(u)
      BY <1>1, <1>7, VmmFacts, SizesAssumption DEF VmmMemory, VmmStart, PagesOfUnit
    <2> QED
      BY <1>2, <2>1, Matching DEF Holes
  <1> QED
    BY <1>3, <1>4, <1>5, <1>6, <1>7

\* Splitting a 2M page hides the pages that match and no other.
LEMMA Split2MKeeps ==
  ASSUME IInv, Split2MPageTo4K
  PROVE  IInv'
  <1>1. /\ pc = "map" /\ cursor \in Unit /\ cursor \in Nat
        /\ GigaOf(cursor) \in table[thread].split1G
        /\ cursor' = cursor + 1
        /\ UNCHANGED <<page1G, vmm, thread, pc, walk>>
    BY DEF Split2MPageTo4K, At2M, Mapping, Own, Unit
  <1>2. thread \in Thread /\ table \in [Thread -> Table] /\ Own \in Table
    BY <1>1 DEF IInv, TypeOK, Own
  <1>3. PICK a \in AllocatePageTableMemory(1) :
          /\ pools' = a.pools /\ current' = a.current
          /\ SetOwn([Extended(a, 1) EXCEPT
                       !.pt = [Own.pt EXCEPT ![cursor] = a.first],
                       !.hole = @ \cup Holes(cursor),
                       !.pte = PteAfterSplit(cursor, a.first, @)])
    BY DEF Split2MPageTo4K
  <1> DEFINE E == Extended(a, 1)
             pt == [Own.pt EXCEPT ![cursor] = a.first]
             pte == PteAfterSplit(cursor, a.first, Own.pte)
             T == [E EXCEPT !.pt = pt, !.hole = E.hole \cup Holes(cursor), !.pte = pte]
  <1>4. a.first .. a.first + 1 - 1 \subseteq Page /\ a.first \in Page
    BY AllocateGood DEF IInv, TypeOK
  <1>5. /\ E \in Table
        /\ E.used = Own.used \cup a.first .. a.first + 1 - 1
        /\ E.hole = Own.hole /\ E.clear = Own.clear /\ E.pt = Own.pt
        /\ E.split1G = Own.split1G /\ E.pte = Own.pte
    BY <1>2, <1>4, ExtendedTable
  <1>6. SetOwn(T)
    BY <1>3, <1>5
  <1> HIDE DEF E
  <1>7. /\ Holes(cursor) \subseteq Page
        /\ Holes(cursor) \subseteq VmmMemory \cup {LapicPage}
        /\ cursor = LapicUnit => LapicPage \in Holes(cursor) /\ pte = a.first
        /\ cursor # LapicUnit => pte = Own.pte
        /\ VmmPages <= UnitPages /\ cursor = vmm => VmmMemory \subseteq Holes(cursor)
    BY <1>1, Splitting2M
  <1> HIDE DEF pte
  <1>8. pte \in Page \cup {None}
    BY <1>2, <1>4, <1>7 DEF Table
  <1>9. pt \in [Unit -> Page \cup {None}]
    BY <1>1, <1>2, <1>4 DEF Table
  <1>10. pt[cursor] = a.first /\ \A u \in Unit : u # cursor => pt[u] = Own.pt[u]
    BY <1>1, <1>2 DEF Table
  <1> HIDE DEF pt
  <1>11. E.hole \cup Holes(cursor) \subseteq Page
    BY <1>5, <1>7 DEF Table
  <1>12. T \in Table
    BY <1>5, <1>8, <1>9, <1>11, Zenon DEF Table
  <1>13. /\ T.used = Own.used \cup a.first .. a.first + 1 - 1
         /\ T.hole = Own.hole \cup Holes(cursor) /\ T.clear = Own.clear
         /\ T.pt = pt /\ T.split1G = Own.split1G /\ T.pte = pte
    BY <1>5 DEF Table
  <1> HIDE DEF T
  <1>14. /\ GoodPools(pools') /\ Accounted'
         /\ current' \in DOMAIN pools' /\ PoolUnits \subseteq PoolUnits'
    BY <1>2, <1>3, <1>6, <1>12, <1>13, GrantKeeps
  <1>15. /\ table' \in [Thread -> Table] /\ table'[thread] = T
         /\ \A t \in Thread : t # thread => table'[t] = table[t]
    BY <1>2, <1>6, <1>12, SetOwnTable
  <1>16. TypeOK'
    BY <1>1, <1>2, <1>14, <1>15 DEF IInv, TypeOK, GoodPools, GoodPool
  <1>17. GuestMemoryKept'
    BY <1>1, <1>2, <1>7, <1>13, <1>14, <1>15
    DEF IInv, GuestMemoryKept, Own, VmmStart, VmmMemory
  <1>18. AtGigaStart'
    <2>1. GigaOf(cursor') = GigaOf(cursor) \/ cursor' = GigaOf(cursor') * UnitsPerGiga
      BY <1>1, SizesAssumption DEF GigaOf
    <2> QED
      BY <1>1, <1>13, <1>15, <2>1 DEF AtGigaStart, Own
  <1>19. LapicUnit \in Unit /\ LapicUnit \in Nat /\ vmm \in Nat
    BY VmmFacts DEF Unit
  <1>20. \A t \in Thread, u \in Nat :
           Past(t, u)' => t < thread \/ (t = thread /\ cursor >= u)
    BY <1>1 DEF Past
  <1>21. \A u \in Nat : cursor > u => Past(thread, u)
    BY <1>1 DEF Past
  <1>22. \A t \in Thread : Past(t, LapicUnit)' => LapicDone(t)'
    <2> SUFFICES ASSUME NEW t \in Thread, Past(t, LapicUnit)' PROVE LapicDone(t)'
      OBVIOUS
    <2>1. CASE t < thread
      BY <1>1, <1>2, <1>15, <2>1, FinishedKept
    <2>2. CASE t = thread /\ cursor = LapicUnit
      <3>1. /\ T.pte = a.first /\ T.pt[LapicUnit] = a.first
            /\ a.first \in T.used /\ LapicPage \in T.hole
        BY <1>4, <1>7, <1>10, <1>13, <2>2 DEF Page
      <3>2. a.first # None
        BY <1>4 DEF Page, None
      <3> QED
        BY <1>1, <1>15, <2>2, <3>1, <3>2 DEF LapicDone
    <2>3. CASE t = thread /\ cursor > LapicUnit
      <3>1. LapicDone(thread)
        BY <1>2, <1>19, <1>21, <2>3 DEF IInv
      <3>2. cursor # LapicUnit
        BY <1>19, <2>3
      <3> QED
        BY <1>1, <1>2, <1>7, <1>10, <1>13, <1>15, <1>19, <2>3, <3>1, <3>2 DEF LapicDone, Own
    <2> QED
      BY <1>1, <1>19, <1>20, <2>1, <2>2, <2>3
  <1>23. ASSUME VmmPages <= UnitPages, NEW t \in Thread, Past(t, vmm)'
         PROVE  (VmmMemory \subseteq table[t].hole)'
    <2>1. CASE t < thread
      BY <1>1, <1>2, <1>15, <1>23, <2>1, FinishedKept
    <2>2. CASE t = thread /\ cursor = vmm
      BY <1>1, <1>7, <1>13, <1>15, <1>23, <2>2 DEF VmmMemory, VmmStart
    <2>3. CASE t = thread /\ cursor > vmm
      <3>1. VmmMemory \subseteq Own.hole
        BY <1>2, <1>19, <1>21, <1>23, <2>3 DEF IInv, Own
      <3> QED
        BY <1>1, <1>13, <1>15, <2>3, <3>1 DEF VmmMemory, VmmStart
    <2> QED
      BY <1>1, <1>19, <1>20, <1>23, <2>1, <2>2, <2>3
  <1>24. (vmm .. vmm + VmmUnits - 1 \subseteq Ram)' /\ (pc = "map" => current # None)'
         /\ WalkGood'
    BY <1>1, <1>14 DEF IInv, VmmUnits, WalkGood, GoodPools, GoodPool, Unit, None
  <1> QED
    BY <1>1, <1>14, <1>16, <1>17, <1>18, <1>22, <1>23, <1>24
    DEF IInv, Past, VmmMemory, VmmStart

\* Once the whole address space is mapped, the walk starts at the current pool.
LEMMA EnableKeeps ==
  ASSUME IInv, EnablePageTableProtection
  PROVE  IInv'
  <1>1. /\ pc = "map" /\ cursor \notin Unit /\ cursor \in Nat /\ pc' = "protect"
        /\ walk' = [head |-> current, pool |-> current, unit |-> current,
                    size |-> PoolSize(pools, current)]
        /\ UNCHANGED <<page1G, vmm, pools, current, table, thread, cursor>>
    BY DEF EnablePageTableProtection, WalkTo, IInv, TypeOK
  <1>2. current \in DOMAIN pools /\ GoodPool(pools, current)
    BY <1>1 DEF IInv, TypeOK, GoodPools
  <1>3. /\ current \in Nat /\ current \in Unit
        /\ pools[current].units \in Nat \ {0}
        /\ PoolSize(pools, current) = pools[current].units * UnitPages
        /\ PoolSize(pools, current) \in Nat
    BY <1>2, SizesAssumption DEF GoodPool, Pool, Unit
  <1>4. WalkGood'
    <2>1. current \in Run(pools, current)
      BY <1>3 DEF Run
    <2>2. pools[current].units = current + pools[current].units - current
      BY <1>3
    <2> QED
      BY <1>1, <1>2, <1>3, <2>1, <2>2 DEF WalkGood, Run
  <1>5. TypeOK'
    BY <1>1, <1>3, Zenon DEF IInv, TypeOK
  <1>6. \A t \in Thread, u \in Unit : Past(t, u)' => Past(t, u)
    <2>1. NumGigas * UnitsPerGiga \in Nat
      BY SizesAssumption DEF NumGigas
    <2>2. \A u \in Unit : cursor > u
      BY <1>1, <2>1 DEF Unit
    <2> QED
      BY <1>1, <2>2 DEF Past
  <1>7. LapicUnit \in Unit /\ vmm \in Unit
    BY VmmFacts DEF IInv, TypeOK
  <1>8. AtGigaStart'
    BY <1>1 DEF AtGigaStart
  <1>9. \A t \in Thread : Past(t, LapicUnit)' => LapicDone(t)'
    BY <1>1, <1>6, <1>7 DEF IInv, LapicDone
  <1>10. ASSUME VmmPages <= UnitPages, NEW t \in Thread, Past(t, vmm)'
         PROVE  (VmmMemory \subseteq table[t].hole)'
    <2>1. Past(t, vmm)
      BY <1>1, <1>6, <1>7, <1>10 DEF Past
    <2> QED
      BY <1>1, <1>10, <2>1 DEF IInv, VmmMemory, VmmStart
  <1>11. GoodPools(pools)' /\ Accounted' /\ GuestMemoryKept'
         /\ (vmm .. vmm + VmmUnits - 1 \subseteq Ram)'
    BY <1>1 DEF IInv, Accounted, GuestMemoryKept, VmmStart, VmmUnits, PoolUnits, UnitsOf
  <1> QED
    BY <1>1, <1>4, <1>5, <1>8, <1>9, <1>10, <1>11
    DEF IInv, Past, VmmMemory, VmmStart

\* One iteration of the walk, whatever was allocated in it, leaves it at a unit
\* of a pool or takes it to the next thread.
LEMMA NextUnitGood ==
  ASSUME IInv, pc = "protect", cursor' = cursor,
         GoodPools(pools'), DOMAIN pools \subseteq DOMAIN pools',
         \A c \in DOMAIN pools : pools'[c].units = pools[c].units,
         NextUnit(pools')
  PROVE  /\ WalkGood'
         /\ walk' \in [head : Unit, pool : Unit, unit : Unit, size : Nat]
         /\ thread' \in 0 .. NumProcessors
         /\ pc' \in {"create", "protect", "done"}
         /\ pc' # "done" => thread' \in Thread
         /\ \A t \in Thread, u \in Nat : Past(t, u)' => Past(t, u)
  <1> DEFINE b == walk.pool
             next == pools'[b].next
             left == b + pools'[b].units - walk.unit
  <1>1. /\ walk \in [head : Unit, pool : Unit, unit : Unit, size : Nat]
        /\ thread \in Thread /\ thread \in Nat
        /\ thread \in 0 .. NumProcessors /\ thread + 1 \in 0 .. NumProcessors
    BY SizesAssumption DEF IInv, TypeOK, Thread
  <1>2. /\ walk.head \in DOMAIN pools' /\ b \in DOMAIN pools'
        /\ walk.unit \in Run(pools', b)
        /\ walk.size = left * UnitPages
    BY DEF IInv, WalkGood, Run
  <1>3. /\ GoodPool(pools', b) /\ pools'[b].units \in Nat \ {0} /\ b \in Nat
        /\ walk.unit \in Nat /\ next \in DOMAIN pools'
    BY <1>1, <1>2 DEF GoodPools, GoodPool, Pool, Unit
  <1>4. left \in Nat \ {0} /\ walk.unit + left = b + pools'[b].units
    BY <1>2, <1>3 DEF Run
  <1>5. CASE walk.size > UnitPages
    <2>1. WalkTo(walk.head, b, walk.unit + 1, walk.size - UnitPages)
          /\ thread' = thread /\ pc' = pc
      BY <1>1, <1>5, SizesAssumption DEF NextUnit
    <2>2. left > 1
      BY <1>2, <1>4, <1>5, SizesAssumption
    <2>3. /\ walk.unit + 1 \in Run(pools', b)
          /\ walk.size - UnitPages \in Nat
          /\ walk.size - UnitPages = (left - 1) * UnitPages
      BY <1>2, <1>3, <1>4, <1>5, <2>2, SizesAssumption DEF Run
    <2>4. walk.unit + 1 \in Unit
      BY <1>3, <2>3, SizesAssumption DEF GoodPool
    <2>5. /\ walk'.head = walk.head /\ walk'.pool = b
          /\ walk'.unit = walk.unit + 1 /\ walk'.size = walk.size - UnitPages
      BY <2>1 DEF WalkTo
    <2>6. walk' \in [head : Unit, pool : Unit, unit : Unit, size : Nat]
      BY <1>1, <2>1, <2>3, <2>4, <1>3 DEF WalkTo
    <2>7. WalkGood'
      <3>1. left - 1 = b + pools'[b].units - (walk.unit + 1)
        BY <1>3
      <3> QED
        BY <1>2, <2>3, <2>5, <3>1 DEF WalkGood, Run
    <2>8. \A t \in Thread, u \in Nat : Past(t, u)' => Past(t, u)
      BY <2>1 DEF Past
    <2> QED
      BY <1>1, <2>1, <2>6, <2>7, <2>8
  <1>6. CASE walk.size <= UnitPages /\ next # walk.head
    <2>1. WalkTo(walk.head, next, next, PoolSize(pools', next))
          /\ thread' = thread /\ pc' = pc
      BY <1>1, <1>6, SizesAssumption DEF NextUnit
    <2>2. /\ GoodPool(pools', next) /\ next \in Unit /\ next \in Nat
          /\ pools'[next].units \in Nat \ {0}
          /\ PoolSize(pools', next) = pools'[next].units * UnitPages
          /\ PoolSize(pools', next) \in Nat
      BY <1>3, SizesAssumption DEF GoodPools, GoodPool, Pool, Unit
    <2>3. /\ walk'.head = walk.head /\ walk'.pool = next
          /\ walk'.unit = next /\ walk'.size = PoolSize(pools', next)
      BY <2>1 DEF WalkTo
    <2>4. walk' \in [head : Unit, pool : Unit, unit : Unit, size : Nat]
      BY <1>1, <2>1, <2>2 DEF WalkTo
    <2>5. WalkGood'
      <3>1. next \in Run(pools', next)
        BY <2>2 DEF Run
      <3>2. pools'[next].units = next + pools'[next].units - next
        BY <2>2
      <3> QED
        BY <1>2, <1>3, <2>2, <2>3, <3>1, <3>2 DEF WalkGood, Run
    <2>6. \A t \in Thread, u \in Nat : Past(t, u)' => Past(t, u)
      BY <2>1 DEF Past
    <2> QED
      BY <1>1, <2>1, <2>4, <2>5, <2>6
  <1>7. CASE walk.size <= UnitPages /\ next = walk.head
    <2>1. /\ thread' = thread + 1 /\ walk' = walk
          /\ pc' = IF thread' \in Thread THEN "create" ELSE "done"
      BY <1>1, <1>7, SizesAssumption DEF NextUnit
    <2>2. WalkGood'
      BY <2>1 DEF WalkGood
    <2>3. \A t \in Thread, u \in Nat : Past(t, u)' => Past(t, u)
      <3>1. \A t \in Thread : t < thread + 1 => t < thread \/ t = thread
        BY <1>1 DEF Thread
      <3> QED
        BY <2>1, <3>1 DEF Past
    <2> QED
      BY <1>1, <2>1, <2>2, <2>3
  <1> QED
    BY <1>1, <1>4, <1>5, <1>6, <1>7, SizesAssumption

\* What the walk makes not present is a unit of a pool.
LEMMA ClearedUnits ==
  ASSUME IInv, pc = "protect"
  PROVE  Cleared(Own, walk.unit) \subseteq Own.clear \cup {walk.unit}
         /\ walk.unit \in Unit /\ walk.unit \in PoolUnits
  BY DEF IInv, TypeOK, WalkGood, PoolUnits, UnitsOf, Run, Cleared

\* Both actions of the walk, given what they do to the pools and the table.
LEMMA ProtectKeeps ==
  ASSUME IInv, pc = "protect",
         UNCHANGED <<page1G, vmm, cursor>>,
         GoodPools(pools'), Accounted', current' \in DOMAIN pools' \cup {None},
         DOMAIN pools \subseteq DOMAIN pools', PoolUnits \subseteq PoolUnits',
         \A c \in DOMAIN pools : pools'[c].units = pools[c].units,
         NextUnit(pools'),
         NEW T \in Table, SetOwn(T),
         Own.used \subseteq T.used, T.hole = Own.hole,
         T.pt = Own.pt, T.pte = Own.pte,
         T.clear = Cleared(Own, walk.unit)
  PROVE  IInv'
  <1>1. thread \in Thread /\ table \in [Thread -> Table] /\ Own \in Table
    BY DEF IInv, TypeOK, Own
  <1>2. /\ table' \in [Thread -> Table] /\ table'[thread] = T
        /\ \A t \in Thread : t # thread => table'[t] = table[t]
    BY <1>1, SetOwnTable
  <1>3. /\ WalkGood'
        /\ walk' \in [head : Unit, pool : Unit, unit : Unit, size : Nat]
        /\ thread' \in 0 .. NumProcessors
        /\ pc' \in {"create", "protect", "done"}
        /\ pc' # "done" => thread' \in Thread
        /\ \A t \in Thread, u \in Nat : Past(t, u)' => Past(t, u)
    BY NextUnitGood
  <1>4. TypeOK'
    BY <1>2, <1>3 DEF IInv, TypeOK, GoodPools, GoodPool
  <1>5. GuestMemoryKept'
    BY <1>1, <1>2, ClearedUnits DEF IInv, GuestMemoryKept, Own, VmmStart
  <1>6. AtGigaStart' /\ (pc = "map" => current # None)'
    BY <1>3 DEF AtGigaStart
  <1>7. LapicUnit \in Nat /\ vmm \in Nat
    BY VmmFacts DEF Unit
  <1>8. \A t \in Thread : /\ table'[t].pte = table[t].pte
                         /\ table'[t].pt = table[t].pt
                         /\ table'[t].hole = table[t].hole
                         /\ table[t].used \subseteq table'[t].used
    BY <1>1, <1>2 DEF Own
  <1>9. \A t \in Thread : Past(t, LapicUnit)' => LapicDone(t)'
    BY <1>3, <1>7, <1>8 DEF IInv, LapicDone
  <1>10. ASSUME VmmPages <= UnitPages, NEW t \in Thread, Past(t, vmm)'
         PROVE  (VmmMemory \subseteq table[t].hole)'
    <2>1. Past(t, vmm)
      BY <1>3, <1>7, <1>10 DEF Past
    <2> QED
      BY <1>8, <1>10, <2>1 DEF IInv, VmmMemory, VmmStart
  <1>11. (vmm .. vmm + VmmUnits - 1 \subseteq Ram)'
    BY DEF IInv, VmmUnits
  <1> QED
    BY <1>3, <1>4, <1>5, <1>6, <1>9, <1>10, <1>11 DEF IInv, Past, VmmMemory, VmmStart

\* Protecting a unit changes neither PTEs nor the record of the local APIC's.
LEMMA SetUnitKeeps ==
  ASSUME IInv, SetUnitUnmapped
  PROVE  IInv'
  <1> DEFINE T == [Own EXCEPT !.clear = Cleared(Own, walk.unit)]
  <1>1. /\ pc = "protect" /\ SetOwn(T) /\ NextUnit(pools)
        /\ UNCHANGED <<page1G, vmm, pools, current, cursor>>
    BY DEF SetUnitUnmapped
  <1>2. thread \in Thread /\ table \in [Thread -> Table] /\ Own \in Table
    BY <1>1 DEF IInv, TypeOK, Own
  <1>3. Cleared(Own, walk.unit) \subseteq Unit
    BY <1>1, <1>2, ClearedUnits DEF Table
  <1>4. T \in Table
    BY <1>2, <1>3, Zenon DEF Table
  <1>5. /\ T.used = Own.used /\ T.hole = Own.hole /\ T.pt = Own.pt
        /\ T.pte = Own.pte /\ T.clear = Cleared(Own, walk.unit)
    BY <1>2 DEF Table
  <1> HIDE DEF T
  <1>6. \A t \in Thread : table'[t].used = table[t].used
    BY <1>1, <1>2, <1>4, <1>5, SetOwnTable DEF Own
  <1>7. Accounted'
    BY <1>1, <1>6 DEF IInv, Accounted
  <1>8. current' \in DOMAIN pools' \cup {None}
    BY <1>1 DEF IInv, TypeOK
  <1>9. /\ GoodPools(pools') /\ DOMAIN pools \subseteq DOMAIN pools'
        /\ PoolUnits \subseteq PoolUnits' /\ NextUnit(pools')
        /\ \A c \in DOMAIN pools : pools'[c].units = pools[c].units
    BY <1>1 DEF IInv, PoolUnits, UnitsOf
  <1> QED
    BY <1>1, <1>4, <1>5, <1>7, <1>8, <1>9, ProtectKeeps

\* Nor does splitting the 1G page first; the new pages are accounted.
LEMMA SplitAndSetUnitKeeps ==
  ASSUME IInv, SplitAndSetUnitUnmapped
  PROVE  IInv'
  <1> DEFINE g == GigaOf(walk.unit)
  <1>1. pc = "protect" /\ UNCHANGED <<page1G, vmm, cursor>>
    BY DEF SplitAndSetUnitUnmapped
  <1>2. thread \in Thread /\ table \in [Thread -> Table] /\ Own \in Table
    BY <1>1 DEF IInv, TypeOK, Own
  <1>3. PICK a \in AllocatePageTableMemory(1) :
          /\ pools' = a.pools /\ current' = a.current
          /\ SetOwn([Extended(a, 1) EXCEPT !.split1G = @ \cup {g},
                                           !.clear = Cleared(Own, walk.unit)])
          /\ NextUnit(a.pools)
    BY DEF SplitAndSetUnitUnmapped
  <1> DEFINE E == Extended(a, 1)
             cleared == Cleared(Own, walk.unit)
             T == [E EXCEPT !.split1G = E.split1G \cup {g}, !.clear = cleared]
  <1>4. a.first .. a.first + 1 - 1 \subseteq Page
    BY AllocateGood DEF IInv, TypeOK
  <1>5. /\ E \in Table
        /\ E.used = Own.used \cup a.first .. a.first + 1 - 1
        /\ E.hole = Own.hole /\ E.pt = Own.pt
        /\ E.split1G = Own.split1G /\ E.pte = Own.pte
    BY <1>2, <1>4, ExtendedTable
  <1>6. SetOwn(T)
    BY <1>3, <1>5
  <1> HIDE DEF E
  <1>7. cleared \subseteq Unit /\ walk.unit \in Unit
    BY <1>1, <1>2, ClearedUnits DEF Table
  <1>8. g \in Giga
    BY <1>7, GigaInGiga
  <1>9. E.split1G \cup {g} \subseteq Giga
    BY <1>5, <1>8 DEF Table
  <1> HIDE DEF g, cleared
  <1>10. T \in Table
    BY <1>5, <1>7, <1>9, Zenon DEF Table
  <1>11. /\ T.used = Own.used \cup a.first .. a.first + 1 - 1
         /\ T.hole = Own.hole /\ T.clear = cleared
         /\ T.pt = Own.pt /\ T.pte = Own.pte
    BY <1>5 DEF Table
  <1> HIDE DEF T
  <1>12. /\ GoodPools(pools') /\ Accounted'
         /\ current' \in DOMAIN pools' /\ DOMAIN pools \subseteq DOMAIN pools'
         /\ \A c \in DOMAIN pools : pools'[c].units = pools[c].units
         /\ PoolUnits \subseteq PoolUnits'
    BY <1>2, <1>3, <1>6, <1>10, <1>11, GrantKeeps
  <1> QED
    BY <1>1, <1>3, <1>6, <1>10, <1>11, <1>12, ProtectKeeps DEF cleared

\* Failing changes nothing but the place in the program.
LEMMA OutOfMemoryKeeps ==
  ASSUME IInv, OutOfMemory
  PROVE  IInv'
  <1>1. /\ pc' = "outOfMemory" /\ pc # "done"
        /\ UNCHANGED <<page1G, vmm, pools, current, table, thread, cursor, walk>>
    BY DEF OutOfMemory, At1G, At2M, Mapping
  <1>2. \A t \in Thread, u \in Nat : Past(t, u)' => Past(t, u)
    BY <1>1 DEF Past
  <1>3. LapicUnit \in Nat /\ vmm \in Nat
    BY VmmFacts DEF Unit
  <1>4. TypeOK'
    BY <1>1 DEF IInv, TypeOK
  <1>5. WalkGood' /\ AtGigaStart' /\ (pc = "map" => current # None)'
    BY <1>1 DEF WalkGood, AtGigaStart
  <1>6. GoodPools(pools)' /\ Accounted' /\ GuestMemoryKept'
         /\ (vmm .. vmm + VmmUnits - 1 \subseteq Ram)'
    BY <1>1 DEF IInv, Accounted, GuestMemoryKept, VmmStart, VmmUnits, PoolUnits, UnitsOf
  <1>7. \A t \in Thread : Past(t, LapicUnit)' => LapicDone(t)'
    BY <1>1, <1>2, <1>3 DEF IInv, LapicDone
  <1>8. ASSUME VmmPages <= UnitPages, NEW t \in Thread, Past(t, vmm)'
        PROVE  (VmmMemory \subseteq table[t].hole)'
    <2>1. Past(t, vmm)
      BY <1>1, <1>2, <1>3, <1>8 DEF Past
    <2> QED
      BY <1>1, <1>8, <2>1 DEF IInv, VmmMemory, VmmStart
  <1> QED
    BY <1>1, <1>4, <1>5, <1>6, <1>7, <1>8 DEF IInv, Past, VmmMemory, VmmStart

\* Every step, stuttering included, preserves the invariant.
LEMMA NextIInv ==
  ASSUME IInv, [Next]_vars
  PROVE  IInv'
  <1>1. CASE Next
    BY <1>1, CreateKeeps, Map1GKeeps, Split1GKeeps, Map2MKeeps, Split2MKeeps,
       EnableKeeps, SetUnitKeeps, SplitAndSetUnitKeeps, OutOfMemoryKeeps DEF Next
  <1>2. CASE UNCHANGED vars
    BY <1>2 DEF vars, IInv, TypeOK, WalkGood, Accounted, GuestMemoryKept, AtGigaStart,
       Past, LapicDone, VmmMemory, VmmStart, VmmUnits, PoolUnits, UnitsOf
  <1> QED
    BY <1>1, <1>2

-----------------------------------------------------------------------------
(***************************************************************************)
(* The theorems.                                                           *)
(***************************************************************************)

\* The inductive invariant holds in every state of every behaviour.
THEOREM InductiveInvariant == Spec => []IInv
  <1>1. Init => IInv
    BY InitIInv
  <1>2. IInv /\ [Next]_vars => IInv'
    BY NextIInv
  <1> QED
    BY <1>1, <1>2, PTL DEF Spec

\* The building of the page tables is type correct.
THEOREM TypeCorrect == Spec => []TypeOK
  <1>1. IInv => TypeOK
    BY DEF IInv
  <1> QED
    BY <1>1, InductiveInvariant, PTL

\* AllocatePageTableMemory never hands out a page twice, nor a pool's header,
\* nor a page beyond the pool's end.
THEOREM EveryPageAccounted == Spec => []PagesAccounted
  <1>1. IInv => PagesAccounted
    BY DEF IInv, GoodPools, GoodPool, Accounted, Handed, HandedFrom, PagesAccounted
  <1> QED
    BY <1>1, InductiveInvariant, PTL

\* A thread behind which VirtualizeSystem has gone on intercepts its local
\* APIC page through the PTE that is recorded for its NPF handler.
THEOREM LapicAlwaysIntercepted == Spec => []LapicIntercepted
  <1>1. IInv => LapicIntercepted
    BY DEF IInv, Past, LapicDone, LapicUnit, Finished, LapicIntercepted
  <1> QED
    BY <1>1, InductiveInvariant, PTL

\* No table ever hides memory from the guest that is neither the VMM's, nor
\* the local APIC page, nor of the page table pools.
THEOREM NothingElseHidden == Spec => []GuestMemoryKept
  <1>1. IInv => GuestMemoryKept
    BY DEF IInv
  <1> QED
    BY <1>1, InductiveInvariant, PTL

\* If the VMM's memory fits a 2M page, finished tables hide all of it.
THEOREM VmmHidden == VmmPages <= UnitPages => (Spec => []VmmUnmapped)
  <1> SUFFICES ASSUME VmmPages <= UnitPages PROVE Spec => []VmmUnmapped
    OBVIOUS
  <1>1. IInv => VmmUnmapped
    BY DEF IInv, Past, Finished, Unmapped, VmmMemory, VmmUnmapped
  <1> QED
    BY <1>1, InductiveInvariant, PTL

=============================================================================
