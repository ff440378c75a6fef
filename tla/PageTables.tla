----------------------------- MODULE PageTables -----------------------------
(***************************************************************************)
(* The nested page tables: VirtualizeSystem (AmdIntelEmuDxe.c) has         *)
(* CreateIdentityMappingPageTables (VirtualMemory.c) build one for every   *)
(* thread, from a pool of reserved memory that all of them share.  A table *)
(* maps everything to itself except the VMM's memory, the local APIC page  *)
(* of its thread, whose PTE is recorded for the NPF handler, and the pools *)
(* the tables themselves are in.                                           *)
(*                                                                         *)
(* Memory is numbered in 4K pages; UnitPages of them are a 2M unit (512 in *)
(* the code), UnitsPerGiga of those a 1G page.  Everything runs on the     *)
(* bootstrap processor, one step per loop iteration of the code.           *)
(***************************************************************************)
EXTENDS Integers, FiniteSets

CONSTANTS
  NumProcessors,
  UnitPages, UnitsPerGiga,       \* 512 and 512
  Pml4Entries, PdpEntries,       \* NumberOf...EntriesNeeded
  ContextPages,                  \* pages of the thread contexts
  LapicPage,                     \* MmioInfo.Address
  Ram                            \* 2M units UEFI may allocate

NumGigas == Pml4Entries * PdpEntries
Giga == 0 .. NumGigas - 1
Unit == 0 .. NumGigas * UnitsPerGiga - 1
Page == 0 .. NumGigas * UnitsPerGiga * UnitPages - 1
Thread == 0 .. NumProcessors - 1

UnitOf(p) == p \div UnitPages
GigaOf(u) == u \div UnitsPerGiga

ASSUME SizesAssumption ==
  /\ {NumProcessors, UnitPages, UnitsPerGiga, Pml4Entries, PdpEntries,
      ContextPages} \subseteq Nat \ {0}
  /\ LapicPage \in Page
  /\ Ram \subseteq Unit \ {UnitOf(LapicPage)}

None == -1

VARIABLES
  page1G,    \* Page1GSupport
  vmm,       \* first unit of the VMM's memory
  pools,     \* the pools by their first unit, each with its header
  current,   \* mPageTablePool
  table,     \* the page table of each thread
  thread,    \* Index of VirtualizeSystem
  pc,
  cursor,    \* the unit CreateIdentityMappingPageTables maps next
  walk       \* EnablePageTableProtection's place in the ring of pools

vars == <<page1G, vmm, pools, current, table, thread, pc, cursor, walk>>

(***************************************************************************)
(* A page table.                                                           *)
(*   split1G   1G pages replaced by a table of 2M pages                    *)
(*   pt        the page table a 2M page was replaced by, or None           *)
(*   hole      pages whose 4K PTE is not present                           *)
(*   clear     2M pages made not present                                   *)
(*   used      the pool pages it consists of                               *)
(*   pte       MmioInfo.Pte, as the page table it points into              *)
(***************************************************************************)
Table == [split1G : SUBSET Giga, pt : [Unit -> Page \cup {None}],
          hole : SUBSET Page, clear : SUBSET Unit, used : SUBSET Page,
          pte : Page \cup {None}]

\* A pool: its header, and in units the size UEFI allocated.
Pool == [units : Nat, offset : Nat, freePages : Nat, next : Unit]

UnitsOf(b) == b .. b + pools[b].units - 1
PoolUnits == UNION {UnitsOf(b) : b \in DOMAIN pools}

-----------------------------------------------------------------------------
(***************************************************************************)
(* What is to be unmapped: InternalSplitAndUnmapPage.                      *)
(***************************************************************************)

\* NumPages of VirtualizeSystem, with NUM_STACK_PAGES = 1.
VmmPages == 1 + 3 + 1 + NumProcessors * (1 + 2) + ContextPages

VmmStart == vmm * UnitPages
VmmUnits == (VmmPages - 1) \div UnitPages + 1

\* Bug: a page that contains the range does not match.
ContainedOnly(lo, hi, start, end) == lo >= start /\ hi <= end

\* InternalSplitAndUnmapPageWorker, for the page lo .. hi - 1.
ContainsOrContained(lo, hi, start, end) ==
  \/ lo >= start /\ hi <= end
  \/ start >= lo /\ end <= hi

MatchesVmm(lo, hi) ==
  ContainsOrContained(lo, hi, VmmStart, VmmStart + VmmPages)

\* Bug: the range ends where it starts.
MatchesMmioEmpty(lo, hi) ==
  /\ ~MatchesVmm(lo, hi)
  /\ ContainsOrContained(lo, hi, LapicPage, LapicPage)

\* Bug: the flags in the low bits of the base are not masked, so the range
\* reaches into the next page and no 4K page contains it.
MatchesMmioUnaligned(lo, hi) ==
  ~MatchesVmm(lo, hi) /\ lo <= LapicPage /\ LapicPage + 2 <= hi

\* MmioInfo.Pte is assigned in this case only, to the PTE or to NULL.
MatchesMmio(lo, hi) ==
  /\ ~MatchesVmm(lo, hi)
  /\ ContainsOrContained(lo, hi, LapicPage, LapicPage + 1)

SplitAndUnmapPage(lo, hi) == MatchesVmm(lo, hi) \/ MatchesMmio(lo, hi)

PagesOfUnit(u) == u * UnitPages .. (u + 1) * UnitPages - 1
UnitMatches(u) == SplitAndUnmapPage(u * UnitPages, (u + 1) * UnitPages)

GigaStart(g) == g * UnitsPerGiga * UnitPages
GigaMatches(g) == SplitAndUnmapPage(GigaStart(g), GigaStart(g + 1))

-----------------------------------------------------------------------------
(***************************************************************************)
(* The pool of page table memory.                                          *)
(***************************************************************************)

\* AllocateAlignedReservedPages, in units of 2M
FreeRuns(n) ==
  {b \in Ram : b .. b + n - 1 \subseteq
                 Ram \ (PoolUnits \cup vmm .. vmm + VmmUnits - 1)}

\* Bug: the page of the header is not reserved.
NewPoolNoHeader(n, next) ==
  [units |-> n, offset |-> 0, freePages |-> n * UnitPages, next |-> next]

NewPool(n, next) ==
  [units |-> n, offset |-> 1, freePages |-> n * UnitPages - 1, next |-> next]

Relinked(header, next) == [header EXCEPT !.next = next]

\* Bug: the new pool is linked to itself.
LinkPoolToItself(base, n) ==
  [b \in DOMAIN pools \cup {base} |->
     CASE b = base    -> NewPool(n, base)
       [] b = current -> Relinked(pools[b], base)
       [] OTHER       -> pools[b]]

\* InitializePageTablePool once it has its memory: a new pool of n units is
\* linked behind the current one and becomes the current one.
LinkPool(base, n) ==
  [b \in DOMAIN pools \cup {base} |->
     CASE b = base    -> NewPool(n, IF current = None THEN base
                                    ELSE pools[current].next)
       [] b = current -> Relinked(pools[b], base)
       [] OTHER       -> pools[b]]

Advanced(header, n) ==
  [header EXCEPT !.offset = @ + n, !.freePages = @ - n]

\* The pools, the current one and the first page handed out.
Take(ps, b, n) ==
  [pools   |-> [ps EXCEPT ![b] = Advanced(ps[b], n)],
   current |-> b,
   first   |-> b * UnitPages + ps[b].offset]

\* Bug: a new pool only for the first request.
AllocateOnce(n) ==
  IF current # None THEN {Take(pools, current, n)}
  ELSE LET units == n \div UnitPages + 1
       IN  {Take(LinkPool(base, units), base, n) : base \in FreeRuns(units)}

\* The possible outcomes, none when memory has run out.
AllocatePageTableMemory(n) ==
  IF current # None /\ n <= pools[current].freePages
  THEN {Take(pools, current, n)}
  ELSE LET units == n \div UnitPages + 1
       IN  {Take(LinkPool(base, units), base, n) : base \in FreeRuns(units)}

-----------------------------------------------------------------------------
(***************************************************************************)
(* Building the table of one thread.                                       *)
(***************************************************************************)

Own == table[thread]
SetOwn(t) == table' = [table EXCEPT ![thread] = t]

\* The table of the current thread, with the n pages of a added.
Extended(a, n) == [Own EXCEPT !.used = @ \cup a.first .. a.first + n - 1]

TotalPagesNum ==
  IF page1G THEN Pml4Entries + 1 ELSE (PdpEntries + 1) * Pml4Entries + 1

\* CreateIdentityMappingPageTables up to its loops.
CreatePageTables ==
  /\ pc = "create"
  /\ \E a \in AllocatePageTableMemory(TotalPagesNum) :
       /\ pools' = a.pools /\ current' = a.current
       /\ SetOwn([Extended(a, TotalPagesNum) EXCEPT
                    !.split1G = IF page1G THEN {} ELSE Giga])
  /\ pc' = "map" /\ cursor' = 0
  /\ UNCHANGED <<page1G, vmm, thread, walk>>

Mapping == pc = "map" /\ cursor \in Unit
At1G == Mapping /\ GigaOf(cursor) \notin Own.split1G
At2M == Mapping /\ GigaOf(cursor) \in Own.split1G

Map1GPage ==
  /\ At1G /\ ~GigaMatches(GigaOf(cursor))
  /\ cursor' = cursor + UnitsPerGiga
  /\ UNCHANGED <<page1G, vmm, pools, current, table, thread, pc, walk>>

\* The callback is given no PTE: if MMIO matches, MmioInfo.Pte becomes NULL.
Split1GPageTo2M ==
  /\ At1G /\ GigaMatches(GigaOf(cursor))
  /\ \E a \in AllocatePageTableMemory(1) :
       /\ pools' = a.pools /\ current' = a.current
       /\ SetOwn([Extended(a, 1) EXCEPT
                    !.split1G = @ \cup {GigaOf(cursor)},
                    !.pte = IF MatchesMmio(GigaStart(GigaOf(cursor)),
                                           GigaStart(GigaOf(cursor) + 1))
                            THEN None ELSE @])
  /\ UNCHANGED <<page1G, vmm, thread, pc, cursor, walk>>

Map2MPage ==
  /\ At2M /\ ~UnitMatches(cursor)
  /\ cursor' = cursor + 1
  /\ UNCHANGED <<page1G, vmm, pools, current, table, thread, pc, walk>>

Holes(u) == {p \in PagesOfUnit(u) : SplitAndUnmapPage(p, p + 1)}

\* NULL for the 2M page, then the PTE of the matching 4K page.
PteAfterSplit(u, entries, before) ==
  IF \E p \in PagesOfUnit(u) : MatchesMmio(p, p + 1) THEN entries
  ELSE IF MatchesMmio(u * UnitPages, (u + 1) * UnitPages) THEN None
  ELSE before

Split2MPageTo4K ==
  /\ At2M /\ UnitMatches(cursor)
  /\ \E a \in AllocatePageTableMemory(1) :
       /\ pools' = a.pools /\ current' = a.current
       /\ SetOwn([Extended(a, 1) EXCEPT
                    !.pt = [Own.pt EXCEPT ![cursor] = a.first],
                    !.hole = @ \cup Holes(cursor),
                    !.pte = PteAfterSplit(cursor, a.first, @)])
  /\ cursor' = cursor + 1
  /\ UNCHANGED <<page1G, vmm, thread, pc, walk>>

-----------------------------------------------------------------------------
(***************************************************************************)
(* EnablePageTableProtection: unmap every pool in the ring.                *)
(***************************************************************************)

\* Bug: what is in use is not counted.
FreeSize(ps, b) == ps[b].freePages

PoolSize(ps, b) == ps[b].offset + ps[b].freePages

WalkTo(head, pool, unit, size) ==
  walk' = [head |-> head, pool |-> pool, unit |-> unit, size |-> size]

EnablePageTableProtection ==
  /\ pc = "map" /\ cursor \notin Unit
  /\ pc' = "protect"
  /\ WalkTo(current, current, current, PoolSize(pools, current))
  /\ UNCHANGED <<page1G, vmm, pools, current, table, thread, cursor>>

\* The rest of the iteration after SetPageTablePoolUnmapped left the pools as
\* ps; behind the last pool VirtualizeSystem goes on to the next thread.
NextUnit(ps) ==
  LET next == ps[walk.pool].next
  IN  CASE walk.size > UnitPages ->
             /\ WalkTo(walk.head, walk.pool, walk.unit + 1, walk.size - UnitPages)
             /\ UNCHANGED <<thread, pc>>
        [] walk.size <= UnitPages /\ next # walk.head ->
             /\ WalkTo(walk.head, next, next, PoolSize(ps, next))
             /\ UNCHANGED <<thread, pc>>
        [] OTHER ->
             /\ thread' = thread + 1
             /\ pc' = IF thread' \in Thread THEN "create" ELSE "done"
             /\ UNCHANGED walk

\* Level 1 has no PS bit: in a 2M page that was split nothing is cleared.
Cleared(t, u) == IF t.pt[u] = None THEN t.clear \cup {u} ELSE t.clear

\* SetPageTablePoolUnmapped where the 1G page is already split.
SetUnitUnmapped ==
  /\ pc = "protect" /\ GigaOf(walk.unit) \in Own.split1G
  /\ SetOwn([Own EXCEPT !.clear = Cleared(Own, walk.unit)])
  /\ NextUnit(pools)
  /\ UNCHANGED <<page1G, vmm, pools, current, cursor>>

\* SetPageTablePoolUnmapped where it has to be split first.
SplitAndSetUnitUnmapped ==
  /\ pc = "protect" /\ GigaOf(walk.unit) \notin Own.split1G
  /\ \E a \in AllocatePageTableMemory(1) :
       /\ pools' = a.pools /\ current' = a.current
       /\ SetOwn([Extended(a, 1) EXCEPT
                    !.split1G = @ \cup {GigaOf(walk.unit)},
                    !.clear = Cleared(Own, walk.unit)])
       /\ NextUnit(a.pools)
  /\ UNCHANGED <<page1G, vmm, cursor>>

\* An allocation fails, which the callers only assert.
OutOfMemory ==
  /\ \/ pc = "create" /\ AllocatePageTableMemory(TotalPagesNum) = {}
     \/ /\ \/ At1G /\ GigaMatches(GigaOf(cursor))
           \/ At2M /\ UnitMatches(cursor)
           \/ pc = "protect" /\ GigaOf(walk.unit) \notin Own.split1G
        /\ AllocatePageTableMemory(1) = {}
  /\ pc' = "outOfMemory"
  /\ UNCHANGED <<page1G, vmm, pools, current, table, thread, cursor, walk>>

-----------------------------------------------------------------------------
Init ==
  /\ page1G \in BOOLEAN
  /\ vmm \in {b \in Ram : b .. b + VmmUnits - 1 \subseteq Ram}
  /\ pools = <<>> /\ current = None
  /\ table = [t \in Thread |->
                [split1G |-> {}, pt |-> [u \in Unit |-> None], hole |-> {},
                 clear |-> {}, used |-> {}, pte |-> None]]
  /\ thread = 0 /\ pc = "create" /\ cursor = 0
  /\ walk = [head |-> 0, pool |-> 0, unit |-> 0, size |-> 0]

Next == \/ CreatePageTables
        \/ Map1GPage \/ Split1GPageTo2M \/ Map2MPage \/ Split2MPageTo4K
        \/ EnablePageTableProtection
        \/ SetUnitUnmapped \/ SplitAndSetUnitUnmapped
        \/ OutOfMemory

Spec == Init /\ [][Next]_vars

\* The bootstrap processor does not stop.
FairSpec == Spec /\ WF_vars(Next)

-----------------------------------------------------------------------------
(***************************************************************************)
(* Properties.                                                             *)
(***************************************************************************)

\* Every variable has the type the C code gives it.
TypeOK ==
  /\ page1G \in BOOLEAN /\ vmm \in Unit
  /\ DOMAIN pools \subseteq Unit
  /\ \A b \in DOMAIN pools : pools[b] \in Pool
  /\ current \in DOMAIN pools \cup {None}
  /\ table \in [Thread -> Table]
  /\ pc \in {"create", "map", "protect", "done", "outOfMemory"}
  /\ thread \in 0 .. NumProcessors /\ (pc # "done" => thread \in Thread)
  /\ cursor \in Nat
  /\ walk \in [head : Unit, pool : Unit, unit : Unit, size : Nat]

Finished == {t \in Thread : t < thread}

\* The guest of thread t cannot reach any of these pages.
Unmapped(t, pages) ==
  \A p \in pages : p \in table[t].hole \/ UnitOf(p) \in table[t].clear

\* The pool never hands out a page twice, nor the page of a pool's header,
\* nor one beyond its end, over all pools, threads and both walks
\* (AllocatePageTableMemory): the pages of the tables are, without overlap,
\* those between header and offset.
PagesAccounted ==
  /\ \A b \in DOMAIN pools :
       PoolSize(pools, b) = pools[b].units * UnitPages /\ pools[b].offset > 0
  /\ \A t1, t2 \in Thread :
       t1 # t2 => table[t1].used \cap table[t2].used = {}
  /\ UNION {table[t].used : t \in Thread} =
       UNION {b * UnitPages + 1 .. b * UnitPages + pools[b].offset - 1 :
                b \in DOMAIN pools}

\* What the NPF handler takes for granted: once a thread's table is built,
\* its MmioInfo.Pte points into the page table that maps the local APIC
\* page in that table, and the page is not present.
LapicIntercepted ==
  \A t \in Finished :
    /\ table[t].pte # None
    /\ table[t].pte = table[t].pt[UnitOf(LapicPage)]
    /\ table[t].pte \in table[t].used
    /\ LapicPage \in table[t].hole

\* A table hides nothing from the guest but the VMM's memory, the local APIC
\* page and pool memory: split and protected pages keep their neighbours.
GuestMemoryKept ==
  \A t \in Thread :
    /\ table[t].hole \subseteq
         VmmStart .. VmmStart + VmmPages - 1 \cup {LapicPage}
    /\ table[t].clear \subseteq PoolUnits

\* The guest of a finished table cannot reach the VMM's memory.
VmmUnmapped ==
  \A t \in Finished : Unmapped(t, VmmStart .. VmmStart + VmmPages - 1)

\* A finished table hides the tables built before it and, where nothing has
\* to be split while it is being protected, itself (EnablePageTableProtection
\* walks the ring while allocations insert pools).
TablesProtected ==
  \A t \in Finished :
    \A t2 \in 0 .. t :
      t2 < t \/ ~page1G => Unmapped(t, table[t2].used)

\* The pools form one ring: next leads out of every set of them but all.
OneRing ==
  \A S \in SUBSET DOMAIN pools :
    S # {} /\ (\A b \in S : pools[b].next \in S) => S = DOMAIN pools

\* The tables thread has to hide while its own is being protected.
ToHide == {t \in Thread : t < thread \/ (t = thread /\ ~page1G)}

\* The pools S have been walked over, or were inserted where the walk no
\* longer comes: next leads from them at most to the pool the walk is at, and
\* what ToHide has in them is hidden.
WalkedOver(S) ==
  /\ walk.head \in S \cup {walk.pool}
  /\ \A b \in S : pools[b].next \in S \cup {walk.pool}
  /\ \A t \in ToHide : \A p \in table[t].used :
       UnitOf(p) \in UNION {UnitsOf(b) : b \in S} => UnitOf(p) \in Own.clear
  /\ walk.pool .. walk.unit - 1 \subseteq Own.clear

\* The inductive invariant behind TablesProtected.  A pool allocated during
\* the walk either lies before it or holds nothing of an earlier table, and no
\* unit of a pool was split, so that each can be made not present.
ProtectInv ==
  /\ OneRing
  /\ current = None => DOMAIN pools = {}
  /\ PoolUnits \cap vmm .. vmm + VmmUnits - 1 = {}
  /\ \A t \in Thread, u \in Unit : table[t].pt[u] # None => UnitMatches(u)
  /\ pc \in {"map", "protect"} /\ ~page1G => Own.split1G = Giga
  /\ pc = "protect" => \E S \in SUBSET DOMAIN pools : WalkedOver(S)

\* Unless memory runs out, every table is finished: in particular the walk
\* over the ring of pools comes back to its head.
Completes == <>(pc \in {"done", "outOfMemory"})

\* VirtualMemory.c: "Protect the page table by marking the memory used for
\* page table to be unmapped for the Guest."
TablesUnmapped ==
  \A t, t2 \in Finished : Unmapped(t, table[t2].used)

=============================================================================
