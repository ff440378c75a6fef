-------------------------------- MODULE Cpuid --------------------------------
(***************************************************************************)
(* What the Runtime answers to CPUID (Runtime/Intercepts/Cpuid): the       *)
(* leaves are pure functions of the processor, given as a record c:        *)
(*   maxLeaf, features   what CPUID leaves 0 and 1 of the processor return *)
(*   nc, coresPerUnit    CPUID 80000008 ECX.NC, 8000001E EBX               *)
(*   fid, did            the multiplier and divisor of P-state 0           *)
(*   l1, l2              the fields of CPUID 80000005 and 80000006         *)
(* Leaf 2 is a search in a table of Intel's cache descriptors; its bytes   *)
(* are what a guest knows of the caches.                                   *)
(***************************************************************************)
EXTENDS Naturals, Sequences

CONSTANT Queries  \* cache and TLB geometries the search is compared on

\* Values of XNU_CPUID_LEAF2_QUALIFIER: FULLY is also the number of ways of a
\* direct-mapped cache.
FULLY == 1
SMALL == 14
LARGE == 15

Row(type, level, d) ==
  [value |-> d[1], type |-> type, level |-> level, ways |-> d[2], size |-> d[3],
   entries |-> d[4]]
Rows(type, level, ds) == [i \in 1..Len(ds) |-> Row(type, level, ds[i])]

\* mCacheDescriptorMap: value, ways, size (in KB, or SMALL or LARGE pages), entries or
\* line size.  The rows that no query of Leaf2 can name are left out: the other
\* levels, and the TLBs for small and large pages at once.
InstTlb ==
  << <<1, 4, SMALL, 32>>, <<2, FULLY, LARGE, 2>>, <<11, 4, LARGE, 4>>,
     <<79, 0, SMALL, 32>>, <<176, 4, SMALL, 128>>, <<177, 4, LARGE, 8>>,
     <<178, 4, SMALL, 64>> >>
DataTlb ==
  << <<3, 4, SMALL, 64>>, <<4, 4, LARGE, 8>>, <<179, 4, SMALL, 128>> >>
L1Inst ==
  << <<6, 4, 8, 32>>, <<8, 4, 16, 32>>, <<9, 4, 32, 64>>, <<48, 8, 32, 64>> >>
L1Data ==
  << <<10, 2, 8, 32>>, <<12, 4, 16, 32>>, <<13, 4, 16, 64>>, <<14, 6, 24, 64>>,
     <<44, 8, 32, 64>> >>
L2 ==
  << <<33, 8, 256, 64>>, <<64, 0, 0, 0>>, <<65, 4, 128, 32>>, <<66, 4, 256, 32>>,
     <<67, 4, 512, 32>>, <<68, 4, 1024, 32>>, <<69, 4, 2048, 32>>,
     <<72, 12, 3072, 64>>, <<73, 16, 4096, 64>>, <<78, 24, 6144, 64>>,
     <<120, 4, 1024, 64>>, <<125, 8, 2048, 64>>, <<127, 2, 512, 64>>,
     <<128, 8, 512, 64>>, <<130, 8, 256, 32>>, <<131, 8, 512, 32>>,
     <<132, 8, 1024, 32>>, <<133, 8, 2048, 32>>, <<134, 4, 512, 64>>,
     <<135, 8, 1024, 64>> >>
L2TwoLines ==
  << <<121, 8, 128, 64>>, <<122, 8, 256, 64>>, <<123, 8, 512, 64>>,
     <<124, 8, 1024, 64>> >>
L3TwoLines ==
  << <<34, 4, 512, 64>>, <<35, 8, 1024, 64>>, <<37, 8, 2048, 64>>,
     <<41, 8, 4096, 64>> >>
L3 ==
  << <<70, 4, 4096, 64>>, <<71, 8, 8192, 64>>, <<74, 12, 6144, 64>>,
     <<75, 16, 8192, 64>>, <<76, 12, 12288, 64>>, <<77, 16, 16384, 64>>,
     <<208, 4, 512, 64>>, <<209, 4, 1024, 64>>, <<210, 4, 2048, 64>>,
     <<211, 4, 4096, 64>>, <<212, 4, 8192, 64>>, <<214, 8, 1024, 64>>,
     <<215, 8, 2048, 64>>, <<216, 8, 4096, 64>>, <<217, 8, 8192, 64>>,
     <<218, 8, 12288, 64>>, <<220, 12, 1536, 64>>, <<221, 12, 3072, 64>>,
     <<222, 12, 6144, 64>>, <<223, 12, 12288, 64>>, <<224, 12, 18432, 64>>,
     <<226, 16, 2048, 64>>, <<227, 16, 4096, 64>>, <<228, 16, 8192, 64>>,
     <<229, 16, 16384, 64>>, <<230, 16, 24576, 64>> >>
Prefetch ==
  << <<240, 0, 64, 0>>, <<241, 0, 128, 0>> >>

mCacheDescriptorMap ==
  Rows("TLB", "INST", InstTlb)
  \o Rows("TLB", "DATA", DataTlb)
  \o Rows("CACHE", "L1_INST", L1Inst)
  \o Rows("CACHE", "L1_DATA", L1Data)
  \o Rows("CACHE", "L2", L2)
  \o Rows("CACHE", "L2_2LINESECTOR", L2TwoLines)
  \o Rows("CACHE", "L3_2LINESECTOR", L3TwoLines)
  \o Rows("CACHE", "L3", L3)
  \o Rows("PREFETCH", "NA", Prefetch)

Query(type, level, ways, size, entries) ==
  [type |-> type, level |-> level, ways |-> ways, size |-> size, entries |-> entries]

Exact(w, q) == w.size = q.size /\ w.entries = q.entries

Fits(w, q) ==
  /\ w.type = q.type /\ w.level = q.level /\ w.ways = q.ways
  /\ CASE q.type = "CACHE" -> w.size <= q.size /\ w.entries = q.entries
       [] q.type = "TLB"   -> w.size = q.size /\ w.entries <= q.entries
       [] OTHER            -> Exact(w, q)

\* Bug: the smaller of two rows that fit replaces the larger.
BetterIfSmaller(w, d) == w.size < d.size \/ w.entries < d.entries

\* Does row w replace the row d found so far?
Better(w, d) == w.size > d.size \/ w.entries > d.entries

NULL == 0

\* One iteration of the search: the row found once row i was looked at, if it
\* was d before.  An exact match ends the search.
Takes(q, w, d) == ~Exact(d, q) /\ (Exact(w, q) \/ Better(w, d))

Scan(q, i, d) ==
  LET map == mCacheDescriptorMap
  IN  IF Fits(map[i], q) /\ (d = NULL \/ Takes(q, map[i], map[d])) THEN i ELSE d

\* The row found after each of them.
Search(q) ==
  LET found[i \in 0..Len(mCacheDescriptorMap)] ==
        IF i = 0 THEN NULL ELSE Scan(q, i, found[i - 1])
  IN  found

\* InternalCacheInfoToDescriptor
CacheInfoToDescriptor(q) ==
  LET best == Search(q)[Len(mCacheDescriptorMap)]
  IN  IF best = NULL THEN NULL ELSE mCacheDescriptorMap[best].value

\* Bug: "all ones" is not translated.
WaysNeverFull(assoc, ones) == assoc

\* How leaf 2 takes an associativity: "all ones" of its field is full, all other
\* encodings are taken for the number of ways.
Ways(assoc, ones) == IF assoc = ones THEN FULLY ELSE assoc

TlbQuery(level, page, t, ones) == Query("TLB", level, Ways(t.assoc, ones), page, t.size)
CacheQuery(level, k, ones) == Query("CACHE", level, Ways(k.assoc, ones), k.size, k.line)

\* AmdIntelEmuInternalCpuidLeaf2 up to its translation: what the bytes of EAX
\* to EDX are searched for.
Leaf2Queries(c) ==
  [eax |-> <<Query("PREFETCH", "NA", 0, 64, 0),
             TlbQuery("DATA", LARGE, c.l1.dtlb2m, 255),
             TlbQuery("INST", LARGE, c.l1.itlb2m, 255)>>,
   ebx |-> <<TlbQuery("DATA", SMALL, c.l1.dtlb4k, 255),
             TlbQuery("INST", SMALL, c.l1.itlb4k, 255),
             CacheQuery("L1_DATA", c.l1.dc, 255), CacheQuery("L1_INST", c.l1.ic, 255)>>,
   ecx |-> <<TlbQuery("DATA", LARGE, c.l2.dtlb2m, 15),
             TlbQuery("INST", LARGE, c.l2.itlb2m, 15),
             TlbQuery("DATA", SMALL, c.l2.dtlb4k, 15),
             TlbQuery("INST", SMALL, c.l2.itlb4k, 15)>>,
   edx |-> <<CacheQuery(IF c.l2.l2.linesPerTag < 2 THEN "L2" ELSE "L2_2LINESECTOR",
                        c.l2.l2, 15),
             CacheQuery(IF c.l2.l3.linesPerTag < 2 THEN "L3" ELSE "L3_2LINESECTOR",
                        c.l2.l3, 15)>>]

Descriptors(qs) == [i \in 1..Len(qs) |-> CacheInfoToDescriptor(qs[i])]

\* The bytes of the registers, from the lowest; al is the number of calls.
Leaf2(c) ==
  LET q == Leaf2Queries(c)
  IN  [op |-> "leaf2", eax |-> <<1>> \o Descriptors(q.eax), ebx |-> Descriptors(q.ebx),
       ecx |-> Descriptors(q.ecx), edx |-> Descriptors(q.edx) \o <<NULL, NULL>>]

-----------------------------------------------------------------------------
(* The other leaves. *)

Leaf0(c) == [op |-> "leaf0", max |-> c.maxLeaf, vendor |-> "GenuineIntel"]

\* The signature of a Haswell S C0; EBX to EDX are the processor's.
Leaf1(c) == [op |-> "leaf1", signature |-> 198339,  \* 306C3H
             features |-> c.features \cup {"hypervisor"}]

ThreadCount(c) == (c.nc + 1) % 2^16
CoreCount(c)   == ThreadCount(c) \div (c.coresPerUnit + 1)

\* Bug: the logical processors are counted, as AMD's own leaf does.
Leaf4Threads(c) == [op |-> "leaf4", cores |-> (ThreadCount(c) - 1) % 64]

\* EAX[31:26] of 6 bits, in a leaf that is otherwise the processor's 8000001D.
Leaf4(c) == [op |-> "leaf4", cores |-> (CoreCount(c) - 1) % 64]

\* Bug: the division by the divisor comes last.
LeafVmm10DivideLast(c) ==
  LET multiplier == (c.fid * 2) \div c.did
      tsc        == (c.fid \div c.did) * 200 * 1000
  IN  [op |-> "vmm10", tsc |-> tsc, bus |-> tsc \div multiplier]

\* InternalCpuidLeaf40000010, in kHz.
LeafVmm10(c) ==
  LET multiplier == ((c.fid \div c.did) * 2) % 2^8
      tsc        == (c.fid \div c.did) * 200 * 1000
  IN  [op |-> "vmm10", tsc |-> tsc, bus |-> tsc \div multiplier]

VmmBase   == 1073741824  \* 40000000H
VmmMaxval == VmmBase + 16

\* AmdEmuInterceptCpuidVmm.  The assertion on leaves behind the last is left out.
LeafVmm(c, index) ==
  CASE index = VmmBase   -> [op |-> "vmm", max |-> VmmMaxval, vendor |-> "GenuineAMD"]
    [] index = VmmMaxval -> LeafVmm10(c)
    [] OTHER             -> [op |-> "vmm0"]

\* AmdEmuInterceptCpuid: what the guest finds in EAX to EDX.
InterceptCpuid(c, index) ==
  CASE index = 0 -> Leaf0(c)
    [] index = 1 -> Leaf1(c)
    [] index = 2 -> Leaf2(c)
    [] index = 4 -> Leaf4(c)
    [] index \notin {0, 1, 2, 4} /\ index \notin VmmBase..(VmmBase + 255)
                 -> [op |-> "host", leaf |-> index]
    [] OTHER     -> LeafVmm(c, index)

-----------------------------------------------------------------------------
(* The reference, which owes nothing to the code of leaf 2 but its registers:  *)
(* what the fields of CPUID 80000005 and 80000006 mean (AMD64 Architecture     *)
(* Programmer's Manual, volume 3), and what the best row of the table is.      *)

\* The ways of a direct-mapped cache or TLB: the table has no row for any.
DIRECT == 256

L1Ways(assoc) == CASE assoc = 255 -> FULLY [] assoc = 1 -> DIRECT [] OTHER -> assoc

\* 80000006 encodes associativities in 4 bits; 7 and 9 are no number of ways.
L2Ways(assoc) ==
  CASE assoc = 1 -> DIRECT [] assoc = 5 -> 6 [] assoc = 6 -> 8 [] assoc = 8 -> 16
    [] assoc = 10 -> 32 [] assoc = 11 -> 48 [] assoc = 12 -> 64 [] assoc = 13 -> 96
    [] assoc = 14 -> 128 [] assoc = 15 -> FULLY [] OTHER -> assoc

\* The encodings of 80000006 that stand for themselves, or for full.
PlainL2 == {0, 2, 3, 4, 15}

\* A TLB or cache: the byte of leaf 2 that is to describe it, what is to be searched
\* for, and whether all its fields are plain numbers (or "all ones" for full).
Part(reg, byte, plain, query) == [reg |-> reg, byte |-> byte, plain |-> plain, query |-> query]

L1Tlb(reg, byte, level, page, t) ==
  Part(reg, byte, t.assoc # 1, Query("TLB", level, L1Ways(t.assoc), page, t.size))
L1Cache(byte, level, k) ==
  Part("ebx", byte, k.assoc # 1, Query("CACHE", level, L1Ways(k.assoc), k.size, k.line))
L2Tlb(byte, level, page, t) ==
  Part("ecx", byte, t.assoc \in PlainL2, Query("TLB", level, L2Ways(t.assoc), page, t.size))

\* unit is the number of KB the size counts.
L2Cache(byte, one, two, k, unit) ==
  Part("edx", byte, k.assoc \in PlainL2 /\ k.size * unit = k.size /\ k.linesPerTag \in 0..2,
       Query("CACHE",
             CASE k.linesPerTag < 2 -> one [] k.linesPerTag = 2 -> two [] OTHER -> "SECTORED",
             L2Ways(k.assoc), k.size * unit, k.line))

\* The caches and TLBs of a processor.
Parts(c) ==
  {L1Tlb("eax", 3, "DATA", LARGE, c.l1.dtlb2m), L1Tlb("eax", 4, "INST", LARGE, c.l1.itlb2m),
   L1Tlb("ebx", 1, "DATA", SMALL, c.l1.dtlb4k), L1Tlb("ebx", 2, "INST", SMALL, c.l1.itlb4k),
   L1Cache(3, "L1_DATA", c.l1.dc), L1Cache(4, "L1_INST", c.l1.ic),
   L2Tlb(1, "DATA", LARGE, c.l2.dtlb2m), L2Tlb(2, "INST", LARGE, c.l2.itlb2m),
   L2Tlb(3, "DATA", SMALL, c.l2.dtlb4k), L2Tlb(4, "INST", SMALL, c.l2.itlb4k),
   L2Cache(1, "L2", "L2_2LINESECTOR", c.l2.l2, 1),
   L2Cache(2, "L3", "L3_2LINESECTOR", c.l2.l3, 512)}

\* The descriptor found is that of a row that fits, and none that fits is
\* larger; if none fits there is no descriptor.
BestFit(q, value) ==
  LET map  == mCacheDescriptorMap
      fits == {i \in 1..Len(map) : Fits(map[i], q)}
  IN  IF fits = {} THEN value = NULL
      ELSE \E i \in fits :
             /\ map[i].value = value
             /\ \A j \in fits : IF q.type = "TLB" THEN map[j].entries <= map[i].entries
                                                  ELSE map[j].size <= map[i].size

AllBestFit == \A q \in Queries : BestFit(q, CacheInfoToDescriptor(q))
=============================================================================
