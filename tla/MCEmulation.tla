---------------------------- MODULE MCEmulation ----------------------------
(* Instances of Emulation for TLC: three processors with one, eight and 64     *)
(* cores, of which one has the caches of a Bulldozer, one of a Zen, and one    *)
(* has direct-mapped, disabled and multi-line caches.                          *)
EXTENDS Emulation

Tlb(assoc, size) == [assoc |-> assoc, size |-> size]
Cache(assoc, size, line, linesPerTag) ==
  [assoc |-> assoc, size |-> size, line |-> line, linesPerTag |-> linesPerTag]

AmdMsrs == {BIOS_SIGN_ID, PAT, <<0, 16>>, <<HiC000, 128>>}

Bulldozer ==
  [maxLeaf |-> 13, features |-> {"sse2"}, nc |-> 7, coresPerUnit |-> 1, fid |-> 160,
   did |-> 8, msrs |-> AmdMsrs, lapic |-> 80,
   l1 |-> [dtlb2m |-> Tlb(255, 64), itlb2m |-> Tlb(255, 24), dtlb4k |-> Tlb(255, 64),
           itlb4k |-> Tlb(255, 48), dc |-> Cache(4, 16, 64, 1), ic |-> Cache(2, 64, 64, 1)],
   l2 |-> [dtlb2m |-> Tlb(8, 1024), itlb2m |-> Tlb(6, 1024), dtlb4k |-> Tlb(8, 1024),
           itlb4k |-> Tlb(4, 512), l2 |-> Cache(8, 2048, 64, 1), l3 |-> Cache(12, 16, 64, 1)]]

Zen ==
  [Bulldozer EXCEPT
     !.maxLeaf = 16, !.nc = 127, !.fid = 122, !.msrs = AmdMsrs \cup {X2APIC_VERSION},
     !.l1.dc = Cache(8, 32, 64, 1), !.l1.ic = Cache(4, 64, 64, 1),
     !.l2.itlb4k = Tlb(6, 1024), !.l2.l2 = Cache(6, 512, 64, 1), !.l2.l3 = Cache(8, 64, 64, 1)]

Odd ==
  [Bulldozer EXCEPT
     !.nc = 0, !.coresPerUnit = 0, !.fid = 37, !.did = 10, !.l1.dc = Cache(1, 8, 32, 1),
     !.l1.itlb2m = Tlb(1, 3), !.l2.l2 = Cache(0, 0, 0, 0), !.l2.l3 = Cache(8, 5000, 64, 2)]

MCProcessors == <<Bulldozer, Zen, Odd>>

\* All leaves the Runtime tells apart, one that it passes on, and one behind the
\* last of the VMM.
MCLeaves == {0, 1, 2, 4, 7, VmmBase, VmmBase + 1, VmmMaxval, VmmMaxval + 1}

\* The intercepted MSRs, some the processors have, one neither has, and one the
\* permission map does not cover.
MCMsrs == MsrIntercepts \cup {<<0, 16>>, <<0, 417>>, <<HiC000, 128>>, <<49154, 0>>}

\* The values end at a boundary: no segment, only an RPL, an RPL to be masked,
\* and selectors that wrap.
MCSysenterCs == {0, 3, 11, 65528}

\* Sizes and numbers of entries at, below and above those of the table.
MCQueries ==
  [type : {"CACHE"}, level : {"L1_DATA", "L1_INST", "L2", "L2_2LINESECTOR", "L3", "L3_2LINESECTOR"},
   ways : {0, 1, 4, 8, 12, 16}, size : {0, 7, 8, 16, 31, 64, 512, 1536, 2048, 5000, 16384},
   entries : {0, 32, 64}]
  \cup [type : {"TLB"}, level : {"DATA", "INST"}, ways : {0, 1, 4, 8}, size : {SMALL, LARGE},
        entries : {0, 1, 2, 7, 8, 32, 63, 64, 100, 128, 1024}]
  \cup [type : {"PREFETCH"}, level : {"NA"}, ways : {0}, size : {32, 64, 128}, entries : {0}]

\* Why DescriptorBestFit is about plain fields only.  The code takes the encodings of
\* CPUID 80000005 and 80000006 for numbers (Leaf2.c:359-397): the 16-way L2 of the
\* Bulldozer becomes an 8-way one, the 8-way L2 of the Zen has a row but is not found,
\* and the direct-mapped TLB of the third processor becomes fully associative.
ASSUME EncodedFieldsMisread ==
  LET Described(c, reg, byte) ==
        \A k \in Parts(c) : k.reg = reg /\ k.byte = byte => BestFit(k.query, Leaf2(c)[reg][byte])
  IN  /\ Leaf2(Bulldozer).edx[1] = 125 /\ ~Described(Bulldozer, "edx", 1)
      /\ Leaf2(Zen).edx[1] = NULL      /\ ~Described(Zen, "edx", 1)
      /\ Leaf2(Odd).eax[4] = 2         /\ ~Described(Odd, "eax", 4)
=============================================================================
