--------------------------- MODULE EmulationProofs ---------------------------
(***************************************************************************)
(* Theorems about MsrMap and Emulation for every processor, every set of   *)
(* MSRs the guest accesses and every SYSENTER_CS.                          *)
(***************************************************************************)
EXTENDS Emulation, CpuidProofs, TLAPS

-----------------------------------------------------------------------------
(* The permission map. *)

\* An MSR's number is made of its halves.
LEMMA MsrHalves ==
  ASSUME NEW m \in Msr
  PROVE  m = <<m[1], m[2]>> /\ m[1] \in Nat /\ m[2] \in Nat
<1>1. m = <<m[1], m[2]>> /\ m[1] \in Half /\ m[2] \in Half
  BY DEF Msr
<1> QED
  BY <1>1 DEF Half

\* The covered MSRs are numbered without overlap.
LEMMA RebasedInjective ==
  ASSUME NEW m \in Msr, NEW n \in Msr, Covered(m), Covered(n), Rebased(m) = Rebased(n)
  PROVE  m = n
<1>1. /\ m = <<m[1], m[2]>> /\ m[2] \in Nat
      /\ n = <<n[1], n[2]>> /\ n[2] \in Nat
  BY MsrHalves
<1>2. m[1] = n[1] /\ m[2] = n[2]
  BY <1>1 DEF Covered, Rebased, HiC000, HiC001
<1> QED
  BY <1>1, <1>2

\* Adding a whole number of bytes to four times their number.
LEMMA WholeBytes ==
  ASSUME NEW k \in Nat
  PROVE  /\ (k + 8192) \div 4 = 2048 + k \div 4 /\ (k + 8192) % 4 = k % 4
         /\ (k + 16384) \div 4 = 4096 + k \div 4 /\ (k + 16384) % 4 = k % 4
<1>1. (k + 8192) \div 4 = 2048 + k \div 4 /\ (k + 8192) % 4 = k % 4
  OBVIOUS
<1>2. (k + 16384) \div 4 = 4096 + k \div 4 /\ (k + 16384) % 4 = k % 4
  OBVIOUS
<1> QED
  BY <1>1, <1>2

\* The bit the processor looks at is the bit of Rebased(m).
LEMMA LookupRebased ==
  ASSUME NEW m \in Msr, Covered(m), NEW write \in BOOLEAN
  PROVE  /\ Rebased(m) \in Nat
         /\ Intercepted(m, write) <=>
              <<Rebased(m) \div 4, 2 * (Rebased(m) % 4) + IF write THEN 1 ELSE 0>> \in MsrPm
<1>1. m[1] \in {0, HiC000, HiC001} /\ m[2] \in Nat /\ m[2] < 8192
  BY MsrHalves DEF Covered
<1>2. HiC000 # 0 /\ HiC001 # 0 /\ HiC000 # HiC001
  BY DEF HiC000, HiC001
<1>3. CASE m[1] = 0
  BY <1>1, <1>3, <1>2 DEF Rebased, Intercepted
<1>4. CASE m[1] = HiC000
  <2>1. Rebased(m) = m[2] + 8192
    BY <1>4, <1>2 DEF Rebased
  <2>2. (m[2] + 8192) \div 4 = 2048 + m[2] \div 4 /\ (m[2] + 8192) % 4 = m[2] % 4
    BY <1>1, WholeBytes
  <2> QED
    BY <1>1, <1>4, <1>2, <2>1, <2>2 DEF Intercepted
<1>5. CASE m[1] = HiC001
  <2>1. Rebased(m) = m[2] + 16384
    BY <1>5, <1>2 DEF Rebased
  <2>2. (m[2] + 16384) \div 4 = 4096 + m[2] \div 4 /\ (m[2] + 16384) % 4 = m[2] % 4
    BY <1>1, WholeBytes
  <2> QED
    BY <1>1, <1>5, <1>2, <2>1, <2>2 DEF Intercepted
<1> QED
  BY <1>1, <1>3, <1>4, <1>5

\* The bits of an MSR, in the terms of the lookup.
LEMMA PmBitsRebased ==
  ASSUME NEW n \in Msr, Covered(n)
  PROVE  PmBits(n) = {<<Rebased(n) \div 4, 2 * (Rebased(n) % 4)>>,
                      <<Rebased(n) \div 4, 2 * (Rebased(n) % 4) + 1>>}
<1>1. Rebased(n) \in Nat
  BY LookupRebased
<1>2. /\ (2 * Rebased(n)) \div 8 = Rebased(n) \div 4
      /\ (2 * Rebased(n)) % 8 = 2 * (Rebased(n) % 4)
  BY <1>1
<1> QED
  BY <1>2 DEF PmBits

\* An access that the permission map covers leaves the guest exactly if the
\* table of MSR intercepts has the MSR, whichever MSR it is; all others do
\* anyway (InternalInitMsrPm in AmdIntelEmuDxe.c).
THEOREM MapExact ==
  ASSUME NEW m \in Msr, NEW write \in BOOLEAN
  PROVE  Intercepted(m, write) <=> ~Covered(m) \/ m \in MsrIntercepts
<1>1. MsrIntercepts \subseteq Msr
  BY DEF MsrIntercepts, Msr, Half, PAT, MISC_ENABLE, PLATFORM_ID, BIOS_SIGN_ID,
         CORE_THREAD_COUNT, X2APIC_VERSION
<1>2. CASE ~Covered(m)
  BY <1>2 DEF Intercepted
<1>3. CASE Covered(m) /\ m \in MsrIntercepts
  <2>1. PmBits(m) \subseteq MsrPm
    BY <1>3 DEF MsrPm
  <2>2. PmBits(m) = {<<Rebased(m) \div 4, 2 * (Rebased(m) % 4)>>,
                     <<Rebased(m) \div 4, 2 * (Rebased(m) % 4) + 1>>}
    BY <1>3, PmBitsRebased
  <2>3. CASE write = TRUE
    BY <1>3, <2>1, <2>2, <2>3, LookupRebased
  <2>4. CASE write = FALSE
    <3>1. Rebased(m) \in Nat
      BY <1>3, LookupRebased
    <3>2. 2 * (Rebased(m) % 4) + 0 = 2 * (Rebased(m) % 4)
      BY <3>1
    <3> QED
      BY <1>3, <2>1, <2>2, <2>4, <3>2, LookupRebased
  <2> QED
    BY <2>3, <2>4
<1>4. CASE Covered(m) /\ m \notin MsrIntercepts
  <2> SUFFICES ASSUME Intercepted(m, write) PROVE FALSE
    BY <1>4
  <2>1. PICK n \in MsrIntercepts :
          Covered(n) /\ <<Rebased(m) \div 4, 2 * (Rebased(m) % 4) + IF write THEN 1 ELSE 0>>
                          \in PmBits(n)
    BY <1>4, LookupRebased DEF MsrPm
  <2>2. Rebased(m) \in Nat /\ Rebased(n) \in Nat
    BY <1>1, <1>4, <2>1, LookupRebased
  <2>3. Rebased(m) \div 4 = Rebased(n) \div 4 /\ Rebased(m) % 4 = Rebased(n) % 4
    BY <1>1, <2>1, <2>2, PmBitsRebased
  <2>4. Rebased(m) = Rebased(n)
    BY <2>2, <2>3
  <2> QED
    BY <1>1, <1>4, <2>1, <2>4, RebasedInjective
<1> QED
  BY <1>2, <1>3, <1>4

\* The assertion on the map's offset holds for every MSR of the table that the map
\* covers (AmdIntelEmuDxe.c:558).
LEMMA OffsetsAsserted ==
  ASSUME NEW m \in MsrIntercepts
  PROVE  Covered(m) /\ OffsetAsserted(m)
<1>1. m[1] = 0 /\ m[2] \in Nat /\ m[2] < 8192
  BY DEF MsrIntercepts, PAT, MISC_ENABLE, PLATFORM_ID, BIOS_SIGN_ID, CORE_THREAD_COUNT,
         X2APIC_VERSION
<1>2. Rebased(m) = m[2]
  BY <1>1 DEF Rebased, HiC000, HiC001
<1>3. (2 * m[2]) \div 8 < 2048
  BY <1>1
<1> QED
  BY <1>1, <1>2, <1>3 DEF Covered, OffsetAsserted

-----------------------------------------------------------------------------
(* Selectors. *)

\* Setting and clearing an RPL keeps a selector in 16 bits.
LEMMA RplType ==
  ASSUME NEW s \in Half
  PROVE  /\ Rpl0(s) \in Half /\ Rpl0(s) % 4 = 0
         /\ Rpl3(s) \in Half /\ Rpl3(s) % 4 = 3
<1>1. s \in Nat /\ s < 65536
  BY DEF Half
<1>2. s - (s % 4) \in Nat /\ (s - (s % 4)) % 4 = 0
  BY <1>1
<1>3. s - (s % 4) < 65536
  BY <1>1
<1>4. (s - (s % 4) + 3) % 4 = 3
  BY <1>1
<1>5. s - (s % 4) + 3 < 65536
  BY <1>1
<1> QED
  BY <1>2, <1>3, <1>4, <1>5 DEF Half, Rpl0, Rpl3

\* The selector behind another has its RPL, moved ones are selectors.
LEMMA NextSelector ==
  ASSUME NEW s \in Half
  PROVE  /\ UInt16(s + 8) \in Half /\ UInt16(s + 8) % 4 = s % 4
         /\ UInt16(s + 16) \in Half
         /\ UInt16(s + 32) \in Half
<1>1. s \in Nat /\ s < 65536
  BY DEF Half
<1>2. \A n \in Nat : UInt16(n) \in Half
  BY DEF Half, UInt16
<1>3. ((s + 8) % 65536) % 4 = s % 4
  BY <1>1
<1> QED
  BY <1>1, <1>2, <1>3 DEF UInt16

\* SYSEXIT adds to SYSENTER_CS before it sets the RPL, a GDT has no RPLs.
LEMMA OffsetBelowRpl ==
  ASSUME NEW s \in Half, NEW d \in {16, 32}
  PROVE  Rpl3(UInt16(s + d)) = Rpl3(UInt16(Rpl0(s) + d))
<1> DEFINE r == s % 4
           t == s - r
<1>1. s \in Nat /\ s < 65536
  BY DEF Half
<1>2. t \in Nat /\ t <= 65532 /\ t % 4 = 0 /\ r \in 0..3
  BY <1>1
<1>3. s = t + r /\ r \in Nat
  BY <1>1, <1>2
<1> HIDE DEF r, t
<1>4. (t + r + d) % 65536 = ((t + d) % 65536) + r
  <2>1. CASE t + d < 65536
    <3>1. t + r + d < 65536
      BY <1>2, <2>1
    <3> QED
      BY <3>1, <1>2, <2>1
  <2>2. CASE t + d >= 65536
    <3>1. (t + r + d) % 65536 = t + r + d - 65536
      BY <1>2, <2>2
    <3>2. (t + d) % 65536 = t + d - 65536
      BY <1>2, <2>2
    <3> QED
      BY <3>1, <3>2, <1>2, <2>2
  <2> QED
    BY <2>1, <2>2, <1>2
<1>5. ((t + d) % 65536) % 4 = 0
  BY <1>2
<1>6. (((t + d) % 65536) + r) % 4 = r
  BY <1>2, <1>5
<1> QED
  BY <1>2, <1>3, <1>4, <1>5, <1>6 DEF Rpl0, Rpl3, UInt16, r, t

-----------------------------------------------------------------------------
(* Segments. *)

GuestSegments == {Kernel(TRUE), Kernel(FALSE), User32, User64}

\* Both selectors have the CPL as their RPL, and CS.D is not set with CS.L.
WellFormed(seg) ==
  /\ seg \in Segments
  /\ seg.cs % 4 = seg.cpl /\ seg.ss % 4 = seg.cpl
  /\ ~(seg.l /\ seg.db)

\* Flat gives both segments the RPL of CS.
LEMMA FlatType ==
  ASSUME NEW cs \in Half, NEW cpl \in {0, 3}, cs % 4 = cpl, NEW l \in BOOLEAN
  PROVE  WellFormed(Flat(cs, cpl, l))
<1>1. UInt16(cs + 8) \in Half /\ UInt16(cs + 8) % 4 = cpl
  BY NextSelector
<1> QED
  BY <1>1 DEF Flat, Segments, WellFormed

\* The segments of the GDT are well-formed, whatever SYSENTER_CS is.
LEMMA GuestSegmentsGood ==
  ASSUME sysenterCs \in SysenterCs, NEW seg \in GuestSegments
  PROVE  WellFormed(seg)
<1>1. sysenterCs \in Half
  BY SysenterCsAssumption
<1>2. GdtBase \in Half /\ GdtBase % 4 = 0
  <2>1. 8 \in Half /\ 8 % 4 = 0
    BY DEF Half
  <2> QED
    BY <1>1, <2>1, RplType DEF GdtBase
<1>3. \A l \in BOOLEAN : seg = Kernel(l) => WellFormed(seg)
  BY <1>2, FlatType DEF Kernel
<1>4. seg = User32 => WellFormed(seg)
  BY <1>2, NextSelector, RplType, FlatType DEF User32
<1>5. seg = User64 => WellFormed(seg)
  BY <1>2, NextSelector, RplType, FlatType DEF User64
<1> QED
  BY <1>3, <1>4, <1>5 DEF GuestSegments

\* The mode of the code segments.
LEMMA Modes ==
  /\ \A l \in BOOLEAN : Kernel(l).l = l
  /\ User32.l = FALSE
  /\ User64.l = TRUE
<1>1. \A cs, cpl, l : Flat(cs, cpl, l).l = l
  BY DEF Flat
<1> QED
  BY <1>1 DEF Kernel, User32, User64

\* The GDT stays what it is.
LEMMA GuestSegmentsKept ==
  ASSUME UNCHANGED sysenterCs
  PROVE  GuestSegments' = GuestSegments
BY DEF GuestSegments, Kernel, User32, User64, GdtBase

-----------------------------------------------------------------------------
(* The invariant.  Between exits the processor uses what the VMCB says; after  *)
(* an exit this is still so of everything that is marked clean.                *)

IInv ==
  /\ TypeOK
  /\ save.seg \in GuestSegments
  /\ save.high => save.seg.l
  /\ pc = "guest" \/ clean.np => cpu.pat = msrs.gpat
  /\ pc = "guest" \/ clean.seg => cpu.seg = save.seg
  /\ pc = "guest" => cpu.high = save.high
  /\ pc = "guest" /\ np => LegalPat(msrs.gpat)
  /\ MsrFaultsAccounted

\* The guest starts with what its VMCB says.
LEMMA InitIInv == Init => IInv
<1> SUFFICES ASSUME Init PROVE IInv
  OBVIOUS
<1>1. Kernel(TRUE) \in GuestSegments /\ Kernel(TRUE) \in Segments /\ Kernel(TRUE).l
  BY GuestSegmentsGood, Modes DEF Init, GuestSegments, WellFormed
<1>2. TypeOK
  <2>1. msrs \in HostMsrs /\ msrs.gpat \in Pat
    BY DEF Init, Pat, HostMsrs
  <2>2. /\ save \in [seg : Segments, high : BOOLEAN]
        /\ cpu \in [pat : Pat, seg : Segments, high : BOOLEAN]
    BY <1>1, <2>1 DEF Init
  <2> QED
    BY <2>1, <2>2 DEF Init, TypeOK, Clean
<1>3. MsrFaultsAccounted
  BY DEF Init, MsrFaultsAccounted, Done
<1>4. LegalPat(msrs.gpat)
  BY DEF Init, LegalPat
<1> QED
  BY <1>1, <1>2, <1>3, <1>4 DEF Init, IInv

\* The handlers keep the types of the MSRs, and no write but that of PAT changes
\* G_PAT, and that one marks it.
LEMMA WriteHandlerGood ==
  ASSUME TypeOK, NEW m, NEW v \in Values(m)
  PROVE  /\ WriteHandler(m, v, msrs) \in HostMsrs
         /\ CleanAfter(m).np => WriteHandler(m, v, msrs).gpat = msrs.gpat
<1>1. msrs \in HostMsrs
  BY DEF TypeOK
<1>2. PAT # MISC_ENABLE /\ PAT # BIOS_SIGN_ID /\ MISC_ENABLE # BIOS_SIGN_ID
  BY DEF PAT, MISC_ENABLE, BIOS_SIGN_ID
<1>3. CASE m = PAT
  <2>1. WriteHandler(m, v, msrs) = WrmsrPat(msrs, v)
    BY <1>3, <1>2 DEF WriteHandler
  <2>2. v.pat \in Pat
    BY <1>3, <1>2 DEF Values
  <2>3. [v.pat EXCEPT !.pa15 = "WC"] \in Pat
    BY <2>2 DEF Pat
  <2>4. WrmsrPat(msrs, v) \in HostMsrs /\ (~np => WrmsrPat(msrs, v).gpat = msrs.gpat)
    <3> DEFINE pat == [v.pat EXCEPT !.pa15 = "WC"]
    <3>1. WrmsrPat(msrs, v) \in {[msrs EXCEPT !.gpat = pat], [msrs EXCEPT !.pat = pat], msrs}
          /\ (~np => WrmsrPat(msrs, v) \in {[msrs EXCEPT !.pat = pat], msrs})
      BY Zenon DEF WrmsrPat
    <3> HIDE DEF pat
    <3>2. /\ [msrs EXCEPT !.gpat = pat] \in HostMsrs /\ [msrs EXCEPT !.pat = pat] \in HostMsrs
          /\ [msrs EXCEPT !.pat = pat].gpat = msrs.gpat
      BY <1>1, <2>3 DEF HostMsrs, pat
    <3> QED
      BY <1>1, <3>1, <3>2
  <2> QED
    BY <1>3, <2>1, <2>4 DEF CleanAfter, Clean, TypeOK
<1>4. CASE m # PAT /\ m = MISC_ENABLE
  <2>1. WriteHandler(m, v, msrs) = WrmsrMiscEnable(msrs, v)
    BY <1>4, <1>2 DEF WriteHandler
  <2>2. v.xd \in BOOLEAN /\ v.monitor \in BOOLEAN
    BY <1>4, <1>2 DEF Values
  <2> DEFINE monWaitDis == ~v.monitor
  <2>3. monWaitDis \in BOOLEAN
    BY <2>2
  <2>4. WrmsrMiscEnable(msrs, v) = [msrs EXCEPT !.nx = v.xd, !.monWaitDis = monWaitDis]
    BY Zenon DEF WrmsrMiscEnable
  <2> HIDE DEF monWaitDis
  <2>5. [msrs EXCEPT !.nx = v.xd, !.monWaitDis = monWaitDis] \in HostMsrs
    BY <1>1, <2>2, <2>3 DEF HostMsrs
  <2>6. [msrs EXCEPT !.nx = v.xd, !.monWaitDis = monWaitDis].gpat = msrs.gpat
    BY <1>1 DEF HostMsrs
  <2> QED
    BY <2>1, <2>4, <2>5, <2>6
<1>5. CASE m # PAT /\ m # MISC_ENABLE /\ m = BIOS_SIGN_ID
  <2>1. WriteHandler(m, v, msrs) = WrmsrBiosSignId(msrs, v)
    BY <1>5 DEF WriteHandler
  <2>2. v.high \in Signatures
    BY <1>5 DEF Values
  <2> QED
    BY <1>1, <2>1, <2>2 DEF WrmsrBiosSignId, HostMsrs
<1>6. CASE m # PAT /\ m # MISC_ENABLE /\ m # BIOS_SIGN_ID
  BY <1>1, <1>6 DEF WriteHandler
<1> QED
  BY <1>3, <1>4, <1>5, <1>6

\* Only a PAT with a reserved type makes G_PAT illegal.
LEMMA IllegalGpat ==
  ASSUME TypeOK, np, NEW m, NEW v \in Values(m), LegalPat(msrs.gpat),
         ~LegalPat(WriteHandler(m, v, msrs).gpat)
  PROVE  m = PAT /\ ~Legal(v)
<1>1. m = PAT
  <2>1. CleanAfter(m).np => WriteHandler(m, v, msrs).gpat = msrs.gpat
    BY WriteHandlerGood
  <2> QED
    BY <2>1 DEF CleanAfter, Clean
<1>2. v.op = "pat" /\ v.pat \in Pat
  BY <1>1 DEF Values, PAT, MISC_ENABLE, BIOS_SIGN_ID
<1>3. WriteHandler(m, v, msrs).gpat = [v.pat EXCEPT !.pa15 = "WC"]
  <2>1. WriteHandler(m, v, msrs) = [msrs EXCEPT !.gpat = [v.pat EXCEPT !.pa15 = "WC"]]
    BY <1>1 DEF WriteHandler, WrmsrPat, PAT, MISC_ENABLE, BIOS_SIGN_ID
  <2> QED
    BY <2>1 DEF TypeOK, HostMsrs
<1>4. ~LegalPat(v.pat)
  <2>1. [v.pat EXCEPT !.pa15 = "WC"].rest = v.pat.rest
    BY <1>2 DEF Pat
  <2> QED
    BY <1>3, <2>1 DEF LegalPat
<1> QED
  BY <1>1, <1>2, <1>4 DEF Legal

\* Until the guest goes on, the PAT it wrote stays known.
LEMMA ReservedKept ==
  ASSUME UNCHANGED last
  PROVE  ReservedPatWritten' = ReservedPatWritten
BY DEF ReservedPatWritten

\* CleanAfter keeps the segments clean.
LEMMA CleanAfterType ==
  ASSUME TypeOK, NEW m
  PROVE  CleanAfter(m) \in [np : BOOLEAN, seg : BOOLEAN] /\ CleanAfter(m).seg
BY DEF CleanAfter, Clean, TypeOK

\* No Read handler raises an exception.
LEMMA ReadHandlerGood ==
  ASSUME NEW m \in MsrIntercepts, NEW s
  PROVE  ReadHandler(m, s).op # "gp"
<1>1. m \in {PAT, MISC_ENABLE, PLATFORM_ID, BIOS_SIGN_ID, CORE_THREAD_COUNT, X2APIC_VERSION}
  BY DEF MsrIntercepts
<1>2. /\ RdmsrPat(s).op # "gp" /\ RdmsrMiscEnable(s).op # "gp" /\ RdmsrPlatformId.op # "gp"
      /\ RdmsrBiosSignId(s).op # "gp" /\ RdmsrX2apicVersion.op # "gp"
  BY DEF RdmsrPat, RdmsrMiscEnable, RdmsrPlatformId, RdmsrBiosSignId, RdmsrX2apicVersion
<1>3. RdmsrCoreThreadCount.op # "gp"
  BY DEF RdmsrCoreThreadCount
<1> QED
  BY <1>1, <1>2, <1>3 DEF ReadHandler

\* Every exit, every entry and every step of the guest keep the invariant.
LEMMA NextIInv == IInv /\ [Next]_vars => IInv'
<1> SUFFICES ASSUME IInv, [Next]_vars PROVE IInv'
  OBVIOUS
<1> USE DEF IInv
<1>1. sysenterCs' = sysenterCs => GuestSegments' = GuestSegments
  BY GuestSegmentsKept
<1>2. ASSUME NEW leaf \in Leaves, EmulateCpuid(leaf) PROVE IInv'
  BY <1>1, <1>2 DEF EmulateCpuid, Exit, TypeOK, Clean, MsrFaultsAccounted
<1>3. ASSUME NEW m \in Msrs, EmulateRdmsr(m) PROVE IInv'
  <2>1. m \in MsrIntercepts \/ ~Covered(m)
    BY <1>3, MsrsAssumption, MapExact DEF EmulateRdmsr
  <2>2. MsrFaultsAccounted'
    BY <1>3, <2>1, ReadHandlerGood DEF EmulateRdmsr, Exit, MsrFaultsAccounted, Done, Raised
  <2> QED
    BY <1>1, <1>3, <2>2 DEF EmulateRdmsr, Exit, TypeOK, Clean
<1>4. ASSUME NEW m \in Msrs, NEW v \in Values(m), EmulateWrmsr(m, v) PROVE IInv'
  <2>1. m \in MsrIntercepts \/ ~Covered(m)
    BY <1>4, MsrsAssumption, MapExact DEF EmulateWrmsr
  <2>2. MsrFaultsAccounted'
    <3>1. /\ last' = <<"wrmsr", m, v>> /\ last'[2] = m /\ np' = np
          /\ pc = "guest" /\ pc' \in {"vmrun", "crashed"}
          /\ pc' = "crashed" <=> WriteFaults(m, v)
          /\ pc' = "vmrun" => result' = Done
          /\ m \in MsrIntercepts => msrs' = WriteHandler(m, v, msrs)
          /\ m \notin MsrIntercepts => msrs' = msrs
      BY <1>4 DEF EmulateWrmsr, Exit
    <3>2. m = PAT /\ ~Legal(v) => ReservedPatWritten'
      BY <3>1, Zenon DEF ReservedPatWritten
    <3>3. pc' = "crashed" => ~Covered(m) \/ (~np' /\ ReservedPatWritten')
      BY <2>1, <3>1, <3>2 DEF WriteFaults
    <3>4. np' /\ ~LegalPat(msrs'.gpat) => ReservedPatWritten'
      BY <3>1, <3>2, IllegalGpat
    <3>5. pc' # "crashed" => result'.op # "gp"
      BY <3>1 DEF Done
    <3> QED
      BY <3>1, <3>3, <3>4, <3>5 DEF MsrFaultsAccounted, LegalPat
  <2>3. CASE m \in MsrIntercepts
    <3>1. msrs' = WriteHandler(m, v, msrs) /\ clean' = CleanAfter(m)
      BY <1>4, <2>3 DEF EmulateWrmsr
    <3>2. msrs' \in HostMsrs /\ (clean'.np => msrs'.gpat = msrs.gpat)
      BY <3>1, WriteHandlerGood
    <3>3. clean' \in [np : BOOLEAN, seg : BOOLEAN] /\ clean'.seg
      BY <3>1, CleanAfterType
    <3>4. TypeOK'
      BY <1>4, <2>3, <3>2, <3>3 DEF EmulateWrmsr, Exit, TypeOK
    <3> QED
      BY <1>1, <1>4, <2>2, <3>2, <3>3, <3>4 DEF EmulateWrmsr, Exit
  <2>4. CASE m \notin MsrIntercepts
    <3>1. /\ UNCHANGED <<chip, np, sysenterCs, msrs, save, cpu>>
          /\ clean' = Clean /\ pc' \in {"vmrun", "crashed"}
      BY <1>4, <2>4 DEF EmulateWrmsr, Exit
    <3> QED
      BY <1>1, <1>4, <2>2, <3>1 DEF EmulateWrmsr, Exit, TypeOK, Clean
  <2> QED
    BY <2>3, <2>4
<1>5. ASSUME NEW m \in Msrs, NEW write \in BOOLEAN, DirectMsr(m, write) PROVE IInv'
  <2>1. m \notin MsrIntercepts
    BY <1>5, MsrsAssumption, MapExact DEF DirectMsr
  <2> QED
    BY <1>1, <1>5, <2>1 DEF DirectMsr, TypeOK, MsrFaultsAccounted, Done, Raised
<1>6. ASSUME NEW v \in Values(BIOS_SIGN_ID), OtherThread(v) PROVE IInv'
  <2>1. msrs' = WriteHandler(BIOS_SIGN_ID, v, msrs) /\ BIOS_SIGN_ID # PAT
    BY <1>6 DEF OtherThread, WriteHandler, BIOS_SIGN_ID, PAT, MISC_ENABLE
  <2>2. CleanAfter(BIOS_SIGN_ID).np
    BY <2>1 DEF CleanAfter, Clean
  <2> QED
    <3>1. msrs' \in HostMsrs /\ msrs'.gpat = msrs.gpat
      BY <2>1, <2>2, WriteHandlerGood
    <3>2. TypeOK'
      BY <1>6, <3>1 DEF OtherThread, TypeOK
    <3>3. MsrFaultsAccounted'
      BY <1>6, <3>1, ReservedKept DEF OtherThread, MsrFaultsAccounted, LegalPat
    <3> QED
      BY <1>1, <1>6, <3>1, <3>2, <3>3 DEF OtherThread, LegalPat
<1>7. ASSUME NEW lock \in BOOLEAN, Sysenter(lock) PROVE IInv'
  <2>1. CASE lock \/ Rpl0(sysenterCs) = 0
    <3>1. /\ UNCHANGED <<chip, np, sysenterCs, msrs, save, cpu>>
          /\ clean' = Clean /\ pc = "guest" /\ pc' = "vmrun"
      BY <1>7, <2>1 DEF Sysenter, Reject, Exit
    <3>2. MsrFaultsAccounted'
      BY <1>7 DEF Sysenter, Exit, MsrFaultsAccounted
    <3> QED
      BY <1>1, <3>1, <3>2 DEF TypeOK, Clean
  <2>2. CASE ~lock /\ Rpl0(sysenterCs) # 0
    <3>1. save.seg.l \in BOOLEAN
      BY DEF TypeOK, Segments
    <3>2. GdtBase = Rpl0(sysenterCs)
      BY <2>2 DEF GdtBase
    <3>3. save' = [seg |-> Kernel(save.seg.l), high |-> save.seg.l]
      BY <1>7, <2>2, <3>2 DEF Sysenter, Kernel
    <3>4. Kernel(save.seg.l) \in GuestSegments
      BY <3>1 DEF GuestSegments
    <3>5. Kernel(save.seg.l) \in Segments /\ Kernel(save.seg.l).l = save.seg.l
      BY <3>1, <3>4, GuestSegmentsGood, Modes DEF TypeOK, WellFormed
    <3>6. TypeOK'
      BY <1>7, <2>2, <3>1, <3>3, <3>5 DEF Sysenter, Exit, TypeOK, SegDirty, Clean
    <3>7. MsrFaultsAccounted'
      BY <1>7 DEF Sysenter, Exit, MsrFaultsAccounted
    <3>8. clean'.np /\ ~clean'.seg
      BY <1>7, <2>2 DEF Sysenter, SegDirty, Clean
    <3> QED
      BY <1>1, <1>7, <3>3, <3>4, <3>5, <3>6, <3>7, <3>8 DEF Sysenter, Exit
  <2> QED
    BY <2>1, <2>2
<1>8. ASSUME NEW lock \in BOOLEAN, NEW rexW \in BOOLEAN, NEW high \in BOOLEAN,
             Sysexit(lock, rexW, high)
      PROVE  IInv'
  <2>1. CASE lock \/ save.seg.cpl # 0 \/ Rpl0(sysenterCs) = 0
    <3>1. /\ UNCHANGED <<chip, np, sysenterCs, msrs, save, cpu>>
          /\ clean' = Clean /\ pc = "guest" /\ pc' = "vmrun"
      BY <1>8, <2>1 DEF Sysexit, Reject, Exit
    <3>2. MsrFaultsAccounted'
      BY <1>8 DEF Sysexit, Exit, MsrFaultsAccounted
    <3> QED
      BY <1>1, <3>1, <3>2 DEF TypeOK, Clean
  <2>2. CASE ~lock /\ save.seg.cpl = 0 /\ Rpl0(sysenterCs) # 0
    <3> DEFINE seg == IF rexW THEN User64 ELSE User32
    <3>1. sysenterCs \in Half /\ GdtBase = Rpl0(sysenterCs)
      BY <2>2, SysenterCsAssumption DEF GdtBase, TypeOK
    <3>2. Flat(ExitSelector(rexW), 3, rexW) = seg
      <4>1. CASE rexW = TRUE
        <5>1. ExitSelector(rexW) = Rpl3(UInt16(GdtBase + 32))
          BY <3>1, <4>1, OffsetBelowRpl DEF ExitSelector
        <5> QED
          BY <4>1, <5>1 DEF User64
      <4>2. CASE rexW = FALSE
        <5>1. ExitSelector(rexW) = Rpl3(UInt16(GdtBase + 16))
          BY <3>1, <4>2, OffsetBelowRpl DEF ExitSelector
        <5> QED
          BY <4>2, <5>1 DEF User32
      <4> QED
        BY <4>1, <4>2
    <3>3. seg \in GuestSegments /\ seg \in Segments /\ seg.l = rexW
      BY GuestSegmentsGood, Modes DEF GuestSegments, TypeOK, WellFormed
    <3> HIDE DEF seg
    <3>4. save' = [seg |-> seg, high |-> rexW /\ high]
      BY <1>8, <2>2, <3>2 DEF Sysexit
    <3> QED
      <4>1. TypeOK'
        BY <1>8, <2>2, <3>3, <3>4 DEF Sysexit, Exit, TypeOK, SegDirty, Clean
      <4>2. MsrFaultsAccounted'
        BY <1>8 DEF Sysexit, Exit, MsrFaultsAccounted
      <4>3. clean'.np /\ ~clean'.seg
        BY <1>8, <2>2 DEF Sysexit, SegDirty, Clean
      <4> QED
        BY <1>1, <1>8, <3>3, <3>4, <4>1, <4>2, <4>3 DEF Sysexit, Exit
  <2> QED
    BY <2>1, <2>2
<1>9. CASE Vmrun
  <2>1. cpu' = [pat |-> msrs.gpat, seg |-> save.seg, high |-> save.high]
        /\ (np => LegalPat(msrs.gpat))
    BY <1>9 DEF Vmrun, Loaded
  <2>2. TypeOK'
    BY <1>9, <2>1 DEF Vmrun, TypeOK, HostMsrs
  <2>3. MsrFaultsAccounted'
    BY <1>9 DEF Vmrun, Done, MsrFaultsAccounted
  <2> QED
    BY <1>1, <1>9, <2>1, <2>2, <2>3 DEF Vmrun, LegalPat
<1>10. CASE Switch
  <2>1. PICK seg \in {Kernel(TRUE), User32, User64}, high \in BOOLEAN :
          /\ high => seg.l
          /\ cpu' = [cpu EXCEPT !.seg = seg, !.high = high]
          /\ save' = [seg |-> seg, high |-> high]
    BY <1>10, Zenon DEF Switch
  <2>2. seg \in GuestSegments /\ seg \in Segments
    BY <2>1, GuestSegmentsGood DEF GuestSegments, TypeOK, WellFormed
  <2>3. TypeOK'
    BY <1>10, <2>1, <2>2 DEF Switch, TypeOK
  <2>4. MsrFaultsAccounted'
    BY <1>10 DEF Switch, Done, MsrFaultsAccounted
  <2> QED
    BY <1>1, <1>10, <2>1, <2>2, <2>3, <2>4 DEF Switch
<1>11. CASE VmrunInvalid
  <2>1. cpu' = [pat |-> msrs.gpat, seg |-> save.seg, high |-> save.high] /\ clean' = Clean
    BY <1>11 DEF VmrunInvalid, Loaded
  <2>2. TypeOK'
    BY <1>11, <2>1 DEF VmrunInvalid, TypeOK, HostMsrs, Clean
  <2>3. MsrFaultsAccounted'
    BY <1>11, ReservedKept DEF VmrunInvalid, MsrFaultsAccounted, LegalPat
  <2> QED
    BY <1>1, <1>11, <2>1, <2>2, <2>3 DEF VmrunInvalid, LegalPat
<1>12. CASE UNCHANGED vars
  <2>1. MsrFaultsAccounted'
    BY <1>12, ReservedKept DEF vars, MsrFaultsAccounted, LegalPat
  <2> QED
    BY <1>1, <1>12, <2>1 DEF vars, TypeOK, LegalPat
<1> QED
  BY <1>2, <1>3, <1>4, <1>5, <1>6, <1>7, <1>8, <1>9, <1>10, <1>11, <1>12 DEF Next

-----------------------------------------------------------------------------
(* The theorems. *)

\* The inductive invariant holds in every state of every behaviour.
THEOREM InductiveInvariant == Spec => []IInv
<1> QED
  BY InitIInv, NextIInv, PTL DEF Spec

\* The emulation is type correct; no selector it computes exceeds 16 bits.
THEOREM TypeCorrect == Spec => []TypeOK
<1>1. IInv => TypeOK
  BY DEF IInv
<1> QED
  BY <1>1, InductiveInvariant, PTL

\* The guest's page tables use the PAT its RDMSR shows: each Write handler that
\* changes G_PAT has vmrun load it.
THEOREM PatAlwaysCurrent == Spec => []PatCurrent
<1>1. IInv => PatCurrent
  BY DEF IInv, PatCurrent, RdmsrPat
<1> QED
  BY <1>1, InductiveInvariant, PTL

\* Whatever SYSENTER_CS is and in whichever order the guest enters and leaves
\* its kernel, it runs on segments that fit together.
THEOREM SegmentsAlwaysConsistent == Spec => []SegmentsConsistent
<1>1. IInv => SegmentsConsistent
  <2> SUFFICES ASSUME IInv, pc = "guest" PROVE SegmentsConsistent
    BY DEF SegmentsConsistent
  <2>1. cpu.seg \in GuestSegments /\ (cpu.high => cpu.seg.l) /\ sysenterCs \in SysenterCs
    BY DEF IInv, TypeOK
  <2> QED
    BY <2>1, GuestSegmentsGood DEF SegmentsConsistent, GuestSegments, WellFormed
<1> QED
  BY <1>1, InductiveInvariant, PTL

\* Whichever MSRs the processor has and whatever the guest writes to them: a fault
\* brings the VMM down only at an MSR the permission map does not cover, or at a
\* PAT with a reserved type without nested paging; only such a PAT keeps a thread
\* from its guest; and no access to an MSR the Runtime provides faults in the guest.
THEOREM FaultsAlwaysAccounted == Spec => []MsrFaultsAccounted
<1>1. IInv => MsrFaultsAccounted
  BY DEF IInv
<1> QED
  BY <1>1, InductiveInvariant, PTL

\* A guest may write back what it has read from any MSR of the Runtime but PAT:
\* the handlers that show a bit elsewhere or inverted undo it, and a signature
\* of 0 is not lost.
THEOREM WriteBackAlwaysNeutral == Spec => []WriteBackNeutral
<1>1. ASSUME TypeOK PROVE WriteBackNeutral
  <2>1. ASSUME NEW m \in MsrIntercepts \ {PAT}
        PROVE  WriteHandler(m, ReadHandler(m, msrs), msrs) = msrs
    <3>1. msrs \in HostMsrs
      BY <1>1 DEF TypeOK
    <3>2. /\ MISC_ENABLE \notin {PAT, PLATFORM_ID, BIOS_SIGN_ID, CORE_THREAD_COUNT, X2APIC_VERSION}
          /\ BIOS_SIGN_ID \notin {PAT, PLATFORM_ID, CORE_THREAD_COUNT, X2APIC_VERSION}
      BY DEF PAT, MISC_ENABLE, BIOS_SIGN_ID, PLATFORM_ID, CORE_THREAD_COUNT, X2APIC_VERSION
    <3>3. CASE m = MISC_ENABLE
      <4>1. ReadHandler(m, msrs) = [op |-> "misc", xd |-> msrs.nx, monitor |-> ~msrs.monWaitDis]
        BY <3>2, <3>3 DEF ReadHandler, RdmsrMiscEnable
      <4>2. WriteHandler(m, ReadHandler(m, msrs), msrs) = WrmsrMiscEnable(msrs, ReadHandler(m, msrs))
        BY <3>2, <3>3 DEF WriteHandler
      <4>3. (~~msrs.monWaitDis) = msrs.monWaitDis
        BY <3>1 DEF HostMsrs
      <4>4. [msrs EXCEPT !.nx = msrs.nx, !.monWaitDis = msrs.monWaitDis] = msrs
        BY <3>1 DEF HostMsrs
      <4> DEFINE v == ReadHandler(m, msrs)
      <4>5. v.xd = msrs.nx /\ v.monitor = ~msrs.monWaitDis
        BY <4>1
      <4> HIDE DEF v
      <4>6. (~v.monitor) = msrs.monWaitDis
        BY <4>3, <4>5, Zenon
      <4>7. WrmsrMiscEnable(msrs, v) = [msrs EXCEPT !.nx = v.xd, !.monWaitDis = ~v.monitor]
        BY Zenon DEF WrmsrMiscEnable
      <4>8. WrmsrMiscEnable(msrs, v) = msrs
        BY <4>4, <4>5, <4>6, <4>7, Zenon
      <4> QED
        BY <4>2, <4>8 DEF v
    <3>4. CASE m = BIOS_SIGN_ID
      <4>1. WriteHandler(m, ReadHandler(m, msrs), msrs)
              = WrmsrBiosSignId(msrs, ReadHandler(m, msrs))
        BY <3>2, <3>4 DEF WriteHandler
      <4>2. ReadHandler(m, msrs) = [op |-> "sign", low |-> 0, high |-> msrs.signature]
        BY <3>2, <3>4 DEF ReadHandler, RdmsrBiosSignId
      <4>3. [msrs EXCEPT !.signature = msrs.signature] = msrs
        BY <3>1 DEF HostMsrs
      <4> QED
        BY <4>1, <4>2, <4>3 DEF WrmsrBiosSignId
    <3>5. CASE m \notin {MISC_ENABLE, BIOS_SIGN_ID}
      BY <2>1, <3>5 DEF WriteHandler
    <3> QED
      BY <3>3, <3>4, <3>5
  <2> QED
    BY <2>1 DEF WriteBackNeutral
<1> QED
  BY <1>1, TypeCorrect, PTL

-----------------------------------------------------------------------------
(* What the guest is told of the processor by more than one way.             *)

\* Division with remainder.
LEMMA Division ==
  ASSUME NEW n \in Nat, NEW d \in Nat \ {0}
  PROVE  /\ n \div d \in Nat /\ n % d \in Nat /\ n % d < d
         /\ n = d * (n \div d) + (n % d)
<1>1. n \div d \in Nat
  OBVIOUS
<1>2. n % d \in 0 .. (d - 1)
  OBVIOUS
<1>3. n = d * (n \div d) + (n % d)
  OBVIOUS
<1> QED
  BY <1>1, <1>2, <1>3

\* A product is divided exactly.
LEMMA DivisionExact ==
  ASSUME NEW k \in Nat, NEW d \in Nat \ {0}
  PROVE  (k * d) \div d = k
OBVIOUS

\* The six bits of leaf 4 hold the number of cores less one, up to 64 cores.
LEMMA SixBits ==
  ASSUME NEW n \in Nat
  PROVE  ((n - 1) % 64) + 1 = n <=> n \in 1 .. 64
OBVIOUS

\* CPUID's fields NC and CoresPerComputeUnit have 8 bits.
TopologyFields(c) == c.nc \in 0 .. 255 /\ c.coresPerUnit \in 0 .. 255

\* A processor whose compute units are complete, with no more cores than the six
\* bits of leaf 4 can say.
Representable(c) ==
  /\ (c.nc + 1) % (c.coresPerUnit + 1) = 0
  /\ (c.nc + 1) \div (c.coresPerUnit + 1) <= 64

\* The two descriptions agree on such a processor, and on no other.
LEMMA TopologyExact ==
  ASSUME TopologyFields(Chip)
  PROVE  TopologyAgrees <=> Representable(Chip)
<1> DEFINE threads == Chip.nc + 1
           unit    == Chip.coresPerUnit + 1
           cores   == threads \div unit
<1>1. threads \in 1 .. 256 /\ unit \in 1 .. 256
  BY DEF TopologyFields
<1>2. ThreadCount(Chip) = threads /\ CoreCount(Chip) = cores
  BY <1>1 DEF ThreadCount, CoreCount
<1> HIDE DEF threads, unit
<1>3. /\ cores \in Nat /\ threads % unit \in Nat
      /\ threads = unit * cores + (threads % unit)
  BY <1>1, Division
<1> HIDE DEF cores
<1>4. TopologyAgrees <=> ((cores - 1) % 64) + 1 = cores /\ threads = cores * unit
  BY <1>2 DEF TopologyAgrees, RdmsrCoreThreadCount, Leaf4, unit
<1>5. threads = cores * unit <=> threads % unit = 0
  <2> DEFINE product == unit * cores
             rest    == threads % unit
  <2>1. product \in Nat /\ rest \in Nat /\ threads = product + rest
    BY <1>1, <1>3
  <2>2. cores * unit = product
    BY <1>1, <1>3
  <2> HIDE DEF product, rest
  <2>3. threads = product <=> rest = 0
    BY <2>1
  <2> QED
    BY <2>2, <2>3 DEF rest
<1>6. threads % unit = 0 => cores # 0
  BY <1>1, <1>3
<1>7. ((cores - 1) % 64) + 1 = cores <=> cores \in 1 .. 64
  BY <1>3, SixBits
<1> QED
  BY <1>3, <1>4, <1>5, <1>6, <1>7 DEF Representable, threads, unit, cores
\* CPUID leaf 4 and MSR 35H describe one topology, exactly for the processors
\* whose cores leaf 4 can count.
THEOREM TopologyAlwaysAgrees ==
  ASSUME \A c \in Chips : TopologyFields(Processors[c])
  PROVE  Spec => [](TopologyAgrees <=> Representable(Chip))
<1>1. TypeOK => (TopologyAgrees <=> Representable(Chip))
  BY TopologyExact DEF TypeOK, Chip
<1> QED
  BY <1>1, TypeCorrect, PTL

\* The quotient the code takes of the multiplier and the divisor of P-state 0.
Quotient(c) == c.fid \div c.did

\* A P-state whose frequency is at least 200 MHz, and so low that twice the
\* quotient fits in 8 bits.
FrequencyRepresentable(c) ==
  /\ c.fid \in Nat /\ c.did \in Nat \ {0}
  /\ Quotient(c) \in 1 .. 127

\* Leaf 40000010H of such a processor.
LEMMA LeafVmm10Exact ==
  ASSUME NEW c, FrequencyRepresentable(c)
  PROVE  /\ LeafVmm10(c).bus = 100000
         /\ LeafVmm10(c).tsc * c.did <= c.fid * 200000
         /\ c.fid * 200000 < (LeafVmm10(c).tsc + 200000) * c.did
<1> DEFINE q == Quotient(c)
<1>1. q \in 1 .. 127
  BY DEF FrequencyRepresentable
<1>2. LeafVmm10(c).tsc = q * 200 * 1000
      /\ LeafVmm10(c).bus = (q * 200 * 1000) \div ((q * 2) % 256)
  BY DEF LeafVmm10, Quotient
<1> HIDE DEF q
<1>3. (q * 2) % 256 = q * 2 /\ q * 200 * 1000 = 100000 * (q * 2)
  BY <1>1
<1>4. (100000 * (q * 2)) \div (q * 2) = 100000
  BY <1>1, DivisionExact
<1>5. LeafVmm10(c).bus = 100000
  BY <1>2, <1>3, <1>4
<1> DEFINE rest == c.fid % c.did
<1>6. /\ c.fid \in Nat /\ c.did \in Nat \ {0} /\ rest \in Nat /\ rest < c.did
      /\ c.fid = c.did * q + rest
  BY Division DEF FrequencyRepresentable, Quotient, q
<1>7. LeafVmm10(c).tsc = q * 200000
  BY <1>1, <1>2
<1> HIDE DEF rest
<1>8. \A d, r, n \in Nat : n \in Nat =>
        /\ (n * 200000) * d = 200000 * (d * n)
        /\ (n * 200000 + 200000) * d = 200000 * (d * n) + 200000 * d
  OBVIOUS
<1> DEFINE p == c.did * q
<1>9. p \in Nat /\ c.fid * 200000 = 200000 * p + 200000 * rest
  BY <1>1, <1>6
<1>10. /\ LeafVmm10(c).tsc * c.did = 200000 * p
       /\ (LeafVmm10(c).tsc + 200000) * c.did = 200000 * p + 200000 * c.did
  BY <1>1, <1>6, <1>7, <1>8
<1> HIDE DEF p
<1>11. /\ 200000 * p <= 200000 * p + 200000 * rest
       /\ 200000 * p + 200000 * rest < 200000 * p + 200000 * c.did
  BY <1>6, <1>9
<1> QED
  BY <1>5, <1>9, <1>10, <1>11

\* What leaves 2 and 40000010H returned is what the guest still sees, until it
\* goes on.
LeavesShown ==
  /\ result.op = "vmm10" => result = LeafVmm10(Chip)
  /\ result.op = "leaf2" => result = Leaf2(Chip)

\* No Read handler returns frequencies or descriptors.
LEMMA ReadHandlerOther ==
  ASSUME NEW m \in MsrIntercepts, NEW s
  PROVE  ReadHandler(m, s).op \notin {"vmm10", "leaf2"}
<1>1. m \in {PAT, MISC_ENABLE, PLATFORM_ID, BIOS_SIGN_ID, CORE_THREAD_COUNT, X2APIC_VERSION}
  BY DEF MsrIntercepts
<1>2. /\ PAT # MISC_ENABLE /\ PAT # PLATFORM_ID /\ PAT # BIOS_SIGN_ID
      /\ PAT # CORE_THREAD_COUNT /\ PAT # X2APIC_VERSION
      /\ MISC_ENABLE # PLATFORM_ID /\ MISC_ENABLE # BIOS_SIGN_ID
      /\ MISC_ENABLE # CORE_THREAD_COUNT /\ MISC_ENABLE # X2APIC_VERSION
      /\ PLATFORM_ID # BIOS_SIGN_ID /\ PLATFORM_ID # CORE_THREAD_COUNT
      /\ PLATFORM_ID # X2APIC_VERSION /\ BIOS_SIGN_ID # CORE_THREAD_COUNT
      /\ BIOS_SIGN_ID # X2APIC_VERSION /\ CORE_THREAD_COUNT # X2APIC_VERSION
  BY DEF PAT, MISC_ENABLE, BIOS_SIGN_ID, PLATFORM_ID, CORE_THREAD_COUNT, X2APIC_VERSION
<1> QED
  BY <1>1, <1>2 DEF ReadHandler, RdmsrPat, RdmsrMiscEnable, RdmsrPlatformId,
     RdmsrBiosSignId, RdmsrCoreThreadCount, RdmsrX2apicVersion

\* Nor does another leaf.
LEMMA OtherLeaves ==
  ASSUME NEW c, NEW leaf, leaf # VmmMaxval, leaf # 2
  PROVE  InterceptCpuid(c, leaf).op \notin {"vmm10", "leaf2"}
<1> DEFINE others == {"leaf0", "leaf1", "leaf4", "vmm", "vmm0", "host"}
<1>1. Leaf0(c).op \in others /\ Leaf1(c).op \in others /\ Leaf4(c).op \in others
  BY DEF Leaf0, Leaf1, Leaf4
<1>2. LeafVmm(c, leaf).op \in others
  <2>1. LeafVmm(c, leaf) \in {[op |-> "vmm", max |-> VmmMaxval, vendor |-> "GenuineAMD"],
                              [op |-> "vmm0"]}
    BY DEF LeafVmm
  <2> QED
    BY <2>1
<1>3. InterceptCpuid(c, leaf) \in {Leaf0(c), Leaf1(c), Leaf4(c), LeafVmm(c, leaf),
                                   [op |-> "host", leaf |-> leaf]}
  BY DEF InterceptCpuid
<1> QED
  BY <1>1, <1>2, <1>3

\* The two leaves are reached.
LEMMA OwnLeaves ==
  ASSUME NEW c
  PROVE  /\ InterceptCpuid(c, VmmMaxval) = LeafVmm10(c) /\ LeafVmm10(c).op = "vmm10"
         /\ InterceptCpuid(c, 2) = Leaf2(c) /\ Leaf2(c).op = "leaf2"
<1>1. /\ VmmMaxval \notin {0, 1, 2, 4} /\ VmmMaxval \in VmmBase .. (VmmBase + 255)
      /\ VmmMaxval # VmmBase
  BY DEF VmmMaxval, VmmBase
<1>2. InterceptCpuid(c, VmmMaxval) = LeafVmm10(c)
  BY <1>1 DEF InterceptCpuid, LeafVmm
<1>3. InterceptCpuid(c, 2) = Leaf2(c)
  BY DEF InterceptCpuid
<1>4. LeafVmm10(c).op = "vmm10" /\ Leaf2(c).op = "leaf2"
  BY DEF LeafVmm10, Leaf2
<1> QED
  BY <1>2, <1>3, <1>4

\* Only these leaves show frequencies and descriptors, and those of the processor.
LEMMA NextLeavesShown == IInv /\ LeavesShown /\ [Next]_vars => LeavesShown'
<1> SUFFICES ASSUME IInv, LeavesShown, [Next]_vars PROVE LeavesShown'
  OBVIOUS
<1>1. \A r \in {Done, Raised("gp"), Raised("ud")} : r.op \notin {"vmm10", "leaf2"}
  BY DEF Done, Raised
<1>2. ASSUME NEW leaf, EmulateCpuid(leaf) PROVE LeavesShown'
  <2>1. result' = InterceptCpuid(Chip, leaf) /\ Chip' = Chip
    BY <1>2 DEF EmulateCpuid, Exit, Chip
  <2>2. CASE leaf = VmmMaxval
    BY <2>1, <2>2, OwnLeaves DEF LeavesShown
  <2>3. CASE leaf = 2
    BY <2>1, <2>3, OwnLeaves DEF LeavesShown
  <2>4. CASE leaf # VmmMaxval /\ leaf # 2
    BY <2>1, <2>4, OtherLeaves DEF LeavesShown
  <2> QED
    BY <2>2, <2>3, <2>4
<1>3. ASSUME NEW m, EmulateRdmsr(m) PROVE LeavesShown'
  <2>1. \/ m \in MsrIntercepts /\ result' = ReadHandler(m, msrs)
        \/ result' \in {Done, Raised("gp")}
    BY <1>3 DEF EmulateRdmsr
  <2> QED
    BY <1>1, <2>1, ReadHandlerOther DEF LeavesShown
<1>4. ASSUME NEW m, NEW write, DirectMsr(m, write) PROVE LeavesShown'
  BY <1>1, <1>4 DEF DirectMsr, LeavesShown
<1>5. ASSUME NEW m, NEW v, EmulateWrmsr(m, v) PROVE LeavesShown'
  <2>1. result' \in {Done, Raised("gp")}
    BY <1>5 DEF EmulateWrmsr
  <2> QED
    BY <1>1, <2>1 DEF LeavesShown
<1>6. ASSUME NEW v, OtherThread(v) PROVE LeavesShown'
  BY <1>6 DEF OtherThread, LeavesShown, Chip
<1>7. ASSUME NEW lock, Sysenter(lock) PROVE LeavesShown'
  <2>1. result' \in {Done, Raised("gp"), Raised("ud")}
    BY <1>7 DEF Sysenter, Reject
  <2> QED
    BY <1>1, <2>1 DEF LeavesShown
<1>8. ASSUME NEW lock, NEW rexW, NEW high, Sysexit(lock, rexW, high) PROVE LeavesShown'
  <2>1. result' \in {Done, Raised("gp"), Raised("ud")}
    BY <1>8 DEF Sysexit, Reject
  <2> QED
    BY <1>1, <2>1 DEF LeavesShown
<1>9. CASE Vmrun \/ VmrunInvalid \/ Switch
  BY <1>1, <1>9 DEF Vmrun, VmrunInvalid, Switch, LeavesShown, Chip
<1>10. CASE UNCHANGED vars
  BY <1>10 DEF vars, LeavesShown, Chip
<1> QED
  BY <1>2, <1>3, <1>4, <1>5, <1>6, <1>7, <1>8, <1>9, <1>10 DEF Next

\* The frequencies XNU reads are consistent on every processor whose frequency
\* the 8-bit multiplier of the code can express.
THEOREM FrequenciesConsistent ==
  ASSUME \A c \in Chips : FrequencyRepresentable(Processors[c])
  PROVE  Spec => []BusFrequencyConsistent
<1>1. Init => LeavesShown
  BY DEF Init, LeavesShown, Done
<1>2. IInv /\ LeavesShown /\ [Next]_vars => LeavesShown'
  BY NextLeavesShown
<1>3. TypeOK /\ LeavesShown => BusFrequencyConsistent
  <2> SUFFICES ASSUME TypeOK, LeavesShown, result.op = "vmm10"
               PROVE  BusFrequencyConsistent
    BY DEF BusFrequencyConsistent
  <2>1. result = LeafVmm10(Chip) /\ FrequencyRepresentable(Chip)
    BY DEF LeavesShown, TypeOK, Chip
  <2> QED
    BY <2>1, LeafVmm10Exact DEF BusFrequencyConsistent, Quotient
<1> QED
  BY <1>1, <1>2, <1>3, InductiveInvariant, TypeCorrect, PTL DEF Spec

-----------------------------------------------------------------------------
(* The descriptors. *)

\* The bytes leaf 2 returns are the descriptors it searched for.
LEMMA Leaf2Bytes ==
  ASSUME NEW c
  PROVE  LET q == Leaf2Queries(c)
         IN  /\ \A i \in 1 .. 3 : Leaf2(c).eax[i + 1] = CacheInfoToDescriptor(q.eax[i])
             /\ \A i \in 1 .. 4 : Leaf2(c).ebx[i] = CacheInfoToDescriptor(q.ebx[i])
             /\ \A i \in 1 .. 4 : Leaf2(c).ecx[i] = CacheInfoToDescriptor(q.ecx[i])
             /\ \A i \in 1 .. 2 : Leaf2(c).edx[i] = CacheInfoToDescriptor(q.edx[i])
<1> DEFINE q == Leaf2Queries(c)
           D == {CacheInfoToDescriptor(x) : x \in {q.eax[i] : i \in 1 .. 3}
                                                  \cup {q.edx[i] : i \in 1 .. 2}} \cup {1, NULL}
<1>1. Len(q.eax) = 3 /\ Len(q.ebx) = 4 /\ Len(q.ecx) = 4 /\ Len(q.edx) = 2
  BY DEF Leaf2Queries
<1>2. /\ Leaf2(c).eax = <<1>> \o Descriptors(q.eax)
      /\ Leaf2(c).ebx = Descriptors(q.ebx)
      /\ Leaf2(c).ecx = Descriptors(q.ecx)
      /\ Leaf2(c).edx = Descriptors(q.edx) \o <<NULL, NULL>>
  BY DEF Leaf2
<1> HIDE DEF q
<1>3. /\ Descriptors(q.eax) = [i \in 1 .. 3 |-> CacheInfoToDescriptor(q.eax[i])]
      /\ Descriptors(q.ebx) = [i \in 1 .. 4 |-> CacheInfoToDescriptor(q.ebx[i])]
      /\ Descriptors(q.ecx) = [i \in 1 .. 4 |-> CacheInfoToDescriptor(q.ecx[i])]
      /\ Descriptors(q.edx) = [i \in 1 .. 2 |-> CacheInfoToDescriptor(q.edx[i])]
  BY <1>1 DEF Descriptors
<1>4. /\ Descriptors(q.eax) \in [1 .. 3 -> D]
      /\ Descriptors(q.edx) \in [1 .. 2 -> D]
  BY <1>3
<1>5. <<1>> \in Seq(D) /\ <<NULL, NULL>> \in Seq(D)
  <2>1. 1 \in D /\ NULL \in D
    OBVIOUS
  <2> HIDE DEF D
  <2> QED
    BY <2>1
<1> HIDE DEF D
<1>6. /\ Descriptors(q.eax) \in Seq(D) /\ Len(Descriptors(q.eax)) = 3
      /\ Descriptors(q.edx) \in Seq(D) /\ Len(Descriptors(q.edx)) = 2
  BY <1>4
<1>7. \A i \in 1 .. 3 : (<<1>> \o Descriptors(q.eax))[i + 1] = Descriptors(q.eax)[i]
  BY <1>5, <1>6
<1>8. \A i \in 1 .. 2 : (Descriptors(q.edx) \o <<NULL, NULL>>)[i] = Descriptors(q.edx)[i]
  BY <1>5, <1>6
<1>9. \A i \in 1 .. 3 : Leaf2(c).eax[i + 1] = CacheInfoToDescriptor(q.eax[i])
  BY <1>2, <1>3, <1>7
<1>10. \A i \in 1 .. 4 : Leaf2(c).ebx[i] = CacheInfoToDescriptor(q.ebx[i])
  BY <1>2, <1>3
<1>11. \A i \in 1 .. 4 : Leaf2(c).ecx[i] = CacheInfoToDescriptor(q.ecx[i])
  BY <1>2, <1>3
<1>12. \A i \in 1 .. 2 : Leaf2(c).edx[i] = CacheInfoToDescriptor(q.edx[i])
  BY <1>2, <1>3, <1>8
<1> QED
  BY <1>9, <1>10, <1>11, <1>12 DEF q

\* Fields that are plain numbers mean what the code takes them for: what it
\* searches for is the cache or TLB.
LEMMA PlainQueries ==
  ASSUME NEW c
  PROVE  LET q == Leaf2Queries(c)
             p == Parts(c)
         IN  \A k \in p : k.plain =>
               \/ k.reg = "eax" /\ \E i \in 1 .. 3 : k.byte = i + 1 /\ k.query = q.eax[i]
               \/ k.reg = "ebx" /\ \E i \in 1 .. 4 : k.byte = i /\ k.query = q.ebx[i]
               \/ k.reg = "ecx" /\ \E i \in 1 .. 4 : k.byte = i /\ k.query = q.ecx[i]
               \/ k.reg = "edx" /\ \E i \in 1 .. 2 : k.byte = i /\ k.query = q.edx[i]
<1> DEFINE q == Leaf2Queries(c)
           Searched(k) ==
             \/ k.reg = "eax" /\ \E i \in 1 .. 3 : k.byte = i + 1 /\ k.query = q.eax[i]
             \/ k.reg = "ebx" /\ \E i \in 1 .. 4 : k.byte = i /\ k.query = q.ebx[i]
             \/ k.reg = "ecx" /\ \E i \in 1 .. 4 : k.byte = i /\ k.query = q.ecx[i]
             \/ k.reg = "edx" /\ \E i \in 1 .. 2 : k.byte = i /\ k.query = q.edx[i]
<1>1. \A a : a # 1 => L1Ways(a) = Ways(a, 255)
  BY DEF L1Ways, Ways
<1>2. \A a \in PlainL2 : L2Ways(a) = Ways(a, 15)
  BY DEF PlainL2, L2Ways, Ways
<1>3. ASSUME NEW level, NEW page, NEW t, NEW reg, NEW byte, L1Tlb(reg, byte, level, page, t).plain
      PROVE  L1Tlb(reg, byte, level, page, t).query = TlbQuery(level, page, t, 255)
  BY <1>1, <1>3 DEF L1Tlb, Part, TlbQuery
<1>4. ASSUME NEW level, NEW k, NEW byte, L1Cache(byte, level, k).plain
      PROVE  L1Cache(byte, level, k).query = CacheQuery(level, k, 255)
  BY <1>1, <1>4 DEF L1Cache, Part, CacheQuery
<1>5. ASSUME NEW level, NEW page, NEW t, NEW byte, L2Tlb(byte, level, page, t).plain
      PROVE  L2Tlb(byte, level, page, t).query = TlbQuery(level, page, t, 15)
  BY <1>2, <1>5 DEF L2Tlb, Part, TlbQuery
<1>6. ASSUME NEW k, NEW byte, NEW one, NEW two, NEW unit,
             L2Cache(byte, one, two, k, unit).plain
      PROVE  L2Cache(byte, one, two, k, unit).query
               = CacheQuery(IF k.linesPerTag < 2 THEN one ELSE two, k, 15)
  <2> DEFINE plain == k.assoc \in PlainL2 /\ k.size * unit = k.size /\ k.linesPerTag \in 0 .. 2
             level == CASE k.linesPerTag < 2 -> one [] k.linesPerTag = 2 -> two
                        [] OTHER -> "SECTORED"
             size  == k.size * unit
  <2>1. L2Cache(byte, one, two, k, unit)
          = [reg |-> "edx", byte |-> byte, plain |-> plain,
             query |-> Query("CACHE", level, L2Ways(k.assoc), size, k.line)]
    BY Zenon DEF L2Cache, Part
  <2> HIDE DEF plain, level, size
  <2>2. plain
    BY <1>6, <2>1
  <2>3. L2Ways(k.assoc) = Ways(k.assoc, 15) /\ size = k.size
    BY <1>2, <2>2 DEF plain, size
  <2>4. level = IF k.linesPerTag < 2 THEN one ELSE two
    BY <2>2 DEF plain, level
  <2> QED
    BY <2>1, <2>3, <2>4 DEF CacheQuery
<1> HIDE DEF q
<1> SUFFICES ASSUME NEW k \in Parts(c), k.plain PROVE Searched(k)
  BY DEF q
<1>7. \A reg, byte, level, page, t :
        L1Tlb(reg, byte, level, page, t).reg = reg /\ L1Tlb(reg, byte, level, page, t).byte = byte
  BY DEF L1Tlb, Part
<1>8. \A byte, level, d :
        L1Cache(byte, level, d).reg = "ebx" /\ L1Cache(byte, level, d).byte = byte
  BY DEF L1Cache, Part
<1>9. \A byte, level, page, t :
         L2Tlb(byte, level, page, t).reg = "ecx" /\ L2Tlb(byte, level, page, t).byte = byte
  BY DEF L2Tlb, Part
<1>10. \A byte, one, two, d, unit :
         L2Cache(byte, one, two, d, unit).reg = "edx" /\ L2Cache(byte, one, two, d, unit).byte = byte
  BY DEF L2Cache, Part
<1>11. /\ q.eax[2] = TlbQuery("DATA", LARGE, c.l1.dtlb2m, 255)
       /\ q.eax[3] = TlbQuery("INST", LARGE, c.l1.itlb2m, 255)
       /\ q.ebx[1] = TlbQuery("DATA", SMALL, c.l1.dtlb4k, 255)
       /\ q.ebx[2] = TlbQuery("INST", SMALL, c.l1.itlb4k, 255)
       /\ q.ebx[3] = CacheQuery("L1_DATA", c.l1.dc, 255)
       /\ q.ebx[4] = CacheQuery("L1_INST", c.l1.ic, 255)
  BY DEF q, Leaf2Queries
<1>12. /\ q.ecx[1] = TlbQuery("DATA", LARGE, c.l2.dtlb2m, 15)
       /\ q.ecx[2] = TlbQuery("INST", LARGE, c.l2.itlb2m, 15)
       /\ q.ecx[3] = TlbQuery("DATA", SMALL, c.l2.dtlb4k, 15)
       /\ q.ecx[4] = TlbQuery("INST", SMALL, c.l2.itlb4k, 15)
       /\ q.edx[1] = CacheQuery(IF c.l2.l2.linesPerTag < 2 THEN "L2" ELSE "L2_2LINESECTOR",
                               c.l2.l2, 15)
       /\ q.edx[2] = CacheQuery(IF c.l2.l3.linesPerTag < 2 THEN "L3" ELSE "L3_2LINESECTOR",
                               c.l2.l3, 15)
  BY DEF q, Leaf2Queries
<1>13. CASE k = L1Tlb("eax", 3, "DATA", LARGE, c.l1.dtlb2m)
  <2>1. k.reg = "eax" /\ k.byte = 3 /\ k.query = q.eax[2]
    BY <1>3, <1>7, <1>11, <1>13
  <2> QED
    BY <2>1
<1>14. CASE k = L1Tlb("eax", 4, "INST", LARGE, c.l1.itlb2m)
  <2>1. k.reg = "eax" /\ k.byte = 4 /\ k.query = q.eax[3]
    BY <1>3, <1>7, <1>11, <1>14
  <2> QED
    BY <2>1
<1>15. CASE k = L1Tlb("ebx", 1, "DATA", SMALL, c.l1.dtlb4k)
  <2>1. k.reg = "ebx" /\ k.byte = 1 /\ k.query = q.ebx[1]
    BY <1>3, <1>7, <1>11, <1>15
  <2> QED
    BY <2>1
<1>16. CASE k = L1Tlb("ebx", 2, "INST", SMALL, c.l1.itlb4k)
  <2>1. k.reg = "ebx" /\ k.byte = 2 /\ k.query = q.ebx[2]
    BY <1>3, <1>7, <1>11, <1>16
  <2> QED
    BY <2>1
<1>17. CASE k = L1Cache(3, "L1_DATA", c.l1.dc)
  <2>1. k.reg = "ebx" /\ k.byte = 3 /\ k.query = q.ebx[3]
    BY <1>4, <1>8, <1>11, <1>17
  <2> QED
    BY <2>1
<1>18. CASE k = L1Cache(4, "L1_INST", c.l1.ic)
  <2>1. k.reg = "ebx" /\ k.byte = 4 /\ k.query = q.ebx[4]
    BY <1>4, <1>8, <1>11, <1>18
  <2> QED
    BY <2>1
<1>19. CASE k = L2Tlb(1, "DATA", LARGE, c.l2.dtlb2m)
  <2>1. k.reg = "ecx" /\ k.byte = 1 /\ k.query = q.ecx[1]
    BY <1>5, <1>9, <1>12, <1>19
  <2> QED
    BY <2>1
<1>20. CASE k = L2Tlb(2, "INST", LARGE, c.l2.itlb2m)
  <2>1. k.reg = "ecx" /\ k.byte = 2 /\ k.query = q.ecx[2]
    BY <1>5, <1>9, <1>12, <1>20
  <2> QED
    BY <2>1
<1>21. CASE k = L2Tlb(3, "DATA", SMALL, c.l2.dtlb4k)
  <2>1. k.reg = "ecx" /\ k.byte = 3 /\ k.query = q.ecx[3]
    BY <1>5, <1>9, <1>12, <1>21
  <2> QED
    BY <2>1
<1>22. CASE k = L2Tlb(4, "INST", SMALL, c.l2.itlb4k)
  <2>1. k.reg = "ecx" /\ k.byte = 4 /\ k.query = q.ecx[4]
    BY <1>5, <1>9, <1>12, <1>22
  <2> QED
    BY <2>1
<1>23. CASE k = L2Cache(1, "L2", "L2_2LINESECTOR", c.l2.l2, 1)
  <2>1. k.reg = "edx" /\ k.byte = 1 /\ k.query = q.edx[1]
    BY <1>6, <1>10, <1>12, <1>23
  <2> QED
    BY <2>1
<1>24. CASE k = L2Cache(2, "L3", "L3_2LINESECTOR", c.l2.l3, 512)
  <2>1. k.reg = "edx" /\ k.byte = 2 /\ k.query = q.edx[2]
    BY <1>6, <1>10, <1>12, <1>24
  <2> QED
    BY <2>1
<1> QED
  BY <1>13, <1>14, <1>15, <1>16, <1>17, <1>18,
     <1>19, <1>20, <1>21, <1>22, <1>23, <1>24 DEF Parts

\* Where the fields of a processor are plain numbers, what leaf 2 tells the guest of
\* its caches and TLBs is the closest description that does not overstate them.
\* Encoded fields are excluded: those the code takes for numbers (MCEmulation shows cases).
THEOREM DescriptorsAlwaysFit == Spec => []DescriptorBestFit
<1>1. Init => LeavesShown
  BY DEF Init, LeavesShown, Done
<1>2. IInv /\ LeavesShown /\ [Next]_vars => LeavesShown'
  BY NextLeavesShown
<1>3. LeavesShown => DescriptorBestFit
  <2> SUFFICES ASSUME LeavesShown, result.op = "leaf2" PROVE DescriptorBestFit
    BY DEF DescriptorBestFit
  <2>1. result = Leaf2(Chip)
    BY DEF LeavesShown
  <2>2. AllBestFit
    BY SearchIsBestFit DEF AllBestFit
  <2>3. ASSUME NEW k \in Parts(Chip), k.plain
        PROVE  BestFit(k.query, result[k.reg][k.byte])
    <3> DEFINE q == Leaf2Queries(Chip)
    <3>1. CASE k.reg = "eax"
      <4>1. PICK i \in 1 .. 3 : k.byte = i + 1 /\ k.query = q.eax[i]
        BY <2>3, <3>1, PlainQueries
      <4> QED
        BY <2>1, <3>1, <4>1, Leaf2Bytes, SearchIsBestFit
    <3>2. CASE k.reg = "ebx"
      <4>1. PICK i \in 1 .. 4 : k.byte = i /\ k.query = q.ebx[i]
        BY <2>3, <3>2, PlainQueries
      <4> QED
        BY <2>1, <3>2, <4>1, Leaf2Bytes, SearchIsBestFit
    <3>3. CASE k.reg = "ecx"
      <4>1. PICK i \in 1 .. 4 : k.byte = i /\ k.query = q.ecx[i]
        BY <2>3, <3>3, PlainQueries
      <4> QED
        BY <2>1, <3>3, <4>1, Leaf2Bytes, SearchIsBestFit
    <3>4. CASE k.reg = "edx"
      <4>1. PICK i \in 1 .. 2 : k.byte = i /\ k.query = q.edx[i]
        BY <2>3, <3>4, PlainQueries
      <4> QED
        BY <2>1, <3>4, <4>1, Leaf2Bytes, SearchIsBestFit
    <3> QED
      BY <2>3, <3>1, <3>2, <3>3, <3>4, PlainQueries
  <2> QED
    BY <2>2, <2>3, Zenon DEF DescriptorBestFit
<1> QED
  BY <1>1, <1>2, <1>3, InductiveInvariant, PTL DEF Spec
=============================================================================
