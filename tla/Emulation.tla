------------------------------ MODULE Emulation ------------------------------
(***************************************************************************)
(* The instructions the Runtime emulates for a guest: CPUID, RDMSR and     *)
(* WRMSR, and in long mode SYSENTER and SYSEXIT, which AMD processors      *)
(* answer with #UD.  One logical processor is modelled; the microcode      *)
(* signature is the only state the emulation shares between threads, so    *)
(* of the other threads only their writes to it appear.                    *)
(*                                                                         *)
(* An instruction that exits is two steps: the handler changes the VMCB    *)
(* (save) and clears clean bits, then vmrun loads what the processor may   *)
(* not take from its cache.  Between exits the processor works with cpu.   *)
(* RIP, the events and the arbitration between them are in VmExit; RIP and *)
(* RSP appear here only as being beyond 4 GB or not.                       *)
(***************************************************************************)
EXTENDS Cpuid, MsrMap

CONSTANTS
  Processors,  \* the records of Cpuid, with the fields below, by processor
  Leaves,      \* CPUID leaves the guest asks for
  Msrs,        \* MSRs the guest accesses
  Signatures,  \* microcode signatures the guests write
  SysenterCs   \* values of the MSR SYSENTER_CS

Chips == DOMAIN Processors

\* A processor also has: msrs, the MSRs it implements; lapic, the upper bytes of
\* its local APIC's version register.
ASSUME ProcessorsAssumption == \A c \in Chips : Processors[c].msrs \subseteq Msr

ASSUME MsrsAssumption == Msrs \subseteq Msr

ASSUME SysenterCsAssumption == SysenterCs \subseteq Half

ASSUME SignaturesAssumption == Signatures \subseteq Nat

VARIABLES
  chip,        \* the processor, and (np) whether nested paging is used
  np,
  sysenterCs,  \* MSR SYSENTER_CS, as the guest's kernel set it
  msrs,        \* the host's MSRs and mMicrocodeUpdateSignature
  save,        \* the save area: G_PAT, the segments and CPL, RIP/RSP beyond 4 GB
  cpu,         \* the same, as the processor uses it in the guest
  clean,       \* VmcbCleanBits.NP and .SEG
  pc,          \* "guest", "vmrun" after an exit, "crashed" after a #GP in the VMM
  last,        \* the instruction the guest has just executed, and what it
  result       \* returned or the exception it raised, until the guest goes on

vars == <<chip, np, sysenterCs, msrs, save, cpu, clean, pc, last, result>>

\* The record of the processor.
Chip == Processors[chip]

\* The memory types of PA1 and PA5, which the emulation changes, and the rest,
\* among which may be a reserved type.
Pat == [pa15 : {"WT", "WC"}, rest : {"boot", "os", "reserved"}]

LegalPat(pat) == pat.rest # "reserved"

\* The host's MSRs; the microcode signature is 186 at first.
HostMsrs == [pat : Pat, gpat : Pat, nx : BOOLEAN, monWaitDis : BOOLEAN,
             signature : Signatures \cup {186}]

Clean == [np |-> TRUE, seg |-> TRUE]

-----------------------------------------------------------------------------
(* Segments: CS and SS, with their selectors as numbers of 16 bits. *)

Segments == [cs : Half, ss : Half, l : BOOLEAN, db : BOOLEAN,
             csDpl : {0, 3}, ssDpl : {0, 3}, cpl : {0, 3}]

Rpl0(sel) == sel - (sel % 4)      \* sel & FFFCH
Rpl3(sel) == sel - (sel % 4) + 3  \* sel | 3

\* A selector calculated in 32 bits and converted to 16.
UInt16(n) == n % 65536

Flat(cs, cpl, l) ==
  [cs |-> cs, ss |-> UInt16(cs + 8), l |-> l, db |-> ~l,
   csDpl |-> cpl, ssDpl |-> cpl, cpl |-> cpl]

\* The segments a kernel lays out in its GDT for SYSENTER_CS: its own, then the
\* 32-bit and the 64-bit segments of its processes.
GdtBase    == IF Rpl0(sysenterCs) = 0 THEN 8 ELSE Rpl0(sysenterCs)
Kernel(l)  == Flat(GdtBase, 0, l)
User32     == Flat(Rpl3(UInt16(GdtBase + 16)), 3, FALSE)
User64     == Flat(Rpl3(UInt16(GdtBase + 32)), 3, TRUE)

-----------------------------------------------------------------------------
(* The handlers of the MSRs.  s is the record of msrs and G_PAT. *)

\* AmdIntelEmuReadLocalApicReg for the version register: by MMIO, or by the MSR
\* in x2APIC mode.  The VMM is not intercepted and always reads the processor's.
ReadLocalApicVersion == [low |-> 16, rest |-> Chip.lapic]

RdmsrPat(s) == [op |-> "pat", pat |-> IF np THEN s.gpat ELSE s.pat]

\* PA1 and PA5 are forced to WC.  Without nested paging the value goes to the
\* processor, which does not take a reserved type.
WrmsrPat(s, v) ==
  LET pat == [v.pat EXCEPT !.pa15 = "WC"]
  IN  IF np THEN [s EXCEPT !.gpat = pat]
            ELSE IF LegalPat(pat) THEN [s EXCEPT !.pat = pat] ELSE s

RdmsrMiscEnable(s) == [op |-> "misc", xd |-> s.nx, monitor |-> ~s.monWaitDis]

\* Bug: MonWaitDis takes the value of MONITOR.
WrmsrMiscEnableInverted(s, v) == [s EXCEPT !.nx = v.xd, !.monWaitDis = v.monitor]

WrmsrMiscEnable(s, v) == [s EXCEPT !.nx = v.xd, !.monWaitDis = ~v.monitor]

RdmsrPlatformId == [op |-> "platform", id |-> 1]

\* The signature is in the upper half; a write of 0 does nothing.
RdmsrBiosSignId(s) == [op |-> "sign", low |-> 0, high |-> s.signature]
WrmsrBiosSignId(s, v) ==
  IF v.low = 0 /\ v.high = 0 THEN s ELSE [s EXCEPT !.signature = v.high]

\* The names of the fields are swapped, for XNU.
RdmsrCoreThreadCount ==
  [op |-> "count", coreCount |-> ThreadCount(Chip), threadCount |-> CoreCount(Chip)]

RdmsrX2apicVersion ==
  [op |-> "version", low |-> 20, rest |-> ReadLocalApicVersion.rest]

ReadHandler(m, s) ==
  CASE m = PAT               -> RdmsrPat(s)
    [] m = MISC_ENABLE       -> RdmsrMiscEnable(s)
    [] m = PLATFORM_ID       -> RdmsrPlatformId
    [] m = BIOS_SIGN_ID      -> RdmsrBiosSignId(s)
    [] m = CORE_THREAD_COUNT -> RdmsrCoreThreadCount
    [] m = X2APIC_VERSION    -> RdmsrX2apicVersion

\* The other three are read-only: their Write handlers are empty.
WriteHandler(m, v, s) ==
  CASE m = PAT          -> WrmsrPat(s, v)
    [] m = MISC_ENABLE  -> WrmsrMiscEnable(s, v)
    [] m = BIOS_SIGN_ID -> WrmsrBiosSignId(s, v)
    [] OTHER            -> s

\* What the guest may write; of other MSRs, a value the processor takes or not.
Values(m) ==
  CASE m = PAT          -> [op : {"pat"}, pat : Pat]
    [] m = MISC_ENABLE  -> [op : {"misc"}, xd : BOOLEAN, monitor : BOOLEAN]
    [] m = BIOS_SIGN_ID -> [op : {"sign"}, low : {0, 1}, high : Signatures]
    [] OTHER            -> [op : {"other"}, legal : BOOLEAN]

\* Does the processor take the value v?
Legal(v) == CASE v.op = "pat"   -> LegalPat(v.pat)
              [] v.op = "other" -> v.legal
              [] OTHER          -> TRUE

-----------------------------------------------------------------------------
Done == [op |-> "done"]
Raised(exception) == [op |-> exception]

Init ==
  /\ chip \in Chips
  /\ np \in BOOLEAN
  /\ sysenterCs \in SysenterCs
  /\ msrs \in [pat : {[pa15 |-> "WT", rest |-> "boot"]}, gpat : {[pa15 |-> "WT", rest |-> "boot"]},
               nx : BOOLEAN, monWaitDis : BOOLEAN, signature : {186}]
  /\ save = [seg |-> Kernel(TRUE), high |-> TRUE]
  /\ cpu = [pat |-> msrs.gpat, seg |-> Kernel(TRUE), high |-> TRUE]
  /\ clean = Clean
  /\ pc = "guest"
  /\ last = <<"none">>
  /\ result = Done

\* An exit of the guest into the handler of insn: the processor has written its
\* segments to the save area, and all clean bits are set.
Exit(insn) ==
  /\ pc = "guest"
  /\ last' = insn
  /\ UNCHANGED <<chip, np, sysenterCs, cpu>>

\* AmdEmuInterceptCpuid; what it returns depends on the processor only.
EmulateCpuid(leaf) ==
  /\ Exit(<<"cpuid", leaf>>)
  /\ result' = InterceptCpuid(Chip, leaf)
  /\ clean' = Clean
  /\ pc' = "vmrun"
  /\ UNCHANGED <<msrs, save>>

\* AmdIntelEmuInternalInterceptRdmsr.  The guest is at CPL 0: otherwise the
\* instruction faults before it is intercepted.
EmulateRdmsr(m) ==
  /\ cpu.seg.cpl = 0
  /\ Intercepted(m, FALSE)
  /\ Exit(<<"rdmsr", m>>)
  /\ IF m \in MsrIntercepts
     THEN result' = ReadHandler(m, msrs) /\ pc' = "vmrun"
     ELSE IF m \in Chip.msrs
          THEN result' = Done /\ pc' = "vmrun"
          ELSE result' = Raised("gp") /\ pc' = "crashed"
  /\ clean' = Clean
  /\ UNCHANGED <<msrs, save>>

\* Bug: the new G_PAT is not made known to the processor.
CleanAfterKeepsNp(m) == Clean

\* The clean bits after the Write handler of m.
CleanAfter(m) == [Clean EXCEPT !.np = ~(m = PAT /\ np)]

\* Does the WRMSR which the VMM executes for the guest's write of v to m raise #GP?
WriteFaults(m, v) ==
  IF m \in MsrIntercepts THEN m = PAT /\ ~np /\ ~Legal(v)
                         ELSE m \notin Chip.msrs \/ ~Legal(v)

\* AmdIntelEmuInternalInterceptWrmsr; writes of other MSRs go to the processor.
EmulateWrmsr(m, v) ==
  /\ cpu.seg.cpl = 0
  /\ Intercepted(m, TRUE)
  /\ Exit(<<"wrmsr", m, v>>)
  /\ IF m \in MsrIntercepts
     THEN msrs' = WriteHandler(m, v, msrs) /\ clean' = CleanAfter(m)
     ELSE clean' = Clean /\ UNCHANGED msrs
  /\ IF WriteFaults(m, v) THEN result' = Raised("gp") /\ pc' = "crashed"
                          ELSE result' = Done /\ pc' = "vmrun"
  /\ UNCHANGED save

\* An access the permission map lets through meets the processor, which may not
\* take the value written.
DirectMsr(m, write) ==
  /\ pc = "guest"
  /\ cpu.seg.cpl = 0
  /\ ~Intercepted(m, write)
  /\ last' = <<IF write THEN "wrmsr" ELSE "rdmsr", m>>
  /\ \/ m \in Chip.msrs /\ result' = Done
     \/ (m \notin Chip.msrs \/ write) /\ result' = Raised("gp")
  /\ UNCHANGED <<chip, np, sysenterCs, msrs, save, cpu, clean, pc>>

\* Another thread has the signature written by its WRMSR.
OtherThread(v) ==
  /\ msrs' = WrmsrBiosSignId(msrs, v)
  /\ msrs' # msrs
  /\ UNCHANGED <<chip, np, sysenterCs, save, cpu, clean, pc, last, result>>

-----------------------------------------------------------------------------
(* SYSENTER and SYSEXIT. *)

\* The result of an emulation that fails: the VMCB's guest state is unchanged.
Reject(exception) ==
  /\ result' = Raised(exception)
  /\ clean' = Clean
  /\ UNCHANGED save

\* Bug: the clean bit of the segments is left set.
SegDirtyForgotten == Clean

SegDirty == [Clean EXCEPT !.seg = FALSE]

\* AmdIntelEmuInternalUdSysenter.  CS.L stays what it is; SYSENTER_ESP and _EIP
\* are beyond 4 GB and are truncated when it is 0.
Sysenter(lock) ==
  /\ Exit(<<"sysenter">>)
  /\ pc' = "vmrun"
  /\ UNCHANGED msrs
  /\ IF lock THEN Reject("ud")
     ELSE IF Rpl0(sysenterCs) = 0 THEN Reject("gp")
     ELSE /\ save' = [seg |-> Flat(Rpl0(sysenterCs), 0, save.seg.l), high |-> save.seg.l]
          /\ clean' = SegDirty
          /\ result' = Done

\* Bug: no conversion to 16 bits.
ExitSelectorWide(rexW) == Rpl3(sysenterCs + IF rexW THEN 32 ELSE 16)

ExitSelector(rexW) == Rpl3(UInt16(sysenterCs + IF rexW THEN 32 ELSE 16))

\* AmdIntelEmuInternalUdSysexit, for RCX and RDX within 4 GB or (high) not.
Sysexit(lock, rexW, high) ==
  /\ Exit(<<"sysexit">>)
  /\ pc' = "vmrun"
  /\ UNCHANGED msrs
  /\ IF lock THEN Reject("ud")
     ELSE IF save.seg.cpl # 0 \/ Rpl0(sysenterCs) = 0 THEN Reject("gp")
     ELSE /\ save' = [seg |-> Flat(ExitSelector(rexW), 3, rexW), high |-> rexW /\ high]
          /\ clean' = SegDirty
          /\ result' = Done

-----------------------------------------------------------------------------
(* The processor. *)

\* vmrun loads what is not clean; RIP and RSP are never cached.
Loaded == [pat  |-> IF clean.np THEN cpu.pat ELSE msrs.gpat,
           seg  |-> IF clean.seg THEN cpu.seg ELSE save.seg,
           high |-> save.high]

\* With nested paging a G_PAT with a reserved type is an illegal guest state.
Vmrun ==
  /\ pc = "vmrun"
  /\ np => LegalPat(Loaded.pat)
  /\ cpu' = Loaded
  /\ pc' = "guest"
  /\ last' = <<"none">>
  /\ result' = Done
  /\ UNCHANGED <<chip, np, sysenterCs, msrs, save, clean>>

\* Then vmrun exits with VMEXIT_INVALID, and the handler knows no such code: its
\* default case asserts, which the Runtime is built without, changes nothing and
\* has vmrun executed again.
VmrunInvalid ==
  /\ pc = "vmrun"
  /\ np /\ ~LegalPat(Loaded.pat)
  /\ cpu' = Loaded
  /\ clean' = Clean
  /\ UNCHANGED <<chip, np, sysenterCs, msrs, save, pc, last, result>>

\* The guest goes on to other code of its own, by IRET or by a far jump.  The
\* next exit writes its segments to the save area.
Switch ==
  /\ pc = "guest"
  /\ \E seg \in {Kernel(TRUE), User32, User64}, high \in BOOLEAN :
       /\ high => seg.l
       /\ cpu' = [cpu EXCEPT !.seg = seg, !.high = high]
       /\ save' = [seg |-> seg, high |-> high]
  /\ last' = <<"none">>
  /\ result' = Done
  /\ UNCHANGED <<chip, np, sysenterCs, msrs, clean, pc>>

-----------------------------------------------------------------------------
Next ==
  \/ \E leaf \in Leaves : EmulateCpuid(leaf)
  \/ \E m \in Msrs : EmulateRdmsr(m) \/ DirectMsr(m, FALSE) \/ DirectMsr(m, TRUE)
  \/ \E m \in Msrs : \E v \in Values(m) : EmulateWrmsr(m, v)
  \/ \E v \in Values(BIOS_SIGN_ID) : OtherThread(v)
  \/ \E lock \in BOOLEAN : Sysenter(lock)
  \/ \E lock, rexW, high \in BOOLEAN : Sysexit(lock, rexW, high)
  \/ Vmrun
  \/ VmrunInvalid
  \/ Switch

Spec == Init /\ [][Next]_vars

-----------------------------------------------------------------------------
(* Properties. *)

\* Type correctness; segment selectors stay within 16 bits.
TypeOK ==
  /\ chip \in Chips
  /\ np \in BOOLEAN
  /\ sysenterCs \in SysenterCs
  /\ msrs \in HostMsrs
  /\ save \in [seg : Segments, high : BOOLEAN]
  /\ cpu \in [pat : Pat, seg : Segments, high : BOOLEAN]
  /\ clean \in [np : BOOLEAN, seg : BOOLEAN]
  /\ pc \in {"guest", "vmrun", "crashed"}

\* In the guest the page tables use the PAT that RDMSR shows the guest, although
\* the processor caches G_PAT across exits (Pat.c:54-62).
PatCurrent ==
  pc = "guest" => (IF np THEN cpu.pat ELSE msrs.pat) = RdmsrPat(msrs).pat

\* Whatever system calls the guest made and by whichever way it entered and left
\* its kernel, it runs on one pair of the segments of its GDT: the CPL, the RPL
\* and DPL of both segments agree, 64-bit code is not marked as 32-bit code, and
\* outside of 64-bit code it is within 4 GB (sysenter.c, sysexit.c and the
\* assertion on CS.L and CS.D in Handler.c).
SegmentsConsistent ==
  pc = "guest" =>
    /\ cpu.seg \in {Kernel(TRUE), Kernel(FALSE), User32, User64}
    /\ cpu.seg.cs % 4 = cpu.seg.cpl /\ cpu.seg.ss % 4 = cpu.seg.cpl
    /\ ~(cpu.seg.l /\ cpu.seg.db)
    /\ cpu.high => cpu.seg.l

\* Writing back the value read from an intercepted MSR, other than PAT, changes
\* nothing any intercepted MSR shows (InternalTestMsr in InstructionTests.c).
WriteBackNeutral ==
  \A m \in MsrIntercepts \ {PAT}, n \in MsrIntercepts :
    ReadHandler(n, WriteHandler(m, ReadHandler(m, msrs), msrs)) = ReadHandler(n, msrs)

\* The guest has just written a PAT with a reserved type.
ReservedPatWritten ==
  \E v \in Values(PAT) : ~Legal(v) /\ last = <<"wrmsr", PAT, v>>

\* The faults of MSR accesses, all accounted for.  Only two bring the VMM down: an
\* access to an MSR the permission map does not cover, and without nested paging a
\* PAT with a reserved type (Pat.c:61).  Only such a PAT leaves a thread that never
\* enters its guest again (Pat.c:58).  And the guest itself meets no fault of an MSR
\* the Runtime provides, whether or not the processor has it.
MsrFaultsAccounted ==
  /\ pc = "crashed" => ~Covered(last[2]) \/ (~np /\ ReservedPatWritten)
  /\ pc = "vmrun" /\ np /\ ~LegalPat(msrs.gpat) => ReservedPatWritten
  /\ pc # "crashed" /\ last[1] \in {"rdmsr", "wrmsr"} /\ result.op = "gp"
       => last[2] \notin MsrIntercepts

\* CPUID leaf 4 and the MSR XNU reads describe the same topology: as many cores,
\* and as many threads as the cores have together.
TopologyAgrees ==
  LET count == RdmsrCoreThreadCount
  IN  /\ Leaf4(Chip).cores + 1 = count.threadCount
      /\ count.coreCount = count.threadCount * (Chip.coresPerUnit + 1)

\* The frequencies given to XNU are consistent: the bus is at exactly 100 MHz, and
\* the TSC, of which XNU takes the bus for a whole part, is below the frequency of
\* P-state 0 (fid / did times 200 MHz) by less than one step of 200 MHz.
BusFrequencyConsistent ==
  result.op = "vmm10" =>
    /\ result.bus = 100000
    /\ result.tsc * Chip.did <= Chip.fid * 200000
    /\ Chip.fid * 200000 < (result.tsc + 200000) * Chip.did

\* Where the processor's fields are plain numbers, the descriptors leaf 2 reports do
\* not overstate its caches and TLBs, and no row of the table describes one more
\* closely.  The search finds that row whatever it is asked for.  Of encoded fields the
\* first is false: the code takes all encodings but "all ones" for numbers.
DescriptorBestFit ==
  result.op = "leaf2" =>
    /\ \A k \in Parts(Chip) : k.plain => BestFit(k.query, result[k.reg][k.byte])
    /\ AllBestFit
=============================================================================
