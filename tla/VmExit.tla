------------------------------- MODULE VmExit -------------------------------
(***************************************************************************)
(* One logical thread under AmdIntelEmu: the runtime's VMEXIT handler with *)
(* its single-step engine, iret interception, event queue and local APIC   *)
(* MMIO overlay (AmdIntelEmu/Runtime/Intercepts), driven by the guest CPU. *)
(*                                                                         *)
(* The handler runs with interrupts held off (GIF = 0) and touches only    *)
(* the VMCB, thread context and page table of its own thread, so one exit  *)
(* is one action.  It is written as functions on the record thr, composed  *)
(* in the order the C code calls them.  The guest CPU is not in the        *)
(* repository; its actions model what the handlers rely on.                *)
(***************************************************************************)
EXTENDS GuestCode, VmcbEvents

CONSTANTS
  VectoringInfo,  \* events EXITINTINFO may hold: an exit hit their delivery
  AsyncInStep,    \* may an event reach the guest while a step is armed?
  GuestBtf        \* did the guest set DEBUGCTL.BTF?

ASSUME EnvAssumption ==
  /\ AsyncInStep \in BOOLEAN /\ GuestBtf \in BOOLEAN
  /\ VectoringInfo \subseteq Event
  /\ \A e \in VectoringInfo :
       /\ e.type = "INTR" => e.vector >= 32
       /\ e.type = "NMI"  => e.vector = 2

VARIABLES
  thr,     \* what the handlers own: VMCB, save area, thread context, PTE
  exit,    \* the VMEXIT being handled, or NoExit while the guest runs
  hwI,     \* the intercepts the CPU has cached
  tlb,     \* the CPU's cached translation of the local APIC page, or "none"
  insn, frames, trap, seen,   \* the guest, as in BareMetal
  want     \* history: RFLAGS.TF as the guest itself set it

vars == <<thr, exit, hwI, tlb, insn, frames, trap, seen, want>>

NoExit == [code |-> "none", info |-> NoEvent]

Codes == {"UD", "IRET", "DB", "NPF", "CPUID", "MSR", "VMRUN"}

(***************************************************************************)
(* The fields of thr.                                                      *)
(*   interceptDb, interceptIret   InterceptExceptionVectors bit 1,         *)
(*                    InterceptIret                                        *)
(*   cleanI           VmcbCleanBits.I: the CPU may keep its cached         *)
(*                    intercepts                                           *)
(*   eventInj         EVENTINJ                                             *)
(*   tlbFlush         TLB_CONTROL = 3                                      *)
(*   tf, bs           RFLAGS.TF and DR6.BS of the save area                *)
(*   msrBtf           MSR_IA32_DEBUGCTL.BTF                                *)
(*   ssTf, btf, resume, context, iretTf, queueEvent                        *)
(*                    the thread context, not zeroed when it is allocated; *)
(*                    context is the iret handler's ResumeContext          *)
(*   present, page    the nested PTE of the local APIC page                *)
(***************************************************************************)
ThreadState ==
  [interceptDb : BOOLEAN, interceptIret : BOOLEAN, cleanI : BOOLEAN,
   eventInj : Event \cup {NoEvent, Garbage}, tlbFlush : BOOLEAN,
   tf : BOOLEAN, bs : BOOLEAN, msrBtf : BOOLEAN,
   ssTf : BOOLEAN, btf : BOOLEAN,
   resume : {"Uninit", "NpfPostStep", "IretTfIntercept"}, context : BOOLEAN,
   iretTf : BOOLEAN, queueEvent : Event \cup {Garbage},
   present : BOOLEAN, page : Pages]

-----------------------------------------------------------------------------
(***************************************************************************)
(* The runtime.  The operators whose comment says "Bug:" are not the code: *)
(* each is the definition below it with one mistake, kept to show which    *)
(* property notices it.                                                    *)
(***************************************************************************)

\* Bug: RFLAGS.TF is saved after it was set.
SingleStepRipLateTf(t, resumeHandler, resumeContext) ==
  [t EXCEPT !.interceptDb = TRUE, !.cleanI = FALSE, !.ssTf = TRUE, !.tf = TRUE,
            !.btf = t.msrBtf, !.msrBtf = FALSE,
            !.resume = resumeHandler, !.context = resumeContext]

\* Bug: branch single-stepping stays enabled.
SingleStepRipKeepsBtf(t, resumeHandler, resumeContext) ==
  [t EXCEPT !.interceptDb = TRUE, !.cleanI = FALSE, !.ssTf = t.tf, !.tf = TRUE,
            !.resume = resumeHandler, !.context = resumeContext]

\* Bug: the CPU is not told to reload the intercepts.
SingleStepRipKeepsClean(t, resumeHandler, resumeContext) ==
  [t EXCEPT !.interceptDb = TRUE, !.ssTf = t.tf, !.tf = TRUE,
            !.btf = t.msrBtf, !.msrBtf = FALSE,
            !.resume = resumeHandler, !.context = resumeContext]

\* AmdIntelEmuInternalSingleStepRip
SingleStepRip(t, resumeHandler, resumeContext) ==
  [t EXCEPT !.interceptDb = TRUE, !.cleanI = FALSE,
            !.ssTf = t.tf, !.tf = TRUE,
            !.btf = t.msrBtf, !.msrBtf = FALSE,
            !.resume = resumeHandler, !.context = resumeContext]

\* AmdIntelEmuInternalMmioLapic
MmioLapic(reg) == IF reg = "version" THEN "version" ELSE "lapic"

\* AmdIntelEmuInternalExceptionNpf
ExceptionNpf(t, reg) ==
  SingleStepRip(
    [t EXCEPT !.present = TRUE, !.page = MmioLapic(reg), !.tlbFlush = TRUE],
    "NpfPostStep", FALSE)

\* Bug: the page stays mapped.
NpfPostStepKeepsPresent(t) == [t EXCEPT !.page = "lapic", !.tlbFlush = TRUE]

\* InternalExceptionNpfPostStep
NpfPostStep(t) ==
  [t EXCEPT !.present = FALSE, !.page = "lapic", !.tlbFlush = TRUE]

\* AmdIntelEmuInternalExceptionIret
ExceptionIret(t) ==
  SingleStepRip([t EXCEPT !.interceptIret = FALSE, !.cleanI = FALSE],
                "IretTfIntercept", t.iretTf)

\* InternalIretTfIntercept
IretTfIntercept(t) ==
  [t EXCEPT !.eventInj = t.queueEvent, !.tf = t.tf /\ t.context]

\* The call through ThreadContext->SingleStepResume.
Resume(t) ==
  CASE t.resume = "NpfPostStep"     -> NpfPostStep(t)
    [] t.resume = "IretTfIntercept" -> IretTfIntercept(t)
    [] OTHER                        -> t  \* unreachable: NoUninitialisedUse

\* Bug: RFLAGS.TF stays set.
ExceptionDebugKeepsTf(t) ==
  LET s == [Resume(t) EXCEPT !.interceptDb = FALSE, !.cleanI = FALSE]
  IN  IF s.ssTf THEN [s EXCEPT !.eventInj = DebugException]
      ELSE [s EXCEPT !.bs = FALSE]

\* Bug: the CPU is not told that #DB is no longer intercepted.
ExceptionDebugKeepsClean(t) ==
  LET s == [Resume(t) EXCEPT !.interceptDb = FALSE]
  IN  IF s.ssTf THEN [s EXCEPT !.eventInj = DebugException]
      ELSE [s EXCEPT !.tf = FALSE, !.bs = FALSE]

\* AmdIntelEmuInternalExceptionDebug.  DEBUGCTL is written back as it was
\* read: the code sets ThreadContext->Btf, not the register's BTF bit.
ExceptionDebug(t) ==
  LET s == [Resume(t) EXCEPT !.interceptDb = FALSE, !.cleanI = FALSE]
  IN  IF s.ssTf THEN [s EXCEPT !.eventInj = DebugException]
      ELSE [s EXCEPT !.tf = FALSE, !.bs = FALSE]

\* AmdIntelEmuInternalExceptionUd.  The ASSERT (FALSE) that GetRipInstruction begins
\* with (Handler.c:114, "TODO: Virtual -> Physical RIP") does nothing: the Runtime is
\* linked with BaseDebugLibNull (AmdXnuSupportPkg.dsc:52-55).
ExceptionUd(t, opcode) ==
  CASE opcode = "sys"   -> t
    [] opcode = "sysGp" -> [t EXCEPT !.eventInj = GpFault]
    [] OTHER            -> [t EXCEPT !.eventInj = InvalidOpcode]

\* Bug: the event is not stored.
QueueEventForgets(t, event) ==
  [t EXCEPT !.interceptIret = TRUE, !.cleanI = FALSE,
            !.iretTf = t.tf, !.tf = FALSE]

\* AmdIntelEmuInternalQueueEvent
QueueEvent(t, event) ==
  [t EXCEPT !.interceptIret = TRUE, !.cleanI = FALSE,
            !.iretTf = t.tf, !.tf = FALSE, !.queueEvent = event]

\* Bug: an event is queued even when there is none.
ArbitrateEventsAlwaysQueues(t, info) ==
  LET chosen == HandleEvents(t.eventInj, info)
  IN  QueueEvent([t EXCEPT !.eventInj = chosen.inj], chosen.queue)

\* InternalHandleEvents, on the thread state
ArbitrateEvents(t, info) ==
  LET chosen == HandleEvents(t.eventInj, info)
      s      == [t EXCEPT !.eventInj = chosen.inj]
  IN  IF chosen.queue = NoEvent THEN s ELSE QueueEvent(s, chosen.queue)

\* The switch of AmdIntelEmuInternalInterceptionHandler.
Dispatch(t, code, opcode) ==
  CASE code = "UD"    -> ExceptionUd(t, opcode)
    [] code = "IRET"  -> ExceptionIret(t)
    [] code = "DB"    -> ExceptionDebug(t)
    [] code = "NPF"   -> ExceptionNpf(t, opcode)
    [] code = "VMRUN" -> [t EXCEPT !.eventInj = InvalidOpcode]
    [] OTHER          -> t  \* CPUID and MSR leave these fields alone

\* AmdIntelEmuInternalInterceptionHandler
InterceptionHandler(t, x, opcode) ==
  ArbitrateEvents(
    Dispatch([t EXCEPT !.eventInj = NoEvent, !.cleanI = TRUE], x.code, opcode),
    x.info)

\* Bug: RIP is advanced also over an instruction that faults.
EmulatesAllUd(code, opcode) == code \in {"CPUID", "MSR", "UD"}

\* Did the handler complete the instruction, so that the guest resumes behind it?
Emulates(code, opcode) ==
  code \in {"CPUID", "MSR"} \/ (code = "UD" /\ opcode = "sys")

(***************************************************************************)
(* A VMEXIT is handled and the guest resumed: the vmrun loop.  vmrun       *)
(* reloads the intercepts unless they are marked clean, and flushes the    *)
(* TLB as TLB_CONTROL says.                                                *)
(***************************************************************************)
HandleExit ==
  /\ exit # NoExit
  /\ thr' = InterceptionHandler(thr, exit, insn)
  /\ exit' = NoExit
  /\ hwI' = IF thr'.cleanI THEN hwI
            ELSE [db |-> thr'.interceptDb, iret |-> thr'.interceptIret]
  /\ tlb' = IF thr'.tlbFlush THEN "none" ELSE tlb
  /\ IF Emulates(exit.code, insn) THEN insn' \in NextInsn(Len(frames))
                                  ELSE UNCHANGED insn
  /\ UNCHANGED <<frames, trap, seen, want>>

-----------------------------------------------------------------------------
(* The guest CPU. *)

\* The guest executes: no exit pending and EVENTINJ delivered.
Running == exit = NoExit /\ thr.eventInj = NoEvent

\* Events whose delivery an exit of this kind may have interrupted.  Only
\* exceptions and nested page faults are raised during a delivery.
MayInterrupt(code) ==
  IF \/ Len(frames) >= MaxDepth
     \/ code \in {"IRET", "CPUID", "MSR", "VMRUN"}
     \/ code = "NPF" /\ ~AsyncInStep
  THEN {} ELSE VectoringInfo

VmExit(code) ==
  /\ \E info \in {NoEvent} \cup MayInterrupt(code) :
       exit' = [code |-> code, info |-> info]
  /\ UNCHANGED <<hwI, tlb, insn, frames, seen, want>>

Cause(event) ==
  CASE event = DebugException -> "DB"
    [] event = InvalidOpcode  -> "UD"
    [] event = GpFault        -> "GP"
    [] OTHER                  -> "other"

\* Delivery through the guest's IDT pushes RFLAGS and clears TF; a #DB also
\* clears DEBUGCTL.BTF.
Deliver(event) ==
  /\ Len(frames) < MaxDepth
  /\ frames' = Append(frames, [tf |-> thr.tf, want |-> want, insn |-> insn,
                               cause |-> Cause(event)])
  /\ thr' = [thr EXCEPT !.tf = FALSE, !.eventInj = NoEvent,
                        !.bs = thr.bs \/ event = DebugException,
                        !.msrBtf = thr.msrBtf /\ event # DebugException]
  /\ want' = FALSE
  /\ trap' = FALSE
  /\ insn' \in NextInsn(Len(frames'))
  /\ UNCHANGED <<exit, hwI, tlb, seen>>

\* vmrun delivers EVENTINJ before the first guest instruction.
InjectEvent ==
  exit = NoExit /\ thr.eventInj # NoEvent /\ Deliver(thr.eventInj)

\* Physical interrupts are not intercepted.
Interrupt ==
  /\ Running /\ ~trap
  /\ thr.interceptDb => AsyncInStep
  /\ Deliver([type |-> "INTR", vector |-> 32])

\* A single-step trap after an instruction that started with TF set.
DebugTrap ==
  /\ Running /\ trap
  /\ IF hwI.db
     THEN /\ VmExit("DB")
          /\ thr' = [thr EXCEPT !.bs = TRUE]
          /\ trap' = FALSE
     ELSE Deliver(DebugException)

\* BTF restricts single-stepping to taken branches.
Retire ==
  /\ trap' = (thr.tf /\ (thr.msrBtf => insn = "iret"))
  /\ UNCHANGED <<exit, hwI>>

\* An access to the local APIC page hits, or faults in the nested tables.
Access ==
  /\ Running /\ ~trap
  /\ insn \in LapicRegs
  /\ IF tlb = "none" /\ ~thr.present
     THEN VmExit("NPF") /\ UNCHANGED <<thr, trap>>
     ELSE LET page == IF tlb = "none" THEN thr.page ELSE tlb
          IN  /\ seen' = [reg |-> insn, page |-> page, odd |-> ~seen.odd]
              /\ tlb' = page
              /\ insn' \in NextInsn(Len(frames))
              /\ UNCHANGED <<thr, frames, want>>
              /\ Retire

PopTf ==
  /\ Running /\ ~trap
  /\ insn = "popf"
  /\ thr' = [thr EXCEPT !.tf = ~want]
  /\ want' = ~want
  /\ insn' \in NextInsn(Len(frames))
  /\ UNCHANGED <<tlb, frames, seen>>
  /\ Retire

Iret ==
  /\ Running /\ ~trap
  /\ insn = "iret" /\ frames # << >>
  /\ IF hwI.iret
     THEN VmExit("IRET") /\ UNCHANGED <<thr, trap>>
     ELSE /\ thr' = [thr EXCEPT !.tf = frames[Len(frames)].tf]
          /\ want' = frames[Len(frames)].want
          /\ frames' = Pop(frames)
          /\ insn' \in ReturnsTo(frames)
          /\ UNCHANGED <<tlb, seen>>
          /\ Retire

Plain ==
  /\ Running /\ ~trap
  /\ insn = "plain"
  /\ insn' \in NextInsn(Len(frames))
  /\ UNCHANGED <<thr, tlb, frames, seen, want>>
  /\ Retire

\* Instructions the VMCB always intercepts.
Intercepted ==
  /\ Running /\ ~trap
  /\ \/ insn = "cpuid" /\ VmExit("CPUID")
     \/ insn = "msr"   /\ VmExit("MSR")
     \/ insn = "vmrun" /\ VmExit("VMRUN")
     \/ insn \in {"ud", "sys", "sysGp"} /\ VmExit("UD")
  /\ UNCHANGED <<thr, trap>>

Init ==
  /\ thr \in [interceptDb : {FALSE}, interceptIret : {FALSE}, cleanI : {FALSE},
              eventInj : {NoEvent}, tlbFlush : {FALSE},
              tf : {FALSE}, bs : {FALSE}, msrBtf : {GuestBtf},
              ssTf : BOOLEAN, btf : BOOLEAN, resume : {"Uninit"},
              context : {FALSE}, iretTf : BOOLEAN, queueEvent : {Garbage},
              present : {FALSE}, page : {"lapic"}]
  /\ exit = NoExit
  /\ hwI = [db |-> FALSE, iret |-> FALSE]
  /\ tlb = "none"
  /\ insn \in NextInsn(0)
  /\ frames = << >>
  /\ trap = FALSE
  /\ seen = [reg |-> "lapic", page |-> "lapic", odd |-> FALSE]
  /\ want = FALSE

Guest == InjectEvent \/ DebugTrap \/ Access \/ PopTf \/ Iret \/ Plain \/ Intercepted

Next == HandleExit \/ Interrupt \/ Guest

\* The CPU does not stop: it keeps executing and returns from vmrun.
Spec == Init /\ [][Next]_vars /\ WF_vars(HandleExit \/ Guest)

-----------------------------------------------------------------------------
(* Properties. *)

Frame == [tf : BOOLEAN, want : BOOLEAN, insn : Insns,
          cause : {"DB", "UD", "GP", "other"}]

\* Every variable keeps its type, and the guest's stack stays within its bound.
TypeOK ==
  /\ thr \in ThreadState
  /\ exit \in [code : Codes \cup {"none"}, info : VectoringInfo \cup {NoEvent}]
  /\ hwI \in [db : BOOLEAN, iret : BOOLEAN]
  /\ tlb \in Pages \cup {"none"}
  /\ insn \in Insns
  /\ frames \in Seq(Frame) /\ Len(frames) <= MaxDepth
  /\ trap \in BOOLEAN /\ want \in BOOLEAN
  /\ seen \in [reg : {"version", "lapic"}, page : Pages, odd : BOOLEAN]

\* The thread context comes out of unzeroed pages.  Whatever the order of
\* exits, the handlers call SingleStepResume and inject QueueEvent only after
\* they stored them, and InternalHandleEvents always assigns the event it queues.
NoUninitialisedUse ==
  /\ exit.code = "DB" => thr.resume # "Uninit"
  /\ exit.code = "DB" /\ thr.resume = "IretTfIntercept" => thr.queueEvent # Garbage
  /\ exit.code = "IRET" => thr.queueEvent # Garbage
  /\ thr.eventInj # Garbage

\* What the handlers rely on and re-establish in the state they own: the slots
\* of the thread context are filled before the intercept that leads to their
\* use is enabled, and only external events are ever queued.
ThreadInv(t) ==
  /\ t \in ThreadState
  /\ t.interceptDb => t.resume # "Uninit"
  /\ t.resume = "IretTfIntercept" => t.queueEvent # Garbage
  /\ t.interceptIret => t.queueEvent # Garbage
  /\ t.queueEvent # Garbage =>
       t.queueEvent \in VectoringInfo /\ IsExternal(t.queueEvent)

\* The intercepts the CPU has cached are those of the VMCB: no handler marks
\* them clean after it changed one.
InterceptsCurrent ==
  hwI = [db |-> thr.interceptDb, iret |-> thr.interceptIret]

\* Exits come from enabled intercepts.
ExitsIntercepted ==
  /\ exit.code = "DB" => thr.interceptDb
  /\ exit.code = "IRET" => thr.interceptIret

\* The inductive invariant behind NoUninitialisedUse and ExternalEventKept.
IInv ==
  /\ TypeOK
  /\ ThreadInv(thr)
  /\ InterceptsCurrent
  /\ ExitsIntercepted
  /\ thr.eventInj # Garbage

\* An exit is raised by the instruction at RIP, once every event is delivered,
\* and a fault the runtime injects is the fault of that instruction: RIP has not
\* moved in between.
ExitInv ==
  /\ exit.code = "none" => exit = NoExit
  /\ exit # NoExit => /\ thr.eventInj = NoEvent /\ ~trap
                      /\ exit.info \in {NoEvent} \cup MayInterrupt(exit.code)
  /\ thr.eventInj # NoEvent => ~trap
  /\ exit.code = "NPF"   => insn \in LapicRegs
  /\ exit.code = "IRET"  => insn = "iret" /\ frames # << >>
  /\ exit.code = "CPUID" => insn = "cpuid"
  /\ exit.code = "MSR"   => insn = "msr"
  /\ exit.code = "VMRUN" => insn = "vmrun"
  /\ exit.code = "UD"    => insn \in {"ud", "sys", "sysGp"}
  /\ thr.eventInj = InvalidOpcode /\ InvalidOpcode \notin VectoringInfo =>
       insn \in {"ud", "vmrun"}
  /\ thr.eventInj = GpFault /\ GpFault \notin VectoringInfo => insn = "sysGp"

\* An external event whose delivery was interrupted by an exit leaves the
\* handler injected or queued behind an iret, whatever the handler itself injects.
ExternalEventKept ==
  [][exit # NoExit /\ exit' = NoExit /\ IsExternal(exit.info) =>
       \/ thr'.eventInj = exit.info
       \/ thr'.interceptIret /\ thr'.queueEvent = exit.info]_vars

\* The nested PTE of the local APIC page is present exactly while the access
\* that faulted is being stepped over, and the CPU holds no stale translation
\* of it: the next access of any other instruction faults again.
MappedIffStepping ==
  /\ thr.present <=> thr.interceptDb /\ thr.resume = "NpfPostStep"
  /\ exit = NoExit /\ tlb # "none" => thr.present /\ tlb = thr.page

\* The inductive invariant behind MappedIffStepping, while nothing reaches the
\* guest in a step: until the stepped instruction traps, RIP stays at it, TF is
\* set and BTF is not, and no other exit can happen.
StepInv ==
  /\ thr.present <=> thr.interceptDb /\ thr.resume = "NpfPostStep"
  /\ thr.present => thr.tlbFlush
  /\ tlb # "none" => thr.present /\ tlb = thr.page
  /\ exit # NoExit /\ thr.interceptDb => exit.code = "DB"
  /\ thr.interceptDb /\ exit = NoExit =>
       /\ thr.eventInj = NoEvent
       /\ ~trap =>
            /\ thr.tf /\ ~thr.msrBtf
            /\ \/ /\ thr.resume = "NpfPostStep"
                  /\ insn \in LapicRegs /\ thr.page = IntelPage(insn)
               \/ /\ thr.resume = "IretTfIntercept"
                  /\ insn = "iret" /\ ~thr.interceptIret

\* The contexts (stack frames, and 0 for the running one) in which RFLAGS.TF
\* differs from what the guest set.
ForcedTf ==
  {i \in 1..Len(frames) : frames[i].tf # frames[i].want} \cup
    IF thr.tf # want THEN {0} ELSE {}

\* A step is armed exactly as long as one context carries the runtime's own
\* TF, also when interrupts move that context onto the guest's stack; when it
\* is over the guest is left with its own TF and no trace in DR6.
OneForcedContext ==
  /\ IF thr.interceptDb THEN \E i \in 0..MaxDepth : ForcedTf = {i}
                        ELSE ForcedTf = {}
  /\ exit.code # "DB" => ~thr.bs

\* The inductive invariant behind OneForcedContext, for a guest that leaves TF
\* alone and has nothing queued: wherever the stepped context is, on the stack
\* or running, its next instruction is the local APIC access that armed the step.
ForcedInv ==
  /\ ~want /\ \A i \in 1..Len(frames) : ~frames[i].want
  /\ thr.present <=> thr.interceptDb
  /\ IF thr.interceptDb
     THEN /\ ~thr.ssTf /\ ~thr.msrBtf
          /\ \/ thr.tf /\ \A i \in 1..Len(frames) : ~frames[i].tf
             \/ /\ ~thr.tf
                /\ \E j \in 1..Len(frames) :
                     \A i \in 1..Len(frames) : frames[i].tf <=> i = j
     ELSE ~thr.tf /\ \A i \in 1..Len(frames) : ~frames[i].tf
  /\ \A i \in 1..Len(frames) : frames[i].tf =>
       frames[i].insn \in LapicRegs /\ frames[i].cause \notin {"UD", "GP"}
  /\ thr.tf /\ ~trap /\ exit.code # "DB" => insn \in LapicRegs
  /\ trap => thr.interceptDb /\ thr.tf
  /\ exit.code = "NPF" => ~thr.interceptDb
  /\ IF exit.code = "DB" THEN thr.interceptDb /\ thr.tf ELSE ~thr.bs
  /\ thr.eventInj # DebugException

\* An armed single-step always comes to its end.
StepCompletes == thr.interceptDb ~> ~thr.interceptDb

\* At every nesting depth d the guest's handlers decide to return, and
\* interrupts do not forever pre-empt the code that runs there.
HandlersReturn ==
  \A d \in 0..MaxDepth :
    /\ SF_vars((Guest \/ HandleExit) /\ insn' = "iret" /\ Len(frames') = d)
    /\ SF_vars(Guest /\ Len(frames) = d)

FairSpec == Spec /\ HandlersReturn

\* InstructionTests.c asserts that a read of the version register shows the
\* Intel version number.
VersionIsIntel == seen.reg = "version" => seen.page = "version"

\* Debug.c: "Re-enable BTF if it has been disabled before": after the step
\* the guest has the DEBUGCTL.BTF it had when the step was armed.
BtfReenabled ==
  [][exit.code = "DB" /\ exit' = NoExit /\ ~thr.ssTf => thr'.msrBtf = thr.btf]_vars

\* Handler.c: "Inject the higher priority event and either discard or queue
\* the lower priority event": the event queued is not the one injected.
QueuedIsTheOther ==
  [][exit # NoExit /\ exit' = NoExit /\ ~thr.interceptIret /\ thr'.interceptIret
       => thr'.queueEvent # thr'.eventInj]_vars
=============================================================================
