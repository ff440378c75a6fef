------------------------------- MODULE Launch -------------------------------
(***************************************************************************)
(* How AmdIntelEmuDxe gets all processors into their virtual machines:     *)
(* Dxe/AmdIntelEmuDxe.c, the entry point of the Runtime                    *)
(* (Runtime/AmdIntelEmuRuntime.c) and the entry of the vmrun loop          *)
(* (Runtime/X64/EnableVM.nasm).                                            *)
(*                                                                         *)
(* The bootstrap processor fills one ThreadPrivate on its stack for each   *)
(* AP in turn and starts the AP with a pointer to it; the AP reads it,     *)
(* saves its own execution environment into its guest VMCB and continues   *)
(* inside the VM, where it may take a VMEXIT at any time and look for its  *)
(* thread context, while the bootstrap processor is still initialising     *)
(* the contexts of later threads.  Everything a thread owns (guest VMCB,   *)
(* host save area, host stack, context) is named by the index of its slot. *)
(*                                                                         *)
(* The code leaves the loading of the Runtime image to a TODO              *)
(* (AmdIntelEmuDxe.c:683) and calls a NULL RuntimeEntry; here RuntimeEntry *)
(* is _ModuleEntryPoint, as the TODO says.                                 *)
(***************************************************************************)
EXTENDS Naturals

CONSTANTS
  NumProcessors,  \* threads the MP services report
  Images          \* file paths of the images the firmware may start

ASSUME NumProcessorsAssumption == NumProcessors \in Nat \ {0}

\* A path has a length in characters and separators at some positions.
ASSUME ImagesAssumption ==
  \A i \in Images : i.len \in Nat /\ i.separators \subseteq Nat

Threads == 0..(NumProcessors - 1)

VARIABLES
  pc,         \* what the bootstrap processor does next
  config,     \* PCDs, CPU features, which thread is the bootstrap processor, and
              \* which threads it left with CR0.CD set, and RFLAGS.TF
  startImage, \* gBS->StartImage
  enabled,    \* the threads the MP services have enabled
  index,      \* Index of the loops of PrepareAps and VirtualizeSystem
  private,    \* ThreadPrivate: the one record all threads are launched from
  context,    \* per slot: the index of the VMCB ThreadContext->Vmcb points to
  mmio,       \* per slot: ThreadContext->MmioInfo
  table,      \* per slot: what the nested page table of the VMCB intercepts
  vmcb,       \* per slot: VmcbSaveState and the save area in this page
  cpu         \* per thread: the registers the launch touches, and its progress

vars == <<pc, config, startImage, enabled, index, private, context, mmio,
          table, vmcb, cpu>>

Bsp == config.bsp

\* What PrepareAps returns in NumThreads and BspNum.
NumThreads == IF config.virtualizeAps THEN NumProcessors ELSE 1
BspNum     == IF config.virtualizeAps THEN Bsp ELSE 0

Uninit == NumProcessors  \* no slot: the contexts' pages are not zeroed

\* What of a processor's state has to survive the launch; ZeroEnv is what a
\* zeroed save area holds.
Environment == [pat : {"firmware", "wb", "zero"}, cd : BOOLEAN,
                tf : BOOLEAN, if : BOOLEAN]
ZeroEnv == [pat |-> "zero", cd |-> FALSE, tf |-> FALSE, if |-> FALSE]

\* ThreadPrivate, by slots; a stamp is named by the loop's index it is taken at.
NoSlot == [context |-> 0, hostVmcb |-> 0, hostStack |-> 0, stamp |-> 0]

\* The slot of a thread.
SlotOf(t) == IF config.virtualizeAps THEN t ELSE BspNum

\* How far a thread is: an AP is called, has its TSC written (synced), has its
\* VMCB set up (saved), runs in its VM (guest) and has returned to the firmware
\* there (parked).  INIT takes a parked AP out of its VM (reset).
Progress == {"firmware", "called", "synced", "saved", "guest", "parked",
             "reset", "refused", "faulted"}
Virtualised(t) == cpu[t].mode \in {"guest", "parked"}
Started(t)     == cpu[t].mode \notin {"firmware", "refused"}

Init ==
  /\ pc = "entry"
  /\ config \in [svm : BOOLEAN, svml : BOOLEAN, np : BOOLEAN,
                 virtualizeAps : BOOLEAN, immediately : BOOLEAN, bsp : Threads,
                 cd : SUBSET Threads, tf : BOOLEAN]
  /\ startImage = "firmware"
  /\ enabled \in {E \in SUBSET Threads : config.bsp \in E}
  /\ index = 0
  /\ private = NoSlot
  /\ context = [i \in Threads |-> Uninit]
  /\ mmio = [i \in Threads |-> "uninit"]
  /\ table = [i \in Threads |-> "none"]
  /\ vmcb = [i \in Threads |-> [save |-> i, env |-> ZeroEnv]]
  /\ \E svmdis, lock \in BOOLEAN :
       cpu = [t \in Threads |->
                [mode |-> "firmware", svmdis |-> svmdis, lock |-> lock, svme |-> FALSE,
                 env |-> [pat |-> "firmware", cd |-> t \in config.cd, tf |-> config.tf, if |-> TRUE],
                 vmcb |-> 0, hostVmcb |-> 0, hostStack |-> 0, stamp |-> 0]]

-----------------------------------------------------------------------------
(* The entry point and the StartImage shim. *)

\* InternalIsSvmAvailable: may SVM be used, given VM_CR of this processor?
IsSvmAvailable(c) ==
  config.svm /\ (c.svmdis => config.svml /\ ~c.lock)

\* AmdIntelEmuDxeEntryPoint.  SVMDIS is cleared on this processor only.
EntryPoint ==
  /\ pc = "entry"
  /\ IF ~IsSvmAvailable(cpu[Bsp])
     THEN pc' = "unsupported" /\ UNCHANGED <<cpu, startImage>>
     ELSE /\ cpu' = [cpu EXCEPT ![Bsp].svmdis = FALSE]
          /\ IF config.immediately
             THEN pc' = "prepare" /\ UNCHANGED startImage
             ELSE pc' = "boot" /\ startImage' = "shim"
  /\ UNCHANGED <<config, enabled, index, private, context, mmio, table, vmcb>>

\* InternalFileMatches, as the set of its possible results.  The name is moved
\* by a number of bytes although it points to CHAR16, so the character looked
\* at may lie behind the path; the strings compared are one and the same.
FileMatches(bootPathLen, path) ==
  LET distance == 2 * path.len - 2 * bootPathLen
  IN  CASE path.len < bootPathLen     -> {FALSE}
        [] path.len = bootPathLen     -> {TRUE}
        [] path.len > bootPathLen /\ distance - 1 <= path.len
                                      -> {(distance - 1) \in path.separators}
        [] OTHER                      -> BOOLEAN

\* InternalIsXnuBoot, for boot.efi (8 characters) and bootbase.efi (12).
IsXnuBoot(path) ==
  {a \/ b : a \in FileMatches(8, path), b \in FileMatches(12, path)}

mInternalStartImage == "null"  \* never assigned

\* InternalStartImage.  An image without a file path is never XNU's.
\* Calling mInternalStartImage ends the run.
StartImage ==
  /\ pc = "boot"
  /\ \/ /\ startImage = "firmware"
        /\ pc' = "started"
        /\ UNCHANGED startImage
     \/ /\ startImage = "shim"
        /\ \E xnu \in {FALSE} \cup UNION {IsXnuBoot(path) : path \in Images} :
             IF xnu THEN startImage' = mInternalStartImage /\ pc' = "prepare"
                    ELSE pc' = "crashed" /\ UNCHANGED startImage
  /\ UNCHANGED <<config, enabled, index, private, context, mmio, table, vmcb, cpu>>

\* AmdIntelEmuVirtualizeSystem returns to its caller.
Return ==
  /\ pc = "return"
  /\ pc' = IF config.immediately THEN "boot" ELSE "crashed"
  /\ UNCHANGED <<config, startImage, enabled, index, private, context, mmio,
                 table, vmcb, cpu>>

-----------------------------------------------------------------------------
(* InternalPrepareAps; every MP service may fail. *)

PrepareAps ==
  /\ pc = "prepare"
  /\ IF ~config.virtualizeAps THEN pc' = "allocate" /\ UNCHANGED index
     ELSE \/ pc' = "return" /\ UNCHANGED index  \* no MP services, or they fail
          \/ /\ pc' = IF enabled = Threads THEN "allocate" ELSE "enable"
             /\ index' = 0
  /\ UNCHANGED <<config, startImage, enabled, private, context, mmio, table, vmcb, cpu>>

\* MpInitLibEnableDisableAP for an AP to enable: whether it succeeds, and the
\* threads enabled then.
EnableDisableAP(ap) == {[success |-> TRUE, enabled |-> enabled \cup {ap}],
                        [success |-> FALSE, enabled |-> enabled]}

NextAp ==
  /\ index' = index + 1
  /\ pc' = IF index + 1 < NumThreads THEN "enable" ELSE "allocate"

\* Bug: the loop goes on after MpInitLibEnableDisableAP failed.
EnableApAnyway ==
  /\ pc = "enable"
  /\ \E r \in EnableDisableAP(index) : enabled' = r.enabled
  /\ NextAp
  /\ UNCHANGED <<config, startImage, private, context, mmio, table, vmcb, cpu>>

EnableAp ==
  /\ pc = "enable"
  /\ IF index = Bsp THEN NextAp /\ UNCHANGED enabled
     ELSE \E r \in EnableDisableAP(index) :
            /\ enabled' = r.enabled
            /\ IF r.success THEN NextAp ELSE pc' = "return" /\ UNCHANGED index
  /\ UNCHANGED <<config, startImage, private, context, mmio, table, vmcb, cpu>>

-----------------------------------------------------------------------------
(* AmdIntelEmuVirtualizeSystem. *)

\* Bug: the copies of the template keep its pointer to the save area.
TemplateOf(i) == [save |-> 0, env |-> ZeroEnv]

\* The VMCB of slot i, copied from the template of slot 0.
VmcbOf(i) == [save |-> i, env |-> ZeroEnv]

\* _ModuleEntryPoint initialises the MMIO information of every context.
ModuleEntryPoint == [i \in Threads |-> IF i < NumThreads THEN "lapic" ELSE mmio[i]]

\* Memory is allocated, the template VMCB is set up, RuntimeEntry is called and
\* the template is copied.  The contexts' own pages are not zeroed.
SetUpRuntime ==
  /\ pc = "allocate"
  /\ \/ pc' = "return" /\ UNCHANGED <<index, mmio, vmcb>>  \* out of memory
     \/ /\ mmio' = ModuleEntryPoint
        /\ vmcb' = [i \in Threads |-> IF i < NumThreads THEN VmcbOf(i) ELSE vmcb[i]]
        /\ index' = 0
        /\ pc' = "loop"
  /\ UNCHANGED <<config, startImage, enabled, private, context, table, cpu>>

\* Bug: the stacks are taken from the page behind.
PrivateOffByOne(i, stamp) ==
  [context |-> i, hostVmcb |-> i, hostStack |-> i + 1, stamp |-> stamp]

PrivateOf(i, stamp) ==
  [context |-> i, hostVmcb |-> i, hostStack |-> i, stamp |-> stamp]

\* What the nested page table built for slot i intercepts.
TableOf(i) == IF config.np THEN mmio[i] ELSE "none"

\* Bug: the bootstrap processor is skipped before its context is filled.
PrepareThreadSkips ==
  /\ pc = "loop"
  /\ index < NumThreads
  /\ IF index = BspNum /\ config.virtualizeAps
     THEN pc' = "loop" /\ index' = index + 1 /\ UNCHANGED <<context, table, private>>
     ELSE /\ context' = [context EXCEPT ![index] = index]
          /\ table' = [table EXCEPT ![index] = TableOf(index)]
          /\ pc' = IF config.virtualizeAps THEN "start" ELSE "loop"
          /\ IF config.virtualizeAps
             THEN private' = PrivateOf(index, index) /\ UNCHANGED index
             ELSE index' = index + 1 /\ UNCHANGED private
  /\ UNCHANGED <<config, startImage, enabled, mmio, vmcb, cpu>>

\* Bug: the loop ends at the bootstrap processor.
PrepareThreadBreaks ==
  /\ pc = "loop"
  /\ index < NumThreads
  /\ context' = [context EXCEPT ![index] = index]
  /\ table' = [table EXCEPT ![index] = TableOf(index)]
  /\ IF index = BspNum
     THEN pc' = "loop" /\ index' = NumThreads /\ UNCHANGED private
     ELSE pc' = "start" /\ private' = PrivateOf(index, index) /\ UNCHANGED index
  /\ UNCHANGED <<config, startImage, enabled, mmio, vmcb, cpu>>

\* Bug: continue in a while loop, without the increment.
PrepareThreadStays ==
  /\ pc = "loop"
  /\ index < NumThreads
  /\ context' = [context EXCEPT ![index] = index]
  /\ table' = [table EXCEPT ![index] = TableOf(index)]
  /\ UNCHANGED index
  /\ IF index = BspNum
     THEN pc' = "loop" /\ UNCHANGED private
     ELSE pc' = "start" /\ private' = PrivateOf(index, index)
  /\ UNCHANGED <<config, startImage, enabled, mmio, vmcb, cpu>>

\* One pass of the loop over the threads up to the start of the AP; without
\* VirtualizeAps, the single pass for the bootstrap processor.
PrepareThread ==
  /\ pc = "loop"
  /\ index < NumThreads
  /\ context' = [context EXCEPT ![index] = index]
  /\ table' = [table EXCEPT ![index] = TableOf(index)]
  /\ IF index = BspNum
     THEN pc' = "loop" /\ index' = index + 1 /\ UNCHANGED private
     ELSE pc' = "start" /\ private' = PrivateOf(index, index) /\ UNCHANGED index
  /\ UNCHANGED <<config, startImage, enabled, mmio, vmcb, cpu>>

\* Bug: a wait event is passed, so the call returns at once.
StartupThisAPNonBlocking ==
  /\ pc = "start"
  /\ index \in enabled
  /\ cpu' = [cpu EXCEPT ![index].mode = "called"]
  /\ pc' = "loop"
  /\ index' = index + 1
  /\ UNCHANGED <<config, startImage, enabled, private, context, mmio, table, vmcb>>

\* MpInitLibStartupThisAP without an event and a time limit: it returns when
\* the AP's procedure has returned.  An error is asserted and otherwise ignored.
StartupThisAP ==
  /\ pc = "start"
  /\ \/ /\ index \in enabled
        /\ cpu' = [cpu EXCEPT ![index].mode = "called"]
        /\ pc' = "wait"
        /\ UNCHANGED index
     \/ /\ cpu' = [cpu EXCEPT ![index].mode = "refused"]
        /\ pc' = "loop"
        /\ index' = index + 1
  /\ UNCHANGED <<config, startImage, enabled, private, context, mmio, table, vmcb>>

ApFinished ==
  /\ pc = "wait"
  /\ cpu[index].mode = "parked"
  /\ pc' = "loop"
  /\ index' = index + 1
  /\ UNCHANGED <<config, startImage, enabled, private, context, mmio, table, vmcb, cpu>>

-----------------------------------------------------------------------------
(* InternalLaunchVmEnvironment, on thread t. *)

\* Bug: G_PAT is saved after the PAT has been set for the host.
SavedLate(e) == [pat |-> IF config.np THEN "wb" ELSE "zero",
                 cd |-> e.cd, tf |-> e.tf, if |-> FALSE]

\* The save area; interrupts have been disabled before RFLAGS is read.
Saved(e) == [pat |-> IF config.np THEN e.pat ELSE "zero",
             cd |-> e.cd, tf |-> e.tf, if |-> FALSE]

\* The environment the VMM runs in.
HostEnv == [pat |-> "wb", cd |-> FALSE, tf |-> FALSE, if |-> FALSE]

\* Up to the call of EnableVm.  Setting EFER.SVME while SVMDIS is set raises #GP.
SetUpVmcb(t) ==
  LET page == context[private.context]
      area == vmcb[page].save
  IN  IF cpu[t].svmdis
      THEN /\ cpu' = [cpu EXCEPT ![t].mode = "faulted", ![t].hostVmcb = private.hostVmcb,
                                 ![t].env.if = FALSE]
           /\ UNCHANGED vmcb
      ELSE /\ cpu' = [cpu EXCEPT ![t].mode = "saved", ![t].hostVmcb = private.hostVmcb,
                                 ![t].svme = TRUE, ![t].lock = TRUE,
                                 ![t].vmcb = page, ![t].env = HostEnv]
           /\ vmcb' = [vmcb EXCEPT ![area].env = Saved(cpu[t].env)]

\* AmdIntelEmuInternalVmrun up to vmrun, which loads the guest's state from its
\* VMCB.  Without nested paging the guest has the processor's PAT.
EnableVm(t) ==
  /\ cpu' = [cpu EXCEPT
       ![t].mode = "guest", ![t].hostStack = private.hostStack,
       ![t].env = [vmcb[cpu[t].vmcb].env EXCEPT
                     !.pat = IF config.np THEN @ ELSE cpu[t].env.pat]]
  /\ UNCHANGED vmcb

\* InternalVirtualizeAp: the TSC is synchronised, then the VM is launched.
ApSyncTsc(t) ==
  /\ cpu[t].mode = "called"
  /\ cpu' = [cpu EXCEPT ![t].mode = "synced", ![t].stamp = private.stamp]
  /\ UNCHANGED vmcb

ApSetUp(t)  == cpu[t].mode = "synced" /\ t # Bsp /\ SetUpVmcb(t)
ApEnable(t) == cpu[t].mode = "saved" /\ t # Bsp /\ EnableVm(t)

\* The procedure returns, inside the VM, to the firmware.
ApReturns(t) ==
  /\ t # Bsp
  /\ cpu[t].mode = "guest"
  /\ cpu' = [cpu EXCEPT ![t].mode = "parked"]
  /\ UNCHANGED vmcb

ApStep(t) ==
  /\ ApSyncTsc(t) \/ ApSetUp(t) \/ ApEnable(t) \/ ApReturns(t)
  /\ UNCHANGED <<pc, config, startImage, enabled, index, private, context, mmio, table>>

\* The bootstrap processor fills ThreadPrivate for itself; its stamp is not used.
LaunchBsp ==
  /\ pc = "loop"
  /\ index >= NumThreads
  /\ private' = PrivateOf(BspNum, private.stamp)
  /\ pc' = "launch"
  /\ UNCHANGED <<config, startImage, enabled, index, context, mmio, table, vmcb, cpu>>

BspSetUp ==
  /\ pc = "launch"
  /\ SetUpVmcb(Bsp)
  /\ pc' = IF cpu[Bsp].svmdis THEN "crashed" ELSE "vmrun"
  /\ UNCHANGED <<config, startImage, enabled, index, private, context, mmio, table>>

BspEnable ==
  /\ pc = "vmrun"
  /\ EnableVm(Bsp)
  /\ pc' = "return"
  /\ UNCHANGED <<config, startImage, enabled, index, private, context, mmio, table>>

\* An INIT for an AP in its VM is intercepted and taken at the host level: stgi
\* releases it, the processor is reset and waits for a SIPI outside its VM.
TakeInit(t) ==
  /\ cpu[Bsp].mode = "guest"
  /\ cpu[t].mode = "parked"
  /\ cpu' = [cpu EXCEPT ![t].mode = "reset", ![t].svme = FALSE]
  /\ UNCHANGED <<pc, config, startImage, enabled, index, private, context, mmio,
                 table, vmcb>>

\* AmdIntelEmuInternalGetThreadContext: the first entry with the VMCB in page.
GetThreadContext(page) ==
  {i \in Threads : context[i] = page /\ \A j \in 0..(i - 1) : context[j] # page}

-----------------------------------------------------------------------------
BspStep ==
  \/ EntryPoint \/ StartImage \/ Return
  \/ PrepareAps \/ EnableAp
  \/ SetUpRuntime \/ PrepareThread \/ StartupThisAP \/ ApFinished
  \/ LaunchBsp \/ BspSetUp \/ BspEnable

Next == BspStep \/ \E t \in Threads : ApStep(t) \/ TakeInit(t)

\* Every processor executes on; nobody has to send an INIT.
Spec == Init /\ [][Next]_vars /\ WF_vars(BspStep) /\ \A t \in Threads : WF_vars(ApStep(t))

-----------------------------------------------------------------------------
(* Properties. *)

\* Type correctness: all slots named anywhere exist.
TypeOK ==
  /\ pc \in {"entry", "unsupported", "boot", "started", "crashed", "prepare", "enable",
             "allocate", "loop", "start", "wait", "launch", "vmrun", "return"}
  /\ config \in [svm : BOOLEAN, svml : BOOLEAN, np : BOOLEAN,
                 virtualizeAps : BOOLEAN, immediately : BOOLEAN, bsp : Threads,
                 cd : SUBSET Threads, tf : BOOLEAN]
  /\ startImage \in {"firmware", "shim", "null"}
  /\ enabled \subseteq Threads
  /\ index \in 0..NumProcessors
  /\ private \in [context : Threads, hostVmcb : Threads, hostStack : Threads,
                  stamp : Threads]
  /\ context \in [Threads -> Threads \cup {Uninit}]
  /\ mmio \in [Threads -> {"lapic", "uninit"}]
  /\ table \in [Threads -> {"none", "lapic", "uninit"}]
  /\ vmcb \in [Threads -> [save : Threads, env : Environment]]
  /\ cpu \in [Threads -> [mode : Progress, svmdis : BOOLEAN, lock : BOOLEAN,
                          svme : BOOLEAN, env : Environment, vmcb : Threads,
                          hostVmcb : Threads, hostStack : Threads, stamp : Threads]]

\* AmdIntelEmuInternalGetThreadContext, called on any exit of a virtualised
\* thread with its VMCB, compares initialised entries only and stops at the
\* entry of the thread, although the bootstrap processor may still be filling
\* later entries.
OwnContext ==
  \A t \in Threads : Virtualised(t) =>
    /\ GetThreadContext(cpu[t].vmcb) = {SlotOf(t)}
    /\ \A i \in 0..SlotOf(t) : context[i] # Uninit

\* A virtualised thread runs on the VMCB, the host save area, the stack and the
\* nested page table of its own slot, which no other thread has, and its TSC
\* was synchronised with the stamp taken for it, although all threads are
\* launched from one ThreadPrivate.
OwnResources ==
  \A t \in Threads : Virtualised(t) =>
    /\ cpu[t].vmcb = SlotOf(t)
    /\ cpu[t].hostVmcb = SlotOf(t)
    /\ cpu[t].hostStack = SlotOf(t)
    /\ t # Bsp => cpu[t].stamp = SlotOf(t)
    /\ table[SlotOf(t)] = IF config.np THEN "lapic" ELSE "none"
    /\ \A u \in Threads : Virtualised(u) /\ u # t => cpu[u].vmcb # cpu[t].vmcb

\* With nested paging, the code after the launch finds the cache control, the
\* memory types and the trap flag of the code before it, although the VMM
\* changes all three on the processor.
GuestStateKept ==
  \A t \in Threads : Virtualised(t) /\ config.np =>
    /\ cpu[t].env.pat = "firmware"
    /\ cpu[t].env.cd = (t \in config.cd)
    /\ cpu[t].env.tf = config.tf

\* The launch of one thread changes nothing that a virtualised thread uses: its
\* context, its VMCB with the guest's state, its nested page table.
RunningUntouched ==
  [][\A t \in Threads : Virtualised(t) =>
       LET own == SlotOf(t)
       IN  /\ context'[own] = context[own]
           /\ vmcb'[own] = vmcb[own]
           /\ table'[own] = table[own]
           /\ mmio'[own] = mmio[own]]_vars

\* No thread enters its VM before all APs could be enabled, and if preparing
\* the launch fails, no thread was started.
AllOrNothing ==
  /\ config.virtualizeAps /\ (\E t \in Threads : Started(t)) => enabled = Threads
  /\ pc = "return" /\ cpu[Bsp].mode # "guest" => ~\E t \in Threads : Started(t)

\* Once the bootstrap processor runs in its VM, so do all the others, except
\* for those whose start failed and those that took an INIT.
EveryThreadVirtualised ==
  cpu[Bsp].mode = "guest" /\ config.virtualizeAps =>
    \A t \in Threads : Virtualised(t) \/ cpu[t].mode \in {"reset", "refused"}

\* A launch that got its memory ends with the bootstrap processor in its VM,
\* provided that the firmware left no AP with SVM disabled.
LaunchCompletes ==
  (pc = "loop" /\ (config.virtualizeAps => \A t \in Threads : ~cpu[t].svmdis))
    ~> cpu[Bsp].mode = "guest"

\* What the ASSERT in InternalLaunchVmEnvironment claims of every processor that
\* is about to set EFER.SVME (AmdIntelEmuDxe.c:285).
SvmEnabled ==
  \A t \in Threads : cpu[t].mode = "synced" \/ (t = Bsp /\ pc = "launch")
                       => ~cpu[t].svmdis
=============================================================================
