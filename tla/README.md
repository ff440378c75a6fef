# Formal verification of AmdIntelEmu

AmdIntelEmu is a UEFI driver with a small resident hypervisor. The driver turns
on SVM on every core of an AMD machine and puts the running firmware and operating
system into a virtual machine. The hypervisor (the *Runtime*) then intercepts what
XNU would notice: `cpuid`, some MSRs, `sysenter`/`sysexit`, and reads of the local
APIC version register, so that XNU sees an Intel CPU.

This directory holds TLA+ models of that code, their TLC instances, and proofs that
TLAPS checks. Section 1 is the inventory of the system, 2 the plan, 3 to 5 describe what
is modelled, checked and proved today, 6 the disagreements between code and comments
the models brought to light, 7 what is left out.

All paths are relative to `src/AmdIntelEmu/`.

## 1. The system

### Components

| Component | Code | State it keeps | Operations | Status |
|---|---|---|---|---|
| VMEXIT dispatcher and event arbitration | `Runtime/Intercepts/Handler.c`, `Runtime/X64/EnableVM.nasm` | VMCB: EVENTINJ, clean bits, intercepts, TLB_CONTROL | `InterceptionHandler`, `InternalHandleEvents`, the `vmrun` loop | modelled |
| Single-step engine, iret interception | `Runtime/Intercepts/Exception/Debug.c`, `Iret.c` | thread context: `SingleStepResume`, `SsTf`, `Btf`, `IretTf`, `QueueEvent`; RFLAGS.TF, DR6.BS, DEBUGCTL.BTF | `SingleStepRip`, `ExceptionDebug`, `ExceptionIret`, `QueueEvent` | modelled |
| Local APIC MMIO interception | `NestedPageFault.c`, `LapicMmio.c`, `MmioHandlerMap.c` | the nested PTE of the local APIC page | `ExceptionNpf`, `NpfPostStep`, `MmioLapic` | partly |
| #UD emulation | `Exception/Ud/*.c` | segments, CPL, RIP and RSP of the save area | `ExceptionUd`, `sysenter`, `sysexit` | modelled |
| Nested page tables | `Dxe/VirtualMemory/VirtualMemory.c`, `InternalSplitAndUnmapPage` of `Dxe/AmdIntelEmuDxe.c` | page tables, ring of page table pools, `MmioInfo.Pte` | `CreateIdentityMappingPageTables`, the two splits, `AllocatePageTableMemory`, `EnablePageTableProtection` | modelled |
| Launch of BSP and APs | `Dxe/AmdIntelEmuDxe.c`, `Runtime/AmdIntelEmuRuntime.c`, `EnableVM.nasm` | the boot services table, thread contexts, VMCBs, `ThreadPrivate`, each processor's EFER, PAT, CR0 and RFLAGS | `StartImage` shim, `PrepareAps`, `VirtualizeSystem`, `LaunchVmEnvironment`, `_ModuleEntryPoint`, `GetThreadContext` | modelled |
| MSR emulation | `Runtime/Intercepts/Msr/*.c`, `InternalInitMsrPm` | permission map, host MSRs, G_PAT, the microcode signature | table scan, read and write handlers | modelled |
| CPUID emulation | `Runtime/Intercepts/Cpuid/*.c` | none | leaf handlers, search for cache descriptors | modelled |
| Local APIC access library | `LocalApic.c` | device registers | register reads and writes | partly: the read of the version register |
| MpInitLib wrappers | `../Library/DxeMpInitLibMpService` | none | delegation to a firmware protocol | partly: the functions the launch calls |
| Intercept self-tests | `Dxe/InstructionTests.c` | none | a test | its assertions are `VersionIsIntel` and `WriteBackNeutral` |
| hde64 | `Runtime/hde` | none | instruction decoding | third-party |

### How they interact

*At launch*, on the bootstrap processor: `AmdIntelEmuVirtualizeSystem` allocates the
VMM's memory, fills a VMCB template, and for each thread builds a nested page table
and starts the AP with a pointer to one `ThreadPrivate` on its own stack. Building a
table calls back into `InternalSplitAndUnmapPage`, which decides what the guest may
not reach and records in the thread's `MmioInfo.Pte` where the PTE of the local APIC
page is. All tables take their pages from the same ring of pools.

*At run time* threads hardly interact (all share one microcode signature, and during the
launch one thread may run in its VM while later ones are being set up): the handler runs with GIF = 0 and touches the
VMCB, thread context and page table of its own thread. Everything that is hard
happens between the exits of one thread. The NPF handler cannot emulate the access it
intercepted; it maps the page and *single-steps* the guest: it forces RFLAGS.TF,
intercepts #DB, remembers in `SingleStepResume` what to do then, and lets the guest
go on. The iret handler uses the same engine to run code right after an `iret`, to
inject an event that had to wait (`QueueEvent`). An exit may also have interrupted the
delivery of an event (EXITINTINFO), which competes with the event the handler wants to
inject (EVENTINJ).

### What is hard, and what makes it correct

- *Interleaving*: interrupts are not intercepted and may be taken between the arming of
  a step and the instruction to be stepped, carrying the forced TF onto the guest's
  stack; nested steps overwrite the only slot there is. Correct means: the guest never
  notices a step, and each step ends.
- *Caches*: intercepts (clean bits) and translations (TLB_CONTROL) may be stale on the
  CPU. Correct means: what the CPU has cached is what the VMCB says.
- *Uninitialised memory*: the thread contexts are never zeroed, `QueueEvent` in
  `InternalHandleEvents` is assigned by some paths of a loop. Correct means: every use
  is behind an assignment, in every order of exits.
- *Event arbitration*: interrupts and NMIs whose delivery was cut off exist nowhere else.
  Correct means: none is lost.
- *Allocation during traversal*: the protection pass over the ring of pools may insert
  pools into the ring; a table is built by loops that recurse through a callback with
  side effects. Correct means: no page is handed out twice, the pass terminates, each
  table intercepts exactly what it should and hides nothing else from the guest.
- *Launch*: a firmware table is patched at run time, MP services may fail half-way, and all
  APs are started from one record on the bootstrap processor's stack, in memory that is not
  zeroed, while threads already in their VMs take exits. Correct means: each thread gets
  what is its own, nothing of a running thread is touched, all or none are virtualised.
- *Two descriptions of one machine*: CPUID and MSRs are answered by separate functions that
  XNU combines. Correct means: they describe the same processor, and a guest that writes
  back what it has read changes nothing.
- *Faults of the VMM*: the handlers repeat intercepted accesses on the processor, which
  may not have the MSR or not take the value, and pass a PAT of the guest on to it. Correct
  means: every such fault is accounted for, and the guest meets none where the Runtime answers.

`PROJECT.json` lists every hazard with its line and the properties that cover it.

## 2. Plan

1. **VmExit** (done): the VMEXIT handler of one thread as one component, since its
   engines share the VMCB and the thread context; `VmcbEvents` and `GuestCode` are
   shared by it and by its abstract specification `BareMetal`; `VmExitRefinement`
   connects the two. `VmExitProofs`, `SteppingProofs`, `RefinementProofs`.
2. **PageTables** (done): the building of all threads' tables from the shared pool.
   `PageTablesProofs`, `ProtectionProofs`.
3. **Launch** (done): the `StartImage` shim, `PrepareAps` with its partial failure, the loop of
   `VirtualizeSystem` with APs that start, fail, or exit before the next entry is
   initialised, and `GetThreadContext`'s scan. `LaunchProofs`.
4. **Emulation** (done) with `MsrMap` and `Cpuid`: the MSR table, its permission map and the
   handlers; the CPUID leaves; `sysenter`/`sysexit`. `CpuidProofs`, `EmulationProofs`.
5. More of **VmExit**: queued events together with a guest that single-steps itself (the
   TF that `QueueEvent` clears), the fate of an event in the queue slot. Both are listed as
   hazards with what happens in the model.
6. **Proofs**: every invariant and action property of the passing runs is now a theorem,
   and so are all steps of the refinement. What remains open is whether `OneForcedContext`
   can be widened to guests with queued events: its slots are then shared with the iret
   engine, and a nested step overwrites them.

Abstract specifications: `BareMetal` for the virtualised thread. For the page tables the
abstraction is the set of pages a guest can reach, which the invariants state directly.

## 3. The models

### VmExit: one virtualised thread

| Module | Content |
|---|---|
| `VmcbEvents` | `AMD_VMCB_EVENT`, `InternalHandleEvents` as the function `HandleEvents(inj, info)` with `ExceptionPriorities` and the #DF combinations, C fallthrough included |
| `GuestCode` | the instruction classes the runtime tells apart, the guest's stack |
| `BareMetal` | abstract: a thread of an Intel machine, without a hypervisor |
| `VmExit` | detailed: the handler, the state it owns, the CPU around it |
| `VmExitRefinement` | the refinement mapping, `StepsOfBareMetal` (its steps) and `ImplementsBareMetal` (with fairness), `FlagsInv` |
| `MCVmExit` | values of `VectoringInfo`; checks `PriorityIndex` against the C table |

The handler runs to completion with interrupts off, so one exit is one action,
`HandleExit`. It is written as functions on the record `thr` (VMCB fields, save area,
thread context, PTE), each named after the C function and composed in its order:
`InterceptionHandler` clears EVENTINJ and sets the clean bits, `Dispatch` is the switch,
`ArbitrateEvents` is the call of `InternalHandleEvents` at the end. `thr` starts with
`ssTf`, `btf`, `iretTf` arbitrary and with `resume` and `queueEvent` marked
unassigned, because the pages they are in are not zeroed (`Dxe/AmdIntelEmuDxe.c:728-732`).

The CPU's side (`InjectEvent`, `Deliver`, `Interrupt`, `DebugTrap`, `Access`, `Iret`, ...) is
not in the repository. It is modelled as far as the handlers rely on it and marked
external in the map: `vmrun` reloads intercepts that are not marked clean and flushes
the TLB as told, delivery through the IDT pushes RFLAGS and clears TF, a single-step
trap follows an instruction that began with TF set unless BTF restricts it to branches,
an exit may hit the delivery of an event. `want` is a history variable: the TF the guest
itself would have.

The refinement mapping hides the runtime's TF: the guest's `tf` is `want` in every frame,
and a trap is the guest's if it was raised without interception or is on its way through
`ExceptionDebug` because `SsTf` was set. `BareMetal`'s fairness is part of what is
implemented, so a guest under AmdIntelEmu makes the progress it makes on hardware.

### PageTables: the nested page tables

`PageTables` is the loop of `VirtualizeSystem` over the threads as far as page tables go
and all of `VirtualMemory.c`. One action is one iteration of a loop: `CreatePageTables`
(the pages of the upper levels), `Map1GPage`/`Split1GPageTo2M`, `Map2MPage`/
`Split2MPageTo4K`, then `EnablePageTableProtection` and, for each 2 MB of each pool of the
ring, `SetUnitUnmapped` or `SplitAndSetUnitUnmapped`. Each allocating action takes a
member of `AllocatePageTableMemory(n)`: the pools afterwards and the first page handed
out, for every place UEFI may put a new pool at.

- A table records what differs from an identity map: which 1G pages are split, which
  page table a 2M page was replaced by, not-present 4K PTEs (`hole`), 2M pages made not
  present (`clear`), the pool pages it uses, and `MmioInfo.Pte`.
- `Cleared` keeps a peculiarity of the code: level 1 entries have no PS bit, so a 2M page
  that is already split is not made not-present by the protection pass.
- `page1G` is the CPUID bit; with it, tables start with 1G pages.
- The number of physical address bits becomes `Pml4Entries` and `PdpEntries`. With 1G pages
  the code fills 512 entries for each PML4 entry, without them
  `NumberOfPdpEntriesNeeded`; these are the same beyond 39 bits and `PdpEntries` stands
  for both.
- The `ASSERT`s that an allocation succeeded stop the model (`OutOfMemory`). The `ASSERT` of
  `InternalSplitAndUnmapPageWorker` that ranges do not partly overlap is not assumed: the
  function returns `FALSE` after it, and so does the model.
- Nested paging is supported; without it the code builds no tables.

### Launch: getting all processors into their VMs

`Launch` is `Dxe/AmdIntelEmuDxe.c` from the entry point on, as a bootstrap processor with a
program counter `pc` (`BspStep`) and the APs, of which each is as far as `cpu[t].mode` says
(`ApStep`). Building a thread's page table is one step of the loop here; `PageTables` has
its details.

- *Slots*. Everything the launch allocates for a thread is named by the index of its slot:
  `context[i]` is the VMCB the i-th thread context points to (`Uninit` until the loop fills
  it; these pages are never zeroed), `vmcb[i].save` the save area the VMCB of slot i points
  to, `private` the one `ThreadPrivate`. An index too many would leave the set of slots and
  break `TypeOK`.
- *Bootstrap processor*: `EntryPoint` (`InternalIsSvmAvailable` and the PCD that launches at
  once), `StartImage` (the shim, with `InternalFileMatches` as the set of the results it may
  give for a path of that length and with those separators), `PrepareAps`/`EnableAp`,
  `SetUpRuntime` (allocation, template VMCB, `_ModuleEntryPoint`, copies), `PrepareThread`,
  `StartupThisAP`, `ApFinished`, `LaunchBsp`, `BspSetUp`, `BspEnable`, `Return`.
- *An AP*: `ApSyncTsc` reads the stamp, `ApSetUp` is `InternalLaunchVmEnvironment` up to the
  call of `EnableVm`, `ApEnable` is `AmdIntelEmuInternalVmrun` up to `vmrun`, `ApReturns` the
  procedure's return into the firmware, inside the VM. `TakeInit` is an INIT, which takes an
  AP out of its VM.
- *Environment*: of the processor's registers those appear that the VMM needs different from
  the guest (PAT, CR0.CD, RFLAGS.TF and IF), with where they are saved and loaded again.
- `InternalStartImage` calls `mInternalStartImage`, which is never assigned: such paths end in
  `pc = "crashed"`. The loading of the Runtime image is a TODO in the code
  (`Dxe/AmdIntelEmuDxe.c:683-685`, `RuntimeEntry` is NULL); the model goes on as that TODO
  says, with `_ModuleEntryPoint`.

### Emulation: what the guest is told

| Module | Content |
|---|---|
| `MsrMap` | the table of MSR intercepts, `InternalInitMsrPm`, the processor's lookup in the map |
| `Cpuid` | all leaves as operators on a record of the processor; the search of leaf 2 as a function over the rows of its table, and its reference `BestFit` |
| `Emulation` | a guest that executes `cpuid`, `rdmsr`, `wrmsr`, `sysenter` and `sysexit`, in any order |
| `MCEmulation` | three processors, the values |

An exit and its handler are one action (`EmulateCpuid`, `EmulateRdmsr`, `EmulateWrmsr`,
`Sysenter`, `Sysexit`), which changes the VMCB's save area and clean bits; `Vmrun` is what
the processor then loads, which is only what is not marked clean. `cpu` is what the guest
runs with, `save` and `msrs` what the VMCB and the host say. `DirectMsr` is an access the
permission map lets through.

What the guest writes may be more than the processor takes. `Values` has PATs with a reserved
memory type (`LegalPat`), and writes to MSRs of the processor that it rejects (`Legal`). Without nested
paging the VMM executes the `wrmsr` to PAT itself (`Pat.c:61`) and takes the #GP
(`WriteFaults`, `pc = "crashed"`); with it G_PAT becomes illegal (`Pat.c:58`), `vmrun` exits at
once, and the handler's default case changes nothing and returns to `vmrun` (`VmrunInvalid`),
for ever.

`Cpuid` describes the caches twice: `Leaf2Queries` is what the code makes of the fields of CPUID
80000005 and 80000006, `Parts` what these fields mean by AMD's manual. An associativity of 80000006
is encoded in 4 bits, direct-mapped is 1 in both leaves, the L3 is counted in units of 512 KB.
The code decodes "all ones" only. A part of which every field is a plain number, as far as the
code takes it for one, is marked `plain`.

The guest's kernel follows the layout of segments that
`SYSENTER_CS` implies, and also leaves and enters by other ways (`Switch`). Numbers keep
their width where it matters: selectors are of 16 bits (`UInt16`), the number of cores in
leaf 4 of 6, the number of threads of 16, the multiplier of 8. RIP and RSP are reduced to whether
they are beyond 4 GB; an MSR's number is a pair of halves, because TLC's integers end at
2^31.

In all modules the operators whose comment begins with "Bug:" are not the code. Each is
the definition below it with one plausible mistake; replacing the definition by it makes
TLC report a violation of the property it is paired with in `PROJECT.json`.

## 4. What TLC checks

| Run | Checks | Shows |
|---|---|---|
| `debugger` | `FlagsInv`, `ImplementsBareMetal` | a guest that single-steps itself (`popf`), across local APIC accesses, faults and returns, cannot tell the runtime from an Intel machine; its TF is its own in every context but the one being stepped |
| `events` | `MappedIffStepping`, `StepInv`, `ImplementsBareMetal` | the same with events whose delivery is cut off, queued and injected again, BTF set, and all emulated instructions; the local APIC page is mapped, and cached by the TLB, only during a step, and the step executes the one instruction it was armed for |
| `interrupted` | `OneForcedContext`, `ForcedInv`, `MappedIffStepping`, `StepCompletes` | interrupts inside steps: exactly one context carries the forced TF, it is still at the access to be stepped, the local APIC page is mapped as long as the step is armed, and every step ends |
| `widest` | `TypeOK`, `NoUninitialisedUse`, `IInv`, `ExitInv`, `ExternalEventKept` | everything at once, nested steps that overwrite each other's slots included; exits and injected faults belong to the instruction at RIP |
| `tables` | `TypeOK`, `PagesAccounted`, `LapicIntercepted`, `GuestMemoryKept`, `VmmUnmapped`, `TablesProtected`, `ProtectInv`, `Completes` | four threads' tables, with and without 1G pages, for every placement of the VMM's memory and of each pool; the walk over the growing ring of pools misses none it has to hide |
| `launch` | `TypeOK`, `OwnContext`, `OwnResources`, `GuestStateKept`, `AllOrNothing`, `EveryThreadVirtualised`, `RunningUntouched`, `LaunchCompletes` | three processors, any of them the bootstrap processor, with every configuration, failures of all MP services and INITs: each virtualised thread has what is its own and finds its context, nobody else changes it, and the launch ends |
| `emulation` | `TypeOK`, `PatCurrent`, `SegmentsConsistent`, `WriteBackNeutral`, `MsrFaultsAccounted`, `TopologyAgrees`, `BusFrequencyConsistent`, `DescriptorBestFit` | any sequence of emulated instructions on three processors: nothing the processor has cached is stale, system calls leave consistent segments, MSRs and CPUID agree; only accesses outside of the permission map, or without nested paging a PAT with a reserved type, fault in the VMM, and only such a PAT keeps a thread out of its guest; caches and TLBs whose fields are plain numbers are told as closely as the table allows |
| `btf`, `queued`, `version`, `unmapped`, `svmdis` | one property each | the five disagreements of section 6 |

### Bounds

- `MaxDepth = 2` frames on the guest's stack: a handler that interrupted a step can itself
  be interrupted, which is what overwriting a slot, queueing behind an `iret` and
  returning into a stepped context need. At the bound the guest can only return.
- `Insns`: each run uses the classes its question needs; `events` has all but `popf`. Local
  APIC registers are two, the version register and the rest, as in `MmioLapic`.
- `AllVectoring`: an interrupt, an NMI, a software interrupt, #DE and #PF: one event of each
  kind `InternalHandleEvents` treats differently.
- `AsyncInStep = FALSE` in `debugger` and `events` restricts these two results: no interrupt
  is delivered between the arming of a step and its end. With it, the guest *can* notice
  (`version`), so the refinement cannot hold; what still holds is in `interrupted`
  and `widest`.
- `debugger` has no queued events and `events` has no `popf`: a guest that single-steps itself
  and has an event queued loses its TF (`Iret.c:94-97` clears it, `Iret.c:30-35` never sets it
  again). No text in the repository promises otherwise; it is in the list of hazards.
- `cpuid` and MSR exits skip the trap an instruction that began with TF ends with, so
  `debugger`'s guest does not use them while it steps itself.
- `tables`: 18 pages per 2M unit rather than 512, so that pools run out. The VMM's memory is
  exactly 18 pages with four threads, one 2M unit, as in the code for up to about 168
  threads. 2 units per 1G page, 15 1G pages, the local APIC in the middle of a unit. Without
  1G pages a table starts with 19 pages, which needs a pool of two units, so the pass visits
  more than one unit per pool. `Ram` has gaps, so that memory runs out in some behaviours and
  pools do not follow each other. The pool runs out in a split of either kind, at the
  start of a table, and during the protection of the first and of a later pool.
- `launch`: three processors, so that there is an AP before and one behind the bootstrap
  processor, and an AP runs in its VM while another is launched. Five file paths, one for
  each branch of `InternalFileMatches`. All combinations of SVMDIS, its lock, nested paging,
  the two PCDs, CR0.CD per thread and TF; the firmware leaves SVMDIS alike on all threads,
  so that what differs later is the driver's doing.
- `emulation`: a processor with one thread, one with 8 threads in pairs and one with 64 cores
  of two threads, which fill the 6 bits of leaf 4. `SYSENTER_CS` 0 (no segment), 3 (only an RPL), 11
  (an RPL to be masked) and 65528 (selectors that wrap). Signatures 0, which a write must
  not lose, and 7. PATs with legal and with reserved types, values other MSRs take or not. The
  MSRs are all those of the table, some that a processor has, two that
  it has not, one outside of the permission map. `MCQueries`: sizes and numbers of entries
  at, below and above those of the descriptor table.
- `CHECK_DEADLOCK FALSE` where the system stops: page tables and launch end, and in
  `emulation` a #GP in the VMM ends everything.

### Fairness

- `VmExit!Spec`: weak fairness of the CPU as a whole; it keeps executing and
  returns from `vmrun`. Nothing is assumed about interrupts.
- `FairSpec` of `VmExit` (`StepCompletes`): in addition `HandlersReturn`: at every depth
  the guest's handlers eventually decide to return and the code at that depth is not
  pre-empted for ever by interrupts. A step whose context was interrupted ends only if the
  interrupting handler returns, so this is an assumption about the guest, not the code.
- `FairSpec` of `PageTables`: the bootstrap processor does not stop.
- `Launch!Spec` (`LaunchCompletes`): weak fairness of the bootstrap processor and of each
  AP: every processor keeps executing. `StartupThisAP` may refuse every time; no INIT has to
  come. The property excludes APs that the firmware left with SVM disabled, where `svmdis`
  shows what happens.

## 5. What is proved

TLAPS checks every proof to its leaves; the theorems hold for all values of the constants
that satisfy the named assumptions: `InsnsAssumption` and `MaxDepthAssumption`
(`GuestCode`), `EnvAssumption` (`VmExit`: EXITINTINFO holds well-formed events, external
interrupts from vector 32 on, NMIs with vector 2), `SizesAssumption` (`PageTables`: sizes
are positive, the local APIC page exists and UEFI does not hand it out as memory),
`NumProcessorsAssumption` and `ImagesAssumption` (`Launch`: there is a processor, a path has
a length), `MsrsAssumption`, `ProcessorsAssumption`, `SysenterCsAssumption` and
`SignaturesAssumption` (`Emulation`: numbers have the widths of their registers).

| Theorem | Statement |
|---|---|
| `VmExitProofs!InductiveInvariant`, `TypeCorrect` | `Spec => []IInv`, `Spec => []TypeOK` |
| `VmExitProofs!NeverUninitialised` | no unassigned slot of the thread context, and no unassigned `QueueEvent` of `InternalHandleEvents`, is ever used |
| `VmExitProofs!ExternalEventsKept` | no handler drops the external event its exit interrupted |
| `SteppingProofs!ExitsMatchInstruction` | an exit, and the fault its handler injects, belong to the instruction at RIP |
| `SteppingProofs!StepsWellFormed`, `MappedOnlyInStep` | if nothing reaches the guest in a step (`~AsyncInStep`): an armed step executes the one instruction it was armed for, with TF set and BTF clear; the local APIC page is mapped and cached only meanwhile |
| `SteppingProofs!MappedWithInterrupts` | the same of the mapping with interrupts inside steps, if no external event's delivery is cut off (`NothingExternal`): the page may be used by whoever interrupts the step, but is unmapped and flushed at its end |
| `SteppingProofs!ForcedContextReturns`, `OneContextForced` | for a guest that leaves TF alone and has nothing queued (`QuietGuest`), interrupts inside steps allowed: one context has the forced TF, at the access to be stepped, on whichever frame interrupts have put it |
| `RefinementProofs!GuestFlagsKept` | in the environments `FlagsEnv`, TF is the guest's own in all contexts but the stepped one, whose own is in `SsTf`: nothing reaches the guest in a step, and a guest that uses `popf` has BTF clear and no external event cut off by an exit |
| `RefinementProofs!GuestCannotTell` | in the environments `IntelEnv`, `Spec => StepsOfBareMetal`: the refinement's initial states and steps. Nothing reaches the guest in a step; no #DB, #UD or #GP is cut off; a guest that uses `popf` has BTF clear, no instruction whose emulation completes it (`cpuid`, `msr`, `sys`), and no external event and no machine check cut off |
| `PageTablesProofs!InductiveInvariant`, `TypeCorrect` | `Spec => []IInv`, `Spec => []TypeOK` |
| `PageTablesProofs!EveryPageAccounted` | the pool hands out no page twice, no header, nothing beyond its end |
| `PageTablesProofs!LapicAlwaysIntercepted` | finished tables intercept the local APIC page through the recorded PTE |
| `PageTablesProofs!NothingElseHidden` | tables hide nothing but the VMM, that page and pool memory |
| `PageTablesProofs!VmmHidden` | finished tables hide all of the VMM's memory, if it fits one 2M page |
| `ProtectionProofs!WalkInvariant`, `TablesAlwaysProtected` | the pools stay one ring while the walk allocates more; finished tables hide all tables built before them, and themselves unless a split during the walk took a page |
| `LaunchProofs!InductiveInvariant`, `TypeCorrect` | `Spec => []IInv`, `Spec => []TypeOK`: no index leaves the slots |
| `LaunchProofs!OwnContextAlways` | the lookup of a thread's context ends at its own and meets no entry that is not set |
| `LaunchProofs!OwnResourcesAlways` | no two virtualised threads share a VMCB; each has the stack, host save area, page table and TSC stamp of its slot |
| `LaunchProofs!GuestStateAlwaysKept` | with nested paging, PAT, CR0.CD and TF survive the launch on every thread |
| `LaunchProofs!AllOrNothingAlways`, `EveryThreadAlwaysVirtualised` | no thread starts before all APs could be enabled; the bootstrap processor is the last |
| `LaunchProofs!RunningNeverTouched` | `Spec => RunningUntouched`, an action property |
| `CpuidProofs!SearchIsBestFit` | for whatever is asked, the search of leaf 2 returns the closest descriptor that does not overstate it, 0 only if none fits |
| `EmulationProofs!MapExact` | for every 32-bit MSR number, the map read as the processor reads it intercepts exactly the table's MSRs (and those it does not cover) |
| `EmulationProofs!TypeCorrect` | `Spec => []TypeOK`; no selector exceeds 16 bits |
| `EmulationProofs!PatAlwaysCurrent`, `SegmentsAlwaysConsistent` | what the guest runs with is what the VMCB says, for every `SYSENTER_CS` and order of calls |
| `EmulationProofs!WriteBackAlwaysNeutral` | an MSR written back with what it showed changes nothing |
| `EmulationProofs!FaultsAlwaysAccounted` | the VMM faults only on an MSR outside of the map or, without nested paging, on a PAT with a reserved type; only such a PAT keeps a thread out of its guest; the guest meets no fault of an MSR of the Runtime |
| `EmulationProofs!TopologyAlwaysAgrees` | leaf 4 and the MSR agree exactly on the processors whose number of cores is whole and fits leaf 4 (`Representable`) |
| `EmulationProofs!FrequenciesConsistent` | on processors whose multiplier fits 8 bits (`FrequencyRepresentable`), the bus is reported at 100 MHz and the TSC within one step of 200 MHz below the frequency of P-state 0 |
| `EmulationProofs!DescriptorsAlwaysFit` | leaf 2 describes each cache and TLB whose fields are plain numbers as closely as the table allows without overstating it; encoded fields are excluded, for them it is false (section 6) |

**VmExit.** `NoUninitialisedUse` is about the exit being handled and does not say why the
slots are filled. The invariant adds: a slot is assigned before the intercept that leads to
its use is enabled (`ThreadInv`); the CPU's cached intercepts are the VMCB's
(`InterceptsCurrent`), without which an exit could come from an intercept the handler
believes disabled; exits come from enabled intercepts (`ExitsIntercepted`). The lemmas
follow the handler: `HandleEventsKeeps` (whatever is in EVENTINJ and EXITINTINFO, the scan of
the priority table meets one of them, so `QueueEvent` is assigned), `DispatchKeeps`,
`ArbitrateKeeps`, `HandlerKeeps`.

**Stepping.** `IInv` holds in every environment and says nothing of which instruction an exit
or a step belongs to. `ExitInv` adds that and needs no hypothesis either. From there on the
code itself needs one: with an interrupt inside a step the page mapped for one access is open
to another (`version`), and a step nested in it overwrites its slots (section 6 and the
hazards). There are three ways to go on. `StepInv` assumes `~AsyncInStep` and shows that between
arming and #DB the guest does nothing but the stepped instruction: no event is pending, TF is
set, BTF is clear, `insn` is the access whose page is mapped, or the `iret` with its intercept
dropped. `ForcedInv` allows interrupts and assumes `QuietGuest` instead: no `popf`, and no
external event whose delivery is cut off, so that the iret engine is never used. The forced TF
then moves between RFLAGS and frames as one token. The invariant has to name what is at the
token: the frame holding it returns to a local APIC access (so its step ends there), was
not pushed by a fault of that instruction, and while it is in RFLAGS nothing but that access
can come next. `MappedInv` needs only the second half of that
(`NothingExternal`): while a page is mapped no local APIC access can fault, so an interrupt in
the step finds the page but cannot arm another step over the first. Where an `iret` can be
stepped inside a step as well, the mapping outlives its step. The lemmas are by action; what
the handler does to the slots is stated once (`NpfEffect`, `DebugNpfEffect`, `IretEffect`, ...)
and used by all four invariants.

**Refinement.** `IntelEnv` is what the runs `debugger` and `events` have in common. Nothing reaches
the guest in a step (`~AsyncInStep`). `VectoringInfo`, the events whose delivery an exit may cut
off, has no #DB, #UD or #GP. If the guest uses `popf`, it has BTF clear (`~GuestBtf`), executes
no `cpuid`, `msr` or `sys`, which the handler completes without the trap TF calls for, and has
neither an external event nor a machine check in `VectoringInfo`. TLC finds `StepsOfBareMetal`
violated when any one of these is dropped. `FlagsInv` needs less (`FlagsEnv`): `~AsyncInStep`, and
with `popf` BTF clear and no external event cut off. `FlagsInv` ties the hidden TF to the guest's own in every context; with
`ExitInv` and `StepInv` it makes each action of `VmExit` a step of `BareMetal` or a stutter, one
lemma per action: a delivery maps to a delivery, the #DB exit to the guest's own trap if
`SsTf` was set, all other exits to nothing but the instruction they emulate.

**PageTables.** The invariant says of the pools (`GoodPools`) that they are disjoint runs of
units within RAM, that offset and free pages add up to a pool's size and that links lead to
pools; of the tables (`Accounted`) that together they own exactly the pages between header
and offset; of the loops that they enter a 1G page at its start (`AtGigaStart`), without
which skipping a 1G page could skip part of another, and that the walk is inside a pool with
the right number of bytes left (`WalkGood`), without which it would clear units of the
guest's memory. `Past(t, u)` names the moment the table of `t` has been built beyond unit `u`:
from then on the local APIC page and the VMM are hidden in it. `TakeGood` and `LinkGood` are
the two halves of `AllocatePageTableMemory`; one lemma per action follows. `VmmHidden` needs
the condition on the size because a 2M page that the VMM's memory leaves half-way neither
contains nor is contained in it; with five threads on the instance TLC finds its tail mapped.

**Protection.** What the pass hides depends on an order: the ring of pools is walked from its
head while a split may insert a pool anywhere in it. `OneRing` says that no set of pools but
all is closed under `next`: one cycle, stated without a path, so that it can be used
without an induction along the links; inserting a pool keeps it (`InsertedRing`).
`WalkedOver(S)` is the walk's own invariant: the pools S lead at most to the pool the walk is at,
and what the tables of `ToHide` (the earlier ones, and without 1G pages the one being
protected) have in S is hidden. A pool that is allocated during the walk may be linked behind
it, where it is not visited; it joins S, since it holds nothing but pages of the table being
protected, and without 1G pages the pass splits and takes nothing. When the walk is back at the head, S
is closed under `next`, hence all pools, and the table is protected. Later tables do not
touch a finished one, but they use pools it does not hide (`unmapped`).

**Launch.** None of the properties says why it holds; all follow from three facts the
invariant adds. `PhaseInv`: where the bootstrap processor is determines whether anything has
been started, and from `start` to `wait` and again from `launch` on `ThreadPrivate` is that of
one slot. `SlotsInv`: a slot's context is its own index or not set, and the slots up to the
loop's index are filled (`Filled`). `OrderInv`: an AP that is neither untouched nor done is the
one of the loop's index, while the bootstrap processor waits; this is where the blocking
`StartupThisAP` is used, and the mutant that makes it return at once breaks it. `ThreadInv`
then is what a thread has by the progress it has made. `ApMoved` and `BspMoved` say that a
step of one processor keeps the invariant if it keeps that processor's part and leaves the
others alone; the lemma of each action supplies the part.

**Emulation.** What is marked clean is what the processor has: `PatCurrent` and
`SegmentsConsistent` speak of the guest between exits, the invariant of the time after an exit
too. `MapExact` rests on `LookupRebased` (the processor's three vectors are the continuous
numbering of `InternalInitMsrPm`) and `RebasedInjective`; the arithmetic of selectors is in
lemmas of its own (`RplType`, `NextSelector`, `OffsetBelowRpl`). `OffsetsAsserted` shows that no entry of the table fails the assertion of
`AmdIntelEmuDxe.c:558`. For `FaultsAlwaysAccounted` the invariant adds that a guest with nested
paging runs with a legal G_PAT only; a handler that leaves an illegal one has just handled
the write of it (`IllegalGpat`), and nothing but another exit, which needs a running guest,
replaces it.
`TopologyAlwaysAgrees` is an equivalence and has no hypothesis but the width of the fields:
the property holds on a processor if and only if its cores are `Representable`, so it also says
which processors the code describes wrongly. `FrequenciesConsistent` excludes a P-state below
its divisor, for which the code divides by zero, and multipliers that overflow 8 bits.
`DescriptorsAlwaysFit` rests on `PlainQueries`: where the fields of a part are plain numbers, what the
code searches for is what AMD's manual says the part is.

**The search of leaf 2** is a loop over a table, and the theorem an induction over its rows.
The library states induction with an operator as a parameter, which the provers cannot
instantiate; `CpuidProofs` derives it for sets (`Induction`) from `WFMin`, the minimum of a set
under a well-founded relation. The recursive function of the search exists because each of
its beginnings does (`SearchExists`), so it obeys its own recursion (`SearchIsRecursive`).
`BestOf(q, m, d)` is the loop's invariant, and `ScanKeepsBest` its step: rows that fit differ in
one of size and entries only (`BetterIsLarger`), although the code compares both, and
nothing that fits is larger than an exact match (`ExactIsBest`), where the code stops.

**Only model-checked.** Liveness, which is beyond the prover: `StepCompletes`, `Completes`,
`LaunchCompletes`, and of `ImplementsBareMetal` the part that `StepsOfBareMetal` leaves out,
that the guest makes progress; the part itself is `GuestCannotTell`. The five disagreements of section 6 are counterexamples and
need no proof.

## 6. Where code and comments disagree

- `btf`: `Debug.c:104` says "Re-enable BTF if it has been disabled before." The code sets
  `ThreadContext->Btf` instead of the register's bit and writes DEBUGCTL back as it was.
- `queued`: `Handler.c:244-245` announces that the lower priority event is discarded or
  queued. If EXITINTINFO is met first, EVENTINJ is overwritten with it before EVENTINJ is
  queued: the same event is injected and queued, the handler's own is lost.
- `version`: `Dxe/InstructionTests.c:82` asserts that the version register reads as Intel's.
  A handler that interrupts the step of another local APIC access reads the real one. The
  test reads without interference and does not meet this.
- `unmapped`: `VirtualMemory.c:610-611` says the memory used for page tables is unmapped for
  the guest. Each table hides only the pools its own protection pass meets: pools of later
  tables stay mapped in earlier ones, and so does a pool that is allocated while the
  table itself is being protected and linked behind the pools still to be visited.
  `TablesProtected` states what does hold.
- `svmdis`: `Dxe/AmdIntelEmuDxe.c:285` asserts SVMDIS = 0 on every processor about to set
  EFER.SVME. `InternalIsSvmAvailable` clears it on the bootstrap processor only, in a
  register each core has of its own.

What else the models made visible, without a text that says otherwise:

- The interrupt flag: the comment at `Dxe/AmdIntelEmuDxe.c:271` expects `vmrun` to enable
  interrupts again, but RFLAGS is read after `cli`, so IF is 0 in every guest
  (`Saved` in `Launch`).
- Without nested paging the guest's PAT is saved nowhere; it becomes the VMM's.
- `InternalFileMatches` compares the tail of the boot path with itself; any name of the right
  length, or with a separator at the position it looks at, is XNU's (`FileMatches`).
- An access to an MSR outside of the permission map is always intercepted and repeated by
  the VMM, which takes the #GP if the processor lacks it or does not take the value
  (`pc = "crashed"` in `Emulation`).
- A PAT with a reserved memory type, which should raise #GP in the guest, raises it in the VMM
  without nested paging (`Pat.c:61`); with it the thread never enters its guest again
  (`Pat.c:58`, `VmrunInvalid`).
- Leaf 2 takes the encoded associativities of CPUID 80000006 and its units of 512 KB for ways and
  KB (`Leaf2.c:359-397`): the 16-way 2 MB L2 of a Bulldozer becomes descriptor 7DH, 8-way; the 8-way
  512 KB L2 of a Zen, which is exactly descriptor 80H, is not reported; and a direct-mapped TLB
  is reported as fully associative, because `FULLY` is 1. `MCEmulation` states these three cases
  (`EncodedFieldsMisread`), `DescriptorBestFit` what does hold.
- `Handler.c:114` asserts `FALSE` before an instruction is decoded, since RIP is not translated. It is
  reached by every #UD exit and by `cpuid` and MSR exits without NRIP. The Runtime is linked
  with `BaseDebugLibNull` (`AmdXnuSupportPkg.dsc:52-55`), so it does nothing.
- `AmdIntelEmuDxe.c:558` asserts offsets below 2 KB for a map of 6 KB: an intercept of an MSR at
  C0000000H or above would fail it. The table has none (`OffsetAsserted`).
- `sysenter` from compatibility mode leaves CS.L at 0 (`Kernel(FALSE)`), where an Intel
  processor enters 64-bit mode in IA-32e mode.
- A queued external event is overwritten by a second one, and a guest that was being
  single-stepped when an event was queued loses its TF.

## 7. What is not modelled

- The INIT exit, which ends the thread, logging and sanity-check assertions. Those of the Runtime
  are not even compiled in (`BaseDebugLibNull`); an unknown exit code appears where the
  code's own doing leads to it, as `VmrunInvalid`.
- Register contents that no property tells apart: `cpuid` and `rdmsr` results the Runtime
  passes on, segment limits and types, error codes.
- More than one MMIO range: `MmioHandlerMap.c` lists one.
- DR6 and debug-register caching (the clean bit of the debug registers).
- The loading of the Runtime image, which the code does not contain (TODO), and the contents
  of the segment descriptors and the local APIC timer that the launch sets up.
- The rest of `LocalApic.c`: single reads and writes of device registers, without state of
  the program's own. The functions of MpInitLib without a caller.
- `Runtime/hde` (third-party; `VmExit` and `Emulation` take the decoded instruction as an
  input), the self-tests (their assertions are properties).

## Running

    tlc -config MCVmExit_events.cfg MCVmExit.tla
    tlc -config MCPageTables_tables.cfg MCPageTables.tla
    tlc -config MCLaunch_launch.cfg MCLaunch.tla
    tlc -config MCEmulation_emulation.cfg MCEmulation.tla
    tlapm VmExitProofs.tla
    tlapm PageTablesProofs.tla
    tlapm LaunchProofs.tla
    tlapm EmulationProofs.tla
    tlapm SteppingProofs.tla
    tlapm RefinementProofs.tla
    tlapm ProtectionProofs.tla
    tlapm CpuidProofs.tla
