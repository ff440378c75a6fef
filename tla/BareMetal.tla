------------------------------ MODULE BareMetal ------------------------------
(***************************************************************************)
(* The abstract specification of the virtualised thread: one logical       *)
(* thread of an Intel machine, without any hypervisor.  Instructions are   *)
(* atomic, an access to the local APIC version register shows the Intel    *)
(* version page and any other access the real local APIC, a single-step    *)
(* trap (#DB) is taken exactly after an instruction that started with the  *)
(* guest's own TF set, and interrupts may arrive between instructions.     *)
(* VmExit implements this specification.                                   *)
(***************************************************************************)
EXTENDS GuestCode

VARIABLES
  insn,    \* the instruction at RIP
  frames,  \* the stack of interrupted contexts
  tf,      \* RFLAGS.TF
  trap,    \* a single-step trap is pending
  seen     \* the last local APIC access: its register, the page that
           \* answered, and a bit that tells it from the access before

vars == <<insn, frames, tf, trap, seen>>

Causes == {"DB", "UD", "GP", "other"}

Init ==
  /\ insn \in NextInsn(0)
  /\ frames = << >>
  /\ tf = FALSE
  /\ trap = FALSE
  /\ seen = [reg |-> "lapic", page |-> "lapic", odd |-> FALSE]

\* Deliver an event through the IDT.
Push(cause) ==
  /\ Len(frames) < MaxDepth
  /\ frames' = Append(frames, [tf |-> tf, insn |-> insn, cause |-> cause])
  /\ tf' = FALSE
  /\ insn' \in NextInsn(Len(frames'))
  /\ trap' = FALSE
  /\ UNCHANGED seen

Interrupt == ~trap /\ Push("other")

DebugTrap == trap /\ Push("DB")

Fault ==
  /\ ~trap
  /\ \/ insn \in {"ud", "vmrun"} /\ Push("UD")
     \/ insn = "sysGp" /\ Push("GP")

Retire ==
  /\ ~trap
  /\ trap' = tf
  /\ insn' \in NextInsn(Len(frames'))

Access ==
  /\ insn \in LapicRegs
  /\ seen' = [reg |-> insn, page |-> IntelPage(insn), odd |-> ~seen.odd]
  /\ UNCHANGED <<frames, tf>>
  /\ Retire

PopTf ==
  /\ insn = "popf"
  /\ tf' = ~tf
  /\ UNCHANGED <<frames, seen>>
  /\ Retire

Iret ==
  /\ ~trap
  /\ insn = "iret"
  /\ frames # << >>
  /\ tf' = frames[Len(frames)].tf
  /\ frames' = Pop(frames)
  /\ trap' = tf
  /\ insn' \in ReturnsTo(frames)
  /\ UNCHANGED seen

Other ==
  /\ insn \in {"plain", "cpuid", "msr", "sys"}
  /\ UNCHANGED <<frames, tf, seen>>
  /\ Retire

Next == Interrupt \/ DebugTrap \/ Fault \/ Access \/ PopTf \/ Iret \/ Other

\* The machine without any promise of progress.
Safety == Init /\ [][Next]_vars

\* Pending traps, faults, returns and local APIC accesses happen.  (A loop of
\* other instructions is a stuttering step here.)
Fairness == WF_vars(DebugTrap \/ Fault \/ Access \/ Iret)

Spec == Safety /\ Fairness
=============================================================================
