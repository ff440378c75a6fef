------------------------------ MODULE GuestCode ------------------------------
(***************************************************************************)
(* What one logical thread of the guest may execute, shared by BareMetal   *)
(* (the machine the guest believes in) and VmExit (the machine it has).    *)
(* An instruction is the class the runtime tells apart:                    *)
(*   plain          touches nothing that is intercepted                    *)
(*   popf           toggles the guest's own RFLAGS.TF (guest debugger)     *)
(*   iret           returns from an interrupt or exception handler         *)
(*   version, lapic an MMIO access to the local APIC version register, to  *)
(*                  any other register of the same page                    *)
(*   cpuid, msr     intercepted and emulated, RIP is advanced              *)
(*   ud             an opcode ExceptionUd does not emulate                 *)
(*   sys, sysGp     sysenter/sysexit that is emulated, that raises #GP     *)
(*   vmrun          intercepted, answered with #UD                         *)
(***************************************************************************)
EXTENDS Naturals, Sequences

CONSTANTS
  Insns,     \* the classes this guest uses
  MaxDepth   \* bound: nested interrupt/exception frames on the guest's stack

AllInsns == {"plain", "popf", "iret", "version", "lapic", "cpuid", "msr",
             "ud", "sys", "sysGp", "vmrun"}

ASSUME InsnsAssumption    == Insns \subseteq AllInsns /\ {"plain", "iret"} \subseteq Insns
ASSUME MaxDepthAssumption == MaxDepth \in Nat \ {0}

LapicRegs == Insns \cap {"version", "lapic"}

\* Every access reaches one of two physical pages: the local APIC, or the page
\* that holds a copy of the version register with Intel's version number.
Pages == {"lapic", "version"}

\* The page whose content an Intel machine would show.
IntelPage(reg) == IF reg = "version" THEN "version" ELSE "lapic"

\* Code running at the bottom has nothing to return to; at the bound the only
\* thing left is to return.
NextInsn(depth) ==
  IF depth = 0 THEN Insns \ {"iret"}
  ELSE IF depth < MaxDepth THEN Insns ELSE {"iret"}

\* What runs after an iret from the innermost frame: the interrupted
\* instruction, or another one if the handler of a fault moved the return address.
ReturnsTo(frames) ==
  LET top == frames[Len(frames)]
  IN  {top.insn} \cup
        IF top.cause \in {"UD", "GP"} THEN NextInsn(Len(frames) - 1) ELSE {}

Pop(frames) == SubSeq(frames, 1, Len(frames) - 1)
=============================================================================
