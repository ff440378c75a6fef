-------------------------- MODULE VmExitRefinement --------------------------
(***************************************************************************)
(* VmExit implements BareMetal: as long as no event reaches the guest      *)
(* while a step is armed, the guest cannot tell the runtime from an Intel  *)
(* machine by the page its local APIC accesses reach, by the traps it      *)
(* takes, by the RFLAGS.TF of any of its contexts or by its progress.      *)
(***************************************************************************)
EXTENDS VmExit

\* A single-step trap the guest itself asked for: raised by the CPU and not
\* intercepted, or on its way through ExceptionDebug into EVENTINJ.
GuestTrap ==
  \/ trap /\ (hwI.db => thr.ssTf)
  \/ exit.code = "DB" /\ thr.ssTf
  \/ thr.eventInj = DebugException

GuestFrames ==
  [i \in 1..Len(frames) |->
     [tf |-> frames[i].want, insn |-> frames[i].insn, cause |-> frames[i].cause]]

Intel == INSTANCE BareMetal WITH frames <- GuestFrames, tf <- want, trap <- GuestTrap

\* What relates the TF the CPU uses to the one the guest set: they agree in
\* every context but the one being stepped, whose own TF is in SsTf, and
\* branch stepping never hides a trap the guest asked for.
FlagsInv ==
  /\ "popf" \in Insns => ~thr.msrBtf
  /\ "popf" \notin Insns => ~want /\ \A i \in 1..Len(frames) : ~frames[i].want
  /\ \A i \in 1..Len(frames) : frames[i].tf = frames[i].want
  /\ IF thr.interceptDb
     THEN thr.ssTf = want /\ (thr.resume = "NpfPostStep" => thr.tf)
     ELSE thr.tf = want

\* The guest starts as on the bare machine, and each step of the thread is one
\* of that machine's or changes nothing the guest can see.
StepsOfBareMetal == Intel!Safety

\* The refinement, with the progress of the guest's instructions.
ImplementsBareMetal == Intel!Spec
=============================================================================
