-------------------------- MODULE RefinementProofs --------------------------
(***************************************************************************)
(* VmExit implements BareMetal, step by step: every behaviour of the       *)
(* virtualised thread starts as the bare machine does, and each of its     *)
(* steps is a step of that machine or changes nothing the guest can see.   *)
(* The progress the refinement also claims (Intel!Fairness) is left to TLC. *)
(***************************************************************************)
EXTENDS VmExitRefinement, SteppingProofs

\* The environments in which the guest cannot tell the difference.  Nothing
\* reaches it in a step; the only #DB, #UD and #GP are those of its own
\* instructions; and a guest that single-steps itself has BTF clear, uses no
\* instruction whose emulation completes it, and has nothing queued and no
\* machine check interrupted.
IntelEnv ==
  /\ ~AsyncInStep
  /\ VectoringInfo \cap {DebugException, InvalidOpcode, GpFault} = {}
  /\ "popf" \in Insns =>
       /\ ~GuestBtf
       /\ Insns \cap {"cpuid", "msr", "sys"} = {}
       /\ \A e \in VectoringInfo : ~IsExternal(e) /\ e.vector # 18

\* What its flags need of that: nothing reaches the guest in a step, and if it
\* single-steps itself it has BTF clear and nothing queued.
FlagsEnv ==
  /\ ~AsyncInStep
  /\ "popf" \in Insns => ~GuestBtf /\ \A e \in VectoringInfo : ~IsExternal(e)

LEMMA IntelEnvKeepsFlags == IntelEnv => FlagsEnv
  BY DEF IntelEnv, FlagsEnv

-----------------------------------------------------------------------------
(* The guest's own TF. *)

\* What the environment means for a guest that single-steps itself.
LEMMA SelfStepping ==
  ASSUME FlagsEnv, IInv, "popf" \in Insns
  PROVE  /\ ~IsExternal(exit.info)
         /\ thr.resume # "IretTfIntercept" /\ exit.code # "IRET"
<1>1. exit.info \in VectoringInfo \cup {NoEvent}
  BY DEF IInv, TypeOK
<1>2. ~IsExternal(exit.info)
  BY <1>1, EventsDiffer DEF FlagsEnv
<1>3. thr.queueEvent = Garbage
  BY DEF FlagsEnv, IInv, ThreadInv
<1> QED
  BY <1>2, <1>3 DEF IInv, ThreadInv, ExitsIntercepted

\* The guest starts with TF clear, and with BTF clear if it single-steps itself.
LEMMA InitFlagsInv == FlagsEnv /\ Init => FlagsInv
<1> SUFFICES ASSUME FlagsEnv, Init PROVE FlagsInv
  OBVIOUS
<1>1. ~thr.interceptDb /\ thr.tf = FALSE /\ thr.msrBtf = GuestBtf
  BY DEF Init
<1>2. frames = << >> /\ want = FALSE
  BY DEF Init
<1>3. \A i \in 1..Len(frames) : FALSE
  BY <1>2
<1> QED
  BY <1>1, <1>2, <1>3 DEF FlagsInv, FlagsEnv

\* The handlers put the guest's TF aside when they arm a step and back when it
\* is over.
LEMMA HandleExitFlagsInv ==
  ASSUME FlagsEnv, IInv, ExitInv, StepInv, FlagsInv, HandleExit
  PROVE  FlagsInv'
<1>1. Entered(thr, exit, insn) /\ thr' = InterceptionHandler(thr, exit, insn)
  BY DEF IInv, TypeOK, ExitsIntercepted, HandleExit, Entered
<1>2. /\ exit # NoExit /\ want' = want /\ frames' = frames
      /\ exit.code \in Codes /\ want \in BOOLEAN
      /\ exit.code \in {"NPF", "IRET"} => exit.info = NoEvent
  <2>1. exit.code \in Codes \cup {"none"}
    BY DEF IInv, TypeOK
  <2> QED
    BY <2>1 DEF ExitInv, HandleExit, IInv, TypeOK, MayInterrupt, FlagsEnv
<1>3. ~IsExternal(NoEvent)
  BY EventsDiffer
<1>4. thr' \in ThreadState
  BY <1>1, HandlerEffect DEF ThreadInv
<1>5. thr.tf \in BOOLEAN /\ thr'.tf \in BOOLEAN /\ thr.ssTf \in BOOLEAN
  BY <1>4 DEF IInv, TypeOK, ThreadState
<1>6. CASE exit.code = "NPF"
  <2>1. ~thr.interceptDb
    BY <1>2, <1>6 DEF StepInv
  <2>2. thr'.interceptDb /\ thr'.ssTf = thr.tf /\ ~thr'.msrBtf /\ thr'.tf
    BY <1>1, <1>2, <1>3, <1>6, NpfEffect
  <2> QED
    BY <1>2, <2>1, <2>2 DEF FlagsInv
<1>7. CASE exit.code = "IRET"
  <2>1. ~thr.interceptDb
    BY <1>2, <1>7 DEF StepInv
  <2>2. /\ thr'.interceptDb /\ thr'.ssTf = thr.tf /\ ~thr'.msrBtf
        /\ thr'.resume = "IretTfIntercept"
    BY <1>1, <1>2, <1>3, <1>7, IretEffect
  <2> QED
    BY <1>2, <2>1, <2>2 DEF FlagsInv
<1>8. CASE exit.code = "DB"
  <2>1. /\ thr.resume \in {"NpfPostStep", "IretTfIntercept"}
        /\ thr.interceptDb /\ thr.ssTf = want
    BY <1>8 DEF IInv, TypeOK, ThreadState, ThreadInv, ExitsIntercepted, FlagsInv
  <2>2. CASE thr.resume = "NpfPostStep"
    <3>1. /\ ~thr'.interceptDb /\ thr'.msrBtf = thr.msrBtf
          /\ thr.ssTf /\ ~IsExternal(exit.info) => thr'.tf = thr.tf
          /\ ~thr.ssTf => ~thr'.tf
      BY <1>1, <1>8, <2>2, DebugNpfEffect
    <3>2. thr.tf /\ (want => ~IsExternal(exit.info))
      BY <2>1, <2>2, SelfStepping DEF FlagsInv
    <3>3. thr'.tf = want
      BY <1>2, <1>5, <2>1, <3>1, <3>2
    <3> QED
      BY <1>2, <3>1, <3>3 DEF FlagsInv
  <2>3. CASE thr.resume = "IretTfIntercept"
    <3>1. "popf" \notin Insns /\ ~want
      BY <2>3, SelfStepping DEF FlagsInv
    <3>2. ~thr'.interceptDb /\ ~thr'.tf
      BY <1>1, <1>8, <2>1, <2>3, <3>1, DebugIretEffect
    <3> QED
      BY <1>2, <1>5, <3>1, <3>2 DEF FlagsInv
  <2> QED
    BY <2>1, <2>2, <2>3
<1>9. CASE exit.code \in {"UD", "CPUID", "MSR", "VMRUN"}
  <2>1. ~thr.interceptDb /\ thr.tf = want
    BY <1>2, <1>9 DEF StepInv, FlagsInv
  <2>2. /\ Rest(thr') = Rest(thr)
        /\ thr'.tf = thr.tf \/ (~thr'.tf /\ IsExternal(exit.info))
    BY <1>1, <1>9, EmulationEffect
  <2>3. thr'.interceptDb = thr.interceptDb /\ thr'.msrBtf = thr.msrBtf
    BY <2>2, SMT DEF Rest
  <2>4. IsExternal(exit.info) => ~want
    BY SelfStepping DEF FlagsInv
  <2>5. thr'.tf = want
    BY <1>2, <1>5, <2>1, <2>2, <2>4
  <2> QED
    BY <1>2, <2>1, <2>3, <2>5 DEF FlagsInv
<1> QED
  BY <1>2, <1>6, <1>7, <1>8, <1>9 DEF Codes

\* An event is delivered between steps, to a context whose TF is the guest's.
LEMMA DeliverFlagsInv ==
  ASSUME IInv, FlagsInv, NEW event, Deliver(event), ~thr.interceptDb
  PROVE  FlagsInv'
<1>1. /\ thr'.interceptDb = thr.interceptDb /\ ~thr'.tf
      /\ thr'.msrBtf => thr.msrBtf
      /\ ~want'
  BY DeliverEffect
<1>2. /\ Len(frames) \in Nat /\ Len(frames') = Len(frames) + 1
      /\ \A i \in 1..Len(frames) : frames'[i] = frames[i]
      /\ frames'[Len(frames) + 1] =
           [tf |-> thr.tf, want |-> want, insn |-> insn, cause |-> Cause(event)]
  BY DeliverEffect
<1> DEFINE n == Len(frames) + 1
<1>3. /\ \A i \in 1..Len(frames') : i \in 1..Len(frames) \/ i = n
      /\ frames'[n].tf = thr.tf /\ frames'[n].want = want
  BY <1>2
<1>4. thr.tf = want /\ ("popf" \notin Insns => ~want)
  BY DEF FlagsInv
<1> HIDE DEF n
<1>5. \A i \in 1..Len(frames') : /\ frames'[i].tf = frames'[i].want
                                 /\ "popf" \notin Insns => ~frames'[i].want
  BY <1>2, <1>3, <1>4 DEF FlagsInv
<1>6. thr'.tf = want'
  <2>1. thr'.tf \in BOOLEAN /\ want' \in BOOLEAN
    BY DeliverKeeps DEF IInv, TypeOK, ThreadState
  <2> QED
    BY <1>1, <2>1
<1> QED
  BY <1>1, <1>5, <1>6 DEF FlagsInv

\* A return takes the interrupted context's TF, guest's and runtime's alike.
LEMMA IretFlagsInv ==
  ASSUME FlagsEnv, IInv, StepInv, FlagsInv, Iret
  PROVE  FlagsInv'
<1>0. thr \in ThreadState /\ frames \in Seq(Frame) /\ hwI.iret = thr.interceptIret
  BY DEF IInv, TypeOK, InterceptsCurrent
<1>1. CASE hwI.iret
  BY <1>1 DEF Iret, VmExit, FlagsInv
<1>2. CASE ~hwI.iret
  <2> DEFINE n == Len(frames)
  <2>1. /\ thr' = [thr EXCEPT !.tf = frames[n].tf] /\ want' = frames[n].want
        /\ frames' = Pop(frames) /\ frames # << >>
        /\ exit = NoExit /\ ~trap /\ insn = "iret"
    BY <1>2 DEF Iret, Running
  <2>2. /\ n \in 1..n
        /\ \A i \in 1..Len(frames') : frames'[i] = frames[i] /\ i \in 1..n
    BY <1>0, <2>1, PopEffect
  <2>3. frames[n].tf = frames[n].want /\ ("popf" \notin Insns => ~frames[n].want)
    BY <2>2 DEF FlagsInv
  <2>4. \A i \in 1..Len(frames') : /\ frames'[i].tf = frames'[i].want
                                   /\ "popf" \notin Insns => ~frames'[i].want
    BY <2>2 DEF FlagsInv
  <2> HIDE DEF n
  <2>5. /\ thr'.interceptDb = thr.interceptDb /\ thr'.msrBtf = thr.msrBtf
        /\ thr'.ssTf = thr.ssTf /\ thr'.resume = thr.resume
        /\ thr'.tf = frames[n].tf
    BY <1>0, <2>1, SMT DEF ThreadState
  <2>6. CASE thr.interceptDb
    <3>1. thr.resume = "IretTfIntercept"
      BY <2>1, <2>6 DEF StepInv, LapicRegs
    <3>2. "popf" \notin Insns
      BY <3>1, SelfStepping
    <3>3. thr.ssTf = want /\ ~want /\ ~want' /\ want \in BOOLEAN /\ want' \in BOOLEAN
      <4>1. ~frames[n].want /\ frames[n] \in Frame
        BY <1>0, <2>2, <2>3, <3>2 DEF n
      <4>2. frames[n].want \in BOOLEAN
        BY <4>1, Zenon DEF Frame
      <4>3. want \in BOOLEAN /\ thr.ssTf = want /\ ~want
        BY <2>6, <3>2 DEF FlagsInv, IInv, TypeOK
      <4> QED
        BY <2>1, <4>1, <4>2, <4>3, Zenon
    <3>4. want' = want
      BY <3>3
    <3>5. thr'.ssTf = want' /\ thr'.resume # "NpfPostStep"
      BY <2>5, <3>1, <3>3, <3>4
    <3>6. thr'.interceptDb
      BY <2>5, <2>6
    <3> QED
      BY <2>4, <3>2, <3>3, <3>5, <3>6 DEF FlagsInv
  <2>7. CASE ~thr.interceptDb
    BY <2>1, <2>3, <2>4, <2>5, <2>7 DEF FlagsInv
  <2> QED
    BY <2>6, <2>7
<1> QED
  BY <1>1, <1>2

\* Every step preserves FlagsInv.
LEMMA NextFlagsInv ==
  ASSUME FlagsEnv
  PROVE  IInv /\ ExitInv /\ StepInv /\ FlagsInv /\ [Next]_vars => FlagsInv'
<1> SUFFICES ASSUME IInv, ExitInv, StepInv, FlagsInv, [Next]_vars PROVE FlagsInv'
  OBVIOUS
<1>0. /\ hwI.db = thr.interceptDb /\ thr \in ThreadState /\ insn \in Insns
      /\ want \in BOOLEAN
  BY DEF IInv, TypeOK, InterceptsCurrent
<1>1. CASE HandleExit
  BY <1>1, HandleExitFlagsInv
<1>2. CASE Interrupt
  BY <1>2, DeliverFlagsInv DEF Interrupt, FlagsEnv
<1>3. CASE InjectEvent
  BY <1>3, DeliverFlagsInv DEF InjectEvent, StepInv
<1>4. CASE DebugTrap
  <2>1. CASE hwI.db
    <3>1. /\ thr' = [thr EXCEPT !.bs = TRUE] /\ UNCHANGED <<frames, want>>
      BY <1>4, <2>1 DEF DebugTrap, VmExit
    <3>2. /\ thr'.interceptDb = thr.interceptDb /\ thr'.msrBtf = thr.msrBtf
          /\ thr'.ssTf = thr.ssTf /\ thr'.resume = thr.resume
          /\ thr'.tf = thr.tf
      BY <1>0, <3>1, SMT DEF ThreadState
    <3> QED
      BY <3>1, <3>2 DEF FlagsInv
  <2>2. CASE ~hwI.db
    BY <1>0, <1>4, <2>2, DeliverFlagsInv DEF DebugTrap
  <2> QED
    BY <2>1, <2>2
<1>5. CASE Access
  BY <1>5 DEF Access, VmExit, FlagsInv
<1>6. CASE PopTf
  <2>1. /\ thr' = [thr EXCEPT !.tf = ~want] /\ want' = ~want /\ frames' = frames
        /\ insn = "popf" /\ exit = NoExit /\ ~trap
    BY <1>6 DEF PopTf, Running
  <2>2. ~thr.interceptDb
    BY <2>1 DEF StepInv, LapicRegs
  <2>3. /\ thr'.interceptDb = thr.interceptDb /\ thr'.msrBtf = thr.msrBtf
    BY <1>0, <2>1, SMT DEF ThreadState
  <2>4. thr'.tf = want'
    BY <1>0, <2>1, Zenon DEF ThreadState
  <2>5. "popf" \in Insns
    BY <1>0, <2>1
  <2> QED
    BY <2>1, <2>2, <2>3, <2>4, <2>5 DEF FlagsInv
<1>7. CASE Iret
  BY <1>7, IretFlagsInv
<1>8. CASE Plain
  BY <1>8 DEF Plain, FlagsInv
<1>9. CASE Intercepted
  BY <1>9 DEF Intercepted, VmExit, FlagsInv
<1>10. CASE UNCHANGED vars
  BY <1>10 DEF vars, FlagsInv
<1> QED
  BY <1>1, <1>2, <1>3, <1>4, <1>5, <1>6, <1>7, <1>8, <1>9, <1>10 DEF Next, Guest

\* TF is the guest's own in every context but the one being stepped, and that one's
\* is kept in SsTf (SingleStepRip and ExceptionDebug of Debug.c).  FlagsEnv is assumed:
\* nothing reaches the guest in a step, and a guest that changes TF itself (popf) has
\* DEBUGCTL.BTF clear and no external event whose delivery an exit cuts off.
THEOREM GuestFlagsKept == FlagsEnv => (Spec => []FlagsInv)
<1> SUFFICES ASSUME FlagsEnv PROVE Spec => []FlagsInv
  OBVIOUS
<1>1. Init => FlagsInv
  BY InitFlagsInv
<1>2. IInv /\ ExitInv /\ StepInv /\ FlagsInv /\ [Next]_vars => FlagsInv'
  BY NextFlagsInv
<1>3. Spec => []StepInv
  <2>1. ~AsyncInStep
    BY DEF FlagsEnv
  <2> QED
    BY <2>1, StepsWellFormed, PTL
<1> QED
  BY <1>1, <1>2, <1>3, InductiveInvariant, ExitsMatchInstruction, PTL DEF Spec

-----------------------------------------------------------------------------
(* The stack the guest sees. *)

\* GuestFrames follows the stack frame by frame.
LEMMA GuestFramesFacts ==
  ASSUME IInv
  PROVE  /\ Len(frames) \in Nat /\ Len(GuestFrames) = Len(frames)
         /\ GuestFrames = << >> <=> frames = << >>
         /\ \A i \in 1..Len(frames) :
              GuestFrames[i] = [tf |-> frames[i].want, insn |-> frames[i].insn,
                                cause |-> frames[i].cause]
<1>1. Len(frames) \in Nat /\ frames \in Seq(Frame)
  BY DEF IInv, TypeOK
<1>2. Len(GuestFrames) = Len(frames)
  BY <1>1 DEF GuestFrames
<1>3. GuestFrames = << >> <=> frames = << >>
  BY <1>1, <1>2 DEF GuestFrames
<1> QED
  BY <1>1, <1>2, <1>3 DEF GuestFrames

\* Delivery pushes the same frame on both.
LEMMA GuestFramesPush ==
  ASSUME IInv, NEW event, Deliver(event)
  PROVE  /\ Len(GuestFrames') = Len(frames')
         /\ GuestFrames' = Append(GuestFrames, [tf |-> want, insn |-> insn,
                                                cause |-> Cause(event)])
<1> DEFINE n == Len(frames)
           top == [tf |-> want, insn |-> insn, cause |-> Cause(event)]
<1>1. /\ n \in Nat /\ Len(frames') = n + 1
      /\ \A i \in 1..n : frames'[i] = frames[i]
      /\ frames'[n + 1] =
           [tf |-> thr.tf, want |-> want, insn |-> insn, cause |-> Cause(event)]
  BY DeliverEffect
<1>2. Len(GuestFrames) = n
  BY GuestFramesFacts
<1>3. GuestFrames' = [i \in 1..(n + 1) |-> IF i = n + 1 THEN top ELSE GuestFrames[i]]
  <2>1. \A i \in 1..(n + 1) :
          [tf |-> frames'[i].want, insn |-> frames'[i].insn,
           cause |-> frames'[i].cause] = IF i = n + 1 THEN top ELSE GuestFrames[i]
    <3> SUFFICES ASSUME NEW i \in 1..(n + 1)
                 PROVE  [tf |-> frames'[i].want, insn |-> frames'[i].insn,
                         cause |-> frames'[i].cause]
                          = IF i = n + 1 THEN top ELSE GuestFrames[i]
      OBVIOUS
    <3>1. CASE i = n + 1
      BY <1>1, <3>1
    <3>2. CASE i # n + 1
      <4>1. i \in 1..n
        BY <1>1, <3>2
      <4>2. GuestFrames[i] = [tf |-> frames[i].want, insn |-> frames[i].insn,
                              cause |-> frames[i].cause]
        BY <4>1, GuestFramesFacts
      <4> QED
        BY <1>1, <3>2, <4>1, <4>2
    <3> QED
      BY <3>1, <3>2
  <2> QED
    BY <1>1, <2>1 DEF GuestFrames
<1>4. GuestFrames \in Seq({GuestFrames[i] : i \in 1..n})
  BY <1>1, <1>2 DEF GuestFrames
<1>5. Append(GuestFrames, top)
        = [i \in 1..(n + 1) |-> IF i = n + 1 THEN top ELSE GuestFrames[i]]
  BY <1>2, <1>4
<1> QED
  BY <1>1, <1>3, <1>5 DEF GuestFrames

\* A return pops the same frame from both, and leads to the same code.
LEMMA GuestFramesPop ==
  ASSUME IInv, frames # << >>, frames' = Pop(frames)
  PROVE  /\ Len(GuestFrames) \in 1..Len(frames)
         /\ GuestFrames[Len(GuestFrames)].tf = frames[Len(frames)].want
         /\ GuestFrames' = Intel!Pop(GuestFrames)
         /\ Intel!ReturnsTo(GuestFrames) = ReturnsTo(frames)
<1> DEFINE n == Len(frames)
<1>1. /\ n \in Nat \ {0} /\ Len(frames') = n - 1
      /\ \A i \in 1..(n - 1) : frames'[i] = frames[i]
  BY PopEffect DEF IInv, TypeOK
<1>2. /\ Len(GuestFrames) = n
      /\ \A i \in 1..n :
           GuestFrames[i] = [tf |-> frames[i].want, insn |-> frames[i].insn,
                             cause |-> frames[i].cause]
  BY GuestFramesFacts
<1>3. GuestFrames' = [i \in 1..(n - 1) |-> GuestFrames[i]]
  BY <1>1, <1>2 DEF GuestFrames
<1>4. SubSeq(GuestFrames, 1, n - 1) = [i \in 1..(n - 1) |-> GuestFrames[i]]
  BY <1>1, <1>2 DEF GuestFrames
<1>5. GuestFrames' = Intel!Pop(GuestFrames)
  BY <1>2, <1>3, <1>4 DEF Intel!Pop
<1>6. Intel!NextInsn(n - 1) = NextInsn(n - 1)
  BY DEF NextInsn, Intel!NextInsn
<1>7. /\ Len(GuestFrames) = n /\ n \in 1..n
      /\ GuestFrames[n].insn = frames[n].insn
      /\ GuestFrames[n].cause = frames[n].cause
      /\ GuestFrames[n].tf = frames[n].want
  <2>1. n \in 1..n
    BY <1>1
  <2>2. GuestFrames[n] = [tf |-> frames[n].want, insn |-> frames[n].insn,
                          cause |-> frames[n].cause]
    BY <1>2, <2>1, Zenon
  <2> QED
    BY <1>2, <2>1, <2>2
<1>8. Intel!ReturnsTo(GuestFrames) = ReturnsTo(frames)
  BY <1>6, <1>7, Zenon DEF ReturnsTo, Intel!ReturnsTo
<1> QED
  BY <1>5, <1>7, <1>8, Zenon

-----------------------------------------------------------------------------
(* Each step of the thread is a step of the bare machine, or invisible. *)

IntelStep == [Intel!Next]_(Intel!vars)

\* Both machines run the same instructions at a depth.
LEMMA SameInsns ==
  /\ Intel!LapicRegs = LapicRegs
  /\ \A depth : Intel!NextInsn(depth) = NextInsn(depth)
  /\ \A reg : Intel!IntelPage(reg) = IntelPage(reg)
BY DEF LapicRegs, NextInsn, IntelPage, Intel!LapicRegs, Intel!NextInsn, Intel!IntelPage

\* What the guest cannot see.
LEMMA Invisible ==
  ASSUME UNCHANGED <<insn, frames, want, seen>>, GuestTrap' <=> GuestTrap
  PROVE  IntelStep
<1>1. GuestTrap' = GuestTrap
  BY DEF GuestTrap
<1>2. GuestFrames' = GuestFrames
  BY DEF GuestFrames
<1> QED
  BY <1>1, <1>2 DEF IntelStep, Intel!vars

\* A guest that runs, or whose event is about to be injected, sees the pending
\* trap unless the runtime is waiting for it.
LEMMA RunningTrap ==
  ASSUME exit = NoExit, thr.eventInj # DebugException
  PROVE  GuestTrap <=> trap /\ (hwI.db => thr.ssTf)
BY DEF GuestTrap, NoExit

\* Delivery through the guest's IDT is delivery on the bare machine.
LEMMA DeliverImplements ==
  ASSUME IInv, exit = NoExit, NEW event, Deliver(event)
  PROVE  Intel!Push(Cause(event))
<1>1. /\ Len(GuestFrames) = Len(frames) /\ Len(GuestFrames') = Len(frames')
      /\ GuestFrames' = Append(GuestFrames, [tf |-> want, insn |-> insn,
                                             cause |-> Cause(event)])
  BY GuestFramesFacts, GuestFramesPush
<1>2. /\ Len(frames) < MaxDepth /\ want' = FALSE /\ UNCHANGED seen
      /\ insn' \in NextInsn(Len(frames'))
  BY DEF Deliver
<1>3. GuestTrap' = FALSE
  <2>1. ~trap' /\ exit' = NoExit /\ thr'.eventInj = NoEvent
    BY DeliverEffect
  <2> QED
    BY <2>1, EventsDiffer DEF GuestTrap, NoExit
<1> QED
  BY <1>1, <1>2, <1>3, SameInsns DEF Intel!Push

\* A #DB of the guest's own is its trap; the fault of the instruction at RIP is
\* that fault; any other event is an interrupt.
LEMMA InjectEventImplements ==
  ASSUME IntelEnv, IInv, ExitInv, InjectEvent
  PROVE  IntelStep
<1>1. /\ exit = NoExit /\ thr.eventInj # NoEvent /\ ~trap
      /\ Intel!Push(Cause(thr.eventInj))
  BY DeliverImplements DEF InjectEvent, ExitInv
<1>2. CASE thr.eventInj = DebugException
  <2>1. GuestTrap /\ Cause(thr.eventInj) = "DB"
    BY <1>2, EventsDiffer DEF GuestTrap, Cause
  <2> QED
    BY <1>1, <2>1 DEF IntelStep, Intel!Next, Intel!DebugTrap
<1>3. CASE thr.eventInj # DebugException
  <2>1. ~GuestTrap
    BY <1>1, <1>3, RunningTrap
  <2>2. CASE thr.eventInj = InvalidOpcode
    <3>1. insn \in {"ud", "vmrun"} /\ Cause(thr.eventInj) = "UD"
      BY <2>2, EventsDiffer DEF ExitInv, IntelEnv, Cause
    <3> QED
      BY <1>1, <2>1, <3>1 DEF IntelStep, Intel!Next, Intel!Fault
  <2>3. CASE thr.eventInj = GpFault
    <3>1. insn = "sysGp" /\ Cause(thr.eventInj) = "GP"
      BY <2>3, EventsDiffer DEF ExitInv, IntelEnv, Cause
    <3> QED
      BY <1>1, <2>1, <3>1 DEF IntelStep, Intel!Next, Intel!Fault
  <2>4. CASE thr.eventInj \notin {InvalidOpcode, GpFault}
    <3>1. Cause(thr.eventInj) = "other"
      BY <1>3, <2>4 DEF Cause
    <3> QED
      BY <1>1, <2>1, <3>1 DEF IntelStep, Intel!Next, Intel!Interrupt
  <2> QED
    BY <2>2, <2>3, <2>4
<1> QED
  BY <1>2, <1>3

\* A physical interrupt is an interrupt.
LEMMA InterruptImplements ==
  ASSUME IInv, Interrupt
  PROVE  IntelStep
<1>1. exit = NoExit /\ thr.eventInj = NoEvent /\ ~trap
  BY DEF Interrupt, Running
<1>2. ~GuestTrap
  BY <1>1, RunningTrap, EventsDiffer
<1>3. Cause([type |-> "INTR", vector |-> 32]) = "other"
  BY EventsDiffer DEF Cause
<1>4. Intel!Push("other")
  BY <1>1, <1>3, DeliverImplements DEF Interrupt
<1> QED
  BY <1>2, <1>4 DEF IntelStep, Intel!Next, Intel!Interrupt

\* A trap the runtime waits for is invisible until it is handled; any other is
\* the guest's.
LEMMA DebugTrapImplements ==
  ASSUME IInv, DebugTrap
  PROVE  IntelStep
<1>1. exit = NoExit /\ thr.eventInj = NoEvent /\ trap
  BY DEF DebugTrap, Running
<1>2. GuestTrap <=> (hwI.db => thr.ssTf)
  BY <1>1, RunningTrap, EventsDiffer
<1>3. CASE hwI.db
  <2>1. /\ thr' = [thr EXCEPT !.bs = TRUE] /\ ~trap'
        /\ exit'.code = "DB" /\ UNCHANGED <<hwI, insn, frames, seen, want>>
    BY <1>3 DEF DebugTrap, VmExit
  <2>2. thr'.ssTf = thr.ssTf /\ thr'.eventInj = NoEvent
    BY <1>1, <2>1, SMT DEF IInv, TypeOK, ThreadState
  <2>3. GuestTrap' <=> thr.ssTf
    BY <2>1, <2>2, EventsDiffer DEF GuestTrap
  <2> QED
    BY <1>2, <1>3, <2>1, <2>3, Invisible
<1>4. CASE ~hwI.db
  <2>1. Intel!Push("DB")
    <3>1. Cause(DebugException) = "DB"
      BY EventsDiffer DEF Cause
    <3> QED
      BY <1>1, <1>4, <3>1, DeliverImplements DEF DebugTrap
  <2> QED
    BY <1>2, <1>4, <2>1 DEF IntelStep, Intel!Next, Intel!DebugTrap
<1> QED
  BY <1>3, <1>4

\* A local APIC access reaches the page an Intel machine would show, however
\* many exits it takes, and ends with the trap the guest asked for.
LEMMA AccessImplements ==
  ASSUME IInv, StepInv, FlagsInv, Access
  PROVE  IntelStep
<1>1. exit = NoExit /\ thr.eventInj = NoEvent /\ ~trap /\ insn \in LapicRegs
  BY DEF Access, Running
<1>2. ~GuestTrap
  BY <1>1, RunningTrap, EventsDiffer
<1>3. CASE tlb = "none" /\ ~thr.present
  <2>1. /\ exit'.code = "NPF" /\ UNCHANGED <<thr, trap, insn, frames, seen, want>>
    BY <1>3 DEF Access, VmExit
  <2>2. ~GuestTrap'
    BY <1>1, <2>1, EventsDiffer DEF GuestTrap
  <2> QED
    BY <1>2, <2>1, <2>2, Invisible
<1>4. CASE ~(tlb = "none" /\ ~thr.present)
  <2> DEFINE page == IF tlb = "none" THEN thr.page ELSE tlb
  <2>1. /\ seen' = [reg |-> insn, page |-> page, odd |-> ~seen.odd]
        /\ insn' \in NextInsn(Len(frames))
        /\ UNCHANGED <<thr, frames, want, exit, hwI>>
        /\ trap' = (thr.tf /\ (thr.msrBtf => insn = "iret"))
    BY <1>4 DEF Access, Retire
  <2>2. thr.interceptDb /\ thr.resume = "NpfPostStep" /\ page = thr.page
    BY <1>4 DEF StepInv
  <2>3. thr.tf /\ ~thr.msrBtf /\ thr.page = IntelPage(insn)
    BY <1>1, <2>2 DEF StepInv, LapicRegs
  <2>4. thr.ssTf = want /\ want \in BOOLEAN /\ hwI.db
    BY <2>2 DEF FlagsInv, IInv, TypeOK, InterceptsCurrent
  <2>5. GuestTrap' <=> want
    <3>1. trap'
      BY <2>1, <2>3
    <3> QED
      BY <1>1, <2>1, <2>4, <3>1, EventsDiffer DEF GuestTrap, NoExit
  <2>6. GuestTrap' = want
    BY <2>4, <2>5 DEF GuestTrap
  <2>7. GuestFrames' = GuestFrames /\ Len(GuestFrames') = Len(frames)
    BY <2>1, GuestFramesFacts DEF GuestFrames
  <2>8. Intel!Retire
    BY <1>2, <2>1, <2>6, <2>7, SameInsns DEF Intel!Retire
  <2>9. seen' = [reg |-> insn, page |-> Intel!IntelPage(insn), odd |-> ~seen.odd]
    BY <2>1, <2>2, <2>3, SameInsns
  <2> QED
    BY <1>1, <2>1, <2>7, <2>8, <2>9, SameInsns DEF IntelStep, Intel!Next, Intel!Access
<1> QED
  BY <1>3, <1>4

\* Between steps the trap an instruction leaves is the one its TF asks for.
LEMMA PlainTrap ==
  ASSUME IInv, StepInv, FlagsInv, Running, ~trap,
         insn \notin {"version", "lapic", "iret"},
         trap' = (thr.tf /\ (thr.msrBtf => insn = "iret")),
         UNCHANGED <<exit, hwI>>, thr'.eventInj = thr.eventInj
  PROVE  GuestTrap' = want
<1>1. exit = NoExit /\ thr.eventInj = NoEvent
  BY DEF Running
<1>2. ~thr.interceptDb
  BY <1>1 DEF StepInv, LapicRegs
<1>3. thr.tf = want /\ want \in BOOLEAN /\ ~hwI.db
  BY <1>2 DEF FlagsInv, IInv, TypeOK, InterceptsCurrent
<1>4. trap' <=> want
  BY <1>3 DEF FlagsInv
<1>5. GuestTrap' <=> want
  BY <1>1, <1>3, <1>4, EventsDiffer DEF GuestTrap, NoExit
<1> QED
  BY <1>3, <1>5 DEF GuestTrap

\* The guest changes its own TF.
LEMMA PopTfImplements ==
  ASSUME IInv, StepInv, FlagsInv, PopTf
  PROVE  IntelStep
<1>1. /\ Running /\ ~trap /\ insn = "popf" /\ thr' = [thr EXCEPT !.tf = ~want]
      /\ want' = ~want /\ insn' \in NextInsn(Len(frames))
      /\ trap' = (thr.tf /\ (thr.msrBtf => insn = "iret"))
      /\ UNCHANGED <<exit, hwI, frames, seen>>
  BY DEF PopTf, Retire
<1>2. thr'.eventInj = thr.eventInj
  BY <1>1, SMT DEF IInv, TypeOK, ThreadState
<1>3. ~GuestTrap
  BY <1>1, RunningTrap, EventsDiffer DEF Running
<1>4. GuestTrap' = want
  BY <1>1, <1>2, PlainTrap
<1>5. GuestFrames' = GuestFrames /\ Len(GuestFrames') = Len(frames)
  BY <1>1, GuestFramesFacts DEF GuestFrames
<1>6. Intel!Retire
  BY <1>1, <1>3, <1>4, <1>5, SameInsns DEF Intel!Retire
<1> QED
  BY <1>1, <1>5, <1>6 DEF IntelStep, Intel!Next, Intel!PopTf

\* An instruction nothing intercepts.
LEMMA PlainImplements ==
  ASSUME IInv, StepInv, FlagsInv, Plain
  PROVE  IntelStep
<1>1. /\ Running /\ ~trap /\ insn = "plain"
      /\ insn' \in NextInsn(Len(frames))
      /\ trap' = (thr.tf /\ (thr.msrBtf => insn = "iret"))
      /\ UNCHANGED <<thr, exit, hwI, frames, seen, want>>
  BY DEF Plain, Retire
<1>2. thr'.eventInj = thr.eventInj
  BY <1>1
<1>3. ~GuestTrap
  BY <1>1, RunningTrap, EventsDiffer DEF Running
<1>4. GuestTrap' = want
  BY <1>1, <1>2, PlainTrap
<1>5. GuestFrames' = GuestFrames /\ Len(GuestFrames') = Len(frames)
  BY <1>1, GuestFramesFacts DEF GuestFrames
<1>6. Intel!Retire
  BY <1>1, <1>3, <1>4, <1>5, SameInsns DEF Intel!Retire
<1> QED
  BY <1>1, <1>5, <1>6 DEF IntelStep, Intel!Next, Intel!Other

\* An iret returns as on the bare machine, intercepted or not.
LEMMA IretImplements ==
  ASSUME IntelEnv, IInv, StepInv, FlagsInv, Iret
  PROVE  IntelStep
<1>1. exit = NoExit /\ thr.eventInj = NoEvent /\ ~trap /\ insn = "iret" /\ frames # << >>
  BY DEF Iret, Running
<1>2. ~GuestTrap
  BY <1>1, RunningTrap, EventsDiffer
<1>3. CASE hwI.iret
  <2>1. exit'.code = "IRET" /\ UNCHANGED <<thr, trap, insn, frames, seen, want>>
    BY <1>3 DEF Iret, VmExit
  <2>2. ~GuestTrap'
    BY <1>1, <2>1, EventsDiffer DEF GuestTrap
  <2> QED
    BY <1>2, <2>1, <2>2, Invisible
<1>4. CASE ~hwI.iret
  <2>1. /\ thr' = [thr EXCEPT !.tf = frames[Len(frames)].tf]
        /\ want' = frames[Len(frames)].want
        /\ frames' = Pop(frames) /\ insn' \in ReturnsTo(frames)
        /\ UNCHANGED <<seen, exit, hwI>>
        /\ trap' = (thr.tf /\ (thr.msrBtf => insn = "iret"))
    BY <1>4 DEF Iret, Retire
  <2>2. thr'.eventInj = NoEvent /\ thr'.ssTf = thr.ssTf
    BY <1>1, <2>1, SMT DEF IInv, TypeOK, ThreadState
  <2>3. GuestTrap' <=> trap' /\ (hwI.db => thr.ssTf)
    BY <1>1, <2>1, <2>2, EventsDiffer DEF GuestTrap, NoExit
  <2>4. hwI.db = thr.interceptDb /\ want \in BOOLEAN
    BY DEF IInv, TypeOK, InterceptsCurrent
  <2>5. GuestTrap' <=> want
    <3>1. CASE thr.interceptDb
      <4>1. thr.resume = "IretTfIntercept"
        BY <1>1, <3>1 DEF StepInv, LapicRegs
      <4>2. ~want
        BY <4>1, SelfStepping, IntelEnvKeepsFlags DEF FlagsInv
      <4>3. thr.ssTf = want
        BY <3>1 DEF FlagsInv
      <4> QED
        BY <2>3, <2>4, <3>1, <4>2, <4>3
    <3>2. CASE ~thr.interceptDb
      <4>1. thr.tf = want
        BY <3>2 DEF FlagsInv
      <4> QED
        BY <1>1, <2>1, <2>3, <2>4, <3>2, <4>1
    <3> QED
      BY <3>1, <3>2
  <2>6. GuestTrap' = want
    BY <2>4, <2>5 DEF GuestTrap
  <2> QED
    BY <1>1, <1>2, <2>1, <2>6, GuestFramesPop, GuestFramesFacts
       DEF IntelStep, Intel!Next, Intel!Iret
<1> QED
  BY <1>3, <1>4

\* The exit an instruction always takes is invisible: it has not completed yet.
LEMMA InterceptedImplements ==
  ASSUME Intercepted
  PROVE  IntelStep
<1>1. /\ exit = NoExit /\ thr.eventInj = NoEvent /\ ~trap
      /\ exit'.code \in {"CPUID", "MSR", "VMRUN", "UD"}
      /\ UNCHANGED <<thr, trap, insn, frames, seen, want>>
  BY DEF Intercepted, Running, VmExit
<1>2. ~GuestTrap /\ ~GuestTrap'
  BY <1>1, EventsDiffer DEF GuestTrap, NoExit
<1> QED
  BY <1>1, <1>2, Invisible

\* When the step is over the guest gets a #DB exactly if it had TF set itself.
LEMMA StepEndTrap ==
  ASSUME IntelEnv, IInv, FlagsInv, HandleExit, exit.code = "DB"
  PROVE  thr'.eventInj = DebugException <=> thr.ssTf
<1>1. Entered(thr, exit, insn) /\ thr' = InterceptionHandler(thr, exit, insn)
  BY DEF IInv, TypeOK, ExitsIntercepted, HandleExit, Entered
<1>2. /\ thr.resume \in {"NpfPostStep", "IretTfIntercept"} /\ thr.ssTf = want
      /\ want \in BOOLEAN
  BY DEF IInv, TypeOK, ThreadState, ThreadInv, ExitsIntercepted, FlagsInv
<1>3. exit.info # DebugException
  BY EventsDiffer DEF IInv, TypeOK, IntelEnv
<1>4. CASE thr.ssTf
  <2>1. "popf" \in Insns
    BY <1>2, <1>4 DEF FlagsInv
  <2>2. ~IsExternal(exit.info) /\ thr.resume = "NpfPostStep"
    BY <1>2, <2>1, SelfStepping, IntelEnvKeepsFlags
  <2>3. exit.info.vector # 18
    <3>1. exit.info \in VectoringInfo \cup {NoEvent}
      BY DEF IInv, TypeOK
    <3>2. NoEvent.vector # 18
      BY DEF NoEvent
    <3> QED
      BY <2>1, <3>1, <3>2 DEF IntelEnv
  <2> QED
    BY <1>1, <1>4, <2>2, <2>3, DebugNpfEffect
<1>5. CASE ~thr.ssTf
  <2>1. CASE thr.resume = "NpfPostStep"
    <3>1. thr'.eventInj \in {NoEvent, exit.info, DoubleFault}
      BY <1>1, <1>5, <2>1, DebugNpfEffect
    <3> QED
      BY <1>3, <1>5, <3>1, EventsDiffer
  <2>2. CASE thr.resume = "IretTfIntercept"
    <3>1. thr'.eventInj \in {thr.queueEvent, exit.info, DoubleFault}
      BY <1>1, <1>5, <2>2, DebugIretEffect
    <3>2. thr.queueEvent # DebugException
      BY <2>2 DEF IInv, ThreadInv, IntelEnv
    <3> QED
      BY <1>3, <1>5, <3>1, <3>2, EventsDiffer
  <2> QED
    BY <1>2, <2>1, <2>2
<1> QED
  BY <1>4, <1>5

\* An exit that is handled completes the instruction it emulates, or is
\* invisible: it only maps a page, arms or ends a step, or raises an event.
LEMMA HandleExitImplements ==
  ASSUME IntelEnv, IInv, ExitInv, FlagsInv, HandleExit
  PROVE  IntelStep
<1>1. Entered(thr, exit, insn) /\ thr' = InterceptionHandler(thr, exit, insn)
  BY DEF IInv, TypeOK, ExitsIntercepted, HandleExit, Entered
<1>2. /\ exit # NoExit /\ exit' = NoExit
      /\ UNCHANGED <<frames, trap, seen, want>>
      /\ IF Emulates(exit.code, insn) THEN insn' \in NextInsn(Len(frames))
                                      ELSE insn' = insn
  BY DEF HandleExit
<1>3. exit.code \in Codes /\ thr.eventInj = NoEvent /\ ~trap
  BY <1>2 DEF IInv, TypeOK, ExitInv
<1>4. /\ GuestTrap <=> exit.code = "DB" /\ thr.ssTf
      /\ GuestTrap' <=> thr'.eventInj = DebugException
  BY <1>2, <1>3, EventsDiffer DEF GuestTrap, NoExit
<1>5. exit.info # DebugException
  BY EventsDiffer DEF IInv, TypeOK, IntelEnv
<1>6. CASE exit.code = "DB"
  BY <1>2, <1>4, <1>6, StepEndTrap, Invisible DEF Emulates
<1>7. CASE exit.code \in {"NPF", "IRET"}
  <2>1. thr'.eventInj \in {NoEvent, exit.info, DoubleFault}
    BY <1>1, <1>7, NpfEffect, IretEffect
  <2>2. ~GuestTrap /\ ~GuestTrap'
    BY <1>4, <1>5, <1>7, <2>1, EventsDiffer
  <2> QED
    BY <1>2, <1>7, <2>2, Invisible DEF Emulates
<1>8. CASE exit.code \in {"UD", "CPUID", "MSR", "VMRUN"}
  <2>1. thr'.eventInj \in {Raised(exit.code, insn), exit.info, DoubleFault}
    BY <1>1, <1>8, EmulationEffect
  <2>2. Raised(exit.code, insn) # DebugException
    BY EventsDiffer DEF Raised
  <2>3. ~GuestTrap /\ ~GuestTrap'
    BY <1>4, <1>5, <1>8, <2>1, <2>2, EventsDiffer
  <2>4. CASE Emulates(exit.code, insn)
    <3>1. insn \in {"cpuid", "msr", "sys"} /\ insn \in Insns
      BY <2>4 DEF Emulates, ExitInv, IInv, TypeOK
    <3>2. ~want /\ want \in BOOLEAN
      BY <3>1 DEF IntelEnv, FlagsInv, IInv, TypeOK
    <3>3. GuestTrap' = want
      BY <2>3, <3>2 DEF GuestTrap
    <3>4. GuestFrames' = GuestFrames /\ Len(GuestFrames') = Len(frames)
      BY <1>2, GuestFramesFacts DEF GuestFrames
    <3>5. Intel!Retire
      BY <1>2, <2>3, <2>4, <3>3, <3>4, SameInsns DEF Intel!Retire
    <3> QED
      BY <1>2, <3>1, <3>4, <3>5 DEF IntelStep, Intel!Next, Intel!Other
  <2>5. CASE ~Emulates(exit.code, insn)
    BY <1>2, <2>3, <2>5, Invisible
  <2> QED
    BY <2>4, <2>5
<1> QED
  BY <1>3, <1>6, <1>7, <1>8 DEF Codes

-----------------------------------------------------------------------------
(* The refinement. *)

\* The thread starts as the bare machine does.
LEMMA InitImplements == Init => Intel!Init
<1> SUFFICES ASSUME Init PROVE Intel!Init
  OBVIOUS
<1>1. /\ insn \in NextInsn(0) /\ frames = << >> /\ want = FALSE /\ trap = FALSE
      /\ seen = [reg |-> "lapic", page |-> "lapic", odd |-> FALSE]
      /\ exit = NoExit /\ thr.eventInj = NoEvent
  BY DEF Init
<1>2. GuestTrap = FALSE
  BY <1>1, EventsDiffer DEF GuestTrap, NoExit
<1>3. GuestFrames = << >>
  BY <1>1 DEF GuestFrames
<1> QED
  BY <1>1, <1>2, <1>3, SameInsns DEF Intel!Init

\* Every step of the thread is one of the bare machine, or invisible.
LEMMA NextImplements ==
  ASSUME IntelEnv, IInv, ExitInv, StepInv, FlagsInv, [Next]_vars
  PROVE  IntelStep
<1>1. CASE UNCHANGED vars
  BY <1>1, Invisible DEF vars, GuestTrap
<1>2. CASE Next
  BY <1>2, HandleExitImplements, InterruptImplements, InjectEventImplements,
     DebugTrapImplements, AccessImplements, PopTfImplements, IretImplements,
     PlainImplements, InterceptedImplements
     DEF Next, Guest
<1> QED
  BY <1>1, <1>2

\* The guest cannot tell the runtime from an Intel machine, step by step: the
\* safety part of ImplementsBareMetal.  IntelEnv is assumed: nothing reaches the guest
\* in a step, no delivery of a #DB, #UD or #GP is cut off by an exit, and a guest that
\* uses popf has BTF clear, executes no CPUID, no RDMSR or WRMSR that exits and no
\* emulated SYSENTER or SYSEXIT, and has no external event and no machine check cut
\* off.  Without any one of these the guest can tell.
THEOREM GuestCannotTell == IntelEnv => (Spec => StepsOfBareMetal)
<1> SUFFICES ASSUME IntelEnv PROVE Spec => StepsOfBareMetal
  OBVIOUS
<1>1. Init => Intel!Init
  BY InitImplements
<1>2. IInv /\ ExitInv /\ StepInv /\ FlagsInv /\ [Next]_vars
        => [Intel!Next]_(Intel!vars)
  BY NextImplements DEF IntelStep
<1>3. Spec => []StepInv /\ []FlagsInv
  <2>1. ~AsyncInStep
    BY DEF IntelEnv
  <2> QED
    BY <2>1, StepsWellFormed, GuestFlagsKept, IntelEnvKeepsFlags, PTL
<1> QED
  BY <1>1, <1>2, <1>3, InductiveInvariant, ExitsMatchInstruction, PTL
     DEF Spec, StepsOfBareMetal, Intel!Safety

=============================================================================
