---------------------------- MODULE VmExitProofs ----------------------------
(***************************************************************************)
(* Theorems about VmExit for every guest (Insns), every nesting bound and  *)
(* every environment (VectoringInfo, AsyncInStep, GuestBtf).               *)
(***************************************************************************)
EXTENDS VmExit, SequenceTheorems, TLAPS

-----------------------------------------------------------------------------
(* Event arbitration. *)

\* Every vector the handlers or the CPU put in front of the loop is listed.
LEMMA ListedIndex ==
  /\ PriorityIndex(1) < Unlisted
  /\ PriorityIndex(6) < Unlisted
  /\ PriorityIndex(13) < Unlisted
  /\ PriorityIndex(2) < Unlisted
  /\ \A v \in 32..255 : PriorityIndex(v) < Unlisted
BY DEF PriorityIndex, Unlisted

\* The scan of ExceptionPriorities ends in the table or right behind it.
LEMMA PriorityIndexType == \A v \in 0..255 : PriorityIndex(v) \in 0..Unlisted
BY DEF PriorityIndex, Unlisted

\* The events a handler of this runtime leaves in EVENTINJ before it arbitrates.
HandlerEvent(e) ==
  \/ e \in {NoEvent, DebugException, InvalidOpcode, GpFault}
  \/ e \in VectoringInfo /\ IsExternal(e)

\* Such an event is never a software interrupt and is always met by the scan.
LEMMA HandlerEventListed ==
  ASSUME NEW e, HandlerEvent(e), e # NoEvent
  PROVE  /\ e \in Event
         /\ e.type # "SW"
         /\ PriorityIndex(e.vector) < Unlisted
<1>1. CASE e \in {DebugException, InvalidOpcode, GpFault}
  BY <1>1, ListedIndex
     DEF Event, DebugException, InvalidOpcode, GpFault, Exception
<1>2. CASE e \in VectoringInfo /\ IsExternal(e)
  <2>1. e \in Event
    BY <1>2, EnvAssumption
  <2>2. e.type \in {"INTR", "NMI"}
    BY <1>2 DEF IsExternal
  <2>3. e.vector = 2 \/ e.vector \in 32..255
    BY <1>2, <2>1, <2>2, EnvAssumption DEF Event
  <2> QED
    BY <2>1, <2>2, <2>3, ListedIndex
<1> QED
  BY <1>1, <1>2 DEF HandlerEvent

\* What InternalHandleEvents does with the events it meets: EVENTINJ stays an
\* event, only an external EXITINTINFO is ever queued, and an external
\* EXITINTINFO is injected or queued.
LEMMA HandleEventsKeeps ==
  ASSUME NEW inj, HandlerEvent(inj),
         NEW info \in VectoringInfo \cup {NoEvent}
  PROVE  LET chosen == HandleEvents(inj, info)
         IN  /\ chosen.inj \in Event \cup {NoEvent}
             /\ chosen.queue \in {NoEvent, info}
             /\ chosen.queue # NoEvent => IsExternal(info)
             /\ IsExternal(info) => chosen.inj = info \/ chosen.queue = info
<1> DEFINE chosen == HandleEvents(inj, info)
<1>0. info \in Event \cup {NoEvent} /\ inj \in Event \cup {NoEvent}
  BY EnvAssumption, HandlerEventListed
<1>1. CASE IsDiscarded(info)
  BY <1>0, <1>1 DEF HandleEvents, IsDiscarded, IsExternal
<1>2. CASE ~IsDiscarded(info) /\ inj = NoEvent
  BY <1>0, <1>2 DEF HandleEvents
<1>3. CASE ~IsDiscarded(info) /\ inj # NoEvent /\ CombineToDf(inj, info)
  BY <1>0, <1>3 DEF HandleEvents, CombineToDf, IsExternal, DoubleFault, Exception, Event
<1>4. CASE ~IsDiscarded(info) /\ inj # NoEvent /\ ~CombineToDf(inj, info)
  <2>1. info \in Event /\ info # NoEvent /\ info.type \in {"INTR", "NMI", "EXC"}
    BY <1>0, <1>4 DEF IsDiscarded, Event, NoEvent
  <2>2. inj \in Event /\ inj.type # "SW" /\ PriorityIndex(inj.vector) < Unlisted
    BY <1>4, HandlerEventListed
  <2>3. PriorityIndex(inj.vector) \in Int /\ PriorityIndex(info.vector) \in Int
    BY <2>1, <2>2, PriorityIndexType DEF Event, Unlisted
  <2>4. \/ PriorityIndex(inj.vector) <= PriorityIndex(info.vector)
        \/ PriorityIndex(info.vector) < Unlisted
    BY <2>2, <2>3 DEF Unlisted
  <2>5. \/ chosen = [inj |-> inj, queue |-> IF info.type = "EXC" THEN NoEvent ELSE info]
        \/ chosen = [inj |-> info, queue |-> IF info.type = "EXC" THEN NoEvent ELSE info]
    BY <1>4, <2>2, <2>4 DEF HandleEvents
  <2> QED
    BY <2>1, <2>2, <2>5 DEF IsExternal
<1> QED
  BY <1>1, <1>2, <1>3, <1>4

-----------------------------------------------------------------------------
(* The handler. *)

\* The markers for no event and for an unassigned one are not events.
LEMMA EventFacts ==
  /\ NoEvent # Garbage /\ NoEvent \notin Event /\ Garbage \notin Event
  /\ {DebugException, InvalidOpcode, GpFault, DoubleFault} \subseteq Event
  /\ VectoringInfo \subseteq Event
BY EnvAssumption
   DEF NoEvent, Garbage, Event, DebugException, InvalidOpcode, GpFault,
       DoubleFault, Exception

\* Arming a single step keeps the thread state well-formed, keeps EVENTINJ and
\* invalidates the cached intercepts (Debug.c, SingleStepRip).
LEMMA SingleStepRipKeeps ==
  ASSUME NEW t, ThreadInv(t),
         NEW r \in {"NpfPostStep", "IretTfIntercept"}, NEW c \in BOOLEAN,
         r = "IretTfIntercept" => t.queueEvent # Garbage,
         NEW s, s = SingleStepRip(t, r, c)
  PROVE  ThreadInv(s) /\ s.eventInj = t.eventInj /\ ~s.cleanI
<1>1. t \in ThreadState
  BY DEF ThreadInv
<1>2. s \in ThreadState
  BY <1>1, Zenon DEF ThreadState, SingleStepRip
<1>3. /\ s.eventInj = t.eventInj /\ ~s.cleanI /\ s.resume = r
      /\ s.queueEvent = t.queueEvent /\ s.interceptIret = t.interceptIret
  BY <1>1, SMT DEF ThreadState, SingleStepRip
<1> QED
  BY <1>2, <1>3 DEF ThreadInv

\* Queueing an external event fills the slot the iret intercept will use
\* (Iret.c, QueueEvent).
LEMMA QueueEventKeeps ==
  ASSUME NEW t, ThreadInv(t),
         NEW event \in VectoringInfo, IsExternal(event),
         NEW s, s = QueueEvent(t, event)
  PROVE  /\ ThreadInv(s) /\ s.eventInj = t.eventInj /\ ~s.cleanI
         /\ s.interceptIret /\ s.queueEvent = event
<1>1. t \in ThreadState /\ event \in Event
  BY EventFacts DEF ThreadInv
<1>2. s \in ThreadState
  BY <1>1, Zenon DEF ThreadState, QueueEvent
<1>3. /\ s.eventInj = t.eventInj /\ ~s.cleanI /\ s.resume = t.resume
      /\ s.queueEvent = event /\ s.interceptIret
      /\ s.interceptDb = t.interceptDb
  BY <1>1, SMT DEF ThreadState, QueueEvent
<1> QED
  BY <1>1, <1>2, <1>3, EventFacts DEF ThreadInv

\* What the #DB handler calls through SingleStepResume restores the page or
\* injects the queued event, and leaves a well-formed state.
LEMMA ResumeKeeps ==
  ASSUME NEW t, ThreadInv(t), t.eventInj = NoEvent,
         t.resume \in {"NpfPostStep", "IretTfIntercept"},
         NEW r, r = Resume(t)
  PROVE  /\ ThreadInv(r) /\ HandlerEvent(r.eventInj)
         /\ r.interceptIret = t.interceptIret
<1>1. t \in ThreadState
  BY DEF ThreadInv
<1>2. CASE t.resume = "NpfPostStep"
  <2>1. r = NpfPostStep(t)
    BY <1>2 DEF Resume
  <2>2. r \in ThreadState
    BY <1>1, <2>1, Zenon DEF ThreadState, NpfPostStep, Pages
  <2>3. /\ r.eventInj = NoEvent /\ r.interceptIret = t.interceptIret
        /\ r.interceptDb = t.interceptDb /\ r.resume = t.resume
        /\ r.queueEvent = t.queueEvent
    BY <1>1, <2>1, SMT DEF ThreadState, NpfPostStep
  <2> QED
    BY <2>2, <2>3 DEF ThreadInv, HandlerEvent
<1>3. CASE t.resume = "IretTfIntercept"
  <2>1. r = IretTfIntercept(t)
    BY <1>3 DEF Resume
  <2>2. t.queueEvent \in Event /\ t.queueEvent \in VectoringInfo /\ IsExternal(t.queueEvent)
    BY <1>1, <1>3, EventFacts DEF ThreadInv
  <2>3. r \in ThreadState
    BY <1>1, <2>1, <2>2, Zenon DEF ThreadState, IretTfIntercept
  <2>4. /\ r.eventInj = t.queueEvent /\ r.interceptIret = t.interceptIret
        /\ r.interceptDb = t.interceptDb /\ r.resume = t.resume
        /\ r.queueEvent = t.queueEvent
    BY <1>1, <2>1, SMT DEF ThreadState, IretTfIntercept
  <2> QED
    BY <2>2, <2>3, <2>4 DEF ThreadInv, HandlerEvent
<1> QED
  BY <1>2, <1>3

\* Every branch of the switch keeps the thread state well-formed, injects only
\* a HandlerEvent and clears the I clean bit when it changes an intercept.
LEMMA DispatchKeeps ==
  ASSUME NEW t, ThreadInv(t), t.eventInj = NoEvent, t.cleanI = TRUE,
         NEW code \in Codes \cup {"none"}, NEW opcode \in Insns,
         code = "DB" => t.interceptDb,
         code = "IRET" => t.interceptIret,
         NEW d, d = Dispatch(t, code, opcode)
  PROVE  /\ ThreadInv(d)
         /\ HandlerEvent(d.eventInj)
         /\ d.cleanI => d.interceptDb = t.interceptDb
                        /\ d.interceptIret = t.interceptIret
<1>0. t \in ThreadState
  BY DEF ThreadInv
<1>1. CASE code \in {"UD", "VMRUN"}
  <2>1. PICK e \in {NoEvent, InvalidOpcode, GpFault} : d = [t EXCEPT !.eventInj = e]
    <3>1. t = [t EXCEPT !.eventInj = NoEvent]
      BY <1>0 DEF ThreadState
    <3> QED
      BY <1>1, <3>1 DEF Dispatch, ExceptionUd
  <2>a. e \in Event \cup {NoEvent, Garbage}
    BY EventFacts
  <2>2. d \in ThreadState
    BY <1>0, <2>1, <2>a, Zenon DEF ThreadState
  <2>3. /\ d.eventInj = e /\ d.interceptIret = t.interceptIret
        /\ d.interceptDb = t.interceptDb /\ d.resume = t.resume
        /\ d.queueEvent = t.queueEvent
    BY <1>0, <2>1, SMT DEF ThreadState
  <2> QED
    BY <2>2, <2>3 DEF ThreadInv, HandlerEvent
<1>2. CASE code = "IRET"
  <2> DEFINE s == [t EXCEPT !.interceptIret = FALSE, !.cleanI = FALSE]
  <2>1. s \in ThreadState /\ t.iretTf \in BOOLEAN
    BY <1>0, Zenon DEF ThreadState
  <2>2. /\ s.eventInj = NoEvent /\ s.interceptDb = t.interceptDb
        /\ s.resume = t.resume /\ s.queueEvent = t.queueEvent
        /\ s.interceptIret = FALSE
    BY <1>0, SMT DEF ThreadState
  <2>3. d = SingleStepRip(s, "IretTfIntercept", t.iretTf)
    BY <1>2 DEF Dispatch, ExceptionIret
  <2> HIDE DEF s
  <2>4. ThreadInv(s) /\ s.queueEvent # Garbage
    BY <1>2, <2>1, <2>2 DEF ThreadInv
  <2>5. ThreadInv(d) /\ d.eventInj = NoEvent /\ ~d.cleanI
    BY <2>1, <2>2, <2>3, <2>4, SingleStepRipKeeps
  <2> QED
    BY <2>5 DEF HandlerEvent
<1>3. CASE code = "DB"
  <2> DEFINE r == Resume(t)
             q == [r EXCEPT !.interceptDb = FALSE, !.cleanI = FALSE]
  <2>1. d = IF q.ssTf THEN [q EXCEPT !.eventInj = DebugException]
            ELSE [q EXCEPT !.tf = FALSE, !.bs = FALSE]
    BY <1>3 DEF Dispatch, ExceptionDebug
  <2>2. t.resume \in {"NpfPostStep", "IretTfIntercept"}
    BY <1>0, <1>3 DEF ThreadInv, ThreadState
  <2>3. ThreadInv(r) /\ HandlerEvent(r.eventInj)
    BY <2>2, ResumeKeeps
  <2> HIDE DEF r
  <2>4. r \in ThreadState
    BY <2>3 DEF ThreadInv
  <2>5. q \in ThreadState
    BY <2>4, Zenon DEF ThreadState
  <2>6. /\ q.eventInj = r.eventInj /\ ~q.cleanI /\ ~q.interceptDb
        /\ q.resume = r.resume /\ q.queueEvent = r.queueEvent
        /\ q.interceptIret = r.interceptIret
    BY <2>4, SMT DEF ThreadState
  <2> HIDE DEF q
  <2>7. CASE q.ssTf
    <3>1. d = [q EXCEPT !.eventInj = DebugException]
      BY <2>1, <2>7
    <3>2. d \in ThreadState
      BY <2>5, <3>1, EventFacts, Zenon DEF ThreadState
    <3>3. /\ d.eventInj = DebugException /\ ~d.cleanI /\ ~d.interceptDb
          /\ d.resume = q.resume /\ d.queueEvent = q.queueEvent
          /\ d.interceptIret = q.interceptIret
      BY <2>5, <2>6, <3>1, SMT DEF ThreadState
    <3> QED
      BY <2>3, <2>6, <3>2, <3>3 DEF ThreadInv, HandlerEvent
  <2>8. CASE ~q.ssTf
    <3>1. d = [q EXCEPT !.tf = FALSE, !.bs = FALSE]
      BY <2>1, <2>8
    <3>2. d \in ThreadState
      BY <2>5, <3>1, Zenon DEF ThreadState
    <3>3. /\ d.eventInj = q.eventInj /\ ~d.cleanI /\ ~d.interceptDb
          /\ d.resume = q.resume /\ d.queueEvent = q.queueEvent
          /\ d.interceptIret = q.interceptIret
      BY <2>5, <2>6, <3>1, SMT DEF ThreadState
    <3> QED
      BY <2>3, <2>6, <3>2, <3>3 DEF ThreadInv
  <2> QED
    BY <2>7, <2>8
<1>4. CASE code = "NPF"
  <2> DEFINE s == [t EXCEPT !.present = TRUE, !.page = MmioLapic(opcode),
                            !.tlbFlush = TRUE]
  <2>1. MmioLapic(opcode) \in Pages
    BY DEF MmioLapic, Pages
  <2>2. s \in ThreadState
    BY <1>0, <2>1, Zenon DEF ThreadState
  <2>3. /\ s.eventInj = NoEvent /\ s.interceptDb = t.interceptDb
        /\ s.resume = t.resume /\ s.queueEvent = t.queueEvent
        /\ s.interceptIret = t.interceptIret
    BY <1>0, SMT DEF ThreadState
  <2>4. d = SingleStepRip(s, "NpfPostStep", FALSE)
    BY <1>4 DEF Dispatch, ExceptionNpf
  <2> HIDE DEF s
  <2>5. ThreadInv(s)
    BY <2>2, <2>3 DEF ThreadInv
  <2>6. ThreadInv(d) /\ d.eventInj = NoEvent /\ ~d.cleanI
    <3>1. PICK c \in BOOLEAN : d = SingleStepRip(s, "NpfPostStep", c)
      BY <2>4
    <3> QED
      BY <2>3, <2>5, <3>1, SingleStepRipKeeps
  <2> QED
    BY <2>6 DEF HandlerEvent
<1>5. CASE code \in {"CPUID", "MSR", "none"}
  BY <1>5 DEF Dispatch, HandlerEvent
<1> QED
  BY <1>1, <1>2, <1>3, <1>4, <1>5 DEF Codes

\* Arbitration keeps the thread state well-formed and marks changed intercepts dirty.
LEMMA ArbitrateKeeps ==
  ASSUME NEW t, ThreadInv(t), HandlerEvent(t.eventInj),
         NEW info \in VectoringInfo \cup {NoEvent},
         NEW a, a = ArbitrateEvents(t, info)
  PROVE  /\ ThreadInv(a)
         /\ a.eventInj # Garbage
         /\ a.cleanI => t.cleanI /\ a.interceptDb = t.interceptDb
                        /\ a.interceptIret = t.interceptIret
         /\ IsExternal(info) =>
              \/ a.eventInj = info
              \/ a.interceptIret /\ a.queueEvent = info
<1> DEFINE chosen == HandleEvents(t.eventInj, info)
           s == [t EXCEPT !.eventInj = chosen.inj]
<1>1. /\ chosen.inj \in Event \cup {NoEvent}
      /\ chosen.queue \in {NoEvent, info}
      /\ chosen.queue # NoEvent => IsExternal(info)
      /\ IsExternal(info) => chosen.inj = info \/ chosen.queue = info
  BY HandleEventsKeeps
<1>2. a = IF chosen.queue = NoEvent THEN s ELSE QueueEvent(s, chosen.queue)
  BY DEF ArbitrateEvents
<1> HIDE DEF chosen
<1>3. /\ ThreadInv(s) /\ s.eventInj \in Event \cup {NoEvent}
      /\ s.eventInj = chosen.inj /\ s.cleanI = t.cleanI
      /\ s.interceptDb = t.interceptDb /\ s.interceptIret = t.interceptIret
  <2>1. t \in ThreadState
    BY DEF ThreadInv
  <2>2. s \in ThreadState
    BY <1>1, <2>1, Zenon DEF ThreadState
  <2>3. /\ s.eventInj = chosen.inj /\ s.cleanI = t.cleanI
        /\ s.interceptDb = t.interceptDb /\ s.interceptIret = t.interceptIret
        /\ s.resume = t.resume /\ s.queueEvent = t.queueEvent
    BY <2>1, SMT DEF ThreadState
  <2> QED
    BY <1>1, <2>2, <2>3 DEF ThreadInv
<1> HIDE DEF s
<1>4. CASE chosen.queue = NoEvent
  <2>1. IsExternal(info) => chosen.inj = info
    BY <1>1, <1>4 DEF IsExternal, NoEvent
  <2> QED
    BY <1>2, <1>3, <1>4, <2>1, EventFacts
<1>5. CASE chosen.queue # NoEvent
  <2>1. chosen.queue = info /\ info \in VectoringInfo /\ IsExternal(info)
    BY <1>1, <1>5
  <2>2. a = QueueEvent(s, info)
    BY <1>2, <1>5, <2>1
  <2> QED
    BY <1>3, <2>1, <2>2, QueueEventKeeps, EventFacts
<1> QED
  BY <1>4, <1>5

\* The whole handler: what a VMEXIT leaves behind is well-formed, a cached
\* intercept marked clean is current, and an external event is not lost.
LEMMA HandlerKeeps ==
  ASSUME NEW t, ThreadInv(t),
         NEW x \in [code : Codes \cup {"none"}, info : VectoringInfo \cup {NoEvent}],
         NEW opcode \in Insns,
         x.code = "DB" => t.interceptDb,
         x.code = "IRET" => t.interceptIret,
         NEW h, h = InterceptionHandler(t, x, opcode)
  PROVE  /\ ThreadInv(h)
         /\ h.eventInj # Garbage
         /\ h.cleanI => h.interceptDb = t.interceptDb
                        /\ h.interceptIret = t.interceptIret
         /\ IsExternal(x.info) =>
              \/ h.eventInj = x.info
              \/ h.interceptIret /\ h.queueEvent = x.info
<1> DEFINE s == [t EXCEPT !.eventInj = NoEvent, !.cleanI = TRUE]
           d == Dispatch(s, x.code, opcode)
<1>1. t \in ThreadState
  BY DEF ThreadInv
<1>2. s \in ThreadState
  BY <1>1, Zenon DEF ThreadState
<1>3. /\ s.eventInj = NoEvent /\ s.cleanI = TRUE
      /\ s.interceptDb = t.interceptDb /\ s.interceptIret = t.interceptIret
      /\ s.resume = t.resume /\ s.queueEvent = t.queueEvent
  BY <1>1, SMT DEF ThreadState
<1>4. h = ArbitrateEvents(d, x.info)
  BY DEF InterceptionHandler
<1>5. x.code \in Codes \cup {"none"} /\ x.info \in VectoringInfo \cup {NoEvent}
  OBVIOUS
<1> HIDE DEF s
<1>6. ThreadInv(s)
  BY <1>2, <1>3 DEF ThreadInv
<1>7. (x.code = "DB" => s.interceptDb) /\ (x.code = "IRET" => s.interceptIret)
  BY <1>3
<1>8. PICK code \in Codes \cup {"none"} : code = x.code
  BY <1>5
<1>9. /\ ThreadInv(d)
      /\ HandlerEvent(d.eventInj)
      /\ d.cleanI => d.interceptDb = s.interceptDb
                     /\ d.interceptIret = s.interceptIret
  <2>1. d = Dispatch(s, code, opcode)
    BY <1>8
  <2> HIDE DEF d
  <2> QED
    BY <1>3, <1>6, <1>7, <1>8, <2>1, DispatchKeeps
<1> HIDE DEF d
<1> QED
  BY <1>3, <1>4, <1>5, <1>9, ArbitrateKeeps

-----------------------------------------------------------------------------
(* The guest. *)

\* Whatever the guest does next is an instruction of this guest.
LEMMA NextInsnType == \A depth \in Nat : NextInsn(depth) \subseteq Insns
BY InsnsAssumption DEF NextInsn

\* So is whatever an iret returns to, and one frame less is on the stack.
LEMMA ReturnsToType ==
  ASSUME NEW f \in Seq(Frame), f # << >>
  PROVE  /\ ReturnsTo(f) \subseteq Insns
         /\ Pop(f) \in Seq(Frame) /\ Len(Pop(f)) = Len(f) - 1
         /\ f[Len(f)] \in Frame
<1>1. Len(f) \in Nat \ {0} /\ f[Len(f)] \in Frame
  OBVIOUS
<1>2. f[Len(f)].insn \in Insns
  BY <1>1 DEF Frame
<1>3. NextInsn(Len(f) - 1) \subseteq Insns
  BY <1>1, NextInsnType
<1>4. ReturnsTo(f) \subseteq Insns
  BY <1>2, <1>3 DEF ReturnsTo
<1>5. Pop(f) \in Seq(Frame) /\ Len(Pop(f)) = Len(f) - 1
  <2>1. \A i \in 1..(Len(f) - 1) : f[i] \in Frame
    OBVIOUS
  <2> DEFINE n == Len(f) - 1
  <2>2. n \in Nat /\ 1 \in Int /\ n \in Int
    BY <1>1
  <2>3. Pop(f) = SubSeq(f, 1, n)
    BY DEF Pop
  <2> HIDE DEF n
  <2>4. /\ SubSeq(f, 1, n) \in Seq(Frame)
        /\ Len(SubSeq(f, 1, n)) = IF 1 <= n THEN n - 1 + 1 ELSE 0
    BY <2>1, <2>2, SubSeqProperties DEF n
  <2>5. Len(SubSeq(f, 1, n)) = n
    BY <2>2, <2>4
  <2> QED
    BY <2>3, <2>4, <2>5 DEF n
<1> QED
  BY <1>1, <1>4, <1>5

\* Delivering an event keeps the stack within its bound and the runtime's
\* own fields as they were.
LEMMA DeliverKeeps ==
  ASSUME IInv, NEW event, Deliver(event)
  PROVE  IInv'
<1>1. /\ thr \in ThreadState /\ ThreadInv(thr)
  BY DEF IInv, ThreadInv
<1>2. thr' \in ThreadState
  <2>1. (thr.bs \/ event = DebugException) \in BOOLEAN
        /\ (thr.msrBtf /\ event # DebugException) \in BOOLEAN
    OBVIOUS
  <2>2. NoEvent \in Event \cup {NoEvent, Garbage}
    OBVIOUS
  <2>3. PICK bs \in BOOLEAN, btf \in BOOLEAN :
          thr' = [thr EXCEPT !.tf = FALSE, !.eventInj = NoEvent,
                             !.bs = bs, !.msrBtf = btf]
    BY <2>1 DEF Deliver
  <2> QED
    BY <1>1, <2>2, <2>3, ZenonT(60) DEF ThreadState
<1>3. /\ thr'.eventInj = NoEvent /\ thr'.resume = thr.resume
      /\ thr'.queueEvent = thr.queueEvent
      /\ thr'.interceptDb = thr.interceptDb
      /\ thr'.interceptIret = thr.interceptIret
  BY <1>1, SMT DEF ThreadState, Deliver
<1>4. ThreadInv(thr')
  BY <1>1, <1>2, <1>3 DEF ThreadInv
<1>5. frames' \in Seq(Frame) /\ Len(frames') <= MaxDepth
  <2> DEFINE top == [tf |-> thr.tf, want |-> want, insn |-> insn,
                     cause |-> Cause(event)]
  <2>1. top \in Frame
    BY <1>1, Zenon DEF IInv, TypeOK, Frame, ThreadState, Cause
  <2>2. frames' = Append(frames, top) /\ frames \in Seq(Frame) /\ Len(frames) < MaxDepth
    BY DEF Deliver, IInv, TypeOK
  <2> HIDE DEF top
  <2> QED
    BY <2>1, <2>2, MaxDepthAssumption
<1>6. insn' \in Insns
  BY <1>5, NextInsnType DEF Deliver
<1>7. /\ want' \in BOOLEAN /\ trap' \in BOOLEAN
      /\ UNCHANGED <<exit, hwI, tlb, seen>>
  BY DEF Deliver
<1> QED
  BY <1>1, <1>2, <1>3, <1>4, <1>5, <1>6, <1>7, EventFacts
     DEF IInv, TypeOK, InterceptsCurrent, ExitsIntercepted

\* An instruction that retires, or exits, changes neither the runtime's slots
\* nor the intercepts.
LEMMA GuestStepKeeps ==
  ASSUME IInv,
         thr' \in ThreadState,
         thr'.eventInj = thr.eventInj, thr'.resume = thr.resume,
         thr'.queueEvent = thr.queueEvent,
         thr'.interceptDb = thr.interceptDb,
         thr'.interceptIret = thr.interceptIret,
         hwI' = hwI,
         exit' \in [code : Codes \cup {"none"}, info : VectoringInfo \cup {NoEvent}],
         exit'.code = "DB" => hwI.db, exit'.code = "IRET" => hwI.iret,
         tlb' \in Pages \cup {"none"}, insn' \in Insns,
         frames' \in Seq(Frame), Len(frames') <= MaxDepth,
         trap' \in BOOLEAN, want' \in BOOLEAN,
         seen' \in [reg : {"version", "lapic"}, page : Pages, odd : BOOLEAN]
  PROVE  IInv'
<1>1. ThreadInv(thr')
  BY DEF IInv, ThreadInv
<1>2. InterceptsCurrent' /\ ExitsIntercepted'
  BY DEF IInv, InterceptsCurrent, ExitsIntercepted
<1> QED
  BY <1>1, <1>2 DEF IInv, TypeOK

\* A VMEXIT carries no event, or one whose delivery it interrupted.
LEMMA VmExitType ==
  ASSUME NEW code \in Codes, VmExit(code)
  PROVE  /\ exit' \in [code : Codes \cup {"none"}, info : VectoringInfo \cup {NoEvent}]
         /\ exit'.code = code
         /\ UNCHANGED <<hwI, tlb, insn, frames, seen, want>>
<1>1. MayInterrupt(code) \subseteq VectoringInfo
  BY DEF MayInterrupt
<1>2. PICK info \in VectoringInfo \cup {NoEvent} : exit' = [code |-> code, info |-> info]
  BY <1>1 DEF VmExit
<1>3. exit' \in [code : Codes \cup {"none"}, info : VectoringInfo \cup {NoEvent}]
  BY <1>2
<1>4. exit'.code = code
  BY <1>2
<1>5. UNCHANGED <<hwI, tlb, insn, frames, seen, want>>
  BY DEF VmExit
<1> QED
  BY <1>3, <1>4, <1>5

-----------------------------------------------------------------------------
(* The theorems. *)

\* VirtualizeSystem hands the guest over in a state that satisfies the invariant.
LEMMA InitIInv == Init => IInv
<1> SUFFICES ASSUME Init PROVE IInv
  OBVIOUS
<1>1. thr \in ThreadState
  BY EnvAssumption DEF Init, ThreadState, Pages
<1>2. ThreadInv(thr)
  BY <1>1 DEF Init, ThreadInv
<1>3. TypeOK
  <2>1. insn \in Insns
    BY NextInsnType DEF Init
  <2>2. frames \in Seq(Frame) /\ Len(frames) <= MaxDepth
    BY MaxDepthAssumption DEF Init
  <2>3. exit \in [code : Codes \cup {"none"}, info : VectoringInfo \cup {NoEvent}]
    BY DEF Init, NoExit
  <2>4. /\ hwI \in [db : BOOLEAN, iret : BOOLEAN]
        /\ tlb \in Pages \cup {"none"}
        /\ trap \in BOOLEAN /\ want \in BOOLEAN
        /\ seen \in [reg : {"version", "lapic"}, page : Pages, odd : BOOLEAN]
    BY DEF Init, Pages
  <2> QED
    BY <1>1, <2>1, <2>2, <2>3, <2>4 DEF TypeOK
<1> QED
  BY <1>2, <1>3, EventFacts
     DEF Init, IInv, InterceptsCurrent, ExitsIntercepted, NoExit

\* Every handled exit and every step of the guest preserves the invariant.
LEMMA NextIInv == IInv /\ [Next]_vars => IInv'
<1> SUFFICES ASSUME IInv, [Next]_vars PROVE IInv'
  OBVIOUS
<1>0. /\ TypeOK /\ thr \in ThreadState /\ ThreadInv(thr)
      /\ NextInsn(Len(frames)) \subseteq Insns
  BY NextInsnType DEF IInv, TypeOK
<1>1. CASE HandleExit
  <2>1. /\ thr' = InterceptionHandler(thr, exit, insn)
        /\ exit \in [code : Codes \cup {"none"}, info : VectoringInfo \cup {NoEvent}]
        /\ exit.code = "DB" => thr.interceptDb
        /\ exit.code = "IRET" => thr.interceptIret
        /\ insn \in Insns
    BY <1>0, <1>1 DEF HandleExit, IInv, TypeOK, ExitsIntercepted
  <2>2. /\ ThreadInv(thr') /\ thr'.eventInj # Garbage
        /\ thr'.cleanI => thr'.interceptDb = thr.interceptDb
                          /\ thr'.interceptIret = thr.interceptIret
    BY <1>0, <2>1, HandlerKeeps
  <2>3. thr' \in ThreadState
    BY <2>2 DEF ThreadInv
  <2>4. InterceptsCurrent'
    BY <1>1, <2>2 DEF IInv, InterceptsCurrent, HandleExit
  <2>5. TypeOK'
    <3>1. hwI' \in [db : BOOLEAN, iret : BOOLEAN]
      BY <2>3, <2>4 DEF InterceptsCurrent, ThreadState
    <3>2. insn' \in Insns
      BY <1>0, <1>1, <2>1 DEF HandleExit
    <3> QED
      BY <1>0, <1>1, <2>3, <3>1, <3>2 DEF HandleExit, TypeOK, NoExit
  <2> QED
    BY <1>1, <2>2, <2>4, <2>5 DEF IInv, ExitsIntercepted, HandleExit, NoExit
<1>2. CASE Interrupt
  BY <1>2, DeliverKeeps DEF Interrupt
<1>3. CASE InjectEvent
  BY <1>3, DeliverKeeps DEF InjectEvent
<1>4. CASE DebugTrap
  <2>1. CASE hwI.db
    <3>1. VmExit("DB") /\ thr' = [thr EXCEPT !.bs = TRUE] /\ trap' = FALSE
      BY <1>4, <2>1 DEF DebugTrap
    <3>2. thr' \in ThreadState
      BY <1>0, <3>1, Zenon DEF ThreadState
    <3>3. /\ thr'.eventInj = thr.eventInj /\ thr'.resume = thr.resume
          /\ thr'.queueEvent = thr.queueEvent
          /\ thr'.interceptDb = thr.interceptDb
          /\ thr'.interceptIret = thr.interceptIret
      BY <1>0, <3>1, SMT DEF ThreadState
    <3>4. "DB" \in Codes
      BY DEF Codes
    <3> QED
      BY <1>0, <2>1, <3>1, <3>2, <3>3, <3>4, VmExitType, GuestStepKeeps DEF TypeOK
  <2>2. CASE ~hwI.db
    BY <1>4, <2>2, DeliverKeeps DEF DebugTrap
  <2> QED
    BY <2>1, <2>2
<1>5. CASE Access
  <2>1. CASE tlb = "none" /\ ~thr.present
    <3>1. VmExit("NPF") /\ UNCHANGED <<thr, trap>>
      BY <1>5, <2>1 DEF Access
    <3>2. "NPF" \in Codes
      BY DEF Codes
    <3> QED
      BY <1>0, <3>1, <3>2, VmExitType, GuestStepKeeps DEF TypeOK
  <2>2. CASE ~(tlb = "none" /\ ~thr.present)
    <3> DEFINE page == IF tlb = "none" THEN thr.page ELSE tlb
    <3>1. page \in Pages
      BY <1>0 DEF TypeOK, ThreadState
    <3>2. /\ seen' = [reg |-> insn, page |-> page, odd |-> ~seen.odd]
          /\ tlb' = page /\ insn' \in NextInsn(Len(frames))
          /\ UNCHANGED <<thr, frames, want, exit, hwI>>
          /\ trap' \in BOOLEAN /\ exit = NoExit /\ insn \in LapicRegs
      BY <1>5, <2>2 DEF Access, Retire, Running
    <3> HIDE DEF page
    <3>3. seen' \in [reg : {"version", "lapic"}, page : Pages, odd : BOOLEAN]
      BY <1>0, <3>1, <3>2 DEF TypeOK, LapicRegs
    <3>4. /\ exit'.code # "DB" /\ exit'.code # "IRET"
          /\ exit' \in [code : Codes \cup {"none"}, info : VectoringInfo \cup {NoEvent}]
      BY <3>2 DEF NoExit
    <3> QED
      BY <1>0, <3>1, <3>2, <3>3, <3>4, GuestStepKeeps DEF TypeOK
  <2> QED
    BY <2>1, <2>2
<1>6. CASE PopTf
  <2>1. /\ thr' = [thr EXCEPT !.tf = ~want] /\ want' = ~want
        /\ insn' \in NextInsn(Len(frames))
        /\ UNCHANGED <<tlb, frames, seen, exit, hwI>>
        /\ trap' \in BOOLEAN /\ exit = NoExit
    BY <1>6 DEF PopTf, Retire, Running
  <2>2. thr' \in ThreadState
    <3>1. (~want) \in BOOLEAN
      OBVIOUS
    <3> QED
      BY <1>0, <2>1, <3>1, Zenon DEF ThreadState
  <2>3. /\ thr'.eventInj = thr.eventInj /\ thr'.resume = thr.resume
        /\ thr'.queueEvent = thr.queueEvent
        /\ thr'.interceptDb = thr.interceptDb
        /\ thr'.interceptIret = thr.interceptIret
    BY <1>0, <2>1, SMT DEF ThreadState
  <2>4. /\ exit'.code # "DB" /\ exit'.code # "IRET"
        /\ exit' \in [code : Codes \cup {"none"}, info : VectoringInfo \cup {NoEvent}]
    BY <2>1 DEF NoExit
  <2> QED
    BY <1>0, <2>1, <2>2, <2>3, <2>4, GuestStepKeeps DEF TypeOK
<1>7. CASE Iret
  <2>1. CASE hwI.iret
    <3>1. VmExit("IRET") /\ UNCHANGED <<thr, trap>>
      BY <1>7, <2>1 DEF Iret
    <3>2. "IRET" \in Codes
      BY DEF Codes
    <3> QED
      BY <1>0, <2>1, <3>1, <3>2, VmExitType, GuestStepKeeps DEF TypeOK
  <2>2. CASE ~hwI.iret
    <3> DEFINE top == frames[Len(frames)]
    <3>1. /\ thr' = [thr EXCEPT !.tf = top.tf] /\ want' = top.want
          /\ frames' = Pop(frames) /\ frames # << >>
          /\ insn' \in ReturnsTo(frames)
          /\ UNCHANGED <<tlb, seen, exit, hwI>>
          /\ trap' \in BOOLEAN /\ exit = NoExit
      BY <1>7, <2>2 DEF Iret, Retire, Running
    <3>2. /\ insn' \in Insns /\ frames' \in Seq(Frame)
          /\ Len(frames') <= MaxDepth /\ top \in Frame
      BY <1>0, <3>1, ReturnsToType, MaxDepthAssumption DEF TypeOK
    <3> HIDE DEF top
    <3>3. top.tf \in BOOLEAN /\ top.want \in BOOLEAN
      BY <3>2 DEF Frame
    <3>4. thr' \in ThreadState
      BY <1>0, <3>1, <3>3, Zenon DEF ThreadState
    <3>5. /\ thr'.eventInj = thr.eventInj /\ thr'.resume = thr.resume
          /\ thr'.queueEvent = thr.queueEvent
          /\ thr'.interceptDb = thr.interceptDb
          /\ thr'.interceptIret = thr.interceptIret
      BY <1>0, <3>1, SMT DEF ThreadState
    <3>6. /\ exit'.code # "DB" /\ exit'.code # "IRET"
          /\ exit' \in [code : Codes \cup {"none"}, info : VectoringInfo \cup {NoEvent}]
      BY <3>1 DEF NoExit
    <3> QED
      BY <1>0, <3>1, <3>2, <3>3, <3>4, <3>5, <3>6, GuestStepKeeps DEF TypeOK
  <2> QED
    BY <2>1, <2>2
<1>8. CASE Plain
  <2>1. /\ insn' \in NextInsn(Len(frames))
        /\ UNCHANGED <<thr, tlb, frames, seen, want, exit, hwI>>
        /\ trap' \in BOOLEAN /\ exit = NoExit
    BY <1>8 DEF Plain, Retire, Running
  <2>2. /\ exit'.code # "DB" /\ exit'.code # "IRET"
        /\ exit' \in [code : Codes \cup {"none"}, info : VectoringInfo \cup {NoEvent}]
    BY <2>1 DEF NoExit
  <2> QED
    BY <1>0, <2>1, <2>2, GuestStepKeeps DEF TypeOK
<1>9. CASE Intercepted
  <2>1. PICK code \in {"CPUID", "MSR", "VMRUN", "UD"} : VmExit(code)
    BY <1>9 DEF Intercepted
  <2>2. code \in Codes
    BY DEF Codes
  <2>3. UNCHANGED <<thr, trap>>
    BY <1>9 DEF Intercepted
  <2> QED
    BY <1>0, <2>1, <2>2, <2>3, VmExitType, GuestStepKeeps DEF TypeOK
<1>10. CASE UNCHANGED vars
  BY <1>10 DEF vars, IInv, TypeOK, InterceptsCurrent, ExitsIntercepted
<1> QED
  BY <1>1, <1>2, <1>3, <1>4, <1>5, <1>6, <1>7, <1>8, <1>9, <1>10 DEF Next, Guest

\* The inductive invariant holds in every behaviour.
THEOREM InductiveInvariant == Spec => []IInv
<1>1. Init => IInv
  BY InitIInv
<1>2. IInv /\ [Next]_vars => IInv'
  BY NextIInv
<1> QED
  BY <1>1, <1>2, PTL DEF Spec

\* Type correctness: every variable keeps its type and the guest's stack its bound.
THEOREM TypeCorrect == Spec => []TypeOK
<1>1. IInv => TypeOK
  BY DEF IInv
<1> QED
  BY <1>1, InductiveInvariant, PTL

\* No slot of the unzeroed thread context, and no unassigned QueueEvent, is
\* ever used by the handlers.
THEOREM NeverUninitialised == Spec => []NoUninitialisedUse
<1>1. IInv => NoUninitialisedUse
  BY DEF IInv, ThreadInv, ExitsIntercepted, NoUninitialisedUse
<1> QED
  BY <1>1, InductiveInvariant, PTL

\* No handler, in whatever state it is entered, drops an external event whose
\* delivery the exit interrupted.
THEOREM ExternalEventsKept == Spec => ExternalEventKept
<1>1. IInv /\ [Next]_vars =>
        [exit # NoExit /\ exit' = NoExit /\ IsExternal(exit.info) =>
           \/ thr'.eventInj = exit.info
           \/ thr'.interceptIret /\ thr'.queueEvent = exit.info]_vars
  <2> SUFFICES ASSUME IInv, [Next]_vars, exit # NoExit, exit' = NoExit,
                      IsExternal(exit.info)
               PROVE  \/ thr'.eventInj = exit.info
                      \/ thr'.interceptIret /\ thr'.queueEvent = exit.info
    OBVIOUS
  <2>1. HandleExit
    BY DEF Next, Guest, vars, Interrupt, InjectEvent, DebugTrap, Access, PopTf,
           Iret, Plain, Intercepted, Running, VmExit, Deliver
  <2>2. /\ thr' = InterceptionHandler(thr, exit, insn)
        /\ exit \in [code : Codes \cup {"none"}, info : VectoringInfo \cup {NoEvent}]
        /\ exit.code = "DB" => thr.interceptDb
        /\ exit.code = "IRET" => thr.interceptIret
        /\ insn \in Insns /\ ThreadInv(thr)
    BY <2>1 DEF HandleExit, IInv, TypeOK, ExitsIntercepted
  <2> QED
    BY <2>2, HandlerKeeps
<1> QED
  BY <1>1, InductiveInvariant, PTL DEF Spec, ExternalEventKept
=============================================================================
