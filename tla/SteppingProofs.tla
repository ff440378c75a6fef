--------------------------- MODULE SteppingProofs ---------------------------
(***************************************************************************)
(* Theorems about the single-step engine of VmExit: what raises an exit,   *)
(* when the local APIC page is mapped, and where the runtime's TF is.  The *)
(* environments of the runs that check these invariants are hypotheses;    *)
(* the guest and the nesting bound are arbitrary.                          *)
(***************************************************************************)
EXTENDS VmExitProofs

-----------------------------------------------------------------------------
(* What each part of the handler changes. *)

\* The fields no part of event arbitration writes.
Rest(t) == <<t.interceptDb, t.tlbFlush, t.bs, t.msrBtf, t.ssTf, t.btf,
             t.resume, t.context, t.present, t.page>>

\* Arbitration injects the handler's event, the interrupted one or #DF; a #DB
\* the step owes the guest loses only to a machine check (Handler.c,
\* ExceptionPriorities).
LEMMA HandleEventsChoice ==
  ASSUME NEW inj, HandlerEvent(inj),
         NEW info \in VectoringInfo \cup {NoEvent}
  PROVE  LET chosen == HandleEvents(inj, info)
         IN  /\ chosen.inj \in {inj, info, DoubleFault}
             /\ info = NoEvent => chosen.inj = inj
             /\ inj = DebugException /\ ~IsExternal(info) /\ info.vector # 18
                  => chosen.inj = DebugException
<1> DEFINE chosen == HandleEvents(inj, info)
<1>1. CASE IsDiscarded(info)
  BY <1>1 DEF HandleEvents
<1>2. CASE ~IsDiscarded(info) /\ inj = NoEvent
  <2>1. chosen.inj = info
    BY <1>2 DEF HandleEvents
  <2>2. info # NoEvent
    BY <1>2 DEF IsDiscarded, NoEvent
  <2>3. inj # DebugException
    BY <1>2, EventFacts
  <2> QED
    BY <2>1, <2>2, <2>3
<1>3. CASE ~IsDiscarded(info) /\ inj # NoEvent
  <2>1. info # NoEvent /\ info \in Event
    BY <1>3, EventFacts DEF IsDiscarded, NoEvent
  <2>2. inj \in Event /\ inj.type # "SW" /\ PriorityIndex(inj.vector) < Unlisted
    BY <1>3, HandlerEventListed
  <2>3. PriorityIndex(inj.vector) \in Int /\ PriorityIndex(info.vector) \in Int
    BY <2>1, <2>2, PriorityIndexType DEF Event, Unlisted
  <2>4. CASE CombineToDf(inj, info)
    <3>1. chosen.inj = DoubleFault
      BY <1>3, <2>4 DEF HandleEvents
    <3>2. inj # DebugException
      BY <2>4 DEF CombineToDf, DebugException, Exception
    <3> QED
      BY <2>1, <3>1, <3>2
  <2>5. CASE ~CombineToDf(inj, info)
    <3>1. chosen = IF PriorityIndex(inj.vector) <= PriorityIndex(info.vector)
                   THEN [inj |-> inj, queue |-> IF info.type = "EXC" THEN NoEvent ELSE info]
                   ELSE [inj |-> info, queue |-> IF info.type = "EXC" THEN NoEvent ELSE info]
      BY <1>3, <2>2, <2>3, <2>5 DEF HandleEvents, Unlisted
    <3>2. chosen.inj = IF PriorityIndex(inj.vector) <= PriorityIndex(info.vector)
                       THEN inj ELSE info
      BY <3>1
    <3>3. PriorityIndex(1) = 1
      BY DEF PriorityIndex
    <3>4. info.vector \in 0..255 /\ (info.vector # 18 => PriorityIndex(info.vector) >= 1)
      BY <2>1 DEF PriorityIndex, Event, Unlisted
    <3>5. inj = DebugException => inj.vector = 1
      BY DEF DebugException, Exception
    <3> QED
      BY <2>1, <3>2, <3>3, <3>4, <3>5
  <2> QED
    BY <2>4, <2>5
<1> QED
  BY <1>1, <1>2, <1>3

\* Arbitration on the thread state: only an external event is queued, and only
\* queueing touches the guest's TF (Iret.c, QueueEvent).
LEMMA ArbitrateEffect ==
  ASSUME NEW t, ThreadInv(t), HandlerEvent(t.eventInj),
         NEW info \in VectoringInfo \cup {NoEvent},
         NEW a, a = ArbitrateEvents(t, info)
  PROVE  /\ Rest(a) = Rest(t)
         /\ a.tf = t.tf \/ (~a.tf /\ IsExternal(info))
         /\ ~IsExternal(info) => a.tf = t.tf /\ a.interceptIret = t.interceptIret
         /\ a.eventInj \in {t.eventInj, info, DoubleFault}
         /\ info = NoEvent => a.eventInj = t.eventInj
         /\ t.eventInj = DebugException /\ ~IsExternal(info) /\ info.vector # 18
              => a.eventInj = DebugException
<1> DEFINE chosen == HandleEvents(t.eventInj, info)
           s == [t EXCEPT !.eventInj = chosen.inj]
<1>1. /\ chosen.queue \in {NoEvent, info}
      /\ chosen.queue # NoEvent => IsExternal(info)
  BY HandleEventsKeeps
<1>2. /\ chosen.inj \in {t.eventInj, info, DoubleFault}
      /\ info = NoEvent => chosen.inj = t.eventInj
      /\ t.eventInj = DebugException /\ ~IsExternal(info) /\ info.vector # 18
           => chosen.inj = DebugException
  BY HandleEventsChoice
<1>3. a = IF chosen.queue = NoEvent THEN s ELSE QueueEvent(s, chosen.queue)
  BY DEF ArbitrateEvents
<1>4. chosen.inj \in Event \cup {NoEvent}
  BY HandleEventsKeeps
<1> HIDE DEF chosen
<1>5. t \in ThreadState
  BY DEF ThreadInv
<1>6. s \in ThreadState
  BY <1>4, <1>5, Zenon DEF ThreadState
<1>7. /\ Rest(s) = Rest(t) /\ s.tf = t.tf /\ s.interceptIret = t.interceptIret
      /\ s.eventInj = chosen.inj
  BY <1>5, SMT DEF ThreadState, Rest
<1> HIDE DEF s
<1>8. CASE chosen.queue = NoEvent
  BY <1>2, <1>3, <1>7, <1>8
<1>9. CASE chosen.queue # NoEvent
  <2>1. a = QueueEvent(s, info) /\ IsExternal(info)
    BY <1>1, <1>3, <1>9
  <2>2. Rest(a) = Rest(s) /\ ~a.tf /\ a.eventInj = s.eventInj
    BY <1>6, <2>1, SMT DEF ThreadState, Rest, QueueEvent
  <2> QED
    BY <1>2, <1>7, <2>1, <2>2
<1> QED
  BY <1>8, <1>9

-----------------------------------------------------------------------------
(* What the handler does for each exit. *)

\* The state in which an exit enters the handler.
Entered(t, x, opcode) ==
  /\ ThreadInv(t)
  /\ x \in [code : Codes \cup {"none"}, info : VectoringInfo \cup {NoEvent}]
  /\ opcode \in Insns
  /\ x.code = "DB" => t.interceptDb
  /\ x.code = "IRET" => t.interceptIret

\* What the handler first makes of it, before the switch.
Cleared(t) == [t EXCEPT !.eventInj = NoEvent, !.cleanI = TRUE]

\* The handler arbitrates what the switch did to the cleared state.
LEMMA HandlerEffect ==
  ASSUME NEW t, NEW x, NEW opcode, Entered(t, x, opcode),
         NEW s, s = Cleared(t),
         NEW d, d = Dispatch(s, x.code, opcode),
         NEW h, h = InterceptionHandler(t, x, opcode)
  PROVE  /\ t \in ThreadState /\ s \in ThreadState /\ d \in ThreadState
         /\ ThreadInv(s) /\ ThreadInv(h) /\ HandlerEvent(d.eventInj)
         /\ x.info \in VectoringInfo \cup {NoEvent}
         /\ s.eventInj = NoEvent /\ Rest(s) = Rest(t) /\ s.tf = t.tf
         /\ s.interceptIret = t.interceptIret /\ s.iretTf = t.iretTf
         /\ s.queueEvent = t.queueEvent
         /\ Rest(h) = Rest(d)
         /\ h.tf = d.tf \/ (~h.tf /\ IsExternal(x.info))
         /\ ~IsExternal(x.info) => h.tf = d.tf /\ h.interceptIret = d.interceptIret
         /\ h.eventInj \in {d.eventInj, x.info, DoubleFault}
         /\ x.info = NoEvent => h.eventInj = d.eventInj
         /\ d.eventInj = DebugException /\ ~IsExternal(x.info) /\ x.info.vector # 18
              => h.eventInj = DebugException
<1>0. ThreadInv(t) /\ t \in ThreadState
  BY DEF Entered, ThreadInv
<1>1. /\ x \in [code : Codes \cup {"none"}, info : VectoringInfo \cup {NoEvent}]
      /\ opcode \in Insns
      /\ x.code = "DB" => t.interceptDb
      /\ x.code = "IRET" => t.interceptIret
  BY DEF Entered
<1>2. x.code \in Codes \cup {"none"} /\ x.info \in VectoringInfo \cup {NoEvent}
  BY <1>1
<1>3. s \in ThreadState
  BY <1>0, Zenon DEF ThreadState, Cleared
<1>4. /\ s.eventInj = NoEvent /\ s.cleanI = TRUE /\ Rest(s) = Rest(t) /\ s.tf = t.tf
      /\ s.interceptIret = t.interceptIret /\ s.iretTf = t.iretTf
      /\ s.queueEvent = t.queueEvent
      /\ s.interceptDb = t.interceptDb /\ s.resume = t.resume
  BY <1>0, SMT DEF ThreadState, Rest, Cleared
<1>5. ThreadInv(s)
  BY <1>0, <1>3, <1>4 DEF ThreadInv
<1>6. ThreadInv(d) /\ HandlerEvent(d.eventInj)
  <2>1. PICK code \in Codes \cup {"none"} : code = x.code
    BY <1>2
  <2>2. d = Dispatch(s, code, opcode)
    BY <2>1
  <2>3. (code = "DB" => s.interceptDb) /\ (code = "IRET" => s.interceptIret)
    BY <1>1, <1>4, <2>1
  <2>4. s.eventInj = NoEvent /\ s.cleanI = TRUE /\ opcode \in Insns
    BY <1>1, <1>4
  <2> QED
    BY <1>5, <2>1, <2>2, <2>3, <2>4, DispatchKeeps
<1>7. h = ArbitrateEvents(d, x.info)
  BY DEF InterceptionHandler, Cleared
<1>8. ThreadInv(h)
  BY <1>2, <1>6, <1>7, ArbitrateKeeps
<1>9. d \in ThreadState
  BY <1>6 DEF ThreadInv
<1>10. /\ Rest(h) = Rest(d)
       /\ h.tf = d.tf \/ (~h.tf /\ IsExternal(x.info))
       /\ ~IsExternal(x.info) => h.tf = d.tf /\ h.interceptIret = d.interceptIret
       /\ h.eventInj \in {d.eventInj, x.info, DoubleFault}
       /\ x.info = NoEvent => h.eventInj = d.eventInj
       /\ d.eventInj = DebugException /\ ~IsExternal(x.info) /\ x.info.vector # 18
            => h.eventInj = DebugException
  BY <1>2, <1>6, <1>7, ArbitrateEffect
<1> QED
  BY <1>0, <1>2, <1>3, <1>4, <1>5, <1>6, <1>8, <1>9, <1>10, Zenon

\* A nested page fault maps the page and arms the step (NestedPageFault.c).
LEMMA NpfEffect ==
  ASSUME NEW t, NEW x, NEW opcode, Entered(t, x, opcode), x.code = "NPF",
         NEW h, h = InterceptionHandler(t, x, opcode)
  PROVE  /\ h.interceptDb /\ h.present /\ h.page = MmioLapic(opcode) /\ h.tlbFlush
         /\ h.resume = "NpfPostStep" /\ h.ssTf = t.tf /\ ~h.msrBtf
         /\ h.bs = t.bs
         /\ ~IsExternal(x.info) => h.tf
         /\ h.eventInj \in {NoEvent, x.info, DoubleFault}
         /\ x.info = NoEvent => h.eventInj = NoEvent
<1> DEFINE s == Cleared(t)
           d == Dispatch(s, x.code, opcode)
<1>0. s = Cleared(t) /\ d = Dispatch(s, x.code, opcode)
  OBVIOUS
<1>1. d = ExceptionNpf(s, opcode)
  BY DEF Dispatch
<1> HIDE DEF s, d
<1>2. /\ s \in ThreadState /\ s.eventInj = NoEvent /\ Rest(s) = Rest(t) /\ s.tf = t.tf
      /\ Rest(h) = Rest(d)
      /\ ~IsExternal(x.info) => h.tf = d.tf
      /\ h.eventInj \in {d.eventInj, x.info, DoubleFault}
      /\ x.info = NoEvent => h.eventInj = d.eventInj
  BY <1>0, HandlerEffect
<1>3. /\ d.interceptDb /\ d.present /\ d.page = MmioLapic(opcode) /\ d.tlbFlush
      /\ d.resume = "NpfPostStep" /\ d.ssTf = s.tf /\ ~d.msrBtf
      /\ d.bs = s.bs /\ d.tf /\ d.eventInj = s.eventInj
  BY <1>1, <1>2, SMT DEF ThreadState, ExceptionNpf, SingleStepRip
<1>4. s.bs = t.bs
  BY <1>2, SMT DEF Rest
<1>5. /\ h.interceptDb = d.interceptDb /\ h.present = d.present /\ h.page = d.page
      /\ h.tlbFlush = d.tlbFlush /\ h.resume = d.resume /\ h.ssTf = d.ssTf
      /\ h.msrBtf = d.msrBtf /\ h.bs = d.bs
  BY <1>2, SMT DEF Rest
<1> QED
  BY <1>2, <1>3, <1>4, <1>5

\* An intercepted iret is armed, and the intercept given up (Iret.c).
LEMMA IretEffect ==
  ASSUME NEW t, NEW x, NEW opcode, Entered(t, x, opcode), x.code = "IRET",
         NEW h, h = InterceptionHandler(t, x, opcode)
  PROVE  /\ h.interceptDb /\ h.present = t.present /\ h.page = t.page
         /\ h.tlbFlush = t.tlbFlush
         /\ h.resume = "IretTfIntercept" /\ h.ssTf = t.tf /\ ~h.msrBtf
         /\ h.bs = t.bs
         /\ ~IsExternal(x.info) => h.tf /\ ~h.interceptIret
         /\ h.eventInj \in {NoEvent, x.info, DoubleFault}
         /\ x.info = NoEvent => h.eventInj = NoEvent
<1> DEFINE s == Cleared(t)
           d == Dispatch(s, x.code, opcode)
<1>0. s = Cleared(t) /\ d = Dispatch(s, x.code, opcode)
  OBVIOUS
<1>1. d = ExceptionIret(s)
  BY DEF Dispatch
<1> HIDE DEF s, d
<1>2. /\ s \in ThreadState /\ s.eventInj = NoEvent /\ Rest(s) = Rest(t) /\ s.tf = t.tf
      /\ Rest(h) = Rest(d)
      /\ ~IsExternal(x.info) => h.tf = d.tf /\ h.interceptIret = d.interceptIret
      /\ h.eventInj \in {d.eventInj, x.info, DoubleFault}
      /\ x.info = NoEvent => h.eventInj = d.eventInj
  BY <1>0, HandlerEffect
<1>3. /\ d.interceptDb /\ d.present = s.present /\ d.page = s.page
      /\ d.tlbFlush = s.tlbFlush /\ ~d.interceptIret
      /\ d.resume = "IretTfIntercept" /\ d.ssTf = s.tf /\ ~d.msrBtf
      /\ d.bs = s.bs /\ d.tf /\ d.eventInj = s.eventInj
  BY <1>1, <1>2, SMT DEF ThreadState, ExceptionIret, SingleStepRip
<1>4. s.bs = t.bs /\ s.present = t.present /\ s.page = t.page /\ s.tlbFlush = t.tlbFlush
  BY <1>2, SMT DEF Rest
<1>5. /\ h.interceptDb = d.interceptDb /\ h.present = d.present /\ h.page = d.page
      /\ h.tlbFlush = d.tlbFlush /\ h.resume = d.resume /\ h.ssTf = d.ssTf
      /\ h.msrBtf = d.msrBtf /\ h.bs = d.bs
  BY <1>2, SMT DEF Rest
<1> QED
  BY <1>2, <1>3, <1>4, <1>5

\* The trap behind a stepped local APIC access unmaps the page, and either
\* passes the #DB on to the guest or leaves no trace of it (Debug.c,
\* NestedPageFault.c).
LEMMA DebugNpfEffect ==
  ASSUME NEW t, NEW x, NEW opcode, Entered(t, x, opcode), x.code = "DB",
         t.resume = "NpfPostStep",
         NEW h, h = InterceptionHandler(t, x, opcode)
  PROVE  /\ ~h.interceptDb /\ ~h.present /\ h.tlbFlush
         /\ h.resume = t.resume /\ h.ssTf = t.ssTf /\ h.msrBtf = t.msrBtf
         /\ t.ssTf => /\ h.bs = t.bs
                      /\ ~IsExternal(x.info) => h.tf = t.tf
                      /\ h.eventInj \in {DebugException, x.info, DoubleFault}
                      /\ ~IsExternal(x.info) /\ x.info.vector # 18
                           => h.eventInj = DebugException
         /\ ~t.ssTf => /\ ~h.tf /\ ~h.bs
                       /\ h.eventInj \in {NoEvent, x.info, DoubleFault}
<1> DEFINE s == Cleared(t)
           d == Dispatch(s, x.code, opcode)
<1>0. s = Cleared(t) /\ d = Dispatch(s, x.code, opcode)
  OBVIOUS
<1>1. d = ExceptionDebug(s)
  BY DEF Dispatch
<1> HIDE DEF s, d
<1>2. /\ s \in ThreadState /\ s.eventInj = NoEvent /\ Rest(s) = Rest(t) /\ s.tf = t.tf
      /\ Rest(h) = Rest(d)
      /\ h.tf = d.tf \/ (~h.tf /\ IsExternal(x.info))
      /\ ~IsExternal(x.info) => h.tf = d.tf
      /\ h.eventInj \in {d.eventInj, x.info, DoubleFault}
      /\ d.eventInj = DebugException /\ ~IsExternal(x.info) /\ x.info.vector # 18
           => h.eventInj = DebugException
  BY <1>0, HandlerEffect
<1>3. /\ s.bs = t.bs /\ s.resume = t.resume /\ s.ssTf = t.ssTf /\ s.msrBtf = t.msrBtf
  BY <1>2, SMT DEF Rest
<1> DEFINE r == NpfPostStep(s)
           q == [r EXCEPT !.interceptDb = FALSE, !.cleanI = FALSE]
<1>4. d = IF q.ssTf THEN [q EXCEPT !.eventInj = DebugException]
          ELSE [q EXCEPT !.tf = FALSE, !.bs = FALSE]
  BY <1>1, <1>3 DEF ExceptionDebug, Resume
<1>5. r \in ThreadState
  BY <1>2, Zenon DEF ThreadState, NpfPostStep, Pages
<1>6. q \in ThreadState
  BY <1>5, Zenon DEF ThreadState
<1>7. /\ ~q.interceptDb /\ ~q.present /\ q.tlbFlush /\ q.eventInj = NoEvent
      /\ q.bs = s.bs /\ q.resume = s.resume /\ q.ssTf = s.ssTf /\ q.msrBtf = s.msrBtf
      /\ q.tf = s.tf
  BY <1>2, SMT DEF ThreadState, NpfPostStep
<1> HIDE DEF q
<1>8. /\ ~d.interceptDb /\ ~d.present /\ d.tlbFlush
      /\ d.resume = t.resume /\ d.ssTf = t.ssTf /\ d.msrBtf = t.msrBtf
      /\ t.ssTf => d.bs = t.bs /\ d.tf = t.tf /\ d.eventInj = DebugException
      /\ ~t.ssTf => ~d.bs /\ ~d.tf /\ d.eventInj = NoEvent
  <2>1. CASE q.ssTf
    <3>1. d = [q EXCEPT !.eventInj = DebugException]
      BY <1>4, <2>1
    <3>2. /\ d.interceptDb = q.interceptDb /\ d.present = q.present
          /\ d.tlbFlush = q.tlbFlush /\ d.resume = q.resume /\ d.ssTf = q.ssTf
          /\ d.msrBtf = q.msrBtf /\ d.bs = q.bs /\ d.tf = q.tf
          /\ d.eventInj = DebugException
      BY <1>6, <3>1, SMT DEF ThreadState
    <3> QED
      BY <1>2, <1>3, <1>7, <2>1, <3>2
  <2>2. CASE ~q.ssTf
    <3>1. d = [q EXCEPT !.tf = FALSE, !.bs = FALSE]
      BY <1>4, <2>2
    <3>2. /\ d.interceptDb = q.interceptDb /\ d.present = q.present
          /\ d.tlbFlush = q.tlbFlush /\ d.resume = q.resume /\ d.ssTf = q.ssTf
          /\ d.msrBtf = q.msrBtf /\ ~d.bs /\ ~d.tf
          /\ d.eventInj = q.eventInj
      BY <1>6, <3>1, SMT DEF ThreadState
    <3> QED
      BY <1>2, <1>3, <1>7, <2>2, <3>2
  <2> QED
    BY <2>1, <2>2
<1>9. /\ h.interceptDb = d.interceptDb /\ h.present = d.present
      /\ h.tlbFlush = d.tlbFlush /\ h.resume = d.resume /\ h.ssTf = d.ssTf
      /\ h.msrBtf = d.msrBtf /\ h.bs = d.bs
  BY <1>2, SMT DEF Rest
<1> QED
  BY <1>2, <1>8, <1>9

\* The trap behind a stepped iret injects the queued event, unless the guest is
\* owed a #DB (Debug.c, Iret.c).
LEMMA DebugIretEffect ==
  ASSUME NEW t, NEW x, NEW opcode, Entered(t, x, opcode), x.code = "DB",
         t.resume = "IretTfIntercept",
         NEW h, h = InterceptionHandler(t, x, opcode)
  PROVE  /\ ~h.interceptDb /\ h.present = t.present /\ h.tlbFlush = t.tlbFlush
         /\ h.page = t.page /\ h.resume = t.resume /\ h.ssTf = t.ssTf
         /\ h.msrBtf = t.msrBtf
         /\ t.ssTf => h.eventInj \in {DebugException, x.info, DoubleFault}
         /\ ~t.ssTf => /\ ~h.tf /\ ~h.bs
                       /\ h.eventInj \in {t.queueEvent, x.info, DoubleFault}
<1> DEFINE s == Cleared(t)
           d == Dispatch(s, x.code, opcode)
<1>0. s = Cleared(t) /\ d = Dispatch(s, x.code, opcode)
  OBVIOUS
<1>1. d = ExceptionDebug(s)
  BY DEF Dispatch
<1> HIDE DEF s, d
<1>2. /\ s \in ThreadState /\ Rest(s) = Rest(t)
      /\ s.queueEvent = t.queueEvent
      /\ ThreadInv(s)
      /\ Rest(h) = Rest(d)
      /\ h.tf = d.tf \/ (~h.tf /\ IsExternal(x.info))
      /\ h.eventInj \in {d.eventInj, x.info, DoubleFault}
  BY <1>0, HandlerEffect
<1>3. /\ s.bs = t.bs /\ s.resume = t.resume /\ s.ssTf = t.ssTf /\ s.msrBtf = t.msrBtf
      /\ s.present = t.present /\ s.page = t.page /\ s.tlbFlush = t.tlbFlush
  BY <1>2, SMT DEF Rest
<1> DEFINE r == IretTfIntercept(s)
           q == [r EXCEPT !.interceptDb = FALSE, !.cleanI = FALSE]
<1>4. d = IF q.ssTf THEN [q EXCEPT !.eventInj = DebugException]
          ELSE [q EXCEPT !.tf = FALSE, !.bs = FALSE]
  BY <1>1, <1>3 DEF ExceptionDebug, Resume
<1>5. r \in ThreadState
  <2>1. s.queueEvent \in Event
    BY <1>2, <1>3, EventFacts DEF ThreadInv
  <2>2. PICK tf \in BOOLEAN : r = [s EXCEPT !.eventInj = s.queueEvent, !.tf = tf]
    BY Zenon DEF IretTfIntercept
  <2> QED
    BY <1>2, <2>1, <2>2, Zenon DEF ThreadState
<1>6. q \in ThreadState
  BY <1>5, Zenon DEF ThreadState
<1>7. /\ ~q.interceptDb /\ q.eventInj = s.queueEvent
      /\ q.resume = s.resume /\ q.ssTf = s.ssTf /\ q.msrBtf = s.msrBtf
      /\ q.present = s.present /\ q.page = s.page /\ q.tlbFlush = s.tlbFlush
  BY <1>2, SMT DEF ThreadState, IretTfIntercept
<1> HIDE DEF q
<1>8. /\ ~d.interceptDb /\ d.present = t.present /\ d.page = t.page
      /\ d.tlbFlush = t.tlbFlush
      /\ d.resume = t.resume /\ d.ssTf = t.ssTf /\ d.msrBtf = t.msrBtf
      /\ t.ssTf => d.eventInj = DebugException
      /\ ~t.ssTf => ~d.bs /\ ~d.tf /\ d.eventInj = t.queueEvent
  <2>1. CASE q.ssTf
    <3>1. d = [q EXCEPT !.eventInj = DebugException]
      BY <1>4, <2>1
    <3>2. /\ d.interceptDb = q.interceptDb /\ d.present = q.present /\ d.page = q.page
          /\ d.tlbFlush = q.tlbFlush /\ d.resume = q.resume /\ d.ssTf = q.ssTf
          /\ d.msrBtf = q.msrBtf /\ d.eventInj = DebugException
      BY <1>6, <3>1, SMT DEF ThreadState
    <3> QED
      BY <1>2, <1>3, <1>7, <2>1, <3>2
  <2>2. CASE ~q.ssTf
    <3>1. d = [q EXCEPT !.tf = FALSE, !.bs = FALSE]
      BY <1>4, <2>2
    <3>2. /\ d.interceptDb = q.interceptDb /\ d.present = q.present /\ d.page = q.page
          /\ d.tlbFlush = q.tlbFlush /\ d.resume = q.resume /\ d.ssTf = q.ssTf
          /\ d.msrBtf = q.msrBtf /\ ~d.bs /\ ~d.tf
          /\ d.eventInj = q.eventInj
      BY <1>6, <3>1, SMT DEF ThreadState
    <3> QED
      BY <1>2, <1>3, <1>7, <2>2, <3>2
  <2> QED
    BY <2>1, <2>2
<1>9. /\ h.interceptDb = d.interceptDb /\ h.present = d.present /\ h.page = d.page
      /\ h.tlbFlush = d.tlbFlush /\ h.resume = d.resume /\ h.ssTf = d.ssTf
      /\ h.msrBtf = d.msrBtf /\ h.bs = d.bs
  BY <1>2, SMT DEF Rest
<1> QED
  BY <1>2, <1>8, <1>9

\* The event an emulated instruction's handler asks for (UdIntercept.c, Handler.c).
Raised(code, opcode) ==
  IF code = "VMRUN" THEN InvalidOpcode
  ELSE IF code = "UD" /\ opcode # "sys"
       THEN IF opcode = "sysGp" THEN GpFault ELSE InvalidOpcode
       ELSE NoEvent

\* Every other exit leaves the step alone and at most raises a fault.
LEMMA EmulationEffect ==
  ASSUME NEW t, NEW x, NEW opcode, Entered(t, x, opcode),
         x.code \in {"UD", "CPUID", "MSR", "VMRUN"},
         NEW h, h = InterceptionHandler(t, x, opcode)
  PROVE  /\ Rest(h) = Rest(t)
         /\ h.tf = t.tf \/ (~h.tf /\ IsExternal(x.info))
         /\ ~IsExternal(x.info) => h.tf = t.tf /\ h.interceptIret = t.interceptIret
         /\ h.eventInj \in {Raised(x.code, opcode), x.info, DoubleFault}
<1> DEFINE s == Cleared(t)
           d == Dispatch(s, x.code, opcode)
<1>0. s = Cleared(t) /\ d = Dispatch(s, x.code, opcode)
  OBVIOUS
<1> HIDE DEF s, d
<1>2. /\ s \in ThreadState /\ s.eventInj = NoEvent /\ Rest(s) = Rest(t) /\ s.tf = t.tf
      /\ s.interceptIret = t.interceptIret
      /\ Rest(h) = Rest(d)
      /\ h.tf = d.tf \/ (~h.tf /\ IsExternal(x.info))
      /\ ~IsExternal(x.info) => h.tf = d.tf /\ h.interceptIret = d.interceptIret
      /\ h.eventInj \in {d.eventInj, x.info, DoubleFault}
  BY <1>0, HandlerEffect
<1>3. \/ d = s /\ Raised(x.code, opcode) = NoEvent
      \/ d = [s EXCEPT !.eventInj = Raised(x.code, opcode)]
  BY <1>0 DEF Dispatch, ExceptionUd, Raised
<1>4. /\ Rest(d) = Rest(s) /\ d.tf = s.tf /\ d.interceptIret = s.interceptIret
      /\ d.eventInj = Raised(x.code, opcode)
  <2>1. CASE d = s /\ Raised(x.code, opcode) = NoEvent
    BY <1>2, <2>1
  <2>2. CASE d = [s EXCEPT !.eventInj = Raised(x.code, opcode)]
    BY <1>2, <2>2, SMT DEF ThreadState, Rest
  <2> QED
    BY <1>3, <2>1, <2>2
<1> QED
  BY <1>2, <1>4

-----------------------------------------------------------------------------
(* What the guest's steps change. *)

\* Delivering an event pushes one frame and touches no slot of the runtime's.
LEMMA DeliverEffect ==
  ASSUME IInv, NEW event, Deliver(event)
  PROVE  /\ thr'.interceptDb = thr.interceptDb /\ thr'.resume = thr.resume
         /\ thr'.interceptIret = thr.interceptIret
         /\ thr'.ssTf = thr.ssTf /\ thr'.present = thr.present
         /\ thr'.page = thr.page /\ thr'.tlbFlush = thr.tlbFlush
         /\ ~thr'.tf /\ thr'.eventInj = NoEvent
         /\ thr'.bs => thr.bs \/ event = DebugException
         /\ thr'.msrBtf => thr.msrBtf
         /\ Len(frames) \in Nat /\ Len(frames) < MaxDepth
         /\ Len(frames') = Len(frames) + 1
         /\ \A i \in 1..Len(frames) : frames'[i] = frames[i]
         /\ frames'[Len(frames) + 1] =
              [tf |-> thr.tf, want |-> want, insn |-> insn, cause |-> Cause(event)]
         /\ ~want' /\ ~trap' /\ UNCHANGED <<exit, hwI, tlb, seen>>
<1>1. thr \in ThreadState /\ frames \in Seq(Frame)
  BY DEF IInv, TypeOK
<1>2. /\ thr'.interceptDb = thr.interceptDb /\ thr'.resume = thr.resume
      /\ thr'.interceptIret = thr.interceptIret
      /\ thr'.ssTf = thr.ssTf /\ thr'.present = thr.present
      /\ thr'.page = thr.page /\ thr'.tlbFlush = thr.tlbFlush
      /\ ~thr'.tf /\ thr'.eventInj = NoEvent
      /\ thr'.bs => thr.bs \/ event = DebugException
      /\ thr'.msrBtf => thr.msrBtf
  BY <1>1, SMT DEF ThreadState, Deliver
<1> DEFINE top == [tf |-> thr.tf, want |-> want, insn |-> insn, cause |-> Cause(event)]
<1>3. frames' = Append(frames, top) /\ Len(frames) < MaxDepth
  BY DEF Deliver
<1>4. top \in Frame
  BY <1>1, Zenon DEF IInv, TypeOK, Frame, ThreadState, Cause
<1>5. top = [tf |-> thr.tf, want |-> want, insn |-> insn, cause |-> Cause(event)]
  OBVIOUS
<1> HIDE DEF top
<1>6. /\ Len(frames) \in Nat /\ Len(frames') = Len(frames) + 1
      /\ \A i \in 1..Len(frames) : frames'[i] = frames[i]
      /\ frames'[Len(frames) + 1] = top
  BY <1>1, <1>3, <1>4
<1>7. ~want' /\ ~trap' /\ UNCHANGED <<exit, hwI, tlb, seen>>
  BY DEF Deliver
<1> QED
  BY <1>2, <1>3, <1>5, <1>6, <1>7

\* Returning removes the innermost frame only.
LEMMA PopEffect ==
  ASSUME NEW f \in Seq(Frame), f # << >>
  PROVE  /\ Len(f) \in Nat \ {0} /\ Len(Pop(f)) = Len(f) - 1
         /\ \A i \in 1..Len(Pop(f)) : Pop(f)[i] = f[i]
<1> DEFINE n == Len(f) - 1
<1>1. Len(f) \in Nat \ {0} /\ n \in Nat /\ Len(Pop(f)) = n
  BY ReturnsToType
<1>2. \A i \in 1..n : f[i] \in Frame
  BY <1>1
<1>3. Pop(f) = SubSeq(f, 1, n)
  BY DEF Pop
<1>4. n = Len(f) - 1
  OBVIOUS
<1> HIDE DEF n
<1>5. \A i \in 1..n : SubSeq(f, 1, n)[i] = f[1 + i - 1]
  BY <1>1, <1>2, SubSeqProperties
<1> QED
  BY <1>1, <1>3, <1>4, <1>5

\* The events the runtime raises are four different ones.
LEMMA EventsDiffer ==
  /\ DebugException # InvalidOpcode /\ DebugException # GpFault
  /\ DebugException # DoubleFault /\ InvalidOpcode # GpFault
  /\ InvalidOpcode # DoubleFault /\ GpFault # DoubleFault
  /\ NoEvent \notin {DebugException, InvalidOpcode, GpFault, DoubleFault}
  /\ ~IsExternal(NoEvent)
  /\ [type |-> "INTR", vector |-> 32] \notin
       {NoEvent, DebugException, InvalidOpcode, GpFault}
BY DEF DebugException, InvalidOpcode, GpFault, DoubleFault, Exception, NoEvent,
       IsExternal

-----------------------------------------------------------------------------
(* What raises an exit. *)

\* While the guest runs with nothing to deliver there is nothing to show.
LEMMA QuietExitInv ==
  ASSUME exit' = NoExit, thr'.eventInj = NoEvent
  PROVE  ExitInv'
BY EventsDiffer DEF ExitInv, NoExit

\* An instruction that exits does so with nothing pending.
LEMMA RaisedExitInv ==
  ASSUME NEW code \in Codes, VmExit(code), thr'.eventInj = NoEvent, ~trap',
         code = "NPF"   => insn \in LapicRegs,
         code = "IRET"  => insn = "iret" /\ frames # << >>,
         code = "CPUID" => insn = "cpuid",
         code = "MSR"   => insn = "msr",
         code = "VMRUN" => insn = "vmrun",
         code = "UD"    => insn \in {"ud", "sys", "sysGp"}
  PROVE  ExitInv'
<1>1. UNCHANGED <<insn, frames>>
  BY DEF VmExit
<1>2. PICK info \in {NoEvent} \cup MayInterrupt(code) : exit' = [code |-> code, info |-> info]
  BY DEF VmExit
<1>3. exit'.code = code /\ exit'.info = info /\ code # "none"
  BY <1>2 DEF Codes
<1>4. (exit.info \in {NoEvent} \cup MayInterrupt(exit.code))'
  BY <1>1, <1>3 DEF MayInterrupt
<1> QED
  BY <1>1, <1>3, <1>4, EventsDiffer DEF ExitInv

\* The guest is entered with neither an exit nor an event.
LEMMA InitExitInv == Init => ExitInv
BY EventsDiffer DEF Init, ExitInv, NoExit

\* Handling an exit leaves at most the fault of the instruction at RIP.
LEMMA HandleExitExitInv ==
  ASSUME IInv, ExitInv, HandleExit
  PROVE  ExitInv'
<1>1. Entered(thr, exit, insn) /\ thr' = InterceptionHandler(thr, exit, insn)
  BY DEF IInv, TypeOK, ExitsIntercepted, HandleExit, Entered
<1>2. /\ exit' = NoExit /\ trap' = trap /\ ~trap /\ exit # NoExit
      /\ ~Emulates(exit.code, insn) => insn' = insn
      /\ exit.info \in VectoringInfo \cup {NoEvent}
      /\ exit.code \in Codes
  <2>1. exit.code \in Codes \cup {"none"}
    BY DEF IInv, TypeOK
  <2> QED
    BY <2>1 DEF IInv, TypeOK, ExitInv, HandleExit
<1>3. \A e \in {InvalidOpcode, GpFault} :
        thr'.eventInj = e /\ e \notin VectoringInfo =>
          exit.code \in {"UD", "VMRUN"} /\ e = Raised(exit.code, insn)
  <2> SUFFICES ASSUME NEW e \in {InvalidOpcode, GpFault},
                      thr'.eventInj = e, e \notin VectoringInfo
               PROVE  exit.code \in {"UD", "VMRUN"} /\ e = Raised(exit.code, insn)
    OBVIOUS
  <2>1. e \notin {NoEvent, DebugException, DoubleFault, exit.info}
    BY <1>2, EventsDiffer
  <2>2. CASE exit.code = "NPF"
    BY <1>1, <2>1, <2>2, NpfEffect
  <2>3. CASE exit.code = "IRET"
    BY <1>1, <2>1, <2>3, IretEffect
  <2>4. CASE exit.code = "DB"
    <3>1. thr.resume \in {"NpfPostStep", "IretTfIntercept"}
      BY <2>4 DEF IInv, TypeOK, ThreadState, ThreadInv, ExitsIntercepted
    <3>2. CASE thr.resume = "NpfPostStep"
      BY <1>1, <2>1, <2>4, <3>2, DebugNpfEffect
    <3>3. CASE thr.resume = "IretTfIntercept"
      <4>1. thr.queueEvent \in VectoringInfo
        BY <3>3 DEF IInv, ThreadInv
      <4> QED
        BY <1>1, <2>1, <2>4, <3>3, <4>1, DebugIretEffect
    <3> QED
      BY <3>1, <3>2, <3>3
  <2>5. CASE exit.code \in {"UD", "CPUID", "MSR", "VMRUN"}
    <3>1. e = Raised(exit.code, insn)
      BY <1>1, <2>1, <2>5, EmulationEffect
    <3> QED
      BY <2>1, <2>5, <3>1 DEF Raised
  <2> QED
    BY <1>2, <2>2, <2>3, <2>4, <2>5 DEF Codes
<1>4. thr'.eventInj = InvalidOpcode /\ InvalidOpcode \notin VectoringInfo =>
        insn' \in {"ud", "vmrun"}
  <2>1. exit.code \in {"UD", "VMRUN"} /\ InvalidOpcode = Raised(exit.code, insn) =>
          insn \in {"ud", "vmrun"} /\ ~Emulates(exit.code, insn)
    BY EventsDiffer DEF ExitInv, Raised, Emulates
  <2> QED
    BY <1>2, <1>3, <2>1
<1>5. thr'.eventInj = GpFault /\ GpFault \notin VectoringInfo => insn' = "sysGp"
  <2>1. exit.code \in {"UD", "VMRUN"} /\ GpFault = Raised(exit.code, insn) =>
          insn = "sysGp" /\ ~Emulates(exit.code, insn)
    BY EventsDiffer DEF ExitInv, Raised, Emulates
  <2> QED
    BY <1>2, <1>3, <2>1
<1> QED
  BY <1>2, <1>4, <1>5 DEF ExitInv, NoExit

\* Every step preserves ExitInv, in every environment.
LEMMA NextExitInv == IInv /\ ExitInv /\ [Next]_vars => ExitInv'
<1> SUFFICES ASSUME IInv, ExitInv, [Next]_vars PROVE ExitInv'
  OBVIOUS
<1>1. CASE HandleExit
  BY <1>1, HandleExitExitInv
<1>2. ASSUME NEW event, Deliver(event), exit = NoExit PROVE ExitInv'
  BY <1>2, DeliverEffect, QuietExitInv
<1>3. CASE Interrupt
  BY <1>2, <1>3 DEF Interrupt, Running
<1>4. CASE InjectEvent
  BY <1>2, <1>4 DEF InjectEvent
<1>5. CASE DebugTrap
  <2>1. CASE hwI.db
    <3>1. VmExit("DB") /\ ~trap' /\ thr' = [thr EXCEPT !.bs = TRUE]
          /\ thr.eventInj = NoEvent
      BY <1>5, <2>1 DEF DebugTrap, Running
    <3>2. thr'.eventInj = thr.eventInj
      BY <3>1, SMT DEF IInv, TypeOK, ThreadState
    <3> QED
      BY <3>1, <3>2, RaisedExitInv DEF Codes
  <2>2. CASE ~hwI.db
    BY <1>2, <1>5, <2>2 DEF DebugTrap, Running
  <2> QED
    BY <2>1, <2>2
<1>6. CASE Access
  <2>1. CASE tlb = "none" /\ ~thr.present
    <3>1. /\ VmExit("NPF") /\ UNCHANGED <<thr, trap>> /\ ~trap
          /\ thr.eventInj = NoEvent /\ insn \in LapicRegs
      BY <1>6, <2>1 DEF Access, Running
    <3> QED
      BY <3>1, RaisedExitInv DEF Codes
  <2>2. CASE ~(tlb = "none" /\ ~thr.present)
    BY <1>6, <2>2, QuietExitInv DEF Access, Retire, Running
  <2> QED
    BY <2>1, <2>2
<1>7. CASE PopTf
  <2>1. /\ thr' = [thr EXCEPT !.tf = ~want] /\ thr.eventInj = NoEvent
        /\ exit' = NoExit
    BY <1>7 DEF PopTf, Retire, Running
  <2>2. thr'.eventInj = thr.eventInj
    BY <2>1, SMT DEF IInv, TypeOK, ThreadState
  <2> QED
    BY <2>1, <2>2, QuietExitInv
<1>8. CASE Iret
  <2>1. CASE hwI.iret
    <3>1. /\ VmExit("IRET") /\ UNCHANGED <<thr, trap>> /\ ~trap
          /\ thr.eventInj = NoEvent /\ insn = "iret" /\ frames # << >>
      BY <1>8, <2>1 DEF Iret, Running
    <3> QED
      BY <3>1, RaisedExitInv DEF Codes
  <2>2. CASE ~hwI.iret
    <3>1. /\ thr' = [thr EXCEPT !.tf = frames[Len(frames)].tf]
          /\ thr.eventInj = NoEvent /\ exit' = NoExit
      BY <1>8, <2>2 DEF Iret, Retire, Running
    <3>2. thr'.eventInj = thr.eventInj
      BY <3>1, SMT DEF IInv, TypeOK, ThreadState
    <3> QED
      BY <3>1, <3>2, QuietExitInv
  <2> QED
    BY <2>1, <2>2
<1>9. CASE Plain
  BY <1>9, QuietExitInv DEF Plain, Retire, Running
<1>10. CASE Intercepted
  <2>1. /\ thr.eventInj = NoEvent /\ ~trap /\ UNCHANGED <<thr, trap>>
        /\ \/ insn = "cpuid" /\ VmExit("CPUID")
           \/ insn = "msr"   /\ VmExit("MSR")
           \/ insn = "vmrun" /\ VmExit("VMRUN")
           \/ insn \in {"ud", "sys", "sysGp"} /\ VmExit("UD")
    BY <1>10 DEF Intercepted, Running
  <2> QED
    BY <2>1, RaisedExitInv DEF Codes
<1>11. CASE UNCHANGED vars
  BY <1>11 DEF vars, ExitInv, MayInterrupt
<1> QED
  BY <1>1, <1>3, <1>4, <1>5, <1>6, <1>7, <1>8, <1>9, <1>10, <1>11 DEF Next, Guest

\* In every environment an exit belongs to the instruction at RIP, comes after
\* every pending event, and so does the fault its handler injects.
THEOREM ExitsMatchInstruction == Spec => []ExitInv
<1>1. Init => ExitInv
  BY InitExitInv
<1>2. IInv /\ ExitInv /\ [Next]_vars => ExitInv'
  BY NextExitInv
<1> QED
  BY <1>1, <1>2, InductiveInvariant, PTL DEF Spec

-----------------------------------------------------------------------------
(* The mapping of the local APIC page, while nothing reaches the guest in a *)
(* step.                                                                   *)

\* No step is armed and nothing is mapped when the guest starts.
LEMMA InitStepInv == Init => StepInv
BY DEF Init, StepInv, NoExit

\* Every exit leaves either no step armed, or one about to execute its instruction.
LEMMA HandleExitStepInv ==
  ASSUME ~AsyncInStep, IInv, ExitInv, StepInv, HandleExit
  PROVE  StepInv'
<1>1. Entered(thr, exit, insn) /\ thr' = InterceptionHandler(thr, exit, insn)
  BY DEF IInv, TypeOK, ExitsIntercepted, HandleExit, Entered
<1>2. /\ exit' = NoExit /\ ~trap' /\ exit # NoExit
      /\ ~Emulates(exit.code, insn) => insn' = insn
      /\ tlb' = IF thr'.tlbFlush THEN "none" ELSE tlb
      /\ exit.code \in Codes
      /\ exit.code \in {"NPF", "IRET"} => exit.info = NoEvent
  <2>1. exit.code \in Codes \cup {"none"}
    BY DEF IInv, TypeOK
  <2> QED
    BY <2>1 DEF ExitInv, HandleExit, MayInterrupt
<1>3. NoExit.code = "none" /\ ~IsExternal(NoEvent)
  BY EventsDiffer DEF NoExit
<1>4. CASE exit.code = "NPF"
  <2>1. insn \in LapicRegs /\ insn' = insn /\ MmioLapic(insn) = IntelPage(insn)
    BY <1>2, <1>4 DEF ExitInv, Emulates, MmioLapic, IntelPage
  <2>2. /\ thr'.interceptDb /\ thr'.present /\ thr'.page = MmioLapic(insn)
        /\ thr'.tlbFlush /\ thr'.resume = "NpfPostStep" /\ ~thr'.msrBtf /\ thr'.tf
        /\ thr'.eventInj = NoEvent
    BY <1>1, <1>2, <1>3, <1>4, NpfEffect
  <2> QED
    BY <1>2, <2>1, <2>2 DEF StepInv
<1>5. CASE exit.code = "IRET"
  <2>1. insn = "iret" /\ insn' = insn
    BY <1>2, <1>5 DEF ExitInv, Emulates
  <2>2. ~thr.present /\ tlb = "none"
    BY <1>2, <1>5 DEF StepInv
  <2>3. /\ thr'.interceptDb /\ thr'.present = thr.present
        /\ thr'.tlbFlush = thr.tlbFlush /\ thr'.resume = "IretTfIntercept"
        /\ ~thr'.msrBtf /\ thr'.tf /\ thr'.eventInj = NoEvent
        /\ ~thr'.interceptIret
    BY <1>1, <1>2, <1>3, <1>5, IretEffect
  <2> QED
    BY <1>2, <2>1, <2>2, <2>3 DEF StepInv
<1>6. CASE exit.code = "DB"
  <2>1. thr.resume \in {"NpfPostStep", "IretTfIntercept"}
    BY <1>6 DEF IInv, TypeOK, ThreadState, ThreadInv, ExitsIntercepted
  <2>2. CASE thr.resume = "NpfPostStep"
    <3>1. ~thr'.interceptDb /\ ~thr'.present /\ thr'.tlbFlush
      BY <1>1, <1>6, <2>2, DebugNpfEffect
    <3> QED
      BY <1>2, <3>1 DEF StepInv
  <2>3. CASE thr.resume = "IretTfIntercept"
    <3>1. ~thr.present /\ tlb = "none"
      BY <2>3 DEF StepInv
    <3>2. ~thr'.interceptDb /\ thr'.present = thr.present
      BY <1>1, <1>6, <2>3, DebugIretEffect
    <3> QED
      BY <1>2, <3>1, <3>2 DEF StepInv
  <2> QED
    BY <2>1, <2>2, <2>3
<1>7. CASE exit.code \in {"UD", "CPUID", "MSR", "VMRUN"}
  <2>1. ~thr.interceptDb /\ ~thr.present /\ tlb = "none"
    BY <1>2, <1>7 DEF StepInv
  <2>2. Rest(thr') = Rest(thr)
    BY <1>1, <1>7, EmulationEffect
  <2>3. thr'.interceptDb = thr.interceptDb /\ thr'.present = thr.present
    BY <2>2, SMT DEF Rest
  <2> QED
    BY <1>2, <2>1, <2>3 DEF StepInv
<1> QED
  BY <1>2, <1>4, <1>5, <1>6, <1>7 DEF Codes

\* Every step preserves StepInv.
LEMMA NextStepInv ==
  ASSUME ~AsyncInStep
  PROVE  IInv /\ ExitInv /\ StepInv /\ [Next]_vars => StepInv'
<1> SUFFICES ASSUME IInv, ExitInv, StepInv, [Next]_vars PROVE StepInv'
  OBVIOUS
<1>0. /\ hwI.db = thr.interceptDb /\ hwI.iret = thr.interceptIret
      /\ "iret" \notin LapicRegs /\ "plain" \notin LapicRegs /\ "popf" \notin LapicRegs
      /\ LapicRegs \cap {"cpuid", "msr", "vmrun", "ud", "sys", "sysGp"} = {}
  BY DEF IInv, InterceptsCurrent, LapicRegs
<1>1. CASE HandleExit
  BY <1>1, HandleExitStepInv
<1>2. ASSUME NEW event, Deliver(event), ~thr.interceptDb PROVE StepInv'
  <2>1. /\ thr'.interceptDb = thr.interceptDb /\ thr'.resume = thr.resume
        /\ thr'.present = thr.present /\ thr'.page = thr.page
        /\ thr'.tlbFlush = thr.tlbFlush
        /\ exit' = exit /\ tlb' = tlb
    BY <1>2, DeliverEffect
  <2> QED
    BY <1>2, <2>1 DEF StepInv
<1>3. CASE Interrupt
  BY <1>2, <1>3 DEF Interrupt
<1>4. CASE InjectEvent
  BY <1>2, <1>4 DEF InjectEvent, StepInv
<1>a. ASSUME thr'.interceptDb = thr.interceptDb, thr'.resume = thr.resume,
             thr'.present = thr.present, thr'.page = thr.page,
             thr'.tlbFlush = thr.tlbFlush, tlb' = tlb,
             thr.interceptDb =>
               \/ exit' # NoExit /\ exit'.code = "DB"
               \/ exit' = NoExit /\ thr'.eventInj = NoEvent /\ trap'
      PROVE  StepInv'
  BY <1>a DEF StepInv
<1>5. CASE DebugTrap
  <2>1. CASE hwI.db
    <3>1. VmExit("DB") /\ thr' = [thr EXCEPT !.bs = TRUE]
      BY <1>5, <2>1 DEF DebugTrap
    <3>2. /\ thr'.interceptDb = thr.interceptDb /\ thr'.resume = thr.resume
          /\ thr'.present = thr.present /\ thr'.page = thr.page
          /\ thr'.tlbFlush = thr.tlbFlush
      BY <3>1, SMT DEF IInv, TypeOK, ThreadState
    <3>3. tlb' = tlb /\ exit'.code = "DB" /\ exit' # NoExit
      <4>1. PICK info : exit' = [code |-> "DB", info |-> info]
        BY <3>1 DEF VmExit
      <4>2. exit'.code = "DB" /\ NoExit.code = "none"
        BY <4>1 DEF NoExit
      <4> QED
        BY <3>1, <4>2 DEF VmExit
    <3> QED
      BY <1>a, <3>2, <3>3
  <2>2. CASE ~hwI.db
    BY <1>0, <1>2, <1>5, <2>2 DEF DebugTrap
  <2> QED
    BY <2>1, <2>2
<1>6. CASE Access
  <2>0. exit = NoExit /\ ~trap /\ insn \in LapicRegs
    BY <1>6 DEF Access, Running
  <2>1. CASE tlb = "none" /\ ~thr.present
    <3>1. ~thr.interceptDb
      BY <1>0, <2>0, <2>1 DEF StepInv
    <3>2. thr' = thr /\ tlb' = tlb
      BY <1>6, <2>1 DEF Access, VmExit
    <3> QED
      BY <1>a, <3>1, <3>2
  <2>2. CASE ~(tlb = "none" /\ ~thr.present)
    <3>1. thr.present /\ thr.tf /\ ~thr.msrBtf
      BY <1>0, <2>0, <2>2 DEF StepInv
    <3>2. tlb' = thr.page /\ thr' = thr /\ exit' = NoExit /\ trap'
      BY <1>6, <2>2, <2>0, <3>1 DEF Access, Retire, StepInv
    <3>3. thr.eventInj = NoEvent
      BY <1>6 DEF Access, Running
    <3> QED
      BY <3>1, <3>2, <3>3 DEF StepInv
  <2> QED
    BY <2>1, <2>2
<1>7. CASE PopTf
  <2>1. ~thr.interceptDb
    BY <1>0, <1>7 DEF PopTf, Running, StepInv
  <2>2. thr' = [thr EXCEPT !.tf = ~want] /\ tlb' = tlb
    BY <1>7 DEF PopTf
  <2>3. /\ thr'.interceptDb = thr.interceptDb /\ thr'.resume = thr.resume
        /\ thr'.present = thr.present /\ thr'.page = thr.page
        /\ thr'.tlbFlush = thr.tlbFlush
    BY <2>2, SMT DEF IInv, TypeOK, ThreadState
  <2> QED
    BY <1>a, <2>1, <2>2, <2>3
<1>8. CASE Iret
  <2>0. exit = NoExit /\ thr.eventInj = NoEvent /\ ~trap /\ insn = "iret"
    BY <1>8 DEF Iret, Running
  <2>1. CASE hwI.iret
    <3>1. ~thr.interceptDb
      BY <1>0, <2>0, <2>1 DEF StepInv
    <3>2. thr' = thr /\ tlb' = tlb
      BY <1>8, <2>1 DEF Iret, VmExit
    <3> QED
      BY <1>a, <3>1, <3>2
  <2>2. CASE ~hwI.iret
    <3>1. thr' = [thr EXCEPT !.tf = frames[Len(frames)].tf] /\ tlb' = tlb
          /\ exit' = exit /\ trap' = (thr.tf /\ (thr.msrBtf => insn = "iret"))
      BY <1>8, <2>2 DEF Iret, Retire
    <3>2. /\ thr'.interceptDb = thr.interceptDb /\ thr'.resume = thr.resume
          /\ thr'.present = thr.present /\ thr'.page = thr.page
          /\ thr'.tlbFlush = thr.tlbFlush /\ thr'.eventInj = thr.eventInj
      BY <3>1, SMT DEF IInv, TypeOK, ThreadState
    <3>3. thr.interceptDb => trap'
      BY <2>0, <3>1 DEF StepInv
    <3> QED
      BY <1>a, <2>0, <3>1, <3>2, <3>3
  <2> QED
    BY <2>1, <2>2
<1>9. CASE Plain
  <2>1. ~thr.interceptDb
    BY <1>0, <1>9 DEF Plain, Running, StepInv
  <2>2. thr' = thr /\ tlb' = tlb
    BY <1>9 DEF Plain
  <2> QED
    BY <1>a, <2>1, <2>2
<1>10. CASE Intercepted
  <2>1. ~thr.interceptDb
    BY <1>0, <1>10 DEF Intercepted, Running, StepInv
  <2>2. thr' = thr /\ tlb' = tlb
    BY <1>10 DEF Intercepted, VmExit
  <2> QED
    BY <1>a, <2>1, <2>2
<1>11. CASE UNCHANGED vars
  BY <1>11 DEF vars, StepInv
<1> QED
  BY <1>1, <1>3, <1>4, <1>5, <1>6, <1>7, <1>8, <1>9, <1>10, <1>11 DEF Next, Guest

\* While nothing reaches the guest in a step, an armed step always executes the
\* one instruction it was armed for, with TF set and BTF clear.
THEOREM StepsWellFormed == ~AsyncInStep => (Spec => []StepInv)
<1> SUFFICES ASSUME ~AsyncInStep PROVE Spec => []StepInv
  OBVIOUS
<1>1. Init => StepInv
  BY InitStepInv
<1>2. IInv /\ ExitInv /\ StepInv /\ [Next]_vars => StepInv'
  BY NextStepInv
<1> QED
  BY <1>1, <1>2, InductiveInvariant, ExitsMatchInstruction, PTL DEF Spec

\* In such an environment the local APIC page is mapped, and cached by the
\* CPU, only while the access that faulted is being stepped over.
THEOREM MappedOnlyInStep == ~AsyncInStep => (Spec => []MappedIffStepping)
<1> SUFFICES ASSUME ~AsyncInStep PROVE Spec => []MappedIffStepping
  OBVIOUS
<1>1. StepInv => MappedIffStepping
  BY DEF StepInv, MappedIffStepping
<1> QED
  BY <1>1, StepsWellFormed, PTL

-----------------------------------------------------------------------------
(* The mapping when interrupts reach the guest in a step.                  *)

\* No delivery of an external event is cut off by an exit.
NothingExternal == \A e \in VectoringInfo : ~IsExternal(e)

\* So nothing is ever queued, and only local APIC accesses are stepped.
LEMMA NeverQueued ==
  ASSUME NothingExternal, IInv
  PROVE  /\ thr.queueEvent = Garbage /\ ~thr.interceptIret /\ exit.code # "IRET"
         /\ thr.resume # "IretTfIntercept"
         /\ thr.interceptDb => thr.resume = "NpfPostStep"
         /\ ~IsExternal(exit.info)
<1>1. thr.queueEvent = Garbage
  BY DEF NothingExternal, IInv, ThreadInv
<1>2. ~IsExternal(exit.info)
  BY EventsDiffer DEF NothingExternal, IInv, TypeOK
<1> QED
  BY <1>1, <1>2 DEF IInv, ThreadInv, ExitsIntercepted, TypeOK, ThreadState

\* A page is mapped as long as a step is armed, and while it is mapped no access
\* faults: whoever interrupts the step finds the page, and cannot arm another.
MappedInv ==
  /\ thr.present <=> thr.interceptDb
  /\ tlb # "none" => thr.present /\ tlb = thr.page
  /\ exit.code = "NPF" => ~thr.present

\* Exits map the page and arm the step, undo both, or change neither.
LEMMA HandleExitMappedInv ==
  ASSUME NothingExternal, IInv, ExitInv, MappedInv, HandleExit
  PROVE  MappedInv'
<1>1. Entered(thr, exit, insn) /\ thr' = InterceptionHandler(thr, exit, insn)
  BY DEF IInv, TypeOK, ExitsIntercepted, HandleExit, Entered
<1>2. /\ exit'.code # "NPF"
      /\ tlb' = IF thr'.tlbFlush THEN "none" ELSE tlb
      /\ exit.code \in Codes \ {"IRET"}
  <2>1. exit.code \in Codes \cup {"none"} /\ exit.code # "IRET"
    BY NeverQueued DEF IInv, TypeOK
  <2> QED
    BY <2>1 DEF ExitInv, HandleExit, NoExit
<1>3. CASE exit.code = "NPF"
  <2>1. thr'.interceptDb /\ thr'.present /\ thr'.tlbFlush
    BY <1>1, <1>3, NpfEffect
  <2> QED
    BY <1>2, <2>1 DEF MappedInv
<1>4. CASE exit.code = "DB"
  <2>1. thr.resume = "NpfPostStep"
    BY <1>4, NeverQueued DEF IInv, ExitsIntercepted
  <2>2. ~thr'.interceptDb /\ ~thr'.present /\ thr'.tlbFlush
    BY <1>1, <1>4, <2>1, DebugNpfEffect
  <2> QED
    BY <1>2, <2>2 DEF MappedInv
<1>5. CASE exit.code \in {"UD", "CPUID", "MSR", "VMRUN"}
  <2>1. Rest(thr') = Rest(thr)
    BY <1>1, <1>5, EmulationEffect
  <2>2. /\ thr'.interceptDb = thr.interceptDb /\ thr'.present = thr.present
        /\ thr'.page = thr.page
    BY <2>1, SMT DEF Rest
  <2> QED
    BY <1>2, <2>2 DEF MappedInv
<1> QED
  BY <1>2, <1>3, <1>4, <1>5 DEF Codes

\* Every step preserves MappedInv.
LEMMA NextMappedInv ==
  ASSUME NothingExternal
  PROVE  IInv /\ ExitInv /\ MappedInv /\ [Next]_vars => MappedInv'
<1> SUFFICES ASSUME IInv, ExitInv, MappedInv, [Next]_vars PROVE MappedInv'
  OBVIOUS
<1>1. CASE HandleExit
  BY <1>1, HandleExitMappedInv
<1>a. ASSUME thr'.interceptDb = thr.interceptDb, thr'.present = thr.present,
             thr'.page = thr.page, tlb' = tlb, exit'.code # "NPF"
      PROVE  MappedInv'
  BY <1>a DEF MappedInv
<1>b. ASSUME NEW code, VmExit(code) PROVE exit'.code = code /\ tlb' = tlb
  BY <1>b DEF VmExit
<1>c. exit = NoExit => exit.code # "NPF"
  BY DEF NoExit
<1>2. ASSUME NEW event, Deliver(event), exit = NoExit PROVE MappedInv'
  BY <1>2, <1>a, <1>c, DeliverEffect
<1>3. CASE Interrupt
  BY <1>2, <1>3 DEF Interrupt, Running
<1>4. CASE InjectEvent
  BY <1>2, <1>4 DEF InjectEvent
<1>5. CASE DebugTrap
  <2>1. CASE hwI.db
    <3>1. VmExit("DB") /\ thr' = [thr EXCEPT !.bs = TRUE]
      BY <1>5, <2>1 DEF DebugTrap
    <3>2. /\ thr'.interceptDb = thr.interceptDb /\ thr'.present = thr.present
          /\ thr'.page = thr.page
      BY <3>1, SMT DEF IInv, TypeOK, ThreadState
    <3> QED
      BY <1>a, <1>b, <3>1, <3>2
  <2>2. CASE ~hwI.db
    BY <1>2, <1>5, <2>2 DEF DebugTrap, Running
  <2> QED
    BY <2>1, <2>2
<1>6. CASE Access
  <2>1. CASE tlb = "none" /\ ~thr.present
    BY <1>6, <1>b, <2>1 DEF Access, MappedInv
  <2>2. CASE ~(tlb = "none" /\ ~thr.present)
    <3>1. thr.present /\ exit.code # "NPF"
      BY <1>6, <1>c, <2>2 DEF MappedInv, Access, Running
    <3>2. tlb' = thr.page /\ thr' = thr /\ exit' = exit
      BY <1>6, <2>2 DEF Access, Retire, MappedInv
    <3> QED
      BY <3>1, <3>2 DEF MappedInv
  <2> QED
    BY <2>1, <2>2
<1>7. CASE PopTf
  <2>1. thr' = [thr EXCEPT !.tf = ~want] /\ tlb' = tlb /\ exit' = exit /\ exit = NoExit
    BY <1>7 DEF PopTf, Retire, Running
  <2>2. /\ thr'.interceptDb = thr.interceptDb /\ thr'.present = thr.present
        /\ thr'.page = thr.page
    BY <2>1, SMT DEF IInv, TypeOK, ThreadState
  <2> QED
    BY <1>a, <1>c, <2>1, <2>2
<1>8. CASE Iret
  <2>1. CASE hwI.iret
    BY <1>8, <2>1, <1>a, <1>b DEF Iret
  <2>2. CASE ~hwI.iret
    <3>1. thr' = [thr EXCEPT !.tf = frames[Len(frames)].tf] /\ tlb' = tlb
          /\ exit' = exit /\ exit = NoExit
      BY <1>8, <2>2 DEF Iret, Retire, Running
    <3>2. /\ thr'.interceptDb = thr.interceptDb /\ thr'.present = thr.present
          /\ thr'.page = thr.page
      BY <3>1, SMT DEF IInv, TypeOK, ThreadState
    <3> QED
      BY <1>a, <1>c, <3>1, <3>2
  <2> QED
    BY <2>1, <2>2
<1>9. CASE Plain
  BY <1>9, <1>a, <1>c DEF Plain, Retire, Running
<1>10. CASE Intercepted
  <2>1. thr' = thr /\ tlb' = tlb /\ exit'.code # "NPF"
    BY <1>10, <1>b DEF Intercepted
  <2> QED
    BY <1>a, <2>1
<1>11. CASE UNCHANGED vars
  BY <1>11 DEF vars, MappedInv
<1> QED
  BY <1>1, <1>3, <1>4, <1>5, <1>6, <1>7, <1>8, <1>9, <1>10, <1>11 DEF Next, Guest

\* The local APIC page is mapped, and cached by the CPU, only while a step on
\* it is armed, also when interrupts and their handlers' own local APIC accesses
\* come between the fault and the stepped access, as long as nothing is queued.
THEOREM MappedWithInterrupts == NothingExternal => (Spec => []MappedIffStepping)
<1> SUFFICES ASSUME NothingExternal PROVE Spec => []MappedIffStepping
  OBVIOUS
<1>1. Init => MappedInv
  BY DEF Init, NoExit, MappedInv
<1>2. IInv /\ ExitInv /\ MappedInv /\ [Next]_vars => MappedInv'
  BY NextMappedInv
<1>3. IInv /\ MappedInv => MappedIffStepping
  BY NeverQueued DEF MappedInv, MappedIffStepping
<1> QED
  BY <1>1, <1>2, <1>3, InductiveInvariant, ExitsMatchInstruction, PTL DEF Spec

-----------------------------------------------------------------------------
(* The runtime's own TF, also when interrupts reach the guest in a step.   *)

\* A guest that leaves TF alone, in an environment where no external event's
\* delivery is cut off by an exit, so that nothing is ever queued, and no
\* #DB, #UD or #GP is delivered but those the exits inject.
QuietGuest ==
  /\ "popf" \notin Insns
  /\ NothingExternal
  /\ VectoringInfo \cap {DebugException, InvalidOpcode, GpFault} = {}

\* No TF but the guest's is set when it starts.
LEMMA InitForcedInv == Init => ForcedInv
<1> SUFFICES ASSUME Init PROVE ForcedInv
  OBVIOUS
<1>1. /\ ~thr.interceptDb /\ ~thr.present /\ ~thr.tf /\ ~thr.bs
      /\ thr.eventInj = NoEvent
  BY DEF Init
<1>2. frames = << >> /\ ~want /\ ~trap /\ exit.code = "none"
  BY DEF Init, NoExit
<1>3. \A i \in 1..Len(frames) : FALSE
  BY <1>2
<1>4. NoEvent # DebugException
  BY EventsDiffer
<1> QED
  BY <1>1, <1>2, <1>3, <1>4 DEF ForcedInv

\* Exits arm the step in the running context, end it there, or leave it alone.
LEMMA HandleExitForcedInv ==
  ASSUME QuietGuest, IInv, ExitInv, ForcedInv, HandleExit
  PROVE  ForcedInv'
<1>1. Entered(thr, exit, insn) /\ thr' = InterceptionHandler(thr, exit, insn)
  BY DEF IInv, TypeOK, ExitsIntercepted, HandleExit, Entered
<1>2. /\ exit' = NoExit /\ trap' = trap /\ ~trap /\ want' = want /\ frames' = frames
      /\ ~Emulates(exit.code, insn) => insn' = insn
      /\ exit.code \in Codes /\ NoExit.code = "none"
      /\ exit.info \in VectoringInfo \cup {NoEvent}
  <2>1. exit.code \in Codes \cup {"none"}
    BY DEF IInv, TypeOK
  <2> QED
    BY <2>1 DEF ExitInv, HandleExit, IInv, TypeOK, NoExit
<1>3. ~IsExternal(exit.info) /\ exit.info # DebugException
  BY <1>2, EventsDiffer DEF QuietGuest, NothingExternal
<1>4. CASE exit.code = "NPF"
  <2>1. insn \in LapicRegs /\ insn' = insn
    BY <1>2, <1>4 DEF ExitInv, Emulates
  <2>2. ~thr.interceptDb /\ ~thr.tf /\ ~thr.bs
        /\ \A i \in 1..Len(frames) : ~frames[i].tf
    BY <1>4 DEF ForcedInv
  <2>3. /\ thr'.interceptDb /\ thr'.present /\ thr'.ssTf = thr.tf /\ ~thr'.msrBtf
        /\ thr'.bs = thr.bs /\ thr'.tf
        /\ thr'.eventInj \in {NoEvent, exit.info, DoubleFault}
    BY <1>1, <1>3, <1>4, NpfEffect
  <2>4. thr'.eventInj # DebugException
    BY <1>3, <2>3, EventsDiffer
  <2> QED
    BY <1>2, <2>1, <2>2, <2>3, <2>4 DEF ForcedInv
<1>5. CASE exit.code = "DB"
  <2>1. thr.interceptDb /\ thr.tf /\ ~thr.ssTf /\ thr.resume = "NpfPostStep"
        /\ \A i \in 1..Len(frames) : ~frames[i].tf
    BY <1>5, NeverQueued DEF QuietGuest, ForcedInv
  <2>2. /\ ~thr'.interceptDb /\ ~thr'.present /\ ~thr'.tf /\ ~thr'.bs
        /\ thr'.eventInj \in {NoEvent, exit.info, DoubleFault}
    BY <1>1, <1>5, <2>1, DebugNpfEffect
  <2>3. thr'.eventInj # DebugException
    BY <1>3, <2>2, EventsDiffer
  <2> QED
    BY <1>2, <2>1, <2>2, <2>3 DEF ForcedInv
<1>6. CASE exit.code \in {"UD", "CPUID", "MSR", "VMRUN"}
  <2>1. ~thr.tf /\ ~thr.bs
    BY <1>2, <1>6 DEF ExitInv, ForcedInv, LapicRegs
  <2>2. /\ Rest(thr') = Rest(thr) /\ thr'.tf = thr.tf
        /\ thr'.eventInj \in {Raised(exit.code, insn), exit.info, DoubleFault}
    BY <1>1, <1>3, <1>6, EmulationEffect
  <2>3. /\ thr'.interceptDb = thr.interceptDb /\ thr'.present = thr.present
        /\ thr'.ssTf = thr.ssTf /\ thr'.msrBtf = thr.msrBtf /\ thr'.bs = thr.bs
    BY <2>2, SMT DEF Rest
  <2>4. thr'.eventInj # DebugException
    BY <1>3, <2>2, EventsDiffer DEF Raised
  <2> QED
    BY <1>2, <2>1, <2>2, <2>3, <2>4 DEF ForcedInv
<1>7. exit.code \in Codes /\ exit.code # "IRET"
  BY <1>2, NeverQueued DEF QuietGuest
<1> QED
  BY <1>4, <1>5, <1>6, <1>7 DEF Codes

\* Delivering an event moves the running context, with its TF, onto the stack.
LEMMA DeliverForcedInv ==
  ASSUME IInv, ForcedInv, NEW event, Deliver(event), event # DebugException,
         exit = NoExit, ~trap,
         insn \in LapicRegs => Cause(event) \notin {"UD", "GP"}
  PROVE  ForcedInv'
<1>1. /\ thr'.interceptDb = thr.interceptDb /\ thr'.ssTf = thr.ssTf
      /\ thr'.present = thr.present /\ ~thr'.tf /\ thr'.eventInj = NoEvent
      /\ thr'.bs => thr.bs \/ event = DebugException
      /\ thr'.msrBtf => thr.msrBtf
      /\ ~want' /\ ~trap' /\ exit' = exit
  BY DeliverEffect
<1>2. /\ Len(frames) \in Nat /\ Len(frames') = Len(frames) + 1
      /\ \A i \in 1..Len(frames) : frames'[i] = frames[i]
      /\ frames'[Len(frames) + 1] =
           [tf |-> thr.tf, want |-> want, insn |-> insn, cause |-> Cause(event)]
  BY DeliverEffect
<1> DEFINE n == Len(frames) + 1
<1>3. /\ n \in Nat /\ n \in 1..Len(frames')
      /\ \A i \in 1..Len(frames') : i \in 1..Len(frames) \/ i = n
      /\ \A i \in 1..Len(frames) : i # n /\ i \in 1..Len(frames')
      /\ (frames'[n].tf <=> thr.tf) /\ ~frames'[n].want
      /\ frames'[n].insn = insn /\ frames'[n].cause = Cause(event)
  BY <1>2 DEF ForcedInv
<1>4. exit.code # "DB" /\ exit.code # "NPF" /\ exit'.code # "DB" /\ exit'.code # "NPF"
  BY <1>1 DEF NoExit
<1> HIDE DEF n
<1>5. \A i \in 1..Len(frames') : /\ ~frames'[i].want
                                 /\ frames'[i].tf => /\ frames'[i].insn \in LapicRegs
                                                     /\ frames'[i].cause \notin {"UD", "GP"}
  BY <1>2, <1>3, <1>4 DEF ForcedInv
<1>6. IF thr'.interceptDb
      THEN \E j \in 1..Len(frames') : \A i \in 1..Len(frames') : frames'[i].tf <=> i = j
      ELSE \A i \in 1..Len(frames') : ~frames'[i].tf
  <2>1. CASE ~thr.interceptDb
    BY <1>1, <1>2, <1>3, <2>1 DEF ForcedInv
  <2>2. CASE thr.interceptDb /\ thr.tf
    <3>1. \A i \in 1..Len(frames') : frames'[i].tf <=> i = n
      BY <1>2, <1>3, <2>2 DEF ForcedInv
    <3> QED
      BY <1>1, <1>3, <2>2, <3>1
  <2>3. CASE thr.interceptDb /\ ~thr.tf
    <3>1. PICK j \in 1..Len(frames) : \A i \in 1..Len(frames) : frames[i].tf <=> i = j
      BY <2>3 DEF ForcedInv
    <3>2. \A i \in 1..Len(frames') : frames'[i].tf <=> i = j
      BY <1>2, <1>3, <2>3, <3>1
    <3> QED
      BY <1>1, <1>3, <2>3, <3>1, <3>2
  <2> QED
    BY <2>1, <2>2, <2>3
<1>7. thr'.eventInj # DebugException /\ ~thr'.bs
  BY <1>1, <1>4, EventsDiffer DEF ForcedInv
<1> QED
  BY <1>1, <1>4, <1>5, <1>6, <1>7 DEF ForcedInv

\* An iret takes the TF it finds on the stack with it.
LEMMA IretForcedInv ==
  ASSUME QuietGuest, IInv, ForcedInv, Iret
  PROVE  ForcedInv'
<1>1. /\ exit = NoExit /\ ~trap /\ insn = "iret" /\ frames # << >> /\ ~hwI.iret
      /\ frames \in Seq(Frame) /\ thr \in ThreadState
  BY NeverQueued DEF QuietGuest, Iret, Running, IInv, TypeOK, InterceptsCurrent
<1>2. ~thr.tf
  BY <1>1 DEF ForcedInv, LapicRegs, NoExit
<1> DEFINE n == Len(frames)
<1>3. /\ thr' = [thr EXCEPT !.tf = frames[n].tf] /\ want' = frames[n].want
      /\ frames' = Pop(frames) /\ insn' \in ReturnsTo(frames)
      /\ trap' = (thr.tf /\ (thr.msrBtf => insn = "iret")) /\ exit' = exit
  BY <1>1 DEF Iret, Retire
<1>4. /\ n \in Nat \ {0} /\ n \in 1..n /\ Len(frames') = n - 1
      /\ \A i \in 1..Len(frames') : frames'[i] = frames[i] /\ i \in 1..n /\ i # n
      /\ \A i \in 1..n : i \in 1..Len(frames') \/ i = n
  BY <1>1, <1>3, PopEffect
<1>5. frames[n].tf => insn' \in LapicRegs
  <2>1. frames[n].tf => ReturnsTo(frames) = {frames[n].insn}
    BY <1>4 DEF ForcedInv, ReturnsTo
  <2> QED
    BY <1>3, <1>4, <2>1 DEF ForcedInv
<1> HIDE DEF n
<1>6. /\ thr'.interceptDb = thr.interceptDb /\ thr'.ssTf = thr.ssTf
      /\ thr'.present = thr.present /\ thr'.msrBtf = thr.msrBtf
      /\ thr'.eventInj = thr.eventInj /\ thr'.bs = thr.bs
      /\ thr'.tf = frames[n].tf
  BY <1>1, <1>3, SMT DEF ThreadState
<1>7. ~trap' /\ ~want' /\ exit'.code # "DB" /\ exit'.code # "NPF" /\ exit.code # "DB"
  BY <1>1, <1>2, <1>3, <1>4 DEF ForcedInv, NoExit, n
<1>8. \A i \in 1..Len(frames') : /\ ~frames'[i].want
                                 /\ frames'[i].tf => /\ frames'[i].insn \in LapicRegs
                                                     /\ frames'[i].cause \notin {"UD", "GP"}
  BY <1>4 DEF ForcedInv, n
<1>9. IF thr'.interceptDb
      THEN \/ thr'.tf /\ \A i \in 1..Len(frames') : ~frames'[i].tf
           \/ /\ ~thr'.tf
              /\ \E j \in 1..Len(frames') : \A i \in 1..Len(frames') : frames'[i].tf <=> i = j
      ELSE ~thr'.tf /\ \A i \in 1..Len(frames') : ~frames'[i].tf
  <2>1. CASE ~thr.interceptDb
    BY <1>4, <1>6, <2>1 DEF ForcedInv, n
  <2>2. CASE thr.interceptDb
    <3>1. PICK j \in 1..n : \A i \in 1..n : frames[i].tf <=> i = j
      BY <1>2, <2>2 DEF ForcedInv, n
    <3>2. CASE j = n
      BY <1>4, <1>6, <2>2, <3>1, <3>2
    <3>3. CASE j # n
      BY <1>4, <1>6, <2>2, <3>1, <3>3
    <3> QED
      BY <3>2, <3>3
  <2> QED
    BY <2>1, <2>2
<1> QED
  BY <1>5, <1>6, <1>7, <1>8, <1>9 DEF ForcedInv

\* Every step preserves ForcedInv.
LEMMA NextForcedInv ==
  ASSUME QuietGuest
  PROVE  IInv /\ ExitInv /\ ForcedInv /\ [Next]_vars => ForcedInv'
<1> SUFFICES ASSUME IInv, ExitInv, ForcedInv, [Next]_vars PROVE ForcedInv'
  OBVIOUS
<1>0. /\ hwI.db = thr.interceptDb /\ thr \in ThreadState /\ insn \in Insns
      /\ LapicRegs \cap {"iret", "plain", "cpuid", "msr", "vmrun", "ud", "sys", "sysGp"} = {}
  BY DEF IInv, TypeOK, InterceptsCurrent, LapicRegs
<1>1. CASE HandleExit
  BY <1>1, HandleExitForcedInv
<1>2. CASE Interrupt
  <2>1. Deliver([type |-> "INTR", vector |-> 32]) /\ exit = NoExit /\ ~trap
    BY <1>2 DEF Interrupt, Running
  <2>2. Cause([type |-> "INTR", vector |-> 32]) = "other"
    BY EventsDiffer DEF Cause
  <2> QED
    BY <2>1, <2>2, EventsDiffer, DeliverForcedInv
<1>3. CASE InjectEvent
  <2>1. Deliver(thr.eventInj) /\ exit = NoExit /\ ~trap
    BY <1>3 DEF InjectEvent, ExitInv
  <2>2. insn \in LapicRegs => Cause(thr.eventInj) \notin {"UD", "GP"}
    BY <1>0 DEF ExitInv, Cause, QuietGuest, NothingExternal
  <2> QED
    BY <2>1, <2>2, DeliverForcedInv DEF ForcedInv
<1>4. CASE DebugTrap
  <2>1. /\ VmExit("DB") /\ thr' = [thr EXCEPT !.bs = TRUE] /\ ~trap'
        /\ thr.interceptDb /\ thr.tf /\ thr.eventInj = NoEvent
    BY <1>0, <1>4 DEF DebugTrap, ForcedInv, Running
  <2>2. exit'.code = "DB" /\ UNCHANGED <<insn, frames, want>>
    <3>1. PICK info : exit' = [code |-> "DB", info |-> info]
      BY <2>1 DEF VmExit
    <3> QED
      BY <2>1, <3>1 DEF VmExit
  <2>3. /\ thr'.interceptDb = thr.interceptDb /\ thr'.ssTf = thr.ssTf
        /\ thr'.present = thr.present /\ thr'.msrBtf = thr.msrBtf
        /\ thr'.eventInj = thr.eventInj /\ thr'.tf = thr.tf
    <3>1. thr \in ThreadState /\ thr' = [thr EXCEPT !.bs = TRUE]
      BY <1>0, <2>1
    <3> QED
      BY <3>1, SMT DEF ThreadState
  <2>4. thr'.eventInj # DebugException
    BY <2>3 DEF ForcedInv
  <2>5. ~trap' /\ thr.interceptDb /\ thr.tf
    BY <2>1
  <2> QED
    BY <2>2, <2>3, <2>4, <2>5 DEF ForcedInv
<1>5. CASE Access
  <2>0. exit = NoExit /\ ~trap /\ insn \in LapicRegs /\ exit.code # "DB"
    BY <1>5 DEF Access, Running, NoExit
  <2>1. CASE tlb = "none" /\ ~thr.present
    <3>1. VmExit("NPF") /\ UNCHANGED <<thr, trap>> /\ ~thr.interceptDb
      BY <1>5, <2>1 DEF Access, ForcedInv
    <3>2. exit'.code = "NPF" /\ UNCHANGED <<insn, frames, want>>
      <4>1. PICK info : exit' = [code |-> "NPF", info |-> info]
        BY <3>1 DEF VmExit
      <4> QED
        BY <3>1, <4>1 DEF VmExit
    <3> QED
      BY <2>0, <3>1, <3>2 DEF ForcedInv
  <2>2. CASE ~(tlb = "none" /\ ~thr.present)
    <3>1. UNCHANGED <<thr, frames, want, exit>> /\ trap' = (thr.tf /\ (thr.msrBtf => insn = "iret"))
      BY <1>5, <2>2 DEF Access, Retire
    <3>2. trap' <=> thr.tf
      BY <3>1 DEF ForcedInv
    <3> QED
      BY <2>0, <3>1, <3>2 DEF ForcedInv
  <2> QED
    BY <2>1, <2>2
<1>6. CASE PopTf
  BY <1>0, <1>6 DEF PopTf, QuietGuest
<1>7. CASE Iret
  BY <1>7, IretForcedInv
<1>8. CASE Plain
  <2>1. ~thr.tf /\ exit.code # "DB"
    BY <1>0, <1>8 DEF Plain, Running, ForcedInv, NoExit
  <2>2. UNCHANGED <<thr, frames, want, exit>> /\ ~trap'
    BY <1>8, <2>1 DEF Plain, Retire
  <2> QED
    BY <2>1, <2>2 DEF ForcedInv
<1>9. CASE Intercepted
  <2>1. ~thr.tf /\ exit.code # "DB"
    BY <1>0, <1>9 DEF Intercepted, Running, ForcedInv, NoExit
  <2>2. PICK code \in {"CPUID", "MSR", "VMRUN", "UD"} : VmExit(code)
    BY <1>9 DEF Intercepted
  <2>3. exit'.code = code /\ UNCHANGED <<insn, frames, want>>
    <3>1. PICK info : exit' = [code |-> code, info |-> info]
      BY <2>2 DEF VmExit
    <3> QED
      BY <2>2, <3>1 DEF VmExit
  <2>4. UNCHANGED <<thr, trap>>
    BY <1>9 DEF Intercepted
  <2> QED
    BY <2>1, <2>3, <2>4 DEF ForcedInv
<1>10. CASE UNCHANGED vars
  BY <1>10 DEF vars, ForcedInv
<1> QED
  BY <1>1, <1>2, <1>3, <1>4, <1>5, <1>6, <1>7, <1>8, <1>9, <1>10 DEF Next, Guest

\* For a guest that leaves TF alone, in whatever context interrupts have moved
\* it to, the stepped context executes nothing before the access it was armed for.
THEOREM ForcedContextReturns == QuietGuest => (Spec => []ForcedInv)
<1> SUFFICES ASSUME QuietGuest PROVE Spec => []ForcedInv
  OBVIOUS
<1>1. Init => ForcedInv
  BY InitForcedInv
<1>2. IInv /\ ExitInv /\ ForcedInv /\ [Next]_vars => ForcedInv'
  BY NextForcedInv
<1> QED
  BY <1>1, <1>2, InductiveInvariant, ExitsMatchInstruction, PTL DEF Spec

\* The contexts in which the CPU's TF is not the guest's are those counted by
\* ForcedInv: one while a step is armed, none otherwise.
LEMMA ForcedInvContexts == IInv /\ ForcedInv => OneForcedContext
<1> SUFFICES ASSUME IInv, ForcedInv PROVE OneForcedContext
  OBVIOUS
<1> DEFINE n == Len(frames)
<1>1. /\ n \in Nat /\ n <= MaxDepth /\ MaxDepth \in Nat
      /\ \A i \in 1..n : frames[i].tf \in BOOLEAN /\ frames[i].want \in BOOLEAN
      /\ thr.tf \in BOOLEAN /\ want \in BOOLEAN
  <2>1. frames \in Seq(Frame) /\ n <= MaxDepth /\ thr \in ThreadState /\ want \in BOOLEAN
    BY DEF IInv, TypeOK
  <2>2. \A i \in 1..n : frames[i] \in Frame
    BY <2>1
  <2> QED
    BY <2>1, <2>2, MaxDepthAssumption DEF Frame, ThreadState
<1>2. \A i \in 1..n : frames[i].tf # frames[i].want <=> frames[i].tf
  BY <1>1 DEF ForcedInv
<1>3. thr.tf # want <=> thr.tf
  BY <1>1 DEF ForcedInv
<1>4. ForcedTf = {i \in 1..n : frames[i].tf} \cup IF thr.tf THEN {0} ELSE {}
  BY <1>2, <1>3 DEF ForcedTf
<1>5. exit.code # "DB" => ~thr.bs
  BY DEF ForcedInv
<1> HIDE DEF n
<1>6. CASE ~thr.interceptDb
  BY <1>4, <1>5, <1>6 DEF ForcedInv, OneForcedContext, n
<1>7. CASE thr.interceptDb
  <2>1. CASE thr.tf
    <3>1. ForcedTf = {0}
      BY <1>4, <1>7, <2>1 DEF ForcedInv, n
    <3> QED
      BY <1>1, <1>5, <1>7, <3>1 DEF OneForcedContext
  <2>2. CASE ~thr.tf
    <3>1. PICK j \in 1..n : \A i \in 1..n : frames[i].tf <=> i = j
      BY <1>7, <2>2 DEF ForcedInv, n
    <3>2. ForcedTf = {j}
      BY <1>4, <2>2, <3>1
    <3> QED
      BY <1>1, <1>5, <1>7, <3>1, <3>2 DEF OneForcedContext
  <2> QED
    BY <2>1, <2>2
<1> QED
  BY <1>6, <1>7

\* A step is armed exactly as long as one context carries the runtime's own TF,
\* wherever interrupts have moved it, and afterwards DR6 shows no trace of it.
THEOREM OneContextForced == QuietGuest => (Spec => []OneForcedContext)
<1> SUFFICES ASSUME QuietGuest PROVE Spec => []OneForcedContext
  OBVIOUS
<1> QED
  BY ForcedInvContexts, InductiveInvariant, ForcedContextReturns, PTL

=============================================================================
