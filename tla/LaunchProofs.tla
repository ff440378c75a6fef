----------------------------- MODULE LaunchProofs -----------------------------
(***************************************************************************)
(* Theorems about Launch for every number of processors, every             *)
(* configuration and every image the firmware may start.                   *)
(***************************************************************************)
EXTENDS Launch, TLAPS

-----------------------------------------------------------------------------
(* The invariant. *)

\* No thread has been started.
Fresh == \A t \in Threads : cpu[t].mode = "firmware"

\* The bootstrap processor has not come to the loop over the threads.
Before == \/ pc \in {"entry", "unsupported", "prepare", "enable", "allocate"}
          \/ pc = "boot" /\ ~config.immediately

Looping   == pc \in {"loop", "start", "wait"}
Launching == pc \in {"launch", "vmrun"}

\* Where the bootstrap processor is and what it has established by then.
PhaseInv ==
  /\ config.immediately => startImage = "firmware"
  /\ Bsp \in enabled
  /\ cpu[Bsp].mode \in {"firmware", "saved", "guest", "faulted"}
  /\ Before => Fresh
  /\ pc = "enable" => /\ config.virtualizeAps /\ index < NumProcessors
                      /\ \A i \in 0..(index - 1) : i \in enabled
  /\ pc = "allocate" \/ Looping \/ Launching \/ ~Fresh
       => (config.virtualizeAps => enabled = Threads)
  /\ Looping \/ pc = "launch" => cpu[Bsp].mode = "firmware"
  /\ pc = "vmrun" => cpu[Bsp].mode = "saved"
  /\ pc = "return" => Fresh \/ cpu[Bsp].mode = "guest"
  /\ pc \in {"start", "wait"} => /\ config.virtualizeAps
                                 /\ index < NumProcessors /\ index # Bsp
                                 /\ private = PrivateOf(index, index)
  /\ Launching => private = PrivateOf(BspNum, private.stamp)

\* The slot's context can be looked up and its page table intercepts.
Filled(i) == context[i] = i /\ mmio[i] = "lapic" /\ table[i] = TableOf(i)

\* The slots up to the loop's index are filled.
SlotsInv ==
  /\ \A i \in Threads : vmcb[i].save = i /\ context[i] \in {i, Uninit}
  /\ Looping => /\ index <= NumThreads
                /\ \A i \in Threads : i < NumThreads => mmio[i] = "lapic"
  /\ pc = "loop" => \A i \in Threads : i < index => Filled(i)
  /\ pc \in {"start", "wait"} => \A i \in Threads : i <= index => Filled(i)
  /\ Launching => \A i \in Threads : i < NumThreads => Filled(i)

\* The APs are launched one by one.
OrderInv(t) ==
  t # Bsp =>
    /\ cpu[t].mode # "firmware" => config.virtualizeAps
    /\ cpu[t].mode \in {"called", "synced", "saved", "guest", "faulted"}
         => pc = "wait" /\ index = t
    /\ Looping /\ cpu[t].mode # "firmware" => t < index \/ (pc = "wait" /\ t = index)
    /\ Looping /\ config.virtualizeAps /\ t < index => cpu[t].mode \in {"parked", "refused"}
    /\ Launching /\ config.virtualizeAps => cpu[t].mode \in {"parked", "refused"}
    /\ cpu[Bsp].mode = "guest" /\ config.virtualizeAps
         => cpu[t].mode \in {"parked", "refused", "reset"}

\* The state of the guest to be kept is in e.
Kept(t, e) == e.pat = "firmware" /\ e.cd = (t \in config.cd) /\ e.tf = config.tf

\* What a thread has by the progress it has made.
ThreadInv(t) ==
  /\ cpu[t].mode # "firmware" => \A i \in 0..SlotOf(t) : Filled(i)
  /\ cpu[t].mode \in {"firmware", "called", "synced"} => Kept(t, cpu[t].env)
  /\ cpu[t].mode \in {"synced", "saved", "guest", "parked"} /\ t # Bsp => cpu[t].stamp = t
  /\ cpu[t].mode \in {"saved", "guest", "parked"} =>
       cpu[t].vmcb = SlotOf(t) /\ cpu[t].hostVmcb = SlotOf(t)
  /\ cpu[t].mode = "saved" /\ config.np => Kept(t, vmcb[SlotOf(t)].env)
  /\ Virtualised(t) => cpu[t].hostStack = SlotOf(t)
  /\ Virtualised(t) /\ config.np => Kept(t, cpu[t].env)

IInv ==
  /\ TypeOK
  /\ PhaseInv
  /\ SlotsInv
  /\ \A t \in Threads : OrderInv(t) /\ ThreadInv(t)

-----------------------------------------------------------------------------
(* The loop's bounds. *)

\* Threads are numbers below NumProcessors; the mark of a context that is not set
\* names none of them.
LEMMA ThreadsType ==
  /\ \A i : i \in Threads <=> i \in Nat /\ i < NumProcessors
  /\ NumProcessors \in Nat /\ NumProcessors > 0
  /\ Uninit \notin Threads
BY NumProcessorsAssumption DEF Threads, Uninit

\* The bootstrap processor has a slot.
LEMMA BspSlot ==
  ASSUME TypeOK
  PROVE  /\ Bsp \in Threads /\ BspNum \in Threads
         /\ NumThreads \in Nat /\ BspNum < NumThreads /\ NumThreads <= NumProcessors
         /\ config.virtualizeAps \in BOOLEAN
         /\ config.virtualizeAps => BspNum = Bsp /\ NumThreads = NumProcessors
         /\ ~config.virtualizeAps => BspNum = 0 /\ NumThreads = 1
         /\ SlotOf(Bsp) = BspNum
<1>1. Bsp \in Threads /\ config.virtualizeAps \in BOOLEAN
  BY DEF TypeOK, Bsp
<1> QED
  BY <1>1, ThreadsType DEF BspNum, NumThreads, SlotOf

\* Every thread has a slot, and a filled slot is one that is in use.
LEMMA SlotType ==
  ASSUME TypeOK, NEW t \in Threads
  PROVE  /\ SlotOf(t) \in Threads
         /\ \A i \in 0..SlotOf(t) : i \in Threads
         /\ config.virtualizeAps => SlotOf(t) = t
<1>1. SlotOf(t) \in Threads /\ (config.virtualizeAps => SlotOf(t) = t)
  BY BspSlot DEF SlotOf
<1> QED
  BY <1>1, ThreadsType

-----------------------------------------------------------------------------
(* Type correctness is preserved in states of the invariant. *)

\* A ThreadPrivate filled for an existing slot names existing slots only.
LEMMA PrivateType ==
  ASSUME NEW i \in Threads, NEW stamp \in Threads
  PROVE  PrivateOf(i, stamp) \in [context : Threads, hostVmcb : Threads,
                                  hostStack : Threads, stamp : Threads]
BY DEF PrivateOf

\* The records of cpu.
Cpu == [mode : Progress, svmdis : BOOLEAN, lock : BOOLEAN, svme : BOOLEAN, env : Environment,
        vmcb : Threads, hostVmcb : Threads, hostStack : Threads, stamp : Threads]

\* What SetUpVmcb does in a state of the invariant, for a thread launched from
\* the slot private names.
LEMMA SetUpVmcbGood ==
  ASSUME TypeOK, SlotsInv, NEW t \in Threads, SetUpVmcb(t),
         private.context \in Threads, Filled(private.context)
  PROVE  LET slot == private.context
         IN  /\ cpu' \in [Threads -> Cpu]
             /\ \A u \in Threads \ {t} : cpu'[u] = cpu[u]
             /\ cpu'[t].stamp = cpu[t].stamp
             /\ \/ cpu[t].svmdis /\ cpu'[t].mode = "faulted" /\ vmcb' = vmcb
                \/ /\ ~cpu[t].svmdis /\ cpu'[t].mode = "saved"
                   /\ cpu'[t].vmcb = slot /\ cpu'[t].hostVmcb = private.hostVmcb
                   /\ vmcb' = [vmcb EXCEPT ![slot].env = Saved(cpu[t].env)]
                   /\ Saved(cpu[t].env) \in Environment
<1> DEFINE slot == private.context
<1>1. context[slot] = slot /\ vmcb[slot].save = slot
  BY DEF SlotsInv, Filled
<1>2. cpu \in [Threads -> Cpu] /\ private.hostVmcb \in Threads
  BY DEF TypeOK, Cpu
<1>3. cpu[t] \in Cpu /\ cpu[t].env \in Environment
  BY <1>2 DEF Cpu
<1>4. HostEnv \in Environment /\ Saved(cpu[t].env) \in Environment
  BY <1>3 DEF HostEnv, Saved, Environment
<1>5. CASE cpu[t].svmdis
  <2>1. /\ cpu' = [cpu EXCEPT ![t].mode = "faulted", ![t].hostVmcb = private.hostVmcb,
                              ![t].env.if = FALSE]
        /\ vmcb' = vmcb
    BY <1>5 DEF SetUpVmcb
  <2>2. cpu' = [cpu EXCEPT ![t] = [cpu[t] EXCEPT !.mode = "faulted", !.hostVmcb = private.hostVmcb,
                                                 !.env.if = FALSE]]
    BY <2>1
  <2>3. [cpu[t].env EXCEPT !.if = FALSE] \in Environment
    BY <1>3 DEF Environment
  <2>4. /\ cpu'[t] \in Cpu /\ cpu'[t].mode = "faulted" /\ cpu'[t].stamp = cpu[t].stamp
    BY <1>2, <1>3, <2>2, <2>3 DEF Cpu, Progress
  <2> QED
    BY <1>2, <1>5, <2>1, <2>2, <2>4
<1>6. CASE ~cpu[t].svmdis
  <2>1. /\ cpu' = [cpu EXCEPT ![t].mode = "saved", ![t].hostVmcb = private.hostVmcb,
                              ![t].svme = TRUE, ![t].lock = TRUE,
                              ![t].vmcb = slot, ![t].env = HostEnv]
        /\ vmcb' = [vmcb EXCEPT ![slot].env = Saved(cpu[t].env)]
    BY <1>1, <1>6 DEF SetUpVmcb
  <2>2. cpu' = [cpu EXCEPT ![t] = [cpu[t] EXCEPT !.mode = "saved", !.hostVmcb = private.hostVmcb,
                                                 !.svme = TRUE, !.lock = TRUE, !.vmcb = slot,
                                                 !.env = HostEnv]]
    BY <2>1
  <2>3. /\ cpu'[t] \in Cpu /\ cpu'[t].mode = "saved" /\ cpu'[t].stamp = cpu[t].stamp
        /\ cpu'[t].vmcb = slot /\ cpu'[t].hostVmcb = private.hostVmcb
    BY <1>2, <1>3, <1>4, <2>2 DEF Cpu, Progress
  <2> QED
    BY <1>2, <1>4, <1>6, <2>1, <2>2, <2>3
<1> QED
  BY <1>5, <1>6

\* EnableVm gives the thread the environment saved in its VMCB.
LEMMA EnableVmGood ==
  ASSUME TypeOK, NEW t \in Threads, EnableVm(t)
  PROVE  /\ cpu' \in [Threads -> Cpu]
         /\ \A u \in Threads \ {t} : cpu'[u] = cpu[u]
         /\ cpu'[t].mode = "guest" /\ cpu'[t].stamp = cpu[t].stamp
         /\ cpu'[t].vmcb = cpu[t].vmcb /\ cpu'[t].hostVmcb = cpu[t].hostVmcb
         /\ cpu'[t].hostStack = private.hostStack
         /\ config.np => cpu'[t].env = vmcb[cpu[t].vmcb].env
         /\ vmcb' = vmcb
<1> DEFINE e == [vmcb[cpu[t].vmcb].env EXCEPT !.pat = IF config.np THEN @ ELSE cpu[t].env.pat]
<1>1. cpu \in [Threads -> Cpu] /\ private.hostStack \in Threads
  BY DEF TypeOK, Cpu
<1>2. cpu[t] \in Cpu /\ cpu[t].env \in Environment /\ cpu[t].vmcb \in Threads
  BY <1>1 DEF Cpu
<1>3. vmcb[cpu[t].vmcb].env \in Environment
  BY <1>2 DEF TypeOK
<1>4. e \in Environment /\ (config.np => e = vmcb[cpu[t].vmcb].env)
  BY <1>2, <1>3 DEF Environment
<1> HIDE DEF e
<1>5. cpu' = [cpu EXCEPT ![t] = [cpu[t] EXCEPT !.mode = "guest", !.hostStack = private.hostStack,
                                               !.env = e]] /\ vmcb' = vmcb
  BY DEF EnableVm, e
<1>6. /\ cpu'[t] \in Cpu /\ cpu'[t].mode = "guest" /\ cpu'[t].stamp = cpu[t].stamp
      /\ cpu'[t].vmcb = cpu[t].vmcb /\ cpu'[t].hostVmcb = cpu[t].hostVmcb
      /\ cpu'[t].hostStack = private.hostStack /\ cpu'[t].env = e
  BY <1>1, <1>2, <1>4, <1>5 DEF Cpu, Progress
<1> QED
  BY <1>1, <1>4, <1>5, <1>6

-----------------------------------------------------------------------------
(* What a step leaves of a thread's invariant. *)

\* The thread has made no progress.
Unmoved(t) ==
  /\ cpu'[t].mode = cpu[t].mode /\ cpu'[t].env = cpu[t].env
  /\ cpu'[t].stamp = cpu[t].stamp /\ cpu'[t].vmcb = cpu[t].vmcb
  /\ cpu'[t].hostVmcb = cpu[t].hostVmcb /\ cpu'[t].hostStack = cpu[t].hostStack

\* A thread that does not move keeps what it has as long as its slots do.
LEMMA ThreadKept ==
  ASSUME NEW t, ThreadInv(t), config' = config, Unmoved(t),
         \A i \in 0..SlotOf(t) : Filled(i) => Filled(i)',
         cpu[t].mode = "saved" => vmcb'[SlotOf(t)].env = vmcb[SlotOf(t)].env
  PROVE  ThreadInv(t)'
<1>1. SlotOf(t)' = SlotOf(t) /\ Bsp' = Bsp
  BY DEF SlotOf, BspNum, Bsp
<1> QED
  BY <1>1 DEF ThreadInv, Unmoved, Virtualised, Kept

\* A thread that has not been started has only its environment to keep.
LEMMA FreshKept ==
  ASSUME NEW t, ThreadInv(t), config' = config, cpu[t].mode = "firmware",
         cpu'[t].mode = "firmware", cpu'[t].env = cpu[t].env
  PROVE  ThreadInv(t)'
BY DEF ThreadInv, Virtualised, Kept

\* Filled slots stay filled unless their components change.
LEMMA FilledKept ==
  ASSUME NEW i, Filled(i), UNCHANGED config,
         context'[i] = context[i], mmio'[i] = mmio[i], table'[i] = table[i]
  PROVE  Filled(i)'
BY DEF Filled, TableOf

-----------------------------------------------------------------------------
(* The bootstrap processor before it comes to the loop: no thread has been *)
(* started.                                                                *)

\* The invariant holds when the driver is loaded: nothing has been started.
LEMMA InitIInv == Init => IInv
<1> SUFFICES ASSUME Init PROVE IInv
  OBVIOUS
<1>1. config.bsp \in Threads /\ Bsp = config.bsp /\ config.bsp \in enabled /\ enabled \subseteq Threads
  BY DEF Init, Bsp
<1>2. 0 \in Threads
  BY ThreadsType
<1>3. /\ cpu \in [Threads -> Cpu]
      /\ \A t \in Threads : cpu[t].mode = "firmware" /\ Kept(t, cpu[t].env)
  <2>1. PICK svmdis \in BOOLEAN, lock \in BOOLEAN :
          cpu = [t \in Threads |->
                   [mode |-> "firmware", svmdis |-> svmdis, lock |-> lock, svme |-> FALSE,
                    env |-> [pat |-> "firmware", cd |-> t \in config.cd, tf |-> config.tf, if |-> TRUE],
                    vmcb |-> 0, hostVmcb |-> 0, hostStack |-> 0, stamp |-> 0]]
    BY Zenon DEF Init
  <2>2. config.tf \in BOOLEAN
    BY DEF Init
  <2> QED
    BY <1>2, <2>1, <2>2 DEF Cpu, Progress, Environment, Kept
<1>4. vmcb \in [Threads -> [save : Threads, env : Environment]]
  BY DEF Init, ZeroEnv, Environment
<1>5. TypeOK
  BY <1>1, <1>2, <1>3, <1>4, ThreadsType DEF Init, TypeOK, NoSlot, Cpu, Uninit
<1>6. PhaseInv
  BY <1>1, <1>3 DEF Init, PhaseInv, Before, Looping, Launching, Fresh
<1>7. SlotsInv
  BY DEF Init, SlotsInv, Looping, Launching
<1>8. \A t \in Threads : OrderInv(t) /\ ThreadInv(t)
  BY <1>1, <1>3 DEF Init, OrderInv, ThreadInv, Looping, Launching, Virtualised
<1> QED
  BY <1>5, <1>6, <1>7, <1>8 DEF IInv

\* In a state in which nothing has been started, a step of the bootstrap
\* processor that starts nothing keeps what the threads have.
LEMMA FreshThreads ==
  ASSUME IInv, Fresh, config' = config,
         \A t \in Threads : cpu'[t].mode = cpu[t].mode /\ cpu'[t].env = cpu[t].env,
         pc' \notin {"loop", "start", "wait", "launch", "vmrun"} \/ (pc' = "loop" /\ index' = 0)
  PROVE  /\ Fresh'
         /\ \A t \in Threads : OrderInv(t)' /\ ThreadInv(t)'
<1>1. Fresh'
  BY DEF Fresh, Threads
<1>2. ASSUME NEW t \in Threads PROVE ThreadInv(t)'
  BY <1>2, FreshKept DEF IInv, Fresh
<1>3. ASSUME NEW t \in Threads PROVE OrderInv(t)'
  <2>1. Bsp' \in Threads
    BY BspSlot DEF IInv, Bsp
  <2>2. cpu'[t].mode = "firmware" /\ cpu'[Bsp'].mode = "firmware"
    BY <1>1, <1>3, <2>1 DEF Fresh, Threads
  <2>3. ~(t < 0)
    BY <1>3, ThreadsType
  <2> QED
    BY <2>2, <2>3 DEF OrderInv, Looping, Launching
<1> QED
  BY <1>1, <1>2, <1>3

\* Clearing SVMDIS on the bootstrap processor starts nothing.
LEMMA EntryPointIInv == IInv /\ EntryPoint => IInv'
<1> SUFFICES ASSUME IInv, EntryPoint PROVE IInv'
  OBVIOUS
<1>1. TypeOK /\ PhaseInv /\ SlotsInv /\ Fresh
  BY DEF IInv, EntryPoint, PhaseInv, Before
<1>2. Bsp \in Threads /\ cpu \in [Threads -> Cpu]
  BY <1>1, BspSlot DEF TypeOK, Cpu
<1>3. \/ cpu' = cpu
      \/ cpu' = [cpu EXCEPT ![Bsp] = [cpu[Bsp] EXCEPT !.svmdis = FALSE]]
  BY DEF EntryPoint
<1>4. /\ cpu' \in [Threads -> Cpu]
      /\ \A t \in Threads : cpu'[t].mode = cpu[t].mode /\ cpu'[t].env = cpu[t].env
  <2>1. cpu[Bsp] \in Cpu
    BY <1>2
  <2> DEFINE c == [cpu[Bsp] EXCEPT !.svmdis = FALSE]
  <2>3. c \in Cpu /\ c.mode = cpu[Bsp].mode /\ c.env = cpu[Bsp].env
    BY <2>1 DEF Cpu
  <2> HIDE DEF c
  <2>4. CASE cpu' = [cpu EXCEPT ![Bsp] = c]
    BY <1>2, <2>3, <2>4
  <2> QED
    BY <1>2, <1>3, <2>4 DEF c
<1>5. UNCHANGED <<config, enabled, index, private, context, mmio, table, vmcb>>
  BY DEF EntryPoint
<1>6. \/ pc' \in {"unsupported", "prepare"} /\ startImage' = startImage
      \/ pc' = "boot" /\ ~config.immediately /\ startImage' = "shim"
  BY DEF EntryPoint
<1>7. TypeOK'
  BY <1>1, <1>4, <1>5, <1>6 DEF TypeOK, Cpu, Threads, Uninit
<1>8. Fresh' /\ \A t \in Threads : OrderInv(t)' /\ ThreadInv(t)'
  BY <1>1, <1>4, <1>5, <1>6, FreshThreads
<1>9. PhaseInv'
  <2>1. cpu'[Bsp'].mode = cpu[Bsp].mode
    BY <1>2, <1>4, <1>5 DEF Bsp
  <2> QED
    BY <1>1, <1>5, <1>6, <1>8, <2>1 DEF PhaseInv, Before, Looping, Launching, Bsp
<1>10. SlotsInv'
  BY <1>1, <1>5, <1>6 DEF SlotsInv, Looping, Launching, Threads, Uninit
<1> QED
  BY <1>7, <1>8, <1>9, <1>10 DEF IInv, Threads

\* Steps before the loop that change none of what is launched.
LEMMA EarlyIInv ==
  ASSUME IInv, StartImage \/ PrepareAps \/ EnableAp
  PROVE  IInv'
<1>1. TypeOK /\ PhaseInv /\ SlotsInv
  BY DEF IInv
<1>2. UNCHANGED <<config, private, context, mmio, table, vmcb, cpu>>
  BY DEF StartImage, PrepareAps, EnableAp, NextAp
<1>3. /\ Bsp \in Threads /\ Bsp' = Bsp /\ NumThreads' = NumThreads /\ BspNum' = BspNum
      /\ cpu'[Bsp'] = cpu[Bsp]
  BY <1>1, <1>2, BspSlot DEF Bsp, NumThreads, BspNum
<1>4. Fresh' <=> Fresh
  BY <1>2 DEF Fresh, Threads
<1>5. ASSUME NEW t \in Threads PROVE ThreadInv(t)'
  BY <1>2, <1>5, ThreadKept, FilledKept DEF IInv, Unmoved
<1>6. SlotsInv' /\ \A t \in Threads : OrderInv(t)'
  <2>1. pc' \notin {"loop", "start", "wait", "launch", "vmrun"}
    BY DEF StartImage, PrepareAps, EnableAp, NextAp
  <2>2. pc # "wait"
    BY DEF StartImage, PrepareAps, EnableAp
  <2> QED
    BY <1>1, <1>2, <1>3, <2>1, <2>2 DEF IInv, SlotsInv, OrderInv, Looping, Launching, Threads, Uninit
<1>7. CASE StartImage
  <2>1. UNCHANGED <<enabled, index>> /\ pc = "boot"
    BY <1>7 DEF StartImage
  <2>2. \/ startImage = "firmware" /\ pc' = "started" /\ startImage' = startImage
        \/ startImage = "shim" /\ pc' = "prepare" /\ startImage' = "null"
        \/ startImage = "shim" /\ pc' = "crashed" /\ startImage' = startImage
    BY <1>7 DEF StartImage, mInternalStartImage
  <2>3. TypeOK'
    BY <1>1, <1>2, <2>1, <2>2 DEF TypeOK, Threads, Uninit
  <2>4. PhaseInv'
    BY <1>1, <1>2, <1>3, <1>4, <2>1, <2>2 DEF PhaseInv, Before, Looping, Launching
  <2> QED
    BY <1>5, <1>6, <2>3, <2>4 DEF IInv, Threads
<1>8. CASE PrepareAps
  <2>1. UNCHANGED <<startImage, enabled>> /\ pc = "prepare" /\ Fresh
    BY <1>1, <1>8 DEF PrepareAps, PhaseInv, Before
  <2>2. \/ ~config.virtualizeAps /\ pc' = "allocate" /\ index' = index
        \/ pc' = "return" /\ index' = index
        \/ config.virtualizeAps /\ pc' = "allocate" /\ enabled = Threads /\ index' = 0
        \/ config.virtualizeAps /\ pc' = "enable" /\ index' = 0
    BY <1>8 DEF PrepareAps
  <2>3. TypeOK'
    <3>1. index' \in 0..NumProcessors /\ pc' \in {"return", "allocate", "enable"}
      BY <1>1, <2>2, ThreadsType DEF TypeOK
    <3> QED
      BY <1>1, <1>2, <2>1, <3>1 DEF TypeOK, Threads, Uninit
  <2>4. PhaseInv'
    BY <1>1, <1>2, <1>3, <1>4, <2>1, <2>2, ThreadsType DEF PhaseInv, Before, Looping, Launching, Threads
  <2> QED
    BY <1>5, <1>6, <2>3, <2>4 DEF IInv, Threads
<1>9. CASE EnableAp
  <2>1. /\ startImage' = startImage /\ pc = "enable" /\ Fresh /\ config.virtualizeAps
        /\ index \in Threads /\ \A i \in 0..(index - 1) : i \in enabled
    BY <1>1, <1>9, ThreadsType DEF EnableAp, PhaseInv, Before, TypeOK
  <2>2. \/ /\ index \in enabled' /\ enabled \subseteq enabled' /\ enabled' \subseteq Threads
           /\ NextAp
        \/ enabled' = enabled /\ pc' = "return" /\ index' = index
    <3>1. CASE index = Bsp
      BY <1>1, <1>9, <3>1 DEF EnableAp, TypeOK, PhaseInv
    <3>2. CASE index # Bsp
      <4>1. PICK r \in EnableDisableAP(index) :
              /\ enabled' = r.enabled
              /\ IF r.success THEN NextAp ELSE pc' = "return" /\ UNCHANGED index
        BY <1>9, <3>2 DEF EnableAp
      <4>2. \/ r.success /\ r.enabled = enabled \cup {index}
            \/ ~r.success /\ r.enabled = enabled
        BY DEF EnableDisableAP
      <4> QED
        BY <1>1, <2>1, <4>1, <4>2 DEF TypeOK
    <3> QED
      BY <3>1, <3>2
  <2>3. CASE enabled' = enabled /\ pc' = "return" /\ index' = index
    <3>1. TypeOK'
      BY <1>1, <1>2, <2>1, <2>3 DEF TypeOK, Threads, Uninit
    <3>2. PhaseInv'
      BY <1>1, <1>2, <1>3, <1>4, <2>1, <2>3 DEF PhaseInv, Before, Looping, Launching
    <3> QED
      BY <1>5, <1>6, <3>1, <3>2 DEF IInv, Threads
  <2>4. CASE /\ index \in enabled' /\ enabled \subseteq enabled' /\ enabled' \subseteq Threads
             /\ NextAp
    <3>1. /\ index' = index + 1 /\ index + 1 <= NumProcessors
          /\ \/ pc' = "enable" /\ index + 1 < NumProcessors
             \/ pc' = "allocate" /\ index + 1 = NumProcessors
      BY <1>1, <2>1, <2>4, BspSlot, ThreadsType DEF NextAp
    <3>2. \A i \in 0..index : i \in enabled'
      BY <2>1, <2>4, ThreadsType
    <3>3. pc' = "allocate" => enabled' = Threads
      BY <2>4, <3>1, <3>2, ThreadsType
    <3>4. TypeOK'
      <4>1. index' \in 0..NumProcessors /\ pc' \in {"allocate", "enable"}
        BY <2>1, <3>1, ThreadsType
      <4> QED
        BY <1>1, <1>2, <2>1, <2>4, <4>1 DEF TypeOK, Threads, Uninit
    <3>5. PhaseInv'
      BY <1>1, <1>2, <1>3, <1>4, <2>1, <2>4, <3>1, <3>2, <3>3, ThreadsType
         DEF PhaseInv, Before, Looping, Launching, Threads
    <3> QED
      BY <1>5, <1>6, <3>4, <3>5 DEF IInv, Threads
  <2> QED
    BY <2>2, <2>3, <2>4
<1> QED
  BY <1>7, <1>8, <1>9

\* The copies of the template VMCB point to their own save areas, and the MMIO
\* information of all slots in use is set before the loop begins.
LEMMA SetUpRuntimeIInv == IInv /\ SetUpRuntime => IInv'
<1> SUFFICES ASSUME IInv, SetUpRuntime PROVE IInv'
  OBVIOUS
<1>1. TypeOK /\ PhaseInv /\ SlotsInv /\ Fresh
  BY DEF IInv, SetUpRuntime, PhaseInv, Before
<1>2. /\ UNCHANGED <<config, startImage, enabled, private, context, table, cpu>>
      /\ pc = "allocate"
  BY DEF SetUpRuntime
<1>3. /\ Bsp \in Threads /\ Bsp' = Bsp /\ NumThreads' = NumThreads
      /\ cpu'[Bsp'] = cpu[Bsp] /\ NumThreads \in Nat
  BY <1>1, <1>2, BspSlot DEF Bsp, NumThreads
<1>4. \/ pc' = "return" /\ UNCHANGED <<index, mmio, vmcb>>
      \/ /\ pc' = "loop" /\ index' = 0 /\ mmio' = ModuleEntryPoint
         /\ vmcb' = [i \in Threads |-> IF i < NumThreads THEN VmcbOf(i) ELSE vmcb[i]]
  BY DEF SetUpRuntime
<1>5. \A i \in Threads : VmcbOf(i) \in [save : Threads, env : Environment] /\ VmcbOf(i).save = i
  BY DEF VmcbOf, ZeroEnv, Environment
<1>6. TypeOK'
  <2>1. mmio' \in [Threads -> {"lapic", "uninit"}]
    BY <1>1, <1>4 DEF TypeOK, ModuleEntryPoint
  <2>2. vmcb' \in [Threads -> [save : Threads, env : Environment]]
    BY <1>1, <1>4, <1>5 DEF TypeOK
  <2>3. index' \in 0..NumProcessors /\ pc' \in {"return", "loop"}
    BY <1>1, <1>4, ThreadsType DEF TypeOK
  <2> QED
    BY <1>1, <1>2, <2>1, <2>2, <2>3 DEF TypeOK, Threads, Uninit
<1>7. Fresh' /\ \A t \in Threads : OrderInv(t)' /\ ThreadInv(t)'
  BY <1>1, <1>2, <1>4, FreshThreads
<1>8. PhaseInv'
  BY <1>1, <1>2, <1>3, <1>4, <1>7 DEF PhaseInv, Before, Looping, Launching, Fresh
<1>9. SlotsInv'
  <2>1. \A i \in Threads : vmcb'[i].save = i /\ context'[i] \in {i, Uninit}
    BY <1>1, <1>2, <1>4, <1>5 DEF SlotsInv
  <2>2. Looping' => /\ index' <= NumThreads
                    /\ \A i \in Threads : i < NumThreads => mmio'[i] = "lapic"
    BY <1>3, <1>4 DEF Looping, ModuleEntryPoint
  <2>3. \A i \in Threads : ~(i < 0)
    BY ThreadsType
  <2> QED
    BY <1>3, <1>4, <2>1, <2>2, <2>3 DEF SlotsInv, Looping, Launching, Threads, Uninit
<1> QED
  BY <1>6, <1>7, <1>8, <1>9 DEF IInv, Threads

-----------------------------------------------------------------------------
(* The loop. *)

\* The loop fills the slot of its index and moves on, or starts the AP of that slot.
LEMMA PrepareThreadIInv == IInv /\ PrepareThread => IInv'
<1> SUFFICES ASSUME IInv, PrepareThread PROVE IInv'
  OBVIOUS
<1>1. TypeOK /\ PhaseInv /\ SlotsInv /\ pc = "loop" /\ index < NumThreads
  BY DEF IInv, PrepareThread
<1>2. /\ UNCHANGED <<config, startImage, enabled, mmio, vmcb, cpu>>
      /\ context' = [context EXCEPT ![index] = index]
      /\ table' = [table EXCEPT ![index] = TableOf(index)]
  BY DEF PrepareThread
<1>3. \/ index = BspNum /\ pc' = "loop" /\ index' = index + 1 /\ private' = private
      \/ index # BspNum /\ pc' = "start" /\ private' = PrivateOf(index, index) /\ index' = index
  BY DEF PrepareThread
<1>4. /\ Bsp \in Threads /\ Bsp' = Bsp /\ NumThreads' = NumThreads /\ BspNum' = BspNum
      /\ cpu'[Bsp'] = cpu[Bsp] /\ NumThreads \in Nat /\ NumThreads <= NumProcessors
      /\ index \in Threads
  BY <1>1, <1>2, BspSlot, ThreadsType DEF Bsp, NumThreads, BspNum, TypeOK
<1>5. index # BspNum => config.virtualizeAps /\ index # Bsp /\ index < NumProcessors
  BY <1>1, <1>4, BspSlot, ThreadsType
<1>6. \A i : TableOf(i)' = TableOf(i)
  BY <1>2 DEF TableOf
<1>7. mmio[index] = "lapic"
  BY <1>1, <1>4 DEF SlotsInv, Looping
<1>8. \A i \in Threads : Filled(i) \/ i = index => Filled(i)'
  BY <1>1, <1>2, <1>4, <1>6, <1>7 DEF Filled, TypeOK
<1>9. TypeOK'
  <2>1. TableOf(index) \in {"none", "lapic", "uninit"}
    BY <1>7 DEF TableOf
  <2>2. context' \in [Threads -> Threads \cup {Uninit}] /\ table' \in [Threads -> {"none", "lapic", "uninit"}]
    BY <1>1, <1>2, <1>4, <2>1 DEF TypeOK
  <2>3. private' \in [context : Threads, hostVmcb : Threads, hostStack : Threads, stamp : Threads]
    BY <1>1, <1>3, <1>4, PrivateType DEF TypeOK
  <2>4. index' \in 0..NumProcessors /\ pc' \in {"loop", "start"}
    BY <1>1, <1>3, <1>4, ThreadsType
  <2> QED
    BY <1>1, <1>2, <2>2, <2>3, <2>4 DEF TypeOK, Threads, Uninit
<1>10. PhaseInv'
  <2>1. Fresh' <=> Fresh
    BY <1>2 DEF Fresh, Threads
  <2> QED
    BY <1>1, <1>2, <1>3, <1>4, <1>5, <2>1
       DEF PhaseInv, Before, Looping, Launching, PrivateOf, Threads
<1>11. SlotsInv'
  <2>1. \A i \in Threads : vmcb'[i].save = i /\ context'[i] \in {i, Uninit}
    BY <1>1, <1>2, <1>4 DEF SlotsInv, TypeOK
  <2>2. index' <= NumThreads
    BY <1>1, <1>3, <1>4, ThreadsType
  <2>3. \A i \in Threads : i <= index => Filled(i)'
    BY <1>1, <1>4, <1>8, ThreadsType DEF SlotsInv
  <2>4. \A i \in Threads : i < index + 1 => i <= index
    BY <1>4, ThreadsType
  <2> QED
    BY <1>1, <1>2, <1>3, <1>4, <2>1, <2>2, <2>3, <2>4
       DEF SlotsInv, Looping, Launching, Threads, Uninit
<1>12. ASSUME NEW t \in Threads PROVE ThreadInv(t)'
  BY <1>1, <1>2, <1>8, <1>12, SlotType, ThreadKept DEF IInv, Unmoved
<1>13. ASSUME NEW t \in Threads PROVE OrderInv(t)'
  <2>1. OrderInv(t) /\ t \in Nat /\ index \in Nat
    BY <1>4, <1>13, ThreadsType DEF IInv
  <2>2. CASE index = BspNum
    <3>1. config.virtualizeAps => index = Bsp
      BY <1>1, <2>2, BspSlot
    <3>2. t # Bsp /\ config.virtualizeAps => (t < index + 1 <=> t < index)
      BY <2>1, <3>1
    <3> QED
      BY <1>1, <1>2, <1>3, <1>4, <2>1, <2>2, <3>2 DEF OrderInv, Looping, Launching
  <2>3. CASE index # BspNum
    BY <1>1, <1>2, <1>3, <1>4, <2>1, <2>3 DEF OrderInv, Looping, Launching
  <2> QED
    BY <2>2, <2>3
<1> QED
  BY <1>9, <1>10, <1>11, <1>12, <1>13 DEF IInv, Threads

\* A thread's progress alone changes.
LEMMA ModeChanged ==
  ASSUME TypeOK, NEW t \in Threads, NEW m \in Progress, cpu' = [cpu EXCEPT ![t].mode = m]
  PROVE  /\ cpu' \in [Threads -> Cpu]
         /\ \A u \in Threads \ {t} : cpu'[u] = cpu[u]
         /\ cpu'[t] = [cpu[t] EXCEPT !.mode = m]
         /\ cpu'[t].mode = m /\ cpu'[t].env = cpu[t].env
         /\ cpu'[t].stamp = cpu[t].stamp /\ cpu'[t].vmcb = cpu[t].vmcb
         /\ cpu'[t].hostVmcb = cpu[t].hostVmcb /\ cpu'[t].hostStack = cpu[t].hostStack
<1>1. cpu \in [Threads -> Cpu]
  BY DEF TypeOK, Cpu
<1>2. cpu[t] \in Cpu
  BY <1>1
<1> DEFINE c == [cpu[t] EXCEPT !.mode = m]
<1>3. /\ c \in Cpu /\ c.mode = m /\ c.env = cpu[t].env
      /\ c.stamp = cpu[t].stamp /\ c.vmcb = cpu[t].vmcb
      /\ c.hostVmcb = cpu[t].hostVmcb /\ c.hostStack = cpu[t].hostStack
  BY <1>2 DEF Cpu
<1> HIDE DEF c
<1>4. cpu' = [cpu EXCEPT ![t] = c]
  BY DEF c
<1>5. cpu' \in [Threads -> Cpu] /\ cpu'[t] = c /\ \A u \in Threads \ {t} : cpu'[u] = cpu[u]
  BY <1>1, <1>3, <1>4
<1> QED
  BY <1>3, <1>5 DEF c

\* The AP that is called has not been started before; one that is refused is never
\* started later.
LEMMA StartupThisAPIInv == IInv /\ StartupThisAP => IInv'
<1> SUFFICES ASSUME IInv, StartupThisAP PROVE IInv'
  OBVIOUS
<1>1. TypeOK /\ PhaseInv /\ SlotsInv /\ pc = "start"
  BY DEF IInv, StartupThisAP
<1>2. UNCHANGED <<config, startImage, enabled, private, context, mmio, table, vmcb>>
  BY DEF StartupThisAP
<1>3. PICK m \in {"called", "refused"} :
        /\ cpu' = [cpu EXCEPT ![index].mode = m]
        /\ \/ m = "called" /\ pc' = "wait" /\ index' = index
           \/ m = "refused" /\ pc' = "loop" /\ index' = index + 1
  BY DEF StartupThisAP
<1>4. /\ index \in Threads /\ index # Bsp /\ config.virtualizeAps /\ index < NumProcessors
      /\ private = PrivateOf(index, index)
  BY <1>1, ThreadsType DEF PhaseInv, TypeOK
<1>5. /\ cpu' \in [Threads -> Cpu]
      /\ \A u \in Threads \ {index} : cpu'[u] = cpu[u]
      /\ cpu'[index].mode = m /\ cpu'[index].env = cpu[index].env
  BY <1>1, <1>3, <1>4, ModeChanged DEF Progress
<1>6. cpu[index].mode = "firmware"
  <2>1. OrderInv(index) /\ index \in Nat
    BY <1>4, ThreadsType DEF IInv
  <2>2. ~(index < index)
    BY <2>1
  <2> QED
    BY <1>1, <1>4, <2>1, <2>2 DEF OrderInv, Looping
<1>7. /\ Bsp \in Threads /\ Bsp' = Bsp /\ NumThreads' = NumThreads /\ BspNum' = BspNum
      /\ cpu'[Bsp'] = cpu[Bsp] /\ NumThreads = NumProcessors
  BY <1>1, <1>2, <1>4, <1>5, BspSlot DEF Bsp, NumThreads, BspNum
<1>8. \A i \in Threads : Filled(i) => Filled(i)'
  BY <1>2, FilledKept
<1>9. TypeOK'
  <2>1. index' \in 0..NumProcessors /\ pc' \in {"loop", "wait"}
    BY <1>1, <1>3, <1>4, ThreadsType
  <2> QED
    BY <1>1, <1>2, <1>5, <2>1 DEF TypeOK, Threads, Uninit, Cpu
<1>10. PhaseInv'
  BY <1>1, <1>2, <1>3, <1>4, <1>7 DEF PhaseInv, Before, Looping, Launching, PrivateOf
<1>11. SlotsInv'
  <2>1. index' <= NumThreads
    BY <1>3, <1>4, <1>7, ThreadsType
  <2>2. \A i \in Threads : i < index' => i <= index
    BY <1>3, <1>4, ThreadsType
  <2>3. \A i \in Threads : i <= index => Filled(i)'
    BY <1>1, <1>8 DEF SlotsInv
  <2> QED
    BY <1>1, <1>2, <1>3, <1>7, <2>1, <2>2, <2>3
       DEF SlotsInv, Looping, Launching, Threads, Uninit
<1>12. ASSUME NEW t \in Threads PROVE ThreadInv(t)'
  <2>1. CASE t # index
    <3>1. Unmoved(t)
      BY <1>5, <1>12, <2>1 DEF Unmoved
    <3> QED
      BY <1>1, <1>2, <1>8, <1>12, <3>1, SlotType, ThreadKept DEF IInv
  <2>2. CASE t = index
    <3>1. SlotOf(t)' = t /\ \A i \in 0..t : i \in Threads /\ i <= t
      BY <1>1, <1>2, <1>4, <2>2, SlotType, ThreadsType DEF SlotOf
    <3>2. \A i \in 0..t : Filled(i)'
      BY <1>1, <1>8, <2>2, <3>1 DEF SlotsInv
    <3>3. Kept(t, cpu[t].env)
      BY <1>4, <1>6, <2>2 DEF IInv, ThreadInv
    <3>4. Kept(t, cpu[t].env)'
      BY <1>2, <1>5, <2>2, <3>3 DEF Kept
    <3> QED
      BY <1>3, <1>5, <2>2, <3>1, <3>2, <3>4 DEF ThreadInv, Virtualised
  <2> QED
    BY <2>1, <2>2
<1>13. ASSUME NEW t \in Threads PROVE OrderInv(t)'
  <2>1. OrderInv(t) /\ t \in Nat /\ index \in Nat
    BY <1>4, <1>13, ThreadsType DEF IInv
  <2>2. CASE t # index
    <3>1. t < index + 1 <=> t < index
      BY <2>1, <2>2
    <3>2. cpu'[t] = cpu[t]
      BY <1>5, <1>13, <2>2
    <3> QED
      BY <1>1, <1>2, <1>3, <1>7, <2>1, <3>1, <3>2 DEF OrderInv, Looping, Launching
  <2>3. CASE t = index
    <3>1. t < index + 1 /\ ~(t < index)
      BY <2>1, <2>3
    <3>2. cpu[Bsp].mode = "firmware"
      BY <1>1 DEF PhaseInv, Looping
    <3> QED
      BY <1>2, <1>3, <1>4, <1>5, <1>7, <2>3, <3>1, <3>2 DEF OrderInv, Looping, Launching
  <2> QED
    BY <2>2, <2>3
<1> QED
  BY <1>9, <1>10, <1>11, <1>12, <1>13 DEF IInv, Threads

\* The loop goes on once the AP of its index runs in its VM.
LEMMA ApFinishedIInv == IInv /\ ApFinished => IInv'
<1> SUFFICES ASSUME IInv, ApFinished PROVE IInv'
  OBVIOUS
<1>1. /\ TypeOK /\ PhaseInv /\ SlotsInv
      /\ pc = "wait" /\ pc' = "loop" /\ index' = index + 1 /\ cpu[index].mode = "parked"
  BY DEF IInv, ApFinished
<1>2. UNCHANGED <<config, startImage, enabled, private, context, mmio, table, vmcb, cpu>>
  BY DEF ApFinished
<1>3. index \in Threads /\ index # Bsp /\ config.virtualizeAps /\ index < NumProcessors
  BY <1>1, ThreadsType DEF PhaseInv, TypeOK
<1>4. /\ Bsp \in Threads /\ Bsp' = Bsp /\ NumThreads' = NumThreads /\ BspNum' = BspNum
      /\ cpu'[Bsp'] = cpu[Bsp] /\ NumThreads = NumProcessors
  BY <1>1, <1>2, <1>3, BspSlot DEF Bsp, NumThreads, BspNum
<1>5. index + 1 \in 0..NumProcessors /\ \A t \in Threads : t < index + 1 => t <= index
  BY <1>3, ThreadsType
<1>6. \A i \in Threads : Filled(i) => Filled(i)'
  BY <1>2, FilledKept
<1>7. TypeOK'
  BY <1>1, <1>2, <1>5 DEF TypeOK, Threads, Uninit
<1>8. PhaseInv'
  <2>1. Fresh' <=> Fresh
    BY <1>2 DEF Fresh, Threads
  <2> QED
    BY <1>1, <1>2, <1>4, <2>1 DEF PhaseInv, Before, Looping, Launching
<1>9. SlotsInv'
  BY <1>1, <1>2, <1>4, <1>5, <1>6 DEF SlotsInv, Looping, Launching, Threads, Uninit
<1>10. ASSUME NEW t \in Threads PROVE ThreadInv(t)'
  BY <1>1, <1>2, <1>6, <1>10, SlotType, ThreadKept DEF IInv, Unmoved
<1>11. ASSUME NEW t \in Threads PROVE OrderInv(t)'
  <2>1. OrderInv(t) /\ (t < index + 1 => t < index \/ t = index)
    BY <1>3, <1>11, ThreadsType DEF IInv
  <2>2. t < index => t < index + 1
    BY <1>3, <1>11, ThreadsType
  <2>3. t = index => t < index + 1
    BY <1>3, ThreadsType
  <2> QED
    BY <1>1, <1>2, <1>4, <2>1, <2>2, <2>3 DEF OrderInv, Looping, Launching
<1> QED
  BY <1>7, <1>8, <1>9, <1>10, <1>11 DEF IInv, Threads

-----------------------------------------------------------------------------
(* The bootstrap processor after the loop. *)

\* After the loop all slots are filled and no AP is on its way; ThreadPrivate is
\* filled once more, for the bootstrap processor.
LEMMA LaunchBspIInv == IInv /\ LaunchBsp => IInv'
<1> SUFFICES ASSUME IInv, LaunchBsp PROVE IInv'
  OBVIOUS
<1>1. /\ TypeOK /\ PhaseInv /\ SlotsInv
      /\ pc = "loop" /\ pc' = "launch" /\ index >= NumThreads
      /\ private' = PrivateOf(BspNum, private.stamp)
  BY DEF IInv, LaunchBsp
<1>2. UNCHANGED <<config, startImage, enabled, index, context, mmio, table, vmcb, cpu>>
  BY DEF LaunchBsp
<1>3. /\ Bsp \in Threads /\ Bsp' = Bsp /\ NumThreads' = NumThreads /\ BspNum' = BspNum
      /\ cpu'[Bsp'] = cpu[Bsp] /\ BspNum \in Threads /\ NumThreads \in Nat
      /\ config.virtualizeAps => NumThreads = NumProcessors
  BY <1>1, <1>2, BspSlot DEF Bsp, NumThreads, BspNum
<1>4. index = NumThreads
  BY <1>1, <1>3, ThreadsType DEF SlotsInv, Looping, TypeOK
<1>5. \A i \in Threads : Filled(i) => Filled(i)'
  BY <1>2, FilledKept
<1>6. TypeOK'
  <2>1. private' \in [context : Threads, hostVmcb : Threads, hostStack : Threads, stamp : Threads]
    BY <1>1, <1>3, PrivateType DEF TypeOK
  <2> QED
    BY <1>1, <1>2, <2>1 DEF TypeOK, Threads, Uninit
<1>7. PhaseInv'
  <2>1. Fresh' <=> Fresh
    BY <1>2 DEF Fresh, Threads
  <2>2. private'.stamp = private.stamp
    BY <1>1 DEF PrivateOf
  <2> QED
    BY <1>1, <1>2, <1>3, <2>1, <2>2 DEF PhaseInv, Before, Looping, Launching
<1>8. SlotsInv'
  BY <1>1, <1>2, <1>3, <1>4, <1>5 DEF SlotsInv, Looping, Launching, Threads, Uninit
<1>9. ASSUME NEW t \in Threads PROVE ThreadInv(t)'
  BY <1>1, <1>2, <1>5, <1>9, SlotType, ThreadKept DEF IInv, Unmoved
<1>10. ASSUME NEW t \in Threads PROVE OrderInv(t)'
  <2>1. OrderInv(t) /\ (config.virtualizeAps => t < index)
    BY <1>3, <1>4, <1>10, ThreadsType DEF IInv
  <2> QED
    BY <1>1, <1>2, <1>3, <2>1 DEF OrderInv, Looping, Launching
<1> QED
  BY <1>6, <1>7, <1>8, <1>9, <1>10 DEF IInv, Threads

\* Returning to the caller changes no thread.
LEMMA ReturnIInv == IInv /\ Return => IInv'
<1> SUFFICES ASSUME IInv, Return PROVE IInv'
  OBVIOUS
<1>1. /\ TypeOK /\ PhaseInv /\ SlotsInv
      /\ pc = "return" /\ pc' \in {"boot", "crashed"}
      /\ pc' = "boot" => config.immediately
  BY DEF IInv, Return
<1>2. UNCHANGED <<config, startImage, enabled, index, private, context, mmio, table, vmcb, cpu>>
  BY DEF Return
<1>3. Bsp' = Bsp /\ cpu'[Bsp'] = cpu[Bsp]
  BY <1>2 DEF Bsp
<1>4. TypeOK'
  BY <1>1, <1>2 DEF TypeOK, Threads, Uninit
<1>5. PhaseInv'
  <2>1. Fresh' <=> Fresh
    BY <1>2 DEF Fresh, Threads
  <2> QED
    BY <1>1, <1>2, <1>3, <2>1 DEF PhaseInv, Before, Looping, Launching
<1>6. SlotsInv'
  BY <1>1, <1>2 DEF SlotsInv, Looping, Launching, Threads, Uninit
<1>7. ASSUME NEW t \in Threads PROVE OrderInv(t)' /\ ThreadInv(t)'
  <2>1. ThreadInv(t)'
    BY <1>2, <1>7, ThreadKept, FilledKept DEF IInv, Unmoved
  <2>2. OrderInv(t)'
    BY <1>1, <1>2, <1>3, <1>7 DEF IInv, OrderInv, Looping, Launching
  <2> QED
    BY <2>1, <2>2
<1> QED
  BY <1>4, <1>5, <1>6, <1>7 DEF IInv, Threads

\* An INIT takes away an AP's VM, not its slot.
LEMMA TakeInitIInv ==
  ASSUME IInv, NEW u \in Threads, TakeInit(u)
  PROVE  IInv'
<1>1. /\ TypeOK /\ PhaseInv /\ SlotsInv
      /\ cpu[Bsp].mode = "guest" /\ cpu[u].mode = "parked"
  BY DEF IInv, TakeInit
<1>2. UNCHANGED <<pc, config, startImage, enabled, index, private, context, mmio, table, vmcb>>
  BY DEF TakeInit
<1>3. Bsp \in Threads /\ Bsp' = Bsp /\ u # Bsp
  BY <1>1, <1>2, BspSlot DEF Bsp
<1>4. /\ cpu' \in [Threads -> Cpu] /\ cpu'[u].mode = "reset"
      /\ \A t \in Threads \ {u} : cpu'[t] = cpu[t]
  <2>1. cpu \in [Threads -> Cpu]
    BY <1>1 DEF TypeOK, Cpu
  <2>2. cpu[u] \in Cpu
    BY <2>1
  <2> DEFINE c == [cpu[u] EXCEPT !.mode = "reset", !.svme = FALSE]
  <2>3. c \in Cpu /\ c.mode = "reset"
    BY <2>2 DEF Cpu, Progress
  <2> HIDE DEF c
  <2>4. cpu' = [cpu EXCEPT ![u] = c]
    BY DEF TakeInit, c
  <2> QED
    BY <2>1, <2>3, <2>4
<1>5. cpu'[Bsp'] = cpu[Bsp] /\ ~Fresh
  BY <1>1, <1>3, <1>4 DEF Fresh
<1>6. ~Looping /\ pc # "launch" /\ pc # "vmrun" /\ ~Before
  BY <1>1, <1>5 DEF PhaseInv
<1>7. TypeOK'
  BY <1>1, <1>2, <1>4 DEF TypeOK, Threads, Uninit, Cpu
<1>8. PhaseInv'
  BY <1>1, <1>2, <1>3, <1>5, <1>6 DEF PhaseInv, Before, Looping, Launching
<1>9. SlotsInv'
  BY <1>1, <1>2, <1>6 DEF SlotsInv, Looping, Launching, Threads, Uninit
<1>10. ASSUME NEW t \in Threads PROVE ThreadInv(t)'
  <2>1. \A i \in Threads : Filled(i) => Filled(i)'
    BY <1>2, FilledKept
  <2>2. CASE t # u
    BY <1>1, <1>2, <1>4, <1>10, <2>1, <2>2, SlotType, ThreadKept DEF IInv, Unmoved
  <2>3. CASE t = u
    <3>1. \A i \in 0..SlotOf(t) : Filled(i)'
      BY <1>1, <1>10, <2>1, <2>3, SlotType DEF IInv, ThreadInv
    <3>2. SlotOf(t)' = SlotOf(t)
      BY <1>2 DEF SlotOf, BspNum, Bsp
    <3> QED
      BY <1>4, <2>3, <3>1, <3>2 DEF ThreadInv, Virtualised
  <2> QED
    BY <2>2, <2>3
<1>11. ASSUME NEW t \in Threads PROVE OrderInv(t)'
  <2>1. OrderInv(t)
    BY <1>11 DEF IInv
  <2>2. CASE t # u
    BY <1>2, <1>3, <1>4, <1>5, <1>11, <2>1, <2>2 DEF OrderInv, Looping, Launching
  <2>3. CASE t = u
    BY <1>1, <1>2, <1>3, <1>4, <1>5, <1>6, <2>1, <2>3 DEF OrderInv, Looping, Launching
  <2> QED
    BY <2>2, <2>3
<1> QED
  BY <1>7, <1>8, <1>9, <1>10, <1>11 DEF IInv, Threads

-----------------------------------------------------------------------------
(* An AP, while the bootstrap processor waits for it. *)

\* The AP that is being launched is the one of the loop's index; what
\* ThreadPrivate says is for it.
LEMMA ApIsLaunched ==
  ASSUME IInv, NEW u \in Threads,
         cpu[u].mode \in {"called", "synced"} \/ (u # Bsp /\ cpu[u].mode \in {"saved", "guest"})
  PROVE  /\ u # Bsp /\ pc = "wait" /\ index = u /\ config.virtualizeAps
         /\ private = PrivateOf(u, u) /\ SlotOf(u) = u
         /\ \A i \in 0..u : i \in Threads /\ Filled(i)
<1>1. TypeOK /\ PhaseInv /\ SlotsInv /\ OrderInv(u)
  BY DEF IInv
<1>2. u # Bsp /\ pc = "wait" /\ index = u
  BY <1>1 DEF PhaseInv, OrderInv
<1>3. config.virtualizeAps /\ private = PrivateOf(u, u) /\ SlotOf(u) = u
  BY <1>1, <1>2, SlotType DEF PhaseInv
<1>4. \A i \in 0..u : i \in Threads /\ i <= index
  BY <1>2, ThreadsType
<1> QED
  BY <1>1, <1>2, <1>3, <1>4 DEF SlotsInv

\* A step of that AP keeps the invariant if it keeps the AP's part of it and
\* leaves the other threads and their VMCBs alone.
LEMMA ApMoved ==
  ASSUME IInv, NEW u \in Threads, u # Bsp, pc = "wait", index = u, config.virtualizeAps,
         UNCHANGED <<pc, config, startImage, enabled, index, private, context, mmio, table>>,
         cpu' \in [Threads -> Cpu], \A t \in Threads \ {u} : cpu'[t] = cpu[t],
         cpu'[u].mode \in {"synced", "saved", "guest", "parked", "faulted"},
         vmcb' \in [Threads -> [save : Threads, env : Environment]],
         \A i \in Threads : vmcb'[i].save = vmcb[i].save,
         \A i \in Threads \ {u} : vmcb'[i] = vmcb[i],
         ThreadInv(u)'
  PROVE  IInv'
<1>1. TypeOK /\ PhaseInv /\ SlotsInv /\ SlotOf(u) = u
  BY SlotType DEF IInv
<1>2. /\ Bsp \in Threads /\ Bsp' = Bsp /\ NumThreads' = NumThreads
      /\ cpu'[Bsp'] = cpu[Bsp] /\ cpu[Bsp].mode = "firmware"
  BY <1>1, BspSlot DEF Bsp, NumThreads, PhaseInv, Looping
<1>3. TypeOK'
  BY <1>1 DEF TypeOK, Threads, Uninit, Cpu
<1>4. PhaseInv'
  BY <1>1, <1>2 DEF PhaseInv, Before, Looping, Launching
<1>5. \A i \in Threads : Filled(i) => Filled(i)'
  BY FilledKept
<1>6. SlotsInv'
  BY <1>1, <1>2, <1>5 DEF SlotsInv, Looping, Launching, Threads, Uninit
<1>7. ASSUME NEW t \in Threads, t # u PROVE ThreadInv(t)'
  <2>1. Unmoved(t)
    BY <1>7 DEF Unmoved
  <2>2. vmcb'[SlotOf(t)] = vmcb[SlotOf(t)]
    BY <1>1, <1>7, SlotType
  <2> QED
    BY <1>1, <1>5, <1>7, <2>1, <2>2, SlotType, ThreadKept DEF IInv
<1>8. ASSUME NEW t \in Threads PROVE OrderInv(t)'
  <2>1. OrderInv(t)
    BY <1>8 DEF IInv
  <2>2. CASE t # u
    BY <1>2, <1>8, <2>1, <2>2 DEF OrderInv, Looping, Launching
  <2>3. CASE t = u
    <3>1. ~(u < u)
      BY ThreadsType
    <3> QED
      BY <1>2, <2>3, <3>1 DEF OrderInv, Looping, Launching
  <2> QED
    BY <2>2, <2>3
<1> QED
  BY <1>3, <1>4, <1>6, <1>7, <1>8 DEF IInv, Threads

\* The stamp an AP reads is the one taken for it.
LEMMA ApSyncTscIInv ==
  ASSUME IInv, NEW u \in Threads, ApSyncTsc(u),
         UNCHANGED <<pc, config, startImage, enabled, index, private, context, mmio, table>>
  PROVE  IInv'
<1>1. TypeOK /\ ThreadInv(u) /\ cpu[u].mode = "called" /\ vmcb' = vmcb
  BY DEF IInv, ApSyncTsc
<1>2. /\ u # Bsp /\ pc = "wait" /\ index = u /\ config.virtualizeAps
      /\ private = PrivateOf(u, u) /\ SlotOf(u) = u
  BY <1>1, ApIsLaunched
<1>3. /\ cpu' \in [Threads -> Cpu] /\ \A t \in Threads \ {u} : cpu'[t] = cpu[t]
      /\ cpu'[u].mode = "synced" /\ cpu'[u].stamp = u /\ cpu'[u].env = cpu[u].env
  <2>1. cpu \in [Threads -> Cpu] /\ private.stamp = u
    BY <1>1, <1>2 DEF TypeOK, Cpu, PrivateOf
  <2>2. cpu[u] \in Cpu
    BY <2>1
  <2> DEFINE c == [cpu[u] EXCEPT !.mode = "synced", !.stamp = u]
  <2>3. c \in Cpu /\ c.mode = "synced" /\ c.stamp = u /\ c.env = cpu[u].env
    BY <2>2 DEF Cpu, Progress
  <2> HIDE DEF c
  <2>4. cpu' = [cpu EXCEPT ![u] = c]
    BY <2>1 DEF ApSyncTsc, c
  <2> QED
    BY <2>1, <2>3, <2>4
<1>4. ThreadInv(u)'
  <2>1. \A i \in 0..u : Filled(i)'
    BY <1>1, ApIsLaunched, FilledKept
  <2>2. Kept(u, cpu[u].env)'
    BY <1>1, <1>3 DEF ThreadInv, Kept
  <2>3. SlotOf(u)' = u
    BY <1>2 DEF SlotOf
  <2> QED
    BY <1>3, <2>1, <2>2, <2>3 DEF ThreadInv, Virtualised
<1> QED
  BY <1>1, <1>2, <1>3, <1>4, ApMoved DEF TypeOK

\* An AP saves its environment into the VMCB of its own slot, or faults.
LEMMA ApSetUpIInv ==
  ASSUME IInv, NEW u \in Threads, ApSetUp(u),
         UNCHANGED <<pc, config, startImage, enabled, index, private, context, mmio, table>>
  PROVE  IInv'
<1>1. TypeOK /\ SlotsInv /\ ThreadInv(u) /\ cpu[u].mode = "synced" /\ SetUpVmcb(u)
  BY DEF IInv, ApSetUp
<1>2. /\ u # Bsp /\ pc = "wait" /\ index = u /\ config.virtualizeAps
      /\ private = PrivateOf(u, u) /\ SlotOf(u) = u /\ Filled(u)
  BY <1>1, ApIsLaunched, ThreadsType
<1>3. private.context = u /\ private.hostVmcb = u
  BY <1>2 DEF PrivateOf
<1>4. /\ cpu' \in [Threads -> Cpu]
      /\ \A t \in Threads \ {u} : cpu'[t] = cpu[t]
      /\ cpu'[u].stamp = cpu[u].stamp
      /\ \/ cpu[u].svmdis /\ cpu'[u].mode = "faulted" /\ vmcb' = vmcb
         \/ /\ ~cpu[u].svmdis /\ cpu'[u].mode = "saved"
            /\ cpu'[u].vmcb = u /\ cpu'[u].hostVmcb = u
            /\ vmcb' = [vmcb EXCEPT ![u].env = Saved(cpu[u].env)]
            /\ Saved(cpu[u].env) \in Environment
  BY <1>1, <1>2, <1>3, SetUpVmcbGood
<1>5. vmcb \in [Threads -> [save : Threads, env : Environment]]
  BY <1>1 DEF TypeOK
<1>6. /\ vmcb' \in [Threads -> [save : Threads, env : Environment]]
      /\ \A i \in Threads : vmcb'[i].save = vmcb[i].save
      /\ \A i \in Threads \ {u} : vmcb'[i] = vmcb[i]
      /\ cpu'[u].mode = "saved" => vmcb'[u].env = Saved(cpu[u].env)
  BY <1>4, <1>5
<1>7. ThreadInv(u)'
  <2>1. \A i \in 0..u : Filled(i)'
    BY <1>1, ApIsLaunched, FilledKept
  <2>2. Kept(u, cpu[u].env) /\ cpu[u].stamp = u
    BY <1>1, <1>2 DEF ThreadInv
  <2>3. SlotOf(u)' = u
    BY <1>2 DEF SlotOf
  <2>4. cpu'[u].mode = "saved" /\ config.np => Kept(u, vmcb[u].env)'
    BY <1>6, <2>2 DEF Kept, Saved
  <2> QED
    BY <1>4, <2>1, <2>2, <2>3, <2>4 DEF ThreadInv, Virtualised
<1> QED
  BY <1>2, <1>4, <1>6, <1>7, ApMoved

\* An AP enters its VM with the environment that was saved.
LEMMA ApEnableIInv ==
  ASSUME IInv, NEW u \in Threads, ApEnable(u),
         UNCHANGED <<pc, config, startImage, enabled, index, private, context, mmio, table>>
  PROVE  IInv'
<1>1. TypeOK /\ ThreadInv(u) /\ cpu[u].mode = "saved" /\ u # Bsp /\ EnableVm(u)
  BY DEF IInv, ApEnable
<1>2. /\ pc = "wait" /\ index = u /\ config.virtualizeAps
      /\ private = PrivateOf(u, u) /\ SlotOf(u) = u
  BY <1>1, ApIsLaunched
<1>3. private.hostStack = u
  BY <1>2 DEF PrivateOf
<1>4. /\ cpu' \in [Threads -> Cpu]
      /\ \A t \in Threads \ {u} : cpu'[t] = cpu[t]
      /\ cpu'[u].mode = "guest" /\ cpu'[u].stamp = cpu[u].stamp
      /\ cpu'[u].vmcb = cpu[u].vmcb /\ cpu'[u].hostVmcb = cpu[u].hostVmcb
      /\ cpu'[u].hostStack = u
      /\ config.np => cpu'[u].env = vmcb[cpu[u].vmcb].env
      /\ vmcb' = vmcb
  BY <1>1, <1>3, EnableVmGood
<1>5. ThreadInv(u)'
  <2>1. \A i \in 0..u : Filled(i)'
    BY <1>1, ApIsLaunched, FilledKept
  <2>2. /\ cpu[u].stamp = u /\ cpu[u].vmcb = u /\ cpu[u].hostVmcb = u
        /\ config.np => Kept(u, vmcb[u].env)
    BY <1>1, <1>2 DEF ThreadInv
  <2>3. SlotOf(u)' = u
    BY <1>2 DEF SlotOf
  <2>4. config.np => Kept(u, cpu[u].env)'
    BY <1>4, <2>2 DEF Kept
  <2> QED
    BY <1>4, <2>1, <2>2, <2>3, <2>4 DEF ThreadInv, Virtualised
<1> QED
  BY <1>1, <1>2, <1>4, <1>5, ApMoved DEF TypeOK

\* Returning to the firmware, the AP keeps what it has in its VM.
LEMMA ApReturnsIInv ==
  ASSUME IInv, NEW u \in Threads, ApReturns(u),
         UNCHANGED <<pc, config, startImage, enabled, index, private, context, mmio, table>>
  PROVE  IInv'
<1>1. /\ TypeOK /\ ThreadInv(u) /\ u # Bsp /\ cpu[u].mode = "guest" /\ vmcb' = vmcb
      /\ cpu' = [cpu EXCEPT ![u].mode = "parked"]
  BY DEF IInv, ApReturns
<1>2. pc = "wait" /\ index = u /\ config.virtualizeAps /\ SlotOf(u) = u
  BY <1>1, ApIsLaunched
<1>3. /\ cpu' \in [Threads -> Cpu]
      /\ \A t \in Threads \ {u} : cpu'[t] = cpu[t]
      /\ cpu'[u].mode = "parked" /\ cpu'[u].env = cpu[u].env
      /\ cpu'[u].stamp = cpu[u].stamp /\ cpu'[u].vmcb = cpu[u].vmcb
      /\ cpu'[u].hostVmcb = cpu[u].hostVmcb /\ cpu'[u].hostStack = cpu[u].hostStack
  BY <1>1, ModeChanged DEF Progress
<1>4. ThreadInv(u)'
  <2>1. \A i \in 0..u : Filled(i)'
    BY <1>1, ApIsLaunched, FilledKept
  <2>2. SlotOf(u)' = u /\ Bsp' = Bsp
    BY <1>2 DEF SlotOf, Bsp
  <2>3. config.np => Kept(u, cpu[u].env)'
    BY <1>1, <1>3 DEF ThreadInv, Virtualised, Kept
  <2> QED
    BY <1>1, <1>2, <1>3, <2>1, <2>2, <2>3 DEF ThreadInv, Virtualised
<1> QED
  BY <1>1, <1>2, <1>3, <1>4, ApMoved DEF TypeOK

\* Every step of an AP keeps the invariant.
LEMMA ApStepIInv ==
  ASSUME IInv, NEW u \in Threads, ApStep(u)
  PROVE  IInv'
<1>1. UNCHANGED <<pc, config, startImage, enabled, index, private, context, mmio, table>>
  BY DEF ApStep
<1>2. ApSyncTsc(u) \/ ApSetUp(u) \/ ApEnable(u) \/ ApReturns(u)
  BY DEF ApStep
<1> QED
  BY <1>1, <1>2, ApSyncTscIInv, ApSetUpIInv, ApEnableIInv, ApReturnsIInv

-----------------------------------------------------------------------------
(* The bootstrap processor enters its VM. *)

\* By then no AP is on its way into a VM.
LEMMA NoApMoves ==
  ASSUME IInv, Launching, NEW t \in Threads, t # Bsp
  PROVE  /\ cpu[t].mode \in {"firmware", "parked", "refused"}
         /\ config.virtualizeAps => cpu[t].mode \in {"parked", "refused"}
         /\ cpu[t].mode # "firmware" => config.virtualizeAps
BY DEF IInv, OrderInv, Launching

\* ThreadPrivate and the slot of the bootstrap processor are ready.
LEMMA BspReady ==
  ASSUME IInv, Launching
  PROVE  /\ private = PrivateOf(BspNum, private.stamp) /\ SlotOf(Bsp) = BspNum
         /\ private.context = BspNum /\ private.hostVmcb = BspNum /\ private.hostStack = BspNum
         /\ BspNum \in Threads /\ \A i \in 0..BspNum : i \in Threads /\ Filled(i)
<1>1. TypeOK /\ SlotsInv /\ private = PrivateOf(BspNum, private.stamp)
  BY DEF IInv, PhaseInv
<1>2. \A i \in 0..BspNum : i \in Threads /\ i < NumThreads
  BY <1>1, BspSlot, ThreadsType
<1> QED
  BY <1>1, <1>2, BspSlot DEF SlotsInv, PrivateOf

\* A step of the bootstrap processor into its VM keeps the invariant if it keeps
\* the bootstrap processor's part of it and leaves the other threads alone.
LEMMA BspMoved ==
  ASSUME IInv, Launching,
         UNCHANGED <<config, startImage, enabled, index, private, context, mmio, table>>,
         cpu' \in [Threads -> Cpu], \A t \in Threads \ {Bsp} : cpu'[t] = cpu[t],
         \/ pc' = "crashed" /\ cpu'[Bsp].mode = "faulted"
         \/ pc' = "vmrun" /\ cpu'[Bsp].mode = "saved"
         \/ pc' = "return" /\ cpu'[Bsp].mode = "guest",
         vmcb' \in [Threads -> [save : Threads, env : Environment]],
         \A i \in Threads : vmcb'[i].save = vmcb[i].save,
         ThreadInv(Bsp)'
  PROVE  IInv'
<1>1. TypeOK /\ PhaseInv /\ SlotsInv
  BY DEF IInv
<1>2. Bsp \in Threads /\ Bsp' = Bsp /\ NumThreads' = NumThreads /\ BspNum' = BspNum
  BY <1>1, BspSlot DEF Bsp, NumThreads, BspNum
<1>3. TypeOK'
  BY <1>1 DEF TypeOK, Threads, Uninit, Cpu
<1>4. PhaseInv'
  BY <1>1, <1>2 DEF PhaseInv, Before, Looping, Launching
<1>5. \A i \in Threads : Filled(i) => Filled(i)'
  BY FilledKept
<1>6. SlotsInv'
  BY <1>1, <1>2, <1>5 DEF SlotsInv, Looping, Launching, Threads, Uninit
<1>7. ASSUME NEW t \in Threads PROVE ThreadInv(t)'
  <2>1. CASE t # Bsp
    <3>1. Unmoved(t) /\ cpu[t].mode # "saved"
      BY <1>7, <2>1, NoApMoves DEF Unmoved
    <3> QED
      BY <1>1, <1>5, <1>7, <3>1, SlotType, ThreadKept DEF IInv
  <2>2. CASE t = Bsp
    BY <1>2, <2>2
  <2> QED
    BY <2>1, <2>2
<1>8. ASSUME NEW t \in Threads PROVE OrderInv(t)'
  <2>1. CASE t # Bsp
    <3>1. cpu'[t] = cpu[t]
      BY <1>8, <2>1
    <3> QED
      BY <1>2, <1>8, <2>1, <3>1, NoApMoves DEF OrderInv, Looping, Launching
  <2>2. CASE t = Bsp
    BY <1>2, <2>2 DEF OrderInv
  <2> QED
    BY <2>1, <2>2
<1> QED
  BY <1>3, <1>4, <1>6, <1>7, <1>8 DEF IInv, Threads

\* The bootstrap processor saves its environment into the VMCB of its own slot.
LEMMA BspSetUpIInv == IInv /\ BspSetUp => IInv'
<1> SUFFICES ASSUME IInv, BspSetUp PROVE IInv'
  OBVIOUS
<1>1. /\ TypeOK /\ SlotsInv /\ Launching /\ cpu[Bsp].mode = "firmware" /\ SetUpVmcb(Bsp)
      /\ pc' = IF cpu[Bsp].svmdis THEN "crashed" ELSE "vmrun"
      /\ UNCHANGED <<config, startImage, enabled, index, private, context, mmio, table>>
  BY DEF IInv, PhaseInv, BspSetUp, Launching
<1>2. /\ private.context = BspNum /\ private.hostVmcb = BspNum /\ SlotOf(Bsp) = BspNum
      /\ BspNum \in Threads /\ Filled(BspNum) /\ \A i \in 0..BspNum : Filled(i)
  BY <1>1, BspReady, ThreadsType
<1>3. Bsp \in Threads /\ ThreadInv(Bsp)
  BY <1>1, BspSlot DEF IInv
<1>4. /\ cpu' \in [Threads -> Cpu]
      /\ \A t \in Threads \ {Bsp} : cpu'[t] = cpu[t]
      /\ \/ cpu[Bsp].svmdis /\ cpu'[Bsp].mode = "faulted" /\ vmcb' = vmcb
         \/ /\ ~cpu[Bsp].svmdis /\ cpu'[Bsp].mode = "saved"
            /\ cpu'[Bsp].vmcb = BspNum /\ cpu'[Bsp].hostVmcb = BspNum
            /\ vmcb' = [vmcb EXCEPT ![BspNum].env = Saved(cpu[Bsp].env)]
            /\ Saved(cpu[Bsp].env) \in Environment
  BY <1>1, <1>2, <1>3, SetUpVmcbGood
<1>5. vmcb \in [Threads -> [save : Threads, env : Environment]]
  BY <1>1 DEF TypeOK
<1>6. /\ vmcb' \in [Threads -> [save : Threads, env : Environment]]
      /\ \A i \in Threads : vmcb'[i].save = vmcb[i].save
      /\ cpu'[Bsp].mode = "saved" => vmcb'[BspNum].env = Saved(cpu[Bsp].env)
  BY <1>2, <1>4, <1>5
<1>7. ThreadInv(Bsp)'
  <2>1. \A i \in 0..BspNum : Filled(i)'
    BY <1>1, <1>2, FilledKept
  <2>2. Kept(Bsp, cpu[Bsp].env)
    BY <1>1, <1>3 DEF ThreadInv
  <2>3. SlotOf(Bsp)' = BspNum /\ Bsp' = Bsp
    BY <1>1, <1>2 DEF SlotOf, BspNum, Bsp
  <2>4. cpu'[Bsp].mode = "saved" /\ config.np => Kept(Bsp, vmcb[BspNum].env)'
    BY <1>1, <1>6, <2>2, <2>3 DEF Kept, Saved, BspNum
  <2> QED
    BY <1>1, <1>4, <2>1, <2>3, <2>4 DEF ThreadInv, Virtualised, BspNum
<1> QED
  BY <1>1, <1>4, <1>6, <1>7, BspMoved

\* The bootstrap processor enters its VM after all others.
LEMMA BspEnableIInv == IInv /\ BspEnable => IInv'
<1> SUFFICES ASSUME IInv, BspEnable PROVE IInv'
  OBVIOUS
<1>1. /\ TypeOK /\ Launching /\ cpu[Bsp].mode = "saved" /\ EnableVm(Bsp) /\ pc' = "return"
      /\ UNCHANGED <<config, startImage, enabled, index, private, context, mmio, table>>
  BY DEF IInv, PhaseInv, BspEnable, Launching
<1>2. /\ private.hostStack = BspNum /\ SlotOf(Bsp) = BspNum /\ \A i \in 0..BspNum : Filled(i)
  BY <1>1, BspReady
<1>3. Bsp \in Threads /\ ThreadInv(Bsp)
  BY <1>1, BspSlot DEF IInv
<1>4. /\ cpu' \in [Threads -> Cpu]
      /\ \A t \in Threads \ {Bsp} : cpu'[t] = cpu[t]
      /\ cpu'[Bsp].mode = "guest"
      /\ cpu'[Bsp].vmcb = cpu[Bsp].vmcb /\ cpu'[Bsp].hostVmcb = cpu[Bsp].hostVmcb
      /\ cpu'[Bsp].hostStack = BspNum
      /\ config.np => cpu'[Bsp].env = vmcb[cpu[Bsp].vmcb].env
      /\ vmcb' = vmcb
  BY <1>1, <1>2, <1>3, EnableVmGood
<1>5. ThreadInv(Bsp)'
  <2>1. \A i \in 0..BspNum : Filled(i)'
    BY <1>1, <1>2, FilledKept
  <2>2. /\ cpu[Bsp].vmcb = BspNum /\ cpu[Bsp].hostVmcb = BspNum
        /\ config.np => Kept(Bsp, vmcb[BspNum].env)
    BY <1>1, <1>2, <1>3 DEF ThreadInv
  <2>3. SlotOf(Bsp)' = BspNum /\ Bsp' = Bsp
    BY <1>1, <1>2 DEF SlotOf, BspNum, Bsp
  <2>4. config.np => Kept(Bsp, cpu[Bsp].env)'
    BY <1>1, <1>4, <2>2, <2>3 DEF Kept
  <2> QED
    BY <1>1, <1>4, <2>1, <2>2, <2>3, <2>4 DEF ThreadInv, Virtualised, BspNum
<1> QED
  BY <1>1, <1>4, <1>5, BspMoved DEF TypeOK

-----------------------------------------------------------------------------
(* The invariant and what follows from it. *)

\* Every step of every processor keeps the invariant.
LEMMA NextIInv == IInv /\ [Next]_vars => IInv'
<1> SUFFICES ASSUME IInv, [Next]_vars PROVE IInv'
  OBVIOUS
<1>1. CASE BspStep
  BY <1>1, EntryPointIInv, EarlyIInv, ReturnIInv, SetUpRuntimeIInv, PrepareThreadIInv,
     StartupThisAPIInv, ApFinishedIInv, LaunchBspIInv, BspSetUpIInv, BspEnableIInv DEF BspStep
<1>2. ASSUME NEW t \in Threads, ApStep(t) \/ TakeInit(t) PROVE IInv'
  BY <1>2, ApStepIInv, TakeInitIInv
<1>3. CASE UNCHANGED vars
  <2>1. UNCHANGED <<pc, config, startImage, enabled, index, private, context, mmio, table,
                    vmcb, cpu>>
    BY <1>3 DEF vars
  <2>2. Bsp' = Bsp /\ NumThreads' = NumThreads /\ BspNum' = BspNum
    BY <2>1 DEF Bsp, NumThreads, BspNum
  <2>3. TypeOK'
    BY <2>1 DEF IInv, TypeOK, Threads, Uninit
  <2>4. PhaseInv'
    BY <2>1, <2>2 DEF IInv, PhaseInv, Before, Fresh, Looping, Launching, Threads
  <2>5. SlotsInv'
    BY <2>1, <2>2, FilledKept DEF IInv, SlotsInv, Looping, Launching, Threads, Uninit
  <2>6. ASSUME NEW t \in Threads PROVE OrderInv(t)' /\ ThreadInv(t)'
    <3>1. OrderInv(t)'
      BY <2>1, <2>2, <2>6 DEF IInv, OrderInv, Looping, Launching
    <3>2. ThreadInv(t)'
      BY <2>1, <2>6, ThreadKept, FilledKept DEF IInv, Unmoved
    <3> QED
      BY <3>1, <3>2
  <2> QED
    BY <2>3, <2>4, <2>5, <2>6 DEF IInv, Threads
<1> QED
  BY <1>1, <1>2, <1>3 DEF Next

\* In every state: the bootstrap processor's phase, the slots it has filled, and
\* the launch of one AP at a time, each with what the launch gives it.
THEOREM InductiveInvariant == Spec => []IInv
<1>1. Init => IInv
  BY InitIInv
<1>2. IInv /\ [Next]_vars => IInv'
  BY NextIInv
<1> QED
  BY <1>1, <1>2, PTL DEF Spec

\* For every number of processors no index runs past the pages and contexts
\* allocated for the threads.
THEOREM TypeCorrect == Spec => []TypeOK
<1>1. IInv => TypeOK
  BY DEF IInv
<1> QED
  BY <1>1, InductiveInvariant, PTL

\* A virtualised thread was launched from a filled slot of its own.
LEMMA SlotsOfVirtualised ==
  ASSUME IInv, NEW t \in Threads, Virtualised(t)
  PROVE  /\ SlotOf(t) \in Threads
         /\ \A i \in 0..SlotOf(t) : i \in Threads /\ Filled(i)
         /\ cpu[t].vmcb = SlotOf(t)
         /\ t # Bsp => config.virtualizeAps
         /\ \A u \in Threads : Virtualised(u) /\ u # t => SlotOf(u) # SlotOf(t)
<1>1. TypeOK /\ ThreadInv(t)
  BY DEF IInv
<1>2. \A u \in Threads : Virtualised(u) /\ u # Bsp => config.virtualizeAps
  BY DEF IInv, OrderInv, Virtualised
<1>3. \A u \in Threads : config.virtualizeAps => SlotOf(u) = u
  BY <1>1, SlotType
<1> QED
  BY <1>1, <1>2, <1>3, SlotType DEF ThreadInv, Virtualised

\* From its first exit on, every virtualised thread finds its own context, and
\* only entries that have been initialised are looked at.
THEOREM OwnContextAlways == Spec => []OwnContext
<1>1. ASSUME IInv PROVE OwnContext
  <2>1. ASSUME NEW t \in Threads, Virtualised(t)
        PROVE  /\ GetThreadContext(cpu[t].vmcb) = {SlotOf(t)}
               /\ \A i \in 0..SlotOf(t) : context[i] # Uninit
    <3>1. /\ SlotOf(t) \in Threads /\ cpu[t].vmcb = SlotOf(t)
          /\ \A i \in 0..SlotOf(t) : i \in Threads /\ Filled(i)
      BY <1>1, <2>1, SlotsOfVirtualised
    <3>2. \A i \in Threads : context[i] \in {i, Uninit}
      BY <1>1 DEF IInv, SlotsInv
    <3>3. SlotOf(t) \in 0..SlotOf(t)
      BY <3>1, ThreadsType
    <3>4. \A i \in Threads : context[i] = SlotOf(t) <=> i = SlotOf(t)
      BY <3>1, <3>2, <3>3, ThreadsType DEF Filled
    <3>5. \A j \in 0..(SlotOf(t) - 1) : j \in Threads /\ j # SlotOf(t)
      BY <3>1, ThreadsType
    <3>6. GetThreadContext(cpu[t].vmcb) = {SlotOf(t)}
      BY <3>1, <3>4, <3>5 DEF GetThreadContext
    <3>7. \A i \in 0..SlotOf(t) : context[i] # Uninit
      BY <3>1, ThreadsType DEF Filled
    <3> QED
      BY <3>6, <3>7
  <2> QED
    BY <2>1 DEF OwnContext
<1> QED
  BY <1>1, InductiveInvariant, PTL

\* Although all threads are launched from one ThreadPrivate, no two share a
\* VMCB, and each has the host save area, the stack, the page table and the TSC
\* stamp of its slot.
THEOREM OwnResourcesAlways == Spec => []OwnResources
<1>1. ASSUME IInv PROVE OwnResources
  <2>1. ASSUME NEW t \in Threads, Virtualised(t)
        PROVE  /\ cpu[t].vmcb = SlotOf(t)
               /\ cpu[t].hostVmcb = SlotOf(t)
               /\ cpu[t].hostStack = SlotOf(t)
               /\ t # Bsp => cpu[t].stamp = SlotOf(t)
               /\ table[SlotOf(t)] = IF config.np THEN "lapic" ELSE "none"
               /\ \A u \in Threads : Virtualised(u) /\ u # t => cpu[u].vmcb # cpu[t].vmcb
    <3>1. TypeOK /\ ThreadInv(t)
      BY <1>1, <2>1 DEF IInv
    <3>2. cpu[t].vmcb = SlotOf(t) /\ cpu[t].hostVmcb = SlotOf(t) /\ cpu[t].hostStack = SlotOf(t)
      BY <2>1, <3>1 DEF ThreadInv, Virtualised
    <3>3. t # Bsp => cpu[t].stamp = SlotOf(t)
      BY <1>1, <2>1, <3>1, SlotsOfVirtualised, SlotType DEF ThreadInv, Virtualised
    <3>4. Filled(SlotOf(t))
      BY <1>1, <2>1, SlotsOfVirtualised, ThreadsType
    <3>5. \A u \in Threads : Virtualised(u) /\ u # t => cpu[u].vmcb # cpu[t].vmcb
      BY <1>1, <2>1, SlotsOfVirtualised
    <3> QED
      BY <3>2, <3>3, <3>4, <3>5 DEF Filled, TableOf
  <2> QED
    BY <2>1 DEF OwnResources
<1> QED
  BY <1>1, InductiveInvariant, PTL

\* With nested paging every thread, the bootstrap processor included, finds its
\* PAT, cache control and trap flag as they were before the launch.
THEOREM GuestStateAlwaysKept == Spec => []GuestStateKept
<1>1. IInv => GuestStateKept
  BY DEF IInv, ThreadInv, GuestStateKept, Kept
<1> QED
  BY <1>1, InductiveInvariant, PTL

\* A failure while the APs are prepared leaves no thread started.
THEOREM AllOrNothingAlways == Spec => []AllOrNothing
<1>1. ASSUME IInv PROVE AllOrNothing
  <2>1. PhaseInv
    BY <1>1 DEF IInv
  <2>2. (\E t \in Threads : Started(t)) => ~Fresh
    BY DEF Started, Fresh
  <2> QED
    BY <2>1, <2>2 DEF PhaseInv, AllOrNothing
<1> QED
  BY <1>1, InductiveInvariant, PTL

\* The bootstrap processor is the last to enter its VM.
THEOREM EveryThreadAlwaysVirtualised == Spec => []EveryThreadVirtualised
<1>1. IInv => EveryThreadVirtualised
  BY DEF IInv, OrderInv, EveryThreadVirtualised, Virtualised
<1> QED
  BY <1>1, InductiveInvariant, PTL

\* No step of the launch, on any processor, changes what a thread that is
\* already in its VM uses.
THEOREM RunningNeverTouched == Spec => RunningUntouched
<1> DEFINE Own(t) == /\ context'[SlotOf(t)] = context[SlotOf(t)]
                     /\ vmcb'[SlotOf(t)] = vmcb[SlotOf(t)]
                     /\ table'[SlotOf(t)] = table[SlotOf(t)]
                     /\ mmio'[SlotOf(t)] = mmio[SlotOf(t)]
<1>1. ASSUME IInv, Next, NEW t \in Threads, Virtualised(t) PROVE Own(t)
  <2>1. TypeOK /\ PhaseInv /\ SlotsInv /\ OrderInv(t) /\ SlotOf(t) \in Threads
    BY <1>1, SlotType DEF IInv
  <2>2. ~Fresh /\ cpu[t].mode \in {"guest", "parked"}
    BY <1>1 DEF Fresh, Virtualised
  <2>3. t # Bsp => config.virtualizeAps /\ SlotOf(t) = t
    BY <1>1, <2>1, SlotsOfVirtualised, SlotType
  <2>4. CASE SetUpRuntime
    BY <2>1, <2>2, <2>4 DEF SetUpRuntime, PhaseInv, Before
  <2>5. CASE PrepareThread
    <3>1. t # Bsp /\ t < index /\ pc = "loop"
      BY <2>1, <2>2, <2>5 DEF PrepareThread, PhaseInv, OrderInv, Looping
    <3>2. SlotOf(t) # index
      BY <2>3, <3>1, ThreadsType
    <3> QED
      BY <2>1, <2>5, <3>2 DEF PrepareThread, TypeOK
  <2>6. ASSUME NEW u \in Threads, ApSetUp(u), UNCHANGED <<context, mmio, table>> PROVE Own(t)
    <3>1. /\ SetUpVmcb(u) /\ cpu[u].mode = "synced" /\ pc = "wait" /\ u # t
          /\ private = PrivateOf(u, u) /\ Filled(u)
      BY <1>1, <2>2, <2>6, ApIsLaunched, ThreadsType DEF ApSetUp
    <3>2. t # Bsp /\ SlotOf(t) # u
      BY <2>1, <2>2, <2>3, <3>1 DEF PhaseInv, Looping
    <3>3. private.context = u
      BY <3>1 DEF PrivateOf
    <3>4. vmcb' = vmcb \/ vmcb' = [vmcb EXCEPT ![u].env = Saved(cpu[u].env)]
      BY <2>1, <2>6, <3>1, <3>3, SetUpVmcbGood
    <3> QED
      BY <2>1, <2>6, <3>2, <3>4 DEF TypeOK
  <2>7. CASE BspSetUp
    <3>1. SetUpVmcb(Bsp) /\ Launching /\ cpu[Bsp].mode = "firmware"
      BY <2>1, <2>7 DEF BspSetUp, PhaseInv, Launching
    <3>2. private.context = BspNum /\ Filled(BspNum) /\ BspNum \in Threads
      BY <1>1, <3>1, BspReady, BspSlot, ThreadsType
    <3>3. t # Bsp /\ SlotOf(t) # BspNum
      BY <2>1, <2>2, <2>3, <3>1, BspSlot
    <3>4. vmcb' = vmcb \/ vmcb' = [vmcb EXCEPT ![BspNum].env = Saved(cpu[Bsp].env)]
      BY <2>1, <3>1, <3>2, BspSlot, SetUpVmcbGood
    <3> QED
      BY <2>1, <2>7, <3>3, <3>4 DEF BspSetUp, TypeOK
  <2>8. CASE UNCHANGED <<context, vmcb, table, mmio>>
    BY <2>8
  <2>9. ASSUME NEW u \in Threads, ApStep(u) \/ TakeInit(u) PROVE Own(t)
    BY <2>6, <2>8, <2>9 DEF ApStep, ApSyncTsc, ApEnable, EnableVm, ApReturns, TakeInit
  <2>10. CASE BspStep
    BY <2>4, <2>5, <2>7, <2>8, <2>10
       DEF BspStep, EntryPoint, StartImage, Return, PrepareAps, EnableAp, StartupThisAP,
           ApFinished, LaunchBsp, BspEnable, EnableVm
  <2> QED
    BY <1>1, <2>9, <2>10 DEF Next
<1>2. IInv /\ [Next]_vars =>
        [\A t \in Threads : Virtualised(t) =>
           LET own == SlotOf(t)
           IN  /\ context'[own] = context[own]
               /\ vmcb'[own] = vmcb[own]
               /\ table'[own] = table[own]
               /\ mmio'[own] = mmio[own]]_vars
  BY <1>1
<1> QED
  BY <1>2, InductiveInvariant, PTL DEF Spec, RunningUntouched

=============================================================================
