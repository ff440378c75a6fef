----------------------------- MODULE VmcbEvents -----------------------------
(***************************************************************************)
(* Event injection as the runtime sees it: the AMD_VMCB_EVENT values that  *)
(* EVENTINJ and EXITINTINFO hold, the events its handlers inject, and      *)
(* InternalHandleEvents (Handler.c), which arbitrates between the event a  *)
(* VMEXIT interrupted (EXITINTINFO) and the one its handler injects.       *)
(* Error codes are left out.  A record stands for the field with V = 1;    *)
(* NoEvent is the field with V = 0.                                        *)
(***************************************************************************)
EXTENDS Integers

Event == [type : {"INTR", "NMI", "EXC", "SW"}, vector : 0..255]

NoEvent == [type |-> "none", vector |-> 0]

\* The value of a QueueEvent variable no path of InternalHandleEvents assigned.
Garbage == [type |-> "garbage", vector |-> 0]

Exception(v) == [type |-> "EXC", vector |-> v]

DebugException == Exception(1)
InvalidOpcode  == Exception(6)
DoubleFault    == Exception(8)
GpFault        == Exception(13)

\* Events of a source outside the guest's instruction stream: nothing raises
\* them again if they are dropped.
IsExternal(e) == e.type \in {"INTR", "NMI"}

\* EXITINTINFO is empty, or a software interrupt, which the guest invokes
\* again by itself when it returns to its INT instruction.
IsDiscarded(info) == info.type \in {"none", "SW"}

(***************************************************************************)
(* The two exceptions combine into #DF.  Case #DE, #TS, #NP, #SS, #GP of   *)
(* the outer switch has no break: it falls through into case #PF, so a     *)
(* contributory exception followed by #PF combines as well.                *)
(***************************************************************************)
CombineToDf(inj, info) ==
  /\ inj.type = "EXC" /\ info.type = "EXC"
  /\ info.vector \in {0} \cup 10..14
  /\ inj.vector \in 10..14

(***************************************************************************)
(* ExceptionPriorities: the position of a vector's first occurrence, entry *)
(* 32 standing for every vector from 32 on; Unlisted when the loop ends    *)
(* without meeting it.                                                     *)
(***************************************************************************)
Unlisted == 19

PriorityIndex(v) ==
  CASE v = 18     -> 0
    [] v \in 1..2 -> v
    [] v >= 32    -> 3
    [] v = 13     -> 5
    [] v = 14     -> 6
    [] v \in 6..7 -> v + 1
    [] v = 0      -> 10
    [] v \in 10..12 -> v + 1
    [] v \in 16..17 -> v
    [] v = 19     -> 18
    [] OTHER      -> Unlisted

\* Not the code but a bug in it: the lower-priority event is discarded
\* whatever its source.
HandleEventsDiscards(inj, info) ==
  LET injIndex  == PriorityIndex(inj.vector)
      infoIndex == PriorityIndex(info.vector)
  IN  [inj |-> IF ~IsDiscarded(info) /\ (inj = NoEvent \/ infoIndex < injIndex)
               THEN info ELSE inj,
       queue |-> NoEvent]

(***************************************************************************)
(* InternalHandleEvents as a function of EVENTINJ and EXITINTINFO: the new *)
(* EVENTINJ and the event handed to QueueEvent (NoEvent: no call).  The    *)
(* loop tests EVENTINJ before EXITINTINFO at every index.  When            *)
(* EXITINTINFO comes first the code overwrites EVENTINJ before it copies   *)
(* EVENTINJ to QueueEvent, so the same event is injected and queued.       *)
(***************************************************************************)
HandleEvents(inj, info) ==
  LET injIndex  == PriorityIndex(inj.vector)
      infoIndex == PriorityIndex(info.vector)
  IN  CASE IsDiscarded(info)       -> [inj |-> inj, queue |-> NoEvent]
        [] ~IsDiscarded(info) /\ inj = NoEvent
                                   -> [inj |-> info, queue |-> NoEvent]
        [] ~IsDiscarded(info) /\ inj # NoEvent /\ CombineToDf(inj, info)
                                   -> [inj |-> DoubleFault, queue |-> NoEvent]
        [] OTHER ->
             IF inj.type = "SW" THEN [inj |-> inj, queue |-> inj]
             ELSE IF injIndex < Unlisted /\ injIndex <= infoIndex THEN
               [inj |-> inj, queue |-> IF info.type = "EXC" THEN NoEvent ELSE info]
             ELSE IF infoIndex < Unlisted THEN
               [inj |-> info, queue |-> IF info.type = "EXC" THEN NoEvent ELSE info]
             ELSE [inj |-> inj, queue |-> Garbage]
=============================================================================
