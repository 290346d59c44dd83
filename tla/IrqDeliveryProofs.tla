--------------------------- MODULE IrqDeliveryProofs ---------------------------
(***************************************************************************)
(* Proofs about interrupts.  About Gic and its loops, for all sets of      *)
(* cores, interrupts, priorities, masks and routes the assumption allows;  *)
(* about IrqDelivery, for up to eight cores, any shared interrupts,        *)
(* priorities and masks, and any number of triggers.  None of the latter   *)
(* needs the rules of Gic as assumptions: the programs of IrqDelivery keep *)
(* them.                                                                   *)
(***************************************************************************)
EXTENDS IrqDelivery, GicLoops, FiniteSetTheorems, WellFoundedInduction, TLAPS

-----------------------------------------------------------------------------
(* The interrupt controller. *)

(* No redistributor ever holds a pending private interrupt.                 *)
PrivateQuiet == \A d, f \in Cores : local[d][f].pending = {}

Inv == TypeOK /\ PrivateQuiet

(* Private and shared ids do not overlap.                                   *)
LEMMA IdsApart == /\ \A irq \in Spis : irq \notin Ppis /\ irq # Spurious
                  /\ Spurious \notin Ppis
  <1>1. \A irq \in Spis : irq \in Int /\ 32 <= irq /\ irq <= 1019
    BY GicAssumption
  <1>2. \A irq \in Ppis : irq \in Int /\ irq <= 31
    BY GicAssumption
  <1> QED
    BY <1>1, <1>2 DEF Spurious

(* While no private interrupt is pending, an IAR read finds what a peek     *)
(* with the same mask finds, and that is a shared interrupt.                *)
LEMMA AcknowledgedIsPeeked ==
  ASSUME Inv, NEW d \in Cores, NEW f \in Cores
  PROVE  /\ Acknowledged(d, f) = Peeked(f, local[d][f].pmr)
         /\ Acknowledged(d, f) \subseteq ReadySpis(f, local[d][f].pmr)
         /\ ReadySpis(f, local[d][f].pmr) \subseteq Spis \cap dist.enabled \cap dist.pending
  <1> DEFINE frame == local[d][f]
             spis  == ReadySpis(f, frame.pmr)
             ready == ReadyPpis(frame) \cup spis
             prio  == [irq \in ready |-> IF irq \in Ppis THEN frame.prio[irq]
                                         ELSE dist.prio[irq]]
  <1>1. ReadyPpis(frame) = {}
    BY DEF ReadyPpis, Inv, PrivateQuiet
  <1>2. spis \subseteq Spis \cap dist.enabled \cap dist.pending
    BY DEF ReadySpis, Inv, TypeOK, Distributor
  <1>3. ready = spis
    BY <1>1
  <1>4. \A irq \in spis : prio[irq] = dist.prio[irq]
    BY <1>2, <1>3, IdsApart
  <1>5. Acknowledged(d, f) = Best(ready, prio)
    BY DEF Acknowledged
  <1>6. Best(spis, prio) = Best(spis, dist.prio)
    <2> HIDE DEF spis, prio
    <2> QED
      BY <1>4 DEF Best, AtLeastAsUrgent
  <1>7. Best(spis, dist.prio) = Peeked(f, frame.pmr)
    BY DEF Peeked
  <1>8. Best(spis, dist.prio) \subseteq spis
    BY DEF Best
  <1> HIDE DEF spis, ready, prio
  <1> QED
    BY <1>2, <1>3, <1>5, <1>6, <1>7, <1>8 DEF spis

-----------------------------------------------------------------------------
(* The type invariant and the silence of the private interrupts. *)

LEMMA InvInit == Init => Inv
  BY GicAssumption DEF Init, NewDistributor, NewFrame, Inv, TypeOK, PrivateQuiet,
     Distributor, Frame, Lowest

(* A step that changes at most the distributor, inside its type.            *)
LEMMA DistStep ==
  ASSUME Inv, dist' \in Distributor, UNCHANGED <<local, taken>>
  PROVE  Inv'
  BY DEF Inv, TypeOK, PrivateQuiet

(* A step that replaces one frame by one with nothing pending.              *)
LEMMA FrameStep ==
  ASSUME Inv, NEW d \in Cores, NEW f \in Cores, NEW frame \in Frame,
         frame.pending = {}, WriteFrame(d, f, frame)
  PROVE  Inv'
  BY DEF Inv, TypeOK, PrivateQuiet, WriteFrame

LEMMA InvNext == Inv /\ [Next]_vars => Inv'
  <1> SUFFICES ASSUME Inv, [Next]_vars PROVE Inv'
    OBVIOUS
  <1> USE DEF Inv
  <1>1. ASSUME NEW irq \in Spis \cup Ppis, Trigger(irq) PROVE Inv'
    <2>1. dist' \in Distributor
      BY <1>1 DEF Trigger, TypeOK, Distributor
    <2> QED
      BY <1>1, <2>1, DistStep DEF Trigger
  <1>2. ASSUME NEW irqs \in SUBSET Spis,
               WriteEnable(irqs) \/ ClearPending(irqs) \/ SetActive(irqs)
        PROVE  Inv'
    <2>1. dist' \in Distributor
      <3>1. CASE WriteEnable(irqs)
        BY <3>1 DEF WriteEnable, TypeOK, Distributor
      <3>2. CASE ClearPending(irqs)
        BY <3>2 DEF ClearPending, TypeOK, Distributor
      <3>3. CASE SetActive(irqs)
        BY <3>3 DEF SetActive, TypeOK, Distributor
      <3> QED
        BY <1>2, <3>1, <3>2, <3>3
    <2> QED
      BY <1>2, <2>1, DistStep DEF WriteEnable, ClearPending, SetActive
  <1>3. ASSUME NEW irq \in Spis, NEW p \in Prios, WritePriority(irq, p) PROVE Inv'
    <2>1. dist' \in Distributor
      <3>1. p \in 0 .. 255
        BY GicAssumption
      <3>2. dist' = [dist EXCEPT !.prio = [dist.prio EXCEPT ![irq] = p]]
        BY <1>3 DEF WritePriority
      <3>3. [dist.prio EXCEPT ![irq] = p] \in [Spis -> 0 .. 255]
        BY <3>1 DEF TypeOK, Distributor
      <3> QED
        BY <3>2, <3>3 DEF TypeOK, Distributor
    <2> QED
      BY <1>3, <2>1, DistStep DEF WritePriority
  <1>4. ASSUME NEW irq \in Spis, NEW route \in Routes, WriteTarget(irq, route)
        PROVE  Inv'
    <2>1. dist' \in Distributor
      <3>1. route \in SUBSET Cores
        BY GicAssumption
      <3>2. dist' = [dist EXCEPT !.target = [dist.target EXCEPT ![irq] = route]]
        BY <1>4 DEF WriteTarget
      <3>3. [dist.target EXCEPT ![irq] = route] \in [Spis -> SUBSET Cores]
        BY <3>1 DEF TypeOK, Distributor
      <3> QED
        BY <3>2, <3>3 DEF TypeOK, Distributor
    <2> QED
      BY <1>4, <2>1, DistStep DEF WriteTarget
  <1>5. ASSUME NEW d \in Cores, NEW f \in Cores, NEW irqs \in SUBSET Ppis,
               \/ WritePrivateEnable(d, f, irqs)
               \/ ClearPrivatePending(d, f, irqs)
               \/ SetPrivateActive(d, f, irqs)
        PROVE  Inv'
    <2>1. local[d][f] \in Frame /\ local[d][f].pending = {}
      BY DEF TypeOK, PrivateQuiet
    <2>2. CASE WritePrivateEnable(d, f, irqs)
      <3> DEFINE frame == [local[d][f] EXCEPT !.enabled = @ \cup irqs]
      <3>1. frame \in Frame /\ frame.pending = {}
        BY <2>1 DEF Frame
      <3> QED
        BY <2>2, <3>1, FrameStep DEF WritePrivateEnable
    <2>3. CASE ClearPrivatePending(d, f, irqs)
      <3> DEFINE frame == [local[d][f] EXCEPT !.pending = @ \ irqs]
      <3>1. frame \in Frame /\ frame.pending = {}
        BY <2>1 DEF Frame
      <3> QED
        BY <2>3, <3>1, FrameStep DEF ClearPrivatePending
    <2>4. CASE SetPrivateActive(d, f, irqs)
      <3> DEFINE frame == [local[d][f] EXCEPT !.active = @ \cup irqs]
      <3>1. frame \in Frame /\ frame.pending = {}
        BY <2>1 DEF Frame
      <3> QED
        BY <2>4, <3>1, FrameStep DEF SetPrivateActive
    <2> QED
      BY <1>5, <2>2, <2>3, <2>4
  <1>6. ASSUME NEW d \in Cores, NEW f \in Cores, NEW irq \in Ppis, NEW p \in Prios,
               WritePrivatePriority(d, f, irq, p)
        PROVE  Inv'
    <2> DEFINE frame == [local[d][f] EXCEPT !.prio[irq] = p]
    <2>1. local[d][f] \in Frame /\ local[d][f].pending = {}
      BY DEF TypeOK, PrivateQuiet
    <2>2. frame \in Frame /\ frame.pending = {}
      BY <2>1, GicAssumption DEF Frame
    <2> QED
      BY <1>6, <2>2, FrameStep DEF WritePrivatePriority
  <1>7. ASSUME NEW d \in Cores, NEW f \in Cores, NEW pmr \in Masks, WriteMask(d, f, pmr)
        PROVE  Inv'
    <2> DEFINE frame == [local[d][f] EXCEPT !.pmr = pmr]
    <2>1. local[d][f] \in Frame /\ local[d][f].pending = {}
      BY DEF TypeOK, PrivateQuiet
    <2>2. frame \in Frame /\ frame.pending = {}
      BY <2>1, GicAssumption DEF Frame
    <2> QED
      BY <1>7, <2>2, FrameStep DEF WriteMask
  <1>8. ASSUME NEW d \in Cores, NEW f \in Cores, ReadIar(d, f) PROVE Inv'
    <2>1. CASE UNCHANGED vars
      BY <2>1 DEF vars, TypeOK, PrivateQuiet
    <2>2. ASSUME NEW irq \in Acknowledged(d, f), Acknowledge(d, f, irq) PROVE Inv'
      <3>1. irq \in Spis
        BY AcknowledgedIsPeeked
      <3>2. irq \notin Ppis
        BY <3>1, IdsApart
      <3>3. dist' = Activate(dist, irq) /\ local' = local
            /\ taken' = [taken EXCEPT ![d] = @ \cup {irq}]
        BY <2>2, <3>2 DEF Acknowledge
      <3> QED
        BY <3>1, <3>3 DEF Activate, TypeOK, PrivateQuiet, Distributor
    <2> QED
      BY <1>8, <2>1, <2>2 DEF ReadIar
  <1>9. ASSUME NEW d \in Cores, NEW f \in Cores,
               NEW irq \in Spis \cup Ppis \cup {Spurious}, WriteEoir(d, f, irq)
        PROVE  Inv'
    <2>1. dist' \in Distributor
      BY <1>9 DEF WriteEoir, TypeOK, Distributor
    <2>2. taken' \in [Cores -> SUBSET Spis]
      BY <1>9 DEF WriteEoir, TypeOK
    <2>3. local' \in [Cores -> [Cores -> Frame]] /\ PrivateQuiet'
      <3> DEFINE frame == [local[d][f] EXCEPT !.active = @ \ {irq}]
      <3>1. local[d][f] \in Frame /\ local[d][f].pending = {}
        BY DEF TypeOK, PrivateQuiet
      <3>2. frame \in Frame /\ frame.pending = {}
        BY <3>1 DEF Frame
      <3>3. local' = local \/ local' = [local EXCEPT ![d][f] = frame]
        BY <1>9 DEF WriteEoir
      <3>4. CASE local' = local
        BY <3>4 DEF TypeOK, PrivateQuiet
      <3>5. CASE local' = [local EXCEPT ![d][f] = frame]
        <4> HIDE DEF frame
        <4> QED
          BY <3>2, <3>5 DEF TypeOK, PrivateQuiet
      <3> QED
        BY <3>3, <3>4, <3>5
    <2> QED
      BY <2>1, <2>2, <2>3 DEF TypeOK
  <1>10. CASE UNCHANGED vars
    BY <1>10 DEF vars, TypeOK, PrivateQuiet
  <1> QED
    BY <1>1, <1>2, <1>3, <1>4, <1>5, <1>6, <1>7, <1>8, <1>9, <1>10 DEF Next, Direct

(* Every register stays in its type and no private interrupt is ever        *)
(* pending: nothing in gic.rs sets a bit of GICR_ICPENDR0.                  *)
THEOREM PrivateInterruptsSilent == Spec => [](TypeOK /\ PrivateQuiet)
  BY InvInit, InvNext, PTL DEF Spec, Inv

(* deliver_irq, which looks at shared interrupts only, announces what the   *)
(* handler's IAR read will return if nothing happens in between.            *)
THEOREM PeekIsExact == Spec => []PeekPredictsAck
  <1>1. Inv => PeekPredictsAck
    BY AcknowledgedIsPeeked DEF PeekPredictsAck
  <1> QED
    BY <1>1, InvInit, InvNext, PTL DEF Spec

-----------------------------------------------------------------------------
(* A trigger leaves the pending bits only by an acknowledgement or on       *)
(* software's order.                                                        *)

(* While an IAR read returns irq, irq is pending and routed to frame f.     *)
LEMMA AcknowledgeStep ==
  ASSUME Inv, NEW d \in Cores, NEW f \in Cores, NEW irq \in Acknowledged(d, f),
         Acknowledge(d, f, irq)
  PROVE  /\ irq \in Spis \cap dist.pending
         /\ f \in dist.target[irq]
         /\ dist' = Activate(dist, irq)
         /\ local' = local
         /\ taken' = [taken EXCEPT ![d] = @ \cup {irq}]
  <1>1. irq \in Spis \cap dist.pending /\ f \in dist.target[irq]
    BY AcknowledgedIsPeeked DEF ReadySpis
  <1>2. irq \notin Ppis
    BY <1>1, IdsApart
  <1> QED
    BY <1>1, <1>2 DEF Acknowledge

(* What TriggerKept asks of one step.                                       *)
KeepsTriggers ==
  \A irq \in dist.pending \ dist'.pending :
    \/ irq \in dist'.active
       /\ \E d \in Cores : /\ irq \in taken'[d]
                           /\ \E f \in dist.target[irq] : ReadIar(d, f)
    \/ \E irqs \in SUBSET Spis : irq \in irqs /\ ClearPending(irqs)

LEMMA TriggerStep == Inv /\ [Next]_vars => KeepsTriggers
  <1> SUFFICES ASSUME Inv, [Next]_vars,
                      NEW irq \in dist.pending, irq \notin dist'.pending
               PROVE  \/ irq \in dist'.active
                         /\ \E d \in Cores :
                              /\ irq \in taken'[d]
                              /\ \E f \in dist.target[irq] : ReadIar(d, f)
                      \/ \E irqs \in SUBSET Spis : irq \in irqs /\ ClearPending(irqs)
    BY DEF KeepsTriggers
  <1>0. dist \in Distributor /\ taken \in [Cores -> SUBSET Spis]
    BY DEF Inv, TypeOK
  <1>1. ASSUME NEW d \in Cores, NEW f \in Cores, ReadIar(d, f)
        PROVE  /\ irq \in dist'.active /\ irq \in taken'[d]
               /\ f \in dist.target[irq]
    <2>1. ~ UNCHANGED vars
      BY DEF vars
    <2>2. PICK i \in Acknowledged(d, f) : Acknowledge(d, f, i)
      BY <1>1, <2>1 DEF ReadIar
    <2>3. /\ i \in Spis /\ f \in dist.target[i]
          /\ dist' = Activate(dist, i)
          /\ taken' = [taken EXCEPT ![d] = @ \cup {i}]
      BY <2>2, AcknowledgeStep
    <2>4. irq = i
      BY <1>0, <2>3 DEF Activate, Distributor
    <2> QED
      BY <1>0, <2>3, <2>4 DEF Activate, Distributor
  <1>2. ASSUME NEW irqs \in SUBSET Spis, ClearPending(irqs) PROVE irq \in irqs
    BY <1>0, <1>2 DEF ClearPending, Distributor
  <1>3. (\A i : ~ Trigger(i)) /\ (\A irqs : ~ WriteEnable(irqs) /\ ~ SetActive(irqs))
    BY <1>0 DEF Trigger, WriteEnable, SetActive, Distributor
  <1>4. /\ \A i, p : ~ WritePriority(i, p)
        /\ \A i, route : ~ WriteTarget(i, route)
    BY <1>0 DEF WritePriority, WriteTarget, Distributor
  <1>5. /\ \A d, f, irqs : /\ ~ WritePrivateEnable(d, f, irqs)
                           /\ ~ ClearPrivatePending(d, f, irqs)
                           /\ ~ SetPrivateActive(d, f, irqs)
        /\ \A d, f, i, p : ~ WritePrivatePriority(d, f, i, p)
        /\ \A d, f, p : ~ WriteMask(d, f, p)
    BY DEF WriteFrame, WritePrivateEnable, ClearPrivatePending, SetPrivateActive,
           WritePrivatePriority, WriteMask
  <1>6. \A d, f, i : ~ WriteEoir(d, f, i)
    BY <1>0 DEF WriteEoir, Distributor
  <1>7. Next
    BY DEF vars
  <1>8. \/ \E irqs \in SUBSET Spis : ClearPending(irqs)
        \/ \E d, f \in Cores : ReadIar(d, f)
    BY <1>3, <1>4, <1>5, <1>6, <1>7, Zenon DEF Next, Direct
  <1> QED
    BY <1>1, <1>2, <1>8

(* No trigger is lost, whatever software does.                              *)
THEOREM NoTriggerLost == Spec => TriggerKept
  <1>1. Inv /\ [Next]_vars => [KeepsTriggers]_vars
    BY TriggerStep
  <1> QED
    BY <1>1, InvInit, InvNext, PTL DEF Spec, TriggerKept, KeepsTriggers

-----------------------------------------------------------------------------
(* With software that keeps to the rules: interrupts go to one core, which  *)
(* handles them one at a time.                                              *)

SingleRoute == \A irq \in Spis : \A c1, c2 \in dist.target[irq] : c1 = c2

RuledInv == Inv /\ SingleRoute /\ ActiveIsHandled

(* Nothing RuledInv adds to Inv depends on more than these.                 *)
LEMMA RuledUnchanged ==
  ASSUME RuledInv, Inv', dist'.target = dist.target, dist'.active = dist.active,
         taken' = taken
  PROVE  RuledInv'
  BY DEF RuledInv, SingleRoute, ActiveIsHandled

LEMMA RuledInit == Init => RuledInv
  <1> SUFFICES ASSUME Init PROVE SingleRoute /\ ActiveIsHandled
    BY InvInit DEF RuledInv
  <1>1. dist.active = {} /\ taken = [c \in Cores |-> {}]
        /\ dist.target = [irq \in Spis |-> {0}]
    BY DEF Init, NewDistributor
  <1> QED
    BY <1>1 DEF SingleRoute, ActiveIsHandled

(* The read of an IAR that returns irq: irq was in nobody's hands.          *)
LEMMA RuledTake ==
  ASSUME RuledInv, NEW d \in Cores, NEW f \in Cores, f = d, taken[d] = {},
         NEW irq \in Acknowledged(d, f), Acknowledge(d, f, irq)
  PROVE  irq \notin dist.active /\ (Inv' => RuledInv')
  <1>0. dist \in Distributor /\ taken \in [Cores -> SUBSET Spis]
    BY DEF RuledInv, Inv, TypeOK
  <1>1. /\ irq \in Spis \cap dist.pending /\ f \in dist.target[irq]
        /\ dist' = Activate(dist, irq)
        /\ taken' = [taken EXCEPT ![d] = @ \cup {irq}]
    BY AcknowledgeStep DEF RuledInv
  <1>3. dist.target[irq] = {d}
    BY <1>0, <1>1 DEF RuledInv, SingleRoute, Distributor
  <1>4. irq \notin dist.active
    BY <1>3 DEF RuledInv, ActiveIsHandled
  <1>5. /\ dist'.target = dist.target
        /\ dist'.active = dist.active \cup {irq}
        /\ \A c \in Cores : taken'[c] = IF c = d THEN taken[c] \cup {irq} ELSE taken[c]
    BY <1>0, <1>1 DEF Activate, Distributor
  <1>6. SingleRoute'
    BY <1>5 DEF RuledInv, SingleRoute
  <1>7. ActiveIsHandled'
    <2>1. ASSUME NEW i \in dist'.active PROVE \E c \in Cores : i \in taken'[c]
      BY <1>5, <2>1 DEF RuledInv, ActiveIsHandled
    <2>2. ASSUME NEW c \in Cores, NEW i \in taken'[c]
          PROVE  i \in dist'.active /\ dist'.target[i] = {c}
      <3>1. CASE i \in taken[c]
        BY <1>5, <3>1 DEF RuledInv, ActiveIsHandled
      <3>2. CASE i \notin taken[c]
        <4>1. i = irq /\ c = d
          BY <1>5, <2>2, <3>2
        <4> QED
          BY <1>3, <1>5, <4>1
      <3> QED
        BY <3>1, <3>2
    <2> QED
      BY <2>1, <2>2 DEF ActiveIsHandled
  <1> QED
    BY <1>4, <1>6, <1>7 DEF RuledInv

(* The write of an EOIR: the active bit falls for the core that writes.     *)
LEMMA RuledFinish ==
  ASSUME RuledInv, NEW d \in Cores, NEW f \in Cores, NEW irq \in taken[d] \cup {Spurious},
         WriteEoir(d, f, irq)
  PROVE  /\ dist' = [dist EXCEPT !.active = @ \ {irq}]
         /\ taken' = [taken EXCEPT ![d] = @ \ {irq}]
         /\ irq \in taken[d] \/ UNCHANGED <<dist, taken>>
         /\ Inv' => RuledInv'
  <1>0. dist \in Distributor /\ taken \in [Cores -> SUBSET Spis]
    BY DEF RuledInv, Inv, TypeOK
  <1>1. irq \in taken[d] \/ irq = Spurious
    OBVIOUS
  <1>2. irq \in Spis \/ irq \notin dist.active
    BY <1>0 DEF Distributor
  <1>3. dist' = [dist EXCEPT !.active = @ \ {irq}]
    <2>1. CASE irq \in Spis
      BY <2>1 DEF WriteEoir
    <2>2. CASE irq \notin Spis
      <3>1. dist.active \ {irq} = dist.active
        BY <1>2, <2>2
      <3>2. [dist EXCEPT !.active = @ \ {irq}] = dist
        BY <1>0, <3>1 DEF Distributor
      <3> QED
        BY <2>2, <3>2 DEF WriteEoir
    <2> QED
      BY <2>1, <2>2
  <1>4. taken' = [taken EXCEPT ![d] = @ \ {irq}]
    BY DEF WriteEoir
  <1>5. irq \in taken[d] \/ UNCHANGED <<dist, taken>>
    <2> SUFFICES ASSUME irq = Spurious PROVE UNCHANGED <<dist, taken>>
      BY <1>1
    <2>1. irq \notin Spis
      BY IdsApart
    <2>2. dist' = dist
      BY <2>1 DEF WriteEoir
    <2>3. taken[d] \ {irq} = taken[d]
      BY <1>0, <2>1
    <2> QED
      BY <1>0, <1>4, <2>2, <2>3
  <1>6. /\ dist'.target = dist.target
        /\ dist'.active = dist.active \ {irq}
        /\ \A c \in Cores : taken'[c] = IF c = d THEN taken[c] \ {irq} ELSE taken[c]
    BY <1>0, <1>3, <1>4 DEF Distributor
  <1>7. SingleRoute'
    BY <1>6 DEF RuledInv, SingleRoute
  <1>8. ActiveIsHandled'
    <2>1. ASSUME NEW i \in dist'.active PROVE \E c \in Cores : i \in taken'[c]
      BY <1>6, <2>1 DEF RuledInv, ActiveIsHandled
    <2>2. ASSUME NEW c \in Cores, NEW i \in taken'[c]
          PROVE  i \in dist'.active /\ dist'.target[i] = {c}
      <3>1. i \in taken[c] /\ i \in dist.active /\ dist.target[i] = {c}
        BY <1>6, <2>2 DEF RuledInv, ActiveIsHandled
      <3>2. i # irq
        <4> SUFFICES ASSUME i = irq PROVE FALSE
          OBVIOUS
        <4>1. irq \in taken[d]
          BY <1>0, <1>1, <3>1, IdsApart
        <4>2. dist.target[irq] = {d}
          BY <4>1 DEF RuledInv, ActiveIsHandled
        <4>3. c = d
          BY <3>1, <4>2
        <4> QED
          BY <1>6, <2>2, <4>3
      <3> QED
        BY <1>6, <3>1, <3>2
    <2> QED
      BY <2>1, <2>2 DEF ActiveIsHandled
  <1> QED
    BY <1>3, <1>4, <1>5, <1>7, <1>8 DEF RuledInv

LEMMA RuledNext == Disciplined /\ RuledInv /\ [Next]_vars => RuledInv'
  <1> SUFFICES ASSUME Disciplined, RuledInv, [Next]_vars PROVE RuledInv'
    OBVIOUS
  <1>0. /\ Inv'
        /\ dist \in Distributor
    BY InvNext DEF RuledInv, Inv, TypeOK
  <1>1. ASSUME NEW irq \in Spis \cup Ppis, Trigger(irq) PROVE RuledInv'
    <2>1. dist'.target = dist.target /\ dist'.active = dist.active /\ taken' = taken
      BY <1>0, <1>1 DEF Trigger, Distributor
    <2> QED
      BY <1>0, <2>1, RuledUnchanged
  <1>2. ASSUME NEW irqs \in SUBSET Spis,
               WriteEnable(irqs) \/ ClearPending(irqs) \/ SetActive(irqs)
        PROVE  RuledInv'
    <2>1. CASE WriteEnable(irqs) \/ ClearPending(irqs)
      <3>1. dist'.target = dist.target /\ dist'.active = dist.active /\ taken' = taken
        BY <1>0, <2>1 DEF WriteEnable, ClearPending, Distributor
      <3> QED
        BY <1>0, <3>1, RuledUnchanged
    <2>2. CASE SetActive(irqs)
      <3>1. dist.active \cup irqs = dist.active
        BY <2>2 DEF SetActive
      <3>2. dist'.target = dist.target /\ dist'.active = dist.active /\ taken' = taken
        BY <1>0, <2>2, <3>1 DEF SetActive, Distributor
      <3> QED
        BY <1>0, <3>2, RuledUnchanged
    <2> QED
      BY <1>2, <2>1, <2>2
  <1>3. ASSUME NEW irq \in Spis, NEW p \in Prios, WritePriority(irq, p) PROVE RuledInv'
    <2>1. dist'.target = dist.target /\ dist'.active = dist.active /\ taken' = taken
      BY <1>0, <1>3 DEF WritePriority, Distributor
    <2> QED
      BY <1>0, <2>1, RuledUnchanged
  <1>4. ASSUME NEW irq \in Spis, NEW route \in Routes, WriteTarget(irq, route)
        PROVE  RuledInv'
    <2>1. /\ irq \notin dist.active
          /\ \A c1, c2 \in route : c1 = c2
          /\ dist'.active = dist.active /\ taken' = taken
          /\ \A i \in Spis : dist'.target[i] = IF i = irq THEN route ELSE dist.target[i]
      BY <1>0, <1>4 DEF WriteTarget, Distributor
    <2>2. SingleRoute'
      BY <2>1 DEF RuledInv, SingleRoute
    <2>3. \A c \in Cores : \A i \in taken[c] : i \in Spis /\ i # irq
      BY <2>1 DEF RuledInv, ActiveIsHandled, Inv, TypeOK
    <2>4. ActiveIsHandled'
      BY <2>1, <2>3 DEF RuledInv, ActiveIsHandled
    <2> QED
      BY <1>0, <2>2, <2>4 DEF RuledInv
  <1>5. ASSUME NEW d \in Cores, NEW f \in Cores, NEW frame, WriteFrame(d, f, frame)
        PROVE  RuledInv'
    BY <1>0, <1>5, RuledUnchanged DEF WriteFrame
  <1>6. ASSUME NEW d \in Cores, NEW f \in Cores, ReadIar(d, f) PROVE RuledInv'
    <2>1. CASE UNCHANGED vars
      BY <1>0, <2>1, RuledUnchanged DEF vars
    <2>2. CASE ~ UNCHANGED vars
      <3>1. PICK irq \in Acknowledged(d, f) : Acknowledge(d, f, irq)
        BY <1>6, <2>2 DEF ReadIar
      <3> QED
        BY <1>0, <1>6, <3>1, RuledTake DEF ReadIar
    <2> QED
      BY <2>1, <2>2
  <1>7. ASSUME NEW d \in Cores, NEW f \in Cores,
               NEW irq \in Spis \cup Ppis \cup {Spurious}, WriteEoir(d, f, irq)
        PROVE  RuledInv'
    BY <1>0, <1>7, RuledFinish DEF WriteEoir
  <1>8. CASE UNCHANGED vars
    BY <1>0, <1>8, RuledUnchanged DEF vars
  <1> QED
    BY <1>1, <1>2, <1>3, <1>4, <1>5, <1>6, <1>7, <1>8
    DEF Next, Direct, WritePrivateEnable, ClearPrivatePending, SetPrivateActive,
        WritePrivatePriority, WriteMask

(* An active interrupt is being handled by the core it is routed to, and by *)
(* no other core.                                                           *)
THEOREM HandledByItsCore == ASSUME Disciplined PROVE Spec => []ActiveIsHandled
  <1>1. Init => RuledInv
    BY RuledInit
  <1>2. RuledInv /\ [Next]_vars => RuledInv'
    BY RuledNext
  <1>3. RuledInv => ActiveIsHandled
    BY DEF RuledInv
  <1> QED
    BY <1>1, <1>2, <1>3, PTL DEF Spec

-----------------------------------------------------------------------------
(* The controller implements InterruptLines. *)

LEMMA LinesInit == Init => Lines!Init
  BY DEF Init, NewDistributor, Lines!Init

LEMMA LinesNext == Disciplined /\ RuledInv /\ [Next]_vars => [Lines!Next]_(Lines!vars)
  <1> SUFFICES ASSUME Disciplined, RuledInv, [Next]_vars
               PROVE  Lines!Next \/ UNCHANGED Lines!vars
    OBVIOUS
  <1>0. dist \in Distributor /\ taken \in [Cores -> SUBSET Spis]
    BY DEF RuledInv, Inv, TypeOK
  <1>a. ASSUME dist'.pending = dist.pending, dist'.active = dist.active, taken' = taken
        PROVE  UNCHANGED Lines!vars
    BY <1>a DEF Lines!vars
  <1>1. ASSUME NEW irq \in Spis \cup Ppis, Trigger(irq)
        PROVE  Lines!Next \/ UNCHANGED Lines!vars
    <2>1. CASE irq \in Spis
      <3>1. Lines!Raise(irq)
        BY <1>0, <1>1, <2>1 DEF Trigger, Lines!Raise, Distributor
      <3> QED
        BY <2>1, <3>1 DEF Lines!Next
    <2>2. CASE irq \notin Spis
      BY <1>1, <1>a, <2>2 DEF Trigger
    <2> QED
      BY <2>1, <2>2
  <1>2. ASSUME NEW irqs \in SUBSET Spis,
               WriteEnable(irqs) \/ ClearPending(irqs) \/ SetActive(irqs)
        PROVE  Lines!Next \/ UNCHANGED Lines!vars
    <2>1. CASE WriteEnable(irqs)
      BY <1>0, <1>a, <2>1 DEF WriteEnable, Distributor
    <2>2. CASE ClearPending(irqs)
      <3>1. Lines!Withdraw(irqs)
        BY <1>0, <2>2 DEF ClearPending, Lines!Withdraw, Distributor
      <3> QED
        BY <3>1 DEF Lines!Next
    <2>3. CASE SetActive(irqs)
      <3>1. dist.active \cup irqs = dist.active
        BY <2>3 DEF SetActive
      <3>2. UNCHANGED Lines!vars
        BY <1>0, <1>a, <2>3, <3>1 DEF SetActive, Distributor
      <3> QED
        BY <3>2
    <2> QED
      BY <1>2, <2>1, <2>2, <2>3
  <1>3. ASSUME NEW irq \in Spis, NEW p \in Prios, WritePriority(irq, p)
        PROVE  UNCHANGED Lines!vars
    BY <1>0, <1>3, <1>a DEF WritePriority, Distributor
  <1>4. ASSUME NEW irq \in Spis, NEW route \in Routes, WriteTarget(irq, route)
        PROVE  UNCHANGED Lines!vars
    BY <1>0, <1>4, <1>a DEF WriteTarget, Distributor
  <1>5. ASSUME NEW d \in Cores, NEW f \in Cores, NEW frame, WriteFrame(d, f, frame)
        PROVE  UNCHANGED Lines!vars
    BY <1>5, <1>a DEF WriteFrame
  <1>6. ASSUME NEW d \in Cores, NEW f \in Cores, ReadIar(d, f)
        PROVE  Lines!Next \/ UNCHANGED Lines!vars
    <2>1. CASE UNCHANGED vars
      BY <1>a, <2>1 DEF vars
    <2>2. CASE ~ UNCHANGED vars
      <3>1. PICK irq \in Acknowledged(d, f) : Acknowledge(d, f, irq)
        BY <1>6, <2>2 DEF ReadIar
      <3>2. /\ irq \in Spis \cap dist.pending
            /\ dist' = Activate(dist, irq)
            /\ taken' = [taken EXCEPT ![d] = @ \cup {irq}]
        BY <3>1, AcknowledgeStep DEF RuledInv
      <3>3. irq \notin dist.active
        BY <1>6, <3>1, RuledTake DEF ReadIar
      <3>4. Lines!Take(d, irq)
        BY <1>0, <3>2, <3>3 DEF Lines!Take, Activate, Distributor
      <3> QED
        BY <3>2, <3>4 DEF Lines!Next
    <2> QED
      BY <2>1, <2>2
  <1>7. ASSUME NEW d \in Cores, NEW f \in Cores,
               NEW irq \in Spis \cup Ppis \cup {Spurious}, WriteEoir(d, f, irq)
        PROVE  Lines!Next \/ UNCHANGED Lines!vars
    <2>1. /\ dist' = [dist EXCEPT !.active = @ \ {irq}]
          /\ taken' = [taken EXCEPT ![d] = @ \ {irq}]
          /\ irq \in taken[d] \/ UNCHANGED <<dist, taken>>
      BY <1>7, RuledFinish DEF WriteEoir
    <2>2. CASE irq \in taken[d]
      <3>1. Lines!Finish(d, irq) /\ irq \in Spis
        BY <1>0, <2>1, <2>2 DEF Lines!Finish, Distributor
      <3> QED
        BY <3>1 DEF Lines!Next
    <2>3. CASE UNCHANGED <<dist, taken>>
      BY <1>a, <2>3
    <2> QED
      BY <2>1, <2>2, <2>3
  <1>8. CASE UNCHANGED vars
    BY <1>8, <1>a DEF vars
  <1> QED
    BY <1>1, <1>2, <1>3, <1>4, <1>5, <1>6, <1>7, <1>8
    DEF Next, Direct, WritePrivateEnable, ClearPrivatePending, SetPrivateActive,
        WritePrivatePriority, WriteMask

(* For software that keeps to the rules the controller is InterruptLines.   *)
THEOREM GicImplementsLines == ASSUME Disciplined PROVE Spec => ImplementsLines
  <1>1. Init => Lines!Init
    BY LinesInit
  <1>2. RuledInv /\ [Next]_vars => [Lines!Next]_(Lines!vars)
    BY LinesNext
  <1>3. Init => RuledInv
    BY RuledInit
  <1>4. RuledInv /\ [Next]_vars => RuledInv'
    BY RuledNext
  <1> QED
    BY <1>1, <1>2, <1>3, <1>4, PTL DEF Spec, ImplementsLines, Lines!Spec

-----------------------------------------------------------------------------
(* The loops, an iteration at a time. *)

Scans ==
  [kind : {"none", "peek", "acknowledge"}, device : Cores, frame : Cores,
   passed : SUBSET (Ppis \cup Spis), best : [irq : Int, prio : Int]]

(* What the loop under way may find.                                        *)
Candidates ==
  {irq \in Scannable : /\ Deliverable(irq)
                       /\ PriorityOf(irq) < Scanned.pmr
                       /\ PriorityOf(irq) < Lowest}

(* The invariant of a loop: it passes the ids in order, and holds the best   *)
(* of those it has passed.                                                  *)
InOrder == \A irq \in scan.passed : \A later \in Unpassed : irq < later

BestSoFar ==
  \/ Candidates \cap scan.passed = {} /\ scan.best = NothingYet
  \/ /\ scan.best.irq \in Candidates \cap scan.passed
     /\ scan.best.prio = PriorityOf(scan.best.irq)
     /\ \A other \in Candidates \cap scan.passed :
          \/ scan.best.prio < PriorityOf(other)
          \/ scan.best.prio = PriorityOf(other) /\ scan.best.irq <= other

LoopInv ==
  /\ Inv
  /\ scan \in Scans
  /\ scan.kind = "none" => scan = NoScan
  /\ scan.kind = "acknowledge" /\ Disciplined =>
       scan.frame = scan.device /\ taken[scan.device] = {}
  /\ scan.passed \subseteq Scannable
  /\ InOrder
  /\ BestSoFar

LEMMA ScannedTyped ==
  ASSUME Inv, scan \in Scans
  PROVE  /\ Scanned \in Frame
         /\ \A irq \in Ppis \cup Spis :
              irq \in Nat /\ irq # Spurious /\ PriorityOf(irq) \in 0 .. 255
  <1>1. Scanned \in Frame
    BY DEF Inv, TypeOK, Scans, Scanned
  <1>2. dist.prio \in [Spis -> 0 .. 255] /\ Scanned.prio \in [Ppis -> 0 .. 255]
    BY <1>1 DEF Inv, TypeOK, Distributor, Frame
  <1>3. \A irq \in Ppis \cup Spis : irq \in Nat /\ irq # Spurious
    BY GicAssumption, IdsApart
  <1>4. \A irq \in Ppis \cup Spis : PriorityOf(irq) \in 0 .. 255
    BY <1>2 DEF PriorityOf
  <1> QED
    BY <1>1, <1>3, <1>4

(* The candidates are those Gic chooses from.                               *)
LEMMA CandidatesReady ==
  ASSUME Inv, scan \in Scans
  PROVE  /\ scan.kind = "peek" => Candidates = ReadySpis(scan.frame, Scanned.pmr)
         /\ scan.kind = "acknowledge" =>
              Candidates = ReadyPpis(Scanned) \cup ReadySpis(scan.frame, Scanned.pmr)
  <1>1. Scanned \in Frame /\ dist \in Distributor
    BY ScannedTyped DEF Inv, TypeOK
  <1>2. \A irq \in Spis :
          irq \in ReadySpis(scan.frame, Scanned.pmr)
            <=> Deliverable(irq) /\ PriorityOf(irq) < Scanned.pmr /\ PriorityOf(irq) < Lowest
    BY IdsApart DEF ReadySpis, Deliverable, PriorityOf, Passes
  <1>3. \A irq \in Ppis :
          irq \in ReadyPpis(Scanned)
            <=> Deliverable(irq) /\ PriorityOf(irq) < Scanned.pmr /\ PriorityOf(irq) < Lowest
    BY DEF ReadyPpis, Deliverable, PriorityOf, Passes
  <1>4. ReadySpis(scan.frame, Scanned.pmr) \subseteq Spis /\ ReadyPpis(Scanned) \subseteq Ppis
    BY <1>1 DEF ReadySpis, ReadyPpis, Distributor, Frame
  <1> QED
    BY <1>2, <1>3, <1>4 DEF Candidates, Scannable

(* A candidate no other beats is what Gic calls the best.                   *)
LEMMA LeastIsBest ==
  ASSUME Inv, scan \in Scans, scan.kind # "none",
         NEW irq \in Candidates,
         \A other \in Candidates :
           \/ PriorityOf(irq) < PriorityOf(other)
           \/ PriorityOf(irq) = PriorityOf(other) /\ irq <= other
  PROVE  (IF scan.kind = "peek" THEN Peeked(scan.frame, Scanned.pmr)
          ELSE Acknowledged(scan.device, scan.frame)) = {irq}
  <1> DEFINE used == Candidates
  <1>1. \A i \in used : i \in Nat /\ PriorityOf(i) \in Nat
    BY ScannedTyped DEF Candidates, Scannable
  <1>2. ASSUME NEW prio, \A i \in used : prio[i] = PriorityOf(i)
        PROVE  Best(used, prio) = {irq}
    <2>1. irq \in Best(used, prio)
      BY <1>1, <1>2 DEF Best, AtLeastAsUrgent
    <2>2. \A i \in Best(used, prio) : i = irq
      BY <1>1, <1>2 DEF Best, AtLeastAsUrgent
    <2> QED
      BY <2>1, <2>2
  <1>3. CASE scan.kind = "peek"
    <2>1. used = ReadySpis(scan.frame, Scanned.pmr) /\ used \subseteq Spis
      BY <1>3, CandidatesReady DEF Candidates, Scannable
    <2>2. \A i \in used : dist.prio[i] = PriorityOf(i)
      BY <2>1, IdsApart DEF PriorityOf
    <2> HIDE DEF used
    <2> QED
      BY <1>2, <1>3, <2>1, <2>2 DEF Peeked
  <1>4. CASE scan.kind = "acknowledge"
    <2> DEFINE prio == [i \in used |-> IF i \in Ppis THEN Scanned.prio[i] ELSE dist.prio[i]]
    <2>1. used = ReadyPpis(Scanned) \cup ReadySpis(scan.frame, Scanned.pmr)
      BY <1>4, CandidatesReady
    <2>2. \A i \in used : prio[i] = PriorityOf(i)
      BY DEF PriorityOf
    <2>3. Acknowledged(scan.device, scan.frame) = Best(used, prio)
      BY <2>1 DEF Acknowledged, Scanned
    <2> HIDE DEF used, prio
    <2> QED
      BY <1>2, <1>4, <2>2, <2>3
  <1> QED
    BY <1>3, <1>4 DEF Scans

LEMMA NoneIsBest ==
  ASSUME Inv, scan \in Scans, scan.kind # "none", Candidates = {}
  PROVE  (IF scan.kind = "peek" THEN Peeked(scan.frame, Scanned.pmr)
          ELSE Acknowledged(scan.device, scan.frame)) = {}
  <1>1. CASE scan.kind = "peek"
    BY <1>1, CandidatesReady DEF Peeked, Best
  <1>2. CASE scan.kind = "acknowledge"
    BY <1>2, CandidatesReady DEF Acknowledged, Best, Scanned
  <1> QED
    BY <1>1, <1>2 DEF Scans

(* What a loop that has passed every id returns.                            *)
LEMMA LoopResult ==
  ASSUME LoopInv, scan.kind # "none", Unpassed = {}
  PROVE  LET found == IF scan.kind = "peek" THEN Peeked(scan.frame, Scanned.pmr)
                      ELSE Acknowledged(scan.device, scan.frame)
         IN  \/ scan.best = NothingYet /\ found = {}
             \/ scan.best # NothingYet /\ found = {scan.best.irq}
  <1>1. Inv /\ scan \in Scans
    BY DEF LoopInv
  <1>2. Candidates \cap scan.passed = Candidates
    BY DEF Candidates, Unpassed
  <1>3. CASE Candidates = {}
    BY <1>1, <1>2, <1>3, NoneIsBest DEF LoopInv, BestSoFar
  <1>4. CASE Candidates # {}
    <2>1. /\ scan.best.irq \in Candidates
          /\ scan.best.prio = PriorityOf(scan.best.irq)
          /\ \A other \in Candidates :
               \/ scan.best.prio < PriorityOf(other)
               \/ scan.best.prio = PriorityOf(other) /\ scan.best.irq <= other
      BY <1>2, <1>4 DEF LoopInv, BestSoFar
    <2>2. scan.best # NothingYet
      BY <1>1, <2>1, ScannedTyped DEF NothingYet, Candidates, Scannable
    <2> QED
      BY <1>1, <2>1, <2>2, LeastIsBest
  <1> QED
    BY <1>3, <1>4

LEMMA LoopsFind == LoopInv => LoopsFindBest
  <1> SUFFICES ASSUME LoopInv, scan.kind # "none", Unpassed = {}
               PROVE  {scan.best.irq}
                        = IrqOrSpurious(IF scan.kind = "peek"
                                        THEN Peeked(scan.frame, Scanned.pmr)
                                        ELSE Acknowledged(scan.device, scan.frame))
    BY DEF LoopsFindBest
  <1>1. NothingYet.irq = Spurious
    BY DEF NothingYet
  <1> QED
    BY <1>1, LoopResult DEF IrqOrSpurious

LEMMA LoopsInit == InitLoops => LoopInv
  <1> SUFFICES ASSUME InitLoops PROVE LoopInv
    OBVIOUS
  <1>1. Inv
    BY InvInit DEF InitLoops
  <1>2. scan = NoScan /\ scan \in Scans
    BY GicAssumption DEF InitLoops, NoScan, NewScan, NothingYet, Scans, Spurious, Lowest
  <1>3. scan.kind = "none" /\ scan.passed = {} /\ scan.best = NothingYet
    BY <1>2 DEF NoScan, NewScan
  <1> QED
    BY <1>1, <1>2, <1>3 DEF LoopInv, InOrder, BestSoFar

(* A loop that begins has passed nothing, whatever the registers.           *)
LEMMA FreshScan ==
  ASSUME Inv', NEW kind \in {"none", "peek", "acknowledge"},
         NEW d \in Cores, NEW f \in Cores, scan' = NewScan(kind, d, f),
         kind = "none" => scan' = NoScan,
         kind = "acknowledge" /\ Disciplined => f = d /\ taken'[d] = {}
  PROVE  LoopInv'
  <1>1. scan' \in Scans
    BY DEF NewScan, NothingYet, Scans, Spurious, Lowest
  <1>2. /\ scan'.kind = kind /\ scan'.device = d /\ scan'.frame = f
        /\ scan'.passed = {} /\ scan'.best = NothingYet
    BY DEF NewScan
  <1>3. InOrder' /\ BestSoFar'
    BY <1>2 DEF InOrder, BestSoFar, NothingYet
  <1> QED
    BY <1>1, <1>2, <1>3 DEF LoopInv, Scans, Inv, NoScan, NewScan, NothingYet

(* An iteration: the new id comes after all that were passed, so it is the  *)
(* best only if it is strictly more urgent.                                 *)
LEMMA IterateKeeps == ASSUME LoopInv, Iterate PROVE LoopInv'
  <1>1. PICK irq \in Unpassed :
          /\ \A later \in Unpassed : irq <= later
          /\ scan' = [scan EXCEPT !.passed = @ \cup {irq}, !.best = Keep(@, irq)]
    BY DEF Iterate
  <1>2. /\ scan \in Scans /\ Inv /\ scan.passed \subseteq Scannable
        /\ scan.kind # "none" /\ UNCHANGED <<dist, local, taken>>
    BY DEF LoopInv, Iterate, vars
  <1>3. /\ scan'.kind = scan.kind /\ scan'.device = scan.device /\ scan'.frame = scan.frame
        /\ scan'.passed = scan.passed \cup {irq} /\ scan'.best = Keep(scan.best, irq)
    BY <1>1, <1>2 DEF Scans
  <1>4. /\ irq \in Scannable /\ irq \notin scan.passed
        /\ Scannable \subseteq Ppis \cup Spis
    BY <1>1 DEF Unpassed, Scannable
  <1>5. irq \in Nat /\ PriorityOf(irq) \in 0 .. 255
    BY <1>2, <1>4, ScannedTyped
  <1>6. scan' \in Scans
    <2>1. Keep(scan.best, irq) \in [irq : Int, prio : Int]
      BY <1>2, <1>5 DEF Keep, Scans
    <2> QED
      BY <1>1, <1>2, <1>4, <2>1 DEF Scans
  <1>7. /\ Scanned' = Scanned /\ Scannable' = Scannable
        /\ Candidates' = Candidates
        /\ \A i : PriorityOf(i)' = PriorityOf(i)
        /\ Unpassed' = Unpassed \ {irq}
    <2>1. Scanned' = Scanned /\ Scannable' = Scannable
      BY <1>2, <1>3 DEF Scanned, Scannable
    <2>2. \A i : PriorityOf(i)' = PriorityOf(i) /\ (Deliverable(i)' <=> Deliverable(i))
      BY <1>2, <1>3, <2>1 DEF PriorityOf, Deliverable
    <2>3. Unpassed' = Unpassed \ {irq}
      BY <1>3, <2>1 DEF Unpassed
    <2> QED
      BY <2>1, <2>2, <2>3 DEF Candidates
  <1>8. InOrder'
    <2>1. \A i \in Unpassed : i \in Nat
      BY <1>2, <1>4, ScannedTyped DEF Unpassed
    <2> QED
      BY <1>1, <1>3, <1>5, <1>7, <2>1 DEF InOrder, LoopInv
  <1>9. irq \in Candidates <=>
          Deliverable(irq) /\ PriorityOf(irq) < Scanned.pmr /\ PriorityOf(irq) < Lowest
    BY <1>4 DEF Candidates
  <1>10. \A i \in scan.passed : i < irq /\ i \in Nat /\ PriorityOf(i) \in 0 .. 255
    BY <1>1, <1>2, <1>4, ScannedTyped DEF LoopInv, InOrder
  <1>11. BestSoFar'
    <2> DEFINE met == Candidates \cap scan.passed
    <2>1. (Candidates \cap scan.passed)' = IF irq \in Candidates THEN met \cup {irq} ELSE met
      BY <1>3, <1>7
    <2>2. CASE met = {} /\ scan.best = NothingYet
      <3>1. Keep(scan.best, irq) = IF irq \in Candidates
                                   THEN [irq |-> irq, prio |-> PriorityOf(irq)]
                                   ELSE scan.best
        BY <1>9, <2>2 DEF Keep, NothingYet
      <3> QED
        BY <1>3, <1>5, <1>7, <2>1, <2>2, <3>1 DEF BestSoFar, NothingYet
    <2>3. CASE /\ scan.best.irq \in met
               /\ scan.best.prio = PriorityOf(scan.best.irq)
               /\ \A other \in met :
                    \/ scan.best.prio < PriorityOf(other)
                    \/ scan.best.prio = PriorityOf(other) /\ scan.best.irq <= other
      <3>1. /\ scan.best.irq < irq /\ scan.best.prio \in 0 .. 255 /\ scan.best.prio < Lowest
            /\ scan.best.irq \in Nat
        BY <1>10, <2>3 DEF Candidates
      <3>2. CASE irq \in Candidates /\ PriorityOf(irq) < scan.best.prio
        <4>1. Keep(scan.best, irq) = [irq |-> irq, prio |-> PriorityOf(irq)]
          BY <1>9, <3>2 DEF Keep
        <4>2. \A other \in met : PriorityOf(irq) < PriorityOf(other)
          <5> SUFFICES ASSUME NEW other \in met PROVE PriorityOf(irq) < PriorityOf(other)
            OBVIOUS
          <5>1. PriorityOf(other) \in Int /\ PriorityOf(irq) \in Int /\ scan.best.prio \in Int
            BY <1>5, <1>10, <3>1
          <5>2. scan.best.prio <= PriorityOf(other)
            BY <2>3, <5>1
          <5> QED
            BY <3>2, <5>1, <5>2
        <4> HIDE DEF met
        <4> QED
          BY <1>3, <1>5, <1>7, <2>1, <3>2, <4>1, <4>2 DEF BestSoFar
      <3>3. CASE irq \in Candidates /\ ~(PriorityOf(irq) < scan.best.prio)
        <4>1. Keep(scan.best, irq) = scan.best
          BY <3>3 DEF Keep
        <4>2. \/ scan.best.prio < PriorityOf(irq)
              \/ scan.best.prio = PriorityOf(irq) /\ scan.best.irq <= irq
          <5>1. scan.best.irq <= irq
            BY <1>5, <3>1
          <5>2. PriorityOf(irq) \in Int /\ scan.best.prio \in Int
            BY <1>5, <3>1
          <5>3. scan.best.prio <= PriorityOf(irq)
            BY <3>3, <5>2
          <5> QED
            BY <5>1, <5>2, <5>3
        <4> HIDE DEF met
        <4> QED
          BY <1>3, <1>7, <2>1, <2>3, <3>3, <4>1, <4>2 DEF BestSoFar
      <3>4. CASE irq \notin Candidates
        <4>1. Keep(scan.best, irq) = scan.best
          BY <1>5, <1>9, <3>1, <3>4 DEF Keep, Lowest
        <4> HIDE DEF met
        <4> QED
          BY <1>3, <1>7, <2>1, <2>3, <3>4, <4>1 DEF BestSoFar
      <3> QED
        BY <3>2, <3>3, <3>4
    <2> QED
      BY <2>2, <2>3 DEF LoopInv, BestSoFar
  <1>12. Inv'
    BY <1>2 DEF Inv, TypeOK, PrivateQuiet
  <1> QED
    BY <1>2, <1>3, <1>4, <1>6, <1>7, <1>8, <1>11, <1>12 DEF LoopInv

(* The end of a loop of acknowledge_irq is Gic's read of IAR.               *)
LEMMA ReturnIsReadIar ==
  ASSUME LoopInv, ReturnAcknowledged
  PROVE  scan.device \in Cores /\ scan.frame \in Cores /\ ReadIar(scan.device, scan.frame)
  <1>1. /\ scan.kind = "acknowledge" /\ Unpassed = {}
        /\ scan.device \in Cores /\ scan.frame \in Cores
    BY DEF LoopInv, ReturnAcknowledged, Scans
  <1>2. \/ scan.best = NothingYet /\ Acknowledged(scan.device, scan.frame) = {}
        \/ /\ scan.best # NothingYet
           /\ Acknowledged(scan.device, scan.frame) = {scan.best.irq}
    BY <1>1, LoopResult
  <1> QED
    BY <1>1, <1>2 DEF ReturnAcknowledged, ReadIar, LoopInv

(* Every step of the loops is one of Gic's, or changes no register.         *)
LEMMA LoopStepsAreGicSteps == LoopInv /\ [NextLoops]_scanVars => [Next]_vars
  <1> SUFFICES ASSUME LoopInv, [NextLoops]_scanVars PROVE [Next]_vars
    OBVIOUS
  <1>1. CASE ReturnAcknowledged
    BY <1>1, ReturnIsReadIar DEF Next
  <1>2. CASE UNCHANGED vars
    BY <1>2
  <1>3. CASE Direct
    BY <1>3 DEF Next
  <1> QED
    BY <1>1, <1>2, <1>3
    DEF NextLoops, scanVars, vars, StartPeek, StartAcknowledge, Iterate, ReturnPeek

LEMMA LoopsNext == LoopInv /\ [NextLoops]_scanVars => LoopInv'
  <1> SUFFICES ASSUME LoopInv, [NextLoops]_scanVars PROVE LoopInv'
    OBVIOUS
  <1>1. Inv'
    BY LoopStepsAreGicSteps, InvNext DEF LoopInv
  <1>2. NoScan = NewScan("none", 0, 0) /\ 0 \in Cores
    BY GicAssumption DEF NoScan
  <1>3. CASE scan' = NoScan
    BY <1>1, <1>2, <1>3, FreshScan
  <1>4. ASSUME NEW c \in Cores, StartPeek(c) PROVE LoopInv'
    BY <1>1, <1>4, FreshScan DEF StartPeek
  <1>5. ASSUME NEW d \in Cores, NEW f \in Cores, StartAcknowledge(d, f) PROVE LoopInv'
    BY <1>1, <1>5, FreshScan DEF StartAcknowledge, vars
  <1>6. CASE Iterate
    BY <1>6, IterateKeeps
  <1>7. CASE UNCHANGED scanVars
    BY <1>1, <1>7
    DEF scanVars, LoopInv, InOrder, BestSoFar, Candidates, Unpassed, Scannable, Scanned,
        Deliverable, PriorityOf, Scans
  <1> QED
    BY <1>3, <1>4, <1>5, <1>6, <1>7 DEF NextLoops, ReturnPeek, ReturnAcknowledged

(* The two loops find what they should, for any set of cores and interrupts *)
(* and whatever software writes: strict comparisons in ascending order give *)
(* the most urgent interrupt, and of equals the one with the smallest id.   *)
THEOREM LoopsAreRight == SpecLoops => []LoopsFindBest
  BY LoopsInit, LoopsNext, LoopsFind, PTL DEF SpecLoops

(* Run an iteration at a time, acknowledge_irq is the single step that Gic  *)
(* takes it for; with it, all that is proved of Gic holds of the loops.     *)
THEOREM LoopsAreGic == SpecLoops => LoopsImplementGic
  <1>1. InitLoops => Init
    BY DEF InitLoops
  <1> QED
    BY <1>1, LoopsInit, LoopsNext, LoopStepsAreGicSteps, PTL
    DEF SpecLoops, LoopsImplementGic, Spec

-----------------------------------------------------------------------------
(* Delivery. *)

CoreStates ==
  [pc : Int, pstate : ELs, el : ELs, bank : [Levels -> [pc : Int, pstate : ELs]],
   vbar : [Levels -> {0, Vbar1, Vbar3}], irq_masked : BOOLEAN]

DeliveryTypeOK ==
  /\ Inv
  /\ cpu \in [Cores -> CoreStates]
  /\ x0 \in [Cores -> Int]
  /\ awaited \in [Cores -> [pc : Int, pstate : ELs]]
  /\ turn \in Cores
  /\ offered \in BOOLEAN

(* Where an interrupt may find a core that has a vector table for it: in    *)
(* the program at EL0 or EL1, or in the monitor at EL3.                     *)
Interruptible(pc, el) ==
  \/ pc \in Program /\ el \in {0, 1}
  \/ pc = SmcHandler /\ el = 3

El1Handlers ==
  {SvcHandler, IrqHandler, IrqHandler + 1, IrqHandler + 2, IrqHandler + 3}

(* A core without a vector table may be pulled out of its monitor to EL1;   *)
(* it then bounces between the levels through the bank of EL1.              *)
PulledOut(core) ==
  /\ core.vbar[1] = 0
  /\ core.pc = SmcHandler /\ core.el = 1
  /\ core.bank[1].pc = SmcHandler /\ core.bank[1].pstate \in {1, 3}

(* The registers of a core agree with each other and with what the core has *)
(* to return to: while an EL1 handler runs, the bank of EL1 holds the       *)
(* interrupted context, and no handler is entered a second time.            *)
ControlOf(core, context) ==
  /\ core.el = core.pstate
  /\ core.vbar[3] = Vbar3 /\ core.vbar[1] \in {0, Vbar1}
  /\ core.bank[3].pstate \in {0, 1}
  /\ core.pc = SmcHandler \/ core.bank[1].pc = SmcHandler => core.bank[3].pc = 2
  /\ IF context = Nothing
     THEN Interruptible(core.pc, core.el) \/ PulledOut(core)
     ELSE /\ core.vbar[1] = Vbar1
          /\ core.pc \in El1Handlers /\ core.el = 1
          /\ core.bank[1] = context
          /\ Interruptible(context.pc, context.pstate)

ControlOK == \A c \in Cores : ControlOf(cpu[c], awaited[c])

(* What an IAR read of core c can return.                                   *)
Ready(c) == ReadySpis(c, local[c][c].pmr)

(* From its entry to its IAR read the interrupt handler has an interrupt    *)
(* to find, and from then to its EOIR write it holds exactly that one.      *)
HandlersServed ==
  \A c \in Cores :
    /\ cpu[c].pc \in {IrqHandler, IrqHandler + 1} => Ready(c) # {}
    /\ taken[c] = IF cpu[c].pc = IrqHandler + 2 THEN {x0[c]} ELSE {}

DeliveryInv == DeliveryTypeOK /\ SingleRoute /\ ControlOK /\ HandlersServed

-----------------------------------------------------------------------------
(* Something is chosen whenever something is there to choose from. *)

LEMMA LeastNatural ==
  ASSUME NEW S, S \subseteq Nat, S # {}
  PROVE  \E m \in S : \A n \in S : m <= n
  <1> DEFINE below == OpToRel(<, Nat)
  <1>1. IsWellFoundedOn(below, Nat)
    BY NatLessThanWellFounded
  <1>2. \A m, n \in Nat : n < m => <<n, m>> \in below
    BY DEF OpToRel
  <1> HIDE DEF below
  <1>3. PICK m \in S : \A n \in S : <<n, m>> \notin below
    BY <1>1, WFMin
  <1>4. ASSUME NEW n \in S PROVE m <= n
    <2>1. m \in Nat /\ n \in Nat
      OBVIOUS
    <2>2. ~ (n < m)
      BY <1>2, <1>3, <2>1
    <2> QED
      BY <2>1, <2>2
  <1> QED
    BY <1>4

(* The scan of acknowledge_irq and peek_pending_irq finds one interrupt     *)
(* whenever one is ready, and never leaves it open which.                   *)
LEMMA BestExists ==
  ASSUME NEW S, S \subseteq Spis, S # {}, NEW prio \in [Spis -> 0 .. 255]
  PROVE  \E i \in S : Best(S, prio) = {i}
  <1>1. \A i \in S : i \in Nat /\ prio[i] \in Nat
    BY GicAssumption
  <1>2. PICK p \in {prio[i] : i \in S} : \A q \in {prio[i] : i \in S} : p <= q
    <2> DEFINE used == {prio[i] : i \in S}
    <2>1. used \subseteq Nat /\ used # {}
      BY <1>1
    <2> HIDE DEF used
    <2>2. \E p \in used : \A q \in used : p <= q
      BY <2>1, LeastNatural
    <2> QED
      BY <2>2 DEF used
  <1>3. PICK i \in {j \in S : prio[j] = p} : \A j \in {k \in S : prio[k] = p} : i <= j
    <2> DEFINE urgent == {j \in S : prio[j] = p}
    <2>1. urgent \subseteq Nat /\ urgent # {}
      BY <1>1, <1>2
    <2> HIDE DEF urgent
    <2>2. \E i \in urgent : \A j \in urgent : i <= j
      BY <2>1, LeastNatural
    <2> QED
      BY <2>2 DEF urgent
  <1>4. i \in Best(S, prio)
    BY <1>1, <1>2, <1>3 DEF Best, AtLeastAsUrgent
  <1>5. \A j \in Best(S, prio) : j = i
    BY <1>1, <1>4 DEF Best, AtLeastAsUrgent
  <1> QED
    BY <1>3, <1>4, <1>5

-----------------------------------------------------------------------------
(* The registers of one core. *)

(* Entry to a level with a vector table or without: what is saved, and      *)
(* where the core goes.                                                     *)
LEMMA EnterCore ==
  ASSUME NEW core \in CoreStates, NEW level \in Levels, NEW return \in Int,
         NEW offset \in Int
  PROVE  LET entered == Enter(core, level, return, offset)
         IN  /\ entered \in CoreStates
             /\ entered.el = level /\ entered.pstate = level
             /\ entered.bank[level] = [pc |-> return, pstate |-> core.pstate]
             /\ \A l \in Levels : l # level => entered.bank[l] = core.bank[l]
             /\ entered.vbar = core.vbar
             /\ entered.pc = IF core.vbar[level] = 0 THEN core.pc
                             ELSE core.vbar[level] + offset
  <1> DEFINE context == [pc |-> return, pstate |-> core.pstate]
             entered == Enter(core, level, return, offset)
  <1>1. context \in [pc : Int, pstate : ELs] /\ level \in ELs
    BY DEF CoreStates, Levels, ELs
  <1>2. core.vbar[level] \in Int
    BY DEF CoreStates, Vbar1, Vbar3
  <1>3. entered = [core EXCEPT !.bank = [core.bank EXCEPT ![level] = context],
                               !.el = level, !.pstate = level,
                               !.pc = IF core.vbar[level] # 0
                                      THEN core.vbar[level] + offset ELSE core.pc]
    BY DEF Enter
  <1>4. [core.bank EXCEPT ![level] = context] \in [Levels -> [pc : Int, pstate : ELs]]
    BY <1>1 DEF CoreStates
  <1>5. entered.bank = [core.bank EXCEPT ![level] = context]
    BY <1>3 DEF CoreStates
  <1>6. /\ entered.el = level /\ entered.pstate = level
        /\ entered.vbar = core.vbar
        /\ entered.pc = IF core.vbar[level] = 0 THEN core.pc
                        ELSE core.vbar[level] + offset
    BY <1>3 DEF CoreStates
  <1>7. entered \in CoreStates
    <2> DEFINE pc   == IF core.vbar[level] # 0 THEN core.vbar[level] + offset ELSE core.pc
               bank == [core.bank EXCEPT ![level] = context]
    <2>1. pc \in Int
      BY <1>2 DEF CoreStates
    <2>2. entered = [core EXCEPT !.bank = bank, !.el = level, !.pstate = level, !.pc = pc]
      BY <1>3
    <2>3. bank \in [Levels -> [pc : Int, pstate : ELs]]
      BY <1>4
    <2> HIDE DEF pc, bank, entered
    <2> QED
      BY <1>1, <2>1, <2>2, <2>3 DEF CoreStates
  <1>8. /\ entered.bank[level] = context
        /\ \A l \in Levels : l # level => entered.bank[l] = core.bank[l]
    BY <1>5 DEF CoreStates
  <1> QED
    BY <1>6, <1>7, <1>8

(* An interrupt, on a core that is in no EL1 handler.                       *)
LEMMA IrqControl ==
  ASSUME NEW core \in CoreStates, ControlOf(core, Nothing)
  PROVE  /\ Irq(core) \in CoreStates
         /\ core.vbar[1] = 0 => /\ ControlOf(Irq(core), Nothing)
                                /\ Irq(core).pc = core.pc
         /\ core.vbar[1] # 0 =>
              /\ ControlOf(Irq(core), [pc |-> core.pc, pstate |-> core.pstate])
              /\ Irq(core).pc = IrqHandler
  <1> DEFINE context == [pc |-> core.pc, pstate |-> core.pstate]
             entered == Irq(core)
  <1>0. 1 \in Levels /\ 3 \in Levels /\ core.pc \in Int /\ IrqOffset \in Int
    BY DEF Levels, CoreStates, IrqOffset
  <1>1. /\ entered \in CoreStates
        /\ entered.el = 1 /\ entered.pstate = 1
        /\ entered.bank[1] = context /\ entered.bank[3] = core.bank[3]
        /\ entered.vbar = core.vbar
        /\ entered.pc = IF core.vbar[1] = 0 THEN core.pc ELSE core.vbar[1] + IrqOffset
    BY <1>0, EnterCore DEF Irq
  <1>2. context.pc = core.pc /\ context.pstate = core.pstate
    OBVIOUS
  <1>3. context # Nothing /\ core.pc \in Int
    BY <1>2 DEF ControlOf, Interruptible, PulledOut, Program, SmcHandler, Vbar3,
       SyncOffset, Nothing
  <1> HIDE DEF context, entered
  <1>4. CASE core.vbar[1] = 0
    BY <1>1, <1>2, <1>4 DEF ControlOf, Interruptible, PulledOut, Program, SmcHandler,
       Vbar3, SyncOffset, entered
  <1>5. CASE core.vbar[1] # 0
    <2>1. core.vbar[1] = Vbar1 /\ ~ PulledOut(core)
      BY <1>5 DEF ControlOf, PulledOut
    <2>2. entered.pc = IrqHandler
      BY <1>1, <2>1 DEF IrqHandler, Vbar1
    <2>3. Interruptible(context.pc, context.pstate)
      BY <1>2, <2>1 DEF ControlOf
    <2>4. IrqHandler # SmcHandler /\ IrqHandler \in El1Handlers
      BY DEF IrqHandler, SmcHandler, Vbar1, Vbar3, IrqOffset, SyncOffset, El1Handlers
    <2>5. ControlOf(entered, context)
      BY <1>1, <1>2, <1>3, <2>1, <2>2, <2>3, <2>4 DEF ControlOf
    <2> QED
      BY <1>1, <1>5, <2>2, <2>5 DEF entered, context
  <1> QED
    BY <1>4, <1>5, <1>1 DEF entered

(* A monitor call from the program.                                         *)
LEMMA SmcControl ==
  ASSUME NEW core \in CoreStates, ControlOf(core, Nothing), core.pc = 1
  PROVE  /\ Smc(core) \in CoreStates
         /\ ControlOf(Smc(core), Nothing)
         /\ Smc(core).pc = SmcHandler
  <1> DEFINE entered == Smc(core)
  <1>0. 1 \in Levels /\ 3 \in Levels /\ 2 \in Int /\ SyncOffset \in Int
    BY DEF Levels, SyncOffset
  <1>1. core.el \in {0, 1} /\ core.pstate = core.el
    BY DEF ControlOf, Interruptible, PulledOut, Program, SmcHandler, Vbar3, SyncOffset
  <1>2. /\ entered \in CoreStates
        /\ entered.el = 3 /\ entered.pstate = 3
        /\ entered.bank[3] = [pc |-> 2, pstate |-> core.pstate]
        /\ entered.bank[1] = core.bank[1]
        /\ entered.vbar = core.vbar
        /\ entered.pc = IF core.vbar[3] = 0 THEN core.pc ELSE core.vbar[3] + SyncOffset
    BY <1>0, EnterCore DEF Smc
  <1>3. entered.pc = SmcHandler
    BY <1>2 DEF ControlOf, SmcHandler, Vbar3
  <1>4. Interruptible(entered.pc, entered.el)
    BY <1>2, <1>3 DEF Interruptible
  <1> HIDE DEF entered
  <1>5. ControlOf(entered, Nothing)
    BY <1>1, <1>2, <1>4 DEF ControlOf
  <1> QED
    BY <1>2, <1>3, <1>5 DEF entered

(* A system call from the program.                                          *)
LEMMA SvcControl ==
  ASSUME NEW core \in CoreStates, ControlOf(core, Nothing), core.pc = 1,
         core.vbar[1] # 0
  PROVE  /\ Svc(core) \in CoreStates
         /\ ControlOf(Svc(core), [pc |-> 2, pstate |-> core.pstate])
         /\ Svc(core).pc = SvcHandler
  <1> DEFINE entered == Svc(core)
             context == [pc |-> 2, pstate |-> core.pstate]
  <1>0. 1 \in Levels /\ 3 \in Levels /\ 2 \in Int /\ SyncOffset \in Int
    BY DEF Levels, SyncOffset
  <1>1. core.el \in {0, 1} /\ core.pstate = core.el
    BY DEF ControlOf, Interruptible, PulledOut, Program, SmcHandler, Vbar3, SyncOffset
  <1>2. /\ entered \in CoreStates
        /\ entered.el = 1 /\ entered.pstate = 1
        /\ entered.bank[1] = context /\ entered.bank[3] = core.bank[3]
        /\ entered.vbar = core.vbar
        /\ entered.pc = IF core.vbar[1] = 0 THEN core.pc ELSE core.vbar[1] + SyncOffset
    BY <1>0, EnterCore DEF Svc
  <1>3. core.vbar[1] = Vbar1
    BY DEF ControlOf
  <1>4. entered.pc = SvcHandler
    BY <1>2, <1>3 DEF SvcHandler, Vbar1
  <1>5. SvcHandler # SmcHandler /\ SvcHandler \in El1Handlers
    BY DEF SvcHandler, SmcHandler, Vbar1, Vbar3, SyncOffset, El1Handlers
  <1>6. context.pc = 2 /\ context.pstate = core.pstate /\ context # Nothing
    BY DEF Nothing
  <1>7. Interruptible(context.pc, context.pstate)
    BY <1>1, <1>6 DEF Interruptible, Program
  <1>8. 2 # SmcHandler
    BY DEF SmcHandler, Vbar3, SyncOffset
  <1> HIDE DEF entered, context
  <1>9. ControlOf(entered, context)
    BY <1>2, <1>3, <1>4, <1>5, <1>6, <1>7, <1>8 DEF ControlOf
  <1> QED
    BY <1>2, <1>4, <1>9 DEF entered, context

(* Where a core is decides whether an EL1 handler runs.                     *)
LEMMA WhereControl ==
  ASSUME NEW core, NEW context, ControlOf(core, context)
  PROVE  /\ core.pc \in El1Handlers => context # Nothing
         /\ core.pc \in Program \cup {SmcHandler} => context = Nothing
         /\ core.pc = SmcHandler => core.pc \notin El1Handlers
         /\ core.pc \in Program => core.pc \notin El1Handlers
  BY DEF ControlOf, Interruptible, PulledOut, El1Handlers, Program, SvcHandler, IrqHandler,
     SmcHandler, Vbar1, Vbar3, SyncOffset, IrqOffset

(* ERET from a handler: an EL1 handler goes back to what it interrupted;    *)
(* the monitor goes back to the program.                                    *)
LEMMA EretControl ==
  ASSUME NEW core \in CoreStates, NEW context, ControlOf(core, context),
         core.pc \in El1Handlers \cup {SmcHandler}
  PROVE  /\ Eret(core) \in CoreStates
         /\ ControlOf(Eret(core), Nothing)
         /\ context # Nothing => /\ BankOf(core.el) = 1
                                 /\ Eret(core).pc = context.pc
                                 /\ Eret(core).pstate = context.pstate
         /\ Eret(core).pc \notin El1Handlers
  <1> DEFINE left  == Eret(core)
             saved == core.bank[BankOf(core.el)]
  <1>1. saved \in [pc : Int, pstate : ELs]
    BY DEF CoreStates, Levels, BankOf
  <1>2. /\ left \in CoreStates
        /\ left.pc = saved.pc /\ left.pstate = saved.pstate /\ left.el = saved.pstate
        /\ left.bank = core.bank /\ left.vbar = core.vbar
    <2> HIDE DEF saved
    <2>1. left = [core EXCEPT !.pc = saved.pc, !.pstate = saved.pstate,
                              !.el = saved.pstate]
      BY DEF Eret, saved
    <2> QED
      BY <1>1, <2>1 DEF CoreStates
  <1>3. /\ left.el = left.pstate
        /\ left.vbar[3] = Vbar3 /\ left.vbar[1] \in {0, Vbar1}
        /\ left.bank[3].pstate \in {0, 1}
    BY <1>2 DEF ControlOf
  <1>4. CASE context # Nothing
    <2>1. BankOf(core.el) = 1 /\ saved = context
      BY <1>4 DEF ControlOf, BankOf
    <2>2. left.pc = context.pc /\ left.pstate = context.pstate
      BY <1>2, <2>1
    <2>3. Interruptible(left.pc, left.el)
      BY <1>2, <1>4, <2>1 DEF ControlOf
    <2>4. left.pc = SmcHandler \/ left.bank[1].pc = SmcHandler => left.bank[3].pc = 2
      BY <1>2, <1>4, <2>2 DEF ControlOf
    <2>5. ControlOf(left, Nothing)
      BY <1>3, <2>3, <2>4 DEF ControlOf
    <2> QED
      BY <1>2, <2>1, <2>2, <2>3, <2>5
      DEF Interruptible, El1Handlers, Program, SvcHandler, IrqHandler,
          SmcHandler, Vbar1, Vbar3, SyncOffset, IrqOffset
  <1>5. CASE context = Nothing
    <2>1. core.pc = SmcHandler /\ core.bank[3].pc = 2
      BY <1>5, WhereControl DEF ControlOf
    <2>2. \/ core.el = 3 /\ saved = core.bank[3]
          \/ PulledOut(core) /\ saved = core.bank[1]
      BY <1>5, <2>1 DEF ControlOf, Interruptible, PulledOut, BankOf, Program,
         SmcHandler, Vbar3, SyncOffset
    <2>3. \/ Interruptible(left.pc, left.el)
          \/ PulledOut(left)
      <3>1. CASE core.el = 3 /\ saved = core.bank[3]
        BY <1>2, <2>1, <3>1 DEF ControlOf, Interruptible, Program
      <3>2. CASE PulledOut(core) /\ saved = core.bank[1]
        BY <1>2, <3>2 DEF PulledOut, Interruptible
      <3> QED
        BY <2>2, <3>1, <3>2
    <2>4. ControlOf(left, Nothing)
      BY <1>2, <1>3, <2>1, <2>3 DEF ControlOf
    <2>5. left.pc \notin El1Handlers
      BY <2>3 DEF Interruptible, PulledOut, El1Handlers, Program, SvcHandler, IrqHandler,
         SmcHandler, Vbar1, Vbar3, SyncOffset, IrqOffset
    <2> QED
      BY <1>2, <1>5, <2>4, <2>5
  <1> QED
    BY <1>4, <1>5

(* An instruction that only moves on, within the program or the handlers.   *)
LEMMA OnwardControl ==
  ASSUME NEW core \in CoreStates, NEW moved \in CoreStates, NEW context,
         ControlOf(core, context),
         moved.el = core.el, moved.pstate = core.pstate,
         moved.bank = core.bank, moved.vbar = core.vbar,
         \/ core.pc \in Program /\ moved.pc \in Program
         \/ core.pc \in El1Handlers /\ moved.pc \in El1Handlers
  PROVE  ControlOf(moved, context)
  <1>2. moved.pc # SmcHandler /\ (context = Nothing => core.pc \in Program)
    BY WhereControl
    DEF Program, El1Handlers, SvcHandler, IrqHandler, SmcHandler, Vbar1, Vbar3,
        SyncOffset, IrqOffset, ControlOf, Interruptible, PulledOut
  <1>3. CASE context = Nothing
    <2>1. Interruptible(core.pc, core.el) /\ moved.pc \in Program
      BY <1>2, <1>3, WhereControl
      DEF ControlOf, PulledOut, Program, SmcHandler, Vbar3, SyncOffset
    <2>2. Interruptible(moved.pc, moved.el)
      BY <1>2, <1>3, <2>1 DEF Interruptible, Program, SmcHandler, Vbar3, SyncOffset
    <2> QED
      BY <1>2, <1>3, <2>2 DEF ControlOf
  <1>4. CASE context # Nothing
    <2>1. moved.pc \in El1Handlers
      BY <1>4, WhereControl
    <2> QED
      BY <1>2, <1>4, <2>1 DEF ControlOf
  <1> QED
    BY <1>3, <1>4

LEMMA HandlerOnward ==
  ASSUME NEW core \in CoreStates, NEW context, ControlOf(core, context),
         core.pc \in {IrqHandler, IrqHandler + 1, IrqHandler + 2}
  PROVE  LET moved == [core EXCEPT !.pc = @ + 1]
         IN  moved \in CoreStates /\ ControlOf(moved, context) /\ moved.pc = core.pc + 1
  <1>1. core.pc \in El1Handlers /\ core.pc + 1 \in El1Handlers
    BY DEF El1Handlers, IrqHandler, Vbar1, IrqOffset
  <1> DEFINE moved == [core EXCEPT !.pc = @ + 1]
  <1>2. /\ moved \in CoreStates /\ moved.pc = core.pc + 1
        /\ moved.el = core.el /\ moved.pstate = core.pstate
        /\ moved.bank = core.bank /\ moved.vbar = core.vbar
    BY DEF CoreStates
  <1> HIDE DEF moved
  <1>3. ControlOf(moved, context)
    BY <1>1, <1>2, OnwardControl
  <1> QED
    BY <1>2, <1>3 DEF moved

-----------------------------------------------------------------------------
(* A step in which at most core c does something. *)

LEMMA CoreMoves ==
  ASSUME DeliveryInv, Inv', SingleRoute', NEW c \in Cores,
         turn' \in Cores, offered' \in BOOLEAN,
         cpu' \in [Cores -> CoreStates], x0' \in [Cores -> Int],
         awaited' \in [Cores -> [pc : Int, pstate : ELs]],
         \A d \in Cores : d # c => /\ cpu'[d] = cpu[d] /\ x0'[d] = x0[d]
                                   /\ awaited'[d] = awaited[d] /\ taken'[d] = taken[d]
                                   /\ Ready(d) # {} => Ready(d)' # {},
         ControlOf(cpu'[c], awaited'[c]),
         cpu'[c].pc \in {IrqHandler, IrqHandler + 1} => Ready(c)' # {},
         taken'[c] = IF cpu'[c].pc = IrqHandler + 2 THEN {x0'[c]} ELSE {}
  PROVE  DeliveryInv'
  <1>1. DeliveryTypeOK'
    BY DEF DeliveryTypeOK
  <1>2. ControlOK'
    BY DEF DeliveryInv, ControlOK
  <1>3. HandlersServed'
    BY DEF DeliveryInv, HandlersServed
  <1> QED
    BY <1>1, <1>2, <1>3 DEF DeliveryInv

(* The same when the interrupt controller is left alone.                    *)
LEMMA QuietMoves ==
  ASSUME DeliveryInv, UNCHANGED vars, UNCHANGED x0, NEW c \in Cores,
         turn' \in Cores, offered' \in BOOLEAN,
         NEW next \in CoreStates, cpu' = [cpu EXCEPT ![c] = next],
         NEW context \in [pc : Int, pstate : ELs],
         awaited' = [awaited EXCEPT ![c] = context],
         ControlOf(next, context),
         next.pc \in {IrqHandler, IrqHandler + 1} => Ready(c) # {},
         cpu[c].pc # IrqHandler + 2 /\ next.pc # IrqHandler + 2
  PROVE  DeliveryInv'
  <1>1. Inv' /\ SingleRoute'
    BY DEF DeliveryInv, DeliveryTypeOK, Inv, TypeOK, PrivateQuiet, SingleRoute, vars
  <1>2. \A d \in Cores : Ready(d)' = Ready(d)
    BY DEF Ready, ReadySpis, vars
  <1>3. /\ cpu' \in [Cores -> CoreStates] /\ x0' \in [Cores -> Int]
        /\ awaited' \in [Cores -> [pc : Int, pstate : ELs]]
        /\ cpu'[c] = next /\ awaited'[c] = context
        /\ \A d \in Cores : d # c => cpu'[d] = cpu[d] /\ awaited'[d] = awaited[d]
    BY DEF DeliveryInv, DeliveryTypeOK
  <1>4. taken' = taken /\ taken[c] = {}
    BY DEF DeliveryInv, HandlersServed, vars
  <1> QED
    BY <1>1, <1>2, <1>3, <1>4, CoreMoves

-----------------------------------------------------------------------------
(* The actions. *)

(* Software of IrqDelivery touches the controller only as Gic allows.       *)
LEMMA DeliveryStepsAreGicSteps == DeliveryInv /\ [NextDelivery]_allVars => [Next]_vars
  <1> SUFFICES ASSUME DeliveryInv, [NextDelivery]_allVars PROVE [Next]_vars
    OBVIOUS
  <1>1. ASSUME NEW irq \in Spis, Raise(irq) PROVE Next
    BY <1>1 DEF Raise, Next, Direct
  <1>2. CASE Offer
    BY <1>2 DEF Offer
  <1>3. CASE Step
    <2>1. turn \in Cores
      BY DEF DeliveryInv, DeliveryTypeOK
    <2>2. CASE ProgramStep(turn) \/ Prologue(turn) \/ Return(turn)
      BY <2>2 DEF ProgramStep, Prologue, Return
    <2>3. CASE LoadIar(turn)
      BY <2>1, <2>3 DEF LoadIar, Next
    <2>4. CASE StoreEoir(turn)
      <3>1. x0[turn] \in Spis
        BY <2>1, <2>4 DEF StoreEoir, DeliveryInv, DeliveryTypeOK, HandlersServed, Inv, TypeOK
      <3> QED
        BY <2>1, <2>4, <3>1 DEF StoreEoir, Next, Direct
    <2> QED
      BY <1>3, <2>2, <2>3, <2>4 DEF Step
  <1>4. CASE UNCHANGED allVars
    BY <1>4 DEF allVars, vars
  <1> QED
    BY <1>1, <1>2, <1>3, <1>4 DEF NextDelivery

LEMMA RaiseOK == ASSUME DeliveryInv, NEW irq \in Spis, Raise(irq) PROVE DeliveryInv'
  <1>0. dist \in Distributor
    BY DEF DeliveryInv, DeliveryTypeOK, Inv, TypeOK
  <1>1. dist' = [dist EXCEPT !.pending = @ \cup {irq}] /\ UNCHANGED <<local, taken>>
    BY DEF Raise, Trigger
  <1>2. Inv'
    BY InvNext DEF DeliveryInv, DeliveryTypeOK, Raise, Next, Direct
  <1>3. SingleRoute'
    BY <1>0, <1>1 DEF DeliveryInv, SingleRoute, Distributor
  <1>4. \A c \in Cores : Ready(c) \subseteq Ready(c)'
    BY <1>0, <1>1 DEF Ready, ReadySpis, Passes, Distributor
  <1>5. /\ cpu' = cpu /\ x0' = x0 /\ awaited' = awaited
        /\ turn' = turn /\ offered' = offered
    BY DEF Raise, coreVars, loopVars, DeliveryInv, DeliveryTypeOK
  <1>6. ControlOK' /\ HandlersServed'
    BY <1>1, <1>4, <1>5 DEF DeliveryInv, ControlOK, HandlersServed
  <1>7. DeliveryTypeOK'
    BY <1>2, <1>5 DEF DeliveryInv, DeliveryTypeOK
  <1> QED
    BY <1>3, <1>6, <1>7 DEF DeliveryInv

(* deliver_irq: the handler is entered when there is an interrupt for it.   *)
LEMMA OfferOK == ASSUME DeliveryInv, Offer PROVE DeliveryInv'
  <1> DEFINE c    == turn
             core == cpu[c]
  <1>0. /\ c \in Cores /\ core \in CoreStates /\ ControlOf(core, awaited[c])
        /\ cpu \in [Cores -> CoreStates]
        /\ awaited \in [Cores -> [pc : Int, pstate : ELs]]
    BY DEF DeliveryInv, DeliveryTypeOK, ControlOK
  <1>1. /\ UNCHANGED vars
        /\ turn' \in Cores /\ offered' \in BOOLEAN
    BY DEF Offer, DeliveryInv, DeliveryTypeOK
  <1>2. UNCHANGED x0
    BY DEF Offer, DeliverIrq, coreVars
  <1>3. CASE UNCHANGED coreVars
    <2>1. Inv' /\ SingleRoute'
      BY <1>1 DEF DeliveryInv, DeliveryTypeOK, Inv, TypeOK, PrivateQuiet, SingleRoute, vars
    <2>2. \A d \in Cores : Ready(d)' = Ready(d)
      BY <1>1 DEF Ready, ReadySpis, vars
    <2> QED
      BY <1>1, <1>3, <2>1, <2>2
      DEF DeliveryInv, DeliveryTypeOK, ControlOK, HandlersServed, coreVars, vars
  <1>4. CASE ~ UNCHANGED coreVars
    <2>1. awaited[c] = Nothing /\ DeliverIrq(c) /\ BestFor(c) # {}
      BY <1>4 DEF Offer, DeliverIrq, coreVars
    <2>2. Ready(c) # {}
      BY <2>1 DEF BestFor, Peeked, Best, Ready
    <2>3. cpu' = [cpu EXCEPT ![c] = Irq(core)] /\ Irq(core) \in CoreStates
      BY <1>0, <2>1, IrqControl DEF DeliverIrq
    <2>4. core.pc \notin El1Handlers
      BY <1>0, <2>1, WhereControl
    <2>5. /\ {IrqHandler, IrqHandler + 1, IrqHandler + 2} \subseteq El1Handlers
          /\ IrqHandler # IrqHandler + 2
      BY DEF El1Handlers, IrqHandler, Vbar1, IrqOffset
    <2> HIDE DEF c, core
    <2>6. CASE core.vbar[1] = 0
      <3>1. awaited' = [awaited EXCEPT ![c] = Nothing]
        BY <1>0, <2>1, <2>6 DEF DeliverIrq, core
      <3>2. ControlOf(Irq(core), Nothing) /\ Irq(core).pc = core.pc
        BY <1>0, <2>1, <2>6, IrqControl
      <3>3. Nothing \in [pc : Int, pstate : ELs]
        BY DEF Nothing, ELs
      <3> QED
        BY <1>0, <1>1, <1>2, <2>3, <2>4, <2>5, <3>1, <3>2, <3>3, QuietMoves DEF core
    <2>7. CASE core.vbar[1] # 0
      <3> DEFINE context == [pc |-> core.pc, pstate |-> core.pstate]
      <3>1. awaited' = [awaited EXCEPT ![c] = context]
        BY <2>1, <2>7 DEF DeliverIrq, core
      <3>2. ControlOf(Irq(core), context) /\ Irq(core).pc = IrqHandler
        BY <1>0, <2>1, <2>7, IrqControl
      <3>3. context \in [pc : Int, pstate : ELs]
        BY <1>0 DEF CoreStates
      <3> HIDE DEF context
      <3> QED
        BY <1>0, <1>1, <1>2, <2>2, <2>3, <2>4, <2>5, <3>1, <3>2, <3>3, QuietMoves DEF core
    <2> QED
      BY <2>6, <2>7
  <1> QED
    BY <1>3, <1>4

(* The round robin stays among the cores.                                   *)
LEMMA TurnOK ==
  ASSUME DeliveryInv, Step
  PROVE  turn' \in Cores /\ offered' \in BOOLEAN
  <1>1. PICK n \in 0 .. 7 : Cores = 0 .. n
    BY DeliveryAssumption
  <1>2. Cardinality(Cores) = n + 1
    BY <1>1, FS_Interval
  <1>3. turn \in 0 .. n
    BY <1>1 DEF DeliveryInv, DeliveryTypeOK
  <1>4. turn' = (turn + 1) % (n + 1)
    BY <1>2 DEF Step
  <1>5. \A a, m \in Nat : m > 0 => a % m \in 0 .. m - 1
    OBVIOUS
  <1>6. (turn + 1) % (n + 1) \in 0 .. n
    <2>1. turn + 1 \in Nat /\ n + 1 \in Nat /\ n + 1 > 0 /\ (n + 1) - 1 = n
      BY <1>3
    <2> QED
      BY <1>5, <2>1
  <1> QED
    BY <1>1, <1>3, <1>4, <1>6 DEF Step

LEMMA ProgramStepOK == ASSUME DeliveryInv, Step, ProgramStep(turn) PROVE DeliveryInv'
  <1> DEFINE c    == turn
             core == cpu[c]
  <1>0. /\ c \in Cores /\ core \in CoreStates /\ ControlOf(core, awaited[c])
        /\ awaited \in [Cores -> [pc : Int, pstate : ELs]]
    BY DEF DeliveryInv, DeliveryTypeOK, ControlOK
  <1>1. turn' \in Cores /\ offered' \in BOOLEAN
    BY TurnOK
  <1>2. core.pc \in Program /\ UNCHANGED vars /\ UNCHANGED x0
    BY DEF ProgramStep
  <1>3. awaited[c] = Nothing
    BY <1>0, <1>2, WhereControl
  <1>4. core.pc # IrqHandler + 2
    BY <1>2 DEF Program, IrqHandler, Vbar1, IrqOffset
  <1>5. Nothing \in [pc : Int, pstate : ELs]
    BY DEF Nothing, ELs
  <1> HIDE DEF c, core
  <1>6. ASSUME NEW masked \in BOOLEAN, UNCHANGED awaited,
               cpu' = [cpu EXCEPT ![c] = [core EXCEPT !.pc = 3 - core.pc,
                                                      !.irq_masked = masked]]
        PROVE  DeliveryInv'
    <2> DEFINE moved == [core EXCEPT !.pc = 3 - core.pc, !.irq_masked = masked]
    <2>1. 3 - core.pc \in Int /\ 3 - core.pc \in Program
      BY <1>2 DEF Program
    <2>2. moved \in CoreStates /\ ControlOf(moved, Nothing) /\ moved.pc = 3 - core.pc
      <3>1. /\ moved \in CoreStates /\ moved.pc = 3 - core.pc
            /\ moved.el = core.el /\ moved.pstate = core.pstate
            /\ moved.bank = core.bank /\ moved.vbar = core.vbar
        BY <1>0, <2>1 DEF CoreStates
      <3> HIDE DEF moved
      <3> QED
        BY <1>0, <1>2, <1>3, <2>1, <3>1, OnwardControl
    <2>3. moved.pc \notin {IrqHandler, IrqHandler + 1, IrqHandler + 2}
      BY <2>1, <2>2 DEF Program, IrqHandler, Vbar1, IrqOffset
    <2>4. awaited' = [awaited EXCEPT ![c] = Nothing]
      BY <1>0, <1>3, <1>6
    <2>5. cpu' = [cpu EXCEPT ![c] = moved]
      BY <1>6
    <2> HIDE DEF moved
    <2> QED
      BY <1>0, <1>1, <1>2, <1>4, <1>5, <2>2, <2>3, <2>4, <2>5, QuietMoves DEF core
  <1>7. CASE Moves(c, [core EXCEPT !.pc = 3 - @]) /\ UNCHANGED awaited
    <2>1. core.irq_masked \in BOOLEAN
      BY <1>0 DEF CoreStates
    <2>2. [core EXCEPT !.pc = 3 - @]
            = [core EXCEPT !.pc = 3 - core.pc, !.irq_masked = core.irq_masked]
      BY <1>0 DEF CoreStates
    <2> QED
      BY <1>6, <1>7, <2>1, <2>2 DEF Moves
  <1>8. ASSUME NEW masked \in MaskWrites, UNCHANGED awaited,
               Moves(c, [core EXCEPT !.pc = 3 - @, !.irq_masked = masked])
        PROVE  DeliveryInv'
    <2>1. masked \in BOOLEAN
      BY DeliveryAssumption
    <2> QED
      BY <1>6, <1>8, <2>1 DEF Moves
  <1>9. CASE core.pc = 1 /\ Moves(c, Smc(core)) /\ UNCHANGED awaited
    <2>1. Smc(core) \in CoreStates /\ ControlOf(Smc(core), Nothing)
          /\ Smc(core).pc = SmcHandler
      BY <1>0, <1>3, <1>9, SmcControl
    <2>2. SmcHandler \notin {IrqHandler, IrqHandler + 1, IrqHandler + 2}
      BY DEF SmcHandler, IrqHandler, Vbar1, Vbar3, SyncOffset, IrqOffset
    <2>3. awaited' = [awaited EXCEPT ![c] = Nothing]
      BY <1>0, <1>3, <1>9
    <2>4. cpu' = [cpu EXCEPT ![c] = Smc(core)]
      BY <1>9 DEF Moves
    <2> QED
      BY <1>0, <1>1, <1>2, <1>4, <1>5, <2>1, <2>2, <2>3, <2>4, QuietMoves DEF core
  <1>10. CASE /\ core.pc = 1 /\ core.vbar[1] # 0
              /\ Moves(c, Svc(core))
              /\ awaited' = [awaited EXCEPT ![c] = [pc |-> 2, pstate |-> core.pstate]]
    <2> DEFINE context == [pc |-> 2, pstate |-> core.pstate]
    <2>1. Svc(core) \in CoreStates /\ ControlOf(Svc(core), context)
          /\ Svc(core).pc = SvcHandler
      BY <1>0, <1>3, <1>10, SvcControl
    <2>2. SvcHandler \notin {IrqHandler, IrqHandler + 1, IrqHandler + 2}
      BY DEF SvcHandler, IrqHandler, Vbar1, SyncOffset, IrqOffset
    <2>3. context \in [pc : Int, pstate : ELs] /\ awaited' = [awaited EXCEPT ![c] = context]
      BY <1>0, <1>10 DEF CoreStates
    <2>4. cpu' = [cpu EXCEPT ![c] = Svc(core)]
      BY <1>10 DEF Moves
    <2> HIDE DEF context
    <2> QED
      BY <1>0, <1>1, <1>2, <1>4, <2>1, <2>2, <2>3, <2>4, QuietMoves DEF core
  <1> QED
    BY <1>7, <1>8, <1>9, <1>10 DEF ProgramStep, c, core

LEMMA PrologueOK == ASSUME DeliveryInv, Step, Prologue(turn) PROVE DeliveryInv'
  <1> DEFINE c     == turn
             core  == cpu[c]
             moved == [core EXCEPT !.pc = @ + 1]
  <1>0. /\ c \in Cores /\ core \in CoreStates /\ ControlOf(core, awaited[c])
        /\ awaited \in [Cores -> [pc : Int, pstate : ELs]]
    BY DEF DeliveryInv, DeliveryTypeOK, ControlOK
  <1>1. turn' \in Cores /\ offered' \in BOOLEAN
    BY TurnOK
  <1>2. core.pc = IrqHandler /\ UNCHANGED vars /\ UNCHANGED <<x0, awaited>>
    BY DEF Prologue
  <1>3. IrqHandler # IrqHandler + 2 /\ IrqHandler + 1 # IrqHandler + 2
    BY DEF IrqHandler, Vbar1, IrqOffset
  <1>4. cpu' = [cpu EXCEPT ![c] = moved]
    BY DEF Prologue, Moves
  <1> HIDE DEF core
  <1>5. moved \in CoreStates /\ ControlOf(moved, awaited[c]) /\ moved.pc = IrqHandler + 1
    BY <1>0, <1>2, HandlerOnward
  <1>6. Ready(c) # {}
    BY <1>0, <1>2 DEF DeliveryInv, HandlersServed, core
  <1>7. awaited' = [awaited EXCEPT ![c] = awaited[c]] /\ awaited[c] \in [pc : Int, pstate : ELs]
    BY <1>0, <1>2
  <1> HIDE DEF c, moved
  <1> QED
    BY <1>0, <1>1, <1>2, <1>3, <1>4, <1>5, <1>6, <1>7, QuietMoves DEF core

(* The read of IAR: what peek_pending_irq saw at the entry, or something    *)
(* more urgent, is still there, because no other core is served what is     *)
(* routed to this one.                                                      *)
LEMMA LoadIarOK ==
  ASSUME DeliveryInv, Step, LoadIar(turn)
  PROVE  /\ DeliveryInv'
         /\ \E irq \in Acknowledged(turn, turn) :
              /\ Acknowledge(turn, turn, irq)
              /\ x0' = [x0 EXCEPT ![turn] = irq]
  <1> DEFINE c     == turn
             core  == cpu[c]
             moved == [core EXCEPT !.pc = @ + 1]
  <1>0. /\ c \in Cores /\ core \in CoreStates /\ ControlOf(core, awaited[c])
        /\ cpu \in [Cores -> CoreStates] /\ x0 \in [Cores -> Int]
        /\ awaited \in [Cores -> [pc : Int, pstate : ELs]]
        /\ Inv /\ SingleRoute
    BY DEF DeliveryInv, DeliveryTypeOK, ControlOK
  <1>1. turn' \in Cores /\ offered' \in BOOLEAN
    BY TurnOK
  <1>2. core.pc = IrqHandler + 1 /\ ReadIar(c, c) /\ UNCHANGED awaited
        /\ cpu' = [cpu EXCEPT ![c] = moved]
    BY DEF LoadIar, Moves
  <1>3. /\ IrqHandler + 1 # IrqHandler + 2
        /\ (IrqHandler + 1) + 1 = IrqHandler + 2
        /\ IrqHandler + 2 # IrqHandler
    BY DEF IrqHandler, Vbar1, IrqOffset
  <1>4. taken[c] = {} /\ Ready(c) # {}
    BY <1>0, <1>2, <1>3 DEF DeliveryInv, HandlersServed
  <1>5. Acknowledged(c, c) # {}
    <2>1. Ready(c) \subseteq Spis
      BY <1>0, AcknowledgedIsPeeked DEF Ready
    <2>2. dist.prio \in [Spis -> 0 .. 255]
      BY <1>0 DEF Inv, TypeOK, Distributor
    <2>3. Best(Ready(c), dist.prio) # {}
      BY <1>4, <2>1, <2>2, BestExists
    <2> QED
      BY <1>0, <2>3, AcknowledgedIsPeeked DEF Peeked, Ready
  <1>6. PICK irq \in Acknowledged(c, c) : Acknowledge(c, c, irq)
    BY <1>2, <1>5 DEF ReadIar
  <1>7. /\ irq \in Spis /\ c \in dist.target[irq]
        /\ dist' = Activate(dist, irq) /\ local' = local
        /\ taken' = [taken EXCEPT ![c] = @ \cup {irq}]
    BY <1>0, <1>6, AcknowledgeStep
  <1>8. taken'[c] = {irq}
    BY <1>0, <1>4, <1>7 DEF Inv, TypeOK
  <1>9. x0' = [x0 EXCEPT ![c] = irq]
    <2>1. (CHOOSE i \in taken'[c] \ taken[c] : TRUE) = irq
      BY <1>4, <1>8
    <2> QED
      BY <1>4, <1>8, <2>1 DEF LoadIar
  <1>10. irq \in Int
    BY <1>7, GicAssumption
  <1>11. Inv'
    BY <1>0, <1>2, InvNext DEF Next, Direct
  <1>12. SingleRoute'
    BY <1>0, <1>7 DEF SingleRoute, Activate, Inv, TypeOK, Distributor
  <1>13. ASSUME NEW d \in Cores, d # c PROVE Ready(d) # {} => Ready(d)' # {}
    <2> SUFFICES ASSUME NEW i \in Ready(d) PROVE i \in Ready(d)'
      OBVIOUS
    <2>1. i \in Spis /\ i \in dist.enabled \cap dist.pending /\ d \in dist.target[i]
          /\ Passes(dist.prio, i, local[d][d].pmr)
      BY <1>0 DEF Ready, ReadySpis, Inv, TypeOK, Distributor
    <2>2. i # irq
      BY <1>0, <1>7, <1>13, <2>1 DEF SingleRoute
    <2>3. /\ dist'.enabled = dist.enabled /\ dist'.target = dist.target
          /\ dist'.prio = dist.prio /\ i \in dist'.pending
      BY <1>0, <1>7, <2>1, <2>2 DEF Activate, Inv, TypeOK, Distributor
    <2> QED
      BY <1>7, <2>1, <2>3 DEF Ready, ReadySpis, Passes
  <1> HIDE DEF core
  <1>14. moved \in CoreStates /\ ControlOf(moved, awaited[c]) /\ moved.pc = IrqHandler + 2
    BY <1>0, <1>2, <1>3, HandlerOnward
  <1> HIDE DEF moved
  <1>15. /\ cpu' \in [Cores -> CoreStates] /\ cpu'[c] = moved
         /\ \A d \in Cores : d # c => cpu'[d] = cpu[d]
    BY <1>0, <1>2, <1>14
  <1>16. /\ x0' \in [Cores -> Int] /\ x0'[c] = irq
         /\ \A d \in Cores : d # c => x0'[d] = x0[d] /\ taken'[d] = taken[d]
    BY <1>0, <1>7, <1>9, <1>10 DEF Inv, TypeOK
  <1>17. IrqHandler + 2 \notin {IrqHandler, IrqHandler + 1}
    BY <1>3
  <1> HIDE DEF c
  <1>18. DeliveryInv'
    BY <1>0, <1>1, <1>2, <1>8, <1>11, <1>12, <1>13, <1>14, <1>15, <1>16, <1>17, CoreMoves
  <1> QED
    BY <1>6, <1>9, <1>18 DEF c

LEMMA StoreEoirOK == ASSUME DeliveryInv, Step, StoreEoir(turn) PROVE DeliveryInv'
  <1> DEFINE c     == turn
             core  == cpu[c]
             moved == [core EXCEPT !.pc = @ + 1]
             irq   == x0[c]
  <1>0. /\ c \in Cores /\ core \in CoreStates /\ ControlOf(core, awaited[c])
        /\ cpu \in [Cores -> CoreStates] /\ x0 \in [Cores -> Int]
        /\ awaited \in [Cores -> [pc : Int, pstate : ELs]]
        /\ Inv /\ SingleRoute /\ taken \in [Cores -> SUBSET Spis]
    BY DEF DeliveryInv, DeliveryTypeOK, ControlOK, Inv, TypeOK
  <1>1. turn' \in Cores /\ offered' \in BOOLEAN
    BY TurnOK
  <1>2. core.pc = IrqHandler + 2 /\ WriteEoir(c, c, irq) /\ UNCHANGED <<x0, awaited>>
        /\ cpu' = [cpu EXCEPT ![c] = moved]
    BY DEF StoreEoir, Moves
  <1>3. /\ (IrqHandler + 2) + 1 = IrqHandler + 3
        /\ IrqHandler + 3 \notin {IrqHandler, IrqHandler + 1, IrqHandler + 2}
    BY DEF IrqHandler, Vbar1, IrqOffset
  <1>4. taken[c] = {irq} /\ irq \in Spis
    BY <1>0, <1>2 DEF DeliveryInv, HandlersServed
  <1>5. /\ dist' = [dist EXCEPT !.active = @ \ {irq}]
        /\ taken' = [taken EXCEPT ![c] = @ \ {irq}]
        /\ local' = local
    BY <1>2, <1>4, IdsApart DEF WriteEoir
  <1>6. Inv'
    <2>1. Next
      BY <1>0, <1>2, <1>4 DEF Next, Direct
    <2> QED
      BY <1>0, <2>1, InvNext
  <1>7. /\ dist'.enabled = dist.enabled /\ dist'.target = dist.target
        /\ dist'.prio = dist.prio /\ dist'.pending = dist.pending
    BY <1>0, <1>5 DEF Inv, TypeOK, Distributor
  <1>8. SingleRoute' /\ \A d \in Cores : Ready(d)' = Ready(d)
    BY <1>0, <1>5, <1>7 DEF SingleRoute, Ready, ReadySpis, Passes
  <1> HIDE DEF core, irq
  <1>9. moved \in CoreStates /\ ControlOf(moved, awaited[c]) /\ moved.pc = IrqHandler + 3
    BY <1>0, <1>2, <1>3, HandlerOnward
  <1> HIDE DEF moved
  <1>10. /\ cpu' \in [Cores -> CoreStates] /\ cpu'[c] = moved
         /\ \A d \in Cores : d # c => cpu'[d] = cpu[d] /\ taken'[d] = taken[d]
         /\ taken'[c] = {}
    BY <1>0, <1>2, <1>4, <1>5, <1>9
  <1> HIDE DEF c
  <1> QED
    BY <1>0, <1>1, <1>2, <1>3, <1>6, <1>8, <1>9, <1>10, CoreMoves

(* ERET from a handler.                                                     *)
LEMMA ReturnOK ==
  ASSUME DeliveryInv, Step, Return(turn)
  PROVE  /\ DeliveryInv'
         /\ awaited[turn] # Nothing => /\ cpu'[turn].pc = awaited[turn].pc
                                       /\ cpu'[turn].pstate = awaited[turn].pstate
         /\ \A d \in Cores : d # turn => awaited'[d] = awaited[d]
  <1> DEFINE c    == turn
             core == cpu[c]
             left == Eret(core)
  <1>0. /\ c \in Cores /\ core \in CoreStates /\ ControlOf(core, awaited[c])
        /\ cpu \in [Cores -> CoreStates]
        /\ awaited \in [Cores -> [pc : Int, pstate : ELs]]
    BY DEF DeliveryInv, DeliveryTypeOK, ControlOK
  <1>1. turn' \in Cores /\ offered' \in BOOLEAN
    BY TurnOK
  <1>2. /\ core.pc \in {SvcHandler, SmcHandler, IrqHandler + 3}
        /\ UNCHANGED vars /\ UNCHANGED x0
        /\ cpu' = [cpu EXCEPT ![c] = left]
        /\ awaited' = IF BankOf(core.el) = 1 THEN [awaited EXCEPT ![c] = Nothing]
                      ELSE awaited
    BY DEF Return, Moves
  <1>3. core.pc \in El1Handlers \cup {SmcHandler}
    BY <1>2 DEF El1Handlers
  <1>4. core.pc # IrqHandler + 2
    BY <1>2 DEF SvcHandler, SmcHandler, IrqHandler, Vbar1, Vbar3, SyncOffset, IrqOffset
  <1>5. {IrqHandler, IrqHandler + 1, IrqHandler + 2} \subseteq El1Handlers
    BY DEF El1Handlers
  <1> HIDE DEF core
  <1>6. /\ left \in CoreStates /\ ControlOf(left, Nothing)
        /\ left.pc \notin El1Handlers
        /\ awaited[c] # Nothing => /\ BankOf(core.el) = 1
                                   /\ left.pc = awaited[c].pc
                                   /\ left.pstate = awaited[c].pstate
    BY <1>0, <1>3, EretControl
  <1> HIDE DEF left
  <1>7. awaited' = [awaited EXCEPT ![c] = Nothing]
    <2>1. CASE BankOf(core.el) = 1
      BY <1>2, <2>1
    <2>2. CASE BankOf(core.el) # 1
      BY <1>0, <1>2, <1>6, <2>2
    <2> QED
      BY <2>1, <2>2
  <1>8. Nothing \in [pc : Int, pstate : ELs]
    BY DEF Nothing, ELs
  <1>9. cpu'[c] = left
    BY <1>0, <1>2
  <1> HIDE DEF c
  <1>10. DeliveryInv'
    BY <1>0, <1>1, <1>2, <1>4, <1>5, <1>6, <1>7, <1>8, QuietMoves DEF core
  <1> QED
    BY <1>0, <1>6, <1>7, <1>9, <1>10 DEF c

LEMMA DeliveryInit == InitDelivery => DeliveryInv
  <1> SUFFICES ASSUME InitDelivery PROVE DeliveryInv
    OBVIOUS
  <1>1. PICK prio \in [Spis -> Prios], to \in [Spis -> Cores] :
          dist = [NewDistributor EXCEPT !.enabled = Spis, !.prio = prio,
                                        !.target = [irq \in Spis |-> {to[irq]}]]
    BY DEF InitDelivery
  <1>2. /\ dist.enabled = Spis /\ dist.pending = {} /\ dist.active = {}
        /\ dist.prio = prio /\ dist.target = [irq \in Spis |-> {to[irq]}]
        /\ dist \in Distributor
    <2>1. Prios \subseteq 0 .. 255
      BY GicAssumption
    <2>2. prio \in [Spis -> 0 .. 255]
      BY <2>1
    <2>3. dist = [enabled |-> Spis, pending |-> {}, active |-> {},
                  prio |-> prio, target |-> [irq \in Spis |-> {to[irq]}]]
      BY <1>1 DEF NewDistributor
    <2>4. [irq \in Spis |-> {to[irq]}] \in [Spis -> SUBSET Cores]
      OBVIOUS
    <2> QED
      BY <2>2, <2>3, <2>4 DEF Distributor
  <1>3. PICK pmr \in Masks :
          local = [d \in Cores |-> [f \in Cores |->
                     IF f = d THEN [NewFrame EXCEPT !.pmr = pmr] ELSE NewFrame]]
    BY DEF InitDelivery
  <1>4. /\ NewFrame \in Frame /\ NewFrame.pending = {}
        /\ [NewFrame EXCEPT !.pmr = pmr] \in Frame
        /\ [NewFrame EXCEPT !.pmr = pmr].pending = {}
    BY GicAssumption DEF NewFrame, Frame, Lowest
  <1>5. Inv
    <2>1. local \in [Cores -> [Cores -> Frame]] /\ PrivateQuiet
      BY <1>3, <1>4 DEF PrivateQuiet
    <2> QED
      BY <1>2, <2>1 DEF InitDelivery, Inv, TypeOK
  <1>6. SingleRoute
    BY <1>2 DEF SingleRoute
  <1>7. PICK vbar \in {0, Vbar1} : cpu = [c \in Cores |-> BootedCore(1, c % 2, vbar)]
    BY DEF InitDelivery
  <1>8. ASSUME NEW c \in Cores
        PROVE  /\ cpu[c] \in CoreStates /\ cpu[c].pc = 1
               /\ ControlOf(cpu[c], Nothing)
    <2> DEFINE core == cpu[c]
    <2>1. c % 2 \in {0, 1}
      BY GicAssumption
    <2>2. core = [pc |-> 1, pstate |-> c % 2, el |-> c % 2,
                  bank |-> [l \in Levels |-> [pc |-> 0, pstate |-> 0]],
                  vbar |-> [l \in Levels |-> IF l = 1 THEN vbar ELSE Vbar3],
                  irq_masked |-> FALSE]
      BY <1>7 DEF BootedCore, NewCore
    <2>3. /\ [l \in Levels |-> [pc |-> 0, pstate |-> 0]]
               \in [Levels -> [pc : Int, pstate : ELs]]
          /\ [l \in Levels |-> IF l = 1 THEN vbar ELSE Vbar3]
               \in [Levels -> {0, Vbar1, Vbar3}]
          /\ c % 2 \in ELs
      BY <1>7, <2>1 DEF ELs
    <2>4. core \in CoreStates
      BY <2>2, <2>3 DEF CoreStates
    <2>5. /\ core.pc = 1 /\ core.pstate = c % 2 /\ core.el = c % 2
          /\ core.bank[3].pstate = 0 /\ core.bank[1].pc = 0
          /\ core.vbar[3] = Vbar3 /\ core.vbar[1] = vbar
      BY <2>2 DEF Levels
    <2> HIDE DEF core
    <2>6. Interruptible(core.pc, core.el)
      BY <2>1, <2>5 DEF Interruptible, Program
    <2>7. ControlOf(core, Nothing)
      BY <2>5, <2>6 DEF ControlOf, SmcHandler, Vbar3, SyncOffset
    <2> QED
      BY <2>4, <2>5, <2>7 DEF core
  <1>9. /\ x0 = [c \in Cores |-> 0] /\ awaited = [c \in Cores |-> Nothing]
        /\ taken = [c \in Cores |-> {}]
        /\ turn = 0 /\ offered = FALSE
    BY DEF InitDelivery
  <1>10. Nothing \in [pc : Int, pstate : ELs]
    BY DEF Nothing, ELs
  <1>11. cpu \in [Cores -> CoreStates]
    <2>1. cpu = [c \in Cores |-> cpu[c]]
      BY <1>7
    <2> QED
      BY <1>8, <2>1
  <1>12. DeliveryTypeOK
    <2>1. 0 \in Cores /\ x0 \in [Cores -> Int]
      BY <1>9, GicAssumption
    <2>2. awaited \in [Cores -> [pc : Int, pstate : ELs]]
      BY <1>9, <1>10
    <2> QED
      BY <1>5, <1>9, <1>11, <2>1, <2>2 DEF DeliveryTypeOK
  <1>13. ControlOK
    BY <1>8, <1>9 DEF ControlOK
  <1>14. HandlersServed
    BY <1>8, <1>9 DEF HandlersServed, IrqHandler, Vbar1, IrqOffset
  <1> QED
    BY <1>6, <1>12, <1>13, <1>14 DEF DeliveryInv

LEMMA DeliveryNext == DeliveryInv /\ [NextDelivery]_allVars => DeliveryInv'
  <1> SUFFICES ASSUME DeliveryInv, [NextDelivery]_allVars PROVE DeliveryInv'
    OBVIOUS
  <1>1. CASE Step
    BY <1>1, ProgramStepOK, PrologueOK, LoadIarOK, StoreEoirOK, ReturnOK DEF Step
  <1>2. CASE UNCHANGED allVars
    <2>1. \A c \in Cores : Ready(c)' = Ready(c)
      BY <1>2 DEF allVars, Ready, ReadySpis
    <2> QED
      BY <1>2, <2>1
      DEF allVars, coreVars, loopVars, DeliveryInv, DeliveryTypeOK, Inv, TypeOK,
          PrivateQuiet, SingleRoute, ControlOK, HandlersServed
  <1> QED
    BY <1>1, <1>2, RaiseOK, OfferOK DEF NextDelivery

-----------------------------------------------------------------------------
(* What it is all for. *)

(* A handler that deliver_irq has entered never reads the spurious id from  *)
(* its IAR: between the peek of the control loop and the handler's read no  *)
(* other core can take the interrupt away.                                  *)
THEOREM EnteredHandlersAreServed == SpecDelivery => []DeliveryIsServed
  <1>1. DeliveryInv => DeliveryIsServed
    <2> SUFFICES ASSUME DeliveryInv, NEW c \in Cores, cpu[c].pc = IrqHandler + 2
                 PROVE  x0[c] # Spurious
      BY DEF DeliveryIsServed
    <2>1. taken[c] = {x0[c]} /\ taken[c] \subseteq Spis
      BY DEF DeliveryInv, HandlersServed, DeliveryTypeOK, Inv, TypeOK
    <2> QED
      BY <2>1, IdsApart
  <1> QED
    BY <1>1, DeliveryInit, DeliveryNext, PTL DEF SpecDelivery

Resumes ==
  \A c \in Cores :
    awaited[c] # Nothing /\ awaited'[c] = Nothing
    => cpu'[c].pc = awaited[c].pc /\ cpu'[c].pstate = awaited[c].pstate

(* A core comes back from an EL1 handler to the instruction and the level   *)
(* the interrupt or system call found it at, out of the monitor too: one    *)
(* ELR and one SPSR per level are enough for software of this shape.        *)
THEOREM HandlersResumeInterrupted == SpecDelivery => ResumesInterrupted
  <1>1. DeliveryInv /\ [NextDelivery]_allVars => [Resumes]_allVars
    <2> SUFFICES ASSUME DeliveryInv, NextDelivery, NEW c \in Cores,
                        awaited[c] # Nothing, awaited'[c] = Nothing
                 PROVE  cpu'[c].pc = awaited[c].pc /\ cpu'[c].pstate = awaited[c].pstate
      BY DEF Resumes
    <2>0. turn \in Cores /\ awaited \in [Cores -> [pc : Int, pstate : ELs]]
          /\ ControlOf(cpu[turn], awaited[turn])
      BY DEF DeliveryInv, DeliveryTypeOK, ControlOK
    <2>1. awaited' # awaited
      OBVIOUS
    <2>2. ~ Offer
      <3> SUFFICES ASSUME Offer PROVE FALSE
        OBVIOUS
      <3>1. awaited[turn] = Nothing
        BY <2>1 DEF Offer, coreVars
      <3> QED
        BY <2>0, <2>1, <3>1 DEF Offer, DeliverIrq, coreVars
    <2>3. \A irq : ~ Raise(irq)
      BY <2>1 DEF Raise, coreVars
    <2>4. Step
      BY <2>2, <2>3 DEF NextDelivery
    <2>5. ~ Prologue(turn) /\ ~ LoadIar(turn) /\ ~ StoreEoir(turn)
      BY <2>1 DEF Prologue, LoadIar, StoreEoir
    <2>6. ~ ProgramStep(turn)
      <3> SUFFICES ASSUME ProgramStep(turn) PROVE FALSE
        OBVIOUS
      <3>1. awaited[turn] = Nothing
        BY <2>0, WhereControl DEF ProgramStep
      <3>2. c # turn
        BY <3>1
      <3> QED
        BY <2>0, <2>1, <3>2 DEF ProgramStep
    <2>7. Return(turn)
      BY <2>4, <2>5, <2>6 DEF Step
    <2>8. c = turn
      BY <2>4, <2>7, ReturnOK
    <2> QED
      BY <2>4, <2>7, <2>8, ReturnOK
  <1> QED
    BY <1>1, DeliveryInit, DeliveryNext, PTL DEF SpecDelivery, ResumesInterrupted, Resumes

-----------------------------------------------------------------------------
(* The running system keeps what the controller alone promises only to      *)
(* software with discipline. *)

HandledInv == DeliveryInv /\ ActiveIsHandled

LEMMA HandledIsRuled == HandledInv => RuledInv
  BY DEF HandledInv, DeliveryInv, DeliveryTypeOK, RuledInv

LEMMA HandledInit == InitDelivery => HandledInv /\ Lines!Init
  <1> SUFFICES ASSUME InitDelivery PROVE HandledInv /\ Lines!Init
    OBVIOUS
  <1>1. dist.pending = {} /\ dist.active = {} /\ taken = [c \in Cores |-> {}]
    BY DEF InitDelivery, NewDistributor
  <1> QED
    BY <1>1, DeliveryInit DEF HandledInv, ActiveIsHandled, Lines!Init

(* A step of the system is a step of InterruptLines, or changes none of its *)
(* variables.                                                               *)
LEMMA HandledNext ==
  HandledInv /\ [NextDelivery]_allVars => HandledInv' /\ [Lines!Next]_(Lines!vars)
  <1> SUFFICES ASSUME HandledInv, [NextDelivery]_allVars
               PROVE  ActiveIsHandled' /\ (Lines!Next \/ UNCHANGED Lines!vars)
    BY DeliveryNext DEF HandledInv
  <1>0. /\ DeliveryInv' /\ DeliveryInv /\ RuledInv /\ Inv' /\ turn \in Cores
        /\ dist \in Distributor /\ taken \in [Cores -> SUBSET Spis]
    BY DeliveryNext, HandledIsRuled
    DEF HandledInv, DeliveryInv, DeliveryTypeOK, Inv, TypeOK
  <1>1. CASE UNCHANGED vars
    BY <1>0, <1>1 DEF vars, RuledInv, ActiveIsHandled, Lines!vars
  <1>2. ASSUME NEW irq \in Spis, Raise(irq)
        PROVE  ActiveIsHandled' /\ Lines!Next
    <2>1. /\ dist'.pending = dist.pending \cup {irq}
          /\ dist'.target = dist.target /\ dist'.active = dist.active /\ taken' = taken
      BY <1>0, <1>2 DEF Raise, Trigger, Distributor
    <2>2. Lines!Raise(irq)
      BY <2>1 DEF Lines!Raise
    <2> QED
      BY <1>0, <2>1, <2>2, RuledUnchanged DEF RuledInv, Lines!Next
  <1>3. CASE Step /\ LoadIar(turn)
    <2>1. PICK irq \in Acknowledged(turn, turn) : Acknowledge(turn, turn, irq)
      BY <1>0, <1>3, LoadIarOK
    <2>2. taken[turn] = {}
      <3>1. IrqHandler + 1 # IrqHandler + 2
        BY DEF IrqHandler, Vbar1, IrqOffset
      <3> QED
        BY <1>0, <1>3, <3>1 DEF LoadIar, DeliveryInv, HandlersServed
    <2>3. irq \notin dist.active /\ RuledInv'
      BY <1>0, <2>1, <2>2, RuledTake
    <2>4. /\ irq \in Spis \cap dist.pending
          /\ dist' = Activate(dist, irq)
          /\ taken' = [taken EXCEPT ![turn] = @ \cup {irq}]
      BY <1>0, <2>1, AcknowledgeStep DEF RuledInv
    <2>5. Lines!Take(turn, irq)
      BY <1>0, <2>3, <2>4 DEF Lines!Take, Activate, Distributor
    <2> QED
      BY <1>0, <2>3, <2>4, <2>5 DEF RuledInv, Lines!Next
  <1>4. CASE Step /\ StoreEoir(turn)
    <2>1. taken[turn] = {x0[turn]} /\ WriteEoir(turn, turn, x0[turn])
      BY <1>0, <1>4 DEF StoreEoir, DeliveryInv, HandlersServed
    <2>2. /\ dist' = [dist EXCEPT !.active = @ \ {x0[turn]}]
          /\ taken' = [taken EXCEPT ![turn] = @ \ {x0[turn]}]
          /\ RuledInv'
      BY <1>0, <2>1, RuledFinish
    <2>3. Lines!Finish(turn, x0[turn]) /\ x0[turn] \in Spis
      BY <1>0, <2>1, <2>2 DEF Lines!Finish, Distributor
    <2> QED
      BY <1>0, <2>2, <2>3 DEF RuledInv, Lines!Next
  <1>5. CASE Step /\ ~ LoadIar(turn) /\ ~ StoreEoir(turn)
    BY <1>1, <1>5 DEF Step, ProgramStep, Prologue, Return
  <1>6. CASE Offer
    BY <1>1, <1>6 DEF Offer
  <1>7. CASE UNCHANGED allVars
    BY <1>1, <1>7 DEF allVars, vars
  <1> QED
    BY <1>2, <1>3, <1>4, <1>5, <1>6, <1>7 DEF NextDelivery

(* An interrupt that is active is in the hands of the core it is routed to, *)
(* and of no other, in the running system.                                  *)
THEOREM DeliveredToItsCore == SpecDelivery => []ActiveIsHandled
  <1>1. HandledInv => ActiveIsHandled
    BY DEF HandledInv
  <1> QED
    BY <1>1, HandledInit, HandledNext, PTL DEF SpecDelivery

(* Devices, control loop, handlers and controller together are              *)
(* InterruptLines: no interrupt is lost, taken twice, or taken by one core  *)
(* while another handles it.                                                *)
THEOREM DeliveryImplementsLines == SpecDelivery => ImplementsLines
  BY HandledInit, HandledNext, PTL DEF SpecDelivery, ImplementsLines, Lines!Spec

(* No trigger is lost in the running system: the pending bit of an          *)
(* interrupt falls only in the hands of the core it is routed to.           *)
THEOREM DeliveryLosesNoTrigger == SpecDelivery => TriggerKept
  <1>1. DeliveryInv /\ [NextDelivery]_allVars => [KeepsTriggers]_vars
    BY DeliveryStepsAreGicSteps, TriggerStep DEF DeliveryInv, DeliveryTypeOK
  <1> QED
    BY <1>1, DeliveryInit, DeliveryNext, PTL DEF SpecDelivery, TriggerKept, KeepsTriggers
=============================================================================
