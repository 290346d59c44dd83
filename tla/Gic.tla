---------------------------------- MODULE Gic ----------------------------------
(***************************************************************************)
(* The GICv3 model (core/src/mmio/gic.rs) as CpuManager wires it: one      *)
(* distributor shared by all cores, and for every core a device of its own *)
(* that holds a private copy of ALL redistributors and CPU interfaces.     *)
(* The address of an access, not the core that makes it, selects the       *)
(* frame: local[d][f] is frame f in the device of core d.                  *)
(*                                                                         *)
(* Registers that no other operation reads (CTLR, TYPER, IGROUPR, ICFGR,   *)
(* BPR, the stored copies of IAR and EOIR) are left out.                   *)
(***************************************************************************)
EXTENDS Integers, FiniteSets

CONSTANTS
  Cores,       (* core ids, at most eight                                  *)
  Spis,        (* shared interrupts in use, of 32..1019                    *)
  Ppis,        (* private interrupts in use, of 0..31                      *)
  Prios,       (* priorities software writes to IPRIORITYR                 *)
  Masks,       (* priority masks software writes to GICC_PMR               *)
  Routes,      (* core masks software writes to ITARGETSR                  *)
  Disciplined  (* TRUE: software keeps to the rules named below            *)

ASSUME GicAssumption ==
  /\ 0 \in Cores /\ Cores \subseteq 0 .. 7
  /\ Spis \subseteq 32 .. 1019
  /\ Ppis \subseteq 0 .. 31
  /\ Prios \subseteq 0 .. 255 /\ Masks \subseteq 0 .. 255
  /\ Routes \subseteq SUBSET Cores
  /\ Disciplined \in BOOLEAN

Lowest == 255
Spurious == 1023

VARIABLES
  dist,   (* GicDistributor: the shared interrupts                          *)
  local,  (* GicRedistributor and GicCpuInterface, per device and frame     *)
  taken   (* taken[c]: what core c has read from an IAR and not yet ended,  *)
          (* as its software sees it                                        *)

vars == <<dist, local, taken>>

NewDistributor ==
  [enabled |-> {}, pending |-> {}, active |-> {},
   prio |-> [irq \in Spis |-> Lowest], target |-> [irq \in Spis |-> {0}]]

NewFrame ==
  [enabled |-> {}, pending |-> {}, active |-> {},
   prio |-> [irq \in Ppis |-> Lowest], pmr |-> 255]

Init ==
  /\ dist = NewDistributor
  /\ local = [d \in Cores |-> [f \in Cores |-> NewFrame]]
  /\ taken = [c \in Cores |-> {}]

-----------------------------------------------------------------------------
(* Choosing an interrupt: smaller numbers are more urgent, the scan keeps   *)
(* the first it meets, and a priority of 0xFF never beats the initial one.  *)

AtLeastAsUrgent(prio, i, j) == prio[i] < prio[j] \/ (prio[i] = prio[j] /\ i <= j)

(* The most urgent member of S as a set: empty when S is.                   *)
Best(S, prio) == {i \in S : \A j \in S : AtLeastAsUrgent(prio, i, j)}

Passes(prio, irq, pmr) == prio[irq] < pmr /\ prio[irq] < Lowest

ReadySpis(core, pmr) ==
  {irq \in dist.enabled \cap dist.pending :
     core \in dist.target[irq] /\ Passes(dist.prio, irq, pmr)}

ReadyPpis(frame) ==
  {irq \in frame.enabled \cap frame.pending : Passes(frame.prio, irq, frame.pmr)}

(* Mutant: the mask is not applied.                                         *)
PeekedUnmasked(core, pmr) == Best(ReadySpis(core, 255), dist.prio)

(* peek_pending_irq: what deliver_irq looks at, with the PMR it has read.   *)
Peeked(core, pmr) == Best(ReadySpis(core, pmr), dist.prio)

(* acknowledge_irq on device d and frame f.  Private interrupts come first  *)
(* in the scan and have the smaller ids.                                    *)
Acknowledged(d, f) ==
  LET frame == local[d][f]
      ready == ReadyPpis(frame) \cup ReadySpis(f, frame.pmr)
      prio  == [irq \in ready |-> IF irq \in Ppis THEN frame.prio[irq]
                                  ELSE dist.prio[irq]]
  IN  Best(ready, prio)

-----------------------------------------------------------------------------
(* Devices raise shared interrupts; other ids are ignored.                  *)

(* Mutant: the range check lets the private interrupts through.             *)
TriggerAnyId(irq) ==
  /\ dist' = IF irq \in Spis THEN [dist EXCEPT !.pending = @ \cup {irq}] ELSE dist
  /\ local' = IF irq \in Ppis
              THEN [d \in Cores |-> [local[d] EXCEPT ![0].pending = @ \cup {irq}]]
              ELSE local
  /\ UNCHANGED taken

Trigger(irq) ==
  /\ dist' = IF irq \in Spis THEN [dist EXCEPT !.pending = @ \cup {irq}] ELSE dist
  /\ UNCHANGED <<local, taken>>

(* Software writes the distributor, through any device.                     *)

WriteEnable(irqs) ==
  /\ dist' = [dist EXCEPT !.enabled = @ \cup irqs]
  /\ UNCHANGED <<local, taken>>

ClearPending(irqs) ==
  /\ dist' = [dist EXCEPT !.pending = @ \ irqs]
  /\ UNCHANGED <<local, taken>>

(* Rule: software activates by hand only what is active already.            *)
SetActive(irqs) ==
  /\ Disciplined => irqs \subseteq dist.active
  /\ dist' = [dist EXCEPT !.active = @ \cup irqs]
  /\ UNCHANGED <<local, taken>>

WritePriority(irq, p) ==
  /\ dist' = [dist EXCEPT !.prio[irq] = p]
  /\ UNCHANGED <<local, taken>>

(* Rule: an interrupt goes to one core, and moves only while it is neither  *)
(* pending nor active.                                                      *)
WriteTarget(irq, route) ==
  /\ Disciplined => /\ irq \notin dist.pending \cup dist.active
                    /\ \A c1, c2 \in route : c1 = c2
  /\ dist' = [dist EXCEPT !.target[irq] = route]
  /\ UNCHANGED <<local, taken>>

(* Software writes frame f of the device of the core d it runs on.          *)

WriteFrame(d, f, frame) ==
  /\ local' = [local EXCEPT ![d][f] = frame]
  /\ UNCHANGED <<dist, taken>>

WritePrivateEnable(d, f, irqs) ==
  WriteFrame(d, f, [local[d][f] EXCEPT !.enabled = @ \cup irqs])

ClearPrivatePending(d, f, irqs) ==
  WriteFrame(d, f, [local[d][f] EXCEPT !.pending = @ \ irqs])

SetPrivateActive(d, f, irqs) ==
  WriteFrame(d, f, [local[d][f] EXCEPT !.active = @ \cup irqs])

WritePrivatePriority(d, f, irq, p) ==
  WriteFrame(d, f, [local[d][f] EXCEPT !.prio[irq] = p])

WriteMask(d, f, pmr) == WriteFrame(d, f, [local[d][f] EXCEPT !.pmr = pmr])

-----------------------------------------------------------------------------
(* Handlers. *)

(* The interrupt moves from pending to active.                              *)
Activate(state, irq) ==
  [state EXCEPT !.active = @ \cup {irq}, !.pending = @ \ {irq}]

(* Mutant: the pending bit stays.                                           *)
AcknowledgeKeepsPending(d, f, irq) ==
  /\ dist' = IF irq \in Ppis THEN dist ELSE [dist EXCEPT !.active = @ \cup {irq}]
  /\ local' = IF irq \in Ppis THEN [local EXCEPT ![d][f] = Activate(@, irq)] ELSE local
  /\ taken' = [taken EXCEPT ![d] = @ \cup {irq}]

(* Mutant: forgets the active bit.                                          *)
AcknowledgeNotActive(d, f, irq) ==
  /\ dist' = IF irq \in Ppis THEN dist ELSE [dist EXCEPT !.pending = @ \ {irq}]
  /\ local' = IF irq \in Ppis THEN [local EXCEPT ![d][f] = Activate(@, irq)] ELSE local
  /\ taken' = [taken EXCEPT ![d] = @ \cup {irq}]

Acknowledge(d, f, irq) ==
  /\ dist' = IF irq \in Ppis THEN dist ELSE Activate(dist, irq)
  /\ local' = IF irq \in Ppis THEN [local EXCEPT ![d][f] = Activate(@, irq)] ELSE local
  /\ taken' = [taken EXCEPT ![d] = @ \cup {irq}]

(* Mutant: the answer Spurious is treated as an interrupt.                  *)
ReadIarTakesSpurious(d, f) ==
  /\ Disciplined => f = d /\ taken[d] = {}
  /\ \E irq \in IF Acknowledged(d, f) = {} THEN {Spurious} ELSE Acknowledged(d, f) :
       Acknowledge(d, f, irq)

(* Rule: a core reads the IAR of its own frame, and only when it has ended  *)
(* what it took before.  With nothing to acknowledge the read returns       *)
(* Spurious and changes nothing.                                            *)
ReadIar(d, f) ==
  /\ Disciplined => f = d /\ taken[d] = {}
  /\ \/ \E irq \in Acknowledged(d, f) : Acknowledge(d, f, irq)
     \/ Acknowledged(d, f) = {} /\ UNCHANGED vars

(* Mutant: the pending bit falls with the active bit.                       *)
WriteEoirClearsPending(d, f, irq) ==
  /\ Disciplined => irq \in taken[d] \cup {Spurious}
  /\ dist' = IF irq \in Spis
             THEN [dist EXCEPT !.active = @ \ {irq}, !.pending = @ \ {irq}] ELSE dist
  /\ local' = IF irq \in Ppis THEN [local EXCEPT ![d][f].active = @ \ {irq}] ELSE local
  /\ taken' = [taken EXCEPT ![d] = @ \ {irq}]

(* complete_irq: the active bit falls whoever writes, and whether it was    *)
(* set or not; ids from 1020 on are ignored.                                *)
(* Rule: a core ends only what it took, or Spurious.                        *)
WriteEoir(d, f, irq) ==
  /\ Disciplined => irq \in taken[d] \cup {Spurious}
  /\ dist' = IF irq \in Spis THEN [dist EXCEPT !.active = @ \ {irq}] ELSE dist
  /\ local' = IF irq \in Ppis THEN [local EXCEPT ![d][f].active = @ \ {irq}] ELSE local
  /\ taken' = [taken EXCEPT ![d] = @ \ {irq}]

(* All that needs no scan. *)
Direct ==
  \/ \E irq \in Spis \cup Ppis : Trigger(irq)
  \/ \E irqs \in SUBSET Spis : WriteEnable(irqs) \/ ClearPending(irqs) \/ SetActive(irqs)
  \/ \E irq \in Spis, p \in Prios : WritePriority(irq, p)
  \/ \E irq \in Spis, route \in Routes : WriteTarget(irq, route)
  \/ \E d, f \in Cores :
       \/ \E irqs \in SUBSET Ppis : \/ WritePrivateEnable(d, f, irqs)
                                    \/ ClearPrivatePending(d, f, irqs)
                                    \/ SetPrivateActive(d, f, irqs)
       \/ \E irq \in Ppis, p \in Prios : WritePrivatePriority(d, f, irq, p)
       \/ \E pmr \in Masks : WriteMask(d, f, pmr)
       \/ \E irq \in Spis \cup Ppis \cup {Spurious} : WriteEoir(d, f, irq)

Next == Direct \/ \E d, f \in Cores : ReadIar(d, f)

Spec == Init /\ [][Next]_vars

-----------------------------------------------------------------------------
(* Properties. *)

Distributor ==
  [enabled : SUBSET Spis, pending : SUBSET Spis, active : SUBSET Spis,
   prio : [Spis -> 0 .. 255], target : [Spis -> SUBSET Cores]]

Frame ==
  [enabled : SUBSET Ppis, pending : SUBSET Ppis, active : SUBSET Ppis,
   prio : [Ppis -> 0 .. 255], pmr : 0 .. 255]

(* Every register stays in its range.                                       *)
TypeOK ==
  /\ dist \in Distributor
  /\ local \in [Cores -> [Cores -> Frame]]
  /\ taken \in [Cores -> SUBSET Spis]

(* peek_pending_irq, which scans the shared interrupts only, announces      *)
(* exactly what an IAR read through the core's own frame would return: the  *)
(* two loops agree because nothing ever makes a private interrupt pending.  *)
PeekPredictsAck ==
  \A c \in Cores : Peeked(c, local[c][c].pmr) = Acknowledged(c, c)

(* A triggered interrupt is not lost: its pending bit falls only when       *)
(* software clears it, or when a core the interrupt is routed to gets it    *)
(* from its IAR and it turns active.                                        *)
TriggerKept ==
  [][\A irq \in dist.pending \ dist'.pending :
       \/ irq \in dist'.active
          /\ \E d \in Cores : /\ irq \in taken'[d]
                              /\ \E f \in dist.target[irq] : ReadIar(d, f)
       \/ \E irqs \in SUBSET Spis : irq \in irqs /\ ClearPending(irqs)]_vars

(* The active bit of an interrupt says that some core is handling it, and   *)
(* then it is the core the interrupt is routed to, and no other.            *)
ActiveIsHandled ==
  /\ \A irq \in dist.active : \E c \in Cores : irq \in taken[c]
  /\ \A c \in Cores : \A irq \in taken[c] :
       irq \in dist.active /\ dist.target[irq] = {c}

(* The controller keeps the promise of InterruptLines: no interrupt is      *)
(* lost, taken twice, or taken by one core while another handles it.        *)
Lines == INSTANCE InterruptLines WITH
  Irqs <- Spis, raised <- dist.pending, busy <- dist.active, handling <- taken

ImplementsLines == Lines!Spec
=============================================================================
