------------------------------- MODULE GicLoops -------------------------------
(***************************************************************************)
(* The two scanning loops of core/src/mmio/gic.rs, peek_pending_irq and    *)
(* acknowledge_irq, an iteration at a time: in ascending order of ids,     *)
(* keeping the best so far.  Gic describes what they find as a set; here   *)
(* that is what is to be shown.  An id that is not in use is neither       *)
(* enabled nor pending, and the loops pass over it.                        *)
(***************************************************************************)
EXTENDS Gic

VARIABLE scan   (* the loop under way: whether it peeks or acknowledges,    *)
                (* through which device, for which frame, the ids it has    *)
                (* passed and the best of them                              *)

scanVars == <<dist, local, taken, scan>>

NothingYet == [irq |-> Spurious, prio |-> Lowest]

NewScan(kind, d, f) ==
  [kind |-> kind, device |-> d, frame |-> f, passed |-> {}, best |-> NothingYet]

NoScan == NewScan("none", 0, 0)

InitLoops == Init /\ scan = NoScan

(* The frame whose registers the loop reads.                                *)
Scanned == local[scan.device][scan.frame]

(* The peek does not look at private interrupts.                            *)
Scannable == IF scan.kind = "peek" THEN Spis ELSE Ppis \cup Spis
Unpassed == Scannable \ scan.passed

(* The tests that come before the priority.                                 *)
Deliverable(irq) ==
  IF irq \in Ppis THEN irq \in Scanned.enabled \cap Scanned.pending
  ELSE irq \in dist.enabled \cap dist.pending /\ scan.frame \in dist.target[irq]

PriorityOf(irq) == IF irq \in Ppis THEN Scanned.prio[irq] ELSE dist.prio[irq]

(* Mutant: an equal priority replaces the one found before.                 *)
KeepLater(best, irq) ==
  IF /\ Deliverable(irq)
     /\ PriorityOf(irq) < Scanned.pmr /\ PriorityOf(irq) <= best.prio
  THEN [irq |-> irq, prio |-> PriorityOf(irq)] ELSE best

(* Masked unless below the PMR, then kept if strictly better.               *)
Keep(best, irq) ==
  IF /\ Deliverable(irq)
     /\ PriorityOf(irq) < Scanned.pmr /\ PriorityOf(irq) < best.prio
  THEN [irq |-> irq, prio |-> PriorityOf(irq)] ELSE best

(* deliver_irq peeks with the PMR of the core's own frame.                  *)
StartPeek(c) ==
  /\ scan = NoScan
  /\ scan' = NewScan("peek", c, c)
  /\ UNCHANGED vars

(* A read of IAR: the rule of Gic's ReadIar.                                *)
StartAcknowledge(d, f) ==
  /\ scan = NoScan
  /\ Disciplined => f = d /\ taken[d] = {}
  /\ scan' = NewScan("acknowledge", d, f)
  /\ UNCHANGED vars

Iterate ==
  /\ scan.kind # "none"
  /\ \E irq \in Unpassed :
       /\ \A later \in Unpassed : irq <= later
       /\ scan' = [scan EXCEPT !.passed = @ \cup {irq}, !.best = Keep(@, irq)]
  /\ UNCHANGED vars

(* The peek returns what it has found, the acknowledgement acts on it.      *)
ReturnPeek ==
  /\ scan.kind = "peek" /\ Unpassed = {}
  /\ scan' = NoScan
  /\ UNCHANGED vars

ReturnAcknowledged ==
  /\ scan.kind = "acknowledge" /\ Unpassed = {}
  /\ IF scan.best = NothingYet THEN UNCHANGED vars
     ELSE Acknowledge(scan.device, scan.frame, scan.best.irq)
  /\ scan' = NoScan

(* The controller is borrowed for the whole of a loop.                      *)
NextLoops ==
  \/ scan = NoScan /\ Direct /\ UNCHANGED scan
  \/ \E c \in Cores : StartPeek(c)
  \/ \E d, f \in Cores : StartAcknowledge(d, f)
  \/ Iterate \/ ReturnPeek \/ ReturnAcknowledged

SpecLoops == InitLoops /\ [][NextLoops]_scanVars
-----------------------------------------------------------------------------
IrqOrSpurious(S) == IF S = {} THEN {Spurious} ELSE S

(* When a loop has passed every id, it has found what Gic says: the most    *)
(* urgent interrupt, the smallest id among equals, Spurious when there is   *)
(* none.                                                                    *)
LoopsFindBest ==
  scan.kind # "none" /\ Unpassed = {} =>
    {scan.best.irq}
      = IrqOrSpurious(IF scan.kind = "peek"
                      THEN Peeked(scan.frame, Scanned.pmr)
                      ELSE Acknowledged(scan.device, scan.frame))

(* Run an iteration at a time, the loops do what Gic does in a step: what   *)
(* the loop of acknowledge_irq ends with is a read of IAR.                  *)
LoopsImplementGic == Spec
=============================================================================
