---------------------------- MODULE InterruptLines ----------------------------
(***************************************************************************)
(* What an interrupt controller promises its devices and its cores: an     *)
(* interrupt that was raised stays raised until one core takes it or       *)
(* software withdraws it, and it is in the hands of at most one core.      *)
(***************************************************************************)
CONSTANTS Irqs, Cores

VARIABLES
  raised,    (* interrupts waiting for a core                               *)
  busy,      (* interrupts in the hands of a core                           *)
  handling   (* handling[c]: the interrupts core c has taken                *)

vars == <<raised, busy, handling>>

Init ==
  /\ raised = {}
  /\ busy = {}
  /\ handling = [c \in Cores |-> {}]

Raise(irq) ==
  /\ raised' = raised \cup {irq}
  /\ UNCHANGED <<busy, handling>>

Withdraw(irqs) ==
  /\ raised' = raised \ irqs
  /\ UNCHANGED <<busy, handling>>

Take(c, irq) ==
  /\ irq \in raised \ busy
  /\ raised' = raised \ {irq}
  /\ busy' = busy \cup {irq}
  /\ handling' = [handling EXCEPT ![c] = @ \cup {irq}]

(* An interrupt ends only on the core that took it.                         *)
Finish(c, irq) ==
  /\ irq \in handling[c]
  /\ busy' = busy \ {irq}
  /\ handling' = [handling EXCEPT ![c] = @ \ {irq}]
  /\ UNCHANGED raised

Next ==
  \/ \E irq \in Irqs : Raise(irq)
  \/ \E irqs \in SUBSET Irqs : Withdraw(irqs)
  \/ \E c \in Cores, irq \in Irqs : Take(c, irq) \/ Finish(c, irq)

Spec == Init /\ [][Next]_vars
=============================================================================
