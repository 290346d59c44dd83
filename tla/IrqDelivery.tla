------------------------------ MODULE IrqDelivery ------------------------------
(***************************************************************************)
(* Interrupts from the device that raises them to the handler that ends    *)
(* them: the interrupt controller, the cores, deliver_irq                  *)
(* (core/src/cpu/unicorn_interface.rs) and the round-robin of              *)
(* CpuManager::run_all (core/src/cpu/cpu_manager.rs).                      *)
(*                                                                         *)
(* Each core runs a program that may make system calls and monitor calls,  *)
(* and the interrupt handler of the end-to-end tests: a prologue, a read   *)
(* of the core's IAR, a write of the value read to its EOIR, and ERET.     *)
(* The control loop gives the cores their turns in order; in its turn a    *)
(* core that is not in an EL1 handler is first offered an interrupt, and   *)
(* then the core executes one instruction.                                 *)
(***************************************************************************)
EXTENDS Gic, ExceptionLevels

CONSTANT
  MaskWrites    (* what programs write to the I bit of DAIF                 *)

ASSUME DeliveryAssumption ==
  /\ MaskWrites \subseteq BOOLEAN
  /\ \E n \in 0 .. 7 : Cores = 0 .. n

Program == {1, 2}     (* where the program is; it is a loop                  *)
Vbar1 == 1000
Vbar3 == 2000
SvcHandler == Vbar1 + SyncOffset
IrqHandler == Vbar1 + IrqOffset
SmcHandler == Vbar3 + SyncOffset

VARIABLES
  cpu,        (* cpu[c]: core c                                             *)
  x0,         (* x0[c]: the register that holds what IAR returned           *)
  awaited,    (* awaited[c]: the context an EL1 handler on c has to restore *)
  turn,       (* the core whose turn it is                                  *)
  offered     (* whether it has been offered an interrupt in this turn      *)

coreVars == <<cpu, x0, awaited>>
loopVars == <<turn, offered>>
allVars == <<dist, local, taken, coreVars, loopVars>>

Nothing == [pc |-> -1, pstate |-> 0]

BootedCore(pc, el, vbar) ==
  [NewCore(pc) EXCEPT !.el = el, !.pstate = el,
                      !.vbar = [l \in Levels |-> IF l = 1 THEN vbar ELSE Vbar3]]

(* Software has configured the controller: every interrupt is enabled and   *)
(* goes to one core, whose mask is set.  Half of the cores run at EL0, half *)
(* at EL1; the EL1 vector tables may not be there yet.                      *)
InitDelivery ==
  /\ \E prio \in [Spis -> Prios], to \in [Spis -> Cores] :
       dist = [NewDistributor EXCEPT !.enabled = Spis, !.prio = prio,
                                     !.target = [irq \in Spis |-> {to[irq]}]]
  /\ \E pmr \in Masks :
       local = [d \in Cores |-> [f \in Cores |->
                  IF f = d THEN [NewFrame EXCEPT !.pmr = pmr] ELSE NewFrame]]
  /\ taken = [c \in Cores |-> {}]
  /\ \E vbar \in {0, Vbar1} :
       cpu = [c \in Cores |-> BootedCore(1, c % 2, vbar)]
  /\ x0 = [c \in Cores |-> 0]
  /\ awaited = [c \in Cores |-> Nothing]
  /\ turn = 0
  /\ offered = FALSE

-----------------------------------------------------------------------------
(* Devices: any of them at any moment, as often as it likes.                *)

Raise(irq) ==
  /\ Trigger(irq)
  /\ UNCHANGED <<coreVars, loopVars>>

-----------------------------------------------------------------------------
(* deliver_irq on core c: PMR of the core's own frame, a peek, and entry to *)
(* EL1.  DAIF is not looked at.  Without a vector table the registers are   *)
(* overwritten and the call reports no interrupt.                           *)

BestFor(c) == Peeked(c, local[c][c].pmr)

DeliverIrq(c) ==
  /\ cpu' = IF BestFor(c) = {} THEN cpu ELSE [cpu EXCEPT ![c] = Irq(@)]
  /\ awaited' = IF BestFor(c) = {} \/ cpu[c].vbar[1] = 0 THEN awaited
                ELSE [awaited EXCEPT ![c] = [pc |-> cpu[c].pc, pstate |-> cpu[c].pstate]]
  /\ UNCHANGED x0

Offer ==
  /\ ~offered
  /\ offered' = TRUE
  /\ UNCHANGED <<turn, vars>>
  /\ IF awaited[turn] = Nothing
     THEN DeliverIrq(turn)
     ELSE UNCHANGED coreVars

-----------------------------------------------------------------------------
(* One instruction on core c. *)

Moves(c, entered) == cpu' = [cpu EXCEPT ![c] = entered]

ProgramStep(c) ==
  /\ cpu[c].pc \in Program
  /\ \/ /\ \/ Moves(c, [cpu[c] EXCEPT !.pc = 3 - @])
           \/ \E masked \in MaskWrites :
                Moves(c, [cpu[c] EXCEPT !.pc = 3 - @, !.irq_masked = masked])
           \/ cpu[c].pc = 1 /\ Moves(c, Smc(cpu[c]))
        /\ UNCHANGED awaited
     \/ /\ cpu[c].pc = 1
        /\ cpu[c].vbar[1] # 0
        /\ Moves(c, Svc(cpu[c]))
        /\ awaited' = [awaited EXCEPT ![c] = [pc |-> 2, pstate |-> cpu[c].pstate]]
  /\ UNCHANGED <<x0, vars>>

Prologue(c) ==
  /\ cpu[c].pc = IrqHandler
  /\ Moves(c, [cpu[c] EXCEPT !.pc = @ + 1])
  /\ UNCHANGED <<x0, awaited, vars>>

LoadIar(c) ==
  /\ cpu[c].pc = IrqHandler + 1
  /\ ReadIar(c, c)
  /\ x0' = [x0 EXCEPT ![c] = IF taken'[c] = taken[c] THEN Spurious
                             ELSE CHOOSE irq \in taken'[c] \ taken[c] : TRUE]
  /\ Moves(c, [cpu[c] EXCEPT !.pc = @ + 1])
  /\ UNCHANGED awaited

StoreEoir(c) ==
  /\ cpu[c].pc = IrqHandler + 2
  /\ WriteEoir(c, c, x0[c])
  /\ Moves(c, [cpu[c] EXCEPT !.pc = @ + 1])
  /\ UNCHANGED <<x0, awaited>>

Return(c) ==
  /\ cpu[c].pc \in {SvcHandler, SmcHandler, IrqHandler + 3}
  /\ Moves(c, Eret(cpu[c]))
  /\ awaited' = IF BankOf(cpu[c].el) = 1 THEN [awaited EXCEPT ![c] = Nothing] ELSE awaited
  /\ UNCHANGED <<x0, vars>>

(* The step of the core whose turn it is; then the next core has its turn.  *)
Step ==
  /\ offered
  /\ offered' = FALSE
  /\ turn' = (turn + 1) % Cardinality(Cores)
  /\ \/ ProgramStep(turn)
     \/ Prologue(turn)
     \/ LoadIar(turn)
     \/ StoreEoir(turn)
     \/ Return(turn)

NextDelivery ==
  \/ \E irq \in Spis : Raise(irq)
  \/ Offer
  \/ Step

(* The control loop goes on.  Nothing is assumed of the devices here: what  *)
(* a liveness property needs of them is a premise of that property.         *)
SpecDelivery ==
  InitDelivery /\ [][NextDelivery]_allVars /\ WF_allVars(Offer \/ Step)

-----------------------------------------------------------------------------
(* Properties. *)

Configured(c) == cpu[c].vbar[1] # 0

(* A core whose handler was entered finds an interrupt in its IAR: what     *)
(* deliver_irq saw is not gone by the time the handler looks.               *)
DeliveryIsServed ==
  \A c \in Cores : cpu[c].pc = IrqHandler + 2 => x0[c] # Spurious

(* The core returns from an EL1 handler to the instruction and the level it *)
(* was interrupted at, inside a monitor call as well as in the program.     *)
ResumesInterrupted ==
  [][\A c \in Cores :
       awaited[c] # Nothing /\ awaited'[c] = Nothing
       => cpu'[c].pc = awaited[c].pc /\ cpu'[c].pstate = awaited[c].pstate]_allVars

(* The interrupts that core c is offered: routed to it, past its mask.      *)
OfferedTo(c) ==
  {irq \in Spis : dist.target[irq] = {c} /\ Passes(dist.prio, irq, local[c][c].pmr)}

(* Those of core c that are offered before irq is.                          *)
Before(irq, c) ==
  {i \in OfferedTo(c) : i # irq /\ AtLeastAsUrgent(dist.prio, i, irq)}

(* From some point on no device raises one of these anew.                   *)
GivesWay(irq, c) == <>[][dist'.pending \cap Before(irq, c) \subseteq dist.pending]_allVars
LeftAlone(c) == <>[][dist'.pending \cap OfferedTo(c) \subseteq dist.pending]_allVars

(* An interrupt raised for a core that has a handler, with a priority its   *)
(* mask passes, is taken by the handler, once more if it is being handled   *)
(* already, unless devices go on for ever raising interrupts of the same    *)
(* core that come before it: that starves it, ties going to the smaller id. *)
(* The interrupts of other cores, those that come after it, the same one    *)
(* raised over and over, and the core's own system and monitor calls do not *)
(* keep it waiting for ever.                                                *)
EventuallyTaken ==
  \A c \in Cores : \A irq \in Spis :
    GivesWay(irq, c)
    => (irq \in dist.pending \cap OfferedTo(c) /\ Configured(c)
        ~> irq \in taken[c] \ dist.pending)

(* Every handler runs to its end: an interrupt that is active is ended,     *)
(* whatever the devices do; and a core with a vector table comes back to    *)
(* its program, from nested handlers too, once the devices leave it alone.  *)
(* The loop offers an interrupt before every instruction outside of EL1     *)
(* handlers: a device that raises again in each handler keeps a core from   *)
(* its next instruction, and in a monitor call from its ERET, for ever.     *)
(* (Without a vector table, a pending interrupt takes a core out of EL3 in  *)
(* every turn: its monitor call returns with the wrong registers.)          *)
HandlersEnd ==
  /\ \A irq \in Spis : irq \in dist.active ~> irq \notin dist.active
  /\ \A c \in Cores :
       LeftAlone(c) => []<>(Configured(c) => cpu[c].pc \in Program)

(* A core that has masked interrupts in DAIF is not interrupted: what the   *)
(* comment of ExceptionModule says the I bit is.                            *)
MaskedNotInterrupted ==
  [][\A c \in Cores : cpu[c].irq_masked /\ Offer => cpu'[c].pc = cpu[c].pc]_allVars
=============================================================================
