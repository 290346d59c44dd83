----------------------------- MODULE ExceptionCore -----------------------------
(***************************************************************************)
(* One core taking exceptions and returning from them.  Any instruction    *)
(* may stand at any address of the code; the host may change registers     *)
(* between two steps, and deliver an interrupt.                            *)
(*                                                                         *)
(* The code keeps one ELR and one SPSR per level and never looks whether   *)
(* they are in use.  The model states what software has to keep to: no     *)
(* exception is taken to a level, and no MSR overwrites its registers,     *)
(* while a handler running at that level still has to return.              *)
(***************************************************************************)
EXTENDS ExceptionLevels

CONSTANTS
  Code,     (* the addresses that hold code                                *)
  Vectors   (* vector tables that may be configured                        *)

ASSUME CodeAssumption ==
  /\ Code \subseteq Nat /\ Code # {}
  /\ Vectors \subseteq Nat \ {0}

(* Addresses a core can come to, and the values of ELR.                     *)
Addresses ==
  Code \cup {v + o : v \in Vectors, o \in {SyncOffset, IrqOffset}}

ReturnAddresses == Addresses \cup {a + 1 : a \in Addresses} \cup {0}

Contexts == [pc : ReturnAddresses, pstate : ELs]

Nothing == [pc |-> -1, pstate |-> 0]

VARIABLES
  cpu,     (* the core                                                      *)
  awaited  (* awaited[l]: the context that the handler running at level l   *)
           (* has interrupted, Nothing when there is no such handler        *)

vars == <<cpu, awaited>>

Init ==
  /\ \E pc \in Code : cpu = NewCore(pc)
  /\ awaited = [l \in Levels |-> Nothing]

(* A handler is entered, unless there is no vector table.                   *)
Call(level, entered, return) ==
  /\ awaited[level] = Nothing
  /\ cpu' = entered
  /\ awaited' = IF cpu.vbar[level] = 0 THEN awaited
                ELSE [awaited EXCEPT ![level] = [pc |-> return, pstate |-> cpu.pstate]]

ExecuteSvc == cpu.pc \in Addresses /\ Call(1, Svc(cpu), cpu.pc + 1)
ExecuteSmc == cpu.pc \in Addresses /\ Call(3, Smc(cpu), cpu.pc + 1)
TakeIrq == Call(1, Irq(cpu), cpu.pc)

ExecuteEret ==
  /\ cpu.pc \in Addresses
  /\ cpu' = Eret(cpu)
  /\ awaited' = [awaited EXCEPT ![BankOf(cpu.el)] = Nothing]

(* Any other instruction: on to the next, or a branch.                      *)
Execute ==
  /\ cpu.pc \in Addresses
  /\ \E pc \in Addresses : cpu' = [cpu EXCEPT !.pc = pc]
  /\ UNCHANGED awaited

(* MSR to ELR and SPSR, and the same by the host.                           *)

WriteElr(level, pc) ==
  /\ awaited[level] = Nothing
  /\ cpu' = [cpu EXCEPT !.bank[level].pc = pc]
  /\ UNCHANGED awaited

WriteSpsr(level, pstate) ==
  /\ awaited[level] = Nothing
  /\ cpu' = [cpu EXCEPT !.bank[level].pstate = pstate]
  /\ UNCHANGED awaited

WriteVbar(level, v) ==
  /\ cpu' = [cpu EXCEPT !.vbar[level] = v]
  /\ UNCHANGED awaited

MaskIrq(masked) ==
  /\ cpu' = [cpu EXCEPT !.irq_masked = masked]
  /\ UNCHANGED awaited

(* The host sets the level, at any time.                                    *)
HostSetsEl(el) ==
  /\ cpu' = SetEl(cpu, el)
  /\ UNCHANGED awaited

Next ==
  \/ ExecuteSvc
  \/ ExecuteSmc
  \/ TakeIrq
  \/ ExecuteEret
  \/ Execute
  \/ \E l \in Levels : \/ \E pc \in Code : WriteElr(l, pc)
                       \/ \E el \in ELs : WriteSpsr(l, el)
                       \/ \E v \in Vectors : WriteVbar(l, v)
  \/ \E masked \in BOOLEAN : MaskIrq(masked)
  \/ \E el \in ELs : HostSetsEl(el)

Spec == Init /\ [][Next]_vars

-----------------------------------------------------------------------------
(* Properties. *)

(* Every register stays in its range.                                       *)
TypeOK ==
  /\ cpu \in [pc : ReturnAddresses, pstate : ELs, el : ELs,
              bank : [Levels -> Contexts], vbar : [Levels -> Vectors \cup {0}],
              irq_masked : BOOLEAN]
  /\ awaited \in [Levels -> Contexts \cup {Nothing}]

(* The level the exception module keeps is the level in PSTATE, whichever   *)
(* of the two a handler reads: every path that writes one writes the other. *)
ElMatchesPstate == cpu.el = cpu.pstate

(* A handler returns to the very place and level it was entered from, with  *)
(* an SMC, an SVC or an interrupt taken inside another exception as well.   *)
ReturnsToCaller ==
  [][\A l \in Levels :
       awaited[l] # Nothing /\ awaited'[l] = Nothing
       => cpu'.pc = awaited[l].pc /\ cpu'.pstate = awaited[l].pstate]_vars
=============================================================================
