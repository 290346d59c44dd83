---------------------------- MODULE ExceptionLevels ----------------------------
(***************************************************************************)
(* The exception module of a core (core/src/cpu/exception.rs) and the part *)
(* of its emulator it acts on: how SVC, SMC, an interrupt and ERET move    *)
(* the program counter and the exception level.                            *)
(*                                                                         *)
(* A core is a record.  Of PSTATE the exception level is kept: the other   *)
(* bits are saved and restored along with it.  Addresses count words, so   *)
(* that pc + 1 is the next instruction.  bank[l] is the pair ELR_ELl,      *)
(* SPSR_ELl and vbar[l] is VBAR_ELl, where 0 means not configured.         *)
(***************************************************************************)
EXTENDS Integers

ELs == 0 .. 3
Levels == {1, 3}      (* the levels that have banked registers               *)

SyncOffset == 256     (* VEC_SYNC_OFFSET, 0x400 bytes                        *)
IrqOffset == 288      (* VEC_IRQ_OFFSET, 0x480 bytes                         *)

NewCore(pc) ==
  [pc |-> pc, pstate |-> 1, el |-> 1,
   bank |-> [l \in Levels |-> [pc |-> 0, pstate |-> 0]],
   vbar |-> [l \in Levels |-> 0], irq_masked |-> FALSE]

(* Mutant: PSTATE is saved after its level was changed.                     *)
EnterSavesLate(cpu, level, return, offset) ==
  [cpu EXCEPT !.bank[level] = [pc |-> return, pstate |-> level],
              !.el = level, !.pstate = level,
              !.pc = IF cpu.vbar[level] # 0 THEN cpu.vbar[level] + offset ELSE @]

(* Entry to a level.  Without a vector table the registers change all the   *)
(* same, and the core stays where it is.                                    *)
Enter(cpu, level, return, offset) ==
  [cpu EXCEPT !.bank[level] = [pc |-> return, pstate |-> cpu.pstate],
              !.el = level, !.pstate = level,
              !.pc = IF cpu.vbar[level] # 0 THEN cpu.vbar[level] + offset ELSE @]

Svc(cpu) == Enter(cpu, 1, cpu.pc + 1, SyncOffset)

(* Mutant: saves into the registers of EL1.                                 *)
SmcUsesEl1(cpu) ==
  [Enter(cpu, 3, cpu.pc + 1, SyncOffset) EXCEPT
     !.bank = [cpu.bank EXCEPT ![1] = [pc |-> cpu.pc + 1, pstate |-> cpu.pstate]]]

Smc(cpu) == Enter(cpu, 3, cpu.pc + 1, SyncOffset)

(* The interrupted instruction is still to be executed.                     *)
Irq(cpu) == Enter(cpu, 1, cpu.pc, IrqOffset)

(* ERET uses the bank of EL3 at EL3 and the bank of EL1 anywhere else.      *)
BankOf(el) == IF el = 3 THEN 3 ELSE 1

(* Mutant: the software copy of the level is not updated.                   *)
EretKeepsEl(cpu) ==
  LET saved == cpu.bank[BankOf(cpu.el)]
  IN  [cpu EXCEPT !.pc = saved.pc, !.pstate = saved.pstate]

Eret(cpu) ==
  LET saved == cpu.bank[BankOf(cpu.el)]
  IN  [cpu EXCEPT !.pc = saved.pc, !.pstate = saved.pstate, !.el = saved.pstate]

(* Mutant: only the software copy is updated.                               *)
SetElSoftwareOnly(cpu, el) == [cpu EXCEPT !.el = el]

(* Mutant: the level goes to PSTATE with its shift.                         *)
SetElShifted(cpu, el) == [cpu EXCEPT !.el = el, !.pstate = 4 * el]

(* set_current_el, and write_sys_reg of PSTATE.                             *)
SetEl(cpu, el) == [cpu EXCEPT !.el = el, !.pstate = el]
=============================================================================
