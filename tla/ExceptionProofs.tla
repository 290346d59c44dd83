---------------------------- MODULE ExceptionProofs ----------------------------
(* Proofs about ExceptionCore, for any code and any vector tables. *)
EXTENDS ExceptionCore, TLAPS

(* While a handler has to return, the registers it returns by hold what was *)
(* saved at its entry.                                                      *)
BanksIntact == \A l \in Levels : awaited[l] # Nothing => cpu.bank[l] = awaited[l]

Inv == TypeOK /\ ElMatchesPstate /\ BanksIntact

(* An address of code or of a vector and the one after it can be saved.     *)
LEMMA AddressesOK ==
  /\ Addresses \subseteq ReturnAddresses
  /\ \A a \in Addresses : a + 1 \in ReturnAddresses
  /\ Code \subseteq Addresses
  /\ \A v \in Vectors : /\ v # 0
                        /\ v + SyncOffset \in Addresses
                        /\ v + IrqOffset \in Addresses
  BY CodeAssumption DEF Addresses, ReturnAddresses

LEMMA LevelsOK == 1 \in Levels /\ 3 \in Levels /\ \A el : BankOf(el) \in Levels
  BY DEF Levels, BankOf

(* Entering a level saves the interrupted context, and nothing else.        *)
LEMMA EnterOK ==
  ASSUME Inv, NEW level \in Levels, NEW return \in ReturnAddresses,
         NEW offset \in {SyncOffset, IrqOffset},
         Call(level, Enter(cpu, level, return, offset), return)
  PROVE  Inv'
  <1> DEFINE context == [pc |-> return, pstate |-> cpu.pstate]
  <1>0. /\ level \in ELs
        /\ cpu.pstate \in ELs /\ cpu.pc \in ReturnAddresses
        /\ cpu.vbar[level] \in Vectors \cup {0}
    BY DEF Levels, ELs, Inv, TypeOK
  <1>1. context \in Contexts
    BY <1>0 DEF Contexts
  <1>2. cpu' = [cpu EXCEPT !.bank = [cpu.bank EXCEPT ![level] = context],
                           !.el = level, !.pstate = level,
                           !.pc = IF cpu.vbar[level] # 0
                                  THEN cpu.vbar[level] + offset ELSE cpu.pc]
    BY DEF Call, Enter
  <1>3. /\ cpu'.el = level /\ cpu'.pstate = level
        /\ cpu'.bank = [cpu.bank EXCEPT ![level] = context]
        /\ cpu'.vbar = cpu.vbar /\ cpu'.irq_masked = cpu.irq_masked
        /\ cpu'.pc \in ReturnAddresses
    <2> HIDE DEF context
    <2>1. cpu.vbar[level] # 0 => cpu.vbar[level] + offset \in ReturnAddresses
      BY <1>0, AddressesOK
    <2> QED
      BY <1>0, <1>2, <2>1 DEF Inv, TypeOK
  <1>4. awaited' = awaited \/ awaited' = [awaited EXCEPT ![level] = context]
    BY DEF Call
  <1>5. awaited[level] = Nothing
    BY DEF Call
  <1> HIDE DEF context
  <1>6. TypeOK'
    <2>1. [cpu.bank EXCEPT ![level] = context] \in [Levels -> Contexts]
      BY <1>1 DEF Inv, TypeOK
    <2>2. cpu' \in [pc : ReturnAddresses, pstate : ELs, el : ELs,
                    bank : [Levels -> Contexts], vbar : [Levels -> Vectors \cup {0}],
                    irq_masked : BOOLEAN]
      BY <1>0, <1>2, <1>3, <2>1 DEF Inv, TypeOK
    <2>3. awaited' \in [Levels -> Contexts \cup {Nothing}]
      BY <1>1, <1>4 DEF Inv, TypeOK
    <2> QED
      BY <2>2, <2>3 DEF TypeOK
  <1>7. ElMatchesPstate'
    BY <1>3 DEF ElMatchesPstate
  <1>8. BanksIntact'
    BY <1>3, <1>4, <1>5 DEF Inv, TypeOK, BanksIntact
  <1> QED
    BY <1>6, <1>7, <1>8 DEF Inv

(* ERET restores the bank of the level it runs at.                          *)
LEMMA EretOK ==
  ASSUME Inv, ExecuteEret
  PROVE  /\ Inv'
         /\ cpu'.pc = cpu.bank[BankOf(cpu.el)].pc
         /\ cpu'.pstate = cpu.bank[BankOf(cpu.el)].pstate
         /\ awaited' = [awaited EXCEPT ![BankOf(cpu.el)] = Nothing]
  <1> DEFINE level == BankOf(cpu.el)
             saved == cpu.bank[level]
  <1>1. level \in Levels /\ saved \in Contexts
    BY LevelsOK DEF Inv, TypeOK
  <1>2. cpu' = [cpu EXCEPT !.pc = saved.pc, !.pstate = saved.pstate, !.el = saved.pstate]
    BY DEF ExecuteEret, Eret
  <1>3. awaited' = [awaited EXCEPT ![level] = Nothing]
    BY DEF ExecuteEret
  <1> HIDE DEF level, saved
  <1>4. saved.pc \in ReturnAddresses /\ saved.pstate \in ELs
    BY <1>1 DEF Contexts
  <1>5. /\ cpu'.pc = saved.pc /\ cpu'.pstate = saved.pstate /\ cpu'.el = saved.pstate
        /\ cpu'.bank = cpu.bank
    BY <1>2 DEF Inv, TypeOK
  <1>6. TypeOK'
    BY <1>1, <1>2, <1>3, <1>4 DEF Inv, TypeOK
  <1>7. ElMatchesPstate' /\ BanksIntact'
    BY <1>1, <1>3, <1>5 DEF ElMatchesPstate, Inv, TypeOK, BanksIntact
  <1> QED
    BY <1>3, <1>5, <1>6, <1>7 DEF Inv, level, saved

(* A step that leaves the banks, the awaited contexts and the level alone.  *)
LEMMA PlainStep ==
  ASSUME Inv, UNCHANGED awaited, TypeOK', cpu'.bank = cpu.bank, cpu'.el = cpu'.pstate
  PROVE  Inv'
  BY DEF Inv, ElMatchesPstate, BanksIntact

LEMMA InvInit == Init => Inv
  <1> SUFFICES ASSUME Init PROVE Inv
    OBVIOUS
  <1>1. PICK pc \in Code : cpu = NewCore(pc)
    BY DEF Init
  <1>2. awaited = [l \in Levels |-> Nothing]
    BY DEF Init
  <1>3. pc \in ReturnAddresses /\ 0 \in ReturnAddresses
    BY AddressesOK DEF ReturnAddresses
  <1> QED
    BY <1>1, <1>2, <1>3
    DEF NewCore, Inv, TypeOK, ElMatchesPstate, BanksIntact, Contexts, ELs

LEMMA InvNext == Inv /\ [Next]_vars => Inv'
  <1> SUFFICES ASSUME Inv, [Next]_vars PROVE Inv'
    OBVIOUS
  <1>0. TypeOK /\ cpu.el = cpu.pstate
    BY DEF Inv, ElMatchesPstate
  <1>1. CASE ExecuteSvc
    BY <1>1, EnterOK, AddressesOK, LevelsOK DEF ExecuteSvc, Svc
  <1>2. CASE ExecuteSmc
    BY <1>2, EnterOK, AddressesOK, LevelsOK DEF ExecuteSmc, Smc
  <1>3. CASE TakeIrq
    <2>1. cpu.pc \in ReturnAddresses
      BY DEF Inv, TypeOK
    <2> QED
      BY <1>3, <2>1, EnterOK, LevelsOK DEF TakeIrq, Irq
  <1>4. CASE ExecuteEret
    BY <1>4, EretOK
  <1>5. CASE Execute
    <2>1. PICK pc \in Addresses : cpu' = [cpu EXCEPT !.pc = pc]
      BY <1>5 DEF Execute
    <2>2. TypeOK'
      BY <1>0, <1>5, <2>1, AddressesOK DEF Execute, TypeOK
    <2> QED
      BY <1>0, <1>5, <2>1, <2>2, PlainStep DEF Execute, TypeOK
  <1>6. ASSUME NEW l \in Levels, NEW pc \in Code, WriteElr(l, pc) PROVE Inv'
    <2> DEFINE bank == [cpu.bank EXCEPT ![l] = [cpu.bank[l] EXCEPT !.pc = pc]]
    <2>1. pc \in ReturnAddresses
      BY AddressesOK
    <2>2. bank \in [Levels -> Contexts]
      BY <1>0, <2>1 DEF TypeOK, Contexts
    <2>3. cpu' = [cpu EXCEPT !.bank = bank] /\ awaited' = awaited /\ awaited[l] = Nothing
      BY <1>6 DEF WriteElr
    <2>4. \A k \in Levels : k # l => bank[k] = cpu.bank[k]
      BY <1>0 DEF TypeOK
    <2> HIDE DEF bank
    <2> QED
      BY <1>0, <2>2, <2>3, <2>4 DEF Inv, TypeOK, ElMatchesPstate, BanksIntact
  <1>7. ASSUME NEW l \in Levels, NEW el \in ELs, WriteSpsr(l, el) PROVE Inv'
    <2> DEFINE bank == [cpu.bank EXCEPT ![l] = [cpu.bank[l] EXCEPT !.pstate = el]]
    <2>2. bank \in [Levels -> Contexts]
      BY <1>0 DEF TypeOK, Contexts
    <2>3. cpu' = [cpu EXCEPT !.bank = bank] /\ awaited' = awaited /\ awaited[l] = Nothing
      BY <1>7 DEF WriteSpsr
    <2>4. \A k \in Levels : k # l => bank[k] = cpu.bank[k]
      BY <1>0 DEF TypeOK
    <2> HIDE DEF bank
    <2> QED
      BY <1>0, <2>2, <2>3, <2>4 DEF Inv, TypeOK, ElMatchesPstate, BanksIntact
  <1>8. ASSUME NEW l \in Levels, NEW v \in Vectors, WriteVbar(l, v) PROVE Inv'
    <2>1. cpu' = [cpu EXCEPT !.vbar = [cpu.vbar EXCEPT ![l] = v]] /\ awaited' = awaited
      BY <1>8 DEF WriteVbar
    <2>2. [cpu.vbar EXCEPT ![l] = v] \in [Levels -> Vectors \cup {0}]
      BY <1>0 DEF TypeOK
    <2>3. TypeOK'
      BY <1>0, <2>1, <2>2 DEF TypeOK
    <2> QED
      BY <1>0, <2>1, <2>3, PlainStep DEF TypeOK
  <1>9. ASSUME NEW masked \in BOOLEAN, MaskIrq(masked) PROVE Inv'
    <2>1. TypeOK'
      BY <1>0, <1>9 DEF MaskIrq, TypeOK
    <2> QED
      BY <1>0, <1>9, <2>1, PlainStep DEF MaskIrq, TypeOK
  <1>10. ASSUME NEW el \in ELs, HostSetsEl(el) PROVE Inv'
    <2>1. TypeOK'
      BY <1>0, <1>10 DEF HostSetsEl, SetEl, TypeOK
    <2> QED
      BY <1>0, <1>10, <2>1, PlainStep DEF HostSetsEl, SetEl, TypeOK
  <1>11. CASE UNCHANGED vars
    BY <1>0, <1>11, PlainStep DEF vars, TypeOK
  <1> QED
    BY <1>1, <1>2, <1>3, <1>4, <1>5, <1>6, <1>7, <1>8, <1>9, <1>10, <1>11 DEF Next

(* Every register stays in its type.                                        *)
THEOREM CoreTypes == Spec => []TypeOK
  BY InvInit, InvNext, PTL DEF Spec, Inv

(* The tracked exception level is always that of PSTATE.                    *)
THEOREM ElIsPstate == Spec => []ElMatchesPstate
  BY InvInit, InvNext, PTL DEF Spec, Inv

(* What ReturnsToCaller asks of one step.                                   *)
Returns ==
  \A l \in Levels :
    awaited[l] # Nothing /\ awaited'[l] = Nothing
    => cpu'.pc = awaited[l].pc /\ cpu'.pstate = awaited[l].pstate

LEMMA ReturnStep == Inv /\ [Next]_vars => Returns
  <1> SUFFICES ASSUME Inv, [Next]_vars, NEW l \in Levels,
                      awaited[l] # Nothing, awaited'[l] = Nothing
               PROVE  cpu'.pc = awaited[l].pc /\ cpu'.pstate = awaited[l].pstate
    BY DEF Returns
  <1>1. ExecuteEret
    <2>1. \A k \in Levels : \A entered, return : ~ Call(k, entered, return)
      <3> SUFFICES ASSUME NEW k \in Levels, NEW entered, NEW return,
                          Call(k, entered, return)
                   PROVE  FALSE
        OBVIOUS
      <3>1. k # l
        BY DEF Call
      <3> QED
        BY <3>1 DEF Call, Inv, TypeOK
    <2>2. awaited' # awaited
      OBVIOUS
    <2>3. ~ ExecuteSvc /\ ~ ExecuteSmc /\ ~ TakeIrq
      BY <2>1, LevelsOK DEF ExecuteSvc, ExecuteSmc, TakeIrq
    <2> QED
      BY <2>2, <2>3
      DEF Next, vars, Execute, WriteElr, WriteSpsr, WriteVbar, MaskIrq, HostSetsEl
  <1>2. l = BankOf(cpu.el)
    <2>1. awaited' = [awaited EXCEPT ![BankOf(cpu.el)] = Nothing]
      BY <1>1, EretOK
    <2> QED
      BY <2>1 DEF Inv, TypeOK
  <1>3. cpu.bank[l] = awaited[l]
    BY DEF Inv, BanksIntact
  <1> QED
    BY <1>1, <1>2, <1>3, EretOK

(* A handler returns to the place and level it was entered from.            *)
THEOREM HandlersReturn == Spec => ReturnsToCaller
  <1>1. Inv /\ [Next]_vars => [Returns]_vars
    BY ReturnStep
  <1> QED
    BY <1>1, InvInit, InvNext, PTL DEF Spec, ReturnsToCaller, Returns
=============================================================================
