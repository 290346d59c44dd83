------------------------------ MODULE RsaRounds ------------------------------
(***************************************************************************)
(* mod_pow and mod_inverse of core/src/security/rsa.rs a round at a time,  *)
(* in numbers: what RsaLoops does with limbs.  A reduction leaves the      *)
(* remainder; how Barrett's finds it is the estimate below, with bound     *)
(* standing for 2^(2 * k_bits).  Other questions are answered at once.     *)
(***************************************************************************)
EXTENDS RsaNumbers

VARIABLES power,    \* mod_pow: the weight of the last bit taken, and the result
          euclid    \* mod_inverse: r0, r1, s0, s1

roundVars == <<question, answer, power, euclid>>

QuestionsTyped ==
  \A q \in Questions :
    \/ q.kind = "power" /\ q.base \in Nat /\ q.exponent \in Nat /\ q.modulus \in Nat \ {0}
    \/ q.kind = "inverse" /\ q.number \in Nat /\ q.modulus \in Nat \ {0}
    \/ q.kind \in {"prime", "signature"}

Idle == <<>>

Mu(n, bound) == bound \div n

Estimate(x, n, bound) == (x * Mu(n, bound)) \div bound
-----------------------------------------------------------------------------
InitRounds == Init /\ power = Idle /\ euclid = Idle

Fresh == answer = <<>> /\ power = Idle /\ euclid = Idle

(* Before the first bit the weight is a power of two above the exponent.    *)
AskPower ==
  /\ Fresh /\ question.kind = "power"
  /\ IF question.modulus = 1
     THEN power' = [weight |-> 1, result |-> 0]
     ELSE \E weight \in question.exponent + 1 .. 2 * question.exponent + 1 :
            power' = [weight |-> weight, result |-> 1]
  /\ UNCHANGED <<question, answer, euclid>>

(* Square, and multiply when the next bit is set.                           *)
PowerStep ==
  /\ power # Idle
  /\ \E half \in 1 .. power.weight :
       /\ power.weight = 2 * half
       /\ LET square == (power.result * power.result) % question.modulus
          IN power' = [weight |-> half,
                       result |-> IF (question.exponent \div half) % 2 = 0 THEN square
                                  ELSE (square * question.base) % question.modulus]
  /\ UNCHANGED <<question, answer, euclid>>

PowerDone ==
  /\ answer = <<>> /\ power # Idle /\ power.weight = 1
  /\ answer' = <<power.result>>
  /\ UNCHANGED <<question, power, euclid>>

AskInverse ==
  /\ Fresh /\ question.kind = "inverse"
  /\ IF question.modulus = 1 \/ question.number = 0
     THEN answer' = <<-1>> /\ UNCHANGED euclid
     ELSE /\ euclid' = [r0 |-> question.number, r1 |-> question.modulus, s0 |-> 1, s1 |-> 0]
          /\ UNCHANGED answer
  /\ UNCHANGED <<question, power>>

(* a - b modulo n, without going below zero.                                *)
Difference(a, b, n) ==
  IF a >= b THEN (a - b) % n
  ELSE IF a % n >= b % n THEN (a % n) - (b % n)
  ELSE n - ((b % n) - (a % n))

InverseStep ==
  /\ euclid # Idle /\ euclid.r1 # 0
  /\ LET q == euclid.r0 \div euclid.r1
     IN euclid' = [r0 |-> euclid.r1, r1 |-> euclid.r0 - q * euclid.r1,
                   s0 |-> euclid.s1,
                   s1 |-> Difference(euclid.s0, q * euclid.s1, question.modulus)]
  /\ UNCHANGED <<question, answer, power>>

InverseDone ==
  /\ answer = <<>> /\ euclid # Idle /\ euclid.r1 = 0
  /\ answer' = IF euclid.r0 = 1 THEN <<euclid.s0>> ELSE <<-1>>
  /\ UNCHANGED <<question, power, euclid>>

AnswerAtOnce ==
  /\ question.kind \in {"prime", "signature"}
  /\ Answer
  /\ UNCHANGED <<power, euclid>>

NextRounds ==
  \/ AskPower \/ PowerStep \/ PowerDone
  \/ AskInverse \/ InverseStep \/ InverseDone
  \/ AnswerAtOnce

SpecRounds == InitRounds /\ [][NextRounds]_roundVars
=============================================================================
