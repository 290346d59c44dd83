------------------------------ MODULE RsaNumbers ------------------------------
(***************************************************************************)
(* What core/src/security/rsa.rs is asked and what it has to answer, in    *)
(* numbers: powers modulo a number, inverses, primes, and whether a        *)
(* signature is the one of a digest.                                       *)
(***************************************************************************)
EXTENDS Integers

CONSTANT Questions

VARIABLES question, answer

(* All powers up to one with that exponent.                                 *)
Powers(base, modulus, exponent) ==
  LET remainder[i \in 0 .. exponent] ==
        IF i = 0 THEN 1 % modulus ELSE (remainder[i - 1] * base) % modulus
  IN remainder

Power(base, exponent, modulus) == Powers(base, modulus, exponent)[exponent]

Inverses(number, modulus) == {x \in 1 .. modulus - 1 : (number * x) % modulus = 1}

IsPrime(number) ==
  number > 1 /\ \A divisor \in 2 .. number - 1 :
                  divisor * divisor <= number => number % divisor # 0

(* The first odd prime from there on.                                       *)
PrimeFrom(number) ==
  CHOOSE p \in number .. 2 * number + 1 :
    /\ p % 2 = 1 /\ IsPrime(p)
    /\ \A smaller \in number .. p - 1 : smaller % 2 = 0 \/ ~IsPrime(smaller)

(* The right answers: a number, none (-1), or a verdict.                    *)
Right ==
  CASE question.kind = "power" -> {Power(question.base, question.exponent, question.modulus)}
    [] question.kind = "inverse" ->
         LET inverses == Inverses(question.number, question.modulus)
         IN IF inverses = {} THEN {-1} ELSE inverses
    [] question.kind = "prime" -> {PrimeFrom(question.seed)}
    [] question.kind = "signature" ->
         {IF question.digest = question.claimed THEN "Ok" ELSE "DigestMismatch"}

Init == question \in Questions /\ answer = <<>>

Answer ==
  /\ answer = <<>>
  /\ \E right \in Right : answer' = <<right>>
  /\ UNCHANGED question

Spec == Init /\ [][Answer]_<<question, answer>>
=============================================================================
