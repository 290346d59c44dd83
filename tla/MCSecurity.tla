------------------------------ MODULE MCSecurity ------------------------------
(* An NCA is read, or RSA is asked a question: the two share no state. *)
EXTENDS NcaContent, RsaLoops, Bitwise

(* Blocks of two bytes of two bits each. *)

MCBytes == 0 .. 3

(* A small cipher: two rounds, each of which changes one byte of the block. *)
MCCipher(key, block) ==
  LET first == (block[1] + key[1] + block[2] * block[2]) % 4
  IN <<first, (block[2] + 3 * first + key[2] + first * first * key[1]) % 4>>

MCDecipher(key, block) ==
  LET second == (block[2] - 3 * block[1] - key[2] - block[1] * block[1] * key[1]) % 4
  IN <<(block[1] - key[1] - second * second) % 4, second>>

MCXor(a, b) == a ^^ b

MCHeaderKey == <<<<1, 2>>, <<3, 1>>>>
MCSbk == <<2, 1>>
MCSskSource == <<0, 3>>
MCDeviceKeySource == <<1, 1>>

(* Right and wrong magics, versions, header keys and consoles; eight title *)
(* keys; sections of up to five bytes, with counters that are neighbours.   *)
Contents ==
  [magic : {1, 2}, version : {3, 2}, titleKey : MCBytes \X {0, 3},
   headerKey : {MCHeaderKey, <<<<1, 2>>, <<0, 0>>>>},
   deviceKey : {DeviceKey(MCSbk), <<0, 0>>},
   counters : {<<0, 1>>, <<2, 3>>},
   sections : {<<<<1, 2, 3>>, <<3, 0, 1, 2, 2>>>>, <<<<2, 2>>, <<1>>>>}]

MCFiles == {Sealed(content, sectors) : content \in Contents, sectors \in 2 .. 3}
-----------------------------------------------------------------------------
(* Numbers of limbs of two bytes of two bits each, six bytes at most: bases *)
(* above the square of the modulus and below it, moduli at both sides of a  *)
(* limb's end, numbers without an inverse, and a key of 37 * 41.            *)
MCQuestions ==
  [kind : {"power"}, base : {0, 1, 2, 15, 16, 17, 250, 1023}, exponent : {0, 1, 2, 3, 7, 16, 18},
   modulus : {1, 3, 15, 16, 17, 100, 255, 256, 257}]
  \union [kind : {"inverse"}, number : {0, 1, 2, 7, 16, 30, 256, 1000}, modulus : {1, 2, 9, 16, 17, 255, 360}]
  \union [kind : {"prime"}, seed : {1, 2, 24, 140, 254, 1328}]
  \union [kind : {"signature"}, digest : {<<0>>, <<2>>}, claimed : {<<0>>, <<2>>, <<3>>}]
MCPrefix == <<2>>
MCKey == [n |-> 1517, e |-> 7, d |-> 103]
-----------------------------------------------------------------------------
NoFile == CHOOSE f \in MCFiles : f.content.deviceKey # DeviceKey(MCSbk)

SecurityInit ==
  \/ /\ Init
     /\ round = "closed" /\ question = CHOOSE q \in MCQuestions : TRUE
     /\ answer = <<>> /\ power = Idle /\ euclid = Idle /\ candidate = Idle
  \/ /\ RsaInit
     /\ stage = "closed" /\ file = NoFile
     /\ opened = <<>> /\ titleKey = <<>> /\ contents = <<>>

Reading == Next /\ UNCHANGED rsaVars

Calculating == RsaNext /\ UNCHANGED vars

SecuritySpec ==
  SecurityInit /\ [][Reading \/ Calculating]_<<vars, rsaVars>>
    /\ WF_vars(Reading)
=============================================================================
