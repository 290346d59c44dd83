------------------------------ MODULE MCMachine ------------------------------
(* Two cores, a memory of 15 bytes and the images that can go wrong. *)
EXTENDS Machine

(* The fuses, a device that reaches into the controller's window, and one   *)
(* that begins in it and wraps past the end of the addresses.                *)
MCDevices ==
  {[name |-> "efuse", base |-> EfuseBase, size |-> EfuseEnd - EfuseBase],
   [name |-> "timer", base |-> MmioBase - 1, size |-> 2],
   [name |-> "wide", base |-> MmioBase + 1, size |-> AddressModulus - 2]}

MCEncrypt(k, block) == (2 * k + block) % 4
MCCrypt(k, iv, i, byte) == (byte + (k \div (IF i % 2 = 0 THEN 2 ELSE 1)) + iv) % 2

MCFuses == {[sbk |-> 1], [sbk |-> 2]}

Header(magic, iv) == [magic |-> magic, iv |-> iv]

Image(header, payload, by, signed) ==
  [header |-> header, payload |-> payload, signature |-> [by |-> by, over |-> signed]]

Signed(header, payload, by) == Image(header, payload, by, <<header, payload>>)

Good == Header(TRUE, 0)

(* Packages of one, two and three bytes, properly signed; one whose header  *)
(* was changed after it was signed, one whose package was; one by another    *)
(* signer; a bad magic; and one that is too short.                          *)
MCImages ==
  {Signed(Good, <<1, 0, 1>>, "rom"), Signed(Good, <<1, 1>>, "rom"),
   Signed(Header(TRUE, 1), <<1>>, "rom"), Signed(Good, <<1>>, "other"),
   Image(Header(TRUE, 1), <<1, 1>>, "rom", <<Good, <<1, 1>>>>),
   Image(Good, <<0, 1>>, "rom", <<Good, <<1, 1>>>>),
   Signed(Header(FALSE, 0), <<1>>, "rom"), Signed(Good, <<>>, "rom")}
=============================================================================
