------------------------------ MODULE SassLayout ------------------------------
(* Where each instruction handler of gpu/sm86.rs reads its operand fields in   *)
(* the 128-bit instruction word. A field is the sequence of its bit positions, *)
(* lowest first, so that a field put together from two ranges (opex, fmz) is a *)
(* concatenation. Most names sit at the same place in every handler: Place is  *)
(* that place, and a handler's entry names its fields and overrides the places *)
(* that differ. A name bound twice in a handler carries the suffix _2.         *)
EXTENDS Integers, Sequences, TLC

\* Mutant: the mask is one bit too wide.
BitsWide(first, width) == [i \in 1 .. width + 1 |-> first + i - 1]

\* The `width` bits from bit `first` up: ((inst >> first) & mask).
Bits(first, width) == [i \in 1 .. width |-> first + i - 1]

\* The usual place of every field name.
Place ==
    [pg |-> Bits(12, 3), pg_not |-> Bits(15, 1), barreg |-> Bits(16, 4), urd |-> Bits(16, 6),
     rd |-> Bits(16, 8), cbu_state |-> Bits(24, 6), ra |-> Bits(24, 8), cond |-> Bits(32, 2),
     ra_urb |-> Bits(32, 6), rb |-> Bits(32, 8), sb |-> Bits(32, 16), sa |-> Bits(32, 28),
     imm32 |-> Bits(32, 32), ra_offset |-> Bits(32, 32), simm |-> Bits(34, 48),
     cnt |-> Bits(38, 6), re |-> Bits(40, 8), sc_addr |-> Bits(40, 14), sbidx |-> Bits(44, 3),
     rb_offset |-> Bits(44, 20), le |-> Bits(47, 1), id |-> Bits(48, 2), sc |-> Bits(48, 16),
     re_reuse_src_e |-> Bits(50, 1), barname |-> Bits(54, 4), sc_bank |-> Bits(54, 5),
     seq |-> Bits(55, 1), srchalf |-> Bits(56, 1), dstbyte |-> Bits(57, 2), shflmd |-> Bits(58, 2),
     b |-> Bits(59, 1), clamp |-> Bits(59, 2), scr |-> Bits(60, 1), extract |-> Bits(60, 2),
     iswzb |-> Bits(60, 2) \o Bits(86, 1), datasize |-> Bits(61, 2), destidx |-> Bits(61, 3),
     sc_abs_b |-> Bits(62, 1), vtgmode |-> Bits(62, 2), sc_neg_b |-> Bits(63, 1),
     pnz |-> Bits(64, 4), ra_urc |-> Bits(64, 6), rc |-> Bits(64, 8), up |-> Bits(67, 1),
     sp2 |-> Bits(68, 2), pr |-> Bits(68, 3), e |-> Bits(72, 1), num |-> Bits(72, 2),
     pmode |-> Bits(72, 3), pixmasku04 |-> Bits(72, 4), lop |-> Bits(16, 8) \o Bits(64, 3) \o Bits(72, 5),
     imm8 |-> Bits(72, 8),
     sz |-> Bits(73, 1), sc_abs_c |-> Bits(74, 1), sc_absolute |-> Bits(74, 1),
     srcfmt |-> Bits(74, 1) \o Bits(84, 2), bop |-> Bits(74, 2), mufuop |-> Bits(74, 4),
     sc_neg_c |-> Bits(75, 1), sc_negate |-> Bits(75, 1), size |-> Bits(75, 2),
     fmt |-> Bits(75, 2) \o Bits(84, 2), dstfmt_srcfmt |-> Bits(75, 3) \o Bits(84, 3),
     scaleu5 |-> Bits(75, 5), memdesc |-> Bits(76, 1), fmz |-> Bits(76, 1) \o Bits(80, 1),
     dstfmt |-> Bits(76, 2), srcfmta |-> Bits(76, 2) \o Bits(83, 1), test |-> Bits(76, 4),
     satfinite |-> Bits(77, 1), satrelu |-> Bits(77, 1) \o Bits(79, 1), pq |-> Bits(77, 3),
     mem |-> Bits(77, 4), merge |-> Bits(78, 1), ofmt |-> Bits(78, 1) \o Bits(85, 1),
     stride |-> Bits(78, 2), srcfmtb |-> Bits(78, 2) \o Bits(84, 1), mdidx |-> Bits(78, 4),
     sem |-> Bits(79, 2), rndmode |-> Bits(79, 3), ftz |-> Bits(80, 1), nan |-> Bits(81, 1),
     mode |-> Bits(81, 2), pu |-> Bits(81, 3), rndsrc |-> Bits(82, 1), clear |-> Bits(83, 1),
     vecidx |-> Bits(83, 7), cop |-> Bits(84, 3), vecidx6 |-> Bits(84, 6), warp |-> Bits(85, 1),
     depth |-> Bits(85, 2), cas |-> Bits(87, 1), comp |-> Bits(87, 2), pp |-> Bits(87, 3),
     op |-> Bits(87, 4), input_reg_sz_32_dist |-> Bits(90, 1), pm_pred |-> Bits(102, 2),
     opex |-> Bits(105, 5) \o Bits(122, 3), dst_wr_sb |-> Bits(110, 3),
     src_rel_sb |-> Bits(113, 3), req_bit_set |-> Bits(116, 6)]

\* The fields every handler reads: its guard and the scheduling fields.
Common == {"pg", "pg_not", "pm_pred", "dst_wr_sb", "src_rel_sb", "req_bit_set", "opex"}

\* A handler that reads these fields, each at its usual place.
Usual(names) == [f \in names \cup Common |-> Place[f]]

\* Groups of fields that go together, and the usual exceptions.
ConstB == {"sc_addr", "sc_bank"}
PredIn == {"pp", "input_reg_sz_32_dist"}
Tested == PredIn \cup {"pu", "cop"}
Offset24 == [ra_offset |-> Bits(40, 24)]
ModsB == [sc_absolute |-> Bits(62, 1), sc_negate |-> Bits(63, 1)]
NegB == [sc_negate |-> Bits(63, 1)]

LayoutAl2pToBar ==
    "al2p" :> ([ra_offset |-> Bits(40, 11), op |-> Bits(79, 1)] @@ Usual({"rd", "ra", "bop"}))
    @@ "ald" :> ([op |-> Bits(79, 1)] @@ Usual({"rd", "ra", "rb", "bop", "dstfmt"}))
    @@ "arrives" :> (Offset24 @@ [sz |-> Bits(73, 3)] @@ Usual({"ra", "ra_urc", "e"}))
    @@ "ast" :> Usual({"ra", "rb", "rc", "bop", "dstfmt"})
    @@ "atom" :> (Offset24 @@ [sz |-> Bits(73, 4)] @@ Usual({"rd", "ra", "rb", "e", "mem", "pu",
           "cop", "op"}))
    @@ "atomg" :> (Offset24 @@ [sz |-> Bits(73, 4)] @@ Usual({"rd", "ra", "rb", "e", "mem", "pu",
           "cop", "op"}))
    @@ "atoms" :> (Offset24 @@ [sz |-> Bits(73, 2)] @@ Usual({"rd", "ra", "rb", "stride", "op"}))
    @@ "b2r" :> Usual({"rd", "barname", "stride"})
    @@ "bar" :> ([sc |-> Bits(42, 12)] @@ Usual({"barname", "pq", "ftz"}))

LayoutBitextractToBrx ==
    "bitextract" :> ([num |-> Bits(53, 2)] @@ Usual({"rd", "ra", "rb", "srchalf", "dstbyte",
           "datasize", "rc", "e", "sz", "size", "mdidx"}))
    @@ "bmma" :> ([op |-> Bits(77, 2), op_2 |-> Bits(87, 4)] @@ Usual({"rd", "ra", "rb", "rc", "sz",
           "sc_absolute", "size", "ftz"}))
    @@ "bmov" :> ([clear |-> Bits(84, 1)] @@ Usual({"rd", "cbu_state"}))
    @@ "bmsk" :> Usual(ConstB \cup {"rd", "ra", "sc_negate"})
    @@ "bpt" :> ([sb |-> Bits(34, 3)] @@ Usual({"cop"}))
    @@ "bra" :> Usual(PredIn \cup {"cond", "simm", "depth"})
    @@ "break_" :> Usual(PredIn \cup {"barreg"})
    @@ "brev" :> Usual(ConstB \cup {"rd"})
    @@ "brx" :> Usual(PredIn \cup {"ra", "simm", "depth"})

LayoutBrxuToCsmtest ==
    "brxu" :> Usual(PredIn \cup {"cbu_state", "cond", "simm", "depth"})
    @@ "bssy" :> ([sa |-> Bits(34, 30)] @@ Usual(PredIn \cup {"barreg"}))
    @@ "bsync" :> Usual(PredIn \cup {"barreg"})
    @@ "call" :> ([depth |-> Bits(86, 1)] @@ Usual(ConstB \cup PredIn))
    @@ "cctl" :> ([mode |-> Bits(78, 3)] @@ Usual({"ra", "ra_offset", "e", "op"}))
    @@ "cctll" :> (Offset24 @@ Usual({"ra", "op"}))
    @@ "cctlt" :> Usual({"rb", "depth"})
    @@ "clmad" :> Usual(ConstB \cup {"rd", "ra", "rc", "satfinite"})
    @@ "cs2r" :> Usual({"rd", "imm8", "ftz"})
    @@ "csmtest" :> ([dstfmt |-> Bits(76, 3)] @@ Usual(Tested \cup {"sa", "vtgmode", "bop"}))

LayoutDaddToExit ==
    "dadd" :> (ModsB @@ Usual(ConstB \cup {"rd", "ra", "e", "sz", "stride"}))
    @@ "depbar" :> Usual({"ra_urb", "cnt", "sbidx", "le"})
    @@ "dfma" :> (ModsB @@ [sc_absolute_2 |-> Bits(74, 1), sc_negate_2 |-> Bits(75, 1)] @@
           Usual(ConstB \cup {"rd", "ra", "rc", "e", "sz", "stride"}))
    @@ "dmma" :> (ModsB @@ [sc_absolute_2 |-> Bits(74, 1), sc_negate_2 |-> Bits(75, 1)] @@
           Usual({"rd", "ra", "rb", "rc", "e", "sz", "memdesc", "stride", "op"}))
    @@ "dmul" :> (ModsB @@ Usual(ConstB \cup {"rd", "ra", "e", "sz", "stride"}))
    @@ "dsetp" :> (ModsB @@ Usual(ConstB \cup Tested \cup {"ra", "e", "sz", "bop", "test"}))
    @@ "errbar" :> Usual({})
    @@ "exit" :> ([mode |-> Bits(84, 2), depth |-> Bits(86, 1)] @@ Usual(PredIn))

LayoutF2fToFadd32i ==
    "f2f" :> (ModsB @@ Usual(ConstB \cup {"rd", "stride", "ftz", "dstfmt_srcfmt"}))
    @@ "f2fp" :> ([dstfmt |-> Bits(76, 1) \o Bits(86, 1)] @@ Usual(ConstB \cup {"rd", "ra", "rc",
           "sc_negate", "satfinite", "merge", "rndmode"}))
    @@ "f2i" :> (ModsB @@ [dstfmt |-> Bits(72, 1) \o Bits(75, 2), mode |-> Bits(84, 2)] @@
           Usual({"rd", "ra_urb", "sc_addr", "extract", "satfinite", "stride", "ftz"}))
    @@ "f2ip" :> Usual(ConstB \cup {"rd", "ra", "rc", "e", "sc_absolute", "sc_negate", "dstfmt",
           "stride"})
    @@ "fadd" :> (ModsB @@ Usual(ConstB \cup {"rd", "ra", "e", "sz", "satfinite", "stride", "ftz"}))
    @@ "fadd32i" :> Usual({"rd", "ra", "ra_offset", "e", "sz", "satfinite", "stride", "ftz"})

LayoutFchkToFmnmx ==
    "fchk" :> (ModsB @@ Usual(ConstB \cup {"ra", "e", "sz", "pu"}))
    @@ "ffma" :> Usual(ConstB \cup {"rd", "ra", "sc_abs_b", "sc_neg_b", "rc", "e", "sz", "sc_abs_c",
           "sc_neg_c", "satfinite", "stride", "fmz"})
    @@ "ffma32i" :> Usual({"rd", "ra", "ra_offset", "rc", "e", "sz", "sc_absolute", "sc_negate",
           "satfinite", "stride", "fmz"})
    @@ "flo" :> (NegB @@ Usual(ConstB \cup {"rd", "sz", "sc_absolute", "pu"}))
    @@ "fmnmx" :> (ModsB @@ Usual(ConstB \cup PredIn \cup {"rd", "ra", "e", "sz", "ftz", "nan",
           "rndsrc"}))

LayoutFmulToFset ==
    "fmul" :> (ModsB @@ Usual(ConstB \cup {"rd", "ra", "e", "sz", "satfinite", "stride", "fmz",
           "cop"}))
    @@ "fmul32i" :> Usual({"rd", "ra", "ra_offset", "satfinite", "stride", "fmz", "cop"})
    @@ "footprint" :> Usual(ConstB \cup PredIn \cup {"rd", "ra", "rb", "b", "scr", "destidx", "rc",
           "memdesc", "satfinite", "merge", "pu"})
    @@ "frnd" :> (ModsB @@ Usual(ConstB \cup {"rd", "extract", "stride", "ftz", "fmt"}))
    @@ "fsel" :> (ModsB @@ Usual(ConstB \cup PredIn \cup {"rd", "ra", "e", "sz", "ftz"}))
    @@ "fset" :> (ModsB @@ Usual(ConstB \cup PredIn \cup {"rd", "ra", "e", "sz", "bop", "test",
           "ftz"}))

LayoutFsetpToHadd232i ==
    "fsetp" :> (ModsB @@ Usual(ConstB \cup Tested \cup {"ra", "e", "sz", "bop", "test", "ftz"}))
    @@ "fswzadd" :> Usual({"rd", "ra", "rb", "rc", "satfinite", "stride", "ftz"})
    @@ "gather" :> ([num |-> Bits(53, 2)] @@ Usual({"rd", "ra", "rb", "srchalf", "dstbyte",
           "datasize", "rc", "e", "sz", "size", "mdidx"}))
    @@ "genmetadata" :> ([num |-> Bits(53, 2), fmt |-> Bits(60, 3), num_2 |-> Bits(72, 2)] @@
           Usual({"rd", "ra", "rb", "seq", "rc", "sc_absolute", "size", "mdidx", "vecidx6"}))
    @@ "getlmembase" :> Usual({"rd"})
    @@ "hadd2" :> (ModsB @@ Usual(ConstB \cup {"rd", "ra", "extract", "e", "bop", "satfinite",
           "merge", "ftz"}))
    @@ "hadd2_32i" :> Usual({"rd", "ra", "sb", "sc", "e", "sz", "bop", "satfinite", "merge", "ftz"})

LayoutHfma2ToHmul2 ==
    "hfma2" :> (ModsB @@ [clear_2 |-> Bits(84, 1)] @@ Usual(ConstB \cup {"rd", "ra", "rc", "e",
           "sz", "bop", "satrelu", "fmz", "mode", "clear", "ofmt", "iswzb"}))
    @@ "hfma2_mma" :> (ModsB @@ [clear_2 |-> Bits(84, 1)] @@ Usual(ConstB \cup {"rd", "ra", "rc",
           "e", "sz", "satrelu", "fmz", "clear"}))
    @@ "hfma2_32i" :> ([clear_2 |-> Bits(84, 1)] @@ Usual({"rd", "ra", "sb", "sc", "rc", "e", "sz",
           "bop", "satrelu", "fmz", "mode", "clear", "ofmt"}))
    @@ "hmma" :> (NegB @@ [size |-> Bits(75, 1) \o Bits(78, 1), srcfmt |-> Bits(82, 2)] @@
           Usual({"rd", "ra", "rb", "re", "id", "re_reuse_src_e", "rc", "e", "sz", "memdesc", "nan",
           "op"}))
    @@ "hmnmx2" :> (ModsB @@ Usual(ConstB \cup PredIn \cup {"rd", "ra", "extract", "e", "sz", "bop",
           "ftz", "nan", "rndsrc", "ofmt"}))
    @@ "hmul2" :> (ModsB @@ Usual(ConstB \cup {"rd", "ra", "extract", "e", "sz", "bop", "satfinite",
           "merge", "fmz"}))

LayoutHmul232iToI2ip ==
    "hmul2_32i" :> Usual({"rd", "ra", "sb", "sc", "e", "sz", "bop", "satfinite", "merge", "fmz"})
    @@ "hset2" :> (ModsB @@ [bop |-> Bits(69, 2), memdesc |-> Bits(71, 1), bop_2 |-> Bits(74, 2)] @@
           Usual(ConstB \cup PredIn \cup {"rd", "ra", "extract", "e", "sz", "test", "ftz"}))
    @@ "hsetp2" :> (ModsB @@ [bop |-> Bits(69, 2), memdesc |-> Bits(71, 1), bop_2 |-> Bits(74, 2)]
           @@ Usual(ConstB \cup Tested \cup {"ra", "extract", "e", "sz", "test", "ftz"}))
    @@ "i2f" :> Usual({"rd", "ra_urb", "sc_addr", "extract", "size", "stride", "srcfmt"})
    @@ "i2fp" :> ([sz |-> Bits(75, 3)] @@ Usual(ConstB \cup {"rd", "stride", "srcfmt"}))
    @@ "i2i" :> Usual(ConstB \cup {"rd", "dstfmt"})
    @@ "i2ip" :> ([dstfmt |-> Bits(76, 3)] @@ Usual(ConstB \cup {"rd", "ra", "rc", "num", "bop"}))

LayoutIabsToIadd3 ==
    "iabs" :> Usual(ConstB \cup {"rd"})
    @@ "iadd" :> Usual(Tested \cup {"rd", "ra", "rc", "e", "sc_absolute", "sc_negate", "pq", "ftz",
           "ra_offset", "rb"})
    @@ "iadd3" :> Usual(Tested \cup {"rd", "ra", "rc", "e", "sc_absolute", "sc_negate", "pq", "ftz",
           "rb"})

LayoutIadd32iToImad ==
    "iadd32i" :> Usual(Tested \cup {"rd", "ra", "imm32", "rc", "e", "sc_absolute", "sc_negate",
           "pq", "ftz"})
    @@ "ide" :> ([clear |-> Bits(84, 1)] @@ Usual({"sb"}))
    @@ "idp" :> Usual(ConstB \cup {"rd", "ra", "rc", "sz", "sc_absolute", "sc_negate", "dstfmt"})
    @@ "idp4a" :> Usual(ConstB \cup {"rd", "ra", "rc", "sz", "sc_absolute", "sc_negate", "dstfmt"})
    @@ "imad" :> Usual(ConstB \cup Tested \cup {"rd", "ra", "rc", "sz", "sc_absolute", "sc_negate"})

LayoutImmaToIsbewr ==
    "imma" :> ([size |-> Bits(75, 1) \o Bits(85, 2)] @@ Usual({"rd", "ra", "rb", "re_reuse_src_e",
           "rc", "e", "sz", "sc_absolute", "nan", "rndsrc", "srcfmta", "srcfmtb", "op"}))
    @@ "imnmx" :> Usual(ConstB \cup PredIn \cup {"rd", "ra", "sz"})
    @@ "imul" :> Usual(ConstB \cup PredIn \cup {"rd", "ra", "rc", "sz", "sc_absolute", "pu"})
    @@ "imul32i" :> Usual(PredIn \cup {"rd", "ra", "ra_offset", "rc", "sz", "sc_absolute", "pu"})
    @@ "ipa" :> Usual({"rd", "rb", "rc", "dstfmt", "stride", "pu"})
    @@ "isberd" :> ([ra_offset |-> Bits(40, 16), op |-> Bits(79, 1)] @@ Usual({"rd", "ra", "bop",
           "dstfmt", "merge"}))
    @@ "isbewr" :> ([ra_offset |-> Bits(40, 16), op |-> Bits(79, 1)] @@ Usual({"ra", "rb", "bop",
           "dstfmt", "merge"}))

LayoutIscaddToKill ==
    "iscadd" :> Usual(PredIn \cup {"rd", "ra", "ra_offset", "rc", "e", "sz", "sc_absolute",
           "scaleu5", "ftz", "pu"})
    @@ "iscadd32i" :> Usual(PredIn \cup {"rd", "ra", "ra_offset", "rc", "e", "sz", "sc_absolute",
           "scaleu5", "ftz", "pu"})
    @@ "isetp" :> ([memdesc |-> Bits(71, 1), dstfmt |-> Bits(76, 3)] @@ Usual(ConstB \cup Tested
           \cup {"ra", "pr", "e", "sz", "bop"}))
    @@ "jmp" :> Usual(ConstB \cup PredIn \cup {"cond", "depth"})
    @@ "jmx" :> Usual(PredIn \cup {"ra", "simm", "depth"})
    @@ "jmxu" :> Usual(PredIn \cup {"cbu_state", "cond", "simm", "depth"})
    @@ "kill" :> Usual(PredIn)

LayoutLdToLdl ==
    "ld" :> ([sz |-> Bits(73, 3)] @@ Usual({"rd", "ra", "ra_offset", "pnz", "sp2", "e", "memdesc",
           "mem", "cop"}))
    @@ "ldc" :> ([ra_offset |-> Bits(38, 16), sz |-> Bits(73, 3)] @@ Usual({"rd", "ra", "sc_bank",
           "stride"}))
    @@ "ldg" :> (Offset24 @@ [sz |-> Bits(73, 3)] @@ Usual({"rd", "ra", "e", "mem", "pu", "cop",
           "pnz", "sp2", "memdesc"}))
    @@ "ldgdepbar" :> Usual({})
    @@ "ldgsts" :> ([ra_offset |-> Bits(32, 12), input_reg_sz_32_dist |-> Bits(70, 1), sp2 |->
           Bits(71, 2), sz |-> Bits(73, 3), input_reg_sz_32_dist_2 |-> Bits(90, 1)] @@ Usual({"rd",
           "ra", "rb_offset", "ra_urc", "memdesc", "mem", "nan", "rndsrc", "cop", "pp"}))
    @@ "ldl" :> (Offset24 @@ [sz |-> Bits(73, 3)] @@ Usual({"rd", "ra", "memdesc", "cop"}))

LayoutLdsToLepc ==
    "lds" :> (Offset24 @@ [sz |-> Bits(73, 3)] @@ Usual({"rd", "ra", "stride"}))
    @@ "ldsm" :> (Offset24 @@ [sz |-> Bits(75, 3)] @@ Usual({"rd", "ra", "ra_urb", "num",
           "stride"}))
    @@ "ldtram" :> Usual({"rd", "cbu_state", "rc", "e"})
    @@ "lea" :> Usual(PredIn \cup {"rd", "ra", "ra_offset", "rc", "e", "sz", "sc_absolute",
           "scaleu5", "ftz", "pu"})
    @@ "lepc" :> Usual({"rd"})

LayoutLop3ToMov32i ==
    "lop3" :> Usual(Tested \cup {"rd", "ra", "ra_offset", "rc", "imm8", "ftz"})
    @@ "lop32i" :> Usual(PredIn \cup {"rd", "ra", "ra_offset", "rc", "imm8", "ftz", "pu"})
    @@ "match_" :> ([op |-> Bits(79, 1)] @@ Usual({"rd", "ra", "sz", "pu"}))
    @@ "membar" :> ([dstfmt |-> Bits(76, 3)] @@ Usual({"e", "sem"}))
    @@ "mov" :> Usual(ConstB \cup {"rd", "pixmasku04"})
    @@ "mov32i" :> Usual({"rd", "ra_offset", "pixmasku04"})

LayoutMovmToPmtrig ==
    "movm" :> ([sz |-> Bits(75, 3)] @@ Usual({"rd", "ra", "stride"}))
    @@ "mufu" :> (ModsB @@ Usual(ConstB \cup {"rd", "sz", "mufuop"}))
    @@ "nanosleep" :> ([depth |-> Bits(86, 1)] @@ Usual(ConstB \cup PredIn \cup {"clear", "warp"}))
    @@ "nanotrap" :> ([depth |-> Bits(86, 1)] @@ Usual(ConstB \cup PredIn))
    @@ "nop" :> Usual({})
    @@ "out" :> Usual({"rd", "ra", "rb", "stride"})
    @@ "p2r" :> Usual(ConstB \cup {"rd", "ra", "dstfmt"})
    @@ "pixld" :> ([mode |-> Bits(78, 3)] @@ Usual({"rd", "pu"}))
    @@ "plop3" :> ([memdesc |-> Bits(71, 1)] @@ Usual(Tested \cup {"up", "pr", "lop", "pq", "ftz"}))
    @@ "pmtrig" :> Usual(PredIn \cup {"sb"})

LayoutPopcToRedux ==
    "popc" :> (NegB @@ Usual(ConstB \cup {"rd"}))
    @@ "prmt" :> Usual(ConstB \cup {"rd", "ra", "rc", "pmode"})
    @@ "psetp" :> Usual({"up", "pr", "lop", "pq", "pu", "cop", "pp"})
    @@ "qspc" :> (Offset24 @@ [sz |-> Bits(73, 2)] @@ Usual({"rd", "ra", "e", "pu"}))
    @@ "r2b" :> Usual({"rb", "barname", "stride"})
    @@ "r2p" :> Usual(ConstB \cup {"ra", "dstfmt"})
    @@ "r2ur" :> ([clear |-> Bits(84, 1)] @@ Usual({"urd", "ra", "pu"}))
    @@ "red" :> (Offset24 @@ [memdesc |-> Bits(71, 1), sz |-> Bits(73, 4)] @@ Usual({"ra", "rb",
           "e", "mem", "cop", "pp"}))
    @@ "redux" :> ([mode |-> Bits(78, 3)] @@ Usual({"urd", "ra", "sz"}))

LayoutRetToSgxt ==
    "ret" :> ([depth |-> Bits(86, 1)] @@ Usual(PredIn \cup {"ra", "simm", "warp"}))
    @@ "rpcmov" :> Usual({"ra_urb", "sc_addr"})
    @@ "rtt" :> Usual({})
    @@ "s2r" :> Usual({"rd", "imm8"})
    @@ "s2ur" :> Usual({"urd", "imm8"})
    @@ "scatter" :> ([sz |-> Bits(73, 4)] @@ Usual({"rd", "ra", "rb", "rc", "e", "mem", "mode",
           "vecidx", "input_reg_sz_32_dist"}))
    @@ "sel" :> Usual(ConstB \cup PredIn \cup {"rd", "ra"})
    @@ "setctaid" :> Usual({"ra", "stride"})
    @@ "setlmembase" :> Usual({"ra"})
    @@ "sgxt" :> Usual(ConstB \cup {"rd", "ra", "sz", "sc_negate"})

LayoutShfToSt ==
    "shf" :> ([sz |-> Bits(73, 2)] @@ Usual(ConstB \cup {"rd", "ra", "rc", "sc_negate", "memdesc",
           "ftz"}))
    @@ "shfl" :> ([sc |-> Bits(40, 13), sb |-> Bits(53, 5)] @@ Usual({"rd", "ra", "shflmd", "pu"}))
    @@ "shl" :> ([sz |-> Bits(73, 2)] @@ Usual(ConstB \cup {"rd", "ra", "rc", "sc_negate",
           "memdesc", "ftz"}))
    @@ "shr" :> ([sz |-> Bits(73, 2)] @@ Usual(ConstB \cup {"rd", "ra", "rc", "sc_negate",
           "memdesc", "ftz"}))
    @@ "spmetadata" :> ([sz |-> Bits(73, 4)] @@ Usual({"rd", "rb", "destidx", "rc", "e", "mem",
           "mode", "vecidx"}))
    @@ "st" :> ([sz |-> Bits(73, 3)] @@ Usual({"ra", "ra_offset", "rc", "e", "memdesc", "mem",
           "cop"}))

LayoutStgToSuquery ==
    "stg" :> (Offset24 @@ [sz |-> Bits(73, 3)] @@ Usual({"ra", "rb", "e", "mem", "cop", "memdesc"}))
    @@ "stl" :> (Offset24 @@ [sz |-> Bits(73, 3)] @@ Usual({"ra", "rb", "memdesc", "cop"}))
    @@ "sts" :> (Offset24 @@ [sz |-> Bits(73, 3)] @@ Usual({"ra", "rb", "stride"}))
    @@ "suatom" :> ([sz |-> Bits(73, 3)] @@ Usual(ConstB \cup {"rd", "ra", "rb", "clamp", "destidx",
           "e", "mem", "pu", "cop"}))
    @@ "suld" :> ([sz |-> Bits(73, 3)] @@ Usual(ConstB \cup {"rd", "ra", "clamp", "destidx", "e",
           "mem", "pu", "cop"}))
    @@ "suquery" :> Usual(ConstB \cup {"rd", "ra", "destidx", "e", "pu", "cas"})

LayoutSuredToTmml ==
    "sured" :> ([sz |-> Bits(73, 3)] @@ Usual(ConstB \cup {"ra", "rb", "clamp", "destidx", "e",
           "mem", "cop", "pp"}))
    @@ "sust" :> ([sz |-> Bits(73, 3)] @@ Usual(ConstB \cup {"ra", "rb", "clamp", "destidx", "e",
           "mem", "cop"}))
    @@ "tex" :> Usual(ConstB \cup Tested \cup {"rd", "ra", "rb", "b", "scr", "destidx", "rc",
           "pixmasku04", "memdesc", "satfinite", "merge", "sem"})
    @@ "tld" :> Usual(ConstB \cup Tested \cup {"rd", "ra", "rb", "b", "scr", "destidx", "rc",
           "pixmasku04", "memdesc", "satfinite", "merge", "sem"})
    @@ "tld4" :> Usual(ConstB \cup {"rd", "ra", "rb", "b", "scr", "destidx", "rc", "pixmasku04",
           "dstfmt", "merge", "sem", "pu", "cop", "comp", "input_reg_sz_32_dist"})
    @@ "tmml" :> Usual(ConstB \cup {"rd", "ra", "rb", "b", "destidx", "rc", "pixmasku04",
           "satfinite", "input_reg_sz_32_dist"})

LayoutTtucctlToUbmsk ==
    "ttucctl" :> Usual({"ftz"})
    @@ "ttuclose" :> ([ra_offset |-> Bits(40, 16)] @@ Usual({"rd", "rc", "sc_absolute", "pu"}))
    @@ "ttugo" :> Usual({})
    @@ "ttuld" :> ([ra_offset |-> Bits(40, 16)] @@ Usual({"rd", "rc", "sc_absolute", "pu"}))
    @@ "ttumacrofuse" :> ([sb |-> Bits(40, 5)] @@ Usual({}))
    @@ "ttuopen" :> Usual({"e"})
    @@ "ttust" :> ([ra_offset |-> Bits(40, 16)] @@ Usual({"rb", "rc"}))
    @@ "txd" :> Usual(ConstB \cup {"rd", "ra", "rb", "b", "destidx", "rc", "pixmasku04", "memdesc",
           "sem", "pu", "cop", "cas", "input_reg_sz_32_dist"})
    @@ "txq" :> Usual(ConstB \cup {"rd", "ra", "b", "vtgmode", "rc", "pixmasku04",
           "input_reg_sz_32_dist"})
    @@ "ubmsk" :> Usual({"urd", "cbu_state", "ra_urb", "sc_negate"})

LayoutUbrevToUisetp ==
    "ubrev" :> Usual({"urd", "ra_urb"})
    @@ "uclea" :> ([sz |-> Bits(73, 4)] @@ Usual({"urd", "cbu_state", "sb", "pu"}))
    @@ "uf2fp" :> Usual({"urd", "cbu_state", "ra_offset", "ra_urc", "merge", "rndmode", "fmt"})
    @@ "uflo" :> (NegB @@ Usual({"urd", "ra_urb", "sz", "sc_absolute", "pu"}))
    @@ "uiadd3" :> (NegB @@ [sc_negate_2 |-> Bits(75, 1)] @@ Usual(Tested \cup {"urd", "cbu_state",
           "ra_urb", "ra_urc", "e", "sc_absolute", "pq", "ftz"}))
    @@ "uiadd3_64" :> (NegB @@ [sc_negate_2 |-> Bits(75, 1)] @@ Usual(Tested \cup {"urd",
           "cbu_state", "ra_urb", "ra_urc", "e", "sc_absolute", "pq", "ftz"}))
    @@ "uimad" :> Usual(PredIn \cup {"urd", "cbu_state", "ra_urb", "ra_urc", "sz", "sc_absolute",
           "sc_negate", "pu"})
    @@ "uisetp" :> ([memdesc |-> Bits(71, 1), dstfmt |-> Bits(76, 3)] @@ Usual(Tested \cup
           {"cbu_state", "ra_urb", "pr", "e", "sz", "bop"}))

LayoutUldcToUplop3 ==
    "uldc" :> ([ra_offset |-> Bits(38, 16), sz |-> Bits(73, 3)] @@ Usual({"urd", "sc_bank"}))
    @@ "ulea" :> Usual(PredIn \cup {"urd", "cbu_state", "ra_offset", "ra_urc", "e", "sz",
           "sc_absolute", "scaleu5", "ftz", "pu"})
    @@ "ulop" :> Usual(PredIn \cup {"urd", "cbu_state", "ra_offset", "ra_urc", "imm8", "ftz", "pu"})
    @@ "ulop3" :> Usual(PredIn \cup {"urd", "cbu_state", "ra_offset", "ra_urc", "imm8", "ftz",
           "pu"})
    @@ "ulop32i" :> Usual(PredIn \cup {"urd", "cbu_state", "ra_offset", "ra_urc", "imm8", "ftz",
           "pu"})
    @@ "umov" :> Usual({"urd", "ra_offset"})
    @@ "up2ur" :> Usual({"urd", "cbu_state", "ra_offset", "dstfmt"})
    @@ "uplop3" :> ([memdesc |-> Bits(71, 1)] @@ Usual(Tested \cup {"pr", "lop", "pq", "ftz"}))

LayoutUpopcToUshr ==
    "upopc" :> (NegB @@ Usual({"urd", "ra_urb"}))
    @@ "uprmt" :> Usual({"urd", "cbu_state", "ra_offset", "ra_urc", "e"})
    @@ "upsetp" :> Usual({"pr", "lop", "pq", "pu", "cop", "pp"})
    @@ "ur2up" :> Usual({"cbu_state", "ra_offset", "dstfmt"})
    @@ "usel" :> Usual(PredIn \cup {"urd", "cbu_state", "ra_urb"})
    @@ "usgxt" :> Usual({"urd", "cbu_state", "ra_urb", "sz", "sc_negate"})
    @@ "ushf" :> ([sz |-> Bits(73, 2)] @@ Usual({"urd", "cbu_state", "ra_urb", "ra_urc",
           "sc_negate", "memdesc", "ftz"}))
    @@ "ushl" :> ([sz |-> Bits(73, 2)] @@ Usual({"urd", "cbu_state", "ra_urb", "ra_urc",
           "sc_negate", "memdesc", "ftz"}))
    @@ "ushr" :> ([sz |-> Bits(73, 2)] @@ Usual({"urd", "cbu_state", "ra_offset", "ra_urc",
           "sc_negate", "memdesc", "ftz"}))

LayoutVabsdiffToYield ==
    "vabsdiff" :> Usual(ConstB \cup {"rd", "ra", "rc", "sz", "pu"})
    @@ "vabsdiff4" :> Usual(ConstB \cup {"rd", "ra", "rc", "sz", "sc_negate", "pu"})
    @@ "vote" :> Usual(PredIn \cup {"rd", "num", "pu"})
    @@ "voteu" :> Usual(PredIn \cup {"urd", "num", "pu"})
    @@ "vote_vtg" :> ([dstfmt |-> Bits(76, 3)] @@ Usual(Tested \cup {"sa", "vtgmode", "bop"}))
    @@ "warpsync" :> ([depth |-> Bits(86, 1)] @@ Usual(ConstB \cup PredIn))
    @@ "yield_" :> Usual(PredIn)

\* The fields of every handler.
Layout ==
    LayoutAl2pToBar @@ LayoutBitextractToBrx @@ LayoutBrxuToCsmtest @@ LayoutDaddToExit
    @@ LayoutF2fToFadd32i @@ LayoutFchkToFmnmx @@ LayoutFmulToFset @@ LayoutFsetpToHadd232i
    @@ LayoutHfma2ToHmul2 @@ LayoutHmul232iToI2ip @@ LayoutIabsToIadd3 @@ LayoutIadd32iToImad
    @@ LayoutImmaToIsbewr @@ LayoutIscaddToKill @@ LayoutLdToLdl @@ LayoutLdsToLepc
    @@ LayoutLop3ToMov32i @@ LayoutMovmToPmtrig @@ LayoutPopcToRedux @@ LayoutRetToSgxt
    @@ LayoutShfToSt @@ LayoutStgToSuquery @@ LayoutSuredToTmml @@ LayoutTtucctlToUbmsk
    @@ LayoutUbrevToUisetp @@ LayoutUldcToUplop3 @@ LayoutUpopcToUshr @@ LayoutVabsdiffToYield
===============================================================================
