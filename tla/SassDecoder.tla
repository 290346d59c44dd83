------------------------------ MODULE SassDecoder ------------------------------
(* Instruction words: what the shader translator (gpu/sm86.rs and its generated *)
(* dispatch table) reads from one, and how the instruction builders of the GPU  *)
(* tests put one together. A word is the set of its bits that are one.          *)
EXTENDS SassLayout, SequencesExt

(* The dispatch table: Decoder::translate of gpu/sm86_decoder_generated.rs is   *)
(* one chain of if / else if, each row naming the values of the opcode key it   *)
(* accepts and the handler it calls. A row here joins the neighbouring rows of  *)
(* one handler. The order of the rows matters: the first one that accepts a key *)
(* is the only one that runs.                                                   *)

RowsAl2pToB2r ==
    << <<"al2p", {\h920}>>, <<"ald", {\h321, \h1521}>>, <<"arrives", {\h19b0}>>,
    <<"ast", {\h322, \h1522}>>, <<"atom", {\h38a, \h1f8a, \h38b, \h198a}>>,
    <<"atomg", {\h3a8, \h3a9, \h19a8}>>, <<"atoms", {\h38c, \h1f8c, \h38d, \h198c}>>,
    <<"b2r", {\h31c}>> >>

RowsBarToBsync ==
    << <<"bar", {\hb1d, \h91d, \h51d, \h31d}>>, <<"bitextract", {\h241}>>, <<"bmma", {\h23d}>>,
    <<"bmov", {\h355, \hf55, \hb57, \h1b57, \h957, \h357, \h1d57, \hb56, \h1b56, \h956, \h356,
        \h1d56, \hf56}>>, <<"bmsk", {\ha1b, \h1a1b, \h21b, \h1c1b, \h81b}>>, <<"bpt", {\h95c}>>,
    <<"bra", {\h947, \h1947, \h1547}>>, <<"break_", {\h942}>>,
    <<"brev", {\hb01, \h1b01, \h301, \h1d01, \h901}>>, <<"brx", {\h949}>>, <<"brxu", {\h1958}>>,
    <<"bssy", {\h945}>>, <<"bsync", {\h941}>> >>

RowsCallToExit ==
    << <<"call", {\hb43, \h943, \h343, \h1943, \h944, \h344, \h1944}>>, <<"cctl", {\h98f, \h1d8f}>>,
    <<"cctll", {\h990, \h1d90}>>, <<"cctlt", {\h391, \h1d91, \hb91}>>,
    <<"clmad", {\ha2c, \h1a2c, \h62c, \h162c, \h22c, \h1e2c, \h1c2c}>>, <<"cs2r", {\h805}>>,
    <<"csmtest", {\h80d}>>, <<"dadd", {\h629, \h1629, \h229, \h1e29, \h429}>>, <<"depbar", {\h91a}>>,
    <<"dfma", {\ha2b, \h1a2b, \h62b, \h162b, \h22b, \h1e2b, \h42b, \h1c2b, \h82b}>>,
    <<"dmma", {\h23f}>>, <<"dmul", {\ha28, \h1a28, \h228, \h1c28, \h828}>>,
    <<"dsetp", {\h62a, \h162a, \h22a, \h1e2a, \h42a}>>, <<"errbar", {\h9ab}>>, <<"exit", {\h94d}>> >>

RowsF2fToF2fp ==
    << <<"f2f", {\hb04, \h1b04, \h904, \h304, \h1d04, \hb10, \h1b10, \h910, \h310, \h1d10}>>,
    <<"f2fp", {\ha3e, \h1a3e, \h83e, \h23e, \h1c3e, \h63e, \h163e, \h43e, \h1e3e}>> >>

RowsF2iToFmul ==
    << <<"f2i", {\h1b11, \hb11, \h911, \h311, \h1d11, \h1b05, \hb05, \h905, \h305, \h1d05}>>,
    <<"f2ip", {\ha43, \h1a43, \h843, \h643, \h1643, \h443, \h243, \h1e43, \h1c43}>>,
    <<"fadd", {\h621, \h1621, \h421, \h221, \h1e21}>>, <<"fadd32i", {\h421}>>,
    <<"fchk", {\hb02, \h1b02, \h902, \h302, \h1d02}>>,
    <<"ffma", {\ha23, \h1a23, \h823, \h623, \h1623, \h423, \h223, \h1e23, \h1c23}>>,
    <<"ffma32i", {\h823}>>, <<"flo", {\hb00, \h1b00, \h300, \h1d00, \h900}>>,
    <<"fmnmx", {\ha09, \h1a09, \h809, \h209, \h1c09}>>,
    <<"fmul", {\ha20, \h1a20, \h820, \h220, \h1c20}>> >>

RowsFmul32iToHadd232i ==
    << <<"fmul32i", {\h820}>>, <<"footprint", {\hb72, \h373, \hb74, \h1f74}>>,
    <<"frnd", {\hb07, \h1b07, \h907, \h307, \h1d07, \hb13, \h1b13, \h913, \h313, \h1d13}>>,
    <<"fsel", {\ha08, \h1a08, \h808, \h208, \h1c08}>>,
    <<"fset", {\ha0a, \h1a0a, \h80a, \h20a, \h1c0a}>>,
    <<"fsetp", {\ha0b, \h1a0b, \h80b, \h20b, \h1c0b}>>, <<"fswzadd", {\h822}>>, <<"gather", {\h241}>>,
    <<"genmetadata", {\h242}>>, <<"getlmembase", {\h3c0}>>,
    <<"hadd2", {\h630, \h1630, \h430, \h230, \h1e30}>>, <<"hadd2_32i", {\h430}>> >>

RowsHfma2ToHsetp2 ==
    << <<"hfma2", {\ha31, \h1a31, \h831, \h631, \h1631, \h431, \h231, \h1e31, \h1c31}>>,
    <<"hfma2_mma", {\ha35, \h1a35, \h835, \h635, \h1635, \h435, \h235, \h1e35, \h1c35}>>,
    <<"hfma2_32i", {\h831}>>, <<"hmma", {\h23c, \h1e79}>>,
    <<"hmnmx2", {\ha40, \h1a40, \h840, \h240, \h1c40}>>,
    <<"hmul2", {\ha32, \h1a32, \h832, \h232, \h1c32}>>, <<"hmul2_32i", {\h832}>>,
    <<"hset2", {\h633, \h1633, \h433, \h233, \h1e33}>>,
    <<"hsetp2", {\h634, \h1634, \h434, \h234, \h1e34}>> >>

RowsI2fToI2i ==
    << <<"i2f", {\h1b12, \hb12, \h912, \h312, \h1d12, \h1b06, \hb06, \h906, \h306, \h1d06}>>,
    <<"i2fp", {\ha45, \h1a45, \h245, \h1c45, \h845}>>,
    <<"i2i", {\ha38, \h1a38, \h238, \h1c38, \h838}>> >>

RowsI2ipToIdp4a ==
    << <<"i2ip", {\ha39, \h1a39, \h239, \h1c39, \h839}>>,
    <<"iabs", {\ha13, \h1a13, \h213, \h1c13, \h813}>>,
    <<"iadd", {\h810, \ha10, \h1a10, \h210, \h1c10}>>,
    <<"iadd3", {\h810, \ha10, \h1a10, \h210, \h1c10}>>, <<"iadd32i", {\h810}>>, <<"ide", {\h951}>>,
    <<"idp", {\ha26, \h1a26, \h226, \h1c26}>>, <<"idp4a", {\ha26, \h1a26, \h226, \h1c26}>> >>

RowsImadToImad ==
    << <<"imad", {\ha24, \h1a24, \h624, \h1624, \h224, \h1e24, \h424, \h1c24, \h824, \ha27, \h1a27,
        \h627, \h1627, \h227, \h1e27, \h1c27, \h827, \ha25, \h1a25, \h625, \h1625, \h225, \h1e25,
        \h1c25, \h825}>> >>

RowsImadToIscadd32i ==
    << <<"imad", {\h1a25, \h625, \h1625, \h225, \h1e25, \h1c25, \h825, \ha24, \h1a24, \h624, \h1624,
        \h224, \h1e24, \h424, \h1c24, \h824}>>, <<"imma", {\h237}>>,
    <<"imnmx", {\ha17, \h1a17, \h217, \h1c17, \h817}>>,
    <<"imul", {\ha24, \h1a24, \h224, \h1c24, \h824, \ha25, \h1a25, \h225, \h1c25, \h825}>>,
    <<"imul32i", {\h824, \h825}>>, <<"ipa", {\h326, \hb26, \h926, \h1526, \h1926}>>,
    <<"isberd", {\h923}>>, <<"isbewr", {\h927}>>, <<"iscadd", {\h811, \ha11, \h1a11, \h211, \h1c11}>>,
    <<"iscadd32i", {\h811}>> >>

RowsIsetpToLdtram ==
    << <<"isetp", {\ha0c, \h1a0c, \h20c, \h1c0c, \h80c}>>,
    <<"jmp", {\hb4a, \h1b4a, \h174a, \h94a, \h194a, \h154a}>>, <<"jmx", {\h94c}>>, <<"jmxu", {\h1959}>>,
    <<"kill", {\h95b}>>, <<"ld", {\h980, \h1980}>>, <<"ldc", {\hb82, \h1582}>>,
    <<"ldg", {\h381, \h1981}>>, <<"ldgdepbar", {\h9af}>>, <<"ldgsts", {\h1fae, \h1dae}>>,
    <<"ldl", {\h983, \h1983}>>, <<"lds", {\h984, \h1984}>>, <<"ldsm", {\h183b, \h83b}>>,
    <<"ldtram", {\h13ad}>> >>

RowsLeaToMembar ==
    << <<"lea", {\h411, \h811, \ha11, \h1a11, \h211, \h1c11}>>, <<"lepc", {\h34e}>>,
    <<"lop", {\h812, \ha12, \h1a12, \h212, \h1c12}>>, <<"lop3", {\h812, \ha12, \h1a12, \h212, \h1c12}>>,
    <<"lop32i", {\h812}>>, <<"match_", {\h3a1}>>, <<"membar", {\h992}>> >>

RowsMovToPixld ==
    << <<"mov", {\ha02, \h1a02, \h802, \h202, \h1c02, \h1a78, \h1878, \h1478, \h1c78}>>,
    <<"mov32i", {\h802}>>, <<"movm", {\h23a}>>, <<"mufu", {\hb08, \h1b08, \h908, \h308, \h1d08}>>,
    <<"nanosleep", {\hb5d, \h1b5d, \h95d, \h35d, \h1d5d}>>,
    <<"nanotrap", {\hb5a, \h1b5a, \h95a, \h35a, \h1d5a}>>, <<"nop", {\h918}>>,
    <<"out", {\h324, \h924, \h1d24}>>, <<"p2r", {\ha03, \h1a03, \h203, \h1c03, \h803}>>,
    <<"pixld", {\h925}>> >>

RowsPlop3ToR2ur ==
    << <<"plop3", {\h81c, \ha1d, \h1a1d, \h21d, \h1c1d, \ha1e, \h1a1e, \h21e, \h1c1e, \ha1f, \h1a1f,
        \h21f, \h1c1f}>>, <<"pmtrig", {\h801}>>, <<"popc", {\hb09, \h1b09, \h309, \h1d09, \h909}>>,
    <<"prmt", {\ha16, \h1a16, \h616, \h1616, \h216, \h1e16, \h416, \h1c16, \h816}>>,
    <<"psetp", {\h81c}>>, <<"qspc", {\h3aa, \h19aa}>>, <<"r2b", {\h31e}>>,
    <<"r2p", {\ha04, \h1a04, \h804, \h204, \h1c04}>>, <<"r2ur", {\h3c2}>> >>

RowsRedToSt ==
    << <<"red", {\h98e, \h198e}>>, <<"redux", {\h3c4}>>, <<"ret", {\h950, \h1950}>>,
    <<"rpcmov", {\h1b54, \hb54, \h954, \h1d54, \h352, \h1b52, \h1d52, \hb52, \h952, \h353}>>,
    <<"rtt", {\h94f}>>, <<"s2r", {\h919}>>, <<"s2ur", {\h9c3}>>, <<"scatter", {\h218}>>,
    <<"sel", {\ha07, \h1a07, \h207, \h1c07, \h807}>>, <<"setctaid", {\h31f}>>,
    <<"setlmembase", {\h3c1}>>, <<"sgxt", {\ha1a, \h1a1a, \h21a, \h1c1a, \h81a}>>,
    <<"shf", {\ha19, \h1a19, \h619, \h1619, \h219, \h1e19, \h419, \h1c19, \h819}>>,
    <<"shfl", {\hf89, \h989, \h589, \h389}>>, <<"shl", {\ha19, \h1a19, \h219, \h1c19, \h819, \h419}>>,
    <<"shr", {\ha19, \h1a19, \h819, \h219, \h1c19}>>, <<"spmetadata", {\h20e}>>,
    <<"st", {\h385, \h1985}>> >>

RowsStgToTld4 ==
    << <<"stg", {\h386, \h1986}>>, <<"stl", {\h387, \h1987}>>, <<"sts", {\h388, \h1988}>>,
    <<"suatom", {\h595, \h396, \h795, \h1f95, \h593, \h394, \h793, \h1f93}>>,
    <<"suld", {\hb99, \h99a, \h799, \h1f99, \hb97, \h998, \h797, \h1f97}>>,
    <<"suquery", {\hbb3, \h9b3, \h7b3, \h1fb3}>>, <<"sured", {\h59f, \h3a0, \h79f, \h1f9f}>>,
    <<"sust", {\hb9d, \h99e, \h79d, \h1f9d, \hb9b, \h99c, \h79b, \h1f9b}>>,
    <<"tex", {\hb60, \h361, \hb62, \h1f60}>>, <<"tld", {\hb66, \h367, \hb68, \h1f66}>>,
    <<"tld4", {\hb63, \h364, \hb65, \h1f63}>> >>

RowsTmmlToUldc ==
    << <<"tmml", {\hb69, \h36a, \hb6b, \h1f69}>>, <<"ttucctl", {\h3d5}>>, <<"ttuclose", {\h3d2}>>,
    <<"ttugo", {\h3d3}>>, <<"ttuld", {\h3d2}>>, <<"ttumacrofuse", {\h9d4}>>, <<"ttuopen", {\h3d0}>>,
    <<"ttust", {\h3d1}>>, <<"txd", {\hb6c, \h36d, \hb6e, \h1f6c}>>,
    <<"txq", {\hb6f, \h370, \hb71, \h1f6f}>>, <<"ubmsk", {\h129b, \h189b}>>,
    <<"ubrev", {\h12be, \h18be}>>, <<"uclea", {\h18bc, \h1cbc}>>, <<"uf2fp", {\h18ba, \h12ba, \h14ba}>>,
    <<"uflo", {\h12bd, \h18bd}>>, <<"uiadd3", {\h1290, \h1890}>>, <<"uiadd3_64", {\h1297, \h1897}>>,
    <<"uimad", {\h12a4, \h14a4, \h18a4, \h12a5, \h18a5}>>, <<"uisetp", {\h128c, \h188c}>>,
    <<"uldc", {\hab9, \h1ab9, \h18b8, \h1abb}>> >>

RowsUleaToVabsdiff ==
    << <<"ulea", {\h1491, \h1891, \h1291}>>, <<"ulop", {\h1892, \h1292}>>, <<"ulop3", {\h1892, \h1292}>>,
    <<"ulop32i", {\h1892}>>, <<"umov", {\h882, \h1c82}>>, <<"up2ur", {\h1883, \h1c83}>>,
    <<"uplop3", {\h89c, \h129d, \h129e, \h129f}>>, <<"upopc", {\h12bf, \h18bf}>>,
    <<"uprmt", {\h1896, \h1296}>>, <<"upsetp", {\h89c}>>, <<"ur2up", {\h1884, \h1c84}>>,
    <<"usel", {\h1287, \h1887}>>, <<"usgxt", {\h129a, \h189a}>>, <<"ushf", {\h1299, \h1499, \h1899}>>,
    <<"ushl", {\h1299, \h1899, \h1499}>>, <<"ushr", {\h1899, \h1299}>>,
    <<"vabsdiff", {\ha14, \h1a14, \h614, \h1614, \h214, \h1e14, \h414, \h1c14, \h814}>> >>

RowsVabsdiff4ToYield ==
    << <<"vabsdiff4", {\ha15, \h1a15, \h615, \h1615, \h215, \h1e15, \h415, \h1c15, \h815}>>,
    <<"vote", {\h806}>>, <<"voteu", {\h886}>>, <<"vote_vtg", {\h80d}>>,
    <<"warpsync", {\hb48, \h1b48, \h948, \h348, \h1d48}>>, <<"yield_", {\h946}>> >>

\* The whole chain, top to bottom.
Rows ==
    RowsAl2pToB2r \o RowsBarToBsync \o RowsCallToExit \o RowsF2fToF2fp \o RowsF2iToFmul
    \o RowsFmul32iToHadd232i \o RowsHfma2ToHsetp2 \o RowsI2fToI2i \o RowsI2ipToIdp4a
    \o RowsImadToImad \o RowsImadToIscadd32i \o RowsIsetpToLdtram \o RowsLeaToMembar
    \o RowsMovToPixld \o RowsPlop3ToR2ur \o RowsRedToSt \o RowsStgToTld4 \o RowsTmmlToUldc
    \o RowsUleaToVabsdiff \o RowsVabsdiff4ToYield

-----------------------------------------------------------------------------
(* Decoding. *)

WordBits == 0 .. 127

\* The number that the bits at `place` spell in the word.
Number(word, place) ==
    SumSet({2 ^ (i - 1) : i \in {j \in DOMAIN place : place[j] \in word}})

\* ((inst >> 91) & 1) << 12 | (inst & 0xfff): what every row compares.
KeyPlace == Bits(0, 12) \o Bits(91, 1)
Key(word) == Number(word, KeyPlace)

\* Bits 9-11 of the key, from which iadd tells its second source.
SourceForm(word) == Number(word, Bits(9, 3))

\* The handler of a key: the first row that accepts it. The chain has no final
\* else, so a key that no row accepts calls nothing.
HandlerOf(key) ==
    LET row == SelectInSeq(Rows, LAMBDA r : key \in r[2])
    IN  IF row = 0 THEN "none" ELSE Rows[row][1]

Handler(word) == HandlerOf(Key(word))

\* lop only calls lop3.
Fields(handler) == Layout[IF handler = "lop" THEN "lop3" ELSE handler]

Operands(word, handler) ==
    [f \in DOMAIN Fields(handler) |-> Number(word, Fields(handler)[f])]

\* iadd binds its second source as a register or as an immediate, never both.
Alternatives(handler, f, g) == handler = "iadd" /\ {f, g} = {"rb", "ra_offset"}

\* No bit of the word serves two operands of a handler, an operand and the opcode
\* key, or lies beyond the word.
FieldsApart(handler) ==
    LET Of(f) == Range(Layout[handler][f])
    IN  \A f \in DOMAIN Layout[handler] :
            /\ Of(f) \subseteq WordBits \ Range(KeyPlace)
            /\ \A g \in DOMAIN Layout[handler] \ {f} :
                   Alternatives(handler, f, g) \/ Of(f) \cap Of(g) = {}

-----------------------------------------------------------------------------
(* The other direction: the instructions as their author means them, and the    *)
(* words the builders (tests/gpu_test.rs, mod inst) encode them in. An          *)
(* instruction is a record; the fields its builder has no place for are zero.   *)

\* The opcode each builder starts from.
Opcode ==
    [iadd_imm |-> \h810, iadd_reg |-> \h210, iadd3_reg |-> \h1510, iadd32i |-> \h410,
     kill |-> \h8e0, fadd_imm |-> \h621, ffma_imm |-> \ha23, imad_imm |-> \ha24,
     lop3_imm |-> \h812, mov_imm |-> \ha02, sel_imm |-> \ha07, ldg |-> \h381,
     stg |-> \h386, lds |-> \h984, sts |-> \h388]

\* Opcodes of the dispatch table for which the tests have no builder.
OtherOpcode == [kill_real |-> \h95b, exit |-> \h94d, nop |-> \h918, al2p |-> \h920, bra |-> \h947]

\* Where each builder puts the immediate.
ImmediateAt ==
    [op \in {"fadd_imm", "ffma_imm", "imad_imm", "mov_imm", "sel_imm",
             "ldg", "stg", "lds", "sts", "al2p"} |-> 40]
    @@ [op \in DOMAIN Opcode \cup DOMAIN OtherOpcode |-> 32]

\* Where the source modifiers are.
AbsoluteAt(op) == IF op \in {"fadd_imm", "ffma_imm"} THEN 62 ELSE 74

\* The bits of a value written from bit `first` up.
Put(first, value) == {first + k : k \in {j \in 0 .. 12 : (value \div 2 ^ j) % 2 = 1}}

\* The key, whose bit 12 stands at bit 91.
PutKey(key) == Put(0, key % 4096) \cup Put(91, key \div 4096)

Assemble(i) ==
    PutKey((Opcode @@ OtherOpcode)[i.op])
    \cup Put(12, i.pg) \cup Put(15, i.pg_not) \cup Put(16, i.rd) \cup Put(24, i.ra)
    \cup Put(32, i.rb) \cup Put(ImmediateAt[i.op], i.imm) \cup Put(64, i.rc)
    \cup Put(72, i.lut) \cup Put(81, i.pu) \cup Put(84, i.cop) \cup Put(87, i.pp)
    \cup Put(AbsoluteAt(i.op), i.absolute) \cup Put(AbsoluteAt(i.op) + 1, i.negate)
    \cup i.extra
===============================================================================
