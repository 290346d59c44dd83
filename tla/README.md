# Formal models of oboromi

TLA+ specifications of the core of oboromi, a Rust emulator of a Switch-class
console: modules, TLC instances that check them, and TLAPS proofs of the
properties that matter most. Paths below are relative to the repository,
`core/src/` unless said otherwise.

## 1. Inventory

The emulator is single-threaded: cores are Unicorn instances stepped in turn,
and what they share is behind `Rc<RefCell<..>>`. There are no locks and nothing
is persisted. What is hard is the order in which guest instructions, devices,
the control loop and the host's own calls reach shared state, and arithmetic
at the edge of a table or a field.

| component | state | operations | who calls it | hard behaviour |
|---|---|---|---|---|
| handle table (`kernel/handle_table.rs`) | slots, free list, `next_slot`, capacity, a count per slot | create, get, release; allocate, grow | services (`sm`) | recycling, growth to a cap, late releases, counts |
| HIPC (`nn/hipc.rs`) | the router: service name to method table | parse, encode, register, dispatch | guest messages | section bounds, field widths |
| sessions (`nn/sm.rs`) | a handle table of its own, per thread | register, get, reset | the HIPC router | exhaustion, balance of get and release, reply sizes |
| interrupt controller (`mmio/gic.rs`) | one distributor; per core a device with a copy of every frame | trigger, register writes, acknowledge, complete, peek | devices, guest (MMIO), `deliver_irq` | two scans that must agree, re-trigger while active, routes to several cores |
| exception levels (`cpu/exception.rs`) | level, SPSR, VBAR, DAIF per core | SVC, SMC, ERET, MSR/MRS, host writes | instruction hooks, `deliver_irq` | one bank per level, two copies of the level |
| cores (`cpu/unicorn_interface.rs`, `cpu/cpu_manager.rs`) | registers, memory map | step, run, `deliver_irq`, `run_all` | the control loop | delivery before acknowledge, repeated delivery, partial effects |
| MMIO bus (`mmio/mod.rs`), memory map (`cpu/`) | a list of devices with address ranges per core; three parts of memory and two windows between them | register on one core or all, find, read, write | guest, host | overlap, sums that wrap, a registration that panics between two cores, stacks next to each other |
| boot ROM (`security/bootrom.rs`) | none; writes the memory of core 1 | boot | `sys`, tests | a failing phase, writes that cannot fail, what is checked against what is used |
| eFuse, keys (`security/efuse.rs`, `key_derivation.rs`) | fuse words, derived keys | read, write, derive | boot ROM, MMIO | register windows, key order |
| NCA (`security/nca_decrypt.rs`) | none | decrypt and parse a header, take the title key, decrypt sections | tests | sector numbers, counters of sections |
| AES (`security/aes.rs`) | none | block cipher, ECB, CBC, XTS, CTR | boot, NCA | stealing, padding, two layouts of a counter |
| RSA (`security/rsa.rs`) | numbers in limbs | power, inverse, primality, sign, verify | boot, tests | canonical limbs, an estimated quotient, differences below zero |
| GPU (`gpu/sm86.rs`, `spirv.rs`, generated decoder) | emitter's words and ids, cached constants; of the code it emits: registers, predicate byte, two memories | decode, emit | `gpu/mod.rs`, tests | 201 handlers that cut operands out of a word by hand; guards, comparisons and selections without branches; the order of two writes |
| files, audio, GUI (`fs`, `audio`, `gui/src`) | - | mmap, none, widgets | host | nothing of its own |

What makes them correct, in a line each: a handle names its object as long as
somebody holds it; a message's sections lie inside the message, and a reply can be
parsed by its receiver; a handle given out by `sm` names the service it was
given for; a raised interrupt is neither lost nor handled twice, and what is
announced is what is acknowledged; a handler returns to what it interrupted; an
access reaches the one device that owns its address, and every core's stack is its
own memory; a boot loads all of a signed package or changes nothing; an
instruction's code does to a lane what the instruction means; what a mode or a
file format encrypts, its reader gets back; limbs compute what is true of numbers.

## 2. Modules

`HandleRegistry`, `InterruptLines`, `ServiceDirectory`, `SecureBoot`, `SassLane` and
`RsaNumbers` are abstract specifications; `MC*` modules are instances for TLC; `*Proofs` hold theorems.

### Handle table: `HandleSlots`, `HandleTable`, `HandleRegistry`

`HandleSlots` is `kernel/handle_table.rs` as pure operators, one per method: each
takes a table (`entries`, `free_list`, `next_slot`, `capacity`, as in the struct) and
returns a result code, an id and the table it leaves. `entries` is a partial
function, so an empty slot and an index past the array look alike, as they do to
`entries.get(id).and_then(..)`. The free list is a stack. `ref_count` wraps at
`RefModulus` (2^32 in a release build).

`HandleTable` puts the methods to use: callers that may hold one reference each
create, look up and release in any order (`Create`, `Get`, `Release`), and, when
`Disciplined` is FALSE, release a second time at any later moment
(`ReleaseAgain`). `HandleRegistry` is the promise: ids are opaque, an object lives as long as
somebody holds it, creation is refused only when every id is in use.
Not modelled: the read-only queries, `verify_no_leaks`, `dump_handles`.

### Messages and sessions: `Hipc`, `SmService`, `ServiceDirectory`

`Hipc` models `nn/hipc.rs`. A message is the fields of its two header words, the
number of words that are there, and what its raw data says; `Layout` gives where
each section ends and `Parses` is `HipcMessage::parse` returning `Ok`. `ToBytes`
is what a receiver sees of an encoded response, field widths included. `Dispatch`
is `dispatch_message` up to the handler: malformed message, unknown service,
unknown method, or the handler to call. Left out: addresses, sizes and types of
buffer descriptors (any of the four types is accepted), which handles are copied and which moved, `invoke_method`, and the
command type, which the parser reads and the dispatch never consults.

`SmService` is `nn/sm.rs` behind that router. Its state is the router's tables, the
table of sessions, the last call and the response. A name is a number of bytes, some
of them not UTF-8. One action is one message from parse to response
(`DispatchMessage`): the guest waits for it, so nothing comes in between. `StartHostServices`
wires the two handlers, the host may register others (`RegisterHost`) and tests
reset the table. `ServiceDirectory` is the promise: handle n is the n-th
name registered.

### Interrupt controller: `Gic`, `GicLoops`, `InterruptLines`

`Gic` is `mmio/gic.rs` as `CpuManager` wires it: one distributor for all cores and
one device per core, with a private copy of every redistributor and CPU
interface, so `local[d][f]` is frame `f` in the device of core `d`. An action is a
register write, a read of IAR (which acknowledges), a write to EOIR, or a device
raising a line. `taken` is what software has read from IAR and not ended.
`Disciplined` adds the rules of well-behaved software, each stated at its guard: a
core reads the IAR of its own frame, ends what it took, and an interrupt is routed
to one core and moved only while idle. `GicLoops` runs the two scanning loops an id at a time
(`Iterate`), with what they have passed and kept in `scan`; nothing comes between the
iterations, since the device is borrowed. It refines `Gic`, where a read of IAR is one step
(the other steps, `Direct`, are the same in both). `InterruptLines` is
the promise to devices and cores. Left out: registers no other operation
reads (CTLR, TYPER, IGROUPR, ICFGR, BPR), widths and partial accesses.

### Exceptions and delivery: `ExceptionLevels`, `ExceptionCore`, `IrqDelivery`

`ExceptionLevels` is `cpu/exception.rs` on a core as a record: SVC, SMC, interrupt
entry, ERET and the host's `set_current_el`. Of PSTATE only the level is kept;
addresses count words. `ExceptionCore` lets any of these happen in any order on one
core, with MSR writes between them. The code has one ELR and SPSR per level and
never looks whether they are in use, so the model states what a guest must keep
to: no exception to a level whose handler has not returned.

`IrqDelivery` composes `Gic` with `ExceptionLevels`: `deliver_irq` (read the mask,
peek, enter EL1), `run_all` in round-robin, and the handler of the
end-to-end tests (prologue, IAR, EOIR, ERET), with SVC and SMC in the program. Nothing in
the repository but its tests calls `deliver_irq`; the model's loop offers an interrupt to the
core whose turn it is, unless that core is in an EL1 handler. This is an
assumption: an interrupt stays pending until IAR is read, so that a loop that
offered it before every instruction would enter the handler for ever.

### Memory map, bus and boot: `MemoryMap`, `MmioBus`, `BootRom`, `Machine`, `SecureBoot`

`MemoryMap` is what the constructor of a core maps: shared memory in three parts and,
between them, the windows of the interrupt controller and of the fuses. `MmioBus` is
`mmio/mod.rs`: registration with its overlap check, whose sums wrap as they do in a
release build, and the search that `find_device`, `read` and `write` share.

`BootRom` is `BootRom::boot`, a phase per action: `StartBoot` takes an image, fuses and a
public key; `DeriveKeys`, `ParsePk11`, `VerifySignature`, `DecryptPackage2` and
`ValidatePackage2` follow, any of them may end the boot where the code returns an error, and
`PlaceWord` writes one word at a time: a word that meets a window is not
written, and the boot does not notice. A cipher is a constant; a
signature is known by who made it and over what, so that what is verified and
what is used can differ. An image whose package is empty stands for every image
that is too short.

`Machine` is `CpuManager`: cores with a bus each, devices registered on all of them or
on one, the interrupt controller's device on each core with one distributor
for all, stores, and boots. A registration that meets an overlap panics; a
caller that catches this, as tests do, goes on with the cores before it
registered, and the model keeps that state (`torn`). Boot borrows the
manager exclusively, so nothing is stored or registered during one.
`SecureBoot` is the promise, one step for a whole boot.

### Shader translation: `SassLayout`, `SassDecoder`, `ShaderLane`, `SassLane`

`SassLayout` has, for each of the 201 handlers of `gpu/sm86.rs`, the bit positions of each
operand field it reads, in pieces where the code joins pieces. An instruction word is the set
of its bits that are one. `SassDecoder` has the dispatch chain of the generated decoder, row
by row in its order (`Rows`), reads key and fields from a word, and goes the other way too: the
instructions as an author means them, put into words by the builders of
`tests/gpu_test.rs` (`Assemble`).

`ShaderLane` puts the translator to work through the code it emits. `Fetch` takes an
instruction, assembles and decodes it (into `decoded`); then the handler's operations are
carried out for one lane, with the operators SPIR-V has (`Compute`, `Stg`, `Sts`, `Exit`,
`Kill`, `Nop`). A word that no row accepts emits nothing (`Dropped`), an operand that a
handler asserts away or a handler that ends in `todo!()` panics (`Panic`). Fifteen handlers
emit code, and all are here. `SassLane` says what the instructions mean by the comments of
their handlers, with guards as conditions, integers for words and sets for the predicate byte;
`StepIsIsa` compares the two for every instruction whose guard the code respects. A sum, a
product and a fused multiply-add of floats are three constants. In `SassLane` an `ffma` is
fused, as its comment says; the code rounds the product and then the sum, and `StepIsIsa` leaves
out the operands for which the two differ (`RoundsTwice`); section 3 lists the disagreement.

### Files and ciphers: `BlockModes`, `NcaContent`

`BlockModes` is `security/aes.rs` over any block cipher, exclusive or and size of a block: ECB with
padding, CBC, XTS with ciphertext stealing and tweak doubling, CTR, each byte by byte (`Joined`). `NcaContent` reads an NCA: the header sector by sector
(`OpenSector`), magic and version (`ParseHeader`), the title key (`TakeTitleKey`, with the device
key derived from the fuses' key), section by section (`ReadSection`). How a file is made
is external; a plain header may be cut short.

### RSA: `BigUint`, `RsaLoops`, `RsaRounds`, `RsaNumbers`

`BigUint` is the arithmetic of `security/rsa.rs` on sequences of limbs, with the carries,
borrows and trimming of the code; the width of bytes and limbs is a parameter. Its loops are
recursive functions, one for each that carries something from a place to the next (`Borrows`,
`Carries`, `Products`, `Divisions`).
`RsaLoops` has `mod_pow`, `mod_inverse` and `find_prime` a round at a time, and `sign` followed by
`verify`. `RsaRounds` has the rounds of `mod_pow` and `mod_inverse` in numbers, with Barrett's
estimate of a quotient, and `RsaNumbers` the answers: powers, inverses, the next prime, a
signature that is right for its digest only. The limbs implement the rounds, and the rounds
the answers. A digest stands for its message. `QuestionsAssumption` and `KeyAssumption` say what is asked:
numbers of as many bytes as the modulus has, a modulus that is not zero, a digest that leaves
room for the padding, a key whose exponents undo each other and whose modulus uses its first byte (a
2048-bit key in 256 bytes).

## 3. Runs

| run | bounds | shows |
|---|---|---|
| `MCHandleTable` | four callers, capacity 1 to 3, two types | bookkeeping exact, counts equal holders, creation fails only when full, held objects stay, implements `HandleRegistry` |
| `MCHandleTableAbuse` | three callers that also release twice | no slot leaks |
| `MCGic` | two cores, two shared interrupts, two priorities and masks, every route | no trigger lost, active means handled by the routed core, implements `InterruptLines` |
| `MCGicLoops` | one core, two shared and one private interrupt, no rules; 602 112 states | loops find what the set definitions say, and agree |
| `MCExceptionCore` | one instruction address, one vector table | levels agree, handlers return |
| `MCIrqDelivery` | two cores, two interrupts raised without bound, two priorities under two masks, with and without a vector table; 547 763 states | deliveries are served, handlers resume and end, interrupts are taken unless starved |
| `MCIrqDeliveryMasked` | the same, programs mask DAIF.I | violated: a masked core is interrupted |
| `MCSmService` | three sessions, names up to the longest a request carries and one byte more, one that is not UTF-8, messages cut short; 12 592 states | lookups balance, responses can be read, implements `ServiceDirectory` |
| `MCMachine` | two cores, 15 bytes of memory, three devices, eight images; 762 864 states | an address has one owner, one distributor, stacks apart, implements `SecureBoot` |
| `MCShader` | two registers of two bits, floats of a sign and a bit, shaders of two of some 170 instructions; 59 608 states | emitted code means the instruction, operands do not overlap, guards and predicates |
| `MCShaderHelpers` | the words of the tests' builders | violated: some reach no handler |
| `MCSecurity` | blocks of two 2-bit bytes, 1024 files; limbs of two 2-bit bytes, numbers of up to six bytes; 6 832 states | modes invert, counters differ, files are read as made; limbs compute what numbers do, round by round |

Why these bounds are enough to meet the interesting cases.

- The table grows twice, and its cap is not a power of two, so that
  `min(max_capacity)` matters; four callers fill three slots and leave one to be
  refused, or share one object.
- Two interrupts with equal and different priorities, at the mask, above and below
  it, are all the scan compares; two cores are what a race for one interrupt
  takes. Interrupts can be raised again while pending and while active. In
  `MCIrqDelivery` cores run at EL0 and EL1, and nothing bounds the triggers (a pending set is
  finite by itself). Of its masks, one passes the higher priority only, the other both.
- In `MCSmService` the longest name fills a request's 511 words to the last.
- In `MCMachine` a device touches the controller's window from below, another lies inside it
  and wraps past the end of the addresses; either makes a registration fail on
  the second core only, when it was put there alone. Packages are shorter than a
  word, a word, and a word and a half. `MaxDevices` and `MaxDistributors` bound a
  bus and the calls of `register_gic`.
- In two bits a word is zero, positive, the most negative or minus one: what the
  comparisons by sign bit tell apart. As a float it is a zero or one half with a sign, so that
  products, sums and ties round (`MCShader` defines the rounding). Two instructions are what one needs to set
  the other's guard. All initial registers and the first two predicates are tried.
- Sections have less than a block, a block, and up to two and a half, with counters
  that are neighbours. Bases lie below the modulus, above it and
  above its square, moduli at both sides of a limb's end; `LimbsSound` compares
  with the estimate in numbers only where TLC's 32-bit integers can hold the product.
- `MCSecurity` is one instance with two parts that share no state: an NCA is read, or
  RSA is asked a question.

Every property has a mutant: an operator of the same module, marked as such,
that changes one definition the way a bug would, under which the run fails.

Fairness: `SpecDelivery` has `WF(Offer \/ Step)`, the control loop goes on: turns are in order
by construction, as in `run_all`. Devices are not fair, and not finite either: they may raise for
ever or never, so what a liveness property needs of them is its premise. `EventuallyTaken`
holds for an interrupt when those that go before it on its core (more urgent, or as urgent with a smaller
id) are no longer raised from some point on (`GivesWay`); if they are raised again in each of
their handlers, it starves, and TLC shows that run when the premise is dropped. Raising the same interrupt, one behind it,
or one of another core never starves it. `HandlersEnd` says that an active
interrupt is ended whatever devices do, since nothing is offered inside an EL1 handler, and that a core
comes back to its program if devices leave it alone from some point on (`LeftAlone`): the loop
offers before every instruction outside an EL1 handler, so endless interrupts keep a program
from its next instruction and a monitor call from its ERET. Reading an NCA has `WF(Next)`: it is one sequence of calls, and
`ContentRecovered` says where it ends.

Two disagreements between code and its own text have a run:

- `daif` is called the interrupt mask of a core, and `deliver_irq` does not read it.
- The test builders for `iadd3`, `iadd32i` and `kill` encode opcodes the decoder has no row for.
  Its chain ends without an else, so their tests translate nothing, and pass.

Others were met while modelling and have none; the models do what the code does:

- `release_handle` says a double release returns `INVALID_HANDLE`. Ids carry no
  generation: once the slot is recycled the late call takes another caller's reference.
- "No priority masking by default (all priorities pass)" (`mmio/gic.rs:468`): the reset
  priority 0xFF never passes the reset mask 0xFF.
- `deliver_irq` returns `None` "if no qualifying interrupt"; without a vector table it
  returns `None` after overwriting ELR_EL1, SPSR_EL1 and PSTATE.
- Every core has its own copy of all redistributor frames; what one core writes
  into another's frame that core does not see.
- `from_utf8_lossy` makes names longer; the name of a session may then not fit the reply,
  whose `raw_count` the parser refuses. `NamesComeBack` assumes valid UTF-8.
- Comments say ERET "lowers EL" (`cpu/exception.rs:26`); SVC or an interrupt taken at
  EL3 enters EL1, and its ERET goes back up.
- `register_gic` stores its distributor before it tries the cores: after a panic
  `gic()` is a controller that no core, or not every core, has.
- A short package leaves the tail of a longer one loaded before it; nothing in the
  boot sets the program counter; firmware encrypted for other fuses decrypts to
  other bytes and boots with `Ok`.
- `exit`, `stg` and `sts` ignore the guard, and an instruction that writes its own guard's
  predicate tests the new value (`GuardedOffKeepsRegisters` states exactly that).
- `ffma` is commented "fused multiply-add" (`gpu/sm86.rs:1373`) and emits a product and a sum, each
  of which rounds; nothing asks a driver to join them. On `MCShader`'s floats 1/2 * 1/2 - 1/2 is -1/2 in the
  code, which rounds the product of a quarter to zero, and fused it is -1/4, rounded to zero.
- `tests/gpu_test.rs:307` calls the truth table 0xFE a NAND. By the handler's own table it is an OR of
  three; NAND is 0x7F. The test only looks at whether anything is translated.
- `mov` reads "const_bank[sc_addr]" (`tests/gpu_test.rs:122`); the handler moves `sc_addr` itself, which
  is what the tests put there.
- `aes_ctr_xor` XORs the block index into the first eight bytes of the counter, where its
  comment (`aes.rs:591`) says the low bytes. ECB of nothing is nothing,
  where `aes.rs:329` promises a block of padding.
- The remainder of `shr_bits` is less than its comment says once more than one limb is
  shifted out; nobody takes it. `barrett_mod_with_mu` speaks of at most two
  corrections: one is enough below the bound, more are needed above it.
- `new_with_size` recommends 256 MB, and the constructor maps memory above the fuse
  window, past the end of such an allocation.
- The section table at 0x240 and key blocks 4 to 7 of the key area overlap in
  `nca_decrypt.rs`; key indices from 8 up are out of range and panic.

## 4. Proofs

All are for every value of the constants the assumptions allow.

`HandleTableProofs`. From `CapacityAssumption` (1 <= initial <= max capacity): types,
exact partition of slots and growth on demand are inductive together (`Structure`),
also under second releases; `NoIdLost` follows. `SlotsPartitioned` alone is not
inductive: that a recycled id lies inside the array needs types and growth. With
disciplined callers, fewer than `RefModulus` of them, `IInv` adds that the count of
every slot is the number of its holders (`ReferencesCounted`); from it a release by
a holder always succeeds and never frees under another (`ObjectPinned`), and every
step is one of the registry (`TableImplementsRegistry`). Without the rule the count is only
bounded by the holders from above, which is enough that nothing leaks (`NothingLeaks`).

`IrqDeliveryProofs`, of `Gic` and `GicLoops`. `PrivateQuiet`, no private interrupt is pending in any copy of any frame, is
what makes peek and acknowledge agree (`PeekIsExact`); it needs no rules, nor does
`NoTriggerLost`. Under the rules `RuledInv` adds that a target is one core at
most and active interrupts are exactly those in some core's hands; it gives
`HandledByItsCore` and `GicImplementsLines`. Of the loops, `LoopInv` says that the ids passed are below
those to come, and that the best so far is the most urgent of the candidates
passed; when none is left it is what the sets of `Gic` describe (`LoopsAreRight`), so that
a loop and its return are one step of `Gic` (`LoopsAreGic`).

In `IrqDeliveryProofs` too, of `IrqDelivery`, the inductive `DeliveryInv` has, besides types and one core per route: a core is
in a handler at EL1 exactly from its entry to its ERET, and its EL1 bank then holds what it
interrupted; what a core has taken is what its handler is about to end; and a core entered
and not yet at its IAR has an interrupt to find there. The last needs that no handler withdraws
or masks anything and that an interrupt has one core (`EnteredHandlersAreServed`). The software rules
of `Gic` are not assumed but follow from the handler and the control loop, so that
`DeliveredToItsCore`, `DeliveryImplementsLines` and `DeliveryLosesNoTrigger` hold with `Disciplined` either way.

`ExceptionProofs`. The invariant is types, `ElMatchesPstate`, and `BanksIntact`: while
a handler has not returned, the registers of its level hold what it was entered
from. `ReturnsToCaller` needs the last, and that ERET's choice of bank by
the software level is the choice by PSTATE's.

`SmProofs`. Sessions are never closed and lookups give back what they take, so the
table is `Stacked`: free list empty, the slots below `next_slot` occupied, all counted
once (`LookupsBalanced`). `LookupKeeps` shows that taking and giving back a reference restores the
table exactly. `SmImplementsDirectory` follows, for any messages, behind the
router. `NamesComeBack` assumes valid UTF-8 and host handlers that answer within the
fields: names stored then have at most 2036 bytes, since they came in a message that
parses, and `FittingIsReadable` shows that 2040 bytes and fifteen handles always arrive.

`MachineProofs`. `BusInv` is the invariant of the buses: entries are typed, entries on one
bus are apart, and, unless a registration panicked midway, every core
is wired to the manager's distributor and has it on its bus. `OneOwnerHolds` and
`OneDistributorHolds` follow. `StacksApartHolds` rests on `MapAssumption` and `SizeAssumption` (memory ends
above the fuse window, with room for all stacks) and on the lemma
`StackPlace`, which puts a core's stack between its neighbours' by arithmetic. `MachineTypes`
joins it to `BootInv`: memory holds bytes because packages do (`BytesAssumption`: a cipher
makes bytes of an image), and a core's bus has its own copy of a device only.

In `MachineProofs` too, `BootsAreSecure` is the refinement of `SecureBoot`: the request of the abstract
boot is the running job, its memory is the memory until the package is decrypted, and from then on
the memory with every word still to be placed already there (`Promised`). `PackageAssumption` says that packages fit
below the fuse window and start above the other, so no word meets a window;
`BootInv` carries the key, the verdict and the package through the phases.

`RsaProofs`. For every number x, modulus n and bound, the estimate times n is at most x
(`EstimateNeverAbove`): the subtraction in `barrett_mod_with_mu` never goes below zero, and its
fallback is never taken. For x up to the bound it is one too small at most
(`EstimateOneBelow`). Both come from what two divisions round away, multiplied out. Together: up to the
bound, what the estimate leaves is a natural number, and one subtraction of the modulus at most makes it the
remainder (`BarrettReduces`). `RoundsAreRight` is the refinement of
`RsaNumbers` for numbers of any size. `PowerInv`: the result is the power with the bits of the exponent
taken so far (`PowersAdd`, that powers of sums are products, by induction over a set, which needs no
operator parameter). `EuclidInv`: each of r0, r1 is its s times the number but for a multiple of the
modulus, which makes s0 an inverse if r0 ends as one; number and modulus are made up of r0 and r1, so
that there is none otherwise.

`LimbProofs`. From `LimbAssumption` (bytes of at least two bits, limbs of at least one byte): a
number is a sequence of limbs without a leading zero, and means one value (`ValueUnique`), which lies
between the weights of its last limb and of the next (`NumberBounds`). Each operation is then
shown to give a number, and of which value: comparison, difference with borrows, products with carries
(`LimbsMultiply`), shifts, long division (`LimbsDivide`), Barrett reduction (`BarrettIsRight`, which
takes the estimate from `RsaProofs`), bytes to limbs and back (`BytesAreRead`, `BytesAreWritten`). A
recursive function has to be shown to exist before anything follows from it (`RecursionTo`,
by induction over a set), and then an invariant over its places gives the value: for a difference, that the low
limbs differ by what is borrowed; for a quotient, that what is left and the bits decided make up the
dividend. The loops need `LoopsInv`: where each loop is, and that it holds numbers and a modulus other
than zero; it gives `NumbersStayCanonical`. For `LoopsImplementNumbers`, `Tied` adds that `mod_pow`
runs on the question asked (`PowerAgrees`) and, for a signature, which power is being taken of what
(`SignatureAgrees`): the encoded digest starts with a zero byte and is below the modulus, the signature survives
its way through bytes, the exponents undo each other, and equal values are written by equal
bytes, so that `verify_em` sees the encoding that was signed and accepts it for that digest
only (`EncodingIsOfOneDigest`). Questions for a prime are excluded: that Miller and Rabin's test with
five bases finds every composite is not so for all numbers, and stays with TLC's instance.

`ModesProofs`. The assumptions are that `Decipher` inverts `Cipher`, that exclusive or undoes
itself (`XorAssumption`) and that the files are made as `Sealed` says, with sections whose block indices
fit half a counter (`FilesAssumption`). A byte has one block and one place in it, by the uniqueness of division
(`PlaceOfByte`, `ByteHasPlace`); so a block of what is joined is what was joined there
(`BlockOfJoined`), and every mode is inverted block by block. XTS (`XtsInverts`) needs more:
what the partial block borrowed comes back from the block decrypted first, with the later
tweak. Tweaks, the CBC chain and the quotients of a number are recursive functions; that
they exist, and their type, follows by induction over a set (`SequelExists`, `SequelTyped`).
`CountersNeverMeet`: numbers that fit their bytes are told apart by them (`BytesOfUnique`), and the
halves of a counter do not mix. `FilesAreReadAsMade` is the safety half of `ContentRecovered`; its
invariant `ReadInv` says that the bytes opened are the first sectors of the plain header,
that a stage after parsing has the header's own verdict, and that the title key and the
sections so far are the content's.

Only model-checked: liveness (`EventuallyTaken`, `HandlersEnd`, `ContentRecovered`), which the prover does
not reach; the answers of `find_prime`; everything about `ShaderLane` (`Bitwise` cannot
be used under a theorem, and what is claimed there rests on the decoder's finite tables).

## 5. Not modelled

- The rounds and tables of AES, and SHA-256: arithmetic with published vectors. Their
  callers are modelled over any cipher, and a digest stands for its message.
- The SPIR-V module itself (`gpu/spirv.rs`): ids, types and words are layout; what the
  code does is modelled. `gpu/mod.rs` sets up a device, which needs a driver.
- 186 handlers of `gpu/sm86.rs` beyond the places of their operands: they end in `todo!()`.
- The fuse words and their MMIO reads, keys that nothing uses, and the header fields
  `parse_nca_header` only copies: copies of data.
- Memory sizes below the end of the fuse window: undefined behaviour in the constructor.
- Registers of the interrupt controller no other operation reads, partial accesses, MRS,
  instruction decoding of exceptions, run until BRK.
- Buffer descriptors' contents, which handles are copied, and the command type of a
  message: the dispatch does not look at them.
- Files, audio and the graphical interface: a wrapper of mmap, nothing, and widgets.
