# A TLA+ model of c64-ChaCha20-Poly1305

The repository is a 6502 assembly library (ca65/ld65) that implements
ChaCha20, Poly1305 and the RFC 8439 AEAD for the Commodore 64, together with
the Python tools and the Makefile that build, check, test and measure it on VICE
and on an Ultimate 64.  This directory holds TLA+ models of the library and of
its tools, TLC configurations that check them, and TLAPS proofs about them.

## 1. The system

### Components, their state and how they interact

| component (source) | state it keeps | operations |
|---|---|---|
| AEAD wrapper (`src/lib/chacha20poly1305_lib.s`) | inputs `aead_key`, `aead_nonce`, `aead_aad_ptr/len`, `aead_data_ptr/len`; `aead_tag`; scratch block `aead_scratch` | `aead_encrypt`, `aead_decrypt`, and under them `aead_derive_otk`, `aead_compute_tag`, `aead_process_padded`, `aead_verify_tag` |
| ChaCha20 (`chacha20_lib.s`, `chacha20_compact.inc`) | `cc20_key/nonce/counter`, `cc20_state`, `cc20_work` = `cc20_keystream` | `chacha20_init`, `chacha20_block`, `chacha20_encrypt` |
| Poly1305 (`poly1305_lib.s`, `poly1305_core.s`, `poly1305_ripple.s`) | `poly_r`, `poly_s`, `poly_h`, `poly_product`, `poly1305_tag`, Profile A's Shoup tables `r_tab_lo/hi`, `sqtab_ready` | `poly1305_lib_init`, `poly1305_init`, `poly1305_block`, `poly1305_update`, `poly1305_final` |
| Quarter squares (`shared_sqtab_init.s`, `shared_ct_mul.s`) | 1 KB table `sqtab_lo/hi` at a fixed address | `mul_tables_init`, `ct_mul_8x8` |
| Shared cells (`data_lib.s`, `zp_config.s`) | `cc20_remain`, `cc20_remain_hi`, `cc20_data_ptr`, `zp_ptr1` | none of their own; every walker above runs on them |
| word32 primitives (`word32_lib.s`) | none | 32-bit add, xor, rotate |
| Ownership and manifest (`lib_manifest.s`, `precalc_manifest.s`, `lib_version.s`) | assembly-time symbols | link-time assertions |
| Image guard (`main.s`, `c64.cfg`) | linker layout | one assertion |
| U64 trampoline (`tools/_u64_helpers.py`) | sentinel, status and re-arm bytes in C64 memory | install, re-arm, poll with a timeout |
| Knob stamp and build tree (`Makefile`) | a stamp file with the knobs of the last build; objects and archives per target | invalidate objects when the knobs change; assemble, archive |
| Verification gates (`make verify`, `tools/verify_*.py`, `measure_resident_bytes.py`) | the one build tree; throwaway copies of it | build a configuration, read its objects, give a verdict |
| Benchmarks (`benchmark_chacha20_poly1305.py`, `bench_granular.py`, `bench_turbo_sweep.py`) | the wrapper and the test data on the machine, the Ultimate 64's speed, a sidecar file, a committed baseline | install, calibrate, self-test, set up, sample, report, compare |
| Constant-time check (`ct_timing_check.py`) | the display bit, the minima per operand class | calibrate, sample every class, verdict |
| Differential fuzzers (`hazmat_fuzz.py`, `audit_cross_check.py`) | sentinels in the machine's memory, mismatches and scores | known answer, corpus by category, probe of `$ff00`, exit code |
| other test drivers (`tools/test_*.py`, `step*_cross_check.py`, smoke tests) | none that lasts | drive the program with vectors |

The library is single-threaded and has no heap.  Components interact by
subroutine calls and by *shared fields that nobody clears*: `cc20_remain` is
the running count of `chacha20_encrypt`, of the AEAD's padded MAC walker and of
`poly1305_update`; `aead_scratch` is the last block of the padded walker, the
length block and the last block of `poly1305_update`; `cc20_keystream` is the
cipher's working state and the source of the one-time key.  The caller owns the
64 KB outside the library, populates the input fields, and can use the drivers
directly between AEAD calls.

### What is hard here

* **Leftovers.**  Two initialisations were optimised away (the source calls
  them A5 and A6): the data stream continues from the `cc20_state` that the
  one-time-key derivation happened to leave, in `aead_decrypt` across the
  whole tag computation.  The table build is skipped on a flag.  The padded
  walker returns with a non-zero count.  A test of one call from a fresh image
  sees none of this.
* **Boundaries of byte arithmetic.**  17-bit sums in the entry guard, 16-bit
  counts compared and subtracted bytewise, a pointer that wraps to zero when a
  buffer ends at `$FFFF`, a 32-bit counter incremented by hand.
* **Order.**  Encrypt-then-MAC, MAC-before-decrypt, in place, in one buffer.
* **Ambiguity.**  Zero padding makes different splits between associated data
  and data look alike; only the length block separates them.
* **Arithmetic.**  Carries through a 33-byte product, lazy reduction modulo
  2^130-5, squares by recurrence, branchless absolute difference.
* **The harness.**  Two processors that share cells without a lock, a timeout
  that gives up on a call which then completes, a stream that loses markers.
* **One tree, many configurations.**  Every gate rebuilds the same directories
  under other knobs; a make may be interrupted anywhere, skips goals it has
  already updated, and hands its knobs to makes that name none.
* **Measuring.**  `aead_decrypt` overwrites its own input; jitter is drawn anew
  by calibration and by self-test; the Ultimate 64 is shared and remembers its
  speed; a tool may be killed while it writes the file another one reads.
* **Judging.**  A checker can be green for the wrong reason: it reads stale
  objects, compares rows that are not there, or finds in a result cell what the
  call before left.

`PROJECT.json` lists each of these as a hazard at its line with the properties
that cover it.

### What makes each component correct

* AEAD: seen by its caller, one atomic RFC 8439 operation or a refusal, from
  any state the library can be in; nothing outside the buffer changes; nothing
  is decrypted before the tag compared equal; exactly the sealed packets open.
* ChaCha20 driver: byte *i* of a buffer meets byte *i* mod 64 of block *i*
  div 64 after the entry state, once; state, pointer and count agree.
* Poly1305 driver: the accumulator absorbs the message's blocks, each once, in
  order, padded and high-bitted as the RFC says, under this key's clamped r and
  through a table that is there.
* Quarter squares: `table[k] = k^2 div 4`, hence `ct_mul_8x8(a, b) = a*b`.
* Poly1305 arithmetic: the result is congruent to `(h + block) * r`, in a range
  that the final single subtraction can finish.
* U64 trampoline: the answer a driver reads is the answer to its last call.
* Knob stamp: an artifact is never linked from objects of other knobs, and an
  unchanged build is not made again.
* Gates: an audit reads the build its recipe asked for, and is red exactly for
  the source trees it exists to stop.
* Benchmarks: a reported number is what that routine takes for the call named,
  on the build named; a sound setup is not refused; the shared machine is left
  as it was; a baseline check passes exactly the builds that match.
* Fuzzers: PASS for exactly the libraries without a defect in reach.

## 2. The modules

```
The drivers, over symbolic bytes
  ByteWords            16-bit arithmetic on bytes
    AeadTerms          symbolic bytes, keys, accumulators, tags
      LibMemory        memory and the shared 16-bit count
        ChaChaStream   cipher state and chacha20_encrypt's loop
        PolyDriver     key halves, tables, accumulator, tag
          AeadLib      both, the AEAD wrapper, and the caller
            AeadProperties   what must hold of it     implements  AeadSpec
                     (AeadProofs)
              AeadChannel    two ends of a channel  (MCChannel, AeadProofs)
              MCAead         instances              (AeadDocClaims)
The primitives, over numbers
  QuarterSquares       sqtab and the byte multiplies    (QuarterSquaresProofs)
  PolyLimbs            Poly1305 byte by byte, three builds        (MCPolyReal)
    PolyLimbsProperties                             implements  PolyLazy
      (MCPolyLimbs, PolyLimbsProofs)
  PolyLazy             whole numbers, lazy reduction            (MCPolyLazy)
      (PolyLazyProofs)                              implements  PolyMac
  ChaChaRounds         both ChaCha20 cores, byte by byte   implements  ChaChaRfc
      (MCChaChaRounds)
The tools
  Trampoline           a remote host and the machine it calls
      (TrampolineProofs)
  BuildTree            objects, archives and the knob stamp
  GateTools            the audits, from what they read to a verdict
    VerifyGates        a developer, makes and gates over one BuildTree
      (MCGates, BuildTreeProofs)
  CycleTimer           chained timers, self-test window, baseline comparison
    LabMachine         VICE and a shared Ultimate 64 under measurement
      BenchTools       the benchmark and timing tools as scripts over it
  FuzzOracle           the fuzzer's checks against a library with a defect
    Lab                sessions of all of them: BenchTools and FuzzOracle
      LabProperties    what they owe the reader of their reports
        (MCLab, LabInvariants, LabProofs)
Proofs only
  CommonLemmas         quotients, induction, iteration, sequences
```

The three parts meet at the terms.  What the drivers' part treats as a symbol,
"keystream byte i of block (key, nonce, counter)" or "the accumulator of these
blocks under this r", the primitives' part computes: `ChaChaRounds` says that
the bytes behind the symbol are RFC 8439's, `PolyLimbs`, `PolyLazy` and
`PolyMac` that the accumulator and the tag are, and `QuarterSquares` that the
byte product which `PolyLimbs` writes as `*` is what `ct_mul_8x8` returns.

`ByteWords` translates the 6502 idioms the drivers repeat: `AEAD_DOMAIN_GUARD`
(`GuardAccepts`), a 16-bit pointer advance (`AddWord`), the compare that looks
at the high byte first (`HasBlock`) and the two-byte subtraction (`SubLo`,
`SubHi`).  `Radix` is 256 in the program.

`AeadTerms` replaces the mathematics by terms.  A byte of memory is the set of
terms it is the exclusive-or of: a literal and keystream bytes, each identified
by (key, nonce, counter, index); XORing the same keystream byte twice cancels.
An accumulator is the sequence of blocks it absorbed, each with its high bit
and the multiplier it met.  Two tags are equal only if the same blocks were
absorbed in the same order under the same r and s: this is what "Poly1305 does
not collide" amounts to, and it makes every property about *what was fed to the
primitives*, which is what the drivers are responsible for.

`ChaChaStream` and `PolyDriver` hold one operator per routine.  `cc20_state` is
(key, nonce, counter); `chacha20_block` names the block it leaves in
`cc20_keystream` and steps the counter modulo `CtrMod`.  `r_tab` is the r that
Profile A's Shoup tables were built for, `sqtab` says whether Profile B's table
is in memory, and `Multiplier`/`Absorbed` use the tables, not the key, as the
code does.

`AeadLib` composes them.  `pc` is where the program is; a library step is one
turn of a loop or the straight-line code between two loops:

| step | code |
|---|---|
| `GuardReject`, `GuardAccept` | the two guard expansions at the head of either entry |
| `DeriveOtk` | `aead_derive_otk` with everything it calls |
| `LoadStream`, `StreamBlock`, `StreamDone` | setting the pointers, `chacha20_encrypt` one block per turn, its return |
| `LoadAad`, `LoadCiphertext` | the two halves of `aead_compute_tag` |
| `PaddedFull`, `PaddedPartial`, `PaddedDone` | `aead_process_padded` |
| `FinishTag` | the length block and `poly1305_final` |
| `PublishTag` / `VerifyTag` | the tail of encrypt / `aead_verify_tag` and the branch on it |
| `UpdateFull`, `UpdatePartial`, `UpdateDone` | `poly1305_update` |

The caller's actions are: populate the fields and call either AEAD entry
(`CallAead`), call any driver directly (`CallChaCha*`, `CallPoly*`,
`CallLibInit`), store to its memory or to `aead_tag`, and, on Profile B, give the
table's memory away and clear `sqtab_ready` as the API's rebuild protocol asks
(`ReclaimTable`).  They happen only between calls: no interrupt handler of the
host may use the library's cells (docs/CT_ANALYSIS.md leaves that to the host).
`call`, `op` and `steps` are history: the machine at the entry of the current
call, and a bound for TLC.

`AeadSpec` is what the two entries promise: closed forms without a loop,
pointer or counter, applied in one step.  `AeadProperties` maps `AeadLib` to it
(while an AEAD call runs, the abstract memory is still the memory at its entry)
and states the other properties.  `AeadChannel` adds the set of packets that
have been sealed, and a receiver that may be handed the tag of any of them, not
only of the last one (`Deliver`).

`QuarterSquares` is Profile B's multiply: `mul_tables_init` one turn of its loop
at a time (`BuildTurn`), the operand that `poly1305_multiply` patches into
`ct_mul_8x8` at two places (`Bake`), `ct_mul_8x8` (`CtMul`) and the branching
multiply it replaced (`MulLegacy`), and a consumer that takes the table's
memory (`ReclaimTable`).  A multi-byte cell is a number modulo a power of
`Radix`; the self-modified load addresses are the table index they select.

`PolyLimbs` is `poly1305_init`, `_block`, `_multiply`, `_reduce` and `_final`
on vectors of bytes, with one step per byte product and per reduced byte.
`body` selects the build: `"ripple"` (the unrolled and the rolled Profile B
bodies, which do the same byte steps), `"compact"` (the row carry kept in one
byte), `"shoup"` (Profile A, with its tables filled by `ShoupInit`).
`PolyLimbsProperties` says what the bytes add up to.  `PolyLazy` is the same
computation on whole numbers, one step per routine: the accumulator after a
block is `L + 5 * H` and may reach beyond 2^130.  `PolyMac` is the RFC's
field arithmetic.

`ChaChaRounds` has both cores on real 32-bit words.  In the default core a step
is one line of an inlined quarter round, and rotations by whole bytes are
renamings of byte offsets (`ReadOffsets`, `XorOffsets`) that later lines must
honour; in the compact core a step is one line through the offset table and the
rotation loops (`Turned`).  `WordStep` is the single quarter round on
`word32_lib`.  With `CHACHA20_USE_WORD32` the macros call subroutines that
compute the same bytes; that build is not told apart.  `ChaChaRfc` is the RFC's
block function, a line at a time, on pairs of 16-bit halves.

`Trampoline` is `run_subroutine` and `measure_cycles` on an Ultimate 64: the
machine's loop (`Sys`, `Jsr`, `StoreStatus`, `StoreSentinel`, `LeavePark`,
`ClearFlag`), the host's writes one request at a time and in order
(`HostWrite`), its polls, a timeout after which the caller goes on with its next
test, and the debug stream with lost markers, walked by `_parse_marker_pairs`
(`Walk`, `Pairs`).  The two bytes of the jsr operand are written by one request
and are one step.

`BuildTree` has one action per command of the Makefile's parse-time guard
(`Begin`, `DeleteObjects` one directory after another, `DeleteArchives`,
`TruncateStamp`, `WriteStamp`), then `Compile` one member at a time, `Refuse`
when the sources stop on an `.error`, and `Package`.  `Interrupt` kills a make
between any two of them and `Edit` changes a source between makes.  A file's
time is the version of the source it was made from.  Of the prerequisites only
the source of a member is there; the `.inc` files that the rules do not name
as prerequisites are outside.

`GateTools` has each audit as a function from what `od65`, a label file or the
source tree show it to green or red.  A source tree is a record: fragments with
segment, alignment and size, exports, label rows, zero-page slots, python files,
each guarded by the defines that select it.  `WorstLink` is the linker: every
order and subset of the members behind every start address.  `VerifyGates`
expands what a developer types into a script of parses, goals, sub-makes,
inspections and dumps, recipe by recipe, and runs it over the `BuildTree`.
`memo` is what the running make process has updated already; `aside` is the
caller's tree while a gate works on a copy of its own.  The isolation and the
knob gate run in such a copy, with the caller's knobs inherited through MAKEFLAGS
wherever a recipe passes none.

`LabMachine` has the operations that the benchmark tools share: boot or load,
set the speed, blank the display, install the wrapper (which may not arrive),
calibrate, self-test, set up a routine, take a sample, record a row.  What a
call does to the memory that a later sample depends on is `Execute`: encryption
in place flips the buffer and sets the tag, `aead_decrypt` takes the failing path
if the buffer is not what the tag is over, `chacha20_encrypt` uses up its count.
`BenchTools` writes each tool as a script of these operations plus its own: the
sidecar's load, truncation and save, the rows' comparison with the baseline, the
turbo legs with their `finally`, the verdict of the constant-time check.
`FuzzOracle` computes what each category of `hazmat_fuzz.py` reports for a
library with at most one defect, under three ways that `$ff00` may look to the
processor and to the harness; among its refused calls are data at `$ff00` and
data at `$0900`, whose front the tool sees whatever it sees of `$ff00`.  `Lab`
runs sessions of all tools on both
machines, with Ctrl-C, kills and other users of the Ultimate 64 in between, and
has `audit_cross_check.py` vector by vector.

In every primitive's model the caller makes any calls in any order, except that
a block or a final step follows an init (`keyed`): that is the contract of
docs/API.md, and `MacKeyed` shows that the AEAD keeps it.  So `ChaChaRounds` does
not say what a `chacha20_block` before any `chacha20_init` computes, where the
default core, which has the constants in its code, and the compact one, which
reads them from `cc20_state`, differ.

## 3. The runs

| run | configuration | shows |
|---|---|---|
| `aead_profile_b` | `MCAeadB.cfg` | `TypeOK`, `StreamPosition`, `Primed`, `MacKeyed`, `Confined`, `UpdateAbsorbs` and the refinement `ImplementsAead`, with every entry point in any order |
| `aead_profile_a` | `MCAeadA.cfg` | `ImplementsAead` when the multiplier is a per-key table, and `CallsReturn` under fairness |
| `channel` | `MCChannel.cfg` | `OpensExactlySealed`, `OpensToSealedText` |
| `quarter_squares` | `MCQuarterSquares.cfg` | `TableExact`, `ProductExact`, with builds, hand-overs, bakes and multiplies in any order |
| `poly_limbs` | `MCPolyLimbs.cfg` | the bytes of all three builds: `LimbTypeOK`, `TablesExact`, `ProductSoFar`, `ReducedSoFar`, and the refinement `ImplementsLazy` |
| `poly_lazy` | `MCPolyLazy.cfg` | `InRange` and the refinement `ImplementsMac` |
| `poly_vector` | `MCPolyReal.cfg` | `KnownTag`: at real size both Profile B bodies give the tag of test/rfc7539_vectors.json |
| `chacha_rounds` | `MCChaChaRounds.cfg` | `KnownKeyStream` (the repository's block vector), and the refinement `ImplementsRfc`, for both cores and the single quarter round |
| `trampoline` | `MCTrampoline.cfg` | `WritesWhileParked`, `AnswersInStep`, `RunsOnce`, `PairsBracketOneRun`, and `CallsReturn` under fairness |
| `gates` | `MCGates.cfg` | `TreeCurrent`, `InspectsRequested`, `VerdictsExact`, `FootprintCovered`: makes, edits, interruptions and every gate over one tree |
| `lab` | `MCLab.cfg` | `RowsExact`, `Unrefused`, `CtVerdictExact`, `BaselineGate`, `ColumnsKept`, `LeavesNoTurbo`, `FuzzExact`, `AuditHonest`: sessions of the benchmark, timing and fuzz tools |
| `claim_auth_failure` | `ClaimAuthFail.cfg` | refutes docs/API.md:133 |

**Bounds of the AEAD runs.**  The machine has `Radix = 10`: 100 addresses,
keystream blocks of 8
bytes and Poly1305 blocks of 4.  The code relies on the relations of
`WordsAssumption` only (block sizes fit in a byte, two Poly1305 blocks fit in
a keystream block, the three live length bytes are distinct), which 10/8/4 and
256/64/16 both satisfy.  The requests cover, for both walkers: partial and
whole last blocks, counts of one and of two digits and ones whose low digit
becomes zero while the high one is not, buffers that end at the top of memory
exactly, one byte beyond it and far beyond it, and empty ones.  `MaxCallerSteps`
bounds what the caller does: three steps let an AEAD call follow any two other
operations, so leftovers of any kind meet it; the channel has four (seal,
tamper, repair or re-seal, open).  `CtrMod = 102` is the least value that
`CounterAssumption` allows (2^32 in the program), and a direct caller starts the
counter at its last value so that it wraps.

**Bounds of the other runs.**  `quarter_squares` has bytes of 16 values, so
that the table has 32 entries, the squares need three bytes from entry 16 on,
and every pair of operands is multiplied; `Trash` is what a consumer may leave
in the table.  `poly_limbs` has bytes of 32 values and three of them to r, the
modulus is 4 * 32^3 - 5, and five calls allow a key and three blocks and the
tag, or a second key after a tag; the keys and blocks are chosen so that a
carry ripples through two bytes, every byte is at its maximum, and an
accumulator ends between the modulus and 2^130 (the mutants of the carry, of the
mask and of the clamp show that these happen).  `poly_lazy` needs no bound on
the number of blocks: its accumulator is finite, and every multiplier of a
256-element field is tried.  `poly_vector` is the one run at the real size of
Poly1305; it fixes the clamped byte positions that the scaled run leaves free.
`chacha_rounds` is at the real size throughout: two keyed states, of which one
starts at counter $fffffffe so that the third block wraps, two grids of working
words for the single quarter round, and `MaxCalls = 4`.  `trampoline` has five
calls and samples, two samples to a measurement and at most two timeouts:
enough for a measurement after a call, for two calls that are given up one after
the other, and for a marker lost in one sample to meet a marker lost in the next.

`gates` has seven targets, four members and twelve sets of knobs.  On a
conforming source tree a developer types up to three commands: two plain makes
with or without knobs and an edit, then a gate, all of `make verify`, or several
goals in one make process; any of them may be interrupted, so an old
configuration and a half-invalidated tree meet every gate.  367 source trees
with one defect each (or one near miss) meet the gate that is there to see it:
zero-page slots at every distance, footprints with every link order, start
address and subset behind a page of 4 bytes, label rows, exports and python
files.  One edit of one member is enough for a stale object; a second edit of it
changes nothing that the first did not.

`lab` has timers of 16 values, so that rows cross from the low into the high
timer, jitter of one cycle, two packet lengths, two operand classes, two samples
to a row, speeds 1 and 4 with a rejected 6, and five baselines, among them an
empty one, a row missing, a row that was skipped and a row of zero.  Five images
differ where a tool must tell them apart: profiles A and B, a slow block, a
build with a leak of one cycle and one without, and a build without a symbol.
The 29 libraries (times three views of `$ff00`) have no defect or one: each
guard missing or too strict per entry and buffer, a tag not published or not
compared in one byte, decryption before the comparison, a wrong answer for one
position of a corpus.  Three sessions in a row let a sweep of one profile, a
torn sidecar and a sweep of the other follow each other, and a neighbour's
speed or a killed turbo sweep precede a benchmark.  Cycles stay below what both
timers count: an elapsed time beyond it wraps on the machine without a sign.

**Fairness.**  `AeadLib`'s `FairSpec` is weakly fair in `LibStep` and in nothing
else: the processor goes on executing the library once it has entered it, and
the caller need not call.  `Trampoline`'s is weakly fair in the machine's steps
(the routines return, as `CallsReturn` of `AeadLib` says, and the loop around
them has no other way to stop) and in the host's (its requests are sent and its
polls repeated); calls and timeouts are not fair.  `CHECK_DEADLOCK FALSE` is set
where the caller may stop calling.

**Overlapping buffers.**  The API does not forbid associated data that overlaps
the data.  `aead_encrypt` reads it after encrypting, so the tag is then not the
RFC's tag over the original associated data; `AeadSpec` describes disjoint
buffers.  `SeparateBuffers` says so of the requests; it is the hypothesis of the
refinement's theorem, and TLC checks it of the instances of `MCAead`.  The
channel run has an overlapping request and shows that such a packet still opens,
to the right text; the channel's theorems hold for any overlap.

**Disagreements between documentation and code.**  One has a run:
docs/API.md:133 says that on authentication failure "nothing" is written; the
code has by then written `poly1305_tag` and the working state (as API.md:599
says).

Two are part of what the properties leave open.

* Makefile:1003 says that `verify-resident-bytes` ignores a `CONTRACT_DEFINES` on
  the command line, and gives
  `make verify-resident-bytes CONTRACT_DEFINES="-D POLY1305_PROFILE_LONG=1"` as
  the case it was written for.  Its `lib-compact` leg (Makefile:1095) and its
  closing `lib` (Makefile:1106) name no `CONTRACT_DEFINES`, so make hands them the
  command line's; `LIB_VARIANT_COMPACT` with `POLY1305_PROFILE_LONG` is an
  `.error`, and the gate is red on a sound tree.  `FootprintCovered` therefore
  allows a red verdict on a conforming tree where the sources refused the knobs,
  and without that disjunct the `gates` run finds this behaviour.
* tools/_u64_helpers.py:153 says that `run_subroutine` returns register A, and
  test_chacha20_poly1305.py:281 relies on it for the verdict of `aead_decrypt`.
  After a call that timed out, the next one can take the old call's late sentinel
  for its own and return the old A, or the 0 that it has just written itself,
  which is `aead_decrypt`'s code for success; the tests go on after a timeout
  (test_chacha20_poly1305.py:1037).  What is left is
  `AnswersInStep`: until a call is given up every answer is right, and after that
  one can be wrong only if a run that was asked for is missing, or has not come
  back, when its status is read.  Without that condition TLC refutes the property
  after one timeout.

Others were met while modelling and are recorded here only.

* docs/API.md:422 gives the high bit of the length block and of padded partial
  blocks as 0; the AEAD passes 1, as RFC 8439 requires.
* docs/API.md:472 says that `poly_h` holds the reduced accumulator before s is
  added when `poly1305_final` returns; the fused last pass stores the sum in it
  (`PolyFinal`).
* The comment poly1305_core.s:505 gives the high part H 124 bits; two blocks of
  $ff under the largest r need 125, and the reduction forms 17 overflow bytes
  and handles them.
* tools/_u64_helpers.py:217 says that on a degraded debug stream marker
  detection fails with an error; entries lost between two markers that did
  arrive make the count too low without one, because the number of dropped
  packets is only printed.
* README:355 and the docstring of `hazmat_fuzz.py` describe the whole AEAD
  grid; the list has 140 cases and the full corpus takes the first 130
  (`Edges`, `FullCounts`).
* `benchmark_chacha20_poly1305.py --samples 5 --sweep` takes three samples: the
  sweep cannot tell 5 from the default.

**What the runs of the tools say about them.**  `FuzzExact` is exact only up to
`Beyond`: a tag comparison that ignores a byte other than 0, 7 and 15, the tail
of a list beyond its count and an `aead_decrypt` that refuses associated data
ending at the top of memory pass.  `ColumnsKept` excludes a sweep that was
stopped while it wrote the sidecar: the next one cannot parse the file and
starts the other profile's column from nothing.  `LeavesNoTurbo` excludes a
kill, after which only the next tool's `set_speed(1)` helps: `RowsExact` says that
it does.  `BaselineGate` is about rows of the report; a row that only the
baseline has is never looked at.  `AuditHonest` excludes the counts of zero, for
which `audit_cross_check.py` fails a sound library.

Each property of a passing run has a mutant: an operator marked `Mutant:` just
before the definition it stands in for, a version with a plausible bug, under
which the run's property fails.

## 4. The proofs

Every theorem is about the specification of a run, for every value of the
constants that satisfies the `ASSUME`s of its module; TLC evaluates those
`ASSUME`s on the instance of each run.

`AeadProofs` starts with the byte-wise arithmetic, for every radix:
`GuardExact` (the guard accepts exactly `ptr + len <= Space`), `HasBlockExact`,
`TakeExact`, `AddWordFits`, `OffsetInside`.  They rest on `WordsAssumption`.

Its `TypeCorrect == Spec => []TypeOK` holds for all values of the constants that
satisfy `WordsAssumption`, `CounterAssumption`, `ProfileAssumption` and
`CallerAssumption` (what callers pass fits the fields, and direct callers of the
walkers stay inside memory).  `TypeOK` is inductive as it stands: the count bytes
stay bytes by `TakeExact`, the pointer by `AddWordFits`, the bytes written by
`XorIntoType` because a block's count never exceeds `ChaBlock`.

Then `AlwaysPrimed == Spec => []Primed` and `AlwaysMacKeyed == Spec =>
[]MacKeyed`.  The inductive invariant is `KeyInv`: the two properties,
`ReadyMeansBuilt` (the flag that skips the table build is never set without the
table), and `ControlOK`, which ties `pc` to the entry point that got there.
`ControlOK` is needed because a tag phase reached under `op = "update"`, say,
would satisfy neither; `ReadyMeansBuilt` because `poly1305_init` trusts the flag;
and `Primed` in `aead_decrypt` has to be carried through every step of the tag
computation, which is why it is stated over `TagPhase` and not only where the
stream starts.

Last, `StreamCorrect == Spec => []StreamPosition` and
`AlwaysConfined == Spec => []Confined` from `StreamInv`: the two properties and
`EntryOK` (what the history says of the call is what the fields say),
`DomainOK` (past the guard the buffer ends inside the address space, by
`GuardExact`), `Untouched` (memory is as at the entry until the stream starts),
`Verified` (past the comparison the two tags are equal) and `Aligned` (a stream
that is not finished has consumed whole keystream blocks).  The heart of it is
`StreamAdvances`: one turn of the loop, with a count that `XorCountExact` says
is min(64, remaining), extends the closed form `Streamed` by that many bytes.
`StreamExtends` needs `DivMod` (byte `done + i` of the buffer belongs to block
`done div 64`, at index `i`), `Aligned` gives its hypothesis, `ModNext` follows
the counter.

The second half of `AeadProofs` has the walkers of Poly1305 and what follows from
them.
`TagInv` says that the accumulator, anywhere in the tag computation, holds the
first `n` blocks of the RFC's text (`TextTerms`: padded associated data, padded
ciphertext, lengths), with `n` given by where the program is (`TextSoFar`);
`Walking` relates the pointer and the count of the padded walker to `n`, and
`Computed` that `poly1305_tag` is the tag of the whole text once it is finished.
The blocks already absorbed are read from memory *now*, so every step has to
show that it does not disturb them: the ciphertext is complete before
`aead_encrypt`'s walk begins, and `aead_decrypt` writes only after it.

* `AeadRefines == ASSUME SeparateBuffers PROVE Spec => ImplementsAead`: the
  loops implement the atomic specification.  Each library step is a stutter
  until the return, and the return is `AtomicAead`'s step, by `StreamInv` for
  the text and by `TagInv` for the tag.
* `UpdateCorrect == Spec => []UpdateAbsorbs`: the same for `poly1305_update`,
  whose partial last block has no padding to 16 but a high bit of its own.
* `ChannelAuthentic` and `ChannelDelivers == ASSUME TagsApart PROVE ChannelSpec
  => []OpensExactlySealed`, `=> []OpensToSealedText`.  `TagInjective` is the
  heart: the text, with its zero padding and its length block, determines the
  packet.  `SealedOK` keeps with every sealed packet how its text became its
  data, and `StreamedTwice` that a stream undoes itself; the latter is why
  overlapping buffers do no harm.  `TagsApart` is the cryptographic assumption,
  namely that a tag made up by somebody else is none that `poly1305_final`
  computes; without it a forger succeeds by definition.

`CommonLemmas` has what `\div` and `%` do to sums, induction on the naturals with
the predicate as a set (`NatSetInduction`, from the library's minimal elements of
well-founded orders, because an operator parameter cannot be instantiated), that
an iteration is a function (`Iteration`), that a set of naturals has a least
member (`Least`), that a sum over a finite set, as the community modules
compute it, is zero only if every summand is (`SumOver`), and how sequences are
joined and cut (`JoinParts`, `HeadTailOfJoin`, `OneSet`, `Unfolded`).

`QuarterSquaresProofs` proves `AlwaysTableExact` and `AlwaysProductExact` for
every radix from 4 on.  The inductive invariant `MulInv` adds to the type
invariant and the two properties that the two baked operands are equal (without
it a multiply would mix two bytes) and that the builder, while it runs, has not
passed the end and the table does not count as built.  `NextSquareExact`
carries the recurrence: the addend fits two bytes and the sum three as long as
the next index is in the table.  `SquareFits` bounds the last entry,
`QuarterDifference` is the identity that the table rests on, with the parities of
sum and difference equal, and `DigitwiseDifference` shows that the subtraction
with a borrow is exact because the result is a product of two bytes.

`PolyLazyProofs` proves `AlwaysInRange` and `LazyImplementsMac` for every tag
space, clamped multiplier, message and pad.  They rest on `SpaceAssumption`,
`ClampAssumption` (r has lost its top four bits), `BlockAssumption` and
`PadAssumption`.  `LazyInv` is the type invariant and the range: `FoldInRange`
shows that the range, 5/4 of 2^130, survives a block because r is at most
1/64 of 2^130, `FoldCongruent` that folding changes nothing modulo the
prime, and `ReduceOnceExact` that bit 130 of h + 5 selects the reduced value
for everything in the range.  The range is what makes the last one true.

`PolyLimbsProofs` proves the bytes: `LimbTypes`, `ShoupTables`,
`MultipliesExact`, `ReductionExact` and `BytesImplementLazy == Spec =>
ImplementsLazy`, for every radix and length of r that satisfy `LimbAssumption`
(the radix is a multiple of 16, so that quarters and the clamp's nibble are
whole, and the clamp reaches the top byte of r) and all keys and blocks that
satisfy `OperandAssumption` (they are vectors of bytes, and a block's high byte
is 0 or 1, as `poly1305_block`'s callers pass it).  `BytesImplementMac` composes
it with `PolyLazyProofs`: `LazyOperands` discharges that module's assumptions for
the numbers that the clamped keys, the pads and the blocks stand for.

The first half is about vectors of bytes, with `Val` as the number they stand
for: what changing one byte does to it (`SumUpdate`), a vector cut at byte k as
quotient and remainder (`SumMod`, `TopByte`), the `adc` chain (`ChainExact`,
`ChainMod`), the ripple (`RippleAdds`: a byte below the end does not wrap,
because the sum still fits the buffer), a two-byte product added
(`ProductAdds`), the compact row's byte of carry (`CompactStep`: it cannot wrap,
since (R-1)^2 + 2(R-1) < R^2), the table recurrence (`ShoupRowExact`), the shift
by two bits (`SplitExact`), one byte of 5 * H (`ReduceStep`: the carry is at
most 5), the clamp (`ClampExact`) and the final step (`BlendExact`,
`TagExact`).  The second half is the inductive invariant `PolyInv`.  It adds to
the four properties

* `Positions`: where the unrolled code stands, and that whoever multiplies has a
  key (so that `TablesExact` speaks of the table that is read);
* `Ranges`: r is below a sixteenth of its range and, between blocks, `poly_h`
  below 5/4 of 2^130.  `BlockAdd` needs it to fit `poly_h + m` into seventeen
  bytes, and `PolyFinal` to subtract once;
* `Entry`: what the history has of the block is what is being multiplied;
* `CompactClear`: the byte that a compact row stores its carry in is still zero;
* `Folded`: the running carry of the reduction is at most 5, and what has been
  folded are the low bytes of H.  At the last byte the sum is below 5/4 of 2^130
  (`FoldBelow`), so that carry is zero: nothing is lost where h has no
  eighteenth byte.

`ProductSoFar` is inductive by `PartialSums`, one lemma for the rows of h and the
rows of r, which also bounds every intermediate product by the final one, below
R^(2 NR + 1): the ripple therefore ends inside the buffer.  TLC checks
`PolyInv` too: the `poly_limbs` instance satisfies it in each of its 61891
states.

`BuildTreeProofs` proves `TreeTypesOK`, `ArtifactTracksKnobs == TreeSpec =>
[]FinishedCurrent` and `GuardIsIncremental == TreeSpec => []SameKnobsIdle` for
every set of directories, members, knobs and recipes and every number of edits,
under `TreeAssumption` (archives are directories' products; `NoFile` and
`NoStamp` are no object and no knobs).  The inductive invariant `TreeInv` needs
beside the type: `Keyed` (at every step, an object in any
directory was assembled with the knobs in the stamp plus that directory's recipe,
and the stamp then does hold knobs), `Invalidated`
(a guard past its deletions has left no object), `Stamped` (a make that assembles
has its own knobs in the stamp), `StillCurrent` (a make that found everything
current still does), and the two results.  `Keyed` is why the order of deletion
and stamp matters: `BeginStampFirst` breaks it at an interruption.

The second half of `BuildTreeProofs` proves the gates: `GatesBuildCurrent ==
Spec => []TreeCurrent` and `AuditsReadRequested == Spec => []InspectsRequested`
for `VerifyGates` with any commands, sources, knobs and recipes that satisfy
`CommandsAssumption` and `SourcesAssumption` (commands name existing goals; a tree
without the Makefile's guard is there for the knob audit only).  `GatesInv` is
the invariant.  While a script is worked off, `TreeInv` is no longer about one
make: the stamp may be another gate's, the tree may be a copy, and what this
process has updated is not looked at again.  It therefore adds

* of the script that is left (`ScriptInv`): copies and discards come in pairs
  (`Paired`), every inspection stands right behind the make it is about
  (`Prepared`), and between a make under other knobs and the next goal there is a
  make that renews the tree (`Restored`);
* of the tree: whenever a goal is reached the caller's tree, set aside or not, is
  the one of the caller's knobs, or a renewing make comes first (`GoalsReady`),
  and a tree set aside is as consistent as it was (`AsideKeyed`);
* of the running make: it is the one at the head of the script (`Running`), and
  what the stamp says at each of its steps (`MakeStamp`).

`Restored` is what `make verify` owes to the closing `lib` of each gate's
recipe: `RecipesBlock` shows that each recipe as written satisfies `Prepared`
and `Paired` and ends renewed, and that joining them keeps all three; from there
on, working off the script only removes its head.  For a tree with another guard
the script holds no inspection (`Quiet`).  TLC checks `GatesInv` too: the `gates`
instance satisfies it in each of its 551682 states.

`TrampolineProofs` proves all four safety properties, for any number of calls,
samples, timeouts and lost markers: `HostWritesWhileParked`, `CallsAnswered`,
`RunsAsAsked` and `SamplesBracketOneRun`.  They share `TrampolineInv`.  Its idea
is `Permissions`: each call and each sample is one permission to run, and it is
in one place at a time, with the host that has still to write, in the keyboard
buffer, in the re-arm flag or at the jsr; hence `RunsOnce`, with timeouts and all.
`Turns` adds, for a session without a timeout, whose turn it is and how far the
machine is (`Pending`, `Answering`, `Resting`), and `Captured` that the trace has
the markers of the finished samples in order, some missing (`Recorded`).
`PairsBracket` is a counting argument: `WalkFinds` gives pairs that do not
overlap, so their closing markers are of increasing runs, and `Samples` of them
within `Samples` runs leave one to each run (`Increasing`); a pair that spanned
two would leave too few.  `CallsAnswered` needs one invariant more, which
holds after timeouts too: a machine that has entered the jsr as often as it was
asked to did so the last time for the call being polled for (`CaughtUp`), because
`Permissions` leaves no arming anywhere else.

`LabProofs` proves all eight properties of the measuring and fuzzing tools, for any
commands, lengths, operand classes, speeds, neighbours, libraries and number of
sessions (the invariants, and the notions about scripts that they are stated in,
are `LabInvariants`):

* `NoTurboLeft == Spec => []LeavesNoTurbo`;
* `ColumnsStay == Spec => []ColumnsKept`;
* `SelfTestPasses == Spec => []Unrefused`;
* `AuditsHonest == Spec => []AuditHonest`;
* `RowsTrue == Spec => []RowsExact`;
* `CtVerdictTrue == Spec => []CtVerdictExact`;
* `BaselineTrue == Spec => []BaselineGate`;
* `FuzzTrue == Spec => []FuzzExact`.

They rest on `CommandsAssumption` and `SizesAssumption` (what a session may be
asked for: the constant-time check runs on VICE and the turbo sweep on the
Ultimate 64, as their `main`s do, a measurement has at least one sample, and there
is a class of operands to check) and on `TimerAssumption`: the timers do not wrap within a self-test, a speed that the
firmware accepts is not zero, and the jitter is no larger than `U64_JITTER_FLOOR`,
which the program's comment claims of it (benchmark_chacha20_poly1305.py:243).
Without the latter a sound wrapper is refused when the calibration saw less jitter
than the self-test.  `RowsTrue` needs `CyclesAssumption` besides: no measured call,
repeated by its loop, overruns both timers, which is about an hour at 1 MHz.
`BaselineTrue` needs `BaselinesAssumption` (a row of a baseline is a number of cycles or
was skipped) and a tolerance below 100 percent, from which on a row of any length
would pass against a baseline of none (bench_granular.py:829); `FuzzTrue` needs
`LibrariesAssumption`: the library has one of the `SingleDefects` or none, and the
machine one of the three windows.

A tool is a script, built by joining what its `main` calls, so the first part of
the module is about such sequences: which operations a script has (`IsScript`,
through `ScriptFlat` for the loops over lengths, speeds, targets and classes) and where
(`Begun`, `ColumnLast`, `TryFinally`, `AuditLast`: what it starts and what it ends
with).  The invariant `LabInv` is then indexed by the `Position` of the session in its `Full` script:

* `Desk`: what is left is the full script from `Position` on (`Left`, with the one
  exception of a skipped row), whatever jumps brought it there: a rejected speed,
  a missing symbol, an exception into a finally clause.  Everything below needs it,
  because an operation is only safe where its script has it;
* `Turboed`: a turbo sweep has not touched the speed before its try, and has reset
  it once it is past its finally.  An exception between the two lands in the
  clause, because the script has a single one and it closes the script;
* `Carrying`: between reading the sidecar and replacing it, what the sweep holds
  has every column that was reported, and its own.  While the file is torn only
  this copy has them;
* `Fitted`, `Prologue`: what the five operations before a self-test have each
  seen to: the speed, the wrapper, a calibration of 20 samples whose
  overhead and spread are those of runs within the jitter.

`AuditsHonest` has an invariant of its own beside it, `Audited`: a sound library
that has been given vectors has no failure in any category, and one that accepts
any tag has counted one by the time its audit comes to the summary, hence does
not get past it (`TotalFailIs`: the total is zero only if every category's is).

`RowsTrue` says of each number reported which routine of which build it is about,
and none of that is in the step that reports it: it was prepared by operations
before, some in a loop over lengths, targets, speeds or classes, some of them
skipped.  The proof is therefore a proof outline of each script.  `Outline` has
the facts before and behind every operation (`Needs`, `Leaves`): no sample of
another row is left (`Fresh`), the build on disk is in memory (`Booted`), the
wrapper arrived (`Installed`), was calibrated at the present speed
(`Calibrated`), the speed is 1 MHz or one that was accepted (`Slow`, `Tuned`), and
the message in memory has a given length (`LengthIs`).  `Links` composes outlines
(`LinkJoin`, `LinkFlat` for the loops), and `LinkWhole` gives each tool one that
starts from next to nothing: on the Ultimate 64 neither a speed nor an image.
A row without a setup of its own for each sample (`again`) is `Measurable` only
where the length is known or the routine has none; this is what a decrypt that
is set up once fails.  The invariant is `Rowed`:

* `Prepared`: what is left of the script has an outline, and the facts it starts
  with are so (`Known`).  Whoever reports a missing symbol or a rejected speed goes on
  at an operation with the same or fewer needs; an exception goes on at a finally
  clause, which needs nothing;
* `Operated`: the operand that a routine left behind is one it may be timed with;
* the property itself.

The measured value is that of a run plus the wrapper, less a calibration of the
wrapper alone.  `Quotients` says that at any clock the quotient of the sum exceeds that of
the wrapper by the routine's own or one more, `SampleNear` that a sample is off by no more
than the jitter (and one tick, above 1 MHz), which taking the least of several
keeps, and `RowOf` that dividing by the loop count does.

The last three theorems are about verdicts, which a session builds up from what it has
seen so far, so their invariants say what has been seen at each place of the script.
The script is a walk for this (`Walk`): `Moves` says which operation leads from which
place to which, a place being a routine and a class, a row, or a category, and each tool's
script leads from its start to `gone` (`CtWalk`, `FuzzWalk`, `GateWalk`; `WalkJoin` and
`WalkFlat` compose them as the code does).  What is left of a script is a walk from some
place, and of that place the invariant says

* `Timed`, for the constant-time check: the minima collected are those of the classes
  done, nothing is noisy since the check runs on VICE, and the verdict so far is that of
  the routines done (`Verdict`);
* `Fuzzed`, for the fuzzer: the mismatches are exactly those of the categories done;
* `Gated`, for bench-check: of the rows done, no failure means that each is `Good`, and a
  failure that one is `Bad`.  That a row is what its routine takes is `Prepared` of
  `RowsTrue`, so `Gated` rests on that invariant.

`FuzzTrue` rests besides on what the corpus shows of each defect (`CorpusIs`, `MatchesIs`,
`RejectIs`, `WrapGuardIs`, `AeadIs`): a category has no mismatch if and only if the defect is
none of those it reaches, for each window at $ff00.  A guard that is missing shows only where
the message ends on the other side of the top of memory, a strict one only at the edge, and
a tag comparison that is blind to a byte only at the bytes the corpus flips; `Beyond` is what
is left over.

TLC checks `LabInv` and `Audited` too: the `lab` instance satisfies them in each of
its 873209 states.

Only model-checked: `VerdictsExact` and `FootprintCovered` (the audits are folds over
concrete source trees, and a fold over a set of files is reasoned about by induction
with an operator as parameter), the test vectors (`KnownTag`, `KnownKeyStream`: they are
about one instance), the ChaCha20 rounds (bitwise exclusive-or is outside the provers) and
the liveness properties (`CallsReturn`), which are out of the provers' reach.

## 5. Not modelled, and the plan

Not modelled: the library's cycle counts and its constant-time behaviour (what
the check of them makes of given cycles is); assembly-time manifests, version
equates and linker layout beyond what `measure_resident_bytes.py` judges;
vendored macros; test drivers without state of their own (`test_*.py`,
`step7`/`step12` cross checks, `ct_mul_brute_check.py`, the smoke tests) and the
release script; the word32 helpers that no quarter round calls; the debug-mode
and clock settings around a trampoline measurement, and bus cycles other than
the two markers; the address arithmetic of the padded walker's computed jumps,
of which `PadBytes` has the effect; `lib-verify-shared` and `test-ct`;
two edits within one second of file time; prerequisites that the rules omit; a
rebuild in the middle of a benchmark session, after which the report's MD5 would
be another build's (bench_granular.py:687); elapsed times beyond both timers;
the residue that `hazmat_fuzz.py` reports without judging it; parsing of `od65`'s
text and layout of the reports.

The AEAD drivers came first because everything the library promises passes
through them, then the primitives behind their symbols, then the harness, the
build and the measuring tools.  The safety properties of these are proved but for the
two audits of the gates; what is left for TLC alone is listed at the end of section 4.
