----------------------------- MODULE BenchTools -----------------------------
(***************************************************************************)
(* The benchmark tools as scripts over one machine, and what they make of  *)
(* the rows: a two-column sweep file, a comparison with a baseline, the    *)
(* verdict of the constant-time check.                                     *)
(***************************************************************************)
EXTENDS LabMachine

CONSTANTS
    Baselines,  \* what docs/BENCH_REPORT.baseline.json may hold
    Sizes,      \* message lengths, in order
    Classes     \* operand classes of the constant-time check

\* A row of a baseline has its cycles, or was not measured.
ASSUME BaselinesAssumption ==
    \A b \in Baselines : \A key \in DOMAIN b : b[key] \in Nat \cup {Skipped}

VARIABLES
    baseline,   \* cycles by row
    fails,      \* rows that bench-check refuses
    sidecar,    \* the JSON file beside the sweep's table
    held,       \* what a sweep is about to write there
    told,       \* the image of each column a sweep reported as written, since
                \* the file last had to be started anew
    ct          \* what ct_timing_check has of the routine in hand, and its rc

toolVars == <<baseline, fails, sidecar, held, told, ct>>

Torn == [torn |-> TRUE, columns |-> <<>>]
NoColumns == [torn |-> FALSE, columns |-> <<>>]
NoClasses == [mins |-> {}, noisy |-> FALSE, rc |-> 0]

\* f, with x mapped to v.
With(f, x, v) == [y \in DOMAIN f \cup {x} |-> IF y = x THEN v ELSE f[y]]

Column(tag) == <<[op |-> "load sidecar", tag |-> tag], [op |-> "save sidecar"],
                 [op |-> "saved", tag |-> tag]>>

(* ---- benchmark_chacha20_poly1305.py ---- *)
Cat(Script(_), seq) == FlattenSeq([i \in DOMAIN seq |-> Script(seq[i])])

\* measure() once per length, the lengths in order.
Rows(routine, samples, again) ==
    LET Row(n) == Setup(routine, n) \o Measure(routine, n, samples, again, 1, "usual")
    IN  Cat(Row, Sizes)

BlockRows(samples) ==
    Setup("chacha20_block", 0) \o Measure("chacha20_block", 0, samples, FALSE, 1, "usual")
    \o Setup("poly1305_block", 0) \o Measure("poly1305_block", 0, samples, FALSE, 1, "usual")

VicePrologue == Do("boot") \o Do("install") \o Calibrate(10) \o Do("verify")

U64Prologue == SetSpeed(1) \o Do("load") \o Do("install") \o Calibrate(20) \o Do("verify")

BenchVice(samples) ==
    VicePrologue \o BlockRows(samples) \o Rows("aead_encrypt", samples, FALSE)
    \o Rows("aead_decrypt", samples, TRUE)

\* Mutant: one setup for all samples of a decrypt row.
BenchU64SetupOnce(samples) ==
    U64Prologue \o BlockRows(samples) \o Rows("aead_encrypt", samples, FALSE)
    \o Rows("aead_decrypt", samples, FALSE)

BenchU64(samples) ==
    U64Prologue \o BlockRows(samples) \o Rows("aead_encrypt", samples, FALSE)
    \o Rows("aead_decrypt", samples, TRUE)

SweepVice(samples) == VicePrologue \o Rows("aead_encrypt", samples, FALSE)
SweepU64(samples) == U64Prologue \o Rows("aead_encrypt", samples, FALSE)

RunSweep(backend, samples, tag) ==
    (IF backend = "u64" THEN SweepU64(samples) ELSE SweepVice(samples)) \o Column(tag)

(* ---- bench_granular.py ---- *)
Target(name, n, again, options) ==
    [name |-> name, n |-> n, again |-> again, options |-> options]

\* Lengths count 64-byte blocks.
BenchTargets == <<
    Target("chacha20_quarter_round", 0, FALSE, {"small_routine"}),
    Target("chacha20_block", 0, FALSE, {}),
    Target("chacha20_encrypt", 1, TRUE, {}),
    Target("chacha20_encrypt", 2, TRUE, {}),
    Target("poly1305_multiply", 0, FALSE, {}),
    Target("poly1305_reduce", 0, TRUE, {"small_routine"}),
    Target("poly1305_block", 0, FALSE, {}),
    Target("aead_compute_tag", 2, TRUE, {}),
    Target("aead_verify_tag", 0, FALSE, {"small_routine"}),
    Target("sqtab_init", 0, FALSE, {"single_shot"}),
    Target("ct_mul_8x8", 0, FALSE, {"profile_b_only", "loop_count"}),
    Target("aead_encrypt", 0, FALSE, {}),
    Target("aead_encrypt", 1, FALSE, {}),
    Target("aead_encrypt", 2, FALSE, {})>>

LoopCount == 2
SmallFactor == 2    \* ten times in the program

\* A row that the profile does not have is skipped before its setup; one
\* whose setup misses a label, during it.
GranularRow(t, profile, samples) ==
    LET count == (IF "single_shot" \in t.options THEN 1 ELSE samples)
                 * (IF "small_routine" \in t.options THEN SmallFactor ELSE 1)
        loops == IF "loop_count" \in t.options THEN LoopCount ELSE 1
    IN  IF "profile_b_only" \in t.options /\ profile # "B"
        THEN <<[op |-> "skip", routine |-> t.name, n |-> t.n]>>
        ELSE <<[op |-> "need", routine |-> t.name, n |-> t.n]>> \o Setup(t.name, t.n)
             \o Measure(t.name, t.n, count, t.again, loops, "usual")
             \o <<[op |-> "compare"]>>

GranularRows(profile, samples) ==
    LET Row(t) == GranularRow(t, profile, samples) IN Cat(Row, BenchTargets)

GranularVice(profile, samples) == VicePrologue \o GranularRows(profile, samples)
GranularU64(profile, samples) == U64Prologue \o GranularRows(profile, samples)

BenchCheck(backend, profile, samples) ==
    (IF backend = "u64" THEN GranularU64(profile, samples) ELSE GranularVice(profile, samples))
    \o Do("gate")

(* ---- bench_turbo_sweep.py ---- *)
\* Mutant: the last speed of the list stays set when something goes wrong.
TurboSweepUnguarded(speeds, samples) ==
    LET Leg(mhz) == <<[op |-> "turbo", mhz |-> mhz]>> \o Calibrate(15)
          \o Setup("chacha20_block", 0) \o Setup("poly1305_block", 0) \o Setup("aead_encrypt", 2)
          \o Measure("chacha20_block", 0, 2 * samples, FALSE, 1, "usual")
          \o Measure("poly1305_block", 0, 2 * samples, FALSE, 1, "usual")
          \o Measure("aead_encrypt", 2, samples, FALSE, 1, "usual")
    IN  SetSpeed(1) \o Do("try") \o Do("load") \o Do("install") \o Cat(Leg, speeds)
        \o SetSpeed(1) \o Do("finally")

\* chacha20_block and poly1305_block get five times the samples there.
TurboSweep(speeds, samples) ==
    LET Leg(mhz) == <<[op |-> "turbo", mhz |-> mhz]>> \o Calibrate(15)
          \o Setup("chacha20_block", 0) \o Setup("poly1305_block", 0) \o Setup("aead_encrypt", 2)
          \o Measure("chacha20_block", 0, 2 * samples, FALSE, 1, "usual")
          \o Measure("poly1305_block", 0, 2 * samples, FALSE, 1, "usual")
          \o Measure("aead_encrypt", 2, samples, FALSE, 1, "usual")
    IN  SetSpeed(1) \o Do("try") \o Do("load") \o Do("install") \o Cat(Leg, speeds)
        \o Do("finally") \o SetSpeed(1)

(* ---- ct_timing_check.py ---- *)
CtRoutines == <<"poly1305_multiply", "poly1305_final", "chacha20_block", "aead_encrypt",
                "auth fail">>

CtRoutine(routine, samples) ==
    LET Class(c) == Measure(routine, 0, samples, TRUE, 1, c) \o Do("ct row")
    IN  Cat(Class, Classes) \o Do("ct routine")

\* Mutant: the display is left on.
CtChecksDisplayed(samples) ==
    LET R(routine) == CtRoutine(routine, samples)
    IN  Do("boot") \o Do("install") \o Calibrate(10) \o Do("exact")
        \o Run("poly1305_lib_init") \o Cat(R, CtRoutines) \o Do("ct verdict")

CtChecks(samples) ==
    LET R(routine) == CtRoutine(routine, samples)
    IN  Do("boot") \o Do("blank") \o Do("install") \o Calibrate(10) \o Do("exact")
        \o Run("poly1305_lib_init") \o Cat(R, CtRoutines) \o Do("ct verdict")

(* ---- the operations ---- *)
Same == UNCHANGED <<prg, machine, speed, blank, on>>

\* A symbol the image lacks is a KeyError of the setup.
NeedSymbol ==
    /\ Now("need")
    /\ IF Head(script).routine \in Emitted(prg) THEN Advance /\ UNCHANGED row
       ELSE /\ row' = [name |-> Head(script).routine, n |-> Head(script).n, cycles |-> Skipped]
            /\ script' = SubSeq(script, 4, Len(script))
    /\ Same /\ UNCHANGED <<outcome, calib, taken, best, worst, toolVars>>

SkipRow ==
    /\ Now("skip")
    /\ row' = [name |-> Head(script).routine, n |-> Head(script).n, cycles |-> Skipped]
    /\ script' = <<[op |-> "compare"]>> \o Tail(script)
    /\ Same /\ UNCHANGED <<outcome, calib, taken, best, worst, toolVars>>

\* One row of _diff_against_baseline.
CompareRow ==
    /\ Now("compare") /\ Advance
    /\ LET key == <<row.name, row.n>>
       IN  fails' = IF key \notin DOMAIN baseline \/ RowFails(row.cycles, baseline[key])
                    THEN fails \cup {key} ELSE fails
    /\ Same /\ UNCHANGED <<outcome, measureVars, baseline, sidecar, held, told, ct>>

\* The report is written whatever the comparison says; then sys.exit(1).
Gate ==
    /\ Now("gate")
    /\ IF fails = {} THEN Advance /\ UNCHANGED outcome ELSE Leave("drift")
    /\ fails' = {}
    /\ Same /\ UNCHANGED <<measureVars, baseline, sidecar, held, told, ct>>

\* A speed the firmware rejects is skipped, with its rows.
NextTurbo(s) == LET rest == Tail(s)
                IN  SubSeq(rest, Min(At(rest, "turbo") \cup At(rest, "finally")), Len(rest))

Turbo ==
    /\ Now("turbo")
    /\ IF Head(script).mhz \in Speeds
       THEN speed' = Head(script).mhz /\ Advance
       ELSE script' = NextTurbo(script) /\ UNCHANGED speed
    /\ UNCHANGED <<prg, machine, blank, on, outcome, measureVars, toolVars>>

\* Mutant: the other profile's column is forgotten.
LoadSidecarFresh ==
    /\ Now("load sidecar")
    /\ held' = With(<<>>, Head(script).tag, row.image)
    /\ told' = IF sidecar.torn THEN <<>> ELSE told
    /\ Advance
    /\ Same /\ UNCHANGED <<outcome, measureVars, baseline, fails, sidecar, ct>>

\* Reads the file, or starts from nothing when it cannot be parsed.
LoadSidecar ==
    /\ Now("load sidecar")
    /\ held' = With(sidecar.columns, Head(script).tag, row.image)
    /\ told' = IF sidecar.torn THEN <<>> ELSE told
    /\ Advance
    /\ Same /\ UNCHANGED <<outcome, measureVars, baseline, fails, sidecar, ct>>

\* open(path, "w") has truncated it.
TruncateSidecar ==
    /\ Now("save sidecar") /\ Advance
    /\ sidecar' = Torn
    /\ Same /\ UNCHANGED <<outcome, measureVars, baseline, fails, held, told, ct>>

SaveSidecar ==
    /\ Now("saved") /\ Advance
    /\ sidecar' = [torn |-> FALSE, columns |-> held]
    /\ told' = With(told, Head(script).tag, held[Head(script).tag])
    /\ held' = <<>>
    /\ Same /\ UNCHANGED <<outcome, measureVars, baseline, fails, ct>>

\* Calibration that varies with the display blanked means no verdict.
NeedExact ==
    /\ Now("exact")
    /\ IF calib.spread = 0 THEN Advance /\ UNCHANGED <<outcome, ct>>
       ELSE Leave("ct") /\ ct' = [ct EXCEPT !.rc = 2]
    /\ Same /\ UNCHANGED <<measureVars, baseline, fails, sidecar, held, told>>

CtRow ==
    /\ Now("ct row") /\ Advance
    /\ ct' = [ct EXCEPT !.mins = @ \cup {row.cycles}, !.noisy = @ \/ row.spread # 0]
    /\ Same /\ UNCHANGED <<outcome, measureVars, baseline, fails, sidecar, held, told>>

CtOfRoutine ==
    /\ Now("ct routine") /\ Advance
    /\ ct' = [NoClasses EXCEPT !.rc = CASE ct.noisy -> 2
                                        [] ~ct.noisy /\ Cardinality(ct.mins) = 1 -> ct.rc
                                        [] OTHER -> Max({ct.rc, 1})]
    /\ Same /\ UNCHANGED <<outcome, measureVars, baseline, fails, sidecar, held, told>>

CtVerdict ==
    /\ Now("ct verdict") /\ Leave("ct")
    /\ Same /\ UNCHANGED <<measureVars, toolVars>>

ToolStep ==
    \/ NeedSymbol \/ SkipRow \/ CompareRow \/ Gate \/ Turbo \/ LoadSidecar \/ TruncateSidecar
    \/ SaveSidecar \/ NeedExact \/ CtRow \/ CtOfRoutine \/ CtVerdict
=============================================================================
