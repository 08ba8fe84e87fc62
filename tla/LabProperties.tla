--------------------------- MODULE LabProperties ---------------------------
(***************************************************************************)
(* What the benchmark, timing and fuzz tools owe the developer who reads   *)
(* their reports, said from the builds themselves.                         *)
(***************************************************************************)
EXTENDS Lab

Ended(t) == script = <<>> /\ tool.tool = t

(* ---- the truth ---- *)
Operands == ToSet(Classes) \cup {"usual", "used"}
Images   == {c.image : c \in Commands}
Routines == {t.name : t \in ToSet(BenchTargets)} \cup ToSet(CtRoutines) \cup {"aead_decrypt"}
Lengths  == {t.n : t \in ToSet(BenchTargets)} \cup ToSet(Sizes)

\* No measured call overruns both timers, about an hour at 1 MHz.
ASSUME CyclesAssumption ==
    \A image \in Images, routine \in Routines, n \in Lengths, operand \in Operands :
        LET c == Cycles(image, routine, n, operand)
        IN  c \in Nat /\ WrapperCycles + LoopCount * c + Jitter < W * W

TrueCycles(name, n, image) ==
    {Cycles(image, name, IF name \in {"aead_encrypt", "aead_decrypt", "chacha20_encrypt"}
                         THEN n ELSE 0, o) : o \in Operands}

\* Every row that a tool reports is what that routine, of the build on disk,
\* takes for a call of that length that succeeds, at the speed reported: to
\* within the jitter of one run, whatever the samples before it left in
\* memory, in both timers, and on the Ultimate 64 whatever others left set
\* (measure, run_sweep, _run_vice, _run_u64, bench_turbo_sweep.run_sweep).
RowsExact ==
    "image" \in DOMAIN row =>
        \E c \in TrueCycles(row.name, row.n, row.image) :
            LET mhz == IF tool.tool = "turbo" THEN row.at ELSE 1
                ticks == c \div mhz
            IN  row.cycles \in ticks - Jitter .. ticks + Jitter + (IF mhz = 1 THEN 0 ELSE 1)

\* On the Ultimate 64 no jitter of calibration and self-test and no speed
\* that was left set makes a sound wrapper fail its self-test
\* (_wrapper_tolerance_window, set_speed(1)).
Unrefused == on = "u64" => outcome # "self-test failed"

Leaky(image) == \E r \in ToSet(CtRoutines) : \E c, d \in ToSet(Classes) :
                    Cycles(image, r, 0, c) # Cycles(image, r, 0, d)

\* The constant-time check gives a verdict, and the right one: rc 0 exactly
\* for a build whose routines take as long for every class (run_checks).
CtVerdictExact == Ended("ct") /\ outcome = "ct" => ct.rc = IF Leaky(prg) THEN 1 ELSE 0

(* ---- bench-check ---- *)
Measured(t) == t.name \in Emitted(prg)
               /\ ("profile_b_only" \in t.options => tool.profile = "B")
Listed(t) == <<t.name, t.n>> \in DOMAIN baseline
Base(t) == baseline[<<t.name, t.n>>]

\* By how much, at least and at most, a row of this build is off.
Drifts(t) == {Distance(c + j, Base(t)) * 100 : c \in TrueCycles(t.name, t.n, prg),
                                               j \in -Jitter..Jitter}
Agrees(t) == Listed(t) /\ (Base(t) = Skipped <=> ~Measured(t))

\* bench-check passes only a build each of whose symbols is in the baseline
\* and takes what it says, and fails only one with a symbol that does not
\* (_diff_against_baseline).
BaselineGate ==
    Ended("bench-check") =>
        /\ outcome = "ok" => \A t \in ToSet(BenchTargets) :
               Agrees(t) /\ (Measured(t) => Min(Drifts(t)) <= Tolerance * Base(t))
        /\ outcome = "drift" => \E t \in ToSet(BenchTargets) :
               ~Agrees(t) \/ (Measured(t) /\ Max(Drifts(t)) > Tolerance * Base(t))

\* A column of the sweep table that was reported as written is still there,
\* with the build it was measured on, after any later sweep of the other
\* profile, unless a sweep was stopped while it wrote (run_sweep).
ColumnsKept ==
    ~sidecar.torn => \A tag \in DOMAIN told :
        tag \in DOMAIN sidecar.columns /\ sidecar.columns[tag] = told[tag]

\* A turbo sweep that was not killed leaves no turbo set that it found off,
\* rejected speeds, failures and Ctrl-C included (the finally of run_sweep).
LeavesNoTurbo == Ended("turbo") /\ outcome \notin {"none", "killed"} =>
                     speed \in {1, tool.before}

(* ---- the fuzzers ---- *)
\* What hazmat_fuzz.py does not look at: tag bytes other than its three, the
\* tail of a list longer than its count, aead_decrypt where the associated
\* data ends at the top of memory.
Beyond(quick) ==
    {<<"none">>, <<"strict", "aad", "aead_decrypt">>}
    \cup {<<"blind", b>> : b \in (0..15) \ {0, 7, 15}}
    \cup UNION {{<<"wrong", cat, i>> : i \in Counts(quick)[cat] + 1 .. Edges[cat]} :
                  cat \in DOMAIN Edges}

\* PASS for exactly the libraries without a defect that the corpus reaches,
\* whatever $ff00 is to the processor and to the harness (hazmat_fuzz.main).
FuzzExact ==
    Ended("hazmat") =>
        /\ outcome = "ok" => library.defect \in Beyond(tool.quick)
        /\ outcome \in {"glue", "mismatches"} => library.defect \notin Beyond(tool.quick)

\* audit_cross_check.py fails no sound library that it has vectors for, and
\* passes none that accepts every tag.
AuditHonest ==
    Ended("audit") =>
        /\ outcome = "audit failed" => library.defect # <<"none">> \/ tool.counts["aead"] = 0
        /\ outcome = "ok" => library.defect # <<"accepts any tag">> \/ tool.counts["tamper"] = 0
=============================================================================
