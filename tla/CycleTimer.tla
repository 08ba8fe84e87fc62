----------------------------- MODULE CycleTimer -----------------------------
(***************************************************************************)
(* What the benchmarks make of the chained CIA #1 timers: a reading, the   *)
(* window a self-test must fall into, the comparison with a baseline.      *)
(***************************************************************************)
EXTENDS Integers, FiniteSetsExt

CONSTANTS
    W,              \* what one timer counts to, 2^16 in the program
    WrapperCycles,  \* what the wrapper around a routine costs
    StubCycles,     \* 501
    JitterFloor,    \* U64_JITTER_FLOOR
    FallbackLo, FallbackHi,
    Tolerance,      \* percent of drift that bench-check lets pass
    Skipped         \* the cycles of a row that was not measured

(* Timer A free-runs down from W - 1, timer B counts its underflows.        *)
TimerA(elapsed) == W - 1 - (elapsed % W)
TimerB(elapsed) == W - 1 - ((elapsed \div W) % W)

ReadTimer(a, b) == (W - 1 - a) + (W - 1 - b) * W

\* Mutant: on the Ultimate 64 the window the calibration's own spread suggests.
ToleranceWindowObserved(backend, spread, samples) ==
    IF backend = "vice" THEN StubCycles .. StubCycles
    ELSE StubCycles - spread .. StubCycles + spread

ToleranceWindow(backend, spread, samples) ==
    CASE backend = "vice" -> StubCycles .. StubCycles
      [] backend = "u64" /\ samples >= 5 ->
           LET jitter == Max({spread, JitterFloor})
           IN  StubCycles - jitter .. StubCycles + jitter
      [] OTHER -> FallbackLo .. FallbackHi

Distance(a, b) == IF a < b THEN b - a ELSE a - b

\* Mutant: only rows that both reports have a number for.
RowFailsShared(cycles, base) ==
    Skipped \notin {cycles, base} /\ Distance(cycles, base) * 100 > Tolerance * base

\* One row of bench-check that both reports list.
RowFails(cycles, base) ==
    IF Skipped \in {cycles, base} THEN cycles # base
    ELSE IF base = 0 THEN cycles # 0 /\ 100 > Tolerance
    ELSE Distance(cycles, base) * 100 > Tolerance * base
=============================================================================
