----------------------------- MODULE LabMachine -----------------------------
(***************************************************************************)
(* A machine under measurement.  VICE starts afresh for every session; the *)
(* Ultimate 64 is shared, and keeps its speed and its memory from one      *)
(* session to the next.  What a tool does to the machine is a script of    *)
(* operations; this module has the operations the benchmark tools share    *)
(* (tools/benchmark_chacha20_poly1305.py).                                 *)
(***************************************************************************)
EXTENDS CycleTimer, Sequences, SequencesExt

CONSTANTS
    Cycles(_, _, _, _), \* of an image, a routine, its length, its operand
    Emitted(_),         \* the symbols an image has
    Jitter,             \* cycles that a run may take too long
    Speeds              \* what the firmware accepts, in MHz

\* No sample of the self-test overruns the timers, and the floor that the
\* program allows for is not below the jitter (U64_JITTER_FLOOR).  At a
\* tolerance of 100 percent any row would pass for one of no cycles.
ASSUME TimerAssumption ==
    /\ W \in Nat \ {0} /\ {WrapperCycles, StubCycles, Jitter, JitterFloor, Tolerance} \subseteq Nat
    /\ Skipped \notin Int /\ Tolerance < 100
    /\ Jitter <= JitterFloor /\ WrapperCycles + StubCycles + Jitter < W * W
    /\ Speeds \subseteq Nat \ {0}

VARIABLES
    prg,        \* the image on disk
    machine,    \* memory of each backend
    speed,      \* of the Ultimate 64
    blank,      \* VICE's display is off
    on,         \* backend of the running session
    script,     \* what is left of it
    outcome,    \* of the session: "running", "ok", or how it failed
    calib,      \* overhead and spread of the last calibration
    taken, best, worst,  \* samples of the row in hand
    row         \* the last row recorded

measureVars == <<calib, taken, best, worst, row>>
machineVars == <<prg, machine, speed, blank, on, script, outcome>>

Backends == {"vice", "u64"}
NoTag == <<"none", 0>>
NoRow == [name |-> "none"]
NoCalib == [over |-> 0, spread |-> 0, samples |-> 0]
Cold == [image |-> "none", wrapper |-> "none", data |-> "plain", len |-> 0, remain |-> 0,
         tag |-> NoTag, operand |-> "usual"]

Memory == machine[on]
Clock == IF on = "u64" THEN speed ELSE 1
Noise == IF on = "vice" /\ blank THEN {0} ELSE 0..Jitter

(* ---- what a call does to memory ---- *)
Flip(data) == IF data = "plain" THEN "cipher" ELSE "plain"
Opens(m) == m.tag = <<m.data, m.len>>

Execute(routine, m) ==
    CASE routine = "aead_encrypt" ->
           [m EXCEPT !.data = Flip(@), !.tag = <<Flip(m.data), m.len>>]
      [] routine = "aead_decrypt" -> IF Opens(m) THEN [m EXCEPT !.data = Flip(@)] ELSE m
      [] routine = "chacha20_encrypt" -> [m EXCEPT !.data = Flip(@), !.remain = 0]
      [] OTHER -> [m EXCEPT !.operand = "used"]

Cost(routine, m) ==
    CASE routine = "aead_decrypt" /\ ~Opens(m) -> Cycles(m.image, "auth fail", m.len, m.operand)
      [] routine \in {"aead_encrypt", "aead_decrypt"} -> Cycles(m.image, routine, m.len, m.operand)
      [] routine = "chacha20_encrypt" -> Cycles(m.image, routine, m.remain, m.operand)
      [] OTHER -> Cycles(m.image, routine, 0, m.operand)

\* The setup_* helpers: what a routine needs in memory.
Primed(routine, n, operand, m) ==
    LET loaded == [m EXCEPT !.data = "plain", !.len = n, !.operand = operand]
    IN  CASE routine = "aead_encrypt" -> loaded
          [] routine \in {"aead_compute_tag", "aead_decrypt"} -> Execute("aead_encrypt", loaded)
          [] routine = "chacha20_encrypt" ->
               [m EXCEPT !.data = "plain", !.remain = n, !.operand = operand]
          [] OTHER -> [m EXCEPT !.operand = operand]

\* Before each sample; for the tag alone only poly_h is cleared.
Reprimed(s, m) == IF s.routine = "aead_compute_tag" THEN [m EXCEPT !.operand = s.operand]
                  ELSE Primed(s.routine, s.n, s.operand, m)

(* ---- the wrapper at $c080 ---- *)
\* A wrapper that did not arrive whole leaves the timers as they were loaded.
Elapsed(cycles, noise) ==
    IF Memory.wrapper = "good" THEN (WrapperCycles + cycles) \div Clock + noise ELSE 0

Reading(cycles, noise) ==
    LET e == Elapsed(cycles, noise) IN ReadTimer(TimerA(e), TimerB(e))

InstallAccepts(wrapper) == wrapper = "good"

(* ---- operations of a script ---- *)
Do(name) == <<[op |-> name]>>
SetSpeed(mhz) == <<[op |-> "speed", mhz |-> mhz]>>
Calibrate(samples) == <<[op |-> "calibrate", samples |-> samples]>>
Setup(routine, n) == <<[op |-> "setup", routine |-> routine, n |-> n]>>
Run(routine) == <<[op |-> "run", routine |-> routine]>>
\* The samples of one row, divided by loops; again says that the setup is
\* made again before each, with the operand of this class.
Measure(routine, n, samples, again, loops, operand) ==
    <<[op |-> "measure", routine |-> routine, n |-> n, samples |-> samples, again |-> again,
       loops |-> loops, operand |-> operand]>>

Now(op) == script # <<>> /\ Head(script).op = op
Advance == script' = Tail(script)

\* An exception or sys.exit: within a try, its finally clause is left.
At(s, op) == {i \in DOMAIN s : s[i].op = op}
Finally(s) == IF At(s, "finally") = {} \/ At(s, "try") # {} THEN <<>>
              ELSE SubSeq(s, Min(At(s, "finally")), Len(s))
Leave(code) == script' = Finally(script) /\ outcome' = code

Remember(m) == machine' = [machine EXCEPT ![on] = m]

(* ---- the operations ---- *)
Boot == /\ Now("boot") /\ Advance
        /\ machine' = [machine EXCEPT !["vice"] = [Cold EXCEPT !.image = prg]]
        /\ blank' = FALSE
        /\ UNCHANGED <<prg, speed, on, outcome, measureVars>>

LoadPrg == /\ Now("load") /\ Advance
           /\ Remember([Memory EXCEPT !.image = prg])
           /\ UNCHANGED <<prg, speed, blank, on, outcome, measureVars>>

ChangeSpeed ==
    /\ Now("speed")
    /\ speed' = Head(script).mhz
    /\ Advance
    /\ UNCHANGED <<prg, machine, blank, on, outcome, measureVars>>

Blank == /\ Now("blank") /\ Advance
         /\ blank' = TRUE
         /\ UNCHANGED <<prg, machine, speed, on, outcome, measureVars>>

InstallWrapper ==
    /\ Now("install")
    /\ \E arrived \in {"good", "bad"} :
         /\ Remember([Memory EXCEPT !.wrapper = arrived])
         /\ IF InstallAccepts(arrived) THEN Advance /\ UNCHANGED outcome
            ELSE Leave("no wrapper")
    /\ UNCHANGED <<prg, speed, blank, on, measureVars>>

CalibrateWrapper ==
    /\ Now("calibrate")
    /\ \E least, most \in Noise :
         /\ least <= most
         /\ calib' = [over |-> Reading(0, least), spread |-> Reading(0, most) - Reading(0, least),
                      samples |-> Head(script).samples]
    /\ Advance
    /\ UNCHANGED <<prg, machine, speed, blank, on, outcome, taken, best, worst, row>>

VerifyWrapper ==
    /\ Now("verify")
    /\ \E j \in Noise :
         IF Reading(StubCycles, j) - calib.over \in ToleranceWindow(on, calib.spread, calib.samples)
         THEN Advance /\ UNCHANGED outcome ELSE Leave("self-test failed")
    /\ UNCHANGED <<prg, machine, speed, blank, on, measureVars>>

SetupRoutine ==
    /\ Now("setup")
    /\ Remember(Primed(Head(script).routine, Head(script).n, "usual", Memory))
    /\ Advance
    /\ UNCHANGED <<prg, speed, blank, on, outcome, measureVars>>

\* One jsr of a session, unmeasured.
RunRoutine ==
    /\ Now("run")
    /\ Remember(Execute(Head(script).routine, Memory))
    /\ Advance
    /\ UNCHANGED <<prg, speed, blank, on, outcome, measureVars>>

Sample ==
    /\ Now("measure") /\ taken < Head(script).samples
    /\ LET s == Head(script)
           m == IF s.again THEN Reprimed(s, Memory) ELSE Memory
       IN  \E j \in Noise :
             LET cycles == Reading(s.loops * Cost(s.routine, m), j) - calib.over
             IN  /\ best' = IF taken = 0 THEN cycles ELSE Min({best, cycles})
                 /\ worst' = IF taken = 0 THEN cycles ELSE Max({worst, cycles})
                 /\ Remember(Execute(s.routine, m))
    /\ taken' = taken + 1
    /\ UNCHANGED <<prg, speed, blank, on, script, outcome, calib, row>>

\* min(results), max(results) - min(results)
Record ==
    /\ Now("measure") /\ taken = Head(script).samples
    /\ row' = [name |-> Head(script).routine, n |-> Head(script).n, loops |-> Head(script).loops,
               cycles |-> best \div Head(script).loops, spread |-> worst - best,
               image |-> prg, at |-> Clock]
    /\ taken' = 0 /\ best' = 0 /\ worst' = 0
    /\ Advance
    /\ UNCHANGED <<prg, machine, speed, blank, on, outcome, calib>>

End == /\ Now("end") /\ Advance
       /\ outcome' = IF outcome = "running" THEN "ok" ELSE outcome
       /\ UNCHANGED <<prg, machine, speed, blank, on, measureVars>>

Enter == /\ Now("try") \/ Now("finally")
         /\ Advance
         /\ UNCHANGED <<prg, machine, speed, blank, on, outcome, measureVars>>

MachineStep ==
    \/ Boot \/ LoadPrg \/ ChangeSpeed \/ Blank \/ InstallWrapper \/ CalibrateWrapper
    \/ VerifyWrapper \/ SetupRoutine \/ RunRoutine \/ Sample \/ Record \/ Enter \/ End
=============================================================================
