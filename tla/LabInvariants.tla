--------------------------- MODULE LabInvariants ---------------------------
(***************************************************************************)
(* What LabProofs shows of the sessions at every place of their scripts:   *)
(* the invariants, and the notions about scripts that they rest on.        *)
(***************************************************************************)
EXTENDS LabProperties

(* Scripts as sequences.                                                    *)

\* A sequence of operations, each named by a member of P.
IsScript(s, P) == \E S : s \in Seq(S) /\ \A x \in S : x.op \in P

\* u is s with t behind it.
Joins(u, s, t) ==
  /\ Len(u) = Len(s) + Len(t)
  /\ \A i \in 1 .. Len(s) : u[i] = s[i]
  /\ \A i \in 1 .. Len(t) : u[Len(s) + i] = t[i]

\* t is s with one more operation.
Extends(t, s, x) ==
  /\ Len(t) = Len(s) + 1 /\ t[Len(s) + 1] = x
  /\ \A i \in 1 .. Len(s) : t[i] = s[i]

(* The operations of each tool's script.                                    *)

Rowing    == {"setup", "measure"}
Measuring == Rowing \cup {"boot", "load", "speed", "install", "calibrate", "verify"}
Comparing == Rowing \cup {"need", "skip", "compare", "gate"}
Timing    == {"boot", "blank", "install", "calibrate", "exact", "run", "measure", "ct row",
              "ct routine", "ct verdict"}
Fuzzing   == {"boot", "load", "speed", "known answer", "fuzz", "result"}
Auditing  == {"boot", "load", "speed", "vectors", "summary"}

\* A script of P that begins with p, and has but operations of Q behind it.
Begun(f, p, P, Q) ==
  /\ IsScript(f, P) /\ Len(p) \in Nat /\ Len(p) <= Len(f)
  /\ \A i \in 1 .. Len(p) : f[i] = p[i]
  /\ \A i \in Len(p) + 1 .. Len(f) : f[i].op \in Q

Ops(t) ==
  CASE t = "bench" -> Measuring \cup {"end"}
    [] t = "sweep" -> Measuring \cup {"load sidecar", "save sidecar", "saved", "end"}
    [] t = "bench-check" -> Measuring \cup Comparing \cup {"end"}
    [] t = "turbo" -> Rowing \cup {"speed", "try", "load", "install", "turbo", "calibrate",
                                   "finally", "end"}
    [] t = "ct" -> Timing \cup {"end"}
    [] t = "hazmat" -> Fuzzing \cup {"end"}
    [] t = "audit" -> Auditing \cup {"end"}

Whole(c) == Script(c) \o Do("end")

\* On the Ultimate 64 only the fifth operation is a self-test.
PrologueFirst(c) == Begun(Whole(c), U64Prologue, Ops(c.tool), Ops(c.tool) \ {"verify"})

\* A sweep ends with its column: read the file, truncate it, write it.
ColumnLast(c) ==
  LET n == Len(Whole(c))
  IN  /\ n >= 4 /\ Whole(c)[n - 3] = [op |-> "load sidecar", tag |-> c.profile]
      /\ Whole(c)[n - 2] = [op |-> "save sidecar"]
      /\ Whole(c)[n - 1] = [op |-> "saved", tag |-> c.profile]
      /\ Whole(c)[n] = [op |-> "end"]
      /\ \A i \in 1 .. n - 4 : Whole(c)[i].op \in Measuring

\* A turbo sweep: turbo only inside a try whose finally sets 1 MHz.
TryFinally(c) ==
  LET n == Len(Whole(c))
  IN  /\ n >= 7 /\ Whole(c)[1] = [op |-> "speed", mhz |-> 1] /\ Whole(c)[2].op = "try"
      /\ Whole(c)[n - 2].op = "finally" /\ Whole(c)[n - 1] = [op |-> "speed", mhz |-> 1]
      /\ Whole(c)[n].op = "end"
      /\ \A i \in 3 .. n - 3 :
           Whole(c)[i].op \in Rowing \cup {"load", "install", "turbo", "calibrate"}

(* Where a session stands.                                                  *)

Full     == Whole(tool)
Position == Len(Full) - Len(script) + 1
Rest(k)  == SubSeq(Full, k, Len(Full))

Well(c) == c.tool \in Tools /\ c.on \in Backends /\ (c.tool = "turbo" => c.speeds \in Seq(Nat))

\* What is left is the script from some operation on; at a row that the
\* profile does not have, the comparison stands for the skip.
Left ==
  /\ Position \in 1 .. Len(Full) + 1
  /\ \/ script = Rest(Position)
     \/ /\ Position <= Len(Full) /\ Full[Position].op = "skip"
        /\ script = <<[op |-> "compare"]>> \o Rest(Position + 1)

Desk ==
  /\ \/ tool.tool = "none" /\ script = <<>> /\ outcome = "none"
     \/ Well(tool) /\ on = tool.on /\ Left
  /\ outcome \in {"none", "killed"} => script = <<>>

(* The steps.                                                               *)

Marked  == {"speed", "load", "install", "calibrate", "verify", "turbo", "load sidecar",
            "save sidecar", "saved"}
Endings == {"ok", "drift", "ct", "glue", "mismatches", "audit failed"}

\* What the operations do that neither set a speed nor belong to a prologue
\* nor touch the sidecar file.
Plain ==
  /\ Head(script).op \notin Marked
  /\ UNCHANGED <<speed, sidecar, held, told>> /\ outcome' \in {outcome} \cup Endings
  /\ \/ script' = script
     \/ script' = Tail(script)
     \/ script' = Finally(script)
     \/ Head(script).op = "need" /\ script' = SubSeq(script, 4, Len(script))
     \/ Head(script).op = "skip" /\ script' = <<[op |-> "compare"]>> \o Tail(script)

Prologuing == LoadPrg \/ InstallWrapper \/ CalibrateWrapper \/ VerifyWrapper
Columning  == LoadSidecar \/ TruncateSidecar \/ SaveSidecar

\* A step of a session, by what it is to the invariants below.
Moving ==
  \/ Plain
  \/ ChangeSpeed /\ UNCHANGED toolVars
  \/ Prologuing /\ UNCHANGED toolVars
  \/ Turbo
  \/ Columning
  \/ Interrupt
  \/ Kill

\* Where a step leaves the session.
Goes ==
  LET n == Len(Full)
  IN  \/ Position' = Position
      \/ Position' = Position + 1
      \/ /\ Position' = n + 1
         /\ tool.tool = "turbo" => outcome' = "killed" \/ Position \notin 3 .. n - 2
      \/ tool.tool = "bench-check" /\ Position' \in Position .. n + 1
      \/ tool.tool = "turbo" /\ Position \in 3 .. n - 2 /\ Position' \in Position .. n - 2

(* A turbo sweep and the speed it found.                                    *)

\* Until it has set 1 MHz for the first time, and from the finally clause's
\* 1 MHz on, a turbo sweep that lives runs at 1 MHz or as it was found.
Turboed ==
  tool.tool = "turbo" =>
    /\ Position <= 2 => speed \in {1, tool.before}
    /\ outcome \notin {"none", "killed"} /\ Position >= Len(Full) => speed \in {1, tool.before}

(* The columns of a sweep's table.                                          *)

\* Between reading the file and having written it, a sweep holds its own
\* column and every other that was reported as written.
Carrying ==
  tool.tool = "sweep" /\ Position \in {Len(Full) - 2, Len(Full) - 1} =>
    /\ tool.profile \in DOMAIN held
    /\ \A tag \in DOMAIN told :
         tag = tool.profile \/ (tag \in DOMAIN held /\ held[tag] = told[tag])

(* The self-test on the Ultimate 64.                                        *)

Slots == DOMAIN Cold

\* Both machines have all that the tools keep in memory.
Fitted == DOMAIN machine = Backends /\ \A b \in Backends : DOMAIN machine[b] = Slots

Judged == tool.tool \in {"bench", "sweep", "bench-check"} /\ on = "u64"

\* What each operation of the prologue has seen to when the next one runs.
\* calib's overhead is a run's, its spread what the longest took more.
Prologue ==
  Judged =>
    /\ Position \in 2 .. 5 => speed = 1
    /\ Position \in 4 .. 5 => machine["u64"].wrapper = "good"
    /\ Position = 5 => /\ calib.samples = 20
                       /\ \E l, m \in 0 .. Jitter : /\ l <= m /\ calib.over = WrapperCycles + l
                                                    /\ calib.spread = m - l

(* The invariant of all sessions.                                           *)

LabInv ==
  Desk /\ Turboed /\ Carrying /\ ColumnsKept /\ Fitted /\ Prologue /\ Unrefused

(* The audit's counts.                                                      *)

VectorsOf(category, counts) == [op |-> "vectors", category |-> category, count |-> counts[category]]

\* An audit ends with its four categories, the tampered vectors last, and
\* the summary.
AuditLast(c) ==
  LET f == Whole(c)  n == Len(f)
  IN  /\ n \in Nat /\ n >= 7
      /\ f[n - 5] = VectorsOf("chacha20", c.counts) /\ f[n - 4] = VectorsOf("poly1305", c.counts)
      /\ f[n - 3] = VectorsOf("aead", c.counts) /\ f[n - 2] = VectorsOf("tamper", c.counts)
      /\ f[n - 1].op = "summary" /\ f[n].op = "end"
      /\ \A i \in 1 .. n - 6 : f[i].op \in {"boot", "load", "speed"}

Starting == (Boot \/ LoadPrg \/ ChangeSpeed) /\ UNCHANGED fuzzVars

Scores == [AuditCategories -> [passed : Nat, failed : Nat]]

Asked     == tool.counts \in [{"chacha20", "poly1305", "aead", "tamper"} -> Nat]
Blameless == library.defect = <<"none">> /\ tool.counts["aead"] # 0
Lenient   == library.defect = <<"accepts any tag">> /\ tool.counts["tamper"] # 0

\* An audit of a sound library counts no failure; one of a library that
\* accepts any tag has counted one before its summary, and so does not get
\* past it.
Audited ==
  tool.tool = "audit" =>
    /\ score \in Scores /\ Asked
    /\ Blameless => outcome # "audit failed" /\ \A c \in AuditCategories : score[c].failed = 0
    /\ Lenient /\ outcome \in {"running", "ok"} =>
         Position < Len(Full) /\ (Position = Len(Full) - 1 => score["tamper"].failed > 0)

(* Proof outlines of the scripts.                                           *)

\* What a script has seen to, as facts: no sample is left over from another
\* row; the image, the wrapper and a calibration at this speed are there;
\* the speed; the machine; the length that a message has in memory.
Fresh       == <<"fresh", 0>>
Booted      == <<"booted", 0>>
Installed   == <<"installed", 0>>
Calibrated  == <<"calibrated", 0>>
Slow        == <<"slow", 0>>
Tuned       == <<"tuned", 0>>
OnVice      == <<"on vice", 0>>
LengthIs(n) == <<"length", n>>

Steady   == {Fresh, Booted, Installed, Calibrated, Slow, Tuned, OnVice}
Steering == {Fresh, Booted, Installed}
Resident == {Fresh, Booted, Installed, Calibrated, Slow}
Lengthy  == {"aead_encrypt", "aead_decrypt", "chacha20_encrypt"}

\* A row whose samples are runs of its routine on its length: where the
\* setup is not made again, its last one must have been for this length.
Measurable(x, p) ==
  /\ x.routine \in Routines /\ x.n \in Lengths /\ x.operand \in Operands
  /\ x.samples \in Nat \ {0} /\ x.again \in BOOLEAN
  /\ x.loops = 1 \/ (x.loops = LoopCount /\ Slow \in p)
  /\ \/ x.again
     \/ x.routine \notin Lengthy
     \/ x.routine = "aead_encrypt" /\ LengthIs(x.n) \in p

\* What an operation needs of the facts p, and what it leaves of them.
Needs(tl, x, p) ==
  CASE x.op = "boot" -> OnVice \in p
    [] x.op = "speed" -> x.mhz = 1
    [] x.op = "calibrate" -> Installed \in p /\ (Slow \in p \/ Tuned \in p)
    [] x.op = "measure" -> /\ {Fresh, Booted, Installed, Calibrated} \subseteq p
                           /\ (tl # "turbo" => Slow \in p) /\ Measurable(x, p)
    [] x.op = "turbo" -> p = Steering
    [] x.op = "finally" -> p = {}
    [] OTHER -> TRUE

Leaves(x, p) ==
  CASE x.op = "boot" -> (p \cap {Fresh, Slow, OnVice}) \cup {Booted}
    [] x.op = "load" -> p \cup {Booted}
    [] x.op = "speed" -> (p \ {Calibrated}) \cup {Slow}
    [] x.op = "install" -> p \cup {Installed}
    [] x.op = "calibrate" -> p \cup {Calibrated}
    [] x.op = "setup" -> (p \cap Steady)
                         \cup (IF x.routine = "aead_encrypt" THEN {LengthIs(x.n)} ELSE {})
    [] x.op = "run" -> p \cap Steady
    [] x.op = "measure" -> IF x.again THEN p \cap Steady ELSE p
    [] x.op = "turbo" -> p \cup {Tuned}
    [] OTHER -> p

Follows(tl, x, p, q) == Needs(tl, x, p) /\ q \subseteq Leaves(x, p)

\* h has the facts before and behind each operation of s; a row that is left
\* out does not take with it what comes behind it.
Outline(tl, s, h) ==
  \A i \in 1 .. Len(s) :
    /\ Follows(tl, s[i], h[i - 1], h[i])
    /\ s[i].op = "need" => i + 3 <= Len(s) /\ h[i + 2] \subseteq h[i - 1]

Named == Measuring \cup Comparing \cup Timing
         \cup {"load sidecar", "save sidecar", "saved", "try", "turbo", "finally", "end"}

\* A script that leads from the facts A to the facts B.
Links(tl, s, A, B) ==
  /\ IsScript(s, Named)
  /\ \E h : h[0] \subseteq A /\ B \subseteq h[Len(s)] /\ Outline(tl, s, h)

(* The outline of each tool's script.                                       *)

Idle == {"verify", "exact", "blank", "try", "skip", "compare", "gate", "load sidecar",
         "save sidecar", "saved", "ct row", "ct routine", "ct verdict", "end"}

\* What holds of the machine a session starts on.
Start(c) == IF c.on = "u64" THEN {Fresh} ELSE {Fresh, Slow, OnVice}

Reporting == {"bench", "sweep", "bench-check", "turbo", "ct"}

(* What the timers say of a run.                                            *)

\* To within the jitter of a run and of the calibration.
Near(cycles, b) ==
  b \in cycles \div Clock - Jitter
        .. cycles \div Clock + Jitter + (IF Clock = 1 THEN 0 ELSE 1)

(* What a sample measures.                                                  *)

\* Memory in which r is ready to run on its n blocks, to its end.
Ready(r, n, m) ==
  /\ m.image = prg /\ m.operand \in Operands
  /\ r = "aead_encrypt" => m.len = n
  /\ r = "aead_decrypt" => m.len = n /\ Opens(m)
  /\ r = "chacha20_encrypt" => m.remain = n

(* What the facts say of the state.                                         *)

\* A sample of row x, or the least of some.
Fits(x, b) ==
  b \in Int /\ \E c \in TrueCycles(x.routine, x.n, prg) : Near(x.loops * c, b)

\* What the facts p say of the state.
Known(p) ==
  /\ Fresh \in p => taken = 0 \/ (Now("measure") /\ Fits(Head(script), best))
  /\ Booted \in p => Memory.image = prg
  /\ Installed \in p => Memory.wrapper = "good"
  /\ Calibrated \in p => /\ Clock \in Nat \ {0}
                         /\ \E l \in 0 .. Jitter : calib.over = WrapperCycles \div Clock + l
  /\ Slow \in p => Clock = 1
  /\ Tuned \in p => Clock \in Nat \ {0}
  /\ OnVice \in p => on = "vice"
  /\ \A n : LengthIs(n) \in p => Memory.len = n

\* A tool that reports rows stands in an outline of its script, and what the
\* outline has there is so.
Prepared ==
  tool.tool \in Reporting =>
    /\ prg \in Images
    /\ \E h : Outline(tool.tool, script, h) /\ Known(h[0])

Operated == \A b \in Backends : machine[b].operand \in Operands

(* The steps of a session, by what they report.                             *)

\* The invariant of every tool that reports rows.
Rowed == Prepared /\ Operated /\ RowsExact

(* Scripts as walks.                                                        *)

\* Where a session stands: a phase of it, and what of a list is done.
Spot(phase) == <<phase, 0, 0>>

\* The constant-time check, from the first class on: the routine, and the
\* classes of it that are done or just timed.
CtMoves(samples, p, x, q) ==
  \/ p = Spot("boot") /\ x.op = "boot" /\ q = Spot("blank")
  \/ p = Spot("blank") /\ x.op = "blank" /\ q = Spot("install")
  \/ p = Spot("install") /\ x.op = "install" /\ q = Spot("calibrate")
  \/ p = Spot("calibrate") /\ x.op = "calibrate" /\ q = Spot("exact")
  \/ p = Spot("exact") /\ x.op = "exact" /\ q = Spot("run")
  \/ p = Spot("run") /\ x.op = "run" /\ q = <<"class", 1, 0>>
  \/ \E r \in 1 .. Len(CtRoutines), k \in 1 .. Len(Classes) :
       /\ p = <<"class", r, k - 1>> /\ q = <<"row", r, k>>
       /\ x = Measure(CtRoutines[r], 0, samples, TRUE, 1, Classes[k])[1]
  \/ \E r \in 1 .. Len(CtRoutines), k \in 1 .. Len(Classes) :
       p = <<"row", r, k>> /\ x.op = "ct row" /\ q = <<"class", r, k>>
  \/ \E r \in 1 .. Len(CtRoutines) :
       p = <<"class", r, Len(Classes)>> /\ x.op = "ct routine" /\ q = <<"class", r + 1, 0>>
  \/ p = <<"class", Len(CtRoutines) + 1, 0>> /\ x.op = "ct verdict" /\ q = Spot("over")
  \/ p = Spot("over") /\ x.op = "end" /\ q = Spot("gone")

\* The hazmat fuzzer: the categories that are done.
FuzzCategories == <<"chacha20_block", "chacha20_encrypt", "poly1305", "aead_verify_tag",
                    "wrap_guard", "aead">>

FuzzMoves(p, x, q) ==
  \/ p = Spot("start") /\ x.op \in {"boot", "load", "speed"} /\ q = p
  \/ p = Spot("start") /\ x.op = "known answer" /\ q = <<"fuzz", 1, 0>>
  \/ \E i \in 1 .. 6 : /\ p = <<"fuzz", i, 0>> /\ q = <<"fuzz", i + 1, 0>>
                       /\ x.op = "fuzz" /\ x.category = FuzzCategories[i]
  \/ p = <<"fuzz", 7, 0>> /\ x.op = "result" /\ q = Spot("over")
  \/ p = Spot("over") /\ x.op = "end" /\ q = Spot("gone")

\* The comparison with a baseline: the row in hand, and what of it is done.
Unfit(i, profile) == "profile_b_only" \in BenchTargets[i].options /\ profile # "B"
OfTarget(x, i) == x.routine = BenchTargets[i].name /\ x.n = BenchTargets[i].n

GateMoves(profile, p, x, q) ==
  \/ /\ p = <<"row", 1, 0>> /\ q = p
     /\ x.op \in {"boot", "load", "speed", "install", "calibrate", "verify"}
  \/ \E i \in 1 .. 14 :
       \/ /\ p = <<"row", i, 0>> /\ x.op = "need" /\ q = <<"setup", i, 0>>
          /\ OfTarget(x, i) /\ ~Unfit(i, profile)
       \/ p = <<"setup", i, 0>> /\ x.op = "setup" /\ q = <<"measure", i, 0>>
       \/ p = <<"measure", i, 0>> /\ x.op = "measure" /\ OfTarget(x, i) /\ q = <<"compare", i, 0>>
       \/ p = <<"compare", i, 0>> /\ x.op = "compare" /\ q = <<"row", i + 1, 0>>
       \/ /\ p = <<"row", i, 0>> /\ x.op = "skip" /\ q = <<"row", i + 1, 0>>
          /\ OfTarget(x, i) /\ Unfit(i, profile)
  \/ p = <<"row", 15, 0>> /\ x.op = "gate" /\ q = Spot("over")
  \/ p = Spot("over") /\ x.op = "end" /\ q = Spot("gone")

Moves(c, p, x, q) ==
  CASE c.tool = "ct" -> CtMoves(c.samples, p, x, q)
    [] c.tool = "hazmat" -> FuzzMoves(p, x, q)
    [] c.tool = "bench-check" -> GateMoves(c.profile, p, x, q)
    [] OTHER -> FALSE

\* s leads from p to q.
Walk(c, s, p, q) ==
  /\ \E P : IsScript(s, P)
  /\ \E h : /\ h[0] = p /\ h[Len(s)] = q
            /\ \A i \in 1 .. Len(s) : Moves(c, h[i - 1], s[i], h[i])

\* Joining many is joining one after the other.
Joined(n, g, f) ==
  /\ FlattenSeq(g) = f[n]
  /\ \A i \in 1 .. n : f[i] = IF i = 1 THEN g[i] ELSE f[i - 1] \o g[i]

(* The constant-time check.                                                 *)

\* What the classes of a routine take, whether they differ, and the verdict
\* before the r-th routine.
CtTime(r, k) == Cycles(prg, CtRoutines[r], 0, Classes[k])
Differ(r) == \E c, d \in ToSet(Classes) :
               Cycles(prg, CtRoutines[r], 0, c) # Cycles(prg, CtRoutines[r], 0, d)
Verdict(r) == IF \E i \in 1 .. r - 1 : Differ(i) THEN 1 ELSE 0

CtKnown(p) ==
  /\ p[1] \notin {"boot", "blank"} => blank
  /\ p[1] \notin {"boot", "blank", "install", "calibrate"} =>
       calib.over = WrapperCycles /\ calib.spread = 0
  /\ p[1] \in {"boot", "blank", "install", "calibrate", "exact", "run"} => ct = NoClasses
  /\ p[1] \in {"class", "row"} =>
       ct = [mins |-> {CtTime(p[2], i) : i \in 1 .. IF p[1] = "row" THEN p[3] - 1 ELSE p[3]},
             noisy |-> FALSE, rc |-> Verdict(p[2])]
  /\ p[1] = "row" => row.cycles = CtTime(p[2], p[3]) /\ row.spread = 0
  /\ taken # 0 => /\ p[1] = "class" /\ Now("measure")
                 /\ best = CtTime(p[2], p[3] + 1) /\ worst = best

Timed ==
  tool.tool = "ct" =>
    /\ on = "vice"
    /\ script # <<>> => /\ outcome = "running"
                        /\ \E p : Walk(tool, script, p, Spot("gone")) /\ CtKnown(p)
    /\ script = <<>> /\ outcome = "ct" => ct.rc = Verdict(Len(CtRoutines) + 1)

\* The moves that one operation makes: before the first class, and after.
CtOpened(p, op, q) ==
  /\ op = "boot" => p = Spot("boot") /\ q = Spot("blank")
  /\ op = "blank" => p = Spot("blank") /\ q = Spot("install")
  /\ op = "install" => p = Spot("install") /\ q = Spot("calibrate")
  /\ op = "calibrate" => p = Spot("calibrate") /\ q = Spot("exact")
  /\ op = "exact" => p = Spot("exact") /\ q = Spot("run")
  /\ op = "run" => p = Spot("run") /\ q = <<"class", 1, 0>>
  /\ op = "ct verdict" => p = <<"class", Len(CtRoutines) + 1, 0>> /\ q = Spot("over")
  /\ op = "end" => p = Spot("over") /\ q = Spot("gone")

CtClassed(samples, p, x, q) ==
  /\ x.op = "measure" => \E r \in 1 .. Len(CtRoutines), k \in 1 .. Len(Classes) :
       /\ p = <<"class", r, k - 1>> /\ q = <<"row", r, k>>
       /\ x = Measure(CtRoutines[r], 0, samples, TRUE, 1, Classes[k])[1]
  /\ x.op = "ct row" => \E r \in 1 .. Len(CtRoutines), k \in 1 .. Len(Classes) :
       p = <<"row", r, k>> /\ q = <<"class", r, k>>
  /\ x.op = "ct routine" => \E r \in 1 .. Len(CtRoutines) :
       p = <<"class", r, Len(Classes)>> /\ q = <<"class", r + 1, 0>>

\* Where a class is measured.
CtSampling(p, q, x, r, k) ==
  /\ p = <<"class", r, k - 1>> /\ q = <<"row", r, k>>
  /\ x.op = "measure" /\ x.routine = CtRoutines[r] /\ x.n = 0 /\ x.again /\ x.loops = 1
  /\ x.operand = Classes[k]

(* The hazmat fuzzer.                                                       *)

\* The moves that one operation makes.
FuzzMoving(p, x, q) ==
  /\ x.op \in {"boot", "load", "speed"} => p = Spot("start") /\ q = p
  /\ x.op = "known answer" => p = Spot("start") /\ q = <<"fuzz", 1, 0>>
  /\ x.op = "fuzz" => \E i \in 1 .. 6 : /\ p = <<"fuzz", i, 0>> /\ q = <<"fuzz", i + 1, 0>>
                                        /\ x.category = FuzzCategories[i]
  /\ x.op = "result" => p = <<"fuzz", 7, 0>> /\ q = Spot("over")
  /\ x.op = "end" => p = Spot("over") /\ q = Spot("gone")

Seen(i) == Found(FuzzCategories[i], tool.quick)
Passes == KnownAnswer(library.defect, library.window) /\ \A i \in 1 .. 6 : Seen(i) = {}

FuzzKnown(p) ==
  /\ p[1] = "start" => found = {}
  /\ p[1] = "fuzz" => /\ KnownAnswer(library.defect, library.window)
                      /\ found = UNION {Seen(i) : i \in 1 .. p[2] - 1}
  /\ p[1] = "over" => Passes

Fuzzed ==
  tool.tool = "hazmat" =>
    /\ script # <<>> => /\ outcome = "running"
                        /\ \E p : Walk(tool, script, p, Spot("gone")) /\ FuzzKnown(p)
    /\ script = <<>> => /\ outcome = "ok" => Passes
                        /\ outcome \in {"glue", "mismatches"} => ~Passes

\* Nobody touches the library, nor the baseline file.
Stocked == library \in Libraries /\ baseline \in Baselines

(* What the fuzzer's checks say of a library, by its defect.                *)

\* Defects and tags, by their kind.
One(k) == <<k>>
Blind(b) == <<"blind", b>>
Guard(k, which, entry) == <<k, which, entry>>
WrongAt(cat, i) == <<"wrong", cat, i>>
Flipped(x, b) == <<"flipped", x, b>>

\* The kinds of defect.
IsOne(d) == d \in {One("none"), One("broken"), One("accepts any tag"), One("never publishes"),
                   One("decrypts first")}
IsBlind(d) == \E b \in 0 .. 15 : d = Blind(b)
IsGuard(d) == \E k \in {"unguarded", "strict"}, which \in {"data", "aad"},
                entry \in {"aead_encrypt", "aead_decrypt"} : d = Guard(k, which, entry)
IsWrong(d) == \E cat \in DOMAIN Edges : \E i \in 1 .. Edges[cat] : d = WrongAt(cat, i)

\* Within memory no guard stops a call.
Sealed(d, key, aad, pt, e) ==
  LET ram == Xor(pt, LibraryStream(d, key))
  IN  /\ e.data = ram /\ e.ptag = TagOf(key, aad, ram) /\ e.status = 0
      /\ e.atag = IF d = <<"never publishes">> THEN Poison.atag ELSE TagOf(key, aad, ram)

Unsealed(d, key, aad, coded, tag, t) ==
  LET opens == Matches(d, TagOf(key, aad, coded), tag)
  IN  /\ t.status = IF opens THEN 0 ELSE 255
      /\ t.data = IF opens \/ d = <<"decrypts first">> THEN Xor(coded, LibraryStream(d, key)) ELSE coded

\* The defects that a tag check at bytes 0, 7 and 15 shows.
BadMatch == {One("accepts any tag"), Blind(0), Blind(7), Blind(15)}
Variant(k, a, c, t) == [key |-> k, aad |-> a, ct |-> c, tag |-> t]
Caught(d, w, u) ==
  LET t == GlueDecrypt(d, w, u.key, u.aad, u.ct, u.tag) IN t.status # 0 /\ t.data = u.ct

(* The wrap guards.                                                         *)

\* What stops a call.
Stops(d, entry, which, place) ==
  \/ Past(place) /\ d # Guard("unguarded", which, entry)
  \/ place = "edge" /\ d = Guard("strict", which, entry)

Slot == {"data", "atag", "ptag", "scratch", "status"}

Encrypted(d, w, c, m, e) ==
  LET high == AtTop(c.place.data)
      ram == Xor(CpuRead(w, high, m.data), LibraryStream(d, c.key))
  IN  /\ e.data = ram /\ e.status = 0 /\ DOMAIN e = Slot
      /\ d # <<"never publishes">> =>
           e.atag = TagOf(c.key, AadRead(w, c), CpuRead(w, high, ram))

Decrypted(d, w, c, m, t) ==
  LET high == AtTop(c.place.data)
      tag == TagOf(c.key, AadRead(w, c), CpuRead(w, high, m.data))
  IN  /\ t.status \in {0, 255}
      /\ ~Past(c.place.data) /\ ~Past(c.place.aad) /\ m.atag = tag => t.status = 0

\* The encryption of the accepting checks, and what the harness expects.
Fair(d, w, place, probe) ==
  /\ d \notin {One("broken"), One("never publishes")}
  /\ w \in Windows
  /\ \/ place = "in" /\ probe = [mode |-> "cpu_ram", view |-> {}]
     \/ place = "edge" /\ probe = Probe(w)

\* The guard that stops a call across the top of memory.
GuardOf(place, entry) ==
  Guard("unguarded", IF Past(place.data) THEN "data" ELSE "aad", entry)

\* The defects that the wrap guard checks show.
Misguarded ==
  {Guard("unguarded", "data", "aead_encrypt"), Guard("unguarded", "data", "aead_decrypt"),
   Guard("unguarded", "aad", "aead_encrypt"), Guard("unguarded", "aad", "aead_decrypt"),
   Guard("strict", "data", "aead_encrypt"), Guard("strict", "data", "aead_decrypt"),
   Guard("strict", "aad", "aead_encrypt")}

\* The defects that the corpus reaches, of every kind.
Reached(d, quick) ==
  \/ d \in {One("broken"), One("never publishes"), One("decrypts first")}
  \/ d \in BadMatch
  \/ d \in Misguarded
  \/ \E cat \in DOMAIN Edges : \E i \in 1 .. Counts(quick)[cat] : d = WrongAt(cat, i)

(* The comparison with a baseline.                                          *)

\* What the comparison of a row is to find, by the truth of the build.
Good(t) == Agrees(t) /\ (Measured(t) => Min(Drifts(t)) <= Tolerance * Base(t))
Bad(t) == ~Agrees(t) \/ (Measured(t) /\ Max(Drifts(t)) > Tolerance * Base(t))

\* The row in hand is the target's: measured on this build, or not at all.
Rowful(t) ==
  /\ row.name = t.name /\ row.n = t.n
  /\ IF Measured(t) THEN "image" \in DOMAIN row /\ row.image = prg ELSE row.cycles = Skipped

RowBad == \/ <<row.name, row.n>> \notin DOMAIN baseline
          \/ RowFails(row.cycles, baseline[<<row.name, row.n>>])

GateOps == {"boot", "load", "speed", "install", "calibrate", "verify", "need", "setup", "measure",
            "compare", "skip", "gate", "end"}

GateMoving(profile, p, x, q) ==
  /\ x.op \in {"boot", "load", "speed", "install", "calibrate", "verify"} =>
       p = <<"row", 1, 0>> /\ q = p
  /\ x.op = "need" => \E i \in 1 .. 14 : /\ p = <<"row", i, 0>> /\ q = <<"setup", i, 0>>
                                         /\ OfTarget(x, i) /\ ~Unfit(i, profile)
  /\ x.op = "skip" => \E i \in 1 .. 14 : /\ p = <<"row", i, 0>> /\ q = <<"row", i + 1, 0>>
                                         /\ OfTarget(x, i) /\ Unfit(i, profile)
  /\ x.op = "setup" => \E i \in 1 .. 14 : p = <<"setup", i, 0>> /\ q = <<"measure", i, 0>>
  /\ x.op = "measure" => \E i \in 1 .. 14 : /\ p = <<"measure", i, 0>> /\ q = <<"compare", i, 0>>
                                            /\ OfTarget(x, i)
  /\ x.op = "compare" => \E i \in 1 .. 14 : p = <<"compare", i, 0>> /\ q = <<"row", i + 1, 0>>
  /\ x.op = "gate" => p = <<"row", 15, 0>> /\ q = Spot("over")
  /\ x.op = "end" => p = Spot("over") /\ q = Spot("gone")

\* What the comparison has found of the rows before the i-th.
Compared(i) == /\ fails = {} => \A j \in 1 .. i - 1 : Good(BenchTargets[j])
               /\ fails # {} => \E j \in 1 .. 14 : Bad(BenchTargets[j])

GateKnown(p) ==
  /\ p[1] \in {"row", "setup", "measure", "compare"} => Compared(p[2])
  /\ p[1] \in {"setup", "measure"} => Measured(BenchTargets[p[2]])
  /\ p[1] = "compare" => Rowful(BenchTargets[p[2]])
  /\ p[1] = "over" => \A j \in 1 .. 14 : Good(BenchTargets[j])

Gated ==
  tool.tool = "bench-check" =>
    /\ script # <<>> => /\ outcome = "running"
                        /\ \E p : Walk(tool, script, p, Spot("gone")) /\ GateKnown(p)
    /\ script = <<>> => /\ outcome = "ok" => \A j \in 1 .. 14 : Good(BenchTargets[j])
                        /\ outcome = "drift" => \E j \in 1 .. 14 : Bad(BenchTargets[j])
=============================================================================
