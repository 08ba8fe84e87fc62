-------------------------------- MODULE Lab --------------------------------
(***************************************************************************)
(* A developer with one build on disk, VICE, and an Ultimate 64 that       *)
(* others use as well: benchmarks, the constant-time check, the two        *)
(* differential fuzzers, one session at a time, any of which may be        *)
(* interrupted or killed.                                                  *)
(***************************************************************************)
EXTENDS BenchTools, FuzzOracle

CONSTANTS
    Commands,     \* the sessions a developer may start
    Lasting,      \* those that another session may follow
    Libraries,    \* what is wrong with the library under test, if anything
    Neighbours,   \* speeds that others leave the Ultimate 64 at
    MaxSessions

\* A session names its tool, its backend, and what its tool asks for.
Tools == {"bench", "sweep", "bench-check", "turbo", "ct", "hazmat", "audit"}
Options(tl) ==
    CASE tl = "hazmat" -> {"quick"}
      [] tl = "audit" -> {"counts"}
      [] tl = "turbo" -> {"samples", "speeds"}
      [] OTHER -> {"samples", "profile"}

\* The constant-time check runs on VICE, the turbo sweep on the Ultimate 64.
ASSUME CommandsAssumption == \A c \in Commands :
    /\ {"tool", "on", "image"} \subseteq DOMAIN c
    /\ c.tool \in Tools /\ Options(c.tool) \subseteq DOMAIN c
    /\ c.on \in Backends /\ (c.tool = "ct" => c.on = "vice")
    /\ c.tool = "turbo" => c.on = "u64" /\ c.speeds \in Seq(Nat)
    /\ c.tool = "audit" => c.counts \in [{"chacha20", "poly1305", "aead", "tamper"} -> Nat]
    /\ c.tool \notin {"hazmat", "audit"} => c.samples \in Nat \ {0}

\* The constant-time check has classes to compare.
ASSUME SizesAssumption == Sizes \in Seq(Nat) /\ Classes \in Seq(STRING) \ {<<>>}

ASSUME LibrariesAssumption ==
    \A l \in Libraries : l.defect \in SingleDefects /\ l.window \in Windows

VARIABLES
    library,      \* the defect of the library, and what its machine has at $ff00
    found,        \* mismatches of the running fuzz session
    score,        \* of the audit: passed and failed by category
    tool,         \* the last session
    budget        \* sessions left

fuzzVars == <<library, found, score>>
vars == <<machineVars, measureVars, toolVars, fuzzVars, tool, budget>>

(* ---- hazmat_fuzz.py: main ---- *)
Fuzz(category) == <<[op |-> "fuzz", category |-> category]>>
Hazmat(backend) ==
    (IF backend = "u64" THEN SetSpeed(1) \o Do("load") ELSE Do("boot"))
    \o Do("known answer") \o Fuzz("chacha20_block") \o Fuzz("chacha20_encrypt") \o Fuzz("poly1305")
    \o Fuzz("aead_verify_tag") \o Fuzz("wrap_guard") \o Fuzz("aead") \o Do("result")

Found(category, quick) ==
    CASE category = "aead_verify_tag" -> VerifyTagMismatches(library.defect)
      [] category = "wrap_guard" -> WrapGuardMismatches(library.defect, library.window)
      [] category = "aead" -> AeadMismatches(library.defect, library.window)
                              \cup CorpusMismatches(library.defect, "aead", quick)
      [] OTHER -> CorpusMismatches(library.defect, category, quick)

(* ---- audit_cross_check.py ---- *)
Vectors(category, counts) ==
    <<[op |-> "vectors", category |-> category, count |-> counts[category]]>>
Audit(backend, counts) ==
    (IF backend = "u64" THEN SetSpeed(1) \o Do("load") ELSE Do("boot"))
    \o Vectors("chacha20", counts) \o Vectors("poly1305", counts) \o Vectors("aead", counts)
    \o Vectors("tamper", counts) \o Do("summary")

AuditCategories == {"chacha20", "poly1305", "encrypt", "decrypt", "tamper"}
NoScore == [c \in AuditCategories |-> [passed |-> 0, failed |-> 0]]

\* What one random vector shows; a defect of one input shows when it is hit.
VectorFails(category, hit) ==
    LET d == library.defect
        hits(corpora) == d[1] = "wrong" /\ d[2] \in corpora /\ hit
    IN  CASE category = "chacha20" -> hits({"chacha20_block"})
          [] category = "poly1305" -> hits({"poly1305"})
          [] category \in {"encrypt", "decrypt"} -> d = <<"broken">> \/ hits(DOMAIN Edges)
          [] category = "tamper" -> d = <<"accepts any tag">> \/ (d[1] = "blind" /\ hit)

Tally(s, category, failed) ==
    IF failed THEN [s EXCEPT ![category].failed = @ + 1]
    ELSE [s EXCEPT ![category].passed = @ + 1]

\* Mutant: every check but the rejection of tampered vectors.
TotalFailAccepted == MapThenSumSet(LAMBDA c : score[c].failed, AuditCategories \ {"tamper"})

TotalFail == MapThenSumSet(LAMBDA c : score[c].failed, AuditCategories)

(* ---- sessions ---- *)
Script(c) ==
    CASE c.tool = "bench" ->
           (IF c.on = "u64" THEN BenchU64(c.samples) ELSE BenchVice(c.samples))
      [] c.tool = "sweep" -> RunSweep(c.on, c.samples, c.profile)
      [] c.tool = "bench-check" -> BenchCheck(c.on, c.profile, c.samples)
      [] c.tool = "turbo" -> TurboSweep(c.speeds, c.samples)
      [] c.tool = "ct" -> CtChecks(c.samples)
      [] c.tool = "hazmat" -> Hazmat(c.on)
      [] c.tool = "audit" -> Audit(c.on, c.counts)

Sound == [defect |-> <<"none">>, window |-> "cpu_rom"]

Init ==
    /\ prg = "none" /\ machine = [b \in Backends |-> Cold] /\ speed = 1 /\ blank = FALSE
    /\ on = "vice" /\ script = <<>> /\ outcome = "none"
    /\ calib = NoCalib
    /\ taken = 0 /\ best = 0 /\ worst = 0 /\ row = NoRow
    /\ baseline \in Baselines
    /\ fails = {} /\ sidecar = NoColumns /\ held = <<>> /\ told = <<>> /\ ct = NoClasses
    /\ library \in Libraries /\ (library # Sound => baseline = <<>>)
    /\ found = {} /\ score = NoScore
    /\ tool = [tool |-> "none", before |-> 1]
    /\ budget \in 1..MaxSessions /\ (library # Sound \/ baseline # <<>> => budget = 1)

\* A defective library is only fuzzed; what leaves nothing behind comes last.
Typable(c) ==
    /\ budget > 0
    /\ c \notin Lasting => budget = 1
    /\ c.tool \notin {"hazmat", "audit"} => library = Sound
    /\ c.tool = "bench-check" <=> baseline # <<>>

\* make profile-x, then the tool.
Invoke(c) ==
    /\ script = <<>> /\ Typable(c)
    /\ prg' = c.image /\ on' = c.on /\ tool' = With(c, "before", speed)
    /\ machine' = [machine EXCEPT !["vice"] = Cold] /\ blank' = FALSE
    /\ calib' = NoCalib
    /\ script' = Script(c) \o Do("end") /\ outcome' = "running"
    /\ budget' = budget - 1
    /\ row' = NoRow /\ taken' = 0 /\ best' = 0 /\ worst' = 0 /\ fails' = {}
    /\ ct' = NoClasses /\ found' = {} /\ score' = NoScore /\ held' = <<>>
    /\ UNCHANGED <<speed, baseline, sidecar, told, library>>

Working == UNCHANGED <<tool, budget>>

OnMachine == MachineStep /\ Working /\ UNCHANGED <<toolVars, fuzzVars>>
OnTool == ToolStep /\ Working /\ UNCHANGED fuzzVars

\* The RFC vector through the glue, before anything is fuzzed.
CheckGlue ==
    /\ Now("known answer")
    /\ IF KnownAnswer(library.defect, library.window) THEN Advance /\ UNCHANGED outcome
       ELSE Leave("glue")
    /\ Same /\ Working /\ UNCHANGED <<measureVars, toolVars, fuzzVars>>

FuzzCategory ==
    /\ Now("fuzz") /\ Advance
    /\ found' = found \cup Found(Head(script).category, tool.quick)
    /\ Same /\ Working /\ UNCHANGED <<outcome, measureVars, toolVars, library, score>>

Result ==
    /\ Now("result")
    /\ IF found = {} THEN Advance /\ UNCHANGED outcome ELSE Leave("mismatches")
    /\ Same /\ Working /\ UNCHANGED <<measureVars, toolVars, fuzzVars>>

\* A category ends after its count, or with its third failure.
EndVector(over) ==
    IF over \/ taken + 1 = Head(script).count THEN taken' = 0 /\ Advance
    ELSE taken' = taken + 1 /\ UNCHANGED script

Vector ==
    /\ Now("vectors") /\ Head(script).count > 0
    /\ LET c == Head(script).category
       IN  /\ c # "aead" /\ (c = "tamper" => tool.counts["aead"] > 0)
           /\ \E hit \in BOOLEAN : score' = Tally(score, c, VectorFails(c, hit))
           /\ EndVector(score'[c].failed >= 3)
    /\ Same /\ Working
    /\ UNCHANGED <<outcome, calib, best, worst, row, toolVars, library, found>>

\* A pair: encrypt, and unless that was the third failure, decrypt.
VectorPair ==
    /\ Now("vectors") /\ Head(script).count > 0 /\ Head(script).category = "aead"
    /\ \E hit \in BOOLEAN :
         LET encrypted == Tally(score, "encrypt", VectorFails("encrypt", hit))
         IN  IF encrypted["encrypt"].failed >= 3
             THEN score' = encrypted /\ EndVector(TRUE)
             ELSE /\ score' = Tally(encrypted, "decrypt", VectorFails("decrypt", hit))
                  /\ EndVector(score'["decrypt"].failed >= 3)
    /\ Same /\ Working
    /\ UNCHANGED <<outcome, calib, best, worst, row, toolVars, library, found>>

\* No vectors asked for; or none to tamper with, which counts as failures.
NoVectors ==
    /\ Now("vectors")
    /\ LET s == Head(script)
           none == s.category = "tamper" /\ tool.counts["aead"] = 0
       IN  /\ s.count = 0 \/ none
           /\ score' = IF none THEN [score EXCEPT !["tamper"].failed = s.count] ELSE score
    /\ Advance
    /\ Same /\ Working
    /\ UNCHANGED <<outcome, measureVars, toolVars, library, found>>

Summary ==
    /\ Now("summary")
    /\ IF TotalFail = 0 THEN Advance /\ UNCHANGED outcome ELSE Leave("audit failed")
    /\ Same /\ Working /\ UNCHANGED <<measureVars, toolVars, fuzzVars>>

OnFuzz == CheckGlue \/ FuzzCategory \/ Result \/ Vector \/ VectorPair \/ NoVectors \/ Summary

\* Ctrl-C: the finally clause still runs.  During that clause it is a kill.
Interrupt ==
    /\ script # <<>> /\ outcome = "running"
    /\ tool.tool = "turbo" => At(script, "finally") # {}
    /\ Leave("interrupted")
    /\ Same /\ Working /\ UNCHANGED <<measureVars, toolVars, fuzzVars>>

\* kill -9, or the host going down.
Kill ==
    /\ script # <<>>
    /\ script' = <<>> /\ outcome' = "killed"
    /\ Same /\ Working
    /\ UNCHANGED <<measureVars, toolVars, fuzzVars>>

\* Someone else's session on the Ultimate 64.
Neighbour ==
    /\ script = <<>> /\ outcome \in {"none", "ok"} /\ budget > 0
    /\ speed' \in Neighbours
    /\ outcome' = "none"
    /\ UNCHANGED <<prg, machine, blank, on, script, measureVars, toolVars, fuzzVars, tool, budget>>

Next ==
    \/ \E c \in Commands : Invoke(c)
    \/ OnMachine \/ OnTool \/ OnFuzz \/ Interrupt \/ Kill \/ Neighbour

Spec == Init /\ [][Next]_vars
=============================================================================
