---------------------------- MODULE VerifyGates ----------------------------
(***************************************************************************)
(* A developer at the build tree: makes, edits, interruptions, and the     *)
(* gates of `make verify` (Makefile:946), each a recipe of makes and       *)
(* audits.  Every gate builds into the one tree, so what an audit reads    *)
(* depends on every make before it.  The audits that must not touch the    *)
(* caller's objects copy the sources into a tree of their own.             *)
(***************************************************************************)
EXTENDS BuildTree, GateTools

CONSTANTS
    Sources,       \* source trees: a conforming one, and ones with a defect
    Commands,      \* what a developer types: goals and CONTRACT_DEFINES
    Makes,         \* the plain makes among them
    MaxCommands,
    Edited,        \* the members whose source is edited
    ExpectB, ExpectA   \* EXPECT_B and EXPECT_A of verify_knob_staleness.py

VARIABLES
    src,           \* the source tree
    script,        \* what is left of the command's recipes
    memo,          \* goals the running make process has already updated
    dumps,         \* what the running audit has read so far
    aside,         \* the caller's tree while an audit works on its copy
    verdict,       \* of each gate of this command
    budget         \* commands left

gateVars == <<src, script, memo, dumps, aside, verdict, budget>>
vars == <<treeVars, gateVars>>

Gates == {"zp", "knobs", "resident", "hygiene", "routing", "isolation"}
NoVerdict == [g \in Gates |-> "none"]

(* ---- the recipes ---- *)
A == {"POLY1305_PROFILE_LONG"}
Deferred == {"SHARED_SQTAB_INIT", "SHARED_CT_MUL_8X8"}
Consumer == Deferred \cup {"POLY1305_MULTIPLY_ROLLED_OUTER", "LIB_NO_BARE_EXPORTS"}
Compact == {"LIB_VARIANT_COMPACT"}

Parse(k) == <<[op |-> "parse", knobs |-> k]>>
Goal(d, k) == <<[op |-> "goal", dir |-> d, knobs |-> k]>>
Sub(d, k) == <<[op |-> "sub", dir |-> d, knobs |-> k]>>
Inspect(g, d, k) == <<[op |-> "inspect", gate |-> g, dir |-> d, knobs |-> k]>>
Dump(d) == <<[op |-> "dump", dir |-> d]>>
Do(name) == <<[op |-> name]>>
Judge(g) == <<[op |-> "judge", gate |-> g]>>
Gate(g, body) == body \o <<[op |-> "end", gate |-> g]>>

BuildAndInspect(g, d, k) == Sub(d, k) \o Inspect(g, d, k)
BuildAndDump(d, k) == Sub(d, k) \o Dump(d)

\* A make that names no CONTRACT_DEFINES gets, through MAKEFLAGS, the ones
\* its outermost make was given: k below.
ZpGate(k) == Gate("zp", Goal("lib", k) \o Inspect("zp", "lib", k))

KnobGate(k) == Gate("knobs",
    Do("copy") \o BuildAndDump("lib", k) \o BuildAndDump("lib", A)
    \o BuildAndDump("lib", A) \o BuildAndDump("lib", k) \o Judge("knobs") \o Do("discard"))

AllVariants(k) == BuildAndInspect("resident", "lib", k)
                  \o BuildAndInspect("resident", "lib-aead-only", k)
                  \o BuildAndInspect("resident", "lib-app-owned", k)
LibUnder(k) == BuildAndInspect("resident", "lib", k)

ResidentLegs(k) ==
    AllVariants({}) \o AllVariants(A) \o LibUnder(Consumer)
    \o LibUnder({"SHARED_SQTAB_INIT"}) \o LibUnder({"SHARED_CT_MUL_8X8"})
    \o LibUnder({"POLY1305_MULTIPLY_ROLLED"}) \o LibUnder({"CHACHA20_USE_WORD32"})
    \o BuildAndInspect("resident", "lib-compact", k)
    \o LibUnder(Compact) \o BuildAndInspect("resident", "lib-aead-only", Compact)

\* Mutant: leaves the last configuration it checked in build/lib.
ResidentGateNoRestore(k) == Gate("resident", ResidentLegs(k))

ResidentGate(k) == Gate("resident", ResidentLegs(k) \o Sub("lib", k))

HygieneGate(k) == Gate("hygiene",
    BuildAndInspect("hygiene", "profile-a", k) \o BuildAndInspect("hygiene", "profile-b", k)
    \o BuildAndInspect("hygiene", "lib", k) \o BuildAndInspect("hygiene", "lib-aead-only", k)
    \o BuildAndInspect("hygiene", "lib-app-owned", k)
    \o BuildAndInspect("hygiene", "lib", Consumer)
    \o BuildAndInspect("hygiene", "profile-compact", k)
    \o BuildAndInspect("hygiene", "lib-compact", k) \o Sub("lib", k))

RoutingGate(k) == Gate("routing", Inspect("routing", "lib", k))

\* measure_displaceable, then the shipped variants, under one profile.
ProfilePass(k, profile) ==
    LET plain == IF profile = {} THEN k ELSE profile
    IN  BuildAndDump("lib", plain) \o BuildAndDump("lib", profile \cup {"LIB_NO_BARE_EXPORTS"})
        \o BuildAndDump("lib", profile \cup Deferred) \o Sub("lib", k)
        \o BuildAndDump("lib", plain) \o BuildAndDump("lib-aead-only", plain)
        \o BuildAndDump("lib-app-owned", plain)
        \o (IF profile = {} THEN BuildAndDump("lib-compact", plain) ELSE <<>>)
        \o Judge("isolation")

IsolationGate(k) == Gate("isolation",
    Do("copy") \o ProfilePass(k, {}) \o ProfilePass(k, A) \o Do("discard"))

\* The serial loop of `make verify`: each gate is a make process of its own.
VerifyGoal(k) == Parse(k) \o ZpGate(k) \o Parse(k) \o KnobGate(k)
                 \o Parse(k) \o ResidentGate(k) \o Parse(k) \o HygieneGate(k)
                 \o Parse(k) \o RoutingGate(k) \o Parse(k) \o IsolationGate(k)

Recipes(goal, k) ==
    CASE goal = "verify" -> VerifyGoal(k)
      [] goal = "verify-zp-usage" -> ZpGate(k)
      [] goal = "verify-knob-staleness" -> KnobGate(k)
      [] goal = "verify-resident-bytes" -> ResidentGate(k)
      [] goal = "verify-label-hygiene" -> HygieneGate(k)
      [] goal = "lib-verify-isolation" -> IsolationGate(k)
      [] OTHER -> Goal(goal, k)

Command(c) ==
    LET Rest[i \in 0..Len(c.goals)] ==
          IF i = 0 THEN Parse(c.knobs) ELSE Rest[i - 1] \o Recipes(c.goals[i], c.knobs)
    IN  Rest[Len(c.goals)]

\* What the recipes build, and under which knobs besides the command line's.
GateGoals == {"verify", "verify-zp-usage", "verify-knob-staleness",
              "verify-resident-bytes", "verify-label-hygiene", "lib-verify-isolation"}
GateDirs == {"lib", "lib-aead-only", "lib-app-owned", "lib-compact",
             "profile-a", "profile-b", "profile-compact"}
GateKnobs == {{}, A, Deferred, A \cup Deferred, {"LIB_NO_BARE_EXPORTS"},
              A \cup {"LIB_NO_BARE_EXPORTS"}, Consumer, Compact,
              {"SHARED_SQTAB_INIT"}, {"SHARED_CT_MUL_8X8"},
              {"POLY1305_MULTIPLY_ROLLED"}, {"CHACHA20_USE_WORD32"}}

ASSUME CommandsAssumption ==
    /\ GateDirs \subseteq Dirs /\ GateKnobs \subseteq Knobs
    /\ \A c \in Commands : c.knobs \in Knobs /\ c.goals \in Seq(Dirs \cup GateGoals)

\* A tree with another guard than the Makefile's is only there for the knob
\* audit to find.
ASSUME SourcesAssumption ==
    \A s \in Sources : s.guard # "stamp" =>
        ~s.conforming /\ \A c \in s.commands : c.goals = <<"verify-knob-staleness">>

(* ---- running them ---- *)
NoTree == <<>>

Init ==
    /\ TreeInit /\ dir = "lib" /\ knobs = {}
    /\ src \in Sources
    /\ script = <<>> /\ memo = {} /\ dumps = <<>> /\ aside = NoTree
    /\ verdict = NoVerdict
    /\ budget = IF src.conforming THEN MaxCommands ELSE 1

\* A session of several commands leads up to its last with plain makes.
Typable(c) == IF src.conforming THEN budget = 1 \/ c \in Makes ELSE c \in src.commands

Invoke(c) ==
    /\ script = <<>> /\ step = "idle"
    /\ budget > 0 /\ Typable(c)
    /\ budget' = budget - 1
    /\ script' = Command(c)
    /\ verdict' = NoVerdict
    /\ UNCHANGED <<treeVars, src, memo, dumps, aside>>

Now(op) == script # <<>> /\ step = "idle" /\ Head(script).op = op
Advance == script' = Tail(script)

\* The guard of this source tree: the Makefile's stamp, or the two wrong
\* guards that the knob audit exists to tell from it.
Keep(k) == CASE src.guard = "stamp" -> SameKnobs(k)
             [] src.guard = "none" -> TRUE
             [] src.guard = "always" -> FALSE

StartMake ==
    \/ /\ Now("sub") \/ Now("parse")
       /\ LET s == Head(script)
          IN  Begin(IF s.op = "sub" THEN s.dir ELSE "lib", s.knobs, Keep(s.knobs))
       /\ UNCHANGED gateVars
    \/ /\ Now("goal") /\ Head(script).dir \notin memo
       /\ Begin(Head(script).dir, Head(script).knobs, TRUE)
       /\ UNCHANGED gateVars

SkipGoal ==
    /\ Now("goal") /\ Head(script).dir \in memo
    /\ Advance
    /\ UNCHANGED <<treeVars, src, memo, dumps, aside, verdict, budget>>

Building == step = "compile" => Head(script).op # "parse"

RunMake == Building /\ MakeStep /\ UNCHANGED gateVars

\* A process that has parsed the Makefile turns to its first recipe.
Parsed ==
    /\ script # <<>> /\ step = "compile" /\ Head(script).op = "parse"
    /\ step' = "idle"
    /\ memo' = {}
    /\ Advance
    /\ UNCHANGED <<stored, objs, products, version, dir, knobs, rebuilt, wasCurrent,
                   src, dumps, aside, verdict, budget>>

EndMake ==
    /\ step = "done" /\ Finish
    /\ memo' = IF Head(script).op = "goal" THEN memo \cup {dir} ELSE memo
    /\ Advance
    /\ UNCHANGED <<src, dumps, aside, verdict, budget>>

\* The command ends early: set -e, exit 1, sys.exit, or a signal.  A copy of
\* the tree goes with the process that made it.
GiveUp ==
    /\ script' = <<>> /\ memo' = {} /\ dumps' = <<>> /\ aside' = NoTree
    /\ IF aside = NoTree THEN UNCHANGED <<stored, objs, products>>
       ELSE stored' = aside[1] /\ objs' = aside[2] /\ products' = aside[3]
    /\ step' = "idle"
    /\ UNCHANGED <<version, dir, knobs, rebuilt, wasCurrent, src, budget>>

CurrentGate == LET ends == {i \in DOMAIN script : script[i].op = "end"}
               IN  IF ends = {} THEN "none" ELSE script[Min(ends)].gate

Fail(g) == GiveUp /\ verdict' = IF g = "none" THEN verdict
                                ELSE [verdict EXCEPT ![g] = "red"]

FailedMake == step = "failed" /\ Fail(CurrentGate)

Die == script # <<>> /\ budget > 0 /\ GiveUp /\ UNCHANGED verdict

Files(d) == [m \in {n \in Members : objs[d][n] # NoFile} |-> objs[d][m]]

Green(s) ==
    CASE s.gate = "zp" -> ZpGreen(src, Files("lib"))
      [] s.gate = "resident" -> ResidentGreen(src, Files(s.dir))
      [] s.gate = "hygiene" -> /\ CheckObject(src, Files(s.dir))
                               /\ s.dir \in Archived \/ CheckLabels(src, products[s.dir])
      [] s.gate = "routing" -> RoutingGreen(src)

InspectNow ==
    /\ Now("inspect")
    /\ \/ /\ Green(Head(script)) /\ Advance
          /\ UNCHANGED <<treeVars, src, memo, dumps, aside, verdict, budget>>
       \/ ~Green(Head(script)) /\ Fail(Head(script).gate)

DumpNow ==
    /\ Now("dump")
    /\ dumps' = Append(dumps, [rebuilt |-> rebuilt,
                  names |-> [m \in Members |->
                      Exports(src, m, objs[Head(script).dir][m].defs)]])
    /\ Advance
    /\ UNCHANGED <<treeVars, src, memo, aside, verdict, budget>>

Conforms(g) ==
    CASE g = "knobs" -> KnobsGreen(dumps, ExpectB, ExpectA)
      [] g = "isolation" -> RosterGreen(src) /\ ProfileIsolated(dumps)

JudgeNow ==
    /\ Now("judge")
    /\ \/ /\ Conforms(Head(script).gate) /\ Advance /\ dumps' = <<>>
          /\ UNCHANGED <<treeVars, src, memo, aside, verdict, budget>>
       \/ ~Conforms(Head(script).gate) /\ Fail(Head(script).gate)

CopyTree ==
    /\ Now("copy")
    /\ aside' = <<stored, objs, products>>
    /\ stored' = NoStamp /\ objs' = NoObjects /\ products' = NoProducts
    /\ Advance
    /\ UNCHANGED <<version, step, dir, knobs, rebuilt, wasCurrent,
                   src, memo, dumps, verdict, budget>>

DiscardCopy ==
    /\ Now("discard")
    /\ stored' = aside[1] /\ objs' = aside[2] /\ products' = aside[3]
    /\ aside' = NoTree
    /\ Advance
    /\ UNCHANGED <<version, step, dir, knobs, rebuilt, wasCurrent,
                   src, memo, dumps, verdict, budget>>

EndGate ==
    /\ Now("end")
    /\ verdict' = [verdict EXCEPT ![Head(script).gate] = "green"]
    /\ Advance
    /\ UNCHANGED <<treeVars, src, memo, dumps, aside, budget>>

EditSource == script = <<>> /\ budget > 0 /\ src.conforming
              /\ (\E m \in Edited : Edit(m)) /\ UNCHANGED gateVars

Next ==
    \/ \E c \in Commands : Invoke(c)
    \/ StartMake \/ SkipGoal \/ RunMake \/ Parsed \/ EndMake \/ FailedMake
    \/ InspectNow \/ DumpNow \/ JudgeNow \/ CopyTree \/ DiscardCopy \/ EndGate
    \/ Die \/ EditSource

Spec == Init /\ [][Next]_vars

(* ---- what the gates promise ---- *)
\* The stamp guard, under every recipe that builds into the tree.
TreeCurrent == src.guard = "stamp" => FinishedCurrent /\ SameKnobsIdle

\* Every audit reads objects made from the current sources under the knobs
\* its recipe asked for, although the gates before it, and the rest of its
\* own, built other configurations into the same directories.
InspectsRequested ==
    Now("inspect") /\ Head(script).gate # "routing" =>
        objs[Head(script).dir] = Fresh(Head(script).dir, Head(script).knobs)

(* ---- what is wrong with a source tree, said without the tools ---- *)
Overlap(s, t) ==
    LET w(x) == Widths[x.name]
    IN  /\ s # t /\ s.addr < t.addr + w(t) /\ t.addr < s.addr + w(s)
        /\ s.name # t.name /\ {s.name, t.name} # {"cc20_work", "cc20_keystream"}

ZpDefect ==
    \/ \E s \in src.slots : s.name \notin DOMAIN Widths
    \/ \E s, t \in Mapped(src.slots) : Overlap(s, t)
    \/ \E d \in src.declared : d.zp < Cardinality(Occupied(src.slots))

\* The configurations a consumer can link, by directory and knobs.
FootprintConfigs ==
    {<<d, k>> : d \in {"lib", "lib-aead-only", "lib-app-owned"}, k \in {{}, A}}
    \cup {<<"lib", k>> : k \in {Consumer, {"SHARED_SQTAB_INIT"}, {"SHARED_CT_MUL_8X8"},
             {"POLY1305_MULTIPLY_ROLLED"}, {"CHACHA20_USE_WORD32"}, Compact}}
    \cup {<<"lib-compact", {}>>, <<"lib-aead-only", Compact>>}

ObjectsOf(c) == [m \in Members |-> [defs |-> c[2] \cup Recipe[c[1]], ver |-> 0]]

LabelDefect ==
    \/ \E d \in {"profile-a", "profile-b", "profile-compact"} :
         \E r \in src.rows : /\ r.kind \in {"leak", "short", "charset"}
                             /\ r.needs \subseteq Recipe[d] /\ r.unless \cap Recipe[d] = {}
    \/ \E c \in {<<d, {}>> : d \in Dirs} \cup {<<"lib", Consumer>>} :
         \E r \in src.rows : /\ r.kind = "leak" /\ r.member = "aead"
                             /\ r.needs \subseteq c[2] \cup Recipe[c[1]]
                             /\ r.unless \cap (c[2] \cup Recipe[c[1]]) = {}

\* Two names of one member, one of which a suppression takes away and one of
\* which a consumer may import and is no spelling of a name taken away.
Mixed(m, d, k) ==
    LET defs == k \cup Recipe[d]
        there(e) == e.member = m /\ e.needs \subseteq defs /\ e.unless \cap defs = {}
        lost(e) == e.unless \cap Suppressions # {}
    IN  \E e, f \in src.exports :
          /\ there(e) /\ lost(e) /\ there(f) /\ ~lost(f)
          /\ ~\E g \in src.exports : /\ there(g) /\ lost(g) /\ g.name.pre = "LIB"
                                     /\ f.name = [pre |-> "LIB_CCP", rest |-> g.name.rest]

MemberDefect ==
    \/ ~(src.switches \subseteq Suppressions)
    \/ \E d \in Archived, k \in {{}, A} : \E m \in Members :
         /\ ~(d = "lib-compact" /\ k = A)
         /\ Mixed(m, d, k)

RoutingDefect == \E f \in src.python : /\ f.dir \in ScanDirs /\ f.line \in Forbidden
                                       /\ f.readable /\ ~f.worktree /\ ~f.self

Defective(g) ==
    CASE g = "zp" -> ZpDefect
      [] g = "knobs" -> src.guard # "stamp"
      [] g = "hygiene" -> LabelDefect
      [] g = "isolation" -> MemberDefect
      [] g = "routing" -> RoutingDefect

\* A gate is red exactly for the source trees it exists to stop, whatever
\* was built, edited and interrupted before it (tools/verify_*.py).
VerdictsExact ==
    \A g \in Gates \ {"resident"} :
        /\ verdict[g] = "green" => ~Defective(g)
        /\ verdict[g] = "red" => Defective(g)

\* When verify-resident-bytes is green, no order of the members, no subset
\* of them and no address of the segment costs a consumer more bytes than
\* the manifest of that configuration declares (measure_resident_bytes.py).
\* On a conforming tree it is red only where a leg without knobs of its own
\* got some from the command line that its sources refuse: Makefile:1004 says
\* it ignores those, but its lib-compact leg (Makefile:1095) inherits them.
FootprintCovered ==
    /\ verdict["resident"] = "red" => ~src.conforming \/ Refused
    /\ verdict["resident"] = "green" =>
        \A c \in FootprintConfigs :
            \A bytes \in DeclaredIn(src, ObjectsOf(c)) :
                WorstLink(Fragments(src, ObjectsOf(c))) <= bytes
=============================================================================
