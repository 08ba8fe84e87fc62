-------------------------- MODULE BuildTreeProofs --------------------------
(***************************************************************************)
(* What the knob stamp buys, for every set of directories, members and     *)
(* knobs and for any number of makes, edits and interruptions.             *)
(*                                                                         *)
(* A make that finds the stamp it wants reuses the objects it finds, so    *)
(* the invariant has to say that objects agree with the stamp at every     *)
(* step, also after an interruption (Keyed): this is what the order of the *)
(* invalidation, objects first and the stamp last, is for.                 *)
(*                                                                         *)
(* Then what it buys the gates, for every developer's commands: the make   *)
(* that an audit reads the result of was made with the knobs it is about,  *)
(* whichever recipes ran before it in the same process and tree.           *)
(***************************************************************************)
EXTENDS VerifyGates, CommonLemmas, SequenceTheorems

Keyed ==
    \A d \in Dirs, m \in Members :
        objs[d][m] # NoFile => /\ stored \in Knobs
                               /\ objs[d][m].defs = stored \cup Recipe[d]

Invalidated == step \in {"archives", "truncate", "stamp"} => objs = NoObjects

Stamped == step = "compile" => stored = knobs

\* What is known while nothing has been found out of date.
StillCurrent ==
    wasCurrent => /\ step \notin {"objects", "archives", "truncate", "stamp"}
                  /\ step = "compile" => /\ objs[dir] = Fresh(dir, knobs)
                                         /\ products[dir] = objs[dir]
                                         /\ ~rebuilt

TreeInv == /\ TreeTypeOK /\ Keyed /\ Invalidated /\ Stamped /\ StillCurrent
           /\ FinishedCurrent /\ SameKnobsIdle

LEMMA FreshType ==
    ASSUME TreeTypeOK, NEW d \in Dirs, NEW k \in Knobs
    PROVE  Fresh(d, k) \in [Members -> Object]
BY DEF TreeTypeOK, Fresh, Object

LEMMA InitTree == TreeInit => TreeInv
<1> SUFFICES ASSUME TreeInit PROVE TreeInv
  OBVIOUS
<1>1. TreeTypeOK
  <2>1. objs \in [Dirs -> [Members -> Object \cup {NoFile}]]
    BY DEF TreeInit, NoObjects
  <2>2. products \in [Dirs -> [Members -> Object] \cup {NoFile}]
    BY DEF TreeInit, NoProducts
  <2>3. version \in [Members -> 0..MaxVersion]
    BY TreeAssumption DEF TreeInit
  <2> QED
    BY <2>1, <2>2, <2>3 DEF TreeInit, TreeTypeOK, Steps
<1>2. Keyed
  BY DEF TreeInit, Keyed, NoObjects
<1> QED
  BY <1>1, <1>2 DEF TreeInit, TreeInv, Invalidated, Stamped, StillCurrent, FinishedCurrent,
     SameKnobsIdle

LEMMA BeginInv ==
    ASSUME TreeInv, NEW d \in Dirs, NEW k \in Knobs, Begin(d, k, SameKnobs(k))
    PROVE  TreeInv'
BY DEF TreeInv, TreeTypeOK, Keyed, Invalidated, Stamped, StillCurrent, FinishedCurrent,
       SameKnobsIdle, Begin, SameKnobs, Steps, Fresh

LEMMA InvalidateInv ==
    ASSUME TreeInv, DeleteObjects \/ DeleteArchives \/ TruncateStamp \/ WriteStamp
    PROVE  TreeInv'
<1>1. CASE DeleteObjects
  <2>1. objs' \in [Dirs -> [Members -> Object \cup {NoFile}]]
    BY <1>1 DEF TreeInv, TreeTypeOK, DeleteObjects, NoObjects
  <2>2. \A d \in Dirs, m \in Members : objs'[d][m] \in {objs[d][m], NoFile}
    BY <1>1 DEF TreeInv, TreeTypeOK, DeleteObjects, NoObjects
  <2>3. TreeTypeOK'
    BY <1>1, <2>1 DEF TreeInv, TreeTypeOK, DeleteObjects, Steps
  <2>4. Keyed'
    BY <1>1, <2>2 DEF TreeInv, Keyed, DeleteObjects
  <2> QED
    BY <1>1, <2>3, <2>4 DEF TreeInv, Invalidated, Stamped, StillCurrent, FinishedCurrent,
       SameKnobsIdle, DeleteObjects
<1>2. CASE DeleteArchives
  BY <1>2 DEF TreeInv, TreeTypeOK, Keyed, Invalidated, Stamped, StillCurrent, FinishedCurrent,
       SameKnobsIdle, DeleteArchives, Steps
<1>3. CASE TruncateStamp
  BY <1>3 DEF TreeInv, TreeTypeOK, Keyed, Invalidated, Stamped, StillCurrent, FinishedCurrent,
       SameKnobsIdle, TruncateStamp, Steps, NoObjects
<1>4. CASE WriteStamp
  BY <1>4 DEF TreeInv, TreeTypeOK, Keyed, Invalidated, Stamped, StillCurrent, FinishedCurrent,
       SameKnobsIdle, WriteStamp, Steps, NoObjects
<1> QED BY <1>1, <1>2, <1>3, <1>4

LEMMA CompileInv ==
    ASSUME TreeInv, NEW m \in Members, Compile(m)
    PROVE  TreeInv'
<1>1. Fresh(dir, knobs)[m] \in Object /\ Fresh(dir, knobs)[m].defs = stored \cup Recipe[dir]
  BY FreshType DEF TreeInv, TreeTypeOK, Stamped, Compile, Fresh
<1>2. TreeTypeOK' /\ Keyed'
  BY <1>1 DEF TreeInv, TreeTypeOK, Keyed, Stamped, Compile
<1>3. ~wasCurrent
  BY TreeAssumption, FreshType DEF TreeInv, TreeTypeOK, StillCurrent, Compile, OutOfDate, Fresh
<1> QED
  BY <1>2, <1>3 DEF TreeInv, Invalidated, Stamped, StillCurrent, FinishedCurrent,
       SameKnobsIdle, Compile

LEMMA PackageInv ==
    ASSUME TreeInv, Package
    PROVE  TreeInv'
<1>1. ASSUME NEW m \in Members PROVE objs[dir][m] = Fresh(dir, knobs)[m]
  <2>1. objs[dir][m] # NoFile /\ objs[dir][m].ver = version[m]
    BY DEF Package, OutOfDate
  <2>2. objs[dir][m] \in Object
    BY <2>1 DEF TreeInv, TreeTypeOK
  <2>3. objs[dir][m].defs = knobs \cup Recipe[dir]
    BY <2>1 DEF TreeInv, TreeTypeOK, Keyed, Stamped, Package
  <2>4. objs[dir][m] = [defs |-> objs[dir][m].defs, ver |-> objs[dir][m].ver]
    BY <2>2 DEF Object
  <2> QED BY <2>1, <2>3, <2>4 DEF Fresh
<1>2. objs[dir] = Fresh(dir, knobs)
  BY <1>1 DEF TreeInv, TreeTypeOK, Fresh
<1>3. TreeTypeOK'
  BY <1>2, FreshType DEF TreeInv, TreeTypeOK, Package, Steps
<1>4. FinishedCurrent' /\ SameKnobsIdle'
  BY <1>2 DEF TreeInv, TreeTypeOK, StillCurrent, FinishedCurrent, SameKnobsIdle, Package, Fresh
<1> QED
  BY <1>3, <1>4 DEF TreeInv, Keyed, Invalidated, Stamped, StillCurrent, Package

LEMMA StopInv ==
    ASSUME TreeInv, Refuse \/ Finish \/ Interrupt \/ UNCHANGED treeVars
    PROVE  TreeInv'
<1>1. CASE Refuse
  BY <1>1 DEF TreeInv, TreeTypeOK, Keyed, Invalidated, Stamped, StillCurrent, FinishedCurrent,
       SameKnobsIdle, Refuse, Steps
<1>2. CASE Finish \/ Interrupt
  BY <1>2 DEF TreeInv, TreeTypeOK, Keyed, Invalidated, Stamped, StillCurrent, FinishedCurrent,
       SameKnobsIdle, Finish, Interrupt, Steps
<1>3. CASE UNCHANGED treeVars
  BY <1>3 DEF TreeInv, TreeTypeOK, Keyed, Invalidated, Stamped, StillCurrent, FinishedCurrent,
       SameKnobsIdle, treeVars, Fresh
<1> QED BY <1>1, <1>2, <1>3

LEMMA EditInv ==
    ASSUME TreeInv, NEW m \in Members, Edit(m)
    PROVE  TreeInv'
BY TreeAssumption DEF TreeInv, TreeTypeOK, Keyed, Invalidated, Stamped, StillCurrent,
       FinishedCurrent, SameKnobsIdle, Edit

LEMMA NextTree == TreeInv /\ [TreeNext]_treeVars => TreeInv'
BY BeginInv, InvalidateInv, CompileInv, PackageInv, StopInv, EditInv DEF TreeNext, MakeStep

LEMMA TreeInvariant == TreeSpec => []TreeInv
BY InitTree, NextTree, PTL DEF TreeSpec

\* The types, for every number of directories, members and knobs.
THEOREM TreeTypesOK == TreeSpec => []TreeTypeOK
<1>1. TreeInv => TreeTypeOK
  BY DEF TreeInv
<1> QED BY <1>1, TreeInvariant, PTL

\* A make that ends has packaged the current sources under the knobs it was
\* asked for (Makefile:118): no interruption leaves the stamp ahead of the
\* objects it vouches for.
THEOREM ArtifactTracksKnobs == TreeSpec => []FinishedCurrent
<1>1. TreeInv => FinishedCurrent
  BY DEF TreeInv
<1> QED BY <1>1, TreeInvariant, PTL

\* The same knobs over an unchanged tree rebuild no archive.
THEOREM GuardIsIncremental == TreeSpec => []SameKnobsIdle
<1>1. TreeInv => SameKnobsIdle
  BY DEF TreeInv
<1> QED BY <1>1, TreeInvariant, PTL

-----------------------------------------------------------------------------
(* The gates (VerifyGates): every recipe, in any order, over the one tree.  *)

\* The entries of a script.
Item ==
    [op : {"parse"}, knobs : Knobs]
    \cup [op : {"goal", "sub"}, dir : Dirs, knobs : Knobs]
    \cup [op : {"inspect"}, gate : Gates, dir : Dirs, knobs : Knobs]
    \cup [op : {"dump"}, dir : Dirs]
    \cup [op : {"copy", "discard"}]
    \cup [op : {"judge", "end"}, gate : Gates]

\* Entry i comes while the caller's tree is set aside: a discard follows, and
\* no copy before it.
Inside(s, i) ==
    \E d \in DOMAIN s : /\ d > i /\ s[d].op = "discard"
                        /\ \A c \in DOMAIN s : i < c /\ c < d => s[c].op # "copy"

\* A make of the caller's tree that leaves the stamp at k, and build/lib either
\* current under k or no longer among the goals updated.
Renews(s, i, k) ==
    /\ s[i].op \in {"parse", "sub"} /\ s[i].knobs = k /\ ~Inside(s, i)
    /\ s[i].op = "sub" => s[i].dir = "lib"

\* Copies come in pairs with discards, and goals are not built in a copy.
Paired(s) ==
    \A i \in DOMAIN s : /\ s[i].op = "copy" => Inside(s, i)
                        /\ s[i].op \in {"discard", "goal"} => ~Inside(s, i)

\* A make of the caller's tree under other knobs.
Spoils(s, i, k) == s[i].op \in {"parse", "sub"} /\ s[i].knobs # k /\ ~Inside(s, i)

\* Entry e makes what entry f inspects.
Inspects(f) == f.op = "inspect" /\ f.gate # "routing"
BuiltFor(e, f) == /\ e.op \in {"sub", "goal"} /\ e.dir = f.dir /\ e.knobs = f.knobs
                  /\ e.op = "goal" => f.dir = "lib"

\* Every inspection follows the make it is about.
Prepared(s) == \A i \in DOMAIN s : i > 1 /\ Inspects(s[i]) => BuiltFor(s[i - 1], s[i])

\* What was built under other knobs is renewed before the next goal.
Restored(s) ==
    \A i, j \in DOMAIN s :
        i < j /\ s[j].op = "goal" /\ Spoils(s, i, s[j].knobs)
        => \E l \in DOMAIN s : i < l /\ l < j /\ Renews(s, l, s[j].knobs)

\* The caller's tree, set aside or not.
CallersStamp == IF aside = NoTree THEN stored ELSE aside[1]
CallersLib == IF aside = NoTree THEN objs["lib"] ELSE aside[2]["lib"]

Ready(k) == CallersStamp = k /\ ("lib" \in memo => CallersLib = Fresh("lib", k))

\* A goal is reached with the caller's tree ready for it.
GoalsReady ==
    \A j \in DOMAIN script, k \in Knobs :
        script[j].op = "goal" /\ script[j].knobs = k =>
            Ready(k) \/ \E l \in DOMAIN script : l < j /\ Renews(script, l, k)

AsideKeyed ==
    aside # NoTree =>
        /\ aside = <<aside[1], aside[2], aside[3]>>
        /\ aside[1] \in Knobs \cup {NoStamp}
        /\ aside[2] \in [Dirs -> [Members -> Object \cup {NoFile}]]
        /\ aside[3] \in [Dirs -> [Members -> Object] \cup {NoFile}]
        /\ \A d \in Dirs, m \in Members :
             aside[2][d][m] # NoFile => /\ aside[1] \in Knobs
                                        /\ aside[2][d][m].defs = aside[1] \cup Recipe[d]

\* The make that runs is the one the script is at.
Running ==
    step # "idle" => /\ script # <<>>
                     /\ Head(script).op \in {"parse", "sub", "goal"}
                     /\ knobs = Head(script).knobs
                     /\ Head(script).op # "parse" => dir = Head(script).dir
                     /\ Head(script).op = "goal" => dir \notin memo
                     /\ step = "done" => Head(script).op # "parse"

MakeStamp ==
    /\ step \in {"objects", "archives", "truncate", "stamp"} => stored # knobs
    /\ step \in {"done", "failed"} => stored = knobs
    /\ step = "done" => objs[dir] = products[dir]

ScriptInv ==
    /\ script \in Seq(Item)
    /\ Paired(script) /\ Prepared(script) /\ Restored(script)
    /\ aside # NoTree <=> Inside(script, 0)

\* All of it, for a tree with the Makefile's guard.
Sound == /\ TreeInv /\ ScriptInv /\ GoalsReady /\ AsideKeyed /\ Running /\ MakeStamp
         /\ InspectsRequested

GatesInv == src.guard = "stamp" => Sound

-----------------------------------------------------------------------------
(* Recipes, joined end to end.                                              *)

Joined(u, s, t, n, m) ==
    /\ n \in Nat /\ m \in Nat
    /\ DOMAIN s = 1 .. n /\ DOMAIN t = 1 .. m /\ DOMAIN u = 1 .. n + m
    /\ \A i \in 1 .. n : u[i] = s[i]
    /\ \A i \in 1 .. m : u[n + i] = t[i]

LEMMA Join ==
    ASSUME NEW S, NEW s \in Seq(S), NEW t \in Seq(S)
    PROVE  s \o t \in Seq(S) /\ \E n, m : Joined(s \o t, s, t, n, m)
<1> DEFINE n == Len(s)  m == Len(t)  u == s \o t
<1>1. n \in Nat /\ m \in Nat /\ DOMAIN s = 1 .. n /\ DOMAIN t = 1 .. m
  BY LenProperties
<1>2. /\ u \in Seq(S) /\ Len(u) = n + m
      /\ \A i \in 1 .. n + m : u[i] = IF i <= n THEN s[i] ELSE t[i - n]
  BY ConcatProperties
<1>3. DOMAIN u = 1 .. n + m
  BY <1>2, LenProperties
<1> HIDE DEF n, m, u
<1>4. \A i \in 1 .. n : u[i] = s[i]
  BY <1>1, <1>2
<1>5. ASSUME NEW i \in 1 .. m PROVE u[n + i] = t[i]
  <2>1. n + i \in 1 .. n + m /\ ~(n + i <= n) /\ (n + i) - n = i
    BY <1>1
  <2> QED BY <1>2, <2>1
<1>6. Joined(u, s, t, n, m)
  BY <1>1, <1>3, <1>4, <1>5 DEF Joined
<1>7. u \in Seq(S) /\ \E k, l : Joined(u, s, t, k, l)
  BY <1>2, <1>6
<1> QED BY <1>7 DEF u

LEMMA PositionSplit ==
    ASSUME NEW n \in Nat, NEW m \in Nat, NEW i \in 1 .. n + m
    PROVE  i \in 1 .. n \/ \E j \in 1 .. m : i = n + j
<1>1. CASE i <= n
  BY <1>1
<1>2. CASE ~(i <= n)
  <2>1. i - n \in 1 .. m /\ i = n + (i - n)
    BY <1>2
  <2> QED BY <2>1
<1> QED BY <1>1, <1>2

\* Positions of the joined recipe are positions of its parts.
LEMMA JoinedAt ==
    ASSUME NEW u, NEW s, NEW t, NEW n, NEW m, Joined(u, s, t, n, m),
           NEW i \in DOMAIN u
    PROVE  \/ i \in DOMAIN s /\ i \in 1 .. n /\ u[i] = s[i]
           \/ i - n \in DOMAIN t /\ i - n \in 1 .. m /\ u[i] = t[i - n]
<1>1. CASE i <= n
  BY <1>1 DEF Joined
<1>2. CASE ~(i <= n)
  <2>1. i - n \in 1 .. m /\ n + (i - n) = i
    BY <1>2 DEF Joined
  <2> QED BY <2>1 DEF Joined
<1> QED BY <1>1, <1>2

\* What stands inside a copy does not depend on what is joined on.
LEMMA InsideJoined ==
    ASSUME NEW u, NEW s, NEW t, NEW n, NEW m, Joined(u, s, t, n, m), ~Inside(t, 0)
    PROVE  /\ \A i \in 0 .. n : Inside(u, i) <=> Inside(s, i)
           /\ \A i \in 1 .. m : Inside(u, n + i) <=> Inside(t, i)
<1> USE DEF Joined
<1>1. ASSUME NEW i \in 0 .. n, Inside(s, i) PROVE Inside(u, i)
  <2>1. PICK d \in DOMAIN s : /\ d > i /\ s[d].op = "discard"
                              /\ \A c \in DOMAIN s : i < c /\ c < d => s[c].op # "copy"
    BY <1>1 DEF Inside
  <2>2. d \in DOMAIN u /\ u[d].op = "discard"
    BY <2>1
  <2>3. ASSUME NEW c \in DOMAIN u, i < c, c < d PROVE u[c].op # "copy"
    <3>1. c \in DOMAIN s
      BY <2>1, <2>3
    <3> QED BY <2>1, <2>3, <3>1
  <2> QED BY <2>1, <2>2, <2>3 DEF Inside
<1>2. ASSUME NEW i \in 0 .. n, Inside(u, i) PROVE Inside(s, i)
  <2>1. PICK d \in DOMAIN u : /\ d > i /\ u[d].op = "discard"
                              /\ \A c \in DOMAIN u : i < c /\ c < d => u[c].op # "copy"
    BY <1>2 DEF Inside
  <2>2. CASE d <= n
    <3>1. d \in DOMAIN s /\ s[d].op = "discard"
      BY <2>1, <2>2
    <3>2. ASSUME NEW c \in DOMAIN s, i < c, c < d PROVE s[c].op # "copy"
      <4>1. c \in DOMAIN u /\ u[c] = s[c]
        OBVIOUS
      <4> QED BY <2>1, <3>2, <4>1
    <3> QED BY <2>1, <3>1, <3>2 DEF Inside
  <2>3. CASE ~(d <= n)
    <3>1. d - n \in DOMAIN t /\ d - n > 0 /\ t[d - n].op = "discard"
      BY <2>1, <2>3, JoinedAt
    <3>2. ASSUME NEW c \in DOMAIN t, 0 < c, c < d - n PROVE t[c].op # "copy"
      <4>1. n + c \in DOMAIN u /\ u[n + c] = t[c] /\ i < n + c /\ n + c < d
        BY <2>1, <3>2
      <4> QED BY <2>1, <4>1
    <3>3. Inside(t, 0)
      BY <3>1, <3>2 DEF Inside
    <3> QED BY <3>3
  <2> QED BY <2>1, <2>2, <2>3
<1>3. ASSUME NEW i \in 1 .. m, Inside(t, i) PROVE Inside(u, n + i)
  <2>1. PICK d \in DOMAIN t : /\ d > i /\ t[d].op = "discard"
                              /\ \A c \in DOMAIN t : i < c /\ c < d => t[c].op # "copy"
    BY <1>3 DEF Inside
  <2>2. n + d \in DOMAIN u /\ u[n + d].op = "discard" /\ n + d > n + i
    BY <2>1
  <2>3. ASSUME NEW c \in DOMAIN u, n + i < c, c < n + d PROVE u[c].op # "copy"
    <3>1. c - n \in DOMAIN t /\ u[c] = t[c - n] /\ i < c - n /\ c - n < d
      BY <2>1, <2>3, JoinedAt
    <3> QED BY <2>1, <3>1
  <2> QED BY <2>2, <2>3 DEF Inside
<1>4. ASSUME NEW i \in 1 .. m, Inside(u, n + i) PROVE Inside(t, i)
  <2>1. PICK d \in DOMAIN u : /\ d > n + i /\ u[d].op = "discard"
                              /\ \A c \in DOMAIN u : n + i < c /\ c < d => u[c].op # "copy"
    BY <1>4 DEF Inside
  <2>2. d - n \in DOMAIN t /\ d - n > i /\ t[d - n].op = "discard"
    BY <2>1, JoinedAt
  <2>3. ASSUME NEW c \in DOMAIN t, i < c, c < d - n PROVE t[c].op # "copy"
    <3>1. n + c \in DOMAIN u /\ u[n + c] = t[c] /\ n + i < n + c /\ n + c < d
      BY <2>1, <2>3
    <3> QED BY <2>1, <3>1
  <2> QED BY <2>2, <2>3 DEF Inside
<1> QED BY <1>1, <1>2, <1>3, <1>4

\* A recipe that starts and ends with the caller's tree ready for goals under k.
Blocks(k) ==
    {s \in Seq(Item) :
        /\ Paired(s) /\ ~Inside(s, 0) /\ Restored(s)
        /\ \A i \in DOMAIN s : Inspects(s[i]) => i > 1 /\ BuiltFor(s[i - 1], s[i])
        /\ \A i \in DOMAIN s : s[i].op = "goal" => s[i].knobs = k
        /\ \A i \in DOMAIN s : Spoils(s, i, k) =>
             \E l \in DOMAIN s : i < l /\ Renews(s, l, k)}

LEMMA BlocksJoin ==
    ASSUME NEW k, NEW s \in Blocks(k), NEW t \in Blocks(k)
    PROVE  s \o t \in Blocks(k)
<1> DEFINE u == s \o t
<1>1. s \in Seq(Item) /\ t \in Seq(Item) /\ ~Inside(t, 0) /\ ~Inside(s, 0)
  BY DEF Blocks
<1>2. u \in Seq(Item) /\ \E n, m : Joined(u, s, t, n, m)
  BY <1>1, Join
<1> HIDE DEF u
<1>3. PICK n, m : Joined(u, s, t, n, m)
  BY <1>2
<1>4. /\ n \in Nat /\ m \in Nat
      /\ DOMAIN s = 1 .. n /\ DOMAIN t = 1 .. m /\ DOMAIN u = 1 .. n + m
      /\ \A i \in 1 .. n : u[i] = s[i]
      /\ \A i \in 1 .. m : u[n + i] = t[i]
  BY <1>3 DEF Joined
<1>5. /\ \A i \in 0 .. n : Inside(u, i) <=> Inside(s, i)
      /\ \A i \in 1 .. m : Inside(u, n + i) <=> Inside(t, i)
  BY <1>1, <1>3, InsideJoined
<1> n \in Nat /\ m \in Nat
  BY <1>4
<1>6. ASSUME NEW i \in 1 .. n, NEW c
      PROVE  /\ Renews(u, i, c) <=> Renews(s, i, c)
             /\ Spoils(u, i, c) <=> Spoils(s, i, c)
  BY <1>4, <1>5 DEF Renews, Spoils
<1>7. ASSUME NEW i \in 1 .. m, NEW c
      PROVE  /\ Renews(u, n + i, c) <=> Renews(t, i, c)
             /\ Spoils(u, n + i, c) <=> Spoils(t, i, c)
  BY <1>4, <1>5 DEF Renews, Spoils
<1>8. ASSUME NEW i \in DOMAIN u
      PROVE  i \in 1 .. n \/ \E j \in 1 .. m : i = n + j
  <2>1. i \in 1 .. n + m
    BY <1>4
  <2> QED BY <2>1, PositionSplit
<1>9. Paired(u) /\ ~Inside(u, 0)
  <2>1. ASSUME NEW i \in DOMAIN u
        PROVE  /\ u[i].op = "copy" => Inside(u, i)
               /\ u[i].op \in {"discard", "goal"} => ~Inside(u, i)
    <3>1. CASE i \in 1 .. n
      BY <1>4, <1>5, <3>1 DEF Blocks, Paired
    <3>2. CASE \E j \in 1 .. m : i = n + j
      <4>1. PICK j \in 1 .. m : i = n + j
        BY <3>2
      <4>2. j \in DOMAIN t /\ u[i] = t[j] /\ (Inside(u, i) <=> Inside(t, j))
        BY <1>4, <1>5, <4>1
      <4> QED BY <4>2 DEF Blocks, Paired
    <3> QED BY <1>8, <3>1, <3>2
  <2> QED BY <1>1, <1>4, <1>5, <2>1 DEF Paired
<1>10. ASSUME NEW i \in DOMAIN u
       PROVE  /\ Inspects(u[i]) => i > 1 /\ BuiltFor(u[i - 1], u[i])
              /\ u[i].op = "goal" => u[i].knobs = k
  <2>1. CASE i \in 1 .. n
    <3>1. i > 1 => i - 1 \in 1 .. n
      BY <2>1
    <3> QED BY <1>4, <2>1, <3>1 DEF Blocks
  <2>2. CASE \E j \in 1 .. m : i = n + j
    <3>1. PICK j \in 1 .. m : i = n + j
      BY <2>2
    <3>2. j > 1 => j - 1 \in 1 .. m /\ i - 1 = n + (j - 1) /\ i > 1
      BY <3>1
    <3>3. u[i] = t[j] /\ (j > 1 => u[i - 1] = t[j - 1])
      BY <1>4, <3>1, <3>2
    <3> QED BY <1>4, <3>2, <3>3 DEF Blocks
  <2> QED BY <1>8, <2>1, <2>2
<1>11. ASSUME NEW i \in DOMAIN u, Spoils(u, i, k)
       PROVE  \E l \in DOMAIN u : i < l /\ Renews(u, l, k)
  <2>1. CASE i \in 1 .. n
    <3>1. PICK l \in 1 .. n : i < l /\ Renews(s, l, k)
      BY <1>4, <1>6, <1>11, <2>1 DEF Blocks
    <3> QED BY <1>4, <1>6, <3>1
  <2>2. CASE \E j \in 1 .. m : i = n + j
    <3>1. PICK j \in 1 .. m : i = n + j
      BY <2>2
    <3>2. PICK l \in 1 .. m : j < l /\ Renews(t, l, k)
      BY <1>4, <1>7, <1>11, <3>1 DEF Blocks
    <3>3. n + l \in DOMAIN u /\ i < n + l /\ Renews(u, n + l, k)
      BY <1>4, <1>7, <3>1, <3>2
    <3> QED BY <3>3
  <2> QED BY <1>8, <2>1, <2>2
<1>12. Restored(u)
  <2> SUFFICES ASSUME NEW i \in DOMAIN u, NEW j \in DOMAIN u,
                      i < j, u[j].op = "goal", Spoils(u, i, u[j].knobs)
               PROVE  \E l \in DOMAIN u : i < l /\ l < j /\ Renews(u, l, u[j].knobs)
    BY DEF Restored
  <2>1. CASE j \in 1 .. n
    <3>1. i \in 1 .. n
      BY <1>4, <2>1
    <3>2. PICK l \in 1 .. n : i < l /\ l < j /\ Renews(s, l, u[j].knobs)
      BY <1>4, <1>6, <2>1, <3>1 DEF Blocks, Restored
    <3> QED BY <1>4, <1>6, <3>2
  <2>2. CASE i \in 1 .. n /\ \E h \in 1 .. m : j = n + h
    <3>1. u[j].knobs = k
      BY <1>10
    <3>2. PICK l \in 1 .. n : i < l /\ Renews(s, l, k)
      BY <1>4, <1>6, <2>2, <3>1 DEF Blocks
    <3>3. l \in DOMAIN u /\ l < j /\ Renews(u, l, k)
      BY <1>4, <1>6, <2>2, <3>2
    <3> QED BY <3>1, <3>2, <3>3
  <2>3. CASE \E g \in 1 .. m, h \in 1 .. m : i = n + g /\ j = n + h
    <3>1. PICK g \in 1 .. m, h \in 1 .. m : i = n + g /\ j = n + h
      BY <2>3
    <3>2. g < h /\ t[h] = u[j] /\ Spoils(t, g, t[h].knobs)
      BY <1>4, <1>7, <3>1
    <3>3. PICK l \in 1 .. m : g < l /\ l < h /\ Renews(t, l, t[h].knobs)
      BY <1>4, <3>2 DEF Blocks, Restored
    <3>4. Renews(u, n + l, u[j].knobs)
      BY <1>7, <3>2, <3>3
    <3>5. n + l \in 1 .. n + m /\ i < n + l /\ n + l < j
      BY <3>1, <3>3
    <3> QED BY <1>4, <3>4, <3>5
  <2> QED BY <1>4, <1>8, <2>1, <2>2, <2>3
<1>13. u \in Blocks(k)
  BY <1>2, <1>9, <1>10, <1>11, <1>12 DEF Blocks
<1> QED BY <1>13 DEF u

\* Makes of an audit's own, each inspected or dumped, from entry a on.
Legged(s, a) ==
    \A i \in DOMAIN s :
        i > a => /\ s[i].op \in {"sub", "inspect", "dump", "judge"}
                 /\ Inspects(s[i]) => i > 1 /\ s[i - 1].op = "sub" /\ BuiltFor(s[i - 1], s[i])

LegSeqs == {s \in Seq(Item) : Legged(s, 0)}
Opened == {s \in Seq(Item) : 1 \in DOMAIN s /\ s[1].op = "copy" /\ Legged(s, 1)}

LEMMA LeggedJoin ==
    ASSUME NEW a \in {0, 1}, NEW s \in Seq(Item), NEW t \in Seq(Item),
           Legged(s, a), Legged(t, 0)
    PROVE  Legged(s \o t, a)
<1> DEFINE u == s \o t
<1>1. \E n, m : Joined(u, s, t, n, m)
  BY Join
<1> HIDE DEF u
<1>2. PICK n, m : Joined(u, s, t, n, m)
  BY <1>1
<1>3. /\ DOMAIN s = 1 .. n /\ DOMAIN t = 1 .. m /\ DOMAIN u = 1 .. n + m
      /\ \A i \in 1 .. n : u[i] = s[i]
      /\ \A i \in 1 .. m : u[n + i] = t[i]
  BY <1>2 DEF Joined
<1> n \in Nat /\ m \in Nat
  BY <1>2 DEF Joined
<1>4. ASSUME NEW i \in 1 .. n + m, i > a
      PROVE  /\ u[i].op \in {"sub", "inspect", "dump", "judge"}
             /\ Inspects(u[i]) => i > 1 /\ u[i - 1].op = "sub" /\ BuiltFor(u[i - 1], u[i])
  <2>1. CASE i \in 1 .. n
    <3>1. i > 1 => i - 1 \in 1 .. n
      BY <2>1
    <3>2. u[i] = s[i] /\ (i > 1 => u[i - 1] = s[i - 1]) /\ i \in DOMAIN s
      BY <1>3, <2>1, <3>1
    <3>3. /\ s[i].op \in {"sub", "inspect", "dump", "judge"}
          /\ Inspects(s[i]) => i > 1 /\ s[i - 1].op = "sub" /\ BuiltFor(s[i - 1], s[i])
      BY <1>4, <3>2 DEF Legged
    <3> QED BY <3>2, <3>3
  <2>2. CASE \E j \in 1 .. m : i = n + j
    <3>1. PICK j \in 1 .. m : i = n + j
      BY <2>2
    <3>2. j > 0 /\ (j > 1 => j - 1 \in 1 .. m /\ i - 1 = n + (j - 1) /\ i > 1)
      BY <3>1
    <3>3. u[i] = t[j] /\ (j > 1 => u[i - 1] = t[j - 1])
      BY <1>3, <3>1, <3>2
    <3>4. j \in DOMAIN t
      BY <1>3
    <3> QED BY <3>2, <3>3, <3>4 DEF Legged
  <2> QED BY <2>1, <2>2, PositionSplit
<1>5. Legged(u, a)
  BY <1>3, <1>4 DEF Legged
<1> QED BY <1>5 DEF u

LEMMA LegsJoin == \A s, t \in LegSeqs : s \o t \in LegSeqs
BY LeggedJoin, Join DEF LegSeqs

LEMMA OpenedJoin == \A s \in Opened, t \in LegSeqs : s \o t \in Opened
<1> SUFFICES ASSUME NEW s \in Opened, NEW t \in LegSeqs PROVE s \o t \in Opened
  OBVIOUS
<1> DEFINE u == s \o t
<1>1. u \in Seq(Item) /\ \E n, m : Joined(u, s, t, n, m)
  BY Join DEF Opened, LegSeqs
<1>2. Legged(u, 1)
  BY LeggedJoin DEF Opened, LegSeqs
<1> HIDE DEF u
<1>3. 1 \in DOMAIN u /\ u[1] = s[1]
  <2>1. PICK n, m : Joined(u, s, t, n, m)
    BY <1>1
  <2>2. 1 \in 1 .. n /\ n \in Nat /\ m \in Nat
    BY <2>1 DEF Joined, Opened
  <2>3. 1 \in 1 .. n + m
    BY <2>2
  <2> QED BY <2>1, <2>2, <2>3 DEF Joined
<1>4. u \in Opened
  BY <1>1, <1>2, <1>3 DEF Opened
<1> QED BY <1>4 DEF u

\* The audits that build into the caller's tree end by making build/lib again.
LEMMA LegsThenLib ==
    ASSUME NEW k \in Knobs, NEW s \in LegSeqs, "lib" \in Dirs
    PROVE  s \o Sub("lib", k) \in Blocks(k)
<1> DEFINE e == [op |-> "sub", dir |-> "lib", knobs |-> k]
           t == <<e>>
           u == s \o t
<1>1. /\ t \in Seq(Item) /\ DOMAIN t = 1 .. 1 /\ t[1] = e
      /\ Sub("lib", k) = t
  BY DEF Item, Sub
<1>2. u \in Seq(Item) /\ \E n, m : Joined(u, s, t, n, m)
  BY <1>1, Join DEF LegSeqs
<1>3. e.op = "sub" /\ e.dir = "lib" /\ e.knobs = k
  OBVIOUS
<1> HIDE DEF e, t, u
<1>4. PICK n, m : Joined(u, s, t, n, m)
  BY <1>2
<1>5. n \in Nat /\ m = 1
  BY <1>1, <1>4 DEF Joined
<1>6. /\ DOMAIN s = 1 .. n /\ DOMAIN u = 1 .. n + 1
      /\ \A i \in 1 .. n : u[i] = s[i]
      /\ u[n + 1] = e
  BY <1>1, <1>4, <1>5 DEF Joined
<1>7. ASSUME NEW i \in 1 .. n + 1 PROVE i \in 1 .. n \/ i = n + 1
  BY <1>5
<1>8. ASSUME NEW i \in DOMAIN u
      PROVE  /\ u[i].op \in {"sub", "inspect", "dump", "judge"}
             /\ Inspects(u[i]) => i > 1 /\ BuiltFor(u[i - 1], u[i])
  <2>1. CASE i \in 1 .. n
    <3>1. i > 0 /\ (i > 1 => i - 1 \in 1 .. n)
      BY <1>5, <2>1
    <3> QED BY <1>6, <2>1, <3>1 DEF LegSeqs, Legged
  <2>2. CASE i = n + 1
    BY <1>3, <1>6, <2>2 DEF Inspects
  <2> QED BY <1>6, <1>7, <2>1, <2>2
<1>9. \A i : ~Inside(u, i)
  BY <1>8 DEF Inside
<1>10. Paired(u) /\ Restored(u)
  BY <1>8, <1>9 DEF Paired, Restored
<1>11. ASSUME NEW i \in DOMAIN u, Spoils(u, i, k)
       PROVE  \E l \in DOMAIN u : i < l /\ Renews(u, l, k)
  <2>1. i # n + 1
    BY <1>3, <1>6, <1>11 DEF Spoils
  <2>2. i < n + 1 /\ n + 1 \in 1 .. n + 1
    BY <1>5, <1>6, <1>7, <2>1
  <2>3. Renews(u, n + 1, k)
    BY <1>3, <1>6, <1>9 DEF Renews
  <2> QED BY <1>6, <2>2, <2>3
<1>12. u \in Blocks(k)
  BY <1>2, <1>8, <1>9, <1>10, <1>11 DEF Blocks
<1> QED BY <1>1, <1>12 DEF u

\* The others work on a copy.
LEMMA OpenedThenDiscard ==
    ASSUME NEW k, NEW s \in Opened
    PROVE  s \o Do("discard") \in Blocks(k)
<1> DEFINE e == [op |-> "discard"]
           t == <<e>>
           u == s \o t
<1>1. /\ t \in Seq(Item) /\ DOMAIN t = 1 .. 1 /\ t[1] = e
      /\ Do("discard") = t
  BY DEF Item, Do
<1>2. u \in Seq(Item) /\ \E n, m : Joined(u, s, t, n, m)
  BY <1>1, Join DEF Opened
<1>3. e.op = "discard"
  OBVIOUS
<1> HIDE DEF e, t, u
<1>4. PICK n, m : Joined(u, s, t, n, m)
  BY <1>2
<1>5. n \in Nat /\ m = 1 /\ 1 \in 1 .. n
  BY <1>1, <1>4 DEF Joined, Opened
<1>6. /\ DOMAIN s = 1 .. n /\ DOMAIN u = 1 .. n + 1
      /\ \A i \in 1 .. n : u[i] = s[i]
      /\ u[n + 1] = e
  BY <1>1, <1>4, <1>5 DEF Joined
<1>7. ASSUME NEW i \in 1 .. n + 1 PROVE i = 1 \/ (i \in 1 .. n /\ i > 1) \/ i = n + 1
  BY <1>5
<1>8. ASSUME NEW i \in 1 .. n, i > 1
      PROVE  /\ u[i].op \in {"sub", "inspect", "dump", "judge"}
             /\ Inspects(u[i]) => BuiltFor(u[i - 1], u[i])
  <2>1. i - 1 \in 1 .. n
    BY <1>5, <1>8
  <2> QED BY <1>6, <1>8, <2>1 DEF Opened, Legged
<1>9. u[1].op = "copy" /\ u[n + 1].op = "discard" /\ 1 \in DOMAIN u /\ n + 1 \in DOMAIN u
  BY <1>3, <1>5, <1>6 DEF Opened
<1>10. ASSUME NEW i \in 1 .. n PROVE Inside(u, i)
  <2>1. n + 1 > i /\ i >= 1
    BY <1>5
  <2>2. ASSUME NEW c \in 1 .. n + 1, i < c, c < n + 1 PROVE u[c].op # "copy"
    <3>1. c \in 1 .. n /\ c > 1
      BY <1>5, <2>1, <2>2
    <3> QED BY <1>8, <3>1
  <2> QED BY <1>6, <1>9, <2>1, <2>2 DEF Inside
<1>11. ~Inside(u, 0) /\ ~Inside(u, n + 1)
  <2>1. ASSUME NEW d \in 1 .. n + 1, u[d].op = "discard" PROVE d = n + 1
    BY <1>7, <1>8, <1>9, <2>1
  <2>2. 0 < 1 /\ 1 < n + 1 /\ ~(n + 1 > n + 1)
    BY <1>5
  <2> QED BY <1>6, <1>9, <2>1, <2>2 DEF Inside
<1>12. ASSUME NEW i \in DOMAIN u
       PROVE  /\ u[i].op = "copy" => Inside(u, i)
              /\ u[i].op = "discard" => ~Inside(u, i)
              /\ u[i].op # "goal"
              /\ Inspects(u[i]) => i > 1 /\ BuiltFor(u[i - 1], u[i])
              /\ ~Spoils(u, i, k)
  <2>1. CASE i = 1
    BY <1>5, <1>9, <1>10, <2>1 DEF Inspects, Spoils
  <2>2. CASE i \in 1 .. n /\ i > 1
    BY <1>8, <1>10, <2>2 DEF Spoils
  <2>3. CASE i = n + 1
    BY <1>9, <1>11, <2>3 DEF Inspects, Spoils
  <2> QED BY <1>6, <1>7, <2>1, <2>2, <2>3
<1>13. Paired(u) /\ Restored(u)
  BY <1>12 DEF Paired, Restored
<1>14. u \in Blocks(k)
  BY <1>2, <1>11, <1>12, <1>13 DEF Blocks
<1> QED BY <1>1, <1>14 DEF u

-----------------------------------------------------------------------------
(* The recipes of the Makefile.                                             *)

LEMMA SingleBlock ==
    ASSUME NEW k, NEW e \in Item,
           \/ e.op \in {"parse", "goal"} /\ e.knobs = k
           \/ e.op = "end"
           \/ e.op = "inspect" /\ e.gate = "routing"
    PROVE  <<e>> \in Blocks(k)
<1> DEFINE t == <<e>>
<1>1. t \in Seq(Item) /\ DOMAIN t = {1} /\ t[1] = e
  OBVIOUS
<1> HIDE DEF t
<1>2. \A i : ~Inside(t, i)
  BY <1>1 DEF Inside
<1>3. \A i \in DOMAIN t : ~Inspects(t[i]) /\ ~Spoils(t, i, k) /\ t[i].op # "copy"
                          /\ (t[i].op = "goal" => t[i].knobs = k)
  BY <1>1 DEF Inspects, Spoils
<1>4. Paired(t) /\ Restored(t)
  BY <1>1, <1>2, <1>3 DEF Paired, Restored
<1>5. t \in Blocks(k)
  BY <1>1, <1>2, <1>3, <1>4 DEF Blocks
<1> QED BY <1>5 DEF t

LEMMA SingleLeg ==
    ASSUME NEW e \in Item, e.op \in {"sub", "dump", "judge"}
    PROVE  <<e>> \in LegSeqs
<1> DEFINE t == <<e>>
<1>1. t \in Seq(Item) /\ DOMAIN t = {1} /\ t[1] = e
  OBVIOUS
<1> HIDE DEF t
<1>2. t \in LegSeqs
  BY <1>1 DEF LegSeqs, Legged, Inspects
<1> QED BY <1>2 DEF t

\* What an audit makes it inspects next.
LEMMA MadeThenInspected ==
    ASSUME NEW g \in Gates, NEW d \in Dirs, NEW k \in Knobs, NEW o \in {"sub", "goal"},
           o = "goal" => d = "lib"
    PROVE  LET e == [op |-> o, dir |-> d, knobs |-> k]
               u == <<e>> \o Inspect(g, d, k)
           IN  /\ u \in Seq(Item) /\ DOMAIN u = 1 .. 2
               /\ u[1] = e /\ u[2] = [op |-> "inspect", gate |-> g, dir |-> d, knobs |-> k]
               /\ BuiltFor(u[1], u[2])
<1> DEFINE e == [op |-> o, dir |-> d, knobs |-> k]
           f == [op |-> "inspect", gate |-> g, dir |-> d, knobs |-> k]
           s == <<e>>
           t == <<f>>
           u == s \o t
<1>1. e \in Item /\ f \in Item
  BY DEF Item
<1>2. /\ s \in Seq(Item) /\ t \in Seq(Item)
      /\ DOMAIN s = 1 .. 1 /\ DOMAIN t = 1 .. 1 /\ s[1] = e /\ t[1] = f
  BY <1>1
<1>3. BuiltFor(e, f) /\ Inspect(g, d, k) = t
  BY DEF BuiltFor, Inspect
<1> HIDE DEF e, f, s, t
<1>4. u \in Seq(Item) /\ \E n, m : Joined(u, s, t, n, m)
  BY <1>2, Join
<1> HIDE DEF u
<1>5. PICK n, m : Joined(u, s, t, n, m)
  BY <1>4
<1>6. n = 1 /\ m = 1
  BY <1>2, <1>5 DEF Joined
<1>7. DOMAIN u = 1 .. 2 /\ u[1] = e /\ u[2] = f
  BY <1>2, <1>5, <1>6 DEF Joined
<1>8. u \in Seq(Item) /\ DOMAIN u = 1 .. 2 /\ u[1] = e /\ u[2] = f /\ BuiltFor(u[1], u[2])
  BY <1>3, <1>4, <1>7
<1> QED BY <1>3, <1>8, Zenon DEF u, s, e, f

LEMMA LegPieces ==
    ASSUME NEW g \in Gates, NEW d \in Dirs, NEW k \in Knobs
    PROVE  /\ BuildAndInspect(g, d, k) \in LegSeqs
           /\ Sub(d, k) \in LegSeqs /\ Judge(g) \in LegSeqs
           /\ BuildAndDump(d, k) \in LegSeqs
<1>1. Sub(d, k) \in LegSeqs
  <2> DEFINE e == [op |-> "sub", dir |-> d, knobs |-> k]
  <2>1. e \in Item /\ e.op = "sub"
    BY DEF Item
  <2> HIDE DEF e
  <2>2. <<e>> \in LegSeqs
    BY <2>1, SingleLeg
  <2> QED BY <2>2 DEF Sub, e
<1>2. Judge(g) \in LegSeqs
  <2> DEFINE e == [op |-> "judge", gate |-> g]
  <2>1. e \in Item /\ e.op = "judge"
    BY DEF Item
  <2> HIDE DEF e
  <2>2. <<e>> \in LegSeqs
    BY <2>1, SingleLeg
  <2> QED BY <2>2 DEF Judge, e
<1>3. Dump(d) \in LegSeqs
  <2> DEFINE e == [op |-> "dump", dir |-> d]
  <2>1. e \in Item /\ e.op = "dump"
    BY DEF Item
  <2> HIDE DEF e
  <2>2. <<e>> \in LegSeqs
    BY <2>1, SingleLeg
  <2> QED BY <2>2 DEF Dump, e
<1>4. BuildAndInspect(g, d, k) \in LegSeqs
  <2> DEFINE e == [op |-> "sub", dir |-> d, knobs |-> k]
             f == [op |-> "inspect", gate |-> g, dir |-> d, knobs |-> k]
             u == BuildAndInspect(g, d, k)
  <2>1. /\ u \in Seq(Item) /\ DOMAIN u = 1 .. 2
        /\ u[1] = e /\ u[2] = f /\ BuiltFor(u[1], u[2])
    BY MadeThenInspected, Zenon DEF BuildAndInspect, Sub
  <2>2. e.op = "sub" /\ f.op = "inspect"
    OBVIOUS
  <2> HIDE DEF e, f, u
  <2>3. \A i \in 1 .. 2 : i = 1 \/ i = 2
    OBVIOUS
  <2>4. u[1].op = "sub" /\ u[2].op = "inspect" /\ 2 - 1 = 1
    BY <2>1, <2>2
  <2>5. Legged(u, 0)
    BY <2>1, <2>3, <2>4 DEF Legged, Inspects
  <2> QED BY <2>1, <2>5 DEF LegSeqs, u
<1> QED BY <1>1, <1>2, <1>3, <1>4, LegsJoin DEF BuildAndDump

LEMMA EndBlock ==
    ASSUME NEW k, NEW g \in Gates, NEW body \in Blocks(k)
    PROVE  Gate(g, body) \in Blocks(k)
<1> DEFINE e == [op |-> "end", gate |-> g]
<1>1. e \in Item /\ e.op = "end"
  BY DEF Item
<1> HIDE DEF e
<1>2. <<e>> \in Blocks(k)
  BY <1>1, SingleBlock
<1> QED BY <1>2, BlocksJoin DEF Gate, e

LEMMA ParseBlock ==
    ASSUME NEW k \in Knobs
    PROVE  Parse(k) \in Blocks(k) /\ 1 \in DOMAIN Parse(k)
           /\ Parse(k)[1] = [op |-> "parse", knobs |-> k]
<1> DEFINE e == [op |-> "parse", knobs |-> k]
<1>1. e \in Item /\ e.op = "parse" /\ e.knobs = k
  BY DEF Item
<1> HIDE DEF e
<1>2. <<e>> \in Blocks(k) /\ 1 \in DOMAIN <<e>> /\ <<e>>[1] = e
  BY <1>1, SingleBlock
<1> QED BY <1>2 DEF Parse, e

LEMMA GoalBlock ==
    ASSUME NEW k \in Knobs, NEW d \in Dirs
    PROVE  Goal(d, k) \in Blocks(k)
<1> DEFINE e == [op |-> "goal", dir |-> d, knobs |-> k]
<1>1. e \in Item /\ e.op = "goal" /\ e.knobs = k
  BY DEF Item
<1> HIDE DEF e
<1>2. <<e>> \in Blocks(k)
  BY <1>1, SingleBlock
<1> QED BY <1>2 DEF Goal, e

LEMMA GateConstants ==
    /\ "lib" \in Dirs /\ "lib-aead-only" \in Dirs /\ "lib-app-owned" \in Dirs
    /\ "lib-compact" \in Dirs /\ "profile-a" \in Dirs /\ "profile-b" \in Dirs
    /\ "profile-compact" \in Dirs
    /\ {} \in Knobs /\ A \in Knobs /\ Consumer \in Knobs /\ Compact \in Knobs
    /\ A # {}
    /\ "zp" \in Gates /\ "knobs" \in Gates /\ "resident" \in Gates
    /\ "hygiene" \in Gates /\ "routing" \in Gates /\ "isolation" \in Gates
<1>1. GateDirs \subseteq Dirs /\ GateKnobs \subseteq Knobs
  BY CommandsAssumption
<1>2. {} \in GateKnobs /\ A \in GateKnobs /\ Consumer \in GateKnobs /\ Compact \in GateKnobs
  BY DEF GateKnobs
<1> QED BY <1>1, <1>2 DEF GateDirs, A, Gates

LEMMA ZpBlock == ASSUME NEW k \in Knobs PROVE ZpGate(k) \in Blocks(k)
<1> DEFINE e == [op |-> "goal", dir |-> "lib", knobs |-> k]
           f == [op |-> "inspect", gate |-> "zp", dir |-> "lib", knobs |-> k]
           u == Goal("lib", k) \o Inspect("zp", "lib", k)
<1>1. /\ u \in Seq(Item) /\ DOMAIN u = 1 .. 2
      /\ u[1] = e /\ u[2] = f /\ BuiltFor(u[1], u[2])
  BY MadeThenInspected, GateConstants, Zenon DEF Goal
<1>2. e.op = "goal" /\ f.op = "inspect" /\ e.knobs = k
  OBVIOUS
<1> HIDE DEF e, f, u
<1>3. \A i \in 1 .. 2 : i = 1 \/ i = 2
  OBVIOUS
<1>4. /\ u[1].op = "goal" /\ u[2].op = "inspect" /\ u[1].knobs = k
      /\ 2 - 1 = 1
  BY <1>1, <1>2
<1>5. \A i : ~Inside(u, i)
  BY <1>1, <1>3, <1>4 DEF Inside
<1>6. \A i \in DOMAIN u : ~Spoils(u, i, k) /\ u[i].op # "copy"
  BY <1>1, <1>3, <1>4 DEF Spoils
<1>7. Paired(u)
  BY <1>5, <1>6 DEF Paired
<1>8. Restored(u)
  BY <1>1, <1>3, <1>4 DEF Restored, Spoils
<1>9. \A i \in DOMAIN u : /\ Inspects(u[i]) => i > 1 /\ BuiltFor(u[i - 1], u[i])
                          /\ u[i].op = "goal" => u[i].knobs = k
  BY <1>1, <1>3, <1>4 DEF Inspects
<1>10. u \in Blocks(k)
  BY <1>1, <1>5, <1>6, <1>7, <1>8, <1>9 DEF Blocks
<1> QED BY <1>10, EndBlock, GateConstants DEF ZpGate, u

LEMMA CopyOpens == Do("copy") \in Opened
<1> DEFINE e == [op |-> "copy"]
           t == <<e>>
<1>1. t \in Seq(Item) /\ DOMAIN t = {1} /\ t[1] = e /\ e.op = "copy"
  BY DEF Item
<1> HIDE DEF e, t
<1>2. t \in Opened
  BY <1>1 DEF Opened, Legged
<1> QED BY <1>2 DEF t, e, Do

LEMMA KnobBlock == ASSUME NEW k \in Knobs PROVE KnobGate(k) \in Blocks(k)
<1> DEFINE b == BuildAndDump("lib", k)
           a == BuildAndDump("lib", A)
           j == Judge("knobs")
           c == Do("copy")
           d == Do("discard")
<1>1. b \in LegSeqs /\ a \in LegSeqs /\ j \in LegSeqs /\ c \in Opened
  BY LegPieces, GateConstants, CopyOpens
<1>2. KnobGate(k) = Gate("knobs", c \o b \o a \o a \o b \o j \o d)
  BY DEF KnobGate
<1> HIDE DEF a, b, c, j
<1>3. c \o b \o a \o a \o b \o j \in Opened
  BY <1>1, OpenedJoin
<1>4. c \o b \o a \o a \o b \o j \o d \in Blocks(k)
  BY <1>3, OpenedThenDiscard
<1> QED BY <1>2, <1>4, EndBlock, GateConstants

LEMMA ResidentBlock == ASSUME NEW k \in Knobs PROVE ResidentGate(k) \in Blocks(k)
<1>1. \A l \in Knobs : AllVariants(l) \in LegSeqs /\ LibUnder(l) \in LegSeqs
  BY LegPieces, LegsJoin, GateConstants DEF AllVariants, LibUnder
<1>2. /\ {"SHARED_SQTAB_INIT"} \in Knobs /\ {"SHARED_CT_MUL_8X8"} \in Knobs
      /\ {"POLY1305_MULTIPLY_ROLLED"} \in Knobs /\ {"CHACHA20_USE_WORD32"} \in Knobs
  BY CommandsAssumption DEF GateKnobs
<1> DEFINE l1 == AllVariants({})
           l2 == AllVariants(A)
           l3 == LibUnder(Consumer)
           l4 == LibUnder({"SHARED_SQTAB_INIT"})
           l5 == LibUnder({"SHARED_CT_MUL_8X8"})
           l6 == LibUnder({"POLY1305_MULTIPLY_ROLLED"})
           l7 == LibUnder({"CHACHA20_USE_WORD32"})
           l8 == BuildAndInspect("resident", "lib-compact", k)
           l9 == LibUnder(Compact)
           l10 == BuildAndInspect("resident", "lib-aead-only", Compact)
<1>3. /\ l1 \in LegSeqs /\ l2 \in LegSeqs /\ l3 \in LegSeqs /\ l4 \in LegSeqs
      /\ l5 \in LegSeqs /\ l6 \in LegSeqs /\ l7 \in LegSeqs /\ l8 \in LegSeqs
      /\ l9 \in LegSeqs /\ l10 \in LegSeqs
  BY <1>1, <1>2, LegPieces, GateConstants
<1>4. ResidentLegs(k) = l1 \o l2 \o l3 \o l4 \o l5 \o l6 \o l7 \o l8 \o l9 \o l10
  BY Zenon DEF ResidentLegs
<1> HIDE DEF l1, l2, l3, l4, l5, l6, l7, l8, l9, l10
<1>5. ResidentLegs(k) \in LegSeqs
  BY <1>3, <1>4, LegsJoin
<1>6. ResidentLegs(k) \o Sub("lib", k) \in Blocks(k)
  BY <1>5, LegsThenLib, GateConstants
<1> QED BY <1>6, EndBlock, GateConstants DEF ResidentGate

LEMMA HygieneBlock == ASSUME NEW k \in Knobs PROVE HygieneGate(k) \in Blocks(k)
<1> DEFINE l(d, c) == BuildAndInspect("hygiene", d, c)
           l1 == l("profile-a", k)
           l2 == l("profile-b", k)
           l3 == l("lib", k)
           l4 == l("lib-aead-only", k)
           l5 == l("lib-app-owned", k)
           l6 == l("lib", Consumer)
           l7 == l("profile-compact", k)
           l8 == l("lib-compact", k)
           s == Sub("lib", k)
<1>1. /\ l1 \in LegSeqs /\ l2 \in LegSeqs /\ l3 \in LegSeqs /\ l4 \in LegSeqs
      /\ l5 \in LegSeqs /\ l6 \in LegSeqs /\ l7 \in LegSeqs /\ l8 \in LegSeqs
  BY LegPieces, GateConstants
<1>2. HygieneGate(k)
        = Gate("hygiene", l1 \o l2 \o l3 \o l4 \o l5 \o l6 \o l7 \o l8 \o s)
  BY Zenon DEF HygieneGate
<1> HIDE DEF l1, l2, l3, l4, l5, l6, l7, l8
<1>3. l1 \o l2 \o l3 \o l4 \o l5 \o l6 \o l7 \o l8 \in LegSeqs
  BY <1>1, LegsJoin
<1>4. l1 \o l2 \o l3 \o l4 \o l5 \o l6 \o l7 \o l8 \o s \in Blocks(k)
  BY <1>3, LegsThenLib, GateConstants
<1> QED BY <1>2, <1>4, EndBlock, GateConstants

LEMMA RoutingBlock == ASSUME NEW k \in Knobs PROVE RoutingGate(k) \in Blocks(k)
<1> DEFINE e == [op |-> "inspect", gate |-> "routing", dir |-> "lib", knobs |-> k]
<1>1. e \in Item /\ e.op = "inspect" /\ e.gate = "routing"
  BY GateConstants DEF Item
<1> HIDE DEF e
<1>2. <<e>> \in Blocks(k)
  BY <1>1, SingleBlock
<1> QED BY <1>2, EndBlock, GateConstants DEF RoutingGate, Inspect, e

LEMMA ProfileLegs ==
    ASSUME NEW k \in Knobs, NEW profile \in {{}, A}
    PROVE  ProfilePass(k, profile) \in LegSeqs
<1> DEFINE plain == IF profile = {} THEN k ELSE profile
           l1 == BuildAndDump("lib", plain)
           l2 == BuildAndDump("lib", profile \cup {"LIB_NO_BARE_EXPORTS"})
           l3 == BuildAndDump("lib", profile \cup Deferred)
           l4 == Sub("lib", k)
           l5 == BuildAndDump("lib-aead-only", plain)
           l6 == BuildAndDump("lib-app-owned", plain)
           l7 == BuildAndDump("lib-compact", plain)
           l8 == IF profile = {} THEN l7 ELSE <<>>
           j == Judge("isolation")
<1>1. /\ plain \in Knobs /\ profile \cup {"LIB_NO_BARE_EXPORTS"} \in Knobs
      /\ profile \cup Deferred \in Knobs
  <2>1. {} \cup Deferred = Deferred /\ {} \cup {"LIB_NO_BARE_EXPORTS"} = {"LIB_NO_BARE_EXPORTS"}
    OBVIOUS
  <2> QED BY <2>1, CommandsAssumption, GateConstants DEF GateKnobs
<1>2. <<>> \in LegSeqs
  BY DEF LegSeqs, Legged
<1> HIDE DEF plain
<1>3. /\ l1 \in LegSeqs /\ l2 \in LegSeqs /\ l3 \in LegSeqs /\ l4 \in LegSeqs
      /\ l5 \in LegSeqs /\ l6 \in LegSeqs /\ l7 \in LegSeqs /\ j \in LegSeqs
  BY <1>1, LegPieces, GateConstants
<1>4. l8 \in LegSeqs
  BY <1>2, <1>3
<1>5. ProfilePass(k, profile)
        = l1 \o l2 \o l3 \o l4 \o l1 \o l5 \o l6 \o l8 \o j
  BY Zenon DEF ProfilePass, plain
<1> HIDE DEF l1, l2, l3, l4, l5, l6, l8, j
<1> QED BY <1>3, <1>4, <1>5, LegsJoin

LEMMA IsolationBlock == ASSUME NEW k \in Knobs PROVE IsolationGate(k) \in Blocks(k)
<1> DEFINE b == ProfilePass(k, {})
           a == ProfilePass(k, A)
           c == Do("copy")
           d == Do("discard")
<1>1. b \in LegSeqs /\ a \in LegSeqs /\ c \in Opened
  BY ProfileLegs, CopyOpens
<1>2. IsolationGate(k) = Gate("isolation", c \o b \o a \o d)
  BY DEF IsolationGate
<1> HIDE DEF a, b, c
<1>3. c \o b \o a \in Opened
  BY <1>1, OpenedJoin
<1>4. c \o b \o a \o d \in Blocks(k)
  BY <1>3, OpenedThenDiscard
<1> QED BY <1>2, <1>4, EndBlock, GateConstants

LEMMA RecipesBlock ==
    ASSUME NEW k \in Knobs, NEW goal \in Dirs \cup GateGoals
    PROVE  Recipes(goal, k) \in Blocks(k)
<1> DEFINE p == Parse(k)
           z == ZpGate(k)
           n == KnobGate(k)
           r == ResidentGate(k)
           h == HygieneGate(k)
           o == RoutingGate(k)
           i == IsolationGate(k)
<1>1. /\ p \in Blocks(k) /\ z \in Blocks(k) /\ n \in Blocks(k) /\ r \in Blocks(k)
      /\ h \in Blocks(k) /\ o \in Blocks(k) /\ i \in Blocks(k)
  BY ParseBlock, ZpBlock, KnobBlock, ResidentBlock, HygieneBlock, RoutingBlock, IsolationBlock
<1>2. VerifyGoal(k) = p \o z \o p \o n \o p \o r \o p \o h \o p \o o \o p \o i
  BY Zenon DEF VerifyGoal
<1> HIDE DEF p, z, n, r, h, o, i
<1>3. VerifyGoal(k) \in Blocks(k)
  <2>1. \A s, t \in Blocks(k) : s \o t \in Blocks(k)
    BY BlocksJoin
  <2>2. p \o z \o p \o n \o p \o r \in Blocks(k)
    BY <1>1, <2>1
  <2>3. p \o z \o p \o n \o p \o r \o p \o h \o p \in Blocks(k)
    BY <1>1, <2>1, <2>2
  <2> QED BY <1>1, <1>2, <2>1, <2>3
<1> USE DEF p, z, n, r, h, o, i
<1>4. CASE goal \in GateGoals
  BY <1>1, <1>3, <1>4 DEF Recipes, GateGoals
<1>5. CASE goal \notin GateGoals
  BY <1>5, GoalBlock DEF Recipes, GateGoals
<1> QED BY <1>4, <1>5

\* A script begins by parsing the Makefile under the command line's knobs.
Begun(k) == {s \in Blocks(k) : 1 \in DOMAIN s /\ s[1] = [op |-> "parse", knobs |-> k]}

LEMMA BegunJoin ==
    ASSUME NEW k, NEW s \in Begun(k), NEW t \in Blocks(k)
    PROVE  s \o t \in Begun(k)
<1> DEFINE u == s \o t
<1>1. u \in Blocks(k)
  BY BlocksJoin DEF Begun
<1>2. \E n, m : Joined(u, s, t, n, m)
  BY Join DEF Begun, Blocks
<1> HIDE DEF u
<1>3. 1 \in DOMAIN u /\ u[1] = s[1]
  <2>1. PICK n, m : Joined(u, s, t, n, m)
    BY <1>2
  <2>2. 1 \in 1 .. n /\ n \in Nat /\ m \in Nat
    BY <2>1 DEF Joined, Begun
  <2>3. 1 \in 1 .. n + m
    BY <2>2
  <2> QED BY <2>1, <2>2, <2>3 DEF Joined
<1>4. u \in Begun(k)
  BY <1>1, <1>3 DEF Begun
<1> QED BY <1>4 DEF u

\* A script is what its command's goals have for recipes, one after another.
LEMMA CommandRest ==
    ASSUME NEW c \in Commands
    PROVE  /\ Len(c.goals) \in Nat /\ Command(c) \in Begun(c.knobs)
           /\ \E rest : /\ Command(c) = rest[Len(c.goals)] /\ rest[0] = Parse(c.knobs)
                       /\ \A i \in 1 .. Len(c.goals) :
                            rest[i] = rest[i - 1] \o Recipes(c.goals[i], c.knobs)
<1> DEFINE k == c.knobs
           N == Len(c.goals)
           X == Begun(k)
           x0 == Parse(k)
           r(i) == Recipes(c.goals[i], k)
           F == [i \in 1 .. N |-> [s \in X |-> s \o r(i)]]
           unfold(g) == [i \in 0 .. N |->
                         IF i = 0 THEN Parse(c.knobs)
                         ELSE g[i - 1] \o Recipes(c.goals[i], c.knobs)]
           rest == CHOOSE g : g = unfold(g)
<1>1. k \in Knobs /\ c.goals \in Seq(Dirs \cup GateGoals)
  BY CommandsAssumption
<1>2. N \in Nat /\ \A i \in 1 .. N : c.goals[i] \in Dirs \cup GateGoals
  BY <1>1, LenProperties, ElementOfSeq
<1>3. x0 \in X
  BY <1>1, ParseBlock DEF Begun
<1>4. \A i \in 1 .. N : r(i) \in Blocks(k)
  <2> HIDE DEF k, N
  <2> QED BY <1>1, <1>2, RecipesBlock
<1>5. \A i \in 1 .. N, s \in X : s \o r(i) \in X
  BY <1>4, BegunJoin
<1>6. F \in [1 .. N -> [X -> X]]
  <2> HIDE DEF X, r
  <2> QED BY <1>5
<1>7. PICK p \in [0 .. N -> X] : Iterates(p, x0, F, N)
  <2> HIDE DEF X, x0, F, N
  <2> QED BY <1>2, <1>3, <1>6, Iteration
<1>8. \A i \in 0 .. N : p[i] = IF i = 0 THEN x0 ELSE p[i - 1] \o r(i)
  <2> HIDE DEF X, x0, r, N
  <2> TAKE i \in 0 .. N
  <2>1. CASE i # 0
    <3>1. i \in 1 .. N /\ i - 1 \in 0 .. N
      BY <1>2, <2>1
    <3>2. p[i] = F[i][p[i - 1]] /\ p[i - 1] \in X
      BY <1>7, <3>1 DEF Iterates
    <3> QED BY <2>1, <3>1, <3>2
  <2> QED BY <1>7, <2>1 DEF Iterates
<1>9. p = unfold(p)
  BY <1>8
<1>10. rest = unfold(rest)
  <2> HIDE DEF unfold
  <2> QED BY <1>9
<1>11. Command(c) = rest[N]
  BY DEF Command
<1> HIDE DEF rest
<1>12. rest[0] = x0 /\ \A i \in 1 .. N : rest[i] = rest[i - 1] \o r(i)
  <2>1. \A i \in 0 .. N : rest[i] = IF i = 0 THEN x0 ELSE rest[i - 1] \o r(i)
    BY <1>10
  <2>2. 0 \in 0 .. N /\ \A i \in 1 .. N : i \in 0 .. N /\ i # 0
    BY <1>2
  <2> HIDE DEF x0, r, N
  <2> QED BY <2>1, <2>2
<1>13. N \in {n \in Nat : n <= N => rest[n] \in X}
  <2> DEFINE S == {n \in Nat : n <= N => rest[n] \in X}
  <2>1. 0 \in S
    BY <1>3, <1>12
  <2>2. ASSUME NEW n \in Nat, n \in S PROVE n + 1 \in S
    <3> SUFFICES ASSUME n + 1 <= N PROVE rest[n + 1] \in X
      OBVIOUS
    <3>1. n + 1 \in 1 .. N /\ (n + 1) - 1 = n /\ n <= N
      BY <1>2
    <3>2. rest[n + 1] = rest[n] \o r(n + 1) /\ rest[n] \in X
      BY <1>12, <2>2, <3>1
    <3> HIDE DEF X, r, N
    <3> QED BY <1>5, <3>1, <3>2
  <2> HIDE DEF S
  <2>3. Nat \subseteq S
    BY <2>1, <2>2, NatSetInduction
  <2> QED BY <1>2, <2>3 DEF S
<1>14. Command(c) \in X
  BY <1>2, <1>11, <1>13
<1> HIDE DEF X
<1>15. \E g : /\ Command(c) = g[N] /\ g[0] = x0
              /\ \A i \in 1 .. N : g[i] = g[i - 1] \o r(i)
  BY <1>11, <1>12
<1> USE DEF X
<1> QED BY <1>2, <1>14, <1>15

-----------------------------------------------------------------------------
(* A script is worked off from its head.                                    *)

LEMMA TailParts ==
    ASSUME NEW s \in Seq(Item), s # <<>>
    PROVE  /\ Tail(s) \in Seq(Item) /\ Head(s) = s[1] /\ s[1] \in Item /\ 1 \in DOMAIN s
           /\ \E n \in Nat : /\ DOMAIN s = 1 .. n + 1 /\ DOMAIN Tail(s) = 1 .. n
                             /\ \A i \in 1 .. n : Tail(s)[i] = s[i + 1]
<1> DEFINE t == Tail(s)
           m == Len(s)
           l == Len(t)
<1>1. m \in Nat /\ DOMAIN s = 1 .. m
  BY LenProperties
<1>2. /\ Head(s) \in Item /\ Head(s) = s[1] /\ t \in Seq(Item) /\ l = m - 1
      /\ \A i \in 1 .. l : t[i] = s[i + 1]
  BY HeadTailProperties
<1>3. DOMAIN t = 1 .. l /\ l \in Nat
  BY <1>2, LenProperties
<1> HIDE DEF t, m, l
<1>4. m = l + 1 /\ 1 \in 1 .. m
  BY <1>1, <1>2, <1>3
<1>5. t \in Seq(Item) /\ \E n \in Nat : /\ DOMAIN s = 1 .. n + 1 /\ DOMAIN t = 1 .. n
                                        /\ \A i \in 1 .. n : t[i] = s[i + 1]
  BY <1>1, <1>2, <1>3, <1>4
<1> QED BY <1>1, <1>2, <1>4, <1>5 DEF t

LEMMA TailInside ==
    ASSUME NEW s, NEW t, NEW n \in Nat, DOMAIN s = 1 .. n + 1, DOMAIN t = 1 .. n,
           \A i \in 1 .. n : t[i] = s[i + 1], NEW i \in Nat
    PROVE  Inside(t, i) <=> Inside(s, i + 1)
<1>1. ASSUME Inside(t, i) PROVE Inside(s, i + 1)
  <2>1. PICK d \in 1 .. n : /\ d > i /\ t[d].op = "discard"
                            /\ \A c \in 1 .. n : i < c /\ c < d => t[c].op # "copy"
    BY <1>1 DEF Inside
  <2>2. d + 1 \in 1 .. n + 1 /\ d + 1 > i + 1 /\ s[d + 1].op = "discard"
    BY <2>1
  <2>3. ASSUME NEW c \in 1 .. n + 1, i + 1 < c, c < d + 1 PROVE s[c].op # "copy"
    <3>1. c - 1 \in 1 .. n /\ i < c - 1 /\ c - 1 < d /\ (c - 1) + 1 = c
      BY <2>3
    <3> QED BY <2>1, <3>1
  <2> QED BY <2>2, <2>3 DEF Inside
<1>2. ASSUME Inside(s, i + 1) PROVE Inside(t, i)
  <2>1. PICK d \in 1 .. n + 1 :
             /\ d > i + 1 /\ s[d].op = "discard"
             /\ \A c \in 1 .. n + 1 : i + 1 < c /\ c < d => s[c].op # "copy"
    BY <1>2 DEF Inside
  <2>2. d - 1 \in 1 .. n /\ d - 1 > i /\ (d - 1) + 1 = d
    BY <2>1
  <2>3. ASSUME NEW c \in 1 .. n, i < c, c < d - 1 PROVE t[c].op # "copy"
    <3>1. c + 1 \in 1 .. n + 1 /\ i + 1 < c + 1 /\ c + 1 < d
      BY <2>1, <2>3
    <3> QED BY <2>1, <3>1
  <2>4. t[d - 1].op = "discard"
    BY <2>1, <2>2
  <2> QED BY <2>2, <2>3, <2>4 DEF Inside
<1> QED BY <1>1, <1>2

\* What is left of a script is one.
LEMMA TailKeeps ==
    ASSUME NEW s, NEW t, NEW n \in Nat, DOMAIN s = 1 .. n + 1, DOMAIN t = 1 .. n,
           \A i \in 1 .. n : t[i] = s[i + 1],
           Paired(s), Prepared(s), Restored(s)
    PROVE  /\ Paired(t) /\ Prepared(t) /\ Restored(t)
           /\ \A i \in 1 .. n : \A k : Renews(t, i, k) <=> Renews(s, i + 1, k)
<1>1. \A i \in 1 .. n : Inside(t, i) <=> Inside(s, i + 1)
  BY TailInside
<1>2. ASSUME NEW i \in 1 .. n, NEW k
      PROVE  /\ Renews(t, i, k) <=> Renews(s, i + 1, k)
             /\ Spoils(t, i, k) <=> Spoils(s, i + 1, k)
  BY <1>1 DEF Renews, Spoils
<1>3. \A i \in 1 .. n : i + 1 \in 1 .. n + 1
  OBVIOUS
<1>4. Paired(t)
  BY <1>1, <1>3 DEF Paired
<1>5. Prepared(t)
  <2> SUFFICES ASSUME NEW i \in 1 .. n, i > 1, Inspects(t[i]) PROVE BuiltFor(t[i - 1], t[i])
    BY DEF Prepared
  <2>1. /\ i - 1 \in 1 .. n /\ (i - 1) + 1 = i /\ (i + 1) - 1 = i
        /\ i + 1 \in 1 .. n + 1 /\ i + 1 > 1
    OBVIOUS
  <2>2. t[i - 1] = s[(i + 1) - 1] /\ t[i] = s[i + 1]
    BY <2>1
  <2> QED BY <2>1, <2>2 DEF Prepared
<1>6. Restored(t)
  <2> SUFFICES ASSUME NEW i \in 1 .. n, NEW j \in 1 .. n,
                      i < j, t[j].op = "goal", Spoils(t, i, t[j].knobs)
               PROVE  \E l \in 1 .. n : i < l /\ l < j /\ Renews(t, l, t[j].knobs)
    BY DEF Restored
  <2>1. /\ i + 1 \in 1 .. n + 1 /\ j + 1 \in 1 .. n + 1 /\ i + 1 < j + 1
        /\ t[j] = s[j + 1]
    OBVIOUS
  <2>2. PICK l \in 1 .. n + 1 :
             i + 1 < l /\ l < j + 1 /\ Renews(s, l, s[j + 1].knobs)
    BY <1>2, <2>1 DEF Restored
  <2>3. l - 1 \in 1 .. n /\ i < l - 1 /\ l - 1 < j /\ (l - 1) + 1 = l
    BY <2>2
  <2>4. Renews(t, l - 1, t[j].knobs)
    BY <1>2, <2>1, <2>2, <2>3
  <2> QED BY <2>3, <2>4
<1> QED BY <1>2, <1>4, <1>5, <1>6

LEMMA HeadInside ==
    ASSUME NEW s, s[1].op \notin {"copy", "discard"}, NEW n \in Nat, DOMAIN s = 1 .. n
    PROVE  Inside(s, 0) <=> Inside(s, 1)
<1>1. ASSUME Inside(s, 0) PROVE Inside(s, 1)
  <2>1. PICK d \in 1 .. n : /\ d > 0 /\ s[d].op = "discard"
                            /\ \A c \in 1 .. n : 0 < c /\ c < d => s[c].op # "copy"
    BY <1>1 DEF Inside
  <2>2. d # 1
    BY <2>1
  <2>3. d > 1 /\ \A c \in 1 .. n : 1 < c => 0 < c
    BY <2>1, <2>2
  <2> QED BY <2>1, <2>3 DEF Inside
<1>2. ASSUME Inside(s, 1) PROVE Inside(s, 0)
  <2>1. PICK d \in 1 .. n : /\ d > 1 /\ s[d].op = "discard"
                            /\ \A c \in 1 .. n : 1 < c /\ c < d => s[c].op # "copy"
    BY <1>2 DEF Inside
  <2>2. d > 0
    BY <2>1
  <2>3. ASSUME NEW c \in 1 .. n, 0 < c, c < d PROVE s[c].op # "copy"
    <3>1. c = 1 \/ 1 < c
      OBVIOUS
    <3> QED BY <2>1, <2>3, <3>1
  <2> QED BY <2>1, <2>2, <2>3 DEF Inside
<1> QED BY <1>1, <1>2

LEMMA AdvanceScript ==
    ASSUME ScriptInv, script # <<>>, script' = Tail(script),
           (aside' # NoTree) <=> Inside(script, 1)
    PROVE  ScriptInv'
<1>1. script \in Seq(Item) /\ Paired(script) /\ Prepared(script) /\ Restored(script)
  BY DEF ScriptInv
<1>2. /\ script' \in Seq(Item)
      /\ \E n \in Nat : /\ DOMAIN script = 1 .. n + 1 /\ DOMAIN script' = 1 .. n
                        /\ \A i \in 1 .. n : script'[i] = script[i + 1]
  BY <1>1, TailParts
<1>3. Paired(script') /\ Prepared(script') /\ Restored(script')
  BY <1>1, <1>2, TailKeeps
<1>4. Inside(script', 0) <=> Inside(script, 0 + 1)
  BY <1>2, TailInside
<1>5. 0 + 1 = 1
  OBVIOUS
<1>6. aside' # NoTree <=> Inside(script', 0)
  BY <1>4, <1>5
<1>7. Paired(script)' /\ Prepared(script)' /\ Restored(script)' /\ (Inside(script, 0)' <=> Inside(script', 0))
  BY <1>3 DEF Paired, Prepared, Restored, Inside, Renews, Spoils, BuiltFor, Inspects
<1> QED BY <1>2, <1>6, <1>7 DEF ScriptInv, NoTree, Item

LEMMA AdvanceGoals ==
    ASSUME ScriptInv, GoalsReady, script # <<>>, script' = Tail(script),
           \A k : Ready(k) \/ Renews(script, 1, k) => Ready(k)'
    PROVE  GoalsReady'
<1>1. script \in Seq(Item) /\ Paired(script) /\ Prepared(script) /\ Restored(script)
  BY DEF ScriptInv
<1>2. PICK n \in Nat : /\ DOMAIN script = 1 .. n + 1 /\ DOMAIN script' = 1 .. n
                       /\ \A i \in 1 .. n : script'[i] = script[i + 1]
  BY <1>1, TailParts
<1>3. \A i \in 1 .. n : \A k : Renews(script', i, k) <=> Renews(script, i + 1, k)
  BY <1>1, <1>2, TailKeeps
<1>4. ASSUME NEW j \in 1 .. n, NEW k \in Knobs, script'[j].op = "goal", script'[j].knobs = k
      PROVE  Ready(k)' \/ \E l \in 1 .. n : l < j /\ Renews(script', l, k)
  <2>1. j + 1 \in DOMAIN script /\ script[j + 1].op = "goal" /\ k = script[j + 1].knobs
    BY <1>2, <1>4
  <2>2. CASE Ready(k)
    BY <2>2
  <2>3. CASE \E l \in 1 .. n + 1 : l < j + 1 /\ Renews(script, l, k)
    <3>1. PICK l \in 1 .. n + 1 : l < j + 1 /\ Renews(script, l, k)
      BY <2>3
    <3>2. CASE l = 1
      BY <3>1, <3>2
    <3>3. CASE l # 1
      <4>1. l - 1 \in 1 .. n /\ l - 1 < j /\ (l - 1) + 1 = l
        BY <3>1, <3>3
      <4>2. Renews(script', l - 1, k)
        BY <1>3, <3>1, <4>1
      <4> QED BY <4>1, <4>2
    <3> QED BY <3>2, <3>3
  <2> QED BY <1>2, <2>1, <2>2, <2>3 DEF GoalsReady
<1>5. ASSUME NEW l, NEW k PROVE Renews(script, l, k)' <=> Renews(script', l, k)
  BY DEF Renews, Inside
<1>6. ASSUME NEW j \in DOMAIN script', NEW k \in Knobs,
             script'[j].op = "goal" /\ script'[j].knobs = k
      PROVE  Ready(k)' \/ \E l \in DOMAIN script' : l < j /\ Renews(script, l, k)'
  BY <1>2, <1>4, <1>5, <1>6
<1> QED BY <1>6 DEF GoalsReady

-----------------------------------------------------------------------------
(* The steps.                                                               *)

LEMMA ItemParts ==
    ASSUME NEW e \in Item
    PROVE  /\ e.op \in {"parse", "goal", "sub", "inspect"} => e.knobs \in Knobs
           /\ e.op \in {"goal", "sub", "inspect"} => e.dir \in Dirs
BY DEF Item

\* What the invariant says of the script's head.
LEMMA AtHead ==
    ASSUME ScriptInv, script # <<>>
    PROVE  /\ Head(script) = script[1] /\ script[1] \in Item /\ 1 \in DOMAIN script
           /\ \E n \in Nat : DOMAIN script = 1 .. n
           /\ script[1].op \in {"parse", "goal", "sub", "inspect"} => script[1].knobs \in Knobs
           /\ script[1].op \in {"goal", "sub", "inspect"} => script[1].dir \in Dirs
           /\ script[1].op \notin {"copy", "discard"} => (aside # NoTree <=> Inside(script, 1))
           /\ script[1].op = "copy" => Inside(script, 1)
           /\ script[1].op \in {"discard", "goal"} => ~Inside(script, 1)
<1>1. /\ script \in Seq(Item) /\ Paired(script) /\ (aside # NoTree <=> Inside(script, 0))
  BY DEF ScriptInv
<1>2. /\ Head(script) = script[1] /\ script[1] \in Item /\ 1 \in DOMAIN script
      /\ \E n \in Nat : DOMAIN script = 1 .. n
  <2>1. \A n \in Nat : n + 1 \in Nat
    OBVIOUS
  <2> QED BY <1>1, <2>1, TailParts
<1>3. script[1].op \notin {"copy", "discard"} => (Inside(script, 0) <=> Inside(script, 1))
  BY <1>2, HeadInside
<1> QED BY <1>1, <1>2, <1>3, ItemParts DEF Paired

\* A goal at the head finds the caller's tree ready.
LEMMA GoalAtHead ==
    ASSUME ScriptInv, GoalsReady, script # <<>>, script[1].op = "goal"
    PROVE  Ready(script[1].knobs) /\ aside = NoTree /\ stored = script[1].knobs
<1>1. 1 \in DOMAIN script /\ script[1].knobs \in Knobs /\ aside = NoTree
  BY AtHead
<1>2. \A l \in DOMAIN script : ~(l < 1)
  <2>1. \E n \in Nat : DOMAIN script = 1 .. n
    BY AtHead
  <2> QED BY <2>1
<1>3. Ready(script[1].knobs)
  BY <1>1, <1>2 DEF GoalsReady
<1> QED BY <1>1, <1>3 DEF Ready, CallersStamp

\* A step that leaves the script and the caller's tree alone.
LEMMA ScriptSame ==
    ASSUME ScriptInv, AsideKeyed, script' = script, aside' = aside
    PROVE  ScriptInv' /\ AsideKeyed'
BY DEF ScriptInv, AsideKeyed, Paired, Prepared, Restored, Inside, Renews, Spoils, BuiltFor,
       Inspects, Item, NoTree, Object

LEMMA ReadySame ==
    ASSUME CallersStamp' = CallersStamp,
           "lib" \in memo' => "lib" \in memo /\ CallersLib' = CallersLib,
           version' = version, NEW k, Ready(k)
    PROVE  Ready(k)'
BY DEF Ready, Fresh

LEMMA GoalsSame ==
    ASSUME GoalsReady, script' = script, aside' = aside, memo' = memo, stored' = stored,
           objs' = objs, version' = version
    PROVE  GoalsReady'
<1>1. ASSUME NEW k, Ready(k) PROVE Ready(k)'
  BY <1>1, ReadySame DEF CallersStamp, CallersLib
<1>2. ASSUME NEW l, NEW k PROVE Renews(script, l, k)' <=> Renews(script, l, k)
  BY DEF Renews, Inside
<1> QED BY <1>1, <1>2 DEF GoalsReady

LEMMA StartMakeKeeps ==
    ASSUME Sound, src.guard = "stamp", StartMake
    PROVE  Sound'
<1> USE DEF Sound
<1>1. script # <<>> /\ step = "idle" /\ Head(script).op \in {"sub", "parse", "goal"}
  BY DEF StartMake, Now
<1>2. /\ Head(script) = script[1] /\ script[1].knobs \in Knobs
      /\ script[1].op # "parse" => script[1].dir \in Dirs
  BY <1>1, AtHead
<1>3. UNCHANGED gateVars
  BY DEF StartMake
<1> DEFINE d == IF script[1].op = "parse" THEN "lib" ELSE script[1].dir
           k == script[1].knobs
<1>4. d \in Dirs /\ k \in Knobs
  BY <1>2, GateConstants
<1>5. Begin(d, k, SameKnobs(k))
  <2>1. CASE Head(script).op \in {"sub", "parse"}
    <3>1. Begin(d, k, Keep(k))
      BY <1>2, <2>1 DEF StartMake, Now
    <3>2. Keep(k) <=> SameKnobs(k)
      BY DEF Keep
    <3> QED BY <3>1, <3>2 DEF Begin, SameKnobs
  <2>2. CASE Head(script).op = "goal"
    <3>1. Begin(d, k, TRUE)
      BY <1>2, <2>2 DEF StartMake, Now
    <3>2. SameKnobs(k)
      BY <1>1, <1>2, <2>2, GoalAtHead DEF SameKnobs
    <3> QED BY <3>1, <3>2 DEF Begin, SameKnobs
  <2> QED BY <1>1, <2>1, <2>2
<1>6. TreeInv'
  <2> HIDE DEF d, k
  <2> QED BY <1>4, <1>5, BeginInv
<1>7. /\ stored' = stored /\ objs' = objs /\ version' = version
      /\ step' = IF stored = k THEN "compile" ELSE "objects"
      /\ knobs' = k /\ dir' = d
      /\ script' = script /\ aside' = aside /\ memo' = memo
  BY <1>3, <1>5 DEF Begin, SameKnobs, gateVars
<1>8. ScriptInv' /\ AsideKeyed' /\ GoalsReady'
  BY <1>7, ScriptSame, GoalsSame
<1>9. Running'
  <2>1. Head(script).op = "goal" => dir' \notin memo
    BY <1>1, <1>2, <1>7 DEF StartMake, Now
  <2> QED BY <1>1, <1>2, <1>7, <2>1 DEF Running
<1>10. MakeStamp' /\ InspectsRequested'
  BY <1>7 DEF MakeStamp, InspectsRequested, Now
<1> QED BY <1>6, <1>8, <1>9, <1>10

LEMMA SecondEntry ==
    ASSUME NEW s \in Seq(Item), s # <<>>, Tail(s) # <<>>
    PROVE  2 \in DOMAIN s /\ Head(Tail(s)) = s[2]
<1> DEFINE t == Tail(s)
<1>1. PICK n \in Nat : /\ DOMAIN s = 1 .. n + 1 /\ DOMAIN t = 1 .. n
                       /\ \A i \in 1 .. n : t[i] = s[i + 1]
  BY TailParts
<1>2. t \in Seq(Item) /\ t # <<>>
  BY TailParts
<1>3. Head(t) = t[1] /\ 1 \in DOMAIN t
  <2> HIDE DEF t
  <2> QED BY <1>2, TailParts
<1> HIDE DEF t
<1>4. 1 \in 1 .. n /\ 2 \in 1 .. n + 1 /\ 1 + 1 = 2
  BY <1>1, <1>3
<1>5. t[1] = s[2]
  BY <1>1, <1>4
<1> QED BY <1>1, <1>3, <1>4, <1>5 DEF t

LEMMA RunMakeKeeps ==
    ASSUME Sound, RunMake
    PROVE  Sound'
<1> USE DEF Sound
<1>1. MakeStep /\ UNCHANGED gateVars /\ Building
  BY DEF RunMake
<1>2. /\ script' = script /\ aside' = aside /\ memo' = memo
      /\ dir' = dir /\ knobs' = knobs /\ version' = version
      /\ step # "idle" /\ step' # "idle"
  BY <1>1 DEF gateVars, MakeStep, DeleteObjects, DeleteArchives, TruncateStamp, WriteStamp,
     Compile, Refuse, Package
<1>3. TreeInv'
  BY <1>1, InvalidateInv, CompileInv, PackageInv, StopInv DEF MakeStep
<1>4. ScriptInv' /\ AsideKeyed'
  BY <1>2, ScriptSame
<1>5. Running'
  <2>1. step' = "done" => Package \/ step = "done"
    BY <1>1 DEF MakeStep, DeleteObjects, DeleteArchives, TruncateStamp, WriteStamp, Compile,
       Refuse
  <2>2. step' = "done" => Head(script).op # "parse"
    BY <1>1, <2>1 DEF Package, Building, Running
  <2> QED BY <1>2, <2>2 DEF Running
<1>6. MakeStamp'
  <2>1. knobs # NoStamp
    BY TreeAssumption DEF TreeInv, TreeTypeOK
  <2>2. CASE DeleteObjects \/ DeleteArchives \/ TruncateStamp \/ WriteStamp
    BY <2>1, <2>2 DEF MakeStamp, DeleteObjects, DeleteArchives, TruncateStamp, WriteStamp
  <2>3. CASE (\E m \in Members : Compile(m)) \/ Refuse
    BY <2>3 DEF MakeStamp, Compile, Refuse, TreeInv, Stamped
  <2>4. CASE Package
    BY <2>4 DEF MakeStamp, Package, TreeInv, Stamped, TreeTypeOK
  <2> QED BY <1>1, <2>2, <2>3, <2>4 DEF MakeStep
<1>7. InspectsRequested'
  BY <1>2 DEF InspectsRequested, Now
<1>8. GoalsReady'
  <2> SUFFICES ASSUME NEW j \in DOMAIN script, NEW k \in Knobs,
                      script[j].op = "goal", script[j].knobs = k,
                      ~\E l \in DOMAIN script : l < j /\ Renews(script, l, k)
               PROVE  Ready(k)'
    <3>1. ASSUME NEW l, NEW k PROVE Renews(script, l, k)' <=> Renews(script, l, k)
      BY <1>2 DEF Renews, Inside
    <3> QED BY <1>2, <3>1 DEF GoalsReady
  <2>1. Ready(k)
    BY DEF GoalsReady
  <2>2. CASE aside # NoTree
    <3>1. CallersStamp' = CallersStamp /\ CallersLib' = CallersLib
      BY <1>2, <2>2 DEF CallersStamp, CallersLib, NoTree
    <3> QED BY <1>2, <2>1, <3>1, ReadySame
  <2>3. CASE aside = NoTree
    <3>1. /\ script # <<>> /\ Head(script) = script[1] /\ 1 \in DOMAIN script
          /\ script[1].op \in {"parse", "sub", "goal"} /\ knobs = script[1].knobs
          /\ script[1].op # "parse" => dir = script[1].dir
          /\ script[1].op = "goal" => dir \notin memo
          /\ ~Inside(script, 1)
      BY <1>2, <2>3, AtHead DEF Running
    <3>2. j = 1 \/ 1 < j
      <4>1. \E n \in Nat : DOMAIN script = 1 .. n
        BY <3>1, AtHead
      <4> QED BY <4>1
    <3>3. stored = k /\ ("lib" \in memo => objs["lib"] = Fresh("lib", k))
      BY <2>1, <2>3 DEF Ready, CallersStamp, CallersLib
    <3>4. knobs = k
      <4>1. CASE script[1].op = "goal"
        BY <3>1, <3>3, <4>1, GoalAtHead
      <4>2. CASE script[1].op # "goal"
        <5>1. ~Spoils(script, 1, k)
          BY <3>1, <3>2, <4>2 DEF ScriptInv, Restored
        <5> QED BY <3>1, <4>2, <5>1 DEF Spoils
      <4> QED BY <4>1, <4>2
    <3>5. (\E m \in Members : Compile(m)) \/ Refuse \/ Package
      BY <1>1, <3>3, <3>4 DEF MakeStep, MakeStamp, DeleteObjects, DeleteArchives,
         TruncateStamp, WriteStamp
    <3>6. stored' = stored /\ (objs' = objs \/ \E m \in Members : Compile(m))
      BY <3>5 DEF Compile, Refuse, Package
    <3>7. ASSUME "lib" \in memo PROVE objs'["lib"] = objs["lib"]
      <4>1. CASE \E m \in Members : Compile(m)
        <5>1. PICK m \in Members : Compile(m)
          BY <4>1
        <5>2. script[1].op # "parse"
          BY <1>1, <3>1, <5>1 DEF Building, Compile
        <5>3. script[1].op = "sub" => dir # "lib"
          <6> SUFFICES ASSUME script[1].op = "sub", dir = "lib" PROVE FALSE
            OBVIOUS
          <6>1. Renews(script, 1, k)
            BY <3>1, <3>4 DEF Renews
          <6> QED BY <3>1, <3>2, <6>1
        <5>4. dir # "lib"
          BY <3>1, <3>7, <5>2, <5>3
        <5>5. objs' = [objs EXCEPT ![dir][m] = Fresh(dir, knobs)[m]]
          BY <5>1 DEF Compile
        <5> QED BY <5>4, <5>5, GateConstants DEF TreeInv, TreeTypeOK
      <4>2. CASE objs' = objs
        BY <4>2
      <4> QED BY <3>6, <4>1, <4>2
    <3>8. CallersStamp' = CallersStamp /\ ("lib" \in memo' => CallersLib' = CallersLib)
      BY <1>2, <2>3, <3>6, <3>7 DEF CallersStamp, CallersLib, NoTree
    <3> QED BY <1>2, <2>1, <3>8, ReadySame
  <2> QED BY <2>2, <2>3
<1> QED BY <1>3, <1>4, <1>5, <1>6, <1>7, <1>8

\* A step that takes the head off the script while no make runs.
LEMMA ParsedKeeps ==
    ASSUME Sound, Parsed
    PROVE  Sound'
<1> USE DEF Sound
<1>1. /\ script # <<>> /\ step = "compile" /\ Head(script).op = "parse"
      /\ step' = "idle" /\ memo' = {} /\ script' = Tail(script)
      /\ stored' = stored /\ objs' = objs /\ products' = products /\ version' = version
      /\ dir' = dir /\ knobs' = knobs /\ rebuilt' = rebuilt /\ wasCurrent' = wasCurrent
      /\ aside' = aside
  BY DEF Parsed, Advance
<1>2. /\ Head(script) = script[1]
      /\ aside # NoTree <=> Inside(script, 1)
      /\ knobs = script[1].knobs
  BY <1>1, AtHead DEF Running
<1>3. TreeInv'
  <2>1. Interrupt
    BY <1>1 DEF Interrupt
  <2> QED BY <2>1, StopInv
<1>4. ScriptInv'
  <2>1. aside' # NoTree <=> Inside(script, 1)
    BY <1>1, <1>2
  <2> QED BY <1>1, <2>1, AdvanceScript
<1>5. GoalsReady'
  <2>1. ASSUME NEW k, Ready(k) \/ Renews(script, 1, k) PROVE Ready(k)'
    <3>1. CallersStamp = k
      <4>1. CASE Ready(k)
        BY <4>1 DEF Ready
      <4>2. CASE Renews(script, 1, k)
        BY <1>1, <1>2, <4>2 DEF Renews, CallersStamp, TreeInv, Stamped
      <4> QED BY <2>1, <4>1, <4>2
    <3>2. CallersStamp' = CallersStamp /\ "lib" \notin memo'
      BY <1>1 DEF CallersStamp, NoTree
    <3> QED BY <3>1, <3>2 DEF Ready
  <2> QED BY <1>1, <2>1, AdvanceGoals
<1>6. AsideKeyed' /\ Running' /\ MakeStamp'
  BY <1>1 DEF AsideKeyed, Running, MakeStamp, NoTree, Object
<1>7. InspectsRequested'
  <2> SUFFICES ASSUME script' # <<>>, Inspects(Head(script')) PROVE FALSE
    BY DEF InspectsRequested, Now, Inspects
  <2>1. 2 \in DOMAIN script /\ Inspects(script[2]) /\ 2 - 1 = 1 /\ 2 > 1
    BY <1>1, SecondEntry DEF ScriptInv
  <2>2. BuiltFor(script[1], script[2])
    BY <2>1 DEF ScriptInv, Prepared
  <2>3. script[1].op = "parse"
    BY <1>1, <1>2
  <2> HIDE DEF Sound
  <2> QED BY <2>2, <2>3 DEF BuiltFor
<1> QED BY <1>3, <1>4, <1>5, <1>6, <1>7

LEMMA EndMakeKeeps ==
    ASSUME Sound, EndMake
    PROVE  Sound'
<1> USE DEF Sound
<1>1. /\ step = "done" /\ step' = "idle" /\ script' = Tail(script) /\ aside' = aside
      /\ memo' = IF Head(script).op = "goal" THEN memo \cup {dir} ELSE memo
      /\ stored' = stored /\ objs' = objs /\ version' = version
  BY DEF EndMake, Finish, Advance
<1>2. /\ script # <<>> /\ Head(script) = script[1] /\ script[1].op \in {"sub", "goal"}
      /\ dir = script[1].dir /\ knobs = script[1].knobs
      /\ aside # NoTree <=> Inside(script, 1)
      /\ script[1].op = "goal" => aside = NoTree
  BY <1>1, AtHead DEF Running
<1>3. stored = knobs /\ objs[dir] = Fresh(dir, knobs)
  BY <1>1 DEF MakeStamp, TreeInv, FinishedCurrent
<1>4. TreeInv'
  BY StopInv DEF EndMake
<1>5. ScriptInv'
  BY <1>1, <1>2, AdvanceScript
<1>6. GoalsReady'
  <2>1. ASSUME NEW k, Ready(k) \/ Renews(script, 1, k) PROVE Ready(k)'
    <3>1. CallersStamp' = CallersStamp /\ CallersLib' = CallersLib
      BY <1>1 DEF CallersStamp, CallersLib, NoTree
    <3>2. CASE script[1].op = "goal"
      <4>1. k = knobs
        BY <1>2, <1>3, <2>1, <3>2 DEF Ready, Renews, CallersStamp
      <4>2. dir = "lib" => CallersLib = Fresh("lib", knobs)
        BY <1>2, <1>3, <3>2 DEF CallersLib
      <4>3. "lib" \in memo => CallersLib = Fresh("lib", knobs)
        BY <1>2, <2>1, <3>2, <4>1 DEF Ready, Renews
      <4>4. CallersStamp = k
        BY <1>2, <1>3, <3>2, <4>1 DEF CallersStamp
      <4>5. Fresh("lib", k)' = Fresh("lib", k)
        BY <1>1 DEF Fresh
      <4> QED BY <1>1, <3>1, <4>1, <4>2, <4>3, <4>4, <4>5 DEF Ready
    <3>3. CASE script[1].op = "sub" /\ Ready(k)
      BY <1>1, <1>2, <3>1, <3>3, ReadySame
    <3>4. CASE script[1].op = "sub" /\ Renews(script, 1, k)
      <4>1. aside = NoTree /\ dir = "lib" /\ knobs = k
        BY <1>2, <3>4 DEF Renews
      <4>2. Ready(k)
        BY <1>3, <4>1 DEF Ready, CallersStamp, CallersLib
      <4> QED BY <1>1, <1>2, <3>1, <3>4, <4>2, ReadySame
    <3> QED BY <1>2, <2>1, <3>2, <3>3, <3>4
  <2> QED BY <1>1, <1>2, <2>1, AdvanceGoals
<1>7. AsideKeyed' /\ Running' /\ MakeStamp'
  BY <1>1 DEF AsideKeyed, Running, MakeStamp, NoTree, Object
<1>8. InspectsRequested'
  <2> SUFFICES ASSUME script' # <<>>, Inspects(Head(script'))
               PROVE  objs[Head(script').dir] = Fresh(Head(script').dir, Head(script').knobs)
    BY <1>1 DEF InspectsRequested, Now, Inspects, Fresh
  <2>1. 2 \in DOMAIN script /\ Head(script') = script[2] /\ 2 - 1 = 1 /\ 2 > 1
    BY <1>1, <1>2, SecondEntry DEF ScriptInv
  <2>2. BuiltFor(script[1], script[2])
    BY <2>1 DEF ScriptInv, Prepared
  <2>3. dir = script[2].dir /\ knobs = script[2].knobs
    BY <1>2, <2>2 DEF BuiltFor
  <2> QED BY <1>3, <2>1, <2>3
<1> QED BY <1>4, <1>5, <1>6, <1>7, <1>8

\* What the next entry inspects was made by this one, or there is nothing to show.
LEMMA NothingToInspect ==
    ASSUME ScriptInv, script # <<>>, script' = Tail(script), script[1].op \notin {"sub", "goal"}
    PROVE  InspectsRequested'
<1> SUFFICES ASSUME script' # <<>>, Inspects(Head(script')) PROVE FALSE
  BY DEF InspectsRequested, Now, Inspects
<1>1. 2 \in DOMAIN script /\ Inspects(script[2]) /\ 2 - 1 = 1 /\ 2 > 1
  BY SecondEntry DEF ScriptInv
<1>2. BuiltFor(script[1], script[2])
  BY <1>1 DEF ScriptInv, Prepared
<1> QED BY <1>2 DEF BuiltFor

\* An audit reads, or a goal is found updated: the tree stays.
LEMMA ReadKeeps ==
    ASSUME Sound, script # <<>>, step = "idle",
           script[1].op \in {"goal", "inspect", "dump", "judge", "end"},
           script[1].op = "goal" => script[1].dir \in memo,
           script' = Tail(script), UNCHANGED treeVars, memo' = memo, aside' = aside
    PROVE  Sound'
<1> USE DEF Sound
<1>1. /\ stored' = stored /\ objs' = objs /\ version' = version /\ step' = "idle"
  BY DEF treeVars
<1>2. aside # NoTree <=> Inside(script, 1)
  BY AtHead
<1>3. TreeInv'
  BY StopInv
<1>4. ScriptInv'
  BY <1>2, AdvanceScript
<1>5. GoalsReady'
  <2>1. ASSUME NEW k, Ready(k) \/ Renews(script, 1, k) PROVE Ready(k)'
    <3>1. Ready(k)
      BY <2>1 DEF Renews
    <3>2. CallersStamp' = CallersStamp /\ CallersLib' = CallersLib
      BY <1>1 DEF CallersStamp, CallersLib, NoTree
    <3> QED BY <1>1, <3>1, <3>2, ReadySame
  <2> QED BY <2>1, AdvanceGoals
<1>6. AsideKeyed' /\ Running' /\ MakeStamp'
  BY <1>1 DEF AsideKeyed, Running, MakeStamp, NoTree, Object
<1>7. InspectsRequested'
  <2>1. CASE script[1].op # "goal"
    BY <2>1, NothingToInspect
  <2>2. CASE script[1].op = "goal"
    <3> SUFFICES ASSUME script' # <<>>, Inspects(Head(script'))
                 PROVE  objs[Head(script').dir] = Fresh(Head(script').dir, Head(script').knobs)
      BY <1>1 DEF InspectsRequested, Now, Inspects, Fresh
    <3>1. 2 \in DOMAIN script /\ Head(script') = script[2] /\ 2 - 1 = 1 /\ 2 > 1
      BY SecondEntry DEF ScriptInv
    <3>2. BuiltFor(script[1], script[2])
      BY <3>1 DEF ScriptInv, Prepared
    <3>3. /\ script[1].dir = "lib" /\ script[2].dir = "lib"
          /\ script[1].knobs = script[2].knobs
      BY <2>2, <3>2 DEF BuiltFor
    <3>4. Ready(script[1].knobs) /\ aside = NoTree
      BY <2>2, GoalAtHead
    <3> QED BY <2>2, <3>1, <3>3, <3>4 DEF Ready, CallersLib
  <2> QED BY <2>1, <2>2
<1> QED BY <1>3, <1>4, <1>5, <1>6, <1>7

LEMMA CopyTreeKeeps ==
    ASSUME Sound, CopyTree
    PROVE  Sound'
<1> USE DEF Sound
<1>1. /\ script # <<>> /\ step = "idle" /\ Head(script).op = "copy"
      /\ aside' = <<stored, objs, products>>
      /\ stored' = NoStamp /\ objs' = NoObjects /\ products' = NoProducts
      /\ script' = Tail(script) /\ memo' = memo /\ step' = "idle" /\ version' = version
      /\ dir' = dir /\ knobs' = knobs /\ rebuilt' = rebuilt /\ wasCurrent' = wasCurrent
  BY DEF CopyTree, Now, Advance
<1>2. script[1].op = "copy" /\ 1 \in DOMAIN script /\ Inside(script, 1)
  BY <1>1, AtHead
<1>3. aside = NoTree
  <2> SUFFICES ASSUME Inside(script, 0) PROVE FALSE
    BY DEF ScriptInv
  <2>1. PICK d \in DOMAIN script :
             /\ d > 0 /\ script[d].op = "discard"
             /\ \A c \in DOMAIN script : 0 < c /\ c < d => script[c].op # "copy"
    BY DEF Inside
  <2>2. \E n \in Nat : DOMAIN script = 1 .. n
    BY <1>1, AtHead
  <2>3. d # 1 /\ d > 1 /\ 0 < 1
    BY <1>2, <2>1, <2>2
  <2> QED BY <1>2, <2>1, <2>3
<1>4. aside' # NoTree
  BY <1>1 DEF NoTree
<1>5. TreeInv'
  BY <1>1 DEF TreeInv, TreeTypeOK, Keyed, Invalidated, Stamped, StillCurrent, FinishedCurrent,
     SameKnobsIdle, NoObjects, NoProducts, Steps
<1>6. ScriptInv'
  BY <1>1, <1>2, <1>4, AdvanceScript
<1>7. GoalsReady'
  <2>1. ASSUME NEW k, Ready(k) \/ Renews(script, 1, k) PROVE Ready(k)'
    <3>1. Ready(k)
      BY <1>2, <2>1 DEF Renews
    <3>2. CallersStamp' = CallersStamp /\ CallersLib' = CallersLib
      <4>1. (aside = NoTree)' <=> FALSE
        BY <1>4 DEF NoTree
      <4>2. aside[1]' = stored /\ aside[2]' = objs
        BY <1>1
      <4> QED BY <1>3, <4>1, <4>2 DEF CallersStamp, CallersLib
    <3> QED BY <1>1, <3>1, <3>2, ReadySame
  <2> QED BY <1>1, <2>1, AdvanceGoals
<1>8. AsideKeyed'
  <2>1. /\ aside[1]' = stored /\ aside[2]' = objs /\ aside[3]' = products
        /\ aside' = <<aside[1]', aside[2]', aside[3]'>>
    BY <1>1
  <2> QED BY <2>1 DEF AsideKeyed, TreeInv, TreeTypeOK, Keyed, Object
<1>9. Running' /\ MakeStamp'
  BY <1>1 DEF Running, MakeStamp
<1>10. InspectsRequested'
  BY <1>1, <1>2, NothingToInspect
<1> QED BY <1>5, <1>6, <1>7, <1>8, <1>9, <1>10

\* The caller's tree comes back as it was.
LEMMA CallersTreeBack ==
    ASSUME TreeInv, AsideKeyed, aside # NoTree,
           stored' = aside[1], objs' = aside[2], products' = aside[3], step' = "idle",
           UNCHANGED <<version, dir, knobs, rebuilt, wasCurrent>>
    PROVE  TreeInv'
BY DEF TreeInv, TreeTypeOK, Keyed, Invalidated, Stamped, StillCurrent, FinishedCurrent,
       SameKnobsIdle, Steps, AsideKeyed, Object

LEMMA DiscardCopyKeeps ==
    ASSUME Sound, DiscardCopy
    PROVE  Sound'
<1> USE DEF Sound
<1>1. /\ script # <<>> /\ step = "idle" /\ Head(script).op = "discard"
      /\ stored' = aside[1] /\ objs' = aside[2] /\ products' = aside[3] /\ aside' = NoTree
      /\ script' = Tail(script) /\ memo' = memo /\ step' = "idle" /\ version' = version
      /\ UNCHANGED <<version, dir, knobs, rebuilt, wasCurrent>>
  BY DEF DiscardCopy, Now, Advance
<1>2. script[1].op = "discard" /\ 1 \in DOMAIN script /\ ~Inside(script, 1)
  BY <1>1, AtHead
<1>3. aside # NoTree
  <2>1. \E n \in Nat : DOMAIN script = 1 .. n
    BY <1>1, AtHead
  <2>2. 1 > 0 /\ \A c \in DOMAIN script : ~(0 < c /\ c < 1)
    BY <2>1
  <2>3. Inside(script, 0)
    BY <1>2, <2>2 DEF Inside
  <2> QED BY <2>3 DEF ScriptInv
<1>4. TreeInv'
  BY <1>1, <1>3, CallersTreeBack
<1>5. ScriptInv'
  BY <1>1, <1>2, AdvanceScript
<1>6. GoalsReady'
  <2>1. ASSUME NEW k, Ready(k) \/ Renews(script, 1, k) PROVE Ready(k)'
    <3>1. Ready(k)
      BY <1>2, <2>1 DEF Renews
    <3>2. CallersStamp' = CallersStamp /\ CallersLib' = CallersLib
      BY <1>1, <1>3 DEF CallersStamp, CallersLib, NoTree
    <3> QED BY <1>1, <3>1, <3>2, ReadySame
  <2> QED BY <1>1, <2>1, AdvanceGoals
<1>7. AsideKeyed' /\ Running' /\ MakeStamp'
  BY <1>1 DEF AsideKeyed, Running, MakeStamp, NoTree
<1>8. InspectsRequested'
  BY <1>1, <1>2, NothingToInspect
<1> QED BY <1>4, <1>5, <1>6, <1>7, <1>8

LEMMA GiveUpKeeps ==
    ASSUME Sound, GiveUp
    PROVE  Sound'
<1> USE DEF Sound
<1>1. /\ script' = <<>> /\ aside' = NoTree /\ step' = "idle"
      /\ UNCHANGED <<version, dir, knobs, rebuilt, wasCurrent>>
  BY DEF GiveUp
<1>2. TreeInv'
  <2>1. CASE aside # NoTree
    BY <1>1, <2>1, CallersTreeBack DEF GiveUp
  <2>2. CASE aside = NoTree
    <3>1. Finish \/ Interrupt \/ UNCHANGED treeVars
      BY <1>1, <2>2 DEF GiveUp, Finish, Interrupt, treeVars
    <3> QED BY <3>1, StopInv
  <2> QED BY <2>1, <2>2
<1>3. ScriptInv' /\ GoalsReady'
  <2>1. <<>> \in Seq(Item) /\ DOMAIN <<>> = {}
    OBVIOUS
  <2> QED BY <1>1, <2>1 DEF ScriptInv, GoalsReady, Paired, Prepared, Restored, Inside, Item, NoTree
<1>4. AsideKeyed' /\ Running' /\ MakeStamp' /\ InspectsRequested'
  BY <1>1 DEF AsideKeyed, Running, MakeStamp, InspectsRequested, Now, NoTree
<1> QED BY <1>2, <1>3, <1>4

LEMMA InvokeKeeps ==
    ASSUME Sound, NEW c \in Commands, Invoke(c)
    PROVE  Sound'
<1> USE DEF Sound
<1> DEFINE k == c.knobs  s == Command(c)
<1>1. /\ script = <<>> /\ step = "idle" /\ script' = s
      /\ UNCHANGED treeVars /\ memo' = memo /\ aside' = aside
  BY DEF Invoke
<1>2. step' = "idle"
  BY <1>1 DEF treeVars
<1>3. s \in Begun(k)
  BY CommandRest
<1> HIDE DEF s
<1>4. /\ s \in Seq(Item) /\ Paired(s) /\ ~Inside(s, 0) /\ Restored(s) /\ Prepared(s)
      /\ 1 \in DOMAIN s /\ s[1] = [op |-> "parse", knobs |-> k]
      /\ \A j \in DOMAIN s : s[j].op = "goal" => s[j].knobs = k
  BY <1>3 DEF Begun, Blocks, Prepared
<1>5. aside = NoTree
  BY <1>1 DEF ScriptInv, Inside
<1>6. TreeInv'
  BY <1>1, StopInv
<1>7. ScriptInv'
  <2>1. (aside # NoTree)' <=> Inside(s, 0)
    BY <1>1, <1>4, <1>5 DEF NoTree
  <2>2. /\ Paired(script)' <=> Paired(s)
        /\ Prepared(script)' <=> Prepared(s)
        /\ Restored(script)' <=> Restored(s)
        /\ Inside(script, 0)' <=> Inside(s, 0)
    BY <1>1 DEF Paired, Prepared, Restored, Inside, Renews, Spoils, BuiltFor, Inspects
  <2>3. script' \in Seq(Item)
    BY <1>1, <1>4
  <2> QED BY <1>4, <2>1, <2>2, <2>3 DEF ScriptInv, Item
<1>8. GoalsReady'
  <2>1. PICK n : n = Len(s) /\ n \in Nat /\ DOMAIN s = 1 .. n
    BY <1>4, LenProperties
  <2>2. Renews(s, 1, k)
    BY <1>4, <2>1, HeadInside DEF Renews
  <2>3. ASSUME NEW j \in DOMAIN s, s[j].op = "goal" PROVE s[j].knobs = k /\ 1 < j
    <3>1. j # 1
      BY <1>4, <2>3
    <3> QED BY <1>4, <2>1, <2>3, <3>1
  <2>4. Renews(script, 1, k)' <=> Renews(s, 1, k)
    BY <1>1 DEF Renews, Inside
  <2> QED BY <1>1, <1>4, <2>2, <2>3, <2>4 DEF GoalsReady
<1>9. AsideKeyed' /\ Running' /\ MakeStamp'
  BY <1>1, <1>2 DEF AsideKeyed, Running, MakeStamp, NoTree, Object
<1>10. InspectsRequested'
  <2>1. s # <<>>
    BY <1>4
  <2>2. Head(s) = s[1]
    BY <1>4, <2>1, TailParts
  <2> QED BY <1>1, <1>4, <2>2 DEF InspectsRequested, Now
<1> QED BY <1>6, <1>7, <1>8, <1>9, <1>10

LEMMA EditSourceKeeps ==
    ASSUME Sound, EditSource
    PROVE  Sound'
<1> USE DEF Sound
<1>1. /\ script = <<>> /\ script' = script /\ aside' = aside /\ memo' = memo
      /\ step = "idle" /\ step' = "idle"
  BY DEF EditSource, Edit, gateVars
<1>2. TreeInv'
  <2>1. PICK m \in Edited : Edit(m)
    BY DEF EditSource
  <2>2. CASE m \in Members
    BY <2>1, <2>2, EditInv
  <2>3. CASE m \notin Members
    <3>1. UNCHANGED treeVars
      BY <2>1, <2>3 DEF Edit, treeVars, TreeInv, TreeTypeOK
    <3> QED BY <3>1, StopInv
  <2> QED BY <2>2, <2>3
<1>3. ScriptInv' /\ AsideKeyed'
  BY <1>1, ScriptSame
<1>4. GoalsReady' /\ Running' /\ MakeStamp' /\ InspectsRequested'
  BY <1>1 DEF GoalsReady, Running, MakeStamp, InspectsRequested, Now
<1> QED BY <1>2, <1>3, <1>4

LEMMA NothingKeeps ==
    ASSUME Sound, UNCHANGED vars
    PROVE  Sound'
<1> USE DEF Sound
<1>1. /\ script' = script /\ aside' = aside /\ memo' = memo /\ UNCHANGED treeVars
      /\ stored' = stored /\ objs' = objs /\ version' = version
  BY DEF vars, gateVars, treeVars
<1>2. TreeInv'
  BY <1>1, StopInv
<1>3. ScriptInv' /\ AsideKeyed' /\ GoalsReady'
  BY <1>1, ScriptSame, GoalsSame
<1>4. Running' /\ MakeStamp' /\ InspectsRequested'
  BY <1>1 DEF Running, MakeStamp, InspectsRequested, Now, treeVars, Fresh
<1> QED BY <1>2, <1>3, <1>4

LEMMA NextSound ==
    ASSUME Sound, src.guard = "stamp", [Next]_vars
    PROVE  Sound'
<1>1. ScriptInv
  BY DEF Sound
<1>2. ASSUME script # <<>> PROVE Head(script) = script[1]
  BY <1>1, <1>2, AtHead
<1>3. CASE \E c \in Commands : Invoke(c)
  BY <1>3, InvokeKeeps
<1>4. CASE StartMake
  BY <1>4, StartMakeKeeps
<1>5. CASE SkipGoal
  BY <1>2, <1>5, ReadKeeps DEF SkipGoal, Now, Advance
<1>6. CASE RunMake
  BY <1>6, RunMakeKeeps
<1>7. CASE Parsed
  BY <1>7, ParsedKeeps
<1>8. CASE EndMake
  BY <1>8, EndMakeKeeps
<1>9. CASE FailedMake
  BY <1>9, GiveUpKeeps DEF FailedMake, Fail
<1>10. CASE InspectNow
  <2>1. CASE Fail(Head(script).gate)
    BY <2>1, GiveUpKeeps DEF Fail
  <2>2. CASE ~Fail(Head(script).gate)
    BY <1>2, <1>10, <2>2, ReadKeeps DEF InspectNow, Now, Advance
  <2> QED BY <2>1, <2>2
<1>11. CASE DumpNow
  BY <1>2, <1>11, ReadKeeps DEF DumpNow, Now, Advance
<1>12. CASE JudgeNow
  <2>1. CASE Fail(Head(script).gate)
    BY <2>1, GiveUpKeeps DEF Fail
  <2>2. CASE ~Fail(Head(script).gate)
    BY <1>2, <1>12, <2>2, ReadKeeps DEF JudgeNow, Now, Advance
  <2> QED BY <2>1, <2>2
<1>13. CASE CopyTree
  BY <1>13, CopyTreeKeeps
<1>14. CASE DiscardCopy
  BY <1>14, DiscardCopyKeeps
<1>15. CASE EndGate
  BY <1>2, <1>15, ReadKeeps DEF EndGate, Now, Advance
<1>16. CASE Die
  BY <1>16, GiveUpKeeps DEF Die
<1>17. CASE EditSource
  BY <1>17, EditSourceKeeps
<1>18. CASE UNCHANGED vars
  BY <1>18, NothingKeeps
<1> QED BY <1>3, <1>4, <1>5, <1>6, <1>7, <1>8, <1>9, <1>10, <1>11, <1>12, <1>13, <1>14, <1>15,
           <1>16, <1>17, <1>18 DEF Next

-----------------------------------------------------------------------------
(* A tree with another guard only ever meets the knob audit, which inspects *)
(* nothing: it reads what it dumped.                                        *)

QuietItem == {e \in Item : e.op # "inspect"}
Quiet == src.guard # "stamp" => /\ script \in Seq(QuietItem)
                                /\ step # "idle" => script # <<>>

LEMMA QuietGate ==
    ASSUME NEW k \in Knobs
    PROVE  Parse(k) \o KnobGate(k) \in Seq(QuietItem)
<1> DEFINE Q == Seq(QuietItem)
           c == Do("copy")  j == Judge("knobs")  o == Do("discard")
           e == <<[op |-> "end", gate |-> "knobs"]>>
           p == Parse(k)  u(x) == Sub("lib", x)  v == Dump("lib")
<1>1. \A s, t \in Q : s \o t \in Q
  BY ConcatProperties
<1>2. /\ [op |-> "copy"] \in QuietItem /\ [op |-> "discard"] \in QuietItem
      /\ [op |-> "judge", gate |-> "knobs"] \in QuietItem
      /\ [op |-> "end", gate |-> "knobs"] \in QuietItem
      /\ [op |-> "parse", knobs |-> k] \in QuietItem
      /\ [op |-> "dump", dir |-> "lib"] \in QuietItem
      /\ \A x \in Knobs : [op |-> "sub", dir |-> "lib", knobs |-> x] \in QuietItem
  BY GateConstants DEF QuietItem, Item, Gates
<1>3. /\ c \in Q /\ j \in Q /\ o \in Q /\ e \in Q /\ p \in Q /\ v \in Q
      /\ \A x \in Knobs : u(x) \in Q
  <2> HIDE DEF QuietItem
  <2> QED BY <1>2 DEF Do, Judge, Parse, Dump, Sub
<1>4. A \in Knobs
  BY GateConstants
<1>5. KnobGate(k) = (c \o (u(k) \o v) \o (u(A) \o v) \o (u(A) \o v) \o (u(k) \o v) \o j \o o) \o e
  BY Zenon DEF KnobGate, Gate, BuildAndDump
<1> HIDE DEF Q, c, j, o, e, p, u, v
<1>6. \A x \in Knobs : u(x) \o v \in Q
  BY <1>1, <1>3
<1>7. c \o (u(k) \o v) \o (u(A) \o v) \o (u(A) \o v) \o (u(k) \o v) \in Q
  BY <1>1, <1>3, <1>4, <1>6
<1>8. p \o KnobGate(k) \in Q
  BY <1>1, <1>3, <1>5, <1>7
<1> QED BY <1>8 DEF Q, p

LEMMA QuietCommand ==
    ASSUME NEW c \in Commands, c.goals = <<"verify-knob-staleness">>
    PROVE  Command(c) \in Seq(QuietItem)
<1> DEFINE k == c.knobs
<1>1. k \in Knobs
  BY CommandsAssumption
<1>2. Len(c.goals) = 1 /\ c.goals[1] = "verify-knob-staleness"
  OBVIOUS
<1>3. PICK rest : /\ Command(c) = rest[1] /\ rest[0] = Parse(k)
                  /\ \A i \in 1 .. 1 : rest[i] = rest[i - 1] \o Recipes(c.goals[i], k)
  BY <1>2, CommandRest
<1>4. 1 \in 1 .. 1 /\ 1 - 1 = 0
  OBVIOUS
<1>5. Command(c) = Parse(k) \o Recipes("verify-knob-staleness", k)
  BY <1>2, <1>3, <1>4
<1>6. Recipes("verify-knob-staleness", k) = KnobGate(k)
  BY DEF Recipes
<1> QED BY <1>1, <1>5, <1>6, QuietGate

LEMMA QuietNext ==
    ASSUME src \in Sources, Quiet, [Next]_vars
    PROVE  Quiet' /\ src' = src
<1>1. src' = src
  BY DEF Next, vars, gateVars, Invoke, StartMake, SkipGoal, RunMake, Parsed, EndMake, FailedMake,
     Fail, GiveUp, InspectNow, DumpNow, JudgeNow, CopyTree, DiscardCopy, EndGate, Die, EditSource
<1>2. SUFFICES ASSUME src.guard # "stamp", script \in Seq(QuietItem),
                      step # "idle" => script # <<>>
               PROVE  script' \in Seq(QuietItem) /\ (step' # "idle" => script' # <<>>)
  BY <1>1 DEF Quiet, QuietItem, Item
<1>3. CASE \E c \in Commands : Invoke(c)
  <2>1. PICK c \in Commands : Invoke(c)
    BY <1>3
  <2>2. c.goals = <<"verify-knob-staleness">>
    BY <1>2, <2>1, SourcesAssumption DEF Invoke, Typable
  <2>3. step' = "idle"
    BY <2>1 DEF Invoke, treeVars
  <2> QED BY <2>1, <2>2, <2>3, QuietCommand DEF Invoke
<1>4. CASE ~\E c \in Commands : Invoke(c)
  <2>1. script' = script \/ script' = <<>> \/ (script # <<>> /\ script' = Tail(script))
    BY <1>2, <1>4 DEF Next, vars, gateVars, StartMake, SkipGoal, RunMake, Parsed, EndMake,
       FailedMake, Fail, GiveUp, InspectNow, DumpNow, JudgeNow, CopyTree, DiscardCopy, EndGate,
       Die, EditSource, Advance, Now
  <2>2. step' # "idle" => script' # <<>>
    <3>1. CASE StartMake \/ RunMake
      BY <1>2, <3>1 DEF StartMake, Now, RunMake, gateVars, MakeStep, DeleteObjects,
         DeleteArchives, TruncateStamp, WriteStamp, Compile, Refuse, Package
    <3>2. CASE step' = "idle"
      BY <3>2
    <3>3. CASE UNCHANGED vars
      BY <1>2, <3>3 DEF vars, treeVars, gateVars
    <3>4. CASE ~(StartMake \/ RunMake \/ UNCHANGED vars)
      BY <1>4, <3>4 DEF Next, SkipGoal, Parsed, EndMake, Finish, FailedMake, Fail, GiveUp,
         InspectNow, DumpNow, JudgeNow, CopyTree, DiscardCopy, EndGate, Die, EditSource, Edit,
         Now, treeVars
    <3> QED BY <3>1, <3>3, <3>4
  <2>3. <<>> \in Seq(QuietItem)
    OBVIOUS
  <2>4. script # <<>> => Tail(script) \in Seq(QuietItem)
    BY <1>2, HeadTailProperties
  <2> QED BY <1>2, <2>1, <2>2, <2>3, <2>4
<1> QED BY <1>3, <1>4

GatesState == src \in Sources /\ Quiet /\ GatesInv

LEMMA InitGates == Init => GatesState
<1> SUFFICES ASSUME Init PROVE GatesState
  OBVIOUS
<1>1. /\ TreeInv /\ src \in Sources /\ script = <<>> /\ aside = NoTree /\ step = "idle"
  BY InitTree DEF Init, TreeInit
<1>2. <<>> \in Seq(Item) /\ <<>> \in Seq(QuietItem) /\ DOMAIN <<>> = {}
  OBVIOUS
<1>3. ScriptInv /\ GoalsReady
  BY <1>1, <1>2 DEF ScriptInv, GoalsReady, Paired, Prepared, Restored, Inside
<1>4. AsideKeyed /\ Running /\ MakeStamp /\ InspectsRequested
  BY <1>1 DEF AsideKeyed, Running, MakeStamp, InspectsRequested, Now
<1> QED BY <1>1, <1>2, <1>3, <1>4 DEF GatesState, GatesInv, Quiet, Sound

LEMMA NextGates == GatesState /\ [Next]_vars => GatesState'
<1> SUFFICES ASSUME GatesState, [Next]_vars PROVE GatesState'
  OBVIOUS
<1>1. src \in Sources /\ Quiet /\ (src.guard = "stamp" => Sound)
  BY DEF GatesState, GatesInv
<1>2. Quiet' /\ src' = src
  BY <1>1, QuietNext
<1>3. src.guard = "stamp" => Sound'
  BY <1>1, NextSound
<1>4. GatesInv'
  BY <1>2, <1>3 DEF GatesInv
<1> QED BY <1>1, <1>2, <1>4 DEF GatesState

LEMMA GatesInvariant == Spec => []GatesState
BY InitGates, NextGates, PTL DEF Spec

\* A make that ends under the stamp guard has packaged the current sources
\* under the knobs it was asked for, and one that found everything current ran
\* no command on an archive (Makefile:118), through every recipe of every
\* gate, the copies they work in, and a death at any point.
THEOREM GatesBuildCurrent == Spec => []TreeCurrent
<1>1. GatesState => TreeCurrent
  BY DEF GatesState, GatesInv, Sound, TreeInv, TreeCurrent
<1> QED BY <1>1, GatesInvariant, PTL

\* Every audit of `make verify` (Makefile:946) reads objects made from the
\* current sources under the knobs its recipe asked for, although the gates
\* before it, and the rest of its own, built other configurations into the
\* same directories; verify-zp-usage may read what an earlier goal has left.
THEOREM AuditsReadRequested == Spec => []InspectsRequested
<1>1. GatesState => InspectsRequested
  <2> SUFFICES ASSUME GatesState PROVE InspectsRequested
    OBVIOUS
  <2>1. CASE src.guard = "stamp"
    BY <2>1 DEF GatesState, GatesInv, Sound
  <2>2. CASE src.guard # "stamp"
    <3>1. script # <<>> => Head(script).op # "inspect"
      BY <2>2, HeadTailProperties DEF GatesState, Quiet, QuietItem
    <3> QED BY <3>1 DEF InspectsRequested, Now
  <2> QED BY <2>1, <2>2
<1> QED BY <1>1, GatesInvariant, PTL

=============================================================================
