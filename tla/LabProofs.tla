----------------------------- MODULE LabProofs -----------------------------
(***************************************************************************)
(* What the measuring tools leave behind and keep, for every set of        *)
(* sessions, sizes and speeds, however often sessions are interrupted,     *)
(* killed or followed by others.                                           *)
(***************************************************************************)
EXTENDS LabInvariants, CommonLemmas

(* Scripts as sequences.                                                    *)

LEMMA ScriptOne ==
  ASSUME NEW x, NEW P, x.op \in P
  PROVE  IsScript(<<x>>, P)
<1>1. <<x>> \in Seq({x})
  OBVIOUS
<1>2. \E S : <<x>> \in Seq(S) /\ \A y \in S : y.op \in P
  <2>1. \A y \in {x} : y.op \in P
    OBVIOUS
  <2> DEFINE s == <<x>>  X == {x}
  <2>2. s \in Seq(X) /\ \A y \in X : y.op \in P
    BY <1>1, <2>1
  <2> HIDE DEF s, X
  <2>3. \E S : s \in Seq(S) /\ \A y \in S : y.op \in P
    BY <2>2
  <2> QED BY <2>3 DEF s
<1> QED BY <1>2 DEF IsScript

LEMMA ScriptMore ==
  ASSUME NEW s, NEW P, NEW Q, IsScript(s, P), P \subseteq Q
  PROVE  IsScript(s, Q)
BY DEF IsScript

LEMMA ScriptAt ==
  ASSUME NEW s, NEW P, IsScript(s, P)
  PROVE  /\ Len(s) \in Nat /\ DOMAIN s = 1 .. Len(s)
         /\ \A i \in 1 .. Len(s) : s[i].op \in P
<1>1. PICK S : s \in Seq(S) /\ \A x \in S : x.op \in P
  BY DEF IsScript
<1>2. Len(s) \in Nat /\ DOMAIN s = 1 .. Len(s) /\ \A i \in 1 .. Len(s) : s[i] \in S
  BY <1>1, LenProperties, ElementOfSeq
<1> QED BY <1>1, <1>2

LEMMA ScriptJoin ==
  ASSUME NEW s, NEW t, NEW P, IsScript(s, P), IsScript(t, P)
  PROVE  IsScript(s \o t, P) /\ Joins(s \o t, s, t)
<1>1. PICK S : s \in Seq(S) /\ \A x \in S : x.op \in P
  BY DEF IsScript
<1>2. PICK T : t \in Seq(T) /\ \A x \in T : x.op \in P
  BY DEF IsScript
<1> DEFINE u == s \o t
<1>3. u \in Seq(S \cup T) /\ Joins(u, s, t)
  BY <1>1, <1>2, JoinParts DEF Joins
<1>4. \A x \in S \cup T : x.op \in P
  BY <1>1, <1>2
<1> HIDE DEF u
<1> QED BY <1>3, <1>4 DEF IsScript, u

LEMMA ScriptsJoin ==
  ASSUME NEW P
  PROVE  \A s, t : IsScript(s, P) /\ IsScript(t, P) => IsScript(s \o t, P)
BY ScriptJoin

LEMMA ScriptLast ==
  ASSUME NEW s, NEW P, IsScript(s, P), NEW x, x.op \in P
  PROVE  IsScript(s \o <<x>>, P) /\ Extends(s \o <<x>>, s, x)
<1> DEFINE u == <<x>>  t == s \o u
<1>1. IsScript(u, P) /\ Len(u) = 1 /\ u[1] = x
  BY ScriptOne
<1> HIDE DEF u
<1>2. IsScript(t, P) /\ Joins(t, s, u)
  BY <1>1, ScriptJoin
<1>3. 1 \in 1 .. Len(u)
  BY <1>1
<1> HIDE DEF t
<1>4. t[Len(s) + 1] = u[1] /\ Len(t) = Len(s) + 1 /\ \A i \in 1 .. Len(s) : t[i] = s[i]
  BY <1>1, <1>2, <1>3 DEF Joins
<1> QED BY <1>1, <1>2, <1>4 DEF Extends, t, u

\* Joining nothing gives nothing.
LEMMA FlatNone ==
  ASSUME NEW g, NEW x, g = [i \in 1 .. 0 |-> x[i]]
  PROVE  FlattenSeq(g) = <<>>
<1>1. g \in [1 .. 0 -> {}] /\ 0 \in Nat
  OBVIOUS
<1>2. g \in Seq({})
  BY <1>1, SeqDef
<1>3. Len(g) = 0
  BY <1>1, <1>2, LenProperties
<1>4. g = <<>>
  BY <1>2, <1>3, EmptySeq
<1> QED BY <1>3, <1>4 DEF FlattenSeq

LEMMA FlatSteps ==
  ASSUME NEW n \in Nat, n > 0, NEW g, g = [i \in 1 .. n |-> g[i]], NEW T,
         \A i \in 1 .. n : g[i] \in T, \A s \in T, i \in 1 .. n : s \o g[i] \in T
  PROVE  \E f : Joined(n, g, f)
<1> DEFINE f == CHOOSE h : h = Unfold(h, g, n)
<1>1. Len(g) = n /\ \E h : h = Unfold(h, g, n)
  BY Unfolded
<1>2. FlattenSeq(g) = f[n]
  BY <1>1 DEF FlattenSeq, Unfold
<1>3. f = Unfold(f, g, n)
  BY <1>1
<1> HIDE DEF f
<1>4. \A i \in 1 .. n : f[i] = IF i = 1 THEN g[i] ELSE f[i - 1] \o g[i]
  BY <1>3 DEF Unfold
<1> QED BY <1>2, <1>4 DEF Joined

\* What joining keeps in T, joining many keeps in T.
LEMMA FlatIn ==
  ASSUME NEW n \in Nat, n > 0, NEW g, g = [i \in 1 .. n |-> g[i]], NEW T,
         \A i \in 1 .. n : g[i] \in T, \A s \in T, i \in 1 .. n : s \o g[i] \in T
  PROVE  FlattenSeq(g) \in T
<1>1. PICK f : Joined(n, g, f)
  BY FlatSteps
<1> DEFINE U == {i \in Nat : i \in 1 .. n => f[i] \in T}
<1>2. 0 \in U
  OBVIOUS
<1>3. ASSUME NEW i \in Nat, i \in U PROVE i + 1 \in U
  <2> SUFFICES ASSUME i + 1 \in 1 .. n PROVE f[i + 1] \in T
    OBVIOUS
  <2>1. CASE i = 0
    BY <1>1, <2>1 DEF Joined
  <2>2. CASE i # 0
    <3>1. i \in 1 .. n /\ i + 1 # 1 /\ (i + 1) - 1 = i
      BY <2>2
    <3>2. f[i + 1] = f[i] \o g[i + 1] /\ f[i] \in T
      BY <1>1, <1>3, <3>1 DEF Joined
    <3> QED BY <3>2
  <2> QED BY <2>1, <2>2
<1>4. n \in U
  <2> HIDE DEF U
  <2> QED BY <1>2, <1>3, NatSetInduction
<1> QED BY <1>1, <1>4 DEF Joined

LEMMA ScriptFlat ==
  ASSUME NEW n \in Nat, NEW g, g = [i \in 1 .. n |-> g[i]], NEW P,
         \A i \in 1 .. n : IsScript(g[i], P)
  PROVE  IsScript(FlattenSeq(g), P)
<1>0. \A i \in 1 .. n : \E V : g[i] \in Seq(V)
  BY DEF IsScript
<1>1. PICK S : Over(S, g, n)
  BY <1>0, OneSet
<1>2. \A x \in S : x.op \in P
  <2>1. \A i \in 1 .. n : \A j \in 1 .. Len(g[i]) : g[i][j].op \in P
    BY ScriptAt
  <2> QED BY <1>1, <2>1 DEF Over
<1>3. CASE n = 0
  <2>1. FlattenSeq(g) = <<>> /\ <<>> \in Seq(S)
    BY <1>3, FlatNone, EmptySeq
  <2> QED BY <1>2, <2>1 DEF IsScript
<1>4. CASE n > 0
  <2> DEFINE T == Seq(S)
  <2>1. (\A i \in 1 .. n : g[i] \in T) /\ \A s \in T, i \in 1 .. n : s \o g[i] \in T
    BY <1>1 DEF Over
  <2> HIDE DEF T
  <2>2. FlattenSeq(g) \in T
    BY <1>4, <2>1, FlatIn
  <2> QED BY <1>2, <2>2 DEF IsScript, T
<1> QED BY <1>3, <1>4

(* The operations of each tool's script.                                    *)

LEMMA DoScript == ASSUME NEW P, NEW x \in P PROVE IsScript(Do(x), P)
BY ScriptOne DEF Do

LEMMA Pieces ==
  ASSUME NEW P
  PROVE  /\ "speed" \in P => \A mhz : IsScript(SetSpeed(mhz), P)
         /\ "calibrate" \in P => \A n : IsScript(Calibrate(n), P)
         /\ "setup" \in P => \A r, n : IsScript(Setup(r, n), P)
         /\ "run" \in P => \A r : IsScript(Run(r), P)
         /\ "measure" \in P => \A r, n, k, a, l, o : IsScript(Measure(r, n, k, a, l, o), P)
<1>1. "speed" \in P => \A mhz : IsScript(SetSpeed(mhz), P)
  BY ScriptOne DEF SetSpeed
<1>2. "calibrate" \in P => \A n : IsScript(Calibrate(n), P)
  BY ScriptOne DEF Calibrate
<1>3. "setup" \in P => \A r, n : IsScript(Setup(r, n), P)
  BY ScriptOne DEF Setup
<1>4. "run" \in P => \A r : IsScript(Run(r), P)
  BY ScriptOne DEF Run
<1>5. "measure" \in P => \A r, n, k, a, l, o : IsScript(Measure(r, n, k, a, l, o), P)
  BY ScriptOne DEF Measure
<1> QED BY <1>1, <1>2, <1>3, <1>4, <1>5

LEMMA RowsScript ==
  ASSUME NEW r, NEW samples, NEW again
  PROVE  IsScript(Rows(r, samples, again), Rowing)
<1> DEFINE piece(i) == Setup(r, Sizes[i]) \o Measure(r, Sizes[i], samples, again, 1, "usual")
           g == [i \in 1 .. Len(Sizes) |-> piece(i)]
<1>1. Len(Sizes) \in Nat /\ DOMAIN Sizes = 1 .. Len(Sizes)
  BY SizesAssumption, LenProperties
<1>2. \A i \in 1 .. Len(Sizes) : IsScript(piece(i), Rowing)
  BY Pieces, ScriptJoin DEF Rowing
<1>3. Rows(r, samples, again) = FlattenSeq(g)
  BY <1>1 DEF Rows, Cat
<1> HIDE DEF piece
<1>4. g = [i \in 1 .. Len(Sizes) |-> g[i]] /\ \A i \in 1 .. Len(Sizes) : IsScript(g[i], Rowing)
  BY <1>2
<1> HIDE DEF g
<1> QED BY <1>1, <1>3, <1>4, ScriptFlat

LEMMA BlockRowsScript ==
  ASSUME NEW samples
  PROVE  IsScript(BlockRows(samples), Rowing)
<1>1. "setup" \in Rowing /\ "measure" \in Rowing
  BY DEF Rowing
<1>2. /\ IsScript(Setup("chacha20_block", 0), Rowing)
      /\ IsScript(Measure("chacha20_block", 0, samples, FALSE, 1, "usual"), Rowing)
      /\ IsScript(Setup("poly1305_block", 0), Rowing)
      /\ IsScript(Measure("poly1305_block", 0, samples, FALSE, 1, "usual"), Rowing)
  BY <1>1, Pieces
<1> QED BY <1>2, ScriptJoin DEF BlockRows

LEMMA ProloguesScript ==
  /\ IsScript(VicePrologue, Measuring)
  /\ IsScript(U64Prologue, Measuring) /\ Len(U64Prologue) = 5
  /\ U64Prologue[1] = [op |-> "speed", mhz |-> 1] /\ U64Prologue[2] = [op |-> "load"]
  /\ U64Prologue[3] = [op |-> "install"]
  /\ U64Prologue[4] = [op |-> "calibrate", samples |-> 20] /\ U64Prologue[5] = [op |-> "verify"]
<1>1. {"boot", "load", "speed", "install", "calibrate", "verify"} \subseteq Measuring
  BY DEF Measuring
<1>2. /\ IsScript(Do("boot"), Measuring) /\ IsScript(Do("load"), Measuring)
      /\ IsScript(Do("install"), Measuring) /\ IsScript(Do("verify"), Measuring)
      /\ IsScript(SetSpeed(1), Measuring)
      /\ IsScript(Calibrate(10), Measuring) /\ IsScript(Calibrate(20), Measuring)
  BY <1>1, DoScript, Pieces
<1>3. IsScript(VicePrologue, Measuring)
  BY <1>2, ScriptJoin DEF VicePrologue
<1>4. IsScript(U64Prologue, Measuring)
  BY <1>2, ScriptJoin DEF U64Prologue
<1> DEFINE a == [op |-> "speed", mhz |-> 1]  b == [op |-> "load"]  c == [op |-> "install"]
           d == [op |-> "calibrate", samples |-> 20]  e == [op |-> "verify"]
           s1 == <<a>>  s2 == s1 \o <<b>>  s3 == s2 \o <<c>>  s4 == s3 \o <<d>>
<1>5. U64Prologue = s4 \o <<e>>
  BY DEF U64Prologue, SetSpeed, Do, Calibrate
<1>6. /\ a.op \in Measuring /\ b.op \in Measuring /\ c.op \in Measuring /\ d.op \in Measuring
      /\ e.op \in Measuring
  BY DEF Measuring
<1>7. IsScript(s1, Measuring) /\ Len(s1) = 1 /\ s1[1] = a
  BY <1>6, ScriptOne
<1> HIDE DEF a, b, c, d, e, s1
<1>8. /\ IsScript(s2, Measuring) /\ Len(s2) = 2
       /\ s2[1] = a /\ s2[2] = b
  <2>1. IsScript(s2, Measuring) /\ Extends(s2, s1, b)
    BY <1>6, <1>7, ScriptLast
  <2> HIDE DEF s2
  <2> QED BY <2>1, <1>7 DEF Extends
<1> HIDE DEF s2
<1>9. /\ IsScript(s3, Measuring) /\ Len(s3) = 3
       /\ s3[1] = a /\ s3[2] = b /\ s3[3] = c
  <2>1. IsScript(s3, Measuring) /\ Extends(s3, s2, c)
    BY <1>6, <1>8, ScriptLast
  <2> HIDE DEF s3
  <2> QED BY <2>1, <1>8 DEF Extends
<1> HIDE DEF s3
<1>10. /\ IsScript(s4, Measuring) /\ Len(s4) = 4
       /\ s4[1] = a /\ s4[2] = b /\ s4[3] = c /\ s4[4] = d
  <2>1. IsScript(s4, Measuring) /\ Extends(s4, s3, d)
    BY <1>6, <1>9, ScriptLast
  <2> HIDE DEF s4
  <2> QED BY <2>1, <1>9 DEF Extends
<1> HIDE DEF s4
<1>11. /\ IsScript(U64Prologue, Measuring) /\ Len(U64Prologue) = 5
       /\ U64Prologue[1] = a /\ U64Prologue[2] = b /\ U64Prologue[3] = c /\ U64Prologue[4] = d /\ U64Prologue[5] = e
  <2>1. IsScript(U64Prologue, Measuring) /\ Extends(U64Prologue, s4, e)
    BY <1>5, <1>6, <1>10, ScriptLast
  <2> QED BY <2>1, <1>10 DEF Extends
<1> QED BY <1>3, <1>4, <1>11 DEF a, b, c, d, e

LEMMA GranularScript ==
  ASSUME NEW profile, NEW samples
  PROVE  IsScript(GranularRows(profile, samples), Comparing)
<1> DEFINE n == Len(BenchTargets)  piece(i) == GranularRow(BenchTargets[i], profile, samples)
           g == [i \in 1 .. n |-> piece(i)]
<1>1. n \in Nat /\ DOMAIN BenchTargets = 1 .. n
  BY DEF BenchTargets
<1>2. ASSUME NEW t PROVE IsScript(GranularRow(t, profile, samples), Comparing)
  <2> DEFINE need == [op |-> "need", routine |-> t.name, n |-> t.n]
             skip == [op |-> "skip", routine |-> t.name, n |-> t.n]
             compare == [op |-> "compare"]
  <2>1. {"setup", "measure"} \subseteq Comparing /\ {"need", "skip", "compare"} \subseteq Comparing
    BY DEF Comparing, Rowing
  <2>2. IsScript(<<need>>, Comparing) /\ IsScript(<<skip>>, Comparing)
        /\ IsScript(<<compare>>, Comparing)
    BY <2>1, ScriptOne
  <2> HIDE DEF need, skip, compare
  <2>3. \A count, loops :
           IsScript(<<need>> \o Setup(t.name, t.n)
                    \o Measure(t.name, t.n, count, t.again, loops, "usual") \o <<compare>>, Comparing)
    <3> TAKE count, loops
    <3> DEFINE s == Setup(t.name, t.n)  m == Measure(t.name, t.n, count, t.again, loops, "usual")
    <3>1. IsScript(s, Comparing) /\ IsScript(m, Comparing)
      BY <2>1, Pieces
    <3> HIDE DEF s, m
    <3>4. IsScript(<<need>> \o s \o m \o <<compare>>, Comparing)
      BY <2>2, <3>1, ScriptsJoin
    <3> QED BY <3>4 DEF s, m
  <2> QED BY <2>2, <2>3 DEF GranularRow, need, skip, compare
<1>3. GranularRows(profile, samples) = FlattenSeq(g)
  BY <1>1 DEF GranularRows, Cat
<1>4. \A i \in 1 .. n : IsScript(piece(i), Comparing)
  BY <1>2
<1> HIDE DEF piece, n
<1>5. g = [i \in 1 .. n |-> g[i]] /\ \A i \in 1 .. n : IsScript(g[i], Comparing)
  BY <1>4
<1> HIDE DEF g
<1> QED BY <1>1, <1>3, <1>5, ScriptFlat

LEMMA BegunFirst ==
  ASSUME NEW p, NEW P, NEW Q, IsScript(p, P)
  PROVE  Begun(p, p, P, Q)
<1>1. Len(p) \in Nat
  BY ScriptAt
<1> QED BY <1>1 DEF Begun

LEMMA BegunJoin ==
  ASSUME NEW f, NEW p, NEW P, NEW Q, Begun(f, p, P, Q), NEW t, IsScript(t, Q), Q \subseteq P
  PROVE  Begun(f \o t, p, P, Q)
<1> DEFINE u == f \o t  n == Len(f)  m == Len(t)
<1>1. IsScript(f, P) /\ IsScript(t, P)
  BY ScriptMore DEF Begun
<1>2. IsScript(u, P) /\ Joins(u, f, t)
  BY <1>1, ScriptJoin
<1>3. n \in Nat /\ m \in Nat /\ \A i \in 1 .. m : t[i].op \in Q
  BY <1>1, ScriptAt
<1> HIDE DEF u
<1>4. Len(u) = n + m
  BY <1>2 DEF Joins
<1>5. ASSUME NEW i \in 1 .. Len(p) PROVE u[i] = p[i]
  <2>1. i \in 1 .. n
    BY <1>3 DEF Begun
  <2> QED BY <1>2, <2>1 DEF Begun, Joins
<1>6. ASSUME NEW i \in Len(p) + 1 .. Len(u) PROVE u[i].op \in Q
  <2>1. CASE i <= n
    <3>1. i \in 1 .. n /\ i \in Len(p) + 1 .. Len(f)
      BY <1>3, <2>1 DEF Begun
    <3> QED BY <1>2, <3>1 DEF Begun, Joins
  <2>2. CASE ~(i <= n)
    <3>1. i - n \in 1 .. m /\ n + (i - n) = i
      BY <1>3, <1>4, <2>2 DEF Begun
    <3>2. u[n + (i - n)] = t[i - n]
      BY <1>2, <3>1 DEF Joins
    <3> QED BY <1>3, <3>1, <3>2
  <2> QED BY <2>1, <2>2
<1>7. Len(p) \in Nat /\ Len(p) <= Len(u)
  BY <1>3, <1>4 DEF Begun
<1> QED BY <1>2, <1>5, <1>6, <1>7 DEF Begun, u

LEMMA BegunsJoin ==
  ASSUME NEW p, NEW P, NEW Q, Q \subseteq P
  PROVE  \A f, t : Begun(f, p, P, Q) /\ IsScript(t, Q) => Begun(f \o t, p, P, Q)
BY BegunJoin

LEMMA BenchScript ==
  ASSUME NEW c, c.tool = "bench"
  PROVE  IsScript(Whole(c), Ops("bench")) /\ (c.on = "u64" => PrologueFirst(c))
<1> DEFINE P == Ops("bench")  Q == P \ {"verify"}
           b == BlockRows(c.samples)  r == Rows("aead_encrypt", c.samples, FALSE)
           s == Rows("aead_decrypt", c.samples, TRUE)  e == Do("end")
<1>1. Measuring \subseteq P /\ Rowing \subseteq Q /\ Q \subseteq P /\ "end" \in Q
  BY DEF Ops, Measuring, Rowing
<1> HIDE DEF P, Q
<1>2. IsScript(b, Q) /\ IsScript(r, Q) /\ IsScript(s, Q) /\ IsScript(e, Q)
  <2>1. IsScript(b, Rowing) /\ IsScript(r, Rowing) /\ IsScript(s, Rowing)
    BY BlockRowsScript, RowsScript
  <2>2. IsScript(e, Q)
    BY <1>1, DoScript
  <2> HIDE DEF b, r, s, e
  <2>3. IsScript(b, Q) /\ IsScript(r, Q) /\ IsScript(s, Q)
    BY <1>1, <2>1, ScriptMore
  <2> QED BY <2>2, <2>3
<1> HIDE DEF b, r, s, e
<1>3. ASSUME NEW p, IsScript(p, P) PROVE Begun(p \o b \o r \o s \o e, p, P, Q)
  <2>1. Begun(p, p, P, Q)
    BY <1>3, BegunFirst
  <2> QED BY <1>1, <1>2, <2>1, BegunsJoin
<1>4. IsScript(VicePrologue, P) /\ IsScript(U64Prologue, P)
  BY <1>1, ProloguesScript, ScriptMore
<1>5. CASE c.on = "u64"
  <2>1. Whole(c) = U64Prologue \o b \o r \o s \o e
    BY <1>5 DEF Whole, Script, BenchU64, b, r, s, e
  <2>2. Begun(Whole(c), U64Prologue, P, Q)
    BY <1>3, <1>4, <2>1
  <2> QED BY <2>2 DEF Begun, PrologueFirst, P, Q
<1>6. CASE c.on # "u64"
  <2>1. Whole(c) = VicePrologue \o b \o r \o s \o e
    BY <1>6 DEF Whole, Script, BenchVice, b, r, s, e
  <2>2. Begun(Whole(c), VicePrologue, P, Q)
    BY <1>3, <1>4, <2>1
  <2> QED BY <1>6, <2>2 DEF Begun, P
<1> QED BY <1>5, <1>6

LEMMA SweepScript ==
  ASSUME NEW c, c.tool = "sweep"
  PROVE  /\ IsScript(Whole(c), Ops("sweep")) /\ (c.on = "u64" => PrologueFirst(c))
         /\ ColumnLast(c)
<1> DEFINE P == Ops("sweep")  Q == P \ {"verify"}
           r == Rows("aead_encrypt", c.samples, FALSE)
           load == [op |-> "load sidecar", tag |-> c.profile]  save == [op |-> "save sidecar"]
           saved == [op |-> "saved", tag |-> c.profile]  k == Column(c.profile)  e == Do("end")
<1>1. Measuring \subseteq P /\ Rowing \subseteq Q /\ Rowing \subseteq Measuring /\ Q \subseteq P
      /\ {"load sidecar", "save sidecar", "saved", "end"} \subseteq Q
  BY DEF Ops, Measuring, Rowing
<1> HIDE DEF P, Q
<1>2. IsScript(r, Rowing)
  BY RowsScript
<1>3. IsScript(k, Q) /\ Len(k) = 3 /\ k[1] = load /\ k[2] = save /\ k[3] = saved
  <2>1. load.op \in Q /\ save.op \in Q /\ saved.op \in Q
    BY <1>1
  <2>2. k = <<load, save, saved>>
    BY DEF Column
  <2> HIDE DEF load, save, saved, k
  <2>3. k \in Seq({load, save, saved}) /\ \A x \in {load, save, saved} : x.op \in Q
    BY <2>1, <2>2
  <2>4. IsScript(k, Q)
    BY <2>3 DEF IsScript
  <2> QED BY <2>2, <2>4
<1>4. IsScript(e, Q) /\ e = <<[op |-> "end"]>>
  BY <1>1, DoScript DEF Do
<1>5. IsScript(r, Q)
  BY <1>1, <1>2, ScriptMore
<1> HIDE DEF r, k, load, save, saved, e
<1>6. ASSUME NEW p, IsScript(p, Measuring), Whole(c) = (p \o r) \o k \o e
      PROVE  /\ Begun(Whole(c), p, P, Q)
             /\ ColumnLast(c)
  <2>1. Begun(p, p, P, Q)
    <3>1. IsScript(p, P)
      BY <1>1, <1>6, ScriptMore
    <3> QED BY <3>1, BegunFirst
  <2> DEFINE f == p \o r  g == f \o k  h == g \o e  n == Len(f)
  <2>2. Begun(f, p, P, Q)
    BY <1>1, <1>5, <2>1, BegunJoin
  <2>3. Begun(g, p, P, Q)
    BY <1>1, <1>3, <2>2, BegunJoin
  <2>4. Begun(h, p, P, Q)
    BY <1>1, <1>4, <2>3, BegunJoin
  <2>5. /\ IsScript(f, Measuring) /\ Joins(f, p, r)
    <3>1. IsScript(r, Measuring)
      BY <1>1, <1>2, ScriptMore
    <3> QED BY <1>6, <3>1, ScriptJoin
  <2>6. Joins(g, f, k)
    <3>1. IsScript(f, P) /\ IsScript(k, P)
      BY <1>1, <1>3, <2>2, ScriptMore DEF Begun
    <3> QED BY <3>1, ScriptJoin
  <2>7. Extends(h, g, [op |-> "end"])
    <3>1. IsScript(g, P)
      BY <2>3 DEF Begun
    <3>2. [op |-> "end"].op \in P
      BY <1>1
    <3> QED BY <1>4, <3>1, <3>2, ScriptLast
  <2>8. Whole(c) = h
    BY <1>6
  <2>9. Len(p) \in Nat /\ Len(r) \in Nat
    BY <1>2, <1>6, ScriptAt
  <2> HIDE DEF f, g, h
  <2>10. n \in Nat /\ Len(f) = n /\ Len(g) = n + 3 /\ Len(h) = n + 4
         /\ \A i \in 1 .. n : f[i].op \in Measuring
    <3>1. Len(f) = Len(p) + Len(r) /\ Len(g) = Len(f) + Len(k) /\ Len(h) = Len(g) + 1
      BY <2>5, <2>6, <2>7 DEF Joins, Extends
    <3>2. \A i \in 1 .. Len(f) : f[i].op \in Measuring
      BY <2>5, ScriptAt
    <3> QED BY <1>3, <1>6, <2>9, <3>1, <3>2
  <2> HIDE DEF n
  <2>11. h[n + 4] = [op |-> "end"] /\ \A i \in 1 .. n + 3 : h[i] = g[i]
    BY <2>7, <2>10 DEF Extends
  <2>12. g[n + 1] = load /\ g[n + 2] = save /\ g[n + 3] = saved /\ \A i \in 1 .. n : g[i] = f[i]
    <3>1. 1 \in 1 .. Len(k) /\ 2 \in 1 .. Len(k) /\ 3 \in 1 .. Len(k)
      BY <1>3
    <3> QED BY <1>3, <2>6, <2>10, <3>1 DEF Joins
  <2>13. /\ (n + 4) - 3 = n + 1 /\ (n + 4) - 2 = n + 2 /\ (n + 4) - 1 = n + 3 /\ (n + 4) - 4 = n
         /\ n + 4 >= 4 /\ n + 1 \in 1 .. n + 3 /\ n + 2 \in 1 .. n + 3 /\ n + 3 \in 1 .. n + 3
    BY <2>10
  <2>14. \A i \in 1 .. n : h[i].op \in Measuring
    <3>1. \A i \in 1 .. n : i \in 1 .. n + 3
      BY <2>10
    <3> QED BY <2>10, <2>11, <2>12, <3>1
  <2>15. ColumnLast(c)
    <3>1. h[n + 1] = load /\ h[n + 2] = save /\ h[n + 3] = saved
      BY <2>11, <2>12, <2>13
    <3>2. /\ Len(h) >= 4 /\ h[Len(h) - 3] = load /\ h[Len(h) - 2] = save
          /\ h[Len(h) - 1] = saved /\ h[Len(h)] = [op |-> "end"]
      BY <2>10, <2>11, <2>13, <3>1
    <3>3. \A i \in 1 .. Len(h) - 4 : h[i].op \in Measuring
      BY <2>10, <2>13, <2>14
    <3> QED BY <2>8, <3>2, <3>3 DEF ColumnLast, load, save, saved
  <2> QED BY <2>4, <2>8, <2>15
<1>7. IsScript(VicePrologue, Measuring) /\ IsScript(U64Prologue, Measuring)
  BY ProloguesScript
<1>8. CASE c.on = "u64"
  <2>1. Whole(c) = (U64Prologue \o r) \o k \o e
    BY <1>8 DEF Whole, Script, RunSweep, SweepU64, r, k, e
  <2>2. Begun(Whole(c), U64Prologue, P, Q) /\ ColumnLast(c)
    BY <1>6, <1>7, <2>1
  <2> QED BY <2>2 DEF Begun, PrologueFirst, P, Q
<1>9. CASE c.on # "u64"
  <2>1. Whole(c) = (VicePrologue \o r) \o k \o e
    BY <1>9 DEF Whole, Script, RunSweep, SweepVice, r, k, e
  <2>2. Begun(Whole(c), VicePrologue, P, Q) /\ ColumnLast(c)
    BY <1>6, <1>7, <2>1
  <2> QED BY <1>9, <2>2 DEF Begun, P
<1> QED BY <1>8, <1>9

LEMMA BenchCheckScript ==
  ASSUME NEW c, c.tool = "bench-check"
  PROVE  IsScript(Whole(c), Ops("bench-check")) /\ (c.on = "u64" => PrologueFirst(c))
<1> DEFINE P == Ops("bench-check")  Q == P \ {"verify"}
           r == GranularRows(c.profile, c.samples)  g == Do("gate")  e == Do("end")
<1>1. Measuring \subseteq P /\ Comparing \subseteq Q /\ Q \subseteq P /\ "gate" \in Q /\ "end" \in Q
  BY DEF Ops, Measuring, Comparing, Rowing
<1> HIDE DEF P, Q
<1>2. IsScript(r, Q) /\ IsScript(g, Q) /\ IsScript(e, Q)
  <2>1. IsScript(r, Comparing)
    BY GranularScript
  <2>2. IsScript(g, Q) /\ IsScript(e, Q)
    BY <1>1, DoScript
  <2> HIDE DEF r, g, e
  <2>3. IsScript(r, Q)
    BY <1>1, <2>1, ScriptMore
  <2> QED BY <2>2, <2>3
<1> HIDE DEF r, g, e
<1>3. ASSUME NEW p, IsScript(p, P) PROVE Begun(p \o r \o g \o e, p, P, Q)
  <2>1. Begun(p, p, P, Q)
    BY <1>3, BegunFirst
  <2> QED BY <1>1, <1>2, <2>1, BegunsJoin
<1>4. IsScript(VicePrologue, P) /\ IsScript(U64Prologue, P)
  BY <1>1, ProloguesScript, ScriptMore
<1>5. CASE c.on = "u64"
  <2>1. Whole(c) = U64Prologue \o r \o g \o e
    BY <1>5 DEF Whole, Script, BenchCheck, GranularU64, r, g, e
  <2>2. Begun(Whole(c), U64Prologue, P, Q)
    BY <1>3, <1>4, <2>1
  <2> QED BY <2>2 DEF Begun, PrologueFirst, P, Q
<1>6. CASE c.on # "u64"
  <2>1. Whole(c) = VicePrologue \o r \o g \o e
    BY <1>6 DEF Whole, Script, BenchCheck, GranularVice, r, g, e
  <2>2. Begun(Whole(c), VicePrologue, P, Q)
    BY <1>3, <1>4, <2>1
  <2> QED BY <1>6, <2>2 DEF Begun, P
<1> QED BY <1>5, <1>6

\* The rest, of which only the names of the operations matter.
LEMMA CtScript ==
  ASSUME NEW c, c.tool = "ct"
  PROVE  IsScript(Whole(c), Ops("ct"))
<1> DEFINE P == Ops("ct")  n == Len(CtRoutines)  m == Len(Classes)
           routine(i) == CtRoutine(CtRoutines[i], c.samples)  g == [i \in 1 .. n |-> routine(i)]
<1>1. Timing \subseteq P /\ "end" \in P
  BY DEF Ops
<1>2. /\ {"boot", "blank", "install", "exact", "ct row", "ct routine", "ct verdict"} \subseteq Timing
      /\ {"measure", "run", "calibrate"} \subseteq Timing
  BY DEF Timing
<1>3. ASSUME NEW r PROVE IsScript(CtRoutine(r, c.samples), Timing)
  <2> DEFINE class(i) == Measure(r, 0, c.samples, TRUE, 1, Classes[i]) \o Do("ct row")
             h == [i \in 1 .. m |-> class(i)]
  <2>1. m \in Nat /\ DOMAIN Classes = 1 .. m
    BY SizesAssumption, LenProperties
  <2>2. \A i \in 1 .. m : IsScript(class(i), Timing)
    <3> TAKE i \in 1 .. m
    <3> DEFINE s == Measure(r, 0, c.samples, TRUE, 1, Classes[i])  t == Do("ct row")
    <3>1. IsScript(s, Timing) /\ IsScript(t, Timing)
      BY <1>2, Pieces, DoScript
    <3> HIDE DEF s, t
    <3>2. IsScript(s \o t, Timing)
      BY <3>1, ScriptJoin
    <3> QED BY <3>2 DEF s, t
  <2>3. CtRoutine(r, c.samples) = FlattenSeq(h) \o Do("ct routine")
    BY <2>1 DEF CtRoutine, Cat
  <2> HIDE DEF class, m
  <2>4. h = [i \in 1 .. m |-> h[i]] /\ \A i \in 1 .. m : IsScript(h[i], Timing)
    BY <2>2
  <2> HIDE DEF h
  <2>5. IsScript(FlattenSeq(h), Timing)
    BY <2>1, <2>4, ScriptFlat
  <2>6. IsScript(Do("ct routine"), Timing)
    BY <1>2, DoScript
  <2> QED BY <2>3, <2>5, <2>6, ScriptJoin
<1>4. n \in Nat /\ DOMAIN CtRoutines = 1 .. n
  BY DEF CtRoutines
<1> DEFINE all == FlattenSeq(g)  before == Do("boot") \o Do("blank") \o Do("install")
           setup == Calibrate(10)  init == Run("poly1305_lib_init")
<1>5. IsScript(all, Timing)
  <2>1. \A i \in 1 .. n : IsScript(routine(i), Timing)
    BY <1>3
  <2> HIDE DEF routine, n
  <2>2. g = [i \in 1 .. n |-> g[i]] /\ \A i \in 1 .. n : IsScript(g[i], Timing)
    BY <2>1
  <2> HIDE DEF g
  <2> QED BY <1>4, <2>2, ScriptFlat
<1>6. Whole(c) = before \o setup \o Do("exact") \o init \o all \o Do("ct verdict") \o Do("end")
  BY <1>4 DEF Whole, Script, CtChecks, Cat
<1>7. IsScript(before, Timing)
  <2>1. IsScript(Do("boot"), Timing) /\ IsScript(Do("blank"), Timing)
        /\ IsScript(Do("install"), Timing)
    BY <1>2, DoScript
  <2> QED BY <2>1, ScriptJoin
<1>8. IsScript(setup, Timing) /\ IsScript(init, Timing) /\ IsScript(Do("exact"), Timing)
      /\ IsScript(Do("ct verdict"), Timing)
  BY <1>2, DoScript, Pieces
<1>9. IsScript(Do("end"), P)
  BY <1>1, DoScript
<1> HIDE DEF all, before, setup, init, P
<1>14. IsScript(before \o setup \o Do("exact") \o init \o all \o Do("ct verdict"), Timing)
  BY <1>5, <1>7, <1>8, ScriptsJoin
<1>15. IsScript(before \o setup \o Do("exact") \o init \o all \o Do("ct verdict"), P)
  BY <1>1, <1>14, ScriptMore
<1>16. IsScript(Whole(c), P)
  BY <1>6, <1>9, <1>15, ScriptJoin
<1> QED BY <1>16 DEF P

LEMMA HazmatScript ==
  ASSUME NEW c, c.tool = "hazmat"
  PROVE  IsScript(Whole(c), Ops("hazmat"))
<1> DEFINE P == Ops("hazmat")
           start == IF c.on = "u64" THEN SetSpeed(1) \o Do("load") ELSE Do("boot")
<1>1. {"boot", "load", "speed", "known answer", "fuzz", "result", "end"} \subseteq P
  BY DEF Ops, Fuzzing
<1> HIDE DEF P
<1>2. IsScript(start, P)
  <2>1. IsScript(SetSpeed(1), P) /\ IsScript(Do("load"), P) /\ IsScript(Do("boot"), P)
    BY <1>1, Pieces, DoScript
  <2>2. IsScript(SetSpeed(1) \o Do("load"), P)
    BY <2>1, ScriptJoin
  <2> QED BY <2>1, <2>2
<1>3. \A category : IsScript(Fuzz(category), P)
  <2> TAKE category
  <2> DEFINE x == [op |-> "fuzz", category |-> category]
  <2>1. x.op \in P
    BY <1>1
  <2> HIDE DEF x
  <2>2. IsScript(<<x>>, P)
    BY <2>1, ScriptOne
  <2> QED BY <2>2 DEF Fuzz, x
<1>4. IsScript(Do("known answer"), P) /\ IsScript(Do("result"), P) /\ IsScript(Do("end"), P)
  BY <1>1, DoScript
<1>5. Whole(c) = start \o Do("known answer") \o Fuzz("chacha20_block") \o Fuzz("chacha20_encrypt")
                   \o Fuzz("poly1305") \o Fuzz("aead_verify_tag") \o Fuzz("wrap_guard")
                   \o Fuzz("aead") \o Do("result") \o Do("end")
  BY DEF Whole, Script, Hazmat
<1> HIDE DEF start
<1>6. IsScript(Whole(c), P)
  BY <1>2, <1>3, <1>4, <1>5, ScriptsJoin
<1> QED BY <1>6 DEF P

LEMMA AuditScript ==
  ASSUME NEW c, c.tool = "audit"
  PROVE  IsScript(Whole(c), Ops("audit"))
<1> DEFINE P == Ops("audit")
           start == IF c.on = "u64" THEN SetSpeed(1) \o Do("load") ELSE Do("boot")
           of(category) == Vectors(category, c.counts)
<1>1. {"boot", "load", "speed", "vectors", "summary", "end"} \subseteq P
  BY DEF Ops, Auditing
<1> HIDE DEF P
<1>2. IsScript(start, P)
  <2>1. IsScript(SetSpeed(1), P) /\ IsScript(Do("load"), P) /\ IsScript(Do("boot"), P)
    BY <1>1, Pieces, DoScript
  <2>2. IsScript(SetSpeed(1) \o Do("load"), P)
    BY <2>1, ScriptJoin
  <2> QED BY <2>1, <2>2
<1>3. \A category : IsScript(of(category), P)
  <2> TAKE category
  <2> DEFINE x == [op |-> "vectors", category |-> category, count |-> c.counts[category]]
  <2>1. x.op \in P
    BY <1>1
  <2> HIDE DEF x
  <2>2. IsScript(<<x>>, P)
    BY <2>1, ScriptOne
  <2> QED BY <2>2 DEF Vectors, x
<1>4. IsScript(Do("summary"), P) /\ IsScript(Do("end"), P)
  BY <1>1, DoScript
<1>5. Whole(c) = start \o of("chacha20") \o of("poly1305") \o of("aead") \o of("tamper")
                   \o Do("summary") \o Do("end")
  BY DEF Whole, Script, Audit
<1> HIDE DEF start, of
<1>6. IsScript(Whole(c), P)
  BY <1>2, <1>3, <1>4, <1>5, ScriptsJoin
<1> QED BY <1>6 DEF P

LEMMA TurboScript ==
  ASSUME NEW c, c.tool = "turbo", c.speeds \in Seq(Nat)
  PROVE  IsScript(Whole(c), Ops("turbo")) /\ TryFinally(c)
<1> DEFINE P == Ops("turbo")  Q == Rowing \cup {"load", "install", "turbo", "calibrate"}
           m == Len(c.speeds)
           leg(mhz) == <<[op |-> "turbo", mhz |-> mhz]>> \o Calibrate(15)
             \o Setup("chacha20_block", 0) \o Setup("poly1305_block", 0) \o Setup("aead_encrypt", 2)
             \o Measure("chacha20_block", 0, 2 * c.samples, FALSE, 1, "usual")
             \o Measure("poly1305_block", 0, 2 * c.samples, FALSE, 1, "usual")
             \o Measure("aead_encrypt", 2, c.samples, FALSE, 1, "usual")
           g == [i \in 1 .. m |-> leg(c.speeds[i])]  legs == FlattenSeq(g)
           one == [op |-> "speed", mhz |-> 1]  s1 == SetSpeed(1)  try == [op |-> "try"]
           fin == [op |-> "finally"]  end == [op |-> "end"]
           s2 == s1 \o <<try>>  s4 == s2 \o Do("load") \o Do("install")  s5 == s4 \o legs
           s6 == s5 \o <<fin>>  s7 == s6 \o <<one>>  s8 == s7 \o <<end>>
<1>1. Q \subseteq P /\ {"speed", "try", "finally", "end"} \subseteq P
      /\ {"setup", "measure", "load", "install", "turbo", "calibrate"} \subseteq Q
  BY DEF Ops, Rowing
<1>2. m \in Nat /\ DOMAIN c.speeds = 1 .. m
  BY LenProperties
<1>3. Whole(c) = s8
  BY <1>2 DEF Whole, Script, TurboSweep, Cat, Do, SetSpeed
<1> HIDE DEF P, Q
<1>4. ASSUME NEW mhz PROVE IsScript(leg(mhz), Q)
  <2> DEFINE t == [op |-> "turbo", mhz |-> mhz]
             a == Calibrate(15)  b == Setup("chacha20_block", 0)  d == Setup("poly1305_block", 0)
             e == Setup("aead_encrypt", 2)
             f == Measure("chacha20_block", 0, 2 * c.samples, FALSE, 1, "usual")
             h == Measure("poly1305_block", 0, 2 * c.samples, FALSE, 1, "usual")
             k == Measure("aead_encrypt", 2, c.samples, FALSE, 1, "usual")
  <2>1. IsScript(a, Q) /\ IsScript(b, Q) /\ IsScript(d, Q) /\ IsScript(e, Q) /\ IsScript(f, Q)
        /\ IsScript(h, Q) /\ IsScript(k, Q)
    BY <1>1, Pieces
  <2>2. t.op \in Q
    BY <1>1
  <2> HIDE DEF t, a, b, d, e, f, h, k
  <2>3. IsScript(<<t>>, Q)
    BY <2>2, ScriptOne
  <2>4. IsScript(<<t>> \o a \o b \o d \o e \o f \o h \o k, Q)
    BY <2>1, <2>3, ScriptsJoin
  <2> QED BY <2>4 DEF t, a, b, d, e, f, h, k
<1>5. IsScript(legs, Q)
  <2> HIDE DEF leg, m
  <2>1. g = [i \in 1 .. m |-> g[i]] /\ \A i \in 1 .. m : IsScript(g[i], Q)
    BY <1>4
  <2> HIDE DEF g
  <2> QED BY <1>2, <2>1, ScriptFlat
<1>6. /\ one.op \in P /\ try.op \in P /\ fin.op \in P /\ end.op \in P
  BY <1>1
<1>7. IsScript(s1, P) /\ Len(s1) = 1 /\ s1[1] = one
  BY <1>6, ScriptOne DEF SetSpeed
<1>8. IsScript(Do("load"), Q) /\ IsScript(Do("install"), Q) /\ IsScript(s1, P)
  BY <1>1, <1>7, DoScript
<1>a. try.op = "try" /\ fin.op = "finally" /\ end.op = "end"
  OBVIOUS
<1> HIDE DEF s1, one, try, fin, end, legs
<1>9. IsScript(s2, P) /\ Len(s2) = 2 /\ s2[1] = one /\ s2[2] = try
  <2>1. IsScript(s2, P) /\ Extends(s2, s1, try)
    BY <1>6, <1>7, ScriptLast
  <2> HIDE DEF s2
  <2> QED BY <1>7, <2>1 DEF Extends
<1> HIDE DEF s2
<1>10. Begun(s5, s2, P, Q)
  <2>1. Begun(s2, s2, P, Q)
    BY <1>9, BegunFirst
  <2> QED BY <1>1, <1>5, <1>8, <2>1, BegunsJoin
<1>11. Len(s4) = 4 /\ Len(s5) >= 4
  <2> DEFINE load == Do("load")  install == Do("install")  s3 == s2 \o load
  <2>1. Len(load) = 1 /\ Len(install) = 1
    BY DEF Do
  <2>2. IsScript(load, P) /\ IsScript(install, P) /\ IsScript(legs, P)
    BY <1>1, <1>5, <1>8, ScriptMore
  <2>a. s4 = s3 \o install
    OBVIOUS
  <2> HIDE DEF load, install, s4
  <2>3. IsScript(s3, P) /\ Joins(s3, s2, load)
    BY <1>9, <2>2, ScriptJoin
  <2> HIDE DEF s3
  <2>5. IsScript(s4, P) /\ Joins(s4, s3, install)
    BY <2>2, <2>3, <2>a, ScriptJoin
  <2>6. Joins(s5, s4, legs)
    BY <2>2, <2>5, ScriptJoin
  <2>7. Len(legs) \in Nat
    BY <1>5, ScriptAt
  <2> HIDE DEF s5
  <2>8. Len(s3) = 3
    <3>1. Len(s3) = Len(s2) + Len(load)
      BY <2>3 DEF Joins
    <3> QED BY <1>9, <2>1, <3>1
  <2>9. Len(s4) = 4
    <3>1. Len(s4) = Len(s3) + Len(install)
      BY <2>5 DEF Joins
    <3> QED BY <2>1, <2>8, <3>1
  <2>10. Len(s5) = Len(s4) + Len(legs)
    BY <2>6 DEF Joins
  <2> QED BY <2>7, <2>9, <2>10
<1> DEFINE n == Len(s5)
<1> HIDE DEF s4
<1>12. IsScript(s5, P) /\ n \in Nat /\ n >= 4 /\ s5[1] = one /\ s5[2] = try
       /\ \A i \in 3 .. n : s5[i].op \in Q
  <2>1. n \in Nat
    BY <1>10, ScriptAt DEF Begun
  <2> HIDE DEF s5
  <2> QED BY <1>9, <1>10, <1>11, <2>1 DEF Begun
<1>b. s6 = s5 \o <<fin>> /\ s7 = s6 \o <<one>> /\ s8 = s7 \o <<end>> /\ n = Len(s5)
  OBVIOUS
<1> HIDE DEF s5, s6, s7, s8, n
<1>13. IsScript(s6, P) /\ Extends(s6, s5, fin)
  BY <1>6, <1>12, <1>b, ScriptLast
<1>14. IsScript(s7, P) /\ Extends(s7, s6, one)
  BY <1>6, <1>13, <1>b, ScriptLast
<1>15. IsScript(s8, P) /\ Extends(s8, s7, end)
  BY <1>6, <1>14, <1>b, ScriptLast
<1>16. Len(s6) = n + 1 /\ Len(s7) = n + 2 /\ Len(s8) = n + 3
  BY <1>12, <1>13, <1>14, <1>15, <1>b DEF Extends
<1>17. s6[n + 1] = fin /\ s7[n + 2] = one /\ s8[n + 3] = end
  BY <1>12, <1>13, <1>14, <1>15, <1>16, <1>b DEF Extends
<1>18. /\ \A i \in 1 .. n : s6[i] = s5[i]
       /\ \A i \in 1 .. n + 1 : s7[i] = s6[i]
       /\ \A i \in 1 .. n + 2 : s8[i] = s7[i]
  BY <1>13, <1>14, <1>15, <1>16, <1>b DEF Extends
<1>19. \A i \in 1 .. n : s8[i] = s5[i]
  <2> TAKE i \in 1 .. n
  <2>1. i \in 1 .. n + 1 /\ i \in 1 .. n + 2
    BY <1>12
  <2> QED BY <1>18, <2>1
<1>20. s8[n + 1] = fin /\ s8[n + 2] = one
  <2>1. n + 1 \in 1 .. n + 1 /\ n + 1 \in 1 .. n + 2 /\ n + 2 \in 1 .. n + 2
    BY <1>12
  <2> QED BY <1>17, <1>18, <2>1
<1>21. TryFinally(c)
  <2>1. /\ n + 3 >= 7 /\ (n + 3) - 2 = n + 1 /\ (n + 3) - 1 = n + 2 /\ (n + 3) - 3 = n
        /\ 1 \in 1 .. n /\ 2 \in 1 .. n
    BY <1>12
  <2>2. s8[1] = one /\ s8[2] = try
    BY <1>12, <1>19, <2>1
  <2>3. \A i \in 3 .. n : s8[i].op \in Q
    <3>1. \A i \in 3 .. n : i \in 1 .. n
      BY <1>12
    <3> QED BY <1>12, <1>19, <3>1
  <2> QED BY <1>3, <1>16, <1>17, <1>20, <1>a, <2>1, <2>2, <2>3 DEF TryFinally, one, Q
<1> QED BY <1>3, <1>15, <1>21 DEF P

-----------------------------------------------------------------------------
(* Where a session stands.                                                  *)

LEMMA WholeScript ==
  ASSUME NEW c, Well(c)
  PROVE  IsScript(Whole(c), Ops(c.tool))
<1>1. c.tool \in {"bench", "sweep", "bench-check", "turbo", "ct", "hazmat", "audit"}
  BY DEF Well, Tools
<1>2. c.tool = "turbo" => c.speeds \in Seq(Nat)
  BY DEF Well
<1> QED BY <1>1, <1>2, BenchScript, SweepScript, BenchCheckScript, TurboScript, CtScript,
           HazmatScript, AuditScript

LEMMA FullSeq ==
  ASSUME Well(tool)
  PROVE  /\ Len(Full) \in Nat /\ \E S : Full \in Seq(S)
         /\ \A i \in 1 .. Len(Full) : Full[i].op \in Ops(tool.tool)
<1>1. IsScript(Full, Ops(tool.tool))
  BY WholeScript DEF Full
<1> QED BY <1>1, ScriptAt DEF IsScript

\* From the k-th operation on.
LEMMA RestIs ==
  ASSUME Well(tool), NEW k \in 1 .. Len(Full) + 1
  PROVE  /\ Len(Rest(k)) = Len(Full) - k + 1 /\ DOMAIN Rest(k) = 1 .. Len(Rest(k))
         /\ \A i \in 1 .. Len(Rest(k)) : Rest(k)[i] = Full[k + i - 1]
         /\ Rest(k) = <<>> <=> k = Len(Full) + 1
         /\ k <= Len(Full) => Head(Rest(k)) = Full[k] /\ Tail(Rest(k)) = Rest(k + 1)
         /\ \A m \in 1 .. Len(Rest(k)) + 1 : SubSeq(Rest(k), m, Len(Rest(k))) = Rest(k + m - 1)
<1>1. PICK S : Full \in Seq(S)
  BY FullSeq
<1> DEFINE r == Rest(k)
<1>2. /\ r \in Seq(S) /\ Len(r) = Len(Full) - k + 1
      /\ \A i \in 1 .. Len(r) : r[i] = Full[k + i - 1]
      /\ r = <<>> <=> k = Len(Full) + 1
      /\ k <= Len(Full) => Head(r) = Full[k] /\ Tail(r) = SubSeq(Full, k + 1, Len(Full))
      /\ \A m \in 1 .. Len(r) + 1 : SubSeq(r, m, Len(r)) = SubSeq(Full, k + m - 1, Len(Full))
  BY <1>1, Suffix DEF Rest
<1>3. DOMAIN r = 1 .. Len(r)
  BY <1>2, LenProperties
<1>4. Rest(k + 1) = SubSeq(Full, k + 1, Len(Full))
      /\ \A m \in 1 .. Len(r) + 1 : Rest(k + m - 1) = SubSeq(Full, k + m - 1, Len(Full))
  BY DEF Rest
<1> HIDE DEF r
<1> QED BY <1>2, <1>3, <1>4 DEF r

LEMMA MinIn ==
  ASSUME NEW S \in SUBSET Nat, S # {}
  PROVE  Min(S) \in S
BY Least DEF Min

\* The operation in hand.
LEMMA Cursor ==
  ASSUME Desk, script # <<>>
  PROVE  /\ Well(tool) /\ on = tool.on /\ Left /\ outcome \notin {"none", "killed"}
         /\ Len(Full) \in Nat /\ Position \in 1 .. Len(Full)
         /\ Tail(script) = Rest(Position + 1)
         /\ \/ script = Rest(Position) /\ Head(script) = Full[Position]
            \/ Full[Position].op = "skip" /\ Head(script) = [op |-> "compare"]
<1>1. Well(tool) /\ on = tool.on /\ Left /\ outcome \notin {"none", "killed"}
  BY DEF Desk
<1>2. Len(Full) \in Nat
  BY <1>1, FullSeq
<1> DEFINE k == Position  n == Len(Full)  compare == [op |-> "compare"]
<1>3. k \in 1 .. n + 1
  BY <1>1 DEF Left
<1>4. CASE script = Rest(k)
  <2>1. k \in 1 .. n
    <3>1. k # n + 1
      BY <1>1, <1>3, <1>4, RestIs
    <3> HIDE DEF k, n
    <3> QED BY <1>2, <1>3, <3>1 DEF n
  <2>2. Head(script) = Full[k] /\ Tail(script) = Rest(k + 1)
    <3> HIDE DEF k
    <3> QED BY <1>1, <1>3, <1>4, <2>1, RestIs
  <2> QED BY <1>1, <1>2, <1>4, <2>1, <2>2
<1>5. CASE k <= n /\ Full[k].op = "skip" /\ script = <<compare>> \o Rest(k + 1)
  <2>1. k \in 1 .. n /\ k + 1 \in 1 .. n + 1
    <3> HIDE DEF k, n
    <3> QED BY <1>2, <1>3, <1>5 DEF n
  <2>2. PICK S : Full \in Seq(S)
    BY <1>1, FullSeq
  <2> DEFINE r == Rest(k + 1)  u == <<compare>>  T == S \cup {compare}
  <2>3. r \in Seq(S)
    BY <2>1, <2>2, Suffix DEF Rest
  <2>4. u \in Seq(T) /\ Len(u) = 1 /\ u[1] = compare
    OBVIOUS
  <2>5. r \in Seq(T) /\ S \subseteq T
    BY <2>3, SeqMonotonic
  <2>6. script = u \o r
    BY <1>5
  <2> HIDE DEF r, u, T, compare
  <2>7. Head(script) = compare /\ Tail(script) = r
    BY <2>4, <2>5, <2>6, HeadTailOfJoin
  <2> QED BY <1>1, <1>2, <1>5, <2>1, <2>7 DEF r, compare
<1> QED BY <1>1, <1>4, <1>5 DEF Left

\* A session of the same tool whose script is now what is left from k on.
LEMMA Moved ==
  ASSUME Well(tool), tool' = tool, NEW k \in 1 .. Len(Full) + 1, script' = Rest(k)
  PROVE  Full' = Full /\ Position' = k /\ Left'
<1>1. Full' = Full /\ Rest(k)' = Rest(k)
  BY DEF Full, Rest
<1>2. Len(Full) \in Nat /\ Len(Rest(k)) = Len(Full) - k + 1
  BY FullSeq, RestIs
<1>3. Position' = Len(Full) - Len(Rest(k)) + 1
  BY <1>1 DEF Position
<1>4. Position' = k
  <2> DEFINE n == Len(Full)  p == Position'  m == Len(Rest(k))
  <2>1. n \in Nat /\ m = n - k + 1 /\ p = n - m + 1 /\ k \in 1 .. n + 1
    BY <1>2, <1>3
  <2> HIDE DEF n, p, m
  <2>2. p = k
    BY <2>1
  <2> QED BY <2>2 DEF p
<1>5. script' = Rest(Position)'
  BY <1>1, <1>4 DEF Rest
<1> QED BY <1>1, <1>4, <1>5 DEF Left

LEMMA Stayed ==
  ASSUME Left, UNCHANGED <<tool, script>>
  PROVE  Full' = Full /\ Position' = Position /\ Left'
<1>1. Full' = Full
  BY DEF Full
<1>2. Position' = Position
  BY <1>1 DEF Position
<1>3. Rest(Position)' = Rest(Position) /\ Rest(Position + 1)' = Rest(Position + 1)
  BY <1>1, <1>2 DEF Rest
<1> QED BY <1>1, <1>2, <1>3 DEF Left

\* Nothing left.
LEMMA Emptied ==
  ASSUME Well(tool), tool' = tool, script' = <<>>
  PROVE  Full' = Full /\ Position' = Len(Full) + 1 /\ Left'
<1>1. Len(Full) \in Nat
  BY FullSeq
<1>2. Len(Full) + 1 \in 1 .. Len(Full) + 1
  BY <1>1
<1>3. Rest(Len(Full) + 1) = <<>>
  BY <1>2, RestIs
<1> QED BY <1>2, <1>3, Moved

\* What is left is a script of the same tool.
LEMMA HereScript ==
  ASSUME Desk, script # <<>>
  PROVE  IsScript(script, Ops(tool.tool)) /\ Head(script).op \in Ops(tool.tool)
<1>1. /\ Well(tool) /\ Left /\ Len(Full) \in Nat /\ Position \in 1 .. Len(Full)
  BY Cursor
<1> DEFINE P == Ops(tool.tool)
<1>2. IsScript(Full, P)
  BY <1>1, WholeScript DEF Full
<1>3. PICK S : Full \in Seq(S) /\ \A x \in S : x.op \in P
  BY <1>2 DEF IsScript
<1>4. \A k \in 1 .. Len(Full) + 1 : IsScript(Rest(k), P)
  BY <1>3, Suffix DEF Rest, IsScript
<1>5. Position \in 1 .. Len(Full) + 1 /\ Position + 1 \in 1 .. Len(Full) + 1
  <2> DEFINE k == Position
  <2> HIDE DEF k
  <2> QED BY <1>1 DEF k
<1>6. IsScript(script, P)
  <2>1. CASE script = Rest(Position)
    BY <1>4, <1>5, <2>1
  <2>2. CASE Full[Position].op = "skip" /\ script = <<[op |-> "compare"]>> \o Rest(Position + 1)
    <3>1. "skip" \in P
      BY <1>1, <2>2, FullSeq
    <3>2. "compare" \in P
      <4>1. tool.tool \in Tools
        BY <1>1 DEF Well
      <4> QED BY <3>1, <4>1 DEF Ops, Tools, Measuring, Comparing, Rowing, Timing, Fuzzing, Auditing
    <3> DEFINE x == [op |-> "compare"]
    <3>3. x.op \in P
      BY <3>2
    <3> HIDE DEF P, x
    <3>4. IsScript(<<x>>, P)
      BY <3>3, ScriptOne
    <3>5. IsScript(<<x>> \o Rest(Position + 1), P)
      BY <1>4, <1>5, <3>4, ScriptJoin
    <3> QED BY <2>2, <3>5 DEF x
  <2> QED BY <1>1, <2>1, <2>2 DEF Left
<1>7. Head(script) = script[1] /\ 1 \in 1 .. Len(script)
  <2>1. PICK T : script \in Seq(T)
    BY <1>6 DEF IsScript
  <2> QED BY <2>1, EmptySeq, HeadTailProperties
<1> QED BY <1>6, <1>7, ScriptAt

\* But in the middle of a turbo sweep, an exception leaves nothing to do.
LEMMA Leaving ==
  ASSUME Desk, script # <<>>
  PROVE  /\ tool.tool # "turbo" => Finally(script) = <<>>
         /\ tool.tool = "turbo" =>
              IF Position \in 3 .. Len(Full) - 2 THEN Finally(script) = Rest(Len(Full) - 2)
              ELSE Finally(script) = <<>>
<1>1. Well(tool) /\ Left /\ Len(Full) \in Nat /\ Position \in 1 .. Len(Full)
  BY Cursor
<1>2. IsScript(script, Ops(tool.tool))
  BY HereScript
<1>3. Len(script) \in Nat /\ DOMAIN script = 1 .. Len(script)
      /\ \A i \in 1 .. Len(script) : script[i].op \in Ops(tool.tool)
  BY <1>2, ScriptAt
<1>4. ASSUME tool.tool # "turbo" PROVE Finally(script) = <<>>
  <2>1. "finally" \notin Ops(tool.tool)
    <3>1. tool.tool \in Tools
      BY <1>1 DEF Well
    <3> QED BY <1>4, <3>1 DEF Ops, Tools, Measuring, Comparing, Rowing, Timing, Fuzzing, Auditing
  <2>2. At(script, "finally") = {}
    BY <1>3, <2>1 DEF At
  <2> QED BY <2>2 DEF Finally
<1>5. ASSUME tool.tool = "turbo"
      PROVE  IF Position \in 3 .. Len(Full) - 2 THEN Finally(script) = Rest(Len(Full) - 2)
             ELSE Finally(script) = <<>>
  <2> DEFINE n == Len(Full)  k == Position
  <2>1. TryFinally(tool)
    BY <1>1, <1>5, TurboScript DEF Well
  <2>2. /\ n >= 7 /\ Full[1].op = "speed" /\ Full[2].op = "try" /\ Full[n - 2].op = "finally"
        /\ Full[n - 1].op = "speed" /\ Full[n].op = "end"
        /\ \A i \in 3 .. n - 3 :
             Full[i].op \in Rowing \cup {"load", "install", "turbo", "calibrate"}
    BY <2>1 DEF TryFinally, Full
  <2>3. script = Rest(k)
    <3>1. "skip" \notin Ops(tool.tool)
      BY <1>5 DEF Ops, Rowing
    <3>2. Full[k].op \in Ops(tool.tool)
      BY <1>1, FullSeq
    <3> QED BY <1>1, <3>1, <3>2 DEF Left
  <2>4. /\ k \in 1 .. n + 1 /\ Len(script) = n - k + 1
        /\ \A i \in 1 .. n - k + 1 : script[i] = Full[k + i - 1]
        /\ \A m \in 1 .. Len(script) + 1 : SubSeq(script, m, Len(script)) = Rest(k + m - 1)
    <3>1. k \in 1 .. n + 1
      <4> HIDE DEF k, n
      <4> QED BY <1>1 DEF k, n
    <3> HIDE DEF k
    <3> QED BY <1>1, <2>3, <3>1, RestIs
  <2>5. n \in Nat /\ k \in 1 .. n
    BY <1>1
  <2> HIDE DEF n, k
  <2>6. \A i \in 1 .. n : Full[i].op = "finally" <=> i = n - 2
    <3>1. \A i \in 1 .. n : i \in 3 .. n - 3 \/ i \in {1, 2, n - 2, n - 1, n}
      BY <2>2, <2>5
    <3> QED BY <2>2, <3>1 DEF Rowing
  <2>7. \A i \in 1 .. n : Full[i].op = "try" <=> i = 2
    <3>1. \A i \in 1 .. n : i \in 3 .. n - 3 \/ i \in {1, 2, n - 2, n - 1, n}
      BY <2>2, <2>5
    <3> QED BY <2>2, <3>1 DEF Rowing
  <2>8. \A i \in 1 .. n - k + 1 : k + i - 1 \in 1 .. n
    BY <2>5
  <2>a. \A i \in 1 .. n - k + 1 : script[i].op = Full[k + i - 1].op
    BY <2>4
  <2>b. \A o : At(script, o) = {i \in 1 .. n - k + 1 : script[i].op = o}
    BY <1>3, <2>4 DEF At
  <2>9. At(script, "finally") = {i \in 1 .. n - k + 1 : k + i - 1 = n - 2}
    <3>1. \A i \in 1 .. n - k + 1 : script[i].op = "finally" <=> k + i - 1 = n - 2
      BY <2>6, <2>8, <2>a
    <3> QED BY <2>b, <3>1
  <2>10. At(script, "try") = {i \in 1 .. n - k + 1 : k + i - 1 = 2}
    <3>1. \A i \in 1 .. n - k + 1 : script[i].op = "try" <=> k + i - 1 = 2
      BY <2>7, <2>8, <2>a
    <3> QED BY <2>b, <3>1
  <2>11. CASE k \in 3 .. n - 2
    <3>a. n >= 7 /\ n - 1 - k \in 1 .. n - k + 1
      BY <2>2, <2>5, <2>11
    <3>b. \A i \in 1 .. n - k + 1 : k + i - 1 = n - 2 <=> i = n - 1 - k
      BY <2>5
    <3>c. \A i \in 1 .. n - k + 1 : k + i - 1 # 2
      BY <2>5, <2>11
    <3>d. At(script, "finally") = {n - 1 - k}
      BY <2>9, <3>a, <3>b
    <3>1. At(script, "finally") = {n - 1 - k} /\ At(script, "try") = {}
      BY <2>10, <3>c, <3>d
    <3>2. n - 1 - k \in Nat /\ n - 1 - k \in 1 .. Len(script) + 1 /\ k + (n - 1 - k) - 1 = n - 2
      BY <2>4, <2>5, <2>11
    <3>3. Min({n - 1 - k}) = n - 1 - k
      <4>1. {n - 1 - k} \in SUBSET Nat /\ {n - 1 - k} # {}
        BY <3>2
      <4>2. Min({n - 1 - k}) \in {n - 1 - k}
        BY <4>1, MinIn
      <4> QED BY <4>2
    <3>4. Finally(script) = SubSeq(script, n - 1 - k, Len(script))
      BY <3>1, <3>3 DEF Finally
    <3>5. Finally(script) = Rest(n - 2)
      BY <2>4, <3>2, <3>4
    <3> QED BY <2>11, <3>5 DEF n, k
  <2>12. CASE k \notin 3 .. n - 2
    <3>1. At(script, "finally") = {} \/ At(script, "try") # {}
      <4>1. CASE k <= 2
        <5>1. 3 - k \in 1 .. n - k + 1 /\ k + (3 - k) - 1 = 2
          BY <2>2, <2>5, <4>1
        <5> QED BY <2>10, <5>1
      <4>2. CASE k > n - 2
        BY <2>5, <2>9, <4>2
      <4> QED BY <2>5, <2>12, <4>1, <4>2
    <3>2. Finally(script) = <<>>
      BY <3>1 DEF Finally
    <3> QED BY <2>12, <3>2 DEF n, k
  <2> QED BY <2>11, <2>12
<1> QED BY <1>4, <1>5

(* The steps.                                                               *)

LEMMA PlainMachine ==
  ASSUME MachineStep, UNCHANGED toolVars
  PROVE  /\ script # <<>> /\ on' = on
         /\ Plain \/ ChangeSpeed \/ Prologuing
<1>1. ASSUME Boot PROVE script # <<>> /\ on' = on /\ Plain
  BY <1>1 DEF Boot, Now, Advance, Plain, Marked, toolVars, measureVars
<1>2. ASSUME Blank PROVE script # <<>> /\ on' = on /\ Plain
  BY <1>2 DEF Blank, Now, Advance, Plain, Marked, toolVars, measureVars
<1>3. ASSUME SetupRoutine PROVE script # <<>> /\ on' = on /\ Plain
  BY <1>3 DEF SetupRoutine, Now, Advance, Plain, Marked, toolVars, measureVars
<1>4. ASSUME RunRoutine PROVE script # <<>> /\ on' = on /\ Plain
  BY <1>4 DEF RunRoutine, Now, Advance, Plain, Marked, toolVars, measureVars
<1>5. ASSUME Sample PROVE script # <<>> /\ on' = on /\ Plain
  BY <1>5 DEF Sample, Now, Advance, Plain, Marked, toolVars, measureVars
<1>6. ASSUME Record PROVE script # <<>> /\ on' = on /\ Plain
  BY <1>6 DEF Record, Now, Advance, Plain, Marked, toolVars, measureVars
<1>7. ASSUME Enter PROVE script # <<>> /\ on' = on /\ Plain
  BY <1>7 DEF Enter, Now, Advance, Plain, Marked, toolVars, measureVars
<1>8. ASSUME End PROVE script # <<>> /\ on' = on /\ Plain
  BY <1>8 DEF End, Now, Advance, Plain, Marked, Endings, toolVars, measureVars
<1>9. ASSUME ChangeSpeed \/ Prologuing PROVE script # <<>> /\ on' = on
  BY <1>9 DEF ChangeSpeed, Prologuing, LoadPrg, InstallWrapper, CalibrateWrapper, VerifyWrapper, Now
<1> QED BY <1>1, <1>2, <1>3, <1>4, <1>5, <1>6, <1>7, <1>8, <1>9 DEF MachineStep, Prologuing

LEMMA PlainTool ==
  ASSUME ToolStep
  PROVE  /\ script # <<>> /\ on' = on
         /\ Plain \/ Turbo \/ Columning
<1>1. ASSUME NeedSymbol PROVE script # <<>> /\ on' = on /\ Plain
  BY <1>1 DEF NeedSymbol, Same, Now, Advance, Plain, Marked, toolVars
<1>2. ASSUME SkipRow PROVE script # <<>> /\ on' = on /\ Plain
  BY <1>2 DEF SkipRow, Same, Now, Advance, Plain, Marked, toolVars
<1>3. ASSUME CompareRow PROVE script # <<>> /\ on' = on /\ Plain
  BY <1>3 DEF CompareRow, Same, Now, Advance, Plain, Marked
<1>4. ASSUME Gate PROVE script # <<>> /\ on' = on /\ Plain
  BY <1>4 DEF Gate, Same, Now, Advance, Leave, Plain, Marked, Endings
<1>5. ASSUME NeedExact PROVE script # <<>> /\ on' = on /\ Plain
  BY <1>5 DEF NeedExact, Same, Now, Advance, Leave, Plain, Marked, Endings
<1>6. ASSUME CtRow PROVE script # <<>> /\ on' = on /\ Plain
  BY <1>6 DEF CtRow, Same, Now, Advance, Plain, Marked
<1>7. ASSUME CtOfRoutine PROVE script # <<>> /\ on' = on /\ Plain
  BY <1>7 DEF CtOfRoutine, Same, Now, Advance, Plain, Marked
<1>8. ASSUME CtVerdict PROVE script # <<>> /\ on' = on /\ Plain
  BY <1>8 DEF CtVerdict, Same, Now, Leave, Plain, Marked, Endings, toolVars
<1>9. ASSUME Turbo \/ Columning PROVE script # <<>> /\ on' = on
  BY <1>9 DEF Turbo, Columning, LoadSidecar, TruncateSidecar, SaveSidecar, Same, Now
<1> QED BY <1>1, <1>2, <1>3, <1>4, <1>5, <1>6, <1>7, <1>8, <1>9 DEF ToolStep, Columning

LEMMA PlainFuzz ==
  ASSUME OnFuzz
  PROVE  script # <<>> /\ on' = on /\ tool' = tool /\ machine' = machine /\ Plain
<1>1. ASSUME CheckGlue PROVE script # <<>> /\ on' = on /\ tool' = tool /\ machine' = machine /\ Plain
  BY <1>1 DEF CheckGlue, Same, Working, Now, Advance, Leave, Plain, Marked, Endings, toolVars
<1>2. ASSUME FuzzCategory PROVE script # <<>> /\ on' = on /\ tool' = tool /\ machine' = machine /\ Plain
  BY <1>2 DEF FuzzCategory, Same, Working, Now, Advance, Plain, Marked, toolVars
<1>3. ASSUME Result PROVE script # <<>> /\ on' = on /\ tool' = tool /\ machine' = machine /\ Plain
  BY <1>3 DEF Result, Same, Working, Now, Advance, Leave, Plain, Marked, Endings, toolVars
<1>4. ASSUME Vector PROVE script # <<>> /\ on' = on /\ tool' = tool /\ machine' = machine /\ Plain
  <2>1. script' = script \/ script' = Tail(script)
    BY <1>4 DEF Vector, EndVector, Advance
  <2> QED BY <1>4, <2>1 DEF Vector, Same, Working, Now, Plain, Marked, toolVars
<1>5. ASSUME VectorPair PROVE script # <<>> /\ on' = on /\ tool' = tool /\ machine' = machine /\ Plain
  <2>1. script' = script \/ script' = Tail(script)
    BY <1>5 DEF VectorPair, EndVector, Advance
  <2> QED BY <1>5, <2>1 DEF VectorPair, Same, Working, Now, Plain, Marked, toolVars
<1>6. ASSUME NoVectors PROVE script # <<>> /\ on' = on /\ tool' = tool /\ machine' = machine /\ Plain
  BY <1>6 DEF NoVectors, Same, Working, Now, Advance, Plain, Marked, toolVars
<1>7. ASSUME Summary PROVE script # <<>> /\ on' = on /\ tool' = tool /\ machine' = machine /\ Plain
  BY <1>7 DEF Summary, Same, Working, Now, Advance, Leave, Plain, Marked, Endings, toolVars
<1> QED BY <1>1, <1>2, <1>3, <1>4, <1>5, <1>6, <1>7 DEF OnFuzz

LEMMA Dispatch ==
  ASSUME Next
  PROVE  \/ \E c \in Commands : Invoke(c)
         \/ Neighbour
         \/ Moving /\ script # <<>> /\ UNCHANGED <<on, tool>>
<1>1. ASSUME OnMachine PROVE Moving /\ script # <<>> /\ UNCHANGED <<on, tool>>
  BY <1>1, PlainMachine DEF OnMachine, Working, Moving
<1>2. ASSUME OnTool PROVE Moving /\ script # <<>> /\ UNCHANGED <<on, tool>>
  BY <1>2, PlainTool DEF OnTool, Working, Moving
<1>3. ASSUME OnFuzz PROVE Moving /\ script # <<>> /\ UNCHANGED <<on, tool>>
  BY <1>3, PlainFuzz DEF Moving
<1>4. ASSUME Interrupt \/ Kill PROVE Moving /\ script # <<>> /\ UNCHANGED <<on, tool>>
  BY <1>4 DEF Interrupt, Kill, Same, Working, Moving
<1> QED BY <1>1, <1>2, <1>3, <1>4 DEF Next

LEMMA Advanced ==
  ASSUME Desk, script # <<>>, tool' = tool, script' = Tail(script)
  PROVE  Full' = Full /\ Left' /\ Position' = Position + 1
<1>1. /\ Well(tool) /\ Len(Full) \in Nat /\ Position \in 1 .. Len(Full)
      /\ script' = Rest(Position + 1)
  BY Cursor
<1>2. Position + 1 \in 1 .. Len(Full) + 1
  <2> DEFINE k == Position
  <2> HIDE DEF k
  <2> QED BY <1>1 DEF k
<1> QED BY <1>1, <1>2, Moved

LEMMA Thrown ==
  ASSUME Desk, script # <<>>, tool' = tool, script' = Finally(script)
  PROVE  /\ Full' = Full /\ Left'
         /\ IF tool.tool = "turbo" /\ Position \in 3 .. Len(Full) - 2
            THEN Position' = Len(Full) - 2 ELSE Position' = Len(Full) + 1
<1>1. Well(tool) /\ Len(Full) \in Nat /\ Position \in 1 .. Len(Full)
  BY Cursor
<1>2. CASE tool.tool = "turbo" /\ Position \in 3 .. Len(Full) - 2
  <2>1. Finally(script) = Rest(Len(Full) - 2)
    BY <1>2, Leaving
  <2>2. Len(Full) - 2 \in 1 .. Len(Full) + 1
    <3> DEFINE k == Position
    <3> HIDE DEF k
    <3> QED BY <1>1, <1>2 DEF k
  <2> QED BY <1>1, <1>2, <2>1, <2>2, Moved
<1>3. CASE ~(tool.tool = "turbo" /\ Position \in 3 .. Len(Full) - 2)
  <2>1. Finally(script) = <<>>
    BY <1>3, Leaving
  <2> QED BY <1>1, <1>3, <2>1, Emptied
<1> QED BY <1>2, <1>3

LEMMA ThrownGoes ==
  ASSUME Desk, script # <<>>, tool' = tool, script' = Finally(script)
  PROVE  Full' = Full /\ Left' /\ Goes
<1>1. Full' = Full /\ Left' /\ Len(Full) \in Nat
      /\ IF tool.tool = "turbo" /\ Position \in 3 .. Len(Full) - 2
         THEN Position' = Len(Full) - 2 ELSE Position' = Len(Full) + 1
  BY Cursor, Thrown
<1> DEFINE n == Len(Full)  k == Position
<1>2. k \in 3 .. n - 2 => n - 2 \in k .. n - 2
  <2> HIDE DEF n, k
  <2> QED BY <1>1 DEF n
<1> QED BY <1>1, <1>2 DEF Goes

LEMMA PlainGoes ==
  ASSUME Desk, script # <<>>, tool' = tool, Plain
  PROVE  Full' = Full /\ Left' /\ Goes
<1>1. /\ Well(tool) /\ Left /\ Len(Full) \in Nat /\ Position \in 1 .. Len(Full)
      /\ Tail(script) = Rest(Position + 1)
      /\ \/ script = Rest(Position) /\ Head(script) = Full[Position]
         \/ Full[Position].op = "skip" /\ Head(script) = [op |-> "compare"]
  BY Cursor
<1> DEFINE n == Len(Full)  k == Position
<1>a. k \in 1 .. n + 1 /\ k + 1 \in 1 .. n + 1
  <2> HIDE DEF k, n
  <2> QED BY <1>1 DEF k, n
<1>2. CASE script' = script
  BY <1>1, <1>2, Stayed DEF Goes
<1>3. CASE script' = Tail(script)
  BY <1>3, Advanced DEF Goes
<1>4. CASE script' = Finally(script)
  BY <1>4, ThrownGoes
<1>5. CASE Head(script).op = "need" /\ script' = SubSeq(script, 4, Len(script))
  <2>1. script = Rest(k)
    BY <1>1, <1>5
  <2>2. tool.tool = "bench-check"
    <3>1. "need" \in Ops(tool.tool) /\ tool.tool \in Tools
      BY <1>1, <1>5, HereScript DEF Well
    <3> QED BY <3>1 DEF Ops, Tools, Measuring, Comparing, Rowing, Timing, Fuzzing, Auditing
  <2> DEFINE r == Rest(k)  m == Len(r)
  <2>3. m = n - k + 1 /\ \A j \in 1 .. m + 1 : SubSeq(r, j, m) = Rest(k + j - 1)
    <3> HIDE DEF k
    <3> QED BY <1>1, <1>a, RestIs
  <2>4. script' = SubSeq(r, 4, m)
    BY <1>5, <2>1
  <2> HIDE DEF r, m
  <2>5. CASE m >= 3
    <3>1. 4 \in 1 .. m + 1 /\ k + 4 - 1 \in 1 .. n + 1 /\ k + 4 - 1 \in k .. n + 1
      <4> HIDE DEF k, n
      <4> QED BY <1>1, <1>a, <2>3, <2>5 DEF n, k
    <3>2. script' = Rest(k + 4 - 1)
      BY <2>3, <2>4, <3>1
    <3>3. Full' = Full /\ Left' /\ Position' = k + 4 - 1
      <4> DEFINE p == k + 4 - 1
      <4> HIDE DEF k, p
      <4> QED BY <1>1, <3>1, <3>2, Moved DEF p
    <3> QED BY <2>2, <3>1, <3>3 DEF Goes
  <2>6. CASE ~(m >= 3)
    <3>1. m \in Int /\ m < 4
      <4> HIDE DEF k, n
      <4> QED BY <1>1, <1>a, <2>3, <2>6 DEF n, k
    <3>2. script' = <<>>
      BY <2>4, <3>1, SubSeqEmpty
    <3> QED BY <1>1, <2>2, <3>2, Emptied DEF Goes
  <2> QED BY <2>5, <2>6
<1>6. CASE Head(script).op = "skip" /\ script' = <<[op |-> "compare"]>> \o Tail(script)
  <2>1. script = Rest(k) /\ Full[k].op = "skip"
    BY <1>1, <1>6
  <2> DEFINE x == [op |-> "compare"]  u == <<x>>  r == Rest(k + 1)  w == u \o r
  <2>2. Len(Rest(k)) = n - k + 1 /\ Len(r) = n - (k + 1) + 1
    <3> HIDE DEF k
    <3> QED BY <1>1, <1>a, RestIs
  <2>3. w = script' /\ Len(w) = 1 + Len(r)
    <3>1. PICK S : Full \in Seq(S)
      BY <1>1, FullSeq
    <3> DEFINE T == S \cup {x}
    <3>2. r \in Seq(S)
      <4> HIDE DEF k
      <4> QED BY <1>a, <3>1, Suffix DEF Rest
    <3>3. u \in Seq(T) /\ r \in Seq(T) /\ Len(u) = 1
      BY <3>2, SeqMonotonic
    <3>4. w = script'
      BY <1>1, <1>6
    <3> HIDE DEF T, u, r
    <3> QED BY <3>3, <3>4, ConcatProperties
  <2>4. Full' = Full /\ Rest(k + 1)' = Rest(Position' + 1) /\ Position' = n - Len(w) + 1
        /\ (Position' = k => Rest(Position + 1)' = r)
    BY <2>3 DEF Full, Rest, Position
  <2>5. Position' = k
    <3> DEFINE p == Position'  l == Len(r)
    <3>1. p = n - (1 + l) + 1 /\ l = n - (k + 1) + 1
      BY <2>2, <2>3, <2>4
    <3> HIDE DEF p, l, n, k
    <3>2. p = k
      BY <1>1, <3>1 DEF n, k
    <3> QED BY <3>2 DEF p
  <2>6. Left'
    <3>1. Position' \in 1 .. Len(Full') + 1 /\ Position' <= Len(Full') /\ Full'[Position'].op = "skip"
      BY <1>1, <1>a, <2>1, <2>4, <2>5
    <3>2. script' = <<[op |-> "compare"]>> \o Rest(Position + 1)'
      BY <2>3, <2>4, <2>5
    <3> QED BY <3>1, <3>2 DEF Left
  <2> QED BY <2>4, <2>5, <2>6 DEF Goes
<1> QED BY <1>2, <1>3, <1>4, <1>5, <1>6 DEF Plain

\* A rejected speed is skipped: on to the next one or to the finally clause.
LEMMA SkippedGoes ==
  ASSUME Desk, Now("turbo"), tool' = tool, script' = NextTurbo(script)
  PROVE  /\ Full' = Full /\ Left' /\ Goes
         /\ \E i \in 1 .. Len(Tail(script)) :
              /\ Tail(script)[i].op \in {"turbo", "finally"}
              /\ script' = SubSeq(Tail(script), i, Len(Tail(script)))
<1>0. script # <<>> /\ Head(script).op = "turbo"
  BY DEF Now
<1>1. /\ Well(tool) /\ Left /\ Len(Full) \in Nat /\ Position \in 1 .. Len(Full)
      /\ Tail(script) = Rest(Position + 1) /\ Head(script) = Full[Position]
  BY <1>0, Cursor
<1>2. tool.tool = "turbo"
  <2>1. "turbo" \in Ops(tool.tool) /\ tool.tool \in Tools
    BY <1>0, <1>1, HereScript DEF Well
  <2> QED BY <2>1 DEF Ops, Tools, Measuring, Comparing, Rowing, Timing, Fuzzing, Auditing
<1> DEFINE n == Len(Full)  k == Position  r == Rest(k + 1)  m == Len(r)
<1>3. TryFinally(tool)
  BY <1>1, <1>2, TurboScript DEF Well
<1>4. /\ n >= 7 /\ Full[1].op = "speed" /\ Full[2].op = "try" /\ Full[n - 2].op = "finally"
      /\ Full[n - 1].op = "speed" /\ Full[n].op = "end"
      /\ \A i \in 3 .. n - 3 :
           Full[i].op \in Rowing \cup {"load", "install", "turbo", "calibrate"}
  BY <1>3 DEF TryFinally, Full
<1>5. k \in 3 .. n - 3
  <2>1. Full[k].op = "turbo"
    BY <1>0, <1>1
  <2> HIDE DEF k, n
  <2>2. k \in 3 .. n - 3 \/ k \in {1, 2, n - 2, n - 1, n}
    BY <1>1, <1>4 DEF k, n
  <2> QED BY <1>4, <2>1, <2>2
<1>a. k + 1 \in 1 .. n + 1
  <2> HIDE DEF k, n
  <2> QED BY <1>1, <1>5 DEF n
<1>6. /\ m = n - (k + 1) + 1 /\ DOMAIN r = 1 .. m
      /\ \A i \in 1 .. m : r[i] = Full[(k + 1) + i - 1]
      /\ \A i \in 1 .. m + 1 : SubSeq(r, i, m) = Rest((k + 1) + i - 1)
  BY <1>1, <1>a, RestIs
<1> DEFINE S == At(r, "turbo") \cup At(r, "finally")  q == Min(S)
<1>7. script' = SubSeq(r, q, m)
  BY <1>1 DEF NextTurbo
<1>n. n \in Nat
  BY <1>1
<1> HIDE DEF n, k, r, m
<1>8. S = {i \in 1 .. m : Full[(k + 1) + i - 1].op \in {"turbo", "finally"}}
  BY <1>6 DEF At
<1> HIDE DEF S
<1>9. n - 2 - k \in S
  <2>1. n - 2 - k \in 1 .. m /\ (k + 1) + (n - 2 - k) - 1 = n - 2
    BY <1>5, <1>6, <1>n
  <2> QED BY <1>4, <1>8, <2>1
<1>10. S \in SUBSET Nat /\ S # {}
  <2>1. \A i \in S : i \in Nat
    BY <1>6, <1>8
  <2> QED BY <1>9, <2>1
<1>11. q \in S
  BY <1>10, MinIn
<1> HIDE DEF q
<1> DEFINE j == (k + 1) + q - 1
<1>12. q \in 1 .. m /\ Full[j].op \in {"turbo", "finally"}
  BY <1>8, <1>11
<1>13. j \in k + 1 .. n /\ j \in 1 .. n + 1 /\ q \in 1 .. m + 1
  BY <1>5, <1>6, <1>12, <1>n
<1>x. script' = Rest(j)
  BY <1>6, <1>7, <1>13
<1>y. r[q].op \in {"turbo", "finally"}
  BY <1>6, <1>12
<1> HIDE DEF j
<1>14. j \in k .. n - 2
  <2>1. j # n - 1 /\ j # n
    BY <1>4, <1>12
  <2> QED BY <1>5, <1>13, <1>n, <2>1
<1>15. Full' = Full /\ Left' /\ Position' = j
  BY <1>1, <1>13, <1>x, Moved DEF n
<1>16. k \in 3 .. n - 2
  BY <1>5, <1>n
<1>17. \E i \in 1 .. Len(r) : r[i].op \in {"turbo", "finally"} /\ script' = SubSeq(r, i, Len(r))
  BY <1>7, <1>12, <1>y DEF m
<1>18. Tail(script) = r
  BY <1>1 DEF r, k
<1> QED BY <1>2, <1>14, <1>15, <1>16, <1>17, <1>18 DEF Goes, n, k

\* Every step of a session leaves it at an operation of its script.
LEMMA MovingGoes ==
  ASSUME Desk, script # <<>>, tool' = tool, on' = on, Moving
  PROVE  Full' = Full /\ Left' /\ Goes /\ Desk'
<1>1. Well(tool) /\ on = tool.on /\ outcome \notin {"none", "killed"}
  BY Cursor
<1>2. ASSUME Full' = Full /\ Left', outcome' \in {"none", "killed"} => script' = <<>>
      PROVE  Desk'
  <2>1. Well(tool)' /\ (on = tool.on)'
    BY <1>1 DEF Well
  <2> QED BY <1>2, <2>1 DEF Desk
<1>3. ASSUME script' = Tail(script) PROVE Full' = Full /\ Left' /\ Goes
  BY <1>3, Advanced DEF Goes
<1>4. CASE Plain
  <2>1. Full' = Full /\ Left' /\ Goes
    BY <1>4, PlainGoes
  <2>2. outcome' \notin {"none", "killed"}
    BY <1>1, <1>4 DEF Plain, Endings
  <2> QED BY <1>2, <2>1, <2>2
<1>5. CASE ChangeSpeed /\ UNCHANGED toolVars
  <2>1. script' = Tail(script) /\ outcome' = outcome
    BY <1>5 DEF ChangeSpeed, Advance
  <2> QED BY <1>1, <1>2, <1>3, <2>1
<1>6. CASE Prologuing /\ UNCHANGED toolVars
  <2>1. script' \in {Tail(script), Finally(script)} /\ outcome' \notin {"none", "killed"}
    BY <1>1, <1>6 DEF Prologuing, LoadPrg, InstallWrapper, CalibrateWrapper, VerifyWrapper,
                      Advance, Leave
  <2> QED BY <1>2, <1>3, <2>1, ThrownGoes
<1>7. CASE Turbo
  <2>1. script' \in {Tail(script), NextTurbo(script)} /\ outcome' = outcome /\ Now("turbo")
    BY <1>7 DEF Turbo, Advance
  <2> QED BY <1>1, <1>2, <1>3, <2>1, SkippedGoes
<1>8. CASE Columning
  <2>1. script' = Tail(script) /\ outcome' = outcome
    BY <1>8 DEF Columning, LoadSidecar, TruncateSidecar, SaveSidecar, Advance
  <2> QED BY <1>1, <1>2, <1>3, <2>1
<1>9. CASE Interrupt
  <2>1. script' = Finally(script) /\ outcome' = "interrupted"
    BY <1>9 DEF Interrupt, Leave
  <2> QED BY <1>2, <2>1, ThrownGoes
<1>10. CASE Kill
  <2>1. script' = <<>> /\ outcome' = "killed"
    BY <1>10 DEF Kill
  <2> QED BY <1>1, <1>2, <2>1, Emptied DEF Goes
<1> QED BY <1>4, <1>5, <1>6, <1>7, <1>8, <1>9, <1>10 DEF Moving

\* What a session is started with.
LEMMA Invoked ==
  ASSUME Desk, NEW c \in Commands, Invoke(c)
  PROVE  /\ Well(tool') /\ tool'.tool = c.tool /\ tool'.on = c.on /\ tool'.before = speed
         /\ Full' = script' /\ Position' = 1 /\ Len(Full') \in Nat /\ Desk'
         /\ \A o \in Options(c.tool) : tool'[o] = c[o]
<1> DEFINE t == tool'
<1>1. /\ {"tool", "on", "image"} \subseteq DOMAIN c
      /\ c.tool \in Tools /\ Options(c.tool) \subseteq DOMAIN c
      /\ c.on \in Backends /\ (c.tool = "turbo" => c.speeds \in Seq(Nat))
  BY CommandsAssumption
<1>2. t = With(c, "before", speed) /\ script' = Whole(c) /\ on' = c.on /\ outcome' = "running"
  BY DEF Invoke, Whole
<1>3. t.before = speed /\ \A y \in DOMAIN c : y # "before" => t[y] = c[y]
  <2> DEFINE w == With(c, "before", speed)
  <2>1. w["before"] = speed /\ \A y \in DOMAIN c : y # "before" => w[y] = c[y]
    BY DEF With
  <2>2. t = w
    BY <1>2
  <2> HIDE DEF t, w
  <2> QED BY <2>1, <2>2
<1> HIDE DEF t
<1>4. t.tool = c.tool /\ t.on = c.on
  BY <1>1, <1>3
<1>5. \A o \in Options(c.tool) : t[o] = c[o]
  <2>1. "before" \notin Options(c.tool)
    BY DEF Options
  <2> QED BY <1>1, <1>3, <2>1
<1>6. c.tool = "turbo" => t.speeds = c.speeds
  <2>1. c.tool = "turbo" => "speeds" \in Options(c.tool)
    BY DEF Options
  <2> QED BY <1>5, <2>1
<1>7. Well(t)
  BY <1>1, <1>4, <1>6 DEF Well
<1>8. Script(t) = Script(c)
  <2>1. CASE c.tool \in {"bench", "sweep", "bench-check", "ct"}
    <3>1. "samples" \in Options(c.tool) /\ "profile" \in Options(c.tool)
      BY <2>1 DEF Options
    <3>2. t.samples = c.samples /\ t.profile = c.profile
      BY <1>5, <3>1
    <3> QED BY <1>4, <2>1, <3>2 DEF Script
  <2>2. CASE c.tool = "turbo"
    <3>1. "samples" \in Options(c.tool)
      BY <2>2 DEF Options
    <3>2. t.samples = c.samples
      BY <1>5, <3>1
    <3> QED BY <1>4, <1>6, <2>2, <3>2 DEF Script
  <2>3. CASE c.tool = "hazmat"
    BY <1>4, <2>3 DEF Script
  <2>4. CASE c.tool = "audit"
    <3>1. "counts" \in Options(c.tool)
      BY <2>4 DEF Options
    <3>2. t.counts = c.counts
      BY <1>5, <3>1
    <3> QED BY <1>4, <2>4, <3>2 DEF Script
  <2> QED BY <1>1, <2>1, <2>2, <2>3, <2>4 DEF Tools
<1>9. Whole(t) = script'
  BY <1>2, <1>8 DEF Whole
<1>10. Full' = script'
  BY <1>9 DEF Full, t
<1>11. IsScript(Script(t) \o Do("end"), Ops(t.tool))
  BY <1>7, WholeScript DEF Whole
<1> DEFINE w == Whole(t)
<1>12. PICK S : w \in Seq(S)
  BY <1>11 DEF IsScript, Whole
<1>13. Len(w) \in Nat /\ SubSeq(w, 1, Len(w)) = w
  <2> HIDE DEF w
  <2> QED BY <1>12, LenProperties, SubSeqFull
<1>14. w = script' /\ Full' = w
  BY <1>9, <1>10
<1> HIDE DEF w
<1>15. Position' = 1
  <2>1. Position' = Len(w) - Len(w) + 1
    BY <1>14 DEF Position
  <2> QED BY <1>13, <2>1
<1>16. script' = Rest(Position)'
  BY <1>13, <1>14, <1>15 DEF Rest
<1>17. Left'
  <2>1. 1 \in 1 .. Len(w) + 1
    BY <1>13
  <2> QED BY <1>14, <1>15, <1>16, <2>1 DEF Left
<1>18. Desk'
  <2>1. Well(tool)' /\ (on = tool.on)'
    BY <1>2, <1>4, <1>7 DEF t, Well
  <2> QED BY <1>2, <1>17, <2>1 DEF Desk
<1> QED BY <1>3, <1>4, <1>5, <1>7, <1>10, <1>13, <1>14, <1>15, <1>18 DEF t

\* Someone else's session leaves the last of one's own where it was.
LEMMA Passed ==
  ASSUME Desk, Neighbour
  PROVE  /\ Desk' /\ tool' = tool /\ script = <<>>
         /\ tool.tool # "none" =>
              Full' = Full /\ Len(Full) \in Nat /\ Position' = Len(Full) + 1
<1>1. /\ UNCHANGED <<tool, on, script>> /\ script = <<>> /\ outcome' = "none"
  BY DEF Neighbour
<1>2. CASE tool.tool = "none"
  BY <1>1, <1>2 DEF Desk
<1>3. CASE tool.tool # "none"
  <2>1. Well(tool) /\ on = tool.on
    BY <1>3 DEF Desk
  <2>2. Full' = Full /\ Position' = Len(Full) + 1 /\ Left' /\ Len(Full) \in Nat
    BY <1>1, <2>1, Emptied, FullSeq
  <2>3. Well(tool)' /\ (on = tool.on)'
    BY <1>1, <2>1 DEF Well
  <2> QED BY <1>1, <2>2, <2>3 DEF Desk
<1> QED BY <1>2, <1>3

(* A turbo sweep and the speed it found.                                    *)

\* What a turbo sweep has at each position.
LEMMA TurboAt ==
  ASSUME Desk, script # <<>>, tool.tool = "turbo"
  PROVE  LET n == Len(Full)
         IN  /\ n \in Nat /\ n >= 7 /\ Position \in 1 .. n /\ Head(script) = Full[Position]
             /\ Head(script).op = "speed" => Head(script).mhz = 1
             /\ Head(script).op = "turbo" => Position \in 3 .. n - 3
             /\ Position = n - 1 => Head(script).op = "speed" /\ At(script, "finally") = {}
<1> DEFINE n == Len(Full)  k == Position
<1>1. /\ Well(tool) /\ n \in Nat /\ k \in 1 .. n
      /\ \/ script = Rest(k) /\ Head(script) = Full[k]
         \/ Full[k].op = "skip" /\ Head(script) = [op |-> "compare"]
  BY Cursor
<1>2. TryFinally(tool) /\ Full[k].op \in Ops("turbo")
  BY <1>1, TurboScript, FullSeq DEF Well
<1>3. /\ n >= 7 /\ Full[1] = [op |-> "speed", mhz |-> 1] /\ Full[2].op = "try"
      /\ Full[n - 2].op = "finally" /\ Full[n - 1] = [op |-> "speed", mhz |-> 1]
      /\ Full[n].op = "end"
      /\ \A i \in 3 .. n - 3 :
           Full[i].op \in Rowing \cup {"load", "install", "turbo", "calibrate"}
  BY <1>2 DEF TryFinally, Full
<1>4. script = Rest(k) /\ Head(script) = Full[k]
  BY <1>1, <1>2 DEF Ops, Rowing
<1>5. k \in 3 .. n - 3 \/ k \in {1, 2, n - 2, n - 1, n}
  <2> HIDE DEF n, k
  <2> QED BY <1>1, <1>3
<1>6. Full[k].op = "speed" => Full[k].mhz = 1
  <2> HIDE DEF n, k
  <2> QED BY <1>3, <1>5 DEF Rowing
<1>7. Full[k].op = "turbo" => k \in 3 .. n - 3
  <2> HIDE DEF n, k
  <2> QED BY <1>3, <1>5
<1>8. ASSUME k = n - 1 PROVE Full[k].op = "speed" /\ At(script, "finally") = {}
  <2>1. /\ Len(script) = n - k + 1 /\ DOMAIN script = 1 .. Len(script)
        /\ \A i \in 1 .. Len(script) : script[i] = Full[k + i - 1]
    <3>1. k \in 1 .. n + 1
      <4> HIDE DEF k, n
      <4> QED BY <1>1
    <3> HIDE DEF k
    <3> QED BY <1>1, <1>4, <3>1, RestIs
  <2> HIDE DEF n, k
  <2>2. Len(script) = 2 /\ k + 1 - 1 = n - 1 /\ k + 2 - 1 = n
    BY <1>1, <1>8, <2>1
  <2> DEFINE m == Len(script)
  <2>a. m = 2 /\ DOMAIN script = 1 .. m /\ \A i \in 1 .. m : script[i] = Full[k + i - 1]
    BY <2>1, <2>2
  <2> HIDE DEF m
  <2>b. 1 \in 1 .. m /\ 2 \in 1 .. m
    BY <2>a
  <2>3. script[1] = Full[n - 1] /\ script[2] = Full[n]
    BY <2>2, <2>a, <2>b
  <2>4. \A i \in 1 .. m : i = 1 \/ i = 2
    BY <2>a
  <2>5. \A i \in DOMAIN script : script[i].op # "finally"
    BY <1>3, <2>3, <2>4, <2>a
  <2>6. At(script, "finally") = {}
    BY <2>5 DEF At
  <2> QED BY <1>3, <1>8, <2>6
<1> QED BY <1>1, <1>3, <1>4, <1>6, <1>7, <1>8

LEMMA TurboedStep ==
  ASSUME Desk, Turboed, Next
  PROVE  Turboed'
<1>1. ASSUME NEW c \in Commands, Invoke(c) PROVE Turboed'
  <2>1. tool'.before = speed /\ speed' = speed
    BY <1>1, Invoked DEF Invoke
  <2> QED BY <2>1 DEF Turboed
<1>2. ASSUME Neighbour PROVE Turboed'
  <2> SUFFICES ASSUME tool'.tool = "turbo" PROVE Turboed'
    BY DEF Turboed
  <2>1. Desk /\ tool' = tool /\ outcome' = "none"
    BY <1>2 DEF Neighbour
  <2>2. Len(Full) \in Nat /\ Position' = Len(Full) + 1 /\ Well(tool)
    BY <1>2, <2>1, Passed DEF Desk
  <2>3. Len(Full) >= 7
    BY <2>1, <2>2, TurboScript DEF Well, TryFinally, Full
  <2>4. ~(Position' <= 2)
    <3> DEFINE p == Position'  n == Len(Full)
    <3> HIDE DEF p, n
    <3>1. ~(p <= 2)
      BY <2>2, <2>3 DEF p, n
    <3> QED BY <3>1 DEF p
  <2> QED BY <2>1, <2>4 DEF Turboed
<1>3. ASSUME Moving, script # <<>>, UNCHANGED <<on, tool>> PROVE Turboed'
  <2> SUFFICES ASSUME tool.tool = "turbo" PROVE Turboed'
    BY <1>3 DEF Turboed
  <2> DEFINE n == Len(Full)  k == Position  p == Position'
  <2>1. /\ n \in Nat /\ n >= 7 /\ k \in 1 .. n
        /\ Head(script).op = "speed" => Head(script).mhz = 1
        /\ Head(script).op = "turbo" => k \in 3 .. n - 3
        /\ k = n - 1 => Head(script).op = "speed" /\ At(script, "finally") = {}
    BY <1>3, TurboAt
  <2>2. Full' = Full /\ Goes
    BY <1>3, MovingGoes
  <2>3. \/ p = k \/ p = k + 1
        \/ p = n + 1 /\ (outcome' = "killed" \/ k \notin 3 .. n - 2)
        \/ p \in k .. n - 2
    BY <2>2 DEF Goes
  <2>4. /\ speed' \in {1, tool.before} => Turboed'
        /\ ~(p <= 2) /\ (p >= n => outcome' = "killed") => Turboed'
    BY <1>3, <2>2 DEF Turboed
  <2>5. k <= 2 \/ k >= n => speed \in {1, tool.before}
    BY <1>3, Cursor DEF Turboed
  <2>6. speed' = speed \/ Turbo \/ ChangeSpeed
    BY <1>3 DEF Moving, Plain, Prologuing, LoadPrg, InstallWrapper, CalibrateWrapper, VerifyWrapper,
               Columning, LoadSidecar, TruncateSidecar, SaveSidecar, Interrupt, Kill, Same
  <2>7. CASE ChangeSpeed
    <3>1. speed' = 1
      BY <2>1, <2>7 DEF ChangeSpeed, Now
    <3> QED BY <2>4, <3>1
  <2>8. CASE k \in 3 .. n - 2
    <3>1. ~(p <= 2) /\ (p >= n => outcome' = "killed")
      <4> HIDE DEF n, k, p
      <4> QED BY <2>1, <2>3, <2>8
    <3> QED BY <2>4, <3>1
  <2>9. CASE Turbo
    <3>1. k \in 3 .. n - 2
      <4>1. k \in 3 .. n - 3
        BY <2>1, <2>9 DEF Turbo, Now
      <4> HIDE DEF n, k
      <4> QED BY <2>1, <4>1
    <3> QED BY <2>8, <3>1
  <2>10. CASE speed' = speed /\ (k <= 2 \/ k >= n)
    BY <2>4, <2>5, <2>10
  <2>11. CASE k = n - 1 /\ ~ChangeSpeed
    <3>1. Head(script).op = "speed" /\ At(script, "finally") = {}
      BY <2>1, <2>11
    <3>2. Kill
      BY <1>3, <2>11, <3>1
         DEF Moving, Plain, Marked, Prologuing, LoadPrg, InstallWrapper, CalibrateWrapper,
             VerifyWrapper, Turbo, Columning, LoadSidecar, TruncateSidecar, SaveSidecar,
             Interrupt, Now
    <3>3. outcome' = "killed" /\ p = n + 1
      BY <1>3, <3>2, Cursor, Emptied DEF Kill
    <3>4. ~(p <= 2)
      <4> HIDE DEF n, p
      <4> QED BY <2>1, <3>3
    <3> QED BY <2>4, <3>3, <3>4
  <2>12. k \in 3 .. n - 2 \/ k <= 2 \/ k >= n \/ k = n - 1
    <3> HIDE DEF n, k
    <3> QED BY <2>1
  <2> QED BY <2>6, <2>7, <2>8, <2>9, <2>10, <2>11, <2>12
<1> QED BY <1>1, <1>2, <1>3, Dispatch

(* The columns of a sweep's table.                                          *)

LEMMA ColumnAt ==
  ASSUME Desk, script # <<>>
  PROVE  /\ Head(script).op \in {"load sidecar", "save sidecar", "saved"} => tool.tool = "sweep"
         /\ tool.tool = "sweep" =>
              LET n == Len(Full)
              IN  /\ n \in Nat /\ n >= 4 /\ Position \in 1 .. n
                  /\ Head(script).op = "load sidecar" <=> Position = n - 3
                  /\ Head(script).op = "save sidecar" <=> Position = n - 2
                  /\ Head(script).op = "saved" <=> Position = n - 1
                  /\ Position \in {n - 3, n - 1} => Head(script).tag = tool.profile
<1>1. tool.tool \in Tools /\ Head(script).op \in Ops(tool.tool)
  BY Cursor, HereScript DEF Well
<1>2. Head(script).op \in {"load sidecar", "save sidecar", "saved"} => tool.tool = "sweep"
  BY <1>1 DEF Ops, Tools, Measuring, Comparing, Rowing, Timing, Fuzzing, Auditing
<1>3. ASSUME tool.tool = "sweep"
      PROVE  LET n == Len(Full)
             IN  /\ n \in Nat /\ n >= 4 /\ Position \in 1 .. n
                 /\ Head(script).op = "load sidecar" <=> Position = n - 3
                 /\ Head(script).op = "save sidecar" <=> Position = n - 2
                 /\ Head(script).op = "saved" <=> Position = n - 1
                 /\ Position \in {n - 3, n - 1} => Head(script).tag = tool.profile
  <2> DEFINE n == Len(Full)  k == Position
  <2>1. /\ n \in Nat /\ k \in 1 .. n /\ Well(tool)
        /\ Head(script) = Full[k] \/ Full[k].op = "skip"
    BY Cursor
  <2>2. ColumnLast(tool) /\ Full[k].op \in Ops("sweep")
    BY <1>3, <2>1, SweepScript, FullSeq
  <2>3. /\ n >= 4 /\ Full[n - 3] = [op |-> "load sidecar", tag |-> tool.profile]
        /\ Full[n - 2] = [op |-> "save sidecar"]
        /\ Full[n - 1] = [op |-> "saved", tag |-> tool.profile] /\ Full[n] = [op |-> "end"]
        /\ \A i \in 1 .. n - 4 : Full[i].op \in Measuring
    BY <2>2 DEF ColumnLast, Full
  <2>4. Head(script) = Full[k]
    BY <2>1, <2>2 DEF Ops, Measuring, Rowing
  <2>a. n \in Nat /\ k \in 1 .. n /\ n >= 4
    BY <2>1, <2>3
  <2>b. /\ Full[n - 3].op = "load sidecar" /\ Full[n - 3].tag = tool.profile
        /\ Full[n - 2].op = "save sidecar"
        /\ Full[n - 1].op = "saved" /\ Full[n - 1].tag = tool.profile /\ Full[n].op = "end"
    <3> DEFINE a == Full[n - 3]  b == Full[n - 2]  c == Full[n - 1]  d == Full[n]
    <3>1. /\ a = [op |-> "load sidecar", tag |-> tool.profile] /\ b = [op |-> "save sidecar"]
          /\ c = [op |-> "saved", tag |-> tool.profile] /\ d = [op |-> "end"]
      BY <2>3
    <3> HIDE DEF a, b, c, d
    <3>2. a.op = "load sidecar" /\ a.tag = tool.profile
      BY <3>1
    <3>3. b.op = "save sidecar" /\ d.op = "end"
      BY <3>1
    <3>4. c.op = "saved" /\ c.tag = tool.profile
      BY <3>1
    <3> QED BY <3>2, <3>3, <3>4 DEF a, b, c, d
  <2> HIDE DEF n, k
  <2>5. k \in 1 .. n - 4 \/ k = n - 3 \/ k = n - 2 \/ k = n - 1 \/ k = n
    BY <2>a
  <2>6. n - 3 # n - 2 /\ n - 3 # n - 1 /\ n - 3 # n /\ n - 2 # n - 1 /\ n - 2 # n /\ n - 1 # n
    BY <2>a
  <2>7. CASE k \in 1 .. n - 4
    <3>1. k # n - 3 /\ k # n - 2 /\ k # n - 1
      BY <2>a, <2>7
    <3>2. Full[k].op \notin {"load sidecar", "save sidecar", "saved"}
      BY <2>3, <2>7 DEF Measuring, Rowing
    <3> QED BY <2>a, <2>4, <3>1, <3>2 DEF n, k
  <2>8. CASE k = n - 3
    <3>1. Head(script).op = "load sidecar" /\ Head(script).tag = tool.profile
      BY <2>4, <2>b, <2>8
    <3> QED BY <2>a, <2>6, <2>8, <3>1 DEF n, k
  <2>9. CASE k = n - 2
    <3>1. Head(script).op = "save sidecar"
      BY <2>4, <2>b, <2>9
    <3> QED BY <2>a, <2>6, <2>9, <3>1 DEF n, k
  <2>10. CASE k = n - 1
    <3>1. Head(script).op = "saved" /\ Head(script).tag = tool.profile
      BY <2>4, <2>b, <2>10
    <3> QED BY <2>a, <2>6, <2>10, <3>1 DEF n, k
  <2>11. CASE k = n
    <3>1. Head(script).op = "end"
      BY <2>4, <2>b, <2>11
    <3> QED BY <2>a, <2>6, <2>11, <3>1 DEF n, k
  <2> QED BY <2>5, <2>7, <2>8, <2>9, <2>10, <2>11
<1> QED BY <1>2, <1>3

LEMMA KeptStep ==
  ASSUME Desk, Carrying, ColumnsKept, Next
  PROVE  Carrying' /\ ColumnsKept'
<1>1. ASSUME NEW c \in Commands, Invoke(c) PROVE Carrying' /\ ColumnsKept'
  <2>1. ColumnsKept'
    BY <1>1 DEF Invoke, ColumnsKept
  <2>2. Carrying'
    <3> SUFFICES ASSUME tool'.tool = "sweep" PROVE Position' \notin {Len(Full') - 2, Len(Full') - 1}
      BY DEF Carrying
    <3>1. Well(tool') /\ Position' = 1
      BY <1>1, Invoked
    <3>2. Len(Full') >= 4 /\ Len(Full') \in Nat
      <4>1. ColumnLast(tool')
        BY SweepScript
      <4> QED BY <1>1, <4>1, Invoked DEF ColumnLast, Full
    <3> DEFINE m == Len(Full')
    <3>3. m \in Nat /\ m >= 4
      BY <3>2
    <3> HIDE DEF m
    <3>4. 1 \notin {m - 2, m - 1}
      BY <3>3
    <3> QED BY <3>1, <3>4 DEF m
  <2> QED BY <2>1, <2>2
<1>2. ASSUME Neighbour PROVE Carrying' /\ ColumnsKept'
  <2>1. UNCHANGED <<tool, sidecar, held, told>>
    BY <1>2 DEF Neighbour, toolVars
  <2>2. ColumnsKept'
    BY <2>1 DEF ColumnsKept
  <2>3. Carrying'
    <3> SUFFICES ASSUME tool.tool = "sweep" PROVE Position' \notin {Len(Full') - 2, Len(Full') - 1}
      BY <2>1 DEF Carrying
    <3>1. Len(Full) \in Nat /\ Full' = Full /\ Position' = Len(Full) + 1
      BY <1>2, Passed
    <3> DEFINE n == Len(Full)
    <3> HIDE DEF n
    <3> QED BY <3>1 DEF n
  <2> QED BY <2>2, <2>3
<1>3. ASSUME Moving, script # <<>>, UNCHANGED <<on, tool>> PROVE Carrying' /\ ColumnsKept'
  <2> DEFINE n == Len(Full)  k == Position  p == Position'
  <2>1. Full' = Full /\ Goes
    BY <1>3, MovingGoes
  <2>2. /\ Head(script).op \in {"load sidecar", "save sidecar", "saved"} => tool.tool = "sweep"
        /\ tool.tool = "sweep" =>
             /\ n \in Nat /\ n >= 4 /\ k \in 1 .. n
             /\ Head(script).op = "load sidecar" <=> k = n - 3
             /\ Head(script).op = "save sidecar" <=> k = n - 2
             /\ Head(script).op = "saved" <=> k = n - 1
             /\ k \in {n - 3, n - 1} => Head(script).tag = tool.profile
    BY <1>3, ColumnAt
  <2>3. tool.tool = "sweep" => p \in {k, k + 1, n + 1}
    BY <2>1 DEF Goes
  <2>4. /\ Carrying <=> (tool.tool = "sweep" /\ k \in {n - 2, n - 1} =>
             /\ tool.profile \in DOMAIN held
             /\ \A tag \in DOMAIN told :
                  tag = tool.profile \/ (tag \in DOMAIN held /\ held[tag] = told[tag]))
        /\ Carrying' <=> (tool.tool = "sweep" /\ p \in {n - 2, n - 1} =>
             /\ tool.profile \in DOMAIN held'
             /\ \A tag \in DOMAIN told' :
                  tag = tool.profile \/ (tag \in DOMAIN held' /\ held'[tag] = told'[tag]))
    BY <1>3, <2>1 DEF Carrying
  <2> HIDE DEF n, k, p
  <2>5. CASE LoadSidecar
    <3>1. /\ held' = With(sidecar.columns, Head(script).tag, row.image) /\ sidecar' = sidecar
          /\ told' = (IF sidecar.torn THEN <<>> ELSE told) /\ Head(script).op = "load sidecar"
      BY <2>5 DEF LoadSidecar, Now
    <3>2. Head(script).tag = tool.profile
      BY <2>2, <3>1
    <3>3. DOMAIN held' = DOMAIN sidecar.columns \cup {tool.profile}
          /\ \A tag \in DOMAIN sidecar.columns : tag # tool.profile => held'[tag] = sidecar.columns[tag]
      BY <3>1, <3>2 DEF With
    <3>4. CASE sidecar.torn
      <4>1. told' = <<>> /\ DOMAIN <<>> = 1 .. 0
        <5>1. <<>> \in Seq({}) /\ Len(<<>>) = 0
          BY EmptySeq
        <5> QED BY <3>1, <3>4, <5>1, LenProperties
      <4>2. DOMAIN told' = {}
        BY <4>1
      <4> QED BY <2>4, <3>1, <3>3, <3>4, <4>2 DEF ColumnsKept
    <3>5. CASE ~sidecar.torn
      BY <2>4, <3>1, <3>3, <3>5 DEF ColumnsKept
    <3> QED BY <3>4, <3>5
  <2>6. CASE TruncateSidecar
    <3>1. sidecar' = Torn /\ UNCHANGED <<held, told>> /\ Head(script).op = "save sidecar"
      BY <2>6 DEF TruncateSidecar, Now
    <3>2. ColumnsKept'
      BY <3>1 DEF ColumnsKept, Torn
    <3>3. tool.tool = "sweep" /\ k = n - 2
      BY <2>2, <3>1
    <3> QED BY <2>4, <3>1, <3>2, <3>3
  <2>7. CASE SaveSidecar
    <3>1. /\ sidecar' = [torn |-> FALSE, columns |-> held] /\ Head(script).op = "saved"
          /\ told' = With(told, Head(script).tag, held[Head(script).tag])
      BY <2>7 DEF SaveSidecar, Now
    <3>2. tool.tool = "sweep" /\ k = n - 1 /\ Head(script).tag = tool.profile
      BY <2>2, <3>1
    <3>3. /\ DOMAIN told' = DOMAIN told \cup {tool.profile} /\ told'[tool.profile] = held[tool.profile]
          /\ \A tag \in DOMAIN told : tag # tool.profile => told'[tag] = told[tag]
      BY <3>1, <3>2 DEF With
    <3>4. ColumnsKept'
      BY <2>4, <3>1, <3>2, <3>3 DEF ColumnsKept
    <3>5. p \notin {n - 2, n - 1}
      <4>1. Position' = Position + 1
        BY <1>3, <2>7, Advanced DEF SaveSidecar, Advance
      <4>2. n \in Nat /\ k = n - 1 /\ p = k + 1
        BY <2>2, <3>2, <4>1 DEF k, p
      <4> QED BY <4>2
    <3> QED BY <2>4, <3>4, <3>5
  <2>8. CASE ~Columning
    <3>1. UNCHANGED <<sidecar, held, told>>
      BY <1>3, <2>8 DEF Moving, Plain, Prologuing, LoadPrg, InstallWrapper, CalibrateWrapper,
         VerifyWrapper, Turbo, ChangeSpeed, Interrupt, Kill, Same, toolVars
    <3>2. ColumnsKept'
      BY <3>1 DEF ColumnsKept
    <3>3. ASSUME tool.tool = "sweep", p \in {n - 2, n - 1} PROVE k \in {n - 2, n - 1}
      <4> SUFFICES ASSUME k \notin {n - 2, n - 1} PROVE FALSE
        OBVIOUS
      <4>a. n \in Nat /\ k \in 1 .. n /\ p \in {k, k + 1, n + 1}
        BY <2>2, <2>3, <3>3
      <4>1. k = n - 3 /\ p = k + 1
        BY <3>3, <4>a
      <4>2. Head(script).op = "load sidecar"
        BY <2>2, <3>3, <4>1
      <4>3. Interrupt \/ Kill
        BY <1>3, <2>8, <4>2 DEF Moving, Plain, Marked, Prologuing, LoadPrg, InstallWrapper,
           CalibrateWrapper, VerifyWrapper, Turbo, ChangeSpeed, Now
      <4>4. Position' = Len(Full) + 1
        <5>1. CASE Interrupt
          BY <1>3, <3>3, <5>1, Thrown DEF Interrupt, Leave
        <5>2. CASE Kill
          BY <1>3, <5>2, Cursor, Emptied DEF Kill
        <5> QED BY <4>3, <5>1, <5>2
      <4>5. p = n + 1
        BY <4>4 DEF n, p
      <4> QED BY <3>3, <4>5, <4>a
    <3>4. Carrying'
      BY <2>4, <3>1, <3>3
    <3> QED BY <3>2, <3>4
  <2> QED BY <2>5, <2>6, <2>7, <2>8 DEF Columning
<1> QED BY <1>1, <1>2, <1>3, Dispatch

(* The self-test on the Ultimate 64.                                        *)

LEMMA FittedStep ==
  ASSUME Desk, Fitted, Next
  PROVE  Fitted'
<1>1. ASSUME NEW b \in Backends, NEW m, DOMAIN m = Slots, machine' = [machine EXCEPT ![b] = m]
      PROVE  Fitted'
  BY <1>1 DEF Fitted
<1>2. ASSUME NEW m, NEW x, NEW y PROVE DOMAIN [m EXCEPT ![x] = y] = DOMAIN m
  OBVIOUS
<1>3. DOMAIN [Cold EXCEPT !.image = prg] = Slots
  BY DEF Slots
<1>4. ASSUME NEW r, NEW m PROVE DOMAIN Execute(r, m) = DOMAIN m
  BY DEF Execute
<1>5. ASSUME NEW r, NEW n, NEW o, NEW m PROVE DOMAIN Primed(r, n, o, m) = DOMAIN m
  <2> DEFINE loaded == [m EXCEPT !.data = "plain", !.len = n, !.operand = o]
  <2>1. DOMAIN loaded = DOMAIN m
    OBVIOUS
  <2> HIDE DEF loaded
  <2>2. DOMAIN Execute("aead_encrypt", loaded) = DOMAIN m
    BY <1>4, <2>1
  <2> QED BY <2>1, <2>2 DEF Primed, loaded
<1>6. ASSUME NEW s, NEW m PROVE DOMAIN Reprimed(s, m) = DOMAIN m
  BY <1>5 DEF Reprimed
<1>7. ASSUME MachineStep PROVE Fitted'
  <2>1. on \in Backends /\ DOMAIN Memory = Slots
    <3>1. script # <<>>
      BY <1>7 DEF MachineStep, Boot, LoadPrg, ChangeSpeed, Blank, InstallWrapper, CalibrateWrapper,
         VerifyWrapper, SetupRoutine, RunRoutine, Sample, Record, Enter, End, Now
    <3>2. on \in Backends
      BY <3>1, Cursor DEF Well
    <3> QED BY <3>2 DEF Memory, Fitted
  <2>2. ASSUME NEW m, DOMAIN m = Slots, Remember(m) PROVE Fitted'
    BY <1>1, <2>1, <2>2 DEF Remember
  <2>3. CASE Boot
    BY <1>1, <1>3, <2>3 DEF Boot, Backends
  <2>4. CASE LoadPrg
    <3>1. DOMAIN [Memory EXCEPT !.image = prg] = Slots
      BY <2>1
    <3> QED BY <2>2, <2>4, <3>1 DEF LoadPrg
  <2>5. CASE InstallWrapper
    <3>1. PICK arrived \in {"good", "bad"} : Remember([Memory EXCEPT !.wrapper = arrived])
      BY <2>5 DEF InstallWrapper
    <3>2. DOMAIN [Memory EXCEPT !.wrapper = arrived] = Slots
      BY <2>1
    <3> QED BY <2>2, <3>1, <3>2
  <2>6. CASE SetupRoutine
    BY <1>5, <2>1, <2>2, <2>6 DEF SetupRoutine
  <2>7. CASE RunRoutine
    BY <1>4, <2>1, <2>2, <2>7 DEF RunRoutine
  <2>8. CASE Sample
    <3> DEFINE s == Head(script)  m == IF s.again THEN Reprimed(s, Memory) ELSE Memory
    <3>1. DOMAIN m = Slots
      BY <1>6, <2>1
    <3>2. Remember(Execute(s.routine, m))
      BY <2>8 DEF Sample
    <3> HIDE DEF s, m
    <3> QED BY <1>4, <2>2, <3>1, <3>2
  <2>9. CASE ChangeSpeed \/ Blank \/ CalibrateWrapper \/ VerifyWrapper \/ Record \/ Enter \/ End
    <3>1. machine' = machine
      BY <2>9 DEF ChangeSpeed, Blank, CalibrateWrapper, VerifyWrapper, Record, Enter, End
    <3> QED BY <3>1 DEF Fitted
  <2> QED BY <1>7, <2>3, <2>4, <2>5, <2>6, <2>7, <2>8, <2>9 DEF MachineStep
<1>8. ASSUME machine' = machine PROVE Fitted'
  BY <1>8 DEF Fitted
<1>9. ASSUME ToolStep PROVE machine' = machine
  BY <1>9 DEF ToolStep, NeedSymbol, SkipRow, CompareRow, Gate, Turbo, LoadSidecar, TruncateSidecar,
     SaveSidecar, NeedExact, CtRow, CtOfRoutine, CtVerdict, Same
<1>10. ASSUME NEW c \in Commands, Invoke(c) PROVE Fitted'
  <2>1. DOMAIN Cold = Slots
    BY DEF Slots
  <2> QED BY <1>1, <1>10, <2>1 DEF Invoke, Backends
<1>11. ASSUME Interrupt \/ Kill \/ Neighbour PROVE machine' = machine
  BY <1>11 DEF Interrupt, Kill, Neighbour, Same
<1> QED BY <1>7, <1>8, <1>9, <1>10, <1>11, PlainFuzz DEF Next, OnMachine, OnTool

\* What the two timers hold is the cycles that went by.
LEMMA ReadExact ==
  ASSUME NEW e \in Nat, e < W * W
  PROVE  ReadTimer(TimerA(e), TimerB(e)) = e
<1>1. W \in Nat /\ W > 0
  BY TimerAssumption
<1> DEFINE q == e \div W  r == e % W
<1>2. q \in Nat /\ r \in 0 .. W - 1 /\ e = q * W + r
  BY <1>1, DivParts
<1>3. q % W = q
  <2>1. ASSUME q >= W PROVE FALSE
    <3>1. q * W >= W * W
      <4> HIDE DEF q
      <4> QED BY <1>1, <1>2, <2>1, Z3
    <3> DEFINE a == q * W  b == W * W
    <3>2. a \in Int /\ b \in Int /\ a >= b /\ e < b /\ e = a + r
      <4> HIDE DEF q, r
      <4> QED BY <1>1, <1>2, <3>1, Z3
    <3> HIDE DEF a, b, q, r
    <3> QED BY <1>2, <3>2
  <2>2. q \in 0 .. W - 1
    <3> HIDE DEF q
    <3> QED BY <1>1, <1>2, <2>1
  <2> HIDE DEF q
  <2> QED BY <1>1, <2>2, ModSmall
<1>4. ReadTimer(TimerA(e), TimerB(e)) = (W - 1 - (W - 1 - r)) + (W - 1 - (W - 1 - q)) * W
  BY <1>3 DEF ReadTimer, TimerA, TimerB
<1> HIDE DEF q, r
<1>5. W - 1 - (W - 1 - r) = r /\ W - 1 - (W - 1 - q) = q
  BY <1>1, <1>2
<1>6. r + q * W = q * W + r
  BY <1>1, <1>2, Z3
<1> QED BY <1>2, <1>4, <1>5, <1>6

LEMMA PrologueAt ==
  ASSUME Desk, script # <<>>, on = "u64"
  PROVE  LET n == Len(Full)
         IN  /\ n \in Nat /\ Position \in 1 .. n
             /\ Head(script).op = "verify" => Judged /\ Position = 5
             /\ Judged => n >= 5 /\ (Position <= 5 => Head(script) = U64Prologue[Position])
<1> DEFINE n == Len(Full)  k == Position
<1>1. /\ n \in Nat /\ k \in 1 .. n /\ Well(tool) /\ tool.on = on
      /\ Head(script) = Full[k] \/ (Full[k].op = "skip" /\ Head(script) = [op |-> "compare"])
  BY Cursor
<1>2. Head(script).op = "verify" => Judged /\ Head(script) = Full[k]
  <2>1. Head(script).op \in Ops(tool.tool) /\ tool.tool \in Tools
    BY <1>1, HereScript DEF Well
  <2>2. ASSUME Head(script).op = "verify" PROVE tool.tool \in {"bench", "sweep", "bench-check"}
    BY <2>1, <2>2 DEF Ops, Tools, Rowing, Timing, Fuzzing, Auditing
  <2>3. Head(script).op = "verify" => Head(script) = Full[k]
    <3> HIDE DEF k
    <3> QED BY <1>1
  <2> QED BY <2>2, <2>3 DEF Judged
<1>3. ASSUME Judged PROVE PrologueFirst(tool)
  BY <1>1, <1>3, BenchScript, SweepScript, BenchCheckScript DEF Judged
<1>4. ASSUME Judged
      PROVE  /\ n >= 5 /\ \A i \in 1 .. 5 : Full[i] = U64Prologue[i]
             /\ \A i \in 6 .. n : Full[i].op # "verify"
  <2>1. Len(U64Prologue) = 5
    BY ProloguesScript
  <2> QED BY <1>3, <1>4, <2>1 DEF PrologueFirst, Begun, Full
<1>5. \A i \in 1 .. 5 : U64Prologue[i].op # "skip" /\ (i # 5 => U64Prologue[i].op # "verify")
  <2>1. /\ U64Prologue[1].op = "speed" /\ U64Prologue[2].op = "load" /\ U64Prologue[3].op = "install"
        /\ U64Prologue[4].op = "calibrate" /\ U64Prologue[5].op = "verify"
    BY ProloguesScript
  <2>2. \A i \in 1 .. 5 : i = 1 \/ i = 2 \/ i = 3 \/ i = 4 \/ i = 5
    OBVIOUS
  <2> QED BY <2>1, <2>2
<1> HIDE DEF n, k
<1>6. ASSUME Judged, k <= 5 PROVE Head(script) = U64Prologue[k] /\ Full[k] = U64Prologue[k]
  <2>1. k \in 1 .. 5
    BY <1>1, <1>6
  <2> QED BY <1>1, <1>4, <1>5, <1>6, <2>1
<1>7. ASSUME Head(script).op = "verify" PROVE Judged /\ k = 5
  <2>1. Judged /\ Full[k].op = "verify"
    BY <1>2, <1>7
  <2>2. ~(k \in 6 .. n)
    BY <1>4, <2>1
  <2>3. k \in 1 .. 5
    BY <1>1, <1>4, <2>1, <2>2
  <2> QED BY <1>5, <1>6, <2>1, <2>3
<1> QED BY <1>1, <1>4, <1>6, <1>7 DEF n, k

LEMMA MaxOfTwo ==
  ASSUME NEW a \in Int, NEW b \in Int
  PROVE  Max({a, b}) \in Int /\ Max({a, b}) >= b
<1>1. \E x \in {a, b} : \A y \in {a, b} : x >= y
  OBVIOUS
<1>2. Max({a, b}) \in {a, b} /\ \A y \in {a, b} : Max({a, b}) >= y
  BY <1>1 DEF Max
<1> QED BY <1>2

\* At 1 MHz a sound wrapper reads what it and the routine take.
LEMMA ReadingIs ==
  ASSUME on = "u64", speed = 1, machine["u64"].wrapper = "good",
         NEW cycles \in Nat, NEW j \in 0 .. Jitter, WrapperCycles + cycles + j < W * W
  PROVE  Reading(cycles, j) = WrapperCycles + cycles + j
<1>1. WrapperCycles \in Nat /\ Jitter \in Nat /\ W \in Nat
  BY TimerAssumption
<1> DEFINE x == WrapperCycles + cycles  e == x + j
<1>2. x \in Nat /\ e \in Nat
  BY <1>1
<1>3. x \div 1 = x
  <2>1. (x * 1 + 0) \div 1 = x
    <3> HIDE DEF x
    <3> QED BY <1>2, DivMod
  <2> HIDE DEF x
  <2> QED BY <1>2, <2>1
<1>4. Elapsed(cycles, j) = e
  BY <1>3 DEF Elapsed, Memory, Clock
<1>5. ReadTimer(TimerA(e), TimerB(e)) = e
  <2> HIDE DEF e
  <2>1. e < W * W
    BY DEF e
  <2> QED BY <1>2, <2>1, ReadExact
<1> QED BY <1>4, <1>5 DEF Reading

\* The window of a calibration holds whatever a sound self-test reads.
LEMMA WindowWide ==
  ASSUME on = "u64", speed = 1, machine["u64"].wrapper = "good", calib.samples = 20,
         NEW l \in 0 .. Jitter, NEW m \in 0 .. Jitter, l <= m,
         calib.over = WrapperCycles + l, calib.spread = m - l, NEW j \in 0 .. Jitter
  PROVE  Reading(StubCycles, j) - calib.over \in ToleranceWindow(on, calib.spread, calib.samples)
<1>1. /\ WrapperCycles \in Nat /\ StubCycles \in Nat /\ Jitter \in Nat /\ JitterFloor \in Nat
      /\ Jitter <= JitterFloor /\ W * W \in Int /\ WrapperCycles + StubCycles + Jitter < W * W
  BY TimerAssumption
<1> DEFINE square == W * W  jitter == Max({calib.spread, JitterFloor})
<1>2. WrapperCycles + StubCycles + j < square
  <2> HIDE DEF square
  <2> QED BY <1>1 DEF square
<1>3. Reading(StubCycles, j) = WrapperCycles + StubCycles + j
  BY <1>1, <1>2, ReadingIs
<1>4. jitter \in Int /\ jitter >= JitterFloor
  <2> DEFINE s == calib.spread
  <2>1. s \in Int /\ JitterFloor \in Int
    BY <1>1
  <2> HIDE DEF s
  <2>2. Max({s, JitterFloor}) \in Int /\ Max({s, JitterFloor}) >= JitterFloor
    BY <2>1, MaxOfTwo
  <2> QED BY <2>2 DEF s
<1>5. ToleranceWindow(on, calib.spread, calib.samples) = StubCycles - jitter .. StubCycles + jitter
  BY DEF ToleranceWindow
<1> HIDE DEF jitter, square
<1>6. Reading(StubCycles, j) - calib.over = StubCycles + j - l
  BY <1>1, <1>3
<1>7. StubCycles + j - l \in StubCycles - jitter .. StubCycles + jitter
  BY <1>1, <1>4
<1> QED BY <1>5, <1>6, <1>7

\* Nothing but the self-test refuses by that name.
LEMMA NoRefusal ==
  ASSUME Unrefused, on = "u64", on' = on, script # <<>>, Moving, Head(script).op # "verify"
  PROVE  Unrefused'
BY DEF Unrefused, Moving, Plain, Endings, ChangeSpeed, Prologuing, LoadPrg, InstallWrapper,
   CalibrateWrapper, VerifyWrapper, Turbo, Columning, LoadSidecar, TruncateSidecar, SaveSidecar,
   Interrupt, Kill, Leave, Now

LEMMA PrologueStep ==
  ASSUME Desk, Fitted, Prologue, Unrefused, Next
  PROVE  Prologue' /\ Unrefused'
<1>1. ASSUME NEW c \in Commands, Invoke(c) PROVE Prologue' /\ Unrefused'
  <2>1. Unrefused'
    BY <1>1 DEF Invoke, Unrefused
  <2>2. Position' = 1
    BY <1>1, Invoked
  <2> QED BY <2>1, <2>2 DEF Prologue
<1>2. ASSUME Neighbour PROVE Prologue' /\ Unrefused'
  <2>1. Unrefused' /\ UNCHANGED <<on, tool>>
    BY <1>2 DEF Neighbour, Unrefused
  <2> SUFFICES ASSUME Judged PROVE Prologue'
    BY <2>1 DEF Prologue, Judged
  <2>2. tool.tool # "none" /\ Well(tool)
    BY DEF Judged, Desk
  <2>3. Len(Full) \in Nat /\ Position' = Len(Full) + 1
    BY <1>2, <2>2, Passed
  <2>4. PrologueFirst(tool)
    BY <2>2, BenchScript, SweepScript, BenchCheckScript DEF Judged, Desk
  <2>5. Len(Full) >= 5
    BY <2>4, ProloguesScript DEF PrologueFirst, Begun, Full
  <2> DEFINE n == Len(Full)  p == Position'
  <2>6. ~(p \in 2 .. 5) /\ ~(p \in 4 .. 5) /\ p # 5
    <3>1. n \in Nat /\ n >= 5 /\ p = n + 1
      BY <2>3, <2>5
    <3> HIDE DEF n, p
    <3> QED BY <3>1
  <2> QED BY <2>1, <2>6 DEF Prologue
<1>3. ASSUME Moving, script # <<>>, UNCHANGED <<on, tool>> PROVE Prologue' /\ Unrefused'
  <2> DEFINE n == Len(Full)  k == Position  p == Position'
  <2>1. Full' = Full /\ Goes
    BY <1>3, MovingGoes
  <2>2. CASE on # "u64"
    BY <1>3, <2>2 DEF Prologue, Judged, Unrefused
  <2>3. CASE on = "u64" /\ ~Judged
    <3>1. Head(script).op # "verify"
      BY <1>3, <2>3, PrologueAt
    <3>2. Prologue'
      BY <1>3, <2>3 DEF Prologue, Judged
    <3> QED BY <1>3, <2>3, <3>1, <3>2, NoRefusal
  <2>4. CASE on = "u64" /\ Judged
    <3>1. /\ n \in Nat /\ k \in 1 .. n /\ n >= 5
          /\ k <= 5 => Head(script) = U64Prologue[k]
          /\ Head(script).op = "verify" => k = 5
      BY <1>3, <2>4, PrologueAt
    <3>2. p = k \/ p = k + 1 \/ p = n + 1 \/ p \in k .. n + 1
      BY <2>1, <2>4 DEF Goes, Judged
    <3>3. ASSUME ~(p \in 2 .. 5) PROVE Prologue'
      <4>1. ~(p \in 4 .. 5) /\ p # 5
        <5> HIDE DEF p
        <5> QED BY <3>3
      <4> QED BY <3>3, <4>1 DEF Prologue
    <3>a. /\ U64Prologue[1] = [op |-> "speed", mhz |-> 1] /\ U64Prologue[2].op = "load"
          /\ U64Prologue[3].op = "install"
          /\ U64Prologue[4] = [op |-> "calibrate", samples |-> 20] /\ U64Prologue[5].op = "verify"
      BY ProloguesScript
    <3>b. tool.tool # "turbo"
      BY <2>4 DEF Judged
    <3>c. /\ k \in 2 .. 5 => speed = 1
          /\ k \in 4 .. 5 => machine["u64"].wrapper = "good"
          /\ k = 5 => /\ calib.samples = 20
                      /\ \E l, m \in 0 .. Jitter : /\ l <= m /\ calib.over = WrapperCycles + l
                                                   /\ calib.spread = m - l
      BY <2>4 DEF Prologue
    <3>f. ASSUME p \in 2 .. 3, speed' = 1 PROVE Prologue'
      <4>1. ~(p \in 4 .. 5) /\ p # 5
        <5> HIDE DEF p
        <5> QED BY <3>f
      <4> QED BY <3>f, <4>1 DEF Prologue
    <3>g. ASSUME p \in 4 .. 5, speed' = 1, machine'["u64"].wrapper = "good",
                 p = 5 => /\ calib'.samples = 20
                          /\ \E l, m \in 0 .. Jitter : /\ l <= m /\ calib'.over = WrapperCycles + l
                                                       /\ calib'.spread = m - l
          PROVE  Prologue'
      BY <3>g DEF Prologue
    <3>h. outcome' = outcome => Unrefused'
      BY <1>3 DEF Unrefused
    <3>d. ASSUME script' = Tail(script) PROVE p = k + 1
      BY <1>3, <3>d, Advanced
    <3>e. ASSUME script' = Finally(script) PROVE Prologue'
      <4>1. p = n + 1
        BY <1>3, <3>b, <3>e, Thrown
      <4>2. ~(p \in 2 .. 5)
        <5> HIDE DEF n, p
        <5> QED BY <3>1, <4>1
      <4> QED BY <3>3, <4>2
    <3>4. CASE Interrupt
      <4>1. outcome' = "interrupted" /\ script' = Finally(script)
        BY <3>4 DEF Interrupt, Leave
      <4> QED BY <3>e, <4>1 DEF Unrefused
    <3>5. CASE Kill
      <4>1. outcome' = "killed" /\ p = n + 1
        BY <1>3, <3>5, Cursor, Emptied DEF Kill
      <4>2. ~(p \in 2 .. 5)
        <5> HIDE DEF n, p
        <5> QED BY <3>1, <4>1
      <4> QED BY <3>3, <4>1, <4>2 DEF Unrefused
    <3> HIDE DEF n, k, p
    <3>6. CASE k > 5 /\ ~Kill
      <4>1. ~(p \in 2 .. 5)
        BY <3>1, <3>2, <3>6
      <4>2. Head(script).op # "verify"
        BY <3>1, <3>6
      <4> QED BY <1>3, <2>4, <3>3, <4>1, <4>2, NoRefusal
    <3>7. CASE k <= 5 /\ ~Interrupt /\ ~Kill
      <4>1. k = 1 \/ k = 2 \/ k = 3 \/ k = 4 \/ k = 5
        BY <3>1, <3>7
      <4>2. Head(script).op \in {"speed", "load", "install", "calibrate", "verify"}
        BY <3>1, <3>7, <3>a, <4>1
      <4>3. ChangeSpeed \/ Prologuing
        BY <1>3, <3>7, <4>2 DEF Moving, Plain, Marked, Turbo, Columning, LoadSidecar,
           TruncateSidecar, SaveSidecar, Now
      <4>4. CASE k = 1
        <5>1. Head(script).op = "speed" /\ Head(script).mhz = 1
          BY <3>1, <3>7, <3>a, <4>4
        <5>2. ChangeSpeed
          BY <4>3, <5>1 DEF Prologuing, LoadPrg, InstallWrapper, CalibrateWrapper, VerifyWrapper, Now
        <5>3. speed' = 1 /\ outcome' = outcome /\ p = 2
          BY <3>d, <4>4, <5>1, <5>2 DEF ChangeSpeed, Advance
        <5> QED BY <3>f, <3>h, <5>3
      <4>5. CASE k = 2
        <5>1. Head(script).op = "load"
          BY <3>1, <3>7, <3>a, <4>5
        <5>2. LoadPrg
          BY <4>3, <5>1 DEF Prologuing, ChangeSpeed, InstallWrapper, CalibrateWrapper, VerifyWrapper, Now
        <5>3. speed' = speed /\ speed = 1 /\ outcome' = outcome /\ p = 3
          BY <3>c, <3>d, <4>5, <5>2 DEF LoadPrg, Advance
        <5> QED BY <3>f, <3>h, <5>3
      <4>6. CASE k = 3
        <5>1. Head(script).op = "install"
          BY <3>1, <3>7, <3>a, <4>6
        <5>2. InstallWrapper
          BY <4>3, <5>1 DEF Prologuing, ChangeSpeed, LoadPrg, CalibrateWrapper, VerifyWrapper, Now
        <5>3. PICK arrived \in {"good", "bad"} :
                /\ Remember([Memory EXCEPT !.wrapper = arrived])
                /\ IF InstallAccepts(arrived) THEN Advance /\ UNCHANGED outcome
                   ELSE Leave("no wrapper")
          BY <5>2 DEF InstallWrapper
        <5>4. CASE arrived = "good"
          <6>a. script' = Tail(script) /\ outcome' = outcome
            BY <5>3, <5>4 DEF InstallAccepts, Advance
          <6>b. speed' = speed /\ speed = 1
            <7>1. speed' = speed
              BY <5>2 DEF InstallWrapper
            <7>2. k \in 2 .. 5
              BY <4>6
            <7> QED BY <3>c, <7>1, <7>2
          <6>1. p = 4 /\ outcome' = outcome /\ speed' = 1
            BY <3>d, <4>6, <6>a, <6>b
          <6>2. machine'["u64"].wrapper = "good"
            <7>1. "u64" \in DOMAIN machine /\ "wrapper" \in DOMAIN machine["u64"]
              BY DEF Fitted, Backends, Slots, Cold
            <7>2. machine' = [machine EXCEPT !["u64"] = [machine["u64"] EXCEPT !.wrapper = "good"]]
              BY <2>4, <5>3, <5>4 DEF Remember, Memory
            <7> QED BY <7>1, <7>2
          <6> QED BY <3>g, <3>h, <6>1, <6>2
        <5>5. CASE arrived # "good"
          <6>1. Leave("no wrapper")
            BY <5>3, <5>5 DEF InstallAccepts
          <6> QED BY <3>e, <6>1 DEF Leave, Unrefused
        <5> QED BY <5>4, <5>5
      <4>7. CASE k = 4
        <5>1. Head(script).op = "calibrate" /\ Head(script).samples = 20
          BY <3>1, <3>7, <3>a, <4>7
        <5>2. CalibrateWrapper
          BY <4>3, <5>1 DEF Prologuing, ChangeSpeed, LoadPrg, InstallWrapper, VerifyWrapper, Now
        <5>3. speed' = 1 /\ outcome' = outcome /\ p = 5 /\ machine' = machine
              /\ speed = 1 /\ machine["u64"].wrapper = "good"
          BY <3>c, <3>d, <4>7, <5>2 DEF CalibrateWrapper, Advance
        <5>4. PICK l, m \in 0 .. Jitter :
                l <= m /\ calib' = [over |-> Reading(0, l), spread |-> Reading(0, m) - Reading(0, l),
                                    samples |-> 20]
          <6>1. Noise = 0 .. Jitter
            BY <2>4 DEF Noise
          <6> QED BY <5>1, <5>2, <6>1 DEF CalibrateWrapper
        <5>5. \A j \in 0 .. Jitter : Reading(0, j) = WrapperCycles + j
          <6> TAKE j \in 0 .. Jitter
          <6>1. WrapperCycles + 0 + j < W * W /\ WrapperCycles + 0 + j = WrapperCycles + j
            BY TimerAssumption
          <6>2. Reading(0, j) = WrapperCycles + 0 + j
            BY <2>4, <5>3, <6>1, ReadingIs
          <6> QED BY <6>1, <6>2
        <5>6. calib'.samples = 20 /\ calib'.over = WrapperCycles + l /\ calib'.spread = m - l
          <6>1. Reading(0, l) = WrapperCycles + l /\ Reading(0, m) = WrapperCycles + m
            BY <5>5
          <6>2. (WrapperCycles + m) - (WrapperCycles + l) = m - l
            BY TimerAssumption
          <6> QED BY <5>4, <6>1, <6>2
        <5> QED BY <3>g, <3>h, <5>3, <5>4, <5>6
      <4>8. CASE k = 5
        <5>1. Head(script).op = "verify"
          BY <3>1, <3>7, <3>a, <4>8
        <5>2. VerifyWrapper
          BY <4>3, <5>1 DEF Prologuing, ChangeSpeed, LoadPrg, InstallWrapper, CalibrateWrapper, Now
        <5>3. speed = 1 /\ machine["u64"].wrapper = "good" /\ calib.samples = 20
          BY <3>c, <4>8
        <5>4. PICK l, m \in 0 .. Jitter :
                l <= m /\ calib.over = WrapperCycles + l /\ calib.spread = m - l
          BY <3>c, <4>8
        <5>5. PICK j \in 0 .. Jitter :
                IF Reading(StubCycles, j) - calib.over \in ToleranceWindow(on, calib.spread, calib.samples)
                THEN Advance /\ UNCHANGED outcome ELSE Leave("self-test failed")
          <6>1. Noise = 0 .. Jitter
            BY <2>4 DEF Noise
          <6> QED BY <5>2, <6>1 DEF VerifyWrapper
        <5>6. Reading(StubCycles, j) - calib.over \in ToleranceWindow(on, calib.spread, calib.samples)
          BY <2>4, <5>3, <5>4, WindowWide
        <5>7. p = 6 /\ outcome' = outcome
          BY <3>d, <4>8, <5>5, <5>6 DEF Advance
        <5>8. ~(p \in 2 .. 5)
          BY <5>7
        <5> QED BY <1>3, <3>3, <5>7, <5>8 DEF Unrefused
      <4> QED BY <4>1, <4>4, <4>5, <4>6, <4>7, <4>8
    <3>8. k > 5 \/ k <= 5
      BY <3>1
    <3> QED BY <3>4, <3>5, <3>6, <3>7, <3>8
  <2> QED BY <2>2, <2>3, <2>4
<1> QED BY <1>1, <1>2, <1>3, Dispatch

-----------------------------------------------------------------------------
(* The invariant of all sessions.                                           *)

LEMMA LabInit == Init => LabInv
<1> SUFFICES ASSUME Init PROVE LabInv
  OBVIOUS
<1>1. tool = [tool |-> "none", before |-> 1] /\ script = <<>> /\ outcome = "none" /\ on = "vice"
      /\ told = <<>> /\ machine = [b \in Backends |-> Cold]
  BY DEF Init
<1>2. tool.tool = "none"
  BY <1>1
<1>3. Desk /\ Turboed /\ Carrying /\ Prologue /\ Unrefused
  BY <1>1, <1>2 DEF Desk, Turboed, Carrying, Prologue, Judged, Unrefused
<1>4. ColumnsKept
  <2>1. <<>> \in Seq({}) /\ Len(<<>>) = 0
    BY EmptySeq
  <2>2. DOMAIN told = 1 .. 0
    BY <1>1, <2>1, LenProperties
  <2> QED BY <2>2 DEF ColumnsKept
<1>5. Fitted
  BY <1>1 DEF Fitted, Slots
<1> QED BY <1>3, <1>4, <1>5 DEF LabInv

LEMMA LabStep == LabInv /\ [Next]_vars => LabInv'
<1> SUFFICES ASSUME LabInv, [Next]_vars PROVE LabInv'
  OBVIOUS
<1>1. CASE Next
  <2>1. Desk /\ Turboed /\ Carrying /\ ColumnsKept /\ Fitted /\ Prologue /\ Unrefused
    BY DEF LabInv
  <2>2. Desk'
    <3>1. ASSUME NEW c \in Commands, Invoke(c) PROVE Desk'
      BY <2>1, <3>1, Invoked
    <3>2. ASSUME Neighbour PROVE Desk'
      BY <2>1, <3>2, Passed
    <3>3. ASSUME Moving, script # <<>>, UNCHANGED <<on, tool>> PROVE Desk'
      BY <2>1, <3>3, MovingGoes
    <3> QED BY <1>1, <3>1, <3>2, <3>3, Dispatch
  <2>3. Turboed'
    BY <1>1, <2>1, TurboedStep
  <2>4. Carrying' /\ ColumnsKept'
    BY <1>1, <2>1, KeptStep
  <2>5. Fitted'
    BY <1>1, <2>1, FittedStep
  <2>6. Prologue' /\ Unrefused'
    BY <1>1, <2>1, PrologueStep
  <2> QED BY <2>2, <2>3, <2>4, <2>5, <2>6 DEF LabInv
<1>2. CASE UNCHANGED vars
  <2>1. UNCHANGED <<machine, speed, on, script, outcome, calib, sidecar, held, told, tool>>
    BY <1>2 DEF vars, machineVars, measureVars, toolVars
  <2>2. Full' = Full /\ Position' = Position
        /\ Rest(Position)' = Rest(Position) /\ Rest(Position + 1)' = Rest(Position + 1)
    <3>1. Full' = Full
      BY <2>1 DEF Full
    <3>2. Position' = Position
      BY <2>1, <3>1 DEF Position
    <3> QED BY <3>1, <3>2 DEF Rest
  <2>3. Desk'
    BY <2>1, <2>2 DEF LabInv, Desk, Left, Well
  <2>4. Turboed' /\ Carrying' /\ ColumnsKept'
    BY <2>1, <2>2 DEF LabInv, Turboed, Carrying, ColumnsKept
  <2>5. Fitted' /\ Unrefused'
    BY <2>1 DEF LabInv, Fitted, Unrefused
  <2>6. Prologue'
    BY <2>1, <2>2 DEF LabInv, Prologue, Judged
  <2> QED BY <2>3, <2>4, <2>5, <2>6 DEF LabInv
<1> QED BY <1>1, <1>2

LEMMA LabAlways == Spec => []LabInv
BY LabInit, LabStep, PTL DEF Spec

\* A turbo sweep that was not killed leaves no turbo set that it found off,
\* whatever speeds it was asked for and whichever the firmware rejects,
\* however it ended: for every list of speeds and every session before it
\* (bench_turbo_sweep.run_sweep and its finally).
THEOREM NoTurboLeft == Spec => []LeavesNoTurbo
<1>1. LabInv => LeavesNoTurbo
  <2> SUFFICES ASSUME LabInv, script = <<>>, tool.tool = "turbo", outcome \notin {"none", "killed"}
               PROVE  speed \in {1, tool.before}
    BY DEF LeavesNoTurbo, Ended
  <2>1. Desk /\ Well(tool) /\ Left
    BY DEF LabInv, Desk
  <2>2. Len(Full) \in Nat /\ Len(script) = 0
    BY <2>1, FullSeq, EmptySeq
  <2>3. Position >= Len(Full)
    BY <2>2 DEF Position
  <2> QED BY <2>3 DEF LabInv, Turboed
<1> QED BY <1>1, LabAlways, PTL

\* A column that a sweep reported as written stays in the file, with the
\* build it was measured on, through every later sweep of any profile, until
\* a sweep is stopped while it writes (run_sweep).
THEOREM ColumnsStay == Spec => []ColumnsKept
<1>1. LabInv => ColumnsKept
  BY DEF LabInv
<1> QED BY <1>1, LabAlways, PTL

\* On the Ultimate 64, with a jitter within the floor that the program
\* allows for, a wrapper that arrived whole passes its self-test, at whatever
\* speed others left the machine and however the calibration's samples fell
\* (_wrapper_tolerance_window, set_speed(1)).
THEOREM SelfTestPasses == Spec => []Unrefused
<1>1. LabInv => Unrefused
  BY DEF LabInv
<1> QED BY <1>1, LabAlways, PTL

-----------------------------------------------------------------------------
(* The audit's counts.                                                      *)

\* The total is zero exactly if no category has a failure.
LEMMA TotalFailIs ==
  ASSUME \A c \in AuditCategories : score[c].failed \in Nat
  PROVE  TotalFail = 0 <=> \A c \in AuditCategories : score[c].failed = 0
<1> DEFINE S == AuditCategories  g == [c \in S |-> score[c].failed]
           it == CHOOSE h : h = Summing(h, g, S)
<1>1. IsFiniteSet(S)
  <2>1. IsFiniteSet({"chacha20"} \cup {"poly1305"} \cup {"encrypt"} \cup {"decrypt"} \cup {"tamper"})
    BY FS_Union, FS_Singleton
  <2>2. S = {"chacha20"} \cup {"poly1305"} \cup {"encrypt"} \cup {"decrypt"} \cup {"tamper"}
    BY DEF AuditCategories
  <2> QED BY <2>1, <2>2
<1>2. g \in [S -> Nat]
  OBVIOUS
<1> HIDE DEF S
<1>3. it[S] \in Nat /\ (it[S] = 0 <=> \A x \in S : g[x] = 0)
  <2> HIDE DEF g
  <2> QED BY <1>1, <1>2, SumOver
<1> DEFINE of(h) == [s \in SUBSET S |-> IF s = {} THEN 0
                      ELSE LET x == CHOOSE x \in s : TRUE IN score[x].failed + h[s \ {x}]]
<1>4. ASSUME NEW h PROVE Summing(h, g, S) = of(h)
  <2>1. ASSUME NEW s \in SUBSET S, s # {}
        PROVE  LET x == CHOOSE x \in s : TRUE IN g[x] + h[s \ {x}] = score[x].failed + h[s \ {x}]
    <3> DEFINE x == CHOOSE y \in s : TRUE
    <3>1. x \in S
      BY <2>1
    <3> QED BY <3>1
  <2> HIDE DEF g
  <2> QED BY <2>1 DEF Summing
<1>5. it = CHOOSE h : h = of(h)
  <2> HIDE DEF g, of
  <2> QED BY <1>4
<1>6. TotalFail = (CHOOSE h : h = of(h))[S]
  BY DEF TotalFail, MapThenSumSet, MapThenFoldSet, S
<1>7. TotalFail = it[S]
  <2> HIDE DEF it, of
  <2> QED BY <1>5, <1>6
<1>8. (\A x \in S : g[x] = 0) <=> \A c \in S : score[c].failed = 0
  OBVIOUS
<1> HIDE DEF it, g
<1> QED BY <1>3, <1>7, <1>8 DEF S

LEMMA AuditEnds ==
  ASSUME NEW c, c.tool = "audit"
  PROVE  AuditLast(c)
<1> DEFINE P == Ops("audit")  Q == {"boot", "load", "speed"}
           s0 == IF c.on = "u64" THEN SetSpeed(1) \o Do("load") ELSE Do("boot")
           v(category) == VectorsOf(category, c.counts)
           a == v("chacha20")  b == v("poly1305")  d == v("aead")  e == v("tamper")
           g == [op |-> "summary"]  h == [op |-> "end"]
           s1 == s0 \o <<a>>  s2 == s1 \o <<b>>  s3 == s2 \o <<d>>  s4 == s3 \o <<e>>
           s5 == s4 \o <<g>>  s6 == s5 \o <<h>>  m == Len(s0)
<1>1. Whole(c) = s6
  BY DEF Whole, Script, Audit, Vectors, VectorsOf, Do
<1>2. Q \subseteq P /\ {"vectors", "summary", "end"} \subseteq P
  BY DEF Ops, Auditing
<1>3. a.op \in P /\ b.op \in P /\ d.op \in P /\ e.op \in P /\ g.op \in P /\ h.op \in P
  BY <1>2 DEF VectorsOf
<1> HIDE DEF P
<1>4. IsScript(s0, P) /\ m \in Nat /\ m >= 1 /\ \A i \in 1 .. m : s0[i].op \in Q
  <2>1. IsScript(SetSpeed(1), Q) /\ IsScript(Do("load"), Q) /\ IsScript(Do("boot"), Q)
    BY Pieces, DoScript
  <2>2. IsScript(SetSpeed(1) \o Do("load"), Q) /\ Joins(SetSpeed(1) \o Do("load"), SetSpeed(1), Do("load"))
    BY <2>1, ScriptJoin
  <2>3. Len(SetSpeed(1)) = 1 /\ Len(Do("load")) = 1 /\ Len(Do("boot")) = 1
    BY DEF SetSpeed, Do
  <2>4. Len(SetSpeed(1) \o Do("load")) = 2
    BY <2>2, <2>3 DEF Joins
  <2>5. IsScript(s0, Q) /\ m >= 1
    BY <2>1, <2>2, <2>3, <2>4
  <2> HIDE DEF s0, Q
  <2> QED BY <1>2, <2>5, ScriptAt, ScriptMore
<1>5. g.op = "summary" /\ h.op = "end"
  OBVIOUS
<1> HIDE DEF s0, a, b, d, e, g, h, m
<1>6. IsScript(s1, P) /\ Extends(s1, s0, a)
  BY <1>3, <1>4, ScriptLast
<1> HIDE DEF s1
<1>7. IsScript(s2, P) /\ Extends(s2, s1, b)
  BY <1>3, <1>6, ScriptLast
<1> HIDE DEF s2
<1>8. IsScript(s3, P) /\ Extends(s3, s2, d)
  BY <1>3, <1>7, ScriptLast
<1> HIDE DEF s3
<1>9. IsScript(s4, P) /\ Extends(s4, s3, e)
  BY <1>3, <1>8, ScriptLast
<1> HIDE DEF s4
<1>10. IsScript(s5, P) /\ Extends(s5, s4, g)
  BY <1>3, <1>9, ScriptLast
<1> HIDE DEF s5
<1>11. Extends(s6, s5, h)
  BY <1>3, <1>10, ScriptLast
<1> HIDE DEF s6
<1>12. Len(s1) = m + 1 /\ s1[m + 1] = a /\ \A i \in 1 .. m : s1[i] = s0[i]
  BY <1>6 DEF Extends, m
<1>13. Len(s2) = m + 2 /\ s2[m + 2] = b /\ \A i \in 1 .. m + 1 : s2[i] = s1[i]
  BY <1>4, <1>7, <1>12 DEF Extends
<1>14. Len(s3) = m + 3 /\ s3[m + 3] = d /\ \A i \in 1 .. m + 2 : s3[i] = s2[i]
  BY <1>4, <1>8, <1>13 DEF Extends
<1>15. Len(s4) = m + 4 /\ s4[m + 4] = e /\ \A i \in 1 .. m + 3 : s4[i] = s3[i]
  BY <1>4, <1>9, <1>14 DEF Extends
<1>16. Len(s5) = m + 5 /\ s5[m + 5] = g /\ \A i \in 1 .. m + 4 : s5[i] = s4[i]
  BY <1>4, <1>10, <1>15 DEF Extends
<1>17. Len(s6) = m + 6 /\ s6[m + 6] = h /\ \A i \in 1 .. m + 5 : s6[i] = s5[i]
  BY <1>4, <1>11, <1>16 DEF Extends
<1>18. s6[m + 1] = a /\ s6[m + 2] = b /\ s6[m + 3] = d /\ s6[m + 4] = e /\ s6[m + 5] = g
  <2>1. s4[m + 1] = a /\ s4[m + 2] = b /\ s4[m + 3] = d
    BY <1>4, <1>12, <1>13, <1>14, <1>15
  <2>2. s5[m + 1] = a /\ s5[m + 2] = b /\ s5[m + 3] = d /\ s5[m + 4] = e /\ s5[m + 5] = g
    <3>1. m + 1 \in 1 .. m + 4 /\ m + 2 \in 1 .. m + 4 /\ m + 3 \in 1 .. m + 4 /\ m + 4 \in 1 .. m + 4
      BY <1>4
    <3> QED BY <1>15, <1>16, <2>1, <3>1
  <2>3. /\ m + 1 \in 1 .. m + 5 /\ m + 2 \in 1 .. m + 5 /\ m + 3 \in 1 .. m + 5 /\ m + 4 \in 1 .. m + 5
        /\ m + 5 \in 1 .. m + 5
    BY <1>4
  <2> QED BY <1>17, <2>2, <2>3
<1>19. \A i \in 1 .. m : s6[i].op \in Q
  <2> TAKE i \in 1 .. m
  <2>1. i \in 1 .. m + 1 /\ i \in 1 .. m + 2 /\ i \in 1 .. m + 3 /\ i \in 1 .. m + 4 /\ i \in 1 .. m + 5
    BY <1>4
  <2>2. s6[i] = s0[i]
    BY <1>12, <1>13, <1>14, <1>15, <1>16, <1>17, <2>1
  <2> QED BY <1>4, <2>2
<1> DEFINE n == m + 6
<1>20. n \in Nat /\ n >= 7 /\ n - 5 = m + 1 /\ n - 4 = m + 2 /\ n - 3 = m + 3 /\ n - 2 = m + 4
       /\ n - 1 = m + 5 /\ n - 6 = m /\ Len(s6) = n
  BY <1>4, <1>17
<1> QED BY <1>1, <1>5, <1>17, <1>18, <1>19, <1>20 DEF AuditLast, a, b, d, e

\* What an audit has at each position.
LEMMA AuditAt ==
  ASSUME Desk, script # <<>>, tool.tool = "audit"
  PROVE  LET n == Len(Full)  x == Head(script)
         IN  /\ n \in Nat /\ n >= 7 /\ Position \in 1 .. n /\ x.op \in Ops("audit")
             /\ x.op \in {"boot", "load", "speed"} => Position <= n - 6
             /\ x.op = "vectors" => /\ x.category \in {"chacha20", "poly1305", "aead", "tamper"}
                                    /\ x.count = tool.counts[x.category]
                                    /\ x.category = "tamper" => Position = n - 2
                                    /\ x.category # "tamper" => Position < n - 2
             /\ x.op = "summary" => Position = n - 1
             /\ x.op = "end" => Position = n
<1> DEFINE n == Len(Full)  k == Position
<1>1. /\ Well(tool) /\ n \in Nat /\ k \in 1 .. n
      /\ Head(script) = Full[k] \/ Full[k].op = "skip"
  BY Cursor
<1>2. /\ n >= 7
      /\ Full[n - 5] = VectorsOf("chacha20", tool.counts)
      /\ Full[n - 4] = VectorsOf("poly1305", tool.counts)
      /\ Full[n - 3] = VectorsOf("aead", tool.counts) /\ Full[n - 2] = VectorsOf("tamper", tool.counts)
      /\ Full[n - 1].op = "summary" /\ Full[n].op = "end"
      /\ \A i \in 1 .. n - 6 : Full[i].op \in {"boot", "load", "speed"}
  BY AuditEnds DEF AuditLast, Full
<1>3. Head(script).op \in Ops("audit")
  BY HereScript
<1>4. \A category : /\ VectorsOf(category, tool.counts).op = "vectors"
                    /\ VectorsOf(category, tool.counts).category = category
                    /\ VectorsOf(category, tool.counts).count = tool.counts[category]
  BY DEF VectorsOf
<1> HIDE DEF n, k
<1>5. k <= n - 6 \/ k = n - 5 \/ k = n - 4 \/ k = n - 3 \/ k = n - 2 \/ k = n - 1 \/ k = n
  BY <1>1
<1>6. CASE k <= n - 6
  <2>1. k \in 1 .. n - 6
    BY <1>1, <1>6
  <2> QED BY <1>1, <1>2, <1>3, <1>6, <2>1 DEF n, k
<1>v. ASSUME NEW c \in {"chacha20", "poly1305", "aead", "tamper"},
             Full[k] = VectorsOf(c, tool.counts), k \in n - 5 .. n - 2, c = "tamper" <=> k = n - 2
      PROVE  LET x == Head(script)
             IN  /\ x.op = "vectors" /\ x.category \in {"chacha20", "poly1305", "aead", "tamper"}
                 /\ x.count = tool.counts[x.category]
                 /\ x.category = "tamper" => k = n - 2
                 /\ x.category # "tamper" => k < n - 2
  <2> DEFINE x == Head(script)
  <2>1. x = Full[k]
    BY <1>1, <1>4, <1>v
  <2>2. x.op = "vectors" /\ x.category = c /\ x.count = tool.counts[c]
    BY <1>4, <1>v, <2>1
  <2>3. k # n - 2 => k < n - 2
    BY <1>1, <1>v
  <2> HIDE DEF x
  <2> QED BY <1>v, <2>2, <2>3 DEF x
<1>7. CASE k = n - 5
  <2>1. k \in n - 5 .. n - 2 /\ k # n - 2
    BY <1>1, <1>7
  <2> QED BY <1>1, <1>2, <1>3, <1>7, <1>v, <2>1 DEF n, k
<1>8. CASE k = n - 4
  <2>1. k \in n - 5 .. n - 2 /\ k # n - 2
    BY <1>1, <1>8
  <2> QED BY <1>1, <1>2, <1>3, <1>8, <1>v, <2>1 DEF n, k
<1>9. CASE k = n - 3
  <2>1. k \in n - 5 .. n - 2 /\ k # n - 2
    BY <1>1, <1>9
  <2> QED BY <1>1, <1>2, <1>3, <1>9, <1>v, <2>1 DEF n, k
<1>10. CASE k = n - 2
  <2>1. k \in n - 5 .. n - 2
    BY <1>1, <1>10
  <2> QED BY <1>1, <1>2, <1>3, <1>10, <1>v, <2>1 DEF n, k
<1>11. CASE k = n - 1 \/ k = n
  BY <1>1, <1>2, <1>3, <1>11 DEF n, k
<1> QED BY <1>5, <1>6, <1>7, <1>8, <1>9, <1>10, <1>11

LEMMA AuditMoves ==
  ASSUME Desk, script # <<>>, tool.tool = "audit", Next
  PROVE  \/ Starting \/ (End /\ UNCHANGED fuzzVars)
         \/ Vector \/ VectorPair \/ NoVectors \/ Summary \/ Interrupt \/ Kill
<1>1. Head(script).op \in {"boot", "load", "speed", "vectors", "summary", "end"}
  BY AuditAt DEF Ops, Auditing
<1>2. ~(\E c \in Commands : Invoke(c)) /\ ~Neighbour
  BY DEF Invoke, Neighbour
<1>3. OnMachine => Starting \/ (End /\ UNCHANGED fuzzVars)
  <2>1. ~Blank /\ ~InstallWrapper /\ ~CalibrateWrapper /\ ~VerifyWrapper /\ ~SetupRoutine
        /\ ~RunRoutine /\ ~Sample /\ ~Record /\ ~Enter
    BY <1>1 DEF Blank, InstallWrapper, CalibrateWrapper, VerifyWrapper, SetupRoutine, RunRoutine,
                Sample, Record, Enter, Now
  <2> QED BY <2>1 DEF OnMachine, MachineStep, Starting
<1>4. ~OnTool
  <2>1. ~NeedSymbol /\ ~SkipRow /\ ~CompareRow /\ ~Gate /\ ~Turbo /\ ~LoadSidecar
        /\ ~TruncateSidecar /\ ~SaveSidecar /\ ~NeedExact /\ ~CtRow /\ ~CtOfRoutine /\ ~CtVerdict
    BY <1>1 DEF NeedSymbol, SkipRow, CompareRow, Gate, Turbo, LoadSidecar, TruncateSidecar,
                SaveSidecar, NeedExact, CtRow, CtOfRoutine, CtVerdict, Now
  <2> QED BY <2>1 DEF OnTool, ToolStep
<1>5. ~CheckGlue /\ ~FuzzCategory /\ ~Result
  BY <1>1 DEF CheckGlue, FuzzCategory, Result, Now
<1> QED BY <1>2, <1>3, <1>4, <1>5 DEF Next, OnFuzz

LEMMA TallyIs ==
  ASSUME NEW s \in Scores, NEW x, NEW failed \in BOOLEAN
  PROVE  /\ Tally(s, x, failed) \in Scores
         /\ ~failed => \A c \in AuditCategories : Tally(s, x, failed)[c].failed = s[c].failed
         /\ failed /\ x \in AuditCategories => Tally(s, x, failed)[x].failed > 0
<1> DEFINE t == Tally(s, x, failed)
<1>1. \A c \in AuditCategories : s[c] \in [passed : Nat, failed : Nat]
  BY DEF Scores
<1>2. CASE failed
  <2>1. t = [s EXCEPT ![x].failed = @ + 1]
    BY <1>2 DEF Tally
  <2>2. \A c \in AuditCategories : c # x => t[c] = s[c]
    BY <2>1 DEF Scores
  <2>3. x \in AuditCategories => t[x] = [passed |-> s[x].passed, failed |-> s[x].failed + 1]
    BY <1>1, <2>1 DEF Scores
  <2>4. DOMAIN t = AuditCategories /\ t = [c \in AuditCategories |-> t[c]]
    BY <2>1 DEF Scores
  <2> HIDE DEF t
  <2>5. \A c \in AuditCategories : t[c] \in [passed : Nat, failed : Nat]
    BY <1>1, <2>2, <2>3
  <2>6. t \in Scores
    BY <2>4, <2>5 DEF Scores
  <2>7. x \in AuditCategories => t[x].failed > 0
    BY <1>1, <2>3
  <2> QED BY <1>2, <2>6, <2>7 DEF t
<1>3. CASE ~failed
  <2>1. t = [s EXCEPT ![x].passed = @ + 1]
    BY <1>3 DEF Tally
  <2>2. \A c \in AuditCategories : c # x => t[c] = s[c]
    BY <2>1 DEF Scores
  <2>3. x \in AuditCategories => t[x] = [passed |-> s[x].passed + 1, failed |-> s[x].failed]
    BY <1>1, <2>1 DEF Scores
  <2>4. DOMAIN t = AuditCategories /\ t = [c \in AuditCategories |-> t[c]]
    BY <2>1 DEF Scores
  <2> HIDE DEF t
  <2>5. \A c \in AuditCategories : t[c] \in [passed : Nat, failed : Nat]
    BY <1>1, <2>2, <2>3
  <2>6. t \in Scores
    BY <2>4, <2>5 DEF Scores
  <2>7. \A c \in AuditCategories : t[c].failed = s[c].failed
    BY <2>2, <2>3
  <2> QED BY <1>3, <2>6, <2>7 DEF t
<1> QED BY <1>2, <1>3

\* What one vector shows of a sound library, and of one that accepts any tag.
LEMMA VectorShows ==
  ASSUME NEW c \in {"chacha20", "poly1305", "encrypt", "decrypt", "tamper"}, NEW hit \in BOOLEAN
  PROVE  /\ VectorFails(c, hit) \in BOOLEAN
         /\ library.defect = <<"none">> => ~VectorFails(c, hit)
         /\ library.defect = <<"accepts any tag">> /\ c = "tamper" => VectorFails(c, hit)
<1> DEFINE d == library.defect
           hits(corpora) == d[1] = "wrong" /\ d[2] \in corpora /\ hit
<1>0. <<"none">>[1] = "none"
  OBVIOUS
<1>1. CASE c = "chacha20"
  <2>1. VectorFails(c, hit) = hits({"chacha20_block"})
    BY <1>1 DEF VectorFails
  <2> QED BY <1>0, <1>1, <2>1
<1>2. CASE c = "poly1305"
  <2>1. VectorFails(c, hit) = hits({"poly1305"})
    BY <1>2 DEF VectorFails
  <2> QED BY <1>0, <1>2, <2>1
<1>3. CASE c \in {"encrypt", "decrypt"}
  <2>1. VectorFails(c, hit) = (d = <<"broken">> \/ hits(DOMAIN Edges))
    BY <1>3 DEF VectorFails
  <2>2. <<"none">> # <<"broken">> /\ <<"none">>[1] = "none"
    OBVIOUS
  <2> QED BY <1>3, <2>1, <2>2
<1>4. CASE c = "tamper"
  <2>1. VectorFails(c, hit) = (d = <<"accepts any tag">> \/ (d[1] = "blind" /\ hit))
    BY <1>4 DEF VectorFails
  <2>2. <<"none">> # <<"accepts any tag">> /\ <<"none">>[1] = "none"
    OBVIOUS
  <2> QED BY <1>4, <2>1, <2>2
<1> QED BY <1>1, <1>2, <1>3, <1>4

\* One vector, or a pair of them.
LEMMA AuditVector ==
  ASSUME Desk, Audited, script # <<>>, tool.tool = "audit", Vector \/ VectorPair, Desk'
  PROVE  Audited'
<1> DEFINE n == Len(Full)  k == Position  x == Head(script)
<1>1. /\ n \in Nat /\ n >= 7 /\ k \in 1 .. n /\ x.op = "vectors"
      /\ x.category \in {"chacha20", "poly1305", "aead", "tamper"}
      /\ x.category = "tamper" => k = n - 2
      /\ x.category # "tamper" => k < n - 2
  BY AuditAt DEF Vector, VectorPair, Now
<1>2. UNCHANGED <<tool, library, outcome>>
  BY DEF Vector, VectorPair, Working
<1>3. script' = script \/ script' = Tail(script)
  BY DEF Vector, VectorPair, EndVector, Advance
<1>4. Full' = Full /\ (Position' = k \/ Position' = k + 1)
  <2>1. CASE script' = script
    BY <1>2, <2>1, Cursor, Stayed
  <2>2. CASE script' = Tail(script)
    BY <1>2, <2>2, Advanced
  <2> QED BY <1>3, <2>1, <2>2
<1>5. score \in Scores /\ Asked
  BY DEF Audited
<1>6. /\ score' \in Scores
      /\ library.defect = <<"none">> =>
           \A c \in AuditCategories : score'[c].failed = score[c].failed
      /\ Lenient /\ x.category = "tamper" => score'["tamper"].failed > 0
  <2>1. CASE Vector
    <3>1. PICK hit \in BOOLEAN : score' = Tally(score, x.category, VectorFails(x.category, hit))
      BY <2>1 DEF Vector
    <3>2. x.category \in {"chacha20", "poly1305", "tamper"}
      BY <1>1, <2>1 DEF Vector
    <3> DEFINE f == VectorFails(x.category, hit)
    <3>3. f \in BOOLEAN /\ (library.defect = <<"none">> => ~f)
          /\ (library.defect = <<"accepts any tag">> /\ x.category = "tamper" => f)
      BY <3>2, VectorShows
    <3>4. "tamper" \in AuditCategories
      BY DEF AuditCategories
    <3>5. score' = Tally(score, x.category, f)
      BY <3>1
    <3> HIDE DEF f
    <3> QED BY <1>5, <3>3, <3>4, <3>5, TallyIs DEF Lenient
  <2>2. CASE VectorPair
    <3>1. x.category = "aead"
      BY <2>2 DEF VectorPair
    <3>2. PICK hit \in BOOLEAN :
            LET e == Tally(score, "encrypt", VectorFails("encrypt", hit))
            IN  score' = e \/ score' = Tally(e, "decrypt", VectorFails("decrypt", hit))
      BY <2>2 DEF VectorPair
    <3> DEFINE f == VectorFails("encrypt", hit)  g == VectorFails("decrypt", hit)
               e == Tally(score, "encrypt", f)  t == Tally(e, "decrypt", g)
    <3>3. f \in BOOLEAN /\ g \in BOOLEAN /\ (library.defect = <<"none">> => ~f /\ ~g)
      BY VectorShows
    <3>4. score' = e \/ score' = t
      BY <3>2
    <3> HIDE DEF f, g
    <3>5. e \in Scores
          /\ (~f => \A c \in AuditCategories : e[c].failed = score[c].failed)
      BY <1>5, <3>3, TallyIs
    <3> HIDE DEF e
    <3>6. t \in Scores
          /\ (~g => \A c \in AuditCategories : t[c].failed = e[c].failed)
      BY <3>3, <3>5, TallyIs
    <3> HIDE DEF t
    <3> QED BY <3>1, <3>3, <3>4, <3>5, <3>6
  <2> QED BY <2>1, <2>2
<1>7. Blameless' => outcome' # "audit failed" /\ \A c \in AuditCategories : score'[c].failed = 0
  BY <1>2, <1>6 DEF Audited, Blameless
<1>8. Lenient' /\ outcome' \in {"running", "ok"} =>
        Position' < n /\ (Position' = n - 1 => score'["tamper"].failed > 0)
  <2> DEFINE p == Position'
  <2>1. p = k \/ p = k + 1
    BY <1>4
  <2>2. k <= n - 2
    <3> HIDE DEF n, k
    <3> QED BY <1>1
  <2>3. k = n - 2 => x.category = "tamper"
    <3> HIDE DEF n, k
    <3> QED BY <1>1
  <2> HIDE DEF p, n, k, x
  <2>4. p < n /\ (p = n - 1 => k = n - 2)
    BY <1>1, <2>1, <2>2
  <2> QED BY <1>2, <1>6, <2>3, <2>4 DEF p, Lenient
<1> QED BY <1>2, <1>4, <1>5, <1>6, <1>7, <1>8 DEF Audited, Asked

\* A category without vectors, and the summary.
LEMMA AuditRest ==
  ASSUME Desk, Audited, script # <<>>, tool.tool = "audit", NoVectors \/ Summary, Desk'
  PROVE  Audited'
<1> DEFINE n == Len(Full)  k == Position  x == Head(script)
<1>1. /\ n \in Nat /\ n >= 7 /\ k \in 1 .. n
      /\ x.op = "vectors" => /\ x.count = tool.counts[x.category]
                             /\ x.category \in {"chacha20", "poly1305", "aead", "tamper"}
                             /\ x.category = "tamper" => k = n - 2
                             /\ x.category # "tamper" => k < n - 2
      /\ x.op = "summary" => k = n - 1
  BY AuditAt
<1>2. UNCHANGED <<tool, library>>
  BY DEF NoVectors, Summary, Working, fuzzVars
<1>3. score \in Scores /\ Asked
  BY DEF Audited
<1>4. CASE NoVectors
  <2> DEFINE none == x.category = "tamper" /\ tool.counts["aead"] = 0
  <2>1. /\ x.op = "vectors" /\ (x.count = 0 \/ none) /\ script' = Tail(script) /\ outcome' = outcome
        /\ score' = IF none THEN [score EXCEPT !["tamper"].failed = x.count] ELSE score
    BY <1>4 DEF NoVectors, Now, Advance
  <2>2. Full' = Full /\ Position' = k + 1
    BY <1>2, <2>1, Advanced
  <2>3. x.count \in Nat
    BY <1>1, <1>3, <2>1 DEF Asked
  <2>4. score' \in Scores /\ (none => score'["tamper"].failed = x.count)
    <3>1. CASE none
      <4> DEFINE s == score'
      <4>1. s = [score EXCEPT !["tamper"].failed = x.count]
        BY <2>1, <3>1
      <4>2. "tamper" \in AuditCategories
        BY DEF AuditCategories
      <4>3. \A c \in AuditCategories : score[c] \in [passed : Nat, failed : Nat]
        BY <1>3 DEF Scores
      <4>4. s["tamper"] = [passed |-> score["tamper"].passed, failed |-> x.count]
        BY <1>3, <4>1, <4>2, <4>3 DEF Scores
      <4>5. \A c \in AuditCategories : c # "tamper" => s[c] = score[c]
        BY <1>3, <4>1 DEF Scores
      <4>6. s = [c \in AuditCategories |-> s[c]]
        BY <1>3, <4>1 DEF Scores
      <4> HIDE DEF s, x
      <4>7. \A c \in AuditCategories : s[c] \in [passed : Nat, failed : Nat]
        BY <2>3, <4>2, <4>3, <4>4, <4>5
      <4> QED BY <4>4, <4>6, <4>7 DEF s, Scores
    <3> QED BY <1>3, <2>1, <3>1
  <2>5. ~none => score' = score /\ x.count = 0
    BY <2>1
  <2>6. Blameless' => outcome' # "audit failed" /\ \A c \in AuditCategories : score'[c].failed = 0
    <3>1. Blameless => ~none
      BY DEF Blameless
    <3> QED BY <1>2, <2>1, <2>5, <3>1 DEF Audited, Blameless
  <2>7. Lenient' /\ outcome' \in {"running", "ok"} =>
          Position' < n /\ (Position' = n - 1 => score'["tamper"].failed > 0)
    <3>1. Lenient /\ x.category = "tamper" => none /\ score'["tamper"].failed > 0
      <4>1. Lenient /\ x.category = "tamper" => x.count > 0
        <5> DEFINE y == x.count
        <5>1. Lenient /\ x.category = "tamper" => y # 0
          BY <1>1, <2>1 DEF Lenient
        <5>2. y \in Nat
          BY <2>3
        <5> HIDE DEF y
        <5>3. y # 0 => y > 0
          BY <5>2
        <5> QED BY <5>1, <5>3 DEF y
      <4> QED BY <2>1, <2>4, <4>1
    <3>2. /\ x.category = "tamper" => k = n - 2
          /\ x.category # "tamper" => k < n - 2
      BY <1>1, <2>1
    <3> DEFINE p == Position'
    <3>3. p = k + 1
      BY <2>2
    <3> HIDE DEF p, n, k, x, none
    <3>4. p < n /\ (p = n - 1 => x.category = "tamper")
      BY <1>1, <3>2, <3>3
    <3> QED BY <1>2, <3>1, <3>4 DEF p, Lenient
  <2> QED BY <1>2, <1>3, <2>2, <2>4, <2>6, <2>7 DEF Audited, Asked
<1>5. CASE Summary
  <2>1. x.op = "summary" /\ score' = score
        /\ IF TotalFail = 0 THEN script' = Tail(script) /\ outcome' = outcome
           ELSE outcome' = "audit failed" /\ script' = Finally(script)
    BY <1>5 DEF Summary, Now, Advance, Leave, fuzzVars
  <2>2. Full' = Full
    BY <1>2, <2>1, Advanced, Thrown
  <2>3. \A c \in AuditCategories : score[c].failed \in Nat
    BY <1>3 DEF Scores
  <2>4. TotalFail = 0 <=> \A c \in AuditCategories : score[c].failed = 0
    BY <2>3, TotalFailIs
  <2>5. Blameless' => outcome' # "audit failed" /\ \A c \in AuditCategories : score'[c].failed = 0
    BY <1>2, <2>1, <2>4 DEF Audited, Blameless
  <2>6. ~(Lenient' /\ outcome' \in {"running", "ok"})
    <3> SUFFICES ASSUME Lenient, outcome' \in {"running", "ok"} PROVE FALSE
      BY <1>2 DEF Lenient
    <3>1. TotalFail = 0 /\ outcome' = outcome
      BY <2>1
    <3>2. k = n - 1
      BY <1>1, <2>1
    <3>3. score["tamper"].failed > 0
      BY <3>1, <3>2 DEF Audited
    <3>4. "tamper" \in AuditCategories
      BY DEF AuditCategories
    <3>5. score["tamper"].failed = 0
      BY <2>4, <3>1, <3>4
    <3> QED BY <3>3, <3>5
  <2> QED BY <1>2, <1>3, <2>1, <2>2, <2>5, <2>6 DEF Audited, Asked
<1> QED BY <1>4, <1>5

LEMMA AuditedStep ==
  ASSUME Desk, Desk', Audited, Next
  PROVE  Audited'
<1>1. ASSUME NEW c \in Commands, Invoke(c) PROVE Audited'
  <2> SUFFICES ASSUME tool'.tool = "audit" PROVE Audited'
    BY DEF Audited
  <2>1. c.tool = "audit" /\ tool'.counts = c.counts /\ Position' = 1
        /\ Full' = Whole(tool')
    <3>1. c.tool = "audit"
      BY <1>1, Invoked
    <3>2. "counts" \in Options(c.tool)
      BY <3>1 DEF Options
    <3> QED BY <1>1, <3>1, <3>2, Invoked DEF Full
  <2>2. score' = NoScore /\ outcome' = "running"
    BY <1>1 DEF Invoke
  <2>3. Asked'
    BY <2>1, CommandsAssumption DEF Asked
  <2>4. NoScore \in Scores /\ \A c2 \in AuditCategories : NoScore[c2].failed = 0
    BY DEF NoScore, Scores
  <2>5. Len(Full') \in Nat /\ Len(Full') >= 7
    BY <2>1, AuditEnds DEF AuditLast
  <2>6. Position' < Len(Full') /\ Position' # Len(Full') - 1
    <3> DEFINE p == Position'  m == Len(Full')
    <3>1. p = 1 /\ m \in Nat /\ m >= 7
      BY <2>1, <2>5
    <3> HIDE DEF p, m
    <3>2. p < m /\ p # m - 1
      BY <3>1
    <3> QED BY <3>2 DEF p, m
  <2> QED BY <2>2, <2>3, <2>4, <2>6 DEF Audited
<1>2. ASSUME Neighbour PROVE Audited'
  <2>1. UNCHANGED <<tool, score, library>> /\ outcome' = "none"
    BY <1>2 DEF Neighbour, fuzzVars
  <2> QED BY <2>1 DEF Audited, Asked, Blameless, Lenient
<1>3. ASSUME script # <<>>, tool' = tool PROVE Audited'
  <2> SUFFICES ASSUME tool.tool = "audit" PROVE Audited'
    BY <1>3 DEF Audited
  <2> DEFINE n == Len(Full)  k == Position
  <2>1. n \in Nat /\ n >= 7 /\ k \in 1 .. n
    BY <1>3, AuditAt
  <2>2. ASSUME Starting PROVE Audited'
    <3>1. UNCHANGED <<score, library, outcome>> /\ script' = Tail(script)
      BY <2>2 DEF Starting, Boot, LoadPrg, ChangeSpeed, Advance, fuzzVars
    <3>2. Full' = Full /\ Position' = k + 1
      BY <1>3, <3>1, Advanced
    <3>3. k <= n - 6
      BY <1>3, <2>2, AuditAt DEF Starting, Boot, LoadPrg, ChangeSpeed, Now
    <3> DEFINE p == Position'
    <3>4. p < n /\ p # n - 1
      <4>1. p = k + 1
        BY <3>2
      <4> HIDE DEF p, n, k
      <4> QED BY <2>1, <3>3, <4>1
    <3> QED BY <1>3, <3>1, <3>2, <3>4 DEF Audited, Asked, Blameless, Lenient
  <2>3. ASSUME End, UNCHANGED fuzzVars PROVE Audited'
    <3>1. UNCHANGED <<score, library>> /\ outcome' \in {outcome, "ok"}
          /\ (outcome' = "ok" => outcome \in {"running", "ok"})
      BY <2>3 DEF End, fuzzVars
    <3>2. k = n
      BY <1>3, <2>3, AuditAt DEF End, Now
    <3>3. ~(Lenient /\ outcome \in {"running", "ok"})
      <4>1. ~(k < n)
        <5> HIDE DEF n, k
        <5> QED BY <2>1, <3>2
      <4> QED BY <4>1 DEF Audited
    <3> QED BY <1>3, <3>1, <3>3 DEF Audited, Asked, Blameless, Lenient
  <2>4. ASSUME Interrupt \/ Kill PROVE Audited'
    <3>1. UNCHANGED <<score, library>> /\ outcome' \in {"interrupted", "killed"}
      BY <2>4 DEF Interrupt, Kill, Leave, fuzzVars
    <3> QED BY <1>3, <3>1 DEF Audited, Asked, Blameless, Lenient
  <2>5. ASSUME Vector \/ VectorPair PROVE Audited'
    BY <1>3, <2>5, AuditVector
  <2>6. ASSUME NoVectors \/ Summary PROVE Audited'
    BY <1>3, <2>6, AuditRest
  <2> QED BY <1>3, <2>2, <2>3, <2>4, <2>5, <2>6, AuditMoves
<1>4. script # <<>> => (\E c \in Commands : Invoke(c)) \/ Neighbour \/ tool' = tool
  BY Dispatch
<1>5. script = <<>> => (\E c \in Commands : Invoke(c)) \/ Neighbour
  BY Dispatch
<1> QED BY <1>1, <1>2, <1>3, <1>4, <1>5

\* An audit that ends has told the truth of the libraries it can judge: no
\* sound library that it had vectors for has failed, and none that accepts
\* every tag has passed, for all counts of vectors and whatever they happen
\* to hit (audit_cross_check.main).
THEOREM AuditsHonest == Spec => []AuditHonest
<1>1. Init => Audited
  <2>1. Init => tool.tool = "none"
    BY DEF Init
  <2> QED BY <2>1 DEF Audited
<1>2. LabInv /\ LabInv' /\ Audited /\ [Next]_vars => Audited'
  <2> SUFFICES ASSUME LabInv, LabInv', Audited, [Next]_vars PROVE Audited'
    OBVIOUS
  <2>1. CASE Next
    BY <2>1, AuditedStep DEF LabInv
  <2>2. CASE UNCHANGED vars
    <3>1. UNCHANGED <<script, outcome, score, library, tool>>
      BY <2>2 DEF vars, machineVars, fuzzVars
    <3>2. Full' = Full
      BY <3>1 DEF Full
    <3>3. Position' = Position
      BY <3>1, <3>2 DEF Position
    <3> QED BY <3>1, <3>2, <3>3 DEF Audited, Asked, Blameless, Lenient
  <2> QED BY <2>1, <2>2
<1>3. LabInv /\ Audited => AuditHonest
  <2> SUFFICES ASSUME LabInv, Audited, script = <<>>, tool.tool = "audit"
               PROVE  /\ outcome = "audit failed" => ~Blameless
                      /\ outcome = "ok" => ~Lenient
    BY DEF AuditHonest, Ended, Blameless, Lenient
  <2>1. Len(Full) \in Nat /\ Len(script) = 0
    BY FullSeq, EmptySeq DEF LabInv, Desk
  <2>2. ~(Position < Len(Full))
    <3> DEFINE n == Len(Full)  l == Len(script)
    <3>1. Position = n - l + 1 /\ n \in Nat /\ l = 0
      BY <2>1 DEF Position
    <3> HIDE DEF n, l
    <3>2. ~(n - l + 1 < n)
      BY <3>1
    <3> QED BY <3>1, <3>2 DEF n
  <2> QED BY <2>2 DEF Audited
<1> QED BY <1>1, <1>2, <1>3, LabAlways, PTL DEF Spec

-----------------------------------------------------------------------------
(* Proof outlines of the scripts.                                           *)

LEMMA FactsDiffer ==
  /\ Fresh \notin {Booted, Installed, Calibrated, Slow, Tuned, OnVice}
  /\ Booted \notin {Installed, Calibrated, Slow, Tuned, OnVice}
  /\ Installed \notin {Calibrated, Slow, Tuned, OnVice}
  /\ Calibrated \notin {Slow, Tuned, OnVice}
  /\ Slow \notin {Tuned, OnVice} /\ Tuned # OnVice
  /\ \A n : LengthIs(n) \notin Steady
  /\ \A n, m : LengthIs(n) = LengthIs(m) => n = m
<1>1. /\ Fresh[1] = "fresh" /\ Booted[1] = "booted" /\ Installed[1] = "installed"
      /\ Calibrated[1] = "calibrated" /\ Slow[1] = "slow" /\ Tuned[1] = "tuned"
      /\ OnVice[1] = "on vice"
  BY DEF Fresh, Booted, Installed, Calibrated, Slow, Tuned, OnVice
<1>2. \A n : LengthIs(n)[1] = "length" /\ LengthIs(n)[2] = n
  BY DEF LengthIs
<1>3. \A n : LengthIs(n) \notin Steady
  BY <1>1, <1>2 DEF Steady
<1>4. \A n, m : LengthIs(n) = LengthIs(m) => n = m
  BY <1>2
<1>5. /\ Fresh \notin {Booted, Installed, Calibrated, Slow, Tuned, OnVice}
      /\ Booted \notin {Installed, Calibrated, Slow, Tuned, OnVice}
      /\ Installed \notin {Calibrated, Slow, Tuned, OnVice}
      /\ Calibrated \notin {Slow, Tuned, OnVice}
      /\ Slow \notin {Tuned, OnVice} /\ Tuned # OnVice
  BY <1>1
<1> QED BY <1>3, <1>4, <1>5

LEMMA LinkOne ==
  ASSUME NEW tl, NEW x, NEW A, NEW B, x.op \in Named, x.op # "need", Follows(tl, x, A, B)
  PROVE  Links(tl, <<x>>, A, B)
<1> DEFINE s == <<x>>  h == [i \in 0 .. 1 |-> IF i = 0 THEN A ELSE B]
<1>1. IsScript(s, Named)
  BY ScriptOne
<1>2. Len(s) = 1 /\ s[1] = x /\ h[0] = A /\ h[1] = B
  OBVIOUS
<1> HIDE DEF s, h
<1>3. Outline(tl, s, h)
  <2> SUFFICES ASSUME NEW i \in 1 .. Len(s)
               PROVE  Follows(tl, s[i], h[i - 1], h[i]) /\ s[i].op # "need"
    BY DEF Outline
  <2>1. i = 1 /\ i - 1 = 0
    BY <1>2
  <2> QED BY <1>2, <2>1
<1> QED BY <1>1, <1>2, <1>3 DEF Links, s

LEMMA LinkNone ==
  ASSUME NEW tl, NEW A
  PROVE  Links(tl, <<>>, A, A)
<1> DEFINE s == <<>>  h == [i \in 0 .. 0 |-> A]
<1>1. IsScript(s, Named) /\ Len(s) = 0
  <2>1. <<>> \in Seq({})
    BY EmptySeq
  <2> QED BY <2>1, EmptySeq DEF IsScript
<1>2. h[0] = A
  OBVIOUS
<1>3. Outline(tl, s, h)
  BY <1>1 DEF Outline
<1> HIDE DEF s, h
<1> QED BY <1>1, <1>2, <1>3 DEF Links, s

LEMMA LinkWeak ==
  ASSUME NEW tl, NEW s, NEW A, NEW B, NEW C, NEW D, Links(tl, s, A, B),
         A \subseteq C, D \subseteq B
  PROVE  Links(tl, s, C, D)
BY DEF Links

LEMMA LinkJoin ==
  ASSUME NEW tl, NEW s, NEW t, NEW A, NEW B, NEW C, Links(tl, s, A, B), Links(tl, t, B, C)
  PROVE  Links(tl, s \o t, A, C)
<1> DEFINE u == s \o t  n == Len(s)  m == Len(t)
<1>1. PICK f : f[0] \subseteq A /\ B \subseteq f[n] /\ Outline(tl, s, f)
  BY DEF Links
<1>2. PICK g : g[0] \subseteq B /\ C \subseteq g[m] /\ Outline(tl, t, g)
  BY DEF Links
<1>3. IsScript(s, Named) /\ IsScript(t, Named)
  BY DEF Links
<1>4. IsScript(u, Named) /\ Joins(u, s, t)
  BY <1>3, ScriptJoin
<1>5. n \in Nat /\ m \in Nat
  BY <1>3, ScriptAt
<1>6. /\ Len(u) = n + m
      /\ \A i \in 1 .. n : u[i] = s[i]
      /\ \A i \in 1 .. m : u[n + i] = t[i]
  BY <1>4 DEF Joins
<1>7. /\ \A i \in 1 .. n : Follows(tl, s[i], f[i - 1], f[i])
                           /\ (s[i].op = "need" => i + 3 <= n /\ f[i + 2] \subseteq f[i - 1])
      /\ \A i \in 1 .. m : Follows(tl, t[i], g[i - 1], g[i])
                           /\ (t[i].op = "need" => i + 3 <= m /\ g[i + 2] \subseteq g[i - 1])
  BY <1>1, <1>2 DEF Outline
<1> HIDE DEF u, n, m
<1>8. PICK h : Along(h, f, g, n, m)
  BY <1>5, GoAlong
<1>9. \A i \in 0 .. m : h[n + i] = g[i]
  BY <1>8 DEF Along
<1>a. h[n] = g[0]
  <2>1. 0 \in 0 .. m /\ n + 0 = n
    BY <1>5
  <2> QED BY <1>9, <2>1
<1>10. \A i \in 0 .. n : h[i] \subseteq f[i]
  <2> TAKE i \in 0 .. n
  <2>1. i = n \/ i \in 0 .. n - 1
    BY <1>5
  <2> QED BY <1>1, <1>2, <1>8, <1>a, <2>1 DEF Along
<1>11. h[0] \subseteq A /\ C \subseteq h[n + m]
  <2>1. 0 \in 0 .. n /\ m \in 0 .. m
    BY <1>5
  <2> QED BY <1>1, <1>2, <1>9, <1>10, <2>1
<1>12. ASSUME NEW i \in 1 .. n + m
       PROVE  /\ Follows(tl, u[i], h[i - 1], h[i])
              /\ u[i].op = "need" => i + 3 <= n + m /\ h[i + 2] \subseteq h[i - 1]
  <2>1. CASE i \in 1 .. n
    <3>1. i - 1 \in 0 .. n - 1 /\ i \in 0 .. n
      BY <1>5, <2>1
    <3>2. h[i - 1] = f[i - 1] /\ h[i] \subseteq f[i] /\ u[i] = s[i]
      BY <1>6, <1>8, <1>10, <2>1, <3>1 DEF Along
    <3>3. Follows(tl, u[i], h[i - 1], h[i])
      BY <1>7, <2>1, <3>2 DEF Follows
    <3>4. ASSUME u[i].op = "need" PROVE i + 3 <= n + m /\ h[i + 2] \subseteq h[i - 1]
      <4>1. i + 3 <= n /\ f[i + 2] \subseteq f[i - 1]
        BY <1>7, <2>1, <3>2, <3>4
      <4>2. i + 2 \in 0 .. n /\ i + 3 <= n + m
        BY <1>5, <2>1, <4>1
      <4> QED BY <1>10, <3>2, <4>1, <4>2
    <3> QED BY <3>3, <3>4
  <2>2. CASE i \notin 1 .. n
    <3> DEFINE j == i - n
    <3>1. j \in 1 .. m /\ i = n + j /\ i - 1 = n + (j - 1) /\ i + 2 = n + (j + 2)
          /\ j - 1 \in 0 .. m /\ j \in 0 .. m
      BY <1>5, <2>2
    <3> HIDE DEF j
    <3>2. h[i - 1] = g[j - 1] /\ h[i] = g[j] /\ u[i] = t[j]
      BY <1>6, <1>9, <3>1
    <3>3. Follows(tl, u[i], h[i - 1], h[i])
      BY <1>7, <3>1, <3>2
    <3>4. ASSUME u[i].op = "need" PROVE i + 3 <= n + m /\ h[i + 2] \subseteq h[i - 1]
      <4>1. j + 3 <= m /\ g[j + 2] \subseteq g[j - 1]
        BY <1>7, <3>1, <3>2, <3>4
      <4>2. j + 2 \in 0 .. m /\ i + 3 <= n + m
        BY <1>5, <3>1, <4>1
      <4>3. h[i + 2] = g[j + 2]
        BY <1>9, <3>1, <4>2
      <4> QED BY <3>2, <4>1, <4>2, <4>3
    <3> QED BY <3>3, <3>4
  <2> QED BY <2>1, <2>2
<1>13. Outline(tl, u, h)
  BY <1>6, <1>12 DEF Outline
<1> QED BY <1>4, <1>6, <1>11, <1>13 DEF Links, u

LEMMA LinksJoin ==
  ASSUME NEW tl
  PROVE  \A s, t, A, B, C : Links(tl, s, A, B) /\ Links(tl, t, B, C) => Links(tl, s \o t, A, C)
BY LinkJoin

LEMMA LinkFlat ==
  ASSUME NEW tl, NEW A, NEW n \in Nat, NEW g, g = [i \in 1 .. n |-> g[i]],
         \A i \in 1 .. n : Links(tl, g[i], A, A)
  PROVE  Links(tl, FlattenSeq(g), A, A)
<1>1. CASE n = 0
  <2>1. FlattenSeq(g) = <<>>
    BY <1>1, FlatNone
  <2> QED BY <2>1, LinkNone
<1>2. CASE n > 0
  <2>0. \A i \in 1 .. n : \E V : g[i] \in Seq(V)
    BY DEF Links, IsScript
  <2>1. PICK S : Over(S, g, n)
    BY <2>0, OneSet
  <2> DEFINE T == {s \in Seq(S) : Links(tl, s, A, A)}
  <2>2. \A i \in 1 .. n : g[i] \in T
    BY <2>1 DEF Over
  <2>3. \A s \in T, i \in 1 .. n : s \o g[i] \in T
    BY <2>1, LinkJoin DEF Over
  <2>4. FlattenSeq(g) \in T
    <3> HIDE DEF T
    <3> QED BY <1>2, <2>2, <2>3, FlatIn
  <2> QED BY <2>4
<1> QED BY <1>1, <1>2

(* The outline of each tool's script.                                       *)

LEMMA IdleFollows ==
  ASSUME NEW tl, NEW x, x.op \in Idle, NEW p
  PROVE  x.op \in Named /\ x.op # "need" /\ Leaves(x, p) = p /\ Follows(tl, x, p, p)
<1>1. x.op \notin {"boot", "load", "speed", "install", "calibrate", "setup", "run", "measure",
                   "turbo", "finally"}
  BY DEF Idle
<1>2. Needs(tl, x, p) /\ Leaves(x, p) = p
  BY <1>1 DEF Needs, Leaves
<1>3. x.op \in Named /\ x.op # "need"
  BY DEF Idle, Named, Measuring, Comparing, Timing
<1> QED BY <1>2, <1>3 DEF Follows

LEMMA LinkIdle ==
  ASSUME NEW tl, NEW x, x.op \in Idle, NEW A
  PROVE  Links(tl, <<x>>, A, A)
BY IdleFollows, LinkOne

LEMMA LinkDo ==
  ASSUME NEW tl, NEW name \in Idle, NEW A
  PROVE  Links(tl, Do(name), A, A)
<1> DEFINE x == [op |-> name]
<1>1. x.op \in Idle /\ Do(name) = <<x>>
  BY DEF Do
<1> HIDE DEF x
<1> QED BY <1>1, LinkIdle

LEMMA LinkBoot ==
  ASSUME NEW tl
  PROVE  Links(tl, Do("boot"), {Fresh, Slow, OnVice}, {Fresh, Slow, Booted})
<1> DEFINE x == [op |-> "boot"]  A == {Fresh, Slow, OnVice}  B == {Fresh, Slow, Booted}
<1>1. x.op = "boot" /\ Do("boot") = <<x>>
  BY DEF Do
<1> HIDE DEF x
<1>2. Needs(tl, x, A) /\ Leaves(x, A) = (A \cap {Fresh, Slow, OnVice}) \cup {Booted}
  BY <1>1 DEF Needs, Leaves
<1>3. Follows(tl, x, A, B)
  BY <1>2 DEF Follows
<1>4. x.op \in Named /\ x.op # "need"
  BY <1>1 DEF Named, Measuring
<1> QED BY <1>1, <1>3, <1>4, LinkOne

LEMMA LinkLoad ==
  ASSUME NEW tl, NEW A
  PROVE  Links(tl, Do("load"), A, A \cup {Booted})
<1> DEFINE x == [op |-> "load"]
<1>1. x.op = "load" /\ Do("load") = <<x>>
  BY DEF Do
<1> HIDE DEF x
<1>2. Needs(tl, x, A) /\ Leaves(x, A) = A \cup {Booted}
  BY <1>1 DEF Needs, Leaves
<1>3. x.op \in Named /\ x.op # "need"
  BY <1>1 DEF Named, Measuring
<1> QED BY <1>1, <1>2, <1>3, LinkOne DEF Follows

LEMMA LinkInstall ==
  ASSUME NEW tl, NEW A
  PROVE  Links(tl, Do("install"), A, A \cup {Installed})
<1> DEFINE x == [op |-> "install"]
<1>1. x.op = "install" /\ Do("install") = <<x>>
  BY DEF Do
<1> HIDE DEF x
<1>2. Needs(tl, x, A) /\ Leaves(x, A) = A \cup {Installed}
  BY <1>1 DEF Needs, Leaves
<1>3. x.op \in Named /\ x.op # "need"
  BY <1>1 DEF Named, Measuring
<1> QED BY <1>1, <1>2, <1>3, LinkOne DEF Follows

LEMMA LinkSpeed ==
  ASSUME NEW tl, NEW A, Calibrated \notin A
  PROVE  Links(tl, SetSpeed(1), A, A \cup {Slow})
<1> DEFINE x == [op |-> "speed", mhz |-> 1]
<1>1. x.op = "speed" /\ x.mhz = 1 /\ SetSpeed(1) = <<x>>
  BY DEF SetSpeed
<1> HIDE DEF x
<1>2. Needs(tl, x, A) /\ Leaves(x, A) = (A \ {Calibrated}) \cup {Slow}
  BY <1>1 DEF Needs, Leaves
<1>3. x.op \in Named /\ x.op # "need"
  BY <1>1 DEF Named, Measuring
<1>4. Follows(tl, x, A, A \cup {Slow})
  BY <1>2 DEF Follows
<1> QED BY <1>1, <1>3, <1>4, LinkOne

LEMMA LinkCalibrate ==
  ASSUME NEW tl, NEW n, NEW A, Installed \in A, Slow \in A \/ Tuned \in A
  PROVE  Links(tl, Calibrate(n), A, A \cup {Calibrated})
<1> DEFINE x == [op |-> "calibrate", samples |-> n]
<1>1. x.op = "calibrate" /\ Calibrate(n) = <<x>>
  BY DEF Calibrate
<1> HIDE DEF x
<1>2. Needs(tl, x, A) /\ Leaves(x, A) = A \cup {Calibrated}
  BY <1>1 DEF Needs, Leaves
<1>3. x.op \in Named /\ x.op # "need"
  BY <1>1 DEF Named, Measuring
<1> QED BY <1>1, <1>2, <1>3, LinkOne DEF Follows

LEMMA LinkRun ==
  ASSUME NEW tl, NEW r, NEW A, A \subseteq Steady
  PROVE  Links(tl, Run(r), A, A)
<1> DEFINE x == [op |-> "run", routine |-> r]
<1>1. x.op = "run" /\ Run(r) = <<x>>
  BY DEF Run
<1> HIDE DEF x
<1>2. Needs(tl, x, A) /\ Leaves(x, A) = A \cap Steady
  BY <1>1 DEF Needs, Leaves
<1>3. x.op \in Named /\ x.op # "need"
  BY <1>1 DEF Named, Timing
<1> QED BY <1>1, <1>2, <1>3, LinkOne DEF Follows

LEMMA SetupFollows ==
  ASSUME NEW tl, NEW r, NEW n, NEW A, A \subseteq Steady
  PROVE  LET x == [op |-> "setup", routine |-> r, n |-> n]
         IN  /\ x.op \in Named /\ x.op # "need" /\ Setup(r, n) = <<x>>
             /\ Follows(tl, x, A, IF r = "aead_encrypt" THEN A \cup {LengthIs(n)} ELSE A)
<1> DEFINE x == [op |-> "setup", routine |-> r, n |-> n]
<1>1. x.op = "setup" /\ x.routine = r /\ x.n = n /\ Setup(r, n) = <<x>>
  BY DEF Setup
<1> HIDE DEF x
<1>2. /\ Needs(tl, x, A)
      /\ Leaves(x, A) = (A \cap Steady)
                        \cup (IF x.routine = "aead_encrypt" THEN {LengthIs(x.n)} ELSE {})
  BY <1>1 DEF Needs, Leaves
<1>3. x.op \in Named /\ x.op # "need"
  BY <1>1 DEF Named, Timing, Comparing, Rowing
<1>4. Follows(tl, x, A, IF r = "aead_encrypt" THEN A \cup {LengthIs(n)} ELSE A)
  BY <1>1, <1>2 DEF Follows
<1> QED BY <1>1, <1>3, <1>4 DEF x

LEMMA MeasureFollows ==
  ASSUME NEW tl, NEW r \in Routines, NEW n \in Lengths, NEW samples \in Nat \ {0},
         NEW again \in BOOLEAN, NEW loops, NEW operand \in Operands, NEW A,
         loops = 1 \/ (loops = LoopCount /\ Slow \in A),
         again \/ r \notin Lengthy \/ (r = "aead_encrypt" /\ LengthIs(n) \in A),
         {Fresh, Booted, Installed, Calibrated} \subseteq A, tl # "turbo" => Slow \in A
  PROVE  LET x == [op |-> "measure", routine |-> r, n |-> n, samples |-> samples,
                   again |-> again, loops |-> loops, operand |-> operand]
         IN  /\ x.op \in Named /\ x.op # "need"
             /\ Measure(r, n, samples, again, loops, operand) = <<x>>
             /\ Follows(tl, x, A, IF again THEN A \cap Steady ELSE A)
<1> DEFINE x == [op |-> "measure", routine |-> r, n |-> n, samples |-> samples,
                 again |-> again, loops |-> loops, operand |-> operand]
<1>1. /\ x.op = "measure" /\ x.routine = r /\ x.n = n /\ x.samples = samples /\ x.again = again
      /\ x.loops = loops /\ x.operand = operand
      /\ Measure(r, n, samples, again, loops, operand) = <<x>>
  BY DEF Measure
<1> HIDE DEF x
<1>2. Measurable(x, A)
  BY <1>1 DEF Measurable
<1>3. Needs(tl, x, A) /\ Leaves(x, A) = IF x.again THEN A \cap Steady ELSE A
  BY <1>1, <1>2 DEF Needs, Leaves
<1>4. x.op \in Named /\ x.op # "need"
  BY <1>1 DEF Named, Timing
<1> QED BY <1>1, <1>3, <1>4 DEF Follows, x

LEMMA RoutinesAre ==
  /\ {"chacha20_block", "poly1305_block", "aead_encrypt", "aead_decrypt"} \subseteq Routines
  /\ {0, 2} \subseteq Lengths /\ "usual" \in Operands
  /\ Len(Sizes) \in Nat /\ DOMAIN Sizes = 1 .. Len(Sizes)
  /\ \A i \in 1 .. Len(Sizes) : Sizes[i] \in Lengths
  /\ Len(CtRoutines) \in Nat /\ DOMAIN CtRoutines = 1 .. Len(CtRoutines)
  /\ \A i \in 1 .. Len(CtRoutines) : CtRoutines[i] \in Routines
  /\ Len(Classes) \in Nat /\ DOMAIN Classes = 1 .. Len(Classes)
  /\ \A i \in 1 .. Len(Classes) : Classes[i] \in Operands
  /\ Len(BenchTargets) = 14 /\ DOMAIN BenchTargets = 1 .. 14
  /\ \A i \in 1 .. 14 : BenchTargets[i].name \in Routines /\ BenchTargets[i].n \in Lengths
<1>1. Len(BenchTargets) = 14 /\ DOMAIN BenchTargets = 1 .. 14
  BY DEF BenchTargets
<1>2. \A i \in 1 .. 14 : BenchTargets[i] \in ToSet(BenchTargets)
  BY <1>1 DEF ToSet
<1>3. \A i \in 1 .. 14 : BenchTargets[i].name \in Routines /\ BenchTargets[i].n \in Lengths
  BY <1>2 DEF Routines, Lengths
<1>4. /\ BenchTargets[2].name = "chacha20_block" /\ BenchTargets[7].name = "poly1305_block"
      /\ BenchTargets[14].name = "aead_encrypt" /\ BenchTargets[2].n = 0
      /\ BenchTargets[14].n = 2
  BY DEF BenchTargets, Target
<1>5. /\ {"chacha20_block", "poly1305_block", "aead_encrypt", "aead_decrypt"} \subseteq Routines
      /\ {0, 2} \subseteq Lengths
  <2>1. "aead_decrypt" \in Routines
    BY DEF Routines
  <2>2. 2 \in 1 .. 14 /\ 7 \in 1 .. 14 /\ 14 \in 1 .. 14
    OBVIOUS
  <2> HIDE DEF BenchTargets
  <2> QED BY <1>3, <1>4, <2>1, <2>2
<1>6. "usual" \in Operands
  BY DEF Operands
<1>7. /\ Len(Sizes) \in Nat /\ DOMAIN Sizes = 1 .. Len(Sizes)
      /\ Len(Classes) \in Nat /\ DOMAIN Classes = 1 .. Len(Classes)
  BY SizesAssumption, LenProperties
<1>8. Len(CtRoutines) \in Nat /\ DOMAIN CtRoutines = 1 .. Len(CtRoutines)
  BY DEF CtRoutines
<1>9. /\ \A i \in 1 .. Len(Sizes) : Sizes[i] \in Lengths
      /\ \A i \in 1 .. Len(Classes) : Classes[i] \in Operands
  BY <1>7 DEF Lengths, Operands, ToSet
<1>10. \A i \in 1 .. Len(CtRoutines) : CtRoutines[i] \in Routines
  <2>1. \A i \in DOMAIN CtRoutines : CtRoutines[i] \in ToSet(CtRoutines)
    BY DEF ToSet
  <2> QED BY <1>8, <2>1 DEF Routines
<1> QED BY <1>1, <1>3, <1>5, <1>6, <1>7, <1>8, <1>9, <1>10

LEMMA LinkSetup ==
  ASSUME NEW tl, NEW r, NEW n, NEW A, A \subseteq Steady
  PROVE  Links(tl, Setup(r, n), A, IF r = "aead_encrypt" THEN A \cup {LengthIs(n)} ELSE A)
<1> DEFINE x == [op |-> "setup", routine |-> r, n |-> n]
           B == IF r = "aead_encrypt" THEN A \cup {LengthIs(n)} ELSE A
<1>1. x.op \in Named /\ x.op # "need" /\ Setup(r, n) = <<x>> /\ Follows(tl, x, A, B)
  BY SetupFollows
<1> HIDE DEF x, B
<1>2. Links(tl, <<x>>, A, B)
  BY <1>1, LinkOne
<1> QED BY <1>1, <1>2 DEF B

LEMMA LinkMeasure ==
  ASSUME NEW tl, NEW r \in Routines, NEW n \in Lengths, NEW samples \in Nat \ {0},
         NEW again \in BOOLEAN, NEW loops, NEW operand \in Operands, NEW A,
         loops = 1 \/ (loops = LoopCount /\ Slow \in A),
         again \/ r \notin Lengthy \/ (r = "aead_encrypt" /\ LengthIs(n) \in A),
         {Fresh, Booted, Installed, Calibrated} \subseteq A, tl # "turbo" => Slow \in A
  PROVE  Links(tl, Measure(r, n, samples, again, loops, operand), A,
               IF again THEN A \cap Steady ELSE A)
<1> DEFINE x == [op |-> "measure", routine |-> r, n |-> n, samples |-> samples,
                 again |-> again, loops |-> loops, operand |-> operand]
           B == IF again THEN A \cap Steady ELSE A
<1>1. /\ x.op \in Named /\ x.op # "need"
      /\ Measure(r, n, samples, again, loops, operand) = <<x>> /\ Follows(tl, x, A, B)
  BY MeasureFollows
<1> HIDE DEF x, B
<1>2. Links(tl, <<x>>, A, B)
  BY <1>1, LinkOne
<1> QED BY <1>1, <1>2 DEF B

\* A row: setup and samples.
LEMMA LinkRow ==
  ASSUME NEW tl, NEW r \in Routines, NEW n \in Lengths, NEW samples \in Nat \ {0},
         NEW again \in BOOLEAN, NEW loops \in {1, LoopCount},
         again \/ r \notin Lengthy \/ r = "aead_encrypt"
  PROVE  Links(tl, Setup(r, n) \o Measure(r, n, samples, again, loops, "usual"),
               Resident, Resident)
<1> DEFINE A == IF r = "aead_encrypt" THEN Resident \cup {LengthIs(n)} ELSE Resident
           B == IF again THEN A \cap Steady ELSE A
           s == Setup(r, n)  m == Measure(r, n, samples, again, loops, "usual")
<1>1. Resident \subseteq Steady /\ {Fresh, Booted, Installed, Calibrated, Slow} \subseteq Resident
  BY DEF Resident, Steady
<1>2. Resident \subseteq A /\ (r = "aead_encrypt" => LengthIs(n) \in A)
  OBVIOUS
<1>3. Links(tl, s, Resident, A)
  BY <1>1, LinkSetup
<1> HIDE DEF A
<1>4. Links(tl, m, A, B)
  <2>1. "usual" \in Operands
    BY RoutinesAre
  <2> QED BY <1>1, <1>2, <2>1, LinkMeasure
<1>5. Resident \subseteq B
  BY <1>1, <1>2
<1> HIDE DEF B, s, m
<1>6. Links(tl, s \o m, Resident, B)
  BY <1>3, <1>4, LinkJoin
<1>7. Links(tl, s \o m, Resident, Resident)
  BY <1>5, <1>6, LinkWeak
<1> QED BY <1>7 DEF s, m

LEMMA LinkRows ==
  ASSUME NEW tl, NEW r \in Routines, NEW samples \in Nat \ {0}, NEW again \in BOOLEAN,
         again \/ r \notin Lengthy \/ r = "aead_encrypt"
  PROVE  Links(tl, Rows(r, samples, again), Resident, Resident)
<1> DEFINE piece(i) == Setup(r, Sizes[i]) \o Measure(r, Sizes[i], samples, again, 1, "usual")
           n == Len(Sizes)  g == [i \in 1 .. n |-> piece(i)]
<1>1. n \in Nat /\ DOMAIN Sizes = 1 .. n /\ \A i \in 1 .. n : Sizes[i] \in Lengths
  BY RoutinesAre
<1>2. Rows(r, samples, again) = FlattenSeq(g)
  BY <1>1 DEF Rows, Cat
<1>3. \A i \in 1 .. n : Links(tl, piece(i), Resident, Resident)
  <2> TAKE i \in 1 .. n
  <2>1. Sizes[i] \in Lengths /\ 1 \in {1, LoopCount}
    BY <1>1
  <2> QED BY <2>1, LinkRow
<1> HIDE DEF piece, n
<1>4. g = [i \in 1 .. n |-> g[i]] /\ \A i \in 1 .. n : Links(tl, g[i], Resident, Resident)
  BY <1>3
<1> HIDE DEF g
<1> QED BY <1>1, <1>2, <1>4, LinkFlat

LEMMA LinkBlockRows ==
  ASSUME NEW tl, NEW samples \in Nat \ {0}
  PROVE  Links(tl, BlockRows(samples), Resident, Resident)
<1> DEFINE a == Setup("chacha20_block", 0)
           b == Measure("chacha20_block", 0, samples, FALSE, 1, "usual")
           c == Setup("poly1305_block", 0)
           d == Measure("poly1305_block", 0, samples, FALSE, 1, "usual")
           R == Resident
<1>1. "chacha20_block" \in Routines /\ "poly1305_block" \in Routines /\ 0 \in Lengths
      /\ "chacha20_block" \notin Lengthy /\ "poly1305_block" \notin Lengthy
      /\ FALSE \in BOOLEAN /\ 1 \in {1, LoopCount}
  BY RoutinesAre DEF Lengthy
<1>2. Links(tl, a \o b, R, R) /\ Links(tl, c \o d, R, R)
  BY <1>1, LinkRow
<1>3. IsScript(a, Named) /\ IsScript(b, Named) /\ IsScript(c, Named) /\ IsScript(d, Named)
  <2>1. "setup" \in Named /\ "measure" \in Named
    BY DEF Named, Measuring, Rowing
  <2> QED BY <2>1, Pieces
<1>4. BlockRows(samples) = a \o b \o c \o d
  BY DEF BlockRows
<1> HIDE DEF a, b, c, d, R
<1>5. a \o b \o c \o d = (a \o b) \o (c \o d)
  <2> DEFINE S == a \o b
  <2>1. PICK X : c \in Seq(X)
    BY <1>3 DEF IsScript
  <2>2. PICK Y : d \in Seq(Y)
    BY <1>3 DEF IsScript
  <2>3. PICK Z : S \in Seq(Z)
    BY <1>2 DEF Links, IsScript
  <2> DEFINE U == X \cup Y \cup Z
  <2>4. c \in Seq(U) /\ d \in Seq(U) /\ S \in Seq(U)
    BY <2>1, <2>2, <2>3, SeqMonotonic
  <2> HIDE DEF S, U
  <2>5. (S \o c) \o d = S \o (c \o d)
    BY <2>4, ConcatAssociative
  <2> QED BY <2>5 DEF S
<1>6. Links(tl, (a \o b) \o (c \o d), R, R)
  BY <1>2, LinkJoin
<1> QED BY <1>4, <1>5, <1>6 DEF R

LEMMA LinkPrologues ==
  ASSUME NEW tl
  PROVE  /\ Links(tl, VicePrologue, {Fresh, Slow, OnVice}, Resident)
         /\ Links(tl, U64Prologue, {Fresh}, Resident)
<1> DEFINE A == {Fresh, Slow, Booted}  B == A \cup {Installed}  C == B \cup {Calibrated}
           E == {Fresh} \cup {Slow}  F == E \cup {Booted}  G == F \cup {Installed}
           H == G \cup {Calibrated}
           a == Do("boot")  b == Do("install")  c == Calibrate(10)  d == Do("verify")
           e == SetSpeed(1)  f == Do("load")  g == Calibrate(20)
<1>1. C = Resident /\ H = Resident
  BY DEF Resident
<1>2. Links(tl, a, {Fresh, Slow, OnVice}, A) /\ Links(tl, b, A, B)
  BY LinkBoot, LinkInstall
<1>3. Links(tl, c, B, C)
  <2>1. Installed \in B /\ Slow \in B
    OBVIOUS
  <2> HIDE DEF B
  <2> QED BY <2>1, LinkCalibrate
<1>4. Links(tl, d, C, C) /\ Links(tl, d, H, H)
  <2>1. "verify" \in Idle
    BY DEF Idle
  <2> QED BY <2>1, LinkDo
<1>5. Links(tl, e, {Fresh}, E)
  <2>1. Calibrated \notin {Fresh}
    BY FactsDiffer
  <2> QED BY <2>1, LinkSpeed
<1>6. Links(tl, f, E, F) /\ Links(tl, b, F, G)
  BY LinkLoad, LinkInstall
<1>7. Links(tl, g, G, H)
  <2>1. Installed \in G /\ Slow \in G
    OBVIOUS
  <2> HIDE DEF G
  <2> QED BY <2>1, LinkCalibrate
<1> HIDE DEF A, B, C, E, F, G, H
<1>8. VicePrologue = a \o b \o c \o d /\ U64Prologue = e \o f \o b \o g \o d
  BY DEF VicePrologue, U64Prologue
<1> HIDE DEF a, b, c, d, e, f, g
<1>11. Links(tl, a \o b \o c \o d, {Fresh, Slow, OnVice}, C)
  BY <1>2, <1>3, <1>4, LinksJoin
<1>15. Links(tl, e \o f \o b \o g \o d, {Fresh}, H)
  BY <1>4, <1>5, <1>6, <1>7, LinksJoin
<1> QED BY <1>1, <1>8, <1>11, <1>15

LEMMA TargetsAre ==
  \A i \in 1 .. 14 :
    /\ BenchTargets[i].again \in BOOLEAN
    /\ \/ BenchTargets[i].again \/ BenchTargets[i].name \notin Lengthy
       \/ BenchTargets[i].name = "aead_encrypt"
<1> DEFINE good(t) == /\ t.again \in BOOLEAN
                      /\ t.again \/ t.name \notin Lengthy \/ t.name = "aead_encrypt"
<1>1. ASSUME NEW name, NEW n, NEW again \in BOOLEAN, NEW o,
             again \/ name \notin Lengthy \/ name = "aead_encrypt"
      PROVE  good(Target(name, n, again, o))
  BY <1>1 DEF Target
<1> HIDE DEF good
<1>2. \A o : /\ good(Target("chacha20_quarter_round", 0, FALSE, o))
             /\ good(Target("chacha20_block", 0, FALSE, o))
             /\ good(Target("chacha20_encrypt", 1, TRUE, o))
             /\ good(Target("chacha20_encrypt", 2, TRUE, o))
             /\ good(Target("poly1305_multiply", 0, FALSE, o))
             /\ good(Target("poly1305_reduce", 0, TRUE, o))
             /\ good(Target("poly1305_block", 0, FALSE, o))
             /\ good(Target("aead_compute_tag", 2, TRUE, o))
             /\ good(Target("aead_verify_tag", 0, FALSE, o))
             /\ good(Target("sqtab_init", 0, FALSE, o))
             /\ good(Target("ct_mul_8x8", 0, FALSE, o))
             /\ good(Target("aead_encrypt", 0, FALSE, o))
             /\ good(Target("aead_encrypt", 1, FALSE, o))
             /\ good(Target("aead_encrypt", 2, FALSE, o))
  <2>1. /\ "chacha20_quarter_round" \notin Lengthy /\ "chacha20_block" \notin Lengthy
        /\ "poly1305_multiply" \notin Lengthy /\ "poly1305_block" \notin Lengthy
        /\ "aead_verify_tag" \notin Lengthy /\ "sqtab_init" \notin Lengthy
        /\ "ct_mul_8x8" \notin Lengthy
    BY DEF Lengthy
  <2> QED BY <1>1, <2>1
<1>3. \A i \in 1 .. 14 : i = 1 \/ i = 2 \/ i = 3 \/ i = 4 \/ i = 5 \/ i = 6 \/ i = 7 \/ i = 8
                         \/ i = 9 \/ i = 10 \/ i = 11 \/ i = 12 \/ i = 13 \/ i = 14
  OBVIOUS
<1>4. /\ good(BenchTargets[1]) /\ good(BenchTargets[2]) /\ good(BenchTargets[3])
      /\ good(BenchTargets[4]) /\ good(BenchTargets[5]) /\ good(BenchTargets[6])
      /\ good(BenchTargets[7]) /\ good(BenchTargets[8]) /\ good(BenchTargets[9])
      /\ good(BenchTargets[10]) /\ good(BenchTargets[11]) /\ good(BenchTargets[12])
      /\ good(BenchTargets[13]) /\ good(BenchTargets[14])
  BY <1>2 DEF BenchTargets
<1>5. \A i \in 1 .. 14 : good(BenchTargets[i])
  <2> HIDE DEF BenchTargets
  <2> QED BY <1>3, <1>4
<1> QED BY <1>5 DEF good

\* A row that is measured and compared, unless its routine is missing.
LEMMA LinkCompared ==
  ASSUME NEW tl, tl # "turbo", NEW r \in Routines, NEW n \in Lengths, NEW count \in Nat \ {0},
         NEW again \in BOOLEAN, NEW loops \in {1, LoopCount},
         again \/ r \notin Lengthy \/ r = "aead_encrypt"
  PROVE  Links(tl, <<[op |-> "need", routine |-> r, n |-> n]>> \o Setup(r, n)
                   \o Measure(r, n, count, again, loops, "usual") \o <<[op |-> "compare"]>>,
               Resident, Resident)
<1> DEFINE A == IF r = "aead_encrypt" THEN Resident \cup {LengthIs(n)} ELSE Resident
           B == IF again THEN A \cap Steady ELSE A
           x0 == [op |-> "need", routine |-> r, n |-> n]
           x1 == [op |-> "setup", routine |-> r, n |-> n]
           x2 == [op |-> "measure", routine |-> r, n |-> n, samples |-> count,
                  again |-> again, loops |-> loops, operand |-> "usual"]
           x3 == [op |-> "compare"]
           s1 == <<x0>>  s2 == s1 \o <<x1>>  s3 == s2 \o <<x2>>  s4 == s3 \o <<x3>>
           h == [i \in 0 .. 4 |-> IF i = 2 THEN A ELSE Resident]
<1>1. Resident \subseteq Steady /\ {Fresh, Booted, Installed, Calibrated, Slow} \subseteq Resident
      /\ Resident \subseteq A /\ (r = "aead_encrypt" => LengthIs(n) \in A)
  BY DEF Resident, Steady
<1>2. x0.op = "need" /\ x0.op \in Named /\ Follows(tl, x0, Resident, Resident)
  BY DEF Named, Comparing, Follows, Needs, Leaves
<1>3. x1.op \in Named /\ x1.op # "need" /\ Follows(tl, x1, Resident, A) /\ Setup(r, n) = <<x1>>
  BY <1>1, SetupFollows
<1>4. x3.op \in Named /\ x3.op # "need" /\ Follows(tl, x3, Resident, Resident)
  <2>1. x3.op \in Idle
    BY DEF Idle
  <2> HIDE DEF x3
  <2> QED BY <2>1, IdleFollows
<1>5. Resident \subseteq B
  BY <1>1
<1>6. x2.op \in Named /\ x2.op # "need" /\ Follows(tl, x2, A, B)
      /\ Measure(r, n, count, again, loops, "usual") = <<x2>>
  <2>1. "usual" \in Operands /\ Slow \in A /\ {Fresh, Booted, Installed, Calibrated} \subseteq A
    BY <1>1, RoutinesAre
  <2>2. /\ loops = 1 \/ (loops = LoopCount /\ Slow \in A)
        /\ again \/ r \notin Lengthy \/ (r = "aead_encrypt" /\ LengthIs(n) \in A)
        /\ (tl # "turbo" => Slow \in A)
    BY <1>1, <2>1
  <2> HIDE DEF A
  <2> QED BY <2>1, <2>2, MeasureFollows
<1> HIDE DEF x0, x1, x2, x3, B
<1>c. Follows(tl, x2, A, Resident)
  <2> HIDE DEF A, Resident
  <2> QED BY <1>5, <1>6 DEF Follows
<1> HIDE DEF A
<1>12. IsScript(s1, Named) /\ Len(s1) = 1 /\ s1[1] = x0
  BY <1>2, ScriptOne
<1> HIDE DEF s1
<1>13. IsScript(s2, Named) /\ Extends(s2, s1, x1)
  BY <1>3, <1>12, ScriptLast
<1> HIDE DEF s2
<1>14. IsScript(s3, Named) /\ Extends(s3, s2, x2)
  BY <1>6, <1>13, ScriptLast
<1> HIDE DEF s3
<1>15. IsScript(s4, Named) /\ Extends(s4, s3, x3)
  BY <1>4, <1>14, ScriptLast
<1>b. s4 = <<x0>> \o Setup(r, n)
           \o Measure(r, n, count, again, loops, "usual") \o <<x3>>
  BY <1>3, <1>6 DEF s1, s2, s3
<1> HIDE DEF s4
<1>16. Len(s2) = 2 /\ s2[1] = x0 /\ s2[2] = x1
  BY <1>12, <1>13 DEF Extends
<1>17. Len(s3) = 3 /\ s3[1] = x0 /\ s3[2] = x1 /\ s3[3] = x2
  BY <1>14, <1>16 DEF Extends
<1>18. Len(s4) = 4 /\ s4[1] = x0 /\ s4[2] = x1 /\ s4[3] = x2 /\ s4[4] = x3
  BY <1>15, <1>17 DEF Extends
<1>19. h[0] = Resident /\ h[1] = Resident /\ h[2] = A /\ h[3] = Resident /\ h[4] = Resident
  OBVIOUS
<1> HIDE DEF h
<1>20. Outline(tl, s4, h)
  <2> SUFFICES ASSUME NEW i \in 1 .. 4
               PROVE  /\ Follows(tl, s4[i], h[i - 1], h[i])
                      /\ s4[i].op = "need" => i + 3 <= 4 /\ h[i + 2] \subseteq h[i - 1]
    BY <1>18 DEF Outline
  <2>1. i = 1 \/ i = 2 \/ i = 3 \/ i = 4
    OBVIOUS
  <2> HIDE DEF Resident
  <2>2. CASE i = 1
    BY <1>2, <1>18, <1>19, <2>2
  <2>3. CASE i = 2
    BY <1>3, <1>18, <1>19, <2>3
  <2>4. CASE i = 3
    BY <1>6, <1>c, <1>18, <1>19, <2>4
  <2>5. CASE i = 4
    BY <1>4, <1>18, <1>19, <2>5
  <2> QED BY <2>1, <2>2, <2>3, <2>4, <2>5
<1>21. Links(tl, s4, Resident, Resident)
  <2> HIDE DEF Resident
  <2> QED BY <1>15, <1>18, <1>19, <1>20 DEF Links
<1> QED BY <1>b, <1>21 DEF x0, x3

LEMMA LinkGranular ==
  ASSUME NEW tl, tl # "turbo", NEW t, t.name \in Routines, t.n \in Lengths, t.again \in BOOLEAN,
         t.again \/ t.name \notin Lengthy \/ t.name = "aead_encrypt",
         NEW profile, NEW samples \in Nat \ {0}
  PROVE  Links(tl, GranularRow(t, profile, samples), Resident, Resident)
<1> DEFINE y == [op |-> "skip", routine |-> t.name, n |-> t.n]
<1>5. Links(tl, <<y>>, Resident, Resident)
  <2>1. y.op \in Idle
    BY DEF Idle
  <2> HIDE DEF y
  <2> QED BY <2>1, LinkIdle
<1> DEFINE one == IF "single_shot" \in t.options THEN 1 ELSE samples
           factor == IF "small_routine" \in t.options THEN SmallFactor ELSE 1
           loops == IF "loop_count" \in t.options THEN LoopCount ELSE 1
           count == one * factor
<1>7. count \in Nat \ {0} /\ loops \in {1, LoopCount}
  <2>1. one \in Nat \ {0} /\ factor \in {1, 2}
    BY DEF SmallFactor
  <2>2. loops \in {1, LoopCount}
    OBVIOUS
  <2>3. one * 1 = one /\ one * 2 = one + one
    <3> HIDE DEF one
    <3> QED BY <2>1
  <2> HIDE DEF one, factor, loops
  <2>4. one * factor \in Nat \ {0}
    BY <2>1, <2>3
  <2> QED BY <2>2, <2>4
<1>8. CASE "profile_b_only" \in t.options /\ profile # "B"
  BY <1>5, <1>8 DEF GranularRow
<1>9. CASE ~("profile_b_only" \in t.options /\ profile # "B")
  <2>1. GranularRow(t, profile, samples)
        = <<[op |-> "need", routine |-> t.name, n |-> t.n]>> \o Setup(t.name, t.n)
          \o Measure(t.name, t.n, count, t.again, loops, "usual") \o <<[op |-> "compare"]>>
    BY <1>9 DEF GranularRow
  <2> HIDE DEF count, loops
  <2> QED BY <1>7, <2>1, LinkCompared
<1> QED BY <1>8, <1>9

LEMMA LinkGranularRows ==
  ASSUME NEW tl, tl # "turbo", NEW profile, NEW samples \in Nat \ {0}
  PROVE  Links(tl, GranularRows(profile, samples), Resident, Resident)
<1> DEFINE piece(i) == GranularRow(BenchTargets[i], profile, samples)
           n == 14  g == [i \in 1 .. n |-> piece(i)]
<1>1. DOMAIN BenchTargets = 1 .. n
      /\ \A i \in 1 .. n : BenchTargets[i].name \in Routines /\ BenchTargets[i].n \in Lengths
  BY RoutinesAre
<1>2. GranularRows(profile, samples) = FlattenSeq(g)
  BY <1>1 DEF GranularRows, Cat
<1>3. \A i \in 1 .. n : Links(tl, piece(i), Resident, Resident)
  <2> TAKE i \in 1 .. n
  <2> DEFINE t == BenchTargets[i]
  <2>1. t.name \in Routines /\ t.n \in Lengths /\ t.again \in BOOLEAN
        /\ (t.again \/ t.name \notin Lengthy \/ t.name = "aead_encrypt")
    BY <1>1, TargetsAre
  <2> HIDE DEF t
  <2>2. Links(tl, GranularRow(t, profile, samples), Resident, Resident)
    BY <2>1, LinkGranular
  <2> QED BY <2>2 DEF t
<1>4. n \in Nat
  OBVIOUS
<1> HIDE DEF piece, n
<1>5. g = [i \in 1 .. n |-> g[i]] /\ \A i \in 1 .. n : Links(tl, g[i], Resident, Resident)
  BY <1>3
<1> HIDE DEF g
<1> QED BY <1>2, <1>4, <1>5, LinkFlat

LEMMA LinkColumn ==
  ASSUME NEW tl, NEW tag, NEW A
  PROVE  Links(tl, Column(tag), A, A)
<1> DEFINE x == [op |-> "load sidecar", tag |-> tag]  y == [op |-> "save sidecar"]
           z == [op |-> "saved", tag |-> tag]
<1>1. x.op \in Idle /\ y.op \in Idle /\ z.op \in Idle
  BY DEF Idle
<1>2. Column(tag) = <<x, y, z>>
  BY DEF Column
<1> HIDE DEF x, y, z
<1> DEFINE s == <<x, y, z>>  X == {x, y, z}  h == [i \in 0 .. 3 |-> A]
<1>3. s \in Seq(X) /\ Len(s) = 3 /\ \A v \in X : v.op \in Idle
  BY <1>1
<1> HIDE DEF s, X
<1>4. \A i \in 1 .. 3 : s[i].op \in Idle
  BY <1>3, ElementOfSeq
<1>5. h[0] = A /\ h[3] = A /\ \A i \in 1 .. 3 : h[i - 1] = A /\ h[i] = A
  OBVIOUS
<1> HIDE DEF h
<1>6. Outline(tl, s, h)
  BY <1>3, <1>4, <1>5, IdleFollows DEF Outline
<1>7. IsScript(s, Named)
  BY <1>3, IdleFollows DEF IsScript
<1> QED BY <1>2, <1>3, <1>5, <1>6, <1>7 DEF Links, s

LEMMA LinkLeg ==
  ASSUME NEW mhz, NEW samples \in Nat \ {0}
  PROVE  Links("turbo",
           <<[op |-> "turbo", mhz |-> mhz]>> \o Calibrate(15)
             \o Setup("chacha20_block", 0) \o Setup("poly1305_block", 0) \o Setup("aead_encrypt", 2)
             \o Measure("chacha20_block", 0, 2 * samples, FALSE, 1, "usual")
             \o Measure("poly1305_block", 0, 2 * samples, FALSE, 1, "usual")
             \o Measure("aead_encrypt", 2, samples, FALSE, 1, "usual"),
           Steering, Steering)
<1> DEFINE t == [op |-> "turbo", mhz |-> mhz]
           a == Calibrate(15)  b == Setup("chacha20_block", 0)  d == Setup("poly1305_block", 0)
           e == Setup("aead_encrypt", 2)
           f == Measure("chacha20_block", 0, 2 * samples, FALSE, 1, "usual")
           g == Measure("poly1305_block", 0, 2 * samples, FALSE, 1, "usual")
           k == Measure("aead_encrypt", 2, samples, FALSE, 1, "usual")
           A == Steering \cup {Tuned}  B == A \cup {Calibrated}  C == B \cup {LengthIs(2)}
           tl == "turbo"
<1>1. B \subseteq Steady /\ {Fresh, Booted, Installed, Calibrated} \subseteq C /\ LengthIs(2) \in C
      /\ Installed \in A /\ Tuned \in A /\ Steering \subseteq C
  BY DEF Steering, Steady
<1>2. /\ {"chacha20_block", "poly1305_block", "aead_encrypt"} \subseteq Routines
      /\ 0 \in Lengths /\ 2 \in Lengths /\ "usual" \in Operands
      /\ "chacha20_block" \notin Lengthy /\ "poly1305_block" \notin Lengthy
      /\ 2 * samples \in Nat \ {0} /\ FALSE \in BOOLEAN
  BY RoutinesAre DEF Lengthy
<1>3. Links(tl, <<t>>, Steering, A)
  <2>1. t.op = "turbo"
    OBVIOUS
  <2> HIDE DEF t
  <2>2. Follows(tl, t, Steering, A) /\ t.op \in Named /\ t.op # "need"
    BY <2>1 DEF Follows, Needs, Leaves, Named
  <2> HIDE DEF A
  <2> QED BY <2>2, LinkOne
<1>4. Links(tl, a, A, B)
  <2> HIDE DEF A
  <2> QED BY <1>1, LinkCalibrate
<1>5. Links(tl, b, B, B) /\ Links(tl, d, B, B) /\ Links(tl, e, B, C)
  <2> HIDE DEF B
  <2> QED BY <1>1, LinkSetup
<1>6. Links(tl, f, C, C) /\ Links(tl, g, C, C) /\ Links(tl, k, C, C)
  <2> HIDE DEF C
  <2> QED BY <1>1, <1>2, LinkMeasure
<1> HIDE DEF t, a, b, d, e, f, g, k, A, B, C
<1>13. Links(tl, <<t>> \o a \o b \o d \o e \o f \o g \o k, Steering, C)
  BY <1>3, <1>4, <1>5, <1>6, LinksJoin
<1>14. Links(tl, <<t>> \o a \o b \o d \o e \o f \o g \o k, Steering, Steering)
  BY <1>1, <1>13, LinkWeak
<1> QED BY <1>14 DEF t, a, b, d, e, f, g, k

LEMMA LinkTurbo ==
  ASSUME NEW c, c.tool = "turbo", c.speeds \in Seq(Nat), c.samples \in Nat \ {0}
  PROVE  Links("turbo", Whole(c), {Fresh}, {})
<1> DEFINE tl == "turbo"  m == Len(c.speeds)
           leg(mhz) == <<[op |-> "turbo", mhz |-> mhz]>> \o Calibrate(15)
             \o Setup("chacha20_block", 0) \o Setup("poly1305_block", 0) \o Setup("aead_encrypt", 2)
             \o Measure("chacha20_block", 0, 2 * c.samples, FALSE, 1, "usual")
             \o Measure("poly1305_block", 0, 2 * c.samples, FALSE, 1, "usual")
             \o Measure("aead_encrypt", 2, c.samples, FALSE, 1, "usual")
           g == [i \in 1 .. m |-> leg(c.speeds[i])]  legs == FlattenSeq(g)
           a == SetSpeed(1)  b == Do("try")  d == Do("load")  e == Do("install")
           f == Do("finally")  k == Do("end")
           A == {Fresh} \cup {Booted}  B == A \cup {Installed}  Z == {}  ZS == Z \cup {Slow}
<1>1. m \in Nat /\ DOMAIN c.speeds = 1 .. m
  BY LenProperties
<1>2. Whole(c) = a \o b \o d \o e \o legs \o f \o a \o k
  BY <1>1 DEF Whole, Script, TurboSweep, Cat
<1>3. Links(tl, legs, Steering, Steering)
  <2>1. \A i \in 1 .. m : Links(tl, leg(c.speeds[i]), Steering, Steering)
    BY LinkLeg
  <2> HIDE DEF leg, m
  <2>2. g = [i \in 1 .. m |-> g[i]] /\ \A i \in 1 .. m : Links(tl, g[i], Steering, Steering)
    BY <2>1
  <2> HIDE DEF g
  <2> QED BY <1>1, <2>2, LinkFlat
<1>4. Links(tl, a, {Fresh}, {Fresh}) /\ Links(tl, a, Z, Z)
  <2>1. Calibrated \notin {Fresh} /\ Calibrated \notin Z
    BY FactsDiffer
  <2>2. Links(tl, a, {Fresh}, {Fresh} \cup {Slow})
    BY <2>1, LinkSpeed
  <2>3. Links(tl, a, Z, Z \cup {Slow})
    BY <2>1, LinkSpeed
  <2> HIDE DEF a
  <2>4. Links(tl, a, {Fresh}, {Fresh})
    BY <2>2, LinkWeak
  <2>5. Links(tl, a, Z, Z)
    BY <2>3, LinkWeak
  <2> QED BY <2>4, <2>5
<1>5. Links(tl, b, {Fresh}, {Fresh}) /\ Links(tl, k, Z, Z)
  <2>1. "try" \in Idle /\ "end" \in Idle
    BY DEF Idle
  <2> QED BY <2>1, LinkDo
<1>6. Links(tl, d, {Fresh}, A) /\ Links(tl, e, A, B) /\ B = Steering
  <2>1. Links(tl, d, {Fresh}, A)
    BY LinkLoad
  <2>2. Links(tl, e, A, B)
    BY LinkInstall
  <2> QED BY <2>1, <2>2 DEF Steering
<1>7. Links(tl, f, Z, Z)
  <2> DEFINE x == [op |-> "finally"]
  <2>1. x.op = "finally" /\ f = <<x>>
    BY DEF Do
  <2> HIDE DEF x
  <2>2. Follows(tl, x, Z, Z) /\ x.op \in Named /\ x.op # "need"
    BY <2>1 DEF Follows, Needs, Leaves, Named
  <2> HIDE DEF f, Z
  <2> QED BY <2>1, <2>2, LinkOne
<1>a. Z \subseteq Steering
  OBVIOUS
<1> HIDE DEF a, b, d, e, f, k, legs, A, B, Z
<1>8. Links(tl, legs, Steering, Z)
  BY <1>3, <1>a, LinkWeak
<1>15. Links(tl, a \o b \o d \o e \o legs \o f \o a \o k, {Fresh}, Z)
  BY <1>4, <1>5, <1>6, <1>7, <1>8, LinksJoin
<1> QED BY <1>2, <1>15 DEF Z

LEMMA LinkCtRoutine ==
  ASSUME NEW tl, NEW r \in Routines, NEW samples \in Nat \ {0}
  PROVE  Links(tl, CtRoutine(r, samples), Resident, Resident)
<1> DEFINE class(i) == Measure(r, 0, samples, TRUE, 1, Classes[i]) \o Do("ct row")
           n == Len(Classes)  g == [i \in 1 .. n |-> class(i)]  R == Resident
<1>1. n \in Nat /\ DOMAIN Classes = 1 .. n /\ (\A i \in 1 .. n : Classes[i] \in Operands)
      /\ 0 \in Lengths
  BY RoutinesAre
<1>2. R \subseteq Steady /\ {Fresh, Booted, Installed, Calibrated, Slow} \subseteq R
      /\ R \cap Steady = R
  BY DEF Resident, Steady
<1>3. CtRoutine(r, samples) = FlattenSeq(g) \o Do("ct routine")
  BY <1>1 DEF CtRoutine, Cat
<1>4. "ct row" \in Idle /\ "ct routine" \in Idle
  BY DEF Idle
<1>5. ASSUME NEW i \in 1 .. n PROVE Links(tl, class(i), R, R)
  <2> DEFINE m == Measure(r, 0, samples, TRUE, 1, Classes[i])  t == Do("ct row")
  <2>1. Links(tl, m, R, R)
    <3> DEFINE B == IF TRUE THEN R \cap Steady ELSE R
    <3>1. B = R
      BY <1>2
    <3>2. Classes[i] \in Operands /\ TRUE \in BOOLEAN
      BY <1>1
    <3> HIDE DEF R
    <3>3. Links(tl, m, R, B)
      BY <1>1, <1>2, <3>2, LinkMeasure
    <3> QED BY <3>1, <3>3
  <2>2. Links(tl, t, R, R)
    BY <1>4, LinkDo
  <2> HIDE DEF m, t, R
  <2>3. Links(tl, m \o t, R, R)
    BY <2>1, <2>2, LinkJoin
  <2> QED BY <2>3 DEF m, t
<1> HIDE DEF class, n, R
<1>6. g = [i \in 1 .. n |-> g[i]] /\ \A i \in 1 .. n : Links(tl, g[i], R, R)
  BY <1>5
<1> HIDE DEF g
<1>7. Links(tl, FlattenSeq(g), R, R)
  BY <1>1, <1>6, LinkFlat
<1>8. Links(tl, Do("ct routine"), R, R)
  BY <1>4, LinkDo
<1>9. Links(tl, FlattenSeq(g) \o Do("ct routine"), R, R)
  BY <1>7, <1>8, LinkJoin
<1> QED BY <1>3, <1>9 DEF R

LEMMA LinkCt ==
  ASSUME NEW c, c.tool = "ct", c.samples \in Nat \ {0}
  PROVE  Links("ct", Whole(c), {Fresh, Slow, OnVice}, {})
<1> DEFINE tl == "ct"  n == Len(CtRoutines)
           routine(i) == CtRoutine(CtRoutines[i], c.samples)  g == [i \in 1 .. n |-> routine(i)]
           all == FlattenSeq(g)
           a == Do("boot")  b == Do("blank")  d == Do("install")  e == Calibrate(10)
           f == Do("exact")  h == Run("poly1305_lib_init")  j == Do("ct verdict")  k == Do("end")
           A == {Fresh, Slow, OnVice}  B == {Fresh, Slow, Booted}  C == B \cup {Installed}
           D == C \cup {Calibrated}
<1>1. n \in Nat /\ DOMAIN CtRoutines = 1 .. n /\ \A i \in 1 .. n : CtRoutines[i] \in Routines
  BY RoutinesAre
<1>2. Whole(c) = a \o b \o d \o e \o f \o h \o all \o j \o k
  BY <1>1 DEF Whole, Script, CtChecks, Cat
<1>3. D = Resident /\ D \subseteq Steady /\ Installed \in C /\ Slow \in C
  BY DEF Resident, Steady
<1>4. Links(tl, all, D, D)
  <2>1. \A i \in 1 .. n : Links(tl, routine(i), Resident, Resident)
    BY <1>1, LinkCtRoutine
  <2> HIDE DEF routine, n
  <2>2. g = [i \in 1 .. n |-> g[i]] /\ \A i \in 1 .. n : Links(tl, g[i], Resident, Resident)
    BY <2>1
  <2> HIDE DEF g
  <2>3. Links(tl, all, Resident, Resident)
    BY <1>1, <2>2, LinkFlat
  <2> HIDE DEF all, D
  <2> QED BY <1>3, <2>3
<1>5. Links(tl, a, A, B)
  BY LinkBoot
<1>6. Links(tl, b, B, B) /\ Links(tl, f, D, D) /\ Links(tl, j, D, D) /\ Links(tl, k, D, D)
  <2>1. {"blank", "exact", "ct verdict", "end"} \subseteq Idle
    BY DEF Idle
  <2> QED BY <2>1, LinkDo
<1>7. Links(tl, d, B, C)
  BY LinkInstall
<1>8. Links(tl, e, C, D)
  <2> HIDE DEF C
  <2> QED BY <1>3, LinkCalibrate
<1>9. Links(tl, h, D, D)
  <2> HIDE DEF D
  <2> QED BY <1>3, LinkRun
<1> HIDE DEF a, b, d, e, f, h, j, k, all, A, B, C, D
<1>17. Links(tl, a \o b \o d \o e \o f \o h \o all \o j \o k, A, D)
  BY <1>4, <1>5, <1>6, <1>7, <1>8, <1>9, LinksJoin
<1>18. Links(tl, a \o b \o d \o e \o f \o h \o all \o j \o k, A, {})
  BY <1>17, LinkWeak
<1> QED BY <1>2, <1>18 DEF A

LEMMA LinkWhole ==
  ASSUME NEW c, c.tool \in Reporting, c.on \in Backends, c.samples \in Nat \ {0},
         c.tool = "ct" => c.on = "vice", c.tool = "turbo" => c.on = "u64" /\ c.speeds \in Seq(Nat)
  PROVE  Links(c.tool, Whole(c), Start(c), {})
<1> DEFINE tl == c.tool  k == Do("end")  p == IF c.on = "u64" THEN U64Prologue ELSE VicePrologue
           R == Resident
<1>1. Links(tl, k, R, {})
  <2>1. "end" \in Idle
    BY DEF Idle
  <2>2. Links(tl, k, R, R)
    BY <2>1, LinkDo
  <2> HIDE DEF k, R
  <2> QED BY <2>2, LinkWeak
<1>2. Links(tl, p, Start(c), R)
  BY LinkPrologues DEF Start
<1>3. CASE c.tool = "bench"
  <2> DEFINE a == BlockRows(c.samples)  b == Rows("aead_encrypt", c.samples, FALSE)
             d == Rows("aead_decrypt", c.samples, TRUE)
  <2>1. Whole(c) = p \o a \o b \o d \o k
    BY <1>3 DEF Whole, Script, BenchU64, BenchVice
  <2>2. Links(tl, a, R, R)
    BY LinkBlockRows
  <2>3. Links(tl, b, R, R) /\ Links(tl, d, R, R)
    <3>1. "aead_encrypt" \in Routines /\ "aead_decrypt" \in Routines /\ {TRUE, FALSE} \subseteq BOOLEAN
      BY RoutinesAre
    <3> QED BY <3>1, LinkRows
  <2> HIDE DEF a, b, d, k, p, R
  <2>7. Links(tl, p \o a \o b \o d \o k, Start(c), {})
    BY <1>1, <1>2, <2>2, <2>3, LinksJoin
  <2> QED BY <2>1, <2>7
<1>4. CASE c.tool = "sweep"
  <2> DEFINE b == Rows("aead_encrypt", c.samples, FALSE)  d == Column(c.profile)
  <2>1. Whole(c) = p \o b \o d \o k
    BY <1>4 DEF Whole, Script, RunSweep, SweepU64, SweepVice
  <2>2. Links(tl, b, R, R)
    <3>1. "aead_encrypt" \in Routines /\ FALSE \in BOOLEAN
      BY RoutinesAre
    <3> QED BY <3>1, LinkRows
  <2>3. Links(tl, d, R, R)
    BY LinkColumn
  <2> HIDE DEF b, d, k, p, R
  <2>6. Links(tl, p \o b \o d \o k, Start(c), {})
    BY <1>1, <1>2, <2>2, <2>3, LinksJoin
  <2> QED BY <2>1, <2>6
<1>5. CASE c.tool = "bench-check"
  <2> DEFINE b == GranularRows(c.profile, c.samples)  d == Do("gate")
  <2>1. Whole(c) = p \o b \o d \o k
    BY <1>5 DEF Whole, Script, BenchCheck, GranularU64, GranularVice
  <2>2. Links(tl, b, R, R)
    BY <1>5, LinkGranularRows
  <2>3. Links(tl, d, R, R)
    <3>1. "gate" \in Idle
      BY DEF Idle
    <3> QED BY <3>1, LinkDo
  <2> HIDE DEF b, d, k, p, R
  <2>6. Links(tl, p \o b \o d \o k, Start(c), {})
    BY <1>1, <1>2, <2>2, <2>3, LinksJoin
  <2> QED BY <2>1, <2>6
<1>6. CASE c.tool = "turbo"
  BY <1>6, LinkTurbo DEF Start
<1>7. CASE c.tool = "ct"
  <2>1. Start(c) = {Fresh, Slow, OnVice}
    BY <1>7 DEF Start
  <2> QED BY <1>7, <2>1, LinkCt
<1> QED BY <1>3, <1>4, <1>5, <1>6, <1>7 DEF Reporting

(* What the timers say of a run.                                            *)

\* A sound wrapper reads what it and the routine take, in ticks of the clock.
LEMMA ReadingAt ==
  ASSUME Clock \in Nat \ {0}, Memory.wrapper = "good", NEW cycles \in Nat,
         NEW j \in 0 .. Jitter, WrapperCycles + cycles + Jitter < W * W
  PROVE  Reading(cycles, j) = (WrapperCycles + cycles) \div Clock + j
<1>1. WrapperCycles \in Nat /\ Jitter \in Nat /\ W \in Nat
  BY TimerAssumption
<1> DEFINE x == WrapperCycles + cycles  k == Clock  d == x \div k  e == d + j  square == W * W
<1>2. x \in Nat /\ x + Jitter < square /\ square \in Int
  <2>1. square \in Int
    BY <1>1, Z3
  <2> HIDE DEF square
  <2> QED BY <1>1, <2>1 DEF square
<1>3. k \in Nat /\ k > 0
  <2> HIDE DEF k
  <2> QED BY DEF k
<1>4. d \in Nat /\ d <= x
  <2> HIDE DEF x, k
  <2>1. 0 \in Nat /\ 0 + x = x
    BY <1>2
  <2> QED BY <1>2, <1>3, <2>1, Quotients
<1> HIDE DEF d, x, k, square
<1>5. e \in Nat /\ e < square
  BY <1>1, <1>2, <1>4
<1>6. Elapsed(cycles, j) = e
  BY DEF Elapsed, d, x, k
<1> HIDE DEF e
<1>7. ReadTimer(TimerA(e), TimerB(e)) = e
  BY <1>5, ReadExact DEF square
<1>8. Reading(cycles, j) = e
  BY <1>6, <1>7 DEF Reading
<1> QED BY <1>8 DEF e, d, x, k

LEMMA SampleNear ==
  ASSUME Clock \in Nat \ {0}, Memory.wrapper = "good", NEW cycles \in Nat,
         NEW j \in 0 .. Jitter, WrapperCycles + cycles + Jitter < W * W,
         NEW l \in 0 .. Jitter, calib.over = WrapperCycles \div Clock + l
  PROVE  Near(cycles, Reading(cycles, j) - calib.over)
<1>1. Reading(cycles, j) = (WrapperCycles + cycles) \div Clock + j
  BY ReadingAt
<1>2. WrapperCycles \in Nat /\ Jitter \in Nat
  BY TimerAssumption
<1> DEFINE k == Clock  a == WrapperCycles  d == (a + cycles) \div k  p == a \div k
           q == cycles \div k  b == Reading(cycles, j) - calib.over
<1>3. k \in Nat /\ k > 0
  <2> HIDE DEF k
  <2> QED BY DEF k
<1>4. /\ d \in Nat /\ p \in Nat /\ q \in Nat /\ d - p \in q .. q + 1
      /\ k = 1 => d = a + cycles /\ p = a /\ q = cycles
  <2> HIDE DEF k
  <2> QED BY <1>2, <1>3, Quotients
<1>5. b = (d + j) - (p + l)
  BY <1>1
<1> HIDE DEF d, p, q, b
<1>6. b \in q - Jitter .. q + Jitter + (IF k = 1 THEN 0 ELSE 1)
  <2> HIDE DEF k
  <2>1. CASE k = 1
    <3>1. d - p = q
      BY <1>2, <1>4, <2>1
    <3> QED BY <1>2, <1>4, <1>5, <2>1, <3>1
  <2>2. CASE k # 1
    BY <1>2, <1>4, <1>5, <2>2
  <2> QED BY <2>1, <2>2
<1> QED BY <1>6 DEF Near, q, b, k

LEMMA MinOfTwo ==
  ASSUME NEW a \in Int, NEW b \in Int
  PROVE  Min({a, b}) \in {a, b}
<1>1. \E x \in {a, b} : \A y \in {a, b} : x <= y
  OBVIOUS
<1> QED BY <1>1 DEF Min

(* What a sample measures.                                                  *)

LEMMA ExecuteIs ==
  ASSUME NEW r, NEW m, DOMAIN m = Slots
  PROVE  LET e == Execute(r, m)
         IN  /\ DOMAIN e = Slots /\ e.image = m.image /\ e.wrapper = m.wrapper /\ e.len = m.len
             /\ e.operand \in {m.operand, "used"}
<1>1. \A s \in {"image", "wrapper", "len", "operand"} : s \in DOMAIN m
  BY DEF Slots, Cold
<1>2. CASE r = "aead_encrypt"
  BY <1>1, <1>2 DEF Execute
<1>3. CASE r = "aead_decrypt"
  BY <1>1, <1>3 DEF Execute
<1>4. CASE r = "chacha20_encrypt"
  BY <1>1, <1>4 DEF Execute
<1>5. CASE r \notin {"aead_encrypt", "aead_decrypt", "chacha20_encrypt"}
  <2>1. Execute(r, m) = [m EXCEPT !.operand = "used"]
    BY <1>5 DEF Execute
  <2> QED BY <1>1, <2>1
<1> QED BY <1>2, <1>3, <1>4, <1>5

LEMMA PrimedIs ==
  ASSUME NEW r, NEW n, NEW o, NEW m, DOMAIN m = Slots
  PROVE  LET e == Primed(r, n, o, m)
         IN  /\ DOMAIN e = Slots /\ e.image = m.image /\ e.wrapper = m.wrapper /\ e.operand = o
             /\ r = "aead_encrypt" => e.len = n
             /\ r = "aead_decrypt" => e.len = n /\ Opens(e)
             /\ r = "chacha20_encrypt" => e.remain = n
<1>1. \A s \in {"image", "wrapper", "data", "len", "remain", "tag", "operand"} : s \in DOMAIN m
  BY DEF Slots, Cold
<1> DEFINE loaded == [m EXCEPT !.data = "plain", !.len = n, !.operand = o]
           sealed == [loaded EXCEPT !.data = Flip(@), !.tag = <<Flip(loaded.data), loaded.len>>]
<1>2. /\ DOMAIN loaded = Slots /\ loaded.image = m.image /\ loaded.wrapper = m.wrapper
      /\ loaded.operand = o /\ loaded.len = n /\ loaded.data = "plain"
  BY <1>1
<1>3. /\ DOMAIN sealed = Slots /\ sealed.image = m.image /\ sealed.wrapper = m.wrapper
      /\ sealed.operand = o /\ sealed.len = n /\ sealed.data = Flip("plain")
      /\ sealed.tag = <<Flip("plain"), n>>
  <2>1. \A s \in {"image", "wrapper", "data", "len", "remain", "tag", "operand"} : s \in DOMAIN loaded
    BY <1>1, <1>2
  <2> HIDE DEF loaded
  <2> QED BY <1>2, <2>1
<1>4. Execute("aead_encrypt", loaded) = sealed
  BY DEF Execute
<1> HIDE DEF sealed
<1>5. CASE r = "aead_encrypt"
  <2>1. Primed(r, n, o, m) = loaded
    BY <1>5 DEF Primed
  <2> HIDE DEF loaded
  <2> QED BY <1>2, <1>5, <2>1
<1>6. CASE r \in {"aead_compute_tag", "aead_decrypt"}
  <2>1. Primed(r, n, o, m) = sealed
    BY <1>4, <1>6 DEF Primed
  <2>2. Opens(sealed)
    BY <1>3 DEF Opens
  <2> HIDE DEF loaded
  <2> QED BY <1>3, <1>6, <2>1, <2>2
<1>7. CASE r = "chacha20_encrypt"
  <2>1. Primed(r, n, o, m) = [m EXCEPT !.data = "plain", !.remain = n, !.operand = o]
    BY <1>7 DEF Primed
  <2> HIDE DEF loaded
  <2> QED BY <1>1, <1>7, <2>1
<1>8. CASE r \notin {"aead_encrypt", "aead_compute_tag", "aead_decrypt", "chacha20_encrypt"}
  <2>1. Primed(r, n, o, m) = [m EXCEPT !.operand = o]
    BY <1>8 DEF Primed
  <2> HIDE DEF loaded
  <2> QED BY <1>1, <1>8, <2>1
<1> QED BY <1>5, <1>6, <1>7, <1>8

\* The memory that a sample runs on.
LEMMA ReprimedIs ==
  ASSUME NEW x, x.operand \in Operands, NEW m, DOMAIN m = Slots, m.image = prg
  PROVE  LET e == Reprimed(x, m)
         IN  DOMAIN e = Slots /\ e.wrapper = m.wrapper /\ Ready(x.routine, x.n, e)
<1>1. \A s \in {"image", "wrapper", "operand"} : s \in DOMAIN m
  BY DEF Slots, Cold
<1>2. CASE x.routine = "aead_compute_tag"
  <2>1. Reprimed(x, m) = [m EXCEPT !.operand = x.operand]
    BY <1>2 DEF Reprimed
  <2> QED BY <1>1, <1>2, <2>1 DEF Ready
<1>3. CASE x.routine # "aead_compute_tag"
  <2> DEFINE e == Primed(x.routine, x.n, x.operand, m)
  <2>1. Reprimed(x, m) = e
    BY <1>3 DEF Reprimed
  <2>2. /\ DOMAIN e = Slots /\ e.image = m.image /\ e.wrapper = m.wrapper /\ e.operand = x.operand
        /\ x.routine = "aead_encrypt" => e.len = x.n
        /\ x.routine = "aead_decrypt" => e.len = x.n /\ Opens(e)
        /\ x.routine = "chacha20_encrypt" => e.remain = x.n
    BY PrimedIs
  <2> HIDE DEF e
  <2> QED BY <2>1, <2>2 DEF Ready
<1> QED BY <1>2, <1>3

LEMMA CostTrue ==
  ASSUME NEW r, NEW n, NEW m, Ready(r, n, m)
  PROVE  Cost(r, m) \in TrueCycles(r, n, prg)
<1>1. m.image = prg /\ m.operand \in Operands
  BY DEF Ready
<1>2. CASE r = "aead_encrypt"
  <2>1. Cost(r, m) = Cycles(prg, r, n, m.operand)
    BY <1>1, <1>2 DEF Cost, Ready
  <2> QED BY <1>1, <1>2, <2>1 DEF TrueCycles
<1>3. CASE r = "aead_decrypt"
  <2>1. Opens(m) /\ m.len = n
    BY <1>3 DEF Ready
  <2>2. Cost(r, m) = Cycles(prg, r, n, m.operand)
    BY <1>1, <1>3, <2>1 DEF Cost
  <2> QED BY <1>1, <1>3, <2>2 DEF TrueCycles
<1>4. CASE r = "chacha20_encrypt"
  <2>1. Cost(r, m) = Cycles(prg, r, n, m.operand)
    BY <1>1, <1>4 DEF Cost, Ready
  <2> QED BY <1>1, <1>4, <2>1 DEF TrueCycles
<1>5. CASE r \notin {"aead_encrypt", "aead_decrypt", "chacha20_encrypt"}
  <2>1. Cost(r, m) = Cycles(prg, r, 0, m.operand)
    BY <1>1, <1>5 DEF Cost
  <2> QED BY <1>1, <1>5, <2>1 DEF TrueCycles
<1> QED BY <1>2, <1>3, <1>4, <1>5

LEMMA TrueFits ==
  ASSUME NEW image \in Images, NEW r \in Routines, NEW n \in Lengths,
         NEW c \in TrueCycles(r, n, image), NEW loops \in {1, LoopCount}
  PROVE  /\ c \in Nat /\ loops * c \in Nat /\ WrapperCycles + loops * c + Jitter < W * W
<1>1. PICK l \in Lengths, o \in Operands : c = Cycles(image, r, l, o)
  BY RoutinesAre DEF TrueCycles
<1> DEFINE square == W * W
<1>2. c \in Nat /\ WrapperCycles + LoopCount * c + Jitter < square
  BY <1>1, CyclesAssumption
<1>3. WrapperCycles \in Nat /\ Jitter \in Nat /\ W \in Nat
  BY TimerAssumption
<1>4. square \in Int
  BY <1>3, Z3
<1> HIDE DEF square
<1>5. LoopCount * c = c + c /\ 1 * c = c
  BY <1>2 DEF LoopCount
<1>6. loops * c \in Nat /\ WrapperCycles + loops * c + Jitter < square
  BY <1>2, <1>3, <1>4, <1>5
<1> QED BY <1>2, <1>6 DEF square

(* What the facts say of the state.                                         *)

LEMMA KnownNext ==
  ASSUME NEW p, NEW q, q \subseteq p, Known(p)'
  PROVE  Known(q)'
BY DEF Known

LEMMA KnownNone ==
  ASSUME NEW p, p = {}
  PROVE  Known(p)'
BY DEF Known

\* An operation that touches nothing of this.
LEMMA KnownStay ==
  ASSUME NEW p, Known(p), ~Now("measure"),
         UNCHANGED <<prg, machine, speed, on, calib, taken, best>>
  PROVE  Known(p)'
<1>1. Clock' = Clock /\ Memory' = Memory
  BY DEF Clock, Memory
<1>2. Fresh \in p => taken' = 0
  BY DEF Known
<1> QED BY <1>1, <1>2 DEF Known

\* What is left of an outline.
LEMMA OutlineFrom ==
  ASSUME NEW tl, NEW s, NEW P, IsScript(s, P), NEW h, Outline(tl, s, h),
         NEW k \in 1 .. Len(s) + 1
  PROVE  \E g : Outline(tl, SubSeq(s, k, Len(s)), g) /\ g[0] = h[k - 1]
<1> DEFINE n == Len(s)  r == SubSeq(s, k, n)  m == n - k + 1
           g == [i \in 0 .. m |-> h[i + (k - 1)]]
<1>1. PICK S : s \in Seq(S)
  BY DEF IsScript
<1>2. n \in Nat
  BY <1>1, LenProperties
<1>3. Len(r) = m /\ \A i \in 1 .. m : r[i] = s[k + i - 1]
  <2>1. Len(r) = Len(s) - k + 1 /\ \A i \in 1 .. Len(r) : r[i] = s[k + i - 1]
    BY <1>1, Suffix
  <2> HIDE DEF r
  <2> QED BY <2>1
<1>4. \A i \in 1 .. n : /\ Follows(tl, s[i], h[i - 1], h[i])
                        /\ s[i].op = "need" => i + 3 <= n /\ h[i + 2] \subseteq h[i - 1]
  BY DEF Outline
<1>5. k \in 1 .. n + 1
  OBVIOUS
<1> HIDE DEF n, r
<1>6. m \in Nat
  BY <1>2, <1>5
<1>7. \A i \in 0 .. m : g[i] = h[i + (k - 1)]
  OBVIOUS
<1> HIDE DEF g
<1>8. g[0] = h[k - 1]
  <2>1. 0 \in 0 .. m /\ 0 + (k - 1) = k - 1
    BY <1>5, <1>6
  <2> QED BY <1>7, <2>1
<1>9. ASSUME NEW i \in 1 .. m
      PROVE  /\ Follows(tl, r[i], g[i - 1], g[i])
             /\ r[i].op = "need" => i + 3 <= m /\ g[i + 2] \subseteq g[i - 1]
  <2> DEFINE j == k + i - 1
  <2>1. /\ j \in 1 .. n /\ i - 1 \in 0 .. m /\ i \in 0 .. m
        /\ (i - 1) + (k - 1) = j - 1 /\ i + (k - 1) = j /\ (i + 2) + (k - 1) = j + 2
    BY <1>2, <1>5
  <2>2. r[i] = s[j] /\ g[i - 1] = h[j - 1] /\ g[i] = h[j]
    BY <1>3, <1>7, <2>1
  <2>3. j = k + i - 1
    OBVIOUS
  <2> HIDE DEF j
  <2>4. ASSUME r[i].op = "need" PROVE i + 3 <= m /\ g[i + 2] \subseteq g[i - 1]
    <3>1. j + 3 <= n /\ h[j + 2] \subseteq h[j - 1]
      BY <1>4, <2>1, <2>2, <2>4
    <3>2. i + 3 <= m /\ i + 2 \in 0 .. m
      BY <1>2, <1>5, <2>3, <3>1
    <3> QED BY <1>7, <2>1, <2>2, <3>1, <3>2
  <2> QED BY <1>4, <2>1, <2>2, <2>4
<1>10. Outline(tl, r, g)
  <2> HIDE DEF m
  <2> QED BY <1>3, <1>9 DEF Outline
<1> QED BY <1>8, <1>10 DEF r, n

LEMMA PreparedFrom ==
  ASSUME Desk, script # <<>>, UNCHANGED <<tool, prg>>, prg \in Images,
         NEW h, Outline(tool.tool, script, h), NEW k \in 1 .. Len(script) + 1,
         script' = SubSeq(script, k, Len(script)), Known(h[k - 1])'
  PROVE  Prepared'
<1>1. PICK g : Outline(tool.tool, script', g) /\ g[0] = h[k - 1]
  BY HereScript, OutlineFrom
<1>2. Known(g[0])'
  BY <1>1
<1>3. \E f : Outline(tool.tool, script, f)' /\ Known(f[0])'
  BY <1>1, <1>2
<1> QED BY <1>3 DEF Prepared

LEMMA HeadIs ==
  ASSUME Desk, script # <<>>, NEW h, Outline(tool.tool, script, h)
  PROVE  /\ Len(script) \in Nat /\ 1 \in 1 .. Len(script) /\ Head(script) = script[1]
         /\ Tail(script) = SubSeq(script, 2, Len(script)) /\ 2 \in 1 .. Len(script) + 1
         /\ Follows(tool.tool, Head(script), h[0], h[1])
         /\ Head(script).op = "need" => 4 \in 1 .. Len(script) + 1 /\ h[3] \subseteq h[0]
<1> DEFINE n == Len(script)
<1>1. PICK S : script \in Seq(S)
  BY HereScript DEF IsScript
<1>2. n \in Nat /\ n # 0
  BY <1>1, LenProperties, EmptySeq
<1>3. Head(script) = script[1] /\ Tail(script) = SubSeq(script, 2, n)
  <2>1. 1 \in 1 .. n + 1 /\ 1 <= n
    BY <1>2
  <2>2. SubSeq(script, 1, n) = script
    BY <1>1, SubSeqFull
  <2>3. LET r == SubSeq(script, 1, Len(script))
        IN  1 <= Len(script) => Head(r) = script[1] /\ Tail(r) = SubSeq(script, 1 + 1, Len(script))
    BY <1>1, <2>1, Suffix
  <2> QED BY <2>1, <2>2, <2>3
<1>4. \A i \in 1 .. n : /\ Follows(tool.tool, script[i], h[i - 1], h[i])
                        /\ script[i].op = "need" => i + 3 <= n /\ h[i + 2] \subseteq h[i - 1]
  BY DEF Outline
<1> HIDE DEF n
<1>5. 1 \in 1 .. n /\ 2 \in 1 .. n + 1 /\ 1 - 1 = 0 /\ 1 + 2 = 3
  BY <1>2
<1>6. Follows(tool.tool, Head(script), h[0], h[1])
  BY <1>3, <1>4, <1>5
<1>7. ASSUME Head(script).op = "need" PROVE 4 \in 1 .. n + 1 /\ h[3] \subseteq h[0]
  <2>1. 1 + 3 <= n /\ h[1 + 2] \subseteq h[1 - 1]
    BY <1>3, <1>4, <1>5, <1>7
  <2> QED BY <1>2, <1>5, <2>1
<1> QED BY <1>2, <1>3, <1>5, <1>6, <1>7 DEF n

LEMMA PreparedTail ==
  ASSUME Desk, script # <<>>, UNCHANGED <<tool, prg>>, prg \in Images,
         NEW h, Outline(tool.tool, script, h), script' = Tail(script), Known(h[1])'
  PROVE  Prepared'
<1>1. Tail(script) = SubSeq(script, 2, Len(script)) /\ 2 \in 1 .. Len(script) + 1 /\ 2 - 1 = 1
  BY HeadIs
<1>2. Known(h[2 - 1])'
  BY <1>1
<1> QED BY <1>1, <1>2, PreparedFrom

\* Nothing left.
LEMMA PreparedEmpty ==
  ASSUME UNCHANGED <<tool, prg>>, tool.tool \in Reporting => prg \in Images, script' = <<>>
  PROVE  Prepared'
<1> DEFINE h == [i \in 0 .. 0 |-> {}]
<1>1. h[0] = {}
  OBVIOUS
<1> HIDE DEF h
<1>2. Len(<<>>) = 0
  BY EmptySeq
<1>3. Outline(tool.tool, <<>>, h)
  BY <1>2 DEF Outline
<1>4. Known(h[0])'
  BY <1>1, KnownNone
<1>5. \E f : Outline(tool.tool, script, f)' /\ Known(f[0])'
  BY <1>3, <1>4
<1> QED BY <1>5 DEF Prepared

\* An exception: nothing is left, or the finally clause, which needs nothing.
LEMMA PreparedThrown ==
  ASSUME Desk, script # <<>>, UNCHANGED <<tool, prg>>, prg \in Images,
         NEW h, Outline(tool.tool, script, h), script' = Finally(script)
  PROVE  Prepared'
<1> DEFINE S == At(script, "finally")  k == Min(S)
<1>1. CASE script' = <<>>
  BY <1>1, PreparedEmpty
<1>2. CASE script' # <<>>
  <2>1. S # {} /\ script' = SubSeq(script, k, Len(script))
    BY <1>2 DEF Finally
  <2>2. Len(script) \in Nat /\ DOMAIN script = 1 .. Len(script)
    BY HereScript, ScriptAt
  <2>3. S = {i \in 1 .. Len(script) : script[i].op = "finally"}
    BY <2>2 DEF At
  <2> HIDE DEF S
  <2>4. S \in SUBSET Nat
    BY <2>2, <2>3
  <2>5. k \in S
    BY <2>1, <2>4, MinIn
  <2> HIDE DEF k
  <2>6. PICK i \in S : i = k
    BY <2>5
  <2>7. i \in 1 .. Len(script) /\ script[i].op = "finally" /\ script' = SubSeq(script, i, Len(script))
    BY <2>1, <2>3, <2>6
  <2>8. Follows(tool.tool, script[i], h[i - 1], h[i])
    BY <2>7 DEF Outline
  <2>9. h[i - 1] = {}
    BY <2>7, <2>8 DEF Follows, Needs
  <2>10. Known(h[i - 1])'
    BY <2>9, KnownNone
  <2>11. i \in 1 .. Len(script) + 1
    BY <2>2, <2>7
  <2> QED BY <2>7, <2>10, <2>11, PreparedFrom
<1> QED BY <1>1, <1>2

\* The running machine's memory, and the other one's.
LEMMA Remembered ==
  ASSUME Fitted, on \in Backends, NEW m, Remember(m), on' = on
  PROVE  Memory' = m /\ (Operated /\ m.operand \in Operands => Operated')
<1>1. DOMAIN machine = Backends /\ machine' = [machine EXCEPT ![on] = m]
  BY DEF Fitted, Remember
<1>2. machine'[on] = m /\ \A b \in Backends : b # on => machine'[b] = machine[b]
  BY <1>1
<1> QED BY <1>2 DEF Memory, Operated

-----------------------------------------------------------------------------
(* Every operation of a script keeps to its outline.                        *)

LEMMA Stands ==
  ASSUME Desk, Prepared, script # <<>>, tool.tool \in Reporting
  PROVE  /\ prg \in Images /\ on \in Backends
         /\ \E h : /\ Outline(tool.tool, script, h) /\ Known(h[0])
                   /\ Needs(tool.tool, Head(script), h[0])
                   /\ h[1] \subseteq Leaves(Head(script), h[0])
<1>1. on \in Backends
  BY Cursor DEF Well
<1>2. prg \in Images /\ \E h : Outline(tool.tool, script, h) /\ Known(h[0])
  BY DEF Prepared
<1>3. PICK h : Outline(tool.tool, script, h) /\ Known(h[0])
  BY <1>2
<1>4. Follows(tool.tool, Head(script), h[0], h[1])
  BY <1>3, HeadIs
<1> QED BY <1>1, <1>2, <1>3, <1>4 DEF Follows

\* The next operation has what q says.
LEMMA StepOn ==
  ASSUME Desk, script # <<>>, UNCHANGED <<tool, prg>>, prg \in Images,
         NEW h, Outline(tool.tool, script, h), script' = Tail(script),
         NEW q, h[1] \subseteq q, Known(q)'
  PROVE  Prepared'
<1>1. Known(h[1])'
  BY KnownNext
<1> QED BY <1>1, PreparedTail

LEMMA StepBoot ==
  ASSUME Desk, Fitted, Operated, Prepared, tool.tool \in Reporting, tool' = tool, Boot
  PROVE  Prepared' /\ Operated'
<1>1. /\ script # <<>> /\ Head(script).op = "boot" /\ script' = Tail(script) /\ ~Now("measure")
      /\ machine' = [machine EXCEPT !["vice"] = [Cold EXCEPT !.image = prg]]
      /\ UNCHANGED <<prg, speed, on, taken, best>>
  BY DEF Boot, Now, Advance, measureVars
<1>2. PICK h : /\ Outline(tool.tool, script, h) /\ Known(h[0]) /\ prg \in Images
               /\ Needs(tool.tool, Head(script), h[0])
               /\ h[1] \subseteq Leaves(Head(script), h[0])
  BY <1>1, Stands
<1> DEFINE p == h[0]  q == (p \cap {Fresh, Slow, OnVice}) \cup {Booted}
<1>3. OnVice \in p /\ h[1] \subseteq q
  BY <1>1, <1>2 DEF Needs, Leaves
<1>4. on = "vice"
  BY <1>2, <1>3 DEF Known
<1>5. /\ machine'["vice"].image = prg /\ machine'["vice"].operand = "usual"
      /\ \A b \in Backends : b # "vice" => machine'[b] = machine[b]
  BY <1>1 DEF Fitted, Backends, Cold
<1>6. Operated'
  BY <1>5, RoutinesAre DEF Operated
<1>7. /\ {Installed, Calibrated, Tuned} \cap q = {} /\ \A n : LengthIs(n) \notin q
  BY FactsDiffer DEF Steady
<1>8. Fresh \in q => taken' = 0
  <2>1. Fresh \in q => Fresh \in p
    BY FactsDiffer
  <2> QED BY <1>1, <1>2, <2>1 DEF Known
<1>9. Clock' = Clock /\ Memory'.image = prg' /\ on' = "vice" /\ Clock = 1
  BY <1>1, <1>4, <1>5 DEF Clock, Memory
<1> HIDE DEF p, q
<1>10. Known(q)'
  <2>1. \A f \in {Installed, Calibrated, Tuned} : f \notin q
    BY <1>7
  <2> QED BY <1>7, <1>8, <1>9, <2>1 DEF Known
<1>11. Prepared'
  BY <1>1, <1>2, <1>3, <1>10, StepOn DEF q
<1> QED BY <1>6, <1>11

LEMMA StepLoad ==
  ASSUME Desk, Fitted, Operated, Prepared, tool.tool \in Reporting, tool' = tool, LoadPrg
  PROVE  Prepared' /\ Operated'
<1> DEFINE m == [Memory EXCEPT !.image = prg]
<1>1. /\ script # <<>> /\ Head(script).op = "load" /\ script' = Tail(script)
      /\ Remember(m) /\ UNCHANGED <<prg, speed, on, calib, taken, best>>
  BY DEF LoadPrg, Now, Advance, measureVars
<1>2. PICK h : /\ Outline(tool.tool, script, h) /\ Known(h[0]) /\ prg \in Images
               /\ Needs(tool.tool, Head(script), h[0]) /\ on \in Backends
               /\ h[1] \subseteq Leaves(Head(script), h[0])
  BY <1>1, Stands
<1> DEFINE p == h[0]  q == p \cup {Booted}
<1>3. h[1] \subseteq q
  BY <1>1, <1>2 DEF Leaves
<1>4. /\ DOMAIN Memory = Slots /\ {"image", "wrapper", "len", "operand"} \subseteq Slots
  BY <1>2 DEF Fitted, Memory, Slots, Cold
<1>5. m.image = prg /\ m.wrapper = Memory.wrapper /\ m.len = Memory.len
      /\ m.operand = Memory.operand
  BY <1>4
<1> HIDE DEF m
<1>6. Memory' = m /\ Operated'
  <2>1. Memory.operand \in Operands
    BY <1>2 DEF Operated, Memory
  <2> QED BY <1>1, <1>2, <1>5, <2>1, Remembered
<1>7. Fresh \in q => taken' = 0
  <2>1. Fresh \in q => Fresh \in p
    BY FactsDiffer
  <2>2. ~Now("measure")
    BY <1>1 DEF Now
  <2> QED BY <1>1, <1>2, <2>1, <2>2 DEF Known
<1>8. Clock' = Clock
  BY <1>1 DEF Clock
<1>9. /\ Installed \in q => Installed \in p
      /\ Calibrated \in q => Calibrated \in p
      /\ Slow \in q => Slow \in p
      /\ Tuned \in q => Tuned \in p
      /\ OnVice \in q => OnVice \in p
      /\ \A n : LengthIs(n) \in q => LengthIs(n) \in p
  BY FactsDiffer DEF Steady
<1>10. Known(p)
  BY <1>2
<1>11. Known(q)'
  <2> HIDE DEF p, q
  <2> QED BY <1>1, <1>5, <1>6, <1>7, <1>8, <1>9, <1>10 DEF Known
<1>12. Prepared'
  <2> HIDE DEF q
  <2> QED BY <1>1, <1>2, <1>3, <1>11, StepOn
<1> QED BY <1>6, <1>12

LEMMA StepSpeed ==
  ASSUME Desk, Fitted, Operated, Prepared, tool.tool \in Reporting, tool' = tool, ChangeSpeed
  PROVE  Prepared' /\ Operated'
<1>1. /\ script # <<>> /\ Head(script).op = "speed" /\ script' = Tail(script)
      /\ speed' = Head(script).mhz /\ UNCHANGED <<prg, machine, on, calib, taken, best>>
  BY DEF ChangeSpeed, Now, Advance, measureVars
<1>2. PICK h : /\ Outline(tool.tool, script, h) /\ Known(h[0]) /\ prg \in Images
               /\ Needs(tool.tool, Head(script), h[0])
               /\ h[1] \subseteq Leaves(Head(script), h[0])
  BY <1>1, Stands
<1> DEFINE p == h[0]  q == (p \ {Calibrated}) \cup {Slow}
<1>3. h[1] \subseteq q /\ speed' = 1
  BY <1>1, <1>2 DEF Needs, Leaves
<1>4. Clock' = 1 /\ Memory' = Memory
  BY <1>1, <1>3 DEF Clock, Memory
<1>5. Fresh \in q => taken' = 0
  <2>1. Fresh \in q => Fresh \in p
    BY FactsDiffer
  <2>2. ~Now("measure")
    BY <1>1 DEF Now
  <2> QED BY <1>1, <1>2, <2>1, <2>2 DEF Known
<1>6. /\ Installed \in q => Installed \in p
      /\ Calibrated \notin q
      /\ Booted \in q => Booted \in p
      /\ OnVice \in q => OnVice \in p
      /\ \A n : LengthIs(n) \in q => LengthIs(n) \in p
  BY FactsDiffer DEF Steady
<1>7. Known(p)
  BY <1>2
<1>8. Known(q)'
  <2> HIDE DEF p, q
  <2> QED BY <1>1, <1>4, <1>5, <1>6, <1>7 DEF Known
<1>9. Prepared'
  <2> HIDE DEF q
  <2> QED BY <1>1, <1>2, <1>3, <1>8, StepOn
<1>10. Operated'
  BY <1>1 DEF Operated
<1> QED BY <1>9, <1>10

LEMMA StepInstall ==
  ASSUME Desk, Fitted, Operated, Prepared, tool.tool \in Reporting, tool' = tool, InstallWrapper
  PROVE  Prepared' /\ Operated'
<1>1. /\ script # <<>> /\ Head(script).op = "install"
      /\ UNCHANGED <<prg, speed, on, calib, taken, best>>
  BY DEF InstallWrapper, Now, measureVars
<1>2. PICK arrived : /\ Remember([Memory EXCEPT !.wrapper = arrived])
                     /\ \/ arrived = "good" /\ script' = Tail(script)
                        \/ script' = Finally(script)
  BY DEF InstallWrapper, InstallAccepts, Advance, Leave
<1> DEFINE m == [Memory EXCEPT !.wrapper = arrived]
<1>3. PICK h : /\ Outline(tool.tool, script, h) /\ Known(h[0]) /\ prg \in Images
               /\ Needs(tool.tool, Head(script), h[0]) /\ on \in Backends
               /\ h[1] \subseteq Leaves(Head(script), h[0])
  BY <1>1, Stands
<1>4. /\ DOMAIN Memory = Slots /\ {"image", "wrapper", "len", "operand"} \subseteq Slots
  BY <1>3 DEF Fitted, Memory, Slots, Cold
<1>5. m.image = Memory.image /\ m.wrapper = arrived /\ m.len = Memory.len
      /\ m.operand = Memory.operand
  BY <1>4
<1>6. Remember(m)
  BY <1>2
<1> HIDE DEF m
<1>7. Memory' = m /\ Operated'
  <2>1. Memory.operand \in Operands
    BY <1>3 DEF Operated, Memory
  <2> QED BY <1>1, <1>3, <1>5, <1>6, <2>1, Remembered
<1>8. CASE script' = Finally(script)
  <2>1. Prepared'
    BY <1>1, <1>3, <1>8, PreparedThrown
  <2> QED BY <1>7, <2>1
<1>9. CASE arrived = "good" /\ script' = Tail(script)
  <2> DEFINE p == h[0]  q == p \cup {Installed}
  <2>1. h[1] \subseteq q
    BY <1>1, <1>3 DEF Leaves
  <2>2. Fresh \in q => taken' = 0
    <3>1. Fresh \in q => Fresh \in p
      BY FactsDiffer
    <3>2. ~Now("measure")
      BY <1>1 DEF Now
    <3> QED BY <1>1, <1>3, <3>1, <3>2 DEF Known
  <2>3. Clock' = Clock
    BY <1>1 DEF Clock
  <2>4. /\ Booted \in q => Booted \in p
        /\ Calibrated \in q => Calibrated \in p
        /\ Slow \in q => Slow \in p
        /\ Tuned \in q => Tuned \in p
        /\ OnVice \in q => OnVice \in p
        /\ \A n : LengthIs(n) \in q => LengthIs(n) \in p
    BY FactsDiffer DEF Steady
  <2>5. Known(p)
    BY <1>3
  <2>6. Known(q)'
    <3> HIDE DEF p, q
    <3> QED BY <1>1, <1>5, <1>7, <1>9, <2>2, <2>3, <2>4, <2>5 DEF Known
  <2>7. Prepared'
    <3> HIDE DEF q
    <3> QED BY <1>1, <1>3, <1>9, <2>1, <2>6, StepOn
  <2> QED BY <1>7, <2>7
<1> QED BY <1>2, <1>8, <1>9

\* Operations that the facts know nothing of.
LEMMA StepStill ==
  ASSUME Desk, Operated, Prepared, tool.tool \in Reporting, tool' = tool, script # <<>>,
         Head(script).op \in Idle \cup {"need", "finally"}, script' = Tail(script),
         UNCHANGED <<prg, machine, speed, on, calib, taken, best>>
  PROVE  Prepared' /\ Operated'
<1>1. PICK h : /\ Outline(tool.tool, script, h) /\ Known(h[0]) /\ prg \in Images
               /\ h[1] \subseteq Leaves(Head(script), h[0])
  BY Stands
<1>2. Head(script).op # "measure"
  BY DEF Idle
<1>3. Leaves(Head(script), h[0]) = h[0]
  BY IdleFollows DEF Leaves
<1>4. Known(h[0])'
  BY <1>1, <1>2, KnownStay DEF Now
<1>5. Prepared'
  BY <1>1, <1>3, <1>4, StepOn
<1>6. Operated'
  BY DEF Operated
<1> QED BY <1>5, <1>6

LEMMA StepThrown ==
  ASSUME Desk, Operated, Prepared, tool.tool \in Reporting, tool' = tool, script # <<>>,
         script' = Finally(script), UNCHANGED <<prg, machine>>
  PROVE  Prepared' /\ Operated'
<1>1. PICK h : Outline(tool.tool, script, h) /\ prg \in Images
  BY Stands
<1>2. Prepared'
  BY <1>1, PreparedThrown
<1>3. Operated'
  BY DEF Operated
<1> QED BY <1>2, <1>3

LEMMA NoiseIs == Noise \subseteq 0 .. Jitter
BY TimerAssumption DEF Noise

LEMMA StepCalibrate ==
  ASSUME Desk, Operated, Prepared, tool.tool \in Reporting, tool' = tool, CalibrateWrapper
  PROVE  Prepared' /\ Operated'
<1>1. /\ script # <<>> /\ Head(script).op = "calibrate" /\ script' = Tail(script)
      /\ UNCHANGED <<prg, machine, speed, on, taken, best>>
      /\ \E l \in Noise : calib'.over = Reading(0, l)
  BY DEF CalibrateWrapper, Now, Advance
<1>2. PICK h : /\ Outline(tool.tool, script, h) /\ Known(h[0]) /\ prg \in Images
               /\ Needs(tool.tool, Head(script), h[0])
               /\ h[1] \subseteq Leaves(Head(script), h[0])
  BY <1>1, Stands
<1> DEFINE p == h[0]  q == p \cup {Calibrated}
<1>3. h[1] \subseteq q /\ Installed \in p /\ (Slow \in p \/ Tuned \in p)
  BY <1>1, <1>2 DEF Needs, Leaves
<1>4. Clock \in Nat \ {0} /\ Memory.wrapper = "good" /\ Clock' = Clock /\ Memory' = Memory
  <2>1. Clock' = Clock /\ Memory' = Memory
    BY <1>1 DEF Clock, Memory
  <2>2. Slow \in p => Clock = 1
    BY <1>2 DEF Known
  <2>3. Tuned \in p => Clock \in Nat \ {0}
    BY <1>2 DEF Known
  <2>4. Memory.wrapper = "good"
    BY <1>2, <1>3 DEF Known
  <2> HIDE DEF p
  <2>5. Clock \in Nat \ {0}
    BY <1>3, <2>2, <2>3
  <2> QED BY <2>1, <2>4, <2>5
<1>5. \E l \in 0 .. Jitter : calib'.over = WrapperCycles \div Clock + l
  <2>1. PICK l \in 0 .. Jitter : calib'.over = Reading(0, l)
    BY <1>1, NoiseIs
  <2>2. WrapperCycles + 0 = WrapperCycles /\ WrapperCycles + 0 + Jitter < W * W
    <3> DEFINE square == W * W
    <3>1. WrapperCycles \in Nat /\ StubCycles \in Nat /\ Jitter \in Nat /\ square \in Int
          /\ WrapperCycles + StubCycles + Jitter < square
      BY TimerAssumption, Z3
    <3> HIDE DEF square
    <3>2. WrapperCycles + 0 = WrapperCycles /\ WrapperCycles + 0 + Jitter < square
      BY <3>1
    <3> QED BY <3>2 DEF square
  <2>3. Reading(0, l) = (WrapperCycles + 0) \div Clock + l
    BY <1>4, <2>2, ReadingAt
  <2> QED BY <2>1, <2>2, <2>3
<1>6. Fresh \in q => taken' = 0
  <2>1. Fresh \in q => Fresh \in p
    BY FactsDiffer
  <2>2. ~Now("measure")
    BY <1>1 DEF Now
  <2> QED BY <1>1, <1>2, <2>1, <2>2 DEF Known
<1>7. /\ Booted \in q => Booted \in p
      /\ Installed \in q => Installed \in p
      /\ Slow \in q => Slow \in p
      /\ Tuned \in q => Tuned \in p
      /\ OnVice \in q => OnVice \in p
      /\ \A n : LengthIs(n) \in q => LengthIs(n) \in p
  BY FactsDiffer DEF Steady
<1>8. Known(p)
  BY <1>2
<1>9. Known(q)'
  <2> HIDE DEF p, q
  <2> QED BY <1>1, <1>4, <1>5, <1>6, <1>7, <1>8 DEF Known
<1>10. Prepared'
  <2> HIDE DEF q
  <2> QED BY <1>1, <1>2, <1>3, <1>9, StepOn
<1>11. Operated'
  BY <1>1 DEF Operated
<1> QED BY <1>10, <1>11

\* A setup, or a run that is not measured, gives up the facts about lengths.
LEMMA StepMemory ==
  ASSUME Desk, Fitted, Operated, Prepared, tool.tool \in Reporting, tool' = tool, script # <<>>,
         script' = Tail(script), Head(script).op # "measure",
         UNCHANGED <<prg, speed, on, calib, taken, best>>,
         NEW m, Remember(m), m.image = Memory.image, m.wrapper = Memory.wrapper,
         m.operand \in Operands, NEW n,
         NEW h, Outline(tool.tool, script, h), Known(h[0]),
         \/ h[1] \subseteq h[0] \cap Steady
         \/ h[1] \subseteq (h[0] \cap Steady) \cup {LengthIs(n)} /\ m.len = n
  PROVE  Prepared' /\ Operated'
<1>1. prg \in Images /\ on \in Backends
  BY Stands
<1>2. Memory' = m /\ Operated'
  BY <1>1, Remembered
<1> DEFINE p == h[0]
           q == (p \cap Steady) \cup (IF m.len = n THEN {LengthIs(n)} ELSE {})
<1>3. h[1] \subseteq q
  OBVIOUS
<1>4. Fresh \in q => taken' = 0
  <2>1. Fresh \in q => Fresh \in p
    BY FactsDiffer DEF Steady
  <2> QED BY <2>1 DEF Known, Now
<1>5. /\ Booted \in q => Booted \in p
      /\ Installed \in q => Installed \in p
      /\ Calibrated \in q => Calibrated \in p
      /\ Slow \in q => Slow \in p
      /\ Tuned \in q => Tuned \in p
      /\ OnVice \in q => OnVice \in p
      /\ \A k : LengthIs(k) \in q => k = n /\ m.len = n
  BY FactsDiffer DEF Steady
<1>6. Clock' = Clock
  BY DEF Clock
<1>7. Known(p)
  OBVIOUS
<1>8. Known(q)'
  <2> HIDE DEF p, q
  <2> QED BY <1>2, <1>4, <1>5, <1>6, <1>7 DEF Known
<1>9. Prepared'
  <2> HIDE DEF q
  <2> QED BY <1>1, <1>3, <1>8, StepOn
<1> QED BY <1>2, <1>9

LEMMA StepSetup ==
  ASSUME Desk, Fitted, Operated, Prepared, tool.tool \in Reporting, tool' = tool, SetupRoutine
  PROVE  Prepared' /\ Operated'
<1>1. PICK x, m : /\ x = Head(script) /\ m = Primed(x.routine, x.n, "usual", Memory)
                  /\ Remember(m)
  BY DEF SetupRoutine
<1>2. /\ script # <<>> /\ Head(script).op = "setup" /\ script' = Tail(script)
      /\ UNCHANGED <<prg, speed, on, calib, taken, best>>
  BY DEF SetupRoutine, Now, Advance, measureVars
<1>3. PICK h : /\ Outline(tool.tool, script, h) /\ Known(h[0]) /\ on \in Backends
               /\ h[1] \subseteq Leaves(x, h[0])
  BY <1>1, <1>2, Stands
<1>4. DOMAIN Memory = Slots
  BY <1>3 DEF Fitted, Memory
<1>5. /\ m.image = Memory.image /\ m.wrapper = Memory.wrapper /\ m.operand = "usual"
      /\ x.routine = "aead_encrypt" => m.len = x.n
  BY <1>1, <1>4, PrimedIs
<1>6. Leaves(x, h[0]) = (h[0] \cap Steady)
                        \cup (IF x.routine = "aead_encrypt" THEN {LengthIs(x.n)} ELSE {})
  BY <1>1, <1>2 DEF Leaves
<1>7. \/ h[1] \subseteq h[0] \cap Steady
      \/ h[1] \subseteq (h[0] \cap Steady) \cup {LengthIs(x.n)} /\ m.len = x.n
  BY <1>3, <1>5, <1>6
<1> DEFINE n == x.n
<1>8. m.operand \in Operands /\ Head(script).op # "measure"
  BY <1>2, <1>5, RoutinesAre
<1>9. \/ h[1] \subseteq h[0] \cap Steady
      \/ h[1] \subseteq (h[0] \cap Steady) \cup {LengthIs(n)} /\ m.len = n
  BY <1>7
<1> HIDE DEF n
<1> QED BY <1>1, <1>2, <1>3, <1>5, <1>8, <1>9, StepMemory

LEMMA StepRun ==
  ASSUME Desk, Fitted, Operated, Prepared, tool.tool \in Reporting, tool' = tool, RunRoutine
  PROVE  Prepared' /\ Operated'
<1>1. PICK m : m = Execute(Head(script).routine, Memory) /\ Remember(m)
  BY DEF RunRoutine
<1>2. /\ script # <<>> /\ Head(script).op = "run" /\ script' = Tail(script)
      /\ UNCHANGED <<prg, speed, on, calib, taken, best>>
  BY DEF RunRoutine, Now, Advance, measureVars
<1>3. PICK h : /\ Outline(tool.tool, script, h) /\ Known(h[0]) /\ on \in Backends
               /\ h[1] \subseteq Leaves(Head(script), h[0])
  BY <1>2, Stands
<1>4. DOMAIN Memory = Slots /\ Memory.operand \in Operands
  BY <1>3 DEF Fitted, Operated, Memory
<1>5. /\ m.image = Memory.image /\ m.wrapper = Memory.wrapper
      /\ m.operand \in {Memory.operand, "used"}
  BY <1>1, <1>4, ExecuteIs
<1>6. h[1] \subseteq h[0] \cap Steady
  BY <1>2, <1>3 DEF Leaves
<1>7. m.operand \in Operands /\ Head(script).op # "measure"
  BY <1>2, <1>4, <1>5 DEF Operands
<1> QED BY <1>1, <1>2, <1>3, <1>5, <1>6, <1>7, StepMemory

\* An outline whose first operation is entered with other facts.
LEMMA OutlineEntered ==
  ASSUME NEW tl, NEW s, NEW h, Outline(tl, s, h), Len(s) \in Nat, 1 \in 1 .. Len(s),
         s[1].op # "need", NEW q, Follows(tl, s[1], q, h[1])
  PROVE  \E g : Outline(tl, s, g) /\ g[0] = q
<1> DEFINE n == Len(s)  g == [i \in 0 .. n |-> IF i = 0 THEN q ELSE h[i]]
<1>1. n \in Nat /\ n >= 1
  <2> HIDE DEF n
  <2> QED BY DEF n
<1> HIDE DEF n
<1>2. g[0] = q /\ \A i \in 1 .. n : g[i] = h[i]
  BY <1>1
<1> HIDE DEF g
<1>3. \A i \in 1 .. n : /\ Follows(tl, s[i], h[i - 1], h[i])
                        /\ s[i].op = "need" => i + 3 <= n /\ h[i + 2] \subseteq h[i - 1]
  BY DEF Outline, n
<1>4. ASSUME NEW i \in 1 .. n
      PROVE  /\ Follows(tl, s[i], g[i - 1], g[i])
             /\ s[i].op = "need" => i + 3 <= n /\ g[i + 2] \subseteq g[i - 1]
  <2>1. CASE i = 1
    <3>1. i - 1 = 0 /\ g[i] = h[1]
      BY <1>1, <1>2, <2>1
    <3> QED BY <1>2, <2>1, <3>1
  <2>2. CASE i # 1
    <3>1. i - 1 \in 1 .. n
      BY <1>1, <2>2
    <3>2. g[i - 1] = h[i - 1] /\ g[i] = h[i]
      BY <1>2, <3>1
    <3>3. ASSUME s[i].op = "need" PROVE i + 3 <= n /\ g[i + 2] \subseteq g[i - 1]
      <4>1. i + 3 <= n /\ h[i + 2] \subseteq h[i - 1]
        BY <1>3, <3>3
      <4>2. i + 2 \in 1 .. n
        BY <1>1, <4>1
      <4> QED BY <1>2, <3>2, <4>1, <4>2
    <3> QED BY <1>3, <3>2, <3>3
  <2> QED BY <2>1, <2>2
<1>5. Outline(tl, s, g)
  BY <1>4 DEF Outline, n
<1> QED BY <1>2, <1>5

\* What a sample of a row runs on, and what it is found to take.
LEMMA SampleFits ==
  ASSUME Fitted, Operated, on \in Backends, prg \in Images, NEW p, Known(p), NEW x,
         {Fresh, Booted, Installed, Calibrated} \subseteq p, Measurable(x, p),
         NEW m, m = IF x.again THEN Reprimed(x, Memory) ELSE Memory, NEW j \in 0 .. Jitter
  PROVE  /\ DOMAIN m = Slots /\ m.image = prg /\ m.wrapper = Memory.wrapper /\ m.operand \in Operands
         /\ Fits(x, Reading(x.loops * Cost(x.routine, m), j) - calib.over)
<1>1. /\ Memory.image = prg /\ Memory.wrapper = "good" /\ Clock \in Nat \ {0}
      /\ \E l \in 0 .. Jitter : calib.over = WrapperCycles \div Clock + l
      /\ \A n : LengthIs(n) \in p => Memory.len = n
  BY DEF Known
<1>2. DOMAIN Memory = Slots /\ Memory.operand \in Operands
  BY DEF Fitted, Operated, Memory
<1>3. /\ x.routine \in Routines /\ x.n \in Lengths /\ x.operand \in Operands
      /\ x.loops \in {1, LoopCount}
      /\ x.again \/ x.routine \notin Lengthy \/ (x.routine = "aead_encrypt" /\ Memory.len = x.n)
  BY <1>1 DEF Measurable
<1>4. DOMAIN m = Slots /\ m.wrapper = Memory.wrapper /\ Ready(x.routine, x.n, m)
  <2>1. CASE x.again
    <3>1. m = Reprimed(x, Memory)
      BY <2>1
    <3> QED BY <1>1, <1>2, <1>3, <3>1, ReprimedIs
  <2>2. CASE ~x.again
    <3>1. m = Memory
      BY <2>2
    <3>2. Ready(x.routine, x.n, m)
      BY <1>1, <1>2, <1>3, <2>2, <3>1 DEF Ready, Lengthy
    <3> QED BY <1>2, <3>1, <3>2
  <2> QED BY <2>1, <2>2
<1>5. m.image = prg /\ m.operand \in Operands
  BY <1>4 DEF Ready
<1> DEFINE c == Cost(x.routine, m)  cycles == x.loops * c
<1>6. c \in TrueCycles(x.routine, x.n, prg)
  BY <1>4, CostTrue
<1>7. cycles \in Nat /\ WrapperCycles + cycles + Jitter < W * W
  <2> HIDE DEF c
  <2> QED BY <1>3, <1>6, TrueFits
<1> HIDE DEF c
<1>8. PICK l \in 0 .. Jitter : calib.over = WrapperCycles \div Clock + l
  BY <1>1
<1> HIDE DEF cycles
<1>9. Near(cycles, Reading(cycles, j) - calib.over)
  BY <1>1, <1>7, <1>8, SampleNear
<1>10. Reading(cycles, j) - calib.over \in Int
  <2> DEFINE b == Reading(cycles, j) - calib.over  lo == cycles \div Clock - Jitter
             hi == cycles \div Clock + Jitter + (IF Clock = 1 THEN 0 ELSE 1)
  <2>1. b \in lo .. hi
    BY <1>9 DEF Near
  <2> HIDE DEF b, lo, hi
  <2>2. b \in Int
    BY <2>1
  <2> QED BY <2>2 DEF b
<1>11. Fits(x, Reading(cycles, j) - calib.over)
  BY <1>6, <1>9, <1>10 DEF Fits, cycles
<1> QED BY <1>4, <1>5, <1>11 DEF cycles, c

LEMMA StepSample ==
  ASSUME Desk, Fitted, Operated, Prepared, tool.tool \in Reporting, tool' = tool, Sample
  PROVE  Prepared' /\ Operated'
<1>0. \E j \in 0 .. Jitter :
        LET s == Head(script)
            m == IF s.again THEN Reprimed(s, Memory) ELSE Memory
            cycles == Reading(s.loops * Cost(s.routine, m), j) - calib.over
        IN  /\ best' = IF taken = 0 THEN cycles ELSE Min({best, cycles})
            /\ Remember(Execute(s.routine, m))
  <2>1. Noise \subseteq 0 .. Jitter
    BY NoiseIs
  <2>2. \E j \in Noise :
        LET s == Head(script)
            m == IF s.again THEN Reprimed(s, Memory) ELSE Memory
            cycles == Reading(s.loops * Cost(s.routine, m), j) - calib.over
        IN  /\ best' = IF taken = 0 THEN cycles ELSE Min({best, cycles})
            /\ Remember(Execute(s.routine, m))
    BY DEF Sample
  <2> QED BY <2>1, <2>2
<1>a. PICK x : x = Head(script)
  OBVIOUS
<1>b. PICK m : m = IF x.again THEN Reprimed(x, Memory) ELSE Memory
  OBVIOUS
<1>c. PICK j \in 0 .. Jitter :
        LET cycles == Reading(x.loops * Cost(x.routine, m), j) - calib.over
        IN  /\ best' = IF taken = 0 THEN cycles ELSE Min({best, cycles})
            /\ Remember(Execute(x.routine, m))
  BY <1>0, <1>a, <1>b
<1>1. /\ x = Head(script) /\ m = IF x.again THEN Reprimed(x, Memory) ELSE Memory
      /\ LET cycles == Reading(x.loops * Cost(x.routine, m), j) - calib.over
         IN  best' = IF taken = 0 THEN cycles ELSE Min({best, cycles})
      /\ Remember(Execute(x.routine, m))
  BY <1>a, <1>b, <1>c
<1>2. /\ script # <<>> /\ x.op = "measure" /\ script' = script
      /\ UNCHANGED <<prg, speed, on, calib>>
  BY <1>1 DEF Sample, Now
<1>3. PICK h : /\ Outline(tool.tool, script, h) /\ Known(h[0])
               /\ Needs(tool.tool, x, h[0]) /\ h[1] \subseteq Leaves(x, h[0])
  BY <1>1, <1>2, Stands
<1>4. on \in Backends /\ prg \in Images
  BY <1>2, Stands
<1> DEFINE p == h[0]  q == IF x.again THEN p \cap Steady ELSE p
<1>5. /\ {Fresh, Booted, Installed, Calibrated} \subseteq p
      /\ tool.tool # "turbo" => Slow \in p
      /\ Measurable(x, p)
  BY <1>2, <1>3 DEF Needs
<1>6. /\ {Fresh, Booted, Installed, Calibrated} \subseteq q
      /\ tool.tool # "turbo" => Slow \in q
      /\ Measurable(x, q)
  <2>1. \A f \in Steady : f \in p => f \in q
    OBVIOUS
  <2>2. {Fresh, Booted, Installed, Calibrated, Slow} \subseteq Steady
    BY DEF Steady
  <2>3. x.again \/ q = p
    OBVIOUS
  <2> HIDE DEF p, q
  <2> QED BY <1>5, <2>1, <2>2, <2>3 DEF Measurable
<1>7. Leaves(x, q) = Leaves(x, p)
  <2>1. \A f : Leaves(x, f) = IF x.again THEN f \cap Steady ELSE f
    BY <1>2 DEF Leaves
  <2> QED BY <2>1
<1>8. Follows(tool.tool, x, q, h[1])
  <2> HIDE DEF q
  <2>1. Needs(tool.tool, x, q)
    BY <1>2, <1>6 DEF Needs
  <2> QED BY <1>3, <1>7, <2>1 DEF Follows
<1>9. PICK g : Outline(tool.tool, script, g) /\ g[0] = q
  <2>1. Len(script) \in Nat /\ 1 \in 1 .. Len(script) /\ Head(script) = script[1]
    BY <1>2, <1>3, HeadIs
  <2> HIDE DEF q
  <2> QED BY <1>1, <1>2, <1>3, <1>8, <2>1, OutlineEntered
<1> DEFINE b == Reading(x.loops * Cost(x.routine, m), j) - calib.over
           e == Execute(x.routine, m)
<1>10. /\ DOMAIN m = Slots /\ m.image = prg /\ m.wrapper = Memory.wrapper /\ m.operand \in Operands
       /\ Fits(x, b)
  BY <1>1, <1>3, <1>4, <1>5, SampleFits
<1>11. /\ e.image = prg /\ e.wrapper = Memory.wrapper /\ e.operand \in Operands
       /\ x.again \/ e.len = Memory.len
  <2>1. e.image = m.image /\ e.wrapper = m.wrapper /\ e.len = m.len /\ e.operand \in {m.operand, "used"}
    BY <1>10, ExecuteIs
  <2>2. "used" \in Operands
    BY DEF Operands
  <2>3. x.again \/ m = Memory
    BY <1>1
  <2> HIDE DEF e
  <2> QED BY <1>10, <2>1, <2>2, <2>3
<1> HIDE DEF e
<1>12. Memory' = e /\ Operated'
  BY <1>1, <1>2, <1>4, <1>11, Remembered DEF e
<1> HIDE DEF b
<1>13. Fits(x, best')
  <2>1. taken # 0 => Fits(x, best)
    BY <1>1, <1>3, <1>5 DEF Known
  <2>2. best' = IF taken = 0 THEN b ELSE Min({best, b})
    BY <1>1 DEF b
  <2>3. CASE taken = 0
    BY <1>10, <2>2, <2>3
  <2>4. CASE taken # 0
    <3>1. best \in Int /\ b \in Int
      BY <1>10, <2>1, <2>4 DEF Fits
    <3>2. best' \in {best, b}
      BY <2>2, <2>4, <3>1, MinOfTwo
    <3> QED BY <1>10, <2>1, <2>4, <3>2
  <2> QED BY <2>3, <2>4
<1>14. Clock' = Clock
  BY <1>2 DEF Clock
<1>15. Fits(x, best)'
  <2>1. PICK c \in TrueCycles(x.routine, x.n, prg) : Near(x.loops * c, best')
    BY <1>13 DEF Fits
  <2>2. TrueCycles(x.routine, x.n, prg)' = TrueCycles(x.routine, x.n, prg)
    BY <1>2 DEF TrueCycles
  <2>3. Near(x.loops * c, best)'
    BY <1>14, <2>1 DEF Near
  <2> QED BY <1>13, <2>1, <2>2, <2>3 DEF Fits
<1>16. (Now("measure") /\ Fits(Head(script), best))'
  <2>1. x = Head(script') /\ script' # <<>>
    BY <1>1, <1>2
  <2> QED BY <1>2, <1>15, <2>1 DEF Now
<1>17. /\ \A f : f \in q => f \in p
       /\ ~x.again \/ \A n : LengthIs(n) \notin q
  BY FactsDiffer
<1>18. Known(p)
  BY <1>3
<1>19. Known(q)'
  <2> HIDE DEF p, q
  <2> QED BY <1>2, <1>11, <1>12, <1>14, <1>16, <1>17, <1>18 DEF Known
<1>20. Prepared'
  <2> HIDE DEF q
  <2>1. Known(g[0])'
    BY <1>9, <1>19
  <2>2. \E f : Outline(tool.tool, script, f)' /\ Known(f[0])'
    BY <1>2, <1>9, <2>1
  <2> QED BY <1>2, <1>4, <2>2 DEF Prepared
<1> QED BY <1>12, <1>20

\* What a tool makes of the least of its samples.
LEMMA RowOf ==
  ASSUME NEW c \in Nat, NEW b \in Int, NEW loops, Clock \in Nat \ {0}, Near(loops * c, b),
         loops = 1 \/ (loops = LoopCount /\ Clock = 1)
  PROVE  b \div loops \in c \div Clock - Jitter .. c \div Clock + Jitter + (IF Clock = 1 THEN 0 ELSE 1)
<1>1. CASE loops = 1
  <2>1. 1 * c = c /\ b \div 1 = b
    BY SMT
  <2>2. Near(c, b)
    BY <1>1, <2>1
  <2> QED BY <1>1, <2>1, <2>2 DEF Near
<1>2. CASE loops = LoopCount /\ Clock = 1
  <2>1. loops = 2
    BY <1>2 DEF LoopCount
  <2>2. (2 * c) \div 1 = 2 * c /\ c \div 1 = c /\ Jitter \in Nat
    BY TimerAssumption, SMT
  <2>3. b \in 2 * c - Jitter .. 2 * c + Jitter
    <3>1. b \in (2 * c) \div 1 - Jitter .. (2 * c) \div 1 + Jitter + 0
      BY <1>2, <2>1 DEF Near
    <3> QED BY <2>2, <3>1
  <2>4. b \div 2 \in c - Jitter .. c + Jitter
    BY <2>2, <2>3, SMT
  <2>5. b \div loops \in c \div 1 - Jitter .. c \div 1 + Jitter + 0
    BY <2>1, <2>2, <2>4
  <2> QED BY <1>2, <2>5
<1> QED BY <1>1, <1>2

LEMMA StepRecord ==
  ASSUME Desk, Fitted, Operated, Prepared, tool.tool \in Reporting, tool' = tool, Record
  PROVE  Prepared' /\ Operated' /\ RowsExact'
<1>1. PICK x : x = Head(script)
  OBVIOUS
<1>2. /\ script # <<>> /\ x.op = "measure" /\ script' = Tail(script) /\ taken = x.samples
      /\ row' = [name |-> x.routine, n |-> x.n, loops |-> x.loops,
                 cycles |-> best \div x.loops, spread |-> worst - best, image |-> prg, at |-> Clock]
      /\ taken' = 0 /\ UNCHANGED <<prg, machine, speed, on, calib>>
  BY <1>1 DEF Record, Now, Advance
<1>3. PICK h : /\ Outline(tool.tool, script, h) /\ Known(h[0]) /\ prg \in Images
               /\ Needs(tool.tool, x, h[0]) /\ h[1] \subseteq Leaves(x, h[0])
  BY <1>1, <1>2, Stands
<1> DEFINE p == h[0]
<1>4. /\ {Fresh, Booted, Installed, Calibrated} \subseteq p
      /\ tool.tool # "turbo" => Slow \in p
      /\ Measurable(x, p)
  BY <1>2, <1>3 DEF Needs
<1>5. h[1] \subseteq p
  <2>1. Leaves(x, p) = IF x.again THEN p \cap Steady ELSE p
    BY <1>2 DEF Leaves
  <2> QED BY <1>3, <2>1
<1>6. Known(p)
  BY <1>3
<1> HIDE DEF p
<1>7. Clock' = Clock /\ Memory' = Memory
  BY <1>2 DEF Clock, Memory
<1>8. Known(p)'
  BY <1>2, <1>6, <1>7 DEF Known
<1>9. Prepared'
  BY <1>2, <1>3, <1>5, <1>8, StepOn
<1>10. Operated'
  BY <1>2 DEF Operated
<1>11. RowsExact'
  <2>1. x.samples # 0 /\ x.routine \in Routines /\ x.n \in Lengths
        /\ (x.loops = 1 \/ (x.loops = LoopCount /\ Slow \in p))
    BY <1>4 DEF Measurable
  <2>2. Fits(x, best)
    BY <1>1, <1>2, <1>4, <1>6, <2>1 DEF Known
  <2>3. PICK c \in TrueCycles(x.routine, x.n, prg) : best \in Int /\ Near(x.loops * c, best)
    BY <2>2 DEF Fits
  <2>4. c \in Nat
    <3>1. 1 \in {1, LoopCount}
      OBVIOUS
    <3> QED BY <1>3, <2>1, <2>3, <3>1, TrueFits
  <2>5. Clock \in Nat \ {0} /\ (Slow \in p => Clock = 1)
    BY <1>4, <1>6 DEF Known
  <2>6. best \div x.loops
          \in c \div Clock - Jitter .. c \div Clock + Jitter + (IF Clock = 1 THEN 0 ELSE 1)
    BY <2>1, <2>3, <2>4, <2>5, RowOf
  <2>7. /\ row'.name = x.routine /\ row'.n = x.n /\ row'.image = prg
        /\ row'.cycles = best \div x.loops /\ row'.at = Clock
    BY <1>2
  <2> DEFINE mhz == IF tool.tool = "turbo" THEN row'.at ELSE 1
  <2>8. mhz = Clock
    BY <1>4, <2>5, <2>7
  <2>9. row'.cycles \in c \div mhz - Jitter .. c \div mhz + Jitter + (IF mhz = 1 THEN 0 ELSE 1)
    BY <2>6, <2>7, <2>8
  <2>10. c \in TrueCycles(row.name, row.n, row.image)'
    BY <2>3, <2>7 DEF TrueCycles
  <2>11. mhz = IF tool'.tool = "turbo" THEN row'.at ELSE 1
    OBVIOUS
  <2> HIDE DEF mhz
  <2> QED BY <2>9, <2>10, <2>11 DEF RowsExact
<1> QED BY <1>9, <1>10, <1>11

(* The steps of a session, by what they report.                             *)

LEMMA RowKept ==
  ASSUME RowsExact, UNCHANGED <<tool, row>>
  PROVE  RowsExact'
<1> QED BY DEF RowsExact, TrueCycles

LEMMA RowBare ==
  ASSUME NEW name, NEW n, row' = [name |-> name, n |-> n, cycles |-> Skipped]
  PROVE  RowsExact'
<1>1. "image" \notin DOMAIN row'
  OBVIOUS
<1> QED BY <1>1 DEF RowsExact

LEMMA StepNeed ==
  ASSUME Desk, Operated, Prepared, RowsExact, tool.tool \in Reporting, tool' = tool, NeedSymbol
  PROVE  Prepared' /\ Operated' /\ RowsExact'
<1>1. /\ script # <<>> /\ Head(script).op = "need"
      /\ UNCHANGED <<prg, machine, speed, on, calib, taken, best>>
      /\ \/ script' = Tail(script) /\ row' = row
         \/ /\ row' = [name |-> Head(script).routine, n |-> Head(script).n, cycles |-> Skipped]
            /\ script' = SubSeq(script, 4, Len(script))
  BY DEF NeedSymbol, Now, Advance, Same
<1>2. CASE script' = Tail(script) /\ row' = row
  BY <1>1, <1>2, StepStill, RowKept
<1>3. CASE /\ row' = [name |-> Head(script).routine, n |-> Head(script).n, cycles |-> Skipped]
           /\ script' = SubSeq(script, 4, Len(script))
  <2>1. RowsExact'
    BY <1>3, RowBare
  <2>2. PICK h : Outline(tool.tool, script, h) /\ Known(h[0]) /\ prg \in Images
    BY <1>1, Stands
  <2>3. 4 \in 1 .. Len(script) + 1 /\ h[3] \subseteq h[0]
    BY <1>1, <2>2, HeadIs
  <2>4. Known(h[0])'
    BY <1>1, <2>2, KnownStay DEF Now
  <2>5. Known(h[3])'
    BY <2>3, <2>4, KnownNext
  <2>6. Known(h[4 - 1])'
    <3>1. 4 - 1 = 3
      OBVIOUS
    <3> QED BY <2>5, <3>1
  <2>7. Prepared'
    BY <1>1, <1>3, <2>2, <2>3, <2>6, PreparedFrom
  <2> QED BY <1>1, <2>1, <2>7 DEF Operated
<1> QED BY <1>1, <1>2, <1>3

LEMMA StepSkip ==
  ASSUME Desk, Operated, Prepared, RowsExact, tool.tool \in Reporting, tool' = tool, SkipRow
  PROVE  Prepared' /\ Operated' /\ RowsExact'
<1> DEFINE compare == [op |-> "compare"]  u == <<compare>>  t == Tail(script)  n == Len(script)
<1>1. /\ script # <<>> /\ Head(script).op = "skip"
      /\ UNCHANGED <<prg, machine, speed, on, calib, taken, best>>
      /\ row' = [name |-> Head(script).routine, n |-> Head(script).n, cycles |-> Skipped]
      /\ script' = u \o t
  BY DEF SkipRow, Now, Same
<1>2. RowsExact'
  BY <1>1, RowBare
<1>3. PICK h : Outline(tool.tool, script, h) /\ Known(h[0]) /\ prg \in Images
  BY <1>1, Stands
<1>4. Known(h[0])'
  BY <1>1, <1>3, KnownStay DEF Now
<1>5. /\ n \in Nat /\ 1 \in 1 .. n /\ Head(script) = script[1]
      /\ Follows(tool.tool, Head(script), h[0], h[1])
  BY <1>1, <1>3, HeadIs
<1>6. Follows(tool.tool, compare, h[0], h[1])
  <2>1. Leaves(Head(script), h[0]) = h[0]
    <3>1. Head(script).op \in Idle
      BY <1>1 DEF Idle
    <3> QED BY <3>1, IdleFollows
  <2>2. compare.op \in Idle
    BY DEF Idle
  <2> HIDE DEF compare
  <2>3. Leaves(compare, h[0]) = h[0] /\ Needs(tool.tool, compare, h[0])
    BY <2>2, IdleFollows DEF Follows
  <2> QED BY <1>5, <2>1, <2>3 DEF Follows
<1>7. Len(script') = n /\ script'[1] = compare /\ \A i \in 2 .. n : script'[i] = script[i]
  <2>1. PICK S : script \in Seq(S)
    BY <1>1, HereScript DEF IsScript
  <2> DEFINE T == S \cup {compare}
  <2>2. t \in Seq(S) /\ Len(t) = n - 1 /\ \A i \in 1 .. n - 1 : t[i] = script[i + 1]
    BY <1>1, <2>1, HeadTailProperties
  <2>3. t \in Seq(T) /\ u \in Seq(T) /\ Len(u) = 1 /\ u[1] = compare
    <3>1. S \subseteq T
      OBVIOUS
    <3>2. t \in Seq(T)
      BY <2>2, <3>1, SeqMonotonic
    <3>3. u \in Seq(T) /\ Len(u) = 1 /\ u[1] = compare
      OBVIOUS
    <3> QED BY <3>2, <3>3
  <2> HIDE DEF t, u, T, n, compare
  <2>4. /\ Len(u \o t) = Len(u) + Len(t)
        /\ \A i \in 1 .. Len(u) + Len(t) : (u \o t)[i] = IF i <= Len(u) THEN u[i] ELSE t[i - Len(u)]
    BY <2>3, ConcatProperties
  <2> DEFINE w == u \o t
  <2>5. Len(w) = 1 + (n - 1) /\ \A i \in 1 .. 1 + (n - 1) : w[i] = IF i <= 1 THEN u[1] ELSE t[i - 1]
    <3> HIDE DEF w
    <3>1. Len(w) = 1 + (n - 1)
      BY <2>2, <2>3, <2>4 DEF w
    <3>2. ASSUME NEW i \in 1 .. 1 + (n - 1) PROVE w[i] = IF i <= 1 THEN u[1] ELSE t[i - 1]
      <4>1. i \in 1 .. Len(u) + Len(t) /\ (i <= 1 => i = 1)
        BY <1>5, <2>2, <2>3
      <4>2. w[i] = IF i <= Len(u) THEN u[i] ELSE t[i - Len(u)]
        BY <2>4, <4>1 DEF w
      <4> QED BY <2>3, <4>1, <4>2
    <3> QED BY <3>1, <3>2
  <2> HIDE DEF w
  <2>6. Len(w) = n /\ w[1] = compare
    BY <1>5, <2>3, <2>5
  <2>7. ASSUME NEW i \in 2 .. n PROVE w[i] = script[i]
    <3>1. i \in 1 .. 1 + (n - 1) /\ ~(i <= 1) /\ i - 1 \in 1 .. n - 1 /\ (i - 1) + 1 = i
      BY <1>5
    <3>2. t[i - 1] = script[(i - 1) + 1]
      BY <2>2, <3>1
    <3> QED BY <2>5, <3>1, <3>2
  <2> QED BY <1>1, <2>6, <2>7 DEF w
<1>8. \A i \in 1 .. n : /\ Follows(tool.tool, script[i], h[i - 1], h[i])
                        /\ script[i].op = "need" => i + 3 <= n /\ h[i + 2] \subseteq h[i - 1]
  BY <1>3 DEF Outline
<1>9. compare.op # "need"
  OBVIOUS
<1> DEFINE s == script'
<1>10. Outline(tool.tool, s, h)
  <2> HIDE DEF compare
  <2> SUFFICES ASSUME NEW i \in 1 .. Len(s)
               PROVE  /\ Follows(tool.tool, s[i], h[i - 1], h[i])
                      /\ s[i].op = "need" => i + 3 <= Len(s) /\ h[i + 2] \subseteq h[i - 1]
    BY DEF Outline
  <2>1. i \in 1 .. n /\ Len(s) = n
    BY <1>7
  <2>2. CASE i = 1
    <3>1. s[i] = compare /\ i - 1 = 0
      BY <1>7, <2>2
    <3> QED BY <1>6, <1>9, <2>2, <3>1
  <2>3. CASE i # 1
    <3> HIDE DEF n, s
    <3>1. i \in 2 .. n
      BY <1>5, <2>1, <2>3
    <3>2. s[i] = script[i]
      BY <1>7, <3>1 DEF s
    <3> QED BY <1>8, <2>1, <3>2
  <2> QED BY <2>2, <2>3
<1>11. \E f : Outline(tool.tool, script, f)' /\ Known(f[0])'
  BY <1>4, <1>10
<1> QED BY <1>1, <1>2, <1>3, <1>11 DEF Prepared, Operated

LEMMA StepTurbo ==
  ASSUME Desk, Fitted, Operated, Prepared, tool.tool \in Reporting, tool' = tool, Turbo
  PROVE  Prepared' /\ Operated'
<1>1. /\ script # <<>> /\ Head(script).op = "turbo" /\ Now("turbo")
      /\ UNCHANGED <<prg, machine, on, calib, taken, best>>
      /\ \/ speed' \in Speeds /\ script' = Tail(script)
         \/ speed' = speed /\ script' = NextTurbo(script)
  BY DEF Turbo, Now, Advance, measureVars
<1>2. PICK h : /\ Outline(tool.tool, script, h) /\ Known(h[0]) /\ prg \in Images
               /\ Needs(tool.tool, Head(script), h[0])
               /\ h[1] \subseteq Leaves(Head(script), h[0])
  BY <1>1, Stands
<1>3. h[0] = Steering /\ h[1] \subseteq Steering \cup {Tuned}
  BY <1>1, <1>2 DEF Needs, Leaves
<1>4. Operated' /\ Memory' = Memory
  BY <1>1 DEF Operated, Memory
<1>5. Known(Steering)
  BY <1>2, <1>3
<1> DEFINE q == Steering \cup {Tuned}
<1>6. {Fresh, Booted, Installed} \subseteq Steering
  BY DEF Steering
<1>7. taken' = 0 /\ Memory'.image = prg' /\ Memory'.wrapper = "good"
  BY <1>1, <1>4, <1>5, <1>6 DEF Known, Now
<1>8. Calibrated \notin q /\ Slow \notin q /\ OnVice \notin q /\ \A n : LengthIs(n) \notin q
  BY FactsDiffer DEF Steady, Steering
<1>9. CASE speed' \in Speeds /\ script' = Tail(script)
  <2>1. Clock' \in Nat \ {0}
    <3>1. speed' \in Nat \ {0}
      BY <1>9, TimerAssumption
    <3> QED BY <3>1 DEF Clock
  <2>2. Known(q)'
    <3> HIDE DEF q
    <3> QED BY <1>7, <1>8, <2>1 DEF Known
  <2>3. Prepared'
    <3>1. h[1] \subseteq q
      BY <1>3
    <3> HIDE DEF q
    <3> QED BY <1>1, <1>2, <1>9, <2>2, <3>1, StepOn
  <2> QED BY <1>4, <2>3
<1>10. CASE speed' = speed /\ script' = NextTurbo(script)
  <2> DEFINE t == Tail(script)
  <2>1. PICK i \in 1 .. Len(t) : t[i].op \in {"turbo", "finally"} /\ script' = SubSeq(t, i, Len(t))
    BY <1>1, <1>10, SkippedGoes
  <2>2. /\ Len(script) \in Nat /\ 2 \in 1 .. Len(script) + 1
        /\ t = SubSeq(script, 2, Len(script))
    BY <1>1, <1>2, HeadIs
  <2>3. PICK S : script \in Seq(S)
    BY <1>1, HereScript DEF IsScript
  <2>4. /\ Len(t) = Len(script) - 2 + 1
        /\ \A j \in 1 .. Len(t) : t[j] = script[2 + j - 1]
        /\ \A m \in 1 .. Len(t) + 1 : SubSeq(t, m, Len(t)) = SubSeq(script, 2 + m - 1, Len(script))
    BY <2>2, <2>3, Suffix
  <2> HIDE DEF t
  <2> DEFINE n == Len(script)  j == i + 1
  <2>5. /\ 2 + i - 1 = j /\ i \in 1 .. Len(t) + 1 /\ j \in 1 .. n /\ j \in 1 .. n + 1
        /\ j - 1 = i
    <3>1. n \in Nat /\ Len(t) = n - 2 + 1
      BY <2>2, <2>4
    <3> HIDE DEF n
    <3> QED BY <3>1
  <2>6. t[i] = script[j] /\ script' = SubSeq(script, j, n)
    BY <2>1, <2>4, <2>5
  <2>7. Follows(tool.tool, script[j], h[j - 1], h[j])
    BY <1>2, <2>5 DEF Outline
  <2>8. h[j - 1] \subseteq Steering
    <3>1. script[j].op \in {"turbo", "finally"}
      BY <2>1, <2>6
    <3> HIDE DEF j
    <3> QED BY <2>7, <3>1 DEF Follows, Needs
  <2>9. Known(Steering)'
    <3>1. Tuned \notin Steering
      BY FactsDiffer DEF Steering
    <3>2. Steering \subseteq q
      OBVIOUS
    <3> HIDE DEF q
    <3> QED BY <1>7, <1>8, <3>1, <3>2 DEF Known
  <2>10. Known(h[j - 1])'
    BY <2>8, <2>9, KnownNext
  <2> HIDE DEF j
  <2>11. Prepared'
    BY <1>1, <1>2, <2>5, <2>6, <2>10, PreparedFrom
  <2> QED BY <1>4, <2>11
<1> QED BY <1>1, <1>9, <1>10

LEMMA MachineRows ==
  ASSUME Desk, Fitted, Rowed, tool.tool \in Reporting, tool' = tool, MachineStep
  PROVE  Rowed'
<1>1. Prepared /\ Operated /\ RowsExact
  BY DEF Rowed
<1>2. ASSUME Boot PROVE Rowed'
  <2>1. row' = row
    BY <1>2 DEF Boot, measureVars
  <2> QED BY <1>1, <1>2, <2>1, StepBoot, RowKept DEF Rowed
<1>3. ASSUME LoadPrg PROVE Rowed'
  <2>1. row' = row
    BY <1>3 DEF LoadPrg, measureVars
  <2> QED BY <1>1, <1>3, <2>1, StepLoad, RowKept DEF Rowed
<1>4. ASSUME ChangeSpeed PROVE Rowed'
  <2>1. row' = row
    BY <1>4 DEF ChangeSpeed, measureVars
  <2> QED BY <1>1, <1>4, <2>1, StepSpeed, RowKept DEF Rowed
<1>5. ASSUME InstallWrapper PROVE Rowed'
  <2>1. row' = row
    BY <1>5 DEF InstallWrapper, measureVars
  <2> QED BY <1>1, <1>5, <2>1, StepInstall, RowKept DEF Rowed
<1>6. ASSUME CalibrateWrapper PROVE Rowed'
  <2>1. row' = row
    BY <1>6 DEF CalibrateWrapper
  <2> QED BY <1>1, <1>6, <2>1, StepCalibrate, RowKept DEF Rowed
<1>7. ASSUME SetupRoutine PROVE Rowed'
  <2>1. row' = row
    BY <1>7 DEF SetupRoutine, measureVars
  <2> QED BY <1>1, <1>7, <2>1, StepSetup, RowKept DEF Rowed
<1>8. ASSUME RunRoutine PROVE Rowed'
  <2>1. row' = row
    BY <1>8 DEF RunRoutine, measureVars
  <2> QED BY <1>1, <1>8, <2>1, StepRun, RowKept DEF Rowed
<1>9. ASSUME Sample PROVE Rowed'
  <2>1. row' = row
    BY <1>9 DEF Sample
  <2> QED BY <1>1, <1>9, <2>1, StepSample, RowKept DEF Rowed
<1>10. ASSUME Record PROVE Rowed'
  BY <1>1, <1>10, StepRecord DEF Rowed
<1>11. ASSUME script # <<>>, Head(script).op \in Idle \cup {"need", "finally"},
              script' = Tail(script),
              UNCHANGED <<prg, machine, speed, on, calib, taken, best, row>>
       PROVE  Rowed'
  <2>1. UNCHANGED <<prg, machine, speed, on, calib, taken, best>> /\ row' = row
    BY <1>11
  <2> QED BY <1>1, <1>11, <2>1, StepStill, RowKept DEF Rowed
<1>12. ASSUME Blank \/ Enter \/ End PROVE Rowed'
  <2>1. /\ script # <<>> /\ Head(script).op \in {"blank", "try", "finally", "end"}
        /\ script' = Tail(script)
        /\ UNCHANGED <<prg, machine, speed, on, calib, taken, best, row>>
    BY <1>12 DEF Blank, Enter, End, Now, Advance, measureVars
  <2> QED BY <1>11, <2>1 DEF Idle
<1>13. ASSUME VerifyWrapper PROVE Rowed'
  <2>1. /\ script # <<>> /\ Head(script).op = "verify"
        /\ script' = Tail(script) \/ script' = Finally(script)
        /\ UNCHANGED <<prg, machine, speed, on, calib, taken, best, row>>
    BY <1>13 DEF VerifyWrapper, Now, Advance, Leave, measureVars
  <2>2. CASE script' = Tail(script)
    BY <1>11, <2>1, <2>2 DEF Idle
  <2>3. CASE script' = Finally(script)
    BY <1>1, <2>1, <2>3, StepThrown, RowKept DEF Rowed
  <2> QED BY <2>1, <2>2, <2>3
<1> QED BY <1>2, <1>3, <1>4, <1>5, <1>6, <1>7, <1>8, <1>9, <1>10, <1>12, <1>13 DEF MachineStep

LEMMA ToolRows ==
  ASSUME Desk, Fitted, Rowed, tool.tool \in Reporting, tool' = tool, ToolStep
  PROVE  Rowed'
<1>1. Prepared /\ Operated /\ RowsExact
  BY DEF Rowed
<1>2. ASSUME NeedSymbol PROVE Rowed'
  BY <1>1, <1>2, StepNeed DEF Rowed
<1>3. ASSUME SkipRow PROVE Rowed'
  BY <1>1, <1>3, StepSkip DEF Rowed
<1>4. ASSUME Turbo PROVE Rowed'
  <2>1. row' = row
    BY <1>4 DEF Turbo, measureVars
  <2> QED BY <1>1, <1>4, <2>1, StepTurbo, RowKept DEF Rowed
<1>5. ASSUME script # <<>>, Head(script).op \in Idle,
             script' = Tail(script) \/ script' = Finally(script),
             UNCHANGED <<prg, machine, speed, on, calib, taken, best, row>>
      PROVE  Rowed'
  <2>1. UNCHANGED <<prg, machine, speed, on, calib, taken, best>> /\ row' = row
        /\ UNCHANGED <<prg, machine>>
    BY <1>5
  <2>2. CASE script' = Tail(script)
    BY <1>1, <1>5, <2>1, <2>2, StepStill, RowKept DEF Rowed
  <2>3. CASE script' = Finally(script)
    BY <1>1, <1>5, <2>1, <2>3, StepThrown, RowKept DEF Rowed
  <2> QED BY <1>5, <2>2, <2>3
<1>6. ASSUME CompareRow PROVE Rowed'
  BY <1>5, <1>6 DEF CompareRow, Now, Advance, Same, measureVars, Idle
<1>7. ASSUME Gate PROVE Rowed'
  BY <1>5, <1>7 DEF Gate, Now, Advance, Leave, Same, measureVars, Idle
<1>8. ASSUME LoadSidecar PROVE Rowed'
  BY <1>5, <1>8 DEF LoadSidecar, Now, Advance, Same, measureVars, Idle
<1>9. ASSUME TruncateSidecar PROVE Rowed'
  BY <1>5, <1>9 DEF TruncateSidecar, Now, Advance, Same, measureVars, Idle
<1>10. ASSUME SaveSidecar PROVE Rowed'
  BY <1>5, <1>10 DEF SaveSidecar, Now, Advance, Same, measureVars, Idle
<1>11. ASSUME NeedExact PROVE Rowed'
  BY <1>5, <1>11 DEF NeedExact, Now, Advance, Leave, Same, measureVars, Idle
<1>12. ASSUME CtRow PROVE Rowed'
  BY <1>5, <1>12 DEF CtRow, Now, Advance, Same, measureVars, Idle
<1>13. ASSUME CtOfRoutine PROVE Rowed'
  BY <1>5, <1>13 DEF CtOfRoutine, Now, Advance, Same, measureVars, Idle
<1>14. ASSUME CtVerdict PROVE Rowed'
  BY <1>5, <1>14 DEF CtVerdict, Now, Leave, Same, measureVars, Idle
<1> QED BY <1>2, <1>3, <1>4, <1>6, <1>7, <1>8, <1>9, <1>10, <1>11, <1>12, <1>13, <1>14
           DEF ToolStep

\* The fuzzers report no rows.
LEMMA OtherRows ==
  ASSUME Desk, Fitted, Rowed, tool.tool \notin Reporting, tool' = tool, script # <<>>,
         MachineStep \/ ToolStep
  PROVE  Rowed'
<1>1. /\ Operated /\ RowsExact /\ Prepared'
  BY DEF Rowed, Prepared
<1>2. on \in Backends /\ tool.tool \in {"hazmat", "audit"}
  <2>1. Well(tool) /\ on = tool.on
    BY Cursor
  <2> QED BY <2>1 DEF Well, Tools, Reporting
<1>3. Head(script).op \in Fuzzing \cup Auditing \cup {"end"}
  <2>1. Head(script).op \in Ops(tool.tool)
    BY HereScript
  <2> QED BY <1>2, <2>1 DEF Ops
<1>4. Head(script).op \in {"boot", "load", "speed", "known answer", "fuzz", "result", "vectors",
                           "summary", "end"}
  BY <1>3 DEF Fuzzing, Auditing
<1>5. ASSUME machine' = machine, row' = row PROVE Rowed'
  BY <1>1, <1>5, RowKept DEF Rowed, Operated
<1>6. ASSUME Boot PROVE Rowed'
  <2>1. /\ machine' = [machine EXCEPT !["vice"] = [Cold EXCEPT !.image = prg]] /\ row' = row
    BY <1>6 DEF Boot, measureVars
  <2>2. /\ machine'["vice"].operand = "usual"
        /\ \A b \in Backends : b # "vice" => machine'[b] = machine[b]
    BY <2>1 DEF Fitted, Backends, Cold
  <2>3. Operated'
    BY <1>1, <2>2, RoutinesAre DEF Operated
  <2> QED BY <1>1, <2>1, <2>3, RowKept DEF Rowed
<1>7. ASSUME LoadPrg PROVE Rowed'
  <2> DEFINE m == [Memory EXCEPT !.image = prg]
  <2>1. Remember(m) /\ on' = on /\ row' = row
    BY <1>7 DEF LoadPrg, measureVars
  <2>2. Memory.operand \in Operands /\ m.operand = Memory.operand
    BY <1>1, <1>2 DEF Operated, Memory
  <2> HIDE DEF m
  <2>3. Operated'
    BY <1>1, <1>2, <2>1, <2>2, Remembered
  <2> QED BY <1>1, <2>1, <2>3, RowKept DEF Rowed
<1>8. ASSUME ChangeSpeed PROVE Rowed'
  BY <1>5, <1>8 DEF ChangeSpeed, measureVars
<1>9. ASSUME End PROVE Rowed'
  BY <1>5, <1>9 DEF End, measureVars
<1>10. ~Blank /\ ~InstallWrapper /\ ~CalibrateWrapper /\ ~VerifyWrapper /\ ~SetupRoutine
  BY <1>4 DEF Blank, InstallWrapper, CalibrateWrapper, VerifyWrapper, SetupRoutine, Now
<1>11. ~RunRoutine /\ ~Sample /\ ~Record /\ ~Enter
  BY <1>4 DEF RunRoutine, Sample, Record, Enter, Now
<1>12. ~NeedSymbol /\ ~SkipRow /\ ~CompareRow /\ ~Gate /\ ~Turbo /\ ~LoadSidecar
  BY <1>4 DEF NeedSymbol, SkipRow, CompareRow, Gate, Turbo, LoadSidecar, Now
<1>13. ~TruncateSidecar /\ ~SaveSidecar /\ ~NeedExact /\ ~CtRow /\ ~CtOfRoutine /\ ~CtVerdict
  BY <1>4 DEF TruncateSidecar, SaveSidecar, NeedExact, CtRow, CtOfRoutine, CtVerdict, Now
<1> QED BY <1>6, <1>7, <1>8, <1>9, <1>10, <1>11, <1>12, <1>13 DEF MachineStep, ToolStep

\* A fuzzer's own operations.
LEMMA FuzzRows ==
  ASSUME Desk, Rowed, OnFuzz
  PROVE  Rowed'
<1>1. Operated /\ RowsExact
  BY DEF Rowed
<1>2. script # <<>> /\ UNCHANGED <<tool, machine>>
  BY PlainFuzz
<1>3. Head(script).op \in {"known answer", "fuzz", "result", "vectors", "summary"} /\ row' = row
  BY DEF OnFuzz, CheckGlue, FuzzCategory, Result, Vector, VectorPair, NoVectors, Summary, Now,
         measureVars
<1>4. tool.tool \notin Reporting
  <2>1. Head(script).op \in Ops(tool.tool)
    BY <1>2, HereScript
  <2>2. ASSUME tool.tool \in Reporting PROVE FALSE
    <3>1. Head(script).op \in Measuring \cup Comparing \cup Timing
             \cup {"load sidecar", "save sidecar", "saved", "try", "turbo", "finally", "end"}
      BY <2>1, <2>2 DEF Ops, Reporting, Measuring, Comparing, Timing, Rowing
    <3> QED BY <1>3, <3>1 DEF Measuring, Comparing, Timing, Rowing
  <2> QED BY <2>2
<1> QED BY <1>1, <1>2, <1>3, <1>4, RowKept DEF Rowed, Prepared, Operated

LEMMA InvokeRows ==
  ASSUME Desk, Fitted, Rowed, NEW c \in Commands, Invoke(c)
  PROVE  Rowed'
<1>1. /\ prg' = c.image /\ on' = c.on /\ machine' = [machine EXCEPT !["vice"] = Cold]
      /\ script' = Whole(c) /\ row' = NoRow /\ taken' = 0
  BY DEF Invoke, Whole
<1>2. tool'.tool = c.tool
  BY Invoked
<1>3. RowsExact'
  <2>1. "image" \notin DOMAIN row'
    BY <1>1 DEF NoRow
  <2> QED BY <2>1 DEF RowsExact
<1>4. Operated'
  <2>1. /\ machine'["vice"].operand = "usual"
        /\ \A b \in Backends : b # "vice" => machine'[b] = machine[b]
    BY <1>1 DEF Fitted, Backends, Cold
  <2> QED BY <2>1, RoutinesAre DEF Rowed, Operated
<1>5. ASSUME c.tool \in Reporting
      PROVE  prg' \in Images /\ \E h : Outline(c.tool, script', h) /\ Known(h[0])'
  <2>1. /\ c.on \in Backends /\ (c.tool = "ct" => c.on = "vice")
        /\ c.tool = "turbo" => c.on = "u64" /\ c.speeds \in Seq(Nat)
        /\ c.samples \in Nat \ {0}
    BY <1>5, CommandsAssumption DEF Reporting
  <2>2. Links(c.tool, Whole(c), Start(c), {})
    BY <1>5, <2>1, LinkWhole
  <2>3. PICK h : h[0] \subseteq Start(c) /\ Outline(c.tool, Whole(c), h)
    BY <2>2 DEF Links
  <2>4. Known(Start(c))'
    <3> DEFINE q == Start(c)
    <3>1. /\ {Booted, Installed, Calibrated, Tuned} \cap q = {}
          /\ \A n : LengthIs(n) \notin q
          /\ Slow \in q \/ OnVice \in q => c.on # "u64"
      BY FactsDiffer DEF Start, Steady
    <3>2. Slow \in q \/ OnVice \in q => Clock' = 1 /\ on' = "vice"
      <4>1. c.on # "u64" => c.on = "vice"
        BY <2>1 DEF Backends
      <4> HIDE DEF q
      <4> QED BY <1>1, <3>1, <4>1 DEF Clock
    <3>3. \A f \in {Booted, Installed, Calibrated, Tuned} : f \notin q
      BY <3>1
    <3> HIDE DEF q
    <3>4. Known(q)'
      BY <1>1, <3>1, <3>2, <3>3 DEF Known
    <3> QED BY <3>4 DEF q
  <2>5. Known(h[0])'
    BY <2>3, <2>4, KnownNext
  <2>6. prg' \in Images
    BY <1>1 DEF Images
  <2> QED BY <1>1, <2>3, <2>5, <2>6
<1>6. Prepared'
  <2>1. ASSUME tool'.tool \in Reporting
        PROVE  prg' \in Images /\ \E h : Outline(tool.tool, script, h)' /\ Known(h[0])'
    <3>1. PICK h : Outline(c.tool, script', h) /\ Known(h[0])'
      BY <1>2, <1>5, <2>1
    <3>2. Outline(tool.tool, script, h)'
      BY <1>2, <3>1
    <3> QED BY <1>2, <1>5, <2>1, <3>1, <3>2
  <2> QED BY <2>1 DEF Prepared
<1> QED BY <1>3, <1>4, <1>6 DEF Rowed

\* Ctrl-C, kill -9, and someone else's session.
LEMMA EndRows ==
  ASSUME Desk, Rowed, Interrupt \/ Kill \/ Neighbour
  PROVE  Rowed'
<1>1. Prepared /\ Operated /\ RowsExact
  BY DEF Rowed
<1>2. UNCHANGED <<prg, machine, tool, row>> /\ (tool.tool \in Reporting => prg \in Images)
  <2>1. UNCHANGED <<prg, machine, tool, row>>
    BY DEF Interrupt, Kill, Neighbour, Same, Working, measureVars
  <2> QED BY <1>1, <2>1 DEF Prepared
<1>3. RowsExact' /\ Operated'
  BY <1>1, <1>2, RowKept DEF Operated
<1>4. CASE Interrupt
  <2>1. script # <<>> /\ script' = Finally(script)
    BY <1>4 DEF Interrupt, Leave
  <2>2. CASE tool.tool \in Reporting
    BY <1>1, <1>2, <1>3, <2>1, <2>2, StepThrown DEF Rowed
  <2>3. CASE tool.tool \notin Reporting
    BY <1>2, <1>3, <2>3 DEF Rowed, Prepared
  <2> QED BY <2>2, <2>3
<1>5. CASE Kill \/ Neighbour
  <2>1. script' = <<>>
    BY <1>5 DEF Kill, Neighbour
  <2>2. Prepared'
    BY <1>2, <2>1, PreparedEmpty
  <2> QED BY <1>3, <2>2 DEF Rowed
<1> QED BY <1>4, <1>5

LEMMA RowedStep ==
  ASSUME Desk, Fitted, Rowed, Next
  PROVE  Rowed'
<1>1. ASSUME OnMachine \/ OnTool PROVE Rowed'
  <2>1. MachineStep \/ ToolStep
    BY <1>1 DEF OnMachine, OnTool
  <2>2. tool' = tool
    BY <1>1 DEF OnMachine, OnTool, Working
  <2>3. script # <<>>
    <3>1. ASSUME OnMachine PROVE script # <<>>
      BY <3>1, PlainMachine DEF OnMachine
    <3>2. ASSUME OnTool PROVE script # <<>>
      BY <3>2, PlainTool DEF OnTool
    <3> QED BY <1>1, <3>1, <3>2
  <2> QED BY <2>1, <2>2, <2>3, MachineRows, ToolRows, OtherRows
<1>2. ASSUME OnFuzz PROVE Rowed'
  BY <1>2, FuzzRows
<1>3. ASSUME Interrupt \/ Kill \/ Neighbour PROVE Rowed'
  BY <1>3, EndRows
<1>4. ASSUME NEW c \in Commands, Invoke(c) PROVE Rowed'
  BY <1>4, InvokeRows
<1> QED BY <1>1, <1>2, <1>3, <1>4 DEF Next

LEMMA RowedAlways == Spec => []Rowed
<1>1. Init => Rowed
  <2> SUFFICES ASSUME Init PROVE Rowed
    OBVIOUS
  <2>1. tool = [tool |-> "none", before |-> 1] /\ machine = [b \in Backends |-> Cold] /\ row = NoRow
    BY DEF Init
  <2>2. tool.tool \notin Reporting
    BY <2>1 DEF Reporting
  <2>3. "image" \notin DOMAIN row
    BY <2>1 DEF NoRow
  <2>4. Operated
    BY <2>1, RoutinesAre DEF Operated, Cold
  <2> QED BY <2>2, <2>3, <2>4 DEF Rowed, Prepared, RowsExact
<1>2. LabInv /\ Rowed /\ [Next]_vars => Rowed'
  <2> SUFFICES ASSUME LabInv, Rowed, [Next]_vars PROVE Rowed'
    OBVIOUS
  <2>1. Desk /\ Fitted
    BY DEF LabInv
  <2>2. CASE Next
    BY <2>1, <2>2, RowedStep
  <2>3. CASE UNCHANGED vars
    <3>1. UNCHANGED <<prg, machine, speed, on, script, calib, taken, best, row, tool>>
      BY <2>3 DEF vars, machineVars, measureVars
    <3>2. RowsExact' /\ Operated'
      BY <3>1, RowKept DEF Rowed, Operated
    <3>3. Prepared'
      <4>1. ASSUME NEW p, Known(p) PROVE Known(p)'
        <5>1. Clock' = Clock /\ Memory' = Memory
          BY <3>1 DEF Clock, Memory
        <5>2. \A x, b : Fits(x, b) => Fits(x, b)'
          BY <3>1, <5>1 DEF Fits, Near, TrueCycles
        <5>3. Now("measure") => Now("measure")'
          BY <3>1 DEF Now
        <5> QED BY <3>1, <4>1, <5>1, <5>2, <5>3 DEF Known
      <4>2. CASE tool.tool \in Reporting
        <5>1. PICK h : Outline(tool.tool, script, h) /\ Known(h[0]) /\ prg \in Images
          BY <4>2 DEF Rowed, Prepared
        <5>2. Outline(tool.tool, script, h)' /\ Known(h[0])'
          BY <3>1, <4>1, <5>1
        <5> QED BY <3>1, <5>1, <5>2 DEF Prepared
      <4>3. CASE tool.tool \notin Reporting
        BY <3>1, <4>3 DEF Prepared
      <4> QED BY <4>2, <4>3
    <3> QED BY <3>2, <3>3 DEF Rowed
  <2> QED BY <2>2, <2>3
<1> QED BY <1>1, <1>2, LabAlways, PTL DEF Spec

\* Every row that a tool reports is what that routine of the build on disk
\* takes, for a call of that length that succeeds, at the speed reported and
\* to within the jitter of one run: whatever the samples before it left in
\* memory, in both timers, whatever others left set on the Ultimate 64, for
\* every build, list of lengths, sample count, and order of the sessions
\* (measure, run_sweep, _run_vice, _run_u64, bench_turbo_sweep.run_sweep).
THEOREM RowsTrue == Spec => []RowsExact
<1>1. Rowed => RowsExact
  BY DEF Rowed
<1> QED BY <1>1, RowedAlways, PTL

-----------------------------------------------------------------------------
(* Scripts as walks.                                                        *)

LEMMA WalkOne ==
  ASSUME NEW cmd, NEW a, NEW x, NEW b, Moves(cmd, a, x, b)
  PROVE  Walk(cmd, <<x>>, a, b)
<1> DEFINE s == <<x>>  h == [i \in 0 .. 1 |-> IF i = 0 THEN a ELSE b]
<1> DEFINE P == {x.op}
<1>1. x.op \in P
  OBVIOUS
<1>2. IsScript(s, P) /\ Len(s) = 1 /\ s[1] = x /\ h[0] = a /\ h[1] = b
  BY <1>1, ScriptOne
<1> HIDE DEF s, h
<1>3. \A i \in 1 .. Len(s) : Moves(cmd, h[i - 1], s[i], h[i])
  <2> TAKE i \in 1 .. Len(s)
  <2>1. i = 1 /\ i - 1 = 0
    BY <1>2
  <2> QED BY <1>2, <2>1
<1> QED BY <1>2, <1>3 DEF Walk, s

LEMMA WalkNone ==
  ASSUME NEW cmd, NEW a
  PROVE  Walk(cmd, <<>>, a, a)
<1> DEFINE s == <<>>  h == [i \in 0 .. 0 |-> a]
<1>1. IsScript(s, {}) /\ Len(s) = 0
  <2>1. <<>> \in Seq({})
    BY EmptySeq
  <2> QED BY <2>1, EmptySeq DEF IsScript
<1>2. h[0] = a
  OBVIOUS
<1> HIDE DEF s, h
<1>3. \A i \in 1 .. Len(s) : Moves(cmd, h[i - 1], s[i], h[i])
  BY <1>1
<1> QED BY <1>1, <1>2, <1>3 DEF Walk, s

LEMMA WalkJoin ==
  ASSUME NEW cmd, NEW s, NEW t, NEW a, NEW b, NEW c, Walk(cmd, s, a, b), Walk(cmd, t, b, c)
  PROVE  Walk(cmd, s \o t, a, c)
<1> DEFINE u == s \o t  n == Len(s)  m == Len(t)
<1>1. PICK f : f[0] = a /\ f[n] = b /\ \A i \in 1 .. n : Moves(cmd, f[i - 1], s[i], f[i])
  BY DEF Walk
<1>2. PICK g : g[0] = b /\ g[m] = c /\ \A i \in 1 .. m : Moves(cmd, g[i - 1], t[i], g[i])
  BY DEF Walk
<1>a. PICK A : IsScript(s, A)
  BY DEF Walk
<1>b. PICK B : IsScript(t, B)
  BY DEF Walk
<1> DEFINE P == A \cup B
<1>3. IsScript(s, P) /\ IsScript(t, P)
  BY <1>a, <1>b, ScriptMore
<1> HIDE DEF P
<1>4. IsScript(u, P) /\ Joins(u, s, t) /\ n \in Nat /\ m \in Nat
  BY <1>3, ScriptJoin, ScriptAt
<1>5. /\ Len(u) = n + m
      /\ \A i \in 1 .. n : u[i] = s[i]
      /\ \A i \in 1 .. m : u[n + i] = t[i]
  BY <1>4 DEF Joins
<1> HIDE DEF u, n, m
<1>c. PICK h : Along(h, f, g, n, m)
  BY <1>4, GoAlong
<1>6. \A i \in 0 .. n : h[i] = f[i]
  <2> TAKE i \in 0 .. n
  <2>1. i \in 0 .. n - 1 \/ (i = n + 0 /\ i = n /\ 0 \in 0 .. m)
    BY <1>4
  <2> QED BY <1>1, <1>2, <1>c, <2>1 DEF Along
<1>7. \A i \in 0 .. m : h[n + i] = g[i]
  BY <1>c DEF Along
<1>8. h[0] = a /\ h[n + m] = c
  <2>1. 0 \in 0 .. n /\ m \in 0 .. m
    BY <1>4
  <2> QED BY <1>1, <1>2, <1>6, <1>7, <2>1
<1>9. ASSUME NEW i \in 1 .. n + m PROVE Moves(cmd, h[i - 1], u[i], h[i])
  <2>1. CASE i \in 1 .. n
    <3>1. i - 1 \in 0 .. n /\ i \in 0 .. n
      BY <1>4, <2>1
    <3> QED BY <1>1, <1>5, <1>6, <2>1, <3>1
  <2>2. CASE i \notin 1 .. n
    <3> DEFINE j == i - n
    <3>1. j \in 1 .. m /\ i = n + j /\ i - 1 = n + (j - 1) /\ j - 1 \in 0 .. m /\ j \in 0 .. m
      BY <1>4, <2>2
    <3> HIDE DEF j
    <3>2. h[i - 1] = g[j - 1] /\ h[i] = g[j] /\ u[i] = t[j]
      BY <1>5, <1>7, <3>1
    <3> QED BY <1>2, <3>1, <3>2
  <2> QED BY <2>1, <2>2
<1> QED BY <1>4, <1>5, <1>8, <1>9 DEF Walk, u

LEMMA WalksJoin ==
  ASSUME NEW cmd
  PROVE  \A s, t, a, b, c : Walk(cmd, s, a, b) /\ Walk(cmd, t, b, c) => Walk(cmd, s \o t, a, c)
BY WalkJoin

\* Walks from each position of v to the next, joined.
LEMMA WalkFlat ==
  ASSUME NEW cmd, NEW n \in Nat, NEW g, g = [i \in 1 .. n |-> g[i]], NEW v,
         \A i \in 1 .. n : Walk(cmd, g[i], v[i - 1], v[i])
  PROVE  Walk(cmd, FlattenSeq(g), v[0], v[n])
<1>1. CASE n = 0
  <2>1. FlattenSeq(g) = <<>>
    BY <1>1, FlatNone
  <2> QED BY <1>1, <2>1, WalkNone
<1>2. CASE n > 0
  <2>1. \A i \in 1 .. n : \E V : g[i] \in Seq(V)
    BY DEF Walk, IsScript
  <2>2. PICK S : Over(S, g, n)
    BY <2>1, OneSet
  <2>3. PICK f : Joined(n, g, f)
    BY <1>2, <2>2, FlatSteps DEF Over
  <2> DEFINE U == {i \in Nat : i \in 1 .. n => Walk(cmd, f[i], v[0], v[i])}
  <2>4. 0 \in U
    OBVIOUS
  <2>5. ASSUME NEW i \in Nat, i \in U PROVE i + 1 \in U
    <3> SUFFICES ASSUME i + 1 \in 1 .. n PROVE Walk(cmd, f[i + 1], v[0], v[i + 1])
      OBVIOUS
    <3>1. Walk(cmd, g[i + 1], v[i], v[i + 1])
      <4>1. (i + 1) - 1 = i
        OBVIOUS
      <4> QED BY <4>1
    <3>2. CASE i = 0
      BY <2>3, <3>1, <3>2 DEF Joined
    <3>3. CASE i # 0
      <4>1. i \in 1 .. n /\ i + 1 # 1 /\ (i + 1) - 1 = i
        BY <3>3
      <4>2. f[i + 1] = f[i] \o g[i + 1] /\ Walk(cmd, f[i], v[0], v[i])
        BY <2>3, <2>5, <4>1 DEF Joined
      <4> QED BY <3>1, <4>2, WalkJoin
    <3> QED BY <3>2, <3>3
  <2>6. n \in U
    <3> HIDE DEF U
    <3> QED BY <2>4, <2>5, NatSetInduction
  <2>7. n \in 1 .. n
    BY <1>2
  <2> QED BY <2>3, <2>6, <2>7 DEF Joined
<1> QED BY <1>1, <1>2

\* The first operation of a walk, and what is left.
LEMMA WalkHead ==
  ASSUME NEW cmd, NEW s, NEW a, NEW b, Walk(cmd, s, a, b), s # <<>>
  PROVE  \E c : Moves(cmd, a, Head(s), c) /\ Walk(cmd, Tail(s), c, b)
<1> DEFINE n == Len(s)  t == Tail(s)
<1>1. PICK h : h[0] = a /\ h[n] = b /\ \A i \in 1 .. n : Moves(cmd, h[i - 1], s[i], h[i])
  BY DEF Walk
<1>2. PICK P, S : s \in Seq(S) /\ \A x \in S : x.op \in P
  BY DEF Walk, IsScript
<1>3. n \in Nat /\ n # 0
  BY <1>2, LenProperties, EmptySeq
<1>4. Head(s) = s[1] /\ t \in Seq(S) /\ Len(t) = n - 1 /\ \A i \in 1 .. n - 1 : t[i] = s[i + 1]
  BY <1>2, HeadTailProperties
<1> HIDE DEF n, t
<1>5. Moves(cmd, a, Head(s), h[1])
  <2>1. 1 \in 1 .. n /\ 1 - 1 = 0
    BY <1>3
  <2> QED BY <1>1, <1>4, <2>1
<1> DEFINE g == [i \in 0 .. n - 1 |-> h[i + 1]]
<1>6. g[0] = h[1] /\ g[n - 1] = b
  <2>1. 0 \in 0 .. n - 1 /\ n - 1 \in 0 .. n - 1 /\ 0 + 1 = 1 /\ (n - 1) + 1 = n
    BY <1>3
  <2> QED BY <1>1, <2>1
<1>7. ASSUME NEW i \in 1 .. n - 1 PROVE Moves(cmd, g[i - 1], t[i], g[i])
  <2>1. /\ i - 1 \in 0 .. n - 1 /\ i \in 0 .. n - 1 /\ i + 1 \in 1 .. n
        /\ (i - 1) + 1 = i /\ (i + 1) - 1 = i
    BY <1>3
  <2>2. g[i - 1] = h[i] /\ g[i] = h[i + 1] /\ t[i] = s[i + 1]
    BY <1>4, <2>1
  <2> HIDE DEF g
  <2>3. Moves(cmd, h[(i + 1) - 1], s[i + 1], h[i + 1])
    BY <1>1, <2>1
  <2> QED BY <2>1, <2>2, <2>3
<1>8. IsScript(t, P)
  BY <1>2, <1>4 DEF IsScript
<1> HIDE DEF g
<1>9. Walk(cmd, t, h[1], b)
  BY <1>4, <1>6, <1>7, <1>8 DEF Walk
<1> QED BY <1>5, <1>9 DEF t

\* A walk that gets somewhere has a first operation.
LEMMA WalkOn ==
  ASSUME NEW cmd, NEW s, NEW a, NEW b, Walk(cmd, s, a, b), a # b
  PROVE  s # <<>>
<1> SUFFICES ASSUME s = <<>> PROVE FALSE
  OBVIOUS
<1>1. PICK h : h[0] = a /\ h[Len(s)] = b
  BY DEF Walk
<1>2. Len(s) = 0
  BY EmptySeq
<1> QED BY <1>1, <1>2

(* The constant-time check.                                                 *)

LEMMA CtMoved ==
  ASSUME NEW c, c.tool = "ct", NEW p, NEW x, NEW q
  PROVE  Moves(c, p, x, q) <=> CtMoves(c.samples, p, x, q)
BY DEF Moves

LEMMA CtRoutineWalk ==
  ASSUME NEW cmd, cmd.tool = "ct", NEW r \in 1 .. Len(CtRoutines)
  PROVE  Walk(cmd, CtRoutine(CtRoutines[r], cmd.samples), <<"class", r, 0>>,
              <<"class", r + 1, 0>>)
<1> DEFINE n == Len(Classes)
           x(k) == Measure(CtRoutines[r], 0, cmd.samples, TRUE, 1, Classes[k])[1]
           y == [op |-> "ct row"]  z == [op |-> "ct routine"]
           class(k) == <<x(k)>> \o <<y>>
           g == [k \in 1 .. n |-> class(k)]  v == [k \in 0 .. n |-> <<"class", r, k>>]
<1>1. n \in Nat /\ DOMAIN Classes = 1 .. n
  BY RoutinesAre
<1>2. CtRoutine(CtRoutines[r], cmd.samples) = FlattenSeq(g) \o <<z>>
  BY <1>1 DEF CtRoutine, Cat, Measure, Do
<1>3. /\ \A k \in 1 .. n : /\ Moves(cmd, <<"class", r, k - 1>>, x(k), <<"row", r, k>>)
                           /\ Moves(cmd, <<"row", r, k>>, y, <<"class", r, k>>)
      /\ Moves(cmd, <<"class", r, n>>, z, <<"class", r + 1, 0>>)
  <2> DEFINE m == cmd.samples
  <2>1. ASSUME NEW k \in 1 .. n PROVE CtMoves(m, <<"class", r, k - 1>>, x(k), <<"row", r, k>>)
    <3>1. /\ r \in 1 .. Len(CtRoutines) /\ k \in 1 .. Len(Classes)
          /\ x(k) = Measure(CtRoutines[r], 0, m, TRUE, 1, Classes[k])[1]
      OBVIOUS
    <3> HIDE DEF x, m
    <3> QED BY <3>1 DEF CtMoves
  <2>2. ASSUME NEW k \in 1 .. n PROVE CtMoves(m, <<"row", r, k>>, y, <<"class", r, k>>)
    BY DEF CtMoves
  <2>3. CtMoves(m, <<"class", r, n>>, z, <<"class", r + 1, 0>>)
    BY DEF CtMoves
  <2> HIDE DEF x, y, z, n
  <2> QED BY <2>1, <2>2, <2>3, CtMoved
<1> HIDE DEF x, y, z, n
<1>4. ASSUME NEW k \in 1 .. n PROVE Walk(cmd, class(k), v[k - 1], v[k])
  <2>1. Walk(cmd, <<x(k)>>, <<"class", r, k - 1>>, <<"row", r, k>>)
    BY <1>3, WalkOne
  <2>2. Walk(cmd, <<y>>, <<"row", r, k>>, <<"class", r, k>>)
    BY <1>3, WalkOne
  <2>3. Walk(cmd, class(k), <<"class", r, k - 1>>, <<"class", r, k>>)
    BY <2>1, <2>2, WalkJoin
  <2>4. v[k - 1] = <<"class", r, k - 1>> /\ v[k] = <<"class", r, k>>
    <3>1. k - 1 \in 0 .. n /\ k \in 0 .. n
      BY <1>1
    <3> QED BY <3>1
  <2> HIDE DEF class, v
  <2> QED BY <2>3, <2>4
<1>5. v[0] = <<"class", r, 0>> /\ v[n] = <<"class", r, n>>
  BY <1>1
<1> HIDE DEF class, v
<1>6. g = [k \in 1 .. n |-> g[k]] /\ \A k \in 1 .. n : Walk(cmd, g[k], v[k - 1], v[k])
  BY <1>4
<1> HIDE DEF g
<1>7. Walk(cmd, FlattenSeq(g), v[0], v[n])
  BY <1>1, <1>6, WalkFlat
<1>8. Walk(cmd, <<z>>, <<"class", r, n>>, <<"class", r + 1, 0>>)
  BY <1>3, WalkOne
<1>9. Walk(cmd, FlattenSeq(g) \o <<z>>, <<"class", r, 0>>, <<"class", r + 1, 0>>)
  BY <1>5, <1>7, <1>8, WalkJoin
<1> QED BY <1>2, <1>9

LEMMA CtWalk ==
  ASSUME NEW cmd, cmd.tool = "ct"
  PROVE  Walk(cmd, Whole(cmd), Spot("boot"), Spot("gone"))
<1> DEFINE n == Len(CtRoutines)
           routine(r) == CtRoutine(CtRoutines[r], cmd.samples)  g == [r \in 1 .. n |-> routine(r)]
           v == [r \in 0 .. n |-> <<"class", r + 1, 0>>]  all == FlattenSeq(g)
           a == [op |-> "boot"]  b == [op |-> "blank"]  d == [op |-> "install"]
           e == [op |-> "calibrate", samples |-> 10]  f == [op |-> "exact"]
           h == [op |-> "run", routine |-> "poly1305_lib_init"]
           j == [op |-> "ct verdict"]  k == [op |-> "end"]
<1>1. n \in Nat /\ DOMAIN CtRoutines = 1 .. n
  BY RoutinesAre
<1>2. Whole(cmd) = <<a>> \o <<b>> \o <<d>> \o <<e>> \o <<f>> \o <<h>> \o all \o <<j>> \o <<k>>
  BY <1>1 DEF Whole, Script, CtChecks, Cat, Do, Calibrate, Run
<1>3. /\ Moves(cmd, Spot("boot"), a, Spot("blank"))
      /\ Moves(cmd, Spot("blank"), b, Spot("install"))
      /\ Moves(cmd, Spot("install"), d, Spot("calibrate"))
      /\ Moves(cmd, Spot("calibrate"), e, Spot("exact"))
      /\ Moves(cmd, Spot("exact"), f, Spot("run"))
      /\ Moves(cmd, Spot("run"), h, <<"class", 1, 0>>)
      /\ Moves(cmd, <<"class", n + 1, 0>>, j, Spot("over"))
      /\ Moves(cmd, Spot("over"), k, Spot("gone"))
  <2>1. /\ a.op = "boot" /\ b.op = "blank" /\ d.op = "install" /\ e.op = "calibrate"
        /\ f.op = "exact" /\ h.op = "run" /\ j.op = "ct verdict" /\ k.op = "end"
    OBVIOUS
  <2> HIDE DEF a, b, d, e, f, h, j, k
  <2> QED BY <2>1, CtMoved DEF CtMoves
<1>4. ASSUME NEW r \in 1 .. n PROVE Walk(cmd, routine(r), v[r - 1], v[r])
  <2>1. v[r - 1] = <<"class", r, 0>> /\ v[r] = <<"class", r + 1, 0>>
    <3>1. r - 1 \in 0 .. n /\ r \in 0 .. n /\ (r - 1) + 1 = r
      BY <1>1
    <3> QED BY <3>1
  <2> HIDE DEF v
  <2> QED BY <2>1, CtRoutineWalk
<1>5. v[0] = <<"class", 1, 0>> /\ v[n] = <<"class", n + 1, 0>>
  BY <1>1
<1> HIDE DEF routine, n, v
<1>6. Walk(cmd, all, <<"class", 1, 0>>, <<"class", n + 1, 0>>)
  <2>1. g = [r \in 1 .. n |-> g[r]] /\ \A r \in 1 .. n : Walk(cmd, g[r], v[r - 1], v[r])
    BY <1>4
  <2> HIDE DEF g
  <2>2. Walk(cmd, all, v[0], v[n])
    BY <1>1, <2>1, WalkFlat
  <2> QED BY <1>5, <2>2
<1> HIDE DEF a, b, d, e, f, h, j, k, all
<1>7. /\ Walk(cmd, <<a>>, Spot("boot"), Spot("blank"))
      /\ Walk(cmd, <<b>>, Spot("blank"), Spot("install"))
      /\ Walk(cmd, <<d>>, Spot("install"), Spot("calibrate"))
      /\ Walk(cmd, <<e>>, Spot("calibrate"), Spot("exact"))
      /\ Walk(cmd, <<f>>, Spot("exact"), Spot("run"))
      /\ Walk(cmd, <<h>>, Spot("run"), <<"class", 1, 0>>)
      /\ Walk(cmd, <<j>>, <<"class", n + 1, 0>>, Spot("over"))
      /\ Walk(cmd, <<k>>, Spot("over"), Spot("gone"))
  BY <1>3, WalkOne
<1> QED BY <1>2, <1>6, <1>7, WalksJoin

LEMMA TimedHere ==
  ASSUME Timed, tool.tool = "ct", script # <<>>
  PROVE  /\ outcome = "running" /\ on = "vice"
         /\ \E p, q : /\ Walk(tool, script, p, Spot("gone")) /\ CtKnown(p)
                      /\ CtMoves(tool.samples, p, Head(script), q)
                      /\ Walk(tool, Tail(script), q, Spot("gone"))
<1>1. PICK p : Walk(tool, script, p, Spot("gone")) /\ CtKnown(p)
  BY DEF Timed
<1>2. PICK q : Moves(tool, p, Head(script), q) /\ Walk(tool, Tail(script), q, Spot("gone"))
  BY <1>1, WalkHead
<1>3. CtMoves(tool.samples, p, Head(script), q)
  BY <1>2, CtMoved
<1> QED BY <1>1, <1>2, <1>3 DEF Timed

LEMMA TimedOn ==
  ASSUME tool.tool = "ct", UNCHANGED <<tool, on>>, on = "vice", outcome' = "running",
         NEW q, Walk(tool, script', q, Spot("gone")), CtKnown(q)'
  PROVE  Timed'
<1>1. Walk(tool, script, q, Spot("gone"))'
  OBVIOUS
<1> QED BY <1>1 DEF Timed

LEMMA TimedOver ==
  ASSUME UNCHANGED <<tool, on>>, Timed, script' = <<>>, outcome' # "ct"
  PROVE  Timed'
BY DEF Timed

LEMMA CtOps ==
  ASSUME NEW samples, NEW p, NEW x, NEW q, CtMoves(samples, p, x, q)
  PROVE  /\ x.op \in {"boot", "blank", "install", "calibrate", "exact", "run", "measure", "ct row",
                      "ct routine", "ct verdict", "end"}
         /\ CtOpened(p, x.op, q) /\ CtClassed(samples, p, x, q)
<1>1. \A r, k : Measure(CtRoutines[r], 0, samples, TRUE, 1, Classes[k])[1].op = "measure"
  BY DEF Measure
<1>2. x.op \in {"boot", "blank", "install", "calibrate", "exact", "run", "measure", "ct row",
                "ct routine", "ct verdict", "end"}
  BY <1>1 DEF CtMoves
<1>3. CtOpened(p, x.op, q)
  BY <1>1 DEF CtMoves, CtOpened
<1>4. CtClassed(samples, p, x, q)
  BY <1>1 DEF CtMoves, CtClassed
<1> QED BY <1>2, <1>3, <1>4

LEMMA TimedOpening ==
  ASSUME Desk, Prepared, Timed, tool.tool = "ct", tool' = tool, script # <<>>, UNCHANGED toolVars,
         Boot \/ Blank \/ InstallWrapper \/ CalibrateWrapper \/ RunRoutine
  PROVE  Timed'
<1>1. PICK p, q : /\ Walk(tool, script, p, Spot("gone")) /\ CtKnown(p)
                  /\ CtMoves(tool.samples, p, Head(script), q)
                  /\ Walk(tool, Tail(script), q, Spot("gone"))
  BY TimedHere
<1>2. outcome = "running" /\ on = "vice" /\ ct' = ct
  BY TimedHere DEF toolVars
<1>x. PICK x : x = Head(script)
  OBVIOUS
<1>o. /\ x.op = "boot" => p = Spot("boot") /\ q = Spot("blank")
      /\ x.op = "blank" => p = Spot("blank") /\ q = Spot("install")
      /\ x.op = "install" => p = Spot("install") /\ q = Spot("calibrate")
      /\ x.op = "calibrate" => p = Spot("calibrate") /\ q = Spot("exact")
      /\ x.op = "run" => p = Spot("run") /\ q = <<"class", 1, 0>>
  <2>1. CtMoves(tool.samples, p, x, q)
    BY <1>1, <1>x
  <2>2. CtOpened(p, x.op, q)
    BY <2>1, CtOps
  <2> QED BY <2>2 DEF CtOpened
<1>3. CASE Boot
  <2>a. Head(script).op = "boot"
    BY <1>3 DEF Boot, Now
  <2>1. p = Spot("boot") /\ q = Spot("blank")
    BY <1>o, <1>x, <2>a
  <2>2. script' = Tail(script) /\ UNCHANGED <<on, outcome, taken>>
    BY <1>3 DEF Boot, Advance, measureVars
  <2>3. CtKnown(q)'
    BY <1>1, <1>2, <2>1, <2>2 DEF CtKnown, Spot
  <2> QED BY <1>1, <1>2, <2>2, <2>3, TimedOn
<1>4. CASE Blank
  <2>a. Head(script).op = "blank"
    BY <1>4 DEF Blank, Now
  <2>1. p = Spot("blank") /\ q = Spot("install")
    BY <1>o, <1>x, <2>a
  <2>2. script' = Tail(script) /\ UNCHANGED <<on, outcome, taken>> /\ blank'
    BY <1>4 DEF Blank, Advance, measureVars
  <2>3. CtKnown(q)'
    BY <1>1, <1>2, <2>1, <2>2 DEF CtKnown, Spot
  <2> QED BY <1>1, <1>2, <2>2, <2>3, TimedOn
<1>5. CASE InstallWrapper
  <2>a. Head(script).op = "install"
    BY <1>5 DEF InstallWrapper, Now
  <2>1. p = Spot("install") /\ q = Spot("calibrate")
    BY <1>o, <1>x, <2>a
  <2>2. UNCHANGED <<on, blank, taken>>
    BY <1>5 DEF InstallWrapper, measureVars
  <2>3. CASE script' = Tail(script) /\ outcome' = outcome
    <3>1. CtKnown(q)'
      BY <1>1, <1>2, <2>1, <2>2 DEF CtKnown, Spot
    <3> QED BY <1>1, <1>2, <2>2, <2>3, <3>1, TimedOn
  <2>4. CASE script' = Finally(script) /\ outcome' = "no wrapper"
    <3>1. script' = <<>>
      BY <2>4, Leaving
    <3> QED BY <2>2, <2>4, <3>1, TimedOver
  <2> QED BY <1>5, <2>3, <2>4 DEF InstallWrapper, Advance, Leave
<1>6. CASE CalibrateWrapper
  <2>a. Head(script).op = "calibrate"
    BY <1>6 DEF CalibrateWrapper, Now
  <2>1. p = Spot("calibrate") /\ q = Spot("exact") /\ Head(script).op = "calibrate"
    BY <1>o, <1>x, <2>a
  <2>2. script' = Tail(script) /\ UNCHANGED <<on, outcome, blank, taken>>
    BY <1>6 DEF CalibrateWrapper, Advance
  <2>3. blank /\ taken = 0 /\ ct = NoClasses
    BY <1>1, <2>1 DEF CtKnown, Spot
  <2>4. Noise = {0} /\ Clock = 1
    BY <1>2, <2>3 DEF Noise, Clock
  <2>5. calib'.over = Reading(0, 0) /\ calib'.spread = Reading(0, 0) - Reading(0, 0)
    <3>1. PICK least \in Noise, most \in Noise :
            calib' = [over |-> Reading(0, least), spread |-> Reading(0, most) - Reading(0, least),
                      samples |-> Head(script).samples]
      BY <1>6 DEF CalibrateWrapper
    <3>2. least = 0 /\ most = 0
      BY <2>4
    <3> QED BY <3>1, <3>2
  <2>6. Memory.wrapper = "good"
    <3>1. tool.tool \in Reporting
      BY DEF Reporting
    <3>2. PICK h : Known(h[0]) /\ Needs(tool.tool, Head(script), h[0])
      BY <3>1, Stands
    <3> QED BY <2>1, <3>2 DEF Needs, Known
  <2>7. Reading(0, 0) = WrapperCycles /\ WrapperCycles \in Int
    <3> DEFINE square == W * W
    <3>1. WrapperCycles \in Nat /\ StubCycles \in Nat /\ Jitter \in Nat /\ square \in Int
          /\ WrapperCycles + StubCycles + Jitter < square
      BY TimerAssumption, Z3
    <3>2. 0 \in 0 .. Jitter /\ Clock \in Nat \ {0} /\ 0 \in Nat
      BY <2>4, <3>1
    <3> HIDE DEF square
    <3>3. WrapperCycles + 0 + Jitter < square
      BY <3>1
    <3>4. Reading(0, 0) = (WrapperCycles + 0) \div Clock + 0
      BY <2>6, <3>2, <3>3, ReadingAt DEF square
    <3>5. (WrapperCycles + 0) \div 1 + 0 = WrapperCycles
      BY <3>1
    <3> QED BY <2>4, <3>1, <3>4, <3>5
  <2>8. CtKnown(q)'
    BY <1>2, <2>1, <2>2, <2>3, <2>5, <2>7 DEF CtKnown, Spot
  <2> QED BY <1>1, <1>2, <2>2, <2>8, TimedOn
<1>7. CASE RunRoutine
  <2>a. Head(script).op = "run"
    BY <1>7 DEF RunRoutine, Now
  <2>1. p = Spot("run") /\ q = <<"class", 1, 0>>
    BY <1>o, <1>x, <2>a
  <2>2. script' = Tail(script) /\ UNCHANGED <<on, outcome, blank, taken, calib, prg>>
    BY <1>7 DEF RunRoutine, Advance, measureVars
  <2>3. blank /\ taken = 0 /\ ct = NoClasses /\ calib.over = WrapperCycles /\ calib.spread = 0
    BY <1>1, <2>1 DEF CtKnown, Spot
  <2>4. {CtTime(1, i)' : i \in 1 .. 0} = {} /\ Verdict(1)' = 0
    BY DEF Verdict
  <2>5. ct' = [mins |-> {CtTime(1, i)' : i \in 1 .. 0}, noisy |-> FALSE, rc |-> Verdict(1)']
    BY <1>2, <2>3, <2>4 DEF NoClasses
  <2>6. CtKnown(q)'
    BY <2>1, <2>2, <2>3, <2>5 DEF CtKnown
  <2> QED BY <1>1, <1>2, <2>2, <2>6, TimedOn
<1> QED BY <1>3, <1>4, <1>5, <1>6, <1>7

LEMMA CtRoutinesAre ==
  \A r \in 1 .. Len(CtRoutines) :
    CtRoutines[r] \in {"poly1305_multiply", "poly1305_final", "chacha20_block", "aead_encrypt",
                       "auth fail"}
<1>1. Len(CtRoutines) = 5
  BY DEF CtRoutines
<1>2. /\ CtRoutines[1] = "poly1305_multiply" /\ CtRoutines[2] = "poly1305_final"
      /\ CtRoutines[3] = "chacha20_block" /\ CtRoutines[4] = "aead_encrypt"
      /\ CtRoutines[5] = "auth fail"
  BY DEF CtRoutines
<1>3. \A r \in 1 .. 5 : r = 1 \/ r = 2 \/ r = 3 \/ r = 4 \/ r = 5
  OBVIOUS
<1> QED BY <1>1, <1>2, <1>3

\* A sample of the k-th class of the r-th routine runs on an operand of that
\* class, whatever is in memory.
LEMMA CtCost ==
  ASSUME NEW r \in 1 .. Len(CtRoutines), NEW k \in 1 .. Len(Classes), NEW x,
         x.routine = CtRoutines[r], x.n = 0, x.operand = Classes[k],
         NEW a, DOMAIN a = Slots, a.image = prg
  PROVE  Cost(x.routine, Reprimed(x, a)) = CtTime(r, k)
<1> DEFINE m == Primed(x.routine, 0, Classes[k], a)
<1>1. x.routine \in {"poly1305_multiply", "poly1305_final", "chacha20_block", "aead_encrypt", "auth fail"}
  BY CtRoutinesAre
<1>2. Reprimed(x, a) = m
  BY <1>1 DEF Reprimed
<1>3. m.image = prg /\ m.operand = Classes[k] /\ (x.routine = "aead_encrypt" => m.len = 0)
  BY PrimedIs
<1> HIDE DEF m
<1>4. CASE x.routine = "aead_encrypt"
  <2>1. Cost(x.routine, m) = Cycles(prg, x.routine, 0, Classes[k])
    BY <1>3, <1>4 DEF Cost
  <2> QED BY <1>2, <2>1 DEF CtTime
<1>5. CASE x.routine # "aead_encrypt"
  <2>1. Cost(x.routine, m) = Cycles(m.image, x.routine, 0, m.operand)
    BY <1>1, <1>5 DEF Cost
  <2> QED BY <1>2, <1>3, <2>1 DEF CtTime
<1> QED BY <1>4, <1>5

LEMMA CtTimeIs ==
  ASSUME prg \in Images, NEW r \in 1 .. Len(CtRoutines), NEW k \in 1 .. Len(Classes)
  PROVE  CtTime(r, k) \in Nat /\ WrapperCycles + CtTime(r, k) + Jitter < W * W
<1>1. CtRoutines[r] \in Routines /\ Classes[k] \in Operands /\ 0 \in Lengths
  BY RoutinesAre
<1> DEFINE square == W * W
<1>2. CtTime(r, k) \in Nat /\ WrapperCycles + LoopCount * CtTime(r, k) + Jitter < square
  BY <1>1, CyclesAssumption DEF CtTime
<1>3. WrapperCycles \in Nat /\ Jitter \in Nat /\ W \in Nat
  BY TimerAssumption
<1>4. square \in Int
  BY <1>3, Z3
<1> HIDE DEF square
<1>5. LoopCount * CtTime(r, k) = CtTime(r, k) + CtTime(r, k)
  BY <1>2 DEF LoopCount
<1>6. WrapperCycles + CtTime(r, k) + Jitter < square
  BY <1>2, <1>3, <1>4, <1>5
<1> QED BY <1>2, <1>6 DEF square

\* With the display blank a sample is exact.
LEMMA CtReading ==
  ASSUME Memory.wrapper = "good", Clock = 1, calib.over = WrapperCycles, NEW cycles \in Nat,
         WrapperCycles + cycles + Jitter < W * W
  PROVE  Reading(cycles, 0) - calib.over = cycles
<1>1. WrapperCycles \in Nat /\ Jitter \in Nat
  BY TimerAssumption
<1>2. 0 \in 0 .. Jitter /\ Clock \in Nat \ {0}
  BY <1>1
<1>3. Reading(cycles, 0) = (WrapperCycles + cycles) \div Clock + 0
  BY <1>2, ReadingAt
<1>4. (WrapperCycles + cycles) \div 1 + 0 = WrapperCycles + cycles
  BY <1>1
<1>5. (WrapperCycles + cycles) - WrapperCycles = cycles
  BY <1>1
<1> QED BY <1>3, <1>4, <1>5

LEMMA CtMeasures ==
  ASSUME NEW samples, NEW p, NEW x, NEW q, CtMoves(samples, p, x, q), x.op = "measure"
  PROVE  \E r \in 1 .. Len(CtRoutines), k \in 1 .. Len(Classes) : CtSampling(p, q, x, r, k)
<1>1. PICK r \in 1 .. Len(CtRoutines), k \in 1 .. Len(Classes) :
        /\ p = <<"class", r, k - 1>> /\ q = <<"row", r, k>>
        /\ x = Measure(CtRoutines[r], 0, samples, TRUE, 1, Classes[k])[1]
  <2>1. CtClassed(samples, p, x, q)
    BY CtOps
  <2> QED BY <2>1 DEF CtClassed
<1>2. CtSampling(p, q, x, r, k)
  BY <1>1 DEF CtSampling, Measure
<1> QED BY <1>2

LEMMA TimedSample ==
  ASSUME Desk, Fitted, Prepared, Timed, tool.tool = "ct", tool' = tool, script # <<>>,
         UNCHANGED toolVars, Sample
  PROVE  Timed'
<1>1. PICK p, q : /\ Walk(tool, script, p, Spot("gone")) /\ CtKnown(p)
                  /\ CtMoves(tool.samples, p, Head(script), q)
  BY TimedHere
<1>2. PICK x : x = Head(script)
  OBVIOUS
<1>3. /\ x.op = "measure" /\ UNCHANGED <<script, outcome, prg, blank, on, calib, ct>>
      /\ taken' = taken + 1
  BY <1>2 DEF Sample, Now, toolVars
<1>4. outcome = "running" /\ on = "vice"
  BY TimedHere
<1>5. PICK r \in 1 .. Len(CtRoutines), k \in 1 .. Len(Classes) : CtSampling(p, q, x, r, k)
  BY <1>1, <1>2, <1>3, CtMeasures
<1>6. /\ p = <<"class", r, k - 1>> /\ p[1] = "class" /\ p[2] = r /\ p[3] = k - 1 /\ (k - 1) + 1 = k
      /\ x.routine = CtRoutines[r] /\ x.n = 0 /\ x.again /\ x.loops = 1 /\ x.operand = Classes[k]
  <2>1. (k - 1) + 1 = k
    OBVIOUS
  <2> QED BY <1>5, <2>1 DEF CtSampling
<1>7. /\ blank /\ calib.over = WrapperCycles
      /\ taken # 0 => best = CtTime(r, k) /\ worst = best
  BY <1>1, <1>6 DEF CtKnown
<1>8. Noise = {0} /\ Clock = 1
  BY <1>4, <1>7 DEF Noise, Clock
<1>9. /\ Memory.wrapper = "good" /\ Memory.image = prg /\ DOMAIN Memory = Slots /\ prg \in Images
  <2>1. tool.tool \in Reporting
    BY DEF Reporting
  <2>2. PICK h : Known(h[0]) /\ Needs(tool.tool, x, h[0])
    BY <1>2, <2>1, Stands
  <2>3. {Installed, Booted} \subseteq h[0]
    BY <1>3, <2>2 DEF Needs
  <2>4. DOMAIN Memory = Slots /\ prg \in Images
    BY <1>4, <2>1, Stands DEF Fitted, Memory
  <2> QED BY <2>2, <2>3, <2>4 DEF Known
<1> DEFINE m == Reprimed(x, Memory)  c == Cost(x.routine, m)  cycles == Reading(x.loops * c, 0) - calib.over
<1>10. c = CtTime(r, k)
  BY <1>6, <1>9, CtCost
<1>11. c \in Nat /\ WrapperCycles + c + Jitter < W * W
  <2> HIDE DEF c
  <2> QED BY <1>9, <1>10, CtTimeIs
<1>12. cycles = CtTime(r, k)
  <2> HIDE DEF c
  <2>1. x.loops * c = c
    BY <1>6, <1>11
  <2> QED BY <1>7, <1>8, <1>9, <1>10, <1>11, <2>1, CtReading
<1>13. /\ best' = IF taken = 0 THEN cycles ELSE Min({best, cycles})
       /\ worst' = IF taken = 0 THEN cycles ELSE Max({worst, cycles})
  <2>1. \E j \in Noise :
          LET s == Head(script)
              n == IF s.again THEN Reprimed(s, Memory) ELSE Memory
              z == Reading(s.loops * Cost(s.routine, n), j) - calib.over
          IN  /\ best' = IF taken = 0 THEN z ELSE Min({best, z})
              /\ worst' = IF taken = 0 THEN z ELSE Max({worst, z})
    BY DEF Sample
  <2>2. \E j \in Noise :
          LET z == Reading(x.loops * Cost(x.routine, m), j) - calib.over
          IN  /\ best' = IF taken = 0 THEN z ELSE Min({best, z})
              /\ worst' = IF taken = 0 THEN z ELSE Max({worst, z})
    BY <1>2, <1>6, <2>1
  <2> QED BY <1>8, <2>2
<1> HIDE DEF cycles
<1>14. best' = CtTime(r, k) /\ worst' = best'
  <2>1. CASE taken = 0
    BY <1>12, <1>13, <2>1
  <2>2. CASE taken # 0
    <3>1. CtTime(r, k) \in Int
      BY <1>10, <1>11
    <3>2. Min({CtTime(r, k), CtTime(r, k)}) = CtTime(r, k)
      BY <3>1, MinOfTwo
    <3>3. Max({CtTime(r, k), CtTime(r, k)}) = CtTime(r, k)
      <4> DEFINE z == CtTime(r, k)
      <4> HIDE DEF z
      <4>1. z \in Int
        BY <3>1 DEF z
      <4>2. Max({z, z}) = z
        BY <4>1 DEF Max
      <4> QED BY <4>2 DEF z
    <3> QED BY <1>7, <1>12, <1>13, <2>2, <3>2, <3>3
  <2> QED BY <2>1, <2>2
<1>15. CtKnown(p)'
  <2>1. \A i : CtTime(r, i)' = CtTime(r, i)
    BY <1>3 DEF CtTime
  <2>2. Verdict(r)' = Verdict(r)
    BY <1>3 DEF Verdict, Differ
  <2>3. ct = [mins |-> {CtTime(r, i) : i \in 1 .. k - 1}, noisy |-> FALSE, rc |-> Verdict(r)]
    BY <1>1, <1>6 DEF CtKnown
  <2>4. {CtTime(r, i)' : i \in 1 .. k - 1} = {CtTime(r, i) : i \in 1 .. k - 1}
    BY <2>1
  <2>5. ct' = [mins |-> {CtTime(r, i)' : i \in 1 .. k - 1}, noisy |-> FALSE, rc |-> Verdict(r)']
    BY <1>3, <2>2, <2>3, <2>4
  <2>6. calib'.over = WrapperCycles /\ calib'.spread = 0 /\ blank'
    BY <1>1, <1>3, <1>6 DEF CtKnown
  <2>7. best' = CtTime(r, k)' /\ worst' = best'
    BY <1>14, <2>1
  <2>8. Now("measure")'
    BY <1>2, <1>3 DEF Now
  <2> QED BY <1>6, <2>5, <2>6, <2>7, <2>8 DEF CtKnown
<1>16. Walk(tool, script', p, Spot("gone"))
  BY <1>1, <1>3
<1> QED BY <1>3, <1>4, <1>15, <1>16, TimedOn

LEMMA TimedRecord ==
  ASSUME Desk, Prepared, Timed, tool.tool = "ct", tool' = tool, script # <<>>,
         UNCHANGED toolVars, Record
  PROVE  Timed'
<1>1. PICK p, q : /\ Walk(tool, script, p, Spot("gone")) /\ CtKnown(p)
                  /\ CtMoves(tool.samples, p, Head(script), q)
                  /\ Walk(tool, Tail(script), q, Spot("gone"))
  BY TimedHere
<1>2. PICK x : x = Head(script)
  OBVIOUS
<1>3. /\ x.op = "measure" /\ script' = Tail(script) /\ taken = x.samples /\ taken' = 0
      /\ UNCHANGED <<outcome, prg, blank, on, calib, ct>>
      /\ row'.cycles = best \div x.loops /\ row'.spread = worst - best
  BY <1>2 DEF Record, Now, Advance, toolVars
<1>4. outcome = "running" /\ on = "vice"
  BY TimedHere
<1>5. PICK r \in 1 .. Len(CtRoutines), k \in 1 .. Len(Classes) : CtSampling(p, q, x, r, k)
  BY <1>1, <1>2, <1>3, CtMeasures
<1>6. /\ p = <<"class", r, k - 1>> /\ p[1] = "class" /\ p[2] = r /\ p[3] = k - 1 /\ (k - 1) + 1 = k
      /\ q = <<"row", r, k>> /\ q[1] = "row" /\ q[2] = r /\ q[3] = k /\ x.loops = 1
  <2>1. (k - 1) + 1 = k
    OBVIOUS
  <2> QED BY <1>5, <2>1 DEF CtSampling
<1>7. taken # 0 /\ prg \in Images
  <2>1. tool.tool \in Reporting
    BY DEF Reporting
  <2>2. PICK h : Needs(tool.tool, x, h[0])
    BY <1>2, <2>1, Stands
  <2>3. Measurable(x, h[0])
    BY <1>3, <2>2 DEF Needs
  <2> QED BY <1>3, <2>1, <2>3, Stands DEF Measurable
<1>8. best = CtTime(r, k) /\ worst = best /\ CtTime(r, k) \in Nat
  BY <1>1, <1>6, <1>7, CtTimeIs DEF CtKnown
<1>9. row'.cycles = CtTime(r, k) /\ row'.spread = 0
  <2>1. \A c \in Nat : c \div 1 = c /\ c - c = 0
    OBVIOUS
  <2> QED BY <1>3, <1>6, <1>8, <2>1
<1>10. CtKnown(q)'
  <2>1. \A i : CtTime(r, i)' = CtTime(r, i)
    BY <1>3 DEF CtTime
  <2>2. Verdict(r)' = Verdict(r)
    BY <1>3 DEF Verdict, Differ
  <2>3. ct = [mins |-> {CtTime(r, i) : i \in 1 .. k - 1}, noisy |-> FALSE, rc |-> Verdict(r)]
    BY <1>1, <1>6 DEF CtKnown
  <2>4. {CtTime(r, i)' : i \in 1 .. k - 1} = {CtTime(r, i) : i \in 1 .. k - 1}
    BY <2>1
  <2>5. ct' = [mins |-> {CtTime(r, i)' : i \in 1 .. k - 1}, noisy |-> FALSE, rc |-> Verdict(r)']
    BY <1>3, <2>2, <2>3, <2>4
  <2>6. calib'.over = WrapperCycles /\ calib'.spread = 0 /\ blank'
    BY <1>1, <1>3, <1>6 DEF CtKnown
  <2>7. row'.cycles = CtTime(r, k)' /\ row'.spread = 0
    BY <1>9, <2>1
  <2> QED BY <1>3, <1>6, <2>5, <2>6, <2>7 DEF CtKnown
<1> QED BY <1>1, <1>3, <1>4, <1>10, TimedOn

LEMMA TimedRow ==
  ASSUME Timed, tool.tool = "ct", tool' = tool, script # <<>>, CtRow
  PROVE  Timed'
<1>1. PICK p, q : /\ Walk(tool, script, p, Spot("gone")) /\ CtKnown(p)
                  /\ CtMoves(tool.samples, p, Head(script), q)
                  /\ Walk(tool, Tail(script), q, Spot("gone"))
  BY TimedHere
<1>2. PICK x : x = Head(script)
  OBVIOUS
<1>3. /\ x.op = "ct row" /\ script' = Tail(script)
      /\ UNCHANGED <<prg, blank, on, outcome, calib, taken, best, worst, row>>
      /\ ct' = [ct EXCEPT !.mins = @ \cup {row.cycles}, !.noisy = @ \/ row.spread # 0]
  BY <1>2 DEF CtRow, Now, Advance, Same, measureVars
<1>4. outcome = "running" /\ on = "vice"
  BY TimedHere
<1>5. PICK r \in 1 .. Len(CtRoutines), k \in 1 .. Len(Classes) :
        p = <<"row", r, k>> /\ q = <<"class", r, k>>
  <2>1. CtClassed(tool.samples, p, x, q)
    BY <1>1, <1>2, CtOps
  <2> QED BY <1>3, <2>1 DEF CtClassed
<1>6. /\ p[1] = "row" /\ p[2] = r /\ p[3] = k /\ q[1] = "class" /\ q[2] = r /\ q[3] = k
  BY <1>5
<1>7. /\ ct = [mins |-> {CtTime(r, i) : i \in 1 .. k - 1}, noisy |-> FALSE, rc |-> Verdict(r)]
      /\ row.cycles = CtTime(r, k) /\ row.spread = 0 /\ taken = 0
      /\ calib.over = WrapperCycles /\ calib.spread = 0 /\ blank
  BY <1>1, <1>6 DEF CtKnown
<1>8. {CtTime(r, i) : i \in 1 .. k - 1} \cup {CtTime(r, k)} = {CtTime(r, i) : i \in 1 .. k}
  <2>1. \A i : i \in 1 .. k <=> i \in 1 .. k - 1 \/ i = k
    OBVIOUS
  <2> QED BY <2>1
<1>9. CtKnown(q)'
  <2>1. \A i : CtTime(r, i)' = CtTime(r, i)
    BY <1>3 DEF CtTime
  <2>2. Verdict(r)' = Verdict(r)
    BY <1>3 DEF Verdict, Differ
  <2>3. {CtTime(r, i)' : i \in 1 .. k} = {CtTime(r, i) : i \in 1 .. k}
    BY <2>1
  <2>4. ct' = [mins |-> {CtTime(r, i) : i \in 1 .. k}, noisy |-> FALSE, rc |-> Verdict(r)]
    BY <1>3, <1>7, <1>8
  <2>5. ct' = [mins |-> {CtTime(r, i)' : i \in 1 .. k}, noisy |-> FALSE, rc |-> Verdict(r)']
    BY <2>2, <2>3, <2>4
  <2>6. blank' /\ calib'.over = WrapperCycles /\ calib'.spread = 0 /\ taken' = 0
    BY <1>3, <1>7
  <2> QED BY <1>6, <2>5, <2>6 DEF CtKnown
<1> QED BY <1>1, <1>3, <1>4, <1>9, TimedOn

\* One time for all classes, or several.
LEMMA OneTime ==
  ASSUME NEW r \in 1 .. Len(CtRoutines)
  PROVE  Cardinality({CtTime(r, i) : i \in 1 .. Len(Classes)}) = 1 <=> ~Differ(r)
<1> DEFINE n == Len(Classes)  S == {CtTime(r, i) : i \in 1 .. n}
<1>1. n \in Nat \ {0} /\ DOMAIN Classes = 1 .. n
  BY SizesAssumption, LenProperties, EmptySeq
<1>2. ToSet(Classes) = {Classes[i] : i \in 1 .. n}
  BY <1>1 DEF ToSet
<1> HIDE DEF n
<1>3. IsFiniteSet(1 .. n)
  BY <1>1, FS_Interval
<1>4. IsFiniteSet(S)
  <2> DEFINE f == [i \in 1 .. n |-> CtTime(r, i)]
  <2>1. f \in Surjection(1 .. n, S)
    BY DEF Surjection
  <2> HIDE DEF f, S
  <2> QED BY <1>3, <2>1, FS_Surjection
<1>5. Differ(r) <=> \E i, j \in 1 .. n : CtTime(r, i) # CtTime(r, j)
  BY <1>2 DEF Differ, CtTime
<1>6. 1 \in 1 .. n
  BY <1>1
<1>7. (\E x : S = {x}) <=> ~Differ(r)
  <2>1. ASSUME NEW x, S = {x} PROVE ~Differ(r)
    <3>1. \A i \in 1 .. n : CtTime(r, i) = x
      BY <2>1
    <3> QED BY <1>5, <3>1
  <2>2. ASSUME ~Differ(r) PROVE S = {CtTime(r, 1)}
    <3>1. \A i \in 1 .. n : CtTime(r, i) = CtTime(r, 1)
      BY <1>5, <1>6, <2>2
    <3> QED BY <1>6, <3>1
  <2> QED BY <2>1, <2>2
<1> HIDE DEF S
<1>8. Cardinality(S) = 1 <=> \E x : S = {x}
  BY <1>4, FS_Singleton
<1> QED BY <1>7, <1>8 DEF S, n

LEMMA TimedRoutine ==
  ASSUME Timed, tool.tool = "ct", tool' = tool, script # <<>>, CtOfRoutine
  PROVE  Timed'
<1>1. PICK p, q : /\ Walk(tool, script, p, Spot("gone")) /\ CtKnown(p)
                  /\ CtMoves(tool.samples, p, Head(script), q)
                  /\ Walk(tool, Tail(script), q, Spot("gone"))
  BY TimedHere
<1>2. PICK x : x = Head(script)
  OBVIOUS
<1>3. /\ x.op = "ct routine" /\ script' = Tail(script)
      /\ UNCHANGED <<prg, blank, on, outcome, calib, taken, best, worst, row>>
      /\ ct' = [NoClasses EXCEPT !.rc = CASE ct.noisy -> 2
                                          [] ~ct.noisy /\ Cardinality(ct.mins) = 1 -> ct.rc
                                          [] OTHER -> Max({ct.rc, 1})]
  BY <1>2 DEF CtOfRoutine, Now, Advance, Same, measureVars
<1>4. outcome = "running" /\ on = "vice"
  BY TimedHere
<1>5. PICK r \in 1 .. Len(CtRoutines) : p = <<"class", r, Len(Classes)>> /\ q = <<"class", r + 1, 0>>
  <2>1. CtClassed(tool.samples, p, x, q)
    BY <1>1, <1>2, CtOps
  <2> QED BY <1>3, <2>1 DEF CtClassed
<1>6. /\ p[1] = "class" /\ p[2] = r /\ p[3] = Len(Classes)
      /\ q[1] = "class" /\ q[2] = r + 1 /\ q[3] = 0
  BY <1>5
<1> DEFINE mins == {CtTime(r, i) : i \in 1 .. Len(Classes)}
<1>7. /\ ct = [mins |-> mins, noisy |-> FALSE, rc |-> Verdict(r)]
      /\ calib.over = WrapperCycles /\ calib.spread = 0 /\ blank
  BY <1>1, <1>6 DEF CtKnown
<1>8. Cardinality(mins) = 1 <=> ~Differ(r)
  BY OneTime
<1> HIDE DEF mins
<1>9. Verdict(r + 1) = IF Differ(r) THEN 1 ELSE Verdict(r)
  <2>1. \A i : i \in 1 .. (r + 1) - 1 <=> i \in 1 .. r - 1 \/ i = r
    OBVIOUS
  <2> QED BY <2>1 DEF Verdict
<1>10. ct' = [mins |-> {}, noisy |-> FALSE, rc |-> Verdict(r + 1)]
  <2>1. Max({Verdict(r), 1}) = 1
    <3>1. Verdict(r) \in {0, 1}
      BY DEF Verdict
    <3>2. Max({0, 1}) = 1 /\ Max({1, 1}) = 1
      BY DEF Max
    <3> QED BY <3>1, <3>2
  <2>2. ct'.rc = Verdict(r + 1) /\ ct' = [mins |-> {}, noisy |-> FALSE, rc |-> ct'.rc]
    BY <1>3, <1>7, <1>8, <1>9, <2>1 DEF NoClasses
  <2> QED BY <2>2
<1>11. CtKnown(q)'
  <2>1. Verdict(r + 1)' = Verdict(r + 1)
    BY <1>3 DEF Verdict, Differ
  <2>2. {CtTime(r + 1, i)' : i \in 1 .. 0} = {}
    OBVIOUS
  <2>3. ct' = [mins |-> {CtTime(r + 1, i)' : i \in 1 .. 0}, noisy |-> FALSE, rc |-> Verdict(r + 1)']
    BY <1>10, <2>1, <2>2
  <2>4. taken' = 0
    <3>1. taken = 0
      <4>1. ~Now("measure")
        BY <1>2, <1>3 DEF Now
      <4> QED BY <1>1, <4>1 DEF CtKnown
    <3> QED BY <1>3, <3>1
  <2>5. blank' /\ calib'.over = WrapperCycles /\ calib'.spread = 0
    BY <1>3, <1>7
  <2> QED BY <1>6, <2>3, <2>4, <2>5 DEF CtKnown
<1> QED BY <1>1, <1>3, <1>4, <1>11, TimedOn

LEMMA TimedExact ==
  ASSUME Timed, tool.tool = "ct", tool' = tool, script # <<>>, NeedExact
  PROVE  Timed'
<1>1. PICK p, q : /\ Walk(tool, script, p, Spot("gone")) /\ CtKnown(p)
                  /\ CtMoves(tool.samples, p, Head(script), q)
                  /\ Walk(tool, Tail(script), q, Spot("gone"))
  BY TimedHere
<1>2. PICK x : x = Head(script)
  OBVIOUS
<1>3. x.op = "exact" /\ UNCHANGED <<prg, blank, on, calib, taken>>
  BY <1>2 DEF NeedExact, Now, Same, measureVars
<1>4. outcome = "running" /\ on = "vice"
  BY TimedHere
<1>5. p = Spot("exact") /\ q = Spot("run")
  <2>1. CtOpened(p, x.op, q)
    BY <1>1, <1>2, CtOps
  <2> QED BY <1>3, <2>1 DEF CtOpened
<1>6. /\ calib.spread = 0 /\ calib.over = WrapperCycles /\ blank /\ ct = NoClasses /\ taken = 0
  BY <1>1, <1>5 DEF CtKnown, Spot
<1>7. script' = Tail(script) /\ UNCHANGED <<outcome, ct>>
  BY <1>6 DEF NeedExact, Advance
<1>8. CtKnown(q)'
  BY <1>3, <1>5, <1>6, <1>7 DEF CtKnown, Spot
<1> QED BY <1>1, <1>3, <1>4, <1>7, <1>8, TimedOn

LEMMA TimedVerdict ==
  ASSUME Desk, Timed, tool.tool = "ct", tool' = tool, script # <<>>, CtVerdict
  PROVE  Timed'
<1>1. PICK p, q : /\ Walk(tool, script, p, Spot("gone")) /\ CtKnown(p)
                  /\ CtMoves(tool.samples, p, Head(script), q)
  BY TimedHere
<1>2. PICK x : x = Head(script)
  OBVIOUS
<1>3. /\ x.op = "ct verdict" /\ script' = Finally(script) /\ outcome' = "ct"
      /\ UNCHANGED <<prg, on, ct>>
  BY <1>2 DEF CtVerdict, Now, Leave, Same, toolVars
<1>4. on = "vice"
  BY TimedHere
<1>5. p = <<"class", Len(CtRoutines) + 1, 0>>
  <2>1. CtOpened(p, x.op, q)
    BY <1>1, <1>2, CtOps
  <2> QED BY <1>3, <2>1 DEF CtOpened
<1>6. ct.rc = Verdict(Len(CtRoutines) + 1)
  <2>1. p[1] = "class" /\ p[2] = Len(CtRoutines) + 1
    BY <1>5
  <2> QED BY <1>1, <2>1 DEF CtKnown
<1>7. script' = <<>>
  BY <1>3, Leaving
<1>8. ct'.rc = Verdict(Len(CtRoutines) + 1)'
  BY <1>3, <1>6 DEF Verdict, Differ
<1> QED BY <1>3, <1>4, <1>7, <1>8 DEF Timed

\* Nothing comes after the end.
LEMMA CtGone ==
  ASSUME NEW samples, NEW p, NEW x, NEW q, CtMoves(samples, p, x, q)
  PROVE  p # Spot("gone")
<1>1. /\ x.op \in {"boot", "blank", "install", "calibrate", "exact", "run", "measure", "ct row",
                   "ct routine", "ct verdict", "end"}
      /\ CtOpened(p, x.op, q) /\ CtClassed(samples, p, x, q)
  BY CtOps
<1>2. CASE x.op \notin {"measure", "ct row", "ct routine"}
  <2>1. \/ p = <<"class", Len(CtRoutines) + 1, 0>>
        \/ \E h \in {"boot", "blank", "install", "calibrate", "exact", "run", "over"} : p = Spot(h)
    BY <1>1, <1>2 DEF CtOpened
  <2>2. p[1] # "gone"
    BY <2>1 DEF Spot
  <2> QED BY <2>2 DEF Spot
<1>3. CASE x.op \in {"measure", "ct row", "ct routine"}
  <2>1. \E r, k : p = <<"class", r, k>> \/ p = <<"row", r, k>>
    BY <1>1, <1>3 DEF CtClassed
  <2>2. p[1] # "gone"
    BY <2>1
  <2> QED BY <2>2 DEF Spot
<1> QED BY <1>2, <1>3

LEMMA TimedEnd ==
  ASSUME Timed, tool.tool = "ct", tool' = tool, script # <<>>, End
  PROVE  Timed'
<1>1. PICK p, q : /\ CtMoves(tool.samples, p, Head(script), q)
                  /\ Walk(tool, Tail(script), q, Spot("gone"))
  BY TimedHere
<1>2. PICK x : x = Head(script)
  OBVIOUS
<1>3. /\ x.op = "end" /\ script' = Tail(script) /\ on' = on
      /\ outcome' = IF outcome = "running" THEN "ok" ELSE outcome
  BY <1>2 DEF End, Now, Advance
<1>4. outcome = "running"
  BY TimedHere
<1>5. q = Spot("gone")
  <2>1. CtOpened(p, x.op, q)
    BY <1>1, <1>2, CtOps
  <2> QED BY <1>3, <2>1 DEF CtOpened
<1>6. ASSUME script' # <<>> PROVE FALSE
  <2>1. PICK r : Moves(tool, q, Head(script'), r)
    BY <1>1, <1>3, <1>6, WalkHead
  <2>2. CtMoves(tool.samples, q, Head(script'), r)
    BY <2>1, CtMoved
  <2> QED BY <1>5, <2>2, CtGone
<1> QED BY <1>3, <1>4, <1>6, TimedOver

LEMMA TimedSession ==
  ASSUME Desk, Fitted, Prepared, Timed, tool.tool = "ct", OnMachine \/ OnTool
  PROVE  Timed'
<1>1. script # <<>> /\ tool' = tool
  <2>1. ASSUME OnMachine PROVE script # <<>> /\ tool' = tool
    BY <2>1, PlainMachine DEF OnMachine, Working
  <2>2. ASSUME OnTool PROVE script # <<>> /\ tool' = tool
    BY <2>2, PlainTool DEF OnTool, Working
  <2> QED BY <2>1, <2>2
<1>2. Head(script).op \in {"boot", "blank", "install", "calibrate", "exact", "run", "measure",
                           "ct row", "ct routine", "ct verdict", "end"}
  <2>1. PICK p, q : CtMoves(tool.samples, p, Head(script), q)
    BY <1>1, TimedHere
  <2> QED BY <2>1, CtOps
<1>3. CASE OnMachine
  <2>1. MachineStep /\ UNCHANGED toolVars
    BY <1>3 DEF OnMachine
  <2>2. ~LoadPrg /\ ~ChangeSpeed /\ ~VerifyWrapper /\ ~SetupRoutine /\ ~Enter
    BY <1>2 DEF LoadPrg, ChangeSpeed, VerifyWrapper, SetupRoutine, Enter, Now
  <2>3. \/ Boot \/ Blank \/ InstallWrapper \/ CalibrateWrapper \/ RunRoutine
        \/ Sample \/ Record \/ End
    BY <2>1, <2>2 DEF MachineStep
  <2> QED BY <1>1, <2>1, <2>3, TimedOpening, TimedSample, TimedRecord, TimedEnd
<1>4. CASE OnTool
  <2>1. ToolStep
    BY <1>4 DEF OnTool
  <2>2. ~NeedSymbol /\ ~SkipRow /\ ~CompareRow /\ ~Gate /\ ~Turbo /\ ~LoadSidecar
        /\ ~TruncateSidecar /\ ~SaveSidecar
    BY <1>2 DEF NeedSymbol, SkipRow, CompareRow, Gate, Turbo, LoadSidecar, TruncateSidecar,
                SaveSidecar, Now
  <2>3. NeedExact \/ CtRow \/ CtOfRoutine \/ CtVerdict
    BY <2>1, <2>2 DEF ToolStep
  <2> QED BY <1>1, <2>3, TimedExact, TimedRow, TimedRoutine, TimedVerdict
<1> QED BY <1>3, <1>4

LEMMA TimedInvoke ==
  ASSUME Desk, NEW c \in Commands, Invoke(c)
  PROVE  Timed'
<1>1. PICK t : t = tool'
  OBVIOUS
<1>2. t.tool = c.tool /\ t.on = c.on /\ script' = Whole(t)
  BY <1>1, Invoked DEF Full
<1>3. on' = c.on /\ outcome' = "running" /\ taken' = 0 /\ ct' = NoClasses
  BY DEF Invoke
<1>4. c.tool = "ct" => c.on = "vice"
  BY CommandsAssumption
<1>5. ASSUME t.tool = "ct"
      PROVE  \E p : Walk(t, script', p, Spot("gone")) /\ CtKnown(p)'
  <2>1. Walk(t, script', Spot("boot"), Spot("gone"))
    BY <1>2, <1>5, CtWalk
  <2>2. CtKnown(Spot("boot"))'
    BY <1>3 DEF CtKnown, Spot
  <2> QED BY <2>1, <2>2
<1> QED BY <1>1, <1>2, <1>3, <1>4, <1>5 DEF Timed

LEMMA TimedStep ==
  ASSUME Desk, Fitted, Prepared, Timed, Next
  PROVE  Timed'
<1>1. ASSUME tool' = tool, tool.tool # "ct" PROVE Timed'
  BY <1>1 DEF Timed
<1>2. ASSUME OnMachine \/ OnTool PROVE Timed'
  <2>1. tool' = tool
    BY <1>2 DEF OnMachine, OnTool, Working
  <2> QED BY <1>1, <1>2, <2>1, TimedSession
<1>3. ASSUME OnFuzz PROVE Timed'
  <2>1. script # <<>> /\ tool' = tool
    BY <1>3, PlainFuzz
  <2>2. Head(script).op \in {"known answer", "fuzz", "result", "vectors", "summary"}
    BY <1>3 DEF OnFuzz, CheckGlue, FuzzCategory, Result, Vector, VectorPair, NoVectors, Summary, Now
  <2>3. ASSUME tool.tool = "ct" PROVE FALSE
    <3>1. PICK p, q : CtMoves(tool.samples, p, Head(script), q)
      BY <2>1, <2>3, TimedHere
    <3>2. Head(script).op \in {"boot", "blank", "install", "calibrate", "exact", "run", "measure",
                               "ct row", "ct routine", "ct verdict", "end"}
      BY <3>1, CtOps
    <3> QED BY <2>2, <3>2
  <2> QED BY <1>1, <2>1, <2>3
<1>4. ASSUME Interrupt \/ Kill PROVE Timed'
  <2>1. UNCHANGED <<tool, on>> /\ script # <<>> /\ outcome' # "ct"
        /\ (script' = <<>> \/ script' = Finally(script))
    BY <1>4 DEF Interrupt, Kill, Leave, Same, Working
  <2>2. tool.tool = "ct" => script' = <<>>
    BY <2>1, Leaving
  <2> QED BY <1>1, <2>1, <2>2, TimedOver
<1>5. ASSUME Neighbour PROVE Timed'
  BY <1>5, TimedOver DEF Neighbour
<1>6. ASSUME NEW c \in Commands, Invoke(c) PROVE Timed'
  BY <1>6, TimedInvoke
<1> QED BY <1>2, <1>3, <1>4, <1>5, <1>6 DEF Next

LEMMA TimedStill ==
  ASSUME Timed, UNCHANGED vars
  PROVE  Timed'
<1>1. UNCHANGED <<prg, blank, on, script, outcome, calib, taken, best, worst, row, ct, tool>>
  BY DEF vars, machineVars, measureVars, toolVars
<1>2. \A r : Verdict(r)' = Verdict(r)
  BY <1>1 DEF Verdict, Differ
<1>3. ASSUME NEW p, CtKnown(p) PROVE CtKnown(p)'
  <2>1. \A r, k : CtTime(r, k)' = CtTime(r, k)
    BY <1>1 DEF CtTime
  <2>2. Now("measure")' <=> Now("measure")
    BY <1>1 DEF Now
  <2> QED BY <1>1, <1>2, <1>3, <2>1, <2>2 DEF CtKnown
<1>4. ASSUME tool.tool = "ct", script # <<>>
      PROVE  \E p : Walk(tool, script, p, Spot("gone")) /\ CtKnown(p)'
  BY <1>3, <1>4 DEF Timed
<1> QED BY <1>1, <1>2, <1>4 DEF Timed

LEMMA VerdictTrue == Verdict(Len(CtRoutines) + 1) = IF Leaky(prg) THEN 1 ELSE 0
<1>1. DOMAIN CtRoutines = 1 .. Len(CtRoutines) /\ Len(CtRoutines) \in Nat
  BY RoutinesAre
<1>2. (Len(CtRoutines) + 1) - 1 = Len(CtRoutines)
  BY <1>1
<1>3. Leaky(prg) <=> \E i \in 1 .. Len(CtRoutines) : Differ(i)
  <2>1. ToSet(CtRoutines) = {CtRoutines[i] : i \in 1 .. Len(CtRoutines)}
    BY <1>1 DEF ToSet
  <2>2. Leaky(prg) <=> \E r \in ToSet(CtRoutines) : \E c, d \in ToSet(Classes) :
                         Cycles(prg, r, 0, c) # Cycles(prg, r, 0, d)
    BY DEF Leaky
  <2>3. ASSUME Leaky(prg) PROVE \E i \in 1 .. Len(CtRoutines) : Differ(i)
    <3>1. PICK r \in ToSet(CtRoutines) : \E c, d \in ToSet(Classes) :
                         Cycles(prg, r, 0, c) # Cycles(prg, r, 0, d)
      BY <2>2, <2>3
    <3>2. PICK i \in 1 .. Len(CtRoutines) : r = CtRoutines[i]
      BY <2>1
    <3> QED BY <3>1, <3>2 DEF Differ
  <2>4. ASSUME NEW i \in 1 .. Len(CtRoutines), Differ(i) PROVE Leaky(prg)
    <3>1. CtRoutines[i] \in ToSet(CtRoutines)
      BY <2>1
    <3> QED BY <2>2, <2>4, <3>1 DEF Differ
  <2> QED BY <2>3, <2>4
<1> QED BY <1>2, <1>3 DEF Verdict

LEMMA TimedAlways == Spec => []Timed
<1>1. Init => Timed
  BY DEF Init, Timed
<1>2. LabInv /\ Rowed /\ Timed /\ [Next]_vars => Timed'
  BY TimedStep, TimedStill DEF LabInv, Rowed
<1> QED BY <1>1, <1>2, LabAlways, RowedAlways, PTL DEF Spec

\* The constant-time check that gives a verdict gives the right one: rc 0
\* for a build each of whose routines takes as long for every class, rc 1
\* for one that has a routine which does not; for every build, every list of
\* classes and every number of samples, whatever sessions and interruptions
\* came before (run_checks).
THEOREM CtVerdictTrue == Spec => []CtVerdictExact
<1>1. Timed => CtVerdictExact
  BY VerdictTrue DEF Timed, CtVerdictExact, Ended
<1> QED BY <1>1, TimedAlways, PTL

(* The hazmat fuzzer.                                                       *)

LEMMA FuzzMoved ==
  ASSUME NEW c, c.tool = "hazmat", NEW p, NEW x, NEW q
  PROVE  Moves(c, p, x, q) <=> FuzzMoves(p, x, q)
BY DEF Moves

LEMMA FuzzWalk ==
  ASSUME NEW cmd, cmd.tool = "hazmat"
  PROVE  Walk(cmd, Whole(cmd), Spot("start"), Spot("gone"))
<1> DEFINE a == [op |-> "boot"]  b == [op |-> "speed", mhz |-> 1]  d == [op |-> "load"]
           e == [op |-> "known answer"]  f == [op |-> "result"]  g == [op |-> "end"]
           z(i) == [op |-> "fuzz", category |-> FuzzCategories[i]]
           opening == IF cmd.on = "u64" THEN <<b>> \o <<d>> ELSE <<a>>
<1>1. Whole(cmd) = opening \o <<e>> \o <<z(1)>> \o <<z(2)>> \o <<z(3)>> \o <<z(4)>> \o <<z(5)>>
                   \o <<z(6)>> \o <<f>> \o <<g>>
  <2>1. /\ FuzzCategories[1] = "chacha20_block" /\ FuzzCategories[2] = "chacha20_encrypt"
        /\ FuzzCategories[3] = "poly1305" /\ FuzzCategories[4] = "aead_verify_tag"
        /\ FuzzCategories[5] = "wrap_guard" /\ FuzzCategories[6] = "aead"
    BY DEF FuzzCategories
  <2> QED BY <2>1 DEF Whole, Script, Hazmat, Do, SetSpeed, Fuzz
<1>2. /\ Moves(cmd, Spot("start"), a, Spot("start")) /\ Moves(cmd, Spot("start"), b, Spot("start"))
      /\ Moves(cmd, Spot("start"), d, Spot("start"))
      /\ Moves(cmd, Spot("start"), e, <<"fuzz", 1, 0>>)
      /\ Moves(cmd, <<"fuzz", 7, 0>>, f, Spot("over")) /\ Moves(cmd, Spot("over"), g, Spot("gone"))
  <2>1. a.op = "boot" /\ b.op = "speed" /\ d.op = "load" /\ e.op = "known answer" /\ f.op = "result"
        /\ g.op = "end"
    OBVIOUS
  <2> HIDE DEF a, b, d, e, f, g
  <2>2. /\ FuzzMoves(Spot("start"), a, Spot("start")) /\ FuzzMoves(Spot("start"), b, Spot("start"))
        /\ FuzzMoves(Spot("start"), d, Spot("start"))
    BY <2>1 DEF FuzzMoves
  <2>3. FuzzMoves(Spot("start"), e, <<"fuzz", 1, 0>>) /\ FuzzMoves(<<"fuzz", 7, 0>>, f, Spot("over"))
    BY <2>1 DEF FuzzMoves
  <2>4. FuzzMoves(Spot("over"), g, Spot("gone"))
    BY <2>1 DEF FuzzMoves
  <2> QED BY <2>2, <2>3, <2>4, FuzzMoved
<1>3. ASSUME NEW i \in 1 .. 6 PROVE Walk(cmd, <<z(i)>>, <<"fuzz", i, 0>>, <<"fuzz", i + 1, 0>>)
  <2>1. FuzzMoves(<<"fuzz", i, 0>>, z(i), <<"fuzz", i + 1, 0>>)
    <3>1. z(i).op = "fuzz" /\ z(i).category = FuzzCategories[i]
      OBVIOUS
    <3> HIDE DEF z
    <3> QED BY <3>1 DEF FuzzMoves
  <2> HIDE DEF z
  <2> QED BY <2>1, FuzzMoved, WalkOne
<1>4. /\ Walk(cmd, <<z(1)>>, <<"fuzz", 1, 0>>, <<"fuzz", 2, 0>>)
      /\ Walk(cmd, <<z(2)>>, <<"fuzz", 2, 0>>, <<"fuzz", 3, 0>>)
      /\ Walk(cmd, <<z(3)>>, <<"fuzz", 3, 0>>, <<"fuzz", 4, 0>>)
      /\ Walk(cmd, <<z(4)>>, <<"fuzz", 4, 0>>, <<"fuzz", 5, 0>>)
      /\ Walk(cmd, <<z(5)>>, <<"fuzz", 5, 0>>, <<"fuzz", 6, 0>>)
      /\ Walk(cmd, <<z(6)>>, <<"fuzz", 6, 0>>, <<"fuzz", 7, 0>>)
  <2>1. /\ \A i \in 1 .. 6 : Walk(cmd, <<z(i)>>, <<"fuzz", i, 0>>, <<"fuzz", i + 1, 0>>)
        /\ 1 + 1 = 2 /\ 2 + 1 = 3 /\ 3 + 1 = 4 /\ 4 + 1 = 5 /\ 5 + 1 = 6 /\ 6 + 1 = 7
    BY <1>3
  <2>2. 1 \in 1 .. 6 /\ 2 \in 1 .. 6 /\ 3 \in 1 .. 6 /\ 4 \in 1 .. 6 /\ 5 \in 1 .. 6 /\ 6 \in 1 .. 6
    OBVIOUS
  <2> HIDE DEF z
  <2> QED BY <2>1, <2>2
<1> HIDE DEF a, b, d, e, f, g, z
<1>5. Walk(cmd, opening, Spot("start"), Spot("start"))
  <2>1. Walk(cmd, <<a>>, Spot("start"), Spot("start"))
    BY <1>2, WalkOne
  <2>2. Walk(cmd, <<b>>, Spot("start"), Spot("start")) /\ Walk(cmd, <<d>>, Spot("start"), Spot("start"))
    BY <1>2, WalkOne
  <2>3. Walk(cmd, <<b>> \o <<d>>, Spot("start"), Spot("start"))
    BY <2>2, WalkJoin
  <2> QED BY <2>1, <2>3
<1> HIDE DEF opening
<1>6. /\ Walk(cmd, <<e>>, Spot("start"), <<"fuzz", 1, 0>>)
      /\ Walk(cmd, <<f>>, <<"fuzz", 7, 0>>, Spot("over")) /\ Walk(cmd, <<g>>, Spot("over"), Spot("gone"))
  BY <1>2, WalkOne
<1>7. Walk(cmd, opening \o <<e>>, Spot("start"), <<"fuzz", 1, 0>>)
  BY <1>5, <1>6, WalkJoin
<1> DEFINE s == opening \o <<e>>
<1> HIDE DEF s
<1>8. Walk(cmd, s \o <<z(1)>> \o <<z(2)>> \o <<z(3)>> \o <<z(4)>> \o <<z(5)>> \o <<z(6)>>,
           Spot("start"), <<"fuzz", 7, 0>>)
  BY <1>4, <1>7, WalksJoin DEF s
<1> QED BY <1>1, <1>6, <1>8, WalksJoin DEF s

LEMMA FuzzOps ==
  ASSUME NEW p, NEW x, NEW q, FuzzMoves(p, x, q)
  PROVE  /\ x.op \in {"boot", "load", "speed", "known answer", "fuzz", "result", "end"}
         /\ FuzzMoving(p, x, q) /\ p # Spot("gone")
<1>1. x.op \in {"boot", "load", "speed", "known answer", "fuzz", "result", "end"}
  BY DEF FuzzMoves
<1>2. FuzzMoving(p, x, q)
  BY DEF FuzzMoves, FuzzMoving
<1>3. \E h, i : p = <<h, i, 0>> /\ h \in {"start", "fuzz", "over"}
  BY <1>1, <1>2 DEF FuzzMoving, Spot
<1>4. p # Spot("gone")
  <2>1. p[1] # "gone"
    BY <1>3
  <2> QED BY <2>1 DEF Spot
<1> QED BY <1>1, <1>2, <1>4

LEMMA FuzzedHere ==
  ASSUME Fuzzed, tool.tool = "hazmat", script # <<>>
  PROVE  /\ outcome = "running"
         /\ \E p, q : /\ FuzzKnown(p) /\ FuzzMoving(p, Head(script), q)
                      /\ Walk(tool, Tail(script), q, Spot("gone"))
         /\ Head(script).op \in {"boot", "load", "speed", "known answer", "fuzz", "result", "end"}
<1>1. PICK p : Walk(tool, script, p, Spot("gone")) /\ FuzzKnown(p)
  BY DEF Fuzzed
<1>2. PICK q : Moves(tool, p, Head(script), q) /\ Walk(tool, Tail(script), q, Spot("gone"))
  BY <1>1, WalkHead
<1>3. FuzzMoves(p, Head(script), q)
  BY <1>2, FuzzMoved
<1>4. /\ FuzzMoving(p, Head(script), q)
      /\ Head(script).op \in {"boot", "load", "speed", "known answer", "fuzz", "result", "end"}
  BY <1>3, FuzzOps
<1> QED BY <1>1, <1>2, <1>4 DEF Fuzzed

LEMMA FuzzedOn ==
  ASSUME tool.tool = "hazmat", UNCHANGED tool, outcome' = "running",
         NEW q, Walk(tool, script', q, Spot("gone")), FuzzKnown(q)'
  PROVE  Fuzzed'
<1>1. Walk(tool, script, q, Spot("gone"))'
  OBVIOUS
<1> QED BY <1>1 DEF Fuzzed

LEMMA StockedStep ==
  ASSUME Stocked, [Next]_vars
  PROVE  Stocked' /\ UNCHANGED <<library, baseline>>
<1>1. UNCHANGED <<library, baseline>>
  <2>1. ASSUME OnMachine PROVE UNCHANGED <<library, baseline>>
    BY <2>1 DEF OnMachine, toolVars, fuzzVars
  <2>2. ASSUME OnTool PROVE UNCHANGED <<library, baseline>>
    <3>1. UNCHANGED library
      BY <2>2 DEF OnTool, fuzzVars
    <3>2. ASSUME NeedSymbol \/ SkipRow \/ CompareRow \/ Gate \/ Turbo \/ LoadSidecar PROVE UNCHANGED baseline
      BY <3>2 DEF NeedSymbol, SkipRow, CompareRow, Gate, Turbo, LoadSidecar, toolVars
    <3>3. ASSUME \/ TruncateSidecar \/ SaveSidecar \/ NeedExact \/ CtRow \/ CtOfRoutine \/ CtVerdict
          PROVE UNCHANGED baseline
      BY <3>3 DEF TruncateSidecar, SaveSidecar, NeedExact, CtRow, CtOfRoutine, CtVerdict, toolVars
    <3> QED BY <2>2, <3>1, <3>2, <3>3 DEF OnTool, ToolStep
  <2>3. ASSUME OnFuzz PROVE UNCHANGED <<library, baseline>>
    BY <2>3 DEF OnFuzz, CheckGlue, FuzzCategory, Result, Vector, VectorPair, NoVectors, Summary,
                toolVars, fuzzVars
  <2>4. ASSUME Interrupt \/ Kill \/ Neighbour PROVE UNCHANGED <<library, baseline>>
    BY <2>4 DEF Interrupt, Kill, Neighbour, toolVars, fuzzVars
  <2>5. ASSUME NEW c \in Commands, Invoke(c) PROVE UNCHANGED <<library, baseline>>
    BY <2>5 DEF Invoke
  <2>6. ASSUME UNCHANGED vars PROVE UNCHANGED <<library, baseline>>
    BY <2>6 DEF vars, toolVars, fuzzVars
  <2> QED BY <2>1, <2>2, <2>3, <2>4, <2>5, <2>6 DEF Next
<1> QED BY <1>1 DEF Stocked

LEMMA FuzzedOpening ==
  ASSUME Fuzzed, tool.tool = "hazmat", UNCHANGED <<tool, library>>, script # <<>>, UNCHANGED found,
         Boot \/ LoadPrg \/ ChangeSpeed
  PROVE  Fuzzed'
<1>1. PICK p, q : /\ FuzzKnown(p) /\ FuzzMoving(p, Head(script), q)
                  /\ Walk(tool, Tail(script), q, Spot("gone"))
  BY FuzzedHere
<1>2. PICK x : x = Head(script)
  OBVIOUS
<1>3. x.op \in {"boot", "load", "speed"} /\ script' = Tail(script) /\ outcome' = outcome
  BY <1>2 DEF Boot, LoadPrg, ChangeSpeed, Now, Advance
<1>4. p = Spot("start") /\ q = p
  BY <1>1, <1>2, <1>3 DEF FuzzMoving
<1>5. FuzzKnown(q)'
  BY <1>1, <1>4 DEF FuzzKnown, Spot
<1> QED BY <1>1, <1>3, <1>5, FuzzedHere, FuzzedOn

LEMMA FuzzedGlue ==
  ASSUME Desk, Fuzzed, tool.tool = "hazmat", script # <<>>, CheckGlue
  PROVE  Fuzzed'
<1>1. PICK p, q : /\ FuzzKnown(p) /\ FuzzMoving(p, Head(script), q)
                  /\ Walk(tool, Tail(script), q, Spot("gone"))
  BY FuzzedHere
<1>2. PICK x : x = Head(script)
  OBVIOUS
<1>3. x.op = "known answer" /\ UNCHANGED <<tool, library, found>>
  BY <1>2 DEF CheckGlue, Now, Working, fuzzVars
<1>4. p = Spot("start") /\ q = <<"fuzz", 1, 0>>
  BY <1>1, <1>2, <1>3 DEF FuzzMoving
<1>5. CASE KnownAnswer(library.defect, library.window)
  <2>1. script' = Tail(script) /\ outcome' = outcome
    BY <1>5 DEF CheckGlue, Advance
  <2>2. found = {}
    BY <1>1, <1>4 DEF FuzzKnown, Spot
  <2>3. q[1] = "fuzz" /\ q[2] = 1 /\ 1 .. 1 - 1 = {}
    BY <1>4
  <2>4. FuzzKnown(q)'
    BY <1>3, <1>5, <2>2, <2>3 DEF FuzzKnown
  <2> QED BY <1>1, <1>3, <2>1, <2>4, FuzzedHere, FuzzedOn
<1>6. CASE ~KnownAnswer(library.defect, library.window)
  <2>1. script' = Finally(script) /\ outcome' = "glue"
    BY <1>6 DEF CheckGlue, Leave
  <2>2. script' = <<>>
    BY <2>1, Leaving
  <2>3. ~Passes'
    BY <1>3, <1>6 DEF Passes
  <2> QED BY <2>1, <2>2, <2>3 DEF Fuzzed
<1> QED BY <1>5, <1>6

LEMMA FuzzedCategory ==
  ASSUME Fuzzed, tool.tool = "hazmat", script # <<>>, FuzzCategory
  PROVE  Fuzzed'
<1>1. PICK p, q : /\ FuzzKnown(p) /\ FuzzMoving(p, Head(script), q)
                  /\ Walk(tool, Tail(script), q, Spot("gone"))
  BY FuzzedHere
<1>2. PICK x : x = Head(script)
  OBVIOUS
<1>3. /\ x.op = "fuzz" /\ UNCHANGED <<tool, library, outcome>> /\ script' = Tail(script)
      /\ found' = found \cup Found(x.category, tool.quick)
  BY <1>2 DEF FuzzCategory, Now, Working, Advance
<1>4. PICK i \in 1 .. 6 : /\ p = <<"fuzz", i, 0>> /\ q = <<"fuzz", i + 1, 0>>
                          /\ x.category = FuzzCategories[i]
  BY <1>1, <1>2, <1>3 DEF FuzzMoving
<1>5. /\ KnownAnswer(library.defect, library.window)
      /\ found = UNION {Seen(j) : j \in 1 .. i - 1}
  <2>1. p[1] = "fuzz" /\ p[2] = i
    BY <1>4
  <2> QED BY <1>1, <2>1 DEF FuzzKnown
<1>6. found' = found \cup Seen(i)
  BY <1>3, <1>4 DEF Seen
<1>7. \A j : Seen(j)' = Seen(j)
  BY <1>3 DEF Seen, Found
<1>8. UNION {Seen(j) : j \in 1 .. (i + 1) - 1} = (UNION {Seen(j) : j \in 1 .. i - 1}) \cup Seen(i)
  <2>1. \A j : j \in 1 .. (i + 1) - 1 <=> j \in 1 .. i - 1 \/ j = i
    OBVIOUS
  <2> QED BY <2>1
<1>9. found' = UNION {Seen(j)' : j \in 1 .. (i + 1) - 1}
  BY <1>5, <1>6, <1>7, <1>8
<1>10. FuzzKnown(q)'
  <2>1. q[1] = "fuzz" /\ q[2] = i + 1
    BY <1>4
  <2> QED BY <1>3, <1>5, <1>9, <2>1 DEF FuzzKnown
<1> QED BY <1>1, <1>3, <1>10, FuzzedHere, FuzzedOn

LEMMA FuzzedResult ==
  ASSUME Desk, Fuzzed, tool.tool = "hazmat", script # <<>>, Result
  PROVE  Fuzzed'
<1>1. PICK p, q : /\ FuzzKnown(p) /\ FuzzMoving(p, Head(script), q)
                  /\ Walk(tool, Tail(script), q, Spot("gone"))
  BY FuzzedHere
<1>2. PICK x : x = Head(script)
  OBVIOUS
<1>3. x.op = "result" /\ UNCHANGED <<tool, library, found>>
  BY <1>2 DEF Result, Now, Working, fuzzVars
<1>4. p = <<"fuzz", 7, 0>> /\ q = Spot("over")
  BY <1>1, <1>2, <1>3 DEF FuzzMoving
<1>5. /\ KnownAnswer(library.defect, library.window)
      /\ found = UNION {Seen(j) : j \in 1 .. 7 - 1}
  <2>1. p[1] = "fuzz" /\ p[2] = 7
    BY <1>4
  <2> QED BY <1>1, <2>1 DEF FuzzKnown
<1>6. found = {} <=> Passes
  <2>1. 7 - 1 = 6
    OBVIOUS
  <2>2. found = {} <=> \A j \in 1 .. 6 : Seen(j) = {}
    BY <1>5, <2>1
  <2> QED BY <1>5, <2>2 DEF Passes
<1>7. Passes' = Passes
  BY <1>3 DEF Passes, Seen, Found
<1>8. CASE found = {}
  <2>1. script' = Tail(script) /\ outcome' = outcome
    BY <1>8 DEF Result, Advance
  <2>2. FuzzKnown(q)'
    BY <1>4, <1>6, <1>7, <1>8 DEF FuzzKnown, Spot
  <2> QED BY <1>1, <1>3, <2>1, <2>2, FuzzedHere, FuzzedOn
<1>9. CASE found # {}
  <2>1. script' = Finally(script) /\ outcome' = "mismatches"
    BY <1>9 DEF Result, Leave
  <2>2. script' = <<>>
    BY <2>1, Leaving
  <2> QED BY <1>6, <1>7, <1>9, <2>1, <2>2 DEF Fuzzed
<1> QED BY <1>8, <1>9

LEMMA FuzzedEnd ==
  ASSUME Fuzzed, tool.tool = "hazmat", UNCHANGED <<tool, library>>, script # <<>>, End
  PROVE  Fuzzed'
<1>1. PICK p, q : /\ FuzzKnown(p) /\ FuzzMoving(p, Head(script), q)
                  /\ Walk(tool, Tail(script), q, Spot("gone"))
  BY FuzzedHere
<1>2. PICK x : x = Head(script)
  OBVIOUS
<1>3. /\ x.op = "end" /\ script' = Tail(script)
      /\ outcome' = IF outcome = "running" THEN "ok" ELSE outcome
  BY <1>2 DEF End, Now, Advance
<1>4. p = Spot("over") /\ q = Spot("gone")
  BY <1>1, <1>2, <1>3 DEF FuzzMoving
<1>5. outcome' = "ok"
  BY <1>3, FuzzedHere
<1>6. Passes'
  <2>1. Passes
    BY <1>1, <1>4 DEF FuzzKnown, Spot
  <2> QED BY <2>1 DEF Passes, Seen, Found
<1>7. ASSUME script' # <<>> PROVE FALSE
  <2>1. PICK r : Moves(tool, q, Head(script'), r)
    BY <1>1, <1>3, <1>7, WalkHead
  <2>2. FuzzMoves(q, Head(script'), r)
    BY <2>1, FuzzMoved
  <2> QED BY <1>4, <2>2, FuzzOps
<1> QED BY <1>5, <1>6, <1>7 DEF Fuzzed

LEMMA FuzzedInvoke ==
  ASSUME Desk, NEW c \in Commands, Invoke(c)
  PROVE  Fuzzed'
<1>1. PICK t : t = tool'
  OBVIOUS
<1>2. t.tool = c.tool /\ script' = Whole(t)
  BY <1>1, Invoked DEF Full
<1>3. outcome' = "running" /\ found' = {}
  BY DEF Invoke
<1>4. ASSUME t.tool = "hazmat"
      PROVE  script' # <<>> /\ \E p : Walk(t, script', p, Spot("gone")) /\ FuzzKnown(p)'
  <2>1. Walk(t, script', Spot("start"), Spot("gone"))
    BY <1>2, <1>4, FuzzWalk
  <2>2. FuzzKnown(Spot("start"))'
    BY <1>3 DEF FuzzKnown, Spot
  <2>3. Spot("start") # Spot("gone")
    <3>1. Spot("start")[1] # Spot("gone")[1]
      BY DEF Spot
    <3> QED BY <3>1
  <2> QED BY <2>1, <2>2, <2>3, WalkOn
<1> QED BY <1>1, <1>3, <1>4 DEF Fuzzed

LEMMA FuzzedSession ==
  ASSUME Desk, Fuzzed, tool.tool = "hazmat", OnMachine \/ OnTool \/ OnFuzz
  PROVE  Fuzzed'
<1>1. script # <<>> /\ tool' = tool
  <2>1. ASSUME OnMachine PROVE script # <<>> /\ tool' = tool
    BY <2>1, PlainMachine DEF OnMachine, Working
  <2>2. ASSUME OnTool PROVE script # <<>> /\ tool' = tool
    BY <2>2, PlainTool DEF OnTool, Working
  <2> QED BY <2>1, <2>2, PlainFuzz
<1>2. Head(script).op \in {"boot", "load", "speed", "known answer", "fuzz", "result", "end"}
  BY <1>1, FuzzedHere
<1>3. CASE OnMachine
  <2>1. MachineStep /\ UNCHANGED <<library, found>>
    BY <1>3 DEF OnMachine, fuzzVars
  <2>2. /\ ~Blank /\ ~InstallWrapper /\ ~CalibrateWrapper /\ ~VerifyWrapper /\ ~SetupRoutine
        /\ ~RunRoutine /\ ~Sample /\ ~Record /\ ~Enter
    BY <1>2 DEF Blank, InstallWrapper, CalibrateWrapper, VerifyWrapper, SetupRoutine, RunRoutine,
                Sample, Record, Enter, Now
  <2>3. Boot \/ LoadPrg \/ ChangeSpeed \/ End
    BY <2>1, <2>2 DEF MachineStep
  <2> QED BY <1>1, <2>1, <2>3, FuzzedOpening, FuzzedEnd
<1>4. CASE OnTool
  <2>1. ToolStep
    BY <1>4 DEF OnTool
  <2> QED BY <1>2, <2>1 DEF ToolStep, NeedSymbol, SkipRow, CompareRow, Gate, Turbo, LoadSidecar,
        TruncateSidecar, SaveSidecar, NeedExact, CtRow, CtOfRoutine, CtVerdict, Now
<1>5. CASE OnFuzz
  <2>1. ~Vector /\ ~VectorPair /\ ~NoVectors /\ ~Summary
    BY <1>2 DEF Vector, VectorPair, NoVectors, Summary, Now
  <2>2. CheckGlue \/ FuzzCategory \/ Result
    BY <1>5, <2>1 DEF OnFuzz
  <2> QED BY <1>1, <2>2, FuzzedGlue, FuzzedCategory, FuzzedResult
<1> QED BY <1>3, <1>4, <1>5

LEMMA FuzzedStep ==
  ASSUME Desk, Fuzzed, Next
  PROVE  Fuzzed'
<1>1. ASSUME tool' = tool, tool.tool # "hazmat" PROVE Fuzzed'
  BY <1>1 DEF Fuzzed
<1>2. ASSUME OnMachine \/ OnTool \/ OnFuzz PROVE Fuzzed'
  <2>1. tool' = tool
    BY <1>2, PlainFuzz DEF OnMachine, OnTool, Working
  <2> QED BY <1>1, <1>2, <2>1, FuzzedSession
<1>3. ASSUME Interrupt \/ Kill PROVE Fuzzed'
  <2>1. UNCHANGED tool /\ script # <<>> /\ outcome' \in {"interrupted", "killed"}
        /\ (script' = <<>> \/ script' = Finally(script))
    BY <1>3 DEF Interrupt, Kill, Leave, Working
  <2>2. tool.tool = "hazmat" => script' = <<>>
    BY <2>1, Leaving
  <2> QED BY <1>1, <2>1, <2>2 DEF Fuzzed
<1>4. ASSUME Neighbour PROVE Fuzzed'
  BY <1>4 DEF Neighbour, Fuzzed
<1>5. ASSUME NEW c \in Commands, Invoke(c) PROVE Fuzzed'
  BY <1>5, FuzzedInvoke
<1> QED BY <1>2, <1>3, <1>4, <1>5 DEF Next

LEMMA FuzzedStill ==
  ASSUME Fuzzed, UNCHANGED vars
  PROVE  Fuzzed'
<1>1. UNCHANGED <<tool, script, outcome, found, library>>
  BY DEF vars, machineVars, fuzzVars
<1>2. Passes' = Passes /\ \A p : FuzzKnown(p)' = FuzzKnown(p)
  BY <1>1 DEF Passes, FuzzKnown, Seen, Found
<1> QED BY <1>1, <1>2 DEF Fuzzed

LEMMA FuzzedAlways == Spec => [](Stocked /\ Fuzzed)
<1>1. Init => Stocked /\ Fuzzed
  <2>1. Init => tool.tool = "none"
    BY DEF Init
  <2> QED BY <2>1 DEF Init, Stocked, Fuzzed
<1>2. LabInv /\ Stocked /\ Fuzzed /\ [Next]_vars => Stocked' /\ Fuzzed'
  BY StockedStep, FuzzedStep, FuzzedStill DEF LabInv
<1> QED BY <1>1, <1>2, LabAlways, PTL DEF Spec

(* What the fuzzer's checks say of a library, by its defect.                *)

LEMMA OneKind ==
  /\ One("none")[1] = "none" /\ One("broken")[1] = "broken" /\ One("zero")[1] = "zero"
  /\ One("accepts any tag")[1] = "accepts any tag" /\ One("never publishes")[1] = "never publishes"
  /\ One("decrypts first")[1] = "decrypts first" /\ One("all bytes differ")[1] = "all bytes differ"
  /\ One("base")[1] = "base" /\ One("ee")[1] = "ee"
BY DEF One

LEMMA BlindKind == \A b : Blind(b)[1] = "blind" /\ Blind(b)[2] = b
BY DEF Blind

LEMMA GuardKind ==
  \A k, which, entry : /\ Guard(k, which, entry)[1] = k /\ Guard(k, which, entry)[2] = which
                       /\ Guard(k, which, entry)[3] = entry
BY DEF Guard

LEMMA WrongKind ==
  \A cat, i : WrongAt(cat, i)[1] = "wrong" /\ WrongAt(cat, i)[2] = cat /\ WrongAt(cat, i)[3] = i
BY DEF WrongAt

LEMMA FlippedKind == \A x, b : Flipped(x, b)[1] = "flipped"
BY DEF Flipped

LEMMA FlippedByte == \A x, b : Flipped(x, b)[3] = b
BY DEF Flipped

LEMMA FlippedNot == \A x, b : One("zero") # Flipped(x, b) /\ One("ee") # Flipped(x, b)
BY OneKind, FlippedKind

LEMMA DefectIs ==
  \A d : d \in SingleDefects <=> IsOne(d) \/ IsBlind(d) \/ IsGuard(d) \/ IsWrong(d)
<1> TAKE d
<1> DEFINE S1 == {<<"none">>, <<"broken">>, <<"accepts any tag">>, <<"never publishes">>,
                  <<"decrypts first">>}
           S2 == {<<"blind", b>> : b \in 0 .. 15}
           S3 == {<<k, which, entry>> : k \in {"unguarded", "strict"}, which \in {"data", "aad"},
                                        entry \in {"aead_encrypt", "aead_decrypt"}}
           S4 == UNION {{<<"wrong", cat, i>> : i \in 1 .. Edges[cat]} : cat \in DOMAIN Edges}
<1>1. d \in S1 <=> IsOne(d)
  BY DEF One, IsOne
<1>2. d \in S2 <=> IsBlind(d)
  BY DEF Blind, IsBlind
<1>3. d \in S3 <=> IsGuard(d)
  <2>1. ASSUME d \in S3 PROVE IsGuard(d)
    <3>1. /\ d[1] \in {"unguarded", "strict"} /\ d[2] \in {"data", "aad"}
          /\ d[3] \in {"aead_encrypt", "aead_decrypt"} /\ d = <<d[1], d[2], d[3]>>
      BY <2>1, SMT
    <3> HIDE DEF S3
    <3> QED BY <3>1 DEF Guard, IsGuard
  <2>2. ASSUME NEW k \in {"unguarded", "strict"}, NEW which \in {"data", "aad"},
               NEW entry \in {"aead_encrypt", "aead_decrypt"}
        PROVE  Guard(k, which, entry) \in S3
    BY DEF Guard
  <2> QED BY <2>1, <2>2 DEF IsGuard
<1>4. d \in S4 <=> IsWrong(d)
  BY DEF WrongAt, IsWrong
<1>5. d \in SingleDefects <=> d \in S1 \/ d \in S2 \/ d \in S3 \/ d \in S4
  BY DEF SingleDefects
<1> HIDE DEF S1, S2, S3, S4
<1> QED BY <1>1, <1>2, <1>3, <1>4, <1>5

LEMMA XorTwice == \A a, b : Xor(Xor(a, b), b) = a
BY DEF Xor

LEMMA GlueEncryptIs ==
  ASSUME NEW d, NEW w, NEW key, NEW aad, NEW pt
  PROVE  Sealed(d, key, aad, pt, GlueEncrypt(d, w, key, aad, pt))
<1> PICK ram : ram = Xor(pt, LibraryStream(d, key))
  OBVIOUS
<1> PICK e : e = GlueEncrypt(d, w, key, aad, pt)
  OBVIOUS
<1> DEFINE c == Case("aead_encrypt", key, aad, Place("in", "in"))
           m == Loaded(pt, Poison.atag, <<"old">>)
<1>1. /\ c.place.data = "in" /\ c.place.aad = "in" /\ c.key = key /\ c.aad = aad
      /\ c.place["data"] = "in" /\ c.place["aad"] = "in"
  BY DEF Case, Place
<1>2. m.data = pt /\ m.atag = Poison.atag
  BY DEF Loaded
<1>3. e = Encrypt(d, w, c, m)
  BY DEF GlueEncrypt
<1> HIDE DEF c, m
<1>4. ~GuardStops(d, c)
  BY <1>1 DEF GuardStops, Past
<1>5. /\ CpuRead(w, AtTop(c.place.data), pt) = pt /\ CpuRead(w, AtTop(c.place.data), ram) = ram
      /\ AadRead(w, c) = aad
  BY <1>1 DEF CpuRead, AadRead, AtTop
<1> DEFINE tag == TagOf(key, aad, ram)
           atag == IF d = <<"never publishes">> THEN Poison.atag ELSE tag
<1>6. e = [data |-> ram, ptag |-> tag, scratch |-> "written", status |-> 0, atag |-> atag]
  BY <1>1, <1>2, <1>3, <1>4, <1>5 DEF Encrypt
<1> HIDE DEF tag, atag
<1>7. e.data = ram /\ e.ptag = tag /\ e.status = 0 /\ e.atag = atag
  BY <1>6
<1> QED BY <1>7 DEF tag, atag, Sealed

LEMMA DecryptLeaves ==
  ASSUME NEW m, DOMAIN m = {"data", "atag", "ptag", "scratch", "status"}, NEW tag, NEW st,
         NEW t, t = [m EXCEPT !.ptag = tag, !.scratch = "written", !.status = st]
  PROVE  t.status = st /\ t.data = m.data
OBVIOUS

LEMMA GlueDecryptIs ==
  ASSUME NEW d, NEW w, NEW key, NEW aad, NEW coded, NEW tag
  PROVE  Unsealed(d, key, aad, coded, tag, GlueDecrypt(d, w, key, aad, coded, tag))
<1> PICK t : t = GlueDecrypt(d, w, key, aad, coded, tag)
  OBVIOUS
<1> PICK c : c = Case("aead_decrypt", key, aad, Place("in", "in"))
  OBVIOUS
<1> PICK m : m = Loaded(coded, tag, <<"dd">>)
  OBVIOUS
<1> DEFINE high == AtTop(c.place.data)
           read == CpuRead(w, high, m.data)
           right == IF Past(c.place.data) \/ Past(c.place.aad) THEN <<"over wrapped memory">>
                    ELSE TagOf(c.key, AadRead(w, c), read)
           text == Xor(read, LibraryStream(d, c.key))
           plain == [m EXCEPT !.data = text]
           opens == Matches(d, right, m.atag)
           kept == IF opens \/ d = <<"decrypts first">> THEN plain ELSE m
           status == IF opens THEN 0 ELSE 255
<1>1. /\ c.place.data = "in" /\ c.place.aad = "in" /\ c.key = key /\ c.aad = aad
      /\ c.place["data"] = "in" /\ c.place["aad"] = "in"
  BY DEF Case, Place
<1>2. m.data = coded /\ m.atag = tag /\ DOMAIN m = {"data", "atag", "ptag", "scratch", "status"}
  BY DEF Loaded
<1>3. t = Decrypt(d, w, c, m)
  BY DEF GlueDecrypt
<1>4. ~GuardStops(d, c)
  BY <1>1 DEF GuardStops, Past
<1>5. t = [kept EXCEPT !.ptag = right, !.scratch = "written", !.status = status]
  BY <1>3, <1>4 DEF Decrypt
<1>6. read = coded /\ right = TagOf(key, aad, coded) /\ text = Xor(coded, LibraryStream(d, key))
  <2>1. high = FALSE /\ ~Past(c.place.data) /\ ~Past(c.place.aad)
    BY <1>1 DEF AtTop, Past
  <2>2. CpuRead(w, FALSE, m.data) = coded /\ AadRead(w, c) = aad
    BY <1>1, <1>2 DEF CpuRead, AadRead, AtTop
  <2> QED BY <1>1, <2>1, <2>2
<1>7. opens <=> Matches(d, TagOf(key, aad, coded), tag)
  BY <1>2, <1>6
<1> HIDE DEF right, text, opens, status
<1>8. /\ DOMAIN kept = {"data", "atag", "ptag", "scratch", "status"}
      /\ kept.data = IF opens \/ d = <<"decrypts first">> THEN text ELSE coded
  BY <1>2
<1> HIDE DEF kept
<1>9. t.status = status /\ t.data = kept.data
  BY <1>5, <1>8, DecryptLeaves
<1> QED BY <1>6, <1>7, <1>8, <1>9 DEF status, Unsealed

\* The terms of the checks differ.
LEMMA TermsDiffer ==
  /\ Ct = {"pt", "k"} /\ Xor(Ct, Stream("k")) = Pt /\ Pt # Ct
  /\ Xor(Pt, Stream("k")) = Ct
  /\ \A key, aad, text : TagOf(key, aad, text)[1] = "tag"
  /\ \A key, aad, text : TagOf(key, aad, text) # One("ee") /\ TagOf(key, aad, text) # One("zero")
  /\ \A key, aad, text, x, b : TagOf(key, aad, text) # Flipped(x, b)
  /\ TagOf("k", Aad, Xor(Ct, {"bit"})) # Tag /\ TagOf("k", Xor(Aad, {"bit"}), Ct) # Tag
  /\ TagOf("other k", Aad, Ct) # Tag
<1>1. Ct = {"pt", "k"} /\ Pt = {"pt"} /\ Xor(Pt, Stream("k")) = Ct
  BY DEF Ct, Pt, Xor, Stream
<1>2. Xor(Ct, Stream("k")) = Pt
  BY XorTwice DEF Ct
<1>3. Pt # Ct
  BY <1>1
<1>4. \A key, aad, text : /\ TagOf(key, aad, text)[1] = "tag" /\ TagOf(key, aad, text)[2] = key
                          /\ TagOf(key, aad, text)[3] = aad /\ TagOf(key, aad, text)[4] = text
  BY DEF TagOf
<1>5. /\ \A key, aad, text : TagOf(key, aad, text) # One("ee") /\ TagOf(key, aad, text) # One("zero")
      /\ \A key, aad, text, x, b : TagOf(key, aad, text) # Flipped(x, b)
  <2>1. \A key, aad, text : TagOf(key, aad, text)[1] = "tag"
    BY <1>4
  <2>2. \A key, aad, text : TagOf(key, aad, text) # One("ee") /\ TagOf(key, aad, text) # One("zero")
    BY <2>1, OneKind
  <2>3. \A key, aad, text, x, b : TagOf(key, aad, text) # Flipped(x, b)
    BY <2>1, FlippedKind
  <2> QED BY <2>2, <2>3
<1>6. Tag[2] = "k" /\ Tag[3] = Aad /\ Tag[4] = Ct
  BY <1>4 DEF Tag
<1>7. Xor(Ct, {"bit"}) # Ct /\ Xor(Aad, {"bit"}) # Aad
  BY <1>1 DEF Xor, Aad
<1>8. TagOf("k", Aad, Xor(Ct, {"bit"})) # Tag
  BY <1>4, <1>6, <1>7
<1>9. TagOf("k", Xor(Aad, {"bit"}), Ct) # Tag
  BY <1>4, <1>6, <1>7
<1>10. TagOf("other k", Aad, Ct) # Tag
  <2>1. TagOf("other k", Aad, Ct)[2] = "other k"
    BY <1>4
  <2> QED BY <1>6, <2>1
<1>11. \A key, aad, text : TagOf(key, aad, text)[1] = "tag"
  BY <1>4
<1> QED BY <1>1, <1>2, <1>3, <1>5, <1>8, <1>9, <1>10, <1>11

LEMMA KnownAnswerIs ==
  ASSUME NEW d, NEW w
  PROVE  KnownAnswer(d, w) <=> d # <<"broken">>
<1> PICK ram : ram = Xor(Pt, LibraryStream(d, "k"))
  OBVIOUS
<1> PICK e : e = GlueEncrypt(d, w, "k", Aad, Pt)
  OBVIOUS
<1>1. e.data = ram /\ e.ptag = TagOf("k", Aad, ram)
  <2>1. Sealed(d, "k", Aad, Pt, e)
    BY GlueEncryptIs
  <2> QED BY <2>1 DEF Sealed
<1>2. KnownAnswer(d, w) <=> e.data = Ct /\ e.ptag = Tag
  BY DEF KnownAnswer
<1>3. d # <<"broken">> => ram = Ct
  BY TermsDiffer DEF LibraryStream
<1>4. d = <<"broken">> => ram # Ct
  <2>1. Xor(Pt, {"garbage"}) # {"pt", "k"}
    BY DEF Xor, Pt
  <2> QED BY <2>1, TermsDiffer DEF LibraryStream
<1> QED BY <1>1, <1>2, <1>3, <1>4 DEF Tag

LEMMA BlindIs ==
  ASSUME NEW d \in SingleDefects, d[1] = "blind"
  PROVE  d = Blind(d[2]) /\ d[2] \in 0 .. 15
<1>1. CASE IsOne(d)
  BY <1>1, OneKind DEF IsOne
<1>2. CASE IsBlind(d)
  BY <1>2, BlindKind DEF IsBlind
<1>3. CASE IsGuard(d)
  BY <1>3, GuardKind DEF IsGuard
<1>4. CASE IsWrong(d)
  BY <1>4, WrongKind DEF IsWrong
<1> QED BY <1>1, <1>2, <1>3, <1>4, DefectIs

LEMMA MatchesIs ==
  ASSUME NEW d, NEW x, NEW y
  PROVE  Matches(d, x, y) <=>
           x = y \/ d = One("accepts any tag") \/ (d[1] = "blind" /\ y = Flipped(x, d[2]))
BY DEF Matches, One, Flipped

LEMMA VariantsAre ==
  /\ \A b \in {0, 7, 15} : Variant("k", Aad, Ct, Flipped(Tag, b)) \in TamperVariants
  /\ Variant("k", Aad, Ct, One("zero")) \in TamperVariants
  /\ \A u \in TamperVariants :
       /\ u.tag # TagOf(u.key, u.aad, u.ct)
       /\ \A x, b : u.tag = Flipped(x, b) => b \in {0, 7, 15}
<1>1. /\ \A b \in {0, 7, 15} : Variant("k", Aad, Ct, Flipped(Tag, b)) \in TamperVariants
      /\ Variant("k", Aad, Ct, One("zero")) \in TamperVariants
  BY DEF TamperVariants, Variant, Flipped, One
<1>2. ASSUME NEW u \in TamperVariants
      PROVE  \/ \E b \in {0, 7, 15} : u = Variant("k", Aad, Ct, Flipped(Tag, b))
             \/ u = Variant("k", Aad, Ct, One("zero"))
             \/ u = Variant("k", Aad, Xor(Ct, {"bit"}), Tag)
             \/ u = Variant("k", Xor(Aad, {"bit"}), Ct, Tag)
             \/ u = Variant("other k", Aad, Ct, Tag)
  BY DEF TamperVariants, Variant, Flipped, One
<1>3. \A k, a, c, t : /\ Variant(k, a, c, t).key = k /\ Variant(k, a, c, t).aad = a
                      /\ Variant(k, a, c, t).ct = c /\ Variant(k, a, c, t).tag = t
  BY DEF Variant
<1>4. \A x, y, b, c : Flipped(x, b) = Flipped(y, c) => b = c
  BY FlippedByte
<1>5. \A x, b : One("zero") # Flipped(x, b)
  BY FlippedNot
<1>6. ASSUME NEW u \in TamperVariants
      PROVE  /\ u.tag # TagOf(u.key, u.aad, u.ct)
             /\ \A x, b : u.tag = Flipped(x, b) => b \in {0, 7, 15}
  <2>1. CASE \E b \in {0, 7, 15} : u = Variant("k", Aad, Ct, Flipped(Tag, b))
    <3>1. PICK b \in {0, 7, 15} : u = Variant("k", Aad, Ct, Flipped(Tag, b))
      BY <2>1
    <3>2. PICK c : c = b
      OBVIOUS
    <3>3. u.key = "k" /\ u.aad = Aad /\ u.ct = Ct /\ u.tag = Flipped(Tag, c) /\ c \in {0, 7, 15}
      BY <1>3, <3>1, <3>2
    <3>4. TagOf("k", Aad, Ct) # Flipped(Tag, c)
      BY TermsDiffer
    <3> QED BY <1>4, <3>3, <3>4
  <2>2. CASE u = Variant("k", Aad, Ct, One("zero"))
    <3>1. u.key = "k" /\ u.aad = Aad /\ u.ct = Ct /\ u.tag = One("zero")
      BY <1>3, <2>2
    <3>2. TagOf("k", Aad, Ct) # One("zero")
      BY TermsDiffer
    <3> QED BY <1>5, <3>1, <3>2
  <2>3. \A x, b : Tag # Flipped(x, b)
    BY TermsDiffer DEF Tag
  <2>4. CASE u = Variant("k", Aad, Xor(Ct, {"bit"}), Tag)
    <3>1. u.key = "k" /\ u.aad = Aad /\ u.ct = Xor(Ct, {"bit"}) /\ u.tag = Tag
      BY <1>3, <2>4
    <3>2. TagOf("k", Aad, Xor(Ct, {"bit"})) # Tag
      BY TermsDiffer
    <3> QED BY <2>3, <3>1, <3>2
  <2>5. CASE u = Variant("k", Xor(Aad, {"bit"}), Ct, Tag)
    <3>1. u.key = "k" /\ u.aad = Xor(Aad, {"bit"}) /\ u.ct = Ct /\ u.tag = Tag
      BY <1>3, <2>5
    <3>2. TagOf("k", Xor(Aad, {"bit"}), Ct) # Tag
      BY TermsDiffer
    <3> QED BY <2>3, <3>1, <3>2
  <2>6. CASE u = Variant("other k", Aad, Ct, Tag)
    <3>1. u.key = "other k" /\ u.aad = Aad /\ u.ct = Ct /\ u.tag = Tag
      BY <2>6 DEF Variant
    <3>2. TagOf("other k", Aad, Ct) # Tag
      BY TermsDiffer
    <3> QED BY <2>3, <3>1, <3>2
  <2> QED BY <1>2, <2>1, <2>2, <2>4, <2>5, <2>6
<1> QED BY <1>1, <1>6

\* Every tampered message is caught, unless the tag check or its place in
\* aead_decrypt is what is wrong.
LEMMA CaughtIs ==
  ASSUME NEW d \in SingleDefects, NEW w
  PROVE  (\A u \in TamperVariants : Caught(d, w, u)) <=> d \notin BadMatch /\ d # One("decrypts first")
<1>1. ASSUME NEW u
      PROVE  Caught(d, w, u) <=> ~Matches(d, TagOf(u.key, u.aad, u.ct), u.tag) /\ d # One("decrypts first")
  <2>1. PICK t : t = GlueDecrypt(d, w, u.key, u.aad, u.ct, u.tag)
    OBVIOUS
  <2>2. Unsealed(d, u.key, u.aad, u.ct, u.tag, t)
    BY <2>1, GlueDecryptIs
  <2>3. Xor(u.ct, LibraryStream(d, u.key)) # u.ct
    <3>1. LibraryStream(d, u.key) # {}
      BY DEF LibraryStream, Stream
    <3>2. \A a, b : b # {} => Xor(a, b) # a
      BY DEF Xor
    <3> QED BY <3>1, <3>2
  <2> DEFINE opens == Matches(d, TagOf(u.key, u.aad, u.ct), u.tag)
  <2>4. /\ t.status = IF opens THEN 0 ELSE 255
        /\ t.data = IF opens \/ d = One("decrypts first")
                    THEN Xor(u.ct, LibraryStream(d, u.key)) ELSE u.ct
    BY <2>2 DEF Unsealed, One
  <2>5. Caught(d, w, u) <=> t.status # 0 /\ t.data = u.ct
    BY <2>1 DEF Caught
  <2> HIDE DEF opens
  <2>6. Caught(d, w, u) <=> ~opens /\ d # One("decrypts first")
    <3>1. ASSUME opens PROVE ~Caught(d, w, u)
      BY <2>4, <2>5, <3>1
    <3>2. ASSUME d = One("decrypts first") PROVE ~Caught(d, w, u)
      BY <2>3, <2>4, <2>5, <3>2
    <3>3. ASSUME ~opens, d # One("decrypts first") PROVE Caught(d, w, u)
      <4>1. t.status = 255
        BY <2>4, <3>3
      <4>2. t.data = u.ct
        BY <2>4, <3>3
      <4> QED BY <2>5, <4>1, <4>2
    <3> QED BY <3>1, <3>2, <3>3
  <2> QED BY <2>6 DEF opens
<1>2. ASSUME d \notin BadMatch, NEW u \in TamperVariants
      PROVE  ~Matches(d, TagOf(u.key, u.aad, u.ct), u.tag)
  <2>1. ASSUME Matches(d, TagOf(u.key, u.aad, u.ct), u.tag) PROVE FALSE
    <3>1. d # One("accepts any tag") /\ u.tag # TagOf(u.key, u.aad, u.ct)
      BY <1>2, VariantsAre DEF BadMatch
    <3>2. d[1] = "blind" /\ u.tag = Flipped(TagOf(u.key, u.aad, u.ct), d[2])
      BY <2>1, <3>1, MatchesIs
    <3>3. d[2] \in {0, 7, 15}
      BY <3>2, VariantsAre
    <3>4. d = Blind(d[2])
      BY <3>2, BlindIs
    <3>5. PICK b \in {0, 7, 15} : d = Blind(b)
      BY <3>3, <3>4
    <3> QED BY <1>2, <3>5 DEF BadMatch
  <2> QED BY <2>1
<1>3. ASSUME d \in BadMatch
      PROVE  \E u \in TamperVariants : Matches(d, TagOf(u.key, u.aad, u.ct), u.tag)
  <2>1. \A t : LET u == Variant("k", Aad, Ct, t)
               IN  TagOf(u.key, u.aad, u.ct) = Tag /\ u.tag = t
    BY DEF Variant, Tag
  <2>2. CASE d = One("accepts any tag")
    <3>1. PICK u \in TamperVariants : u = Variant("k", Aad, Ct, One("zero"))
      BY VariantsAre
    <3> QED BY <2>2, MatchesIs
  <2>3. ASSUME NEW b \in {0, 7, 15}, d = Blind(b)
        PROVE  \E u \in TamperVariants : Matches(d, TagOf(u.key, u.aad, u.ct), u.tag)
    <3>1. PICK u \in TamperVariants : u = Variant("k", Aad, Ct, Flipped(Tag, b))
      BY VariantsAre
    <3>2. TagOf(u.key, u.aad, u.ct) = Tag /\ u.tag = Flipped(Tag, b)
      BY <2>1, <3>1
    <3>3. Matches(d, Tag, Flipped(Tag, b))
      BY <2>3, MatchesIs, BlindKind
    <3> QED BY <3>2, <3>3
  <2> QED BY <1>3, <2>2, <2>3 DEF BadMatch
<1> QED
  <2>1. CASE d \in BadMatch
    BY <1>1, <1>3, <2>1
  <2>2. CASE d \notin BadMatch /\ d # One("decrypts first")
    BY <1>1, <1>2, <2>2
  <2>3. CASE d = One("decrypts first")
    <3>1. PICK u \in TamperVariants : TRUE
      BY VariantsAre
    <3> QED BY <1>1, <2>3, <3>1
  <2> QED BY <2>1, <2>2, <2>3

LEMMA AeadIs ==
  ASSUME NEW d \in SingleDefects, NEW w, d # One("broken")
  PROVE  AeadMismatches(d, w) = {} <=>
           d \notin BadMatch \cup {One("never publishes"), One("decrypts first")}
<1> PICK e : e = GlueEncrypt(d, w, "k", Aad, Pt)
  OBVIOUS
<1> PICK t : t = GlueDecrypt(d, w, "k", Aad, Ct, Tag)
  OBVIOUS
<1>1. LibraryStream(d, "k") = Stream("k")
  BY DEF LibraryStream, One
<1>2. e.data = Ct /\ e.ptag = Tag /\ (e.atag = Tag <=> d # One("never publishes"))
  <2>1. Sealed(d, "k", Aad, Pt, e)
    BY GlueEncryptIs
  <2>2. Xor(Pt, LibraryStream(d, "k")) = Ct /\ Tag = TagOf("k", Aad, Ct)
    BY <1>1, TermsDiffer DEF Tag
  <2>3. Poison.atag # Tag
    BY TermsDiffer DEF Tag, Poison, One
  <2> QED BY <2>1, <2>2, <2>3 DEF Sealed, One
<1>3. t.status = 0 /\ t.data = Pt
  <2>1. Unsealed(d, "k", Aad, Ct, Tag, t)
    BY GlueDecryptIs
  <2>2. Matches(d, TagOf("k", Aad, Ct), Tag) /\ Xor(Ct, LibraryStream(d, "k")) = Pt
    BY <1>1, TermsDiffer, MatchesIs DEF Tag
  <2> QED BY <2>1, <2>2 DEF Unsealed
<1>4. AeadMismatches(d, w) = (IF e.atag = Tag THEN {} ELSE {<<"aead_encrypt/aead_tag">>})
                             \cup {<<"aead_decrypt-tamper", v>> : v \in {u \in TamperVariants :
                                    ~Caught(d, w, u)}}
  <2>1. \A u : ~Caught(d, w, u) <=> LET s == GlueDecrypt(d, w, u.key, u.aad, u.ct, u.tag)
                                    IN  s.status = 0 \/ s.data # u.ct
    BY DEF Caught
  <2>2. {u \in TamperVariants : ~Caught(d, w, u)}
        = {u \in TamperVariants : LET s == GlueDecrypt(d, w, u.key, u.aad, u.ct, u.tag)
                                  IN  s.status = 0 \/ s.data # u.ct}
    BY <2>1
  <2> HIDE DEF Caught
  <2> QED BY <1>2, <1>3, <2>2 DEF AeadMismatches
<1>5. AeadMismatches(d, w) = {} <=> e.atag = Tag /\ \A u \in TamperVariants : Caught(d, w, u)
  BY <1>4
<1> QED BY <1>2, <1>5, CaughtIs

LEMMA VerifyTagIs ==
  ASSUME NEW d \in SingleDefects
  PROVE  VerifyTagMismatches(d) = {} <=> d \notin BadMatch
<1> DEFINE base == One("base")
           flipped == {<<base, Flipped(base, b)>> : b \in {0, 7, 15}}
           pairs == {<<t, t>> : t \in {base, One("zero")}} \cup flipped
                    \cup {<<base, One("all bytes differ")>>}
<1>1. VerifyTagMismatches(d) = {} <=> \A q \in pairs : Matches(d, q[1], q[2]) <=> q[1] = q[2]
  <2>1. VerifyTagMismatches(d) = {<<"aead_verify_tag", p>> : p \in {q \in pairs :
            Matches(d, q[1], q[2]) # (q[1] = q[2])}}
    BY DEF VerifyTagMismatches, Flipped, One
  <2>2. \A q : (Matches(d, q[1], q[2]) # (q[1] = q[2])) <=> ~(Matches(d, q[1], q[2]) <=> q[1] = q[2])
    BY DEF Matches
  <2> HIDE DEF pairs
  <2> QED BY <2>1, <2>2
<1>2. base[1] = "base" /\ \A x, b : Flipped(x, b)[1] = "flipped"
  BY OneKind, FlippedKind
<1>3. One("all bytes differ")[1] = "all bytes differ" /\ One("zero")[1] = "zero"
  BY OneKind
<1> HIDE DEF base
<1>4. ASSUME d \in BadMatch
      PROVE  \E q \in pairs : Matches(d, q[1], q[2]) /\ q[1] # q[2]
  <2>1. CASE d = One("accepts any tag")
    <3>1. PICK q \in pairs : q = <<base, One("all bytes differ")>>
      OBVIOUS
    <3>2. q[1] = base /\ q[2] = One("all bytes differ")
      BY <3>1
    <3>3. q[1] # q[2] /\ Matches(d, q[1], q[2])
      BY <1>2, <1>3, <2>1, <3>2, MatchesIs
    <3> QED BY <3>3
  <2>2. ASSUME NEW b \in {0, 7, 15}, d = Blind(b)
        PROVE  \E q \in pairs : Matches(d, q[1], q[2]) /\ q[1] # q[2]
    <3>1. PICK q \in pairs : q = <<base, Flipped(base, b)>>
      OBVIOUS
    <3>2. q[1] = base /\ q[2] = Flipped(base, b)
      BY <3>1
    <3>3. q[1] # q[2]
      <4>1. q[1][1] = "base" /\ q[2][1] = "flipped"
        BY <1>2, <3>2
      <4> QED BY <4>1
    <3>4. Matches(d, q[1], q[2])
      BY <2>2, <3>2, MatchesIs, BlindKind
    <3> QED BY <3>3, <3>4
  <2> QED BY <1>4, <2>1, <2>2 DEF BadMatch
<1>5. ASSUME d \notin BadMatch, NEW q \in pairs
      PROVE  Matches(d, q[1], q[2]) <=> q[1] = q[2]
  <2>1. \A x, b : q[2] = Flipped(x, b) => b \in {0, 7, 15}
    <3>1. CASE q \in flipped
      <4>1. PICK b \in {0, 7, 15} : q = <<base, Flipped(base, b)>>
        BY <3>1
      <4>2. PICK c : c = b
        OBVIOUS
      <4>3. q[2][3] = c /\ c \in {0, 7, 15}
        BY <4>1, <4>2, FlippedByte
      <4>4. ASSUME NEW x, NEW a, q[2] = Flipped(x, a) PROVE a \in {0, 7, 15}
        <5> HIDE DEF flipped, pairs
        <5>1. q[2][3] = a
          BY <4>4, FlippedByte
        <5>2. a = c
          BY <4>3, <5>1
        <5> QED BY <4>3, <5>2
      <4> QED BY <4>4
    <3>2. CASE q \notin flipped
      <4>1. CASE q \in {<<t, t>> : t \in {base, One("zero")}}
        <5>1. PICK t : t \in {base, One("zero")} /\ q = <<t, t>>
          BY <4>1
        <5>2. q[2] = t
          BY <5>1
        <5>3. q[2][1] = "base" \/ q[2][1] = "zero"
          BY <1>2, <1>3, <5>1, <5>2
        <5> QED BY <1>2, <5>3
      <4>2. CASE q = <<base, One("all bytes differ")>>
        <5>1. q[2][1] = "all bytes differ"
          BY <1>3, <4>2
        <5> QED BY <1>2, <5>1
      <4> QED BY <3>2, <4>1, <4>2
    <3> QED BY <3>1, <3>2
  <2>2. ASSUME Matches(d, q[1], q[2]), q[1] # q[2] PROVE FALSE
    <3>1. d # One("accepts any tag")
      BY <1>5 DEF BadMatch
    <3>2. d[1] = "blind" /\ q[2] = Flipped(q[1], d[2])
      BY <2>2, <3>1, MatchesIs
    <3>3. d[2] \in {0, 7, 15}
      BY <2>1, <3>2
    <3>4. d = Blind(d[2])
      BY <3>2, BlindIs
    <3>5. PICK b \in {0, 7, 15} : d = Blind(b)
      BY <3>3, <3>4
    <3> QED BY <1>5, <3>5 DEF BadMatch
  <2> QED BY <2>2, MatchesIs
<1> HIDE DEF pairs
<1> QED BY <1>1, <1>4, <1>5

LEMMA CorpusIs ==
  ASSUME NEW d, NEW cat, NEW quick
  PROVE  CorpusMismatches(d, cat, quick) = {} <=>
           \A i \in 1 .. Counts(quick)[cat] : d # WrongAt(cat, i)
<1>1. \A i : Wrong(d, cat, i) <=> d = WrongAt(cat, i)
  BY DEF Wrong, WrongAt
<1>2. CorpusMismatches(d, cat, quick) = {} <=>
        {j \in 1 .. Counts(quick)[cat] : Wrong(d, cat, j)} = {}
  BY DEF CorpusMismatches
<1> QED BY <1>1, <1>2

(* The wrap guards.                                                         *)

LEMMA ProbeIs ==
  ASSUME NEW w \in Windows
  PROVE  Probe(w).mode = w /\ (w = "cpu_rom" => Probe(w).view = Rom)
<1> DEFINE a == {"ks1"}  b == {"ks2"}
           ram1 == Xor(CpuRead(w, TRUE, {"ram"}), a)
           ram2 == Xor(CpuRead(w, TRUE, ram1), b)
           out1 == HostRead(w, TRUE, ram1)
           out2 == HostRead(w, TRUE, ram2)
<1>1. Probe(w) = CASE Xor(out1, out2) = Xor(a, b) -> [mode |-> "cpu_rom", view |-> Xor(out1, a)]
                   [] Xor(out1, out2) = b -> [mode |-> "cpu_ram", view |-> {}]
                   [] OTHER -> [mode |-> "opaque", view |-> {}]
  BY DEF Probe
<1>2. Xor(a, b) = {"ks1", "ks2"}
  BY DEF Xor
<1>3. w = "cpu_rom" => Xor(out1, out2) = Xor(a, b) /\ Xor(out1, a) = Rom
  <2> SUFFICES ASSUME w = "cpu_rom" PROVE Xor(out1, out2) = Xor(a, b) /\ Xor(out1, a) = Rom
    OBVIOUS
  <2>1. out1 = Xor(Rom, a) /\ out2 = Xor(Rom, b)
    BY DEF CpuRead, HostRead
  <2>2. Xor(Xor(Rom, a), Xor(Rom, b)) = Xor(a, b)
    BY DEF Xor
  <2> HIDE DEF out1, out2, a, b
  <2> QED BY <2>1, <2>2, XorTwice
<1>4. w = "cpu_ram" => Xor(out1, out2) = b
  <2> SUFFICES ASSUME w = "cpu_ram" PROVE Xor(out1, out2) = b
    OBVIOUS
  <2>1. out1 = ram1 /\ out2 = Xor(ram1, b)
    BY DEF CpuRead, HostRead
  <2>2. \A x, y : Xor(x, Xor(x, y)) = y
    BY DEF Xor
  <2> HIDE DEF out1, out2, ram1, b
  <2> QED BY <2>1, <2>2
<1>5. w = "opaque" => Xor(out1, out2) = {}
  <2> SUFFICES ASSUME w = "opaque" PROVE Xor(out1, out2) = {}
    OBVIOUS
  <2>1. out1 = Rom /\ out2 = Rom
    BY DEF HostRead
  <2>2. \A x : Xor(x, x) = {}
    BY DEF Xor
  <2> HIDE DEF out1, out2
  <2> QED BY <2>1, <2>2
<1>6. b # Xor(a, b) /\ b # {} /\ Xor(a, b) # {}
  BY <1>2
<1> PICK x : x = Xor(out1, out2)
  OBVIOUS
<1> PICK v : v = Xor(out1, a)
  OBVIOUS
<1>7. Probe(w) = CASE x = Xor(a, b) -> [mode |-> "cpu_rom", view |-> v]
                   [] x = b -> [mode |-> "cpu_ram", view |-> {}]
                   [] OTHER -> [mode |-> "opaque", view |-> {}]
  BY <1>1
<1>8. w \in {"cpu_rom", "cpu_ram", "opaque"}
  BY DEF Windows
<1> HIDE DEF a, b, out1, out2
<1>9. CASE w = "cpu_rom"
  <2>1. x = Xor(a, b) /\ v = Rom
    BY <1>3, <1>9
  <2>2. Probe(w) = [mode |-> "cpu_rom", view |-> v]
    BY <1>6, <1>7, <2>1
  <2> QED BY <1>9, <2>1, <2>2
<1>10. CASE w = "cpu_ram"
  <2>1. Probe(w) = [mode |-> "cpu_ram", view |-> {}]
    BY <1>4, <1>6, <1>7, <1>10
  <2> QED BY <1>10, <2>1
<1>11. CASE w = "opaque"
  <2>1. Probe(w) = [mode |-> "opaque", view |-> {}]
    BY <1>5, <1>6, <1>7, <1>11
  <2> QED BY <1>11, <2>1
<1> QED BY <1>8, <1>9, <1>10, <1>11

LEMMA StopsIs ==
  ASSUME NEW d, NEW c
  PROVE  GuardStops(d, c) <=> \/ Stops(d, c.entry, "data", c.place.data)
                              \/ Stops(d, c.entry, "aad", c.place.aad)
<1>1. c.place["data"] = c.place.data /\ c.place["aad"] = c.place.aad
  OBVIOUS
<1>2. GuardStops(d, c) <=> \E which \in {"data", "aad"} : Stops(d, c.entry, which, c.place[which])
  BY DEF GuardStops, Stops, Guard
<1> QED BY <1>1, <1>2

LEMMA EncryptIs ==
  ASSUME NEW d, NEW w, NEW c, NEW m, ~GuardStops(d, c)
  PROVE  Encrypted(d, w, c, m, Encrypt(d, w, c, m))
<1> DEFINE high == AtTop(c.place.data)
           ram == Xor(CpuRead(w, high, m.data), LibraryStream(d, c.key))
           tag == TagOf(c.key, AadRead(w, c), CpuRead(w, high, ram))
           atag == IF d = <<"never publishes">> THEN m.atag ELSE tag
<1> PICK e : e = Encrypt(d, w, c, m)
  OBVIOUS
<1>1. e = [data |-> ram, ptag |-> tag, scratch |-> "written", status |-> 0, atag |-> atag]
  BY DEF Encrypt
<1>2. d # <<"never publishes">> => atag = tag
  OBVIOUS
<1> HIDE DEF tag, atag, ram
<1>3. e.data = ram /\ e.status = 0 /\ e.atag = atag
  BY <1>1
<1>4. DOMAIN e = Slot
  BY <1>1 DEF Slot
<1> QED BY <1>2, <1>3, <1>4 DEF Encrypted, ram, tag

LEMMA DecryptIs ==
  ASSUME NEW d, NEW w, NEW c, NEW m, DOMAIN m = Slot, ~GuardStops(d, c)
  PROVE  Decrypted(d, w, c, m, Decrypt(d, w, c, m))
<1> DEFINE high == AtTop(c.place.data)
           read == CpuRead(w, high, m.data)
           good == TagOf(c.key, AadRead(w, c), read)
           tag == IF Past(c.place.data) \/ Past(c.place.aad) THEN <<"over wrapped memory">> ELSE good
           plain == [m EXCEPT !.data = Xor(read, LibraryStream(d, c.key))]
           opens == Matches(d, tag, m.atag)
           kept == IF opens \/ d = <<"decrypts first">> THEN plain ELSE m
           status == IF opens THEN 0 ELSE 255
<1> PICK t : t = Decrypt(d, w, c, m)
  OBVIOUS
<1>1. t = [kept EXCEPT !.ptag = tag, !.scratch = "written", !.status = status]
  BY DEF Decrypt
<1>2. DOMAIN kept = Slot
  BY DEF Slot
<1>3. ~Past(c.place.data) /\ ~Past(c.place.aad) /\ m.atag = good => opens
  BY DEF Matches
<1>4. status \in {0, 255} /\ (opens => status = 0)
  OBVIOUS
<1> HIDE DEF kept, tag, status, opens, good
<1>5. t.status = status
  BY <1>1, <1>2 DEF Slot
<1> QED BY <1>3, <1>4, <1>5 DEF Decrypted, good

LEMMA Stopped ==
  ASSUME NEW d, NEW w, NEW c, NEW m, GuardStops(d, c)
  PROVE  /\ Encrypt(d, w, c, m) = [m EXCEPT !.status = 1]
         /\ Decrypt(d, w, c, m) = [m EXCEPT !.status = 1]
BY DEF Encrypt, Decrypt

LEMMA PoisonDiffers == \A key, aad, text : TagOf(key, aad, text) # Poison.atag
<1>1. Poison.atag = One("ee")
  BY DEF Poison, One
<1>2. \A key, aad, text : TagOf(key, aad, text) # One("ee")
  BY TermsDiffer
<1> QED BY <1>1, <1>2

LEMMA NothingSaid ==
  ASSUME NEW x, NEW y, NEW S
  PROVE  {<<x, y, f>> : f \in S} = {} <=> S = {}
OBVIOUS

LEMMA AcceptsData ==
  ASSUME NEW d, NEW w, NEW place, NEW probe, Fair(d, w, place, probe),
         place = "edge" => \A entry \in {"aead_encrypt", "aead_decrypt"} : d # Guard("strict", "data", entry)
  PROVE  AcceptData(d, w, probe, place) = {}
<1> PICK high \in BOOLEAN : high <=> place = "edge"
  OBVIOUS
<1> PICK random : random = {"random"}
  OBVIOUS
<1> PICK pt : pt = IF high /\ probe.mode = "cpu_rom" THEN probe.view ELSE HostRead(w, high, random)
  OBVIOUS
<1> PICK known \in BOOLEAN : known <=> ~high \/ probe.mode # "opaque"
  OBVIOUS
<1> PICK c : c = Case("aead_encrypt", "k", Aad, Place(place, "in"))
  OBVIOUS
<1> PICK c2 : c2 = [c EXCEPT !.entry = "aead_decrypt"]
  OBVIOUS
<1> PICK m : m = Loaded(random, Poison.atag, <<"old">>)
  OBVIOUS
<1> PICK e : e = Encrypt(d, w, c, m)
  OBVIOUS
<1> PICK t : t = Decrypt(d, w, c2, e)
  OBVIOUS
<1>1. /\ c.entry = "aead_encrypt" /\ c.key = "k" /\ c.aad = Aad
      /\ c.place.data = place /\ c.place.aad = "in"
  BY DEF Case, Place
<1>2. /\ c2.entry = "aead_decrypt" /\ c2.key = "k" /\ c2.aad = Aad
      /\ c2.place.data = place /\ c2.place.aad = "in"
  <2>1. DOMAIN c = {"entry", "key", "aad", "place"}
    BY DEF Case
  <2>2. c2.entry = "aead_decrypt" /\ c2.key = c.key /\ c2.aad = c.aad /\ c2.place = c.place
    BY <2>1
  <2> QED BY <1>1, <2>2
<1>3. m.data = random /\ m.atag = Poison.atag
  BY DEF Loaded
<1>4. place \in {"in", "edge"} /\ (high <=> place # "in")
  BY DEF Fair
<1>5. /\ ~high => probe.mode = "cpu_ram"
      /\ high => probe.mode = w /\ (w = "cpu_rom" => probe.view = Rom)
  <2>1. ~high => probe = [mode |-> "cpu_ram", view |-> {}]
    BY DEF Fair
  <2>2. high => probe = Probe(w)
    BY DEF Fair
  <2>3. w \in Windows
    BY DEF Fair
  <2>4. ~high => probe.mode = "cpu_ram"
    BY <2>1
  <2> QED BY <2>2, <2>3, <2>4, ProbeIs
<1>6. ~GuardStops(d, c) /\ ~GuardStops(d, c2)
  <2>1. \A entry \in {"aead_encrypt", "aead_decrypt"} :
          ~Stops(d, entry, "data", place) /\ ~Stops(d, entry, "aad", "in")
    BY <1>4 DEF Stops, Past
  <2>2. ~Stops(d, c.entry, "data", c.place.data) /\ ~Stops(d, c.entry, "aad", c.place.aad)
    BY <1>1, <2>1
  <2>3. ~Stops(d, c2.entry, "data", c2.place.data) /\ ~Stops(d, c2.entry, "aad", c2.place.aad)
    BY <1>2, <2>1
  <2> QED BY <2>2, <2>3, StopsIs
<1>7. LibraryStream(d, "k") = Stream("k") /\ AadRead(w, c) = Aad /\ AadRead(w, c2) = Aad
  BY <1>1, <1>2 DEF Fair, LibraryStream, One, AadRead, CpuRead, AtTop
<1> PICK ram : ram = Xor(CpuRead(w, high, random), Stream("k"))
  OBVIOUS
<1>8. /\ e.data = ram /\ e.status = 0 /\ DOMAIN e = Slot
      /\ e.atag = TagOf("k", Aad, CpuRead(w, high, ram))
  <2>1. Encrypted(d, w, c, m, e)
    BY <1>6, EncryptIs
  <2>2. d # <<"never publishes">>
    BY DEF Fair, One
  <2>3. AtTop(c.place.data) = high
    BY <1>1, <1>4 DEF AtTop
  <2> QED BY <1>1, <1>3, <1>7, <2>1, <2>2, <2>3 DEF Encrypted
<1>9. t.status = 0
  <2>1. Decrypted(d, w, c2, e, t)
    BY <1>6, <1>8, DecryptIs
  <2>2. AtTop(c2.place.data) = high /\ ~Past(c2.place.data) /\ ~Past(c2.place.aad)
    BY <1>2, <1>4 DEF AtTop, Past
  <2> QED BY <1>2, <1>7, <1>8, <2>1, <2>2 DEF Decrypted
<1>10. known => /\ HostRead(w, high, ram) = Xor(pt, Stream("k"))
                /\ AcceptedTag(probe, high, Aad, pt) = TagOf("k", Aad, CpuRead(w, high, ram))
  <2>1. CASE ~high
    <3>1. pt = random /\ HostRead(w, high, ram) = ram /\ CpuRead(w, high, ram) = ram
          /\ CpuRead(w, high, random) = random
      BY <2>1 DEF HostRead, CpuRead
    <3> QED BY <2>1, <3>1 DEF AcceptedTag
  <2>2. CASE high /\ w = "cpu_rom"
    <3>1. pt = Rom /\ probe.mode = "cpu_rom" /\ probe.view = Rom
      BY <1>5, <2>2
    <3>2. HostRead(w, high, ram) = ram /\ CpuRead(w, high, ram) = Rom
          /\ CpuRead(w, high, random) = Rom
      BY <2>2 DEF HostRead, CpuRead
    <3> QED BY <2>2, <3>1, <3>2 DEF AcceptedTag
  <2>3. CASE high /\ w = "cpu_ram"
    <3>1. probe.mode = "cpu_ram"
      BY <1>5, <2>3
    <3>2. pt = random /\ HostRead(w, high, ram) = ram /\ CpuRead(w, high, ram) = ram
          /\ CpuRead(w, high, random) = random
      BY <2>3, <3>1 DEF HostRead, CpuRead
    <3> QED BY <3>1, <3>2 DEF AcceptedTag
  <2>4. CASE high /\ w = "opaque"
    BY <1>5, <2>4
  <2>5. w \in {"cpu_rom", "cpu_ram", "opaque"}
    BY DEF Fair, Windows
  <2> QED BY <2>1, <2>2, <2>3, <2>4, <2>5
<1>11. e.atag # Poison.atag
  BY <1>8, PoisonDiffers
<1> DEFINE S == (IF e.status = 0 THEN {} ELSE {"status"})
                \cup (IF ~known \/ HostRead(w, high, e.data) = Xor(pt, Stream("k"))
                      THEN {} ELSE {"ciphertext"})
                \cup (IF (IF known THEN e.atag = AcceptedTag(probe, high, Aad, pt)
                          ELSE e.atag # Poison.atag) THEN {} ELSE {"tag"})
                \cup (IF t.status = 0 THEN {} ELSE {"decrypt-status"})
<1>12. S = {}
  <2>1. (IF known THEN e.atag = AcceptedTag(probe, high, Aad, pt) ELSE e.atag # Poison.atag)
    BY <1>8, <1>10, <1>11
  <2>2. ~known \/ HostRead(w, high, e.data) = Xor(pt, Stream("k"))
    BY <1>8, <1>10
  <2>3. /\ (IF e.status = 0 THEN {} ELSE {"status"}) = {}
        /\ (IF t.status = 0 THEN {} ELSE {"decrypt-status"}) = {}
        /\ (IF ~known \/ HostRead(w, high, e.data) = Xor(pt, Stream("k"))
            THEN {} ELSE {"ciphertext"}) = {}
        /\ (IF (IF known THEN e.atag = AcceptedTag(probe, high, Aad, pt)
                ELSE e.atag # Poison.atag) THEN {} ELSE {"tag"}) = {}
    BY <1>8, <1>9, <2>1, <2>2
  <2> QED BY <2>3
<1>13. AcceptData(d, w, probe, place) = {<<"accept data", place, f>> : f \in S}
  <2>1. (place = "edge") = high
    OBVIOUS
  <2> QED BY <2>1 DEF AcceptData
<1> HIDE DEF S
<1> QED BY <1>12, <1>13, NothingSaid

LEMMA AcceptsAad ==
  ASSUME NEW d, NEW w, NEW place, NEW probe, Fair(d, w, place, probe),
         place = "edge" => d # Guard("strict", "aad", "aead_encrypt")
  PROVE  AcceptAad(d, w, probe, place) = {}
<1> PICK high \in BOOLEAN : high <=> place = "edge"
  OBVIOUS
<1> PICK aad : aad = IF high /\ probe.mode = "cpu_rom" THEN probe.view ELSE HostRead(w, high, Aad)
  OBVIOUS
<1> PICK known \in BOOLEAN : known <=> place = "in" \/ probe.mode # "opaque"
  OBVIOUS
<1> PICK c : c = Case("aead_encrypt", "k", Aad, Place("in", place))
  OBVIOUS
<1> PICK m : m = Loaded(Pt, Poison.atag, <<"old">>)
  OBVIOUS
<1> PICK e : e = Encrypt(d, w, c, m)
  OBVIOUS
<1>1. /\ c.entry = "aead_encrypt" /\ c.key = "k" /\ c.aad = Aad
      /\ c.place.data = "in" /\ c.place.aad = place
  BY DEF Case, Place
<1>2. m.data = Pt /\ m.atag = Poison.atag
  BY DEF Loaded
<1>3. place \in {"in", "edge"} /\ (high <=> place # "in")
  BY DEF Fair
<1>4. high => probe.mode = w /\ (w = "cpu_rom" => probe.view = Rom)
  <2>1. high => probe = Probe(w)
    BY DEF Fair
  <2>2. w \in Windows
    BY DEF Fair
  <2> QED BY <2>1, <2>2, ProbeIs
<1>5. ~high => probe.mode = "cpu_ram"
  <2>1. ~high => probe = [mode |-> "cpu_ram", view |-> {}]
    BY DEF Fair
  <2> QED BY <2>1
<1>6. ~GuardStops(d, c)
  <2>1. ~Stops(d, "aead_encrypt", "data", "in") /\ ~Stops(d, "aead_encrypt", "aad", place)
    BY <1>3 DEF Stops, Past
  <2> QED BY <1>1, <2>1, StopsIs
<1>7. LibraryStream(d, "k") = Stream("k") /\ AadRead(w, c) = CpuRead(w, high, Aad)
  <2>1. AtTop(c.place.aad) = high
    BY <1>1, <1>3 DEF AtTop
  <2> QED BY <1>1, <2>1 DEF Fair, LibraryStream, One, AadRead
<1>8. e.data = Ct /\ e.status = 0 /\ e.atag = TagOf("k", CpuRead(w, high, Aad), Ct)
  <2>1. Encrypted(d, w, c, m, e)
    BY <1>6, EncryptIs
  <2>2. d # <<"never publishes">>
    BY DEF Fair, One
  <2>3. AtTop(c.place.data) = FALSE
    BY <1>1 DEF AtTop
  <2>4. CpuRead(w, FALSE, Pt) = Pt /\ CpuRead(w, FALSE, Ct) = Ct /\ Xor(Pt, Stream("k")) = Ct
    BY TermsDiffer DEF CpuRead
  <2>5. CpuRead(w, AtTop(c.place.data), m.data) = Pt /\ CpuRead(w, AtTop(c.place.data), Ct) = Ct
    BY <1>2, <2>3, <2>4
  <2>6. Xor(CpuRead(w, AtTop(c.place.data), m.data), LibraryStream(d, c.key)) = Ct
    BY <1>1, <1>7, <2>4, <2>5
  <2>7. e.data = Ct /\ e.status = 0
    BY <2>1, <2>6 DEF Encrypted
  <2>8. e.atag = TagOf(c.key, AadRead(w, c), CpuRead(w, AtTop(c.place.data), Ct))
    BY <2>1, <2>2, <2>6 DEF Encrypted
  <2> QED BY <1>1, <1>7, <2>5, <2>7, <2>8
<1>9. known => aad = CpuRead(w, high, Aad)
  <2>1. CASE ~high
    BY <2>1 DEF HostRead, CpuRead
  <2>2. CASE high /\ w = "cpu_rom"
    BY <1>4, <2>2 DEF CpuRead
  <2>3. CASE high /\ w = "cpu_ram"
    BY <1>4, <2>3 DEF HostRead, CpuRead
  <2>4. CASE high /\ w = "opaque"
    BY <1>3, <1>4, <2>4
  <2>5. w \in {"cpu_rom", "cpu_ram", "opaque"}
    BY DEF Fair, Windows
  <2> QED BY <2>1, <2>2, <2>3, <2>4, <2>5
<1>10. e.atag # Poison.atag
  BY <1>8, PoisonDiffers
<1> DEFINE S == (IF e.status = 0 THEN {} ELSE {"status"})
                \cup (IF ~known \/ e.data = Ct THEN {} ELSE {"ciphertext"})
                \cup (IF (IF known THEN e.atag = TagOf("k", aad, Ct) ELSE e.atag # Poison.atag)
                      THEN {} ELSE {"tag"})
<1>11. S = {}
  <2>1. (IF known THEN e.atag = TagOf("k", aad, Ct) ELSE e.atag # Poison.atag)
    BY <1>8, <1>9, <1>10
  <2>2. /\ (IF e.status = 0 THEN {} ELSE {"status"}) = {}
        /\ (IF ~known \/ e.data = Ct THEN {} ELSE {"ciphertext"}) = {}
        /\ (IF (IF known THEN e.atag = TagOf("k", aad, Ct) ELSE e.atag # Poison.atag)
            THEN {} ELSE {"tag"}) = {}
    BY <1>8, <2>1
  <2> QED BY <2>2
<1>12. AcceptAad(d, w, probe, place) = {<<"accept aad", place, f>> : f \in S}
  <2>1. (place = "edge") = high
    OBVIOUS
  <2> QED BY <2>1 DEF AcceptAad
<1> HIDE DEF S
<1> QED BY <1>11, <1>12, NothingSaid

\* A guard that is off by one stops what fits exactly.
LEMMA StrictData ==
  ASSUME NEW d, NEW w, NEW probe, NEW entry \in {"aead_encrypt", "aead_decrypt"},
         d = Guard("strict", "data", entry)
  PROVE  AcceptData(d, w, probe, "edge") # {}
<1> PICK c : c = Case("aead_encrypt", "k", Aad, Place("edge", "in"))
  OBVIOUS
<1> PICK c2 : c2 = [c EXCEPT !.entry = "aead_decrypt"]
  OBVIOUS
<1> PICK m : m = Loaded({"random"}, Poison.atag, <<"old">>)
  OBVIOUS
<1> PICK e : e = Encrypt(d, w, c, m)
  OBVIOUS
<1> PICK t : t = Decrypt(d, w, c2, e)
  OBVIOUS
<1>1. c.entry = "aead_encrypt" /\ c.place.data = "edge" /\ c.place.aad = "in"
  BY DEF Case, Place
<1>2. c2.entry = "aead_decrypt" /\ c2.place.data = "edge" /\ c2.place.aad = "in"
  <2>1. DOMAIN c = {"entry", "key", "aad", "place"}
    BY DEF Case
  <2>2. c2.entry = "aead_decrypt" /\ c2.place = c.place
    BY <2>1
  <2> QED BY <1>1, <2>2
<1>3. DOMAIN m = Slot
  BY DEF Loaded, Slot
<1>4. DOMAIN e = Slot
  <2>1. CASE GuardStops(d, c)
    <3>1. e = [m EXCEPT !.status = 1]
      BY <2>1, Stopped
    <3> QED BY <1>3, <3>1
  <2>2. CASE ~GuardStops(d, c)
    <3>1. Encrypted(d, w, c, m, e)
      BY <2>2, EncryptIs
    <3> QED BY <3>1 DEF Encrypted
  <2> QED BY <2>1, <2>2
<1>5. e.status # 0 \/ t.status # 0
  <2>1. CASE entry = "aead_encrypt"
    <3>1. Stops(d, c.entry, "data", c.place.data)
      BY <1>1, <2>1 DEF Stops
    <3>2. GuardStops(d, c)
      BY <3>1, StopsIs
    <3>3. e = [m EXCEPT !.status = 1]
      BY <3>2, Stopped
    <3>4. e.status = 1
      BY <1>3, <3>3 DEF Slot
    <3> QED BY <3>4
  <2>2. CASE entry = "aead_decrypt"
    <3>1. Stops(d, c2.entry, "data", c2.place.data)
      BY <1>2, <2>2 DEF Stops
    <3>2. GuardStops(d, c2)
      BY <3>1, StopsIs
    <3>3. t = [e EXCEPT !.status = 1]
      BY <3>2, Stopped
    <3>4. t.status = 1
      BY <1>4, <3>3 DEF Slot
    <3> QED BY <3>4
  <2> QED BY <2>1, <2>2
<1> PICK place : place = "edge"
  OBVIOUS
<1> PICK high \in BOOLEAN : high <=> place = "edge"
  OBVIOUS
<1> PICK pt : pt = IF high /\ probe.mode = "cpu_rom" THEN probe.view ELSE HostRead(w, high, {"random"})
  OBVIOUS
<1> PICK known \in BOOLEAN : known <=> ~high \/ probe.mode # "opaque"
  OBVIOUS
<1> DEFINE S == (IF e.status = 0 THEN {} ELSE {"status"})
                \cup (IF ~known \/ HostRead(w, high, e.data) = Xor(pt, Stream("k"))
                      THEN {} ELSE {"ciphertext"})
                \cup (IF (IF known THEN e.atag = AcceptedTag(probe, high, Aad, pt)
                          ELSE e.atag # Poison.atag) THEN {} ELSE {"tag"})
                \cup (IF t.status = 0 THEN {} ELSE {"decrypt-status"})
<1>6. S # {}
  BY <1>5
<1>7. AcceptData(d, w, probe, place) = {<<"accept data", place, f>> : f \in S}
  <2>1. (place = "edge") = high
    OBVIOUS
  <2> QED BY <2>1 DEF AcceptData
<1> HIDE DEF S
<1>8. AcceptData(d, w, probe, place) # {}
  <2> PICK a : a = AcceptData(d, w, probe, place)
    OBVIOUS
  <2> PICK fields : fields = S
    OBVIOUS
  <2>1. a = {<<"accept data", place, f>> : f \in fields}
    BY <1>7
  <2>2. fields # {}
    BY <1>6
  <2>3. a # {}
    BY ONLY <2>1, <2>2
  <2> QED BY <2>3
<1> QED BY <1>8

LEMMA StrictAad ==
  ASSUME NEW d, NEW w, NEW probe, d = Guard("strict", "aad", "aead_encrypt")
  PROVE  AcceptAad(d, w, probe, "edge") # {}
<1> PICK c : c = Case("aead_encrypt", "k", Aad, Place("in", "edge"))
  OBVIOUS
<1> PICK m : m = Loaded(Pt, Poison.atag, <<"old">>)
  OBVIOUS
<1> PICK e : e = Encrypt(d, w, c, m)
  OBVIOUS
<1>1. c.entry = "aead_encrypt" /\ c.place.data = "in" /\ c.place.aad = "edge"
  BY DEF Case, Place
<1>2. DOMAIN m = Slot
  BY DEF Loaded, Slot
<1>3. e.status = 1
  <2>1. Stops(d, c.entry, "aad", c.place.aad)
    BY <1>1 DEF Stops
  <2>2. GuardStops(d, c)
    BY <2>1, StopsIs
  <2>3. e = [m EXCEPT !.status = 1]
    BY <2>2, Stopped
  <2> QED BY <1>2, <2>3 DEF Slot
<1> PICK place : place = "edge"
  OBVIOUS
<1> PICK high \in BOOLEAN : high <=> place = "edge"
  OBVIOUS
<1> PICK aad : aad = IF high /\ probe.mode = "cpu_rom" THEN probe.view ELSE HostRead(w, high, Aad)
  OBVIOUS
<1> PICK known \in BOOLEAN : known <=> place = "in" \/ probe.mode # "opaque"
  OBVIOUS
<1> DEFINE S == (IF e.status = 0 THEN {} ELSE {"status"})
                \cup (IF ~known \/ e.data = Ct THEN {} ELSE {"ciphertext"})
                \cup (IF (IF known THEN e.atag = TagOf("k", aad, Ct) ELSE e.atag # Poison.atag)
                      THEN {} ELSE {"tag"})
<1>4. S # {}
  <2>1. e.status # 0
    BY <1>3
  <2>2. "status" \in S
    BY <2>1
  <2> HIDE DEF S
  <2> QED BY <2>2
<1>5. AcceptAad(d, w, probe, place) = {<<"accept aad", place, f>> : f \in S}
  <2>1. (place = "edge") = high
    OBVIOUS
  <2> QED BY <2>1 DEF AcceptAad
<1> HIDE DEF S
<1>6. AcceptAad(d, w, probe, place) # {}
  <2> PICK a : a = AcceptAad(d, w, probe, place)
    OBVIOUS
  <2> PICK fields : fields = S
    OBVIOUS
  <2>1. a = {<<"accept aad", place, f>> : f \in fields}
    BY <1>5
  <2>2. fields # {}
    BY <1>4
  <2>3. a # {}
    BY ONLY <2>1, <2>2
  <2> QED BY <2>3
<1> QED BY <1>6

LEMMA RejectIs ==
  ASSUME NEW d, NEW w \in Windows, NEW place \in WrapReject,
         NEW entry \in {"aead_encrypt", "aead_decrypt"}
  PROVE  Reject(d, w, Probe(w), entry, place) = {} <=> d # GuardOf(place, entry)
<1> PICK c : c = Case(entry, "k", Aad, place)
  OBVIOUS
<1> PICK before : before = [data |-> Poison.data, atag |-> Poison.atag, ptag |-> Poison.ptag,
                            scratch |-> Poison.scratch, status |-> 0]
  OBVIOUS
<1> PICK after : after = Call(d, w, c, before)
  OBVIOUS
<1> DEFINE high == AtTop(place.data)
<1>1. c.entry = entry /\ c.place = place
  BY DEF Case
<1>2. \/ Past(place.data) /\ place.data # "edge" /\ place.aad = "in"
      \/ ~Past(place.data) /\ place.data # "edge" /\ Past(place.aad) /\ place.aad # "edge"
  BY DEF WrapReject, Place, Past
<1>3. DOMAIN before = Slot
  BY DEF Slot
<1>4. GuardStops(d, c) <=> d # GuardOf(place, entry)
  <2>1. GuardStops(d, c) <=> Stops(d, entry, "data", place.data) \/ Stops(d, entry, "aad", place.aad)
    BY <1>1, StopsIs
  <2>2. ~Past("in")
    BY DEF Past
  <2> QED BY <1>2, <2>1, <2>2 DEF Stops, GuardOf
<1> DEFINE S == (IF after.status = 1 THEN {} ELSE {"status"})
                \cup (IF after.scratch = before.scratch THEN {} ELSE {"aead_scratch-untouched"})
                \cup (IF after.ptag = before.ptag THEN {} ELSE {"poly1305_tag-untouched"})
                \cup (IF entry = "aead_decrypt" \/ after.atag = before.atag THEN {}
                      ELSE {"aead_tag-untouched"})
                \cup (IF (high /\ Probe(w).mode = "opaque") \/ HostRead(w, high, after.data) = before.data
                      THEN {} ELSE {"front-sentinel"})
<1>5. Reject(d, w, Probe(w), entry, place) = {<<"reject", entry, place, f>> : f \in S}
  BY DEF Reject
<1>6. Reject(d, w, Probe(w), entry, place) = {} <=> S = {}
  <2> HIDE DEF S
  <2> QED BY <1>5
<1>7. CASE GuardStops(d, c)
  <2>1. after = [before EXCEPT !.status = 1]
    BY <1>7, Stopped DEF Call
  <2>2. /\ after.status = 1 /\ after.scratch = before.scratch /\ after.ptag = before.ptag
        /\ after.atag = before.atag /\ after.data = before.data
    BY <1>3, <2>1 DEF Slot
  <2>3. (high /\ Probe(w).mode = "opaque") \/ HostRead(w, high, after.data) = before.data
    <3>1. w = "opaque" => Probe(w).mode = "opaque"
      BY ProbeIs
    <3> HIDE DEF S
    <3>2. ~high \/ w # "opaque" => HostRead(w, high, after.data) = after.data
      BY DEF HostRead
    <3> QED BY <2>2, <3>1, <3>2
  <2>4. S = {}
    BY <2>2, <2>3
  <2> QED BY <1>4, <1>6, <1>7, <2>4
<1>8. CASE ~GuardStops(d, c)
  <2>1. after.status \in {0, 255}
    <3>1. CASE entry = "aead_encrypt"
      <4>1. Encrypted(d, w, c, before, after)
        BY <1>1, <1>8, <3>1, EncryptIs DEF Call
      <4> QED BY <4>1 DEF Encrypted
    <3>2. CASE entry = "aead_decrypt"
      <4>1. after = Decrypt(d, w, c, before)
        BY <1>1, <3>2 DEF Call
      <4>2. Decrypted(d, w, c, before, after)
        BY <1>3, <1>8, <4>1, DecryptIs
      <4> QED BY <4>2 DEF Decrypted
    <3> QED BY <3>1, <3>2
  <2>2. "status" \in S
    <3>1. after.status # 1
      BY <2>1
    <3> QED BY <3>1
  <2> QED BY <1>4, <1>6, <1>8, <2>2
<1> QED BY <1>7, <1>8

LEMMA WrapGuardIs ==
  ASSUME NEW d, d \notin {One("broken"), One("never publishes")}, NEW w \in Windows
  PROVE  WrapGuardMismatches(d, w) = {} <=> d \notin Misguarded
<1> DEFINE Entries == {"aead_encrypt", "aead_decrypt"}
<1> PICK probe : probe = Probe(w)
  OBVIOUS
<1> PICK ram : ram = [mode |-> "cpu_ram", view |-> {}]
  OBVIOUS
<1> DEFINE R(entry, place) == Reject(d, w, probe, entry, place)
           T(entry) == Rejects(d, w, probe, entry)
<1>1. WrapGuardMismatches(d, w) = {} <=>
        /\ AcceptData(d, w, ram, "in") = {} /\ AcceptAad(d, w, ram, "in") = {}
        /\ \A entry \in Entries, place \in WrapReject : R(entry, place) = {}
        /\ AcceptAad(d, w, probe, "edge") = {} /\ AcceptData(d, w, probe, "edge") = {}
  <2> PICK A : A = UNION {T(entry) : entry \in Entries}
    OBVIOUS
  <2>1. ASSUME NEW entry PROVE T(entry) = {} <=> \A place \in WrapReject : R(entry, place) = {}
    <3> PICK B : B = T(entry)
      OBVIOUS
    <3>1. B = UNION {R(entry, place) : place \in WrapReject}
      BY DEF Rejects
    <3>2. B = T(entry)
      OBVIOUS
    <3> HIDE DEF R, T
    <3>3. B = {} <=> \A place \in WrapReject : R(entry, place) = {}
      BY ONLY <3>1
    <3> QED BY ONLY <3>2, <3>3
  <2>2. A = {} <=> \A entry \in Entries : T(entry) = {}
    <3> HIDE DEF Entries, T
    <3> QED OBVIOUS
  <2>3. WrapGuardMismatches(d, w)
        = AcceptData(d, w, ram, "in") \cup AcceptAad(d, w, ram, "in") \cup A
          \cup AcceptAad(d, w, probe, "edge") \cup AcceptData(d, w, probe, "edge")
    <3>1. /\ probe = Probe(w) /\ ram = [mode |-> "cpu_ram", view |-> {}]
          /\ A = UNION {Rejects(d, w, Probe(w), entry) : entry \in {"aead_encrypt", "aead_decrypt"}}
      OBVIOUS
    <3>2. WrapGuardMismatches(d, w)
          = AcceptData(d, w, [mode |-> "cpu_ram", view |-> {}], "in")
            \cup AcceptAad(d, w, [mode |-> "cpu_ram", view |-> {}], "in")
            \cup (UNION {Rejects(d, w, Probe(w), entry) : entry \in {"aead_encrypt", "aead_decrypt"}})
            \cup AcceptAad(d, w, Probe(w), "edge") \cup AcceptData(d, w, Probe(w), "edge")
      BY DEF WrapGuardMismatches
    <3> QED BY ONLY <3>1, <3>2
  <2> HIDE DEF Entries, R, T
  <2> QED BY <2>1, <2>2, <2>3
<1>2. Fair(d, w, "in", ram) /\ Fair(d, w, "edge", probe)
  BY DEF Fair
<1>3. AcceptData(d, w, ram, "in") = {} /\ AcceptAad(d, w, ram, "in") = {}
  BY <1>2, AcceptsData, AcceptsAad
<1>4. AcceptData(d, w, probe, "edge") = {} <=>
        \A entry \in Entries : d # Guard("strict", "data", entry)
  BY <1>2, AcceptsData, StrictData
<1>5. AcceptAad(d, w, probe, "edge") = {} <=> d # Guard("strict", "aad", "aead_encrypt")
  BY <1>2, AcceptsAad, StrictAad
<1>6. (\A entry \in Entries, place \in WrapReject : R(entry, place) = {}) <=>
        \A entry \in Entries, which \in {"data", "aad"} : d # Guard("unguarded", which, entry)
  <2>1. ASSUME NEW entry \in Entries, NEW place \in WrapReject
        PROVE  R(entry, place) = {} <=> d # GuardOf(place, entry)
    <3>1. Reject(d, w, Probe(w), entry, place) = {} <=> d # GuardOf(place, entry)
      BY RejectIs
    <3>2. R(entry, place) = Reject(d, w, Probe(w), entry, place)
      OBVIOUS
    <3> QED BY ONLY <3>1, <3>2
  <2>2. \A entry : /\ \A place \in WrapReject :
                        GuardOf(place, entry) \in {Guard("unguarded", "data", entry),
                                                  Guard("unguarded", "aad", entry)}
                   /\ GuardOf(Place("out", "in"), entry) = Guard("unguarded", "data", entry)
                   /\ GuardOf(Place("in", "out"), entry) = Guard("unguarded", "aad", entry)
    BY DEF GuardOf, Place, Past
  <2>3. Place("out", "in") \in WrapReject /\ Place("in", "out") \in WrapReject
    BY DEF WrapReject
  <2> HIDE DEF Entries, R
  <2> QED BY <2>1, <2>2, <2>3
<1>7. d \notin Misguarded <=>
        /\ \A entry \in Entries, which \in {"data", "aad"} : d # Guard("unguarded", which, entry)
        /\ \A entry \in Entries : d # Guard("strict", "data", entry)
        /\ d # Guard("strict", "aad", "aead_encrypt")
  BY DEF Misguarded
<1> HIDE DEF Entries, R
<1> QED BY <1>1, <1>3, <1>4, <1>5, <1>6, <1>7

LEMMA CategoriesAre ==
  /\ DOMAIN Edges = {"chacha20_block", "chacha20_encrypt", "poly1305", "aead"}
  /\ FuzzCategories[1] = "chacha20_block" /\ FuzzCategories[2] = "chacha20_encrypt"
  /\ FuzzCategories[3] = "poly1305" /\ FuzzCategories[4] = "aead_verify_tag"
  /\ FuzzCategories[5] = "wrap_guard" /\ FuzzCategories[6] = "aead"
BY DEF Edges, FuzzCategories

LEMMA PassesIs ==
  ASSUME library.defect \in SingleDefects, library.window \in Windows
  PROVE  Passes <=> ~Reached(library.defect, tool.quick)
<1> PICK d : d = library.defect
  OBVIOUS
<1> PICK w : w = library.window
  OBVIOUS
<1> PICK quick : quick = tool.quick
  OBVIOUS
<1> DEFINE Clean(cat) == \A i \in 1 .. Counts(quick)[cat] : d # WrongAt(cat, i)
<1>1. /\ Seen(1) = CorpusMismatches(d, "chacha20_block", quick)
      /\ Seen(2) = CorpusMismatches(d, "chacha20_encrypt", quick)
      /\ Seen(3) = CorpusMismatches(d, "poly1305", quick)
      /\ Seen(4) = VerifyTagMismatches(d) /\ Seen(5) = WrapGuardMismatches(d, w)
      /\ Seen(6) = AeadMismatches(d, w) \cup CorpusMismatches(d, "aead", quick)
  BY CategoriesAre DEF Seen, Found
<1>2. \A cat : CorpusMismatches(d, cat, quick) = {} <=> Clean(cat)
  BY CorpusIs
<1>3. (\A i \in 1 .. 6 : Seen(i) = {}) <=>
        Seen(1) = {} /\ Seen(2) = {} /\ Seen(3) = {} /\ Seen(4) = {} /\ Seen(5) = {} /\ Seen(6) = {}
  <2>1. \A i \in 1 .. 6 : i = 1 \/ i = 2 \/ i = 3 \/ i = 4 \/ i = 5 \/ i = 6
    OBVIOUS
  <2>2. 1 \in 1 .. 6 /\ 2 \in 1 .. 6 /\ 3 \in 1 .. 6 /\ 4 \in 1 .. 6 /\ 5 \in 1 .. 6 /\ 6 \in 1 .. 6
    OBVIOUS
  <2> QED BY <2>1, <2>2
<1>4. (\A cat \in DOMAIN Edges : Clean(cat)) <=>
        Clean("chacha20_block") /\ Clean("chacha20_encrypt") /\ Clean("poly1305") /\ Clean("aead")
  <2> HIDE DEF Clean
  <2> QED BY CategoriesAre
<1>5. Reached(d, quick) <=> \/ d \in {One("broken"), One("never publishes"), One("decrypts first")}
                            \/ d \in BadMatch \/ d \in Misguarded
                            \/ ~\A cat \in DOMAIN Edges : Clean(cat)
  BY DEF Reached
<1>6. Passes <=> /\ d # One("broken") /\ (\A cat \in DOMAIN Edges : Clean(cat))
                 /\ VerifyTagMismatches(d) = {} /\ WrapGuardMismatches(d, w) = {}
                 /\ AeadMismatches(d, w) = {}
  <2>1. Passes <=> KnownAnswer(d, w) /\ \A i \in 1 .. 6 : Seen(i) = {}
    BY DEF Passes
  <2>2. KnownAnswer(d, w) <=> d # One("broken")
    BY KnownAnswerIs DEF One
  <2> HIDE DEF Clean
  <2> QED BY <1>1, <1>2, <1>3, <1>4, <2>1, <2>2
<1> HIDE DEF Clean
<1>7. CASE d = One("broken")
  BY <1>5, <1>6, <1>7
<1>8. CASE d # One("broken")
  <2>1. VerifyTagMismatches(d) = {} <=> d \notin BadMatch
    BY VerifyTagIs
  <2>2. AeadMismatches(d, w) = {} <=>
          d \notin BadMatch /\ d # One("never publishes") /\ d # One("decrypts first")
    BY <1>8, AeadIs
  <2>3. d # One("never publishes") => (WrapGuardMismatches(d, w) = {} <=> d \notin Misguarded)
    BY <1>8, WrapGuardIs
  <2> QED BY <1>5, <1>6, <1>8, <2>1, <2>2, <2>3
<1> QED BY <1>7, <1>8

LEMMA BeyondIn ==
  ASSUME NEW d, NEW quick
  PROVE  d \in Beyond(quick) <=>
           \/ d = One("none") \/ d = Guard("strict", "aad", "aead_decrypt")
           \/ \E b \in (0 .. 15) \ {0, 7, 15} : d = Blind(b)
           \/ \E cat \in DOMAIN Edges : \E i \in Counts(quick)[cat] + 1 .. Edges[cat] :
                d = WrongAt(cat, i)
<1> DEFINE S1 == {<<"none">>, <<"strict", "aad", "aead_decrypt">>}
           S2 == {<<"blind", b>> : b \in (0 .. 15) \ {0, 7, 15}}
           S3 == UNION {{<<"wrong", cat, i>> : i \in Counts(quick)[cat] + 1 .. Edges[cat]} :
                          cat \in DOMAIN Edges}
<1>1. d \in S1 <=> d = One("none") \/ d = Guard("strict", "aad", "aead_decrypt")
  BY DEF One, Guard
<1>2. d \in S2 <=> \E b \in (0 .. 15) \ {0, 7, 15} : d = Blind(b)
  BY DEF Blind
<1>3. d \in S3 <=> \E cat \in DOMAIN Edges : \E i \in Counts(quick)[cat] + 1 .. Edges[cat] :
                     d = WrongAt(cat, i)
  BY DEF WrongAt
<1>4. d \in Beyond(quick) <=> d \in S1 \/ d \in S2 \/ d \in S3
  BY DEF Beyond
<1> HIDE DEF S1, S2, S3
<1> QED BY <1>1, <1>2, <1>3, <1>4

LEMMA CountsAre == \A quick : \A cat \in DOMAIN Edges : Counts(quick)[cat] \in Nat /\ Edges[cat] \in Nat
BY DEF Edges, Counts, QuickCounts, FullCounts

LEMMA BadMatchIs == \A d : d \in BadMatch <=> d = One("accepts any tag") \/ \E b \in {0, 7, 15} : d = Blind(b)
BY DEF BadMatch

LEMMA MisguardedIs ==
  ASSUME NEW k \in {"unguarded", "strict"}, NEW which \in {"data", "aad"},
         NEW entry \in {"aead_encrypt", "aead_decrypt"}
  PROVE  Guard(k, which, entry) \in Misguarded
           <=> Guard(k, which, entry) # Guard("strict", "aad", "aead_decrypt")
BY GuardKind DEF Misguarded

LEMMA BlindByte == \A b, c : Blind(b) = Blind(c) => b = c
<1> TAKE b, c
<1>1. Blind(b)[2] = b /\ Blind(c)[2] = c
  BY BlindKind
<1> QED BY <1>1

LEMMA WrongPlace == \A cat, i, c, j : WrongAt(cat, i) = WrongAt(c, j) => c = cat /\ j = i
BY WrongKind

LEMMA NoGuard ==
  \A d : d[1] \notin {"unguarded", "strict"} =>
            d \notin Misguarded /\ \A which, entry : d # Guard("strict", which, entry)
BY GuardKind DEF Misguarded

LEMMA NoBlind == \A d : d[1] # "blind" => \A b : d # Blind(b)
BY BlindKind

LEMMA NoWrong == \A d : d[1] # "wrong" => \A cat, i : d # WrongAt(cat, i)
BY WrongKind

LEMMA NoOne ==
  \A d : d[1] \in {"blind", "unguarded", "strict", "wrong"} =>
            ~IsOne(d)
BY OneKind DEF IsOne

LEMMA OneFirst ==
  \A d : IsOne(d) => d[1] \notin {"blind", "unguarded", "strict", "wrong"}
BY OneKind DEF IsOne

LEMMA BeyondIs ==
  ASSUME NEW d \in SingleDefects, NEW quick
  PROVE  d \in Beyond(quick) <=> ~Reached(d, quick)
<1>1. CASE IsOne(d)
  <2>1. d[1] \notin {"blind", "unguarded", "strict", "wrong"}
    BY <1>1, OneFirst
  <2>2. (\A b : d # Blind(b)) /\ \A cat, i : d # WrongAt(cat, i)
    BY <2>1, NoBlind, NoWrong
  <2>3. d \notin Misguarded /\ d # Guard("strict", "aad", "aead_decrypt")
    BY <2>1, NoGuard
  <2>4. d \in Beyond(quick) <=> d = One("none")
    BY <2>2, <2>3, BeyondIn
  <2>5. Reached(d, quick) <=> d # One("none")
    <3>1. d \in BadMatch <=> d = One("accepts any tag")
      BY <2>2, BadMatchIs
    <3> QED BY <1>1, <2>2, <2>3, <3>1, OneKind DEF Reached, IsOne
  <2> QED BY <2>4, <2>5
<1>2. CASE IsBlind(d)
  <2>1. PICK b \in 0 .. 15 : d = Blind(b)
    BY <1>2 DEF IsBlind
  <2>2. d[1] = "blind"
    BY <2>1, BlindKind
  <2>3. /\ ~IsOne(d)
        /\ d \notin Misguarded /\ d # Guard("strict", "aad", "aead_decrypt")
        /\ \A cat, i : d # WrongAt(cat, i)
    BY <2>2, NoOne, NoGuard, NoWrong
  <2>4. \A S : (\E x \in S : d = Blind(x)) <=> b \in S
    BY <2>1, BlindByte
  <2>5. d \in Beyond(quick) <=> b \in (0 .. 15) \ {0, 7, 15}
    <3> DEFINE T == (0 .. 15) \ {0, 7, 15}
    <3>1. (\E x \in T : d = Blind(x)) <=> b \in T
      BY <2>4
    <3>2. d \in Beyond(quick) <=> \E x \in T : d = Blind(x)
      BY <2>3, BeyondIn DEF IsOne
    <3> QED BY <3>1, <3>2
  <2>6. Reached(d, quick) <=> b \in {0, 7, 15}
    <3> DEFINE T == {0, 7, 15}
    <3>1. (\E x \in T : d = Blind(x)) <=> b \in T
      BY <2>4
    <3>2. d \in BadMatch <=> \E x \in T : d = Blind(x)
      BY <2>3, BadMatchIs DEF IsOne
    <3> HIDE DEF T
    <3>3. Reached(d, quick) <=> b \in T
      BY <2>3, <3>1, <3>2 DEF Reached, IsOne
    <3> QED BY <3>3 DEF T
  <2> QED BY <2>1, <2>5, <2>6
<1>3. CASE IsGuard(d)
  <2>1. PICK k \in {"unguarded", "strict"}, which \in {"data", "aad"},
             entry \in {"aead_encrypt", "aead_decrypt"} : d = Guard(k, which, entry)
    BY <1>3 DEF IsGuard
  <2>2. d[1] \in {"unguarded", "strict"}
    BY <2>1, GuardKind
  <2>3. /\ ~IsOne(d)
        /\ (\A b : d # Blind(b)) /\ \A cat, i : d # WrongAt(cat, i)
    BY <2>2, NoOne, NoBlind, NoWrong
  <2>4. d \notin BadMatch
    BY <2>3, BadMatchIs DEF IsOne
  <2>5. d \in Beyond(quick) <=> d = Guard("strict", "aad", "aead_decrypt")
    BY <2>3, BeyondIn DEF IsOne
  <2>6. d \in Misguarded <=> d # Guard("strict", "aad", "aead_decrypt")
    BY <2>1, MisguardedIs
  <2> QED BY <2>3, <2>4, <2>5, <2>6 DEF Reached, IsOne
<1>4. CASE IsWrong(d)
  <2>1. PICK cat \in DOMAIN Edges : \E i \in 1 .. Edges[cat] : d = WrongAt(cat, i)
    BY <1>4 DEF IsWrong
  <2>2. PICK i \in 1 .. Edges[cat] : d = WrongAt(cat, i)
    BY <2>1
  <2>3. d[1] = "wrong"
    BY <2>2, WrongKind
  <2>4. /\ ~IsOne(d)
        /\ d \notin Misguarded /\ d # Guard("strict", "aad", "aead_decrypt")
        /\ \A b : d # Blind(b)
    BY <2>3, NoOne, NoGuard, NoBlind
  <2>5. \A c, j : d = WrongAt(c, j) <=> c = cat /\ j = i
    BY <2>2, WrongPlace
  <2>6. d \in Beyond(quick) <=> i \in Counts(quick)[cat] + 1 .. Edges[cat]
    <3> DEFINE T(c) == Counts(quick)[c] + 1 .. Edges[c]
    <3>1. d \in Beyond(quick) <=> \E c \in DOMAIN Edges : \E j \in T(c) : d = WrongAt(c, j)
      BY <2>4, BeyondIn DEF IsOne
    <3> HIDE DEF T
    <3>2. d \in Beyond(quick) <=> i \in T(cat)
      BY <2>5, <3>1
    <3> QED BY <3>2 DEF T
  <2>7. Reached(d, quick) <=> i \in 1 .. Counts(quick)[cat]
    <3>1. d \notin BadMatch
      BY <2>4, BadMatchIs DEF IsOne
    <3> QED BY <2>4, <2>5, <3>1 DEF Reached, IsOne
  <2>8. Counts(quick)[cat] \in Nat /\ Edges[cat] \in Nat
    BY CountsAre
  <2> QED BY <2>6, <2>7, <2>8
<1> QED BY <1>1, <1>2, <1>3, <1>4, DefectIs

\* Whatever window the machine has at $ff00, a run of hazmat_fuzz.py to its
\* end says PASS exactly of a library whose defect lies beyond its corpus:
\* its fixed inputs, tampered tags and guard probes find every other defect,
\* and its poison and its probe never blame a sound library (main).
THEOREM FuzzTrue == Spec => []FuzzExact
<1>1. Stocked /\ Fuzzed => FuzzExact
  <2> SUFFICES ASSUME Stocked, Fuzzed, Ended("hazmat")
               PROVE  /\ outcome = "ok" => library.defect \in Beyond(tool.quick)
                      /\ outcome \in {"glue", "mismatches"} => library.defect \notin Beyond(tool.quick)
    BY DEF FuzzExact
  <2>1. library.defect \in SingleDefects /\ library.window \in Windows
    BY LibrariesAssumption DEF Stocked
  <2>2. Passes <=> library.defect \in Beyond(tool.quick)
    BY <2>1, PassesIs, BeyondIs
  <2> QED BY <2>2 DEF Fuzzed, Ended
<1> QED BY <1>1, FuzzedAlways, PTL

(* The comparison with a baseline.                                          *)

LEMMA GateMoved ==
  ASSUME NEW c, c.tool = "bench-check", NEW p, NEW x, NEW q
  PROVE  Moves(c, p, x, q) <=> GateMoves(c.profile, p, x, q)
BY DEF Moves

LEMMA GateRowWalk ==
  ASSUME NEW cmd, cmd.tool = "bench-check", NEW i \in 1 .. 14
  PROVE  Walk(cmd, GranularRow(BenchTargets[i], cmd.profile, cmd.samples), <<"row", i, 0>>,
              <<"row", i + 1, 0>>)
<1> PICK t : t = BenchTargets[i]
  OBVIOUS
<1> DEFINE count == (IF "single_shot" \in t.options THEN 1 ELSE cmd.samples)
                    * (IF "small_routine" \in t.options THEN SmallFactor ELSE 1)
           loops == IF "loop_count" \in t.options THEN LoopCount ELSE 1
           x == [op |-> "need", routine |-> t.name, n |-> t.n]
           y == [op |-> "setup", routine |-> t.name, n |-> t.n]
           z == Measure(t.name, t.n, count, t.again, loops, "usual")[1]
           k == [op |-> "compare"]
           s == [op |-> "skip", routine |-> t.name, n |-> t.n]
<1>1. Unfit(i, cmd.profile) => GranularRow(t, cmd.profile, cmd.samples) = <<s>>
  BY DEF GranularRow, Unfit
<1>2. ~Unfit(i, cmd.profile) => GranularRow(t, cmd.profile, cmd.samples)
                                  = <<x>> \o <<y>> \o <<z>> \o <<k>>
  <2> PICK c : c = count
    OBVIOUS
  <2> PICK l : l = loops
    OBVIOUS
  <2>1. z = Measure(t.name, t.n, c, t.again, l, "usual")[1]
    OBVIOUS
  <2>2. Measure(t.name, t.n, c, t.again, l, "usual") = <<z>>
    BY <2>1 DEF Measure
  <2>3. ~Unfit(i, cmd.profile) => GranularRow(t, cmd.profile, cmd.samples)
          = <<x>> \o Setup(t.name, t.n) \o Measure(t.name, t.n, c, t.again, l, "usual") \o <<k>>
    BY DEF GranularRow, Unfit
  <2> HIDE DEF count, loops, x, z, k
  <2> QED BY <2>2, <2>3 DEF Setup
<1>3. /\ x.op = "need" /\ OfTarget(x, i) /\ y.op = "setup" /\ k.op = "compare"
      /\ s.op = "skip" /\ OfTarget(s, i)
  BY DEF OfTarget
<1>4. z.op = "measure" /\ OfTarget(z, i)
  <2> PICK c : c = count
    OBVIOUS
  <2> PICK l : l = loops
    OBVIOUS
  <2>1. z = Measure(t.name, t.n, c, t.again, l, "usual")[1]
    OBVIOUS
  <2> HIDE DEF z
  <2> QED BY <2>1 DEF Measure, OfTarget
<1> HIDE DEF x, y, z, k, s, count, loops
<1>5. Unfit(i, cmd.profile) => Moves(cmd, <<"row", i, 0>>, s, <<"row", i + 1, 0>>)
  BY <1>3, GateMoved DEF GateMoves
<1>6. /\ ~Unfit(i, cmd.profile) => Moves(cmd, <<"row", i, 0>>, x, <<"setup", i, 0>>)
      /\ Moves(cmd, <<"setup", i, 0>>, y, <<"measure", i, 0>>)
      /\ Moves(cmd, <<"measure", i, 0>>, z, <<"compare", i, 0>>)
      /\ Moves(cmd, <<"compare", i, 0>>, k, <<"row", i + 1, 0>>)
  BY <1>3, <1>4, GateMoved DEF GateMoves
<1>7. CASE Unfit(i, cmd.profile)
  BY <1>1, <1>5, <1>7, WalkOne
<1>8. CASE ~Unfit(i, cmd.profile)
  <2>1. /\ Walk(cmd, <<x>>, <<"row", i, 0>>, <<"setup", i, 0>>)
        /\ Walk(cmd, <<y>>, <<"setup", i, 0>>, <<"measure", i, 0>>)
        /\ Walk(cmd, <<z>>, <<"measure", i, 0>>, <<"compare", i, 0>>)
        /\ Walk(cmd, <<k>>, <<"compare", i, 0>>, <<"row", i + 1, 0>>)
    BY <1>6, <1>8, WalkOne
  <2>2. Walk(cmd, <<x>> \o <<y>>, <<"row", i, 0>>, <<"measure", i, 0>>)
    BY <2>1, WalkJoin
  <2>3. Walk(cmd, <<x>> \o <<y>> \o <<z>>, <<"row", i, 0>>, <<"compare", i, 0>>)
    BY <2>1, <2>2, WalkJoin
  <2>4. Walk(cmd, <<x>> \o <<y>> \o <<z>> \o <<k>>, <<"row", i, 0>>, <<"row", i + 1, 0>>)
    BY <2>1, <2>3, WalkJoin
  <2> QED BY <1>2, <1>8, <2>4
<1> QED BY <1>7, <1>8

LEMMA GateRowsWalk ==
  ASSUME NEW cmd, cmd.tool = "bench-check"
  PROVE  Walk(cmd, GranularRows(cmd.profile, cmd.samples), <<"row", 1, 0>>, <<"row", 15, 0>>)
<1> DEFINE n == Len(BenchTargets)  piece(i) == GranularRow(BenchTargets[i], cmd.profile, cmd.samples)
           g == [i \in 1 .. n |-> piece(i)]
           v == [i \in 0 .. 14 |-> <<"row", i + 1, 0>>]
<1>0. n = 14 /\ DOMAIN BenchTargets = 1 .. n
  BY DEF BenchTargets
<1>1. GranularRows(cmd.profile, cmd.samples) = FlattenSeq(g)
  <2>1. GranularRows(cmd.profile, cmd.samples) = FlattenSeq([i \in DOMAIN BenchTargets |-> piece(i)])
    BY DEF GranularRows, Cat
  <2> HIDE DEF piece
  <2> QED BY <1>0, <2>1
<1>2. ASSUME NEW i \in 1 .. 14 PROVE Walk(cmd, g[i], v[i - 1], v[i])
  <2>1. i - 1 \in 0 .. 14 /\ i \in 0 .. 14 /\ (i - 1) + 1 = i
    OBVIOUS
  <2>2. v[i - 1] = <<"row", i, 0>> /\ v[i] = <<"row", i + 1, 0>>
    BY <2>1
  <2>3. g[i] = GranularRow(BenchTargets[i], cmd.profile, cmd.samples)
    BY <1>0
  <2> HIDE DEF g, v, n, piece
  <2> QED BY <2>2, <2>3, GateRowWalk
<1>3. v[0] = <<"row", 1, 0>> /\ v[14] = <<"row", 15, 0>>
  OBVIOUS
<1>4. g = [i \in 1 .. 14 |-> g[i]]
  BY <1>0
<1> HIDE DEF g, v, n, piece
<1>5. Walk(cmd, FlattenSeq(g), v[0], v[14])
  BY <1>2, <1>4, WalkFlat
<1> QED BY <1>1, <1>3, <1>5

LEMMA GateWalk ==
  ASSUME NEW cmd, cmd.tool = "bench-check"
  PROVE  Walk(cmd, Whole(cmd), <<"row", 1, 0>>, Spot("gone"))
<1> DEFINE a == [op |-> "boot"]  b == [op |-> "speed", mhz |-> 1]  d == [op |-> "load"]
           e == [op |-> "install"]  f(n) == [op |-> "calibrate", samples |-> n]
           h == [op |-> "verify"]  g == [op |-> "gate"]  z == [op |-> "end"]
           p == <<"row", 1, 0>>  r == GranularRows(cmd.profile, cmd.samples)
           vice == <<a>> \o <<e>> \o <<f(10)>> \o <<h>>
           u64 == <<b>> \o <<d>> \o <<e>> \o <<f(20)>> \o <<h>>
           prologue == IF cmd.on = "u64" THEN u64 ELSE vice
<1>1. Whole(cmd) = prologue \o r \o <<g>> \o <<z>>
  <2> HIDE DEF r
  <2>1. VicePrologue = vice /\ U64Prologue = u64 /\ Do("gate") = <<g>> /\ Do("end") = <<z>>
    BY DEF VicePrologue, U64Prologue, Do, SetSpeed, Calibrate
  <2> HIDE DEF vice, u64, g, z
  <2> QED BY <2>1 DEF Whole, Script, BenchCheck, GranularVice, GranularU64, r
<1>2. /\ a.op = "boot" /\ b.op = "speed" /\ d.op = "load" /\ e.op = "install" /\ h.op = "verify"
      /\ (\A n : f(n).op = "calibrate") /\ g.op = "gate" /\ z.op = "end"
  OBVIOUS
<1> HIDE DEF a, b, d, e, f, h, g, z
<1>3. \A x : x.op \in {"boot", "load", "speed", "install", "calibrate", "verify"} =>
             Walk(cmd, <<x>>, p, p)
  <2> SUFFICES ASSUME NEW x, x.op \in {"boot", "load", "speed", "install", "calibrate", "verify"}
               PROVE  Walk(cmd, <<x>>, p, p)
    OBVIOUS
  <2>1. Moves(cmd, p, x, p)
    BY GateMoved DEF GateMoves
  <2> HIDE DEF p
  <2> QED BY <2>1, WalkOne
<1>4. Walk(cmd, <<g>>, <<"row", 15, 0>>, Spot("over")) /\ Walk(cmd, <<z>>, Spot("over"), Spot("gone"))
  <2>1. Moves(cmd, <<"row", 15, 0>>, g, Spot("over")) /\ Moves(cmd, Spot("over"), z, Spot("gone"))
    BY <1>2, GateMoved DEF GateMoves
  <2> QED BY <2>1, WalkOne
<1>5. Walk(cmd, r, p, <<"row", 15, 0>>)
  BY GateRowsWalk
<1> HIDE DEF p, r
<1>6. /\ Walk(cmd, <<a>>, p, p) /\ Walk(cmd, <<b>>, p, p) /\ Walk(cmd, <<d>>, p, p)
      /\ Walk(cmd, <<e>>, p, p) /\ (\A n : Walk(cmd, <<f(n)>>, p, p)) /\ Walk(cmd, <<h>>, p, p)
  BY <1>2, <1>3
<1>7. Walk(cmd, vice, p, p) /\ Walk(cmd, u64, p, p)
  BY <1>6, WalksJoin
<1>8. Walk(cmd, prologue, p, p)
  BY <1>7
<1> HIDE DEF prologue
<1>9. Walk(cmd, prologue \o r \o <<g>> \o <<z>>, p, Spot("gone"))
  BY <1>4, <1>5, <1>8, WalksJoin
<1> QED BY <1>1, <1>9 DEF p

LEMMA MinLeast ==
  ASSUME NEW S \in SUBSET Nat, NEW x \in S
  PROVE  Min(S) <= x /\ Min(S) \in Nat
BY Least DEF Min

LEMMA MaxMost ==
  ASSUME NEW B \in Nat, NEW S \in SUBSET (0 .. B), NEW x \in S
  PROVE  x <= Max(S) /\ Max(S) \in Nat
<1> DEFINE U == {b \in Nat : \A y \in S : y <= b}
<1>1. B \in U
  OBVIOUS
<1>2. PICK u \in U : \A b \in U : u <= b
  BY <1>1, Least
<1>3. u \in S
  <2> SUFFICES ASSUME u \notin S PROVE FALSE
    OBVIOUS
  <2>1. \A y \in S : y <= u - 1
    OBVIOUS
  <2>2. u - 1 \in U
    BY <2>1
  <2> QED BY <1>2, <2>2
<1>4. \E m \in S : \A y \in S : m >= y
  BY <1>3
<1>5. \A y \in S : Max(S) >= y
  BY <1>4 DEF Max
<1>6. Max(S) \in S
  BY <1>4 DEF Max
<1> PICK m : m = Max(S)
  OBVIOUS
<1>7. m \in 0 .. B /\ x \in 0 .. B /\ m >= x
  BY <1>5, <1>6
<1> QED BY <1>7

LEMMA TicksOf ==
  ASSUME prg \in Images, NEW i \in 1 .. 14, NEW c \in TrueCycles(BenchTargets[i].name, BenchTargets[i].n, prg)
  PROVE  c \in Nat /\ c < W * W
<1> PICK t : t = BenchTargets[i]
  OBVIOUS
<1>1. t.name \in Routines /\ t.n \in Lengths /\ 0 \in Lengths
  BY RoutinesAre
<1>2. PICK n \in Lengths, o \in Operands : c = Cycles(prg, t.name, n, o)
  BY <1>1 DEF TrueCycles
<1>3. c \in Nat /\ WrapperCycles + LoopCount * c + Jitter < W * W
  BY <1>1, <1>2, CyclesAssumption
<1>4. WrapperCycles \in Nat /\ Jitter \in Nat /\ W \in Nat
  BY TimerAssumption
<1>5. PICK v : v = W * W
  OBVIOUS
<1>6. v \in Nat
  BY <1>4, <1>5
<1> QED BY <1>3, <1>4, <1>5, <1>6 DEF LoopCount

LEMMA DriftsOf ==
  ASSUME prg \in Images, NEW i \in 1 .. 14, NEW b \in Nat, Base(BenchTargets[i]) = b,
         NEW c \in TrueCycles(BenchTargets[i].name, BenchTargets[i].n, prg),
         NEW x \in c - Jitter .. c + Jitter
  PROVE  /\ x \in Int /\ Min(Drifts(BenchTargets[i])) <= Distance(x, b) * 100
         /\ Distance(x, b) * 100 <= Max(Drifts(BenchTargets[i]))
         /\ Min(Drifts(BenchTargets[i])) \in Nat /\ Max(Drifts(BenchTargets[i])) \in Nat
<1> PICK t : t = BenchTargets[i]
  OBVIOUS
<1> DEFINE C == TrueCycles(t.name, t.n, prg)  J == -Jitter .. Jitter
           D(a, j) == Distance(a + j, b) * 100
           S == {D(a, j) : a \in C, j \in J}
<1>1. PICK v \in Nat : \A a \in C : a \in Nat /\ a < v
  <2>1. PICK v : v = W * W
    OBVIOUS
  <2>2. v \in Nat
    BY <2>1, TimerAssumption
  <2>3. \A a \in C : a \in Nat /\ a < v
    BY <2>1, TicksOf
  <2> QED BY <2>2, <2>3
<1>2. Jitter \in Nat /\ c \in C /\ c \in Nat
  BY <1>1, TimerAssumption
<1>3. Drifts(t) = S
  BY DEF Drifts
<1> DEFINE B == (v + Jitter + b) * 100
<1>4. ASSUME NEW a \in C, NEW j \in J PROVE D(a, j) \in 0 .. B
  <2>1. a \in Nat /\ a < v
    BY <1>1
  <2> HIDE DEF C
  <2> QED BY <1>2, <2>1 DEF Distance
<1>5. D(c, x - c) = Distance(x, b) * 100 /\ x - c \in J /\ x \in Int
  <2>1. c + (x - c) = x /\ x - c \in J /\ x \in Int
    BY <1>2
  <2> QED BY <2>1
<1>6. B \in Nat
  BY <1>2
<1> HIDE DEF B, D, C, J
<1>7. S \in SUBSET (0 .. B) /\ S \in SUBSET Nat
  BY <1>4, <1>6
<1>8. Distance(x, b) * 100 \in S
  BY <1>2, <1>5
<1> HIDE DEF S
<1> PICK y : y = Distance(x, b) * 100
  OBVIOUS
<1>9. Min(S) <= y /\ y <= Max(S) /\ Min(S) \in Nat /\ Max(S) \in Nat
  BY <1>6, <1>7, <1>8, MinLeast, MaxMost
<1> QED BY <1>3, <1>5, <1>9

LEMMA RowJudged ==
  ASSUME Stocked, RowsExact, prg \in Images, tool.tool = "bench-check", NEW i \in 1 .. 14,
         Rowful(BenchTargets[i])
  PROVE  IF RowBad THEN Bad(BenchTargets[i]) ELSE Good(BenchTargets[i])
<1> PICK t : t = BenchTargets[i]
  OBVIOUS
<1> PICK x : x = row.cycles
  OBVIOUS
<1> PICK b : b = Base(t)
  OBVIOUS
<1>1. RowBad <=> ~Listed(t) \/ RowFails(x, b)
  BY DEF RowBad, Rowful, Listed, Base
<1>2. Listed(t) => b \in Nat \cup {Skipped}
  BY BaselinesAssumption DEF Stocked, Listed, Base
<1>3. Skipped \notin Int /\ Tolerance \in Nat /\ Tolerance < 100
  BY TimerAssumption
<1>4. CASE ~Listed(t)
  BY <1>1, <1>4 DEF Bad, Agrees
<1>5. CASE Listed(t) /\ ~Measured(t)
  <2>1. x = Skipped
    BY <1>5 DEF Rowful
  <2>2. RowFails(x, b) <=> b # Skipped
    BY <2>1 DEF RowFails
  <2>3. Agrees(t) <=> b = Skipped
    BY <1>5 DEF Agrees
  <2> QED BY <1>1, <1>5, <2>2, <2>3 DEF Bad, Good
<1>6. CASE Listed(t) /\ Measured(t)
  <2>1. \E c \in TrueCycles(t.name, t.n, prg) : x \in (c \div 1) - Jitter .. (c \div 1) + Jitter + 0
    BY <1>6 DEF Rowful, RowsExact
  <2>2. PICK c \in TrueCycles(t.name, t.n, prg) : x \in (c \div 1) - Jitter .. (c \div 1) + Jitter + 0
    BY <2>1
  <2>3. c \in Nat /\ Jitter \in Nat
    BY TicksOf, TimerAssumption
  <2>4. x \in c - Jitter .. c + Jitter /\ x \in Int /\ x # Skipped
    <3>1. c \div 1 = c
      BY <2>3
    <3> QED BY <1>3, <2>2, <2>3, <3>1
  <2>5. Agrees(t) <=> b # Skipped
    BY <1>6 DEF Agrees
  <2>6. CASE b = Skipped
    <3>1. RowFails(x, b)
      BY <2>4, <2>6 DEF RowFails
    <3> QED BY <1>1, <2>5, <2>6, <3>1 DEF Bad
  <2>7. CASE b # Skipped
    <3>1. b \in Nat
      BY <1>2, <1>6, <2>7
    <3> PICK d : d = Distance(x, b) * 100
      OBVIOUS
    <3> PICK least : least = Min(Drifts(t))
      OBVIOUS
    <3> PICK most : most = Max(Drifts(t))
      OBVIOUS
    <3>2. least <= d /\ d <= most /\ least \in Nat /\ most \in Nat
      <4>1. Base(BenchTargets[i]) = b /\ x \in c - Jitter .. c + Jitter /\ prg \in Images
            /\ c \in TrueCycles(BenchTargets[i].name, BenchTargets[i].n, prg)
        BY <2>4
      <4>2. /\ Min(Drifts(BenchTargets[i])) <= Distance(x, b) * 100
            /\ Distance(x, b) * 100 <= Max(Drifts(BenchTargets[i]))
            /\ Min(Drifts(BenchTargets[i])) \in Nat /\ Max(Drifts(BenchTargets[i])) \in Nat
        BY <3>1, <4>1, DriftsOf
      <4> QED BY <4>2
    <3> PICK limit : limit = Tolerance * b
      OBVIOUS
    <3>3. d \in Nat /\ limit \in Nat
      BY <1>3, <2>4, <3>1 DEF Distance
    <3>4. RowFails(x, b) <=> d > limit
      <4>1. CASE b = 0
        <5>1. RowFails(x, b) <=> x # 0
          BY <1>3, <2>4, <2>7, <4>1 DEF RowFails
        <5>2. limit = 0 /\ d = (IF x < 0 THEN 0 - x ELSE x) * 100
          BY <1>3, <2>4, <4>1 DEF Distance
        <5> QED BY <2>4, <5>1, <5>2
      <4>2. CASE b # 0
        BY <2>4, <2>7, <4>2 DEF RowFails
      <4> QED BY <4>1, <4>2
    <3>6. Good(t) <=> least <= limit
      BY <1>6, <2>5, <2>7 DEF Good
    <3>7. Bad(t) <=> most > limit
      BY <1>6, <2>5, <2>7 DEF Bad
    <3>8. RowBad <=> d > limit
      BY <1>1, <1>6, <3>4
    <3> QED BY <3>2, <3>3, <3>6, <3>7, <3>8
  <2> QED BY <2>6, <2>7
<1> QED BY <1>4, <1>5, <1>6

LEMMA GateOpsAre ==
  ASSUME NEW profile, NEW p, NEW x, NEW q, GateMoves(profile, p, x, q)
  PROVE  x.op \in GateOps /\ GateMoving(profile, p, x, q) /\ p # Spot("gone")
<1>1. x.op \in GateOps
  BY DEF GateMoves, GateOps
<1>2. GateMoving(profile, p, x, q)
  BY DEF GateMoves, GateMoving
<1>3. p[1] \in {"row", "setup", "measure", "compare", "over"}
  BY DEF GateMoves, Spot
<1>4. Spot("gone")[1] = "gone"
  BY DEF Spot
<1> QED BY <1>1, <1>2, <1>3, <1>4

\* From a place of a row, whatever the operation.
LEMMA GateFrom ==
  ASSUME NEW profile, NEW x, NEW q, NEW i
  PROVE  /\ GateMoves(profile, <<"setup", i, 0>>, x, q) => q = <<"measure", i, 0>>
         /\ GateMoves(profile, <<"measure", i, 0>>, x, q) => q = <<"compare", i, 0>>
<1>1. /\ \A j : <<"setup", i, 0>> # <<"row", j, 0>> /\ <<"setup", i, 0>> # <<"measure", j, 0>>
                /\ <<"setup", i, 0>> # <<"compare", j, 0>>
      /\ \A j : <<"measure", i, 0>> # <<"row", j, 0>> /\ <<"measure", i, 0>> # <<"setup", j, 0>>
                /\ <<"measure", i, 0>> # <<"compare", j, 0>>
      /\ <<"setup", i, 0>> # Spot("over") /\ <<"measure", i, 0>> # Spot("over")
  BY DEF Spot
<1>2. \A j : /\ <<"setup", i, 0>> = <<"setup", j, 0>> => i = j
             /\ <<"measure", i, 0>> = <<"measure", j, 0>> => i = j
  OBVIOUS
<1>3. ASSUME GateMoves(profile, <<"setup", i, 0>>, x, q) PROVE q = <<"measure", i, 0>>
  BY <1>1, <1>2, <1>3 DEF GateMoves
<1>4. ASSUME GateMoves(profile, <<"measure", i, 0>>, x, q) PROVE q = <<"compare", i, 0>>
  BY <1>1, <1>2, <1>4 DEF GateMoves
<1> QED BY <1>3, <1>4

LEMMA GatedHere ==
  ASSUME Gated, tool.tool = "bench-check", script # <<>>
  PROVE  /\ outcome = "running" /\ Head(script).op \in GateOps
         /\ \E p, q : /\ GateKnown(p) /\ GateMoving(tool.profile, p, Head(script), q)
                      /\ Walk(tool, script, p, Spot("gone"))
                      /\ Walk(tool, Tail(script), q, Spot("gone"))
<1>1. PICK p : Walk(tool, script, p, Spot("gone")) /\ GateKnown(p)
  BY DEF Gated
<1>2. PICK q : Moves(tool, p, Head(script), q) /\ Walk(tool, Tail(script), q, Spot("gone"))
  BY <1>1, WalkHead
<1>3. GateMoves(tool.profile, p, Head(script), q)
  BY <1>2, GateMoved
<1>4. Head(script).op \in GateOps /\ GateMoving(tool.profile, p, Head(script), q)
  BY <1>3, GateOpsAre
<1> QED BY <1>1, <1>2, <1>4 DEF Gated

LEMMA GatedOn ==
  ASSUME tool.tool = "bench-check", UNCHANGED tool, outcome' = "running",
         NEW q, Walk(tool, script', q, Spot("gone")), GateKnown(q)'
  PROVE  Gated'
<1>1. Walk(tool, script, q, Spot("gone"))'
  OBVIOUS
<1> QED BY <1>1 DEF Gated

LEMMA TruthKept ==
  ASSUME UNCHANGED <<prg, tool, baseline>>
  PROVE  \A t : Good(t)' = Good(t) /\ Bad(t)' = Bad(t) /\ Measured(t)' = Measured(t)
BY DEF Good, Bad, Measured, Agrees, Listed, Base, Drifts, TrueCycles

LEMMA ComparedKept ==
  ASSUME UNCHANGED <<prg, tool, baseline, fails>>, NEW i, Compared(i)
  PROVE  Compared(i)'
BY TruthKept DEF Compared

\* Where no row is in hand.
LEMMA KnownKept ==
  ASSUME UNCHANGED <<prg, tool, baseline, fails>>, NEW i, NEW phase \in {"row", "setup", "measure"},
         Compared(i), phase # "row" => Measured(BenchTargets[i])
  PROVE  GateKnown(<<phase, i, 0>>)'
<1> PICK p : p = <<phase, i, 0>>
  OBVIOUS
<1>1. p[1] = phase /\ p[2] = i
  OBVIOUS
<1>2. Compared(p[2])' /\ (phase # "row" => Measured(BenchTargets[p[2]])')
  BY <1>1, ComparedKept, TruthKept
<1> QED BY <1>1, <1>2 DEF GateKnown

LEMMA KnownRow ==
  ASSUME UNCHANGED <<prg, tool, baseline, fails>>, NEW i, Compared(i), Rowful(BenchTargets[i])'
  PROVE  GateKnown(<<"compare", i, 0>>)'
<1> PICK p : p = <<"compare", i, 0>>
  OBVIOUS
<1>1. p[1] = "compare" /\ p[2] = i
  OBVIOUS
<1>2. Compared(p[2])' /\ Rowful(BenchTargets[p[2]])'
  BY <1>1, ComparedKept
<1> QED BY <1>1, <1>2 DEF GateKnown

LEMMA GatedOpening ==
  ASSUME Desk, Gated, tool.tool = "bench-check", UNCHANGED <<tool, toolVars>>, script # <<>>,
         Boot \/ LoadPrg \/ ChangeSpeed \/ InstallWrapper \/ CalibrateWrapper \/ VerifyWrapper
  PROVE  Gated'
<1>1. PICK p, q : /\ GateKnown(p) /\ GateMoving(tool.profile, p, Head(script), q)
                  /\ Walk(tool, Tail(script), q, Spot("gone")) /\ outcome = "running"
  BY GatedHere
<1>2. PICK x : x = Head(script)
  OBVIOUS
<1>3. /\ x.op \in {"boot", "load", "speed", "install", "calibrate", "verify"}
      /\ UNCHANGED <<prg, baseline, fails>>
      /\ \/ script' = Tail(script) /\ outcome' = outcome
         \/ script' = Finally(script) /\ outcome' \in {"no wrapper", "self-test failed"}
  BY <1>2 DEF Boot, LoadPrg, ChangeSpeed, InstallWrapper, CalibrateWrapper, VerifyWrapper, Now, Advance,
              Leave, toolVars
<1>4. p = <<"row", 1, 0>> /\ q = p
  BY <1>1, <1>2, <1>3 DEF GateMoving
<1>5. GateKnown(q)'
  <2>1. p[1] = "row" /\ p[2] = 1
    BY <1>4
  <2>2. Compared(1)
    BY <1>1, <2>1 DEF GateKnown
  <2> QED BY <1>3, <1>4, <2>2, KnownKept
<1>6. CASE script' = Tail(script) /\ outcome' = outcome
  BY <1>1, <1>5, <1>6, GatedOn
<1>7. CASE script' = Finally(script) /\ outcome' \in {"no wrapper", "self-test failed"}
  <2>1. script' = <<>>
    BY <1>7, Leaving
  <2> QED BY <1>7, <2>1 DEF Gated
<1> QED BY <1>3, <1>6, <1>7

LEMMA GatedSetup ==
  ASSUME Gated, tool.tool = "bench-check", UNCHANGED <<tool, toolVars>>, script # <<>>, SetupRoutine
  PROVE  Gated'
<1>1. PICK p, q : /\ GateKnown(p) /\ GateMoving(tool.profile, p, Head(script), q)
                  /\ Walk(tool, Tail(script), q, Spot("gone")) /\ outcome = "running"
  BY GatedHere
<1>2. PICK x : x = Head(script)
  OBVIOUS
<1>3. x.op = "setup" /\ UNCHANGED <<prg, baseline, fails, outcome>> /\ script' = Tail(script)
  BY <1>2 DEF SetupRoutine, Now, Advance, toolVars
<1>4. PICK i \in 1 .. 14 : p = <<"setup", i, 0>> /\ q = <<"measure", i, 0>>
  BY <1>1, <1>2, <1>3 DEF GateMoving
<1>5. GateKnown(q)'
  <2>1. p[1] = "setup" /\ p[2] = i
    BY <1>4
  <2>2. Compared(i) /\ Measured(BenchTargets[i])
    BY <1>1, <2>1 DEF GateKnown
  <2> QED BY <1>3, <1>4, <2>2, KnownKept
<1> QED BY <1>1, <1>3, <1>5, GatedOn

LEMMA GatedSample ==
  ASSUME Gated, tool.tool = "bench-check", UNCHANGED <<tool, toolVars>>, script # <<>>, Sample
  PROVE  Gated'
<1>1. PICK p, q : /\ GateKnown(p) /\ GateMoving(tool.profile, p, Head(script), q)
                  /\ Walk(tool, script, p, Spot("gone")) /\ outcome = "running"
  BY GatedHere
<1>2. PICK x : x = Head(script)
  OBVIOUS
<1>3. x.op = "measure" /\ UNCHANGED <<prg, baseline, fails, outcome, script>>
  BY <1>2 DEF Sample, Now, toolVars
<1>4. PICK i \in 1 .. 14 : p = <<"measure", i, 0>>
  BY <1>1, <1>2, <1>3 DEF GateMoving
<1>5. GateKnown(p)'
  <2>1. p[1] = "measure" /\ p[2] = i
    BY <1>4
  <2>2. Compared(i) /\ Measured(BenchTargets[i])
    BY <1>1, <2>1 DEF GateKnown
  <2> QED BY <1>3, <1>4, <2>2, KnownKept
<1> QED BY <1>1, <1>3, <1>5, GatedOn

LEMMA GatedRecord ==
  ASSUME Gated, tool.tool = "bench-check", UNCHANGED <<tool, toolVars>>, script # <<>>, Record
  PROVE  Gated'
<1>1. PICK p, q : /\ GateKnown(p) /\ GateMoving(tool.profile, p, Head(script), q)
                  /\ Walk(tool, Tail(script), q, Spot("gone")) /\ outcome = "running"
  BY GatedHere
<1>2. PICK x : x = Head(script)
  OBVIOUS
<1>3. x.op = "measure" /\ UNCHANGED <<prg, baseline, fails, outcome>> /\ script' = Tail(script)
  BY <1>2 DEF Record, Now, Advance, toolVars
<1>4. PICK i \in 1 .. 14 : p = <<"measure", i, 0>> /\ q = <<"compare", i, 0>> /\ OfTarget(x, i)
  BY <1>1, <1>2, <1>3 DEF GateMoving
<1>5. row'.name = x.routine /\ row'.n = x.n /\ "image" \in DOMAIN row' /\ row'.image = prg
  BY <1>2 DEF Record
<1>6. GateKnown(q)'
  <2>1. p[1] = "measure" /\ p[2] = i
    BY <1>4
  <2>2. Compared(i) /\ Measured(BenchTargets[i])
    BY <1>1, <2>1 DEF GateKnown
  <2>3. Rowful(BenchTargets[i])'
    BY <1>3, <1>4, <1>5, <2>2, TruthKept DEF Rowful, OfTarget
  <2> QED BY <1>3, <1>4, <2>2, <2>3, KnownRow
<1> QED BY <1>1, <1>3, <1>6, GatedOn

LEMMA GatedNeed ==
  ASSUME Gated, tool.tool = "bench-check", UNCHANGED tool, script # <<>>, NeedSymbol
  PROVE  Gated'
<1>1. PICK p, q : /\ GateKnown(p) /\ GateMoving(tool.profile, p, Head(script), q)
                  /\ Walk(tool, script, p, Spot("gone"))
                  /\ Walk(tool, Tail(script), q, Spot("gone")) /\ outcome = "running"
  BY GatedHere
<1>2. PICK x : x = Head(script)
  OBVIOUS
<1>3. x.op = "need" /\ UNCHANGED <<prg, baseline, fails, outcome>>
  BY <1>2 DEF NeedSymbol, Now, Same, toolVars
<1>4. PICK i \in 1 .. 14 : /\ p = <<"row", i, 0>> /\ q = <<"setup", i, 0>>
                           /\ OfTarget(x, i) /\ ~Unfit(i, tool.profile)
  BY <1>1, <1>2, <1>3 DEF GateMoving
<1> PICK t : t = BenchTargets[i]
  OBVIOUS
<1>5. Compared(i)
  <2>1. p[1] = "row" /\ p[2] = i
    BY <1>4
  <2> QED BY <1>1, <2>1 DEF GateKnown
<1>6. Measured(t) <=> x.routine \in Emitted(prg)
  BY <1>4 DEF Measured, Unfit, OfTarget
<1>7. CASE x.routine \in Emitted(prg)
  <2>1. script' = Tail(script)
    BY <1>2, <1>7 DEF NeedSymbol, Advance
  <2>2. GateKnown(q)'
    BY <1>3, <1>4, <1>5, <1>6, <1>7, KnownKept
  <2> QED BY <1>1, <1>3, <2>1, <2>2, GatedOn
<1>8. CASE x.routine \notin Emitted(prg)
  <2>1. /\ script' = SubSeq(script, 4, Len(script))
        /\ row'.name = x.routine /\ row'.n = x.n /\ row'.cycles = Skipped
    BY <1>2, <1>8 DEF NeedSymbol
  <2> PICK a : a = Tail(script)
    OBVIOUS
  <2> PICK b : b = Tail(a)
    OBVIOUS
  <2> PICK c : c = Tail(b)
    OBVIOUS
  <2>2. Spot("gone") # <<"setup", i, 0>> /\ Spot("gone") # <<"measure", i, 0>>
    BY DEF Spot
  <2>3. Walk(tool, a, <<"setup", i, 0>>, Spot("gone"))
    BY <1>1, <1>4
  <2>4. a # <<>>
    BY <2>2, <2>3, WalkOn
  <2>5. Walk(tool, b, <<"measure", i, 0>>, Spot("gone"))
    <3>1. PICK r : Moves(tool, <<"setup", i, 0>>, Head(a), r) /\ Walk(tool, b, r, Spot("gone"))
      BY <2>3, <2>4, WalkHead
    <3>2. GateMoves(tool.profile, <<"setup", i, 0>>, Head(a), r)
      BY <3>1, GateMoved
    <3>3. r = <<"measure", i, 0>>
      BY <3>2, GateFrom
    <3> QED BY <3>1, <3>3
  <2>6. b # <<>>
    BY <2>2, <2>5, WalkOn
  <2>7. Walk(tool, c, <<"compare", i, 0>>, Spot("gone"))
    <3>1. PICK r : Moves(tool, <<"measure", i, 0>>, Head(b), r) /\ Walk(tool, c, r, Spot("gone"))
      BY <2>5, <2>6, WalkHead
    <3>2. GateMoves(tool.profile, <<"measure", i, 0>>, Head(b), r)
      BY <3>1, GateMoved
    <3>3. r = <<"compare", i, 0>>
      BY <3>2, GateFrom
    <3> QED BY <3>1, <3>3
  <2>8. script' = c
    <3>1. PICK S : script \in Seq(S)
      BY <1>1 DEF Walk, IsScript
    <3> QED BY <2>1, <2>4, <2>6, <3>1, ThreeTails
  <2>9. Rowful(t)'
    <3>1. ~Measured(t)'
      BY <1>3, <1>6, <1>8, TruthKept
    <3> QED BY <1>4, <2>1, <3>1 DEF Rowful, OfTarget
  <2>10. GateKnown(<<"compare", i, 0>>)'
    BY <1>3, <1>5, <2>9, KnownRow
  <2> QED BY <1>1, <1>3, <2>7, <2>8, <2>10, GatedOn
<1> QED BY <1>7, <1>8

LEMMA GatedSkip ==
  ASSUME Gated, tool.tool = "bench-check", UNCHANGED tool, script # <<>>, SkipRow
  PROVE  Gated'
<1>1. PICK p, q : /\ GateKnown(p) /\ GateMoving(tool.profile, p, Head(script), q)
                  /\ Walk(tool, Tail(script), q, Spot("gone")) /\ outcome = "running"
  BY GatedHere
<1>2. PICK x : x = Head(script)
  OBVIOUS
<1>3. x.op = "skip" /\ UNCHANGED <<prg, baseline, fails, outcome>>
  BY <1>2 DEF SkipRow, Now, Same, toolVars
<1>4. PICK i \in 1 .. 14 : /\ p = <<"row", i, 0>> /\ q = <<"row", i + 1, 0>>
                           /\ OfTarget(x, i) /\ Unfit(i, tool.profile)
  BY <1>1, <1>2, <1>3 DEF GateMoving
<1> PICK t : t = BenchTargets[i]
  OBVIOUS
<1>5. Compared(i)
  <2>1. p[1] = "row" /\ p[2] = i
    BY <1>4
  <2> QED BY <1>1, <2>1 DEF GateKnown
<1> PICK k : k = [op |-> "compare"]
  OBVIOUS
<1>6. /\ script' = <<k>> \o Tail(script)
      /\ row'.name = x.routine /\ row'.n = x.n /\ row'.cycles = Skipped
  BY <1>2 DEF SkipRow
<1>7. Walk(tool, <<k>> \o Tail(script), <<"compare", i, 0>>, Spot("gone"))
  <2>1. k.op = "compare"
    OBVIOUS
  <2>2. Moves(tool, <<"compare", i, 0>>, k, <<"row", i + 1, 0>>)
    BY <2>1, GateMoved DEF GateMoves
  <2>3. Walk(tool, <<k>>, <<"compare", i, 0>>, <<"row", i + 1, 0>>)
    BY <2>2, WalkOne
  <2> QED BY <1>1, <1>4, <2>3, WalkJoin
<1>8. Rowful(t)'
  <2>1. ~Measured(t)'
    BY <1>3, <1>4, TruthKept DEF Measured, Unfit
  <2> QED BY <1>4, <1>6, <2>1 DEF Rowful, OfTarget
<1>9. GateKnown(<<"compare", i, 0>>)'
  BY <1>3, <1>5, <1>8, KnownRow
<1> QED BY <1>1, <1>3, <1>6, <1>7, <1>9, GatedOn

LEMMA GatedCompare ==
  ASSUME Stocked, Rowed, Gated, tool.tool = "bench-check", UNCHANGED tool, script # <<>>, CompareRow
  PROVE  Gated'
<1>1. PICK p, q : /\ GateKnown(p) /\ GateMoving(tool.profile, p, Head(script), q)
                  /\ Walk(tool, Tail(script), q, Spot("gone")) /\ outcome = "running"
  BY GatedHere
<1>2. PICK x : x = Head(script)
  OBVIOUS
<1>3. /\ x.op = "compare" /\ UNCHANGED <<prg, baseline, outcome>> /\ script' = Tail(script)
      /\ fails' = IF RowBad THEN fails \cup {<<row.name, row.n>>} ELSE fails
  BY <1>2 DEF CompareRow, Now, Same, Advance, RowBad
<1>4. PICK i \in 1 .. 14 : p = <<"compare", i, 0>> /\ q = <<"row", i + 1, 0>>
  BY <1>1, <1>2, <1>3 DEF GateMoving
<1>5. Compared(i) /\ Rowful(BenchTargets[i])
  <2>1. p[1] = "compare" /\ p[2] = i
    BY <1>4
  <2> QED BY <1>1, <2>1 DEF GateKnown
<1>6. IF RowBad THEN Bad(BenchTargets[i]) ELSE Good(BenchTargets[i])
  <2>1. RowsExact /\ prg \in Images
    BY DEF Rowed, Prepared, Reporting
  <2> QED BY <1>5, <2>1, RowJudged
<1>7. Compared(i + 1)'
  <2>1. fails' = {} => \A j \in 1 .. (i + 1) - 1 : Good(BenchTargets[j])'
    <3> SUFFICES ASSUME fails' = {}, NEW j \in 1 .. (i + 1) - 1 PROVE Good(BenchTargets[j])'
      OBVIOUS
    <3>1. fails = {} /\ ~RowBad
      BY <1>3
    <3>2. j = i \/ j \in 1 .. i - 1
      OBVIOUS
    <3>3. Good(BenchTargets[j])
      BY <1>5, <1>6, <3>1, <3>2 DEF Compared
    <3> QED BY <1>3, <3>3, TruthKept
  <2>2. fails' # {} => \E j \in 1 .. 14 : Bad(BenchTargets[j])'
    <3> SUFFICES ASSUME fails' # {} PROVE \E j \in 1 .. 14 : Bad(BenchTargets[j])'
      OBVIOUS
    <3>1. \E j \in 1 .. 14 : Bad(BenchTargets[j])
      BY <1>3, <1>5, <1>6 DEF Compared
    <3> QED BY <1>3, <3>1, TruthKept
  <2> QED BY <2>1, <2>2 DEF Compared
<1>8. GateKnown(q)'
  <2>1. q[1] = "row" /\ q[2] = i + 1
    BY <1>4
  <2> QED BY <1>7, <2>1 DEF GateKnown
<1> QED BY <1>1, <1>3, <1>8, GatedOn

LEMMA GatedGate ==
  ASSUME Desk, Gated, tool.tool = "bench-check", UNCHANGED tool, script # <<>>, Gate
  PROVE  Gated'
<1>1. PICK p, q : /\ GateKnown(p) /\ GateMoving(tool.profile, p, Head(script), q)
                  /\ Walk(tool, Tail(script), q, Spot("gone")) /\ outcome = "running"
  BY GatedHere
<1>2. PICK x : x = Head(script)
  OBVIOUS
<1>3. x.op = "gate" /\ UNCHANGED <<prg, baseline>>
  BY <1>2 DEF Gate, Now, Same
<1>4. p = <<"row", 15, 0>> /\ q = Spot("over")
  BY <1>1, <1>2, <1>3 DEF GateMoving
<1>5. Compared(15)
  <2>1. p[1] = "row" /\ p[2] = 15
    BY <1>4
  <2> QED BY <1>1, <2>1 DEF GateKnown
<1>6. CASE fails = {}
  <2>1. script' = Tail(script) /\ outcome' = outcome
    BY <1>6 DEF Gate, Advance
  <2>2. \A j \in 1 .. 14 : Good(BenchTargets[j])
    <3>1. 15 - 1 = 14
      OBVIOUS
    <3> QED BY <1>5, <1>6, <3>1 DEF Compared
  <2>3. \A j \in 1 .. 14 : Good(BenchTargets[j])'
    BY <1>3, <2>2, TruthKept
  <2>4. q[1] = "over"
    BY <1>4 DEF Spot
  <2>5. GateKnown(q)'
    BY <2>3, <2>4 DEF GateKnown
  <2> QED BY <1>1, <2>1, <2>5, GatedOn
<1>7. CASE fails # {}
  <2>1. script' = Finally(script) /\ outcome' = "drift"
    BY <1>7 DEF Gate, Leave
  <2>2. script' = <<>>
    BY <2>1, Leaving
  <2>3. \E j \in 1 .. 14 : Bad(BenchTargets[j])'
    BY <1>3, <1>5, <1>7, TruthKept DEF Compared
  <2> QED BY <2>1, <2>2, <2>3 DEF Gated
<1> QED BY <1>6, <1>7

LEMMA GatedEnd ==
  ASSUME Gated, tool.tool = "bench-check", UNCHANGED <<tool, toolVars>>, script # <<>>, End
  PROVE  Gated'
<1>1. PICK p, q : /\ GateKnown(p) /\ GateMoving(tool.profile, p, Head(script), q)
                  /\ Walk(tool, Tail(script), q, Spot("gone")) /\ outcome = "running"
  BY GatedHere
<1>2. PICK x : x = Head(script)
  OBVIOUS
<1>3. x.op = "end" /\ script' = Tail(script) /\ outcome' = "ok" /\ UNCHANGED <<prg, baseline>>
  BY <1>1, <1>2 DEF End, Now, Advance, toolVars
<1>4. p = Spot("over") /\ q = Spot("gone")
  BY <1>1, <1>2, <1>3 DEF GateMoving
<1>5. \A j \in 1 .. 14 : Good(BenchTargets[j])
  <2>1. p[1] = "over"
    BY <1>4 DEF Spot
  <2> QED BY <1>1, <2>1 DEF GateKnown
<1>6. \A j \in 1 .. 14 : Good(BenchTargets[j])'
  BY <1>3, <1>5, TruthKept
<1>7. Tail(script) = <<>>
  <2> SUFFICES ASSUME Tail(script) # <<>> PROVE FALSE
    OBVIOUS
  <2>1. PICK r : Moves(tool, Spot("gone"), Head(Tail(script)), r)
    BY <1>1, <1>4, WalkHead
  <2>2. GateMoves(tool.profile, Spot("gone"), Head(Tail(script)), r)
    BY <2>1, GateMoved
  <2> QED BY <2>2, GateOpsAre
<1> QED BY <1>3, <1>6, <1>7 DEF Gated

LEMMA GatedInvoke ==
  ASSUME Desk, NEW c \in Commands, Invoke(c)
  PROVE  Gated'
<1>1. PICK t : t = tool'
  OBVIOUS
<1>2. t.tool = c.tool /\ script' = Whole(t)
  BY <1>1, Invoked DEF Full
<1>3. outcome' = "running" /\ fails' = {}
  BY DEF Invoke
<1>4. ASSUME t.tool = "bench-check"
      PROVE  script' # <<>> /\ \E p : Walk(t, script', p, Spot("gone")) /\ GateKnown(p)'
  <2> PICK p : p = <<"row", 1, 0>>
    OBVIOUS
  <2>1. Walk(t, script', p, Spot("gone"))
    BY <1>2, <1>4, GateWalk
  <2>2. p[1] = "row" /\ p[2] = 1 /\ 1 .. 1 - 1 = {}
    OBVIOUS
  <2>3. GateKnown(p)'
    BY <1>3, <2>2 DEF GateKnown, Compared
  <2>4. p # Spot("gone")
    <3>1. Spot("gone")[1] = "gone"
      BY DEF Spot
    <3> QED BY <2>2, <3>1
  <2> QED BY <2>1, <2>3, <2>4, WalkOn
<1> QED BY <1>1, <1>3, <1>4 DEF Gated

LEMMA GatedSession ==
  ASSUME Desk, Stocked, Rowed, Gated, tool.tool = "bench-check", OnMachine \/ OnTool \/ OnFuzz
  PROVE  Gated'
<1>1. script # <<>> /\ tool' = tool
  <2>1. ASSUME OnMachine PROVE script # <<>> /\ tool' = tool
    BY <2>1, PlainMachine DEF OnMachine, Working
  <2>2. ASSUME OnTool PROVE script # <<>> /\ tool' = tool
    BY <2>2, PlainTool DEF OnTool, Working
  <2> QED BY <2>1, <2>2, PlainFuzz
<1>2. Head(script).op \in GateOps
  BY <1>1, GatedHere
<1>3. CASE OnMachine
  <2>1. MachineStep /\ UNCHANGED toolVars
    BY <1>3 DEF OnMachine
  <2>2. ~Blank /\ ~RunRoutine /\ ~Enter
    BY <1>2 DEF Blank, RunRoutine, Enter, Now, GateOps
  <2>3. CASE Boot \/ LoadPrg \/ ChangeSpeed \/ InstallWrapper \/ CalibrateWrapper \/ VerifyWrapper
    BY <1>1, <2>1, <2>3, GatedOpening
  <2>4. CASE SetupRoutine
    BY <1>1, <2>1, <2>4, GatedSetup
  <2>5. CASE Sample
    BY <1>1, <2>1, <2>5, GatedSample
  <2>6. CASE Record
    BY <1>1, <2>1, <2>6, GatedRecord
  <2>7. CASE End
    BY <1>1, <2>1, <2>7, GatedEnd
  <2> QED BY <2>1, <2>2, <2>3, <2>4, <2>5, <2>6, <2>7 DEF MachineStep
<1>4. CASE OnTool
  <2>1. ToolStep
    BY <1>4 DEF OnTool
  <2>2. /\ ~Turbo /\ ~LoadSidecar /\ ~TruncateSidecar /\ ~SaveSidecar /\ ~NeedExact /\ ~CtRow
        /\ ~CtOfRoutine /\ ~CtVerdict
    BY <1>2 DEF Turbo, LoadSidecar, TruncateSidecar, SaveSidecar, NeedExact, CtRow, CtOfRoutine, CtVerdict,
                Now, GateOps
  <2>3. NeedSymbol \/ SkipRow \/ CompareRow \/ Gate
    BY <1>2, <2>1, <2>2 DEF ToolStep, Now, GateOps
  <2> QED BY <1>1, <2>3, GatedNeed, GatedSkip, GatedCompare, GatedGate
<1>5. CASE OnFuzz
  BY <1>2, <1>5 DEF OnFuzz, CheckGlue, FuzzCategory, Result, Vector, VectorPair, NoVectors, Summary, Now,
                    GateOps
<1> QED BY <1>3, <1>4, <1>5

LEMMA GatedStill ==
  ASSUME Gated, UNCHANGED <<prg, tool, baseline, fails, script, outcome, row>>
  PROVE  Gated'
<1>1. \A p : GateKnown(p)' = GateKnown(p)
  <2>1. \A t : Good(t)' = Good(t) /\ Bad(t)' = Bad(t) /\ Measured(t)' = Measured(t)
    BY TruthKept
  <2>2. \A t : Rowful(t)' <=> Rowful(t)
    BY <2>1 DEF Rowful
  <2>3. \A i : Compared(i)' <=> Compared(i)
    BY <2>1 DEF Compared
  <2>4. \A p : GateKnown(p)' <=> GateKnown(p)
    BY <2>1, <2>2, <2>3 DEF GateKnown
  <2>5. \A p : GateKnown(p) \in BOOLEAN /\ GateKnown(p)' \in BOOLEAN
    BY DEF GateKnown
  <2> QED BY <2>4, <2>5
<1> QED BY <1>1, TruthKept DEF Gated

LEMMA GatedStep ==
  ASSUME Desk, Stocked, Rowed, Gated, Next
  PROVE  Gated'
<1>1. ASSUME tool' = tool, tool.tool # "bench-check" PROVE Gated'
  BY <1>1 DEF Gated
<1>2. ASSUME OnMachine \/ OnTool \/ OnFuzz PROVE Gated'
  <2>1. tool' = tool
    BY <1>2, PlainFuzz DEF OnMachine, OnTool, Working
  <2> QED BY <1>1, <1>2, <2>1, GatedSession
<1>3. ASSUME Interrupt \/ Kill PROVE Gated'
  <2>1. UNCHANGED tool /\ script # <<>> /\ outcome' \in {"interrupted", "killed"}
        /\ (script' = <<>> \/ script' = Finally(script))
    BY <1>3 DEF Interrupt, Kill, Leave, Working
  <2>2. tool.tool = "bench-check" => script' = <<>>
    BY <2>1, Leaving
  <2> QED BY <1>1, <2>1, <2>2 DEF Gated
<1>4. ASSUME Neighbour PROVE Gated'
  BY <1>4 DEF Neighbour, Gated
<1>5. ASSUME NEW c \in Commands, Invoke(c) PROVE Gated'
  BY <1>5, GatedInvoke
<1> QED BY <1>2, <1>3, <1>4, <1>5 DEF Next

LEMMA GatedAlways == Spec => []Gated
<1>1. Init => Gated
  <2>1. Init => tool.tool = "none"
    BY DEF Init
  <2> QED BY <2>1 DEF Gated
<1>2. LabInv /\ Stocked /\ Rowed /\ Gated /\ [Next]_vars => Gated'
  <2>1. UNCHANGED vars => UNCHANGED <<prg, tool, baseline, fails, script, outcome, row>>
    BY DEF vars, machineVars, measureVars, toolVars, fuzzVars
  <2> QED BY <2>1, GatedStep, GatedStill DEF LabInv
<1> QED BY <1>1, <1>2, LabAlways, RowedAlways, FuzzedAlways, PTL DEF Spec

\* bench-check passes only a build each of whose symbols is in the baseline
\* and takes, of some operand and jitter, what the baseline says; and it fails
\* only a build with a symbol that is not, or does not: whichever symbols the
\* build lacks, in either profile, and whatever the baseline lists
\* (_diff_against_baseline, main).
THEOREM BaselineTrue == Spec => []BaselineGate
<1>1. Gated => BaselineGate
  <2>1. ToSet(BenchTargets) = {BenchTargets[j] : j \in 1 .. 14}
    BY RoutinesAre DEF ToSet
  <2>2. \A t \in ToSet(BenchTargets) : \E j \in 1 .. 14 : t = BenchTargets[j]
    BY <2>1
  <2>3. \A j \in 1 .. 14 : BenchTargets[j] \in ToSet(BenchTargets)
    BY <2>1
  <2> SUFFICES ASSUME Gated, Ended("bench-check")
               PROVE  /\ outcome = "ok" => \A t \in ToSet(BenchTargets) : Good(t)
                      /\ outcome = "drift" => \E t \in ToSet(BenchTargets) : Bad(t)
    BY DEF BaselineGate, Good, Bad
  <2> QED BY <2>2, <2>3 DEF Gated, Ended
<1> QED BY <1>1, GatedAlways, PTL
=============================================================================
