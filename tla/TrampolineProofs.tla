-------------------------- MODULE TrampolineProofs --------------------------
(***************************************************************************)
(* What the trampoline keeps, for every number of calls, samples and        *)
(* timeouts, and for a debug stream that may lose cycles or not.            *)
(***************************************************************************)
EXTENDS Trampoline, CommonLemmas, SequenceTheorems

LEMMA MinIn ==
  ASSUME NEW S \in SUBSET Nat, S # {}
  PROVE  Min(S) \in S
BY Least DEF Min

-----------------------------------------------------------------------------
(* _parse_marker_pairs                                                       *)

Entry == [at : {"jsr", "sta"}, run : Int]

(* A fetch that the debug stream showed earlier is of an earlier execution,   *)
(* or it is the jsr and the later one the sta of the same.                    *)
Earlier(x, y) == x.run < y.run \/ (x.run = y.run /\ x.at = "jsr" /\ y.at = "sta")

(* A trace of the executions b + 1 .. e, in order, some fetches missing.      *)
Recorded(s, b, e) ==
  /\ s \in Seq(Entry)
  /\ \A i \in DOMAIN s : b < s[i].run /\ s[i].run <= e
  /\ \A i, j \in DOMAIN s : i < j => Earlier(s[i], s[j])

LEMMA NextFetchIn ==
  ASSUME NEW s \in Seq(Entry), NEW marker, NEW i \in Nat
  PROVE  LET k == NextFetch(s, marker, i)
         IN  k \in Nat /\ (k # Len(s) + 1 => k \in i .. Len(s) /\ s[k].at = marker)
<1> DEFINE S == {k \in i .. Len(s) : s[k].at = marker} \union {Len(s) + 1}
<1>1. Len(s) \in Nat
  OBVIOUS
<1>2. S \in SUBSET Nat /\ S # {}
  BY <1>1
<1>3. Min(S) \in S
  <2> HIDE DEF S
  <2> QED BY <1>2, MinIn
<1>4. NextFetch(s, marker, i) = Min(S)
  BY DEF NextFetch
<1> QED BY <1>1, <1>3, <1>4

(* The pairs found are fetches of a jsr and, behind it, of a sta, each pair    *)
(* behind the one before.                                                   *)
LEMMA WalkFinds ==
  ASSUME NEW s \in Seq(Entry)
  PROVE  /\ DOMAIN Walk(s) \subseteq 1 .. Samples
         /\ \A n \in DOMAIN Walk(s) :
              /\ Walk(s)[n].jsr \in DOMAIN s /\ Walk(s)[n].sta \in DOMAIN s
              /\ s[Walk(s)[n].jsr].at = "jsr" /\ s[Walk(s)[n].sta].at = "sta"
              /\ Walk(s)[n].jsr < Walk(s)[n].sta
              /\ n - 1 \in DOMAIN Walk(s) => Walk(s)[n - 1].sta < Walk(s)[n].jsr
<1> DEFINE X == [jsr : Nat, sta : Nat]
           x0 == [jsr |-> 0, sta |-> 0]
           jsr(x) == NextFetch(s, "jsr", x.sta + 1)
           F == [x \in X |-> [jsr |-> jsr(x), sta |-> NextFetch(s, "sta", jsr(x) + 1)]]
           G == [n \in 1 .. Samples |-> F]
           step(g) == [n \in 0 .. Samples |->
                         IF n = 0 THEN [jsr |-> 0, sta |-> 0]
                         ELSE LET i == NextFetch(s, "jsr", g[n - 1].sta + 1)
                              IN  [jsr |-> i, sta |-> NextFetch(s, "sta", i + 1)]]
           pair == CHOOSE g : g = step(g)
<1>1. \A x \in X : jsr(x) \in Nat /\ NextFetch(s, "sta", jsr(x) + 1) \in Nat
  <2> TAKE x \in X
  <2>1. x.sta + 1 \in Nat
    OBVIOUS
  <2>2. jsr(x) \in Nat
    BY <2>1, NextFetchIn
  <2>3. jsr(x) + 1 \in Nat
    BY <2>2
  <2> QED BY <2>2, <2>3, NextFetchIn
<1>2. F \in [X -> X] /\ x0 \in X /\ Samples \in Nat
  BY <1>1, SamplesAssumption
<1>3. PICK p \in [0 .. Samples -> X] : Iterates(p, x0, G, Samples)
  <2> HIDE DEF X, x0, F
  <2> QED BY <1>2, Iteration
<1>4. p = step(p)
  <2>1. \A n \in 0 .. Samples :
          p[n]
            = IF n = 0 THEN [jsr |-> 0, sta |-> 0]
              ELSE LET i == NextFetch(s, "jsr", p[n - 1].sta + 1)
                   IN  [jsr |-> i, sta |-> NextFetch(s, "sta", i + 1)]
    <3> TAKE n \in 0 .. Samples
    <3>1. CASE n # 0
      <4>1. n \in 1 .. Samples /\ p[n - 1] \in X
        BY <3>1, SamplesAssumption
      <4>2. p[n] = G[n][p[n - 1]]
        BY <1>3, <4>1 DEF Iterates
      <4> QED BY <3>1, <4>1, <4>2
    <3> QED BY <1>3, <3>1 DEF Iterates
  <2> QED BY <2>1
<1>5. pair = step(pair)
  <2> HIDE DEF step
  <2> QED BY <1>4
<1>6. Walk(s) = [n \in {n \in 1 .. Samples : pair[n].sta <= Len(s)} |-> pair[n]]
  BY DEF Walk
<1> HIDE DEF pair
<1>7. \A n \in 0 .. Samples : pair[n] \in X
  <2> DEFINE S == {n \in Nat : n \in 0 .. Samples => pair[n] \in X}
  <2>1. 0 \in S
    BY <1>2, <1>5
  <2>2. ASSUME NEW n \in Nat, n \in S PROVE n + 1 \in S
    <3> SUFFICES ASSUME n + 1 \in 0 .. Samples PROVE pair[n + 1] \in X
      OBVIOUS
    <3>1. n \in 0 .. Samples /\ n + 1 # 0 /\ (n + 1) - 1 = n
      BY SamplesAssumption
    <3>3. pair[n] \in X
      BY <2>2, <3>1
    <3>2. pair[n + 1] = [jsr |-> jsr(pair[n]),
                         sta |-> NextFetch(s, "sta", jsr(pair[n]) + 1)]
      BY <1>5, <3>1
    <3> QED BY <1>1, <3>2, <3>3
  <2>3. Nat \subseteq S
    <3> HIDE DEF S
    <3> QED BY <2>1, <2>2, NatSetInduction
  <2> QED BY <1>2, <2>3
<1>8. ASSUME NEW n \in 1 .. Samples, pair[n].sta <= Len(s)
      PROVE  /\ pair[n].jsr \in DOMAIN s /\ pair[n].sta \in DOMAIN s
             /\ s[pair[n].jsr].at = "jsr" /\ s[pair[n].sta].at = "sta"
             /\ pair[n].jsr < pair[n].sta
             /\ pair[n - 1].sta < pair[n].jsr
  <2> DEFINE i == pair[n].jsr
             k == pair[n].sta
             b == pair[n - 1].sta
  <2>1. n - 1 \in 0 .. Samples /\ n \in 0 .. Samples /\ n # 0
    BY <1>2
  <2>2. b \in Nat /\ i \in Nat /\ k \in Nat
    BY <1>7, <2>1
  <2>3. i = NextFetch(s, "jsr", b + 1) /\ k = NextFetch(s, "sta", i + 1)
    BY <1>5, <2>1
  <2> HIDE DEF i, k, b
  <2>4. Len(s) \in Nat /\ k <= Len(s) /\ DOMAIN s = 1 .. Len(s)
    BY <1>8 DEF k
  <2>5. k \in i + 1 .. Len(s) /\ s[k].at = "sta"
    BY <2>2, <2>3, <2>4, NextFetchIn
  <2>6. i # Len(s) + 1
    BY <2>2, <2>4, <2>5
  <2>7. i \in b + 1 .. Len(s) /\ s[i].at = "jsr"
    BY <2>2, <2>3, <2>4, <2>6, NextFetchIn
  <2>8. i \in DOMAIN s /\ k \in DOMAIN s /\ i < k /\ b < i
    BY <2>2, <2>4, <2>5, <2>7
  <2> QED BY <2>5, <2>7, <2>8 DEF i, k, b
<1> DEFINE w == Walk(s)
<1>9. /\ DOMAIN w = {n \in 1 .. Samples : pair[n].sta <= Len(s)}
      /\ \A n \in DOMAIN w : w[n] = pair[n]
  BY <1>6
<1> HIDE DEF w
<1>10. ASSUME NEW n \in DOMAIN w
       PROVE  /\ w[n].jsr \in DOMAIN s /\ w[n].sta \in DOMAIN s
              /\ s[w[n].jsr].at = "jsr" /\ s[w[n].sta].at = "sta"
              /\ w[n].jsr < w[n].sta
              /\ n - 1 \in DOMAIN w => w[n - 1].sta < w[n].jsr
  BY <1>8, <1>9
<1> QED BY <1>9, <1>10 DEF w

(* When as many pairs as executions are found, none spans two.               *)
LEMMA PairsBracket ==
  ASSUME NEW s, NEW b \in Int, Recorded(s, b, b + Samples), Enough(Pairs(s))
  PROVE  \A n \in DOMAIN Pairs(s) : Pairs(s)[n].jsr = Pairs(s)[n].sta
<1> DEFINE w == Walk(s)
           p == Pairs(s)
           f == [n \in 1 .. Samples |-> s[w[n].sta].run]
<1>1. s \in Seq(Entry) /\ Samples \in Nat
  BY SamplesAssumption DEF Recorded
<1>2. /\ DOMAIN w = 1 .. Samples
      /\ p = [n \in 1 .. Samples |-> [jsr |-> s[w[n].jsr].run, sta |-> s[w[n].sta].run]]
  BY DEF Enough, Pairs
<1>3. ASSUME NEW n \in 1 .. Samples
      PROVE  /\ w[n].jsr \in DOMAIN s /\ w[n].sta \in DOMAIN s
             /\ s[w[n].jsr].at = "jsr" /\ s[w[n].sta].at = "sta"
             /\ w[n].jsr < w[n].sta
             /\ n - 1 \in 1 .. Samples => w[n - 1].sta < w[n].jsr
  BY <1>1, <1>2, WalkFinds
<1>4. \A i \in DOMAIN s : s[i].run \in Int /\ b < s[i].run /\ s[i].run <= b + Samples
  <2>1. \A i \in DOMAIN s : s[i] \in Entry
    BY <1>1
  <2> QED BY <2>1 DEF Recorded, Entry
<1> HIDE DEF w, p
<1>5. ASSUME NEW n \in 1 .. Samples
      PROVE  s[w[n].jsr].run <= s[w[n].sta].run
  BY <1>3, <1>4 DEF Recorded, Earlier
<1>6. ASSUME NEW n \in 1 .. Samples, n - 1 \in 1 .. Samples
      PROVE  s[w[n - 1].sta].run < s[w[n].jsr].run
  BY <1>3, <1>6 DEF Recorded, Earlier
<1>7. \A n \in 1 .. Samples : f[n] \in b + 1 .. b + Samples
  <2> TAKE n \in 1 .. Samples
  <2> DEFINE r == s[w[n].sta].run
  <2>1. r \in Int /\ b < r /\ r <= b + Samples
    BY <1>3, <1>4
  <2> HIDE DEF r
  <2>2. r \in b + 1 .. b + Samples
    BY <1>1, <2>1
  <2> QED BY <2>2 DEF r
<1>8. ASSUME NEW n \in 1 .. Samples - 1 PROVE f[n] < f[n + 1]
  <2>1. n \in 1 .. Samples /\ n + 1 \in 1 .. Samples /\ (n + 1) - 1 = n
    BY <1>1
  <2>2. /\ s[w[n].sta].run < s[w[n + 1].jsr].run
        /\ s[w[n + 1].jsr].run <= s[w[n + 1].sta].run
    BY <1>5, <1>6, <2>1
  <2> QED BY <1>3, <1>4, <2>1, <2>2
<1>9. \A n \in 1 .. Samples : f[n] = b + n
  <2> HIDE DEF f
  <2> QED BY <1>1, <1>7, <1>8, Increasing
<1>10. ASSUME NEW n \in 1 .. Samples
       PROVE  s[w[n].jsr].run = s[w[n].sta].run
  <2>1. s[w[n].sta].run = b + n /\ s[w[n].jsr].run \in Int
    BY <1>3, <1>4, <1>9
  <2>2. CASE n = 1
    <3>1. b < s[w[n].jsr].run /\ s[w[n].jsr].run <= b + n
      BY <1>3, <1>4, <1>5, <2>1
    <3> QED BY <2>1, <2>2, <3>1
  <2>3. CASE n # 1
    <3>1. n - 1 \in 1 .. Samples
      BY <1>1, <2>3
    <3>2. s[w[n - 1].sta].run = b + (n - 1)
      BY <1>9, <3>1
    <3>3. b + (n - 1) < s[w[n].jsr].run /\ s[w[n].jsr].run <= b + n
      BY <1>5, <1>6, <2>1, <3>1, <3>2
    <3> QED BY <2>1, <3>3
  <2> QED BY <2>2, <2>3
<1> QED BY <1>2, <1>10 DEF p

-----------------------------------------------------------------------------
(* The writes the host has yet to send.                                      *)

Install4 == <<Write("sentinel", FALSE), Write("status", {}),
              Write("rearm", FALSE), Write("keyboard", TRUE)>>
Install3 == <<Write("status", {}), Write("rearm", FALSE), Write("keyboard", TRUE)>>
Install2 == <<Write("rearm", FALSE), Write("keyboard", TRUE)>>
Install1 == <<Write("keyboard", TRUE)>>

Arm4(a) == <<Write("operand", a), Write("sentinel", FALSE), Write("status", {}),
             Write("rearm", TRUE)>>
Arm3 == <<Write("sentinel", FALSE), Write("status", {}), Write("rearm", TRUE)>>
Arm2 == <<Write("status", {}), Write("rearm", TRUE)>>
Arm1 == <<Write("rearm", TRUE)>>

Installing(a) == {InstallWrites(a), Install4, Install3, Install2, Install1}
Arming(a) == {Arm4(a), Arm3, Arm2, SampleWrites, Arm1}

(* What there can be left to send, on this machine so far or on a fresh one.  *)
Lists(a) == IF installed THEN Arming(a) ELSE Installing(a)

NextCell == Head(todo).cell

Routine == Routines \cup {"none"}
RunRecord == [routine : Routine, call : Nat]

MemRecord ==
  [operand : Routine, sentinel : BOOLEAN, status : SUBSET RunRecord,
   rearm : BOOLEAN, keyboard : BOOLEAN]

TrampolineTypeOK ==
  /\ mem \in MemRecord
  /\ cpu \in {"basic", "jsr", "routine", "flag", "park", "clear"}
  /\ run \in RunRecord
  /\ installed \in BOOLEAN
  /\ host \in {"idle", "write", "poll", "read", "capture"}
  /\ host = "write" => todo \in Lists(addr)
  /\ purpose \in {"call", "warm-up", "sample"}
  /\ addr \in Routine
  /\ left \in Nat /\ calls \in Nat /\ runs \in Nat /\ timeouts \in Nat

LEMMA Tail5 ==
  ASSUME NEW a, NEW b, NEW c, NEW d, NEW e
  PROVE  Tail(<<a, b, c, d, e>>) = <<b, c, d, e>>
OBVIOUS

LEMMA Tail4 ==
  ASSUME NEW a, NEW b, NEW c, NEW d
  PROVE  Tail(<<a, b, c, d>>) = <<b, c, d>>
OBVIOUS

LEMMA Tail3 ==
  ASSUME NEW a, NEW b, NEW c
  PROVE  Tail(<<a, b, c>>) = <<b, c>>
OBVIOUS

LEMMA Tail2 ==
  ASSUME NEW a, NEW b
  PROVE  Tail(<<a, b>>) = <<b>>
OBVIOUS

(* What is first and what is next, list by list.                              *)
LEMMA InstallTails ==
  ASSUME NEW a
  PROVE  /\ Tail(InstallWrites(a)) = Install4 /\ Len(InstallWrites(a)) > 1
         /\ Head(InstallWrites(a)) = Write("operand", a)
         /\ Tail(Install4) = Install3 /\ Len(Install4) > 1
         /\ Head(Install4) = Write("sentinel", FALSE)
         /\ Tail(Install3) = Install2 /\ Len(Install3) > 1
         /\ Head(Install3) = Write("status", {})
         /\ Tail(Install2) = Install1 /\ Len(Install2) > 1
         /\ Head(Install2) = Write("rearm", FALSE)
         /\ Tail(Install1) = <<>> /\ ~(Len(Install1) > 1)
         /\ Head(Install1) = Write("keyboard", TRUE)
<1>1. /\ Tail(InstallWrites(a)) = Install4 /\ Len(InstallWrites(a)) > 1
      /\ Head(InstallWrites(a)) = Write("operand", a)
  <2>1. Tail(InstallWrites(a)) = Install4
    <3> DEFINE o == Write("operand", a)
               s == Write("sentinel", FALSE)
               u == Write("status", {})
               r == Write("rearm", FALSE)
               k == Write("keyboard", TRUE)
    <3>1. InstallWrites(a) = <<o, s, u, r, k>> /\ Install4 = <<s, u, r, k>>
      BY DEF InstallWrites, Install4
    <3> HIDE DEF o, s, u, r, k
    <3>2. Tail(<<o, s, u, r, k>>) = <<s, u, r, k>>
      OBVIOUS
    <3> QED BY <3>1, <3>2, Zenon
  <2>2. Len(InstallWrites(a)) > 1
    BY DEF InstallWrites, Install4, Install3, Install2, Install1
  <2>3. Head(InstallWrites(a)) = Write("operand", a)
    BY DEF InstallWrites, Install4, Install3, Install2, Install1
  <2> QED BY <2>1, <2>2, <2>3
<1>2. /\ Tail(Install4) = Install3 /\ Len(Install4) > 1
      /\ Head(Install4) = Write("sentinel", FALSE)
  <2>1. Tail(Install4) = Install3
    BY Tail4 DEF InstallWrites, Install4, Install3, Install2, Install1
  <2>2. Len(Install4) > 1
    BY DEF InstallWrites, Install4, Install3, Install2, Install1
  <2>3. Head(Install4) = Write("sentinel", FALSE)
    BY DEF InstallWrites, Install4, Install3, Install2, Install1
  <2> QED BY <2>1, <2>2, <2>3
<1>3. /\ Tail(Install3) = Install2 /\ Len(Install3) > 1
      /\ Head(Install3) = Write("status", {})
  <2>1. Tail(Install3) = Install2
    BY Tail3 DEF InstallWrites, Install4, Install3, Install2, Install1
  <2>2. Len(Install3) > 1
    BY DEF InstallWrites, Install4, Install3, Install2, Install1
  <2>3. Head(Install3) = Write("status", {})
    BY DEF InstallWrites, Install4, Install3, Install2, Install1
  <2> QED BY <2>1, <2>2, <2>3
<1>4. /\ Tail(Install2) = Install1 /\ Len(Install2) > 1
      /\ Head(Install2) = Write("rearm", FALSE)
  <2>1. Tail(Install2) = Install1
    BY Tail2 DEF InstallWrites, Install4, Install3, Install2, Install1
  <2>2. Len(Install2) > 1
    BY DEF InstallWrites, Install4, Install3, Install2, Install1
  <2>3. Head(Install2) = Write("rearm", FALSE)
    BY DEF InstallWrites, Install4, Install3, Install2, Install1
  <2> QED BY <2>1, <2>2, <2>3
<1>5. /\ Tail(Install1) = <<>> /\ ~(Len(Install1) > 1)
      /\ Head(Install1) = Write("keyboard", TRUE)
  <2>1. Tail(Install1) = <<>>
    BY DEF InstallWrites, Install4, Install3, Install2, Install1
  <2>2. ~(Len(Install1) > 1)
    BY DEF InstallWrites, Install4, Install3, Install2, Install1
  <2>3. Head(Install1) = Write("keyboard", TRUE)
    BY DEF InstallWrites, Install4, Install3, Install2, Install1
  <2> QED BY <2>1, <2>2, <2>3
<1> QED BY <1>1, <1>2, <1>3, <1>4, <1>5

LEMMA ArmTails ==
  ASSUME NEW a
  PROVE  /\ Tail(Arm4(a)) = Arm3 /\ Len(Arm4(a)) > 1
         /\ Head(Arm4(a)) = Write("operand", a)
         /\ Tail(Arm3) = Arm2 /\ Len(Arm3) > 1
         /\ Head(Arm3) = Write("sentinel", FALSE)
         /\ Tail(Arm2) = Arm1 /\ Len(Arm2) > 1
         /\ Head(Arm2) = Write("status", {})
         /\ Tail(SampleWrites) = Arm1 /\ Len(SampleWrites) > 1
         /\ Head(SampleWrites) = Write("sentinel", FALSE)
         /\ Tail(Arm1) = <<>> /\ ~(Len(Arm1) > 1)
         /\ Head(Arm1) = Write("rearm", TRUE)
<1>1. /\ Tail(Arm4(a)) = Arm3 /\ Len(Arm4(a)) > 1
      /\ Head(Arm4(a)) = Write("operand", a)
  <2>1. Tail(Arm4(a)) = Arm3
    BY Tail4 DEF Arm4, Arm3, Arm2, SampleWrites, Arm1
  <2>2. Len(Arm4(a)) > 1
    BY DEF Arm4, Arm3, Arm2, SampleWrites, Arm1
  <2>3. Head(Arm4(a)) = Write("operand", a)
    BY DEF Arm4, Arm3, Arm2, SampleWrites, Arm1
  <2> QED BY <2>1, <2>2, <2>3
<1>2. /\ Tail(Arm3) = Arm2 /\ Len(Arm3) > 1
      /\ Head(Arm3) = Write("sentinel", FALSE)
  <2>1. Tail(Arm3) = Arm2
    BY Tail3 DEF Arm4, Arm3, Arm2, SampleWrites, Arm1
  <2>2. Len(Arm3) > 1
    BY DEF Arm4, Arm3, Arm2, SampleWrites, Arm1
  <2>3. Head(Arm3) = Write("sentinel", FALSE)
    BY DEF Arm4, Arm3, Arm2, SampleWrites, Arm1
  <2> QED BY <2>1, <2>2, <2>3
<1>3. /\ Tail(Arm2) = Arm1 /\ Len(Arm2) > 1
      /\ Head(Arm2) = Write("status", {})
  <2>1. Tail(Arm2) = Arm1
    BY Tail2 DEF Arm4, Arm3, Arm2, SampleWrites, Arm1
  <2>2. Len(Arm2) > 1
    BY DEF Arm4, Arm3, Arm2, SampleWrites, Arm1
  <2>3. Head(Arm2) = Write("status", {})
    BY DEF Arm4, Arm3, Arm2, SampleWrites, Arm1
  <2> QED BY <2>1, <2>2, <2>3
<1>4. /\ Tail(SampleWrites) = Arm1 /\ Len(SampleWrites) > 1
      /\ Head(SampleWrites) = Write("sentinel", FALSE)
  <2>1. Tail(SampleWrites) = Arm1
    BY Tail2 DEF Arm4, Arm3, Arm2, SampleWrites, Arm1
  <2>2. Len(SampleWrites) > 1
    BY DEF Arm4, Arm3, Arm2, SampleWrites, Arm1
  <2>3. Head(SampleWrites) = Write("sentinel", FALSE)
    BY DEF Arm4, Arm3, Arm2, SampleWrites, Arm1
  <2> QED BY <2>1, <2>2, <2>3
<1>5. /\ Tail(Arm1) = <<>> /\ ~(Len(Arm1) > 1)
      /\ Head(Arm1) = Write("rearm", TRUE)
  <2>1. Tail(Arm1) = <<>>
    BY DEF Arm4, Arm3, Arm2, SampleWrites, Arm1
  <2>2. ~(Len(Arm1) > 1)
    BY DEF Arm4, Arm3, Arm2, SampleWrites, Arm1
  <2>3. Head(Arm1) = Write("rearm", TRUE)
    BY DEF Arm4, Arm3, Arm2, SampleWrites, Arm1
  <2> QED BY <2>1, <2>2, <2>3
<1> QED BY <1>1, <1>2, <1>3, <1>4, <1>5

LEMMA Prepend ==
  ASSUME NEW x, NEW a, NEW b, NEW c
  PROVE  <<x>> \o <<a, b, c>> = <<x, a, b, c>>
<1> DEFINE S == {x, a, b, c}
           s == <<x>>
           t == <<a, b, c>>
           u == <<x, a, b, c>>
<1>1. /\ s \in Seq(S) /\ t \in Seq(S) /\ u \in Seq(S)
      /\ Len(s) = 1 /\ Len(t) = 3 /\ Len(u) = 4
      /\ s[1] = x /\ t[1] = a /\ t[2] = b /\ t[3] = c
      /\ u[1] = x /\ u[2] = a /\ u[3] = b /\ u[4] = c
  OBVIOUS
<1> HIDE DEF S, s, t, u
<1>2. /\ s \o t \in Seq(S) /\ Len(s \o t) = 4
      /\ \A i \in 1 .. 4 : (s \o t)[i] = IF i <= 1 THEN s[i] ELSE t[i - 1]
  <2> DEFINE w == s \o t
  <2>1. /\ w \in Seq(S) /\ Len(w) = Len(s) + Len(t)
        /\ \A i \in 1 .. Len(s) + Len(t) :
             w[i] = IF i <= Len(s) THEN s[i] ELSE t[i - Len(s)]
    BY <1>1, ConcatProperties
  <2> HIDE DEF w
  <2>2. /\ w \in Seq(S) /\ Len(w) = 4
        /\ \A i \in 1 .. 4 : w[i] = IF i <= 1 THEN s[i] ELSE t[i - 1]
    BY <1>1, <2>1
  <2> QED BY <2>2 DEF w
<1>3. \A i \in 1 .. 4 : (s \o t)[i] = u[i]
  <2>1. (s \o t)[1] = u[1] /\ (s \o t)[2] = u[2] /\ (s \o t)[3] = u[3] /\ (s \o t)[4] = u[4]
    BY <1>1, <1>2
  <2>2. \A i \in 1 .. 4 : i = 1 \/ i = 2 \/ i = 3 \/ i = 4
    OBVIOUS
  <2> QED BY <2>1, <2>2
<1>4. s \o t = u
  BY <1>1, <1>2, <1>3, SeqEqual
<1> QED BY <1>4 DEF s, t, u

LEMMA RearmIs ==
  ASSUME NEW a
  PROVE  RearmWrites(a) = IF a # last_addr THEN Arm4(a) ELSE Arm3
BY Prepend, Zenon DEF RearmWrites, Retarget, Arm4, Arm3

(* The lists a call and a sample begin with.                                 *)
LEMMA ListsBegin ==
  ASSUME NEW a
  PROVE  /\ (IF installed THEN RearmWrites(a) ELSE InstallWrites(a)) \in Lists(a)
         /\ Head(IF installed THEN RearmWrites(a) ELSE InstallWrites(a)).cell
              = IF installed /\ a = last_addr THEN "sentinel" ELSE "operand"
         /\ installed => SampleWrites \in Lists(a)
         /\ Head(SampleWrites).cell = "sentinel"
<1> DEFINE w == IF installed THEN RearmWrites(a) ELSE InstallWrites(a)
<1>1. w = IF installed THEN (IF a # last_addr THEN Arm4(a) ELSE Arm3)
          ELSE InstallWrites(a)
  BY RearmIs
<1> HIDE DEF w
<1>2. w \in Lists(a)
  BY <1>1 DEF Lists, Installing, Arming
<1>3. /\ Head(Arm4(a)).cell = "operand" /\ Head(Arm3).cell = "sentinel"
      /\ Head(InstallWrites(a)).cell = "operand" /\ Head(SampleWrites).cell = "sentinel"
  <2>1. Head(InstallWrites(a)).cell = "operand"
    BY InstallTails DEF Write
  <2>2. /\ Head(Arm4(a)).cell = "operand" /\ Head(Arm3).cell = "sentinel"
        /\ Head(SampleWrites).cell = "sentinel"
    BY ArmTails DEF Write
  <2> QED BY <2>1, <2>2
<1>4. Head(w).cell = IF installed /\ a = last_addr THEN "sentinel" ELSE "operand"
  BY <1>1, <1>3
<1>5. installed => SampleWrites \in Lists(a)
  BY DEF Lists, Arming
<1> QED BY <1>2, <1>3, <1>4, <1>5 DEF w

(* One write: which cell gets which value, and what is left.                 *)
LEMMA WriteIs ==
  ASSUME installed \in BOOLEAN, todo \in Lists(addr)
  PROVE  \/ /\ Head(todo) = Write("operand", addr) /\ Len(todo) > 1
            /\ Tail(todo) \in Lists(addr) /\ Head(Tail(todo)).cell = "sentinel"
         \/ /\ Head(todo) = Write("sentinel", FALSE) /\ Len(todo) > 1
            /\ Tail(todo) \in Lists(addr)
            /\ Head(Tail(todo)).cell \in {"status", "rearm"}
         \/ /\ Head(todo) = Write("status", {}) /\ Len(todo) > 1
            /\ Tail(todo) \in Lists(addr) /\ Head(Tail(todo)).cell = "rearm"
         \/ /\ Head(todo) = Write("rearm", FALSE) /\ Len(todo) > 1 /\ ~installed
            /\ Tail(todo) \in Lists(addr) /\ Head(Tail(todo)).cell = "keyboard"
         \/ Head(todo) = Write("keyboard", TRUE) /\ ~(Len(todo) > 1) /\ ~installed
         \/ Head(todo) = Write("rearm", TRUE) /\ ~(Len(todo) > 1) /\ installed
<1>1. CASE ~installed
  <2>1. todo \in {InstallWrites(addr), Install4, Install3, Install2, Install1}
    BY <1>1 DEF Lists, Installing
  <2>2. Lists(addr) = {InstallWrites(addr), Install4, Install3, Install2, Install1}
    BY <1>1 DEF Lists, Installing
  <2>4. CASE todo = InstallWrites(addr)
    <3>1. Head(todo) = Write("operand", addr) /\ Len(todo) > 1
      BY <2>4, InstallTails
    <3>2. Tail(todo) = Install4 /\ Install4 \in Lists(addr)
      BY <2>2, <2>4, InstallTails
    <3>3. Head(Install4).cell = "sentinel"
      BY InstallTails DEF Write
    <3> QED BY <1>1, <3>1, <3>2, <3>3
  <2>5. CASE todo = Install4
    <3>1. Head(todo) = Write("sentinel", FALSE) /\ Len(todo) > 1
      BY <2>5, InstallTails
    <3>2. Tail(todo) = Install3 /\ Install3 \in Lists(addr)
      BY <2>2, <2>5, InstallTails
    <3>3. Head(Install3).cell = "status"
      BY InstallTails DEF Write
    <3> QED BY <1>1, <3>1, <3>2, <3>3
  <2>6. CASE todo = Install3
    <3>1. Head(todo) = Write("status", {}) /\ Len(todo) > 1
      BY <2>6, InstallTails
    <3>2. Tail(todo) = Install2 /\ Install2 \in Lists(addr)
      BY <2>2, <2>6, InstallTails
    <3>3. Head(Install2).cell = "rearm"
      BY InstallTails DEF Write
    <3> QED BY <1>1, <3>1, <3>2, <3>3
  <2>7. CASE todo = Install2
    <3>1. Head(todo) = Write("rearm", FALSE) /\ Len(todo) > 1
      BY <2>7, InstallTails
    <3>2. Tail(todo) = Install1 /\ Install1 \in Lists(addr)
      BY <2>2, <2>7, InstallTails
    <3>3. Head(Install1).cell = "keyboard"
      BY InstallTails DEF Write
    <3> QED BY <1>1, <3>1, <3>2, <3>3
  <2>8. CASE todo = Install1
    <3>1. Head(todo) = Write("keyboard", TRUE) /\ ~(Len(todo) > 1)
      BY <2>8, InstallTails
    <3> QED BY <1>1, <3>1
  <2> QED BY <2>1, <2>4, <2>5, <2>6, <2>7, <2>8
<1>2. CASE installed
  <2>1. todo \in {Arm4(addr), Arm3, Arm2, SampleWrites, Arm1}
    BY <1>2 DEF Lists, Arming
  <2>2. Lists(addr) = {Arm4(addr), Arm3, Arm2, SampleWrites, Arm1}
    BY <1>2 DEF Lists, Arming
  <2>4. CASE todo = Arm4(addr)
    <3>1. Head(todo) = Write("operand", addr) /\ Len(todo) > 1
      BY <2>4, ArmTails
    <3>2. Tail(todo) = Arm3 /\ Arm3 \in Lists(addr)
      BY <2>2, <2>4, ArmTails
    <3>3. Head(Arm3).cell = "sentinel"
      BY ArmTails DEF Write
    <3> QED BY <1>2, <3>1, <3>2, <3>3
  <2>5. CASE todo = Arm3
    <3>1. Head(todo) = Write("sentinel", FALSE) /\ Len(todo) > 1
      BY <2>5, ArmTails
    <3>2. Tail(todo) = Arm2 /\ Arm2 \in Lists(addr)
      BY <2>2, <2>5, ArmTails
    <3>3. Head(Arm2).cell = "status"
      BY ArmTails DEF Write
    <3> QED BY <1>2, <3>1, <3>2, <3>3
  <2>6. CASE todo = Arm2
    <3>1. Head(todo) = Write("status", {}) /\ Len(todo) > 1
      BY <2>6, ArmTails
    <3>2. Tail(todo) = Arm1 /\ Arm1 \in Lists(addr)
      BY <2>2, <2>6, ArmTails
    <3>3. Head(Arm1).cell = "rearm"
      BY ArmTails DEF Write
    <3> QED BY <1>2, <3>1, <3>2, <3>3
  <2>7. CASE todo = SampleWrites
    <3>1. Head(todo) = Write("sentinel", FALSE) /\ Len(todo) > 1
      BY <2>7, ArmTails
    <3>2. Tail(todo) = Arm1 /\ Arm1 \in Lists(addr)
      BY <2>2, <2>7, ArmTails
    <3>3. Head(Arm1).cell = "rearm"
      BY ArmTails DEF Write
    <3> QED BY <1>2, <3>1, <3>2, <3>3
  <2>8. CASE todo = Arm1
    <3>1. Head(todo) = Write("rearm", TRUE) /\ ~(Len(todo) > 1)
      BY <2>8, ArmTails
    <3> QED BY <1>2, <3>1
  <2> QED BY <2>1, <2>4, <2>5, <2>6, <2>7, <2>8
<1> QED BY <1>1, <1>2

-----------------------------------------------------------------------------
(* The inductive invariant.                                                  *)

(* Before the first call's last write nothing on the machine has been set off. *)
Fresh ==
  ~installed => /\ cpu = "basic" /\ ~mem.keyboard /\ ~mem.rearm /\ ~mem.sentinel
                /\ runs = 0 /\ host \in {"idle", "write"}

(* last_addr is the jsr's operand, and the operand is the routine asked for    *)
(* once it has been written.                                                *)
Operand ==
  /\ installed /\ host # "write" => last_addr = mem.operand
  /\ host = "write" => NextCell = "operand" \/ mem.operand = addr
  /\ host \in {"poll", "read", "capture"} => installed /\ mem.operand = addr

(* Each call and sample is one permission to run; it is with the host that    *)
(* has yet to write, in the keyboard buffer, in the flag, or with the machine  *)
(* about to enter the jsr, and in one of these places at a time.              *)
One(b) == IF b THEN 1 ELSE 0

Permissions ==
  /\ runs + One(host = "write") + One(mem.keyboard) + One(mem.rearm)
          + One(cpu = "jsr") <= calls
  /\ cpu = "clear" => mem.rearm

(* Which host states belong to a capture.                                    *)
Sampling ==
  /\ purpose = "sample" => host \in {"write", "poll"} /\ left < Samples
  /\ host = "capture" => purpose # "sample" /\ left = Samples
  /\ host # "idle" => returned = {}

Asked == [routine |-> addr, call |-> calls]

(* The machine's progress on the call that is being polled for.               *)
Pending ==
  /\ runs + 1 = calls /\ ~mem.sentinel
  /\ \/ cpu = "basic" /\ mem.keyboard /\ ~mem.rearm
     \/ cpu \in {"park", "clear"} /\ mem.rearm /\ ~mem.keyboard
     \/ cpu = "jsr" /\ ~mem.rearm /\ ~mem.keyboard

Answering ==
  /\ runs = calls /\ run = Asked /\ ~mem.rearm /\ ~mem.keyboard
  /\ \/ cpu = "routine" /\ ~mem.sentinel
     \/ cpu = "flag" /\ ~mem.sentinel /\ mem.status = {run}
     \/ cpu = "park" /\ mem.sentinel /\ mem.status = {run}

(* The machine waits for the host, which is not waiting for it.               *)
Resting ==
  /\ ~mem.rearm /\ ~mem.keyboard
  /\ cpu = IF installed THEN "park" ELSE "basic"
  /\ runs = IF host = "write" THEN calls - 1 ELSE calls

Turns ==
  timeouts = 0 =>
    /\ host # "poll" => Resting
    /\ host = "poll" => Pending \/ Answering
    /\ host = "write" => NextCell \in {"operand", "sentinel"} \/ ~mem.sentinel
    /\ host = "read" => mem.status = {Asked}
    /\ host = "idle" => returned \subseteq {{Asked}}

(* The trace of the samples so far.                                          *)
Captured ==
  timeouts = 0 =>
    /\ purpose = "sample" => Recorded(trace, calls - (Samples - left), runs)
    /\ purpose = "sample" /\ cpu = "routine" =>
         \A i \in DOMAIN trace : trace[i].run = runs => trace[i].at = "jsr"
    /\ purpose # "sample" => trace = <<>>

TrampolineInv ==
  /\ TrampolineTypeOK /\ Fresh /\ Operand /\ Permissions /\ Sampling
  /\ Turns /\ Captured /\ PairsBracketOneRun

LEMMA TrampolineInit == Init => TrampolineInv
<1> SUFFICES ASSUME Init PROVE TrampolineInv OBVIOUS
<1>1. TrampolineTypeOK
  BY DEF Init, TrampolineTypeOK, MemRecord, Routine, RunRecord, NoRun
<1>2. Fresh /\ Operand /\ Permissions /\ Sampling
  BY DEF Init, Fresh, Operand, Permissions, Sampling, One
<1>3. Turns /\ Captured
  BY DEF Init, Turns, Resting, Captured
<1>4. PairsBracketOneRun
  BY DEF Init, PairsBracketOneRun
<1> QED BY <1>1, <1>2, <1>3, <1>4 DEF TrampolineInv

(* The trace grows by a fetch that is later than all in it.                   *)
LEMMA RecordedGrows ==
  ASSUME NEW s, NEW b \in Int, NEW e \in Int, NEW x \in Entry, Recorded(s, b, e),
         b < x.run, x.run <= e, \A i \in DOMAIN s : Earlier(s[i], x)
  PROVE  Recorded(Append(s, x), b, e)
<1> DEFINE t == Append(s, x)
           n == Len(s)
<1>1. s \in Seq(Entry)
  BY DEF Recorded
<1>2. t \in Seq(Entry) /\ n \in Nat /\ DOMAIN s = 1 .. n
  BY <1>1
<1>3. Len(t) = n + 1 /\ t[n + 1] = x /\ \A i \in 1 .. n : t[i] = s[i]
  BY <1>1, AppendProperties
<1>4. DOMAIN t = 1 .. n + 1
  BY <1>2, <1>3
<1> HIDE DEF t, n
<1>5. \A i \in DOMAIN t : i = n + 1 \/ i \in DOMAIN s
  BY <1>2, <1>4
<1>6. \A i \in DOMAIN t : b < t[i].run /\ t[i].run <= e
  BY <1>2, <1>3, <1>5 DEF Recorded
<1>7. ASSUME NEW i \in DOMAIN t, NEW j \in DOMAIN t, i < j
      PROVE  Earlier(t[i], t[j])
  <2>1. i \in DOMAIN s
    BY <1>2, <1>4, <1>7
  <2>2. CASE j = n + 1
    BY <1>2, <1>3, <2>1, <2>2
  <2>3. CASE j \in DOMAIN s
    BY <1>2, <1>3, <1>7, <2>1, <2>3 DEF Recorded
  <2> QED BY <1>5, <2>2, <2>3
<1>8. Recorded(t, b, e)
  BY <1>2, <1>6, <1>7 DEF Recorded
<1> QED BY <1>8 DEF t

LEMMA RecordedLater ==
  ASSUME NEW s, NEW b \in Int, NEW e \in Int, Recorded(s, b, e)
  PROVE  /\ Recorded(s, b, e + 1)
         /\ \A i \in DOMAIN s : s[i] \in Entry /\ s[i].run \in Int /\ s[i].run < e + 1
<1>1. s \in Seq(Entry)
  BY DEF Recorded
<1>2. \A i \in DOMAIN s : s[i] \in Entry
  BY <1>1
<1>3. \A i \in DOMAIN s : s[i].run \in Int /\ s[i].run <= e /\ b < s[i].run
  BY <1>2 DEF Recorded, Entry
<1>4. \A i \in DOMAIN s : b < s[i].run /\ s[i].run <= e + 1 /\ s[i].run < e + 1
  BY <1>3
<1> QED BY <1>1, <1>2, <1>3, <1>4 DEF Recorded

LEMMA NothingRecorded == ASSUME NEW b, NEW e PROVE Recorded(<<>>, b, e)
BY DEF Recorded

-----------------------------------------------------------------------------
(* The machine's steps.                                                      *)

LEMMA SysKeeps == TrampolineInv /\ Sys => TrampolineInv'
<1> SUFFICES ASSUME TrampolineInv, Sys PROVE TrampolineInv' OBVIOUS
<1> USE DEF TrampolineInv
<1>1. /\ cpu = "basic" /\ mem.keyboard /\ cpu' = "jsr"
      /\ run' = run /\ runs' = runs /\ installed' = installed
      /\ last_addr' = last_addr /\ host' = host /\ todo' = todo
      /\ purpose' = purpose /\ addr' = addr /\ left' = left /\ trace' = trace
      /\ returned' = returned /\ measured' = measured /\ calls' = calls
      /\ timeouts' = timeouts
  BY DEF Sys, session
<1>2. /\ mem' \in MemRecord /\ ~mem'.keyboard /\ mem'.rearm = mem.rearm
      /\ mem'.operand = mem.operand /\ mem'.sentinel = mem.sentinel
      /\ mem'.status = mem.status
  BY DEF Sys, TrampolineTypeOK, MemRecord
<1>3. TrampolineTypeOK'
  BY <1>1, <1>2 DEF TrampolineTypeOK, Lists
<1>4. installed
  BY <1>1 DEF Fresh, TrampolineTypeOK
<1>5. Fresh' /\ Operand' /\ Sampling'
  BY <1>1, <1>2, <1>4 DEF Fresh, Operand, Sampling, NextCell
<1>6. Permissions'
  BY <1>1, <1>2 DEF Permissions, One, TrampolineTypeOK
<1>7. Turns'
  BY <1>1, <1>2, <1>4 DEF Turns, Resting, Pending, Answering, Asked, TrampolineTypeOK
<1>8. Captured' /\ PairsBracketOneRun'
  BY <1>1 DEF Captured, PairsBracketOneRun
<1> QED BY <1>3, <1>5, <1>6, <1>7, <1>8

LEMMA JsrKeeps == TrampolineInv /\ Jsr => TrampolineInv'
<1> SUFFICES ASSUME TrampolineInv, Jsr PROVE TrampolineInv' OBVIOUS
<1> USE DEF TrampolineInv
<1>1. /\ cpu = "jsr" /\ cpu' = "routine" /\ mem' = mem
      /\ run' = [routine |-> mem.operand, call |-> calls] /\ runs' = runs + 1
      /\ installed' = installed /\ last_addr' = last_addr
      /\ host' = host /\ todo' = todo /\ purpose' = purpose /\ addr' = addr
      /\ left' = left /\ returned' = returned /\ measured' = measured
      /\ calls' = calls /\ timeouts' = timeouts
  BY DEF Jsr, session
<1>2. /\ purpose # "sample" => trace' = trace
      /\ trace' = trace \/ trace' = Append(trace, [at |-> "jsr", run |-> runs + 1])
  BY DEF Jsr, Seen
<1>3. TrampolineTypeOK'
  BY <1>1 DEF TrampolineTypeOK, MemRecord, RunRecord, Lists
<1>4. installed
  BY <1>1 DEF Fresh, TrampolineTypeOK
<1>5. Fresh' /\ Operand' /\ Sampling'
  BY <1>1, <1>4 DEF Fresh, Operand, Sampling, NextCell
<1>6. Permissions'
  BY <1>1 DEF Permissions, One, TrampolineTypeOK
<1>7. timeouts = 0 => host = "poll" /\ Pending
  BY <1>1, <1>4 DEF Turns, Resting, Answering
<1>8. Turns'
  BY <1>1, <1>4, <1>7 DEF Turns, Pending, Answering, Asked, Operand, TrampolineTypeOK
<1>9. Captured'
  <2> SUFFICES ASSUME timeouts = 0, purpose = "sample"
               PROVE  /\ Recorded(trace', calls - (Samples - left), runs + 1)
                      /\ \A i \in DOMAIN trace' : trace'[i].run = runs + 1
                                                    => trace'[i].at = "jsr"
    BY <1>1, <1>2 DEF Captured
  <2> DEFINE b == calls - (Samples - left)
             x == [at |-> "jsr", run |-> runs + 1]
  <2>1. b \in Int /\ b < runs + 1 /\ runs \in Int /\ runs + 1 \in Int
    BY <1>7, SamplesAssumption DEF Pending, Sampling, TrampolineTypeOK
  <2>2. x \in Entry /\ x.run = runs + 1 /\ x.at = "jsr"
    BY <2>1 DEF Entry
  <2>3. Recorded(trace, b, runs)
    BY DEF Captured
  <2> HIDE DEF b, x
  <2>4. /\ Recorded(trace, b, runs + 1)
        /\ \A i \in DOMAIN trace : trace[i].run \in Int /\ trace[i].run < runs + 1
    BY <2>1, <2>3, RecordedLater
  <2>5. CASE trace' = trace
    BY <2>1, <2>4, <2>5 DEF b
  <2>6. CASE trace' = Append(trace, x)
    <3>1. \A i \in DOMAIN trace : Earlier(trace[i], x)
      BY <2>2, <2>4 DEF Earlier
    <3>2. Recorded(trace', b, runs + 1)
      BY <2>1, <2>2, <2>4, <2>6, <3>1, RecordedGrows
    <3>3. trace \in Seq(Entry)
      BY <2>3 DEF Recorded
    <3>4. ASSUME NEW i \in DOMAIN trace', trace'[i].run = runs + 1
          PROVE  trace'[i].at = "jsr"
      <4>1. (i \in DOMAIN trace /\ trace'[i] = trace[i]) \/ trace'[i] = x
        BY <2>6, <3>3
      <4> QED BY <2>1, <2>2, <2>4, <3>4, <4>1
    <3> QED BY <3>2, <3>4 DEF b
  <2> QED BY <1>2, <2>5, <2>6 DEF x
<1>10. PairsBracketOneRun'
  BY <1>1 DEF PairsBracketOneRun
<1> QED BY <1>3, <1>5, <1>6, <1>8, <1>9, <1>10

LEMMA StoreStatusKeeps == TrampolineInv /\ StoreStatus => TrampolineInv'
<1> SUFFICES ASSUME TrampolineInv, StoreStatus PROVE TrampolineInv' OBVIOUS
<1> USE DEF TrampolineInv
<1>1. /\ cpu = "routine" /\ cpu' = "flag"
      /\ run' = run /\ runs' = runs
      /\ installed' = installed /\ last_addr' = last_addr
      /\ host' = host /\ todo' = todo /\ purpose' = purpose /\ addr' = addr
      /\ left' = left /\ returned' = returned /\ measured' = measured
      /\ calls' = calls /\ timeouts' = timeouts
  BY DEF StoreStatus, session
<1>2. /\ purpose # "sample" => trace' = trace
      /\ trace' = trace \/ trace' = Append(trace, [at |-> "sta", run |-> runs])
  BY DEF StoreStatus, Seen
<1>a. /\ mem' \in MemRecord /\ mem'.status = {run}
      /\ mem'.operand = mem.operand /\ mem'.sentinel = mem.sentinel
      /\ mem'.rearm = mem.rearm /\ mem'.keyboard = mem.keyboard
  BY DEF StoreStatus, TrampolineTypeOK, MemRecord
<1>3. TrampolineTypeOK'
  BY <1>1, <1>a DEF TrampolineTypeOK, Lists
<1>4. installed
  BY <1>1 DEF Fresh, TrampolineTypeOK
<1>5. Fresh' /\ Operand' /\ Sampling'
  BY <1>1, <1>4, <1>a DEF Fresh, Operand, Sampling, NextCell
<1>6. Permissions'
  BY <1>1, <1>a DEF Permissions, One, TrampolineTypeOK
<1>7. timeouts = 0 => host = "poll" /\ Answering /\ ~mem.sentinel
  BY <1>1, <1>4 DEF Turns, Resting, Pending, Answering
<1>8. Turns'
  BY <1>1, <1>4, <1>7, <1>a DEF Turns, Answering, Asked
<1>9. Captured'
  <2> SUFFICES ASSUME timeouts = 0, purpose = "sample"
               PROVE  Recorded(trace', calls - (Samples - left), runs)
    BY <1>1, <1>2 DEF Captured
  <2> DEFINE b == calls - (Samples - left)
             x == [at |-> "sta", run |-> runs]
  <2>1. b \in Int /\ b < runs /\ runs \in Int
    BY <1>7, SamplesAssumption DEF Answering, Sampling, TrampolineTypeOK
  <2>2. x \in Entry /\ x.run = runs /\ x.at = "sta"
    BY <2>1 DEF Entry
  <2>3. /\ Recorded(trace, b, runs)
        /\ \A i \in DOMAIN trace : trace[i].run = runs => trace[i].at = "jsr"
    BY <1>1 DEF Captured
  <2> HIDE DEF b, x
  <2>4. \A i \in DOMAIN trace : trace[i].run \in Int /\ trace[i].run < runs + 1
    BY <2>1, <2>3, RecordedLater
  <2>5. CASE trace' = trace
    BY <2>3, <2>5 DEF b
  <2>6. CASE trace' = Append(trace, x)
    <3>1. \A i \in DOMAIN trace : Earlier(trace[i], x)
      BY <2>1, <2>2, <2>3, <2>4 DEF Earlier
    <3>2. Recorded(trace', b, runs)
      BY <2>1, <2>2, <2>3, <2>6, <3>1, RecordedGrows
    <3> QED BY <3>2 DEF b
  <2> QED BY <1>2, <2>5, <2>6 DEF x
<1>10. PairsBracketOneRun'
  BY <1>1 DEF PairsBracketOneRun
<1> QED BY <1>3, <1>5, <1>6, <1>8, <1>9, <1>10

LEMMA StoreSentinelKeeps == TrampolineInv /\ StoreSentinel => TrampolineInv'
<1> SUFFICES ASSUME TrampolineInv, StoreSentinel PROVE TrampolineInv' OBVIOUS
<1> USE DEF TrampolineInv
<1>1. /\ cpu = "flag" /\ cpu' = "park"
      /\ run' = run /\ runs' = runs /\ installed' = installed
      /\ last_addr' = last_addr /\ host' = host /\ todo' = todo
      /\ purpose' = purpose /\ addr' = addr /\ left' = left /\ trace' = trace
      /\ returned' = returned /\ measured' = measured /\ calls' = calls
      /\ timeouts' = timeouts
  BY DEF StoreSentinel, session
<1>2. /\ mem' \in MemRecord /\ mem'.sentinel
      /\ mem'.operand = mem.operand /\ mem'.status = mem.status
      /\ mem'.rearm = mem.rearm /\ mem'.keyboard = mem.keyboard
  BY DEF StoreSentinel, TrampolineTypeOK, MemRecord
<1>3. TrampolineTypeOK'
  BY <1>1, <1>2 DEF TrampolineTypeOK, Lists
<1>4. installed
  BY <1>1 DEF Fresh, TrampolineTypeOK
<1>5. Fresh' /\ Operand' /\ Sampling'
  BY <1>1, <1>2, <1>4 DEF Fresh, Operand, Sampling, NextCell
<1>6. Permissions'
  BY <1>1, <1>2 DEF Permissions, One, TrampolineTypeOK
<1>7. timeouts = 0 => host = "poll" /\ Answering /\ mem.status = {run}
  BY <1>1, <1>4 DEF Turns, Resting, Pending, Answering
<1>8. Turns'
  BY <1>1, <1>2, <1>7 DEF Turns, Answering, Asked
<1>9. Captured' /\ PairsBracketOneRun'
  BY <1>1 DEF Captured, PairsBracketOneRun
<1> QED BY <1>3, <1>5, <1>6, <1>8, <1>9

LEMMA LeaveParkKeeps == TrampolineInv /\ LeavePark => TrampolineInv'
<1> SUFFICES ASSUME TrampolineInv, LeavePark PROVE TrampolineInv' OBVIOUS
<1> USE DEF TrampolineInv
<1>1. /\ cpu = "park" /\ mem.rearm /\ cpu' = "clear" /\ mem' = mem
      /\ run' = run /\ runs' = runs /\ installed' = installed
      /\ last_addr' = last_addr /\ host' = host /\ todo' = todo
      /\ purpose' = purpose /\ addr' = addr /\ left' = left /\ trace' = trace
      /\ returned' = returned /\ measured' = measured /\ calls' = calls
      /\ timeouts' = timeouts
  BY DEF LeavePark, session
<1>2. TrampolineTypeOK'
  BY <1>1 DEF TrampolineTypeOK, Lists
<1>3. installed
  BY <1>1 DEF Fresh, TrampolineTypeOK
<1>4. Fresh' /\ Operand' /\ Sampling'
  BY <1>1, <1>3 DEF Fresh, Operand, Sampling, NextCell
<1>5. Permissions'
  BY <1>1 DEF Permissions, One, TrampolineTypeOK
<1>6. timeouts = 0 => host = "poll" /\ Pending
  BY <1>1, <1>3 DEF Turns, Resting, Pending, Answering
<1>7. Turns'
  BY <1>1, <1>6 DEF Turns, Pending
<1>8. Captured' /\ PairsBracketOneRun'
  BY <1>1 DEF Captured, PairsBracketOneRun
<1> QED BY <1>2, <1>4, <1>5, <1>7, <1>8

LEMMA ClearFlagKeeps == TrampolineInv /\ ClearFlag => TrampolineInv'
<1> SUFFICES ASSUME TrampolineInv, ClearFlag PROVE TrampolineInv' OBVIOUS
<1> USE DEF TrampolineInv
<1>1. /\ cpu = "clear" /\ cpu' = "jsr"
      /\ run' = run /\ runs' = runs /\ installed' = installed
      /\ last_addr' = last_addr /\ host' = host /\ todo' = todo
      /\ purpose' = purpose /\ addr' = addr /\ left' = left /\ trace' = trace
      /\ returned' = returned /\ measured' = measured /\ calls' = calls
      /\ timeouts' = timeouts
  BY DEF ClearFlag, session
<1>2. /\ mem' \in MemRecord /\ ~mem'.rearm
      /\ mem'.operand = mem.operand /\ mem'.status = mem.status
      /\ mem'.sentinel = mem.sentinel /\ mem'.keyboard = mem.keyboard
  BY DEF ClearFlag, TrampolineTypeOK, MemRecord
<1>3. TrampolineTypeOK'
  BY <1>1, <1>2 DEF TrampolineTypeOK, Lists
<1>4. installed
  BY <1>1 DEF Fresh, TrampolineTypeOK
<1>5. Fresh' /\ Operand' /\ Sampling'
  BY <1>1, <1>2, <1>4 DEF Fresh, Operand, Sampling, NextCell
<1>6. Permissions'
  BY <1>1, <1>2 DEF Permissions, One, TrampolineTypeOK
<1>7. timeouts = 0 => host = "poll" /\ Pending
  BY <1>1, <1>4 DEF Turns, Resting, Pending, Answering
<1>8. Turns'
  BY <1>1, <1>2, <1>7 DEF Turns, Pending
<1>9. Captured' /\ PairsBracketOneRun'
  BY <1>1 DEF Captured, PairsBracketOneRun
<1> QED BY <1>3, <1>5, <1>6, <1>8, <1>9

-----------------------------------------------------------------------------
(* The host's steps.                                                         *)

LEMMA CallKeeps ==
  ASSUME TrampolineInv, NEW a \in Routines, NEW why \in {"call", "warm-up"},
         Call(a, why)
  PROVE  TrampolineInv'
<1> USE DEF TrampolineInv
<1>1. /\ host = "idle" /\ calls' = calls + 1 /\ addr' = a /\ purpose' = why
      /\ host' = "write" /\ returned' = {}
      /\ todo' = IF installed THEN RearmWrites(a) ELSE InstallWrites(a)
      /\ mem' = mem /\ cpu' = cpu /\ run' = run /\ runs' = runs
      /\ installed' = installed /\ last_addr' = last_addr /\ left' = left
      /\ trace' = trace /\ measured' = measured /\ timeouts' = timeouts
  BY DEF Call, machine, session
<1>2. /\ todo' \in Lists(a)
      /\ Head(todo').cell = IF installed /\ a = last_addr THEN "sentinel" ELSE "operand"
  BY <1>1, ListsBegin
<1>3. TrampolineTypeOK'
  BY <1>1, <1>2 DEF TrampolineTypeOK, Lists, Routine
<1>4. Fresh' /\ Operand' /\ Sampling'
  BY <1>1, <1>2 DEF Fresh, Operand, Sampling, NextCell
<1>5. Permissions'
  BY <1>1 DEF Permissions, One, TrampolineTypeOK
<1>6. Turns'
  BY <1>1, <1>2 DEF Turns, Resting, NextCell, TrampolineTypeOK
<1>7. Captured' /\ PairsBracketOneRun'
  BY <1>1 DEF Captured, Sampling, PairsBracketOneRun
<1> QED BY <1>3, <1>4, <1>5, <1>6, <1>7

(* Sending the write of a value into a cell stores it there.                  *)
LEMMA WriteStores ==
  ASSUME NEW c, NEW v, Head(todo) = Write(c, v),
         mem' = [mem EXCEPT ![Head(todo).cell] = Head(todo).value]
  PROVE  mem' = [mem EXCEPT ![c] = v]
<1>1. Head(todo).cell = c /\ Head(todo).value = v
  BY DEF Write
<1> QED BY <1>1

LEMMA HostWriteKeeps == TrampolineInv /\ HostWrite => TrampolineInv'
<1> SUFFICES ASSUME TrampolineInv, HostWrite PROVE TrampolineInv' OBVIOUS
<1> USE DEF TrampolineInv
<1>1. /\ host = "write" /\ todo' = Tail(todo)
      /\ mem' = [mem EXCEPT ![Head(todo).cell] = Head(todo).value]
      /\ cpu' = cpu /\ run' = run /\ runs' = runs /\ purpose' = purpose
      /\ addr' = addr /\ left' = left /\ trace' = trace /\ returned' = returned
      /\ measured' = measured /\ calls' = calls /\ timeouts' = timeouts
  BY DEF HostWrite, machine
<1>2. /\ Len(todo) > 1 => /\ host' = host /\ installed' = installed
                          /\ last_addr' = last_addr
      /\ ~(Len(todo) > 1) => host' = "poll" /\ installed' = TRUE /\ last_addr' = addr
  BY DEF HostWrite, session
<1>3. mem \in MemRecord /\ installed \in BOOLEAN /\ todo \in Lists(addr)
  BY <1>1 DEF TrampolineTypeOK
<1>4. PairsBracketOneRun'
  BY <1>1 DEF PairsBracketOneRun
<1>5. Captured'
  BY <1>1 DEF Captured
<1>a. addr \in Routine
  BY DEF TrampolineTypeOK
<1>6. ASSUME Head(todo) = Write("operand", addr), Len(todo) > 1,
             Tail(todo) \in Lists(addr), Head(Tail(todo)).cell = "sentinel"
      PROVE  TrampolineInv'
  <2>1. /\ mem' \in MemRecord /\ mem'.operand = addr
        /\ mem'.sentinel = mem.sentinel /\ mem'.status = mem.status
        /\ mem'.rearm = mem.rearm /\ mem'.keyboard = mem.keyboard
    <3>1. mem' = [mem EXCEPT !.operand = addr]
      BY <1>1, <1>6, WriteStores
    <3> QED BY <1>3, <1>a, <3>1 DEF MemRecord
  <2>2. NextCell' = "sentinel"
    BY <1>1, <1>6 DEF NextCell
  <2>3. TrampolineTypeOK'
    BY <1>1, <1>2, <1>6, <2>1 DEF TrampolineTypeOK, Lists
  <2>4. Fresh' /\ Operand' /\ Sampling'
    BY <1>1, <1>2, <1>6, <2>1, <2>2 DEF Fresh, Operand, Sampling
  <2>5. Permissions'
    BY <1>1, <1>2, <1>6, <2>1 DEF Permissions, One, TrampolineTypeOK
  <2>6. Turns'
    BY <1>1, <1>2, <1>6, <2>1, <2>2 DEF Turns, Resting
  <2> QED BY <1>4, <1>5, <2>3, <2>4, <2>5, <2>6
<1>7. ASSUME Head(todo) = Write("sentinel", FALSE), Len(todo) > 1,
             Tail(todo) \in Lists(addr), Head(Tail(todo)).cell \in {"status", "rearm"}
      PROVE  TrampolineInv'
  <2>1. /\ mem' \in MemRecord /\ mem'.sentinel = FALSE
        /\ mem'.operand = mem.operand /\ mem'.status = mem.status
        /\ mem'.rearm = mem.rearm /\ mem'.keyboard = mem.keyboard
    <3>1. mem' = [mem EXCEPT !.sentinel = FALSE]
      BY <1>1, <1>7, WriteStores
    <3> QED BY <1>3, <3>1 DEF MemRecord
  <2>2. NextCell = "sentinel" /\ NextCell' \in {"status", "rearm"}
    BY <1>1, <1>7 DEF NextCell, Write
  <2>3. TrampolineTypeOK'
    BY <1>1, <1>2, <1>7, <2>1 DEF TrampolineTypeOK, Lists
  <2>4. Fresh' /\ Operand' /\ Sampling'
    BY <1>1, <1>2, <1>7, <2>1, <2>2 DEF Fresh, Operand, Sampling
  <2>5. Permissions'
    BY <1>1, <1>2, <1>7, <2>1 DEF Permissions, One, TrampolineTypeOK, Fresh
  <2>6. Turns'
    BY <1>1, <1>2, <1>7, <2>1, <2>2 DEF Turns, Resting
  <2> QED BY <1>4, <1>5, <2>3, <2>4, <2>5, <2>6
<1>8. ASSUME Head(todo) = Write("status", {}), Len(todo) > 1,
             Tail(todo) \in Lists(addr), Head(Tail(todo)).cell \in {"rearm"}
      PROVE  TrampolineInv'
  <2>1. /\ mem' \in MemRecord /\ mem'.status = {}
        /\ mem'.operand = mem.operand /\ mem'.sentinel = mem.sentinel
        /\ mem'.rearm = mem.rearm /\ mem'.keyboard = mem.keyboard
    <3>1. mem' = [mem EXCEPT !.status = {}]
      BY <1>1, <1>8, WriteStores
    <3> QED BY <1>3, <3>1 DEF MemRecord
  <2>2. NextCell = "status" /\ NextCell' \in {"rearm"}
    BY <1>1, <1>8 DEF NextCell, Write
  <2>3. TrampolineTypeOK'
    BY <1>1, <1>2, <1>8, <2>1 DEF TrampolineTypeOK, Lists
  <2>4. Fresh' /\ Operand' /\ Sampling'
    BY <1>1, <1>2, <1>8, <2>1, <2>2 DEF Fresh, Operand, Sampling
  <2>5. Permissions'
    BY <1>1, <1>2, <1>8, <2>1 DEF Permissions, One, TrampolineTypeOK, Fresh
  <2>6. Turns'
    BY <1>1, <1>2, <1>8, <2>1, <2>2 DEF Turns, Resting
  <2> QED BY <1>4, <1>5, <2>3, <2>4, <2>5, <2>6
<1>9. ASSUME Head(todo) = Write("rearm", FALSE), Len(todo) > 1, ~installed,
             Tail(todo) \in Lists(addr), Head(Tail(todo)).cell \in {"keyboard"}
      PROVE  TrampolineInv'
  <2>1. /\ mem' \in MemRecord /\ mem'.rearm = FALSE
        /\ mem'.operand = mem.operand /\ mem'.sentinel = mem.sentinel
        /\ mem'.status = mem.status /\ mem'.keyboard = mem.keyboard
    <3>1. mem' = [mem EXCEPT !.rearm = FALSE]
      BY <1>1, <1>9, WriteStores
    <3> QED BY <1>3, <3>1 DEF MemRecord
  <2>2. NextCell = "rearm" /\ NextCell' \in {"keyboard"}
    BY <1>1, <1>9 DEF NextCell, Write
  <2>3. TrampolineTypeOK'
    BY <1>1, <1>2, <1>9, <2>1 DEF TrampolineTypeOK, Lists
  <2>4. Fresh' /\ Operand' /\ Sampling'
    BY <1>1, <1>2, <1>9, <2>1, <2>2 DEF Fresh, Operand, Sampling
  <2>5. Permissions'
    BY <1>1, <1>2, <1>9, <2>1 DEF Permissions, One, TrampolineTypeOK, Fresh
  <2>6. Turns'
    BY <1>1, <1>2, <1>9, <2>1, <2>2 DEF Turns, Resting
  <2> QED BY <1>4, <1>5, <2>3, <2>4, <2>5, <2>6
<1>10. ASSUME Head(todo) = Write("keyboard", TRUE), ~(Len(todo) > 1), ~installed
      PROVE  TrampolineInv'
  <2>1. /\ mem' \in MemRecord /\ mem'.keyboard = TRUE
        /\ mem'.operand = mem.operand /\ mem'.sentinel = mem.sentinel
        /\ mem'.status = mem.status /\ mem'.rearm = mem.rearm
    <3>1. mem' = [mem EXCEPT !.keyboard = TRUE]
      BY <1>1, <1>10, WriteStores
    <3> QED BY <1>3, <3>1 DEF MemRecord
  <2>2. NextCell = "keyboard"
    BY <1>1, <1>10 DEF NextCell, Write
  <2>3. TrampolineTypeOK'
    BY <1>1, <1>2, <1>10, <2>1 DEF TrampolineTypeOK, Lists
  <2>4. Fresh' /\ Operand' /\ Sampling'
    BY <1>1, <1>2, <1>10, <2>1, <2>2 DEF Fresh, Operand, Sampling
  <2>5. Permissions'
    BY <1>1, <1>2, <1>10, <2>1 DEF Permissions, One, TrampolineTypeOK, Fresh
  <2>6. Turns'
    BY <1>1, <1>2, <1>10, <2>1, <2>2 DEF Turns, Resting, Pending, Fresh, TrampolineTypeOK
  <2> QED BY <1>4, <1>5, <2>3, <2>4, <2>5, <2>6
<1>11. ASSUME Head(todo) = Write("rearm", TRUE), ~(Len(todo) > 1), installed
      PROVE  TrampolineInv'
  <2>1. /\ mem' \in MemRecord /\ mem'.rearm = TRUE
        /\ mem'.operand = mem.operand /\ mem'.sentinel = mem.sentinel
        /\ mem'.status = mem.status /\ mem'.keyboard = mem.keyboard
    <3>1. mem' = [mem EXCEPT !.rearm = TRUE]
      BY <1>1, <1>11, WriteStores
    <3> QED BY <1>3, <3>1 DEF MemRecord
  <2>2. NextCell = "rearm"
    BY <1>1, <1>11 DEF NextCell, Write
  <2>3. TrampolineTypeOK'
    BY <1>1, <1>2, <1>11, <2>1 DEF TrampolineTypeOK, Lists
  <2>4. Fresh' /\ Operand' /\ Sampling'
    BY <1>1, <1>2, <1>11, <2>1, <2>2 DEF Fresh, Operand, Sampling
  <2>5. Permissions'
    BY <1>1, <1>2, <1>11, <2>1 DEF Permissions, One, TrampolineTypeOK, Fresh
  <2>6. Turns'
    BY <1>1, <1>2, <1>11, <2>1, <2>2 DEF Turns, Resting, Pending, Fresh, TrampolineTypeOK
  <2> QED BY <1>4, <1>5, <2>3, <2>4, <2>5, <2>6
<1> QED BY <1>3, <1>6, <1>7, <1>8, <1>9, <1>10, <1>11, WriteIs

(* The next sample is armed, or the capture ends: between samples the machine *)
(* is parked, so the trace is of as many executions as samples were taken.    *)
LEMMA NextSampleKeeps ==
  ASSUME TrampolineInv, NextSample, host \in {"poll", "capture"},
         host = "poll" => mem.sentinel /\ purpose = "sample",
         UNCHANGED <<mem, machine, session, addr, returned, timeouts>>
  PROVE  TrampolineInv'
<1> USE DEF TrampolineInv
<1>1. /\ mem' = mem /\ cpu' = cpu /\ run' = run /\ runs' = runs
      /\ installed' = installed /\ last_addr' = last_addr /\ addr' = addr
      /\ returned' = returned /\ timeouts' = timeouts
  BY DEF machine, session
<1>2. installed /\ returned = {} /\ last_addr = mem.operand /\ mem.operand = addr
  BY DEF Operand, Sampling
<1>3. timeouts = 0 => /\ cpu = "park" /\ runs = calls
                      /\ ~mem.rearm /\ ~mem.keyboard
  BY <1>2 DEF Turns, Resting, Pending, Answering
<1>4. /\ left \in Nat /\ calls \in Nat /\ runs \in Nat /\ timeouts \in Nat
      /\ Samples \in Nat /\ Samples # 0
  BY SamplesAssumption DEF TrampolineTypeOK
<1>5. CASE left > 0
  <2>1. /\ calls' = calls + 1 /\ left' = left - 1 /\ purpose' = "sample"
        /\ todo' = SampleWrites /\ host' = "write"
        /\ trace' = trace /\ measured' = measured
    BY <1>5 DEF NextSample
  <2>2. todo' \in Lists(addr) /\ Head(todo').cell = "sentinel"
    BY <1>2, <2>1, ListsBegin
  <2>3. TrampolineTypeOK'
    BY <1>1, <1>4, <1>5, <2>1, <2>2 DEF TrampolineTypeOK, Lists
  <2>4. Fresh' /\ Operand'
    BY <1>1, <1>2, <2>1 DEF Fresh, Operand
  <2>5. Sampling'
    BY <1>1, <1>2, <1>4, <1>5, <2>1 DEF Sampling
  <2>6. Permissions'
    BY <1>1, <2>1 DEF Permissions, One, TrampolineTypeOK
  <2>7. Turns'
    BY <1>1, <1>2, <1>3, <1>4, <2>1, <2>2 DEF Turns, Resting, NextCell
  <2>8. calls' - (Samples - left') = calls - (Samples - left)
    BY <1>4, <2>1
  <2>9. Captured'
    <3>1. CASE purpose = "sample"
      BY <1>1, <1>3, <2>1, <2>8, <3>1 DEF Captured
    <3>2. CASE purpose # "sample"
      <4>1. timeouts = 0 => trace' = <<>>
        BY <2>1, <3>2 DEF Captured
      <4> QED BY <1>1, <1>3, <2>1, <4>1, NothingRecorded DEF Captured
    <3> QED BY <3>1, <3>2
  <2>10. PairsBracketOneRun'
    BY <1>1, <2>1 DEF PairsBracketOneRun
  <2> QED BY <2>3, <2>4, <2>5, <2>6, <2>7, <2>9, <2>10
<1>6. CASE ~(left > 0)
  <2>1. /\ host' = "idle" /\ purpose' = "call" /\ trace' = <<>>
        /\ measured' = IF Enough(Pairs(trace)) THEN Pairs(trace) ELSE <<>>
        /\ calls' = calls /\ left' = left /\ todo' = todo
    BY <1>6 DEF NextSample
  <2>2. left = 0 /\ host = "poll" /\ purpose = "sample"
    BY <1>4, <1>6 DEF Sampling
  <2>3. TrampolineTypeOK'
    BY <1>1, <2>1 DEF TrampolineTypeOK
  <2>4. Fresh' /\ Operand' /\ Sampling'
    BY <1>1, <1>2, <2>1 DEF Fresh, Operand, Sampling
  <2>5. Permissions'
    BY <1>1, <2>1, <2>2 DEF Permissions, One, TrampolineTypeOK
  <2>6. Turns'
    BY <1>1, <1>2, <1>3, <2>1 DEF Turns, Resting
  <2>7. Captured'
    BY <2>1 DEF Captured
  <2>8. PairsBracketOneRun'
    <3>1. SUFFICES ASSUME timeouts = 0, Enough(Pairs(trace))
          PROVE  \A k \in DOMAIN Pairs(trace) : Pairs(trace)[k].jsr = Pairs(trace)[k].sta
      BY <1>1, <2>1 DEF PairsBracketOneRun
    <3> DEFINE b == calls - Samples
    <3>2. b \in Int /\ b = calls - (Samples - left) /\ b + Samples = runs
      BY <1>3, <1>4, <2>2, <3>1
    <3>3. Recorded(trace, calls - (Samples - left), runs)
      BY <2>2, <3>1 DEF Captured
    <3> HIDE DEF b
    <3>4. Recorded(trace, b, b + Samples)
      BY <3>2, <3>3
    <3> QED BY <3>1, <3>2, <3>4, PairsBracket
  <2> QED BY <2>3, <2>4, <2>5, <2>6, <2>7, <2>8
<1> QED BY <1>5, <1>6

LEMMA PollDoneKeeps == TrampolineInv /\ PollDone => TrampolineInv'
<1> SUFFICES ASSUME TrampolineInv, PollDone PROVE TrampolineInv' OBVIOUS
<1>1. /\ host = "poll" /\ mem.sentinel
      /\ mem' = mem /\ cpu' = cpu /\ run' = run /\ runs' = runs
      /\ installed' = installed /\ last_addr' = last_addr /\ addr' = addr
      /\ returned' = returned /\ timeouts' = timeouts
  BY DEF PollDone, machine, session
<1>2. CASE purpose = "sample"
  BY <1>1, <1>2, NextSampleKeeps DEF PollDone
<1>3. CASE purpose # "sample"
  <2> USE DEF TrampolineInv
  <2>1. /\ host' = "read" /\ calls' = calls /\ left' = left
        /\ purpose' = purpose /\ todo' = todo /\ trace' = trace
        /\ measured' = measured
    BY <1>3 DEF PollDone
  <2>2. TrampolineTypeOK'
    BY <1>1, <2>1 DEF TrampolineTypeOK
  <2>3. Fresh' /\ Operand' /\ Sampling'
    BY <1>1, <1>3, <2>1 DEF Fresh, Operand, Sampling
  <2>4. Permissions'
    BY <1>1, <2>1 DEF Permissions, One, TrampolineTypeOK
  <2>5. timeouts = 0 => Answering /\ cpu = "park" /\ mem.status = {run}
    BY <1>1 DEF Turns, Pending, Answering
  <2>6. installed
    BY <1>1 DEF Operand
  <2>7. Turns'
    BY <1>1, <2>1, <2>5, <2>6 DEF Turns, Resting, Answering, Asked
  <2>8. Captured' /\ PairsBracketOneRun'
    BY <1>1, <2>1 DEF Captured, PairsBracketOneRun
  <2> QED BY <2>2, <2>3, <2>4, <2>7, <2>8
<1> QED BY <1>2, <1>3

LEMMA StartCaptureKeeps == TrampolineInv /\ StartCapture => TrampolineInv'
BY NextSampleKeeps DEF StartCapture

LEMMA ReadStatusKeeps == TrampolineInv /\ ReadStatus => TrampolineInv'
<1> SUFFICES ASSUME TrampolineInv, ReadStatus PROVE TrampolineInv' OBVIOUS
<1> USE DEF TrampolineInv
<1>1. /\ host = "read"
      /\ mem' = mem /\ cpu' = cpu /\ run' = run /\ runs' = runs
      /\ installed' = installed /\ last_addr' = last_addr /\ todo' = todo
      /\ purpose' = purpose /\ addr' = addr /\ trace' = trace
      /\ measured' = measured /\ calls' = calls /\ timeouts' = timeouts
  BY DEF ReadStatus, machine, session
<1>2. IF purpose = "call"
      THEN host' = "idle" /\ returned' = {mem.status} /\ left' = left
      ELSE host' = "capture" /\ left' = Samples /\ returned' = returned
  BY DEF ReadStatus
<1>3. purpose # "sample" /\ installed /\ returned = {}
  BY <1>1 DEF Sampling, Operand
<1>4. TrampolineTypeOK'
  BY <1>1, <1>2, SamplesAssumption DEF TrampolineTypeOK
<1>5. Fresh' /\ Operand' /\ Sampling'
  BY <1>1, <1>2, <1>3 DEF Fresh, Operand, Sampling
<1>6. Permissions'
  BY <1>1, <1>2 DEF Permissions, One, TrampolineTypeOK
<1>7. Turns'
  BY <1>1, <1>2, <1>3 DEF Turns, Resting, Asked
<1>8. Captured' /\ PairsBracketOneRun'
  BY <1>1, <1>3 DEF Captured, PairsBracketOneRun
<1> QED BY <1>4, <1>5, <1>6, <1>7, <1>8

LEMMA TimeoutKeeps == TrampolineInv /\ Timeout => TrampolineInv'
<1> SUFFICES ASSUME TrampolineInv, Timeout PROVE TrampolineInv' OBVIOUS
<1> USE DEF TrampolineInv
<1>1. /\ host = "poll" /\ host' = "idle" /\ purpose' = "call" /\ trace' = <<>>
      /\ timeouts' = timeouts + 1
      /\ mem' = mem /\ cpu' = cpu /\ run' = run /\ runs' = runs
      /\ installed' = installed /\ last_addr' = last_addr /\ todo' = todo
      /\ addr' = addr /\ left' = left /\ returned' = returned
      /\ measured' = measured /\ calls' = calls
  BY DEF Timeout, machine, session
<1>2. timeouts' \in Nat /\ timeouts' # 0
  BY <1>1 DEF TrampolineTypeOK
<1>3. TrampolineTypeOK'
  BY <1>1, <1>2 DEF TrampolineTypeOK
<1>4. Fresh' /\ Operand' /\ Sampling'
  BY <1>1 DEF Fresh, Operand, Sampling
<1>5. Permissions'
  BY <1>1 DEF Permissions, One, TrampolineTypeOK
<1>6. Turns' /\ Captured' /\ PairsBracketOneRun'
  BY <1>2 DEF Turns, Captured, PairsBracketOneRun
<1> QED BY <1>3, <1>4, <1>5, <1>6

LEMMA StutterKeeps == TrampolineInv /\ UNCHANGED vars => TrampolineInv'
<1> SUFFICES ASSUME TrampolineInv, UNCHANGED vars PROVE TrampolineInv' OBVIOUS
<1> USE DEF TrampolineInv, vars
<1>1. TrampolineTypeOK' /\ Fresh' /\ Operand'
  BY DEF TrampolineTypeOK, Lists, Fresh, Operand, NextCell
<1>2. Permissions' /\ Sampling' /\ PairsBracketOneRun'
  BY DEF Permissions, Sampling, PairsBracketOneRun
<1>3. Turns' /\ Captured'
  BY DEF Turns, Captured, Resting, Pending, Answering, Asked, NextCell
<1> QED BY <1>1, <1>2, <1>3

LEMMA TrampolineInvariant == Spec => []TrampolineInv
<1>1. ASSUME TrampolineInv, [Next]_vars PROVE TrampolineInv'
  <2>1. CASE MachineNext
    BY <1>1, <2>1, SysKeeps, JsrKeeps, StoreStatusKeeps, StoreSentinelKeeps,
       LeaveParkKeeps, ClearFlagKeeps DEF MachineNext
  <2>2. CASE HostNext
    BY <1>1, <2>2, HostWriteKeeps, PollDoneKeeps, ReadStatusKeeps,
       StartCaptureKeeps DEF HostNext
  <2>3. CASE ToolsNext
    BY <1>1, <2>3, CallKeeps DEF ToolsNext
  <2>4. CASE Timeout
    BY <1>1, <2>4, TimeoutKeeps
  <2>5. CASE UNCHANGED vars
    BY <1>1, <2>5, StutterKeeps
  <2> QED BY <1>1, <2>1, <2>2, <2>3, <2>4, <2>5 DEF Next
<1> QED BY <1>1, TrampolineInit, PTL DEF Spec

-----------------------------------------------------------------------------
(* Until a poll runs out of time, the host writes into the machine's cells     *)
(* only while the machine executes none of the trampoline: in BASIC before     *)
(* the install, or parked at the flag.  For any number of calls and samples.  *)
THEOREM HostWritesWhileParked == Spec => []WritesWhileParked
<1>1. TrampolineInv => WritesWhileParked
  BY DEF TrampolineInv, Turns, Resting, WritesWhileParked
<1> QED BY <1>1, TrampolineInvariant, PTL

(* No execution happens that was not asked for, even after timeouts, and      *)
(* until the first, each call and sample runs its routine exactly once.       *)
THEOREM RunsAsAsked == Spec => []RunsOnce
<1>1. TrampolineInv => RunsOnce
  <2> SUFFICES ASSUME TrampolineInv PROVE RunsOnce OBVIOUS
  <2>1. runs <= calls
    BY DEF TrampolineInv, Permissions, One, TrampolineTypeOK
  <2> QED BY <2>1 DEF TrampolineInv, Turns, Resting, RunsOnce
<1> QED BY <1>1, TrampolineInvariant, PTL

(* Until a poll runs out of time, each (jsr, sta) pair that measure_cycles     *)
(* keeps brackets one execution, for any number of samples and however many   *)
(* of the fetches the debug stream loses.                                    *)
THEOREM SamplesBracketOneRun == Spec => []PairsBracketOneRun
<1>1. TrampolineInv => PairsBracketOneRun
  BY DEF TrampolineInv
<1> QED BY <1>1, TrampolineInvariant, PTL

-----------------------------------------------------------------------------
(* Whatever was given up: if the machine has entered the jsr once for every    *)
(* call, the last time was for the call being polled for, since an entry for   *)
(* an earlier one leaves this call's own still missing.                      *)
CaughtUp ==
  runs = calls /\ host \in {"poll", "read"} =>
    /\ run = Asked
    /\ cpu \in {"routine", "flag", "park"}
    /\ cpu # "routine" => mem.status = {run}

LEMMA CaughtUpStep ==
  ASSUME TrampolineInv, CaughtUp, [Next]_vars
  PROVE  CaughtUp'
<1>1. /\ TrampolineTypeOK /\ Operand /\ Permissions
      /\ host = "write" \/ mem.keyboard \/ mem.rearm \/ cpu = "jsr" => runs # calls
  <2>1. runs \in Nat /\ calls \in Nat /\ Permissions
    BY DEF TrampolineInv, TrampolineTypeOK
  <2> QED BY <2>1 DEF TrampolineInv, Permissions, One
<1>2. CASE Sys
  BY <1>1, <1>2 DEF Sys, CaughtUp
<1>3. CASE Jsr
  <2>1. SUFFICES ASSUME host \in {"poll", "read"} PROVE run' = Asked' /\ cpu' = "routine"
    BY <1>3 DEF Jsr, CaughtUp
  <2>2. mem.operand = addr
    BY <1>1, <2>1 DEF Operand
  <2> QED BY <1>3, <2>2 DEF Jsr, Asked
<1>4. CASE StoreStatus
  <2>1. mem'.status = {run}
    BY <1>1, <1>4 DEF StoreStatus, TrampolineTypeOK, MemRecord
  <2> QED BY <1>4, <2>1 DEF StoreStatus, CaughtUp, Asked
<1>5. CASE StoreSentinel
  <2>1. mem'.status = mem.status
    BY <1>1, <1>5 DEF StoreSentinel, TrampolineTypeOK, MemRecord
  <2> QED BY <1>5, <2>1 DEF StoreSentinel, CaughtUp, Asked
<1>6. CASE LeavePark
  BY <1>1, <1>6 DEF LeavePark, CaughtUp
<1>7. CASE ClearFlag
  BY <1>1, <1>7 DEF ClearFlag, CaughtUp, Permissions
<1>8. CASE HostWrite
  BY <1>1, <1>8 DEF HostWrite, CaughtUp, machine
<1>9. CASE PollDone
  BY <1>9 DEF PollDone, NextSample, CaughtUp, Asked, machine
<1>10. CASE ReadStatus
  BY <1>10 DEF ReadStatus, CaughtUp
<1>11. CASE StartCapture
  BY <1>11 DEF StartCapture, NextSample, CaughtUp
<1>12. CASE ToolsNext
  BY <1>12 DEF ToolsNext, Call, CaughtUp
<1>13. CASE Timeout
  BY <1>13 DEF Timeout, CaughtUp
<1>14. CASE UNCHANGED vars
  BY <1>14 DEF vars, CaughtUp, Asked
<1> QED BY <1>2, <1>3, <1>4, <1>5, <1>6, <1>7, <1>8, <1>9, <1>10, <1>11, <1>12,
           <1>13, <1>14 DEF Next, MachineNext, HostNext

(* Until a poll runs out of time, what run_subroutine returns is the A of the  *)
(* one execution this call set off, of the routine it asked for, though the   *)
(* operand is rewritten only when it changes and the status cell is reused.   *)
(* However many calls were given up, that still holds of a call whose status   *)
(* is read after the machine has run every routine that was asked for: a late  *)
(* sentinel deceives run_subroutine only before that.                        *)
THEOREM CallsAnswered == Spec => AnswersInStep
<1>1. Init => CaughtUp
  BY DEF Init, CaughtUp
<1>2. TrampolineInv /\ CaughtUp /\ [Next]_vars => CaughtUp'
  BY CaughtUpStep
<1>3. TrampolineInv /\ CaughtUp /\ [Next]_vars =>
        [ReadStatus /\ host' = "idle"
         /\ (timeouts = 0 \/ (runs = calls /\ cpu # "routine")) =>
           returned' = {{[routine |-> addr, call |-> calls]}}]_vars
  <2> SUFFICES ASSUME TrampolineInv, CaughtUp, ReadStatus, host' = "idle",
                      timeouts = 0 \/ (runs = calls /\ cpu # "routine")
               PROVE  returned' = {{[routine |-> addr, call |-> calls]}}
    OBVIOUS
  <2>1. host = "read" /\ returned' = {mem.status}
    BY DEF ReadStatus
  <2>2. mem.status = {Asked}
    BY <2>1 DEF CaughtUp, TrampolineInv, Turns
  <2> QED BY <2>1, <2>2 DEF Asked
<1> QED BY <1>1, <1>2, <1>3, TrampolineInvariant, PTL DEF Spec, AnswersInStep
=============================================================================
