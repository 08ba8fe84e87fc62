----------------------------- MODULE ChaChaRfc -----------------------------
(***************************************************************************)
(* The ChaCha20 block function of RFC 8439, one line of a quarter round at a *)
(* time, over sixteen 32-bit words.  A word is a pair of 16-bit halves.       *)
(***************************************************************************)
EXTENDS Integers, Bitwise

CONSTANTS Inputs,      \* what the block function may be keyed with
          Grids        \* what a caller may write to the working words

VARIABLES input,       \* the sixteen words the next block starts from
          x,           \* the working words; at the end, the key stream
          quarter,     \* quarter rounds begun, 0 .. 80
          line,        \* lines of the current one done, 0 .. 3
          doing        \* "nothing", "block", or "single" quarter round

rfcVars == <<input, x, quarter, line, doing>>

Half == 2 ^ 16

Plus(u, v) ==
  LET low == u.lo + v.lo
  IN  [lo |-> low % Half, hi |-> (u.hi + v.hi + (low \div Half)) % Half]

Differ(u, v) == [lo |-> u.lo ^^ v.lo, hi |-> u.hi ^^ v.hi]

(* u <<< n for n in 1 .. 16.                                                 *)
Rotl(u, n) ==
  LET top == 2 ^ (16 - n)
      Up(w) == (w % top) * (2 ^ n)
  IN  [lo |-> Up(u.lo) + (u.hi \div top), hi |-> Up(u.hi) + (u.lo \div top)]

(* Column rounds, then diagonal rounds: the words a, b, c, d.                *)
QuarterRound(n) ==
  LET c == n % 4
      slant == (n % 8) \div 4
  IN  [k \in 0 .. 3 |-> 4 * k + ((c + slant * k) % 4)]

(* p += q; s ^= p; s <<<= n, with n = 16, 12, 8, 7.                          *)
Amount == <<16, 12, 8, 7>>

Line(w, n, k) ==
  LET qr == QuarterRound(n)
      even == k % 2 = 0
      p == IF even THEN qr[0] ELSE qr[2]
      q == IF even THEN qr[1] ELSE qr[3]
      s == IF even THEN qr[3] ELSE qr[1]
      sum == Plus(w[p], w[q])
  IN  [w EXCEPT ![p] = sum, ![s] = Rotl(Differ(w[s], sum), Amount[k + 1])]

One == [lo |-> 1, hi |-> 0]

RfcInit ==
  /\ input \in Inputs /\ x \in Grids
  /\ quarter = 0 /\ line = 0 /\ doing = "nothing"

RfcKey(w) ==
  /\ doing = "nothing" /\ input' = w /\ UNCHANGED <<x, quarter, line, doing>>

RfcBegin ==
  /\ doing = "nothing" /\ doing' = "block"
  /\ x' = input /\ quarter' = 0 /\ line' = 0 /\ UNCHANGED input

RfcSingle(w, n) ==
  /\ doing = "nothing" /\ doing' = "single"
  /\ x' = w /\ quarter' = n /\ line' = 0 /\ UNCHANGED input

RfcLine ==
  /\ doing # "nothing" /\ quarter < 80
  /\ x' = Line(x, quarter, line)
  /\ line' = (line + 1) % 4
  /\ IF line < 3 THEN UNCHANGED <<quarter, doing>>
     ELSE IF doing = "single" THEN quarter' = 0 /\ doing' = "nothing"
     ELSE quarter' = quarter + 1 /\ UNCHANGED doing
  /\ UNCHANGED input

(* The input is added, and the next block has the next counter.              *)
RfcEnd ==
  /\ doing = "block" /\ quarter = 80
  /\ x' = [w \in 0 .. 15 |-> Plus(x[w], input[w])]
  /\ input' = [input EXCEPT ![12] = Plus(@, One)]
  /\ doing' = "nothing" /\ quarter' = 0 /\ UNCHANGED line

RfcNext ==
  \/ \E w \in Inputs : RfcKey(w)
  \/ RfcBegin
  \/ \E w \in Grids, n \in 0 .. 7 : RfcSingle(w, n)
  \/ RfcLine \/ RfcEnd

RfcSpec == RfcInit /\ [][RfcNext]_rfcVars
=============================================================================
