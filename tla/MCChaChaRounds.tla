--------------------------- MODULE MCChaChaRounds ---------------------------
(* Requests and working words for ChaChaRounds, and the RFC's block vector.   *)
EXTENDS ChaChaRounds

Bytes(q) == [k \in 0 .. Len(q) - 1 |-> q[k + 1]]
All(n, v) == [k \in 0 .. n - 1 |-> v]

(* The block vector of test/rfc7539_vectors.json.                            *)
RfcRequest ==
  [key     |-> [k \in 0 .. 31 |-> k],
   counter |-> Bytes(<<1, 0, 0, 0>>),
   nonce   |-> Bytes(<<0, 0, 0, 9, 0, 0, 0, \h4a, 0, 0, 0, 0>>)]

RfcKeyStream ==
  Bytes(<<\h10, \hf1, \he7, \he4, \hd1, \h3b, \h59, \h15,
          \h50, \h0f, \hdd, \h1f, \ha3, \h20, \h71, \hc4,
          \hc7, \hd1, \hf4, \hc7, \h33, \hc0, \h68, \h03,
          \h04, \h22, \haa, \h9a, \hc3, \hd4, \h6c, \h4e,
          \hd2, \h82, \h64, \h46, \h07, \h9f, \haa, \h09,
          \h14, \hc2, \hd7, \h05, \hd9, \h8b, \h02, \ha2,
          \hb5, \h12, \h9c, \hd1, \hde, \h16, \h4e, \hb9,
          \hcb, \hd0, \h83, \he8, \ha2, \h50, \h3c, \h4e>>)

(* All ones, and the last counter but one.                                   *)
LastRequest ==
  [key |-> All(32, 255), counter |-> Bytes(<<254, 255, 255, 255>>),
   nonce |-> All(12, 255)]

SomeRequests == {RfcRequest, LastRequest}

(* Carries out of every byte, and a word of distinct bytes in every place.    *)
Full    == All(64, 255)
Counted == [y \in Place |-> (y * 37 + 11) % 256]

SomeGrids == {Full, Counted}

(* Either core turns the RFC's state into the RFC's key stream.               *)
KnownKeyStream ==
  StateOf(RfcRequest) \in made => cc20_work = RfcKeyStream
=============================================================================
