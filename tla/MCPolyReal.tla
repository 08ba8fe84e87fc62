----------------------------- MODULE MCPolyReal -----------------------------
(* One message at the real size: 256 values to a byte, 16 bytes to r.         *)
EXTENDS PolyLimbs, Sequences

CONSTANTS TheKey, Message

VARIABLE sent     \* how many calls of the message have been made

Bytes(q) == [k \in 0 .. Len(q) - 1 |-> q[k + 1]]

(* The Poly1305 vector of test/rfc7539_vectors.json.                         *)
RfcKey ==
  [r |-> Bytes(<<\h85, \hd6, \hbe, \h78, \h57, \h55, \h6d, \h33,
                 \h7f, \h44, \h52, \hfe, \h42, \hd5, \h06, \ha8>>),
   s |-> Bytes(<<\h01, \h03, \h80, \h8a, \hfb, \h0d, \hb2, \hfd,
                 \h4a, \hbf, \hf6, \haf, \h41, \h49, \hf5, \h1b>>)]

RfcBlocks ==
  <<Bytes(<<\h43, \h72, \h79, \h70, \h74, \h6f, \h67, \h72,
            \h61, \h70, \h68, \h69, \h63, \h20, \h46, \h6f, 1>>),
    Bytes(<<\h72, \h75, \h6d, \h20, \h52, \h65, \h73, \h65,
            \h61, \h72, \h63, \h68, \h20, \h47, \h72, \h6f, 1>>),
    Bytes(<<\h75, \h70, 1, 0, 0, 0, 0, 0, 0, 0, 0, 0, 0, 0, 0, 0, 0>>)>>

RfcTag == Bytes(<<\ha8, \h06, \h1d, \hc1, \h30, \h51, \h36, \hc6,
                  \hc2, \h2b, \h8b, \haf, \h0c, \h01, \h27, \ha9>>)

OneKey      == {TheKey}
TheseBlocks == {Message[n] : n \in 1 .. Len(Message)}

RealInit == Init /\ sent = 0

RealNext ==
  \/ sent = 0 /\ PolyInit(TheKey) /\ sent' = 1
  \/ /\ sent \in 1 .. Len(Message)
     /\ BlockAdd(Message[sent])
     /\ sent' = sent + 1
  \/ sent = Len(Message) + 1 /\ PolyFinal /\ sent' = sent + 1
  \/ /\ \/ ShoupInit
        \/ MultiplyRipple \/ MultiplyShoup \/ MultiplyCompact
        \/ ReduceSplit \/ ReduceTurn
     /\ UNCHANGED sent

RealSpec == RealInit /\ [][RealNext]_<<vars, sent>>

(* Both ways of Profile B to multiply give the tag of the RFC's vector.       *)
KnownTag == sent = Len(Message) + 2 => poly1305_tag = RfcTag
=============================================================================
