------------------------------- MODULE MCLab -------------------------------
\* Builds, sessions and libraries for checking LabProperties.
EXTENDS LabProperties

Usual == [chacha20_quarter_round |-> 6, chacha20_block |-> 20, poly1305_multiply |-> 10,
          poly1305_reduce |-> 7, poly1305_block |-> 12, poly1305_final |-> 7,
          aead_compute_tag |-> 30, aead_verify_tag |-> 8, sqtab_init |-> 50, ct_mul_8x8 |-> 6]

\* Profiles A and B multiply with an early stop: the operand shows.
MCCycles(image, routine, n, operand) ==
    LET base == CASE routine = "aead_encrypt" -> 24 + 16 * n
                  [] routine = "aead_decrypt" -> 25 + 16 * n
                  [] routine = "auth fail" -> 9 + 8 * n
                  [] routine = "chacha20_encrypt" -> 4 + 20 * n
                  [] OTHER -> Usual[routine]
    IN  base + (IF image = "slow" /\ routine = "poly1305_block" THEN 6 ELSE 0)
             + (IF image = "A" /\ routine = "poly1305_multiply" THEN 9 ELSE 0)
             + (IF image \in {"A", "B"} /\ routine = "poly1305_multiply" /\ operand = "used"
                THEN 1 ELSE 0)
             + (IF image = "leaky" /\ routine = "auth fail" /\ operand = "zero" THEN 1 ELSE 0)

MCEmitted(image) == (DOMAIN Usual \cup {"aead_encrypt", "aead_decrypt", "chacha20_encrypt"})
                    \ (IF image \in {"A", "flat"} THEN {"ct_mul_8x8"} ELSE {})

MCSizes == <<0, 1>>
MCClasses == <<"zero", "ones">>

Rows0 == {<<t.name, t.n>> : t \in ToSet(BenchTargets)}
Committed == [r \in Rows0 |-> MCCycles("B", r[1], IF r[1] = "aead_compute_tag" THEN 0 ELSE r[2],
                                       "usual")]
MCBaselines ==
    {<<>>, Committed, [Committed EXCEPT ![<<"ct_mul_8x8", 0>>] = Skipped],
     [r \in Rows0 \ {<<"sqtab_init", 0>>} |-> Committed[r]],
     [Committed EXCEPT ![<<"aead_encrypt", 2>>] = 0]}

Session(t, b, image, profile) ==
    [tool |-> t, on |-> b, image |-> image, profile |-> profile, samples |-> 2]
Sweeps == {Session("sweep", "vice", "A", "A"), Session("sweep", "u64", "B", "B"),
           Session("sweep", "vice", "slow", "B")}
TurboSession == Session("turbo", "u64", "A", "A") @@ ("speeds" :> <<1, 4, 6>>)
MCLasting == Sweeps \cup {TurboSession}
MCCommands ==
    MCLasting \cup {Session("bench", b, "B", "B") : b \in Backends}
    \cup {Session("ct", "vice", i, "compact") : i \in {"flat", "leaky"}}
    \cup {Session("bench-check", b, "B", "B") : b \in Backends}
    \cup {Session("bench-check", "vice", "A", "A"), Session("bench-check", "vice", "slow", "B"),
          Session("bench-check", "vice", "flat", "B")}
    \cup {Session("hazmat", b, "B", "B") @@ ("quick" :> q) : b \in Backends, q \in BOOLEAN}
    \cup {Session("audit", b, "B", "B") @@ ("counts" :> k) : b \in Backends, k \in {
            [chacha20 |-> 4, poly1305 |-> 1, aead |-> 4, tamper |-> 4],
            [chacha20 |-> 1, poly1305 |-> 1, aead |-> 0, tamper |-> 1]}}

Defects ==
    {<<"none">>, <<"broken">>, <<"accepts any tag">>, <<"never publishes">>, <<"decrypts first">>}
    \cup {<<"blind", b>> : b \in {0, 3, 7, 15}}
    \cup {<<k, w, e>> : k \in {"unguarded", "strict"}, w \in {"data", "aad"},
                        e \in {"aead_encrypt", "aead_decrypt"}}
    \cup {<<"wrong", cat, i>> : cat \in DOMAIN Edges, i \in {1, 15}}
    \cup {<<"wrong", "chacha20_encrypt", 17>>, <<"wrong", "poly1305", 150>>,
          <<"wrong", "aead", 100>>, <<"wrong", "aead", 135>>}
MCLibraries == {[defect |-> d, window |-> w] : d \in Defects, w \in Windows}
=============================================================================
