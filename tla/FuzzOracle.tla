----------------------------- MODULE FuzzOracle -----------------------------
(***************************************************************************)
(* tools/hazmat_fuzz.py: a library build with at most one defect, called   *)
(* through the glue, and the differences its checks find.  A buffer holds  *)
(* a set of symbols, so that exclusive-or is the symmetric difference; a   *)
(* tag is an opaque term over what the processor read.                     *)
(* Defects and tags are tuples that begin with their kind.                 *)
(***************************************************************************)
EXTENDS Integers, Sequences, FiniteSets, SequencesExt

Xor(a, b) == (a \ b) \cup (b \ a)
Stream(key) == {key}
LibraryStream(defect, key) == IF defect = <<"broken">> THEN {"garbage"} ELSE Stream(key)
TagOf(key, aad, text) == <<"tag", key, aad, text>>

(* ---- the machine: what $ff00-$ffff is to processor and harness ---- *)
Windows == {"cpu_rom", "cpu_ram", "opaque"}
Rom == {"rom"}
CpuRead(window, high, ram) == IF high /\ window # "cpu_ram" THEN Rom ELSE ram
HostRead(window, high, ram) == IF high /\ window = "opaque" THEN Rom ELSE ram

(* ---- the library with one defect ---- *)
Poison == [data |-> {"sentinel"}, atag |-> <<"ee">>, ptag |-> <<"db">>, scratch |-> "5a"]

\* A call: entry, key, associated data and where each buffer lies: "in",
\* below the top of memory; from $ff00 on, to its very end ("edge") or past
\* it ("out"); or from low memory all the way past it ("around").
AtTop(place) == place \in {"edge", "out"}
Past(place) == place \in {"out", "around"}

GuardStops(defect, c) ==
    \E which \in {"data", "aad"} :
        \/ Past(c.place[which]) /\ defect # <<"unguarded", which, c.entry>>
        \/ c.place[which] = "edge" /\ defect = <<"strict", which, c.entry>>

Matches(defect, expected, given) ==
    \/ expected = given
    \/ defect = <<"accepts any tag">>
    \/ defect[1] = "blind" /\ given = <<"flipped", expected, defect[2]>>

AadRead(window, c) == CpuRead(window, AtTop(c.place.aad), c.aad)

Encrypt(defect, window, c, m) ==
    LET high == AtTop(c.place.data)
        ram == Xor(CpuRead(window, high, m.data), LibraryStream(defect, c.key))
        tag == TagOf(c.key, AadRead(window, c), CpuRead(window, high, ram))
    IN  IF GuardStops(defect, c) THEN [m EXCEPT !.status = 1]
        ELSE [data |-> ram, ptag |-> tag, scratch |-> "written", status |-> 0,
              atag |-> IF defect = <<"never publishes">> THEN m.atag ELSE tag]

Decrypt(defect, window, c, m) ==
    LET high == AtTop(c.place.data)
        read == CpuRead(window, high, m.data)
        tag == IF Past(c.place.data) \/ Past(c.place.aad) THEN <<"over wrapped memory">>
               ELSE TagOf(c.key, AadRead(window, c), read)
        plain == [m EXCEPT !.data = Xor(read, LibraryStream(defect, c.key))]
        opens == Matches(defect, tag, m.atag)
    IN  IF GuardStops(defect, c) THEN [m EXCEPT !.status = 1]
        ELSE [(IF opens \/ defect = <<"decrypts first">> THEN plain ELSE m)
              EXCEPT !.ptag = tag, !.scratch = "written", !.status = IF opens THEN 0 ELSE 255]

Call(defect, window, c, m) ==
    IF c.entry = "aead_encrypt" THEN Encrypt(defect, window, c, m)
    ELSE Decrypt(defect, window, c, m)

(* ---- the fixed corpora, by the length of their lists ---- *)
Edges == [chacha20_block |-> 30, chacha20_encrypt |-> 19, poly1305 |-> 189, aead |-> 140]
FullCounts == [chacha20_block |-> 60, chacha20_encrypt |-> 30, poly1305 |-> 200, aead |-> 130]
QuickCounts == [chacha20_block |-> 30, chacha20_encrypt |-> 16, poly1305 |-> 120, aead |-> 70]
Counts(quick) == IF quick THEN QuickCounts ELSE FullCounts

\* A case of category cat: the defect of one listed input is wrong there.
Wrong(defect, cat, i) == defect = <<"wrong", cat, i>>

\* The loops over cases[:n]; what follows the list is random.
CorpusMismatches(defect, cat, quick) ==
    {<<cat, i>> : i \in {j \in 1 .. Counts(quick)[cat] : Wrong(defect, cat, j)}}

\* The defects that a library may have, one at a time.
SingleDefects ==
    {<<"none">>, <<"broken">>, <<"accepts any tag">>, <<"never publishes">>, <<"decrypts first">>}
    \cup {<<"blind", b>> : b \in 0 .. 15}
    \cup {<<k, which, entry>> : k \in {"unguarded", "strict"}, which \in {"data", "aad"},
                               entry \in {"aead_encrypt", "aead_decrypt"}}
    \cup UNION {{<<"wrong", cat, i>> : i \in 1 .. Edges[cat]} : cat \in DOMAIN Edges}

(* ---- the AEAD classes ---- *)
Place(d, a) == [data |-> d, aad |-> a]
Case(entry, key, aad, place) == [entry |-> entry, key |-> key, aad |-> aad, place |-> place]
Loaded(data, atag, ptag) ==
    [data |-> data, atag |-> atag, ptag |-> ptag, scratch |-> "old", status |-> 0]

\* aead_encrypt of the glue poisons aead_tag, then reads it back.
GlueEncrypt(defect, window, key, aad, pt) ==
    Encrypt(defect, window, Case("aead_encrypt", key, aad, Place("in", "in")),
            Loaded(pt, Poison.atag, <<"old">>))

GlueDecrypt(defect, window, key, aad, ct, tag) ==
    Decrypt(defect, window, Case("aead_decrypt", key, aad, Place("in", "in")),
            Loaded(ct, tag, <<"dd">>))

Pt == {"pt"}
Aad == {"aad"}
Ct == Xor(Pt, Stream("k"))
Tag == TagOf("k", Aad, Ct)

TamperVariants ==
    {[key |-> "k", aad |-> Aad, ct |-> Ct, tag |-> t] :
        t \in {<<"flipped", Tag, b>> : b \in {0, 7, 15}} \cup {<<"zero">>}}
    \cup {[key |-> "k", aad |-> Aad, ct |-> Xor(Ct, {"bit"}), tag |-> Tag],
          [key |-> "k", aad |-> Xor(Aad, {"bit"}), ct |-> Ct, tag |-> Tag],
          [key |-> "other k", aad |-> Aad, ct |-> Ct, tag |-> Tag]}

AeadMismatches(defect, window) ==
    LET e == GlueEncrypt(defect, window, "k", Aad, Pt)
        d == GlueDecrypt(defect, window, "k", Aad, Ct, Tag)
    IN  (IF e.atag = Tag THEN {} ELSE {<<"aead_encrypt/aead_tag">>})
        \cup (IF e.data # Ct \/ e.ptag # Tag THEN {<<"aead_encrypt">>}
              ELSE (IF d.status = 0 /\ d.data = Pt THEN {} ELSE {<<"aead_decrypt-valid">>})
                   \cup {<<"aead_decrypt-tamper", v>> : v \in {u \in TamperVariants :
                           LET t == GlueDecrypt(defect, window, u.key, u.aad, u.ct, u.tag)
                           IN  t.status = 0 \/ t.data # u.ct}})

VerifyTagMismatches(defect) ==
    LET pairs == {<<t, t>> : t \in {<<"base">>, <<"zero">>}}
                 \cup {<<<<"base">>, <<"flipped", <<"base">>, b>>>> : b \in {0, 7, 15}}
                 \cup {<<<<"base">>, <<"all bytes differ">>>>}
    IN  {<<"aead_verify_tag", p>> : p \in {q \in pairs :
            Matches(defect, q[1], q[2]) # (q[1] = q[2])}}

(* ---- the wrap guards ---- *)
\* Two streams over the window, read back after each.
Probe(window) ==
    LET ks1 == {"ks1"}
        ks2 == {"ks2"}
        ram1 == Xor(CpuRead(window, TRUE, {"ram"}), ks1)
        ram2 == Xor(CpuRead(window, TRUE, ram1), ks2)
        out1 == HostRead(window, TRUE, ram1)
        out2 == HostRead(window, TRUE, ram2)
    IN  CASE Xor(out1, out2) = Xor(ks1, ks2) -> [mode |-> "cpu_rom", view |-> Xor(out1, ks1)]
          [] Xor(out1, out2) = ks2 -> [mode |-> "cpu_ram", view |-> {}]
          [] OTHER -> [mode |-> "opaque", view |-> {}]

\* Mutant: the tag pyca gives over the ciphertext itself.
AcceptedTagPlain(probe, high, aad, pt) == TagOf("k", aad, Xor(pt, Stream("k")))

\* At $ff00 the processor reads ROM again when it computes the tag.
AcceptedTag(probe, high, aad, pt) ==
    IF high /\ probe.mode = "cpu_rom" THEN TagOf("k", aad, probe.view)
    ELSE TagOf("k", aad, Xor(pt, Stream("k")))

AcceptData(defect, window, probe, place) ==
    LET high == place = "edge"
        pt == IF high /\ probe.mode = "cpu_rom" THEN probe.view
              ELSE HostRead(window, high, {"random"})
        known == ~high \/ probe.mode # "opaque"
        c == Case("aead_encrypt", "k", Aad, Place(place, "in"))
        e == Encrypt(defect, window, c, Loaded({"random"}, Poison.atag, <<"old">>))
        d == Decrypt(defect, window, [c EXCEPT !.entry = "aead_decrypt"], e)
    IN  {<<"accept data", place, f>> : f \in
           (IF e.status = 0 THEN {} ELSE {"status"})
           \cup (IF ~known \/ HostRead(window, high, e.data) = Xor(pt, Stream("k"))
                 THEN {} ELSE {"ciphertext"})
           \cup (IF (IF known THEN e.atag = AcceptedTag(probe, high, Aad, pt)
                     ELSE e.atag # Poison.atag) THEN {} ELSE {"tag"})
           \cup (IF d.status = 0 THEN {} ELSE {"decrypt-status"})}

AcceptAad(defect, window, probe, place) ==
    LET aad == IF place = "edge" /\ probe.mode = "cpu_rom" THEN probe.view
               ELSE HostRead(window, place = "edge", Aad)
        known == place = "in" \/ probe.mode # "opaque"
        e == Encrypt(defect, window, Case("aead_encrypt", "k", Aad, Place("in", place)),
                     Loaded(Pt, Poison.atag, <<"old">>))
    IN  {<<"accept aad", place, f>> : f \in
           (IF e.status = 0 THEN {} ELSE {"status"})
           \cup (IF ~known \/ e.data = Ct THEN {} ELSE {"ciphertext"})
           \cup (IF (IF known THEN e.atag = TagOf("k", aad, Ct) ELSE e.atag # Poison.atag)
                 THEN {} ELSE {"tag"})}

\* The front of the data $0900 is to be seen even where $ff00 is opaque.
WrapReject == {Place("out", "in"), Place("around", "in"), Place("in", "out")}

\* Poison, call, and look for anything that changed.
Reject(defect, window, probe, entry, place) ==
    LET before == [data |-> Poison.data, atag |-> Poison.atag, ptag |-> Poison.ptag,
                   scratch |-> Poison.scratch, status |-> 0]
        after == Call(defect, window, Case(entry, "k", Aad, place), before)
        high == AtTop(place.data)
    IN  {<<"reject", entry, place, f>> : f \in
           (IF after.status = 1 THEN {} ELSE {"status"})
           \cup (IF after.scratch = before.scratch THEN {} ELSE {"aead_scratch-untouched"})
           \cup (IF after.ptag = before.ptag THEN {} ELSE {"poly1305_tag-untouched"})
           \cup (IF entry = "aead_decrypt" \/ after.atag = before.atag THEN {}
                 ELSE {"aead_tag-untouched"})
           \cup (IF (high /\ probe.mode = "opaque") \/ HostRead(window, high, after.data) = before.data
                 THEN {} ELSE {"front-sentinel"})}

Rejects(defect, window, probe, entry) ==
    UNION {Reject(defect, window, probe, entry, place) : place \in WrapReject}

WrapGuardMismatches(defect, window) ==
    LET probe == Probe(window)
        ram == [mode |-> "cpu_ram", view |-> {}]
    IN  AcceptData(defect, window, ram, "in") \cup AcceptAad(defect, window, ram, "in")
        \cup (UNION {Rejects(defect, window, probe, entry) :
                       entry \in {"aead_encrypt", "aead_decrypt"}})
        \cup AcceptAad(defect, window, probe, "edge")
        \cup AcceptData(defect, window, probe, "edge")

(* ---- the tool ---- *)
\* The known answer before the corpus goes through the same glue.
KnownAnswer(defect, window) ==
    LET e == GlueEncrypt(defect, window, "k", Aad, Pt)
    IN  e.data = Ct /\ e.ptag = Tag
=============================================================================
