------------------------------ MODULE MCGates ------------------------------
\* Source trees, commands and sizes for checking VerifyGates.
EXTENDS VerifyGates, TLC

MCDirs == {"lib", "lib-aead-only", "lib-app-owned", "lib-compact",
           "profile-a", "profile-b", "profile-compact"}
MCArchived == {"lib", "lib-aead-only", "lib-app-owned", "lib-compact"}
MCMembers == {"aead", "data", "manifest", "precalc"}
MCKnobs == {{}, A, {"LIB_NO_BARE_EXPORTS"}, A \cup {"LIB_NO_BARE_EXPORTS"}, Deferred,
            A \cup Deferred, Consumer, {"SHARED_SQTAB_INIT"}, {"SHARED_CT_MUL_8X8"},
            {"POLY1305_MULTIPLY_ROLLED"}, {"CHACHA20_USE_WORD32"}, Compact}
MCRecipe == [d \in MCDirs |->
    CASE d = "profile-a" -> A
      [] d = "profile-compact" -> Compact
      [] d = "lib-compact" -> Compact \cup Deferred
      [] d = "lib-app-owned" -> Deferred
      [] d = "lib-aead-only" -> {"LIB_VARIANT_AEAD_ONLY"}
      [] OTHER -> {}]
MCConflicts == {Compact \cup {x} : x \in {"POLY1305_PROFILE_LONG",
    "POLY1305_MULTIPLY_ROLLED", "POLY1305_MULTIPLY_ROLLED_OUTER", "CHACHA20_USE_WORD32"}}

MCWidths == [tmp1 |-> 1, ptr |-> 2, cc20_work |-> 3, cc20_keystream |-> 3]

Command1(gs, k) == [goals |-> gs, knobs |-> k]
MCMakes == {Command1(<<"lib">>, {}), Command1(<<"lib">>, A), Command1(<<"profile-a">>, {}),
            Command1(<<"lib-compact">>, A)}
MCCommands == MCMakes \cup
    {Command1(<<g>>, {}) : g \in {"verify", "verify-zp-usage", "verify-knob-staleness",
         "verify-resident-bytes", "verify-label-hygiene", "lib-verify-isolation"}} \cup
    {Command1(<<"lib", "verify-resident-bytes", "verify-zp-usage">>, k) :
         k \in {{}, {"LIB_NO_BARE_EXPORTS"}}} \cup
    {Command1(<<"lib", "verify-label-hygiene", "verify-zp-usage">>, {}),
     Command1(<<"verify-resident-bytes">>, A)}

(* ---- the conforming tree ---- *)
Entry(m, needs, unless) == [member |-> m, needs |-> needs, unless |-> unless]
Name(m, p, r, needs, unless) == Entry(m, needs, unless) @@ [name |-> [pre |-> p, rest |-> r]]
Row(m, kind, needs) == Entry(m, needs, {}) @@ [kind |-> kind]
Frag(m, seg, align, size, needs, unless) ==
    Entry(m, needs, unless) @@ [seg |-> seg, align |-> align, size |-> size]
Declares(bytes, zp, needs, unless) ==
    Entry("manifest", needs, unless) @@ [bytes |-> bytes, zp |-> zp]
Slot(n, canon, addr) == [name |-> n, canon |-> canon, addr |-> addr]

BareAndPrefixed(r, needs, unless) ==
    {Name("precalc", "LIB", r, needs, unless \cup {"LIB_NO_BARE_EXPORTS"}),
     Name("precalc", "LIB_CCP", r, needs, unless)}

Conforming ==
  [conforming |-> TRUE, guard |-> "stamp", commands |-> {},
   exports |-> {Name("aead", "", "aead_encrypt", {}, {}),
                Name("data", "cc20", "qr_off", Compact, {}),
                Name("manifest", "LIB_CCP", "RESIDENT_BYTES", {}, {})}
               \cup BareAndPrefixed("nibswap", {}, {})
               \cup BareAndPrefixed("sqtab", {}, A) \cup BareAndPrefixed("r_tab_lo", A, {}) \cup BareAndPrefixed("r_tab_hi", A, {}),
   switches |-> Suppressions,
   frags |-> {Frag("aead", Code, 1, 3, {}, {}), Frag("data", Code, Page, 2, {}, Compact)},
   declared |-> {Declares(11, 6, {}, {})},
   rows |-> {Row("aead", "sentinel", {}), Row("data", "plain", {})},
   slots |-> {Slot("tmp1", FALSE, 0), Slot("tmp1", TRUE, 0), Slot("ptr", FALSE, 1),
              Slot("cc20_work", FALSE, 3), Slot("cc20_keystream", FALSE, 3)},
   python |-> {[dir |-> "tools", line |-> "plain", readable |-> TRUE,
                worktree |-> FALSE, self |-> FALSE]}]

Variant(goal) == [Conforming EXCEPT !.conforming = FALSE,
                                    !.commands = {Command1(<<goal>>, {})}]

ZpSources ==
    {[Variant("verify-zp-usage") EXCEPT
        !.slots = {Slot("tmp1", FALSE, t), Slot("tmp1", TRUE, t), Slot("ptr", FALSE, p),
                   Slot("cc20_work", FALSE, 3), Slot("cc20_keystream", FALSE, k)},
        !.declared = {Declares(11, z, {}, {})}] :
        t \in 0..6, p \in 0..6, k \in {2, 3}, z \in {5, 6}}
    \cup {[Variant("verify-zp-usage") EXCEPT !.slots = @ \cup {Slot("fresh", FALSE, 7)}]}

\* Members whose size follows a knob, and a manifest that does or does not.
ResidentSources ==
    {[Variant("verify-resident-bytes") EXCEPT
        !.frags = {Frag("aead", Code, 1, a, {}, {}), Frag("data", Code, Page, b, {}, Compact),
                   Frag("precalc", seg, 1, 1, {}, {}),
                   Frag("aead", Code, 1, 2, knob, {})},
        !.declared = {Declares(d, 6, {}, A), Declares(d + 1, 6, A, {})}] :
        a \in 1..2, b \in 1..2, seg \in {Code, "COLD"}, d \in {9, 11, 13},
        knob \in {A, {"SHARED_SQTAB_INIT"}, {"LIB_NO_BARE_EXPORTS"}}}
    \cup {[Variant("verify-resident-bytes") EXCEPT
             !.frags = {Frag("aead", Code, 1, a, {}, {}), Frag("data", Code, Page, b, {}, Compact),
                        Frag("precalc", Code, Page, 1, {}, Compact)},
             !.declared = {Declares(d, 6, {}, {})}] : a \in 1..3, b \in 1..3, d \in 12..16}

LabelSources ==
    {[Variant("verify-label-hygiene") EXCEPT !.rows = @ \cup {Row(m, kind, needs)}] :
        m \in {"aead", "data"}, kind \in {"leak", "short", "charset"},
        needs \in {{}, A, {"LIB_VARIANT_AEAD_ONLY"}, {"LIB_NO_BARE_EXPORTS"}, Compact,
                   {"POLY1305_MULTIPLY_ROLLED"}}}

MemberSources ==
    {[Variant("lib-verify-isolation") EXCEPT !.exports = @ \cup extra] : extra \in {
        {Name("manifest", "LIB", "sqtab", {}, {"LIB_NO_BARE_EXPORTS"})},
        {Name("manifest", "LIB", "r_tab_lo", A, {"LIB_NO_BARE_EXPORTS"})},
        {Name("aead", "", "ct_mul", {}, {"SHARED_CT_MUL_8X8"})},
        {Name("data", "", "ct_mul", {}, {"SHARED_CT_MUL_8X8"}), Name("data", "", "prod", {}, Deferred)},
        {Name("data", "", "ct_mul", {}, {"SHARED_CT_MUL_8X8"}), Name("data", "", "lut", {}, {})},
        {Name("precalc", "LIB_CCP", "extra", {}, {})}}}
    \cup {[Variant("lib-verify-isolation") EXCEPT !.switches = @ \cup {"SHARED_REU_MUL"}]}

RoutingSources ==
    {[Variant("verify") EXCEPT !.python = @ \cup {[dir |-> d, line |-> l, readable |-> TRUE,
                                                   worktree |-> FALSE, self |-> s]}] :
        d \in {"tools", "src"}, l \in {"private_client", "threshold_assigned"}, s \in BOOLEAN}

GuardSources ==
    {[Variant("verify-knob-staleness") EXCEPT !.guard = g] : g \in {"none", "always"}}

MCSources == {Conforming} \cup ZpSources \cup ResidentSources \cup LabelSources
             \cup MemberSources \cup RoutingSources \cup GuardSources
=============================================================================
