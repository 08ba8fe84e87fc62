----------------------------- MODULE GateTools -----------------------------
(***************************************************************************)
(* The audits of tools/verify_*.py and measure_resident_bytes.py, as       *)
(* functions from what od65 and the file system show them to a verdict.    *)
(* A source tree is a record: the fragments, exports, label rows and zero  *)
(* page slots its members come to under a set of defines.  A symbol is a   *)
(* pair of its prefix and the rest of its name.                            *)
(***************************************************************************)
EXTENDS Integers, Sequences, FiniteSets, FiniteSetsExt

CONSTANTS
    Page,          \* 256 in the program
    Widths         \* bytes of each zero-page slot, by its bare name

Code == "CODE"

\* What the assembler puts into an object made under defs.
Selected(entries, member, defs) ==
    {e \in entries : e.member = member /\ e.needs \subseteq defs
                                       /\ e.unless \cap defs = {}}

Exports(src, member, defs) == {e.name : e \in Selected(src.exports, member, defs)}

\* ---- measure_resident_bytes.py ----
Total(S, f(_)) == MapThenSumSet(f, S)

\* The fragments of non-zero size in the objects of one directory.
Fragments(src, files) ==
    UNION {{f \in Selected(src.frags, m, files[m].defs) : f.size > 0} : m \in DOMAIN files}

IsCompact(src, files) ==
    [pre |-> "cc20", rest |-> "qr_off"] \in Exports(src, "data", files["data"].defs)

SegmentAligns(frags, compact) ==
    LET segs == {f.seg : f \in {g \in frags : g.align > 1}} \cup (IF compact THEN {Code} ELSE {})
    IN  [s \in segs |-> Max({g.align : g \in {f \in frags : f.seg = s}}
                            \cup (IF compact /\ s = Code THEN {Page} ELSE {}))]

\* Mutant: without the fill in front of an aligned segment.
MeasureNoStart(frags, compact) ==
    Total(frags, LAMBDA f : f.size) + Total(frags, LAMBDA f : f.align - 1)

Measure(frags, compact) ==
    LET aligns == SegmentAligns(frags, compact)
    IN  Total(frags, LAMBDA f : f.size)
        + Total(frags, LAMBDA f : f.align - 1)
        + Total(DOMAIN aligns, LAMBDA s : aligns[s] - 1)

Unmeasurable(frags, compact) ==
    \/ frags = {}
    \/ ~compact /\ \A f \in frags : f.align = 1

DeclaredIn(src, files) ==
    {d.bytes : d \in Selected(src.declared, "manifest", files["manifest"].defs)}

ResidentGreen(src, files) ==
    LET frags == Fragments(src, files)
        compact == IsCompact(src, files)
    IN  /\ {"data", "manifest"} \subseteq DOMAIN files
        /\ ~Unmeasurable(frags, compact)
        /\ DeclaredIn(src, files) # {}
        /\ \A bytes \in DeclaredIn(src, files) : bytes >= Measure(frags, compact)

\* What ld65 does with one segment: every fragment padded to its alignment
\* in link order, after the bytes that stand in front of the segment.
PadTo(pos, align) == (-pos) % align

LinkedBytes(order, start, segAlign) ==
    LET first == start + PadTo(start, segAlign)
        end[i \in 0..Len(order)] ==
            IF i = 0 THEN first
            ELSE end[i - 1] + PadTo(end[i - 1], order[i].align) + order[i].size
    IN  end[Len(order)] - start

Orders(S) ==
    {o \in [1..Cardinality(S) -> S] : \A i, j \in 1..Cardinality(S) : i # j => o[i] # o[j]}

CfgAlign(frags, seg) ==
    Max({f.align : f \in {g \in frags : g.seg = seg}} \cup {IF seg = Code THEN Page ELSE 1})

WorstLink(frags) ==
    Total({f.seg : f \in frags}, LAMBDA seg :
        Max({LinkedBytes(o, start, CfgAlign(frags, seg)) : start \in 0..Page - 1,
             o \in UNION {Orders(S) : S \in SUBSET {f \in frags : f.seg = seg}}}))

\* ---- verify_zp_usage.py: slots are [name, canon, addr] ----
Span(slot) == slot.addr .. slot.addr + Widths[slot.name] - 1
Mapped(slots) == {s \in slots : s.name \in DOMAIN Widths}
Occupied(slots) == UNION {Span(s) : s \in Mapped(slots)}

IsIntendedAlias(owners) ==
    LET names == {s.name : s \in owners}
    IN  Cardinality(names) = 1 \/ names = {"cc20_work", "cc20_keystream"}

\* Mutant: only slots that start at one address are compared.
ZpGreenByStart(src, files) ==
    \A s, t \in Mapped(src.slots) : s.addr = t.addr => IsIntendedAlias({s, t})

ZpGreen(src, files) ==
    LET slots == src.slots
        Owners(a) == {s \in Mapped(slots) : a \in Span(s)}
        declared == {d.zp : d \in Selected(src.declared, "manifest", files["manifest"].defs)}
    IN  /\ "manifest" \in DOMAIN files
        /\ declared # {}
        /\ Mapped(slots) = slots
        /\ \A a \in Occupied(slots) :
             Cardinality(Owners(a)) < 2 \/ IsIntendedAlias(Owners(a))
        /\ \A bytes \in declared : bytes >= Cardinality(Occupied(slots))

\* ---- verify_label_hygiene.py ----
Rows(src, files) ==
    UNION {Selected(src.rows, m, files[m].defs) : m \in DOMAIN files}

CheckObject(src, files) ==
    LET rows == Selected(src.rows, "aead", files["aead"].defs)
    IN  /\ "aead" \in DOMAIN files
        /\ \E r \in rows : r.kind = "sentinel"
        /\ \A r \in rows : r.kind # "leak"

\* A row is a leak, short of three fields, or a name outside the charset.
CheckLabels(src, files) ==
    LET rows == Rows(src, files)
    IN  /\ rows # {}
        /\ \E r \in rows : r.kind = "sentinel"
        /\ \A r \in rows : r.kind # "leak"
        /\ Cardinality({r \in rows : r.kind # "short"}) = Cardinality(rows)
        /\ \A r \in rows : r.kind # "charset"

\* ---- verify_harness_routing.py: files are [dir, kind] ----
ScanDirs == {"tools", "examples", "test_consumer"}
Forbidden == {"private_client", "threshold_name", "threshold_assigned"}

Scanned(src) == {f \in src.python : f.dir \in ScanDirs /\ ~f.worktree /\ ~f.self}

\* A file that cannot be read is warned of and skipped.
RoutingGreen(src) ==
    \A f \in Scanned(src) : f.readable => f.line \notin Forbidden

\* ---- verify_knob_staleness.py: the dumps of its four builds ----
PrecalcCount(dump) == Cardinality(dump.names["precalc"])

KnobsGreen(dumps, expectB, expectA) ==
    /\ PrecalcCount(dumps[1]) = expectB
    /\ PrecalcCount(dumps[2]) = expectA /\ dumps[2].rebuilt
    /\ ~dumps[3].rebuilt
    /\ PrecalcCount(dumps[4]) = expectB /\ dumps[4].rebuilt

\* ---- verify_member_isolation.py ----
Suppressions == {"LIB_NO_BARE_EXPORTS", "SHARED_SQTAB_INIT", "SHARED_CT_MUL_8X8"}

RosterGreen(src) == src.switches # {} /\ src.switches \subseteq Suppressions

AllNames(dump) == UNION {dump.names[m] : m \in DOMAIN dump.names}

\* The names a build loses to either suppression, over the plain build.
Displaceable(plain, noBare, deferred) ==
    (AllNames(plain) \ AllNames(noBare)) \cup (AllNames(plain) \ AllNames(deferred))

\* A prefixed spelling of a bare LIB name beside it.
Counterparts(name, names) ==
    IF name.pre # "LIB" THEN {}
    ELSE {n \in names \ {name} : n.pre = "LIB_CCP" /\ n.rest = name.rest}

MemberIsolated(names, displaceable) ==
    LET lost == names \cap displaceable
        kept == UNION {Counterparts(n, names) : n \in lost}
    IN  lost = {} \/ names \subseteq lost \cup kept

\* One profile: its three measuring builds, then its variants.
ProfileIsolated(dumps) ==
    LET displaceable == Displaceable(dumps[1], dumps[2], dumps[3])
    IN  /\ displaceable # {}
        /\ \A i \in 4..Len(dumps) : \A m \in DOMAIN dumps[i].names :
             MemberIsolated(dumps[i].names[m], displaceable)
=============================================================================
