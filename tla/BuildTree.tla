----------------------------- MODULE BuildTree -----------------------------
(***************************************************************************)
(* The build tree as the Makefile keeps it: objects per directory, the     *)
(* archive or label file made from them, and the knob stamp (Makefile:118) *)
(* that decides at parse time whether the objects may be reused.  A make   *)
(* may be interrupted between any two of its commands, and the sources are *)
(* edited between makes.  A file is older than a source iff it was made    *)
(* from an earlier version of it; two edits in one second of clock time,   *)
(* which make cannot tell apart, are not modelled.                         *)
(***************************************************************************)
EXTENDS Integers

CONSTANTS
    Dirs,         \* the object directories, one per make target
    Archived,     \* those whose product is an archive under build/lib
    Members,      \* the translation units
    Knobs,        \* values of CONTRACT_DEFINES: sets of defines
    Recipe,       \* the defines a directory's own rules add
    Conflicts,    \* sets of defines the sources refuse together with .error
    MaxVersion,   \* bound on the edits of one source
    NoFile, NoStamp

Object == [defs : {k \cup Recipe[d] : k \in Knobs, d \in Dirs}, ver : 0..MaxVersion]

ASSUME TreeAssumption ==
    /\ Archived \subseteq Dirs
    /\ MaxVersion \in Nat
    /\ NoStamp \notin Knobs
    /\ NoFile \notin Object

VARIABLES
    stored,       \* what build/.contract-defines.stamp holds
    objs,         \* the .o files, each with the defines and the source it came from
    products,     \* the archive or label file of each directory
    version,      \* the source of each member, as a version number
    step,         \* where the running make is
    dir, knobs,   \* its target and its CONTRACT_DEFINES
    rebuilt,      \* it ran a command, so it does not say "Nothing to be done"
    wasCurrent    \* nothing was out of date when it began

treeVars == <<stored, objs, products, version, step, dir, knobs, rebuilt, wasCurrent>>

Fresh(d, k) == [m \in Members |-> [defs |-> k \cup Recipe[d], ver |-> version[m]]]

NoObjects == [d \in Dirs |-> [m \in Members |-> NoFile]]
NoProducts == [d \in Dirs |-> NoFile]

TreeInit ==
    /\ stored = NoStamp
    /\ objs = NoObjects
    /\ products = NoProducts
    /\ version = [m \in Members |-> 0]
    /\ step = "idle"
    /\ dir \in Dirs /\ knobs \in Knobs
    /\ rebuilt = FALSE /\ wasCurrent = FALSE

Steps == {"idle", "objects", "archives", "truncate", "stamp", "compile", "done", "failed"}

\* Mutant: a guard that writes the stamp before it deletes what the stamp is about.
BeginStampFirst(d, k, keep) ==
    /\ step = "idle"
    /\ step' = IF keep THEN "compile" ELSE "objects"
    /\ dir' = d /\ knobs' = k /\ rebuilt' = FALSE
    /\ wasCurrent' = FALSE
    /\ stored' = k
    /\ UNCHANGED <<objs, products, version>>

\* Parsing the Makefile: the guard invalidates unless keep holds, which in
\* the Makefile is that the stamp names the knobs of this invocation.
Begin(d, k, keep) ==
    /\ step = "idle"
    /\ step' = IF keep THEN "compile" ELSE "objects"
    /\ dir' = d /\ knobs' = k /\ rebuilt' = FALSE
    /\ wasCurrent' = /\ stored = k
                     /\ objs[d] = Fresh(d, k)
                     /\ products[d] = objs[d]
    /\ UNCHANGED <<stored, objs, products, version>>

SameKnobs(k) == stored = k

\* find build -name '*.o' -delete, one directory after another.
DeleteObjects ==
    /\ step = "objects"
    /\ IF objs = NoObjects
       THEN step' = "archives" /\ UNCHANGED objs
       ELSE /\ UNCHANGED step
            /\ \E d \in Dirs :
                 /\ objs[d] # NoObjects[d]
                 /\ objs' = [objs EXCEPT ![d] = NoObjects[d]]
    /\ UNCHANGED <<stored, products, version, dir, knobs, rebuilt, wasCurrent>>

\* rm -f $(LIB_DIR)/*.a: label files and PRGs stay.
DeleteArchives ==
    /\ step = "archives"
    /\ products' = [d \in Dirs |-> IF d \in Archived THEN NoFile ELSE products[d]]
    /\ step' = "truncate"
    /\ UNCHANGED <<stored, objs, version, dir, knobs, rebuilt, wasCurrent>>

\* printf > stamp: the shell empties the file before printf fills it.
TruncateStamp ==
    /\ step = "truncate"
    /\ stored' = NoStamp
    /\ step' = "stamp"
    /\ UNCHANGED <<objs, products, version, dir, knobs, rebuilt, wasCurrent>>

WriteStamp ==
    /\ step = "stamp"
    /\ stored' = knobs
    /\ step' = "compile"
    /\ UNCHANGED <<objs, products, version, dir, knobs, rebuilt, wasCurrent>>

OutOfDate(m) == objs[dir][m] # NoFile => objs[dir][m].ver # version[m]

Refused == \E c \in Conflicts : c \subseteq knobs \cup Recipe[dir]

Compile(m) ==
    /\ step = "compile"
    /\ OutOfDate(m)
    /\ ~Refused
    /\ objs' = [objs EXCEPT ![dir][m] = Fresh(dir, knobs)[m]]
    /\ rebuilt' = TRUE
    /\ UNCHANGED <<stored, products, version, step, dir, knobs, wasCurrent>>

\* ca65 stops at an .error and make exits with it.
Refuse ==
    /\ step = "compile"
    /\ \E m \in Members : OutOfDate(m)
    /\ Refused
    /\ step' = "failed"
    /\ UNCHANGED <<stored, objs, products, version, dir, knobs, rebuilt, wasCurrent>>

\* The archive is made again when an object is newer than it; the profile
\* targets are phony and link every time.
Package ==
    /\ step = "compile"
    /\ \A m \in Members : ~OutOfDate(m)
    /\ products' = [products EXCEPT ![dir] = objs[dir]]
    /\ rebuilt' = (rebuilt \/ dir \notin Archived \/ products[dir] # objs[dir])
    /\ step' = "done"
    /\ UNCHANGED <<stored, objs, version, dir, knobs, wasCurrent>>

\* make exits, or dies between two of its commands.
Finish ==
    /\ step \in {"done", "failed"}
    /\ step' = "idle"
    /\ UNCHANGED <<stored, objs, products, version, dir, knobs, rebuilt, wasCurrent>>

Interrupt ==
    /\ step \notin {"idle", "done", "failed"}
    /\ step' = "idle"
    /\ UNCHANGED <<stored, objs, products, version, dir, knobs, rebuilt, wasCurrent>>

Edit(m) ==
    /\ step = "idle"
    /\ version[m] < MaxVersion
    /\ version' = [version EXCEPT ![m] = @ + 1]
    /\ UNCHANGED <<stored, objs, products, step, dir, knobs, rebuilt, wasCurrent>>

MakeStep ==
    \/ DeleteObjects \/ DeleteArchives \/ TruncateStamp \/ WriteStamp
    \/ \E m \in Members : Compile(m)
    \/ Refuse
    \/ Package

TreeNext ==
    \/ \E d \in Dirs, k \in Knobs : Begin(d, k, SameKnobs(k))
    \/ MakeStep
    \/ Finish
    \/ Interrupt
    \/ \E m \in Members : Edit(m)

TreeSpec == TreeInit /\ [][TreeNext]_treeVars

TreeTypeOK ==
    /\ stored \in Knobs \cup {NoStamp}
    /\ objs \in [Dirs -> [Members -> Object \cup {NoFile}]]
    /\ products \in [Dirs -> [Members -> Object] \cup {NoFile}]
    /\ version \in [Members -> 0..MaxVersion]
    /\ step \in Steps
    /\ dir \in Dirs /\ knobs \in Knobs
    /\ rebuilt \in BOOLEAN /\ wasCurrent \in BOOLEAN

\* A make that ends has packaged every member from its current source under
\* the knobs it was asked for, whatever knobs, edits and interruptions came
\* before it (Makefile:118, verify_knob_staleness.py leg 2 and 4).
FinishedCurrent == step = "done" => products[dir] = Fresh(dir, knobs)

\* A make that finds everything current runs no command on an archive
\* (verify_knob_staleness.py leg 3): the guard is not a rebuild every time.
SameKnobsIdle == step = "done" /\ wasCurrent /\ dir \in Archived => ~rebuilt
=============================================================================
