----------------------------- MODULE Trampoline -----------------------------
(***************************************************************************)
(* The test tools' way to call a routine on an Ultimate 64 over the network  *)
(* (tools/_u64_helpers.py): the host writes a trampoline into the machine's   *)
(* memory and starts it; the machine calls the routine, publishes A and a     *)
(* sentinel, and parks on a flag until the host arms it again.  Host and      *)
(* machine run concurrently and share five cells.                           *)
(***************************************************************************)
EXTENDS Integers, Sequences, SequencesExt

CONSTANTS Routines,      \* what can be called
          Samples,       \* samples per measurement
          MaxCalls,      \* how often the tools call, measure or sample
          MaxTimeouts,   \* how often a poll runs out of time
          Lossy          \* may the debug stream lose bus cycles?

ASSUME SamplesAssumption == Samples \in Nat \ {0}

VARIABLES
  mem,             \* operand of the jsr, sentinel, status, rearm, keyboard
  cpu,             \* where the machine is
  run,             \* the execution whose A the machine holds; history
  installed, last_addr,            \* _SessionState
  host,            \* "idle", "write", "poll", "read" or "capture"
  todo,            \* the writes the host has yet to send, in order
  purpose,         \* "call", "warm-up" or "sample"
  addr,            \* the routine asked for
  left,            \* samples still to take
  trace,           \* bus cycles captured, none when not capturing
  returned,        \* history: what the last call returned, if it did
  measured,        \* history: the pairs of the last measurement, if any
  calls, runs, timeouts            \* history: how many of each

machine == <<cpu, run, runs>>
session == <<installed, last_addr>>
vars == <<mem, cpu, run, installed, last_addr, host, todo, purpose, addr, left,
          trace, returned, measured, calls, runs, timeouts>>

NoRun == [routine |-> "none", call |-> 0]

Init ==
  /\ mem = [operand |-> "none", sentinel |-> FALSE, status |-> {},
            rearm |-> FALSE, keyboard |-> FALSE]
  /\ cpu = "basic" /\ run = NoRun
  /\ installed = FALSE /\ last_addr = "none"
  /\ host = "idle" /\ todo = <<>> /\ purpose = "call" /\ addr = "none"
  /\ left = 0 /\ trace = <<>>
  /\ returned = {} /\ measured = <<>>
  /\ calls = 0 /\ runs = 0 /\ timeouts = 0

-----------------------------------------------------------------------------
(* The machine                                                              *)

(* The debug stream shows a marker's fetch, or loses it.                      *)
Seen(marker) ==
  IF purpose # "sample" THEN UNCHANGED trace
  ELSE \/ trace' = Append(trace, marker)
       \/ Lossy /\ UNCHANGED trace

(* BASIC runs the SYS that came through the keyboard buffer.                  *)
Sys ==
  /\ cpu = "basic" /\ mem.keyboard
  /\ cpu' = "jsr" /\ mem' = [mem EXCEPT !.keyboard = FALSE]
  /\ UNCHANGED <<run, runs, session, host, todo, purpose, addr, left, trace,
                 returned, measured, calls, timeouts>>

Jsr ==
  /\ cpu = "jsr" /\ cpu' = "routine"
  /\ run' = [routine |-> mem.operand, call |-> calls] /\ runs' = runs + 1
  /\ Seen([at |-> "jsr", run |-> runs + 1])
  /\ UNCHANGED <<mem, session, host, todo, purpose, addr, left, returned,
                 measured, calls, timeouts>>

(* Mutant: the sentinel comes with the status, not after it.                 *)
StoreBoth ==
  /\ cpu = "routine" /\ cpu' = "flag"
  /\ mem' = [mem EXCEPT !.status = {run}, !.sentinel = TRUE]
  /\ Seen([at |-> "sta", run |-> runs])
  /\ UNCHANGED <<run, runs, session, host, todo, purpose, addr, left, returned,
                 measured, calls, timeouts>>

(* The routine returns, and A is reflected into the status cell.              *)
StoreStatus ==
  /\ cpu = "routine" /\ cpu' = "flag"
  /\ mem' = [mem EXCEPT !.status = {run}]
  /\ Seen([at |-> "sta", run |-> runs])
  /\ UNCHANGED <<run, runs, session, host, todo, purpose, addr, left, returned,
                 measured, calls, timeouts>>

StoreSentinel ==
  /\ cpu = "flag" /\ cpu' = "park"
  /\ mem' = [mem EXCEPT !.sentinel = TRUE]
  /\ UNCHANGED <<run, runs, session, host, todo, purpose, addr, left, trace,
                 returned, measured, calls, timeouts>>

LeavePark ==
  /\ cpu = "park" /\ mem.rearm /\ cpu' = "clear"
  /\ UNCHANGED <<mem, run, runs, session, host, todo, purpose, addr, left,
                 trace, returned, measured, calls, timeouts>>

(* Mutant: the flag is left standing.                                       *)
KeepFlag ==
  /\ cpu = "clear" /\ cpu' = "jsr"
  /\ UNCHANGED <<mem, run, runs, session, host, todo, purpose, addr, left,
                 trace, returned, measured, calls, timeouts>>

ClearFlag ==
  /\ cpu = "clear" /\ cpu' = "jsr"
  /\ mem' = [mem EXCEPT !.rearm = FALSE]
  /\ UNCHANGED <<run, runs, session, host, todo, purpose, addr, left, trace,
                 returned, measured, calls, timeouts>>

-----------------------------------------------------------------------------
(* The host.  Each write is a request of its own, and requests arrive in      *)
(* order.                                                                   *)

Write(c, v) == [cell |-> c, value |-> v]

InstallWrites(a) ==
  <<Write("operand", a), Write("sentinel", FALSE), Write("status", {}),
    Write("rearm", FALSE), Write("keyboard", TRUE)>>

(* The operand is written only when it changes.                              *)
Retarget(a, writes) ==
  IF a # last_addr THEN <<Write("operand", a)>> \o writes ELSE writes

(* Mutant: armed before the cells are cleared.                               *)
RearmFirst(a) ==
  Retarget(a, <<Write("rearm", TRUE), Write("sentinel", FALSE), Write("status", {})>>)

(* Mutant: the old sentinel stands.                                         *)
RearmStale(a) == Retarget(a, <<Write("status", {}), Write("rearm", TRUE)>>)

RearmWrites(a) ==
  Retarget(a, <<Write("sentinel", FALSE), Write("status", {}), Write("rearm", TRUE)>>)

(* Between samples the operand stays and the status is not looked at.         *)
SampleWrites == <<Write("sentinel", FALSE), Write("rearm", TRUE)>>

(* run_subroutine; with "warm-up", as measure_cycles calls it first.          *)
Call(a, why) ==
  /\ host = "idle" /\ calls < MaxCalls
  /\ calls' = calls + 1 /\ addr' = a /\ purpose' = why
  /\ todo' = IF installed THEN RearmWrites(a) ELSE InstallWrites(a)
  /\ host' = "write" /\ returned' = {}
  /\ UNCHANGED <<mem, machine, session, left, trace, measured, timeouts>>

(* The session's bookkeeping is done before the answer is awaited.           *)
HostWrite ==
  /\ host = "write"
  /\ mem' = [mem EXCEPT ![Head(todo).cell] = Head(todo).value]
  /\ todo' = Tail(todo)
  /\ IF Len(todo) > 1 THEN UNCHANGED <<host, session>>
     ELSE host' = "poll" /\ installed' = TRUE /\ last_addr' = addr
  /\ UNCHANGED <<machine, purpose, addr, left, trace, returned, measured, calls,
                 timeouts>>

(* _parse_marker_pairs walks the trace: the next jsr fetch, the next sta fetch *)
(* after it, again and again, until there are enough.                        *)
NextFetch(s, marker, i) ==
  Min({k \in i..Len(s) : s[k].at = marker} \union {Len(s) + 1})

Walk(s) ==
  LET pair[n \in 0..Samples] ==
        IF n = 0 THEN [jsr |-> 0, sta |-> 0]
        ELSE LET i == NextFetch(s, "jsr", pair[n - 1].sta + 1)
             IN  [jsr |-> i, sta |-> NextFetch(s, "sta", i + 1)]
  IN  [n \in {n \in 1..Samples : pair[n].sta <= Len(s)} |-> pair[n]]

Pairs(s) ==
  LET found == Walk(s)
  IN  [n \in DOMAIN found |-> [jsr |-> s[found[n].jsr].run, sta |-> s[found[n].sta].run]]

(* Mutant: whatever was found is returned.                                  *)
AnyPairs(p) == TRUE

Enough(p) == DOMAIN p = 1..Samples

(* One sample more, or the capture ends and the trace is parsed.              *)
NextSample ==
  IF left > 0
  THEN /\ calls' = calls + 1 /\ left' = left - 1 /\ purpose' = "sample"
       /\ todo' = SampleWrites /\ host' = "write"
       /\ UNCHANGED <<trace, measured>>
  ELSE /\ host' = "idle" /\ purpose' = "call" /\ trace' = <<>>
       /\ measured' = IF Enough(Pairs(trace)) THEN Pairs(trace) ELSE <<>>
       /\ UNCHANGED <<calls, left, todo>>

(* A poll finds the sentinel.                                               *)
PollDone ==
  /\ host = "poll" /\ mem.sentinel
  /\ IF purpose = "sample" THEN NextSample
     ELSE host' = "read" /\ UNCHANGED <<calls, left, purpose, todo, trace, measured>>
  /\ UNCHANGED <<mem, machine, session, addr, returned, timeouts>>

ReadStatus ==
  /\ host = "read"
  /\ IF purpose = "call"
     THEN host' = "idle" /\ returned' = {mem.status} /\ UNCHANGED left
     ELSE host' = "capture" /\ left' = Samples /\ UNCHANGED returned
  /\ UNCHANGED <<mem, machine, session, todo, purpose, addr, trace, measured,
                 calls, timeouts>>

(* measure_cycles starts the capture and arms the first sample.              *)
StartCapture ==
  /\ host = "capture"
  /\ NextSample
  /\ UNCHANGED <<mem, machine, session, addr, returned, timeouts>>

(* TimeoutError; the caller reports it and goes on with its next test.        *)
Timeout ==
  /\ host = "poll" /\ timeouts < MaxTimeouts
  /\ timeouts' = timeouts + 1
  /\ host' = "idle" /\ purpose' = "call" /\ trace' = <<>>
  /\ UNCHANGED <<mem, machine, session, todo, addr, left, returned, measured, calls>>

-----------------------------------------------------------------------------
MachineNext == Sys \/ Jsr \/ StoreStatus \/ StoreSentinel \/ LeavePark \/ ClearFlag
HostNext == HostWrite \/ PollDone \/ ReadStatus \/ StartCapture
ToolsNext == \E a \in Routines, why \in {"call", "warm-up"} : Call(a, why)

Next == MachineNext \/ HostNext \/ ToolsNext \/ Timeout

Spec == Init /\ [][Next]_vars

(* The machine keeps executing, its routines return, and the host keeps       *)
(* sending and polling.                                                     *)
FairSpec == Spec /\ WF_vars(MachineNext) /\ WF_vars(HostNext)

-----------------------------------------------------------------------------
(* Until a call is given up, the host touches the shared cells only while the  *)
(* machine waits for them: in BASIC, or parked behind a sentinel it has read.  *)
WritesWhileParked == timeouts = 0 /\ host = "write" => cpu \in {"basic", "park"}

(* run_subroutine returns the A that the routine it was asked for left when   *)
(* it ran for this very call, for as long as no call has been given up.  After *)
(* one was, the sentinel of the call that was given up can answer a later one,  *)
(* but only while a run that was asked for is still missing: when the machine   *)
(* has run every routine and come back from the last, the answer is right.     *)
AnswersInStep ==
  [][ReadStatus /\ host' = "idle"
     /\ (timeouts = 0 \/ (runs = calls /\ cpu # "routine")) =>
       returned' = {{[routine |-> addr, call |-> calls]}}]_vars

(* No routine runs that was not asked for, whatever calls were given up, and   *)
(* until one is, every call and every sample has run its routine once.        *)
RunsOnce == runs <= calls /\ (timeouts = 0 /\ host = "idle" => runs = calls)

(* Even if marker fetches are lost, a pair that _parse_marker_pairs returns     *)
(* brackets one execution and never spans two, until a call is given up: a     *)
(* run of its own accord adds markers that make up for lost ones.             *)
PairsBracketOneRun ==
  timeouts = 0 => \A k \in DOMAIN measured : measured[k].jsr = measured[k].sta

(* Every call and every measurement comes to an end: no arming is lost, after  *)
(* a call was given up either.                                              *)
CallsReturn == (host # "idle") ~> (host = "idle")
=============================================================================
