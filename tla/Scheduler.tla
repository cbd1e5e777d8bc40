----------------------------- MODULE Scheduler -----------------------------
(***************************************************************************)
(* sched.Scheduler (sched/scheduler.go) with its one registered module:    *)
(* the module loop and its sweeps, the scans on the shared worker slots,   *)
(* the backoff after failures, AddTarget, RemoveTarget, ScanNow and the    *)
(* way from Start to Stop.                                                 *)
(*                                                                         *)
(* What a scan does to the findings is the subject of TripPaths; here it   *)
(* waits for a slot, runs and ends, well or in an error.                   *)
(***************************************************************************)
EXTENDS Integers, FiniteSets

CONSTANTS
    Targets,
    Workers,     \* Config.Workers: the capacity of s.sem
    RetryBase,   \* Config.RetryBase and RetryMax, in ticks of the clock
    RetryMax,
    Adders,      \* the goroutines that call AddTarget
    Callers,     \* the goroutines that call ScanNow
    \* Bounds of the exploration; the code has none of them.
    Goroutines,  \* scans in flight at once
    MaxFailures, \* consecutive failures told apart
    MaxChanges   \* calls of AddTarget, RemoveTarget and ScanNow

ASSUME SchedulerAssumption ==
    /\ Targets # {}
    /\ Workers \in Nat \ {0}
    /\ RetryBase \in Nat \ {0}
    /\ RetryMax \in Nat \ {0}
    /\ IsFiniteSet(Goroutines)
    /\ MaxFailures \in Nat \ {0}
    /\ MaxChanges \in Nat
    /\ "sweep" \notin Callers /\ "add" \notin Callers

VARIABLES
    targets,   \* the registered targets
    ctx,       \* s.ctx: "none" before Start, "live", "cancelled"
    loop,      \* moduleLoop: "none", "sweep", "spawn", "wait" or "done"
    todo,      \* the rest of the sweep's snapshot of the targets
    failures,  \* consecutive failed sweeps of each target
    gate,      \* the ticks each target still backs off
    scans,     \* the goroutines of scanOne
    sem,       \* the slots taken of s.sem
    wg,        \* the counter of s.wg
    add,       \* the state of each AddTarget call
    now,       \* the state of each ScanNow call
    stop,      \* Stop: "none", "waiting" or "done"
    attempted, \* history: the targets a scan was launched for since they were added
    changes    \* calls left of the bound

pool == <<scans, sem, wg>>
book == <<failures, gate>>
vars == <<targets, ctx, loop, todo, book, pool, add, now, stop, attempted, changes>>

\* by: the sweep, an AddTarget call or the ScanNow call that launched the scan.
ScanState == [pc : {"idle", "slot", "collect", "settle"}, target : Targets,
              by : {"sweep", "add"} \cup Callers, failed : BOOLEAN]
AddState  == [pc : {"idle", "check", "launch"}, target : Targets, live : BOOLEAN]
NowState  == [pc : {"idle", "spawn"}, todo : SUBSET Targets, gone : BOOLEAN]

TypeOK ==
    /\ targets \in SUBSET Targets
    /\ ctx \in {"none", "live", "cancelled"}
    /\ loop \in {"none", "sweep", "spawn", "wait", "done"}
    /\ todo \in SUBSET Targets
    /\ failures \in [Targets -> 0 .. MaxFailures]
    /\ gate \in [Targets -> {d \in Int : d <= RetryMax}]
    /\ scans \in [Goroutines -> ScanState]
    /\ sem \in 0 .. Workers
    /\ wg \in Nat
    /\ add \in [Adders -> AddState]
    /\ now \in [Callers -> NowState]
    /\ stop \in {"none", "waiting", "done"}
    /\ attempted \in SUBSET Targets
    /\ changes \in Nat

SomeTarget == CHOOSE t \in Targets : TRUE
NewScan(t, by) == [pc |-> "slot", target |-> t, by |-> by, failed |-> FALSE]
IdleScan == [pc |-> "idle", target |-> SomeTarget, by |-> "sweep", failed |-> FALSE]
IdleAdd  == [pc |-> "idle", target |-> SomeTarget, live |-> FALSE]
IdleNow  == [pc |-> "idle", todo |-> {}, gone |-> FALSE]

\* main restores the targets of earlier runs before it starts the scheduler.
Init ==
    /\ targets \in SUBSET Targets
    /\ ctx = "none"
    /\ loop = "none"
    /\ todo = {}
    /\ failures = [t \in Targets |-> 0]
    /\ gate = [t \in Targets |-> 0]
    /\ scans = [g \in Goroutines |-> IdleScan]
    /\ sem = 0
    /\ wg = 0
    /\ add = [a \in Adders |-> IdleAdd]
    /\ now = [c \in Callers |-> IdleNow]
    /\ stop = "none"
    /\ attempted = {}
    /\ changes = MaxChanges

-----------------------------------------------------------------------------
(* backoffFor: RetryBase, doubled by each further failure, at most RetryMax. *)

AtMost(d) == IF d > RetryMax THEN RetryMax ELSE d

BackoffFor(n) ==
    LET doubled[i \in 1 .. n] == IF i = 1 THEN RetryBase ELSE AtMost(2 * doubled[i - 1])
    IN  AtMost(doubled[n])

-----------------------------------------------------------------------------
(* The scans: scanOne and the goroutines around it. *)

\* A new goroutine scans t on behalf of `by'.
Launch(t, by) ==
    \E g \in Goroutines :
        /\ scans[g].pc = "idle"
        /\ scans' = [scans EXCEPT ![g] = NewScan(t, by)]
        /\ attempted' = attempted \cup {t}
        /\ UNCHANGED sem

\* The context the scan was given: the request's or the scheduler's.
Cancelled(g) == IF scans[g].by \in Callers THEN now[scans[g].by].gone
                                           ELSE ctx = "cancelled"

Acquire(g) ==
    /\ scans[g].pc = "slot"
    /\ sem < Workers
    /\ sem' = sem + 1
    /\ scans' = [scans EXCEPT ![g].pc = "collect"]
    /\ UNCHANGED <<targets, ctx, loop, todo, book, wg, add, now, stop, attempted, changes>>

\* Slip: the slot is given back although it was never taken.
GiveUpReleasing(g) ==
    /\ scans[g].pc = "slot"
    /\ Cancelled(g)
    /\ scans' = [scans EXCEPT ![g].pc = "settle"]
    /\ sem' = sem - 1
    /\ UNCHANGED <<targets, ctx, loop, todo, book, wg, add, now, stop, attempted, changes>>

\* The context ends first; with a slot free as well, either case is taken.
GiveUp(g) ==
    /\ scans[g].pc = "slot"
    /\ Cancelled(g)
    /\ scans' = [scans EXCEPT ![g].pc = "settle"]
    /\ UNCHANGED <<targets, ctx, loop, todo, book, sem, wg, add, now, stop, attempted, changes>>

\* Slip: the slot is given back only by a scan that ends well.
EndKeepingSlot(g, failed) ==
    /\ scans[g].pc = "collect"
    /\ failed => scans[g].by = "sweep"
    /\ sem' = IF failed THEN sem ELSE sem - 1
    /\ scans' = [scans EXCEPT ![g].pc = "settle", ![g].failed = failed]
    /\ UNCHANGED <<targets, ctx, loop, todo, book, wg, add, now, stop, attempted, changes>>

\* Collect and Reconcile return, or the scan's time is up; the slot is free.
\* A scan that ends because its context was cancelled has not failed, and only
\* a sweep asks whether its scan did.
End(g, failed) ==
    /\ scans[g].pc = "collect"
    /\ failed => scans[g].by = "sweep"
    /\ sem' = sem - 1
    /\ scans' = [scans EXCEPT ![g].pc = "settle", ![g].failed = failed]
    /\ UNCHANGED <<targets, ctx, loop, todo, book, wg, add, now, stop, attempted, changes>>

\* Slip: a scan that ends well clears the count and leaves the gate.
SettleKeepingGate(g) ==
    LET s == scans[g]
        n == IF failures[s.target] < MaxFailures THEN failures[s.target] + 1 ELSE MaxFailures
    IN
    /\ s.pc = "settle"
    /\ failures' = IF s.by # "sweep" THEN failures
                   ELSE [failures EXCEPT ![s.target] = IF s.failed THEN n ELSE 0]
    /\ gate' = IF s.by = "sweep" /\ s.failed
               THEN [gate EXCEPT ![s.target] = BackoffFor(n)] ELSE gate
    /\ wg' = IF s.by \in Callers THEN wg ELSE wg - 1
    /\ scans' = [scans EXCEPT ![g] = IdleScan]
    /\ UNCHANGED <<targets, ctx, loop, todo, sem, add, now, stop, attempted, changes>>

\* Slip: one gate for the module, where each target has its own.
SettleHoldingAll(g) ==
    LET s == scans[g]
        n == IF failures[s.target] < MaxFailures THEN failures[s.target] + 1 ELSE MaxFailures
    IN
    /\ s.pc = "settle"
    /\ failures' = IF s.by # "sweep" THEN failures
                   ELSE [failures EXCEPT ![s.target] = IF s.failed THEN n ELSE 0]
    /\ gate' = IF s.by # "sweep" THEN gate
               ELSE [t \in Targets |-> IF s.failed THEN BackoffFor(n) ELSE 0]
    /\ wg' = IF s.by \in Callers THEN wg ELSE wg - 1
    /\ scans' = [scans EXCEPT ![g] = IdleScan]
    /\ UNCHANGED <<targets, ctx, loop, todo, sem, add, now, stop, attempted, changes>>

\* A sweep's scan writes its outcome to the books, under failMu.  MaxFailures
\* stands for itself and every higher count.
Settle(g) ==
    LET s == scans[g]
        n == IF failures[s.target] < MaxFailures THEN failures[s.target] + 1 ELSE MaxFailures
    IN
    /\ s.pc = "settle"
    /\ failures' = IF s.by # "sweep" THEN failures
                   ELSE [failures EXCEPT ![s.target] = IF s.failed THEN n ELSE 0]
    /\ gate' = IF s.by # "sweep" THEN gate
               ELSE [gate EXCEPT ![s.target] =
                       IF s.failed THEN BackoffFor(n) ELSE 0]
    /\ wg' = IF s.by \in Callers THEN wg ELSE wg - 1
    /\ scans' = [scans EXCEPT ![g] = IdleScan]
    /\ UNCHANGED <<targets, ctx, loop, todo, sem, add, now, stop, attempted, changes>>

ScanStep(g) ==
    \/ Acquire(g)
    \/ GiveUp(g)
    \/ \E failed \in BOOLEAN : End(g, failed)
    \/ Settle(g)

-----------------------------------------------------------------------------
(* The module loop. *)

Start ==
    /\ ctx = "none"
    /\ ctx' = "live"
    /\ wg' = wg + 1
    /\ loop' = "sweep"
    /\ UNCHANGED <<targets, todo, book, scans, sem, add, now, stop, attempted, changes>>

\* The sweep copies the targets under s.mu and then runs without it.
Sweep ==
    /\ loop = "sweep"
    /\ todo' = targets
    /\ loop' = "spawn"
    /\ UNCHANGED <<targets, ctx, book, pool, add, now, stop, attempted, changes>>

Skip(t) ==
    /\ loop = "spawn"
    /\ t \in todo
    /\ gate[t] > 0
    /\ todo' = todo \ {t}
    /\ UNCHANGED <<targets, ctx, loop, book, pool, add, now, stop, attempted, changes>>

Spawn(t) ==
    /\ loop = "spawn"
    /\ t \in todo
    /\ gate[t] = 0
    /\ todo' = todo \ {t}
    /\ Launch(t, "sweep")
    /\ wg' = wg + 1
    /\ UNCHANGED <<targets, ctx, loop, book, add, now, stop, changes>>

EndSweep ==
    /\ loop = "spawn"
    /\ todo = {}
    /\ loop' = "wait"
    /\ UNCHANGED <<targets, ctx, todo, book, pool, add, now, stop, attempted, changes>>

\* The interval is over; with the context cancelled as well, either case of
\* the select is taken.
NextSweep ==
    /\ loop = "wait"
    /\ loop' = "sweep"
    /\ UNCHANGED <<targets, ctx, todo, book, pool, add, now, stop, attempted, changes>>

\* Slip: the loop returns without its wg.Done().
LoopReturnsUncounted ==
    /\ loop = "wait"
    /\ ctx = "cancelled"
    /\ loop' = "done"
    /\ UNCHANGED <<targets, ctx, todo, book, pool, add, now, stop, attempted, changes>>

LoopReturns ==
    /\ loop = "wait"
    /\ ctx = "cancelled"
    /\ loop' = "done"
    /\ wg' = wg - 1
    /\ UNCHANGED <<targets, ctx, todo, book, scans, sem, add, now, stop, attempted, changes>>

LoopStep == \/ Sweep
            \/ \E t \in Targets : Skip(t) \/ Spawn(t)
            \/ EndSweep

\* Time passes for the targets that back off.
Tick ==
    /\ \E t \in Targets : gate[t] > 0
    /\ gate' = [t \in Targets |-> IF gate[t] > 0 THEN gate[t] - 1 ELSE gate[t]]
    /\ UNCHANGED <<targets, ctx, loop, todo, failures, pool, add, now, stop, attempted, changes>>

-----------------------------------------------------------------------------
(* AddTarget, RemoveTarget, ScanNow. *)

Change == changes > 0 /\ changes' = changes - 1

\* Slip: the scheduler's state is not looked at; the next sweep will do.
InsertOnly(a, t) ==
    /\ add[a].pc = "idle"
    /\ Change
    /\ targets' = targets \cup {t}
    /\ attempted' = attempted \ {t}
    /\ add' = [add EXCEPT ![a] = [pc |-> "check", target |-> t, live |-> FALSE]]
    /\ UNCHANGED <<ctx, loop, todo, book, pool, now, stop>>

\* AddTarget inserts the target and reads s.ctx and s.started under one lock ...
Insert(a, t) ==
    /\ add[a].pc = "idle"
    /\ Change
    /\ targets' = targets \cup {t}
    /\ attempted' = attempted \ {t}
    /\ add' = [add EXCEPT ![a] = [pc |-> "check", target |-> t, live |-> (ctx # "none")]]
    /\ UNCHANGED <<ctx, loop, todo, book, pool, now, stop>>

\* ... asks whether the context still lives ...
Check(a) ==
    /\ add[a].pc = "check"
    /\ add' = [add EXCEPT ![a] = IF @.live /\ ctx = "live"
                                 THEN [@ EXCEPT !.pc = "launch"] ELSE IdleAdd]
    /\ UNCHANGED <<targets, ctx, loop, todo, book, pool, now, stop, attempted, changes>>

\* ... and launches the first scan, whatever has become of it since.
FirstScan(a) ==
    /\ add[a].pc = "launch"
    /\ Launch(add[a].target, "add")
    /\ wg' = wg + 1
    /\ add' = [add EXCEPT ![a] = IdleAdd]
    /\ UNCHANGED <<targets, ctx, loop, todo, book, now, stop, changes>>

RemoveTarget(t) ==
    /\ t \in targets
    /\ Change
    /\ targets' = targets \ {t}
    /\ UNCHANGED <<ctx, loop, todo, book, pool, add, now, stop, attempted>>

ScanNow(c) ==
    /\ now[c].pc = "idle"
    /\ Change
    /\ now' = [now EXCEPT ![c] = [pc |-> "spawn", todo |-> targets, gone |-> FALSE]]
    /\ UNCHANGED <<targets, ctx, loop, todo, book, pool, add, stop, attempted>>

\* The scans of a ScanNow are counted by a wait group of its own, not by s.wg.
SpawnNow(c, t) ==
    /\ t \in now[c].todo
    /\ Launch(t, c)
    /\ now' = [now EXCEPT ![c].todo = @ \ {t}]
    /\ UNCHANGED <<targets, ctx, loop, todo, book, wg, add, stop, changes>>

\* The HTTP request that asked for the scan ends early.
RequestEnds(c) ==
    /\ now[c].pc = "spawn"
    /\ ~now[c].gone
    /\ now' = [now EXCEPT ![c].gone = TRUE]
    /\ UNCHANGED <<targets, ctx, loop, todo, book, pool, add, stop, attempted, changes>>

InFlight(g) == scans[g].pc # "idle"

ScanNowReturns(c) ==
    /\ now[c].pc = "spawn"
    /\ now[c].todo = {}
    /\ \A g \in Goroutines : InFlight(g) => scans[g].by # c
    /\ now' = [now EXCEPT ![c] = IdleNow]
    /\ UNCHANGED <<targets, ctx, loop, todo, book, pool, add, stop, attempted, changes>>

-----------------------------------------------------------------------------
(* The end. *)

\* The context is cancelled: by the signal it derives from or by Stop.
Cancel ==
    /\ ctx = "live"
    /\ ctx' = "cancelled"
    /\ UNCHANGED <<targets, loop, todo, book, pool, add, now, stop, attempted, changes>>

\* main calls Stop once, after Start.
Stop ==
    /\ stop = "none"
    /\ ctx # "none"
    /\ ctx' = "cancelled"
    /\ stop' = "waiting"
    /\ UNCHANGED <<targets, loop, todo, book, pool, add, now, attempted, changes>>

\* Slip: Stop does not wait.
StopReturnsAtOnce ==
    /\ stop = "waiting"
    /\ stop' = "done"
    /\ UNCHANGED <<targets, ctx, loop, todo, book, pool, add, now, attempted, changes>>

StopReturns ==
    /\ stop = "waiting"
    /\ wg = 0
    /\ stop' = "done"
    /\ UNCHANGED <<targets, ctx, loop, todo, book, pool, add, now, attempted, changes>>

Next ==
    \/ \E g \in Goroutines : ScanStep(g)
    \/ Start
    \/ LoopStep
    \/ NextSweep
    \/ LoopReturns
    \/ Tick
    \/ \E a \in Adders : Check(a) \/ FirstScan(a) \/ \E t \in Targets : Insert(a, t)
    \/ \E t \in Targets : RemoveTarget(t)
    \/ \E c \in Callers : \/ ScanNow(c)
                          \/ \E t \in Targets : SpawnNow(c, t)
                          \/ RequestEnds(c)
                          \/ ScanNowReturns(c)
    \/ Cancel
    \/ Stop
    \/ StopReturns

Spec == Init /\ [][Next]_vars

(***************************************************************************)
(* Fairness.  A scan that has its slot ends, if only by its timeout, and   *)
(* settles.  Goroutines that wait to send on s.sem are served in turn, so  *)
(* none is passed over for ever: strong fairness for each.  The loop's     *)
(* timer and the clock go on, and the select of a waiting loop takes a     *)
(* cancelled context sooner or later.  A call that has begun goes on: it   *)
(* launches its scans without waiting for anyone, so they are strongly     *)
(* fair and the bound on goroutines holds none of them up for ever.        *)
(* Nothing obliges anyone to call.                                         *)
(***************************************************************************)
Fairness ==
    /\ \A g \in Goroutines :
          /\ SF_vars(Acquire(g))
          /\ WF_vars(GiveUp(g))
          /\ WF_vars((\E failed \in BOOLEAN : End(g, failed)) \/ Settle(g))
    /\ SF_vars(LoopStep)
    /\ WF_vars(NextSweep)
    /\ SF_vars(LoopReturns)
    /\ WF_vars(Tick)
    /\ \A a \in Adders : SF_vars(Check(a) \/ FirstScan(a))
    /\ \A c \in Callers : SF_vars((\E t \in Targets : SpawnNow(c, t)) \/ ScanNowReturns(c))
    /\ WF_vars(StopReturns)

LiveSpec == Spec /\ Fairness

-----------------------------------------------------------------------------
(* Safety. *)

\* No slot leaks and none is given back twice, whatever becomes of the scans:
\* s.sem holds one token for each scan that runs.
SlotsConserved == sem = Cardinality({g \in Goroutines : scans[g].pc = "collect"})

\* When Stop has returned, the loop has ended and no scan of a sweep is in
\* flight or will ever be again.
SweepsEndWithStop ==
    stop = "done" => /\ loop = "done"
                     /\ \A g \in Goroutines : InFlight(g) => scans[g].by # "sweep"

\* Who will launch a first scan of t: an AddTarget call that found a live
\* scheduler.
FirstScanDue(t) ==
    \E a \in Adders : /\ add[a].target = t
                      /\ \/ add[a].pc = "check" /\ add[a].live
                         \/ add[a].pc = "launch"

\* A target gets its first scan now and not one interval from now: whenever
\* the loop waits, each has been attempted since it was added or is about to
\* be, however AddTarget, Start and the first sweep overlap.
FirstValueNow ==
    loop = "wait" /\ ctx = "live" =>
        \A t \in targets : t \in attempted \/ FirstScanDue(t)

\* A target is held back by its own failures only, and never for longer than
\* their number asks for, though scans of one target may overlap.
BackoffFits ==
    \A t \in Targets :
        gate[t] <= IF failures[t] = 0 THEN 0 ELSE BackoffFor(failures[t])

-----------------------------------------------------------------------------
(* Liveness. *)

\* One dead target slows only itself: while the scheduler runs, the scans of
\* every registered target go on ending, whatever the others do.
EveryTargetScanned ==
    \A t \in Targets :
        []<>(\/ t \notin targets
             \/ ctx # "live"
             \/ \E g \in Goroutines : scans[g].pc = "settle" /\ scans[g].target = t)

\* Stop comes back: the loop leaves its wait and every scan it or AddTarget
\* launched gets out, by a slot or by the cancelled context.
StopEnds == stop = "waiting" ~> stop = "done"

-----------------------------------------------------------------------------
(* What the documentation says, and the code does not do. *)

\* sched/scheduler.go:196 "Stop cancels all loops and waits for in-flight scans
\* to finish": when Stop has returned, no scan is in flight.
StopWaitsForScans == stop = "done" => \A g \in Goroutines : ~InFlight(g)
=============================================================================
