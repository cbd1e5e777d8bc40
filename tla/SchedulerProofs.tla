-------------------------- MODULE SchedulerProofs --------------------------
(***************************************************************************)
(* The safety properties of Scheduler, for every number of targets,        *)
(* workers, callers and goroutines.                                        *)
(*                                                                         *)
(* None of them is inductive as it stands.  That Stop returns after the    *)
(* sweeps rests on what s.wg counts (WgCounts); that sem and wg never fall *)
(* below zero rests on the sets they count; and that a target's first scan *)
(* comes rests on who owes it (Pending), where a target that was never     *)
(* attempted must be shown not to back off.                                *)
(***************************************************************************)
EXTENDS Scheduler, FiniteSetTheorems, TLAPS

Running == {g \in Goroutines : scans[g].pc = "collect"}

\* What s.wg counts: the loop and the scans that no ScanNow call waits for.
Counted == {g \in Goroutines : InFlight(g) /\ scans[g].by \notin Callers}
LoopCount == IF loop \in {"none", "done"} THEN 0 ELSE 1
WgCounts == wg = LoopCount + Cardinality(Counted)

Phases ==
    /\ loop = "none" <=> ctx = "none"
    /\ stop # "none" => ctx = "cancelled"

\* Before Start no sweep has scanned anything and nothing backs off.
Fresh(t) == /\ gate[t] <= 0
            /\ \A g \in Goroutines : InFlight(g) /\ scans[g].target = t
                                        => scans[g].by # "sweep"
BeforeStart == ctx = "none" => \A t \in Targets : Fresh(t)

\* The sweep that is about to begin, or that has begun, will attempt t.
Coming(t) == /\ loop = "sweep" \/ (loop = "spawn" /\ t \in todo)
             /\ Fresh(t)

\* Every target was attempted, or its first scan is owed.
Pending == \A t \in targets :
              t \in attempted \/ FirstScanDue(t) \/ ctx # "live" \/ Coming(t)

SchedulerInv ==
    /\ TypeOK
    /\ SlotsConserved
    /\ WgCounts
    /\ Phases
    /\ SweepsEndWithStop
    /\ BackoffFits
    /\ BeforeStart
    /\ Pending

-----------------------------------------------------------------------------
(* Counting. *)

\* A further goroutine makes a set of goroutines larger by one.
LEMMA OneMore ==
    ASSUME NEW S \in SUBSET Goroutines, NEW g \in Goroutines, g \notin S
    PROVE  Cardinality(S \cup {g}) = Cardinality(S) + 1
BY SchedulerAssumption, FS_Subset, FS_AddElement DEF SchedulerAssumption

\* A set that loses a goroutine was not empty and is smaller by one.
LEMMA OneLess ==
    ASSUME NEW S \in SUBSET Goroutines, NEW g \in S
    PROVE  /\ Cardinality(S \ {g}) = Cardinality(S) - 1
           /\ Cardinality(S) \in Nat \ {0}
<1>1. IsFiniteSet(S)
  BY SchedulerAssumption, FS_Subset DEF SchedulerAssumption
<1>2. Cardinality(S \ {g}) = Cardinality(S) - 1
  BY <1>1, FS_RemoveElement
<1>3. Cardinality(S) \in Nat /\ Cardinality(S \ {g}) \in Nat
  BY <1>1, FS_CardinalityType, FS_RemoveElement
<1> QED
  BY <1>2, <1>3

\* Any set of goroutines has a natural number of members, none if it is empty.
LEMMA HowMany ==
    ASSUME NEW S \in SUBSET Goroutines
    PROVE  /\ Cardinality(S) \in Nat
           /\ Cardinality(S) = 0 <=> S = {}
<1>1. IsFiniteSet(S)
  BY SchedulerAssumption, FS_Subset DEF SchedulerAssumption
<1> QED
  BY <1>1, FS_CardinalityType, FS_EmptySet

-----------------------------------------------------------------------------
(* backoffFor. *)

\* A set of the positions 1 to n that has 1, and with each position the next,
\* has them all: of those up to one it lacks, to step back leaves out the last.
LEMMA UpToAny ==
    ASSUME NEW n \in Nat \ {0}, NEW Good \in SUBSET (1 .. n), 1 \in Good,
           \A m \in Good : m # n => m + 1 \in Good
    PROVE  Good = 1 .. n
<1> SUFFICES ASSUME NEW p \in 1 .. n, p \notin Good PROVE FALSE
  OBVIOUS
<1> DEFINE Bad  == {q \in 1 .. n : q <= p /\ q \notin Good}
           back == [q \in Bad |-> q - 1]
<1>1. IsFiniteSet(Bad)
  <2>1. IsFiniteSet(1 .. n)
    BY FS_Interval
  <2> QED BY <2>1, FS_Subset
<1>2. ASSUME NEW q \in Bad PROVE q - 1 \in Bad
  <2>1. q # 1 /\ q - 1 \in 1 .. n /\ q - 1 <= p /\ q - 1 # n /\ (q - 1) + 1 = q
    OBVIOUS
  <2> QED BY <2>1
<1>3. back \in Injection(Bad, Bad)
  <2>1. \A q, r \in Bad : back[q] = back[r] => q = r
    OBVIOUS
  <2> QED BY <1>2, <2>1 DEF Injection, IsInjective
<1>4. back \in Surjection(Bad, Bad)
  <2> HIDE DEF Bad, back
  <2> QED BY <1>1, <1>3, FS_Injection
<1>5. PICK q \in Bad : back[q] = p
  <2>1. p \in Bad
    OBVIOUS
  <2> HIDE DEF Bad, back
  <2> QED BY <1>4, <2>1 DEF Surjection
<1> QED BY <1>5

\* What the loop has in d at the top of each pass.
Doubled(n) ==
    CHOOSE doubled : doubled = [i \in 1 .. n |-> IF i = 1 THEN RetryBase
                                                 ELSE AtMost(2 * doubled[i - 1])]

\* That f is what the loop has in d in the first n passes.
IsDoubled(f, n) ==
    f = [i \in 1 .. n |-> IF i = 1 THEN RetryBase ELSE AtMost(2 * f[i - 1])]

\* A delay cut to RetryMax is a delay.
LEMMA AtMostType == ASSUME NEW d \in Nat PROVE AtMost(d) \in Nat /\ AtMost(d) <= RetryMax
  BY SchedulerAssumption DEF SchedulerAssumption, AtMost

\* However often it runs, the loop has a number of ticks in d.
LEMMA LoopRuns ==
    ASSUME NEW n \in Nat \ {0}
    PROVE  \E f \in [1 .. n -> Nat] : IsDoubled(f, n)
<1> DEFINE Good == {m \in 1 .. n : \E f \in [1 .. m -> Nat] : IsDoubled(f, m)}
<1>1. 1 \in Good
  <2> DEFINE f == [i \in 1 .. 1 |-> RetryBase]
  <2>1. f \in [1 .. 1 -> Nat] /\ \A i \in 1 .. 1 : i = 1
    BY SchedulerAssumption DEF SchedulerAssumption
  <2>2. IsDoubled(f, 1)
    BY <2>1 DEF IsDoubled
  <2> QED BY <2>1, <2>2
<1>2. ASSUME NEW m \in Good, m # n PROVE m + 1 \in Good
  <2>1. PICK f \in [1 .. m -> Nat] : IsDoubled(f, m)
    OBVIOUS
  <2>2. m \in 1 .. m /\ m + 1 \in 1 .. n /\ m + 1 # 1
    BY <1>2
  <2> DEFINE d == AtMost(2 * f[m])
             g == [i \in 1 .. m + 1 |-> IF i = m + 1 THEN d ELSE f[i]]
  <2>3. d \in Nat
    <3>1. 2 * f[m] \in Nat
      BY <2>2
    <3> QED BY <3>1, AtMostType
  <2>4. ASSUME NEW i \in 1 .. m + 1
        PROVE  /\ g[i] \in Nat
               /\ g[i] = IF i = 1 THEN RetryBase ELSE AtMost(2 * g[i - 1])
    <3>1. CASE i = m + 1
      <4>1. i # 1 /\ i - 1 = m /\ m \in 1 .. m + 1 /\ m # m + 1
        BY <2>2, <3>1
      <4>2. g[i] = d /\ g[i - 1] = f[m]
        BY <3>1, <4>1
      <4> QED BY <2>3, <4>1, <4>2
    <3>2. CASE i # m + 1
      <4>1. i \in 1 .. m
        BY <2>2, <3>2
      <4>2. g[i] = f[i] /\ f[i] = IF i = 1 THEN RetryBase ELSE AtMost(2 * f[i - 1])
        BY <2>1, <3>2, <4>1 DEF IsDoubled
      <4>3. i # 1 => i - 1 \in 1 .. m + 1 /\ i - 1 # m + 1
        BY <4>1
      <4>4. i # 1 => g[i - 1] = f[i - 1]
        BY <4>3
      <4> HIDE DEF g
      <4> QED BY <4>1, <4>2, <4>4
    <3> QED BY <3>1, <3>2
  <2>5. DOMAIN g = 1 .. m + 1 /\ g = [i \in 1 .. m + 1 |-> g[i]]
    OBVIOUS
  <2> HIDE DEF g
  <2>6. g \in [1 .. m + 1 -> Nat] /\ IsDoubled(g, m + 1)
    BY <2>4, <2>5 DEF IsDoubled
  <2> QED BY <2>2, <2>6
<1> HIDE DEF Good
<1>3. Good = 1 .. n
  <2>1. Good \in SUBSET (1 .. n)
    BY DEF Good
  <2> QED BY <1>1, <1>2, <2>1, UpToAny
<1>4. n \in Good
  BY <1>3
<1> QED BY <1>4 DEF Good

\* No two loops differ.
LEMMA LoopIsOne ==
    ASSUME NEW n \in Nat \ {0}, NEW m \in 1 .. n, NEW f, NEW g, IsDoubled(f, n), IsDoubled(g, m)
    PROVE  \A i \in 1 .. m : f[i] = g[i]
<1> DEFINE Good == {i \in 1 .. m : f[i] = g[i]}
<1>1. 1 \in Good
  BY DEF IsDoubled
<1>2. ASSUME NEW i \in Good, i # m PROVE i + 1 \in Good
  <2>1. i + 1 \in 1 .. m /\ i + 1 \in 1 .. n /\ i + 1 # 1 /\ (i + 1) - 1 = i
    BY <1>2
  <2>2. f[i + 1] = AtMost(2 * f[i]) /\ g[i + 1] = AtMost(2 * g[i])
    BY <2>1 DEF IsDoubled
  <2> QED BY <2>1, <2>2
<1>3. Good = 1 .. m
  <2>1. Good \in SUBSET (1 .. m) /\ m \in Nat \ {0}
    OBVIOUS
  <2> HIDE DEF Good
  <2> QED BY <1>1, <1>2, <2>1, UpToAny
<1> QED BY <1>3

\* The loop as it runs.
LEMMA DoubledFacts ==
    ASSUME NEW n \in Nat \ {0}
    PROVE  /\ Doubled(n) \in [1 .. n -> Nat]
           /\ IsDoubled(Doubled(n), n)
           /\ BackoffFor(n) = AtMost(Doubled(n)[n])
<1>1. PICK f \in [1 .. n -> Nat] : IsDoubled(f, n)
  BY LoopRuns
<1>2. IsDoubled(Doubled(n), n)
  <2>1. \E g : g = [i \in 1 .. n |-> IF i = 1 THEN RetryBase ELSE AtMost(2 * g[i - 1])]
    BY <1>1 DEF IsDoubled
  <2> QED BY <2>1 DEF Doubled, IsDoubled
<1>3. \A i \in 1 .. n : Doubled(n)[i] = f[i]
  BY <1>1, <1>2, LoopIsOne
<1>4. Doubled(n) = f
  BY <1>1, <1>2, <1>3 DEF IsDoubled
<1>5. BackoffFor(n) = AtMost(Doubled(n)[n])
  BY DEF BackoffFor, Doubled
<1> QED BY <1>1, <1>2, <1>4, <1>5

\* A first failure costs RetryBase, each further one twice what the one before
\* did, and none more than RetryMax (backoffFor).
THEOREM BackoffDoubles ==
    /\ BackoffFor(1) = AtMost(RetryBase)
    /\ \A n \in Nat \ {0} :
           /\ BackoffFor(n) \in 1 .. RetryMax
           /\ BackoffFor(n + 1) = AtMost(2 * BackoffFor(n))
<1> USE SchedulerAssumption DEF SchedulerAssumption
<1>1. BackoffFor(1) = AtMost(RetryBase)
  BY DoubledFacts DEF IsDoubled
<1>2. ASSUME NEW n \in Nat \ {0} PROVE BackoffFor(n + 1) = AtMost(2 * BackoffFor(n))
  <2> DEFINE d == Doubled(n)[n]
  <2>1. /\ n + 1 \in Nat \ {0} /\ n \in 1 .. n + 1 /\ n \in 1 .. n
        /\ n + 1 \in 1 .. n + 1 /\ n + 1 # 1 /\ (n + 1) - 1 = n
    OBVIOUS
  <2>2. d \in Nat /\ BackoffFor(n) = AtMost(d)
    BY <2>1, DoubledFacts
  <2>3. Doubled(n + 1)[n] = d
    BY <2>1, DoubledFacts, LoopIsOne
  <2>4. Doubled(n + 1)[n + 1] = AtMost(2 * Doubled(n + 1)[n])
    BY <2>1, DoubledFacts DEF IsDoubled
  <2>5. BackoffFor(n + 1) = AtMost(AtMost(2 * d))
    BY <2>1, <2>3, <2>4, DoubledFacts
  <2> HIDE DEF d
  <2>6. AtMost(AtMost(2 * d)) = AtMost(2 * AtMost(d))
    BY <2>2 DEF AtMost
  <2> QED BY <2>2, <2>5, <2>6
<1>3. ASSUME NEW n \in Nat \ {0} PROVE BackoffFor(n) \in 1 .. RetryMax
  <2> DEFINE Good == {m \in 1 .. n : BackoffFor(m) \in 1 .. RetryMax}
  <2>1. 1 \in Good
    BY <1>1 DEF AtMost
  <2>2. ASSUME NEW m \in Good, m # n PROVE m + 1 \in Good
    <3>1. m + 1 \in 1 .. n /\ BackoffFor(m + 1) = AtMost(2 * BackoffFor(m)) /\ BackoffFor(m) \in 1 .. RetryMax
      BY <1>2, <2>2
    <3> QED BY <3>1 DEF AtMost
  <2>3. Good = 1 .. n
    <3>1. Good \in SUBSET (1 .. n)
      OBVIOUS
    <3> HIDE DEF Good
    <3> QED BY <2>1, <2>2, <3>1, UpToAny
  <2> QED BY <2>3
<1> QED BY <1>1, <1>2, <1>3

\* A backoff is a number of ticks, at most RetryMax.
LEMMA BackoffBounded ==
    ASSUME NEW n \in 1 .. MaxFailures
    PROVE  BackoffFor(n) \in {d \in Int : d <= RetryMax}
<1>1. n \in Nat \ {0}
  BY SchedulerAssumption DEF SchedulerAssumption
<1> QED BY <1>1, BackoffDoubles, SchedulerAssumption DEF SchedulerAssumption

-----------------------------------------------------------------------------
(* Types. *)

\* The initial state is typed.
LEMMA TypeInit == Init => TypeOK
<1> SUFFICES ASSUME Init PROVE TypeOK
  OBVIOUS
<1>1. SomeTarget \in Targets
  BY SchedulerAssumption DEF SomeTarget, SchedulerAssumption
<1> QED
  BY <1>1, SchedulerAssumption
     DEF Init, TypeOK, SchedulerAssumption, ScanState, AddState, NowState,
         IdleScan, IdleAdd, IdleNow, NewScan

\* A new goroutine is a scan that waits for its slot, where there was none.
LEMMA LaunchFacts ==
    ASSUME TypeOK, NEW t \in Targets, NEW by \in {"sweep", "add"} \cup Callers,
           Launch(t, by)
    PROVE  \E g \in Goroutines :
              /\ scans[g].pc = "idle"
              /\ scans' = [scans EXCEPT ![g] = NewScan(t, by)]
              /\ scans' \in [Goroutines -> ScanState]
              /\ attempted' = attempted \cup {t}
              /\ sem' = sem
<1>1. PICK g \in Goroutines : /\ scans[g].pc = "idle"
                              /\ scans' = [scans EXCEPT ![g] = NewScan(t, by)]
                              /\ attempted' = attempted \cup {t}
                              /\ UNCHANGED sem
  BY DEF Launch
<1>2. NewScan(t, by) \in ScanState
  BY DEF NewScan, ScanState
<1>3. scans' \in [Goroutines -> ScanState]
  BY <1>1, <1>2 DEF TypeOK
<1> QED
  BY <1>1, <1>3

\* The slot a scan gives back was taken, and the count it leaves included it.
LEMMA ScanIsCounted ==
    ASSUME TypeOK, SlotsConserved, WgCounts, NEW g \in Goroutines
    PROVE  /\ scans[g].pc = "collect" => sem > 0
           /\ InFlight(g) /\ scans[g].by \notin Callers => wg - 1 \in Nat
<1>1. Running \in SUBSET Goroutines /\ Counted \in SUBSET Goroutines
  BY DEF Running, Counted
<1>2. ASSUME scans[g].pc = "collect"
      PROVE  sem > 0
  <2>1. g \in Running
    BY <1>2 DEF Running
  <2>2. Cardinality(Running) \in Nat \ {0}
    BY <1>1, <2>1, OneLess
  <2>3. sem = Cardinality(Running)
    BY DEF SlotsConserved, Running
  <2> QED
    BY <2>2, <2>3
<1>3. ASSUME InFlight(g), scans[g].by \notin Callers
      PROVE  wg - 1 \in Nat
  <2>1. g \in Counted
    BY <1>3 DEF Counted
  <2>2. Cardinality(Counted) \in Nat \ {0}
    BY <1>1, <2>1, OneLess
  <2> QED
    BY <2>2 DEF WgCounts, LoopCount
<1> QED
  BY <1>2, <1>3

\* A step keeps the types: what End and Settle give back had been taken.
LEMMA TypeStep ==
    ASSUME TypeOK, SlotsConserved, WgCounts, [Next]_vars
    PROVE  TypeOK'
<1> USE SchedulerAssumption DEF SchedulerAssumption, pool, book
<1>1. ASSUME NEW g \in Goroutines, Acquire(g)
      PROVE  TypeOK'
  BY <1>1 DEF TypeOK, Acquire, ScanState
<1>2. ASSUME NEW g \in Goroutines, GiveUp(g)
      PROVE  TypeOK'
  BY <1>2 DEF TypeOK, GiveUp, ScanState
<1>3. ASSUME NEW g \in Goroutines, NEW failed \in BOOLEAN, End(g, failed)
      PROVE  TypeOK'
  <2>1. scans' \in [Goroutines -> ScanState]
    <3>1. [scans[g] EXCEPT !.pc = "settle", !.failed = failed] \in ScanState
      BY DEF TypeOK, ScanState
    <3>2. scans' = [scans EXCEPT ![g] = [scans[g] EXCEPT !.pc = "settle", !.failed = failed]]
      BY <1>3 DEF End, TypeOK
    <3> QED
      BY <3>1, <3>2 DEF TypeOK
  <2>2. sem' \in 0 .. Workers
    <3>1. sem > 0
      BY <1>3, ScanIsCounted DEF End
    <3>2. sem' = sem - 1 /\ sem \in 0 .. Workers
      BY <1>3 DEF End, TypeOK
    <3> QED
      BY <3>1, <3>2
  <2> QED
    BY <1>3, <2>1, <2>2 DEF TypeOK, End
<1>4. ASSUME NEW g \in Goroutines, Settle(g)
      PROVE  TypeOK'
  <2> DEFINE t == scans[g].target
             n == IF failures[t] < MaxFailures THEN failures[t] + 1 ELSE MaxFailures
  <2>1. t \in Targets /\ failures[t] \in 0 .. MaxFailures
    BY DEF TypeOK, ScanState
  <2>2. n \in 1 .. MaxFailures
    BY <2>1
  <2>3. BackoffFor(n) \in {d \in Int : d <= RetryMax} /\ 0 \in {d \in Int : d <= RetryMax}
    BY <2>2, BackoffBounded
  <2>4. failures' \in [Targets -> 0 .. MaxFailures]
    BY <1>4, <2>1, <2>2 DEF TypeOK, Settle
  <2>5. gate' \in [Targets -> {d \in Int : d <= RetryMax}]
    <3> HIDE DEF n
    <3>1. gate' = IF scans[g].by # "sweep" THEN gate
                  ELSE [gate EXCEPT ![t] = IF scans[g].failed THEN BackoffFor(n) ELSE 0]
      BY <1>4 DEF Settle, n
    <3> QED
      BY <3>1, <2>1, <2>3 DEF TypeOK
  <2>6. wg' \in Nat
    BY <1>4, ScanIsCounted DEF TypeOK, Settle, InFlight
  <2>7. IdleScan \in ScanState
    BY DEF IdleScan, ScanState, SomeTarget
  <2>8. scans' \in [Goroutines -> ScanState]
    BY <1>4, <2>7 DEF TypeOK, Settle
  <2> QED
    BY <1>4, <2>4, <2>5, <2>6, <2>8 DEF TypeOK, Settle
<1>5. ASSUME Start \/ Sweep \/ EndSweep \/ NextSweep \/ Cancel \/ Stop \/ StopReturns
      PROVE  TypeOK'
  BY <1>5 DEF TypeOK, Start, Sweep, EndSweep, NextSweep, Cancel, Stop, StopReturns
<1>6. ASSUME NEW t \in Targets, Skip(t) \/ RemoveTarget(t)
      PROVE  TypeOK'
  BY <1>6 DEF TypeOK, Skip, RemoveTarget, Change
<1>7. ASSUME NEW t \in Targets, Spawn(t)
      PROVE  TypeOK'
  <2>1. /\ scans' \in [Goroutines -> ScanState]
        /\ attempted' = attempted \cup {t}
        /\ sem' = sem
    BY <1>7, LaunchFacts DEF Spawn
  <2> QED
    BY <1>7, <2>1 DEF TypeOK, Spawn
<1>8. ASSUME LoopReturns
      PROVE  TypeOK'
  <2>1. wg' \in Nat
    BY <1>8, HowMany DEF LoopReturns, WgCounts, LoopCount, TypeOK, Counted
  <2> QED
    BY <1>8, <2>1 DEF TypeOK, LoopReturns
<1>9. ASSUME Tick
      PROVE  TypeOK'
  BY <1>9 DEF TypeOK, Tick
<1>10. ASSUME NEW a \in Adders, NEW t \in Targets, Insert(a, t)
       PROVE  TypeOK'
  BY <1>10 DEF TypeOK, Insert, Change, AddState
<1>11. ASSUME NEW a \in Adders, Check(a)
       PROVE  TypeOK'
  <2>1. IdleAdd \in AddState
    BY DEF IdleAdd, AddState, SomeTarget
  <2>2. add' \in [Adders -> AddState]
    BY <1>11, <2>1 DEF TypeOK, Check, AddState
  <2> QED
    BY <1>11, <2>2 DEF TypeOK, Check
<1>12. ASSUME NEW a \in Adders, FirstScan(a)
       PROVE  TypeOK'
  <2>1. add[a].target \in Targets
    BY DEF TypeOK, AddState
  <2>2. /\ scans' \in [Goroutines -> ScanState]
        /\ attempted' = attempted \cup {add[a].target}
        /\ sem' = sem
    BY <1>12, <2>1, LaunchFacts DEF FirstScan
  <2>3. IdleAdd \in AddState
    BY DEF IdleAdd, AddState, SomeTarget
  <2> QED
    BY <1>12, <2>1, <2>2, <2>3 DEF TypeOK, FirstScan
<1>13. ASSUME NEW c \in Callers, ScanNow(c) \/ RequestEnds(c) \/ ScanNowReturns(c)
       PROVE  TypeOK'
  <2>1. [pc |-> "spawn", todo |-> targets, gone |-> FALSE] \in NowState /\ IdleNow \in NowState
    BY DEF TypeOK, NowState, IdleNow
  <2>2. CASE ScanNow(c)
    BY <2>1, <2>2 DEF TypeOK, ScanNow, Change
  <2>3. CASE RequestEnds(c)
    BY <2>3 DEF TypeOK, RequestEnds, NowState
  <2>4. CASE ScanNowReturns(c)
    BY <2>1, <2>4 DEF TypeOK, ScanNowReturns
  <2> QED
    BY <1>13, <2>2, <2>3, <2>4
<1>14. ASSUME NEW c \in Callers, NEW t \in Targets, SpawnNow(c, t)
       PROVE  TypeOK'
  <2>1. /\ scans' \in [Goroutines -> ScanState]
        /\ attempted' = attempted \cup {t}
        /\ sem' = sem
    BY <1>14, LaunchFacts DEF SpawnNow
  <2>2. now' \in [Callers -> NowState]
    BY <1>14 DEF TypeOK, SpawnNow, NowState
  <2> QED
    BY <1>14, <2>1, <2>2 DEF TypeOK, SpawnNow
<1>15. ASSUME UNCHANGED vars
       PROVE  TypeOK'
  BY <1>15 DEF TypeOK, vars
<1> QED
  BY <1>1, <1>2, <1>3, <1>4, <1>5, <1>6, <1>7, <1>8, <1>9, <1>10, <1>11, <1>12, <1>13,
     <1>14, <1>15 DEF Next, ScanStep, LoopStep

-----------------------------------------------------------------------------
(* The slots. *)

\* s.sem holds a token for every scan that runs, whatever the step.
LEMMA SlotsStep ==
    ASSUME TypeOK, SlotsConserved, [Next]_vars
    PROVE  SlotsConserved'
<1> USE DEF pool, book
<1>1. Running \in SUBSET Goroutines /\ sem = Cardinality(Running)
  BY DEF Running, SlotsConserved
<1>2. SUFFICES sem' = Cardinality(Running')
  BY DEF Running, SlotsConserved
<1>3. CASE sem' = sem /\ Running' = Running
  BY <1>1, <1>3
<1>4. ASSUME NEW g \in Goroutines, Acquire(g)
      PROVE  sem' = Cardinality(Running')
  <2>1. g \notin Running /\ Running' = Running \cup {g}
    BY <1>4 DEF Acquire, Running, TypeOK
  <2> QED
    BY <1>1, <1>4, <2>1, OneMore DEF Acquire
<1>5. ASSUME NEW g \in Goroutines, NEW failed \in BOOLEAN, End(g, failed)
      PROVE  sem' = Cardinality(Running')
  <2>1. g \in Running /\ Running' = Running \ {g}
    BY <1>5 DEF End, Running, TypeOK
  <2> QED
    BY <1>1, <1>5, <2>1, OneLess DEF End
<1>6. ASSUME NEW g \in Goroutines, GiveUp(g) \/ Settle(g)
      PROVE  sem' = sem /\ Running' = Running
  <2>1. CASE GiveUp(g)
    BY <2>1 DEF GiveUp, Running, TypeOK
  <2>2. CASE Settle(g)
    BY <2>2 DEF Settle, Running, TypeOK, IdleScan
  <2> QED
    BY <1>6, <2>1, <2>2
<1>7. ASSUME NEW t \in Targets, NEW by \in {"sweep", "add"} \cup Callers, Launch(t, by)
      PROVE  sem' = sem /\ Running' = Running
  BY <1>7, LaunchFacts DEF Running, TypeOK, NewScan
<1>8. ASSUME NEW t \in Targets, Spawn(t)
      PROVE  sem' = sem /\ Running' = Running
  BY <1>7, <1>8 DEF Spawn
<1>9. ASSUME NEW a \in Adders, FirstScan(a)
      PROVE  sem' = sem /\ Running' = Running
  BY <1>7, <1>9 DEF FirstScan, TypeOK, AddState
<1>10. ASSUME NEW c \in Callers, NEW t \in Targets, SpawnNow(c, t)
       PROVE  sem' = sem /\ Running' = Running
  BY <1>7, <1>10 DEF SpawnNow
<1>11. CASE UNCHANGED <<scans, sem>>
  BY <1>3, <1>11 DEF Running
<1> QED
  BY <1>3, <1>4, <1>5, <1>6, <1>8, <1>9, <1>10, <1>11
     DEF Next, ScanStep, LoopStep, Start, Sweep, Skip, EndSweep, NextSweep, LoopReturns,
         Tick, Insert, Check, RemoveTarget, ScanNow, RequestEnds, ScanNowReturns,
         Cancel, Stop, StopReturns, vars

-----------------------------------------------------------------------------
(* What Stop waits for. *)

\* s.wg counts the loop and the scans of its sweeps and of AddTarget.
LEMMA WgStep ==
    ASSUME TypeOK, WgCounts, Phases, [Next]_vars
    PROVE  WgCounts'
<1> USE DEF pool, book
<1>1. Counted \in SUBSET Goroutines /\ Cardinality(Counted) \in Nat
  BY HowMany DEF Counted
<1>2. wg = LoopCount + Cardinality(Counted) /\ LoopCount \in Nat
  BY DEF WgCounts, LoopCount
<1>3. SUFFICES wg' = LoopCount' + Cardinality(Counted')
  BY DEF WgCounts
<1>4. ASSUME NEW g \in Goroutines,
             Acquire(g) \/ GiveUp(g) \/ \E failed \in BOOLEAN : End(g, failed)
      PROVE  wg' = wg /\ Counted' = Counted /\ LoopCount' = LoopCount
  <2>1. CASE Acquire(g)
    BY <2>1 DEF Acquire, Counted, InFlight, LoopCount, TypeOK
  <2>2. CASE GiveUp(g)
    BY <2>2 DEF GiveUp, Counted, InFlight, LoopCount, TypeOK
  <2>3. CASE \E failed \in BOOLEAN : End(g, failed)
    BY <2>3 DEF End, Counted, InFlight, LoopCount, TypeOK
  <2> QED
    BY <1>4, <2>1, <2>2, <2>3
<1>5. ASSUME NEW g \in Goroutines, Settle(g)
      PROVE  wg' = LoopCount' + Cardinality(Counted')
  <2>1. Counted' = Counted \ {g} /\ LoopCount' = LoopCount
    BY <1>5 DEF Settle, Counted, InFlight, LoopCount, TypeOK, IdleScan
  <2>2. CASE scans[g].by \in Callers
    <3>1. g \notin Counted /\ wg' = wg
      BY <1>5, <2>2 DEF Settle, Counted
    <3> QED
      BY <1>2, <2>1, <3>1
  <2>3. CASE scans[g].by \notin Callers
    <3>1. g \in Counted /\ wg' = wg - 1
      BY <1>5, <2>3 DEF Settle, Counted, InFlight
    <3> QED
      BY <1>1, <1>2, <2>1, <3>1, OneLess
  <2> QED
    BY <2>2, <2>3
<1>6. ASSUME NEW t \in Targets, NEW by \in {"sweep", "add"}, Launch(t, by),
             wg' = wg + 1, UNCHANGED loop
      PROVE  wg' = LoopCount' + Cardinality(Counted')
  <2>1. PICK g \in Goroutines : /\ scans[g].pc = "idle"
                                /\ scans' = [scans EXCEPT ![g] = NewScan(t, by)]
    BY <1>6, LaunchFacts
  <2>2. g \notin Counted /\ Counted' = Counted \cup {g}
    BY <2>1, SchedulerAssumption
       DEF Counted, InFlight, TypeOK, NewScan, SchedulerAssumption
  <2>3. LoopCount' = LoopCount
    BY <1>6 DEF LoopCount
  <2> QED
    BY <1>1, <1>2, <1>6, <2>2, <2>3, OneMore
<1>7. ASSUME NEW t \in Targets, Spawn(t)
      PROVE  wg' = LoopCount' + Cardinality(Counted')
  BY <1>6, <1>7 DEF Spawn
<1>8. ASSUME NEW a \in Adders, FirstScan(a)
      PROVE  wg' = LoopCount' + Cardinality(Counted')
  BY <1>6, <1>8 DEF FirstScan, TypeOK, AddState
<1>9. ASSUME NEW c \in Callers, NEW t \in Targets, SpawnNow(c, t)
      PROVE  wg' = wg /\ Counted' = Counted /\ LoopCount' = LoopCount
  <2>1. PICK g \in Goroutines : /\ scans[g].pc = "idle"
                                /\ scans' = [scans EXCEPT ![g] = NewScan(t, c)]
    BY <1>9, LaunchFacts DEF SpawnNow
  <2> QED
    BY <1>9, <2>1 DEF SpawnNow, Counted, InFlight, TypeOK, NewScan, LoopCount
<1>10. ASSUME Start \/ LoopReturns
       PROVE  wg' = LoopCount' + Cardinality(Counted')
  <2>1. Counted' = Counted
    BY <1>10 DEF Start, LoopReturns, Counted, InFlight
  <2>2. wg' - LoopCount' = wg - LoopCount /\ LoopCount' \in Nat /\ wg' \in Int
    BY <1>10 DEF Start, LoopReturns, LoopCount, Phases, TypeOK
  <2> QED
    BY <1>1, <1>2, <2>1, <2>2
<1>11. CASE UNCHANGED <<scans, wg, LoopCount>>
  BY <1>2, <1>11 DEF Counted, InFlight
<1> QED
  <2>1. ASSUME Sweep \/ EndSweep \/ NextSweep
        PROVE  UNCHANGED <<scans, wg, LoopCount>>
    BY <2>1 DEF Sweep, EndSweep, NextSweep, LoopCount
  <2>2. ASSUME UNCHANGED <<scans, wg, loop>>
        PROVE  UNCHANGED <<scans, wg, LoopCount>>
    BY <2>2 DEF LoopCount
  <2> QED
    BY <1>2, <1>4, <1>5, <1>7, <1>8, <1>9, <1>10, <1>11, <2>1, <2>2
       DEF Next, ScanStep, LoopStep, Skip, Tick, Insert, Check, RemoveTarget, ScanNow,
           RequestEnds, ScanNowReturns, Cancel, Stop, StopReturns, vars

\* The phases of the loop, of the context and of Stop go together.
LEMMA PhasesStep ==
    ASSUME TypeOK, Phases, [Next]_vars
    PROVE  Phases'
<1> USE DEF pool, book
<1>1. CASE UNCHANGED <<loop, ctx, stop>>
  BY <1>1 DEF Phases
<1> QED
  BY <1>1 DEF Phases, TypeOK, Next, ScanStep, LoopStep, Acquire, GiveUp, End, Settle, Start,
         Sweep, Skip, Spawn, EndSweep, NextSweep, LoopReturns, Tick, Insert, Check, FirstScan,
         RemoveTarget, ScanNow, SpawnNow, RequestEnds, ScanNowReturns, Cancel, Stop,
         StopReturns, vars

\* Once s.wg is down to zero the loop has returned and no sweep's scan is left,
\* and nothing launches another.
LEMMA StopStep ==
    ASSUME TypeOK, WgCounts, Phases, SweepsEndWithStop, [Next]_vars
    PROVE  SweepsEndWithStop'
<1> USE SchedulerAssumption DEF SchedulerAssumption, pool, book
<1> DEFINE NoSweep == /\ loop = "done"
                      /\ \A g \in Goroutines : InFlight(g) => scans[g].by # "sweep"
<1>1. ASSUME StopReturns
      PROVE  NoSweep
  <2>1. Counted \in SUBSET Goroutines /\ Cardinality(Counted) \in Nat
    BY HowMany DEF Counted
  <2>2. LoopCount = 0 /\ Cardinality(Counted) = 0
    BY <1>1, <2>1 DEF StopReturns, WgCounts, LoopCount
  <2>3. Counted = {}
    BY <2>1, <2>2, HowMany
  <2>4. loop = "done"
    BY <1>1, <2>2 DEF StopReturns, LoopCount, Phases
  <2> QED
    BY <2>3, <2>4 DEF Counted
<1>2. ASSUME NoSweep
      PROVE  NoSweep'
  <2>1. ASSUME NEW t \in Targets, NEW by \in {"add"} \cup Callers, Launch(t, by), UNCHANGED loop
        PROVE  NoSweep'
    BY <1>2, <2>1, LaunchFacts DEF InFlight, TypeOK, NewScan
  <2>2. ASSUME NEW a \in Adders, FirstScan(a)
        PROVE  NoSweep'
    BY <2>1, <2>2 DEF FirstScan, TypeOK, AddState
  <2>3. ASSUME NEW c \in Callers, NEW t \in Targets, SpawnNow(c, t)
        PROVE  NoSweep'
    BY <2>1, <2>3 DEF SpawnNow
  <2>4. ASSUME NEW g \in Goroutines, ScanStep(g)
        PROVE  NoSweep'
    <3>1. CASE Acquire(g)
      BY <1>2, <3>1 DEF Acquire, InFlight, TypeOK
    <3>2. CASE GiveUp(g)
      BY <1>2, <3>2 DEF GiveUp, InFlight, TypeOK
    <3>3. CASE \E failed \in BOOLEAN : End(g, failed)
      BY <1>2, <3>3 DEF End, InFlight, TypeOK
    <3>4. CASE Settle(g)
      BY <1>2, <3>4 DEF Settle, InFlight, TypeOK, IdleScan
    <3> QED
      BY <2>4, <3>1, <3>2, <3>3, <3>4 DEF ScanStep
  <2>5. CASE UNCHANGED <<scans, loop>>
    BY <1>2, <2>5 DEF InFlight
  <2> QED
    BY <1>2, <2>2, <2>3, <2>4, <2>5
       DEF Phases, Next, LoopStep, Start, Sweep, Skip, Spawn, EndSweep, NextSweep, LoopReturns,
           Tick, Insert, Check, RemoveTarget, ScanNow, RequestEnds, ScanNowReturns, Cancel,
           Stop, StopReturns, vars
<1>3. ASSUME stop' = "done"
      PROVE  stop = "done" \/ StopReturns
  BY <1>3 DEF Next, ScanStep, LoopStep, Acquire, GiveUp, End, Settle, Start,
         Sweep, Skip, Spawn, EndSweep, NextSweep, LoopReturns, Tick, Insert, Check, FirstScan,
         RemoveTarget, ScanNow, SpawnNow, RequestEnds, ScanNowReturns, Cancel, Stop, vars
<1> QED
  BY <1>1, <1>2, <1>3 DEF SweepsEndWithStop, StopReturns, InFlight

-----------------------------------------------------------------------------
(* The books. *)

\* The gate and the count of failures of a target are written together.
LEMMA BackoffStep ==
    ASSUME TypeOK, BackoffFits, [Next]_vars
    PROVE  BackoffFits'
<1> USE SchedulerAssumption DEF SchedulerAssumption, pool, book
<1>1. ASSUME NEW g \in Goroutines, Settle(g)
      PROVE  BackoffFits'
  <2> DEFINE t == scans[g].target
             n == IF failures[t] < MaxFailures THEN failures[t] + 1 ELSE MaxFailures
  <2>1. t \in Targets /\ failures[t] \in 0 .. MaxFailures
    BY DEF TypeOK, ScanState
  <2>2. n \in 1 .. MaxFailures
    BY <2>1
  <2>3. BackoffFor(n) \in Int
    BY <2>2, BackoffBounded
  <2>4. CASE scans[g].by # "sweep"
    BY <1>1, <2>4 DEF Settle, BackoffFits
  <2>5. CASE scans[g].by = "sweep"
    <3>1. /\ failures' = [failures EXCEPT ![t] = IF scans[g].failed THEN n ELSE 0]
          /\ gate' = [gate EXCEPT ![t] = IF scans[g].failed THEN BackoffFor(n) ELSE 0]
      BY <1>1, <2>5 DEF Settle
    <3> HIDE DEF t, n
    <3> QED
      BY <2>1, <2>2, <2>3, <3>1 DEF BackoffFits, TypeOK
  <2> QED
    BY <2>4, <2>5
<1>2. ASSUME Tick
      PROVE  BackoffFits'
  <2>1. ASSUME NEW t \in Targets
        PROVE  gate'[t] <= gate[t] /\ gate'[t] \in Int /\ gate[t] \in Int
    BY <1>2 DEF Tick, TypeOK
  <2>2. ASSUME NEW t \in Targets, failures[t] # 0
        PROVE  BackoffFor(failures[t]) \in Int
    BY <2>2, BackoffBounded DEF TypeOK
  <2> QED
    BY <1>2, <2>1, <2>2 DEF Tick, BackoffFits
<1>3. CASE UNCHANGED <<failures, gate>>
  BY <1>3 DEF BackoffFits
<1> QED
  BY <1>1, <1>2, <1>3
     DEF Next, ScanStep, LoopStep, Acquire, GiveUp, End, Start, Sweep, Skip, Spawn, EndSweep,
         NextSweep, LoopReturns, Insert, Check, FirstScan, RemoveTarget, ScanNow, SpawnNow,
         RequestEnds, ScanNowReturns, Cancel, Stop, StopReturns, vars

-----------------------------------------------------------------------------
(* The first scan. *)

\* No step but the scan of a sweep makes a target back off, and only Spawn
\* puts a sweep's scan in flight.
LEMMA StaysFresh ==
    ASSUME TypeOK, [Next]_vars, NEW t \in Targets, Fresh(t), ~Spawn(t)
    PROVE  Fresh(t)'
<1> USE SchedulerAssumption DEF SchedulerAssumption, pool, book
<1>1. ASSUME NEW u \in Targets, NEW by \in {"sweep", "add"} \cup Callers, Launch(u, by),
             u # t \/ by # "sweep", UNCHANGED gate
      PROVE  Fresh(t)'
  BY <1>1, LaunchFacts DEF Fresh, InFlight, TypeOK, NewScan
<1>2. ASSUME NEW u \in Targets, Spawn(u)
      PROVE  Fresh(t)'
  BY <1>1, <1>2 DEF Spawn
<1>3. ASSUME NEW a \in Adders, FirstScan(a)
      PROVE  Fresh(t)'
  BY <1>1, <1>3 DEF FirstScan, TypeOK, AddState
<1>4. ASSUME NEW c \in Callers, NEW u \in Targets, SpawnNow(c, u)
      PROVE  Fresh(t)'
  BY <1>1, <1>4 DEF SpawnNow
<1>5. ASSUME NEW g \in Goroutines, Acquire(g)
      PROVE  Fresh(t)'
  BY <1>5 DEF Acquire, Fresh, InFlight, TypeOK
<1>6. ASSUME NEW g \in Goroutines, GiveUp(g)
      PROVE  Fresh(t)'
  BY <1>6 DEF GiveUp, Fresh, InFlight, TypeOK
<1>7. ASSUME NEW g \in Goroutines, NEW failed \in BOOLEAN, End(g, failed)
      PROVE  Fresh(t)'
  BY <1>7 DEF End, Fresh, InFlight, TypeOK
<1>8. ASSUME NEW g \in Goroutines, Settle(g)
      PROVE  Fresh(t)'
  <2>1. gate'[t] = gate[t]
    BY <1>8 DEF Settle, Fresh, InFlight, TypeOK, ScanState
  <2> QED
    BY <1>8, <2>1 DEF Settle, Fresh, InFlight, TypeOK, IdleScan
<1>9. ASSUME Tick
      PROVE  Fresh(t)'
  BY <1>9 DEF Tick, Fresh, InFlight, TypeOK
<1>10. CASE UNCHANGED <<scans, gate>>
  BY <1>10 DEF Fresh, InFlight
<1> QED
  BY <1>2, <1>3, <1>4, <1>5, <1>6, <1>7, <1>8, <1>9, <1>10
     DEF Next, ScanStep, LoopStep, Start, Sweep, Skip, EndSweep, NextSweep, LoopReturns,
         Insert, Check, RemoveTarget, ScanNow, RequestEnds, ScanNowReturns, Cancel, Stop,
         StopReturns, vars

\* No sweep has scanned anything before Start.
LEMMA BeforeStartStep ==
    ASSUME TypeOK, Phases, BeforeStart, [Next]_vars
    PROVE  BeforeStart'
<1> USE DEF pool, book
<1>1. SUFFICES ASSUME ctx' = "none", NEW t \in Targets
               PROVE  Fresh(t)'
  BY DEF BeforeStart
<1>2. ctx = "none"
  BY <1>1 DEF TypeOK, Next, ScanStep, LoopStep, Acquire, GiveUp, End, Settle, Start,
         Sweep, Skip, Spawn, EndSweep, NextSweep, LoopReturns, Tick, Insert, Check, FirstScan,
         RemoveTarget, ScanNow, SpawnNow, RequestEnds, ScanNowReturns, Cancel, Stop,
         StopReturns, vars
<1>3. ~Spawn(t)
  BY <1>2 DEF Phases, Spawn
<1> QED
  BY <1>2, <1>3, StaysFresh DEF BeforeStart

\* A first scan stays owed until it is launched or the context is cancelled.
LEMMA StaysDue ==
    ASSUME TypeOK, [Next]_vars, NEW t \in Targets, FirstScanDue(t), ctx' = "live"
    PROVE  FirstScanDue(t)' \/ t \in attempted'
<1> USE DEF pool, book
<1>1. PICK a \in Adders : /\ add[a].target = t
                          /\ \/ add[a].pc = "check" /\ add[a].live
                             \/ add[a].pc = "launch"
  BY DEF FirstScanDue
<1>2. ASSUME NEW b \in Adders, FirstScan(b)
      PROVE  FirstScanDue(t)' \/ t \in attempted'
  <2>1. add[b].target \in Targets
    BY DEF TypeOK, AddState
  <2>2. attempted' = attempted \cup {add[b].target}
    BY <1>2, <2>1, LaunchFacts DEF FirstScan
  <2>3. CASE b = a
    BY <1>1, <2>2, <2>3
  <2>4. CASE b # a
    <3>1. add'[a] = add[a]
      BY <1>2, <2>4 DEF FirstScan, TypeOK
    <3> QED
      BY <1>1, <3>1 DEF FirstScanDue
  <2> QED
    BY <2>3, <2>4
<1>3. ASSUME NEW b \in Adders, NEW u \in Targets, Insert(b, u)
      PROVE  FirstScanDue(t)'
  <2>1. add'[a] = add[a]
    BY <1>1, <1>3 DEF Insert, TypeOK
  <2> QED
    BY <1>1, <2>1 DEF FirstScanDue
<1>4. ASSUME NEW b \in Adders, Check(b)
      PROVE  FirstScanDue(t)'
  <2>1. ctx = "live"
    BY <1>4 DEF Check
  <2>2. CASE b = a
    <3>1. add'[a].pc = "launch" /\ add'[a].target = t
      BY <1>1, <1>4, <2>1, <2>2 DEF Check, TypeOK, AddState
    <3> QED
      BY <3>1 DEF FirstScanDue
  <2>3. CASE b # a
    <3>1. add'[a] = add[a]
      BY <1>4, <2>3 DEF Check, TypeOK
    <3> QED
      BY <1>1, <3>1 DEF FirstScanDue
  <2> QED
    BY <2>2, <2>3
<1>5. CASE UNCHANGED add
  BY <1>1, <1>5 DEF FirstScanDue
<1> QED
  BY <1>2, <1>3, <1>4, <1>5
     DEF Next, ScanStep, LoopStep, Acquire, GiveUp, End, Settle, Start, Sweep, Skip, Spawn,
         EndSweep, NextSweep, LoopReturns, Tick, RemoveTarget, ScanNow, SpawnNow, RequestEnds,
         ScanNowReturns, Cancel, Stop, StopReturns, vars

\* A target that a sweep is about to attempt is not skipped: it does not back
\* off and stays in the sweep's snapshot until it is attempted or removed.
LEMMA StaysComing ==
    ASSUME TypeOK, [Next]_vars, NEW t \in targets, Coming(t)
    PROVE  Coming(t)' \/ t \in attempted' \/ t \notin targets' \/ ctx' # "live"
                      \/ FirstScanDue(t)'
<1> USE DEF pool, book
<1>1. t \in Targets /\ Fresh(t)
  BY DEF TypeOK, Coming
<1>2. ASSUME Spawn(t)
      PROVE  t \in attempted'
  BY <1>1, <1>2, LaunchFacts DEF Spawn
<1>3. ASSUME ~Spawn(t)
      PROVE  loop' = "sweep" \/ (loop' = "spawn" /\ t \in todo')
  <2>1. ~Skip(t)
    BY <1>1 DEF Skip, Fresh, TypeOK
  <2>2. ~Start \/ loop' = "sweep"
    BY DEF Start
  <2>3. CASE Sweep
    BY <2>3 DEF Sweep
  <2>4. ASSUME NEW u \in Targets, Skip(u) \/ Spawn(u)
        PROVE  loop' = loop /\ (t \in todo => t \in todo')
    BY <1>3, <2>1, <2>4 DEF Skip, Spawn
  <2>5. ~EndSweep /\ ~NextSweep /\ ~LoopReturns
    BY DEF Coming, EndSweep, NextSweep, LoopReturns
  <2>6. CASE UNCHANGED <<loop, todo>>
    BY <2>6 DEF Coming
  <2> QED
    BY <2>2, <2>3, <2>4, <2>5, <2>6
       DEF Coming, Next, ScanStep, LoopStep, Acquire, GiveUp, End, Settle, Tick, Insert,
           Check, FirstScan, RemoveTarget, ScanNow, SpawnNow, RequestEnds, ScanNowReturns,
           Cancel, Stop, StopReturns, vars
<1>4. ASSUME ~Spawn(t)
      PROVE  Fresh(t)'
  BY <1>1, <1>4, StaysFresh
<1> QED
  BY <1>2, <1>3, <1>4 DEF Coming

\* A target that was attempted counts as such until it is added anew.
LEMMA StaysAttempted ==
    ASSUME TypeOK, [Next]_vars, NEW t \in attempted
    PROVE  t \in attempted' \/ \E a \in Adders : Insert(a, t)
<1> USE DEF pool, book
<1>1. ASSUME NEW u \in Targets, NEW by \in {"sweep", "add"} \cup Callers, Launch(u, by)
      PROVE  t \in attempted'
  BY <1>1, LaunchFacts
<1>2. ASSUME NEW a \in Adders, FirstScan(a)
      PROVE  t \in attempted'
  BY <1>1, <1>2 DEF FirstScan, TypeOK, AddState
<1>3. ASSUME NEW u \in Targets, Spawn(u)
      PROVE  t \in attempted'
  BY <1>1, <1>3 DEF Spawn
<1>4. ASSUME NEW c \in Callers, NEW u \in Targets, SpawnNow(c, u)
      PROVE  t \in attempted'
  BY <1>1, <1>4 DEF SpawnNow
<1>5. ASSUME NEW a \in Adders, NEW u \in Targets, Insert(a, u)
      PROVE  u = t \/ t \in attempted'
  BY <1>5 DEF Insert
<1>6. CASE UNCHANGED attempted
  BY <1>6
<1> QED
  BY <1>2, <1>3, <1>4, <1>5, <1>6
     DEF Next, ScanStep, LoopStep, Acquire, GiveUp, End, Settle, Start, Sweep, Skip, EndSweep,
         NextSweep, LoopReturns, Tick, Check, RemoveTarget, ScanNow, RequestEnds,
         ScanNowReturns, Cancel, Stop, StopReturns, vars

\* Whoever adds a target to a live scheduler owes it a first scan; a target
\* added before Start is left to the first sweep.
LEMMA PendingStep ==
    ASSUME TypeOK, Phases, BeforeStart, Pending, [Next]_vars
    PROVE  Pending'
<1> USE DEF pool, book
<1>1. SUFFICES ASSUME NEW t \in targets', t \notin attempted', ctx' = "live"
               PROVE  FirstScanDue(t)' \/ Coming(t)'
  BY DEF Pending
<1>2. CASE \E a \in Adders : Insert(a, t)
  <2>1. PICK a \in Adders : Insert(a, t)
    BY <1>2
  <2>2. /\ add'[a].target = t
        /\ add'[a].pc = "check"
        /\ add'[a].live
    BY <1>1, <2>1 DEF Insert, TypeOK
  <2> QED
    BY <2>2 DEF FirstScanDue
<1>3. CASE ~ \E a \in Adders : Insert(a, t)
  <2>1. t \in targets
    BY <1>1, <1>3
       DEF Next, ScanStep, LoopStep, Acquire, GiveUp, End, Settle, Start, Sweep, Skip, Spawn,
           EndSweep, NextSweep, LoopReturns, Tick, Insert, Check, FirstScan, RemoveTarget,
           ScanNow, SpawnNow, RequestEnds, ScanNowReturns, Cancel, Stop, StopReturns, vars
  <2>2. t \in Targets
    BY <2>1 DEF TypeOK
  <2>3. CASE t \in attempted
    BY <1>1, <1>3, <2>3, StaysAttempted
  <2>4. CASE FirstScanDue(t)
    BY <1>1, <2>2, <2>4, StaysDue
  <2>5. CASE Coming(t)
    BY <1>1, <2>1, <2>5, StaysComing
  <2>6. CASE ctx # "live"
    <3>1. Start
      BY <1>1, <2>6
         DEF Next, ScanStep, LoopStep, Acquire, GiveUp, End, Settle, Sweep, Skip, Spawn,
             EndSweep, NextSweep, LoopReturns, Tick, Insert, Check, FirstScan, RemoveTarget,
             ScanNow, SpawnNow, RequestEnds, ScanNowReturns, Cancel, Stop, StopReturns, vars
    <3>2. Fresh(t)'
      BY <2>2, <3>1 DEF Start, BeforeStart, Fresh, InFlight
    <3> QED
      BY <3>1, <3>2 DEF Start, Coming
  <2> QED
    BY <2>1, <2>3, <2>4, <2>5, <2>6 DEF Pending
<1> QED
  BY <1>2, <1>3

-----------------------------------------------------------------------------
(* The theorems. *)

\* The invariant holds at first.
LEMMA SchedulerInit == Init => SchedulerInv
<1> SUFFICES ASSUME Init PROVE SchedulerInv
  OBVIOUS
<1>1. TypeOK
  BY TypeInit
<1>2. \A g \in Goroutines : scans[g].pc = "idle"
  BY DEF Init, IdleScan
<1>3. Running = {} /\ Counted = {}
  BY <1>2 DEF Running, Counted, InFlight
<1>4. SlotsConserved
  BY <1>3, FS_EmptySet DEF SlotsConserved, Running, Init
<1>5. WgCounts
  BY <1>3, FS_EmptySet DEF WgCounts, LoopCount, Init
<1>6. \A t \in Targets : Fresh(t)
  BY <1>2 DEF Fresh, InFlight, Init
<1> QED
  BY <1>1, <1>4, <1>5, <1>6
     DEF SchedulerInv, Phases, SweepsEndWithStop, BackoffFits, BeforeStart, Pending, Init

\* Every step keeps it.
LEMMA SchedulerStep == SchedulerInv /\ [Next]_vars => SchedulerInv'
BY TypeStep, SlotsStep, WgStep, PhasesStep, StopStep, BackoffStep, BeforeStartStep, PendingStep
   DEF SchedulerInv

\* It holds of every behaviour.
LEMMA SchedulerAlways == Spec => []SchedulerInv
BY SchedulerInit, SchedulerStep, PTL DEF Spec

\* Every variable of the scheduler keeps its type: the slots taken stay between
\* 0 and Workers and no backoff exceeds RetryMax.
THEOREM TypeCorrect == Spec => []TypeOK
<1>1. SchedulerInv => TypeOK
  BY DEF SchedulerInv
<1> QED
  BY <1>1, SchedulerAlways, PTL

\* scanOne: the worker slots taken are those of the scans that run.
THEOREM SlotsAreConserved == Spec => []SlotsConserved
<1>1. SchedulerInv => SlotsConserved
  BY DEF SchedulerInv
<1> QED
  BY <1>1, SchedulerAlways, PTL

\* Stop: once it has returned there is no loop and no scan of a sweep.
THEOREM StopEndsSweeps == Spec => []SweepsEndWithStop
<1>1. SchedulerInv => SweepsEndWithStop
  BY DEF SchedulerInv
<1> QED
  BY <1>1, SchedulerAlways, PTL

\* AddTarget and moduleLoop: no target waits an interval for its first scan.
THEOREM FirstScanNotLate == Spec => []FirstValueNow
<1>1. SchedulerInv => FirstValueNow
  BY DEF SchedulerInv, Pending, FirstValueNow, Coming
<1> QED
  BY <1>1, SchedulerAlways, PTL

\* moduleLoop: a target backs off for its own failures and no longer.
THEOREM BackoffIsOwn == Spec => []BackoffFits
<1>1. SchedulerInv => BackoffFits
  BY DEF SchedulerInv
<1> QED
  BY <1>1, SchedulerAlways, PTL

=============================================================================
