--------------------------- MODULE TripPathsProofs ---------------------------
(***************************************************************************)
(* What the tables of TripPaths hold, for every value of its constants:    *)
(* type correctness, no trace of a burst without a trip of it stored       *)
(* (EvidenceFirst), and no count above twice the touches                   *)
(* (CountAtMostDouble).                                                    *)
(***************************************************************************)
EXTENDS TripPaths, FiniteSetTheorems, TLAPS

-----------------------------------------------------------------------------
(* The operators on one row. *)

\* Every writer of the finding table writes a row of the right shape.
LEMMA RowTypes ==
    ASSUME NEW prev \in Finding, NEW n \in Nat, NEW status \in UserStatuses
    PROVE  /\ Opened(n) \in Finding
           /\ Refreshed(prev, n) \in Finding
           /\ Missed(prev, ResolveAfter) \in Finding
           /\ Judged(prev, status) \in Finding
           /\ NoFinding \in Finding
<1>1. Opened(n) \in Finding
  BY DEF Finding, Statuses, Opened
<1>2. Refreshed(prev, n) \in Finding
  BY DEF Finding, Statuses, Refreshed
<1>3. Missed(prev, ResolveAfter) \in Finding
  <2>1. prev.streak + 1 \in Nat
    BY DEF Finding
  <2> QED BY <2>1 DEF Finding, Statuses, Missed
<1>4. Judged(prev, status) \in Finding
  BY DEF Finding, Statuses, UserStatuses, Judged
<1>5. NoFinding \in Finding
  BY DEF Finding, NoFinding
<1> QED BY <1>1, <1>2, <1>3, <1>4, <1>5

\* The armed fingerprint is no burst, and every burst is a fingerprint.
LEMMA BurstFacts ==
    /\ Armed \in Fingerprints
    /\ Bursts \subseteq Fingerprints
    /\ SomeBurst \in Bursts
    /\ \A k \in Keys : \A w \in 0 .. LastWindow : <<k, w>> \in Bursts
    /\ \A b \in Bursts : b[1] \in Keys /\ b[2] \in 0 .. LastWindow
    /\ Armed \notin Bursts
<1>1. Armed \in Fingerprints /\ Bursts \subseteq Fingerprints
  BY DEF Fingerprints
<1>2. \A k \in Keys : \A w \in 0 .. LastWindow : <<k, w>> \in Bursts
  BY DEF Bursts
<1>3. \A b \in Bursts : b[1] \in Keys /\ b[2] \in 0 .. LastWindow
  BY DEF Bursts
<1>4. SomeBurst \in Bursts
  <2>1. 0 \in 0 .. LastWindow
    BY TripPathsAssumption
  <2>2. PICK k \in Keys : TRUE
    BY TripPathsAssumption
  <2>3. <<k, 0>> \in Bursts
    BY <1>2, <2>1
  <2> QED BY <2>3 DEF SomeBurst
<1>5. Armed \notin Bursts
  BY <1>3, TripPathsAssumption DEF Armed
<1> QED BY <1>1, <1>2, <1>3, <1>4, <1>5

\* The idle states of the processes and the empty tables have their types.
LEMMA IdleTypes ==
    /\ NoTrips \in [Bursts -> Nat]
    /\ NoRows \in [Fingerprints -> Finding]
    /\ IdleRecord \in RecordState
    /\ IdleScan \in ScanState
    /\ IdleVerdict \in VerdictState
<1>1. NoTrips \in [Bursts -> Nat]
  BY DEF NoTrips
<1>2. NoFinding \in Finding
  BY DEF Finding, NoFinding
<1>3. NoRows \in [Fingerprints -> Finding]
  BY <1>2 DEF NoRows
<1>4. IdleRecord \in RecordState
  BY BurstFacts DEF IdleRecord, NoRecord, RecordState, RecordPC
<1>5. IdleScan \in ScanState
  BY <1>1, <1>3 DEF IdleScan, ScanState, ScanPC
<1>6. IdleVerdict \in VerdictState
  BY <1>2, BurstFacts DEF IdleVerdict, VerdictState
<1> QED BY <1>1, <1>3, <1>4, <1>5, <1>6

\* An event of a kind and a fingerprint is a key of the dispatcher.
LEMMA EventTypes ==
    \A k \in Kinds : \A f \in Fingerprints : Event(k, f) \in AllEvents
  BY DEF Event, AllEvents

-----------------------------------------------------------------------------
(* Type correctness. *)

\* The initial state has the types of TypeOK.
LEMMA InitType == Init => TypeOK
<1> SUFFICES ASSUME Init PROVE TypeOK
  OBVIOUS
<1>1. rec \in [Recorders -> RecordState] /\ scan \in [Scanners -> ScanState]
      /\ verdict \in VerdictState
  BY IdleTypes DEF Init
<1>2. batch \in SUBSET AllEvents /\ sent \in [AllEvents -> Nat]
  BY DEF Init, Dispatcher!Init
<1>3. window \in 0 .. LastWindow /\ left \in Budget
  BY TripPathsAssumption DEF Init, Budget
<1>4. trips \in [Bursts -> Nat] /\ finding \in [Fingerprints -> Finding]
      /\ pending \in [Bursts -> Nat] /\ flushing \in [Bursts -> Nat]
  BY IdleTypes DEF Init
<1> QED BY <1>1, <1>2, <1>3, <1>4 DEF Init, TypeOK

\* A touch keeps the types: the stamped burst is in the window of the clock.
LEMMA ContactType ==
    ASSUME TypeOK, NEW r \in Recorders, NEW k \in Keys, Contact(r, k)
    PROVE  TypeOK'
<1>1. [NoRecord(<<k, window>>) EXCEPT !.pc = "contact"] \in RecordState
  BY BurstFacts DEF TypeOK, NoRecord, RecordState, RecordPC
<1>2. rec' \in [Recorders -> RecordState]
  BY <1>1 DEF TypeOK, Contact
<1>3. left' \in Budget
  BY DEF TypeOK, Contact, Budget
<1> QED BY <1>2, <1>3 DEF TypeOK, Contact, store, sink, disp

\* Record's choice of a window keeps the types.
LEMMA StampType == ASSUME TypeOK, NEW r \in Recorders, Stamp(r) PROVE TypeOK'
<1>1. <<rec[r].burst[1], window>> \in Bursts
  BY BurstFacts DEF TypeOK, RecordState
<1>2. rec' \in [Recorders -> RecordState]
  <2>1. rec[r] \in RecordState
    BY DEF TypeOK
  <2>2. [rec[r] EXCEPT !.pc = "put", !.burst = <<@[1], window>>] \in RecordState
    BY <2>1, <1>1 DEF RecordState, RecordPC
  <2> QED BY <2>2 DEF TypeOK, Stamp
<1> QED BY <1>2 DEF TypeOK, Stamp, store, sink, disp

\* Storing a trip keeps the types: the count of rows grows by one.
LEMMA PutTripType == ASSUME TypeOK, NEW r \in Recorders, PutTrip(r) PROVE TypeOK'
<1>1. rec' \in [Recorders -> RecordState]
  <2>1. rec[r] \in RecordState
    BY DEF TypeOK
  <2>2. [rec[r] EXCEPT !.pc = "get"] \in RecordState
    BY <2>1 DEF RecordState, RecordPC
  <2> QED BY <2>2 DEF TypeOK, PutTrip
<1>2. trips' \in [Bursts -> Nat]
  BY DEF TypeOK, PutTrip, RecordState
<1> QED BY <1>1, <1>2 DEF TypeOK, PutTrip, sink, disp

\* The count a Record call takes from the row it found is a natural number.
LEMMA GetFindingType == ASSUME TypeOK, NEW r \in Recorders, GetFinding(r) PROVE TypeOK'
<1>1. finding[rec[r].burst] \in Finding
  BY BurstFacts DEF TypeOK, RecordState
<1>2. /\ finding[rec[r].burst].touches + 1 \in Nat
      /\ Stored(finding[rec[r].burst]) \in BOOLEAN
  BY <1>1 DEF Finding, Stored
<1>3. rec' \in [Recorders -> RecordState]
  <2>1. rec[r] \in RecordState
    BY DEF TypeOK
  <2>2. [rec[r] EXCEPT !.pc = "upsert",
                       !.repeat = Stored(finding[rec[r].burst]),
                       !.touches = finding[rec[r].burst].touches + 1] \in RecordState
    BY <2>1, <1>2 DEF RecordState, RecordPC
  <2> QED BY <2>2 DEF TypeOK, GetFinding
<1> QED BY <1>3 DEF TypeOK, GetFinding, store, sink, disp

\* A failed Get keeps the types: the call counts from one.
LEMMA GetFindingFailsType ==
    ASSUME TypeOK, NEW r \in Recorders, GetFindingFails(r) PROVE TypeOK'
<1>1. rec' \in [Recorders -> RecordState]
  <2>1. rec[r] \in RecordState
    BY DEF TypeOK
  <2>2. [rec[r] EXCEPT !.pc = "upsert", !.repeat = FALSE, !.touches = 1] \in RecordState
    BY <2>1 DEF RecordState, RecordPC
  <2> QED BY <2>2 DEF TypeOK, GetFindingFails
<1>2. left' \in Budget
  BY DEF TypeOK, GetFindingFails, Budget
<1> QED BY <1>1, <1>2 DEF TypeOK, GetFindingFails, store, sink, disp

\* The row Record writes is a row of the finding table.
LEMMA UpsertFindingType ==
    ASSUME TypeOK, NEW r \in Recorders, UpsertFinding(r) PROVE TypeOK'
<1>1. rec' \in [Recorders -> RecordState]
  BY DEF TypeOK, UpsertFinding, RecordState, RecordPC
<1>2. Opened(rec[r].touches) \in Finding
  BY DEF TypeOK, RecordState, Opened, Finding, Statuses
<1>3. finding' \in [Fingerprints -> Finding]
  BY <1>2 DEF TypeOK, UpsertFinding
<1> QED BY <1>1, <1>3 DEF TypeOK, UpsertFinding, sink, disp

\* A Record call that ends in an error leaves an idle call.
LEMMA RecordFailsType == ASSUME TypeOK, NEW r \in Recorders, RecordFails(r) PROVE TypeOK'
<1>1. rec' \in [Recorders -> RecordState]
  BY IdleTypes DEF TypeOK, RecordFails
<1>2. left' \in Budget
  BY DEF TypeOK, RecordFails, Budget
<1> QED BY <1>1, <1>2 DEF TypeOK, RecordFails, store, sink, disp

\* The count remembered for the digest is a natural number.
LEMMA RememberBurstType ==
    ASSUME TypeOK, NEW r \in Recorders, RememberBurst(r) PROVE TypeOK'
<1>1. rec' \in [Recorders -> RecordState]
  BY IdleTypes DEF TypeOK, RememberBurst, RecordState, RecordPC
<1>2. pending' \in [Bursts -> Nat]
  BY DEF TypeOK, RememberBurst, RecordState
<1> QED BY <1>1, <1>2 DEF TypeOK, RememberBurst, store, disp

\* The dispatcher keeps its types whatever event it accepts.
LEMMA AcceptType ==
    ASSUME TypeOK, NEW k \in Kinds, NEW f \in Fingerprints, Dispatcher!Accept(Event(k, f))
    PROVE  batch' \in SUBSET AllEvents /\ sent' \in [AllEvents -> Nat]
  BY EventTypes DEF TypeOK, Dispatcher!Accept

\* The event Record hands to the dispatcher is one of its keys.
LEMMA AlertOpenedType == ASSUME TypeOK, NEW r \in Recorders, AlertOpened(r) PROVE TypeOK'
<1>1. rec' \in [Recorders -> RecordState]
  BY IdleTypes DEF TypeOK, AlertOpened
<1>2. "opened" \in Kinds /\ rec[r].burst \in Fingerprints
  BY BurstFacts DEF TypeOK, RecordState, Kinds
<1>3. batch' \in SUBSET AllEvents /\ sent' \in [AllEvents -> Nat]
  BY <1>2, AcceptType DEF AlertOpened
<1> QED BY <1>1, <1>3 DEF TypeOK, AlertOpened, store, sink

\* Every step of a Record call keeps the types.
LEMMA RecordType == ASSUME TypeOK, NEW r \in Recorders, Record(r) PROVE TypeOK'
  BY StampType, PutTripType, GetFindingType, GetFindingFailsType, UpsertFindingType,
     RecordFailsType, RememberBurstType, AlertOpenedType
  DEF Record

\* Starting a scan keeps the types.
LEMMA StartScanType == ASSUME TypeOK, NEW s \in Scanners, StartScan(s) PROVE TypeOK'
<1>1. scan' \in [Scanners -> ScanState]
  <2>1. scan[s] \in ScanState
    BY DEF TypeOK
  <2>2. [scan[s] EXCEPT !.pc = "deployment"] \in ScanState
    BY <2>1 DEF ScanState, ScanPC
  <2> QED BY <2>2 DEF TypeOK, StartScan
<1> QED BY <1>1 DEF TypeOK, StartScan, store, sink, disp

\* Reading the deployment row keeps the types.
LEMMA ReadDeploymentType ==
    ASSUME TypeOK, NEW s \in Scanners, ReadDeployment(s) PROVE TypeOK'
<1>1. scan' \in [Scanners -> ScanState]
  <2>1. scan[s] \in ScanState
    BY DEF TypeOK
  <2>2. [scan[s] EXCEPT !.live = (trap # "deleted"),
                        !.pc = IF trap # "deleted" THEN "trips" ELSE "findings"] \in ScanState
    BY <2>1 DEF ScanState, ScanPC
  <2> QED BY <2>2 DEF TypeOK, ReadDeployment
<1> QED BY <1>1 DEF TypeOK, ReadDeployment, store, sink, disp

\* The trips a scan lists are counts per burst.
LEMMA ReadTripsType == ASSUME TypeOK, NEW s \in Scanners, ReadTrips(s) PROVE TypeOK'
<1>1. scan' \in [Scanners -> ScanState]
  <2>1. scan[s] \in ScanState
    BY DEF TypeOK
  <2>2. [scan[s] EXCEPT !.fresh = trips, !.pc = "findings"] \in ScanState
    BY <2>1 DEF ScanState, ScanPC, TypeOK
  <2> QED BY <2>2 DEF TypeOK, ReadTrips
<1> QED BY <1>1 DEF TypeOK, ReadTrips, store, sink, disp

\* Collect emits fingerprints only.
LEMMA EmittedType == ASSUME NEW s PROVE Emitted(s) \subseteq Fingerprints
  BY BurstFacts DEF Emitted

\* The findings a scan lists, and what it will write, have their types.
LEMMA ReadFindingsType == ASSUME TypeOK, NEW s \in Scanners, ReadFindings(s) PROVE TypeOK'
<1>1. Emitted(s) \cup {f \in Fingerprints : CountsAbsence(finding[f])}
        \in SUBSET Fingerprints
  BY EmittedType
<1>2. scan' \in [Scanners -> ScanState]
  <2>1. scan[s] \in ScanState
    BY DEF TypeOK
  <2>2. [scan[s] EXCEPT
            !.prev = finding,
            !.todo = Emitted(s) \cup {f \in Fingerprints : CountsAbsence(finding[f])},
            !.pc = "merge"] \in ScanState
    BY <2>1, <1>1 DEF ScanState, ScanPC, TypeOK
  <2> QED BY <2>2 DEF TypeOK, ReadFindings
<1> QED BY <1>2 DEF TypeOK, ReadFindings, store, sink, disp

\* The touches Collect reports for a fingerprint are a natural number.
LEMMA FreshType ==
    ASSUME TypeOK, NEW s \in Scanners, NEW f \in Fingerprints
    PROVE  FreshTouches(s, f) \in Nat
  BY DEF TypeOK, ScanState, FreshTouches, Fingerprints

\* The row Reconcile writes for a fresh finding is a row of the table.
LEMMA MergeFreshType ==
    ASSUME TypeOK, NEW s \in Scanners, NEW f \in Fingerprints, MergeFresh(s, f)
    PROVE  TypeOK'
<1>1. scan[s].prev[f] \in Finding
  BY DEF TypeOK, ScanState
<1>2. /\ Opened(FreshTouches(s, f)) \in Finding
      /\ Refreshed(scan[s].prev[f], FreshTouches(s, f)) \in Finding
  BY <1>1, FreshType, RowTypes DEF UserStatuses
<1>3. finding' \in [Fingerprints -> Finding]
  BY <1>2 DEF TypeOK, MergeFresh
<1>4. scan' \in [Scanners -> ScanState]
  <2>1. scan[s] \in ScanState
    BY DEF TypeOK
  <2>2. [scan[s] EXCEPT
            !.todo = @ \ {f},
            !.opened = IF ~Stored(scan[s].prev[f]) \/ Reopens(scan[s].prev[f])
                       THEN @ \cup {f} ELSE @] \in ScanState
    BY <2>1 DEF ScanState
  <2> QED BY <2>2 DEF TypeOK, MergeFresh
<1> QED BY <1>3, <1>4 DEF TypeOK, MergeFresh, sink, disp

\* The row Reconcile writes for an absent finding is a row of the table.
LEMMA MergeAbsentType ==
    ASSUME TypeOK, NEW s \in Scanners, NEW f \in Fingerprints, MergeAbsent(s, f)
    PROVE  TypeOK'
<1>1. scan[s].prev[f] \in Finding
  BY DEF TypeOK, ScanState
<1>2. Missed(scan[s].prev[f], ResolveAfter) \in Finding
  BY <1>1, RowTypes DEF UserStatuses
<1>3. finding' \in [Fingerprints -> Finding]
  BY <1>2 DEF TypeOK, MergeAbsent
<1>4. scan' \in [Scanners -> ScanState]
  <2>1. scan[s] \in ScanState
    BY DEF TypeOK
  <2>2. [scan[s] EXCEPT
            !.todo = @ \ {f},
            !.resolved = IF Expires(scan[s].prev[f], ResolveAfter)
                         THEN @ \cup {f} ELSE @] \in ScanState
    BY <2>1 DEF ScanState
  <2> QED BY <2>2 DEF TypeOK, MergeAbsent
<1> QED BY <1>3, <1>4 DEF TypeOK, MergeAbsent, sink, disp

\* A scan that hands over what it opened and resolved has its type.
LEMMA ReportingType ==
    ASSUME NEW opened \in SUBSET Fingerprints, NEW resolved \in SUBSET Fingerprints
    PROVE  Reporting(opened, resolved) \in ScanState
  BY IdleTypes DEF Reporting, ScanState, ScanPC

\* The end of Reconcile keeps the types.
LEMMA FinishReconcileType ==
    ASSUME TypeOK, NEW s \in Scanners, FinishReconcile(s) PROVE TypeOK'
<1>1. Reporting(scan[s].opened, scan[s].resolved) \in ScanState
  BY ReportingType DEF TypeOK, ScanState
<1>2. scan' \in [Scanners -> ScanState]
  BY <1>1 DEF TypeOK, FinishReconcile
<1> QED BY <1>2 DEF TypeOK, FinishReconcile, store, sink, disp

\* The opened event of a scan is a key of the dispatcher.
LEMMA ReportOpenedType ==
    ASSUME TypeOK, NEW s \in Scanners, NEW f \in Fingerprints, ReportOpened(s, f)
    PROVE  TypeOK'
<1>1. Reporting(scan[s].opened \ {f}, scan[s].resolved) \in ScanState
  BY ReportingType DEF TypeOK, ScanState
<1>2. scan' \in [Scanners -> ScanState]
  BY <1>1 DEF TypeOK, ReportOpened
<1>3. batch' \in SUBSET AllEvents /\ sent' \in [AllEvents -> Nat]
  BY AcceptType DEF ReportOpened, Kinds
<1> QED BY <1>2, <1>3 DEF TypeOK, ReportOpened, store, sink

\* The resolved event of a scan is a key of the dispatcher.
LEMMA ReportResolvedType ==
    ASSUME TypeOK, NEW s \in Scanners, NEW f \in Fingerprints, ReportResolved(s, f)
    PROVE  TypeOK'
<1>1. Reporting({}, scan[s].resolved \ {f}) \in ScanState
  BY ReportingType DEF TypeOK, ScanState
<1>2. scan' \in [Scanners -> ScanState]
  BY <1>1 DEF TypeOK, ReportResolved
<1>3. batch' \in SUBSET AllEvents /\ sent' \in [AllEvents -> Nat]
  BY AcceptType DEF ReportResolved, Kinds
<1> QED BY <1>2, <1>3 DEF TypeOK, ReportResolved, store, sink

\* A scan that ends in an error leaves an idle scan.
LEMMA ScanFailsType == ASSUME TypeOK, NEW s \in Scanners, ScanFails(s) PROVE TypeOK'
<1>1. scan' \in [Scanners -> ScanState]
  BY IdleTypes DEF TypeOK, ScanFails
<1>2. left' \in Budget
  BY DEF TypeOK, ScanFails, Budget
<1>3. dropped' \in SUBSET Fingerprints
  BY DEF TypeOK, ScanFails, ScanState
<1> QED BY <1>1, <1>2, <1>3 DEF TypeOK, ScanFails, store, sink, disp

\* Every step of a scan keeps the types.
LEMMA ScanType == ASSUME TypeOK, NEW s \in Scanners, Scan(s) PROVE TypeOK'
  BY ReadDeploymentType, ReadTripsType, ReadFindingsType, MergeFreshType,
     MergeAbsentType, FinishReconcileType, ReportOpenedType, ReportResolvedType,
     ScanFailsType
  DEF Scan

\* The clock keeps the types: it stops at its bound.
LEMMA NextWindowType == ASSUME TypeOK, NextWindow PROVE TypeOK'
<1>1. window' \in 0 .. LastWindow
  BY TripPathsAssumption DEF TypeOK, NextWindow
<1> QED BY <1>1 DEF TypeOK, NextWindow, store, sink, disp

\* FlushDigests keeps the types.
LEMMA DigestType == ASSUME TypeOK, Digest PROVE TypeOK'
<1>1. CASE TakeDue
  <2>1. pending' \in [Bursts -> Nat] /\ flushing' \in [Bursts -> Nat]
    BY <1>1 DEF TypeOK, TakeDue
  <2> QED BY <1>1, <2>1 DEF TypeOK, TakeDue, store, disp
<1>2. ASSUME NEW b \in Bursts, SendSummary(b) PROVE TypeOK'
  <2>1. batch' \in SUBSET AllEvents /\ sent' \in [AllEvents -> Nat]
    BY <1>2, AcceptType, BurstFacts DEF SendSummary, Kinds
  <2>2. flushing' \in [Bursts -> Nat]
    BY <1>2 DEF TypeOK, SendSummary
  <2> QED BY <1>2, <2>1, <2>2 DEF TypeOK, SendSummary, store
<1> QED BY <1>1, <1>2 DEF Digest

\* The dispatcher's flush keeps the types.
LEMMA FlushBatchType == ASSUME TypeOK, FlushBatch PROVE TypeOK'
<1>1. batch' \in SUBSET AllEvents /\ sent' \in [AllEvents -> Nat]
  BY DEF TypeOK, FlushBatch, Dispatcher!Flush, Dispatcher!Send
<1> QED BY <1>1 DEF TypeOK, FlushBatch, store, sink

\* The verdicts and the deletion keep the types.
LEMMA UserType ==
    ASSUME TypeOK,
           \/ \E f \in Fingerprints : ReadForVerdict(f)
           \/ \E status \in Asked : WriteVerdict(status)
           \/ Disarm
           \/ DeleteDeployment
    PROVE  TypeOK'
<1>1. ASSUME NEW f \in Fingerprints, ReadForVerdict(f) PROVE TypeOK'
  <2>1. verdict' \in VerdictState
    BY <1>1 DEF TypeOK, ReadForVerdict, VerdictState
  <2>2. left' \in Budget
    BY <1>1 DEF TypeOK, ReadForVerdict, Budget
  <2> QED BY <1>1, <2>1, <2>2 DEF TypeOK, ReadForVerdict, store, sink, disp
<1>2. ASSUME NEW status \in Asked, WriteVerdict(status) PROVE TypeOK'
  <2>1. verdict.row \in Finding /\ status \in UserStatuses
    BY TripPathsAssumption DEF TypeOK, VerdictState
  <2>2. Judged(verdict.row, status) \in Finding
    BY <2>1, RowTypes
  <2>3. finding' \in [Fingerprints -> Finding]
    BY <1>2, <2>2 DEF TypeOK, WriteVerdict
  <2> QED BY <1>2, <2>3, IdleTypes DEF TypeOK, WriteVerdict, sink, disp
<1>3. CASE Disarm
  <2>1. left' \in Budget
    BY <1>3 DEF TypeOK, Disarm, Budget
  <2> QED BY <1>3, <2>1 DEF TypeOK, Disarm, store, sink, disp
<1>4. CASE DeleteDeployment
  BY <1>4 DEF TypeOK, DeleteDeployment, store, sink, disp
<1> QED BY <1>1, <1>2, <1>3, <1>4

\* A crash keeps the types: the processes are idle and the tables survive.
LEMMA CrashType == ASSUME TypeOK, Crash PROVE TypeOK'
<1>1. rec' \in [Recorders -> RecordState] /\ scan' \in [Scanners -> ScanState]
      /\ verdict' \in VerdictState
  BY IdleTypes DEF Crash
<1>2. left' \in Budget
  BY DEF TypeOK, Crash, Budget
<1>3. pending' \in [Bursts -> Nat] /\ flushing' \in [Bursts -> Nat]
  BY IdleTypes DEF Crash
<1> QED BY <1>1, <1>2, <1>3 DEF TypeOK, Crash, store

\* Every step keeps the types.
LEMMA NextType == TypeOK /\ [Next]_vars => TypeOK'
<1> SUFFICES ASSUME TypeOK, [Next]_vars PROVE TypeOK'
  OBVIOUS
<1>1. CASE Next
  BY <1>1, RecordType, ContactType, ScanType, StartScanType, NextWindowType,
     DigestType, FlushBatchType, UserType, CrashType
  DEF Next
<1>2. CASE UNCHANGED vars
  BY <1>2 DEF TypeOK, vars
<1> QED BY <1>1, <1>2

\* Every variable of the two paths keeps its type.
THEOREM TypeCorrect == Spec => []TypeOK
  BY InitType, NextType, PTL DEF Spec

-----------------------------------------------------------------------------
(* EvidenceFirst. *)

Known(b) == \/ Traced(b)
            \/ \E r \in Recorders : RecordHolds(r, b)
            \/ \E s \in Scanners : ScanHolds(s, b)
            \/ VerdictHolds(b)

\* No step removes a trip.
LEMMA TripsGrow ==
    ASSUME TypeOK, [Next]_vars
    PROVE  \A b \in Bursts : trips'[b] >= trips[b]
<1>1. ASSUME NEW r \in Recorders, PutTrip(r)
      PROVE  \A b \in Bursts : trips'[b] >= trips[b]
  BY <1>1 DEF TypeOK, PutTrip
<1>2. CASE UNCHANGED trips
  BY <1>2 DEF TypeOK
<1>3. ASSUME NEW r \in Recorders, Record(r) PROVE PutTrip(r) \/ UNCHANGED trips
  BY <1>3 DEF Record, store, Stamp, GetFinding, GetFindingFails, UpsertFinding, RecordFails,
     RememberBurst, AlertOpened
<1>4. ASSUME NEW r \in Recorders, NEW k \in Keys, Contact(r, k) PROVE UNCHANGED trips
  BY <1>4 DEF Contact, store
<1>5. ASSUME NEW s \in Scanners, Scan(s) \/ StartScan(s) PROVE UNCHANGED trips
  BY <1>5 DEF Scan, store, StartScan, ReadDeployment, ReadTrips, ReadFindings, MergeFresh,
     MergeAbsent, FinishReconcile, ReportOpened, ReportResolved, ScanFails
<1>6. (\E r \in Recorders : PutTrip(r)) \/ UNCHANGED trips
  BY <1>3, <1>4, <1>5 DEF Next, Digest, vars, store, NextWindow, TakeDue, SendSummary,
     FlushBatch, ReadForVerdict, WriteVerdict, Disarm, DeleteDeployment, Crash
<1> QED BY <1>1, <1>2, <1>6

\* The empty tables hold no trip and no row of any burst.
LEMMA NothingRead ==
    \A b \in Bursts : NoTrips[b] = 0 /\ ~Stored(NoRows[b])
  BY BurstFacts DEF NoTrips, NoRows, NoFinding, Stored

\* An idle scan carries nothing about any burst.
LEMMA IdleScanHolds ==
    /\ IdleScan.todo = {} /\ IdleScan.opened = {} /\ IdleScan.resolved = {}
    /\ IdleScan.fresh = NoTrips /\ IdleScan.prev = NoRows
  BY DEF IdleScan

\* A scan carries only its reports once Reconcile has returned.
LEMMA ReportingHolds ==
    ASSUME NEW opened, NEW resolved
    PROVE  /\ Reporting(opened, resolved).todo = {}
           /\ Reporting(opened, resolved).opened = opened
           /\ Reporting(opened, resolved).resolved = resolved
           /\ Reporting(opened, resolved).fresh = NoTrips
           /\ Reporting(opened, resolved).prev = NoRows
<1>1. CASE opened \cup resolved = {}
  <2>1. Reporting(opened, resolved) = IdleScan
    BY <1>1 DEF Reporting
  <2>2. opened = {} /\ resolved = {}
    BY <1>1
  <2> QED BY <2>1, <2>2, IdleScanHolds
<1>2. CASE opened \cup resolved # {}
  BY <1>2 DEF Reporting, IdleScan
<1> QED BY <1>1, <1>2

\* For each step: what is known of a burst afterwards was known of it before,
\* or its trip is stored now.
LEMMA ContactKnown ==
    ASSUME TypeOK, NEW r \in Recorders, NEW k \in Keys, Contact(r, k), NEW b \in Bursts, Known(b)'
    PROVE  Known(b)
  BY DEF Known, Traced, Told, RecordHolds, ScanHolds, VerdictHolds, Contact, TypeOK,
         store, sink, disp, RecordState, NoRecord

\* Choosing a window makes no burst known: the call has written nothing yet.
LEMMA StampKnown ==
    ASSUME TypeOK, NEW r \in Recorders, Stamp(r), NEW b \in Bursts, Known(b)'
    PROVE  Known(b)
  BY DEF Known, Traced, Told, RecordHolds, ScanHolds, VerdictHolds, Stamp, TypeOK,
         store, sink, disp, RecordState

\* After PutTrip the burst is known, and a trip of it is stored.
LEMMA PutTripKnown ==
    ASSUME TypeOK, NEW r \in Recorders, PutTrip(r), NEW b \in Bursts, Known(b)'
    PROVE  trips'[b] > 0 \/ Known(b)
  BY DEF Known, Traced, Told, RecordHolds, ScanHolds, VerdictHolds, PutTrip, TypeOK,
         store, sink, disp, RecordState

\* A Get makes no burst known that was not.
LEMMA GetFindingKnown ==
    ASSUME TypeOK, NEW r \in Recorders, GetFinding(r), NEW b \in Bursts, Known(b)'
    PROVE  Known(b)
  BY DEF Known, Traced, Told, RecordHolds, ScanHolds, VerdictHolds, GetFinding, TypeOK,
         store, sink, disp, RecordState

\* A failed Get makes no burst known that was not.
LEMMA GetFindingFailsKnown ==
    ASSUME TypeOK, NEW r \in Recorders, GetFindingFails(r), NEW b \in Bursts, Known(b)'
    PROVE  Known(b)
  BY DEF Known, Traced, Told, RecordHolds, ScanHolds, VerdictHolds, GetFindingFails, TypeOK,
         store, sink, disp, RecordState

\* Record writes the row of a burst it already carried.
LEMMA UpsertFindingKnown ==
    ASSUME TypeOK, NEW r \in Recorders, UpsertFinding(r), NEW b \in Bursts, Known(b)'
    PROVE  Known(b)
  BY DEF Known, Traced, Told, RecordHolds, ScanHolds, VerdictHolds, UpsertFinding, TypeOK,
         store, sink, disp, RecordState

\* A failed Record call makes no burst known that was not.
LEMMA RecordFailsKnown ==
    ASSUME TypeOK, NEW r \in Recorders, RecordFails(r), NEW b \in Bursts, Known(b)'
    PROVE  Known(b)
  BY DEF Known, Traced, Told, RecordHolds, ScanHolds, VerdictHolds, RecordFails, TypeOK,
         store, sink, disp, RecordState, IdleRecord, NoRecord

\* The sink remembers a burst its caller already carried.
LEMMA RememberBurstKnown ==
    ASSUME TypeOK, NEW r \in Recorders, RememberBurst(r), NEW b \in Bursts, Known(b)'
    PROVE  Known(b)
  BY DEF Known, Traced, Told, RecordHolds, ScanHolds, VerdictHolds, RememberBurst, TypeOK,
         store, sink, disp, RecordState, IdleRecord, NoRecord

\* Record announces a burst it already carried.
LEMMA AlertOpenedKnown ==
    ASSUME TypeOK, NEW r \in Recorders, AlertOpened(r), NEW b \in Bursts, Known(b)'
    PROVE  Known(b)
  BY DEF Known, Traced, Told, RecordHolds, ScanHolds, VerdictHolds, AlertOpened, TypeOK,
         store, sink, disp, RecordState, IdleRecord, NoRecord, Dispatcher!Accept, Event

\* Starting a scan makes no burst known that was not.
LEMMA StartScanKnown ==
    ASSUME TypeOK, NEW s \in Scanners, StartScan(s), NEW b \in Bursts, Known(b)'
    PROVE  Known(b)
  BY DEF Known, Traced, Told, RecordHolds, ScanHolds, VerdictHolds, StartScan, TypeOK,
         store, sink, disp, ScanState

\* Reading the deployment row makes no burst known that was not.
LEMMA ReadDeploymentKnown ==
    ASSUME TypeOK, NEW s \in Scanners, ReadDeployment(s), NEW b \in Bursts, Known(b)'
    PROVE  Known(b)
  BY DEF Known, Traced, Told, RecordHolds, ScanHolds, VerdictHolds, ReadDeployment, TypeOK,
         store, sink, disp, ScanState

\* A scan that lists the trips learns only of bursts with a trip.
LEMMA ReadTripsKnown ==
    ASSUME TypeOK, NEW s \in Scanners, ReadTrips(s), NEW b \in Bursts, Known(b)'
    PROVE  trips'[b] > 0 \/ Known(b)
  BY DEF Known, Traced, Told, RecordHolds, ScanHolds, VerdictHolds, ReadTrips, TypeOK,
         store, sink, disp, ScanState

\* A scan that lists the findings learns only of bursts with a row or a trip.
LEMMA ReadFindingsKnown ==
    ASSUME TypeOK, NEW s \in Scanners, ReadFindings(s), NEW b \in Bursts, Known(b)'
    PROVE  Known(b)
<1>1. \A c \in Bursts : c \in scan'[s].todo => ScanHolds(s, c) \/ Stored(finding[c])
  <2>1. scan'[s].todo = Emitted(s) \cup {f \in Fingerprints : CountsAbsence(finding[f])}
    BY DEF TypeOK, ReadFindings, ScanState
  <2>2. \A c \in Bursts : c \in Emitted(s) => scan[s].fresh[c] > 0
    BY BurstFacts DEF Emitted
  <2> QED BY <2>1, <2>2 DEF ScanHolds, CountsAbsence, Stored
<1>2. \A c \in Bursts : ScanHolds(s, c)' => ScanHolds(s, c) \/ Stored(finding[c])
  <2>1. /\ scan'[s].fresh = scan[s].fresh /\ scan'[s].prev = finding
        /\ scan'[s].opened = scan[s].opened /\ scan'[s].resolved = scan[s].resolved
    BY DEF TypeOK, ReadFindings, ScanState
  <2> QED BY <1>1, <2>1 DEF ScanHolds
<1>3. \A t \in Scanners : t # s => (ScanHolds(t, b)' <=> ScanHolds(t, b))
  BY DEF ScanHolds, TypeOK, ReadFindings
<1>4. /\ Traced(b)' <=> Traced(b)
      /\ \A r \in Recorders : RecordHolds(r, b)' <=> RecordHolds(r, b)
      /\ VerdictHolds(b)' <=> VerdictHolds(b)
  BY DEF Traced, Told, RecordHolds, VerdictHolds, ReadFindings, store, sink, disp
<1> QED BY <1>2, <1>3, <1>4 DEF Known, Traced

\* Reconcile writes the row of a burst its scan already carried.
LEMMA MergeFreshKnown ==
    ASSUME TypeOK, NEW s \in Scanners, NEW f \in Fingerprints, MergeFresh(s, f), NEW b \in Bursts, Known(b)'
    PROVE  Known(b)
  BY DEF Known, Traced, Told, RecordHolds, ScanHolds, VerdictHolds, MergeFresh, TypeOK,
         store, sink, disp, ScanState

\* Reconcile resolves the row of a burst its scan already carried.
LEMMA MergeAbsentKnown ==
    ASSUME TypeOK, NEW s \in Scanners, NEW f \in Fingerprints, MergeAbsent(s, f), NEW b \in Bursts, Known(b)'
    PROVE  Known(b)
  BY DEF Known, Traced, Told, RecordHolds, ScanHolds, VerdictHolds, MergeAbsent, TypeOK,
         store, sink, disp, ScanState

\* The end of Reconcile makes no burst known that was not.
LEMMA FinishReconcileKnown ==
    ASSUME TypeOK, NEW s \in Scanners, FinishReconcile(s), NEW b \in Bursts, Known(b)'
    PROVE  Known(b)
<1>1. scan'[s] = Reporting(scan[s].opened, scan[s].resolved)
  BY DEF TypeOK, FinishReconcile
<1>2. ScanHolds(s, b)' => ScanHolds(s, b)
  <2>1. /\ scan'[s].todo = {}
        /\ scan'[s].opened = scan[s].opened
        /\ scan'[s].resolved = scan[s].resolved
        /\ scan'[s].fresh = NoTrips
        /\ scan'[s].prev = NoRows
    BY <1>1, ReportingHolds
  <2> QED BY <2>1, NothingRead DEF ScanHolds
<1>3. \A t \in Scanners : t # s => (ScanHolds(t, b)' <=> ScanHolds(t, b))
  BY DEF ScanHolds, TypeOK, FinishReconcile
<1>4. \A r \in Recorders : RecordHolds(r, b)' <=> RecordHolds(r, b)
  BY DEF RecordHolds, FinishReconcile
<1>5. VerdictHolds(b)' <=> VerdictHolds(b)
  BY DEF VerdictHolds, FinishReconcile
<1>6. Traced(b)' => Traced(b)
  BY DEF Traced, Told, FinishReconcile, store, sink, disp
<1> QED BY <1>2, <1>3, <1>4, <1>5, <1>6 DEF Known

\* A scan announces a burst it already carried.
LEMMA ReportOpenedKnown ==
    ASSUME TypeOK, NEW s \in Scanners, NEW f \in Fingerprints, ReportOpened(s, f), NEW b \in Bursts, Known(b)'
    PROVE  Known(b)
<1>1. scan'[s] = Reporting(scan[s].opened \ {f}, scan[s].resolved)
  BY DEF TypeOK, ReportOpened
<1>2. ScanHolds(s, b)' => ScanHolds(s, b)
  <2>1. /\ scan'[s].todo = {}
        /\ scan'[s].opened = scan[s].opened \ {f}
        /\ scan'[s].resolved = scan[s].resolved
        /\ scan'[s].fresh = NoTrips
        /\ scan'[s].prev = NoRows
    BY <1>1, ReportingHolds
  <2> QED BY <2>1, NothingRead DEF ScanHolds
<1>3. \A t \in Scanners : t # s => (ScanHolds(t, b)' <=> ScanHolds(t, b))
  BY DEF ScanHolds, TypeOK, ReportOpened
<1>4. \A r \in Recorders : RecordHolds(r, b)' <=> RecordHolds(r, b)
  BY DEF RecordHolds, ReportOpened
<1>5. VerdictHolds(b)' <=> VerdictHolds(b)
  BY DEF VerdictHolds, ReportOpened
<1>6. Traced(b)' => Traced(b) \/ b = f
  BY DEF Traced, Told, ReportOpened, store, sink, disp, Dispatcher!Accept, Event
<1> QED BY <1>2, <1>3, <1>4, <1>5, <1>6 DEF Known, ScanHolds, ReportOpened

\* A scan reports as resolved a burst it already carried.
LEMMA ReportResolvedKnown ==
    ASSUME TypeOK, NEW s \in Scanners, NEW f \in Fingerprints, ReportResolved(s, f), NEW b \in Bursts, Known(b)'
    PROVE  Known(b)
<1>1. scan'[s] = Reporting({}, scan[s].resolved \ {f})
  BY DEF TypeOK, ReportResolved
<1>2. ScanHolds(s, b)' => ScanHolds(s, b)
  <2>1. /\ scan'[s].todo = {}
        /\ scan'[s].opened = {}
        /\ scan'[s].resolved = scan[s].resolved \ {f}
        /\ scan'[s].fresh = NoTrips
        /\ scan'[s].prev = NoRows
    BY <1>1, ReportingHolds
  <2> QED BY <2>1, NothingRead DEF ScanHolds
<1>3. \A t \in Scanners : t # s => (ScanHolds(t, b)' <=> ScanHolds(t, b))
  BY DEF ScanHolds, TypeOK, ReportResolved
<1>4. \A r \in Recorders : RecordHolds(r, b)' <=> RecordHolds(r, b)
  BY DEF RecordHolds, ReportResolved
<1>5. VerdictHolds(b)' <=> VerdictHolds(b)
  BY DEF VerdictHolds, ReportResolved
<1>6. Traced(b)' => Traced(b) \/ b = f
  BY DEF Traced, Told, ReportResolved, store, sink, disp, Dispatcher!Accept, Event
<1> QED BY <1>2, <1>3, <1>4, <1>5, <1>6 DEF Known, ScanHolds, ReportResolved

\* A failed scan makes no burst known that was not.
LEMMA ScanFailsKnown ==
    ASSUME TypeOK, NEW s \in Scanners, ScanFails(s), NEW b \in Bursts, Known(b)'
    PROVE  Known(b)
<1>1. ~ScanHolds(s, b)'
  BY IdleScanHolds, NothingRead DEF ScanHolds, TypeOK, ScanFails
<1>2. \A t \in Scanners : t # s => (ScanHolds(t, b)' <=> ScanHolds(t, b))
  BY DEF ScanHolds, TypeOK, ScanFails
<1>3. /\ Traced(b)' <=> Traced(b)
      /\ \A r \in Recorders : RecordHolds(r, b)' <=> RecordHolds(r, b)
      /\ VerdictHolds(b)' <=> VerdictHolds(b)
  BY DEF Traced, Told, RecordHolds, VerdictHolds, ScanFails, store, sink, disp
<1> QED BY <1>1, <1>2, <1>3 DEF Known

\* The clock makes no burst known that was not.
LEMMA NextWindowKnown ==
    ASSUME TypeOK, NextWindow, NEW b \in Bursts, Known(b)'
    PROVE  Known(b)
  BY DEF Known, Traced, Told, RecordHolds, ScanHolds, VerdictHolds, NextWindow, TypeOK,
         store, sink, disp

\* FlushDigests takes bursts the sink remembered.
LEMMA TakeDueKnown ==
    ASSUME TypeOK, TakeDue, NEW b \in Bursts, Known(b)'
    PROVE  Known(b)
  BY DEF Known, Traced, Told, RecordHolds, ScanHolds, VerdictHolds, TakeDue, TypeOK,
         store, sink, disp, NoTrips, Due

\* A summary tells of a burst FlushDigests has taken.
LEMMA SendSummaryKnown ==
    ASSUME TypeOK, NEW c \in Bursts, SendSummary(c), NEW b \in Bursts, Known(b)'
    PROVE  Known(b)
  BY DEF Known, Traced, Told, RecordHolds, ScanHolds, VerdictHolds, SendSummary, TypeOK,
         store, sink, disp, Dispatcher!Accept, Event

\* A flush sends events that were waiting.
LEMMA FlushBatchKnown ==
    ASSUME TypeOK, FlushBatch, NEW b \in Bursts, Known(b)'
    PROVE  Known(b)
<1>1. \A k \in Kinds : Told(k, b)' => Told(k, b)
  <2>1. \A k \in Kinds : Event(k, b) \in AllEvents
    BY BurstFacts, EventTypes
  <2> QED BY <2>1 DEF Told, FlushBatch, Dispatcher!Flush, Dispatcher!Send, TypeOK
<1>2. Traced(b)' => Traced(b)
  BY <1>1 DEF Traced, FlushBatch, store, sink
<1>3. /\ \A r \in Recorders : RecordHolds(r, b)' <=> RecordHolds(r, b)
      /\ \A s \in Scanners : ScanHolds(s, b)' <=> ScanHolds(s, b)
      /\ VerdictHolds(b)' <=> VerdictHolds(b)
  BY DEF RecordHolds, ScanHolds, VerdictHolds, FlushBatch
<1> QED BY <1>2, <1>3 DEF Known

\* A verdict reads a row that is stored.
LEMMA ReadForVerdictKnown ==
    ASSUME TypeOK, NEW f \in Fingerprints, ReadForVerdict(f), NEW b \in Bursts, Known(b)'
    PROVE  Known(b)
  BY DEF Known, Traced, Told, RecordHolds, ScanHolds, VerdictHolds, ReadForVerdict, TypeOK,
         store, sink, disp, VerdictState

\* A verdict writes the row it has read.
LEMMA WriteVerdictKnown ==
    ASSUME TypeOK, NEW status \in Asked, WriteVerdict(status), NEW b \in Bursts, Known(b)'
    PROVE  Known(b)
  BY DEF Known, Traced, Told, RecordHolds, ScanHolds, VerdictHolds, WriteVerdict, TypeOK,
         store, sink, disp, VerdictState, IdleVerdict

\* Stopping the listener makes no burst known that was not.
LEMMA DisarmKnown ==
    ASSUME TypeOK, Disarm, NEW b \in Bursts, Known(b)'
    PROVE  Known(b)
  BY DEF Known, Traced, Told, RecordHolds, ScanHolds, VerdictHolds, Disarm, TypeOK,
         store, sink, disp

\* Deleting the deployment row makes no burst known that was not.
LEMMA DeleteDeploymentKnown ==
    ASSUME TypeOK, DeleteDeployment, NEW b \in Bursts, Known(b)'
    PROVE  Known(b)
  BY DEF Known, Traced, Told, RecordHolds, ScanHolds, VerdictHolds, DeleteDeployment, TypeOK,
         store, sink, disp

\* A crash makes no burst known that was not.
LEMMA CrashKnown ==
    ASSUME TypeOK, Crash, NEW b \in Bursts, Known(b)'
    PROVE  Known(b)
<1>1. \A r \in Recorders : ~RecordHolds(r, b)'
  BY DEF RecordHolds, Crash, IdleRecord, NoRecord
<1>2. \A s \in Scanners : ~ScanHolds(s, b)'
  BY IdleScanHolds, NothingRead DEF ScanHolds, Crash
<1>3. ~VerdictHolds(b)'
  BY DEF VerdictHolds, Crash, IdleVerdict
<1>4. Traced(b)' => Traced(b)
  BY DEF Traced, Told, Crash, store, NoTrips
<1> QED BY <1>1, <1>2, <1>3, <1>4 DEF Known

\* The steps put together: knowledge of a burst comes with a trip of it.
LEMMA KnownStep ==
    ASSUME TypeOK, [Next]_vars, NEW b \in Bursts, Known(b)'
    PROVE  Known(b) \/ trips'[b] > 0
<1>1. CASE UNCHANGED vars
  BY <1>1 DEF vars, Known, Traced, Told, RecordHolds, ScanHolds, VerdictHolds
<1>2. ASSUME NEW r \in Recorders, Record(r) PROVE Known(b) \/ trips'[b] > 0
  BY <1>2, StampKnown, PutTripKnown, GetFindingKnown, GetFindingFailsKnown,
     UpsertFindingKnown, RecordFailsKnown, RememberBurstKnown, AlertOpenedKnown
  DEF Record
<1>3. ASSUME NEW s \in Scanners, Scan(s) PROVE Known(b) \/ trips'[b] > 0
  BY <1>3, ReadDeploymentKnown, ReadTripsKnown, ReadFindingsKnown, MergeFreshKnown,
     MergeAbsentKnown, FinishReconcileKnown, ReportOpenedKnown, ReportResolvedKnown,
     ScanFailsKnown
  DEF Scan
<1>4. CASE Digest
  BY <1>4, TakeDueKnown, SendSummaryKnown DEF Digest
<1>5. CASE Next
  BY <1>2, <1>3, <1>4, <1>5, ContactKnown, StartScanKnown, NextWindowKnown,
     FlushBatchKnown, ReadForVerdictKnown, WriteVerdictKnown, DisarmKnown,
     DeleteDeploymentKnown, CrashKnown
  DEF Next
<1> QED BY <1>1, <1>5

\* Nothing is known of any burst at the start.
LEMMA EvidenceInit == Init => EvidenceInv
<1> SUFFICES ASSUME Init, NEW b \in Bursts PROVE ~Known(b)
  BY DEF EvidenceInv, Known
<1>1. ~Traced(b)
  <2>1. ~Stored(finding[b]) /\ pending[b] = 0 /\ flushing[b] = 0
    BY NothingRead DEF Init
  <2>2. \A k \in Kinds : ~Told(k, b)
    BY BurstFacts, EventTypes DEF Init, Dispatcher!Init, Told
  <2> QED BY <2>1, <2>2 DEF Traced
<1>2. \A r \in Recorders : ~RecordHolds(r, b)
  BY DEF Init, RecordHolds, IdleRecord, NoRecord
<1>3. \A s \in Scanners : ~ScanHolds(s, b)
  BY IdleScanHolds, NothingRead DEF Init, ScanHolds
<1>4. ~VerdictHolds(b)
  BY DEF Init, VerdictHolds, IdleVerdict
<1> QED BY <1>1, <1>2, <1>3, <1>4 DEF Known

\* Every step keeps EvidenceInv.
LEMMA EvidenceStep == TypeOK /\ EvidenceInv /\ [Next]_vars => EvidenceInv'
<1> SUFFICES ASSUME TypeOK, EvidenceInv, [Next]_vars, NEW b \in Bursts, Known(b)'
             PROVE  trips'[b] > 0
  BY DEF EvidenceInv, Known
<1>1. CASE trips'[b] > 0
  BY <1>1
<1>2. CASE Known(b)
  <2>1. trips[b] > 0
    BY <1>2 DEF EvidenceInv, Known
  <2>2. trips'[b] >= trips[b] /\ trips[b] \in Nat /\ trips'[b] \in Nat
    BY TripsGrow, NextType DEF TypeOK
  <2> QED BY <2>1, <2>2
<1> QED BY <1>1, <1>2, KnownStep

\* No burst is shown, counted or announced before a trip of it is stored, for
\* any number of sources, recorders, scans and windows, with any failed store
\* calls and crashes.
THEOREM EvidenceIsFirst == Spec => []EvidenceFirst
<1>1. EvidenceInv => EvidenceFirst
  BY DEF EvidenceInv, EvidenceFirst
<1> QED BY <1>1, TypeCorrect, EvidenceInit, EvidenceStep, PTL DEF Spec

-----------------------------------------------------------------------------
(* CountAtMostDouble. *)

Waiting(b) == Cardinality(Uncounted(b))

\* A count of the burst stored, remembered or carried, one place for each.
CountedByRecord(r, b, n) == /\ rec[r].pc \in {"upsert", "remember"}
                            /\ rec[r].burst = b
                            /\ n = rec[r].touches
CountedInTables(b, n)    == n \in {finding[b].touches, pending[b], flushing[b]}
CountedByScan(s, b, n)   == n = scan[s].prev[b].touches
CountedByVerdict(b, n)   == VerdictHolds(b) /\ n = verdict.row.touches

\* Counts, taken apart.
LEMMA CountsParts ==
    ASSUME NEW b, NEW n
    PROVE  n \in Counts(b) <=> \/ CountedInTables(b, n)
                               \/ \E r \in Recorders : CountedByRecord(r, b, n)
                               \/ \E s \in Scanners : CountedByScan(s, b, n)
                               \/ CountedByVerdict(b, n)
  BY DEF Counts, CountedInTables, CountedByRecord, CountedByScan, CountedByVerdict, VerdictHolds

\* The same of the next state.
LEMMA CountsPartsNext ==
    ASSUME NEW b, NEW n
    PROVE  n \in Counts(b)' <=> \/ CountedInTables(b, n)'
                                \/ \E r \in Recorders : CountedByRecord(r, b, n)'
                                \/ \E s \in Scanners : CountedByScan(s, b, n)'
                                \/ CountedByVerdict(b, n)'
  BY DEF Counts, CountedInTables, CountedByRecord, CountedByScan, CountedByVerdict, VerdictHolds

\* The calls that have yet to count their trip are finitely many.
LEMMA UncountedFinite ==
    ASSUME NEW b
    PROVE  IsFiniteSet(Uncounted(b)) /\ Waiting(b) \in Nat
  BY FS_Subset, FS_CardinalityType, TripPathsAssumption DEF Uncounted, Waiting

\* Every count is a natural number.
LEMMA CountsType == ASSUME TypeOK, NEW b \in Bursts PROVE Counts(b) \subseteq Nat
<1> SUFFICES ASSUME NEW n \in Counts(b) PROVE n \in Nat
  OBVIOUS
<1>1. CASE CountedInTables(b, n)
  BY <1>1, BurstFacts DEF CountedInTables, TypeOK, Finding
<1>2. CASE \E r \in Recorders : CountedByRecord(r, b, n)
  BY <1>2 DEF CountedByRecord, TypeOK, RecordState
<1>3. CASE \E s \in Scanners : CountedByScan(s, b, n)
  BY <1>3, BurstFacts DEF CountedByScan, TypeOK, ScanState, Finding
<1>4. CASE CountedByVerdict(b, n)
  BY <1>4 DEF CountedByVerdict, TypeOK, VerdictState, Finding
<1> QED BY <1>1, <1>2, <1>3, <1>4, CountsParts

\* A step that stores no trip and counts none: what it writes or keeps is a
\* count there was already, a scan's own or nothing.
Quiet(b) ==
    /\ trips'[b] = trips[b]
    /\ Uncounted(b)' \subseteq Uncounted(b)
    /\ \A s \in Scanners : scan'[s].fresh[b] \in {scan[s].fresh[b], 0, trips[b]}
    /\ \A n \in Counts(b)' : n = 0 \/ n \in Counts(b) \/ \E s \in Scanners : n = scan[s].fresh[b]

\* The empty tables and the idle processes count nothing.
LEMMA NothingCounted ==
    ASSUME NEW b \in Bursts
    PROVE  NoTrips[b] = 0 /\ NoRows[b].touches = 0
  BY BurstFacts DEF NoTrips, NoRows, NoFinding

\* A touch counts nothing yet.
LEMMA ContactQuiet ==
    ASSUME TypeOK, NEW r \in Recorders, NEW k \in Keys, Contact(r, k), NEW b \in Bursts
    PROVE  Quiet(b)
  BY CountsParts DEF Quiet, Uncounted, Counts, Contact, TypeOK, VerdictHolds,
     store, sink, disp, RecordState, NoRecord

\* Choosing a window counts nothing.
LEMMA StampQuiet ==
    ASSUME TypeOK, NEW r \in Recorders, Stamp(r), NEW b \in Bursts
    PROVE  Quiet(b)
  BY DEF Quiet, Uncounted, Counts, Stamp, TypeOK, VerdictHolds, store, sink, disp, RecordState

\* The count Record writes is the one it carries.
LEMMA UpsertFindingQuiet ==
    ASSUME TypeOK, NEW r \in Recorders, UpsertFinding(r), NEW b \in Bursts
    PROVE  Quiet(b)
  BY BurstFacts DEF Quiet, Uncounted, Counts, UpsertFinding, TypeOK, VerdictHolds, store, sink, disp, RecordState, ScanState, Opened

\* A failed Record call drops its count.
LEMMA RecordFailsQuiet ==
    ASSUME TypeOK, NEW r \in Recorders, RecordFails(r), NEW b \in Bursts
    PROVE  Quiet(b)
  BY DEF Quiet, Uncounted, Counts, RecordFails, TypeOK, VerdictHolds, store, sink, disp, RecordState, ScanState, IdleRecord, NoRecord

\* The sink remembers the count its caller carries.
LEMMA RememberBurstQuiet ==
    ASSUME TypeOK, NEW r \in Recorders, RememberBurst(r), NEW b \in Bursts
    PROVE  Quiet(b)
  BY DEF Quiet, Uncounted, Counts, RememberBurst, TypeOK, VerdictHolds, store, sink, disp, RecordState, ScanState, IdleRecord, NoRecord

\* An alert counts nothing.
LEMMA AlertOpenedQuiet ==
    ASSUME TypeOK, NEW r \in Recorders, AlertOpened(r), NEW b \in Bursts
    PROVE  Quiet(b)
  BY DEF Quiet, Uncounted, Counts, AlertOpened, TypeOK, VerdictHolds, store, sink, disp, RecordState, ScanState, IdleRecord, NoRecord

\* Starting a scan counts nothing.
LEMMA StartScanQuiet ==
    ASSUME TypeOK, NEW s \in Scanners, StartScan(s), NEW b \in Bursts
    PROVE  Quiet(b)
  BY DEF Quiet, Uncounted, Counts, StartScan, TypeOK, VerdictHolds, store, sink, disp, RecordState, ScanState

\* Reading the deployment row counts nothing.
LEMMA ReadDeploymentQuiet ==
    ASSUME TypeOK, NEW s \in Scanners, ReadDeployment(s), NEW b \in Bursts
    PROVE  Quiet(b)
  BY DEF Quiet, Uncounted, Counts, ReadDeployment, TypeOK, VerdictHolds, store, sink, disp, RecordState, ScanState

\* A scan lists the trips there are.
LEMMA ReadTripsQuiet ==
    ASSUME TypeOK, NEW s \in Scanners, ReadTrips(s), NEW b \in Bursts
    PROVE  Quiet(b)
  BY DEF Quiet, Uncounted, Counts, ReadTrips, TypeOK, VerdictHolds, store, sink, disp, RecordState, ScanState

\* A scan lists the counts of the finding table.
LEMMA ReadFindingsQuiet ==
    ASSUME TypeOK, NEW s \in Scanners, ReadFindings(s), NEW b \in Bursts
    PROVE  Quiet(b)
<1>1. ASSUME NEW n \in Counts(b)' PROVE n \in Counts(b)
  <2>1. /\ scan'[s].prev = finding
        /\ \A t \in Scanners : t # s => scan'[t].prev = scan[t].prev
    BY DEF ReadFindings, TypeOK, ScanState
  <2>2. CASE \E t \in Scanners : CountedByScan(t, b, n)'
    BY <2>1, <2>2, CountsParts DEF CountedByScan, CountedInTables
  <2>3. CASE \/ CountedInTables(b, n)'
             \/ \E r \in Recorders : CountedByRecord(r, b, n)'
             \/ CountedByVerdict(b, n)'
    BY <2>3, CountsParts DEF CountedInTables, CountedByRecord, CountedByVerdict, VerdictHolds,
       ReadFindings, store, sink
  <2> QED BY <2>2, <2>3, CountsPartsNext
<1>2. /\ trips'[b] = trips[b] /\ Uncounted(b)' = Uncounted(b)
      /\ \A t \in Scanners : scan'[t].fresh = scan[t].fresh
  BY DEF ReadFindings, Uncounted, TypeOK, ScanState, store
<1> QED BY <1>1, <1>2 DEF Quiet

\* Reconcile writes the trips its scan listed.
LEMMA MergeFreshQuiet ==
    ASSUME TypeOK, NEW s \in Scanners, NEW f \in Fingerprints, MergeFresh(s, f), NEW b \in Bursts
    PROVE  Quiet(b)
<1>1. ASSUME NEW n \in Counts(b)'
      PROVE  n \in Counts(b) \/ \E t \in Scanners : n = scan[t].fresh[b]
  <2>1. CASE CountedInTables(b, n)'
    <3>1. /\ pending' = pending /\ flushing' = flushing
          /\ f # b => finding'[b] = finding[b]
      BY BurstFacts DEF MergeFresh, sink, TypeOK
    <3>2. f = b => finding'[b].touches = scan[s].fresh[b]
      <4>1. scan[s].prev[b] \in Finding
        BY BurstFacts DEF TypeOK, ScanState
      <4> QED BY <4>1, BurstFacts
              DEF MergeFresh, Opened, Refreshed, FreshTouches, TypeOK, Finding
    <3> QED BY <2>1, <3>1, <3>2, CountsParts DEF CountedInTables
  <2>2. CASE \E t \in Scanners : CountedByScan(t, b, n)'
    <3>1. \A t \in Scanners : scan'[t].prev = scan[t].prev
      BY DEF MergeFresh, TypeOK, ScanState
    <3> QED BY <2>2, <3>1, CountsParts DEF CountedByScan
  <2>3. CASE (\E r \in Recorders : CountedByRecord(r, b, n)') \/ CountedByVerdict(b, n)'
    BY <2>3, CountsParts DEF CountedByRecord, CountedByVerdict, VerdictHolds, MergeFresh
  <2> QED BY <2>1, <2>2, <2>3, CountsPartsNext
<1>2. /\ trips'[b] = trips[b] /\ Uncounted(b)' = Uncounted(b)
      /\ \A t \in Scanners : scan'[t].fresh = scan[t].fresh
  BY DEF MergeFresh, Uncounted, TypeOK, ScanState
<1> QED BY <1>1, <1>2 DEF Quiet

\* Reconcile keeps the count of a finding it resolves.
LEMMA MergeAbsentQuiet ==
    ASSUME TypeOK, NEW s \in Scanners, NEW f \in Fingerprints, MergeAbsent(s, f), NEW b \in Bursts
    PROVE  Quiet(b)
  BY BurstFacts DEF Quiet, Uncounted, Counts, MergeAbsent, TypeOK, VerdictHolds, store, sink, disp, RecordState, ScanState, Missed, Finding

\* The end of Reconcile counts nothing.
LEMMA FinishReconcileQuiet ==
    ASSUME TypeOK, NEW s \in Scanners, FinishReconcile(s), NEW b \in Bursts
    PROVE  Quiet(b)
  BY ReportingHolds, NothingCounted DEF Quiet, Uncounted, Counts, FinishReconcile, TypeOK, VerdictHolds, store, sink, disp, RecordState, ScanState

\* The opened reports count nothing.
LEMMA ReportOpenedQuiet ==
    ASSUME TypeOK, NEW s \in Scanners, NEW f \in Fingerprints, ReportOpened(s, f), NEW b \in Bursts
    PROVE  Quiet(b)
  BY ReportingHolds, NothingCounted DEF Quiet, Uncounted, Counts, ReportOpened, TypeOK, VerdictHolds, store, sink, disp, RecordState, ScanState

\* The resolved reports count nothing.
LEMMA ReportResolvedQuiet ==
    ASSUME TypeOK, NEW s \in Scanners, NEW f \in Fingerprints, ReportResolved(s, f), NEW b \in Bursts
    PROVE  Quiet(b)
  BY ReportingHolds, NothingCounted DEF Quiet, Uncounted, Counts, ReportResolved, TypeOK, VerdictHolds, store, sink, disp, RecordState, ScanState

\* A failed scan drops what it listed.
LEMMA ScanFailsQuiet ==
    ASSUME TypeOK, NEW s \in Scanners, ScanFails(s), NEW b \in Bursts
    PROVE  Quiet(b)
  BY NothingCounted DEF Quiet, Uncounted, Counts, ScanFails, TypeOK, VerdictHolds, store, sink, disp, RecordState, ScanState, IdleScan

\* The clock counts nothing.
LEMMA NextWindowQuiet ==
    ASSUME TypeOK, NextWindow, NEW b \in Bursts
    PROVE  Quiet(b)
  BY DEF Quiet, Uncounted, Counts, NextWindow, TypeOK, VerdictHolds, store, sink, disp, RecordState, ScanState

\* FlushDigests takes the counts the sink remembered.
LEMMA TakeDueQuiet ==
    ASSUME TypeOK, TakeDue, NEW b \in Bursts
    PROVE  Quiet(b)
  BY DEF Quiet, Uncounted, Counts, TakeDue, TypeOK, VerdictHolds, store, sink, disp, RecordState, ScanState

\* A summary sent leaves no count.
LEMMA SendSummaryQuiet ==
    ASSUME TypeOK, NEW c \in Bursts, SendSummary(c), NEW b \in Bursts
    PROVE  Quiet(b)
  BY DEF Quiet, Uncounted, Counts, SendSummary, TypeOK, VerdictHolds, store, sink, disp, RecordState, ScanState

\* The dispatcher counts no touches.
LEMMA FlushBatchQuiet ==
    ASSUME TypeOK, FlushBatch, NEW b \in Bursts
    PROVE  Quiet(b)
  BY DEF Quiet, Uncounted, Counts, FlushBatch, TypeOK, VerdictHolds, store, sink, disp, RecordState, ScanState

\* A verdict reads a row with its count.
LEMMA ReadForVerdictQuiet ==
    ASSUME TypeOK, NEW f \in Fingerprints, ReadForVerdict(f), NEW b \in Bursts
    PROVE  Quiet(b)
  BY DEF Quiet, Uncounted, Counts, ReadForVerdict, TypeOK, VerdictHolds, store, sink, disp, RecordState, ScanState

\* A verdict writes the count it has read.
LEMMA WriteVerdictQuiet ==
    ASSUME TypeOK, NEW status \in Asked, WriteVerdict(status), NEW b \in Bursts
    PROVE  Quiet(b)
  BY BurstFacts DEF Quiet, Uncounted, Counts, WriteVerdict, TypeOK, VerdictHolds, store, sink, disp, RecordState, ScanState, Judged, IdleVerdict, VerdictState, Finding

\* Stopping the listener counts nothing.
LEMMA DisarmQuiet ==
    ASSUME TypeOK, Disarm, NEW b \in Bursts
    PROVE  Quiet(b)
  BY DEF Quiet, Uncounted, Counts, Disarm, TypeOK, VerdictHolds, store, sink, disp, RecordState, ScanState

\* Deleting the deployment row counts nothing.
LEMMA DeleteDeploymentQuiet ==
    ASSUME TypeOK, DeleteDeployment, NEW b \in Bursts
    PROVE  Quiet(b)
  BY DEF Quiet, Uncounted, Counts, DeleteDeployment, TypeOK, VerdictHolds, store, sink, disp, RecordState, ScanState

\* A crash leaves the counts of the finding table.
LEMMA CrashQuiet ==
    ASSUME TypeOK, Crash, NEW b \in Bursts
    PROVE  Quiet(b)
  BY NothingCounted, BurstFacts DEF Quiet, Uncounted, Counts, Crash, TypeOK, VerdictHolds, store, sink, disp, RecordState, ScanState, IdleRecord, NoRecord, IdleScan, IdleVerdict

\* A quiet step keeps CountInv.
LEMMA QuietKeepsCounts ==
    ASSUME TypeOK, TypeOK', CountInv, \A b \in Bursts : Quiet(b)
    PROVE  CountInv'
<1> SUFFICES ASSUME NEW b \in Bursts
             PROVE  /\ Waiting(b)' <= trips'[b]
                    /\ \A s \in Scanners : scan'[s].fresh[b] <= trips'[b]
                    /\ \A n \in Counts(b)' : n + Waiting(b)' <= 2 * trips'[b]
  BY DEF CountInv, Waiting
<1>1. Waiting(b)' <= Waiting(b) /\ Waiting(b) \in Nat /\ Waiting(b)' \in Nat
  <2>1. Waiting(b) \in Nat /\ IsFiniteSet(Uncounted(b))
    BY UncountedFinite
  <2>2. Uncounted(b)' \in SUBSET Uncounted(b)
    BY DEF Quiet
  <2> QED BY <2>1, <2>2, FS_Subset, FS_CardinalityType DEF Waiting
<1>2. /\ trips[b] \in Nat /\ trips'[b] = trips[b]
      /\ \A s \in Scanners : scan[s].fresh[b] \in Nat
  BY DEF TypeOK, Quiet, ScanState
<1>3. /\ Waiting(b) <= trips[b]
      /\ \A s \in Scanners : scan[s].fresh[b] <= trips[b]
      /\ \A n \in Counts(b) : n + Waiting(b) <= 2 * trips[b]
  BY DEF CountInv, Waiting
<1>4. \A s \in Scanners : scan'[s].fresh[b] <= trips'[b]
  BY <1>2, <1>3 DEF Quiet
<1>5. ASSUME NEW n \in Counts(b)' PROVE n + Waiting(b)' <= 2 * trips'[b]
  <2>1. n = 0 \/ n \in Counts(b) \/ \E s \in Scanners : n = scan[s].fresh[b]
    BY <1>5 DEF Quiet
  <2>2. CASE n \in Counts(b)
    BY <2>2, <1>1, <1>2, <1>3, CountsType
  <2>3. CASE n = 0 \/ \E s \in Scanners : n = scan[s].fresh[b]
    BY <2>3, <1>1, <1>2, <1>3
  <2> QED BY <2>1, <2>2, <2>3
<1> QED BY <1>1, <1>2, <1>3, <1>4, <1>5

\* A stored trip makes room for two: the call that has yet to count it, and the
\* scan that lists it meanwhile.
LEMMA PutTripKeepsCounts ==
    ASSUME TypeOK, TypeOK', CountInv, NEW r \in Recorders, PutTrip(r)
    PROVE  CountInv'
<1> SUFFICES ASSUME NEW b \in Bursts
             PROVE  /\ Waiting(b)' <= trips'[b]
                    /\ \A s \in Scanners : scan'[s].fresh[b] <= trips'[b]
                    /\ \A n \in Counts(b)' : n + Waiting(b)' <= 2 * trips'[b]
  BY DEF CountInv, Waiting
<1>1. /\ Waiting(b) <= trips[b]
      /\ \A s \in Scanners : scan[s].fresh[b] <= trips[b]
      /\ \A n \in Counts(b) : n + Waiting(b) <= 2 * trips[b]
  BY DEF CountInv, Waiting
<1>2. /\ scan' = scan
      /\ trips'[b] = IF b = rec[r].burst THEN trips[b] + 1 ELSE trips[b]
  BY DEF PutTrip, TypeOK
<1>3. Waiting(b)' = IF b = rec[r].burst THEN Waiting(b) + 1 ELSE Waiting(b)
  <2>1. Uncounted(b)' = IF b = rec[r].burst THEN Uncounted(b) \cup {r} ELSE Uncounted(b)
    BY DEF Uncounted, PutTrip, TypeOK, RecordState
  <2>2. r \notin Uncounted(b)
    BY DEF Uncounted, PutTrip
  <2>3. CASE b = rec[r].burst
    BY <2>1, <2>2, <2>3, UncountedFinite, FS_AddElement DEF Waiting
  <2>4. CASE b # rec[r].burst
    BY <2>1, <2>4 DEF Waiting
  <2> QED BY <2>3, <2>4
<1>4. Counts(b)' \subseteq Counts(b)
  BY DEF Counts, PutTrip, TypeOK, VerdictHolds, store, sink, disp, RecordState
<1>5. /\ trips[b] \in Nat /\ Waiting(b) \in Nat /\ Counts(b) \subseteq Nat
      /\ \A s \in Scanners : scan[s].fresh[b] \in Nat
  BY UncountedFinite, CountsType DEF TypeOK, ScanState
<1> QED BY <1>1, <1>2, <1>3, <1>4, <1>5

\* A Get, whether it fails or not, counts a trip that no longer waits for it.
LEMMA GetKeepsCounts ==
    ASSUME TypeOK, TypeOK', CountInv, NEW r \in Recorders, GetFinding(r) \/ GetFindingFails(r)
    PROVE  CountInv'
<1> SUFFICES ASSUME NEW b \in Bursts
             PROVE  /\ Waiting(b)' <= trips'[b]
                    /\ \A s \in Scanners : scan'[s].fresh[b] <= trips'[b]
                    /\ \A n \in Counts(b)' : n + Waiting(b)' <= 2 * trips'[b]
  BY DEF CountInv, Waiting
<1>1. /\ Waiting(b) <= trips[b]
      /\ \A s \in Scanners : scan[s].fresh[b] <= trips[b]
      /\ \A n \in Counts(b) : n + Waiting(b) <= 2 * trips[b]
  BY DEF CountInv, Waiting
<1>2. scan' = scan /\ trips' = trips
  BY DEF GetFinding, GetFindingFails, store
<1>3. /\ Waiting(b)' = IF b = rec[r].burst THEN Waiting(b) - 1 ELSE Waiting(b)
      /\ Waiting(b)' \in Nat
  <2>1. Uncounted(b)' = IF b = rec[r].burst THEN Uncounted(b) \ {r} ELSE Uncounted(b)
    BY DEF Uncounted, GetFinding, GetFindingFails, TypeOK, RecordState
  <2>2. b = rec[r].burst => r \in Uncounted(b)
    BY DEF Uncounted, GetFinding, GetFindingFails
  <2>3. CASE b = rec[r].burst
    BY <2>1, <2>2, <2>3, UncountedFinite, FS_RemoveElement, FS_CardinalityType DEF Waiting
  <2>4. CASE b # rec[r].burst
    BY <2>1, <2>4, UncountedFinite DEF Waiting
  <2> QED BY <2>3, <2>4
<1>4. /\ trips[b] \in Nat /\ Waiting(b) \in Nat /\ Waiting(b)' \in Nat /\ Counts(b) \subseteq Nat
      /\ \A s \in Scanners : scan[s].fresh[b] \in Nat
  BY UncountedFinite, CountsType, <1>3 DEF TypeOK, ScanState
<1>5. \A n \in Counts(b)' :
         \/ n \in Counts(b)
         \/ b = rec[r].burst /\ n \in {1, finding[b].touches + 1}
  <2> SUFFICES ASSUME NEW n \in Counts(b)'
               PROVE  \/ n \in Counts(b)
                      \/ b = rec[r].burst /\ n \in {1, finding[b].touches + 1}
    OBVIOUS
  <2>1. CASE \E q \in Recorders : CountedByRecord(q, b, n)'
    <3>1. PICK q \in Recorders : CountedByRecord(q, b, n)'
      BY <2>1
    <3>2. CASE q # r
      <4>1. rec'[q] = rec[q]
        BY <3>2 DEF GetFinding, GetFindingFails, TypeOK
      <4> QED BY <3>1, <4>1, CountsParts DEF CountedByRecord
    <3>3. CASE q = r
      <4>1. /\ rec'[r].burst = rec[r].burst
            /\ rec'[r].touches \in {1, finding[rec[r].burst].touches + 1}
        BY DEF GetFinding, GetFindingFails, TypeOK, RecordState
      <4> QED BY <3>1, <3>3, <4>1 DEF CountedByRecord
    <3> QED BY <3>2, <3>3
  <2>2. CASE \/ CountedInTables(b, n)'
             \/ \E s \in Scanners : CountedByScan(s, b, n)'
             \/ CountedByVerdict(b, n)'
    BY <2>2, CountsParts DEF CountedInTables, CountedByScan, CountedByVerdict, VerdictHolds,
       GetFinding, GetFindingFails, store, sink
  <2> QED BY <2>1, <2>2, CountsPartsNext
<1>6. finding[b].touches \in Counts(b)
  BY DEF Counts
<1>7. ASSUME NEW n \in Counts(b)' PROVE n + Waiting(b)' <= 2 * trips[b]
  <2>1. CASE n \in Counts(b)
    BY <2>1, <1>1, <1>3, <1>4
  <2>2. CASE b = rec[r].burst /\ n = 1
    BY <2>2, <1>1, <1>3, <1>4
  <2>3. CASE b = rec[r].burst /\ n = finding[b].touches + 1
    BY <2>3, <1>1, <1>3, <1>4, <1>6
  <2> QED BY <1>5, <1>7, <2>1, <2>2, <2>3
<1>8. Waiting(b)' <= trips[b]
  BY <1>1, <1>3, <1>4
<1> QED BY <1>1, <1>2, <1>7, <1>8

\* At the start nothing is counted and nothing is stored.
LEMMA CountInit == Init => CountInv
<1> SUFFICES ASSUME Init, NEW b \in Bursts
             PROVE  /\ Waiting(b) <= trips[b]
                    /\ \A s \in Scanners : scan[s].fresh[b] <= trips[b]
                    /\ \A n \in Counts(b) : n + Waiting(b) <= 2 * trips[b]
  BY DEF CountInv, Waiting
<1>1. Uncounted(b) = {}
  BY DEF Init, Uncounted, IdleRecord, NoRecord
<1>2. Waiting(b) = 0 /\ trips[b] = 0
  BY <1>1, FS_EmptySet, NothingCounted DEF Waiting, Init
<1>3. \A s \in Scanners : scan[s].fresh[b] = 0 /\ scan[s].prev[b].touches = 0
  BY NothingCounted DEF Init, IdleScan
<1>4. \A n \in Counts(b) : n = 0
  BY <1>3, NothingCounted DEF Init, Counts, IdleRecord, NoRecord, IdleVerdict, VerdictHolds
<1> QED BY <1>2, <1>3, <1>4

\* Every step keeps CountInv.
LEMMA CountStep == TypeOK /\ CountInv /\ [Next]_vars => CountInv'
<1> SUFFICES ASSUME TypeOK, CountInv, [Next]_vars PROVE CountInv'
  OBVIOUS
<1>1. TypeOK'
  BY NextType
<1>2. CASE UNCHANGED vars
  BY <1>2 DEF vars, CountInv, Counts, Uncounted, VerdictHolds
<1>3. ASSUME NEW r \in Recorders, Record(r) \/ \E k \in Keys : Contact(r, k) PROVE CountInv'
  BY <1>1, <1>3, PutTripKeepsCounts, GetKeepsCounts, QuietKeepsCounts, ContactQuiet, StampQuiet,
     UpsertFindingQuiet, RecordFailsQuiet, RememberBurstQuiet, AlertOpenedQuiet
  DEF Record
<1>4. ASSUME NEW s \in Scanners, Scan(s) \/ StartScan(s) PROVE CountInv'
  BY <1>1, <1>4, QuietKeepsCounts, StartScanQuiet, ReadDeploymentQuiet, ReadTripsQuiet,
     ReadFindingsQuiet, MergeFreshQuiet, MergeAbsentQuiet, FinishReconcileQuiet,
     ReportOpenedQuiet, ReportResolvedQuiet, ScanFailsQuiet
  DEF Scan
<1>5. CASE Digest
  BY <1>1, <1>5, QuietKeepsCounts, TakeDueQuiet, SendSummaryQuiet DEF Digest
<1>6. CASE \/ NextWindow \/ FlushBatch
           \/ \E f \in Fingerprints : ReadForVerdict(f)
           \/ \E status \in Asked : WriteVerdict(status)
           \/ Disarm \/ DeleteDeployment \/ Crash
  BY <1>1, <1>6, QuietKeepsCounts, NextWindowQuiet, FlushBatchQuiet, ReadForVerdictQuiet,
     WriteVerdictQuiet, DisarmQuiet, DeleteDeploymentQuiet, CrashQuiet
<1> QED BY <1>2, <1>3, <1>4, <1>5, <1>6 DEF Next

\* No finding and no summary shows more than twice the touches stored, for any
\* number of calls, scans and verdicts that overlap, with any failed store calls
\* and crashes.
THEOREM CountsAreBounded == Spec => []CountAtMostDouble
<1>1. ASSUME TypeOK, CountInv PROVE CountAtMostDouble
  <2> SUFFICES ASSUME NEW b \in Bursts
               PROVE  /\ finding[b].touches <= 2 * trips[b]
                      /\ pending[b] <= 2 * trips[b]
                      /\ flushing[b] <= 2 * trips[b]
    BY DEF CountAtMostDouble
  <2>1. \A n \in Counts(b) : n + Waiting(b) <= 2 * trips[b]
    BY <1>1 DEF CountInv, Waiting
  <2>2. Counts(b) \subseteq Nat /\ Waiting(b) \in Nat /\ trips[b] \in Nat
    BY <1>1, CountsType, UncountedFinite DEF TypeOK
  <2>3. \A n \in Counts(b) : n <= 2 * trips[b]
    BY <2>1, <2>2
  <2>4. {finding[b].touches, pending[b], flushing[b]} \subseteq Counts(b)
    BY DEF Counts
  <2> QED BY <2>3, <2>4
<1> QED BY <1>1, TypeCorrect, CountInit, CountStep, PTL DEF Spec

=============================================================================
