-------------------------- MODULE TripAnnounceProofs --------------------------
(***************************************************************************)
(* What the two paths of TripPaths promise each other, for every value of  *)
(* its constants.                                                          *)
(*                                                                         *)
(* NoSilentFinding: the paths may leave the announcement of a finding to   *)
(* each other, and as long as no scan fails and the process does not       *)
(* crash, one of them makes it.  The argument has two halves.  Once a      *)
(* finding is announced, or a call in flight owes the announcement, that   *)
(* stays so (AnnouncedStays).  And nobody comes to take the announcement   *)
(* for granted but on the word of a row, or of a process that relied on it *)
(* already (ReliedStep).                                                   *)
(*                                                                         *)
(* AnnouncementsBounded: the polling announces a burst once.  Most steps   *)
(* are calm, they make no announcement and leave no new one to be made     *)
(* (Calm, CalmKeepsBound); the others pay for the announcement they make.  *)
(*                                                                         *)
(* SuppressionOutlivesScans: a scan that counts an absence listed a row    *)
(* whose absences count (ScanSound).                                       *)
(***************************************************************************)
EXTENDS TripPathsProofs

-----------------------------------------------------------------------------
(* NoSilentFinding. *)

\* Owed and Relied, one name for what each process contributes.
OwedByRecord(r, f) == /\ rec[r].pc \in {"remember", "alert"}
                      /\ ~rec[r].repeat
                      /\ rec[r].burst = f

ReliedByRecord(r, f) == /\ rec[r].pc = "upsert"
                        /\ rec[r].repeat
                        /\ rec[r].burst = f

ReliedByScan(s, f) == \/ Stored(scan[s].prev[f])
                      \/ /\ scan[s].pc = "merge"
                         /\ f \in scan[s].todo \ Emitted(s)

\* Owed and Relied, one name for what each process contributes.
LEMMA OwedParts ==
    ASSUME NEW f
    PROVE  Owed(f) <=> \/ \E r \in Recorders : OwedByRecord(r, f)
                       \/ \E s \in Scanners : f \in scan[s].opened
  BY DEF Owed, OwedByRecord

\* The parties that rely on an announcement, one by one.
LEMMA ReliedParts ==
    ASSUME NEW f
    PROVE  Relied(f) <=> \/ Stored(finding[f])
                         \/ \E r \in Recorders : ReliedByRecord(r, f)
                         \/ \E s \in Scanners : ReliedByScan(s, f)
                         \/ VerdictHolds(f)
  BY DEF Relied, ReliedByRecord, ReliedByScan

-----------------------------------------------------------------------------
(* Announcements are never taken back. *)

\* An event that the dispatcher has accepted stays accepted until it is sent,
\* and what is sent stays sent; a crash that empties the batch is on record.
LEMMA ToldStays ==
    ASSUME TypeOK, [Next]_vars, NEW f \in Fingerprints \ dropped', Told("opened", f)
    PROVE  Told("opened", f)'
<1>1. Event("opened", f) \in AllEvents
  BY EventTypes DEF Kinds
<1>2. ASSUME NEW e \in AllEvents, Dispatcher!Accept(e) PROVE Told("opened", f)'
  BY <1>2 DEF Dispatcher!Accept, Told
<1>3. CASE FlushBatch
  <2>1. Event("opened", f) \in batch => sent'[Event("opened", f)] > 0
    BY <1>1, <1>3 DEF FlushBatch, Dispatcher!Flush, Dispatcher!Send, TypeOK
  <2>2. sent[Event("opened", f)] > 0 => sent'[Event("opened", f)] > 0
    BY <1>1, <1>3 DEF FlushBatch, Dispatcher!Flush, Dispatcher!Send, TypeOK
  <2> QED BY <2>1, <2>2 DEF Told
<1>4. CASE UNCHANGED disp
  BY <1>4 DEF disp, Told
<1>6. CASE Crash
  BY <1>6 DEF Crash, Told
<1>5. \/ \E e \in AllEvents : Dispatcher!Accept(e)
      \/ FlushBatch
      \/ UNCHANGED disp
      \/ Crash
  <2>1. CASE UNCHANGED vars
    BY <2>1 DEF vars, disp
  <2>2. ASSUME NEW r \in Recorders, Record(r) \/ \E k \in Keys : Contact(r, k)
        PROVE  UNCHANGED disp \/ \E e \in AllEvents : Dispatcher!Accept(e)
    <3>1. rec[r].burst \in Fingerprints
      BY BurstFacts DEF TypeOK, RecordState
    <3>2. Event("opened", rec[r].burst) \in AllEvents
      BY <3>1, EventTypes DEF Kinds
    <3> QED BY <2>2, <3>2 DEF Record, Contact, Stamp, PutTrip, GetFinding, GetFindingFails,
               UpsertFinding, RecordFails, RememberBurst, AlertOpened
  <2>3. ASSUME NEW s \in Scanners, Scan(s) \/ StartScan(s)
        PROVE  UNCHANGED disp \/ \E e \in AllEvents : Dispatcher!Accept(e)
    <3>1. \A g \in Fingerprints : /\ Event("opened", g) \in AllEvents
                                  /\ Event("resolved", g) \in AllEvents
      BY EventTypes DEF Kinds
    <3> QED BY <2>3, <3>1 DEF Scan, StartScan, ReadDeployment, ReadTrips, ReadFindings,
               MergeFresh, MergeAbsent, FinishReconcile, ReportOpened, ReportResolved,
               ScanFails
  <2>4. CASE Digest
    <3>1. \A b \in Bursts : Event("summary", b) \in AllEvents
      BY BurstFacts, EventTypes DEF Kinds
    <3> QED BY <2>4, <3>1 DEF Digest, TakeDue, SendSummary
  <2>6. CASE \/ NextWindow
             \/ \E g \in Fingerprints : ReadForVerdict(g)
             \/ \E status \in Asked : WriteVerdict(status)
             \/ Disarm
             \/ DeleteDeployment
    BY <2>6 DEF NextWindow, ReadForVerdict, WriteVerdict, Disarm, DeleteDeployment
  <2> QED BY <2>1, <2>2, <2>3, <2>4, <2>6 DEF Next
<1> QED BY <1>2, <1>3, <1>4, <1>5, <1>6

\* A Record call that owes an announcement keeps owing it until it makes it.
LEMMA RecordStillOwes ==
    ASSUME TypeOK, [Next]_vars, NEW r \in Recorders, NEW f \in Fingerprints \ dropped',
           OwedByRecord(r, f)
    PROVE  OwedByRecord(r, f)' \/ Told("opened", f)'
<1>1. CASE rec'[r] = rec[r]
  BY <1>1 DEF OwedByRecord
<1>2. CASE RememberBurst(r)
  BY <1>2 DEF RememberBurst, OwedByRecord, TypeOK, RecordState
<1>3. CASE AlertOpened(r)
  BY <1>3 DEF AlertOpened, Dispatcher!Accept, OwedByRecord, Told
<1>4. RememberBurst(r) \/ AlertOpened(r) \/ rec'[r] = rec[r]
  <2>1. CASE UNCHANGED vars
    BY <2>1 DEF vars
  <2>2. ASSUME NEW q \in Recorders, q # r, Record(q) \/ \E k \in Keys : Contact(q, k)
        PROVE  rec'[r] = rec[r]
    BY <2>2 DEF TypeOK, Record, Contact, Stamp, PutTrip, GetFinding, GetFindingFails,
       UpsertFinding, RecordFails, RememberBurst, AlertOpened
  <2>3. CASE Record(r) \/ \E k \in Keys : Contact(r, k)
    BY <2>3 DEF OwedByRecord, Record, Contact, Stamp, PutTrip, GetFinding,
       GetFindingFails, UpsertFinding, RecordFails
  <2>4. ~Crash
    BY DEF Crash, Owed, OwedByRecord
  <2>5. CASE \/ \E s \in Scanners : Scan(s) \/ StartScan(s)
             \/ NextWindow \/ Digest \/ FlushBatch
             \/ \E g \in Fingerprints : ReadForVerdict(g)
             \/ \E status \in Asked : WriteVerdict(status)
             \/ Disarm \/ DeleteDeployment
    <3>1. ASSUME NEW s \in Scanners, Scan(s) \/ StartScan(s) PROVE UNCHANGED rec
      BY <3>1 DEF Scan, StartScan, ReadDeployment, ReadTrips, ReadFindings, MergeFresh,
         MergeAbsent, FinishReconcile, ReportOpened, ReportResolved, ScanFails
    <3>2. \/ \E s \in Scanners : Scan(s) \/ StartScan(s)
          \/ UNCHANGED rec
      BY <2>5 DEF NextWindow, Digest, TakeDue, SendSummary, FlushBatch, ReadForVerdict,
         WriteVerdict, Disarm, DeleteDeployment
    <3> QED BY <3>1, <3>2
  <2> QED BY <2>1, <2>2, <2>3, <2>4, <2>5 DEF Next
<1> QED BY <1>1, <1>2, <1>3, <1>4

\* A scan that opened a finding keeps it until it has announced it.
LEMMA ScanStillOwes ==
    ASSUME TypeOK, [Next]_vars, NEW s \in Scanners, NEW f \in Fingerprints \ dropped',
           f \in scan[s].opened
    PROVE  f \in scan'[s].opened \/ Told("opened", f)'
<1>1. CASE scan'[s].opened = scan[s].opened
  BY <1>1
<1>2. ASSUME NEW g \in Fingerprints, MergeFresh(s, g) PROVE f \in scan'[s].opened
  BY <1>2 DEF MergeFresh, TypeOK, ScanState
<1>3. CASE FinishReconcile(s)
  <2>1. scan'[s] = Reporting(scan[s].opened, scan[s].resolved)
    BY <1>3 DEF FinishReconcile, TypeOK
  <2> QED BY <2>1, ReportingHolds
<1>4. ASSUME NEW g \in Fingerprints, ReportOpened(s, g)
      PROVE  f \in scan'[s].opened \/ Told("opened", f)'
  <2>1. scan'[s] = Reporting(scan[s].opened \ {g}, scan[s].resolved)
    BY <1>4 DEF ReportOpened, TypeOK
  <2>2. scan'[s].opened = scan[s].opened \ {g}
    BY <2>1, ReportingHolds
  <2>3. Told("opened", g)'
    BY <1>4 DEF ReportOpened, Dispatcher!Accept, Told
  <2> QED BY <2>2, <2>3
<1>5. \/ scan'[s].opened = scan[s].opened
      \/ \E g \in Fingerprints : MergeFresh(s, g) \/ ReportOpened(s, g)
      \/ FinishReconcile(s)
  <2>1. CASE UNCHANGED scan
    BY <2>1
  <2>2. ASSUME NEW t \in Scanners, t # s, Scan(t) \/ StartScan(t) PROVE scan'[s] = scan[s]
    BY <2>2 DEF TypeOK, Scan, StartScan, ReadDeployment, ReadTrips, ReadFindings, MergeFresh,
       MergeAbsent, FinishReconcile, ReportOpened, ReportResolved, ScanFails
  <2>3. ASSUME NEW g \in Fingerprints, MergeAbsent(s, g) PROVE scan'[s].opened = scan[s].opened
    BY <2>3 DEF MergeAbsent, TypeOK, ScanState
  <2>4. CASE StartScan(s) \/ ReadDeployment(s) \/ ReadTrips(s) \/ ReadFindings(s)
    <3>1. scan[s] \in ScanState /\ scan \in [Scanners -> ScanState]
      BY DEF TypeOK
    <3>2. CASE StartScan(s)
      BY <3>1, <3>2 DEF StartScan, ScanState
    <3>3. CASE ReadDeployment(s)
      BY <3>1, <3>3 DEF ReadDeployment, ScanState
    <3>4. CASE ReadTrips(s)
      BY <3>1, <3>4 DEF ReadTrips, ScanState
    <3>5. CASE ReadFindings(s)
      BY <3>1, <3>5 DEF ReadFindings, ScanState
    <3> QED BY <2>4, <3>2, <3>3, <3>4, <3>5
  <2>5. \A g \in Fingerprints : ~ReportResolved(s, g)
    BY DEF ReportResolved
  <2>10. \A g \in Fingerprints : \/ MergeFresh(s, g)
                                  \/ MergeAbsent(s, g)
                                  \/ ReportOpened(s, g)
                                  \/ ReportResolved(s, g)
           => \/ scan'[s].opened = scan[s].opened
              \/ MergeFresh(s, g) \/ ReportOpened(s, g)
    BY <2>3, <2>5
  <2>6. ~ScanFails(s) /\ ~Crash
    BY DEF ScanFails, Crash, Owed
  <2>7. \/ \E t \in Scanners : Scan(t) \/ StartScan(t)
        \/ UNCHANGED scan
    BY <2>6 DEF Next, vars, Record, Contact, Stamp, PutTrip, GetFinding, GetFindingFails,
       UpsertFinding, RecordFails, RememberBurst, AlertOpened, NextWindow, Digest, TakeDue,
       SendSummary, FlushBatch, ReadForVerdict, WriteVerdict, Disarm, DeleteDeployment
  <2>8. CASE Scan(s)
    BY <2>4, <2>6, <2>8, <2>10 DEF Scan
  <2>9. CASE StartScan(s)
    BY <2>4, <2>9
  <2> QED BY <2>1, <2>2, <2>7, <2>8, <2>9
<1> QED BY <1>1, <1>2, <1>3, <1>4, <1>5

\* An announcement made or owed stays made or owed, unless a fault loses it.
LEMMA AnnouncedStays ==
    ASSUME TypeOK, [Next]_vars, NEW f \in Fingerprints \ dropped', Announced(f)
    PROVE  Announced(f)'
<1>1. CASE Told("opened", f)
  BY <1>1, ToldStays DEF Announced
<1>2. ASSUME NEW r \in Recorders, OwedByRecord(r, f) PROVE Announced(f)'
  <2>1. CASE OwedByRecord(r, f)'
    BY <2>1 DEF Announced, Owed, OwedByRecord
  <2> QED BY <1>2, <2>1, RecordStillOwes DEF Announced
<1>3. ASSUME NEW s \in Scanners, f \in scan[s].opened PROVE Announced(f)'
  BY <1>3, ScanStillOwes DEF Announced, Owed
<1> QED BY <1>1, <1>2, <1>3, OwedParts DEF Announced

-----------------------------------------------------------------------------
(* Nobody relies on an announcement that is not made or owed. *)

\* Every row that is written was relied on before, or comes with a call that
\* owes its announcement.
LEMMA RowRelied ==
    ASSUME TypeOK, [Next]_vars, NEW f \in Fingerprints, Stored(finding'[f])
    PROVE  Relied(f) \/ Announced(f)'
<1>1. CASE finding'[f] = finding[f]
  BY <1>1 DEF Relied
<1>2. ASSUME NEW r \in Recorders, UpsertFinding(r), finding'[f] # finding[f]
      PROVE  Relied(f) \/ Announced(f)'
  <2>1. rec[r].burst = f
    BY <1>2 DEF UpsertFinding, TypeOK
  <2>2. CASE rec[r].repeat
    BY <1>2, <2>1, <2>2 DEF UpsertFinding, Relied
  <2>3. CASE ~rec[r].repeat
    <3>1. OwedByRecord(r, f)'
      BY <1>2, <2>1, <2>3 DEF UpsertFinding, OwedByRecord, TypeOK, RecordState
    <3> QED BY <3>1 DEF Announced, Owed, OwedByRecord
  <2> QED BY <2>2, <2>3
<1>3. ASSUME NEW s \in Scanners, NEW g \in Fingerprints, MergeFresh(s, g),
             finding'[f] # finding[f]
      PROVE  Relied(f) \/ Announced(f)'
  <2>1. g = f
    BY <1>3 DEF MergeFresh, TypeOK
  <2>2. CASE Stored(scan[s].prev[f])
    BY <2>2 DEF Relied
  <2>3. CASE ~Stored(scan[s].prev[f])
    <3>1. f \in scan'[s].opened
      BY <1>3, <2>1, <2>3 DEF MergeFresh, TypeOK, ScanState
    <3> QED BY <3>1 DEF Announced, Owed
  <2> QED BY <2>2, <2>3
<1>4. ASSUME NEW s \in Scanners, NEW g \in Fingerprints, MergeAbsent(s, g),
             finding'[f] # finding[f]
      PROVE  Relied(f)
  <2>1. g = f
    BY <1>4 DEF MergeAbsent, TypeOK
  <2> QED BY <1>4, <2>1 DEF MergeAbsent, Relied
<1>5. ASSUME NEW status \in Asked, WriteVerdict(status), finding'[f] # finding[f]
      PROVE  Relied(f)
  BY <1>5 DEF WriteVerdict, TypeOK, Relied, VerdictHolds
<1>6. \/ UNCHANGED finding
      \/ \E r \in Recorders : UpsertFinding(r)
      \/ \E s \in Scanners, g \in Fingerprints : MergeFresh(s, g) \/ MergeAbsent(s, g)
      \/ \E status \in Asked : WriteVerdict(status)
  BY DEF Next, vars, store, Record, Contact, Stamp, PutTrip, GetFinding, GetFindingFails,
     RecordFails, RememberBurst, AlertOpened, Scan, StartScan, ReadDeployment, ReadTrips,
     ReadFindings, FinishReconcile, ReportOpened, ReportResolved, ScanFails, NextWindow,
     Digest, TakeDue, SendSummary, FlushBatch, ReadForVerdict, Disarm, DeleteDeployment,
     Crash
<1> QED BY <1>1, <1>2, <1>3, <1>4, <1>5, <1>6

\* A Record call takes itself for a repeat only because it found a row.
LEMMA RecordRelied ==
    ASSUME TypeOK, [Next]_vars, NEW r \in Recorders, NEW f \in Fingerprints,
           ReliedByRecord(r, f)'
    PROVE  ReliedByRecord(r, f) \/ Stored(finding[f])
<1>1. CASE rec'[r] = rec[r]
  BY <1>1 DEF ReliedByRecord
<1>2. CASE GetFinding(r)
  BY <1>2 DEF GetFinding, ReliedByRecord, TypeOK, RecordState
<1>3. rec'[r] = rec[r] \/ GetFinding(r)
  <2>1. CASE UNCHANGED rec
    BY <2>1
  <2>2. ASSUME NEW q \in Recorders, q # r, Record(q) \/ \E k \in Keys : Contact(q, k)
        PROVE  rec'[r] = rec[r]
    BY <2>2 DEF TypeOK, Record, Contact, Stamp, PutTrip, GetFinding, GetFindingFails,
       UpsertFinding, RecordFails, RememberBurst, AlertOpened
  <2>3. rec'[r].pc = "upsert" /\ rec'[r].repeat
    BY DEF ReliedByRecord
  <2>4. rec[r] \in RecordState /\ rec \in [Recorders -> RecordState]
    BY DEF TypeOK
  <2>5. ~Stamp(r) /\ ~PutTrip(r) /\ ~GetFindingFails(r) /\ ~UpsertFinding(r)
    BY <2>3, <2>4 DEF Stamp, PutTrip, GetFindingFails, UpsertFinding, RecordState
  <2>6. ~RecordFails(r) /\ ~RememberBurst(r) /\ ~AlertOpened(r) /\ ~Crash
    BY <2>3, <2>4 DEF RecordFails, RememberBurst, AlertOpened, Crash, RecordState,
       IdleRecord, NoRecord
  <2>7. \A k \in Keys : ~Contact(r, k)
    BY <2>3, <2>4 DEF Contact, NoRecord, RecordState
  <2>8. \/ \E q \in Recorders : Record(q) \/ \E k \in Keys : Contact(q, k)
        \/ UNCHANGED rec
    <3>1. ASSUME NEW s \in Scanners, Scan(s) \/ StartScan(s) PROVE UNCHANGED rec
      BY <3>1 DEF Scan, StartScan, ReadDeployment, ReadTrips, ReadFindings, MergeFresh,
         MergeAbsent, FinishReconcile, ReportOpened, ReportResolved, ScanFails
    <3> QED BY <2>6, <3>1 DEF Next, vars, NextWindow, Digest, TakeDue, SendSummary,
         FlushBatch, ReadForVerdict, WriteVerdict, Disarm, DeleteDeployment
  <2>9. CASE Record(r)
    BY <2>5, <2>6, <2>9 DEF Record
  <2> QED BY <2>1, <2>2, <2>7, <2>8, <2>9
<1> QED BY <1>1, <1>2, <1>3

\* A verdict is given on a row that was read.
LEMMA VerdictRelied ==
    ASSUME TypeOK, [Next]_vars, NEW f \in Fingerprints, VerdictHolds(f)'
    PROVE  VerdictHolds(f) \/ Stored(finding[f])
<1>1. CASE UNCHANGED verdict
  BY <1>1 DEF VerdictHolds
<1>2. ASSUME NEW g \in Fingerprints, ReadForVerdict(g) PROVE Stored(finding[f])
  BY <1>2 DEF ReadForVerdict, VerdictHolds
<1>3. (\A status \in Asked : ~WriteVerdict(status)) /\ ~Crash
  BY DEF WriteVerdict, Crash, VerdictHolds, IdleVerdict
<1>4. (\E g \in Fingerprints : ReadForVerdict(g)) \/ UNCHANGED verdict
  <2>1. ASSUME NEW r \in Recorders, Record(r) \/ \E k \in Keys : Contact(r, k)
        PROVE  UNCHANGED verdict
    BY <2>1 DEF Record, Contact, Stamp, PutTrip, GetFinding, GetFindingFails,
       UpsertFinding, RecordFails, RememberBurst, AlertOpened
  <2>2. ASSUME NEW s \in Scanners, Scan(s) \/ StartScan(s) PROVE UNCHANGED verdict
    BY <2>2 DEF Scan, StartScan, ReadDeployment, ReadTrips, ReadFindings, MergeFresh,
       MergeAbsent, FinishReconcile, ReportOpened, ReportResolved, ScanFails
  <2> QED BY <1>3, <2>1, <2>2 DEF Next, vars, NextWindow, Digest, TakeDue, SendSummary,
       FlushBatch, Disarm, DeleteDeployment
<1> QED BY <1>1, <1>2, <1>4

\* The empty table holds no row of any fingerprint.
LEMMA NoRowsFor == \A f \in Fingerprints : ~Stored(NoRows[f])
  BY DEF NoRows, NoFinding, Stored

\* What a scan lists, and what it will count as absent, are rows.
LEMMA ScanRelied ==
    ASSUME TypeOK, [Next]_vars, NEW s \in Scanners, NEW f \in Fingerprints,
           ReliedByScan(s, f)'
    PROVE  ReliedByScan(s, f) \/ Stored(finding[f])
<1>0. scan \in [Scanners -> ScanState] /\ scan[s] \in ScanState
  BY DEF TypeOK
<1>1. CASE scan'[s] = scan[s]
  BY <1>1 DEF ReliedByScan, Emitted
<1>2. CASE StartScan(s) \/ ReadDeployment(s)
  <2>1. scan'[s].prev = scan[s].prev /\ scan'[s].pc # "merge"
    BY <1>0, <1>2 DEF StartScan, ReadDeployment, ScanState
  <2> QED BY <2>1 DEF ReliedByScan
<1>3. CASE ReadTrips(s)
  <2>1. scan'[s].prev = scan[s].prev /\ scan'[s].pc # "merge"
    BY <1>0, <1>3 DEF ReadTrips, ScanState
  <2> QED BY <2>1 DEF ReliedByScan
<1>4. CASE ReadFindings(s)
  <2>1. /\ scan'[s].prev = finding
        /\ scan'[s].todo = Emitted(s) \cup {g \in Fingerprints : CountsAbsence(finding[g])}
        /\ scan'[s].live = scan[s].live
        /\ scan'[s].fresh = scan[s].fresh
    BY <1>0, <1>4 DEF ReadFindings, ScanState
  <2>2. Emitted(s)' = Emitted(s)
    BY <2>1 DEF Emitted
  <2>3. CASE f \in scan'[s].todo \ Emitted(s)'
    BY <2>1, <2>2, <2>3 DEF CountsAbsence, Stored
  <2> QED BY <2>1, <2>3 DEF ReliedByScan
<1>5. ASSUME NEW g \in Fingerprints, MergeFresh(s, g) \/ MergeAbsent(s, g)
      PROVE  ReliedByScan(s, f)
  <2>1. /\ scan'[s].prev = scan[s].prev
        /\ scan'[s].todo \subseteq scan[s].todo
        /\ scan'[s].live = scan[s].live
        /\ scan'[s].fresh = scan[s].fresh
        /\ scan[s].pc = "merge"
    <3>1. CASE MergeFresh(s, g)
      BY <1>0, <3>1 DEF MergeFresh, ScanState
    <3>2. CASE MergeAbsent(s, g)
      BY <1>0, <3>2 DEF MergeAbsent, ScanState
    <3> QED BY <1>5, <3>1, <3>2
  <2>2. Emitted(s)' = Emitted(s)
    BY <2>1 DEF Emitted
  <2> QED BY <2>1, <2>2 DEF ReliedByScan
<1>6. ASSUME NEW opened, NEW resolved, scan'[s] = Reporting(opened, resolved)
      PROVE  FALSE
  <2>1. scan'[s].prev = NoRows /\ scan'[s].todo = {}
    BY <1>6, ReportingHolds
  <2> QED BY <2>1, NoRowsFor DEF ReliedByScan
<1>7. scan'[s] # IdleScan
  BY IdleScanHolds, NoRowsFor DEF ReliedByScan
<1>8. ASSUME NEW g \in Fingerprints
      PROVE  ~ReportOpened(s, g) /\ ~ReportResolved(s, g)
  BY <1>0, <1>6 DEF ReportOpened, ReportResolved
<1>9. ~FinishReconcile(s) /\ ~ScanFails(s) /\ ~Crash
  BY <1>0, <1>6, <1>7 DEF FinishReconcile, ScanFails, Crash
<1>10. \/ scan'[s] = scan[s]
       \/ StartScan(s)
       \/ Scan(s)
  <2>1. ASSUME NEW t \in Scanners, t # s, Scan(t) \/ StartScan(t) PROVE scan'[s] = scan[s]
    BY <2>1 DEF TypeOK, Scan, StartScan, ReadDeployment, ReadTrips, ReadFindings, MergeFresh,
       MergeAbsent, FinishReconcile, ReportOpened, ReportResolved, ScanFails
  <2>2. \/ \E t \in Scanners : Scan(t) \/ StartScan(t)
        \/ UNCHANGED scan
    BY <1>9 DEF Next, vars, Record, Contact, Stamp, PutTrip, GetFinding, GetFindingFails,
       UpsertFinding, RecordFails, RememberBurst, AlertOpened, NextWindow, Digest, TakeDue,
       SendSummary, FlushBatch, ReadForVerdict, WriteVerdict, Disarm, DeleteDeployment
  <2> QED BY <2>1, <2>2
<1>11. CASE Scan(s)
  BY <1>2, <1>3, <1>4, <1>5, <1>8, <1>9, <1>11 DEF Scan
<1> QED BY <1>1, <1>2, <1>10, <1>11

-----------------------------------------------------------------------------
(* The two halves put together. *)

\* Whoever comes to rely on an announcement does so on one already made or
\* owed.
LEMMA ReliedStep ==
    ASSUME TypeOK, [Next]_vars, NEW f \in Fingerprints, Relied(f)'
    PROVE  Relied(f) \/ Announced(f)'
<1>1. CASE Stored(finding'[f])
  BY <1>1, RowRelied
<1>2. ASSUME NEW r \in Recorders, ReliedByRecord(r, f)' PROVE Relied(f)
  BY <1>2, RecordRelied, ReliedParts
<1>3. ASSUME NEW s \in Scanners, ReliedByScan(s, f)' PROVE Relied(f)
  BY <1>3, ScanRelied, ReliedParts
<1>4. CASE VerdictHolds(f)'
  BY <1>4, VerdictRelied, ReliedParts
<1>5. \/ Stored(finding'[f])
      \/ \E r \in Recorders : ReliedByRecord(r, f)'
      \/ \E s \in Scanners : ReliedByScan(s, f)'
      \/ VerdictHolds(f)'
  BY DEF Relied, ReliedByRecord, ReliedByScan
<1> QED BY <1>1, <1>2, <1>3, <1>4, <1>5

\* No row is stored at the start.
LEMMA SilenceInit == Init => SilenceInv
<1> SUFFICES ASSUME Init, NEW f \in Fingerprints PROVE ~Relied(f)
  BY DEF SilenceInv
<1>1. ~Stored(finding[f])
  BY NoRowsFor DEF Init
<1>2. \A r \in Recorders : ~ReliedByRecord(r, f)
  BY DEF Init, ReliedByRecord, IdleRecord, NoRecord
<1>3. \A s \in Scanners : ~ReliedByScan(s, f)
  BY IdleScanHolds, NoRowsFor DEF Init, ReliedByScan
<1>4. ~VerdictHolds(f)
  BY DEF Init, VerdictHolds, IdleVerdict
<1> QED BY <1>1, <1>2, <1>3, <1>4, ReliedParts

\* No loss is forgotten.
LEMMA DroppedStays == TypeOK /\ [Next]_vars => dropped \subseteq dropped'
<1> SUFFICES ASSUME TypeOK, [Next]_vars PROVE dropped \subseteq dropped'
  OBVIOUS
<1>1. ASSUME NEW r \in Recorders, Record(r) \/ \E k \in Keys : Contact(r, k)
      PROVE  dropped \subseteq dropped'
  BY <1>1 DEF Record, Contact, Stamp, PutTrip, GetFinding, GetFindingFails,
     UpsertFinding, RecordFails, RememberBurst, AlertOpened
<1>2. ASSUME NEW s \in Scanners, Scan(s) \/ StartScan(s) PROVE dropped \subseteq dropped'
  BY <1>2 DEF Scan, StartScan, ReadDeployment, ReadTrips, ReadFindings, MergeFresh,
     MergeAbsent, FinishReconcile, ReportOpened, ReportResolved, ScanFails
<1> QED BY <1>1, <1>2 DEF Next, vars, NextWindow, Digest, TakeDue, SendSummary, FlushBatch,
           ReadForVerdict, WriteVerdict, Disarm, DeleteDeployment, Crash

\* Every step keeps SilenceInv.
LEMMA SilenceStep == TypeOK /\ SilenceInv /\ [Next]_vars => SilenceInv'
<1> SUFFICES ASSUME TypeOK, SilenceInv, [Next]_vars,
                    NEW f \in Fingerprints, f \notin dropped', Relied(f)'
             PROVE  Announced(f)'
  BY DEF SilenceInv, Fingerprints, Bursts, Armed
<1>1. f \notin dropped
  BY DroppedStays
<1>2. CASE Relied(f)
  BY <1>1, <1>2, AnnouncedStays DEF SilenceInv
<1> QED BY <1>2, ReliedStep

\* Every finding on the dashboard has been announced, or a call in flight
\* will announce it, for any number of recorders, scans, sources and windows,
\* unless a scan that failed or a crash lost that very announcement:
\* neither path drops the announcement on the word of the other in vain.
THEOREM NoFindingIsSilent == Spec => []NoSilentFinding
<1>1. SilenceInv => NoSilentFinding
  BY DEF SilenceInv, NoSilentFinding, Relied
<1> QED BY <1>1, TypeCorrect, SilenceInit, SilenceStep, PTL DEF Spec

-----------------------------------------------------------------------------
(* AnnouncementsBounded. *)

Calls(b) == Cardinality(Announcing(b))
Batched(b) == Event("opened", b) \in batch
SentOf(b) == sent[Event("opened", b)]

\* A step that makes no announcement and leaves no new one to be made.
Calm(b) ==
    /\ trips'[b] >= trips[b]
    /\ Announcing(b)' \subseteq Announcing(b)
    /\ SentOf(b)' = SentOf(b)
    /\ Batched(b)' => Batched(b)
    /\ PollAnnounces(b)' => PollAnnounces(b)
    /\ PollMayOpen(b)' => PollMayOpen(b)

\* What AnnounceInv says of each scan besides the count.
ScanSound(s) ==
    /\ scan[s].pc \in {"findings", "merge"} /\ ~scan[s].live => trap = "deleted"
    /\ scan[s].pc = "merge" =>
          \A f \in scan[s].todo \ Emitted(s) : CountsAbsence(scan[s].prev[f])

\* The calls that may announce a burst are finitely many.
LEMMA AnnouncingFinite ==
    ASSUME NEW b
    PROVE  IsFiniteSet(Announcing(b)) /\ Calls(b) \in Nat
  BY FS_Subset, FS_CardinalityType, TripPathsAssumption DEF Announcing, Calls

\* An event of a burst tells its kind and its burst.
LEMMA EventsDiffer ==
    ASSUME NEW k, NEW l, NEW f, NEW g
    PROVE  Event(k, f) = Event(l, g) <=> k = l /\ f = g
  BY DEF Event

\* A scan that has left Reconcile does not look at the trap again.
LEMMA ReportingRests ==
    ASSUME NEW opened, NEW resolved
    PROVE  Reporting(opened, resolved).pc \in {"idle", "report"} /\ ~Reporting(opened, resolved).live
  BY DEF Reporting, IdleScan

\* A scan that is over, or on its way to the dispatcher, opens no more findings.
LEMMA RestingScanOpensNone ==
    ASSUME TypeOK, NEW s \in Scanners, NEW b \in Bursts, trap' = trap, finding' = finding,
           scan'[s].pc \in {"idle", "report"},
           \A t \in Scanners : t # s => scan'[t] = scan[t]
    PROVE  PollMayOpen(b)' => PollMayOpen(b)
  BY DEF PollMayOpen, RowMayOpen, ScanMayResolve, ScanWillOpen, Emitted

\* A touch announces nothing.
LEMMA ContactCalm ==
    ASSUME TypeOK, NEW r \in Recorders, NEW k \in Keys, Contact(r, k), NEW b \in Bursts
    PROVE  Calm(b)
  BY DEF Calm, Announcing, SentOf, Batched, PollAnnounces, PollMayOpen, RowMayOpen, ScanMayResolve,
     ScanWillOpen, Emitted, Contact, TypeOK, store, sink, disp, RecordState, ScanState, NoRecord

\* Choosing a window announces nothing.
LEMMA StampCalm ==
    ASSUME TypeOK, NEW r \in Recorders, Stamp(r), NEW b \in Bursts
    PROVE  Calm(b)
  BY DEF Calm, Announcing, SentOf, Batched, PollAnnounces, PollMayOpen, RowMayOpen, ScanMayResolve,
     ScanWillOpen, Emitted, Stamp, TypeOK, store, sink, disp, RecordState, ScanState

\* A call that found a row leaves the announcement to others.
LEMMA GetFindingCalm ==
    ASSUME TypeOK, NEW r \in Recorders, GetFinding(r), NEW b \in Bursts
    PROVE  Calm(b)
  BY DEF Calm, Announcing, SentOf, Batched, PollAnnounces, PollMayOpen, RowMayOpen, ScanMayResolve,
     ScanWillOpen, Emitted, GetFinding, TypeOK, store, sink, disp, RecordState, ScanState

\* A call whose Get failed announces as it would have.
LEMMA GetFindingFailsCalm ==
    ASSUME TypeOK, NEW r \in Recorders, GetFindingFails(r), NEW b \in Bursts
    PROVE  Calm(b)
  BY DEF Calm, Announcing, SentOf, Batched, PollAnnounces, PollMayOpen, RowMayOpen, ScanMayResolve,
     ScanWillOpen, Emitted, GetFindingFails, TypeOK, store, sink, disp, RecordState, ScanState

\* A row that Record writes is open: no scan opens it.
LEMMA UpsertFindingCalm ==
    ASSUME TypeOK, NEW r \in Recorders, UpsertFinding(r), NEW b \in Bursts
    PROVE  Calm(b)
  BY BurstFacts DEF Calm, Announcing, SentOf, Batched, PollAnnounces, PollMayOpen, RowMayOpen, ScanMayResolve,
     ScanWillOpen, Emitted, UpsertFinding, TypeOK, store, sink, disp, RecordState, ScanState, Opened, Stored, Reopens

\* A failed call announces nothing.
LEMMA RecordFailsCalm ==
    ASSUME TypeOK, NEW r \in Recorders, RecordFails(r), NEW b \in Bursts
    PROVE  Calm(b)
  BY DEF Calm, Announcing, SentOf, Batched, PollAnnounces, PollMayOpen, RowMayOpen, ScanMayResolve,
     ScanWillOpen, Emitted, RecordFails, TypeOK, store, sink, disp, RecordState, ScanState, IdleRecord, NoRecord

\* A call that has remembered its burst announces as it would have.
LEMMA RememberBurstCalm ==
    ASSUME TypeOK, NEW r \in Recorders, RememberBurst(r), NEW b \in Bursts
    PROVE  Calm(b)
  BY DEF Calm, Announcing, SentOf, Batched, PollAnnounces, PollMayOpen, RowMayOpen, ScanMayResolve,
     ScanWillOpen, Emitted, RememberBurst, TypeOK, store, sink, disp, RecordState, ScanState, IdleRecord, NoRecord

\* Starting a scan announces nothing.
LEMMA StartScanCalm ==
    ASSUME TypeOK, NEW s \in Scanners, StartScan(s), NEW b \in Bursts
    PROVE  Calm(b)
  BY DEF Calm, Announcing, SentOf, Batched, PollAnnounces, PollMayOpen, RowMayOpen, ScanMayResolve,
     ScanWillOpen, Emitted, StartScan, TypeOK, store, sink, disp, RecordState, ScanState

\* A scan that reads the row of the trap finds what a later one would.
LEMMA ReadDeploymentCalm ==
    ASSUME TypeOK, NEW s \in Scanners, ReadDeployment(s), NEW b \in Bursts
    PROVE  Calm(b)
  BY DEF Calm, Announcing, SentOf, Batched, PollAnnounces, PollMayOpen, RowMayOpen, ScanMayResolve,
     ScanWillOpen, Emitted, ReadDeployment, TypeOK, store, sink, disp, RecordState, ScanState

\* The clock announces nothing.
LEMMA NextWindowCalm ==
    ASSUME TypeOK, NextWindow, NEW b \in Bursts
    PROVE  Calm(b)
  BY DEF Calm, Announcing, SentOf, Batched, PollAnnounces, PollMayOpen, RowMayOpen, ScanMayResolve,
     ScanWillOpen, Emitted, NextWindow, TypeOK, store, sink, disp, RecordState, ScanState

\* FlushDigests takes bursts and opens none.
LEMMA TakeDueCalm ==
    ASSUME TypeOK, TakeDue, NEW b \in Bursts
    PROVE  Calm(b)
  BY DEF Calm, Announcing, SentOf, Batched, PollAnnounces, PollMayOpen, RowMayOpen, ScanMayResolve,
     ScanWillOpen, Emitted, TakeDue, TypeOK, store, sink, disp, RecordState, ScanState

\* A summary is no announcement.
LEMMA SendSummaryCalm ==
    ASSUME TypeOK, NEW c \in Bursts, SendSummary(c), NEW b \in Bursts
    PROVE  Calm(b)
  BY EventsDiffer DEF Calm, Announcing, SentOf, Batched, PollAnnounces, PollMayOpen, RowMayOpen, ScanMayResolve,
     ScanWillOpen, Emitted, SendSummary, TypeOK, store, sink, disp, RecordState, ScanState, Dispatcher!Accept

\* A resolution is no announcement.
LEMMA ReportResolvedCalm ==
    ASSUME TypeOK, NEW s \in Scanners, NEW f \in Fingerprints, ReportResolved(s, f), NEW b \in Bursts
    PROVE  Calm(b)
<1>1. /\ scan'[s] = Reporting({}, scan[s].resolved \ {f})
      /\ \A t \in Scanners : t # s => scan'[t] = scan[t]
  BY DEF ReportResolved, TypeOK
<1>2. PollMayOpen(b)' => PollMayOpen(b)
  BY <1>1, ReportingRests, RestingScanOpensNone DEF ReportResolved, store
<1>3. PollAnnounces(b)' => PollAnnounces(b)
  BY <1>1, ReportingHolds DEF PollAnnounces
<1>4. /\ trips' = trips /\ Announcing(b)' = Announcing(b)
      /\ SentOf(b)' = SentOf(b) /\ (Batched(b)' => Batched(b))
  BY EventsDiffer DEF ReportResolved, Announcing, SentOf, Batched, store, disp, Dispatcher!Accept
<1> QED BY <1>2, <1>3, <1>4 DEF Calm, TypeOK

\* The end of Reconcile leaves what it opened.
LEMMA FinishReconcileCalm ==
    ASSUME TypeOK, NEW s \in Scanners, FinishReconcile(s), NEW b \in Bursts
    PROVE  Calm(b)
<1>1. /\ scan'[s] = Reporting(scan[s].opened, scan[s].resolved)
      /\ \A t \in Scanners : t # s => scan'[t] = scan[t]
  BY DEF FinishReconcile, TypeOK
<1>2. PollMayOpen(b)' => PollMayOpen(b)
  BY <1>1, ReportingRests, RestingScanOpensNone DEF FinishReconcile, store
<1>3. PollAnnounces(b)' => PollAnnounces(b)
  BY <1>1, ReportingHolds DEF PollAnnounces
<1>4. /\ trips' = trips /\ Announcing(b)' = Announcing(b)
      /\ SentOf(b)' = SentOf(b) /\ (Batched(b)' => Batched(b))
  BY DEF FinishReconcile, Announcing, SentOf, Batched, store, disp, Dispatcher!Accept
<1> QED BY <1>2, <1>3, <1>4 DEF Calm, TypeOK

\* A failed scan drops what it opened.
LEMMA ScanFailsCalm ==
    ASSUME TypeOK, NEW s \in Scanners, ScanFails(s), NEW b \in Bursts
    PROVE  Calm(b)
  BY DEF Calm, Announcing, SentOf, Batched, PollAnnounces, PollMayOpen, RowMayOpen, ScanMayResolve,
     ScanWillOpen, Emitted, ScanFails, TypeOK, store, sink, disp, RecordState, ScanState, IdleScan

\* A verdict reads.
LEMMA ReadForVerdictCalm ==
    ASSUME TypeOK, NEW f \in Fingerprints, ReadForVerdict(f), NEW b \in Bursts
    PROVE  Calm(b)
  BY DEF Calm, Announcing, SentOf, Batched, PollAnnounces, PollMayOpen, RowMayOpen, ScanMayResolve,
     ScanWillOpen, Emitted, ReadForVerdict, TypeOK, store, sink, disp, RecordState, ScanState

\* No verdict resolves or removes a row.
LEMMA WriteVerdictCalm ==
    ASSUME TypeOK, NEW status \in Asked, WriteVerdict(status), NEW b \in Bursts
    PROVE  Calm(b)
<1>1. verdict.row \in Finding /\ status \in {"open", "acknowledged", "suppressed"}
  BY TripPathsAssumption DEF TypeOK, VerdictState, UserStatuses
<1>2. Stored(Judged(verdict.row, status)) /\ ~Reopens(Judged(verdict.row, status))
  BY <1>1 DEF Judged, Stored, Reopens, Finding
<1>3. RowMayOpen(b)' => RowMayOpen(b)
  <2>1. finding'[b] = finding[b] \/ finding'[b] = Judged(verdict.row, status)
    BY BurstFacts DEF WriteVerdict, TypeOK
  <2> QED BY <1>2, <2>1 DEF RowMayOpen, WriteVerdict
<1>4. PollMayOpen(b)' => PollMayOpen(b)
  BY <1>3 DEF PollMayOpen, ScanMayResolve, ScanWillOpen, Emitted, WriteVerdict
<1> QED BY <1>4 DEF Calm, Announcing, SentOf, Batched, PollAnnounces, WriteVerdict, disp, TypeOK

\* Stopping the listener announces nothing.
LEMMA DisarmCalm ==
    ASSUME TypeOK, Disarm, NEW b \in Bursts
    PROVE  Calm(b)
  BY DEF Calm, Announcing, SentOf, Batched, PollAnnounces, PollMayOpen, RowMayOpen, ScanMayResolve,
     ScanWillOpen, Emitted, Disarm, TypeOK, store, sink, disp, RecordState, ScanState

\* Deleting the deployment row announces nothing.
LEMMA DeleteDeploymentCalm ==
    ASSUME TypeOK, DeleteDeployment, NEW b \in Bursts
    PROVE  Calm(b)
  BY DEF Calm, Announcing, SentOf, Batched, PollAnnounces, PollMayOpen, RowMayOpen, ScanMayResolve,
     ScanWillOpen, Emitted, DeleteDeployment, TypeOK, store, sink, disp, RecordState, ScanState

\* A crash loses announcements and makes none.
LEMMA CrashCalm ==
    ASSUME TypeOK, Crash, NEW b \in Bursts
    PROVE  Calm(b)
  BY DEF Calm, Announcing, SentOf, Batched, PollAnnounces, PollMayOpen, RowMayOpen, ScanMayResolve,
     ScanWillOpen, Emitted, Crash, TypeOK, store, sink, disp, RecordState, ScanState, IdleRecord, NoRecord, IdleScan, Reopens

\* A scan that finds no trip of a burst finds one without a row, which it may
\* have opened anyhow.
LEMMA ReadTripsCalm ==
    ASSUME TypeOK, EvidenceInv, NEW s \in Scanners, ReadTrips(s), NEW b \in Bursts
    PROVE  Calm(b)
<1>1. /\ scan'[s].pc = "findings" /\ scan'[s].fresh = trips
      /\ scan'[s].live = scan[s].live
      /\ \A t \in Scanners : t # s => scan'[t] = scan[t]
      /\ \A t \in Scanners : scan'[t].opened = scan[t].opened
  BY DEF ReadTrips, TypeOK, ScanState
<1>2. trips[b] = 0 => ~Stored(finding[b])
  BY DEF EvidenceInv, Traced
<1>3. RowMayOpen(b)' => RowMayOpen(b)
  BY <1>1 DEF RowMayOpen, ReadTrips, store
<1>4. ScanMayResolve(b)' => ScanMayResolve(b) \/ RowMayOpen(b)
  BY <1>1, <1>2 DEF ScanMayResolve, RowMayOpen
<1>5. ScanWillOpen(b)' => ScanWillOpen(b)
  BY <1>1 DEF ScanWillOpen, Emitted
<1>6. PollMayOpen(b)' => PollMayOpen(b)
  BY <1>3, <1>4, <1>5 DEF PollMayOpen
<1> QED BY <1>1, <1>6 DEF Calm, Announcing, SentOf, Batched, PollAnnounces, ReadTrips, store, disp, TypeOK

\* A scan that lists the findings will open what any scan would.
LEMMA ReadFindingsCalm ==
    ASSUME TypeOK, NEW s \in Scanners, ReadFindings(s), NEW b \in Bursts
    PROVE  Calm(b)
<1>1. /\ scan'[s].pc = "merge" /\ scan'[s].prev = finding
      /\ scan'[s].live = scan[s].live /\ scan'[s].fresh = scan[s].fresh
      /\ \A t \in Scanners : t # s => scan'[t] = scan[t]
      /\ \A t \in Scanners : scan'[t].opened = scan[t].opened
  BY DEF ReadFindings, TypeOK, ScanState
<1>2. RowMayOpen(b)' => RowMayOpen(b)
  BY <1>1 DEF RowMayOpen, ReadFindings, store
<1>3. ScanMayResolve(b)' => ScanMayResolve(b)
  <2>1. scan[s].pc = "findings"
    BY DEF ReadFindings
  <2> QED BY <1>1, <2>1 DEF ScanMayResolve
<1>4. ScanWillOpen(b)' => ScanWillOpen(b) \/ RowMayOpen(b)
  <2>1. \A t \in Scanners : Emitted(t)' = Emitted(t)
    BY <1>1 DEF Emitted
  <2>2. b \in Emitted(s) => scan[s].live
    BY DEF Emitted
  <2> QED BY <1>1, <2>1, <2>2 DEF ScanWillOpen, RowMayOpen, ReadFindings
<1>5. PollMayOpen(b)' => PollMayOpen(b)
  BY <1>2, <1>3, <1>4 DEF PollMayOpen
<1>6. PollAnnounces(b)' => PollAnnounces(b)
  BY <1>1 DEF PollAnnounces
<1>7. trips' = trips /\ rec' = rec /\ batch' = batch /\ sent' = sent
  BY DEF ReadFindings, store, disp
<1> QED BY <1>5, <1>6, <1>7 DEF Calm, Announcing, SentOf, Batched, TypeOK

\* Reconcile's loops read and change no more of a scan than this.
LEMMA MergeChanges ==
    ASSUME TypeOK, NEW s \in Scanners, NEW f \in Fingerprints, MergeFresh(s, f) \/ MergeAbsent(s, f)
    PROVE  /\ scan[s].pc = "merge" /\ scan'[s].pc = "merge"
           /\ f \in scan[s].todo /\ scan'[s].todo = scan[s].todo \ {f}
           /\ scan'[s].live = scan[s].live /\ scan'[s].fresh = scan[s].fresh
           /\ scan'[s].prev = scan[s].prev
           /\ Emitted(s)' = Emitted(s)
           /\ \A t \in Scanners : t # s => scan'[t] = scan[t]
           /\ \A g \in Fingerprints : g # f => finding'[g] = finding[g]
<1>1. scan[s] \in ScanState /\ scan \in [Scanners -> ScanState]
      /\ finding \in [Fingerprints -> Finding]
  BY DEF TypeOK
<1>2. CASE MergeFresh(s, f)
  BY <1>1, <1>2 DEF MergeFresh, Emitted, ScanState
<1>3. CASE MergeAbsent(s, f)
  BY <1>1, <1>3 DEF MergeAbsent, Emitted, ScanState
<1> QED BY <1>2, <1>3

\* A turn of Reconcile for another finding opens nothing of this one.
LEMMA OtherTurnCalm ==
    ASSUME TypeOK, NEW s \in Scanners, NEW f \in Fingerprints, MergeFresh(s, f) \/ MergeAbsent(s, f),
           NEW b \in Bursts, b # f
    PROVE  Calm(b)
<1>1. finding'[b] = finding[b] /\ trap' = trap
  BY MergeChanges, BurstFacts DEF MergeFresh, MergeAbsent
<1>2. \A t \in Scanners : Emitted(t)' = Emitted(t)
  BY MergeChanges DEF Emitted
<1>3. PollMayOpen(b)' => PollMayOpen(b)
  BY <1>1, <1>2, MergeChanges DEF PollMayOpen, RowMayOpen, ScanMayResolve, ScanWillOpen
<1>4. PollAnnounces(b)' => PollAnnounces(b)
  <2>1. b \in scan'[s].opened => b \in scan[s].opened
    <3>1. CASE MergeFresh(s, f)
      BY <3>1 DEF MergeFresh, TypeOK, ScanState
    <3>2. CASE MergeAbsent(s, f)
      BY <3>2 DEF MergeAbsent, TypeOK, ScanState
    <3> QED BY <3>1, <3>2
  <2> QED BY <2>1, MergeChanges DEF PollAnnounces
<1> QED BY <1>3, <1>4 DEF Calm, Announcing, SentOf, Batched, MergeFresh, MergeAbsent, disp, TypeOK

\* With one scan at a time, nothing opens a finding after the scan that has
\* just seen its trips.
LEMMA SeenIsNotOpened ==
    ASSUME TypeOK, OneScanner, NEW s \in Scanners, NEW b \in Bursts, MergeFresh(s, b)
    PROVE  ~PollMayOpen(b)'
<1>1. \A t \in Scanners : t = s
  BY DEF OneScanner
<1>2. b \in Emitted(s) /\ b # Armed
  BY BurstFacts DEF MergeFresh
<1>3. scan[s].fresh[b] > 0 /\ scan[s].fresh[b] \in Nat
  BY <1>2 DEF Emitted, TypeOK, ScanState
<1>4. Stored(finding'[b]) /\ ~Reopens(finding'[b])
  <2>1. scan[s].prev[b] \in Finding
    BY BurstFacts DEF TypeOK, ScanState
  <2> QED BY <2>1, BurstFacts
          DEF MergeFresh, Opened, Refreshed, Stored, Reopens, Finding, TypeOK
<1>5. ~RowMayOpen(b)'
  BY <1>4 DEF RowMayOpen
<1>6. b \in Fingerprints
  BY BurstFacts
<1>7. ~ScanMayResolve(b)' /\ ~ScanWillOpen(b)'
  BY <1>1, <1>3, <1>6, MergeChanges DEF ScanMayResolve, ScanWillOpen
<1> QED BY <1>5, <1>7 DEF PollMayOpen

\* A finding is resolved only by a scan that might have been expected to, or
\* when the trap is gone and no scan will see its trips again.
LEMMA MergeAbsentCalm ==
    ASSUME TypeOK, OneScanner, NEW s \in Scanners, ScanSound(s), NEW f \in Fingerprints,
           MergeAbsent(s, f), NEW b \in Bursts
    PROVE  Calm(b)
<1>1. CASE f # b
  BY <1>1, OtherTurnCalm
<1>2. CASE f = b
  <2>1. \A t \in Scanners : t = s
    BY DEF OneScanner
  <2>2. b \in scan[s].todo \ Emitted(s) /\ scan[s].pc = "merge"
    BY <1>2 DEF MergeAbsent
  <2>3. Stored(finding'[b])
    <3>1. Stored(scan[s].prev[b]) /\ scan[s].prev[b] \in Finding
      BY <2>2, BurstFacts DEF ScanSound, CountsAbsence, Stored, TypeOK, ScanState
    <3>2. finding'[b] = Missed(scan[s].prev[b], ResolveAfter)
      BY <1>2, BurstFacts DEF MergeAbsent, TypeOK
    <3> QED BY <3>1, <3>2 DEF Missed, Stored, Finding
  <2>4. CASE scan[s].live
    <3>1. scan[s].fresh[b] = 0
      BY <2>2, <2>4 DEF Emitted, TypeOK, ScanState
    <3>2. PollMayOpen(b)
      BY <2>2, <2>4, <3>1 DEF PollMayOpen, ScanMayResolve
    <3> QED BY <3>2, <1>2 DEF Calm, Announcing, SentOf, Batched, PollAnnounces, MergeAbsent, disp,
            TypeOK, ScanState
  <2>5. CASE ~scan[s].live
    <3>1. trap = "deleted" /\ trap' = trap
      BY <2>2, <2>5 DEF ScanSound, MergeAbsent
    <3>2. ~RowMayOpen(b)'
      BY <2>1, <2>3, <3>1, MergeChanges DEF RowMayOpen
    <3>3. ~ScanMayResolve(b)' /\ ~ScanWillOpen(b)'
      BY <1>2, <2>1, <2>5, MergeChanges DEF ScanMayResolve, ScanWillOpen
    <3> QED BY <3>2, <3>3, <1>2 DEF Calm, PollMayOpen, Announcing, SentOf, Batched, PollAnnounces,
            MergeAbsent, disp, TypeOK, ScanState
  <2> QED BY <2>4, <2>5
<1> QED BY <1>1, <1>2

\* The terms of Announcements are natural numbers.
LEMMA TermsType ==
    ASSUME TypeOK, NEW b \in Bursts
    PROVE  /\ trips[b] \in Nat /\ SentOf(b) \in Nat /\ Calls(b) \in Nat
           /\ \A p \in BOOLEAN : One(p) \in {0, 1}
           /\ Batched(b) \in BOOLEAN
  BY AnnouncingFinite, BurstFacts, EventTypes DEF TypeOK, SentOf, One, Kinds, Batched

\* The bound on the announcements of a burst, term by term.
Bounded(b) ==
    SentOf(b) + One(Batched(b)) + Calls(b) + One(PollAnnounces(b)) + One(PollMayOpen(b))
        <= trips[b] + 1

\* A calm step keeps the bound.
LEMMA CalmKeepsBound ==
    ASSUME TypeOK, TypeOK', NEW b \in Bursts, Bounded(b), Calm(b)
    PROVE  Bounded(b)'
<1>1. Calls(b)' <= Calls(b) /\ Calls(b) \in Nat /\ Calls(b)' \in Nat
  <2>1. IsFiniteSet(Announcing(b)) /\ Announcing(b)' \in SUBSET Announcing(b)
    BY AnnouncingFinite DEF Calm
  <2> QED BY <2>1, FS_Subset, FS_CardinalityType DEF Calls
<1>2. /\ trips[b] \in Nat /\ trips'[b] \in Nat /\ trips'[b] >= trips[b]
      /\ SentOf(b) \in Nat /\ SentOf(b)' = SentOf(b)
  BY TermsType DEF Calm, TypeOK
<1>3. /\ One(Batched(b))' \in {0, 1} /\ One(Batched(b)) \in {0, 1}
      /\ One(Batched(b))' <= One(Batched(b))
  BY DEF Calm, One
<1>4. /\ One(PollAnnounces(b))' \in {0, 1} /\ One(PollAnnounces(b)) \in {0, 1}
      /\ One(PollAnnounces(b))' <= One(PollAnnounces(b))
  BY DEF Calm, One
<1>5. /\ One(PollMayOpen(b))' \in {0, 1} /\ One(PollMayOpen(b)) \in {0, 1}
      /\ One(PollMayOpen(b))' <= One(PollMayOpen(b))
  BY DEF Calm, One
<1>6. SentOf(b) + One(Batched(b)) + Calls(b) + One(PollAnnounces(b)) + One(PollMayOpen(b))
        <= trips[b] + 1
  BY DEF Bounded
<1>7. SentOf(b)' + One(Batched(b))' + Calls(b)' + One(PollAnnounces(b))' + One(PollMayOpen(b))'
        <= trips'[b] + 1
  BY <1>1, <1>2, <1>3, <1>4, <1>5, <1>6
<1> QED BY <1>7 DEF Bounded

\* A stored trip adds one announcement to come, and room for it.
LEMMA PutTripKeepsBound ==
    ASSUME TypeOK, TypeOK', NEW r \in Recorders, PutTrip(r), NEW b \in Bursts, Bounded(b)
    PROVE  Bounded(b)'
<1>1. /\ SentOf(b)' = SentOf(b) /\ (Batched(b)' <=> Batched(b))
      /\ PollAnnounces(b)' <=> PollAnnounces(b)
      /\ PollMayOpen(b)' <=> PollMayOpen(b)
  BY DEF PutTrip, SentOf, Batched, PollAnnounces, PollMayOpen, RowMayOpen, ScanMayResolve,
     ScanWillOpen, Emitted, disp
<1>2. Announcing(b)' = IF b = rec[r].burst THEN Announcing(b) \cup {r} ELSE Announcing(b)
  BY DEF Announcing, PutTrip, TypeOK, RecordState
<1>3. CASE b = rec[r].burst
  <2>1. trips'[b] = trips[b] + 1
    BY <1>3 DEF PutTrip, TypeOK
  <2>2. r \notin Announcing(b)
    BY DEF Announcing, PutTrip
  <2>3. Calls(b)' = Calls(b) + 1
    BY <1>2, <1>3, <2>2, AnnouncingFinite, FS_AddElement DEF Calls
  <2> QED BY <1>1, <2>1, <2>3, TermsType DEF Bounded, One
<1>4. CASE b # rec[r].burst
  <2>1. trips'[b] = trips[b]
    BY <1>4 DEF PutTrip, TypeOK
  <2>2. Calm(b)
    BY <1>1, <1>2, <1>4, <2>1 DEF Calm, TypeOK
  <2> QED BY <2>2, CalmKeepsBound
<1> QED BY <1>3, <1>4

\* A call that announces its burst owes no announcement any more.
LEMMA AlertOpenedKeepsBound ==
    ASSUME TypeOK, TypeOK', NEW r \in Recorders, AlertOpened(r), NEW b \in Bursts, Bounded(b)
    PROVE  Bounded(b)'
<1>1. /\ SentOf(b)' = SentOf(b) /\ trips' = trips
      /\ PollAnnounces(b)' <=> PollAnnounces(b)
      /\ PollMayOpen(b)' <=> PollMayOpen(b)
  BY DEF AlertOpened, SentOf, PollAnnounces, PollMayOpen, RowMayOpen, ScanMayResolve,
     ScanWillOpen, Emitted, store, Dispatcher!Accept
<1>2. Announcing(b)' = Announcing(b) \ {r}
  BY DEF Announcing, AlertOpened, TypeOK, IdleRecord, NoRecord
<1>3. CASE b = rec[r].burst
  <2>1. r \in Announcing(b)
    BY <1>3 DEF Announcing, AlertOpened
  <2>2. Calls(b)' = Calls(b) - 1
    BY <1>2, <2>1, AnnouncingFinite, FS_RemoveElement DEF Calls
  <2>3. One(Batched(b))' <= One(Batched(b)) + 1 /\ One(Batched(b))' \in {0, 1}
    BY DEF One
  <2> QED BY <1>1, <2>2, <2>3, TermsType DEF Bounded, One
<1>4. CASE b # rec[r].burst
  <2>1. Batched(b)' <=> Batched(b)
    BY <1>4, EventsDiffer DEF Batched, AlertOpened, Dispatcher!Accept
  <2>2. Calm(b)
    BY <1>1, <1>2, <2>1 DEF Calm, TypeOK
  <2> QED BY <2>2, CalmKeepsBound
<1> QED BY <1>3, <1>4

\* A scan that announces a finding it opened owes it no more.
LEMMA ReportOpenedKeepsBound ==
    ASSUME TypeOK, TypeOK', OneScanner, NEW s \in Scanners, NEW f \in Fingerprints,
           ReportOpened(s, f), NEW b \in Bursts, Bounded(b)
    PROVE  Bounded(b)'
<1>1. /\ scan'[s] = Reporting(scan[s].opened \ {f}, scan[s].resolved)
      /\ \A t \in Scanners : t # s => scan'[t] = scan[t]
  BY DEF ReportOpened, TypeOK
<1>2. PollMayOpen(b)' => PollMayOpen(b)
  BY <1>1, ReportingRests, RestingScanOpensNone DEF ReportOpened, store
<1>3. /\ SentOf(b)' = SentOf(b) /\ trips' = trips /\ Announcing(b)' = Announcing(b)
  BY DEF ReportOpened, SentOf, Announcing, store, Dispatcher!Accept
<1>4. CASE b = f
  <2>1. PollAnnounces(b)
    BY <1>4 DEF ReportOpened, PollAnnounces
  <2>2. ~PollAnnounces(b)'
    BY <1>1, <1>4, ReportingHolds DEF PollAnnounces, OneScanner
  <2>3. One(Batched(b))' <= One(Batched(b)) + 1 /\ One(Batched(b))' \in {0, 1}
    BY DEF One
  <2>4. /\ One(PollMayOpen(b))' <= One(PollMayOpen(b))
        /\ One(PollMayOpen(b))' \in {0, 1} /\ One(PollMayOpen(b)) \in {0, 1}
    BY <1>2 DEF One
  <2>5. One(PollAnnounces(b)) = 1 /\ One(PollAnnounces(b))' = 0
    BY <2>1, <2>2 DEF One
  <2>6. Calls(b)' = Calls(b)
    BY <1>3 DEF Calls
  <2>7. One(Batched(b)) \in {0, 1}
    BY DEF One
  <2> QED BY <1>3, <2>3, <2>4, <2>5, <2>6, <2>7, TermsType DEF Bounded
<1>5. CASE b # f
  <2>1. Batched(b)' <=> Batched(b)
    BY <1>5, EventsDiffer DEF Batched, ReportOpened, Dispatcher!Accept
  <2>2. PollAnnounces(b)' => PollAnnounces(b)
    BY <1>1, ReportingHolds DEF PollAnnounces
  <2>3. Calm(b)
    BY <1>2, <1>3, <2>1, <2>2 DEF Calm, TypeOK
  <2> QED BY <2>3, CalmKeepsBound
<1> QED BY <1>4, <1>5

\* A digest sends what was waiting.
LEMMA FlushBatchKeepsBound ==
    ASSUME TypeOK, TypeOK', FlushBatch, NEW b \in Bursts, Bounded(b)
    PROVE  Bounded(b)'
<1>1. /\ trips' = trips /\ Announcing(b)' = Announcing(b)
      /\ PollAnnounces(b)' <=> PollAnnounces(b)
      /\ PollMayOpen(b)' <=> PollMayOpen(b)
  BY DEF FlushBatch, Announcing, PollAnnounces, PollMayOpen, RowMayOpen, ScanMayResolve,
     ScanWillOpen, Emitted, store
<1>2. SentOf(b)' = SentOf(b) + One(Batched(b)) /\ ~Batched(b)'
  <2>1. Event("opened", b) \in AllEvents
    BY BurstFacts, EventTypes DEF Kinds
  <2> QED BY <2>1 DEF FlushBatch, Dispatcher!Flush, Dispatcher!Send, SentOf, Batched, One
<1>3. One(Batched(b))' = 0 /\ One(Batched(b)) \in {0, 1}
  BY <1>2 DEF One
<1>4. /\ One(PollAnnounces(b))' = One(PollAnnounces(b)) /\ One(PollAnnounces(b)) \in {0, 1}
      /\ One(PollMayOpen(b))' = One(PollMayOpen(b)) /\ One(PollMayOpen(b)) \in {0, 1}
  BY <1>1 DEF One
<1>5. Calls(b)' = Calls(b)
  BY <1>1 DEF Calls
<1> QED BY <1>1, <1>2, <1>3, <1>4, <1>5, TermsType DEF Bounded

\* A finding that a scan opens is the one that the polling had left to open.
LEMMA MergeFreshKeepsBound ==
    ASSUME TypeOK, TypeOK', OneScanner, NEW s \in Scanners, NEW f \in Fingerprints,
           MergeFresh(s, f), NEW b \in Bursts, Bounded(b)
    PROVE  Bounded(b)'
<1>1. CASE f # b
  BY <1>1, OtherTurnCalm, CalmKeepsBound
<1>2. CASE f = b
  <2>1. ~PollMayOpen(b)'
    BY <1>2, SeenIsNotOpened
  <2>2. /\ trips' = trips /\ Announcing(b)' = Announcing(b)
        /\ SentOf(b)' = SentOf(b) /\ (Batched(b)' <=> Batched(b))
    BY DEF MergeFresh, Announcing, SentOf, Batched, disp
  <2>3. CASE ~Stored(scan[s].prev[b]) \/ Reopens(scan[s].prev[b])
    <3>1. PollMayOpen(b)
      BY <1>2, <2>3 DEF PollMayOpen, ScanWillOpen, MergeFresh
    <3>2. One(PollMayOpen(b)) = 1 /\ One(PollMayOpen(b))' = 0
      BY <2>1, <3>1 DEF One
    <3>3. One(PollAnnounces(b))' \in {0, 1} /\ One(PollAnnounces(b)) \in {0, 1}
      BY DEF One
    <3>4. Calls(b)' = Calls(b) /\ One(Batched(b))' = One(Batched(b)) /\ One(Batched(b)) \in {0, 1}
      BY <2>2 DEF Calls, One
    <3> QED BY <2>2, <3>2, <3>3, <3>4, TermsType DEF Bounded
  <2>4. CASE Stored(scan[s].prev[b]) /\ ~Reopens(scan[s].prev[b])
    <3>1. PollAnnounces(b)' => PollAnnounces(b)
      BY <1>2, <2>4 DEF PollAnnounces, MergeFresh, TypeOK, ScanState
    <3>2. Calm(b)
      BY <2>1, <2>2, <3>1 DEF Calm, TypeOK
    <3> QED BY <3>2, CalmKeepsBound
  <2> QED BY <2>3, <2>4
<1> QED BY <1>1, <1>2

\* AnnounceInv in the terms of the proof.
LEMMA AnnounceParts ==
    AnnounceInv <=> /\ OneScanner => \A b \in Bursts : Bounded(b)
                    /\ \A s \in Scanners : ScanSound(s)
  BY DEF AnnounceInv, Bounded, ScanSound, Announcements, SentOf, Batched, Calls

\* The same of the next state.
LEMMA AnnouncePartsNext ==
    AnnounceInv' <=> /\ OneScanner => \A b \in Bursts : Bounded(b)'
                     /\ \A s \in Scanners : ScanSound(s)'
  BY DEF AnnounceInv, Bounded, ScanSound, Announcements, SentOf, Batched, Calls, OneScanner

\* An idle or reporting scan is sound whatever it did before.
LEMMA RestingScanSound ==
    ASSUME NEW s, scan'[s].pc \in {"idle", "report"} PROVE ScanSound(s)'
  BY DEF ScanSound

\* A scan's own steps keep it sound.
LEMMA OwnStepSound ==
    ASSUME TypeOK, NEW s \in Scanners, ScanSound(s), Scan(s) \/ StartScan(s)
    PROVE  ScanSound(s)'
<1>1. CASE StartScan(s)
  BY <1>1 DEF StartScan, ScanSound, TypeOK, ScanState
<1>2. CASE ReadDeployment(s)
  BY <1>2 DEF ReadDeployment, ScanSound, TypeOK, ScanState
<1>3. CASE ReadTrips(s)
  BY <1>3 DEF ReadTrips, ScanSound, TypeOK, ScanState
<1>4. CASE ReadFindings(s)
  <2>1. /\ scan'[s].pc = "merge" /\ scan'[s].prev = finding
        /\ scan'[s].live = scan[s].live /\ scan'[s].fresh = scan[s].fresh
        /\ scan'[s].todo = Emitted(s) \cup {f \in Fingerprints : CountsAbsence(finding[f])}
    BY <1>4 DEF ReadFindings, TypeOK, ScanState
  <2>2. Emitted(s)' = Emitted(s)
    BY <2>1 DEF Emitted
  <2>3. \A f \in scan'[s].todo \ Emitted(s)' : CountsAbsence(scan'[s].prev[f])
    BY <2>1, <2>2
  <2>4. trap' = trap /\ scan[s].pc = "findings"
    BY <1>4 DEF ReadFindings
  <2> QED BY <2>1, <2>3, <2>4 DEF ScanSound
<1>5. ASSUME NEW f \in Fingerprints, MergeFresh(s, f) \/ MergeAbsent(s, f) PROVE ScanSound(s)'
  <2>1. trap' = trap
    BY <1>5 DEF MergeFresh, MergeAbsent
  <2> QED BY <1>5, <2>1, MergeChanges DEF ScanSound
<1>6. CASE FinishReconcile(s)
  BY <1>6, ReportingRests, RestingScanSound DEF FinishReconcile, TypeOK
<1>7. ASSUME NEW f \in Fingerprints, ReportOpened(s, f) \/ ReportResolved(s, f) PROVE ScanSound(s)'
  BY <1>7, ReportingRests, RestingScanSound DEF ReportOpened, ReportResolved, TypeOK
<1>8. CASE ScanFails(s)
  BY <1>8, RestingScanSound DEF ScanFails, TypeOK, IdleScan
<1> QED BY <1>1, <1>2, <1>3, <1>4, <1>5, <1>6, <1>7, <1>8 DEF Scan

\* No step of another process makes a scan unsound: a row that is gone stays gone.
LEMMA OthersStepSound ==
    ASSUME NEW s \in Scanners, ScanSound(s), scan'[s] = scan[s], trap = "deleted" => trap' = "deleted"
    PROVE  ScanSound(s)'
  BY DEF ScanSound, Emitted

\* Every step keeps every scan sound.
LEMMA SoundStep ==
    ASSUME TypeOK, [Next]_vars, NEW s \in Scanners, ScanSound(s)
    PROVE  ScanSound(s)'
<1>1. CASE UNCHANGED vars
  BY <1>1, OthersStepSound DEF vars
<1>2. ASSUME NEW r \in Recorders, Record(r) \/ \E k \in Keys : Contact(r, k) PROVE ScanSound(s)'
  <2>1. UNCHANGED <<scan, trap>>
    BY <1>2 DEF Record, Contact, Stamp, PutTrip, GetFinding, GetFindingFails, UpsertFinding,
       RecordFails, RememberBurst, AlertOpened
  <2> QED BY <2>1, OthersStepSound
<1>3. ASSUME NEW t \in Scanners, Scan(t) \/ StartScan(t) PROVE ScanSound(s)'
  <2>1. CASE t = s
    BY <1>3, <2>1, OwnStepSound
  <2>2. CASE t # s
    <3>1. scan'[s] = scan[s] /\ trap' = trap
      BY <1>3, <2>2 DEF TypeOK, Scan, StartScan, ReadDeployment, ReadTrips, ReadFindings, MergeFresh,
         MergeAbsent, FinishReconcile, ReportOpened, ReportResolved, ScanFails
    <3> QED BY <3>1, OthersStepSound
  <2> QED BY <2>1, <2>2
<1>4. CASE \/ NextWindow \/ Digest \/ FlushBatch
           \/ \E f \in Fingerprints : ReadForVerdict(f)
           \/ \E status \in Asked : WriteVerdict(status)
           \/ Disarm \/ DeleteDeployment
  <2>1. scan' = scan /\ (trap = "deleted" => trap' = "deleted")
    BY <1>4 DEF Digest, TakeDue, SendSummary, NextWindow, FlushBatch, Disarm, DeleteDeployment,
       ReadForVerdict, WriteVerdict
  <2> QED BY <2>1, OthersStepSound
<1>5. CASE Crash
  BY <1>5, RestingScanSound DEF Crash, IdleScan
<1>6. CASE Next
  <2>1. \/ \E r \in Recorders : Record(r) \/ \E k \in Keys : Contact(r, k)
        \/ \E t \in Scanners : Scan(t) \/ StartScan(t)
        \/ \/ NextWindow \/ Digest \/ FlushBatch
           \/ \E f \in Fingerprints : ReadForVerdict(f)
           \/ \E status \in Asked : WriteVerdict(status)
           \/ Disarm \/ DeleteDeployment
        \/ Crash
    BY <1>6 DEF Next
  <2> QED BY <2>1, <1>2, <1>3, <1>4, <1>5
<1> QED BY <1>1, <1>6

\* With one scan at a time, every step keeps the bound.
LEMMA BoundStep ==
    ASSUME TypeOK, EvidenceInv, OneScanner, \A s \in Scanners : ScanSound(s), [Next]_vars,
           NEW b \in Bursts, Bounded(b)
    PROVE  Bounded(b)'
<1>1. TypeOK'
  BY NextType
<1>2. CASE UNCHANGED vars
  BY <1>2 DEF vars, Bounded, SentOf, Batched, Calls, Announcing, PollAnnounces, PollMayOpen,
     RowMayOpen, ScanMayResolve, ScanWillOpen, Emitted, One
<1>3. ASSUME NEW r \in Recorders, Record(r) \/ \E k \in Keys : Contact(r, k) PROVE Bounded(b)'
  BY <1>1, <1>3, CalmKeepsBound, ContactCalm, StampCalm, PutTripKeepsBound, GetFindingCalm,
     GetFindingFailsCalm, UpsertFindingCalm, RecordFailsCalm, RememberBurstCalm,
     AlertOpenedKeepsBound
  DEF Record
<1>4. ASSUME NEW s \in Scanners, Scan(s) \/ StartScan(s) PROVE Bounded(b)'
  BY <1>1, <1>4, CalmKeepsBound, StartScanCalm, ReadDeploymentCalm, ReadTripsCalm,
     ReadFindingsCalm, MergeFreshKeepsBound, MergeAbsentCalm, FinishReconcileCalm,
     ReportOpenedKeepsBound, ReportResolvedCalm, ScanFailsCalm
  DEF Scan
<1>5. CASE Digest
  BY <1>1, <1>5, CalmKeepsBound, TakeDueCalm, SendSummaryCalm DEF Digest
<1>6. CASE \/ NextWindow \/ FlushBatch
           \/ \E f \in Fingerprints : ReadForVerdict(f)
           \/ \E status \in Asked : WriteVerdict(status)
           \/ Disarm \/ DeleteDeployment \/ Crash
  BY <1>1, <1>6, CalmKeepsBound, NextWindowCalm, FlushBatchKeepsBound, ReadForVerdictCalm,
     WriteVerdictCalm, DisarmCalm, DeleteDeploymentCalm, CrashCalm
<1> QED BY <1>2, <1>3, <1>4, <1>5, <1>6 DEF Next

\* At the start the polling has its one announcement to make.
LEMMA AnnounceInit == Init => AnnounceInv
<1> SUFFICES ASSUME Init PROVE AnnounceInv
  OBVIOUS
<1>1. \A s \in Scanners : ScanSound(s)
  BY DEF Init, ScanSound, IdleScan
<1>2. ASSUME NEW b \in Bursts PROVE Bounded(b)
  <2>1. TypeOK
    BY InitType
  <2>2. Announcing(b) = {}
    BY DEF Init, Announcing, IdleRecord, NoRecord
  <2>3. Calls(b) = 0
    BY <2>2, FS_EmptySet DEF Calls
  <2>4. SentOf(b) = 0 /\ One(Batched(b)) = 0
    BY BurstFacts, EventTypes DEF Init, Dispatcher!Init, SentOf, Batched, One, Kinds
  <2>5. One(PollAnnounces(b)) = 0
    BY DEF Init, PollAnnounces, IdleScan, One
  <2>6. One(PollMayOpen(b)) \in {0, 1}
    BY DEF One
  <2>7. trips[b] = 0
    BY NothingRead DEF Init
  <2> QED BY <2>3, <2>4, <2>5, <2>6, <2>7 DEF Bounded
<1> QED BY <1>1, <1>2, AnnounceParts

\* Every step keeps AnnounceInv.
LEMMA AnnounceStep == TypeOK /\ EvidenceInv /\ AnnounceInv /\ [Next]_vars => AnnounceInv'
  BY AnnounceParts, AnnouncePartsNext, SoundStep, BoundStep

\* As long as the scans of the trap do not overlap, a burst is announced at most
\* once by each Record call and once by the polling, for any number of calls,
\* however often the trap is polled, judged or deleted and the process crashes.
THEOREM AnnouncementsAreBounded == Spec => []AnnouncementsBounded
<1>1. ASSUME TypeOK, AnnounceInv PROVE AnnouncementsBounded
  <2> SUFFICES ASSUME OneScanner, NEW b \in Bursts PROVE SentOf(b) <= trips[b] + 1
    BY DEF AnnouncementsBounded, SentOf
  <2>1. Bounded(b)
    BY <1>1, AnnounceParts
  <2>2. /\ One(Batched(b)) \in {0, 1} /\ One(PollAnnounces(b)) \in {0, 1}
        /\ One(PollMayOpen(b)) \in {0, 1}
    BY DEF One
  <2> QED BY <1>1, <2>1, <2>2, TermsType DEF Bounded
<1> QED BY <1>1, TypeCorrect, EvidenceInit, EvidenceStep, AnnounceInit, AnnounceStep, PTL DEF Spec

-----------------------------------------------------------------------------
(* SuppressionOutlivesScans. *)

\* A step that may take the row of a finding out of the hands of a scan.
Excused(f) ==
    \/ VerdictHolds(f)
    \/ \E r \in Recorders : rec[r].pc = "upsert" /\ rec[r].burst = f
    \/ \E s \in Scanners : /\ scan[s].pc = "merge"
                           /\ f \in scan[s].todo
                           /\ scan[s].prev[f].status # "suppressed"

\* The turn of the first loop keeps a status it listed as suppressed.
LEMMA SeenKeepsSuppressed ==
    ASSUME TypeOK, NEW s \in Scanners, NEW f \in Fingerprints, MergeFresh(s, f),
           scan[s].prev[f].status = "suppressed"
    PROVE  finding'[f].status = "suppressed"
<1>1. scan[s].prev[f] \in Finding /\ finding \in [Fingerprints -> Finding]
  BY DEF TypeOK, ScanState
<1>2. finding'[f] = Refreshed(scan[s].prev[f], FreshTouches(s, f))
  BY <1>1 DEF MergeFresh, Stored
<1> QED BY <1>1, <1>2 DEF Refreshed, Reopens, Finding

\* The second loop takes no turn for a finding it listed as suppressed.
LEMMA AbsentIsNotSuppressed ==
    ASSUME NEW s \in Scanners, ScanSound(s), NEW f, MergeAbsent(s, f)
    PROVE  /\ scan[s].pc = "merge" /\ f \in scan[s].todo
           /\ scan[s].prev[f].status # "suppressed"
  BY DEF MergeAbsent, ScanSound, CountsAbsence

\* A suppressed finding is changed by an excused step only.
LEMMA SuppressedStep ==
    ASSUME TypeOK, \A s \in Scanners : ScanSound(s), Next, NEW f \in Fingerprints,
           finding[f].status = "suppressed", finding'[f].status # "suppressed"
    PROVE  Excused(f)
<1>1. finding'[f] # finding[f]
  OBVIOUS
<1>2. ASSUME NEW r \in Recorders, Record(r) \/ \E k \in Keys : Contact(r, k) PROVE Excused(f)
  <2>1. UpsertFinding(r)
    BY <1>1, <1>2 DEF Record, Contact, Stamp, PutTrip, GetFinding, GetFindingFails, RecordFails,
       RememberBurst, AlertOpened, store
  <2> QED BY <1>1, <2>1 DEF UpsertFinding, Excused, TypeOK
<1>3. ASSUME NEW s \in Scanners, Scan(s) \/ StartScan(s) PROVE Excused(f)
  <2>1. PICK g \in Fingerprints : MergeFresh(s, g) \/ MergeAbsent(s, g)
    BY <1>1, <1>3 DEF Scan, StartScan, ReadDeployment, ReadTrips, ReadFindings, FinishReconcile,
       ReportOpened, ReportResolved, ScanFails, store
  <2>2. g = f
    BY <1>1, <2>1, MergeChanges
  <2>3. scan[s].pc = "merge" /\ f \in scan[s].todo
    BY <2>1, <2>2, MergeChanges
  <2>4. scan[s].prev[f].status # "suppressed"
    BY <2>1, <2>2, SeenKeepsSuppressed, AbsentIsNotSuppressed
  <2> QED BY <2>3, <2>4 DEF Excused
<1>4. ASSUME NEW status \in Asked, WriteVerdict(status) PROVE Excused(f)
  BY <1>1, <1>4 DEF WriteVerdict, Excused, VerdictHolds, TypeOK
<1>5. CASE \/ NextWindow \/ Digest \/ FlushBatch
           \/ \E g \in Fingerprints : ReadForVerdict(g)
           \/ Disarm \/ DeleteDeployment \/ Crash
  BY <1>1, <1>5 DEF NextWindow, Digest, TakeDue, SendSummary, FlushBatch, ReadForVerdict, Disarm,
     DeleteDeployment, Crash, store
<1> QED BY <1>2, <1>3, <1>4, <1>5 DEF Next

\* What the user has suppressed comes back only by a verdict, a touch or a scan
\* that had listed the finding before, for any number of scans and calls, with
\* any failed store calls and crashes.
THEOREM SuppressionIsKept == Spec => SuppressionOutlivesScans
<1> DEFINE Sound == \A s \in Scanners : ScanSound(s)
<1>1. Init => Sound
  BY DEF Init, ScanSound, IdleScan
<1>2. TypeOK /\ Sound /\ [Next]_vars => Sound'
  BY SoundStep
<1>3. TypeOK /\ Sound /\ [Next]_vars =>
        [\A f \in Fingerprints :
            finding[f].status = "suppressed" /\ finding'[f].status # "suppressed" =>
                \/ VerdictHolds(f)
                \/ \E r \in Recorders : rec[r].pc = "upsert" /\ rec[r].burst = f
                \/ \E s \in Scanners : /\ scan[s].pc = "merge"
                                       /\ f \in scan[s].todo
                                       /\ scan[s].prev[f].status # "suppressed"]_vars
  BY SuppressedStep DEF Excused
<1> QED BY <1>1, <1>2, <1>3, TypeCorrect, PTL DEF Spec, SuppressionOutlivesScans

=============================================================================
