------------------------------ MODULE TripPaths ------------------------------
(***************************************************************************)
(* One trap and everything that writes its findings.                       *)
(*                                                                         *)
(*   Path A   a listener, token or DNS goroutine calls TripSink.Record,    *)
(*            which stores the trip, reads and writes the finding of its   *)
(*            burst, remembers the burst for the digest and alerts         *)
(*            (decoy/decoy.go).                                            *)
(*   Path B   a scheduler goroutine calls Collector.Collect, which lists   *)
(*            the trips, then Engine.Reconcile, which lists the findings   *)
(*            and writes them one by one, then the dispatcher callback     *)
(*            (decoy/collector.go, store/reconcile.go, sched/scheduler.go, *)
(*            notify/bridge.go).                                           *)
(*   Digest   a ticker calls TripSink.FlushDigests.                        *)
(*   User     the dashboard changes a finding's status (web/server.go) and *)
(*            deletes the trap (decoy/console.go).                         *)
(*                                                                         *)
(* No lock spans two store calls, so each store call is a step of its own  *)
(* and each process keeps what it read until its next step.                *)
(***************************************************************************)
EXTENDS Findings, Integers, FiniteSets

CONSTANTS
    Keys,         \* what tells two bursts of one window apart: source, thing touched
    ArmedKey,     \* the discriminator of the armed finding
    LastWindow,   \* bound: the trap is contacted in windows 0 .. LastWindow-1
    Recorders,    \* goroutines that run TripSink.Record
    Scanners,     \* goroutines that run Scheduler.scanOne for the trap
    ResolveAfter, \* core.ModuleInfo.ResolveAfter; 1 for the decoy module
    Asked,        \* the statuses the user asks for
    \* Bounds of the exploration; the code has none of them.
    MaxContacts,  \* touches
    MaxUserActs,  \* verdicts and deletions
    MaxFaults     \* failed store calls, scans out of time and crashes

ASSUME TripPathsAssumption ==
    /\ Keys # {}
    /\ ArmedKey \notin Keys
    /\ LastWindow \in Nat
    /\ ResolveAfter \in Nat \ {0}
    /\ IsFiniteSet(Recorders)
    /\ Asked \subseteq UserStatuses
    /\ MaxContacts \in Nat
    /\ MaxUserActs \in Nat
    /\ MaxFaults \in Nat

(* A burst is the touches that share a discriminator and a digest window.  *)
Bursts == Keys \X (0 .. LastWindow)
Armed == <<ArmedKey, 0>>
Fingerprints == Bursts \cup {Armed}

\* The dispatcher's keys; a summary has a fingerprint of its own.
Kinds == {"opened", "resolved", "summary"}
Event(k, f) == [kind |-> k, fp |-> f]
AllEvents == [kind : Kinds, fp : Fingerprints]

VARIABLES
    trap,      \* "armed", "disarmed" (OnDelete ran) or "deleted" (row gone)
    window,    \* the clock, in digest windows
    trips,     \* the trip table: rows per burst
    finding,   \* the finding table
    pending,   \* TripSink.pending: the count of each open burst, 0 for none
    flushing,  \* the due bursts FlushDigests has taken and not yet announced
    batch,     \* the dispatcher's current window
    sent,      \* the digests each event has gone into
    rec,       \* the state of each Record call
    scan,      \* the state of each scan
    verdict,   \* the state of the status handler
    dropped,   \* history: whose announcement a failed scan or a crash has lost
    left       \* what remains of each bound of the exploration

store    == <<trips, finding>>
sink     == <<pending, flushing>>
disp     == <<batch, sent>>
vars     == <<trap, window, trips, finding, pending, flushing, batch, sent,
              rec, scan, verdict, dropped, left>>

Dispatcher == INSTANCE Alerts WITH Events <- AllEvents

-----------------------------------------------------------------------------
(* Local state of the processes. *)

RecordPC == {"idle", "contact", "put", "get", "upsert", "remember", "alert"}
ScanPC   == {"idle", "deployment", "trips", "findings", "merge", "report"}

RecordState  == [pc : RecordPC, burst : Bursts, repeat : BOOLEAN, touches : Nat]
ScanState    == [pc : ScanPC, live : BOOLEAN, fresh : [Bursts -> Nat],
                 prev : [Fingerprints -> Finding], todo : SUBSET Fingerprints,
                 opened : SUBSET Fingerprints, resolved : SUBSET Fingerprints]
VerdictState == [pc : {"idle", "write"}, fp : Fingerprints, row : Finding]

NoRecord(b) == [pc |-> "idle", burst |-> b, repeat |-> FALSE, touches |-> 0]
SomeBurst   == CHOOSE b \in Bursts : TRUE
IdleRecord  == NoRecord(SomeBurst)

NoRows     == [f \in Fingerprints |-> NoFinding]
NoTrips    == [b \in Bursts |-> 0]
IdleScan   == [pc |-> "idle", live |-> FALSE, fresh |-> NoTrips, prev |-> NoRows,
               todo |-> {}, opened |-> {}, resolved |-> {}]
IdleVerdict == [pc |-> "idle", fp |-> Armed, row |-> NoFinding]

Budget == [contacts : Nat, userActs : Nat, faults : Nat]

TypeOK ==
    /\ trap \in {"armed", "disarmed", "deleted"}
    /\ window \in 0 .. LastWindow
    /\ trips \in [Bursts -> Nat]
    /\ finding \in [Fingerprints -> Finding]
    /\ pending \in [Bursts -> Nat]
    /\ flushing \in [Bursts -> Nat]
    /\ batch \in SUBSET AllEvents
    /\ sent \in [AllEvents -> Nat]
    /\ rec \in [Recorders -> RecordState]
    /\ scan \in [Scanners -> ScanState]
    /\ verdict \in VerdictState
    /\ dropped \in SUBSET Fingerprints
    /\ left \in Budget

Init ==
    /\ trap = "armed"
    /\ window = 0
    /\ trips = NoTrips
    /\ finding = NoRows
    /\ pending = NoTrips
    /\ flushing = NoTrips
    /\ Dispatcher!Init
    /\ rec = [r \in Recorders |-> IdleRecord]
    /\ scan = [s \in Scanners |-> IdleScan]
    /\ verdict = IdleVerdict
    /\ dropped = {}
    /\ left = [contacts |-> MaxContacts, userActs |-> MaxUserActs,
               faults |-> MaxFaults]

-----------------------------------------------------------------------------
(* Path A: TripSink.Record. *)

\* Someone touches the trap: a connection is accepted, or a token or DNS
\* handler finds the deployment.
Contact(r, k) ==
    /\ rec[r].pc = "idle"
    /\ trap # "deleted"
    /\ left.contacts > 0 /\ window < LastWindow   \* bounds
    /\ rec' = [rec EXCEPT ![r] = [NoRecord(<<k, window>>) EXCEPT !.pc = "contact"]]
    /\ left' = [left EXCEPT !.contacts = @ - 1]
    /\ UNCHANGED <<trap, window, store, sink, disp, scan, verdict, dropped>>

\* Slip: the window is rounded to the nearest instead of truncated.
StampRounded(r) ==
    /\ rec[r].pc = "contact"
    /\ \E w \in {window, window + 1} :
          rec' = [rec EXCEPT ![r].pc = "put", ![r].burst = <<@[1], w>>]
    /\ UNCHANGED <<trap, window, store, sink, disp, scan, verdict, left, dropped>>

\* Record stamps the trip; a honeypot connection may have been read for
\* seconds since it was accepted, so the window may have moved on.
Stamp(r) ==
    /\ rec[r].pc = "contact"
    /\ rec' = [rec EXCEPT ![r].pc = "put", ![r].burst = <<@[1], window>>]
    /\ UNCHANGED <<trap, window, store, sink, disp, scan, verdict, left, dropped>>

\* Slip: the error of PutTrip is ignored and the call goes on.
PutTripErrorIgnored(r) ==
    /\ rec[r].pc = "put"
    /\ \/ trips' = [trips EXCEPT ![rec[r].burst] = @ + 1]
       \/ UNCHANGED trips
    /\ rec' = [rec EXCEPT ![r].pc = "get"]
    /\ UNCHANGED <<trap, window, finding, sink, disp, scan, verdict, left, dropped>>

PutTrip(r) ==
    /\ rec[r].pc = "put"
    /\ trips' = [trips EXCEPT ![rec[r].burst] = @ + 1]
    /\ rec' = [rec EXCEPT ![r].pc = "get"]
    /\ UNCHANGED <<trap, window, finding, sink, disp, scan, verdict, left, dropped>>

\* The repeat is decided, and counted, on what Get returns now.
GetFinding(r) ==
    LET prev == finding[rec[r].burst] IN
    /\ rec[r].pc = "get"
    /\ rec' = [rec EXCEPT ![r].pc = "upsert",
                          ![r].repeat = Stored(prev),
                          ![r].touches = prev.touches + 1]
    /\ UNCHANGED <<trap, window, store, sink, disp, scan, verdict, left, dropped>>

\* A Get that fails is taken for a finding that is not there.
GetFindingFails(r) ==
    /\ rec[r].pc = "get"
    /\ left.faults > 0
    /\ rec' = [rec EXCEPT ![r].pc = "upsert", ![r].repeat = FALSE, ![r].touches = 1]
    /\ left' = [left EXCEPT !.faults = @ - 1]
    /\ UNCHANGED <<trap, window, store, sink, disp, scan, verdict, dropped>>

UpsertFinding(r) ==
    /\ rec[r].pc = "upsert"
    /\ finding' = [finding EXCEPT ![rec[r].burst] = Opened(rec[r].touches)]
    /\ rec' = [rec EXCEPT ![r].pc = "remember"]
    /\ UNCHANGED <<trap, window, trips, sink, disp, scan, verdict, left, dropped>>

\* A PutTrip or Upsert that fails ends the call; its callers drop the error.
RecordFails(r) ==
    /\ rec[r].pc \in {"put", "upsert"}
    /\ left.faults > 0
    /\ rec' = [rec EXCEPT ![r] = IdleRecord]
    /\ left' = [left EXCEPT !.faults = @ - 1]
    /\ UNCHANGED <<trap, window, store, sink, disp, scan, verdict, dropped>>

RememberBurst(r) ==
    /\ rec[r].pc = "remember"
    /\ pending' = [pending EXCEPT ![rec[r].burst] = rec[r].touches]
    /\ rec' = [rec EXCEPT ![r] = IF rec[r].repeat THEN IdleRecord
                                 ELSE [@ EXCEPT !.pc = "alert"]]
    /\ UNCHANGED <<trap, window, store, flushing, disp, scan, verdict, left, dropped>>

AlertOpened(r) ==
    /\ rec[r].pc = "alert"
    /\ Dispatcher!Accept(Event("opened", rec[r].burst))
    /\ rec' = [rec EXCEPT ![r] = IdleRecord]
    /\ UNCHANGED <<trap, window, store, sink, scan, verdict, left, dropped>>

Record(r) ==
    \/ Stamp(r)
    \/ PutTrip(r)
    \/ GetFinding(r)
    \/ GetFindingFails(r)
    \/ UpsertFinding(r)
    \/ RecordFails(r)
    \/ RememberBurst(r)
    \/ AlertOpened(r)

-----------------------------------------------------------------------------
(* Path B: Scheduler.scanOne, Collector.Collect, Engine.Reconcile. *)

\* A sweep, ScanNow or AddTarget has the trap among its targets.
StartScan(s) ==
    /\ scan[s].pc = "idle"
    /\ trap = "armed"
    /\ scan' = [scan EXCEPT ![s].pc = "deployment"]
    /\ UNCHANGED <<trap, window, store, sink, disp, rec, verdict, left, dropped>>

\* Collect: without the deployment row there are no findings at all.
ReadDeployment(s) ==
    /\ scan[s].pc = "deployment"
    /\ scan' = [scan EXCEPT ![s].live = (trap # "deleted"),
                            ![s].pc = IF trap # "deleted" THEN "trips" ELSE "findings"]
    /\ UNCHANGED <<trap, window, store, sink, disp, rec, verdict, left, dropped>>

ReadTrips(s) ==
    /\ scan[s].pc = "trips"
    /\ scan' = [scan EXCEPT ![s].fresh = trips, ![s].pc = "findings"]
    /\ UNCHANGED <<trap, window, store, sink, disp, rec, verdict, left, dropped>>

\* The fingerprints Collect emits: the armed finding and one per burst.
Emitted(s) ==
    IF scan[s].live
    THEN {Armed} \cup {b \in Bursts : scan[s].fresh[b] > 0}
    ELSE {}

FreshTouches(s, f) == IF f = Armed THEN 0 ELSE scan[s].fresh[f]

\* Reconcile lists the findings once and works from that list: what it will
\* write is what was emitted and what its absence counts against.
ReadFindings(s) ==
    /\ scan[s].pc = "findings"
    /\ scan' = [scan EXCEPT
                  ![s].prev = finding,
                  ![s].todo = Emitted(s) \cup
                     {f \in Fingerprints : CountsAbsence(finding[f])},
                  ![s].pc = "merge"]
    /\ UNCHANGED <<trap, window, store, sink, disp, rec, verdict, left, dropped>>

\* Slip: only a finding that was resolved before is announced.
MergeFreshReopenedOnly(s, f) ==
    LET prev == scan[s].prev[f] IN
    /\ scan[s].pc = "merge"
    /\ f \in scan[s].todo \cap Emitted(s)
    /\ finding' = [finding EXCEPT ![f] =
                     IF Stored(prev) THEN Refreshed(prev, FreshTouches(s, f))
                                     ELSE Opened(FreshTouches(s, f))]
    /\ scan' = [scan EXCEPT ![s].todo = @ \ {f},
                            ![s].opened = IF Reopens(prev) THEN @ \cup {f} ELSE @]
    /\ UNCHANGED <<trap, window, trips, sink, disp, rec, verdict, left, dropped>>

\* Slip: every finding the scan sees is announced.
MergeFreshAlwaysOpened(s, f) ==
    LET prev == scan[s].prev[f] IN
    /\ scan[s].pc = "merge"
    /\ f \in scan[s].todo \cap Emitted(s)
    /\ finding' = [finding EXCEPT ![f] =
                     IF Stored(prev) THEN Refreshed(prev, FreshTouches(s, f))
                                     ELSE Opened(FreshTouches(s, f))]
    /\ scan' = [scan EXCEPT ![s].todo = @ \ {f}, ![s].opened = @ \cup {f}]
    /\ UNCHANGED <<trap, window, trips, sink, disp, rec, verdict, left, dropped>>

\* One turn of the loop over the fresh findings.
MergeFresh(s, f) ==
    LET prev == scan[s].prev[f]
        new  == ~Stored(prev)
    IN
    /\ scan[s].pc = "merge"
    /\ f \in scan[s].todo \cap Emitted(s)
    /\ finding' = [finding EXCEPT ![f] =
                     IF new THEN Opened(FreshTouches(s, f))
                            ELSE Refreshed(prev, FreshTouches(s, f))]
    /\ scan' = [scan EXCEPT
                  ![s].todo = @ \ {f},
                  ![s].opened = IF new \/ Reopens(prev) THEN @ \cup {f} ELSE @]
    /\ UNCHANGED <<trap, window, trips, sink, disp, rec, verdict, left, dropped>>

\* One turn of the loop over the existing findings, once the first is done.
MergeAbsent(s, f) ==
    LET prev == scan[s].prev[f] IN
    /\ scan[s].pc = "merge"
    /\ scan[s].todo \cap Emitted(s) = {}
    /\ f \in scan[s].todo
    /\ finding' = [finding EXCEPT ![f] = Missed(prev, ResolveAfter)]
    /\ scan' = [scan EXCEPT
                  ![s].todo = @ \ {f},
                  ![s].resolved = IF Expires(prev, ResolveAfter) THEN @ \cup {f} ELSE @]
    /\ UNCHANGED <<trap, window, trips, sink, disp, rec, verdict, left, dropped>>

\* Reconcile returns; what it opened and resolved is handed to the dispatcher
\* callback, and the scan is over when that is done.
Reporting(opened, resolved) ==
    IF opened \cup resolved = {}
    THEN IdleScan
    ELSE [IdleScan EXCEPT !.pc = "report", !.opened = opened, !.resolved = resolved]

FinishReconcile(s) ==
    /\ scan[s].pc = "merge"
    /\ scan[s].todo = {}
    /\ scan' = [scan EXCEPT ![s] = Reporting(@.opened, @.resolved)]
    /\ UNCHANGED <<trap, window, store, sink, disp, rec, verdict, left, dropped>>

\* The dispatcher callback: the opened findings, then the resolved ones.
ReportOpened(s, f) ==
    /\ scan[s].pc = "report"
    /\ f \in scan[s].opened
    /\ Dispatcher!Accept(Event("opened", f))
    /\ scan' = [scan EXCEPT ![s] = Reporting(@.opened \ {f}, @.resolved)]
    /\ UNCHANGED <<trap, window, store, sink, rec, verdict, left, dropped>>

ReportResolved(s, f) ==
    /\ scan[s].pc = "report"
    /\ scan[s].opened = {}
    /\ f \in scan[s].resolved
    /\ Dispatcher!Accept(Event("resolved", f))
    /\ scan' = [scan EXCEPT ![s] = Reporting({}, @.resolved \ {f})]
    /\ UNCHANGED <<trap, window, store, sink, rec, verdict, left, dropped>>

\* A store call fails or the scan's time is up: the error ends the scan, and
\* what Reconcile opened or resolved so far is dropped with it.
ScanFails(s) ==
    /\ \/ scan[s].pc \in {"deployment", "trips", "findings"}
       \/ scan[s].pc = "merge" /\ scan[s].todo # {}
    /\ left.faults > 0
    /\ scan' = [scan EXCEPT ![s] = IdleScan]
    /\ left' = [left EXCEPT !.faults = @ - 1]
    /\ dropped' = dropped \cup scan[s].opened
    /\ UNCHANGED <<trap, window, store, sink, disp, rec, verdict>>

Scan(s) ==
    \/ ReadDeployment(s)
    \/ ReadTrips(s)
    \/ ReadFindings(s)
    \/ \E f \in Fingerprints : \/ MergeFresh(s, f)
                               \/ MergeAbsent(s, f)
                               \/ ReportOpened(s, f)
                               \/ ReportResolved(s, f)
    \/ FinishReconcile(s)
    \/ ScanFails(s)

-----------------------------------------------------------------------------
(* The digest ticker, the dispatcher's window and the clock. *)

NextWindow ==
    /\ window < LastWindow
    /\ window' = window + 1
    /\ UNCHANGED <<trap, store, sink, disp, rec, scan, verdict, left, dropped>>

\* A burst is due when the window it belongs to has closed.
Due(b) == pending[b] > 0 /\ b[2] < window

\* Slip: only a burst that gets a summary is forgotten.
TakeDueKeepingSingles ==
    /\ flushing = NoTrips
    /\ \E b \in Bursts : Due(b)
    /\ flushing' = [b \in Bursts |-> IF Due(b) /\ pending[b] >= 2 THEN pending[b] ELSE 0]
    /\ pending'  = [b \in Bursts |-> IF Due(b) /\ pending[b] >= 2 THEN 0 ELSE pending[b]]
    /\ UNCHANGED <<trap, window, store, disp, rec, scan, verdict, left, dropped>>

\* FlushDigests takes every due burst at once, under the sink's lock; those
\* of a single touch are dropped there and then.
TakeDue ==
    /\ flushing = NoTrips
    /\ \E b \in Bursts : Due(b)
    /\ flushing' = [b \in Bursts |-> IF Due(b) /\ pending[b] >= 2 THEN pending[b] ELSE 0]
    /\ pending'  = [b \in Bursts |-> IF Due(b) THEN 0 ELSE pending[b]]
    /\ UNCHANGED <<trap, window, store, disp, rec, scan, verdict, left, dropped>>

SendSummary(b) ==
    /\ flushing[b] > 0
    /\ Dispatcher!Accept(Event("summary", b))
    /\ flushing' = [flushing EXCEPT ![b] = 0]
    /\ UNCHANGED <<trap, window, store, pending, rec, scan, verdict, left, dropped>>

Digest == TakeDue \/ \E b \in Bursts : SendSummary(b)

FlushBatch ==
    /\ Dispatcher!Flush
    /\ UNCHANGED <<trap, window, store, sink, rec, scan, verdict, left, dropped>>

-----------------------------------------------------------------------------
(* The user. *)

\* The status handler reads the row, then writes all of it back.
ReadForVerdict(f) ==
    /\ verdict.pc = "idle"
    /\ left.userActs > 0
    /\ Stored(finding[f])
    /\ verdict' = [pc |-> "write", fp |-> f, row |-> finding[f]]
    /\ left' = [left EXCEPT !.userActs = @ - 1]
    /\ UNCHANGED <<trap, window, store, sink, disp, rec, scan, dropped>>

WriteVerdict(status) ==
    /\ verdict.pc = "write"
    /\ finding' = [finding EXCEPT ![verdict.fp] = Judged(verdict.row, status)]
    /\ verdict' = IdleVerdict
    /\ UNCHANGED <<trap, window, trips, sink, disp, rec, scan, left, dropped>>

\* Deleting the trap: OnDelete stops the listener and drops the target ...
Disarm ==
    /\ trap = "armed"
    /\ left.userActs > 0
    /\ trap' = "disarmed"
    /\ left' = [left EXCEPT !.userActs = @ - 1]
    /\ UNCHANGED <<window, store, sink, disp, rec, scan, verdict, dropped>>

\* ... then the deployment row goes.  The trips and findings stay.
DeleteDeployment ==
    /\ trap = "disarmed"
    /\ trap' = "deleted"
    /\ UNCHANGED <<window, store, sink, disp, rec, scan, verdict, left, dropped>>

-----------------------------------------------------------------------------
\* Who still has to announce a finding: a Record call that found no row, or a
\* scan that opened it.
Owed(f) ==
    \/ \E r \in Recorders : /\ rec[r].pc \in {"remember", "alert"}
                            /\ ~rec[r].repeat
                            /\ rec[r].burst = f
    \/ \E s \in Scanners : f \in scan[s].opened

\* The process ends and starts again: the tables survive, and main restores
\* the target of a trap whose row is still there.
Crash ==
    /\ left.faults > 0
    /\ trap' = IF trap = "deleted" THEN trap ELSE "armed"
    /\ pending' = NoTrips
    /\ flushing' = NoTrips
    /\ batch' = {}
    /\ rec' = [r \in Recorders |-> IdleRecord]
    /\ scan' = [s \in Scanners |-> IdleScan]
    /\ verdict' = IdleVerdict
    /\ left' = [left EXCEPT !.faults = @ - 1]
    /\ dropped' = dropped \cup {f \in Fingerprints : Owed(f) \/ Event("opened", f) \in batch}
    /\ UNCHANGED <<window, store, sent>>

Next ==
    \/ \E r \in Recorders : Record(r) \/ \E k \in Keys : Contact(r, k)
    \/ \E s \in Scanners : Scan(s) \/ StartScan(s)
    \/ NextWindow
    \/ Digest
    \/ FlushBatch
    \/ \E f \in Fingerprints : ReadForVerdict(f)
    \/ \E status \in Asked : WriteVerdict(status)
    \/ Disarm
    \/ DeleteDeployment
    \/ Crash

Spec == Init /\ [][Next]_vars

(***************************************************************************)
(* Fairness.  A goroutine that has started a call finishes it: no step of  *)
(* Record or of a scan waits for another process.  The module loop sweeps  *)
(* the registered targets for ever, so some scan of an armed trap always   *)
(* comes.  The tickers and timers fire, and a handler that read a row      *)
(* writes it.  Nothing obliges anyone to touch the trap, judge a finding   *)
(* or delete the trap, and nothing obliges the process to crash.           *)
(***************************************************************************)
Fairness ==
    /\ \A r \in Recorders : WF_vars(Record(r))
    /\ \A s \in Scanners : WF_vars(Scan(s))
    /\ WF_vars(\E s \in Scanners : StartScan(s))
    /\ WF_vars(NextWindow)
    /\ WF_vars(Digest)
    /\ WF_vars(FlushBatch)
    /\ WF_vars(\E status \in Asked : WriteVerdict(status))
    /\ WF_vars(DeleteDeployment)

LiveSpec == Spec /\ Fairness

-----------------------------------------------------------------------------
(* Safety. *)

Told(k, f) == Event(k, f) \in batch \/ sent[Event(k, f)] > 0

\* A stored row of the burst, a remembered count or an event about it: every
\* trace it leaves outside the trip table.
Traced(b) == \/ Stored(finding[b])
             \/ pending[b] > 0
             \/ flushing[b] > 0
             \/ \E k \in Kinds : Told(k, b)

\* No burst is shown, counted or announced unless a trip of it is stored:
\* whatever the two paths overlap, and wherever a call fails or the process
\* crashes, the evidence was written first (Record's PutTrip before all else).
EvidenceFirst == \A b \in Bursts : Traced(b) => trips[b] > 0

\* What each process carries about a burst between two of its steps.
RecordHolds(r, b) == /\ rec[r].pc \in {"get", "upsert", "remember", "alert"}
                     /\ rec[r].burst = b
ScanHolds(s, b)   == \/ scan[s].fresh[b] > 0
                     \/ Stored(scan[s].prev[b])
                     \/ b \in scan[s].todo \cup scan[s].opened \cup scan[s].resolved
VerdictHolds(b)   == verdict.pc = "write" /\ verdict.fp = b

\* EvidenceFirst, strengthened until it is inductive: what a process carries
\* will be written by its next steps, so it is backed by a trip as well.
EvidenceInv ==
    \A b \in Bursts :
        \/ Traced(b)
        \/ \E r \in Recorders : RecordHolds(r, b)
        \/ \E s \in Scanners : ScanHolds(s, b)
        \/ VerdictHolds(b)
        => trips[b] > 0

Announced(f) == Told("opened", f) \/ Owed(f)

\* A finding on the dashboard has been announced, or some call in flight will
\* announce it.  Either path may leave the announcement to the other only
\* when the other is sure to make it (decoy.go `repeat', reconcile.go
\* NewlyOpen).  A scan that fails loses what it had opened, a crash what was
\* owed and not yet sent, and neither anything else.
NoSilentFinding ==
    \A f \in Fingerprints \ dropped : Stored(finding[f]) => Announced(f)

\* Who takes a finding's announcement for granted: its row, a Record call
\* that found a row, a scan that listed one or a verdict that read one.
Relied(f) ==
    \/ Stored(finding[f])
    \/ \E r \in Recorders : /\ rec[r].pc = "upsert"
                            /\ rec[r].repeat
                            /\ rec[r].burst = f
    \/ \E s \in Scanners : \/ Stored(scan[s].prev[f])
                            \/ /\ scan[s].pc = "merge"
                               /\ f \in scan[s].todo \ Emitted(s)
    \/ VerdictHolds(f)

\* NoSilentFinding, strengthened until it is inductive.
SilenceInv == \A f \in Fingerprints \ dropped : Relied(f) => Announced(f)

\* A touch can be counted by the scan that lists it and again by its own
\* Record call, never a third time: no count the user is shown, in a finding
\* or in a summary, exceeds twice the touches stored.
CountAtMostDouble ==
    \A b \in Bursts : /\ finding[b].touches <= 2 * trips[b]
                      /\ pending[b] <= 2 * trips[b]
                      /\ flushing[b] <= 2 * trips[b]

\* The Record calls of a burst that have stored their trip and not counted it.
Uncounted(b) == {r \in Recorders : rec[r].pc = "get" /\ rec[r].burst = b}

\* Every count of a burst that is stored, remembered or carried to a later write.
Counts(b) ==
    {finding[b].touches, pending[b], flushing[b]}
    \cup {rec[r].touches : r \in {q \in Recorders : /\ rec[q].pc \in {"upsert", "remember"}
                                                   /\ rec[q].burst = b}}
    \cup {scan[s].prev[b].touches : s \in Scanners}
    \cup {verdict.row.touches : f \in {g \in {verdict.fp} : VerdictHolds(b)}}

\* CountAtMostDouble, strengthened until it is inductive: a call that has yet
\* to count its trip will raise some count by one, so there is room for it; and
\* no scan listed more trips than there are.
CountInv ==
    \A b \in Bursts :
        /\ Cardinality(Uncounted(b)) <= trips[b]
        /\ \A s \in Scanners : scan[s].fresh[b] <= trips[b]
        /\ \A n \in Counts(b) : n + Cardinality(Uncounted(b)) <= 2 * trips[b]

\* No two goroutines scan the trap, so its scans do not overlap.
OneScanner == \A s, t \in Scanners : s = t

\* Polling adds no flood of its own: as long as the trap's scans do not
\* overlap each other, a burst is announced at most once by each Record call
\* and once by the polling, however often and however late it is polled.
AnnouncementsBounded ==
    OneScanner => \A b \in Bursts : sent[Event("opened", b)] <= trips[b] + 1

\* The Record calls that have stored their trip and may yet announce its burst.
Announcing(b) ==
    {r \in Recorders : /\ rec[r].burst = b
                       /\ \/ rec[r].pc \in {"get", "alert"}
                          \/ rec[r].pc \in {"upsert", "remember"} /\ ~rec[r].repeat}

\* A scan has opened the burst's finding and not yet announced it.
PollAnnounces(b) == \E s \in Scanners : b \in scan[s].opened

\* A scan, of now or later, may open the burst's finding: it is not there, or
\* resolved and the trap's row still leads a scan to its trips ...
RowMayOpen(b) ==
    \/ ~Stored(finding[b])
    \/ /\ Reopens(finding[b])
       /\ \/ trap # "deleted"
          \/ \E s \in Scanners : scan[s].pc \in {"trips", "findings"} /\ scan[s].live

\* ... or a scan that listed the trips before there was one may resolve it ...
ScanMayResolve(b) ==
    \E s \in Scanners : /\ scan[s].live
                        /\ scan[s].fresh[b] = 0
                        /\ \/ scan[s].pc = "findings"
                           \/ scan[s].pc = "merge" /\ b \in scan[s].todo

\* ... or a scan listed it so and is about to.
ScanWillOpen(b) ==
    \E s \in Scanners : /\ scan[s].pc = "merge"
                        /\ b \in scan[s].todo \cap Emitted(s)
                        /\ ~Stored(scan[s].prev[b]) \/ Reopens(scan[s].prev[b])

PollMayOpen(b) == RowMayOpen(b) \/ ScanMayResolve(b) \/ ScanWillOpen(b)

One(p) == IF p THEN 1 ELSE 0

\* What the announcements of a burst come to, those that are made and those
\* that may yet be made without another touch.
Announcements(b) ==
    sent[Event("opened", b)] + One(Event("opened", b) \in batch)
        + Cardinality(Announcing(b)) + One(PollAnnounces(b)) + One(PollMayOpen(b))

\* AnnouncementsBounded, strengthened until it is inductive: the polling has
\* one announcement to make, and only a trip stored adds one to those of the
\* calls.  A scan that sees no trip of a burst counts its absence only when the
\* trips were listed first or the trap is gone for good.
AnnounceInv ==
    /\ OneScanner => \A b \in Bursts : Announcements(b) <= trips[b] + 1
    /\ \A s \in Scanners :
          /\ scan[s].pc \in {"findings", "merge"} /\ ~scan[s].live => trap = "deleted"
          /\ scan[s].pc = "merge" =>
                \A f \in scan[s].todo \ Emitted(s) : CountsAbsence(scan[s].prev[f])

(* Action properties. *)

\* What the user has suppressed comes back only by another verdict, by a touch,
\* or by a scan that had listed the finding before it was suppressed: a scan
\* that lists it since leaves it alone, whether it sees the finding or not
\* (Reconcile's two loops, handleFindingStatus).
SuppressionOutlivesScans ==
    [][\A f \in Fingerprints :
          finding[f].status = "suppressed" /\ finding'[f].status # "suppressed" =>
              \/ VerdictHolds(f)
              \/ \E r \in Recorders : rec[r].pc = "upsert" /\ rec[r].burst = f
              \/ \E s \in Scanners : /\ scan[s].pc = "merge"
                                     /\ f \in scan[s].todo
                                     /\ scan[s].prev[f].status # "suppressed"]_vars

-----------------------------------------------------------------------------
(* Liveness. *)

CountsExact == \A b \in Bursts : trips[b] > 0 => finding[b].touches = trips[b]

\* Once the touches stop, the polling of a trap that stays armed makes every
\* count exact, whatever was raced, failed or lost in a crash before.
CountsConverge == <>[](trap = "armed" => CountsExact)

\* A stored trip is announced, by either path, unless the trap is deleted or a
\* fault loses that very announcement; a Record call that fails after PutTrip,
\* or before a crash, leaves it to the poll.
TripAnnounced ==
    \A b \in Bursts :
        trips[b] > 0 ~> \/ sent[Event("opened", b)] > 0
                        \/ trap # "armed"
                        \/ b \in dropped

\* The sink's memory of a burst whose window closes is given back.
BurstsForgotten ==
    \A b \in Bursts : b[2] < LastWindow => <>[](pending[b] = 0 /\ flushing[b] = 0)

-----------------------------------------------------------------------------
(* What the documentation and the tests say, and the code does not do. *)

\* collector.go:57 "trips are re-emitted so they never resolve".
TripNeverResolves ==
    trap = "armed" => \A b \in Bursts : finding[b].status # "resolved"

\* decoy.go:199 "the later Collect does NOT re-notify it".
AnnouncedOnce == \A b \in Bursts : sent[Event("opened", b)] <= 1

\* decoy.go:277 "the stored finding is the burst itself, and its count is
\* already correct": no summary tells of more touches than there were.
SummaryHonest == \A b \in Bursts : flushing[b] <= trips[b]

\* reconcile_test.go:182 "suppressed must NOT auto-resolve".
SuppressedNeverResolves ==
    [][\A f \in Fingerprints :
          finding[f].status = "suppressed" => finding'[f].status # "resolved"]_vars

\* decoy.go:94 the armed finding "auto-resolves when the deployment is
\* deleted".
ArmedResolvesAfterDelete ==
    (trap = "deleted" /\ Stored(finding[Armed])) ~> finding[Armed].status = "resolved"

=============================================================================
