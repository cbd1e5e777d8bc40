----------------------------- MODULE Dispatcher -----------------------------
(***************************************************************************)
(* notify.Dispatcher (notify/notify.go): notices are batched over a        *)
(* window, those of a key already waiting are dropped, and one digest per  *)
(* module is sent to every channel by a goroutine of its own that retries. *)
(*                                                                         *)
(* A notice is one call of Enqueue.  d.mu is held from the first read to   *)
(* the last write of Enqueue, Flush and the first half of Close, so each   *)
(* is one step; the window timer, its callback and the sends run beside    *)
(* them.                                                                   *)
(***************************************************************************)
EXTENDS Naturals, FiniteSets

CONSTANTS
    Notices,    \* the calls of Enqueue
    Keys,       \* kind|module|fingerprint
    KeyOf,      \* the key of each notice
    Modules,
    ModuleOf,   \* the module in each key
    Quiet,      \* the opened notices below MinSeverity
    Channels,
    MaxBatch,
    Retries     \* attempts per channel and digest

ASSUME DispatcherAssumption ==
    /\ IsFiniteSet(Notices)
    /\ KeyOf \in [Notices -> Keys]
    /\ ModuleOf \in [Keys -> Modules]
    /\ Quiet \subseteq Notices
    /\ MaxBatch \in Nat \ {0}
    /\ Retries \in Nat \ {0}

VARIABLES
    offered,    \* history: the notices Enqueue was called with
    accepted,   \* history: those it did not drop
    pending,    \* the notices of the current window
    seen,       \* their keys
    timer,      \* d.timer: "none", "running", or "fired" and not yet replaced
    calls,      \* timer callbacks that have started and wait for the lock
    close,      \* "open", "waiting" for the sends, or "done"
    sends,      \* the goroutines of sendWithRetry
    received,   \* how often each channel's receiver got each notice
    gaveUp      \* the notices each channel's sends have given up on

vars == <<offered, accepted, pending, seen, timer, calls, close, sends, received, gaveUp>>

Sends == [digest : SUBSET Notices, channel : Channels, attempt : 0 .. Retries - 1]

TypeOK ==
    /\ offered \in SUBSET Notices
    /\ accepted \in SUBSET offered
    /\ pending \in SUBSET accepted
    /\ seen \in SUBSET Keys
    /\ timer \in {"none", "running", "fired"}
    /\ calls \in Nat
    /\ close \in {"open", "waiting", "done"}
    /\ sends \in SUBSET Sends
    /\ received \in [Channels -> [Notices -> Nat]]
    /\ gaveUp \in [Channels -> SUBSET Notices]

Init ==
    /\ offered = {}
    /\ accepted = {}
    /\ pending = {}
    /\ seen = {}
    /\ timer = "none"
    /\ calls = 0
    /\ close = "open"
    /\ sends = {}
    /\ received = [c \in Channels |-> [n \in Notices |-> 0]]
    /\ gaveUp = [c \in Channels |-> {}]

KeysOf(notices) == {KeyOf[n] : n \in notices}

-----------------------------------------------------------------------------
(* flushLocked: one digest per module, one goroutine per digest and channel. *)

DigestFor(waiting, m) == {n \in waiting : ModuleOf[KeyOf[n]] = m}

Digests(waiting) == {DigestFor(waiting, m) : m \in Modules} \ {{}}

Started(waiting) ==
    {[digest |-> d, channel |-> c, attempt |-> 0] : d \in Digests(waiting), c \in Channels}

\* Slip: the timer is not cleared.
FlushLockedKeepingTimer(waiting) ==
    /\ UNCHANGED timer
    /\ sends' = sends \cup Started(waiting)
    /\ pending' = {}
    /\ seen' = IF waiting = {} THEN seen ELSE {}

\* Slip: the keys of the window are not forgotten.
FlushLockedKeepingSeen(waiting) ==
    /\ timer' = "none"
    /\ sends' = sends \cup Started(waiting)
    /\ pending' = {}
    /\ UNCHANGED seen

\* Slip: the events of the window are not forgotten.
FlushLockedKeepingPending(waiting) ==
    /\ timer' = "none"
    /\ sends' = sends \cup Started(waiting)
    /\ pending' = waiting
    /\ seen' = IF waiting = {} THEN seen ELSE {}

\* Stopping a timer that has fired does not stop its callback.  With nothing
\* pending the code returns before it renews the maps.
FlushLocked(waiting) ==
    /\ timer' = "none"
    /\ sends' = sends \cup Started(waiting)
    /\ pending' = {}
    /\ seen' = IF waiting = {} THEN seen ELSE {}

-----------------------------------------------------------------------------
(* Enqueue. *)

\* Slip: the keys of the window are not consulted.
RefusedUnlessSeen(n) == n \in Quiet \/ close # "open"

\* Slip: a closed dispatcher goes on accepting.
RefusedUnlessClosed(n) == n \in Quiet \/ KeyOf[n] \in seen

Refused(n) == \/ n \in Quiet
              \/ close # "open"
              \/ KeyOf[n] \in seen

\* Slip: the batch is full one event late.
FullBeyond(waiting) == Cardinality(waiting) > MaxBatch

Full(waiting) == Cardinality(waiting) >= MaxBatch

Refuse(n) ==
    /\ n \notin offered
    /\ Refused(n)
    /\ offered' = offered \cup {n}
    /\ UNCHANGED <<accepted, pending, seen, timer, calls, close, sends, received, gaveUp>>

\* The notice joins the window, whose timer it starts if it is the first.
Hold(n) ==
    /\ n \notin offered
    /\ ~Refused(n)
    /\ ~Full(pending \cup {n})
    /\ offered' = offered \cup {n}
    /\ accepted' = accepted \cup {n}
    /\ pending' = pending \cup {n}
    /\ seen' = seen \cup {KeyOf[n]}
    /\ timer' = IF timer = "none" THEN "running" ELSE timer
    /\ UNCHANGED <<calls, close, sends, received, gaveUp>>

\* The notice fills the window and flushes it at once.
Fill(n) ==
    /\ n \notin offered
    /\ ~Refused(n)
    /\ Full(pending \cup {n})
    /\ offered' = offered \cup {n}
    /\ accepted' = accepted \cup {n}
    /\ FlushLocked(pending \cup {n})
    /\ UNCHANGED <<calls, close, received, gaveUp>>

Enqueue(n) == Refuse(n) \/ Hold(n) \/ Fill(n)

-----------------------------------------------------------------------------
(* The window timer and Close. *)

TimerFires ==
    /\ timer = "running"
    /\ timer' = "fired"
    /\ calls' = calls + 1
    /\ UNCHANGED <<offered, accepted, pending, seen, close, sends, received, gaveUp>>

\* The callback has the lock.  It may belong to a window flushed long ago:
\* then it cuts the current one short.
Flush ==
    /\ calls > 0
    /\ calls' = calls - 1
    /\ FlushLocked(pending)
    /\ UNCHANGED <<offered, accepted, close, received, gaveUp>>

Close ==
    /\ close = "open"
    /\ close' = "waiting"
    /\ FlushLocked(pending)
    /\ UNCHANGED <<offered, accepted, calls, received, gaveUp>>

\* Slip: Close does not wait for the sends.
CloseReturnsEarly ==
    /\ close = "waiting"
    /\ close' = "done"
    /\ UNCHANGED <<offered, accepted, pending, seen, timer, calls, sends, received, gaveUp>>

CloseReturns ==
    /\ close = "waiting"
    /\ sends = {}
    /\ close' = "done"
    /\ UNCHANGED <<offered, accepted, pending, seen, timer, calls, sends, received, gaveUp>>

-----------------------------------------------------------------------------
(* sendWithRetry. *)

Arrive(s) ==
    received' = [received EXCEPT ![s.channel] =
                   [n \in Notices |-> @[n] + (IF n \in s.digest THEN 1 ELSE 0)]]

SendSucceeds(s) ==
    /\ Arrive(s)
    /\ sends' = sends \ {s}
    /\ UNCHANGED <<offered, accepted, pending, seen, timer, calls, close, gaveUp>>

\* Slip: one attempt too many.
AttemptFailsLate(s) ==
    IF s.attempt < Retries
    THEN /\ sends' = (sends \ {s}) \cup {[s EXCEPT !.attempt = @ + 1]}
         /\ UNCHANGED gaveUp
    ELSE /\ sends' = sends \ {s}
         /\ gaveUp' = [gaveUp EXCEPT ![s.channel] = @ \cup s.digest]

AttemptFails(s) ==
    IF s.attempt < Retries - 1
    THEN /\ sends' = (sends \ {s}) \cup {[s EXCEPT !.attempt = @ + 1]}
         /\ UNCHANGED gaveUp
    ELSE /\ sends' = sends \ {s}
         /\ gaveUp' = [gaveUp EXCEPT ![s.channel] = @ \cup s.digest]

\* Slip: the last failed attempt starts the attempts over.
SendFailsForEver(s) ==
    /\ sends' = (sends \ {s}) \cup
          {[s EXCEPT !.attempt = IF @ < Retries - 1 THEN @ + 1 ELSE 0]}
    /\ UNCHANGED <<offered, accepted, pending, seen, timer, calls, close, received, gaveUp>>

\* An attempt that is reported as failed may have reached the receiver all
\* the same: the answer was lost or came after the attempt's 15 seconds.
SendFails(s) ==
    /\ Arrive(s) \/ UNCHANGED received
    /\ AttemptFails(s)
    /\ UNCHANGED <<offered, accepted, pending, seen, timer, calls, close>>

Send == \E s \in sends : SendSucceeds(s) \/ SendFails(s)

-----------------------------------------------------------------------------
Next ==
    \/ \E n \in Notices : Enqueue(n)
    \/ TimerFires
    \/ Flush
    \/ Close
    \/ CloseReturns
    \/ Send

Spec == Init /\ [][Next]_vars

(***************************************************************************)
(* Fairness.  The timer fires and its callback gets the lock, which nobody *)
(* keeps; an attempt ends, if only by its timeout; Wait returns when the   *)
(* sends are over.  Nothing obliges anyone to enqueue or to close.         *)
(***************************************************************************)
Fairness ==
    /\ WF_vars(TimerFires)
    /\ WF_vars(Flush)
    /\ WF_vars(Send)
    /\ WF_vars(CloseReturns)

LiveSpec == Spec /\ Fairness

-----------------------------------------------------------------------------
(* Safety. *)

\* A notice that waits is never left without a timer, or the callback of one,
\* to send it: whatever the early flushes and the stale callbacks overlap.
NothingStranded ==
    pending # {} => /\ timer # "none"
                    /\ timer = "fired" => calls > 0

\* A notice is dropped as a duplicate only for one that is still to be sent:
\* what happens again in a later window is told again.
DuplicateOfWaiting == seen = KeysOf(pending)

\* A notice goes into one digest and no channel sends it from two goroutines:
\* it is not both waiting and in flight, nor twice in flight.
OneDigestEach ==
    /\ \A s \in sends : s.digest \cap pending = {}
    /\ \A s, t \in sends :
          s.channel = t.channel /\ s.digest \cap t.digest # {} => s = t

\* The window never holds MaxBatch notices between two calls, and a digest made
\* of it names a key once and is of one module.
WindowsWellFormed ==
    /\ Cardinality(pending) < MaxBatch
    /\ \A s \in sends : \A n, m \in s.digest :
          /\ KeyOf[n] = KeyOf[m] => n = m
          /\ ModuleOf[KeyOf[n]] = ModuleOf[KeyOf[m]]

\* Lost answers repeat a notice at most as often as the retries allow, and a
\* notice that waits has not been received before.
DeliveryBounded ==
    \A c \in Channels, n \in Notices :
        /\ received[c][n] <= Retries
        /\ n \in pending => received[c][n] = 0

\* When Close has returned, every notice that Enqueue took has reached every
\* channel or was given up on after all its attempts: none is waiting, in
\* flight or accepted later.
ClosedIsComplete ==
    close = "done" =>
        \A n \in accepted, c \in Channels : received[c][n] > 0 \/ n \in gaveUp[c]

-----------------------------------------------------------------------------
(* Liveness, and the promise of Alerts. *)

Settled(n) == \A c \in Channels : received[c][n] > 0 \/ n \in gaveUp[c]

\* Every notice that Enqueue took is delivered to or given up by each channel,
\* closed or not.
EveryNoticeSettled == \A n \in Notices : n \in accepted ~> Settled(n)

CloseEnds == close = "waiting" ~> close = "done"

TimesSent(k) == Cardinality({n \in accepted \ pending : KeyOf[n] = k})

Promise == INSTANCE Alerts WITH
    Events <- Keys,
    batch  <- KeysOf(pending),
    sent   <- [k \in Keys |-> TimesSent(k)]

\* The dispatcher keeps the promise that TripPaths builds on.
KeepsPromise == Promise!LiveSpec
=============================================================================
