-------------------------- MODULE DispatcherProofs --------------------------
(***************************************************************************)
(* What holds of Dispatcher for any notices, keys, modules, channels and   *)
(* limits: the safety invariants TLC checks on MCDispatcher, and that the  *)
(* dispatcher keeps the safety part of the promise stated in Alerts.       *)
(*                                                                         *)
(* One inductive invariant carries them all.  Its parts lean on each       *)
(* other: a digest is disjoint from those in flight because what is        *)
(* flushed was pending, a key occurs once in it because the keys seen are  *)
(* those of the pending notices, and a notice is accounted for because it  *)
(* leaves the window only into a digest for each channel.                  *)
(***************************************************************************)
EXTENDS Dispatcher, FiniteSetTheorems, TLAPS

\* A notice that Enqueue took waits, is in flight or is settled.
AccountedFor ==
    \A n \in accepted, c \in Channels :
        \/ n \in pending
        \/ \E s \in sends : n \in s.digest /\ s.channel = c
        \/ received[c][n] > 0
        \/ n \in gaveUp[c]

DispatcherInv ==
    /\ TypeOK
    /\ NothingStranded
    /\ timer = "fired" => calls > 0
    /\ DuplicateOfWaiting
    /\ \A n, m \in pending : KeyOf[n] = KeyOf[m] => n = m
    /\ \A s \in sends : s.digest \subseteq accepted
    /\ OneDigestEach
    /\ AccountedFor
    /\ close # "open" => pending = {}
    /\ close = "done" => sends = {}

-----------------------------------------------------------------------------
(* flushLocked. *)

\* The sends that a flush starts: their types, and what they carry.
LEMMA StartedFacts ==
    ASSUME NEW waiting \in SUBSET Notices
    PROVE  /\ Started(waiting) \in SUBSET Sends
           /\ \A s \in Started(waiting) : s.digest \subseteq waiting
           /\ \A s, t \in Started(waiting) :
                 s.channel = t.channel /\ s.digest \cap t.digest # {} => s = t
           /\ \A n \in waiting, c \in Channels :
                 \E s \in Started(waiting) : n \in s.digest /\ s.channel = c
           /\ waiting = {} => Started(waiting) = {}
<1>1. \A d \in Digests(waiting) : d \in SUBSET waiting
  BY DEF Digests, DigestFor
<1>2. 0 \in 0 .. Retries - 1
  BY DispatcherAssumption
<1>3. Started(waiting) \in SUBSET Sends
  BY <1>1, <1>2 DEF Started, Sends
<1>4. \A s \in Started(waiting) : s.digest \subseteq waiting
  BY <1>1 DEF Started
<1>5. ASSUME NEW s \in Started(waiting), NEW t \in Started(waiting),
             s.channel = t.channel, s.digest \cap t.digest # {}
      PROVE  s = t
  <2>1. PICK m \in Modules : s.digest = DigestFor(waiting, m)
    BY DEF Started, Digests
  <2>2. PICK p \in Modules : t.digest = DigestFor(waiting, p)
    BY DEF Started, Digests
  <2>3. m = p
    BY <1>5, <2>1, <2>2 DEF DigestFor
  <2>4. PICK d \in Digests(waiting), c \in Channels :
          s = [digest |-> d, channel |-> c, attempt |-> 0]
    BY DEF Started
  <2>5. PICK e \in Digests(waiting), b \in Channels :
          t = [digest |-> e, channel |-> b, attempt |-> 0]
    BY DEF Started
  <2> QED BY <1>5, <2>1, <2>2, <2>3, <2>4, <2>5
<1>6. ASSUME NEW n \in waiting, NEW c \in Channels
      PROVE  \E s \in Started(waiting) : n \in s.digest /\ s.channel = c
  <2>1. ModuleOf[KeyOf[n]] \in Modules
    BY DispatcherAssumption
  <2>2. n \in DigestFor(waiting, ModuleOf[KeyOf[n]])
    BY DEF DigestFor
  <2>3. DigestFor(waiting, ModuleOf[KeyOf[n]]) \in Digests(waiting)
    BY <2>1, <2>2 DEF Digests
  <2>4. [digest |-> DigestFor(waiting, ModuleOf[KeyOf[n]]), channel |-> c, attempt |-> 0]
          \in Started(waiting)
    BY <2>3 DEF Started
  <2> QED BY <2>2, <2>4
<1>7. waiting = {} => Started(waiting) = {}
  BY <1>1 DEF Started, Digests
<1> QED BY <1>3, <1>4, <1>5, <1>6, <1>7

\* What flushing `waiting' leaves of the invariant, whoever flushes: the
\* notices of waiting are accepted by then, and in no digest yet.
LEMMA FlushLockedInv ==
    ASSUME DispatcherInv,
           NEW waiting \in SUBSET accepted',
           FlushLocked(waiting),
           pending \subseteq waiting,
           accepted' = accepted \cup waiting,
           accepted' \in SUBSET offered', offered' \in SUBSET Notices,
           \A s \in sends : s.digest \cap waiting = {},
           waiting = {} => pending = {},
           UNCHANGED <<received, gaveUp>>
    PROVE  /\ pending' = {} /\ seen' = {} /\ timer' = "none"
           /\ sends' \in SUBSET Sends
           /\ \A s \in sends' : s.digest \subseteq accepted'
           /\ OneDigestEach'
           /\ AccountedFor'
<1>1. pending' = {} /\ timer' = "none" /\ sends' = sends \cup Started(waiting)
  BY DEF FlushLocked
<1>2. waiting \in SUBSET Notices
  OBVIOUS
<1>3. seen' = {}
  BY DEF FlushLocked, DispatcherInv, DuplicateOfWaiting, KeysOf
<1>4. sends' \in SUBSET Sends
  BY <1>1, <1>2, StartedFacts DEF DispatcherInv, TypeOK
<1>5. \A s \in sends' : s.digest \subseteq accepted'
  BY <1>1, <1>2, StartedFacts DEF DispatcherInv
<1>6. OneDigestEach'
  <2>1. \A s \in sends, t \in Started(waiting) : s.digest \cap t.digest = {}
    BY <1>2, StartedFacts
  <2> QED BY <1>1, <1>2, <2>1, StartedFacts DEF DispatcherInv, OneDigestEach
<1>7. AccountedFor'
  <2> SUFFICES ASSUME NEW n \in accepted', NEW c \in Channels
               PROVE  \/ \E s \in sends' : n \in s.digest /\ s.channel = c
                      \/ received[c][n] > 0
                      \/ n \in gaveUp[c]
    BY DEF AccountedFor
  <2>1. CASE n \in waiting
    BY <1>1, <1>2, <2>1, StartedFacts
  <2>2. CASE n \notin waiting
    <3>1. n \in accepted /\ n \notin pending
      BY <2>2
    <3> QED BY <1>1, <3>1 DEF DispatcherInv, AccountedFor
  <2> QED BY <2>1, <2>2
<1> QED BY <1>1, <1>3, <1>4, <1>5, <1>6, <1>7

-----------------------------------------------------------------------------
(* The invariant holds at first and every action keeps it. *)

\* The inductive invariant holds of a new dispatcher.
LEMMA DispatcherInit == Init => DispatcherInv
  BY DEF Init, DispatcherInv, TypeOK, NothingStranded, DuplicateOfWaiting, KeysOf,
         OneDigestEach, AccountedFor

\* A refused notice keeps the invariant.
LEMMA RefuseInv ==
    ASSUME DispatcherInv, NEW n \in Notices, Refuse(n) PROVE DispatcherInv'
  BY DEF Refuse, DispatcherInv, TypeOK, NothingStranded, DuplicateOfWaiting, KeysOf,
         OneDigestEach, AccountedFor

\* A notice that joins the window keeps the invariant: it is new and starts a
\* timer.
LEMMA HoldInv ==
    ASSUME DispatcherInv, NEW n \in Notices, Hold(n) PROVE DispatcherInv'
<1>1. close = "open" /\ KeyOf[n] \notin seen /\ n \notin accepted /\ KeyOf[n] \in Keys
  BY DispatcherAssumption DEF Hold, Refused, DispatcherInv, TypeOK
<1>2. TypeOK'
  BY <1>1 DEF Hold, DispatcherInv, TypeOK
<1>3. NothingStranded'
  BY DEF Hold, DispatcherInv, TypeOK, NothingStranded
<1>4. DuplicateOfWaiting'
  BY DEF Hold, DispatcherInv, DuplicateOfWaiting, KeysOf
<1>5. \A m, p \in pending' : KeyOf[m] = KeyOf[p] => m = p
  BY <1>1 DEF Hold, DispatcherInv, DuplicateOfWaiting, KeysOf
<1>6. \A s \in sends' : s.digest \subseteq accepted'
  BY DEF Hold, DispatcherInv
<1>7. OneDigestEach'
  BY <1>1 DEF Hold, DispatcherInv, OneDigestEach
<1>8. AccountedFor'
  <2> SUFFICES ASSUME NEW m \in accepted', NEW c \in Channels
               PROVE  \/ m \in pending'
                      \/ \E s \in sends : m \in s.digest /\ s.channel = c
                      \/ received[c][m] > 0
                      \/ m \in gaveUp[c]
    BY DEF Hold, AccountedFor
  <2>1. m \in accepted \/ m = n
    BY DEF Hold
  <2> QED BY <2>1 DEF Hold, DispatcherInv, AccountedFor
<1>9. (close' # "open" => pending' = {}) /\ (close' = "done" => sends' = {})
  BY <1>1 DEF Hold
<1>10. timer' = "fired" => calls' > 0
  BY DEF Hold, DispatcherInv
<1> QED BY <1>10, <1>2, <1>3, <1>4, <1>5, <1>6, <1>7, <1>8, <1>9 DEF DispatcherInv

\* With the window empty, the parts of the invariant about it are trivial.
LEMMA EmptyWindowInv ==
    ASSUME pending' = {}, seen' = {}
    PROVE  /\ NothingStranded' /\ DuplicateOfWaiting'
           /\ \A n, m \in pending' : KeyOf[n] = KeyOf[m] => n = m
  BY DEF NothingStranded, DuplicateOfWaiting, KeysOf

\* A notice that fills the window keeps the invariant: it leaves in its digest.
LEMMA FillInv ==
    ASSUME DispatcherInv, NEW n \in Notices, Fill(n) PROVE DispatcherInv'
<1> DEFINE waiting == pending \cup {n}
<1>1. close = "open" /\ n \notin accepted
  BY DEF Fill, Refused, DispatcherInv, TypeOK
<1>2. accepted' \in SUBSET offered' /\ offered' \in SUBSET Notices
  BY DEF Fill, DispatcherInv, TypeOK
<1>3. pending \in SUBSET accepted
  BY DEF DispatcherInv, TypeOK
<1>4. accepted' = accepted \cup waiting /\ waiting \in SUBSET accepted'
  BY <1>3 DEF Fill
<1>5. \A s \in sends : s.digest \cap waiting = {}
  BY <1>1 DEF DispatcherInv, OneDigestEach
<1>6. FlushLocked(waiting) /\ UNCHANGED <<calls, close, received, gaveUp>>
  BY DEF Fill
<1>7. /\ pending' = {} /\ seen' = {} /\ timer' = "none"
      /\ sends' \in SUBSET Sends
      /\ \A s \in sends' : s.digest \subseteq accepted'
      /\ OneDigestEach' /\ AccountedFor'
  <2>1. pending \subseteq waiting /\ (waiting = {} => pending = {})
    OBVIOUS
  <2>2. UNCHANGED <<received, gaveUp>>
    BY <1>6
  <2> HIDE DEF waiting
  <2> QED BY <1>2, <1>4, <1>5, <1>6, <2>1, <2>2, FlushLockedInv
<1>8. TypeOK'
  BY <1>2, <1>6, <1>7 DEF DispatcherInv, TypeOK
<1> QED BY <1>1, <1>6, <1>7, <1>8, EmptyWindowInv DEF DispatcherInv

\* The callback and Close flush what is pending.
LEMMA FlushPendingInv ==
    ASSUME DispatcherInv, FlushLocked(pending), UNCHANGED <<offered, accepted, received, gaveUp>>
    PROVE  /\ pending' = {} /\ seen' = {} /\ timer' = "none"
           /\ sends' \in SUBSET Sends
           /\ \A s \in sends' : s.digest \subseteq accepted'
           /\ OneDigestEach' /\ AccountedFor'
           /\ NothingStranded' /\ DuplicateOfWaiting'
           /\ \A n, m \in pending' : KeyOf[n] = KeyOf[m] => n = m
<1>1. /\ pending \in SUBSET accepted'
      /\ accepted' = accepted \cup pending
      /\ accepted' \in SUBSET offered' /\ offered' \in SUBSET Notices
  BY DEF DispatcherInv, TypeOK
<1>2. \A s \in sends : s.digest \cap pending = {}
  BY DEF DispatcherInv, OneDigestEach
<1>3. /\ pending' = {} /\ seen' = {} /\ timer' = "none"
      /\ sends' \in SUBSET Sends
      /\ \A s \in sends' : s.digest \subseteq accepted'
      /\ OneDigestEach' /\ AccountedFor'
  BY <1>1, <1>2, FlushLockedInv
<1> QED BY <1>3, EmptyWindowInv

\* A timer callback, stale or not, keeps the invariant.
LEMMA FlushInv == ASSUME DispatcherInv, Flush PROVE DispatcherInv'
<1>1. /\ pending' = {} /\ seen' = {} /\ timer' = "none"
      /\ sends' \in SUBSET Sends
      /\ \A s \in sends' : s.digest \subseteq accepted'
      /\ OneDigestEach' /\ AccountedFor'
      /\ NothingStranded' /\ DuplicateOfWaiting'
      /\ \A n, m \in pending' : KeyOf[n] = KeyOf[m] => n = m
  BY FlushPendingInv DEF Flush
<1>2. calls' \in Nat
  BY DEF Flush, DispatcherInv, TypeOK
<1>3. TypeOK'
  BY <1>1, <1>2 DEF Flush, DispatcherInv, TypeOK
<1>4. close' = "done" => sends' = {}
  <2>1. CASE close' = "done"
    <3>1. pending = {} /\ sends = {}
      BY <2>1 DEF Flush, DispatcherInv
    <3> QED BY <3>1, StartedFacts DEF Flush, FlushLocked
  <2> QED BY <2>1
<1> QED BY <1>1, <1>3, <1>4 DEF DispatcherInv

\* The first half of Close keeps the invariant: it flushes the window.
LEMMA CloseInv == ASSUME DispatcherInv, Close PROVE DispatcherInv'
<1>1. /\ pending' = {} /\ seen' = {} /\ timer' = "none"
      /\ sends' \in SUBSET Sends
      /\ \A s \in sends' : s.digest \subseteq accepted'
      /\ OneDigestEach' /\ AccountedFor'
      /\ NothingStranded' /\ DuplicateOfWaiting'
      /\ \A n, m \in pending' : KeyOf[n] = KeyOf[m] => n = m
  BY FlushPendingInv DEF Close
<1>2. TypeOK'
  BY <1>1 DEF Close, DispatcherInv, TypeOK
<1> QED BY <1>1, <1>2 DEF Close, DispatcherInv

\* A timer that fires keeps the invariant: its callback is counted.
LEMMA TimerFiresInv == ASSUME DispatcherInv, TimerFires PROVE DispatcherInv'
  BY DEF TimerFires, DispatcherInv, TypeOK, NothingStranded, DuplicateOfWaiting, KeysOf,
         OneDigestEach, AccountedFor

\* Close returns only when no send is left, which keeps the invariant.
LEMMA CloseReturnsInv == ASSUME DispatcherInv, CloseReturns PROVE DispatcherInv'
  BY DEF CloseReturns, DispatcherInv, TypeOK, NothingStranded, DuplicateOfWaiting, KeysOf,
         OneDigestEach, AccountedFor

\* An attempt that arrives is counted once for each notice of its digest.
LEMMA ArriveFacts ==
    ASSUME DispatcherInv, NEW s \in sends, Arrive(s)
    PROVE  /\ received' \in [Channels -> [Notices -> Nat]]
           /\ \A c \in Channels, n \in Notices :
                 received'[c][n] = received[c][n] +
                     (IF c = s.channel /\ n \in s.digest THEN 1 ELSE 0)
<1>1. s.channel \in Channels /\ received \in [Channels -> [Notices -> Nat]]
  BY DEF DispatcherInv, TypeOK, Sends
<1>2. \A c \in Channels, n \in Notices : received[c][n] \in Nat
  BY <1>1
<1>3. received' = [received EXCEPT ![s.channel] =
         [n \in Notices |-> received[s.channel][n] + (IF n \in s.digest THEN 1 ELSE 0)]]
  BY DEF Arrive
<1>4. \A n \in Notices : received'[s.channel][n] =
         received[s.channel][n] + (IF n \in s.digest THEN 1 ELSE 0)
  BY <1>1, <1>3
<1>5. \A c \in Channels : c # s.channel => received'[c] = received[c]
  BY <1>1, <1>3
<1>6. received' \in [Channels -> [Notices -> Nat]]
  <2>1. [n \in Notices |-> received[s.channel][n] + (IF n \in s.digest THEN 1 ELSE 0)]
          \in [Notices -> Nat]
    BY <1>1, <1>2
  <2> QED BY <1>1, <1>3, <2>1
<1>7. ASSUME NEW c \in Channels, NEW n \in Notices
      PROVE  received'[c][n] = received[c][n] +
                 (IF c = s.channel /\ n \in s.digest THEN 1 ELSE 0)
  <2>1. CASE c = s.channel
    BY <1>4, <2>1
  <2>2. CASE c # s.channel
    BY <1>2, <1>5, <2>2
  <2> QED BY <2>1, <2>2
<1> QED BY <1>6, <1>7

\* What an attempt leaves alone.
LEMMA SendKeeps ==
    ASSUME DispatcherInv,
           UNCHANGED <<offered, accepted, pending, seen, timer, calls, close>>,
           received' \in [Channels -> [Notices -> Nat]],
           gaveUp' \in [Channels -> SUBSET Notices],
           sends' \in SUBSET Sends,
           \A s \in sends' : s.digest \subseteq accepted,
           OneDigestEach', AccountedFor',
           close # "done"
    PROVE  DispatcherInv'
  BY DEF DispatcherInv, TypeOK, NothingStranded, DuplicateOfWaiting, KeysOf

\* A delivered digest keeps the invariant: its channel has received it.
LEMMA SendSucceedsInv ==
    ASSUME DispatcherInv, NEW s \in sends, SendSucceeds(s) PROVE DispatcherInv'
<1>1. /\ received' \in [Channels -> [Notices -> Nat]]
      /\ \A c \in Channels, n \in Notices :
            received'[c][n] = received[c][n] +
                (IF c = s.channel /\ n \in s.digest THEN 1 ELSE 0)
  BY ArriveFacts DEF SendSucceeds
<1>2. sends' = sends \ {s}
  BY DEF SendSucceeds
<1>3. sends' \in SUBSET Sends /\ \A t \in sends' : t.digest \subseteq accepted
  BY <1>2 DEF DispatcherInv, TypeOK
<1>4. OneDigestEach'
  BY <1>2 DEF SendSucceeds, DispatcherInv, OneDigestEach
<1>5. AccountedFor'
  <2> SUFFICES ASSUME NEW n \in accepted, NEW c \in Channels
               PROVE  \/ n \in pending
                      \/ \E t \in sends' : n \in t.digest /\ t.channel = c
                      \/ received'[c][n] > 0
                      \/ n \in gaveUp[c]
    BY DEF SendSucceeds, AccountedFor
  <2>1. received[c][n] \in Nat /\ n \in Notices
    BY DEF DispatcherInv, TypeOK
  <2>2. CASE n \in s.digest /\ s.channel = c
    BY <1>1, <2>1, <2>2
  <2>3. CASE ~(n \in s.digest /\ s.channel = c)
    <3>1. received'[c][n] = received[c][n]
      BY <1>1, <2>1, <2>3
    <3> QED BY <1>2, <2>3, <3>1 DEF DispatcherInv, AccountedFor
  <2> QED BY <2>2, <2>3
<1>6. gaveUp' \in [Channels -> SUBSET Notices] /\ close # "done"
  BY DEF SendSucceeds, DispatcherInv, TypeOK
<1>7. UNCHANGED <<offered, accepted, pending, seen, timer, calls, close>>
  BY DEF SendSucceeds
<1> QED BY <1>1, <1>3, <1>4, <1>5, <1>6, <1>7, SendKeeps

\* A failed attempt keeps the invariant: the digest is tried again or given up.
LEMMA SendFailsInv ==
    ASSUME DispatcherInv, NEW s \in sends, SendFails(s) PROVE DispatcherInv'
<1>1. s \in Sends
  BY DEF DispatcherInv, TypeOK
<1>2. /\ received' \in [Channels -> [Notices -> Nat]]
      /\ \A c \in Channels, n \in Notices : received[c][n] > 0 => received'[c][n] > 0
  <2>1. \A c \in Channels, n \in Notices : received[c][n] \in Nat
    BY DEF DispatcherInv, TypeOK
  <2>2. CASE Arrive(s)
    BY <2>1, <2>2, ArriveFacts
  <2>3. CASE UNCHANGED received
    BY <2>3 DEF DispatcherInv, TypeOK
  <2> QED BY <2>2, <2>3 DEF SendFails
<1>3. UNCHANGED <<offered, accepted, pending, seen, timer, calls, close>> /\ close # "done"
  BY DEF SendFails, DispatcherInv
<1>4. CASE s.attempt < Retries - 1
  <2> DEFINE t == [s EXCEPT !.attempt = @ + 1]
  <2>1. sends' = (sends \ {s}) \cup {t} /\ UNCHANGED gaveUp
    BY <1>4 DEF SendFails, AttemptFails
  <2>2. t \in Sends /\ t.digest = s.digest /\ t.channel = s.channel
    BY <1>1, <1>4, DispatcherAssumption DEF Sends
  <2> HIDE DEF t
  <2>3. sends' \in SUBSET Sends /\ \A u \in sends' : u.digest \subseteq accepted
    BY <2>1, <2>2 DEF DispatcherInv, TypeOK
  <2>4. OneDigestEach'
    BY <1>3, <2>1, <2>2 DEF DispatcherInv, OneDigestEach
  <2>5. AccountedFor'
    <3> SUFFICES ASSUME NEW n \in accepted, NEW c \in Channels
                 PROVE  \/ n \in pending
                        \/ \E u \in sends' : n \in u.digest /\ u.channel = c
                        \/ received'[c][n] > 0
                        \/ n \in gaveUp[c]
      BY <1>3, <2>1 DEF AccountedFor
    <3>1. n \in Notices
      BY DEF DispatcherInv, TypeOK
    <3> QED BY <1>2, <2>1, <2>2, <3>1 DEF DispatcherInv, AccountedFor
  <2>6. gaveUp' \in [Channels -> SUBSET Notices]
    BY <2>1 DEF DispatcherInv, TypeOK
  <2> QED BY <1>2, <1>3, <2>3, <2>4, <2>5, <2>6, SendKeeps
<1>5. CASE ~(s.attempt < Retries - 1)
  <2>1. /\ sends' = sends \ {s}
        /\ gaveUp' = [gaveUp EXCEPT ![s.channel] = @ \cup s.digest]
    BY <1>5 DEF SendFails, AttemptFails
  <2>2. sends' \in SUBSET Sends /\ \A u \in sends' : u.digest \subseteq accepted
    BY <2>1 DEF DispatcherInv, TypeOK
  <2>3. OneDigestEach'
    BY <1>3, <2>1 DEF DispatcherInv, OneDigestEach
  <2>4. /\ gaveUp' \in [Channels -> SUBSET Notices]
        /\ gaveUp'[s.channel] = gaveUp[s.channel] \cup s.digest
        /\ \A c \in Channels : gaveUp[c] \subseteq gaveUp'[c]
    <3>1. s.channel \in Channels /\ s.digest \subseteq Notices
      BY <1>1 DEF Sends
    <3> QED BY <2>1, <3>1 DEF DispatcherInv, TypeOK
  <2>5. AccountedFor'
    <3> SUFFICES ASSUME NEW n \in accepted, NEW c \in Channels
                 PROVE  \/ n \in pending
                        \/ \E u \in sends' : n \in u.digest /\ u.channel = c
                        \/ received'[c][n] > 0
                        \/ n \in gaveUp'[c]
      BY <1>3 DEF AccountedFor
    <3>1. n \in Notices
      BY DEF DispatcherInv, TypeOK
    <3> QED BY <1>2, <2>1, <2>4, <3>1 DEF DispatcherInv, AccountedFor
  <2> QED BY <1>2, <1>3, <2>2, <2>3, <2>4, <2>5, SendKeeps
<1> QED BY <1>4, <1>5

\* Every step keeps the inductive invariant.
LEMMA DispatcherStep == DispatcherInv /\ [Next]_vars => DispatcherInv'
<1> SUFFICES ASSUME DispatcherInv, [Next]_vars PROVE DispatcherInv'
  OBVIOUS
<1>1. CASE UNCHANGED vars
  BY <1>1 DEF vars, DispatcherInv, TypeOK, NothingStranded, DuplicateOfWaiting, KeysOf,
     OneDigestEach, AccountedFor
<1>2. CASE Next
  BY <1>2, RefuseInv, HoldInv, FillInv, TimerFiresInv, FlushInv, CloseInv,
     CloseReturnsInv, SendSucceedsInv, SendFailsInv
  DEF Next, Enqueue, Send
<1> QED BY <1>1, <1>2

\* The inductive invariant holds always.
LEMMA DispatcherAlways == Spec => []DispatcherInv
  BY DispatcherInit, DispatcherStep, PTL DEF Spec

-----------------------------------------------------------------------------
(* What follows from it. *)

\* The waiting and the accepted notices, the window's keys, the timer, the sends
\* under way and what each channel has received stay within their types.
THEOREM TypeCorrect == Spec => []TypeOK
<1>1. DispatcherInv => TypeOK
  BY DEF DispatcherInv
<1> QED BY <1>1, DispatcherAlways, PTL

\* Whatever early flushes and stale timer callbacks overlap, a waiting notice
\* has a timer or a callback that will send it.
THEOREM NoticesNeverStranded == Spec => []NothingStranded
<1>1. DispatcherInv => NothingStranded
  BY DEF DispatcherInv
<1> QED BY <1>1, DispatcherAlways, PTL

\* A notice is dropped as a duplicate only for one still to be sent.
THEOREM DuplicatesOfWaitingOnly == Spec => []DuplicateOfWaiting
<1>1. DispatcherInv => DuplicateOfWaiting
  BY DEF DispatcherInv
<1> QED BY <1>1, DispatcherAlways, PTL

\* A notice never goes into two digests of one channel.
THEOREM NoticesInOneDigest == Spec => []OneDigestEach
<1>1. DispatcherInv => OneDigestEach
  BY DEF DispatcherInv
<1> QED BY <1>1, DispatcherAlways, PTL

\* When Close has returned, every notice that Enqueue ever took was delivered
\* to, or given up by, every channel.
THEOREM CloseLeavesNothing == Spec => []ClosedIsComplete
<1>1. DispatcherInv => ClosedIsComplete
  BY DEF DispatcherInv, AccountedFor, ClosedIsComplete, TypeOK
<1> QED BY <1>1, DispatcherAlways, PTL

-----------------------------------------------------------------------------
(* WindowsWellFormed. *)

\* The digests made of notices with different keys are well formed.
LEMMA StartedWellFormed ==
    ASSUME NEW waiting \in SUBSET Notices,
           \A n, m \in waiting : KeyOf[n] = KeyOf[m] => n = m
    PROVE  \A s \in Started(waiting) : \A n, m \in s.digest :
              /\ KeyOf[n] = KeyOf[m] => n = m
              /\ ModuleOf[KeyOf[n]] = ModuleOf[KeyOf[m]]
<1> SUFFICES ASSUME NEW s \in Started(waiting), NEW n \in s.digest, NEW m \in s.digest
             PROVE  /\ KeyOf[n] = KeyOf[m] => n = m
                    /\ ModuleOf[KeyOf[n]] = ModuleOf[KeyOf[m]]
  OBVIOUS
<1>1. PICK p \in Modules : s.digest = DigestFor(waiting, p)
  BY DEF Started, Digests
<1> QED BY <1>1 DEF DigestFor

\* A flush of such notices starts a new, empty window.
LEMMA FlushLockedWellFormed ==
    ASSUME WindowsWellFormed, NEW waiting \in SUBSET Notices, FlushLocked(waiting),
           \A n, m \in waiting : KeyOf[n] = KeyOf[m] => n = m
    PROVE  WindowsWellFormed'
<1>1. pending' = {} /\ sends' = sends \cup Started(waiting)
  BY DEF FlushLocked
<1>2. Cardinality(pending') < MaxBatch
  BY <1>1, FS_EmptySet, DispatcherAssumption
<1> QED BY <1>1, <1>2, StartedWellFormed DEF WindowsWellFormed

\* The windows of a new dispatcher are well formed.
LEMMA WellFormedInit == Init => WindowsWellFormed
  BY FS_EmptySet, DispatcherAssumption DEF Init, WindowsWellFormed

\* A notice whose key is new to the window keeps its keys distinct.
LEMMA KeysStayDistinct ==
    ASSUME DispatcherInv, NEW n \in Notices, ~Refused(n)
    PROVE  \A m, p \in pending \cup {n} : KeyOf[m] = KeyOf[p] => m = p
  BY DEF Refused, DispatcherInv, DuplicateOfWaiting, KeysOf

\* Every step keeps the windows well formed.
LEMMA WellFormedStep ==
    DispatcherInv /\ WindowsWellFormed /\ [Next]_vars => WindowsWellFormed'
<1> SUFFICES ASSUME DispatcherInv, WindowsWellFormed, [Next]_vars PROVE WindowsWellFormed'
  OBVIOUS
<1>1. CASE UNCHANGED <<pending, sends>>
  BY <1>1 DEF WindowsWellFormed
<1>2. ASSUME NEW n \in Notices, Hold(n) PROVE WindowsWellFormed'
  <2>1. IsFiniteSet(pending \cup {n})
    BY FS_Subset, FS_AddElement, DispatcherAssumption DEF DispatcherInv, TypeOK
  <2>2. Cardinality(pending \cup {n}) \in Nat
    BY <2>1, FS_CardinalityType
  <2>3. Cardinality(pending') < MaxBatch
    BY <1>2, <2>2, DispatcherAssumption DEF Hold, Full
  <2> QED BY <1>2, <2>3 DEF Hold, WindowsWellFormed
<1>3. ASSUME NEW n \in Notices, Fill(n) PROVE WindowsWellFormed'
  <2>1. pending \cup {n} \in SUBSET Notices
    BY DEF DispatcherInv, TypeOK
  <2> QED BY <1>3, <2>1, KeysStayDistinct, FlushLockedWellFormed DEF Fill
<1>4. CASE Flush \/ Close
  <2>1. pending \in SUBSET Notices
    BY DEF DispatcherInv, TypeOK
  <2> QED BY <1>4, <2>1, FlushLockedWellFormed DEF Flush, Close, DispatcherInv
<1>5. CASE Send
  <2>1. PICK s \in sends : SendSucceeds(s) \/ SendFails(s)
    BY <1>5 DEF Send
  <2>2. s \in Sends
    BY DEF DispatcherInv, TypeOK
  <2>3. [s EXCEPT !.attempt = @ + 1].digest = s.digest
    BY <2>2 DEF Sends
  <2>4. \A t \in sends' : t \in sends \/ t = [s EXCEPT !.attempt = @ + 1]
    BY <2>1 DEF SendSucceeds, SendFails, AttemptFails
  <2>5. UNCHANGED pending
    BY <2>1 DEF SendSucceeds, SendFails
  <2>6. \A t \in sends' : \E u \in sends : t.digest = u.digest
    BY <2>3, <2>4
  <2> QED BY <2>5, <2>6 DEF WindowsWellFormed
<1> QED BY <1>1, <1>2, <1>3, <1>4, <1>5
    DEF Next, Enqueue, Refuse, TimerFires, CloseReturns, vars

\* The window never holds MaxBatch notices between two calls, and no digest
\* repeats a key or mixes modules.
THEOREM WindowsAreWellFormed == Spec => []WindowsWellFormed
  BY DispatcherAlways, WellFormedInit, WellFormedStep, PTL DEF Spec

-----------------------------------------------------------------------------
(* DeliveryBounded. *)

\* What a receiver got of a notice in flight is bounded by the attempts made,
\* and it got nothing of what is not sent yet.
ReceivedInv ==
    \A c \in Channels, n \in Notices :
        /\ received[c][n] <= Retries
        /\ n \in pending \/ n \notin accepted => received[c][n] = 0
        /\ \A s \in sends : n \in s.digest /\ s.channel = c => received[c][n] <= s.attempt

\* Nothing has been received at the start.
LEMMA ReceivedInit == Init => ReceivedInv
  BY DispatcherAssumption DEF Init, ReceivedInv

\* A flush starts sends only of notices nobody has received.
LEMMA FlushLockedReceived ==
    ASSUME DispatcherInv, ReceivedInv, NEW waiting \in SUBSET Notices, FlushLocked(waiting),
           UNCHANGED received, accepted' = accepted \cup waiting,
           \A n \in waiting : n \in pending \/ n \notin accepted
    PROVE  ReceivedInv'
<1>1. pending' = {} /\ sends' = sends \cup Started(waiting)
  BY DEF FlushLocked
<1>2. \A s \in Started(waiting) : s.attempt = 0 /\ s.digest \subseteq waiting
  <2>1. \A s \in Started(waiting) : s.attempt = 0
    BY DEF Started
  <2> QED BY <2>1, StartedFacts
<1>3. \A c \in Channels, n \in waiting : received[c][n] = 0
  BY DEF ReceivedInv
<1> QED BY <1>1, <1>2, <1>3 DEF ReceivedInv

\* Every step keeps the bound on what was received.
LEMMA ReceivedStep == DispatcherInv /\ ReceivedInv /\ [Next]_vars => ReceivedInv'
<1> SUFFICES ASSUME DispatcherInv, ReceivedInv, [Next]_vars PROVE ReceivedInv'
  OBVIOUS
<1>1. CASE UNCHANGED <<accepted, pending, sends, received>>
  BY <1>1 DEF ReceivedInv
<1>2. ASSUME NEW n \in Notices, Hold(n) PROVE ReceivedInv'
  BY <1>2 DEF Hold, ReceivedInv, DispatcherInv, TypeOK
<1>3. ASSUME NEW n \in Notices, Fill(n) PROVE ReceivedInv'
  <2>1. pending \cup {n} \in SUBSET Notices /\ pending \subseteq accepted /\ n \notin accepted
    BY <1>3 DEF Fill, DispatcherInv, TypeOK
  <2>2. /\ FlushLocked(pending \cup {n})
        /\ UNCHANGED received
        /\ accepted' = accepted \cup (pending \cup {n})
    BY <1>3, <2>1 DEF Fill
  <2> QED BY <2>1, <2>2, FlushLockedReceived
<1>4. CASE Flush \/ Close
  <2>1. pending \in SUBSET Notices /\ accepted = accepted \cup pending
    BY DEF DispatcherInv, TypeOK
  <2>2. FlushLocked(pending) /\ UNCHANGED <<received, accepted>>
    BY <1>4 DEF Flush, Close
  <2> QED BY <2>1, <2>2, FlushLockedReceived
<1>5. CASE Send
  <2>1. PICK s \in sends : SendSucceeds(s) \/ SendFails(s)
    BY <1>5 DEF Send
  <2> DEFINE t == [s EXCEPT !.attempt = @ + 1]
  <2>2. s \in Sends /\ s.attempt \in Nat /\ s.attempt <= Retries - 1
    BY DispatcherAssumption DEF DispatcherInv, TypeOK, Sends
  <2>3. t.digest = s.digest /\ t.channel = s.channel /\ t.attempt = s.attempt + 1
    BY <2>2 DEF Sends
  <2> HIDE DEF t
  <2>4. \A u \in sends' : (u \in sends /\ u # s) \/ u = t
    BY <2>1, <2>2, <2>3 DEF SendSucceeds, SendFails, AttemptFails, t
  <2>5. UNCHANGED <<accepted, pending>>
    BY <2>1 DEF SendSucceeds, SendFails
  <2>6. ASSUME NEW c \in Channels, NEW n \in Notices
        PROVE  \/ received'[c][n] = received[c][n]
               \/ /\ c = s.channel /\ n \in s.digest
                  /\ received'[c][n] = received[c][n] + 1
    <3>1. received[c][n] \in Nat
      BY DEF DispatcherInv, TypeOK
    <3>2. CASE Arrive(s)
      BY <3>1, <3>2, ArriveFacts
    <3>3. CASE UNCHANGED received
      BY <3>3
    <3> QED BY <2>1, <3>2, <3>3 DEF SendSucceeds, SendFails
  <2>7. ASSUME NEW c \in Channels, NEW n \in Notices,
               received'[c][n] # received[c][n]
        PROVE  /\ received'[c][n] <= s.attempt + 1
               /\ n \notin pending /\ n \in accepted
               /\ \A u \in sends : n \in u.digest /\ u.channel = c => u = s
    <3>1. c = s.channel /\ n \in s.digest /\ received'[c][n] = received[c][n] + 1
      BY <2>6, <2>7
    <3>2. received[c][n] <= s.attempt /\ received[c][n] \in Nat
      BY <3>1 DEF ReceivedInv, DispatcherInv, TypeOK
    <3>3. n \notin pending /\ n \in accepted
      BY <3>1 DEF DispatcherInv, OneDigestEach
    <3> QED BY <2>2, <3>1, <3>2, <3>3 DEF DispatcherInv, OneDigestEach
  <2>8. ASSUME NEW c \in Channels, NEW n \in Notices
        PROVE  /\ received'[c][n] <= Retries
               /\ n \in pending' \/ n \notin accepted' => received'[c][n] = 0
               /\ \A u \in sends' : n \in u.digest /\ u.channel = c
                                      => received'[c][n] <= u.attempt
    <3>1. received[c][n] \in Nat /\ Retries \in Nat
      BY DispatcherAssumption DEF DispatcherInv, TypeOK
    <3>2. CASE received'[c][n] = received[c][n]
      BY <2>2, <2>3, <2>4, <2>5, <3>1, <3>2 DEF ReceivedInv
    <3>3. CASE received'[c][n] # received[c][n]
      <4>1. /\ received'[c][n] <= s.attempt + 1
            /\ n \notin pending /\ n \in accepted
            /\ \A u \in sends : n \in u.digest /\ u.channel = c => u = s
        BY <2>7, <3>3
      <4>2. received'[c][n] \in Nat
        BY <2>6, <3>1
      <4>3. received'[c][n] <= Retries
        BY <2>2, <3>1, <4>1, <4>2
      <4>4. ASSUME NEW u \in sends', n \in u.digest, u.channel = c
            PROVE  received'[c][n] <= u.attempt
        BY <2>3, <2>4, <4>1, <4>4
      <4> QED BY <2>5, <4>1, <4>3, <4>4
    <3> QED BY <3>2, <3>3
  <2> QED BY <2>8 DEF ReceivedInv
<1> QED BY <1>1, <1>2, <1>3, <1>4, <1>5
    DEF Next, Enqueue, Refuse, TimerFires, CloseReturns, vars

\* No receiver gets a notice more often than the retries allow, however many
\* answers are lost, nor before its window is flushed.
THEOREM DeliveriesAreBounded == Spec => []DeliveryBounded
<1>1. ReceivedInv => DeliveryBounded
  BY DEF ReceivedInv, DeliveryBounded
<1> QED BY <1>1, DispatcherAlways, ReceivedInit, ReceivedStep, PTL DEF Spec

-----------------------------------------------------------------------------
(* The promise of Alerts. *)

\* Notices of the window that is flushed, one key each, count once for their
\* keys.
LEMMA FlushCounts ==
    ASSUME DispatcherInv, NEW waiting \in SUBSET Notices,
           \A n, m \in waiting : KeyOf[n] = KeyOf[m] => n = m,
           pending' = {}, accepted' = (accepted \ pending) \cup waiting,
           waiting \cap (accepted \ pending) = {},
           NEW k \in Keys
    PROVE  TimesSent(k)' = TimesSent(k) + (IF k \in KeysOf(waiting) THEN 1 ELSE 0)
<1> DEFINE before == {n \in accepted \ pending : KeyOf[n] = k}
           after  == {n \in accepted' \ pending' : KeyOf[n] = k}
<1>1. IsFiniteSet(before) /\ Cardinality(before) \in Nat
  BY FS_Subset, FS_CardinalityType, DispatcherAssumption DEF DispatcherInv, TypeOK
<1>2. TimesSent(k)' = Cardinality(after) /\ TimesSent(k) = Cardinality(before)
  BY DEF TimesSent
<1>3. CASE k \in KeysOf(waiting)
  <2>1. PICK n \in waiting : KeyOf[n] = k
    BY <1>3 DEF KeysOf
  <2>2. after = before \cup {n} /\ n \notin before
    BY <2>1
  <2>3. Cardinality(after) = Cardinality(before) + 1
    <3> HIDE DEF before, after
    <3> QED BY <1>1, <2>2, FS_AddElement
  <2> QED BY <1>2, <1>3, <2>3
<1>4. CASE k \notin KeysOf(waiting)
  <2>1. after = before
    BY <1>4 DEF KeysOf
  <2> HIDE DEF before, after
  <2>2. TimesSent(k)' = TimesSent(k) /\ TimesSent(k) \in Nat
    BY <1>1, <1>2, <2>1
  <2> QED BY <1>4, <2>2
<1> QED BY <1>3, <1>4

\* A flush of waiting notices is the Send of Alerts under the mapping.
LEMMA FlushSends ==
    ASSUME DispatcherInv, NEW waiting \in SUBSET Notices,
           \A n, m \in waiting : KeyOf[n] = KeyOf[m] => n = m,
           pending' = {}, accepted' = (accepted \ pending) \cup waiting,
           waiting \cap (accepted \ pending) = {}
    PROVE  Promise!Send(KeysOf(waiting))
<1>1. KeysOf(pending)' = {}
  BY DEF KeysOf
<1>2. \A k \in Keys :
         TimesSent(k)' = TimesSent(k) + (IF k \in KeysOf(waiting) THEN 1 ELSE 0)
  BY FlushCounts
<1>3. [k \in Keys |-> TimesSent(k)]' =
        [e \in Keys |-> [k \in Keys |-> TimesSent(k)][e] +
                            (IF e \in KeysOf(waiting) THEN 1 ELSE 0)]
  BY <1>2
<1> QED BY <1>1, <1>3 DEF Promise!Send

\* A new dispatcher maps to the initial state of Alerts.
LEMMA PromiseInit == Init => Promise!Init
<1> SUFFICES ASSUME Init PROVE Promise!Init
  OBVIOUS
<1>1. KeysOf(pending) = {}
  BY DEF Init, KeysOf
<1>2. \A k \in Keys : TimesSent(k) = 0
  <2> SUFFICES ASSUME NEW k \in Keys PROVE TimesSent(k) = 0
    OBVIOUS
  <2>1. {n \in accepted \ pending : KeyOf[n] = k} = {}
    BY DEF Init
  <2> QED BY <2>1, FS_EmptySet DEF TimesSent
<1> QED BY <1>1, <1>2 DEF Promise!Init

\* Every step of the dispatcher maps to a step of Alerts or a stutter.
LEMMA PromiseStep ==
    DispatcherInv /\ [Next]_vars => [Promise!Next]_(Promise!alertVars)
<1> SUFFICES ASSUME DispatcherInv, [Next]_vars
             PROVE  Promise!Next \/ UNCHANGED Promise!alertVars
  OBVIOUS
<1>1. CASE UNCHANGED <<accepted, pending>>
  BY <1>1 DEF Promise!alertVars, KeysOf, TimesSent
<1>2. ASSUME NEW n \in Notices, Hold(n) PROVE Promise!Next
  <2>1. KeyOf[n] \in Keys /\ n \notin accepted
    BY <1>2, DispatcherAssumption DEF Hold, DispatcherInv, TypeOK
  <2>2. KeysOf(pending)' = KeysOf(pending) \cup {KeyOf[n]}
    BY <1>2 DEF Hold, KeysOf
  <2>3. accepted' \ pending' = accepted \ pending
    BY <1>2, <2>1 DEF Hold
  <2>4. \A k \in Keys : TimesSent(k)' = TimesSent(k)
    BY <2>3 DEF TimesSent
  <2>5. Promise!Accept(KeyOf[n])
    BY <2>2, <2>4 DEF Promise!Accept
  <2> QED BY <2>1, <2>5 DEF Promise!Next
<1>3. ASSUME NEW n \in Notices, Fill(n) PROVE Promise!Next
  <2>1. KeyOf[n] \in Keys /\ n \notin accepted /\ pending \subseteq accepted
    BY <1>3, DispatcherAssumption DEF Fill, DispatcherInv, TypeOK
  <2>2. pending \cup {n} \in SUBSET Notices
    BY DEF DispatcherInv, TypeOK
  <2>3. /\ pending' = {}
        /\ accepted' = (accepted \ pending) \cup (pending \cup {n})
        /\ (pending \cup {n}) \cap (accepted \ pending) = {}
    BY <1>3, <2>1 DEF Fill, FlushLocked
  <2>4. Promise!Send(KeysOf(pending \cup {n}))
    BY <1>3, <2>2, <2>3, KeysStayDistinct, FlushSends DEF Fill
  <2>5. KeysOf(pending \cup {n}) = KeysOf(pending) \cup {KeyOf[n]}
    BY DEF KeysOf
  <2>6. Promise!AcceptLast(KeyOf[n])
    BY <2>4, <2>5 DEF Promise!AcceptLast
  <2> QED BY <2>1, <2>6 DEF Promise!Next
<1>4. CASE Flush \/ Close
  <2>1. pending' = {} /\ UNCHANGED accepted
    BY <1>4 DEF Flush, Close, FlushLocked
  <2>2. CASE pending = {}
    BY <1>1, <2>1, <2>2
  <2>3. CASE pending # {}
    <3>1. pending \in SUBSET Notices /\ accepted' = (accepted \ pending) \cup pending
      BY <2>1 DEF DispatcherInv, TypeOK
    <3>2. Promise!Send(KeysOf(pending))
      BY <2>1, <3>1, FlushSends DEF DispatcherInv
    <3>3. KeysOf(pending) # {}
      BY <2>3 DEF KeysOf
    <3> QED BY <3>2, <3>3 DEF Promise!Flush, Promise!Next
  <2> QED BY <2>2, <2>3
<1>5. CASE Send
  BY <1>1, <1>5 DEF Send, SendSucceeds, SendFails
<1> QED BY <1>1, <1>2, <1>3, <1>4, <1>5
    DEF Next, Enqueue, Refuse, TimerFires, CloseReturns, vars

\* The dispatcher implements what TripPaths assumes of it: an event is sent
\* in the digest of its window, a key once in it.
THEOREM DispatcherKeepsPromise == Spec => Promise!Spec
  BY DispatcherAlways, PromiseInit, PromiseStep, PTL DEF Spec, Promise!Spec

=============================================================================
