--------------------------- MODULE ShutdownProofs ---------------------------
(***************************************************************************)
(* What holds of Shutdown for any work, honeypots and channels: it is the  *)
(* Dispatcher in an environment that may end it at any moment, and its     *)
(* orderly end loses nothing the dispatcher was told in time.              *)
(*                                                                         *)
(* Every step is a step of the Dispatcher or leaves it alone, so that the  *)
(* invariant proved in DispatcherProofs holds here; what is added relates  *)
(* main's place to the dispatcher's, and what was told to what it took.    *)
(***************************************************************************)
EXTENDS Shutdown, DispatcherProofs

\* What was told in time was taken, or is a duplicate of what was.
ToldIsTaken ==
    \A n \in offered \ (late \cup Quiet) : \E m \in accepted : KeyOf[m] = KeyOf[n]

ShutdownInv ==
    /\ ProcessTypeOK
    /\ DispatcherInv
    /\ ToldIsTaken
    /\ main = "exited" => close = "done"

-----------------------------------------------------------------------------
(* The steps of the process as steps of the dispatcher. *)

\* Whatever the process does, the dispatcher takes a step of its own or none.
LEMMA StepOfDispatcher == [ProcessNext]_process => [Next]_vars
<1> SUFFICES ASSUME [ProcessNext]_process PROVE [Next]_vars
  OBVIOUS
<1>1. CASE UNCHANGED process
  BY <1>1 DEF process, dispatcher
<1>2. CASE Signal \/ CloseServer \/ RequestsOver \/ SchedulerStops
  BY <1>2 DEF Signal, CloseServer, RequestsOver, SchedulerStops, dispatcher
<1>3. CASE Main
  <2>1. CASE ServeReturns \/ StopDNS \/ CloseListeners \/ Drained \/ StopTicker
    BY <2>1 DEF ServeReturns, StopDNS, CloseListeners, Drained, StopTicker, dispatcher
  <2>2. CASE CloseDispatcher \/ Exit
    BY <2>2 DEF CloseDispatcher, Exit, Next
  <2> QED BY <1>3, <2>1, <2>2 DEF Main
<1>4. CASE \E h \in Honeypots : Bind(h) \/ Enter(h) \/ Loop(h) \/ LoopEnds(h)
  BY <1>4 DEF Bind, Enter, Loop, LoopEnds, dispatcher
<1>5. CASE \E n \in Notices : Take(n) \/ Store(n) \/ GiveUp(n) \/ Tell(n)
  <2>1. PICK n \in Notices : Take(n) \/ Store(n) \/ GiveUp(n) \/ Tell(n)
    BY <1>5
  <2>2. CASE Take(n) \/ Store(n) \/ GiveUp(n)
    BY <2>2 DEF Take, Store, GiveUp, dispatcher
  <2>3. CASE Tell(n)
    BY <2>3 DEF Tell, Next
  <2> QED BY <2>1, <2>2, <2>3
<1>6. CASE Deliver
  BY <1>6 DEF Deliver, Next
<1> QED BY <1>1, <1>2, <1>3, <1>4, <1>5, <1>6 DEF ProcessNext

\* The dispatcher of the process is the Dispatcher: whatever runs on beside main's
\* deferred calls, it is told, flushed and closed as its own specification allows.
THEOREM ProcessKeepsDispatcher == ProcessSpec => Spec
<1>1. ProcessInit => Init
  BY DEF ProcessInit
<1> QED BY <1>1, StepOfDispatcher, PTL DEF ProcessSpec, Spec

-----------------------------------------------------------------------------
(* The invariant. *)

\* It holds at first.
LEMMA ShutdownInit == ProcessInit => ShutdownInv
<1> SUFFICES ASSUME ProcessInit PROVE ShutdownInv
  OBVIOUS
<1>1. DispatcherInv
  BY DispatcherInit DEF ProcessInit
<1>2. ProcessTypeOK
  BY ShutdownAssumption DEF ProcessInit, ProcessTypeOK
<1>3. ToldIsTaken /\ main # "exited"
  BY DEF ProcessInit, Init, ToldIsTaken
<1> QED BY <1>1, <1>2, <1>3 DEF ShutdownInv

\* The steps keep the types.
LEMMA ProcessTypeStep ==
    ASSUME ProcessTypeOK, [ProcessNext]_process PROVE ProcessTypeOK'
<1> USE DEF ProcessTypeOK
<1>1. CASE UNCHANGED process
  BY <1>1 DEF process, traps, jobs
<1>2. CASE Signal \/ CloseServer \/ RequestsOver \/ SchedulerStops
  BY <1>2 DEF Signal, CloseServer, RequestsOver, SchedulerStops, traps, jobs
<1>3. CASE Main
  <2>1. CASE ServeReturns \/ StopDNS \/ Drained \/ StopTicker \/ CloseDispatcher \/ Exit
    BY <2>1 DEF ServeReturns, StopDNS, Drained, StopTicker, CloseDispatcher, Exit, traps, jobs
  <2>2. CASE CloseListeners
    BY <2>2 DEF CloseListeners, jobs
  <2> QED BY <1>3, <2>1, <2>2 DEF Main
<1>4. ASSUME NEW h \in Honeypots, Bind(h) \/ Enter(h) \/ Loop(h) \/ LoopEnds(h)
      PROVE  ProcessTypeOK'
  <2>1. CASE Bind(h)
    BY <2>1 DEF Bind, jobs
  <2>2. CASE Enter(h)
    BY <2>2 DEF Enter, jobs
  <2>3. CASE Loop(h)
    BY <2>3 DEF Loop, jobs
  <2>4. CASE LoopEnds(h)
    BY <2>4 DEF LoopEnds, jobs
  <2> QED BY <1>4, <2>1, <2>2, <2>3, <2>4
<1>5. ASSUME NEW n \in Notices, Take(n) \/ Store(n) \/ GiveUp(n) \/ Tell(n)
      PROVE  ProcessTypeOK'
  <2>1. UNCHANGED <<main, signal, traps>>
    BY <1>5 DEF Take, Store, GiveUp, Tell
  <2>2. work' \in [Notices -> {"none", "taken", "stored", "over"}]
    BY <1>5 DEF Take, Store, GiveUp, Tell
  <2>3. late' \in SUBSET Notices
    BY <1>5 DEF Take, Store, GiveUp, Tell
  <2> QED BY <2>1, <2>2, <2>3 DEF traps
<1>6. CASE Deliver
  BY <1>6 DEF Deliver, traps, jobs
<1> QED BY <1>1, <1>2, <1>3, <1>4, <1>5, <1>6 DEF ProcessNext

\* Enqueue takes the notice, or finds its key in the window, or refuses it because
\* it is quiet or the dispatcher is closed.
LEMMA EnqueueTakes ==
    ASSUME DispatcherInv, NEW n \in Notices, Enqueue(n)
    PROVE  /\ offered' = offered \cup {n}
           /\ accepted \subseteq accepted'
           /\ n \notin Quiet /\ close = "open" =>
                 \E m \in accepted' : KeyOf[m] = KeyOf[n]
<1>1. CASE Refuse(n)
  <2>1. offered' = offered \cup {n} /\ accepted' = accepted
    BY <1>1 DEF Refuse
  <2>2. ASSUME n \notin Quiet, close = "open"
        PROVE  \E m \in accepted : KeyOf[m] = KeyOf[n]
    <3>1. KeyOf[n] \in seen
      BY <1>1, <2>2 DEF Refuse, Refused
    <3>2. PICK m \in pending : KeyOf[m] = KeyOf[n]
      BY <3>1 DEF DispatcherInv, DuplicateOfWaiting, KeysOf
    <3>3. m \in accepted
      BY <3>2 DEF DispatcherInv, TypeOK
    <3> QED BY <3>2, <3>3
  <2> QED BY <2>1, <2>2
<1>2. CASE Hold(n) \/ Fill(n)
  BY <1>2 DEF Hold, Fill
<1> QED BY <1>1, <1>2 DEF Enqueue

\* What was told stays taken.
LEMMA ToldStep ==
    ASSUME ShutdownInv, [ProcessNext]_process PROVE ToldIsTaken'
<1>1. CASE offered' = offered /\ accepted' = accepted /\ late' = late
  BY <1>1 DEF ShutdownInv, ToldIsTaken
<1>2. ASSUME NEW n \in Notices, Tell(n) PROVE ToldIsTaken'
  <2>1. /\ offered' = offered \cup {n}
        /\ accepted \subseteq accepted'
        /\ n \notin Quiet /\ close = "open" => \E m \in accepted' : KeyOf[m] = KeyOf[n]
    BY <1>2, EnqueueTakes DEF Tell, ShutdownInv
  <2>2. late \subseteq late' /\ (close # "open" => n \in late')
    BY <1>2 DEF Tell
  <2> QED BY <2>1, <2>2 DEF ShutdownInv, ToldIsTaken
<1>3. ASSUME NEW n \in Notices, Take(n) \/ Store(n) \/ GiveUp(n) PROVE ToldIsTaken'
  BY <1>1, <1>3 DEF Take, Store, GiveUp, dispatcher, vars
<1>4. CASE Signal \/ CloseServer \/ RequestsOver \/ SchedulerStops
  BY <1>1, <1>4 DEF Signal, CloseServer, RequestsOver, SchedulerStops, jobs, dispatcher, vars
<1>5. CASE Main
  <2>1. CASE ServeReturns \/ StopDNS \/ CloseListeners \/ Drained \/ StopTicker
    BY <1>1, <2>1 DEF ServeReturns, StopDNS, CloseListeners, Drained, StopTicker, jobs,
                      dispatcher, vars
  <2>2. CASE CloseDispatcher \/ Exit
    BY <1>1, <2>2 DEF CloseDispatcher, Exit, Close, CloseReturns, jobs
  <2> QED BY <1>5, <2>1, <2>2 DEF Main
<1>6. CASE \E h \in Honeypots : Bind(h) \/ Enter(h) \/ Loop(h) \/ LoopEnds(h)
  BY <1>1, <1>6 DEF Bind, Enter, Loop, LoopEnds, jobs, dispatcher, vars
<1>7. CASE Deliver
  <2>1. offered' = offered /\ accepted' = accepted
    BY <1>7 DEF Deliver, TimerFires, Flush, Send, SendSucceeds, SendFails
  <2> QED BY <1>1, <1>7, <2>1 DEF Deliver, jobs
<1>8. CASE UNCHANGED process
  BY <1>1, <1>8 DEF process, jobs, dispatcher, vars
<1> QED BY <1>2, <1>3, <1>4, <1>5, <1>6, <1>7, <1>8 DEF ProcessNext

\* main comes to its end through Close alone, which nothing undoes.
LEMMA ExitStep ==
    ASSUME ShutdownInv, [ProcessNext]_process, main' = "exited" PROVE close' = "done"
<1>1. CASE main = "exited"
  <2>1. close = "done"
    BY <1>1 DEF ShutdownInv
  <2>2. ~Alive
    BY <1>1 DEF Alive
  <2>3. UNCHANGED process
    BY <1>1, <2>2 DEF ProcessNext, Signal, CloseServer, RequestsOver, SchedulerStops, Main,
       ServeReturns, StopDNS, CloseListeners, Drained, StopTicker, CloseDispatcher, Exit,
       Bind, Enter, Loop, LoopEnds, Take, Store, GiveUp, Tell, Deliver
  <2> QED BY <2>1, <2>3 DEF process, dispatcher, vars
<1>2. CASE main # "exited"
  <2>1. Exit
    BY <1>2 DEF ProcessNext, Signal, CloseServer, RequestsOver, SchedulerStops, Main,
       ServeReturns, StopDNS, CloseListeners, Drained, StopTicker, CloseDispatcher,
       Bind, Enter, Loop, LoopEnds, Take, Store, GiveUp, Tell, Deliver, process
  <2> QED BY <2>1 DEF Exit, CloseReturns
<1> QED BY <1>1, <1>2

\* The invariant holds throughout.
LEMMA ShutdownAlways == ProcessSpec => []ShutdownInv
<1>1. ASSUME ShutdownInv, [ProcessNext]_process PROVE ShutdownInv'
  <2>1. DispatcherInv'
    BY <1>1, StepOfDispatcher, DispatcherStep DEF ShutdownInv
  <2>2. ProcessTypeOK'
    BY <1>1, ProcessTypeStep DEF ShutdownInv
  <2>3. ToldIsTaken'
    BY <1>1, ToldStep
  <2>4. main' = "exited" => close' = "done"
    BY <1>1, ExitStep
  <2> QED BY <2>1, <2>2, <2>3, <2>4 DEF ShutdownInv
<1> QED BY <1>1, ShutdownInit, PTL DEF ProcessSpec

-----------------------------------------------------------------------------
(* The theorems. *)

\* The state of the process keeps its types, and the supervisor knows only
\* listeners that have been bound.
THEOREM ProcessTypeCorrect == ProcessSpec => []ProcessTypeOK
<1>1. ShutdownInv => ProcessTypeOK
  BY DEF ShutdownInv
<1> QED BY <1>1, ShutdownAlways, PTL

\* What the dispatcher was told before it closed has been delivered or given up when
\* the process is gone, for any work that runs on beside main's deferred calls.
THEOREM OrderlyExitLosesNothing == ProcessSpec => []ExitLosesNothing
<1>1. ASSUME ShutdownInv PROVE ExitLosesNothing
  <2>1. SUFFICES ASSUME main = "exited", NEW n \in offered \ (late \cup Quiet)
                 PROVE  \E m \in accepted : KeyOf[m] = KeyOf[n] /\ Settled(m)
    BY DEF ExitLosesNothing
  <2>2. PICK m \in accepted : KeyOf[m] = KeyOf[n]
    BY <1>1, <2>1 DEF ShutdownInv, ToldIsTaken
  <2>3. close = "done" /\ pending = {} /\ sends = {}
    BY <1>1, <2>1 DEF ShutdownInv, DispatcherInv
  <2>4. Settled(m)
    BY <1>1, <2>3 DEF ShutdownInv, DispatcherInv, AccountedFor, Settled
  <2> QED BY <2>2, <2>4
<1> QED BY <1>1, ShutdownAlways, PTL
=============================================================================
