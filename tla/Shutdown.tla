------------------------------ MODULE Shutdown ------------------------------
(***************************************************************************)
(* The orderly end of the process (cmd/decoy/main.go): the goroutine that  *)
(* waits for the signal, main's deferred calls in their order, and what    *)
(* runs on beside them - Record calls for touches already taken, scans, a  *)
(* create request that is starting a honeypot's listener                   *)
(* (decoy/honeypot.go) - with the Dispatcher they tell.                    *)
(*                                                                         *)
(* A piece of work is what leads to one call of Enqueue: a touch of a      *)
(* token, a honeypot or a DNS name, a scan of a sweep, or a digest of the  *)
(* ticker; it is named by its notice.                                      *)
(***************************************************************************)
EXTENDS Dispatcher

CONSTANTS
    SourceOf,    \* where each notice comes from
    Honeypots,
    Restored     \* the honeypots main starts; a request may create the others

Sources == {"token", "dns", "honeypot", "scan", "ticker"}

ASSUME ShutdownAssumption ==
    /\ SourceOf \in [Notices -> Sources]
    /\ Restored \subseteq Honeypots

VARIABLES
    main,      \* the next call of main
    signal,    \* the goroutine that waits for the signal
    dns,       \* DNSResponder.conn is open
    open,      \* the honeypots whose listener is open
    known,     \* Supervisor.listeners
    loops,     \* the accept loops that run, what Supervisor.wg counts
    create,    \* how far the request that creates each honeypot is
    work,      \* how far each piece of work is
    late       \* history: told after the dispatcher had closed

dispatcher == vars
traps      == <<dns, open, known, loops, create>>
jobs       == <<work, late>>
process    == <<dispatcher, main, signal, traps, jobs>>

ProcessTypeOK ==
    /\ main \in {"serve", "dns", "listeners", "drain", "ticker", "close", "settle", "exited"}
    /\ signal \in {"none", "raised", "waiting", "stopping", "stopped"}
    /\ dns \in BOOLEAN
    /\ open \in SUBSET Honeypots
    /\ known \in SUBSET {h \in Honeypots : create[h] \in {"known", "done"}}
    /\ loops \in SUBSET Honeypots
    /\ create \in [Honeypots -> {"none", "bound", "known", "done"}]
    /\ work \in [Notices -> {"none", "taken", "stored", "over"}]
    /\ late \in SUBSET Notices

ProcessInit ==
    /\ Init
    /\ main = "serve" /\ signal = "none" /\ dns = TRUE
    /\ open = Restored /\ known = Restored /\ loops = Restored
    /\ create = [h \in Honeypots |-> IF h \in Restored THEN "done" ELSE "none"]
    /\ work = [n \in Notices |-> "none"] /\ late = {}

Alive     == main # "exited"
Serving   == signal \in {"none", "raised"}   \* http.Server takes requests
Signalled == signal # "none"

-----------------------------------------------------------------------------
(* The signal: Shutdown closes the server's listener, which lets main go on, *)
(* and waits for the requests, five seconds at most; then Scheduler.Stop.    *)

Signal ==
    /\ Alive /\ signal = "none"
    /\ signal' = "raised"
    /\ UNCHANGED <<dispatcher, main, traps, jobs>>

CloseServer ==
    /\ Alive /\ signal = "raised"
    /\ signal' = "waiting"
    /\ UNCHANGED <<dispatcher, main, traps, jobs>>

RequestsOver ==
    /\ Alive /\ signal = "waiting"
    /\ signal' = "stopping"
    /\ UNCHANGED <<dispatcher, main, traps, jobs>>

SchedulerStops ==
    /\ Alive /\ signal = "stopping"
    /\ \A n \in Notices : SourceOf[n] = "scan" => work[n] \in {"none", "over"}
    /\ signal' = "stopped"
    /\ UNCHANGED <<dispatcher, main, traps, jobs>>

-----------------------------------------------------------------------------
(* main: ListenAndServe returns, and the deferred calls run, last one first. *)

ServeReturns ==
    /\ main = "serve" /\ ~Serving
    /\ main' = "dns"
    /\ UNCHANGED <<dispatcher, signal, traps, jobs>>

StopDNS ==
    /\ main = "dns"
    /\ main' = "listeners"
    /\ dns' = FALSE
    /\ UNCHANGED <<dispatcher, signal, open, known, loops, create, jobs>>

\* StopAll, while it holds the lock ...
CloseListeners ==
    /\ main = "listeners"
    /\ main' = "drain"
    /\ open' = open \ known
    /\ known' = {}
    /\ UNCHANGED <<dispatcher, signal, dns, loops, create, jobs>>

\* ... and its wait.
Drained ==
    /\ main = "drain" /\ loops = {}
    /\ main' = "ticker"
    /\ UNCHANGED <<dispatcher, signal, traps, jobs>>

StopTicker ==
    /\ main = "ticker"
    /\ main' = "close"
    /\ UNCHANGED <<dispatcher, signal, traps, jobs>>

\* disp.Close: it flushes and closes ...
CloseDispatcher ==
    /\ main = "close"
    /\ main' = "settle"
    /\ Close
    /\ UNCHANGED <<signal, traps, jobs>>

\* Slip: main does not wait for the sends.
ExitAtOnce ==
    /\ main = "settle"
    /\ main' = "exited"
    /\ UNCHANGED <<dispatcher, signal, traps, jobs>>

\* ... and waits for the sends; then main returns and ends every goroutine.
Exit ==
    /\ main = "settle"
    /\ main' = "exited"
    /\ CloseReturns
    /\ UNCHANGED <<signal, traps, jobs>>

Main == \/ ServeReturns \/ StopDNS \/ CloseListeners \/ Drained \/ StopTicker
        \/ CloseDispatcher \/ Exit

-----------------------------------------------------------------------------
(* Supervisor.Start, called by a create request, and the accept loops.  A    *)
(* request the server took before it closed may come to this at any time.    *)

\* Slip: the listener is entered before it is there.
BindEntered(h) ==
    /\ Alive /\ create[h] = "none"
    /\ create' = [create EXCEPT ![h] = "bound"]
    /\ open' = open \cup {h}
    /\ known' = known \cup {h}
    /\ UNCHANGED <<dispatcher, main, signal, dns, loops, jobs>>

Bind(h) ==
    /\ Alive /\ create[h] = "none"
    /\ create' = [create EXCEPT ![h] = "bound"]
    /\ open' = open \cup {h}
    /\ UNCHANGED <<dispatcher, main, signal, dns, known, loops, jobs>>

Enter(h) ==
    /\ Alive /\ create[h] = "bound"
    /\ create' = [create EXCEPT ![h] = "known"]
    /\ known' = known \cup {h}
    /\ UNCHANGED <<dispatcher, main, signal, dns, open, loops, jobs>>

Loop(h) ==
    /\ Alive /\ create[h] = "known"
    /\ create' = [create EXCEPT ![h] = "done"]
    /\ loops' = loops \cup {h}
    /\ UNCHANGED <<dispatcher, main, signal, dns, open, known, jobs>>

\* Slip: a loop does not tell the wait group that it ended.
LoopEndsSilently(h) ==
    /\ Alive /\ h \in loops \ open
    /\ UNCHANGED process

\* Accept fails on a closed listener.
LoopEnds(h) ==
    /\ Alive /\ h \in loops \ open
    /\ loops' = loops \ {h}
    /\ UNCHANGED <<dispatcher, main, signal, dns, open, known, create, jobs>>

-----------------------------------------------------------------------------
(* The work that ends in Enqueue. *)

\* What lets each kind of work begin.  A sweep may be chosen over the ended context,
\* so that the scheduler's scans begin until Stop has returned; one that a request
\* asks for is like a touch of a token.
Door(source) ==
    CASE source = "token"    -> Serving
      [] source = "dns"      -> dns
      [] source = "honeypot" -> loops \cap open # {}
      [] source = "scan"     -> signal # "stopped"
      [] source = "ticker"   -> main \in {"serve", "dns", "listeners", "drain", "ticker"}

Take(n) ==
    /\ Alive /\ work[n] = "none"
    /\ Door(SourceOf[n])
    /\ work' = [work EXCEPT ![n] = "taken"]
    /\ UNCHANGED <<dispatcher, main, signal, traps, late>>

\* PutTrip and Upsert, or Reconcile.
Store(n) ==
    /\ Alive /\ work[n] = "taken"
    /\ work' = [work EXCEPT ![n] = "stored"]
    /\ UNCHANGED <<dispatcher, main, signal, traps, late>>

\* A scan is given up when the context ends before Collect has, and anything else
\* when its store call fails.
GiveUp(n) ==
    /\ Alive /\ work[n] = "taken"
    /\ work' = [work EXCEPT ![n] = "over"]
    /\ UNCHANGED <<dispatcher, main, signal, traps, late>>

\* Enqueue.
Tell(n) ==
    /\ Alive /\ work[n] = "stored"
    /\ work' = [work EXCEPT ![n] = "over"]
    /\ Enqueue(n)
    /\ late' = IF close = "open" THEN late ELSE late \cup {n}
    /\ UNCHANGED <<main, signal, traps>>

\* The dispatcher's own goroutines.
Deliver ==
    /\ Alive
    /\ TimerFires \/ Flush \/ Send
    /\ UNCHANGED <<main, signal, traps, jobs>>

ProcessNext ==
    \/ Signal \/ CloseServer \/ RequestsOver \/ SchedulerStops
    \/ Main
    \/ \E h \in Honeypots : Bind(h) \/ Enter(h) \/ Loop(h) \/ LoopEnds(h)
    \/ \E n \in Notices : Take(n) \/ Store(n) \/ GiveUp(n) \/ Tell(n)
    \/ Deliver

ProcessSpec == ProcessInit /\ [][ProcessNext]_process

(***************************************************************************)
(* Fairness.  Goroutines that can go on do: the signal's, main's, the      *)
(* accept loops, the dispatcher's timer, callbacks and sends.  A client's  *)
(* request, a touch and the signal itself owe nothing.                     *)
(***************************************************************************)
ProcessFairness ==
    /\ WF_process(CloseServer)
    /\ WF_process(Main)
    /\ \A h \in Honeypots : WF_process(LoopEnds(h))
    /\ WF_process(Alive /\ TimerFires /\ UNCHANGED <<main, signal, traps, jobs>>)
    /\ WF_process(Alive /\ Flush /\ UNCHANGED <<main, signal, traps, jobs>>)
    /\ WF_process(Alive /\ Send /\ UNCHANGED <<main, signal, traps, jobs>>)

ProcessLiveSpec == ProcessSpec /\ ProcessFairness

-----------------------------------------------------------------------------
(* Properties *)

\* What was told before the dispatcher closed has been delivered to or given up by
\* every channel when the process is gone, or was a duplicate of what has, or too
\* quiet to tell (main's deferred calls, Dispatcher.Close).
ExitLosesNothing ==
    main = "exited" =>
        \A n \in offered \ (late \cup Quiet) :
            \E m \in accepted : KeyOf[m] = KeyOf[n] /\ Settled(m)

\* A listener entered after StopAll closed those it knew: nobody closes it.
Escaped == main \notin {"serve", "dns", "listeners"} /\ known # {}

\* A signal ends the process, unless a create request was overtaken by StopAll
\* (StopAll, Start).
ExitEnds == Signalled ~> (main = "exited" \/ Escaped)

\* honeypot.go:63 "StopAll closes every listener and waits for accept loops to
\* drain": main, which waits for it, gets to its end.
ShutdownEnds == Signalled ~> main = "exited"
=============================================================================
