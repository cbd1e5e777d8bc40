------------------------------- MODULE Alerts -------------------------------
(***************************************************************************)
(* What the notification dispatcher (notify/notify.go) promises to those   *)
(* that enqueue events: an event is sent in the digest of its window, and  *)
(* events of one kind, module and fingerprint enqueued in one window are   *)
(* sent once.  TripPaths builds on the promise, Dispatcher implements it.  *)
(***************************************************************************)
EXTENDS Naturals

CONSTANT Events   \* the kind|module|fingerprint keys

VARIABLES
    batch,   \* the keys waiting for the window to close
    sent     \* how many digests each key has gone into

alertVars == <<batch, sent>>

Init == /\ batch = {}
        /\ sent = [e \in Events |-> 0]

\* The digest of the keys in `keys' goes out and a new window begins.
Send(keys) == /\ sent' = [e \in Events |-> sent[e] + (IF e \in keys THEN 1 ELSE 0)]
              /\ batch' = {}

Accept(e) == /\ batch' = batch \cup {e}
             /\ UNCHANGED sent

\* The event that fills the window closes it.
AcceptLast(e) == Send(batch \cup {e})

Flush == /\ batch # {}
         /\ Send(batch)

Next == Flush \/ \E e \in Events : Accept(e) \/ AcceptLast(e)

Spec == Init /\ [][Next]_alertVars

\* Every window closes.
LiveSpec == Spec /\ WF_alertVars(Flush)
=============================================================================
