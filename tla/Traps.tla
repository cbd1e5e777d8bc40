------------------------------- MODULE Traps -------------------------------
(***************************************************************************)
(* The traps of the dashboard: their rows in the deployment table, the     *)
(* scheduler's targets and the honeypots' listeners, as the console's      *)
(* create and delete handlers (decoy/console.go), the manager that mints   *)
(* (decoy/manager.go), the supervisor (decoy/honeypot.go) and main's       *)
(* OnCreate, OnDelete and restore (cmd/decoy/main.go) keep them together.  *)
(*                                                                         *)
(* No lock spans a handler, so each call of a store, of the supervisor or  *)
(* of the scheduler is a step of its own.                                  *)
(*                                                                         *)
(* RandID never repeats an id.  Which kind and port the trap of an id will *)
(* have is fixed beforehand, as the ids mean nothing by themselves.        *)
(***************************************************************************)
EXTENDS Integers, FiniteSets

CONSTANTS
    Ids, NoId,
    Honeypots,   \* the ids of honeypots; the others are tokens
    Advanced,    \* the ids of DNS tokens and cloud credentials
    PortOf,      \* the port each honeypot asks for
    Tiers,       \* the values of DefaultCaps; a limit of 0 is none
    Creators,    \* the requests in flight: POST and DELETE deployments
    Deleters,
    MaxFaults    \* bound: failed calls and crashes

Classes == {"tokens", "honeypots"}
Caps == [tokens : Nat, honeypots : Nat, advanced : BOOLEAN]

ASSUME TrapsAssumption ==
    /\ Honeypots \subseteq Ids
    /\ Advanced \subseteq Ids \ Honeypots
    /\ IsFiniteSet(Ids) /\ NoId \notin Ids
    /\ Tiers \subseteq Caps
    /\ IsFiniteSet(Creators) /\ Creators # {}
    /\ MaxFaults \in Nat

VARIABLES
    process,   \* "restoring" until main serves requests, then "up"
    restore,   \* the rows main has still to restore
    rows,      \* the deployment table
    targets,   \* the scheduler's targets
    bound,     \* the honeypots whose port is open
    known,     \* Supervisor.listeners
    create,    \* the state of each create request
    delete,    \* the state of each delete request
    taken,     \* the ids RandID has returned or will return to a request
    hurried,   \* history: deleted while they were being created
    halfway,   \* history: a failed call left the row of a trap without the rest
    muted,     \* history: restored without their listener
    unchecked, \* history: limits passed because the list could not be read
    left       \* what remains of MaxFaults

traps   == <<rows, targets, bound, known>>
history == <<hurried, halfway, muted, unchecked>>
vars    == <<process, restore, traps, create, delete, taken, history, left>>

ClassOf(id) == IF id \in Honeypots THEN "honeypots" ELSE "tokens"
OfClass(k) == {id \in Ids : ClassOf(id) = k}

IdleCreate == [pc |-> "idle", id |-> NoId, limit |-> 0]
IdleDelete == [pc |-> "idle", id |-> NoId]

\* Only a honeypot has a listener to start and to close.
CreateState == {IdleCreate}
    \cup [pc : {"count", "mint", "target"}, id : Ids, limit : Nat]
    \cup [pc : {"listen", "enter", "undo"}, id : Honeypots, limit : Nat]
DeleteState == {IdleDelete}
    \cup [pc : {"stop", "close"}, id : Honeypots]
    \cup [pc : {"untarget", "row"}, id : Ids]

TypeOK ==
    /\ process \in {"restoring", "up"}
    /\ restore \in SUBSET Ids
    /\ rows \in SUBSET Ids
    /\ targets \in SUBSET Ids
    /\ bound \in SUBSET Honeypots
    /\ known \in SUBSET Honeypots
    /\ create \in [Creators -> CreateState]
    /\ delete \in [Deleters -> DeleteState]
    /\ taken \in SUBSET Ids
    /\ hurried \in SUBSET Ids
    /\ halfway \in SUBSET Ids
    /\ muted \in SUBSET Honeypots
    /\ unchecked \in Nat
    /\ left \in Nat

Init ==
    /\ process = "restoring"
    /\ restore = {}
    /\ rows = {} /\ targets = {} /\ bound = {} /\ known = {}
    /\ create = [c \in Creators |-> IdleCreate]
    /\ delete = [d \in Deleters |-> IdleDelete]
    /\ taken = {}
    /\ hurried = {} /\ halfway = {} /\ muted = {} /\ unchecked = 0
    /\ left = MaxFaults

Fault == left > 0 /\ left' = left - 1

-----------------------------------------------------------------------------
(* handleCreate: the limits. *)

Goes(c, pc) == create' = [create EXCEPT ![c].pc = pc]
Ends(c)     == create' = [create EXCEPT ![c] = IdleCreate]

\* The limits are read once, those of the tier in force; the licence may change
\* between two requests.  A tier without advanced traps refuses them here.  A
\* request that is refused for its label, format, service, port or zone changes
\* nothing and is left out.
Request(c, id) == \E caps \in Tiers :
    LET limit == caps[ClassOf(id)] IN
    /\ process = "up"
    /\ create[c].pc = "idle"
    /\ id \notin taken
    /\ id \in Advanced => caps.advanced
    /\ create' = [create EXCEPT ![c] = [pc |-> IF limit = 0 THEN "mint" ELSE "count",
                                        id |-> id, limit |-> limit]]
    /\ taken' = taken \cup {id}
    /\ UNCHANGED <<process, restore, traps, delete, history, left>>

Under(c) == Cardinality(rows \cap OfClass(ClassOf(create[c].id))) < create[c].limit

\* No id was asked of RandID yet.
Refuse(c) == Ends(c) /\ taken' = taken \ {create[c].id}

\* Slip: as many as the limit are taken for one less.
CountUpTo(c) ==
    /\ create[c].pc = "count"
    /\ \/ /\ Cardinality(rows \cap OfClass(ClassOf(create[c].id))) <= create[c].limit
          /\ Goes(c, "mint")
          /\ UNCHANGED taken
       \/ ~Under(c) /\ Refuse(c)
    /\ UNCHANGED <<process, restore, traps, delete, history, left>>

\* underTokenCap, underHoneypotCap: the rows are counted ...
Count(c) ==
    /\ create[c].pc = "count"
    /\ \/ Under(c) /\ Goes(c, "mint") /\ UNCHANGED taken
       \/ ~Under(c) /\ Refuse(c)
    /\ UNCHANGED <<process, restore, traps, delete, history, left>>

\* ... and a list that fails counts as empty.
CountFails(c) ==
    /\ create[c].pc = "count"
    /\ Fault
    /\ Goes(c, "mint")
    /\ unchecked' = unchecked + 1
    /\ UNCHANGED <<process, restore, traps, delete, taken, hurried, halfway, muted>>

-----------------------------------------------------------------------------
(* handleCreate: Manager.Mint* and OnCreate. *)

\* Slip: every trap is given to the supervisor.
MintListening(c) ==
    /\ create[c].pc = "mint"
    /\ rows' = rows \cup {create[c].id}
    /\ Goes(c, "listen")
    /\ UNCHANGED <<process, restore, targets, bound, known, delete, taken, history, left>>

Mint(c) ==
    /\ create[c].pc = "mint"
    /\ rows' = rows \cup {create[c].id}
    /\ Goes(c, IF create[c].id \in Honeypots THEN "listen" ELSE "target")
    /\ UNCHANGED <<process, restore, targets, bound, known, delete, taken, history, left>>

MintFails(c) ==
    /\ create[c].pc = "mint"
    /\ Fault
    /\ Ends(c)
    /\ UNCHANGED <<process, restore, traps, delete, taken, history>>

PortFree(id) == \A other \in bound : PortOf[other] # PortOf[id]

\* Supervisor.Start: the port is opened first ...
Listen(c) ==
    /\ create[c].pc = "listen"
    /\ PortFree(create[c].id)
    /\ bound' = bound \cup {create[c].id}
    /\ Goes(c, "enter")
    /\ UNCHANGED <<process, restore, rows, targets, known, delete, taken, history, left>>

\* Slip: the listener is not entered.
EnterNothing(c) ==
    /\ create[c].pc = "enter"
    /\ Goes(c, "target")
    /\ UNCHANGED <<process, restore, traps, delete, taken, history, left>>

\* ... and the listener entered under the lock.
Enter(c) ==
    /\ create[c].pc = "enter"
    /\ known' = known \cup {create[c].id}
    /\ Goes(c, "target")
    /\ UNCHANGED <<process, restore, rows, targets, bound, delete, taken, history, left>>

\* The port is another trap's, or some other program's.
ListenFails(c) ==
    /\ create[c].pc = "listen"
    /\ \/ ~PortFree(create[c].id) /\ UNCHANGED left
       \/ Fault
    /\ Goes(c, "undo")
    /\ UNCHANGED <<process, restore, traps, delete, taken, history>>

\* An id is never empty, so ValidateTarget and AddTarget accept it.
AddTarget(c) ==
    /\ create[c].pc = "target"
    /\ targets' = targets \cup {create[c].id}
    /\ Ends(c)
    /\ UNCHANGED <<process, restore, rows, bound, known, delete, taken, history, left>>

\* The row is taken back; an error of the store is dropped.
RollBack(c) ==
    /\ create[c].pc = "undo"
    /\ Ends(c)
    /\ \/ /\ rows' = rows \ {create[c].id}
          /\ UNCHANGED <<halfway, left>>
       \/ /\ Fault
          /\ halfway' = halfway \cup {create[c].id}
          /\ UNCHANGED rows
    /\ UNCHANGED <<process, restore, targets, bound, known, delete, taken, hurried,
                   muted, unchecked>>

Create(c) ==
    \/ Count(c) \/ CountFails(c)
    \/ Mint(c) \/ MintFails(c)
    \/ Listen(c) \/ Enter(c) \/ ListenFails(c)
    \/ AddTarget(c)
    \/ RollBack(c)

-----------------------------------------------------------------------------
(* handleDelete and OnDelete. *)

Creating(id) == \E c \in Creators : create[c].pc # "idle" /\ create[c].id = id

\* The row must be there; nothing tells whether its creation is over.
Ask(d, id) ==
    /\ process = "up"
    /\ delete[d].pc = "idle"
    /\ id \in rows
    /\ delete' = [delete EXCEPT ![d] =
                    [pc |-> IF id \in Honeypots THEN "stop" ELSE "untarget", id |-> id]]
    /\ hurried' = IF Creating(id) THEN hurried \cup {id} ELSE hurried
    /\ UNCHANGED <<process, restore, traps, create, taken, halfway, muted, unchecked, left>>

\* Supervisor.Stop: the listener is taken from the map under the lock ...
TakeListener(d) ==
    /\ delete[d].pc = "stop"
    /\ known' = known \ {delete[d].id}
    /\ delete' = [delete EXCEPT ![d].pc =
                    IF delete[d].id \in known THEN "close" ELSE "untarget"]
    /\ UNCHANGED <<process, restore, rows, targets, bound, create, taken, history, left>>

\* ... and closed after it.
CloseListener(d) ==
    /\ delete[d].pc = "close"
    /\ bound' = bound \ {delete[d].id}
    /\ delete' = [delete EXCEPT ![d].pc = "untarget"]
    /\ UNCHANGED <<process, restore, rows, targets, known, create, taken, history, left>>

\* Slip: the scheduler is not told.
RemoveNoTarget(d) ==
    /\ delete[d].pc = "untarget"
    /\ delete' = [delete EXCEPT ![d].pc = "row"]
    /\ UNCHANGED <<process, restore, traps, create, taken, history, left>>

RemoveTarget(d) ==
    /\ delete[d].pc = "untarget"
    /\ targets' = targets \ {delete[d].id}
    /\ delete' = [delete EXCEPT ![d].pc = "row"]
    /\ UNCHANGED <<process, restore, rows, bound, known, create, taken, history, left>>

\* A store that fails leaves the row of a trap that is armed no more.
DeleteRow(d) ==
    /\ delete[d].pc = "row"
    /\ delete' = [delete EXCEPT ![d] = IdleDelete]
    /\ \/ /\ rows' = rows \ {delete[d].id}
          /\ UNCHANGED <<halfway, left>>
       \/ /\ Fault
          /\ halfway' = halfway \cup {delete[d].id}
          /\ UNCHANGED rows
    /\ UNCHANGED <<process, restore, targets, bound, known, create, taken, hurried,
                   muted, unchecked>>

Delete(d) == TakeListener(d) \/ CloseListener(d) \/ RemoveTarget(d) \/ DeleteRow(d)

-----------------------------------------------------------------------------
(* The end of the process and main's restore. *)

\* The process ends, in whatever way, and starts again: the table survives.
Restart ==
    /\ Fault
    /\ process' = "restoring"
    /\ restore' = rows
    /\ targets' = {} /\ bound' = {} /\ known' = {}
    /\ create' = [c \in Creators |-> IdleCreate]
    /\ delete' = [d \in Deleters |-> IdleDelete]
    /\ hurried' = {} /\ halfway' = {} /\ muted' = {}
    /\ UNCHANGED <<rows, taken, unchecked>>

\* Slip: a honeypot whose port cannot be opened is skipped altogether.
RestoreSkipping(id) ==
    LET opens == id \in Honeypots /\ PortFree(id) IN
    /\ process = "restoring"
    /\ id \in restore
    /\ restore' = restore \ {id}
    /\ targets' = IF id \in Honeypots /\ ~opens THEN targets ELSE targets \cup {id}
    /\ bound' = IF opens THEN bound \cup {id} ELSE bound
    /\ known' = IF opens THEN known \cup {id} ELSE known
    /\ muted' = IF id \in Honeypots /\ ~opens THEN muted \cup {id} ELSE muted
    /\ UNCHANGED <<process, rows, create, delete, taken, hurried, halfway, unchecked, left>>

\* Every row becomes a target; a honeypot whose port cannot be opened is
\* reported and goes without.
Restore(id) ==
    /\ process = "restoring"
    /\ id \in restore
    /\ restore' = restore \ {id}
    /\ targets' = targets \cup {id}
    /\ \/ /\ id \notin Honeypots
          /\ UNCHANGED <<bound, known, muted, left>>
       \/ /\ id \in Honeypots /\ PortFree(id)
          /\ bound' = bound \cup {id}
          /\ known' = known \cup {id}
          /\ UNCHANGED <<muted, left>>
       \/ /\ id \in Honeypots
          /\ \/ ~PortFree(id) /\ UNCHANGED left
             \/ Fault
          /\ muted' = muted \cup {id}
          /\ UNCHANGED <<bound, known>>
    /\ UNCHANGED <<process, rows, create, delete, taken, hurried, halfway, unchecked>>

Serve ==
    /\ process = "restoring"
    /\ restore = {}
    /\ process' = "up"
    /\ UNCHANGED <<restore, traps, create, delete, taken, history, left>>

Next ==
    \/ \E c \in Creators : Create(c) \/ \E id \in Ids : Request(c, id)
    \/ \E d \in Deleters : Delete(d) \/ \E id \in Ids : Ask(d, id)
    \/ Restart
    \/ Serve
    \/ \E id \in Ids : Restore(id)

Spec == Init /\ [][Next]_vars

-----------------------------------------------------------------------------
(* Safety. *)

Deleting(id) == \E d \in Deleters : delete[d].pc # "idle" /\ delete[d].id = id
Closing(id)  == \E d \in Deleters : delete[d].pc = "close" /\ delete[d].id = id
Entering(id) == \E c \in Creators : create[c].pc = "enter" /\ create[c].id = id

\* What is polled or listens is in the table, so the user sees it and can
\* delete it: a deletion or a failed creation leaves nothing behind, in
\* whatever order requests overlap.  The one exception is a trap deleted while
\* it is being created: the creation goes on and arms a trap without a row.
NothingLeftBehind ==
    \A id \in targets \cup bound : id \in rows \/ id \in hurried \/ Closing(id)

\* Every open port can be closed again: the supervisor knows its listener, or
\* the call that opened it is about to enter it, or one is about to close it.
ListenersClosable ==
    /\ \A id \in bound : id \in known \/ Entering(id) \/ Closing(id)
    /\ known \subseteq bound

\* Once main serves, what the table says is armed is: it is polled, and a
\* honeypot listens, after a restart as well.  Exempt are traps in the making
\* or in deletion, those a failed store call left halfway and those whose port
\* could not be opened at the restart.
TrapsArmed ==
    process = "up" =>
        \A id \in rows : \/ Creating(id) \/ Deleting(id) \/ id \in halfway
                         \/ /\ id \in targets
                            /\ id \in Honeypots => id \in bound \cap known \/ id \in muted

\* The limit is checked before the row is written, so requests in flight
\* together may pass it together; but they overshoot the highest limit there
\* was by no more than their number less one, whatever is deleted, licensed or
\* restarted meanwhile, and by one for each list that could not be read.
OvershootBounded ==
    \A k \in Classes, most \in Tiers :
        (\A t \in Tiers : t[k] \in 1 .. most[k]) =>
            Cardinality(rows \cap OfClass(k))
                <= most[k] + Cardinality(Creators) - 1 + unchecked
=============================================================================
