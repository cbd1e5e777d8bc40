-------------------------------- MODULE Desk --------------------------------
(***************************************************************************)
(* The dashboard's licence and targets (web/server.go): how a key is       *)
(* judged (license/license.go), the handler that puts one in force, the    *)
(* handlers that add and remove a scheduler target, and what a restart     *)
(* makes of the key file and of the stored targets (cmd/decoy/main.go).    *)
(*                                                                         *)
(* No lock spans a handler: reading the time, the steps of os.WriteFile,   *)
(* the assignment under s.mu and each call of the scheduler and the store  *)
(* are steps of their own.                                                 *)
(*                                                                         *)
(* A key is what Verify finds in it: its form, and of a signed payload the *)
(* product, tier and expiry.                                               *)
(***************************************************************************)
EXTENDS Integers, FiniteSets

CONSTANTS
    HasIssuer,      \* the build has an issuer key of the right length
    Names, Product, \* what a key may name; the module id of this binary
    Keys, NoKey,    \* what a key file or a request may hold; the blank one
    Mixed,          \* the head of one key and the tail of another
    LicenceLimits,  \* license.TierLimits, decoyTierLimits: targets by tier,
    ProductLimits,  \*   0 for no limit
    Targets,        \* canonical targets
    Traps,          \* those of the deployment table, restored by main
    Clients,        \* who send requests, each one at a time
    MaxTime,        \* bound: time
    MaxFaults       \* bound: failed calls and crashes

Tiers == {"free", "pro", "team"}
KeyRecord == [form    : {"blank", "malformed", "forged", "signed"},
              product : Names, tier : Names, expires : Nat]

ASSUME DeskAssumption ==
    /\ HasIssuer \in BOOLEAN
    /\ Tiers \subseteq Names
    /\ Keys \subseteq KeyRecord
    /\ {NoKey, Mixed} \subseteq Keys
    /\ NoKey.form = "blank" /\ Mixed.form = "malformed"
    /\ LicenceLimits \in [Tiers -> Nat]
    /\ ProductLimits \in [Tiers -> Nat]
    /\ IsFiniteSet(Targets) /\ Targets # {} /\ Traps \subseteq Targets
    /\ MaxTime \in Nat /\ MaxFaults \in Nat

VARIABLES
    now,         \* the wall clock
    file,        \* the key in the licence file, NoKey when there is none
    activation,  \* Server.activation, with the time `at' of its judgement
    set,         \* by client, a POST license under way
    ask,         \* by client, a POST or DELETE targets under way
    scheduled,   \* the scheduler's targets
    saved,       \* the targets table
    torn,        \* history: file and activation were written apart
    blurred,     \* history: targets left in one place by a failure or an overlap
    left         \* what remains of MaxFaults

licence == <<file, activation, set, torn>>
targets == <<ask, scheduled, saved, blurred>>
vars    == <<now, licence, targets, left>>

-----------------------------------------------------------------------------
(* license.go *)

\* Verify: a payload signed by the issuer, for this product.
Ours(key) == key.form = "signed" /\ key.product = Product

\* limitsFor: an unknown tier has the limits of the free one.
LimitsFor(tier) == LicenceLimits[IF tier \in Tiers THEN tier ELSE "free"]

Free(notice, t) == [tier |-> "free", limit |-> LicenceLimits["free"],
                    key |-> NoKey, notice |-> notice, at |-> t]

\* Slip: the product is not compared.
ActivateForeign(key, t) ==
    IF ~HasIssuer \/ key.form = "blank"
    THEN Free(IF key.form = "blank" THEN "none" ELSE "free edition", t)
    ELSE IF key.form # "signed" THEN Free("invalid", t)
    ELSE IF t > key.expires THEN Free("expired", t)
    ELSE [tier |-> key.tier, limit |-> LimitsFor(key.tier),
          key |-> key, notice |-> "none", at |-> t]

Activate(key, t) ==
    IF ~HasIssuer \/ key.form = "blank"
    THEN Free(IF key.form = "blank" THEN "none" ELSE "free edition", t)
    ELSE IF ~Ours(key) THEN Free("invalid", t)
    ELSE IF t > key.expires THEN Free("expired", t)
    ELSE [tier |-> key.tier, limit |-> LimitsFor(key.tier),
          key |-> key, notice |-> "none", at |-> t]

\* effLimits and canAdd: the product's own table, where it knows the tier.
EffLimit == IF activation.tier \in Tiers THEN ProductLimits[activation.tier]
                                         ELSE activation.limit
CanAdd(current) == EffLimit = 0 \/ current < EffLimit

Activations == [tier : Names, limit : Nat, key : Keys, at : Nat,
                notice : {"none", "free edition", "invalid", "expired"}]

IdleSet == [pc |-> "idle", key |-> NoKey, act |-> Free("none", 0), alone |-> TRUE]
IdleAsk == [pc |-> "idle", target |-> CHOOSE t \in Targets : TRUE, current |-> 0]
Idle(c) == set[c].pc = "idle" /\ ask[c].pc = "idle"

TypeOK ==
    /\ now \in Nat /\ left \in Nat
    /\ file \in Keys
    /\ activation \in Activations
    /\ set \in [Clients -> [pc : {"idle", "open", "write", "install"}, key : Keys,
                            act : Activations, alone : BOOLEAN]]
    /\ ask \in [Clients -> [pc : {"idle", "limit", "schedule", "save", "forget"},
                           target : Targets, current : Nat]]
    /\ scheduled \in SUBSET Targets
    /\ saved \in SUBSET Targets
    /\ blurred \in SUBSET Targets
    /\ torn \in BOOLEAN

Init ==
    /\ now = 0 /\ left = MaxFaults
    /\ file \in Keys \ {Mixed}
    /\ activation = Activate(file, 0)
    /\ set = [c \in Clients |-> IdleSet]
    /\ ask = [c \in Clients |-> IdleAsk]
    /\ scheduled = Traps
    /\ saved = {}
    /\ torn = FALSE /\ blurred = {}

Fault == left > 0 /\ left' = left - 1

-----------------------------------------------------------------------------
(* handleSetLicense *)

Setting == {c \in Clients : set[c].pc # "idle"}

\* A key that gives no tier is refused, unless it is the blank one, which ends
\* the licence: a refusal changes nothing.
Submit(c, key) ==
    LET act == Activate(key, now) IN
    /\ Idle(c)
    /\ act.tier = "free" => key.form = "blank"
    /\ set' = [s \in Clients |->
                 IF s = c THEN [pc |-> "open", key |-> key, act |-> act, alone |-> Setting = {}]
                          ELSE [set[s] EXCEPT !.alone = FALSE]]
    /\ UNCHANGED <<now, file, activation, torn, targets, left>>

\* os.WriteFile: the file is opened and emptied ...
Open(c) ==
    /\ set[c].pc = "open"
    /\ file' = NoKey
    /\ set' = [set EXCEPT ![c].pc = "write"]
    /\ UNCHANGED <<now, activation, torn, targets, left>>

\* ... and written from its start.  What another request wrote meanwhile is
\* overwritten as far as the new key reaches.
Write(c) ==
    /\ set[c].pc = "write"
    /\ file' \in {set[c].key} \cup (IF file = NoKey THEN {} ELSE {Mixed})
    /\ set' = [set EXCEPT ![c].pc = "install"]
    /\ UNCHANGED <<now, activation, torn, targets, left>>

\* Slip: the error of WriteFile is ignored.
WriteUnchecked(c) ==
    /\ Fault
    /\ set[c].pc \in {"open", "write"}
    /\ set' = [set EXCEPT ![c].pc = "install"]
    /\ UNCHANGED <<now, file, activation, torn, targets>>

\* The file cannot be opened, or not be written; the activation stays.
WriteFails(c) ==
    /\ Fault
    /\ set[c].pc \in {"open", "write"}
    /\ set' = [set EXCEPT ![c] = IdleSet]
    /\ torn' = (torn \/ set[c].pc = "write" \/ ~set[c].alone)
    /\ UNCHANGED <<now, file, activation, targets>>

Install(c) ==
    /\ set[c].pc = "install"
    /\ activation' = set[c].act
    /\ set' = [set EXCEPT ![c] = IdleSet]
    /\ torn' = ~set[c].alone
    /\ UNCHANGED <<now, file, targets, left>>

-----------------------------------------------------------------------------
(* handleAddTarget, handleRemoveTarget *)

\* A second request for a target whose other request has not ended.
Overlap(t) == IF \E c \in Clients : ask[c].pc # "idle" /\ ask[c].target = t
              THEN {t} ELSE {}

\* Slip: the target asked for is taken to be counted already.
CountOthers(c, t) ==
    /\ Idle(c)
    /\ ask' = [ask EXCEPT ![c] = [pc |-> "limit", target |-> t,
                                  current |-> Cardinality(scheduled) - 1]]
    /\ blurred' = blurred \cup Overlap(t)
    /\ UNCHANGED <<now, licence, scheduled, saved, left>>

Count(c, t) ==
    /\ Idle(c)
    /\ ask' = [ask EXCEPT ![c] = [pc |-> "limit", target |-> t,
                                  current |-> Cardinality(scheduled)]]
    /\ blurred' = blurred \cup Overlap(t)
    /\ UNCHANGED <<now, licence, scheduled, saved, left>>

Limit(c) ==
    /\ ask[c].pc = "limit"
    /\ ask' = [ask EXCEPT ![c] = IF CanAdd(ask[c].current)
                                 THEN [ask[c] EXCEPT !.pc = "schedule"] ELSE IdleAsk]
    /\ UNCHANGED <<now, licence, scheduled, saved, blurred, left>>

Schedule(c) ==
    /\ ask[c].pc = "schedule"
    /\ scheduled' = scheduled \cup {ask[c].target}
    /\ ask' = [ask EXCEPT ![c].pc = "save"]
    /\ UNCHANGED <<now, licence, saved, blurred, left>>

\* The target is in force whether or not the table takes it.
Save(c) ==
    /\ ask[c].pc = "save"
    /\ ask' = [ask EXCEPT ![c] = IdleAsk]
    /\ \/ saved' = saved \cup {ask[c].target} /\ UNCHANGED <<blurred, left>>
       \/ Fault /\ blurred' = blurred \cup {ask[c].target} /\ UNCHANGED saved
    /\ UNCHANGED <<now, licence, scheduled>>

Unschedule(c, t) ==
    /\ Idle(c)
    /\ scheduled' = scheduled \ {t}
    /\ ask' = [ask EXCEPT ![c] = [pc |-> "forget", target |-> t, current |-> 0]]
    /\ blurred' = blurred \cup Overlap(t)
    /\ UNCHANGED <<now, licence, saved, left>>

\* Slip: a removal leaves the row.
ForgetNothing(c) ==
    /\ ask[c].pc = "forget"
    /\ ask' = [ask EXCEPT ![c] = IdleAsk]
    /\ UNCHANGED <<now, licence, scheduled, saved, blurred, left>>

\* The error of DeleteTarget is dropped.
Forget(c) ==
    /\ ask[c].pc = "forget"
    /\ ask' = [ask EXCEPT ![c] = IdleAsk]
    /\ \/ saved' = saved \ {ask[c].target} /\ UNCHANGED <<blurred, left>>
       \/ Fault /\ blurred' = blurred \cup {ask[c].target} /\ UNCHANGED saved
    /\ UNCHANGED <<now, licence, scheduled>>

-----------------------------------------------------------------------------
Tick == /\ now < MaxTime
        /\ now' = now + 1
        /\ UNCHANGED <<licence, targets, left>>

\* A crash or an orderly end, and the next start: NewServer judges the file
\* again, main schedules the traps.  Nothing reads the targets table.
Restart ==
    /\ Fault
    /\ activation' = Activate(file, now)
    /\ set' = [c \in Clients |-> IdleSet]
    /\ ask' = [c \in Clients |-> IdleAsk]
    /\ scheduled' = Traps
    /\ torn' = FALSE
    /\ blurred' = saved
    /\ UNCHANGED <<now, file, saved>>

SetStep(c) == \/ \E key \in Keys \ {Mixed} : Submit(c, key)
              \/ Open(c) \/ Write(c) \/ WriteFails(c) \/ Install(c)
AskStep(c) == \/ \E t \in Targets : Count(c, t) \/ Unschedule(c, t)
              \/ Limit(c) \/ Schedule(c) \/ Save(c) \/ Forget(c)

Next == \/ Tick \/ Restart
        \/ \E c \in Clients : SetStep(c) \/ AskStep(c)

Spec == Init /\ [][Next]_vars

-----------------------------------------------------------------------------
(* Properties *)

\* A tier above the free one is that of a key which the issuer signed for this
\* product and which had not run out when it was judged, at the start or at the
\* last change (Activate).  It may run out while it is in force.
TierIsEarned ==
    activation.tier # "free" =>
        /\ HasIssuer /\ Ours(activation.key)
        /\ activation.tier = activation.key.tier
        /\ activation.at <= activation.key.expires
        /\ activation.at <= now

\* The licence in force is the one a restart would find: when no change is under
\* way, and the last one neither overlapped another nor failed half way, the key
\* file gives the activation (handleSetLicense, NewServer).
FileAgrees == Setting = {} /\ ~torn => activation = Activate(file, activation.at)

\* What is scheduled beyond the traps is what the targets table holds, once the
\* requests for it have ended, unless one failed, two overlapped, or the process
\* restarted and forgot them (handleAddTarget, handleRemoveTarget).
TargetsAgree ==
    \A t \in Targets \ (Traps \cup blurred) :
        (\A c \in Clients : ask[c].pc # "idle" => ask[c].target # t)
            => (t \in scheduled <=> t \in saved)
=============================================================================
