----------------------------- MODULE DeskProofs -----------------------------
(***************************************************************************)
(* Proofs about Desk: the tier in force is earned, the key file agrees     *)
(* with it, and so do the stored targets with the scheduled ones, for any  *)
(* keys, limits, targets and clients.                                      *)
(***************************************************************************)
EXTENDS Desk, FiniteSetTheorems, TLAPS

\* What a judgement of a key may say.
Earned(act) ==
    act.tier # "free" =>
        /\ HasIssuer /\ Ours(act.key)
        /\ act.tier = act.key.tier
        /\ act.at <= act.key.expires
        /\ act.at <= now

Others(c) == \A d \in Clients \ {c} : set[d].pc = "idle"

\* A change that overlaps no other has the file to itself, and until it opens the
\* file, what is in force is what the file gives.
Alone(c) == /\ Others(c)
            /\ set[c].pc = "write"   => file = NoKey
            /\ set[c].pc = "install" => file = set[c].key

Untouched == \A c \in Clients : set[c].pc # "idle" => set[c].pc = "open" /\ set[c].alone

LicenceInv ==
    /\ Earned(activation)
    /\ \A c \in Clients : set[c].pc # "idle" =>
          /\ Earned(set[c].act)
          /\ set[c].act = Activate(set[c].key, set[c].act.at)
          /\ set[c].alone => Alone(c)
    /\ ~torn /\ Untouched => activation = Activate(file, activation.at)

\* The only request for a target, and how far it has brought it.
Asking(c, t) == ask[c].pc # "idle" /\ ask[c].target = t
HalfWay(c, t) ==
    /\ \A d \in Clients \ {c} : ~Asking(d, t)
    /\ ask[c].pc \in {"limit", "schedule"} => (t \in scheduled <=> t \in saved)
    /\ ask[c].pc = "save"   => t \in scheduled
    /\ ask[c].pc = "forget" => t \notin scheduled

TargetInv(t) ==
    /\ (\A c \in Clients : ~Asking(c, t)) => (t \in scheduled <=> t \in saved)
    /\ \A c \in Clients : Asking(c, t) => HalfWay(c, t)
TargetsInv == \A t \in Targets \ (Traps \cup blurred) : TargetInv(t)

-----------------------------------------------------------------------------
(* Judging a key *)

\* An activation of the free tier is well formed.
LEMMA FreeFacts ==
    ASSUME NEW notice \in {"none", "free edition", "invalid", "expired"}, NEW t \in Nat
    PROVE  Free(notice, t) \in Activations /\ Free(notice, t).at = t /\ Free(notice, t).tier = "free"
<1>1. LicenceLimits["free"] \in Nat
  BY DeskAssumption DEF Tiers
<1>2. NoKey \in Keys
  BY DeskAssumption
<1>3. "free" \in Names
  BY DeskAssumption DEF Tiers
<1> QED BY <1>1, <1>2, <1>3 DEF Free, Activations

\* Activate gives a well-formed activation, judged at the time it was asked, and a
\* tier above the free one only for a key of the issuer's that has not run out.
LEMMA ActivateFacts ==
    ASSUME NEW key \in Keys, NEW t \in Nat
    PROVE  /\ Activate(key, t) \in Activations
           /\ Activate(key, t).at = t
           /\ t <= now => Earned(Activate(key, t))
<1>1. key \in KeyRecord /\ NoKey \in Keys
  BY DeskAssumption
<1>2. \A tier \in Names : LimitsFor(tier) \in Nat
  BY DeskAssumption DEF LimitsFor, Tiers
<1>3. \A notice \in {"none", "free edition", "invalid", "expired"} :
          Free(notice, t) \in Activations /\ Free(notice, t).at = t /\ Free(notice, t).tier = "free"
  BY <1>1, FreeFacts
<1>4. CASE HasIssuer /\ key.form = "signed" /\ key.product = Product /\ t <= key.expires
  <2>1. Activate(key, t) = [tier |-> key.tier, limit |-> LimitsFor(key.tier),
                            key |-> key, notice |-> "none", at |-> t]
    BY <1>1, <1>4 DEF Activate, Ours, KeyRecord
  <2> QED BY <1>1, <1>2, <1>4, <2>1 DEF Activations, Earned, Ours, KeyRecord
<1>5. CASE ~(HasIssuer /\ key.form = "signed" /\ key.product = Product /\ t <= key.expires)
  <2>1. CASE ~HasIssuer \/ key.form = "blank"
    <3>1. Activate(key, t) = Free("none", t) \/ Activate(key, t) = Free("free edition", t)
      BY <2>1 DEF Activate
    <3> QED BY <1>3, <3>1 DEF Earned
  <2>2. CASE ~(~HasIssuer \/ key.form = "blank") /\ ~Ours(key)
    <3>1. Activate(key, t) = Free("invalid", t)
      BY <2>2 DEF Activate
    <3> QED BY <1>3, <3>1 DEF Earned
  <2>3. CASE ~(~HasIssuer \/ key.form = "blank") /\ Ours(key)
    <3>1. t > key.expires
      BY <1>1, <1>5, <2>3 DEF Ours, KeyRecord
    <3>2. Activate(key, t) = Free("expired", t)
      BY <2>3, <3>1 DEF Activate
    <3> QED BY <1>3, <3>2 DEF Earned
  <2> QED BY <2>1, <2>2, <2>3
<1> QED BY <1>4, <1>5

\* The blank entries are well formed.
LEMMA IdleFacts ==
    /\ IdleSet \in [pc : {"idle", "open", "write", "install"}, key : Keys,
                    act : Activations, alone : BOOLEAN]
    /\ IdleSet.pc = "idle"
    /\ IdleAsk \in [pc : {"idle", "limit", "schedule", "save", "forget"},
                    target : Targets, current : Nat]
    /\ IdleAsk.pc = "idle"
<1>1. Free("none", 0) \in Activations
  BY FreeFacts
<1>2. (CHOOSE t \in Targets : TRUE) \in Targets
  BY DeskAssumption
<1> QED BY <1>1, <1>2, DeskAssumption DEF IdleSet, IdleAsk

-----------------------------------------------------------------------------
(* Types *)

\* The initial state is well typed.
LEMMA TypeInit == Init => TypeOK
<1> SUFFICES ASSUME Init PROVE TypeOK
  OBVIOUS
<1>1. file \in Keys /\ activation \in Activations
  BY ActivateFacts DEF Init
<1>2. scheduled \in SUBSET Targets
  BY DeskAssumption DEF Init
<1> QED BY <1>1, <1>2, IdleFacts, DeskAssumption DEF Init, TypeOK

\* Each step of a licence request keeps the types.
LEMMA SetType ==
    ASSUME TypeOK, NEW c \in Clients, SetStep(c)
    PROVE  TypeOK'
<1>1. ASSUME NEW key \in Keys, Submit(c, key) PROVE TypeOK'
  <2>1. Activate(key, now) \in Activations
    BY ActivateFacts DEF TypeOK
  <2> DEFINE entry == [pc |-> "open", key |-> key, act |-> Activate(key, now),
                       alone |-> Setting = {}]
  <2>2. entry \in [pc : {"idle", "open", "write", "install"}, key : Keys,
                   act : Activations, alone : BOOLEAN]
    BY <2>1
  <2>3. \A s \in Clients : [set[s] EXCEPT !.alone = FALSE] \in
            [pc : {"idle", "open", "write", "install"}, key : Keys,
             act : Activations, alone : BOOLEAN]
    BY DEF TypeOK
  <2>4. set' = [s \in Clients |-> IF s = c THEN entry ELSE [set[s] EXCEPT !.alone = FALSE]]
    BY <1>1 DEF Submit
  <2>5. set' \in [Clients -> [pc : {"idle", "open", "write", "install"}, key : Keys,
                              act : Activations, alone : BOOLEAN]]
    BY <2>2, <2>3, <2>4
  <2> QED BY <1>1, <2>5 DEF Submit, TypeOK, targets
<1>2. CASE Open(c)
  BY <1>2, DeskAssumption DEF Open, TypeOK, targets
<1>3. CASE Write(c)
  BY <1>3, DeskAssumption DEF Write, TypeOK, targets
<1>4. CASE WriteFails(c)
  BY <1>4, IdleFacts DEF WriteFails, Fault, TypeOK, targets
<1>5. CASE Install(c)
  BY <1>5, IdleFacts DEF Install, TypeOK, targets
<1> QED BY <1>1, <1>2, <1>3, <1>4, <1>5 DEF SetStep

\* Each step of a target request keeps the types.
LEMMA AskType ==
    ASSUME TypeOK, NEW c \in Clients, AskStep(c)
    PROVE  TypeOK'
<1>1. Cardinality(scheduled) \in Nat
  BY DeskAssumption, FS_Subset, FS_CardinalityType DEF TypeOK
<1>2. ASSUME NEW t \in Targets, Count(c, t) PROVE TypeOK'
  BY <1>1, <1>2 DEF Count, TypeOK, Overlap, licence
<1>3. ASSUME NEW t \in Targets, Unschedule(c, t) PROVE TypeOK'
  BY <1>3 DEF Unschedule, TypeOK, Overlap, licence
<1>4. CASE Limit(c)
  BY <1>4, IdleFacts DEF Limit, TypeOK, licence
<1>5. CASE Schedule(c)
  BY <1>5 DEF Schedule, TypeOK, licence
<1>6. CASE Save(c)
  BY <1>6, IdleFacts DEF Save, Fault, TypeOK, licence
<1>7. CASE Forget(c)
  BY <1>7, IdleFacts DEF Forget, Fault, TypeOK, licence
<1> QED BY <1>2, <1>3, <1>4, <1>5, <1>6, <1>7 DEF AskStep

\* Every step keeps the types.
LEMMA TypeStep == TypeOK /\ [Next]_vars => TypeOK'
<1> SUFFICES ASSUME TypeOK, [Next]_vars PROVE TypeOK'
  OBVIOUS
<1>1. CASE Tick
  BY <1>1 DEF Tick, TypeOK, licence, targets
<1>2. CASE Restart
  <2>1. activation' \in Activations
    BY <1>2, ActivateFacts DEF Restart, TypeOK
  <2>2. scheduled' \in SUBSET Targets
    BY <1>2, DeskAssumption DEF Restart
  <2>3. /\ set' \in [Clients -> [pc : {"idle", "open", "write", "install"}, key : Keys,
                                 act : Activations, alone : BOOLEAN]]
        /\ ask' \in [Clients -> [pc : {"idle", "limit", "schedule", "save", "forget"},
                                 target : Targets, current : Nat]]
    BY <1>2, IdleFacts DEF Restart
  <2>4. now' \in Nat /\ left' \in Nat
    BY <1>2 DEF Restart, Fault, TypeOK
  <2>5. file' \in Keys /\ torn' \in BOOLEAN /\ saved' \in SUBSET Targets /\ blurred' \in SUBSET Targets
    BY <1>2 DEF Restart, TypeOK
  <2> QED BY <2>1, <2>2, <2>3, <2>4, <2>5 DEF TypeOK
<1>3. CASE UNCHANGED vars
  BY <1>3 DEF vars, licence, targets, TypeOK
<1> QED BY <1>1, <1>2, <1>3, SetType, AskType DEF Next

\* Whatever keys, clients and failures, every variable of the dashboard keeps its type.
THEOREM TypeCorrect == Spec => []TypeOK
  BY TypeInit, TypeStep, PTL DEF Spec

-----------------------------------------------------------------------------
(* The licence *)

\* At the start the file has just been judged.
LEMMA LicenceInit == Init => LicenceInv
<1> SUFFICES ASSUME Init PROVE LicenceInv
  OBVIOUS
<1>1. activation = Activate(file, 0) /\ file \in Keys /\ now = 0
  BY DEF Init
<1>2. Earned(activation) /\ activation = Activate(file, activation.at)
  BY <1>1, ActivateFacts
<1>3. \A c \in Clients : set[c].pc = "idle"
  BY IdleFacts DEF Init
<1> QED BY <1>2, <1>3 DEF LicenceInv

\* A request that begins beside another takes the file from both.
LEMMA SubmitLicence ==
    ASSUME TypeOK, LicenceInv, NEW c \in Clients, NEW key \in Keys, Submit(c, key)
    PROVE  LicenceInv'
<1> DEFINE entry == [pc |-> "open", key |-> key, act |-> Activate(key, now),
                     alone |-> Setting = {}]
<1>1. /\ set' = [s \in Clients |-> IF s = c THEN entry ELSE [set[s] EXCEPT !.alone = FALSE]]
      /\ set[c].pc = "idle"
      /\ UNCHANGED <<now, file, activation, torn>>
  BY DEF Submit, Idle
<1>2. /\ Earned(Activate(key, now))
      /\ Activate(key, now) = Activate(key, Activate(key, now).at)
  BY ActivateFacts DEF TypeOK
<1>3. set'[c] = entry
  BY <1>1
<1>10. set'[c].pc = "open" /\ (set'[c].alone => Setting = {})
  <2>1. CASE Setting = {}
    BY <1>3, <2>1
  <2>2. CASE Setting # {}
    <3>1. entry = [pc |-> "open", key |-> key, act |-> Activate(key, now), alone |-> FALSE]
      BY <2>2
    <3> QED BY <1>3, <3>1
  <2> QED BY <2>1, <2>2
<1>4. ASSUME NEW d \in Clients \ {c}
      PROVE  /\ set'[d].pc = set[d].pc /\ set'[d].key = set[d].key
             /\ set'[d].act = set[d].act /\ set'[d].alone = FALSE
  BY <1>1, <1>4 DEF TypeOK
<1>5. Earned(activation)'
  BY <1>1 DEF LicenceInv, Earned
<1>6. /\ Earned(set[c].act)'
      /\ set'[c].act = Activate(set'[c].key, set'[c].act.at)
  BY <1>1, <1>2, <1>3 DEF Earned
<1>7. ASSUME set'[c].alone PROVE Alone(c)'
  <2>1. Setting = {}
    BY <1>7, <1>10
  <2> QED BY <1>4, <1>10, <2>1 DEF Alone, Others, Setting
<1>8. ASSUME NEW d \in Clients \ {c}, set'[d].pc # "idle"
      PROVE  Earned(set[d].act)' /\ set'[d].act = Activate(set'[d].key, set'[d].act.at)
  <2>1. set'[d].act = set[d].act /\ set'[d].key = set[d].key /\ set[d].pc # "idle"
    BY <1>4, <1>8
  <2>2. Earned(set[d].act) /\ set[d].act = Activate(set[d].key, set[d].act.at)
    BY <2>1 DEF LicenceInv
  <2>3. now' = now
    BY <1>1
  <2> QED BY <2>1, <2>2, <2>3 DEF Earned
<1>9. ASSUME ~torn', Untouched' PROVE (activation = Activate(file, activation.at))'
  <2>1. Setting = {}
    BY <1>9, <1>10 DEF Untouched
  <2> QED BY <1>1, <1>9, <2>1 DEF LicenceInv, Untouched, Setting
<1> QED BY <1>4, <1>5, <1>6, <1>7, <1>8, <1>9 DEF LicenceInv

\* No request that is alone goes beside one that has begun.
LEMMA OnlyOne ==
    ASSUME LicenceInv, NEW c \in Clients, set[c].pc # "idle",
           NEW d \in Clients \ {c}, set[d].pc # "idle"
    PROVE  ~set[d].alone
  BY DEF LicenceInv, Alone, Others

\* The two halves of a write: the file holds the key in the end, when no other
\* request wrote to it.
LEMMA WriteLicence ==
    ASSUME TypeOK, LicenceInv, NEW c \in Clients, Open(c) \/ Write(c)
    PROVE  LicenceInv'
<1>1. /\ set[c].pc \in {"open", "write"}
      /\ set'[c].pc \in {"write", "install"}
      /\ set'[c].key = set[c].key /\ set'[c].act = set[c].act /\ set'[c].alone = set[c].alone
      /\ \A d \in Clients \ {c} : set'[d] = set[d]
      /\ UNCHANGED <<now, activation, torn>>
  BY DEF Open, Write, TypeOK
<1>2. ASSUME set[c].alone PROVE Alone(c)'
  <2>1. Others(c)'
    BY <1>1, <1>2 DEF LicenceInv, Alone, Others
  <2>2. CASE Open(c)
    BY <2>1, <2>2 DEF Open, Alone, TypeOK
  <2>3. CASE Write(c)
    <3>1. file = NoKey
      BY <1>2, <2>3 DEF Write, LicenceInv, Alone
    <3>2. file' = set[c].key /\ set'[c].pc = "install" /\ set'[c].key = set[c].key
      BY <1>1, <2>3, <3>1 DEF Write, TypeOK
    <3> QED BY <2>1, <3>2 DEF Alone
  <2> QED BY <2>2, <2>3
<1>3. \A d \in Clients \ {c} : set[d].pc # "idle" => ~set[d].alone
  BY <1>1, OnlyOne
<1>4. ~Untouched'
  BY <1>1 DEF Untouched
<1> QED BY <1>1, <1>2, <1>3, <1>4 DEF LicenceInv, Earned

\* A write that fails leaves what the file gives in force, or the pair torn.
LEMMA WriteFailsLicence ==
    ASSUME TypeOK, LicenceInv, NEW c \in Clients, WriteFails(c)
    PROVE  LicenceInv'
<1>1. /\ set[c].pc \in {"open", "write"}
      /\ set'[c].pc = "idle"
      /\ \A d \in Clients \ {c} : set'[d] = set[d]
      /\ torn' = (torn \/ set[c].pc = "write" \/ ~set[c].alone)
      /\ UNCHANGED <<now, file, activation>>
  BY IdleFacts DEF WriteFails, TypeOK
<1>2. \A d \in Clients \ {c} : set[d].pc # "idle" => ~set[d].alone
  BY <1>1, OnlyOne
<1>3. ASSUME ~torn' PROVE activation = Activate(file, activation.at)
  <2>1. ~torn /\ set[c].pc = "open" /\ set[c].alone
    BY <1>1, <1>3 DEF TypeOK
  <2>2. Others(c)
    BY <2>1 DEF LicenceInv, Alone
  <2> QED BY <2>1, <2>2 DEF LicenceInv, Untouched, Others
<1> QED BY <1>1, <1>2, <1>3 DEF LicenceInv, Earned

\* The last step puts in force what the file gives, when it was alone.
LEMMA InstallLicence ==
    ASSUME TypeOK, LicenceInv, NEW c \in Clients, Install(c)
    PROVE  LicenceInv'
<1>1. /\ set[c].pc = "install"
      /\ set'[c].pc = "idle"
      /\ \A d \in Clients \ {c} : set'[d] = set[d]
      /\ activation' = set[c].act
      /\ torn' = ~set[c].alone
      /\ UNCHANGED <<now, file>>
  BY IdleFacts DEF Install, TypeOK
<1>2. \A d \in Clients \ {c} : set[d].pc # "idle" => ~set[d].alone
  BY <1>1, OnlyOne
<1>3. ASSUME ~torn' PROVE (activation = Activate(file, activation.at))'
  BY <1>1, <1>3 DEF LicenceInv, Alone
<1> QED BY <1>1, <1>2, <1>3 DEF LicenceInv, Earned

\* Every step keeps what is known of the licence.
LEMMA LicenceStep == TypeOK /\ LicenceInv /\ [Next]_vars => LicenceInv'
<1> SUFFICES ASSUME TypeOK, LicenceInv, [Next]_vars PROVE LicenceInv'
  OBVIOUS
<1>1. CASE Tick
  <2>1. now' = now + 1 /\ UNCHANGED licence
    BY <1>1 DEF Tick
  <2>2. \A act \in Activations : Earned(act) => Earned(act)'
    <3> SUFFICES ASSUME NEW act \in Activations, Earned(act) PROVE Earned(act)'
      OBVIOUS
    <3>1. act.at \in Nat /\ now \in Nat
      BY DEF TypeOK, Activations
    <3> QED BY <2>1, <3>1 DEF Earned
  <2>3. activation \in Activations /\ \A c \in Clients : set[c].act \in Activations
    BY DEF TypeOK
  <2>4. Earned(activation)' /\ \A c \in Clients : set[c].pc # "idle" => Earned(set[c].act)'
    BY <2>1, <2>2, <2>3 DEF LicenceInv, licence, Earned
  <2> QED BY <2>1, <2>4 DEF LicenceInv, licence, Alone, Others, Untouched
<1>2. CASE Restart
  <2>1. /\ activation' = Activate(file, now) /\ file' = file /\ now' = now
        /\ \A c \in Clients : set'[c].pc = "idle"
    BY <1>2, IdleFacts DEF Restart
  <2>2. Earned(Activate(file, now)) /\ Activate(file, now) = Activate(file, Activate(file, now).at)
    BY ActivateFacts DEF TypeOK
  <2> QED BY <2>1, <2>2 DEF LicenceInv, Earned
<1>3. ASSUME NEW c \in Clients, AskStep(c) PROVE LicenceInv'
  <2>1. UNCHANGED <<now, licence>>
    BY <1>3 DEF AskStep, Count, Limit, Schedule, Save, Unschedule, Forget
  <2> QED BY <2>1 DEF LicenceInv, licence, Alone, Others, Untouched, Earned
<1>4. CASE UNCHANGED vars
  BY <1>4 DEF vars, LicenceInv, licence, Alone, Others, Untouched, Earned
<1> QED BY <1>1, <1>2, <1>3, <1>4, SubmitLicence, WriteLicence, WriteFailsLicence, InstallLicence
    DEF Next, SetStep

\* What is known of the licence holds always.
LEMMA LicenceAlways == Spec => [](TypeOK /\ LicenceInv)
  BY TypeInit, TypeStep, LicenceInit, LicenceStep, PTL DEF Spec

\* However changes of the licence overlap and fail, the tier in force is that of a
\* key the issuer signed for this product, judged before it had run out.
THEOREM TierStaysEarned == Spec => []TierIsEarned
<1>1. LicenceInv => TierIsEarned
  BY DEF LicenceInv, Earned, TierIsEarned
<1> QED BY <1>1, LicenceAlways, PTL

\* Unless changes overlapped, or one failed half way, a restart finds the licence
\* that was in force.
THEOREM FileStaysInAgreement == Spec => []FileAgrees
<1>1. LicenceInv => FileAgrees
  BY DEF LicenceInv, FileAgrees, Setting, Untouched
<1> QED BY <1>1, LicenceAlways, PTL

-----------------------------------------------------------------------------
(* The targets *)

\* A step of one request disturbs no target but its own.
LEMMA OthersUndisturbed ==
    ASSUME TargetsInv, NEW c \in Clients, NEW own \in Targets,
           \A d \in Clients \ {c} : ask'[d] = ask[d],
           ask[c].pc = "idle" \/ ask[c].target = own,
           ask'[c].pc = "idle" \/ ask'[c].target = own,
           \A t \in Targets \ {own} : /\ (t \in scheduled') <=> (t \in scheduled)
                                      /\ (t \in saved') <=> (t \in saved),
           blurred \subseteq blurred',
           own \notin Traps \cup blurred' => TargetInv(own)'
    PROVE  TargetsInv'
<1> SUFFICES ASSUME NEW t \in Targets, t \notin Traps \cup blurred', t # own
             PROVE  TargetInv(t)'
  BY DEF TargetsInv
<1>0. t \in Targets \ (Traps \cup blurred) /\ t \in Targets \ {own}
  OBVIOUS
<1>1. TargetInv(t)
  BY <1>0 DEF TargetsInv
<1>8. ((t \in scheduled') <=> (t \in scheduled)) /\ ((t \in saved') <=> (t \in saved))
  BY <1>0
<1>2. \A d \in Clients \ {c} : Asking(d, t)' <=> Asking(d, t)
  BY DEF Asking
<1>3. ~Asking(c, t) /\ ~Asking(c, t)'
  BY DEF Asking
<1>4. \A d \in Clients : Asking(d, t)' <=> Asking(d, t)
  BY <1>2, <1>3
<1>5. \A d \in Clients : Asking(d, t)' => HalfWay(d, t)'
  <2> SUFFICES ASSUME NEW d \in Clients, Asking(d, t)' PROVE HalfWay(d, t)'
    OBVIOUS
  <2>1. HalfWay(d, t) /\ ask'[d] = ask[d]
    BY <1>1, <1>3, <1>4 DEF TargetInv
  <2>2. \A e \in Clients \ {d} : ~Asking(e, t)'
    BY <1>4, <2>1 DEF HalfWay
  <2> QED BY <1>8, <2>1, <2>2 DEF HalfWay
<1>6. (\A d \in Clients : ~Asking(d, t)') => ((t \in scheduled') <=> (t \in saved'))
  BY <1>1, <1>4, <1>8 DEF TargetInv
<1> QED BY <1>5, <1>6 DEF TargetInv

\* A request begins: a target no other request is about is as it was left.
LEMMA BeginTargets ==
    ASSUME TypeOK, TargetsInv, NEW c \in Clients, NEW t \in Targets,
           Count(c, t) \/ Unschedule(c, t)
    PROVE  TargetsInv'
<1>1. /\ ask[c].pc = "idle"
      /\ ask'[c].pc \in {"limit", "forget"} /\ ask'[c].target = t
      /\ \A d \in Clients \ {c} : ask'[d] = ask[d]
      /\ blurred' = blurred \cup Overlap(t)
      /\ saved' = saved
      /\ \A u \in Targets \ {t} : u \in scheduled' <=> u \in scheduled
  BY DEF Count, Unschedule, Idle, TypeOK
<1>2. ASSUME t \notin Traps \cup blurred' PROVE TargetInv(t)'
  <2>1. \A d \in Clients : ~Asking(d, t)
    BY <1>1, <1>2 DEF Overlap, Asking
  <2>2. TargetInv(t)
    BY <1>1, <1>2 DEF TargetsInv
  <2>3. t \in scheduled <=> t \in saved
    BY <2>1, <2>2 DEF TargetInv
  <2>4. \A d \in Clients \ {c} : ~Asking(d, t)'
    BY <1>1, <2>1 DEF Asking
  <2>5. HalfWay(c, t)'
    <3>1. CASE Count(c, t)
      BY <1>1, <2>3, <2>4, <3>1 DEF Count, HalfWay, TypeOK
    <3>2. CASE Unschedule(c, t)
      BY <1>1, <2>4, <3>2 DEF Unschedule, HalfWay, TypeOK
    <3> QED BY <3>1, <3>2
  <2>6. Asking(c, t)'
    BY <1>1 DEF Asking
  <2> QED BY <2>4, <2>5, <2>6 DEF TargetInv
<1> QED BY <1>1, <1>2, OthersUndisturbed

\* A request goes on: a target that is not blurred is as its only request left it.
LEMMA ProceedTargets ==
    ASSUME TypeOK, TargetsInv, NEW c \in Clients,
           NEW own \in Targets, own = ask[c].target,
           Limit(c) \/ Schedule(c) \/ Save(c) \/ Forget(c)
    PROVE  TargetsInv'
<1>2. /\ ask[c].pc # "idle"
      /\ ask'[c].pc = "idle" \/ ask'[c].target = own
      /\ \A d \in Clients \ {c} : ask'[d] = ask[d]
      /\ blurred \subseteq blurred'
      /\ \A u \in Targets \ {own} : /\ (u \in scheduled') <=> (u \in scheduled)
                                    /\ (u \in saved') <=> (u \in saved)
  BY IdleFacts DEF Limit, Schedule, Save, Forget, TypeOK
<1>3. ASSUME own \notin Traps \cup blurred' PROVE TargetInv(own)'
  <2>1. HalfWay(c, own)
    BY <1>2, <1>3 DEF TargetsInv, TargetInv, Asking
  <2>2. \A d \in Clients \ {c} : ~Asking(d, own)'
    BY <1>2, <2>1 DEF HalfWay, Asking
  <2>3. CASE Limit(c)
    <3>1. /\ own \in scheduled' <=> own \in saved'
          /\ ask'[c].pc \in {"idle", "schedule"}
      BY <2>1, <2>3, IdleFacts DEF Limit, HalfWay, TypeOK
    <3> QED BY <2>2, <3>1 DEF TargetInv, HalfWay
  <2>4. CASE Schedule(c)
    <3>1. own \in scheduled' /\ ask'[c].pc = "save" /\ ask'[c].target = own
      BY <2>4 DEF Schedule, TypeOK
    <3> QED BY <2>2, <3>1 DEF TargetInv, HalfWay, Asking
  <2>5. CASE Save(c) \/ Forget(c)
    <3>1. (own \in scheduled' <=> own \in saved') /\ ask'[c].pc = "idle"
      BY <1>3, <2>1, <2>5, IdleFacts DEF Save, Forget, HalfWay, TypeOK
    <3> QED BY <2>2, <3>1 DEF TargetInv, HalfWay, Asking
  <2> QED BY <2>3, <2>4, <2>5
<1> QED BY <1>2, <1>3, OthersUndisturbed

\* Every step keeps what is known of the targets.
LEMMA TargetsStep == TypeOK /\ TargetsInv /\ [Next]_vars => TargetsInv'
<1> SUFFICES ASSUME TypeOK, TargetsInv, [Next]_vars PROVE TargetsInv'
  OBVIOUS
<1>1. CASE Restart
  <2>1. /\ scheduled' = Traps /\ saved' = saved /\ blurred' = saved
        /\ \A c \in Clients : ask'[c].pc = "idle"
    BY <1>1, IdleFacts DEF Restart
  <2> QED BY <2>1 DEF TargetsInv, TargetInv, Asking
<1>2. ASSUME UNCHANGED targets PROVE TargetsInv'
  BY <1>2 DEF targets, TargetsInv, TargetInv, Asking, HalfWay
<1>3. ASSUME NEW c \in Clients, SetStep(c) PROVE UNCHANGED targets
  BY <1>3 DEF SetStep, Submit, Open, Write, WriteFails, Install
<1>4. \A c \in Clients : ask[c].target \in Targets
  BY DEF TypeOK
<1> QED BY <1>1, <1>2, <1>3, <1>4, BeginTargets, ProceedTargets
    DEF Next, Tick, AskStep, vars, licence, targets

\* At the start nothing is saved, scheduled or asked for but the traps.
LEMMA TargetsInit == Init => TargetsInv
  BY IdleFacts DEF Init, TargetsInv, TargetInv, Asking

\* Unless requests for a target overlapped, one failed or the process restarted, it
\* is scheduled exactly when it is saved, once the requests for it have ended.
THEOREM TargetsStayInAgreement == Spec => []TargetsAgree
<1>1. TargetsInv => TargetsAgree
  BY DEF TargetsInv, TargetInv, Asking, TargetsAgree
<1> QED BY <1>1, TypeInit, TypeStep, TargetsInit, TargetsStep, PTL DEF Spec

=============================================================================
