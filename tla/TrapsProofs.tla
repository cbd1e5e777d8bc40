---------------------------- MODULE TrapsProofs ----------------------------
(***************************************************************************)
(* The safety properties of Traps, for any ids, tiers and requests.        *)
(***************************************************************************)
EXTENDS Traps, FiniteSetTheorems, TLAPS

-----------------------------------------------------------------------------
(* Types. *)

\* The initial state is typed.
LEMMA TypeInit == Init => TypeOK
BY TrapsAssumption DEF Init, TypeOK, CreateState, DeleteState, TrapsAssumption

\* The places of a request and of a deletion that are in flight.
CreatePcs == {"count", "mint", "target", "listen", "enter", "undo"}
DeletePcs == {"stop", "close", "untarget", "row"}

\* A request in flight has an id, and a honeypot's if it has to do with a
\* listener.
LEMMA RequestTypes ==
    ASSUME TypeOK, NEW c \in Creators
    PROVE  /\ create[c].pc \in {"idle"} \cup CreatePcs
           /\ create[c].pc = "idle" => create[c] = IdleCreate
           /\ create[c].pc # "idle" => create[c] \in [pc : CreatePcs, id : Ids, limit : Nat]
           /\ create[c].pc \in {"listen", "enter", "undo"} => create[c].id \in Honeypots
<1>0. create[c] \in CreateState
  BY DEF TypeOK
<1>1. CASE create[c] = IdleCreate
  BY <1>1 DEF IdleCreate
<1>2. CASE create[c] \in [pc : {"count", "mint", "target"}, id : Ids, limit : Nat]
  BY <1>2 DEF CreatePcs
<1>3. CASE create[c] \in [pc : {"listen", "enter", "undo"}, id : Honeypots, limit : Nat]
  BY <1>3, TrapsAssumption DEF CreatePcs, TrapsAssumption
<1> QED
  BY <1>0, <1>1, <1>2, <1>3 DEF CreateState

\* A deletion in flight has an id, and a honeypot's if it has to do with a
\* listener.
LEMMA DeletionTypes ==
    ASSUME TypeOK, NEW d \in Deleters
    PROVE  /\ delete[d].pc \in {"idle"} \cup DeletePcs
           /\ delete[d].pc = "idle" => delete[d] = IdleDelete
           /\ delete[d].pc # "idle" => delete[d] \in [pc : DeletePcs, id : Ids]
           /\ delete[d].pc \in {"stop", "close"} => delete[d].id \in Honeypots
<1>0. delete[d] \in DeleteState
  BY DEF TypeOK
<1>1. CASE delete[d] = IdleDelete
  BY <1>1 DEF IdleDelete
<1>2. CASE delete[d] \in [pc : {"untarget", "row"}, id : Ids]
  BY <1>2 DEF DeletePcs
<1>3. CASE delete[d] \in [pc : {"stop", "close"}, id : Honeypots]
  BY <1>3, TrapsAssumption DEF DeletePcs, TrapsAssumption
<1> QED
  BY <1>0, <1>1, <1>2, <1>3 DEF DeleteState

\* Goes keeps the type of a request.
LEMMA GoesTyped ==
    ASSUME TypeOK, NEW c \in Creators, create[c].pc # "idle",
           NEW pc \in {"mint", "target", "listen", "enter", "undo"},
           pc \in {"listen", "enter", "undo"} => create[c].id \in Honeypots,
           Goes(c, pc)
    PROVE  create' \in [Creators -> CreateState]
<1>1. CASE pc \in {"mint", "target"}
  <2>1. [create[c] EXCEPT !.pc = pc] \in [pc : {"count", "mint", "target"}, id : Ids, limit : Nat]
    BY <1>1, RequestTypes
  <2> QED
    BY <2>1 DEF TypeOK, Goes, CreateState
<1>2. CASE pc \in {"listen", "enter", "undo"}
  <2>1. create[c] \in [pc : CreatePcs, id : Ids, limit : Nat]
    BY RequestTypes
  <2>2. [create[c] EXCEPT !.pc = pc] \in
          [pc : {"listen", "enter", "undo"}, id : Honeypots, limit : Nat]
    BY <1>2, <2>1
  <2> QED
    BY <2>2 DEF TypeOK, Goes, CreateState
<1> QED
  BY <1>1, <1>2

\* Ends keeps the type of a request.
LEMMA EndsTyped ==
    ASSUME TypeOK, NEW c \in Creators, Ends(c)
    PROVE  create' \in [Creators -> CreateState]
BY DEF Ends, TypeOK, CreateState

\* A step of a deletion keeps its type.
LEMMA DeleteTyped ==
    ASSUME TypeOK, NEW d \in Deleters, NEW pc \in {"close", "untarget", "row"},
           delete[d].pc # "idle", pc = "close" => delete[d].id \in Honeypots,
           delete' = [delete EXCEPT ![d].pc = pc]
    PROVE  delete' \in [Deleters -> DeleteState]
<1>0. delete[d] \in [pc : DeletePcs, id : Ids]
  BY DeletionTypes
<1>1. CASE pc = "close"
  <2>1. [delete[d] EXCEPT !.pc = pc] \in [pc : {"stop", "close"}, id : Honeypots]
    BY <1>0, <1>1
  <2> QED
    BY <2>1 DEF TypeOK, DeleteState
<1>2. CASE pc \in {"untarget", "row"}
  <2>1. [delete[d] EXCEPT !.pc = pc] \in [pc : {"untarget", "row"}, id : Ids]
    BY <1>0, <1>2
  <2> QED
    BY <2>1 DEF TypeOK, DeleteState
<1> QED
  BY <1>1, <1>2


\* What Goes changes, and what it leaves.
LEMMA GoesChange ==
    ASSUME TypeOK, NEW c \in Creators, create[c].pc # "idle", NEW pc, Goes(c, pc)
    PROVE  /\ create'[c].pc = pc
           /\ create'[c].id = create[c].id
           /\ create'[c].limit = create[c].limit
           /\ \A e \in Creators : e # c => create'[e] = create[e]
<1>1. create[c] \in [pc : CreatePcs, id : Ids, limit : Nat]
  BY RequestTypes
<1>2. create' = [create EXCEPT ![c] = [create[c] EXCEPT !.pc = pc]]
  BY DEF Goes
<1>3. create'[c] = [create[c] EXCEPT !.pc = pc]
  BY <1>2 DEF TypeOK
<1>4. \A e \in Creators : e # c => create'[e] = create[e]
  BY <1>2 DEF TypeOK
<1> QED
  BY <1>1, <1>3, <1>4

\* What Ends changes, and what it leaves.
LEMMA EndsChange ==
    ASSUME TypeOK, NEW c \in Creators, Ends(c)
    PROVE  /\ create'[c].pc = "idle"
           /\ \A e \in Creators : e # c => create'[e] = create[e]
BY DEF TypeOK, Ends, IdleCreate

\* What a step of a deletion changes, and what it leaves.
LEMMA DeleteChange ==
    ASSUME TypeOK, NEW d \in Deleters, delete[d].pc # "idle", NEW pc,
           delete' = [delete EXCEPT ![d].pc = pc]
    PROVE  /\ delete'[d].pc = pc
           /\ delete'[d].id = delete[d].id
           /\ \A e \in Deleters : e # d => delete'[e] = delete[e]
<1>1. delete[d] \in [pc : DeletePcs, id : Ids]
  BY DeletionTypes
<1>2. delete' = [delete EXCEPT ![d] = [delete[d] EXCEPT !.pc = pc]]
  OBVIOUS
<1>3. delete'[d] = [delete[d] EXCEPT !.pc = pc]
  BY <1>2 DEF TypeOK
<1>4. \A e \in Deleters : e # d => delete'[e] = delete[e]
  BY <1>2 DEF TypeOK
<1> QED
  BY <1>1, <1>3, <1>4

\* Every step keeps the types.
LEMMA TypeStep == TypeOK /\ [Next]_vars => TypeOK'
<1> SUFFICES ASSUME TypeOK, [Next]_vars PROVE TypeOK'
  OBVIOUS
<1> USE RequestTypes, DeletionTypes DEF Fault, history, traps
<1>1. ASSUME NEW c \in Creators, NEW id \in Ids, Request(c, id) PROVE TypeOK'
  <2>1. PICK caps \in Tiers : create' = [create EXCEPT ![c] =
          [pc |-> IF caps[ClassOf(id)] = 0 THEN "mint" ELSE "count",
           id |-> id, limit |-> caps[ClassOf(id)]]]
    BY <1>1 DEF Request
  <2>2. caps[ClassOf(id)] \in Nat
    BY TrapsAssumption DEF TrapsAssumption, Caps, ClassOf
  <2>3. create' \in [Creators -> CreateState]
    BY <2>1, <2>2 DEF TypeOK, CreateState
  <2> QED
    BY <1>1, <2>3 DEF Request, TypeOK
<1>2. ASSUME NEW c \in Creators, Create(c) PROVE TypeOK'
  <2>1. CASE Count(c) \/ CountFails(c)
    <3>1. create' \in [Creators -> CreateState]
      BY <2>1, GoesTyped, EndsTyped DEF Count, CountFails, Refuse
    <3> QED
      BY <2>1, <3>1 DEF Count, CountFails, Refuse, TypeOK
  <2>2. CASE Mint(c) \/ MintFails(c)
    <3>1. create' \in [Creators -> CreateState]
      BY <2>2, GoesTyped, EndsTyped DEF Mint, MintFails
    <3>2. create[c].id \in Ids
      BY <2>2 DEF Mint, MintFails, CreatePcs
    <3> QED
      BY <2>2, <3>1, <3>2 DEF Mint, MintFails, TypeOK
  <2>3. CASE Listen(c) \/ Enter(c) \/ ListenFails(c)
    <3>1. create' \in [Creators -> CreateState]
      BY <2>3, GoesTyped DEF Listen, Enter, ListenFails
    <3>2. create[c].id \in Honeypots
      BY <2>3 DEF Listen, Enter, ListenFails
    <3> QED
      BY <2>3, <3>1, <3>2 DEF Listen, Enter, ListenFails, TypeOK
  <2>4. CASE AddTarget(c) \/ RollBack(c)
    <3>1. create' \in [Creators -> CreateState]
      BY <2>4, EndsTyped DEF AddTarget, RollBack
    <3>2. create[c].id \in Ids
      BY <2>4 DEF AddTarget, RollBack, CreatePcs
    <3> QED
      BY <2>4, <3>1, <3>2 DEF AddTarget, RollBack, TypeOK
  <2> QED
    BY <1>2, <2>1, <2>2, <2>3, <2>4 DEF Create
<1>3. ASSUME NEW d \in Deleters, NEW id \in Ids, Ask(d, id) PROVE TypeOK'
  <2>1. delete' \in [Deleters -> DeleteState]
    BY <1>3 DEF Ask, TypeOK, DeleteState
  <2> QED
    BY <1>3, <2>1 DEF Ask, TypeOK
<1>4. ASSUME NEW d \in Deleters, Delete(d) PROVE TypeOK'
  <2>1. CASE DeleteRow(d)
    <3>1. delete' \in [Deleters -> DeleteState]
      BY <2>1 DEF DeleteRow, TypeOK, DeleteState
    <3>2. delete[d].id \in Ids
      BY <2>1 DEF DeleteRow, DeletePcs
    <3> QED
      BY <2>1, <3>1, <3>2 DEF DeleteRow, TypeOK
  <2>2. CASE TakeListener(d) \/ CloseListener(d) \/ RemoveTarget(d)
    <3>1. delete' \in [Deleters -> DeleteState]
      BY <2>2, DeleteTyped DEF TakeListener, CloseListener, RemoveTarget
    <3> QED
      BY <2>2, <3>1 DEF TakeListener, CloseListener, RemoveTarget, TypeOK
  <2> QED
    BY <1>4, <2>1, <2>2 DEF Delete
<1>5. CASE Restart
  BY <1>5 DEF Restart, TypeOK, CreateState, DeleteState
<1>6. CASE Serve
  BY <1>6 DEF Serve, TypeOK
<1>7. ASSUME NEW id \in Ids, Restore(id) PROVE TypeOK'
  BY <1>7 DEF Restore, TypeOK
<1>8. CASE UNCHANGED vars
  BY <1>8 DEF vars, TypeOK
<1> QED
  BY <1>1, <1>2, <1>3, <1>4, <1>5, <1>6, <1>7, <1>8 DEF Next

\* What is in the table, polled, open or entered are traps, the ports those of
\* honeypots, and a request that has to do with a listener is a honeypot's.
THEOREM TypeCorrect == Spec => []TypeOK
BY TypeInit, TypeStep, PTL DEF Spec

-----------------------------------------------------------------------------
(* The inductive invariant of the first three properties. *)

\* No two requests, and nothing that exists, have one id in common before the
\* row is written.
IdsFresh ==
    /\ rows \cup targets \cup bound \subseteq taken
    /\ \A c \in Creators : create[c].pc # "idle" => create[c].id \in taken
    /\ \A d \in Deleters : delete[d].pc # "idle" => delete[d].id \in taken
    /\ \A c, e \in Creators :
           create[c].pc # "idle" /\ create[e].pc # "idle" /\ create[c].id = create[e].id => c = e
    /\ \A c \in Creators : create[c].pc \in {"count", "mint"} =>
           create[c].id \notin rows /\ ~Deleting(create[c].id)

\* While main restores, no request is in flight, and what is not restored yet
\* is in the table.
RestoreQuiet ==
    process = "restoring" =>
        /\ \A c \in Creators : create[c].pc = "idle"
        /\ \A d \in Deleters : delete[d].pc = "idle"
        /\ restore \subseteq rows
        /\ \A id \in rows \ restore :
              /\ id \in targets
              /\ id \in Honeypots => id \in bound \cap known \/ id \in muted

\* What a creation has done so far.
CreationSoFar ==
    \A c \in Creators :
        LET id == create[c].id IN
        /\ create[c].pc # "idle" => id \notin targets
        /\ create[c].pc \in {"count", "mint", "listen", "undo"} => id \notin bound
        /\ create[c].pc = "enter" => id \in bound \ known
        /\ create[c].pc \in {"count", "mint", "listen", "enter", "undo"} => ~Closing(id)
        /\ create[c].pc \in {"listen", "enter", "target", "undo"} => id \in rows \cup hurried
        /\ create[c].pc = "target" /\ id \in Honeypots =>
              \/ id \in bound \cap known
              \/ Deleting(id) \/ id \in halfway \/ id \notin rows

\* What a deletion has done so far, and that one of a trap in the making is
\* on record.
DeletionSoFar ==
    \A d \in Deleters :
        LET id == delete[d].id IN
        /\ delete[d].pc # "idle" /\ Creating(id) => id \in hurried
        /\ delete[d].pc = "close" => id \notin known
        /\ delete[d].pc \in {"untarget", "row"} /\ id \in bound => id \in hurried \/ Closing(id)
        /\ delete[d].pc = "row" /\ id \in targets => id \in hurried

LeftBehindInRows ==
    /\ targets \subseteq rows \cup hurried
    /\ \A id \in bound : id \in rows \/ id \in hurried \/ Closing(id)

TrapsInv ==
    /\ TypeOK
    /\ IdsFresh
    /\ RestoreQuiet
    /\ CreationSoFar
    /\ DeletionSoFar
    /\ ListenersClosable
    /\ LeftBehindInRows
    /\ TrapsArmed

\* The rows and those about to be, of one class.
Minting(k) == {c \in Creators : create[c].pc = "mint" /\ ClassOf(create[c].id) = k}

\* A request that counts has a limit of some tier.
LimitsKept ==
    \A c \in Creators : create[c].pc = "count" =>
        \E t \in Tiers : create[c].limit = t[ClassOf(create[c].id)]

Bounded(k, most) ==
    (\A t \in Tiers : t[k] \in 1 .. most[k]) =>
        Cardinality(rows \cap OfClass(k)) + Cardinality(Minting(k))
            <= most[k] + Cardinality(Creators) - 1 + unchecked

OvershootInv ==
    /\ TypeOK
    /\ LimitsKept
    /\ \A k \in Classes, most \in Tiers : Bounded(k, most)

-----------------------------------------------------------------------------
(* The overshoot. *)

\* Cardinalities of the requests about to write a row.
LEMMA MintersFinite ==
    ASSUME NEW k
    PROVE  /\ IsFiniteSet(Minting(k))
           /\ Cardinality(Minting(k)) \in 0 .. Cardinality(Creators)
           /\ Cardinality(Creators) \in Nat
<1>1. Minting(k) \subseteq Creators
  BY DEF Minting
<1> QED
  BY <1>1, FS_Subset, FS_CardinalityType, TrapsAssumption DEF TrapsAssumption

\* The rows of a class can be counted.
LEMMA RowsFinite ==
    ASSUME TypeOK, NEW k
    PROVE  IsFiniteSet(rows \cap OfClass(k)) /\ Cardinality(rows \cap OfClass(k)) \in Nat
<1>1. rows \cap OfClass(k) \subseteq Ids
  BY DEF TypeOK
<1> QED
  BY <1>1, FS_Subset, FS_CardinalityType, TrapsAssumption DEF TrapsAssumption

\* No trap is of two classes.
LEMMA ClassesDisjoint ==
    ASSUME NEW id \in Ids, NEW k \in Classes
    PROVE  id \in OfClass(k) <=> ClassOf(id) = k
BY DEF OfClass

\* A sum below its bound stays there when no row and no minting request of the
\* class is added and no failed list is forgotten.
LEMMA SumShrinks ==
    ASSUME TypeOK, TypeOK', NEW k \in Classes,
           (rows \cap OfClass(k))' \subseteq rows \cap OfClass(k),
           Minting(k)' \subseteq Minting(k)
    PROVE  Cardinality(rows \cap OfClass(k))' + Cardinality(Minting(k))'
               <= Cardinality(rows \cap OfClass(k)) + Cardinality(Minting(k))
<1>1. Cardinality((rows \cap OfClass(k))') <= Cardinality(rows \cap OfClass(k))
  BY RowsFinite, FS_Subset
<1>2. Cardinality(Minting(k)') <= Cardinality(Minting(k))
  BY MintersFinite, FS_Subset
<1>3. /\ Cardinality((rows \cap OfClass(k))') \in Nat
      /\ Cardinality(rows \cap OfClass(k)) \in Nat
      /\ Cardinality(Minting(k)') \in Nat
      /\ Cardinality(Minting(k)) \in Nat
  <2>1. IsFiniteSet((rows \cap OfClass(k))') /\ IsFiniteSet(Minting(k)')
    BY RowsFinite, MintersFinite, FS_Subset
  <2> QED
    BY <2>1, RowsFinite, MintersFinite, FS_CardinalityType
<1> QED
  BY <1>1, <1>2, <1>3

\* A request changes the minting ones of its own class only.
LEMMA MintingChange ==
    ASSUME TypeOK, NEW c \in Creators, NEW k \in Classes,
           \A e \in Creators : e # c => create'[e] = create[e]
    PROVE  /\ Minting(k)' \subseteq Minting(k) \cup {c}
           /\ create'[c].pc # "mint" => Minting(k)' = Minting(k) \ {c}
           /\ create'[c].pc = "mint" /\ ClassOf(create'[c].id) # k =>
                 Minting(k)' \subseteq Minting(k)
BY DEF Minting

\* An action that writes no row, lets no request through to the mint and keeps
\* the count of failed lists keeps the bounds.
LEMMA QuietKeepsBound ==
    ASSUME TypeOK, TypeOK', NEW k \in Classes, NEW most \in Tiers, Bounded(k, most),
           rows' \subseteq rows, Minting(k)' \subseteq Minting(k), unchecked' = unchecked
    PROVE  Bounded(k, most)'
<1> SUFFICES ASSUME \A t \in Tiers : t[k] \in 1 .. most[k]
             PROVE  Cardinality(rows \cap OfClass(k))' + Cardinality(Minting(k))'
                        <= most[k] + Cardinality(Creators) - 1 + unchecked'
  BY DEF Bounded
<1>1. (rows \cap OfClass(k))' \subseteq rows \cap OfClass(k)
  BY DEF OfClass, ClassOf
<1>2. Cardinality(rows \cap OfClass(k))' + Cardinality(Minting(k))'
          <= Cardinality(rows \cap OfClass(k)) + Cardinality(Minting(k))
  BY <1>1, SumShrinks
<1>3. Cardinality(rows \cap OfClass(k)) + Cardinality(Minting(k))
          <= most[k] + Cardinality(Creators) - 1 + unchecked
  BY DEF Bounded
<1>4. /\ Cardinality((rows \cap OfClass(k))') \in Nat /\ Cardinality(Minting(k)') \in Nat
      /\ Cardinality(rows \cap OfClass(k)) \in Nat /\ Cardinality(Minting(k)) \in Nat
      /\ Cardinality(Creators) \in Nat /\ most[k] \in Nat /\ unchecked \in Nat
  <2>1. IsFiniteSet((rows \cap OfClass(k))') /\ IsFiniteSet(Minting(k)')
    BY <1>1, RowsFinite, MintersFinite, FS_Subset
  <2> QED
    BY <2>1, RowsFinite, MintersFinite, FS_CardinalityType DEF TypeOK
<1> QED
  BY <1>2, <1>3, <1>4

\* A new request has a limit of some tier, and is not minting unless its class
\* has none.
LEMMA RequestKeepsBound ==
    ASSUME OvershootInv, TypeOK', NEW c \in Creators, NEW id \in Ids, Request(c, id)
    PROVE  OvershootInv'
<1>1. PICK caps \in Tiers :
        create' = [create EXCEPT ![c] = [pc |-> IF caps[ClassOf(id)] = 0 THEN "mint" ELSE "count",
                                         id |-> id, limit |-> caps[ClassOf(id)]]]
  BY DEF Request
<1>2. /\ create'[c].pc = IF caps[ClassOf(id)] = 0 THEN "mint" ELSE "count"
      /\ create'[c].id = id
      /\ create'[c].limit = caps[ClassOf(id)]
      /\ \A e \in Creators : e # c => create'[e] = create[e]
  BY <1>1 DEF OvershootInv, TypeOK
<1>3. LimitsKept'
  BY <1>2 DEF OvershootInv, LimitsKept, ClassOf
<1>4. ASSUME NEW k \in Classes, NEW most \in Tiers PROVE Bounded(k, most)'
  <2>1. CASE ~ \A t \in Tiers : t[k] \in 1 .. most[k]
    BY <2>1 DEF Bounded
  <2>2. CASE \A t \in Tiers : t[k] \in 1 .. most[k]
    <3>1. caps[k] # 0
      BY <2>2, TrapsAssumption DEF TrapsAssumption, Caps, Classes
    <3>2. Minting(k)' \subseteq Minting(k)
      BY <1>2, <3>1 DEF Minting, ClassOf
    <3> QED
      BY <3>2, QuietKeepsBound DEF OvershootInv, Request, traps, history
  <2> QED
    BY <2>1, <2>2
<1> QED
  BY <1>3, <1>4 DEF OvershootInv

\* A request that passes its limit found fewer rows than that, and no more
\* requests than there are can be minting.
LEMMA CountKeepsBound ==
    ASSUME OvershootInv, TypeOK', NEW c \in Creators, Count(c)
    PROVE  OvershootInv'
<1>0. TypeOK /\ create[c].pc = "count" /\ unchecked' = unchecked /\ rows' = rows
  BY DEF OvershootInv, Count, traps, history
<1>1. CASE Refuse(c)
  <2>1. create'[c].pc = "idle" /\ \A e \in Creators : e # c => create'[e] = create[e]
    BY <1>0, <1>1, EndsChange DEF Refuse
  <2>2. LimitsKept'
    BY <2>1 DEF OvershootInv, LimitsKept, ClassOf
  <2>3. ASSUME NEW k \in Classes PROVE Minting(k)' \subseteq Minting(k)
    BY <2>1 DEF Minting, ClassOf
  <2> QED
    BY <1>0, <2>2, <2>3, QuietKeepsBound DEF OvershootInv
<1>2. CASE Under(c) /\ Goes(c, "mint")
  <2>1. /\ create'[c].pc = "mint" /\ create'[c].id = create[c].id
        /\ \A e \in Creators : e # c => create'[e] = create[e]
    BY <1>0, <1>2, GoesChange
  <2>2. LimitsKept'
    BY <2>1 DEF OvershootInv, LimitsKept, ClassOf
  <2>3. ASSUME NEW k \in Classes, NEW most \in Tiers PROVE Bounded(k, most)'
    <3>1. CASE ClassOf(create[c].id) # k
      <4>1. Minting(k)' \subseteq Minting(k)
        BY <2>1, <3>1 DEF Minting, ClassOf
      <4> QED
        BY <1>0, <4>1, QuietKeepsBound DEF OvershootInv
    <3>2. CASE ClassOf(create[c].id) = k
      <4> SUFFICES ASSUME \A t \in Tiers : t[k] \in 1 .. most[k]
                   PROVE  Cardinality(rows \cap OfClass(k))' + Cardinality(Minting(k))'
                              <= most[k] + Cardinality(Creators) - 1 + unchecked'
        BY DEF Bounded
      <4>1. PICK t \in Tiers : create[c].limit = t[ClassOf(create[c].id)]
        BY <1>0 DEF OvershootInv, LimitsKept
      <4>2. create[c].limit <= most[k] /\ create[c].limit \in Nat /\ most[k] \in Nat
        BY <3>2, <4>1, TrapsAssumption DEF TrapsAssumption, Caps, Classes
      <4>3. Cardinality(rows \cap OfClass(k)) < create[c].limit
        BY <1>2, <3>2 DEF Under
      <4>4. (rows \cap OfClass(k))' = rows \cap OfClass(k)
        BY <1>0 DEF OfClass, ClassOf
      <4>5. Cardinality(rows \cap OfClass(k)) \in Nat
        BY <1>0, RowsFinite
      <4>6. Minting(k)' \subseteq Creators
        BY DEF Minting
      <4>7. /\ Cardinality(Minting(k)') <= Cardinality(Creators)
            /\ Cardinality(Minting(k)') \in Nat /\ Cardinality(Creators) \in Nat
        BY <4>6, FS_Subset, FS_CardinalityType, TrapsAssumption DEF TrapsAssumption
      <4>8. unchecked \in Nat
        BY <1>0 DEF TypeOK
      <4> QED
        BY <1>0, <4>2, <4>3, <4>4, <4>5, <4>7, <4>8
    <3> QED
      BY <3>1, <3>2
  <2> QED
    BY <2>2, <2>3 DEF OvershootInv
<1> QED
  BY <1>1, <1>2 DEF Count

\* A list that fails lets one more request through and is counted.
LEMMA CountFailsKeepsBound ==
    ASSUME OvershootInv, TypeOK', NEW c \in Creators, CountFails(c)
    PROVE  OvershootInv'
<1>0. TypeOK /\ create[c].pc = "count" /\ unchecked' = unchecked + 1 /\ rows' = rows
  BY DEF OvershootInv, CountFails, traps
<1>1. /\ create'[c].pc = "mint" /\ create'[c].id = create[c].id
      /\ \A e \in Creators : e # c => create'[e] = create[e]
  BY <1>0, GoesChange DEF CountFails
<1>2. LimitsKept'
  BY <1>1 DEF OvershootInv, LimitsKept, ClassOf
<1>3. ASSUME NEW k \in Classes, NEW most \in Tiers PROVE Bounded(k, most)'
  <2>1. (rows \cap OfClass(k))' = rows \cap OfClass(k)
    BY <1>0 DEF OfClass, ClassOf
  <2>2. Minting(k)' \subseteq Minting(k) \cup {c}
    BY <1>0, <1>1, MintingChange
  <2>3. /\ IsFiniteSet(Minting(k) \cup {c})
        /\ Cardinality(Minting(k) \cup {c}) <= Cardinality(Minting(k)) + 1
        /\ Cardinality(Minting(k)) \in Nat /\ Cardinality(Minting(k) \cup {c}) \in Nat
    BY MintersFinite, FS_AddElement, FS_CardinalityType
  <2>4. /\ Cardinality(Minting(k)') <= Cardinality(Minting(k) \cup {c})
        /\ Cardinality(Minting(k)') \in Nat
    BY <2>2, <2>3, FS_Subset, FS_CardinalityType
  <2>5. /\ Cardinality(rows \cap OfClass(k)) \in Nat /\ unchecked \in Nat
        /\ Cardinality(Creators) \in Nat /\ most[k] \in Nat
    BY <1>0, RowsFinite, MintersFinite, TrapsAssumption
    DEF TypeOK, TrapsAssumption, Caps, Classes
  <2>6. Bounded(k, most)
    BY DEF OvershootInv
  <2> QED
    BY <1>0, <2>1, <2>3, <2>4, <2>5, <2>6 DEF Bounded
<1> QED
  BY <1>2, <1>3 DEF OvershootInv

\* A row that is written takes the place of the request that wrote it.
LEMMA MintKeepsBound ==
    ASSUME OvershootInv, TypeOK', NEW c \in Creators, Mint(c)
    PROVE  OvershootInv'
<1>0. /\ TypeOK /\ create[c].pc = "mint" /\ unchecked' = unchecked
      /\ rows' = rows \cup {create[c].id}
  BY DEF OvershootInv, Mint, history
<1>1. /\ create'[c].pc \in {"listen", "target"} /\ create'[c].id = create[c].id
      /\ \A e \in Creators : e # c => create'[e] = create[e]
  BY <1>0, GoesChange DEF Mint
<1>2. LimitsKept'
  BY <1>1 DEF OvershootInv, LimitsKept, ClassOf
<1>3. ASSUME NEW k \in Classes, NEW most \in Tiers PROVE Bounded(k, most)'
  <2>1. Minting(k)' = Minting(k) \ {c}
    BY <1>0, <1>1, MintingChange
  <2>2. /\ Cardinality(rows \cap OfClass(k)) \in Nat /\ unchecked \in Nat
        /\ Cardinality(Creators) \in Nat /\ most[k] \in Nat /\ Cardinality(Minting(k)) \in Nat
        /\ IsFiniteSet(Minting(k)) /\ IsFiniteSet(rows \cap OfClass(k))
    BY <1>0, RowsFinite, MintersFinite, FS_CardinalityType, TrapsAssumption
    DEF TypeOK, TrapsAssumption, Caps, Classes
  <2>3. CASE ClassOf(create[c].id) # k
    <3>1. (rows \cap OfClass(k))' = rows \cap OfClass(k)
      BY <1>0, <2>3 DEF OfClass, ClassOf
    <3>2. Minting(k)' = Minting(k)
      BY <2>1, <2>3 DEF Minting
    <3>3. Bounded(k, most)
      BY DEF OvershootInv
    <3> QED
      BY <1>0, <3>1, <3>2, <3>3 DEF Bounded
  <2>4. CASE ClassOf(create[c].id) = k
    <3>1. (rows \cap OfClass(k))' \subseteq (rows \cap OfClass(k)) \cup {create[c].id}
      BY <1>0 DEF OfClass, ClassOf
    <3>2. /\ IsFiniteSet((rows \cap OfClass(k)) \cup {create[c].id})
          /\ Cardinality((rows \cap OfClass(k)) \cup {create[c].id})
                 \in {Cardinality(rows \cap OfClass(k)), Cardinality(rows \cap OfClass(k)) + 1}
      BY <2>2, FS_AddElement
    <3>3. /\ Cardinality((rows \cap OfClass(k))') <= Cardinality(rows \cap OfClass(k)) + 1
          /\ Cardinality((rows \cap OfClass(k))') \in Nat
      BY <2>2, <3>1, <3>2, FS_Subset, FS_CardinalityType
    <3>4. c \in Minting(k)
      BY <1>0, <2>4 DEF Minting
    <3>5. Cardinality(Minting(k)') = Cardinality(Minting(k)) - 1
      BY <2>1, <2>2, <3>4, FS_RemoveElement
    <3>6. Bounded(k, most)
      BY DEF OvershootInv
    <3> QED
      BY <1>0, <2>2, <3>3, <3>5, <3>6 DEF Bounded
  <2> QED
    BY <2>3, <2>4
<1> QED
  BY <1>2, <1>3 DEF OvershootInv

\* The other steps write no row and let no request through.
LEMMA OtherStepsKeepBound ==
    ASSUME OvershootInv, TypeOK', rows' \subseteq rows, unchecked' = unchecked,
           \A c \in Creators : \/ create'[c] = create[c]
                               \/ create'[c].pc \notin {"count", "mint"}
    PROVE  OvershootInv'
<1>1. LimitsKept'
  BY DEF OvershootInv, LimitsKept, ClassOf
<1>2. \A k \in Classes : Minting(k)' \subseteq Minting(k)
  BY DEF Minting, ClassOf
<1> QED
  BY <1>1, <1>2, QuietKeepsBound DEF OvershootInv

\* Every step keeps the bounds.
LEMMA OvershootStep == OvershootInv /\ [Next]_vars => OvershootInv'
<1> SUFFICES ASSUME OvershootInv, [Next]_vars PROVE OvershootInv'
  OBVIOUS
<1>0. TypeOK /\ TypeOK'
  BY TypeStep DEF OvershootInv
<1>1. ASSUME NEW c \in Creators, NEW id \in Ids, Request(c, id) PROVE OvershootInv'
  BY <1>0, <1>1, RequestKeepsBound
<1>2. ASSUME NEW c \in Creators, Create(c) PROVE OvershootInv'
  <2>1. CASE Count(c) \/ CountFails(c) \/ Mint(c)
    BY <1>0, <2>1, CountKeepsBound, CountFailsKeepsBound, MintKeepsBound
  <2>2. CASE MintFails(c) \/ AddTarget(c) \/ RollBack(c)
    <3>1. create'[c].pc = "idle" /\ \A e \in Creators : e # c => create'[e] = create[e]
      BY <1>0, <2>2, EndsChange DEF MintFails, AddTarget, RollBack
    <3> QED
      BY <1>0, <2>2, <3>1, OtherStepsKeepBound
      DEF MintFails, AddTarget, RollBack, traps, history
  <2>3. CASE Listen(c) \/ Enter(c) \/ ListenFails(c)
    <3>1. /\ create'[c].pc \in {"enter", "target", "undo"}
          /\ \A e \in Creators : e # c => create'[e] = create[e]
      BY <1>0, <2>3, GoesChange DEF Listen, Enter, ListenFails
    <3> QED
      BY <1>0, <2>3, <3>1, OtherStepsKeepBound
      DEF Listen, Enter, ListenFails, traps, history
  <2> QED
    BY <1>2, <2>1, <2>2, <2>3 DEF Create
<1>3. ASSUME NEW d \in Deleters, NEW id \in Ids, Ask(d, id) PROVE OvershootInv'
  BY <1>0, <1>3, OtherStepsKeepBound DEF Ask, traps
<1>4. ASSUME NEW d \in Deleters, Delete(d) PROVE OvershootInv'
  BY <1>0, <1>4, OtherStepsKeepBound
  DEF Delete, TakeListener, CloseListener, RemoveTarget, DeleteRow, history
<1>5. CASE Restart
  BY <1>0, <1>5, OtherStepsKeepBound DEF Restart, IdleCreate, TypeOK
<1>6. CASE Serve
  BY <1>0, <1>6, OtherStepsKeepBound DEF Serve, traps, history
<1>7. ASSUME NEW id \in Ids, Restore(id) PROVE OvershootInv'
  BY <1>0, <1>7, OtherStepsKeepBound DEF Restore
<1>8. CASE UNCHANGED vars
  BY <1>0, <1>8, OtherStepsKeepBound DEF vars, traps, history
<1> QED
  BY <1>1, <1>2, <1>3, <1>4, <1>5, <1>6, <1>7, <1>8 DEF Next

\* The bounds hold at the start.
LEMMA OvershootInit == Init => OvershootInv
<1> SUFFICES ASSUME Init PROVE OvershootInv
  OBVIOUS
<1>1. TypeOK
  BY TypeInit
<1>2. LimitsKept
  BY DEF Init, LimitsKept, IdleCreate
<1>3. ASSUME NEW k \in Classes, NEW most \in Tiers PROVE Bounded(k, most)
  <2>1. rows \cap OfClass(k) = {} /\ Minting(k) = {} /\ unchecked = 0
    BY DEF Init, Minting, IdleCreate
  <2>2. Cardinality({}) = 0
    BY FS_EmptySet
  <2>3. Cardinality(Creators) \in Nat /\ Cardinality(Creators) # 0
    BY FS_EmptySet, FS_CardinalityType, TrapsAssumption DEF TrapsAssumption
  <2>4. most[k] \in Nat
    BY TrapsAssumption DEF TrapsAssumption, Caps, Classes
  <2> QED
    BY <2>1, <2>2, <2>3, <2>4 DEF Bounded
<1> QED
  BY <1>1, <1>2, <1>3 DEF OvershootInv

\* However requests, deletions, changes of the licence, failures and restarts
\* overlap, the rows of a class pass its highest limit by no more than the
\* requests in flight less one and the lists that could not be read.
THEOREM OvershootIsBounded == Spec => []OvershootBounded
<1>1. OvershootInv => OvershootBounded
  <2> SUFFICES ASSUME OvershootInv, NEW k \in Classes, NEW most \in Tiers,
                      \A t \in Tiers : t[k] \in 1 .. most[k]
               PROVE  Cardinality(rows \cap OfClass(k))
                          <= most[k] + Cardinality(Creators) - 1 + unchecked
    BY DEF OvershootBounded
  <2>1. /\ Cardinality(rows \cap OfClass(k)) \in Nat
        /\ Cardinality(Minting(k)) \in Nat
        /\ Cardinality(Creators) \in Nat /\ unchecked \in Nat
    BY RowsFinite, MintersFinite DEF OvershootInv, TypeOK
  <2>2. most[k] \in Nat
    BY TrapsAssumption DEF TrapsAssumption, Caps, Classes
  <2> QED
    BY <2>1, <2>2 DEF OvershootInv, Bounded
<1> QED
  BY <1>1, OvershootInit, OvershootStep, PTL DEF Spec

-----------------------------------------------------------------------------
(* The steps keep the inductive invariant. *)

\* A new request has an id nothing else has.
LEMMA RequestKeeps ==
    ASSUME TrapsInv, TypeOK', NEW c \in Creators, NEW id \in Ids, Request(c, id)
    PROVE  TrapsInv'
<1>0. TypeOK /\ IdsFresh /\ RestoreQuiet /\ CreationSoFar /\ DeletionSoFar
      /\ ListenersClosable /\ LeftBehindInRows /\ TrapsArmed
  BY DEF TrapsInv
<1>1. /\ create[c].pc = "idle" /\ process = "up" /\ id \in Ids \ taken
      /\ create'[c].pc \in {"count", "mint"} /\ create'[c].id = id
      /\ \A e \in Creators : e # c => create'[e] = create[e]
      /\ taken' = taken \cup {id}
      /\ UNCHANGED <<process, restore, rows, targets, bound, known, delete,
                     hurried, halfway, muted>>
  BY <1>0 DEF Request, TypeOK, traps, history
<1>a. IdsFresh'
  BY <1>0, <1>1 DEF IdsFresh, Deleting
<1>b. RestoreQuiet'
  BY <1>0, <1>1 DEF RestoreQuiet
<1>c. CreationSoFar'
  BY <1>0, <1>1 DEF CreationSoFar, IdsFresh, DeletionSoFar, Deleting, Closing, Creating
<1>d. DeletionSoFar'
  BY <1>0, <1>1
  DEF IdsFresh, DeletionSoFar, CreationSoFar, Creating, Closing, ListenersClosable,
      Entering
<1>e. ListenersClosable'
  BY <1>0, <1>1 DEF ListenersClosable, CreationSoFar, DeletionSoFar, Entering, Closing
<1>f. LeftBehindInRows'
  BY <1>0, <1>1 DEF LeftBehindInRows, CreationSoFar, DeletionSoFar, Closing
<1>g. TrapsArmed'
  BY <1>0, <1>1 DEF TrapsArmed, CreationSoFar, IdsFresh, RestoreQuiet, Creating, Deleting
<1> QED
  BY <1>a, <1>b, <1>c, <1>d, <1>e, <1>f, <1>g DEF TrapsInv

\* A request that goes on keeps its id, and one that is refused frees it.
LEMMA CountKeeps ==
    ASSUME TrapsInv, TypeOK', NEW c \in Creators, Count(c) \/ CountFails(c)
    PROVE  TrapsInv'
<1>0. TypeOK /\ IdsFresh /\ RestoreQuiet /\ CreationSoFar /\ DeletionSoFar
      /\ ListenersClosable /\ LeftBehindInRows /\ TrapsArmed
  BY DEF TrapsInv
<1>1. /\ create[c].pc = "count"
      /\ \/ create'[c].pc = "mint" /\ create'[c].id = create[c].id /\ taken' = taken
         \/ create'[c].pc = "idle" /\ taken' = taken \ {create[c].id}
      /\ \A e \in Creators : e # c => create'[e] = create[e]
      /\ UNCHANGED <<process, restore, rows, targets, bound, known, delete,
                     hurried, halfway, muted>>
  BY <1>0, GoesChange, EndsChange DEF Count, CountFails, Refuse, traps, history
<1>a. IdsFresh'
  <2>1. /\ create[c].id \notin rows \cup targets \cup bound
        /\ \A d \in Deleters : delete[d].pc # "idle" => delete[d].id # create[c].id
    BY <1>0, <1>1 DEF IdsFresh, Deleting, CreationSoFar
  <2>2. CASE create'[c].pc = "mint"
    BY <1>0, <1>1, <2>2 DEF IdsFresh, Deleting
  <2>3. CASE create'[c].pc = "idle"
    <3>1. \A e \in Creators : create'[e].pc # "idle" => e # c /\ create'[e] = create[e]
      BY <1>1, <2>3
    <3>2. taken \ {create[c].id} \subseteq taken'
      BY <1>1
    <3> QED
      BY <1>0, <1>1, <2>1, <3>1, <3>2 DEF IdsFresh, Deleting
  <2> QED
    BY <1>1, <2>2, <2>3
<1>b. RestoreQuiet'
  BY <1>0, <1>1 DEF RestoreQuiet
<1>c. CreationSoFar'
  BY <1>0, <1>1 DEF CreationSoFar, IdsFresh, DeletionSoFar, Deleting, Closing, Creating
<1>d. DeletionSoFar'
  BY <1>0, <1>1
  DEF DeletionSoFar, CreationSoFar, Creating, Closing, ListenersClosable, Entering
<1>e. ListenersClosable'
  BY <1>0, <1>1 DEF ListenersClosable, CreationSoFar, DeletionSoFar, Entering, Closing
<1>f. LeftBehindInRows'
  BY <1>0, <1>1 DEF LeftBehindInRows, CreationSoFar, DeletionSoFar, Closing
<1>g. TrapsArmed'
  BY <1>0, <1>1 DEF TrapsArmed, CreationSoFar, IdsFresh, RestoreQuiet, Creating, Deleting
<1> QED
  BY <1>a, <1>b, <1>c, <1>d, <1>e, <1>f, <1>g DEF TrapsInv

\* The row is written, and the honeypot's port comes next.
LEMMA MintKeeps ==
    ASSUME TrapsInv, TypeOK', NEW c \in Creators, Mint(c)
    PROVE  TrapsInv'
<1>0. TypeOK /\ IdsFresh /\ RestoreQuiet /\ CreationSoFar /\ DeletionSoFar
      /\ ListenersClosable /\ LeftBehindInRows /\ TrapsArmed
  BY DEF TrapsInv
<1>1. /\ create[c].pc = "mint" /\ create'[c].id = create[c].id
      /\ create'[c].pc = (IF create[c].id \in Honeypots THEN "listen" ELSE "target")
      /\ \A e \in Creators : e # c => create'[e] = create[e]
      /\ rows' = rows \cup {create[c].id}
      /\ UNCHANGED <<process, restore, targets, bound, known, delete, taken,
                     hurried, halfway, muted>>
  BY <1>0, GoesChange DEF Mint, history
<1>a. IdsFresh'
  BY <1>0, <1>1 DEF IdsFresh, Deleting
<1>b. RestoreQuiet'
  BY <1>0, <1>1 DEF RestoreQuiet
<1>c. CreationSoFar'
  BY <1>0, <1>1 DEF CreationSoFar, IdsFresh, DeletionSoFar, Deleting, Closing, Creating
<1>d. DeletionSoFar'
  BY <1>0, <1>1
  DEF DeletionSoFar, CreationSoFar, Creating, Closing, ListenersClosable, Entering
<1>e. ListenersClosable'
  BY <1>0, <1>1 DEF ListenersClosable, CreationSoFar, DeletionSoFar, Entering, Closing
<1>f. LeftBehindInRows'
  BY <1>0, <1>1 DEF LeftBehindInRows, CreationSoFar, DeletionSoFar, Closing
<1>g. TrapsArmed'
  BY <1>0, <1>1 DEF TrapsArmed, CreationSoFar, IdsFresh, RestoreQuiet, Creating, Deleting
<1> QED
  BY <1>a, <1>b, <1>c, <1>d, <1>e, <1>f, <1>g DEF TrapsInv

\* Nothing was written.
LEMMA MintFailsKeeps ==
    ASSUME TrapsInv, TypeOK', NEW c \in Creators, MintFails(c)
    PROVE  TrapsInv'
<1>0. TypeOK /\ IdsFresh /\ RestoreQuiet /\ CreationSoFar /\ DeletionSoFar
      /\ ListenersClosable /\ LeftBehindInRows /\ TrapsArmed
  BY DEF TrapsInv
<1>1. /\ create[c].pc = "mint" /\ create'[c].pc = "idle"
      /\ \A e \in Creators : e # c => create'[e] = create[e]
      /\ UNCHANGED <<process, restore, rows, targets, bound, known, delete, taken,
                     hurried, halfway, muted>>
  BY <1>0, EndsChange DEF MintFails, traps, history
<1>a. IdsFresh'
  BY <1>0, <1>1 DEF IdsFresh, Deleting
<1>b. RestoreQuiet'
  BY <1>0, <1>1 DEF RestoreQuiet
<1>c. CreationSoFar'
  BY <1>0, <1>1 DEF CreationSoFar, IdsFresh, DeletionSoFar, Deleting, Closing, Creating
<1>d. DeletionSoFar'
  BY <1>0, <1>1
  DEF DeletionSoFar, CreationSoFar, Creating, Closing, ListenersClosable, Entering
<1>e. ListenersClosable'
  BY <1>0, <1>1 DEF ListenersClosable, CreationSoFar, DeletionSoFar, Entering, Closing
<1>f. LeftBehindInRows'
  BY <1>0, <1>1 DEF LeftBehindInRows, CreationSoFar, DeletionSoFar, Closing
<1>g. TrapsArmed'
  BY <1>0, <1>1 DEF TrapsArmed, CreationSoFar, IdsFresh, RestoreQuiet, Creating, Deleting
<1> QED
  BY <1>a, <1>b, <1>c, <1>d, <1>e, <1>f, <1>g DEF TrapsInv

\* Nothing else opens or closes the port of this id.
LEMMA ListenKeeps ==
    ASSUME TrapsInv, TypeOK', NEW c \in Creators, Listen(c)
    PROVE  TrapsInv'
<1>0. TypeOK /\ IdsFresh /\ RestoreQuiet /\ CreationSoFar /\ DeletionSoFar
      /\ ListenersClosable /\ LeftBehindInRows /\ TrapsArmed
  BY DEF TrapsInv
<1>1. /\ create[c].pc = "listen" /\ create'[c].id = create[c].id /\ create'[c].pc = "enter"
      /\ \A e \in Creators : e # c => create'[e] = create[e]
      /\ bound' = bound \cup {create[c].id}
      /\ UNCHANGED <<process, restore, rows, targets, known, delete, taken,
                     hurried, halfway, muted>>
  BY <1>0, GoesChange DEF Listen, history
<1>a. IdsFresh'
  BY <1>0, <1>1 DEF IdsFresh, Deleting
<1>b. RestoreQuiet'
  BY <1>0, <1>1 DEF RestoreQuiet
<1>c. CreationSoFar'
  BY <1>0, <1>1
  DEF ListenersClosable, CreationSoFar, IdsFresh, DeletionSoFar, Deleting, Closing,
      Creating
<1>d. DeletionSoFar'
  BY <1>0, <1>1
  DEF DeletionSoFar, CreationSoFar, Creating, Closing, ListenersClosable, Entering
<1>e. ListenersClosable'
  BY <1>0, <1>1 DEF ListenersClosable, CreationSoFar, DeletionSoFar, Entering, Closing
<1>f. LeftBehindInRows'
  BY <1>0, <1>1 DEF LeftBehindInRows, CreationSoFar, DeletionSoFar, Closing
<1>g. TrapsArmed'
  BY <1>0, <1>1 DEF TrapsArmed, CreationSoFar, IdsFresh, RestoreQuiet, Creating, Deleting
<1> QED
  BY <1>a, <1>b, <1>c, <1>d, <1>e, <1>f, <1>g DEF TrapsInv

\* The port is still open when its listener is entered.
LEMMA EnterKeeps ==
    ASSUME TrapsInv, TypeOK', NEW c \in Creators, Enter(c)
    PROVE  TrapsInv'
<1>0. TypeOK /\ IdsFresh /\ RestoreQuiet /\ CreationSoFar /\ DeletionSoFar
      /\ ListenersClosable /\ LeftBehindInRows /\ TrapsArmed
  BY DEF TrapsInv
<1>1. /\ create[c].pc = "enter" /\ create'[c].id = create[c].id /\ create'[c].pc = "target"
      /\ \A e \in Creators : e # c => create'[e] = create[e]
      /\ known' = known \cup {create[c].id}
      /\ UNCHANGED <<process, restore, rows, targets, bound, delete, taken,
                     hurried, halfway, muted>>
  BY <1>0, GoesChange DEF Enter, history
<1>a. IdsFresh'
  BY <1>0, <1>1 DEF IdsFresh, Deleting
<1>b. RestoreQuiet'
  BY <1>0, <1>1 DEF RestoreQuiet
<1>c. CreationSoFar'
  BY <1>0, <1>1 DEF CreationSoFar, IdsFresh, DeletionSoFar, Deleting, Closing, Creating
<1>d. DeletionSoFar'
  BY <1>0, <1>1
  DEF DeletionSoFar, CreationSoFar, Creating, Closing, ListenersClosable, Entering
<1>e. ListenersClosable'
  BY <1>0, <1>1 DEF ListenersClosable, CreationSoFar, DeletionSoFar, Entering, Closing
<1>f. LeftBehindInRows'
  BY <1>0, <1>1 DEF LeftBehindInRows, CreationSoFar, DeletionSoFar, Closing
<1>g. TrapsArmed'
  BY <1>0, <1>1 DEF TrapsArmed, CreationSoFar, IdsFresh, RestoreQuiet, Creating, Deleting
<1> QED
  BY <1>a, <1>b, <1>c, <1>d, <1>e, <1>f, <1>g DEF TrapsInv

\* The port stays shut, and the row will be taken back.
LEMMA ListenFailsKeeps ==
    ASSUME TrapsInv, TypeOK', NEW c \in Creators, ListenFails(c)
    PROVE  TrapsInv'
<1>0. TypeOK /\ IdsFresh /\ RestoreQuiet /\ CreationSoFar /\ DeletionSoFar
      /\ ListenersClosable /\ LeftBehindInRows /\ TrapsArmed
  BY DEF TrapsInv
<1>1. /\ create[c].pc = "listen" /\ create'[c].id = create[c].id /\ create'[c].pc = "undo"
      /\ \A e \in Creators : e # c => create'[e] = create[e]
      /\ UNCHANGED <<process, restore, rows, targets, bound, known, delete, taken,
                     hurried, halfway, muted>>
  BY <1>0, GoesChange DEF ListenFails, traps, history
<1>a. IdsFresh'
  BY <1>0, <1>1 DEF IdsFresh, Deleting
<1>b. RestoreQuiet'
  BY <1>0, <1>1 DEF RestoreQuiet
<1>c. CreationSoFar'
  BY <1>0, <1>1 DEF CreationSoFar, IdsFresh, DeletionSoFar, Deleting, Closing, Creating
<1>d. DeletionSoFar'
  BY <1>0, <1>1
  DEF DeletionSoFar, CreationSoFar, Creating, Closing, ListenersClosable, Entering
<1>e. ListenersClosable'
  BY <1>0, <1>1 DEF ListenersClosable, CreationSoFar, DeletionSoFar, Entering, Closing
<1>f. LeftBehindInRows'
  BY <1>0, <1>1 DEF LeftBehindInRows, CreationSoFar, DeletionSoFar, Closing
<1>g. TrapsArmed'
  BY <1>0, <1>1 DEF TrapsArmed, CreationSoFar, IdsFresh, RestoreQuiet, Creating, Deleting
<1> QED
  BY <1>a, <1>b, <1>c, <1>d, <1>e, <1>f, <1>g DEF TrapsInv

\* The target is of a row, or of a trap deleted in the making.
LEMMA AddTargetKeeps ==
    ASSUME TrapsInv, TypeOK', NEW c \in Creators, AddTarget(c)
    PROVE  TrapsInv'
<1>0. TypeOK /\ IdsFresh /\ RestoreQuiet /\ CreationSoFar /\ DeletionSoFar
      /\ ListenersClosable /\ LeftBehindInRows /\ TrapsArmed
  BY DEF TrapsInv
<1>1. /\ create[c].pc = "target" /\ create'[c].pc = "idle"
      /\ \A e \in Creators : e # c => create'[e] = create[e]
      /\ targets' = targets \cup {create[c].id}
      /\ UNCHANGED <<process, restore, rows, bound, known, delete, taken,
                     hurried, halfway, muted>>
  BY <1>0, EndsChange DEF AddTarget, history
<1>a. IdsFresh'
  BY <1>0, <1>1 DEF IdsFresh, Deleting
<1>b. RestoreQuiet'
  BY <1>0, <1>1 DEF RestoreQuiet
<1>c. CreationSoFar'
  BY <1>0, <1>1 DEF CreationSoFar, IdsFresh, DeletionSoFar, Deleting, Closing, Creating
<1>d. DeletionSoFar'
  BY <1>0, <1>1
  DEF DeletionSoFar, CreationSoFar, Creating, Closing, ListenersClosable, Entering
<1>e. ListenersClosable'
  BY <1>0, <1>1 DEF ListenersClosable, CreationSoFar, DeletionSoFar, Entering, Closing
<1>f. LeftBehindInRows'
  BY <1>0, <1>1 DEF LeftBehindInRows, CreationSoFar, DeletionSoFar, Closing
<1>g. TrapsArmed'
  BY <1>0, <1>1 DEF TrapsArmed, CreationSoFar, IdsFresh, RestoreQuiet, Creating, Deleting
<1> QED
  BY <1>a, <1>b, <1>c, <1>d, <1>e, <1>f, <1>g DEF TrapsInv

\* The row taken back has neither target nor port.
LEMMA RollBackKeeps ==
    ASSUME TrapsInv, TypeOK', NEW c \in Creators, RollBack(c)
    PROVE  TrapsInv'
<1>0. TypeOK /\ IdsFresh /\ RestoreQuiet /\ CreationSoFar /\ DeletionSoFar
      /\ ListenersClosable /\ LeftBehindInRows /\ TrapsArmed
  BY DEF TrapsInv
<1>1. /\ create[c].pc = "undo" /\ create'[c].pc = "idle"
      /\ \A e \in Creators : e # c => create'[e] = create[e]
      /\ \/ rows' = rows \ {create[c].id} /\ halfway' = halfway
         \/ rows' = rows /\ halfway' = halfway \cup {create[c].id}
      /\ UNCHANGED <<process, restore, targets, bound, known, delete, taken, hurried, muted>>
  BY <1>0, EndsChange DEF RollBack
<1>a. IdsFresh'
  BY <1>0, <1>1 DEF IdsFresh, Deleting
<1>b. RestoreQuiet'
  BY <1>0, <1>1 DEF RestoreQuiet
<1>c. CreationSoFar'
  BY <1>0, <1>1 DEF CreationSoFar, IdsFresh, DeletionSoFar, Deleting, Closing, Creating
<1>d. DeletionSoFar'
  BY <1>0, <1>1
  DEF DeletionSoFar, CreationSoFar, Creating, Closing, ListenersClosable, Entering
<1>e. ListenersClosable'
  BY <1>0, <1>1 DEF ListenersClosable, CreationSoFar, DeletionSoFar, Entering, Closing
<1>f. LeftBehindInRows'
  BY <1>0, <1>1 DEF LeftBehindInRows, CreationSoFar, DeletionSoFar, Closing
<1>g. TrapsArmed'
  BY <1>0, <1>1 DEF TrapsArmed, CreationSoFar, IdsFresh, RestoreQuiet, Creating, Deleting
<1> QED
  BY <1>a, <1>b, <1>c, <1>d, <1>e, <1>f, <1>g DEF TrapsInv

\* A deletion asked for a trap in the making is put on record.
LEMMA AskKeeps ==
    ASSUME TrapsInv, TypeOK', NEW d \in Deleters, NEW id \in Ids, Ask(d, id)
    PROVE  TrapsInv'
<1>0. TypeOK /\ IdsFresh /\ RestoreQuiet /\ CreationSoFar /\ DeletionSoFar
      /\ ListenersClosable /\ LeftBehindInRows /\ TrapsArmed
  BY DEF TrapsInv
<1>1. /\ delete[d].pc = "idle" /\ process = "up" /\ id \in rows
      /\ delete'[d].pc = (IF id \in Honeypots THEN "stop" ELSE "untarget")
      /\ delete'[d].id = id
      /\ \A e \in Deleters : e # d => delete'[e] = delete[e]
      /\ hurried' = IF Creating(id) THEN hurried \cup {id} ELSE hurried
      /\ bound \subseteq Honeypots
      /\ UNCHANGED <<process, restore, rows, targets, bound, known, create, taken,
                     halfway, muted>>
  BY <1>0 DEF Ask, TypeOK, traps
<1>a. IdsFresh'
  BY <1>0, <1>1 DEF IdsFresh, Deleting
<1>b. RestoreQuiet'
  BY <1>0, <1>1 DEF RestoreQuiet
<1>c. CreationSoFar'
  BY <1>0, <1>1 DEF CreationSoFar, IdsFresh, DeletionSoFar, Deleting, Closing, Creating
<1>d. DeletionSoFar'
  BY <1>0, <1>1
  DEF DeletionSoFar, CreationSoFar, Creating, Closing, ListenersClosable, Entering
<1>e. ListenersClosable'
  BY <1>0, <1>1 DEF ListenersClosable, CreationSoFar, DeletionSoFar, Entering, Closing
<1>f. LeftBehindInRows'
  BY <1>0, <1>1 DEF LeftBehindInRows, CreationSoFar, DeletionSoFar, Closing
<1>g. TrapsArmed'
  BY <1>0, <1>1 DEF TrapsArmed, CreationSoFar, IdsFresh, RestoreQuiet, Creating, Deleting
<1> QED
  BY <1>a, <1>b, <1>c, <1>d, <1>e, <1>f, <1>g DEF TrapsInv

\* Only a listener that was entered is closed.
LEMMA TakeListenerKeeps ==
    ASSUME TrapsInv, TypeOK', NEW d \in Deleters, TakeListener(d)
    PROVE  TrapsInv'
<1>0. TypeOK /\ IdsFresh /\ RestoreQuiet /\ CreationSoFar /\ DeletionSoFar
      /\ ListenersClosable /\ LeftBehindInRows /\ TrapsArmed
  BY DEF TrapsInv
<1>1. /\ delete[d].pc = "stop" /\ delete'[d].id = delete[d].id
      /\ delete'[d].pc = (IF delete[d].id \in known THEN "close" ELSE "untarget")
      /\ \A e \in Deleters : e # d => delete'[e] = delete[e]
      /\ known' = known \ {delete[d].id}
      /\ UNCHANGED <<process, restore, rows, targets, bound, create, taken,
                     hurried, halfway, muted>>
  BY <1>0, DeleteChange DEF TakeListener, history
<1>a. IdsFresh'
  BY <1>0, <1>1 DEF IdsFresh, Deleting
<1>b. RestoreQuiet'
  BY <1>0, <1>1 DEF RestoreQuiet
<1>c. CreationSoFar'
  BY <1>0, <1>1
  DEF ListenersClosable, CreationSoFar, IdsFresh, DeletionSoFar, Deleting, Closing,
      Creating
<1>d. DeletionSoFar'
  BY <1>0, <1>1
  DEF DeletionSoFar, CreationSoFar, Creating, Closing, ListenersClosable, Entering
<1>e. ListenersClosable'
  BY <1>0, <1>1 DEF ListenersClosable, CreationSoFar, DeletionSoFar, Entering, Closing
<1>f. LeftBehindInRows'
  BY <1>0, <1>1 DEF LeftBehindInRows, CreationSoFar, DeletionSoFar, Closing
<1>g. TrapsArmed'
  BY <1>0, <1>1 DEF TrapsArmed, CreationSoFar, IdsFresh, RestoreQuiet, Creating, Deleting
<1> QED
  BY <1>a, <1>b, <1>c, <1>d, <1>e, <1>f, <1>g DEF TrapsInv

\* What is closed is known no more.
LEMMA CloseListenerKeeps ==
    ASSUME TrapsInv, TypeOK', NEW d \in Deleters, CloseListener(d)
    PROVE  TrapsInv'
<1>0. TypeOK /\ IdsFresh /\ RestoreQuiet /\ CreationSoFar /\ DeletionSoFar
      /\ ListenersClosable /\ LeftBehindInRows /\ TrapsArmed
  BY DEF TrapsInv
<1>1. /\ delete[d].pc = "close" /\ delete'[d].id = delete[d].id
      /\ delete'[d].pc = "untarget"
      /\ \A e \in Deleters : e # d => delete'[e] = delete[e]
      /\ bound' = bound \ {delete[d].id}
      /\ UNCHANGED <<process, restore, rows, targets, known, create, taken,
                     hurried, halfway, muted>>
  BY <1>0, DeleteChange DEF CloseListener, history
<1>a. IdsFresh'
  BY <1>0, <1>1 DEF IdsFresh, Deleting
<1>b. RestoreQuiet'
  BY <1>0, <1>1 DEF RestoreQuiet
<1>c. CreationSoFar'
  BY <1>0, <1>1 DEF CreationSoFar, IdsFresh, DeletionSoFar, Deleting, Closing, Creating
<1>d. DeletionSoFar'
  BY <1>0, <1>1
  DEF DeletionSoFar, CreationSoFar, Creating, Closing, ListenersClosable, Entering
<1>e. ListenersClosable'
  BY <1>0, <1>1 DEF ListenersClosable, CreationSoFar, DeletionSoFar, Entering, Closing
<1>f. LeftBehindInRows'
  BY <1>0, <1>1 DEF LeftBehindInRows, CreationSoFar, DeletionSoFar, Closing
<1>g. TrapsArmed'
  BY <1>0, <1>1 DEF TrapsArmed, CreationSoFar, IdsFresh, RestoreQuiet, Creating, Deleting
<1> QED
  BY <1>a, <1>b, <1>c, <1>d, <1>e, <1>f, <1>g DEF TrapsInv

\* The trap is in deletion and needs its target no more.
LEMMA RemoveTargetKeeps ==
    ASSUME TrapsInv, TypeOK', NEW d \in Deleters, RemoveTarget(d)
    PROVE  TrapsInv'
<1>0. TypeOK /\ IdsFresh /\ RestoreQuiet /\ CreationSoFar /\ DeletionSoFar
      /\ ListenersClosable /\ LeftBehindInRows /\ TrapsArmed
  BY DEF TrapsInv
<1>1. /\ delete[d].pc = "untarget" /\ delete'[d].id = delete[d].id
      /\ delete'[d].pc = "row"
      /\ \A e \in Deleters : e # d => delete'[e] = delete[e]
      /\ targets' = targets \ {delete[d].id}
      /\ UNCHANGED <<process, restore, rows, bound, known, create, taken,
                     hurried, halfway, muted>>
  BY <1>0, DeleteChange DEF RemoveTarget, history
<1>a. IdsFresh'
  BY <1>0, <1>1 DEF IdsFresh, Deleting
<1>b. RestoreQuiet'
  BY <1>0, <1>1 DEF RestoreQuiet
<1>c. CreationSoFar'
  BY <1>0, <1>1 DEF CreationSoFar, IdsFresh, DeletionSoFar, Deleting, Closing, Creating
<1>d. DeletionSoFar'
  BY <1>0, <1>1
  DEF DeletionSoFar, CreationSoFar, Creating, Closing, ListenersClosable, Entering
<1>e. ListenersClosable'
  BY <1>0, <1>1 DEF ListenersClosable, CreationSoFar, DeletionSoFar, Entering, Closing
<1>f. LeftBehindInRows'
  BY <1>0, <1>1 DEF LeftBehindInRows, CreationSoFar, DeletionSoFar, Closing
<1>g. TrapsArmed'
  BY <1>0, <1>1 DEF TrapsArmed, CreationSoFar, IdsFresh, RestoreQuiet, Creating, Deleting
<1> QED
  BY <1>a, <1>b, <1>c, <1>d, <1>e, <1>f, <1>g DEF TrapsInv

\* The row deleted has neither target nor port, or was in the making.
LEMMA DeleteRowKeeps ==
    ASSUME TrapsInv, TypeOK', NEW d \in Deleters, DeleteRow(d)
    PROVE  TrapsInv'
<1>0. TypeOK /\ IdsFresh /\ RestoreQuiet /\ CreationSoFar /\ DeletionSoFar
      /\ ListenersClosable /\ LeftBehindInRows /\ TrapsArmed
  BY DEF TrapsInv
<1>1. /\ delete[d].pc = "row" /\ delete'[d].pc = "idle"
      /\ \A e \in Deleters : e # d => delete'[e] = delete[e]
      /\ \/ rows' = rows \ {delete[d].id} /\ halfway' = halfway
         \/ rows' = rows /\ halfway' = halfway \cup {delete[d].id}
      /\ UNCHANGED <<process, restore, targets, bound, known, create, taken, hurried, muted>>
  BY <1>0 DEF DeleteRow, TypeOK, IdleDelete
<1>a. IdsFresh'
  BY <1>0, <1>1 DEF IdsFresh, Deleting
<1>b. RestoreQuiet'
  BY <1>0, <1>1 DEF RestoreQuiet
<1>c. CreationSoFar'
  BY <1>0, <1>1 DEF CreationSoFar, IdsFresh, DeletionSoFar, Deleting, Closing, Creating
<1>d. DeletionSoFar'
  BY <1>0, <1>1
  DEF DeletionSoFar, CreationSoFar, Creating, Closing, ListenersClosable, Entering
<1>e. ListenersClosable'
  BY <1>0, <1>1 DEF ListenersClosable, CreationSoFar, DeletionSoFar, Entering, Closing
<1>f. LeftBehindInRows'
  BY <1>0, <1>1 DEF LeftBehindInRows, CreationSoFar, DeletionSoFar, Closing
<1>g. TrapsArmed'
  BY <1>0, <1>1 DEF TrapsArmed, CreationSoFar, IdsFresh, RestoreQuiet, Creating, Deleting
<1> QED
  BY <1>a, <1>b, <1>c, <1>d, <1>e, <1>f, <1>g DEF TrapsInv

\* Nothing is in flight, polled or open after a restart.
LEMMA RestartKeeps ==
    ASSUME TrapsInv, TypeOK', Restart
    PROVE  TrapsInv'
<1>0. TypeOK /\ IdsFresh /\ RestoreQuiet /\ CreationSoFar /\ DeletionSoFar
      /\ ListenersClosable /\ LeftBehindInRows /\ TrapsArmed
  BY DEF TrapsInv
<1>1. /\ \A c \in Creators : create'[c].pc = "idle"
      /\ \A d \in Deleters : delete'[d].pc = "idle"
      /\ process' = "restoring" /\ restore' = rows
      /\ targets' = {} /\ bound' = {} /\ known' = {}
      /\ UNCHANGED <<rows, taken>>
  BY <1>0 DEF Restart, IdleCreate, IdleDelete
<1>a. IdsFresh'
  BY <1>0, <1>1 DEF IdsFresh, Deleting
<1>b. RestoreQuiet'
  BY <1>0, <1>1 DEF RestoreQuiet
<1>c. CreationSoFar'
  BY <1>0, <1>1 DEF CreationSoFar, IdsFresh, DeletionSoFar, Deleting, Closing, Creating
<1>d. DeletionSoFar'
  BY <1>0, <1>1
  DEF DeletionSoFar, CreationSoFar, Creating, Closing, ListenersClosable, Entering
<1>e. ListenersClosable'
  BY <1>0, <1>1 DEF ListenersClosable, CreationSoFar, DeletionSoFar, Entering, Closing
<1>f. LeftBehindInRows'
  BY <1>0, <1>1 DEF LeftBehindInRows, CreationSoFar, DeletionSoFar, Closing
<1>g. TrapsArmed'
  BY <1>0, <1>1 DEF TrapsArmed, CreationSoFar, IdsFresh, RestoreQuiet, Creating, Deleting
<1> QED
  BY <1>a, <1>b, <1>c, <1>d, <1>e, <1>f, <1>g DEF TrapsInv

\* A trap that is restored is armed, or its port could not be opened.
LEMMA RestoreKeeps ==
    ASSUME TrapsInv, TypeOK', NEW id \in Ids, Restore(id)
    PROVE  TrapsInv'
<1>0. TypeOK /\ IdsFresh /\ RestoreQuiet /\ CreationSoFar /\ DeletionSoFar
      /\ ListenersClosable /\ LeftBehindInRows /\ TrapsArmed
  BY DEF TrapsInv
<1>1. /\ process = "restoring" /\ id \in restore /\ restore' = restore \ {id}
      /\ targets' = targets \cup {id}
      /\ \/ bound' = bound /\ known' = known /\ muted' = muted /\ id \notin Honeypots
         \/ bound' = bound \cup {id} /\ known' = known \cup {id} /\ muted' = muted
         \/ bound' = bound /\ known' = known /\ muted' = muted \cup {id}
      /\ UNCHANGED <<process, rows, create, delete, taken, hurried, halfway>>
  BY <1>0 DEF Restore
<1>a. IdsFresh'
  BY <1>0, <1>1 DEF RestoreQuiet, IdsFresh, Deleting
<1>b. RestoreQuiet'
  BY <1>0, <1>1 DEF RestoreQuiet
<1>c. CreationSoFar'
  BY <1>0, <1>1
  DEF RestoreQuiet, CreationSoFar, IdsFresh, DeletionSoFar, Deleting, Closing, Creating
<1>d. DeletionSoFar'
  BY <1>0, <1>1
  DEF RestoreQuiet, DeletionSoFar, CreationSoFar, Creating, Closing, ListenersClosable,
      Entering
<1>e. ListenersClosable'
  BY <1>0, <1>1 DEF ListenersClosable, CreationSoFar, DeletionSoFar, Entering, Closing
<1>f. LeftBehindInRows'
  BY <1>0, <1>1 DEF RestoreQuiet, LeftBehindInRows, CreationSoFar, DeletionSoFar, Closing
<1>g. TrapsArmed'
  BY <1>0, <1>1 DEF TrapsArmed, CreationSoFar, IdsFresh, RestoreQuiet, Creating, Deleting
<1> QED
  BY <1>a, <1>b, <1>c, <1>d, <1>e, <1>f, <1>g DEF TrapsInv

\* When everything is restored, everything in the table is armed.
LEMMA ServeKeeps ==
    ASSUME TrapsInv, TypeOK', Serve
    PROVE  TrapsInv'
<1>0. TypeOK /\ IdsFresh /\ RestoreQuiet /\ CreationSoFar /\ DeletionSoFar
      /\ ListenersClosable /\ LeftBehindInRows /\ TrapsArmed
  BY DEF TrapsInv
<1>1. /\ process = "restoring" /\ restore = {} /\ process' = "up"
      /\ UNCHANGED <<restore, rows, targets, bound, known, create, delete, taken,
                     hurried, halfway, muted>>
  BY <1>0 DEF Serve, traps, history
<1>a. IdsFresh'
  BY <1>0, <1>1 DEF IdsFresh, Deleting
<1>b. RestoreQuiet'
  BY <1>0, <1>1 DEF RestoreQuiet
<1>c. CreationSoFar'
  BY <1>0, <1>1 DEF CreationSoFar, IdsFresh, DeletionSoFar, Deleting, Closing, Creating
<1>d. DeletionSoFar'
  BY <1>0, <1>1
  DEF DeletionSoFar, CreationSoFar, Creating, Closing, ListenersClosable, Entering
<1>e. ListenersClosable'
  BY <1>0, <1>1 DEF ListenersClosable, CreationSoFar, DeletionSoFar, Entering, Closing
<1>f. LeftBehindInRows'
  BY <1>0, <1>1 DEF LeftBehindInRows, CreationSoFar, DeletionSoFar, Closing
<1>g. TrapsArmed'
  BY <1>0, <1>1 DEF TrapsArmed, CreationSoFar, IdsFresh, RestoreQuiet, Creating, Deleting
<1> QED
  BY <1>a, <1>b, <1>c, <1>d, <1>e, <1>f, <1>g DEF TrapsInv

\* A stutter.
LEMMA StutterKeeps ==
    ASSUME TrapsInv, TypeOK', UNCHANGED vars
    PROVE  TrapsInv'
<1>0. TypeOK /\ IdsFresh /\ RestoreQuiet /\ CreationSoFar /\ DeletionSoFar
      /\ ListenersClosable /\ LeftBehindInRows /\ TrapsArmed
  BY DEF TrapsInv
<1>1. UNCHANGED <<process, restore, rows, targets, bound, known, create, delete, taken,
                   hurried, halfway, muted>>
  BY <1>0 DEF vars, traps, history
<1>a. IdsFresh'
  BY <1>0, <1>1 DEF IdsFresh, Deleting
<1>b. RestoreQuiet'
  BY <1>0, <1>1 DEF RestoreQuiet
<1>c. CreationSoFar'
  BY <1>0, <1>1 DEF CreationSoFar, IdsFresh, DeletionSoFar, Deleting, Closing, Creating
<1>d. DeletionSoFar'
  BY <1>0, <1>1
  DEF DeletionSoFar, CreationSoFar, Creating, Closing, ListenersClosable, Entering
<1>e. ListenersClosable'
  BY <1>0, <1>1 DEF ListenersClosable, CreationSoFar, DeletionSoFar, Entering, Closing
<1>f. LeftBehindInRows'
  BY <1>0, <1>1 DEF LeftBehindInRows, CreationSoFar, DeletionSoFar, Closing
<1>g. TrapsArmed'
  BY <1>0, <1>1 DEF TrapsArmed, CreationSoFar, IdsFresh, RestoreQuiet, Creating, Deleting
<1> QED
  BY <1>a, <1>b, <1>c, <1>d, <1>e, <1>f, <1>g DEF TrapsInv

\* The inductive invariant holds at the start.
LEMMA TrapsInit == Init => TrapsInv
BY TypeInit DEF Init, TrapsInv, IdsFresh, RestoreQuiet, CreationSoFar, DeletionSoFar,
    ListenersClosable, LeftBehindInRows, TrapsArmed, IdleCreate, IdleDelete

\* Every step keeps the inductive invariant.
LEMMA TrapsStep == TrapsInv /\ [Next]_vars => TrapsInv'
<1> SUFFICES ASSUME TrapsInv, [Next]_vars PROVE TrapsInv'
  OBVIOUS
<1>0. TypeOK'
  BY TypeStep DEF TrapsInv
<1>1. ASSUME NEW c \in Creators, NEW id \in Ids, Request(c, id) PROVE TrapsInv'
  BY <1>0, <1>1, RequestKeeps
<1>2. ASSUME NEW c \in Creators, Create(c) PROVE TrapsInv'
  BY <1>0, <1>2, CountKeeps, MintKeeps, MintFailsKeeps, ListenKeeps, EnterKeeps,
     ListenFailsKeeps, AddTargetKeeps, RollBackKeeps DEF Create
<1>3. ASSUME NEW d \in Deleters, NEW id \in Ids, Ask(d, id) PROVE TrapsInv'
  BY <1>0, <1>3, AskKeeps
<1>4. ASSUME NEW d \in Deleters, Delete(d) PROVE TrapsInv'
  BY <1>0, <1>4, TakeListenerKeeps, CloseListenerKeeps, RemoveTargetKeeps, DeleteRowKeeps
  DEF Delete
<1>5. CASE Restart
  BY <1>0, <1>5, RestartKeeps
<1>6. CASE Serve
  BY <1>0, <1>6, ServeKeeps
<1>7. ASSUME NEW id \in Ids, Restore(id) PROVE TrapsInv'
  BY <1>0, <1>7, RestoreKeeps
<1>8. CASE UNCHANGED vars
  BY <1>0, <1>8, StutterKeeps
<1> QED
  BY <1>1, <1>2, <1>3, <1>4, <1>5, <1>6, <1>7, <1>8 DEF Next

\* Whatever requests and deletions overlap, fail or are cut off by a restart,
\* what is polled or listens is in the table, or was deleted in the making.
THEOREM NothingIsLeftBehind == Spec => []NothingLeftBehind
<1>1. TrapsInv => NothingLeftBehind
  BY DEF TrapsInv, LeftBehindInRows, NothingLeftBehind
<1> QED
  BY <1>1, TrapsInit, TrapsStep, PTL DEF Spec

\* No listener is lost: each is known to the supervisor or about to be entered
\* or closed.
THEOREM ListenersStayClosable == Spec => []ListenersClosable
<1>1. TrapsInv => ListenersClosable
  BY DEF TrapsInv
<1> QED
  BY <1>1, TrapsInit, TrapsStep, PTL DEF Spec

\* What the table says is armed is, before and after restarts.
THEOREM TrapsStayArmed == Spec => []TrapsArmed
<1>1. TrapsInv => TrapsArmed
  BY DEF TrapsInv
<1> QED
  BY <1>1, TrapsInit, TrapsStep, PTL DEF Spec
=============================================================================
