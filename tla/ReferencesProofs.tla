--------------------------- MODULE ReferencesProofs ---------------------------
(***************************************************************************)
(* What holds of Tables after any sequence of calls, of DNSMessage for     *)
(* queries of any length, of Narration for answers of any length after any *)
(* number of attempts, of Channels for digests of any size, and of         *)
(* Redaction for evidence nested to any depth.                             *)
(*                                                                         *)
(* The targets are the hard half of Tables.  SQLite lists them by rowid,   *)
(* and the rowids in use have gaps and are used again.  A finite set of    *)
(* naturals has one increasing enumeration (Enumerates), so whoever can    *)
(* name one knows the listing.                                             *)
(*                                                                         *)
(* The walks of a DNS name are recursive functions of positions.  What     *)
(* they compute is shown by the least or the greatest position for which   *)
(* it would be wrong (Extremes).  So are the attempts at an answer; its    *)
(* guards are filters, of which two in a row are one (ListedTwice).        *)
(*                                                                         *)
(* The sort of a digest gives each finding a place, and the places follow  *)
(* severity and arrival (IsSort); its stream is the lines, each between    *)
(* what was written before and after it (Written), so the ends that a      *)
(* collector finds are those of the lines (CollectedFacts).                *)
(*                                                                         *)
(* What leaves of evidence is followed level by level: each part of it is  *)
(* a clean string or what left of a part of the evidence that is as deep   *)
(* (LevelsLeave).                                                          *)
(***************************************************************************)
EXTENDS Tables, DNSMessage, Narration, Channels, Redaction, FiniteSetTheorems, SequenceTheorems, TLAPS

-----------------------------------------------------------------------------
(* The places of a set of naturals. *)

\* A member has a place among them, after those of the members below it.
LEMMA PlaceType ==
    ASSUME NEW ids \in SUBSET Nat, IsFiniteSet(ids), NEW id \in ids
    PROVE  Place(ids, id) \in 1 .. Cardinality(ids)
<1> DEFINE below == {other \in ids : other <= id}
<1>1. below \in SUBSET ids /\ id \in below
  OBVIOUS
<1>2. IsFiniteSet(below) /\ Cardinality(below) <= Cardinality(ids)
  BY <1>1, FS_Subset
<1>3. Cardinality(below) # 0
  BY <1>1, <1>2, FS_EmptySet
<1> QED BY <1>2, <1>3, FS_CardinalityType DEF Place

\* Places come in the order of the members.
LEMMA PlaceGrows ==
    ASSUME NEW ids \in SUBSET Nat, IsFiniteSet(ids), NEW i \in ids, NEW j \in ids, i < j
    PROVE  Place(ids, i) < Place(ids, j)
<1> DEFINE fewer == {other \in ids : other <= i}
           more == {other \in ids : other <= j}
<1>1. fewer \in SUBSET more /\ fewer # more
  <2>1. j \in more /\ j \notin fewer
    OBVIOUS
  <2>2. \A k \in ids : k <= i => k <= j
    OBVIOUS
  <2> QED BY <2>1, <2>2
<1>2. IsFiniteSet(more)
  BY FS_Subset
<1> HIDE DEF fewer, more
<1>3. IsFiniteSet(fewer) /\ Cardinality(fewer) <= Cardinality(more)
      /\ (Cardinality(more) = Cardinality(fewer) => more = fewer)
  BY <1>1, <1>2, FS_Subset
<1>4. Cardinality(fewer) < Cardinality(more)
  BY <1>1, <1>2, <1>3, FS_CardinalityType
<1> USE DEF fewer, more
<1> QED BY <1>4 DEF Place

\* Every place is taken.
LEMMA PlaceOnto ==
    ASSUME NEW ids \in SUBSET Nat, IsFiniteSet(ids), NEW i \in 1 .. Cardinality(ids)
    PROVE  \E id \in ids : Place(ids, id) = i
<1> DEFINE place == [id \in ids |-> Place(ids, id)]
           all == 1 .. Cardinality(ids)
<1>1. Cardinality(ids) \in Nat
  BY FS_CardinalityType
<1>2. IsFiniteSet(all) /\ Cardinality(all) = Cardinality(ids)
  BY <1>1, FS_Interval
<1>3. place \in [ids -> all]
  BY PlaceType
<1>4. \A a, b \in ids : place[a] = place[b] => a = b
  <2> SUFFICES ASSUME NEW a \in ids, NEW b \in ids, Place(ids, a) = Place(ids, b) PROVE a = b
    OBVIOUS
  <2>1. ~(a < b) /\ ~(b < a)
    BY PlaceGrows, PlaceType, <1>1
  <2> QED BY <2>1
<1>5. place \in Injection(ids, all)
  BY <1>3, <1>4 DEF Injection, IsInjective
<1>6. place \in Surjection(ids, all)
  BY <1>2, <1>5, FS_Injection
<1> QED BY <1>6 DEF Surjection

\* Nth and Place undo each other.
LEMMA NthFacts ==
    ASSUME NEW ids \in SUBSET Nat, IsFiniteSet(ids)
    PROVE  /\ \A i \in 1 .. Cardinality(ids) : Nth(ids, i) \in ids /\ Place(ids, Nth(ids, i)) = i
           /\ \A id \in ids : Nth(ids, Place(ids, id)) = id
           /\ \A i, j \in 1 .. Cardinality(ids) : i < j => Nth(ids, i) < Nth(ids, j)
<1>1. ASSUME NEW i \in 1 .. Cardinality(ids) PROVE Nth(ids, i) \in ids /\ Place(ids, Nth(ids, i)) = i
  BY PlaceOnto DEF Nth
<1>2. ASSUME NEW id \in ids PROVE Nth(ids, Place(ids, id)) = id
  <2> DEFINE other == Nth(ids, Place(ids, id))
  <2>1. other \in ids /\ Place(ids, other) = Place(ids, id)
    BY <1>1, PlaceType
  <2> HIDE DEF other
  <2>2. Place(ids, id) \in Int
    BY PlaceType, FS_CardinalityType
  <2>3. ~(other < id) /\ ~(id < other)
    BY <2>1, <2>2, PlaceGrows
  <2>4. other \in Nat /\ id \in Nat
    BY <2>1
  <2> QED BY <2>3, <2>4 DEF other
<1>3. ASSUME NEW i \in 1 .. Cardinality(ids), NEW j \in 1 .. Cardinality(ids), i < j
      PROVE  Nth(ids, i) < Nth(ids, j)
  <2>1. /\ Nth(ids, i) \in ids /\ Place(ids, Nth(ids, i)) = i
        /\ Nth(ids, j) \in ids /\ Place(ids, Nth(ids, j)) = j
    BY <1>1
  <2>2. i \in Int /\ j \in Int /\ ~(j < i) /\ i # j
    BY <1>3, FS_CardinalityType
  <2>3. ~(Nth(ids, j) < Nth(ids, i)) /\ Nth(ids, i) # Nth(ids, j)
    BY <2>1, <2>2, PlaceGrows
  <2>4. Nth(ids, i) \in Nat /\ Nth(ids, j) \in Nat
    BY <2>1
  <2> QED BY <2>3, <2>4
<1> QED BY <1>1, <1>2, <1>3

\* A finite set of naturals has one increasing enumeration.
LEMMA Enumerates ==
    ASSUME NEW ids \in SUBSET Nat, IsFiniteSet(ids), NEW n \in Nat, NEW f \in [1 .. n -> ids],
           \A i, j \in 1 .. n : i < j => f[i] < f[j],
           \A id \in ids : \E i \in 1 .. n : f[i] = id
    PROVE  /\ Cardinality(ids) = n
           /\ \A i \in 1 .. n : Nth(ids, i) = f[i]
<1>1. \A i, j \in 1 .. n : f[i] = f[j] => i = j
  <2> SUFFICES ASSUME NEW i \in 1 .. n, NEW j \in 1 .. n, f[i] = f[j] PROVE i = j
    OBVIOUS
  <2>1. f[i] \in Nat /\ f[j] \in Nat
    OBVIOUS
  <2>2. ~(i < j) /\ ~(j < i)
    BY <2>1
  <2> QED BY <2>2
<1>2. f \in Bijection(1 .. n, ids)
  BY <1>1 DEF Bijection, Injection, Surjection, IsInjective
<1>3. Cardinality(ids) = n
  BY <1>2, FS_Interval, FS_Bijection DEF ExistsBijection
<1>4. ASSUME NEW i \in 1 .. n PROVE Place(ids, f[i]) = i
  <2> DEFINE below == {other \in ids : other <= f[i]}
             g == [k \in 1 .. i |-> f[k]]
  <2>1. g \in [1 .. i -> below]
    <3> SUFFICES ASSUME NEW k \in 1 .. i PROVE f[k] \in ids /\ f[k] <= f[i]
      OBVIOUS
    <3>1. k \in 1 .. n /\ (k < i \/ k = i)
      OBVIOUS
    <3>2. f[k] \in ids /\ f[i] \in ids
      BY <3>1
    <3>3. f[k] \in Nat /\ f[i] \in Nat
      BY <3>2
    <3> QED BY <3>1, <3>2, <3>3
  <2>2. \A k, l \in 1 .. i : g[k] = g[l] => k = l
    BY <1>1
  <2>3. ASSUME NEW id \in below PROVE \E k \in 1 .. i : g[k] = id
    <3>1. PICK k \in 1 .. n : f[k] = id
      OBVIOUS
    <3>2. ~(i < k)
      <4>1. i < k => f[i] < id
        BY <3>1
      <4>2. f[i] \in Nat /\ id \in Nat /\ id <= f[i]
        OBVIOUS
      <4> QED BY <4>1, <4>2
    <3> QED BY <3>1, <3>2
  <2>4. g \in Bijection(1 .. i, below)
    BY <2>1, <2>2, <2>3 DEF Bijection, Injection, Surjection, IsInjective
  <2>5. Cardinality(below) = i
    BY <2>4, FS_Interval, FS_Bijection DEF ExistsBijection
  <2> QED BY <2>5 DEF Place
<1>5. ASSUME NEW i \in 1 .. n PROVE Nth(ids, i) = f[i]
  <2>1. f[i] \in ids
    OBVIOUS
  <2>2. Nth(ids, Place(ids, f[i])) = f[i]
    BY <2>1, NthFacts
  <2> QED BY <1>4, <2>2
<1> QED BY <1>3, <1>5

-----------------------------------------------------------------------------
(* The tables. *)

\* The rowid of a new row is after all others.
LEMMA NextRowidIsLast ==
    ASSUME NEW table, IsTable(table)
    PROVE  NextRowid(table) \in Nat /\ \A id \in DOMAIN table : id < NextRowid(table)
<1> DEFINE ids == DOMAIN table
           n == Cardinality(ids)
<1>1. CASE ids = {}
  BY <1>1 DEF NextRowid
<1>2. CASE ids # {}
  <2>1. ids \in SUBSET Nat /\ IsFiniteSet(ids) /\ n \in Nat
    BY FS_CardinalityType DEF IsTable
  <2>2. n \in 1 .. n
    BY <1>2, <2>1, FS_EmptySet
  <2>3. Nth(ids, n) \in ids /\ Place(ids, Nth(ids, n)) = n
    BY <2>1, <2>2, NthFacts
  <2>4. ASSUME NEW id \in ids PROVE Nth(ids, n) >= id
    <3>1. ~(Nth(ids, n) < id)
      <4>1. Place(ids, id) \in 1 .. n
        BY <2>1, PlaceType
      <4> QED BY <2>1, <2>3, <4>1, PlaceGrows
    <3>2. Nth(ids, n) \in Nat /\ id \in Nat
      BY <2>1, <2>3
    <3> QED BY <3>1, <3>2
  <2>5. Max(ids) \in ids /\ \A id \in ids : Max(ids) >= id
    BY <2>3, <2>4 DEF Max
  <2>6. Max(ids) \in Nat
    BY <2>1, <2>5
  <2>7. NextRowid(table) = Max(ids) + 1
    BY <1>2 DEF NextRowid
  <2> QED BY <2>1, <2>5, <2>6, <2>7
<1> QED BY <1>1, <1>2

\* A new row is a row more.
LEMMA InsertRows ==
    ASSUME NEW table, IsTable(table), NEW row
    PROVE  /\ IsTable(Insert(table, row))
           /\ Rows(Insert(table, row)) = Rows(table) \cup {row}
<1> DEFINE new == NextRowid(table)
<1>1. new \in Nat /\ new \notin DOMAIN table
  BY NextRowidIsLast DEF IsTable
<1>2. /\ Insert(table, row) = [id \in DOMAIN table \cup {new} |-> IF id = new THEN row ELSE table[id]]
      /\ DOMAIN Insert(table, row) = DOMAIN table \cup {new}
  BY DEF Insert, Put
<1>3. IsFiniteSet(DOMAIN table \cup {new})
  BY FS_AddElement DEF IsTable
<1>4. IsTable(Insert(table, row))
  BY <1>1, <1>2, <1>3 DEF IsTable
<1>5. Rows(Insert(table, row)) = Rows(table) \cup {row}
  BY <1>1, <1>2 DEF Rows
<1> QED BY <1>4, <1>5

\* Deleting rows deletes these and no others.
LEMMA DeleteRows ==
    ASSUME NEW table, IsTable(table), NEW gone
    PROVE  /\ IsTable(Delete(table, gone))
           /\ Rows(Delete(table, gone)) = Rows(table) \ gone
<1> DEFINE left == {id \in DOMAIN table : table[id] \notin gone}
<1>1. Delete(table, gone) = [id \in left |-> table[id]] /\ DOMAIN Delete(table, gone) = left
  BY DEF Delete
<1>2. IsFiniteSet(left)
  BY FS_Subset DEF IsTable
<1>3. IsTable(Delete(table, gone))
  BY <1>1, <1>2 DEF IsTable
<1> QED BY <1>1, <1>3 DEF Rows

\* What is appended comes last.
LEMMA AppendedLast ==
    ASSUME NEW S, NEW s \in Seq(S), NEW e
    PROVE  Append(s, e) = [i \in 1 .. Len(s) + 1 |-> IF i = Len(s) + 1 THEN e ELSE s[i]]
<1> DEFINE T == S \cup {e}
           t == [i \in 1 .. Len(s) + 1 |-> IF i = Len(s) + 1 THEN e ELSE s[i]]
<1>1. s \in Seq(T) /\ e \in T
  BY SeqMonotonic
<1>2. /\ Append(s, e) \in Seq(T) /\ Len(Append(s, e)) = Len(s) + 1
      /\ \A i \in 1 .. Len(s) + 1 : Append(s, e)[i] = IF i = Len(s) + 1 THEN e ELSE s[i]
  BY <1>1, AppendProperties
<1>3. t \in Seq(T) /\ Len(t) = Len(s) + 1
  BY <1>1
<1> QED BY <1>2, <1>3, SeqEqual

\* The listing of a table is a sequence of its rows.
LEMMA ListingType ==
    ASSUME NEW table, IsTable(table)
    PROVE  /\ InOrder(table) \in [1 .. Cardinality(DOMAIN table) -> Rows(table)]
           /\ Cardinality(DOMAIN table) \in Nat
           /\ ToSet(InOrder(table)) = Rows(table)
<1> DEFINE ids == DOMAIN table
<1>1. ids \in SUBSET Nat /\ IsFiniteSet(ids)
  BY DEF IsTable
<1>2. \A i \in 1 .. Cardinality(ids) : Nth(ids, i) \in ids
  BY <1>1, NthFacts
<1>3. InOrder(table) = [i \in 1 .. Cardinality(ids) |-> table[Nth(ids, i)]]
  BY DEF InOrder, Listed
<1>4. \A id \in ids : Place(ids, id) \in 1 .. Cardinality(ids) /\ Nth(ids, Place(ids, id)) = id
  BY <1>1, PlaceType, NthFacts
<1>5. InOrder(table) \in [1 .. Cardinality(ids) -> Rows(table)]
  BY <1>2, <1>3 DEF Rows
<1>6. ToSet(InOrder(table)) = Rows(table)
  <2>1. ASSUME NEW id \in ids PROVE table[id] \in ToSet(InOrder(table))
    BY <1>3, <1>4 DEF ToSet
  <2>2. ToSet(InOrder(table)) \subseteq Rows(table)
    BY <1>5 DEF ToSet
  <2> QED BY <2>1, <2>2 DEF Rows
<1> QED BY <1>1, <1>5, <1>6, FS_CardinalityType

\* A new row is listed last.
LEMMA InsertIsListedLast ==
    ASSUME NEW table, IsTable(table), NEW row
    PROVE  InOrder(Insert(table, row)) = Append(InOrder(table), row)
<1> DEFINE ids == DOMAIN table
           n == Cardinality(ids)
           new == NextRowid(table)
           all == ids \cup {new}
           f == [i \in 1 .. n + 1 |-> IF i = n + 1 THEN new ELSE Nth(ids, i)]
<1>1. ids \in SUBSET Nat /\ IsFiniteSet(ids) /\ n \in Nat
  BY FS_CardinalityType DEF IsTable
<1>2. new \in Nat /\ \A id \in ids : id < new
  BY NextRowidIsLast
<1>3. all \in SUBSET Nat /\ IsFiniteSet(all)
  BY <1>1, <1>2, FS_AddElement
<1>4. /\ \A i \in 1 .. n : Nth(ids, i) \in ids
      /\ \A i, j \in 1 .. n : i < j => Nth(ids, i) < Nth(ids, j)
  BY <1>1, NthFacts
<1> HIDE DEF ids, n, new
<1>5. \A i \in 1 .. n + 1 : i = n + 1 \/ i \in 1 .. n
  BY <1>1
<1>6. f \in [1 .. n + 1 -> all]
  BY <1>4, <1>5
<1>7. \A i, j \in 1 .. n + 1 : i < j => f[i] < f[j]
  <2> SUFFICES ASSUME NEW i \in 1 .. n + 1, NEW j \in 1 .. n + 1, i < j PROVE f[i] < f[j]
    OBVIOUS
  <2>1. i \in 1 .. n /\ f[i] = Nth(ids, i)
    BY <1>1
  <2>2. CASE j = n + 1
    BY <1>1, <1>2, <1>4, <2>1, <2>2
  <2>3. CASE j \in 1 .. n
    BY <1>1, <1>4, <2>1, <2>3
  <2> QED BY <1>5, <2>2, <2>3
<1>8. \A id \in all : \E i \in 1 .. n + 1 : f[i] = id
  <2>1. f[n + 1] = new /\ n + 1 \in 1 .. n + 1
    BY <1>1
  <2>2. ASSUME NEW id \in ids PROVE \E i \in 1 .. n + 1 : f[i] = id
    <3>1. Place(ids, id) \in 1 .. n /\ Nth(ids, Place(ids, id)) = id
      BY <1>1, PlaceType, NthFacts DEF n
    <3>2. Place(ids, id) \in 1 .. n + 1 /\ Place(ids, id) # n + 1
      BY <1>1, <3>1
    <3> QED BY <3>1, <3>2
  <2> QED BY <2>1, <2>2
<1>9. Cardinality(all) = n + 1 /\ \A i \in 1 .. n + 1 : Nth(all, i) = f[i]
  <2> HIDE DEF f, all
  <2> QED BY <1>1, <1>3, <1>6, <1>7, <1>8, Enumerates
<1>10. /\ Insert(table, row) = [id \in all |-> IF id = new THEN row ELSE table[id]]
       /\ DOMAIN Insert(table, row) = all
  BY DEF Insert, Put, new, ids
<1>11. InOrder(Insert(table, row)) =
          [i \in 1 .. n + 1 |-> IF i = n + 1 THEN row ELSE table[Nth(ids, i)]]
  <2>1. InOrder(Insert(table, row)) = [i \in 1 .. n + 1 |-> Insert(table, row)[Nth(all, i)]]
    BY <1>9, <1>10 DEF InOrder, Listed
  <2>2. ASSUME NEW i \in 1 .. n + 1
        PROVE  Insert(table, row)[Nth(all, i)] = IF i = n + 1 THEN row ELSE table[Nth(ids, i)]
    <3>1. CASE i = n + 1
      BY <1>9, <1>10, <3>1
    <3>2. CASE i # n + 1
      <4>1. Nth(all, i) = Nth(ids, i) /\ Nth(ids, i) \in ids /\ Nth(ids, i) \in Nat
        BY <1>1, <1>4, <1>5, <1>9, <3>2
      <4>2. Nth(ids, i) # new
        BY <1>2, <4>1
      <4> QED BY <1>10, <3>2, <4>1, <4>2
    <3> QED BY <3>1, <3>2
  <2> QED BY <2>1, <2>2
<1>12. InOrder(table) = [i \in 1 .. n |-> table[Nth(ids, i)]]
  BY DEF InOrder, Listed, n, ids
<1>13. InOrder(table) \in Seq(Rows(table)) /\ Len(InOrder(table)) = n
  BY <1>1, <1>12, ListingType DEF n, ids
<1>14. Append(InOrder(table), row) = [i \in 1 .. n + 1 |-> IF i = n + 1 THEN row ELSE InOrder(table)[i]]
  BY <1>13, AppendedLast
<1> QED BY <1>1, <1>11, <1>12, <1>14

\* Deleting rows leaves the listing of the others as it was.
LEMMA DeleteKeepsOrder ==
    ASSUME NEW table, IsTable(table), NEW gone
    PROVE  LET list == InOrder(table)
           IN  InOrder(Delete(table, gone)) = Listed(list, {i \in DOMAIN list : list[i] \notin gone})
<1> DEFINE ids == DOMAIN table
           n == Cardinality(ids)
           left == {id \in ids : table[id] \notin gone}
           list == InOrder(table)
           kept == {i \in 1 .. n : table[Nth(ids, i)] \notin gone}
           m == Cardinality(kept)
           f == [i \in 1 .. m |-> Nth(ids, Nth(kept, i))]
<1>1. ids \in SUBSET Nat /\ IsFiniteSet(ids) /\ n \in Nat
  BY FS_CardinalityType DEF IsTable
<1>2. left \in SUBSET Nat /\ IsFiniteSet(left)
  BY <1>1, FS_Subset
<1>3. kept \in SUBSET Nat /\ IsFiniteSet(kept) /\ m \in Nat
  <2>1. kept \in SUBSET (1 .. n) /\ IsFiniteSet(1 .. n)
    BY <1>1, FS_Interval
  <2>2. 1 .. n \subseteq Nat
    BY <1>1
  <2> HIDE DEF kept
  <2>3. IsFiniteSet(kept)
    BY <2>1, FS_Subset
  <2> QED BY <2>1, <2>2, <2>3, FS_CardinalityType
<1>4. /\ \A i \in 1 .. n : Nth(ids, i) \in ids
      /\ \A i, j \in 1 .. n : i < j => Nth(ids, i) < Nth(ids, j)
      /\ \A id \in ids : Place(ids, id) \in 1 .. n /\ Nth(ids, Place(ids, id)) = id
  BY <1>1, NthFacts, PlaceType
<1>5. /\ \A i \in 1 .. m : Nth(kept, i) \in kept
      /\ \A i, j \in 1 .. m : i < j => Nth(kept, i) < Nth(kept, j)
      /\ \A k \in kept : Place(kept, k) \in 1 .. m /\ Nth(kept, Place(kept, k)) = k
  <2> HIDE DEF kept
  <2> QED BY <1>3, NthFacts, PlaceType
<1>6. list = [i \in 1 .. n |-> table[Nth(ids, i)]]
  BY DEF InOrder, Listed
<1>7. {i \in DOMAIN list : list[i] \notin gone} = kept
  BY <1>6
<1> HIDE DEF ids, n, m
<1>8. \A k \in kept : k \in 1 .. n /\ Nth(ids, k) \in left
  <2> SUFFICES ASSUME NEW k \in kept PROVE k \in 1 .. n /\ Nth(ids, k) \in left
    OBVIOUS
  <2>1. k \in 1 .. n /\ table[Nth(ids, k)] \notin gone
    OBVIOUS
  <2>2. Nth(ids, k) \in ids
    BY <1>4, <2>1
  <2> QED BY <2>1, <2>2
<1>9. f \in [1 .. m -> left]
  BY <1>5, <1>8
<1>10. \A i, j \in 1 .. m : i < j => f[i] < f[j]
  <2> SUFFICES ASSUME NEW i \in 1 .. m, NEW j \in 1 .. m, i < j
               PROVE  Nth(ids, Nth(kept, i)) < Nth(ids, Nth(kept, j))
    OBVIOUS
  <2>1. Nth(kept, i) \in 1 .. n /\ Nth(kept, j) \in 1 .. n /\ Nth(kept, i) < Nth(kept, j)
    BY <1>5, <1>8
  <2> QED BY <1>4, <2>1
<1>11. \A id \in left : \E i \in 1 .. m : f[i] = id
  <2> SUFFICES ASSUME NEW id \in left PROVE \E i \in 1 .. m : f[i] = id
    OBVIOUS
  <2>1. id \in ids /\ table[id] \notin gone
    OBVIOUS
  <2>2. Place(ids, id) \in 1 .. n /\ Nth(ids, Place(ids, id)) = id
    BY <1>4, <2>1
  <2>3. Place(ids, id) \in kept
    BY <2>1, <2>2
  <2>4. Place(kept, Place(ids, id)) \in 1 .. m /\ f[Place(kept, Place(ids, id))] = id
    BY <1>5, <2>2, <2>3
  <2> QED BY <2>4
<1>12. Cardinality(left) = m /\ \A i \in 1 .. m : Nth(left, i) = f[i]
  <2> HIDE DEF f, left
  <2> QED BY <1>2, <1>3, <1>9, <1>10, <1>11, Enumerates
<1>13. Delete(table, gone) = [id \in left |-> table[id]] /\ DOMAIN Delete(table, gone) = left
  BY DEF Delete, ids
<1>14. InOrder(Delete(table, gone)) = [i \in 1 .. m |-> Delete(table, gone)[Nth(left, i)]]
  BY <1>12, <1>13 DEF InOrder, Listed
<1>15. \A i \in 1 .. m : Delete(table, gone)[Nth(left, i)] = list[Nth(kept, i)]
  <2> SUFFICES ASSUME NEW i \in 1 .. m PROVE Delete(table, gone)[f[i]] = list[Nth(kept, i)]
    BY <1>12
  <2>1. f[i] \in left /\ f[i] = Nth(ids, Nth(kept, i)) /\ Nth(kept, i) \in 1 .. n
    BY <1>5, <1>8, <1>9
  <2>2. Delete(table, gone)[f[i]] = table[f[i]]
    BY <1>13, <2>1
  <2> HIDE DEF f
  <2> QED BY <1>6, <2>1, <2>2
<1>16. Listed(list, kept) = [i \in 1 .. m |-> list[Nth(kept, i)]]
  BY DEF Listed, m
<1> HIDE DEF list, kept, left
<1> QED BY <1>7, <1>14, <1>15, <1>16 DEF list

-----------------------------------------------------------------------------
(* StoresAgree. *)

\* The stores begin empty and in step.
LEMMA StoresInit == InitStores => StoresInv
<1> SUFFICES ASSUME InitStores PROVE StoresInv
  OBVIOUS
<1>1. IsTable(Empty) /\ Rows(Empty) = {}
  BY FS_EmptySet DEF IsTable, Empty, Rows
<1>2. InOrder(Empty) = <<>>
  BY FS_EmptySet DEF InOrder, Listed, Empty
<1>3. FindingsInStep
  BY DEF InitStores, FindingsInStep, Empty
<1>4. TargetsInStep
  BY <1>1, <1>2 DEF InitStores, TargetsInStep
<1>5. ProofsInStep
  BY <1>1 DEF InitStores, ProofsInStep, Empty
<1> QED BY <1>3, <1>4, <1>5 DEF InitStores, StoresInv

\* A finding gets the same columns in both stores, and keeps its birth in SQLite.
LEMMA UpsertInStep ==
    ASSUME StoresInv, NEW p, NEW birth, NEW columns, Upsert(p, birth, columns)
    PROVE  StoresInv'
<1>1. /\ memory' = [findings |-> Put(memory.findings, p, [birth |-> birth, columns |-> columns]),
                    targets |-> memory.targets, proofs |-> memory.proofs]
      /\ sqlite' = [findings |-> Upserted(sqlite.findings, p, birth, columns),
                    targets |-> sqlite.targets, proofs |-> sqlite.proofs]
  BY DEF Upsert, StoresInv
<1>2. FindingsInStep'
  BY <1>1 DEF Upsert, StoresInv, FindingsInStep, Upserted, Put
<1>3. TargetsInStep' /\ ProofsInStep'
  BY <1>1 DEF StoresInv, TargetsInStep, ProofsInStep
<1> QED BY <1>1, <1>2, <1>3 DEF StoresInv

\* A target that both know stays, a new one is last in both.
LEMMA SaveTargetInStep ==
    ASSUME StoresInv, NEW raw, SaveTarget(raw)
    PROVE  StoresInv'
<1> DEFINE row == [raw |-> raw, canonical |-> Canonical[raw]]
           known(rows) == \E r \in rows : r.canonical = row.canonical
<1>1. /\ memory' = [findings |-> memory.findings, proofs |-> memory.proofs,
                    targets |-> IF known(ToSet(memory.targets)) THEN memory.targets
                                ELSE Append(memory.targets, row)]
      /\ sqlite' = [findings |-> sqlite.findings, proofs |-> sqlite.proofs,
                    targets |-> IF known(Rows(sqlite.targets)) THEN sqlite.targets
                                ELSE Insert(sqlite.targets, row)]
      /\ born' = born
  BY DEF SaveTarget, StoresInv
<1>2. IsTable(sqlite.targets) /\ memory.targets = InOrder(sqlite.targets)
  BY DEF StoresInv, TargetsInStep
<1>3. ToSet(memory.targets) = Rows(sqlite.targets)
  BY <1>2, ListingType
<1>4. CASE known(Rows(sqlite.targets))
  <2>1. memory' = memory /\ sqlite' = sqlite
    BY <1>1, <1>3, <1>4 DEF StoresInv
  <2> QED BY <1>1, <2>1 DEF StoresInv, FindingsInStep, TargetsInStep, ProofsInStep
<1>5. CASE ~known(Rows(sqlite.targets))
  <2>1. /\ memory'.targets = Append(memory.targets, row)
        /\ sqlite'.targets = Insert(sqlite.targets, row)
    BY <1>1, <1>3, <1>5
  <2> HIDE DEF row
  <2>2. TargetsInStep'
    BY <1>2, <2>1, InsertRows, InsertIsListedLast DEF TargetsInStep
  <2>3. FindingsInStep' /\ ProofsInStep'
    BY <1>1 DEF StoresInv, FindingsInStep, ProofsInStep
  <2> QED BY <1>1, <2>2, <2>3 DEF StoresInv
<1> QED BY <1>4, <1>5

\* A target is gone from both listings, which are otherwise as they were.
LEMMA DeleteTargetInStep ==
    ASSUME StoresInv, NEW canonical, DeleteTarget(canonical)
    PROVE  StoresInv'
<1> DEFINE gone == {row \in Rows(sqlite.targets) : row.canonical = canonical}
           list == memory.targets
<1>1. /\ memory' = [findings |-> memory.findings, proofs |-> memory.proofs,
                    targets |-> Listed(list, {i \in DOMAIN list : list[i].canonical # canonical})]
      /\ sqlite' = [findings |-> sqlite.findings, proofs |-> sqlite.proofs,
                    targets |-> Delete(sqlite.targets, gone)]
      /\ born' = born
  BY DEF DeleteTarget, StoresInv
<1>2. IsTable(sqlite.targets) /\ list = InOrder(sqlite.targets)
  BY DEF StoresInv, TargetsInStep
<1>3. {i \in DOMAIN list : list[i].canonical # canonical} = {i \in DOMAIN list : list[i] \notin gone}
  <2>1. \A i \in DOMAIN list : list[i] \in Rows(sqlite.targets)
    BY <1>2, ListingType DEF ToSet
  <2> QED BY <2>1
<1>4. TargetsInStep'
  <2> HIDE DEF gone
  <2>1. /\ IsTable(Delete(sqlite.targets, gone))
        /\ InOrder(Delete(sqlite.targets, gone)) = Listed(list, {i \in DOMAIN list : list[i] \notin gone})
    BY <1>2, DeleteRows, DeleteKeepsOrder
  <2> QED BY <1>1, <1>3, <2>1 DEF TargetsInStep
<1>5. FindingsInStep' /\ ProofsInStep'
  BY <1>1 DEF StoresInv, FindingsInStep, ProofsInStep
<1> QED BY <1>1, <1>4, <1>5 DEF StoresInv

\* A challenge is replaced or added in both stores.
LEMMA PutProofInStep ==
    ASSUME StoresInv, NEW domain, NEW proof, PutProof(domain, proof)
    PROVE  StoresInv'
<1> DEFINE table == sqlite.proofs
           new == [domain |-> domain, proof |-> proof]
           there == \E id \in DOMAIN table : table[id].domain = domain
           replaced == [id \in DOMAIN table |-> IF table[id].domain = domain THEN new ELSE table[id]]
<1>1. /\ memory' = [findings |-> memory.findings, targets |-> memory.targets,
                    proofs |-> Put(memory.proofs, domain, proof)]
      /\ sqlite' = [findings |-> sqlite.findings, targets |-> sqlite.targets,
                    proofs |-> IF there THEN replaced ELSE Insert(table, new)]
      /\ born' = born
  BY DEF PutProof, StoresInv
<1>2. /\ IsTable(table)
      /\ Rows(table) = {[domain |-> d, proof |-> memory.proofs[d]] : d \in DOMAIN memory.proofs}
  BY DEF StoresInv, ProofsInStep
<1>3. {[domain |-> d, proof |-> memory'.proofs[d]] : d \in DOMAIN memory'.proofs}
        = {row \in Rows(table) : row.domain # domain} \cup {new}
  <2> DEFINE old == memory.proofs
             put == Put(old, domain, proof)
  <2>1. memory'.proofs = put
    BY <1>1
  <2>2. /\ DOMAIN put = DOMAIN old \cup {domain} /\ put[domain] = proof
        /\ \A d \in DOMAIN old : d # domain => put[d] = old[d]
    BY DEF Put
  <2>3. {row \in Rows(table) : row.domain # domain}
            = {[domain |-> d, proof |-> old[d]] : d \in DOMAIN old \ {domain}}
    BY <1>2
  <2> HIDE DEF put, old
  <2>4. {[domain |-> d, proof |-> put[d]] : d \in DOMAIN put}
            = {[domain |-> d, proof |-> old[d]] : d \in DOMAIN old \ {domain}} \cup {new}
    BY <2>2
  <2> QED BY <2>1, <2>3, <2>4
<1>4. CASE there
  <2>1. sqlite'.proofs = replaced
    BY <1>1, <1>4
  <2>2. IsTable(replaced)
    BY <1>2 DEF IsTable
  <2>3. Rows(replaced) = {row \in Rows(table) : row.domain # domain} \cup {new}
    BY <1>4 DEF Rows
  <2> QED BY <1>3, <2>1, <2>2, <2>3, <1>1 DEF StoresInv, ProofsInStep, FindingsInStep, TargetsInStep
<1>5. CASE ~there
  <2>1. sqlite'.proofs = Insert(table, new)
    BY <1>1, <1>5
  <2>2. Rows(table) = {row \in Rows(table) : row.domain # domain}
    BY <1>5 DEF Rows
  <2>3. IsTable(Insert(table, new)) /\ Rows(Insert(table, new)) = Rows(table) \cup {new}
    BY <1>2, InsertRows
  <2>4. ProofsInStep'
    BY <1>3, <2>1, <2>2, <2>3 DEF ProofsInStep
  <2>5. FindingsInStep' /\ TargetsInStep'
    BY <1>1 DEF StoresInv, FindingsInStep, TargetsInStep
  <2> QED BY <1>1, <2>4, <2>5 DEF StoresInv
<1> QED BY <1>4, <1>5

\* A challenge is gone from both stores.
LEMMA DeleteProofInStep ==
    ASSUME StoresInv, NEW domain, DeleteProof(domain)
    PROVE  StoresInv'
<1> DEFINE table == sqlite.proofs
           gone == {row \in Rows(table) : row.domain = domain}
<1>1. /\ memory' = [findings |-> memory.findings, targets |-> memory.targets,
                    proofs |-> [d \in DOMAIN memory.proofs \ {domain} |-> memory.proofs[d]]]
      /\ sqlite' = [findings |-> sqlite.findings, targets |-> sqlite.targets,
                    proofs |-> Delete(table, gone)]
      /\ born' = born
  BY DEF DeleteProof, StoresInv
<1>2. /\ IsTable(table)
      /\ Rows(table) = {[domain |-> d, proof |-> memory.proofs[d]] : d \in DOMAIN memory.proofs}
  BY DEF StoresInv, ProofsInStep
<1>3. {[domain |-> d, proof |-> memory'.proofs[d]] : d \in DOMAIN memory'.proofs}
        = {row \in Rows(table) : row.domain # domain}
  BY <1>1, <1>2
<1>4. IsTable(Delete(table, gone)) /\ Rows(Delete(table, gone)) = Rows(table) \ gone
  BY <1>2, DeleteRows
<1>5. ProofsInStep'
  BY <1>1, <1>3, <1>4 DEF ProofsInStep
<1>6. FindingsInStep' /\ TargetsInStep'
  BY <1>1 DEF StoresInv, FindingsInStep, TargetsInStep
<1> QED BY <1>1, <1>5, <1>6 DEF StoresInv

\* Stores whose rows are in step answer alike.
LEMMA InStepAgree == StoresInv => StoresAgree
<1> SUFFICES ASSUME StoresInv PROVE StoresAgree
  OBVIOUS
<1>1. /\ DOMAIN memory.findings = DOMAIN sqlite.findings
      /\ \A p \in DOMAIN memory.findings :
            /\ memory.findings[p].columns = sqlite.findings[p].columns
            /\ sqlite.findings[p].birth = born[p]
  BY DEF StoresInv, FindingsInStep
<1>2. SavedInMemory = SavedInSQLite
  BY DEF StoresInv, TargetsInStep, SavedInMemory, SavedInSQLite
<1>3. ASSUME NEW d \in Domains
      PROVE  ProofInSQLite(d) = IF d \in DOMAIN memory.proofs THEN memory.proofs[d] ELSE NoProof
  <2> DEFINE found == {row \in Rows(sqlite.proofs) : row.domain = d}
  <2>1. found = IF d \in DOMAIN memory.proofs
                THEN {[domain |-> d, proof |-> memory.proofs[d]]} ELSE {}
    BY DEF StoresInv, ProofsInStep
  <2> HIDE DEF found
  <2>2. ProofInSQLite(d) = IF found = {} THEN NoProof ELSE (CHOOSE row \in found : TRUE).proof
    BY DEF ProofInSQLite, found
  <2>3. CASE d \in DOMAIN memory.proofs
    <3>1. found = {[domain |-> d, proof |-> memory.proofs[d]]}
      BY <2>1, <2>3
    <3>2. (CHOOSE row \in found : TRUE) = [domain |-> d, proof |-> memory.proofs[d]]
      BY <3>1
    <3> QED BY <2>2, <2>3, <3>1, <3>2
  <2>4. CASE d \notin DOMAIN memory.proofs
    BY <2>1, <2>2, <2>4
  <2> QED BY <2>3, <2>4
<1> QED BY <1>1, <1>2, <1>3 DEF StoresAgree

\* After any sequence of calls the store of the tests and the store of the product
\* answer alike, for any findings, targets and challenges, and whatever rowids are
\* used again.
THEOREM StoresStayInStep == StoresSpec => []StoresAgree
<1>1. StoresInv /\ [NextStores]_stores => StoresInv'
  <2> SUFFICES ASSUME StoresInv, [NextStores]_stores PROVE StoresInv'
    OBVIOUS
  <2>1. CASE UNCHANGED stores
    BY <2>1 DEF stores, StoresInv, FindingsInStep, TargetsInStep, ProofsInStep
  <2>2. CASE NextStores
    BY <2>2, UpsertInStep, SaveTargetInStep, DeleteTargetInStep, PutProofInStep, DeleteProofInStep
    DEF NextStores
  <2> QED BY <2>1, <2>2
<1> QED BY <1>1, StoresInit, InStepAgree, PTL DEF StoresSpec

-----------------------------------------------------------------------------
(* The two walks of a DNS name. *)

\* Every position before the end holds a byte.
LEMMA BytesAreNaturals ==
    ASSUME NEW body \in Seq(Byte), NEW pos \in Nat, pos < Len(body)
    PROVE  /\ body[pos + 1] \in Byte /\ body[pos + 1] \in Nat
           /\ Len(body) \in Nat
<1>1. pos + 1 \in 1 .. Len(body) /\ Len(body) \in Nat
  OBVIOUS
<1>2. body[pos + 1] \in Byte
  BY <1>1
<1>3. \A b \in Byte : b \in Nat
  BY DEF Byte
<1> QED BY <1>1, <1>2, <1>3

\* A finite set of naturals has a least and a greatest member.
LEMMA Extremes ==
    ASSUME NEW T \in SUBSET Nat, IsFiniteSet(T), T # {}
    PROVE  /\ \E m \in T : \A k \in T : m <= k
           /\ \E m \in T : \A k \in T : k <= m
<1> DEFINE n == Cardinality(T)
<1>1. n \in Nat /\ n # 0
  BY FS_EmptySet, FS_CardinalityType
<1>2. /\ \A i \in 1 .. n : Nth(T, i) \in T
      /\ \A i, j \in 1 .. n : i < j => Nth(T, i) < Nth(T, j)
      /\ \A k \in T : Place(T, k) \in 1 .. n /\ Nth(T, Place(T, k)) = k
  BY NthFacts, PlaceType
<1> HIDE DEF n
<1>3. 1 \in 1 .. n /\ n \in 1 .. n
  BY <1>1
<1>4. ASSUME NEW k \in T PROVE Nth(T, 1) <= k /\ k <= Nth(T, n)
  <2> DEFINE p == Place(T, k)
  <2>1. p \in 1 .. n /\ Nth(T, p) = k /\ k \in Nat
    BY <1>2
  <2>2. Nth(T, 1) \in Nat /\ Nth(T, n) \in Nat
    BY <1>2, <1>3
  <2> HIDE DEF p
  <2>3. p = 1 \/ 1 < p
    BY <2>1
  <2>4. p = n \/ p < n
    BY <1>1, <2>1
  <2>5. Nth(T, 1) <= k
    BY <1>2, <1>3, <2>1, <2>2, <2>3
  <2>6. k <= Nth(T, n)
    BY <1>2, <1>3, <2>1, <2>2, <2>4
  <2> QED BY <2>5, <2>6
<1> QED BY <1>2, <1>3, <1>4

\* A set of the positions 0 to n that has n, and with each other than 0 the one
\* before it, has them all.
LEMMA DownToZero ==
    ASSUME NEW n \in Nat, NEW Good \in SUBSET (0 .. n), n \in Good,
           \A m \in Good : m # 0 => m - 1 \in Good
    PROVE  0 \in Good
<1>1. IsFiniteSet(Good) /\ Good \in SUBSET Nat
  <2>1. IsFiniteSet(0 .. n) /\ 0 .. n \subseteq Nat
    BY FS_Interval
  <2> QED BY <2>1, FS_Subset
<1>2. PICK m \in Good : \A k \in Good : m <= k
  BY <1>1, Extremes
<1>3. m = 0
  <2> SUFFICES ASSUME m # 0 PROVE FALSE
    OBVIOUS
  <2>1. m - 1 \in Good /\ m \in Nat
    BY <1>1
  <2> QED BY <1>2, <2>1
<1> QED BY <1>3

\* What parseQuestion's walk makes of a position, given what it makes of later ones.
LabelsAt(body, walk, pos) ==
    IF pos >= Len(body) THEN Refused ELSE
    LET l    == body[pos + 1]
        rest == walk[pos + 1 + l]
    IN  IF l = 0 THEN [ok |-> TRUE, end |-> pos + 1, labels |-> <<>>]
        ELSE IF l >= 64 \/ pos + 1 + l > Len(body) \/ ~rest.ok THEN Refused
        ELSE [ok |-> TRUE, end |-> rest.end,
              labels |-> <<SubSeq(body, pos + 2, pos + 1 + l)>> \o rest.labels]

\* The walk reads later positions only.
LEMMA LabelsAtReadsAhead ==
    ASSUME NEW body \in Seq(Byte), NEW f, NEW g, NEW pos \in 0 .. Len(body),
           \A q \in 0 .. Len(body) : q > pos => f[q] = g[q]
    PROVE  LabelsAt(body, f, pos) = LabelsAt(body, g, pos)
<1>1. CASE pos = Len(body)
  BY <1>1 DEF LabelsAt
<1>2. CASE pos < Len(body)
  <2>1. body[pos + 1] \in Byte
    BY <1>2
  <2> DEFINE next == pos + 1 + body[pos + 1]
  <2>2. next \in Nat /\ next > pos
    <3>1. pos \in Nat /\ body[pos + 1] \in Nat
      BY <1>2, BytesAreNaturals
    <3> QED BY <3>1
  <2>3. CASE next > Len(body)
    BY <2>1, <2>3 DEF LabelsAt, Byte
  <2>4. CASE next <= Len(body)
    <3>1. f[next] = g[next]
      BY <2>2, <2>4
    <3> QED BY <3>1 DEF LabelsAt
  <2> QED BY <2>2, <2>3, <2>4
<1> QED BY <1>1, <1>2

\* The walk's recursive definition does define it.
LEMMA LabelsFromEquation ==
    ASSUME NEW body \in Seq(Byte)
    PROVE  LabelsFrom(body) = [pos \in 0 .. Len(body) |-> LabelsAt(body, LabelsFrom(body), pos)]
<1> DEFINE n == Len(body)
           Good == {k \in 0 .. n : \E f : f = [pos \in k .. n |-> LabelsAt(body, f, pos)]}
<1>1. n \in Nat
  OBVIOUS
<1>2. n \in Good
  <2> DEFINE f == [pos \in n .. n |-> Refused]
  <2>1. \A pos \in n .. n : LabelsAt(body, f, pos) = Refused
    BY DEF LabelsAt
  <2>2. f = [pos \in n .. n |-> LabelsAt(body, f, pos)]
    BY <2>1
  <2>3. n \in 0 .. n
    BY <1>1
  <2> QED BY <2>2, <2>3
<1>3. ASSUME NEW m \in Good, m # 0 PROVE m - 1 \in Good
  <2>1. PICK f : f = [pos \in m .. n |-> LabelsAt(body, f, pos)]
    OBVIOUS
  <2> DEFINE g == [pos \in (m - 1) .. n |->
                      IF pos = m - 1 THEN LabelsAt(body, f, pos) ELSE f[pos]]
  <2>2. m \in 1 .. n /\ m - 1 \in 0 .. n
    BY <1>3
  <2>3. ASSUME NEW pos \in (m - 1) .. n PROVE g[pos] = LabelsAt(body, g, pos)
    <3>1. \A q \in 0 .. n : q > pos => f[q] = g[q]
      BY <2>2
    <3>2. LabelsAt(body, f, pos) = LabelsAt(body, g, pos)
      <4>1. pos \in 0 .. n
        BY <2>2
      <4> HIDE DEF g
      <4> QED BY <3>1, <4>1, LabelsAtReadsAhead
    <3>3. CASE pos = m - 1
      BY <3>2, <3>3
    <3>4. CASE pos # m - 1
      <4>1. pos \in m .. n
        BY <2>2, <3>4
      <4>2. f[pos] = LabelsAt(body, f, pos)
        BY <2>1, <4>1
      <4> QED BY <3>2, <3>4, <4>2
    <3> QED BY <3>3, <3>4
  <2>4. g = [pos \in (m - 1) .. n |-> LabelsAt(body, g, pos)]
    BY <2>3
  <2> QED BY <2>2, <2>4
<1>4. 0 \in Good
  <2> HIDE DEF Good
  <2>1. Good \in SUBSET (0 .. n)
    BY DEF Good
  <2> QED BY <1>1, <1>2, <1>3, <2>1, DownToZero
<1>5. PICK f : f = [pos \in 0 .. n |-> LabelsAt(body, f, pos)]
  BY <1>4
<1> QED BY <1>5 DEF LabelsFrom, LabelsAt

\* What the walk gives for a position, by the byte there.
LEMMA LabelsFacts ==
    ASSUME NEW body \in Seq(Byte), NEW pos \in 0 .. Len(body)
    PROVE  LET walk == LabelsFrom(body)
               l    == body[pos + 1]
               next == pos + 1 + l
           IN  /\ pos = Len(body) => ~walk[pos].ok
               /\ pos < Len(body) /\ l = 0 => walk[pos].ok /\ walk[pos].end = pos + 1
               /\ pos < Len(body) /\ l # 0 =>
                     walk[pos].ok <=> l < 64 /\ next <= Len(body) /\ walk[next].ok
               /\ pos < Len(body) /\ l # 0 /\ walk[pos].ok => walk[pos].end = walk[next].end
<1> DEFINE walk == LabelsFrom(body)
           l    == body[pos + 1]
           next == pos + 1 + l
<1>1. walk[pos] = LabelsAt(body, walk, pos)
  BY LabelsFromEquation
<1> HIDE DEF walk
<1>2. CASE pos = Len(body)
  BY <1>1, <1>2 DEF LabelsAt, Refused, walk
<1>3. CASE pos < Len(body)
  <2>1. l \in Nat /\ pos \in Nat /\ Len(body) \in Nat
    BY <1>3, BytesAreNaturals
  <2> HIDE DEF l
  <2>2. LabelsAt(body, walk, pos) =
            IF l = 0 THEN [ok |-> TRUE, end |-> pos + 1, labels |-> <<>>]
            ELSE IF l >= 64 \/ next > Len(body) \/ ~walk[next].ok THEN Refused
            ELSE [ok |-> TRUE, end |-> walk[next].end,
                  labels |-> <<SubSeq(body, pos + 2, next)>> \o walk[next].labels]
    BY <1>3, <2>1 DEF LabelsAt, l
  <2>3. CASE l = 0
    BY <1>1, <1>3, <2>2, <2>3 DEF walk, l
  <2>4. CASE l # 0 /\ (l >= 64 \/ next > Len(body) \/ ~walk[next].ok)
    <3>1. walk[pos] = Refused
      BY <1>1, <2>2, <2>4
    <3>2. ~(l < 64 /\ next <= Len(body) /\ walk[next].ok)
      BY <2>1, <2>4
    <3> QED BY <1>3, <2>1, <2>4, <3>1, <3>2 DEF Refused, walk, l
  <2>5. CASE l # 0 /\ ~(l >= 64 \/ next > Len(body) \/ ~walk[next].ok)
    <3>1. walk[pos].ok /\ walk[pos].end = walk[next].end
      BY <1>1, <2>2, <2>5
    <3>2. l < 64 /\ next <= Len(body) /\ walk[next].ok
      BY <2>1, <2>5
    <3> QED BY <1>3, <2>1, <2>5, <3>1, <3>2 DEF walk, l
  <2> QED BY <2>3, <2>4, <2>5
<1> QED BY <1>2, <1>3

\* What buildDNSResponse's walk makes of a position.
EndAt(body, walk, pos) ==
    IF pos >= Len(body) THEN pos
    ELSE IF body[pos + 1] = 0 THEN pos + 1
    ELSE walk[pos + 1 + body[pos + 1]]

\* That walk reads later positions only.
LEMMA EndAtReadsAhead ==
    ASSUME NEW body \in Seq(Byte), NEW f, NEW g, NEW pos \in Nat,
           \A q \in Nat : q > pos => f[q] = g[q]
    PROVE  EndAt(body, f, pos) = EndAt(body, g, pos)
<1>1. CASE pos >= Len(body)
  BY <1>1 DEF EndAt
<1>2. CASE pos < Len(body)
  <2>1. body[pos + 1] \in Nat
    BY <1>2, BytesAreNaturals
  <2>2. f[pos + 1 + body[pos + 1]] = g[pos + 1 + body[pos + 1]]
    BY <2>1
  <2> QED BY <1>2, <2>2 DEF EndAt
<1> QED BY <1>1, <1>2

\* Its recursive definition does define it.
LEMMA EndFromEquation ==
    ASSUME NEW body \in Seq(Byte)
    PROVE  EndFrom(body) = [pos \in Nat |-> EndAt(body, EndFrom(body), pos)]
<1> DEFINE n == Len(body)
           After(k) == {q \in Nat : q >= k}
           Good == {k \in 0 .. n : \E f : f = [pos \in After(k) |-> EndAt(body, f, pos)]}
<1>1. n \in Nat
  OBVIOUS
<1>2. n \in Good
  <2> DEFINE f == [pos \in After(n) |-> pos]
  <2>1. \A pos \in After(n) : EndAt(body, f, pos) = pos
    BY DEF EndAt
  <2>2. f = [pos \in After(n) |-> EndAt(body, f, pos)]
    BY <2>1
  <2>3. n \in 0 .. n
    BY <1>1
  <2> QED BY <2>2, <2>3
<1>3. ASSUME NEW m \in Good, m # 0 PROVE m - 1 \in Good
  <2>1. PICK f : f = [pos \in After(m) |-> EndAt(body, f, pos)]
    OBVIOUS
  <2> DEFINE g == [pos \in After(m - 1) |->
                      IF pos = m - 1 THEN EndAt(body, f, pos) ELSE f[pos]]
  <2>2. m \in 1 .. n /\ m - 1 \in 0 .. n /\ m - 1 \in Nat
    BY <1>3
  <2>3. ASSUME NEW pos \in After(m - 1) PROVE g[pos] = EndAt(body, g, pos)
    <3>1. \A q \in Nat : q > pos => f[q] = g[q]
      BY <2>2
    <3>2. EndAt(body, f, pos) = EndAt(body, g, pos)
      <4> HIDE DEF g
      <4> QED BY <3>1, EndAtReadsAhead
    <3>3. CASE pos = m - 1
      BY <3>2, <3>3
    <3>4. CASE pos # m - 1
      <4>1. pos \in After(m)
        BY <2>2, <3>4
      <4>2. f[pos] = EndAt(body, f, pos)
        BY <2>1, <4>1
      <4> QED BY <3>2, <3>4, <4>2
    <3> QED BY <3>3, <3>4
  <2>4. g = [pos \in After(m - 1) |-> EndAt(body, g, pos)]
    BY <2>3
  <2> QED BY <2>2, <2>4
<1>4. 0 \in Good
  <2> HIDE DEF Good
  <2>1. Good \in SUBSET (0 .. n)
    BY DEF Good
  <2> QED BY <1>1, <1>2, <1>3, <2>1, DownToZero
<1>5. After(0) = Nat
  OBVIOUS
<1>6. PICK f : f = [pos \in Nat |-> EndAt(body, f, pos)]
  BY <1>4, <1>5
<1> QED BY <1>6 DEF EndFrom, EndAt

\* Where parseQuestion finds the end of a name, the walk without checks ends too.
LEMMA WalksMeet ==
    ASSUME NEW body \in Seq(Byte), Labels(body).ok
    PROVE  QuestionEnd(body) = Labels(body).end + 4
<1> DEFINE n == Len(body)
           walk == LabelsFrom(body)
           end == EndFrom(body)
           Bad == {p \in 0 .. n : walk[p].ok /\ end[p] # walk[p].end}
<1>1. n \in Nat
  OBVIOUS
<1>2. Bad = {}
  <2> SUFFICES ASSUME Bad # {} PROVE FALSE
    OBVIOUS
  <2>1. Bad \in SUBSET Nat /\ IsFiniteSet(Bad)
    <3>1. IsFiniteSet(0 .. n) /\ 0 .. n \subseteq Nat
      BY <1>1, FS_Interval
    <3> QED BY <3>1, FS_Subset
  <2>2. PICK p \in Bad : \A q \in Bad : q <= p
    <3> HIDE DEF Bad
    <3> QED BY <2>1, Extremes
  <2>3. p \in 0 .. n /\ walk[p].ok /\ end[p] # walk[p].end
    OBVIOUS
  <2> DEFINE next == p + 1 + body[p + 1]
  <2>4. p < n /\ p \in Nat
    BY <1>1, <2>3, LabelsFacts
  <2>5. body[p + 1] \in Nat
    BY <2>4, BytesAreNaturals
  <2>6. end[p] = EndAt(body, end, p)
    BY <2>4, EndFromEquation
  <2>7. CASE body[p + 1] = 0
    BY <2>3, <2>4, <2>6, <2>7, LabelsFacts DEF EndAt
  <2>8. CASE body[p + 1] # 0
    <3>1. /\ next <= n /\ walk[next].ok
          /\ walk[p].end = walk[next].end
      BY <2>3, <2>4, <2>8, LabelsFacts
    <3>2. end[p] = end[next]
      BY <1>1, <2>4, <2>6, <2>8 DEF EndAt
    <3>3. next \in 0 .. n /\ next > p
      BY <1>1, <2>4, <2>5, <3>1
    <3>4. next \in Bad
      BY <2>3, <3>1, <3>2, <3>3
    <3> QED BY <2>2, <2>4, <3>3, <3>4
  <2> QED BY <2>7, <2>8
<1>3. 0 \in 0 .. n
  BY <1>1
<1> QED BY <1>2, <1>3 DEF QuestionEnd, Labels

-----------------------------------------------------------------------------
(* A name cut into labels without a walk, and the name the walk finds. *)

\* The last position of a cut is its root label.
LEMMA RootIsLast ==
    ASSUME NEW body \in Seq(Byte), NEW starts \in Names(body)
    PROVE  /\ starts \subseteq 0 .. Len(body) - 1 /\ Max(starts) \in starts
           /\ body[Max(starts) + 1] = 0
<1>1. starts \subseteq 0 .. Len(body) - 1
  BY DEF Names
<1>2. PICK root \in starts : body[root + 1] = 0 /\ starts \subseteq 0 .. root
  BY DEF Names, CutsName
<1>3. root \in Nat /\ \A p \in starts : p \in Nat /\ root >= p
  BY <1>1, <1>2
<1>4. \A top \in starts : (\A p \in starts : top >= p) => top = root
  BY <1>2, <1>3
<1>5. Max(starts) = root
  <2>1. \E top \in starts : \A p \in starts : top >= p
    BY <1>2, <1>3
  <2> QED BY <1>4, <2>1 DEF Max
<1> QED BY <1>1, <1>2, <1>5

\* The walk finds every name that can be cut, and ends behind its root label: what
\* it makes of the first position it makes of every one of the cut.
LEMMA CutIsName ==
    ASSUME NEW body \in Seq(Byte), NEW starts \in Names(body)
    PROVE  Labels(body).ok /\ Labels(body).end = Max(starts) + 1
<1> DEFINE walk == LabelsFrom(body)
           Same(p) == /\ walk[0].ok <=> walk[p].ok
                      /\ walk[0].ok => walk[0].end = walk[p].end
           Bad == {p \in starts : ~Same(p)}
<1>1. /\ \A p \in starts : p \in Nat /\ p < Len(body) /\ p \in 0 .. Len(body)
                         /\ body[p + 1] < 64
      /\ \A p \in starts \ {0} : \E q \in starts : body[q + 1] # 0 /\ p = q + 1 + body[q + 1]
  BY DEF Names, CutsName
<1>2. Bad = {}
  <2> SUFFICES ASSUME Bad # {} PROVE FALSE
    OBVIOUS
  <2>1. Bad \in SUBSET Nat /\ IsFiniteSet(Bad)
    <3>1. IsFiniteSet(0 .. Len(body)) /\ 0 .. Len(body) \subseteq Nat
      BY FS_Interval
    <3>2. Bad \in SUBSET (0 .. Len(body))
      BY <1>1
    <3> HIDE DEF Bad
    <3> QED BY <3>1, <3>2, FS_Subset
  <2>2. PICK p \in Bad : \A q \in Bad : p <= q
    <3> HIDE DEF Bad
    <3> QED BY <2>1, Extremes
  <2>3. p \in starts /\ ~Same(p) /\ p # 0
    OBVIOUS
  <2>4. PICK q \in starts : body[q + 1] # 0 /\ p = q + 1 + body[q + 1]
    BY <1>1, <2>3
  <2>5. q \in Nat /\ q < Len(body) /\ p <= Len(body) /\ body[q + 1] < 64
    BY <1>1, <2>3
  <2>6. q < p
    BY <2>4, <2>5, BytesAreNaturals
  <2>7. Same(q)
    <3>1. p \in Nat /\ ~(p <= q)
      BY <1>1, <2>3, <2>5, <2>6
    <3> QED BY <2>2, <3>1
  <2>8. /\ walk[q].ok <=> walk[p].ok
        /\ walk[q].ok => walk[q].end = walk[p].end
    <3>1. q \in 0 .. Len(body)
      BY <1>1
    <3> HIDE DEF walk
    <3> QED BY <2>4, <2>5, <3>1, LabelsFacts DEF walk
  <2> QED BY <2>3, <2>7, <2>8
<1>3. Same(Max(starts))
  BY <1>2, RootIsLast
<1>4. walk[Max(starts)].ok /\ walk[Max(starts)].end = Max(starts) + 1
  <2>1. Max(starts) \in 0 .. Len(body) /\ Max(starts) < Len(body) /\ body[Max(starts) + 1] = 0
    BY <1>1, RootIsLast
  <2> QED BY <2>1, LabelsFacts
<1> QED BY <1>3, <1>4 DEF Labels

\* A cut of the bytes from a position on.
Cut(body, p, starts) ==
    /\ starts \subseteq {q \in 0 .. Len(body) - 1 : body[q + 1] < 64}
    /\ p \in starts
    /\ \A q \in starts : body[q + 1] # 0 => q + 1 + body[q + 1] \in starts
    /\ \E root \in starts : body[root + 1] = 0 /\ starts \subseteq 0 .. root
    /\ \A q \in starts \ {p} : \E r \in starts : body[r + 1] # 0 /\ q = r + 1 + body[r + 1]

\* A label before a cut makes a longer one.
LEMMA CutGrows ==
    ASSUME NEW body \in Seq(Byte), NEW p \in Nat, p < Len(body),
           body[p + 1] # 0, body[p + 1] < 64,
           NEW rest, Cut(body, p + 1 + body[p + 1], rest)
    PROVE  Cut(body, p, {p} \cup rest)
<1> DEFINE next == p + 1 + body[p + 1]
           starts == {p} \cup rest
<1>1. next \in Nat /\ p < next /\ next \in rest
  <2>1. body[p + 1] \in Nat
    BY BytesAreNaturals
  <2>2. next \in rest
    BY DEF Cut
  <2> QED BY <2>1, <2>2
<1>2. starts \subseteq {q \in 0 .. Len(body) - 1 : body[q + 1] < 64}
  <2>1. p \in 0 .. Len(body) - 1
    OBVIOUS
  <2> QED BY <2>1 DEF Cut
<1>3. \A q \in starts : body[q + 1] # 0 => q + 1 + body[q + 1] \in starts
  BY <1>1 DEF Cut
<1>4. \E root \in starts : body[root + 1] = 0 /\ starts \subseteq 0 .. root
  <2>1. PICK root \in rest : body[root + 1] = 0 /\ rest \subseteq 0 .. root
    BY DEF Cut
  <2>2. p \in 0 .. root
    BY <1>1, <2>1
  <2> QED BY <2>1, <2>2
<1>5. \A q \in starts \ {p} : \E r \in starts : body[r + 1] # 0 /\ q = r + 1 + body[r + 1]
  <2> TAKE q \in starts \ {p}
  <2>1. CASE q = next
    BY <2>1
  <2>2. CASE q # next
    BY <2>2 DEF Cut
  <2> QED BY <2>1, <2>2
<1> HIDE DEF starts
<1>6. p \in starts
  BY DEF starts
<1>7. Cut(body, p, starts)
  BY <1>2, <1>3, <1>4, <1>5, <1>6 DEF Cut
<1> QED BY <1>7 DEF starts

\* A name the walk finds can be cut.
LEMMA NameIsCut ==
    ASSUME NEW body \in Seq(Byte), Labels(body).ok
    PROVE  \E starts : starts \in Names(body)
<1> DEFINE n == Len(body)
           walk == LabelsFrom(body)
           Bad == {p \in 0 .. n : walk[p].ok /\ ~\E starts : Cut(body, p, starts)}
<1>1. n \in Nat
  OBVIOUS
<1>2. Bad = {}
  <2> SUFFICES ASSUME Bad # {} PROVE FALSE
    OBVIOUS
  <2>1. Bad \in SUBSET Nat /\ IsFiniteSet(Bad)
    <3>1. IsFiniteSet(0 .. n) /\ 0 .. n \subseteq Nat
      BY <1>1, FS_Interval
    <3> QED BY <3>1, FS_Subset
  <2>2. PICK p \in Bad : \A q \in Bad : q <= p
    <3> HIDE DEF Bad
    <3> QED BY <2>1, Extremes
  <2>3. p \in 0 .. n /\ walk[p].ok /\ ~\E starts : Cut(body, p, starts)
    OBVIOUS
  <2> DEFINE next == p + 1 + body[p + 1]
  <2>4. p < n /\ p \in Nat
    BY <1>1, <2>3, LabelsFacts
  <2>5. body[p + 1] \in Nat
    BY <2>4, BytesAreNaturals
  <2>6. CASE body[p + 1] = 0
    <3>1. p \in 0 .. n - 1 /\ p \in 0 .. p
      BY <1>1, <2>4
    <3>2. Cut(body, p, {p})
      BY <2>6, <3>1 DEF Cut
    <3> QED BY <2>3, <3>2
  <2>7. CASE body[p + 1] # 0
    <3>1. next <= n /\ walk[next].ok /\ body[p + 1] < 64
      BY <2>3, <2>4, <2>7, LabelsFacts
    <3>2. next \in 0 .. n /\ next > p
      BY <1>1, <2>4, <2>5, <3>1
    <3>3. next \notin Bad
      BY <2>2, <2>4, <3>2
    <3>4. PICK rest : Cut(body, next, rest)
      BY <3>1, <3>2, <3>3
    <3>5. Cut(body, p, {p} \cup rest)
      BY <2>4, <2>7, <3>1, <3>4, CutGrows
    <3> QED BY <2>3, <3>5
  <2> QED BY <2>6, <2>7
<1>3. 0 \in 0 .. n /\ walk[0].ok
  BY <1>1 DEF Labels
<1>4. PICK starts : Cut(body, 0, starts)
  BY <1>2, <1>3
<1>5. starts \in Names(body)
  BY <1>4 DEF Cut, Names, CutsName
<1> QED BY <1>5

\* A type field of two bytes asks for A or ANY by its low byte alone.
LEMMA TypeOfBytes ==
    ASSUME NEW high \in Byte, NEW low \in Byte
    PROVE  (high * 256 + low \in {1, 255}) <=> (high = 0 /\ low \in {1, 255})
<1>1. high \in Nat /\ low \in Nat /\ high <= 255 /\ low <= 255
  BY DEF Byte
<1> QED BY <1>1

\* A query of any length, of any bytes: the two readings of it never part, and it is
\* answered as its question asks or not at all (parseQuestion, buildDNSResponse).
THEOREM QuestionsAreAnswered ==
    \A body \in Seq(Byte), whole \in BOOLEAN, qd, ar \in Nat :
        QuestionAnswered(Query(whole, qd, ar, body))
<1> SUFFICES ASSUME NEW body \in Seq(Byte), NEW whole \in BOOLEAN, NEW qd \in Nat, NEW ar \in Nat
             PROVE  QuestionAnswered(Query(whole, qd, ar, body))
  OBVIOUS
<1> DEFINE msg      == Query(whole, qd, ar, body)
           names    == Names(body)
           n        == Len(body)
           name     == Labels(body)
           fits     == \E starts \in names : Max(starts) + 5 <= n
           end      == CHOOSE e \in 0 .. Len(msg.body) :
                           \E starts \in Names(msg.body) : Max(starts) + 5 = e
           response == Handle(msg).response
<1>1. msg.whole = whole /\ msg.qd = qd /\ msg.ar = ar /\ msg.body = body
  BY DEF Query
<1>2. n \in Nat
  OBVIOUS
<1>3. \A starts \in names : name.ok /\ Max(starts) \in Nat /\ name.end = Max(starts) + 1
  <2> TAKE starts \in names
  <2>1. Max(starts) \in Nat
    BY <1>2, RootIsLast
  <2> QED BY <2>1, CutIsName
<1>4. name.ok => \E starts : starts \in names
  BY NameIsCut
<1> HIDE DEF names, name
<1>5. fits <=> name.ok /\ name.end + 4 <= n
  BY <1>2, <1>3, <1>4
<1>6. CASE ~(whole /\ qd >= 1 /\ fits)
  <2>1. ~whole \/ qd < 1 \/ ~name.ok \/ name.end + 4 > n
    <3>1. name.ok => name.end \in Nat
      BY <1>3, <1>4
    <3> QED BY <1>2, <1>5, <1>6, <3>1
  <2>2. ~ParseQuestion(msg).ok
    BY <1>1, <2>1 DEF ParseQuestion, name
  <2>3. response = Silence
    BY <2>2 DEF Handle
  <2> QED BY <1>1, <1>6, <2>3 DEF QuestionAnswered, names
<1>7. CASE whole /\ qd >= 1 /\ fits
  <2>1. name.ok /\ name.end \in Nat /\ name.end + 4 <= n
    BY <1>3, <1>5, <1>7
  <2>2. end = name.end + 4
    <3>1. PICK starts \in names : Max(starts) + 5 <= n
      BY <1>7
    <3>2. Max(starts) + 5 = name.end + 4 /\ name.end + 4 \in 0 .. n
      BY <1>2, <1>3, <2>1
    <3>3. \A e \in 0 .. n : (\E s \in names : Max(s) + 5 = e) => e = name.end + 4
      BY <1>3, <2>1
    <3>4. 0 .. Len(msg.body) = 0 .. n /\ Names(msg.body) = names
      BY <1>1 DEF names
    <3> QED BY <3>1, <3>2, <3>3, <3>4
  <2>3. QuestionEnd(body) = end
    BY <2>1, <2>2, WalksMeet DEF name
  <2> HIDE DEF end
  <2> DEFINE high  == body[name.end + 1]
             low   == body[name.end + 2]
             qtype == high * 256 + low
  <2>4. ParseQuestion(msg).ok /\ ParseQuestion(msg).qtype = qtype
    <3>1. ~(~whole \/ qd < 1 \/ ~name.ok \/ name.end + 4 > n)
      BY <1>2, <1>7, <2>1
    <3> QED BY <1>1, <3>1 DEF ParseQuestion, name
  <2>5. response = Response(msg, qtype)
    BY <2>4 DEF Handle
  <2>6. /\ response.sent
        /\ response.question = SubSeq(body, 1, end)
        /\ response.records = IF qtype \in {1, 255} THEN 1 ELSE 0
    <3>1. ~(~whole \/ end > n)
      BY <1>2, <1>7, <2>1, <2>2
    <3> HIDE DEF qtype, response
    <3> QED BY <1>1, <2>3, <2>5, <3>1 DEF Response
  <2>7. qtype \in {1, 255} <=> body[end - 3] = 0 /\ body[end - 2] \in {1, 255}
    <3>1. end - 3 = name.end + 1 /\ end - 2 = name.end + 2
      BY <2>1, <2>2
    <3>2. high \in Byte /\ low \in Byte
      <4>1. name.end < n /\ name.end + 1 \in Nat /\ name.end + 1 < n /\ (name.end + 1) + 1 = name.end + 2
        BY <1>2, <2>1
      <4> QED BY <2>1, <4>1, BytesAreNaturals
    <3> QED BY <3>1, <3>2, TypeOfBytes
  <2>8. response.records = IF body[end - 3] = 0 /\ body[end - 2] \in {1, 255} THEN 1 ELSE 0
    BY <2>6, <2>7
  <2> HIDE DEF response, qtype
  <2>9. /\ msg.whole /\ msg.qd >= 1
        /\ \E starts \in Names(msg.body) : Max(starts) + 5 <= Len(msg.body)
    BY <1>1, <1>7 DEF names
  <2>10. /\ response.question = SubSeq(msg.body, 1, end)
         /\ response.records =
                IF msg.body[end - 3] = 0 /\ msg.body[end - 2] \in {1, 255} THEN 1 ELSE 0
    BY <1>1, <2>6, <2>8
  <2> HIDE DEF msg
  <2>11. QuestionAnswered(msg)
    BY <2>6, <2>9, <2>10, Zenon DEF QuestionAnswered, response, end
  <2> QED BY <2>11 DEF msg
<1> QED BY <1>6, <1>7

-----------------------------------------------------------------------------
(* The match of a name with the tokens. *)

\* A set of the positions 0 to n that has n, and with each other than 0 the one
\* before it, is all of them.
LEMMA DownToAny ==
    ASSUME NEW n \in Nat, NEW Good \in SUBSET (0 .. n), n \in Good,
           \A m \in Good : m # 0 => m - 1 \in Good
    PROVE  Good = 0 .. n
<1> DEFINE Bad == (0 .. n) \ Good
<1>1. Bad = {}
  <2> SUFFICES ASSUME Bad # {} PROVE FALSE
    OBVIOUS
  <2>1. Bad \in SUBSET Nat /\ IsFiniteSet(Bad)
    <3>1. IsFiniteSet(0 .. n) /\ 0 .. n \subseteq Nat
      BY FS_Interval
    <3> QED BY <3>1, FS_Subset
  <2>2. PICK p \in Bad : \A q \in Bad : q <= p
    <3> HIDE DEF Bad
    <3> QED BY <2>1, Extremes
  <2>3. p \in Nat /\ p < n /\ p + 1 \in 0 .. n /\ ~(p + 1 <= p)
    OBVIOUS
  <2>4. p + 1 \in Good
    BY <2>2, <2>3
  <2>5. (p + 1) - 1 \in Good
    BY <2>3, <2>4
  <2> QED BY <2>3, <2>5
<1> QED BY <1>1

\* The labels that parseQuestion collects are bytes, none is empty.
LEMMA LabelsAreBytes ==
    ASSUME NEW body \in Seq(Byte), Labels(body).ok
    PROVE  Labels(body).labels \in Seq(Seq(Byte) \ {<<>>})
<1> DEFINE n == Len(body)
           walk == LabelsFrom(body)
           Bad == {p \in 0 .. n : walk[p].ok /\ walk[p].labels \notin Seq(Seq(Byte) \ {<<>>})}
<1>1. n \in Nat
  OBVIOUS
<1>2. Bad = {}
  <2> SUFFICES ASSUME Bad # {} PROVE FALSE
    OBVIOUS
  <2>1. Bad \in SUBSET Nat /\ IsFiniteSet(Bad)
    <3>1. IsFiniteSet(0 .. n) /\ 0 .. n \subseteq Nat
      BY <1>1, FS_Interval
    <3> QED BY <3>1, FS_Subset
  <2>2. PICK p \in Bad : \A q \in Bad : q <= p
    <3> HIDE DEF Bad
    <3> QED BY <2>1, Extremes
  <2>3. p \in 0 .. n /\ walk[p].ok /\ walk[p].labels \notin Seq(Seq(Byte) \ {<<>>})
    OBVIOUS
  <2> DEFINE next  == p + 1 + body[p + 1]
             label == SubSeq(body, p + 2, next)
  <2>4. p < n /\ p \in Nat
    BY <1>1, <2>3, LabelsFacts
  <2>5. body[p + 1] \in Nat
    BY <2>4, BytesAreNaturals
  <2>6. walk[p] = LabelsAt(body, walk, p)
    BY <2>3, LabelsFromEquation
  <2>7. CASE body[p + 1] = 0
    <3>1. walk[p].labels = <<>>
      BY <1>1, <2>4, <2>6, <2>7 DEF LabelsAt
    <3> QED BY <2>3, <3>1
  <2>8. CASE body[p + 1] # 0
    <3>1. next <= n /\ walk[next].ok /\ body[p + 1] < 64
      BY <2>3, <2>4, <2>8, LabelsFacts
    <3>2. next \in 0 .. n /\ next > p
      BY <1>1, <2>4, <2>5, <3>1
    <3>3. next \notin Bad
      BY <2>2, <2>4, <3>2
    <3>4. walk[next].labels \in Seq(Seq(Byte) \ {<<>>})
      BY <3>1, <3>2, <3>3
    <3>5. walk[p].labels = <<label>> \o walk[next].labels
      <4>1. ~(p >= n) /\ ~(body[p + 1] >= 64 \/ next > n \/ ~walk[next].ok)
        BY <1>1, <2>4, <2>5, <3>1, <3>2
      <4>2. LabelsAt(body, walk, p) = [ok |-> TRUE, end |-> walk[next].end,
                                       labels |-> <<label>> \o walk[next].labels]
        <5> HIDE DEF walk
        <5> QED BY <2>8, <4>1 DEF LabelsAt
      <4> HIDE DEF walk, label, next
      <4> QED BY <2>6, <4>2
    <3>6. label \in Seq(Byte) \ {<<>>}
      <4>1. \A i \in (p + 2) .. next : i \in 1 .. n
        BY <1>1, <2>4, <2>5, <3>1
      <4>2. p + 2 \in Int /\ next \in Int /\ p + 2 <= next
        BY <2>4, <2>5, <2>8, <3>2
      <4>3. label \in Seq(Byte) /\ Len(label) = next - (p + 2) + 1
        BY <4>1, <4>2, SubSeqProperties
      <4>4. Len(label) # 0
        BY <4>2, <4>3
      <4> HIDE DEF label
      <4> QED BY <4>3, <4>4
    <3> HIDE DEF label, walk
    <3>7. <<label>> \in Seq(Seq(Byte) \ {<<>>})
      BY <3>6
    <3>8. walk[p].labels \in Seq(Seq(Byte) \ {<<>>})
      BY <3>4, <3>5, <3>7, ConcatProperties
    <3> QED BY <2>3, <3>8 DEF walk
  <2> QED BY <2>7, <2>8
<1>3. 0 \in 0 .. n
  BY <1>1
<1> QED BY <1>2, <1>3 DEF Labels

\* What joining makes of the labels from one on.
JoinAt(labels, join, k) ==
    IF k > Len(labels) THEN <<>>
    ELSE IF k = Len(labels) THEN labels[k]
    ELSE labels[k] \o <<Dot>> \o join[k + 1]

\* Its recursive definition does define it.
LEMMA JoinedFromEquation ==
    ASSUME NEW labels \in Seq(Seq(Byte))
    PROVE  JoinedFrom(labels)
               = [k \in 1 .. Len(labels) + 1 |-> JoinAt(labels, JoinedFrom(labels), k)]
<1> DEFINE n == Len(labels)
           Good == {m \in 0 .. n : \E f : f = [k \in m + 1 .. n + 1 |-> JoinAt(labels, f, k)]}
<1>1. n \in Nat
  OBVIOUS
<1>2. n \in Good
  <2> DEFINE f == [k \in n + 1 .. n + 1 |-> <<>>]
  <2>1. \A k \in n + 1 .. n + 1 : JoinAt(labels, f, k) = <<>>
    BY <1>1 DEF JoinAt
  <2>2. f = [k \in n + 1 .. n + 1 |-> JoinAt(labels, f, k)]
    BY <2>1
  <2>3. n \in 0 .. n
    BY <1>1
  <2> QED BY <2>2, <2>3
<1>3. ASSUME NEW m \in Good, m # 0 PROVE m - 1 \in Good
  <2>1. PICK f : f = [k \in m + 1 .. n + 1 |-> JoinAt(labels, f, k)]
    OBVIOUS
  <2> DEFINE g == [k \in m .. n + 1 |-> IF k = m THEN JoinAt(labels, f, k) ELSE f[k]]
  <2>2. m \in 1 .. n /\ m - 1 \in 0 .. n /\ (m - 1) + 1 = m
    BY <1>3
  <2>3. ASSUME NEW k \in m .. n + 1 PROVE g[k] = JoinAt(labels, g, k)
    <3>1. k + 1 \in m + 1 .. n + 1 => f[k + 1] = g[k + 1]
      BY <2>2
    <3>2. k \in Nat /\ (k > n \/ k = n \/ k + 1 \in m + 1 .. n + 1)
      BY <1>1, <2>2
    <3>3. JoinAt(labels, f, k) = JoinAt(labels, g, k)
      <4> HIDE DEF g
      <4> QED BY <3>1, <3>2 DEF JoinAt
    <3>4. CASE k = m
      BY <3>3, <3>4
    <3>5. CASE k # m
      <4>1. k \in m + 1 .. n + 1
        BY <2>2, <3>5
      <4>2. f[k] = JoinAt(labels, f, k)
        BY <2>1, <4>1
      <4> QED BY <3>3, <3>5, <4>2
    <3> QED BY <3>4, <3>5
  <2>4. g = [k \in m .. n + 1 |-> JoinAt(labels, g, k)]
    BY <2>3
  <2> QED BY <2>2, <2>4
<1>4. 0 \in Good
  <2> HIDE DEF Good
  <2>1. Good \in SUBSET (0 .. n)
    BY DEF Good
  <2> QED BY <1>1, <1>2, <1>3, <2>1, DownToZero
<1>5. PICK f : f = [k \in 0 + 1 .. n + 1 |-> JoinAt(labels, f, k)]
  BY <1>4
<1>6. 0 + 1 .. n + 1 = 1 .. n + 1
  OBVIOUS
<1> QED BY <1>5, <1>6 DEF JoinedFrom, JoinAt

\* A label before a joined name.
LEMMA JoinedFacts ==
    ASSUME NEW labels \in Seq(Seq(Byte)), NEW k \in 1 .. Len(labels)
    PROVE  /\ JoinedFrom(labels)[k] \in Seq(Byte)
           /\ k = Len(labels) => JoinedFrom(labels)[k] = labels[k]
           /\ k < Len(labels) =>
                 JoinedFrom(labels)[k] = labels[k] \o <<Dot>> \o JoinedFrom(labels)[k + 1]
<1> DEFINE n == Len(labels)
           join == JoinedFrom(labels)
           Good == {m \in 0 .. n : join[m + 1] \in Seq(Byte)}
<1>1. n \in Nat
  OBVIOUS
<1>2. \A m \in 1 .. n + 1 : join[m] = JoinAt(labels, join, m)
  BY JoinedFromEquation
<1>3. n \in Good
  <2>1. n + 1 \in 1 .. n + 1 /\ n \in 0 .. n /\ n + 1 > n
    BY <1>1
  <2> HIDE DEF join
  <2>2. join[n + 1] = <<>>
    BY <1>2, <2>1 DEF JoinAt
  <2>3. <<>> \in Seq(Byte)
    OBVIOUS
  <2> QED BY <2>1, <2>2, <2>3
<1>4. ASSUME NEW m \in Good, m # 0 PROVE m - 1 \in Good
  <2>1. m \in 1 .. n /\ m \in 1 .. n + 1 /\ (m - 1) + 1 = m /\ m - 1 \in 0 .. n /\ ~(m > n)
    BY <1>1, <1>4
  <2>2. labels[m] \in Seq(Byte) /\ join[m + 1] \in Seq(Byte)
    BY <1>4, <2>1
  <2>3. join[m] = JoinAt(labels, join, m)
    BY <1>2, <2>1
  <2> HIDE DEF join
  <2>4. <<Dot>> \in Seq(Byte)
    BY HostsAssumption
  <2>5. labels[m] \o <<Dot>> \o join[m + 1] \in Seq(Byte)
    BY <2>2, <2>4, ConcatProperties
  <2>6. join[m] \in Seq(Byte)
    BY <2>1, <2>2, <2>3, <2>5 DEF JoinAt
  <2> QED BY <2>1, <2>6
<1>5. Good = 0 .. n
  <2> HIDE DEF Good
  <2>1. Good \in SUBSET (0 .. n)
    BY DEF Good
  <2> QED BY <1>1, <1>3, <1>4, <2>1, DownToAny
<1>6. k - 1 \in Good /\ (k - 1) + 1 = k /\ k \in 1 .. n + 1 /\ ~(k > n)
  <2>1. k - 1 \in 0 .. n /\ (k - 1) + 1 = k /\ k \in 1 .. n + 1 /\ ~(k > n)
    BY <1>1
  <2> HIDE DEF Good
  <2> QED BY <1>5, <2>1
<1>7. join[k] \in Seq(Byte)
  BY <1>6
<1> HIDE DEF join
<1>8. join[k] = JoinAt(labels, join, k)
  BY <1>2, <1>6
<1>9. /\ k = n => join[k] = labels[k]
      /\ k < n => join[k] = labels[k] \o <<Dot>> \o join[k + 1]
  BY <1>1, <1>6, <1>8 DEF JoinAt
<1> QED BY <1>7, <1>9 DEF join

\* A suffix, byte by byte.
LEMMA SuffixMeans ==
    ASSUME NEW s \in Seq(Byte), NEW t \in Seq(Byte)
    PROVE  IsSuffix(s, t) <=> /\ Len(s) <= Len(t)
                              /\ \A i \in 1 .. Len(s) : t[Len(t) - Len(s) + i] = s[i]
<1> DEFINE a == Len(s)
           b == Len(t)
           rs == Reverse(s)
           rt == Reverse(t)
<1>1. a \in Nat /\ b \in Nat
  OBVIOUS
<1>2. /\ rs \in Seq(Byte) /\ Len(rs) = a
      /\ \A i \in 1 .. a : rs[i] = s[(a - i) + 1]
  BY <1>1 DEF Reverse
<1>3. /\ rt \in Seq(Byte) /\ Len(rt) = b
      /\ \A i \in 1 .. b : rt[i] = t[(b - i) + 1]
  BY <1>1 DEF Reverse
<1> HIDE DEF rs, rt
<1>4. CASE a <= b
  <2>1. /\ SubSeq(rs, 1, a) = [i \in 1 .. a |-> rs[i]]
        /\ SubSeq(rt, 1, a) = [i \in 1 .. a |-> rt[i]]
    <3>1. /\ \A i \in 1 .. a : i \in 1 .. Len(rs) /\ i \in 1 .. Len(rt)
          /\ a = 0 => 1 .. a = {}
      BY <1>1, <1>2, <1>3, <1>4
    <3> QED BY <1>1, <1>2, <1>3, <1>4, <3>1
  <2>2. IsSuffix(s, t) <=> \A i \in 1 .. a : rs[i] = rt[i]
    BY <1>2, <1>3, <1>4, <2>1 DEF IsSuffix, IsPrefix, rs, rt
  <2>3. ASSUME NEW i \in 1 .. a
        PROVE  /\ (a - i) + 1 \in 1 .. a
               /\ rs[i] = s[(a - i) + 1] /\ rt[i] = t[b - a + ((a - i) + 1)]
               /\ rs[(a - i) + 1] = s[i] /\ rt[(a - i) + 1] = t[b - a + i]
    <3>1. /\ (a - i) + 1 \in 1 .. a /\ i \in 1 .. b /\ (a - i) + 1 \in 1 .. b
          /\ b - a + ((a - i) + 1) = (b - i) + 1
          /\ (a - ((a - i) + 1)) + 1 = i
          /\ (b - ((a - i) + 1)) + 1 = b - a + i
      BY <1>1, <1>4
    <3> QED BY <1>2, <1>3, <3>1
  <2>4. ASSUME \A i \in 1 .. a : rs[i] = rt[i], NEW i \in 1 .. a
        PROVE  t[b - a + i] = s[i]
    <3>1. rs[(a - i) + 1] = rt[(a - i) + 1]
      BY <2>3, <2>4
    <3> QED BY <2>3, <3>1
  <2>5. ASSUME \A i \in 1 .. a : t[b - a + i] = s[i], NEW i \in 1 .. a
        PROVE  rs[i] = rt[i]
    <3>1. t[b - a + ((a - i) + 1)] = s[(a - i) + 1]
      BY <2>3, <2>5
    <3> QED BY <2>3, <3>1
  <2> QED BY <1>4, <2>2, <2>4, <2>5
<1>5. CASE ~(a <= b)
  BY <1>2, <1>3, <1>5 DEF IsSuffix, IsPrefix, rs, rt
<1> QED BY <1>4, <1>5

\* A dotted name behind a label without dots: a suffix that begins with a dot is
\* either the name and its dot or one of the name's own.
LEMMA SuffixOfJoined ==
    ASSUME NEW label \in Seq(Byte), NEW rest \in Seq(Byte), NEW host \in Seq(Byte),
           \A j \in DOMAIN label : label[j] # Dot
    PROVE  /\ ~IsSuffix(<<Dot>> \o host, label)
           /\ IsSuffix(<<Dot>> \o host, label \o <<Dot>> \o rest)
                  <=> host = rest \/ IsSuffix(<<Dot>> \o host, rest)
<1> DEFINE s == <<Dot>> \o host
           t == label \o <<Dot>> \o rest
           h == Len(host)
           a == Len(label)
           b == Len(rest)
<1>1. h \in Nat /\ a \in Nat /\ b \in Nat
  OBVIOUS
<1>2. <<Dot>> \in Seq(Byte) /\ Len(<<Dot>>) = 1 /\ <<Dot>>[1] = Dot
  BY HostsAssumption
<1>3. /\ s \in Seq(Byte) /\ Len(s) = 1 + h
      /\ s[1] = Dot /\ \A i \in 1 .. h : s[1 + i] = host[i]
  BY <1>1, <1>2
<1>4. /\ t \in Seq(Byte) /\ Len(t) = a + 1 + b
      /\ \A i \in 1 .. a : t[i] = label[i]
      /\ t[a + 1] = Dot /\ \A i \in 1 .. b : t[a + 1 + i] = rest[i]
  BY <1>1, <1>2
<1> HIDE DEF s, t
<1>5. 1 \in 1 .. Len(s)
  BY <1>1, <1>3
<1>6. ~IsSuffix(s, label)
  <2> SUFFICES ASSUME IsSuffix(s, label) PROVE FALSE
    OBVIOUS
  <2>1. Len(s) <= a /\ label[a - Len(s) + 1] = s[1]
    BY <1>3, <1>5, SuffixMeans
  <2>2. a - Len(s) + 1 \in DOMAIN label
    BY <1>1, <1>3, <2>1
  <2> QED BY <1>3, <2>1, <2>2
<1>7. ASSUME IsSuffix(s, t) PROVE host = rest \/ IsSuffix(s, rest)
  <2>1. /\ Len(s) <= Len(t)
        /\ \A i \in 1 .. Len(s) : t[Len(t) - Len(s) + i] = s[i]
    BY <1>3, <1>4, <1>7, SuffixMeans
  <2> DEFINE p == Len(t) - Len(s)
  <2>2. p \in Nat /\ p = a + b - h
    BY <1>1, <1>3, <1>4, <2>1
  <2> HIDE DEF p
  <2>3. /\ t[p + 1] = Dot
        /\ \A i \in 1 .. h : t[p + 1 + i] = host[i]
    <3>1. t[p + 1] = s[1]
      BY <1>5, <2>1 DEF p
    <3>2. \A i \in 1 .. h : 1 + i \in 1 .. Len(s) /\ p + (1 + i) = p + 1 + i
      BY <1>1, <1>3, <2>2
    <3>3. \A i \in 1 .. Len(s) : t[p + i] = s[i]
      BY <2>1 DEF p
    <3> QED BY <1>3, <3>1, <3>2, <3>3
  <2>4. CASE h > b
    <3>1. p + 1 \in 1 .. a
      BY <1>1, <2>2, <2>4
    <3>2. p + 1 \in DOMAIN label
      BY <3>1
    <3>3. t[p + 1] = label[p + 1]
      BY <1>4, <3>1
    <3> QED BY <2>3, <3>2, <3>3
  <2>5. CASE h = b
    <3>1. p = a
      BY <1>1, <2>2, <2>5
    <3>2. \A i \in 1 .. h : host[i] = rest[i]
      BY <1>4, <2>3, <2>5, <3>1
    <3> QED BY <2>5, <3>2, SeqEqual
  <2>6. CASE h < b
    <3>1. 1 + h <= b
      BY <1>1, <2>6
    <3>2. ASSUME NEW i \in 1 .. Len(s) PROVE rest[b - Len(s) + i] = s[i]
      <4>1. /\ b - Len(s) + i \in 1 .. b
            /\ a + 1 + (b - Len(s) + i) = Len(t) - Len(s) + i
        BY <1>1, <1>3, <1>4, <3>1
      <4> QED BY <1>4, <2>1, <4>1
    <3>3. Len(s) <= b
      BY <1>3, <3>1
    <3>4. IsSuffix(s, rest)
      BY <1>3, <3>2, <3>3, SuffixMeans
    <3> QED BY <3>4
  <2> QED BY <1>1, <2>4, <2>5, <2>6
<1>8. ASSUME host = rest PROVE IsSuffix(s, t)
  <2>1. h = b
    BY <1>8
  <2>2. Len(s) <= Len(t)
    BY <1>1, <1>3, <1>4, <2>1
  <2>3. ASSUME NEW i \in 1 .. Len(s) PROVE t[Len(t) - Len(s) + i] = s[i]
    <3>1. Len(t) - Len(s) + i = a + i
      BY <1>1, <1>3, <1>4, <2>1
    <3>2. CASE i = 1
      BY <1>3, <1>4, <3>1, <3>2
    <3>3. CASE i # 1
      <4>1. /\ i - 1 \in 1 .. h /\ i - 1 \in 1 .. b
            /\ 1 + (i - 1) = i /\ a + 1 + (i - 1) = a + i
        BY <1>1, <1>3, <2>1, <3>3
      <4>2. s[i] = host[i - 1] /\ t[a + i] = rest[i - 1]
        BY <1>3, <1>4, <4>1
      <4> QED BY <1>8, <3>1, <4>2
    <3> QED BY <3>2, <3>3
  <2> QED BY <1>3, <1>4, <2>2, <2>3, SuffixMeans
<1>9. ASSUME IsSuffix(s, rest) PROVE IsSuffix(s, t)
  <2>1. /\ Len(s) <= b
        /\ \A i \in 1 .. Len(s) : rest[b - Len(s) + i] = s[i]
    BY <1>3, <1>9, SuffixMeans
  <2>2. Len(s) <= Len(t)
    BY <1>1, <1>3, <1>4, <2>1
  <2>3. ASSUME NEW i \in 1 .. Len(s) PROVE t[Len(t) - Len(s) + i] = s[i]
    <3>1. /\ b - Len(s) + i \in 1 .. b
          /\ a + 1 + (b - Len(s) + i) = Len(t) - Len(s) + i
      BY <1>1, <1>3, <1>4, <2>1
    <3> QED BY <1>4, <2>1, <3>1
  <2> QED BY <1>3, <1>4, <2>2, <2>3, SuffixMeans
<1> QED BY <1>6, <1>7, <1>8, <1>9 DEF s, t

\* The names that end a joined name are those of its labels from each on.
LEMMA SuffixesOfJoined ==
    ASSUME NEW labels \in Seq(Seq(Byte)), NEW host \in Seq(Byte),
           \A k \in DOMAIN labels : \A j \in DOMAIN labels[k] : labels[k][j] # Dot,
           labels # <<>>
    PROVE  (Dotted(labels) = host \/ IsSuffix(<<Dot>> \o host, Dotted(labels)))
               <=> \E k \in DOMAIN labels : JoinedFrom(labels)[k] = host
<1> DEFINE n == Len(labels)
           join == JoinedFrom(labels)
           Ends(k) == \E j \in 1 .. n : j > k /\ join[j] = host
           Good == {m \in 0 .. n - 1 : IsSuffix(<<Dot>> \o host, join[m + 1]) <=> Ends(m + 1)}
<1>1. n \in Nat /\ n # 0 /\ DOMAIN labels = 1 .. n /\ n - 1 \in Nat
  BY EmptySeq
<1>2. ASSUME NEW k \in 1 .. n PROVE labels[k] \in Seq(Byte) /\ join[k] \in Seq(Byte)
  <2>1. labels[k] \in Seq(Byte)
    BY <1>1, ElementOfSeq
  <2>2. join[k] \in Seq(Byte)
    BY JoinedFacts
  <2> QED BY <2>1, <2>2
<1>3. n - 1 \in Good
  <2>1. (n - 1) + 1 = n /\ n \in 1 .. n /\ n - 1 \in 0 .. n - 1
    BY <1>1
  <2>2. join[n] = labels[n]
    BY <2>1, JoinedFacts
  <2> HIDE DEF join
  <2>3. ~IsSuffix(<<Dot>> \o host, join[n])
    BY <1>1, <1>2, <2>1, <2>2, SuffixOfJoined
  <2>4. ~Ends(n)
    BY <1>1
  <2> HIDE DEF Ends
  <2> QED BY <2>1, <2>3, <2>4
<1>4. ASSUME NEW m \in Good, m # 0 PROVE m - 1 \in Good
  <2>1. /\ m \in 1 .. n /\ m + 1 \in 1 .. n /\ m < n /\ (m - 1) + 1 = m
        /\ m - 1 \in 0 .. n - 1 /\ m \in Nat
    BY <1>1, <1>4
  <2>2. join[m] = labels[m] \o <<Dot>> \o join[m + 1]
    BY <2>1, JoinedFacts
  <2>3. IsSuffix(<<Dot>> \o host, join[m + 1]) <=> Ends(m + 1)
    OBVIOUS
  <2> HIDE DEF join, Ends, Good
  <2>4. IsSuffix(<<Dot>> \o host, join[m])
            <=> host = join[m + 1] \/ IsSuffix(<<Dot>> \o host, join[m + 1])
    <3>1. labels[m] \in Seq(Byte) /\ join[m + 1] \in Seq(Byte)
      BY <1>2, <2>1
    <3>2. \A j \in DOMAIN labels[m] : labels[m][j] # Dot
      BY <1>1, <2>1
    <3> DEFINE a == labels[m]
               b == join[m + 1]
    <3> HIDE DEF a, b
    <3>3. IsSuffix(<<Dot>> \o host, a \o <<Dot>> \o b) <=> host = b \/ IsSuffix(<<Dot>> \o host, b)
      <4>1. a \in Seq(Byte) /\ b \in Seq(Byte) /\ \A j \in DOMAIN a : a[j] # Dot
        BY <3>1, <3>2 DEF a, b
      <4> QED BY <4>1, SuffixOfJoined
    <3> QED BY <2>2, <3>3 DEF a, b
  <2>5. Ends(m) <=> host = join[m + 1] \/ Ends(m + 1)
    <3>1. \A j \in 1 .. n : j > m <=> j = m + 1 \/ j > m + 1
      BY <1>1, <2>1
    <3> QED BY <2>1, <3>1 DEF Ends
  <2>6. IsSuffix(<<Dot>> \o host, join[m]) <=> Ends(m)
    BY <2>3, <2>4, <2>5
  <2> QED BY <2>1, <2>6 DEF Good
<1>5. Good = 0 .. n - 1
  <2> HIDE DEF Good
  <2>1. Good \in SUBSET (0 .. n - 1)
    BY DEF Good
  <2> QED BY <1>1, <1>3, <1>4, <2>1, DownToAny
<1>6. IsSuffix(<<Dot>> \o host, join[1]) <=> Ends(1)
  <2>1. 0 \in 0 .. n - 1 /\ 0 + 1 = 1
    BY <1>1
  <2> HIDE DEF join, Ends
  <2> QED BY <1>5, <2>1
<1>7. Dotted(labels) = join[1]
  BY DEF Dotted
<1>8. (\E k \in 1 .. n : join[k] = host) <=> join[1] = host \/ Ends(1)
  <2>1. \A k \in 1 .. n : k = 1 \/ k > 1
    BY <1>1
  <2>2. 1 \in 1 .. n
    BY <1>1
  <2> HIDE DEF join
  <2> QED BY <2>1, <2>2
<1> QED BY <1>1, <1>6, <1>7, <1>8

\* A joined name is not empty and ends as its last label does.
LEMMA JoinedEnds ==
    ASSUME NEW labels \in Seq(Seq(Byte) \ {<<>>}), labels # <<>>
    PROVE  LET name == Dotted(labels)
               last == labels[Len(labels)]
           IN  name \in Seq(Byte) /\ name # <<>> /\ name[Len(name)] = last[Len(last)]
<1> DEFINE n == Len(labels)
           join == JoinedFrom(labels)
           last == labels[n]
           EndsSo(name) == name # <<>> /\ name[Len(name)] = last[Len(last)]
           Good == {m \in 0 .. n - 1 : EndsSo(join[m + 1])}
<1>1. n \in Nat /\ n # 0 /\ n - 1 \in Nat
  BY EmptySeq
<1>2. labels \in Seq(Seq(Byte))
  BY SeqMonotonic
<1>3. \A k \in 1 .. n : join[k] \in Seq(Byte)
  BY <1>2, JoinedFacts
<1>4. last \in Seq(Byte) /\ last # <<>>
  <2>1. n \in 1 .. n
    BY <1>1
  <2> QED BY <2>1, ElementOfSeq
<1>5. n - 1 \in Good
  <2>1. (n - 1) + 1 = n /\ n \in 1 .. n /\ n - 1 \in 0 .. n - 1
    BY <1>1
  <2>2. join[n] = last
    BY <1>2, <2>1, JoinedFacts
  <2> HIDE DEF join, last
  <2> QED BY <1>4, <2>1, <2>2
<1>6. ASSUME NEW m \in Good, m # 0 PROVE m - 1 \in Good
  <2>1. /\ m \in 1 .. n /\ m + 1 \in 1 .. n /\ m < n /\ (m - 1) + 1 = m /\ m - 1 \in 0 .. n - 1
    BY <1>1, <1>6
  <2>2. join[m] = labels[m] \o <<Dot>> \o join[m + 1]
    BY <1>2, <2>1, JoinedFacts
  <2>3. EndsSo(join[m + 1])
    OBVIOUS
  <2> DEFINE a == labels[m]
             b == join[m + 1]
             z == last[Len(last)]
  <2>4. a \in Seq(Byte) /\ b \in Seq(Byte) /\ b # <<>> /\ b[Len(b)] = z
    <3>1. a \in Seq(Byte)
      BY <1>2, <2>1, ElementOfSeq
    <3>2. b \in Seq(Byte)
      BY <1>3, <2>1
    <3> QED BY <2>3, <3>1, <3>2
  <2>5. <<Dot>> \in Seq(Byte) /\ Len(<<Dot>>) = 1
    BY HostsAssumption
  <2> HIDE DEF a, b, z, join, last
  <2>6. Len(a \o <<Dot>> \o b) = Len(a) + 1 + Len(b) /\ Len(a) \in Nat /\ Len(b) \in Nat \ {0}
    BY <2>4, <2>5, EmptySeq, ConcatProperties
  <2>7. (a \o <<Dot>> \o b)[Len(a) + 1 + Len(b)] = b[Len(b)]
    BY <2>4, <2>5, <2>6
  <2>8. a \o <<Dot>> \o b # <<>>
    BY <2>6
  <2>9. EndsSo(join[m])
    BY <2>2, <2>4, <2>6, <2>7, <2>8 DEF a, b, z
  <2> HIDE DEF EndsSo
  <2> QED BY <2>1, <2>9
<1>7. Good = 0 .. n - 1
  <2> HIDE DEF Good
  <2>1. Good \in SUBSET (0 .. n - 1)
    BY DEF Good
  <2> QED BY <1>1, <1>5, <1>6, <2>1, DownToAny
<1>8. EndsSo(join[1]) /\ join[1] \in Seq(Byte)
  <2>1. 0 \in 0 .. n - 1 /\ 0 + 1 = 1 /\ 1 \in 1 .. n
    BY <1>1
  <2> HIDE DEF join, EndsSo
  <2> QED BY <1>3, <1>7, <2>1
<1> HIDE DEF join
<1> QED BY <1>8 DEF Dotted, join

\* Whatever the name and the tokens: a token trips exactly on the names in its zone,
\* and of several tokens the first (parseQuestion, matchToken).
THEOREM TokensTripInZone ==
    \A body \in Seq(Byte), whole \in BOOLEAN, qd, ar \in Nat :
        TripsInZone(Query(whole, qd, ar, body))
<1> SUFFICES ASSUME NEW body \in Seq(Byte), NEW whole \in BOOLEAN, NEW qd \in Nat, NEW ar \in Nat
             PROVE  TripsInZone(Query(whole, qd, ar, body))
  OBVIOUS
<1> DEFINE msg      == Query(whole, qd, ar, body)
           labels   == Labels(msg.body).labels
           name     == Dotted(labels)
           dotless  == \A k \in DOMAIN labels : \A j \in DOMAIN labels[k] : labels[k][j] # Dot
           under(i) == \E k \in DOMAIN labels : JoinedFrom(labels)[k] = Hosts[i]
           held(i)  == Trimmed(name) = Hosts[i] \/ IsSuffix(<<Dot>> \o Hosts[i], Trimmed(name))
           hit      == {i \in DOMAIN Hosts : held(i)}
           trip     == Handle(msg).trip
<1>1. msg.body = body
  BY DEF Query
<1> HIDE DEF msg
<1>2. SUFFICES ASSUME ParseQuestion(msg).ok, dotless
               PROVE  /\ trip # 0 => under(trip)
                      /\ \A i \in DOMAIN Hosts : under(i) => trip # 0 /\ trip <= i
  BY Zenon DEF TripsInZone, msg
<1>3. Labels(msg.body).ok /\ ParseQuestion(msg).name = name
  BY <1>2 DEF ParseQuestion
<1>4. labels \in Seq(Seq(Byte) \ {<<>>})
  BY <1>1, <1>3, LabelsAreBytes
<1>5. trip = IF hit = {} THEN 0 ELSE Min(hit)
  BY <1>2, <1>3 DEF Handle, MatchToken
<1> HIDE DEF labels, trip
<1>6. /\ DOMAIN Hosts \subseteq Nat \ {0}
      /\ \A i \in DOMAIN Hosts : Hosts[i] \in Seq(Byte) /\ Hosts[i] # <<>>
  <2>1. DOMAIN Hosts = 1 .. Len(Hosts) /\ Len(Hosts) \in Nat
    BY HostsAssumption
  <2>2. \A i \in DOMAIN Hosts : Hosts[i] \in Seq(Byte) \ {<<>>}
    BY <2>1, HostsAssumption, ElementOfSeq
  <2> QED BY <2>1, <2>2
<1>7. ASSUME NEW i \in DOMAIN Hosts PROVE held(i) <=> under(i)
  <2>1. CASE labels = <<>>
    <3>1. name = <<>>
      <4>1. labels \in Seq(Seq(Byte)) /\ Len(labels) = 0
        BY <1>4, <2>1, SeqMonotonic
      <4>2. 1 \in 1 .. Len(labels) + 1 /\ 1 > Len(labels)
        BY <4>1
      <4>3. JoinedFrom(labels)[1] = JoinAt(labels, JoinedFrom(labels), 1)
        BY <4>1, <4>2, JoinedFromEquation
      <4> QED BY <4>2, <4>3 DEF Dotted, JoinAt
    <3>2. Trimmed(name) = <<>>
      BY <3>1 DEF Trimmed
    <3>3. ~IsSuffix(<<Dot>> \o Hosts[i], <<>>)
      <4>1. <<Dot>> \in Seq(Byte) /\ Len(<<Dot>>) = 1 /\ Hosts[i] \in Seq(Byte)
        BY <1>6, HostsAssumption
      <4>2. <<Dot>> \o Hosts[i] \in Seq(Byte) /\ Len(<<Dot>> \o Hosts[i]) > 0
        BY <4>1, ConcatProperties
      <4>3. <<>> \in Seq(Byte) /\ Len(<<>>) = 0
        OBVIOUS
      <4> DEFINE t == <<Dot>> \o Hosts[i]
                 e == <<>>
      <4>4. t \in Seq(Byte) /\ e \in Seq(Byte) /\ ~(Len(t) <= Len(e))
        BY <4>2, <4>3, LenProperties
      <4> HIDE DEF t, e
      <4>5. ~IsSuffix(t, e)
        BY <4>4, SuffixMeans
      <4> QED BY <4>5 DEF t, e
    <3>4. ~under(i)
      BY <2>1
    <3>5. Hosts[i] # <<>>
      BY <1>6
    <3> HIDE DEF name, under
    <3> QED BY <3>2, <3>3, <3>4, <3>5
  <2>2. CASE labels # <<>>
    <3> DEFINE last == labels[Len(labels)]
    <3>1. name # <<>> /\ name[Len(name)] = last[Len(last)]
      BY <1>4, <2>2, JoinedEnds
    <3>2. last[Len(last)] # Dot
      <4>1. Len(labels) \in 1 .. Len(labels) /\ DOMAIN labels = 1 .. Len(labels)
        BY <1>4, <2>2, EmptySeq
      <4>2. last \in Seq(Byte) \ {<<>>}
        BY <1>4, <4>1, ElementOfSeq
      <4> HIDE DEF last
      <4>3. Len(last) \in DOMAIN last
        BY <4>2, EmptySeq
      <4> QED BY <1>2, <4>1, <4>3 DEF last
    <3> HIDE DEF name, last
    <3>3. Trimmed(name) = name
      BY <3>1, <3>2 DEF Trimmed
    <3>4. labels \in Seq(Seq(Byte))
      BY <1>4, SeqMonotonic
    <3>5. (name = Hosts[i] \/ IsSuffix(<<Dot>> \o Hosts[i], name)) <=> under(i)
      BY <1>2, <1>6, <2>2, <3>4, SuffixesOfJoined DEF name
    <3> QED BY <3>3, <3>5
  <2> QED BY <2>1, <2>2
<1> HIDE DEF held, under
<1>8. /\ hit # {} => Min(hit) \in hit /\ \A i \in hit : Min(hit) <= i
      /\ hit \in SUBSET (Nat \ {0})
  <2>1. hit \in SUBSET Nat /\ hit \in SUBSET (Nat \ {0})
    BY <1>6
  <2>2. IsFiniteSet(hit)
    <3>1. IsFiniteSet(DOMAIN Hosts)
      BY HostsAssumption, FS_Interval
    <3> QED BY <3>1, FS_Subset
  <2> HIDE DEF hit
  <2>3. hit # {} => \E m \in hit : \A k \in hit : m <= k
    BY <2>1, <2>2, Extremes
  <2> QED BY <2>1, <2>3 DEF Min
<1>9. hit = {i \in DOMAIN Hosts : under(i)}
  BY <1>7
<1> HIDE DEF hit
<1> QED BY <1>5, <1>6, <1>8, <1>9

\* QueriesHandled holds of every datagram, not only of those the runs grow.
THEOREM QueriesAreHandled ==
    ASSUME datagram \in Seq(Byte)
    PROVE  QueriesHandled
<1>1. \A whole \in BOOLEAN, qd, ar \in Nat :
          /\ QuestionAnswered(Query(whole, qd, ar, datagram))
          /\ TripsInZone(Query(whole, qd, ar, datagram))
  BY QuestionsAreAnswered, TokensTripInZone
<1> QED BY <1>1 DEF QueriesHandled, Queries

-----------------------------------------------------------------------------
(* What a filter keeps. *)

\* A listing of a sequence is a sequence of its rows, in order.
LEMMA ListedFacts ==
    ASSUME NEW S, NEW rows \in Seq(S), NEW ids \in SUBSET (DOMAIN rows)
    PROVE  /\ ids \in SUBSET Nat /\ IsFiniteSet(ids) /\ Cardinality(ids) \in Nat
           /\ Listed(rows, ids) \in Seq(S) /\ Len(Listed(rows, ids)) = Cardinality(ids)
           /\ DOMAIN Listed(rows, ids) = 1 .. Cardinality(ids)
           /\ \A i \in 1 .. Cardinality(ids) :
                 Nth(ids, i) \in ids /\ Listed(rows, ids)[i] = rows[Nth(ids, i)]
           /\ \A id \in ids : \E i \in 1 .. Cardinality(ids) : Nth(ids, i) = id
           /\ Listed(rows, ids) = <<>> <=> ids = {}
<1> DEFINE n == Cardinality(ids)
           listed == Listed(rows, ids)
<1>1. DOMAIN rows \subseteq Nat /\ IsFiniteSet(DOMAIN rows)
  BY FS_Interval
<1>2. ids \in SUBSET Nat /\ IsFiniteSet(ids) /\ n \in Nat
  BY <1>1, FS_Subset, FS_CardinalityType
<1>3. /\ \A i \in 1 .. n : Nth(ids, i) \in ids
      /\ \A id \in ids : Nth(ids, Place(ids, id)) = id /\ Place(ids, id) \in 1 .. n
  BY <1>2, NthFacts, PlaceType
<1>4. \A id \in ids : rows[id] \in S
  BY ElementOfSeq
<1>5. listed = [i \in 1 .. n |-> rows[Nth(ids, i)]]
  BY DEF Listed
<1> HIDE DEF listed, n
<1>6. listed \in Seq(S) /\ Len(listed) = n /\ DOMAIN listed = 1 .. n
  BY <1>2, <1>3, <1>4, <1>5
<1>7. listed = <<>> <=> n = 0
  BY <1>6, EmptySeq
<1>8. n = 0 <=> ids = {}
  BY <1>2, FS_EmptySet DEF n
<1> QED BY <1>2, <1>3, <1>5, <1>6, <1>7, <1>8 DEF listed, n

\* A listing of a listing is one.
LEMMA ListedTwice ==
    ASSUME NEW S, NEW rows \in Seq(S), NEW ids \in SUBSET (DOMAIN rows),
           NEW again \in SUBSET (1 .. Cardinality(ids))
    PROVE  Listed(Listed(rows, ids), again) = Listed(rows, {Nth(ids, i) : i \in again})
<1> DEFINE n == Cardinality(again)
           left == {Nth(ids, i) : i \in again}
           f == [i \in 1 .. n |-> Nth(ids, Nth(again, i))]
<1>1. /\ ids \in SUBSET Nat /\ IsFiniteSet(ids) /\ Cardinality(ids) \in Nat
      /\ \A i \in 1 .. Cardinality(ids) : Nth(ids, i) \in ids
      /\ \A i \in 1 .. Cardinality(ids) : Listed(rows, ids)[i] = rows[Nth(ids, i)]
  BY ListedFacts
<1>2. again \in SUBSET Nat /\ IsFiniteSet(again) /\ n \in Nat
  <2>1. IsFiniteSet(1 .. Cardinality(ids)) /\ 1 .. Cardinality(ids) \subseteq Nat
    BY <1>1, FS_Interval
  <2> QED BY <2>1, FS_Subset, FS_CardinalityType
<1>3. left \in SUBSET Nat /\ left \in SUBSET ids /\ IsFiniteSet(left)
  <2>1. left \in SUBSET ids
    BY <1>1
  <2> QED BY <1>1, <2>1, FS_Subset
<1>4. /\ \A i \in 1 .. n : Nth(again, i) \in again
      /\ \A i, j \in 1 .. n : i < j => Nth(again, i) < Nth(again, j)
      /\ \A k \in again : Place(again, k) \in 1 .. n /\ Nth(again, Place(again, k)) = k
  BY <1>2, NthFacts, PlaceType
<1> HIDE DEF n
<1>5. f \in [1 .. n -> left]
  BY <1>4
<1>6. \A i, j \in 1 .. n : i < j => f[i] < f[j]
  <2> SUFFICES ASSUME NEW i \in 1 .. n, NEW j \in 1 .. n, i < j
               PROVE  Nth(ids, Nth(again, i)) < Nth(ids, Nth(again, j))
    OBVIOUS
  <2> DEFINE a == Nth(again, i)
             b == Nth(again, j)
  <2>1. a \in 1 .. Cardinality(ids) /\ b \in 1 .. Cardinality(ids) /\ a < b
    BY <1>4
  <2> HIDE DEF a, b
  <2>2. Nth(ids, a) < Nth(ids, b)
    BY <1>1, <2>1, NthFacts
  <2> QED BY <2>2 DEF a, b
<1>7. \A id \in left : \E i \in 1 .. n : f[i] = id
  BY <1>4
<1>8. Cardinality(left) = n /\ \A i \in 1 .. n : Nth(left, i) = f[i]
  <2> HIDE DEF f, left
  <2> QED BY <1>2, <1>3, <1>5, <1>6, <1>7, Enumerates
<1>9. Listed(rows, left) = [i \in 1 .. n |-> rows[Nth(ids, Nth(again, i))]]
  <2> HIDE DEF left
  <2> QED BY <1>8 DEF Listed
<1>10. Listed(Listed(rows, ids), again) = [i \in 1 .. n |-> Listed(rows, ids)[Nth(again, i)]]
  BY DEF Listed, n
<1>11. \A i \in 1 .. n : Listed(rows, ids)[Nth(again, i)] = rows[Nth(ids, Nth(again, i))]
  BY <1>1, <1>4
<1> HIDE DEF left
<1> QED BY <1>9, <1>10, <1>11 DEF left

-----------------------------------------------------------------------------
(* The narration. *)

\* The guard of one claim keeps the sentences without it.
LEMMA WithoutFacts ==
    ASSUME NEW text \in Seq(Sentence), NEW claim
    PROVE  LET kept == Without(text, claim)
           IN  /\ kept \in Seq(Sentence)
               /\ \A i \in DOMAIN kept :
                     claim \notin kept[i].claims /\ \E j \in DOMAIN text : kept[i] = text[j]
               /\ kept = <<>> <=> \A i \in DOMAIN text : claim \in text[i].claims
<1> DEFINE ids == {i \in DOMAIN text : claim \notin text[i].claims}
<1>1. ids \in SUBSET (DOMAIN text)
  OBVIOUS
<1>2. /\ Listed(text, ids) \in Seq(Sentence)
      /\ DOMAIN Listed(text, ids) = 1 .. Cardinality(ids)
      /\ \A i \in 1 .. Cardinality(ids) :
            Nth(ids, i) \in ids /\ Listed(text, ids)[i] = text[Nth(ids, i)]
      /\ Listed(text, ids) = <<>> <=> ids = {}
  <2> HIDE DEF ids
  <2> QED BY <1>1, ListedFacts
<1>3. Without(text, claim) = Listed(text, ids)
  BY DEF Without
<1> QED BY <1>2, <1>3

\* Unless every sentence claims a severity, the guards leave what claims nothing.
LEMMA GuardedIsGrounded ==
    ASSUME NEW text \in Seq(Sentence), \E i \in DOMAIN text : "severity" \notin text[i].claims
    PROVE  Guarded(text) = Listed(text, {i \in DOMAIN text : text[i].claims = {}})
<1> DEFINE ids == {i \in DOMAIN text : "severity" \notin text[i].claims}
           n == Cardinality(ids)
           kept == Listed(text, ids)
           again == {i \in DOMAIN kept : "status" \notin kept[i].claims}
<1>1. Without(text, "severity") = kept /\ kept # <<>>
  BY WithoutFacts DEF Without
<1>2. ids \in SUBSET (DOMAIN text)
  OBVIOUS
<1>3. /\ DOMAIN kept = 1 .. n
      /\ \A i \in 1 .. n : Nth(ids, i) \in ids /\ kept[i] = text[Nth(ids, i)]
      /\ \A id \in ids : \E i \in 1 .. n : Nth(ids, i) = id
  <2> HIDE DEF ids
  <2> QED BY <1>2, ListedFacts
<1> HIDE DEF kept
<1>4. Guarded(text) = Listed(kept, again)
  BY <1>1 DEF Guarded, DropConflictingSeverity, DropStatusClaims, Without
<1>5. Listed(kept, again) = Listed(text, {Nth(ids, i) : i \in again})
  <2>1. again \in SUBSET (1 .. n)
    BY <1>3
  <2> HIDE DEF ids, again
  <2> QED BY <1>2, <2>1, ListedTwice DEF kept
<1>6. {Nth(ids, i) : i \in again} = {i \in DOMAIN text : text[i].claims = {}}
  <2>1. ASSUME NEW j \in DOMAIN text
        PROVE  text[j].claims = {} <=> "severity" \notin text[j].claims /\ "status" \notin text[j].claims
    <3>1. text[j] \in Sentence
      BY ElementOfSeq
    <3>2. text[j].claims \in SUBSET {"severity", "status"}
      BY <3>1 DEF Sentence
    <3> QED BY <3>2
  <2>2. \A i \in again : /\ Nth(ids, i) \in DOMAIN text
                         /\ "severity" \notin text[Nth(ids, i)].claims
                         /\ "status" \notin text[Nth(ids, i)].claims
    BY <1>3
  <2>3. ASSUME NEW j \in DOMAIN text, "severity" \notin text[j].claims,
               "status" \notin text[j].claims
        PROVE  \E i \in again : Nth(ids, i) = j
    <3>1. PICK i \in 1 .. n : Nth(ids, i) = j
      BY <1>3, <2>3
    <3>2. kept[i] = text[j] /\ i \in DOMAIN kept
      BY <1>3, <3>1
    <3> QED BY <2>3, <3>1, <3>2
  <2> HIDE DEF again, ids
  <2> QED BY <2>1, <2>2, <2>3
<1> QED BY <1>4, <1>5, <1>6

\* The guards leave sentences without a claim of status.
LEMMA GuardedFacts ==
    ASSUME NEW text \in Seq(Sentence)
    PROVE  /\ Guarded(text) \in Seq(Sentence)
           /\ \A i \in DOMAIN Guarded(text) : "status" \notin Guarded(text)[i].claims
<1> DEFINE first == DropConflictingSeverity(text)
<1>1. first \in Seq(Sentence)
  BY WithoutFacts DEF DropConflictingSeverity
<1> HIDE DEF first
<1>2. Guarded(text) = Without(first, "status")
  BY DEF Guarded, DropStatusClaims, first
<1> QED BY <1>1, <1>2, WithoutFacts

\* So do the checks.
LEMMA VerifiedFacts ==
    ASSUME NEW verify \in Seq(Seq(Sentence))
    PROVE  \A i \in DOMAIN Verified(verify) : \A j \in DOMAIN Verified(verify)[i] :
               "status" \notin Verified(verify)[i][j].claims
<1> DEFINE left == [i \in DOMAIN verify |-> DropStatusClaims(verify[i])]
           ids == {i \in DOMAIN left : left[i] # <<>>}
           Clear(t) == \A j \in DOMAIN t : "status" \notin t[j].claims
<1>1. \A i \in DOMAIN verify : left[i] \in Seq(Sentence) /\ Clear(left[i])
  <2> TAKE i \in DOMAIN verify
  <2>1. verify[i] \in Seq(Sentence)
    BY ElementOfSeq
  <2>2. left[i] = Without(verify[i], "status")
    BY DEF DropStatusClaims
  <2> HIDE DEF left
  <2> QED BY <2>1, <2>2, WithoutFacts
<1>2. left \in Seq(Seq(Sentence)) /\ DOMAIN left = DOMAIN verify
  BY <1>1
<1>3. ids \in SUBSET (DOMAIN left)
  OBVIOUS
<1>4. Verified(verify) = Listed(left, ids)
  BY DEF Verified
<1> HIDE DEF left, ids, Clear
<1>5. /\ DOMAIN Listed(left, ids) = 1 .. Cardinality(ids)
      /\ \A i \in 1 .. Cardinality(ids) :
            Nth(ids, i) \in ids /\ Listed(left, ids)[i] = left[Nth(ids, i)]
  BY <1>2, <1>3, ListedFacts
<1>6. \A i \in DOMAIN Verified(verify) : Clear(Verified(verify)[i])
  BY <1>1, <1>2, <1>3, <1>4, <1>5
<1> QED BY <1>6 DEF Clear

\* No sentence, no length.
LEMMA NoLength == Length(<<>>) = 0
<1> DEFINE Sum(f, k) == IF k = 0 THEN 0 ELSE f[k - 1] + (<<>>)[k].length
           upTo == CHOOSE f : f = [k \in 0 .. 0 |-> Sum(f, k)]
           zero == [k \in 0 .. 0 |-> 0]
<1>1. Len(<<>>) = 0 /\ 0 .. 0 = {0}
  OBVIOUS
<1>2. Length(<<>>) = upTo[0]
  BY <1>1 DEF Length
<1>3. zero = [k \in 0 .. 0 |-> Sum(zero, k)]
  BY <1>1
<1>4. upTo = [k \in 0 .. 0 |-> Sum(upTo, k)]
  <2> HIDE DEF Sum, zero
  <2> QED BY <1>3
<1>5. upTo[0] = Sum(upTo, 0)
  <2> HIDE DEF Sum, upTo
  <2> QED BY <1>1, <1>4
<1> QED BY <1>2, <1>5

\* How the attempts from one on end.
TryAt(attempts, try, i) ==
    IF attempts[i] \notin {"retryable", "cancelled"} THEN attempts[i]
    ELSE IF i = MaxRetries + 1 THEN "unavailable"
    ELSE IF attempts[i] = "cancelled" THEN "cancelled"
    ELSE try[i + 1]

\* The attempts end in an answer exactly when one answers and those before it may be
\* retried.
LEMMA OutcomeIsFirstAnswer ==
    ASSUME NEW attempts
    PROVE  Outcome(attempts) = "answer"
               <=> \E k \in 1 .. MaxRetries + 1 :
                      /\ attempts[k] = "answer"
                      /\ \A i \in 1 .. k - 1 : attempts[i] = "retryable"
<1> DEFINE n == MaxRetries
           Good == {m \in 0 .. n : \E f : f = [i \in m + 1 .. n + 1 |-> TryAt(attempts, f, i)]}
<1>1. n \in Nat
  BY NarrationAssumption
<1>2. n \in Good
  <2> DEFINE f == [i \in n + 1 .. n + 1 |-> TryAt(attempts, <<>>, i)]
  <2>1. \A i \in n + 1 .. n + 1 : TryAt(attempts, f, i) = TryAt(attempts, <<>>, i)
    BY <1>1 DEF TryAt
  <2>2. f = [i \in n + 1 .. n + 1 |-> TryAt(attempts, f, i)]
    BY <2>1
  <2>3. n \in 0 .. n
    BY <1>1
  <2> QED BY <2>2, <2>3
<1>3. ASSUME NEW m \in Good, m # 0 PROVE m - 1 \in Good
  <2>1. PICK f : f = [i \in m + 1 .. n + 1 |-> TryAt(attempts, f, i)]
    OBVIOUS
  <2> DEFINE g == [i \in m .. n + 1 |-> IF i = m THEN TryAt(attempts, f, i) ELSE f[i]]
  <2>2. m \in 1 .. n /\ m - 1 \in 0 .. n /\ (m - 1) + 1 = m
    BY <1>1, <1>3
  <2>3. ASSUME NEW i \in m .. n + 1 PROVE g[i] = TryAt(attempts, g, i)
    <3>1. i + 1 \in m + 1 .. n + 1 => f[i + 1] = g[i + 1]
      BY <2>2
    <3>2. i \in Nat /\ (i = n + 1 \/ i + 1 \in m + 1 .. n + 1)
      BY <1>1, <2>2
    <3>3. TryAt(attempts, f, i) = TryAt(attempts, g, i)
      <4> HIDE DEF g
      <4> QED BY <3>1, <3>2 DEF TryAt
    <3>4. CASE i = m
      BY <3>3, <3>4
    <3>5. CASE i # m
      <4>1. i \in m + 1 .. n + 1
        BY <2>2, <3>5
      <4>2. f[i] = TryAt(attempts, f, i)
        BY <2>1, <4>1
      <4> QED BY <3>3, <3>5, <4>2
    <3> QED BY <3>4, <3>5
  <2>4. g = [i \in m .. n + 1 |-> TryAt(attempts, g, i)]
    BY <2>3
  <2> QED BY <2>2, <2>4
<1>4. 0 \in Good
  <2> HIDE DEF Good
  <2>1. Good \in SUBSET (0 .. n)
    BY DEF Good
  <2> QED BY <1>1, <1>2, <1>3, <2>1, DownToZero
<1> DEFINE try == CHOOSE f : f = [i \in 1 .. n + 1 |-> TryAt(attempts, f, i)]
           Answered(m) == \E k \in m .. n + 1 : /\ attempts[k] = "answer"
                                              /\ \A i \in m .. k - 1 : attempts[i] = "retryable"
           Right == {m \in 0 .. n : try[m + 1] = "answer" <=> Answered(m + 1)}
<1>5. Outcome(attempts) = try[1]
  BY DEF Outcome, TryAt
<1>6. \A i \in 1 .. n + 1 : try[i] = TryAt(attempts, try, i)
  <2>1. PICK f : f = [i \in 0 + 1 .. n + 1 |-> TryAt(attempts, f, i)]
    BY <1>4
  <2>2. 0 + 1 .. n + 1 = 1 .. n + 1
    OBVIOUS
  <2> QED BY <2>1, <2>2
<1> HIDE DEF try, n
<1>7. n \in Right
  <2>1. n + 1 \in 1 .. n + 1 /\ n \in 0 .. n /\ n + 1 .. n + 1 = {n + 1} /\ (n + 1) - 1 = n
        /\ n + 1 .. n = {}
    BY <1>1
  <2>2. try[n + 1] = "answer" <=> attempts[n + 1] = "answer"
    BY <1>6, <2>1 DEF TryAt, n
  <2>3. Answered(n + 1) <=> attempts[n + 1] = "answer"
    BY <2>1
  <2> HIDE DEF Answered
  <2> QED BY <2>1, <2>2, <2>3
<1>8. ASSUME NEW m \in Right, m # 0 PROVE m - 1 \in Right
  <2>1. /\ m \in 1 .. n + 1 /\ m # n + 1 /\ (m - 1) + 1 = m /\ m - 1 \in 0 .. n
        /\ m \in Nat /\ m <= n
    BY <1>1, <1>8
  <2>2. try[m] = "answer" <=> (\/ attempts[m] = "answer"
                               \/ attempts[m] = "retryable" /\ try[m + 1] = "answer")
    <3>1. try[m] = TryAt(attempts, try, m) /\ m # MaxRetries + 1
      BY <1>6, <2>1 DEF n
    <3> QED BY <3>1 DEF TryAt
  <2>3. try[m + 1] = "answer" <=> Answered(m + 1)
    OBVIOUS
  <2>4. ASSUME Answered(m)
        PROVE  attempts[m] = "answer" \/ (attempts[m] = "retryable" /\ Answered(m + 1))
    <3>1. PICK k \in m .. n + 1 : /\ attempts[k] = "answer"
                                  /\ \A i \in m .. k - 1 : attempts[i] = "retryable"
      BY <2>4
    <3>2. CASE k = m
      BY <3>1, <3>2
    <3>3. CASE k # m
      <4>1. k \in m + 1 .. n + 1 /\ m \in m .. k - 1 /\ \A i \in m + 1 .. k - 1 : i \in m .. k - 1
        BY <1>1, <2>1, <3>3
      <4> QED BY <3>1, <4>1
    <3> QED BY <3>2, <3>3
  <2>5. ASSUME attempts[m] = "answer" PROVE Answered(m)
    <3>1. m \in m .. n + 1 /\ m .. m - 1 = {}
      BY <1>1, <2>1
    <3> QED BY <2>5, <3>1
  <2>6. ASSUME attempts[m] = "retryable", Answered(m + 1) PROVE Answered(m)
    <3>1. PICK k \in m + 1 .. n + 1 : /\ attempts[k] = "answer"
                                      /\ \A i \in m + 1 .. k - 1 : attempts[i] = "retryable"
      BY <2>6
    <3>2. k \in m .. n + 1 /\ \A i \in m .. k - 1 : i = m \/ i \in m + 1 .. k - 1
      BY <1>1, <2>1
    <3> QED BY <2>6, <3>1, <3>2
  <2> HIDE DEF Answered
  <2>7. try[m] = "answer" <=> Answered(m)
    BY <2>2, <2>3, <2>4, <2>5, <2>6
  <2> QED BY <2>1, <2>7
<1>9. Right = 0 .. n
  <2> HIDE DEF Right
  <2>1. Right \in SUBSET (0 .. n)
    BY DEF Right
  <2> QED BY <1>1, <1>7, <1>8, <2>1, DownToAny
<1>10. try[1] = "answer" <=> Answered(1)
  <2>1. 0 \in 0 .. n /\ 0 + 1 = 1
    BY <1>1
  <2> HIDE DEF Answered
  <2> QED BY <1>9, <2>1
<1> QED BY <1>5, <1>10 DEF n

\* An answer of any length, after any attempts: what the dashboard shows of it is
\* grounded, and what is grounded is shown (Explain, applyOutputGuards).
THEOREM AnswersAreGrounded ==
    ASSUME answer \in [attempts : Seq(Attempts), text : Seq(Sentence), verify : Seq(Seq(Sentence))]
    PROVE  AnswersGrounded
<1> DEFINE text == answer.text
           verify == answer.verify
           attempts == answer.attempts
           n == MaxRetries + 1
           answered == \E k \in 1 .. n : /\ attempts[k] = "answer"
                                         /\ \A i \in 1 .. k - 1 : attempts[i] = "retryable"
           grounded == Listed(text, {i \in DOMAIN text : text[i].claims = {}})
           allConflict == \A i \in DOMAIN text : "severity" \in text[i].claims
<1>1. text \in Seq(Sentence) /\ verify \in Seq(Seq(Sentence))
  OBVIOUS
<1> HIDE DEF text, verify, attempts
<1>2. SUFFICES ASSUME NEW allowed \in BOOLEAN, NEW complete \in BOOLEAN
               PROVE  NarrationGrounded(allowed, complete, attempts, text, verify)
  BY DEF AnswersGrounded, attempts, text, verify
<1> DEFINE reply == Reply(allowed, complete, attempts, text, verify)
           shown == [available |-> TRUE, explanation |-> Guarded(text),
                     verify |-> Verified(verify), disclaimer |-> "canonical"]
<1>3. Outcome(attempts) = "answer" <=> answered
  BY OutcomeIsFirstAnswer
<1>4. /\ Guarded(text) \in Seq(Sentence)
      /\ \A i \in DOMAIN Guarded(text) : "status" \notin Guarded(text)[i].claims
  BY <1>1, GuardedFacts
<1>5. \A i \in DOMAIN Verified(verify) : \A j \in DOMAIN Verified(verify)[i] :
          "status" \notin Verified(verify)[i][j].claims
  BY <1>1, VerifiedFacts
<1>6. ~allConflict => Guarded(text) = grounded
  BY <1>1, GuardedIsGrounded
<1>7. \A i \in DOMAIN grounded : grounded[i].claims = {}
  <2> DEFINE ids == {i \in DOMAIN text : text[i].claims = {}}
  <2>1. ids \in SUBSET (DOMAIN text) /\ \A i \in ids : text[i].claims = {}
    OBVIOUS
  <2> HIDE DEF ids
  <2>2. /\ DOMAIN Listed(text, ids) = 1 .. Cardinality(ids)
        /\ \A i \in 1 .. Cardinality(ids) :
              Nth(ids, i) \in ids /\ Listed(text, ids)[i] = text[Nth(ids, i)]
    BY <1>1, <2>1, ListedFacts
  <2>3. \A i \in DOMAIN Listed(text, ids) : Listed(text, ids)[i].claims = {}
    BY <2>1, <2>2
  <2> QED BY <2>3 DEF ids
<1>8. allConflict => Length(grounded) = 0
  <2> DEFINE ids == {i \in DOMAIN text : text[i].claims = {}}
  <2>1. allConflict => ids = {}
    OBVIOUS
  <2>2. ids \in SUBSET (DOMAIN text)
    OBVIOUS
  <2> HIDE DEF ids
  <2>3. ids = {} => Listed(text, ids) = <<>>
    BY <1>1, <2>2, ListedFacts
  <2> HIDE DEF allConflict
  <2>4. allConflict => Listed(text, ids) = <<>>
    BY <2>1, <2>3
  <2> QED BY <2>4, NoLength DEF ids
<1> HIDE DEF answered, grounded, allConflict, n
<1>9. reply.available =>
          /\ allowed /\ complete /\ answered /\ reply = shown
  BY <1>3 DEF Reply, Withheld
<1>10. allowed /\ complete /\ answered /\ ~(Length(Guarded(text)) < MinGrounded) => reply.available
  BY <1>3 DEF Reply
<1>11. allowed /\ complete /\ answered /\ ~(Length(grounded) < MinGrounded)
           => reply.available
  <2>1. CASE allConflict
    BY <1>8, <2>1, NarrationAssumption
  <2>2. CASE ~allConflict
    BY <1>6, <1>10, <2>2
  <2> QED BY <2>1, <2>2
<1>12. ASSUME reply.available
       PROVE  /\ \A i \in DOMAIN reply.explanation :
                    /\ "status" \notin reply.explanation[i].claims
                    /\ "severity" \in reply.explanation[i].claims => allConflict
              /\ \A i \in DOMAIN reply.verify : \A j \in DOMAIN reply.verify[i] :
                    "status" \notin reply.verify[i][j].claims
              /\ ~allConflict => reply.explanation = grounded
              /\ reply.disclaimer = "canonical"
  <2>1. /\ reply.explanation = Guarded(text) /\ reply.verify = Verified(verify)
        /\ reply.disclaimer = "canonical"
    <3>1. reply = shown
      BY <1>9, <1>12
    <3> HIDE DEF reply
    <3> QED BY <3>1
  <2> HIDE DEF reply
  <2> QED BY <1>4, <1>5, <1>6, <1>7, <2>1
<1> HIDE DEF reply
<1> QED BY <1>9, <1>11, <1>12 DEF NarrationGrounded, reply, answered, grounded, allConflict, n

-----------------------------------------------------------------------------
(* The digests. *)

\* A set of the positions 0 to n that has 0, and with each other than n the one
\* after it, is all of them.
LEMMA UpToAny ==
    ASSUME NEW n \in Nat, NEW Good \in SUBSET (0 .. n), 0 \in Good,
           \A m \in Good : m # n => m + 1 \in Good
    PROVE  Good = 0 .. n
<1> DEFINE Bad == (0 .. n) \ Good
<1>1. Bad = {}
  <2> SUFFICES ASSUME Bad # {} PROVE FALSE
    OBVIOUS
  <2>1. Bad \in SUBSET Nat /\ IsFiniteSet(Bad)
    <3>1. IsFiniteSet(0 .. n) /\ 0 .. n \subseteq Nat
      BY FS_Interval
    <3> QED BY <3>1, FS_Subset
  <2>2. PICK p \in Bad : \A q \in Bad : p <= q
    <3> HIDE DEF Bad
    <3> QED BY <2>1, Extremes
  <2>3. p \in Nat /\ p > 0 /\ p - 1 \in 0 .. n /\ ~(p <= p - 1) /\ p - 1 # n /\ (p - 1) + 1 = p
    OBVIOUS
  <2>4. p - 1 \in Good
    BY <2>2, <2>3
  <2> QED BY <2>3, <2>4
<1> QED BY <1>1

\* The results of a step at each position on the result before it.
Results(n, S, base, step) ==
    CHOOSE f \in [0 .. n -> S] : f[0] = base /\ \A k \in 1 .. n : f[k] = step[k][f[k - 1]]

\* That they are such results.
AreResults(f, n, S, base, step) ==
    f \in [0 .. n -> S] /\ f[0] = base /\ \A k \in 1 .. n : f[k] = step[k][f[k - 1]]

\* There are such results.
LEMMA StepsDefine ==
    ASSUME NEW n \in Nat, NEW S, NEW base \in S, NEW step \in [1 .. n -> [S -> S]]
    PROVE  AreResults(Results(n, S, base, step), n, S, base, step)
<1> DEFINE Follows(f, m) == f[0] = base /\ \A k \in 1 .. m : f[k] = step[k][f[k - 1]]
           Good == {m \in 0 .. n : \E f \in [0 .. m -> S] : Follows(f, m)}
<1>1. 0 \in Good
  <2> DEFINE f == [k \in 0 .. 0 |-> base]
  <2>1. f \in [0 .. 0 -> S] /\ f[0] = base /\ 1 .. 0 = {} /\ 0 \in 0 .. n
    OBVIOUS
  <2> QED BY <2>1
<1>2. ASSUME NEW m \in Good, m # n PROVE m + 1 \in Good
  <2>1. PICK f \in [0 .. m -> S] : Follows(f, m)
    OBVIOUS
  <2>2. m \in Nat /\ m + 1 \in 1 .. n /\ m + 1 \in 0 .. n /\ m \in 0 .. m
    BY <1>2
  <2> DEFINE g == [k \in 0 .. m + 1 |-> IF k = m + 1 THEN step[m + 1][f[m]] ELSE f[k]]
  <2>3. step[m + 1][f[m]] \in S
    BY <2>2
  <2>4. \A k \in 0 .. m + 1 : k # m + 1 => k \in 0 .. m
    BY <2>2
  <2>5. g \in [0 .. m + 1 -> S]
    BY <2>3, <2>4
  <2>6. g[0] = base
    BY <2>1, <2>2
  <2>7. ASSUME NEW k \in 1 .. m + 1 PROVE g[k] = step[k][g[k - 1]]
    <3>1. k \in 0 .. m + 1 /\ k - 1 \in 0 .. m + 1 /\ k - 1 # m + 1
      BY <2>2
    <3>2. g[k - 1] = f[k - 1]
      BY <3>1
    <3>3. CASE k = m + 1
      <4>1. k - 1 = m /\ g[k] = step[m + 1][f[m]]
        BY <2>2, <3>1, <3>3
      <4> QED BY <3>2, <3>3, <4>1
    <3>4. CASE k # m + 1
      <4>1. k \in 1 .. m /\ g[k] = f[k]
        BY <2>2, <3>1, <3>4
      <4> QED BY <2>1, <3>2, <4>1
    <3> QED BY <3>3, <3>4
  <2> HIDE DEF g
  <2> QED BY <2>2, <2>5, <2>6, <2>7
<1>3. n \in Good
  <2> HIDE DEF Good
  <2>1. Good \in SUBSET (0 .. n)
    BY DEF Good
  <2>2. Good = 0 .. n
    BY <1>1, <1>2, <2>1, UpToAny
  <2> QED BY <1>1, <2>2
<1>4. PICK f \in [0 .. n -> S] : f[0] = base /\ \A k \in 1 .. n : f[k] = step[k][f[k - 1]]
  BY <1>3
<1> DEFINE Right(g) == g[0] = base /\ \A k \in 1 .. n : g[k] = step[k][g[k - 1]]
<1>5. \E g \in [0 .. n -> S] : Right(g)
  BY <1>4
<1>6. Results(n, S, base, step) = CHOOSE g \in [0 .. n -> S] : Right(g)
  BY DEF Results
<1> HIDE DEF Right
<1>7. Results(n, S, base, step) \in [0 .. n -> S] /\ Right(Results(n, S, base, step))
  BY <1>5, <1>6
<1> QED BY <1>7 DEF Right, AreResults

\* A sequence with one more in its midst.
LEMMA Around ==
    ASSUME NEW S, NEW a \in Seq(S), NEW x \in S, NEW b \in Seq(S)
    PROVE  LET t == a \o <<x>> \o b
               p == Len(a) + 1
           IN  /\ t \in Seq(S) /\ Len(t) = p + Len(b)
               /\ t[p] = x
               /\ \A i \in 1 .. Len(a) : t[i] = a[i]
               /\ \A i \in 1 .. Len(b) : t[p + i] = b[i]
<1> DEFINE upto == a \o <<x>>
           t == upto \o b
<1>1. <<x>> \in Seq(S) /\ Len(<<x>>) = 1 /\ <<x>>[1] = x /\ Len(a) \in Nat /\ Len(b) \in Nat
  OBVIOUS
<1>2. /\ upto \in Seq(S) /\ Len(upto) = Len(a) + 1 /\ upto[Len(a) + 1] = x
      /\ \A i \in 1 .. Len(a) : upto[i] = a[i]
  OBVIOUS
<1> HIDE DEF upto
<1>3. /\ t \in Seq(S) /\ Len(t) = Len(upto) + Len(b)
      /\ \A i \in 1 .. Len(upto) : t[i] = upto[i]
      /\ \A i \in 1 .. Len(b) : t[Len(upto) + i] = b[i]
  BY <1>2
<1> HIDE DEF t
<1>4. /\ Len(a) + 1 \in 1 .. Len(upto)
      /\ \A i \in 1 .. Len(a) : i \in 1 .. Len(upto)
  BY <1>1, <1>2
<1>5. /\ t \in Seq(S) /\ Len(t) = Len(a) + 1 + Len(b)
      /\ t[Len(a) + 1] = x
      /\ \A i \in 1 .. Len(a) : t[i] = a[i]
      /\ \A i \in 1 .. Len(b) : t[Len(a) + 1 + i] = b[i]
  BY <1>2, <1>3, <1>4
<1> QED BY <1>5 DEF t, upto

\* Ranks are numbers, and a severity's priority falls as its rank rises.
LEMMA Ranks ==
    ASSUME NEW severity
    PROVE  /\ SeverityRank(severity) \in 0 .. 4
           /\ SyslogSeverity(severity) = 6 - SeverityRank(severity)
<1> QED BY DEF SeverityRank, SyslogSeverity

\* How severe a finding is.
Rank(f) == SeverityRank(f.severity)

\* No finding comes after a less severe one.
Ranked(s) == \A p, q \in DOMAIN s : p < q => Rank(s[q]) <= Rank(s[p])

\* One pass of sortBySeverity: the finding goes between those at least as severe and
\* the less severe ones.
LEMMA PlacedFacts ==
    ASSUME NEW F, NEW s \in Seq(F), NEW f \in F
    PROVE  LET t == Placed(s, f)
           IN  /\ t \in Seq(F) /\ Len(t) = Len(s) + 1
               /\ \E p \in 1 .. Len(s) + 1 :
                     /\ t[p] = f
                     /\ \A q \in 1 .. Len(s) : /\ q < p  => t[q] = s[q] /\ Rank(f) <= Rank(s[q])
                                               /\ p <= q => t[q + 1] = s[q]
                     /\ Ranked(s) => \A q \in 1 .. Len(s) : p <= q => Rank(s[q]) < Rank(f)
<1> DEFINE n == Len(s)
           below == {i \in DOMAIN s : Rank(s[i]) < Rank(f)}
           p == IF below = {} THEN n + 1 ELSE Min(below)
           head == SubSeq(s, 1, p - 1)
           tail == SubSeq(s, p, n)
           t == head \o <<f>> \o tail
<1>1. n \in Nat /\ DOMAIN s = 1 .. n
  OBVIOUS
<1>2. \A q \in 1 .. n : Rank(s[q]) \in Int
  BY Ranks DEF Rank
<1>3. Rank(f) \in Int
  BY Ranks DEF Rank
<1>4. /\ p \in 1 .. n + 1
      /\ \A q \in 1 .. n : q < p => ~(Rank(s[q]) < Rank(f))
      /\ Ranked(s) => \A q \in 1 .. n : p <= q => Rank(s[q]) < Rank(f)
  <2>1. CASE below = {}
    BY <1>1, <2>1
  <2>2. CASE below # {}
    <3>1. below \in SUBSET Nat /\ IsFiniteSet(below)
      <4>1. IsFiniteSet(1 .. n) /\ below \subseteq 1 .. n
        BY <1>1, FS_Interval
      <4> QED BY <1>1, <4>1, FS_Subset
    <3>2. PICK m \in below : \A q \in below : m <= q
      <4> HIDE DEF below
      <4> QED BY <2>2, <3>1, Extremes
    <3>3. p \in below /\ \A q \in below : p <= q
      <4> HIDE DEF below
      <4> QED BY <2>2, <3>2 DEF Min
    <3> HIDE DEF p
    <3>4. p \in 1 .. n /\ Rank(s[p]) < Rank(f)
      BY <1>1, <3>3
    <3>5. ASSUME NEW q \in 1 .. n, q < p PROVE ~(Rank(s[q]) < Rank(f))
      <4>1. ~(p <= q)
        BY <3>4, <3>5
      <4>2. q \notin below
        BY <3>3, <4>1
      <4> QED BY <1>1, <4>2
    <3>6. ASSUME Ranked(s), NEW q \in 1 .. n, p <= q PROVE Rank(s[q]) < Rank(f)
      <4>1. q = p \/ p < q
        BY <3>4, <3>6
      <4>2. q = p \/ Rank(s[q]) <= Rank(s[p])
        BY <1>1, <3>4, <3>6, <4>1 DEF Ranked
      <4> QED BY <1>2, <1>3, <3>4, <4>2
    <3> QED BY <3>4, <3>5, <3>6
  <2> QED BY <2>1, <2>2
<1>5. Placed(s, f) = t
  BY DEF Placed, InsertAt, Rank
<1> HIDE DEF p
<1>6. /\ head \in Seq(F) /\ Len(head) = p - 1 /\ \A q \in 1 .. p - 1 : head[q] = s[q]
  <2>1. \A q \in 1 .. p - 1 : q \in 1 .. n
    BY <1>1, <1>4
  <2> QED BY <1>1, <1>4, <2>1, SubSeqProperties
<1>7. /\ tail \in Seq(F) /\ Len(tail) = n + 1 - p
      /\ \A q \in 1 .. n + 1 - p : tail[q] = s[p + q - 1]
  <2>1. \A q \in p .. n : q \in 1 .. n
    BY <1>1, <1>4
  <2> QED BY <1>1, <1>4, <2>1, SubSeqProperties
<1> HIDE DEF head, tail
<1>8. /\ t \in Seq(F) /\ Len(t) = n + 1
      /\ t[p] = f
      /\ \A q \in 1 .. p - 1 : t[q] = head[q]
      /\ \A q \in 1 .. n + 1 - p : t[p + q] = tail[q]
  <2>1. /\ t \in Seq(F) /\ Len(t) = Len(head) + 1 + Len(tail)
        /\ t[Len(head) + 1] = f
        /\ \A q \in 1 .. Len(head) : t[q] = head[q]
        /\ \A q \in 1 .. Len(tail) : t[Len(head) + 1 + q] = tail[q]
    <3>1. head \in Seq(F) /\ tail \in Seq(F) /\ f \in F
      BY <1>6, <1>7
    <3> QED BY <3>1, Around
  <2> HIDE DEF t
  <2>2. Len(head) + 1 = p /\ p + Len(tail) = n + 1
    BY <1>1, <1>4, <1>6, <1>7
  <2> QED BY <1>6, <1>7, <2>1, <2>2
<1> HIDE DEF t
<1>9. ASSUME NEW q \in 1 .. n
      PROVE  /\ q < p  => t[q] = s[q] /\ Rank(f) <= Rank(s[q])
             /\ p <= q => t[q + 1] = s[q]
  <2>1. CASE q < p
    <3>1. q \in 1 .. p - 1 /\ ~(p <= q)
      BY <1>4, <2>1
    <3>2. Rank(f) <= Rank(s[q])
      BY <1>2, <1>3, <1>4, <2>1
    <3> QED BY <1>6, <1>8, <3>1, <3>2
  <2>2. CASE p <= q
    <3>1. q + 1 - p \in 1 .. n + 1 - p /\ p + (q + 1 - p) = q + 1 /\ p + (q + 1 - p) - 1 = q /\ ~(q < p)
      BY <1>1, <1>4, <2>2
    <3>2. t[q + 1] = s[q]
      BY <1>7, <1>8, <3>1
    <3> QED BY <1>4, <2>2, <3>1, <3>2
  <2>3. q < p \/ p <= q
    BY <1>4
  <2> QED BY <2>1, <2>2, <2>3
<1> QED BY <1>4, <1>5, <1>8, <1>9

\* The order of a digest: more severe first, those of one severity as they came.
Before(s, i, j) == \/ Rank(s[j]) < Rank(s[i])
                   \/ Rank(s[j]) = Rank(s[i]) /\ i < j

\* The first k findings, sorted: where each of them went.
IsSort(findings, sorted, k, pi) ==
    /\ Len(sorted) = k
    /\ pi \in [1 .. k -> 1 .. k]
    /\ \A q \in 1 .. k : \E i \in 1 .. k : pi[i] = q
    /\ \A i \in 1 .. k : sorted[pi[i]] = findings[i]
    /\ \A i, j \in 1 .. k : pi[i] < pi[j] <=> Before(findings, i, j)

\* What is sorted is ranked.
LEMMA SortIsRanked ==
    ASSUME NEW F, NEW findings \in Seq(F), NEW sorted \in Seq(F), NEW k \in 0 .. Len(findings),
           NEW pi, IsSort(findings, sorted, k, pi)
    PROVE  Ranked(sorted)
<1> SUFFICES ASSUME NEW p \in 1 .. k, NEW q \in 1 .. k, p < q
             PROVE  Rank(sorted[q]) <= Rank(sorted[p])
  <2>1. DOMAIN sorted = 1 .. k
    BY DEF IsSort
  <2> QED BY <2>1 DEF Ranked
<1>1. PICK i \in 1 .. k : pi[i] = p
  BY DEF IsSort
<1>2. PICK j \in 1 .. k : pi[j] = q
  BY DEF IsSort
<1>3. Before(findings, i, j)
  BY <1>1, <1>2 DEF IsSort
<1>4. sorted[p] = findings[i] /\ sorted[q] = findings[j]
  BY <1>1, <1>2 DEF IsSort
<1>5. Rank(findings[i]) \in Int /\ Rank(findings[j]) \in Int
  BY Ranks DEF Rank
<1> QED BY <1>3, <1>4, <1>5 DEF Before

\* A pass keeps a sort.
LEMMA PassSorts ==
    ASSUME NEW F, NEW findings \in Seq(F), NEW sorted \in Seq(F), NEW k \in 0 .. Len(findings),
           NEW pi, IsSort(findings, sorted, k, pi), k # Len(findings)
    PROVE  LET t == Placed(sorted, findings[k + 1])
           IN  t \in Seq(F) /\ \E new : IsSort(findings, t, k + 1, new)
<1> DEFINE f == findings[k + 1]
           t == Placed(sorted, f)
<1>1. k \in Nat /\ k + 1 \in 1 .. Len(findings) /\ Len(sorted) = k
  BY DEF IsSort
<1>2. f \in F
  BY <1>1, ElementOfSeq
<1> HIDE DEF f
<1>3. /\ t \in Seq(F) /\ Len(t) = k + 1
      /\ \E p \in 1 .. k + 1 :
            /\ t[p] = f
            /\ \A q \in 1 .. k : /\ q < p  => t[q] = sorted[q] /\ Rank(f) <= Rank(sorted[q])
                                 /\ p <= q => t[q + 1] = sorted[q] /\ Rank(sorted[q]) < Rank(f)
  <2>1. Ranked(sorted)
    BY SortIsRanked
  <2> QED BY <1>1, <1>2, <2>1, PlacedFacts
<1> HIDE DEF t
<1>4. PICK p \in 1 .. k + 1 :
            /\ t[p] = f
            /\ \A q \in 1 .. k : /\ q < p  => t[q] = sorted[q] /\ Rank(f) <= Rank(sorted[q])
                                 /\ p <= q => t[q + 1] = sorted[q] /\ Rank(sorted[q]) < Rank(f)
  BY <1>3
<1> DEFINE new == [i \in 1 .. k + 1 |-> IF i = k + 1 THEN p
                                        ELSE IF pi[i] < p THEN pi[i] ELSE pi[i] + 1]
<1>5. \A i \in 1 .. k : pi[i] \in 1 .. k
  BY DEF IsSort
<1>6. /\ new[k + 1] = p /\ p \in Int
      /\ \A i \in 1 .. k : /\ i \in 1 .. k + 1 /\ i # k + 1 /\ pi[i] \in Int
                           /\ new[i] = IF pi[i] < p THEN pi[i] ELSE pi[i] + 1
  BY <1>1, <1>5
<1>7. \A i \in 1 .. k + 1 : i = k + 1 \/ i \in 1 .. k
  BY <1>1
<1>8. new \in [1 .. k + 1 -> 1 .. k + 1]
  <2>1. \A i \in 1 .. k : new[i] \in 1 .. k + 1
    BY <1>1, <1>5, <1>6
  <2> QED BY <1>6, <1>7, <2>1
<1> HIDE DEF new
<1>9. ASSUME NEW q \in 1 .. k + 1 PROVE \E i \in 1 .. k + 1 : new[i] = q
  <2>1. CASE q = p
    BY <1>1, <1>6, <2>1
  <2>2. CASE q < p
    <3>1. q \in 1 .. k
      BY <1>1, <2>2
    <3>2. PICK i \in 1 .. k : pi[i] = q
      BY <3>1 DEF IsSort
    <3> QED BY <1>6, <2>2, <3>2
  <2>3. CASE p < q
    <3>1. q - 1 \in 1 .. k /\ ~(q - 1 < p) /\ (q - 1) + 1 = q
      BY <1>1, <2>3
    <3>2. PICK i \in 1 .. k : pi[i] = q - 1
      BY <3>1 DEF IsSort
    <3> QED BY <1>6, <3>1, <3>2
  <2> QED BY <1>1, <2>1, <2>2, <2>3
<1>10. ASSUME NEW i \in 1 .. k + 1 PROVE t[new[i]] = findings[i]
  <2>1. CASE i = k + 1
    BY <1>4, <1>6, <2>1 DEF f
  <2>2. CASE i \in 1 .. k
    <3>1. sorted[pi[i]] = findings[i]
      BY <2>2 DEF IsSort
    <3>2. pi[i] < p \/ p <= pi[i]
      BY <1>6, <2>2
    <3>3. CASE pi[i] < p
      BY <1>4, <1>5, <1>6, <2>2, <3>1, <3>3
    <3>4. CASE p <= pi[i]
      <4>1. ~(pi[i] < p)
        BY <1>6, <2>2, <3>4
      <4>2. new[i] = pi[i] + 1
        BY <1>6, <2>2, <4>1
      <4>3. t[pi[i] + 1] = sorted[pi[i]]
        BY <1>4, <1>5, <2>2, <3>4
      <4> QED BY <3>1, <4>2, <4>3
    <3> QED BY <3>2, <3>3, <3>4
  <2> QED BY <1>7, <2>1, <2>2
<1>11. \A i \in 1 .. k + 1 : Rank(findings[i]) \in Int
  BY Ranks DEF Rank
<1>12. ASSUME NEW i \in 1 .. k, NEW j \in 1 .. k PROVE new[i] < new[j] <=> pi[i] < pi[j]
  BY <1>6
<1>13. ASSUME NEW i \in 1 .. k
       PROVE  /\ new[i] < new[k + 1] <=> Before(findings, i, k + 1)
              /\ new[k + 1] < new[i] <=> Before(findings, k + 1, i)
  <2>1. sorted[pi[i]] = findings[i] /\ pi[i] \in 1 .. k
    BY <1>5 DEF IsSort
  <2>2. /\ pi[i] < p  => Rank(f) <= Rank(findings[i])
        /\ p <= pi[i] => Rank(findings[i]) < Rank(f)
    BY <1>4, <2>1
  <2>3. /\ Rank(f) \in Int /\ Rank(findings[i]) \in Int /\ Rank(findings[k + 1]) = Rank(f)
        /\ i < k + 1 /\ ~(k + 1 < i)
    BY <1>1, Ranks DEF Rank, f
  <2>4. /\ pi[i] < p  <=> Rank(f) <= Rank(findings[i])
        /\ p <= pi[i] <=> Rank(findings[i]) < Rank(f)
    BY <1>6, <2>2, <2>3
  <2>5. /\ Before(findings, i, k + 1) <=> Rank(f) <= Rank(findings[i])
        /\ Before(findings, k + 1, i) <=> Rank(findings[i]) < Rank(f)
    BY <2>3 DEF Before
  <2>6. (new[i] < p <=> pi[i] < p) /\ (p < new[i] <=> p <= pi[i])
    BY <1>6
  <2> QED BY <1>6, <2>4, <2>5, <2>6
<1>14. ASSUME NEW i \in 1 .. k + 1, NEW j \in 1 .. k + 1
       PROVE  new[i] < new[j] <=> Before(findings, i, j)
  <2>1. CASE i \in 1 .. k /\ j \in 1 .. k
    BY <1>12, <2>1 DEF IsSort
  <2>2. CASE i = k + 1 /\ j = k + 1
    <3>1. ~(new[i] < new[j])
      BY <1>6, <2>2
    <3>2. ~Before(findings, i, j)
      BY <1>1, <1>11, <2>2 DEF Before
    <3> QED BY <3>1, <3>2
  <2> QED BY <1>7, <1>13, <2>1, <2>2
<1>15. IsSort(findings, t, k + 1, new)
  BY <1>3, <1>8, <1>9, <1>10, <1>14 DEF IsSort
<1> QED BY <1>3, <1>15 DEF t, f

\* The passes of sortBySeverity, each on what the one before it left.
LEMMA SortedUpToEquation ==
    ASSUME NEW F, NEW findings \in Seq(F), NEW k \in 0 .. Len(findings)
    PROVE  SortedUpTo(findings)[k] =
               IF k = 0 THEN <<>> ELSE Placed(SortedUpTo(findings)[k - 1], findings[k])
<1> DEFINE n == Len(findings)
           Pass(f, i) == IF i = 0 THEN <<>> ELSE Placed(f[i - 1], findings[i])
           step == [i \in 1 .. n |-> [s \in Seq(F) |-> Placed(s, findings[i])]]
           sorted == CHOOSE f : f = [i \in 0 .. n |-> Pass(f, i)]
           f == Results(n, Seq(F), <<>>, step)
<1>1. n \in Nat /\ <<>> \in Seq(F)
  OBVIOUS
<1>2. step \in [1 .. n -> [Seq(F) -> Seq(F)]]
  <2>1. ASSUME NEW i \in 1 .. n, NEW s \in Seq(F) PROVE Placed(s, findings[i]) \in Seq(F)
    <3>1. findings[i] \in F
      BY ElementOfSeq
    <3> QED BY <3>1, PlacedFacts
  <2> QED BY <2>1
<1>3. f \in [0 .. n -> Seq(F)] /\ f[0] = <<>> /\ \A i \in 1 .. n : f[i] = step[i][f[i - 1]]
  <2> DEFINE R == Seq(F)
             none == <<>>
  <2>1. n \in Nat /\ none \in R /\ step \in [1 .. n -> [R -> R]]
    BY <1>1, <1>2
  <2> HIDE DEF n, step, R, none
  <2>2. AreResults(Results(n, R, none, step), n, R, none, step)
    BY <2>1, StepsDefine
  <2> HIDE DEF f
  <2>3. f = Results(n, R, none, step)
    BY DEF f, R, none
  <2>4. AreResults(f, n, R, none, step)
    BY <2>2, <2>3
  <2> QED BY <2>4, Zenon DEF R, none, AreResults
<1> HIDE DEF f
<1>4. ASSUME NEW i \in 0 .. n PROVE f[i] = Pass(f, i)
  <2>1. CASE i = 0
    BY <1>3, <2>1
  <2>2. CASE i # 0
    <3>1. i \in 1 .. n /\ i - 1 \in 0 .. n
      BY <1>1, <2>2
    <3>2. f[i - 1] \in Seq(F)
      BY <1>3, <3>1
    <3>3. step[i][f[i - 1]] = Placed(f[i - 1], findings[i])
      BY <3>1, <3>2
    <3> HIDE DEF step
    <3> QED BY <1>3, <2>2, <3>1, <3>3
  <2> QED BY <2>1, <2>2
<1>5. f = [i \in 0 .. n |-> Pass(f, i)]
  <2> HIDE DEF Pass, n
  <2> QED BY <1>3, <1>4
<1>6. sorted = [i \in 0 .. n |-> Pass(sorted, i)]
  <2> HIDE DEF Pass, n
  <2> QED BY <1>5
<1>7. SortedUpTo(findings) = sorted
  BY DEF SortedUpTo
<1> HIDE DEF sorted
<1>8. sorted[k] = Pass(sorted, k)
  <2> HIDE DEF Pass
  <2> QED BY <1>6
<1> QED BY <1>7, <1>8

\* A digest's findings, sorted: there is one place for each of them.
LEMMA SortedIsSort ==
    ASSUME NEW F, NEW findings \in Seq(F)
    PROVE  /\ Sorted(findings) \in Seq(F)
           /\ \E pi : IsSort(findings, Sorted(findings), Len(findings), pi)
<1> DEFINE n == Len(findings)
           sorted == SortedUpTo(findings)
           Good == {k \in 0 .. n : sorted[k] \in Seq(F) /\ \E pi : IsSort(findings, sorted[k], k, pi)}
<1>1. n \in Nat /\ 0 \in 0 .. n
  OBVIOUS
<1>2. 0 \in Good
  <2>1. sorted[0] = <<>>
    BY <1>1, SortedUpToEquation
  <2>2. IsSort(findings, <<>>, 0, <<>>)
    <3>1. <<>> \in [1 .. 0 -> 1 .. 0] /\ 1 .. 0 = {} /\ Len(<<>>) = 0
      OBVIOUS
    <3> QED BY <3>1 DEF IsSort
  <2>3. sorted[0] \in Seq(F) /\ IsSort(findings, sorted[0], 0, <<>>)
    BY <2>1, <2>2
  <2> HIDE DEF sorted
  <2> QED BY <1>1, <2>3
<1>3. ASSUME NEW k \in Good, k # n PROVE k + 1 \in Good
  <2>1. k \in 0 .. n /\ k + 1 \in 0 .. n /\ k + 1 # 0 /\ (k + 1) - 1 = k
    BY <1>1, <1>3
  <2>2. sorted[k + 1] = Placed(sorted[k], findings[k + 1])
    BY <2>1, SortedUpToEquation
  <2>3. PICK pi : IsSort(findings, sorted[k], k, pi)
    OBVIOUS
  <2>4. sorted[k] \in Seq(F)
    OBVIOUS
  <2> HIDE DEF sorted
  <2>5. /\ Placed(sorted[k], findings[k + 1]) \in Seq(F)
        /\ \E new : IsSort(findings, Placed(sorted[k], findings[k + 1]), k + 1, new)
    BY <1>3, <2>1, <2>3, <2>4, PassSorts
  <2> QED BY <2>1, <2>2, <2>5
<1>4. n \in Good
  <2> HIDE DEF Good
  <2>1. Good \in SUBSET (0 .. n)
    BY DEF Good
  <2>2. Good = 0 .. n
    BY <1>1, <1>2, <1>3, <2>1, UpToAny
  <2> QED BY <1>1, <2>2
<1> QED BY <1>4 DEF Sorted

\* Of the first n findings those that do not come after a finding in a sort.
NotAfter(findings, n, i) ==
    {j \in 1 .. n : \/ Rank(findings[i]) < Rank(findings[j])
                    \/ Rank(findings[j]) = Rank(findings[i]) /\ j <= i}

\* The place of a finding in a sort, by counting.
LEMMA PlaceInSort ==
    ASSUME NEW findings, NEW n \in Nat, NEW sorted, NEW pi, IsSort(findings, sorted, n, pi),
           NEW i \in 1 .. n
    PROVE  Cardinality(NotAfter(findings, n, i)) = pi[i]
<1> DEFINE upto == {j \in 1 .. n : \/ Rank(findings[i]) < Rank(findings[j])
                                   \/ Rank(findings[j]) = Rank(findings[i]) /\ j <= i}
           places == [j \in upto |-> pi[j]]
<1>1. \A j \in 1 .. n : pi[j] \in 1 .. n /\ pi[j] \in Int
  BY DEF IsSort
<1>2. \A j \in 1 .. n : Rank(findings[j]) \in Int
  BY Ranks DEF Rank
<1>3. ASSUME NEW a \in 1 .. n, NEW b \in 1 .. n, pi[a] = pi[b] PROVE a = b
  <2>1. ~Before(findings, a, b) /\ ~Before(findings, b, a)
    BY <1>1, <1>3 DEF IsSort
  <2> QED BY <1>2, <2>1 DEF Before
<1>4. ASSUME NEW j \in 1 .. n PROVE j \in upto <=> pi[j] <= pi[i]
  <2>1. j \in upto <=> j = i \/ Before(findings, j, i)
    BY <1>2 DEF Before
  <2>2. pi[j] <= pi[i] <=> j = i \/ pi[j] < pi[i]
    BY <1>1, <1>3
  <2> HIDE DEF upto
  <2> QED BY <2>1, <2>2 DEF IsSort
<1>5. upto \in SUBSET (1 .. n)
  OBVIOUS
<1> HIDE DEF upto
<1>6. places \in Bijection(upto, 1 .. pi[i])
  <2>1. ASSUME NEW j \in upto PROVE places[j] = pi[j] /\ places[j] \in 1 .. pi[i]
    BY <1>1, <1>4, <1>5
  <2>2. ASSUME NEW a \in upto, NEW b \in upto, places[a] = places[b] PROVE a = b
    BY <1>3, <1>5, <2>1, <2>2
  <2>3. ASSUME NEW q \in 1 .. pi[i] PROVE \E j \in upto : places[j] = q
    <3>1. q \in 1 .. n /\ q <= pi[i]
      BY <1>1
    <3>2. PICK j \in 1 .. n : pi[j] = q
      BY <3>1 DEF IsSort
    <3>3. j \in upto
      BY <1>4, <3>1, <3>2
    <3> QED BY <2>1, <3>2, <3>3
  <2>4. places \in [upto -> 1 .. pi[i]]
    BY <2>1
  <2> HIDE DEF places
  <2> QED BY <2>2, <2>3, <2>4 DEF Bijection, Injection, Surjection, IsInjective
<1>7. IsFiniteSet(upto)
  <2>1. IsFiniteSet(1 .. n)
    BY FS_Interval
  <2> QED BY <1>5, <2>1, FS_Subset
<1>8. Cardinality(1 .. pi[i]) = pi[i]
  <2>1. pi[i] \in Int /\ pi[i] >= 1
    BY <1>1
  <2> QED BY <2>1, FS_Interval
<1>9. Cardinality(upto) = Cardinality(1 .. pi[i])
  BY <1>6, <1>7, FS_Bijection DEF ExistsBijection
<1> QED BY <1>8, <1>9 DEF upto, NotAfter

\* One sequence after another.
LEMMA Joined ==
    ASSUME NEW S, NEW a \in Seq(S), NEW b \in Seq(S)
    PROVE  /\ a \o b \in Seq(S) /\ Len(a \o b) = Len(a) + Len(b)
           /\ \A i \in 1 .. Len(a) : (a \o b)[i] = a[i]
           /\ \A i \in 1 .. Len(b) : (a \o b)[Len(a) + i] = b[i]
           /\ Len(a) \in Nat /\ Len(b) \in Nat
<1> QED OBVIOUS

\* A line with its end after what was written before it.
LEMMA LineAfter ==
    ASSUME NEW S, NEW a \in Seq(S), NEW b \in Seq(S), NEW x \in S
    PROVE  LET t == a \o b \o <<x>>
           IN  /\ t \in Seq(S) /\ Len(t) = Len(a) + Len(b) + 1
               /\ \A i \in 1 .. Len(a) : t[i] = a[i]
               /\ \A i \in 1 .. Len(b) : t[Len(a) + i] = b[i]
               /\ t[Len(a) + Len(b) + 1] = x
<1> DEFINE upto == a \o b
           t == upto \o <<x>>
<1>1. <<x>> \in Seq(S) /\ Len(<<x>>) = 1 /\ <<x>>[1] = x /\ Len(a) \in Nat /\ Len(b) \in Nat
  OBVIOUS
<1>2. /\ upto \in Seq(S) /\ Len(upto) = Len(a) + Len(b)
      /\ \A i \in 1 .. Len(a) : upto[i] = a[i]
      /\ \A i \in 1 .. Len(b) : upto[Len(a) + i] = b[i]
  OBVIOUS
<1> HIDE DEF upto
<1>3. /\ t \in Seq(S) /\ Len(t) = Len(upto) + 1
      /\ \A i \in 1 .. Len(upto) : t[i] = upto[i]
      /\ t[Len(upto) + 1] = x
  <2> DEFINE one == <<x>>
  <2>1. one \in Seq(S) /\ Len(one) = 1 /\ one[1] = x
    BY <1>1
  <2> HIDE DEF one
  <2>2. upto \in Seq(S) /\ one \in Seq(S)
    BY <1>2, <2>1
  <2>3. /\ upto \o one \in Seq(S) /\ Len(upto \o one) = Len(upto) + Len(one)
        /\ \A i \in 1 .. Len(upto) : (upto \o one)[i] = upto[i]
        /\ \A i \in 1 .. Len(one) : (upto \o one)[Len(upto) + i] = one[i]
    BY <2>2, Joined
  <2>4. 1 \in 1 .. Len(one)
    BY <2>1
  <2> QED BY <2>1, <2>3, <2>4 DEF one
<1> HIDE DEF t
<1>4. /\ \A i \in 1 .. Len(a) : i \in 1 .. Len(upto)
      /\ \A i \in 1 .. Len(b) : Len(a) + i \in 1 .. Len(upto)
  BY <1>1, <1>2
<1>5. /\ t \in Seq(S) /\ Len(t) = Len(a) + Len(b) + 1
      /\ \A i \in 1 .. Len(a) : t[i] = a[i]
      /\ \A i \in 1 .. Len(b) : t[Len(a) + i] = b[i]
      /\ t[Len(a) + Len(b) + 1] = x
  BY <1>2, <1>3, <1>4
<1> QED BY <1>5 DEF t, upto

\* Lines, each after the ones before it.
LEMMA StreamUpToEquation ==
    ASSUME NEW frames \in Seq(Seq(Nat)), NEW k \in 0 .. Len(frames)
    PROVE  StreamUpTo(frames)[k] =
               IF k = 0 THEN <<>> ELSE StreamUpTo(frames)[k - 1] \o frames[k] \o <<LineEnd>>
<1> DEFINE n == Len(frames)
           Line(f, i) == IF i = 0 THEN <<>> ELSE f[i - 1] \o frames[i] \o <<LineEnd>>
           step == [i \in 1 .. n |-> [s \in Seq(Nat) |-> s \o frames[i] \o <<LineEnd>>]]
           stream == CHOOSE f : f = [i \in 0 .. n |-> Line(f, i)]
           f == Results(n, Seq(Nat), <<>>, step)
<1>1. n \in Nat /\ <<>> \in Seq(Nat)
  OBVIOUS
<1>2. step \in [1 .. n -> [Seq(Nat) -> Seq(Nat)]]
  <2>1. ASSUME NEW i \in 1 .. n, NEW s \in Seq(Nat) PROVE s \o frames[i] \o <<LineEnd>> \in Seq(Nat)
    <3>1. frames[i] \in Seq(Nat) /\ LineEnd \in Nat
      BY ElementOfSeq DEF LineEnd
    <3> HIDE DEF LineEnd
    <3> QED BY <3>1, LineAfter
  <2> QED BY <2>1
<1>3. f \in [0 .. n -> Seq(Nat)] /\ f[0] = <<>> /\ \A i \in 1 .. n : f[i] = step[i][f[i - 1]]
  <2> DEFINE R == Seq(Nat)
             none == <<>>
  <2>1. n \in Nat /\ none \in R /\ step \in [1 .. n -> [R -> R]]
    BY <1>1, <1>2
  <2> HIDE DEF n, step, R, none
  <2>2. AreResults(Results(n, R, none, step), n, R, none, step)
    BY <2>1, StepsDefine
  <2> HIDE DEF f
  <2>3. f = Results(n, R, none, step)
    BY DEF f, R, none
  <2>4. AreResults(f, n, R, none, step)
    BY <2>2, <2>3
  <2> QED BY <2>4, Zenon DEF R, none, AreResults
<1> HIDE DEF f
<1>4. ASSUME NEW i \in 0 .. n PROVE f[i] = Line(f, i)
  <2>1. CASE i = 0
    BY <1>3, <2>1
  <2>2. CASE i # 0
    <3>1. i \in 1 .. n /\ i - 1 \in 0 .. n
      BY <1>1, <2>2
    <3>2. f[i - 1] \in Seq(Nat)
      BY <1>3, <3>1
    <3>3. step[i][f[i - 1]] = f[i - 1] \o frames[i] \o <<LineEnd>>
      BY <3>1, <3>2
    <3> HIDE DEF step
    <3> QED BY <1>3, <2>2, <3>1, <3>3
  <2> QED BY <2>1, <2>2
<1>5. f = [i \in 0 .. n |-> Line(f, i)]
  <2> HIDE DEF Line, n
  <2> QED BY <1>3, <1>4
<1>6. stream = [i \in 0 .. n |-> Line(stream, i)]
  <2> HIDE DEF Line, n
  <2> QED BY <1>5
<1>7. StreamUpTo(frames) = stream
  BY DEF StreamUpTo
<1> HIDE DEF stream
<1>8. stream[k] = Line(stream, k)
  <2> HIDE DEF Line
  <2> QED BY <1>6
<1> QED BY <1>7, <1>8

\* What has been written when a line has been.
Written(frames, k) == Len(StreamUpTo(frames)[k])

\* A line and its end come after what was written before.
LEMMA WrittenGrows ==
    ASSUME NEW frames \in Seq(Seq(Nat)), NEW k \in 1 .. Len(frames)
    PROVE  LET s == StreamUpTo(frames)
           IN  /\ s[k] \in Seq(Nat) /\ s[k - 1] \in Seq(Nat)
               /\ Written(frames, k - 1) \in Nat /\ Len(frames[k]) \in Nat
               /\ Written(frames, k) = Written(frames, k - 1) + Len(frames[k]) + 1
               /\ \A i \in 1 .. Written(frames, k - 1) : s[k][i] = s[k - 1][i]
               /\ \A i \in 1 .. Len(frames[k]) : s[k][Written(frames, k - 1) + i] = frames[k][i]
               /\ s[k][Written(frames, k)] = LineEnd
<1> DEFINE n == Len(frames)
           s == StreamUpTo(frames)
           Good == {m \in 0 .. n : s[m] \in Seq(Nat)}
<1>1. n \in Nat /\ 0 \in 0 .. n
  OBVIOUS
<1>2. LineEnd \in Nat
  BY DEF LineEnd
<1>3. \A m \in 1 .. n : s[m] = s[m - 1] \o frames[m] \o <<LineEnd>>
  <2> TAKE m \in 1 .. n
  <2>1. m \in 0 .. n /\ m # 0
    OBVIOUS
  <2> QED BY <2>1, StreamUpToEquation
<1>4. s[0] = <<>>
  BY <1>1, StreamUpToEquation
<1> HIDE DEF s
<1>5. \A m \in 1 .. n : frames[m] \in Seq(Nat)
  BY ElementOfSeq
<1>6. Good = 0 .. n
  <2>1. 0 \in Good
    <3>1. s[0] \in Seq(Nat)
      BY <1>4
    <3> QED BY <1>1, <3>1
  <2>2. ASSUME NEW m \in Good, m # n PROVE m + 1 \in Good
    <3>1. m + 1 \in 1 .. n /\ m + 1 \in 0 .. n /\ (m + 1) - 1 = m
      BY <1>1, <2>2
    <3>2. s[m] \in Seq(Nat) /\ frames[m + 1] \in Seq(Nat)
      BY <1>5, <3>1
    <3>3. s[m] \o frames[m + 1] \o <<LineEnd>> \in Seq(Nat)
      BY <1>2, <3>2, LineAfter
    <3>4. s[m + 1] = s[m] \o frames[m + 1] \o <<LineEnd>>
      BY <1>3, <3>1
    <3> QED BY <3>1, <3>3, <3>4
  <2> HIDE DEF Good
  <2>3. Good \in SUBSET (0 .. n)
    BY DEF Good
  <2> QED BY <1>1, <2>1, <2>2, <2>3, UpToAny
<1>7. k \in 0 .. n /\ k - 1 \in 0 .. n
  BY <1>1
<1> DEFINE a == s[k - 1]
           b == frames[k]
<1>8. a \in Seq(Nat) /\ b \in Seq(Nat) /\ s[k] \in Seq(Nat)
  BY <1>5, <1>6, <1>7
<1>9. s[k] = a \o b \o <<LineEnd>>
  BY <1>3
<1> HIDE DEF a, b, LineEnd
<1>10. LET t == a \o b \o <<LineEnd>>
       IN  /\ Len(t) = Len(a) + Len(b) + 1
           /\ \A i \in 1 .. Len(a) : t[i] = a[i]
           /\ \A i \in 1 .. Len(b) : t[Len(a) + i] = b[i]
           /\ t[Len(a) + Len(b) + 1] = LineEnd
  <2> DEFINE R == Nat
  <2>1. a \in Seq(R) /\ b \in Seq(R) /\ LineEnd \in R
    BY <1>2, <1>8
  <2> HIDE DEF R
  <2> QED BY <2>1, LineAfter
<1>11. Len(a) \in Nat /\ Len(b) \in Nat
  BY <1>8
<1>12. Written(frames, k) = Len(s[k]) /\ Written(frames, k - 1) = Len(a)
  BY DEF Written, s, a
<1> QED BY <1>8, <1>9, <1>10, <1>11, <1>12 DEF a, b, s

\* What is written stays, and every line adds to it.
LEMMA WrittenStays ==
    ASSUME NEW frames \in Seq(Seq(Nat)), NEW k \in 0 .. Len(frames)
    PROVE  LET s == StreamUpTo(frames)
           IN  /\ s[k] \in Seq(Nat) /\ Written(frames, k) \in Nat
               /\ Written(frames, 0) = 0
               /\ \A j \in 0 .. k :
                     /\ j # k => Written(frames, j) < Written(frames, k)
                     /\ \A i \in 1 .. Written(frames, j) : s[k][i] = s[j][i]
<1> DEFINE n == Len(frames)
           s == StreamUpTo(frames)
           w(m) == Written(frames, m)
           Stays(m) == /\ s[m] \in Seq(Nat) /\ w(m) \in Nat
                       /\ \A j \in 0 .. m : /\ j # m => w(j) < w(m)
                                            /\ w(j) \in Nat
                                            /\ \A i \in 1 .. w(j) : s[m][i] = s[j][i]
           Good == {m \in 0 .. n : Stays(m)}
<1>1. n \in Nat /\ 0 \in 0 .. n
  OBVIOUS
<1>2. w(0) = 0 /\ s[0] \in Seq(Nat)
  <2>1. s[0] = <<>>
    BY <1>1, StreamUpToEquation
  <2> QED BY <2>1 DEF Written
<1>3. 0 \in Good
  <2>1. \A j \in 0 .. 0 : j = 0
    OBVIOUS
  <2>2. Stays(0)
    <3> HIDE DEF s, w
    <3> QED BY <1>2, <2>1
  <2> QED BY <1>1, <2>2
<1>4. ASSUME NEW m \in Good, m # n PROVE m + 1 \in Good
  <2>1. m \in 0 .. n /\ m + 1 \in 1 .. n /\ m + 1 \in 0 .. n /\ (m + 1) - 1 = m
    BY <1>1, <1>4
  <2>2. Stays(m)
    OBVIOUS
  <2>3. /\ s[m + 1] \in Seq(Nat) /\ w(m) \in Nat /\ Len(frames[m + 1]) \in Nat
        /\ w(m + 1) = w(m) + Len(frames[m + 1]) + 1
        /\ \A i \in 1 .. w(m) : s[m + 1][i] = s[m][i]
    BY <2>1, WrittenGrows
  <2> HIDE DEF s, w
  <2>4. w(m + 1) \in Nat /\ w(m) < w(m + 1)
    <3> DEFINE p == w(m)
               q == w(m + 1)
               l == Len(frames[m + 1])
    <3>1. p \in Nat /\ l \in Nat /\ q = p + l + 1
      BY <2>3
    <3> HIDE DEF p, q, l
    <3>2. q \in Nat /\ p < q
      BY <3>1
    <3> QED BY <3>2 DEF p, q
  <2>5. ASSUME NEW j \in 0 .. m + 1
        PROVE  /\ j # m + 1 => w(j) < w(m + 1)
               /\ w(j) \in Nat
               /\ \A i \in 1 .. w(j) : s[m + 1][i] = s[j][i]
    <3>1. CASE j = m + 1
      BY <2>4, <3>1
    <3>2. CASE j # m + 1
      <4>1. j \in 0 .. m
        BY <2>1, <3>2
      <4>2. w(j) \in Nat /\ (j = m \/ w(j) < w(m)) /\ \A i \in 1 .. w(j) : s[m][i] = s[j][i]
        BY <2>2, <4>1
      <4>3. w(j) < w(m + 1) /\ \A i \in 1 .. w(j) : i \in 1 .. w(m)
        BY <2>3, <2>4, <4>2
      <4> QED BY <2>3, <4>2, <4>3
    <3> QED BY <3>1, <3>2
  <2>6. Stays(m + 1)
    BY <2>3, <2>4, <2>5
  <2> HIDE DEF Stays
  <2> QED BY <2>1, <2>6
<1>5. k \in Good
  <2> HIDE DEF Good
  <2>1. Good \in SUBSET (0 .. n)
    BY DEF Good
  <2>2. Good = 0 .. n
    BY <1>1, <1>3, <1>4, <2>1, UpToAny
  <2> QED BY <2>2
<1> QED BY <1>2, <1>5

\* The stream, line by line: each line's characters, then its end.
LEMMA StreamLines ==
    ASSUME NEW frames \in Seq(Seq(Nat)), NEW k \in 1 .. Len(frames)
    PROVE  /\ Stream(frames) \in Seq(Nat) /\ Len(Stream(frames)) = Written(frames, Len(frames))
           /\ Written(frames, k) \in Nat /\ Written(frames, k - 1) \in Nat /\ Len(frames[k]) \in Nat
           /\ Written(frames, k) = Written(frames, k - 1) + Len(frames[k]) + 1
           /\ \A i \in 1 .. Len(frames[k]) : Stream(frames)[Written(frames, k - 1) + i] = frames[k][i]
           /\ Stream(frames)[Written(frames, k)] = LineEnd
<1> DEFINE n == Len(frames)
           s == StreamUpTo(frames)
           w(m) == Written(frames, m)
<1>1. n \in Nat /\ n \in 0 .. n /\ k \in 0 .. n /\ k \in Nat
  OBVIOUS
<1>2. /\ s[n] \in Seq(Nat)
      /\ \A i \in 1 .. w(k) : s[n][i] = s[k][i]
  BY <1>1, WrittenStays
<1>3. /\ w(k - 1) \in Nat /\ Len(frames[k]) \in Nat
      /\ w(k) = w(k - 1) + Len(frames[k]) + 1
      /\ \A i \in 1 .. Len(frames[k]) : s[k][w(k - 1) + i] = frames[k][i]
      /\ s[k][w(k)] = LineEnd
  BY WrittenGrows
<1>4. Stream(frames) = s[n] /\ Len(s[n]) = w(n)
  BY DEF Stream, Written
<1> HIDE DEF s, w, n, LineEnd
<1>5. /\ w(k) \in 1 .. w(k) /\ w(k) \in Nat
      /\ \A i \in 1 .. Len(frames[k]) : w(k - 1) + i \in 1 .. w(k)
  <2> DEFINE p == w(k - 1)
             q == w(k)
             l == Len(frames[k])
  <2>1. p \in Nat /\ l \in Nat /\ q = p + l + 1
    BY <1>3
  <2> HIDE DEF p, q, l
  <2>2. q \in 1 .. q /\ q \in Nat /\ \A i \in 1 .. l : p + i \in 1 .. q
    BY <2>1
  <2> QED BY <2>2 DEF p, q, l
<1>6. /\ \A i \in 1 .. Len(frames[k]) : s[n][w(k - 1) + i] = frames[k][i]
      /\ s[n][w(k)] = LineEnd
  BY <1>2, <1>3, <1>5
<1> QED BY <1>2, <1>3, <1>4, <1>5, <1>6 DEF w, n

\* Every character of the stream is one of a line or its end.
LEMMA StreamIsLines ==
    ASSUME NEW frames \in Seq(Seq(Nat)), NEW i \in 1 .. Len(Stream(frames))
    PROVE  \E k \in 1 .. Len(frames) : Written(frames, k - 1) < i /\ i <= Written(frames, k)
<1> DEFINE n == Len(frames)
           w(m) == Written(frames, m)
           Past == {m \in 0 .. n : i <= w(m)}
<1>1. n \in Nat /\ n \in 0 .. n /\ 0 \in 0 .. n
  OBVIOUS
<1>2. \A m \in 0 .. n : w(m) \in Nat
  BY WrittenStays
<1>3. w(0) = 0 /\ Len(Stream(frames)) = w(n)
  BY <1>1, WrittenStays DEF Stream, Written
<1> HIDE DEF w
<1>4. i \in Nat /\ 1 <= i /\ i <= w(n)
  BY <1>1, <1>2, <1>3
<1>5. n \in Past
  BY <1>1, <1>4
<1>6. Past \in SUBSET Nat /\ IsFiniteSet(Past)
  <2>1. IsFiniteSet(0 .. n)
    BY <1>1, FS_Interval
  <2>2. 0 .. n \subseteq Nat /\ Past \subseteq 0 .. n
    BY <1>1
  <2> QED BY <2>1, <2>2, FS_Subset
<1>7. PICK k \in Past : \A m \in Past : k <= m
  <2> HIDE DEF Past
  <2> QED BY <1>5, <1>6, Extremes
<1>8. k \in 0 .. n /\ i <= w(k) /\ k # 0
  BY <1>3, <1>4
<1>9. k \in 1 .. n /\ k - 1 \in 0 .. n /\ ~(k <= k - 1)
  BY <1>1, <1>8
<1>10. ~(i <= w(k - 1))
  BY <1>7, <1>9
<1>11. w(k - 1) < i
  <2> DEFINE p == w(k - 1)
  <2>1. p \in Nat /\ i \in Nat /\ ~(i <= p)
    BY <1>2, <1>4, <1>9, <1>10
  <2> HIDE DEF p
  <2>2. p < i
    BY <2>1
  <2> QED BY <2>2 DEF p
<1> QED BY <1>8, <1>9, <1>11 DEF w

\* A position within a line.
LEMMA Within ==
    ASSUME NEW p \in Nat, NEW l \in Nat, NEW i \in Nat, p < i, i <= p + l + 1, i # p + l + 1
    PROVE  \E c \in 1 .. l : p + c = i
<1>1. i - p \in 1 .. l /\ p + (i - p) = i
  OBVIOUS
<1> QED BY <1>1

\* A piece of a sequence.
LEMMA PieceOf ==
    ASSUME NEW S, NEW s \in Seq(S), NEW p \in Nat, NEW l \in Nat, p + l <= Len(s)
    PROVE  LET cut == SubSeq(s, p + 1, p + l)
           IN  /\ cut \in Seq(S) /\ Len(cut) = l
               /\ \A i \in 1 .. l : cut[i] = s[p + i]
<1> DEFINE first == p + 1
           last == p + l
<1>1. first \in Int /\ last \in Int /\ last - first + 1 = l /\ (IF first <= last THEN l ELSE 0) = l
  OBVIOUS
<1>2. \A i \in first .. last : s[i] \in S
  <2>1. \A i \in first .. last : i \in 1 .. Len(s)
    OBVIOUS
  <2> QED BY <2>1, ElementOfSeq
<1>3. \A i \in 1 .. l : first + i - 1 = p + i
  OBVIOUS
<1> HIDE DEF first, last
<1>4. /\ SubSeq(s, first, last) \in Seq(S)
      /\ Len(SubSeq(s, first, last)) = IF first <= last THEN last - first + 1 ELSE 0
      /\ \A i \in 1 .. last - first + 1 : SubSeq(s, first, last)[i] = s[first + i - 1]
  BY <1>1, <1>2, SubSeqProperties
<1>5. /\ SubSeq(s, first, last) \in Seq(S) /\ Len(SubSeq(s, first, last)) = l
      /\ \A i \in 1 .. l : SubSeq(s, first, last)[i] = s[p + i]
  BY <1>1, <1>3, <1>4
<1> QED BY <1>5 DEF first, last

\* What a collector cuts from a beginning of the stream is the lines that are
\* written whole, if no line holds what ends one.
LEMMA CollectedFacts ==
    ASSUME NEW frames \in Seq(Seq(Nat)), NEW got \in Seq(Nat),
           \A k \in 1 .. Len(frames) : \A i \in 1 .. Len(frames[k]) : frames[k][i] # LineEnd,
           Len(got) <= Len(Stream(frames)),
           \A i \in 1 .. Len(got) : got[i] = Stream(frames)[i]
    PROVE  \E m \in 0 .. Len(frames) :
               /\ DOMAIN Collected(got) = 1 .. m
               /\ Len(Collected(got)) = m
               /\ \A k \in 1 .. m : Collected(got)[k] = frames[k]
               /\ Len(got) = Len(Stream(frames)) => m = Len(frames)
<1> DEFINE n == Len(frames)
           b == Len(got)
           w(k) == Written(frames, k)
           Whole == {k \in 0 .. n : w(k) <= b}
           ends == {i \in DOMAIN got : got[i] = LineEnd}
<1>1. n \in Nat /\ b \in Nat /\ n \in 0 .. n /\ 0 \in 0 .. n /\ DOMAIN got = 1 .. b
  OBVIOUS
<1>2. /\ \A k \in 0 .. n : w(k) \in Nat
      /\ w(0) = 0
      /\ \A k \in 0 .. n : \A j \in 0 .. k : j # k => w(j) < w(k)
  BY <1>1, WrittenStays
<1>3. Len(Stream(frames)) = w(n)
  BY DEF Stream, Written
<1>4. ASSUME NEW k \in 1 .. n
      PROVE  /\ Len(frames[k]) \in Nat /\ w(k) = w(k - 1) + Len(frames[k]) + 1
             /\ \A i \in 1 .. Len(frames[k]) : Stream(frames)[w(k - 1) + i] = frames[k][i]
             /\ Stream(frames)[w(k)] = LineEnd
  BY StreamLines
<1>5. \A i \in 1 .. Len(Stream(frames)) : \E k \in 1 .. n : w(k - 1) < i /\ i <= w(k)
  BY StreamIsLines
<1> HIDE DEF w, n, b
<1>6. 0 \in Whole
  BY <1>1, <1>2
<1>7. Whole \in SUBSET Nat /\ IsFiniteSet(Whole)
  <2>1. IsFiniteSet(0 .. n)
    BY <1>1, FS_Interval
  <2>2. 0 .. n \subseteq Nat /\ Whole \subseteq 0 .. n
    BY <1>1
  <2> QED BY <2>1, <2>2, FS_Subset
<1>8. PICK m \in Whole : \A k \in Whole : k <= m
  <2> HIDE DEF Whole
  <2> QED BY <1>6, <1>7, Extremes
<1>9. m \in 0 .. n /\ m \in Nat /\ w(m) <= b
  BY <1>1
<1>10. \A k \in 0 .. n : w(k) <= b <=> k <= m
  <2> TAKE k \in 0 .. n
  <2>1. w(k) <= b => k <= m
    BY <1>8
  <2>2. ASSUME k <= m PROVE w(k) <= b
    <3>1. k = m \/ (k \in 0 .. m /\ k # m)
      BY <1>9, <2>2
    <3>2. k = m \/ w(k) < w(m)
      BY <1>2, <1>9, <3>1
    <3>3. w(k) \in Nat /\ w(m) \in Nat
      BY <1>2, <1>9
    <3> QED BY <1>1, <1>9, <3>2, <3>3
  <2> QED BY <2>1, <2>2
<1> HIDE DEF Whole
<1> DEFINE f == [k \in 1 .. m |-> w(k)]
<1>11. \A k \in 1 .. m : k \in 1 .. n /\ k \in 0 .. n /\ k - 1 \in 0 .. n /\ f[k] = w(k) /\ k <= m
  BY <1>1, <1>9
<1>12. ASSUME NEW k \in 1 .. m PROVE f[k] \in ends
  <2>1. w(k) \in Nat /\ w(k - 1) \in Nat /\ Len(frames[k]) \in Nat /\ w(k) = w(k - 1) + Len(frames[k]) + 1
    BY <1>2, <1>4, <1>11
  <2>2. w(k) <= b
    BY <1>10, <1>11
  <2>3. w(k) \in 1 .. b
    BY <1>1, <2>1, <2>2
  <2>4. got[w(k)] = LineEnd
    BY <1>4, <1>11, <2>3 DEF b
  <2> QED BY <1>1, <1>11, <2>3, <2>4
<1>13. ASSUME NEW i \in ends PROVE \E k \in 1 .. m : f[k] = i
  <2>1. i \in 1 .. b /\ got[i] = LineEnd /\ i \in Nat
    BY <1>1
  <2>2. Stream(frames)[i] = LineEnd /\ i \in 1 .. Len(Stream(frames))
    <3>1. Len(Stream(frames)) \in Nat /\ b <= Len(Stream(frames))
      BY <1>1, <1>2, <1>3 DEF b
    <3>2. got[i] = Stream(frames)[i]
      BY <2>1 DEF b
    <3> QED BY <1>1, <2>1, <3>1, <3>2
  <2>3. PICK k \in 1 .. n : w(k - 1) < i /\ i <= w(k)
    BY <1>5, <2>2
  <2>4. k \in 0 .. n /\ k - 1 \in 0 .. n
    BY <1>1
  <2>5. /\ w(k - 1) \in Nat /\ w(k) \in Nat /\ Len(frames[k]) \in Nat
        /\ w(k) = w(k - 1) + Len(frames[k]) + 1
    BY <1>2, <1>4, <2>4
  <2>6. i = w(k)
    <3> SUFFICES ASSUME i # w(k) PROVE FALSE
      OBVIOUS
    <3> DEFINE p == w(k - 1)
               l == Len(frames[k])
    <3>1. PICK c \in 1 .. l : p + c = i
      <4>1. p \in Nat /\ l \in Nat /\ i \in Nat /\ p < i /\ i <= p + l + 1 /\ i # p + l + 1
        BY <2>1, <2>3, <2>5
      <4> HIDE DEF p, l
      <4> QED BY <4>1, Within
    <3>2. Stream(frames)[w(k - 1) + c] = frames[k][c]
      BY <1>4, <3>1
    <3>3. frames[k][c] # LineEnd
      BY <3>1 DEF n
    <3> QED BY <2>2, <3>1, <3>2, <3>3
  <2>7. w(k) <= b
    BY <2>1, <2>6
  <2>8. k \in 1 .. m
    BY <1>9, <1>10, <2>4, <2>7
  <2> QED BY <1>11, <2>6, <2>8
<1>14. ASSUME NEW j \in 1 .. m, NEW k \in 1 .. m, j < k PROVE f[j] < f[k]
  <2>1. j \in 0 .. k /\ j # k /\ k \in 0 .. n
    BY <1>11, <1>14
  <2>2. w(j) < w(k)
    BY <1>2, <2>1
  <2> QED BY <1>11, <2>2
<1>15. ends \in SUBSET Nat /\ IsFiniteSet(ends)
  <2>1. IsFiniteSet(1 .. b)
    BY <1>1, FS_Interval
  <2>2. 1 .. b \subseteq Nat /\ ends \subseteq 1 .. b
    BY <1>1
  <2> QED BY <2>1, <2>2, FS_Subset
<1> HIDE DEF ends
<1>16. f \in [1 .. m -> ends]
  BY <1>12
<1> HIDE DEF f
<1>17. Cardinality(ends) = m /\ \A k \in 1 .. m : Nth(ends, k) = f[k]
  BY <1>9, <1>13, <1>14, <1>15, <1>16, Enumerates
<1> DEFINE End(k) == IF k = 0 THEN 0 ELSE Nth(ends, k)
           cut == [k \in 1 .. m |-> SubSeq(got, End(k - 1) + 1, End(k) - 1)]
<1>18. Collected(got) = cut
  BY <1>17 DEF Collected, ends
<1>19. ASSUME NEW k \in 1 .. m PROVE SubSeq(got, End(k - 1) + 1, End(k) - 1) = frames[k]
  <2>1. End(k) = w(k)
    BY <1>11, <1>17
  <2>2. End(k - 1) = w(k - 1)
    <3>1. CASE k = 1
      BY <1>2, <3>1
    <3>2. CASE k # 1
      <4>1. k - 1 \in 1 .. m /\ k - 1 # 0
        BY <1>9, <3>2
      <4> QED BY <1>11, <1>17, <4>1
    <3> QED BY <3>1, <3>2
  <2> HIDE DEF End
  <2> DEFINE p == w(k - 1)
             l == Len(frames[k])
             line == SubSeq(got, p + 1, w(k) - 1)
  <2>3. p \in Nat /\ l \in Nat /\ w(k) = p + l + 1
    BY <1>2, <1>4, <1>11
  <2>4. w(k) <= b
    BY <1>10, <1>11
  <2> HIDE DEF p
  <2>5. line = SubSeq(got, p + 1, p + l)
    <3>1. w(k) - 1 = p + l
      BY <2>3
    <3> QED BY <3>1
  <2>6. p + l <= Len(got)
    BY <1>1, <2>3, <2>4 DEF b
  <2>7. \A i \in 1 .. l : Stream(frames)[p + i] = frames[k][i]
    BY <1>4, <1>11 DEF p
  <2>8. frames[k] \in Seq(Nat)
    BY <1>11, ElementOfSeq DEF n
  <2> HIDE DEF l, line
  <2>9. /\ SubSeq(got, p + 1, p + l) \in Seq(Nat)
        /\ Len(SubSeq(got, p + 1, p + l)) = l
        /\ \A i \in 1 .. l : SubSeq(got, p + 1, p + l)[i] = got[p + i]
    <3>1. got \in Seq(Nat) /\ p \in Nat /\ l \in Nat /\ p + l <= Len(got)
      BY <2>3, <2>6
    <3> DEFINE R == Nat
    <3>2. got \in Seq(R)
      OBVIOUS
    <3> HIDE DEF R
    <3>3. /\ SubSeq(got, p + 1, p + l) \in Seq(R)
          /\ Len(SubSeq(got, p + 1, p + l)) = l
          /\ \A i \in 1 .. l : SubSeq(got, p + 1, p + l)[i] = got[p + i]
      BY <3>1, <3>2, PieceOf
    <3> QED BY <3>3 DEF R
  <2>10. \A i \in 1 .. l : p + i \in 1 .. Len(got)
    BY <2>3, <2>6, <1>1 DEF b
  <2>11. line \in Seq(Nat) /\ Len(line) = l /\ \A i \in 1 .. l : line[i] = frames[k][i]
    BY <2>5, <2>7, <2>9, <2>10
  <2>12. line = frames[k]
    BY <2>8, <2>11, SeqEqual DEF l
  <2> QED BY <2>1, <2>2, <2>12 DEF line, p
<1>20. DOMAIN cut = 1 .. m /\ Len(cut) = m /\ \A k \in 1 .. m : cut[k] = frames[k]
  <2> HIDE DEF End
  <2>1. DOMAIN cut = 1 .. m /\ \A k \in 1 .. m : cut[k] = frames[k]
    BY <1>19
  <2>2. Len(cut) = m
    BY <1>9
  <2> QED BY <2>1, <2>2
<1>21. b = Len(Stream(frames)) => m = n
  <2>1. w(n) <= b => n <= m
    BY <1>1, <1>10
  <2>2. w(n) \in Nat
    BY <1>1, <1>2
  <2> QED BY <1>1, <1>3, <1>9, <2>1, <2>2
<1> HIDE DEF cut
<1> QED BY <1>9, <1>18, <1>20, <1>21 DEF n, b

\* sanitizeSyslog leaves nothing that ends a line.
LEMMA OneLineFacts ==
    ASSUME NEW message \in Seq(Nat)
    PROVE  /\ OneLine(message) \in Seq(Nat)
           /\ \A i \in 1 .. Len(OneLine(message)) : OneLine(message)[i] # LineEnd
<1> DEFINE Safe == Nat \ {LineEnd}
           line == [i \in DOMAIN message |-> IF message[i] = LineEnd THEN Space ELSE message[i]]
           cut == Append(SubSeq(line, 1, MaxLine), Ellipsis)
<1>1. Space \in Safe /\ Ellipsis \in Safe
  BY DEF Space, Ellipsis, LineEnd
<1>2. line \in Seq(Safe)
  <2>1. \A i \in DOMAIN message : message[i] \in Nat
    OBVIOUS
  <2>2. \A i \in DOMAIN message : line[i] \in Safe
    BY <1>1, <2>1
  <2>3. DOMAIN message = 1 .. Len(message) /\ Len(message) \in Nat
    OBVIOUS
  <2> HIDE DEF Safe
  <2> QED BY <2>2, <2>3
<1> HIDE DEF line, Safe
<1>3. Len(line) > MaxLine => cut \in Seq(Safe)
  <2>1. SUFFICES ASSUME Len(line) > MaxLine PROVE SubSeq(line, 1, MaxLine) \in Seq(Safe)
    BY <1>1
  <2>2. \A i \in 1 .. MaxLine : i \in 1 .. Len(line)
    BY <1>2, <2>1, ChannelsAssumption
  <2>3. \A i \in 1 .. MaxLine : line[i] \in Safe
    BY <1>2, <2>2
  <2> QED BY <2>3, ChannelsAssumption, SubSeqProperties
<1>4. OneLine(message) = IF Len(line) > MaxLine THEN cut ELSE line
  BY DEF OneLine, line
<1> HIDE DEF cut
<1>5. OneLine(message) \in Seq(Safe)
  BY <1>2, <1>3, <1>4
<1>6. \A i \in 1 .. Len(OneLine(message)) : OneLine(message)[i] \in Safe
  BY <1>5, ElementOfSeq
<1>7. Seq(Safe) \subseteq Seq(Nat)
  BY DEF Safe
<1> QED BY <1>5, <1>6, <1>7 DEF Safe

\* One before a sequence.
LEMMA HeadedBy ==
    ASSUME NEW S, NEW x \in S, NEW s \in Seq(S)
    PROVE  LET t == <<x>> \o s
           IN  t \in Seq(S) /\ Head(t) = x /\ Tail(t) = s /\ \A i \in 1 .. Len(t) : t[i] = x \/ \E k \in 1 .. Len(s) : t[i] = s[k]
<1> DEFINE t == <<x>> \o s
<1>1. <<x>> \in Seq(S) /\ Len(<<x>>) = 1 /\ <<x>>[1] = x /\ Len(s) \in Nat
  OBVIOUS
<1>2. /\ t \in Seq(S) /\ Len(t) = 1 + Len(s) /\ t[1] = x
      /\ \A k \in 1 .. Len(s) : t[1 + k] = s[k]
  OBVIOUS
<1> HIDE DEF t
<1>3. t # <<>>
  BY <1>1, <1>2
<1>4. /\ Tail(t) \in Seq(S) /\ Len(Tail(t)) = Len(t) - 1
      /\ \A k \in 1 .. Len(Tail(t)) : Tail(t)[k] = t[k + 1]
  BY <1>2, <1>3, HeadTailProperties
<1>5. Len(Tail(t)) = Len(s) /\ \A k \in 1 .. Len(s) : k + 1 = 1 + k
  BY <1>1, <1>2, <1>4
<1>6. \A k \in 1 .. Len(Tail(t)) : Tail(t)[k] = s[k]
  BY <1>2, <1>4, <1>5
<1>7. Tail(t) = s
  BY <1>4, <1>5, <1>6, SeqEqual
<1>8. Head(t) = x
  BY <1>2, <1>3
<1>9. ASSUME NEW i \in 1 .. Len(t) PROVE t[i] = x \/ \E k \in 1 .. Len(s) : t[i] = s[k]
  <2>1. i = 1 \/ (i - 1 \in 1 .. Len(s) /\ 1 + (i - 1) = i)
    BY <1>1, <1>2
  <2> QED BY <1>2, <2>1
<1> QED BY <1>2, <1>7, <1>8, <1>9 DEF t

\* The first field of a frame.
Priority(f, resolved) == IF resolved THEN 5 ELSE SyslogSeverity(f.severity)

\* A frame is a priority and a line.
LEMMA FrameFacts ==
    ASSUME NEW f, f.title \in Seq(Nat), NEW resolved \in BOOLEAN
    PROVE  /\ Frame(f, resolved) \in Seq(Nat)
           /\ Head(Frame(f, resolved)) = Priority(f, resolved)
           /\ Tail(Frame(f, resolved)) = OneLine(f.title)
           /\ \A i \in 1 .. Len(Frame(f, resolved)) : Frame(f, resolved)[i] # LineEnd
<1> DEFINE x == Priority(f, resolved)
           s == OneLine(f.title)
           t == <<x>> \o s
<1>1. x \in Nat /\ x # LineEnd
  BY DEF Priority, SyslogSeverity, LineEnd
<1>2. s \in Seq(Nat) /\ \A k \in 1 .. Len(s) : s[k] # LineEnd
  BY OneLineFacts
<1>3. Frame(f, resolved) = t
  BY DEF Frame, Priority
<1> HIDE DEF x, s
<1>4. /\ t \in Seq(Nat) /\ Head(t) = x /\ Tail(t) = s
      /\ \A i \in 1 .. Len(t) : t[i] = x \/ \E k \in 1 .. Len(s) : t[i] = s[k]
  <2> DEFINE R == Nat
  <2>1. x \in R /\ s \in Seq(R)
    BY <1>1, <1>2
  <2> HIDE DEF R
  <2>2. /\ t \in Seq(R) /\ Head(t) = x /\ Tail(t) = s
        /\ \A i \in 1 .. Len(t) : t[i] = x \/ \E k \in 1 .. Len(s) : t[i] = s[k]
    BY <2>1, HeadedBy
  <2> QED BY <2>2 DEF R
<1> HIDE DEF t
<1> QED BY <1>1, <1>2, <1>3, <1>4 DEF x, s

\* A function of the positions up to n is a sequence.
LEMMA Listing ==
    ASSUME NEW S, NEW n \in Nat, NEW f \in [1 .. n -> S]
    PROVE  f \in Seq(S) /\ Len(f) = n
<1> QED OBVIOUS

\* A finding as a channel is given it.
Told == [severity : STRING, title : Seq(Nat)]

\* Frames: one for each finding, sorted, then one for each resolution.
LEMMA FramesFacts ==
    ASSUME NEW digest, digest.opened \in Seq(Told), digest.resolved \in Seq(Told)
    PROVE  LET frames == Frames(digest)
               k      == Len(digest.opened)
               n      == Len(digest.opened) + Len(digest.resolved)
           IN  /\ frames \in Seq(Seq(Nat)) /\ Len(frames) = n /\ k \in Nat /\ n \in Nat /\ k <= n
               /\ \A i \in 1 .. k :
                     /\ Sorted(digest.opened)[i] \in Told
                     /\ frames[i] = Frame(Sorted(digest.opened)[i], FALSE)
               /\ \A j \in k + 1 .. n : \E f \in Told : frames[j] = Frame(f, TRUE)
               /\ \A j \in 1 .. n : \A c \in 1 .. Len(frames[j]) : frames[j][c] # LineEnd
<1> DEFINE frames == Frames(digest)
           sorted == Sorted(digest.opened)
           k == Len(digest.opened)
           r == Len(digest.resolved)
           opens == [i \in DOMAIN sorted |-> Frame(sorted[i], FALSE)]
           closes == [i \in DOMAIN digest.resolved |-> Frame(digest.resolved[i], TRUE)]
<1>1. k \in Nat /\ r \in Nat /\ DOMAIN digest.resolved = 1 .. r
  OBVIOUS
<1>2. sorted \in Seq(Told) /\ Len(sorted) = k /\ DOMAIN sorted = 1 .. k
  <2>1. sorted \in Seq(Told) /\ Len(sorted) = k
    BY SortedIsSort DEF IsSort
  <2> HIDE DEF sorted, k
  <2> QED BY <2>1
<1>3. \A f \in Told, resolved \in BOOLEAN :
          Frame(f, resolved) \in Seq(Nat) /\ \A c \in 1 .. Len(Frame(f, resolved)) : Frame(f, resolved)[c] # LineEnd
  <2> TAKE f \in Told, resolved \in BOOLEAN
  <2>1. f.title \in Seq(Nat)
    BY DEF Told
  <2> QED BY <2>1, FrameFacts
<1>4. \A i \in 1 .. k : sorted[i] \in Told
  BY <1>2, ElementOfSeq
<1>5. \A i \in 1 .. r : digest.resolved[i] \in Told
  BY ElementOfSeq
<1> HIDE DEF sorted, k, r
<1>6. opens \in Seq(Seq(Nat)) /\ Len(opens) = k /\ \A i \in 1 .. k : opens[i] = Frame(sorted[i], FALSE)
  <2>1. \A i \in 1 .. k : Frame(sorted[i], FALSE) \in Seq(Nat)
    BY <1>3, <1>4
  <2>2. opens = [i \in 1 .. k |-> Frame(sorted[i], FALSE)]
    BY <1>2
  <2>3. opens \in [1 .. k -> Seq(Nat)] /\ \A i \in 1 .. k : opens[i] = Frame(sorted[i], FALSE)
    BY <2>1, <2>2
  <2> HIDE DEF opens
  <2> QED BY <1>1, <2>3, Listing
<1>7. closes \in Seq(Seq(Nat)) /\ Len(closes) = r /\ \A i \in 1 .. r : closes[i] = Frame(digest.resolved[i], TRUE)
  <2>1. \A i \in 1 .. r : Frame(digest.resolved[i], TRUE) \in Seq(Nat)
    BY <1>3, <1>5
  <2>2. closes = [i \in 1 .. r |-> Frame(digest.resolved[i], TRUE)]
    BY <1>1
  <2>3. closes \in [1 .. r -> Seq(Nat)] /\ \A i \in 1 .. r : closes[i] = Frame(digest.resolved[i], TRUE)
    BY <2>1, <2>2
  <2> HIDE DEF closes
  <2> QED BY <1>1, <2>3, Listing
<1>8. frames = opens \o closes
  BY DEF Frames, sorted
<1> HIDE DEF opens, closes, frames
<1>9. /\ frames \in Seq(Seq(Nat)) /\ Len(frames) = k + r
      /\ \A i \in 1 .. k : frames[i] = opens[i]
      /\ \A i \in 1 .. r : frames[k + i] = closes[i]
  <2> DEFINE R == Seq(Nat)
  <2>1. opens \in Seq(R) /\ closes \in Seq(R)
    BY <1>6, <1>7
  <2> HIDE DEF R
  <2>2. /\ opens \o closes \in Seq(R) /\ Len(opens \o closes) = Len(opens) + Len(closes)
        /\ \A i \in 1 .. Len(opens) : (opens \o closes)[i] = opens[i]
        /\ \A i \in 1 .. Len(closes) : (opens \o closes)[Len(opens) + i] = closes[i]
    BY <2>1, Joined
  <2> QED BY <1>6, <1>7, <1>8, <2>2 DEF R
<1>10. ASSUME NEW j \in k + 1 .. k + r PROVE \E f \in Told : frames[j] = Frame(f, TRUE)
  <2>1. j - k \in 1 .. r /\ k + (j - k) = j
    BY <1>1
  <2> QED BY <1>5, <1>7, <1>9, <2>1
<1>11. ASSUME NEW j \in 1 .. k + r PROVE \A c \in 1 .. Len(frames[j]) : frames[j][c] # LineEnd
  <2>1. j \in 1 .. k \/ j \in k + 1 .. k + r
    BY <1>1
  <2>2. \E f \in Told, resolved \in BOOLEAN : frames[j] = Frame(f, resolved)
    BY <1>4, <1>6, <1>9, <1>10, <2>1
  <2> QED BY <1>3, <2>2
<1>12. /\ frames \in Seq(Seq(Nat)) /\ Len(frames) = k + r /\ k \in Nat /\ k + r \in Nat /\ k <= k + r
       /\ \A i \in 1 .. k : sorted[i] \in Told /\ frames[i] = Frame(sorted[i], FALSE)
  <2>1. k \in Nat /\ k + r \in Nat /\ k <= k + r
    BY <1>1
  <2>2. \A i \in 1 .. k : sorted[i] \in Told /\ frames[i] = Frame(sorted[i], FALSE)
    BY <1>4, <1>6, <1>9, Zenon
  <2> QED BY <1>9, <2>1, <2>2, Zenon
<1> DEFINE n == Len(digest.opened) + Len(digest.resolved)
<1>13. k + r = n
  BY DEF k, r
<1> HIDE DEF n
<1>14. /\ frames \in Seq(Seq(Nat)) /\ Len(frames) = n /\ k \in Nat /\ n \in Nat /\ k <= n
       /\ \A i \in 1 .. k : /\ sorted[i] \in Told
                             /\ frames[i] = Frame(sorted[i], FALSE)
       /\ \A j \in k + 1 .. n : \E f \in Told : frames[j] = Frame(f, TRUE)
       /\ \A j \in 1 .. n : \A c \in 1 .. Len(frames[j]) : frames[j][c] # LineEnd
  <2>1. \A j \in k + 1 .. n : \E f \in Told : frames[j] = Frame(f, TRUE)
    BY <1>10, <1>13
  <2>2. \A j \in 1 .. n : \A c \in 1 .. Len(frames[j]) : frames[j][c] # LineEnd
    BY <1>11, <1>13
  <2> QED BY <1>12, <1>13, <2>1, <2>2
<1> QED BY <1>14, Zenon DEF frames, sorted, k, n

\* What an attempt of the syslog channel leaves: a beginning of the frames.
LEMMA SyslogTells ==
    ASSUME NEW digest, digest.opened \in Seq(Told), digest.resolved \in Seq(Told),
           NEW outcome \in [connects : BOOLEAN, breaks : Nat, status : Nat]
    PROVE  LET sent == SyslogSend(digest, outcome)
               n    == Len(digest.opened) + Len(digest.resolved)
           IN  \E m \in 0 .. n :
                  /\ DOMAIN sent.got = 1 .. m /\ Len(sent.got) = m
                  /\ \A i \in 1 .. m : sent.got[i] = Frames(digest)[i]
                  /\ sent.ok => m = n
<1> DEFINE frames == Frames(digest)
           stream == Stream(frames)
           n == Len(digest.opened) + Len(digest.resolved)
           breaks == outcome.connects /\ outcome.breaks < Len(stream)
           head == IF breaks THEN SubSeq(stream, 1, outcome.breaks) ELSE stream
           sent == SyslogSend(digest, outcome)
<1>1. outcome.connects \in BOOLEAN /\ outcome.breaks \in Nat
  OBVIOUS
<1>2. /\ frames \in Seq(Seq(Nat)) /\ Len(frames) = n /\ n \in Nat
      /\ \A j \in 1 .. n : \A c \in 1 .. Len(frames[j]) : frames[j][c] # LineEnd
  BY FramesFacts
<1>3. sent = [ok |-> outcome.connects /\ ~breaks, got |-> IF ~outcome.connects THEN <<>> ELSE Collected(head)]
  BY Zenon DEF SyslogSend
<1>4. sent.ok = (outcome.connects /\ ~breaks) /\ sent.got = IF ~outcome.connects THEN <<>> ELSE Collected(head)
  <2> HIDE DEF sent, breaks, head
  <2> QED BY <1>3
<1>5. stream \in Seq(Nat) /\ Len(stream) \in Nat
  <2>1. stream = StreamUpTo(frames)[n]
    BY <1>2 DEF Stream
  <2> HIDE DEF stream, frames, n
  <2>2. n \in 0 .. n
    BY <1>2
  <2>3. StreamUpTo(frames)[n] \in Seq(Nat)
    BY <1>2, <2>2, WrittenStays
  <2>4. stream \in Seq(Nat)
    BY <2>1, <2>3
  <2> QED BY <2>4
<1> HIDE DEF frames, stream, n, sent
<1>6. CASE ~outcome.connects
  <2>1. sent.got = <<>> /\ ~sent.ok
    BY <1>4, <1>6
  <2>2. DOMAIN sent.got = 1 .. 0 /\ Len(sent.got) = 0 /\ 0 \in 0 .. n /\ 1 .. 0 = {}
    BY <1>2, <2>1
  <2> QED BY <2>1, <2>2 DEF sent, n
<1>7. CASE outcome.connects
  <2>1. head \in Seq(Nat) /\ Len(head) <= Len(stream) /\ \A i \in 1 .. Len(head) : head[i] = stream[i]
    <3>1. CASE breaks
      <4> DEFINE l == outcome.breaks
      <4>1. l \in Nat /\ 0 + l <= Len(stream) /\ 0 \in Nat
        BY <1>1, <1>5, <3>1
      <4>2. head = SubSeq(stream, 0 + 1, 0 + l)
        BY <1>1, <3>1
      <4> HIDE DEF l, head
      <4>3. /\ SubSeq(stream, 0 + 1, 0 + l) \in Seq(Nat) /\ Len(SubSeq(stream, 0 + 1, 0 + l)) = l
            /\ \A i \in 1 .. l : SubSeq(stream, 0 + 1, 0 + l)[i] = stream[0 + i]
        <5> DEFINE zero == 0
                   R == Nat
        <5>1. stream \in Seq(R) /\ zero \in Nat /\ l \in Nat /\ zero + l <= Len(stream)
          BY <1>5, <4>1
        <5> HIDE DEF zero, R
        <5>2. /\ SubSeq(stream, zero + 1, zero + l) \in Seq(R) /\ Len(SubSeq(stream, zero + 1, zero + l)) = l
              /\ \A i \in 1 .. l : SubSeq(stream, zero + 1, zero + l)[i] = stream[zero + i]
          BY <5>1, PieceOf
        <5> QED BY <5>2 DEF zero, R
      <4>4. \A i \in 1 .. l : 0 + i = i
        BY <4>1
      <4> QED BY <4>1, <4>2, <4>3, <4>4
    <3>2. CASE ~breaks
      <4>1. head = stream
        BY <3>2
      <4> HIDE DEF head
      <4> QED BY <1>5, <4>1
    <3> QED BY <3>1, <3>2
  <2>2. sent.ok => Len(head) = Len(stream)
    BY <1>4, <1>7
  <2>3. sent.got = Collected(head)
    BY <1>4, <1>7
  <2> HIDE DEF head
  <2>4. \E m \in 0 .. Len(frames) :
           /\ DOMAIN Collected(head) = 1 .. m
           /\ Len(Collected(head)) = m
           /\ \A i \in 1 .. m : Collected(head)[i] = frames[i]
           /\ Len(head) = Len(Stream(frames)) => m = Len(frames)
    <3>1. /\ \A j \in 1 .. Len(frames) : \A c \in 1 .. Len(frames[j]) : frames[j][c] # LineEnd
          /\ Len(head) <= Len(Stream(frames))
          /\ \A i \in 1 .. Len(head) : head[i] = Stream(frames)[i]
      BY <1>2, <2>1 DEF stream
    <3> QED BY <1>2, <2>1, <3>1, CollectedFacts
  <2> QED BY <1>2, <2>2, <2>3, <2>4 DEF frames, stream, n, sent
<1> QED BY <1>1, <1>6, <1>7

\* What an attempt of the webhook channels leaves: all findings and resolutions or
\* none.
LEMMA HTTPTells ==
    ASSUME NEW digest, digest.opened \in Seq(Told), digest.resolved \in Seq(Told),
           NEW outcome \in [connects : BOOLEAN, breaks : Nat, status : Nat]
    PROVE  LET sent == HTTPSend(digest, outcome)
               n    == Len(digest.opened) + Len(digest.resolved)
           IN  \E m \in {0, n} :
                  /\ Len(sent.got) = m /\ m \in 0 .. n
                  /\ \A i \in 1 .. Len(digest.opened) : i <= m => sent.got[i] = Sorted(digest.opened)[i]
                  /\ sent.ok => m = n
<1> DEFINE sorted == Sorted(digest.opened)
           copy == [i \in DOMAIN sorted |-> sorted[i]]
           k == Len(digest.opened)
           r == Len(digest.resolved)
           body == copy \o digest.resolved
           taken == outcome.connects /\ outcome.status \in 0 .. 299
           ok == outcome.connects /\ outcome.status \in 200 .. 299
           sent == HTTPSend(digest, outcome)
<1>1. k \in Nat /\ r \in Nat
  OBVIOUS
<1>2. sorted \in Seq(Told) /\ Len(sorted) = k
  BY SortedIsSort DEF IsSort
<1>3. sent = [ok |-> ok, got |-> IF taken THEN body ELSE <<>>]
  BY Zenon DEF HTTPSend
<1>4. sent.ok = ok /\ sent.got = IF taken THEN body ELSE <<>>
  <2> HIDE DEF sent, ok, taken, body
  <2> QED BY <1>3
<1>5. ok => taken
  OBVIOUS
<1> HIDE DEF sorted, sent, ok, taken
<1>6. copy = sorted
  BY <1>2
<1> HIDE DEF copy
<1>7. /\ body \in Seq(Told) /\ Len(body) = k + r
      /\ \A i \in 1 .. k : body[i] = sorted[i]
  <2> DEFINE s == digest.resolved
             R == Told
  <2>1. sorted \in Seq(R) /\ s \in Seq(R)
    BY <1>2
  <2> HIDE DEF s, R
  <2>2. /\ sorted \o s \in Seq(R) /\ Len(sorted \o s) = Len(sorted) + Len(s)
        /\ \A i \in 1 .. Len(sorted) : (sorted \o s)[i] = sorted[i]
    BY <2>1, Joined
  <2> QED BY <1>2, <1>6, <2>2 DEF s, R
<1> HIDE DEF body, k, r
<1> DEFINE n == k + r
<1>8. k \in Nat /\ n \in Nat /\ 0 \in 0 .. n /\ n \in 0 .. n /\ \A i \in 1 .. k : ~(i <= 0)
  BY <1>1
<1> HIDE DEF n
<1> DEFINE Shows(m) == /\ Len(sent.got) = m /\ m \in 0 .. n
                       /\ \A i \in 1 .. k : i <= m => sent.got[i] = sorted[i]
                       /\ sent.ok => m = n
<1>9. CASE taken
  <2>1. sent.got = body
    BY <1>4, <1>9
  <2>2. Shows(n)
    BY <1>7, <1>8, <2>1 DEF n
  <2> HIDE DEF Shows
  <2>3. \E m \in {0, n} : Shows(m)
    BY <2>2
  <2> QED BY <2>3, Zenon DEF Shows, sorted, sent, n, k, r
<1>10. CASE ~taken
  <2>1. sent.got = <<>> /\ ~sent.ok
    BY <1>4, <1>5, <1>10
  <2>2. Len(sent.got) = 0
    BY <2>1
  <2>3. Shows(0)
    BY <1>8, <2>1, <2>2
  <2> HIDE DEF Shows
  <2>4. \E m \in {0, n} : Shows(m)
    BY <2>3
  <2> QED BY <2>4, Zenon DEF Shows, sorted, sent, n, k, r
<1> QED BY <1>9, <1>10

\* sendWithRetry: only the last attempt may have been sent.
LEMMA AttemptedFacts ==
    ASSUME NEW results, DOMAIN results = 1 .. Retries
    PROVE  \E m \in 1 .. Retries :
              /\ Len(Attempted(results)) = m /\ DOMAIN Attempted(results) = 1 .. m
              /\ \A a \in 1 .. m : Attempted(results)[a] = results[a] /\ a \in 1 .. Retries
              /\ \A a \in 1 .. m : results[a].ok => a = m
<1> DEFINE sent == {i \in DOMAIN results : results[i].ok}
           m == IF sent = {} THEN Retries ELSE Min(sent)
           R == {results[i] : i \in 1 .. Retries}
<1>1. Retries \in Nat /\ 1 \in 1 .. Retries /\ Retries \in 1 .. Retries
  BY ChannelsAssumption
<1>2. m \in 1 .. Retries /\ \A a \in 1 .. m : results[a].ok => a = m
  <2>1. CASE sent = {}
    BY <1>1, <2>1
  <2>2. CASE sent # {}
    <3>1. sent \in SUBSET Nat /\ IsFiniteSet(sent)
      <4>1. IsFiniteSet(1 .. Retries)
        BY <1>1, FS_Interval
      <4>2. sent \subseteq 1 .. Retries /\ 1 .. Retries \subseteq Nat
        BY <1>1
      <4> QED BY <4>1, <4>2, FS_Subset
    <3>2. PICK p \in sent : \A q \in sent : p <= q
      <4> HIDE DEF sent
      <4> QED BY <2>2, <3>1, Extremes
    <3>3. m \in sent /\ \A q \in sent : m <= q
      <4> HIDE DEF sent
      <4> QED BY <2>2, <3>2 DEF Min
    <3> HIDE DEF m
    <3>4. m \in 1 .. Retries
      BY <3>3
    <3>5. ASSUME NEW a \in 1 .. m, results[a].ok PROVE a = m
      <4>1. a \in sent
        BY <1>1, <3>4, <3>5
      <4>2. m <= a
        BY <3>3, <4>1
      <4> QED BY <3>4, <4>2
    <3> QED BY <3>4, <3>5
  <2> QED BY <2>1, <2>2
<1>3. Attempted(results) = SubSeq(results, 1, m)
  BY DEF Attempted
<1> HIDE DEF m
<1>4. \A a \in 1 .. m : a \in 1 .. Retries /\ results[a] \in R
  BY <1>1, <1>2
<1>5. m \in Nat /\ m \in Int /\ 1 <= m /\ m - 1 + 1 = m /\ 1 \in Int /\ \A a \in 1 .. m : 1 + a - 1 = a
  BY <1>1, <1>2
<1> HIDE DEF R
<1> DEFINE one == 1
<1> HIDE DEF one
<1>6. /\ SubSeq(results, one, m) \in Seq(R)
      /\ Len(SubSeq(results, one, m)) = IF one <= m THEN m - one + 1 ELSE 0
      /\ \A a \in 1 .. m - one + 1 : SubSeq(results, one, m)[a] = results[one + a - 1]
  <2>1. one \in Int /\ m \in Int /\ \A a \in one .. m : results[a] \in R
    BY <1>4, <1>5 DEF one
  <2> QED BY <2>1, SubSeqProperties
<1>7. /\ Attempted(results) \in Seq(R) /\ Len(Attempted(results)) = m
      /\ \A a \in 1 .. m : Attempted(results)[a] = results[a]
  BY <1>3, <1>5, <1>6 DEF one
<1>8. DOMAIN Attempted(results) = 1 .. m
  BY <1>7
<1> QED BY <1>2, <1>4, <1>7, <1>8

\* A digest goes out as ReceiverTold says, whatever its findings and resolutions are and
\* however each attempt to send it turns out: a collector has the first lines of the
\* digest, whole, in order and each from its own finding; a webhook has all of it or
\* nothing; and what counts as sent is all there (flushLocked, sendWithRetry, Send).
THEOREM DigestsAreTold ==
    ASSUME delivery.opened \in Seq(Told), delivery.resolved \in Seq(Told),
           delivery.outcomes \in Seq([connects : BOOLEAN, breaks : Nat, status : Nat])
    PROVE  DigestsTold
<1> DEFINE digest == delivery
           outcomes == delivery.outcomes
           opened == delivery.opened
           sorted == Sorted(opened)
           k == Len(opened)
           n == Len(opened) + Len(delivery.resolved)
           lineResults == [i \in DOMAIN outcomes |-> SyslogSend(digest, outcomes[i])]
           bodyResults == [i \in DOMAIN outcomes |-> HTTPSend(digest, outcomes[i])]
           lines == Attempted(lineResults)
           bodies == Attempted(bodyResults)
           rank(i) == SeverityRank(opened[i].severity)
           place(i) == Cardinality({j \in DOMAIN opened :
                                       rank(j) > rank(i) \/ (rank(j) = rank(i) /\ j <= i)})
<1> SUFFICES ASSUME Len(outcomes) = Retries PROVE ReceiverTold(digest, outcomes)
  BY DEF DigestsTold
<1>1. k \in Nat /\ n \in Nat /\ k <= n /\ DOMAIN opened = 1 .. k /\ DOMAIN outcomes = 1 .. Retries
  <2>1. k \in Nat /\ DOMAIN opened = 1 .. k
    OBVIOUS
  <2>2. Len(delivery.resolved) \in Nat
    OBVIOUS
  <2>3. DOMAIN outcomes = 1 .. Len(outcomes)
    BY LenProperties
  <2>4. n \in Nat /\ k <= n
    <3> DEFINE a == Len(opened)
               b == Len(delivery.resolved)
    <3>1. a \in Nat /\ b \in Nat
      BY <2>1, <2>2
    <3> HIDE DEF a, b
    <3>2. a + b \in Nat /\ a <= a + b
      BY <3>1
    <3> QED BY <3>2, Zenon DEF a, b
  <2> QED BY <2>1, <2>3, <2>4
<1>2. sorted \in Seq(Told) /\ \E pi : IsSort(opened, sorted, k, pi)
  BY SortedIsSort
<1>3. PICK pi : IsSort(opened, sorted, k, pi)
  BY <1>2
<1>4. Ranked(sorted) /\ Len(sorted) = k /\ DOMAIN sorted = 1 .. k
  <2>1. k \in 0 .. Len(opened)
    BY <1>1
  <2> HIDE DEF sorted, k
  <2>2. opened \in Seq(Told) /\ sorted \in Seq(Told)
    BY <1>2
  <2> HIDE DEF opened
  <2>3. Ranked(sorted)
    BY <1>3, <2>1, <2>2, SortIsRanked
  <2>4. Len(sorted) = k
    BY <1>3 DEF IsSort
  <2> QED BY <2>2, <2>3, <2>4
<1>5. ASSUME NEW i \in 1 .. k
      PROVE  place(i) = pi[i] /\ pi[i] \in 1 .. k /\ sorted[pi[i]] = opened[i]
  <2> DEFINE higher == {j \in 1 .. k : \/ Rank(opened[i]) < Rank(opened[j])
                                       \/ Rank(opened[j]) = Rank(opened[i]) /\ j <= i}
             upto == {j \in DOMAIN opened : rank(j) > rank(i) \/ (rank(j) = rank(i) /\ j <= i)}
  <2>1. \A j \in 1 .. k : rank(j) = Rank(opened[j]) /\ rank(j) \in 0 .. 4
    BY Ranks DEF Rank
  <2>2. upto = higher
    <3> HIDE DEF k, opened, rank
    <3> QED BY <1>1, <2>1
  <2>3. Cardinality(higher) = pi[i]
    <3> HIDE DEF k, sorted, opened
    <3>1. k \in Nat /\ i \in 1 .. k /\ IsSort(opened, sorted, k, pi)
      BY <1>1, <1>3
    <3>2. Cardinality(NotAfter(opened, k, i)) = pi[i]
      <4> HIDE DEF higher, upto
      <4> QED BY <3>1, PlaceInSort
    <3>3. NotAfter(opened, k, i) = higher
      BY Zenon DEF NotAfter
    <3> QED BY <3>2, <3>3, Zenon
  <2>4. pi[i] \in 1 .. k /\ sorted[pi[i]] = opened[i]
    BY <1>3 DEF IsSort
  <2>5. place(i) = Cardinality(upto)
    OBVIOUS
  <2> HIDE DEF upto, higher, place
  <2> QED BY <2>2, <2>3, <2>4, <2>5
<1> DEFINE frames == Frames(digest)
<1>6. /\ frames \in Seq(Seq(Nat)) /\ Len(frames) = n
      /\ \A i \in 1 .. k : sorted[i] \in Told /\ frames[i] = Frame(sorted[i], FALSE)
      /\ \A j \in k + 1 .. n : \E f \in Told : frames[j] = Frame(f, TRUE)
  BY FramesFacts
<1>7. ASSUME NEW i \in 1 .. k
      PROVE  Head(frames[i]) = 6 - Rank(sorted[i]) /\ Tail(frames[i]) = OneLine(sorted[i].title)
  <2>1. sorted[i].title \in Seq(Nat)
    BY <1>6 DEF Told
  <2> HIDE DEF sorted, frames
  <2>2. Head(Frame(sorted[i], FALSE)) = Priority(sorted[i], FALSE) /\ Tail(Frame(sorted[i], FALSE)) = OneLine(sorted[i].title)
    BY <2>1, FrameFacts
  <2>3. Priority(sorted[i], FALSE) = 6 - Rank(sorted[i])
    BY Ranks DEF Priority, Rank
  <2> QED BY <1>6, <2>2, <2>3
<1>8. ASSUME NEW j \in k + 1 .. n PROVE Head(frames[j]) = 5
  <2>1. PICK f \in Told : frames[j] = Frame(f, TRUE)
    BY <1>6
  <2>2. f.title \in Seq(Nat)
    BY DEF Told
  <2>3. Head(Frame(f, TRUE)) = Priority(f, TRUE)
    BY <2>2, FrameFacts
  <2> HIDE DEF frames
  <2> QED BY <2>1, <2>3 DEF Priority
<1>9. \A a \in 1 .. Retries : outcomes[a] \in [connects : BOOLEAN, breaks : Nat, status : Nat]
  BY <1>1, ElementOfSeq
<1> DEFINE shows(got) == \A i \in DOMAIN opened :
                            place(i) <= Len(got) => Tail(got[place(i)]) = OneLine(opened[i].title)
           tells(got) == \A i \in DOMAIN opened :
                            place(i) <= Len(got) => got[place(i)] = opened[i]
           urgency(got, i) == Head(got[i])
           LineFine(a) == /\ Len(lines[a].got) <= n
                          /\ shows(lines[a].got)
                          /\ lines[a].ok => Len(lines[a].got) = n /\ a = Len(lines)
                          /\ \A i, j \in DOMAIN lines[a].got :
                                /\ i < j /\ j <= k => urgency(lines[a].got, i) <= urgency(lines[a].got, j)
                                /\ j > k => urgency(lines[a].got, j) = 5
           BodyFine(a) == /\ Len(bodies[a].got) \in {0, n}
                          /\ tells(bodies[a].got)
                          /\ bodies[a].ok => Len(bodies[a].got) = n /\ a = Len(bodies)
<1>10. ASSUME NEW a \in DOMAIN lines PROVE LineFine(a)
  <2>1. /\ a \in 1 .. Len(lines) /\ a \in 1 .. Retries /\ lines[a] = SyslogSend(digest, outcomes[a])
        /\ lines[a].ok => a = Len(lines)
    <3>1. DOMAIN lineResults = 1 .. Retries /\ \A b \in 1 .. Retries : lineResults[b] = SyslogSend(digest, outcomes[b])
      BY <1>1
    <3> HIDE DEF lineResults
    <3>2. \E m \in 1 .. Retries :
             /\ Len(lines) = m /\ DOMAIN lines = 1 .. m
             /\ \A b \in 1 .. m : lines[b] = lineResults[b] /\ b \in 1 .. Retries
             /\ \A b \in 1 .. m : lineResults[b].ok => b = m
      BY <3>1, AttemptedFacts
    <3> HIDE DEF lines
    <3> QED BY <3>1, <3>2
  <2> DEFINE got == lines[a].got
  <2>2. \E m \in 0 .. n : /\ DOMAIN got = 1 .. m /\ Len(got) = m
                          /\ \A i \in 1 .. m : got[i] = frames[i]
                          /\ lines[a].ok => m = n
    <3>1. outcomes[a] \in [connects : BOOLEAN, breaks : Nat, status : Nat]
      BY <1>9, <2>1
    <3> HIDE DEF lines, outcomes
    <3> DEFINE sent == SyslogSend(digest, outcomes[a])
    <3>2. \E m \in 0 .. n : /\ DOMAIN sent.got = 1 .. m /\ Len(sent.got) = m
                            /\ \A i \in 1 .. m : sent.got[i] = frames[i]
                            /\ sent.ok => m = n
      BY <3>1, SyslogTells
    <3>3. lines[a] = sent
      BY <2>1
    <3> HIDE DEF n, frames, sent
    <3> QED BY <3>2, <3>3
  <2> HIDE DEF frames, n, sorted, lines, k
  <2>3. PICK m \in 0 .. n : /\ DOMAIN got = 1 .. m /\ Len(got) = m
                            /\ \A i \in 1 .. m : got[i] = frames[i]
                            /\ lines[a].ok => m = n
    BY <2>2
  <2>4. shows(got)
    <3> SUFFICES ASSUME NEW i \in 1 .. k, place(i) <= Len(got)
                 PROVE  Tail(got[place(i)]) = OneLine(opened[i].title)
      BY <1>1
    <3>1. place(i) = pi[i] /\ pi[i] \in 1 .. k /\ sorted[pi[i]] = opened[i]
      BY <1>5
    <3> HIDE DEF place, got
    <3>2. pi[i] \in 1 .. m
      BY <1>1, <2>3, <3>1
    <3>3. got[pi[i]] = frames[pi[i]]
      BY <2>3, <3>2
    <3>4. Tail(frames[pi[i]]) = OneLine(sorted[pi[i]].title)
      BY <1>7, <3>1
    <3> HIDE DEF opened
    <3> QED BY <3>1, <3>3, <3>4
  <2>5. ASSUME NEW i \in 1 .. m, NEW j \in 1 .. m
        PROVE  /\ i < j /\ j <= k => Head(got[i]) <= Head(got[j])
               /\ j > k => Head(got[j]) = 5
    <3> HIDE DEF got
    <3>1. got[i] = frames[i] /\ got[j] = frames[j]
      BY <2>3
    <3>2. ASSUME i < j, j <= k PROVE Head(got[i]) <= Head(got[j])
      <4>1. i \in 1 .. k /\ j \in 1 .. k
        BY <1>1, <2>3, <3>2
      <4>2. Head(frames[i]) = 6 - Rank(sorted[i]) /\ Head(frames[j]) = 6 - Rank(sorted[j])
        BY <1>7, <4>1
      <4>3. Rank(sorted[j]) <= Rank(sorted[i])
        BY <1>4, <3>2, <4>1 DEF Ranked
      <4>4. Rank(sorted[j]) \in Int /\ Rank(sorted[i]) \in Int
        BY Ranks DEF Rank
      <4> QED BY <3>1, <4>2, <4>3, <4>4
    <3>3. ASSUME j > k PROVE Head(got[j]) = 5
      <4>1. j \in k + 1 .. n
        BY <1>1, <2>3, <3>3
      <4> QED BY <1>8, <3>1, <4>1
    <3> QED BY <3>2, <3>3
  <2>6. Len(got) <= n /\ (lines[a].ok => Len(got) = n /\ a = Len(lines))
    BY <1>1, <2>1, <2>3
  <2>7. \A i, j \in DOMAIN got : /\ i < j /\ j <= k => urgency(got, i) <= urgency(got, j)
                                 /\ j > k => urgency(got, j) = 5
    BY <2>3, <2>5
  <2> HIDE DEF shows, urgency
  <2> QED BY <2>4, <2>6, <2>7
<1>11. ASSUME NEW a \in DOMAIN bodies PROVE BodyFine(a)
  <2>1. /\ a \in 1 .. Len(bodies) /\ a \in 1 .. Retries /\ bodies[a] = HTTPSend(digest, outcomes[a])
        /\ bodies[a].ok => a = Len(bodies)
    <3>1. DOMAIN bodyResults = 1 .. Retries /\ \A b \in 1 .. Retries : bodyResults[b] = HTTPSend(digest, outcomes[b])
      BY <1>1
    <3> HIDE DEF bodyResults
    <3>2. \E m \in 1 .. Retries :
             /\ Len(bodies) = m /\ DOMAIN bodies = 1 .. m
             /\ \A b \in 1 .. m : bodies[b] = bodyResults[b] /\ b \in 1 .. Retries
             /\ \A b \in 1 .. m : bodyResults[b].ok => b = m
      BY <3>1, AttemptedFacts
    <3> HIDE DEF bodies
    <3> QED BY <3>1, <3>2
  <2> DEFINE got == bodies[a].got
  <2>2. \E m \in {0, n} : /\ Len(got) = m /\ m \in 0 .. n
                          /\ \A i \in 1 .. k : i <= m => got[i] = sorted[i]
                          /\ bodies[a].ok => m = n
    <3>1. outcomes[a] \in [connects : BOOLEAN, breaks : Nat, status : Nat]
      BY <1>9, <2>1
    <3> HIDE DEF bodies, outcomes
    <3> DEFINE sent == HTTPSend(digest, outcomes[a])
    <3>2. \E m \in {0, n} : /\ Len(sent.got) = m /\ m \in 0 .. n
                            /\ \A i \in 1 .. k : i <= m => sent.got[i] = sorted[i]
                            /\ sent.ok => m = n
      BY <3>1, HTTPTells
    <3>3. bodies[a] = sent
      BY <2>1
    <3> HIDE DEF n, k, sorted, sent
    <3> QED BY <3>2, <3>3
  <2> HIDE DEF n, sorted, bodies, k
  <2>3. PICK m \in {0, n} : /\ Len(got) = m /\ m \in 0 .. n
                            /\ \A i \in 1 .. k : i <= m => got[i] = sorted[i]
                            /\ bodies[a].ok => m = n
    BY <2>2
  <2>4. tells(got)
    <3> SUFFICES ASSUME NEW i \in 1 .. k, place(i) <= Len(got)
                 PROVE  got[place(i)] = opened[i]
      BY <1>1
    <3>1. place(i) = pi[i] /\ pi[i] \in 1 .. k /\ sorted[pi[i]] = opened[i]
      BY <1>5
    <3> HIDE DEF place, got, opened
    <3> QED BY <2>3, <3>1
  <2>5. Len(got) \in {0, n} /\ (bodies[a].ok => Len(got) = n /\ a = Len(bodies))
    BY <2>1, <2>3
  <2> HIDE DEF tells
  <2> QED BY <2>4, <2>5
<1>12. (\A a \in DOMAIN lines : LineFine(a)) /\ \A a \in DOMAIN bodies : BodyFine(a)
  BY <1>10, <1>11, Zenon
<1> QED BY <1>12, Zenon DEF ReceiverTold

-----------------------------------------------------------------------------
(* The evidence. *)

\* What is at a level inside a value, by the level before it.
LEMMA PartsEquation ==
    ASSUME NEW v, NEW n \in 0 .. MaxDepth + 1
    PROVE  Parts(v)[n] = IF n = 0 THEN {v} ELSE UNION {Inside(part) : part \in Parts(v)[n - 1]}
<1> DEFINE N == MaxDepth + 1
           Level(f, k) == IF k = 0 THEN {v} ELSE UNION {Inside(part) : part \in f[k - 1]}
           Good == {m \in 0 .. N : \E f : f = [k \in 0 .. m |-> Level(f, k)]}
           level == CHOOSE f : f = [k \in 0 .. N |-> Level(f, k)]
<1>1. N \in Nat
  BY RedactionAssumption
<1> HIDE DEF N
<1>2. 0 \in Good
  <2> DEFINE f == [k \in 0 .. 0 |-> {v}]
  <2>1. \A k \in 0 .. 0 : Level(f, k) = {v}
    OBVIOUS
  <2>2. f = [k \in 0 .. 0 |-> Level(f, k)]
    BY <2>1
  <2> HIDE DEF f, Level
  <2>3. 0 \in 0 .. N
    BY <1>1
  <2> QED BY <2>2, <2>3
<1>3. ASSUME NEW m \in Good, m # N PROVE m + 1 \in Good
  <2>1. PICK f : f = [k \in 0 .. m |-> Level(f, k)]
    OBVIOUS
  <2> DEFINE g == [k \in 0 .. m + 1 |-> Level(f, k)]
  <2>2. m \in Nat /\ m + 1 \in 0 .. N
    BY <1>1, <1>3
  <2>3. ASSUME NEW k \in 0 .. m + 1 PROVE g[k] = Level(g, k)
    <3>1. CASE k = 0
      BY <2>2, <3>1
    <3>2. CASE k # 0
      <4>1. k - 1 \in 0 .. m /\ k - 1 \in 0 .. m + 1
        BY <2>2, <3>2
      <4>2. f[k - 1] = Level(f, k - 1) /\ g[k - 1] = Level(f, k - 1)
        <5> HIDE DEF Level
        <5> QED BY <2>1, <4>1
      <4>3. g[k] = Level(f, k)
        BY <2>3
      <4> QED BY <3>2, <4>2, <4>3
    <3> QED BY <3>1, <3>2
  <2>4. g = [k \in 0 .. m + 1 |-> Level(g, k)]
    <3> HIDE DEF Level
    <3> QED BY <2>3
  <2> QED BY <2>2, <2>4
<1>4. N \in Good
  <2> HIDE DEF Good
  <2>1. Good \in SUBSET (0 .. N)
    BY DEF Good
  <2>2. Good = 0 .. N
    BY <1>1, <1>2, <1>3, <2>1, UpToAny
  <2> QED BY <1>1, <2>2
<1>5. level = [k \in 0 .. N |-> Level(level, k)]
  <2> HIDE DEF Level
  <2> QED BY <1>4
<1>6. Parts(v) = level
  BY DEF Parts, N
<1> HIDE DEF level
<1>7. level[n] = Level(level, n)
  <2> HIDE DEF Level
  <2> QED BY <1>5 DEF N
<1> QED BY <1>6, <1>7

\* The first two levels.
LEMMA FirstParts ==
    ASSUME NEW v
    PROVE  Parts(v)[0] = {v} /\ Parts(v)[1] = Inside(v)
<1>1. 0 \in 0 .. MaxDepth + 1 /\ 1 \in 0 .. MaxDepth + 1 /\ 1 # 0 /\ 1 - 1 = 0
  BY RedactionAssumption
<1>2. Parts(v)[0] = {v}
  <2>1. Parts(v)[0] = IF 0 = 0 THEN {v} ELSE UNION {Inside(part) : part \in Parts(v)[0 - 1]}
    BY <1>1, PartsEquation
  <2> QED BY <2>1
<1>3. Parts(v)[1] = UNION {Inside(part) : part \in Parts(v)[0]}
  <2>1. Parts(v)[1] = IF 1 = 0 THEN {v} ELSE UNION {Inside(part) : part \in Parts(v)[1 - 1]}
    BY <1>1, PartsEquation
  <2> QED BY <1>1, <2>1
<1> QED BY <1>2, <1>3

\* At the greatest depth nothing deeper is read.
LEMMA DeepestReadsNothing ==
    ASSUME NEW v, NEW f, NEW g
    PROVE  SanitizeValue(v, MaxDepth, f) = SanitizeValue(v, MaxDepth, g)
<1>1. MaxDepth >= MaxDepth /\ ~(MaxDepth < MaxDepth)
  BY RedactionAssumption
<1> QED BY <1>1 DEF SanitizeValue, SanitizeGeneric

\* The recursive definition of sanitizeValue does define it.
LEMMA SanitizeAtEquation ==
    ASSUME NEW in, NEW depth \in 1 .. MaxDepth
    PROVE  SanitizeAt(in)[depth] =
               [v \in Parts(in)[depth] |-> SanitizeValue(v, depth, SanitizeAt(in)[depth + 1])]
<1> DEFINE N == MaxDepth - 1
           Level(f, d) == [v \in Parts(in)[d] |-> SanitizeValue(v, d, f[d + 1])]
           Good == {m \in 0 .. N : \E f : f = [d \in MaxDepth - m .. MaxDepth |-> Level(f, d)]}
           at == CHOOSE f : f = [d \in 1 .. MaxDepth |-> Level(f, d)]
<1>1. N \in Nat /\ MaxDepth \in Nat /\ MaxDepth = N + 1
  BY RedactionAssumption
<1> HIDE DEF N
<1>2. \A f, g : Level(f, MaxDepth) = Level(g, MaxDepth)
  BY DeepestReadsNothing
<1>3. \A f, g, d : f[d + 1] = g[d + 1] => Level(f, d) = Level(g, d)
  OBVIOUS
<1> HIDE DEF Level
<1>4. 0 \in Good
  <2> DEFINE f == [d \in MaxDepth - 0 .. MaxDepth |-> Level(<<>>, d)]
  <2>1. \A d \in MaxDepth - 0 .. MaxDepth : d = MaxDepth
    BY <1>1
  <2>2. \A d \in MaxDepth - 0 .. MaxDepth : Level(<<>>, d) = Level(f, d)
    BY <1>2, <2>1
  <2>3. f = [d \in MaxDepth - 0 .. MaxDepth |-> Level(f, d)]
    BY <2>2
  <2> QED BY <1>1, <2>3
<1>5. ASSUME NEW m \in Good, m # N PROVE m + 1 \in Good
  <2>1. PICK f : f = [d \in MaxDepth - m .. MaxDepth |-> Level(f, d)]
    OBVIOUS
  <2> DEFINE g == [d \in MaxDepth - (m + 1) .. MaxDepth |-> Level(f, d)]
  <2>2. m \in Nat /\ m + 1 \in 0 .. N
    BY <1>1, <1>5
  <2>3. ASSUME NEW d \in MaxDepth - (m + 1) .. MaxDepth PROVE g[d] = Level(g, d)
    <3>1. g[d] = Level(f, d)
      OBVIOUS
    <3>2. CASE d = MaxDepth
      BY <1>2, <3>1, <3>2
    <3>3. CASE d # MaxDepth
      <4>1. d + 1 \in MaxDepth - m .. MaxDepth /\ d + 1 \in MaxDepth - (m + 1) .. MaxDepth
        BY <1>1, <2>2, <3>3
      <4>2. f[d + 1] = Level(f, d + 1) /\ g[d + 1] = Level(f, d + 1)
        BY <2>1, <4>1
      <4> HIDE DEF g
      <4> QED BY <1>3, <3>1, <4>2
    <3> QED BY <3>2, <3>3
  <2>4. g = [d \in MaxDepth - (m + 1) .. MaxDepth |-> Level(g, d)]
    BY <2>3
  <2> QED BY <2>2, <2>4
<1>6. \E f : f = [d \in 1 .. MaxDepth |-> Level(f, d)]
  <2>1. Good = 0 .. N
    <3> HIDE DEF Good
    <3>1. Good \in SUBSET (0 .. N)
      BY DEF Good
    <3> QED BY <1>1, <1>4, <1>5, <3>1, UpToAny
  <2>2. N \in Good /\ MaxDepth - N = 1
    <3> HIDE DEF Good
    <3> QED BY <1>1, <2>1
  <2>3. PICK f : f = [d \in MaxDepth - N .. MaxDepth |-> Level(f, d)]
    BY <2>2
  <2> QED BY <2>2, <2>3
<1>7. at = [d \in 1 .. MaxDepth |-> Level(at, d)]
  BY <1>6
<1>8. SanitizeAt(in) = at
  BY DEF SanitizeAt, Level
<1> HIDE DEF at
<1>9. at[depth] = Level(at, depth)
  BY <1>7
<1> QED BY <1>8, <1>9 DEF Level

\* The names that a map keeps are no more than the limit, and all of no more.
LEMMA KeptNames ==
    ASSUME NEW names \in SUBSET Nat, IsFiniteSet(names)
    PROVE  LET kept == {k \in names : Place(names, k) <= MaxKeys}
           IN  /\ IsFiniteSet(kept) /\ Cardinality(kept) \in 0 .. MaxKeys
               /\ Cardinality(names) <= MaxKeys => kept = names
<1> DEFINE kept == {k \in names : Place(names, k) <= MaxKeys}
           place == [k \in kept |-> Place(names, k)]
<1>1. \A k \in names : Place(names, k) \in Nat /\ 1 <= Place(names, k)
                       /\ Place(names, k) <= Cardinality(names)
  <2> TAKE k \in names
  <2>1. Place(names, k) \in 1 .. Cardinality(names) /\ Cardinality(names) \in Nat
    BY PlaceType, FS_CardinalityType
  <2> QED BY <2>1
<1>2. MaxKeys \in Nat /\ Cardinality(names) \in Nat
  BY RedactionAssumption, FS_CardinalityType
<1>3. place \in Injection(kept, 1 .. MaxKeys)
  <2>1. place \in [kept -> 1 .. MaxKeys]
    <3> SUFFICES ASSUME NEW k \in kept PROVE Place(names, k) \in 1 .. MaxKeys
      OBVIOUS
    <3> DEFINE p == Place(names, k)
    <3>1. p \in Nat /\ 1 <= p /\ p <= MaxKeys
      BY <1>1
    <3> HIDE DEF p
    <3>2. p \in 1 .. MaxKeys
      BY <1>2, <3>1
    <3> QED BY <3>2 DEF p
  <2>2. ASSUME NEW a \in kept, NEW b \in kept, place[a] = place[b] PROVE a = b
    <3>1. a \in Nat /\ b \in Nat /\ Place(names, a) = Place(names, b)
      BY <2>2
    <3>2. ~(Place(names, a) < Place(names, b)) /\ ~(Place(names, b) < Place(names, a))
      BY <1>1, <3>1
    <3>3. ~(a < b) /\ ~(b < a)
      BY <3>2, PlaceGrows
    <3> QED BY <3>1, <3>3
  <2> HIDE DEF place, kept
  <2> QED BY <2>1, <2>2 DEF Injection, IsInjective
<1>4. IsFiniteSet(1 .. MaxKeys) /\ Cardinality(1 .. MaxKeys) = MaxKeys
  BY <1>2, FS_Interval
<1>5. IsFiniteSet(kept) /\ Cardinality(kept) <= MaxKeys
  <2> HIDE DEF place, kept
  <2>1. IsFiniteSet(kept) /\ Cardinality(kept) <= Cardinality(1 .. MaxKeys)
    BY <1>3, <1>4, FS_Injection
  <2> QED BY <1>4, <2>1
<1>6. Cardinality(kept) \in 0 .. MaxKeys
  <2> HIDE DEF kept
  <2> QED BY <1>2, <1>5, FS_CardinalityType
<1>7. ASSUME Cardinality(names) <= MaxKeys PROVE kept = names
  <2> SUFFICES ASSUME NEW k \in names PROVE Place(names, k) <= MaxKeys
    OBVIOUS
  <2> DEFINE p == Place(names, k)
             n == Cardinality(names)
  <2>1. p \in Nat /\ p <= n
    BY <1>1
  <2>2. n \in Nat /\ n <= MaxKeys
    BY <1>2, <1>7
  <2> HIDE DEF p, n
  <2>3. p <= MaxKeys
    BY <1>2, <2>1, <2>2
  <2> QED BY <2>3 DEF p
<1> QED BY <1>5, <1>6, <1>7

\* The strings that leave the process.
FlatTexts == {Text(length, FALSE) : length \in 0 .. MaxString + 1}

\* A string leaves clean, and as it is when it is clean and short.
LEMMA CleanStrings ==
    ASSUME NEW t, IsText(t)
    PROVE  /\ CleanString(t) \in FlatTexts
           /\ IsClean(t, MaxString) => CleanString(t) = t
<1>1. MaxString \in Nat /\ MaxString + 1 \in 0 .. MaxString + 1 /\ 1 \in 0 .. MaxString + 1
  BY RedactionAssumption
<1>2. t.length \in Nat /\ t.foul \in BOOLEAN /\ t = Text(t.length, t.foul) /\ t.kind = "string"
  BY DEF IsText
<1>3. CASE t.foul
  BY <1>1, <1>2, <1>3 DEF CleanString, Truncated, FlatTexts, Placeholder, IsClean
<1>4. CASE ~t.foul
  <2>1. t.foul = FALSE
    BY <1>2, <1>4
  <2>2. CASE t.length > MaxString
    <3>1. CleanString(t) = Text(MaxString + 1, FALSE)
      BY <1>4, <2>2 DEF CleanString, Truncated
    <3>2. ~IsClean(t, MaxString)
      BY <1>1, <1>2, <2>2 DEF IsClean
    <3> QED BY <1>1, <3>1, <3>2 DEF FlatTexts
  <2>3. CASE ~(t.length > MaxString)
    <3>1. CleanString(t) = Text(t.length, FALSE)
      BY <1>4, <2>3 DEF CleanString, Truncated
    <3>2. t.length \in 0 .. MaxString + 1
      <4> DEFINE l == t.length
      <4>1. l \in Nat /\ ~(l > MaxString)
        BY <1>2, <2>3
      <4> HIDE DEF l
      <4>2. l \in 0 .. MaxString + 1
        BY <1>1, <4>1
      <4> QED BY <4>2 DEF l
    <3> QED BY <1>2, <2>1, <3>1, <3>2 DEF FlatTexts
  <2> QED BY <2>2, <2>3
<1> QED BY <1>3, <1>4

\* Such a string is clean, and nothing is inside it or a scalar.
LEMMA FlatFacts ==
    ASSUME NEW w \in FlatTexts \cup {Scalar}
    PROVE  IsClean(w, MaxString + 1) /\ Inside(w) = {}
<1>1. MaxString + 1 \in Nat
  BY RedactionAssumption
<1>2. CASE w = Scalar
  BY <1>2 DEF Scalar, IsClean, Inside, Generic
<1>3. CASE w \in FlatTexts
  <2>1. PICK l \in 0 .. MaxString + 1 : w = Text(l, FALSE)
    BY <1>3 DEF FlatTexts
  <2>2. w.kind = "string" /\ w.length = l /\ w.foul = FALSE
    BY <2>1 DEF Text
  <2> QED BY <1>1, <2>2 DEF IsClean, Inside, Generic
<1> QED BY <1>2, <1>3

\* What leaves of a map.
LEMMA MapLeaves ==
    ASSUME NEW v, IsGeneric(v), v.kind = "map", NEW inner
    PROVE  LET w == SanitizeMap(v, inner)
           IN  /\ IsClean(w, MaxString + 1)
               /\ Inside(w) \subseteq {inner[part] : part \in Inside(v)}
               /\ IsClean(v, MaxString) /\ (\A part \in Inside(v) : inner[part] = part) => w = v
<1> DEFINE keys == DOMAIN v.entries
           names == keys \ Secret
           kept == {k \in names : Place(names, k) <= MaxKeys}
           w == SanitizeMap(v, inner)
<1>1. v = Map(v.entries) /\ v.entries \in [keys -> Inside(v)] /\ IsFiniteSet(keys) /\ keys \subseteq Nat
  BY DEF IsGeneric, Scalar, IsText, List
<1>2. Inside(v) = {v.entries[k] : k \in keys}
  BY DEF Inside, Generic
<1>3. names \in SUBSET Nat /\ IsFiniteSet(names)
  BY <1>1, FS_Subset
<1>4. /\ IsFiniteSet(kept) /\ Cardinality(kept) \in 0 .. MaxKeys
      /\ Cardinality(names) <= MaxKeys => kept = names
  <2> HIDE DEF names
  <2> QED BY <1>3, KeptNames
<1>5. kept \subseteq names
  OBVIOUS
<1>6. w = IF kept = {} THEN Scalar ELSE Map([k \in kept |-> inner[v.entries[k]]])
  BY DEF SanitizeMap
<1>7. kept # {} => Cardinality(kept) \in 1 .. MaxKeys
  <2> HIDE DEF kept
  <2>1. kept # {} => Cardinality(kept) # 0
    BY <1>4, FS_EmptySet
  <2> QED BY <1>4, <2>1
<1> HIDE DEF kept, w
<1>8. CASE kept = {}
  <2>1. w = Scalar
    BY <1>6, <1>8
  <2>2. IsClean(w, MaxString + 1) /\ Inside(w) = {}
    BY <2>1, FlatFacts
  <2>3. ~IsClean(v, MaxString)
    <3> SUFFICES ASSUME IsClean(v, MaxString) PROVE FALSE
      OBVIOUS
    <3>1. names = keys /\ Cardinality(keys) \in 1 .. MaxKeys
      BY DEF IsClean
    <3>2. MaxKeys \in Nat
      BY RedactionAssumption
    <3>3. kept = keys
      BY <1>4, <3>1, <3>2
    <3> QED BY <1>8, <3>1, <3>3, FS_EmptySet
  <2> QED BY <2>2, <2>3 DEF w
<1>9. CASE kept # {}
  <2> DEFINE entries == [k \in kept |-> inner[v.entries[k]]]
  <2>1. w = Map(entries)
    BY <1>6, <1>9
  <2>2. w.kind = "map" /\ w.entries = entries /\ DOMAIN entries = kept
    BY <2>1 DEF Map
  <2>3. IsClean(w, MaxString + 1)
    <3>1. kept \cap Secret = {}
      BY <1>5
    <3> HIDE DEF entries
    <3> QED BY <1>7, <1>9, <2>2, <3>1 DEF IsClean
  <2>4. Inside(w) = {entries[k] : k \in kept}
    <3> HIDE DEF entries
    <3> QED BY <2>2 DEF Inside, Generic
  <2>5. Inside(w) \subseteq {inner[part] : part \in Inside(v)}
    <3> SUFFICES ASSUME NEW k \in kept PROVE entries[k] \in {inner[part] : part \in Inside(v)}
      BY <2>4
    <3>1. k \in keys /\ entries[k] = inner[v.entries[k]]
      BY <1>5
    <3> QED BY <1>2, <3>1
  <2>6. ASSUME IsClean(v, MaxString), \A part \in Inside(v) : inner[part] = part PROVE w = v
    <3>1. names = keys /\ Cardinality(keys) \in 1 .. MaxKeys
      BY <2>6 DEF IsClean
    <3>2. MaxKeys \in Nat
      BY RedactionAssumption
    <3>3. kept = keys
      BY <1>4, <3>1, <3>2
    <3>4. entries = v.entries
      BY <1>1, <2>6, <3>3
    <3> QED BY <1>1, <2>1, <3>4
  <2> QED BY <2>3, <2>5, <2>6 DEF w
<1> QED BY <1>8, <1>9

\* What leaves of a list.
LEMMA ListLeaves ==
    ASSUME NEW v, IsGeneric(v), v.kind = "list", NEW inner
    PROVE  LET w == List([i \in Upto(v.items) |-> inner[v.items[i]]])
           IN  /\ IsClean(w, MaxString + 1)
               /\ Inside(w) \subseteq {inner[part] : part \in Inside(v)}
               /\ IsClean(v, MaxString) /\ (\A part \in Inside(v) : inner[part] = part) => w = v
<1> DEFINE n == Len(v.items)
           items == [i \in Upto(v.items) |-> inner[v.items[i]]]
           w == List(items)
<1>1. v = List(v.items) /\ v.items \in Seq(Inside(v))
  BY DEF IsGeneric, Scalar, IsText, Map
<1>2. n \in Nat /\ DOMAIN v.items = 1 .. n /\ MaxList \in Nat
  BY <1>1, RedactionAssumption
<1>3. Inside(v) = {v.items[i] : i \in 1 .. n}
  BY <1>2 DEF Inside, Generic
<1>4. PICK m \in 0 .. MaxList : Upto(v.items) = 1 .. m /\ m <= n /\ (n <= MaxList => m = n)
  <2>1. CASE n > MaxList
    BY <1>2, <2>1 DEF Upto
  <2>2. CASE ~(n > MaxList)
    BY <1>2, <2>2 DEF Upto
  <2> QED BY <2>1, <2>2
<1>5. items = [i \in 1 .. m |-> inner[v.items[i]]] /\ Len(items) = m /\ DOMAIN items = 1 .. m
  BY <1>4
<1>6. w.kind = "list" /\ w.items = items
  BY DEF List
<1> HIDE DEF items, w
<1>7. IsClean(w, MaxString + 1)
  BY <1>2, <1>4, <1>5, <1>6 DEF IsClean
<1>8. Inside(w) = {items[i] : i \in 1 .. m}
  BY <1>5, <1>6 DEF Inside, Generic
<1>9. Inside(w) \subseteq {inner[part] : part \in Inside(v)}
  <2> SUFFICES ASSUME NEW i \in 1 .. m PROVE items[i] \in {inner[part] : part \in Inside(v)}
    BY <1>8
  <2>1. i \in 1 .. n /\ items[i] = inner[v.items[i]]
    BY <1>2, <1>4, <1>5
  <2> QED BY <1>3, <2>1
<1>10. ASSUME IsClean(v, MaxString), \A part \in Inside(v) : inner[part] = part PROVE w = v
  <2>1. m = n
    BY <1>4, <1>10 DEF IsClean
  <2>2. \A i \in 1 .. n : v.items[i] \in Inside(v)
    BY <1>3
  <2>3. items = [i \in 1 .. n |-> v.items[i]]
    BY <1>5, <1>10, <2>1, <2>2
  <2>4. items = v.items
    BY <1>1, <1>2, <2>3
  <2> QED BY <1>1, <2>4 DEF w
<1> QED BY <1>7, <1>9, <1>10 DEF w, items

\* What leaves of a list of strings.
LEMMA StringsLeave ==
    ASSUME NEW v, IsValue(v), v.kind = "strings"
    PROVE  LET w == List([i \in Upto(v.items) |-> CleanString(v.items[i])])
           IN  IsClean(w, MaxString + 1) /\ Inside(w) \subseteq FlatTexts
<1> DEFINE n == Len(v.items)
           items == [i \in Upto(v.items) |-> CleanString(v.items[i])]
           w == List(items)
<1>1. v.items \in Seq({v.items[i] : i \in DOMAIN v.items}) /\ \A i \in DOMAIN v.items : IsText(v.items[i])
  BY DEF IsValue, IsGeneric, Scalar, IsText, Map, List, Unserialisable, Struct
<1>2. n \in Nat /\ DOMAIN v.items = 1 .. n /\ MaxList \in Nat
  BY <1>1, RedactionAssumption
<1>3. PICK m \in 0 .. MaxList : Upto(v.items) = 1 .. m /\ m <= n
  <2>1. CASE n > MaxList
    BY <1>2, <2>1 DEF Upto
  <2>2. CASE ~(n > MaxList)
    BY <1>2, <2>2 DEF Upto
  <2> QED BY <2>1, <2>2
<1>4. Len(items) = m /\ DOMAIN items = 1 .. m /\ \A i \in 1 .. m : items[i] = CleanString(v.items[i])
  BY <1>3
<1>5. w.kind = "list" /\ w.items = items
  BY DEF List
<1> HIDE DEF items, w
<1>6. IsClean(w, MaxString + 1)
  BY <1>2, <1>3, <1>4, <1>5 DEF IsClean
<1>7. Inside(w) = {items[i] : i \in 1 .. m}
  BY <1>4, <1>5 DEF Inside, Generic
<1>8. \A i \in 1 .. m : items[i] \in FlatTexts
  <2> TAKE i \in 1 .. m
  <2>1. i \in DOMAIN v.items
    BY <1>2, <1>3
  <2> QED BY <1>1, <1>4, <2>1, CleanStrings
<1> QED BY <1>6, <1>7, <1>8 DEF w, items

\* What leaves of a value that is no struct.
LEMMA GenericLeaves ==
    ASSUME NEW v, IsGeneric(v) \/ (IsValue(v) /\ v.kind = "strings"), NEW depth \in 1 .. MaxDepth, NEW inner
    PROVE  LET w    == SanitizeGeneric(v, depth, inner)
               sent == {inner[part] : part \in Inside(v)}
           IN  /\ IsClean(w, MaxString + 1)
               /\ Inside(w) \subseteq FlatTexts \cup IF depth < MaxDepth THEN sent ELSE {}
               /\ /\ IsClean(v, MaxString)
                  /\ depth < MaxDepth => \A part \in Inside(v) : inner[part] = part
                  /\ depth = MaxDepth => v.kind \in {"scalar", "string"}
                  => w = v
<1> DEFINE w == SanitizeGeneric(v, depth, inner)
           sent == {inner[part] : part \in Inside(v)}
<1>1. MaxDepth \in Nat /\ depth \in Nat /\ (depth >= MaxDepth <=> depth = MaxDepth)
      /\ (depth < MaxDepth <=> depth # MaxDepth)
  BY RedactionAssumption
<1>2. CASE v = Scalar
  <2>1. w = v
    BY <1>2 DEF SanitizeGeneric, Scalar
  <2>2. IsClean(v, MaxString + 1) /\ Inside(v) = {}
    BY <1>2, FlatFacts
  <2> HIDE DEF w
  <2> QED BY <2>1, <2>2 DEF w
<1>3. CASE IsText(v)
  <2>1. w = CleanString(v) /\ v.kind = "string"
    BY <1>3 DEF SanitizeGeneric, IsText
  <2>2. w \in FlatTexts /\ (IsClean(v, MaxString) => w = v)
    BY <1>3, <2>1, CleanStrings
  <2> HIDE DEF w
  <2>3. IsClean(w, MaxString + 1) /\ Inside(w) = {}
    BY <2>2, FlatFacts
  <2> QED BY <2>2, <2>3 DEF w
<1>4. CASE v.kind \in {"map", "list"} /\ depth = MaxDepth
  <2>1. w = Placeholder
    BY <1>1, <1>4 DEF SanitizeGeneric
  <2>2. Placeholder \in FlatTexts
    <3>1. 1 \in 0 .. MaxString + 1
      BY RedactionAssumption
    <3> QED BY <3>1 DEF Placeholder, FlatTexts
  <2>3. IsClean(w, MaxString + 1) /\ Inside(w) = {}
    <3> HIDE DEF w
    <3> QED BY <2>1, <2>2, FlatFacts
  <2>4. v.kind \notin {"scalar", "string"}
    BY <1>4
  <2> HIDE DEF w
  <2> QED BY <1>4, <2>3, <2>4 DEF w
<1>5. CASE IsGeneric(v) /\ v.kind = "map" /\ depth # MaxDepth
  <2>1. w = SanitizeMap(v, inner)
    BY <1>1, <1>5 DEF SanitizeGeneric
  <2> HIDE DEF w
  <2>2. /\ IsClean(w, MaxString + 1)
        /\ Inside(w) \subseteq {inner[part] : part \in Inside(v)}
        /\ IsClean(v, MaxString) /\ (\A part \in Inside(v) : inner[part] = part) => w = v
    BY <1>5, <2>1, MapLeaves
  <2> QED BY <1>1, <1>5, <2>2 DEF w
<1>6. CASE IsGeneric(v) /\ v.kind = "list" /\ depth # MaxDepth
  <2>1. w = List([i \in Upto(v.items) |-> inner[v.items[i]]])
    BY <1>1, <1>6 DEF SanitizeGeneric
  <2> HIDE DEF w
  <2>2. /\ IsClean(w, MaxString + 1)
        /\ Inside(w) \subseteq {inner[part] : part \in Inside(v)}
        /\ IsClean(v, MaxString) /\ (\A part \in Inside(v) : inner[part] = part) => w = v
    BY <1>6, <2>1, ListLeaves
  <2> QED BY <1>1, <1>6, <2>2 DEF w
<1>7. CASE IsValue(v) /\ v.kind = "strings"
  <2>1. w = List([i \in Upto(v.items) |-> CleanString(v.items[i])])
    BY <1>7 DEF SanitizeGeneric
  <2> HIDE DEF w
  <2>2. IsClean(w, MaxString + 1) /\ Inside(w) \subseteq FlatTexts
    BY <1>7, <2>1, StringsLeave
  <2>3. ~IsClean(v, MaxString)
    BY <1>7 DEF IsClean
  <2> QED BY <2>2, <2>3 DEF w
<1>8. \/ v = Scalar \/ IsText(v) \/ (v.kind \in {"map", "list"} /\ depth = MaxDepth)
      \/ (IsGeneric(v) /\ v.kind = "map" /\ depth # MaxDepth)
      \/ (IsGeneric(v) /\ v.kind = "list" /\ depth # MaxDepth)
      \/ (IsValue(v) /\ v.kind = "strings")
  BY DEF IsGeneric
<1> HIDE DEF w
<1> QED BY <1>2, <1>3, <1>4, <1>5, <1>6, <1>7, <1>8 DEF w

\* What leaves of a value.
LEMMA ValueLeaves ==
    ASSUME NEW v, IsValue(v), NEW depth \in 1 .. MaxDepth, NEW inner
    PROVE  LET w    == SanitizeValue(v, depth, inner)
               sent == {inner[part] : part \in Inside(v)}
           IN  /\ IsClean(w, MaxString + 1)
               /\ Inside(w) \subseteq FlatTexts \cup IF depth < MaxDepth THEN sent ELSE {}
               /\ /\ IsClean(v, MaxString)
                  /\ depth < MaxDepth => \A part \in Inside(v) : inner[part] = part
                  /\ depth = MaxDepth => v.kind \in {"scalar", "string"}
                  => w = v
<1> DEFINE w == SanitizeValue(v, depth, inner)
           g == Generic(v)
<1>1. CASE v = Unserialisable
  <2>1. w = Placeholder
    BY <1>1 DEF SanitizeValue
  <2>2. Placeholder \in FlatTexts
    <3>1. 1 \in 0 .. MaxString + 1
      BY RedactionAssumption
    <3> QED BY <3>1 DEF Placeholder, FlatTexts
  <2>3. ~IsClean(v, MaxString)
    BY <1>1 DEF IsClean, Unserialisable
  <2> HIDE DEF w
  <2>4. IsClean(w, MaxString + 1) /\ Inside(w) = {}
    BY <2>1, <2>2, FlatFacts
  <2> QED BY <2>3, <2>4 DEF w
<1>2. CASE v.kind = "struct" /\ v = Struct(v.items[1]) /\ IsGeneric(v.items[1])
  <2> DEFINE item == v.items[1]
  <2>1. g = item /\ v # Unserialisable
    <3>1. v.items = <<item>> /\ v.items # <<>>
      BY <1>2 DEF Struct
    <3> QED BY <1>2, <3>1 DEF Generic, Unserialisable
  <2>2. item.kind # "struct"
    BY <1>2 DEF IsGeneric, IsText, Scalar
  <2>3. Inside(v) = Inside(item)
    <3>1. Generic(item) = item
      BY <2>2 DEF Generic
    <3> HIDE DEF item
    <3> QED BY <2>1, <3>1 DEF Inside
  <2>4. w = SanitizeGeneric(item, depth, inner)
    BY <2>1 DEF SanitizeValue
  <2>5. ~IsClean(v, MaxString)
    BY <1>2 DEF IsClean
  <2> HIDE DEF w
  <2>6. /\ IsClean(w, MaxString + 1)
        /\ Inside(w) \subseteq FlatTexts \cup
               IF depth < MaxDepth THEN {inner[part] : part \in Inside(item)} ELSE {}
    <3>1. IsGeneric(item)
      BY <1>2
    <3> HIDE DEF item
    <3> QED BY <2>4, <3>1, GenericLeaves
  <2> HIDE DEF item
  <2> QED BY <2>3, <2>5, <2>6 DEF w
<1>3. CASE IsGeneric(v) \/ (IsValue(v) /\ v.kind = "strings")
  <2>1. v.kind # "struct" /\ v # Unserialisable
    BY <1>3 DEF IsGeneric, IsText, Scalar, Unserialisable
  <2>2. w = SanitizeGeneric(v, depth, inner)
    BY <2>1 DEF SanitizeValue, Generic
  <2> HIDE DEF w
  <2> QED BY <1>3, <2>2, GenericLeaves DEF w
<1>4. v = Unserialisable \/ (v.kind = "struct" /\ v = Struct(v.items[1]) /\ IsGeneric(v.items[1]))
      \/ IsGeneric(v) \/ (IsValue(v) /\ v.kind = "strings")
  BY DEF IsValue
<1> HIDE DEF w
<1> QED BY <1>1, <1>2, <1>3, <1>4 DEF w

\* What may be in the evidence that leaves, at a level.
Sent(in, n) ==
    FlatTexts \cup IF n <= MaxDepth THEN {SanitizeAt(in)[n][v] : v \in Parts(in)[n]} ELSE {}

\* What leaves of the values at a depth, from what is inside them.
LEMMA SanitizedFacts ==
    ASSUME NEW in, IsEvidence(in), NEW depth \in 1 .. MaxDepth, NEW v \in Parts(in)[depth]
    PROVE  LET w == SanitizeAt(in)[depth][v]
           IN  /\ IsClean(w, MaxString + 1)
               /\ Inside(w) \subseteq Sent(in, depth + 1)
               /\ /\ IsClean(v, MaxString)
                  /\ depth < MaxDepth =>
                        \A part \in Parts(in)[depth + 1] : SanitizeAt(in)[depth + 1][part] = part
                  /\ depth = MaxDepth => v.kind \in {"scalar", "string"}
                  => w = v
<1> DEFINE w == SanitizeAt(in)[depth][v]
           inner == SanitizeAt(in)[depth + 1]
           next == Parts(in)[depth + 1]
<1>1. MaxDepth \in Nat /\ depth \in 0 .. MaxDepth /\ depth + 1 \in 0 .. MaxDepth + 1 /\ depth \in Nat
  BY RedactionAssumption
<1>2. IsValue(v)
  BY <1>1 DEF IsEvidence
<1>3. w = SanitizeValue(v, depth, inner)
  <2>1. SanitizeAt(in)[depth] = [x \in Parts(in)[depth] |-> SanitizeValue(x, depth, inner)]
    BY SanitizeAtEquation
  <2> QED BY <2>1
<1>4. Inside(v) \subseteq next
  <2>1. next = UNION {Inside(part) : part \in Parts(in)[depth]}
    <3>1. depth + 1 # 0 /\ (depth + 1) - 1 = depth
      BY <1>1
    <3> QED BY <1>1, <3>1, PartsEquation
  <2> QED BY <2>1
<1> HIDE DEF w, inner, next
<1>5. /\ IsClean(w, MaxString + 1)
      /\ Inside(w) \subseteq FlatTexts \cup
             IF depth < MaxDepth THEN {inner[part] : part \in Inside(v)} ELSE {}
      /\ /\ IsClean(v, MaxString)
         /\ depth < MaxDepth => \A part \in Inside(v) : inner[part] = part
         /\ depth = MaxDepth => v.kind \in {"scalar", "string"}
         => w = v
  BY <1>2, <1>3, ValueLeaves
<1>6. Inside(w) \subseteq Sent(in, depth + 1)
  <2>1. depth < MaxDepth <=> depth + 1 <= MaxDepth
    BY <1>1
  <2>2. {inner[part] : part \in Inside(v)} \subseteq {inner[part] : part \in next}
    BY <1>4
  <2> QED BY <1>5, <2>1, <2>2 DEF Sent, inner, next
<1> QED BY <1>4, <1>5, <1>6 DEF w, inner, next

\* All that leaves is clean, and what is inside it left too.
LEMMA SentFacts ==
    ASSUME NEW in, IsEvidence(in), NEW n \in 1 .. MaxDepth + 1, NEW w \in Sent(in, n)
    PROVE  /\ IsClean(w, MaxString + 1)
           /\ n <= MaxDepth => Inside(w) \subseteq Sent(in, n + 1)
           /\ n = MaxDepth + 1 => w.kind = "string"
<1>1. MaxDepth \in Nat /\ n \in Nat
  BY RedactionAssumption
<1>2. CASE w \in FlatTexts
  <2>1. w.kind = "string"
    BY <1>2 DEF FlatTexts, Text
  <2> QED BY <1>2, <2>1, FlatFacts
<1>3. CASE w \notin FlatTexts
  <2>1. n <= MaxDepth /\ w \in {SanitizeAt(in)[n][v] : v \in Parts(in)[n]}
    BY <1>3 DEF Sent
  <2>2. PICK v \in Parts(in)[n] : w = SanitizeAt(in)[n][v]
    BY <2>1
  <2>3. n \in 1 .. MaxDepth /\ n # MaxDepth + 1
    BY <1>1, <2>1
  <2>4. IsClean(w, MaxString + 1) /\ Inside(w) \subseteq Sent(in, n + 1)
    BY <2>2, <2>3, SanitizedFacts
  <2> QED BY <2>3, <2>4
<1> QED BY <1>2, <1>3

\* What is in the evidence that leaves, level by level.
LEMMA LevelsLeave ==
    ASSUME NEW in, IsEvidence(in), NEW n \in 1 .. MaxDepth + 1
    PROVE  /\ IsClean(SanitizeEvidence(in), MaxString + 1)
           /\ Parts(SanitizeEvidence(in))[n] \subseteq Sent(in, n)
<1> DEFINE out == SanitizeEvidence(in)
           inner == SanitizeAt(in)[1]
           Good == {m \in 0 .. MaxDepth : Parts(out)[m + 1] \subseteq Sent(in, m + 1)}
<1>1. MaxDepth \in Nat /\ 1 <= MaxDepth /\ 0 \in 0 .. MaxDepth /\ 1 \in 0 .. MaxDepth + 1 /\ 0 \in 0 .. MaxDepth + 1
  BY RedactionAssumption
<1>2. Parts(in)[0] = {in} /\ Parts(in)[1] = Inside(in) /\ Parts(out)[1] = Inside(out)
  BY FirstParts
<1>3. IsGeneric(in) /\ in.kind = "map"
  <2>1. IsValue(in) /\ in.kind = "map"
    BY <1>1, <1>2 DEF IsEvidence
  <2> QED BY <2>1 DEF IsValue, Unserialisable
<1>4. IsClean(out, MaxString + 1) /\ Inside(out) \subseteq {inner[part] : part \in Inside(in)}
  <2>1. out = SanitizeMap(in, inner)
    BY DEF SanitizeEvidence
  <2> HIDE DEF out, inner
  <2> QED BY <1>3, <2>1, MapLeaves
<1>5. 0 \in Good
  <2>1. Sent(in, 1) = FlatTexts \cup {inner[part] : part \in Inside(in)}
    BY <1>1, <1>2 DEF Sent
  <2> HIDE DEF out, inner
  <2>2. 0 + 1 = 1
    OBVIOUS
  <2> QED BY <1>1, <1>2, <1>4, <2>1, <2>2
<1>6. ASSUME NEW m \in Good, m # MaxDepth PROVE m + 1 \in Good
  <2>1. /\ m \in Nat /\ m + 1 \in 0 .. MaxDepth /\ (m + 1) + 1 \in 0 .. MaxDepth + 1
        /\ m + 1 \in 1 .. MaxDepth + 1 /\ m + 1 <= MaxDepth /\ (m + 1) + 1 # 0 /\ ((m + 1) + 1) - 1 = m + 1
    BY <1>1, <1>6
  <2>2. Parts(out)[(m + 1) + 1] = UNION {Inside(part) : part \in Parts(out)[m + 1]}
    <3> HIDE DEF out
    <3> QED BY <2>1, PartsEquation
  <2>3. \A part \in Parts(out)[m + 1] : Inside(part) \subseteq Sent(in, (m + 1) + 1)
    <3>1. Parts(out)[m + 1] \subseteq Sent(in, m + 1)
      OBVIOUS
    <3> HIDE DEF out
    <3> QED BY <2>1, <3>1, SentFacts
  <2> HIDE DEF out
  <2> QED BY <2>1, <2>2, <2>3
<1>7. Parts(out)[n] \subseteq Sent(in, n)
  <2>1. Good = 0 .. MaxDepth
    <3> HIDE DEF Good
    <3>1. Good \in SUBSET (0 .. MaxDepth)
      BY DEF Good
    <3> QED BY <1>1, <1>5, <1>6, <3>1, UpToAny
  <2>2. n - 1 \in Good /\ (n - 1) + 1 = n
    <3> HIDE DEF Good
    <3> QED BY <1>1, <2>1
  <2> HIDE DEF out
  <2> QED BY <2>2
<1> QED BY <1>4, <1>7

\* Of evidence that is safe already, what is at a depth leaves as it is.
LEMMA SafeStays ==
    ASSUME NEW in, IsEvidence(in), IsSafe(in, MaxDepth, MaxString), NEW depth \in 1 .. MaxDepth
    PROVE  \A part \in Parts(in)[depth] : SanitizeAt(in)[depth][part] = part
<1> DEFINE N == MaxDepth - 1
           Stays(d) == \A part \in Parts(in)[d] : SanitizeAt(in)[d][part] = part
           Good == {m \in 0 .. N : Stays(MaxDepth - m)}
<1>1. N \in Nat /\ MaxDepth \in Nat /\ MaxDepth = N + 1
  BY RedactionAssumption
<1> HIDE DEF N
<1>2. \A d \in 1 .. MaxDepth : (d < MaxDepth => Stays(d + 1)) => Stays(d)
  <2> SUFFICES ASSUME NEW d \in 1 .. MaxDepth, d < MaxDepth => Stays(d + 1), NEW part \in Parts(in)[d]
               PROVE  SanitizeAt(in)[d][part] = part
    OBVIOUS
  <2>1. IsClean(part, MaxString)
    <3>1. d \in 0 .. MaxDepth
      BY <1>1
    <3> QED BY <3>1 DEF IsSafe
  <2>2. d = MaxDepth => part.kind \in {"scalar", "string"}
    BY DEF IsSafe
  <2> QED BY <2>1, <2>2, SanitizedFacts
<1> HIDE DEF Stays
<1>3. 0 \in Good
  <2>1. MaxDepth \in 1 .. MaxDepth /\ ~(MaxDepth < MaxDepth) /\ MaxDepth - 0 = MaxDepth /\ 0 \in 0 .. N
    BY <1>1
  <2> QED BY <1>2, <2>1
<1>4. ASSUME NEW m \in Good, m # N PROVE m + 1 \in Good
  <2>1. /\ MaxDepth - (m + 1) \in 1 .. MaxDepth /\ (MaxDepth - (m + 1)) + 1 = MaxDepth - m
        /\ m + 1 \in 0 .. N
    BY <1>1, <1>4
  <2> QED BY <1>2, <2>1
<1>5. Good = 0 .. N
  <2> HIDE DEF Good
  <2>1. Good \in SUBSET (0 .. N)
    BY DEF Good
  <2> QED BY <1>1, <1>3, <1>4, <2>1, UpToAny
<1>6. MaxDepth - depth \in Good /\ MaxDepth - (MaxDepth - depth) = depth
  <2> HIDE DEF Good
  <2> QED BY <1>1, <1>5
<1>7. Stays(depth)
  BY <1>6
<1> QED BY <1>7 DEF Stays

\* What leaves of any evidence, nested to any depth, holds no secret's key, no
\* instruction and nothing beyond the limits at any level; evidence that is so
\* already leaves as it is (SanitizeEvidence).
THEOREM EvidenceIsRedacted ==
    ASSUME IsEvidence(evidence)
    PROVE  EvidenceLeavesSafe
<1> DEFINE out == SanitizeEvidence(evidence)
<1>1. MaxDepth \in Nat /\ 1 \in 1 .. MaxDepth /\ MaxDepth + 1 \in 1 .. MaxDepth + 1
      /\ 0 \in 0 .. MaxDepth + 1 /\ 1 \in 0 .. MaxDepth + 1 /\ 0 \in 0 .. MaxDepth
  BY RedactionAssumption
<1>2. IsClean(out, MaxString + 1) /\ \A n \in 1 .. MaxDepth + 1 : Parts(out)[n] \subseteq Sent(evidence, n)
  BY <1>1, LevelsLeave
<1> HIDE DEF out
<1>3. IsSafe(out, MaxDepth + 1, MaxString + 1)
  <2>1. ASSUME NEW n \in 0 .. MaxDepth + 1, NEW part \in Parts(out)[n] PROVE IsClean(part, MaxString + 1)
    <3>1. CASE n = 0
      <4>1. part = out
        BY <3>1, FirstParts
      <4> QED BY <1>2, <4>1
    <3>2. CASE n # 0
      <4>1. n \in 1 .. MaxDepth + 1
        BY <1>1, <3>2
      <4> QED BY <1>2, <4>1, SentFacts
    <3> QED BY <3>1, <3>2
  <2>2. \A part \in Parts(out)[MaxDepth + 1] : part.kind = "string"
    BY <1>1, <1>2, SentFacts
  <2> QED BY <2>1, <2>2 DEF IsSafe
<1>4. ASSUME IsSafe(evidence, MaxDepth, MaxString) PROVE out = evidence
  <2>1. \A part \in Parts(evidence)[1] : SanitizeAt(evidence)[1][part] = part
    BY <1>1, <1>4, SafeStays
  <2>2. Parts(evidence)[0] = {evidence}
    BY FirstParts
  <2>3. Parts(evidence)[1] = Inside(evidence)
    BY FirstParts
  <2>4. IsGeneric(evidence) /\ evidence.kind = "map"
    <3>1. IsValue(evidence) /\ evidence.kind = "map"
      BY <1>1, <2>2 DEF IsEvidence
    <3> QED BY <3>1 DEF IsValue, Unserialisable
  <2>5. IsClean(evidence, MaxString)
    BY <1>1, <1>4, <2>2 DEF IsSafe
  <2>6. out = SanitizeMap(evidence, SanitizeAt(evidence)[1])
    BY DEF out, SanitizeEvidence
  <2> QED BY <2>1, <2>3, <2>4, <2>5, <2>6, MapLeaves
<1> QED BY <1>3, <1>4 DEF EvidenceLeavesSafe, out
=============================================================================
