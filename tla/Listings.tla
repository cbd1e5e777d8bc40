------------------------------ MODULE Listings ------------------------------
(***************************************************************************)
(* Picking rows in order: the rows of a table by rowid, what is left of a  *)
(* sequence after a filter.                                                *)
(***************************************************************************)
EXTENDS Integers, FiniteSets

\* A number's place in a set of them, and the number at a place.
Place(ids, id) == Cardinality({other \in ids : other <= id})
Nth(ids, i) == CHOOSE id \in ids : Place(ids, id) = i

\* The rows of a table or a sequence at some of its places, in the order of these.
Listed(rows, ids) == [i \in 1 .. Cardinality(ids) |-> rows[Nth(ids, i)]]
=============================================================================
