------------------------------ MODULE MCTraps ------------------------------
(***************************************************************************)
(* Traps for TLC: a DNS token t1, honeypots h1 and h2 that ask for one     *)
(* port and h3 that asks for another, and three tiers: without advanced    *)
(* traps, with them, and without a limit for tokens as well.               *)
(***************************************************************************)
EXTENDS Traps, TLC

CONSTANTS t1, h1, h2, h3

TwoPorts == [id \in {h1, h2, h3} |-> IF id = h3 THEN 80 ELSE 22]
ThreeTiers == {[tokens |-> 1, honeypots |-> 1, advanced |-> FALSE],
               [tokens |-> 1, honeypots |-> 1, advanced |-> TRUE],
               [tokens |-> 0, honeypots |-> 1, advanced |-> TRUE]}

Symmetry == Permutations({h1, h2}) \cup Permutations(Creators) \cup Permutations(Deleters)
=============================================================================
