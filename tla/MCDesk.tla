------------------------------- MODULE MCDesk -------------------------------
(***************************************************************************)
(* Desk for TLC: keys of two tiers that run out at different times, one of *)
(* another product, one of a tier the program does not know, a forged one. *)
(***************************************************************************)
EXTENDS Desk, TLC

SomeNames == Tiers \cup {"", "decoy", "other", "gold"}

KeyOf(form, product, tier, expires) ==
    [form |-> form, product |-> product, tier |-> tier, expires |-> expires]

Blank == KeyOf("blank", "", "", 0)
Torn  == KeyOf("malformed", "", "", 0)
SomeKeys == {Blank, Torn,
             KeyOf("signed", "decoy", "pro", 0), KeyOf("signed", "decoy", "team", 1),
             KeyOf("signed", "other", "pro", 1), KeyOf("forged", "decoy", "pro", 1),
             KeyOf("signed", "decoy", "gold", 1)}

LicenceTable == [free |-> 3, pro |-> 5, team |-> 0]
ProductTable == [free |-> 1, pro |-> 2, team |-> 0]

Symmetry == Permutations(Clients)
=============================================================================
