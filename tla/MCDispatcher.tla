---------------------------- MODULE MCDispatcher ----------------------------
(***************************************************************************)
(* Dispatcher for TLC: two notices of one key, one of another key of the   *)
(* same module, one of another module, one too quiet to be sent.           *)
(***************************************************************************)
EXTENDS Dispatcher, TLC

CONSTANTS n1, n2, n3, n4, quiet, k1, k2, k3, m1, m2

KeyOfAll   == (n1 :> k1) @@ (n2 :> k1) @@ (n3 :> k2) @@ (n4 :> k3) @@ (quiet :> k3)
MCKeyOf    == [n \in Notices |-> KeyOfAll[n]]
MCModuleOf == (k1 :> m1) @@ (k2 :> m1) @@ (k3 :> m2)
=============================================================================
