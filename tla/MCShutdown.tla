----------------------------- MODULE MCShutdown -----------------------------
(***************************************************************************)
(* Shutdown for TLC: a touch of a honeypot, one of a DNS name and the scan *)
(* that finds the same, so that the last two notices have one key.         *)
(***************************************************************************)
EXTENDS Shutdown, TLC

CONSTANTS pot, name, poll, k1, k2, m1

MCNotices  == {pot, name, poll}
MCKeyOf    == (pot :> k1) @@ (name :> k2) @@ (poll :> k2)
MCModuleOf == (k1 :> m1) @@ (k2 :> m1)
MCSourceOf == (pot :> "honeypot") @@ (name :> "dns") @@ (poll :> "scan")
=============================================================================
