------------------------------ MODULE Findings ------------------------------
(***************************************************************************)
(* The stored finding and what the three writers of the finding table do   *)
(* to one of them: the reconcile engine (store/reconcile.go), the trip     *)
(* sink (decoy/decoy.go) and the dashboard's status handler                *)
(* (web/server.go).                                                        *)
(*                                                                         *)
(* Of a store.Record only what the three writers decide on or disagree     *)
(* about is kept: the status, the touch count in the evidence and the      *)
(* absent streak.  Titles, severities and timestamps are left out.         *)
(***************************************************************************)
EXTENDS Naturals

\* core.FindingStatus: the life of a finding once it is stored.
Statuses == {"open", "resolved", "acknowledged", "suppressed"}

\* What handleFindingStatus lets the user ask for.
UserStatuses == {"open", "acknowledged", "suppressed"}

(***************************************************************************)
(* One row of the finding table.  "absent" stands for no row, so that the  *)
(* table is a total function; touches is Evidence["count"].                *)
(***************************************************************************)
Finding == [status : Statuses \cup {"absent"}, touches : Nat, streak : Nat]

NoFinding == [status |-> "absent", touches |-> 0, streak |-> 0]

Stored(f) == f.status # "absent"

-----------------------------------------------------------------------------
(* What a writer makes of one row. *)

\* A row written as open: Reconcile's brand-new finding, and every row the
\* sink writes, whatever the row's status was before.
Opened(touches) == [status |-> "open", touches |-> touches, streak |-> 0]

\* Was the row one that Reconcile announces again when it is seen again?
Reopens(prev) == prev.status = "resolved"

\* Slip: the old evidence, with its count, is kept.
RefreshedKeepingEvidence(prev, touches) ==
    [prev EXCEPT !.streak = 0, !.status = IF Reopens(prev) THEN "open" ELSE @]

\* Slip: the scan's count is added to the one stored.
RefreshedAdding(prev, touches) ==
    [prev EXCEPT !.touches = @ + touches,
                 !.streak  = 0,
                 !.status  = IF Reopens(prev) THEN "open" ELSE @]

\* Reconcile's existing finding, seen again by the scan.
Refreshed(prev, touches) ==
    [prev EXCEPT !.touches = touches,
                 !.streak  = 0,
                 !.status  = IF Reopens(prev) THEN "open" ELSE @]

\* Slip: only a resolved row is left alone.
CountsAbsenceOfAll(prev) == prev.status \in {"open", "acknowledged", "suppressed"}

\* Does a scan that did not see the row write it at all?
CountsAbsence(prev) == prev.status \in {"open", "acknowledged"}

\* Has a row that was not seen for `streak' scans, this one included, expired?
Expires(prev, resolveAfter) == prev.streak + 1 >= resolveAfter

\* Reconcile's existing finding, not seen by the scan.
Missed(prev, resolveAfter) ==
    [prev EXCEPT !.streak = @ + 1,
                 !.status = IF Expires(prev, resolveAfter) THEN "resolved" ELSE @]

\* The status handler writes back the row it read with the status asked for.
Judged(prev, status) == [prev EXCEPT !.status = status]
=============================================================================
