------------------------------ MODULE QueryCall ------------------------------
(***************************************************************************)
(* What redash.Client.ExecuteQuery promises the session that calls it, and *)
(* what PgSession assumes of it: one outcome, "cancelled" only after the   *)
(* caller's context has ended, and always an outcome in the end.           *)
(***************************************************************************)
VARIABLES
    ctx,        \* the caller's context: "live" or "done"
    outcome     \* "none" until the call returns

Outcomes ==
    {"result", "queryError", "infraError", "timedOut", "cancelled"}

Init == ctx = "live" /\ outcome = "none"

CtxEnds ==
    /\ ctx = "live"
    /\ ctx' = "done"
    /\ UNCHANGED outcome

Returns ==
    /\ outcome = "none"
    /\ outcome' \in Outcomes
    /\ outcome' = "cancelled" => ctx = "done"
    /\ UNCHANGED ctx

Next == CtxEnds \/ Returns

Spec ==
    /\ Init
    /\ [][Next]_<<ctx, outcome>>
    /\ WF_<<ctx, outcome>>(Returns)
=============================================================================
