------------------------------ MODULE MCHealth ------------------------------
(* Health on small instances. *)
EXTENDS Health

\* The counters saturate only where the offline backoff has reached its limit,
\* so no behaviour of the code is lost.
ASSUME FailureCapIsExact == Backoff(FailureCap) = Limit

\* The doubling loop against its closed form.
ASSUME BackoffIsDoubling ==
    \A f \in Threshold..(FailureCap + 4) :
        Backoff(f) = IF Interval * 2^(f - Threshold) < Limit
                     THEN Interval * 2^(f - Threshold) ELSE Limit
=============================================================================
