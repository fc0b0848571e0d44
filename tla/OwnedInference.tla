--------------------------- MODULE OwnedInference ---------------------------
(***************************************************************************)
(* What a speech provider promises the session worker that owns it, so     *)
(* that the worker may report a safe drain: at most one inference is in    *)
(* flight, none begins once the provider has lost sight of one, and the    *)
(* provider closes without an error only when nothing is in flight.        *)
(***************************************************************************)
CONSTANT Jobs  \* what may own an inference

VARIABLES
  inflight,  \* the jobs whose inference may be running in the backend
  doubt,     \* the provider cannot tell any more: BackendUncertainError
  verdict    \* how close ended: "none" so far, "safe", or "unsafe" (it raised)

inference == <<inflight, doubt, verdict>>

Init == inflight = {} /\ doubt = FALSE /\ verdict = "none"

Begin(j) ==
  /\ verdict = "none" /\ ~doubt
  /\ inflight = {}
  /\ inflight' = {j}
  /\ UNCHANGED <<doubt, verdict>>

End(j) ==
  /\ j \in inflight
  /\ inflight' = inflight \ {j}
  /\ UNCHANGED <<doubt, verdict>>

\* The last thing that is known of an inference may be that it is unknown.
LoseSight(ended) ==
  /\ verdict = "none"
  /\ doubt' = TRUE
  /\ inflight' = inflight \ ended
  /\ UNCHANGED verdict

Close ==
  /\ verdict = "none"
  /\ \/ inflight = {} /\ ~doubt /\ verdict' = "safe" /\ UNCHANGED doubt
     \/ verdict' = "unsafe" /\ doubt' = TRUE
  /\ UNCHANGED inflight

Next == Close \/ (\E ended \in SUBSET Jobs : LoseSight(ended))
        \/ \E j \in Jobs : Begin(j) \/ End(j)

Spec == Init /\ [][Next]_inference

\* The worker's report of a safe drain is true, for ever.
SafeIsQuiet == verdict = "safe" => inflight = {}

=============================================================================
