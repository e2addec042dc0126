---------------------------- MODULE SpanDelivery ----------------------------
(***************************************************************************)
(* What the exporter of telemetry/__init__.py promises about the spans it  *)
(* is given: each of them reaches the collector at most once, and those    *)
(* that do not are lost for good.                                          *)
(***************************************************************************)
CONSTANT Spans

VARIABLE fate

Moves == {<<"local", "pending">>, <<"pending", "delivered">>, <<"pending", "lost">>}

Init == fate = [s \in Spans |-> "local"]

Next ==
    /\ fate' = [s \in Spans |-> fate'[s]]
    /\ \A s \in Spans : fate'[s] = fate[s] \/ <<fate[s], fate'[s]>> \in Moves

Spec == Init /\ [][Next]_fate
=============================================================================
