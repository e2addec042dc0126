--------------------------- MODULE MCObservability ---------------------------
(* Finite instances of the observability of a server: AlertEngine over      *)
(* QueryService, and Telemetry.  The two share nothing but the process, and *)
(* the initial state chooses which of them is looked at.                    *)
EXTENDS AlertEngine, Telemetry, TLC

VARIABLE part

MCInit ==
    /\ Init
    /\ TelemetryInit
    /\ \/ part = "telemetry"
       \/ part = "alerts" /\ ~exporting

MCNext ==
    \/ part = "alerts" /\ Next /\ UNCHANGED <<telemetry, part>>
    \/ part = "telemetry" /\ TelemetryNext /\ UNCHANGED <<vars, part>>

MCSpec == MCInit /\ [][MCNext]_<<vars, telemetry, part>>

\* Requests, threads and services are only compared for equality.
Symmetry == Permutations(Requests) \cup Permutations(Threads) \cup Permutations(Services)
=============================================================================
