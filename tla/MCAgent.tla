------------------------------- MODULE MCAgent -------------------------------
(* A finite instance of Agent: a retry-safe tool, a blocked one, and one   *)
(* that is neither (it may be called but not repeated).                    *)
EXTENDS Agent
=============================================================================
