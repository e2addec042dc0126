-------------------------- MODULE MCConnectionPool --------------------------
(* Finite instances of ConnectionPool for TLC. *)
EXTENDS ConnectionPool, TLC

\* Threads and connections are only compared for equality.
Symmetry == Permutations(Threads) \cup Permutations(Conns)
=============================================================================
