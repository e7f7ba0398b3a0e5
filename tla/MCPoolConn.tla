---------------------------- MODULE MCPoolConn ----------------------------
(* Small instances of PoolConn for TLC.                                    *)
EXTENDS PoolConn, TLC

\* Descriptors, connections and addresses are interchangeable.
Symmetry == Permutations(FDs) \cup Permutations(Conns) \cup Permutations(Addrs)
=============================================================================
