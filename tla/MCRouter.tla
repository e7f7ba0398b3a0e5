------------------------------ MODULE MCRouter ------------------------------
(* Small instances of Router for TLC.                                      *)
EXTENDS Router

Cnf(policy, top, synchronous, extra, max_conn, glbd) ==
    [policy |-> policy, top |-> top, synchronous |-> synchronous,
     extra |-> extra, max_conn |-> max_conn, glbd |-> glbd]

\* Clients whose hashes fall in the middle and at the end.
MCHints == LET f == CHOOSE g \in [Slots -> 1..Cardinality(Slots)] :
                        \A c, d \in Slots : c # d => g[c] # g[d]
           IN  [c \in Slots |-> IF f[c] > HintMax THEN HintMax ELSE f[c]]

\* Clients whose hashes are 0.
ZeroHints == [c \in Slots |-> 0]

AllWeights == {-1, 0, 1, 2}

\* glbd with asynchronous connects, the default.
AsyncConfigs == {Cnf("least", FALSE, FALSE, TRUE, 2, TRUE),
                 Cnf("round", TRUE, FALSE, TRUE, 2, TRUE),
                 Cnf("source", FALSE, FALSE, FALSE, 2, TRUE)}

\* Synchronous connects: of the glbd listener, and of the threads of a program
\* that libglb is preloaded into.
SyncConfigs == {Cnf("source", FALSE, TRUE, FALSE, 2, TRUE),
                Cnf("single", TRUE, TRUE, FALSE, 1, TRUE),
                Cnf("round", FALSE, TRUE, FALSE, 2, FALSE)}

\* No draining, so that an entry in use keeps its place in the map.
NoDrainWeights == {-1, 1, 2}

OneWeight == {1}

SourceConfigs == {Cnf("source", FALSE, FALSE, FALSE, 2, TRUE)}
SyncSourceConfigs == {Cnf("source", FALSE, TRUE, FALSE, 2, TRUE)}
LeastConfigs == {Cnf("least", FALSE, FALSE, FALSE, 1, TRUE)}
=============================================================================
