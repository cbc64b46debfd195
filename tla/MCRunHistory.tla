---------------------------- MODULE MCRunHistory ----------------------------
\* A chain with one request sent twice, and the backends it is run against.
EXTENDS RunHistory

CONSTANTS p1, p2, get, put, x, y, e1, v1, v2, t1, t2

MCChain == <<[call |-> get, req |-> x, read |-> TRUE, reads |-> {}],
             [call |-> put, req |-> y, read |-> FALSE, reads |-> {}],
             [call |-> get, req |-> x, read |-> TRUE, reads |-> {2}]>>
Backend(k, at, go, ts, n, m, t) ==
  [kind |-> k, at |-> at, error |-> {e1}, keepGoing |-> go, targets |-> ts, runs |-> n, kills |-> m, ticks |-> t]
MCModes == {Backend("kept", {}, TRUE, {t1}, 3, 0, 3), Backend("kept", {}, TRUE, {t1, t2}, 2, 0, 4),
            Backend("flaky", {}, FALSE, {t1}, 2, 0, 4)}
             \cup {Backend("fixed", at, at # {2}, {t1}, 3, 1, 4) : at \in {{1}, {2}, {3}, {1, 3}}}
Symmetric == Permutations(Procs) \cup Permutations(Values)
=============================================================================
