---------------------------- MODULE MCStreamLock ----------------------------
EXTENDS StreamLock, TLC

CONSTANTS a, b, c, u, p, q

\* One user, one connection in each of two processes.
TwoSessions == {a, b}
TwoUserOf == [s \in TwoSessions |-> u]
TwoProcOf == [s \in TwoSessions |-> IF s = a THEN p ELSE q]
SameProcOf == [s \in TwoSessions |-> p]

\* One user, three connections to one process: enough to fill a channel of
\* two and to close one while two drops are still to come.
ThreeSessions == {a, b, c}
ThreeUserOf == [s \in ThreeSessions |-> u]
ThreeProcOf == [s \in ThreeSessions |-> p]

Symm == Permutations(ThreeSessions)

=============================================================================
