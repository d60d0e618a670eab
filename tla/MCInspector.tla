------------------------------ MODULE MCInspector ------------------------------
\* Inspector for TLC: two members and one settings code that raises the delay.
EXTENDS Inspector, TLC

CONSTANTS m1, m2, s1, k1, p1, p2

RaiseDelay ==
    s1 :> [checkpointID |-> k1, recordDelay |-> 1, clientPassword |-> p1]

NoSettings == [c \in {} |-> RaiseDelay[c]]

Members == Permutations(MemberCodes)
=============================================================================
