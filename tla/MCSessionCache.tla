---------------------------- MODULE MCSessionCache ---------------------------
EXTENDS SessionCache, TLC

\* More IDs than the row has places, two of them of one server.
ThreeIDs == {<<s, n>> \in Servers \X {1, 2} : n = 1 \/ s = CHOOSE x \in Servers : TRUE}

ThreadSymmetry == Permutations(Threads)
=============================================================================
