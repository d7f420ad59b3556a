------------------------------ MODULE MCSession -----------------------------
\* Small instances of Session.
EXTENDS SessionInv, TLC

CONSTANTS a1, a2, c1, c2, c3, k1, k2

MCUids == {0, 1}
MCAmounts == 0 .. UINT64_MAX

\* Two accounts; amounts that fit once, and that together pass UINT64_MAX.
MCRequests == {Message("DEPOSIT", 0, 2), Message("WITHDRAW", 0, 1),
               Message("DEPOSIT", 1, 3)}

\* The exchange succeeds; the sides disagree; either side, or both, reject it.
MCKeyOutcomes == {<<k1, k1>>, <<k1, k2>>, <<None, None>>, <<k1, None>>, <<None, k1>>}
MCGoodKeys == {<<k1, k1>>}
MCOneRequest == {Message("DEPOSIT", 0, 2)}

Pair(b) == [atm |-> b, bank |-> b]
MCPairs == {Pair("nrsa"), Pair("rsa")}
MCNrsa == {Pair("nrsa")}
MCBuilds == [atm : BuildTypes, bank : BuildTypes]

MCSymmetry == Permutations(Atms) \cup Permutations(Conns)
=============================================================================
