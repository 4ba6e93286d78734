---------------------------- MODULE MCWalletSync ----------------------------
EXTENDS WalletSync, TLC

CONSTANTS k1, k2, f1, f2, a1, a2, usdc, dai, home, away

MCConnects == {k1, k2}
MCFlows == {f1, f2}
MCAccounts == {a1, a2}
MCCoins == {usdc, dai}

\* Handlers and transactions are interchangeable, and so are the coins.
HandlerSymmetry == Permutations(MCConnects) \cup Permutations(MCFlows)
                     \cup Permutations(MCCoins)
=============================================================================
