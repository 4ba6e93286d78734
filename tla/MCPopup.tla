------------------------------ MODULE MCPopup ------------------------------
EXTENDS Popup, TLC

CONSTANTS k1, k2, f1, a1, usdc, dai, home

MCConnects == {k1, k2}
MCFlows == {f1}
MCAccounts == {a1}
MCCoins == {usdc, dai}

\* Handlers are interchangeable, and so are the coins.
HandlerSymmetry == Permutations(MCConnects) \cup Permutations(MCCoins)
=============================================================================
