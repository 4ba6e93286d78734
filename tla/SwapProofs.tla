------------------------------ MODULE SwapProofs ------------------------------
(***************************************************************************)
(* What holds of the amounts of a swap for all coins, quotes and balances, *)
(* and whatever the precision of numbers, the value of the permit and the  *)
(* length of a number without exponent.                                    *)
(***************************************************************************)
EXTENDS Swap, TLAPS

USE SwapAssumption

\* A margin never makes an amount smaller: BigNumber's division rounds down by less
\* than the tenth that was added.
LEMMA MarginGrows == ASSUME NEW n \in Nat PROVE plusMargin(n) \in Nat /\ plusMargin(n) >= n
  BY SMT DEF plusMargin

\* The hundredfold loses less than ninety-nine parts to roundings.
LEMMA HundredfoldGrows ==
  ASSUME NEW n \in Nat, NEW m \in Hundredfold(n) PROVE m \in Nat /\ m >= n
<1> DEFINE error == IF 100 * n <= Precision THEN 0 ELSE 4 * ((100 * n) \div Precision)
<1>1. (100 * n) \div Precision \in Nat /\ (100 * n) \div Precision <= n
  <2> DEFINE q == (100 * n) \div Precision
             r == (100 * n) % Precision
  <2>1. q \in Int /\ r \in 0..(Precision - 1) /\ 100 * n = Precision * q + r
    BY SMT
  <2>2. q >= 0
    BY <2>1, SMT
  <2>3. Precision * q >= 100 * q
    BY <2>1, <2>2, SMT
  <2> QED BY <2>1, <2>2, <2>3, SMT
<1>2. error \in Nat /\ error <= 4 * n
  BY <1>1, SMT
<1>3. m \in (100 * n - error)..(100 * n + error)
  BY DEF Hundredfold
<1> HIDE DEF error
<1> QED BY <1>2, <1>3, SMT

\* The parts of a sum.
LEMMA SumParts == ASSUME NEW s \in Sum PROVE s.coin \in Coins /\ s.amount \in Nat
  BY DEF Sum

LEMMA SimulationParts ==
  ASSUME NEW s \in Simulation PROVE s.coin \in Coins /\ s.amount \in Nat /\ s.balance \in Nat
  BY DEF Simulation

LEMMA NoneIsNone == None \notin Sum /\ None \notin Simulation /\ None \notin Permit
  BY NoneAssumption

\* What each value is bounded by, in the order in which they come about.
Carried ==
  /\ stage = "balance" => quote # None
  /\ sim # None => /\ quote # None /\ sim.coin = quote.coin
                   /\ sim.amount = plusMargin(quote.amount)
  /\ stage = "shown" => sim # None
  /\ stage \in {"submit", "relay", "sent"} => sim # None /\ permit # None /\ permit.coin = sim.coin
  /\ stage = "idle" => sim = None /\ relayed = None /\ taken = None
  /\ stage \in {"gasPrice", "gasUsed", "quote", "balance"} =>
       quote # None /\ sim = None /\ relayed = None /\ taken = None
  /\ stage \in {"shown", "submit", "relay"} => relayed = None /\ taken = None
  /\ stage = "relay" => amount # None /\ amount >= quote.amount
  /\ stage = "sent" => relayed # None

IInv == TypeOK /\ Carried /\ Covered /\ TakenAsAgreed

LEMMA Initially == Init => IInv
  BY DEF Init, IInv, TypeOK, Carried, Covered, TakenAsAgreed, Stages, Number

\* The steps that leave the swap itself alone, and those that only end it.
LEMMA Aside ==
  ASSUME IInv, \/ SimulationFails \/ Declines \/ RelayFails \/ Reverts
               \/ \E c \in Coins : SetToken(c) \/ Spends(c)
  PROVE  IInv'
<1> USE DEF IInv, TypeOK, Carried, Covered, TakenAsAgreed, Stages, others, simulated
<1>1. CASE SimulationFails
  BY <1>1, SMT DEF SimulationFails
<1>2. CASE Declines
  BY <1>2, SMT DEF Declines
<1>3. CASE RelayFails
  BY <1>3, SMT DEF RelayFails
<1>4. CASE Reverts
  BY <1>4, SMT DEF Reverts
<1>5. ASSUME NEW c \in Coins, SetToken(c) PROVE IInv'
  BY <1>5, SMT DEF SetToken
<1>6. ASSUME NEW c \in Coins, Spends(c) PROVE IInv'
  BY <1>6, SMT DEF Spends
<1> QED BY <1>1, <1>2, <1>3, <1>4, <1>5, <1>6

\* The simulation: the quote is made, and kept with its margin.
LEMMA Simulates ==
  ASSUME IInv, \/ simulation \/ getGasPrice \/ getTenderlySimulation
               \/ getTokenSwapQuote \/ getTokenBalance
  PROVE  IInv'
<1> USE DEF IInv, TypeOK, Carried, Covered, TakenAsAgreed, Stages, others
<1>1. CASE simulation
  <2>1. [coin |-> token, amount |-> 0] \in Sum
    BY SMT DEF Sum
  <2>2. quote' \in Sum /\ stage' = "gasPrice" /\ UNCHANGED <<gas, sim, others>>
    BY <1>1, <2>1 DEF simulation
  <2>3. quote' # None
    BY <2>2, NoneIsNone
  <2>4. sim = None /\ relayed = None /\ taken = None
    BY <1>1, SMT DEF simulation
  <2> QED BY <2>2, <2>3, <2>4, SMT
<1>2. CASE getGasPrice
  BY <1>2, SMT DEF getGasPrice
<1>3. CASE getTenderlySimulation
  BY <1>3, SMT DEF getTenderlySimulation, Number
<1>4. CASE getTokenSwapQuote
  <2>1. quote \in Sum
    BY <1>4, SMT DEF getTokenSwapQuote
  <2>2. \A n \in Sells : [quote EXCEPT !.amount = n] \in Sum
    BY <2>1, SMT DEF Sum
  <2>3. quote' \in Sum /\ stage' = "balance"
    BY <1>4, <2>2, SMT DEF getTokenSwapQuote
  <2>4. sim = None /\ relayed = None /\ taken = None
    BY <1>4, SMT DEF getTokenSwapQuote
  <2>5. quote' # None
    BY <2>3, NoneIsNone
  <2> QED BY <1>4, <2>3, <2>4, <2>5, SMT DEF getTokenSwapQuote
<1>5. CASE getTokenBalance
  <2>1. quote \in Sum
    BY <1>5, SMT DEF getTokenBalance
  <2>2. quote.coin \in Coins /\ quote.amount \in Nat
    BY <2>1, SumParts
  <2>3. plusMargin(quote.amount) \in Nat
    BY <2>2, MarginGrows
  <2>4. /\ sim' \in Simulation /\ sim'.coin = quote.coin
        /\ sim'.amount = plusMargin(quote.amount)
    BY <1>5, <2>2, <2>3, SMT DEF getTokenBalance, Simulation
  <2>5. sim' # None
    BY <2>4, NoneIsNone
  <2> HIDE DEF plusMargin
  <2> QED BY <1>5, <2>4, <2>5, SMT DEF getTokenBalance
<1> QED BY <1>1, <1>2, <1>3, <1>4, <1>5

\* The user's decision, the submission and the relay, up to the chain.
LEMMA Relays ==
  ASSUME IInv, actionSignature \/ Submit \/ executeMetaTransaction
  PROVE  IInv'
<1> USE DEF IInv, TypeOK, Carried, Covered, TakenAsAgreed, Stages, simulated
<1>1. CASE actionSignature
  <2>1. sim \in Simulation
    BY <1>1, SMT DEF actionSignature
  <2>2. sim.coin \in Coins
    BY <2>1, SimulationParts
  <2>3. permit' \in Permit /\ permit'.coin = sim.coin
    BY <1>1, <2>2, SMT DEF actionSignature, Permit
  <2>4. permit' # None
    BY <2>3, NoneIsNone
  <2> QED BY <1>1, <2>3, <2>4, SMT DEF actionSignature
<1>2. CASE Submit
  <2>1. sim \in Simulation /\ quote \in Sum
    BY <1>2, SMT DEF Submit
  <2>2. sim.amount \in Nat /\ quote.amount \in Nat
    BY <2>1, SumParts, SimulationParts
  <2>3. sim.amount >= quote.amount
    BY <1>2, <2>2, MarginGrows DEF Submit
  <2>4. amount' \in Nat /\ amount' >= sim.amount
    BY <1>2, <2>2, HundredfoldGrows DEF Submit
  <2>5. amount' # None /\ amount' >= quote.amount
    BY <2>2, <2>3, <2>4, SMT
  <2> QED BY <1>2, <2>4, <2>5, SMT DEF Submit
<1>3. CASE executeMetaTransaction
  <2>1. quote \in Sum /\ amount \in Nat /\ amount >= quote.amount
    BY <1>3, SMT DEF executeMetaTransaction
  <2>2. Parsed(amount) = amount
    BY <1>3, SMT DEF executeMetaTransaction, Parsed
  <2>3. plusMargin(amount) \in Nat /\ plusMargin(amount) >= amount
    BY <2>1, MarginGrows
  <2>4. quote.amount \in Nat
    BY <2>1, SumParts
  <2>5. /\ relayed' = [coin |-> token, amount |-> plusMargin(amount)]
        /\ stage' = "sent"
    BY <1>3, <2>2 DEF executeMetaTransaction
  <2>6. /\ relayed' \in Sum /\ relayed'.amount >= quote.amount
    BY <2>1, <2>3, <2>4, <2>5, SMT DEF Sum
  <2>7. relayed' # None
    BY <2>6, NoneIsNone
  <2> HIDE DEF plusMargin
  <2> QED BY <1>3, <2>5, <2>6, <2>7, SMT DEF executeMetaTransaction
<1> QED BY <1>1, <1>2, <1>3

\* A relayed quote skips the user and the conversions.
LEMMA Scripted ==
  ASSUME IInv, test_executeMetaTransaction \/ relaySwapWithPermit
  PROVE  IInv'
<1>1. PICK n \in Sells, value \in Nat : RelayQuote(n, value)
  BY MarginGrows DEF test_executeMetaTransaction, relaySwapWithPermit
<1>2. n \in Nat /\ plusMargin(n) \in Nat /\ plusMargin(n) >= n
  BY MarginGrows
<1>3. balance[TestCoin] \in Nat
  BY DEF IInv, TypeOK
<1>4. /\ quote' \in Sum /\ quote'.coin = TestCoin /\ quote'.amount = n
      /\ relayed' \in Sum /\ relayed'.amount = plusMargin(n)
  BY <1>1, <1>2, SMT DEF RelayQuote, Sum
<1>5. /\ sim' \in Simulation /\ sim'.coin = TestCoin /\ sim'.amount = plusMargin(n)
  BY <1>1, <1>2, <1>3, SMT DEF RelayQuote, Simulation
<1>6. permit' \in Permit /\ permit'.coin = TestCoin
  BY <1>1, SMT DEF RelayQuote, Permit
<1>7. quote' # None /\ sim' # None /\ permit' # None /\ relayed' # None
  BY <1>4, <1>5, <1>6, NoneIsNone
<1>8. taken = None
  BY <1>1, SMT DEF RelayQuote, IInv, Carried
<1> HIDE DEF plusMargin
<1> QED
  BY <1>1, <1>2, <1>4, <1>5, <1>6, <1>7, <1>8, SMT
  DEF RelayQuote, IInv, TypeOK, Carried, Covered, TakenAsAgreed, Stages

\* The chain: what is drawn is drawn by the permit, in the coin simulated.
LEMMA Pays == ASSUME IInv, Mined PROVE IInv'
<1> USE DEF IInv, TypeOK, Carried, Covered, TakenAsAgreed, Stages, simulated
<1>1. sim \in Simulation /\ quote \in Sum /\ relayed \in Sum /\ permit \in Permit
  BY SMT DEF Mined
<1>2. /\ relayed.coin \in Coins /\ relayed.amount \in Nat /\ quote.amount \in Nat
      /\ sim.amount \in Nat /\ permit.value \in Nat
  BY <1>1, SumParts, SimulationParts DEF Permit
<1>3. sim.amount >= quote.amount
  BY <1>2, MarginGrows DEF Mined
<1>4. balance' \in [Coins -> Nat]
  <2>1. balance[relayed.coin] \in Nat /\ balance[relayed.coin] - quote.amount \in Nat
    BY <1>2, SMT DEF Mined, Draws
  <2> QED BY <1>2, <2>1, SMT DEF Mined
<1>5. /\ taken' \in Sum /\ taken'.coin = relayed.coin /\ taken'.amount = quote.amount
  BY <1>2, SMT DEF Mined, Sum
<1>6. relayed.coin = sim.coin /\ quote.amount <= permit.value
  BY <1>2, SMT DEF Mined, Draws
<1> QED BY <1>2, <1>3, <1>4, <1>5, <1>6, SMT DEF Mined

LEMMA Preserved == IInv /\ [Next]_vars => IInv'
<1> SUFFICES ASSUME IInv, [Next]_vars PROVE IInv'
  OBVIOUS
<1>1. CASE Next
  BY <1>1, Aside, Simulates, Relays, Scripted, Pays DEF Next
<1>2. CASE UNCHANGED vars
  BY <1>2, SMT DEF vars, IInv, TypeOK, Carried, Covered, TakenAsAgreed
<1> QED BY <1>1, <1>2

THEOREM Invariance == Spec => []IInv
  BY Initially, Preserved, PTL DEF Spec

\* What is simulated, submitted and relayed are amounts, however services answer.
THEOREM TypeCorrect == Spec => []TypeOK
  BY Invariance, PTL DEF IInv

\* The amount drawn covers the quote, for every quote and every precision of numbers
\* of at least a hundred.
THEOREM DrawCovers == Spec => []Covered
  BY Invariance, PTL DEF IInv

\* The sender pays in the coin agreed to, at most what was simulated and permitted,
\* however often the token of the wallet changes.
THEOREM PaidAsAgreed == Spec => []TakenAsAgreed
  BY Invariance, PTL DEF IInv
===============================================================================
