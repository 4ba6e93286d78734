-------------------------------- MODULE Swap --------------------------------
(***************************************************************************)
(* One transaction from its simulation to the relayed swap: the amounts.   *)
(*                                                                         *)
(* The backend asks four services in turn for gas price, gas used, a quote *)
(* and a balance; the user agrees to what comes out and signs a permit of  *)
(* a fixed value; the extension and the backend add their margins to the   *)
(* amount, converting it between strings, floating-point numbers and big   *)
(* integers; the relayer draws it and the market takes its part.           *)
(* Meanwhile the wallet may get another token, through another tab, and    *)
(* the user may spend the coins.                                           *)
(***************************************************************************)
EXTENDS Integers

CONSTANTS Coins,        \* the coins with a token
          None,         \* nothing there: undefined, or not yet
          Sells,        \* what a quote may sell, in the smallest unit of the coin
          Balances,     \* what a user may have of a coin
          PermitValue,  \* the value of every permit
          TestCoin,     \* the coin of relaySwapWithPermit.ts and POST /transactions/test
          Precision,    \* the integers up to this one are exact as numbers
          Safe,         \* BigNumber.from takes a number below this one
          Exponent      \* the first integer a number is written with an exponent for

VARIABLES
  token,    \* the token of the sender's wallet at the backend
  balance,  \* the sender's balances
  stage,    \* where the transaction is
  gas,      \* the gas price, then the fee: a number, or not
  quote,    \* the quote of the market: the coin it sells, and how much
  sim,      \* what was simulated: the coin, the amount with a margin, the balance
  permit,   \* the permit signed: its coin and value
  amount,   \* the amount the extension submits, as a string
  relayed,  \* the coin and the amount the relayer is called with
  taken     \* what the sender has paid

vars == <<token, balance, stage, gas, quote, sim, permit, amount, relayed, taken>>

ASSUME SwapAssumption ==
  /\ Sells \subseteq Nat /\ Balances \subseteq Nat /\ PermitValue \in Nat
  /\ TestCoin \in Coins
  /\ Precision \in Nat /\ Precision >= 100 /\ Safe \in Nat /\ Exponent \in Nat \ {0}
  /\ None \notin Nat

Stages == {"idle", "gasPrice", "gasUsed", "quote", "balance", "shown", "submit", "relay",
           "sent", "done"}
Number == {"number", "NaN"}
Sum == [coin : Coins, amount : Nat]
\* The drawer shows the balance, and feeToken, which tells of the gas; the amount is what
\* it submits.
Simulation == [coin : Coins, amount : Nat, balance : Nat]
Permit == [coin : Coins, value : Nat]

ASSUME NoneAssumption == None \notin Sum \cup Simulation \cup Permit

Init ==
  /\ token \in Coins
  /\ balance \in [Coins -> Balances]
  /\ stage = "idle"
  /\ gas = "number"
  /\ quote = None /\ sim = None /\ permit = None /\ amount = None
  /\ relayed = None /\ taken = None

-----------------------------------------------------------------------------
(* The numbers.                                                            *)

\* BigNumber.from(11).mul(n).div(10).
plusMargin(n) == (11 * n) \div 10

\* Math.round(n * 100) as a string: beyond Precision the reading of n, the product and
\* the digits written are each rounded to what a number can hold.
Hundredfold(n) ==
  LET exact == 100 * n
      error == IF exact <= Precision THEN 0 ELSE 4 * (exact \div Precision)
  IN (exact - error)..(exact + error)

\* Mutation: a number in exponent notation is read as its digits.
Parsed_Mantissa(n) == IF n >= Exponent THEN n \div Exponent ELSE n

\* The number written as a string and read by BigNumber.from, which knows no exponents.
Parsed(n) == IF n >= Exponent THEN None ELSE n

-----------------------------------------------------------------------------
(* POST /simulation.                                                       *)

others == <<token, balance, permit, amount, relayed, taken>>

\* The sender's wallet is looked up for its token.
simulation ==
  /\ stage = "idle"
  /\ stage' = "gasPrice"
  /\ quote' = [coin |-> token, amount |-> 0]
  /\ UNCHANGED <<gas, sim, others>>

\* parseInt of the result; a message in its place is no number.
getGasPrice ==
  /\ stage = "gasPrice"
  /\ stage' = "gasUsed"
  /\ gas' \in Number
  /\ UNCHANGED <<quote, sim, others>>

\* The product of price and gas used, which is missing when nothing was simulated.
getTenderlySimulation ==
  /\ stage = "gasUsed"
  /\ stage' = "quote"
  /\ gas' \in {gas, "NaN"}
  /\ UNCHANGED <<quote, sim, others>>

\* The market quotes a buy of the fee in WETH.
getTokenSwapQuote ==
  /\ stage = "quote" /\ gas = "number"
  /\ \E n \in Sells : quote' = [quote EXCEPT !.amount = n]
  /\ stage' = "balance"
  /\ UNCHANGED <<gas, sim, others>>

\* The response, for the user to agree to.
getTokenBalance ==
  /\ stage = "balance"
  /\ sim' = [coin |-> quote.coin, amount |-> plusMargin(quote.amount),
             balance |-> balance[quote.coin]]
  /\ stage' = "shown"
  /\ UNCHANGED <<gas, quote, others>>

\* A service is not available, the market refuses a fee that is no number, or
\* leaves the amount out, which plusMargin does not accept.
SimulationFails ==
  /\ stage \in {"gasPrice", "gasUsed", "quote", "balance"}
  /\ stage' = "done"
  /\ UNCHANGED <<gas, quote, sim, others>>

-----------------------------------------------------------------------------
(* The user's decision, tx/submit and POST /transactions/relayed.          *)

simulated == <<gas, quote, sim>>

\* The drawer formats the balance, which it reads as a number: with one that is not safe
\* the component throws, and there are no buttons.
Rendered == sim.balance < Safe

\* Get Gas: the permit is for the coin simulated, and for a fixed value.
actionSignature ==
  /\ stage = "shown" /\ Rendered
  /\ permit' = [coin |-> sim.coin, value |-> PermitValue]
  /\ stage' = "submit"
  /\ UNCHANGED <<token, balance, amount, relayed, taken, simulated>>

\* Cancel, or the wallet refuses to sign.
Declines ==
  /\ stage = "shown" /\ Rendered
  /\ stage' = "done"
  /\ UNCHANGED <<simulated, others>>

Submit ==
  /\ stage = "submit"
  /\ amount' \in Hundredfold(sim.amount)
  /\ stage' = "relay"
  /\ UNCHANGED <<token, balance, permit, relayed, taken, simulated>>

\* The sender's wallet is looked up for its token once more.
executeMetaTransaction ==
  /\ stage = "relay" /\ Parsed(amount) # None
  /\ relayed' = [coin |-> token, amount |-> plusMargin(Parsed(amount))]
  /\ stage' = "sent"
  /\ UNCHANGED <<token, balance, permit, amount, taken, simulated>>

\* The amount is not read, or the relayer's signer refuses.
RelayFails ==
  /\ stage = "relay"
  /\ stage' = "done"
  /\ UNCHANGED <<simulated, others>>

-----------------------------------------------------------------------------
(* The sender's key is at hand: no drawer, and no wallet to look up.       *)

\* A quote of the test coin, a margin, a permit and the relayed call.
RelayQuote(n, value) ==
  /\ stage = "idle"
  /\ quote' = [coin |-> TestCoin, amount |-> n]
  /\ sim' = [coin |-> TestCoin, amount |-> plusMargin(n), balance |-> balance[TestCoin]]
  /\ permit' = [coin |-> TestCoin, value |-> value]
  /\ relayed' = [coin |-> TestCoin, amount |-> plusMargin(n)]
  /\ stage' = "sent"
  /\ UNCHANGED <<token, balance, gas, amount, taken>>

\* POST /transactions/test: the permit has the fixed value.
test_executeMetaTransaction == \E n \in Sells : RelayQuote(n, PermitValue)

\* relaySwapWithPermit.ts: the permit is for the amount.
relaySwapWithPermit == \E n \in Sells : RelayQuote(n, plusMargin(n))

-----------------------------------------------------------------------------
(* The chain.                                                              *)

\* Mutation: the token takes any permit of its owner.
Draws_AnyPermit == relayed.amount <= permit.value /\ relayed.amount <= balance[relayed.coin]

\* The permit is checked by the token of the coin relayed, then the amount is drawn.
Draws ==
  /\ relayed.coin = permit.coin
  /\ relayed.amount <= permit.value
  /\ relayed.amount <= balance[relayed.coin]

\* relaySwapToETH: the market takes what it quoted, and the rest goes back.
Mined ==
  /\ stage = "sent" /\ Draws /\ quote.amount <= relayed.amount
  /\ balance' = [balance EXCEPT ![relayed.coin] = @ - quote.amount]
  /\ taken' = [coin |-> relayed.coin, amount |-> quote.amount]
  /\ stage' = "done"
  /\ UNCHANGED <<token, permit, amount, relayed, simulated>>

\* The draw fails, or the market's price has moved away.
Reverts ==
  /\ stage = "sent"
  /\ stage' = "done"
  /\ UNCHANGED <<simulated, others>>

-----------------------------------------------------------------------------
(* Meanwhile.                                                              *)

\* A connect or a simulation of another tab.
SetToken(c) ==
  /\ token' = c
  /\ UNCHANGED <<balance, stage, permit, amount, relayed, taken, simulated>>

Spends(c) ==
  /\ \E n \in Balances : n < balance[c] /\ balance' = [balance EXCEPT ![c] = n]
  /\ UNCHANGED <<token, stage, permit, amount, relayed, taken, simulated>>

Next ==
  \/ simulation \/ getGasPrice \/ getTenderlySimulation \/ getTokenSwapQuote \/ getTokenBalance
  \/ SimulationFails
  \/ actionSignature \/ Declines \/ Submit \/ executeMetaTransaction \/ RelayFails
  \/ test_executeMetaTransaction \/ relaySwapWithPermit
  \/ Mined \/ Reverts
  \/ \E c \in Coins : SetToken(c) \/ Spends(c)

Spec == Init /\ [][Next]_vars

-----------------------------------------------------------------------------
(* Properties.                                                             *)

\* What is simulated, submitted and relayed is a number, or is not there.
TypeOK ==
  /\ token \in Coins /\ balance \in [Coins -> Nat]
  /\ stage \in Stages /\ gas \in Number
  /\ quote \in Sum \cup {None} /\ sim \in Simulation \cup {None}
  /\ permit \in Permit \cup {None}
  /\ amount \in Nat \cup {None}
  /\ relayed \in Sum \cup {None} /\ taken \in Sum \cup {None}

\* What the relayer draws covers what the market was quoted to take, through every
\* rounding and conversion on the way (plusMargin twice in app.service.ts and the
\* hundredfold in tx/submit).
Covered == relayed # None => relayed.amount >= quote.amount

\* The sender pays in no other coin than the one agreed to, at most the amount simulated
\* and the permit's value, although the backend looks the token up again when it
\* relays (the look-up in POST /transactions/relayed, the permit in relaySwapToETH).
TakenAsAgreed ==
  taken # None => /\ taken.coin = sim.coin
                  /\ taken.amount <= sim.amount
                  /\ taken.amount <= permit.value
=============================================================================
