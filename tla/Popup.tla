------------------------------- MODULE Popup -------------------------------
(***************************************************************************)
(* The popup of the extension on top of WalletSync: the user sees one coin *)
(* there and chooses another, while transactions are quoted in the coin in *)
(* storage.                                                                *)
(*                                                                         *)
(* The popup shows a coin of its own.  It starts as the default, becomes   *)
(* the one in storage when the answer to coin/get arrives, and changes at  *)
(* once when the user chooses, before coin/set has reached the background. *)
(* Messages reach the background in the order they were sent; those of a   *)
(* popup that was closed meanwhile are still handled, only the answer of   *)
(* coin/get has nowhere to go.                                             *)
(***************************************************************************)
EXTENDS WalletSync

CONSTANTS Get,      \* the message coin/get; a coin/set is its coin
          GetLost,  \* the same, of a popup that is closed
          MaxInbox  \* how many messages of popups are on their way

VARIABLES
  popup, \* the popup's state, and whether it is open
  inbox  \* messages of popups the background has not handled yet

pvars == <<vars, popup, inbox>>

ASSUME PopupAssumption ==
  /\ {Get, GetLost} \cap Choices = {} /\ Get # GetLost
  /\ MaxInbox \in Nat \ {0}

Steps == {"Primary", "CurrencySelect", "TopUp"}

Popup == [step : Steps \cup {"closed"},
          selectedCoin : Choices,
          answer : Choices \cup {None},  \* of coin/get, on its way to the popup
          early : BOOLEAN,    \* history: the user chose while coin/get was under way
          topUp : {"no", "loading", "failed"}]

Message == Choices \cup {Get, GetLost}

\* A popup that opens, and what is left of one that closes.
Fresh(step) ==
  [step |-> step, selectedCoin |-> Eth, answer |-> None, early |-> FALSE, topUp |-> "no"]

PInit ==
  /\ Init
  /\ popup = Fresh("closed")
  /\ inbox = <<>>

Asked == \E i \in DOMAIN inbox : inbox[i] = Get

-----------------------------------------------------------------------------
(* The popup.                                                              *)

\* The popup opens and asks for the coin.
Open ==
  /\ popup.step = "closed" /\ Len(inbox) < MaxInbox
  /\ popup' = Fresh("Primary")
  /\ inbox' = Append(inbox, Get)

\* It closes as soon as the user clicks elsewhere.
Close ==
  /\ popup.step # "closed"
  /\ popup' = Fresh("closed")
  /\ inbox' = [i \in DOMAIN inbox |-> IF inbox[i] = Get THEN GetLost ELSE inbox[i]]

onCoinSelectStart ==
  /\ popup.step = "Primary"
  /\ popup' = [popup EXCEPT !.step = "CurrencySelect"]
  /\ UNCHANGED inbox

onBackButton ==
  /\ popup.step \in {"CurrencySelect", "TopUp"}
  /\ popup' = [popup EXCEPT !.step = "Primary"]
  /\ UNCHANGED inbox

\* Mutation: the coin is sent and the popup goes on showing the old one.
onCoinSelectFinal_Sent(c) ==
  /\ popup.step = "CurrencySelect" /\ Len(inbox) < MaxInbox
  /\ popup' = [popup EXCEPT !.step = "Primary", !.early = @ \/ Asked \/ popup.answer # None]
  /\ inbox' = Append(inbox, c)

\* The coin is shown at once, and coin/set is sent.
onCoinSelectFinal(c) ==
  /\ popup.step = "CurrencySelect" /\ Len(inbox) < MaxInbox
  /\ popup' = [popup EXCEPT !.step = "Primary", !.selectedCoin = c,
                            !.early = @ \/ Asked \/ popup.answer # None]
  /\ inbox' = Append(inbox, c)

\* The answer of coin/get arrives.
CoinArrives ==
  /\ popup.answer # None
  /\ popup' = [popup EXCEPT !.selectedCoin = popup.answer, !.answer = None]
  /\ UNCHANGED inbox

onTopUpGasStart ==
  /\ popup.step = "Primary"
  /\ popup' = [popup EXCEPT !.step = "TopUp"]
  /\ UNCHANGED inbox

\* The button spins, and the script of the top-up is fetched and sent to the page.
onTopUpGasFinal ==
  /\ popup.step = "TopUp" /\ popup.topUp = "no"
  /\ popup' = [popup EXCEPT !.topUp = "loading"]
  /\ UNCHANGED inbox

\* The page has the script, and three seconds later the popup returns to its first
\* page, from whichever it is on.
TopUpTimer ==
  /\ popup.topUp = "loading"
  /\ popup' = [popup EXCEPT !.topUp = "no", !.step = "Primary"]
  /\ UNCHANGED inbox

\* The script or the page is not there: the button spins until the popup is closed.
TopUpFails ==
  /\ popup.topUp = "loading"
  /\ popup' = [popup EXCEPT !.topUp = "failed"]
  /\ UNCHANGED inbox

-----------------------------------------------------------------------------
(* The background's handlers of the coin messages.                         *)

\* The coins coin/get may derive from the wallet in storage.  A wallet without a
\* token matches the first of the list, which has none on any network: Eth.
CoinFromWallet ==
  IF stored = None THEN {None}
  ELSE IF stored.token = None THEN {Eth}
  ELSE {c \in Coins : TokenOn(c, stored.network) = stored.token}

\* Mutation: the stored wallet's token goes before the selected coin.
GetCoin_WalletFirst ==
  /\ inbox # <<>> /\ Head(inbox) = Get
  /\ \E c \in IF stored # None THEN CoinFromWallet ELSE {coin} :
       popup' = [popup EXCEPT !.answer = c]
  /\ inbox' = Tail(inbox)
  /\ UNCHANGED vars

\* coin/get: the coin in storage, or else the coin of the wallet in storage.
GetCoin ==
  /\ inbox # <<>> /\ Head(inbox) = Get
  /\ \E c \in IF coin # None THEN {coin} ELSE CoinFromWallet :
       popup' = [popup EXCEPT !.answer = c]
  /\ inbox' = Tail(inbox)
  /\ UNCHANGED vars

\* coin/get for a popup that is closed.
GetNothing ==
  /\ inbox # <<>> /\ Head(inbox) = GetLost
  /\ inbox' = Tail(inbox)
  /\ UNCHANGED <<vars, popup>>

\* coin/set.
PutCoin ==
  /\ inbox # <<>> /\ Head(inbox) \in Choices
  /\ SetCoin(Head(inbox))
  /\ inbox' = Tail(inbox)
  /\ UNCHANGED popup

-----------------------------------------------------------------------------
PopupStep ==
  \/ Open \/ Close
  \/ onCoinSelectStart \/ onBackButton
  \/ \E c \in Choices : onCoinSelectFinal(c)
  \/ CoinArrives
  \/ onTopUpGasStart \/ onTopUpGasFinal \/ TopUpTimer \/ TopUpFails

PNext ==
  \/ PopupStep /\ UNCHANGED vars
  \/ GetCoin \/ GetNothing \/ PutCoin
  \/ \E c \in Connects : ConnectStep(c) /\ UNCHANGED <<popup, inbox>>
  \/ \E f \in Flows : FlowStep(f) /\ UNCHANGED <<popup, inbox>>

PSpec == PInit /\ [][PNext]_pvars

-----------------------------------------------------------------------------
(* Properties.                                                             *)

\* Storage, wallets, handlers and the popup keep their shape.
PopupOK == TypeOK /\ popup \in Popup /\ inbox \in Seq(Message)

\* Once its messages are handled, the popup shows the coin the next transaction is
\* quoted in, or the default when none was ever selected: across popups that were
\* closed before their choice was stored, and whatever wallets the tabs connect
\* meanwhile.  The exception is a choice made before coin/get was answered, which
\* the answer of before then covers up on the screen (coin/get in useEffect,
\* onCoinSelectFinal, coin/get's derivation from the wallet).
ShowsSelected ==
  popup.step # "closed" /\ inbox = <<>> /\ popup.answer = None /\ ~popup.early
    => popup.selectedCoin = IF coin = None THEN Eth ELSE coin
=============================================================================
