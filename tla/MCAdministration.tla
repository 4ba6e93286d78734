-------------------------- MODULE MCAdministration --------------------------
(* Three owners, among them the deployer, the operator and one the         *)
(* administration may be handed to.                                        *)
EXTENDS Administration, TLC

CONSTANTS o1, o2, keeper, wallet

MCAccounts == {o1, o2, keeper}
MCOwners == MCAccounts
MCNobody == {}
MCValues == {0}

MCRecipients ==
  {Grant("EXECUTIONER", o2), [fn |-> "pause"], [fn |-> "changeAdmin", account |-> keeper],
   [fn |-> "upgradeToAndCall", foreign |-> FALSE, call |-> [fn |-> "pause"]],
   [fn |-> "upgradeTo", foreign |-> TRUE]}
MCRequests ==
  {Grant("ADMIN", o1), [fn |-> "pause"], [fn |-> "initialize", account |-> keeper],
   [fn |-> "upgradeTo", foreign |-> FALSE],
   [fn |-> "upgradeToAndCall", foreign |-> TRUE, call |-> [fn |-> "pause"]],
   [fn |-> "renounceRole", role |-> "DEFAULT_ADMIN_ROLE", account |-> o1],
   [fn |-> "revokeRole", role |-> "EXECUTIONER", account |-> o2],
   [fn |-> "changeAdmin", account |-> o1]}

\* Foreign logic pauses and keeps the proxy, or makes itself admin and disappears.
MCTampered ==
  {[admin |-> wallet, version |-> 1, foreign |-> TRUE, initialized |-> TRUE,
    roles |-> [r \in Roles |-> {}], paused |-> TRUE],
   [admin |-> keeper, version |-> 1, foreign |-> FALSE, initialized |-> TRUE,
    roles |-> [r \in Roles |-> {keeper}], paused |-> FALSE]}
=============================================================================
