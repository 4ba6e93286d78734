---------------------------- MODULE Administration ----------------------------
(***************************************************************************)
(* CoinChoiceRelayer behind its proxy, administered by the multi-signature *)
(* wallet: TransparentUpgradeableProxy.sol (the copy under upgradeable/,   *)
(* whose _beforeFallback is empty), AccessControl, Pausable, Initializable *)
(* and the scripts that deploy it and grant its roles.                     *)
(*                                                                         *)
(* The wallet is the one of MultiSig; its recipient is the proxy, and a    *)
(* recipient there stands for the call, whose effect is given here: it     *)
(* ends with the next step.  The admin of the proxy installs any logic it  *)
(* likes, the relayer's again or foreign logic, which does as it likes     *)
(* with the storage of the proxy, its admin and its logic included.  The   *)
(* proxy is no owner, so that a call of the wallet by it changes nothing.  *)
(***************************************************************************)
EXTENDS MultiSig

CONSTANTS Deployer,       \* the signer of deploy/CoinChoiceRelayer.ts
          Operator,       \* the signer of grantRole.ts and confirmTransaction.ts
          Requests,       \* the calls that accounts make themselves
          ConfirmedIndex, \* the transaction confirmTransaction.ts names
          Tampered,       \* the storages foreign logic may leave
          MaxVersion      \* bound: how often other admins upgrade the proxy

VARIABLES
  proxy,    \* the storage behind the proxy
  script,   \* the script the operator runs
  granted   \* history: the roles ever held, with who held them

avars == <<vars, proxy, script, granted>>
walletUnchanged == UNCHANGED vars

Roles == {"DEFAULT_ADMIN_ROLE", "EXECUTIONER", "ADMIN"}
Addresses == Accounts \cup {Wallet}

RelayerRequest ==
  [fn : {"grantRole", "revokeRole", "renounceRole"}, role : Roles, account : Addresses]
    \cup [fn : {"initialize"}, account : Addresses] \cup [fn : {"pause"}]
Request ==
  RelayerRequest \cup [fn : {"changeAdmin"}, account : Addresses]
    \cup [fn : {"upgradeTo"}, foreign : BOOLEAN]
    \cup [fn : {"upgradeToAndCall"}, foreign : BOOLEAN, call : RelayerRequest]

\* foreign: the logic is not the relayer's.
Proxy == [admin : Addresses, version : Nat, foreign : BOOLEAN, initialized : BOOLEAN,
          roles : [Roles -> SUBSET Addresses], paused : BOOLEAN]

\* own is the transaction the script submitted, index the one it goes on with.
Stages == {"idle", "submitted", "counted", "confirmed", "executing", "completed", "failed"}
Script == [at : Stages, own : Nat, index : Nat]

Grant(role, account) == [fn |-> "grantRole", role |-> role, account |-> account]
OperatorGrant == Grant("EXECUTIONER", Operator)

ASSUME AdministrationAssumption ==
  /\ Contracts = {} /\ Recipients \subseteq Request /\ Requests \subseteq Request
  /\ Wallet \notin Accounts /\ Deployer \in Accounts /\ Operator \in Owners
  /\ ConfirmedIndex \in Indices /\ Tampered \subseteq Proxy /\ MaxVersion \in Nat
  /\ OperatorGrant \in Recipients /\ 0 \in Values

AInit ==
  /\ Init
  /\ proxy = [admin |-> Wallet, version |-> 0, foreign |-> FALSE, initialized |-> FALSE,
              roles |-> [r \in Roles |-> {}], paused |-> FALSE]
  /\ script = [at |-> "idle", own |-> 0, index |-> 0]
  /\ granted = {}

-----------------------------------------------------------------------------
(* The logic contract, called with the storage of the proxy.               *)

hasRole(role, sender) == sender \in proxy.roles[role]

\* Mutation: anybody may pause the relayer.
LogicAccepts_AnybodyPauses(sender, q) ==
  /\ q.fn = "initialize" => ~proxy.initialized
  /\ q.fn \in {"grantRole", "revokeRole"} => hasRole("DEFAULT_ADMIN_ROLE", sender)
  /\ q.fn = "renounceRole" => q.account = sender
  /\ q.fn = "pause" => ~proxy.paused

\* What the relayer's functions require; a call of a function it does not have, such
\* as one of the proxy, is taken by its fallback.
LogicAccepts(sender, q) ==
  /\ q.fn = "initialize" => ~proxy.initialized
  /\ q.fn \in {"grantRole", "revokeRole"} => hasRole("DEFAULT_ADMIN_ROLE", sender)
  /\ q.fn = "renounceRole" => q.account = sender
  /\ q.fn = "pause" => hasRole("ADMIN", sender) /\ ~proxy.paused

\* Who is granted a role: by initialize the sender, which does not become ADMIN, and
\* the controller.
Given(sender, q) ==
  CASE q.fn = "initialize" ->
         [r \in Roles |-> {q.account} \cup (IF r = "ADMIN" THEN {} ELSE {sender})]
    [] q.fn = "grantRole" -> [r \in Roles |-> IF r = q.role THEN {q.account} ELSE {}]
    [] OTHER -> [r \in Roles |-> {}]
Taken(q) ==
  [r \in Roles |->
     IF q.fn \in {"revokeRole", "renounceRole"} /\ r = q.role THEN {q.account} ELSE {}]

\* Mutation: revoking a role sets it, as granting does.
RolesAfter_RevokeSets(sender, q) ==
  [r \in Roles |-> proxy.roles[r] \cup Given(sender, q)[r] \cup Taken(q)[r]]

RolesAfter(sender, q) ==
  [r \in Roles |-> (proxy.roles[r] \cup Given(sender, q)[r]) \ Taken(q)[r]]

Pairs(roles) == {pair \in Roles \X Addresses : pair[2] \in roles[pair[1]]}

\* What they do.
LogicDoes(sender, q, version) ==
  /\ proxy' = [proxy EXCEPT !.version = version, !.foreign = FALSE,
                            !.initialized = @ \/ q.fn = "initialize",
                            !.paused = @ \/ q.fn = "pause",
                            !.roles = RolesAfter(sender, q)]
  /\ granted' = granted \cup Pairs(Given(sender, q))

-----------------------------------------------------------------------------
(* The proxy.                                                              *)

Upgrades == {"upgradeTo", "upgradeToAndCall"}
AdminFunctions == Upgrades \cup {"changeAdmin"}

\* Mutation: the functions of the proxy are open to anybody.
ifAdmin_Anybody(sender, q) == q.fn \in AdminFunctions

\* A function of the proxy, called by its admin; everything else goes to the logic.
ifAdmin(sender, q) == q.fn \in AdminFunctions /\ sender = proxy.admin

\* Foreign logic runs: the one installed, or by upgradeToAndCall the one just installed.
RunsForeign(sender, q) ==
  IF ifAdmin(sender, q) THEN q.fn = "upgradeToAndCall" /\ q.foreign ELSE proxy.foreign

\* Foreign logic accepts a call or fails, as it likes.
ProxyAccepts(sender, q) ==
  \/ RunsForeign(sender, q)
  \/ IF ifAdmin(sender, q)
       THEN q.fn = "upgradeToAndCall" => LogicAccepts(sender, q.call)
       ELSE LogicAccepts(sender, q)
ProxyRefuses(sender, q) == RunsForeign(sender, q) \/ ~ProxyAccepts(sender, q)

ProxyDoes(sender, q) ==
  CASE RunsForeign(sender, q) ->
         \E left \in Tampered : proxy' = left /\ granted' = granted \cup Pairs(left.roles)
    [] ~RunsForeign(sender, q) /\ ifAdmin(sender, q) /\ q.fn = "changeAdmin" ->
         proxy' = [proxy EXCEPT !.admin = q.account] /\ UNCHANGED granted
    [] ~RunsForeign(sender, q) /\ ifAdmin(sender, q) /\ q.fn = "upgradeTo" ->
         /\ proxy' = [proxy EXCEPT !.version = @ + 1, !.foreign = q.foreign]
         /\ UNCHANGED granted
    [] ~RunsForeign(sender, q) /\ ifAdmin(sender, q) /\ q.fn = "upgradeToAndCall" ->
         LogicDoes(sender, q.call, proxy.version + 1)
    [] OTHER -> LogicDoes(sender, q, proxy.version)

\* Between transactions of the wallet an account calls the proxy.
Direct(sender, q) ==
  /\ calls = <<>>
  /\ ProxyAccepts(sender, q)
  /\ ifAdmin(sender, q) /\ q.fn \in Upgrades => proxy.version < MaxVersion
  /\ ProxyDoes(sender, q)
  /\ walletUnchanged /\ UNCHANGED script

\* The deploy script's last transaction makes the wallet controller, unless somebody has
\* called initialize before.
Deploy == Direct(Deployer, [fn |-> "initialize", account |-> Wallet])

-----------------------------------------------------------------------------
(* The wallet's transactions.                                              *)

Called == storage.transactions[Innermost.txIndex].to

\* The script that waits for the execution learns how it ended.
Ended(how) == script' = [script EXCEPT !.at = IF @ = "executing" THEN how ELSE @]

ExecutionSucceeds ==
  /\ CallReturns
  /\ ProxyAccepts(Wallet, Called) /\ ProxyDoes(Wallet, Called)
  /\ Ended("completed")

ExecutionFails ==
  /\ CallFails
  /\ ProxyRefuses(Wallet, Called)
  /\ Ended("failed")
  /\ UNCHANGED <<proxy, granted>>

OwnersCall(sender) ==
  /\ \/ \E to \in Recipients, value \in Values : submitTransaction(sender, to, value)
     \/ \E i \in Indices : \/ confirmTransaction(sender, i)
                           \/ revokeConfirmation(sender, i)
                           \/ executeTransaction(sender, i)
  /\ UNCHANGED <<proxy, script, granted>>

-----------------------------------------------------------------------------
(* grantRole.ts and confirmTransaction.ts: each step is a transaction of    *)
(* its own, or a read, and others come between.                            *)

ScriptSubmits ==
  /\ script.at = "idle"
  /\ submitTransaction(Operator, OperatorGrant, 0)
  /\ script' = [script EXCEPT !.at = "submitted", !.own = Len(storage'.transactions)]
  /\ UNCHANGED <<proxy, granted>>

\* The last transaction is taken for the script's own.
ScriptCounts ==
  /\ script.at = "submitted" /\ calls = <<>>
  /\ script' = [script EXCEPT !.at = "counted", !.index = Len(storage.transactions)]
  /\ walletUnchanged /\ UNCHANGED <<proxy, granted>>

ConfirmScript ==
  /\ script.at = "idle"
  /\ script' = [script EXCEPT !.at = "counted", !.index = ConfirmedIndex]
  /\ walletUnchanged /\ UNCHANGED <<proxy, granted>>

ScriptConfirms ==
  /\ script.at = "counted"
  /\ confirmTransaction(Operator, script.index)
  /\ script' = [script EXCEPT !.at = "confirmed"]
  /\ UNCHANGED <<proxy, granted>>

\* Mutation: the script does not wait for its transaction.
ScriptExecutes_NoWait ==
  /\ script.at = "confirmed"
  /\ executeTransaction(Operator, script.index)
  /\ script' = [script EXCEPT !.at = "completed"]
  /\ UNCHANGED <<proxy, granted>>

ScriptExecutes ==
  /\ script.at = "confirmed"
  /\ executeTransaction(Operator, script.index)
  /\ script' = [script EXCEPT !.at = "executing"]
  /\ UNCHANGED <<proxy, granted>>

\* The transaction the script sends reverts.
ScriptFails ==
  /\ calls = <<>>
  /\ \/ /\ script.at = "counted"
        /\ ~(txExists(script.index) /\ notExecuted(script.index)
             /\ notConfirmed(script.index, Operator))
     \/ /\ script.at = "confirmed"
        /\ ~(notExecuted(script.index)
             /\ storage.transactions[script.index].numConfirmations >= Required)
  /\ script' = [script EXCEPT !.at = "failed"]
  /\ walletUnchanged /\ UNCHANGED <<proxy, granted>>

-----------------------------------------------------------------------------
ANext ==
  \/ Deploy
  \/ \E sender \in Accounts : OwnersCall(sender) \/ \E q \in Requests : Direct(sender, q)
  \/ ExecutionSucceeds \/ ExecutionFails
  \/ ScriptSubmits \/ ScriptCounts \/ ConfirmScript
  \/ ScriptConfirms \/ ScriptExecutes \/ ScriptFails

ASpec == AInit /\ [][ANext]_avars

-----------------------------------------------------------------------------
(* Properties.                                                             *)

\* The wallet, the proxy and the script keep their shape, and roles are held only by
\* those they were granted to.
AdministrationOK ==
  /\ TypeOK
  /\ proxy \in Proxy
  /\ script \in Script
  /\ granted \subseteq Roles \X Addresses
  /\ \A r \in Roles : \A a \in proxy.roles[r] : <<r, a>> \in granted

\* The wallet executed the i-th transaction, and a quorum of owners stands behind it.
Quorate(i) ==
  /\ storage.transactions[i].executed
  /\ Cardinality(storage.isConfirmed[i]) >= Required

Pauses(q) == q.fn = "pause" \/ (q.fn = "upgradeToAndCall" /\ q.call.fn = "pause")

\* A call that lets the proxy go: to another admin or to foreign logic.
LetsGo(q) ==
  (q.fn = "changeAdmin" /\ q.account # Wallet) \/ (q.fn \in Upgrades /\ q.foreign)

\* A quorum of owners executed a transaction that lets the proxy go.
LetGo == \E i \in DOMAIN storage.transactions :
           Quorate(i) /\ LetsGo(storage.transactions[i].to)

\* As long as nobody but the wallet ever was ADMIN, the relayer is paused only when a
\* quorum of owners executed that, or executed a transaction that let the proxy go: to
\* another admin, who can install logic that pauses, or to foreign logic.  Whatever the
\* deployer, other accounts and the scripts do, they do not get there alone (the admin
\* given to the proxy, ifAdmin, onlyRole(ADMIN), executeTransaction).
PauseNeedsQuorum ==
  proxy.paused /\ (\A a \in Addresses : <<"ADMIN", a>> \in granted => a = Wallet) =>
    \/ LetGo
    \/ \E i \in DOMAIN storage.transactions :
         Quorate(i) /\ Pauses(storage.transactions[i].to)

\* While the wallet is the admin of the proxy and the logic is the relayer's, the proxy
\* gets another admin or another logic only by a transaction under execution that says
\* so, with a quorum behind it; another admin by changeAdmin to it, or by foreign logic
\* the transaction installs and runs (ifAdmin, executeTransaction).
AdminNeedsQuorum ==
  [][proxy.admin = Wallet /\ ~proxy.foreign
       /\ <<proxy'.admin, proxy'.version, proxy'.foreign>>
            # <<proxy.admin, proxy.version, proxy.foreign>>
       => /\ calls # <<>> /\ Quorate(Innermost.txIndex)
          /\ Called.fn \in AdminFunctions
          /\ proxy'.admin # proxy.admin =>
               IF Called.fn = "changeAdmin" THEN Called.account = proxy'.admin
               ELSE Called.foreign]_avars

\* When grantRole.ts or confirmTransaction.ts reports that it completed, the transaction
\* it went on with, its own or a later one, is executed with a quorum behind it; and if
\* it was its own, the operator was granted the role, unless the proxy was let go.
Completed ==
  script.at = "completed" =>
    /\ script.index >= script.own
    /\ Quorate(script.index)
    /\ script.index = script.own => <<"EXECUTIONER", Operator>> \in granted \/ LetGo
=============================================================================
