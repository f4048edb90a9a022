------------------------------ MODULE Timelock ------------------------------
(***************************************************************************)
(* How the system is governed: the Timelock contract, with the RoleStore   *)
(* and the OracleStore that it administers, and the price feeds and the    *)
(* fee receiver that it sets in the DataStore.                             *)
(*                                                                         *)
(* A timelock admin signals an action and may carry it out when the delay  *)
(* has gone by.  The RoleStore itself obeys every holder of ROLE_ADMIN,    *)
(* and the timelock is only one of them.                                   *)
(*                                                                         *)
(* The zero address, which some signals refuse, is not among the accounts. *)
(* A price feed stands for all that is set with it.  A definition F_Slip   *)
(* is F with one slip that its code could have; no action uses it.         *)
(***************************************************************************)
EXTENDS Integers, FiniteSets

CONSTANTS
  Accounts,      \* accounts that people hold the keys of
  TimelockAddress, \* the account of the contract itself
  Deployers,     \* accounts that start out with ROLE_ADMIN
  Admins,        \* accounts that start out with TIMELOCK_ADMIN
  Multisigs,     \* accounts that start out with TIMELOCK_MULTISIG
  Roles,         \* the roles in use
  Appointments,  \* pairs of an account and a role that it may be granted
  Candidates,    \* accounts that may be made signers or fee receiver
  Tokens,        \* the tokens whose price feeds may be set
  Feeds,         \* the price feeds in use
  Labels,        \* the kinds of action that are signalled in this instance
  InitialDelay,  \* timelockDelay at deployment
  MaxDelay,      \* MAX_TIMELOCK_DELAY
  MaxTime,       \* bound on the clock
  MaxPending     \* bound on the signals that stand at one time

ASSUME TimelockAssumption ==
  /\ TimelockAddress \notin Accounts
  /\ Deployers \subseteq Accounts
  /\ Admins \subseteq Accounts /\ Multisigs \subseteq Accounts
  /\ {"ROLE_ADMIN", "TIMELOCK_ADMIN", "TIMELOCK_MULTISIG", "CONTROLLER"} \subseteq Roles
  /\ Appointments \subseteq (Accounts \cup {TimelockAddress}) \X Roles
  /\ Candidates \subseteq Accounts
  /\ Labels \subseteq {"addOracleSigner", "removeOracleSigner", "setFeeReceiver",
                       "grantRole", "revokeRole", "setPriceFeed"}
  /\ InitialDelay \in Nat /\ MaxDelay \in Nat /\ InitialDelay <= MaxDelay
  /\ MaxTime \in Nat /\ MaxPending \in Nat

VARIABLES
  now,          \* the block timestamp
  members,      \* roleMembers and roleCache of the RoleStore: who has a role
  signers,      \* the oracle signers in the OracleStore
  feeReceiver,  \* FEE_RECEIVER in the data store
  priceFeed,    \* the price feed of each token in the data store
  timelockDelay,
  pendingActions, \* the time from which a signalled action may be carried out
  signalledAt   \* history: since when the signal of an action has stood

stores == <<members, signers, feeReceiver, priceFeed>>
vars == <<now, stores, timelockDelay, pendingActions, signalledAt>>

Everyone == Accounts \cup {TimelockAddress}
NoOne == "0x0"
Never == -1

(***************************************************************************)
(* The key of an action hashes its label and its arguments.                *)
(***************************************************************************)
ActionKeys ==
  [label: Labels \cap {"addOracleSigner", "removeOracleSigner", "setFeeReceiver"},
   account: Candidates]
  \cup {[label |-> l, account |-> a[1], roleKey |-> a[2]] :
          l \in Labels \cap {"grantRole", "revokeRole"}, a \in Appointments}
  \cup [label: Labels \cap {"setPriceFeed"}, token: Tokens, feed: Feeds]

-----------------------------------------------------------------------------
(***************************************************************************)
(* The RoleStore.                                                          *)
(***************************************************************************)
HasRole(account, roleKey) == account \in members[roleKey]

GrantRole(sender, account, roleKey) ==
  /\ HasRole(sender, "ROLE_ADMIN")
  /\ members' = [members EXCEPT ![roleKey] = @ \cup {account}]

(***************************************************************************)
(* The last role admin and the last timelock multisig cannot be removed;   *)
(* nor can anybody be revoked from these roles while nobody has them.      *)
(***************************************************************************)
RevokeRole_CheckedBefore(sender, account, roleKey) ==
  /\ HasRole(sender, "ROLE_ADMIN")
  /\ roleKey \in {"ROLE_ADMIN", "TIMELOCK_MULTISIG"} => members[roleKey] # {}
  /\ members' = [members EXCEPT ![roleKey] = @ \ {account}]

RevokeRole(sender, account, roleKey) ==
  /\ HasRole(sender, "ROLE_ADMIN")
  /\ members' = [members EXCEPT ![roleKey] = @ \ {account}]
  /\ roleKey \in {"ROLE_ADMIN", "TIMELOCK_MULTISIG"} => members'[roleKey] # {}

-----------------------------------------------------------------------------
(***************************************************************************)
(* What by does to the stores.  The RoleStore obeys role admins, the       *)
(* OracleStore and the DataStore obey controllers.                         *)
(***************************************************************************)
SetRole(by, action) ==
  /\ \/ action.label = "grantRole" /\ GrantRole(by, action.account, action.roleKey)
     \/ action.label = "revokeRole" /\ RevokeRole(by, action.account, action.roleKey)
  /\ UNCHANGED <<signers, feeReceiver, priceFeed>>

SetSetting(by, action) ==
  /\ HasRole(by, "CONTROLLER")
  /\ \/ /\ action.label = "addOracleSigner"
        /\ signers' = signers \cup {action.account}
        /\ UNCHANGED <<feeReceiver, priceFeed>>
     \/ /\ action.label = "removeOracleSigner"
        /\ signers' = signers \ {action.account}
        /\ UNCHANGED <<feeReceiver, priceFeed>>
     \/ /\ action.label = "setFeeReceiver"
        /\ feeReceiver' = action.account
        /\ UNCHANGED <<signers, priceFeed>>
     \/ /\ action.label = "setPriceFeed"
        /\ priceFeed' = [priceFeed EXCEPT ![action.token] = action.feed]
        /\ UNCHANGED <<signers, feeReceiver>>
  /\ UNCHANGED members

Effect(by, action) == SetRole(by, action) \/ SetSetting(by, action)

(***************************************************************************)
(* People who are role admins or controllers may call the stores directly. *)
(***************************************************************************)
CallStore(sender, action) ==
  /\ Effect(sender, action)
  /\ UNCHANGED <<now, timelockDelay, pendingActions, signalledAt>>

-----------------------------------------------------------------------------
(***************************************************************************)
(* The timelock.  Signalling, carrying out and cancelling log an event,    *)
(* for which the timelock must be a controller; carrying out logs one      *)
(* after its effect, too.                                                  *)
(***************************************************************************)
CanLog == HasRole(TimelockAddress, "CONTROLLER")

SignalTime_NoDelay == now
SignalTime == now + timelockDelay

SignalPendingAction(sender, action) ==
  /\ HasRole(sender, "TIMELOCK_ADMIN")
  /\ Cardinality({a \in ActionKeys : pendingActions[a] # 0}) < MaxPending
  /\ pendingActions[action] = 0
  /\ CanLog
  /\ pendingActions' = [pendingActions EXCEPT ![action] = SignalTime]
  /\ signalledAt' = [signalledAt EXCEPT ![action] = now]
  /\ UNCHANGED <<now, stores, timelockDelay>>

Clear_Kept(action) == CanLog /\ pendingActions' = pendingActions

Clear(action) ==
  /\ pendingActions[action] # 0
  /\ CanLog
  /\ pendingActions' = [pendingActions EXCEPT ![action] = 0]

Validate(action) ==
  /\ pendingActions[action] # 0
  /\ pendingActions[action] <= now

ActAfterSignal(sender, action) ==
  /\ HasRole(sender, "TIMELOCK_ADMIN")
  /\ Validate(action)
  /\ Clear(action)
  /\ Effect(TimelockAddress, action)
  /\ CanLog'
  /\ signalledAt' = [signalledAt EXCEPT ![action] = Never]
  /\ UNCHANGED <<now, timelockDelay>>

CancelAction(sender, action) ==
  /\ HasRole(sender, "TIMELOCK_ADMIN")
  /\ Clear(action)
  /\ signalledAt' = [signalledAt EXCEPT ![action] = Never]
  /\ UNCHANGED <<now, stores, timelockDelay>>

(***************************************************************************)
(* The multisig revokes a role without a delay, and without an event.      *)
(***************************************************************************)
RevokeRoleNow(sender, account, roleKey) ==
  /\ HasRole(sender, "TIMELOCK_MULTISIG")
  /\ RevokeRole(TimelockAddress, account, roleKey)
  /\ UNCHANGED <<now, signers, feeReceiver, priceFeed, timelockDelay,
                 pendingActions, signalledAt>>

IncreaseTimelockDelay_AnyDelay(sender, delay) ==
  /\ HasRole(sender, "TIMELOCK_ADMIN")
  /\ delay <= MaxDelay
  /\ timelockDelay' = delay
  /\ UNCHANGED <<now, stores, pendingActions, signalledAt>>

IncreaseTimelockDelay(sender, delay) ==
  /\ HasRole(sender, "TIMELOCK_ADMIN")
  /\ delay > timelockDelay
  /\ delay <= MaxDelay
  /\ timelockDelay' = delay
  /\ UNCHANGED <<now, stores, pendingActions, signalledAt>>

Tick ==
  /\ now < MaxTime
  /\ now' = now + 1
  /\ UNCHANGED <<stores, timelockDelay, pendingActions, signalledAt>>

-----------------------------------------------------------------------------
InitialMembers(roleKey) ==
  CASE roleKey = "ROLE_ADMIN" -> Deployers \cup {TimelockAddress}
    [] roleKey = "CONTROLLER" -> {TimelockAddress}
    [] roleKey = "TIMELOCK_ADMIN" -> Admins
    [] roleKey = "TIMELOCK_MULTISIG" -> Multisigs
    [] OTHER -> {}

Init ==
  /\ now = 1
  /\ members = [r \in Roles |-> InitialMembers(r)]
  /\ signers = {}
  /\ feeReceiver = NoOne
  /\ priceFeed = [t \in Tokens |-> NoOne]
  /\ timelockDelay = InitialDelay
  /\ pendingActions = [a \in ActionKeys |-> 0]
  /\ signalledAt = [a \in ActionKeys |-> Never]

Next ==
  \/ \E sender \in Accounts :
       \/ \E action \in ActionKeys :
            \/ SignalPendingAction(sender, action)
            \/ ActAfterSignal(sender, action)
            \/ CancelAction(sender, action)
            \/ CallStore(sender, action)
       \/ \E a \in Appointments : RevokeRoleNow(sender, a[1], a[2])
       \/ \E delay \in 0..MaxDelay : IncreaseTimelockDelay(sender, delay)
  \/ Tick

Spec == Init /\ [][Next]_vars

-----------------------------------------------------------------------------
TypeOK ==
  /\ now \in Nat
  /\ members \in [Roles -> SUBSET Everyone]
  /\ signers \subseteq Accounts
  /\ feeReceiver \in Accounts \cup {NoOne}
  /\ priceFeed \in [Tokens -> Feeds \cup {NoOne}]
  /\ timelockDelay \in InitialDelay..MaxDelay
  /\ pendingActions \in [ActionKeys -> Nat]
  /\ signalledAt \in [ActionKeys -> Nat \cup {Never}]

(***************************************************************************)
(* May action be carried out now?  Its signal has stood for the delay the  *)
(* system was deployed with, whatever the delay has been set to since.     *)
(***************************************************************************)
Announced(action) ==
  /\ action \in ActionKeys
  /\ signalledAt[action] # Never
  /\ now - signalledAt[action] >= InitialDelay

Grant(account, roleKey) == [label |-> "grantRole", account |-> account, roleKey |-> roleKey]

(***************************************************************************)
(* Where only the timelock is a role admin, as the README wants it after   *)
(* the setup, nobody gets a role that was not announced: not by a signal   *)
(* that was cancelled, nor by one that was already used, nor early because *)
(* the delay was changed in between.                                       *)
(***************************************************************************)
GrantsAnnounced ==
  [][\A account \in Everyone, roleKey \in Roles :
       /\ members["ROLE_ADMIN"] \subseteq {TimelockAddress}
       /\ account \notin members[roleKey] /\ account \in members'[roleKey]
       => Announced(Grant(account, roleKey))]_vars

(***************************************************************************)
(* Where only the timelock is a controller (the README: "No EOA should     *)
(* have a Controller role"), nobody becomes or ceases to be an oracle      *)
(* signer, and no price feed and no fee receiver changes, without being    *)
(* announced, whatever roles are granted and revoked in between.           *)
(***************************************************************************)
SettingsAnnounced ==
  [][members["CONTROLLER"] \subseteq {TimelockAddress} =>
     /\ \A s \in Accounts :
          /\ s \in signers' \ signers
               => Announced([label |-> "addOracleSigner", account |-> s])
          /\ s \in signers \ signers'
               => Announced([label |-> "removeOracleSigner", account |-> s])
     /\ \A t \in Tokens : priceFeed'[t] # priceFeed[t]
          => Announced([label |-> "setPriceFeed", token |-> t, feed |-> priceFeed'[t]])
     /\ feeReceiver' # feeReceiver
          => Announced([label |-> "setFeeReceiver", account |-> feeReceiver'])]_vars

(***************************************************************************)
(* There is always a role admin, and once there is a multisig that can     *)
(* revoke the roles of others, there always is one, in whatever order      *)
(* people and the timelock grant and revoke.                               *)
(***************************************************************************)
SomeoneInCharge ==
  /\ members["ROLE_ADMIN"] # {}
  /\ Multisigs # {} => members["TIMELOCK_MULTISIG"] # {}

=============================================================================
