--------------------------- MODULE TimelockProofs ---------------------------
(***************************************************************************)
(* What the governance of the system guarantees, for any people, roles,    *)
(* delays and settings: its four properties from one inductive invariant,  *)
(* and a state from which it cannot recover.                               *)
(***************************************************************************)
EXTENDS Timelock, TLAPS

(***************************************************************************)
(* What stands was signalled, and does not fall due before the delay that  *)
(* the system was deployed with.  This is what an action knows of its      *)
(* signal, the delay having been increased in between or not.              *)
(***************************************************************************)
Scheduled ==
  \A a \in ActionKeys : pendingActions[a] # 0 =>
    signalledAt[a] # Never /\ signalledAt[a] + InitialDelay <= pendingActions[a]

IInv == TypeOK /\ SomeoneInCharge /\ Scheduled

-----------------------------------------------------------------------------
(***************************************************************************)
(* The kinds of action, and what their keys are made of.                   *)
(***************************************************************************)
LEMMA SettingKeys ==
  ASSUME NEW a \in ActionKeys
  PROVE  /\ a.label \in {"addOracleSigner", "removeOracleSigner", "setFeeReceiver"} =>
              a.account \in Accounts /\ a = [label |-> a.label, account |-> a.account]
         /\ a.label = "setPriceFeed" =>
              /\ a.token \in Tokens /\ a.feed \in Feeds
              /\ a = [label |-> a.label, token |-> a.token, feed |-> a.feed]
<1>1. CASE a \in [label: Labels \cap {"addOracleSigner", "removeOracleSigner", "setFeeReceiver"},
                  account: Candidates]
  BY <1>1, TimelockAssumption DEF TimelockAssumption
<1>2. CASE \E l \in Labels \cap {"grantRole", "revokeRole"}, p \in Appointments :
             a = [label |-> l, account |-> p[1], roleKey |-> p[2]]
  BY <1>2
<1>3. CASE a \in [label: Labels \cap {"setPriceFeed"}, token: Tokens, feed: Feeds]
  BY <1>3
<1> QED
  BY <1>1, <1>2, <1>3 DEF ActionKeys

LEMMA RoleKeys ==
  ASSUME NEW a \in ActionKeys, a.label \in {"grantRole", "revokeRole"}
  PROVE  /\ a.account \in Everyone /\ a.roleKey \in Roles
         /\ a = [label |-> a.label, account |-> a.account, roleKey |-> a.roleKey]
<1>1. PICK l \in Labels \cap {"grantRole", "revokeRole"}, p \in Appointments :
        a = [label |-> l, account |-> p[1], roleKey |-> p[2]]
  BY DEF ActionKeys
<1>2. p[1] \in Everyone /\ p[2] \in Roles
  BY TimelockAssumption DEF TimelockAssumption, Everyone
<1> QED
  BY <1>1, <1>2

-----------------------------------------------------------------------------
(***************************************************************************)
(* What one call does to the roles and the settings, whoever makes it.     *)
(***************************************************************************)
LEMMA RevokeRoleKeeps ==
  ASSUME TypeOK, SomeoneInCharge, NEW by, NEW account, NEW roleKey \in Roles,
         RevokeRole(by, account, roleKey)
  PROVE  /\ members' \in [Roles -> SUBSET Everyone]
         /\ SomeoneInCharge'
         /\ \A r \in Roles : members'[r] \subseteq members[r]
<1>1. members' = [members EXCEPT ![roleKey] = @ \ {account}]
  BY DEF RevokeRole
<1>2. \A r \in Roles : members'[r] = IF r = roleKey THEN members[r] \ {account} ELSE members[r]
  BY <1>1 DEF TypeOK
<1>3. members' \in [Roles -> SUBSET Everyone]
  BY <1>1 DEF TypeOK
<1>4. \A r \in {"ROLE_ADMIN", "TIMELOCK_MULTISIG"} :
        r \in Roles /\ (members[r] # {} => members'[r] # {})
  BY <1>2, TimelockAssumption DEF RevokeRole, TimelockAssumption
<1> QED
  BY <1>2, <1>3, <1>4 DEF SomeoneInCharge

LEMMA GrantRoleKeeps ==
  ASSUME TypeOK, SomeoneInCharge, NEW by, NEW account \in Everyone, NEW roleKey \in Roles,
         GrantRole(by, account, roleKey)
  PROVE  /\ members' \in [Roles -> SUBSET Everyone]
         /\ SomeoneInCharge'
         /\ \A r \in Roles : members'[r] = IF r = roleKey THEN members[r] \cup {account}
                                           ELSE members[r]
<1>1. members' = [members EXCEPT ![roleKey] = @ \cup {account}]
  BY DEF GrantRole
<1>2. \A r \in Roles : members'[r] = IF r = roleKey THEN members[r] \cup {account} ELSE members[r]
  BY <1>1 DEF TypeOK
<1>3. members' \in [Roles -> SUBSET Everyone]
  BY <1>1 DEF TypeOK
<1>4. \A r \in {"ROLE_ADMIN", "TIMELOCK_MULTISIG"} :
        r \in Roles /\ (members[r] # {} => members'[r] # {})
  BY <1>2, TimelockAssumption DEF TimelockAssumption
<1> QED
  BY <1>2, <1>3, <1>4 DEF SomeoneInCharge

TypeOKStores ==
  /\ members \in [Roles -> SUBSET Everyone]
  /\ signers \subseteq Accounts
  /\ feeReceiver \in Accounts \cup {NoOne}
  /\ priceFeed \in [Tokens -> Feeds \cup {NoOne}]

LEMMA EffectKeeps ==
  ASSUME TypeOK, SomeoneInCharge, NEW by, NEW action \in ActionKeys, Effect(by, action)
  PROVE  TypeOKStores' /\ SomeoneInCharge'
<1>1. CASE SetRole(by, action)
  <2>1. action.label \in {"grantRole", "revokeRole"}
    BY <1>1 DEF SetRole
  <2>2. action.account \in Everyone /\ action.roleKey \in Roles
    BY <2>1, RoleKeys
  <2>3. members' \in [Roles -> SUBSET Everyone] /\ SomeoneInCharge'
    BY <1>1, <2>2, RevokeRoleKeeps, GrantRoleKeeps DEF SetRole
  <2> QED
    BY <1>1, <2>3 DEF SetRole, TypeOK, TypeOKStores
<1>2. CASE SetSetting(by, action)
  <2>1. /\ action.label \in {"addOracleSigner", "removeOracleSigner", "setFeeReceiver"} =>
             action.account \in Accounts
        /\ action.label = "setPriceFeed" => action.token \in Tokens /\ action.feed \in Feeds
    BY SettingKeys
  <2>2. /\ signers' \subseteq Accounts
        /\ feeReceiver' \in Accounts \cup {NoOne}
        /\ priceFeed' \in [Tokens -> Feeds \cup {NoOne}]
    BY <1>2, <2>1 DEF SetSetting, TypeOK
  <2> QED
    BY <1>2, <2>2 DEF SetSetting, TypeOK, TypeOKStores, SomeoneInCharge
<1> QED
  BY <1>1, <1>2 DEF Effect

-----------------------------------------------------------------------------
(***************************************************************************)
(* The invariant.                                                          *)
(***************************************************************************)
LEMMA InitIInv == Init => IInv
<1> SUFFICES ASSUME Init PROVE IInv
  OBVIOUS
<1>1. \A r \in Roles : InitialMembers(r) \subseteq Everyone
  BY TimelockAssumption DEF InitialMembers, TimelockAssumption, Everyone
<1>2. TypeOK
  BY <1>1, TimelockAssumption DEF Init, TypeOK, TimelockAssumption, Never, NoOne
<1>3. SomeoneInCharge
  BY TimelockAssumption DEF Init, SomeoneInCharge, InitialMembers, TimelockAssumption
<1>4. Scheduled
  BY DEF Init, Scheduled
<1> QED
  BY <1>2, <1>3, <1>4 DEF IInv

LEMMA SignalKeeps ==
  ASSUME IInv, NEW sender \in Accounts, NEW action \in ActionKeys,
         SignalPendingAction(sender, action)
  PROVE  IInv'
<1> USE DEF IInv
<1>1. now + timelockDelay \in Nat /\ now + InitialDelay <= now + timelockDelay
  BY TimelockAssumption DEF TypeOK, TimelockAssumption
<1>2. /\ pendingActions' = [pendingActions EXCEPT ![action] = now + timelockDelay]
      /\ signalledAt' = [signalledAt EXCEPT ![action] = now]
      /\ UNCHANGED <<now, stores, timelockDelay>>
  BY DEF SignalPendingAction, SignalTime
<1>3. TypeOK'
  BY <1>1, <1>2 DEF TypeOK, stores
<1>4. SomeoneInCharge'
  BY <1>2 DEF SomeoneInCharge, stores
<1>5. Scheduled'
  <2> SUFFICES ASSUME NEW a \in ActionKeys, pendingActions'[a] # 0
               PROVE  signalledAt'[a] # Never /\ signalledAt'[a] + InitialDelay <= pendingActions'[a]
    BY DEF Scheduled
  <2>1. CASE a = action
    BY <1>1, <1>2, <2>1 DEF TypeOK, Never
  <2>2. CASE a # action
    BY <1>2, <2>2 DEF TypeOK, Scheduled
  <2> QED
    BY <2>1, <2>2
<1> QED
  BY <1>3, <1>4, <1>5

(***************************************************************************)
(* An action that is cleared leaves the other signals as they stand.       *)
(***************************************************************************)
LEMMA ClearKeeps ==
  ASSUME TypeOK, Scheduled, NEW action \in ActionKeys, Clear(action),
         signalledAt' = [signalledAt EXCEPT ![action] = Never]
  PROVE  /\ pendingActions' \in [ActionKeys -> Nat]
         /\ signalledAt' \in [ActionKeys -> Nat \cup {Never}]
         /\ Scheduled'
<1>1. pendingActions' = [pendingActions EXCEPT ![action] = 0]
  BY DEF Clear
<1>2. \A a \in ActionKeys : pendingActions'[a] # 0 =>
        pendingActions'[a] = pendingActions[a] /\ signalledAt'[a] = signalledAt[a]
  BY <1>1 DEF TypeOK
<1>3. pendingActions' \in [ActionKeys -> Nat] /\ signalledAt' \in [ActionKeys -> Nat \cup {Never}]
  BY <1>1 DEF TypeOK
<1> QED
  BY <1>2, <1>3 DEF Scheduled

LEMMA ActKeeps ==
  ASSUME IInv, NEW sender \in Accounts, NEW action \in ActionKeys,
         ActAfterSignal(sender, action)
  PROVE  IInv'
<1> USE DEF IInv
<1>1. TypeOKStores' /\ SomeoneInCharge'
  BY EffectKeeps DEF ActAfterSignal
<1>2. /\ pendingActions' \in [ActionKeys -> Nat]
      /\ signalledAt' \in [ActionKeys -> Nat \cup {Never}]
      /\ Scheduled'
  BY ClearKeeps DEF ActAfterSignal
<1>3. TypeOK'
  BY <1>1, <1>2 DEF ActAfterSignal, TypeOK, TypeOKStores
<1> QED
  BY <1>1, <1>2, <1>3

LEMMA CancelKeeps ==
  ASSUME IInv, NEW sender \in Accounts, NEW action \in ActionKeys,
         CancelAction(sender, action)
  PROVE  IInv'
<1> USE DEF IInv
<1>1. /\ pendingActions' \in [ActionKeys -> Nat]
      /\ signalledAt' \in [ActionKeys -> Nat \cup {Never}]
      /\ Scheduled'
  BY ClearKeeps DEF CancelAction
<1>2. TypeOK'
  BY <1>1 DEF CancelAction, TypeOK, stores
<1>3. SomeoneInCharge'
  BY DEF CancelAction, SomeoneInCharge, stores
<1> QED
  BY <1>1, <1>2, <1>3

LEMMA CallKeeps ==
  ASSUME IInv, NEW sender \in Accounts, NEW action \in ActionKeys, CallStore(sender, action)
  PROVE  IInv'
<1> USE DEF IInv
<1>1. TypeOKStores' /\ SomeoneInCharge'
  BY EffectKeeps DEF CallStore
<1>2. TypeOK'
  BY <1>1 DEF CallStore, TypeOK, TypeOKStores
<1>3. Scheduled'
  BY DEF CallStore, Scheduled
<1> QED
  BY <1>1, <1>2, <1>3

LEMMA RevokeNowKeeps ==
  ASSUME IInv, NEW sender \in Accounts, NEW a \in Appointments,
         RevokeRoleNow(sender, a[1], a[2])
  PROVE  IInv'
<1> USE DEF IInv
<1>1. a[2] \in Roles
  BY TimelockAssumption DEF TimelockAssumption
<1>2. members' \in [Roles -> SUBSET Everyone] /\ SomeoneInCharge'
  BY <1>1, RevokeRoleKeeps DEF RevokeRoleNow
<1>3. TypeOK'
  BY <1>2 DEF RevokeRoleNow, TypeOK
<1>4. Scheduled'
  BY DEF RevokeRoleNow, Scheduled
<1> QED
  BY <1>2, <1>3, <1>4

LEMMA StepIInv == IInv /\ [Next]_vars => IInv'
<1> SUFFICES ASSUME IInv, [Next]_vars PROVE IInv'
  OBVIOUS
<1>1. ASSUME NEW sender \in Accounts, NEW action \in ActionKeys,
             \/ SignalPendingAction(sender, action) \/ ActAfterSignal(sender, action)
             \/ CancelAction(sender, action) \/ CallStore(sender, action)
      PROVE  IInv'
  BY <1>1, SignalKeeps, ActKeeps, CancelKeeps, CallKeeps
<1>2. ASSUME NEW sender \in Accounts, NEW a \in Appointments, RevokeRoleNow(sender, a[1], a[2])
      PROVE  IInv'
  BY <1>2, RevokeNowKeeps
<1>3. ASSUME NEW sender \in Accounts, NEW delay \in 0..MaxDelay,
             IncreaseTimelockDelay(sender, delay)
      PROVE  IInv'
  <2>1. TypeOK'
    BY <1>3, TimelockAssumption
      DEF IInv, IncreaseTimelockDelay, TypeOK, stores, TimelockAssumption
  <2> QED
    BY <1>3, <2>1 DEF IInv, IncreaseTimelockDelay, SomeoneInCharge, Scheduled, stores
<1>4. CASE Tick
  <2>1. TypeOK'
    BY <1>4 DEF IInv, Tick, TypeOK, stores
  <2> QED
    BY <1>4, <2>1 DEF IInv, Tick, SomeoneInCharge, Scheduled, stores
<1>5. CASE UNCHANGED vars
  <2>1. TypeOK'
    BY <1>5 DEF IInv, vars, TypeOK, stores
  <2> QED
    BY <1>5, <2>1 DEF IInv, vars, SomeoneInCharge, Scheduled, stores
<1> QED
  BY <1>1, <1>2, <1>3, <1>4, <1>5 DEF Next

LEMMA AlwaysIInv == Spec => []IInv
  BY InitIInv, StepIInv, PTL DEF Spec

(***************************************************************************)
(* The types of the state of Timelock, RoleStore and OracleStore, whatever *)
(* is signalled, carried out, cancelled or called directly.                *)
(***************************************************************************)
THEOREM TimelockTypeOK == Spec => []TypeOK
<1>1. IInv => TypeOK
  BY DEF IInv
<1> QED
  BY <1>1, AlwaysIInv, PTL

(***************************************************************************)
(* RoleStore.revokeRole never takes the last role admin away, nor the last *)
(* multisig, in whatever order people and the timelock use it.             *)
(***************************************************************************)
THEOREM TimelockSomeoneInCharge == Spec => []SomeoneInCharge
<1>1. IInv => SomeoneInCharge
  BY DEF IInv
<1> QED
  BY <1>1, AlwaysIInv, PTL

-----------------------------------------------------------------------------
(***************************************************************************)
(* What is carried out was announced.                                      *)
(***************************************************************************)
LEMMA ActAnnounced ==
  ASSUME IInv, NEW sender, NEW action \in ActionKeys, ActAfterSignal(sender, action)
  PROVE  Announced(action)
<1>1. pendingActions[action] # 0 /\ pendingActions[action] <= now
  BY DEF ActAfterSignal, Validate
<1>2. signalledAt[action] # Never /\ signalledAt[action] + InitialDelay <= pendingActions[action]
  BY <1>1 DEF IInv, Scheduled
<1>3. /\ now \in Nat /\ InitialDelay \in Nat /\ pendingActions[action] \in Nat
      /\ signalledAt[action] \in Nat
  BY <1>2, TimelockAssumption DEF IInv, TypeOK, TimelockAssumption
<1>4. now - signalledAt[action] >= InitialDelay
  BY <1>1, <1>2, <1>3
<1> QED
  BY <1>2, <1>4 DEF Announced

(***************************************************************************)
(* Only a role admin's grant gives somebody a role.                        *)
(***************************************************************************)
LEMMA EffectGrants ==
  ASSUME TypeOK, SomeoneInCharge, NEW by, NEW action \in ActionKeys, Effect(by, action),
         NEW account, NEW roleKey \in Roles,
         account \notin members[roleKey], account \in members'[roleKey]
  PROVE  by \in members["ROLE_ADMIN"] /\ action = Grant(account, roleKey)
<1>1. SetRole(by, action)
  BY DEF Effect, SetSetting
<1>2. by \in members["ROLE_ADMIN"]
  BY <1>1 DEF SetRole, GrantRole, RevokeRole, HasRole
<1>3. /\ action.label \in {"grantRole", "revokeRole"}
      /\ action.account \in Everyone /\ action.roleKey \in Roles
      /\ action = [label |-> action.label, account |-> action.account,
                   roleKey |-> action.roleKey]
  <2>1. action.label \in {"grantRole", "revokeRole"}
    BY <1>1 DEF SetRole
  <2> QED
    BY <2>1, RoleKeys
<1>4. ASSUME RevokeRole(by, action.account, action.roleKey) PROVE FALSE
  <2>1. \A r \in Roles : members'[r] \subseteq members[r]
    BY <1>3, <1>4, RevokeRoleKeeps
  <2> QED
    BY <2>1
<1>5. action.label = "grantRole" /\ GrantRole(by, action.account, action.roleKey)
  BY <1>1, <1>4 DEF SetRole
<1>6. members' = [members EXCEPT ![action.roleKey] = @ \cup {action.account}]
  BY <1>5 DEF GrantRole
<1>7. roleKey = action.roleKey /\ account = action.account
  BY <1>3, <1>6 DEF TypeOK
<1> QED
  BY <1>2, <1>3, <1>5, <1>7 DEF Grant

(***************************************************************************)
(* Only a controller changes the settings, each by its own kind of action. *)
(***************************************************************************)
LEMMA EffectSets ==
  ASSUME TypeOK, NEW by, NEW action \in ActionKeys, Effect(by, action),
         <<signers, feeReceiver, priceFeed>>' # <<signers, feeReceiver, priceFeed>>
  PROVE  by \in members["CONTROLLER"]
<1>1. SetSetting(by, action)
  BY DEF Effect, SetRole
<1> QED
  BY <1>1 DEF SetSetting, HasRole

LEMMA EffectSetsAsAnnounced ==
  ASSUME TypeOK, NEW by, NEW action \in ActionKeys, Effect(by, action), Announced(action)
  PROVE  /\ \A s \in Accounts :
              /\ s \in signers' \ signers
                   => Announced([label |-> "addOracleSigner", account |-> s])
              /\ s \in signers \ signers'
                   => Announced([label |-> "removeOracleSigner", account |-> s])
         /\ \A t \in Tokens : priceFeed'[t] # priceFeed[t]
              => Announced([label |-> "setPriceFeed", token |-> t, feed |-> priceFeed'[t]])
         /\ feeReceiver' # feeReceiver
              => Announced([label |-> "setFeeReceiver", account |-> feeReceiver'])
<1>1. CASE SetRole(by, action)
  BY <1>1 DEF SetRole
<1>2. CASE SetSetting(by, action)
  <2>1. CASE action.label = "addOracleSigner"
    <3>1. /\ signers' = signers \cup {action.account}
          /\ feeReceiver' = feeReceiver /\ priceFeed' = priceFeed
      BY <1>2, <2>1 DEF SetSetting
    <3>2. action = [label |-> "addOracleSigner", account |-> action.account]
      BY <2>1, SettingKeys
    <3> QED
      BY <3>1, <3>2
  <2>2. CASE action.label = "removeOracleSigner"
    <3>1. /\ signers' = signers \ {action.account}
          /\ feeReceiver' = feeReceiver /\ priceFeed' = priceFeed
      BY <1>2, <2>2 DEF SetSetting
    <3>2. action = [label |-> "removeOracleSigner", account |-> action.account]
      BY <2>2, SettingKeys
    <3> QED
      BY <3>1, <3>2
  <2>3. CASE action.label = "setFeeReceiver"
    <3>1. feeReceiver' = action.account /\ signers' = signers /\ priceFeed' = priceFeed
      BY <1>2, <2>3 DEF SetSetting
    <3>2. action = [label |-> "setFeeReceiver", account |-> action.account]
      BY <2>3, SettingKeys
    <3> QED
      BY <3>1, <3>2
  <2>4. CASE action.label = "setPriceFeed"
    <3>1. /\ priceFeed' = [priceFeed EXCEPT ![action.token] = action.feed]
          /\ signers' = signers /\ feeReceiver' = feeReceiver
      BY <1>2, <2>4 DEF SetSetting
    <3>2. /\ action.token \in Tokens
          /\ action = [label |-> "setPriceFeed", token |-> action.token, feed |-> action.feed]
      BY <2>4, SettingKeys
    <3>3. ASSUME NEW t \in Tokens, priceFeed'[t] # priceFeed[t]
          PROVE  t = action.token /\ priceFeed'[t] = action.feed
      BY <3>1, <3>2, <3>3 DEF TypeOK
    <3> QED
      BY <3>1, <3>2, <3>3
  <2> QED
    BY <1>2, <2>1, <2>2, <2>3, <2>4 DEF SetSetting
<1> QED
  BY <1>1, <1>2 DEF Effect

(***************************************************************************)
(* Where only the timelock is a role admin, nobody gets a role that was    *)
(* not announced for the delay the system was deployed with.               *)
(***************************************************************************)
THEOREM TimelockGrantsAnnounced == Spec => GrantsAnnounced
<1> DEFINE Step ==
      \A account \in Everyone, roleKey \in Roles :
        /\ members["ROLE_ADMIN"] \subseteq {TimelockAddress}
        /\ account \notin members[roleKey] /\ account \in members'[roleKey]
        => Announced(Grant(account, roleKey))
<1>1. IInv /\ [Next]_vars => [Step]_vars
  <2> SUFFICES ASSUME IInv, Next,
                      NEW account \in Everyone, NEW roleKey \in Roles,
                      members["ROLE_ADMIN"] \subseteq {TimelockAddress},
                      account \notin members[roleKey], account \in members'[roleKey]
               PROVE  Announced(Grant(account, roleKey))
    OBVIOUS
  <2>1. ASSUME NEW sender \in Accounts, NEW action \in ActionKeys, ActAfterSignal(sender, action)
        PROVE  Announced(Grant(account, roleKey))
    <3>1. action = Grant(account, roleKey)
      BY <2>1, EffectGrants DEF IInv, ActAfterSignal
    <3> QED
      BY <2>1, <3>1, ActAnnounced
  <2>2. ASSUME NEW sender \in Accounts, NEW action \in ActionKeys, CallStore(sender, action)
        PROVE  FALSE
    <3>1. sender \in members["ROLE_ADMIN"]
      BY <2>2, EffectGrants DEF IInv, CallStore
    <3> QED
      BY <3>1, TimelockAssumption DEF TimelockAssumption
  <2>3. ASSUME NEW sender \in Accounts, NEW a \in Appointments, RevokeRoleNow(sender, a[1], a[2])
        PROVE  FALSE
    <3>1. a[2] \in Roles
      BY TimelockAssumption DEF TimelockAssumption
    <3> QED
      BY <2>3, <3>1, RevokeRoleKeeps DEF IInv, RevokeRoleNow
  <2>4. members' # members
    OBVIOUS
  <2> QED
    BY <2>1, <2>2, <2>3, <2>4
      DEF Next, SignalPendingAction, CancelAction, IncreaseTimelockDelay, Tick, stores
<1>2. [][Step]_vars <=> GrantsAnnounced
  BY DEF GrantsAnnounced
<1> QED
  BY <1>1, <1>2, AlwaysIInv, PTL DEF Spec

(***************************************************************************)
(* Where only the timelock is a controller, no signer, price feed or fee   *)
(* receiver changes without being announced.                               *)
(***************************************************************************)
THEOREM TimelockSettingsAnnounced == Spec => SettingsAnnounced
<1> DEFINE Kept ==
      /\ \A s \in Accounts :
           /\ s \in signers' \ signers
                => Announced([label |-> "addOracleSigner", account |-> s])
           /\ s \in signers \ signers'
                => Announced([label |-> "removeOracleSigner", account |-> s])
      /\ \A t \in Tokens : priceFeed'[t] # priceFeed[t]
           => Announced([label |-> "setPriceFeed", token |-> t, feed |-> priceFeed'[t]])
      /\ feeReceiver' # feeReceiver
           => Announced([label |-> "setFeeReceiver", account |-> feeReceiver'])
<1> DEFINE Step == members["CONTROLLER"] \subseteq {TimelockAddress} => Kept
<1>1. IInv /\ [Next]_vars => [Step]_vars
  <2> SUFFICES ASSUME IInv, Next, members["CONTROLLER"] \subseteq {TimelockAddress}
               PROVE  Kept
    OBVIOUS
  <2>1. CASE signers' = signers /\ feeReceiver' = feeReceiver /\ priceFeed' = priceFeed
    BY <2>1
  <2>2. CASE <<signers, feeReceiver, priceFeed>>' # <<signers, feeReceiver, priceFeed>>
    <3>1. ASSUME NEW sender \in Accounts, NEW action \in ActionKeys,
                 ActAfterSignal(sender, action)
          PROVE  Kept
      <4>1. Effect(TimelockAddress, action) /\ Announced(action) /\ TypeOK
        BY <3>1, ActAnnounced DEF IInv, ActAfterSignal
      <4> QED
        BY <4>1, EffectSetsAsAnnounced
    <3>2. ASSUME NEW sender \in Accounts, NEW action \in ActionKeys, CallStore(sender, action)
          PROVE  FALSE
      <4>1. sender \in members["CONTROLLER"]
        BY <2>2, <3>2, EffectSets DEF IInv, CallStore
      <4> QED
        BY <4>1, TimelockAssumption DEF TimelockAssumption
    <3> HIDE DEF Kept
    <3> QED
      BY <2>2, <3>1, <3>2
        DEF Next, SignalPendingAction, CancelAction, RevokeRoleNow, IncreaseTimelockDelay,
            Tick, stores
  <2> QED
    BY <2>1, <2>2
<1>2. [][Step]_vars <=> SettingsAnnounced
  BY DEF SettingsAnnounced
<1> QED
  BY <1>1, <1>2, AlwaysIInv, PTL DEF Spec

-----------------------------------------------------------------------------
(***************************************************************************)
(* The timelock without its CONTROLLER role, and nobody else who could     *)
(* give it back.  The multisig can bring this about, for RoleStore.        *)
(* revokeRole protects only the role admins and the multisigs.             *)
(***************************************************************************)
LockedOut == members["ROLE_ADMIN"] \subseteq {TimelockAddress} /\ ~CanLog

Stands ==
  /\ \A r \in Roles : members'[r] \subseteq members[r]
  /\ pendingActions' = pendingActions

LEMMA LockedOutCall ==
  ASSUME IInv, LockedOut, NEW sender \in Accounts, NEW action \in ActionKeys,
         CallStore(sender, action)
  PROVE  Stands
<1>1. sender \notin members["ROLE_ADMIN"]
  BY TimelockAssumption DEF LockedOut, TimelockAssumption
<1>2. ~SetRole(sender, action)
  BY <1>1 DEF SetRole, GrantRole, RevokeRole, HasRole
<1>3. members' = members
  BY <1>2 DEF CallStore, Effect, SetSetting
<1> QED
  BY <1>3 DEF CallStore, Stands

LEMMA LockedOutStands == IInv /\ LockedOut /\ [Next]_vars => Stands
<1> SUFFICES ASSUME IInv, LockedOut, [Next]_vars PROVE Stands
  OBVIOUS
<1>1. ASSUME NEW sender \in Accounts, NEW action \in ActionKeys,
             \/ SignalPendingAction(sender, action) \/ ActAfterSignal(sender, action)
             \/ CancelAction(sender, action)
      PROVE  FALSE
  BY <1>1 DEF LockedOut, SignalPendingAction, ActAfterSignal, CancelAction, Clear
<1>2. ASSUME NEW sender \in Accounts, NEW a \in Appointments, RevokeRoleNow(sender, a[1], a[2])
      PROVE  Stands
  <2>1. a[2] \in Roles
    BY TimelockAssumption DEF TimelockAssumption
  <2> QED
    BY <1>2, <2>1, RevokeRoleKeeps DEF IInv, RevokeRoleNow, Stands
<1>3. ASSUME NEW sender \in Accounts, NEW delay \in 0..MaxDelay,
             IncreaseTimelockDelay(sender, delay)
      PROVE  Stands
  BY <1>3 DEF IncreaseTimelockDelay, stores, Stands
<1>4. CASE Tick
  BY <1>4 DEF Tick, stores, Stands
<1>5. CASE UNCHANGED vars
  BY <1>5 DEF vars, stores, Stands
<1> QED
  BY <1>1, <1>2, <1>3, <1>4, <1>5, LockedOutCall DEF Next

(***************************************************************************)
(* Nothing leads back.  Once the timelock is the only role admin and has   *)
(* lost CONTROLLER, that is so for good: nobody ever gets a role again,    *)
(* and the signals that stand are neither carried out nor cancelled.       *)
(***************************************************************************)
THEOREM TimelockLockedOut == Spec => [][LockedOut => LockedOut' /\ Stands]_vars
<1>1. Stands /\ LockedOut => LockedOut'
  BY TimelockAssumption DEF Stands, LockedOut, CanLog, HasRole, TimelockAssumption
<1>2. IInv /\ [Next]_vars => [LockedOut => LockedOut' /\ Stands]_vars
  BY <1>1, LockedOutStands
<1> QED
  BY <1>2, AlwaysIInv, PTL DEF Spec
=============================================================================
