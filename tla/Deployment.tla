---------------------------- MODULE Deployment ----------------------------
(* Runs of the deployment scripts (utils/deploy.ts, utils/role.ts,           *)
(* utils/dataStore.ts) against the chain and the record of deployments that  *)
(* hardhat-deploy keeps, while the exchange they build is in use.            *)
(* A run goes through the plan of a release, a sequence of steps that MODULE *)
(* DeployScripts computes from the scripts. It may crash after any           *)
(* transaction and be started again; between runs the team may move to the   *)
(* next release, with other code and another configuration. One operator     *)
(* runs the scripts, so what a script reads stays true until it writes;      *)
(* only the trades of the users happen between the two.                      *)
EXTENDS Sequences, FiniteSets, LedgerSum

CONSTANTS
  Releases,    \* versions of the code and the configuration
  Plan,        \* Plan[r] is the sequence of steps of a run of release r
  Code,        \* Code[r][n] is the version of the code of contract n
  Successors,  \* Successors[r] is the set of releases that may follow r
  Fresh,       \* the releases that may be deployed to an empty chain
  Existing,    \* the releases that may be found deployed already
  Contracts,   \* the names under which contracts are recorded
  Keys,        \* the storage keys, each a sequence that starts with a contract
  Operator,    \* the account that runs the scripts
  HoldingKeys, \* the pools and open interests users change: a sequence of <<kind, market>>
  VirtualIds,  \* the virtual inventories, <<kind, virtual id>>
  OpenKey,     \* OpenKey[h] is the cap that must be set for h to change
  IdKey,       \* IdKey[h] is the key of the virtual id of h
  Guards,      \* pairs of keys: where the first is set, the second must be
  NeededKeys,  \* the keys that must be set for a router to work
  EstimateKeys, \* the gas limits GasUtils reads when it estimates a fee
  Signers,     \* the keys of the accounts that may be oracle signers
  MinSignersKey, \* the key of the number of signatures a price needs
  MaxHolding,  \* bound: how far trades move a holding
  MaxTraded,   \* bound: how many holdings are not at zero
  MaxCrashes   \* bound: how often a run crashes

(***************************************************************************)
(* What a plan must be                                                      *)
(***************************************************************************)
NumHoldings == Len(HoldingKeys)
Holdings == {HoldingKeys[i] : i \in 1..NumHoldings}

LastStep(r) == Len(Plan[r])
Steps(r) == {Plan[r][i] : i \in 1..LastStep(r)}
Earlier(r, j) == {Plan[r][i] : i \in 1..j-1}

Deploys(s, n) == s.op = "deploy" /\ s.name = n
Grants(s, registry, account, role) ==
  s.op = "grant" /\ s.at = registry /\ s.account = account /\ s.role = role
Sets(s, key) == s.op = "set" /\ s.key = key

(* MarketStoreUtils enters a market in the list of markets. *)
OnList(m) == <<"DataStore", "MARKET_LIST", m>>

(* The step reads the recorded instance of n, or records it. *)
Mentions(s, n) ==
  \/ s.op = "deploy" /\ n \in s.uses \cup {s.name}
  \/ s.op = "grant" /\ n \in {s.at, s.account}
  \/ s.op = "set" /\ n = s.key[1]

StepTyped(s) ==
  /\ s.op \in {"deploy", "grant", "set", "read", "fix", "finish", "throw"}
  /\ s.op = "deploy" => s.name \in Contracts /\ s.uses \subseteq Contracts
  /\ s.op = "grant" => s.at \in Contracts
  /\ s.op = "set" => s.key \in Keys /\ s.key[1] \in Contracts /\ s.value \in Int
  /\ s.op \in {"read", "fix"} => s.of \in VirtualIds
  /\ s.op = "read" => <<s.of[1], s.market>> \in Holdings

PlansTyped ==
  /\ Fresh \cup Existing \subseteq Releases
  /\ MaxHolding \in Nat /\ MaxCrashes \in Nat /\ HoldingKeys \in Seq(Holdings)
  /\ Operator \notin Contracts /\ "ExchangeRouter" \in Contracts
  /\ \A r \in Releases :
       /\ Successors[r] \subseteq Releases
       /\ Plan[r] \in Seq(Steps(r))
       /\ \A s \in Steps(r) : StepTyped(s)

(* hardhat-deploy runs a script after those of the contracts it needs: a     *)
(* contract is deployed after what it is built on, and before any step that  *)
(* reads its recorded instance.                                              *)
DeployedBeforeUse ==
  \A r \in Releases : \A j \in 1..LastStep(r) : Plan[r][j].op = "deploy" =>
    /\ \A u \in Plan[r][j].uses : \E s \in Earlier(r, j) : Deploys(s, u)
    /\ Plan[r][j].name \notin Plan[r][j].uses
    /\ \A s \in Earlier(r, j) : ~Mentions(s, Plan[r][j].name)

(* A setting has one value in a release, also where two markets, or the two  *)
(* sides of one, share it.                                                   *)
OneValuePerKey ==
  \A r \in Releases :
    LET sets == {s \in Steps(r) : s.op = "set"}
    IN  \A s, t \in sets : s.key = t.key => s.value = t.value

(* The scripts that run once are recorded at their end. *)
RecordedAtTheEnd ==
  \A r \in Releases : \A j \in 1..LastStep(r) : Plan[r][j].op \in {"read", "fix"} =>
    \E i \in j+1..LastStep(r) : Plan[r][i].op = "finish" /\ Plan[r][i].id = Plan[r][j].id

(* What a call needs is there before it: the contract, the role that the     *)
(* contract asks of the deployer, and one of the markets it is about.        *)
ServedCalls ==
  \A r \in Releases : \A j \in 1..LastStep(r) :
    LET s == Plan[r][j]
        done == Earlier(r, j)
    IN  /\ s.op = "grant" =>
             /\ s.by \in {"none", "ROLE_ADMIN"}
             /\ \A n \in {s.at, s.account} \cap Contracts : \E d \in done : Deploys(d, n)
        /\ s.op = "set" =>
             /\ \E d \in done : Deploys(d, s.key[1])
             /\ s.by # "none" => \E g \in done : Grants(g, "RoleStore", Operator, s.by)
             /\ s.listed # {} => \E m \in s.listed, t \in done : Sets(t, OnList(m)) /\ t.value = 1

(* No script grants the role that the deployer is to give up. *)
NoAdminGranted ==
  \A r \in Releases : \A s \in Steps(r) : ~Grants(s, "RoleStore", Operator, "ROLE_ADMIN")

(* By then contract n may act: it is built on a role store that has granted  *)
(* it the role of a controller.                                              *)
MayAct(done, n) ==
  /\ \E s \in done : Deploys(s, n) /\ "RoleStore" \in s.uses
  /\ \E s \in done : Grants(s, "RoleStore", n, "CONTROLLER")

Handlers == {"DepositHandler", "WithdrawalHandler", "OrderHandler"}

ReadyToServe(done, h) ==
  /\ MayAct(done, h)
  /\ \A s \in done : Deploys(s, h) => \A u \in s.uses :
       /\ u \in {"Oracle", "SwapHandler"} => MayAct(done, u)
       /\ u = "ReferralStorage" => \E g \in done : Grants(g, u, h, "handler")

Added(r) == {k \in Signers : \E s \in Steps(r) : Sets(s, k) /\ s.value = 1}
AllAdded(r, done) == \A k \in Added(r) : \E s \in done : Sets(s, k)

(* A router is granted its roles last of all that it depends on. *)
RoutersLast ==
  \A r \in Releases : \A j \in 1..LastStep(r) :
    LET s == Plan[r][j]
        done == Earlier(r, j)
    IN  s.op = "grant" /\ s.account = "ExchangeRouter" /\ s.role \in {"CONTROLLER", "ROUTER_PLUGIN"} =>
          /\ \E d \in done : Deploys(d, "ExchangeRouter")
                /\ \A h \in d.uses \cap Handlers : ReadyToServe(done, h)
          /\ \A k \in NeededKeys : \E t \in done : Sets(t, k)
          /\ AllAdded(r, done)

NeededKeysSet ==
  /\ NeededKeys \subseteq Keys /\ \A k \in NeededKeys : k[1] = "DataStore"
  /\ \A r \in Releases : \A s \in Steps(r) : s.op = "set" /\ s.key \in NeededKeys => s.value # 0

(* What limits a market is set before what opens it. *)
GuardsFirst ==
  /\ \A p \in Guards : p[1] \in Keys /\ p[2] \in Keys /\ p[1][1] = p[2][1]
  /\ \A r \in Releases : \A j \in 1..LastStep(r) : \A p \in Guards :
       LET s == Plan[r][j]
       IN  /\ Sets(s, p[2]) => s.value # 0
           /\ Sets(s, p[1]) /\ s.value # 0 => \E t \in Earlier(r, j) : Sets(t, p[2])

(* A signer is removed after others are added, and the signers of every      *)
(* release suffice for every release.                                        *)
SignersAddedFirst ==
  /\ IsFiniteSet(Signers) /\ Signers \subseteq Keys /\ \A k \in Signers : k[1] = "OracleStore"
  /\ MinSignersKey \in Keys
  /\ \A r \in Releases : \A j \in 1..LastStep(r) :
       LET s == Plan[r][j]
       IN  /\ s.op = "set" /\ s.key \in Signers /\ s.value # 1 => AllAdded(r, Earlier(r, j))
           /\ Sets(s, MinSignersKey) => \A q \in Releases : s.value <= Cardinality(Added(q))

DeployStep(r, n) == CHOOSE s \in Steps(r) : Deploys(s, n)
SetStep(r, k) == CHOOSE s \in Steps(r) : Sets(s, k)

(* The virtual id that the configuration gives a holding; 0 is none. *)
ConfiguredId(r, h) ==
  IF \E s \in Steps(r) : Sets(s, IdKey[h]) THEN SetStep(r, IdKey[h]).value ELSE 0

(* The virtual inventory that the configuration puts a holding under. *)
Configured(r, h) == <<h[1], ConfiguredId(r, h)>>

(* A market is opened only if it is on the list, and is not taken off it. *)
ListedToOpen ==
  \A h \in Holdings :
    /\ {OpenKey[h], IdKey[h], OnList(h[2])} \subseteq Keys
    /\ \A k \in {OpenKey[h], IdKey[h], OnList(h[2])} : k[1] = "DataStore"
    /\ \A r \in Releases : \A s \in Steps(r) :
         /\ Sets(s, OpenKey[h]) => s.listed = {h[2]}
         /\ Sets(s, OnList(h[2])) => s.value = 1

(* What has been added up when step j is to be taken. *)
Gathered(r, j) ==
  {<<Plan[r][i].of[1], Plan[r][i].market>> :
     i \in {i \in 1..j-1 : \A l \in i..j-1 : Plan[r][l].op = "read" /\ Plan[r][l].of = Plan[r][j].of}}

(* A fix script adds up, in one go, the markets whose configuration has the  *)
(* virtual id: all of them, no other, and none twice.                        *)
FixesWhole ==
  /\ \A i, j \in 1..NumHoldings : HoldingKeys[i] = HoldingKeys[j] => i = j
  /\ \A v \in VirtualIds : v[2] # 0
  /\ \A r \in Releases : \A j \in 1..LastStep(r) :
       LET s == Plan[r][j]
           h == <<s.of[1], s.market>>
           next == Plan[r][j + 1]
       IN  /\ s.op = "read" =>
                /\ j < LastStep(r) /\ next.op \in {"read", "fix"} /\ next.of = s.of /\ next.id = s.id
                /\ Configured(r, h) = s.of /\ h \notin Gathered(r, j)
           /\ s.op = "fix" => \A g \in Holdings : Configured(r, g) = s.of => g \in Gathered(r, j)

ASSUME DeploymentAssumption ==
  /\ PlansTyped
  /\ DeployedBeforeUse
  /\ OneValuePerKey
  /\ RecordedAtTheEnd
  /\ ServedCalls
  /\ NoAdminGranted
  /\ RoutersLast
  /\ NeededKeysSet
  /\ GuardsFirst
  /\ SignersAddedFirst
  /\ ListedToOpen
  /\ FixesWhole

VARIABLES
  release,     \* the release that is checked out
  pc,          \* the next step of the run; 0 when no run is going on
  deployed,    \* deployed[n]: the instances of n, the last one is the recorded
  roles,       \* the permissions granted: registry, account and role
  store,       \* the storage the scripts write, of the recorded contracts
  migrations,  \* the scripts recorded as never to run again
  total,       \* the totals a fix script is computing
  held,        \* what the pools, and the net short positions, amount to
  inventory,   \* the virtual inventories
  raced,       \* those of which users traded while a script added them up
  crashes      \* crashes so far

scriptVars == <<deployed, roles, store, migrations, total, inventory>>
vars == <<release, pc, deployed, roles, store, migrations, total, held, inventory, raced,
          crashes>>

running == pc \in 1..LastStep(release)
finished == pc = LastStep(release) + 1
step == Plan[release][pc]

(***************************************************************************)
(* What the scripts read                                                    *)
(***************************************************************************)
(* The recorded instance of a contract is its last one, none is number 0;    *)
(* an account that is not a contract is always number 0.                     *)
Instance(n) == IF n \in Contracts THEN <<n, Len(deployed[n])>> ELSE <<n, 0>>

Build_NotYetThere(n, uses) ==
  [code |-> Code[release][n], uses |-> {<<u, Len(deployed[u]) + 1>> : u \in uses}]

(* What deploy would put on chain: this release's code, linked to and called *)
(* with the recorded instances of the contracts it uses.                     *)
Build(n, uses) == [code |-> Code[release][n], uses |-> {Instance(u) : u \in uses}]

Granted(registry, account, role) == <<registry, account, role>> \in roles

(* A call that the chain takes from the deployer: of a contract whose        *)
(* functions ask for a role, the deployer holds it.                          *)
Allowed(s) ==
  s.by # "none" => Granted(Instance("RoleStore"), <<Operator, 0>>, s.by)

(* What the step is there to bring about is already so, and the step sends   *)
(* no transaction. A read, too, is passed over once its script has run.      *)
Holds(s) ==
  \/ /\ s.op = "deploy" /\ deployed[s.name] # <<>>
     /\ deployed[s.name][Len(deployed[s.name])] = Build(s.name, s.uses)
  \/ s.op = "grant" /\ Granted(Instance(s.at), Instance(s.account), s.role)
  \/ s.op = "set" /\ store[s.key] = s.value
  \/ s.op \in {"read", "fix", "finish"} /\ s.id \in migrations

(* A market that is on chain. *)
Listed(m) == store[OnList(m)] = 1

(* The step, or the script before it, throws: no such deployment is recorded, *)
(* no market that it needs is on chain, or the chain reverts the call.       *)
Throws(s) ==
  \/ s.op = "deploy" /\ \E u \in s.uses : deployed[u] = <<>>
  \/ s.op = "grant" /\ ~Holds(s) /\ (deployed[s.at] = <<>> \/ ~Allowed(s))
  \/ /\ s.op = "set"
     /\ \/ deployed[s.key[1]] = <<>>
        \/ s.listed # {} /\ \A m \in s.listed : ~Listed(m)
        \/ ~Holds(s) /\ ~Allowed(s)
  \/ s.op = "read" /\ ~Holds(s) /\ \A m \in s.listed : ~Listed(m)
  \/ s.op = "throw"

(***************************************************************************)
(* The initial states                                                       *)
(***************************************************************************)
NoTotals == [v \in VirtualIds |-> 0]

(* Nothing is on chain. *)
EmptyChain ==
  /\ deployed = [n \in Contracts |-> <<>>]
  /\ roles = {}
  /\ store = [k \in Keys |-> 0]
  /\ migrations = {}

(* The release found on chain is what a run of it leaves; of the scripts     *)
(* that run once, all have been recorded or none.                            *)
FirstInstance(n) == IF n \in Contracts THEN <<n, 1>> ELSE <<n, 0>>

ChainOf(r) ==
  /\ deployed = [n \in Contracts |->
       IF \E s \in Steps(r) : Deploys(s, n)
         THEN << [code |-> Code[r][n], uses |-> {FirstInstance(u) : u \in DeployStep(r, n).uses}] >>
         ELSE <<>>]
  /\ roles = {<<FirstInstance(s.at), FirstInstance(s.account), s.role>> :
                 s \in {t \in Steps(r) : t.op = "grant"}}
               \cup {<< <<"RoleStore", 1>>, <<Operator, 0>>, "ROLE_ADMIN" >>}
  /\ store = [k \in Keys |-> IF \E s \in Steps(r) : Sets(s, k) THEN SetStep(r, k).value ELSE 0]
  /\ migrations \in {{}, {s.id : s \in {t \in Steps(r) : t.op = "finish"}}}

Init ==
  /\ \/ release \in Fresh /\ EmptyChain
     \/ release \in Existing /\ ChainOf(release)
  /\ pc = 0
  /\ total = NoTotals
  /\ held = [h \in Holdings |-> 0]
  /\ inventory = NoTotals
  /\ raced = {}
  /\ crashes = 0

(***************************************************************************)
(* The run                                                                  *)
(***************************************************************************)
Start ==
  /\ ~running
  /\ pc' = 1
  /\ UNCHANGED <<release, scriptVars, held, raced, crashes>>

NothingToDo_DeployedOnce(s) ==
  /\ Holds(s) \/ (s.op = "deploy" /\ deployed[s.name] # <<>>)
  /\ ~Throws(s)

NothingToDo_GrantedOnce(s) ==
  /\ \/ Holds(s)
     \/ /\ s.op = "grant"
        /\ \E g \in roles : g[1] = Instance(s.at) /\ g[2][1] = s.account /\ g[3] = s.role
  /\ ~Throws(s)

(* Steps that find nothing to do are passed over. *)
NothingToDo(s) == Holds(s) /\ ~Throws(s)

Pass_AsFailure ==
  /\ running /\ NothingToDo(step)
  /\ pc' = 0
  /\ total' = NoTotals
  /\ UNCHANGED <<release, deployed, roles, store, migrations, held, inventory, raced, crashes>>

Pass ==
  /\ running /\ NothingToDo(step)
  /\ pc' = CHOOSE i \in pc + 1..LastStep(release) + 1 :
             /\ i <= LastStep(release) => ~NothingToDo(Plan[release][i])
             /\ \A j \in pc..i - 1 : NothingToDo(Plan[release][j])
  /\ UNCHANGED <<release, scriptVars, held, raced, crashes>>

(* A step that has something to do, and can. *)
Pending(op) == running /\ step.op = op /\ ~Holds(step) /\ ~Throws(step)
Advance == pc' = pc + 1 /\ UNCHANGED <<release, held, raced, crashes>>

(* A new instance starts with empty storage; a new role store makes its      *)
(* creator the administrator of roles.                                       *)
Deploy ==
  /\ Pending("deploy")
  /\ deployed' = [deployed EXCEPT ![step.name] = Append(@, Build(step.name, step.uses))]
  /\ IF step.name = "DataStore"
       THEN held' = [h \in Holdings |-> 0] /\ inventory' = NoTotals
       ELSE UNCHANGED <<held, inventory>>
  /\ store' = IF \E k \in Keys : k[1] = step.name
                THEN [k \in Keys |-> IF k[1] = step.name THEN 0 ELSE store[k]]
                ELSE store
  /\ roles' = roles \cup
       (IF step.name = "RoleStore"
          THEN {<< <<"RoleStore", Len(deployed["RoleStore"]) + 1>>, <<Operator, 0>>, "ROLE_ADMIN" >>}
          ELSE {})
  /\ pc' = pc + 1
  /\ UNCHANGED <<release, migrations, total, raced, crashes>>

GrantRole ==
  /\ Pending("grant")
  /\ roles' = roles \cup {<<Instance(step.at), Instance(step.account), step.role>>}
  /\ Advance
  /\ UNCHANGED <<deployed, store, migrations, total, inventory>>

SetIfDifferent_LastFirst ==
  /\ Pending("set")
  /\ LET Left(i) == ~Holds(Plan[release][i]) /\ \A j \in pc..i : Plan[release][j].op = "set"
         last == CHOOSE i \in pc..LastStep(release) :
                   Left(i) /\ \A j \in i + 1..LastStep(release) : ~Left(j)
         s == Plan[release][last]
     IN  /\ store' = [store EXCEPT ![s.key] = s.value]
         /\ pc' = IF last = pc THEN pc + 1 ELSE pc
  /\ UNCHANGED <<release, deployed, roles, migrations, total, held, inventory, raced, crashes>>

SetIfDifferent_NextFirst ==
  /\ Pending("set")
  /\ LET next == IF pc < LastStep(release) THEN Plan[release][pc + 1] ELSE step
         s == IF next.op = "set" /\ ~Holds(next) THEN next ELSE step
     IN  /\ store' = [store EXCEPT ![s.key] = s.value]
         /\ pc' = IF s = step THEN pc + 1 ELSE pc
  /\ UNCHANGED <<release, deployed, roles, migrations, total, held, inventory, raced, crashes>>

SetIfDifferent ==
  /\ Pending("set")
  /\ store' = [store EXCEPT ![step.key] = step.value]
  /\ Advance
  /\ UNCHANGED <<deployed, roles, migrations, total, inventory>>

(* A fix script adds up what the markets hold, one call after another... *)
ReadHolding ==
  /\ Pending("read")
  /\ total' = [total EXCEPT ![step.of] =
       @ + IF Listed(step.market) THEN held[<<step.of[1], step.market>>] ELSE 0]
  /\ Advance
  /\ UNCHANGED <<deployed, roles, store, migrations, inventory>>

(* ...and makes the sum the virtual inventory. *)
SetInventory_Added ==
  /\ Pending("fix")
  /\ inventory' = [inventory EXCEPT ![step.of] = @ + total[step.of]]
  /\ total' = [total EXCEPT ![step.of] = 0]
  /\ Advance
  /\ UNCHANGED <<deployed, roles, store, migrations>>

SetInventory ==
  /\ Pending("fix")
  /\ inventory' = [inventory EXCEPT ![step.of] = total[step.of]]
  /\ total' = [total EXCEPT ![step.of] = 0]
  /\ Advance
  /\ UNCHANGED <<deployed, roles, store, migrations>>

RecordMigration ==
  /\ Pending("finish")
  /\ migrations' = migrations \cup {step.id}
  /\ Advance
  /\ UNCHANGED <<deployed, roles, store, total, inventory>>

Fail ==
  /\ running /\ Throws(step)
  /\ pc' = 0
  /\ total' = NoTotals
  /\ UNCHANGED <<release, deployed, roles, store, migrations, held, inventory, raced, crashes>>

RunStep ==
  Pass \/ Deploy \/ GrantRole \/ SetIfDifferent \/ ReadHolding \/ SetInventory
    \/ RecordMigration \/ Fail

(***************************************************************************)
(* The surroundings                                                         *)
(***************************************************************************)
(* The process stops between two transactions: hardhat-deploy records each   *)
(* deployment when its transaction is mined.                                 *)
Crash ==
  /\ running /\ crashes < MaxCrashes
  /\ pc' = 0
  /\ total' = NoTotals
  /\ crashes' = crashes + 1
  /\ UNCHANGED <<release, deployed, roles, store, migrations, held, inventory, raced>>

NextRelease ==
  /\ ~running
  /\ \E r \in Successors[release] : release' = r
  /\ pc' = 0
  /\ UNCHANGED <<scriptVars, held, raced, crashes>>

(* The administrators of the timelock take ROLE_ADMIN from the deployer.     *)
HandOver ==
  /\ finished
  /\ roles' = roles \ {<<Instance("RoleStore"), <<Operator, 0>>, "ROLE_ADMIN">>}
  /\ roles' # roles
  /\ UNCHANGED <<release, pc, deployed, store, migrations, total, held, inventory, raced, crashes>>

(* What an instance was put on chain as; its roles, in the registry it asks. *)
Built(i) == deployed[i[1]][i[2]]

HasRole(i, role) == \E u \in Built(i).uses : u[1] = "RoleStore" /\ Granted(u, i, role)

(* A router is in service once it is granted its two roles. *)
Routers == {<<"ExchangeRouter", g>> : g \in 1..Len(deployed["ExchangeRouter"])}

InService(r) == HasRole(r, "CONTROLLER") /\ HasRole(r, "ROUTER_PLUGIN")

(* It works on the storage that the scripts configure. *)
OnRecordedStore(r) == Instance("DataStore") \in Built(r).uses

(* The virtual inventory that h belongs to, if its id is not zero. *)
IdOf(h) == <<h[1], store[IdKey[h]]>>

(* A deposit, a withdrawal, a swap or a change of a position moves what a     *)
(* market holds, and with it the virtual inventory of the market or token if *)
(* it has an id by now. The inventory of swaps stops at zero.                *)
Trade ==
  /\ \E r \in Routers : InService(r) /\ OnRecordedStore(r)
  /\ \E h \in Holdings, d \in {-1, 1} :
       /\ store[OpenKey[h]] # 0
       /\ held[h] + d \in (IF h[1] = "swaps" THEN 0 ELSE -MaxHolding)..MaxHolding
       /\ held' = [held EXCEPT ![h] = @ + d]
       /\ Cardinality({x \in Holdings : held'[x] # 0}) <= MaxTraded
       /\ inventory' =
            IF store[IdKey[h]] = 0 THEN inventory
            ELSE [inventory EXCEPT ![IdOf(h)] =
                    IF h[1] = "swaps" /\ @ + d < 0 THEN 0 ELSE @ + d]
       /\ raced' = raced \cup
            (IF running /\ step.op \in {"read", "fix"} THEN {step.of} \cap {IdOf(h)} ELSE {})
  /\ UNCHANGED <<release, pc, deployed, roles, store, migrations, total, crashes>>

Next == Start \/ RunStep \/ Crash \/ NextRelease \/ HandOver \/ Trade

Spec == Init /\ [][Next]_vars

(* A run goes on unless it crashes, and a run that did not get to its end is *)
(* started again.                                                            *)
Fairness == WF_vars(RunStep) /\ WF_vars(pc = 0 /\ Start)

FairSpec == Spec /\ Fairness

(***************************************************************************)
(* Properties                                                               *)
(***************************************************************************)
TypeOK ==
  /\ release \in Releases
  /\ pc \in 0..LastStep(release) + 1
  /\ \A n \in Contracts : \A g \in 1..Len(deployed[n]) :
       \A u \in deployed[n][g].uses : u[1] \in Contracts /\ u[2] \in 1..Len(deployed[u[1]])
  /\ store \in [Keys -> Int]
  /\ held \in [Holdings -> -MaxHolding..MaxHolding]
  /\ inventory \in [VirtualIds -> Int] /\ total \in [VirtualIds -> Int]
  /\ raced \subseteq VirtualIds
  /\ crashes \in 0..MaxCrashes

(* When a run gets to its end, no step of it would find anything to do if it *)
(* were looked at again: every recorded contract is this release's code,     *)
(* built on the recorded instances of what it uses, every role is granted to *)
(* the recorded instance, every setting, signer and market is as configured. *)
(* So no script undoes what another did, whatever was on chain when the run  *)
(* began: the leavings of crashed runs, or of other releases.                *)
DoneMeansConfigured == finished => \A s \in Steps(release) : Holds(s)

(* A router that users can reach has handlers that may act, with a swap      *)
(* handler and an oracle that may act, registered with the referral storage; *)
(* on the storage that the scripts configure it finds the settings it needs. *)
(* Through crashes, redeployments and the routers of earlier releases.       *)
Serves(h) ==
  /\ HasRole(h, "CONTROLLER")
  /\ \A u \in Built(h).uses :
       /\ u[1] \in {"Oracle", "SwapHandler"} => HasRole(u, "CONTROLLER")
       /\ u[1] = "ReferralStorage" => Granted(u, h, "handler")

RoutersAreServed ==
  \A r \in Routers : InService(r) =>
    /\ \A h \in Built(r).uses : h[1] \in Handlers => Serves(h)
    /\ OnRecordedStore(r) => \A k \in NeededKeys : store[k] # 0

(* A market is never open without its guard: where a reserve factor lets     *)
(* positions be opened, the minimum collateral and the open interest are     *)
(* limited, and where a pool may receive a token, the token may be sent and  *)
(* has a kind of price.                                                      *)
MarketsAreGuarded == \A p \in Guards : store[p[1]] # 0 => store[p[2]] # 0

(* While a router is in service whose prices are checked against the store   *)
(* of signers the scripts maintain, there are signers enough to sign a       *)
(* price, also while one set of signers replaces another.                    *)
AsksSigners(r) ==
  \E h \in Built(r).uses : h[1] \in Handlers
    /\ \E o \in Built(h).uses : o[1] = "Oracle" /\ Instance("OracleStore") \in Built(o).uses

EnoughSigners ==
  (\E r \in Routers : InService(r) /\ OnRecordedStore(r) /\ AsksSigners(r)) =>
    Cardinality({k \in Signers : store[k] = 1}) >= store[MinSignersKey]

(* A virtual inventory is what the markets with its id hold together, unless *)
(* users traded while a fix script added it up: the fix scripts leave it     *)
(* right on a chain that is in use, also when a run stops in the middle of   *)
(* one and is started again.                                                 *)
HeldUnder(v) ==
  SumTo([i \in 1..NumHoldings |-> IF IdOf(HoldingKeys[i]) = v THEN held[HoldingKeys[i]] ELSE 0],
        NumHoldings)

InventoryMatches == \A v \in VirtualIds \ raced : inventory[v] = HeldUnder(v)

(* README.md:482: "Virtual IDs must be set on market creation / token        *)
(* whitelisting, if it is set after trading for the token / market is done,  *)
(* the tracking would not be accurate".  What users hold in a market is held *)
(* under the virtual id that the configuration gives it.                     *)
IdsBeforeTrade == \A h \in Holdings : held[h] # 0 => store[IdKey[h]] = ConfiguredId(release, h)

(* README.md:396: "Execution fees are also estimated and accounted for on    *)
(* creation of deposit, withdrawal, order requests". The limits that the     *)
(* estimates are made of are among the settings of a configured exchange.    *)
EstimatesHaveLimits ==
  finished /\ (\E r \in Routers : InService(r) /\ OnRecordedStore(r)) =>
    \A k \in EstimateKeys : store[k] # 0

(* A script that runs once waits for a market that is not on chain, and that *)
(* the run would only create at its end.                                     *)
Blocked ==
  \E s \in Steps(release) :
    s.op = "read" /\ ~Holds(s) /\ \A m \in s.listed : ~Listed(m)

(* If crashes come to an end, a run gets to the end of its plan, unless it   *)
(* is blocked by a script that runs once, or the deployer has given up the   *)
(* role it needs to grant the others.                                        *)
Completes ==
  \/ []<>finished
  \/ <>[]Blocked
  \/ <>[]~Granted(Instance("RoleStore"), <<Operator, 0>>, "ROLE_ADMIN")
=============================================================================
