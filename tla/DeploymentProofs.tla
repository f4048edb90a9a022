------------------------- MODULE DeploymentProofs -------------------------
(***************************************************************************)
(* The safety of the deployment scripts, for every plan that meets         *)
(* DeploymentAssumption, any number of releases and of crashes.            *)
(*                                                                         *)
(* The invariant that carries the proofs is DoneSoFar: the steps that the  *)
(* run has behind it would find nothing to do, whatever was on chain when  *)
(* it started.  What a plan puts earlier therefore holds when a later step *)
(* is taken, and the order of a plan becomes a fact about the chain.       *)
(***************************************************************************)
EXTENDS Deployment, LedgerSumProofs, TLAPS

-----------------------------------------------------------------------------
(* Plans *)

LEMMA PlanSteps ==
  ASSUME NEW r \in Releases
  PROVE  /\ LastStep(r) \in Nat
         /\ \A i \in 1..LastStep(r) : Plan[r][i] \in Steps(r) /\ StepTyped(Plan[r][i])
<1>1. Plan[r] \in Seq(Steps(r)) /\ \A s \in Steps(r) : StepTyped(s)
  BY DeploymentAssumption DEF PlansTyped
<1>2. LastStep(r) \in Nat
  BY <1>1 DEF LastStep
<1>3. \A i \in 1..LastStep(r) : Plan[r][i] \in Steps(r)
  BY DEF Steps
<1>4. QED
  BY <1>1, <1>2, <1>3

LEMMA EarlierSteps ==
  ASSUME NEW r \in Releases, NEW j \in 1..LastStep(r), NEW s \in Earlier(r, j)
  PROVE  /\ \E i \in 1..j-1 : s = Plan[r][i]
         /\ s \in Steps(r)
<1>1. LastStep(r) \in Nat
  BY PlanSteps
<1>2. PICK i \in 1..j-1 : s = Plan[r][i]
  BY DEF Earlier
<1>3. i \in 1..LastStep(r)
  BY <1>1, <1>2
<1>4. QED
  BY <1>2, <1>3, PlanSteps

(***************************************************************************)
(* A contract is deployed by one step of a plan.                           *)
(***************************************************************************)
LEMMA DeployedOnce ==
  ASSUME NEW r \in Releases, NEW s \in Steps(r), NEW t \in Steps(r),
         s.op = "deploy", t.op = "deploy", s.name = t.name
  PROVE  s = t
<1>1. PICK i \in 1..LastStep(r), j \in 1..LastStep(r) : s = Plan[r][i] /\ t = Plan[r][j]
  BY DEF Steps
<1>2. i \in Int /\ j \in Int
  BY <1>1, PlanSteps
<1>3. Mentions(s, s.name) /\ Mentions(t, t.name)
  BY DEF Mentions
<1>4. ASSUME i < j PROVE FALSE
  <2>1. s \in Earlier(r, j)
    BY <1>1, <1>2, <1>4 DEF Earlier
  <2>2. QED
    BY <1>1, <1>3, <2>1, DeploymentAssumption DEF DeployedBeforeUse
<1>5. ASSUME j < i PROVE FALSE
  <2>1. t \in Earlier(r, i)
    BY <1>1, <1>2, <1>5 DEF Earlier
  <2>2. QED
    BY <1>1, <1>3, <2>1, DeploymentAssumption DEF DeployedBeforeUse
<1>6. QED
  BY <1>1, <1>2, <1>4, <1>5

LEMMA SetOnce ==
  ASSUME NEW r \in Releases, NEW s \in Steps(r), NEW t \in Steps(r),
         s.op = "set", t.op = "set", s.key = t.key
  PROVE  s.value = t.value
BY DeploymentAssumption DEF OneValuePerKey

-----------------------------------------------------------------------------
(* Types *)

Instances == Contracts \X (Nat \ {0})
Builds == [code : {Code[r][n] : r \in Releases, n \in Contracts}, uses : SUBSET Instances]

Recorded == deployed \in [Contracts -> Seq(Builds)]

(* Roles are granted to contracts that are on chain, or to their name when   *)
(* none is.                                                                  *)
RolesKnown ==
  \A registry, role : \A n \in Contracts, g \in Nat :
    Granted(registry, <<n, g>>, role) => g <= Len(deployed[n])

Typed == TypeOK /\ Recorded /\ RolesKnown

LEMMA Current ==
  ASSUME Typed, running
  PROVE  /\ release \in Releases /\ pc \in Nat /\ LastStep(release) \in Nat
         /\ pc \in 1..LastStep(release)
         /\ step = Plan[release][pc] /\ step \in Steps(release) /\ StepTyped(step)
<1>1. release \in Releases /\ pc \in 1..LastStep(release)
  BY DEF Typed, TypeOK, running
<1>2. QED
  BY <1>1, PlanSteps DEF step

(***************************************************************************)
(* A deployment is a new last instance, the older ones stay as they are.   *)
(***************************************************************************)
LEMMA BuildTyped ==
  ASSUME Typed, running, step.op = "deploy", ~Throws(step)
  PROVE  /\ step.name \in Contracts /\ step.uses \subseteq Contracts
         /\ \A u \in step.uses : Instance(u) \in Instances /\ Instance(u)[1] = u
                                   /\ Instance(u)[2] = Len(deployed[u])
         /\ Build(step.name, step.uses) \in Builds
<1>1. /\ release \in Releases /\ step.name \in Contracts /\ step.uses \subseteq Contracts
  BY Current DEF StepTyped
<1>2. ASSUME NEW u \in step.uses
      PROVE  Instance(u) \in Instances /\ Instance(u)[1] = u /\ Instance(u)[2] = Len(deployed[u])
  <2>1. u \in Contracts /\ deployed[u] # <<>> /\ deployed[u] \in Seq(Builds)
    BY <1>1 DEF Throws, Typed, Recorded
  <2>2. Len(deployed[u]) \in Nat \ {0}
    BY <2>1
  <2>3. QED
    BY <2>1, <2>2 DEF Instance, Instances
<1>3. {Instance(u) : u \in step.uses} \in SUBSET Instances
  BY <1>2
<1>4. Code[release][step.name] \in {Code[r][n] : r \in Releases, n \in Contracts}
  BY <1>1
<1>5. QED
  BY <1>1, <1>2, <1>3, <1>4 DEF Build, Builds

LEMMA Appended ==
  ASSUME Typed, Deploy
  PROVE  /\ running /\ step.op = "deploy" /\ ~Throws(step) /\ ~Holds(step)
         /\ step.name \in Contracts
         /\ Recorded'
         /\ \A m \in Contracts \ {step.name} : deployed'[m] = deployed[m]
         /\ Len(deployed[step.name]) \in Nat
         /\ Len(deployed'[step.name]) = Len(deployed[step.name]) + 1
         /\ deployed'[step.name][Len(deployed[step.name]) + 1] = Build(step.name, step.uses)
         /\ \A g \in 1..Len(deployed[step.name]) : deployed'[step.name][g] = deployed[step.name][g]
<1> DEFINE n == step.name
           b == Build(step.name, step.uses)
<1>1. /\ running /\ step.op = "deploy" /\ ~Throws(step) /\ ~Holds(step)
      /\ deployed' = [deployed EXCEPT ![n] = Append(@, b)]
  BY DEF Deploy, Pending
<1>2. n \in Contracts /\ b \in Builds
  BY <1>1, BuildTyped
<1>3. deployed \in [Contracts -> Seq(Builds)] /\ deployed[n] \in Seq(Builds)
  BY <1>2 DEF Typed, Recorded
<1> HIDE DEF n, b
<1>4. deployed'[n] = Append(deployed[n], b) /\ \A m \in Contracts \ {n} : deployed'[m] = deployed[m]
  BY <1>1, <1>2, <1>3
<1>5. /\ Append(deployed[n], b) \in Seq(Builds)
      /\ Len(Append(deployed[n], b)) = Len(deployed[n]) + 1
      /\ Append(deployed[n], b)[Len(deployed[n]) + 1] = b
      /\ \A g \in 1..Len(deployed[n]) : Append(deployed[n], b)[g] = deployed[n][g]
      /\ Len(deployed[n]) \in Nat
  BY <1>2, <1>3
<1>6. deployed' \in [Contracts -> Seq(Builds)]
  BY <1>1, <1>2, <1>3, <1>5
<1>7. QED
  BY <1>1, <1>2, <1>4, <1>5, <1>6 DEF n, b, Recorded

(***************************************************************************)
(* Passing over steps ends at the next step that finds something to do, or *)
(* at the end of the plan.                                                 *)
(***************************************************************************)
LEMMA PassTarget ==
  ASSUME Typed, Pass
  PROVE  /\ pc' \in pc+1..LastStep(release)+1
         /\ \A j \in pc..pc'-1 : NothingToDo(Plan[release][j])
<1> DEFINE L == LastStep(release)
           More(i) == i <= L => ~NothingToDo(Plan[release][i])
           T == {i \in pc+1..L+1 : More(i)}
           P(i) == More(i) /\ \A j \in pc..i-1 : NothingToDo(Plan[release][j])
<1>1. running /\ NothingToDo(step) /\ pc' = CHOOSE i \in pc+1..L+1 : P(i)
  BY DEF Pass
<1>2. pc \in Nat /\ L \in Nat /\ pc <= L /\ step = Plan[release][pc]
  BY <1>1, Current
<1> HIDE DEF L
<1>3. L+1 \in T /\ T \subseteq Nat
  BY <1>2
<1> HIDE DEF More
<1>4. PICK x \in T : \A y \in T : x <= y
  BY <1>3, LeastElement
<1>5. ASSUME NEW j \in pc..x-1
      PROVE  NothingToDo(Plan[release][j])
  <2>1. CASE j = pc
    BY <1>1, <1>2, <2>1
  <2>2. CASE j # pc
    <3>1. j \in pc+1..L+1 /\ j <= L /\ j < x /\ j \notin T
      BY <1>2, <1>4, <2>2
    <3>2. QED
      BY <3>1 DEF More
  <2>3. QED
    BY <2>1, <2>2
<1>6. x \in pc+1..L+1 /\ P(x)
  BY <1>4, <1>5
<1> HIDE DEF P, T
<1>7. pc' \in pc+1..L+1 /\ P(pc')
  BY <1>1, <1>6
<1>8. QED
  BY <1>7 DEF P, L

(***************************************************************************)
(* What a run of release r leaves on an empty chain.                       *)
(***************************************************************************)
LEMMA ChainDeployed ==
  ASSUME NEW r \in Releases, ChainOf(r)
  PROVE  /\ Recorded
         /\ \A n \in Contracts :
              \/ deployed[n] = <<>>
              \/ \E s \in Steps(r) : /\ Deploys(s, n)
                                     /\ s.uses \subseteq Contracts
                                     /\ Len(deployed[n]) = 1
                                     /\ deployed[n][1].uses = {FirstInstance(u) : u \in s.uses}
         /\ \A s \in Steps(r) : s.op = "deploy" =>
              /\ Len(deployed[s.name]) = 1
              /\ deployed[s.name][1] = [code |-> Code[r][s.name], uses |-> {FirstInstance(u) : u \in s.uses}]
<1> DEFINE B(s, n) == [code |-> Code[r][n], uses |-> {FirstInstance(u) : u \in s.uses}]
<1>1. deployed = [n \in Contracts |-> IF \E s \in Steps(r) : Deploys(s, n)
                                        THEN << B(DeployStep(r, n), n) >> ELSE <<>>]
  BY DEF ChainOf
<1>2. ASSUME NEW s \in Steps(r), NEW n, Deploys(s, n)
      PROVE  DeployStep(r, n) = s
  <2>1. DeployStep(r, n) \in Steps(r) /\ Deploys(DeployStep(r, n), n)
    BY <1>2 DEF DeployStep
  <2>2. QED
    BY <1>2, <2>1, DeployedOnce DEF Deploys
<1>3. ASSUME NEW s \in Steps(r), NEW n, Deploys(s, n)
      PROVE  /\ n \in Contracts /\ s.uses \subseteq Contracts /\ B(s, n) \in Builds
             /\ deployed[n] = << B(s, n) >>
  <2>1. n \in Contracts /\ s.uses \subseteq Contracts
    BY <1>3, DeploymentAssumption DEF PlansTyped, StepTyped, Deploys
  <2>2. {FirstInstance(u) : u \in s.uses} \in SUBSET Instances
    BY <2>1 DEF FirstInstance, Instances
  <2>3. Code[r][n] \in {Code[q][m] : q \in Releases, m \in Contracts}
    BY <2>1
  <2>4. B(s, n) \in Builds
    BY <2>2, <2>3 DEF Builds
  <2> HIDE DEF B
  <2>5. deployed[n] = << B(s, n) >>
    BY <1>1, <1>2, <1>3, <2>1
  <2>6. QED
    BY <2>1, <2>4, <2>5
<1> HIDE DEF B
<1>4. \A n \in Contracts : deployed[n] \in Seq(Builds)
  <2> TAKE n \in Contracts
  <2>1. CASE \E s \in Steps(r) : Deploys(s, n)
    <3>1. PICK s \in Steps(r) : B(s, n) \in Builds /\ deployed[n] = << B(s, n) >>
      BY <1>3, <2>1
    <3>2. QED
      BY <3>1
  <2>2. CASE ~ \E s \in Steps(r) : Deploys(s, n)
    BY <1>1, <2>2
  <2>3. QED
    BY <2>1, <2>2
<1>5. Recorded
  BY <1>1, <1>4 DEF Recorded
<1>6. \A n \in Contracts : \/ deployed[n] = <<>>
                          \/ \E s \in Steps(r) : Deploys(s, n)
  BY <1>1
<1>7. \A n : \A s \in Steps(r) : Deploys(s, n) =>
        /\ Len(deployed[n]) = 1 /\ deployed[n][1] = B(s, n) /\ s.uses \subseteq Contracts
  BY <1>3
<1>8. \A s, n : B(s, n).uses = {FirstInstance(u) : u \in s.uses}
  BY DEF B
<1>9. \A s \in Steps(r) : s.op = "deploy" =>
        Len(deployed[s.name]) = 1 /\ deployed[s.name][1] = B(s, s.name)
  BY <1>7 DEF Deploys
<1>10. \A n \in Contracts :
         \/ deployed[n] = <<>>
         \/ \E s \in Steps(r) : /\ Deploys(s, n) /\ s.uses \subseteq Contracts
                                /\ Len(deployed[n]) = 1
                                /\ deployed[n][1].uses = {FirstInstance(u) : u \in s.uses}
  BY <1>6, <1>7, <1>8
<1>11. QED
  BY <1>5, <1>9, <1>10 DEF B

LEMMA InitTyped == Init => Typed
<1> SUFFICES ASSUME Init
             PROVE  Typed
  OBVIOUS
<1> USE DEF NoTotals
<1>1. /\ release \in Releases /\ pc = 0 /\ total \in [VirtualIds -> Int]
      /\ held \in [Holdings -> -MaxHolding..MaxHolding] /\ inventory \in [VirtualIds -> Int]
      /\ raced \subseteq VirtualIds /\ crashes \in 0..MaxCrashes
  BY DeploymentAssumption DEF Init, PlansTyped
<1>2. pc \in 0..LastStep(release) + 1
  BY <1>1, PlanSteps
<1>3. CASE EmptyChain
  <2>1. Recorded
    BY <1>3 DEF EmptyChain, Recorded
  <2>2. RolesKnown
    BY <1>3 DEF EmptyChain, RolesKnown, Granted
  <2>3. \A n \in Contracts : Len(deployed[n]) = 0
    BY <1>3 DEF EmptyChain
  <2>4. store \in [Keys -> Int]
    BY <1>3 DEF EmptyChain
  <2>5. QED
    BY <1>1, <1>2, <2>1, <2>2, <2>3, <2>4 DEF Typed, TypeOK
<1>4. CASE ChainOf(release)
  <2>1. Recorded
    BY <1>1, <1>4, ChainDeployed
  <2>2. ASSUME NEW s \in Steps(release), s.op = "deploy"
        PROVE  \A u \in s.uses : Len(deployed[u]) = 1
    <3>1. PICK j \in 1..LastStep(release) : s = Plan[release][j]
      BY DEF Steps
    <3>2. \A u \in s.uses : \E t \in Earlier(release, j) : Deploys(t, u)
      BY <1>1, <2>2, <3>1, DeploymentAssumption DEF DeployedBeforeUse
    <3>3. \A t \in Earlier(release, j) : t \in Steps(release)
      BY <1>1, EarlierSteps
    <3>4. \A u \in s.uses : \E t \in Steps(release) : t.op = "deploy" /\ t.name = u
      BY <3>2, <3>3 DEF Deploys
    <3>5. \A t \in Steps(release) : t.op = "deploy" => Len(deployed[t.name]) = 1
      BY <1>1, <1>4, ChainDeployed
    <3>6. QED
      BY <3>4, <3>5
  <2>3. \A n \in Contracts : \A g \in 1..Len(deployed[n]) :
          \A u \in deployed[n][g].uses : u[1] \in Contracts /\ u[2] \in 1..Len(deployed[u[1]])
    <3> TAKE n \in Contracts
    <3> TAKE g \in 1..Len(deployed[n])
    <3> TAKE u \in deployed[n][g].uses
    <3>1. Len(deployed[n]) # 0 => deployed[n] # <<>>
      OBVIOUS
    <3>2. PICK s \in Steps(release) : /\ Deploys(s, n) /\ s.uses \subseteq Contracts
                                      /\ Len(deployed[n]) = 1
                                      /\ deployed[n][1].uses = {FirstInstance(v) : v \in s.uses}
      <4>1. deployed[n] # <<>>
        BY <3>1
      <4>2. QED
        BY <1>1, <1>4, <4>1, ChainDeployed
    <3>3. g = 1
      BY <3>2
    <3>4. PICK v \in s.uses : u = FirstInstance(v)
      BY <3>2, <3>3
    <3>5. v \in Contracts /\ u = <<v, 1>> /\ Len(deployed[v]) = 1
      BY <2>2, <3>2, <3>4 DEF FirstInstance, Deploys
    <3>6. u[1] = v /\ u[2] = 1
      BY <3>5
    <3>7. u[1] \in Contracts
      BY <3>5, <3>6
    <3>8. Len(deployed[u[1]]) = 1
      BY <3>5, <3>6, Zenon
    <3>9. u[2] \in 1..Len(deployed[u[1]])
      BY <3>6, <3>8
    <3>10. QED
      BY <3>7, <3>9
  <2>4. RolesKnown
    <3> SUFFICES ASSUME NEW registry, NEW role, NEW n \in Contracts, NEW g \in Nat,
                        Granted(registry, <<n, g>>, role)
                 PROVE  g <= Len(deployed[n])
      BY DEF RolesKnown
    <3>1. <<registry, <<n, g>>, role>> # << <<"RoleStore", 1>>, <<Operator, 0>>, "ROLE_ADMIN" >>
      BY DeploymentAssumption DEF PlansTyped
    <3>2. PICK s \in Steps(release) : s.op = "grant" /\ <<n, g>> = FirstInstance(s.account)
      BY <1>4, <3>1 DEF ChainOf, Granted
    <3>3. n = s.account /\ g = 1
      BY <3>2 DEF FirstInstance
    <3>4. PICK j \in 1..LastStep(release) : s = Plan[release][j]
      BY DEF Steps
    <3>5. PICK d \in Earlier(release, j) : Deploys(d, n)
      BY <1>1, <3>2, <3>3, <3>4, DeploymentAssumption DEF ServedCalls
    <3>6. Len(deployed[n]) = 1
      <4>1. d \in Steps(release) /\ d.op = "deploy" /\ d.name = n
        BY <1>1, <3>5, EarlierSteps DEF Deploys
      <4>2. QED
        BY <1>1, <1>4, <4>1, ChainDeployed
    <3>7. QED
      BY <3>3, <3>6
  <2>5. store \in [Keys -> Int]
    <3>1. \A k \in Keys : (\E s \in Steps(release) : Sets(s, k)) => SetStep(release, k).value \in Int
      BY <1>1, DeploymentAssumption DEF SetStep, Sets, PlansTyped, StepTyped
    <3>2. QED
      BY <1>4, <3>1 DEF ChainOf
  <2>6. QED
    BY <1>1, <1>2, <2>1, <2>3, <2>4, <2>5 DEF Typed, TypeOK
<1>5. QED
  BY <1>3, <1>4 DEF Init

-----------------------------------------------------------------------------
(* Steps and types *)

LEMMA ChainSteps ==
  ASSUME [Next]_vars
  PROVE  Deploy \/ GrantRole \/ SetIfDifferent \/ HandOver \/ UNCHANGED <<deployed, roles, store>>
BY DEF Next, RunStep, Start, Pass, ReadHolding, SetInventory, RecordMigration, Fail, Crash,
       NextRelease, Trade, Advance, scriptVars, vars

(***************************************************************************)
(* Instances stay what they are, and so do the roles that contracts have.  *)
(***************************************************************************)
Grown ==
  /\ \A n \in Contracts :
       /\ Len(deployed[n]) <= Len(deployed'[n])
       /\ \A g \in 1..Len(deployed[n]) : deployed'[n][g] = deployed[n][g]
  /\ \A registry, role, g : \A n \in Contracts :
       Granted(registry, <<n, g>>, role) => Granted(registry, <<n, g>>, role)'

LEMMA Lengths ==
  ASSUME Recorded
  PROVE  \A n \in Contracts : deployed[n] \in Seq(Builds) /\ Len(deployed[n]) \in Nat
BY DEF Recorded

LEMMA Grows ==
  ASSUME Typed, [Next]_vars
  PROVE  Grown
<1>1. \A n \in Contracts : Len(deployed[n]) \in Nat
  BY Lengths DEF Typed
<1>2. CASE Deploy
  <2>1. \A n \in Contracts : n # step.name => deployed'[n] = deployed[n]
    BY <1>2, Appended
  <2>2. \A n \in Contracts : Len(deployed[n]) <= Len(deployed'[n])
                            /\ \A g \in 1..Len(deployed[n]) : deployed'[n][g] = deployed[n][g]
    <3> TAKE n \in Contracts
    <3>1. CASE n = step.name
      BY <1>1, <1>2, <3>1, Appended
    <3>2. CASE n # step.name
      BY <1>1, <2>1, <3>2
    <3>3. QED
      BY <3>1, <3>2
  <2>3. roles \subseteq roles'
    BY <1>2 DEF Deploy
  <2>4. QED
    BY <2>2, <2>3 DEF Grown, Granted
<1>3. CASE GrantRole
  BY <1>1, <1>3 DEF GrantRole, Grown, Granted
<1>4. CASE SetIfDifferent
  BY <1>1, <1>4 DEF SetIfDifferent, Grown, Granted
<1>5. CASE HandOver
  <2>1. deployed' = deployed /\ roles' = roles \ {<<Instance("RoleStore"), <<Operator, 0>>, "ROLE_ADMIN">>}
    BY <1>5 DEF HandOver
  <2>2. \A n \in Contracts : n # Operator
    BY DeploymentAssumption DEF PlansTyped
  <2>3. QED
    BY <1>1, <2>1, <2>2 DEF Grown, Granted
<1>6. CASE UNCHANGED <<deployed, roles, store>>
  BY <1>1, <1>6 DEF Grown, Granted
<1>7. QED
  BY <1>2, <1>3, <1>4, <1>5, <1>6, ChainSteps

UsesKnown ==
  \A n \in Contracts : \A g \in 1..Len(deployed[n]) :
    \A u \in deployed[n][g].uses : u[1] \in Contracts /\ u[2] \in 1..Len(deployed[u[1]])

LEMMA RecordTyped ==
  ASSUME Typed, [Next]_vars
  PROVE  Recorded' /\ UsesKnown'
<1>1. Recorded /\ UsesKnown /\ Grown
  BY Grows DEF Typed, TypeOK, UsesKnown
<1>2. CASE Deploy
  <2>1. Recorded'
    BY <1>2, Appended
  <2>2. ASSUME NEW n \in Contracts, NEW g \in 1..Len(deployed'[n]), NEW u \in deployed'[n][g].uses
        PROVE  u[1] \in Contracts /\ u[2] \in 1..Len(deployed'[u[1]])
    <3>1. Len(deployed[n]) \in Nat
      BY <1>1, Lengths
    <3>2. CASE g \in 1..Len(deployed[n])
      <4>1. u \in deployed[n][g].uses
        BY <1>1, <3>2 DEF Grown
      <4>2. u[1] \in Contracts /\ u[2] \in 1..Len(deployed[u[1]])
        BY <1>1, <3>2, <4>1 DEF UsesKnown
      <4>3. Len(deployed[u[1]]) <= Len(deployed'[u[1]]) /\ Len(deployed[u[1]]) \in Nat
        BY <1>1, <4>2, Lengths DEF Grown
      <4>4. Len(deployed'[u[1]]) \in Nat
        BY <2>1, <4>2 DEF Recorded
      <4>5. QED
        BY <4>2, <4>3, <4>4
    <3>3. CASE g \notin 1..Len(deployed[n])
      <4>1. n = step.name /\ g = Len(deployed[step.name]) + 1
        <5>1. CASE n = step.name
          BY <1>2, <3>1, <3>3, <5>1, Appended
        <5>2. CASE n # step.name
          BY <1>2, <3>3, <5>2, Appended
        <5>3. QED
          BY <5>1, <5>2
      <4>2. deployed'[n][g] = Build(step.name, step.uses)
        BY <1>2, <4>1, Appended
      <4>3. PICK v \in step.uses : u = Instance(v)
        BY <4>2 DEF Build
      <4>4. v \in Contracts /\ u[1] = v /\ u[2] = Len(deployed[v]) /\ u \in Instances
        BY <1>2, <4>3, Appended, BuildTyped
      <4>5. Len(deployed[v]) \in Nat \ {0}
        BY <4>4 DEF Instances
      <4>6. Len(deployed[v]) <= Len(deployed'[v]) /\ Len(deployed'[v]) \in Nat
        BY <1>1, <2>1, <4>4 DEF Grown, Recorded
      <4>7. u[2] \in 1..Len(deployed'[v])
        BY <4>4, <4>5, <4>6
      <4>8. QED
        BY <4>4, <4>7, Zenon
    <3>4. QED
      BY <3>2, <3>3
  <2>3. UsesKnown'
    BY <2>2 DEF UsesKnown
  <2>4. QED
    BY <2>1, <2>3
<1>3. CASE UNCHANGED deployed
  BY <1>1, <1>3 DEF Recorded, UsesKnown
<1>4. QED
  BY <1>2, <1>3, ChainSteps DEF GrantRole, SetIfDifferent, HandOver

LEMMA RolesTyped ==
  ASSUME Typed, [Next]_vars
  PROVE  RolesKnown'
<1>1. Recorded /\ RolesKnown /\ Grown /\ Recorded'
  BY Grows, RecordTyped DEF Typed
<1>2. ASSUME NEW registry, NEW role, NEW n \in Contracts, NEW g \in Nat,
             Granted(registry, <<n, g>>, role)
      PROVE  g <= Len(deployed'[n])
  <2>1. g <= Len(deployed[n]) /\ Len(deployed[n]) <= Len(deployed'[n])
    BY <1>1, <1>2 DEF RolesKnown, Grown
  <2>2. Len(deployed[n]) \in Nat /\ Len(deployed'[n]) \in Nat
    BY <1>1 DEF Recorded
  <2>3. QED
    BY <2>1, <2>2
<1>3. ASSUME NEW registry, NEW role, NEW n \in Contracts, NEW g \in Nat,
             Granted(registry, <<n, g>>, role)'
      PROVE  g <= Len(deployed'[n])
  <2>1. CASE Granted(registry, <<n, g>>, role)
    BY <1>2, <2>1
  <2>2. CASE Deploy
    <3>1. << registry, <<n, g>>, role >> # << <<"RoleStore", Len(deployed["RoleStore"]) + 1>>, <<Operator, 0>>, "ROLE_ADMIN" >>
      BY DeploymentAssumption DEF PlansTyped
    <3>2. Granted(registry, <<n, g>>, role)
      BY <1>3, <2>2, <3>1 DEF Deploy, Granted
    <3>3. QED
      BY <1>2, <3>2
  <2>3. CASE GrantRole
    <3>1. Granted(registry, <<n, g>>, role) \/ <<n, g>> = Instance(step.account)
      BY <1>3, <2>3 DEF GrantRole, Granted
    <3>2. CASE <<n, g>> = Instance(step.account)
      <4>1. n = step.account /\ g = Len(deployed[n])
        BY <3>2 DEF Instance
      <4>2. deployed' = deployed /\ Len(deployed[n]) \in Nat
        BY <1>1, <2>3, Lengths DEF GrantRole
      <4>3. QED
        BY <4>1, <4>2
    <3>3. QED
      BY <1>2, <3>1, <3>2
  <2>4. CASE roles' \subseteq roles
    <3>1. Granted(registry, <<n, g>>, role)
      BY <1>3, <2>4 DEF Granted
    <3>2. QED
      BY <1>2, <3>1
  <2>5. QED
    BY <2>1, <2>2, <2>3, <2>4, ChainSteps DEF SetIfDifferent, HandOver
<1>4. QED
  BY <1>3 DEF RolesKnown

LEMMA ControlTyped ==
  ASSUME Typed, [Next]_vars
  PROVE  /\ release' \in Releases /\ pc' \in 0..LastStep(release') + 1
         /\ crashes' \in 0..MaxCrashes /\ raced' \subseteq VirtualIds
<1>1. /\ release \in Releases /\ pc \in 0..LastStep(release) + 1 /\ crashes \in 0..MaxCrashes
      /\ raced \subseteq VirtualIds /\ MaxCrashes \in Nat
  BY DeploymentAssumption DEF Typed, TypeOK, PlansTyped
<1>2. LastStep(release) \in Nat
  BY <1>1, PlanSteps
<1>3. CASE Start
  BY <1>1, <1>2, <1>3 DEF Start
<1>4. CASE Pass
  <2>1. pc' \in pc+1..LastStep(release)+1
    BY <1>4, PassTarget
  <2>2. QED
    BY <1>1, <1>2, <1>4, <2>1 DEF Pass
<1>5. CASE pc' = pc + 1 /\ pc \in 1..LastStep(release) /\ UNCHANGED <<release, raced, crashes>>
  BY <1>1, <1>2, <1>5
<1>6. CASE pc' = 0 /\ UNCHANGED <<release, raced>> /\ crashes' \in {crashes, crashes + 1}
            /\ (crashes' = crashes \/ crashes < MaxCrashes)
  BY <1>1, <1>2, <1>6
<1>7. CASE NextRelease
  <2>1. release' \in Releases
    BY <1>1, <1>7, DeploymentAssumption DEF NextRelease, PlansTyped
  <2>2. LastStep(release') \in Nat
    BY <2>1, PlanSteps
  <2>3. QED
    BY <1>1, <1>7, <2>1, <2>2 DEF NextRelease
<1>8. CASE UNCHANGED <<release, pc, raced, crashes>>
  BY <1>1, <1>8
<1>9. CASE Trade
  <2>1. UNCHANGED <<release, pc, crashes>>
    BY <1>9 DEF Trade
  <2>2. running /\ step.op \in {"read", "fix"} => step.of \in VirtualIds
    BY Current DEF StepTyped
  <2>3. raced' \subseteq VirtualIds
    BY <1>1, <1>9, <2>2 DEF Trade
  <2>4. QED
    BY <1>1, <2>1, <2>3
<1>10. CASE Deploy
  BY <1>5, <1>10 DEF Deploy, Pending, running
<1>11. CASE GrantRole
  BY <1>5, <1>11 DEF GrantRole, Pending, running, Advance
<1>12. CASE SetIfDifferent
  BY <1>5, <1>12 DEF SetIfDifferent, Pending, running, Advance
<1>13. CASE ReadHolding
  BY <1>5, <1>13 DEF ReadHolding, Pending, running, Advance
<1>14. CASE SetInventory
  BY <1>5, <1>14 DEF SetInventory, Pending, running, Advance
<1>15. CASE RecordMigration
  BY <1>5, <1>15 DEF RecordMigration, Pending, running, Advance
<1>16. CASE Fail
  BY <1>6, <1>16 DEF Fail
<1>17. CASE Crash
  BY <1>6, <1>17 DEF Crash
<1>18. CASE HandOver
  BY <1>8, <1>18 DEF HandOver
<1>19. CASE UNCHANGED vars
  BY <1>8, <1>19 DEF vars
<1>20. QED
  BY <1>3, <1>4, <1>7, <1>9, <1>10, <1>11, <1>12, <1>13, <1>14, <1>15, <1>16, <1>17, <1>18, <1>19
     DEF Next, RunStep

LEMMA DataTyped ==
  ASSUME Typed, [Next]_vars
  PROVE  /\ store' \in [Keys -> Int] /\ held' \in [Holdings -> -MaxHolding..MaxHolding]
         /\ inventory' \in [VirtualIds -> Int] /\ total' \in [VirtualIds -> Int]
<1>1. /\ store \in [Keys -> Int] /\ held \in [Holdings -> -MaxHolding..MaxHolding]
      /\ inventory \in [VirtualIds -> Int] /\ total \in [VirtualIds -> Int]
      /\ MaxHolding \in Nat
  BY DeploymentAssumption DEF Typed, TypeOK, PlansTyped
<1>2. NoTotals \in [VirtualIds -> Int]
  BY DEF NoTotals
<1>3. CASE Deploy
  <2>1. store' \in [Keys -> Int]
    BY <1>1, <1>3 DEF Deploy
  <2>2. held' \in [Holdings -> -MaxHolding..MaxHolding] /\ inventory' \in [VirtualIds -> Int]
    BY <1>1, <1>2, <1>3 DEF Deploy
  <2>3. QED
    BY <1>1, <1>3, <2>1, <2>2 DEF Deploy
<1>4. CASE SetIfDifferent
  <2>1. step.key \in Keys /\ step.value \in Int
    BY <1>4, Current DEF SetIfDifferent, Pending, StepTyped
  <2>2. QED
    BY <1>1, <1>4, <2>1 DEF SetIfDifferent, Advance
<1>5. CASE ReadHolding
  <2>1. step.of \in VirtualIds /\ <<step.of[1], step.market>> \in Holdings
    BY <1>5, Current DEF ReadHolding, Pending, StepTyped
  <2>2. held[<<step.of[1], step.market>>] \in Int
    BY <1>1, <2>1
  <2>3. total[step.of] + (IF Listed(step.market) THEN held[<<step.of[1], step.market>>] ELSE 0) \in Int
    BY <1>1, <2>1, <2>2
  <2>4. QED
    BY <1>1, <1>5, <2>1, <2>3 DEF ReadHolding, Advance
<1>6. CASE SetInventory
  <2>1. step.of \in VirtualIds
    BY <1>6, Current DEF SetInventory, Pending, StepTyped
  <2>2. QED
    BY <1>1, <1>6, <2>1 DEF SetInventory, Advance
<1>7. CASE Trade
  <2>1. PICK h \in Holdings, d \in {-1, 1} :
          /\ held[h] + d \in (IF h[1] = "swaps" THEN 0 ELSE -MaxHolding)..MaxHolding
          /\ held' = [held EXCEPT ![h] = @ + d]
          /\ inventory' = IF store[IdKey[h]] = 0 THEN inventory
                          ELSE [inventory EXCEPT ![IdOf(h)] =
                                  IF h[1] = "swaps" /\ @ + d < 0 THEN 0 ELSE @ + d]
    BY <1>7 DEF Trade
  <2>2. held[h] + d \in -MaxHolding..MaxHolding
    BY <1>1, <2>1
  <2>3. held' \in [Holdings -> -MaxHolding..MaxHolding]
    BY <1>1, <2>1, <2>2
  <2>4. inventory' \in [VirtualIds -> Int]
    <3>1. CASE IdOf(h) \in VirtualIds
      <4>1. inventory[IdOf(h)] \in Int /\ d \in Int
        BY <1>1, <2>1, <3>1
      <4>2. inventory[IdOf(h)] + d \in Int
        BY <4>1
      <4> DEFINE v == IF h[1] = "swaps" /\ inventory[IdOf(h)] + d < 0
                        THEN 0 ELSE inventory[IdOf(h)] + d
      <4>3. v \in Int
        BY <4>2
      <4>4. inventory' = inventory \/ inventory' = [inventory EXCEPT ![IdOf(h)] = v]
        BY <1>1, <2>1
      <4> HIDE DEF v
      <4>5. QED
        BY <1>1, <4>3, <4>4
    <3>2. CASE IdOf(h) \notin VirtualIds
      <4>1. inventory' = inventory
        BY <1>1, <2>1, <3>2
      <4>2. QED
        BY <1>1, <4>1
    <3>3. QED
      BY <3>1, <3>2
  <2>5. QED
    BY <1>1, <1>7, <2>3, <2>4 DEF Trade
<1>8. CASE UNCHANGED <<store, held, inventory>> /\ total' \in {total, NoTotals}
  BY <1>1, <1>2, <1>8
<1>9. CASE Start \/ Pass \/ GrantRole \/ RecordMigration \/ Fail \/ Crash \/ NextRelease \/ HandOver
            \/ UNCHANGED vars
  BY <1>8, <1>9 DEF Start, Pass, GrantRole, RecordMigration, Fail, Crash, NextRelease, HandOver,
                    Advance, scriptVars, vars
<1>10. QED
  BY <1>3, <1>4, <1>5, <1>6, <1>7, <1>9 DEF Next, RunStep

LEMMA NextTyped == Typed /\ [Next]_vars => Typed'
<1> SUFFICES ASSUME Typed, [Next]_vars
             PROVE  Typed'
  OBVIOUS
<1>1. QED
  BY RecordTyped, RolesTyped, ControlTyped, DataTyped DEF Typed, TypeOK, UsesKnown

LEMMA AlwaysTyped == Spec => []Typed
BY InitTyped, NextTyped, PTL DEF Spec

(* The variables of the deployments have their types: an instance refers     *)
(* only to instances that were on chain before it.                           *)
THEOREM DeploymentTypeOK == Spec => []TypeOK
<1>1. Typed => TypeOK
  BY DEF Typed
<1>2. QED
  BY AlwaysTyped, <1>1, PTL

-----------------------------------------------------------------------------
(* What is behind the run *)

(* A script that runs once did this step, and is recorded when it ends. *)
ToBeRecorded(s) ==
  /\ s.op \in {"read", "fix"}
  /\ \E i \in pc..LastStep(release) : Plan[release][i].op = "finish" /\ Plan[release][i].id = s.id

DoneSoFar == \A j \in 1..pc-1 : Holds(Plan[release][j]) \/ ToBeRecorded(Plan[release][j])

LEMMA HoldsReads ==
  ASSUME NEW s, UNCHANGED <<release, deployed, roles, store, migrations>>
  PROVE  Holds(s)' <=> Holds(s)
BY DEF Holds, Build, Instance, Granted

LEMMA HoldsAfterDeploy ==
  ASSUME Typed, Deploy, NEW s \in Earlier(release, pc), Holds(s)
  PROVE  Holds(s)'
<1>1. /\ running /\ step.op = "deploy" /\ step.name \in Contracts
      /\ \A m \in Contracts : m # step.name => deployed'[m] = deployed[m]
      /\ UNCHANGED <<release, migrations>>
  BY Appended DEF Deploy
<1>2. release \in Releases /\ pc \in 1..LastStep(release) /\ step = Plan[release][pc]
  BY <1>1, Current
<1>3. ~Mentions(s, step.name) /\ s \in Steps(release) /\ StepTyped(s)
  <2>1. ~Mentions(s, step.name)
    BY <1>1, <1>2, DeploymentAssumption DEF DeployedBeforeUse
  <2>2. s \in Steps(release)
    BY <1>2, EarlierSteps
  <2>3. QED
    BY <1>2, <2>1, <2>2, DeploymentAssumption DEF PlansTyped
<1>4. \A u : u # step.name => Instance(u)' = Instance(u)
  BY <1>1 DEF Instance
<1>5. CASE s.op = "deploy"
  <2>1. /\ s.name \in Contracts /\ s.name # step.name /\ step.name \notin s.uses
        /\ deployed[s.name] # <<>> /\ deployed[s.name][Len(deployed[s.name])] = Build(s.name, s.uses)
    BY <1>3, <1>5 DEF Mentions, Holds, StepTyped
  <2>2. Build(s.name, s.uses)' = Build(s.name, s.uses)
    <3>1. {Instance(u) : u \in s.uses}' = {Instance(u) : u \in s.uses}
      BY <1>4, <2>1
    <3>2. QED
      BY <1>1, <3>1 DEF Build
  <2>3. deployed'[s.name] = deployed[s.name]
    BY <1>1, <2>1
  <2>4. QED
    BY <1>5, <2>1, <2>2, <2>3 DEF Holds
<1>6. CASE s.op = "grant"
  <2>1. Instance(s.at)' = Instance(s.at) /\ Instance(s.account)' = Instance(s.account)
    BY <1>3, <1>4, <1>6 DEF Mentions
  <2>2. Granted(Instance(s.at), Instance(s.account), s.role)
    BY <1>6 DEF Holds
  <2>3. roles \subseteq roles'
    BY DEF Deploy
  <2>4. Granted(Instance(s.at), Instance(s.account), s.role)'
    BY <2>1, <2>2, <2>3 DEF Granted
  <2>5. QED
    BY <1>6, <2>4 DEF Holds
<1>7. CASE s.op = "set"
  <2>1. s.key \in Keys /\ s.key[1] # step.name /\ store[s.key] = s.value
    BY <1>3, <1>7 DEF Mentions, Holds, StepTyped
  <2>2. store'[s.key] = store[s.key]
    BY <2>1 DEF Deploy
  <2>3. QED
    BY <1>7, <2>1, <2>2 DEF Holds
<1>8. CASE s.op \in {"read", "fix", "finish"}
  BY <1>1, <1>8 DEF Holds
<1>9. QED
  BY <1>5, <1>6, <1>7, <1>8 DEF Holds

LEMMA HoldsAfterGrant ==
  ASSUME GrantRole, NEW s, Holds(s)
  PROVE  Holds(s)'
<1>1. roles \subseteq roles' /\ UNCHANGED <<release, deployed, store, migrations>>
  BY DEF GrantRole, Advance
<1>2. QED
  BY <1>1 DEF Holds, Build, Instance, Granted

LEMMA HoldsAfterSet ==
  ASSUME Typed, SetIfDifferent, NEW s \in Steps(release), Holds(s)
  PROVE  Holds(s)'
<1>1. /\ running /\ step.op = "set" /\ store' = [store EXCEPT ![step.key] = step.value]
      /\ UNCHANGED <<release, deployed, roles, migrations>>
  BY DEF SetIfDifferent, Pending, Advance
<1>2. release \in Releases /\ step \in Steps(release)
  BY <1>1, Current
<1>3. CASE s.op = "set"
  <2>1. s.key \in Keys /\ store \in [Keys -> Int]
    BY <1>2, <1>3, DeploymentAssumption DEF PlansTyped, StepTyped, Typed, TypeOK
  <2>2. s.key = step.key => s.value = step.value
    BY <1>1, <1>2, <1>3, SetOnce
  <2>3. QED
    BY <1>1, <1>3, <2>1, <2>2 DEF Holds
<1>4. CASE s.op # "set"
  BY <1>1, <1>4 DEF Holds, Build, Instance, Granted
<1>5. QED
  BY <1>3, <1>4

LEMMA HoldsAfterRecord ==
  ASSUME RecordMigration, NEW s, Holds(s)
  PROVE  Holds(s)'
<1>1. migrations \subseteq migrations' /\ UNCHANGED <<release, deployed, store, roles>>
  BY DEF RecordMigration, Advance
<1>2. QED
  BY <1>1 DEF Holds, Build, Instance, Granted

LEMMA HoldsAfterHandOver ==
  ASSUME Typed, HandOver, NEW s \in Steps(release), Holds(s)
  PROVE  Holds(s)'
<1>1. /\ roles' = roles \ {<<Instance("RoleStore"), <<Operator, 0>>, "ROLE_ADMIN">>}
      /\ UNCHANGED <<release, deployed, store, migrations>> /\ release \in Releases
  BY DEF HandOver, Typed, TypeOK
<1>2. ASSUME s.op = "grant"
      PROVE  <<Instance(s.at), Instance(s.account), s.role>> # <<Instance("RoleStore"), <<Operator, 0>>, "ROLE_ADMIN">>
  <2>1. ~Grants(s, "RoleStore", Operator, "ROLE_ADMIN")
    BY <1>1, DeploymentAssumption DEF NoAdminGranted
  <2>2. \A n : Instance(n)[1] = n
    BY DEF Instance
  <2>3. QED
    BY <1>2, <2>1, <2>2 DEF Grants
<1>3. QED
  BY <1>1, <1>2 DEF Holds, Build, Instance, Granted

(***************************************************************************)
(* The step that is taken has nothing left to do.                          *)
(***************************************************************************)
LEMMA HoldsAfterStep ==
  ASSUME Typed, Deploy \/ GrantRole \/ SetIfDifferent \/ RecordMigration, NEW s, s = step
  PROVE  Holds(s)'
<1>1. running /\ release \in Releases /\ pc \in 1..LastStep(release) /\ s = Plan[release][pc] /\ StepTyped(s)
  BY Current DEF Deploy, GrantRole, SetIfDifferent, RecordMigration, Pending
<1>2. CASE Deploy
  <2>1. /\ s.op = "deploy" /\ s.name \in Contracts /\ Recorded' /\ release' = release
        /\ Len(deployed'[s.name]) = Len(deployed[s.name]) + 1
        /\ deployed'[s.name][Len(deployed[s.name]) + 1] = Build(s.name, s.uses)
        /\ Len(deployed[s.name]) \in Nat
        /\ \A m \in Contracts : m # s.name => deployed'[m] = deployed[m]
    BY <1>2, Appended DEF Deploy
  <2>2. s.name \notin s.uses
    BY <1>1, <2>1, DeploymentAssumption DEF DeployedBeforeUse
  <2>3. \A u : u # s.name => Instance(u)' = Instance(u)
    BY <2>1 DEF Instance
  <2>4. {Instance(u) : u \in s.uses}' = {Instance(u) : u \in s.uses}
    BY <2>2, <2>3
  <2>5. Build(s.name, s.uses)' = Build(s.name, s.uses)
    BY <2>1, <2>4 DEF Build
  <2>6. deployed'[s.name] # <<>>
    BY <2>1
  <2>7. QED
    BY <2>1, <2>5, <2>6 DEF Holds
<1>3. CASE GrantRole
  BY <1>3 DEF GrantRole, Pending, Holds, Granted, Instance
<1>4. CASE SetIfDifferent
  BY <1>1, <1>4 DEF SetIfDifferent, Pending, Holds, StepTyped, Typed, TypeOK
<1>5. CASE RecordMigration
  BY <1>5 DEF RecordMigration, Pending, Holds
<1>6. QED
  BY <1>2, <1>3, <1>4, <1>5

(***************************************************************************)
(* The steps behind the run keep finding nothing to do.                    *)
(***************************************************************************)
LEMMA DoneAfterAdvance ==
  ASSUME Typed, DoneSoFar, release' = release, running, pc' = pc + 1,
         \A s \in Earlier(release, pc) : Holds(s) => Holds(s)',
         \A s : s = step => Holds(s)' \/ ToBeRecorded(s)',
         \A s : step.op = "finish" /\ s.op \in {"read", "fix"} /\ s.id = step.id => Holds(s)'
  PROVE  DoneSoFar'
<1>1. /\ pc \in Nat /\ LastStep(release) \in Nat /\ pc <= LastStep(release) /\ release \in Releases
      /\ step = Plan[release][pc]
  BY Current
<1>2. ASSUME NEW j \in 1..pc-1
      PROVE  Holds(Plan[release][j])' \/ ToBeRecorded(Plan[release][j])'
  <2>1. Plan[release][j] \in Earlier(release, pc)
    BY <1>1 DEF Earlier
  <2>2. CASE Holds(Plan[release][j])
    BY <2>1, <2>2
  <2>3. CASE ToBeRecorded(Plan[release][j])
    <3>1. PICK i \in pc..LastStep(release) : /\ Plan[release][i].op = "finish"
                                             /\ Plan[release][i].id = Plan[release][j].id
      BY <2>3 DEF ToBeRecorded
    <3>2. Plan[release][j].op \in {"read", "fix"}
      BY <2>3 DEF ToBeRecorded
    <3>3. CASE i = pc
      BY <1>1, <3>1, <3>2, <3>3
    <3>4. CASE i # pc
      <4>1. i \in pc+1..LastStep(release)
        BY <1>1, <3>4
      <4>2. QED
        BY <3>1, <3>2, <4>1 DEF ToBeRecorded
    <3>5. QED
      BY <3>3, <3>4
  <2>4. QED
    BY <2>2, <2>3 DEF DoneSoFar
<1>3. ASSUME NEW j \in 1..pc'-1
      PROVE  Holds(Plan[release][j])' \/ ToBeRecorded(Plan[release][j])'
  <2>1. CASE j = pc
    BY <1>1, <2>1
  <2>2. CASE j # pc
    <3>1. j \in 1..pc-1
      BY <1>1, <2>2
    <3>2. QED
      BY <1>2, <3>1
  <2>3. QED
    BY <2>1, <2>2
<1>4. QED
  BY <1>3 DEF DoneSoFar

LEMMA DoneAfterPass ==
  ASSUME Typed, DoneSoFar, Pass
  PROVE  DoneSoFar'
<1>1. /\ UNCHANGED <<release, deployed, roles, store, migrations>> /\ running
  BY DEF Pass, scriptVars
<1>2. /\ pc \in Nat /\ LastStep(release) \in Nat /\ pc <= LastStep(release)
  BY <1>1, Current
<1>3. /\ pc' \in pc+1..LastStep(release)+1
      /\ \A j \in pc..pc'-1 : Holds(Plan[release][j])
  BY PassTarget DEF NothingToDo
<1>4. ASSUME NEW j \in 1..pc'-1
      PROVE  Holds(Plan[release][j]) \/ ToBeRecorded(Plan[release][j])'
  <2>1. CASE j \in pc..pc'-1
    BY <1>3, <2>1
  <2>2. CASE j \in 1..pc-1 /\ ToBeRecorded(Plan[release][j])
    <3>1. PICK i \in pc..LastStep(release) : /\ Plan[release][i].op = "finish"
                                             /\ Plan[release][i].id = Plan[release][j].id
      BY <2>2 DEF ToBeRecorded
    <3>2. Plan[release][j].op \in {"read", "fix"}
      BY <2>2 DEF ToBeRecorded
    <3>3. CASE i \in pc..pc'-1
      <4>1. Plan[release][j].id \in migrations
        BY <1>3, <3>1, <3>3 DEF Holds
      <4>2. QED
        BY <3>2, <4>1 DEF Holds
    <3>4. CASE i \in pc'..LastStep(release)
      BY <1>1, <3>1, <3>2, <3>4 DEF ToBeRecorded
    <3>5. QED
      BY <1>2, <1>3, <3>3, <3>4
  <2>3. QED
    BY <1>2, <1>3, <2>1, <2>2 DEF DoneSoFar
<1>5. QED
  BY <1>1, <1>4, HoldsReads DEF DoneSoFar

LEMMA DoneAfterRunStep ==
  ASSUME Typed, DoneSoFar, Deploy \/ GrantRole \/ SetIfDifferent \/ ReadHolding \/ SetInventory \/ RecordMigration
  PROVE  DoneSoFar'
<1>1. release' = release /\ running /\ pc' = pc + 1
  BY DEF Deploy, GrantRole, SetIfDifferent, ReadHolding, SetInventory, RecordMigration, Pending, Advance
<1>2. /\ pc \in Nat /\ pc \in 1..LastStep(release) /\ release \in Releases
      /\ step = Plan[release][pc]
  BY <1>1, Current
<1>3. \A s \in Earlier(release, pc) : s \in Steps(release)
  BY <1>2, EarlierSteps
<1>4. ASSUME ReadHolding \/ SetInventory, NEW s
      PROVE  Holds(s)' <=> Holds(s)
  <2>1. UNCHANGED <<release, deployed, roles, store, migrations>>
    BY <1>4 DEF ReadHolding, SetInventory, Advance
  <2>2. QED
    BY <2>1, HoldsReads
<1>5. \A s \in Earlier(release, pc) : Holds(s) => Holds(s)'
  <2> SUFFICES ASSUME NEW s \in Earlier(release, pc), Holds(s)
               PROVE  Holds(s)'
    OBVIOUS
  <2>1. s \in Steps(release)
    BY <1>3
  <2>2. CASE Deploy
    BY <2>2, HoldsAfterDeploy
  <2>3. CASE GrantRole
    BY <2>3, HoldsAfterGrant
  <2>4. CASE SetIfDifferent
    BY <2>1, <2>4, HoldsAfterSet
  <2>5. CASE RecordMigration
    BY <2>5, HoldsAfterRecord
  <2>6. QED
    BY <1>4, <2>2, <2>3, <2>4, <2>5
<1>6. ASSUME NEW s, s = step
      PROVE  Holds(s)' \/ ToBeRecorded(s)'
  <2>1. CASE Deploy \/ GrantRole \/ SetIfDifferent \/ RecordMigration
    BY <1>6, <2>1, HoldsAfterStep
  <2>2. CASE ReadHolding \/ SetInventory
    <3>1. s.op \in {"read", "fix"}
      BY <1>6, <2>2 DEF ReadHolding, SetInventory, Pending
    <3>2. \E i \in pc+1..LastStep(release) : Plan[release][i].op = "finish" /\ Plan[release][i].id = s.id
      BY <1>2, <1>6, <3>1, DeploymentAssumption DEF RecordedAtTheEnd
    <3>3. QED
      BY <1>1, <3>1, <3>2 DEF ToBeRecorded
  <2>3. QED
    BY <2>1, <2>2
<1>7. \A s : step.op = "finish" /\ s.op \in {"read", "fix"} /\ s.id = step.id => Holds(s)'
  <2>1. step.op = "finish" => RecordMigration
    BY DEF Deploy, GrantRole, SetIfDifferent, ReadHolding, SetInventory, RecordMigration, Pending
  <2>2. QED
    BY <2>1 DEF RecordMigration, Holds
<1>8. QED
  BY <1>1, <1>5, <1>6, <1>7, DoneAfterAdvance

LEMMA NextDone ==
  ASSUME Typed, DoneSoFar, [Next]_vars
  PROVE  DoneSoFar'
<1>1. Typed'
  BY NextTyped
<1>2. CASE pc' \in {0, 1}
  <2>1. pc' = 0 \/ pc' = 1
    BY <1>2
  <2>2. \A j \in 1..pc'-1 : FALSE
    BY <2>1
  <2>3. QED
    BY <2>2 DEF DoneSoFar
<1>3. CASE UNCHANGED <<release, pc, deployed, roles, store, migrations>>
  <2>1. \A s : Holds(s)' <=> Holds(s)
    BY <1>3, HoldsReads
  <2>2. \A s : ToBeRecorded(s)' <=> ToBeRecorded(s)
    BY <1>3 DEF ToBeRecorded
  <2>3. QED
    BY <1>3, <2>1, <2>2 DEF DoneSoFar
<1>4. CASE HandOver
  <2>1. pc = LastStep(release) + 1 /\ UNCHANGED <<release, pc>> /\ release \in Releases
    BY <1>4 DEF HandOver, finished, Typed, TypeOK
  <2>2. LastStep(release) \in Nat
    BY <2>1, PlanSteps
  <2>3. ASSUME NEW j \in 1..pc-1
        PROVE  Holds(Plan[release][j])'
    <3>1. Plan[release][j] \in Steps(release)
      BY <2>1, <2>2, PlanSteps
    <3>2. ~ToBeRecorded(Plan[release][j])
      BY <2>1, <2>2 DEF ToBeRecorded
    <3>3. Holds(Plan[release][j])
      BY <3>2 DEF DoneSoFar
    <3>4. \A s \in Steps(release) : Holds(s) => Holds(s)'
      BY <1>4, HoldsAfterHandOver
    <3>5. QED
      BY <2>1, <3>1, <3>3, <3>4
  <2>4. QED
    BY <2>1, <2>3 DEF DoneSoFar
<1>5. CASE Pass
  BY <1>5, DoneAfterPass
<1>6. CASE Deploy \/ GrantRole \/ SetIfDifferent \/ ReadHolding \/ SetInventory \/ RecordMigration
  BY <1>6, DoneAfterRunStep
<1>7. CASE Start \/ Fail \/ Crash \/ NextRelease
  BY <1>2, <1>7 DEF Start, Fail, Crash, NextRelease
<1>8. CASE Trade \/ UNCHANGED vars
  BY <1>3, <1>8 DEF Trade, vars
<1>9. QED
  BY <1>4, <1>5, <1>6, <1>7, <1>8 DEF Next, RunStep

LEMMA InitDone == Init => DoneSoFar
BY DEF Init, DoneSoFar

LEMMA AlwaysDone == Spec => [](Typed /\ DoneSoFar)
<1>1. Typed /\ DoneSoFar /\ [Next]_vars => (Typed /\ DoneSoFar)'
  BY NextTyped, NextDone
<1>2. QED
  BY InitTyped, InitDone, <1>1, PTL DEF Spec

(* When a run gets to its end, every step of its plan would find nothing to  *)
(* do if it were looked at again, whatever crashed runs and earlier releases *)
(* had left on chain.                                                        *)
THEOREM DeploymentDoneMeansConfigured == Spec => []DoneMeansConfigured
<1>1. Typed /\ DoneSoFar => DoneMeansConfigured
  <2> SUFFICES ASSUME Typed, DoneSoFar, finished, NEW s \in Steps(release)
               PROVE  Holds(s)
    BY DEF DoneMeansConfigured
  <2>1. pc = LastStep(release) + 1 /\ LastStep(release) \in Nat
    BY PlanSteps DEF finished, Typed, TypeOK
  <2>2. PICK j \in 1..LastStep(release) : s = Plan[release][j]
    BY DEF Steps
  <2>3. j \in 1..pc-1 /\ ~ToBeRecorded(s)
    BY <2>1, <2>2 DEF ToBeRecorded
  <2>4. QED
    BY <2>2, <2>3 DEF DoneSoFar
<1>2. QED
  BY AlwaysDone, <1>1, PTL

-----------------------------------------------------------------------------
(* Guards *)

(***************************************************************************)
(* What a plan puts before the step that is taken holds now, unless it is  *)
(* a reading of a script that runs once.                                   *)
(***************************************************************************)
LEMMA EarlierHolds ==
  ASSUME Typed, DoneSoFar, running, NEW s \in Earlier(release, pc), s.op \notin {"read", "fix"}
  PROVE  Holds(s)
<1>1. release \in Releases /\ pc \in 1..LastStep(release)
  BY Current
<1>2. PICK i \in 1..pc-1 : s = Plan[release][i]
  BY <1>1, EarlierSteps
<1>3. QED
  BY <1>2 DEF DoneSoFar, ToBeRecorded

LEMMA InitGuarded == Init => MarketsAreGuarded
<1> SUFFICES ASSUME Init, NEW p \in Guards, store[p[1]] # 0
             PROVE  store[p[2]] # 0
  BY DEF MarketsAreGuarded
<1>1. release \in Releases /\ p[1] \in Keys /\ p[2] \in Keys
  BY InitTyped, DeploymentAssumption DEF Typed, TypeOK, GuardsFirst
<1>2. ~EmptyChain
  BY <1>1 DEF EmptyChain
<1>3. store = [k \in Keys |-> IF \E s \in Steps(release) : Sets(s, k) THEN SetStep(release, k).value ELSE 0]
  BY <1>2 DEF Init, ChainOf
<1>4. \A k \in Keys : (\E s \in Steps(release) : Sets(s, k)) =>
        SetStep(release, k) \in Steps(release) /\ Sets(SetStep(release, k), k)
  BY DEF SetStep
<1>5. PICK s \in Steps(release) : Sets(s, p[1]) /\ s.value # 0
  BY <1>1, <1>3, <1>4
<1>6. PICK j \in 1..LastStep(release) : s = Plan[release][j]
  BY DEF Steps
<1>7. PICK t \in Earlier(release, j) : Sets(t, p[2])
  BY <1>1, <1>5, <1>6, DeploymentAssumption DEF GuardsFirst
<1>8. t \in Steps(release)
  BY <1>1, EarlierSteps
<1>9. SetStep(release, p[2]) \in Steps(release) /\ Sets(SetStep(release, p[2]), p[2])
  BY <1>1, <1>4, <1>7, <1>8
<1>10. SetStep(release, p[2]).value # 0
  BY <1>1, <1>9, DeploymentAssumption DEF GuardsFirst, Steps
<1>11. QED
  BY <1>1, <1>3, <1>7, <1>8, <1>10

LEMMA NextGuarded ==
  ASSUME Typed, DoneSoFar, MarketsAreGuarded, [Next]_vars
  PROVE  MarketsAreGuarded'
<1> SUFFICES ASSUME NEW p \in Guards, store'[p[1]] # 0
             PROVE  store'[p[2]] # 0
  BY DEF MarketsAreGuarded
<1>1. p[1] \in Keys /\ p[2] \in Keys /\ p[1][1] = p[2][1] /\ store \in [Keys -> Int]
  BY DeploymentAssumption DEF GuardsFirst, Typed, TypeOK
<1>2. CASE Deploy
  BY <1>1, <1>2 DEF Deploy, MarketsAreGuarded
<1>3. CASE SetIfDifferent
  <2>1. /\ running /\ step.op = "set" /\ store' = [store EXCEPT ![step.key] = step.value]
    BY <1>3 DEF SetIfDifferent, Pending
  <2>2. /\ release \in Releases /\ pc \in 1..LastStep(release) /\ step = Plan[release][pc]
    BY <2>1, Current
  <2>3. CASE step.key = p[2]
    <3>1. Sets(Plan[release][pc], p[2])
      BY <2>1, <2>2, <2>3 DEF Sets
    <3>2. step.value # 0
      BY <2>2, <3>1, DeploymentAssumption DEF GuardsFirst
    <3>3. QED
      BY <1>1, <2>1, <2>3, <3>2
  <2>4. CASE step.key = p[1] /\ step.key # p[2]
    <3>1. Sets(Plan[release][pc], p[1]) /\ step.value # 0
      BY <1>1, <2>1, <2>2, <2>4 DEF Sets
    <3>2. PICK t \in Earlier(release, pc) : Sets(t, p[2])
      BY <2>2, <3>1, DeploymentAssumption DEF GuardsFirst
    <3>3. store[p[2]] = t.value
      BY <2>1, <3>2, EarlierHolds DEF Sets, Holds
    <3>4. t.value # 0
      <4>1. PICK i \in 1..pc-1 : t = Plan[release][i]
        BY <2>2, <3>2, EarlierSteps
      <4>2. i \in 1..LastStep(release)
        BY <2>2, PlanSteps
      <4>3. QED
        BY <2>2, <3>2, <4>1, <4>2, DeploymentAssumption DEF GuardsFirst
    <3>5. QED
      BY <1>1, <2>1, <2>4, <3>3, <3>4
  <2>5. CASE step.key \notin {p[1], p[2]}
    BY <1>1, <2>1, <2>5 DEF MarketsAreGuarded
  <2>6. QED
    BY <2>3, <2>4, <2>5
<1>4. CASE UNCHANGED store
  BY <1>4 DEF MarketsAreGuarded
<1>5. QED
  BY <1>2, <1>3, <1>4, ChainSteps DEF GrantRole, HandOver

(* At every moment of every run, also after a crash in the middle of one, a  *)
(* market is never open without what limits it.                              *)
THEOREM DeploymentMarketsAreGuarded == Spec => []MarketsAreGuarded
<1>1. Typed /\ DoneSoFar /\ MarketsAreGuarded /\ [Next]_vars => MarketsAreGuarded'
  BY NextGuarded
<1>2. QED
  BY InitGuarded, <1>1, AlwaysDone, PTL DEF Spec

-----------------------------------------------------------------------------
(* Instances *)

(* An instance that is on chain, not just a name and a number. *)
OnChain(i) == i \in Instances /\ i[2] <= Len(deployed[i[1]])

(***************************************************************************)
(* Any function on chain that is recorded as n after a step was so before. *)
(***************************************************************************)
LEMMA RecordedBefore ==
  ASSUME Typed, [Next]_vars, NEW n, NEW i, OnChain(i), i = Instance(n)'
  PROVE  i = Instance(n) /\ n \in Contracts /\ ~(Deploy /\ step.name = n)
<1>1. n \in Contracts /\ i[1] = n /\ i[2] = Len(deployed'[n]) /\ i[2] <= Len(deployed[n])
  BY DEF OnChain, Instances, Instance
<1>2. Len(deployed[n]) <= Len(deployed'[n]) /\ Len(deployed[n]) \in Nat /\ Len(deployed'[n]) \in Nat
  BY <1>1, Grows, Lengths, RecordTyped DEF Grown, Typed, Recorded
<1>3. Len(deployed'[n]) = Len(deployed[n])
  BY <1>1, <1>2
<1>4. i = Instance(n)
  BY <1>1, <1>3 DEF Instance
<1>5. ~(Deploy /\ step.name = n)
  BY <1>2, <1>3, Appended
<1>6. QED
  BY <1>1, <1>4, <1>5

LEMMA BuiltOnChain ==
  ASSUME Typed, NEW i, OnChain(i)
  PROVE  /\ i = <<i[1], i[2]>> /\ i[1] \in Contracts /\ i[2] \in 1..Len(deployed[i[1]])
         /\ Built(i) \in Builds
         /\ \A u \in Built(i).uses : OnChain(u)
<1>1. i = <<i[1], i[2]>> /\ i[1] \in Contracts /\ i[2] \in Nat \ {0}
  BY DEF OnChain, Instances
<1>2. deployed[i[1]] \in Seq(Builds) /\ Len(deployed[i[1]]) \in Nat
  BY <1>1, Lengths DEF Typed
<1>3. i[2] \in 1..Len(deployed[i[1]])
  BY <1>1, <1>2 DEF OnChain
<1>4. Built(i) \in Builds
  BY <1>2, <1>3 DEF Built
<1>5. ASSUME NEW u \in Built(i).uses
      PROVE  OnChain(u)
  <2>1. u \in Instances
    BY <1>4 DEF Builds
  <2>2. u[2] \in 1..Len(deployed[u[1]]) /\ u[1] \in Contracts
    BY <1>1, <1>3 DEF Typed, TypeOK, Built
  <2>3. Len(deployed[u[1]]) \in Nat
    BY <2>2, Lengths DEF Typed
  <2>4. QED
    BY <2>1, <2>2, <2>3 DEF OnChain
<1>6. QED
  BY <1>1, <1>3, <1>4, <1>5

LEMMA StaysOnChain ==
  ASSUME Typed, [Next]_vars, NEW i, OnChain(i)
  PROVE  /\ OnChain(i)'
         /\ Built(i)' = Built(i)
         /\ \A registry, role : Granted(registry, i, role) => Granted(registry, i, role)'
         /\ \A role : HasRole(i, role) => HasRole(i, role)'
<1>1. i = <<i[1], i[2]>> /\ i[1] \in Contracts /\ i[2] \in 1..Len(deployed[i[1]])
  BY BuiltOnChain
<1>2. Len(deployed[i[1]]) <= Len(deployed'[i[1]]) /\ Len(deployed[i[1]]) \in Nat /\ Len(deployed'[i[1]]) \in Nat
  BY <1>1, Grows, Lengths, RecordTyped DEF Grown, Typed, Recorded
<1>3. OnChain(i)'
  BY <1>1, <1>2 DEF OnChain
<1>4. Built(i)' = Built(i)
  BY <1>1, Grows DEF Grown, Built
<1>5. \A registry, role : Granted(registry, i, role) => Granted(registry, i, role)'
  BY <1>1, Grows, Zenon DEF Grown
<1>6. \A role : HasRole(i, role) => HasRole(i, role)'
  BY <1>4, <1>5 DEF HasRole
<1>7. QED
  BY <1>3, <1>4, <1>5, <1>6

LEMMA RouterOnChain ==
  ASSUME Typed, NEW r
  PROVE  r \in Routers <=> OnChain(r) /\ r[1] = "ExchangeRouter"
<1>1. "ExchangeRouter" \in Contracts
  BY DeploymentAssumption DEF PlansTyped
<1>2. Len(deployed["ExchangeRouter"]) \in Nat
  BY <1>1, Lengths DEF Typed
<1>3. QED
  BY <1>1, <1>2 DEF Routers, OnChain, Instances

-----------------------------------------------------------------------------
(* Service *)

(***************************************************************************)
(* A router comes into service by the grant of its last role, to the       *)
(* router that is recorded then.                                           *)
(***************************************************************************)
Admits(r) ==
  /\ GrantRole /\ step.op = "grant"
  /\ step.account = "ExchangeRouter" /\ step.role \in {"CONTROLLER", "ROUTER_PLUGIN"}
  /\ r = Instance("ExchangeRouter")

LEMMA EntersService ==
  ASSUME Typed, [Next]_vars, NEW r, r \in Routers', InService(r)'
  PROVE  r \in Routers /\ OnChain(r) /\ (InService(r) \/ Admits(r))
<1>1. PICK g \in 1..Len(deployed'["ExchangeRouter"]) : r = <<"ExchangeRouter", g>>
  BY DEF Routers
<1>2. /\ "ExchangeRouter" \in Contracts /\ Operator \notin Contracts
      /\ Len(deployed["ExchangeRouter"]) \in Nat /\ Len(deployed'["ExchangeRouter"]) \in Nat
  BY DeploymentAssumption, Lengths, RecordTyped DEF PlansTyped, Typed, Recorded
<1>3. ASSUME NEW u, NEW role, Deploy, Granted(u, r, role)'
      PROVE  Granted(u, r, role)
  <2>1. <<u, r, role>> # << <<"RoleStore", Len(deployed["RoleStore"]) + 1>>, <<Operator, 0>>, "ROLE_ADMIN" >>
    BY <1>1, <1>2
  <2>2. QED
    BY <1>3, <2>1 DEF Deploy, Granted
<1>4. g <= Len(deployed["ExchangeRouter"])
  <2>1. CASE deployed'["ExchangeRouter"] = deployed["ExchangeRouter"]
    BY <1>2, <2>1
  <2>2. CASE Deploy
    <3>1. PICK u : Granted(u, r, "CONTROLLER")'
      BY DEF InService, HasRole
    <3>2. Granted(u, <<"ExchangeRouter", g>>, "CONTROLLER")
      BY <1>1, <1>3, <2>2, <3>1
    <3>3. QED
      BY <1>2, <3>2 DEF Typed, RolesKnown
  <2>3. QED
    BY <2>1, <2>2, ChainSteps DEF GrantRole, SetIfDifferent, HandOver
<1>5. r \in Routers /\ OnChain(r)
  <2>1. r \in Routers
    BY <1>1, <1>2, <1>4 DEF Routers
  <2>2. QED
    BY <2>1, RouterOnChain
<1>6. Built(r)' = Built(r)
  BY <1>5, StaysOnChain
<1>7. ASSUME NEW role \in {"CONTROLLER", "ROUTER_PLUGIN"}, HasRole(r, role)', ~HasRole(r, role)
      PROVE  Admits(r)
  <2>1. PICK u : Granted(u, r, role)' /\ ~Granted(u, r, role)
    BY <1>6, <1>7 DEF HasRole
  <2>2. CASE GrantRole
    <3>1. step.op = "grant" /\ <<u, r, role>> = <<Instance(step.at), Instance(step.account), step.role>>
      BY <2>1, <2>2 DEF GrantRole, Pending, Granted
    <3>2. r = Instance(step.account) /\ role = step.role /\ Instance(step.account)[1] = step.account
      BY <3>1 DEF Instance
    <3>3. step.account = "ExchangeRouter"
      BY <1>1, <3>2
    <3>4. QED
      BY <1>7, <2>2, <3>1, <3>2, <3>3 DEF Admits
  <2>3. CASE roles' \subseteq roles
    BY <2>1, <2>3 DEF Granted
  <2>4. QED
    BY <1>3, <2>1, <2>2, <2>3, ChainSteps DEF SetIfDifferent, HandOver
<1>8. QED
  BY <1>5, <1>7 DEF InService

(***************************************************************************)
(* A router that finds what it needs goes on finding it.                   *)
(***************************************************************************)
WellServed(r) ==
  /\ \A h \in Built(r).uses : h[1] \in Handlers => Serves(h)
  /\ OnRecordedStore(r) => \A k \in NeededKeys : store[k] # 0

LEMMA ServesOn ==
  ASSUME Typed, [Next]_vars, NEW h, OnChain(h), Serves(h)
  PROVE  Serves(h)'
<1>1. Built(h)' = Built(h) /\ HasRole(h, "CONTROLLER")'
  BY StaysOnChain DEF Serves
<1>2. ASSUME NEW u \in Built(h).uses
      PROVE  /\ u[1] \in {"Oracle", "SwapHandler"} => HasRole(u, "CONTROLLER")'
             /\ u[1] = "ReferralStorage" => Granted(u, h, "handler")'
  <2>1. OnChain(u)
    BY BuiltOnChain
  <2>2. HasRole(u, "CONTROLLER") => HasRole(u, "CONTROLLER")'
    BY <2>1, StaysOnChain
  <2>3. Granted(u, h, "handler") => Granted(u, h, "handler")'
    BY StaysOnChain
  <2>4. QED
    BY <2>2, <2>3 DEF Serves
<1>3. QED
  BY <1>1, <1>2 DEF Serves

LEMMA StaysWellServed ==
  ASSUME Typed, [Next]_vars, NEW r, OnChain(r), WellServed(r)
  PROVE  WellServed(r)'
<1>1. Built(r)' = Built(r) /\ \A u \in Built(r).uses : OnChain(u)
  BY StaysOnChain, BuiltOnChain
<1>2. \A h \in Built(r).uses : h[1] \in Handlers => Serves(h)'
  BY <1>1, ServesOn DEF WellServed
<1>3. ASSUME OnRecordedStore(r)', NEW k \in NeededKeys
      PROVE  store'[k] # 0
  <2>1. PICK i \in Built(r).uses : i = Instance("DataStore")'
    BY <1>1, <1>3 DEF OnRecordedStore
  <2>2. i = Instance("DataStore") /\ ~(Deploy /\ step.name = "DataStore")
    BY <1>1, <2>1, RecordedBefore
  <2>3. store[k] # 0
    BY <2>2 DEF OnRecordedStore, WellServed
  <2>4. k \in Keys /\ k[1] = "DataStore" /\ store \in [Keys -> Int]
    BY DeploymentAssumption DEF NeededKeysSet, Typed, TypeOK
  <2>5. CASE Deploy
    BY <2>2, <2>3, <2>4, <2>5 DEF Deploy
  <2>6. CASE SetIfDifferent
    <3>1. /\ running /\ step.op = "set" /\ store' = [store EXCEPT ![step.key] = step.value]
      BY <2>6 DEF SetIfDifferent, Pending
    <3>2. release \in Releases /\ step \in Steps(release)
      BY <3>1, Current
    <3>3. step.key = k => step.value # 0
      BY <3>1, <3>2, DeploymentAssumption DEF NeededKeysSet
    <3>4. QED
      BY <2>3, <2>4, <3>1, <3>3
  <2>7. CASE store' = store
    BY <2>3, <2>7
  <2>8. QED
    BY <2>5, <2>6, <2>7, ChainSteps DEF GrantRole, HandOver
<1>4. QED
  BY <1>1, <1>2, <1>3 DEF WellServed

(***************************************************************************)
(* The order of a plan as a fact about the chain: done are steps of the    *)
(* plan that hold.                                                         *)
(***************************************************************************)
Kept(done) ==
  /\ done \subseteq Steps(release)
  /\ \A s \in done : s.op \in {"deploy", "grant", "set"} => Holds(s)

LEMMA BuiltByPlan ==
  ASSUME Typed, NEW done, Kept(done), NEW n, NEW s \in done, Deploys(s, n)
  PROVE  /\ Instance(n)[1] = n
         /\ Built(Instance(n)).uses = {Instance(u) : u \in s.uses}
<1>1. s.op = "deploy" /\ s.name = n /\ Holds(s) /\ StepTyped(s)
  BY DeploymentAssumption DEF Kept, Deploys, Typed, TypeOK, PlansTyped
<1>2. n \in Contracts /\ deployed[n][Len(deployed[n])] = Build(n, s.uses)
  BY <1>1 DEF Holds, StepTyped
<1>3. QED
  BY <1>2 DEF Instance, Built, Build

LEMMA MayActNow ==
  ASSUME Typed, NEW done, Kept(done), NEW n, MayAct(done, n)
  PROVE  HasRole(Instance(n), "CONTROLLER")
<1>1. PICK s \in done : Deploys(s, n) /\ "RoleStore" \in s.uses
  BY DEF MayAct
<1>2. PICK g \in done : Grants(g, "RoleStore", n, "CONTROLLER")
  BY DEF MayAct
<1>3. Granted(Instance("RoleStore"), Instance(n), "CONTROLLER")
  BY <1>2 DEF Kept, Grants, Holds
<1>4. Instance("RoleStore") \in Built(Instance(n)).uses
  BY <1>1, BuiltByPlan
<1>5. Instance("RoleStore")[1] = "RoleStore"
  BY DEF Instance
<1>6. QED
  BY <1>3, <1>4, <1>5 DEF HasRole

LEMMA ServesNow ==
  ASSUME Typed, NEW done, Kept(done), NEW n, ReadyToServe(done, n)
  PROVE  Serves(Instance(n))
<1>1. MayAct(done, n) /\ HasRole(Instance(n), "CONTROLLER")
  BY MayActNow DEF ReadyToServe
<1>2. PICK s \in done : Deploys(s, n)
  BY <1>1 DEF MayAct
<1>3. ASSUME NEW u \in Built(Instance(n)).uses
      PROVE  /\ u[1] \in {"Oracle", "SwapHandler"} => HasRole(u, "CONTROLLER")
             /\ u[1] = "ReferralStorage" => Granted(u, Instance(n), "handler")
  <2>1. PICK m \in s.uses : u = Instance(m)
    BY <1>2, <1>3, BuiltByPlan
  <2>2. u[1] = m
    BY <2>1 DEF Instance
  <2>3. ASSUME m \in {"Oracle", "SwapHandler"}
        PROVE  HasRole(u, "CONTROLLER")
    BY <1>2, <2>1, <2>3, MayActNow DEF ReadyToServe
  <2>4. ASSUME m = "ReferralStorage"
        PROVE  Granted(u, Instance(n), "handler")
    <3>1. PICK g \in done : Grants(g, m, n, "handler")
      BY <1>2, <2>1, <2>4 DEF ReadyToServe
    <3>2. QED
      BY <2>1, <3>1 DEF Kept, Grants, Holds
  <2>5. QED
    BY <2>2, <2>3, <2>4
<1>4. QED
  BY <1>1, <1>3 DEF Serves

LEMMA ServedByPlan ==
  ASSUME Typed, NEW j \in 1..LastStep(release), Kept(Earlier(release, j)),
         Plan[release][j].op = "grant", Plan[release][j].account = "ExchangeRouter",
         Plan[release][j].role \in {"CONTROLLER", "ROUTER_PLUGIN"}
  PROVE  WellServed(Instance("ExchangeRouter"))
<1> DEFINE done == Earlier(release, j)
           router == Instance("ExchangeRouter")
<1>1. release \in Releases
  BY DEF Typed, TypeOK
<1>2. /\ \E d \in done : Deploys(d, "ExchangeRouter") /\ \A h \in d.uses \cap Handlers : ReadyToServe(done, h)
      /\ \A k \in NeededKeys : \E t \in done : Sets(t, k)
  BY <1>1, DeploymentAssumption DEF RoutersLast
<1>3. PICK d \in done : Deploys(d, "ExchangeRouter") /\ \A h \in d.uses \cap Handlers : ReadyToServe(done, h)
  BY <1>2
<1>4. ASSUME NEW h \in Built(router).uses, h[1] \in Handlers
      PROVE  Serves(h)
  <2>1. PICK n \in d.uses : h = Instance(n)
    BY <1>3, <1>4, BuiltByPlan
  <2>2. n \in Handlers
    BY <1>4, <2>1 DEF Instance
  <2>3. QED
    BY <1>3, <2>1, <2>2, ServesNow
<1>5. ASSUME NEW k \in NeededKeys
      PROVE  store[k] # 0
  <2>1. PICK t \in done : Sets(t, k)
    BY <1>2
  <2>2. t \in Steps(release) /\ store[k] = t.value
    BY <2>1 DEF Kept, Sets, Holds
  <2>3. QED
    BY <1>1, <2>1, <2>2, DeploymentAssumption DEF NeededKeysSet, Sets
<1>6. QED
  BY <1>4, <1>5 DEF WellServed

(***************************************************************************)
(* On a chain that a run of r left, every step of r holds.                 *)
(***************************************************************************)
LEMMA ChainHolds ==
  ASSUME Init, ChainOf(release), NEW s \in Steps(release), s.op \in {"deploy", "grant", "set"}
  PROVE  Holds(s)
<1>1. Typed /\ release \in Releases /\ StepTyped(s)
  BY InitTyped, DeploymentAssumption DEF Typed, TypeOK, PlansTyped
<1>2. PICK j \in 1..LastStep(release) : s = Plan[release][j]
  BY DEF Steps
<1>3. ASSUME NEW n, NEW d \in Earlier(release, j), Deploys(d, n)
      PROVE  Instance(n) = FirstInstance(n) /\ n \in Contracts
  <2>1. d \in Steps(release) /\ d.op = "deploy" /\ d.name = n
    BY <1>1, <1>3, EarlierSteps DEF Deploys
  <2>2. Len(deployed[n]) = 1
    BY <1>1, <2>1, ChainDeployed
  <2>3. n \in Contracts
    BY <1>1, <2>1, DeploymentAssumption DEF PlansTyped, StepTyped
  <2>4. QED
    BY <2>2, <2>3 DEF Instance, FirstInstance
<1>4. CASE s.op = "deploy"
  <2>1. \A u \in s.uses : \E d \in Earlier(release, j) : Deploys(d, u)
    BY <1>1, <1>2, <1>4, DeploymentAssumption DEF DeployedBeforeUse
  <2>2. \A u \in s.uses : Instance(u) = FirstInstance(u)
    BY <1>3, <2>1
  <2>3. {Instance(u) : u \in s.uses} = {FirstInstance(u) : u \in s.uses}
    BY <2>2
  <2>4. /\ Len(deployed[s.name]) = 1
        /\ deployed[s.name][1] = [code |-> Code[release][s.name], uses |-> {FirstInstance(u) : u \in s.uses}]
    BY <1>1, <1>4, ChainDeployed
  <2>5. deployed[s.name] # <<>>
    BY <2>4
  <2>6. deployed[s.name][1] = Build(s.name, s.uses)
    BY <2>3, <2>4 DEF Build
  <2>7. QED
    BY <1>4, <2>4, <2>5, <2>6 DEF Holds
<1>5. CASE s.op = "grant"
  <2>1. \A n \in {s.at, s.account} \cap Contracts : \E d \in Earlier(release, j) : Deploys(d, n)
    BY <1>1, <1>2, <1>5, DeploymentAssumption DEF ServedCalls
  <2>2. Instance(s.at) = FirstInstance(s.at)
    BY <1>1, <1>3, <1>5, <2>1 DEF StepTyped
  <2>3. Instance(s.account) = FirstInstance(s.account)
    <3>1. CASE s.account \in Contracts
      BY <1>3, <2>1, <3>1
    <3>2. CASE s.account \notin Contracts
      BY <3>2 DEF Instance, FirstInstance
    <3>3. QED
      BY <3>1, <3>2
  <2>4. <<FirstInstance(s.at), FirstInstance(s.account), s.role>> \in roles
    BY <1>5 DEF ChainOf
  <2>5. QED
    BY <1>5, <2>2, <2>3, <2>4 DEF Holds, Granted
<1>6. CASE s.op = "set"
  <2>1. Sets(s, s.key) /\ s.key \in Keys
    BY <1>1, <1>6 DEF Sets, StepTyped
  <2>2. SetStep(release, s.key) \in Steps(release) /\ Sets(SetStep(release, s.key), s.key)
    BY <2>1 DEF SetStep
  <2>3. SetStep(release, s.key).value = s.value
    BY <1>1, <1>6, <2>2, SetOnce DEF Sets
  <2>4. store[s.key] = SetStep(release, s.key).value
    BY <2>1 DEF ChainOf
  <2>5. QED
    BY <1>6, <2>3, <2>4 DEF Holds
<1>7. QED
  BY <1>4, <1>5, <1>6

LEMMA EarlierKept ==
  ASSUME Typed, DoneSoFar, running
  PROVE  Kept(Earlier(release, pc)) /\ release \in Releases /\ pc \in 1..LastStep(release)
         /\ step = Plan[release][pc]
<1>1. /\ release \in Releases /\ pc \in 1..LastStep(release) /\ step = Plan[release][pc]
  BY Current
<1>2. Earlier(release, pc) \subseteq Steps(release)
  BY <1>1, EarlierSteps
<1>3. QED
  BY <1>1, <1>2, EarlierHolds DEF Kept

LEMMA InitKept ==
  ASSUME Init, ChainOf(release), NEW j \in 1..LastStep(release)
  PROVE  Kept(Earlier(release, j))
<1>1. release \in Releases
  BY InitTyped DEF Typed, TypeOK
<1>2. Earlier(release, j) \subseteq Steps(release)
  BY <1>1, EarlierSteps
<1>3. QED
  BY <1>2, ChainHolds DEF Kept

(***************************************************************************)
(* A router that is in service on a chain found by the first run was       *)
(* granted its role by a step of the plan, and is the recorded one.        *)
(***************************************************************************)
LEMMA InitRouters ==
  ASSUME Init, NEW r \in Routers, InService(r)
  PROVE  /\ ChainOf(release) /\ r = Instance("ExchangeRouter")
         /\ \E j \in 1..LastStep(release) :
              /\ Plan[release][j].op = "grant" /\ Plan[release][j].account = "ExchangeRouter"
              /\ Plan[release][j].role \in {"CONTROLLER", "ROUTER_PLUGIN"}
<1>1. Typed /\ release \in Releases /\ "ExchangeRouter" \in Contracts /\ Operator \notin Contracts
  BY InitTyped, DeploymentAssumption DEF Typed, TypeOK, PlansTyped
<1>2. PICK g \in 1..Len(deployed["ExchangeRouter"]) : r = <<"ExchangeRouter", g>>
  BY DEF Routers
<1>3. PICK u : <<u, r, "CONTROLLER">> \in roles
  BY DEF InService, HasRole, Granted
<1>4. ChainOf(release)
  BY <1>3 DEF Init, EmptyChain
<1>5. <<u, r, "CONTROLLER">> # << <<"RoleStore", 1>>, <<Operator, 0>>, "ROLE_ADMIN" >>
  BY <1>1, <1>2
<1>6. PICK s \in Steps(release) : s.op = "grant" /\ r = FirstInstance(s.account) /\ s.role = "CONTROLLER"
  BY <1>3, <1>4, <1>5 DEF ChainOf
<1>7. s.account = "ExchangeRouter" /\ g = 1
  BY <1>2, <1>6 DEF FirstInstance
<1>8. r = Instance("ExchangeRouter")
  <2>1. PICK d \in Steps(release) : Len(deployed["ExchangeRouter"]) = 1
    <3>1. deployed["ExchangeRouter"] # <<>>
      <4>1. Len(deployed["ExchangeRouter"]) # 0
        BY <1>1, <1>2, Lengths DEF Typed
      <4>2. QED
        BY <4>1
    <3>2. QED
      BY <1>1, <1>4, <3>1, ChainDeployed
  <2>2. QED
    BY <1>1, <1>2, <1>7, <2>1 DEF Instance
<1>9. QED
  BY <1>4, <1>6, <1>7, <1>8 DEF Steps

LEMMA InitServed == Init => RoutersAreServed
<1> SUFFICES ASSUME Init, NEW r \in Routers, InService(r)
             PROVE  WellServed(r)
  BY DEF RoutersAreServed, WellServed
<1>1. Typed
  BY InitTyped
<1>2. /\ ChainOf(release) /\ r = Instance("ExchangeRouter")
      /\ \E j \in 1..LastStep(release) :
           /\ Plan[release][j].op = "grant" /\ Plan[release][j].account = "ExchangeRouter"
           /\ Plan[release][j].role \in {"CONTROLLER", "ROUTER_PLUGIN"}
  BY InitRouters
<1>3. QED
  BY <1>1, <1>2, InitKept, ServedByPlan

LEMMA NextServed ==
  ASSUME Typed, DoneSoFar, RoutersAreServed, [Next]_vars
  PROVE  RoutersAreServed'
<1> SUFFICES ASSUME NEW r \in Routers', InService(r)'
             PROVE  WellServed(r)'
  BY DEF RoutersAreServed, WellServed
<1>1. r \in Routers /\ OnChain(r) /\ (InService(r) \/ Admits(r))
  BY EntersService
<1>2. CASE InService(r)
  <2>1. WellServed(r)
    BY <1>1, <1>2 DEF RoutersAreServed, WellServed
  <2>2. QED
    BY <1>1, <2>1, StaysWellServed
<1>3. CASE Admits(r)
  <2>1. running
    BY <1>3 DEF Admits, GrantRole, Pending
  <2>2. WellServed(Instance("ExchangeRouter"))
    BY <1>3, <2>1, EarlierKept, ServedByPlan DEF Admits
  <2>3. QED
    BY <1>1, <1>3, <2>2, StaysWellServed DEF Admits
<1>4. QED
  BY <1>1, <1>2, <1>3

(* A router that users can reach has handlers that may act, with an oracle   *)
(* and a swap handler that may act, and finds the settings it needs on the   *)
(* storage that the scripts configure; through crashes, redeployments and    *)
(* the hand over, and also for the routers that earlier releases left.       *)
THEOREM DeploymentRoutersAreServed == Spec => []RoutersAreServed
<1>1. Typed /\ DoneSoFar /\ RoutersAreServed /\ [Next]_vars => RoutersAreServed'
  BY NextServed
<1>2. QED
  BY InitServed, <1>1, AlwaysDone, PTL DEF Spec

-----------------------------------------------------------------------------
(* Signers *)

SignersNow == {k \in Signers : store[k] = 1}

(* The signers of some release are all there. *)
SomeSigners == \E q \in Releases : Added(q) \subseteq SignersNow

(* The number of signatures is one that a release sets. *)
MinSet ==
  \/ store[MinSignersKey] = 0
  \/ \E q \in Releases : \E s \in Steps(q) : Sets(s, MinSignersKey) /\ store[MinSignersKey] = s.value

Asking(r) == InService(r) /\ AsksSigners(r)

SignersKept == MinSet /\ \A r \in Routers : Asking(r) => SomeSigners

LEMMA SignersSuffice == Typed /\ SignersKept => EnoughSigners
<1> SUFFICES ASSUME Typed, SignersKept, NEW r \in Routers, Asking(r)
             PROVE  Cardinality(SignersNow) >= store[MinSignersKey]
  BY DEF EnoughSigners, SignersNow, Asking
<1>1. PICK q \in Releases : Added(q) \subseteq SignersNow
  BY DEF SignersKept, SomeSigners
<1>2. IsFiniteSet(Signers) /\ SignersNow \subseteq Signers
  BY DeploymentAssumption DEF SignersAddedFirst, SignersNow
<1>3. IsFiniteSet(SignersNow)
  BY <1>2, FS_Subset
<1>4. /\ Cardinality(SignersNow) \in Nat /\ Cardinality(Added(q)) \in Nat
      /\ Cardinality(Added(q)) <= Cardinality(SignersNow)
  BY <1>1, <1>3, FS_Subset, FS_CardinalityType
<1>5. CASE store[MinSignersKey] = 0
  BY <1>4, <1>5
<1>6. CASE store[MinSignersKey] # 0
  <2>1. PICK p \in Releases : \E s \in Steps(p) : Sets(s, MinSignersKey) /\ store[MinSignersKey] = s.value
    BY <1>6 DEF SignersKept, MinSet
  <2>2. PICK s \in Steps(p) : Sets(s, MinSignersKey) /\ store[MinSignersKey] = s.value
    BY <2>1
  <2>3. s.value <= Cardinality(Added(q))
    BY <2>2, DeploymentAssumption DEF SignersAddedFirst, Steps
  <2>4. s.value \in Int
    BY <2>2, DeploymentAssumption DEF PlansTyped, StepTyped, Sets
  <2>5. QED
    BY <1>4, <2>2, <2>3, <2>4
<1>7. QED
  BY <1>5, <1>6

(***************************************************************************)
(* Where the steps that add the signers of a release hold, they are there. *)
(***************************************************************************)
LEMMA AllAddedNow ==
  ASSUME Typed, NEW done, Kept(done), AllAdded(release, done)
  PROVE  Added(release) \subseteq SignersNow
<1> SUFFICES ASSUME NEW k \in Added(release)
             PROVE  store[k] = 1 /\ k \in Signers
  BY DEF SignersNow
<1>1. release \in Releases
  BY DEF Typed, TypeOK
<1>2. PICK s \in Steps(release) : Sets(s, k) /\ s.value = 1
  BY DEF Added
<1>3. PICK t \in done : Sets(t, k)
  BY DEF AllAdded
<1>4. t \in Steps(release) /\ store[k] = t.value
  BY <1>3 DEF Kept, Sets, Holds
<1>5. t.value = s.value
  BY <1>1, <1>2, <1>3, <1>4, SetOnce DEF Sets
<1>6. QED
  BY <1>2, <1>4, <1>5 DEF Added

LEMMA InitSigners == Init => SignersKept
<1> SUFFICES ASSUME Init
             PROVE  SignersKept
  OBVIOUS
<1>1. Typed /\ release \in Releases /\ MinSignersKey \in Keys
  BY InitTyped, DeploymentAssumption DEF Typed, TypeOK, SignersAddedFirst
<1>2. MinSet
  <2>1. CASE EmptyChain
    BY <1>1, <2>1 DEF EmptyChain, MinSet
  <2>2. CASE ChainOf(release)
    <3>1. store[MinSignersKey] = IF \E s \in Steps(release) : Sets(s, MinSignersKey)
                                   THEN SetStep(release, MinSignersKey).value ELSE 0
      BY <1>1, <2>2 DEF ChainOf
    <3>2. (\E s \in Steps(release) : Sets(s, MinSignersKey)) =>
            /\ SetStep(release, MinSignersKey) \in Steps(release)
            /\ Sets(SetStep(release, MinSignersKey), MinSignersKey)
      BY DEF SetStep
    <3>3. QED
      BY <1>1, <3>1, <3>2 DEF MinSet
  <2>3. QED
    BY <2>1, <2>2 DEF Init
<1>3. ASSUME NEW r \in Routers, InService(r)
      PROVE  SomeSigners
  <2>1. PICK j \in 1..LastStep(release) :
          /\ Plan[release][j].op = "grant" /\ Plan[release][j].account = "ExchangeRouter"
          /\ Plan[release][j].role \in {"CONTROLLER", "ROUTER_PLUGIN"}
    BY <1>3, InitRouters
  <2>2. Kept(Earlier(release, j))
    BY <1>3, InitRouters, InitKept
  <2>3. AllAdded(release, Earlier(release, j))
    BY <1>1, <2>1, DeploymentAssumption DEF RoutersLast
  <2>4. QED
    BY <1>1, <2>2, <2>3, AllAddedNow DEF SomeSigners
<1>4. QED
  BY <1>2, <1>3 DEF SignersKept, Asking

(***************************************************************************)
(* A router does not come to ask other signers: its contracts stay.        *)
(***************************************************************************)
LEMMA AskedBefore ==
  ASSUME Typed, [Next]_vars, NEW r, OnChain(r), AsksSigners(r)'
  PROVE  AsksSigners(r) /\ ~(Deploy /\ step.name = "OracleStore")
<1>1. Built(r)' = Built(r)
  BY StaysOnChain
<1>2. PICK h \in Built(r).uses :
        /\ h[1] \in Handlers
        /\ \E o \in Built(h)'.uses : o[1] = "Oracle" /\ Instance("OracleStore")' \in Built(o)'.uses
  BY <1>1 DEF AsksSigners
<1>3. OnChain(h) /\ Built(h)' = Built(h)
  BY BuiltOnChain, StaysOnChain
<1>4. PICK o \in Built(h).uses : o[1] = "Oracle" /\ Instance("OracleStore")' \in Built(o)'.uses
  BY <1>2, <1>3
<1>5. OnChain(o) /\ Built(o)' = Built(o)
  BY <1>3, <1>4, BuiltOnChain, StaysOnChain
<1>6. PICK i \in Built(o).uses : i = Instance("OracleStore")'
  BY <1>4, <1>5
<1>7. OnChain(i)
  BY <1>5, <1>6, BuiltOnChain
<1>8. i = Instance("OracleStore") /\ ~(Deploy /\ step.name = "OracleStore")
  BY <1>6, <1>7, RecordedBefore
<1>9. QED
  BY <1>2, <1>4, <1>6, <1>8 DEF AsksSigners

LEMMA NextMinSet ==
  ASSUME Typed, MinSet, [Next]_vars
  PROVE  MinSet'
<1>1. MinSignersKey \in Keys /\ store \in [Keys -> Int]
  BY DeploymentAssumption DEF SignersAddedFirst, Typed, TypeOK
<1>2. CASE store'[MinSignersKey] \in {0, store[MinSignersKey]}
  BY <1>2 DEF MinSet
<1>3. CASE Deploy
  <2>1. store'[MinSignersKey] \in {0, store[MinSignersKey]}
    BY <1>1, <1>3 DEF Deploy
  <2>2. QED
    BY <1>2, <2>1
<1>4. CASE SetIfDifferent
  <2>1. /\ running /\ step.op = "set" /\ store' = [store EXCEPT ![step.key] = step.value]
    BY <1>4 DEF SetIfDifferent, Pending
  <2>2. release \in Releases /\ step \in Steps(release)
    BY <2>1, Current
  <2>3. CASE step.key = MinSignersKey
    <3>1. Sets(step, MinSignersKey) /\ store'[MinSignersKey] = step.value
      BY <1>1, <2>1, <2>3 DEF Sets
    <3>2. PICK s \in Steps(release) : Sets(s, MinSignersKey) /\ store'[MinSignersKey] = s.value
      BY <2>2, <3>1
    <3>3. QED
      BY <2>2, <3>2 DEF MinSet
  <2>4. CASE step.key # MinSignersKey
    BY <1>1, <1>2, <2>1, <2>4
  <2>5. QED
    BY <2>3, <2>4
<1>5. QED
  BY <1>2, <1>3, <1>4, ChainSteps DEF GrantRole, HandOver

LEMMA NextSigners ==
  ASSUME Typed, DoneSoFar, SignersKept, [Next]_vars
  PROVE  SignersKept'
<1>1. MinSet'
  BY NextMinSet DEF SignersKept
<1>2. /\ Signers \subseteq Keys /\ \A k \in Signers : k[1] = "OracleStore"
      /\ store \in [Keys -> Int]
  BY DeploymentAssumption DEF SignersAddedFirst, Typed, TypeOK
<1>3. ASSUME NEW r \in Routers', Asking(r)'
      PROVE  SomeSigners'
  <2>1. r \in Routers /\ OnChain(r) /\ (InService(r) \/ Admits(r))
    BY <1>3, EntersService DEF Asking
  <2>2. AsksSigners(r) /\ ~(Deploy /\ step.name = "OracleStore")
    BY <1>3, <2>1, AskedBefore DEF Asking
  <2>3. CASE Admits(r)
    <3>1. running /\ store' = store
      BY <2>3 DEF Admits, GrantRole, Pending
    <3>2. Kept(Earlier(release, pc)) /\ release \in Releases /\ AllAdded(release, Earlier(release, pc))
      BY <2>3, <3>1, EarlierKept, DeploymentAssumption DEF RoutersLast, Admits
    <3>3. Added(release) \subseteq SignersNow
      BY <3>2, AllAddedNow
    <3>4. SignersNow' = SignersNow
      BY <3>1 DEF SignersNow
    <3>5. QED
      BY <3>2, <3>3, <3>4 DEF SomeSigners
  <2>4. CASE InService(r) /\ SetIfDifferent
    <3>1. /\ running /\ step.op = "set" /\ store' = [store EXCEPT ![step.key] = step.value]
      BY <2>4 DEF SetIfDifferent, Pending
    <3>2. /\ Kept(Earlier(release, pc)) /\ release \in Releases /\ pc \in 1..LastStep(release)
          /\ step = Plan[release][pc] /\ step \in Steps(release)
      BY <3>1, EarlierKept, Current
    <3>3. CASE step.key \in Signers /\ step.value # 1
      <4>1. AllAdded(release, Earlier(release, pc))
        BY <3>1, <3>2, <3>3, DeploymentAssumption DEF SignersAddedFirst
      <4>2. Added(release) \subseteq SignersNow
        BY <3>2, <4>1, AllAddedNow
      <4>3. step.key \notin Added(release)
        BY <3>1, <3>2, <3>3, SetOnce DEF Added, Sets
      <4>4. Added(release) \subseteq SignersNow'
        BY <1>2, <3>1, <4>2, <4>3 DEF SignersNow
      <4>5. QED
        BY <3>2, <4>4 DEF SomeSigners
    <3>4. CASE ~(step.key \in Signers /\ step.value # 1)
      <4>1. SignersNow \subseteq SignersNow'
        BY <1>2, <3>1, <3>4 DEF SignersNow
      <4>2. PICK q \in Releases : Added(q) \subseteq SignersNow
        BY <2>1, <2>2, <2>4 DEF SignersKept, Asking, SomeSigners
      <4>3. QED
        BY <4>1, <4>2 DEF SomeSigners
    <3>5. QED
      BY <3>3, <3>4
  <2>5. CASE InService(r) /\ \A k \in Signers : store'[k] = store[k]
    <3>1. SignersNow' = SignersNow
      BY <2>5 DEF SignersNow
    <3>2. QED
      BY <2>1, <2>2, <2>5, <3>1 DEF SignersKept, Asking, SomeSigners
  <2>6. CASE Deploy
    <3>1. \A k \in Signers : store'[k] = store[k]
      BY <1>2, <2>2, <2>6 DEF Deploy
    <3>2. QED
      BY <2>1, <2>3, <2>5, <3>1
  <2>7. CASE store' = store
    BY <2>1, <2>3, <2>5, <2>7
  <2>8. QED
    BY <2>1, <2>3, <2>4, <2>6, <2>7, ChainSteps DEF GrantRole, HandOver
<1>4. QED
  BY <1>1, <1>3 DEF SignersKept

(* While a router is in service whose prices are checked against the signers *)
(* that the scripts maintain, there are signers enough to sign a price, also *)
(* between the transactions that replace one set of signers by another.      *)
THEOREM DeploymentEnoughSigners == Spec => []EnoughSigners
<1>1. Typed /\ DoneSoFar /\ SignersKept /\ [Next]_vars => SignersKept'
  BY NextSigners
<1>2. QED
  BY InitSigners, <1>1, AlwaysDone, SignersSuffice, PTL DEF Spec

-----------------------------------------------------------------------------
(* Failures *)

(* Why a run may stop: a script throws of itself, a script that runs once    *)
(* waits for a market, or the deployer has given up the role it needs.       *)
HasCause ==
  \/ step.op = "throw"
  \/ Blocked
  \/ ~Granted(Instance("RoleStore"), <<Operator, 0>>, "ROLE_ADMIN")

LEMMA Causes ==
  ASSUME Typed, DoneSoFar, running, Throws(step)
  PROVE  HasCause
<1> DEFINE done == Earlier(release, pc)
<1>1. /\ Kept(done) /\ release \in Releases /\ pc \in 1..LastStep(release)
      /\ step = Plan[release][pc] /\ step \in Steps(release) /\ StepTyped(step)
  BY EarlierKept, Current
<1>2. ASSUME NEW n, NEW d \in done, Deploys(d, n)
      PROVE  deployed[n] # <<>>
  BY <1>1, <1>2 DEF Kept, Deploys, Holds
<1>3. CASE step.op = "deploy"
  <2>1. \A u \in step.uses : \E d \in done : Deploys(d, u)
    BY <1>1, <1>3, DeploymentAssumption DEF DeployedBeforeUse
  <2>2. QED
    BY <1>2, <1>3, <2>1 DEF Throws
<1>4. CASE step.op = "grant"
  <2>1. step.by \in {"none", "ROLE_ADMIN"} /\ \E d \in done : Deploys(d, step.at)
    BY <1>1, <1>4, DeploymentAssumption DEF ServedCalls, StepTyped
  <2>2. ~Allowed(step)
    BY <1>2, <1>4, <2>1 DEF Throws
  <2>3. QED
    BY <2>1, <2>2 DEF Allowed, HasCause
<1>5. CASE step.op = "set"
  <2>1. /\ \E d \in done : Deploys(d, step.key[1])
        /\ step.by # "none" => \E g \in done : Grants(g, "RoleStore", Operator, step.by)
        /\ step.listed # {} => \E m \in step.listed : \E t \in done : Sets(t, OnList(m)) /\ t.value = 1
    BY <1>1, <1>5, DeploymentAssumption DEF ServedCalls
  <2>2. deployed[step.key[1]] # <<>>
    BY <1>2, <2>1
  <2>3. step.listed # {} => \E m \in step.listed : Listed(m)
    BY <1>1, <2>1 DEF Kept, Sets, Holds, Listed
  <2>4. Allowed(step)
    <3>1. Instance(Operator) = <<Operator, 0>>
      BY DeploymentAssumption DEF PlansTyped, Instance
    <3>2. step.by # "none" => Granted(Instance("RoleStore"), Instance(Operator), step.by)
      BY <1>1, <2>1 DEF Kept, Grants, Holds
    <3>3. QED
      BY <3>1, <3>2 DEF Allowed
  <2>5. QED
    BY <1>5, <2>2, <2>3, <2>4 DEF Throws
<1>6. CASE step.op = "read"
  BY <1>1, <1>6 DEF Throws, Blocked, HasCause
<1>7. QED
  BY <1>3, <1>4, <1>5, <1>6 DEF Throws, HasCause

(* A run does not fail on what earlier runs left: no call lacks a contract,  *)
(* a market or a role that a script should have brought about before it. It  *)
(* fails where a script throws of itself, is blocked by a script that runs   *)
(* once, or after the hand over.                                             *)
THEOREM DeploymentFailsForCause == Spec => [][Fail => HasCause]_vars
<1>1. Typed /\ DoneSoFar => [Fail => HasCause]_vars
  BY Causes DEF Fail
<1>2. QED
  BY AlwaysDone, <1>1, PTL

-----------------------------------------------------------------------------
(* Runs of the same release again *)

Settled == \A s \in Steps(release) : Holds(s)

(* Once the exchange is as a release configures it, it stays so until the    *)
(* next release: runs of the same release again, crashes, trades and the     *)
(* hand over undo nothing.                                                   *)
THEOREM DeploymentSettles == Spec => [][Settled /\ release' = release => Settled']_vars
<1>1. ASSUME Typed, [Next]_vars, Settled, release' = release
      PROVE  Settled'
  <2>1. CASE HandOver
    <3>1. \A s \in Steps(release) : Holds(s)'
      BY <1>1, <2>1, HoldsAfterHandOver DEF Settled
    <3>2. Steps(release') = Steps(release)
      BY <1>1
    <3>3. QED
      BY <1>1, <3>1, <3>2 DEF Settled
  <2>2. CASE UNCHANGED <<deployed, roles, store, migrations>>
    <3>1. \A s : Holds(s)' <=> Holds(s)
      BY <1>1, <2>2, HoldsReads
    <3>2. QED
      BY <1>1, <3>1 DEF Settled
  <2>3. ASSUME NEW op, Pending(op)
        PROVE  FALSE
    <3>1. step \in Steps(release)
      BY <1>1, <2>3, Current DEF Pending
    <3>2. QED
      BY <1>1, <2>3, <3>1 DEF Settled, Pending
  <2>4. QED
    BY <1>1, <2>1, <2>2, <2>3
       DEF Next, RunStep, Start, Pass, Deploy, GrantRole, SetIfDifferent, ReadHolding, SetInventory,
           RecordMigration, Fail, Crash, NextRelease, Trade, scriptVars, vars
<1>2. Typed => [Settled /\ release' = release => Settled']_vars \/ ~[Next]_vars
  BY <1>1
<1>3. QED
  BY AlwaysTyped, <1>2, PTL DEF Spec

-----------------------------------------------------------------------------
(* Sums over holdings *)

Part(f, S) == [i \in 1..NumHoldings |-> IF HoldingKeys[i] \in S THEN f[HoldingKeys[i]] ELSE 0]
SumOver(f, S) == SumTo(Part(f, S), NumHoldings)

LEMMA HoldingsNumbered ==
  /\ NumHoldings \in Nat
  /\ \A i \in 1..NumHoldings : HoldingKeys[i] \in Holdings
  /\ \A h \in Holdings : \E i \in 1..NumHoldings : h = HoldingKeys[i]
  /\ \A i, j \in 1..NumHoldings : HoldingKeys[i] = HoldingKeys[j] => i = j
<1>1. HoldingKeys \in Seq(Holdings)
  BY DeploymentAssumption DEF PlansTyped
<1>2. \A i, j \in 1..NumHoldings : HoldingKeys[i] = HoldingKeys[j] => i = j
  BY DeploymentAssumption DEF FixesWhole
<1>3. NumHoldings \in Nat
  BY <1>1 DEF NumHoldings
<1>4. /\ \A i \in 1..NumHoldings : HoldingKeys[i] \in Holdings
      /\ \A h \in Holdings : \E i \in 1..NumHoldings : h = HoldingKeys[i]
  BY DEF Holdings
<1>5. QED
  BY <1>2, <1>3, <1>4

LEMMA PartTyped ==
  ASSUME NEW f \in [Holdings -> Int], NEW S
  PROVE  Part(f, S) \in [1..NumHoldings -> Int]
BY HoldingsNumbered DEF Part

(***************************************************************************)
(* A holding that is zero does not count.                                  *)
(***************************************************************************)
LEMMA SumOverSame ==
  ASSUME NEW f \in [Holdings -> Int], NEW S, NEW T,
         \A h \in Holdings : f[h] # 0 => (h \in S <=> h \in T)
  PROVE  SumOver(f, S) = SumOver(f, T)
<1>1. Part(f, S) = Part(f, T)
  BY HoldingsNumbered DEF Part
<1>2. QED
  BY <1>1 DEF SumOver

LEMMA SumOverNone ==
  ASSUME NEW f \in [Holdings -> Int], NEW S, \A h \in Holdings : h \in S => f[h] = 0
  PROVE  SumOver(f, S) = 0
<1>1. \A i \in 1..NumHoldings : Part(f, S)[i] = 0
  BY HoldingsNumbered DEF Part
<1>2. QED
  BY <1>1, HoldingsNumbered, PartTyped, SumZero DEF SumOver

LEMMA SumOverNat ==
  ASSUME NEW f \in [Holdings -> Int], NEW S, \A h \in Holdings : h \in S => f[h] >= 0
  PROVE  SumOver(f, S) \in Nat
<1>1. Part(f, S) \in [1..NumHoldings -> Nat]
  BY HoldingsNumbered DEF Part
<1>2. QED
  BY <1>1, HoldingsNumbered, SumBoundsEntry DEF SumOver

(***************************************************************************)
(* A holding moves, or is added to the sum: each counts once.              *)
(***************************************************************************)
LEMMA SumOverMoves ==
  ASSUME NEW f \in [Holdings -> Int], NEW g \in [Holdings -> Int], NEW S, NEW h \in Holdings,
         \A x \in Holdings : x # h => g[x] = f[x]
  PROVE  SumOver(g, S) = SumOver(f, S) + (IF h \in S THEN g[h] - f[h] ELSE 0)
<1>1. PICK k \in 1..NumHoldings : h = HoldingKeys[k]
  BY HoldingsNumbered
<1>2. \A i \in 1..NumHoldings : i # k => Part(g, S)[i] = Part(f, S)[i]
  BY <1>1, HoldingsNumbered DEF Part
<1>3. Part(g, S)[k] - Part(f, S)[k] = IF h \in S THEN g[h] - f[h] ELSE 0
  BY <1>1 DEF Part
<1>4. NumHoldings \in Nat /\ Part(f, S) \in [1..NumHoldings -> Int] /\ Part(g, S) \in [1..NumHoldings -> Int]
  BY HoldingsNumbered, PartTyped
<1>5. SumTo(Part(g, S), NumHoldings)
        = SumTo(Part(f, S), NumHoldings) + (Part(g, S)[k] - Part(f, S)[k])
  BY <1>2, <1>4, SumUpdate
<1>6. QED
  BY <1>3, <1>5 DEF SumOver

LEMMA SumOverAdds ==
  ASSUME NEW f \in [Holdings -> Int], NEW S, NEW h \in Holdings, h \notin S
  PROVE  SumOver(f, S \cup {h}) = SumOver(f, S) + f[h]
<1> DEFINE T == S \cup {h}
<1>1. PICK k \in 1..NumHoldings : h = HoldingKeys[k]
  BY HoldingsNumbered
<1>2. \A i \in 1..NumHoldings : i # k => Part(f, T)[i] = Part(f, S)[i]
  BY <1>1, HoldingsNumbered DEF Part
<1>3. Part(f, T)[k] - Part(f, S)[k] = f[h]
  BY <1>1 DEF Part
<1>4. Part(f, S) \in [1..NumHoldings -> Int] /\ Part(f, T) \in [1..NumHoldings -> Int]
  BY PartTyped
<1> HIDE DEF T
<1>5. NumHoldings \in Nat
  BY HoldingsNumbered
<1>6. SumTo(Part(f, T), NumHoldings)
        = SumTo(Part(f, S), NumHoldings) + (Part(f, T)[k] - Part(f, S)[k])
  BY <1>2, <1>4, <1>5, SumUpdate
<1>7. QED
  BY <1>3, <1>6 DEF SumOver, T

-----------------------------------------------------------------------------
(* What the fix scripts add up *)

Block(r, j) ==
  {i \in 1..j-1 : \A l \in i..j-1 : Plan[r][l].op = "read" /\ Plan[r][l].of = Plan[r][j].of}

LEMMA GatheredInBlock ==
  ASSUME NEW r, NEW j
  PROVE  Gathered(r, j) = {<<Plan[r][i].of[1], Plan[r][i].market>> : i \in Block(r, j)}
BY DEF Gathered, Block

LEMMA GatheredAfterRead ==
  ASSUME NEW r \in Releases, NEW j \in 1..LastStep(r), Plan[r][j].op = "read"
  PROVE  /\ j + 1 \in 1..LastStep(r)
         /\ Plan[r][j + 1].op \in {"read", "fix"}
         /\ Plan[r][j + 1].of = Plan[r][j].of /\ Plan[r][j + 1].id = Plan[r][j].id
         /\ Gathered(r, j + 1) = Gathered(r, j) \cup {<<Plan[r][j].of[1], Plan[r][j].market>>}
<1>1. LastStep(r) \in Nat
  BY PlanSteps
<1>2. /\ j < LastStep(r) /\ Plan[r][j + 1].op \in {"read", "fix"}
      /\ Plan[r][j + 1].of = Plan[r][j].of /\ Plan[r][j + 1].id = Plan[r][j].id
  BY DeploymentAssumption DEF FixesWhole
<1>3. Block(r, j + 1) = Block(r, j) \cup {j}
  <2>1. Block(r, j + 1) =
          {i \in 1..j : \A l \in i..j : Plan[r][l].op = "read" /\ Plan[r][l].of = Plan[r][j].of}
    BY <1>1, <1>2 DEF Block
  <2>2. ASSUME NEW i \in 1..j
        PROVE  i \in Block(r, j + 1) <=> i \in Block(r, j) \/ i = j
    <3>1. CASE i = j
      BY <2>1, <3>1
    <3>2. CASE i # j
      <4>1. i \in 1..j-1 /\ \A l : l \in i..j <=> l \in i..j-1 \/ l = j
        BY <3>2
      <4>2. QED
        BY <2>1, <3>2, <4>1 DEF Block
    <3>3. QED
      BY <3>1, <3>2
  <2>3. Block(r, j + 1) \subseteq 1..j /\ Block(r, j) \subseteq 1..j
    BY <2>1 DEF Block
  <2>4. QED
    BY <2>2, <2>3
<1>4. QED
  BY <1>1, <1>2, <1>3, GatheredInBlock

LEMMA GatheredAfterOther ==
  ASSUME NEW r, NEW j \in Nat, j = 0 \/ Plan[r][j].op # "read"
  PROVE  Gathered(r, j + 1) = {}
<1>1. \A i \in 1..j : j \in i..j
  OBVIOUS
<1>2. Block(r, j + 1) = {}
  BY <1>1 DEF Block
<1>3. QED
  BY <1>2, GatheredInBlock

(***************************************************************************)
(* Only holdings that are configured under a virtual inventory count in it.*)
(***************************************************************************)
LEMMA GatheredConfigured ==
  ASSUME NEW r \in Releases, NEW j \in 1..LastStep(r), NEW h \in Gathered(r, j)
  PROVE  h \in Holdings /\ Configured(r, h) = Plan[r][j].of
<1>1. PICK i \in Block(r, j) : h = <<Plan[r][i].of[1], Plan[r][i].market>>
  BY GatheredInBlock
<1>2. i \in 1..j-1 /\ Plan[r][i].op = "read" /\ Plan[r][i].of = Plan[r][j].of
  BY <1>1 DEF Block
<1>3. i \in 1..LastStep(r)
  BY <1>2, PlanSteps
<1>4. Configured(r, h) = Plan[r][i].of
  BY <1>1, <1>2, <1>3, DeploymentAssumption DEF FixesWhole
<1>5. h \in Holdings
  BY <1>1, <1>2, <1>3, PlanSteps DEF StepTyped
<1>6. QED
  BY <1>2, <1>4, <1>5

(* A fix script has some of what it adds up behind it.                       *)
Gathering(v) == running /\ step.op \in {"read", "fix"} /\ step.of = v /\ ~Holds(step)

TotalRight(v) ==
  total[v] = IF Gathering(v) THEN SumOver(held, Gathered(release, pc)) ELSE 0

TotalsRight == \A v \in VirtualIds : TotalRight(v) \/ (Gathering(v) /\ v \in raced)

(* Markets that are open, or hold something, are on the list; pools are not  *)
(* in debt.                                                                  *)
HoldingsListed ==
  \A h \in Holdings :
    /\ store[OpenKey[h]] # 0 \/ held[h] # 0 => Listed(h[2])
    /\ h[1] = "swaps" => held[h] >= 0

Under(v) == {h \in Holdings : IdOf(h) = v}

InventoryInv == HoldingsListed /\ TotalsRight /\ InventoryMatches

LEMMA HeldUnderIsSum ==
  ASSUME NEW v
  PROVE  HeldUnder(v) = SumOver(held, Under(v))
<1>1. \A i \in 1..NumHoldings : HoldingKeys[i] \in Under(v) <=> IdOf(HoldingKeys[i]) = v
  BY HoldingsNumbered DEF Under
<1>2. QED
  BY <1>1 DEF HeldUnder, SumOver, Part

LEMMA InventorySums ==
  InventoryMatches <=> \A v \in VirtualIds \ raced : inventory[v] = SumOver(held, Under(v))
BY HeldUnderIsSum DEF InventoryMatches

LEMMA InventorySumsNext ==
  InventoryMatches' <=> (\A v \in VirtualIds \ raced : inventory[v] = SumOver(held, Under(v)))'
BY InventorySums, PTL

LEMMA HoldingKeysTyped ==
  ASSUME NEW h \in Holdings
  PROVE  /\ \A k \in {OpenKey[h], IdKey[h], OnList(h[2])} : k \in Keys /\ k[1] = "DataStore"
         /\ \A r \in Releases : \A s \in Steps(r) :
              /\ Sets(s, OpenKey[h]) => s.listed = {h[2]}
              /\ Sets(s, OnList(h[2])) => s.value = 1
BY DeploymentAssumption DEF ListedToOpen

LEMMA InitInventory == Init => InventoryInv
<1> SUFFICES ASSUME Init
             PROVE  InventoryInv
  OBVIOUS
<1>1. /\ Typed /\ release \in Releases /\ store \in [Keys -> Int]
      /\ held = [h \in Holdings |-> 0] /\ held \in [Holdings -> Int]
      /\ inventory = NoTotals /\ total = NoTotals /\ pc = 0
  BY InitTyped DEF Typed, TypeOK, Init
<1>2. HoldingsListed
  <2> SUFFICES ASSUME NEW h \in Holdings, store[OpenKey[h]] # 0
               PROVE  Listed(h[2])
    BY <1>1 DEF HoldingsListed
  <2>1. OpenKey[h] \in Keys
    BY HoldingKeysTyped
  <2>2. ChainOf(release)
    BY <2>1 DEF Init, EmptyChain
  <2>3. PICK s \in Steps(release) : Sets(s, OpenKey[h])
    BY <2>1, <2>2 DEF ChainOf
  <2>4. PICK j \in 1..LastStep(release) : s = Plan[release][j]
    BY DEF Steps
  <2>5. s.op = "set" /\ s.listed = {h[2]}
    BY <1>1, <2>3, HoldingKeysTyped DEF Sets
  <2>6. PICK t \in Earlier(release, j) : Sets(t, OnList(h[2])) /\ t.value = 1
    <3>1. \E m \in s.listed : \E t \in Earlier(release, j) : Sets(t, OnList(m)) /\ t.value = 1
      BY <1>1, <2>4, <2>5, DeploymentAssumption DEF ServedCalls
    <3>2. QED
      BY <2>5, <3>1
  <2>7. t \in Steps(release) /\ t.op = "set"
    BY <1>1, <2>6, EarlierSteps DEF Sets
  <2>8. Holds(t)
    BY <2>2, <2>7, ChainHolds
  <2>9. QED
    BY <2>6, <2>7, <2>8 DEF Holds, Listed, Sets
<1>3. TotalsRight
  BY <1>1 DEF TotalsRight, TotalRight, Gathering, running, NoTotals
<1>4. InventoryMatches
  <2>1. \A v \in VirtualIds : inventory[v] = 0 /\ SumOver(held, Under(v)) = 0
    BY <1>1, SumOverNone DEF NoTotals
  <2>2. QED
    BY <2>1, InventorySums
<1>5. QED
  BY <1>2, <1>3, <1>4 DEF InventoryInv

(***************************************************************************)
(* The steps that move what markets hold, their ids or the inventories.    *)
(***************************************************************************)
LEMMA InventorySteps ==
  ASSUME [Next]_vars
  PROVE  Deploy \/ SetIfDifferent \/ SetInventory \/ Trade
           \/ UNCHANGED <<store, held, inventory, raced>>
BY DEF Next, RunStep, Start, Pass, GrantRole, ReadHolding, RecordMigration, Fail, Crash,
       NextRelease, HandOver, Advance, scriptVars, vars

(* A new data store is empty; without one, markets keep what they have.      *)
LEMMA DeployMarkets ==
  ASSUME Typed, Deploy
  PROVE  /\ raced' = raced
         /\ \/ /\ \A h \in Holdings : \A k \in {OpenKey[h], IdKey[h], OnList(h[2])} : store'[k] = 0
               /\ \A h \in Holdings : held'[h] = 0
               /\ inventory' = NoTotals
            \/ /\ \A h \in Holdings : \A k \in {OpenKey[h], IdKey[h], OnList(h[2])} : store'[k] = store[k]
               /\ held' = held /\ inventory' = inventory
<1>1. store \in [Keys -> Int] /\ raced' = raced
  BY DEF Typed, TypeOK, Deploy
<1>2. CASE step.name = "DataStore"
  <2>1. held' = [h \in Holdings |-> 0] /\ inventory' = NoTotals
    BY <1>2 DEF Deploy
  <2>2. ASSUME NEW h \in Holdings, NEW k \in {OpenKey[h], IdKey[h], OnList(h[2])}
        PROVE  store'[k] = 0
    <3>1. k \in Keys /\ k[1] = step.name
      BY <1>2, HoldingKeysTyped
    <3>2. QED
      BY <3>1 DEF Deploy
  <2>3. QED
    BY <1>1, <2>1, <2>2
<1>3. CASE step.name # "DataStore"
  <2>1. held' = held /\ inventory' = inventory
    BY <1>3 DEF Deploy
  <2>2. ASSUME NEW h \in Holdings, NEW k \in {OpenKey[h], IdKey[h], OnList(h[2])}
        PROVE  store'[k] = store[k]
    <3>1. k \in Keys /\ k[1] # step.name
      BY <1>3, HoldingKeysTyped
    <3>2. QED
      BY <3>1 DEF Deploy
  <2>3. QED
    BY <1>1, <2>1, <2>2
<1>4. QED
  BY <1>2, <1>3

LEMMA SetMarkets ==
  ASSUME Typed, SetIfDifferent
  PROVE  /\ UNCHANGED <<held, inventory, raced>>
         /\ release \in Releases /\ step \in Steps(release) /\ Sets(step, step.key)
         /\ ~Holds(step) /\ ~Throws(step)
         /\ \A k \in Keys : store'[k] = IF k = step.key THEN step.value ELSE store[k]
BY Current DEF SetIfDifferent, Pending, Advance, Sets, Typed, TypeOK

LEMMA TradeMoves ==
  ASSUME Typed, Trade
  PROVE  /\ UNCHANGED <<release, pc, deployed, roles, store, migrations, total>>
         /\ raced \subseteq raced'
         /\ \E h \in Holdings, d \in {-1, 1} :
              /\ store[OpenKey[h]] # 0
              /\ h[1] = "swaps" => held[h] + d >= 0
              /\ held[h] # 0 \/ held'[h] # 0
              /\ held'[h] = held[h] + d /\ \A g \in Holdings : g # h => held'[g] = held[g]
              /\ inventory' =
                   IF store[IdKey[h]] = 0 THEN inventory
                   ELSE [inventory EXCEPT ![IdOf(h)] =
                           IF h[1] = "swaps" /\ inventory[IdOf(h)] + d < 0 THEN 0 ELSE inventory[IdOf(h)] + d]
              /\ running /\ step.op \in {"read", "fix"} /\ step.of = IdOf(h) => IdOf(h) \in raced'
<1>1. held \in [Holdings -> Int] /\ MaxHolding \in Nat
  BY DeploymentAssumption DEF Typed, TypeOK, PlansTyped
<1>2. PICK h \in Holdings, d \in {-1, 1} :
        /\ store[OpenKey[h]] # 0
        /\ held[h] + d \in (IF h[1] = "swaps" THEN 0 ELSE -MaxHolding)..MaxHolding
        /\ held' = [held EXCEPT ![h] = @ + d]
        /\ inventory' = IF store[IdKey[h]] = 0 THEN inventory
                        ELSE [inventory EXCEPT ![IdOf(h)] =
                                IF h[1] = "swaps" /\ @ + d < 0 THEN 0 ELSE @ + d]
        /\ raced' = raced \cup
             (IF running /\ step.op \in {"read", "fix"} THEN {step.of} \cap {IdOf(h)} ELSE {})
  BY DEF Trade
<1>3. held' = [held EXCEPT ![h] = held[h] + d]
  BY <1>2
<1>4. held[h] \in Int /\ held'[h] = held[h] + d /\ \A g \in Holdings : g # h => held'[g] = held[g]
  BY <1>1, <1>3
<1>5. h[1] = "swaps" => held[h] + d >= 0
  BY <1>1, <1>2
<1>6. held[h] # 0 \/ held'[h] # 0
  BY <1>4
<1>7. raced \subseteq raced'
      /\ (running /\ step.op \in {"read", "fix"} /\ step.of = IdOf(h) => IdOf(h) \in raced')
  BY <1>2
<1>8. inventory' =
        IF store[IdKey[h]] = 0 THEN inventory
        ELSE [inventory EXCEPT ![IdOf(h)] =
                IF h[1] = "swaps" /\ inventory[IdOf(h)] + d < 0 THEN 0 ELSE inventory[IdOf(h)] + d]
  BY <1>2
<1>9. UNCHANGED <<release, pc, deployed, roles, store, migrations, total>>
  BY DEF Trade
<1>10. QED
  BY <1>2, <1>4, <1>5, <1>6, <1>7, <1>8, <1>9

LEMMA NextListed ==
  ASSUME Typed, HoldingsListed, [Next]_vars
  PROVE  HoldingsListed'
<1>1. held \in [Holdings -> Int] /\ store \in [Keys -> Int]
  BY DeploymentAssumption DEF Typed, TypeOK, PlansTyped
<1>2. \A h \in Holdings : {OpenKey[h], OnList(h[2])} \subseteq Keys
  BY HoldingKeysTyped
<1>3. CASE Deploy
  BY <1>3, DeployMarkets DEF HoldingsListed, Listed
<1>4. CASE SetIfDifferent
  <2> SUFFICES ASSUME NEW h \in Holdings, store'[OpenKey[h]] # 0 \/ held[h] # 0
               PROVE  store'[OnList(h[2])] = 1
    BY <1>4, SetMarkets DEF HoldingsListed, Listed
  <2>1. CASE step.key = OnList(h[2])
    BY <1>2, <1>4, <2>1, SetMarkets, HoldingKeysTyped
  <2>2. CASE step.key # OnList(h[2])
    <3>1. Listed(h[2])
      <4>1. CASE step.key = OpenKey[h]
        <5>1. step.op = "set" /\ step.listed = {h[2]}
          BY <1>4, <4>1, SetMarkets, HoldingKeysTyped DEF Sets
        <5>2. QED
          BY <1>4, <5>1, SetMarkets DEF Throws
      <4>2. CASE step.key # OpenKey[h]
        <5>1. store'[OpenKey[h]] = store[OpenKey[h]]
          BY <1>2, <1>4, <4>2, SetMarkets
        <5>2. QED
          BY <5>1 DEF HoldingsListed
      <4>3. QED
        BY <4>1, <4>2
    <3>2. QED
      BY <1>2, <1>4, <2>2, <3>1, SetMarkets DEF Listed
  <2>3. QED
    BY <2>1, <2>2
<1>5. CASE Trade
  <2>1. PICK g \in Holdings, d \in {-1, 1} :
          /\ store[OpenKey[g]] # 0
          /\ g[1] = "swaps" => held[g] + d >= 0
          /\ held'[g] = held[g] + d /\ \A h \in Holdings : h # g => held'[h] = held[h]
    BY <1>5, TradeMoves
  <2>2. store' = store
    BY <1>5, TradeMoves
  <2>3. QED
    BY <2>1, <2>2 DEF HoldingsListed, Listed
<1>6. CASE UNCHANGED <<store, held>>
  BY <1>6 DEF HoldingsListed, Listed
<1>7. CASE SetInventory
  BY <1>6, <1>7 DEF SetInventory, Advance
<1>8. QED
  BY <1>3, <1>4, <1>5, <1>6, <1>7, InventorySteps

(***************************************************************************)
(* When nothing is being added up, the totals are zero; a script starts    *)
(* from there.                                                             *)
(***************************************************************************)
LEMMA TotalsStart ==
  ASSUME \A v \in VirtualIds : total'[v] = 0,
         running' /\ ~Holds(step)' => Gathered(release, pc)' = {},
         held' \in [Holdings -> Int]
  PROVE  TotalsRight'
<1>1. SumOver(held', {}) = 0
  BY SumOverNone
<1>2. ASSUME NEW v \in VirtualIds
      PROVE  TotalRight(v)'
  <2>1. Gathering(v)' => Gathered(release', pc') = {}
    BY DEF Gathering
  <2>2. QED
    BY <1>1, <1>2, <2>1 DEF TotalRight
<1>3. QED
  BY <1>2 DEF TotalsRight

LEMMA TotalsIdle ==
  ASSUME TotalsRight, ~running \/ step.op \notin {"read", "fix"} \/ Holds(step)
  PROVE  \A v \in VirtualIds : total[v] = 0
BY DEF TotalsRight, TotalRight, Gathering

LEMMA Predecessor ==
  ASSUME NEW p \in Nat, NEW L \in Nat, p \in 1..L, NEW q \in p+1..L+1
  PROVE  q-1 \in Nat /\ q-1 \in p..(q-1) /\ q-1 \in 1..L /\ q = (q-1) + 1
OBVIOUS

LEMMA TotalsAfterPass ==
  ASSUME Typed, TotalsRight, Pass
  PROVE  TotalsRight'
<1>1. /\ running /\ NothingToDo(step) /\ UNCHANGED <<release, scriptVars, held>>
      /\ held' \in [Holdings -> Int]
  BY DeploymentAssumption DEF Pass, Typed, TypeOK, PlansTyped
<1>2. \A v \in VirtualIds : total'[v] = 0
  BY <1>1, TotalsIdle DEF NothingToDo, scriptVars
<1>3. pc \in Nat /\ LastStep(release) \in Nat /\ release \in Releases /\ pc \in 1..LastStep(release)
  BY <1>1, Current
<1>4. pc' \in pc+1..LastStep(release)+1 /\ \A i \in pc..pc'-1 : NothingToDo(Plan[release][i])
  BY PassTarget
<1> DEFINE j == pc' - 1
<1>5. j \in pc..pc'-1 /\ j \in 1..LastStep(release) /\ j \in Nat /\ pc' = j + 1
  BY <1>3, <1>4, Predecessor
<1> HIDE DEF j
<1>6. ASSUME running', ~Holds(step)'
      PROVE  Gathered(release, pc') = {}
  <2>1. CASE Plan[release][j].op = "read"
    <3>1. Holds(Plan[release][j])
      BY <1>4, <1>5 DEF NothingToDo
    <3>2. Plan[release][j].id \in migrations
      BY <2>1, <3>1 DEF Holds
    <3>3. Plan[release][j + 1].op \in {"read", "fix"} /\ Plan[release][j + 1].id \in migrations
      BY <1>3, <1>5, <2>1, <3>2, GatheredAfterRead
    <3>4. step' = Plan[release][j + 1] /\ migrations' = migrations
      BY <1>1, <1>5 DEF step, scriptVars
    <3>5. Holds(step)'
      BY <3>3, <3>4 DEF Holds
    <3>6. QED
      BY <1>6, <3>5
  <2>2. CASE Plan[release][j].op # "read"
    BY <1>5, <2>2, GatheredAfterOther
  <2>3. QED
    BY <2>1, <2>2
<1>7. running' /\ ~Holds(step)' => Gathered(release, pc)' = {}
  BY <1>1, <1>5, <1>6
<1>8. QED
  BY <1>1, <1>2, <1>7, TotalsStart

(***************************************************************************)
(* A step that is no part of a fix script ends with nothing added up.      *)
(***************************************************************************)
LEMMA TotalsAfterStep ==
  ASSUME Typed, TotalsRight, [Next]_vars,
         Deploy \/ GrantRole \/ SetIfDifferent \/ RecordMigration
  PROVE  TotalsRight'
<1>1. /\ running /\ step.op \notin {"read", "fix"} /\ pc' = pc + 1
      /\ release' = release /\ total' = total
  BY DEF Deploy, GrantRole, SetIfDifferent, RecordMigration, Pending, Advance
<1>2. pc \in Nat /\ step = Plan[release][pc]
  BY <1>1, Current
<1>3. Gathered(release', pc') = {}
  BY <1>1, <1>2, GatheredAfterOther
<1>4. \A v \in VirtualIds : total'[v] = 0
  BY <1>1, TotalsIdle
<1>5. held' \in [Holdings -> Int]
  BY NextTyped, DeploymentAssumption DEF Typed, TypeOK, PlansTyped
<1>6. QED
  BY <1>3, <1>4, <1>5, TotalsStart

LEMMA TotalsAfterRead ==
  ASSUME Typed, HoldingsListed, TotalsRight, ReadHolding
  PROVE  TotalsRight'
<1>1. running /\ step.op = "read" /\ ~Holds(step)
  BY DEF ReadHolding, Pending
<1>2. /\ release \in Releases /\ pc \in 1..LastStep(release) /\ step = Plan[release][pc]
      /\ step.of \in VirtualIds /\ <<step.of[1], step.market>> \in Holdings
  BY <1>1, Current DEF StepTyped
<1>3. PICK v \in VirtualIds, h \in Holdings : v = step.of /\ h = <<v[1], step.market>>
  BY <1>2
<1>4. /\ pc' = pc + 1 /\ UNCHANGED <<release, migrations, held, raced>>
      /\ total' = [total EXCEPT ![v] = total[v] + IF Listed(step.market) THEN held[h] ELSE 0]
  BY <1>3 DEF ReadHolding, Advance
<1>5. total \in [VirtualIds -> Int] /\ held \in [Holdings -> Int]
  BY DeploymentAssumption DEF Typed, TypeOK, PlansTyped
<1> DEFINE S == Gathered(release, pc)
<1>6. /\ pc' \in 1..LastStep(release') /\ step' = Plan[release][pc + 1]
      /\ step'.op \in {"read", "fix"} /\ step'.of = v /\ step'.id = step.id
      /\ Gathered(release', pc') = S \cup {h}
  BY <1>1, <1>2, <1>3, <1>4, GatheredAfterRead DEF step
<1>7. step.id \notin migrations
  BY <1>1 DEF Holds
<1>8. \A w : Gathering(w) <=> w = v
  BY <1>1, <1>3 DEF Gathering
<1>9. \A w : Gathering(w)' <=> w = v
  BY <1>4, <1>6, <1>7 DEF Gathering, running, Holds
<1>10. h \notin S
  BY <1>1, <1>2, <1>3, DeploymentAssumption DEF FixesWhole
<1>11. (IF Listed(step.market) THEN held[h] ELSE 0) = held[h]
  <2>1. h[2] = step.market
    BY <1>3
  <2>2. QED
    BY <2>1 DEF HoldingsListed
<1>12. total'[v] = total[v] + held[h] /\ \A w \in VirtualIds : w # v => total'[w] = total[w]
  BY <1>4, <1>5, <1>11
<1>13. SumOver(held, S \cup {h}) = SumOver(held, S) + held[h]
  BY <1>5, <1>10, SumOverAdds
<1>14. v \in raced \/ total[v] = SumOver(held, S)
  BY <1>8 DEF TotalsRight, TotalRight
<1>15. total[v] = SumOver(held, S) => total'[v] = SumOver(held', Gathered(release', pc'))
  BY <1>4, <1>6, <1>12, <1>13
<1>16. TotalRight(v)' \/ (Gathering(v)' /\ v \in raced')
  BY <1>4, <1>9, <1>14, <1>15 DEF TotalRight
<1>17. ASSUME NEW w \in VirtualIds, w # v
       PROVE  TotalRight(w)'
  BY <1>8, <1>9, <1>12, <1>17 DEF TotalsRight, TotalRight
<1>18. QED
  BY <1>16, <1>17 DEF TotalsRight

LEMMA TotalsAfterFix ==
  ASSUME Typed, TotalsRight, SetInventory
  PROVE  TotalsRight'
<1>1. /\ running /\ step.op = "fix" /\ ~Holds(step) /\ pc' = pc + 1
      /\ total' = [total EXCEPT ![step.of] = 0] /\ UNCHANGED <<release, held>>
  BY DEF SetInventory, Pending, Advance
<1>2. pc \in Nat /\ step = Plan[release][pc]
  BY <1>1, Current
<1>3. Gathered(release', pc') = {}
  BY <1>1, <1>2, GatheredAfterOther
<1>4. total \in [VirtualIds -> Int] /\ held' \in [Holdings -> Int]
  BY <1>1, DeploymentAssumption DEF Typed, TypeOK, PlansTyped
<1>5. \A v \in VirtualIds : v # step.of => total[v] = 0
  BY DEF TotalsRight, TotalRight, Gathering
<1>6. \A v \in VirtualIds : total'[v] = 0
  BY <1>1, <1>4, <1>5
<1>7. QED
  BY <1>3, <1>4, <1>6, TotalsStart

(***************************************************************************)
(* A trade of a holding that a script has added up spoils the total, but   *)
(* it is a trade of the inventory that is being made.                      *)
(***************************************************************************)
LEMMA TradedAsConfigured ==
  ASSUME IdsBeforeTrade, IdsBeforeTrade', Trade, NEW h \in Holdings, held[h] # 0 \/ held'[h] # 0
  PROVE  IdOf(h) = Configured(release, h)
<1>1. release' = release /\ store' = store
  BY DEF Trade
<1>2. store[IdKey[h]] = ConfiguredId(release, h)
  BY <1>1 DEF IdsBeforeTrade
<1>3. QED
  BY <1>2 DEF IdOf, Configured

LEMMA TotalsAfterTrade ==
  ASSUME Typed, TotalsRight, IdsBeforeTrade, IdsBeforeTrade', Trade
  PROVE  TotalsRight'
<1>1. UNCHANGED <<release, pc, deployed, roles, store, migrations, total>> /\ raced \subseteq raced'
  BY TradeMoves
<1>2. PICK h \in Holdings, d \in {-1, 1} :
        /\ held[h] # 0 \/ held'[h] # 0
        /\ \A g \in Holdings : g # h => held'[g] = held[g]
        /\ running /\ step.op \in {"read", "fix"} /\ step.of = IdOf(h) => IdOf(h) \in raced'
  BY TradeMoves
<1>3. held \in [Holdings -> Int] /\ held' \in [Holdings -> Int] /\ release \in Releases
  BY NextTyped, DeploymentAssumption DEF Typed, TypeOK, PlansTyped, Next
<1>4. Holds(step)' <=> Holds(step)
  BY <1>1 DEF step, Holds, Build, Instance, Granted
<1>5. \A v : Gathering(v)' <=> Gathering(v)
  BY <1>1, <1>4 DEF Gathering, running, step
<1>6. ASSUME NEW v \in VirtualIds, Gathering(v), v \notin raced'
      PROVE  TotalRight(v)'
  <2>1. running /\ step.op \in {"read", "fix"} /\ step.of = v
    BY <1>6 DEF Gathering
  <2>2. pc \in 1..LastStep(release) /\ step = Plan[release][pc]
    BY <2>1, Current
  <2>3. IdOf(h) # v
    BY <1>2, <1>6, <2>1
  <2>4. h \notin Gathered(release, pc)
    BY <1>2, <1>3, <2>1, <2>2, <2>3, GatheredConfigured, TradedAsConfigured
  <2>5. SumOver(held', Gathered(release, pc)) = SumOver(held, Gathered(release, pc)) + 0
    BY <1>2, <1>3, <2>4, SumOverMoves
  <2>6. total[v] = SumOver(held, Gathered(release, pc)) /\ total[v] \in Int
    BY <1>1, <1>6 DEF TotalsRight, TotalRight, Typed, TypeOK
  <2>7. QED
    BY <1>1, <1>5, <1>6, <2>5, <2>6 DEF TotalRight
<1>7. ASSUME NEW v \in VirtualIds, ~Gathering(v)
      PROVE  TotalRight(v)'
  BY <1>1, <1>5, <1>7 DEF TotalsRight, TotalRight
<1>8. QED
  BY <1>5, <1>6, <1>7 DEF TotalsRight

LEMMA NextTotals ==
  ASSUME Typed, HoldingsListed, TotalsRight, IdsBeforeTrade, IdsBeforeTrade', [Next]_vars
  PROVE  TotalsRight'
<1>1. release \in Releases /\ held' \in [Holdings -> Int]
  BY NextTyped, DeploymentAssumption DEF Typed, TypeOK, PlansTyped
<1>2. LastStep(release) \in Nat
  BY <1>1, PlanSteps
<1>3. CASE Start
  <2>1. pc' = 1 /\ \A v \in VirtualIds : total'[v] = 0
    BY <1>3, TotalsIdle DEF Start, scriptVars
  <2>2. Gathered(release', pc') = {}
    BY <2>1, GatheredAfterOther
  <2>3. QED
    BY <1>1, <2>1, <2>2, TotalsStart
<1>4. CASE Fail \/ Crash
  <2>1. pc' = 0 /\ release' = release /\ \A v \in VirtualIds : total'[v] = 0
    BY <1>4 DEF Fail, Crash, NoTotals
  <2>2. ~running'
    BY <1>2, <2>1 DEF running
  <2>3. QED
    BY <1>1, <2>1, <2>2, TotalsStart
<1>5. CASE NextRelease
  <2>1. pc' = 0 /\ release' \in Releases /\ \A v \in VirtualIds : total'[v] = 0
    BY <1>5, ControlTyped, TotalsIdle DEF NextRelease, scriptVars
  <2>2. ~running'
    BY <2>1, PlanSteps DEF running
  <2>3. QED
    BY <1>1, <2>1, <2>2, TotalsStart
<1>6. CASE HandOver
  <2>1. /\ pc = LastStep(release) + 1 /\ pc' = pc /\ release' = release /\ total' = total
    BY <1>6 DEF HandOver, finished
  <2>2. ~running /\ ~running'
    BY <1>2, <2>1 DEF running
  <2>3. \A v \in VirtualIds : total'[v] = 0
    BY <2>1, <2>2, TotalsIdle
  <2>4. QED
    BY <1>1, <2>2, <2>3, TotalsStart
<1>7. CASE UNCHANGED vars
  <2>1. step' = step /\ (running' <=> running) /\ (Holds(step)' <=> Holds(step))
        /\ UNCHANGED <<release, pc, total, held, raced>>
    BY <1>7 DEF vars, step, running, Holds, Build, Instance, Granted
  <2>2. QED
    BY <2>1 DEF TotalsRight, TotalRight, Gathering
<1>8. QED
  BY <1>3, <1>4, <1>5, <1>6, <1>7, TotalsAfterPass, TotalsAfterStep, TotalsAfterRead, TotalsAfterFix,
     TotalsAfterTrade DEF Next, RunStep

(***************************************************************************)
(* The inventories, step by step.                                          *)
(***************************************************************************)
LEMMA MatchesAfterSet ==
  ASSUME Typed, InventoryMatches, IdsBeforeTrade, SetIfDifferent
  PROVE  InventoryMatches'
<1>1. /\ UNCHANGED <<held, inventory, raced>> /\ held \in [Holdings -> Int]
      /\ release \in Releases /\ step \in Steps(release) /\ Sets(step, step.key) /\ ~Holds(step)
      /\ \A k \in Keys : store'[k] = IF k = step.key THEN step.value ELSE store[k]
  BY SetMarkets, DeploymentAssumption DEF Typed, TypeOK, PlansTyped
<1>2. ASSUME NEW h \in Holdings, held[h] # 0
      PROVE  store'[IdKey[h]] = store[IdKey[h]]
  <2>1. IdKey[h] \in Keys
    BY HoldingKeysTyped
  <2>2. ASSUME IdKey[h] = step.key
        PROVE  FALSE
    <3>1. /\ SetStep(release, IdKey[h]) \in Steps(release)
          /\ Sets(SetStep(release, IdKey[h]), IdKey[h])
          /\ ConfiguredId(release, h) = SetStep(release, IdKey[h]).value
      BY <1>1, <2>2 DEF SetStep, ConfiguredId
    <3>2. ConfiguredId(release, h) = step.value
      BY <1>1, <2>2, <3>1, SetOnce DEF Sets
    <3>3. store[step.key] = step.value
      BY <1>2, <2>2, <3>2 DEF IdsBeforeTrade
    <3>4. QED
      BY <1>1, <3>3 DEF Sets, Holds
  <2>3. QED
    BY <1>1, <2>1, <2>2
<1>3. ASSUME NEW v
      PROVE  SumOver(held, Under(v)') = SumOver(held, Under(v))
  <2>1. \A h \in Holdings : held[h] # 0 => (h \in Under(v)' <=> h \in Under(v))
    BY <1>2 DEF Under, IdOf
  <2>2. QED
    BY <1>1, <2>1, SumOverSame
<1>4. \A v \in VirtualIds \ raced' : inventory'[v] = SumOver(held', Under(v)')
  BY <1>1, <1>3, InventorySums
<1>5. QED
  BY <1>4, InventorySumsNext

LEMMA MatchesAfterFix ==
  ASSUME Typed, TotalsRight, InventoryMatches, IdsBeforeTrade, SetInventory
  PROVE  InventoryMatches'
<1>1. running /\ step.op = "fix" /\ ~Holds(step)
  BY DEF SetInventory, Pending
<1>2. /\ release \in Releases /\ pc \in 1..LastStep(release) /\ step = Plan[release][pc]
      /\ step.of \in VirtualIds
  BY <1>1, Current DEF StepTyped
<1>3. PICK u \in VirtualIds : u = step.of
  BY <1>2
<1>4. inventory' = [inventory EXCEPT ![u] = total[u]] /\ UNCHANGED <<store, held, raced>>
  BY <1>3 DEF SetInventory, Advance
<1>5. inventory \in [VirtualIds -> Int] /\ held \in [Holdings -> Int]
  BY DeploymentAssumption DEF Typed, TypeOK, PlansTyped
<1>6. \A v : Under(v)' = Under(v)
  BY <1>4 DEF Under, IdOf
<1>7. ASSUME u \notin raced
      PROVE  total[u] = SumOver(held, Under(u))
  <2>1. total[u] = SumOver(held, Gathered(release, pc))
    BY <1>1, <1>3, <1>7 DEF TotalsRight, TotalRight, Gathering
  <2>2. ASSUME NEW h \in Holdings, held[h] # 0
        PROVE  h \in Gathered(release, pc) <=> h \in Under(u)
    <3>1. IdOf(h) = Configured(release, h)
      BY <2>2 DEF IdsBeforeTrade, IdOf, Configured
    <3>2. Configured(release, h) = u => h \in Gathered(release, pc)
      BY <1>1, <1>2, <1>3, DeploymentAssumption DEF FixesWhole
    <3>3. h \in Gathered(release, pc) => Configured(release, h) = u
      BY <1>2, <1>3, GatheredConfigured
    <3>4. QED
      BY <3>1, <3>2, <3>3 DEF Under
  <2>3. QED
    BY <1>5, <2>1, <2>2, SumOverSame
<1>8. ASSUME NEW v \in VirtualIds \ raced
      PROVE  inventory'[v] = SumOver(held', Under(v)')
  <2>1. SumOver(held', Under(v)') = SumOver(held, Under(v))
    BY <1>4, <1>6
  <2>2. CASE v = u
    BY <1>4, <1>5, <1>7, <2>1, <2>2
  <2>3. CASE v # u
    BY <1>4, <1>5, <2>1, <2>3, InventorySums
  <2>4. QED
    BY <2>2, <2>3
<1>9. QED
  BY <1>4, <1>8, InventorySumsNext

(***************************************************************************)
(* What a pool holds is not negative, so the sum of some pools is not, and *)
(* the inventory of swaps that is right never has to stop at zero.         *)
(***************************************************************************)
LEMMA MatchesAfterTrade ==
  ASSUME Typed, HoldingsListed, HoldingsListed', InventoryMatches, Trade
  PROVE  InventoryMatches'
<1>1. UNCHANGED <<release, pc, deployed, roles, store, migrations, total>> /\ raced \subseteq raced'
  BY TradeMoves
<1>2. PICK h \in Holdings, d \in {-1, 1} :
        /\ held'[h] = held[h] + d /\ \A g \in Holdings : g # h => held'[g] = held[g]
        /\ inventory' =
             IF store[IdKey[h]] = 0 THEN inventory
             ELSE [inventory EXCEPT ![IdOf(h)] =
                     IF h[1] = "swaps" /\ inventory[IdOf(h)] + d < 0 THEN 0 ELSE inventory[IdOf(h)] + d]
  BY TradeMoves
<1>3. /\ held \in [Holdings -> Int] /\ held' \in [Holdings -> Int]
      /\ inventory \in [VirtualIds -> Int]
  BY NextTyped, DeploymentAssumption DEF Typed, TypeOK, PlansTyped, Next
<1>4. held[h] \in Int /\ d \in Int /\ held'[h] - held[h] = d
  BY <1>2, <1>3
<1>5. PICK u : u = IdOf(h)
  OBVIOUS
<1>6. ASSUME NEW v \in VirtualIds \ raced'
      PROVE  inventory'[v] = SumOver(held', Under(v)')
  <2>1. Under(v)' = Under(v)
    BY <1>1 DEF Under, IdOf
  <2>2. v \in VirtualIds \ raced /\ inventory[v] = SumOver(held, Under(v)) /\ inventory[v] \in Int
    BY <1>1, <1>3, InventorySums
  <2>3. SumOver(held', Under(v)) = SumOver(held, Under(v)) + (IF h \in Under(v) THEN d ELSE 0)
    BY <1>2, <1>3, <1>4, SumOverMoves
  <2>4. h \in Under(v) <=> v = u
    BY <1>5 DEF Under
  <2>5. CASE v # u
    <3>1. inventory'[v] = inventory[v]
      BY <1>2, <1>3, <1>5, <2>2, <2>5
    <3>2. QED
      BY <2>1, <2>2, <2>3, <2>4, <2>5, <3>1
  <2>6. CASE v = u
    <3>1. store[IdKey[h]] # 0
      <4>1. v[2] # 0
        BY <2>2, DeploymentAssumption DEF FixesWhole
      <4>2. QED
        BY <1>5, <2>6, <4>1 DEF IdOf
    <3>2. h[1] = "swaps" => SumOver(held', Under(v)) \in Nat
      <4>1. \A g \in Holdings : g \in Under(v) => g[1] = h[1]
        BY <1>5, <2>6 DEF Under, IdOf
      <4>2. \A g \in Holdings : h[1] = "swaps" /\ g \in Under(v) => held'[g] >= 0
        BY <4>1 DEF HoldingsListed
      <4>3. QED
        BY <1>3, <4>2, SumOverNat
    <3>3. h[1] = "swaps" => ~(inventory[v] + d < 0)
      BY <1>4, <2>2, <2>3, <2>4, <2>6, <3>2
    <3>4. inventory' = [inventory EXCEPT ![v] = inventory[v] + d]
      BY <1>2, <1>5, <2>6, <3>1, <3>3
    <3>5. inventory'[v] = inventory[v] + d
      BY <1>3, <2>2, <3>4
    <3>6. QED
      BY <2>1, <2>2, <2>3, <2>4, <2>6, <3>5
  <2>7. QED
    BY <2>5, <2>6
<1>7. QED
  BY <1>6, InventorySumsNext

LEMMA NextInventory ==
  ASSUME Typed, InventoryInv, IdsBeforeTrade, IdsBeforeTrade', [Next]_vars
  PROVE  InventoryInv'
<1>1. HoldingsListed' /\ TotalsRight'
  BY NextListed, NextTotals DEF InventoryInv
<1>2. InventoryMatches'
  <2>1. CASE Deploy
    <3>1. CASE UNCHANGED <<held, inventory>> /\ \A h \in Holdings : store'[IdKey[h]] = store[IdKey[h]]
      <4>1. \A v : Under(v)' = Under(v)
        BY <3>1 DEF Under, IdOf
      <4>2. QED
        BY <2>1, <3>1, <4>1, DeployMarkets, InventorySums, InventorySumsNext DEF InventoryInv
    <3>2. CASE inventory' = NoTotals /\ \A h \in Holdings : held'[h] = 0
      <4>1. held' \in [Holdings -> Int]
        BY NextTyped, DeploymentAssumption DEF Typed, TypeOK, PlansTyped
      <4>2. \A v \in VirtualIds : inventory'[v] = 0 /\ SumOver(held', Under(v)') = 0
        BY <3>2, <4>1, SumOverNone DEF NoTotals
      <4>3. QED
        BY <4>2, InventorySumsNext
    <3>3. QED
      BY <2>1, <3>1, <3>2, DeployMarkets
  <2>2. CASE UNCHANGED <<store, held, inventory, raced>>
    <3>1. \A v : Under(v)' = Under(v)
      BY <2>2 DEF Under, IdOf
    <3>2. QED
      BY <2>2, <3>1, InventorySums, InventorySumsNext DEF InventoryInv
  <2>3. QED
    BY <1>1, <2>1, <2>2, InventorySteps, MatchesAfterSet, MatchesAfterFix, MatchesAfterTrade DEF InventoryInv
<1>3. QED
  BY <1>1, <1>2 DEF InventoryInv

(* The virtual inventories are right on a chain that is in use, also when a  *)
(* run stops within a fix script and is started again: each is what the      *)
(* markets with its id hold together, unless users traded while a script was *)
(* adding it up. This is on the condition that README.md:482 puts on whoever *)
(* configures the markets: ids are set before there is trading. The scripts  *)
(* themselves do not see to it on a chain in use, as deployAndConfigureMarkets *)
(* sets the id of a new market after the caps that open it.                  *)
THEOREM DeploymentInventoryMatches == Spec /\ []IdsBeforeTrade => []InventoryMatches
<1>1. Typed /\ InventoryInv /\ IdsBeforeTrade /\ IdsBeforeTrade' /\ [Next]_vars => InventoryInv'
  BY NextInventory
<1>2. InventoryInv => InventoryMatches
  BY DEF InventoryInv
<1>3. QED
  BY InitInventory, AlwaysTyped, <1>1, <1>2, PTL DEF Spec

=============================================================================
