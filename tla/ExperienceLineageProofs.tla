------------------------ MODULE ExperienceLineageProofs ------------------------
(***************************************************************************)
(* The way from a run to a Policy that is served: ExperienceLineage,        *)
(* Lessons and PromotionGates.                                             *)
(*                                                                         *)
(* The proofs about ExperienceLineage: types, no twin of an automatic       *)
(* proposal, what prompts were written from, and what stands behind an      *)
(* activation, for any Experiences, roles, runs, processes and bounds.      *)
(*                                                                         *)
(* An activation looks at the rules of a Policy, not at its Experiences,    *)
(* and a while before it writes.  That they are confirmed then follows from *)
(* the whole way to it: an Experience or a rule that is confirmed stays so, *)
(* and nothing is worded, compiled or proposed from one that is not.        *)
(***************************************************************************)
EXTENDS ExperienceLineage, PromotionGates, Lessons, FiniteSetTheorems, WellFoundedInduction, TLAPS

(***************************************************************************)
(* The inductive invariant.                                                *)
(***************************************************************************)
\* What a row refers to exists, and what is derived from an Experience is derived from a
\* confirmed one.
RowsOK ==
    /\ DOMAIN policies \subseteq Versions
    /\ \A v \in DOMAIN policies :
          policies[v].skill = "bootstrap" \/ policies[v].parent \in DOMAIN policies
    /\ \A r \in RuleIds : rules[r] # "absent" => HasEvidence(r.exp)
    /\ \A v \in DOMAIN policies : \A e \in policies[v].sources : HasEvidence(e)

\* What remains, at its write, of what an activation has checked.
Checked(f) ==
    /\ policies[f.version].replay = f.pins \/ policies[f.version].raced
    /\ \A r \in policies[f.version].rules :
          /\ rules[r] = "confirmed"
          /\ r.exp \notin Repairs => f.seen[TaskOf[r.exp]] <= r.evidence

\* The same of what a process holds.
FrameOK(f) ==
    /\ f.op = "word" => HasEvidence(f.exp)
    /\ f.op \in {"admit", "admitted", "migrate"} => HasEvidence(f.rule.exp)
    /\ f.op = "migrate" => f.previous \in DOMAIN policies /\ f.previous.contract = "v1"
    /\ f.op = "compile" => f.parent \in DOMAIN policies /\ \A e \in f.sources : HasEvidence(e)
    /\ f.op \in {"replay", "evaluate", "shadow", "switch", "rollback"} => f.version \in DOMAIN policies
    /\ f.op = "switch" => (policies[f.version].required => Checked(f))

\* RetryMakesNoTwin without counting.
NoTwin ==
    /\ \A u, v \in DOMAIN policies :
          policies[u].auto /\ policies[v].auto
            /\ policies[u].rules \cap policies[v].rules # {} => u = v
    /\ frame[Automatic].op = "compile" =>
          \A v \in DOMAIN policies :
              policies[v].auto => policies[v].rules \cap frame[Automatic].rules = {}

\* PromptsHaveTheirSources is about a function defined by itself: that there is one is part
\* of the invariant, and the rest holds of any that meets its definition.
IsAuthors(f) ==
    f = [v \in DOMAIN policies |->
           [k \in Skills |-> IF policies[v].skill = k THEN policies[v].sources
                             ELSE IF policies[v].skill = "bootstrap"
                               THEN {e \in policies[v].compiled : SkillOf[e] = k}
                             ELSE f[policies[v].parent][k]]]

Attributed(f) ==
    \A v \in DOMAIN policies :
        /\ SourcesOf(v) = UNION {f[v][k] : k \in Skills}
        /\ \A k \in Skills : \A e \in f[v][k] : SkillOf[e] = k

\* What a proposal learnt from is about its role, and what a migration starts from is not
\* itself a migration.
SkillsOK ==
    /\ \A v \in DOMAIN policies : v.contract = "v1" => policies[v].skill # "contract-migration"
    /\ \A p \in Processes : frame[p].op = "compile" =>
          \A e, f \in frame[p].sources : SkillOf[e] = SkillOf[f]

LineageOK ==
    /\ SkillsOK
    /\ \E f : IsAuthors(f)
    /\ \A f : IsAuthors(f) => Attributed(f)

Inv == TypeOK /\ RowsOK /\ (\A p \in Processes : FrameOK(frame[p])) /\ NoTwin

(***************************************************************************)
(* Frames and rows, field by field.                                        *)
(***************************************************************************)
LEMMA FrameFields ==
    ASSUME NEW f \in FrameType
    PROVE  /\ f.op = "word" => f.exp \in Experiences /\ f.evidence \in 0..MaxDecisions
           /\ f.op \in {"admit", "admitted", "migrate"} => f.rule \in RuleIds
           /\ f.op = "migrate" => f.previous \in Versions
           /\ f.op = "compile" => /\ f.sources \subseteq Experiences
                                  /\ f.rules \subseteq RuleIds /\ f.parent \in Versions
           /\ f.op \in {"replay", "evaluate", "shadow", "switch"} =>
                 f.version \in Versions /\ f.pins \in Pins
           /\ f.op = "switch" => f.seen \in [Tasks -> 0..MaxDecisions]
           /\ f.op = "rollback" => f.version \in Versions
  BY DEF FrameType, Idle

LEMMA Frames ==
    /\ Idle \in FrameType /\ Idle.op = "idle"
    /\ \A e \in Experiences, n \in 0..MaxDecisions :
          [op |-> "word", exp |-> e, evidence |-> n] \in FrameType
    /\ \A r \in RuleIds : /\ [op |-> "admit", rule |-> r] \in FrameType
                          /\ [op |-> "admitted", rule |-> r] \in FrameType
    /\ \A r \in RuleIds, v \in Versions, b \in BOOLEAN :
          [op |-> "migrate", rule |-> r, previous |-> v, found |-> b] \in FrameType
    /\ \A s \in SUBSET Experiences, rs \in SUBSET RuleIds, v \in Versions :
          v.contract = "v2" => CompileFrame(s, rs, v) \in FrameType
  BY DEF FrameType, Idle, CompileFrame

LEMMA PolicyFrames ==
    ASSUME NEW v \in Versions, NEW u \in Versions, NEW i \in Pins
    PROVE  /\ [op |-> "replay", version |-> v, pins |-> i] \in FrameType
           /\ [op |-> "evaluate", version |-> v, pins |-> i] \in FrameType
           /\ [op |-> "shadow", version |-> v, pins |-> i] \in FrameType
           /\ [op |-> "rollback", version |-> v, previous |-> u] \in FrameType
           /\ \A s \in [Tasks -> 0..MaxDecisions] :
                [op |-> "switch", version |-> v, previous |-> u, pins |-> i, seen |-> s]
                   \in FrameType
  BY DEF FrameType

LEMMA RowFields ==
    ASSUME NEW x \in PolicyType
    PROVE  /\ x.parent \in Versions \cup {NoVersion}
           /\ x.skill \in Skills \cup {"bootstrap", "contract-migration"}
           /\ x.required \in BOOLEAN /\ x.sources \subseteq Experiences
           /\ x.compiled \subseteq Memories /\ x.rules \subseteq RuleIds
           /\ x.auto \in BOOLEAN /\ x.replay \in ResultType /\ x.raced \in BOOLEAN
  BY DEF PolicyType

LEMMA VersionFields ==
    ASSUME NEW v \in Versions
    PROVE  /\ v.prompts \in [Skills -> Texts]
           /\ \A k \in Skills, t \in Texts : Changed(v, k, t) \in Versions
           /\ Migrated(v) \in Versions /\ Migrated(v).contract = "v2"
           /\ v.contract \in {"v1", "v2"}
  BY LineageAssumption DEF Versions, Baseline, Changed, Migrated

LEMMA EvidenceType ==
    ASSUME TypeOK, NEW e \in Experiences
    PROVE  Evidence(e) \in 0..MaxDecisions
  BY LineageAssumption DEF TypeOK, Evidence

LEMMA CountTwins ==
    ASSUME NoTwin
    PROVE  RetryMakesNoTwin
<1> SUFFICES ASSUME NEW r \in RuleIds
             PROVE  LET own == {v \in DOMAIN policies : r \in policies[v].rules /\ policies[v].auto}
                    IN  /\ Cardinality(own) <= 1
                        /\ frame[Automatic].op = "compile" /\ r \in frame[Automatic].rules
                             => own = {}
    BY DEF RetryMakesNoTwin
<1> DEFINE own == {v \in DOMAIN policies : r \in policies[v].rules /\ policies[v].auto}
<1>1. Cardinality(own) <= 1
  <2>1. CASE own = {}
    BY <2>1, FS_EmptySet
  <2>2. CASE own # {}
    <3>1. PICK u : u \in own
      BY <2>2
    <3>2. own = {u}
      BY <3>1 DEF NoTwin
    <3>3. Cardinality({u}) = 1
      BY FS_Singleton
    <3> HIDE DEF own
    <3> QED BY <3>2, <3>3
  <2> QED BY <2>1, <2>2
<1>2. frame[Automatic].op = "compile" /\ r \in frame[Automatic].rules => own = {}
  BY DEF NoTwin
<1> QED BY <1>1, <1>2

(***************************************************************************)
(* Initially.                                                              *)
(***************************************************************************)
LEMMA BaselineVersion == Baseline(Contract) \in Versions
  BY LineageAssumption DEF Baseline, Versions

LEMMA BootstrapRow ==
    /\ Bootstrap \in PolicyType
    /\ Bootstrap.skill = "bootstrap" /\ Bootstrap.compiled = Inherited
    /\ Bootstrap.sources = {} /\ Bootstrap.rules = {} /\ Bootstrap.auto = FALSE
  BY DEF Bootstrap, PolicyType, ResultType, Failed, Memories

LEMMA InitInv == ASSUME Init PROVE Inv
<1>1. /\ active = Baseline(Contract) /\ DOMAIN policies = {active}
      /\ policies[active] = Bootstrap
  BY DEF Init
<1>2. \A p \in Processes : frame[p] = Idle /\ frame[p].op = "idle"
  BY Frames DEF Init
<1>3. TypeOK
  <2>1. decisions \in [Tasks -> 0..MaxDecisions]
    BY LineageAssumption DEF Init
  <2>2. exps \in [Experiences -> ExperienceType]
    BY LineageAssumption DEF Init, ExperienceType
  <2>3. rules \in [RuleIds -> RuleStates]
    BY DEF Init, RuleStates
  <2>4. policies \in [DOMAIN policies -> PolicyType] /\ active \in DOMAIN policies
    BY <1>1, BootstrapRow DEF Init
  <2>5. inputs \in Pins
    BY LineageAssumption DEF Init, Pins
  <2>6. frame \in [Processes -> FrameType]
    BY Frames DEF Init
  <2> QED BY <2>1, <2>2, <2>3, <2>4, <2>5, <2>6 DEF TypeOK
<1>4. RowsOK
  BY <1>1, BaselineVersion, BootstrapRow DEF RowsOK, Init
<1>5. \A p \in Processes : FrameOK(frame[p])
  BY <1>2 DEF FrameOK
<1>6. Automatic \in Processes
  BY DEF Processes
<1>7. NoTwin
  BY <1>1, <1>2, <1>6, BootstrapRow DEF NoTwin
<1> QED BY <1>3, <1>4, <1>5, <1>7 DEF Inv

(***************************************************************************)
(* What no step takes back.                                                *)
(***************************************************************************)
\* What a proposal wrote once and for all.
KeepsOrigin(v) ==
    /\ policies'[v].parent = policies[v].parent /\ policies'[v].skill = policies[v].skill
    /\ policies'[v].sources = policies[v].sources /\ policies'[v].rules = policies[v].rules
    /\ policies'[v].auto = policies[v].auto /\ policies'[v].required = policies[v].required
    /\ policies'[v].compiled = policies[v].compiled

\* The replay that an activation has looked at stays, or it is written down that it did not.
KeepsReplay(v) ==
    \/ policies'[v].replay = policies[v].replay /\ (policies[v].raced => policies'[v].raced)
    \/ policies'[v].raced
    \/ \A p \in Processes : frame[p].op = "switch" => frame[p].version # v

EvidenceGrows ==
    /\ \A e \in Experiences : HasEvidence(e) => HasEvidence(e)'
    /\ \A r \in RuleIds : /\ rules[r] = "confirmed" => rules'[r] = "confirmed"
                          /\ rules'[r] # "absent" => HasEvidence(r.exp)'

\* A frame that nobody touched still has what it needs.
LEMMA FrameKept ==
  ASSUME Inv, EvidenceGrows, DOMAIN policies \subseteq DOMAIN policies',
         \A v \in DOMAIN policies : KeepsOrigin(v) /\ KeepsReplay(v),
         NEW p \in Processes, NEW f, f = frame[p]
  PROVE  FrameOK(f)'
<1>1. FrameOK(f) /\ f \in FrameType
  BY DEF Inv, TypeOK
<1>2. \A e \in Experiences : HasEvidence(e) => HasEvidence(e)'
  BY DEF EvidenceGrows
<1>3. f.op = "word" => HasEvidence(f.exp)'
  BY <1>1, <1>2, FrameFields DEF FrameOK
<1>4. f.op \in {"admit", "admitted", "migrate"} => HasEvidence(f.rule.exp)'
  BY <1>1, <1>2, FrameFields DEF FrameOK, RuleIds
<1>5. f.op = "compile" => f.parent \in DOMAIN policies' /\ \A e \in f.sources : HasEvidence(e)'
  BY <1>1, <1>2, FrameFields DEF FrameOK
<1>6. /\ f.op = "migrate" => f.previous \in DOMAIN policies' /\ f.previous.contract = "v1"
      /\ f.op \in {"replay", "evaluate", "shadow", "switch", "rollback"} => f.version \in DOMAIN policies'
  BY <1>1 DEF FrameOK
<1>7. ASSUME f.op = "switch", policies'[f.version].required
      PROVE  Checked(f)'
  <2>1. PICK v : v = f.version
    OBVIOUS
  <2>2. v \in DOMAIN policies /\ KeepsOrigin(v) /\ KeepsReplay(v)
    BY <1>1, <1>7, <2>1 DEF FrameOK
  <2>3. policies[v].required /\ Checked(f)
    BY <1>1, <1>7, <2>1, <2>2 DEF FrameOK, KeepsOrigin
  <2>4. policies'[v].replay = f.pins \/ policies'[v].raced
    BY <1>7, <2>1, <2>2, <2>3 DEF Checked, KeepsReplay
  <2>5. policies[v].rules \subseteq RuleIds /\ policies'[v].rules = policies[v].rules
    BY <2>2, RowFields DEF Inv, TypeOK, KeepsOrigin
  <2>6. ASSUME NEW r \in policies'[v].rules
        PROVE  /\ rules'[r] = "confirmed"
               /\ r.exp \notin Repairs => f.seen[TaskOf[r.exp]] <= r.evidence
    BY <2>1, <2>3, <2>5, <2>6 DEF Checked, EvidenceGrows
  <2> QED BY <2>1, <2>4, <2>6 DEF Checked
<1> QED BY <1>3, <1>4, <1>5, <1>6, <1>7 DEF FrameOK

\* Rows stay or are added with what they refer to, and one frame moves on.
LEMMA StoreMoves ==
  ASSUME Inv, EvidenceGrows,
         decisions' \in [Tasks -> 0..MaxDecisions], exps' \in [Experiences -> ExperienceType],
         rules' \in [RuleIds -> RuleStates], inputs' \in Pins,
         policies' \in [DOMAIN policies' -> PolicyType], active' \in DOMAIN policies',
         DOMAIN policies \subseteq DOMAIN policies',
         \A v \in DOMAIN policies : KeepsOrigin(v) /\ KeepsReplay(v),
         \A v \in DOMAIN policies' \ DOMAIN policies :
            /\ v \in Versions
            /\ policies'[v].skill = "bootstrap" \/ policies'[v].parent \in DOMAIN policies
            /\ \A e \in policies'[v].sources : HasEvidence(e),
         NEW p \in Processes, NEW f \in FrameType, frame' = [frame EXCEPT ![p] = f],
         f = frame[p] \/ FrameOK(f)',
         NoTwin'
  PROVE  Inv'
<1>1. /\ frame' \in [Processes -> FrameType] /\ frame'[p] = f
      /\ \A x \in Processes : x # p => frame'[x] = frame[x]
  BY DEF Inv, TypeOK
<1>2. TypeOK'
  BY <1>1 DEF TypeOK
<1>3. RowsOK'
  <2>1. DOMAIN policies' \subseteq Versions
    BY DEF Inv, RowsOK
  <2>2. \A v \in DOMAIN policies' :
           policies'[v].skill = "bootstrap" \/ policies'[v].parent \in DOMAIN policies'
    BY DEF Inv, RowsOK, KeepsOrigin
  <2>3. \A r \in RuleIds : rules'[r] # "absent" => HasEvidence(r.exp)'
    BY DEF EvidenceGrows
  <2>4. ASSUME NEW v \in DOMAIN policies', NEW e \in policies'[v].sources
        PROVE  HasEvidence(e)'
    <3>1. HasEvidence(e)
      BY <2>4 DEF Inv, RowsOK, KeepsOrigin
    <3>2. e \in Experiences
      BY <2>4, RowFields
    <3> QED BY <3>1, <3>2 DEF EvidenceGrows
  <2> QED BY <2>1, <2>2, <2>3, <2>4 DEF RowsOK
<1>4. ASSUME NEW x \in Processes
      PROVE  FrameOK(frame[x])'
  <2>1. PICK g : g = frame'[x]
    OBVIOUS
  <2>2. FrameOK(g)'
    <3>1. CASE x = p /\ FrameOK(f)'
      BY <1>1, <2>1, <3>1
    <3>2. CASE g = frame[x]
      BY <3>2, FrameKept
    <3> QED BY <1>1, <2>1, <3>1, <3>2
  <2> QED BY <2>1, <2>2 DEF FrameOK, Checked
<1> QED BY <1>2, <1>3, <1>4 DEF Inv

(***************************************************************************)
(* Steps that write no Policy.                                             *)
(***************************************************************************)
LEMMA EvidenceStays ==
  ASSUME Inv, UNCHANGED <<exps, rules>>
  PROVE  EvidenceGrows
  BY DEF HasEvidence, Inv, RowsOK, EvidenceGrows

\* Evidence, rules, frames and inputs move on in their types.
LEMMA FrameMoves ==
  ASSUME Inv, EvidenceGrows, UNCHANGED <<policies, active>>,
         decisions' \in [Tasks -> 0..MaxDecisions], exps' \in [Experiences -> ExperienceType],
         rules' \in [RuleIds -> RuleStates], inputs' \in Pins,
         NEW p \in Processes, NEW f \in FrameType, frame' = [frame EXCEPT ![p] = f],
         f = frame[p] \/ (FrameOK(f)' /\ (f.op = "compile" => p # Automatic))
  PROVE  Inv'
<1>1. /\ policies' \in [DOMAIN policies' -> PolicyType] /\ active' \in DOMAIN policies'
      /\ DOMAIN policies' = DOMAIN policies
  BY DEF Inv, TypeOK
<1>2. \A v \in DOMAIN policies : KeepsOrigin(v) /\ KeepsReplay(v)
  BY DEF KeepsOrigin, KeepsReplay
<1>3. NoTwin'
  <2>1. Automatic \in Processes /\ frame \in [Processes -> FrameType]
    BY DEF Processes, Inv, TypeOK
  <2>2. frame'[Automatic].op = "compile" => frame'[Automatic] = frame[Automatic]
    BY <2>1
  <2> QED BY <2>2 DEF Inv, NoTwin
<1> QED BY <1>1, <1>2, <1>3, StoreMoves

\* As above, and every frame stays.
LEMMA RowsMove ==
  ASSUME Inv, EvidenceGrows, UNCHANGED <<policies, active, frame>>,
         decisions' \in [Tasks -> 0..MaxDecisions], exps' \in [Experiences -> ExperienceType],
         rules' \in [RuleIds -> RuleStates], inputs' \in Pins
  PROVE  Inv'
<1>1. Automatic \in Processes /\ frame[Automatic] \in FrameType
  BY DEF Processes, Inv, TypeOK
<1>2. frame' = [frame EXCEPT ![Automatic] = frame[Automatic]]
  BY DEF Inv, TypeOK
<1> QED BY <1>1, <1>2, FrameMoves

LEMMA RuleExperience ==
  ASSUME NEW r \in RuleIds
  PROVE  r.exp \in Experiences /\ r.words \in Words /\ r.evidence \in 0..MaxDecisions
  BY DEF RuleIds

LEMMA Deciding ==
  ASSUME Inv, NEW t \in Tasks, HumanDecides(t)
  PROVE  Inv'
<1>1. decisions' \in [Tasks -> 0..MaxDecisions]
  BY LineageAssumption DEF Inv, TypeOK, HumanDecides
<1> QED BY <1>1, EvidenceStays, RowsMove DEF Inv, TypeOK, HumanDecides

\* Another state of an Experience that is not confirmed.
LEMMA ExperienceMoves ==
  ASSUME Inv, UNCHANGED rules, NEW e \in Experiences, NEW x \in ExperienceType,
         exps' = [exps EXCEPT ![e] = x], HasEvidence(e) => x.state = "confirmed"
  PROVE  /\ exps' \in [Experiences -> ExperienceType] /\ EvidenceGrows
         /\ x.state = "confirmed" => HasEvidence(e)'
<1>1. exps' \in [Experiences -> ExperienceType] /\ exps'[e] = x
  BY DEF Inv, TypeOK
<1>2. \A y \in Experiences : HasEvidence(y) => HasEvidence(y)'
  BY <1>1 DEF Inv, TypeOK, HasEvidence
<1>3. \A r \in RuleIds : rules'[r] # "absent" => HasEvidence(r.exp)'
  BY <1>2, RuleExperience DEF Inv, RowsOK
<1> QED BY <1>1, <1>2, <1>3 DEF EvidenceGrows, HasEvidence

LEMMA Adding ==
  ASSUME Inv, NEW e \in Experiences, AddExperience(e)
  PROVE  Inv'
<1>1. PICK s \in {"candidate", "needs_evidence"} :
         exps' = [exps EXCEPT ![e] = [state |-> s, index |-> inputs.index]]
  BY DEF AddExperience
<1>2. PICK x : x = [state |-> s, index |-> inputs.index]
  OBVIOUS
<1>3. x \in ExperienceType
  BY <1>1, <1>2 DEF ExperienceType, Inv, TypeOK, Pins
<1>4. ~HasEvidence(e)
  BY DEF HasEvidence, AddExperience
<1>5. exps' \in [Experiences -> ExperienceType] /\ EvidenceGrows
  BY <1>1, <1>2, <1>3, <1>4, ExperienceMoves DEF AddExperience
<1> QED BY <1>5, RowsMove DEF Inv, TypeOK, AddExperience

LEMMA Reviewing ==
  ASSUME Inv, NEW e \in Experiences, ReviewExperience(e)
  PROVE  Inv'
<1>1. PICK s \in {"confirmed", "rejected", "needs_evidence"} :
         exps' = [exps EXCEPT ![e].state = s]
  BY DEF ReviewExperience
<1>2. PICK x : x = [exps[e] EXCEPT !.state = s]
  OBVIOUS
<1>3. x \in ExperienceType /\ exps' = [exps EXCEPT ![e] = x]
  BY <1>1, <1>2 DEF ExperienceType, Inv, TypeOK
<1>4. ~HasEvidence(e)
  BY DEF HasEvidence, ReviewExperience
<1>5. exps' \in [Experiences -> ExperienceType] /\ EvidenceGrows
  BY <1>3, <1>4, ExperienceMoves DEF ReviewExperience
<1> QED BY <1>5, RowsMove DEF Inv, TypeOK, ReviewExperience

\* Another state of a rule that is not confirmed.
LEMMA RuleMoves ==
  ASSUME Inv, UNCHANGED exps, NEW r \in RuleIds, NEW s \in RuleStates,
         rules' = [rules EXCEPT ![r] = s], HasEvidence(r.exp),
         rules[r] = "confirmed" => s = "confirmed"
  PROVE  rules' \in [RuleIds -> RuleStates] /\ EvidenceGrows
<1>1. rules' \in [RuleIds -> RuleStates]
  BY DEF Inv, TypeOK
<1>2. \A x : HasEvidence(x)' <=> HasEvidence(x)
  BY DEF HasEvidence
<1>3. \A x \in RuleIds : /\ rules[x] = "confirmed" => rules'[x] = "confirmed"
                         /\ rules'[x] # "absent" => rules[x] # "absent" \/ x = r
  BY DEF Inv, TypeOK
<1> QED BY <1>1, <1>2, <1>3 DEF Inv, RowsOK, EvidenceGrows

LEMMA ReviewingRule ==
  ASSUME Inv, NEW r \in RuleIds, ReviewRule(r)
  PROVE  Inv'
<1>1. PICK s \in {"confirmed", "rejected"} : rules' = [rules EXCEPT ![r] = s]
  BY DEF ReviewRule
<1>2. rules[r] = "candidate" /\ HasEvidence(r.exp) /\ s \in RuleStates
  BY DEF ReviewRule, Inv, RowsOK, RuleStates
<1>3. rules' \in [RuleIds -> RuleStates] /\ EvidenceGrows
  BY <1>1, <1>2, RuleMoves DEF ReviewRule
<1> QED BY <1>3, RowsMove DEF Inv, TypeOK, ReviewRule

LEMMA Moving == ASSUME Inv, InputsMove PROVE Inv'
<1>1. inputs' \in Pins
  BY LineageAssumption DEF Inv, TypeOK, InputsMove, Pins
<1> QED BY <1>1, EvidenceStays, RowsMove DEF Inv, TypeOK, InputsMove

\* A process takes up something, and nothing else happens.
LEMMA Taken ==
  ASSUME Inv, NEW p \in Processes, NEW f \in FrameType, frame' = [frame EXCEPT ![p] = f],
         UNCHANGED <<decisions, exps, rules, policies, active, inputs>>,
         FrameOK(f), f.op = "compile" => p # Automatic
  PROVE  Inv'
<1>1. FrameOK(f)'
  BY DEF FrameOK, Checked, HasEvidence
<1> QED BY <1>1, EvidenceStays, FrameMoves DEF Inv, TypeOK

LEMMA GivingUp ==
  ASSUME Inv, NEW p \in Processes, GiveUp(p)
  PROVE  Inv'
<1>1. Idle \in FrameType /\ Idle.op = "idle"
  BY Frames
<1>2. FrameOK(Idle)
  BY <1>1 DEF FrameOK
<1> QED BY <1>1, <1>2, Taken DEF GiveUp

LEMMA StartingRule ==
  ASSUME Inv, NEW p \in People, NEW e \in Experiences, StartRule(p, e)
  PROVE  Inv'
<1>1. PICK f : f = [op |-> "word", exp |-> e, evidence |-> Evidence(e)]
  OBVIOUS
<1>2. f \in FrameType /\ f.op = "word" /\ f.exp = e
  BY <1>1, EvidenceType, Frames DEF Inv
<1>3. FrameOK(f)
  BY <1>2 DEF FrameOK, StartRule
<1> QED BY <1>1, <1>2, <1>3, Taken DEF StartRule, Processes

LEMMA StartingCompile ==
  ASSUME Inv, NEW p \in People, NEW sources \in SUBSET Experiences,
         NEW rs \in SUBSET {r \in RuleIds : RuleStands(r)}, StartCompile(p, sources, rs)
  PROVE  Inv'
<1>1. p \in Processes /\ p # Automatic
  BY LineageAssumption DEF Processes
<1>2. active \in DOMAIN policies /\ active \in Versions /\ active.contract = "v2"
  BY DEF Inv, TypeOK, RowsOK, StartCompile
<1>3. PICK f : f = CompileFrame(sources, rs, active)
  OBVIOUS
<1>4. f \in FrameType
  BY <1>2, <1>3, Frames
<1>5. f.op = "compile" /\ f.sources = sources /\ f.parent = active
  BY <1>3 DEF CompileFrame
<1>6. FrameOK(f)
  BY <1>2, <1>5 DEF FrameOK, StartCompile
<1> QED BY <1>1, <1>3, <1>4, <1>6, Taken DEF StartCompile

LEMMA StartingReplay ==
  ASSUME Inv, NEW p \in People, NEW v \in DOMAIN policies, StartReplay(p, v)
  PROVE  Inv'
<1>1. v \in Versions /\ inputs \in Pins
  BY DEF Inv, TypeOK, RowsOK
<1>2. PICK f : f = [op |-> "replay", version |-> v, pins |-> inputs]
  OBVIOUS
<1>3. f \in FrameType /\ f.op = "replay" /\ f.version = v
  BY <1>1, <1>2, PolicyFrames
<1>4. FrameOK(f)
  BY <1>3 DEF FrameOK
<1> QED BY <1>2, <1>3, <1>4, Taken DEF StartReplay, Processes

LEMMA StartingEvaluation ==
  ASSUME Inv, NEW p \in People, NEW v \in DOMAIN policies, StartEvaluation(p, v)
  PROVE  Inv'
<1>1. PICK pins \in Pins :
         frame' = [frame EXCEPT ![p] = [op |-> "evaluate", version |-> v, pins |-> pins]]
  BY DEF StartEvaluation, EarlierPins
<1>2. v \in Versions
  BY DEF Inv, RowsOK
<1>3. PICK f : f = [op |-> "evaluate", version |-> v, pins |-> pins]
  OBVIOUS
<1>4. f \in FrameType /\ f.op = "evaluate" /\ f.version = v
  BY <1>2, <1>3, PolicyFrames
<1>5. FrameOK(f)
  BY <1>4 DEF FrameOK
<1> QED BY <1>1, <1>3, <1>4, <1>5, Taken DEF StartEvaluation, Processes

LEMMA StartingShadow ==
  ASSUME Inv, NEW p \in People, NEW v \in DOMAIN policies, StartShadow(p, v)
  PROVE  Inv'
<1>1. PICK pins \in Pins :
         frame' = [frame EXCEPT ![p] = [op |-> "shadow", version |-> v, pins |-> pins]]
  BY DEF StartShadow, EarlierPins
<1>2. v \in Versions
  BY DEF Inv, RowsOK
<1>3. PICK f : f = [op |-> "shadow", version |-> v, pins |-> pins]
  OBVIOUS
<1>4. f \in FrameType /\ f.op = "shadow" /\ f.version = v
  BY <1>2, <1>3, PolicyFrames
<1>5. FrameOK(f)
  BY <1>4 DEF FrameOK
<1> QED BY <1>1, <1>3, <1>4, <1>5, Taken DEF StartShadow, Processes

LEMMA StartingRollback ==
  ASSUME Inv, NEW p \in People, NEW v \in DOMAIN policies, StartRollback(p, v)
  PROVE  Inv'
<1>1. v \in Versions /\ active \in Versions /\ inputs \in Pins
  BY DEF Inv, TypeOK, RowsOK
<1>2. PICK f : f = [op |-> "rollback", version |-> v, previous |-> active]
  OBVIOUS
<1>3. f \in FrameType /\ f.op = "rollback" /\ f.version = v
  BY <1>1, <1>2, PolicyFrames
<1>4. FrameOK(f)
  BY <1>3 DEF FrameOK
<1> QED BY <1>2, <1>3, <1>4, Taken DEF StartRollback, Processes

\* The checks of an activation are what is then kept of them.
LEMMA StartingActivation ==
  ASSUME Inv, NEW p \in People, NEW v \in DOMAIN policies, StartActivation(p, v)
  PROVE  Inv'
<1>1. PICK pins \in Pins :
         /\ Replayed(v, pins)
         /\ frame' = [frame EXCEPT ![p] =
               [op |-> "switch", version |-> v, previous |-> active, pins |-> pins,
                seen |-> decisions]]
  BY DEF StartActivation, EarlierPins, MayApprove, MayActivateAutomatically
<1>2. v \in Versions /\ active \in Versions /\ decisions \in [Tasks -> 0..MaxDecisions]
  BY DEF Inv, TypeOK, RowsOK
<1>3. PICK f : f = [op |-> "switch", version |-> v, previous |-> active, pins |-> pins,
                    seen |-> decisions]
  OBVIOUS
<1>4. /\ f \in FrameType /\ f.op = "switch" /\ f.version = v
      /\ f.pins = pins /\ f.seen = decisions
  BY <1>2, <1>3, PolicyFrames
<1>5. ASSUME policies[v].required
      PROVE  Checked(f)
  <2>1. policies[v].replay = pins /\ \A r \in policies[v].rules : RuleStands(r)
    BY <1>1, <1>5 DEF Replayed, LineageHolds
  <2>2. policies[v].rules \subseteq RuleIds
    BY RowFields DEF Inv, TypeOK
  <2>3. ASSUME NEW r \in policies[v].rules, r.exp \notin Repairs
        PROVE  decisions[TaskOf[r.exp]] <= r.evidence
    <3>1. decisions[TaskOf[r.exp]] = r.evidence
      BY <2>1, <2>3 DEF RuleStands, EvidenceStands, Evidence
    <3>2. r.evidence \in 0..MaxDecisions
      BY <2>2, <2>3, RuleExperience
    <3> QED BY <3>1, <3>2, LineageAssumption
  <2> QED BY <1>4, <2>1, <2>3 DEF Checked, RuleStands
<1>6. FrameOK(f)
  BY <1>4, <1>5 DEF FrameOK
<1> QED BY <1>1, <1>3, <1>4, <1>6, Taken DEF StartActivation, Processes

LEMMA AddingRule ==
  ASSUME Inv, NEW p \in Processes, AddRule(p)
  PROVE  Inv'
<1>1. frame[p] \in FrameType /\ frame[p].op = "word" /\ FrameOK(frame[p])
  BY DEF Inv, TypeOK, AddRule
<1>2. /\ frame[p].exp \in Experiences /\ frame[p].evidence \in 0..MaxDecisions
      /\ HasEvidence(frame[p].exp)
  BY <1>1, FrameFields DEF FrameOK
<1>3. PICK w \in Words :
        /\ rules' = [rules EXCEPT ![NewRule(p, w)] = IF @ = "absent" THEN "candidate" ELSE @]
        /\ frame' = [frame EXCEPT ![p] =
                       IF p = Automatic THEN [op |-> "admit", rule |-> NewRule(p, w)]
                                        ELSE Idle]
  BY DEF AddRule
<1>4. PICK r : r = NewRule(p, w)
  OBVIOUS
<1>5. r \in RuleIds /\ r.exp = frame[p].exp
  BY <1>2, <1>4 DEF NewRule, RuleIds
<1>6. PICK f : f = IF p = Automatic THEN [op |-> "admit", rule |-> r] ELSE Idle
  OBVIOUS
<1>7. /\ f \in FrameType /\ f.op \in {"admit", "idle"}
      /\ f.op = "admit" => f.rule = r
  BY <1>5, <1>6, Frames
<1>8. frame' = [frame EXCEPT ![p] = f]
  BY <1>3, <1>4, <1>6
<1>9. PICK s \in RuleStates : /\ s = IF rules[r] = "absent" THEN "candidate" ELSE rules[r]
                              /\ rules' = [rules EXCEPT ![r] = s]
  BY <1>3, <1>4, <1>5 DEF Inv, TypeOK, RuleStates
<1>10. rules' \in [RuleIds -> RuleStates] /\ EvidenceGrows
  BY <1>2, <1>5, <1>9, RuleMoves DEF AddRule
<1>11. HasEvidence(r.exp)'
  BY <1>2, <1>5, <1>10 DEF EvidenceGrows
<1>12. FrameOK(f)' /\ f.op # "compile"
  BY <1>7, <1>11 DEF FrameOK
<1> QED BY <1>7, <1>8, <1>10, <1>12, FrameMoves DEF Inv, TypeOK, AddRule

LEMMA Admitting ==
  ASSUME Inv, NEW e \in Experiences, AutoAdmit(e)
  PROVE  Inv'
<1>1. Automatic \in Processes
  BY DEF Processes
<1>2. PICK x : x = [exps[e] EXCEPT !.state = "confirmed"]
  OBVIOUS
<1>3. x \in ExperienceType /\ x.state = "confirmed" /\ exps' = [exps EXCEPT ![e] = x]
  BY <1>2 DEF AutoAdmit, Inv, TypeOK, ExperienceType
<1>4. /\ exps' \in [Experiences -> ExperienceType] /\ EvidenceGrows
      /\ HasEvidence(e)'
  BY <1>3, ExperienceMoves DEF AutoAdmit
<1>5. ASSUME NEW f \in FrameType, frame' = [frame EXCEPT ![Automatic] = f],
             f.op \in {"admit", "word"},
             f.op = "word" => f.exp = e, f.op = "admit" => f.rule.exp = e
      PROVE  Inv'
  <2>1. FrameOK(f)' /\ f.op # "compile"
    BY <1>4, <1>5 DEF FrameOK
  <2> QED BY <1>1, <1>4, <1>5, <2>1, FrameMoves DEF Inv, TypeOK, AutoAdmit
<1>6. CASE \E r \in ReusableRules(e) :
             frame' = [frame EXCEPT ![Automatic] = [op |-> "admit", rule |-> r]]
  <2>1. PICK r \in ReusableRules(e) :
             frame' = [frame EXCEPT ![Automatic] = [op |-> "admit", rule |-> r]]
    BY <1>6
  <2>2. r \in RuleIds /\ r.exp = e
    BY <2>1 DEF ReusableRules, Alive
  <2>3. [op |-> "admit", rule |-> r] \in FrameType
    BY <2>2, Frames
  <2> QED BY <1>5, <2>1, <2>2, <2>3
<1>7. CASE frame' = [frame EXCEPT ![Automatic] =
                       [op |-> "word", exp |-> e, evidence |-> Evidence(e)]]
  <2>1. [op |-> "word", exp |-> e, evidence |-> Evidence(e)] \in FrameType
    BY EvidenceType, Frames DEF Inv
  <2> QED BY <1>5, <1>7, <2>1
<1> QED BY <1>6, <1>7 DEF AutoAdmit

LEMMA Confirming ==
  ASSUME Inv, AutoConfirm
  PROVE  Inv'
<1>1. PICK g : g = frame[Automatic]
  OBVIOUS
<1>2. /\ Automatic \in Processes /\ g \in FrameType /\ g.op = "admit"
      /\ FrameOK(g)
  BY <1>1 DEF Processes, Inv, TypeOK, AutoConfirm
<1>3. PICK r : r = g.rule
  OBVIOUS
<1>4. r \in RuleIds /\ HasEvidence(r.exp) /\ "confirmed" \in RuleStates
  BY <1>2, <1>3, FrameFields DEF FrameOK, RuleStates
<1>5. rules' = [rules EXCEPT ![r] = "confirmed"]
  BY <1>1, <1>3 DEF AutoConfirm
<1>6. rules' \in [RuleIds -> RuleStates] /\ EvidenceGrows
  BY <1>4, <1>5, RuleMoves DEF AutoConfirm
<1>7. PICK f : f = [op |-> "admitted", rule |-> r]
  OBVIOUS
<1>8. g \in [op : {"admit", "admitted"}, rule : RuleIds]
  BY <1>2 DEF FrameType, Idle
<1>9. frame' = [frame EXCEPT ![Automatic] = f]
  <2>1. frame' = [frame EXCEPT ![Automatic] = [g EXCEPT !.op = "admitted"]]
    BY <1>1 DEF AutoConfirm
  <2>2. [g EXCEPT !.op = "admitted"] = f
    BY <1>3, <1>7, <1>8
  <2> QED BY <2>1, <2>2
<1>10. f \in FrameType /\ f.op = "admitted" /\ f.rule = r
  BY <1>4, <1>7, Frames
<1>11. FrameOK(f)' /\ f.op # "compile"
  BY <1>4, <1>6, <1>10, RuleExperience DEF FrameOK, EvidenceGrows
<1> QED BY <1>2, <1>6, <1>9, <1>10, <1>11, FrameMoves DEF Inv, TypeOK, AutoConfirm

LEMMA StartingMigration ==
  ASSUME Inv, StartMigration
  PROVE  Inv'
<1>1. PICK g : g = frame[Automatic]
  OBVIOUS
<1>2. Automatic \in Processes /\ g \in FrameType /\ g.op = "admitted" /\ FrameOK(g)
  BY <1>1 DEF Processes, Inv, TypeOK, StartMigration
<1>3. g.rule \in RuleIds /\ HasEvidence(g.rule.exp)
  BY <1>2, FrameFields DEF FrameOK
<1>4. active \in DOMAIN policies /\ active \in Versions /\ active.contract = "v1"
  BY DEF Inv, TypeOK, RowsOK, StartMigration
<1>5. PICK f : /\ f = [op |-> "migrate", rule |-> g.rule, previous |-> active,
                       found |-> Exists(Migrated(active))]
               /\ Exists(Migrated(active)) \in BOOLEAN
  <2>1. Exists(Migrated(active)) \in BOOLEAN
    BY DEF Exists
  <2> QED BY <2>1
<1>6. f \in FrameType /\ f.op = "migrate" /\ f.rule = g.rule /\ f.previous = active
  BY <1>3, <1>4, <1>5, Frames
<1>7. FrameOK(f)
  BY <1>3, <1>4, <1>6 DEF FrameOK
<1> QED BY <1>1, <1>2, <1>5, <1>6, <1>7, Taken DEF StartMigration

\* What the automatic command compiles from is in no Policy.
LEMMA Compiling ==
  ASSUME Inv, AutoCompile
  PROVE  Inv'
<1>1. PICK g : g = frame[Automatic]
  OBVIOUS
<1>2. /\ Automatic \in Processes /\ g \in FrameType /\ g.op = "admitted" /\ FrameOK(g)
      /\ frame \in [Processes -> FrameType]
  BY <1>1 DEF Processes, Inv, TypeOK, AutoCompile
<1>3. PICK r : r = g.rule
  OBVIOUS
<1>4. /\ r \in RuleIds /\ HasEvidence(r.exp)
      /\ {r.exp} \in SUBSET Experiences /\ {r} \in SUBSET RuleIds
  BY <1>2, <1>3, FrameFields, RuleExperience DEF FrameOK
<1>5. active \in DOMAIN policies /\ active \in Versions /\ active.contract = "v2"
  BY DEF Inv, TypeOK, RowsOK, AutoCompile
<1>6. PICK f : /\ frame' = [frame EXCEPT ![Automatic] = f]
               /\ \/ f = Idle
                  \/ f = CompileFrame({r.exp}, {r}, active) /\ PoliciesWith(r) = {}
  BY <1>1, <1>3 DEF AutoCompile
<1>7. /\ f \in FrameType /\ f.op \in {"idle", "compile"}
      /\ f.op = "compile" => /\ f.parent = active /\ f.sources = {r.exp} /\ f.rules = {r}
                             /\ PoliciesWith(r) = {}
  <2>1. CASE f = Idle
    BY <2>1, Frames
  <2>2. CASE f = CompileFrame({r.exp}, {r}, active) /\ PoliciesWith(r) = {}
    <3>1. f \in FrameType
      BY <1>4, <1>5, <2>2, Frames
    <3> QED BY <2>2, <3>1 DEF CompileFrame
  <2> QED BY <1>6, <2>1, <2>2
<1>8. /\ UNCHANGED <<decisions, exps, rules, policies, active, inputs>>
      /\ frame'[Automatic] = f
  BY <1>2, <1>6 DEF AutoCompile
<1>9. FrameOK(f)'
  BY <1>4, <1>5, <1>7, <1>8 DEF FrameOK, HasEvidence
<1>10. NoTwin'
  <2>1. f.op = "compile" => \A v \in DOMAIN policies : r \notin policies[v].rules
    BY <1>7 DEF PoliciesWith
  <2> QED BY <1>7, <1>8, <2>1 DEF NoTwin, Inv
<1>11. \A v \in DOMAIN policies : KeepsOrigin(v) /\ KeepsReplay(v)
  BY <1>8 DEF KeepsOrigin, KeepsReplay
<1> QED BY <1>2, <1>6, <1>7, <1>8, <1>9, <1>10, <1>11, EvidenceStays, StoreMoves DEF Inv, TypeOK

(***************************************************************************)
(* Steps that write Policies.                                              *)
(***************************************************************************)
\* No proposal is added or rewritten, and none is begun.
OriginsStay ==
    /\ DOMAIN policies' = DOMAIN policies
    /\ \A v \in DOMAIN policies : KeepsOrigin(v)
    /\ \A p \in Processes : frame'[p].op = "compile" => frame'[p] = frame[p]

\* Statuses and results change, the frames stay or one of them ends.
LEMMA ResultsMove ==
  ASSUME Inv, UNCHANGED <<decisions, exps, rules, inputs>>,
         policies' \in [DOMAIN policies -> PolicyType], active' \in DOMAIN policies,
         \A v \in DOMAIN policies : KeepsOrigin(v) /\ KeepsReplay(v),
         NEW p \in Processes, frame' = frame \/ frame' = [frame EXCEPT ![p] = Idle]
  PROVE  Inv' /\ OriginsStay
<1>1. PICK f \in FrameType : f \in {frame[p], Idle} /\ frame' = [frame EXCEPT ![p] = f]
  BY Frames DEF Inv, TypeOK
<1>2. f = frame[p] \/ FrameOK(f)'
  BY <1>1, Frames DEF FrameOK
<1>3. DOMAIN policies' = DOMAIN policies
  OBVIOUS
<1>4. Automatic \in Processes
  BY DEF Processes
<1>5. \A x \in Processes : frame'[x].op = "compile" => frame'[x] = frame[x]
  BY <1>1, Frames DEF Inv, TypeOK
<1>6. NoTwin'
  BY <1>3, <1>4, <1>5 DEF NoTwin, KeepsOrigin, Inv
<1>7. Inv'
  BY <1>1, <1>2, <1>3, <1>6, EvidenceStays, StoreMoves DEF Inv, TypeOK
<1> QED BY <1>3, <1>5, <1>7 DEF OriginsStay

SameOrigin(x, y) ==
    /\ x.parent = y.parent /\ x.skill = y.skill /\ x.sources = y.sources
    /\ x.rules = y.rules /\ x.auto = y.auto /\ x.required = y.required
    /\ x.compiled = y.compiled

SameReplay(x, y) == x.replay = y.replay /\ x.raced = y.raced

\* Nothing but the status and the results of one row is written.
LEMMA RowEdited ==
  ASSUME Inv, NEW v \in DOMAIN policies, NEW x \in PolicyType,
         policies' = [policies EXCEPT ![v] = x], SameOrigin(x, policies[v]),
         \/ SameReplay(x, policies[v])
         \/ x.raced
         \/ \A p \in Processes : frame[p].op = "switch" => frame[p].version # v
  PROVE  /\ policies' \in [DOMAIN policies -> PolicyType]
         /\ \A u \in DOMAIN policies : KeepsOrigin(u) /\ KeepsReplay(u)
<1>1. policies' \in [DOMAIN policies -> PolicyType]
  BY DEF Inv, TypeOK
<1>2. \A u \in DOMAIN policies : policies'[u] = IF u = v THEN x ELSE policies[u]
  BY DEF Inv, TypeOK
<1>3. \A u \in DOMAIN policies : KeepsOrigin(u)
  BY <1>2 DEF KeepsOrigin, SameOrigin
<1>4. \A u \in DOMAIN policies : KeepsReplay(u)
  BY <1>2 DEF KeepsReplay, SameReplay
<1> QED BY <1>1, <1>3, <1>4

LEMMA EndingReplay ==
  ASSUME Inv, NEW p \in People, EndReplay(p)
  PROVE  Inv' /\ OriginsStay
<1>1. /\ p \in Processes /\ frame[p] \in FrameType /\ frame[p].op = "replay"
      /\ FrameOK(frame[p])
  BY DEF Processes, Inv, TypeOK, EndReplay
<1>2. PICK v : v = frame[p].version
  OBVIOUS
<1>3. v \in DOMAIN policies /\ frame[p].pins \in Pins
  BY <1>1, <1>2, FrameFields DEF FrameOK
<1>4. PICK raced \in BOOLEAN :
         raced = (policies[v].raced \/ \E q \in Processes :
                                         frame[q].op = "switch" /\ frame[q].version = v)
  OBVIOUS
<1>5. PICK result : /\ result \in {frame[p].pins, Failed}
                    /\ policies' = [policies EXCEPT ![v].replay = result, ![v].raced = raced]
  BY <1>2, <1>3, <1>4 DEF EndReplay, Inv, TypeOK
<1>6. PICK x : x = [policies[v] EXCEPT !.replay = result, !.raced = raced]
  OBVIOUS
<1>7. policies[v] \in PolicyType /\ result \in ResultType
  BY <1>3, <1>5 DEF Inv, TypeOK, ResultType
<1>8. x \in PolicyType /\ SameOrigin(x, policies[v]) /\ x.raced = raced
  BY <1>6, <1>7 DEF PolicyType, SameOrigin
<1>9. policies' = [policies EXCEPT ![v] = x]
  BY <1>3, <1>5, <1>6 DEF Inv, TypeOK
<1>10. \/ x.raced
       \/ \A q \in Processes : frame[q].op = "switch" => frame[q].version # v
  BY <1>4, <1>8
<1>11. /\ policies' \in [DOMAIN policies -> PolicyType]
       /\ \A u \in DOMAIN policies : KeepsOrigin(u) /\ KeepsReplay(u)
  BY <1>3, <1>8, <1>9, <1>10, RowEdited
<1> QED BY <1>1, <1>11, ResultsMove DEF EndReplay, Inv, TypeOK

LEMMA EndingEvaluation ==
  ASSUME Inv, NEW p \in People, EndEvaluation(p)
  PROVE  Inv' /\ OriginsStay
<1>1. /\ p \in Processes /\ frame[p] \in FrameType /\ frame[p].op = "evaluate"
      /\ FrameOK(frame[p])
  BY DEF Processes, Inv, TypeOK, EndEvaluation
<1>2. PICK v : v = frame[p].version
  OBVIOUS
<1>3. v \in DOMAIN policies /\ policies[v] \in PolicyType /\ frame[p].pins \in Pins
  BY <1>1, <1>2, FrameFields DEF FrameOK, Inv, TypeOK
<1>4. PICK result, status :
        /\ result \in ResultType /\ status \in {"shadow_ready", "evaluated"}
        /\ policies' = [policies EXCEPT ![v].evaluation = result, ![v].status = status]
  BY <1>2, <1>3 DEF EndEvaluation, ResultType
<1>5. PICK x : x = [policies[v] EXCEPT !.evaluation = result, !.status = status]
  OBVIOUS
<1>6. x \in PolicyType /\ SameOrigin(x, policies[v]) /\ SameReplay(x, policies[v])
  BY <1>3, <1>4, <1>5 DEF PolicyType, SameOrigin, SameReplay
<1>7. policies' = [policies EXCEPT ![v] = x]
  BY <1>3, <1>4, <1>5 DEF Inv, TypeOK
<1>8. /\ policies' \in [DOMAIN policies -> PolicyType]
      /\ \A u \in DOMAIN policies : KeepsOrigin(u) /\ KeepsReplay(u)
  BY <1>3, <1>6, <1>7, RowEdited
<1> QED BY <1>1, <1>8, ResultsMove DEF EndEvaluation, Inv, TypeOK

LEMMA EndingShadow ==
  ASSUME Inv, NEW p \in People, EndShadow(p)
  PROVE  Inv' /\ OriginsStay
<1>1. /\ p \in Processes /\ frame[p] \in FrameType /\ frame[p].op = "shadow"
      /\ FrameOK(frame[p])
  BY DEF Processes, Inv, TypeOK, EndShadow
<1>2. PICK v : v = frame[p].version
  OBVIOUS
<1>3. v \in DOMAIN policies /\ policies[v] \in PolicyType /\ frame[p].pins \in Pins
  BY <1>1, <1>2, FrameFields DEF FrameOK, Inv, TypeOK
<1>4. PICK x : x = [policies[v] EXCEPT !.status = "shadow_running", !.release = frame[p].pins]
  OBVIOUS
<1>5. x \in PolicyType /\ SameOrigin(x, policies[v]) /\ SameReplay(x, policies[v])
  BY <1>3, <1>4 DEF PolicyType, ResultType, SameOrigin, SameReplay
<1>6. policies' = [policies EXCEPT ![v] = x]
  BY <1>2, <1>3, <1>4 DEF EndShadow, Inv, TypeOK
<1>7. /\ policies' \in [DOMAIN policies -> PolicyType]
      /\ \A u \in DOMAIN policies : KeepsOrigin(u) /\ KeepsReplay(u)
  BY <1>3, <1>5, <1>6, RowEdited
<1> QED BY <1>1, <1>7, ResultsMove DEF EndShadow, Inv, TypeOK

LEMMA MovingShadow ==
  ASSUME Inv, NEW v \in DOMAIN policies, ShadowMoves(v)
  PROVE  Inv' /\ OriginsStay
<1>1. policies[v] \in PolicyType /\ Automatic \in Processes
  BY DEF Inv, TypeOK, Processes
<1>2. PICK status \in {"canary_passed", "shadow_rejected"} :
         policies' = [policies EXCEPT ![v].status = status]
  BY DEF ShadowMoves
<1>3. PICK x : x = [policies[v] EXCEPT !.status = status]
  OBVIOUS
<1>4. x \in PolicyType /\ SameOrigin(x, policies[v]) /\ SameReplay(x, policies[v])
  BY <1>1, <1>3 DEF PolicyType, SameOrigin, SameReplay
<1>5. policies' = [policies EXCEPT ![v] = x]
  BY <1>2, <1>3 DEF Inv, TypeOK
<1>6. /\ policies' \in [DOMAIN policies -> PolicyType]
      /\ \A u \in DOMAIN policies : KeepsOrigin(u) /\ KeepsReplay(u)
  BY <1>4, <1>5, RowEdited
<1> QED BY <1>1, <1>6, ResultsMove DEF ShadowMoves, Inv, TypeOK

LEMMA Switching ==
  ASSUME Inv, NEW v \in DOMAIN policies, NEW retired, SwitchTo(v, retired),
         NEW p \in Processes, frame' = [frame EXCEPT ![p] = Idle]
  PROVE  Inv' /\ OriginsStay
<1>1. active' = v /\ \A u \in DOMAIN policies : policies[u] \in PolicyType
  BY DEF Inv, TypeOK, SwitchTo
<1>2. ASSUME NEW u \in DOMAIN policies
      PROVE  policies'[u] \in PolicyType /\ KeepsOrigin(u) /\ KeepsReplay(u)
  <2>1. CASE u = v
    <3>1. policies'[u] = [policies[u] EXCEPT !.status = "approved"]
      BY <2>1 DEF SwitchTo
    <3> QED BY <1>1, <3>1 DEF PolicyType, KeepsOrigin, KeepsReplay
  <2>2. CASE u \in retired \ {v}
    <3>1. policies'[u] = [policies[u] EXCEPT !.status = "retired"]
      BY <2>2 DEF SwitchTo
    <3> QED BY <1>1, <3>1 DEF PolicyType, KeepsOrigin, KeepsReplay
  <2>3. CASE u # v /\ u \notin retired
    <3>1. policies'[u] = policies[u]
      BY <2>3 DEF SwitchTo
    <3> QED BY <1>1, <3>1 DEF KeepsOrigin, KeepsReplay
  <2> QED BY <2>1, <2>2, <2>3
<1>3. policies' \in [DOMAIN policies -> PolicyType]
  BY <1>2 DEF SwitchTo
<1> QED BY <1>1, <1>2, <1>3, ResultsMove DEF SwitchTo

LEMMA EndingActivation ==
  ASSUME Inv, NEW p \in People, EndActivation(p)
  PROVE  Inv' /\ OriginsStay
<1>1. p \in Processes /\ FrameOK(frame[p])
  BY DEF Processes, Inv
<1>2. frame[p].version \in DOMAIN policies
  BY <1>1 DEF FrameOK, EndActivation
<1> QED BY <1>1, <1>2, Switching DEF EndActivation

LEMMA EndingRollback ==
  ASSUME Inv, NEW p \in People, EndRollback(p)
  PROVE  Inv' /\ OriginsStay
<1>1. p \in Processes /\ FrameOK(frame[p])
  BY DEF Processes, Inv
<1>2. frame[p].version \in DOMAIN policies
  BY <1>1 DEF FrameOK, EndRollback
<1> QED BY <1>1, <1>2, Switching DEF EndRollback

(***************************************************************************)
(* Steps that add a Policy.                                                *)
(***************************************************************************)
\* Mapped rows name memories, their own or those of the row they were migrated from.
LEMMA SourcesTyped ==
  ASSUME Inv, NEW v \in DOMAIN policies
  PROVE  SourcesOf(v) \subseteq Memories
<1>1. policies[v].skill = "contract-migration" => policies[v].parent \in DOMAIN policies
  BY DEF Inv, RowsOK
<1>2. \A u \in DOMAIN policies : policies[u].compiled \subseteq Memories
  BY RowFields DEF Inv, TypeOK
<1> QED BY <1>1, <1>2 DEF SourcesOf

\* What a proposal leaves.
Adds(v, parent, skill, sources, rs, auto) ==
    /\ v \notin DOMAIN policies /\ DOMAIN policies' = DOMAIN policies \cup {v}
    /\ policies' \in [DOMAIN policies' -> PolicyType]
    /\ \A u \in DOMAIN policies : /\ policies'[u] = policies[u]
                                  /\ KeepsOrigin(u) /\ KeepsReplay(u)
    /\ policies'[v].parent = parent
    /\ policies'[v].sources = sources /\ policies'[v].rules = rs
    /\ policies'[v].auto = auto /\ policies'[v].skill = skill
    /\ policies'[v].compiled = Compiled(parent, skill, sources)

LEMMA Proposed ==
  ASSUME Inv, NEW v \in Versions, NEW parent \in DOMAIN policies, NEW skill \in Skills,
         NEW required \in BOOLEAN, NEW sources \in SUBSET Experiences,
         NEW rs \in SUBSET RuleIds, NEW auto \in BOOLEAN,
         NewPolicy(v, parent, skill, required, sources, rs, auto)
  PROVE  Adds(v, parent, skill, sources, rs, auto)
<1>1. PICK x : x = [Bootstrap EXCEPT
                      !.status = "candidate", !.parent = parent, !.skill = skill,
                      !.required = required, !.sources = sources,
                      !.compiled = Compiled(parent, skill, sources),
                      !.rules = rs, !.auto = auto]
  OBVIOUS
<1>2. Compiled(parent, skill, sources) \subseteq Memories
  BY SourcesTyped DEF Compiled, Memories
<1>3. parent \in Versions
  BY DEF Inv, RowsOK
<1>4. /\ x \in PolicyType /\ x.parent = parent
      /\ x.sources = sources /\ x.rules = rs /\ x.auto = auto /\ x.skill = skill
      /\ x.compiled = Compiled(parent, skill, sources)
  BY <1>1, <1>2, <1>3 DEF PolicyType, Bootstrap, ResultType, Failed
<1>5. /\ v \notin DOMAIN policies
      /\ policies' = [u \in DOMAIN policies \cup {v} |-> IF u # v THEN policies[u] ELSE x]
  BY <1>1 DEF NewPolicy, Exists
<1>6. policies \in [DOMAIN policies -> PolicyType]
  BY DEF Inv, TypeOK
<1> HIDE DEF Inv
<1>7. DOMAIN policies' = DOMAIN policies \cup {v} /\ policies'[v] = x
  BY <1>5
<1>8. \A u \in DOMAIN policies : policies'[u] = policies[u]
  BY <1>5
<1>9. policies' \in [DOMAIN policies' -> PolicyType]
  BY <1>4, <1>5, <1>6
<1> QED BY <1>4, <1>5, <1>7, <1>8, <1>9 DEF Adds, KeepsOrigin, KeepsReplay

LEMMA ProposeAdds ==
  ASSUME Inv, NEW k \in Skills, NEW text \in Texts, Propose(k, text)
  PROVE  \E v \in Versions : v.contract = "v2" /\ Adds(v, active, k, {}, {}, FALSE)
<1>1. active \in DOMAIN policies /\ active \in Versions
  BY DEF Inv, TypeOK, RowsOK
<1>2. PICK v : v = Changed(active, k, text)
  OBVIOUS
<1>3. v \in Versions /\ v.contract = "v2" /\ NewPolicy(v, active, k, FALSE, {}, {}, FALSE)
  BY <1>1, <1>2, VersionFields DEF Propose, Changed
<1>4. Adds(v, active, k, {}, {}, FALSE)
  <2>1. {} \in SUBSET Experiences /\ {} \in SUBSET RuleIds /\ FALSE \in BOOLEAN
    OBVIOUS
  <2> QED BY <1>1, <1>3, <2>1, Proposed
<1> QED BY <1>3, <1>4

\* A new row without a twin, from confirmed Experiences.
LEMMA RowAdded ==
  ASSUME Inv, NEW v \in Versions, NEW parent \in DOMAIN policies, NEW skill,
         NEW sources, NEW rs, NEW auto \in BOOLEAN, Adds(v, parent, skill, sources, rs, auto),
         \A e \in sources : HasEvidence(e),
         UNCHANGED <<decisions, exps, rules, active, inputs>>,
         NEW p \in Processes, NEW f \in FrameType, frame' = [frame EXCEPT ![p] = f],
         f = frame[p] \/ f = Idle, NoTwin'
  PROVE  Inv'
<1>1. /\ DOMAIN policies' = DOMAIN policies \cup {v}
      /\ policies' \in [DOMAIN policies' -> PolicyType]
      /\ \A u \in DOMAIN policies : KeepsOrigin(u) /\ KeepsReplay(u)
      /\ policies'[v].parent = parent /\ policies'[v].sources = sources
  BY DEF Adds
<1>2. f = frame[p] \/ FrameOK(f)'
  BY Frames DEF FrameOK
<1>3. active' \in DOMAIN policies'
  BY <1>1 DEF Inv, TypeOK
<1> QED BY <1>1, <1>2, <1>3, EvidenceStays, StoreMoves DEF Inv, TypeOK

LEMMA Proposing ==
  ASSUME Inv, NEW k \in ByHand, NEW text \in Texts, Propose(k, text)
  PROVE  Inv'
<1>1. active \in DOMAIN policies /\ k \in Skills
  BY LineageAssumption DEF Inv, TypeOK
<1>2. PICK v \in Versions, auto \in BOOLEAN, none \in {{}} :
         auto = FALSE /\ none = {} /\ Adds(v, active, k, none, none, auto)
  BY <1>1, ProposeAdds
<1>3. /\ v \notin DOMAIN policies /\ DOMAIN policies' = DOMAIN policies \cup {v}
      /\ \A u \in DOMAIN policies : policies'[u] = policies[u]
      /\ policies'[v].rules = {} /\ policies'[v].auto = auto
  BY <1>2 DEF Adds
<1>4. Automatic \in Processes /\ frame[Automatic] \in FrameType
  BY DEF Processes, Inv, TypeOK
<1>5. NoTwin'
  <2>1. frame' = frame /\ NoTwin
    BY DEF Propose, Inv
  <2> QED BY <1>2, <1>3, <2>1 DEF NoTwin
<1>6. frame' = [frame EXCEPT ![Automatic] = frame[Automatic]]
  BY DEF Propose, Inv, TypeOK
<1>7. UNCHANGED <<decisions, exps, rules, active, inputs>>
  BY DEF Propose
<1>8. \A e \in none : HasEvidence(e)
  BY <1>2
<1> QED BY <1>1, <1>2, <1>4, <1>5, <1>6, <1>7, <1>8, RowAdded

LEMMA CompileAdds ==
  ASSUME Inv, NEW p \in Processes, EndCompile(p)
  PROVE  \E v \in Versions, e \in frame[p].sources : \E skill \in Skills, auto \in BOOLEAN :
            /\ v.contract = "v2" /\ skill = SkillOf[e] /\ auto = (p = Automatic)
            /\ Adds(v, frame[p].parent, skill, frame[p].sources, frame[p].rules, auto)
<1>1. PICK f : f = frame[p]
  OBVIOUS
<1>2. f.op = "compile" /\ f \in FrameType /\ FrameOK(f)
  BY <1>1 DEF EndCompile, Inv, TypeOK
<1>3. /\ f.sources \in SUBSET Experiences /\ f.rules \in SUBSET RuleIds
      /\ f.parent \in DOMAIN policies /\ f.parent \in Versions
  BY <1>2, FrameFields DEF FrameOK
<1>4. PICK e \in f.sources, text \in Texts :
        NewPolicy(Changed(f.parent, SkillOf[e], text), f.parent, SkillOf[e], TRUE,
                  f.sources, f.rules, p = Automatic)
  BY <1>1 DEF EndCompile
<1>5. SkillOf[e] \in Skills /\ (p = Automatic) \in BOOLEAN
  BY <1>3, LineageAssumption
<1>6. PICK v : v = Changed(f.parent, SkillOf[e], text)
  OBVIOUS
<1>7. v \in Versions /\ v.contract = "v2"
  BY <1>3, <1>5, <1>6, VersionFields DEF Changed
<1>8. PICK auto \in BOOLEAN, required \in BOOLEAN, skill \in Skills :
        auto = (p = Automatic) /\ required = TRUE /\ skill = SkillOf[e]
  BY <1>5
<1>9. NewPolicy(v, f.parent, skill, required, f.sources, f.rules, auto)
  BY <1>4, <1>6, <1>8
<1>10. Adds(v, f.parent, skill, f.sources, f.rules, auto)
  <2>1. PICK parent \in DOMAIN policies, sources \in SUBSET Experiences,
             rs \in SUBSET RuleIds :
          parent = f.parent /\ sources = f.sources /\ rs = f.rules
    BY <1>3
  <2>2. NewPolicy(v, parent, skill, required, sources, rs, auto)
    BY <1>9, <2>1
  <2>3. /\ v \in Versions /\ parent \in DOMAIN policies /\ skill \in Skills
        /\ required \in BOOLEAN /\ sources \in SUBSET Experiences
        /\ rs \in SUBSET RuleIds /\ auto \in BOOLEAN
    BY <1>7, <1>8, <2>1
  <2>4. Adds(v, parent, skill, sources, rs, auto)
    BY <2>2, <2>3, Proposed
  <2> QED BY <2>1, <2>4
<1> QED BY <1>1, <1>4, <1>7, <1>8, <1>10

LEMMA EndingCompile ==
  ASSUME Inv, NEW p \in Processes, EndCompile(p)
  PROVE  Inv'
<1>1. PICK f : f = frame[p]
  OBVIOUS
<1>2. f.op = "compile" /\ FrameOK(f)
  BY <1>1 DEF EndCompile, Inv
<1>3. f.parent \in DOMAIN policies /\ \A e \in f.sources : HasEvidence(e)
  BY <1>2 DEF FrameOK
<1>4. PICK v \in Versions, auto \in BOOLEAN, skill \in Skills :
        auto = (p = Automatic) /\ Adds(v, f.parent, skill, f.sources, f.rules, auto)
  BY <1>1, CompileAdds
<1>5. /\ v \notin DOMAIN policies /\ DOMAIN policies' = DOMAIN policies \cup {v}
      /\ \A u \in DOMAIN policies : policies'[u] = policies[u]
      /\ policies'[v].rules = f.rules /\ policies'[v].auto = auto
  BY <1>4 DEF Adds
<1>6. Idle \in FrameType /\ Idle.op = "idle" /\ frame' = [frame EXCEPT ![p] = Idle]
  BY Frames DEF EndCompile
<1>7. Automatic \in Processes /\ frame \in [Processes -> FrameType]
  BY DEF Processes, Inv, TypeOK
<1>8. NoTwin'
  <2>1. CASE p = Automatic
    <3>1. frame'[Automatic].op # "compile"
      BY <1>6, <1>7, <2>1
    <3>2. \A u \in DOMAIN policies : policies[u].auto => policies[u].rules \cap f.rules = {}
      BY <1>1, <1>2, <2>1 DEF Inv, NoTwin
    <3> QED BY <1>5, <3>1, <3>2 DEF NoTwin, Inv
  <2>2. CASE p # Automatic
    <3>1. frame'[Automatic] = frame[Automatic] /\ auto = FALSE
      BY <1>4, <1>6, <1>7, <2>2
    <3> QED BY <1>5, <3>1 DEF NoTwin, Inv
  <2> QED BY <2>1, <2>2
<1>9. UNCHANGED <<decisions, exps, rules, active, inputs>>
  BY DEF EndCompile
<1> QED BY <1>3, <1>4, <1>6, <1>8, <1>9, RowAdded

\* What the migration of the contract leaves.
LEMMA Migrating ==
  ASSUME Inv, EndMigration
  PROVE  \E m \in Versions, previous \in DOMAIN policies :
            /\ m.contract = "v2" /\ previous.contract = "v1" /\ active' = m
            /\ DOMAIN policies' = DOMAIN policies \cup {m}
            /\ policies' \in [DOMAIN policies' -> PolicyType]
            /\ \A v \in DOMAIN policies : KeepsOrigin(v) /\ KeepsReplay(v)
            /\ m \notin DOMAIN policies =>
                  /\ policies'[m].parent = previous /\ policies'[m].skill = "contract-migration"
                  /\ policies'[m].sources = {} /\ policies'[m].auto = FALSE
<1>1. PICK f : f = frame[Automatic]
  OBVIOUS
<1>2. f.op = "migrate" /\ f \in FrameType /\ FrameOK(f)
  BY <1>1 DEF Inv, TypeOK, Processes, EndMigration
<1>3. PICK q : q = f.previous
  OBVIOUS
<1>4. /\ q \in DOMAIN policies /\ q \in Versions /\ q.contract = "v1"
      /\ policies \in [DOMAIN policies -> PolicyType]
  BY <1>2, <1>3, FrameFields DEF FrameOK, Inv, TypeOK
<1>5. PICK m : m = Migrated(q)
  OBVIOUS
<1>6. m \in Versions /\ m.contract = "v2" /\ m # q
  BY <1>4, <1>5, VersionFields
<1>7. /\ active' = m
      /\ policies' = [x \in DOMAIN policies \cup {m} |->
           CASE x = m /\ Exists(m) -> [policies[x] EXCEPT !.status = "approved"]
             [] x = m /\ ~Exists(m) ->
                  [Bootstrap EXCEPT !.parent = q, !.skill = "contract-migration",
                                    !.compiled = {}]
             [] x = q -> [policies[x] EXCEPT !.status = "retired"]
             [] OTHER -> policies[x]]
  BY <1>1, <1>3, <1>5 DEF EndMigration
<1>8. PICK new : new = [Bootstrap EXCEPT !.parent = q, !.skill = "contract-migration",
                                         !.compiled = {}]
  OBVIOUS
<1>9. /\ new \in PolicyType /\ new.parent = q /\ new.skill = "contract-migration"
      /\ new.sources = {} /\ new.auto = FALSE
  BY <1>4, <1>8 DEF PolicyType, Bootstrap, ResultType, Failed
<1>10. ASSUME m \notin DOMAIN policies
       PROVE  policies'[m] = new
  <2>1. ~Exists(m) /\ m \in DOMAIN policies \cup {m}
    BY <1>10 DEF Exists
  <2>2. policies'[m] = [Bootstrap EXCEPT !.parent = q, !.skill = "contract-migration",
                                         !.compiled = {}]
    BY <1>6, <1>7, <2>1
  <2> QED BY <1>8, <2>2
<1>11. ASSUME NEW u \in DOMAIN policies
       PROVE  policies'[u] \in PolicyType /\ KeepsOrigin(u) /\ KeepsReplay(u)
  <2>1. policies[u] \in PolicyType
    BY <1>4
  <2>2. CASE u = m
    <3>1. Exists(m) /\ u \in DOMAIN policies \cup {m}
      BY <2>2 DEF Exists
    <3>2. policies'[u] = [policies[u] EXCEPT !.status = "approved"]
      BY <1>6, <1>7, <2>2, <3>1
    <3> QED BY <2>1, <3>2 DEF PolicyType, KeepsOrigin, KeepsReplay
  <2>3. CASE u = q
    <3>1. policies'[u] = [policies[u] EXCEPT !.status = "retired"]
      BY <1>6, <1>7, <2>3
    <3> QED BY <2>1, <3>1 DEF PolicyType, KeepsOrigin, KeepsReplay
  <2>4. CASE u # m /\ u # q
    <3>1. policies'[u] = policies[u]
      BY <1>7, <2>4
    <3> QED BY <2>1, <3>1 DEF KeepsOrigin, KeepsReplay
  <2> QED BY <2>2, <2>3, <2>4
<1>12. DOMAIN policies' = DOMAIN policies \cup {m}
  BY <1>7
<1>13. \A x \in DOMAIN policies' : policies'[x] \in PolicyType
  BY <1>9, <1>10, <1>11, <1>12
<1>14. policies' = [x \in DOMAIN policies' |-> policies'[x]]
  BY <1>7
<1>15. policies' \in [DOMAIN policies' -> PolicyType]
  BY <1>13, <1>14
<1> QED BY <1>4, <1>6, <1>7, <1>9, <1>10, <1>11, <1>12, <1>15

LEMMA EndingMigration ==
  ASSUME Inv, EndMigration
  PROVE  Inv'
<1>1. PICK m \in Versions, previous \in DOMAIN policies :
            /\ m.contract = "v2" /\ previous.contract = "v1" /\ active' = m
            /\ DOMAIN policies' = DOMAIN policies \cup {m}
            /\ policies' \in [DOMAIN policies' -> PolicyType]
            /\ \A v \in DOMAIN policies : KeepsOrigin(v) /\ KeepsReplay(v)
            /\ m \notin DOMAIN policies =>
                  /\ policies'[m].parent = previous /\ policies'[m].skill = "contract-migration"
                  /\ policies'[m].sources = {} /\ policies'[m].auto = FALSE
  BY Migrating
<1>2. /\ Automatic \in Processes /\ frame[Automatic] \in FrameType
      /\ frame \in [Processes -> FrameType]
      /\ FrameOK(frame[Automatic]) /\ frame[Automatic].op = "migrate"
  BY DEF Processes, Inv, TypeOK, EndMigration
<1>3. PICK r : r = frame[Automatic].rule
  OBVIOUS
<1>4. r \in RuleIds /\ HasEvidence(r.exp)
  BY <1>2, <1>3, FrameFields DEF FrameOK
<1>5. PICK f : f = [op |-> "admitted", rule |-> r]
  OBVIOUS
<1>6. f \in FrameType /\ f.op = "admitted" /\ f.rule = r
  BY <1>4, <1>5, Frames
<1>7. /\ frame' = [frame EXCEPT ![Automatic] = f]
      /\ UNCHANGED <<decisions, exps, rules, inputs>>
  BY <1>3, <1>5 DEF EndMigration
<1>8. FrameOK(f)'
  BY <1>4, <1>6, <1>7 DEF FrameOK, HasEvidence
<1>9. NoTwin'
  <2>1. frame'[Automatic].op = "admitted"
    BY <1>2, <1>6, <1>7
  <2> QED BY <1>1, <2>1 DEF NoTwin, Inv, KeepsOrigin
<1>10. active' \in DOMAIN policies'
  BY <1>1
<1> QED BY <1>1, <1>2, <1>6, <1>7, <1>8, <1>9, <1>10, EvidenceStays, StoreMoves
        DEF Inv, TypeOK

(***************************************************************************)
(* Where the prompts come from.                                            *)
(***************************************************************************)
\* What an older store compiled into the prompt of one role.
Inherits(v, k) == {e \in policies[v].compiled : SkillOf[e] = k}

\* What a row says of the prompt of one role, with what is said of its parent.
Author(f, v, k) ==
    IF policies[v].skill = k THEN policies[v].sources
    ELSE IF policies[v].skill = "bootstrap" THEN Inherits(v, k) ELSE f[policies[v].parent][k]

LEMMA AuthorsByRow ==
  ASSUME NEW f
  PROVE  IsAuthors(f) <=> f = [v \in DOMAIN policies |-> [k \in Skills |-> Author(f, v, k)]]
  BY DEF IsAuthors, Author, Inherits

LEMMA AuthorsOfRow ==
  ASSUME NEW f, IsAuthors(f), NEW v \in DOMAIN policies, NEW k \in Skills
  PROVE  f[v][k] = Author(f, v, k)
  BY AuthorsByRow

LEMMA InitLineage == ASSUME Init PROVE LineageOK
<1>1. /\ active = Baseline(Contract) /\ DOMAIN policies = {active}
      /\ policies[active] = Bootstrap
  BY DEF Init
<1>2. Bootstrap.skill = "bootstrap" /\ Bootstrap.compiled = Inherited /\ "bootstrap" \notin Skills
  BY BootstrapRow, LineageAssumption
<1>3. \A p \in Processes : frame[p].op # "compile"
  BY DEF Init, Idle
<1>4. SkillsOK
  BY <1>1, <1>2, <1>3 DEF SkillsOK
<1>5. PICK Of : Of = [k \in Skills |-> {e \in Inherited : SkillOf[e] = k}]
  OBVIOUS
<1>6. ASSUME NEW f, NEW v \in DOMAIN policies, NEW k \in Skills
      PROVE  Author(f, v, k) = Of[k]
  BY <1>1, <1>2, <1>5, <1>6 DEF Author, Inherits
<1>7. \E f : IsAuthors(f)
  <2>1. PICK f : f = [v \in DOMAIN policies |-> [k \in Skills |-> Of[k]]]
    OBVIOUS
  <2>2. f = [v \in DOMAIN policies |-> [k \in Skills |-> Author(f, v, k)]]
    BY <1>6, <2>1
  <2> QED BY <2>2, AuthorsByRow
<1>8. ASSUME NEW f, IsAuthors(f)
      PROVE  Attributed(f)
  <2>1. \A v \in DOMAIN policies : \A k \in Skills : f[v][k] = {e \in Inherited : SkillOf[e] = k}
    BY <1>5, <1>6, <1>8, AuthorsOfRow
  <2>2. \A v \in DOMAIN policies : SourcesOf(v) = Inherited
    BY <1>1, <1>2 DEF SourcesOf
  <2>3. \A e \in Inherited : SkillOf[e] \in Skills
    BY LineageAssumption
  <2>4. ASSUME NEW v \in DOMAIN policies
        PROVE  Inherited = UNION {f[v][k] : k \in Skills}
    BY <2>1, <2>3
  <2> QED BY <2>1, <2>2, <2>4 DEF Attributed
<1> QED BY <1>4, <1>7, <1>8 DEF LineageOK

\* No row is added: what is said of each prompt stays.
LEMMA LineageStays ==
  ASSUME Inv, LineageOK, DOMAIN policies' = DOMAIN policies,
         \A v \in DOMAIN policies : KeepsOrigin(v), SkillsOK'
  PROVE  LineageOK'
<1>1. \A v \in DOMAIN policies : SourcesOf(v)' = SourcesOf(v)
  BY DEF SourcesOf, KeepsOrigin, Inv, RowsOK
<1>2. ASSUME NEW f
      PROVE  IsAuthors(f)' <=> IsAuthors(f)
  <2>1. \A v \in DOMAIN policies : \A k \in Skills : Author(f, v, k)' = Author(f, v, k)
    BY DEF Author, Inherits, KeepsOrigin
  <2>2. IsAuthors(f)' <=>
          f = [v \in DOMAIN policies' |-> [k \in Skills |-> Author(f, v, k)']]
    BY DEF IsAuthors, Author, Inherits
  <2> QED BY <2>1, <2>2, AuthorsByRow
<1>3. ASSUME NEW f, Attributed(f)
      PROVE  Attributed(f)'
  BY <1>1, <1>3 DEF Attributed
<1> QED BY <1>2, <1>3 DEF LineageOK

\* What a new row may be: a proposal that drops what its role had, or a migration.
Grown(v, q) ==
    /\ v \notin DOMAIN policies /\ q \in DOMAIN policies
    /\ DOMAIN policies' = DOMAIN policies \cup {v}
    /\ \A u \in DOMAIN policies : KeepsOrigin(u)
    /\ policies'[v].parent = q
    /\ \/ /\ policies'[v].skill \in Skills
          /\ policies'[v].compiled = Compiled(q, policies'[v].skill, policies'[v].sources)
          /\ \A e \in policies'[v].sources : SkillOf[e] = policies'[v].skill
       \/ /\ policies'[v].skill = "contract-migration"
          /\ SourcesOf(q) = policies[q].compiled

LEMMA LineageGrows ==
  ASSUME Inv, LineageOK, NEW v, NEW q, Grown(v, q), SkillsOK'
  PROVE  LineageOK'
<1>1. /\ v \notin DOMAIN policies /\ q \in DOMAIN policies
      /\ DOMAIN policies' = DOMAIN policies \cup {v}
  BY DEF Grown
<1>2. \A u \in DOMAIN policies : KeepsOrigin(u)
  BY DEF Grown
<1>3. policies'[v].parent = q /\ policies'[v].skill # "bootstrap"
  BY LineageAssumption DEF Grown
<1>4. \A u \in DOMAIN policies : policies[u].skill # "bootstrap" =>
                                 policies[u].parent \in DOMAIN policies
  BY DEF Inv, RowsOK
<1>5. \A u \in DOMAIN policies : SourcesOf(u)' = SourcesOf(u)
  BY <1>1, <1>2, <1>4 DEF SourcesOf, KeepsOrigin
<1>6. PICK row : row = policies'[v]
  OBVIOUS
<1>7. PICK D : D = DOMAIN policies
  OBVIOUS
\* The functions of after are those of before with the row added.
<1>8. ASSUME NEW f
      PROVE  /\ \A u \in D : \A k \in Skills :
                   Author(f, u, k)' = IF policies[u].skill = k THEN policies[u].sources
                                      ELSE IF policies[u].skill = "bootstrap"
                                        THEN Inherits(u, k)
                                      ELSE f[policies[u].parent][k]
             /\ \A k \in Skills : Author(f, v, k)' = IF row.skill = k THEN row.sources
                                                     ELSE f[q][k]
             /\ IsAuthors(f)' <=>
                  f = [u \in D \cup {v} |-> [k \in Skills |-> Author(f, u, k)']]
  <2>1. \A u \in D : \A k \in Skills :
           Author(f, u, k)' = IF policies[u].skill = k THEN policies[u].sources
                              ELSE IF policies[u].skill = "bootstrap" THEN Inherits(u, k)
                              ELSE f[policies[u].parent][k]
    BY <1>1, <1>2, <1>7 DEF Author, Inherits, KeepsOrigin
  <2>2. \A k \in Skills : Author(f, v, k)' = IF row.skill = k THEN row.sources ELSE f[q][k]
    BY <1>3, <1>6 DEF Author, Inherits
  <2>3. IsAuthors(f)' <=> f = [u \in D \cup {v} |-> [k \in Skills |-> Author(f, u, k)']]
    BY <1>1, <1>7 DEF IsAuthors, Author, Inherits
  <2> QED BY <2>1, <2>2, <2>3
<1>9. \E f : IsAuthors(f)'
  <2>1. PICK f : IsAuthors(f)
    BY DEF LineageOK
  <2>2. PICK g : g = [u \in D \cup {v} |->
                        IF u = v THEN [k \in Skills |-> IF row.skill = k THEN row.sources
                                                        ELSE f[q][k]]
                        ELSE f[u]]
    OBVIOUS
  <2>3. g[v] = [k \in Skills |-> IF row.skill = k THEN row.sources ELSE f[q][k]]
    BY <2>2
  <2>4. \A u \in D : g[u] = f[u]
    BY <1>1, <1>7, <2>2
  <2>5. ASSUME NEW k \in Skills
        PROVE  Author(g, v, k)' = g[v][k]
    BY <1>1, <1>7, <1>8, <2>3, <2>4
  <2>6. ASSUME NEW u \in D, NEW k \in Skills
        PROVE  Author(g, u, k)' = f[u][k]
    <3>1. f[u][k] = Author(f, u, k)
      BY <1>7, <2>1, AuthorsOfRow
    <3>2. policies[u].skill # "bootstrap" => g[policies[u].parent] = f[policies[u].parent]
      BY <1>4, <1>7, <2>4
    <3> QED BY <1>8, <3>1, <3>2 DEF Author
  <2>7. \A u \in D : f[u] = [k \in Skills |-> f[u][k]]
    <3>1. f = [u \in D |-> [k \in Skills |-> Author(f, u, k)]]
      BY <1>7, <2>1, AuthorsByRow
    <3> QED BY <3>1
  <2>8. \A u \in D \cup {v} : g[u] = [k \in Skills |-> Author(g, u, k)']
    <3>1. g[v] = [k \in Skills |-> g[v][k]]
      BY <2>3
    <3>2. g[v] = [k \in Skills |-> Author(g, v, k)']
      BY <2>5, <3>1
    <3>3. \A u \in D : g[u] = [k \in Skills |-> Author(g, u, k)']
      BY <2>4, <2>6, <2>7
    <3> QED BY <3>2, <3>3
  <2>9. g = [u \in D \cup {v} |-> g[u]]
    BY <2>2
  <2>10. g = [u \in D \cup {v} |-> [k \in Skills |-> Author(g, u, k)']]
    BY <2>8, <2>9
  <2> QED BY <1>8, <2>10
<1>10. ASSUME NEW g, IsAuthors(g)'
       PROVE  Attributed(g)'
  <2>1. PICK f : f = [u \in D |-> g[u]]
    OBVIOUS
  <2>2. g = [u \in D \cup {v} |-> [k \in Skills |-> Author(g, u, k)']]
    BY <1>8, <1>10
  <2>3. \A u \in D \cup {v} : g[u] = [k \in Skills |-> Author(g, u, k)']
    BY <2>2
  <2>4. \A u \in D : f[u] = g[u]
    BY <2>1
  <2>5. ASSUME NEW u \in D, NEW k \in Skills
        PROVE  Author(g, u, k)' = Author(f, u, k)
    BY <1>4, <1>7, <1>8, <2>4 DEF Author
  <2>6. IsAuthors(f)
    <3>1. \A u \in D : f[u] = [k \in Skills |-> Author(f, u, k)]
      BY <2>3, <2>4, <2>5
    <3>2. f = [u \in D |-> f[u]]
      BY <2>1
    <3>3. f = [u \in D |-> [k \in Skills |-> Author(f, u, k)]]
      BY <3>1, <3>2
    <3> QED BY <1>7, <3>3, AuthorsByRow
  <2>7. Attributed(f)
    BY <2>6 DEF LineageOK
  <2>8. \A u \in D : /\ SourcesOf(u)' = UNION {g[u][k] : k \in Skills}
                     /\ \A k \in Skills : \A e \in g[u][k] : SkillOf[e] = k
    <3> SUFFICES ASSUME NEW u \in D
                 PROVE  /\ SourcesOf(u)' = UNION {g[u][k] : k \in Skills}
                        /\ \A k \in Skills : \A e \in g[u][k] : SkillOf[e] = k
      OBVIOUS
    <3>1. SourcesOf(u) = UNION {f[u][k] : k \in Skills}
      BY <1>7, <2>7 DEF Attributed
    <3>2. \A k \in Skills : \A e \in f[u][k] : SkillOf[e] = k
      BY <1>7, <2>7 DEF Attributed
    <3>3. SourcesOf(u)' = SourcesOf(u) /\ f[u] = g[u]
      BY <1>5, <1>7, <2>4
    <3> QED BY <3>1, <3>2, <3>3
  <2>9. \A k \in Skills : g[v][k] = IF row.skill = k THEN row.sources ELSE g[q][k]
    <3>1. \A k \in Skills : Author(g, v, k)' = IF row.skill = k THEN row.sources ELSE g[q][k]
      BY <1>8
    <3>2. g[v] = [k \in Skills |-> Author(g, v, k)']
      BY <2>3
    <3> QED BY <3>1, <3>2
  <2>10. /\ SourcesOf(q) = UNION {g[q][k] : k \in Skills}
         /\ \A k \in Skills : \A e \in g[q][k] : SkillOf[e] = k
    BY <1>1, <1>5, <1>7, <2>8
  <2>11. /\ SourcesOf(v)' = UNION {g[v][k] : k \in Skills}
         /\ \A k \in Skills : \A e \in g[v][k] : SkillOf[e] = k
    <3>1. CASE /\ row.skill \in Skills
               /\ row.compiled = Compiled(q, row.skill, row.sources)
               /\ \A e \in row.sources : SkillOf[e] = row.skill
      <4>1. \A k \in Skills : \A e \in g[v][k] : SkillOf[e] = k
        BY <2>9, <2>10, <3>1
      <4>2. SourcesOf(v)' = {e \in SourcesOf(q) : SkillOf[e] # row.skill} \cup row.sources
        BY <1>6, <3>1, LineageAssumption DEF SourcesOf, Compiled
      <4>3. ASSUME NEW e \in UNION {g[v][k] : k \in Skills}
            PROVE  e \in SourcesOf(v)'
        <5>1. PICK k \in Skills : e \in g[v][k]
          BY <4>3
        <5>2. CASE k = row.skill
          BY <2>9, <4>2, <5>1, <5>2
        <5>3. CASE k # row.skill
          <6>1. e \in g[q][k]
            BY <2>9, <5>1, <5>3
          <6>2. e \in SourcesOf(q) /\ SkillOf[e] = k
            BY <2>10, <6>1
          <6> QED BY <4>2, <5>3, <6>2
        <5> QED BY <5>2, <5>3
      <4>4. ASSUME NEW e \in SourcesOf(v)'
            PROVE  e \in UNION {g[v][k] : k \in Skills}
        <5>1. CASE e \in row.sources
          BY <2>9, <3>1, <5>1
        <5>2. CASE e \in SourcesOf(q) /\ SkillOf[e] # row.skill
          <6>1. PICK k \in Skills : e \in g[q][k]
            BY <2>10, <5>2
          <6>2. k # row.skill
            BY <2>10, <5>2, <6>1
          <6>3. e \in g[v][k]
            BY <2>9, <6>1, <6>2
          <6> QED BY <6>1, <6>3
        <5> QED BY <4>2, <5>1, <5>2
      <4> QED BY <4>1, <4>3, <4>4
    <3>2. CASE row.skill = "contract-migration" /\ SourcesOf(q) = policies[q].compiled
      <4>1. row.skill \notin Skills
        BY <3>2, LineageAssumption
      <4>2. \A k \in Skills : g[v][k] = g[q][k]
        BY <2>9, <4>1
      <4>3. SourcesOf(v)' = policies'[q].compiled
        BY <1>3, <1>6, <3>2 DEF SourcesOf
      <4>4. policies'[q].compiled = policies[q].compiled
        BY <1>1, <1>2 DEF KeepsOrigin
      <4> QED BY <2>10, <3>2, <4>2, <4>3, <4>4
    <3> QED BY <1>6, <3>1, <3>2 DEF Grown
  <2> QED BY <1>1, <1>7, <2>8, <2>11 DEF Attributed
<1> QED BY <1>9, <1>10 DEF LineageOK

(***************************************************************************)
(* The lineage, step by step.                                              *)
(***************************************************************************)
LEMMA SkillsMove ==
  ASSUME Inv, SkillsOK, DOMAIN policies \subseteq DOMAIN policies',
         \A v \in DOMAIN policies : KeepsOrigin(v),
         \A v \in DOMAIN policies' \ DOMAIN policies : v.contract = "v2",
         \A p \in Processes : frame'[p].op = "compile" =>
            \/ frame'[p] = frame[p]
            \/ \A e, f \in frame'[p].sources : SkillOf[e] = SkillOf[f]
  PROVE  SkillsOK'
<1>1. \A v \in DOMAIN policies' :
         v.contract = "v1" => policies'[v].skill # "contract-migration"
  BY DEF SkillsOK, KeepsOrigin
<1>2. \A p \in Processes : frame'[p].op = "compile" =>
         \A e, f \in frame'[p].sources : SkillOf[e] = SkillOf[f]
  BY DEF SkillsOK
<1> QED BY <1>1, <1>2 DEF SkillsOK

LEMMA OriginsKeepLineage ==
  ASSUME Inv, LineageOK, OriginsStay
  PROVE  LineageOK'
<1>1. SkillsOK'
  BY SkillsMove DEF OriginsStay, LineageOK
<1> QED BY <1>1, LineageStays DEF OriginsStay

\* A process takes up a compilation of Experiences of one role.
LEMMA FrameKeepsLineage ==
  ASSUME Inv, LineageOK, UNCHANGED policies,
         NEW p \in Processes, NEW f, frame' = [frame EXCEPT ![p] = f],
         f.op = "compile" => \A e, g \in f.sources : SkillOf[e] = SkillOf[g]
  PROVE  LineageOK'
<1>1. frame \in [Processes -> FrameType]
  BY DEF Inv, TypeOK
<1>2. \A x \in Processes : frame'[x].op = "compile" =>
         \/ frame'[x] = frame[x]
         \/ \A e, g \in frame'[x].sources : SkillOf[e] = SkillOf[g]
  BY <1>1
<1>3. DOMAIN policies' = DOMAIN policies /\ \A v \in DOMAIN policies : KeepsOrigin(v)
  BY DEF KeepsOrigin
<1>4. SkillsOK'
  BY <1>2, <1>3, SkillsMove DEF LineageOK
<1> QED BY <1>3, <1>4, LineageStays

LEMMA StartingKeepsLineage ==
  ASSUME Inv, LineageOK, NEW p \in People, NEW sources \in SUBSET Experiences, NEW rs,
         StartCompile(p, sources, rs)
  PROVE  LineageOK'
<1>1. PICK f : f = CompileFrame(sources, rs, active)
  OBVIOUS
<1>2. f.sources = sources
  BY <1>1 DEF CompileFrame
<1> QED BY <1>1, <1>2, FrameKeepsLineage DEF StartCompile, Processes

LEMMA AutoKeepsLineage ==
  ASSUME Inv, LineageOK, AutoCompile
  PROVE  LineageOK'
<1>1. PICK r : r = frame[Automatic].rule
  OBVIOUS
<1>2. PICK f : /\ frame' = [frame EXCEPT ![Automatic] = f]
               /\ f = Idle \/ f = CompileFrame({r.exp}, {r}, active)
  BY <1>1 DEF AutoCompile
<1>3. f.op = "compile" => f.sources = {r.exp}
  BY <1>2, Frames DEF CompileFrame
<1> QED BY <1>2, <1>3, FrameKeepsLineage DEF AutoCompile, Processes

LEMMA ProposingKeepsLineage ==
  ASSUME Inv, LineageOK, NEW k \in ByHand, NEW text \in Texts, Propose(k, text)
  PROVE  LineageOK'
<1>1. k \in Skills /\ active \in DOMAIN policies /\ frame' = frame
  BY LineageAssumption DEF Propose, Inv, TypeOK
<1>2. PICK v \in Versions : v.contract = "v2" /\ Adds(v, active, k, {}, {}, FALSE)
  BY <1>1, ProposeAdds
<1>3. DOMAIN policies' = DOMAIN policies \cup {v} /\ \A u \in DOMAIN policies : KeepsOrigin(u)
  BY <1>2 DEF Adds
<1>4. policies'[v].skill = k /\ policies'[v].sources = {}
  BY <1>2 DEF Adds
<1>5. SkillsOK'
  BY <1>1, <1>2, <1>3, SkillsMove DEF LineageOK
<1>6. Grown(v, active)
  BY <1>1, <1>2, <1>3, <1>4 DEF Adds, Grown
<1> QED BY <1>5, <1>6, LineageGrows

LEMMA CompilingKeepsLineage ==
  ASSUME Inv, LineageOK, NEW p \in Processes, EndCompile(p)
  PROVE  LineageOK'
<1>1. PICK f : f = frame[p]
  OBVIOUS
<1>2. f.op = "compile" /\ FrameOK(f) /\ frame' = [frame EXCEPT ![p] = Idle]
  BY <1>1 DEF EndCompile, Inv
<1>3. PICK v \in Versions, e \in f.sources, skill \in Skills, auto \in BOOLEAN :
        /\ v.contract = "v2" /\ skill = SkillOf[e]
        /\ Adds(v, f.parent, skill, f.sources, f.rules, auto)
  BY <1>1, CompileAdds
<1>4. DOMAIN policies' = DOMAIN policies \cup {v} /\ \A u \in DOMAIN policies : KeepsOrigin(u)
  BY <1>3 DEF Adds
<1>5. policies'[v].skill = skill /\ policies'[v].sources = f.sources
  BY <1>3 DEF Adds
<1>6. \A g \in f.sources : SkillOf[g] = skill
  BY <1>1, <1>2, <1>3 DEF LineageOK, SkillsOK
<1>7. \A x \in Processes : frame'[x].op = "compile" => frame'[x] = frame[x]
  <2>1. frame \in [Processes -> FrameType] /\ Idle.op = "idle"
    BY Frames DEF Inv, TypeOK
  <2> QED BY <1>2, <2>1
<1>8. SkillsOK'
  BY <1>3, <1>4, <1>7, SkillsMove DEF LineageOK
<1>9. Grown(v, f.parent)
  <2>1. /\ v \notin DOMAIN policies /\ policies'[v].parent = f.parent
        /\ policies'[v].compiled = Compiled(f.parent, skill, f.sources)
    BY <1>3 DEF Adds
  <2> QED BY <1>2, <1>4, <1>5, <1>6, <2>1 DEF Grown, FrameOK
<1> QED BY <1>8, <1>9, LineageGrows

LEMMA MigratingKeepsLineage ==
  ASSUME Inv, LineageOK, EndMigration
  PROVE  LineageOK'
<1>1. PICK m \in Versions, q \in DOMAIN policies :
            /\ m.contract = "v2" /\ q.contract = "v1"
            /\ DOMAIN policies' = DOMAIN policies \cup {m}
            /\ \A v \in DOMAIN policies : KeepsOrigin(v)
            /\ m \notin DOMAIN policies =>
                  policies'[m].parent = q /\ policies'[m].skill = "contract-migration"
  BY Migrating
<1>2. \A x \in Processes : frame'[x].op = "compile" => frame'[x] = frame[x]
  <2>1. /\ frame \in [Processes -> FrameType] /\ Automatic \in Processes
        /\ frame'= [frame EXCEPT ![Automatic] =
                       [op |-> "admitted", rule |-> frame[Automatic].rule]]
    BY DEF Inv, TypeOK, EndMigration, Processes
  <2>2. frame'[Automatic].op = "admitted"
    BY <2>1
  <2> QED BY <2>1, <2>2
<1>3. SkillsOK'
  BY <1>1, <1>2, SkillsMove DEF LineageOK
<1>4. CASE m \in DOMAIN policies
  <2>1. DOMAIN policies' = DOMAIN policies
    BY <1>1, <1>4
  <2> QED BY <1>1, <1>3, <2>1, LineageStays
<1>5. CASE m \notin DOMAIN policies
  <2>1. SourcesOf(q) = policies[q].compiled
    BY <1>1 DEF LineageOK, SkillsOK, SourcesOf
  <2>2. Grown(m, q)
    BY <1>1, <1>5, <2>1 DEF Grown
  <2> QED BY <1>3, <2>2, LineageGrows
<1> QED BY <1>4, <1>5

(***************************************************************************)
(* The theorems.                                                           *)
(***************************************************************************)
LEMMA Stutters == ASSUME Inv, UNCHANGED vars PROVE Inv'
  BY DEF vars, Inv, TypeOK, RowsOK, FrameOK, Checked, HasEvidence, NoTwin

LEMMA NextInv == ASSUME Inv, [Next]_vars PROVE Inv'
<1>1. CASE \E t \in Tasks : HumanDecides(t)
  BY <1>1, Deciding
<1>2. CASE \E e \in Experiences : AddExperience(e) \/ ReviewExperience(e) \/ AutoAdmit(e)
  BY <1>2, Adding, Reviewing, Admitting
<1>3. CASE \E p \in People, e \in Experiences : StartRule(p, e)
  BY <1>3, StartingRule
<1>4. CASE \E p \in Processes : AddRule(p) \/ EndCompile(p) \/ GiveUp(p)
  BY <1>4, AddingRule, EndingCompile, GivingUp
<1>5. CASE \E r \in RuleIds : ReviewRule(r)
  BY <1>5, ReviewingRule
<1>6. CASE \E k \in ByHand, t \in Texts : Propose(k, t)
  BY <1>6, Proposing
<1>7. CASE \E p \in People, sources \in SUBSET Experiences :
             \E rs \in SUBSET {r \in RuleIds : RuleStands(r)} : StartCompile(p, sources, rs)
  BY <1>7, StartingCompile
<1>8. CASE AutoConfirm \/ StartMigration \/ EndMigration \/ AutoCompile
  BY <1>8, Confirming, StartingMigration, EndingMigration, Compiling
<1>9. CASE \E p \in People, v \in DOMAIN policies :
             \/ StartReplay(p, v) \/ StartEvaluation(p, v) \/ StartShadow(p, v)
             \/ StartActivation(p, v) \/ StartRollback(p, v)
  BY <1>9, StartingReplay, StartingEvaluation, StartingShadow, StartingActivation,
     StartingRollback
<1>10. CASE \E p \in People : \/ EndReplay(p) \/ EndEvaluation(p) \/ EndShadow(p)
                              \/ EndActivation(p) \/ EndRollback(p)
  BY <1>10, EndingReplay, EndingEvaluation, EndingShadow, EndingActivation, EndingRollback
<1>11. CASE \E v \in DOMAIN policies : ShadowMoves(v)
  BY <1>11, MovingShadow
<1>12. CASE InputsMove
  BY <1>12, Moving
<1>13. CASE UNCHANGED vars
  BY <1>13, Stutters
<1> QED BY <1>1, <1>2, <1>3, <1>4, <1>5, <1>6, <1>7, <1>8, <1>9, <1>10, <1>11, <1>12,
           <1>13 DEF Next

\* The inductive invariant holds of every behaviour.
THEOREM Invariance == Spec => []Inv
  BY InitInv, NextInv, PTL DEF Spec

\* However often the automatic command is killed and run again, no rule leads it to a
\* second Policy.
THEOREM RetriesMakeNoTwin == Spec => []RetryMakesNoTwin
<1>1. Inv => RetryMakesNoTwin
  BY CountTwins DEF Inv
<1> QED BY <1>1, Invariance, PTL

\* Whatever users, reviewers, publications, other replays and other activations do between
\* its check and its write: an activation writes a Policy whose Experiences are confirmed,
\* whose rules are and were worded with all the feedback there was at the check, and whose
\* latest replay passed with the inputs the command had found, unless one came in since.
THEOREM ActivationsAreProven == Spec => OnlyProvenIsActivated
<1>1. ASSUME Inv, NEW p \in People, frame[p].op = "switch",
             policies[frame[p].version].required
      PROVE  Proven(frame[p])
  <2>1. FrameOK(frame[p])
    BY <1>1 DEF Inv, Processes
  <2>2. frame[p].version \in DOMAIN policies /\ Checked(frame[p])
    BY <1>1, <2>1 DEF FrameOK
  <2>3. \A e \in policies[frame[p].version].sources : HasEvidence(e)
    BY <1>1, <2>2 DEF Inv, RowsOK
  <2> QED BY <2>2, <2>3 DEF Proven, Checked
<1>2. ASSUME Inv
      PROVE  [ \A p \in People :
                 (/\ frame[p].op = "switch" /\ active' # active /\ frame'[p] # frame[p]
                  /\ policies[frame[p].version].required) => Proven(frame[p]) ]_vars
  BY <1>1, <1>2
<1> QED BY <1>2, Invariance, PTL DEF Spec, OnlyProvenIsActivated

\* Steps that write no Policy, and begin no compilation.
LEMMA QuietSteps ==
  ASSUME Inv,
         \/ \E t \in Tasks : HumanDecides(t)
         \/ \E e \in Experiences : AddExperience(e) \/ ReviewExperience(e) \/ AutoAdmit(e)
         \/ \E p \in People, e \in Experiences : StartRule(p, e)
         \/ \E p \in Processes : AddRule(p) \/ GiveUp(p)
         \/ \E r \in RuleIds : ReviewRule(r)
         \/ AutoConfirm \/ StartMigration
         \/ \E p \in People, v \in DOMAIN policies :
               \/ StartReplay(p, v) \/ StartEvaluation(p, v) \/ StartShadow(p, v)
               \/ StartActivation(p, v) \/ StartRollback(p, v)
         \/ InputsMove
         \/ UNCHANGED vars
  PROVE  OriginsStay
<1>1. policies' = policies
  BY DEF HumanDecides, AddExperience, ReviewExperience, AutoAdmit, StartRule, AddRule, GiveUp,
         ReviewRule, AutoConfirm, StartMigration, StartReplay, StartEvaluation,
         StartShadow, StartActivation, StartRollback, InputsMove, vars
<1>2. frame \in [Processes -> FrameType]
  BY DEF Inv, TypeOK
<1>3. Idle.op # "compile"
  BY Frames
<1>4. \/ frame' = frame
      \/ \E p \in Processes : \E f : f.op # "compile" /\ frame' = [frame EXCEPT ![p] = f]
  <2>1. CASE \E e \in Experiences : AutoAdmit(e)
    <3>1. PICK e \in Experiences : AutoAdmit(e)
      BY <2>1
    <3>2. PICK f : f.op # "compile" /\ frame' = [frame EXCEPT ![Automatic] = f]
      BY <3>1 DEF AutoAdmit
    <3> QED BY <3>2 DEF Processes
  <2>2. CASE \E p \in People, e \in Experiences : StartRule(p, e)
    <3>1. PICK p \in People, e \in Experiences : StartRule(p, e)
      BY <2>2
    <3>2. PICK f : f.op # "compile" /\ frame' = [frame EXCEPT ![p] = f]
      BY <3>1 DEF StartRule
    <3> QED BY <3>2 DEF Processes
  <2>3. CASE \E p \in Processes : AddRule(p) \/ GiveUp(p)
    <3>1. PICK p \in Processes : AddRule(p) \/ GiveUp(p)
      BY <2>3
    <3>2. PICK f : f.op # "compile" /\ frame' = [frame EXCEPT ![p] = f]
      BY <1>3, <3>1 DEF AddRule, GiveUp
    <3> QED BY <3>2
  <2>4. CASE AutoConfirm
    <3>1. frame[Automatic] \in FrameType /\ frame[Automatic].op = "admit"
      BY <1>2, <2>4 DEF AutoConfirm, Processes
    <3>2. frame[Automatic] \in [op : {"admit", "admitted"}, rule : RuleIds]
      BY <3>1 DEF FrameType, Idle
    <3>3. PICK f : f.op # "compile" /\ frame' = [frame EXCEPT ![Automatic] = f]
      <4>1. [frame[Automatic] EXCEPT !.op = "admitted"].op = "admitted"
        BY <3>2
      <4> QED BY <2>4, <4>1 DEF AutoConfirm
    <3> QED BY <3>3 DEF Processes
  <2>5. CASE StartMigration
    <3>1. PICK f : f.op # "compile" /\ frame' = [frame EXCEPT ![Automatic] = f]
      BY <2>5 DEF StartMigration
    <3> QED BY <3>1 DEF Processes
  <2>6. CASE \E p \in People, v \in DOMAIN policies :
               \/ StartReplay(p, v) \/ StartEvaluation(p, v) \/ StartShadow(p, v)
               \/ StartActivation(p, v) \/ StartRollback(p, v)
    <3>1. PICK p \in People, v \in DOMAIN policies :
               \/ StartReplay(p, v) \/ StartEvaluation(p, v) \/ StartShadow(p, v)
               \/ StartActivation(p, v) \/ StartRollback(p, v)
      BY <2>6
    <3>2. PICK f : f.op # "compile" /\ frame' = [frame EXCEPT ![p] = f]
      BY <3>1 DEF StartReplay, StartEvaluation, StartShadow, StartActivation, StartRollback
    <3> QED BY <3>2 DEF Processes
  <2>7. CASE UNCHANGED frame
    BY <2>7
  <2> QED BY <2>1, <2>2, <2>3, <2>4, <2>5, <2>6, <2>7
       DEF HumanDecides, AddExperience, ReviewExperience, ReviewRule, InputsMove, vars
<1>5. \A x \in Processes : frame'[x].op = "compile" => frame'[x] = frame[x]
  BY <1>2, <1>4
<1> QED BY <1>1, <1>5 DEF OriginsStay, KeepsOrigin

LEMMA NextLineage == ASSUME Inv, LineageOK, [Next]_vars PROVE LineageOK'
<1>1. CASE \E k \in ByHand, t \in Texts : Propose(k, t)
  BY <1>1, ProposingKeepsLineage
<1>2. CASE \E p \in Processes : EndCompile(p)
  BY <1>2, CompilingKeepsLineage
<1>3. CASE \E p \in People, sources \in SUBSET Experiences :
             \E rs \in SUBSET {r \in RuleIds : RuleStands(r)} : StartCompile(p, sources, rs)
  BY <1>3, StartingKeepsLineage
<1>4. CASE EndMigration \/ AutoCompile
  BY <1>4, MigratingKeepsLineage, AutoKeepsLineage
<1>5. CASE OriginsStay
  BY <1>5, OriginsKeepLineage
<1>6. CASE \/ \E p \in People : \/ EndReplay(p) \/ EndEvaluation(p) \/ EndShadow(p)
                                \/ EndActivation(p) \/ EndRollback(p)
           \/ \E v \in DOMAIN policies : ShadowMoves(v)
  <2>1. OriginsStay
    BY <1>6, EndingReplay, EndingEvaluation, EndingShadow, EndingActivation,
       EndingRollback, MovingShadow
  <2> QED BY <2>1, OriginsKeepLineage
<1> QED BY <1>1, <1>2, <1>3, <1>4, <1>5, <1>6, QuietSteps DEF Next

\* Whoever proposed the Policies, in whatever order roles were rewritten and the contract
\* migrated: what a Policy names as its sources is what its prompts were written from.
THEOREM SourcesAreExact == Spec => []PromptsHaveTheirSources
<1>1. ASSUME LineageOK
      PROVE  PromptsHaveTheirSources
  <2>1. PICK f : IsAuthors(f)
    BY <1>1 DEF LineageOK
  <2>2. Authors = CHOOSE g : IsAuthors(g)
    BY DEF Authors, IsAuthors
  <2>3. IsAuthors(Authors)
    BY <2>1, <2>2
  <2> QED BY <1>1, <2>3 DEF LineageOK, Attributed, PromptsHaveTheirSources
<1> QED BY <1>1, InitLineage, NextLineage, Invariance, InitInv, PTL DEF Spec

--------------------------------------------------------------------------------
(***************************************************************************)
(* What a run leaves behind, what is learnt from it, and the replay.       *)
(***************************************************************************)
PlanCodes == {ConflictCode, LeadCode}
Conflicts == [code : {ConflictCode}, owner : PlanWorkers]
Requests == [worker : PlanWorkers, codes : SUBSET PlanCodes]
RoundLists == {<<>>} \cup RoundsOfTheGates
OwnErrors ==
    {"lead_plan_not_approved", "missing_or_invalid_approved_query_plan",
     "no_accepted_sql_candidate", "critic_rejected_all_candidates",
     "target_replay_parent_runtime_failure", "target_replay_candidate_runtime_failure"}

TraceType ==
    [status : {"running", "rejected", "success", "failed"}, pins : Worlds,
     initial : SUBSET Conflicts, requests : SUBSET Requests, changed : SUBSET PlanWorkers,
     left : SUBSET Conflicts, approved : BOOLEAN, planErrors : SUBSET OwnErrors,
     rounds : RoundLists, sql : Sqls \cup {NoSql}, errors : SUBSET OwnErrors,
     type : {"DATA_QUERY", "RESULT_QA"}, production : BOOLEAN]

\* A trace an engine may leave: what is left of the conflicts was there before.
TraceOK(t) == t \in TraceType /\ t.left \subseteq t.initial

\* A lesson from a revision names what the Binder had found.
LessonOK(e) ==
    /\ e.stage \in {"user-feedback", "candidate-gates", "plan-revisions"}
    /\ e.stage = "plan-revisions" /\ e.present => e.code = ConflictCode

\* A lesson that is a candidate can be used, and was drawn from this run.
Usable(e, t) ==
    e.state = "candidate" =>
       /\ AutomaticDecision(e) /\ HasReplayProof(e)
       /\ ProblemPresent(e, t) = "yes" \/ (e.stage = "user-feedback" /\ e.sql = t.sql)

ReplayOK ==
    /\ lane \in {2, 3} => lessons # {}
    /\ lane = 3 => traces[1].pins = trace.pins /\ TraceOK(traces[1])
    /\ lane = 3 /\ stage # "replayed" => traces = <<traces[1]>>
    /\ replayed.status # "none" => stage = "replayed"

LessonInv ==
    /\ lane \in {1, 2, 3} /\ TraceOK(trace) /\ world \in Worlds
    /\ \A e \in lessons : LessonOK(e)
    /\ stage = "extracted" => \A e \in lessons : Usable(e, trace)
    /\ ReplayOK /\ ReplayVerdictIsSound

(***************************************************************************)
(* What each kind of lesson says.                                          *)
(***************************************************************************)
LEMMA BlankIsOK == ASSUME NEW w \in Worlds PROVE TraceOK(Blank(w))
  BY DEF TraceOK, TraceType, Blank, RoundLists

LEMMA PlanRevisionLesson ==
  ASSUME LessonAssumption, NEW t, TraceOK(t), NEW r \in t.requests, NEW code \in RequestCodes(r)
  PROVE  /\ LessonOK(PlanRevision(t, r.worker, code))
         /\ Usable(PlanRevision(t, r.worker, code), t)
<1>1. PICK w : w = r.worker
  OBVIOUS
<1>2. w \in PlanWorkers /\ w # ""
  BY <1>1 DEF TraceOK, TraceType, Requests, LessonAssumption
<1>3. PICK c : c = IF code = "" THEN "worker_plan_revision" ELSE code
  OBVIOUS
<1>4. \A d \in t.initial : d.code = ConflictCode
  BY DEF TraceOK, TraceType, Conflicts
<1>5. InitialIssue(t, w, code) => code = ConflictCode /\ c = ConflictCode
  BY <1>3, <1>4 DEF InitialIssue, ConflictCode
<1>6. PICK e : e = PlanRevision(t, w, code)
  OBVIOUS
<1>7. e.stage = "plan-revisions" /\ e.agent = w /\ e.code = c
  BY <1>3, <1>6 DEF PlanRevision, Experience
<1>8. e.present = InitialIssue(t, w, code)
  BY <1>6 DEF PlanRevision, Experience
<1>9. LessonOK(e)
  BY <1>5, <1>7, <1>8 DEF LessonOK
<1>10. ASSUME e.state = "candidate"
       PROVE  /\ InitialIssue(t, w, code) /\ w \in t.changed /\ ResolvedRevision(t, code)
              /\ e.grade = "deterministic_plan_revision"
              /\ e.resolved = TRUE /\ e.changed = TRUE /\ e.approved = TRUE
  <2>1. InitialIssue(t, w, code) /\ w \in t.changed /\ ResolvedRevision(t, code)
    BY <1>6, <1>10 DEF PlanRevision, Experience
  <2>2. t.approved = TRUE
    BY <2>1 DEF ResolvedRevision, TraceOK, TraceType
  <2>3. e.grade = "deterministic_plan_revision"
    BY <1>6, <2>1 DEF PlanRevision, Experience
  <2>4. e.resolved = TRUE /\ e.changed = TRUE
    BY <1>6, <2>1 DEF PlanRevision, Experience
  <2>5. e.approved = TRUE
    BY <1>6, <2>2 DEF PlanRevision, Experience
  <2> QED BY <2>1, <2>3, <2>4, <2>5
<1>11. ASSUME e.state = "candidate"
       PROVE  /\ AutomaticDecision(e) /\ HasReplayProof(e)
              /\ ProblemPresent(e, t) = "yes"
  <2>1. e.present /\ e.resolved /\ e.changed /\ e.approved
    BY <1>8, <1>10, <1>11
  <2>2. AutomaticDecision(e)
    BY <1>2, <1>7, <1>10, <1>11, <2>1 DEF AutomaticDecision
  <2>3. e.code = ConflictCode /\ e.code # "worker_plan_revision" /\ e.code # ""
    BY <1>5, <1>7, <1>10, <1>11 DEF ConflictCode
  <2>4. HasReplayProof(e)
    BY <1>7, <2>1, <2>3 DEF HasReplayProof, PlanRevisionProof
  <2>5. e.code \in {d.code : d \in t.initial}
    BY <1>10, <1>11, <1>5, <2>3, <1>4 DEF InitialIssue
  <2>6. e.code \in IssueCodes(t)
    BY <2>3, <2>5 DEF IssueCodes
  <2> QED BY <1>7, <2>2, <2>4, <2>6 DEF ProblemPresent
<1> QED BY <1>1, <1>6, <1>9, <1>11 DEF Usable

LEMMA GateRepairLesson ==
  ASSUME NEW t, TraceOK(t), NEW e \in SqlGateRepairs(t)
  PROVE  LessonOK(e) /\ Usable(e, t)
<1>1. /\ Len(t.rounds) = 2 /\ ~RoundAccepted(t.rounds[1])
      /\ e = [Experience("candidate-gates", "sql-generation", "sql_gate_repair")
                EXCEPT !.approved = TRUE, !.gateCodes = t.rounds[1],
                       !.resolved = TRUE, !.grade = "deterministic_repair",
                       !.state = "candidate"]
  BY DEF SqlGateRepairs
<1>2. /\ e.stage = "candidate-gates" /\ e.agent = "sql-generation"
      /\ e.code = "sql_gate_repair" /\ e.gateCodes = t.rounds[1]
      /\ e.grade = "deterministic_repair" /\ e.state = "candidate"
  BY <1>1 DEF Experience
<1>3. e.approved = TRUE /\ e.resolved = TRUE
  BY <1>1 DEF Experience
<1>4. e.gateCodes # {}
  BY <1>1, <1>2 DEF RoundAccepted
<1>5. LessonOK(e)
  BY <1>2 DEF LessonOK
<1>6. AutomaticDecision(e)
  BY <1>2, <1>3, <1>4 DEF AutomaticDecision
<1>7. HasReplayProof(e)
  BY <1>2, <1>3, <1>4 DEF HasReplayProof, SqlRepairProof
<1>8. ProblemPresent(e, t) = "yes"
  BY <1>1, <1>2, <1>7 DEF ProblemPresent
<1> QED BY <1>5, <1>6, <1>7, <1>8 DEF Usable

LEMMA CorrectionLesson ==
  ASSUME LessonAssumption, NEW t, NEW f, NEW e \in UserCorrections(t, {f})
  PROVE  LessonOK(e) /\ Usable(e, t)
<1>1. PICK owner, accepted, ready :
        /\ accepted = CorrectedProof(f.sql)
        /\ ready = (f.note /\ owner # "" /\ accepted)
        /\ e = [Experience("user-feedback", owner,
                           IF owner = "" THEN "user_correction_unattributed" ELSE "wrong_result")
                EXCEPT !.sql = IF accepted THEN f.sql ELSE NoSql, !.note = f.note,
                       !.grade = IF ready THEN "human_correction_with_gate"
                                 ELSE "human_feedback_only",
                       !.state = IF ready THEN "candidate" ELSE "needs_evidence"]
  <2>1. (CHOOSE g \in {f} : TRUE) = f /\ {f} # {}
    OBVIOUS
  <2> DEFINE A == CorrectedProof(f.sql)
             O == IF f.attributed /\ f.agent = "text2sql-critic" THEN "" ELSE f.agent
             R == f.note /\ O # "" /\ A
  <2>2. e = [Experience("user-feedback", O,
                        IF O = "" THEN "user_correction_unattributed" ELSE "wrong_result")
                EXCEPT !.sql = IF A THEN f.sql ELSE NoSql, !.note = f.note,
                       !.grade = IF R THEN "human_correction_with_gate"
                                 ELSE "human_feedback_only",
                       !.state = IF R THEN "candidate" ELSE "needs_evidence"]
    BY <2>1, Zenon DEF UserCorrections
  <2> HIDE DEF A, O
  <2> WITNESS O, A, R
  <2> QED BY <2>2 DEF A
<1>2. /\ e.stage = "user-feedback" /\ e.agent = owner
      /\ e.sql = IF accepted THEN f.sql ELSE NoSql
      /\ e.grade = IF ready THEN "human_correction_with_gate" ELSE "human_feedback_only"
      /\ e.state = IF ready THEN "candidate" ELSE "needs_evidence"
  BY <1>1 DEF Experience
<1>3. e.note = f.note
  BY <1>1 DEF Experience
<1>4. LessonOK(e)
  BY <1>2 DEF LessonOK
<1>5. ASSUME e.state = "candidate"
      PROVE  AutomaticDecision(e) /\ HasReplayProof(e)
  <2>1. ready
    BY <1>2, <1>5
  <2>2. f.note /\ owner # "" /\ CorrectedProof(f.sql) /\ accepted
    BY <1>1, <2>1
  <2>3. e.sql \in Sqls /\ e.sql # NoSql
    BY <1>2, <2>2 DEF CorrectedProof, LessonAssumption
  <2>4. e.grade = "human_correction_with_gate"
    BY <1>2, <2>1
  <2>5. e.note
    BY <1>3, <2>2
  <2>6. AutomaticDecision(e)
    BY <1>2, <1>5, <2>2, <2>3, <2>4, <2>5 DEF AutomaticDecision
  <2> QED BY <1>2, <2>3, <2>6 DEF HasReplayProof
<1>6. HasReplayProof(e) => ProblemPresent(e, t) = "yes" \/ e.sql = t.sql
  BY <1>2 DEF ProblemPresent
<1> QED BY <1>2, <1>4, <1>5, <1>6 DEF Usable


(***************************************************************************)
(* The engine.                                                             *)
(***************************************************************************)
\* A step of the engine leaves a trace it may leave, of the same world.
Traced == TraceOK(trace') /\ trace'.pins = trace.pins

LEMMA Planned == ASSUME TraceOK(trace), PlanQuery PROVE Traced
<1>1. PICK t \in TraceType : t = trace
  BY DEF TraceOK
<1>2. PICK initial \in SUBSET {[code |-> ConflictCode, owner |-> w] : w \in PlanWorkers},
           asked \in SUBSET PlanWorkers, lead \in SUBSET {LeadCode}, approved \in BOOLEAN :
        \E changed \in SUBSET asked, left \in SUBSET initial :
         /\ asked = {} => (lead = {} /\ left = initial)
         /\ approved => left = {}
         /\ trace' = [trace EXCEPT
            !.initial = initial, !.left = left, !.changed = changed, !.approved = approved,
            !.requests = {[worker |-> w, codes |-> lead \cup
                             {c.code : c \in {d \in initial : d.owner = w}}] : w \in asked},
            !.planErrors = IF approved THEN {} ELSE {"lead_plan_not_approved"},
            !.status = IF approved THEN "running" ELSE "rejected",
            !.errors = IF approved THEN {} ELSE {"missing_or_invalid_approved_query_plan"}]
         /\ stage' = IF approved THEN "generate" ELSE "end"
  BY Zenon DEF PlanQuery
<1>3. initial \in SUBSET Conflicts
  BY <1>2 DEF Conflicts
<1>4. PICK Q : Q = {[worker |-> w, codes |-> lead \cup
                       {c.code : c \in {d \in initial : d.owner = w}}] : w \in asked}
  OBVIOUS
<1>5. Q \in SUBSET Requests
  <2>1. ASSUME NEW w \in asked
        PROVE  [worker |-> w, codes |-> lead \cup
                  {c.code : c \in {d \in initial : d.owner = w}}] \in Requests
    <3>1. \A c \in initial : c.code = ConflictCode
      BY <1>3 DEF Conflicts
    <3>2. lead \cup {c.code : c \in {d \in initial : d.owner = w}} \in SUBSET PlanCodes
      BY <3>1 DEF PlanCodes
    <3> QED BY <3>2 DEF Requests
  <2> QED BY <1>4, <2>1
<1>6. PICK P \in SUBSET OwnErrors, E \in SUBSET OwnErrors, s \in {"running", "rejected"} :
        /\ P = IF approved THEN {} ELSE {"lead_plan_not_approved"}
        /\ E = IF approved THEN {} ELSE {"missing_or_invalid_approved_query_plan"}
        /\ s = IF approved THEN "running" ELSE "rejected"
  BY DEF OwnErrors
<1>7. PICK changed \in SUBSET asked, left \in SUBSET initial :
           trace' = [t EXCEPT
            !.initial = initial, !.left = left, !.changed = changed, !.approved = approved,
            !.requests = Q, !.planErrors = P, !.status = s, !.errors = E]
  BY <1>1, <1>2, <1>4, <1>6, Zenon
<1>8. changed \in SUBSET PlanWorkers /\ left \in SUBSET Conflicts
  BY <1>3
<1>9. trace' \in TraceType
  BY <1>3, <1>5, <1>7, <1>8 DEF TraceType
<1>10. trace'.left = left /\ trace'.initial = initial /\ trace'.pins = t.pins
  BY <1>7 DEF TraceType
<1> QED BY <1>1, <1>9, <1>10 DEF Traced, TraceOK

LEMMA Generated == ASSUME TraceOK(trace), GenerateSql PROVE Traced
<1>1. PICK t \in TraceType : t = trace /\ t.left \subseteq t.initial
  BY DEF TraceOK
<1>2. PICK rounds \in RoundLists :
        \/ trace' = [t EXCEPT !.rounds = rounds]
        \/ trace' = [t EXCEPT !.rounds = rounds, !.status = "rejected",
                              !.errors = {"no_accepted_sql_candidate"}]
  BY <1>1 DEF GenerateSql, RoundLists
<1>3. trace' \in TraceType
  <2>1. [t EXCEPT !.rounds = rounds] \in TraceType
    BY DEF TraceType
  <2>2. PICK E \in SUBSET OwnErrors : E = {"no_accepted_sql_candidate"}
    BY DEF OwnErrors
  <2>3. [t EXCEPT !.rounds = rounds, !.status = "rejected", !.errors = E] \in TraceType
    BY DEF TraceType
  <2> QED BY <1>2, <2>1, <2>2, <2>3
<1>4. trace'.left = t.left /\ trace'.initial = t.initial /\ trace'.pins = t.pins
  BY <1>2 DEF TraceType
<1> QED BY <1>1, <1>3, <1>4 DEF Traced, TraceOK

LEMMA Answered == ASSUME TraceOK(trace), AnswerQuery \/ LaneFails PROVE Traced
<1>1. PICK t \in TraceType : t = trace /\ t.left \subseteq t.initial
  BY DEF TraceOK
<1>2. /\ {"critic_rejected_all_candidates"} \in SUBSET OwnErrors
      /\ {"target_replay_parent_runtime_failure"} \in SUBSET OwnErrors
      /\ {"target_replay_candidate_runtime_failure"} \in SUBSET OwnErrors
  BY DEF OwnErrors
<1>3. \/ \E sql \in Sqls : trace' = [t EXCEPT !.status = "success", !.sql = sql]
      \/ \E s \in {"rejected", "failed"}, E \in SUBSET OwnErrors :
            trace' = [t EXCEPT !.status = s, !.errors = E]
  <2>1. CASE AnswerQuery
    BY <1>1, <1>2, <2>1 DEF AnswerQuery
  <2>2. CASE LaneFails
    <3>1. trace' = [t EXCEPT !.status = "failed",
                             !.errors = {IF lane = 2 THEN "target_replay_parent_runtime_failure"
                                         ELSE "target_replay_candidate_runtime_failure"}]
      BY <1>1, <2>2 DEF LaneFails
    <3> QED BY <1>2, <3>1
  <2> QED BY <2>1, <2>2
<1>4. trace' \in TraceType
  <2>1. ASSUME NEW sql \in Sqls PROVE [t EXCEPT !.status = "success", !.sql = sql] \in TraceType
    BY DEF TraceType
  <2>2. ASSUME NEW s \in {"rejected", "failed"}, NEW E \in SUBSET OwnErrors
        PROVE  [t EXCEPT !.status = s, !.errors = E] \in TraceType
    BY DEF TraceType
  <2> QED BY <1>3, <2>1, <2>2
<1>5. trace'.left = t.left /\ trace'.initial = t.initial /\ trace'.pins = t.pins
  BY <1>3 DEF TraceType
<1> QED BY <1>1, <1>4, <1>5 DEF Traced, TraceOK

LEMMA EngineSteps ==
  ASSUME LessonInv, PlanQuery \/ GenerateSql \/ AnswerQuery \/ LaneFails
  PROVE  LessonInv'
<1>1. Traced
  BY Planned, Generated, Answered DEF LessonInv
<1>2. /\ UNCHANGED <<lane, traces, world, lessons, replayed>>
      /\ stage \notin {"extracted", "replayed"} /\ stage' \notin {"extracted", "replayed"}
  <2>1. CASE PlanQuery
    BY <2>1 DEF PlanQuery
  <2>2. CASE GenerateSql
    <3>1. stage' = "select" \/ stage' = "end"
      BY <2>2, Zenon DEF GenerateSql
    <3> QED BY <2>2, <3>1 DEF GenerateSql
  <2>3. CASE AnswerQuery
    BY <2>3 DEF AnswerQuery
  <2>4. CASE LaneFails
    BY <2>4 DEF LaneFails
  <2> QED BY <2>1, <2>2, <2>3, <2>4
<1>3. ReplayOK'
  BY <1>1, <1>2 DEF Traced, ReplayOK, LessonInv
<1>4. ReplayVerdictIsSound'
  BY <1>2 DEF LessonInv, ReplayVerdictIsSound
<1>5. \A e \in lessons' : LessonOK(e)
  BY <1>2 DEF LessonInv
<1> QED BY <1>1, <1>2, <1>3, <1>4, <1>5 DEF LessonInv, Traced

(***************************************************************************)
(* What is learnt, and the replay.                                         *)
(***************************************************************************)
LEMMA Extracting ==
  ASSUME LessonAssumption, LessonInv, Extract
  PROVE  LessonInv'
<1>1. PICK t : t = trace /\ TraceOK(t)
  BY DEF LessonInv
<1>2. /\ lane = 1 /\ stage' = "extracted" /\ replayed.status = "none"
      /\ UNCHANGED <<lane, trace, traces, world, replayed>>
  BY DEF Extract, LessonInv, ReplayOK
<1>3. \A e \in lessons' : LessonOK(e) /\ Usable(e, t)
  <2> SUFFICES ASSUME NEW e \in lessons' PROVE LessonOK(e) /\ Usable(e, t)
    OBVIOUS
  <2>1. PICK F : lessons' = ExtractExperiences(t, F) /\ (F = {} \/ \E f : F = {f})
    <3>1. PICK G \in {{}} \cup {{f} : f \in Verdicts} : lessons' = ExtractExperiences(t, G)
      BY <1>1, Zenon DEF Extract
    <3>2. G = {} \/ \E f : G = {f}
      OBVIOUS
    <3> QED BY <3>1, <3>2
  <2>2. e \in UserCorrections(t, F) \cup PlanRevisions(t) \cup SqlGateRepairs(t)
    BY <2>1 DEF ExtractExperiences
  <2>3. CASE e \in UserCorrections(t, F)
    <3>1. PICK f : F = {f}
      BY <2>1, <2>3 DEF UserCorrections
    <3> QED BY <2>3, <3>1, CorrectionLesson
  <2>4. CASE e \in PlanRevisions(t)
    <3>1. PICK r \in t.requests : \E code \in RequestCodes(r) : e = PlanRevision(t, r.worker, code)
      BY <2>4 DEF PlanRevisions
    <3> QED BY <1>1, <3>1, PlanRevisionLesson
  <2>5. CASE e \in SqlGateRepairs(t)
    BY <1>1, <2>5, GateRepairLesson
  <2> QED BY <2>2, <2>3, <2>4, <2>5
<1>4. ReplayVerdictIsSound'
  BY <1>2 DEF ReplayVerdictIsSound
<1>5. ReplayOK'
  BY <1>2 DEF ReplayOK
<1> QED BY <1>1, <1>2, <1>3, <1>4, <1>5 DEF LessonInv

LEMMA MovesOn ==
  ASSUME LessonInv, ReplayLessons \/ NextLane \/ WorldMoves
  PROVE  LessonInv'
<1>1. CASE WorldMoves
  BY <1>1 DEF WorldMoves, LessonInv, ReplayOK, ReplayVerdictIsSound
<1>2. CASE ReplayLessons
  <2>1. /\ lane' = 2 /\ stage' = "plan" /\ trace' = Blank(world) /\ lessons' # {}
        /\ lessons' \subseteq lessons /\ UNCHANGED <<traces, world, replayed>>
    BY <1>2 DEF ReplayLessons
  <2>2. replayed.status = "none"
    BY <1>2 DEF ReplayLessons, LessonInv, ReplayOK
  <2>3. TraceOK(trace')
    BY <2>1, BlankIsOK DEF LessonInv
  <2>4. ReplayOK' /\ ReplayVerdictIsSound'
    BY <2>1, <2>2 DEF ReplayOK, ReplayVerdictIsSound
  <2>5. \A e \in lessons' : LessonOK(e)
    BY <2>1 DEF LessonInv
  <2> QED BY <2>1, <2>3, <2>4, <2>5 DEF LessonInv
<1>3. CASE NextLane
  <2>1. PICK t : t = trace
    OBVIOUS
  <2>2. /\ lane = 2 /\ stage = "end" /\ lane' = 3 /\ stage' = "plan" /\ traces' = <<t>>
        /\ trace' = Blank(t.pins) /\ UNCHANGED <<world, lessons, replayed>>
    BY <1>3, <2>1 DEF NextLane
  <2>3. TraceOK(t) /\ t.pins \in Worlds
    BY <2>1 DEF LessonInv, TraceOK, TraceType
  <2>4. TraceOK(trace') /\ trace'.pins = t.pins
    BY <2>2, <2>3, BlankIsOK DEF Blank
  <2>5. traces'[1] = t /\ traces' = <<traces'[1]>>
    BY <2>2
  <2>6. replayed.status = "none" \/ replayed.status # "none"
    OBVIOUS
  <2>7. replayed.status = "none" /\ lessons # {}
    BY <2>2 DEF LessonInv, ReplayOK
  <2>8. ReplayVerdictIsSound'
    BY <2>2, <2>7 DEF ReplayVerdictIsSound
  <2>9. ReplayOK'
    BY <2>2, <2>3, <2>4, <2>5, <2>7 DEF ReplayOK
  <2>10. \A e \in lessons' : LessonOK(e)
    BY <2>2 DEF LessonInv
  <2> QED BY <2>2, <2>4, <2>8, <2>9, <2>10 DEF LessonInv
<1> QED BY <1>1, <1>2, <1>3


(***************************************************************************)
(* The comparison of the lanes.                                            *)
(***************************************************************************)
\* What the artifact says of a row is what its signals say.
LEMMA SignalsAgree ==
  ASSUME NEW e, LessonOK(e), NEW t
  PROVE  SignalState(Signal(e, t)) = ProblemPresent(e, t)
<1>1. CASE ~HasReplayProof(e)
  <2>1. Signal(e, t) = [about |-> "unavailable"]
    BY <1>1 DEF Signal
  <2> QED BY <1>1, <2>1 DEF SignalState, ProblemPresent
<1>2. CASE HasReplayProof(e) /\ e.stage = "user-feedback"
  BY <1>2 DEF Signal, SignalState, ProblemPresent
<1>3. CASE HasReplayProof(e) /\ e.stage = "candidate-gates"
  <2>1. PICK n \in Nat : n = (IF Len(t.rounds) = 2 THEN 1 ELSE 0)
    OBVIOUS
  <2>2. Signal(e, t) = [about |-> "sql_generation_repairs", count |-> n]
    BY <1>3, <2>1 DEF Signal
  <2> QED BY <1>3, <2>1, <2>2 DEF SignalState, ProblemPresent
<1>4. CASE HasReplayProof(e) /\ e.stage = "plan-revisions"
  BY <1>4 DEF Signal, SignalState, ProblemPresent
<1> QED BY <1>1, <1>2, <1>3, <1>4 DEF LessonOK

LEMMA ArtifactIsValid ==
  ASSUME NEW p, NEW c, lessons # {}, \A e \in lessons : LessonOK(e)
  PROVE  ValidArtifact(EvaluateTargetReplay(p, c))
<1>1. PICK rows : rows = {Row(e, p, c) : e \in lessons}
  OBVIOUS
<1>2. PICK a : a = EvaluateTargetReplay(p, c)
  OBVIOUS
<1>3. /\ a.rows = rows
      /\ a.status = IF \A r \in rows : FailureReasons(r) = {} THEN "passed" ELSE "failed"
  BY <1>1, <1>2 DEF EvaluateTargetReplay
<1>4. \A r \in rows : a.reasons[r] = FailureReasons(r)
  BY <1>1, <1>2 DEF EvaluateTargetReplay
<1>5. ASSUME NEW r \in rows
      PROVE  /\ r.baseline = SignalState(r.baselineSignal)
             /\ r.candidate = SignalState(r.candidateSignal)
             /\ r.newIssues = r.candidateIssues \ r.baselineIssues
  <2>1. PICK e \in lessons : r = Row(e, p, c)
    BY <1>1
  <2>2. /\ r.baseline = ProblemPresent(e, p) /\ r.candidate = ProblemPresent(e, c)
        /\ r.baselineSignal = Signal(e, p) /\ r.candidateSignal = Signal(e, c)
        /\ r.newIssues = r.candidateIssues \ r.baselineIssues
    BY <2>1 DEF Row
  <2> QED BY <2>2, SignalsAgree
<1>6. rows # {}
  BY <1>1
<1> QED BY <1>2, <1>3, <1>4, <1>5, <1>6 DEF ValidArtifact

\* No two kinds of code have a name in common.
LEMMA CodesDiffer ==
  ASSUME NEW t, TraceOK(t)
  PROVE  /\ \A c \in t.initial : c.code \in PlanCodes
         /\ \A r \in t.requests : r.codes \subseteq PlanCodes
         /\ \A i \in DOMAIN t.rounds : t.rounds[i] \subseteq {GateCode, InfrastructureCode}
         /\ (t.errors \cup t.planErrors) \cap (PlanCodes \cup {GateCode, InfrastructureCode, ""}) = {}
         /\ PlanCodes \cap {GateCode, InfrastructureCode, ""} = {}
         /\ "" \notin {GateCode, InfrastructureCode}
<1>1. /\ t.initial \subseteq Conflicts /\ t.requests \subseteq Requests
      /\ t.errors \subseteq OwnErrors /\ t.planErrors \subseteq OwnErrors
      /\ t.rounds \in RoundLists
  BY DEF TraceOK, TraceType
<1>2. \A i \in DOMAIN t.rounds : t.rounds[i] \subseteq {GateCode, InfrastructureCode}
  BY <1>1 DEF RoundLists, RoundsOfTheGates
<1>3. /\ OwnErrors \cap (PlanCodes \cup {GateCode, InfrastructureCode, ""}) = {}
      /\ PlanCodes \cap {GateCode, InfrastructureCode, ""} = {}
      /\ "" \notin {GateCode, InfrastructureCode}
  BY DEF OwnErrors, PlanCodes, ConflictCode, LeadCode, GateCode, InfrastructureCode
<1>4. /\ \A c \in t.initial : c.code \in PlanCodes
      /\ \A r \in t.requests : r.codes \subseteq PlanCodes
  BY <1>1 DEF Conflicts, Requests, PlanCodes
<1> QED BY <1>1, <1>2, <1>3, <1>4

\* The codes of a plan, and those of its statements.
Objected(t) == {c.code : c \in t.initial} \cup UNION {r.codes : r \in t.requests}
GateRejected(t) == UNION {t.rounds[i] : i \in DOMAIN t.rounds}

\* The trouble a trace shows is what was objected to, but for the errors it ended with.
LEMMA IssuesAreObjections ==
  ASSUME NEW t, TraceOK(t)
  PROVE  /\ Objected(t) \cup GateRejected(t) \subseteq IssueCodes(t)
         /\ Objected(t) \subseteq PlanCodes
         /\ GateRejected(t) \subseteq {GateCode, InfrastructureCode}
         /\ IssueCodes(t) \cap (PlanCodes \cup {GateCode, InfrastructureCode})
              \subseteq Objected(t) \cup GateRejected(t)
<1>1. Objected(t) \subseteq PlanCodes /\ GateRejected(t) \subseteq {GateCode, InfrastructureCode}
  <2>1. \A x \in Objected(t) : (\E c \in t.initial : x = c.code) \/ (\E r \in t.requests : x \in r.codes)
    BY DEF Objected
  <2>2. \A x \in GateRejected(t) : \E i \in DOMAIN t.rounds : x \in t.rounds[i]
    BY DEF GateRejected
  <2> QED BY <2>1, <2>2, CodesDiffer
<1>2. "" \notin Objected(t) \cup GateRejected(t)
  BY <1>1, CodesDiffer
<1> DEFINE I == {c.code : c \in t.initial \cup t.left}
           J == {c.code : c \in t.initial}
           Q == UNION {r.codes : r \in t.requests}
<1>3. I = J
  BY DEF TraceOK
<1>4. IssueCodes(t) = (t.errors \cup t.planErrors \cup I \cup Q \cup GateRejected(t)) \ {""}
  BY Zenon DEF IssueCodes, GateRejected
<1>5. Objected(t) = J \cup Q
  BY DEF Objected
<1> HIDE DEF I, J, Q
<1>6. /\ Objected(t) \cup GateRejected(t) \subseteq IssueCodes(t)
      /\ IssueCodes(t) \subseteq t.errors \cup t.planErrors \cup Objected(t) \cup GateRejected(t)
  BY <1>2, <1>3, <1>4, <1>5
<1>7. (t.errors \cup t.planErrors) \cap (PlanCodes \cup {GateCode, InfrastructureCode, ""}) = {}
  BY CodesDiffer
<1> QED BY <1>1, <1>6, <1>7

\* A trace shows a repair of a statement exactly if its gates had rejected one.
LEMMA RepairsAreRejections ==
  ASSUME NEW t, TraceOK(t)
  PROVE  Len(t.rounds) = 2 <=> GateRejected(t) # {}
<1>1. t.rounds \in RoundLists
  BY DEF TraceOK, TraceType
<1>2. CASE t.rounds = <<>> \/ t.rounds = <<{}>>
  <2>1. Len(t.rounds) # 2 /\ \A i \in DOMAIN t.rounds : t.rounds[i] = {}
    BY <1>2
  <2> QED BY <2>1 DEF GateRejected
<1>3. CASE \E code \in {GateCode, InfrastructureCode}, second \in {{}, {GateCode}} :
              t.rounds = <<{code}, second>>
  <2>1. PICK code, second : t.rounds = <<{code}, second>>
    BY <1>3
  <2>2. Len(t.rounds) = 2 /\ 1 \in DOMAIN t.rounds /\ code \in t.rounds[1]
    BY <2>1
  <2> QED BY <2>2 DEF GateRejected
<1> QED BY <1>1, <1>2, <1>3 DEF RoundLists, RoundsOfTheGates

\* The verdict of a comparison that passes.
LEMMA PassedRows ==
  ASSUME NEW p, NEW c, TraceOK(p), TraceOK(c), NEW e, LessonOK(e),
         FailureReasons(Row(e, p, c)) = {}
  PROVE  /\ c.status = "success"
         /\ IssueCodes(c) \subseteq IssueCodes(p)
         /\ \/ /\ e.stage = "user-feedback"
               /\ c.sql = e.sql /\ p.sql # e.sql
            \/ /\ e.stage = "candidate-gates"
               /\ GateRejected(p) # {} /\ GateRejected(c) = {}
            \/ /\ e.stage = "plan-revisions"
               /\ e.code \in Objected(p) \ Objected(c)
<1>1. PICK r : r = Row(e, p, c)
  OBVIOUS
<1>2. /\ r.baseline = ProblemPresent(e, p) /\ r.candidate = ProblemPresent(e, c)
      /\ r.newIssues = IssueCodes(c) \ IssueCodes(p)
  BY <1>1 DEF Row
<1>3. r.safe = (c.status = "success" /\ c.errors = {})
  BY <1>1 DEF Row
<1>4. r.baseline = "yes" /\ r.candidate = "no" /\ r.newIssues = {}
  BY <1>1 DEF FailureReasons
<1>5. r.safe
  BY <1>1 DEF FailureReasons
<1>6. c.status = "success"
  BY <1>3, <1>5
<1>7. HasReplayProof(e) /\ ProblemPresent(e, p) = "yes" /\ ProblemPresent(e, c) = "no"
  BY <1>2, <1>4 DEF ProblemPresent
<1>8. CASE e.stage = "user-feedback"
  BY <1>2, <1>4, <1>6, <1>7, <1>8 DEF ProblemPresent
<1>9. CASE e.stage = "candidate-gates"
  <2>1. Len(p.rounds) = 2 /\ Len(c.rounds) # 2
    BY <1>7, <1>9 DEF ProblemPresent
  <2> QED BY <1>2, <1>4, <1>6, <1>9, <2>1, RepairsAreRejections
<1>10. CASE e.stage = "plan-revisions"
  <2>1. e.code \in IssueCodes(p) \ IssueCodes(c)
    BY <1>7, <1>10 DEF ProblemPresent
  <2>2. e.present
    BY <1>7, <1>10 DEF HasReplayProof, PlanRevisionProof
  <2>3. e.code \in PlanCodes
    BY <1>10, <2>2 DEF LessonOK, PlanCodes
  <2>4. e.code \in Objected(p) /\ e.code \notin Objected(c)
    BY <2>1, <2>3, IssuesAreObjections, CodesDiffer
  <2> QED BY <1>2, <1>4, <1>6, <1>10, <2>4
<1> QED BY <1>8, <1>9, <1>10 DEF LessonOK

LEMMA Comparing ==
  ASSUME LessonInv, CompareLanes
  PROVE  LessonInv'
<1>1. PICK p, c : p = traces[1] /\ c = trace
  OBVIOUS
<1>2. /\ lane = 3 /\ stage = "end" /\ stage' = "replayed"
      /\ traces' = Append(traces, c)
      /\ UNCHANGED <<lane, trace, world, lessons>>
  BY <1>1 DEF CompareLanes
<1>3. /\ TraceOK(p) /\ TraceOK(c) /\ p.pins = c.pins /\ traces = <<p>>
      /\ lessons # {} /\ \A e \in lessons : LessonOK(e)
  BY <1>1, <1>2 DEF LessonInv, ReplayOK
<1>4. PICK a : a = EvaluateTargetReplay(p, c) /\ ValidArtifact(a)
  BY <1>3, ArtifactIsValid
<1>5. replayed' = a
  BY <1>1, <1>4 DEF CompareLanes
<1>6. traces'[1] = p /\ traces'[2] = c
  BY <1>2, <1>3
<1>7. a.status = IF \A r \in {Row(e, p, c) : e \in lessons} : FailureReasons(r) = {}
                 THEN "passed" ELSE "failed"
  BY <1>4 DEF EvaluateTargetReplay
<1>8. ASSUME a.status = "passed"
      PROVE  /\ c.status = "success"
             /\ Objected(c) \subseteq Objected(p) \cup GateRejected(p)
             /\ GateRejected(c) \subseteq Objected(p) \cup GateRejected(p)
             /\ \A e \in lessons :
               \/ /\ e.stage = "user-feedback"
                  /\ c.sql = e.sql /\ p.sql # e.sql
               \/ /\ e.stage = "candidate-gates"
                  /\ GateRejected(p) # {} /\ GateRejected(c) = {}
               \/ /\ e.stage = "plan-revisions"
                  /\ e.code \in Objected(p) \ Objected(c)
  <2>1. \A e \in lessons : FailureReasons(Row(e, p, c)) = {}
    BY <1>7, <1>8
  <2>2. PICK e \in lessons : TRUE
    BY <1>3
  <2>3. c.status = "success" /\ IssueCodes(c) \subseteq IssueCodes(p)
    BY <1>3, <2>1, <2>2, PassedRows
  <2>4. Objected(c) \cup GateRejected(c) \subseteq IssueCodes(p)
    BY <1>3, <2>3, IssuesAreObjections
  <2>5. Objected(c) \cup GateRejected(c) \subseteq PlanCodes \cup {GateCode, InfrastructureCode}
    BY <1>3, IssuesAreObjections
  <2>6. Objected(c) \cup GateRejected(c) \subseteq Objected(p) \cup GateRejected(p)
    BY <1>3, <2>4, <2>5, IssuesAreObjections
  <2> QED BY <1>3, <2>1, <2>3, <2>6, PassedRows
<1>9. ReplayVerdictIsSound'
  <2>1. a.status # "refused"
    BY <1>7
  <2>2. replayed' = a /\ lessons' = lessons /\ traces'[1] = p /\ traces'[2] = c /\ c.pins = p.pins
    BY <1>2, <1>3, <1>5, <1>6
  <2>3. CASE a.status = "passed"
    <3>1. /\ traces'[2].status = "success" /\ traces'[2].pins = traces'[1].pins
          /\ Objected(traces'[2]) \subseteq Objected(traces'[1]) \cup GateRejected(traces'[1])
          /\ GateRejected(traces'[2]) \subseteq Objected(traces'[1]) \cup GateRejected(traces'[1])
          /\ \A e \in lessons' :
               \/ /\ e.stage = "user-feedback"
                  /\ traces'[2].sql = e.sql /\ traces'[1].sql # e.sql
               \/ /\ e.stage = "candidate-gates"
                  /\ GateRejected(traces'[1]) # {} /\ GateRejected(traces'[2]) = {}
               \/ /\ e.stage = "plan-revisions"
                  /\ e.code \in Objected(traces'[1]) \ Objected(traces'[2])
      BY <1>8, <2>2, <2>3
    <3>2. replayed'.status # "refused"
      BY <2>1, <2>2
    <3> QED BY <3>1, <3>2, Zenon DEF ReplayVerdictIsSound, Objected, GateRejected
  <2>4. CASE a.status # "passed"
    BY <2>1, <2>2, <2>4, Zenon DEF ReplayVerdictIsSound
  <2> QED BY <2>3, <2>4
<1>10. ReplayOK'
  BY <1>1, <1>2, <1>3, <1>6 DEF ReplayOK
<1> QED BY <1>1, <1>2, <1>3, <1>9, <1>10 DEF LessonInv

LEMMA LessonNextInv ==
  ASSUME LessonAssumption, LessonInv, [LessonNext]_lessonVars
  PROVE  LessonInv'
<1>1. CASE UNCHANGED lessonVars
  BY <1>1 DEF lessonVars, LessonInv, ReplayOK, ReplayVerdictIsSound
<1> QED BY <1>1, EngineSteps, Extracting, MovesOn, Comparing DEF LessonNext

LEMMA LessonInitInv == ASSUME LessonInit PROVE LessonInv
<1>1. PICK production \in BOOLEAN, type \in {"DATA_QUERY", "RESULT_QA"} :
        trace = [Blank(world) EXCEPT !.production = production, !.type = type]
  BY DEF LessonInit
<1>2. PICK t : t = Blank(world) /\ TraceOK(t)
  BY BlankIsOK DEF LessonInit
<1>3. trace = [t EXCEPT !.production = production, !.type = type]
  BY <1>1, <1>2
<1>4. trace \in TraceType
  BY <1>2, <1>3 DEF TraceOK, TraceType
<1>5. trace.left = t.left /\ trace.initial = t.initial
  BY <1>2, <1>3 DEF TraceOK, TraceType
<1>6. TraceOK(trace)
  BY <1>2, <1>4, <1>5 DEF TraceOK
<1>7. replayed.status = "none"
  BY DEF LessonInit, NoArtifact
<1> QED BY <1>6, <1>7 DEF LessonInit, LessonInv, ReplayOK, ReplayVerdictIsSound

\* A lesson that is a candidate is one the automatic gate admits and a replay can use, and
\* the problem it is about is there in the run it was drawn from.
THEOREM LessonsCanBeReplayed == LessonSpec => []LessonsReproduce
<1>1. LessonInv => LessonsReproduce
  BY DEF LessonInv, LessonsReproduce, Usable
<1> QED BY <1>1, LessonAssumption, LessonInitInv, LessonNextInv, PTL DEF LessonSpec

\* A replay that passes has shown each problem in the parent's run and not in the
\* candidate's, which has no trouble of its own; and the store takes what replays write.
THEOREM PassedReplaysShowIt == LessonSpec => []ReplayVerdictIsSound
<1>1. LessonInv => ReplayVerdictIsSound
  BY DEF LessonInv
<1> QED BY <1>1, LessonAssumption, LessonInitInv, LessonNextInv, PTL DEF LessonSpec

--------------------------------------------------------------------------------
(***************************************************************************)
(* The offline gates.  Rates are compared by counting cases: the members of *)
(* a set stand for a finite set of cases, whose Cardinality their counts    *)
(* are, so that counts add up over disjoint parts.                          *)
(***************************************************************************)
\* A set of positions has a last one.
LEMMA LastIndex ==
  ASSUME NEW n \in Nat, NEW S \in SUBSET (1..n), S # {}
  PROVE  \E i \in S : \A j \in S : j <= i
<1> DEFINE T == {i..n : i \in S}
           R == StrictSubsetOrdering(Nat)
<1>1. T \subseteq FiniteSubsetsOf(Nat) /\ T # {}
  <2>1. \A i \in S : IsFiniteSet(i..n) /\ i..n \in SUBSET Nat
    BY FS_Interval
  <2> QED BY <2>1 DEF FiniteSubsetsOf
<1>2. IsWellFoundedOn(R, FiniteSubsetsOf(Nat))
  BY FS_StrictSubsetOrderingWellFounded
<1>3. PICK x \in T : \A y \in T : ~ (<<y, x>> \in R)
  BY <1>1, <1>2, WFMin
<1>4. PICK i \in S : x = i..n
  BY <1>3
<1>5. ASSUME NEW j \in S, i < j PROVE FALSE
  <2>1. j..n \in T /\ j..n \subseteq i..n /\ i \in i..n /\ i \notin j..n
    BY <1>5
  <2>2. <<j..n, x>> \in R
    BY <1>4, <2>1 DEF StrictSubsetOrdering
  <2> QED BY <1>3, <2>1, <2>2
<1>6. \A j \in S : j <= i
  BY <1>5
<1> QED BY <1>6

\* And a first one.
LEMMA FirstOfAll ==
  ASSUME NEW n \in Nat, NEW S \in SUBSET (1..n), S # {}
  PROVE  \E i \in S : \A k \in S : i <= k
<1>1. PICK T : T = {n + 1 - i : i \in S}
  OBVIOUS
<1>2. T \in SUBSET (1..n) /\ T # {}
  <2>1. \A i \in S : i \in Int /\ n + 1 - i \in 1..n
    OBVIOUS
  <2> QED BY <1>1, <2>1
<1>3. PICK j \in T : \A k \in T : k <= j
  BY <1>2, LastIndex
<1>4. PICK i \in S : j = n + 1 - i
  BY <1>1, <1>3
<1>5. \A k \in S : i <= k
  BY <1>1, <1>3, <1>4
<1> QED BY <1>5

LEMMA FirstIndex ==
  ASSUME NEW n \in Nat, NEW S \in SUBSET (1..n), S # {}
  PROVE  Min(S) \in S
  BY FirstOfAll DEF Min

(***************************************************************************)
(* Counting cases: the members of a set stand for so many cases.            *)
(***************************************************************************)
LEMMA CasesAreFinite ==
  ASSUME GateAssumption, NEW S \in SUBSET Groups
  PROVE  IsFiniteSet(CasesOf(S)) /\ Cards(S) = Cardinality(CasesOf(S)) /\ Cards(S) \in Nat
<1> DEFINE f == [i \in S |-> {i} \X (1..Members[i].weight)]
           T == {{i} \X (1..Members[i].weight) : i \in S}
<1>1. IsFiniteSet(S)
  <2>1. IsFiniteSet(1..Len(Members))
    BY FS_Interval DEF GateAssumption
  <2> QED BY <2>1, FS_Subset DEF GateAssumption
<1>2. IsFiniteSet(T)
  <2>1. f \in Surjection(S, T)
    BY DEF Surjection
  <2> QED BY <1>1, <2>1, FS_Surjection
<1>3. \A X \in T : IsFiniteSet(X)
  <2> SUFFICES ASSUME NEW i \in S PROVE IsFiniteSet({i} \X (1..Members[i].weight))
    OBVIOUS
  <2>1. IsFiniteSet({i})
    BY FS_Singleton
  <2>2. PICK w \in Int : w = Members[i].weight
    BY DEF GateAssumption
  <2>3. IsFiniteSet(1..Members[i].weight)
    BY <2>2, FS_Interval
  <2> QED BY <2>1, <2>3, FS_Product
<1>4. IsFiniteSet(CasesOf(S))
  BY <1>2, <1>3, FS_UNION DEF CasesOf
<1>5. Cards(S) = Cardinality(CasesOf(S))
  BY DEF Cards, CardsOf
<1> QED BY <1>4, <1>5, FS_CardinalityType

LEMMA CardsAdd ==
  ASSUME GateAssumption, NEW S \in SUBSET Groups, NEW T \in SUBSET Groups, S \cap T = {}
  PROVE  Cards(S \cup T) = Cards(S) + Cards(T)
<1>1. CasesOf(S \cup T) = CasesOf(S) \cup CasesOf(T)
  BY DEF CasesOf
<1>2. CasesOf(S) \cap CasesOf(T) = {}
  <2>1. \A c \in CasesOf(S) : c[1] \in S
    BY DEF CasesOf
  <2>2. \A c \in CasesOf(T) : c[1] \in T
    BY DEF CasesOf
  <2> QED BY <2>1, <2>2
<1>3. S \cup T \in SUBSET Groups
  OBVIOUS
<1>4. PICK P, Q : P = CasesOf(S) /\ Q = CasesOf(T)
  OBVIOUS
<1>5. /\ IsFiniteSet(P) /\ IsFiniteSet(Q) /\ P \cap Q = {}
      /\ Cards(S) = Cardinality(P) /\ Cards(T) = Cardinality(Q)
      /\ Cards(S \cup T) = Cardinality(P \cup Q)
  BY <1>1, <1>2, <1>3, <1>4, CasesAreFinite
<1>6. Cardinality(P \cup Q) = Cardinality(P) + Cardinality(Q) - Cardinality(P \cap Q)
  BY <1>5, FS_Union
<1>7. Cardinality(P \cap Q) = 0
  BY <1>5, FS_EmptySet
<1>8. Cardinality(P) \in Nat /\ Cardinality(Q) \in Nat
  BY <1>5, FS_CardinalityType
<1> QED BY <1>5, <1>6, <1>7, <1>8

LEMMA CardsPositive ==
  ASSUME GateAssumption, NEW S \in SUBSET Groups
  PROVE  Cards(S) = 0 <=> S = {}
<1>1. CasesOf(S) = {} <=> S = {}
  <2>1. S = {} => CasesOf(S) = {}
    BY DEF CasesOf
  <2>2. ASSUME NEW i \in S PROVE CasesOf(S) # {}
    <3>1. 1 \in 1..Members[i].weight
      BY DEF GateAssumption
    <3>2. <<i, 1>> \in {i} \X (1..Members[i].weight)
      BY <3>1
    <3> QED BY <3>2 DEF CasesOf
  <2> QED BY <2>1, <2>2
<1> QED BY <1>1, CasesAreFinite, FS_EmptySet

\* A part that counts as much as the whole is the whole.
LEMMA CardsOfAll ==
  ASSUME GateAssumption, NEW S \in SUBSET Groups, NEW T \in SUBSET S, Cards(T) >= Cards(S)
  PROVE  T = S
<1>1. PICK D : D = S \ T
  OBVIOUS
<1>2. D \in SUBSET Groups /\ T \in SUBSET Groups /\ T \cap D = {} /\ T \cup D = S
  BY <1>1
<1>3. Cards(S) = Cards(T) + Cards(D)
  BY <1>2, CardsAdd
<1>4. Cards(S) \in Nat /\ Cards(T) \in Nat /\ Cards(D) \in Nat
  BY <1>2, CasesAreFinite
<1>5. Cards(D) = 0
  BY <1>3, <1>4
<1> QED BY <1>1, <1>2, <1>5, CardsPositive

\* What is right in two ways differs by what is won and what is lost.
LEMMA CardsDiffer ==
  ASSUME GateAssumption, NEW S \in SUBSET Groups, NEW T \in SUBSET Groups
  PROVE  Cards(T) - Cards(S) = Cards(T \ S) - Cards(S \ T)
<1>1. PICK B, P, Q : B = S \cap T /\ P = S \ T /\ Q = T \ S
  OBVIOUS
<1>2. /\ B \in SUBSET Groups /\ P \in SUBSET Groups /\ Q \in SUBSET Groups
      /\ B \cap P = {} /\ B \cap Q = {} /\ S = B \cup P /\ T = B \cup Q
  BY <1>1
<1>3. Cards(S) = Cards(B) + Cards(P) /\ Cards(T) = Cards(B) + Cards(Q)
  BY <1>2, CardsAdd
<1>4. Cards(B) \in Nat /\ Cards(P) \in Nat /\ Cards(Q) \in Nat
  BY <1>2, CasesAreFinite
<1> QED BY <1>1, <1>3, <1>4

(***************************************************************************)
(* What it takes to pass.                                                  *)
(***************************************************************************)
GateTypes ==
    /\ gate \in {"policy", "memory"} /\ running \in {"baseline", "candidate", ""}
    /\ DOMAIN outcomes = Runs /\ \A r \in Runs : DOMAIN outcomes[r] \subseteq Groups

Part(split) == {i \in Groups : Members[i].split = split}

LEMMA MaxOfOne == ASSUME NEW n \in Nat PROVE Max({1, n}) = (IF n = 0 THEN 1 ELSE n)
<1>1. PICK m \in {1, n} : m = (IF n = 0 THEN 1 ELSE n)
  OBVIOUS
<1>2. \A y \in {1, n} : m >= y
  BY <1>1
<1>3. \A x \in {1, n} : (\A y \in {1, n} : x >= y) => x = m
  BY <1>1
<1> QED BY <1>1, <1>2, <1>3 DEF Max

\* No drop between figures of as many cases is a bound on the difference.
LEMMA NoDrop ==
  ASSUME NEW n \in Nat, n > 0, NEW x \in Nat, NEW y \in Nat, NEW k \in Nat,
         ~(100 * x * n + k * n * n < 100 * y * n)
  PROVE  100 * (y - x) <= k * n
<1>1. 100 * x * n + k * n * n = (100 * x + k * n) * n /\ 100 * y * n = (100 * y) * n
  OBVIOUS
<1>2. PICK a \in Nat, b \in Nat : a = 100 * x + k * n /\ b = 100 * y
  OBVIOUS
<1>3. ~(a * n < b * n)
  BY <1>1, <1>2
<1>4. ~(a < b)
  BY <1>3
<1> QED BY <1>2, <1>4

\* Every split of the gate was evaluated whole, by both.
LEMMA CoveredSplit ==
  ASSUME GateAssumption, GateTypes, NEW split \in GateSplits, SplitReasons(split) = {}
  PROVE  /\ split \in evalset.files /\ Part(split) # {}
         /\ \A r \in Runs : AcceptedOf(r, split) = Part(split)
         /\ \A i \in Part(split) : /\ outcomes["candidate"][i].safe
                                   /\ outcomes["candidate"][i].kind # "FRAMEWORK_ERROR"
<1>1. PICK A, B : A = AcceptedOf("candidate", split) /\ B = AcceptedOf("baseline", split)
  OBVIOUS
<1>2. A \in SUBSET Part(split) /\ B \in SUBSET Part(split)
  BY <1>1 DEF AcceptedOf, Accepted, OfSplit, GateTypes, Part, Runs
<1>3. Part(split) \in SUBSET Groups
  BY DEF Part
<1>4. PICK E \in SUBSET Groups :
        E = {i \in Groups : Members[i].split = split /\ split \in evalset.files}
  OBVIOUS
<1>5. Cards(A) = Cards(E) /\ Cards(B) = Cards(E)
  <2>1. CoverageReasons(split) = {}
    BY DEF SplitReasons
  <2>2. \A r \in Runs : Cards(AcceptedOf(r, split)) = Expected(split)
    BY <2>1 DEF CoverageReasons
  <2> QED BY <1>1, <1>4, <2>2 DEF Runs, Expected
<1>6. PICK cand : cand = Recomputed("candidate", split)
  OBVIOUS
<1>7. /\ cand.cases = Cards(A)
      /\ cand.safe = Cards({i \in A : outcomes["candidate"][i].safe})
      /\ cand.framework = Cards({i \in A : outcomes["candidate"][i].kind = "FRAMEWORK_ERROR"})
  BY <1>1, <1>6 DEF Recomputed, Metrics
<1>8. ~(cand.safe < cand.cases) /\ cand.cases # 0 /\ ~(cand.framework > 0)
  BY <1>6, Zenon DEF SplitReasons
<1>9. A \in SUBSET Groups /\ Cards(A) \in Nat /\ A # {}
  BY <1>2, <1>3, <1>7, <1>8, CasesAreFinite, CardsPositive
<1>10. split \in evalset.files /\ E = Part(split)
  <2>1. E # {}
    BY <1>5, <1>7, <1>8, CardsPositive
  <2> QED BY <1>4, <2>1 DEF Part
<1>11. A = Part(split) /\ B = Part(split)
  <2>1. Cards(A) >= Cards(E) /\ Cards(B) >= Cards(E)
    BY <1>5, <1>9
  <2> QED BY <1>2, <1>10, <2>1, CardsOfAll
<1>12. {i \in A : outcomes["candidate"][i].safe} = A
  <2>1. PICK S \in SUBSET A : S = {i \in A : outcomes["candidate"][i].safe}
    OBVIOUS
  <2>2. Cards(S) \in Nat
    BY <1>9, CasesAreFinite
  <2>3. Cards(S) >= Cards(A)
    BY <1>7, <1>8, <1>9, <2>1, <2>2
  <2> QED BY <1>9, <2>1, <2>3, CardsOfAll
<1>13. {i \in A : outcomes["candidate"][i].kind = "FRAMEWORK_ERROR"} = {}
  <2>1. PICK S \in SUBSET A : S = {i \in A : outcomes["candidate"][i].kind = "FRAMEWORK_ERROR"}
    OBVIOUS
  <2>2. Cards(S) \in Nat
    BY <1>9, CasesAreFinite
  <2>3. Cards(S) = 0
    BY <1>7, <1>8, <2>1, <2>2
  <2> QED BY <1>9, <2>1, <2>3, CardsPositive
<1>14. \A r \in Runs : AcceptedOf(r, split) = Part(split)
  BY <1>1, <1>11 DEF Runs
<1> QED BY <1>9, <1>10, <1>11, <1>12, <1>13, <1>14

\* No kind of statement pays for the others.
LEMMA AlikeBound ==
  ASSUME GateAssumption, GateTypes, NEW split \in GateSplits, SplitReasons(split) = {},
         SkeletonReasons(split) = {}, NEW i \in Part(split),
         NEW S, S = {j \in Part(split) : Members[j].skeleton = Members[i].skeleton},
         NEW X, X = {j \in S : outcomes["candidate"][j].exact},
         NEW Y, Y = {j \in S : outcomes["baseline"][j].exact}
  PROVE  100 * (Cards(Y) - Cards(X)) <= 3 * Cards(S)
<1>1. PICK base, cand :
        /\ base = Buckets(outcomes["baseline"], AcceptedOf("baseline", split))
        /\ cand = Buckets(outcomes["candidate"], AcceptedOf("candidate", split))
  OBVIOUS
<1>2. AcceptedOf("baseline", split) = Part(split) /\ AcceptedOf("candidate", split) = Part(split)
  BY CoveredSplit DEF Runs
<1>3. PICK k : k = Members[i].skeleton
  OBVIOUS
<1>4. /\ k \in DOMAIN base /\ k \in DOMAIN cand
      /\ base[k] = [cases |-> Cards(S), exact |-> Cards(Y)]
      /\ cand[k] = [cases |-> Cards(S), exact |-> Cards(X)]
  BY <1>1, <1>2, <1>3 DEF Buckets
<1>5. ~Drops(cand[k], base[k], "exact", 3)
  BY <1>1, <1>4 DEF SkeletonReasons
<1>6. PICK n \in Nat, x \in Nat, y \in Nat : n = Cards(S) /\ x = Cards(X) /\ y = Cards(Y) /\ n > 0
  <2>1. S \in SUBSET Groups /\ X \in SUBSET Groups /\ Y \in SUBSET Groups /\ S # {}
    BY DEF Part
  <2>2. Cards(S) \in Nat /\ Cards(X) \in Nat /\ Cards(Y) \in Nat
    BY <2>1, CasesAreFinite
  <2>3. PICK n \in Nat : n = Cards(S) /\ n # 0
    BY <2>1, <2>2, CardsPositive
  <2>4. n > 0
    BY <2>3
  <2> QED BY <2>2, <2>3, <2>4
<1>7. ~(100 * x * n + 3 * n * n < 100 * y * n)
  <2>1. Max({1, n}) = n
    BY <1>6, MaxOfOne
  <2>2. PICK p, q : p = cand[k] /\ q = base[k]
    OBVIOUS
  <2>3. p.cases = n /\ q.cases = n /\ p["exact"] = x /\ q["exact"] = y
    BY <1>4, <1>6, <2>2
  <2> QED BY <1>5, <2>1, <2>2, <2>3 DEF Drops
<1>8. 100 * (y - x) <= 3 * n
  BY <1>6, <1>7, NoDrop
<1> QED BY <1>6, <1>8

LEMMA Passing ==
  ASSUME GateAssumption, GateTypes,
         (gate = "policy" /\ EvaluatePromotionGate = {})
           \/ (gate = "memory" /\ EvaluateMemoryPromotionGate = {})
  PROVE  LosesNothing
<1>1. evalset.eligible
  <2>1. CASE gate = "policy" /\ EvaluatePromotionGate = {}
    BY <2>1 DEF EvaluatePromotionGate, PolicyDataset
  <2>2. CASE gate = "memory" /\ EvaluateMemoryPromotionGate = {}
    <3>1. Reviewed(Total) = {}
      BY <2>2, Zenon DEF EvaluateMemoryPromotionGate, MemoryDataset
    <3> QED BY <3>1 DEF Reviewed
  <2> QED BY <2>1, <2>2
<1>2. ReportReasons = {}
  <2>1. CASE gate = "policy" /\ EvaluatePromotionGate = {}
    BY <2>1 DEF EvaluatePromotionGate
  <2>2. CASE gate = "memory" /\ EvaluateMemoryPromotionGate = {}
    BY <2>2, Zenon DEF EvaluateMemoryPromotionGate
  <2> QED BY <2>1, <2>2
<1>3. \A split \in GateSplits : SplitReasons(split) = {}
  BY <1>2 DEF ReportReasons
<1>4. PICK b, c : b = outcomes["baseline"] /\ c = outcomes["candidate"]
  OBVIOUS
<1>5. \A split \in GateSplits :
         /\ split \in evalset.files /\ Part(split) # {}
         /\ \A r \in Runs : AcceptedOf(r, split) = Part(split)
         /\ \A i \in Part(split) : c[i].safe /\ c[i].kind # "FRAMEWORK_ERROR"
  BY <1>3, <1>4, CoveredSplit
<1>6. Judged = {i \in Groups : Members[i].split \in GateSplits}
  BY <1>5 DEF Judged
<1>7. /\ \A i \in Judged : i \in Part(Members[i].split) /\ Members[i].split \in GateSplits
      /\ \A split \in GateSplits : /\ Part(split) \subseteq Judged
                                   /\ Part(split) = {i \in Judged : Members[i].split = split}
  BY <1>6 DEF Part
<1>8. Judged # {}
  BY <1>5, <1>7 DEF GateSplits, Splits
<1>9. \A r \in Runs : Judged \subseteq DOMAIN outcomes[r]
  <2>1. \A r \in Runs, split \in GateSplits : Part(split) \subseteq DOMAIN outcomes[r]
    BY <1>5 DEF AcceptedOf, OfSplit
  <2> QED BY <1>7, <2>1
<1>10. \A i \in Judged : c[i].safe /\ c[i].kind # "FRAMEWORK_ERROR"
  BY <1>5, <1>7
<1>11. \A split \in GateSplits : Shared(split) = Part(split)
  BY <1>5 DEF Shared, Runs
<1> DEFINE right(r, i) == i \in DOMAIN outcomes[r] /\ outcomes[r][i].exact
           lost(S) == {i \in S : right("baseline", i) /\ ~right("candidate", i)}
           won(S) == {i \in S : ~right("baseline", i) /\ right("candidate", i)}
           part(split) == {i \in Judged : Members[i].split = split}
           alike(S, i) == {j \in S : Members[j].skeleton = Members[i].skeleton}
<1>12. \A S \in SUBSET Judged : lost(S) = Regressed(S) /\ won(S) = Fixed(S)
  <2>1. Judged \subseteq DOMAIN outcomes["baseline"] /\ Judged \subseteq DOMAIN outcomes["candidate"]
    BY <1>9 DEF Runs
  <2> QED BY <2>1 DEF Regressed, Fixed
<1>13. gate = "memory" => Cards(lost(Judged)) = 0
  <2> SUFFICES ASSUME gate = "memory" PROVE Cards(lost(Judged)) = 0
    OBVIOUS
  <2>1. Regressed(UNION {Shared(split) : split \in GateSplits}) = {}
    BY Zenon DEF EvaluateMemoryPromotionGate
  <2>2. Judged \subseteq UNION {Shared(split) : split \in GateSplits}
    BY <1>7, <1>11
  <2>3. Regressed(Judged) = {}
    BY <2>1, <2>2 DEF Regressed
  <2>4. lost(Judged) = {}
    BY <1>12, <2>3
  <2> QED BY <2>4, CardsPositive
<1>14. ASSUME gate = "policy"
       PROVE  /\ Cards(lost(Part("sealed_holdout"))) = 0
              /\ Cards(won(Part("validation"))) - Cards(lost(Part("validation"))) >= 5
              /\ \A i \in Part("validation") :
                   LET same == {j \in Part("validation") : Members[j].skeleton = Members[i].skeleton}
                   IN 100 * (Cards(lost(same)) - Cards(won(same))) <= 3 * Cards(same)
  <2>1. /\ HoldoutReasons = {} /\ ValidationReasons = {} /\ SkeletonReasons("validation") = {}
        /\ "validation" \in GateSplits /\ "sealed_holdout" \in GateSplits
    BY <1>14 DEF EvaluatePromotionGate, GateSplits
  <2>2. /\ Part("validation") \in SUBSET Judged /\ Part("sealed_holdout") \in SUBSET Judged
        /\ Judged \in SUBSET Groups
    BY <1>7, <2>1 DEF Judged
  <2>3. Cards(lost(Part("sealed_holdout"))) = 0
    <3>1. Regressed(Part("sealed_holdout")) = {}
      BY <1>11, <2>1, Zenon DEF HoldoutReasons
    <3>2. lost(Part("sealed_holdout")) = {}
      BY <1>12, <2>2, <3>1
    <3> QED BY <3>2, CardsPositive
  <2>4. Cards(won(Part("validation"))) - Cards(lost(Part("validation"))) >= 5
    <3>1. PICK F, R : F = Fixed(Part("validation")) /\ R = Regressed(Part("validation"))
      OBVIOUS
    <3>2. ~(Cards(F) - Cards(R) < 5)
      BY <1>11, <2>1, <3>1, Zenon DEF ValidationReasons
    <3>3. F \in SUBSET Groups /\ R \in SUBSET Groups
      BY <2>2, <3>1 DEF Fixed, Regressed
    <3>4. Cards(F) \in Nat /\ Cards(R) \in Nat
      BY <3>3, CasesAreFinite
    <3>5. Cards(F) - Cards(R) >= 5
      BY <3>2, <3>4
    <3> QED BY <1>12, <2>2, <3>1, <3>5
  <2>5. ASSUME NEW i \in Part("validation"), NEW S \in SUBSET Part("validation"),
               S = {j \in Part("validation") : Members[j].skeleton = Members[i].skeleton}
        PROVE  100 * (Cards(lost(S)) - Cards(won(S))) <= 3 * Cards(S)
    <3>1. PICK X, Y : X = {j \in S : c[j].exact} /\ Y = {j \in S : b[j].exact}
      OBVIOUS
    <3>2. 100 * (Cards(Y) - Cards(X)) <= 3 * Cards(S)
      BY <1>3, <1>4, <2>1, <2>5, <3>1, AlikeBound
    <3>3. X \in SUBSET Groups /\ Y \in SUBSET Groups
      BY <2>2, <3>1
    <3>4. Cards(Y) - Cards(X) = Cards(Y \ X) - Cards(X \ Y)
      BY <3>3, CardsDiffer
    <3>5. Y \ X = Regressed(S) /\ X \ Y = Fixed(S)
      BY <1>4, <3>1 DEF Regressed, Fixed
    <3>6. lost(S) = Regressed(S) /\ won(S) = Fixed(S)
      BY <1>12, <2>2
    <3> QED BY <3>2, <3>4, <3>5, <3>6
  <2>6. \A i \in Part("validation") :
           LET same == {j \in Part("validation") : Members[j].skeleton = Members[i].skeleton}
           IN 100 * (Cards(lost(same)) - Cards(won(same))) <= 3 * Cards(same)
    BY <2>5
  <2> QED BY <2>3, <2>4, <2>6
<1>15. gate = "policy" => /\ Part("validation") = part("validation")
                          /\ Part("sealed_holdout") = part("sealed_holdout")
  BY <1>7 DEF GateSplits
<1> HIDE DEF lost, won, part, right
<1>16. gate = "policy" =>
          /\ Cards(lost(part("sealed_holdout"))) = 0
          /\ Cards(won(part("validation"))) - Cards(lost(part("validation"))) >= 5
          /\ \A i \in part("validation") :
               LET same == alike(part("validation"), i)
               IN 100 * (Cards(lost(same)) - Cards(won(same))) <= 3 * Cards(same)
  BY <1>14, <1>15
<1>17. \A i \in Judged : /\ outcomes["candidate"][i].safe
                          /\ outcomes["candidate"][i].kind # "FRAMEWORK_ERROR"
  BY <1>4, <1>10
<1> QED BY <1>1, <1>8, <1>9, <1>13, <1>16, <1>17, Zenon DEF LosesNothing, lost, won, part, right

(***************************************************************************)
(* The steps.                                                              *)
(***************************************************************************)
GateInv ==
    /\ GateTypes /\ NoHiddenLoss
    /\ verdict # {"undecided"} => running = ""

LEMMA Evaluated ==
  ASSUME GateAssumption, GateInv, EvaluateCase
  PROVE  GateInv'
<1>1. PICK r : r = running /\ r \in Runs
  BY DEF EvaluateCase, GateInv, GateTypes, Runs
<1>2. PICK result : outcomes' = [outcomes EXCEPT ![running] =
             [j \in DOMAIN outcomes[running] \cup {Min(Left(running))} |->
                IF j = Min(Left(running)) THEN Outcome(result) ELSE outcomes[running][j]]]
  BY DEF EvaluateCase
<1>8. PICK seen, i : seen = outcomes[r] /\ i = Min(Left(r))
  OBVIOUS
<1>3. i \in Groups
  <2>1. Left(r) \in SUBSET (1..Len(Members)) /\ Left(r) # {}
    BY <1>1 DEF EvaluateCase, Left, GateAssumption
  <2> QED BY <1>8, <2>1, FirstIndex DEF GateAssumption
<1>4. PICK g : /\ g = [j \in DOMAIN seen \cup {i} |-> IF j = i THEN Outcome(result) ELSE seen[j]]
               /\ outcomes' = [outcomes EXCEPT ![r] = g]
  BY <1>1, <1>2, <1>8
<1>5. DOMAIN g \subseteq Groups
  BY <1>1, <1>3, <1>4, <1>8 DEF GateInv, GateTypes
<1>6. DOMAIN outcomes' = Runs /\ \A q \in Runs : DOMAIN outcomes'[q] \subseteq Groups
  BY <1>1, <1>4, <1>5 DEF GateInv, GateTypes
<1>7. verdict = {"undecided"}
  BY DEF EvaluateCase, GateInv
<1> QED BY <1>6, <1>7 DEF EvaluateCase, GateInv, GateTypes, NoHiddenLoss

LEMMA Ended ==
  ASSUME GateInv, EndRun
  PROVE  GateInv'
<1>1. verdict = {"undecided"}
  BY DEF EndRun, GateInv
<1> QED BY <1>1 DEF EndRun, After, GateInv, GateTypes, NoHiddenLoss

LEMMA Decided ==
  ASSUME GateAssumption, GateInv, Judge
  PROVE  GateInv'
<1>1. /\ UNCHANGED <<gate, evalset, chosen, snapshots, outcomes, running, unusual>>
      /\ running = ""
  BY DEF Judge
<1>2. ASSUME verdict' = {}
      PROVE  LosesNothing'
  <2>1. (IF gate = "policy" THEN EvaluatePromotionGate ELSE EvaluateMemoryPromotionGate) = {}
    BY <1>2 DEF Judge
  <2>2. LosesNothing
    BY <2>1, Passing DEF GateInv, GateTypes
  <2> QED BY <1>1, <2>2, Zenon DEF LosesNothing, Judged, GateSplits
<1> QED BY <1>1, <1>2 DEF GateInv, GateTypes, NoHiddenLoss

\* For any dataset, results of the engine and ways to set the runs up: a candidate that a
\* gate lets pass was measured on every case the gate is about, and what it lost is bounded.
THEOREM PassedGatesHideNothing == GateSpec => []NoHiddenLoss
<1>1. GateInit => GateInv
  <2> SUFFICES ASSUME GateInit PROVE GateInv
    OBVIOUS
  <2>1. gate \in {"policy", "memory"} /\ running = "baseline" /\ verdict = {"undecided"}
    BY DEF GateInit
  <2>2. DOMAIN outcomes = Runs /\ \A r \in Runs : DOMAIN outcomes[r] = {}
    <3>1. outcomes = [r \in Runs |-> <<>>]
      BY DEF GateInit
    <3>2. DOMAIN <<>> = {}
      OBVIOUS
    <3> QED BY <3>1, <3>2
  <2> QED BY <2>1, <2>2 DEF GateInv, GateTypes, NoHiddenLoss
<1>2. GateInv /\ [GateNext]_gateVars => GateInv'
  <2> SUFFICES ASSUME GateInv, [GateNext]_gateVars PROVE GateInv'
    OBVIOUS
  <2>1. CASE UNCHANGED gateVars
    <3>1. LosesNothing => LosesNothing'
      BY <2>1, Zenon DEF gateVars, LosesNothing, Judged, GateSplits
    <3> QED BY <2>1, <3>1 DEF gateVars, GateInv, GateTypes, NoHiddenLoss
  <2> QED BY <2>1, GateAssumption, Evaluated, Ended, Decided DEF GateNext
<1>3. GateInv => NoHiddenLoss
  BY DEF GateInv
<1> QED BY <1>1, <1>2, <1>3, PTL DEF GateSpec

(***************************************************************************)
(* What an evaluator writes is what the gates accept.                      *)
(***************************************************************************)
ParserCodes == {"parse_error", "unknown_table", "unknown_column"}

LEMMA KindsOfGates ==
  ASSUME NEW errors
  PROVE  \/ FailureFromGate(errors) \in NotExecuted \cup OtherResult
         \/ FailureFromGate(errors) \in NotExecutedNorParsed /\ errors \cap ParserCodes # {}
<1>1. PICK hit : hit = {i \in DOMAIN GateOrder : GateOrder[i].code \in errors}
  OBVIOUS
<1>2. DOMAIN GateOrder = 1..13
  BY DEF GateOrder
<1>3. \A i \in 1..13 : \/ GateOrder[i].kind \in NotExecuted \cup OtherResult
                       \/ /\ GateOrder[i].kind \in NotExecutedNorParsed
                          /\ GateOrder[i].code \in ParserCodes
  BY DEF GateOrder, NotExecuted, OtherResult, NotExecutedNorParsed, ParserCodes
<1>4. CASE hit # {}
  <2>1. PICK i : i = Min(hit) /\ i \in hit
    BY <1>1, <1>2, <1>4, FirstIndex
  <2>2. FailureFromGate(errors) = GateOrder[i].kind /\ i \in 1..13 /\ GateOrder[i].code \in errors
    BY <1>1, <1>2, <1>4, <2>1 DEF FailureFromGate
  <2> QED BY <1>3, <2>2
<1>5. CASE hit = {}
  BY <1>1, <1>5 DEF FailureFromGate, NotExecuted, OtherResult
<1> QED BY <1>4, <1>5

LEMMA RowsMatch ==
  ASSUME EngineAssumption, NEW x \in Returns,
         Outcome(x).kind \notin {"NEEDS_CLARIFICATION", "FRAMEWORK_ERROR"}
  PROVE  OutcomeMatches(Outcome(x)) /\ Outcome(x).ms \in Nat
<1>1. PICK k : k = Failure(x)
  OBVIOUS
<1>2. PICK o : o = Outcome(x)
  OBVIOUS
<1>3. o.kind = k /\ o.ms = x.ms /\ k \notin {"NEEDS_CLARIFICATION", "FRAMEWORK_ERROR"}
  BY <1>1, <1>2 DEF Outcome
<1>4. /\ o.exact <=> k = ""
      /\ o.executable <=> x.raised = "" /\ x.status = "success"
      /\ o.ast <=> x.raised = "" /\ x.sql = "valid"
      /\ o.safe <=> x.raised # "" \/ x.errors \cap WriteCodes = {}
  BY <1>1, <1>2 DEF Outcome, Executable
<1>5. x.status = "success" => x.sql = "valid" /\ x.errors = {}
  BY DEF EngineAssumption
<1>6. CASE x.raised = "timeout"
  <2>1. k = "TIMEOUT"
    BY <1>1, <1>6 DEF Failure
  <2> QED BY <1>2, <1>3, <1>4, <1>6, <2>1 DEF OutcomeMatches, NotExecutedNorParsed, EngineAssumption
<1>7. CASE x.raised # "timeout"
  <2>1. x.raised = "" /\ x.pinned /\ x.status # "needs_clarification"
    BY <1>1, <1>3, <1>7 DEF Failure
  <2>2. CASE x.status = "success"
    <3>1. o.executable /\ o.ast /\ o.safe
      BY <1>4, <1>5, <2>1, <2>2
    <3>2. k = "RESULT_MISMATCH" \/ k = "" \/ k = ClassifyMismatch(x.answer)
      BY <1>1, <1>5, <2>1, <2>2 DEF Failure, Executable
    <3>3. k = "" \/ k \in OtherResult \/ k = "UNEXPECTED_EMPTY"
      BY <3>2 DEF ClassifyMismatch, OtherResult
    <3>4. k = "" => o.exact
      BY <1>4
    <3>5. k # "" => ~o.exact
      BY <1>4
    <3> QED BY <1>2, <1>3, <3>1, <3>3, <3>4, <3>5 DEF OutcomeMatches, EngineAssumption
  <2>3. CASE x.status # "success"
    <3>1. ~o.executable
      BY <1>4, <2>3
    <3>2. \/ k = "NO_SQL" /\ x.sql = "none"
          \/ k = FailureFromGate(x.errors)
      BY <1>1, <2>1, <2>3 DEF Failure, Executable
    <3>3. \/ k \in NotExecuted \cup OtherResult
          \/ k \in NotExecutedNorParsed /\ x.sql # "valid"
      <4>1. CASE k = "NO_SQL" /\ x.sql = "none"
        BY <4>1 DEF NotExecutedNorParsed
      <4>2. CASE k = FailureFromGate(x.errors)
        <5>1. x.errors \cap ParserCodes # {} => x.sql # "valid"
          BY DEF EngineAssumption, ParserCodes
        <5> QED BY <4>2, <5>1, KindsOfGates
      <4> QED BY <3>2, <4>1, <4>2
    <3>4. k # ""
      BY <3>3 DEF NotExecuted, OtherResult, NotExecutedNorParsed
    <3>5. ~o.exact
      BY <1>4, <3>4
    <3>6. x.sql # "valid" => ~o.ast
      BY <1>4
    <3> QED BY <1>2, <1>3, <3>1, <3>3, <3>5, <3>6 DEF OutcomeMatches, EngineAssumption
  <2> QED BY <2>2, <2>3
<1> QED BY <1>6, <1>7

(***************************************************************************)
(* Reports on equal terms.                                                 *)
(***************************************************************************)
Recorded == \A r \in Runs : \A i \in DOMAIN outcomes[r] : \E x \in Returns : outcomes[r][i] = Outcome(x)

LEMMA ReportsAgree ==
  ASSUME GateAssumption, DatasetAssumption, EngineAssumption, GateTypes, Recorded, OnEqualTerms
  PROVE  /\ \A r \in Runs : /\ RowReasons(r) = {} /\ Accepted(r) = Judged
                            /\ Unwraps(r) /\ DOMAIN outcomes[r] = Judged
         /\ \A r \in Runs : \A i \in Judged : OutcomeMatches(outcomes[r][i]) /\ outcomes[r][i].ms \in Nat
         /\ \A split \in GateSplits :
               /\ Part(split) \in SUBSET Judged /\ Part(split) \in SUBSET Groups /\ Part(split) # {}
               /\ CoverageReasons(split) = {} /\ Shared(split) = Part(split)
               /\ Expected(split) = Cards(Part(split))
               /\ \A r \in Runs : /\ DeclaredReasons(r, split) = {}
                                  /\ AcceptedOf(r, split) = Part(split)
                                  /\ OfSplit(outcomes[r], split) = Part(split)
<1>1. Judged = {i \in Groups : Members[i].split \in GateSplits} /\ Judged \in SUBSET Groups
  BY DEF OnEqualTerms, Judged
<1>2. \A r \in Runs : DOMAIN outcomes[r] = Judged
  BY DEF OnEqualTerms
<1>3. \A r \in Runs : \A i \in Judged : OutcomeMatches(outcomes[r][i]) /\ outcomes[r][i].ms \in Nat
  <2> SUFFICES ASSUME NEW r \in Runs, NEW i \in Judged
               PROVE  OutcomeMatches(outcomes[r][i]) /\ outcomes[r][i].ms \in Nat
    OBVIOUS
  <2>1. PICK x \in Returns : outcomes[r][i] = Outcome(x)
    BY <1>2 DEF Recorded
  <2>2. Outcome(x).kind \notin {"NEEDS_CLARIFICATION", "FRAMEWORK_ERROR"}
    BY <2>1 DEF OnEqualTerms
  <2> QED BY <2>1, <2>2, RowsMatch
<1>4. \A r \in Runs : RowReasons(r) = {} /\ Accepted(r) = Judged
  BY <1>1, <1>2, <1>3 DEF RowReasons, Accepted
<1>5. \A r \in Runs : Unwraps(r)
  <2>1. {"validation", "sealed_holdout"} \subseteq GateSplits
    BY DEF GateSplits, Splits
  <2> QED BY <1>1, <1>2, <2>1 DEF Unwraps, OnEqualTerms
<1>6. ASSUME NEW split \in GateSplits
      PROVE  /\ Part(split) \in SUBSET Judged /\ Part(split) \in SUBSET Groups /\ Part(split) # {}
             /\ \A r \in Runs : /\ AcceptedOf(r, split) = Part(split)
                                /\ OfSplit(outcomes[r], split) = Part(split)
  <2>1. Part(split) \in SUBSET Judged /\ Part(split) \in SUBSET Groups
    BY <1>1 DEF Part
  <2>2. split \in Splits
    BY DEF GateSplits, Splits
  <2>3. Part(split) # {}
    BY <2>2 DEF DatasetAssumption, Part
  <2>4. \A r \in Runs : OfSplit(outcomes[r], split) = Part(split)
    BY <1>1, <1>2 DEF OfSplit, Part
  <2> QED BY <1>4, <2>1, <2>3, <2>4 DEF AcceptedOf
<1>7. ASSUME NEW split \in GateSplits
      PROVE  /\ CoverageReasons(split) = {} /\ Shared(split) = Part(split)
             /\ Expected(split) = Cards(Part(split))
             /\ \A r \in Runs : DeclaredReasons(r, split) = {}
  <2>1. Expected(split) = Cards(Part(split))
    <3>1. {i \in Groups : Members[i].split = split /\ split \in evalset.files} = Part(split)
      BY DEF OnEqualTerms, Part
    <3> QED BY <3>1 DEF Expected
  <2>2. \A r \in Runs : AcceptedOf(r, split) = Part(split)
    BY <1>6
  <2>3. CoverageReasons(split) = {}
    BY <2>1, <2>2 DEF CoverageReasons, Runs
  <2>4. \A r \in Runs : DeclaredReasons(r, split) = {}
    BY <1>6 DEF DeclaredReasons, Declared, Recomputed
  <2> QED BY <2>1, <2>2, <2>3, <2>4 DEF Shared, Runs
<1> QED BY <1>2, <1>3, <1>4, <1>5, <1>6, <1>7

\* As many cases, and no fewer of them: no drop, by however many points.
LEMMA NoLess ==
  ASSUME NEW worse, NEW better, NEW field, NEW p \in Nat, NEW n \in Nat, n > 0,
         worse.cases = n, better.cases = n, NEW x \in Nat, NEW y \in Nat,
         worse[field] = x, better[field] = y, x >= y
  PROVE  ~Drops(worse, better, field, p)
<1>1. Max({1, n}) = n
  BY MaxOfOne
<1>2. PICK a \in Nat, b \in Nat, c \in Nat : a = (100 * x) * n /\ b = (100 * y) * n /\ c = (p * n) * n
  OBVIOUS
<1>3. a >= b
  <2>1. PICK d \in Nat : x = y + d
    <3>1. x - y \in Nat /\ x = y + (x - y)
      OBVIOUS
    <3> QED BY <3>1
  <2>2. PICK e \in Nat : e = (100 * d) * n
    OBVIOUS
  <2>3. a = b + e
    BY <1>2, <2>1, <2>2
  <2> QED BY <2>3
<1>4. ~(a + c < b)
  BY <1>3
<1>5. 100 * x * n = a /\ 100 * y * n = b /\ p * n * n = c
  BY <1>2
<1> QED BY <1>1, <1>4, <1>5 DEF Drops

\* The figures of one split of one run.
LEMMA Figures ==
  ASSUME GateAssumption, NEW report, NEW S \in SUBSET Groups
  PROVE  /\ Metrics(report, S).cases = Cards(S) /\ Cards(S) \in Nat
         /\ Metrics(report, S).exact = Cards({i \in S : report[i].exact})
         /\ Metrics(report, S).executable = Cards({i \in S : report[i].executable})
         /\ Metrics(report, S).ast = Cards({i \in S : report[i].ast})
         /\ Metrics(report, S).safe = Cards({i \in S : report[i].safe})
         /\ Metrics(report, S).framework = Cards({i \in S : report[i].kind = "FRAMEWORK_ERROR"})
         /\ Metrics(report, S).p95 = P95(report, S)
  BY CasesAreFinite DEF Metrics

LEMMA PartIsLess ==
  ASSUME GateAssumption, NEW S \in SUBSET Groups, NEW T \in SUBSET S
  PROVE  Cards(T) \in Nat /\ Cards(S) \in Nat /\ Cards(T) <= Cards(S)
<1>1. PICK D : D = S \ T
  OBVIOUS
<1>2. D \in SUBSET Groups /\ T \in SUBSET Groups /\ T \cap D = {} /\ T \cup D = S
  BY <1>1
<1>3. Cards(S) = Cards(T) + Cards(D)
  BY <1>2, CardsAdd
<1>4. Cards(S) \in Nat /\ Cards(T) \in Nat /\ Cards(D) \in Nat
  BY <1>2, CasesAreFinite
<1> QED BY <1>3, <1>4

(***************************************************************************)
(* The 95th percentile: faster in each case is faster altogether.          *)
(***************************************************************************)
\* Times that enough of the cases keep to.
Kept(report, S) ==
    {m \in {report[i].ms : i \in S} : 100 * Cards({i \in S : report[i].ms <= m}) >= 95 * Cards(S)}

LEMMA LeastIsLeast ==
  ASSUME NEW T \in SUBSET Nat, T # {}
  PROVE  Min(T) \in T /\ \A m \in T : Min(T) <= m
<1>1. PICK t \in Nat : t \in T
  OBVIOUS
<1>2. PICK U : U = {k \in 1..(t + 1) : k - 1 \in T}
  OBVIOUS
<1>3. PICK n \in Nat : n = t + 1
  BY <1>1
<1>4. U \in SUBSET (1..n) /\ n \in U
  <2>1. n \in 1..n /\ n - 1 = t
    BY <1>3
  <2> QED BY <1>1, <1>2, <1>3, <2>1
<1>5. PICK u \in U : \A k \in U : u <= k
  BY <1>4, FirstOfAll
<1>6. PICK m \in Nat : m = u - 1 /\ m \in T /\ u <= n /\ u \in Nat
  BY <1>2, <1>3, <1>4, <1>5
<1>7. ASSUME NEW k \in T PROVE m <= k
  <2>1. CASE k <= t
    <3>1. k \in Nat /\ k + 1 \in 1..(t + 1) /\ (k + 1) - 1 = k
      BY <1>1, <2>1
    <3>2. k + 1 \in U
      BY <1>2, <3>1
    <3>3. u <= k + 1
      BY <1>5, <3>2
    <3> QED BY <1>6, <3>1, <3>3
  <2>2. CASE ~(k <= t)
    <3>1. m <= t
      BY <1>1, <1>3, <1>6
    <3>2. k \in Nat
      OBVIOUS
    <3> QED BY <1>1, <1>6, <2>2, <3>1, <3>2
  <2> QED BY <2>1, <2>2
<1>8. \E x \in T : \A y \in T : x =< y
  BY <1>6, <1>7
<1> QED BY <1>8 DEF Min

\* The slowest case is one all cases keep to.
LEMMA SomeTimeIsKept ==
  ASSUME GateAssumption, NEW report, NEW S \in SUBSET Groups, S # {},
         \A i \in S : report[i].ms \in Nat
  PROVE  Kept(report, S) # {}
<1> DEFINE Upto(i) == {j \in S : report[j].ms <= report[i].ms}
           N == {Cards(Upto(i)) : i \in S}
<1>1. \A i \in S : Upto(i) \in SUBSET S /\ i \in Upto(i) /\ Cards(Upto(i)) \in 1..Cards(S)
  <2> SUFFICES ASSUME NEW i \in S
               PROVE  Upto(i) \in SUBSET S /\ i \in Upto(i) /\ Cards(Upto(i)) \in 1..Cards(S)
    OBVIOUS
  <2>1. Upto(i) \in SUBSET S /\ i \in Upto(i)
    OBVIOUS
  <2>2. PICK U : U = Upto(i)
    OBVIOUS
  <2>3. Cards(U) \in Nat /\ Cards(S) \in Nat /\ Cards(U) <= Cards(S)
    BY <2>1, <2>2, PartIsLess
  <2>4. Cards(U) # 0
    BY <2>1, <2>2, CardsPositive
  <2> QED BY <2>1, <2>2, <2>3, <2>4
<1>2. Cards(S) \in Nat
  BY CasesAreFinite
<1>3. N \in SUBSET (1..Cards(S)) /\ N # {}
  BY <1>1
<1>4. PICK n \in N : \A k \in N : k <= n
  BY <1>2, <1>3, LastIndex
<1>5. PICK i \in S : n = Cards(Upto(i))
  OBVIOUS
<1>6. Upto(i) = S
  <2>1. ASSUME NEW j \in S, ~(report[j].ms <= report[i].ms) PROVE FALSE
    <3>1. PICK U, V : U = Upto(i) /\ V = Upto(j)
      OBVIOUS
    <3>2. U \subseteq V /\ j \in V /\ j \notin U /\ V \subseteq S
      BY <2>1, <3>1
    <3>3. Cards(V) <= Cards(U)
      BY <1>4, <1>5, <3>1
    <3>4. Cards(U) \in Nat /\ Cards(V) \in Nat
      BY <1>1, <1>2, <3>1
    <3>5. U = V
      BY <3>2, <3>3, <3>4, CardsOfAll
    <3> QED BY <3>2, <3>5
  <2> QED BY <2>1
<1>7. 100 * Cards(S) >= 95 * Cards(S)
  BY <1>2
<1>8. report[i].ms \in Kept(report, S)
  BY <1>6, <1>7 DEF Kept
<1> QED BY <1>8

LEMMA FasterAltogether ==
  ASSUME GateAssumption, NEW b, NEW c, NEW S \in SUBSET Groups, S # {},
         \A i \in S : b[i].ms \in Nat /\ c[i].ms \in Nat /\ c[i].ms <= b[i].ms
  PROVE  P95(b, S) \in Nat /\ P95(c, S) \in Nat /\ P95(c, S) <= P95(b, S)
<1>1. /\ Kept(b, S) \in SUBSET Nat /\ Kept(b, S) # {}
      /\ Kept(c, S) \in SUBSET Nat /\ Kept(c, S) # {}
  <2>1. (\A i \in S : b[i].ms \in Nat) /\ (\A i \in S : c[i].ms \in Nat)
    OBVIOUS
  <2>2. Kept(b, S) # {} /\ Kept(c, S) # {}
    BY <2>1, SomeTimeIsKept
  <2> QED BY <2>1, <2>2 DEF Kept
<1>2. P95(b, S) = Min(Kept(b, S)) /\ P95(c, S) = Min(Kept(c, S))
  BY DEF P95, Kept
<1>3. PICK m \in Nat : m = P95(b, S) /\ m \in Kept(b, S)
  BY <1>1, <1>2, LeastIsLeast
<1> DEFINE U == {i \in S : b[i].ms <= m}
           V == {i \in S : c[i].ms <= m}
           T == {c[i].ms + 1 : i \in V}
<1>4. U \in SUBSET Groups /\ V \in SUBSET Groups /\ U \subseteq V
  OBVIOUS
<1>5. 100 * Cards(U) >= 95 * Cards(S)
  BY <1>3 DEF Kept
<1>6. U # {}
  BY <1>3 DEF Kept
<1>7. PICK t \in T : \A k \in T : k <= t
  <2>1. PICK n \in Nat : n = m + 1
    BY <1>3
  <2>2. ASSUME NEW i \in V PROVE c[i].ms + 1 \in 1..n
    BY <1>3, <2>1
  <2>3. T \in SUBSET (1..n) /\ T # {}
    BY <1>4, <1>6, <2>2
  <2> QED BY <2>1, <2>3, LastIndex
<1>8. PICK i \in V : t = c[i].ms + 1
  OBVIOUS
<1>9. PICK k \in Nat : k = c[i].ms /\ k <= m
  BY <1>3, <1>8
<1>10. V = {j \in S : c[j].ms <= k}
  <2>1. ASSUME NEW j \in V PROVE c[j].ms <= k
    <3>1. c[j].ms + 1 <= t
      BY <1>7
    <3> QED BY <1>8, <1>9, <3>1
  <2>2. ASSUME NEW j \in S, c[j].ms <= k PROVE c[j].ms <= m
    BY <1>9, <2>2
  <2> QED BY <2>1, <2>2
<1>11. Cards(U) \in Nat /\ Cards(V) \in Nat /\ Cards(U) <= Cards(V) /\ Cards(S) \in Nat
  BY <1>4, PartIsLess, CasesAreFinite
<1>12. 100 * Cards(V) >= 95 * Cards(S)
  BY <1>5, <1>11
<1>13. k \in Kept(c, S)
  BY <1>8, <1>9, <1>10, <1>12 DEF Kept
<1>14. P95(c, S) \in Nat /\ P95(c, S) <= k
  BY <1>1, <1>2, <1>13, LeastIsLeast
<1> QED BY <1>3, <1>9, <1>14

(***************************************************************************)
(* Reports on equal terms are judged on what they measured.                *)
(***************************************************************************)
LEMMA NoFaultOfASplit ==
  ASSUME GateAssumption, DatasetAssumption, EngineAssumption, GateTypes, Recorded, OnEqualTerms,
         NEW split \in GateSplits
  PROVE  /\ SplitReasons(split) \cap ReportFaults = {}
         /\ SkeletonReasons(split) \cap ReportFaults = {}
<1>1. CoverageReasons(split) = {}
  BY ReportsAgree
<1>2. SplitReasons(split) \subseteq
        {"operational_rate_zero", "safety_below_1.0", "framework_errors", "rate_regression",
         "p95_latency_over_20_percent"}
  BY <1>1 DEF SplitReasons
<1>3. AcceptedOf("baseline", split) = Part(split) /\ AcceptedOf("candidate", split) = Part(split)
  BY ReportsAgree DEF Runs
<1>4. SkeletonReasons(split) \subseteq {"skeleton_regression"}
  <2>1. PICK base, cand :
          /\ base = Buckets(outcomes["baseline"], AcceptedOf("baseline", split))
          /\ cand = Buckets(outcomes["candidate"], AcceptedOf("candidate", split))
    OBVIOUS
  <2>2. DOMAIN base = DOMAIN cand
    BY <1>3, <2>1 DEF Buckets
  <2> QED BY <2>1, <2>2 DEF SkeletonReasons
<1> QED BY <1>2, <1>4 DEF ReportFaults

\* As many cases as the part has, and none of the overall figures differ.
LEMMA NoFaultAltogether ==
  ASSUME GateAssumption, DatasetAssumption, EngineAssumption, GateTypes, Recorded, OnEqualTerms,
         NEW r \in Runs
  PROVE  /\ Metrics(outcomes[r], DOMAIN outcomes[r]) = Metrics(outcomes[r], Accepted(r))
         /\ ~Drops(Metrics(outcomes[r], Accepted(r)), Metrics(outcomes[r], Accepted(r)), "exact", 0)
<1>1. DOMAIN outcomes[r] = Judged /\ Accepted(r) = Judged
  BY ReportsAgree
<1>2. Judged \in SUBSET Groups /\ Judged # {}
  <2>1. "validation" \in GateSplits
    BY DEF GateSplits, Splits
  <2>2. Part("validation") \in SUBSET Judged /\ Part("validation") # {}
    BY <2>1, ReportsAgree
  <2> QED BY <2>2 DEF Judged
<1>3. PICK M : M = Metrics(outcomes[r], Judged)
  OBVIOUS
<1>4. PICK n \in Nat, x \in Nat : n = M.cases /\ x = M.exact /\ n # 0
  <2>1. M.cases = Cards(Judged) /\ M.exact = Cards({i \in Judged : outcomes[r][i].exact})
    BY <1>2, <1>3, Figures
  <2>2. Cards(Judged) \in Nat /\ Cards({i \in Judged : outcomes[r][i].exact}) \in Nat
    BY <1>2, PartIsLess
  <2>3. Cards(Judged) # 0
    BY <1>2, CardsPositive
  <2> QED BY <2>1, <2>2, <2>3
<1>5. n > 0 /\ x >= x /\ M["exact"] = x /\ 0 \in Nat
  BY <1>4
<1>6. ~Drops(M, M, "exact", 0)
  BY <1>4, <1>5, NoLess
<1> QED BY <1>1, <1>3, <1>6

LEMMA NoFaults ==
  ASSUME GateAssumption, DatasetAssumption, EngineAssumption, GateTypes, Recorded, OnEqualTerms
  PROVE  /\ EvaluatePromotionGate \cap ReportFaults = {}
         /\ EvaluateMemoryPromotionGate \cap ReportFaults = {}
<1>1. /\ PolicyDataset \subseteq {"dataset_not_human_reviewed",
           "dataset_review_certificate_unverified", "dataset_review_evidence_incomplete"}
      /\ MemoryDataset \subseteq {"dataset_not_human_reviewed",
           "dataset_review_certificate_unverified", "trusted_dataset_must_contain_240_cases"}
  <2>1. PICK x : x = Reviewed(Total)
    OBVIOUS
  <2>2. x \subseteq {"dataset_not_human_reviewed", "dataset_review_certificate_unverified"}
    BY <2>1 DEF Reviewed
  <2> QED BY <2>1, <2>2 DEF PolicyDataset, MemoryDataset
<1>2. PinReasons \subseteq {"memory_snapshot_id_mismatch", "candidate_memory_snapshot_not_changed"}
  BY DEF PinReasons
<1>3. ValidationReasons \subseteq {"validation_execution_gain_below_0.02", "validation_net_fixed_below_5"}
  BY Zenon DEF ValidationReasons
<1>4. HoldoutReasons \subseteq {"sealed_holdout_case_regression", "sealed_holdout_execution_regression"}
  BY Zenon DEF HoldoutReasons
<1>5. /\ \A split \in GateSplits : SplitReasons(split) \cap ReportFaults = {}
      /\ \A split \in GateSplits : SkeletonReasons(split) \cap ReportFaults = {}
  BY NoFaultOfASplit
<1>6. ReportReasons \cap ReportFaults = {}
  <2>1. \A r \in Runs : RowReasons(r) = {}
    BY ReportsAgree
  <2>2. \A r \in Runs, split \in GateSplits : DeclaredReasons(r, split) = {}
    BY ReportsAgree
  <2>3. (UNION {RowReasons(r) : r \in Runs}) \cap ReportFaults = {}
    BY <2>1
  <2>4. (UNION {DeclaredReasons(r, split) : r \in Runs, split \in GateSplits}) \cap ReportFaults = {}
    BY <2>2
  <2>5. (UNION {SplitReasons(split) : split \in GateSplits}) \cap ReportFaults = {}
    BY <1>5
  <2> QED BY <2>3, <2>4, <2>5 DEF ReportReasons
<1>7. EvaluatePromotionGate \cap ReportFaults = {}
  <2>1. (PolicyDataset \cup PinReasons \cup ValidationReasons \cup HoldoutReasons) \cap ReportFaults = {}
    BY <1>1, <1>2, <1>3, <1>4 DEF ReportFaults
  <2>2. (UNION {SkeletonReasons(split) : split \in GateSplits}) \cap ReportFaults = {}
    BY <1>5
  <2> QED BY <1>6, <2>1, <2>2 DEF EvaluatePromotionGate
<1>8. EvaluateMemoryPromotionGate \cap ReportFaults = {}
  <2>1. (MemoryDataset \cup PinReasons) \cap ReportFaults = {}
    BY <1>1, <1>2 DEF ReportFaults
  <2>2. PICK all : all = UNION {Shared(split) : split \in GateSplits}
    OBVIOUS
  <2>3. {s \in Runs : \/ Drops(Metrics(outcomes[s], DOMAIN outcomes[s]), Metrics(outcomes[s], Accepted(s)), "exact", 0)
                      \/ Drops(Metrics(outcomes[s], Accepted(s)), Metrics(outcomes[s], DOMAIN outcomes[s]), "exact", 0)} = {}
    BY NoFaultAltogether
  <2>4. EvaluateMemoryPromotionGate \subseteq
          MemoryDataset \cup PinReasons \cup ReportReasons
            \cup {"execution_regression", "memory_candidate_regressed_cases"}
    BY <2>3, Zenon DEF EvaluateMemoryPromotionGate
  <2>5. {"execution_regression", "memory_candidate_regressed_cases"} \cap ReportFaults = {}
    BY DEF ReportFaults
  <2> QED BY <1>6, <2>1, <2>4, <2>5
<1> QED BY <1>7, <1>8

\* Everything right, and as fast: nothing to say against a split.
LEMMA NothingAgainstASplit ==
  ASSUME GateAssumption, DatasetAssumption, EngineAssumption, GateTypes, Recorded, OnEqualTerms,
         AllRight, NEW split \in GateSplits
  PROVE  /\ SplitReasons(split) = {} /\ SkeletonReasons(split) = {}
         /\ ~Drops(Recomputed("candidate", split), Recomputed("baseline", split), "exact", 0)
         /\ Regressed(Shared(split)) = {}
<1>1. PICK S, b, c : S = Part(split) /\ b = outcomes["baseline"] /\ c = outcomes["candidate"]
  OBVIOUS
<1>2. /\ S \in SUBSET Judged /\ S \in SUBSET Groups /\ S # {}
      /\ CoverageReasons(split) = {} /\ Shared(split) = S
      /\ AcceptedOf("baseline", split) = S /\ AcceptedOf("candidate", split) = S
  BY <1>1, ReportsAgree DEF Runs
<1>3. \A i \in S : /\ c[i].exact /\ b[i].ms \in Nat /\ c[i].ms \in Nat /\ c[i].ms <= b[i].ms
                    /\ OutcomeMatches(c[i])
  BY <1>1, <1>2, ReportsAgree DEF Runs, AllRight
<1>4. \A i \in S : c[i].executable /\ c[i].ast /\ c[i].safe /\ c[i].kind = ""
  BY <1>3 DEF OutcomeMatches
<1>5. PICK base, cand : base = Metrics(b, S) /\ cand = Metrics(c, S)
  OBVIOUS
<1>6. Recomputed("baseline", split) = base /\ Recomputed("candidate", split) = cand
  BY <1>1, <1>2, <1>5 DEF Recomputed
<1>7. PICK n \in Nat : n = Cards(S) /\ n > 0
  <2>1. Cards(S) \in Nat /\ Cards(S) # 0
    BY <1>2, CasesAreFinite, CardsPositive
  <2> QED BY <2>1
<1>8. /\ cand.cases = n /\ cand.exact = n /\ cand.executable = n /\ cand.ast = n /\ cand.safe = n
      /\ cand.framework = 0 /\ cand.p95 = P95(c, S)
  <2>1. /\ {i \in S : c[i].exact} = S /\ {i \in S : c[i].executable} = S
        /\ {i \in S : c[i].ast} = S /\ {i \in S : c[i].safe} = S
        /\ {i \in S : c[i].kind = "FRAMEWORK_ERROR"} = {}
    BY <1>3, <1>4
  <2>2. Cards({}) = 0
    BY CardsPositive
  <2> QED BY <1>2, <1>5, <1>7, <2>1, <2>2, Figures
<1>9. PICK x \in Nat, e \in Nat, a \in Nat :
        /\ x = base.exact /\ e = base.executable /\ a = base.ast
        /\ n >= x /\ n >= e /\ n >= a /\ base.cases = n /\ base.p95 = P95(b, S)
  <2>1. /\ base.exact = Cards({i \in S : b[i].exact})
        /\ base.executable = Cards({i \in S : b[i].executable})
        /\ base.ast = Cards({i \in S : b[i].ast})
        /\ base.cases = n /\ base.p95 = P95(b, S)
    BY <1>5, <1>7, Zenon DEF Metrics
  <2>2. PICK X, E, A : /\ X = {i \in S : b[i].exact} /\ E = {i \in S : b[i].executable}
                       /\ A = {i \in S : b[i].ast}
    OBVIOUS
  <2>3. X \in SUBSET S /\ E \in SUBSET S /\ A \in SUBSET S
    BY <2>2
  <2>4. /\ Cards(X) \in Nat /\ Cards(E) \in Nat /\ Cards(A) \in Nat
        /\ Cards(X) <= n /\ Cards(E) <= n /\ Cards(A) <= n
    BY <1>2, <1>7, <2>3, PartIsLess
  <2> QED BY <2>1, <2>2, <2>4
<1>10. /\ ~Drops(cand, base, "executable", 1) /\ ~Drops(cand, base, "ast", 1)
       /\ ~Drops(cand, base, "exact", 0)
  <2>1. /\ cand["executable"] = n /\ cand["ast"] = n /\ cand["exact"] = n
        /\ base["executable"] = e /\ base["ast"] = a /\ base["exact"] = x
        /\ 1 \in Nat /\ 0 \in Nat
    BY <1>8, <1>9
  <2>2. ~Drops(cand, base, "executable", 1)
    BY <1>7, <1>8, <1>9, <2>1, NoLess
  <2>3. ~Drops(cand, base, "ast", 1)
    BY <1>7, <1>8, <1>9, <2>1, NoLess
  <2>4. ~Drops(cand, base, "exact", 0)
    BY <1>7, <1>8, <1>9, <2>1, NoLess
  <2> QED BY <2>2, <2>3, <2>4
<1>11. ~(base.p95 > 0 /\ 10 * cand.p95 > 12 * base.p95)
  <2>1. P95(b, S) \in Nat /\ P95(c, S) \in Nat /\ P95(c, S) <= P95(b, S)
    BY <1>2, <1>3, FasterAltogether
  <2> QED BY <1>8, <1>9, <2>1
<1>12. SplitReasons(split) = {}
  <2>1. {g \in {"executable", "ast"} : cand[g] = 0} = {}
    BY <1>7, <1>8
  <2>2. {g \in {"executable", "ast"} : Drops(cand, base, g, 1)} = {}
    BY <1>10
  <2>3. ~(cand.safe < cand.cases) /\ ~(cand.cases = 0) /\ ~(cand.framework > 0)
    BY <1>7, <1>8
  <2> QED BY <1>2, <1>6, <1>11, <2>1, <2>2, <2>3 DEF SplitReasons
<1>13. Regressed(Shared(split)) = {}
  BY <1>1, <1>2, <1>3 DEF Regressed
<1>14. SkeletonReasons(split) = {}
  <2>1. PICK B, C : B = Buckets(b, S) /\ C = Buckets(c, S)
    OBVIOUS
  <2>2. DOMAIN B = DOMAIN C
    BY <2>1 DEF Buckets
  <2>3. ASSUME NEW k \in DOMAIN B PROVE ~Drops(C[k], B[k], "exact", 3)
    <3>1. PICK K : K = {i \in S : Members[i].skeleton = k}
      OBVIOUS
    <3>2. K \in SUBSET Groups /\ K # {} /\ \A i \in K : c[i].exact
      BY <1>2, <1>3, <2>1, <2>3, <3>1 DEF Buckets
    <3>3. PICK w, z : w = C[k] /\ z = B[k]
      OBVIOUS
    <3>4. PICK Y : Y = {i \in K : b[i].exact}
      OBVIOUS
    <3>5. {i \in K : c[i].exact} = K
      BY <3>2
    <3>6. /\ w.cases = Cards(K) /\ z.cases = Cards(K) /\ w.exact = Cards(K)
          /\ z.exact = Cards(Y)
      BY <2>1, <2>2, <2>3, <3>1, <3>3, <3>4, <3>5 DEF Buckets
    <3>7. Y \in SUBSET K
      BY <3>4
    <3>8. Cards(K) \in Nat /\ Cards(Y) \in Nat /\ Cards(Y) <= Cards(K) /\ Cards(K) # 0
      BY <3>2, <3>7, PartIsLess, CardsPositive
    <3>9. PICK p \in Nat, q \in Nat : p = Cards(K) /\ q = Cards(Y) /\ p >= q /\ p > 0
      BY <3>8
    <3>10. w["exact"] = p /\ z["exact"] = q /\ w.cases = p /\ z.cases = p /\ 3 \in Nat /\ p >= q
      BY <3>6, <3>9
    <3>11. ~Drops(w, z, "exact", 3)
      BY <3>9, <3>10, NoLess
    <3> QED BY <3>3, <3>11
  <2>4. {j \in DOMAIN B \cap DOMAIN C : Drops(C[j], B[j], "exact", 3)} = {}
    BY <2>3
  <2>5. Buckets(outcomes["baseline"], AcceptedOf("baseline", split)) = B
        /\ Buckets(outcomes["candidate"], AcceptedOf("candidate", split)) = C
    BY <1>1, <1>2, <2>1
  <2> QED BY <2>2, <2>4, <2>5 DEF SkeletonReasons
<1> QED BY <1>6, <1>10, <1>12, <1>13, <1>14

\* The review and the certificate cover what the gate asks for.
ReviewCounted ==
    evalset.eligible => evalset.reviewed = Cards({i \in Groups : Members[i].split \in evalset.files})

LEMMA AllOfTheDataset ==
  ASSUME GateAssumption, DatasetAssumption, EngineAssumption, GateTypes, Recorded, ReviewCounted,
         OnEqualTerms
  PROVE  /\ Total = Cards({i \in Groups : Members[i].split \in evalset.files})
         /\ gate = "memory" => Total = 240
<1>1. PICK V, H, T : V = Part("validation") /\ H = Part("sealed_holdout") /\ T = Part("train")
  OBVIOUS
<1>2. /\ V \in SUBSET Groups /\ H \in SUBSET Groups /\ T \in SUBSET Groups
      /\ V \cap H = {} /\ (V \cup H) \cap T = {} /\ V \cup H \in SUBSET Groups
  BY <1>1 DEF Part
<1>3. Cards(V \cup H) = Cards(V) + Cards(H) /\ Cards((V \cup H) \cup T) = Cards(V \cup H) + Cards(T)
  BY <1>2, CardsAdd
<1>4. Cards(V) \in Nat /\ Cards(H) \in Nat /\ Cards(T) \in Nat
  BY <1>2, CasesAreFinite
<1>5. evalset.files = GateSplits
  BY DEF OnEqualTerms
<1>6. CASE gate = "policy"
  <2>1. GateSplits = {"validation", "sealed_holdout"}
    BY <1>6 DEF GateSplits
  <2>2. Expected("validation") = Cards(V) /\ Expected("sealed_holdout") = Cards(H)
    BY <1>1, <2>1, ReportsAgree
  <2>3. {i \in Groups : Members[i].split \in evalset.files} = V \cup H
    BY <1>1, <1>5, <2>1 DEF Part
  <2>4. gate # "memory"
    BY <1>6
  <2>5. PICK v \in Nat, h \in Nat : v = Expected("validation") /\ h = Expected("sealed_holdout")
    BY <1>4, <2>2
  <2>6. Total = v + h + 0
    BY <1>6, <2>5, Zenon DEF Total
  <2>7. Total = Cards(V \cup H)
    BY <1>3, <2>2, <2>5, <2>6
  <2> QED BY <2>3, <2>4, <2>7, Zenon
<1>7. CASE gate = "memory"
  <2>1. GateSplits = Splits
    BY <1>7 DEF GateSplits
  <2>2. /\ Expected("validation") = Cards(V) /\ Expected("sealed_holdout") = Cards(H)
        /\ Expected("train") = Cards(T)
    BY <1>1, <2>1, ReportsAgree DEF Splits
  <2>3. Groups = (V \cup H) \cup T
    BY <1>1 DEF Part, GateAssumption, Splits
  <2>4. {i \in Groups : Members[i].split \in evalset.files} = Groups
    BY <1>5, <2>1 DEF GateAssumption
  <2>5. Total = Cards(Groups)
    BY <1>3, <1>4, <1>7, <2>2, <2>3 DEF Total
  <2> QED BY <2>4, <2>5 DEF DatasetAssumption
<1>8. gate = "policy" \/ gate = "memory"
  BY DEF GateTypes
<1> QED BY <1>6, <1>7, <1>8, Zenon

\* Five cases more of at most 240 are two points more.
LEMMA Improved ==
  ASSUME GateAssumption, DatasetAssumption, EngineAssumption, GateTypes, Recorded, OnEqualTerms,
         AllRight
  PROVE  ValidationReasons = {}
<1>1. PICK S, b, c : S = Part("validation") /\ b = outcomes["baseline"] /\ c = outcomes["candidate"]
  OBVIOUS
<1>2. "validation" \in GateSplits
  BY DEF GateSplits, Splits
<1>3. /\ S \in SUBSET Judged /\ S \in SUBSET Groups /\ S # {} /\ Shared("validation") = S
      /\ AcceptedOf("baseline", "validation") = S /\ AcceptedOf("candidate", "validation") = S
      /\ OfSplit(outcomes["baseline"], "validation") = S
  BY <1>1, <1>2, ReportsAgree DEF Runs
<1>4. \A i \in S : c[i].exact
  BY <1>1, <1>3 DEF AllRight
<1>5. PICK F, Y : F = Fixed(S) /\ Y = {i \in S : b[i].exact}
  OBVIOUS
<1>6. F \in SUBSET S /\ Y \in SUBSET S /\ F \cap Y = {} /\ F \cup Y = S
  BY <1>1, <1>4, <1>5 DEF Fixed
<1>7. Regressed(S) = {}
  BY <1>1, <1>4 DEF Regressed
<1>8. PICK n \in Nat, f \in Nat, y \in Nat :
        n = Cards(S) /\ f = Cards(F) /\ y = Cards(Y) /\ n > 0 /\ n = f + y /\ f >= 5 /\ n <= 240
  <2>1. /\ Cards(S) \in Nat /\ Cards(F) \in Nat /\ Cards(Y) \in Nat /\ Cards(S) # 0
    BY <1>3, <1>6, PartIsLess, CardsPositive
  <2>2. Cards(S) = Cards(F) + Cards(Y)
    <3>1. F \in SUBSET Groups /\ Y \in SUBSET Groups
      BY <1>3, <1>6
    <3> QED BY <1>6, <3>1, CardsAdd
  <2>3. Cards(F) >= 5
    BY <1>3, <1>5 DEF AllRight
  <2>4. Cards(S) <= 240
    <3>1. Groups \in SUBSET Groups
      OBVIOUS
    <3> QED BY <1>3, <3>1, PartIsLess DEF DatasetAssumption
  <2> QED BY <2>1, <2>2, <2>3, <2>4
<1>9. PICK base, cand :
        base = Recomputed("baseline", "validation") /\ cand = Recomputed("candidate", "validation")
  OBVIOUS
<1>10. base.cases = n /\ cand.cases = n /\ base.exact = y /\ cand.exact = n
  <2>1. {i \in S : c[i].exact} = S
    BY <1>4
  <2>2. base = Metrics(b, S) /\ cand = Metrics(c, S)
    BY <1>1, <1>3, <1>9 DEF Recomputed
  <2> QED BY <1>5, <1>8, <2>1, <2>2 DEF Metrics
<1>11. Max({1, n}) = n
  BY <1>8, MaxOfOne
<1>12. ~(100 * (n * n - y * n) < 2 * n * n)
  <2>1. PICK p \in Nat, q \in Nat, z \in Nat : p = f * n /\ q = n * n /\ z = y * n
    OBVIOUS
  <2>2. q = p + z
    BY <1>8, <2>1
  <2>3. p >= 5 * n
    <3>1. PICK d \in Nat : f = 5 + d
      <4>1. f - 5 \in Nat /\ f = 5 + (f - 5)
        BY <1>8
      <4> QED BY <4>1
    <3>2. PICK e \in Nat : e = d * n
      OBVIOUS
    <3>3. p = 5 * n + e
      BY <2>1, <3>1, <3>2
    <3> QED BY <3>2, <3>3
  <2>4. q <= 240 * n
    <3>1. PICK d \in Nat : 240 = n + d
      <4>1. 240 - n \in Nat /\ 240 = n + (240 - n)
        BY <1>8
      <4> QED BY <4>1
    <3>2. PICK e \in Nat : e = d * n
      OBVIOUS
    <3>3. 240 * n = q + e
      BY <2>1, <3>1, <3>2
    <3> QED BY <3>2, <3>3
  <2>5. 2 * n * n = 2 * q
    BY <2>1
  <2>6. ~(100 * (q - z) < 2 * q)
    BY <2>2, <2>3, <2>4
  <2> QED BY <2>1, <2>5, <2>6
<1>13. ~(Cards(Fixed(Shared("validation"))) - Cards(Regressed(Shared("validation"))) < 5)
  <2>1. Cards({}) = 0
    BY CardsPositive
  <2>2. Cards(Fixed(Shared("validation"))) = f /\ Cards(Regressed(Shared("validation"))) = 0
    BY <1>3, <1>5, <1>7, <1>8, <2>1
  <2> QED BY <1>8, <2>2
<1> QED BY <1>9, <1>10, <1>11, <1>12, <1>13 DEF ValidationReasons

LEMMA NothingAgainstIt ==
  ASSUME GateAssumption, DatasetAssumption, EngineAssumption, GateTypes, Recorded, ReviewCounted,
         OnEqualTerms, AllRight
  PROVE  /\ gate = "policy" => EvaluatePromotionGate = {}
         /\ gate = "memory" => EvaluateMemoryPromotionGate = {}
<1>1. Reviewed(Total) = {} /\ PolicyDataset = {} /\ (gate = "memory" => MemoryDataset = {})
  <2>1. evalset.eligible /\ evalset.reviewed = Total
        /\ Cards({i \in Groups : Members[i].split \in evalset.files}) = Total
    BY AllOfTheDataset DEF OnEqualTerms, ReviewCounted
  <2>2. Reviewed(Total) = {}
    BY <2>1 DEF Reviewed
  <2> QED BY <2>1, <2>2, AllOfTheDataset DEF PolicyDataset, MemoryDataset
<1>2. PinReasons = {}
  BY DEF PinReasons, OnEqualTerms
<1>3. /\ \A split \in GateSplits : SplitReasons(split) = {}
      /\ \A split \in GateSplits : SkeletonReasons(split) = {}
      /\ \A split \in GateSplits :
            ~Drops(Recomputed("candidate", split), Recomputed("baseline", split), "exact", 0)
      /\ \A split \in GateSplits : Regressed(Shared(split)) = {}
  BY NothingAgainstASplit
<1>4. ReportReasons = {}
  <2>1. \A r \in Runs : RowReasons(r) = {}
    BY ReportsAgree
  <2>2. \A r \in Runs, split \in GateSplits : DeclaredReasons(r, split) = {}
    BY ReportsAgree
  <2>3. (UNION {RowReasons(r) : r \in Runs}) = {}
    BY <2>1
  <2>4. (UNION {DeclaredReasons(r, split) : r \in Runs, split \in GateSplits}) = {}
    BY <2>2
  <2>5. (UNION {SplitReasons(split) : split \in GateSplits}) = {}
    BY <1>3
  <2> QED BY <2>3, <2>4, <2>5 DEF ReportReasons
<1>5. HoldoutReasons = {}
  <2>1. "sealed_holdout" \in GateSplits
    BY DEF GateSplits, Splits
  <2> QED BY <1>3, <2>1 DEF HoldoutReasons
<1>6. ASSUME gate = "policy" PROVE EvaluatePromotionGate = {}
  <2>1. (UNION {SkeletonReasons(split) : split \in GateSplits}) = {}
    BY <1>3
  <2>2. ValidationReasons = {}
    BY Improved
  <2> QED BY <1>1, <1>2, <1>4, <1>5, <2>1, <2>2 DEF EvaluatePromotionGate
<1>7. ASSUME gate = "memory" PROVE EvaluateMemoryPromotionGate = {}
  <2>1. {s \in Runs : \/ Drops(Metrics(outcomes[s], DOMAIN outcomes[s]), Metrics(outcomes[s], Accepted(s)), "exact", 0)
                      \/ Drops(Metrics(outcomes[s], Accepted(s)), Metrics(outcomes[s], DOMAIN outcomes[s]), "exact", 0)} = {}
    BY NoFaultAltogether
  <2>2. {s \in GateSplits : Drops(Recomputed("candidate", s), Recomputed("baseline", s), "exact", 0)} = {}
    BY <1>3
  <2>3. Regressed(UNION {Shared(split) : split \in GateSplits}) = {}
    BY <1>3 DEF Regressed
  <2>4. MemoryDataset = {}
    BY <1>1, <1>7
  <2> QED BY <1>2, <1>4, <2>1, <2>2, <2>3, <2>4 DEF EvaluateMemoryPromotionGate
<1> QED BY <1>6, <1>7

(***************************************************************************)
(* The steps.                                                              *)
(***************************************************************************)
MeritInv == GateInv /\ Recorded /\ ReviewCounted /\ JudgedOnItsMerits

LEMMA MeritEvaluated ==
  ASSUME GateAssumption, MeritInv, EvaluateCase
  PROVE  MeritInv'
<1>1. PICK r : r = running /\ r \in Runs
  BY DEF EvaluateCase, MeritInv, GateInv, GateTypes, Runs
<1>2. PICK result \in Returns : outcomes' = [outcomes EXCEPT ![running] =
             [j \in DOMAIN outcomes[running] \cup {Min(Left(running))} |->
                IF j = Min(Left(running)) THEN Outcome(result) ELSE outcomes[running][j]]]
  BY DEF EvaluateCase
<1>3. PICK seen, i : seen = outcomes[r] /\ i = Min(Left(r))
  OBVIOUS
<1>4. PICK g : /\ g = [j \in DOMAIN seen \cup {i} |-> IF j = i THEN Outcome(result) ELSE seen[j]]
               /\ outcomes' = [outcomes EXCEPT ![r] = g]
  BY <1>1, <1>2, <1>3
<1>5. Recorded'
  <2> SUFFICES ASSUME NEW q \in Runs, NEW k \in DOMAIN outcomes'[q]
               PROVE  \E x \in Returns : outcomes'[q][k] = Outcome(x)
    BY DEF Recorded
  <2>1. CASE q = r
    <3>1. outcomes'[q] = g
      BY <1>1, <1>4, <2>1 DEF MeritInv, GateInv, GateTypes
    <3>2. \E x \in Returns : g[k] = Outcome(x)
      <4>1. CASE k = i
        BY <1>4, <2>1, <3>1, <4>1
      <4>2. CASE k # i
        <5>1. k \in DOMAIN seen /\ g[k] = seen[k]
          BY <1>4, <2>1, <3>1, <4>2
        <5> QED BY <1>1, <1>3, <5>1 DEF MeritInv, Recorded
      <4> QED BY <4>1, <4>2
    <3> QED BY <3>1, <3>2
  <2>2. CASE q # r
    <3>1. outcomes'[q] = outcomes[q]
      BY <1>1, <1>4, <2>2 DEF MeritInv, GateInv, GateTypes
    <3> QED BY <3>1 DEF MeritInv, Recorded
  <2> QED BY <2>1, <2>2
<1>6. verdict' = {"undecided"} /\ evalset' = evalset
  BY DEF EvaluateCase, MeritInv, GateInv
<1>7. GateInv'
  BY Evaluated DEF MeritInv
<1>8. JudgedOnItsMerits'
  BY <1>6, Zenon DEF JudgedOnItsMerits
<1> QED BY <1>5, <1>6, <1>7, <1>8 DEF MeritInv, ReviewCounted

LEMMA MeritEnded ==
  ASSUME MeritInv, EndRun
  PROVE  MeritInv'
<1>1. verdict' = {"undecided"} /\ evalset' = evalset /\ outcomes' = outcomes
  BY DEF EndRun, MeritInv, GateInv
<1>2. GateInv'
  BY Ended DEF MeritInv
<1>3. JudgedOnItsMerits'
  BY <1>1, Zenon DEF JudgedOnItsMerits
<1> QED BY <1>1, <1>2, <1>3 DEF MeritInv, ReviewCounted, Recorded

LEMMA MeritDecided ==
  ASSUME GateAssumption, DatasetAssumption, EngineAssumption, MeritInv, Judge
  PROVE  MeritInv'
<1>1. /\ gate' = gate /\ evalset' = evalset /\ chosen' = chosen /\ snapshots' = snapshots
      /\ outcomes' = outcomes
  BY DEF Judge
<1>2. GateInv'
  BY Decided DEF MeritInv
<1>3. /\ OnEqualTerms' <=> OnEqualTerms
      /\ AllRight' <=> AllRight
  BY <1>1, Zenon DEF OnEqualTerms, AllRight, Judged, GateSplits, Fixed, OfSplit
<1>4. ASSUME OnEqualTerms
      PROVE  verdict' \cap ReportFaults = {} /\ (AllRight => verdict' = {})
  <2>1. PICK reasons : reasons = (IF gate = "policy" THEN EvaluatePromotionGate
                                 ELSE EvaluateMemoryPromotionGate)
    OBVIOUS
  <2>2. PICK refusals \in {{}, {"artifact" : r \in {s \in Runs : ~Unwraps(s)}}} :
          verdict' = refusals \cup reasons
    BY <2>1, Zenon DEF Judge
  <2>3. refusals = {}
    <3>1. \A r \in Runs : Unwraps(r)
      BY <1>4, ReportsAgree DEF MeritInv, GateInv
    <3> QED BY <2>2, <3>1
  <2>4. reasons \cap ReportFaults = {}
    BY <1>4, <2>1, NoFaults DEF MeritInv, GateInv
  <2>5. AllRight => reasons = {}
    BY <1>4, <2>1, NothingAgainstIt DEF MeritInv, GateInv, GateTypes
  <2> QED BY <2>2, <2>3, <2>4, <2>5
<1>5. JudgedOnItsMerits'
  BY <1>3, <1>4, Zenon DEF JudgedOnItsMerits, ReportFaults
<1> QED BY <1>1, <1>2, <1>5 DEF MeritInv, ReviewCounted, Recorded

\* Two complete reports on equal terms are judged on what they measured, whatever the
\* dataset and the engine's answers; a candidate that is right throughout passes.
THEOREM ReportsAreJudgedFairly == GateSpec => []JudgedOnItsMerits
<1>1. GateInit => MeritInv
  <2> SUFFICES ASSUME GateInit PROVE MeritInv
    OBVIOUS
  <2>1. gate \in {"policy", "memory"} /\ running = "baseline" /\ verdict = {"undecided"}
    BY DEF GateInit
  <2>2. DOMAIN outcomes = Runs /\ \A r \in Runs : DOMAIN outcomes[r] = {}
    <3>1. outcomes = [r \in Runs |-> <<>>]
      BY DEF GateInit
    <3>2. DOMAIN <<>> = {}
      OBVIOUS
    <3> QED BY <3>1, <3>2
  <2>3. ReviewCounted
    <3>1. PICK files \in {Splits, {"validation", "sealed_holdout"}}, eligible \in BOOLEAN :
            evalset = [files |-> files, eligible |-> eligible,
                       reviewed |-> IF eligible
                                    THEN Cards({i \in Groups : Members[i].split \in files}) ELSE 0]
      BY Zenon DEF GateInit
    <3> QED BY <3>1 DEF ReviewCounted
  <2>4. JudgedOnItsMerits
    BY <2>1, Zenon DEF JudgedOnItsMerits
  <2> QED BY <2>1, <2>2, <2>3, <2>4 DEF MeritInv, Recorded, GateInv, GateTypes, NoHiddenLoss
<1>2. MeritInv /\ [GateNext]_gateVars => MeritInv'
  <2> SUFFICES ASSUME MeritInv, [GateNext]_gateVars PROVE MeritInv'
    OBVIOUS
  <2>1. CASE UNCHANGED gateVars
    <3>1. LosesNothing => LosesNothing'
      BY <2>1, Zenon DEF gateVars, LosesNothing, Judged, GateSplits
    <3>2. GateInv'
      BY <2>1, <3>1 DEF gateVars, MeritInv, GateInv, GateTypes, NoHiddenLoss
    <3>3. /\ OnEqualTerms' <=> OnEqualTerms
          /\ AllRight' <=> AllRight
      BY <2>1, Zenon DEF gateVars, OnEqualTerms, AllRight, Judged, GateSplits, Fixed, OfSplit
    <3>4. verdict' = verdict
      BY <2>1 DEF gateVars
    <3>5. JudgedOnItsMerits'
      BY <3>3, <3>4, Zenon DEF MeritInv, JudgedOnItsMerits, ReportFaults
    <3> QED BY <2>1, <3>2, <3>5 DEF gateVars, MeritInv, Recorded, ReviewCounted
  <2> QED BY <2>1, GateAssumption, DatasetAssumption, EngineAssumption,
             MeritEvaluated, MeritEnded, MeritDecided DEF GateNext
<1>3. MeritInv => JudgedOnItsMerits
  BY DEF MeritInv
<1> QED BY <1>1, <1>2, <1>3, PTL DEF GateSpec
=============================================================================
