--------------------------- MODULE ExperienceLineage ---------------------------
(***************************************************************************)
(* From what went wrong in a query run to the prompt of a role: an          *)
(* Experience is extracted from a terminal run, a person or the automatic   *)
(* gate confirms it, an LLM words a SemanticRule from its evidence, another *)
(* LLM call compiles confirmed rules into the prompt of one role of a new   *)
(* Policy, the source cases are replayed, the Policy is evaluated, and it   *)
(* becomes active.                                                         *)
(*                                                                         *)
(* Evidence is read before an LLM call, a replay or an evaluation and used  *)
(* when it returns, which may be hours later; meanwhile users judge the     *)
(* source runs again, reviewers decide, indexes are rebuilt and other       *)
(* Policies are activated.  The automatic command keeps nothing but the     *)
(* rows it wrote: it may be killed anywhere, and is simply run again.       *)
(*                                                                         *)
(* A call into the store that only adds a row, or whose UPDATE repeats the  *)
(* condition it has checked, is one step here.  The calls that move the     *)
(* status of a Policy or the active one are not: they check in autocommit   *)
(* mode and write later, whatever has changed, so their checks and their    *)
(* writes are steps of their own, and the process may die between them.     *)
(***************************************************************************)
EXTENDS Integers, FiniteSets, TLC

CONSTANTS
    Experiences,  \* memory ids of ExperienceMemory/v1 rows
    Repairs,      \* those extracted from a repair of SQL by the gates
    Corrections,  \* those extracted from feedback; the rest, from a revision of the plan
    Inherited,    \* memories an older store compiled into the Policy it starts with
    Skills,       \* roles a Policy has a prompt for
    SkillOf,      \* Experience or inherited memory -> target_agent
    Tasks,        \* query runs
    TaskOf,       \* Experience -> source_task_id
    Words,        \* what the LLM may make of the evidence
    Texts, Text0, \* prompt fragments, and the one of the baseline
    Automatic,    \* the process of auto-prepare
    People,       \* processes that people start
    NoVersion,
    MaxDecisions, \* bound of the human decisions on one run
    Contract,     \* the contract of the Policy a store starts with
    Movable,      \* what moves meanwhile: the indexes, the served memory
    MaxMoves,     \* bound of its moves
    MaxPolicies,  \* bound of the rows that a proposal may leave
    ByHand,       \* roles that people write prompts for (a bound)
    MaxByHand     \* bound of the Policies that people write

ASSUME LineageAssumption ==
    /\ Repairs \subseteq Experiences /\ Corrections \subseteq Experiences \ Repairs
    /\ Inherited \cap Experiences = {} /\ SkillOf \in [Experiences \cup Inherited -> Skills]
    /\ TaskOf \in [Experiences -> Tasks] /\ Text0 \in Texts
    /\ Automatic \notin People /\ MaxDecisions \in Nat /\ MaxMoves \in Nat
    /\ ByHand \subseteq Skills /\ MaxPolicies \in Nat /\ MaxByHand \in Nat
    /\ Contract \in {"v1", "v2"} /\ Movable \subseteq {"index", "memory"}
    /\ Skills \cap {"bootstrap", "contract-migration"} = {}

VARIABLES
    decisions,  \* task -> how many human rows of query_decisions it has
    exps,       \* Experience -> its row of memory_items
    rules,      \* SemanticRule -> its row of semantic_rules
    policies,   \* version -> its row of policy_versions, if any, and what was recorded of it
    active,     \* evolution_metadata.active_policy_version
    inputs,     \* the pins a process finds: the indexes, and the served memory
    frame       \* process -> what it holds between two of its steps

vars == <<decisions, exps, rules, policies, active, inputs, frame>>

(***************************************************************************)
(* Rows.  Rules and Policies are content-addressed: their identity is what  *)
(* is hashed into it.                                                      *)
(***************************************************************************)
Processes == People \cup {Automatic}

Pins == [index : 0..MaxMoves, memory : 0..MaxMoves]

ExperienceType ==
    [state : {"absent", "candidate", "needs_evidence", "confirmed", "rejected"},
     index : 0..MaxMoves]                  \* the index the source run had

RuleIds == [exp : Experiences, words : Words, evidence : 0..MaxDecisions]

RuleStates == {"absent", "candidate", "confirmed", "rejected"}

Baseline(contract) == [contract |-> contract, prompts |-> [k \in Skills |-> Text0]]

Versions == [contract : {"v2"}, prompts : [Skills -> Texts]] \cup {Baseline("v1")}

\* What a replay or an evaluation left: the pins it passed with, if it passed.
Failed == [index |-> -1, memory |-> -1]
ResultType == Pins \cup {Failed}

Memories == Experiences \cup Inherited

PolicyType ==
    [status : {"candidate", "evaluated", "shadow_ready", "shadow_running",
               "canary_passed", "shadow_rejected", "approved", "retired"},
     parent : Versions \cup {NoVersion},
     skill : Skills \cup {"bootstrap", "contract-migration"},
     required : BOOLEAN,                   \* target_replay_required
     sources : SUBSET Experiences,         \* memory_ids
     compiled : SUBSET Memories,           \* compiled_memory_ids
     rules : SUBSET RuleIds,               \* policy_semantic_rule_sources
     auto : BOOLEAN,                       \* proposed by the automatic command
     replay : ResultType,                  \* its latest row of policy_target_replays
     evaluation : ResultType,              \* its latest row of evolution_runs
     release : ResultType,                 \* the pins of its row of shadow_deployments
     raced : BOOLEAN]   \* ever replayed between the check and the write of an activation

Idle == [op |-> "idle"]

FrameType ==
    {Idle}
      \cup [op : {"word"}, exp : Experiences, evidence : 0..MaxDecisions]
      \cup [op : {"admit", "admitted"}, rule : RuleIds]
      \cup [op : {"migrate"}, rule : RuleIds, previous : Versions, found : BOOLEAN]
      \cup [op : {"compile"}, sources : SUBSET Experiences, rules : SUBSET RuleIds,
            parent : {v \in Versions : v.contract = "v2"}]
      \cup [op : {"replay", "evaluate", "shadow"}, version : Versions, pins : Pins]
      \cup [op : {"switch"}, version : Versions, previous : Versions, pins : Pins,
            seen : [Tasks -> 0..MaxDecisions]]   \* the decisions there were at the check
      \cup [op : {"rollback"}, version : Versions, previous : Versions]

Bootstrap ==
    [status |-> "approved", parent |-> NoVersion, skill |-> "bootstrap",
     required |-> FALSE, sources |-> {}, compiled |-> Inherited, rules |-> {},
     auto |-> FALSE, replay |-> Failed, evaluation |-> Failed,
     release |-> Failed, raced |-> FALSE]

Init ==
    /\ decisions = [t \in Tasks |-> 0]
    /\ exps = [e \in Experiences |-> [state |-> "absent", index |-> 0]]
    /\ rules = [r \in RuleIds |-> "absent"]
    /\ active = Baseline(Contract) /\ policies = [v \in {active} |-> Bootstrap]
    /\ inputs = [index |-> 0, memory |-> 0]
    /\ frame = [p \in Processes |-> Idle]

Exists(v) == v \in DOMAIN policies
Proposals == {v \in DOMAIN policies : policies[v].skill \in Skills}
Status(v) == policies[v].status

(***************************************************************************)
(* What the source runs say, and the Experiences extracted from them.      *)
(***************************************************************************)
\* A user or a reviewer judges the answer of a run: feedback comes at any time and again.
HumanDecides(t) ==
    /\ decisions[t] < MaxDecisions
    /\ decisions' = [decisions EXCEPT ![t] = @ + 1]
    /\ UNCHANGED <<exps, rules, policies, active, inputs, frame>>

\* Extraction finds the same Experience again when it is repeated: one row, its state kept.
AddExperience(e) ==
    /\ exps[e].state = "absent"
    /\ e \in Corrections => decisions[TaskOf[e]] > 0
    /\ \E s \in {"candidate", "needs_evidence"} :
          exps' = [exps EXCEPT ![e] = [state |-> s, index |-> inputs.index]]
    /\ UNCHANGED <<decisions, rules, policies, active, inputs, frame>>

ReviewExperience(e) ==
    /\ exps[e].state = "candidate"
    /\ \E s \in {"confirmed", "rejected", "needs_evidence"} :
          exps' = [exps EXCEPT ![e].state = s]
    /\ UNCHANGED <<decisions, rules, policies, active, inputs, frame>>

\* The packet an LLM is shown has the human decisions of the run; that of a SQL repair not.
Evidence(e) == IF e \in Repairs THEN 0 ELSE decisions[TaskOf[e]]

HasEvidence(e) == exps[e].state = "confirmed"

(***************************************************************************)
(* SemanticRules.                                                          *)
(***************************************************************************)
EvidenceStands(r) == HasEvidence(r.exp) /\ Evidence(r.exp) = r.evidence

RuleStands(r) == rules[r] = "confirmed" /\ EvidenceStands(r)

\* generate_semantic_rule: evidence first, then the LLM.
StartRule(p, e) ==
    /\ p \in People /\ frame[p] = Idle /\ HasEvidence(e)
    /\ frame' = [frame EXCEPT ![p] = [op |-> "word", exp |-> e, evidence |-> Evidence(e)]]
    /\ UNCHANGED <<decisions, exps, rules, policies, active, inputs>>

NewRule(p, words) == [exp |-> frame[p].exp, words |-> words, evidence |-> frame[p].evidence]

\* The answer of the LLM: INSERT OR IGNORE, if the evidence is still what it was shown.
AddRule(p) ==
    /\ frame[p].op = "word" /\ Evidence(frame[p].exp) = frame[p].evidence
    /\ \E w \in Words :
          /\ rules' = [rules EXCEPT ![NewRule(p, w)] =
                         IF @ = "absent" THEN "candidate" ELSE @]
          /\ frame' = [frame EXCEPT ![p] =
                         IF p = Automatic THEN [op |-> "admit", rule |-> NewRule(p, w)]
                                          ELSE Idle]
    /\ UNCHANGED <<decisions, exps, policies, active, inputs>>

ReviewRule(r) ==
    /\ rules[r] = "candidate"
    /\ \/ EvidenceStands(r) /\ rules' = [rules EXCEPT ![r] = "confirmed"]
       \/ rules' = [rules EXCEPT ![r] = "rejected"]
    /\ UNCHANGED <<decisions, exps, policies, active, inputs, frame>>

(***************************************************************************)
(* Policies: lineage, compilation and migration.                           *)
(***************************************************************************)
\* policy_source_memory_ids: a migrated row names none of its own and has its parent's.
SourcesOf(v) ==
    IF policies[v].skill = "contract-migration" THEN policies[policies[v].parent].compiled
                                                ELSE policies[v].compiled

\* Mutant of Compiled: the new prompt is credited with what the former one came from.
CompiledOnTop(parent, skill, sources) == SourcesOf(parent) \cup sources

\* A new prompt of a role drops what the former one came from.
Compiled(parent, skill, sources) ==
    {e \in SourcesOf(parent) : SkillOf[e] # skill} \cup sources

\* Mutant of LineageHolds: the rules of a Policy were checked when it was proposed.
LineageOfExperiences(v) ==
    /\ policies[v].required
    /\ policies[v].sources # {} /\ policies[v].sources \subseteq SourcesOf(v)

\* validate_experience_policy_lineage
LineageHolds(v) ==
    /\ policies[v].required
    /\ policies[v].sources # {} /\ policies[v].sources \subseteq SourcesOf(v)
    /\ \A r \in policies[v].rules : RuleStands(r)

\* require_single_skill_change: another text for one role, in the contract of today.
Changed(parent, skill, text) ==
    [contract |-> "v2", prompts |-> [parent.prompts EXCEPT ![skill] = text]]

\* propose_policy; a Policy that exists, in whatever state, cannot be proposed again.
NewPolicy(v, parent, skill, required, sources, rs, auto) ==
    /\ ~Exists(v) /\ v.prompts # parent.prompts
    /\ Cardinality(DOMAIN policies) < MaxPolicies
    /\ policies' = [x \in DOMAIN policies \cup {v} |->
          IF x # v THEN policies[x]
          ELSE [Bootstrap EXCEPT
                  !.status = "candidate", !.parent = parent, !.skill = skill,
                  !.required = required, !.sources = sources,
                  !.compiled = Compiled(parent, skill, sources),
                  !.rules = rs, !.auto = auto]]

\* A person writes a prompt: no Experience, no target replay.  (On what is active, which is
\* the default of the command: a bound.)
Propose(k, text) ==
    /\ Cardinality({v \in Proposals : ~policies[v].required}) < MaxByHand
    /\ NewPolicy(Changed(active, k, text), active, k, FALSE, {}, {}, FALSE)
    /\ UNCHANGED <<decisions, exps, rules, active, inputs, frame>>

CompileFrame(sources, rs, parent) ==
    [op |-> "compile", sources |-> sources, rules |-> rs, parent |-> parent]

\* policy-from-rules, and auto-propose without rules.  The generator refuses a v1 parent.
StartCompile(p, sources, rs) ==
    /\ p \in People /\ frame[p] = Idle /\ active.contract = "v2"
    /\ sources # {} /\ \A e, f \in sources : SkillOf[e] = SkillOf[f]
    /\ \A e \in sources : HasEvidence(e)
    /\ rs # {} => {r.exp : r \in rs} = sources /\ \A r \in rs : RuleStands(r)
    /\ frame' = [frame EXCEPT ![p] = CompileFrame(sources, rs, active)]
    /\ UNCHANGED <<decisions, exps, rules, policies, active, inputs>>

\* The LLM's prompt.  The rules must stand again; the parent may be active no longer.
EndCompile(p) ==
    LET f == frame[p] IN
    /\ f.op = "compile" /\ \A r \in f.rules : RuleStands(r)
    /\ \E e \in f.sources, text \in Texts :
          NewPolicy(Changed(f.parent, SkillOf[e], text), f.parent, SkillOf[e], TRUE,
                    f.sources, f.rules, p = Automatic)
    /\ frame' = [frame EXCEPT ![p] = Idle]
    /\ UNCHANGED <<decisions, exps, rules, active, inputs>>

\* The LLM declines or fails, the store refuses its answer, or the process is killed.
GiveUp(p) ==
    /\ frame[p] # Idle /\ frame' = [frame EXCEPT ![p] = Idle]
    /\ UNCHANGED <<decisions, exps, rules, policies, active, inputs>>

(***************************************************************************)
(* The automatic command: admit, word a rule, confirm it, migrate, compile. *)
(***************************************************************************)
Alive(e) == {r \in RuleIds : r.exp = e /\ rules[r] \in {"candidate", "confirmed"}}

\* _existing_rule_for_memory: a confirmed rule before a candidate (the newest, in the code).
ReusableRules(e) ==
    LET confirmed == {r \in Alive(e) : rules[r] = "confirmed"}
    IN  IF confirmed # {} THEN confirmed ELSE Alive(e)

\* confirm_machine_verifiable_experience, then a rule it may reuse, or the evidence for one.
AutoAdmit(e) ==
    /\ frame[Automatic] = Idle /\ exps[e].state \in {"candidate", "confirmed"}
    /\ exps' = [exps EXCEPT ![e].state = "confirmed"]
    /\ \/ \E r \in ReusableRules(e) :
             frame' = [frame EXCEPT ![Automatic] = [op |-> "admit", rule |-> r]]
       \/ /\ ReusableRules(e) = {}
          /\ frame' = [frame EXCEPT ![Automatic] =
                         [op |-> "word", exp |-> e, evidence |-> Evidence(e)]]
    /\ UNCHANGED <<decisions, rules, policies, active, inputs>>

\* review_semantic_rule confirms a candidate on its evidence; a rule somebody rejected stops
\* the command.
AutoConfirm ==
    LET r == frame[Automatic].rule IN
    /\ frame[Automatic].op = "admit"
    /\ \/ rules[r] = "candidate" /\ EvidenceStands(r)
       \/ rules[r] = "confirmed"
    /\ rules' = [rules EXCEPT ![r] = "confirmed"]
    /\ frame' = [frame EXCEPT ![Automatic].op = "admitted"]
    /\ UNCHANGED <<decisions, exps, policies, active, inputs>>

Migrated(v) == [contract |-> "v2", prompts |-> v.prompts]

\* ensure_current_policy_contract checks: the active Policy, and the row it may reuse.
StartMigration ==
    /\ frame[Automatic].op = "admitted" /\ active.contract = "v1"
    /\ Exists(Migrated(active)) => Status(Migrated(active)) \in {"approved", "retired"}
    /\ frame' = [frame EXCEPT ![Automatic] =
                   [op |-> "migrate", rule |-> frame[Automatic].rule, previous |-> active,
                    found |-> Exists(Migrated(active))]]
    /\ UNCHANGED <<decisions, exps, rules, policies, active, inputs>>

\* Its transaction: the same prompts under the contract of today, whatever is active now;
\* but a row it did not find cannot be inserted when somebody proposed it meanwhile.
EndMigration ==
    LET f == frame[Automatic]
        v == Migrated(f.previous) IN
    /\ f.op = "migrate" /\ f.found = Exists(v)
    /\ policies' = [x \in DOMAIN policies \cup {v} |->
          CASE x = v /\ Exists(v) -> [policies[x] EXCEPT !.status = "approved"]
            [] x = v /\ ~Exists(v) ->
                 [Bootstrap EXCEPT !.parent = f.previous, !.skill = "contract-migration",
                                   !.compiled = {}]
            [] x = f.previous -> [policies[x] EXCEPT !.status = "retired"]
            [] OTHER -> policies[x]]
    /\ active' = v
    /\ frame' = [frame EXCEPT ![Automatic] = [op |-> "admitted", rule |-> f.rule]]
    /\ UNCHANGED <<decisions, exps, rules, inputs>>

\* Mutant of PoliciesWith: what is past its evaluation is not looked at.
CandidatesWith(r) ==
    {v \in DOMAIN policies : r \in policies[v].rules /\ Status(v) = "candidate"}

\* _existing_policy_for_rule, whatever its status.
PoliciesWith(r) == {v \in DOMAIN policies : r \in policies[v].rules}

\* A Policy that has the rule is reported again; else it is compiled on what is active.
AutoCompile ==
    LET r == frame[Automatic].rule IN
    /\ frame[Automatic].op = "admitted" /\ active.contract = "v2"
    /\ frame' = [frame EXCEPT ![Automatic] =
                   IF PoliciesWith(r) # {} \/ ~EvidenceStands(r) THEN Idle
                   ELSE CompileFrame({r.exp}, {r}, active)]
    /\ UNCHANGED <<decisions, exps, rules, policies, active, inputs>>

(***************************************************************************)
(* Target replay and evaluation.                                           *)
(***************************************************************************)
\* The script replays a candidate on the index its sources had.
StartReplay(p, v) ==
    /\ p \in People /\ frame[p] = Idle
    /\ Exists(v) /\ Status(v) = "candidate" /\ LineageHolds(v)
    /\ \A e \in policies[v].sources : HasEvidence(e) /\ exps[e].index = inputs.index
    /\ frame' = [frame EXCEPT ![p] = [op |-> "replay", version |-> v, pins |-> inputs]]
    /\ UNCHANGED <<decisions, exps, rules, policies, active, inputs>>

\* record_target_replay: by now the candidate may have been evaluated.
EndReplay(p) ==
    LET v == frame[p].version IN
    /\ frame[p].op = "replay"
    /\ Status(v) \in {"candidate", "evaluated", "shadow_ready"} /\ LineageHolds(v)
    /\ \E passed \in BOOLEAN :
          policies' = [policies EXCEPT
             ![v].replay = IF passed THEN frame[p].pins ELSE Failed,
             ![v].raced = @ \/ \E q \in Processes :
                                 frame[q].op = "switch" /\ frame[q].version = v]
    /\ frame' = [frame EXCEPT ![p] = Idle]
    /\ UNCHANGED <<decisions, exps, rules, active, inputs>>

\* The latest target replay passed with these pins, and the lineage still holds.
Replayed(v, pins) ==
    policies[v].required => policies[v].replay = pins /\ LineageHolds(v)

EarlierPins ==
    {pins \in Pins : pins.index <= inputs.index /\ pins.memory <= inputs.memory}

\* record_evaluation: the artifacts of the candidate and its parent are files of any age.
StartEvaluation(p, v) ==
    /\ p \in People /\ frame[p] = Idle
    /\ Exists(v) /\ Status(v) \in {"candidate", "evaluated", "shadow_ready"}
    /\ \E pins \in EarlierPins :
          /\ Replayed(v, pins)
          /\ frame' = [frame EXCEPT ![p] = [op |-> "evaluate", version |-> v, pins |-> pins]]
    /\ UNCHANGED <<decisions, exps, rules, policies, active, inputs>>

\* Its transaction, whatever has become of the Policy.
EndEvaluation(p) ==
    LET f == frame[p] IN
    /\ f.op = "evaluate"
    /\ \E passed \in BOOLEAN :
          policies' = [policies EXCEPT
             ![f.version].evaluation = IF passed THEN f.pins ELSE Failed,
             ![f.version].status = IF passed THEN "shadow_ready" ELSE "evaluated"]
    /\ frame' = [frame EXCEPT ![p] = Idle]
    /\ UNCHANGED <<decisions, exps, rules, active, inputs>>

(***************************************************************************)
(* Release.                                                                *)
(***************************************************************************)
\* configure_shadow: the pins it was called with are those of the evaluation.
StartShadow(p, v) ==
    /\ p \in People /\ frame[p] = Idle
    /\ Exists(v) /\ Status(v) = "shadow_ready" /\ policies[v].parent = active
    /\ \E pins \in EarlierPins :
          /\ policies[v].evaluation = pins
          /\ frame' = [frame EXCEPT ![p] = [op |-> "shadow", version |-> v, pins |-> pins]]
    /\ UNCHANGED <<decisions, exps, rules, policies, active, inputs>>

EndShadow(p) ==
    LET f == frame[p] IN
    /\ f.op = "shadow" /\ frame' = [frame EXCEPT ![p] = Idle]
    /\ policies' = [policies EXCEPT ![f.version].status = "shadow_running",
                                    ![f.version].release = f.pins]
    /\ UNCHANGED <<decisions, exps, rules, active, inputs>>

\* What else is written of a deployment, by queries and operators that each decide on what
\* they read before: also a failure that is observed when the Policy is active.  (In brief:
\* "shadow_running" is each status of an unfinished one, and "shadow_rejected" each of one
\* that is over, or superseded; ShadowRelease has them with their checks and writes.)
ShadowMoves(v) ==
    /\ Exists(v) /\ policies[v].release # Failed
    /\ \E status \in {"canary_passed", "shadow_rejected"} :
          policies' = [policies EXCEPT ![v].status = status]
    /\ UNCHANGED <<decisions, exps, rules, active, inputs, frame>>

\* The checks of activate_policy.
MayApprove(v, pins) ==
    Status(v) = "canary_passed" /\ policies[v].release = pins /\ Replayed(v, pins)

\* Those of activate_policy_automatically: only what rules were compiled into.
MayActivateAutomatically(v, pins) ==
    /\ Status(v) = "shadow_ready" /\ policies[v].evaluation = pins
    /\ policies[v].rules # {} /\ Replayed(v, pins)

\* approve and auto-activate: the pins are what the command has found, a while before.
StartActivation(p, v) ==
    /\ p \in People /\ frame[p] = Idle /\ Exists(v) /\ policies[v].parent = active
    /\ \E pins \in EarlierPins :
          /\ MayApprove(v, pins) \/ MayActivateAutomatically(v, pins)
          /\ frame' = [frame EXCEPT ![p] =
                [op |-> "switch", version |-> v, previous |-> active, pins |-> pins,
                 seen |-> decisions]]
    /\ UNCHANGED <<decisions, exps, rules, policies, active, inputs>>

SwitchTo(v, retired) ==
    /\ policies' = [x \in DOMAIN policies |->
          CASE x = v -> [policies[x] EXCEPT !.status = "approved"]
            [] x \in retired \ {v} -> [policies[x] EXCEPT !.status = "retired"]
            [] OTHER -> policies[x]]
    /\ active' = v
    /\ UNCHANGED <<decisions, exps, rules, inputs>>

\* The transaction of both, which looks at nothing again.
EndActivation(p) ==
    LET f == frame[p] IN
    /\ f.op = "switch" /\ frame' = [frame EXCEPT ![p] = Idle]
    /\ SwitchTo(f.version, {f.previous} \cap {x \in DOMAIN policies : Status(x) = "approved"})

StartRollback(p, v) ==
    /\ p \in People /\ frame[p] = Idle
    /\ Exists(v) /\ Status(v) \in {"approved", "retired"} /\ v # active
    /\ frame' = [frame EXCEPT ![p] = [op |-> "rollback", version |-> v, previous |-> active]]
    /\ UNCHANGED <<decisions, exps, rules, policies, active, inputs>>

EndRollback(p) ==
    LET f == frame[p] IN
    /\ f.op = "rollback" /\ frame' = [frame EXCEPT ![p] = Idle]
    /\ SwitchTo(f.version, {f.previous})

\* An index is rebuilt or a memory activated (EvolutionInputs of the other modules).
InputsMove ==
    /\ inputs.index + inputs.memory < MaxMoves
    /\ \E k \in Movable : inputs' = [inputs EXCEPT ![k] = @ + 1]
    /\ UNCHANGED <<decisions, exps, rules, policies, active, frame>>

Next ==
    \/ \E t \in Tasks : HumanDecides(t)
    \/ \E e \in Experiences : AddExperience(e) \/ ReviewExperience(e) \/ AutoAdmit(e)
    \/ \E p \in People, e \in Experiences : StartRule(p, e)
    \/ \E p \in Processes : AddRule(p) \/ EndCompile(p) \/ GiveUp(p)
    \/ \E r \in RuleIds : ReviewRule(r)
    \/ \E k \in ByHand, t \in Texts : Propose(k, t)
    \/ \E p \in People, sources \in SUBSET Experiences :
          \E rs \in SUBSET {r \in RuleIds : RuleStands(r)} : StartCompile(p, sources, rs)
    \/ AutoConfirm \/ StartMigration \/ EndMigration \/ AutoCompile
    \/ \E p \in People, v \in DOMAIN policies :
          \/ StartReplay(p, v) \/ StartEvaluation(p, v) \/ StartShadow(p, v)
          \/ StartActivation(p, v) \/ StartRollback(p, v)
    \/ \E p \in People :
          \/ EndReplay(p) \/ EndEvaluation(p) \/ EndShadow(p)
          \/ EndActivation(p) \/ EndRollback(p)
    \/ \E v \in DOMAIN policies : ShadowMoves(v)
    \/ InputsMove

Spec == Init /\ [][Next]_vars

(***************************************************************************)
(* Properties.                                                             *)
(***************************************************************************)
\* Rows and frames keep their types, and what is active is a row.
TypeOK ==
    /\ decisions \in [Tasks -> 0..MaxDecisions]
    /\ exps \in [Experiences -> ExperienceType]
    /\ rules \in [RuleIds -> RuleStates]
    /\ policies \in [DOMAIN policies -> PolicyType] /\ active \in DOMAIN policies
    /\ inputs \in Pins /\ frame \in [Processes -> FrameType]

\* Of each role, what the last proposal on the parent chain that wrote its prompt names.
Authors[v \in DOMAIN policies] ==
    [k \in Skills |-> IF policies[v].skill = k THEN policies[v].sources
                      ELSE IF policies[v].skill = "bootstrap"
                        THEN {e \in policies[v].compiled : SkillOf[e] = k}
                      ELSE Authors[policies[v].parent][k]]

\* What a Policy names as its sources are those of the last proposal on its parent chain,
\* for each role, that wrote the prompt it has: nothing is credited that was replaced, and
\* nothing is lost when another role changes or the contract is migrated.
PromptsHaveTheirSources ==
    \A v \in DOMAIN policies : SourcesOf(v) = UNION {Authors[v][k] : k \in Skills}

\* Running the automatic command again, after it was killed anywhere and whatever has become
\* of what it proposed, never compiles a rule a second time, and proposes no second Policy.
RetryMakesNoTwin ==
    \A r \in RuleIds :
        LET own == {v \in DOMAIN policies : r \in policies[v].rules /\ policies[v].auto}
        IN  /\ Cardinality(own) <= 1
            /\ frame[Automatic].op = "compile" /\ r \in frame[Automatic].rules => own = {}

\* What there was when an activation checked cannot be missed by it.
Proven(f) ==
    LET row == policies[f.version] IN
    /\ row.replay = f.pins \/ row.raced
    /\ \A e \in row.sources : HasEvidence(e)
    /\ \A r \in row.rules :
          /\ rules[r] = "confirmed"
          /\ r.exp \notin Repairs => f.seen[TaskOf[r.exp]] <= r.evidence

\* An activation writes a Policy that Experiences asked for only if all of them are confirmed,
\* every rule in it is and was worded with all that humans had said of its source run when the
\* activation checked, and the latest target replay passed with the inputs the command had
\* found, unless one was recorded since.
OnlyProvenIsActivated ==
    [][ \A p \in People :
          (/\ frame[p].op = "switch" /\ active' # active /\ frame'[p] # frame[p]
           /\ policies[frame[p].version].required) => Proven(frame[p]) ]_vars
=============================================================================
