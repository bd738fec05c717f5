----------------------------- MODULE AgentPipeline -----------------------------
(***************************************************************************)
(* One run of the agent engine: the eleven nodes of Text2SQLAgenticEngine.run. *)
(*                                                                         *)
(* A node reads the state the nodes before it left and adds its output to   *)
(* it; the runtime commits the output before the next node begins (module   *)
(* CheckpointStore), so a node that raises or is interrupted begins again   *)
(* in the state it began in.  What a model answers is not trusted: it is a  *)
(* free choice wherever the code asks one.                                  *)
(***************************************************************************)
EXTENDS Integers, Sequences, FiniteSets, Functions

CONSTANTS
    MaxCandidates,  \* TEXT2SQL_MAX_CANDIDATES
    NoPlan,         \* an empty bound or approved plan
    NoCandidate     \* an empty selected_candidate

ASSUME AgentPipelineAssumption == MaxCandidates \in Nat \ {0}

VARIABLES
    node,         \* the node that runs next
    route,        \* route, with the authenticated parent and route_gate_errors
    shared,       \* the worker that an assignment_id of two delegations leads to, or ""
    asked,        \* the stage of the clarification the user is asked for, or ""
    results,      \* worker_results
    binding,      \* bound_query_plan and the owners of binding_conflicts
    conflicts,    \* the owners of initial_binding_conflicts
    assessment,   \* lead_assessment, revision_requests and their contract errors
    approval,     \* approved_query_plan and whether there are plan_approval_errors
    generation,   \* sql_generation_result
    accepted,     \* accepted_candidates
    critic,       \* critic_result: a decision per candidate, and runtime_error
    final,        \* lead_final: final_candidate_index (from 1) and requires_new_query
    outcome       \* status, and the candidate that execute_sql ran

vars == <<node, route, shared, asked, results, binding, conflicts, assessment, approval,
          generation, accepted, critic, final, outcome>>

Grounding == "schema-grounding"
Planning  == "query-planning"
Harness   == "text2sql-harness"
Workers   == {Grounding, Planning}
Owners    == Workers \cup {Harness}

RouteTypes == {"DATA_QUERY", "FOLLOW_UP_QUERY", "RESULT_QA", "CLARIFICATION"}

\* A worker is run once, and again for a revision; the number of its runs stands for what it
\* said last.
ResultType == [status : {"absent", "completed", "failed", "needs_clarification"}, runs : 0..3]

\* A bound plan is made of one output of each worker: its fingerprint.
Plans == [Workers -> 1..2]

\* What the gates find out about a SQL text: it is unsafe, or it does not do what the plan of
\* its fingerprint says, or neither.  Revision 1 is the repair; the id is minted here.
Faults     == {"none", "unsafe", "nonconforming"}
Candidates == [id : 1..MaxCandidates, plan : Plans, fault : Faults, revision : 0..1]

\* Nothing is not something.
ASSUME NothingAssumption == NoPlan \notin Plans /\ NoCandidate \notin Candidates

Init ==
    /\ node = "routing"
    /\ route = [type |-> "DATA_QUERY", parent |-> FALSE, error |-> FALSE]
    /\ shared = ""
    /\ asked = ""
    /\ results = [w \in Workers |-> [status |-> "absent", runs |-> 0]]
    /\ binding = [plan |-> NoPlan, owners |-> {}]
    /\ conflicts = {}
    /\ assessment = [approve |-> FALSE, requests |-> {}, invalid |-> FALSE]
    /\ approval = [plan |-> NoPlan, errors |-> FALSE]
    /\ generation = [status |-> "absent", candidates |-> <<>>]
    /\ accepted = <<>>
    /\ critic = [decisions |-> <<>>, error |-> FALSE]
    /\ final = [index |-> 0, newQuery |-> FALSE]
    /\ outcome = [status |-> "", executed |-> NoCandidate]

Then(n, next) == node = n /\ node' = next

(***************************************************************************)
(* Routing and evidence.                                                   *)
(***************************************************************************)
\* The Lead names the two delegations, and may give both the same assignment_id: looked up by
\* it, they are the one that comes last.
\*
\* A question about a missing definition, or asked of a user who has just answered one, waits
\* for the workers.  "absent" is no question; a route CLARIFICATION without one raises.
RouteTo(type, question, continued) ==
    CASE question = "missing_business_definition" \/ (question # "absent" /\ continued)
           -> "DATA_QUERY"
      [] question = "ambiguous_intent" /\ ~continued -> "CLARIFICATION"
      [] OTHER -> type

LeadRouting ==
    \E type \in RouteTypes, continued, parent \in BOOLEAN,
       question \in {"absent", "ambiguous_intent", "missing_business_definition"} :
        LET to     == RouteTo(type, question, continued)
            refers == to \in {"FOLLOW_UP_QUERY", "RESULT_QA"}
        IN
        /\ Then("routing", "evidence")
        /\ to = "CLARIFICATION" => question # "absent"
        /\ route' = [type |-> to, parent |-> refers /\ parent, error |-> refers /\ ~parent]
        /\ shared' \in IF to \in {"CLARIFICATION", "RESULT_QA"} \/ route'.error
                       THEN {""} ELSE {""} \cup Workers
        /\ asked' = IF to = "CLARIFICATION" THEN "routing" ELSE ""
        /\ UNCHANGED <<results, binding, conflicts, assessment, approval, generation, accepted,
                       critic, final, outcome>>

\* Mutant of Blocked: the clarification is left to the last node.
BlockedLate == route.error \/ route.type = "RESULT_QA"

\* sql_pipeline_blocked
Blocked == asked # "" \/ route.error \/ route.type = "RESULT_QA"

EvidenceOrchestration ==
    /\ Then("evidence", "workers")
    /\ UNCHANGED <<route, shared, asked, results, binding, conflicts, assessment, approval,
                   generation, accepted, critic, final, outcome>>

(***************************************************************************)
(* The plan.                                                               *)
(***************************************************************************)
Outcomes == {"completed", "failed", "needs_clarification"}

Asking(rs) == \E w \in Workers : rs[w].status = "needs_clarification"

PlanWorkers ==
    /\ Then("workers", "bind")
    /\ \/ Blocked /\ UNCHANGED <<results, asked>>
       \/ /\ ~Blocked
          /\ results' \in [Workers -> [status : Outcomes, runs : {1}]]
          /\ asked' = IF Asking(results') THEN "planning_workers" ELSE ""
    /\ UNCHANGED <<route, shared, binding, conflicts, assessment, approval, generation,
                   accepted, critic, final, outcome>>

\* The model-free unifier: a worker that did not complete, or the slots, may be in conflict.
PlanOf(rs) == [w \in Workers |-> rs[w].runs]

Bound(rs) ==
    LET incomplete == {w \in Workers : rs[w].status # "completed"}
    IN  IF incomplete # {}
        THEN {[plan |-> NoPlan, owners |-> incomplete]}
        ELSE {[plan |-> PlanOf(rs), owners |-> {}]}
             \cup {[plan |-> NoPlan, owners |-> o] : o \in SUBSET Owners \ {{}}}

PlanBinding ==
    /\ Then("bind", "assess")
    /\ binding' \in IF Blocked THEN {[plan |-> NoPlan, owners |-> {}]} ELSE Bound(results)
    /\ conflicts' = binding'.owners
    /\ UNCHANGED <<route, shared, asked, results, assessment, approval, generation, accepted,
                   critic, final, outcome>>

\* Mutant of Requests: the conflicts are left to the Lead's own requests.
RequestsOfTheLead(wish) ==
    IF wish = {} THEN binding.owners \cap Workers ELSE wish

\* _revision_requests and _binding_revision_requests: what the Lead asks for, by assignment_id,
\* and every conflict of a worker.
Requests(wish) == wish \cup (binding.owners \cap Workers)

\* The Lead approves, asks for revisions, or asks the user.
LeadAssessment ==
    /\ Then("assess", "revise")
    /\ \/ /\ Blocked
          /\ assessment' = [approve |-> ~route.error /\ asked = "", requests |-> {},
                            invalid |-> FALSE]
          /\ UNCHANGED asked
       \/ /\ ~Blocked
          /\ asked' = "plan_approval"
          /\ assessment' = [approve |-> FALSE, requests |-> {}, invalid |-> FALSE]
       \/ /\ ~Blocked
          /\ \E wish \in SUBSET (IF shared = "" THEN Workers ELSE {shared}),
                yes, invalid \in BOOLEAN :
                LET requests == Requests(wish)
                IN  assessment' =
                      [approve |-> /\ yes /\ ~invalid /\ requests = {}
                                   /\ binding.plan # NoPlan /\ binding.owners = {},
                       requests |-> requests, invalid |-> invalid]
          /\ UNCHANGED asked
    /\ UNCHANGED <<route, shared, results, binding, conflicts, approval, generation, accepted,
                   critic, final, outcome>>

\* What the Lead says of a plan that was bound again: further requests are an error.
Reviews == {"approved", "refused", "invalid"}

\* Mutant of Approval: the plan of the state is approved, not the one that was bound again.
ApprovalOfTheFirst(b, approve, invalid) ==
    LET errors == assessment.invalid \/ invalid \/ b.owners # {} \/ b.plan = NoPlan \/ ~approve
    IN  [plan |-> IF errors THEN NoPlan ELSE binding.plan, errors |-> errors]

\* The approval of plan-revisions-approval: none without errors.
Approval(b, approve, invalid) ==
    LET errors == assessment.invalid \/ invalid \/ b.owners # {} \/ b.plan = NoPlan \/ ~approve
    IN  [plan |-> IF errors THEN NoPlan ELSE b.plan, errors |-> errors]

NoApproval == [plan |-> NoPlan, errors |-> FALSE]

\* The revisions of a shared assignment_id are all given to one worker, and of the results only
\* the last is kept, under that id.
RunsFor(w, requests) ==
    IF shared = "" THEN Cardinality(requests \cap {w})
    ELSE IF w = shared THEN Cardinality(requests) ELSE 0

Kept(requests) ==
    IF shared = "" THEN Workers ELSE IF requests = {} THEN {Grounding} ELSE {shared}

Revised(requests) ==
    {new \in [Workers -> ResultType] :
        \A w \in Workers :
            /\ new[w].runs = results[w].runs + RunsFor(w, requests)
            /\ IF w \notin Kept(requests) THEN new[w].status = "absent"
               ELSE IF RunsFor(w, requests) = 0 THEN new[w].status = results[w].status
               ELSE new[w].status \in Outcomes}

PlanRevisionsApproval ==
    LET requests == assessment.requests
    IN
    /\ Then("revise", "generate")
    /\ \/ /\ Blocked
          /\ approval' = [NoApproval EXCEPT !.errors = route.error]
          /\ UNCHANGED <<asked, results, binding>>
       \/ /\ ~Blocked /\ requests = {}
          /\ results' \in Revised({})
          /\ approval' = Approval(binding, assessment.approve, FALSE)
          /\ UNCHANGED <<asked, binding>>
       \/ /\ ~Blocked /\ requests # {}
          /\ results' \in Revised(requests)
          /\ \/ /\ Asking(results')
                /\ asked' = "plan_revisions"
                /\ binding' = [plan |-> NoPlan, owners |-> {}]
                /\ approval' = NoApproval
             \/ /\ ~Asking(results')
                /\ binding' \in Bound(results')
                /\ binding'.plan = NoPlan
                /\ approval' = Approval(binding', assessment.approve, FALSE)
                /\ UNCHANGED asked
             \/ /\ ~Asking(results')
                /\ binding' \in Bound(results')
                /\ binding'.plan # NoPlan
                /\ \/ /\ asked' = "plan_revisions" /\ approval' = NoApproval
                   \/ /\ UNCHANGED asked
                      /\ \E says \in Reviews :
                            approval' = Approval(binding', says = "approved", says = "invalid")
    /\ UNCHANGED <<route, shared, conflicts, assessment, generation, accepted, critic, final,
                   outcome>>

(***************************************************************************)
(* The SQL.                                                                *)
(***************************************************************************)
\* _sql_generation_output: an invalid answer, or a call that raises, is a failed result.
Generate(plan, revision) ==
    {[status |-> "failed", candidates |-> <<>>]} \cup
    UNION {{[status |-> "completed",
             candidates |-> [i \in 1..n |-> [id |-> i, plan |-> plan, fault |-> f[i],
                                             revision |-> revision]]]
               : f \in [1..n -> Faults]} : n \in 1..MaxCandidates}

SqlGeneration ==
    /\ Then("generate", "gate")
    /\ generation' \in
         IF Blocked THEN {generation}
         ELSE IF approval.plan = NoPlan THEN {[status |-> "skipped", candidates |-> <<>>]}
         ELSE Generate(approval.plan, 0)
    /\ UNCHANGED <<route, shared, asked, results, binding, conflicts, assessment, approval,
                   accepted, critic, final, outcome>>

\* validate_sql and check_candidate_conformance
Passes(c, plan) == c.fault = "none" /\ c.plan = plan

\* _gate_sql_candidates: some of those that pass, since the database must explain them too, in
\* their order.
Gated(candidates, plan) ==
    {s \in UNION {[1..n -> Range(candidates)] : n \in 0..Len(candidates)} :
        /\ \A i \in DOMAIN s : Passes(s[i], plan)
        /\ \A i, j \in DOMAIN s : i < j => s[i].id < s[j].id}

CandidateGates ==
    /\ Then("gate", "critic")
    /\ \/ /\ Blocked \/ approval.plan = NoPlan
          /\ UNCHANGED <<generation, accepted>>
       \/ /\ ~Blocked /\ approval.plan # NoPlan
          /\ \E first \in Gated(generation.candidates, approval.plan) :
                IF first # <<>>
                THEN accepted' = first /\ UNCHANGED generation
                ELSE /\ generation' \in Generate(approval.plan, 1)
                     /\ accepted' \in Gated(generation'.candidates, approval.plan)
    /\ UNCHANGED <<route, shared, asked, results, binding, conflicts, assessment, approval,
                   critic, final, outcome>>

\* One decision per candidate; an answer that breaks the contract twice, or a call that raises,
\* refuses them all.
Critic ==
    LET reviewed == IF Blocked THEN {} ELSE DOMAIN accepted
    IN
    /\ Then("critic", "select")
    /\ \/ /\ reviewed = {}
          /\ critic' = [decisions |-> <<>>, error |-> FALSE]
       \/ /\ reviewed # {}
          /\ \E d \in [reviewed -> BOOLEAN] : critic' = [decisions |-> d, error |-> FALSE]
       \/ /\ reviewed # {}
          /\ critic' = [decisions |-> [i \in reviewed |-> FALSE], error |-> TRUE]
    /\ UNCHANGED <<route, shared, asked, results, binding, conflicts, assessment, approval,
                   generation, accepted, final, outcome>>

Selectable == {i \in DOMAIN critic.decisions : critic.decisions[i]}

\* Mutant of Selections: the index of the only candidate is counted from 0.
SelectionsFromZero ==
    IF asked # "" \/ route.error \/ route.type = "RESULT_QA" \/ accepted = <<>> \/ Selectable = {}
    THEN {0}
    ELSE IF Cardinality(Selectable) = 1 THEN {i - 1 : i \in Selectable}
    ELSE 0..MaxCandidates + 1

\* The Lead selects only where the Critic left a choice, and may select anything; the index 0
\* selects nothing.
Selections ==
    IF asked # "" \/ route.error \/ route.type = "RESULT_QA" \/ accepted = <<>> \/ Selectable = {}
    THEN {0}
    ELSE IF Cardinality(Selectable) = 1 THEN Selectable
    ELSE 0..MaxCandidates + 1

\* A question about a cached result is answered only by a replay of it.
LeadFinal ==
    /\ Then("select", "execute")
    /\ \E index \in Selections, replayOnly \in BOOLEAN :
          final' = [index |-> index,
                    newQuery |-> /\ asked = "" /\ route.type = "RESULT_QA"
                                 /\ ~(route.parent /\ replayOnly)]
    /\ UNCHANGED <<route, shared, asked, results, binding, conflicts, assessment, approval,
                   generation, accepted, critic, outcome>>

\* Mutant of Refused: the Lead's index is looked up among the candidates only.
RefusedByTheGates ==
    \/ approval.errors
    \/ critic.error
    \/ Selectable = {}
    \/ final.index \notin DOMAIN accepted
    \/ approval.plan = NoPlan
    \/ ~Passes(accepted[final.index], approval.plan)

\* gates_execute trusts none of the choices made before it.
Refused ==
    \/ approval.errors
    \/ critic.error
    \/ final.index \notin DOMAIN accepted
    \/ final.index \notin Selectable
    \/ approval.plan = NoPlan
    \/ ~Passes(accepted[final.index], approval.plan)

Ended(status) == [status |-> status, executed |-> NoCandidate]

GatesExecute ==
    /\ Then("execute", "end")
    /\ outcome' =
         CASE asked # "" -> Ended("needs_clarification")
           [] asked = "" /\ route.type = "RESULT_QA" ->
                Ended(IF route.error \/ final.newQuery THEN "needs_new_query" ELSE "success")
           [] asked = "" /\ route.type # "RESULT_QA" /\ (route.error \/ Refused) ->
                Ended("rejected")
           [] OTHER -> [status |-> "success", executed |-> accepted[final.index]]
    /\ UNCHANGED <<route, shared, asked, results, binding, conflicts, assessment, approval,
                   generation, accepted, critic, final>>

Next ==
    \/ LeadRouting \/ EvidenceOrchestration \/ PlanWorkers \/ PlanBinding \/ LeadAssessment
    \/ PlanRevisionsApproval \/ SqlGeneration \/ CandidateGates \/ Critic \/ LeadFinal
    \/ GatesExecute

Spec == Init /\ [][Next]_vars

(***************************************************************************)
(* Properties.                                                             *)
(***************************************************************************)
NodeNames      == {"routing", "evidence", "workers", "bind", "assess", "revise", "generate",
                   "gate", "critic", "select", "execute", "end"}
Stages         == {"", "routing", "planning_workers", "plan_approval", "plan_revisions"}
RouteType      == [type : RouteTypes, parent : BOOLEAN, error : BOOLEAN]
BindingType    == [plan : Plans \cup {NoPlan}, owners : SUBSET Owners]
AssessmentType == [approve : BOOLEAN, requests : SUBSET Workers, invalid : BOOLEAN]
ApprovalType   == [plan : Plans \cup {NoPlan}, errors : BOOLEAN]
GenerationType == [status : {"absent", "skipped", "completed", "failed"},
                   candidates : Seq(Candidates)]
CriticType     == [decisions : Seq(BOOLEAN), error : BOOLEAN]
FinalType      == [index : Nat, newQuery : BOOLEAN]
Statuses       == {"", "success", "rejected", "needs_new_query", "needs_clarification"}
OutcomeType    == [status : Statuses, executed : Candidates \cup {NoCandidate}]

\* Every variable has its type.
TypeOK ==
    /\ node \in NodeNames
    /\ route \in RouteType
    /\ shared \in {""} \cup Workers
    /\ asked \in Stages
    /\ results \in [Workers -> ResultType]
    /\ binding \in BindingType
    /\ conflicts \in SUBSET Owners
    /\ assessment \in AssessmentType
    /\ approval \in ApprovalType
    /\ generation \in GenerationType
    /\ accepted \in Seq(Candidates)
    /\ critic \in CriticType
    /\ final \in FinalType
    /\ outcome \in OutcomeType

\* The SQL that is executed is a candidate the gates accepted, at the place where the Critic
\* accepted it, of the latest generation, and it does what the approved plan says; a run that
\* executes nothing succeeds only with the result of an authenticated parent.  (The gates, the
\* Critic, the Lead and gates_execute each number the candidates of a different list.)
OnlyVettedSqlRuns ==
    outcome.status = "success" =>
        /\ asked = "" /\ ~route.error
        /\ outcome.executed = NoCandidate => route.type = "RESULT_QA" /\ route.parent
        /\ outcome.executed # NoCandidate =>
             /\ route.type \in {"DATA_QUERY", "FOLLOW_UP_QUERY"}
             /\ approval.plan # NoPlan /\ Passes(outcome.executed, approval.plan)
             /\ outcome.executed \in Range(generation.candidates)
             /\ \E i \in Selectable : accepted[i] = outcome.executed

\* The approved plan is made of the last output of each worker: a revision after which the
\* binder was not run again, or an approval of the plan before it, would show here.
ApprovedPlanIsCurrent ==
    approval.plan # NoPlan =>
        /\ approval.plan = PlanOf(results)
        /\ binding = [plan |-> approval.plan, owners |-> {}]
        /\ \A w \in Workers : results[w].status \notin {"failed", "needs_clarification"}

\* A plan is approved only when every worker that the first binding blamed has spoken again.
ConflictsAreRevised ==
    approval.plan # NoPlan => \A w \in conflicts \cap Workers : results[w].runs = 2

\* Once the user is asked something nothing more is planned, generated or executed, and the
\* run ends with the question.
ClarificationStops ==
    asked # "" =>
        /\ approval.plan = NoPlan /\ generation.status = "absent" /\ accepted = <<>>
        /\ outcome.status \in {"", "needs_clarification"}

\* A query is refused only when one of the parties refused it: what gates_execute checks again
\* never turns down a candidate that all of them let through.
RejectionHasACause ==
    outcome.status = "rejected" =>
        \/ route.error \/ approval.errors \/ critic.error
        \/ accepted = <<>> \/ Selectable = {}
        \/ Cardinality(Selectable) > 1 /\ final.index \notin Selectable
=============================================================================
