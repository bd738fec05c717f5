-------------------------- MODULE AgentPipelineProofs --------------------------
(***************************************************************************)
(* Proofs about a run of the agent engine, whatever the models answer and   *)
(* however many candidates a generation may have.                          *)
(***************************************************************************)
EXTENDS AgentPipeline, FiniteSetTheorems, TLAPS

(***************************************************************************)
(* The invariant: what each node finds when it begins.                     *)
(***************************************************************************)
BeforeBinding    == {"routing", "evidence", "workers", "bind"}
BeforeApproval   == BeforeBinding \cup {"assess", "revise"}
BeforeGeneration == BeforeApproval \cup {"generate"}
BeforeGates      == BeforeGeneration \cup {"gate"}

\* A route that needs a parent has one or is an error; a CLARIFICATION is asked.
Routed ==
    /\ node = "routing" => asked = "" /\ ~route.error /\ route.type = "DATA_QUERY"
    /\ route.error => ~route.parent
    /\ route.type = "RESULT_QA" => route.parent \/ route.error
    /\ route.type = "CLARIFICATION" => asked # ""

\* Before the approval the workers have run once, and the binding is of those runs.
Planned ==
    /\ node \in {"bind", "assess", "revise"} /\ ~Blocked =>
         \A w \in Workers : results[w].runs = 1
    /\ node \in BeforeBinding => binding.plan = NoPlan
    /\ node \in {"assess", "revise"} =>
         /\ conflicts = binding.owners
         /\ binding.plan # NoPlan =>
              /\ binding.plan = PlanOf(results) /\ binding.owners = {}
              /\ \A w \in Workers : results[w].status = "completed"
    /\ node = "revise" /\ ~Blocked => conflicts \cap Workers \subseteq assessment.requests

\* A node leaves the outputs of those after it alone.
Fresh ==
    /\ node \in BeforeApproval => approval = NoApproval
    /\ node \in BeforeGeneration => generation = [status |-> "absent", candidates |-> <<>>]
    /\ node \in BeforeGates => accepted = <<>>
    /\ node # "end" => outcome = Ended("")

\* What the gates accept was generated.
Generated == Range(accepted) \subseteq Range(generation.candidates)

Inv ==
    /\ TypeOK
    /\ Routed
    /\ Planned
    /\ Fresh
    /\ Generated
    /\ ApprovedPlanIsCurrent
    /\ ConflictsAreRevised
    /\ ClarificationStops
    /\ OnlyVettedSqlRuns

\* Facts about the empty sequence and the records that stand for nothing.
LEMMA EmptyRange == Range(<<>>) = {}
  BY DEF Range

LEMMA Nothing ==
    /\ NoApproval.plan = NoPlan
    /\ [status |-> "absent", candidates |-> <<>>].status = "absent"
    /\ \A status : Ended(status).status = status /\ Ended(status).executed = NoCandidate
  BY DEF NoApproval, Ended

\* A run that is not at its end has no success to account for.
LEMMA NotYet ==
    ASSUME outcome = Ended("") PROVE OnlyVettedSqlRuns
<1>1. outcome.status = ""
  BY DEF Ended
<1> QED
  BY <1>1 DEF OnlyVettedSqlRuns

\* The invariant holds initially.
LEMMA InitInv == Init => Inv
<1> SUFFICES ASSUME Init PROVE Inv
  OBVIOUS
<1>1. /\ node = "routing" /\ shared = "" /\ asked = "" /\ conflicts = {} /\ accepted = <<>>
      /\ route = [type |-> "DATA_QUERY", parent |-> FALSE, error |-> FALSE]
      /\ results = [w \in Workers |-> [status |-> "absent", runs |-> 0]]
      /\ binding = [plan |-> NoPlan, owners |-> {}]
      /\ assessment = [approve |-> FALSE, requests |-> {}, invalid |-> FALSE]
  BY DEF Init
<1>2. /\ approval = NoApproval
      /\ generation = [status |-> "absent", candidates |-> <<>>]
      /\ critic = [decisions |-> <<>>, error |-> FALSE]
      /\ final = [index |-> 0, newQuery |-> FALSE]
      /\ outcome = Ended("")
  BY DEF Init, NoApproval, Ended
<1>3. TypeOK
  <2>1. [type |-> "DATA_QUERY", parent |-> FALSE, error |-> FALSE] \in RouteType
    BY DEF RouteType, RouteTypes
  <2>2. [w \in Workers |-> [status |-> "absent", runs |-> 0]] \in [Workers -> ResultType]
    BY DEF ResultType
  <2>3. /\ [plan |-> NoPlan, owners |-> {}] \in BindingType
        /\ [approve |-> FALSE, requests |-> {}, invalid |-> FALSE] \in AssessmentType
        /\ NoApproval \in ApprovalType
    BY DEF BindingType, AssessmentType, ApprovalType, NoApproval
  <2>4. /\ [status |-> "absent", candidates |-> <<>>] \in GenerationType
        /\ [decisions |-> <<>>, error |-> FALSE] \in CriticType
    BY DEF GenerationType, CriticType
  <2>5. /\ [index |-> 0, newQuery |-> FALSE] \in FinalType
        /\ Ended("") \in OutcomeType
    BY AgentPipelineAssumption DEF FinalType, OutcomeType, Statuses, Ended
  <2>6. /\ node \in NodeNames /\ shared \in {""} \cup Workers /\ asked \in Stages
        /\ conflicts \in SUBSET Owners
    BY <1>1 DEF NodeNames, Stages
  <2>7. <<>> \in Seq(Candidates)
    OBVIOUS
  <2> QED
    <3>1. /\ route \in RouteType /\ results \in [Workers -> ResultType]
          /\ binding \in BindingType /\ assessment \in AssessmentType
      BY <1>1, <2>1, <2>2, <2>3
    <3>2. /\ approval \in ApprovalType /\ generation \in GenerationType
          /\ critic \in CriticType /\ final \in FinalType /\ outcome \in OutcomeType
      BY <1>2, <2>3, <2>4, <2>5
    <3> QED
      BY <1>1, <2>6, <2>7, <3>1, <3>2 DEF TypeOK
<1>4. Routed /\ Fresh
  BY <1>1, <1>2 DEF Routed, Fresh
<1>5. Planned
  BY <1>1 DEF Planned
<1>6. Generated
  BY <1>1, EmptyRange DEF Generated
<1>7. ApprovedPlanIsCurrent /\ ConflictsAreRevised /\ ClarificationStops
  BY <1>1, <1>2 DEF ApprovedPlanIsCurrent, ConflictsAreRevised, ClarificationStops, NoApproval
<1> QED
  BY <1>2, <1>3, <1>4, <1>5, <1>6, <1>7, NotYet DEF Inv

(***************************************************************************)
(* One lemma for each node.                                                *)
(***************************************************************************)
\* Before it is approved a plan has not led anywhere.
LEMMA UnapprovedFresh ==
    ASSUME Inv, node \in BeforeApproval
    PROVE  /\ approval = NoApproval /\ outcome = Ended("") /\ accepted = <<>>
           /\ generation = [status |-> "absent", candidates |-> <<>>]
<1>1. /\ node \in BeforeGeneration /\ node \in BeforeGates /\ node # "end"
  BY DEF BeforeBinding, BeforeApproval, BeforeGeneration, BeforeGates
<1> QED
  BY <1>1 DEF Inv, Fresh

\* What holds of a step that leaves everything after the approval as it was.
LEMMA UnapprovedStep ==
    ASSUME Inv, node \in BeforeApproval,
           UNCHANGED <<approval, generation, accepted, outcome>>
    PROVE  /\ Fresh' /\ Generated' /\ OnlyVettedSqlRuns'
           /\ ApprovedPlanIsCurrent' /\ ConflictsAreRevised' /\ ClarificationStops'
<1>1. /\ approval' = NoApproval /\ outcome' = Ended("") /\ accepted' = <<>>
      /\ generation' = [status |-> "absent", candidates |-> <<>>]
  BY UnapprovedFresh
<1>2. approval'.plan = NoPlan /\ outcome'.status = "" /\ generation'.status = "absent"
  BY <1>1, Nothing
<1>3. Fresh'
  BY <1>1 DEF Fresh
<1>4. Generated'
  BY <1>1, EmptyRange DEF Generated
<1>5. ApprovedPlanIsCurrent' /\ ConflictsAreRevised' /\ OnlyVettedSqlRuns'
  BY <1>2 DEF ApprovedPlanIsCurrent, ConflictsAreRevised, OnlyVettedSqlRuns
<1>6. ClarificationStops'
  BY <1>1, <1>2 DEF ClarificationStops
<1> QED
  BY <1>3, <1>4, <1>5, <1>6

\* The route is decided: nothing else has happened.
LEMMA RoutingInv == Inv /\ LeadRouting => Inv'
<1> SUFFICES ASSUME Inv, LeadRouting PROVE Inv'
  OBVIOUS
<1>1. PICK type \in RouteTypes, continued \in BOOLEAN, parent \in BOOLEAN,
           question \in {"absent", "ambiguous_intent", "missing_business_definition"} :
        LET to     == RouteTo(type, question, continued)
            refers == to \in {"FOLLOW_UP_QUERY", "RESULT_QA"}
        IN
        /\ Then("routing", "evidence")
        /\ to = "CLARIFICATION" => question # "absent"
        /\ route' = [type |-> to, parent |-> refers /\ parent, error |-> refers /\ ~parent]
        /\ shared' \in IF to \in {"CLARIFICATION", "RESULT_QA"} \/ route'.error
                       THEN {""} ELSE {""} \cup Workers
        /\ asked' = IF to = "CLARIFICATION" THEN "routing" ELSE ""
        /\ UNCHANGED <<results, binding, conflicts, assessment, approval, generation, accepted,
                       critic, final, outcome>>
  BY DEF LeadRouting
<1> DEFINE to     == RouteTo(type, question, continued)
           refers == to \in {"FOLLOW_UP_QUERY", "RESULT_QA"}
<1>2. to \in RouteTypes
  BY DEF RouteTo, RouteTypes
<1>3. /\ node = "routing" /\ node' = "evidence"
      /\ UNCHANGED <<results, binding, conflicts, assessment, critic, final>>
      /\ UNCHANGED <<approval, generation, accepted, outcome>>
  BY <1>1 DEF Then
<1>4. /\ route'.type = to /\ route'.parent = (refers /\ parent)
      /\ route'.error = (refers /\ ~parent) /\ route' \in RouteType
  <2>1. route' = [type |-> to, parent |-> refers /\ parent, error |-> refers /\ ~parent]
    BY <1>1
  <2> HIDE DEF to, refers
  <2>2. (refers /\ parent) \in BOOLEAN /\ (refers /\ ~parent) \in BOOLEAN
    OBVIOUS
  <2> QED
    BY <1>2, <2>1, <2>2 DEF RouteType
<1>5. shared' \in {""} \cup Workers /\ asked' = IF to = "CLARIFICATION" THEN "routing" ELSE ""
  BY <1>1
<1> HIDE DEF to
<1>6. TypeOK'
  BY <1>3, <1>4, <1>5 DEF Inv, TypeOK, NodeNames, Stages
<1>7. Routed'
  BY <1>3, <1>4, <1>5 DEF Routed
<1>8. Planned'
  BY <1>3 DEF Inv, Planned, BeforeBinding
<1>9. node \in BeforeApproval
  BY <1>3 DEF BeforeApproval, BeforeBinding
<1> QED
  BY <1>3, <1>6, <1>7, <1>8, <1>9, UnapprovedStep DEF Inv

\* The evidence is no part of the state.
LEMMA EvidenceInv == Inv /\ EvidenceOrchestration => Inv'
<1> SUFFICES ASSUME Inv, EvidenceOrchestration PROVE Inv'
  OBVIOUS
<1>1. /\ node = "evidence" /\ node' = "workers"
      /\ UNCHANGED <<route, shared, asked, results, binding, conflicts, assessment, critic, final>>
      /\ UNCHANGED <<approval, generation, accepted, outcome>>
  BY DEF EvidenceOrchestration, Then
<1>2. TypeOK'
  BY <1>1 DEF Inv, TypeOK, NodeNames
<1>3. Routed'
  BY <1>1 DEF Inv, Routed
<1>4. Planned'
  BY <1>1 DEF Inv, Planned, BeforeBinding
<1>5. node \in BeforeApproval
  BY <1>1 DEF BeforeApproval, BeforeBinding
<1> QED
  BY <1>1, <1>2, <1>3, <1>4, <1>5, UnapprovedStep DEF Inv

\* The workers run for the first time.
LEMMA WorkersInv == Inv /\ PlanWorkers => Inv'
<1> SUFFICES ASSUME Inv, PlanWorkers PROVE Inv'
  OBVIOUS
<1>1. /\ node = "workers" /\ node' = "bind"
      /\ UNCHANGED <<route, shared, binding, conflicts, assessment, critic, final>>
      /\ UNCHANGED <<approval, generation, accepted, outcome>>
  BY DEF PlanWorkers, Then
<1>2. CASE Blocked /\ UNCHANGED <<results, asked>>
  <2>1. TypeOK'
    BY <1>1, <1>2 DEF Inv, TypeOK, NodeNames
  <2>2. Routed'
    BY <1>1, <1>2 DEF Inv, Routed
  <2>3. Blocked'
    BY <1>1, <1>2 DEF Blocked
  <2>4. Planned'
    BY <1>1, <2>3 DEF Inv, Planned, BeforeBinding
  <2>5. node \in BeforeApproval
    BY <1>1 DEF BeforeApproval, BeforeBinding
  <2> QED
    BY <1>1, <2>1, <2>2, <2>4, <2>5, UnapprovedStep DEF Inv
<1>3. CASE /\ ~Blocked
           /\ results' \in [Workers -> [status : Outcomes, runs : {1}]]
           /\ asked' = IF Asking(results') THEN "planning_workers" ELSE ""
  <2>1. asked = "" /\ asked' \in Stages
    BY <1>3 DEF Blocked, Stages
  <2>2. \A w \in Workers : results'[w] \in ResultType /\ results'[w].runs = 1
    <3>1. \A r \in [status : Outcomes, runs : {1}] : r \in ResultType /\ r.runs = 1
      BY DEF Outcomes, ResultType
    <3> QED
      BY <1>3, <3>1
  <2>3. results' \in [Workers -> ResultType]
    BY <1>3, <2>2
  <2>4. TypeOK'
    BY <1>1, <2>1, <2>3 DEF Inv, TypeOK, NodeNames
  <2>5. Routed'
    BY <1>1, <2>1 DEF Inv, Routed
  <2>6. Planned'
    BY <1>1, <2>2 DEF Inv, Planned, BeforeBinding
  <2>7. node \in BeforeApproval
    BY <1>1 DEF BeforeApproval, BeforeBinding
  <2> QED
    BY <1>1, <2>4, <2>5, <2>6, <2>7, UnapprovedStep DEF Inv
<1> QED
  BY <1>2, <1>3 DEF PlanWorkers

\* The binder binds the outputs of two workers that completed, or names an owner.
LEMMA BoundPlan ==
    ASSUME NEW rs, NEW b \in Bound(rs),
           (\A w \in Workers : rs[w].status = "completed") => \A w \in Workers : rs[w].runs \in 1..2
    PROVE  /\ b \in BindingType
           /\ b.plan # NoPlan => /\ b.plan = PlanOf(rs) /\ b.owners = {}
                                 /\ \A w \in Workers : rs[w].status = "completed"
<1> DEFINE incomplete == {w \in Workers : rs[w].status # "completed"}
<1>1. CASE incomplete # {}
  <2>1. b = [plan |-> NoPlan, owners |-> incomplete]
    BY <1>1 DEF Bound
  <2>2. incomplete \subseteq Owners
    BY DEF Owners
  <2> HIDE DEF incomplete
  <2> QED
    BY <2>1, <2>2 DEF BindingType
<1>2. CASE incomplete = {}
  <2>1. \A w \in Workers : rs[w].status = "completed"
    BY <1>2
  <2>2. PlanOf(rs) \in Plans
    BY <2>1 DEF PlanOf, Plans
  <2>3. \/ b = [plan |-> PlanOf(rs), owners |-> {}]
        \/ \E o \in SUBSET Owners : b = [plan |-> NoPlan, owners |-> o]
    BY <1>2 DEF Bound
  <2> HIDE DEF incomplete
  <2> QED
    BY <2>1, <2>2, <2>3 DEF BindingType
<1> QED
  BY <1>1, <1>2

\* The first binding.
LEMMA BindingInv == Inv /\ PlanBinding => Inv'
<1> SUFFICES ASSUME Inv, PlanBinding PROVE Inv'
  OBVIOUS
<1>1. /\ node = "bind" /\ node' = "assess" /\ conflicts' = binding'.owners
      /\ UNCHANGED <<route, shared, asked, results, assessment, critic, final>>
      /\ UNCHANGED <<approval, generation, accepted, outcome>>
  BY DEF PlanBinding, Then
<1>2. /\ binding' \in BindingType
      /\ binding'.plan # NoPlan => /\ binding'.plan = PlanOf(results) /\ binding'.owners = {}
                                   /\ \A w \in Workers : results[w].status = "completed"
  <2>1. CASE Blocked
    <3>1. binding' = [plan |-> NoPlan, owners |-> {}]
      BY <2>1 DEF PlanBinding
    <3> QED
      BY <3>1 DEF BindingType
  <2>2. CASE ~Blocked
    <3>1. binding' \in Bound(results)
      BY <2>2 DEF PlanBinding
    <3>2. \A w \in Workers : results[w].runs = 1
      BY <1>1, <2>2 DEF Inv, Planned
    <3> QED
      BY <3>1, <3>2, BoundPlan
  <2> QED
    BY <2>1, <2>2
<1>3. conflicts' \in SUBSET Owners
  BY <1>1, <1>2 DEF BindingType
<1>4. TypeOK'
  BY <1>1, <1>2, <1>3 DEF Inv, TypeOK, NodeNames
<1>5. Routed'
  BY <1>1 DEF Inv, Routed
<1>6. Blocked' <=> Blocked
  BY <1>1 DEF Blocked
<1>7. Planned'
  BY <1>1, <1>2, <1>6 DEF Inv, Planned, BeforeBinding, PlanOf
<1>8. node \in BeforeApproval
  BY <1>1 DEF BeforeApproval, BeforeBinding
<1> QED
  BY <1>1, <1>4, <1>5, <1>7, <1>8, UnapprovedStep DEF Inv

\* Every worker in conflict is asked for a revision.
LEMMA AssessmentInv == Inv /\ LeadAssessment => Inv'
<1> SUFFICES ASSUME Inv, LeadAssessment PROVE Inv'
  OBVIOUS
<1>1. /\ node = "assess" /\ node' = "revise"
      /\ UNCHANGED <<route, shared, results, binding, conflicts, critic, final>>
      /\ UNCHANGED <<approval, generation, accepted, outcome>>
  BY DEF LeadAssessment, Then
<1>2. /\ asked' \in Stages /\ assessment' \in AssessmentType
      /\ asked # "" => asked' # ""
      /\ \/ Blocked' /\ (Blocked \/ asked' # "")
         \/ ~Blocked /\ binding.owners \cap Workers \subseteq assessment'.requests
  <2>1. CASE /\ Blocked
             /\ assessment' = [approve |-> ~route.error /\ asked = "", requests |-> {},
                               invalid |-> FALSE]
             /\ UNCHANGED asked
    <3>1. Blocked'
      BY <1>1, <2>1 DEF Blocked
    <3>2. (~route.error /\ asked = "") \in BOOLEAN
      OBVIOUS
    <3>3. assessment' \in AssessmentType
      BY <2>1, <3>2 DEF AssessmentType
    <3> QED
      BY <2>1, <3>1, <3>3 DEF Inv, TypeOK
  <2>2. CASE /\ ~Blocked /\ asked' = "plan_approval"
             /\ assessment' = [approve |-> FALSE, requests |-> {}, invalid |-> FALSE]
    <3>1. assessment' \in AssessmentType
      BY <2>2 DEF AssessmentType
    <3>2. Blocked' /\ asked' \in Stages
      BY <2>2 DEF Blocked, Stages
    <3> QED
      BY <2>2, <3>1, <3>2
  <2>3. CASE /\ ~Blocked /\ UNCHANGED asked
             /\ \E wish \in SUBSET (IF shared = "" THEN Workers ELSE {shared}),
                   yes, invalid \in BOOLEAN :
                   LET requests == Requests(wish)
                   IN  assessment' =
                         [approve |-> /\ yes /\ ~invalid /\ requests = {}
                                      /\ binding.plan # NoPlan /\ binding.owners = {},
                          requests |-> requests, invalid |-> invalid]
    <3>1. PICK wish \in SUBSET (IF shared = "" THEN Workers ELSE {shared}),
               yes \in BOOLEAN, invalid \in BOOLEAN :
                 assessment' = [approve |-> /\ yes /\ ~invalid /\ Requests(wish) = {}
                                            /\ binding.plan # NoPlan /\ binding.owners = {},
                                requests |-> Requests(wish), invalid |-> invalid]
      BY <2>3
    <3>2. wish \in SUBSET Workers
      BY DEF Inv, TypeOK
    <3>3. Requests(wish) \in SUBSET Workers /\ binding.owners \cap Workers \subseteq Requests(wish)
      BY <3>2 DEF Requests
    <3>4. (/\ yes /\ ~invalid /\ Requests(wish) = {}
           /\ binding.plan # NoPlan /\ binding.owners = {}) \in BOOLEAN
      OBVIOUS
    <3>5. assessment' \in AssessmentType /\ assessment'.requests = Requests(wish)
      BY <3>1, <3>3, <3>4 DEF AssessmentType
    <3> QED
      BY <2>3, <3>3, <3>5 DEF Inv, TypeOK
  <2> QED
    BY <2>1, <2>2, <2>3 DEF LeadAssessment
<1>3. TypeOK'
  BY <1>1, <1>2 DEF Inv, TypeOK, NodeNames
<1>4. Routed'
  BY <1>1, <1>2 DEF Inv, Routed
<1>5. Planned'
  <2>1. ~Blocked' => ~Blocked
    BY <1>1, <1>2 DEF Blocked
  <2> QED
    BY <1>1, <1>2, <2>1 DEF Inv, Planned, BeforeBinding, PlanOf
<1>6. node \in BeforeApproval
  BY <1>1 DEF BeforeApproval, BeforeBinding
<1> QED
  BY <1>1, <1>3, <1>4, <1>5, <1>6, UnapprovedStep DEF Inv

\* No approval but of the plan that it was given, without conflicts.
LEMMA ApprovalPlan ==
    ASSUME assessment.invalid \in BOOLEAN, NEW b \in BindingType, NEW approve \in BOOLEAN,
           NEW invalid \in BOOLEAN
    PROVE  /\ Approval(b, approve, invalid) \in ApprovalType
           /\ Approval(b, approve, invalid).plan # NoPlan =>
                /\ Approval(b, approve, invalid).plan = b.plan
                /\ b = [plan |-> b.plan, owners |-> {}]
<1> DEFINE errors == assessment.invalid \/ invalid \/ b.owners # {} \/ b.plan = NoPlan \/ ~approve
<1>1. Approval(b, approve, invalid) = [plan |-> IF errors THEN NoPlan ELSE b.plan, errors |-> errors]
  BY DEF Approval
<1>2. errors \in BOOLEAN /\ (~errors => b.owners = {})
  OBVIOUS
<1>3. b.plan \in Plans \cup {NoPlan}
  BY DEF BindingType
<1>4. b.owners = {} => b = [plan |-> b.plan, owners |-> {}]
  BY DEF BindingType
<1> HIDE DEF errors
<1>5. Approval(b, approve, invalid).plan = IF errors THEN NoPlan ELSE b.plan
  BY <1>1
<1>6. Approval(b, approve, invalid) \in ApprovalType
  BY <1>1, <1>2, <1>3 DEF ApprovalType
<1> QED
  BY <1>2, <1>4, <1>5, <1>6

\* A revision that leaves two completed results has run each worker it asked once more.
LEMMA RevisedResults ==
    ASSUME Inv, node = "revise", ~Blocked, NEW requests \in SUBSET Workers,
           NEW new \in Revised(requests)
    PROVE  /\ new \in [Workers -> ResultType]
           /\ requests = {} =>
                /\ PlanOf(new) = PlanOf(results)
                /\ \A w \in Workers : new[w].status \in {results[w].status, "absent"}
           /\ requests # {} /\ (\A w \in Workers : new[w].status = "completed") =>
                \A w \in Workers : new[w].runs \in 1..2 /\ (w \in requests => new[w].runs = 2)
<1>1. /\ new \in [Workers -> ResultType]
      /\ \A w \in Workers :
            /\ new[w].runs = results[w].runs + RunsFor(w, requests)
            /\ w \notin Kept(requests) => new[w].status = "absent"
            /\ w \in Kept(requests) /\ RunsFor(w, requests) = 0 =>
                 new[w].status = results[w].status
  BY DEF Revised
<1>2. \A w \in Workers : results[w].runs = 1
  BY DEF Inv, Planned
<1>3. Cardinality({}) = 0
  BY FS_EmptySet
<1>4. ASSUME requests = {}
      PROVE  /\ PlanOf(new) = PlanOf(results)
             /\ \A w \in Workers : new[w].status \in {results[w].status, "absent"}
  <2>1. \A w \in Workers : RunsFor(w, requests) = 0
    BY <1>3, <1>4 DEF RunsFor
  <2>2. \A w \in Workers : new[w].runs = results[w].runs
    BY <1>1, <1>2, <2>1
  <2>3. PlanOf(new) = PlanOf(results)
    BY <2>2 DEF PlanOf
  <2> QED
    BY <1>1, <2>1, <2>3
<1>5. ASSUME requests # {}, \A w \in Workers : new[w].status = "completed", NEW w \in Workers
      PROVE  new[w].runs \in 1..2 /\ (w \in requests => new[w].runs = 2)
  <2>1. Kept(requests) = Workers
    BY <1>1, <1>5 DEF Kept
  <2>2. shared = ""
    BY <1>5, <2>1 DEF Kept, Workers, Grounding, Planning
  <2>3. RunsFor(w, requests) = Cardinality(requests \cap {w})
    BY <2>2 DEF RunsFor
  <2>4. CASE w \in requests
    <3>1. requests \cap {w} = {w}
      BY <2>4
    <3>2. Cardinality({w}) = 1
      BY FS_Singleton
    <3>3. RunsFor(w, requests) = 1
      BY <2>3, <3>1, <3>2
    <3> QED
      BY <1>1, <1>2, <3>3
  <2>5. CASE w \notin requests
    <3>1. requests \cap {w} = {}
      BY <2>5
    <3>2. RunsFor(w, requests) = 0
      BY <1>3, <2>3, <3>1
    <3> QED
      BY <1>1, <1>2, <2>5, <3>2
  <2> QED
    BY <2>4, <2>5
<1> QED
  BY <1>1, <1>4, <1>5

\* An approved plan is current, and was revised by whom the first binding blamed.
Approved ==
    approval.plan # NoPlan =>
        /\ approval.plan = PlanOf(results)
        /\ binding = [plan |-> approval.plan, owners |-> {}]
        /\ \A w \in Workers : results[w].status \notin {"failed", "needs_clarification"}
        /\ \A w \in conflicts \cap Workers : results[w].runs = 2

\* The one node that runs workers, binds and approves.
LEMMA RevisionsInv == Inv /\ PlanRevisionsApproval => Inv'
<1> SUFFICES ASSUME Inv, PlanRevisionsApproval PROVE Inv'
  OBVIOUS
<1>1. /\ node = "revise" /\ node' = "generate"
      /\ UNCHANGED <<route, shared, conflicts, assessment, generation, accepted, critic, final,
                     outcome>>
  BY DEF PlanRevisionsApproval, Then
<1>2. /\ outcome = Ended("") /\ accepted = <<>>
      /\ generation = [status |-> "absent", candidates |-> <<>>]
  <2>1. node \in BeforeApproval
    BY <1>1 DEF BeforeApproval
  <2> QED
    BY <2>1, UnapprovedFresh
<1>3. /\ results \in [Workers -> ResultType] /\ binding \in BindingType /\ asked \in Stages
      /\ assessment.requests \in SUBSET Workers /\ assessment.invalid \in BOOLEAN
      /\ assessment.approve \in BOOLEAN /\ route.error \in BOOLEAN
  BY DEF Inv, TypeOK, AssessmentType, RouteType
<1>4. /\ NoApproval \in ApprovalType /\ NoApproval.plan = NoPlan
      /\ [plan |-> NoPlan, owners |-> {}] \in BindingType /\ "plan_revisions" \in Stages
  BY DEF NoApproval, ApprovalType, BindingType, Stages
<1>5. /\ results' \in [Workers -> ResultType] /\ binding' \in BindingType /\ asked' \in Stages
      /\ approval' \in ApprovalType
      /\ (asked # "" => asked' # "") /\ (asked' # "" => approval'.plan = NoPlan)
      /\ Approved'
  <2>1. CASE Blocked
    <3>1. /\ approval' = [NoApproval EXCEPT !.errors = route.error]
          /\ UNCHANGED <<asked, results, binding>>
      BY <2>1 DEF PlanRevisionsApproval
    <3>2. approval' \in ApprovalType /\ approval'.plan = NoPlan
      BY <1>3, <3>1 DEF NoApproval, ApprovalType
    <3> QED
      BY <1>3, <3>1, <3>2 DEF Approved
  <2>2. CASE ~Blocked /\ assessment.requests = {}
    <3>1. /\ results' \in Revised({}) /\ UNCHANGED <<asked, binding>>
          /\ approval' = Approval(binding, assessment.approve, FALSE)
      BY <2>2 DEF PlanRevisionsApproval
    <3>2. /\ results' \in [Workers -> ResultType] /\ PlanOf(results') = PlanOf(results)
          /\ \A w \in Workers : results'[w].status \in {results[w].status, "absent"}
      BY <1>1, <2>2, <3>1, RevisedResults
    <3>3. /\ approval' \in ApprovalType
          /\ approval'.plan # NoPlan =>
               approval'.plan = binding.plan /\ binding = [plan |-> binding.plan, owners |-> {}]
      BY <1>3, <3>1, ApprovalPlan
    <3>4. asked = ""
      BY <2>2 DEF Blocked
    <3>5. conflicts \cap Workers = {}
      BY <1>1, <2>2 DEF Inv, Planned
    <3>6. binding.plan # NoPlan => /\ binding.plan = PlanOf(results)
                                   /\ \A w \in Workers : results[w].status = "completed"
      BY <1>1 DEF Inv, Planned
    <3>7. ASSUME approval'.plan # NoPlan
          PROVE  /\ approval'.plan = PlanOf(results')
                 /\ binding' = [plan |-> approval'.plan, owners |-> {}]
                 /\ \A w \in Workers : results'[w].status \notin {"failed", "needs_clarification"}
                 /\ \A w \in conflicts' \cap Workers : results'[w].runs = 2
      <4>1. binding.plan # NoPlan /\ approval'.plan = binding.plan
        BY <3>3, <3>7
      <4>2. \A w \in Workers : results'[w].status \in {"completed", "absent"}
        BY <3>2, <3>6, <4>1
      <4>3. approval'.plan = PlanOf(results')
        BY <3>2, <3>6, <4>1
      <4>4. binding' = [plan |-> approval'.plan, owners |-> {}]
        BY <3>1, <3>3, <3>7
      <4> QED
        BY <1>1, <3>5, <4>2, <4>3, <4>4
    <3> QED
      BY <1>3, <3>1, <3>2, <3>3, <3>4, <3>7 DEF Approved
  <2>3. CASE ~Blocked /\ assessment.requests # {}
    <3>1. /\ results' \in Revised(assessment.requests)
          /\ \/ /\ asked' = "plan_revisions" /\ approval' = NoApproval
                /\ binding' = [plan |-> NoPlan, owners |-> {}] \/ binding' \in Bound(results')
             \/ /\ UNCHANGED asked /\ binding' \in Bound(results')
                /\ \E approve, invalid \in BOOLEAN :
                      approval' = Approval(binding', approve, invalid)
      BY <1>3, <2>3 DEF PlanRevisionsApproval
    <3>2. /\ results' \in [Workers -> ResultType]
          /\ (\A w \in Workers : results'[w].status = "completed") =>
               \A w \in Workers : /\ results'[w].runs \in 1..2
                                  /\ w \in assessment.requests => results'[w].runs = 2
      BY <1>1, <1>3, <2>3, <3>1, RevisedResults
    <3>3. binding' \in Bound(results') =>
            /\ binding' \in BindingType
            /\ binding'.plan # NoPlan =>
                 /\ binding'.plan = PlanOf(results')
                 /\ \A w \in Workers : results'[w].status = "completed"
      BY <3>2, BoundPlan
    <3>4. asked = ""
      BY <2>3 DEF Blocked
    <3>5. CASE /\ asked' = "plan_revisions" /\ approval' = NoApproval
               /\ binding' = [plan |-> NoPlan, owners |-> {}] \/ binding' \in Bound(results')
      <4>1. approval'.plan = NoPlan /\ approval' \in ApprovalType
        BY <1>4, <3>5
      <4>2. binding' \in BindingType
        BY <1>4, <3>3, <3>5
      <4> QED
        BY <1>4, <3>2, <3>5, <4>1, <4>2 DEF Approved
    <3>6. CASE /\ UNCHANGED asked /\ binding' \in Bound(results')
               /\ \E approve, invalid \in BOOLEAN : approval' = Approval(binding', approve, invalid)
      <4>1. /\ approval' \in ApprovalType
            /\ approval'.plan # NoPlan =>
                 approval'.plan = binding'.plan /\ binding' = [plan |-> binding'.plan, owners |-> {}]
        <5>1. PICK approve \in BOOLEAN, invalid \in BOOLEAN :
                     approval' = Approval(binding', approve, invalid)
          BY <3>6
        <5> QED
          BY <1>3, <3>3, <3>6, <5>1, ApprovalPlan
      <4>2. conflicts \cap Workers \subseteq assessment.requests
        BY <1>1, <2>3 DEF Inv, Planned
      <4>3. ASSUME approval'.plan # NoPlan
            PROVE  /\ approval'.plan = PlanOf(results')
                   /\ binding' = [plan |-> approval'.plan, owners |-> {}]
                   /\ \A w \in Workers : results'[w].status \notin {"failed", "needs_clarification"}
                   /\ \A w \in conflicts' \cap Workers : results'[w].runs = 2
        <5>1. \A w \in Workers : results'[w].status = "completed"
          BY <3>3, <3>6, <4>1, <4>3
        <5>2. \A w \in conflicts \cap Workers : results'[w].runs = 2
          BY <3>2, <4>2, <5>1
        <5> QED
          BY <1>1, <3>3, <3>6, <4>1, <4>3, <5>1, <5>2
      <4> QED
        BY <1>3, <3>2, <3>3, <3>4, <3>6, <4>1, <4>3 DEF Approved
    <3> QED
      BY <3>1, <3>5, <3>6
  <2> QED
    BY <2>1, <2>2, <2>3
<1>6. TypeOK'
  BY <1>1, <1>5 DEF Inv, TypeOK, NodeNames
<1>7. Routed'
  BY <1>1, <1>5 DEF Inv, Routed
<1>8. Planned'
  BY <1>1 DEF Planned, BeforeBinding
<1>9. Fresh'
  BY <1>1, <1>2 DEF Fresh, BeforeApproval, BeforeBinding
<1>10. Generated' /\ OnlyVettedSqlRuns'
  BY <1>1, <1>2, EmptyRange, Nothing DEF Generated, OnlyVettedSqlRuns
<1>11. ApprovedPlanIsCurrent' /\ ConflictsAreRevised'
  BY <1>5 DEF Approved, ApprovedPlanIsCurrent, ConflictsAreRevised
<1>12. ClarificationStops'
  BY <1>1, <1>2, <1>5, Nothing DEF ClarificationStops
<1> QED
  BY <1>6, <1>7, <1>8, <1>9, <1>10, <1>11, <1>12 DEF Inv

(***************************************************************************)
(* After the approval.                                                     *)
(***************************************************************************)
AfterApproval == {"generate", "gate", "critic", "select", "execute"}

\* What holds of a step that leaves the plan as it was.
LEMMA ApprovedStep ==
    ASSUME Inv, node \in AfterApproval, node' \in AfterApproval \cup {"end"},
           UNCHANGED <<route, asked, results, binding, conflicts, assessment, approval>>
    PROVE  Routed' /\ Planned' /\ ApprovedPlanIsCurrent' /\ ConflictsAreRevised'
<1>1. Routed'
  BY DEF Inv, Routed, AfterApproval
<1>2. Planned'
  BY DEF Planned, BeforeBinding, AfterApproval
<1>3. ApprovedPlanIsCurrent' /\ ConflictsAreRevised'
  BY DEF Inv, ApprovedPlanIsCurrent, ConflictsAreRevised, PlanOf
<1> QED
  BY <1>1, <1>2, <1>3

\* What a worker answers is cut to the candidates that are allowed, each with its plan.
LEMMA GenerateType ==
    ASSUME NEW plan \in Plans, NEW revision \in 0..1, NEW g \in Generate(plan, revision)
    PROVE  g \in GenerationType
<1>1. CASE g = [status |-> "failed", candidates |-> <<>>]
  BY <1>1 DEF GenerationType
<1>2. CASE \E n \in 1..MaxCandidates, f \in UNION {[1..k -> Faults] : k \in 1..MaxCandidates} :
             /\ f \in [1..n -> Faults]
             /\ g = [status |-> "completed",
                     candidates |-> [i \in 1..n |-> [id |-> i, plan |-> plan, fault |-> f[i],
                                                     revision |-> revision]]]
  <2>1. PICK n \in 1..MaxCandidates, f \in UNION {[1..k -> Faults] : k \in 1..MaxCandidates} :
             /\ f \in [1..n -> Faults]
             /\ g = [status |-> "completed",
                     candidates |-> [i \in 1..n |-> [id |-> i, plan |-> plan, fault |-> f[i],
                                                     revision |-> revision]]]
    BY <1>2
  <2> DEFINE cs == [i \in 1..n |-> [id |-> i, plan |-> plan, fault |-> f[i],
                                    revision |-> revision]]
  <2>2. n \in Nat /\ \A i \in 1..n : i \in 1..MaxCandidates
    BY AgentPipelineAssumption
  <2>3. ASSUME NEW i \in 1..n
        PROVE  [id |-> i, plan |-> plan, fault |-> f[i], revision |-> revision] \in Candidates
    <3>1. f[i] \in Faults
      BY <2>1
    <3> QED
      BY <2>2, <3>1 DEF Candidates
  <2>4. cs \in Seq(Candidates)
    BY <2>2, <2>3
  <2> HIDE DEF cs
  <2> QED
    BY <2>1, <2>4 DEF GenerationType, cs
<1> QED
  BY <1>1, <1>2 DEF Generate

\* The gates add nothing.
LEMMA GatedOnly ==
    ASSUME NEW candidates \in Seq(Candidates), NEW plan, NEW s \in Gated(candidates, plan)
    PROVE  s \in Seq(Candidates) /\ Range(s) \subseteq Range(candidates)
<1>1. PICK n \in 0..Len(candidates) : s \in [1..n -> Range(candidates)]
  BY DEF Gated
<1>2. Range(candidates) \subseteq Candidates /\ n \in Nat
  BY DEF Range
<1>3. Range(s) \subseteq Range(candidates)
  BY <1>1 DEF Range
<1>4. s \in Seq(Candidates)
  BY <1>1, <1>2
<1> QED
  BY <1>3, <1>4

\* A generation belongs to the approved plan.
LEMMA GenerationInv == Inv /\ SqlGeneration => Inv'
<1> SUFFICES ASSUME Inv, SqlGeneration PROVE Inv'
  OBVIOUS
<1>1. /\ node = "generate" /\ node' = "gate"
      /\ UNCHANGED <<route, asked, results, binding, conflicts, assessment, approval>>
      /\ UNCHANGED <<shared, accepted, critic, final, outcome>>
      /\ generation' \in
           IF Blocked THEN {generation}
           ELSE IF approval.plan = NoPlan THEN {[status |-> "skipped", candidates |-> <<>>]}
           ELSE Generate(approval.plan, 0)
  BY DEF SqlGeneration, Then
<1>2. outcome = Ended("") /\ accepted = <<>>
  BY <1>1 DEF Inv, Fresh, BeforeGates, BeforeGeneration
<1>3. /\ generation \in GenerationType
      /\ approval.plan # NoPlan => approval.plan \in Plans
  BY DEF Inv, TypeOK, ApprovalType
<1>4. generation' \in GenerationType
  <2>1. [status |-> "skipped", candidates |-> <<>>] \in GenerationType
    BY DEF GenerationType
  <2> QED
    BY <1>1, <1>3, <2>1, GenerateType
<1>5. asked # "" => UNCHANGED generation
  BY <1>1 DEF Blocked
<1>6. TypeOK'
  BY <1>1, <1>4 DEF Inv, TypeOK, NodeNames
<1>7. Routed' /\ Planned' /\ ApprovedPlanIsCurrent' /\ ConflictsAreRevised'
  BY <1>1, ApprovedStep DEF AfterApproval
<1>8. Fresh'
  BY <1>1, <1>2 DEF Fresh, BeforeGeneration, BeforeApproval, BeforeBinding
<1>9. Generated' /\ OnlyVettedSqlRuns'
  BY <1>1, <1>2, EmptyRange, Nothing DEF Generated, OnlyVettedSqlRuns
<1>10. ClarificationStops'
  BY <1>1, <1>5 DEF Inv, ClarificationStops
<1> QED
  BY <1>6, <1>7, <1>8, <1>9, <1>10 DEF Inv

\* The gates, and the repair.
LEMMA GatesInv == Inv /\ CandidateGates => Inv'
<1> SUFFICES ASSUME Inv, CandidateGates PROVE Inv'
  OBVIOUS
<1>1. /\ node = "gate" /\ node' = "critic"
      /\ UNCHANGED <<route, asked, results, binding, conflicts, assessment, approval>>
      /\ UNCHANGED <<shared, critic, final, outcome>>
  BY DEF CandidateGates, Then
<1>2. outcome = Ended("") /\ accepted = <<>>
  BY <1>1 DEF Inv, Fresh, BeforeGates
<1>3. /\ generation \in GenerationType /\ accepted \in Seq(Candidates)
      /\ approval.plan # NoPlan => approval.plan \in Plans
  BY DEF Inv, TypeOK, ApprovalType
<1>4. /\ generation' \in GenerationType /\ accepted' \in Seq(Candidates)
      /\ Range(accepted') \subseteq Range(generation'.candidates)
      /\ asked # "" => UNCHANGED <<generation, accepted>>
  <2>1. CASE Blocked \/ approval.plan = NoPlan
    <3>1. UNCHANGED <<generation, accepted>>
      BY <2>1 DEF CandidateGates
    <3> QED
      BY <1>3, <3>1 DEF Inv, Generated
  <2>2. CASE ~Blocked /\ approval.plan # NoPlan
    <3>1. PICK first \in Gated(generation.candidates, approval.plan) :
                IF first # <<>>
                THEN accepted' = first /\ UNCHANGED generation
                ELSE /\ generation' \in Generate(approval.plan, 1)
                     /\ accepted' \in Gated(generation'.candidates, approval.plan)
      BY <2>2 DEF CandidateGates
    <3>2. generation' \in GenerationType
      BY <1>3, <2>2, <3>1, GenerateType
    <3>3. accepted' \in Gated(generation'.candidates, approval.plan)
      BY <3>1
    <3>4. generation'.candidates \in Seq(Candidates)
      BY <3>2 DEF GenerationType
    <3>5. asked = ""
      BY <2>2 DEF Blocked
    <3> QED
      BY <3>2, <3>3, <3>4, <3>5, GatedOnly
  <2> QED
    BY <2>1, <2>2
<1>5. TypeOK'
  BY <1>1, <1>4 DEF Inv, TypeOK, NodeNames
<1>6. Routed' /\ Planned' /\ ApprovedPlanIsCurrent' /\ ConflictsAreRevised'
  BY <1>1, ApprovedStep DEF AfterApproval
<1>7. Fresh'
  BY <1>1, <1>2 DEF Fresh, BeforeGates, BeforeGeneration, BeforeApproval, BeforeBinding
<1>8. Generated' /\ OnlyVettedSqlRuns'
  BY <1>1, <1>2, <1>4, Nothing DEF Generated, OnlyVettedSqlRuns
<1>9. ClarificationStops'
  BY <1>1, <1>4 DEF Inv, ClarificationStops
<1> QED
  BY <1>5, <1>6, <1>7, <1>8, <1>9 DEF Inv

\* The Critic decides of each accepted candidate.
LEMMA CriticInv == Inv /\ Critic => Inv'
<1> SUFFICES ASSUME Inv, Critic PROVE Inv'
  OBVIOUS
<1>1. /\ node = "critic" /\ node' = "select"
      /\ UNCHANGED <<route, asked, results, binding, conflicts, assessment, approval>>
      /\ UNCHANGED <<shared, generation, accepted, final, outcome>>
  BY DEF Critic, Then
<1>2. critic' \in CriticType
  <2> DEFINE reviewed == IF Blocked THEN {} ELSE DOMAIN accepted
  <2>1. accepted \in Seq(Candidates)
    BY DEF Inv, TypeOK
  <2>2. PICK n \in Nat : reviewed = {} \/ reviewed = 1..n
    BY <2>1
  <2>3. \/ /\ reviewed = {} /\ critic' = [decisions |-> <<>>, error |-> FALSE]
        \/ /\ reviewed # {}
           /\ \E d \in [reviewed -> BOOLEAN] : critic' = [decisions |-> d, error |-> FALSE]
        \/ /\ reviewed # {}
           /\ critic' = [decisions |-> [i \in reviewed |-> FALSE], error |-> TRUE]
    BY DEF Critic
  <2> HIDE DEF reviewed
  <2>4. <<>> \in Seq(BOOLEAN) /\ \A d \in [1..n -> BOOLEAN] : d \in Seq(BOOLEAN)
    OBVIOUS
  <2>5. \E d \in Seq(BOOLEAN), e \in BOOLEAN : critic' = [decisions |-> d, error |-> e]
    <3>1. CASE reviewed = {}
      BY <2>3, <2>4, <3>1
    <3>2. CASE reviewed # {}
      <4>1. [i \in reviewed |-> FALSE] \in [1..n -> BOOLEAN]
        BY <2>2, <3>2
      <4>2. \E d \in [1..n -> BOOLEAN], e \in BOOLEAN : critic' = [decisions |-> d, error |-> e]
        BY <2>2, <2>3, <3>2, <4>1
      <4> QED
        BY <2>4, <4>2
    <3> QED
      BY <3>1, <3>2
  <2> QED
    BY <2>5 DEF CriticType
<1>3. outcome = Ended("")
  BY <1>1 DEF Inv, Fresh
<1>4. TypeOK'
  BY <1>1, <1>2 DEF Inv, TypeOK, NodeNames
<1>5. Routed' /\ Planned' /\ ApprovedPlanIsCurrent' /\ ConflictsAreRevised'
  BY <1>1, ApprovedStep DEF AfterApproval
<1>6. Fresh'
  BY <1>1, <1>3 DEF Fresh, BeforeGates, BeforeGeneration, BeforeApproval, BeforeBinding
<1>7. Generated' /\ OnlyVettedSqlRuns'
  BY <1>1, <1>3, Nothing DEF Inv, Generated, OnlyVettedSqlRuns
<1>8. ClarificationStops'
  BY <1>1 DEF Inv, ClarificationStops
<1> QED
  BY <1>4, <1>5, <1>6, <1>7, <1>8 DEF Inv

\* Whatever is selected, nothing is executed yet.
LEMMA FinalInv == Inv /\ LeadFinal => Inv'
<1> SUFFICES ASSUME Inv, LeadFinal PROVE Inv'
  OBVIOUS
<1>1. /\ node = "select" /\ node' = "execute"
      /\ UNCHANGED <<route, asked, results, binding, conflicts, assessment, approval>>
      /\ UNCHANGED <<shared, generation, accepted, critic, outcome>>
  BY DEF LeadFinal, Then
<1>2. final' \in FinalType
  <2>1. critic.decisions \in Seq(BOOLEAN)
    BY DEF Inv, TypeOK, CriticType
  <2>2. Selectable \subseteq Nat
    BY <2>1 DEF Selectable
  <2>3. Selections \subseteq Nat
    <3>1. Selections = {0} \/ Selections = Selectable \/ Selections = 0..MaxCandidates + 1
      BY Zenon DEF Selections
    <3>2. {0} \subseteq Nat /\ 0..MaxCandidates + 1 \subseteq Nat
      BY AgentPipelineAssumption
    <3> QED
      BY <2>2, <3>1, <3>2
  <2>4. \E index \in Selections, new \in BOOLEAN : final' = [index |-> index, newQuery |-> new]
    BY DEF LeadFinal
  <2> QED
    BY <2>3, <2>4 DEF FinalType
<1>3. outcome = Ended("")
  BY <1>1 DEF Inv, Fresh
<1>4. TypeOK'
  BY <1>1, <1>2 DEF Inv, TypeOK, NodeNames
<1>5. Routed' /\ Planned' /\ ApprovedPlanIsCurrent' /\ ConflictsAreRevised'
  BY <1>1, ApprovedStep DEF AfterApproval
<1>6. Fresh'
  BY <1>1, <1>3 DEF Fresh, BeforeGates, BeforeGeneration, BeforeApproval, BeforeBinding
<1>7. Generated' /\ OnlyVettedSqlRuns'
  BY <1>1, <1>3, Nothing DEF Inv, Generated, OnlyVettedSqlRuns
<1>8. ClarificationStops'
  BY <1>1 DEF Inv, ClarificationStops
<1> QED
  BY <1>4, <1>5, <1>6, <1>7, <1>8 DEF Inv

\* The last gates.
LEMMA ExecuteInv == Inv /\ GatesExecute => Inv'
<1> SUFFICES ASSUME Inv, GatesExecute PROVE Inv'
  OBVIOUS
<1>1. /\ node = "execute" /\ node' = "end"
      /\ UNCHANGED <<route, asked, results, binding, conflicts, assessment, approval>>
      /\ UNCHANGED <<shared, generation, accepted, critic, final>>
  BY DEF GatesExecute, Then
<1>2. /\ accepted \in Seq(Candidates) /\ route.type \in RouteTypes
      /\ Selectable' = Selectable
  BY <1>1 DEF Inv, TypeOK, RouteType, Selectable
<1>3. /\ outcome' \in OutcomeType /\ OnlyVettedSqlRuns'
      /\ asked # "" => outcome'.status = "needs_clarification"
  <2>1. ASSUME NEW status \in Statuses, outcome' = Ended(status), status # "success",
               asked # "" => status = "needs_clarification"
        PROVE  /\ outcome' \in OutcomeType /\ OnlyVettedSqlRuns'
               /\ asked # "" => outcome'.status = "needs_clarification"
    <3>1. outcome'.status = status
      BY <2>1, Nothing
    <3>2. outcome' \in OutcomeType
      BY <2>1 DEF Ended, OutcomeType
    <3> QED
      BY <2>1, <3>1, <3>2 DEF OnlyVettedSqlRuns
  <2>2. CASE asked # ""
    <3>1. outcome' = Ended("needs_clarification")
      BY <2>2 DEF GatesExecute
    <3> QED
      BY <2>1, <2>2, <3>1 DEF Statuses
  <2>3. CASE asked = "" /\ route.type = "RESULT_QA"
    <3>1. outcome' = Ended(IF route.error \/ final.newQuery THEN "needs_new_query" ELSE "success")
      BY <2>3 DEF GatesExecute
    <3>2. CASE route.error \/ final.newQuery
      BY <2>1, <2>3, <3>1, <3>2 DEF Statuses
    <3>3. CASE ~route.error /\ ~final.newQuery
      <4>1. outcome' = Ended("success")
        BY <3>1, <3>3
      <4>2. outcome' \in OutcomeType
        BY <4>1 DEF Ended, OutcomeType, Statuses
      <4>3. route.parent
        BY <2>3, <3>3 DEF Inv, Routed
      <4> QED
        BY <1>1, <2>3, <3>3, <4>1, <4>2, <4>3, Nothing DEF OnlyVettedSqlRuns
    <3> QED
      BY <3>2, <3>3
  <2>4. CASE asked = "" /\ route.type # "RESULT_QA" /\ (route.error \/ Refused)
    <3>1. outcome' = Ended("rejected")
      BY <2>4 DEF GatesExecute
    <3> QED
      BY <2>1, <2>4, <3>1 DEF Statuses
  <2>5. CASE asked = "" /\ route.type # "RESULT_QA" /\ ~route.error /\ ~Refused
    <3>1. outcome' = [status |-> "success", executed |-> accepted[final.index]]
      BY <2>5 DEF GatesExecute
    <3>2. /\ final.index \in DOMAIN accepted /\ final.index \in Selectable
          /\ approval.plan # NoPlan /\ Passes(accepted[final.index], approval.plan)
      BY <2>5 DEF Refused
    <3>3. accepted[final.index] \in Candidates /\ accepted[final.index] \in Range(accepted)
      BY <1>2, <3>2 DEF Range
    <3>4. /\ outcome'.status = "success" /\ outcome'.executed = accepted[final.index]
          /\ outcome' \in OutcomeType
      BY <3>1, <3>3 DEF OutcomeType, Statuses
    <3>5. outcome'.executed # NoCandidate /\ outcome'.executed \in Range(generation.candidates)
      BY <3>3, <3>4, NothingAssumption DEF Inv, Generated
    <3>6. route.type \in {"DATA_QUERY", "FOLLOW_UP_QUERY"}
      BY <1>2, <2>5 DEF Inv, Routed, RouteTypes
    <3>7. OnlyVettedSqlRuns'
      BY <1>1, <1>2, <2>5, <3>2, <3>4, <3>5, <3>6 DEF OnlyVettedSqlRuns
    <3> QED
      BY <2>5, <3>4, <3>7
  <2> QED
    BY <2>2, <2>3, <2>4, <2>5
<1>4. TypeOK'
  BY <1>1, <1>3 DEF Inv, TypeOK, NodeNames
<1>5. Routed' /\ Planned' /\ ApprovedPlanIsCurrent' /\ ConflictsAreRevised'
  BY <1>1, ApprovedStep DEF AfterApproval
<1>6. Fresh'
  BY <1>1 DEF Fresh, BeforeGates, BeforeGeneration, BeforeApproval, BeforeBinding
<1>7. Generated'
  BY <1>1 DEF Inv, Generated
<1>8. ClarificationStops'
  BY <1>1, <1>3 DEF Inv, ClarificationStops
<1> QED
  BY <1>3, <1>4, <1>5, <1>6, <1>7, <1>8 DEF Inv

\* The invariant is inductive.
LEMMA NextInv == Inv /\ [Next]_vars => Inv'
<1> SUFFICES ASSUME Inv, [Next]_vars PROVE Inv'
  OBVIOUS
<1>1. CASE Next
  BY <1>1, RoutingInv, EvidenceInv, WorkersInv, BindingInv, AssessmentInv, RevisionsInv,
     GenerationInv, GatesInv, CriticInv, FinalInv, ExecuteInv DEF Next
<1>2. CASE UNCHANGED vars
  <2>1. /\ UNCHANGED <<node, route, shared, asked, results, binding, conflicts, assessment>>
        /\ UNCHANGED <<approval, generation, accepted, critic, final, outcome>>
    BY <1>2 DEF vars
  <2>2. TypeOK'
    BY <2>1 DEF Inv, TypeOK
  <2>3. Routed'
    BY <2>1 DEF Inv, Routed
  <2>4. Blocked' <=> Blocked
    BY <2>1 DEF Blocked
  <2>5. Planned'
    BY <2>1, <2>4 DEF Inv, Planned, PlanOf
  <2>6. Fresh' /\ Generated'
    BY <2>1 DEF Inv, Fresh, Generated
  <2>7. /\ ApprovedPlanIsCurrent' /\ ConflictsAreRevised' /\ ClarificationStops'
        /\ OnlyVettedSqlRuns'
    BY <2>1 DEF Inv, ApprovedPlanIsCurrent, ConflictsAreRevised, ClarificationStops,
       OnlyVettedSqlRuns, PlanOf, Selectable
  <2> QED
    BY <2>2, <2>3, <2>5, <2>6, <2>7 DEF Inv
<1> QED
  BY <1>1, <1>2

\* Every reachable state satisfies the invariant.
THEOREM Invariance == Spec => []Inv
  BY InitInv, NextInv, PTL DEF Spec

(***************************************************************************)
(* The safety properties.                                                  *)
(***************************************************************************)
\* Type correctness.
THEOREM TypeCorrect == Spec => []TypeOK
<1>1. Inv => TypeOK
  BY DEF Inv
<1> QED
  BY <1>1, Invariance, PTL

\* Whatever the models answer, only a candidate that the gates and the Critic accepted is
\* executed, and only an authenticated result is shown again.
THEOREM ExecutedSqlIsVetted == Spec => []OnlyVettedSqlRuns
<1>1. Inv => OnlyVettedSqlRuns
  BY DEF Inv
<1> QED
  BY <1>1, Invariance, PTL

\* A revision never leaves the approval of a plan that was bound before it.
THEOREM ApprovalIsCurrent == Spec => []ApprovedPlanIsCurrent
<1>1. Inv => ApprovedPlanIsCurrent
  BY DEF Inv
<1> QED
  BY <1>1, Invariance, PTL

\* The binder's conflicts cannot be approved away.
THEOREM BlamedWorkersSpeakAgain == Spec => []ConflictsAreRevised
<1>1. Inv => ConflictsAreRevised
  BY DEF Inv
<1> QED
  BY <1>1, Invariance, PTL

\* A question to the user is the end of the run.
THEOREM AskingStopsTheRun == Spec => []ClarificationStops
<1>1. Inv => ClarificationStops
  BY DEF Inv
<1> QED
  BY <1>1, Invariance, PTL

(***************************************************************************)
(* No refusal without a cause.  The lists of the gates, the Critic and the  *)
(* Lead are three; the invariant says how they fit together, node by node.  *)
(***************************************************************************)
Reviewed == {"select", "execute", "end"}
Gatekept == Reviewed \cup {"critic"}

Fitting ==
    /\ node \in Gatekept => \A i \in DOMAIN accepted : Passes(accepted[i], approval.plan)
    /\ node \in Gatekept /\ accepted # <<>> => approval.plan # NoPlan
    /\ node \in Reviewed => Selectable \subseteq DOMAIN accepted
    /\ node \in {"execute", "end"} /\ ~Blocked /\ accepted # <<>> =>
          (Cardinality(Selectable) = 1 => final.index \in Selectable)
    /\ node = "end" => RejectionHasACause

LEMMA InitFitting == Init => Fitting
  BY DEF Init, Fitting, Gatekept, Reviewed

\* What the gates accept does what the plan says.
LEMMA GatedPasses ==
    ASSUME NEW candidates, NEW plan, NEW s \in Gated(candidates, plan)
    PROVE  \A i \in DOMAIN s : Passes(s[i], plan)
  BY DEF Gated

LEMMA GatesFitting == Inv /\ CandidateGates => Fitting'
<1> SUFFICES ASSUME Inv, CandidateGates PROVE Fitting'
  OBVIOUS
<1>1. node = "gate" /\ node' = "critic" /\ approval' = approval
  BY DEF CandidateGates, Then
<1>2. accepted = <<>>
  BY <1>1 DEF Inv, Fresh, BeforeGates
<1>3. CASE Blocked \/ approval.plan = NoPlan
  <2>1. accepted' = <<>>
    BY <1>2, <1>3 DEF CandidateGates
  <2> QED
    BY <1>1, <2>1 DEF Fitting, Gatekept, Reviewed
<1>4. CASE ~Blocked /\ approval.plan # NoPlan
  <2>1. PICK candidates : accepted' \in Gated(candidates, approval.plan)
    BY <1>4 DEF CandidateGates
  <2>2. \A i \in DOMAIN accepted' : Passes(accepted'[i], approval.plan)
    BY <2>1, GatedPasses
  <2> QED
    BY <1>1, <1>4, <2>2 DEF Fitting, Gatekept, Reviewed
<1> QED
  BY <1>3, <1>4

LEMMA CriticFitting == Inv /\ Fitting /\ Critic => Fitting'
<1> SUFFICES ASSUME Inv, Fitting, Critic PROVE Fitting'
  OBVIOUS
<1>1. /\ node = "critic" /\ node' = "select"
      /\ UNCHANGED <<approval, accepted>>
  BY DEF Critic, Then
<1>2. DOMAIN critic'.decisions \subseteq DOMAIN accepted
  <2>1. CASE critic' = [decisions |-> <<>>, error |-> FALSE]
    BY <2>1
  <2>2. CASE \E d \in [DOMAIN accepted -> BOOLEAN] : critic' = [decisions |-> d, error |-> FALSE]
    BY <2>2
  <2>3. CASE critic' = [decisions |-> [i \in DOMAIN accepted |-> FALSE], error |-> TRUE]
    BY <2>3
  <2> QED
    BY <2>1, <2>2, <2>3 DEF Critic
<1>3. Selectable' \subseteq DOMAIN accepted'
  BY <1>1, <1>2 DEF Selectable
<1> QED
  BY <1>1, <1>3 DEF Fitting, Gatekept, Reviewed

LEMMA FinalFitting == Inv /\ Fitting /\ LeadFinal => Fitting'
<1> SUFFICES ASSUME Inv, Fitting, LeadFinal PROVE Fitting'
  OBVIOUS
<1>1. /\ node = "select" /\ node' = "execute"
      /\ UNCHANGED <<approval, accepted, critic, route, asked>>
  BY DEF LeadFinal, Then
<1>2. Selectable' = Selectable /\ (Blocked' <=> Blocked)
  BY <1>1 DEF Selectable, Blocked
<1>3. final'.index \in Selections
  <2>1. \E index \in Selections, new \in BOOLEAN : final' = [index |-> index, newQuery |-> new]
    BY DEF LeadFinal
  <2> QED
    BY <2>1
<1>4. ASSUME ~Blocked, accepted # <<>>, Cardinality(Selectable) = 1
      PROVE  final'.index \in Selectable
  <2>1. Selectable # {}
    BY <1>4, FS_EmptySet
  <2>2. Selections = Selectable
    BY <1>4, <2>1 DEF Selections, Blocked
  <2> QED
    BY <1>3, <2>2
<1> QED
  BY <1>1, <1>2, <1>4 DEF Fitting, Gatekept, Reviewed

LEMMA ExecuteFitting == Inv /\ Fitting /\ GatesExecute => Fitting'
<1> SUFFICES ASSUME Inv, Fitting, GatesExecute PROVE Fitting'
  OBVIOUS
<1>1. /\ node = "execute" /\ node' = "end"
      /\ UNCHANGED <<approval, accepted, critic, route, asked, final>>
  BY DEF GatesExecute, Then
<1>2. Selectable' = Selectable /\ (Blocked' <=> Blocked)
  BY <1>1 DEF Selectable, Blocked
<1>3. /\ \A i \in DOMAIN accepted : Passes(accepted[i], approval.plan)
      /\ accepted # <<>> => approval.plan # NoPlan
      /\ Selectable \subseteq DOMAIN accepted
      /\ ~Blocked /\ accepted # <<>> =>
            (Cardinality(Selectable) = 1 => final.index \in Selectable)
  BY <1>1 DEF Fitting, Gatekept, Reviewed
<1>4. ASSUME outcome'.status = "rejected", ~route.error, ~approval.errors, ~critic.error,
             accepted # <<>>, Selectable # {}
      PROVE  Cardinality(Selectable) > 1 /\ final.index \notin Selectable
  <2>1. asked = "" /\ route.type # "RESULT_QA" /\ Refused
    <3>1. asked = ""
      BY <1>4, Nothing DEF GatesExecute
    <3>2. route.type # "RESULT_QA"
      <4> SUFFICES ASSUME route.type = "RESULT_QA" PROVE FALSE
        OBVIOUS
      <4>1. outcome' = Ended(IF route.error \/ final.newQuery THEN "needs_new_query" ELSE "success")
        BY <3>1 DEF GatesExecute
      <4> QED
        BY <1>4, <4>1, Nothing
    <3>3. Refused
      <4> SUFFICES ASSUME ~Refused PROVE FALSE
        OBVIOUS
      <4>1. outcome' = [status |-> "success", executed |-> accepted[final.index]]
        BY <1>4, <3>1, <3>2 DEF GatesExecute
      <4> QED
        BY <1>4, <4>1
    <3> QED
      BY <3>1, <3>2, <3>3
  <2>2. ~Blocked
    BY <1>4, <2>1 DEF Blocked
  <2>3. final.index \notin Selectable
    BY <1>3, <1>4, <2>1 DEF Refused
  <2>4. Cardinality(Selectable) # 1
    BY <1>3, <1>4, <2>2, <2>3
  <2>5. IsFiniteSet(Selectable)
    <3>1. critic.decisions \in Seq(BOOLEAN)
      BY DEF Inv, TypeOK, CriticType
    <3>2. PICK n \in Nat : DOMAIN critic.decisions = 1..n
      BY <3>1
    <3>3. IsFiniteSet(1..n)
      BY FS_Interval
    <3> QED
      BY <3>2, <3>3, FS_Subset DEF Selectable
  <2>6. Cardinality(Selectable) \in Nat /\ Cardinality(Selectable) # 0
    BY <1>4, <2>5, FS_CardinalityType, FS_EmptySet
  <2> QED
    BY <2>3, <2>4, <2>6
<1>5. RejectionHasACause'
  BY <1>1, <1>2, <1>4 DEF RejectionHasACause
<1> QED
  BY <1>1, <1>2, <1>3, <1>5 DEF Fitting, Gatekept, Reviewed

LEMMA NextFitting == Inv /\ Fitting /\ [Next]_vars => Fitting'
<1> SUFFICES ASSUME Inv, Fitting, [Next]_vars PROVE Fitting'
  OBVIOUS
<1>1. CASE node' \notin Gatekept
  BY <1>1 DEF Fitting, Gatekept, Reviewed
<1>2. CASE CandidateGates \/ Critic \/ LeadFinal \/ GatesExecute
  BY <1>2, GatesFitting, CriticFitting, FinalFitting, ExecuteFitting
<1>3. CASE LeadRouting \/ EvidenceOrchestration \/ PlanWorkers \/ PlanBinding \/ LeadAssessment
           \/ PlanRevisionsApproval \/ SqlGeneration
  <2>1. LeadRouting => node' = "evidence"
    BY DEF LeadRouting, Then
  <2>2. EvidenceOrchestration => node' = "workers"
    BY DEF EvidenceOrchestration, Then
  <2>3. PlanWorkers => node' = "bind"
    BY DEF PlanWorkers, Then
  <2>4. PlanBinding => node' = "assess"
    BY DEF PlanBinding, Then
  <2>5. LeadAssessment => node' = "revise"
    BY DEF LeadAssessment, Then
  <2>6. PlanRevisionsApproval => node' = "generate"
    BY DEF PlanRevisionsApproval, Then
  <2>7. SqlGeneration => node' = "gate"
    BY DEF SqlGeneration, Then
  <2>8. node' \notin Gatekept
    BY <1>3, <2>1, <2>2, <2>3, <2>4, <2>5, <2>6, <2>7 DEF Gatekept, Reviewed
  <2> QED
    BY <1>1, <2>8
<1>4. CASE UNCHANGED vars
  <2>1. UNCHANGED <<node, route, asked, approval, accepted, critic, final, outcome>>
    BY <1>4 DEF vars
  <2> QED
    BY <2>1 DEF Fitting, Selectable, Blocked, RejectionHasACause
<1> QED
  BY <1>2, <1>3, <1>4 DEF Next

\* Whatever the models answer and however many candidates there are: what the last gates check
\* again refuses nothing that the gates, the Critic and the Lead let through.
THEOREM RefusalsHaveACause == Spec => []RejectionHasACause
<1>1. ASSUME Inv, Fitting
      PROVE  RejectionHasACause
  <2>1. CASE node = "end"
    BY <1>1, <2>1 DEF Fitting
  <2>2. CASE node # "end"
    <3>1. outcome = Ended("")
      BY <1>1, <2>2 DEF Inv, Fresh
    <3> QED
      BY <3>1, Nothing DEF RejectionHasACause
  <2> QED
    BY <2>1, <2>2
<1> QED
  BY <1>1, InitFitting, NextFitting, Invariance, PTL DEF Spec
=============================================================================
