-------------------------- MODULE ShadowReleaseProofs --------------------------
(* The release of a candidate under any number of queries, tasks, policies    *)
(* and deployments, with one operator at a time: the counters are the         *)
(* observations, releases succeed each other, and what a candidate is allowed *)
(* to do it was cleared for.  A release is decided by rows that several       *)
(* transactions write, so the invariant ties together what the deployment,    *)
(* its candidate and the frames in flight may say about each other.           *)
EXTENDS ShadowRelease, FiniteSetTheorems, TLAPS

\* Operators take turns: the code does not serialise them (see the README).
OneOperator == \A o, p \in Operators : o = p

Known(d)  == deployments[d].status # "absent"
Early     == {"absent", "candidate", "evaluated", "shadow_ready"}  \* not yet released
Cleared   == {"shadow_passed", "canary_running", "canary_passed", "stable"}
Running   == {"run", "record", "insert", "advance", "settle", "answer"}
Candidate(d) == deployments[d].candidate

\* The approval of a deployment is in the audit.
Approved(d) == <<"shadow_approve", deployments[d].stable, deployments[d].candidate>> \in audit

\* A policy that may be active: the first one, or one whose activation is in the audit.
Earned(p) ==
    \/ p = Baseline
    \/ \E change \in audit :
         change[1] \in {"approve", "automatic_offline_gate_approve"} /\ change[3] = p

\* The observations of a lane of a deployment with one of some differences.
Seen(d, lane, diffs) ==
    {o \in Deployments \X Tasks \X Lanes :
        o[1] = d /\ o[3] = lane /\ Recorded(o) /\ observations[o].diff \in diffs}

\* Nobody has run the candidate in the canary lane.
NoCanary(d) ==
    /\ \A t \in Tasks : ~Recorded(<<d, t, "canary">>)
    /\ \A q \in Queries :
         query[q].pc \in Running /\ query[q].deployment = d => query[q].lane = "stable"

(***************************************************************************)
(* The invariant                                                           *)
(***************************************************************************)
\* A deployment and its candidate: it was evaluated as it is pinned, and what the
\* deployment has passed it has the samples, the approval and the verdicts for.
RowOK(d) ==
    /\ policies[Candidate(d)].status \notin Early
    /\ deployments[d].pins \in policies[Candidate(d)].passed
    /\ deployments[d].status \in {"shadow_review", "shadow_passed", "canary_running", "canary_passed"}
         => deployments[d].samples >= MinShadow
    /\ deployments[d].status = "canary_passed" => deployments[d].canarySamples >= MinCanary
    /\ deployments[d].status \in {"shadow_passed", "canary_running"} => Approved(d)
    /\ deployments[d].status \in Cleared => Adverse(d) = {}

RowsOK == \A d \in Deployments : Known(d) => RowOK(d)

\* A candidate is released once, and one release is unfinished.
Exclusive ==
    /\ \A d, e \in Deployments : Known(d) /\ Known(e) /\ Candidate(d) = Candidate(e) => d = e
    /\ \A d, e \in Unfinished : d = e

\* Only the active policy can be an approved one.
PoliciesOK ==
    /\ \A p \in Policies : policies[p].status = "approved" => p = active
    /\ \A p \in Policies : policies[p].status \in {"approved", "retired"} => Earned(p)
    /\ Earned(active)

\* The counters of a deployment are the numbers of its observations.
CountOK(d) ==
    /\ \A lane \in Lanes : IsFiniteSet(Seen(d, lane, Diffs))
    /\ deployments[d].samples = Cardinality(Seen(d, "stable", Diffs))
    /\ deployments[d].failures = Cardinality(Seen(d, "stable", Failures))
    /\ deployments[d].disagreements = Cardinality(Seen(d, "stable", Disagreements))
    /\ deployments[d].canarySamples = Cardinality(Seen(d, "canary", Diffs))
    /\ deployments[d].canaryFailures = Cardinality(Seen(d, "canary", Failures))
    /\ ~Known(d) => \A t \in Tasks, lane \in Lanes : ~Recorded(<<d, t, lane>>)

CountsOK == \A d \in Deployments : CountOK(d)

\* The canary lane begins after the shadow is over.
LanesOK ==
    \A d \in Deployments :
        deployments[d].status \in {"shadow_running", "shadow_review", "shadow_passed"} => NoCanary(d)

\* What a query holds is still true of the tables, whatever happened to them meanwhile.
QueryOK(q) ==
    /\ query[q].pc \notin {"idle", "done"} => query[q].task \in Tasks
    /\ query[q].pc \in Running \cup {"drift"} =>
         query[q].deployment \in Deployments /\ Known(query[q].deployment)
    /\ query[q].pc \in Running =>
         /\ query[q].env = deployments[query[q].deployment].pins
         /\ query[q].lane = "canary" => Approved(query[q].deployment)
    /\ query[q].pc \in {"advance", "settle"} =>
         Recorded(<<query[q].deployment, query[q].task, query[q].lane>>)
    /\ query[q].pc = "settle" => query[q].decision \in {"stay", "rollback"}
    /\ query[q].pc # "done" => query[q].answered = "none"
    /\ query[q].answered = "candidate" =>
         query[q].deployment \in Deployments /\ Known(query[q].deployment)
           /\ Approved(query[q].deployment)

QueriesOK == \A q \in Queries : QueryOK(q)

\* The release an operator is about to move has not been moved, only rolled back.
Held(d, status) ==
    /\ d \in Deployments
    /\ deployments[d].status \in {status, "rolled_back"}
    /\ deployments[d].samples >= MinShadow
    /\ Adverse(d) = {}
    /\ NoCanary(d)
    /\ \A e \in Unfinished : e = d

\* What an operator has checked is still true, as far as queries leave it alone.
Checked(f) ==
    /\ f.todo = "evaluate" => policies[f.policy].status \in Early \ {"absent"}
    /\ f.todo = "configure" =>
         /\ policies[f.policy].status = "shadow_ready"
         /\ f.env \in policies[f.policy].passed
    /\ f.todo = "review" =>
         /\ f.deployment \in Deployments /\ f.task \in Tasks
         /\ deployments[f.deployment].status \in {"shadow_review", "rolled_back"}
         /\ Recorded(<<f.deployment, f.task, "stable">>)
    /\ f.todo = "reject" => f.deployment \in Deployments /\ Known(f.deployment)
    /\ f.todo = "approve" => Held(f.deployment, "shadow_review")
    /\ f.todo = "canary" => Held(f.deployment, "shadow_passed") /\ Approved(f.deployment)
    /\ f.todo \in {"activate", "automatic", "rollback"} => f.previous = active
    /\ f.todo = "activate" =>
         \E d \in Deployments :
           /\ Candidate(d) = f.policy /\ deployments[d].stable = active
           /\ deployments[d].status \in {"canary_passed", "rolled_back"}
           /\ deployments[d].samples >= MinShadow
           /\ deployments[d].canarySamples >= MinCanary
    /\ f.todo = "automatic" =>
         /\ f.policy \in Compiled /\ policies[f.policy].status = "shadow_ready"
         /\ policies[f.policy].parent = active /\ policies[f.policy].passed # {}
    /\ f.todo = "rollback" =>
         /\ Earned(f.policy)
         /\ \A d \in Unfinished : Candidate(d) # f.policy

OperatorsOK == \A o \in Operators : Checked(operator[o])

Inv ==
    /\ TypeOK
    /\ RowsOK /\ PolicyFollowsDeployment /\ Exclusive /\ PoliciesOK
    /\ DecidedInTime /\ CountsOK /\ LanesOK
    /\ QueriesOK /\ OperatorsOK

(***************************************************************************)
(* The counters                                                            *)
(***************************************************************************)
LEMMA SeenGrows ==
  ASSUME TypeOK, NEW d \in Deployments, NEW t \in Tasks, NEW lane \in Lanes,
         NEW diff \in Diffs, NEW review \in {"pending", "not_required"},
         ~Recorded(<<d, t, lane>>),
         observations' = [observations EXCEPT ![<<d, t, lane>>] =
                            [review |-> review, diff |-> diff, verdict |-> ""]]
  PROVE  /\ \A e \in Deployments, l \in Lanes, diffs \in SUBSET Diffs :
              Seen(e, l, diffs)' = IF e = d /\ l = lane /\ diff \in diffs
                                   THEN Seen(e, l, diffs) \cup {<<d, t, lane>>}
                                   ELSE Seen(e, l, diffs)
         /\ \A diffs : <<d, t, lane>> \notin Seen(d, lane, diffs)
         /\ \A o \in Deployments \X Tasks \X Lanes :
              o # <<d, t, lane>> => observations'[o] = observations[o]
         /\ Recorded(<<d, t, lane>>)'
         /\ \A o \in Deployments \X Tasks \X Lanes : Recorded(o) => Recorded(o)'
         /\ \A e \in Deployments : Adverse(e)' = Adverse(e)
<1> DEFINE k == <<d, t, lane>>
<1>1. k \in Deployments \X Tasks \X Lanes
  OBVIOUS
<1>2. DOMAIN observations = Deployments \X Tasks \X Lanes
  BY DEF TypeOK
<1>3. observations'[k].review = review /\ observations'[k].diff = diff
        /\ observations'[k].verdict = ""
  BY <1>1, <1>2
<1>4. \A o \in Deployments \X Tasks \X Lanes : o # k => observations'[o] = observations[o]
  BY <1>2
<1>5. DOMAIN observations' = Deployments \X Tasks \X Lanes
  BY <1>2
<1>6. Recorded(k)' /\ \A o \in Deployments \X Tasks \X Lanes : Recorded(o) => Recorded(o)'
  BY <1>3, <1>4 DEF Recorded
<1>7. \A o \in Deployments \X Tasks \X Lanes : o # k => (Recorded(o)' <=> Recorded(o))
  BY <1>4 DEF Recorded
<1>8. \A diffs : k \notin Seen(d, lane, diffs)
  BY DEF Seen
<1>9. ASSUME NEW e \in Deployments, NEW l \in Lanes, NEW diffs \in SUBSET Diffs
      PROVE  Seen(e, l, diffs)' = IF e = d /\ l = lane /\ diff \in diffs
                                  THEN Seen(e, l, diffs) \cup {k} ELSE Seen(e, l, diffs)
  <2>1. k \in Seen(e, l, diffs)' <=> e = d /\ l = lane /\ diff \in diffs
    BY <1>1, <1>3, <1>6 DEF Seen
  <2>2. \A o : o # k => (o \in Seen(e, l, diffs)' <=> o \in Seen(e, l, diffs))
    BY <1>4, <1>7 DEF Seen
  <2>3. k \notin Seen(e, l, diffs)
    BY DEF Seen
  <2> DEFINE N == Seen(e, l, diffs)'
             S == Seen(e, l, diffs)
  <2> HIDE DEF k, N, S
  <2>4. \A o : o # k => (o \in N <=> o \in S)
    BY <2>2 DEF N, S
  <2>5. N = IF e = d /\ l = lane /\ diff \in diffs THEN S \cup {k} ELSE S
    <3>1. k \in N <=> e = d /\ l = lane /\ diff \in diffs
      BY <2>1 DEF N
    <3>2. k \notin S
      BY <2>3 DEF S
    <3>3. ASSUME e = d /\ l = lane /\ diff \in diffs PROVE N = S \cup {k}
      <4>1. N \subseteq S \cup {k} /\ S \cup {k} \subseteq N
        BY <3>1, <3>3, <2>4
      <4> QED
        BY <4>1
    <3>4. ASSUME ~(e = d /\ l = lane /\ diff \in diffs) PROVE N = S
      <4>1. N \subseteq S /\ S \subseteq N
        BY <3>1, <3>2, <3>4, <2>4
      <4> QED
        BY <4>1
    <3> QED
      BY <3>3, <3>4
  <2> QED
    BY <2>5 DEF N, S
<1>10. ASSUME NEW e \in Deployments PROVE Adverse(e)' = Adverse(e)
  <2>1. k \notin Adverse(e)'
    BY <1>3 DEF Adverse
  <2>2. k \notin Adverse(e)
    BY DEF Adverse, ObservationsOf
  <2>3. \A o : o # k => (o \in Adverse(e)' <=> o \in Adverse(e))
    BY <1>2, <1>4, <1>5, <1>7 DEF Adverse, ObservationsOf
  <2> DEFINE N == Adverse(e)'
             S == Adverse(e)
  <2> HIDE DEF k, N, S
  <2>4. k \notin N /\ k \notin S /\ \A o : o # k => (o \in N <=> o \in S)
    BY <2>1, <2>2, <2>3 DEF N, S
  <2>5. N \subseteq S /\ S \subseteq N
    BY <2>4
  <2> QED
    BY <2>5 DEF N, S
<1> QED
  BY <1>4, <1>6, <1>8, <1>9, <1>10

LEMMA SubsetsOfSeen ==
  ASSUME NEW d, NEW lane, NEW diffs \in SUBSET Diffs, IsFiniteSet(Seen(d, lane, Diffs))
  PROVE  /\ Seen(d, lane, diffs) \subseteq Seen(d, lane, Diffs)
         /\ IsFiniteSet(Seen(d, lane, diffs))
         /\ Cardinality(Seen(d, lane, diffs)) \in Nat
<1>1. Seen(d, lane, diffs) \subseteq Seen(d, lane, Diffs)
  BY DEF Seen
<1> QED
  BY <1>1, FS_Subset, FS_CardinalityType

\* What the counters of a deployment are compared with.
LEMMA ObservationsAreSeen ==
  ASSUME TypeOK, NEW d \in Deployments, NEW lane \in Lanes
  PROVE  /\ {o \in ObservationsOf(d) : o[3] = lane} = Seen(d, lane, Diffs)
         /\ \A diffs : {o \in {x \in ObservationsOf(d) : x[3] = lane} :
                           observations[o].diff \in diffs} = Seen(d, lane, diffs)
<1>1. DOMAIN observations = Deployments \X Tasks \X Lanes
  BY DEF TypeOK
<1>2. \A o \in Deployments \X Tasks \X Lanes : observations[o].diff \in Diffs
  BY DEF TypeOK, ObservationType
<1> QED
  BY <1>1, <1>2 DEF ObservationsOf, Seen

LEMMA CountsAreCardinalities ==
  ASSUME TypeOK, CountsOK
  PROVE  CountersMatchObservations
<1>1. \A d \in Deployments : CountOK(d)
  BY DEF CountsOK
<1>2. "stable" \in Lanes /\ "canary" \in Lanes
  BY DEF Lanes
<1> QED
  BY <1>1, <1>2, ObservationsAreSeen DEF CountersMatchObservations, CountOK

(***************************************************************************)
(* Steps that leave the tables alone                                       *)
(***************************************************************************)
LEMMA TablesStay ==
  ASSUME UNCHANGED tables
  PROVE  /\ RowsOK => RowsOK'
         /\ PolicyFollowsDeployment => PolicyFollowsDeployment'
         /\ Exclusive => Exclusive'
         /\ PoliciesOK => PoliciesOK'
         /\ DecidedInTime => DecidedInTime'
         /\ CountsOK => CountsOK'
         /\ \A d : Known(d)' = Known(d) /\ Approved(d)' = Approved(d)
         /\ \A d : Candidate(d)' = Candidate(d) /\ Adverse(d)' = Adverse(d)
         /\ \A o : Recorded(o)' = Recorded(o)
         /\ \A p : Earned(p)' = Earned(p)
         /\ Unfinished' = Unfinished
<1>1. /\ deployments' = deployments /\ policies' = policies /\ audit' = audit
      /\ observations' = observations /\ active' = active
  BY DEF tables
<1>2. /\ \A o : Recorded(o)' = Recorded(o)
      /\ \A d : Known(d)' = Known(d) /\ Approved(d)' = Approved(d)
      /\ \A d : Candidate(d)' = Candidate(d)
      /\ \A p : Earned(p)' = Earned(p)
  BY <1>1 DEF Recorded, Known, Approved, Candidate, Earned
<1>3. \A d : ObservationsOf(d)' = ObservationsOf(d) /\ Adverse(d)' = Adverse(d)
  BY <1>1 DEF ObservationsOf, Adverse, Recorded
<1>4. Unfinished' = Unfinished
  BY <1>1 DEF Unfinished
<1>5. RowsOK => RowsOK'
  BY <1>1, <1>2, <1>3 DEF RowsOK, RowOK
<1>6. /\ PolicyFollowsDeployment => PolicyFollowsDeployment'
      /\ Exclusive => Exclusive'
      /\ PoliciesOK => PoliciesOK'
  BY <1>1, <1>2, <1>4 DEF PolicyFollowsDeployment, Exclusive, PoliciesOK
<1>7. DecidedInTime => DecidedInTime'
  BY <1>1, <1>3 DEF DecidedInTime, NoFailedCandidateStranded, SamplingEndsAtItsTarget
<1>8. \A d, lane, diffs : Seen(d, lane, diffs)' = Seen(d, lane, diffs)
  BY <1>1, <1>2 DEF Seen
<1>9. CountsOK => CountsOK'
  BY <1>1, <1>2, <1>8 DEF CountsOK, CountOK
<1> QED
  BY <1>2, <1>3, <1>4, <1>5, <1>6, <1>7, <1>9

\* A query moves on and writes nothing; it enters the canary lane only while that runs.
LEMMA QueryMovesOn ==
  ASSUME Inv, UNCHANGED <<env, tables, operator>>,
         NEW q \in Queries, NEW f \in QueryType, query' = [query EXCEPT ![q] = f],
         f.pc \notin {"idle", "done"} => f.task \in Tasks,
         f.pc \in Running \cup {"drift"} => f.deployment \in Deployments /\ Known(f.deployment),
         f.pc \in Running =>
           /\ f.env = deployments[f.deployment].pins
           /\ f.lane = "canary" => Approved(f.deployment)
           /\ f.lane = "canary" => \/ deployments[f.deployment].status = "canary_running"
                                   \/ /\ query[q].pc \in Running /\ query[q].lane = "canary"
                                      /\ query[q].deployment = f.deployment,
         f.pc \in {"advance", "settle"} => Recorded(<<f.deployment, f.task, f.lane>>),
         f.pc = "settle" => f.decision \in {"stay", "rollback"},
         f.pc # "done" => f.answered = "none",
         f.answered = "candidate" =>
           f.deployment \in Deployments /\ Known(f.deployment) /\ Approved(f.deployment)
  PROVE  Inv'
<1>1. UNCHANGED tables /\ UNCHANGED operator /\ UNCHANGED env
  OBVIOUS
<1>2. /\ RowsOK' /\ PolicyFollowsDeployment' /\ Exclusive' /\ PoliciesOK'
      /\ DecidedInTime' /\ CountsOK'
  BY <1>1, TablesStay DEF Inv
<1>3. /\ deployments' = deployments /\ policies' = policies /\ audit' = audit
      /\ observations' = observations /\ active' = active
  BY <1>1 DEF tables
<1>4. TypeOK'
  BY <1>1, <1>3 DEF Inv, TypeOK
<1>5. query'[q] = f /\ \A r \in Queries : r # q => query'[r] = query[r]
  BY DEF Inv, TypeOK
<1>6. \A d \in Deployments : deployments[d].status # "canary_running" /\ NoCanary(d) => NoCanary(d)'
  BY <1>1, <1>5, TablesStay DEF NoCanary, Lanes, QueryType
<1>7. LanesOK'
  BY <1>3, <1>6 DEF Inv, LanesOK
<1>8. QueriesOK'
  <2>1. QueryOK(q)'
    BY <1>1, <1>3, <1>5, TablesStay DEF QueryOK
  <2>2. \A r \in Queries : r # q => QueryOK(r)'
    BY <1>1, <1>3, <1>5, TablesStay DEF QueryOK, Inv, QueriesOK
  <2> QED
    BY <2>1, <2>2 DEF QueriesOK
<1>9. OperatorsOK'
  <2> SUFFICES ASSUME NEW o \in Operators PROVE Checked(operator[o])'
    BY DEF OperatorsOK
  <2>1. Checked(operator[o])
    BY DEF Inv, OperatorsOK
  <2>2. \A d, s : s \in {"shadow_review", "shadow_passed"} /\ Held(d, s) => Held(d, s)'
    BY <1>1, <1>3, <1>6, TablesStay DEF Held
  <2> QED
    BY <1>1, <1>3, <2>1, <2>2, TablesStay DEF Checked
<1> QED
  BY <1>2, <1>4, <1>7, <1>8, <1>9 DEF Inv

\* An operator has checked something and writes nothing yet.
LEMMA OperatorDecides ==
  ASSUME Inv, UNCHANGED <<env, tables, query>>,
         NEW o \in Operators, NEW f \in OperatorType, operator' = [operator EXCEPT ![o] = f],
         Checked(f)
  PROVE  Inv'
<1>1. UNCHANGED tables /\ UNCHANGED query /\ UNCHANGED env
  OBVIOUS
<1>2. /\ RowsOK' /\ PolicyFollowsDeployment' /\ Exclusive' /\ PoliciesOK'
      /\ DecidedInTime' /\ CountsOK'
  BY <1>1, TablesStay DEF Inv
<1>3. /\ deployments' = deployments /\ policies' = policies /\ audit' = audit
      /\ observations' = observations /\ active' = active
  BY <1>1 DEF tables
<1>4. TypeOK'
  BY <1>1, <1>3 DEF Inv, TypeOK
<1>5. \A d : NoCanary(d)' = NoCanary(d)
  BY <1>1, TablesStay DEF NoCanary
<1>6. LanesOK' /\ QueriesOK'
  <2>1. LanesOK'
    BY <1>3, <1>5 DEF Inv, LanesOK
  <2>2. QueriesOK'
    BY <1>1, <1>3, TablesStay DEF Inv, QueriesOK, QueryOK
  <2> QED
    BY <2>1, <2>2
<1>7. OperatorsOK'
  <2>1. \A d, s : Held(d, s) => Held(d, s)'
    BY <1>1, <1>3, <1>5, TablesStay DEF Held
  <2>2. \A p \in Operators : p # o => Checked(operator[p]) /\ operator'[p] = operator[p]
    BY DEF Inv, OperatorsOK, TypeOK
  <2>3. \A p \in Operators : p # o => Checked(operator[p])'
    BY <1>1, <1>3, <2>1, <2>2, TablesStay DEF Checked
  <2>4. operator'[o] = f
    BY DEF Inv, TypeOK
  <2>5. Checked(operator[o])'
    BY <1>1, <1>3, <2>1, <2>4, TablesStay DEF Checked
  <2> QED
    BY <2>3, <2>5 DEF OperatorsOK
<1> QED
  BY <1>2, <1>4, <1>6, <1>7 DEF Inv

(***************************************************************************)
(* What a query does between its transactions                              *)
(***************************************************************************)
LEMMA FramesAreTyped ==
  ASSUME NEW pc \in {"idle", "done", "assign"}, NEW t \in Tasks \cup {NoTask},
         NEW e \in Environments, NEW p \in Policies, NEW answered \in {"none", "stable"}
  PROVE  /\ Idle(pc) \in QueryType
         /\ [Idle(pc) EXCEPT !.answered = answered] \in QueryType
         /\ [Idle(pc) EXCEPT !.task = t, !.env = e, !.policy = p] \in QueryType
         /\ Idle(pc).pc = pc /\ Idle(pc).answered = "none"
<1>1. AnyEnvironment \in Environments
  BY DEF AnyEnvironment
<1> QED
  BY <1>1, ReleaseAssumption DEF Idle, QueryType, Lanes, Diffs

LEMMA BeginKeeps ==
  ASSUME Inv, NEW q \in Queries, NEW t \in Tasks, Begin(q, t) PROVE Inv'
<1> DEFINE f == [Idle("assign") EXCEPT !.task = t, !.env = env, !.policy = active]
<1>1. /\ UNCHANGED <<env, tables, operator>> /\ query' = [query EXCEPT ![q] = f]
  BY DEF Begin, GoOn
<1>2. f \in QueryType
  BY FramesAreTyped DEF Inv, TypeOK
<1>3. f.pc = "assign" /\ f.task = t /\ f.answered = "none"
  BY DEF Idle
<1> HIDE DEF f
<1> QED
  BY <1>1, <1>2, <1>3, QueryMovesOn DEF Running

LEMMA QueryFacts ==
  ASSUME Inv, NEW q \in Queries
  PROVE  query[q] \in QueryType /\ QueryOK(q)
BY DEF Inv, TypeOK, QueriesOK

\* The steps that only change the program counter.
LEMMA ProgramCounter ==
  ASSUME Inv, NEW q \in Queries, UNCHANGED <<env, tables, operator>>,
         NEW pc \in {"stable", "insert", "advance"},
         GoOn(q, [query[q] EXCEPT !.pc = pc]),
         query[q].pc \notin {"idle", "done"},
         pc \in {"insert", "advance"} => query[q].pc \in Running,
         pc = "advance" => Recorded(<<query[q].deployment, query[q].task, query[q].lane>>)
  PROVE  Inv'
<1> DEFINE f == [query[q] EXCEPT !.pc = pc]
<1>1. query[q] \in QueryType /\ QueryOK(q)
  BY QueryFacts
<1>2. f \in QueryType /\ f.pc = pc /\ f.task = query[q].task /\ f.env = query[q].env
        /\ f.deployment = query[q].deployment /\ f.lane = query[q].lane
        /\ f.answered = query[q].answered
  BY <1>1 DEF QueryType
<1>3. query' = [query EXCEPT ![q] = f]
  BY DEF GoOn
<1> HIDE DEF f
<1> QED
  BY <1>1, <1>2, <1>3, QueryMovesOn DEF Running, QueryOK

LEMMA AssignStableKeeps ==
  ASSUME Inv, NEW q \in Queries, AssignStable(q) PROVE Inv'
BY ProgramCounter DEF AssignStable

LEMMA RecordKeeps ==
  ASSUME Inv, NEW q \in Queries, Record(q) PROVE Inv'
<1> DEFINE o == <<query[q].deployment, query[q].task, query[q].lane>>
<1>1. query[q].pc = "record" /\ UNCHANGED <<env, tables, operator>>
      /\ GoOn(q, [query[q] EXCEPT !.pc = IF Recorded(o) THEN "advance" ELSE "insert"])
  BY DEF Record
<1>2. CASE Recorded(o)
  BY <1>1, <1>2, ProgramCounter DEF Running
<1>3. CASE ~Recorded(o)
  BY <1>1, <1>3, ProgramCounter DEF Running
<1> QED
  BY <1>2, <1>3

LEMMA AssignDriftedKeeps ==
  ASSUME Inv, NEW q \in Queries, NEW d \in Deployments, AssignDrifted(q, d) PROVE Inv'
<1> DEFINE f == [query[q] EXCEPT !.pc = "drift", !.deployment = d]
<1>1. query[q] \in QueryType /\ QueryOK(q)
  BY QueryFacts
<1>2. f \in QueryType /\ f.pc = "drift" /\ f.task = query[q].task /\ f.deployment = d
        /\ f.answered = query[q].answered
  BY <1>1 DEF QueryType
<1>3. query' = [query EXCEPT ![q] = f] /\ UNCHANGED <<env, tables, operator>>
      /\ query[q].pc = "assign" /\ Known(d)
  BY DEF AssignDrifted, GoOn, IsSampling, Sampling, Known
<1> HIDE DEF f
<1>4. f.task \in Tasks /\ f.answered = "none"
  BY <1>1, <1>2, <1>3 DEF QueryOK
<1> QED
  BY <1>1, <1>2, <1>3, QueryMovesOn DEF Running, QueryOK

LEMMA AssignSampledKeeps ==
  ASSUME Inv, NEW q \in Queries, NEW d \in Deployments, AssignSampled(q, d) PROVE Inv'
<1> DEFINE lane == IF deployments[d].status = "canary_running" THEN "canary" ELSE "stable"
           f == [query[q] EXCEPT !.pc = "run", !.deployment = d, !.lane = lane]
<1>1. query[q] \in QueryType /\ QueryOK(q)
  BY QueryFacts
<1>2. f \in QueryType /\ f.pc = "run" /\ f.task = query[q].task /\ f.deployment = d
        /\ f.answered = query[q].answered /\ f.lane = lane /\ f.env = query[q].env
  BY <1>1 DEF QueryType, Lanes
<1>3. query' = [query EXCEPT ![q] = f] /\ UNCHANGED <<env, tables, operator>>
      /\ query[q].pc = "assign" /\ Known(d) /\ deployments[d].pins = query[q].env
  BY DEF AssignSampled, GoOn, IsSampling, Sampling, Known, Pinned
<1>4. lane = "canary" => deployments[d].status = "canary_running"
  OBVIOUS
<1>5. deployments[d].status = "canary_running" => Approved(d)
  BY <1>3 DEF Inv, RowsOK, RowOK
<1> HIDE DEF f, lane
<1>6. f.task \in Tasks /\ f.answered = "none"
  BY <1>1, <1>2, <1>3 DEF QueryOK
<1> QED
  BY <1>2, <1>3, <1>4, <1>5, <1>6, QueryMovesOn DEF Running

LEMMA RunStableKeeps ==
  ASSUME Inv, NEW q \in Queries, RunStable(q) PROVE Inv'
<1>1. PICK answered \in {"none", "stable"} : GoOn(q, [Idle("done") EXCEPT !.answered = answered])
  BY DEF RunStable
<1> DEFINE f == [Idle("done") EXCEPT !.answered = answered]
<1>2. f \in QueryType
  BY FramesAreTyped, ReleaseAssumption DEF Inv, TypeOK
<1>3. f.pc = "done" /\ f.answered = answered
  BY DEF Idle
<1>4. query' = [query EXCEPT ![q] = f] /\ UNCHANGED <<env, tables, operator>>
  BY <1>1 DEF GoOn, RunStable
<1> HIDE DEF f
<1> QED
  BY <1>2, <1>3, <1>4, QueryMovesOn DEF Running

\* The query ends without an answer, whether its runner failed or its process died.
LEMMA QueryEnds ==
  ASSUME Inv, NEW q \in Queries, NEW pc \in {"idle", "done"}, GoOn(q, Idle(pc)),
         UNCHANGED <<env, tables, operator>>
  PROVE  Inv'
<1> DEFINE f == Idle(pc)
<1>1. f \in QueryType /\ f.pc = pc /\ f.answered = "none"
  BY FramesAreTyped, ReleaseAssumption DEF Inv, TypeOK
<1>2. query' = [query EXCEPT ![q] = f]
  BY DEF GoOn
<1> HIDE DEF f
<1> QED
  BY <1>1, <1>2, QueryMovesOn DEF Running

LEMMA RunBothKeeps ==
  ASSUME Inv, NEW q \in Queries, RunBoth(q) PROVE Inv'
<1>1. PICK diff \in Diffs : GoOn(q, [query[q] EXCEPT !.pc = "record", !.diff = diff])
  BY DEF RunBoth
<1> DEFINE f == [query[q] EXCEPT !.pc = "record", !.diff = diff]
<1>2. query[q] \in QueryType /\ QueryOK(q) /\ query[q].pc = "run"
  BY QueryFacts DEF RunBoth
<1>3. f \in QueryType /\ f.pc = "record" /\ f.task = query[q].task /\ f.env = query[q].env
        /\ f.deployment = query[q].deployment /\ f.lane = query[q].lane
        /\ f.answered = query[q].answered
  BY <1>2 DEF QueryType
<1>4. query' = [query EXCEPT ![q] = f] /\ UNCHANGED <<env, tables, operator>>
  BY <1>1 DEF GoOn, RunBoth
<1> HIDE DEF f
<1> QED
  BY <1>2, <1>3, <1>4, QueryMovesOn DEF Running, QueryOK

\* While a deployment samples, its sample is not complete and no candidate has failed
\* in its shadow: a repeated execution has nothing to decide but a rollback.
LEMMA NothingIsLeftToDecide ==
  ASSUME Inv, NEW d \in Deployments, NEW t \in Tasks, NEW lane \in Lanes, NEW slow \in BOOLEAN,
         Recorded(<<d, t, lane>>)
  PROVE  Decision(deployments[d], observations[<<d, t, lane>>].diff, slow) \in {"stay", "rollback"}
<1>1. /\ deployments[d].status = "shadow_running" => deployments[d].samples < MinShadow
      /\ deployments[d].status = "canary_running" => deployments[d].canarySamples < MinCanary
  BY DEF Inv, DecidedInTime, SamplingEndsAtItsTarget
<1> QED
  BY <1>1 DEF Decision

LEMMA AdvanceKeeps ==
  ASSUME Inv, NEW q \in Queries, Advance(q) PROVE Inv'
<1> DEFINE d == query[q].deployment
           o == <<d, query[q].task, query[q].lane>>
<1>1. query[q] \in QueryType /\ QueryOK(q) /\ query[q].pc = "advance"
  BY QueryFacts DEF Advance
<1>2. d \in Deployments /\ query[q].task \in Tasks /\ query[q].lane \in Lanes /\ Recorded(o)
  BY <1>1 DEF QueryOK, Running, QueryType
<1>3. PICK slow \in BOOLEAN :
        GoOn(q, [query[q] EXCEPT !.pc = "settle",
                   !.decision = Decision(deployments[d], observations[o].diff, slow)])
  BY DEF Advance
<1>4. PICK decision : decision = Decision(deployments[d], observations[o].diff, slow)
  OBVIOUS
<1>5. decision \in {"stay", "rollback"}
  BY <1>2, <1>4, NothingIsLeftToDecide
<1> DEFINE f == [query[q] EXCEPT !.pc = "settle", !.decision = decision]
<1>6. f \in QueryType /\ f.pc = "settle" /\ f.task = query[q].task /\ f.env = query[q].env
        /\ f.deployment = query[q].deployment /\ f.lane = query[q].lane
        /\ f.answered = query[q].answered /\ f.decision = decision
  BY <1>1, <1>5 DEF QueryType
<1>7. query' = [query EXCEPT ![q] = f] /\ UNCHANGED <<env, tables, operator>>
  BY <1>3, <1>4 DEF GoOn, Advance
<1> HIDE DEF f
<1> QED
  BY <1>1, <1>2, <1>5, <1>6, <1>7, QueryMovesOn DEF Running, QueryOK

LEMMA AnswerKeeps ==
  ASSUME Inv, NEW q \in Queries, Answer(q) PROVE Inv'
<1> DEFINE answered == IF query[q].lane = "canary" /\ query[q].diff \notin Failures
                       THEN "candidate" ELSE "stable"
           f == [Idle("done") EXCEPT !.deployment = query[q].deployment, !.answered = answered]
<1>1. query[q] \in QueryType /\ QueryOK(q) /\ query[q].pc = "answer"
  BY QueryFacts DEF Answer
<1>2. f.pc = "done" /\ f.answered = answered /\ f.deployment = query[q].deployment
        /\ f \in QueryType
  <2>1. AnyEnvironment \in Environments
    BY DEF AnyEnvironment, Inv, TypeOK
  <2>2. Idle("done") \in QueryType
    BY <2>1, FramesAreTyped, ReleaseAssumption DEF Inv, TypeOK
  <2>3. answered \in {"none", "stable", "candidate"} /\ query[q].deployment \in Deployments \cup {NoDeployment}
    BY <1>1 DEF QueryType
  <2>4. f = [Idle("done") EXCEPT !.deployment = query[q].deployment, !.answered = answered]
          /\ f.pc = "done" /\ f.answered = answered /\ f.deployment = query[q].deployment
    BY DEF Idle
  <2> HIDE DEF answered, f
  <2> QED
    BY <2>2, <2>3, <2>4 DEF QueryType
<1>3. query' = [query EXCEPT ![q] = f] /\ UNCHANGED <<env, tables, operator>>
  BY DEF GoOn, Answer
<1>4. answered = "candidate" => query[q].lane = "canary"
  OBVIOUS
<1> HIDE DEF f, answered
<1> QED
  BY <1>1, <1>2, <1>3, <1>4, QueryMovesOn DEF Running, QueryOK

(***************************************************************************)
(* Steps that decide about a deployment                                    *)
(***************************************************************************)
\* The row of a deployment and of its candidate after a decision.
Moved(d, status) ==
    /\ deployments'[d].status = status
    /\ \A p \in Policies : p # Candidate(d) => policies'[p].status = policies[p].status

Settled(d) ==
    /\ \A e \in Deployments : e # d => deployments'[e] = deployments[e]
    /\ deployments'[d].stable = deployments[d].stable
    /\ deployments'[d].candidate = deployments[d].candidate
    /\ deployments'[d].pins = deployments[d].pins
    /\ deployments'[d].samples >= deployments[d].samples
    /\ deployments'[d].canarySamples >= deployments[d].canarySamples
    /\ \A p \in Policies : /\ policies'[p].parent = policies[p].parent
                           /\ policies'[p].passed = policies[p].passed
    /\ \/ /\ Moved(d, deployments[d].status)
          /\ policies'[Candidate(d)].status = policies[Candidate(d)].status
       \/ /\ Moved(d, "rolled_back")
          /\ policies'[Candidate(d)].status = "shadow_rejected"
       \/ /\ deployments[d].status = "shadow_running"
          /\ Moved(d, "shadow_review")
          /\ policies'[Candidate(d)].status = "shadow_review"
          /\ deployments'[d].samples >= MinShadow
       \/ /\ deployments[d].status = "canary_running"
          /\ Moved(d, "canary_passed")
          /\ policies'[Candidate(d)].status = "canary_passed"
          /\ deployments'[d].canarySamples >= MinCanary
    /\ audit \subseteq audit'
    /\ UNCHANGED <<env, active>>
    /\ \A e \in Deployments : Adverse(e)' = Adverse(e)
    /\ \A o \in Deployments \X Tasks \X Lanes : Recorded(o) => Recorded(o)'

\* The transition of a row that is written back with more observations counted.
LEMMA SettleMoves ==
  ASSUME TypeOK, NEW d \in Deployments, NEW row \in DeploymentType, NEW decision,
         Settle(d, row, decision),
         row.stable = deployments[d].stable, row.candidate = deployments[d].candidate,
         row.pins = deployments[d].pins, row.status = deployments[d].status,
         row.samples >= deployments[d].samples,
         row.canarySamples >= deployments[d].canarySamples,
         decision \in {"stay", "rollback", "shadow_review", "canary_passed"},
         decision = "shadow_review" => row.status = "shadow_running" /\ row.samples >= MinShadow,
         decision = "canary_passed" => row.status = "canary_running" /\ row.canarySamples >= MinCanary,
         UNCHANGED <<env, active>>,
         \A e \in Deployments : Adverse(e)' = Adverse(e),
         \A o \in Deployments \X Tasks \X Lanes : Recorded(o) => Recorded(o)'
  PROVE  /\ Settled(d)
         /\ deployments'[d].samples = row.samples
         /\ deployments'[d].failures = row.failures
         /\ deployments'[d].disagreements = row.disagreements
         /\ deployments'[d].canarySamples = row.canarySamples
         /\ deployments'[d].canaryFailures = row.canaryFailures
         /\ deployments'[d].status = CASE decision = "stay" -> row.status
                                       [] decision = "rollback" -> "rolled_back"
                                       [] OTHER -> decision
         /\ deployments' \in [Deployments -> DeploymentType]
         /\ policies' \in [Policies -> PolicyType]
         /\ audit' \ audit \subseteq
              {<<"automatic_release_rollback", deployments[d].candidate, deployments[d].stable>>}
<1>1. PICK status : status = CASE decision = "stay" -> row.status
                               [] decision = "rollback" -> "rolled_back"
                               [] OTHER -> decision
  OBVIOUS
<1>2. PICK new : new = [row EXCEPT !.status = status]
  OBVIOUS
<1>3. status \in Open \cup Closed \cup {"absent"}
  BY <1>1 DEF DeploymentType, Open, Closed, Sampling
<1>4. /\ new \in DeploymentType /\ new.status = status /\ new.stable = row.stable
      /\ new.candidate = row.candidate /\ new.pins = row.pins /\ new.samples = row.samples
      /\ new.failures = row.failures /\ new.disagreements = row.disagreements
      /\ new.canarySamples = row.canarySamples /\ new.canaryFailures = row.canaryFailures
  BY <1>2, <1>3 DEF DeploymentType
<1>5. deployments' = [deployments EXCEPT ![d] = new]
  <2>1. decision = "stay" => row = [row EXCEPT !.status = row.status]
    BY DEF DeploymentType
  <2> QED
    BY <1>1, <1>2, <2>1 DEF Settle
<1>6. deployments'[d] = new /\ \A e \in Deployments : e # d => deployments'[e] = deployments[e]
  BY <1>5 DEF TypeOK
<1>7. deployments' \in [Deployments -> DeploymentType]
  BY <1>4, <1>5 DEF TypeOK
<1>8. row.candidate \in Policies /\ row.stable \in Policies
  BY DEF DeploymentType
<1>9. /\ \A p \in Policies : /\ policies'[p].parent = policies[p].parent
                             /\ policies'[p].passed = policies[p].passed
                             /\ p # row.candidate => policies'[p].status = policies[p].status
      /\ policies' \in [Policies -> PolicyType]
      /\ policies'[row.candidate].status = CASE decision = "stay" -> policies[row.candidate].status
                                             [] decision = "rollback" -> "shadow_rejected"
                                             [] OTHER -> decision
  <2>1. ASSUME decision # "stay"
        PROVE  \E s \in {"shadow_rejected", "shadow_review", "canary_passed"} :
                 /\ s = (CASE decision = "rollback" -> "shadow_rejected" [] OTHER -> decision)
                 /\ policies' = [policies EXCEPT ![row.candidate].status = s]
    BY <2>1 DEF Settle, SetStatus
  <2>2. CASE decision = "stay"
    BY <2>2, <1>8 DEF Settle, TypeOK
  <2>3. CASE decision # "stay"
    <3>1. PICK s \in {"shadow_rejected", "shadow_review", "canary_passed"} :
                 /\ s = (CASE decision = "rollback" -> "shadow_rejected" [] OTHER -> decision)
                 /\ policies' = [policies EXCEPT ![row.candidate].status = s]
      BY <2>1, <2>3
    <3>2. policies \in [Policies -> PolicyType]
      BY DEF TypeOK
    <3> QED
      BY <1>8, <2>3, <3>1, <3>2 DEF PolicyType
  <2> QED
    BY <2>2, <2>3
<1>10. /\ audit \subseteq audit'
       /\ audit' \ audit \subseteq {<<"automatic_release_rollback", row.candidate, row.stable>>}
  BY DEF Settle, Log
<1>11. Settled(d)
  <2>1. CASE decision = "stay"
    BY <1>1, <1>4, <1>6, <1>9, <1>10, <2>1 DEF Settled, Moved, Candidate
  <2>2. CASE decision = "rollback"
    BY <1>1, <1>4, <1>6, <1>9, <1>10, <2>2 DEF Settled, Moved, Candidate
  <2>3. CASE decision = "shadow_review"
    BY <1>1, <1>4, <1>6, <1>9, <1>10, <2>3 DEF Settled, Moved, Candidate
  <2>4. CASE decision = "canary_passed"
    BY <1>1, <1>4, <1>6, <1>9, <1>10, <2>4 DEF Settled, Moved, Candidate
  <2> QED
    BY <2>1, <2>2, <2>3, <2>4
<1> QED
  BY <1>1, <1>4, <1>6, <1>7, <1>9, <1>10, <1>11

\* Whatever the decision: deployments and their candidates agree, releases succeed.
LEMMA SettledKeepsTheRows ==
  ASSUME Inv, NEW d \in Deployments, Known(d), Settled(d),
         deployments' \in [Deployments -> DeploymentType]
  PROVE  /\ RowsOK' /\ PolicyFollowsDeployment' /\ Exclusive' /\ PoliciesOK'
         /\ \A e \in Deployments : Known(e)' = Known(e) /\ Candidate(e)' = Candidate(e)
         /\ \A e \in Deployments : Approved(e) => Approved(e)'
         /\ Unfinished' \subseteq Unfinished
         /\ \A p \in Policies : Earned(p) => Earned(p)'
         /\ \A p \in Policies : policies[p].status \in Early => policies'[p].status = policies[p].status
<1>1. /\ \A e \in Deployments : /\ deployments'[e].candidate = deployments[e].candidate
                                /\ deployments'[e].stable = deployments[e].stable
                                /\ deployments'[e].pins = deployments[e].pins
                                /\ deployments'[e].samples >= deployments[e].samples
                                /\ deployments'[e].canarySamples >= deployments[e].canarySamples
      /\ Candidate(d) \in Policies
  <2>1. \A e \in Deployments : /\ deployments[e].samples \in Nat /\ deployments[e].canarySamples \in Nat
                               /\ deployments[e].candidate \in Policies
    BY DEF Inv, TypeOK, DeploymentType
  <2> QED
    BY <2>1 DEF Settled, Candidate
<1>2. \A e \in Deployments : Known(e)' = Known(e) /\ Candidate(e)' = Candidate(e)
  BY <1>1 DEF Settled, Moved, Known, Candidate
<1>3. \A e \in Deployments : Approved(e) => Approved(e)'
  BY <1>1 DEF Settled, Approved
<1>4. Unfinished' \subseteq Unfinished
  BY DEF Settled, Moved, Unfinished, Open, Sampling
<1>5. \A p : Earned(p) => Earned(p)'
  BY DEF Settled, Earned
<1>6. \A e \in Deployments : Known(e) => RowOK(e)
  BY DEF Inv, RowsOK
<1>7. \A p \in Policies : policies[p].status \in Early => policies'[p].status = policies[p].status
  BY <1>6 DEF Settled, Moved, RowOK
<1>8. \A e \in Deployments : Known(e) /\ e # d => Candidate(e) # Candidate(d)
  BY DEF Inv, Exclusive
<1>9. RowsOK'
  <2> SUFFICES ASSUME NEW e \in Deployments, Known(e)' PROVE RowOK(e)'
    BY DEF RowsOK
  <2>1. Known(e) /\ RowOK(e) /\ Candidate(e)' = Candidate(e) /\ Candidate(e) \in Policies
    BY <1>2, <1>6 DEF Inv, TypeOK, DeploymentType, Candidate
  <2>2. (policies[Candidate(e)].status \notin Early)' /\ (deployments[e].pins \in policies[Candidate(e)].passed)'
    BY <1>1, <2>1 DEF Settled, Moved, RowOK, Early
  <2>3. /\ deployments[e].samples \in Nat /\ deployments[e].canarySamples \in Nat
        /\ deployments'[e].samples \in Nat /\ deployments'[e].canarySamples \in Nat
        /\ MinShadow \in Nat /\ MinCanary \in Nat
    BY ReleaseAssumption DEF Inv, TypeOK, DeploymentType
  <2>4. /\ deployments'[e].status \in {"shadow_review", "shadow_passed", "canary_running", "canary_passed"}
             => deployments'[e].samples >= MinShadow
        /\ deployments'[e].status = "canary_passed" => deployments'[e].canarySamples >= MinCanary
    BY <1>1, <2>1, <2>3 DEF Settled, Moved, RowOK
  <2>5. deployments'[e].status \in {"shadow_passed", "canary_running"} => Approved(e)'
    BY <1>3, <2>1 DEF Settled, Moved, RowOK
  <2>6. deployments'[e].status \in Cleared => Adverse(e)' = {}
    BY <2>1 DEF Settled, Moved, RowOK, Cleared
  <2> QED
    BY <2>2, <2>4, <2>5, <2>6 DEF RowOK
<1>10. PolicyFollowsDeployment'
  <2> SUFFICES ASSUME NEW e \in Unfinished'
               PROVE  (policies[deployments[e].candidate].status =
                         IF deployments[e].status = "shadow_passed" THEN "canary_ready"
                         ELSE deployments[e].status)'
    BY DEF PolicyFollowsDeployment
  <2>1. e \in Unfinished /\ e \in Deployments /\ Known(e)
    BY <1>4 DEF Unfinished, Known, Open, Sampling
  <2>2. policies[Candidate(e)].status = IF deployments[e].status = "shadow_passed" THEN "canary_ready"
                                        ELSE deployments[e].status
    BY <2>1 DEF Inv, PolicyFollowsDeployment, Candidate
  <2>3. Candidate(e) \in Policies /\ deployments'[e].candidate = Candidate(e)
          /\ deployments'[e].status \in Open
    BY <1>1, <2>1 DEF Inv, TypeOK, DeploymentType, Candidate, Unfinished
  <2> QED
    BY <1>8, <2>1, <2>2, <2>3 DEF Settled, Moved, Open, Sampling
<1>11. Exclusive'
  BY <1>2, <1>4 DEF Inv, Exclusive
<1>12. PoliciesOK'
  <2>1. \A p \in Policies : policies'[p].status \in {"approved", "retired"} =>
            policies'[p].status = policies[p].status
    BY DEF Settled, Moved
  <2> QED
    BY <1>5, <2>1 DEF Inv, PoliciesOK, Settled
<1> QED
  BY <1>2, <1>3, <1>4, <1>5, <1>7, <1>9, <1>10, <1>11, <1>12

\* What queries and operators hold survives a decision about a deployment.
LEMMA SettledKeepsTheFrames ==
  ASSUME Inv, NEW d \in Deployments, Known(d), Settled(d), TypeOK', DecidedInTime', CountsOK',
         \A e \in Deployments : NoCanary(e) => NoCanary(e)',
         \A r \in Queries : query'[r] = query[r] \/ QueryOK(r)',
         \A o \in Operators : operator'[o] = operator[o] \/ operator'[o].todo = "nothing"
  PROVE  Inv'
<1>1. deployments' \in [Deployments -> DeploymentType]
  BY DEF TypeOK
<1>2. /\ RowsOK' /\ PolicyFollowsDeployment' /\ Exclusive' /\ PoliciesOK'
      /\ \A e \in Deployments : Known(e)' = Known(e) /\ Candidate(e)' = Candidate(e)
      /\ \A e \in Deployments : Approved(e) => Approved(e)'
      /\ Unfinished' \subseteq Unfinished
      /\ \A p \in Policies : Earned(p) => Earned(p)'
      /\ \A p \in Policies : policies[p].status \in Early => policies'[p].status = policies[p].status
  BY <1>1, SettledKeepsTheRows
<1>3. \A e \in Deployments : /\ deployments'[e].pins = deployments[e].pins
                             /\ deployments'[e].stable = deployments[e].stable
                             /\ deployments'[e].samples >= deployments[e].samples
                             /\ deployments'[e].canarySamples >= deployments[e].canarySamples
                             /\ deployments'[e].samples \in Nat /\ deployments'[e].canarySamples \in Nat
                             /\ deployments[e].samples \in Nat /\ deployments[e].canarySamples \in Nat
  <2>1. \A e \in Deployments : /\ deployments'[e].samples \in Nat /\ deployments'[e].canarySamples \in Nat
                               /\ deployments[e].samples \in Nat /\ deployments[e].canarySamples \in Nat
    BY <1>1 DEF Inv, TypeOK, DeploymentType
  <2> QED
    BY <2>1 DEF Settled
<1>4. LanesOK'
  <2> SUFFICES ASSUME NEW e \in Deployments,
                      deployments'[e].status \in {"shadow_running", "shadow_review", "shadow_passed"}
               PROVE  NoCanary(e)'
    BY DEF LanesOK
  <2>1. deployments[e].status \in {"shadow_running", "shadow_review", "shadow_passed"}
    BY DEF Settled, Moved
  <2> QED
    BY <2>1 DEF Inv, LanesOK
<1>5. QueriesOK'
  <2> SUFFICES ASSUME NEW r \in Queries, query'[r] = query[r] PROVE QueryOK(r)'
    BY DEF QueriesOK
  <2>1. QueryOK(r) /\ query[r] \in QueryType
    BY QueryFacts
  <2>2. query[r].pc \in {"advance", "settle"} =>
          <<query[r].deployment, query[r].task, query[r].lane>> \in Deployments \X Tasks \X Lanes
    BY <2>1 DEF QueryOK, QueryType, Running
  <2> QED
    BY <1>2, <1>3, <2>1, <2>2 DEF QueryOK, Settled
<1>6. OperatorsOK'
  <2> SUFFICES ASSUME NEW o \in Operators PROVE Checked(operator[o])'
    BY DEF OperatorsOK
  <2>1. CASE operator'[o].todo = "nothing"
    BY <2>1 DEF Checked
  <2>2. CASE operator'[o] = operator[o]
    <3>1. Checked(operator[o]) /\ operator[o] \in OperatorType
      BY DEF Inv, TypeOK, OperatorsOK
    <3>2. operator[o].policy \in Policies /\ active \in Policies
      BY <3>1 DEF OperatorType, Inv, TypeOK
    <3>3. \A e, s : s \in {"shadow_review", "shadow_passed"} /\ Held(e, s) => Held(e, s)'
      <4> SUFFICES ASSUME NEW e, NEW s \in {"shadow_review", "shadow_passed"}, Held(e, s)
                   PROVE  Held(e, s)'
        OBVIOUS
      <4>1. e \in Deployments /\ NoCanary(e)' /\ \A x \in Unfinished' : x = e
        BY <1>2 DEF Held
      <4>2. deployments'[e].status \in {s, "rolled_back"}
        BY <4>1 DEF Held, Settled, Moved
      <4>3. deployments'[e].samples >= MinShadow
        BY <1>3, <4>1, ReleaseAssumption DEF Held
      <4>4. Adverse(e)' = {}
        BY <4>1 DEF Held, Settled
      <4> QED
        BY <4>1, <4>2, <4>3, <4>4 DEF Held
    <3>4. operator[o].todo \in {"evaluate", "configure", "automatic"} =>
            /\ policies'[operator[o].policy].status = policies[operator[o].policy].status
            /\ policies'[operator[o].policy].parent = policies[operator[o].policy].parent
            /\ policies'[operator[o].policy].passed = policies[operator[o].policy].passed
      BY <1>2, <3>1, <3>2 DEF Checked, Early, Settled
    <3>5. operator[o].todo = "review" =>
            /\ deployments'[operator[o].deployment].status \in {"shadow_review", "rolled_back"}
            /\ Recorded(<<operator[o].deployment, operator[o].task, "stable">>)'
      <4> HAVE operator[o].todo = "review"
      <4> DEFINE e == operator[o].deployment
      <4>1. /\ e \in Deployments /\ operator[o].task \in Tasks
            /\ deployments[e].status \in {"shadow_review", "rolled_back"}
            /\ Recorded(<<e, operator[o].task, "stable">>)
        BY <3>1 DEF Checked
      <4>2. Recorded(<<e, operator[o].task, "stable">>)'
        BY <2>2, <4>1 DEF Settled, Lanes
      <4> HIDE DEF e
      <4>3. deployments'[e].status \in {"shadow_review", "rolled_back"}
        BY <4>1 DEF Settled, Moved
      <4> QED
        BY <2>2, <4>2, <4>3 DEF e
    <3>6. operator[o].todo = "activate" =>
            \E e \in Deployments :
               /\ Candidate(e)' = operator[o].policy /\ deployments'[e].stable = active
               /\ deployments'[e].status \in {"canary_passed", "rolled_back"}
               /\ deployments'[e].samples >= MinShadow
               /\ deployments'[e].canarySamples >= MinCanary
      <4> HAVE operator[o].todo = "activate"
      <4>1. PICK e \in Deployments :
               /\ Candidate(e) = operator[o].policy /\ deployments[e].stable = active
               /\ deployments[e].status \in {"canary_passed", "rolled_back"}
               /\ deployments[e].samples >= MinShadow
               /\ deployments[e].canarySamples >= MinCanary
        BY <3>1 DEF Checked
      <4>2. deployments'[e].status \in {"canary_passed", "rolled_back"}
        BY <4>1 DEF Settled, Moved
      <4>3. deployments'[e].samples >= MinShadow /\ deployments'[e].canarySamples >= MinCanary
        BY <1>3, <4>1, ReleaseAssumption
      <4> QED
        BY <1>2, <1>3, <4>1, <4>2, <4>3
    <3>7. active' = active /\ env' = env
      BY DEF Settled
    <3>8. operator[o].todo = "rollback" =>
            Earned(operator[o].policy)' /\ \A e \in Unfinished' : Candidate(e)' # operator[o].policy
      <4>1. Unfinished \subseteq Deployments
        BY DEF Unfinished
      <4> HAVE operator[o].todo = "rollback"
      <4>2. Earned(operator[o].policy) /\ \A e \in Unfinished : Candidate(e) # operator[o].policy
        BY <3>1 DEF Checked
      <4>3. Earned(operator[o].policy)'
        BY <1>2, <2>2, <3>2, <4>2 DEF Earned, Settled
      <4>4. \A e \in Unfinished' : Candidate(e)' # operator[o].policy
        BY <1>2, <4>1, <4>2
      <4> QED
        BY <2>2, <4>3, <4>4
    <3>9. operator[o].todo = "reject" =>
            operator[o].deployment \in Deployments /\ deployments'[operator[o].deployment].status # "absent"
      <4> HAVE operator[o].todo = "reject"
      <4>1. PICK e \in Deployments : e = operator[o].deployment /\ Known(e)
        BY <3>1 DEF Checked
      <4>2. deployments'[e].status # "absent"
        BY <1>2, <4>1 DEF Known
      <4> QED
        BY <4>1, <4>2
    <3>10. PICK e : e = operator[o].deployment
      OBVIOUS
    <3>11. /\ operator[o].todo = "approve" => Held(e, "shadow_review")'
           /\ operator[o].todo = "canary" => Held(e, "shadow_passed")' /\ Approved(e)'
      <4>1. /\ operator[o].todo = "approve" => Held(e, "shadow_review")
            /\ operator[o].todo = "canary" => Held(e, "shadow_passed") /\ Approved(e)
        BY <3>1, <3>10 DEF Checked
      <4>2. \A s : Held(e, s) => e \in Deployments
        BY DEF Held
      <4> QED
        BY <1>2, <3>3, <4>1, <4>2
    <3>12. operator'[o].deployment = e
      BY <2>2, <3>10
    <3> QED
      BY <2>2, <3>1, <3>4, <3>5, <3>6, <3>7, <3>8, <3>9, <3>10, <3>11, <3>12 DEF Checked, Known
  <2> QED
    BY <2>1, <2>2
<1> QED
  BY <1>2, <1>4, <1>5, <1>6 DEF Inv

(***************************************************************************)
(* Decisions that record no observation                                    *)
(***************************************************************************)
LEMMA CountsStay ==
  ASSUME CountsOK, UNCHANGED observations,
         \A e \in Deployments :
            /\ deployments'[e].samples = deployments[e].samples
            /\ deployments'[e].failures = deployments[e].failures
            /\ deployments'[e].disagreements = deployments[e].disagreements
            /\ deployments'[e].canarySamples = deployments[e].canarySamples
            /\ deployments'[e].canaryFailures = deployments[e].canaryFailures
            /\ Known(e) => Known(e)'
  PROVE  CountsOK'
<1>1. \A o : Recorded(o)' = Recorded(o)
  BY DEF Recorded
<1>2. \A d, lane, diffs : Seen(d, lane, diffs)' = Seen(d, lane, diffs)
  BY <1>1 DEF Seen
<1> QED
  BY <1>1, <1>2 DEF CountsOK, CountOK

LEMMA DecisionWithoutObservation ==
  ASSUME Inv, NEW d \in Deployments, Known(d), NEW decision \in {"stay", "rollback"},
         Settle(d, deployments[d], decision), UNCHANGED <<env, active, observations>>,
         query' \in [Queries -> QueryType], operator' \in [Operators -> OperatorType],
         \A e \in Deployments : NoCanary(e) => NoCanary(e)',
         Settled(d) => \A r \in Queries : query'[r] = query[r] \/ QueryOK(r)',
         \A o \in Operators : operator'[o] = operator[o] \/ operator'[o].todo = "nothing"
  PROVE  Inv'
<1>1. deployments[d] \in DeploymentType
  BY DEF Inv, TypeOK
<1>2. /\ \A o : Recorded(o)' = Recorded(o)
      /\ \A e : Adverse(e)' = Adverse(e) /\ ObservationsOf(e)' = ObservationsOf(e)
  BY DEF Recorded, Adverse, ObservationsOf
<1>3. deployments[d].samples >= deployments[d].samples
        /\ deployments[d].canarySamples >= deployments[d].canarySamples
  BY <1>1 DEF DeploymentType
<1>4. /\ Settled(d)
      /\ deployments'[d].samples = deployments[d].samples
      /\ deployments'[d].failures = deployments[d].failures
      /\ deployments'[d].disagreements = deployments[d].disagreements
      /\ deployments'[d].canarySamples = deployments[d].canarySamples
      /\ deployments'[d].canaryFailures = deployments[d].canaryFailures
      /\ deployments'[d].status \in {deployments[d].status, "rolled_back"}
      /\ deployments' \in [Deployments -> DeploymentType]
      /\ policies' \in [Policies -> PolicyType]
      /\ audit' \ audit \subseteq
           {<<"automatic_release_rollback", deployments[d].candidate, deployments[d].stable>>}
  <2>1. PICK row \in DeploymentType : row = deployments[d]
    BY <1>1
  <2>2. Settle(d, row, decision)
    BY <2>1
  <2> QED
    BY <1>2, <1>3, <2>1, <2>2, SettleMoves DEF Inv
<1>5. \A e \in Deployments : e # d => deployments'[e] = deployments[e]
  BY <1>4 DEF Settled
<1>6. TypeOK'
  <2>1. deployments[d].candidate \in Policies /\ deployments[d].stable \in Policies
    BY <1>1 DEF DeploymentType
  <2> QED
    BY <1>4, <2>1 DEF Inv, TypeOK
<1>7. CountsOK'
  <2>1. \A e \in Deployments : Known(e) => Known(e)'
    BY <1>4, <1>5 DEF Known
  <2> QED
    BY <1>4, <1>5, <2>1, CountsStay DEF Inv
<1>8. DecidedInTime'
  <2>1. \A e \in Deployments : deployments'[e].status \in {deployments[e].status, "rolled_back"}
          /\ deployments'[e].samples = deployments[e].samples
          /\ deployments'[e].canarySamples = deployments[e].canarySamples
    BY <1>4, <1>5
  <2> QED
    BY <1>2, <2>1 DEF Inv, DecidedInTime, NoFailedCandidateStranded, SamplingEndsAtItsTarget
<1> QED
  BY <1>4, <1>6, <1>7, <1>8, SettledKeepsTheFrames

\* The frame of a query after a decision.
LEMMA FrameAfterDecision ==
  ASSUME Inv, NEW q \in Queries, NEW pc \in {"stable", "answer"},
         GoOn(q, [query[q] EXCEPT !.pc = pc]),
         (query[q].pc = "drift" /\ pc = "stable") \/ query[q].pc \in {"insert", "settle"},
         UNCHANGED operator
  PROVE  /\ query' \in [Queries -> QueryType] /\ operator' \in [Operators -> OperatorType]
         /\ \A o \in Operators : operator'[o] = operator[o]
         /\ \A r \in Queries : r # q => query'[r] = query[r]
         /\ query'[q].pc = pc /\ query'[q].deployment = query[q].deployment
         /\ query'[q].lane = query[q].lane
         /\ \A d \in Deployments : Known(d) /\ Settled(d) /\ (deployments' \in [Deployments -> DeploymentType])
               => QueryOK(q)'
<1>1. query[q] \in QueryType /\ QueryOK(q)
  BY QueryFacts
<1> DEFINE f == [query[q] EXCEPT !.pc = pc]
<1>2. f \in QueryType /\ f.pc = pc /\ f.task = query[q].task /\ f.env = query[q].env
        /\ f.deployment = query[q].deployment /\ f.lane = query[q].lane
        /\ f.answered = query[q].answered
  BY <1>1 DEF QueryType
<1>3. query' = [query EXCEPT ![q] = f]
  BY DEF GoOn
<1> HIDE DEF f
<1>4. query'[q] = f /\ (\A r \in Queries : r # q => query'[r] = query[r])
        /\ query' \in [Queries -> QueryType]
  BY <1>2, <1>3 DEF Inv, TypeOK
<1>5. ASSUME NEW d \in Deployments, Known(d), Settled(d), deployments' \in [Deployments -> DeploymentType]
      PROVE  QueryOK(q)'
  <2>1. /\ \A e \in Deployments : Known(e)' = Known(e) /\ deployments'[e].pins = deployments[e].pins
        /\ \A e \in Deployments : Approved(e) => Approved(e)'
    BY <1>5, SettledKeepsTheRows DEF Settled
  <2> QED
    BY <1>1, <1>2, <1>4, <2>1 DEF QueryOK, Running
<1> QED
  BY <1>2, <1>4, <1>5 DEF Inv, TypeOK

LEMMA RollBackDriftedKeeps ==
  ASSUME Inv, NEW q \in Queries, RollBackDrifted(q) PROVE Inv'
<1> DEFINE d == query[q].deployment
<1>1. QueryOK(q) /\ query[q].pc = "drift" /\ UNCHANGED <<env, active, observations, operator>>
        /\ GoOn(q, [query[q] EXCEPT !.pc = "stable"]) /\ Settle(d, deployments[d], "rollback")
  BY QueryFacts DEF RollBackDrifted, RollBackDeployment
<1>2. d \in Deployments /\ Known(d)
  BY <1>1 DEF QueryOK
<1>3. /\ query' \in [Queries -> QueryType] /\ operator' \in [Operators -> OperatorType]
      /\ \A o \in Operators : operator'[o] = operator[o]
      /\ \A r \in Queries : r # q => query'[r] = query[r]
      /\ query'[q].pc = "stable"
      /\ \A e \in Deployments : Known(e) /\ Settled(e) /\ (deployments' \in [Deployments -> DeploymentType])
               => QueryOK(q)'
  BY <1>1, FrameAfterDecision
<1>4. \A e \in Deployments : NoCanary(e) => NoCanary(e)'
  BY <1>1, <1>3 DEF NoCanary, Recorded, Running
<1>5. PICK x \in Deployments : x = d
  BY <1>2
<1> HIDE DEF d
<1>6. deployments' \in [Deployments -> DeploymentType]
  BY <1>1, <1>5 DEF Settle, Inv, TypeOK, DeploymentType, Closed
<1> QED
  BY <1>1, <1>2, <1>3, <1>4, <1>5, <1>6, DecisionWithoutObservation

LEMMA SettleLaterKeeps ==
  ASSUME Inv, NEW q \in Queries, SettleLater(q) PROVE Inv'
<1> DEFINE d == query[q].deployment
<1>1. QueryOK(q) /\ query[q].pc = "settle" /\ UNCHANGED <<env, active, observations, operator>>
        /\ GoOn(q, [query[q] EXCEPT !.pc = "answer"])
        /\ Settle(d, deployments[d], query[q].decision)
  BY QueryFacts DEF SettleLater
<1>2. d \in Deployments /\ Known(d) /\ query[q].decision \in {"stay", "rollback"}
  BY <1>1 DEF QueryOK, Running
<1>3. /\ query' \in [Queries -> QueryType] /\ operator' \in [Operators -> OperatorType]
      /\ \A o \in Operators : operator'[o] = operator[o]
      /\ \A r \in Queries : r # q => query'[r] = query[r]
      /\ query'[q].pc = "answer" /\ query'[q].deployment = d /\ query'[q].lane = query[q].lane
      /\ \A e \in Deployments : Known(e) /\ Settled(e) /\ (deployments' \in [Deployments -> DeploymentType])
               => QueryOK(q)'
  BY <1>1, FrameAfterDecision
<1>4. \A e \in Deployments : NoCanary(e) => NoCanary(e)'
  BY <1>1, <1>3 DEF NoCanary, Recorded, Running
<1>5. PICK x \in Deployments, decision \in {"stay", "rollback"} : x = d /\ decision = query[q].decision
  BY <1>2
<1> HIDE DEF d
<1>6. deployments' \in [Deployments -> DeploymentType]
  <2>1. deployments[x] \in DeploymentType
    BY DEF Inv, TypeOK
  <2>2. \E new \in DeploymentType : deployments' = [deployments EXCEPT ![x] = new]
    BY <1>1, <1>5, <2>1 DEF Settle, DeploymentType, Closed
  <2> QED
    BY <2>2 DEF Inv, TypeOK
<1> QED
  BY <1>1, <1>2, <1>3, <1>4, <1>5, <1>6, DecisionWithoutObservation

(***************************************************************************)
(* Recording an observation                                                *)
(***************************************************************************)
LEMMA CountedRow ==
  ASSUME NEW row \in DeploymentType, NEW lane \in Lanes, NEW diff \in Diffs
  PROVE  LET new == Counted(row, lane, diff)
             fails == IF diff \in Failures THEN 1 ELSE 0
             differs == IF diff \in Disagreements THEN 1 ELSE 0
         IN  /\ new \in DeploymentType
             /\ new.status = row.status /\ new.stable = row.stable
             /\ new.candidate = row.candidate /\ new.pins = row.pins
             /\ new.samples = IF lane = "stable" THEN row.samples + 1 ELSE row.samples
             /\ new.failures = IF lane = "stable" THEN row.failures + fails ELSE row.failures
             /\ new.disagreements = IF lane = "stable" THEN row.disagreements + differs
                                    ELSE row.disagreements
             /\ new.canarySamples = IF lane = "canary" THEN row.canarySamples + 1
                                    ELSE row.canarySamples
             /\ new.canaryFailures = IF lane = "canary" THEN row.canaryFailures + fails
                                     ELSE row.canaryFailures
<1> DEFINE fails == IF diff \in Failures THEN 1 ELSE 0
           differs == IF diff \in Disagreements THEN 1 ELSE 0
<1>0. PICK new : new = Counted(row, lane, diff)
  OBVIOUS
<1>1. fails \in Nat /\ differs \in Nat
  OBVIOUS
<1>2. PICK a \in Nat, b \in Nat : a = fails /\ b = differs
  BY <1>1
<1>3. CASE lane = "stable"
  <2>1. Counted(row, lane, diff) =
          [row EXCEPT !.samples = row.samples + 1, !.failures = row.failures + a,
                      !.disagreements = row.disagreements + b]
    BY <1>2, <1>3 DEF Counted
  <2>2. /\ new \in DeploymentType /\ new.status = row.status /\ new.stable = row.stable
        /\ new.candidate = row.candidate /\ new.pins = row.pins
        /\ new.samples = row.samples + 1 /\ new.failures = row.failures + a
        /\ new.disagreements = row.disagreements + b
        /\ new.canarySamples = row.canarySamples /\ new.canaryFailures = row.canaryFailures
    <3>1. row.samples \in Nat /\ row.failures \in Nat /\ row.disagreements \in Nat
      BY DEF DeploymentType
    <3>2. PICK x \in Nat, y \in Nat, z \in Nat :
            x = row.samples + 1 /\ y = row.failures + a /\ z = row.disagreements + b
      BY <1>2, <3>1
    <3>3. new = [row EXCEPT !.samples = x, !.failures = y, !.disagreements = z]
      BY <1>0, <2>1, <3>2
    <3>4. /\ new \in DeploymentType /\ new.status = row.status /\ new.stable = row.stable
          /\ new.candidate = row.candidate /\ new.pins = row.pins
          /\ new.samples = x /\ new.failures = y /\ new.disagreements = z
          /\ new.canarySamples = row.canarySamples /\ new.canaryFailures = row.canaryFailures
      BY <3>3 DEF DeploymentType
    <3> QED
      BY <3>2, <3>4
  <2> QED
    BY <1>0, <1>2, <1>3, <2>2
<1>4. CASE lane = "canary"
  <2>1. Counted(row, lane, diff) =
          [row EXCEPT !.canarySamples = row.canarySamples + 1,
                      !.canaryFailures = row.canaryFailures + a]
    BY <1>2, <1>4 DEF Counted
  <2>2. /\ new \in DeploymentType /\ new.status = row.status /\ new.stable = row.stable
        /\ new.candidate = row.candidate /\ new.pins = row.pins
        /\ new.samples = row.samples /\ new.failures = row.failures
        /\ new.disagreements = row.disagreements
        /\ new.canarySamples = row.canarySamples + 1
        /\ new.canaryFailures = row.canaryFailures + a
    <3>1. row.canarySamples \in Nat /\ row.canaryFailures \in Nat
      BY DEF DeploymentType
    <3>2. PICK x \in Nat, y \in Nat : x = row.canarySamples + 1 /\ y = row.canaryFailures + a
      BY <1>2, <3>1
    <3>3. new = [row EXCEPT !.canarySamples = x, !.canaryFailures = y]
      BY <1>0, <2>1, <3>2
    <3>4. /\ new \in DeploymentType /\ new.status = row.status /\ new.stable = row.stable
          /\ new.candidate = row.candidate /\ new.pins = row.pins
          /\ new.samples = row.samples /\ new.failures = row.failures
          /\ new.disagreements = row.disagreements
          /\ new.canarySamples = x /\ new.canaryFailures = y
      BY <3>3 DEF DeploymentType
    <3> QED
      BY <3>2, <3>4
  <2> QED
    BY <1>0, <1>2, <1>4, <2>2
<1> QED
  BY <1>3, <1>4 DEF Lanes

\* A row that is counted is decided about: it is left sampling only with an incomplete
\* sample, and in its shadow only without a failure.
LEMMA DecisionOfARow ==
  ASSUME NEW row \in DeploymentType, NEW diff \in Diffs, NEW slow \in BOOLEAN
  PROVE  LET decision == Decision(row, diff, slow)
         IN  /\ decision \in {"stay", "rollback", "shadow_review", "canary_passed"}
             /\ decision = "shadow_review" => row.status = "shadow_running" /\ row.samples >= MinShadow
             /\ decision = "canary_passed" =>
                  row.status = "canary_running" /\ row.canarySamples >= MinCanary
             /\ diff \in Failures => decision = "rollback"
             /\ decision = "stay" /\ row.status = "shadow_running" => row.samples < MinShadow
             /\ decision = "stay" /\ row.status = "canary_running" => row.canarySamples < MinCanary
<1>1. row.samples \in Nat /\ row.canarySamples \in Nat /\ MinShadow \in Nat /\ MinCanary \in Nat
  BY ReleaseAssumption DEF DeploymentType
<1> QED
  BY <1>1 DEF Decision, Failures

LEMMA NewObservation ==
  ASSUME Inv, NEW q \in Queries, Insert(q),
         ~Recorded(<<query[q].deployment, query[q].task, query[q].lane>>)
  PROVE  Inv'
<1>1. query[q] \in QueryType /\ QueryOK(q) /\ query[q].pc = "insert"
  BY QueryFacts DEF Insert
<1>2. PICK d \in Deployments, t \in Tasks, lane \in Lanes, diff \in Diffs :
        /\ d = query[q].deployment /\ t = query[q].task /\ lane = query[q].lane
        /\ diff = query[q].diff /\ Known(d)
  BY <1>1 DEF QueryOK, QueryType, Running
<1> DEFINE k == <<d, t, lane>>
<1>3. ~Recorded(k)
  BY <1>2
<1>4. PICK review \in {"pending", "not_required"} :
        observations' = [observations EXCEPT ![k] =
           [review |-> review, diff |-> diff, verdict |-> ""]]
  <2>1. observations' = [observations EXCEPT ![k] =
           [review |-> IF lane = "stable" /\ diff # "same" THEN "pending" ELSE "not_required",
            diff |-> diff, verdict |-> ""]]
    BY <1>2, <1>3 DEF Insert
  <2> QED
    BY <2>1
<1>5. PICK row : row = Counted(deployments[d], lane, diff)
  OBVIOUS
<1>6. PICK slow \in BOOLEAN : Settle(d, row, Decision(row, diff, slow))
  BY <1>2, <1>3, <1>5 DEF Insert
<1>7. PICK decision : decision = Decision(row, diff, slow)
  OBVIOUS
<1>8. deployments[d] \in DeploymentType
  BY DEF Inv, TypeOK
<1> DEFINE fails == IF diff \in Failures THEN 1 ELSE 0
           differs == IF diff \in Disagreements THEN 1 ELSE 0
<1>9. /\ row \in DeploymentType
      /\ row.status = deployments[d].status /\ row.stable = deployments[d].stable
      /\ row.candidate = deployments[d].candidate /\ row.pins = deployments[d].pins
      /\ row.samples = IF lane = "stable" THEN deployments[d].samples + 1 ELSE deployments[d].samples
      /\ row.failures = IF lane = "stable" THEN deployments[d].failures + fails
                        ELSE deployments[d].failures
      /\ row.disagreements = IF lane = "stable" THEN deployments[d].disagreements + differs
                             ELSE deployments[d].disagreements
      /\ row.canarySamples = IF lane = "canary" THEN deployments[d].canarySamples + 1
                             ELSE deployments[d].canarySamples
      /\ row.canaryFailures = IF lane = "canary" THEN deployments[d].canaryFailures + fails
                              ELSE deployments[d].canaryFailures
  BY <1>5, <1>8, CountedRow
<1>10. /\ decision \in {"stay", "rollback", "shadow_review", "canary_passed"}
       /\ decision = "shadow_review" => row.status = "shadow_running" /\ row.samples >= MinShadow
       /\ decision = "canary_passed" => row.status = "canary_running" /\ row.canarySamples >= MinCanary
       /\ diff \in Failures => decision = "rollback"
       /\ decision = "stay" /\ row.status = "shadow_running" => row.samples < MinShadow
       /\ decision = "stay" /\ row.status = "canary_running" => row.canarySamples < MinCanary
  BY <1>7, <1>9, DecisionOfARow
<1>11. /\ deployments[d].samples \in Nat /\ deployments[d].canarySamples \in Nat
       /\ row.samples >= deployments[d].samples
       /\ row.canarySamples >= deployments[d].canarySamples
  <2>1. deployments[d].samples \in Nat /\ deployments[d].canarySamples \in Nat
    BY <1>8 DEF DeploymentType
  <2> QED
    BY <1>9, <2>1
<1>12. /\ \A e \in Deployments, l \in Lanes, diffs \in SUBSET Diffs :
              Seen(e, l, diffs)' = IF e = d /\ l = lane /\ diff \in diffs
                                   THEN Seen(e, l, diffs) \cup {k} ELSE Seen(e, l, diffs)
       /\ \A diffs : k \notin Seen(d, lane, diffs)
       /\ \A o \in Deployments \X Tasks \X Lanes : o # k => observations'[o] = observations[o]
       /\ Recorded(k)'
       /\ \A o \in Deployments \X Tasks \X Lanes : Recorded(o) => Recorded(o)'
       /\ \A e \in Deployments : Adverse(e)' = Adverse(e)
  BY <1>3, <1>4, SeenGrows DEF Inv
<1>13. UNCHANGED <<env, active, operator>> /\ GoOn(q, [query[q] EXCEPT !.pc = "answer"])
  BY DEF Insert
<1>14. /\ Settled(d)
       /\ deployments'[d].samples = row.samples
       /\ deployments'[d].failures = row.failures
       /\ deployments'[d].disagreements = row.disagreements
       /\ deployments'[d].canarySamples = row.canarySamples
       /\ deployments'[d].canaryFailures = row.canaryFailures
       /\ deployments'[d].status = CASE decision = "stay" -> row.status
                                     [] decision = "rollback" -> "rolled_back"
                                     [] OTHER -> decision
       /\ deployments' \in [Deployments -> DeploymentType]
       /\ policies' \in [Policies -> PolicyType]
       /\ audit' \ audit \subseteq
            {<<"automatic_release_rollback", deployments[d].candidate, deployments[d].stable>>}
  <2>1. Settle(d, row, decision)
    BY <1>6, <1>7
  <2> QED
    BY <2>1, <1>9, <1>10, <1>11, <1>12, <1>13, SettleMoves DEF Inv
<1>15. /\ query' \in [Queries -> QueryType] /\ operator' \in [Operators -> OperatorType]
       /\ \A o \in Operators : operator'[o] = operator[o]
       /\ \A r \in Queries : r # q => query'[r] = query[r]
       /\ query'[q].pc = "answer" /\ query'[q].deployment = d /\ query'[q].lane = lane
       /\ QueryOK(q)'
  BY <1>1, <1>2, <1>13, <1>14, FrameAfterDecision
<1>16. TypeOK'
  <2>1. deployments[d].candidate \in Policies /\ deployments[d].stable \in Policies
    BY <1>8 DEF DeploymentType
  <2>2. [review |-> review, diff |-> diff, verdict |-> ""] \in ObservationType
    BY DEF ObservationType
  <2>3. observations' \in [Deployments \X Tasks \X Lanes -> ObservationType]
    BY <1>4, <2>2 DEF Inv, TypeOK
  <2> QED
    BY <1>13, <1>14, <1>15, <2>1, <2>3 DEF Inv, TypeOK
<1>17. \A e \in Deployments : e # d => deployments'[e] = deployments[e]
  BY <1>14 DEF Settled
<1>18. CountsOK'
  <2> SUFFICES ASSUME NEW e \in Deployments PROVE CountOK(e)'
    BY DEF CountsOK
  <2>1. CountOK(e) /\ CountOK(d)
    BY DEF Inv, CountsOK
  <2>2. Diffs \in SUBSET Diffs /\ Failures \in SUBSET Diffs /\ Disagreements \in SUBSET Diffs
          /\ {"stable", "canary"} = Lanes
    BY DEF Diffs, Failures, Disagreements, Lanes
  <2>3. CASE e # d
    <3>1. \A l \in Lanes, diffs \in SUBSET Diffs : Seen(e, l, diffs)' = Seen(e, l, diffs)
      BY <2>3, <1>12
    <3>2. \A l \in Lanes, s \in Tasks : <<e, s, l>> # k
      BY <2>3
    <3>3. ~Known(e)' => \A s \in Tasks, l \in Lanes : ~Recorded(<<e, s, l>>)'
      BY <1>12, <1>17, <2>1, <2>3, <3>2 DEF CountOK, Known, Recorded
    <3> QED
      BY <1>17, <2>1, <2>2, <2>3, <3>1, <3>3 DEF CountOK
  <2>4. CASE e = d
    <3>1. \A diffs \in SUBSET Diffs :
            Seen(d, lane, diffs)' = IF diff \in diffs THEN Seen(d, lane, diffs) \cup {k}
                                    ELSE Seen(d, lane, diffs)
      BY <1>12
    <3>2. \A l \in Lanes, diffs \in SUBSET Diffs : l # lane => Seen(d, l, diffs)' = Seen(d, l, diffs)
      BY <1>12
    <3>3. \A l \in Lanes, diffs \in SUBSET Diffs : IsFiniteSet(Seen(d, l, diffs))
                                              /\ Cardinality(Seen(d, l, diffs)) \in Nat
      BY <2>1, SubsetsOfSeen DEF CountOK
    <3>4. \A diffs \in SUBSET Diffs :
            /\ IsFiniteSet(Seen(d, lane, diffs) \cup {k})
            /\ Cardinality(Seen(d, lane, diffs) \cup {k}) = Cardinality(Seen(d, lane, diffs)) + 1
      BY <1>12, <3>3, FS_AddElement
    <3>5. \A diffs \in SUBSET Diffs :
            /\ IsFiniteSet(Seen(d, lane, diffs)')
            /\ Cardinality(Seen(d, lane, diffs)') =
                 Cardinality(Seen(d, lane, diffs)) + (IF diff \in diffs THEN 1 ELSE 0)
      BY <3>1, <3>3, <3>4
    <3>6. \A l \in Lanes : IsFiniteSet(Seen(d, l, Diffs)')
      BY <2>2, <3>2, <3>3, <3>5
    <3>7. Known(d)'
      BY <1>2, <1>10, <1>9, <1>14 DEF Known
    <3>8. CASE lane = "stable"
      <4>1. /\ deployments'[d].samples = Cardinality(Seen(d, "stable", Diffs)')
            /\ deployments'[d].failures = Cardinality(Seen(d, "stable", Failures)')
            /\ deployments'[d].disagreements = Cardinality(Seen(d, "stable", Disagreements)')
        BY <1>9, <1>14, <2>1, <2>2, <2>4, <3>5, <3>8 DEF CountOK
      <4>2. /\ deployments'[d].canarySamples = Cardinality(Seen(d, "canary", Diffs)')
            /\ deployments'[d].canaryFailures = Cardinality(Seen(d, "canary", Failures)')
        BY <1>9, <1>14, <2>1, <2>2, <2>4, <3>2, <3>8 DEF CountOK
      <4> QED
        BY <2>4, <3>6, <3>7, <4>1, <4>2 DEF CountOK
    <3>9. CASE lane = "canary"
      <4>1. /\ deployments'[d].samples = Cardinality(Seen(d, "stable", Diffs)')
            /\ deployments'[d].failures = Cardinality(Seen(d, "stable", Failures)')
            /\ deployments'[d].disagreements = Cardinality(Seen(d, "stable", Disagreements)')
        BY <1>9, <1>14, <2>1, <2>2, <2>4, <3>2, <3>9 DEF CountOK
      <4>2. /\ deployments'[d].canarySamples = Cardinality(Seen(d, "canary", Diffs)')
            /\ deployments'[d].canaryFailures = Cardinality(Seen(d, "canary", Failures)')
        BY <1>9, <1>14, <2>1, <2>2, <2>4, <3>5, <3>9 DEF CountOK
      <4> QED
        BY <2>4, <3>6, <3>7, <4>1, <4>2 DEF CountOK
    <3> QED
      BY <2>2, <3>8, <3>9
  <2> QED
    BY <2>3, <2>4
<1>19. DecidedInTime'
  <2> SUFFICES ASSUME NEW e \in Deployments
               PROVE  /\ deployments'[e].status \in {"shadow_running", "shadow_review"} =>
                           \A o \in ObservationsOf(e)' : observations'[o].diff \notin Failures
                      /\ deployments'[e].status = "shadow_running" => deployments'[e].samples < MinShadow
                      /\ deployments'[e].status = "canary_running" => deployments'[e].canarySamples < MinCanary
    BY DEF DecidedInTime, NoFailedCandidateStranded, SamplingEndsAtItsTarget
  <2>1. /\ deployments[e].status \in {"shadow_running", "shadow_review"} =>
             \A o \in ObservationsOf(e) : observations[o].diff \notin Failures
        /\ deployments[e].status = "shadow_running" => deployments[e].samples < MinShadow
        /\ deployments[e].status = "canary_running" => deployments[e].canarySamples < MinCanary
    BY DEF Inv, DecidedInTime, NoFailedCandidateStranded, SamplingEndsAtItsTarget
  <2>2. \A o \in ObservationsOf(e)' : o # k => o \in ObservationsOf(e) /\ observations'[o] = observations[o]
    BY <1>12, <1>16 DEF ObservationsOf, Recorded, Inv, TypeOK
  <2>3. observations'[k].diff = diff
    BY <1>4 DEF Inv, TypeOK
  <2>4. CASE e # d
    <3>1. k \notin ObservationsOf(e)'
      BY <2>4 DEF ObservationsOf
    <3> QED
      BY <1>17, <2>1, <2>2, <2>4, <3>1
  <2>5. CASE e = d
    <3>1. deployments'[d].status \in {"shadow_running", "shadow_review"} =>
            /\ diff \notin Failures
            /\ deployments[d].status \in {"shadow_running", "shadow_review"}
      BY <1>9, <1>10, <1>14
    <3>2. deployments'[d].status = "shadow_running" => deployments'[d].samples < MinShadow
      BY <1>9, <1>10, <1>14
    <3>3. deployments'[d].status = "canary_running" => deployments'[d].canarySamples < MinCanary
      BY <1>9, <1>10, <1>14
    <3> QED
      BY <2>1, <2>2, <2>3, <2>5, <3>1, <3>2, <3>3
  <2> QED
    BY <2>4, <2>5
<1>20. \A e \in Deployments : NoCanary(e) => NoCanary(e)'
  <2> SUFFICES ASSUME NEW e \in Deployments, NoCanary(e) PROVE NoCanary(e)'
    OBVIOUS
  <2>1. e = d => lane = "stable"
    BY <1>1, <1>2 DEF NoCanary, Running
  <2>2. \A s \in Tasks : <<e, s, "canary">> # k
    BY <2>1
  <2>3. \A s \in Tasks : ~Recorded(<<e, s, "canary">>)'
    BY <1>12, <2>2 DEF NoCanary, Recorded, Lanes
  <2> QED
    BY <1>1, <1>2, <1>15, <2>1, <2>3 DEF NoCanary
<1> QED
  BY <1>2, <1>14, <1>15, <1>16, <1>18, <1>19, <1>20, SettledKeepsTheFrames

LEMMA InsertKeeps ==
  ASSUME Inv, NEW q \in Queries, Insert(q) PROVE Inv'
<1>1. CASE ~Recorded(<<query[q].deployment, query[q].task, query[q].lane>>)
  BY <1>1, NewObservation
<1>2. CASE Recorded(<<query[q].deployment, query[q].task, query[q].lane>>)
  <2>1. query[q] \in QueryType /\ QueryOK(q) /\ query[q].pc = "insert"
    BY QueryFacts DEF Insert
  <2>2. PICK d \in Deployments, t \in Tasks, lane \in Lanes :
          d = query[q].deployment /\ t = query[q].task /\ lane = query[q].lane /\ Known(d)
    BY <2>1 DEF QueryOK, QueryType, Running
  <2>3. PICK slow \in BOOLEAN :
          Settle(d, deployments[d], Decision(deployments[d], observations[<<d, t, lane>>].diff, slow))
    BY <1>2, <2>2 DEF Insert
  <2>4. PICK decision : decision = Decision(deployments[d], observations[<<d, t, lane>>].diff, slow)
    OBVIOUS
  <2>5. decision \in {"stay", "rollback"} /\ Settle(d, deployments[d], decision)
    BY <1>2, <2>2, <2>3, <2>4, NothingIsLeftToDecide
  <2>6. UNCHANGED <<env, active, observations, operator>> /\ GoOn(q, [query[q] EXCEPT !.pc = "answer"])
    BY <1>2 DEF Insert
  <2>7. /\ query' \in [Queries -> QueryType] /\ operator' \in [Operators -> OperatorType]
        /\ \A o \in Operators : operator'[o] = operator[o]
        /\ \A r \in Queries : r # q => query'[r] = query[r]
        /\ query'[q].pc = "answer" /\ query'[q].deployment = d /\ query'[q].lane = lane
        /\ \A e \in Deployments : Known(e) /\ Settled(e) /\ (deployments' \in [Deployments -> DeploymentType])
                 => QueryOK(q)'
    BY <2>1, <2>2, <2>6, FrameAfterDecision
  <2>8. \A e \in Deployments : NoCanary(e) => NoCanary(e)'
    BY <2>1, <2>2, <2>6, <2>7 DEF NoCanary, Recorded, Running
  <2>9. deployments' \in [Deployments -> DeploymentType]
    <3>1. deployments[d] \in DeploymentType
      BY DEF Inv, TypeOK
    <3>2. \E new \in DeploymentType : deployments' = [deployments EXCEPT ![d] = new]
      BY <2>5, <3>1 DEF Settle, DeploymentType, Closed
    <3> QED
      BY <3>2 DEF Inv, TypeOK
  <2> QED
    BY <2>2, <2>5, <2>6, <2>7, <2>8, <2>9, DecisionWithoutObservation
<1> QED
  BY <1>1, <1>2

(***************************************************************************)
(* What operators check                                                    *)
(***************************************************************************)
LEMMA NothingIsTyped == ASSUME Inv PROVE Nothing \in OperatorType /\ Nothing.todo = "nothing"
<1>1. AnyEnvironment \in Environments
  BY DEF AnyEnvironment, Inv, TypeOK
<1> QED
  BY <1>1, ReleaseAssumption DEF Nothing, OperatorType, Verdicts

\* The frame of an operator that has decided.
LEMMA DecidedFrame ==
  ASSUME Inv, NEW o \in Operators, NEW p \in Policies, NEW d \in Deployments \cup {NoDeployment},
         NEW todo \in {"evaluate", "configure", "approve", "reject", "canary",
                       "activate", "automatic", "rollback"},
         Decide(o, todo, p, d)
  PROVE  \E f \in OperatorType :
           /\ f.todo = todo /\ f.policy = p /\ f.deployment = d
           /\ f.env = env /\ f.previous = active
           /\ operator' = [operator EXCEPT ![o] = f] /\ UNCHANGED <<env, tables, query>>
<1> DEFINE f == [Nothing EXCEPT !.todo = todo, !.policy = p, !.deployment = d,
                               !.env = env, !.previous = active]
<1>1. f \in OperatorType /\ f.todo = todo /\ f.policy = p /\ f.deployment = d
        /\ f.env = env /\ f.previous = active
  <2>1. env \in Environments /\ active \in Policies /\ Nothing \in OperatorType
    BY NothingIsTyped DEF Inv, TypeOK
  <2> QED
    BY <2>1 DEF OperatorType
<1>2. operator' = [operator EXCEPT ![o] = f] /\ UNCHANGED <<env, tables, query>>
  BY DEF Decide
<1> HIDE DEF f
<1> QED
  BY <1>1, <1>2

LEMMA CheckEvaluationKeeps ==
  ASSUME Inv, NEW o \in Operators, NEW p \in Policies, CheckEvaluation(o, p) PROVE Inv'
<1>1. Decide(o, "evaluate", p, NoDeployment)
  BY DEF CheckEvaluation
<1>2. PICK f \in OperatorType :
        /\ f.todo = "evaluate" /\ f.policy = p /\ f.deployment = NoDeployment
        /\ f.env = env /\ f.previous = active
        /\ operator' = [operator EXCEPT ![o] = f] /\ UNCHANGED <<env, tables, query>>
  BY <1>1, DecidedFrame
<1>3. Checked(f)
  BY <1>2 DEF CheckEvaluation, Checked, Early
<1> QED
  BY <1>2, <1>3, OperatorDecides

LEMMA CheckConfigurationKeeps ==
  ASSUME Inv, NEW o \in Operators, NEW p \in Policies, CheckConfiguration(o, p) PROVE Inv'
<1>1. Decide(o, "configure", p, NoDeployment)
  BY DEF CheckConfiguration
<1>2. PICK f \in OperatorType :
        /\ f.todo = "configure" /\ f.policy = p /\ f.deployment = NoDeployment
        /\ f.env = env /\ f.previous = active
        /\ operator' = [operator EXCEPT ![o] = f] /\ UNCHANGED <<env, tables, query>>
  BY <1>1, DecidedFrame
<1>3. Checked(f)
  BY <1>2 DEF CheckConfiguration, Checked, ReadyToRelease
<1> QED
  BY <1>2, <1>3, OperatorDecides

LEMMA CheckReviewKeeps ==
  ASSUME Inv, NEW o \in Operators, NEW d \in Deployments, NEW t \in Tasks,
         NEW verdict \in Verdicts, CheckReview(o, d, t, verdict)
  PROVE  Inv'
<1> DEFINE f == [Nothing EXCEPT !.todo = "review", !.deployment = d, !.task = t,
                               !.verdict = verdict]
<1>1. f \in OperatorType /\ f.todo = "review" /\ f.deployment = d /\ f.task = t
  BY NothingIsTyped DEF OperatorType
<1>2. operator' = [operator EXCEPT ![o] = f] /\ UNCHANGED <<env, tables, query>>
        /\ observations[d, t, "stable"].review = "pending"
        /\ deployments[d].status = "shadow_review"
  BY DEF CheckReview
<1> HIDE DEF f
<1>3. Checked(f)
  BY <1>1, <1>2 DEF Checked, Recorded
<1> QED
  BY <1>1, <1>2, <1>3, OperatorDecides

\* A deployment in review, or approved, is the only one that is unfinished.
LEMMA HeldByStatus ==
  ASSUME Inv, NEW d \in Deployments, NEW status \in {"shadow_review", "shadow_passed"},
         deployments[d].status = status, Adverse(d) = {}
  PROVE  Held(d, status)
<1>1. RowOK(d) /\ Known(d)
  BY DEF Inv, RowsOK, Known
<1>2. NoCanary(d)
  BY DEF Inv, LanesOK
<1>3. \A e \in Unfinished : e = d
  BY DEF Inv, Exclusive, Unfinished, Open
<1> QED
  BY <1>1, <1>2, <1>3 DEF Held, RowOK

LEMMA CheckApprovalKeeps ==
  ASSUME Inv, NEW o \in Operators, NEW d \in Deployments, CheckApproval(o, d) PROVE Inv'
<1>1. deployments[d].status = "shadow_review" /\ Baseline \in Policies
        /\ Decide(o, IF Adverse(d) = {} THEN "approve" ELSE "reject", Baseline, d)
  BY ReleaseAssumption DEF CheckApproval
<1>2. CASE Adverse(d) = {}
  <2>1. Held(d, "shadow_review")
    BY <1>1, <1>2, HeldByStatus
  <2>2. Decide(o, "approve", Baseline, d)
    BY <1>1, <1>2
  <2>3. PICK f \in OperatorType :
          /\ f.todo = "approve" /\ f.policy = Baseline /\ f.deployment = d
          /\ f.env = env /\ f.previous = active
          /\ operator' = [operator EXCEPT ![o] = f] /\ UNCHANGED <<env, tables, query>>
    BY <2>2, <1>1, DecidedFrame
  <2>4. Checked(f)
    BY <2>1, <2>3 DEF Checked
  <2> QED
    BY <2>3, <2>4, OperatorDecides
<1>3. CASE Adverse(d) # {}
  <2>1. Decide(o, "reject", Baseline, d)
    BY <1>1, <1>3
  <2>2. PICK f \in OperatorType :
          /\ f.todo = "reject" /\ f.policy = Baseline /\ f.deployment = d
          /\ f.env = env /\ f.previous = active
          /\ operator' = [operator EXCEPT ![o] = f] /\ UNCHANGED <<env, tables, query>>
    BY <2>1, <1>1, DecidedFrame
  <2>3. Checked(f)
    BY <1>1, <2>2 DEF Checked, Known
  <2> QED
    BY <2>2, <2>3, OperatorDecides
<1> QED
  BY <1>2, <1>3

LEMMA CheckCanaryKeeps ==
  ASSUME Inv, NEW o \in Operators, NEW d \in Deployments, CheckCanary(o, d) PROVE Inv'
<1>1. deployments[d].status = "shadow_passed" /\ Baseline \in Policies
        /\ Decide(o, "canary", Baseline, d)
  BY ReleaseAssumption DEF CheckCanary
<1>2. Adverse(d) = {} /\ Approved(d)
  BY <1>1 DEF Inv, RowsOK, RowOK, Known, Cleared
<1>3. Held(d, "shadow_passed")
  BY <1>1, <1>2, HeldByStatus
<1>4. PICK f \in OperatorType :
        /\ f.todo = "canary" /\ f.policy = Baseline /\ f.deployment = d
        /\ f.env = env /\ f.previous = active
        /\ operator' = [operator EXCEPT ![o] = f] /\ UNCHANGED <<env, tables, query>>
  BY <1>1, DecidedFrame
<1>5. Checked(f)
  BY <1>2, <1>3, <1>4 DEF Checked
<1> QED
  BY <1>4, <1>5, OperatorDecides

LEMMA CheckActivationKeeps ==
  ASSUME Inv, NEW o \in Operators, NEW p \in Policies, CheckActivation(o, p) PROVE Inv'
<1>1. PICK d \in Deployments :
        /\ deployments[d].candidate = p /\ deployments[d].status = "canary_passed"
        /\ deployments[d].stable = active
  BY DEF CheckActivation
<1>2. RowOK(d)
  BY <1>1 DEF Inv, RowsOK, Known
<1>3. deployments[d].samples >= MinShadow /\ deployments[d].canarySamples >= MinCanary
  BY <1>1, <1>2 DEF RowOK
<1>4. Decide(o, "activate", p, NoDeployment)
  BY DEF CheckActivation
<1>5. PICK f \in OperatorType :
        /\ f.todo = "activate" /\ f.policy = p /\ f.deployment = NoDeployment
        /\ f.env = env /\ f.previous = active
        /\ operator' = [operator EXCEPT ![o] = f] /\ UNCHANGED <<env, tables, query>>
  BY <1>4, DecidedFrame
<1>6. Checked(f)
  BY <1>1, <1>3, <1>5 DEF Checked, Candidate
<1> QED
  BY <1>5, <1>6, OperatorDecides

LEMMA CheckAutomaticKeeps ==
  ASSUME Inv, NEW o \in Operators, NEW p \in Policies, CheckAutomatic(o, p) PROVE Inv'
<1>1. Decide(o, "automatic", p, NoDeployment)
  BY DEF CheckAutomatic
<1>2. PICK f \in OperatorType :
        /\ f.todo = "automatic" /\ f.policy = p /\ f.deployment = NoDeployment
        /\ f.env = env /\ f.previous = active
        /\ operator' = [operator EXCEPT ![o] = f] /\ UNCHANGED <<env, tables, query>>
  BY <1>1, DecidedFrame
<1>3. Checked(f)
  BY <1>2 DEF CheckAutomatic, Checked, ReadyToRelease
<1> QED
  BY <1>2, <1>3, OperatorDecides

LEMMA CheckRollbackKeeps ==
  ASSUME Inv, NEW o \in Operators, NEW p \in Policies, CheckRollback(o, p) PROVE Inv'
<1>1. policies[p].status \in {"approved", "retired"} /\ Decide(o, "rollback", p, NoDeployment)
  BY DEF CheckRollback
<1>2. Earned(p)
  BY <1>1 DEF Inv, PoliciesOK
<1>3. \A d \in Unfinished : Candidate(d) # p
  BY <1>1 DEF Inv, PolicyFollowsDeployment, Unfinished, Open, Sampling, Candidate
<1>4. PICK f \in OperatorType :
        /\ f.todo = "rollback" /\ f.policy = p /\ f.deployment = NoDeployment
        /\ f.env = env /\ f.previous = active
        /\ operator' = [operator EXCEPT ![o] = f] /\ UNCHANGED <<env, tables, query>>
  BY <1>1, DecidedFrame
<1>5. Checked(f)
  BY <1>2, <1>3, <1>4 DEF Checked
<1> QED
  BY <1>4, <1>5, OperatorDecides

LEMMA AbandonKeeps ==
  ASSUME Inv, NEW o \in Operators, Abandon(o) PROVE Inv'
<1>1. operator' = [operator EXCEPT ![o] = Nothing] /\ UNCHANGED <<env, tables, query>>
  BY DEF Abandon
<1> QED
  BY <1>1, NothingIsTyped, OperatorDecides DEF Checked

(***************************************************************************)
(* Steps of nobody in particular                                           *)
(***************************************************************************)
LEMMA ChangeEnvironmentKeeps ==
  ASSUME Inv, ChangeEnvironment PROVE Inv'
<1>1. UNCHANGED tables /\ UNCHANGED query /\ UNCHANGED operator /\ env' \in Environments
  BY DEF ChangeEnvironment
<1>2. /\ RowsOK' /\ PolicyFollowsDeployment' /\ Exclusive' /\ PoliciesOK'
      /\ DecidedInTime' /\ CountsOK'
  BY <1>1, TablesStay DEF Inv
<1>3. /\ deployments' = deployments /\ policies' = policies /\ audit' = audit
      /\ observations' = observations /\ active' = active
  BY <1>1 DEF tables
<1>4. TypeOK'
  BY <1>1, <1>3 DEF Inv, TypeOK
<1>5. \A d : NoCanary(d)' = NoCanary(d)
  BY <1>1, TablesStay DEF NoCanary
<1>6. LanesOK'
  BY <1>3, <1>5 DEF Inv, LanesOK
<1>7. QueriesOK'
  BY <1>1, <1>3, TablesStay DEF Inv, QueriesOK, QueryOK
<1>8. \A d, s : Held(d, s) => Held(d, s)'
  BY <1>1, <1>3, <1>5, TablesStay DEF Held
<1>9. \A o \in Operators : Checked(operator[o]) => Checked(operator[o])'
  BY <1>1, <1>3, <1>8, TablesStay DEF Checked
<1>10. OperatorsOK'
  BY <1>1, <1>9 DEF Inv, OperatorsOK
<1> QED
  BY <1>2, <1>4, <1>6, <1>7, <1>10 DEF Inv

(***************************************************************************)
(* What operators write                                                    *)
(***************************************************************************)
\* Operators take turns, so that nobody holds anything after a write.
LEMMA NobodyHoldsAnything ==
  ASSUME OneOperator, Inv, NEW o \in Operators, NEW todo, Writes(o, todo)
  PROVE  /\ operator' \in [Operators -> OperatorType] /\ OperatorsOK'
         /\ \A p \in Operators : operator'[p].todo = "nothing"
         /\ UNCHANGED <<env, query>>
         /\ operator[o].todo = todo /\ operator[o] \in OperatorType /\ Checked(operator[o])
<1>1. operator' = [operator EXCEPT ![o] = Nothing] /\ UNCHANGED <<env, query>>
        /\ operator[o].todo = todo
  BY DEF Writes
<1>2. \A p \in Operators : operator'[p] = Nothing
  BY <1>1 DEF OneOperator, Inv, TypeOK
<1>3. operator' \in [Operators -> OperatorType]
  BY <1>1, NothingIsTyped DEF Inv, TypeOK
<1>4. OperatorsOK'
  BY <1>2, NothingIsTyped DEF OperatorsOK, Checked
<1> QED
  BY <1>1, <1>2, <1>3, <1>4, NothingIsTyped DEF Inv, TypeOK, OperatorsOK

\* No write of an operator but the verdict touches an observation, and none a query.
LEMMA ObservationsStay ==
  ASSUME UNCHANGED observations
  PROVE  /\ \A o : Recorded(o)' = Recorded(o)
         /\ \A d : ObservationsOf(d)' = ObservationsOf(d) /\ Adverse(d)' = Adverse(d)
         /\ \A d, lane, diffs : Seen(d, lane, diffs)' = Seen(d, lane, diffs)
         /\ (UNCHANGED query => \A d : NoCanary(d)' = NoCanary(d))
<1>1. \A o : Recorded(o)' = Recorded(o)
  BY DEF Recorded
<1> QED
  BY <1>1 DEF ObservationsOf, Adverse, Seen, NoCanary

LEMMA QueriesStay ==
  ASSUME Inv, UNCHANGED query,
         \A d \in Deployments : Known(d) =>
            /\ Known(d)' /\ deployments'[d].pins = deployments[d].pins
            /\ deployments'[d].stable = deployments[d].stable
            /\ deployments'[d].candidate = deployments[d].candidate,
         audit \subseteq audit',
         \A o \in Deployments \X Tasks \X Lanes : Recorded(o) => Recorded(o)'
  PROVE  QueriesOK'
<1> SUFFICES ASSUME NEW r \in Queries PROVE QueryOK(r)'
  BY DEF QueriesOK
<1>1. QueryOK(r) /\ query[r] \in QueryType /\ query'[r] = query[r]
  BY QueryFacts
<1>2. query[r].pc \in {"advance", "settle"} =>
        <<query[r].deployment, query[r].task, query[r].lane>> \in Deployments \X Tasks \X Lanes
  BY <1>1 DEF QueryOK, QueryType, Running
<1>3. \A d \in Deployments : Known(d) /\ Approved(d) => Approved(d)'
  BY DEF Approved
<1> QED
  BY <1>1, <1>2, <1>3 DEF QueryOK, Running

LEMMA RejectShadowKeeps ==
  ASSUME OneOperator, Inv, NEW o \in Operators, RejectShadow(o) PROVE Inv'
<1> DEFINE d == operator[o].deployment
<1>1. Writes(o, "reject") /\ Settle(d, deployments[d], "rollback") /\ UNCHANGED <<active, observations>>
  BY DEF RejectShadow, RollBackDeployment
<1>2. /\ operator' \in [Operators -> OperatorType]
      /\ \A p \in Operators : operator'[p].todo = "nothing"
      /\ UNCHANGED <<env, query>>
      /\ operator[o].todo = "reject" /\ Checked(operator[o])
  BY <1>1, NobodyHoldsAnything
<1>3. d \in Deployments /\ Known(d)
  BY <1>2 DEF Checked
<1>4. \A e \in Deployments : NoCanary(e) => NoCanary(e)'
  BY <1>1, <1>2, ObservationsStay
<1>5. query' \in [Queries -> QueryType] /\ \A r \in Queries : query'[r] = query[r]
  BY <1>2 DEF Inv, TypeOK
<1>6. PICK x \in Deployments : x = d
  BY <1>3
<1> HIDE DEF d
<1>7. Settle(x, deployments[x], "rollback") /\ Known(x) /\ UNCHANGED <<env, active, observations>>
  BY <1>1, <1>2, <1>3, <1>6
<1> QED
  BY <1>2, <1>4, <1>5, <1>7, DecisionWithoutObservation

LEMMA RecordEvaluationKeeps ==
  ASSUME OneOperator, Inv, NEW o \in Operators, RecordEvaluation(o) PROVE Inv'
<1>1. Writes(o, "evaluate") /\ UNCHANGED <<active, deployments, observations, audit>>
  BY DEF RecordEvaluation
<1>2. /\ operator' \in [Operators -> OperatorType] /\ OperatorsOK'
      /\ UNCHANGED <<env, query>>
      /\ operator[o].todo = "evaluate" /\ operator[o] \in OperatorType /\ Checked(operator[o])
  BY <1>1, NobodyHoldsAnything
<1>3. PICK p \in Policies, v \in Environments :
        p = operator[o].policy /\ v = operator[o].env /\ policies[p].status \in Early
  BY <1>2 DEF OperatorType, Checked
<1>4. PICK s \in {"shadow_ready", "evaluated"}, passed \in SUBSET Environments :
        policies' = [policies EXCEPT ![p].status = s, ![p].passed = passed]
  BY <1>3 DEF RecordEvaluation
<1>5. /\ policies' \in [Policies -> PolicyType] /\ policies'[p].status = s
      /\ \A x \in Policies : x # p => policies'[x] = policies[x]
  <2>1. policies[p] \in PolicyType /\ policies \in [Policies -> PolicyType]
    BY DEF Inv, TypeOK
  <2>2. PICK row : row = [policies[p] EXCEPT !.status = s, !.passed = passed]
    OBVIOUS
  <2>3. row \in PolicyType /\ row.status = s
    BY <2>1, <2>2 DEF PolicyType
  <2>4. policies' = [policies EXCEPT ![p] = row]
    BY <1>4, <2>2
  <2> QED
    BY <2>1, <2>3, <2>4
<1>6. TypeOK'
  BY <1>1, <1>2, <1>5 DEF Inv, TypeOK
<1>7. \A d \in Deployments : Known(d) => Candidate(d) # p /\ Candidate(d) \in Policies
  BY <1>3 DEF Inv, RowsOK, RowOK, TypeOK, DeploymentType, Candidate
<1>8. /\ \A d : Known(d)' = Known(d) /\ Candidate(d)' = Candidate(d) /\ Approved(d)' = Approved(d)
      /\ Unfinished' = Unfinished /\ (\A x : Earned(x)' = Earned(x))
  BY <1>1 DEF Known, Candidate, Approved, Unfinished, Earned
<1>9. RowsOK'
  BY <1>1, <1>5, <1>7, <1>8, ObservationsStay DEF Inv, RowsOK, RowOK
<1>10. PolicyFollowsDeployment' /\ Exclusive' /\ PoliciesOK'
  <2>1. \A d \in Unfinished : d \in Deployments /\ Known(d)
    BY DEF Unfinished, Known, Open, Sampling
  <2>2. PolicyFollowsDeployment'
    BY <1>1, <1>5, <1>7, <1>8, <2>1 DEF Inv, PolicyFollowsDeployment, Candidate
  <2>3. Exclusive' /\ PoliciesOK'
    BY <1>1, <1>5, <1>8 DEF Inv, Exclusive, PoliciesOK
  <2> QED
    BY <2>2, <2>3
<1>11. DecidedInTime'
  BY <1>1, ObservationsStay DEF Inv, DecidedInTime, NoFailedCandidateStranded, SamplingEndsAtItsTarget
<1>12. CountsOK'
  BY <1>1, <1>8, CountsStay DEF Inv
<1>13. LanesOK'
  BY <1>1, <1>2, ObservationsStay DEF Inv, LanesOK
<1>14. QueriesOK'
  BY <1>1, <1>2, <1>8, ObservationsStay, QueriesStay
<1> QED
  BY <1>2, <1>6, <1>9, <1>10, <1>11, <1>12, <1>13, <1>14 DEF Inv

LEMMA ReviewObservationKeeps ==
  ASSUME OneOperator, Inv, NEW o \in Operators, ReviewObservation(o) PROVE Inv'
<1>1. Writes(o, "review") /\ UNCHANGED <<active, policies, deployments, audit>>
  BY DEF ReviewObservation
<1>2. /\ operator' \in [Operators -> OperatorType] /\ OperatorsOK'
      /\ UNCHANGED <<env, query>>
      /\ operator[o].todo = "review" /\ operator[o] \in OperatorType /\ Checked(operator[o])
  BY <1>1, NobodyHoldsAnything
<1>3. PICK d \in Deployments, t \in Tasks, verdict \in Verdicts :
        /\ d = operator[o].deployment /\ t = operator[o].task /\ verdict = operator[o].verdict
        /\ deployments[d].status \in {"shadow_review", "rolled_back"}
        /\ Recorded(<<d, t, "stable">>)
  BY <1>2 DEF OperatorType, Checked
<1> DEFINE k == <<d, t, "stable">>
<1>4. observations' = [observations EXCEPT ![k].review = "reviewed", ![k].verdict = verdict]
  BY <1>3 DEF ReviewObservation
<1>5. k \in Deployments \X Tasks \X Lanes
  BY DEF Lanes
<1>6. /\ observations' \in [Deployments \X Tasks \X Lanes -> ObservationType]
      /\ \A x \in Deployments \X Tasks \X Lanes : x # k => observations'[x] = observations[x]
      /\ observations'[k].review = "reviewed" /\ observations'[k].diff = observations[k].diff
  BY <1>4, <1>5 DEF Inv, TypeOK, ObservationType
<1>7. TypeOK'
  BY <1>1, <1>2, <1>6 DEF Inv, TypeOK
<1>8. \A x \in Deployments \X Tasks \X Lanes :
        Recorded(x)' = Recorded(x) /\ observations'[x].diff = observations[x].diff
  BY <1>3, <1>5, <1>6 DEF Recorded
<1>9. \A e : ObservationsOf(e)' = ObservationsOf(e)
  BY <1>6, <1>8 DEF ObservationsOf, Inv, TypeOK
<1>10. \A e, lane, diffs : Seen(e, lane, diffs)' = Seen(e, lane, diffs)
  BY <1>8 DEF Seen
<1>11. \A e \in Deployments : e # d => Adverse(e)' = Adverse(e)
  <2>1. \A e, x : x \in ObservationsOf(e) => x \in Deployments \X Tasks \X Lanes /\ x[1] = e
    BY DEF ObservationsOf, Inv, TypeOK
  <2>2. ASSUME NEW e \in Deployments, e # d PROVE Adverse(e)' = Adverse(e)
    <3>1. \A x \in ObservationsOf(e) : observations'[x] = observations[x]
      BY <1>6, <2>1, <2>2
    <3> QED
      BY <1>9, <3>1 DEF Adverse
  <2> QED
    BY <2>2
<1>12. /\ \A e : Known(e)' = Known(e) /\ Candidate(e)' = Candidate(e) /\ Approved(e)' = Approved(e)
       /\ Unfinished' = Unfinished /\ (\A p : Earned(p)' = Earned(p))
  BY <1>1 DEF Known, Candidate, Approved, Unfinished, Earned
<1>13. RowsOK'
  BY <1>1, <1>3, <1>11, <1>12 DEF Inv, RowsOK, RowOK, Cleared
<1>14. PolicyFollowsDeployment' /\ Exclusive' /\ PoliciesOK'
  BY <1>1, <1>12 DEF Inv, PolicyFollowsDeployment, Exclusive, PoliciesOK
<1>15. DecidedInTime'
  <2>1. \A e, x : x \in ObservationsOf(e) => x \in Deployments \X Tasks \X Lanes
    BY DEF ObservationsOf, Inv, TypeOK
  <2> QED
    BY <1>1, <1>8, <1>9, <2>1 DEF Inv, DecidedInTime, NoFailedCandidateStranded, SamplingEndsAtItsTarget
<1>16. CountsOK'
  <2>1. \A e \in Deployments, s \in Tasks, lane \in Lanes :
           Recorded(<<e, s, lane>>)' = Recorded(<<e, s, lane>>)
    BY <1>8
  <2> QED
    BY <1>1, <1>10, <1>12, <2>1 DEF Inv, CountsOK, CountOK
<1>17. LanesOK'
  <2>1. \A e \in Deployments : NoCanary(e) => NoCanary(e)'
    BY <1>2, <1>8 DEF NoCanary, Lanes
  <2> QED
    BY <1>1, <2>1 DEF Inv, LanesOK
<1>18. QueriesOK'
  BY <1>1, <1>2, <1>8, <1>12, QueriesStay
<1> QED
  BY <1>2, <1>7, <1>13, <1>14, <1>15, <1>16, <1>17, <1>18 DEF Inv

LEMMA ConfigureShadowKeeps ==
  ASSUME OneOperator, Inv, NEW o \in Operators, NEW d \in Deployments, ConfigureShadow(o, d)
  PROVE  Inv'
<1>1. Writes(o, "configure") /\ deployments[d].status = "absent" /\ UNCHANGED <<active, observations>>
  BY DEF ConfigureShadow
<1>2. /\ operator' \in [Operators -> OperatorType] /\ OperatorsOK'
      /\ UNCHANGED <<env, query>>
      /\ operator[o].todo = "configure" /\ operator[o] \in OperatorType /\ Checked(operator[o])
  BY <1>1, NobodyHoldsAnything
<1>3. PICK p \in Policies, v \in Environments, previous \in Policies :
        /\ p = operator[o].policy /\ v = operator[o].env /\ previous = operator[o].previous
        /\ policies[p].status = "shadow_ready" /\ v \in policies[p].passed
  BY <1>2 DEF OperatorType, Checked
<1> DEFINE superseded == {deployments[e].candidate : e \in Unfinished}
<1>4. PICK new : new = [status |-> "shadow_running", stable |-> previous, candidate |-> p, pins |-> v,
                        samples |-> 0, failures |-> 0, disagreements |-> 0,
                        canarySamples |-> 0, canaryFailures |-> 0]
  OBVIOUS
<1>5. new \in DeploymentType /\ new.status = "shadow_running" /\ new.candidate = p
        /\ new.pins = v /\ new.stable = previous
        /\ new.samples = 0 /\ new.failures = 0 /\ new.disagreements = 0
        /\ new.canarySamples = 0 /\ new.canaryFailures = 0
  BY <1>4 DEF DeploymentType, Open, Sampling
<1>6. deployments' = [e \in Deployments |->
              IF e = d THEN new
              ELSE IF e \in Unfinished THEN [deployments[e] EXCEPT !.status = "superseded"]
              ELSE deployments[e]]
  BY <1>3, <1>4 DEF ConfigureShadow
<1>7. policies' = [x \in Policies |->
              IF x = p THEN [policies[x] EXCEPT !.status = "shadow_running"]
              ELSE IF x \in superseded THEN [policies[x] EXCEPT !.status = "shadow_superseded"]
              ELSE policies[x]]
  BY <1>3, <1>4, <1>5 DEF ConfigureShadow
<1>8. audit' = audit \cup {<<"shadow_configure", previous, p>>}
  BY <1>3, <1>4, <1>5 DEF ConfigureShadow, Log
<1>9. /\ deployments' \in [Deployments -> DeploymentType] /\ deployments'[d] = new
      /\ \A e \in Deployments : e # d =>
           /\ deployments'[e].status = IF e \in Unfinished THEN "superseded" ELSE deployments[e].status
           /\ deployments'[e].stable = deployments[e].stable
           /\ deployments'[e].candidate = deployments[e].candidate
           /\ deployments'[e].pins = deployments[e].pins
           /\ deployments'[e].samples = deployments[e].samples
           /\ deployments'[e].failures = deployments[e].failures
           /\ deployments'[e].disagreements = deployments[e].disagreements
           /\ deployments'[e].canarySamples = deployments[e].canarySamples
           /\ deployments'[e].canaryFailures = deployments[e].canaryFailures
  <2>1. ASSUME NEW e \in Deployments, e # d
        PROVE  /\ deployments'[e] \in DeploymentType
               /\ deployments'[e].status = IF e \in Unfinished THEN "superseded" ELSE deployments[e].status
               /\ deployments'[e].stable = deployments[e].stable
               /\ deployments'[e].candidate = deployments[e].candidate
               /\ deployments'[e].pins = deployments[e].pins
               /\ deployments'[e].samples = deployments[e].samples
               /\ deployments'[e].failures = deployments[e].failures
               /\ deployments'[e].disagreements = deployments[e].disagreements
               /\ deployments'[e].canarySamples = deployments[e].canarySamples
               /\ deployments'[e].canaryFailures = deployments[e].canaryFailures
    <3>1. deployments[e] \in DeploymentType
      BY DEF Inv, TypeOK
    <3>2. deployments'[e] = IF e \in Unfinished THEN [deployments[e] EXCEPT !.status = "superseded"]
                            ELSE deployments[e]
      BY <1>6, <2>1
    <3> QED
      BY <3>1, <3>2 DEF DeploymentType, Closed
  <2>2. deployments'[d] = new
    BY <1>6
  <2>3. \A e \in Deployments : deployments'[e] \in DeploymentType
    BY <1>5, <2>1, <2>2
  <2>4. deployments' \in [Deployments -> DeploymentType]
    BY <1>6, <2>3
  <2> QED
    BY <2>1, <2>2, <2>4
<1>10. /\ policies' \in [Policies -> PolicyType] /\ policies'[p].status = "shadow_running"
       /\ \A x \in Policies : /\ policies'[x].parent = policies[x].parent
                              /\ policies'[x].passed = policies[x].passed
       /\ \A x \in Policies : x # p => policies'[x].status \in {policies[x].status, "shadow_superseded"}
  <2>1. ASSUME NEW x \in Policies
        PROVE  /\ policies'[x] \in PolicyType
               /\ policies'[x].parent = policies[x].parent /\ policies'[x].passed = policies[x].passed
               /\ x = p => policies'[x].status = "shadow_running"
               /\ x # p => policies'[x].status \in {policies[x].status, "shadow_superseded"}
    <3>1. policies[x] \in PolicyType
      BY DEF Inv, TypeOK
    <3>2. \/ x = p /\ policies'[x] = [policies[x] EXCEPT !.status = "shadow_running"]
          \/ x # p /\ policies'[x] = [policies[x] EXCEPT !.status = "shadow_superseded"]
          \/ x # p /\ policies'[x] = policies[x]
      BY <1>7
    <3> QED
      BY <3>1, <3>2 DEF PolicyType
  <2>2. policies' \in [Policies -> PolicyType]
    BY <1>7, <2>1
  <2> QED
    BY <2>1, <2>2
<1>11. TypeOK'
  BY <1>1, <1>2, <1>8, <1>9, <1>10 DEF Inv, TypeOK
<1>12. \A e \in Deployments : Known(e) => e # d /\ RowOK(e) /\ Candidate(e) \in Policies /\ Candidate(e) # p
  <2>1. \A e \in Deployments : Known(e) => e # d /\ RowOK(e)
    BY <1>1 DEF Known, Inv, RowsOK
  <2>2. policies[p].status \in Early
    BY <1>3 DEF Early
  <2> QED
    BY <2>1, <2>2 DEF RowOK, Candidate, Inv, TypeOK, DeploymentType
<1>13. /\ \A e \in Deployments : e # d => Known(e)' = Known(e) /\ Candidate(e)' = Candidate(e)
       /\ Known(d)' /\ Candidate(d)' = p
       /\ Unfinished' = {d}
       /\ \A e \in Deployments : e # d /\ Approved(e) => Approved(e)'
       /\ \A x : Earned(x) => Earned(x)'
  <2>1. \A e \in Deployments : e # d => Known(e)' = Known(e) /\ Candidate(e)' = Candidate(e)
    BY <1>9 DEF Known, Candidate, Unfinished, Open, Sampling
  <2>2. Known(d)' /\ Candidate(d)' = p
    BY <1>5, <1>9 DEF Known, Candidate
  <2>3. \A e \in Deployments : e \in Unfinished' <=> e = d
    BY <1>5, <1>9 DEF Unfinished, Open, Sampling
  <2>4. Unfinished' = {d}
    BY <2>3 DEF Unfinished
  <2>5. \A e \in Deployments : e # d /\ Approved(e) => Approved(e)'
    BY <1>8, <1>9 DEF Approved
  <2>6. \A x : Earned(x) => Earned(x)'
    BY <1>8 DEF Earned
  <2> QED
    BY <2>1, <2>2, <2>4, <2>5, <2>6
<1>14. RowsOK'
  <2> SUFFICES ASSUME NEW e \in Deployments, Known(e)' PROVE RowOK(e)'
    BY DEF RowsOK
  <2>1. CASE e = d
    BY <1>3, <1>5, <1>9, <1>10, <1>13, <2>1 DEF RowOK, Early, Cleared
  <2>2. CASE e # d
    <3>1. RowOK(e) /\ Candidate(e) \in Policies /\ Candidate(e) # p /\ Candidate(e)' = Candidate(e)
      BY <1>12, <1>13, <2>2
    <3>2. Adverse(e)' = Adverse(e)
      BY <1>1, ObservationsStay
    <3> QED
      BY <1>9, <1>10, <1>13, <2>2, <3>1, <3>2 DEF RowOK, Early, Cleared
  <2> QED
    BY <2>1, <2>2
<1>15. PolicyFollowsDeployment'
  BY <1>5, <1>9, <1>10, <1>13 DEF PolicyFollowsDeployment
<1>16. Exclusive'
  BY <1>12, <1>13 DEF Inv, Exclusive
<1>17. PoliciesOK'
  BY <1>1, <1>10, <1>13 DEF Inv, PoliciesOK
<1>18. \A t \in Tasks, lane \in Lanes : ~Recorded(<<d, t, lane>>)
  BY <1>1 DEF Inv, CountsOK, CountOK, Known
<1>19. \A lane \in Lanes : \A diffs : Seen(d, lane, diffs) = {}
  BY <1>18 DEF Seen
<1>20. DecidedInTime'
  <2>1. \A x : x \notin ObservationsOf(d)
    BY <1>18 DEF ObservationsOf, Inv, TypeOK
  <2>2. MinShadow \in Nat \ {0}
    BY ReleaseAssumption
  <2>3. SamplingEndsAtItsTarget'
    BY <1>5, <1>9, <2>2 DEF Inv, DecidedInTime, SamplingEndsAtItsTarget
  <2>4. NoFailedCandidateStranded'
    BY <1>1, <1>9, <2>1, ObservationsStay DEF Inv, DecidedInTime, NoFailedCandidateStranded
  <2> QED
    BY <2>3, <2>4 DEF DecidedInTime
<1>21. CountsOK'
  <2> SUFFICES ASSUME NEW e \in Deployments PROVE CountOK(e)'
    BY DEF CountsOK
  <2>1. CountOK(e)
    BY DEF Inv, CountsOK
  <2>2. CASE e = d
    <3>1. Lanes = {"stable", "canary"}
      BY DEF Lanes
    <3>2. IsFiniteSet({}) /\ Cardinality({}) = 0
      BY FS_EmptySet
    <3>3. \A lane \in Lanes : /\ Seen(d, lane, Diffs)' = {} /\ Seen(d, lane, Failures)' = {}
                              /\ Seen(d, lane, Disagreements)' = {}
      BY <1>1, <1>19, ObservationsStay
    <3>4. \A lane \in Lanes : /\ IsFiniteSet(Seen(d, lane, Diffs)')
                              /\ Cardinality(Seen(d, lane, Diffs)') = 0
                              /\ Cardinality(Seen(d, lane, Failures)') = 0
                              /\ Cardinality(Seen(d, lane, Disagreements)') = 0
      BY <3>2, <3>3
    <3> QED
      BY <1>5, <1>9, <1>13, <2>2, <3>1, <3>4 DEF CountOK
  <2>3. CASE e # d
    BY <1>1, <1>9, <1>13, <2>1, <2>3, ObservationsStay DEF CountOK
  <2> QED
    BY <2>2, <2>3
<1>22. LanesOK'
  <2>1. \A e \in Deployments : NoCanary(e)' = NoCanary(e)
    BY <1>1, <1>2, ObservationsStay
  <2>2. NoCanary(d)
    BY <1>1, <1>18 DEF NoCanary, Lanes, Inv, QueriesOK, QueryOK, Known
  <2> QED
    BY <1>9, <2>1, <2>2 DEF Inv, LanesOK
<1>23. QueriesOK'
  <2>1. \A e \in Deployments : Known(e) =>
            /\ Known(e)' /\ deployments'[e].pins = deployments[e].pins
            /\ deployments'[e].stable = deployments[e].stable
            /\ deployments'[e].candidate = deployments[e].candidate
    BY <1>9, <1>12, <1>13
  <2> QED
    BY <1>1, <1>2, <1>8, <2>1, ObservationsStay, QueriesStay
<1> QED
  BY <1>2, <1>11, <1>14, <1>15, <1>16, <1>17, <1>20, <1>21, <1>22, <1>23 DEF Inv

\* An operator moves one deployment and its candidate, and nobody else.
LEMMA ReleaseMoves ==
  ASSUME OneOperator, Inv, NEW o \in Operators, NEW todo, Writes(o, todo),
         NEW d \in Deployments, NEW was \in {"shadow_review", "shadow_passed"}, Held(d, was),
         NEW status \in {"shadow_passed", "canary_running"},
         NEW new \in {"canary_ready", "canary_running"},
         new = "canary_ready" <=> status = "shadow_passed",
         NEW row \in DeploymentType, deployments' = [deployments EXCEPT ![d] = row],
         row.status = status, row.stable = deployments[d].stable,
         row.candidate = deployments[d].candidate, row.pins = deployments[d].pins,
         row.samples = deployments[d].samples, row.failures = deployments[d].failures,
         row.disagreements = deployments[d].disagreements,
         row.canarySamples = 0, row.canaryFailures = 0,
         policies' = [policies EXCEPT ![deployments[d].candidate].status = new],
         NEW entry \in {"shadow_approve", "canary_start"},
         audit' = audit \cup {<<entry, deployments[d].stable, deployments[d].candidate>>},
         <<"shadow_approve", deployments[d].stable, deployments[d].candidate>> \in audit',
         UNCHANGED <<active, observations>>
  PROVE  Inv'
<1>1. /\ operator' \in [Operators -> OperatorType] /\ OperatorsOK'
      /\ UNCHANGED <<env, query>>
  BY NobodyHoldsAnything
<1>2. deployments[d] \in DeploymentType
  BY DEF Inv, TypeOK
<1>3. PICK p \in Policies : p = deployments[d].candidate
  BY <1>2 DEF DeploymentType
<1>4. deployments[d].stable \in Policies
  BY <1>2 DEF DeploymentType
<1>5. /\ deployments' \in [Deployments -> DeploymentType] /\ deployments'[d] = row
      /\ \A e \in Deployments : e # d => deployments'[e] = deployments[e]
  BY DEF Inv, TypeOK
<1>6. /\ policies' \in [Policies -> PolicyType] /\ policies'[p].status = new
      /\ \A x \in Policies : /\ policies'[x].parent = policies[x].parent
                             /\ policies'[x].passed = policies[x].passed
                             /\ x # p => policies'[x].status = policies[x].status
  <2>1. policies \in [Policies -> PolicyType]
    BY DEF Inv, TypeOK
  <2> QED
    BY <1>3, <2>1 DEF PolicyType
<1>7. TypeOK'
  BY <1>1, <1>3, <1>4, <1>5, <1>6 DEF Inv, TypeOK
<1>8. Known(d) /\ RowOK(d)
  BY DEF Held, Known, Inv, RowsOK
<1>9. \A e \in Deployments : Known(e) /\ e # d => Candidate(e) # p /\ Candidate(e) \in Policies
  BY <1>3, <1>8 DEF Inv, Exclusive, Candidate, TypeOK, DeploymentType
<1>10. /\ \A e \in Deployments : Known(e)' = Known(e) /\ Candidate(e)' = Candidate(e)
       /\ \A e \in Deployments : Approved(e) => Approved(e)'
       /\ Approved(d)'
       /\ Unfinished' = {d}
       /\ \A x : Earned(x) => Earned(x)'
  <2>1. \A e \in Deployments : Known(e)' = Known(e) /\ Candidate(e)' = Candidate(e)
    BY <1>5, <1>8 DEF Known, Candidate
  <2>2. Approved(d)' /\ \A e \in Deployments : Approved(e) => Approved(e)'
    BY <1>5 DEF Approved
  <2>3. \A e \in Deployments : e # d => e \notin Unfinished
    BY DEF Held
  <2>4. \A e \in Deployments : e \in Unfinished' <=> e = d
    BY <1>5, <2>3 DEF Unfinished, Open, Sampling
  <2>5. Unfinished' = {d}
    BY <2>4 DEF Unfinished
  <2>6. \A x : Earned(x) => Earned(x)'
    BY DEF Earned
  <2> QED
    BY <2>1, <2>2, <2>5, <2>6
<1>11. RowsOK'
  <2> SUFFICES ASSUME NEW e \in Deployments, Known(e)' PROVE RowOK(e)'
    BY DEF RowsOK
  <2>1. RowOK(e) /\ Adverse(e)' = Adverse(e) /\ Candidate(e)' = Candidate(e)
    BY <1>10, ObservationsStay DEF Inv, RowsOK
  <2>2. CASE e = d
    <3>1. Candidate(d)' = p /\ Candidate(d) = p
      BY <1>3, <2>1, <2>2 DEF Candidate
    <3>2. (policies[Candidate(d)].status \notin Early)' /\ (deployments[d].pins \in policies[Candidate(d)].passed)'
      BY <1>5, <1>6, <1>8, <3>1 DEF RowOK, Early
    <3>3. deployments'[d].samples >= MinShadow /\ deployments'[d].status # "canary_passed"
            /\ Approved(d)' /\ Adverse(d)' = {}
      BY <1>5, <1>10, <2>1, <2>2 DEF Held
    <3> QED
      BY <2>2, <3>2, <3>3 DEF RowOK
  <2>3. CASE e # d
    <3>1. Known(e) /\ Candidate(e) # p /\ Candidate(e) \in Policies
      BY <1>9, <1>10, <2>3
    <3> QED
      BY <1>5, <1>6, <1>10, <2>1, <2>3, <3>1 DEF RowOK
  <2> QED
    BY <2>2, <2>3
<1>12. PolicyFollowsDeployment'
  BY <1>3, <1>5, <1>6, <1>10 DEF PolicyFollowsDeployment
<1>13. Exclusive'
  BY <1>10 DEF Inv, Exclusive
<1>14. PoliciesOK'
  <2>1. \A x \in Policies : policies'[x].status \in {"approved", "retired"} =>
            policies'[x].status = policies[x].status
    BY <1>6
  <2> QED
    BY <1>10, <2>1 DEF Inv, PoliciesOK
<1>15. NoCanary(d) /\ NoCanary(d)' /\ \A e : NoCanary(e)' = NoCanary(e)
  BY <1>1, ObservationsStay DEF Held
<1>16. DecidedInTime'
  <2>1. MinCanary > 0
    BY ReleaseAssumption
  <2>2. SamplingEndsAtItsTarget'
    BY <1>5, <2>1 DEF Inv, DecidedInTime, SamplingEndsAtItsTarget
  <2>3. NoFailedCandidateStranded'
    BY <1>5, ObservationsStay DEF Inv, DecidedInTime, NoFailedCandidateStranded
  <2> QED
    BY <2>2, <2>3 DEF DecidedInTime
<1>17. CountsOK'
  <2> SUFFICES ASSUME NEW e \in Deployments PROVE CountOK(e)'
    BY DEF CountsOK
  <2>1. CountOK(e) /\ Known(e)' = Known(e)
    BY <1>10 DEF Inv, CountsOK
  <2>2. CASE e # d
    BY <1>5, <2>1, <2>2, ObservationsStay DEF CountOK
  <2>3. CASE e = d
    <3>1. \A diffs : Seen(d, "canary", diffs) = {}
      BY <1>15 DEF NoCanary, Seen
    <3>2. Cardinality(Seen(d, "canary", Diffs)) = 0 /\ Cardinality(Seen(d, "canary", Failures)) = 0
      BY <3>1, FS_EmptySet
    <3> QED
      BY <1>5, <2>1, <2>3, <3>2, ObservationsStay DEF CountOK
  <2> QED
    BY <2>2, <2>3
<1>18. LanesOK'
  BY <1>5, <1>15 DEF Inv, LanesOK
<1>19. QueriesOK'
  <2>1. \A e \in Deployments : /\ deployments'[e].pins = deployments[e].pins
                               /\ deployments'[e].stable = deployments[e].stable
                               /\ deployments'[e].candidate = deployments[e].candidate
    BY <1>5
  <2> QED
    BY <1>1, <1>10, <2>1, ObservationsStay, QueriesStay
<1> QED
  BY <1>1, <1>7, <1>11, <1>12, <1>13, <1>14, <1>16, <1>17, <1>18, <1>19 DEF Inv

\* Before the canary lane its counters are zero.
LEMMA CanaryCountersAreZero ==
  ASSUME Inv, NEW d \in Deployments, NoCanary(d)
  PROVE  deployments[d].canarySamples = 0 /\ deployments[d].canaryFailures = 0
<1>1. \A diffs : Seen(d, "canary", diffs) = {}
  BY DEF NoCanary, Seen
<1> QED
  BY <1>1, FS_EmptySet DEF Inv, CountsOK, CountOK

LEMMA ApproveShadowKeeps ==
  ASSUME OneOperator, Inv, NEW o \in Operators, ApproveShadow(o) PROVE Inv'
<1>1. Writes(o, "approve") /\ UNCHANGED <<active, observations>>
  BY DEF ApproveShadow
<1>2. Checked(operator[o]) /\ operator[o].todo = "approve"
  BY <1>1, NobodyHoldsAnything
<1>3. PICK d \in Deployments : d = operator[o].deployment /\ Held(d, "shadow_review")
  BY <1>2 DEF Checked, Held
<1>4. PICK row : row = [deployments[d] EXCEPT !.status = "shadow_passed"]
  OBVIOUS
<1>5. deployments' = [deployments EXCEPT ![d] = row]
        /\ policies' = [policies EXCEPT ![deployments[d].candidate].status = "canary_ready"]
        /\ audit' = audit \cup {<<"shadow_approve", deployments[d].stable, deployments[d].candidate>>}
  BY <1>3, <1>4 DEF ApproveShadow, SetStatus, Log
<1>6. deployments[d] \in DeploymentType
  BY DEF Inv, TypeOK
<1>7. deployments[d].canarySamples = 0 /\ deployments[d].canaryFailures = 0
  BY <1>3, CanaryCountersAreZero DEF Held
<1>8. /\ row \in DeploymentType /\ row.status = "shadow_passed" /\ row.stable = deployments[d].stable
      /\ row.candidate = deployments[d].candidate /\ row.pins = deployments[d].pins
      /\ row.samples = deployments[d].samples /\ row.failures = deployments[d].failures
      /\ row.disagreements = deployments[d].disagreements
      /\ row.canarySamples = 0 /\ row.canaryFailures = 0
  BY <1>4, <1>6, <1>7 DEF DeploymentType, Open
<1>9. <<"shadow_approve", deployments[d].stable, deployments[d].candidate>> \in audit'
  BY <1>5
<1>10. PICK status, was, new, entry :
         status = "shadow_passed" /\ was = "shadow_review" /\ new = "canary_ready" /\ entry = "shadow_approve"
  OBVIOUS
<1>11. /\ Held(d, was) /\ row.status = status
       /\ policies' = [policies EXCEPT ![deployments[d].candidate].status = new]
       /\ audit' = audit \cup {<<entry, deployments[d].stable, deployments[d].candidate>>}
  BY <1>3, <1>5, <1>8, <1>10
<1> QED
  BY <1>1, <1>5, <1>8, <1>9, <1>10, <1>11, ReleaseMoves

LEMMA StartCanaryKeeps ==
  ASSUME OneOperator, Inv, NEW o \in Operators, StartCanary(o) PROVE Inv'
<1>1. Writes(o, "canary") /\ UNCHANGED <<active, observations>>
  BY DEF StartCanary
<1>2. Checked(operator[o]) /\ operator[o].todo = "canary"
  BY <1>1, NobodyHoldsAnything
<1>3. PICK d \in Deployments : d = operator[o].deployment /\ Held(d, "shadow_passed") /\ Approved(d)
  BY <1>2 DEF Checked, Held
<1>4. PICK row : row = [deployments[d] EXCEPT !.status = "canary_running", !.canarySamples = 0,
                                              !.canaryFailures = 0]
  OBVIOUS
<1>5. deployments' = [deployments EXCEPT ![d] = row]
        /\ policies' = [policies EXCEPT ![deployments[d].candidate].status = "canary_running"]
        /\ audit' = audit \cup {<<"canary_start", deployments[d].stable, deployments[d].candidate>>}
  BY <1>3, <1>4 DEF StartCanary, SetStatus, Log
<1>6. deployments[d] \in DeploymentType
  BY DEF Inv, TypeOK
<1>7. /\ row \in DeploymentType /\ row.status = "canary_running" /\ row.stable = deployments[d].stable
      /\ row.candidate = deployments[d].candidate /\ row.pins = deployments[d].pins
      /\ row.samples = deployments[d].samples /\ row.failures = deployments[d].failures
      /\ row.disagreements = deployments[d].disagreements
      /\ row.canarySamples = 0 /\ row.canaryFailures = 0
  BY <1>4, <1>6 DEF DeploymentType, Open, Sampling
<1>8. <<"shadow_approve", deployments[d].stable, deployments[d].candidate>> \in audit'
  BY <1>3, <1>5 DEF Approved
<1>10. PICK status, was, new, entry :
         status = "canary_running" /\ was = "shadow_passed" /\ new = "canary_running" /\ entry = "canary_start"
  OBVIOUS
<1>11. /\ Held(d, was) /\ row.status = status
       /\ policies' = [policies EXCEPT ![deployments[d].candidate].status = new]
       /\ audit' = audit \cup {<<entry, deployments[d].stable, deployments[d].candidate>>}
  BY <1>3, <1>5, <1>7, <1>10
<1> QED
  BY <1>1, <1>5, <1>7, <1>8, <1>10, <1>11, ReleaseMoves

\* The active policy changes; what was released with it is closed.
LEMMA PolicySwitches ==
  ASSUME OneOperator, Inv, NEW o \in Operators, NEW todo, Writes(o, todo),
         NEW p \in Policies, active' = p, Earned(p)',
         policies' \in [Policies -> PolicyType],
         \A x \in Policies : /\ policies'[x].parent = policies[x].parent
                             /\ policies'[x].passed = policies[x].passed,
         policies'[p].status = "approved",
         \A x \in Policies : x # p =>
            \/ policies'[x].status = policies[x].status
            \/ x = active /\ policies'[x].status = "retired",
         active # p => policies'[active].status # "approved",
         deployments' \in [Deployments -> DeploymentType],
         \A e \in Deployments :
            /\ deployments'[e].stable = deployments[e].stable
            /\ deployments'[e].candidate = deployments[e].candidate
            /\ deployments'[e].pins = deployments[e].pins
            /\ deployments'[e].samples = deployments[e].samples
            /\ deployments'[e].failures = deployments[e].failures
            /\ deployments'[e].disagreements = deployments[e].disagreements
            /\ deployments'[e].canarySamples = deployments[e].canarySamples
            /\ deployments'[e].canaryFailures = deployments[e].canaryFailures
            /\ \/ deployments'[e].status = deployments[e].status
               \/ deployments[e].status = "canary_passed" /\ deployments'[e].status = "stable"
               \/ Known(e) /\ deployments'[e].status = "rolled_back",
         \A e \in Deployments : deployments'[e].status \in Open =>
            /\ Candidate(e) # p
            /\ policies'[Candidate(e)].status = policies[Candidate(e)].status,
         audit \subseteq audit',
         audit' \subseteq {"shadow_configure", "shadow_approve", "canary_start", "approve",
                           "automatic_offline_gate_approve", "automatic_release_rollback",
                           "rollback"} \X Policies \X Policies,
         UNCHANGED observations
  PROVE  Inv'
<1>1. /\ operator' \in [Operators -> OperatorType] /\ OperatorsOK'
      /\ UNCHANGED <<env, query>>
  BY NobodyHoldsAnything
<1>2. TypeOK'
  BY <1>1 DEF Inv, TypeOK
<1>3. /\ \A e \in Deployments : Known(e)' = Known(e) /\ Candidate(e)' = Candidate(e)
      /\ \A e \in Deployments : Approved(e) => Approved(e)'
      /\ \A x : Earned(x) => Earned(x)'
      /\ Unfinished' \subseteq Unfinished
  <2>1. \A e \in Deployments : Known(e)' = Known(e) /\ Candidate(e)' = Candidate(e)
    BY DEF Known, Candidate
  <2>2. \A e \in Deployments : Approved(e) => Approved(e)'
    BY DEF Approved
  <2>3. \A x : Earned(x) => Earned(x)'
    BY DEF Earned
  <2>4. Unfinished' \subseteq Unfinished
    BY DEF Unfinished, Open, Sampling
  <2> QED
    BY <2>1, <2>2, <2>3, <2>4
<1>4. RowsOK'
  <2> SUFFICES ASSUME NEW e \in Deployments, Known(e)' PROVE RowOK(e)'
    BY DEF RowsOK
  <2>1. RowOK(e) /\ Candidate(e) \in Policies /\ Candidate(e)' = Candidate(e)
          /\ Adverse(e)' = Adverse(e)
    BY <1>3, ObservationsStay DEF Inv, RowsOK, TypeOK, DeploymentType, Candidate
  <2>2. policies'[Candidate(e)].status \notin Early
          /\ deployments'[e].pins \in policies'[Candidate(e)].passed
    BY <2>1 DEF RowOK, Early
  <2>3. deployments'[e].status \in {"shadow_review", "shadow_passed", "canary_running", "canary_passed"}
          => deployments'[e].samples >= MinShadow
    BY <2>1 DEF RowOK
  <2>4. /\ deployments'[e].status = "canary_passed" => deployments'[e].canarySamples >= MinCanary
        /\ deployments'[e].status \in {"shadow_passed", "canary_running"} => Approved(e)'
    BY <1>3, <2>1 DEF RowOK
  <2>5. deployments'[e].status \in Cleared => Adverse(e)' = {}
    BY <2>1 DEF RowOK, Cleared
  <2> QED
    BY <2>1, <2>2, <2>3, <2>4, <2>5 DEF RowOK
<1>5. PolicyFollowsDeployment'
  <2> SUFFICES ASSUME NEW e \in Unfinished'
               PROVE  (policies[deployments[e].candidate].status =
                         IF deployments[e].status = "shadow_passed" THEN "canary_ready"
                         ELSE deployments[e].status)'
    BY DEF PolicyFollowsDeployment
  <2>1. e \in Deployments /\ deployments'[e].status \in Open /\ e \in Unfinished
    BY <1>3 DEF Unfinished
  <2>2. deployments'[e].status = deployments[e].status
    BY <2>1 DEF Open, Sampling
  <2>3. policies'[Candidate(e)].status = policies[Candidate(e)].status
    BY <2>1
  <2> QED
    BY <2>1, <2>2, <2>3 DEF Inv, PolicyFollowsDeployment, Candidate
<1>6. Exclusive'
  BY <1>3 DEF Inv, Exclusive
<1>7. PoliciesOK'
  <2>1. \A x \in Policies : policies'[x].status = "approved" => x = p
    BY DEF Inv, PoliciesOK
  <2>2. \A x \in Policies : policies'[x].status \in {"approved", "retired"} => Earned(x)'
    BY <1>3, <2>1 DEF Inv, PoliciesOK
  <2> QED
    BY <2>1, <2>2 DEF PoliciesOK
<1>8. DecidedInTime'
  BY ObservationsStay DEF Inv, DecidedInTime, NoFailedCandidateStranded, SamplingEndsAtItsTarget
<1>9. CountsOK'
  BY <1>3, CountsStay DEF Inv
<1>10. LanesOK'
  BY <1>1, ObservationsStay DEF Inv, LanesOK
<1>11. QueriesOK'
  BY <1>1, <1>3, ObservationsStay, QueriesStay
<1> QED
  BY <1>1, <1>2, <1>4, <1>5, <1>6, <1>7, <1>8, <1>9, <1>10, <1>11 DEF Inv

\* The statuses after a switch of the active policy.
LEMMA SwitchedPolicies ==
  ASSUME Inv, NEW p \in Policies, Switch(active, p)
  PROVE  /\ active' = p /\ policies' \in [Policies -> PolicyType]
         /\ \A x \in Policies : /\ policies'[x].parent = policies[x].parent
                                /\ policies'[x].passed = policies[x].passed
         /\ policies'[p].status = "approved"
         /\ \A x \in Policies : x # p =>
               \/ policies'[x].status = policies[x].status
               \/ /\ x = active /\ policies[x].status = "approved"
                  /\ policies'[x].status = "retired"
         /\ active # p => policies'[active].status # "approved"
<1>1. active' = p /\ policies' = [x \in Policies |->
          IF x = p THEN [policies[x] EXCEPT !.status = "approved"]
          ELSE IF x = active /\ policies[x].status = "approved"
          THEN [policies[x] EXCEPT !.status = "retired"] ELSE policies[x]]
  BY DEF Switch
<1>2. active \in Policies
  BY DEF Inv, TypeOK
<1>3. ASSUME NEW x \in Policies
      PROVE  /\ policies'[x] \in PolicyType
             /\ policies'[x].parent = policies[x].parent /\ policies'[x].passed = policies[x].passed
             /\ x = p => policies'[x].status = "approved"
             /\ x # p => \/ policies'[x].status = policies[x].status /\ ~(x = active /\ policies[x].status = "approved")
                         \/ /\ x = active /\ policies[x].status = "approved"
                            /\ policies'[x].status = "retired"
  <2>1. policies[x] \in PolicyType
    BY DEF Inv, TypeOK
  <2>2. \/ x = p /\ policies'[x] = [policies[x] EXCEPT !.status = "approved"]
        \/ /\ x # p /\ x = active /\ policies[x].status = "approved"
           /\ policies'[x] = [policies[x] EXCEPT !.status = "retired"]
        \/ x # p /\ ~(x = active /\ policies[x].status = "approved") /\ policies'[x] = policies[x]
    BY <1>1
  <2> QED
    BY <2>1, <2>2 DEF PolicyType
<1>4. policies' \in [Policies -> PolicyType]
  BY <1>1, <1>3
<1> QED
  BY <1>1, <1>2, <1>3, <1>4

LEMMA ActivatePolicyKeeps ==
  ASSUME OneOperator, Inv, NEW o \in Operators, ActivatePolicy(o) PROVE Inv'
<1>1. Writes(o, "activate") /\ UNCHANGED observations
  BY DEF ActivatePolicy
<1>2. Checked(operator[o]) /\ operator[o].todo = "activate" /\ operator[o] \in OperatorType
  BY <1>1, NobodyHoldsAnything
<1>3. PICK p \in Policies : p = operator[o].policy /\ operator[o].previous = active
  BY <1>2 DEF Checked, OperatorType
<1>4. PICK d \in Deployments : Candidate(d) = p /\ deployments[d].status \in {"canary_passed", "rolled_back"}
  BY <1>2, <1>3 DEF Checked
<1>5. /\ Switch(active, p)
      /\ deployments' = [e \in Deployments |->
              IF deployments[e].candidate = p /\ deployments[e].status = "canary_passed"
              THEN [deployments[e] EXCEPT !.status = "stable"] ELSE deployments[e]]
      /\ audit' = audit \cup {<<"approve", active, p>>}
  BY <1>3 DEF ActivatePolicy, Log
<1>6. ASSUME NEW e \in Deployments
      PROVE  /\ deployments'[e] \in DeploymentType
             /\ deployments'[e].stable = deployments[e].stable
             /\ deployments'[e].candidate = deployments[e].candidate
             /\ deployments'[e].pins = deployments[e].pins
             /\ deployments'[e].samples = deployments[e].samples
             /\ deployments'[e].failures = deployments[e].failures
             /\ deployments'[e].disagreements = deployments[e].disagreements
             /\ deployments'[e].canarySamples = deployments[e].canarySamples
             /\ deployments'[e].canaryFailures = deployments[e].canaryFailures
             /\ \/ deployments'[e].status = deployments[e].status
                \/ deployments[e].status = "canary_passed" /\ deployments'[e].status = "stable"
  <2>1. deployments[e] \in DeploymentType
    BY DEF Inv, TypeOK
  <2>2. \/ /\ deployments[e].status = "canary_passed"
           /\ deployments'[e] = [deployments[e] EXCEPT !.status = "stable"]
        \/ deployments'[e] = deployments[e]
    BY <1>5
  <2> QED
    BY <2>1, <2>2 DEF DeploymentType, Closed
<1>7. deployments' \in [Deployments -> DeploymentType]
  BY <1>5, <1>6
<1>8. Earned(p)' /\ active \in Policies
  <2> DEFINE c == <<"approve", active, p>>
  <2>1. c \in audit' /\ c[1] = "approve" /\ c[3] = p
    BY <1>5
  <2> HIDE DEF c
  <2>2. Earned(p)'
    BY <2>1 DEF Earned
  <2> QED
    BY <2>2 DEF Inv, TypeOK
<1>9. /\ active' = p /\ policies' \in [Policies -> PolicyType]
      /\ \A x \in Policies : /\ policies'[x].parent = policies[x].parent
                             /\ policies'[x].passed = policies[x].passed
      /\ policies'[p].status = "approved"
      /\ \A x \in Policies : x # p =>
            \/ policies'[x].status = policies[x].status
            \/ /\ x = active /\ policies[x].status = "approved"
               /\ policies'[x].status = "retired"
      /\ active # p => policies'[active].status # "approved"
  BY <1>5, SwitchedPolicies
<1>10. ASSUME NEW e \in Deployments, deployments'[e].status \in Open
       PROVE  /\ Candidate(e) # p
              /\ policies'[Candidate(e)].status = policies[Candidate(e)].status
  <2>1. deployments[e].status \in Open /\ e \in Unfinished /\ Known(e)
    BY <1>6, <1>10 DEF Open, Sampling, Unfinished, Known
  <2>2. deployments[d].status \notin Open /\ Known(d)
    BY <1>4 DEF Open, Sampling, Known
  <2>3. Candidate(e) # p
    BY <1>4, <2>1, <2>2 DEF Inv, Exclusive
  <2>4. policies[Candidate(e)].status # "approved" /\ Candidate(e) \in Policies
    BY <2>1 DEF Inv, PolicyFollowsDeployment, Candidate, Open, Sampling, TypeOK, DeploymentType
  <2> QED
    BY <1>9, <2>3, <2>4
<1>11. audit \subseteq audit' /\ audit' \subseteq
          {"shadow_configure", "shadow_approve", "canary_start", "approve",
           "automatic_offline_gate_approve", "automatic_release_rollback",
           "rollback"} \X Policies \X Policies
  BY <1>5, <1>8 DEF Inv, TypeOK
<1> QED
  BY <1>1, <1>6, <1>7, <1>8, <1>9, <1>10, <1>11, PolicySwitches

LEMMA ActivateAutomaticallyKeeps ==
  ASSUME OneOperator, Inv, NEW o \in Operators, ActivateAutomatically(o) PROVE Inv'
<1>1. Writes(o, "automatic") /\ UNCHANGED <<deployments, observations>>
  BY DEF ActivateAutomatically
<1>2. Checked(operator[o]) /\ operator[o].todo = "automatic" /\ operator[o] \in OperatorType
  BY <1>1, NobodyHoldsAnything
<1>3. PICK p \in Policies : /\ p = operator[o].policy /\ operator[o].previous = active
                            /\ policies[p].status = "shadow_ready"
  BY <1>2 DEF Checked, OperatorType
<1>4. Switch(active, p) /\ audit' = audit \cup {<<"automatic_offline_gate_approve", active, p>>}
  BY <1>3 DEF ActivateAutomatically, Log
<1>5. Earned(p)' /\ active \in Policies
  <2> DEFINE c == <<"automatic_offline_gate_approve", active, p>>
  <2>1. c \in audit' /\ c[1] = "automatic_offline_gate_approve" /\ c[3] = p
    BY <1>4
  <2> HIDE DEF c
  <2>2. Earned(p)'
    BY <2>1 DEF Earned
  <2> QED
    BY <2>2 DEF Inv, TypeOK
<1>6. /\ active' = p /\ policies' \in [Policies -> PolicyType]
      /\ \A x \in Policies : /\ policies'[x].parent = policies[x].parent
                             /\ policies'[x].passed = policies[x].passed
      /\ policies'[p].status = "approved"
      /\ \A x \in Policies : x # p =>
            \/ policies'[x].status = policies[x].status
            \/ /\ x = active /\ policies[x].status = "approved"
               /\ policies'[x].status = "retired"
      /\ active # p => policies'[active].status # "approved"
  BY <1>4, SwitchedPolicies
<1>7. ASSUME NEW e \in Deployments, deployments'[e].status \in Open
      PROVE  /\ Candidate(e) # p
             /\ policies'[Candidate(e)].status = policies[Candidate(e)].status
  <2>1. e \in Unfinished /\ Known(e)
    BY <1>1, <1>7 DEF Unfinished, Known, Open, Sampling
  <2>2. Candidate(e) # p
    BY <1>3, <2>1 DEF Inv, RowsOK, RowOK, Early
  <2>3. policies[Candidate(e)].status # "approved" /\ Candidate(e) \in Policies
    BY <1>1, <2>1 DEF Inv, PolicyFollowsDeployment, Candidate, Unfinished, Open, Sampling, TypeOK, DeploymentType
  <2> QED
    BY <1>6, <2>2, <2>3
<1>8. audit \subseteq audit' /\ audit' \subseteq
          {"shadow_configure", "shadow_approve", "canary_start", "approve",
           "automatic_offline_gate_approve", "automatic_release_rollback",
           "rollback"} \X Policies \X Policies
  BY <1>4, <1>5 DEF Inv, TypeOK
<1>9. deployments' \in [Deployments -> DeploymentType]
  BY <1>1 DEF Inv, TypeOK
<1> QED
  BY <1>1, <1>5, <1>6, <1>7, <1>8, <1>9, PolicySwitches

LEMMA RollBackKeeps ==
  ASSUME OneOperator, Inv, NEW o \in Operators, RollBack(o) PROVE Inv'
<1>1. Writes(o, "rollback") /\ UNCHANGED observations
  BY DEF RollBack
<1>2. Checked(operator[o]) /\ operator[o].todo = "rollback" /\ operator[o] \in OperatorType
  BY <1>1, NobodyHoldsAnything
<1>3. PICK p \in Policies : /\ p = operator[o].policy /\ operator[o].previous = active
                            /\ Earned(p) /\ \A e \in Unfinished : Candidate(e) # p
  BY <1>2 DEF Checked, OperatorType
<1>4. /\ active' = p
      /\ policies' = [policies EXCEPT ![active].status = "retired", ![p].status = "approved"]
      /\ deployments' = [e \in Deployments |->
            IF deployments[e].status # "absent" /\ deployments[e].candidate = active
            THEN [deployments[e] EXCEPT !.status = "rolled_back"] ELSE deployments[e]]
      /\ audit' = audit \cup {<<"rollback", active, p>>}
  BY <1>3 DEF RollBack, Log
<1>5. active \in Policies /\ Earned(p)'
  BY <1>3, <1>4 DEF Inv, TypeOK, Earned
<1>6. /\ policies' \in [Policies -> PolicyType]
      /\ \A x \in Policies : /\ policies'[x].parent = policies[x].parent
                             /\ policies'[x].passed = policies[x].passed
      /\ policies'[p].status = "approved"
      /\ active # p => policies'[active].status = "retired"
      /\ \A x \in Policies : x # p /\ x # active => policies'[x].status = policies[x].status
  <2>1. PICK middle : middle = [policies EXCEPT ![active].status = "retired"]
    OBVIOUS
  <2>2. policies \in [Policies -> PolicyType]
    BY DEF Inv, TypeOK
  <2>3. /\ middle \in [Policies -> PolicyType] /\ middle[active].status = "retired"
        /\ \A x \in Policies : /\ middle[x].parent = policies[x].parent
                               /\ middle[x].passed = policies[x].passed
        /\ \A x \in Policies : x # active => middle[x].status = policies[x].status
    BY <1>5, <2>1, <2>2 DEF PolicyType
  <2>4. policies' = [middle EXCEPT ![p].status = "approved"]
    BY <1>4, <2>1
  <2> QED
    BY <2>3, <2>4 DEF PolicyType
<1>7. ASSUME NEW e \in Deployments
      PROVE  /\ deployments'[e] \in DeploymentType
             /\ deployments'[e].stable = deployments[e].stable
             /\ deployments'[e].candidate = deployments[e].candidate
             /\ deployments'[e].pins = deployments[e].pins
             /\ deployments'[e].samples = deployments[e].samples
             /\ deployments'[e].failures = deployments[e].failures
             /\ deployments'[e].disagreements = deployments[e].disagreements
             /\ deployments'[e].canarySamples = deployments[e].canarySamples
             /\ deployments'[e].canaryFailures = deployments[e].canaryFailures
             /\ \/ Known(e) /\ deployments'[e].status = "rolled_back"
                \/ /\ deployments'[e].status = deployments[e].status
                   /\ Known(e) => deployments[e].candidate # active
  <2>1. deployments[e] \in DeploymentType
    BY DEF Inv, TypeOK
  <2>2. \/ /\ Known(e)
           /\ deployments'[e] = [deployments[e] EXCEPT !.status = "rolled_back"]
        \/ /\ deployments'[e] = deployments[e]
           /\ Known(e) => deployments[e].candidate # active
    BY <1>4 DEF Known
  <2> QED
    BY <2>1, <2>2 DEF DeploymentType, Closed
<1>8. deployments' \in [Deployments -> DeploymentType]
  BY <1>4, <1>7
<1>9. ASSUME NEW e \in Deployments, deployments'[e].status \in Open
      PROVE  /\ Candidate(e) # p
             /\ policies'[Candidate(e)].status = policies[Candidate(e)].status
  <2>1. deployments[e].status \in Open /\ e \in Unfinished /\ Known(e) /\ Candidate(e) # active
    BY <1>7, <1>9 DEF Open, Sampling, Unfinished, Known, Candidate
  <2>2. Candidate(e) \in Policies
    BY DEF Inv, TypeOK, DeploymentType, Candidate
  <2> QED
    BY <1>3, <1>6, <2>1, <2>2
<1>10. audit \subseteq audit' /\ audit' \subseteq
          {"shadow_configure", "shadow_approve", "canary_start", "approve",
           "automatic_offline_gate_approve", "automatic_release_rollback",
           "rollback"} \X Policies \X Policies
  BY <1>4, <1>5 DEF Inv, TypeOK
<1>11. /\ \A x \in Policies : x # p =>
             \/ policies'[x].status = policies[x].status
             \/ x = active /\ policies'[x].status = "retired"
       /\ active # p => policies'[active].status # "approved"
  BY <1>6
<1>12. active' = p
  BY <1>4
<1> QED
  BY <1>1, <1>5, <1>6, <1>7, <1>8, <1>9, <1>10, <1>11, <1>12, PolicySwitches

\* A proposed policy is new.
LEMMA ProposeKeeps ==
  ASSUME Inv, NEW p \in Policies, NEW parent \in Policies, Propose(p, parent) PROVE Inv'
<1>1. /\ policies[p].status = "absent"
      /\ UNCHANGED <<env, active, deployments, observations, audit, query, operator>>
  BY DEF Propose
<1>2. PICK row : row = [status |-> "candidate", parent |-> parent, passed |-> {}]
  OBVIOUS
<1>3. policies' = [policies EXCEPT ![p] = row] /\ row \in PolicyType /\ row.status = "candidate"
  BY <1>2 DEF Propose, PolicyType
<1>4. /\ policies' \in [Policies -> PolicyType] /\ policies'[p].status = "candidate"
      /\ \A x \in Policies : x # p => policies'[x] = policies[x]
  BY <1>3 DEF Inv, TypeOK
<1>5. TypeOK'
  BY <1>1, <1>4 DEF Inv, TypeOK
<1>6. \A d \in Deployments : Known(d) => Candidate(d) # p /\ Candidate(d) \in Policies
  BY <1>1 DEF Inv, RowsOK, RowOK, Early, TypeOK, DeploymentType, Candidate
<1>7. /\ \A d : Known(d)' = Known(d) /\ Candidate(d)' = Candidate(d) /\ Approved(d)' = Approved(d)
      /\ Unfinished' = Unfinished /\ (\A x : Earned(x)' = Earned(x))
  BY <1>1 DEF Known, Candidate, Approved, Unfinished, Earned
<1>8. RowsOK'
  BY <1>1, <1>4, <1>6, <1>7, ObservationsStay DEF Inv, RowsOK, RowOK
<1>9. PolicyFollowsDeployment' /\ Exclusive' /\ PoliciesOK'
  <2>1. \A d \in Unfinished : d \in Deployments /\ Known(d)
    BY DEF Unfinished, Known, Open, Sampling
  <2>2. PolicyFollowsDeployment'
    BY <1>1, <1>4, <1>6, <1>7, <2>1 DEF Inv, PolicyFollowsDeployment, Candidate
  <2>3. Exclusive' /\ PoliciesOK'
    BY <1>1, <1>4, <1>7 DEF Inv, Exclusive, PoliciesOK
  <2> QED
    BY <2>2, <2>3
<1>10. DecidedInTime'
  BY <1>1, ObservationsStay DEF Inv, DecidedInTime, NoFailedCandidateStranded, SamplingEndsAtItsTarget
<1>11. CountsOK'
  BY <1>1, <1>7, CountsStay DEF Inv
<1>12. LanesOK'
  BY <1>1, ObservationsStay DEF Inv, LanesOK
<1>13. QueriesOK'
  BY <1>1, <1>7, ObservationsStay, QueriesStay
<1>14. OperatorsOK'
  <2> SUFFICES ASSUME NEW o \in Operators PROVE Checked(operator[o])'
    BY DEF OperatorsOK
  <2>1. Checked(operator[o]) /\ operator[o].policy \in Policies /\ operator'[o] = operator[o]
    BY <1>1 DEF Inv, OperatorsOK, TypeOK, OperatorType
  <2>2. \A d, s : Held(d, s) => Held(d, s)'
    BY <1>1, <1>7, ObservationsStay DEF Held
  <2>3. operator[o].todo \in {"evaluate", "configure", "automatic"} =>
          policies'[operator[o].policy] = policies[operator[o].policy]
    BY <1>1, <1>4, <2>1 DEF Checked
  <2> QED
    BY <1>1, <1>7, <2>1, <2>2, <2>3, ObservationsStay DEF Checked
<1> QED
  BY <1>5, <1>8, <1>9, <1>10, <1>11, <1>12, <1>13, <1>14 DEF Inv

(***************************************************************************)
(* The theorems                                                            *)
(***************************************************************************)
LEMMA InitEstablishes == Init => Inv
<1> SUFFICES ASSUME Init PROVE Inv
  OBVIOUS
<1>1. AnyEnvironment \in Environments
  BY DEF Init, AnyEnvironment
<1>2. Idle("idle") \in QueryType /\ Idle("idle").pc = "idle" /\ Idle("idle").answered = "none"
  BY <1>1, ReleaseAssumption DEF Idle, QueryType, Lanes, Diffs
<1>3. Nothing \in OperatorType /\ Nothing.todo = "nothing"
  BY <1>1, ReleaseAssumption DEF Nothing, OperatorType, Verdicts
<1>4. policies \in [Policies -> PolicyType]
        /\ \A p \in Policies : policies[p].status = IF p = Baseline THEN "approved" ELSE "absent"
  BY ReleaseAssumption DEF Init, PolicyType
<1>5. /\ deployments \in [Deployments -> DeploymentType]
      /\ \A d \in Deployments : /\ deployments[d].status = "absent"
                                /\ deployments[d].samples = 0 /\ deployments[d].failures = 0
                                /\ deployments[d].disagreements = 0
                                /\ deployments[d].canarySamples = 0
                                /\ deployments[d].canaryFailures = 0
  <2>1. PICK row : row = [status |-> "absent", stable |-> Baseline, candidate |-> Baseline,
           pins |-> AnyEnvironment, samples |-> 0, failures |-> 0, disagreements |-> 0, canarySamples |-> 0,
           canaryFailures |-> 0]
    OBVIOUS
  <2>2. /\ row \in DeploymentType /\ row.status = "absent"
        /\ row.samples = 0 /\ row.failures = 0 /\ row.disagreements = 0
        /\ row.canarySamples = 0 /\ row.canaryFailures = 0
    BY <1>1, <2>1, ReleaseAssumption DEF DeploymentType
  <2>3. deployments = [d \in Deployments |-> row]
    BY <2>1 DEF Init
  <2> QED
    BY <2>2, <2>3
<1>6. observations \in [Deployments \X Tasks \X Lanes -> ObservationType]
        /\ \A o \in Deployments \X Tasks \X Lanes : ~Recorded(o)
  BY DEF Init, ObservationType, Diffs, Recorded
<1>7. TypeOK
  BY <1>2, <1>3, <1>4, <1>5, <1>6, ReleaseAssumption DEF Init, TypeOK
<1>8. Unfinished = {} /\ \A d \in Deployments : ~Known(d)
  BY <1>5 DEF Unfinished, Open, Sampling, Known
<1>9. RowsOK /\ PolicyFollowsDeployment /\ Exclusive
  BY <1>8 DEF RowsOK, PolicyFollowsDeployment, Exclusive
<1>10. PoliciesOK
  BY <1>4 DEF PoliciesOK, Earned, Init
<1>11. DecidedInTime
  BY <1>5 DEF DecidedInTime, NoFailedCandidateStranded, SamplingEndsAtItsTarget
<1>12. CountsOK
  <2>1. \A d, lane, diffs : Seen(d, lane, diffs) = {}
    BY <1>6 DEF Seen
  <2>2. \A d, lane, diffs : IsFiniteSet(Seen(d, lane, diffs)) /\ Cardinality(Seen(d, lane, diffs)) = 0
    BY <2>1, FS_EmptySet
  <2> QED
    BY <1>5, <1>6, <2>2 DEF CountsOK, CountOK
<1>13. LanesOK
  BY <1>5 DEF LanesOK
<1>14. QueriesOK
  BY <1>2 DEF Init, QueriesOK, QueryOK, Running
<1>15. OperatorsOK
  BY <1>3 DEF Init, OperatorsOK, Checked
<1> QED
  BY <1>7, <1>9, <1>10, <1>11, <1>12, <1>13, <1>14, <1>15 DEF Inv

LEMMA StutterKeeps == Inv /\ UNCHANGED vars => Inv'
<1> SUFFICES ASSUME Inv, UNCHANGED vars PROVE Inv'
  OBVIOUS
<1>1. UNCHANGED tables /\ UNCHANGED query /\ UNCHANGED operator /\ UNCHANGED env
  BY DEF vars
<1>2. /\ RowsOK' /\ PolicyFollowsDeployment' /\ Exclusive' /\ PoliciesOK'
      /\ DecidedInTime' /\ CountsOK'
  BY <1>1, TablesStay DEF Inv
<1>3. /\ deployments' = deployments /\ policies' = policies /\ audit' = audit
      /\ observations' = observations /\ active' = active
  BY <1>1 DEF tables
<1>4. TypeOK'
  BY <1>1, <1>3 DEF Inv, TypeOK
<1>5. \A d : NoCanary(d)' = NoCanary(d)
  BY <1>1, TablesStay DEF NoCanary
<1>6. LanesOK'
  BY <1>3, <1>5 DEF Inv, LanesOK
<1>7. QueriesOK'
  BY <1>1, <1>3, TablesStay DEF Inv, QueriesOK, QueryOK
<1>8. \A d, s : Held(d, s) => Held(d, s)'
  BY <1>1, <1>3, <1>5, TablesStay DEF Held
<1>9. \A o \in Operators : Checked(operator[o]) => Checked(operator[o])'
  BY <1>1, <1>3, <1>8, TablesStay DEF Checked
<1>10. OperatorsOK'
  BY <1>1, <1>9 DEF Inv, OperatorsOK
<1> QED
  BY <1>2, <1>4, <1>6, <1>7, <1>10 DEF Inv

LEMMA QueryStepKeeps ==
  ASSUME Inv, NEW q \in Queries, QueryStep(q) PROVE Inv'
<1>1. CASE \E t \in Tasks : Begin(q, t)
  BY <1>1, BeginKeeps
<1>2. CASE AssignStable(q)
  BY <1>2, AssignStableKeeps
<1>3. CASE \E d \in Deployments : AssignDrifted(q, d)
  BY <1>3, AssignDriftedKeeps
<1>4. CASE \E d \in Deployments : AssignSampled(q, d)
  BY <1>4, AssignSampledKeeps
<1>5. CASE RollBackDrifted(q)
  BY <1>5, RollBackDriftedKeeps
<1>6. CASE RunStable(q)
  BY <1>6, RunStableKeeps
<1>7. CASE RunBoth(q)
  BY <1>7, RunBothKeeps
<1>8. CASE RunFails(q)
  BY <1>8, QueryEnds DEF RunFails
<1>9. CASE Record(q)
  BY <1>9, RecordKeeps
<1>10. CASE Insert(q)
  BY <1>10, InsertKeeps
<1>11. CASE Advance(q)
  BY <1>11, AdvanceKeeps
<1>12. CASE SettleLater(q)
  BY <1>12, SettleLaterKeeps
<1>13. CASE Answer(q)
  BY <1>13, AnswerKeeps
<1>14. CASE Crash(q)
  BY <1>14, QueryEnds DEF Crash
<1> QED
  BY <1>1, <1>2, <1>3, <1>4, <1>5, <1>6, <1>7, <1>8, <1>9, <1>10, <1>11, <1>12, <1>13, <1>14
  DEF QueryStep

LEMMA OperatorStepKeeps ==
  ASSUME OneOperator, Inv, NEW o \in Operators, OperatorStep(o) PROVE Inv'
<1>1. CASE Abandon(o)
  BY <1>1, AbandonKeeps
<1>2. CASE \E p \in Policies : CheckEvaluation(o, p)
  BY <1>2, CheckEvaluationKeeps
<1>3. CASE RecordEvaluation(o)
  BY <1>3, RecordEvaluationKeeps
<1>4. CASE \E p \in Policies : CheckConfiguration(o, p)
  BY <1>4, CheckConfigurationKeeps
<1>5. CASE \E d \in Deployments : ConfigureShadow(o, d)
  BY <1>5, ConfigureShadowKeeps
<1>6. CASE \E d \in Deployments, t \in Tasks, verdict \in Verdicts : CheckReview(o, d, t, verdict)
  BY <1>6, CheckReviewKeeps
<1>7. CASE ReviewObservation(o)
  BY <1>7, ReviewObservationKeeps
<1>8. CASE \E d \in Deployments : CheckApproval(o, d)
  BY <1>8, CheckApprovalKeeps
<1>9. CASE RejectShadow(o)
  BY <1>9, RejectShadowKeeps
<1>10. CASE ApproveShadow(o)
  BY <1>10, ApproveShadowKeeps
<1>11. CASE \E d \in Deployments : CheckCanary(o, d)
  BY <1>11, CheckCanaryKeeps
<1>12. CASE StartCanary(o)
  BY <1>12, StartCanaryKeeps
<1>13. CASE \E p \in Policies : CheckActivation(o, p)
  BY <1>13, CheckActivationKeeps
<1>14. CASE ActivatePolicy(o)
  BY <1>14, ActivatePolicyKeeps
<1>15. CASE \E p \in Policies : CheckAutomatic(o, p)
  BY <1>15, CheckAutomaticKeeps
<1>16. CASE ActivateAutomatically(o)
  BY <1>16, ActivateAutomaticallyKeeps
<1>17. CASE \E p \in Policies : CheckRollback(o, p)
  BY <1>17, CheckRollbackKeeps
<1>18. CASE RollBack(o)
  BY <1>18, RollBackKeeps
<1> QED
  BY <1>1, <1>2, <1>3, <1>4, <1>5, <1>6, <1>7, <1>8, <1>9, <1>10, <1>11, <1>12, <1>13, <1>14,
     <1>15, <1>16, <1>17, <1>18 DEF OperatorStep

LEMMA NextKeeps ==
  ASSUME OneOperator, Inv, [Next]_vars PROVE Inv'
<1>1. CASE \E q \in Queries : QueryStep(q)
  BY <1>1, QueryStepKeeps
<1>2. CASE \E o \in Operators : OperatorStep(o)
  BY <1>2, OperatorStepKeeps
<1>3. CASE \E p, parent \in Policies : Propose(p, parent)
  BY <1>3, ProposeKeeps
<1>4. CASE ChangeEnvironment
  BY <1>4, ChangeEnvironmentKeeps
<1>5. CASE UNCHANGED vars
  BY <1>5, StutterKeeps
<1> QED
  BY <1>1, <1>2, <1>3, <1>4, <1>5 DEF Next

\* The invariant holds in every state, however many queries, tasks, policies and
\* deployments there are, as long as operators take turns.
THEOREM Invariance == ASSUME OneOperator PROVE Spec => []Inv
<1>1. Inv /\ [Next]_vars => Inv'
  BY NextKeeps
<1> QED
  BY <1>1, InitEstablishes, PTL DEF Spec

\* The tables and the frames hold what the code can put into them.
THEOREM TypesAreKept == ASSUME OneOperator PROVE Spec => []TypeOK
<1>1. Inv => TypeOK
  BY DEF Inv
<1> QED
  BY <1>1, Invariance, PTL

\* The counters that decide about a release are the numbers of its observations: a
\* task counts once per lane (_record_observation).
THEOREM CountersAreExact == ASSUME OneOperator PROVE Spec => []CountersMatchObservations
<1>1. Inv => CountersMatchObservations
  BY CountsAreCardinalities DEF Inv
<1> QED
  BY <1>1, Invariance, PTL

\* No crash and no concurrent query leaves a failed candidate, or a completed sample,
\* undecided (_advance_or_rollback in the transaction of the observation).
THEOREM DecisionsAreTimely == ASSUME OneOperator PROVE Spec => []DecidedInTime
<1>1. Inv => DecidedInTime
  BY DEF Inv
<1> QED
  BY <1>1, Invariance, PTL

\* The row of an unfinished deployment and that of its candidate agree.
THEOREM RowsAgree == ASSUME OneOperator PROVE Spec => []PolicyFollowsDeployment
<1>1. Inv => PolicyFollowsDeployment
  BY DEF Inv
<1> QED
  BY <1>1, Invariance, PTL

LEMMA AtMostOne ==
  ASSUME NEW S, \A x, y \in S : x = y PROVE Cardinality(S) <= 1
<1>1. CASE S = {}
  BY <1>1, FS_EmptySet
<1>2. CASE S # {}
  <2>1. PICK x \in S : TRUE
    BY <1>2
  <2>2. S \subseteq {x} /\ {x} \subseteq S
    BY <2>1
  <2>3. S = {x}
    BY <2>2
  <2>4. Cardinality({x}) = 1
    BY FS_Singleton
  <2> QED
    BY <2>3, <2>4
<1> QED
  BY <1>1, <1>2

\* At most one deployment is unfinished and at most one policy is the approved one
\* (configure_shadow supersedes, activation and rollback retire).
THEOREM ReleasesFollowEachOther == ASSUME OneOperator PROVE Spec => []ReleasesSucceed
<1>1. Inv => ReleasesSucceed
  <2> SUFFICES ASSUME Inv PROVE ReleasesSucceed
    OBVIOUS
  <2>1. OneReleaseAtATime
    BY AtMostOne DEF Inv, Exclusive, OneReleaseAtATime
  <2>2. AtMostOneApproved
    <3> DEFINE A == {p \in Policies : policies[p].status = "approved"}
    <3>1. \A x, y \in A : x = y
      BY DEF Inv, PoliciesOK
    <3> HIDE DEF A
    <3>2. Cardinality(A) <= 1
      BY <3>1, AtMostOne
    <3> QED
      BY <3>2 DEF A, AtMostOneApproved
  <2> QED
    BY <2>1, <2>2 DEF ReleasesSucceed
<1> QED
  BY <1>1, Invariance, PTL

\* A candidate runs under versions its offline gate was passed under, passes its shadow
\* with no adverse verdict, and answers after a person has approved it.
THEOREM CandidatesAreCleared == ASSUME OneOperator PROVE Spec => []CandidateIsCleared
<1>1. Inv => CandidateIsCleared
  <2> SUFFICES ASSUME Inv PROVE CandidateIsCleared
    OBVIOUS
  <2>1. CandidateRunsAsEvaluated
    BY DEF Inv, QueriesOK, QueryOK, RowsOK, RowOK, Candidate, Running, CandidateRunsAsEvaluated
  <2>2. NoAdverseVerdictPassed
    BY DEF Inv, RowsOK, RowOK, Cleared, Known, NoAdverseVerdictPassed
  <2>3. CandidateAnswersAfterApproval
    BY DEF Inv, QueriesOK, QueryOK, Approved, CandidateAnswersAfterApproval
  <2> QED
    BY <2>1, <2>2, <2>3 DEF CandidateIsCleared
<1> QED
  BY <1>1, Invariance, PTL

\* What a change of the active policy has to show for itself.
ChangeIsEarned ==
    active' # active =>
       \/ active' = Baseline
       \/ \E change \in audit :
            /\ change[1] \in {"approve", "automatic_offline_gate_approve"}
            /\ change[3] = active'
       \/ /\ active' \in Compiled /\ policies[active'].parent = active
          /\ policies[active'].passed # {}
       \/ \E d \in Deployments :
            /\ deployments[d].candidate = active' /\ deployments[d].stable = active
            /\ deployments[d].samples >= MinShadow
            /\ deployments[d].canarySamples >= MinCanary

LEMMA OnlyOperatorsActivate ==
  ASSUME [Next]_vars, active' # active
  PROVE  \E o \in Operators : ActivatePolicy(o) \/ ActivateAutomatically(o) \/ RollBack(o)
<1>1. ~ UNCHANGED tables
  BY DEF tables
<1>2. ASSUME NEW q \in Queries, QueryStep(q) PROVE FALSE
  BY <1>1, <1>2 DEF QueryStep, Begin, AssignStable, AssignDrifted, AssignSampled, RollBackDrifted,
     RunStable, RunBoth, RunFails, Record, Insert, Advance, SettleLater, Answer, Crash
<1>3. ASSUME NEW o \in Operators, OperatorStep(o)
      PROVE  ActivatePolicy(o) \/ ActivateAutomatically(o) \/ RollBack(o)
  BY <1>1, <1>3 DEF OperatorStep, Abandon, CheckEvaluation, RecordEvaluation, CheckConfiguration,
     ConfigureShadow, CheckReview, ReviewObservation, CheckApproval, RejectShadow, ApproveShadow,
     CheckCanary, StartCanary, CheckActivation, CheckAutomatic, CheckRollback, Decide
<1>4. ~(\E p, parent \in Policies : Propose(p, parent)) /\ ~ChangeEnvironment /\ ~(UNCHANGED vars)
  BY <1>1 DEF Propose, ChangeEnvironment, vars
<1> QED
  BY <1>2, <1>3, <1>4 DEF Next

LEMMA ChangesAreEarned ==
  ASSUME OneOperator, Inv, [Next]_vars PROVE ChangeIsEarned
<1> SUFFICES ASSUME active' # active PROVE ChangeIsEarned
  BY DEF ChangeIsEarned
<1>1. PICK o \in Operators : ActivatePolicy(o) \/ ActivateAutomatically(o) \/ RollBack(o)
  BY OnlyOperatorsActivate
<1>2. Checked(operator[o])
  BY DEF Inv, OperatorsOK
<1>3. CASE ActivatePolicy(o)
  <2>1. operator[o].todo = "activate" /\ active' = operator[o].policy
    BY <1>3 DEF ActivatePolicy, Writes, Switch
  <2> QED
    BY <1>2, <2>1 DEF Checked, Candidate, ChangeIsEarned
<1>4. CASE ActivateAutomatically(o)
  <2>1. operator[o].todo = "automatic" /\ active' = operator[o].policy
    BY <1>4 DEF ActivateAutomatically, Writes, Switch
  <2> QED
    BY <1>2, <2>1 DEF Checked, ChangeIsEarned
<1>5. CASE RollBack(o)
  <2>1. operator[o].todo = "rollback" /\ active' = operator[o].policy
    BY <1>5 DEF RollBack, Writes
  <2> QED
    BY <1>2, <2>1 DEF Checked, Earned, ChangeIsEarned
<1> QED
  BY <1>1, <1>3, <1>4, <1>5

\* The active policy changes only to one that was active before, to a compiled candidate
\* that passed the offline gate, or to one that completed both samples against the active
\* one (activate_policy, activate_policy_automatically, rollback).
THEOREM ActivationsAreEarned == ASSUME OneOperator PROVE Spec => ActivationIsEarned
<1>1. Inv /\ [Next]_vars => [ChangeIsEarned]_vars
  BY ChangesAreEarned
<1>2. [][ChangeIsEarned]_vars => ActivationIsEarned
  BY PTL DEF ActivationIsEarned, ChangeIsEarned
<1> QED
  BY <1>1, <1>2, Invariance, PTL DEF Spec
=============================================================================
