----------------------------- MODULE RuntimeMemory -----------------------------
(***************************************************************************)
(* Runtime Memory: how a rule that operators approve becomes one that every *)
(* role reads, and how it ceases to be one.                                *)
(*                                                                         *)
(* A rule is served only after a paired evaluation: a background worker     *)
(* runs the dataset with the stable pool and with the pool that has the     *)
(* rule as well, and the store compares what the two artifacts are pinned   *)
(* to with what it serves now.  While the worker runs, operators activate   *)
(* and roll back other rules, the active Policy and the indexes move, and   *)
(* the worker may die.  Every check of the store is a read that an          *)
(* unconditional write follows.                                            *)
(***************************************************************************)
EXTENDS Integers, FiniteSets, Sequences

CONSTANTS
    Ids,         \* memory ids, in the order the snapshot sorts them
    Rules,       \* rule fingerprints
    RuleOf,      \* id -> the rule it is added with (the id is a hash that covers it)
    Operators,   \* who reviews, evaluates, activates and rolls back
    NoPins, NoId,
    MaxJobs,     \* bound of the evaluation jobs
    MaxMoves,    \* bound of the moves of the active Policy and of the other inputs
    MaxCrashes   \* bound of the crashes of workers

ASSUME RuntimeMemoryAssumption ==
    /\ Ids \subseteq Nat /\ RuleOf \in [Ids -> Rules]
    /\ MaxJobs \in Nat /\ MaxMoves \in Nat /\ MaxCrashes \in Nat
    /\ NoId \notin Ids

VARIABLES
    items,    \* the rows of memory_items that may be served
    jobs,     \* the rows of memory_evaluation_jobs with their worker and its files
    run,      \* id -> its latest row of memory_evaluation_runs
    policy,   \* the active Policy
    inputs,   \* database, Wiki and Vanna versions, and the evaluation identity
    pending,  \* operator -> the write that follows its check
    crashes

vars == <<items, jobs, run, policy, inputs, pending, crashes>>

(***************************************************************************)
(* Rows, artifacts and snapshots.                                          *)
(***************************************************************************)
States ==
    {"absent", "candidate", "approved", "rejected", "evaluating", "evaluated",
     "evaluation_failed", "stable", "retired"}

Sides == {"baseline", "candidate"}

Pins == [pool : SUBSET (Ids \X Rules), policy : 0..MaxMoves, inputs : 0..MaxMoves]

ItemType == [state : States, rule : Rules]

JobType ==
    [memory : Ids,
     status : {"queued", "running", "passed", "failed"},
     phase : {"preparing", "baseline", "candidate", "judging", "storing", "complete"},
     alive : BOOLEAN,                           \* the worker process
     begun : SUBSET Sides,                      \* evaluation checkpoints on disk
     engine : Pins \cup {NoPins},               \* what the running evaluation is pinned to
     artifact : [Sides -> Pins \cup {NoPins}],  \* complete artifacts on disk
     verdict : BOOLEAN]                         \* eligible_for_activation

RunType == [passed : BOOLEAN, baseline : Pins, candidate : Pins]

NoRun == [passed |-> FALSE, baseline |-> NoPins, candidate |-> NoPins]

NoWrite == [op |-> "none", memory |-> NoId, baseline |-> NoPins]

Init ==
    /\ items = [m \in Ids |-> [state |-> "absent", rule |-> RuleOf[m]]]
    /\ jobs = <<>>
    /\ run = [m \in Ids |-> NoRun]
    /\ policy = 0 /\ inputs = 0
    /\ pending = [o \in Operators |-> NoWrite]
    /\ crashes = 0

StateOf(m) == items[m].state

SetState(m, s) == items' = [items EXCEPT ![m].state = s]

\* The rows whose rule a new or an edited rule may not repeat.
Live(m) == StateOf(m) \notin {"absent", "rejected", "retired", "evaluation_failed"}

\* runtime_memory_snapshot: the stable rows, the first of those that have the same rule, and
\* the candidate whatever its rule is.
StablePool ==
    {<<m, items[m].rule>> : m \in
        {n \in Ids : /\ StateOf(n) = "stable"
                     /\ \A k \in Ids : k < n /\ StateOf(k) = "stable"
                                          => items[k].rule # items[n].rule}}

Snapshot(m) == StablePool \cup {<<m, items[m].rule>>}

RulesIn(pool) == {entry[2] : entry \in pool}

Evaluable(m) == StateOf(m) \in {"approved", "evaluating", "evaluated", "evaluation_failed"}

Pinned(pool) == [pool |-> pool, policy |-> policy, inputs |-> inputs]

CurrentPins == Pinned(StablePool)

(***************************************************************************)
(* Candidates and their review.                                            *)
(***************************************************************************)
\* add_memory_candidate: a rule that a live row has adds to the provenance of that row, and
\* an id that is known is left alone.
AddCandidate(m) ==
    /\ StateOf(m) = "absent"
    /\ \A n \in Ids : Live(n) => items[n].rule # items[m].rule
    /\ SetState(m, "candidate")
    /\ UNCHANGED <<jobs, run, policy, inputs, pending, crashes>>

Idle(o) == pending[o].op = "none"

Write(o, op, m, base) ==
    pending' = [pending EXCEPT ![o] = [op |-> op, memory |-> m, baseline |-> base]]

Done(o) == pending' = [pending EXCEPT ![o] = NoWrite]

\* update_memory_candidate, the first transaction of an approval: the reviewer may reword
\* the rule, into one that no other live row has.
Edit(o, m, r) ==
    /\ Idle(o)
    /\ StateOf(m) = "candidate"
    /\ \A n \in Ids \ {m} : Live(n) => items[n].rule # r
    /\ items' = [items EXCEPT ![m].rule = r]
    /\ Write(o, "approve", m, NoPins)
    /\ UNCHANGED <<jobs, run, policy, inputs, crashes>>

\* review_memory writes a row only while it is a candidate.
Approve(o) ==
    /\ pending[o].op = "approve"
    /\ IF StateOf(pending[o].memory) = "candidate"
       THEN SetState(pending[o].memory, "approved") ELSE UNCHANGED items
    /\ Done(o)
    /\ UNCHANGED <<jobs, run, policy, inputs, crashes>>

Reject(o, m) ==
    /\ Idle(o)
    /\ StateOf(m) = "candidate"
    /\ SetState(m, "rejected")
    /\ UNCHANGED <<jobs, run, policy, inputs, pending, crashes>>

(***************************************************************************)
(* The launch of an evaluation.                                            *)
(***************************************************************************)
Active(j) == jobs[j].status \in {"queued", "running"}

ActiveJobs(m) == {j \in DOMAIN jobs : jobs[j].memory = m /\ Active(j)}

\* start_memory_evaluation: a complete artifact of a plain evaluation, made by hand or for
\* a release, serves as the baseline when it is pinned to what is served now.
CheckEvaluation(o, m, base) ==
    /\ Idle(o)
    /\ Len(jobs) < MaxJobs
    /\ StateOf(m) \in {"approved", "evaluation_failed"}
    /\ ActiveJobs(m) = {}
    /\ base \in {NoPins, CurrentPins}
    /\ Write(o, "evaluate", m, base)
    /\ UNCHANGED <<items, jobs, run, policy, inputs, crashes>>

NewJob(m, base) ==
    [memory |-> m, status |-> "queued", phase |-> "preparing", alive |-> TRUE,
     begun |-> {}, engine |-> NoPins,
     artifact |-> [s \in Sides |-> IF s = "baseline" THEN base ELSE NoPins],
     verdict |-> FALSE]

\* The insertion of the job and the new state of the row are one transaction.
StartEvaluation(o) ==
    /\ pending[o].op = "evaluate"
    /\ Len(jobs) < MaxJobs
    /\ jobs' = Append(jobs, NewJob(pending[o].memory, pending[o].baseline))
    /\ SetState(pending[o].memory, "evaluating")
    /\ Done(o)
    /\ UNCHANGED <<run, policy, inputs, crashes>>

(***************************************************************************)
(* The worker: run_text2sql_memory_evaluation.py.                           *)
(***************************************************************************)
Works(j) == jobs[j].alive

SetJob(j, job) == jobs' = [jobs EXCEPT ![j] = job]

\* Mutant of FailJob: the row is left to a sweeper.
FailJobOnly(j) ==
    /\ SetJob(j, [jobs[j] EXCEPT !.status = "failed", !.alive = FALSE, !.engine = NoPins])
    /\ UNCHANGED items

\* An error anywhere in the worker: the job fails, and with it a row that is still being
\* evaluated.  The launcher does the same when it cannot start the worker.
FailJob(j) ==
    /\ SetJob(j, [jobs[j] EXCEPT !.status = "failed", !.alive = FALSE, !.engine = NoPins])
    /\ LET m == jobs[j].memory
       IN  IF StateOf(m) = "evaluating" THEN SetState(m, "evaluation_failed")
           ELSE UNCHANGED items

NextSide(j) ==
    IF jobs[j].artifact["baseline"] = NoPins THEN "baseline" ELSE "candidate"

\* The evaluation is not given --resume, so it refuses a checkpoint that is there already,
\* and it refuses a candidate that may not be evaluated.
Refused(j) ==
    \/ NextSide(j) \in jobs[j].begun
    \/ NextSide(j) = "candidate" /\ ~Evaluable(jobs[j].memory)

\* An evaluation pins what it runs with when it starts.
BeginSide(j) ==
    LET side == NextSide(j)
        pool == IF side = "baseline" THEN StablePool ELSE Snapshot(jobs[j].memory)
    IN
    /\ Works(j) /\ jobs[j].phase = "preparing"
    /\ IF Refused(j)
       THEN FailJob(j)
       ELSE /\ SetJob(j, [jobs[j] EXCEPT !.status = "running", !.phase = side,
                             !.begun = @ \cup {side}, !.engine = Pinned(pool)])
            /\ UNCHANGED items
    /\ UNCHANGED <<run, policy, inputs, pending, crashes>>

EndSide(j) ==
    LET side == jobs[j].phase
    IN
    /\ Works(j) /\ side \in Sides
    /\ SetJob(j, [jobs[j] EXCEPT !.artifact[side] = jobs[j].engine, !.engine = NoPins,
                     !.phase = IF side = "baseline" THEN "preparing" ELSE "judging"])
    /\ UNCHANGED <<items, run, policy, inputs, pending, crashes>>

\* record_memory_evaluation: the two artifacts differ by the candidate, and are pinned to
\* the Policy and to the pool that are served now.
Comparable(j) ==
    LET base == jobs[j].artifact["baseline"]
        cand == jobs[j].artifact["candidate"]
    IN
    /\ StateOf(jobs[j].memory) = "evaluating"
    /\ base.inputs = cand.inputs /\ base.policy = cand.policy
    /\ base.policy = policy
    /\ base.pool = StablePool
    /\ cand.pool = Snapshot(jobs[j].memory)

\* Mutant of Judge: a pair that is no longer comparable waits for its release to return.
JudgeWaits(j) ==
    /\ Works(j) /\ jobs[j].phase = "judging"
    /\ Comparable(j)
    /\ \E verdict \in BOOLEAN :
          SetJob(j, [jobs[j] EXCEPT !.phase = "storing", !.verdict = verdict])
    /\ UNCHANGED <<items, run, policy, inputs, pending, crashes>>

\* The promotion gate passes or refuses the pair: module PromotionGates.
Judge(j) ==
    /\ Works(j) /\ jobs[j].phase = "judging"
    /\ IF Comparable(j)
       THEN /\ \E verdict \in BOOLEAN :
                  SetJob(j, [jobs[j] EXCEPT !.phase = "storing", !.verdict = verdict])
            /\ UNCHANGED items
       ELSE FailJob(j)
    /\ UNCHANGED <<run, policy, inputs, pending, crashes>>

Verdict(passed) == IF passed THEN "evaluated" ELSE "evaluation_failed"

Store(j) ==
    LET job == jobs[j]
        m   == job.memory
    IN
    /\ Works(j) /\ job.phase = "storing"
    /\ run' = [run EXCEPT ![m] = [passed |-> job.verdict,
                                  baseline |-> job.artifact["baseline"],
                                  candidate |-> job.artifact["candidate"]]]
    /\ SetState(m, Verdict(job.verdict))
    /\ SetJob(j, [job EXCEPT !.phase = "complete", !.alive = FALSE,
                     !.status = IF job.verdict THEN "passed" ELSE "failed"])
    /\ UNCHANGED <<policy, inputs, pending, crashes>>

\* A provider error, an incomplete evaluation, a store that cannot be read.
WorkerFails(j) ==
    /\ Works(j)
    /\ FailJob(j)
    /\ UNCHANGED <<run, policy, inputs, pending, crashes>>

\* The worker and its evaluation die; the job stays active.
Crash(j) ==
    /\ Works(j) /\ crashes < MaxCrashes
    /\ SetJob(j, [jobs[j] EXCEPT !.alive = FALSE, !.engine = NoPins, !.verdict = FALSE])
    /\ crashes' = crashes + 1
    /\ UNCHANGED <<items, run, policy, inputs, pending>>

\* The worker is started again by hand for a job that a crash left active.
Relaunch(j) ==
    /\ Active(j) /\ ~Works(j)
    /\ SetJob(j, [jobs[j] EXCEPT !.alive = TRUE, !.status = "running", !.phase = "preparing"])
    /\ UNCHANGED <<items, run, policy, inputs, pending, crashes>>

(***************************************************************************)
(* Activation and rollback.                                                *)
(***************************************************************************)
\* Mutant of Activatable: the release inputs are compared when the run is stored only.
ActivatableRun(m) == StateOf(m) = "evaluated" /\ run[m].passed

\* activate_memory: the latest evaluation passed, and it is about what is served now.
Activatable(m) ==
    /\ StateOf(m) = "evaluated"
    /\ run[m].passed
    /\ run[m].baseline = CurrentPins
    /\ run[m].candidate = Pinned(Snapshot(m))

CheckActivation(o, m) ==
    /\ Idle(o)
    /\ Activatable(m)
    /\ Write(o, "activate", m, NoPins)
    /\ UNCHANGED <<items, jobs, run, policy, inputs, crashes>>

Activate(o) ==
    /\ pending[o].op = "activate"
    /\ SetState(pending[o].memory, "stable")
    /\ Done(o)
    /\ UNCHANGED <<jobs, run, policy, inputs, crashes>>

CheckRollback(o, m) ==
    /\ Idle(o)
    /\ StateOf(m) = "stable"
    /\ Write(o, "rollback", m, NoPins)
    /\ UNCHANGED <<items, jobs, run, policy, inputs, crashes>>

Rollback(o) ==
    /\ pending[o].op = "rollback"
    /\ SetState(pending[o].memory, "retired")
    /\ Done(o)
    /\ UNCHANGED <<jobs, run, policy, inputs, crashes>>

\* A release or a rollback of the active Policy, and a rebuild of an index.
PolicyMoves ==
    /\ policy + inputs < MaxMoves
    /\ policy' = policy + 1
    /\ UNCHANGED <<items, jobs, run, inputs, pending, crashes>>

InputsMove ==
    /\ policy + inputs < MaxMoves
    /\ inputs' = inputs + 1
    /\ UNCHANGED <<items, jobs, run, policy, pending, crashes>>

(***************************************************************************)
(* The specification.                                                      *)
(***************************************************************************)
Operate(o) ==
    \/ Approve(o) \/ StartEvaluation(o) \/ Activate(o) \/ Rollback(o)
    \/ \E m \in Ids :
          \/ \E r \in Rules : Edit(o, m, r)
          \/ Reject(o, m)
          \/ \E base \in {NoPins, CurrentPins} : CheckEvaluation(o, m, base)
          \/ CheckActivation(o, m) \/ CheckRollback(o, m)

Work(j) == BeginSide(j) \/ EndSide(j) \/ Judge(j) \/ Store(j)

Next ==
    \/ \E m \in Ids : AddCandidate(m)
    \/ \E o \in Operators : Operate(o)
    \/ \E j \in DOMAIN jobs : Work(j) \/ WorkerFails(j) \/ Crash(j) \/ Relaunch(j)
    \/ PolicyMoves \/ InputsMove

Spec == Init /\ [][Next]_vars

\* A worker that lives ends its job: each of its steps is bounded by the budget of an
\* evaluation.  Nothing makes an operator act.
FairSpec == Spec /\ \A j \in 1..MaxJobs : WF_vars(j \in DOMAIN jobs /\ Work(j))

(***************************************************************************)
(* Properties.                                                             *)
(***************************************************************************)
\* Types of the rows, the jobs and the pending writes.
TypeOK ==
    /\ items \in [Ids -> ItemType]
    /\ jobs \in Seq(JobType) /\ Len(jobs) <= MaxJobs
    /\ run \in [Ids -> RunType \cup {NoRun}]
    /\ policy \in 0..MaxMoves /\ inputs \in 0..MaxMoves
    /\ pending \in [Operators -> [op : {"none", "approve", "evaluate", "activate", "rollback"},
                                  memory : Ids \cup {NoId},
                                  baseline : Pins \cup {NoPins}]]
    /\ crashes \in 0..MaxCrashes

\* The rules that are served after an activation are those the candidate was evaluated with,
\* in a run that passed: whatever was activated, rolled back or edited while it ran.
PoolWasEvaluated ==
    [][\A m \in Ids :
          StateOf(m) # "stable" /\ items'[m].state = "stable" =>
             /\ run[m].passed
             /\ RulesIn(run[m].candidate.pool) = RulesIn(StablePool')]_vars

\* A row is being evaluated exactly while it has a job that is not over: no error leaves a
\* row that can neither be evaluated again nor activated.
EvaluationHasAJob ==
    \A m \in Ids :
        Cardinality(ActiveJobs(m)) = (IF StateOf(m) = "evaluating" THEN 1 ELSE 0)

\* A row that is being evaluated leaves that state unless the worker of its job is dead.
EvaluationSettles ==
    \A m \in Ids :
        StateOf(m) = "evaluating" ~>
            (StateOf(m) # "evaluating" \/ \E j \in ActiveJobs(m) : ~Works(j))
=============================================================================
