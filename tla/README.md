# EvoSQL in TLA+

EvoSQL (`src/evoagent`) answers questions about a geological database. A
question becomes a run of a small graph of agents (lead, workers, SQL pipeline,
critic) that produces one safe SQL statement, executes it and explains the
result; the policies that shape those agents evolve through offline evaluation,
a shadow release, a canary and human approval. Everything durable lives in
SQLite files that web threads, command line tools and batch scripts open at the
same time, each with a connection of its own (WAL, 5 s busy timeout). What is
hard in this program is therefore not one algorithm but what concurrent
processes do to shared tables between the transactions of one operation.

## Inventory

| component | state it keeps | operations | interacts with | what is hard |
|---|---|---|---|---|
| Checkpoint store and node runtime (`text2sql/checkpoint_store.py`, `runtime.py`) | a run row (identity, owner token, lease, ledger, result) and a row per node | acquire, load, save, complete, fail; the node loop with retries and aborts | driven by the agent engine, one run per `task_id` and lane | leases that expire under a live owner, takeover, checks made outside the transaction, crash between commits |
| Policy release (`text2sql/shadow.py`, policy versions of `text2sql/evolution.py`) | policies, deployments, observations, audit, the active version | propose, evaluate, configure, assign, observe, review, approve, canary, activate, roll back | every query asks for an assignment; operators use the CLI | observations that arrive late, duplicate tasks, drifted versions, check then write |
| Query service (`text2sql/web_service.py`, `query_attempts` of `evolution.py`) | attempts, messages, traces | prepare, run, remember, finish | wraps release and checkpoint store | duplicate requests, retry after a crash, best-effort writes |
| Question-SQL (`web_service.py`, `evolution.py`, the registry file and the index) | verdicts, review rows, registry, index | feedback, confirm, revoke | traces feed it, retrieval reads it | four stores that no transaction covers |
| Agent engine (`text2sql/agentic.py`) | the state of one run | eleven nodes, one revision round, one repair, gates, critic | nodes are committed by the runtime | resuming in the middle, budgets, never executing a rejected statement |
| Runtime Memory (`memory_release.py`, `memory_service.py`, `evolution.py`) | rules, evaluation jobs, their worker processes and files | review, evaluate, activate, roll back | its pool is read by every role, its gate is the Memory gate | what was evaluated is no longer what is served; workers that die |
| Offline evaluation runs (`scripts/run_text2sql_evaluation.py`, `benchmark.py`) | a checkpoint file, an artifact, the answers of a run | start, resume, seed, run the cases, finish | feeds both gates | kills inside a write, budgets, a release that moves |
| Experiences, semantic rules, compiled Policies (`semantic_rules.py`, `auto_evolution.py`, `policy*.py`, `evolution.py`) | Experiences, rules, Policies, replay and evaluation results | confirm, word, compile, replay, evaluate, activate, roll back | traces feed it, release and prompt read it | evidence read before an LLM call and used after it; commands killed and repeated |
| Evaluation outcomes and gates (`evaluation.py`, the gates of `evolution.py`) | reports | classify, aggregate, judge | their verdicts enter release and Runtime Memory | rates, empty groups, what a better total hides |
| Extraction and target replay (`memory_service.py`, `target_replay.py`, `auto_evolution.py`) | Experiences, replay artifacts | extract, admit, replay, compare | from the engine's trace to a Policy | lanes that fail, indexes that move between two lanes |
| Review of the dataset (`dataset_review.py`, `evaluation.py`, the review and build scripts) | a hash-chained log, a certificate, a manifest | attest, finalize, verify, rebuild | the gates ask for it | several reviewers, a certificate that outlives its dataset |
| Query plan, contracts, outcome (`query_plan.py`, `contracts.py`, `query_outcome.py`) | none | parse, validate, bind | used by the engine | boundaries of validation |
| SQL safety and execution (`sql_safety.py`, `sqlite_database.py`, `database_tools.py`) | none | inspect, limit, execute read-only | gates of the engine | completeness of the checks |
| Schema and retrieval (`schema_catalog.py`, `schema_linking.py`, `vanna_*.py`, `business_documents.py`) | index files | build, search | evidence of the workers | data quality |
| Attribution, role loop, API, auth, configuration, clients (`memory_attribution.py`, `bounded_role.py`, `api.py`, `auth*.py`, `config.py`, `llm.py`, `web/app.js`, `scripts/`) | login sessions | request plumbing | everything | little protocol |

`PROJECT.json` lists the components with their status, and the hazards of the
code line by line with the properties that cover them.

## Modules

**CheckpointStore.tla** models one task as several callers run it. Variables:
`run` is the row of `text2sql_checkpoint_runs`, `ckpt` the rows of
`text2sql_runtime_checkpoints`, `call` the Python frame of each caller (its
program counter, token, restored state, attempt numbers and ledger), `answer`
what callers received, `now` the clock. `Call` reads the clock, `AcquireNew`,
`AcquireTakeover`, `AcquireBusy`, `AcquireRefused` and `AcquireCached` are the
outcomes of the `acquire` transaction, `Load` restores the completed prefix,
`Handler...` runs a node, `CheckPrevious` is the read `save_checkpoint` makes
before its transaction, `Commit...` the outcomes of that transaction,
`CheckComplete` and `Finish...` the same for `complete`, `Fail` the handler of
every exception, `Crash` the death of a process. An output is identified by the
session that computed it: two sessions never compute the same output, which is
the worst case for agreement. Hashes and JSON are equality; a payload nobody
tampers with always passes its digest, so the digest checks are left out.

**DurableRun.tla** is what the store promises: nodes become durable in graph
order and stay as they are, the result is published once and consists of them,
every answer is the published result. `CheckpointStore` implements it under the
mapping at the end of the module (`committed` is the output column, `published`
the result column).

**LeasedRun.tla** is what the row of a run looks like to whoever asks for it: one
identity for ever, one owner at a time, a result published once and by an owner.
It is the interface between two components: `CheckpointStore` implements it
(`ImplementsLeasedRun`), and `QueryService`, whose `runs` reduce the store to it,
keeps one for each lane (`RunsAreLeased`). So what `QueryService` assumes of a run
is not taken on trust: each of its steps on a run is one that the store's
specification has.

**ShadowRelease.tla** models the release of candidates. `policies`,
`deployments`, `observations` and `audit` are the tables, `active` the metadata
row, `query` the frame of each query, `operator` what a management command has
checked and not yet written. The code reads its guards in autocommit mode and
writes in a transaction that does not look again, so `approve_shadow`,
`start_canary`, `activate_policy` and the others are two actions each; a query
may act between them. `Insert` is one action because the code holds one
transaction over the observation, the counters and the transition
(the nested `with connection` commits only at the transition); the repeated
execution of a recorded task takes the other way, `Advance` then `SettleLater`,
which the code does without a transaction. Adjacent reads with nothing written
between them are one step. The four verdicts count as two (`candidate_better` as
`equivalent`, `stable_better` as `reject`), the P95 comparison is a free choice,
the hash bucket is the constant set `Sampled`, and all version pins and
identities together are one `env`.

**QueryService.tla** models the requests with one task id from
`prepare_query_attempt` to the response. `attempt`, `trace` (the immutable
revisions), `projection` (the row that shows the latest), `messages` and
`learned` (Experiences of `memory_items`) are tables of the evolution store,
`runs` the durable run of each lane, reduced to what `LeasedRun` promises (an
identity, an owner and a published result), `request` the Python frames. The
session and release a request finds are choices, and may differ from those of
the last. Every transaction is an action; between two of them another request, a
crash or, with `FaultyWrites`, a failing write may come. The error path of
`query` is modelled with its own trace and attempt update.

**QuestionSql.tla** models how an answered question becomes an example for
retrieval. `verdict` and `reviews` are the columns of `query_traces` and
`experience_reviews`, `registry` the JSON file, `index` the published index,
`lock` is `_VANNA_PUBLISH_LOCK`, `thread` the frames. `feedback`,
`feedback_experience`, `confirm_experience` and `revoke_confirmed_experience`
start an operation and continue it transaction by transaction, sharing the steps
that are the same code. A pair stands for both `experience_id` and
`evidence_id`, which are hashes of the same three values. SQL gates are left
out: a pair of the model passes them.

**AgentPipeline.tla** models what one run does between its first node and its
answer, over the state that the runtime commits node by node. Each action is a
node of `Text2SQLAgenticEngine.run` with the helpers it calls: routing, evidence,
workers, binding, assessment, revisions and approval, generation, gates with
their repair, Critic, selection, execution. Every answer of a model is a free
choice within the contract that the code enforces on it, and so are the binder's
conflicts, the faults of a SQL text and what the database explains. The output of
a worker is the number of its run, so that a bound or approved plan shows which
outputs it was made of. `shared` is the case of two delegations with one
`assignment_id`, which nothing rules out: `by_id` then leads both to one worker.
A node that raises changes nothing and is begun again, or ends the run, as
`CheckpointStore` has it. Left out are the turns inside a role, the content of
evidence packs and plans, and the alignment check of the Critic, which compares
two lists made together.

**RuntimeMemory.tla** models how an approved rule becomes one that every role
reads. `items` are the rows of `memory_items` that may be served, `jobs` the rows
of `memory_evaluation_jobs` each with its worker process and its two artifacts,
`run` the latest evaluation of a row, `policy` and `inputs` what an evaluation is
pinned to, `pending` the write an operator has checked and not yet made. `Operate`
is the check or the write of one management command, `Work` one step of a worker
(begin, either side ends, compare, settle), `WorkerFails`, `Crash` and `Relaunch`
its ways out. The store checks in one connection and writes in another
unconditionally, so check and write are two steps. `StablePool` is what a role
reads: of the stable rows with one rule, the first; `Snapshot` adds a candidate.

**EvaluationRun.tla** models one run of the evaluation script over its
append-only file: `file` is the checkpoint with its header and outcomes (and
whether the last record is whole), `artifact` the report next to it, `answers`
the runtime store of the run, `process` the frame of the script. `Start`, `Resume`
and `Seed` are its three ways in, `Submit`, `CaseEnds` and `Persist` a case in the
pool, `Drained`, `Finish` and `MarkComplete` the end, whose two writes a `Crash`
may separate. `ReleaseMoves` changes what the cases run with. `Spent` is what the
script's `usage` measures, with one call for an answer: a case that raised, or met
a broken provider, is recorded with an empty result and no calls.

**ExperienceLineage.tla** models the way from an Experience to a prompt. `exps`,
`rules` and `policies` are the tables, `decisions` the users' verdicts on the
source runs, `active` the metadata row, `inputs` the pins, `frame` what a process
holds while a model answers, an engine runs, or between the check and the write of
a store call. What is read before an LLM call (`StartRule`, `StartCompile`,
`AutoCompile`, `StartReplay`) is used by the step after it (`AddRule`,
`EndCompile`, `EndReplay`), as long after as one likes. The calls that move the
status of a Policy or the active one check in autocommit mode and write later,
unconditionally, with pins the command had found before: the migration, the
evaluation, the configuration of a deployment, both activations and the rollback
are two actions each (`StartActivation`, `EndActivation`, ...), and anybody may act
in between. The other calls only add a row or repeat their condition in the UPDATE,
and are one action; adjacent reads of one check are one step. A compilation refuses
a parent of the old contract, as the generator does; memories such a Policy still
names (`Inherited`) come from an older store. `raced` remembers that a replay was
recorded while an activation was between its check and its write, and the frame of
an activation has the verdicts there were at its check (`seen`): neither is in the
code, both serve `OnlyProvenIsActivated`. What a deployment goes through is in brief
(`ShadowMoves`); `ShadowRelease` has it.

**PromotionGates.tla** models what the evaluator makes of what the engine
returned (`Outcome`), the figures it declares, and both gates, which work the
figures out again. `outcomes` grow case by case in each of two runs, `EndRun`
closes one, `Judge` is the verdict. Cases that go alike are one weighted member,
rates are counts and are compared by cross-multiplication, so that "better by two
points" is exact. `Cards` sums weights; that it is the cardinality of the cases
is a lemma.

**Lessons.tla** models what a terminal run teaches: the trace that the stages of
a run leave (`PlanQuery`, `GenerateSql`, `AnswerQuery`), the Experiences `Extract`
takes from it, the same question put to the parent and to the candidate Policy
(`ReplayLessons`, `LaneFails`, `NextLane`, while `WorldMoves` may move data and
indexes), and the artifact of `CompareLanes`, which the store works out again.

**DatasetReview.tla** models the review commands: `log` is the hash-chained list
of verdicts (an event names the one before it), `draft` and `certificate` the
finalize command and what it leaves, `manifest` and `dataset` the files a rebuild
replaces one after the other, `reviews` the reviewers between reading the head and
writing their event.

**MCDecisions.tla** runs the last three in one run: they share no variable, and a
behaviour is one of one of them (`part`), the others standing still, so the state
space is the sum and not the product. **MCCheckpointStore.tla**,
**MCShadowRelease.tla**, **MCQueryService.tla**, **MCQuestionSql.tla**,
**MCRuntimeMemory.tla** and **MCExperienceLineage.tla** give TLC values, symmetry
sets and constraints; `AgentPipeline` and `EvaluationRun` need none. The eight
modules `...Proofs` hold the proofs; `EvaluationRunProofs` has those of
`DatasetReview` too, `ExperienceLineageProofs` those of `Lessons` and
`PromotionGates`.

## Runs

| run | instance | shows |
|---|---|---|
| `checkpoint` | 3 callers, 2 identities, 2 nodes, 1 retry, lease of 2 ticks, clock to 2, 1 fault, fair | concurrency, takeover, crash and fencing lose and overwrite nothing, no corruption check fires, the ledger continues, the store implements `DurableRun` and `LeasedRun`, and every caller gets an answer or a refusal |
| `release` | 3 policies (one compiled), 2 deployments, a sampled and an unsampled task, 2 environments, 2 queries, 1 operator | counters, transitions, clearance and activation under concurrent queries, crashes and versions that move; releases that supersede, follow and roll back each other |
| `late_failure_of_active` | 2 sampled tasks, 1 environment | *violated*: a late canary failure leaves a rejected policy active |
| `query_service` | 3 requests, 2 releases, 2 sessions, failing writes | duplicates, retries and crashes agree on answer and context, repeat no side effect, and lose no evidence; when a write fails and the release moves, the answer stays and the retry is accepted |
| `question_sql` | 2 threads, 2 tasks of one pair, one of them a shadow run, 2 pairs, errors | only judged production pairs are retrieved, and the index is never built from an old registry |
| `agent_pipeline` | 3 candidates a generation, any answers | only SQL that every gate and the Critic passed is executed, a plan is approved as it was last bound, a question stops the run, and nothing that all passed is refused |
| `runtime_memory` | 1 operator, 2 rows of one rule (an edit may tell them apart), 2 jobs, 1 move, 1 crash, fair workers | what is served was evaluated in the pool it is served in, a row in evaluation has a job, and it does not stay there |
| `evaluation_run` | 2 cases, 2 files, 1 or 2 workers, no budget or one call, 1 move (1 276 581 states) | an artifact that says it is complete is whole and of one release, the measured calls exceed the budget by the cases in flight at most, an outcome is never replaced |
| `evolution_lineage` | 1 Experience, a store of the old contract with 2 inherited memories, 2 skills, 3 policies, the automatic command and 1 person, 1 verdict, 1 move, 1 Policy by hand (1 310 850 states) | what a Policy names as its sources are those of its prompts, over proposals, compilations and the migration; a repeated command proposes no twin; what becomes active was proven when its activation checked |
| `decisions` | 240 cases in 5 weighted members, 2 things out of the way; 1 worker, 2 statements, 2 worlds; 2 cases, 2 reviewers, 3 events, 1 rebuild | no gate passes a hidden loss or a report it should not, lessons can be replayed, a passed replay shows the lesson, a reviewed dataset is approved case by case |
| `reviewed_dataset` | the gates of `decisions` | *violated*: no Policy passes with the reviewed dataset of the repository |
| `replay_baseline` | the lessons of `decisions` | *violated*: a replay passes whose parent lane never ran |

*Bounds.* Three callers are enough for one owner, one that takes over and one
that is refused or waits; two nodes for a prefix and a rest; the lease expires
at `MaxTime`. `MaxFaults` bounds errors, crashes and rejected writes together.
There is no symmetry set in `checkpoint`, because a liveness property is checked.
The release needs no bound: a task counts once per lane, so samples are bounded
by the tasks. Two queries reach every race on one observation. `release` has a
constraint (`Explored`): two concurrent queries are explored under one release
while versions move, and two releases under one query at a time; the theorems
below are without it. Three requests of one task are one that runs, one that takes
over and one that is refused or late; the third joins (`Explored`) only where
nobody is dead or failing, the user message is kept and the identities are equal,
which is where its turn decides anything. Two threads with two pairs reach every
order of a confirmation, a revocation and a verdict around the lock; two tasks
with one pair are the case of a shared row. Three candidates, where the code
allows four, are enough for the Lead to have a choice of two and take the third.
Two rows of memory are one that is evaluated and one that is activated or rolled
back meanwhile; two jobs are one that dies and its successor. Two evaluation
files are one and the one it seeds. Three Policies are the Policy of
the old contract, the migrated one and what is compiled on it, or what a person
writes before the migration, next to the migration itself; the two inherited
memories are one of the role that is compiled and one of the other. `ByHand` and
`MaxByHand` bound what people write, `MaxPolicies` all rows: with three, no Policy is
compiled on a compiled one, which is what the inherited memories stand for, and a
twin is refuted when its compilation begins. With one person, verdicts, reviews,
moves, deployments and the automatic migration come between the check and the write
of an activation, but no second activation and no replay does. The theorems are without these bounds. The weighted members make the gate
thresholds (two points of a rate, five of a small group) cut between whole cases,
as they do in the dataset; two results out of the way are one that helps and one
that hides behind it.

*Deadlock.* `CHECK_DEADLOCK FALSE` where the system may really stop: all callers
are served, a run has its answer, moves and jobs are used up. In `release` and
`question_sql` something can always begin, and TLC checks it.

*Fairness.* `FairSpec` of `CheckpointStore` asks that time passes (`Tick`) and
that a live process keeps executing (`WF(Step(c))`), which includes that an
unanswered caller asks again. `FairSpec` of `RuntimeMemory` asks that a worker
process that lives goes on (`WF(Work(j))`). Nothing obliges a process to crash,
and faults are finite. All other runs check safety, and assume no fairness.

## Findings

The violated runs are disagreements between the code and its documents;
`PROJECT.json` quotes them.

- `late_failure_of_active`: `_advance_or_rollback` (`shadow.py:631`) updates a
  deployment by its id whatever its status has become.
- `reviewed_dataset`: the Policy gate (`evolution.py:725`) compares numbers of the
  whole dataset with the cases of two of its three splits.
- `replay_baseline`: `_problem_present` (`target_replay.py:351`) takes a lane that
  raised for one that shows the problem.

The models reproduce more than the runs report; a reader of the code may want to
know of:

- *release*: a release rolled back between the check and the write of
  `approve_shadow` comes back as `shadow_passed`; a shadow query in flight leaves
  a difference without verdict; a rollback may lead to a policy that a late query
  has marked `shadow_rejected`. Two operators at once can leave two approved
  policies, or a verdict after the approval;
- *query service*: a duplicate request refused as busy turns a completed attempt
  back to `error`; a replayed answer is reported as degraded memory, because the
  identity of an Experience does not contain the trace revision that its row is
  compared by;
- *Question-SQL*: the verdict "incorrect" reaches neither registry nor index; a
  correction given in the session is recorded before the verdict that rejects it;
  the review row belongs to the first task with its question and SQL, so the
  confirmation of the second is refused; a revocation whose build failed cannot be
  repeated;
- *engine*: delegations that share an `assignment_id` make one worker run up to
  three times, which `README.md:28` of the repository excludes, and lose the
  result of the other;
- *evaluation*: the calls of a case that failed are recorded as 0, so that no budget
  bounds them and a resumed process starts without them; a record written in part
  makes the file refuse every resume; both gates refuse two kinds of row that the
  evaluator itself writes (a clarification, and a case whose pins moved);
- *evolution*: what comes in between the check and the write of an activation
  (feedback on a source run, a replay that fails, a publication, another
  activation) is missed by it, and several Policies can then be `approved`; the
  active one can turn `shadow_rejected`; two automatic commands at once may propose
  two Policies; two operators of Runtime Memory may serve a pool that was never
  evaluated together;
- *dataset review*: two reviewers who name the same head break `verify_chain`.

## Proved

Every theorem holds for any values of the constants that satisfy the module's
named assumption (`ConstantsAssumption`, `ReleaseAssumption`, `QueryAssumption`,
`QuestionSqlAssumption`, `AgentPipelineAssumption` and `NothingAssumption`,
`RuntimeMemoryAssumption`, `EvaluationRunAssumption`, `LineageAssumption`,
`LessonAssumption`, `GateAssumption`, `EngineAssumption`, `DatasetAssumption`),
which TLC evaluates in the runs: any number of processes, tasks, cases or nodes,
any bound. Most of them say that model values are different from each other. Three
say something of the program: `EngineAssumption`, that what the engine calls a
success parsed and was without errors (its gates have made sure), and that what
its parser objects to the evaluator's parser objects to as well;
`DatasetAssumption`, that the dataset has 240 cases and some of each split
(`load_dataset` refuses any other); `ReleaseAssumption`, that minimal samples are
positive and thresholds are percentages, as `configure_shadow` checks.

In each module the properties are not inductive as they stand; what `Inv` adds,
and why, is the heart of the argument. There is one lemma per action, and the
action properties and refinements follow step by step from `Inv`.

**CheckpointStoreProofs.** The properties say nothing about what a session holds
in memory when it has lost its lease. `Inv` adds that owner tokens are not shared
(`TokenInv`), that a row with an owner is running, and one without an identity
does not exist (`RowInv`), that the completed nodes are the prefix with outputs
(`NodeInv`), and for each session (`Session`) that what it restored or committed
is still what the store holds, whoever owns the lease now, and that while it owns
the row nobody has touched the nodes it still has to do. `NoTakeoverOfALiveLease`
needs besides that nobody has read a clock ahead of time (`ClockInv`), and
`ProgressIsKept` that the owner's ledger is not behind the row's (`LedgerInv`).
Both refinements, `ImplementsDurableRun` and `ImplementsLeasedRun`, are proved.

**QueryServiceProofs.** `RowsOK` and `FramesOK` say what a request may rely on
between two transactions: the results it holds are those of their lane's run
(`Durable`), the attempt it works on has its identity, and where it is about to
answer without having been degraded, the trace and the Experience of its answer
are stored. The runs of the task have the identity of the attempt, and none is
owned and finished (`RunsOK`). What the store never takes back (`StoreGrows`)
carries the frames of the other requests over a step. `LanesAreLeased` proves that every step
on a lane's run is one of `LeasedRun`, with `ContextOK` (who has begun a run has
found an attempt with a real context). It is the one refinement TLC does not
check: it cannot evaluate an instance with a parameter as a property.

**QuestionSqlProofs.** No transaction takes back that a row came from a run that
may teach and was judged (`Grows`, `VettedGrows`), so what a thread has read of a
row still holds when it acts on it (`FramesOK`), however many transactions later;
registry and index have only pairs of such rows (`FilesOK`); and who collects or
builds holds the lock, and builds from the registry as it is (`LockOK`).

**AgentPipelineProofs.** The properties speak of the end of a chain of nodes;
`Inv` adds what each node finds when it begins: `Routed` (a route that needs a
parent has one or is an error), `Planned` (up to the approval the workers have
run once, the binding is of those runs, and every worker in conflict is asked for
a revision), `Fresh` (the outputs of later nodes are still empty, which is what a
clarification must preserve) and `Generated` (accepted candidates were
generated). `RejectionHasACause` needs `Fitting` besides: what the Critic is shown
passes every gate of the approved plan, what can be selected is among it, and the
only one that can be selected is. One lemma per node; the revision node splits by whether it was blocked, had requests, and ended
in a question.

**ShadowReleaseProofs**, under `OneOperator`. The code does not serialise
operators, and two of them break the properties as the list above says, so the
theorems are about one operator with any number of queries, policies, deployments
and tasks. `Inv` says that a deployment has the evaluation, samples, approval and
verdicts for what it has passed (`RowsOK`), a candidate is released once and one
release is unfinished (`Exclusive`), only the active policy can be an approved one
and its activation is in the audit (`PoliciesOK`), the counters of a deployment are
the cardinalities of its observations (`CountsOK`), the canary lane begins after
the shadow is over (`LanesOK`), what a query holds is still true of the tables
(`QueriesOK`), and what an operator has checked is still true as far as queries
leave it alone: they roll back, and do nothing else to a release (`OperatorsOK`).

**RuntimeMemoryProofs**, under `OneOperator` for the same reason. `JobsOK` says
that a row in evaluation has one active job, that the row of an active job is in
evaluation, and that a worker has the artifacts its phase needs; `WritesOK`, that
what an operator has checked stays so until it writes, whatever workers do in
between. The rules of the pool are those of the stable rows, whichever of two rows
with one rule is served (`LeastElement`, `PoolHasTheStableRules`).

**EvaluationRunProofs.** `Inv`: the outcomes of a file, and those the process may
still append, are one a case and of the release in its header (`OfOneRun`,
`FileOK`, `ProcessOK`), an artifact repeats its file (`ArtifactOK`), and what the
process has measured, with the cases it has in hand, is within its budget
(`LoadOK`). Completeness is counting:
without a case that has two outcomes, as many outcomes as cases are one each. For
`DatasetReview`, `ReviewInv` says that what finalize saw of the log up to its head
stays chained and covers every case (`DraftOK`), and that a certificate attests,
of each case, an approving event with none later up to that head
(`CertificateOK`), however many verdicts come in meanwhile.

**ExperienceLineageProofs.** An activation looks at the rules of a Policy, not at
its Experiences; that these are confirmed follows from the whole way to it. What it
has checked may go stale before its write; the theorem says what of it cannot.
`RowsOK` says that what a row refers to exists and is confirmed, and `FrameOK` the
same of what a process holds, with `Checked`, what is left at its write of what an
activation has checked: a confirmed rule stays so, verdicts only grow
(`EvidenceGrows`), and no row changes where it comes from (`KeepsOrigin`) or loses
a replay without being marked (`KeepsReplay`); so the frames of all processes
survive every step (`FrameKept`, `StoreMoves`). `NoTwin` is `RetryMakesNoTwin`
without counting, extended to the compile under way. `PromptsHaveTheirSources` is
about a function defined by itself; `LineageOK` has that there is one, and the rest
of any that meets its definition. For `Lessons`, `LessonInv`: what a trace and each kind of Experience say of the run,
that what was extracted is present in its trace (`Usable`), and what a passed
artifact says of its two lanes (`ReplayOK`). For `PromotionGates`, `GateInv` and `MeritInv`:
the outcomes are of the cases in their order and the classifications of what the
engine returned (`Recorded`), the review is counted, and the verdict's reasons
are complete. The weights need lemmas of their own: `Cards` is the cardinality of
the weighted cases, and adds over disjoint parts.

*Only model-checked.* The liveness of two runs (`EveryCallerIsServed`,
`EvaluationSettles`), which needs fairness and `ENABLED`, and the three violated
properties. Every other property of a run is stated by a theorem.

## Plan

Left to prove: an abstract specification of a release (one candidate at a time is
cleared, decided, and activated) that `ShadowRelease` implements, and one of an
evaluation with its artifact for `EvaluationRun`. Left to model: the turns inside
a role, and query plans as operators against a reference definition.

## Not modelled

See the components with status `not_modelled` in `PROJECT.json`: pure data
transformations (query plans, SQL analysis, schema linking, retrieval,
attribution), presentation, and request plumbing. Left out of modelled parts are:
the turns inside a role and the content of evidence packs; digests of payloads,
which are equality here; the hash bucket of an assignment, a constant set; the
P95 comparison, a choice; the wording of everything a model writes, a member of a
small set; and two operators at once in the release and in Runtime Memory, which
the code does not serialise.
