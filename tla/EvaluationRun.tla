----------------------------- MODULE EvaluationRun -----------------------------
(***************************************************************************)
(* One offline evaluation: run_text2sql_evaluation.py over the append-only  *)
(* checkpoint of benchmark.py.                                              *)
(*                                                                         *)
(* A process runs the cases of a dataset in a pool of workers, appends each *)
(* outcome to a checkpoint file and writes an artifact at the end.  It may   *)
(* die at any point, be stopped by its budget or by the provider of the     *)
(* model, and be started again: with --resume in the same file, or with      *)
(* --resume-from in a new one that takes over the clean outcomes.  What the  *)
(* cases run with (Policy, Memory, indexes, model) may move in between.      *)
(***************************************************************************)
EXTENDS Integers, FiniteSets, FiniteSetsExt

CONSTANTS
    Cases,      \* case ids, in the order of the dataset
    Files,      \* checkpoint files, each with its artifact and its run id
    Workers,    \* the values of --workers
    Budgets,    \* --max-llm-calls, where an answer takes one call; 0 is no budget
    MaxMoves,   \* bound of the moves of the release
    NoFile

ASSUME EvaluationRunAssumption ==
    /\ Cases \subseteq Nat /\ IsFiniteSet(Cases)
    /\ Workers \subseteq Nat \ {0} /\ Budgets \subseteq Nat /\ MaxMoves \in Nat
    /\ NoFile \notin Files

VARIABLES
    release,   \* the identity an evaluation would run with now
    file,      \* the checkpoint files
    artifact,  \* the artifact next to each file
    answers,   \* file -> case -> the response in the runtime checkpoint store of the run
    process    \* the evaluation that runs

vars == <<release, file, artifact, answers, process>>

Releases == 0..MaxMoves

\* What a case comes to: an answer, right or wrong; the marks of a provider that broke down
\* or that refuses for good, in a response; an exception of the engine.
Results == {"answered", "transient", "fatal", "raised"}

\* A recorded outcome, with what it was computed with.
OutcomeType == [case : Cases, result : Results, release : Releases]

FileType ==
    [state : {"absent", "open", "complete", "torn"},
     identity : Releases, outcomes : SUBSET OutcomeType]

ProcessType ==
    [pc : {"idle", "seeding", "running", "draining", "marking"},
     file : Files \cup {NoFile},
     release : Releases,             \* what its engine is built with
     workers : Workers \cup {0}, budget : Budgets \cup {0},
     found : 0..Cardinality(Cases),  \* the calls in the outcomes it was given to begin with
     seeds : SUBSET OutcomeType,     \* of --resume-from, still to be copied
     outcomes : SUBSET OutcomeType,  \* its list of outcomes, which the report sorts by case
     inFlight : SUBSET Cases,        \* submitted to the pool
     ended : SUBSET OutcomeType]     \* futures that are done

Absent == [state |-> "absent", identity |-> 0, outcomes |-> {}]

Idle ==
    [pc |-> "idle", file |-> NoFile, release |-> 0, workers |-> 0, budget |-> 0,
     found |-> 0, seeds |-> {}, outcomes |-> {},
     inFlight |-> {}, ended |-> {}]

NoArtifact == [status |-> "none", identity |-> 0, outcomes |-> {}]

Init ==
    /\ release = 0
    /\ file = [f \in Files |-> Absent]
    /\ artifact = [f \in Files |-> NoArtifact]
    /\ answers = [f \in Files |-> [c \in Cases |-> "none"]]
    /\ process = Idle

At(pc) == process.pc = pc

CasesOf(outcomes) == {o.case : o \in outcomes}

Clean(o) == o.result = "answered"

\* usage: a case that raised, the provider's marks being raised too, is recorded with an
\* empty result and no calls, whatever it has used.
Spent(outcomes) == {o \in outcomes : Clean(o)}

(***************************************************************************)
(* The start of a process.                                                 *)
(***************************************************************************)
Run(pc, f, seeds, outcomes) ==
    \E workers \in Workers, budget \in Budgets :
        process' = [Idle EXCEPT !.pc = pc, !.file = f, !.release = release,
                       !.workers = workers, !.budget = budget,
                       !.found = Cardinality(Spent(seeds \cup outcomes)),
                       !.seeds = seeds, !.outcomes = outcomes]

\* start: a header that names the run and all that the outcomes depend on.
Header(f) == file' = [file EXCEPT ![f] = [Absent EXCEPT !.state = "open", !.identity = release]]

Start(f) ==
    /\ At("idle") /\ file[f].state = "absent"
    /\ Header(f)
    /\ Run("running", f, {}, {})
    /\ UNCHANGED <<release, artifact, answers>>

\* Mutant of Resumable: the header is not compared with what the process runs with.
ResumableAnywhere(f) == file[f].state = "open"

\* start with --resume: the file is whole and not complete, and of the same identity.
Resumable(f) == file[f].state = "open" /\ file[f].identity = release

Resume(f) ==
    /\ At("idle") /\ Resumable(f)
    /\ Run("running", f, {}, file[f].outcomes)
    /\ UNCHANGED <<release, file, artifact, answers>>

\* --resume-from: a new file takes the outcomes of another one that no provider or framework
\* error has touched.
Seed(f, source) ==
    /\ At("idle") /\ file[f].state = "absent"
    /\ file[source].state \in {"open", "complete"} /\ file[source].identity = release
    /\ Header(f)
    /\ Run("seeding", f, Spent(file[source].outcomes), {})
    /\ UNCHANGED <<release, artifact, answers>>

Record(f, o) == file' = [file EXCEPT ![f].outcomes = @ \cup {o}]

CopySeed ==
    /\ At("seeding")
    /\ \/ /\ process.seeds = {}
          /\ process' = [process EXCEPT !.pc = "running"]
          /\ UNCHANGED file
       \/ \E o \in process.seeds :
             /\ Record(process.file, o)
             /\ process' = [process EXCEPT !.seeds = @ \ {o}, !.outcomes = @ \cup {o}]
    /\ UNCHANGED <<release, artifact, answers>>

(***************************************************************************)
(* The cases.                                                              *)
(***************************************************************************)
\* Mutant of Continues: what is spent is what this process has spent.
ContinuesAfresh ==
    \/ process.budget = 0
    \/ Cardinality(Spent(process.outcomes)) - process.found < process.budget

\* should_continue: the calls of the outcomes that are there, not of the cases in flight.
Continues ==
    process.budget = 0 \/ Cardinality(Spent(process.outcomes)) < process.budget

Remaining ==
    Cases \ (CasesOf(process.outcomes) \cup process.inFlight \cup {o.case : o \in process.ended})

\* fill_slots, and the loop of evaluate when there is one worker.
Submit(c) ==
    /\ At("running")
    /\ Cardinality(process.inFlight) + Cardinality(process.ended) < process.workers
    /\ Continues
    /\ c \in Remaining /\ \A d \in Remaining : c <= d
    /\ process' = [process EXCEPT !.inFlight = @ \cup {c}]
    /\ UNCHANGED <<release, file, artifact, answers>>

\* run_case: a run that was published before answers what it did then; an exception leaves
\* nothing behind.
CaseEnds(c, result) ==
    LET known == answers[process.file][c]
    IN
    /\ At("running") \/ At("draining")
    /\ c \in process.inFlight
    /\ known # "none" => result = known
    /\ answers' = [answers EXCEPT ![process.file][c] = IF result = "raised" THEN @ ELSE result]
    /\ process' = [process EXCEPT !.inFlight = @ \ {c},
                      !.ended = @ \cup {[case |-> c, result |-> result,
                                         release |-> process.release]}]
    /\ UNCHANGED <<release, file, artifact>>

\* Mutant of Persist: a case that the provider refused is skipped, not the rest.
PersistOrSkip(o) ==
    /\ At("running") /\ o \in process.ended
    /\ IF o.result = "fatal" THEN UNCHANGED file ELSE Record(process.file, o)
    /\ process' = [process EXCEPT !.ended = @ \ {o}, !.outcomes = @ \cup {o}]
    /\ UNCHANGED <<release, artifact, answers>>

\* persist_outcome: a provider that refuses for good ends the process, which drops what its
\* other workers are at; anything else is appended once, an infrastructure error too.
Persist(o) ==
    /\ At("running") /\ o \in process.ended
    /\ IF o.result = "fatal" \/ o.case \in CasesOf(file[process.file].outcomes)
       THEN process' = [process EXCEPT !.pc = "draining"] /\ UNCHANGED file
       ELSE /\ Record(process.file, o)
            /\ process' = [process EXCEPT !.ended = @ \ {o}, !.outcomes = @ \cup {o}]
    /\ UNCHANGED <<release, artifact, answers>>

\* Leaving the pool waits for its threads.
Drained ==
    /\ At("draining") /\ process.inFlight = {}
    /\ process' = Idle
    /\ UNCHANGED <<release, file, artifact, answers>>

(***************************************************************************)
(* The artifact.                                                           *)
(***************************************************************************)
Status(outcomes) ==
    IF Cardinality(outcomes) # Cardinality(Cases) THEN "incomplete_budget_reached"
    ELSE IF \E o \in outcomes : ~Clean(o) THEN "incomplete_infrastructure_error"
    ELSE "complete"

\* The artifact is written whether the evaluation is complete or not, and only then marked.
Finish ==
    LET status == Status(process.outcomes)
    IN
    /\ At("running")
    /\ process.inFlight = {} /\ process.ended = {}
    /\ Remaining = {} \/ ~Continues
    /\ artifact' = [artifact EXCEPT ![process.file] =
          [status |-> status, identity |-> process.release, outcomes |-> process.outcomes]]
    /\ process' = IF status = "complete" THEN [process EXCEPT !.pc = "marking"] ELSE Idle
    /\ UNCHANGED <<release, file, answers>>

MarkComplete ==
    /\ At("marking")
    /\ file' = [file EXCEPT ![process.file].state = "complete"]
    /\ process' = Idle
    /\ UNCHANGED <<release, artifact, answers>>

(***************************************************************************)
(* Errors, crashes and the world outside.                                  *)
(***************************************************************************)
\* The process dies; a record it was writing may be left in part.
Crash ==
    /\ ~At("idle")
    /\ \/ UNCHANGED file
       \/ file' = [file EXCEPT ![process.file].state = "torn"]
    /\ process' = Idle
    /\ UNCHANGED <<release, artifact, answers>>

\* A release, an activation of Memory or a new index.
ReleaseMoves ==
    /\ release < MaxMoves
    /\ release' = release + 1
    /\ UNCHANGED <<file, artifact, answers, process>>

Next ==
    \/ \E f \in Files : Start(f) \/ Resume(f) \/ \E s \in Files : Seed(f, s)
    \/ CopySeed
    \/ \E c \in Cases : Submit(c) \/ \E result \in Results : CaseEnds(c, result)
    \/ \E o \in process.ended : Persist(o)
    \/ Drained \/ Finish \/ MarkComplete
    \/ Crash \/ ReleaseMoves

Spec == Init /\ [][Next]_vars

(***************************************************************************)
(* Properties.                                                             *)
(***************************************************************************)
\* Types of the files, the artifacts and the process.
TypeOK ==
    /\ release \in Releases
    /\ file \in [Files -> FileType]
    /\ answers \in [Files -> [Cases -> Results \cup {"none"}]]
    /\ process \in ProcessType
    /\ artifact \in [Files -> [status : {"none", "complete", "incomplete_budget_reached",
                                         "incomplete_infrastructure_error"},
                               identity : Releases, outcomes : SUBSET OutcomeType]]

\* A complete artifact holds one outcome of every case, each computed with the release the
\* artifact names and none the work of a broken provider, however many processes, crashes,
\* resumed files and seeds it took.
ArtifactIsSound ==
    \A f \in Files : artifact[f].status = "complete" =>
        LET outcomes == artifact[f].outcomes
        IN
        /\ Cardinality(outcomes) = Cardinality(Cases) /\ CasesOf(outcomes) = Cases
        /\ \A o \in outcomes : Clean(o) /\ o.release = artifact[f].identity

\* The calls a run measures exceed the budget only by those of the cases that were in flight
\* when it was reached, over all the processes of the run: what the artifact reports as its
\* usage ("between_completed_cases_with_in_flight_overshoot").  The calls of cases that failed
\* are in no measure, and no budget bounds them.
BudgetHolds ==
    At("running") /\ process.budget # 0 =>
        Cardinality(Spent(process.outcomes))
          <= Max({process.found, process.budget + process.workers - 1})

\* A case that has an outcome in its checkpoint keeps it: no process of the run appends
\* another one, and an artifact repeats what the checkpoint says.
OutcomesAreFinal ==
    \A f \in Files :
        /\ Cardinality(CasesOf(file[f].outcomes)) = Cardinality(file[f].outcomes)
        /\ artifact[f].outcomes \subseteq file[f].outcomes
=============================================================================
