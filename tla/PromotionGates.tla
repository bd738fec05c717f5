---------------------------- MODULE PromotionGates ----------------------------
(* From the runs of a baseline and a candidate over the evaluation dataset to
   the verdict of the two offline gates: what the evaluator makes of what the
   engine returned for a case (evaluation.py), and how the Policy gate and the
   Memory gate judge a pair of reports (evolution.py).

   A member stands for `weight` cases of one split and one skeleton
   that go alike; the dataset and its cases are evaluated in this order.  A rate
   is kept as a count, and rates are compared by cross-multiplication. *)
EXTENDS Integers, Sequences, FiniteSets, FiniteSetsExt

CONSTANTS Members,     \* a sequence of [split, skeleton, weight]
          Returns,     \* what the engine may return for a case
          Usual,       \* what it returns when nothing out of the way happens
          MaxUnusual   \* bound: what goes otherwise than usual in a behaviour

Runs == {"baseline", "candidate"}
Splits == {"train", "validation", "sealed_holdout"}
Groups == DOMAIN Members

GateAssumption ==
  /\ Len(Members) \in Nat /\ Groups = 1..Len(Members)
  /\ \A i \in Groups : Members[i].split \in Splits /\ Members[i].weight \in Nat \ {0}
  /\ Usual \in [Runs -> [Groups -> Returns]]
ASSUME GateAssumption

VARIABLES gate,       \* the gate the reports are meant for
          evalset,    \* the manifest of the dataset: its splits, and whether people reviewed it all
          chosen,     \* the splits the two runs were asked to evaluate
          snapshots,  \* the memory snapshot each run was pinned to
          outcomes,   \* of each run, the outcomes of the cases evaluated so far
          running,    \* the run under way, "" when both have ended
          unusual, verdict

gateVars == <<gate, evalset, chosen, snapshots, outcomes, running, unusual, verdict>>

--------------------------------------------------------------------------------
(* What a result of the engine is filed under. *)

WriteCodes == {"read_only_query_required"}

\* The first of these that is among the errors of the gates names the failure.
GateOrder == <<
  [code |-> "parse_error", kind |-> "PARSE_ERROR"],
  [code |-> "unknown_table", kind |-> "UNKNOWN_TABLE"],
  [code |-> "unknown_column", kind |-> "UNKNOWN_COLUMN"],
  [code |-> "read_only_query_required", kind |-> "UNSAFE_SQL"],
  [code |-> "sql_tables_outside_schema_plan", kind |-> "SCHEMA_LINK_MISMATCH"],
  [code |-> "filter_mismatch", kind |-> "FILTER_MISMATCH"],
  [code |-> "unverified_value_binding", kind |-> "VALUE_GROUNDING_MISMATCH"],
  [code |-> "aggregation_mismatch", kind |-> "AGGREGATION_MISMATCH"],
  [code |-> "missing_join", kind |-> "JOIN_OR_GRAIN_MISMATCH"],
  [code |-> "worker_failed", kind |-> "PLANNING_FAILURE"],
  [code |-> "no_accepted_sql_candidate", kind |-> "CANDIDATE_GENERATION_FAILURE"],
  [code |-> "critic_rejected_all_candidates", kind |-> "CRITIC_REJECTION"],
  [code |-> "invalid_final_candidate_index", kind |-> "LEAD_SELECTION_FAILURE"]>>

FailureFromGate(errors) ==
  LET hit == {i \in DOMAIN GateOrder : GateOrder[i].code \in errors}
  IN IF hit # {} THEN GateOrder[Min(hit)].kind
     ELSE IF errors # {} THEN "UNSAFE_SQL" ELSE "RESULT_MISMATCH"

\* How an answer of other rows than the reference comes about: the first
\* difference between the two statements.
ClassifyMismatch(answer) ==
  CASE answer = "other joins" -> "JOIN_OR_GRAIN_MISMATCH"
    [] answer = "other aggregates" -> "AGGREGATION_MISMATCH"
    [] answer = "other filter" -> "FILTER_MISMATCH"
    [] answer = "no rows" -> "UNEXPECTED_EMPTY"
    [] OTHER -> "RESULT_MISMATCH"

Executable(r) == r.raised = "" /\ r.status = "success"

Failure(r) ==
  IF r.raised = "timeout" THEN "TIMEOUT"
  ELSE IF r.raised # "" \/ ~r.pinned THEN "FRAMEWORK_ERROR"
  ELSE IF r.status = "needs_clarification" THEN "NEEDS_CLARIFICATION"
  ELSE IF r.sql = "none" /\ r.errors = {} THEN "NO_SQL"
  ELSE IF ~Executable(r) THEN FailureFromGate(r.errors)
  ELSE IF r.answer = "truncated" THEN "RESULT_MISMATCH"
  ELSE IF r.answer = "exact" THEN "" ELSE ClassifyMismatch(r.answer)

Outcome(r) ==
  [exact |-> Failure(r) = "", executable |-> Executable(r),
   ast |-> r.raised = "" /\ r.sql = "valid",
   safe |-> r.raised # "" \/ r.errors \cap WriteCodes = {},
   kind |-> Failure(r), ms |-> r.ms]

\* What the engine answers has passed the parser and its gates; what the parser objects
\* to, the evaluator's does too.
EngineAssumption ==
  \A r \in Returns :
    /\ r.status = "success" => r.sql = "valid" /\ r.errors = {}
    /\ r.errors \cap {"parse_error", "unknown_table", "unknown_column"} # {} => r.sql # "valid"
    /\ r.ms \in Nat
ASSUME EngineAssumption

--------------------------------------------------------------------------------
(* The figures of a set of cases. *)

\* The cases some members stand for, and their number.
CasesOf(S) == UNION {{i} \X (1..Members[i].weight) : i \in S}
CardsOf == [S \in SUBSET Groups |-> Cardinality(CasesOf(S))]
Cards(S) == CardsOf[S]
OfSplit(report, split) == {i \in DOMAIN report : Members[i].split = split}

\* The shortest time that at least 95 % of the cases keep to.
P95(report, S) ==
  IF S = {} THEN 0
  ELSE Min({m \in {report[i].ms : i \in S} :
              100 * Cards({i \in S : report[i].ms <= m}) >= 95 * Cards(S)})

Buckets(report, S) ==
  [k \in {Members[i].skeleton : i \in S} |->
     LET alike == {i \in S : Members[i].skeleton = k}
     IN [cases |-> Cards(alike), exact |-> Cards({i \in alike : report[i].exact})]]

Metrics(report, S) ==
  [cases |-> Cards(S),
   exact |-> Cards({i \in S : report[i].exact}),
   executable |-> Cards({i \in S : report[i].executable}),
   ast |-> Cards({i \in S : report[i].ast}),
   safe |-> Cards({i \in S : report[i].safe}),
   framework |-> Cards({i \in S : report[i].kind = "FRAMEWORK_ERROR"}),
   p95 |-> P95(report, S),
   buckets |-> Buckets(report, S)]

\* The rate of `field` in `worse` is more than `percent` points below that in `better`.
Drops(worse, better, field, percent) ==
  LET n == Max({1, worse.cases})
      m == Max({1, better.cases})
  IN 100 * worse[field] * m + percent * n * m < 100 * better[field] * n

\* The dataset has 240 cases, and some of each split.
DatasetAssumption ==
  /\ Cards(Groups) = 240
  /\ \A split \in Splits : \E i \in Groups : Members[i].split = split
ASSUME DatasetAssumption

--------------------------------------------------------------------------------
(* The rows of a report a gate accepts: those an evaluator may have written. *)

NotExecutedNorParsed == {"NO_SQL", "PARSE_ERROR", "UNKNOWN_TABLE", "UNKNOWN_COLUMN",
                         "TIMEOUT"}
NotExecuted == {"UNSAFE_SQL", "SCHEMA_LINK_MISMATCH", "FRAMEWORK_ERROR",
                "EXECUTION_ERROR", "PLANNING_FAILURE", "VALUE_GROUNDING_MISMATCH",
                "CANDIDATE_GENERATION_FAILURE", "CRITIC_REJECTION",
                "LEAD_SELECTION_FAILURE"}
OtherResult == {"FILTER_MISMATCH", "AGGREGATION_MISMATCH", "JOIN_OR_GRAIN_MISMATCH",
                "RESULT_MISMATCH"}

\* Mutant of OutcomeMatches: an answer without rows is not expected to have run.
OutcomeMatchesRows(o) ==
  IF o.exact THEN o.safe /\ o.executable /\ o.ast /\ o.kind = ""
  ELSE \/ o.kind \in NotExecuted \cup {"UNEXPECTED_EMPTY"} /\ ~o.executable
       \/ o.kind \in NotExecutedNorParsed /\ ~o.executable /\ ~o.ast
       \/ o.kind \in OtherResult /\ (o.executable => o.safe /\ o.ast)

OutcomeMatches(o) ==
  IF o.exact THEN o.safe /\ o.executable /\ o.ast /\ o.kind = ""
  ELSE \/ o.kind \in NotExecuted /\ ~o.executable
       \/ o.kind \in NotExecutedNorParsed /\ ~o.executable /\ ~o.ast
       \/ o.kind = "UNEXPECTED_EMPTY" /\ o.safe /\ o.executable /\ o.ast
       \/ o.kind \in OtherResult /\ (o.executable => o.safe /\ o.ast)

GateSplits == IF gate = "policy" THEN {"validation", "sealed_holdout"} ELSE Splits

Accepted(r) ==
  {i \in DOMAIN outcomes[r] :
     Members[i].split \in GateSplits /\ OutcomeMatches(outcomes[r][i])}
AcceptedOf(r, split) == Accepted(r) \cap OfSplit(outcomes[r], split)
Recomputed(r, split) == Metrics(outcomes[r], AcceptedOf(r, split))
\* What the evaluator wrote about a split; a split without outcomes has no entry.
Declared(r, split) == Metrics(outcomes[r], OfSplit(outcomes[r], split))
Expected(split) == Cards({i \in Groups : Members[i].split = split /\ split \in evalset.files})

RowReasons(r) ==
  {"invalid_outcome_split" : i \in {j \in DOMAIN outcomes[r] :
                                      Members[j].split \notin GateSplits}}
  \cup {"invalid_outcome_invariant" : i \in {j \in DOMAIN outcomes[r] :
          Members[j].split \in GateSplits /\ ~OutcomeMatches(outcomes[r][j])}}

DeclaredReasons(r, split) ==
  IF OfSplit(outcomes[r], split) = {} THEN {"invalid_object_field"}
  ELSE IF Declared(r, split) # Recomputed(r, split) THEN {"aggregate_mismatch"} ELSE {}

\* Mutant of CoverageReasons: the reports are compared with each other only.
CoverageOfEachOther(split) ==
  IF AcceptedOf("baseline", split) # AcceptedOf("candidate", split)
  THEN {"case_set_mismatch"} ELSE {}

CoverageReasons(split) ==
  (IF \E r \in Runs : Cards(AcceptedOf(r, split)) # Expected(split) THEN {"incomplete"} ELSE {})
  \cup (IF AcceptedOf("baseline", split) # AcceptedOf("candidate", split)
        THEN {"case_set_mismatch"} ELSE {})

--------------------------------------------------------------------------------
(* The two gates. *)

Reviewed(total) ==
  (IF evalset.eligible THEN {} ELSE {"dataset_not_human_reviewed"})
  \cup (IF evalset.eligible /\ Cards({i \in Groups : Members[i].split \in evalset.files}) = total
        THEN {} ELSE {"dataset_review_certificate_unverified"})

Total == Expected("validation") + Expected("sealed_holdout")
         + (IF gate = "policy" THEN 0 ELSE Expected("train"))

PolicyDataset ==
  IF evalset.eligible
  THEN Reviewed(Total)
       \cup (IF evalset.reviewed # Total THEN {"dataset_review_evidence_incomplete"} ELSE {})
  ELSE {"dataset_not_human_reviewed"}

MemoryDataset ==
  Reviewed(Total) \cup (IF Total # 240 THEN {"trusted_dataset_must_contain_240_cases"} ELSE {})

PinReasons ==
  IF gate = "policy"
  THEN IF snapshots["baseline"] # snapshots["candidate"]
       THEN {"memory_snapshot_id_mismatch"} ELSE {}
  ELSE IF snapshots["baseline"] = snapshots["candidate"]
       THEN {"candidate_memory_snapshot_not_changed"} ELSE {}

Fixed(S) == {i \in S : ~outcomes["baseline"][i].exact /\ outcomes["candidate"][i].exact}
Regressed(S) == {i \in S : outcomes["baseline"][i].exact /\ ~outcomes["candidate"][i].exact}
Shared(split) == AcceptedOf("baseline", split) \cap AcceptedOf("candidate", split)

\* What either gate asks of every split.
SplitReasons(split) ==
  LET base == Recomputed("baseline", split)
      cand == Recomputed("candidate", split)
  IN CoverageReasons(split)
     \cup {"operational_rate_zero" : f \in {g \in {"executable", "ast"} : cand[g] = 0}}
     \cup (IF cand.safe < cand.cases \/ cand.cases = 0 THEN {"safety_below_1.0"} ELSE {})
     \cup (IF cand.framework > 0 THEN {"framework_errors"} ELSE {})
     \cup {"rate_regression" : f \in {g \in {"executable", "ast"} : Drops(cand, base, g, 1)}}
     \cup (IF base.p95 > 0 /\ 10 * cand.p95 > 12 * base.p95
           THEN {"p95_latency_over_20_percent"} ELSE {})

SkeletonReasons(split) ==
  LET base == Buckets(outcomes["baseline"], AcceptedOf("baseline", split))
      cand == Buckets(outcomes["candidate"], AcceptedOf("candidate", split))
  IN (IF DOMAIN base # DOMAIN cand THEN {"skeleton_set_mismatch"} ELSE {})
     \cup {"skeleton_regression" : k \in {j \in DOMAIN base \cap DOMAIN cand :
                                           Drops(cand[j], base[j], "exact", 3)}}

\* Validation has to improve by two points and by five cases.
ValidationReasons ==
  LET base == Recomputed("baseline", "validation")
      cand == Recomputed("candidate", "validation")
      n == Max({1, base.cases})
      m == Max({1, cand.cases})
  IN (IF 100 * (cand.exact * n - base.exact * m) < 2 * n * m
      THEN {"validation_execution_gain_below_0.02"} ELSE {})
     \cup (IF Cards(Fixed(Shared("validation"))) - Cards(Regressed(Shared("validation"))) < 5
           THEN {"validation_net_fixed_below_5"} ELSE {})

\* The sealed holdout can only veto.
HoldoutReasons ==
  (IF Regressed(Shared("sealed_holdout")) # {} THEN {"sealed_holdout_case_regression"} ELSE {})
  \cup (IF Drops(Recomputed("candidate", "sealed_holdout"),
                 Recomputed("baseline", "sealed_holdout"), "exact", 0)
        THEN {"sealed_holdout_execution_regression"} ELSE {})

ReportReasons ==
  (UNION {RowReasons(r) : r \in Runs})
  \cup (UNION {DeclaredReasons(r, split) : r \in Runs, split \in GateSplits})
  \cup (UNION {SplitReasons(split) : split \in GateSplits})

EvaluatePromotionGate ==
  PolicyDataset \cup PinReasons \cup ReportReasons \cup ValidationReasons
  \cup HoldoutReasons \cup UNION {SkeletonReasons(split) : split \in GateSplits}

EvaluateMemoryPromotionGate ==
  LET all == UNION {Shared(split) : split \in GateSplits}
      declared(r) == Metrics(outcomes[r], DOMAIN outcomes[r])
      recomputed(r) == Metrics(outcomes[r], Accepted(r))
  IN MemoryDataset \cup PinReasons \cup ReportReasons
     \cup {"overall_aggregate_mismatch" : r \in {s \in Runs :
             Drops(declared(s), recomputed(s), "exact", 0)
               \/ Drops(recomputed(s), declared(s), "exact", 0)}}
     \cup {"execution_regression" : split \in {s \in GateSplits :
             Drops(Recomputed("candidate", s), Recomputed("baseline", s), "exact", 0)}}
     \cup (IF Regressed(all) # {} THEN {"memory_candidate_regressed_cases"} ELSE {})

\* A report is only taken from an artifact of a complete run: no case left out
\* and none of them a fault of the infrastructure.
Unwraps(r) ==
  /\ DOMAIN outcomes[r] = {i \in Groups : Members[i].split \in chosen}
  /\ \A i \in DOMAIN outcomes[r] : outcomes[r][i].kind # "FRAMEWORK_ERROR"
  /\ {"validation", "sealed_holdout"} \subseteq chosen

--------------------------------------------------------------------------------
\* The ways in which the two runs were not set up for the gate.
Odd == Cardinality({b \in {"files", "review", "splits", "snapshots"} :
         CASE b = "files" -> evalset.files # GateSplits
           [] b = "review" -> ~evalset.eligible
           [] b = "splits" -> chosen # GateSplits
           [] b = "snapshots" -> (gate = "policy") # (snapshots["baseline"] = snapshots["candidate"])})

GateInit ==
  /\ gate \in {"policy", "memory"}
  /\ \E files \in {Splits, {"validation", "sealed_holdout"}}, eligible \in BOOLEAN :
       evalset = [files |-> files, eligible |-> eligible,
                   reviewed |-> IF eligible
                                THEN Cards({i \in Groups : Members[i].split \in files}) ELSE 0]
  /\ chosen \in {evalset.files, {"validation", "sealed_holdout"}}
  /\ snapshots \in {[r \in Runs |-> "stable"],
                    [baseline |-> "stable", candidate |-> "with the candidate"]}
  /\ outcomes = [r \in Runs |-> <<>>]
  /\ running = "baseline" /\ verdict = {"undecided"}
  /\ unusual = Odd /\ unusual <= MaxUnusual

Left(r) == {i \in Groups : Members[i].split \in chosen} \ DOMAIN outcomes[r]
After(r) == IF r = "baseline" THEN "candidate" ELSE ""

\* The next case of the run, in the order of the dataset.
EvaluateCase ==
  /\ running # "" /\ Left(running) # {}
  /\ \E result \in Returns :
       LET i == Min(Left(running))
           rare == IF result = Usual[running][i] THEN 0 ELSE 1
           seen == outcomes[running]
       IN /\ unusual + rare <= MaxUnusual
          /\ unusual' = unusual + rare
          /\ outcomes' = [outcomes EXCEPT ![running] =
               [j \in DOMAIN seen \cup {i} |-> IF j = i THEN Outcome(result) ELSE seen[j]]]
  /\ UNCHANGED <<gate, evalset, chosen, snapshots, running, verdict>>

\* The run ends with its last case, or earlier when the budget stops it.
EndRun ==
  /\ running # ""
  /\ running' = After(running)
  /\ unusual' = unusual + (IF Left(running) = {} THEN 0 ELSE 1)
  /\ unusual' <= MaxUnusual
  /\ UNCHANGED <<gate, evalset, chosen, snapshots, outcomes, verdict>>

\* The gate asked by itself, and asked about two artifacts.
Judge ==
  /\ running = "" /\ verdict = {"undecided"}
  /\ LET reasons == IF gate = "policy" THEN EvaluatePromotionGate
                    ELSE EvaluateMemoryPromotionGate
     IN \E refusals \in {{}, {"artifact" : r \in {s \in Runs : ~Unwraps(s)}}} :
          verdict' = refusals \cup reasons
  /\ UNCHANGED <<gate, evalset, chosen, snapshots, outcomes, running, unusual>>

GateNext == EvaluateCase \/ EndRun \/ Judge

GateSpec == GateInit /\ [][GateNext]_gateVars

--------------------------------------------------------------------------------
Judged == {i \in Groups : Members[i].split \in GateSplits \cap evalset.files}

\* What NoHiddenLoss says of a candidate.
LosesNothing ==
  LET right(r, i) == i \in DOMAIN outcomes[r] /\ outcomes[r][i].exact
      lost(S) == Cards({i \in S : right("baseline", i) /\ ~right("candidate", i)})
      won(S) == Cards({i \in S : ~right("baseline", i) /\ right("candidate", i)})
      part(split) == {i \in Judged : Members[i].split = split}
      alike(S, i) == {j \in S : Members[j].skeleton = Members[i].skeleton}
  IN /\ evalset.eligible /\ Judged # {}
     /\ \A r \in Runs : Judged \subseteq DOMAIN outcomes[r]
     /\ \A i \in Judged : /\ outcomes["candidate"][i].safe
                          /\ outcomes["candidate"][i].kind # "FRAMEWORK_ERROR"
     /\ gate = "memory" => lost(Judged) = 0
     /\ gate = "policy" =>
          /\ lost(part("sealed_holdout")) = 0
          /\ won(part("validation")) - lost(part("validation")) >= 5
          /\ \A i \in part("validation") :
               LET same == alike(part("validation"), i)
               IN 100 * (lost(same) - won(same)) <= 3 * Cards(same)

(* A candidate that a gate lets pass was measured on every case of the reviewed
   dataset the gate is about, as the baseline was, and what the gate weighed is
   what the engine answered: no case is unsafe or an infrastructure fault, the
   Memory gate loses no case, and the Policy gate loses none of the sealed
   holdout, wins five more cases of the validation split than it loses, and does
   not pay for them with a kind of statement. *)
NoHiddenLoss == verdict = {} => LosesNothing

\* Two complete runs over what the gate asks for, without a clarification and without a
\* fault of the infrastructure.
OnEqualTerms ==
  /\ evalset.eligible /\ chosen = GateSplits /\ evalset.files = GateSplits
  /\ (gate = "policy") = (snapshots["baseline"] = snapshots["candidate"])
  /\ \A r \in Runs :
       /\ DOMAIN outcomes[r] = Judged
       /\ \A i \in Judged : outcomes[r][i].kind \notin {"NEEDS_CLARIFICATION", "FRAMEWORK_ERROR"}

AllRight ==
  /\ \A i \in Judged : /\ outcomes["candidate"][i].exact
                        /\ outcomes["candidate"][i].ms <= outcomes["baseline"][i].ms
  /\ Cards(Fixed(OfSplit(outcomes["baseline"], "validation"))) >= 5

\* The reasons that find fault with the reports as such.
ReportFaults ==
  {"invalid_outcome_split", "invalid_outcome_invariant", "invalid_object_field",
   "aggregate_mismatch", "overall_aggregate_mismatch", "incomplete", "case_set_mismatch",
   "skeleton_set_mismatch", "artifact"}

(* Two reports of complete runs on equal terms, without a clarification and
   without a fault of the infrastructure, are judged on what they measured: the
   gates recompute what the evaluator declared and refuse no row it may have
   written; and a candidate that answers everything right, as fast, with five
   validation cases won, passes. *)
JudgedOnItsMerits ==
  verdict # {"undecided"} /\ OnEqualTerms =>
    /\ verdict \cap ReportFaults = {}
    /\ AllRight => verdict = {}

(* docs/text2sql/PHASE4_SELF_EVOLUTION.md: the review of all 240 cases, train
   included, and its certificate lift the gate on the source of the dataset. *)
ReviewedDatasetIsAccepted ==
  verdict # {"undecided"} /\ evalset.eligible =>
    verdict \cap {"dataset_not_human_reviewed", "dataset_review_evidence_incomplete",
                  "dataset_review_certificate_unverified"} = {}
================================================================================
