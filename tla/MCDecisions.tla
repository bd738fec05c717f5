----------------------------- MODULE MCDecisions -----------------------------
(* The three modules about what a candidate is judged by, for TLC: the gates, the
   lessons with their replay, and the review of the dataset.  They share no
   variable; a behaviour is one of one of them, the others standing still. *)
EXTENDS PromotionGates, Lessons, DatasetReview, TLC

VARIABLE part

\* Looked up in every state, and worked out here once.
ASSUME CardsOf \in [SUBSET Groups -> Nat]

Case(split, skeleton, weight) == [split |-> split, skeleton |-> skeleton, weight |-> weight]

\* 144 cases of train, 48 of validation and 48 of the sealed holdout.
Dataset == <<Case("train", "join", 144), Case("validation", "join", 40),
             Case("validation", "count", 8), Case("sealed_holdout", "join", 43),
             Case("sealed_holdout", "count", 5)>>

Answer(answer) ==
  [raised |-> "", pinned |-> TRUE, status |-> "success", sql |-> "valid",
   errors |-> {}, answer |-> answer, ms |-> 10]
Rejected(sql, code) ==
  [Answer("") EXCEPT !.status = "rejected", !.sql = sql, !.errors = {code}]
Raised(what) == [Answer("") EXCEPT !.raised = what, !.status = "", !.sql = "none"]

EngineResults ==
  {Answer(a) : a \in {"exact", "truncated", "other joins", "other aggregates",
                      "other filter", "no rows", "other rows"}}
  \cup {[Answer("exact") EXCEPT !.ms = 30], [Answer("exact") EXCEPT !.pinned = FALSE]}
  \cup {Rejected("refused", c) : c \in {"parse_error", "unknown_table",
                                        "read_only_query_required"}}
  \cup {Rejected("valid", c) : c \in {"sql_tables_outside_schema_plan",
                                      "missing_join", "execution_error"}}
  \cup {Rejected("none", c) : c \in {"worker_failed", "no_accepted_sql_candidate",
                                     "critic_rejected_all_candidates",
                                     "invalid_final_candidate_index"}}
  \cup {[Answer("") EXCEPT !.status = "needs_clarification", !.sql = "none"]}
  \cup {Raised("timeout"), Raised("error")}

\* The candidate answers what the baseline does, and eight cases more.
UsualResults ==
  [r \in Runs |-> [i \in DOMAIN Dataset |->
     IF r = "baseline" /\ i = 3 THEN Answer("other rows") ELSE Answer("exact")]]

--------------------------------------------------------------------------------
GatesIdle ==
  /\ gate = "policy" /\ chosen = {} /\ outcomes = [r \in Runs |-> <<>>]
  /\ evalset = [files |-> {}, eligible |-> FALSE, reviewed |-> 0]
  /\ snapshots = [r \in Runs |-> "stable"]
  /\ running = "" /\ verdict = {"undecided"} /\ unusual = 0

LessonsIdle ==
  /\ lane = 1 /\ stage = "idle" /\ trace = Blank(NoSql) /\ traces = <<>>
  /\ world = NoSql /\ lessons = {} /\ replayed = NoArtifact

ReviewIdle ==
  /\ dataset = NoVersion /\ manifest = Pending(NoVersion) /\ certificate = NoCertificate
  /\ bound = NoVersion /\ log = <<>> /\ builds = 0
  /\ reviews = [p \in Reviewers |-> NoReview] /\ draft = NoDraft

Init ==
  \/ part = "gates" /\ GateInit /\ LessonsIdle /\ ReviewIdle
  \/ part = "lessons" /\ GatesIdle /\ LessonInit /\ ReviewIdle
  \/ part = "review" /\ GatesIdle /\ LessonsIdle /\ ReviewInit

Next ==
  /\ UNCHANGED part
  /\ \/ part = "gates" /\ GateNext /\ UNCHANGED <<lessonVars, reviewVars>>
     \/ part = "lessons" /\ LessonNext /\ UNCHANGED <<gateVars, reviewVars>>
     \/ part = "review" /\ ReviewNext /\ UNCHANGED <<gateVars, lessonVars>>

\* One part each, for the runs that ask about one of them.
GatesOnly == Init /\ part = "gates"
LessonsOnly == Init /\ part = "lessons"

Symmetry ==
  Permutations(Sqls) \cup Permutations(ReviewCases) \cup Permutations(Versions)
  \cup Permutations(Reviewers)
================================================================================
