------------------------------ MODULE QuestionSql ------------------------------
(***************************************************************************)
(* Confirmed Question-SQL: how an answered question and its SQL become an   *)
(* example that Vanna retrieves, and how they cease to be one.              *)
(*                                                                         *)
(* The review rows and the feedback of a task are in the evolution store,   *)
(* the confirmed pairs in a registry file, and what is retrieved in the     *)
(* index built from that file.  Threads of the web service give feedback,   *)
(* confirm and revoke; they share _VANNA_PUBLISH_LOCK for the file and the  *)
(* index, and nothing for the rest of an operation.                         *)
(***************************************************************************)
EXTENDS Integers, FiniteSets

CONSTANTS
    Tasks,       \* answered queries
    Pairs,       \* a question with a SQL: experience_id and evidence_id
    PairOf,      \* task -> the pair it answered
    Production,  \* the tasks whose trace is a successful stable Web/CLI run
    Threads,     \* threads of the web service
    NoTask, NoPair, NoThread,
    Faults       \* whether a database, file or index error may end an operation

ASSUME QuestionSqlAssumption ==
    /\ PairOf \in [Tasks -> Pairs] /\ Production \subseteq Tasks
    /\ NoTask \notin Tasks /\ NoPair \notin Pairs /\ NoThread \notin Threads
    /\ Faults \in BOOLEAN

VARIABLES
    verdict,   \* query_traces.feedback_status; "absent" before the query
    reviews,   \* the rows of experience_reviews
    registry,  \* the pairs in confirmed_question_sql.json
    index,     \* the pairs in the published Vanna index
    lock,      \* _VANNA_PUBLISH_LOCK
    thread     \* the Python frames

store == <<verdict, reviews>>
vanna == <<registry, index, lock>>
vars  == <<store, vanna, thread>>

Decisions == {"correct", "incorrect"}

RowType ==
    [state : {"absent", "ineligible", "candidate", "promoted", "rejected"},
     task : Tasks \cup {NoTask},
     eligible : BOOLEAN,
     awaiting : BOOLEAN,  \* requires_human_feedback is among the eligibility reasons
     feedback : Decisions \cup {""}]

FrameType ==
    [pc : {"idle", "add", "record", "correct", "check", "approve", "mark", "publish",
           "revoke", "remove", "collect", "build", "promote", "promoted", "reject",
           "rejected"},
     task : Tasks \cup {NoTask}, pair : Pairs \cup {NoPair},
     decision : Decisions \cup {""},
     correction : Pairs \cup {NoPair},
     awaiting : BOOLEAN,        \* awaiting_feedback, as confirm_experience read the row
     corpus : SUBSET Pairs]     \* what collect_vanna_corpus read

NoReview ==
    [state |-> "absent", task |-> NoTask, eligible |-> FALSE, awaiting |-> FALSE,
     feedback |-> ""]

Idle ==
    [pc |-> "idle", task |-> NoTask, pair |-> NoPair, decision |-> "",
     correction |-> NoPair, awaiting |-> FALSE, corpus |-> {}]

Init ==
    /\ verdict = [t \in Tasks |-> "absent"]
    /\ reviews = [e \in Pairs |-> NoReview]
    /\ registry = {} /\ index = {}
    /\ lock = NoThread
    /\ thread = [w \in Threads |-> Idle]

At(w, pc) == thread[w].pc = pc

Goto(w, pc) == thread' = [thread EXCEPT ![w].pc = pc]

End(w) == thread' = [thread EXCEPT ![w] = Idle]

(***************************************************************************)
(* The transactions of the evolution store.                                *)
(***************************************************************************)
\* add_experience_candidate: a pair keeps the task that brought it up first, and only an
\* eligible one changes the state of a row that is not yet promoted.
Candidate(row, t, eligible) ==
    IF row.state = "absent"
    THEN [state |-> IF eligible THEN "candidate" ELSE "ineligible", task |-> t,
          eligible |-> eligible, awaiting |-> ~eligible, feedback |-> ""]
    ELSE [row EXCEPT
             !.eligible = @ \/ eligible,
             !.awaiting = @ /\ ~eligible,
             !.state = IF eligible /\ @ # "promoted" THEN "candidate" ELSE @]

AddCandidate(e, t, eligible) ==
    reviews' = [reviews EXCEPT ![e] = Candidate(@, t, eligible)]

\* record_query_feedback: the verdict reaches every row of the task.
Judged(row, t, decision) ==
    IF row.task # t
    THEN row
    ELSE [row EXCEPT
             !.feedback = decision,
             !.state = IF decision = "incorrect" /\ @ \in {"candidate", "ineligible"}
                       THEN "rejected" ELSE @]

RecordFeedback(t, decision) ==
    /\ verdict' = [verdict EXCEPT ![t] = decision]
    /\ reviews' = [e \in Pairs |-> Judged(reviews[e], t, decision)]

Awaiting(row)  == row.state = "ineligible" /\ row.awaiting
Confirmed(row) == row.state = "candidate" /\ row.eligible /\ row.feedback = "correct"

\* _remember_trace: the answer of a query is proposed, never eligible.
Remember(t) ==
    /\ verdict[t] = "absent"
    /\ verdict' = [verdict EXCEPT ![t] = ""]
    /\ AddCandidate(PairOf[t], t, FALSE)
    /\ UNCHANGED <<vanna, thread>>

(***************************************************************************)
(* Feedback in the session, and on the page that reviews experiences.       *)
(***************************************************************************)
\* A run that is no production source: the verdict is recorded and nothing is learned.
FeedbackOnly(t, decision) ==
    /\ t \notin Production
    /\ RecordFeedback(t, decision)
    /\ UNCHANGED <<vanna, thread>>

Begin(w, frame) ==
    /\ thread' = [thread EXCEPT ![w] = frame]
    /\ UNCHANGED <<store, vanna>>

\* feedback: the pair that becomes a candidate is the answer or its correction, and it does
\* before the verdict is recorded.
Feedback(w, t, decision, correction) ==
    /\ At(w, "idle")
    /\ verdict[t] # "absent"
    /\ decision = "correct" => correction = NoPair
    /\ \/ FeedbackOnly(t, decision)
       \/ /\ t \in Production
          /\ LET pair == IF decision = "correct" THEN PairOf[t] ELSE correction
             IN  Begin(w, [Idle EXCEPT !.pc = IF pair = NoPair THEN "record" ELSE "add",
                              !.task = t, !.pair = pair, !.decision = decision])

AddPair(w) ==
    /\ At(w, "add")
    /\ AddCandidate(thread[w].pair, thread[w].task, TRUE)
    /\ Goto(w, "record")
    /\ UNCHANGED <<verdict, vanna>>

\* feedback_experience: the same for a row, whose correction follows the verdict.
ReviewExperience(w, e, decision, correction) ==
    LET row == reviews[e]
    IN
    /\ At(w, "idle")
    /\ row.state # "absent"
    /\ decision = "correct" => correction = NoPair
    /\ \/ Awaiting(row) /\ FeedbackOnly(row.task, decision)
       \/ /\ row.task \in Production /\ decision = "incorrect" /\ Awaiting(row)
          /\ correction # e
          /\ Begin(w, [Idle EXCEPT !.pc = "record", !.task = row.task, !.decision = decision,
                          !.correction = correction])
       \/ /\ row.task \in Production /\ decision = "correct"
          /\ Begin(w, [Idle EXCEPT !.pc = "check", !.pair = e])

RecordDecision(w) ==
    LET f == thread[w]
        next == CASE f.decision = "correct"   -> "check"
                  [] f.correction # NoPair    -> "correct"
                  [] OTHER                    -> "idle"
    IN
    /\ At(w, "record")
    /\ RecordFeedback(f.task, f.decision)
    /\ IF next = "idle" THEN End(w) ELSE Goto(w, next)
    /\ UNCHANGED vanna

AddCorrection(w) ==
    /\ At(w, "correct")
    /\ AddCandidate(thread[w].correction, thread[w].task, TRUE)
    /\ End(w)
    /\ UNCHANGED <<verdict, vanna>>

(***************************************************************************)
(* Confirmation: the evolution store, then the registry and the index under *)
(* the lock, then the evolution store again.                                *)
(***************************************************************************)
Confirm(w, e) ==
    /\ At(w, "idle") /\ reviews[e].state # "absent"
    /\ Begin(w, [Idle EXCEPT !.pc = "check", !.pair = e])

\* Mutant of Acceptable: the trace of the row is not looked at.
AcceptableFromAnywhere(row) ==
    row.state = "promoted" \/ Awaiting(row) \/ Confirmed(row)

\* What confirm_experience accepts: a row that is promoted, awaits a human, or is confirmed,
\* of a task that may teach the system.
Acceptable(row) ==
    /\ row.state = "promoted" \/ Awaiting(row) \/ Confirmed(row)
    /\ row.task \in Production

CheckConfirm(w) ==
    LET e   == thread[w].pair
        row == reviews[e]
        pc  == IF row.state = "promoted" THEN "publish" ELSE "approve"
    IN
    /\ At(w, "check")
    /\ IF Acceptable(row)
       THEN thread' = [thread EXCEPT ![w] =
                          [Idle EXCEPT !.pc = pc, !.pair = e, !.awaiting = Awaiting(row)]]
       ELSE End(w)
    /\ UNCHANGED <<store, vanna>>

Approve(w) ==
    LET e == thread[w].pair
    IN
    /\ At(w, "approve")
    /\ AddCandidate(e, reviews[e].task, TRUE)
    /\ Goto(w, IF thread[w].awaiting THEN "mark" ELSE "publish")
    /\ UNCHANGED <<verdict, vanna>>

MarkCorrect(w) ==
    /\ At(w, "mark")
    /\ RecordFeedback(reviews[thread[w].pair].task, "correct")
    /\ Goto(w, "publish")
    /\ UNCHANGED vanna

\* Mutant of Publish: the registry has a lock of its own, and the publication none.
PublishUnlocked(w) ==
    /\ At(w, "publish")
    /\ lock' = w
    /\ registry' = registry \cup {thread[w].pair}
    /\ thread' = [thread EXCEPT ![w].pc = "collect", ![w].decision = "correct"]
    /\ UNCHANGED <<store, index>>

\* add_confirmed_question_sql, which leaves a pair that is there as it is.
Publish(w) ==
    /\ At(w, "publish") /\ lock = NoThread
    /\ lock' = w
    /\ registry' = registry \cup {thread[w].pair}
    /\ thread' = [thread EXCEPT ![w].pc = "collect", ![w].decision = "correct"]
    /\ UNCHANGED <<store, index>>

\* build_vanna_corpus reads the registry, then replaces the index by what it read.
Collect(w) ==
    /\ At(w, "collect")
    /\ thread' = [thread EXCEPT ![w].pc = "build", ![w].corpus = registry]
    /\ UNCHANGED <<store, vanna>>

Build(w) ==
    /\ At(w, "build")
    /\ index' = thread[w].corpus
    /\ lock' = NoThread
    /\ thread' = [thread EXCEPT ![w].corpus = {},
                     ![w].pc = IF thread[w].decision = "correct" THEN "promote" ELSE "reject"]
    /\ UNCHANGED <<store, registry>>

\* promote_confirmed_experience reads the row and then writes it whatever it has become.
CheckPromote(w) ==
    LET row == reviews[thread[w].pair]
    IN
    /\ At(w, "promote")
    /\ IF row.state # "promoted" /\ Confirmed(row) THEN Goto(w, "promoted") ELSE End(w)
    /\ UNCHANGED <<store, vanna>>

Promote(w) ==
    /\ At(w, "promoted")
    /\ reviews' = [reviews EXCEPT ![thread[w].pair].state = "promoted"]
    /\ End(w)
    /\ UNCHANGED <<verdict, vanna>>

(***************************************************************************)
(* Revocation: the same stores in the same order, and an error.             *)
(***************************************************************************)
Revoke(w, e) ==
    /\ At(w, "idle") /\ reviews[e].state = "promoted"
    /\ Begin(w, [Idle EXCEPT !.pc = "remove", !.pair = e, !.decision = "incorrect"])

\* A pair that is not in the registry is an error, raised before the index is built.
Remove(w) ==
    LET e == thread[w].pair
    IN
    /\ At(w, "remove") /\ lock = NoThread
    /\ \/ e \in registry
          /\ lock' = w
          /\ registry' = registry \ {e}
          /\ Goto(w, "collect")
       \/ e \notin registry
          /\ End(w)
          /\ UNCHANGED <<registry, lock>>
    /\ UNCHANGED <<store, index>>

CheckReject(w) ==
    /\ At(w, "reject")
    /\ IF reviews[thread[w].pair].state = "promoted" THEN Goto(w, "rejected") ELSE End(w)
    /\ UNCHANGED <<store, vanna>>

Reject(w) ==
    /\ At(w, "rejected")
    /\ reviews' = [reviews EXCEPT ![thread[w].pair].state = "rejected",
                      ![thread[w].pair].feedback = "incorrect"]
    /\ End(w)
    /\ UNCHANGED <<verdict, vanna>>

\* An error in the next call unwinds the thread, and leaving the with block frees the lock.
Fail(w) ==
    /\ Faults /\ ~At(w, "idle")
    /\ End(w)
    /\ lock' = IF lock = w THEN NoThread ELSE lock
    /\ UNCHANGED <<store, registry, index>>

(***************************************************************************)
(* The specification.                                                      *)
(***************************************************************************)
Start(w) ==
    \/ \E d \in Decisions, c \in Pairs \cup {NoPair} :
          \/ \E t \in Tasks : Feedback(w, t, d, c)
          \/ \E e \in Pairs : ReviewExperience(w, e, d, c)
    \/ \E e \in Pairs : Confirm(w, e) \/ Revoke(w, e)

Continue(w) ==
    \/ AddPair(w) \/ RecordDecision(w) \/ AddCorrection(w)
    \/ CheckConfirm(w) \/ Approve(w) \/ MarkCorrect(w) \/ Publish(w)
    \/ Collect(w) \/ Build(w) \/ CheckPromote(w) \/ Promote(w)
    \/ Remove(w) \/ CheckReject(w) \/ Reject(w)

Next ==
    \/ \E t \in Tasks : Remember(t)
    \/ \E w \in Threads : Start(w) \/ Continue(w) \/ Fail(w)

Spec == Init /\ [][Next]_vars

(***************************************************************************)
(* Properties.                                                             *)
(***************************************************************************)
\* Types of the rows, the files and the frames.
TypeOK ==
    /\ verdict \in [Tasks -> Decisions \cup {"absent", ""}]
    /\ reviews \in [Pairs -> RowType]
    /\ registry \subseteq Pairs /\ index \subseteq Pairs
    /\ lock \in Threads \cup {NoThread}
    /\ thread \in [Threads -> FrameType]

\* However feedback, confirmations, revocations and errors interleave, Vanna retrieves no
\* pair that a shadow or canary run brought up, and none that no human has judged.
OnlyVettedIsRetrieved ==
    \A e \in registry \cup index :
        /\ reviews[e].task \in Production
        /\ reviews[e].eligible /\ reviews[e].feedback # ""

\* A publication replaces the index by what the registry then holds: no slower build puts
\* back a pair that was removed, or drops one that was added.
PublishesTheRegistry == [][index' # index => index' = registry]_vars
=============================================================================
