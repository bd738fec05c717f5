--------------------------- MODULE QuestionSqlProofs ---------------------------
(***************************************************************************)
(* What Vanna retrieves has been judged, and the index is the registry it   *)
(* was built from, for any number of tasks, pairs and threads.              *)
(***************************************************************************)
EXTENDS QuestionSql, TLAPS

(***************************************************************************)
(* The inductive invariant.                                                *)
(***************************************************************************)
\* The row of a pair came from a run that may teach, and a human has judged it.
Vetted(row) == row.task \in Production /\ row.eligible /\ row.feedback # ""

\* What no transaction of the evolution store takes back from a row.
Grows(row, next) ==
    row.state # "absent" =>
        /\ next.state # "absent" /\ next.task = row.task
        /\ row.eligible => next.eligible
        /\ row.feedback # "" => next.feedback # ""

RowOK(row) ==
    /\ row.state = "absent" <=> row.task = NoTask
    /\ row.state = "promoted" => Vetted(row)

\* What a frame has read of the rows still holds when it acts on it.
FrameOK(f, rows) ==
    /\ f.pc \in {"add", "record", "correct"} => f.task \in Tasks /\ f.decision \in Decisions
    /\ f.pc = "record" /\ f.decision = "correct" => f.pair \in Pairs
    /\ f.pc = "correct" => f.correction \in Pairs
    /\ f.pc \notin {"idle", "record", "correct"} => f.pair \in Pairs
    /\ f.pc = "approve" =>
          /\ rows[f.pair].task \in Production
          /\ f.awaiting \/ rows[f.pair].feedback # ""
    /\ f.pc = "remove" => f.decision = "incorrect"
    /\ f.pc = "mark" => rows[f.pair].task \in Production /\ rows[f.pair].eligible
    /\ f.pc \in {"publish", "promote", "promoted", "rejected"} => Vetted(rows[f.pair])
    /\ f.pc \in {"collect", "build"} /\ f.decision = "correct" => Vetted(rows[f.pair])
    /\ \A e \in f.corpus : Vetted(rows[e])

RowsOK == \A e \in Pairs : RowOK(reviews[e])

FramesOK == \A w \in Threads : FrameOK(thread[w], reviews)

FilesOK == \A e \in registry \cup index : Vetted(reviews[e])

\* Whoever publishes holds the lock, and builds from the registry as it is.
LockOK ==
    \A w \in Threads :
        /\ thread[w].pc \in {"collect", "build"} => lock = w
        /\ thread[w].pc = "build" => thread[w].corpus = registry

Inv == TypeOK /\ RowsOK /\ FramesOK /\ FilesOK /\ LockOK

(***************************************************************************)
(* Rows.                                                                   *)
(***************************************************************************)
\* What has been judged stays judged.
LEMMA VettedGrows ==
  ASSUME NEW row, NEW next, RowOK(row), Vetted(row), Grows(row, next)
  PROVE  Vetted(next)
  BY QuestionSqlAssumption DEF RowOK, Vetted, Grows

\* The two ways to propose a pair.
Approved(row, t) == Candidate(row, t, TRUE)
Proposed(row, t) == Candidate(row, t, FALSE)

\* add_experience_candidate takes nothing back.
LEMMA CandidateRow ==
  ASSUME NEW row \in RowType, RowOK(row), NEW t \in Tasks, NEW next,
         next = Approved(row, t) \/ next = Proposed(row, t)
  PROVE  /\ next \in RowType /\ RowOK(next) /\ Grows(row, next)
         /\ next = Approved(row, t) => next.eligible
         /\ row.state # "absent" => next.task = row.task /\ next.feedback = row.feedback
<1>1. CASE row.state = "absent"
  <2>1. PICK a \in {"candidate", "ineligible"}, c \in BOOLEAN :
          /\ next = [state |-> a, task |-> t, eligible |-> c, awaiting |-> ~c, feedback |-> ""]
          /\ next = Approved(row, t) => c
    <3>1. Approved(row, t) = [state |-> "candidate", task |-> t, eligible |-> TRUE,
                              awaiting |-> FALSE, feedback |-> ""]
      BY <1>1 DEF Approved, Candidate
    <3>2. Proposed(row, t) = [state |-> "ineligible", task |-> t, eligible |-> FALSE,
                              awaiting |-> TRUE, feedback |-> ""]
      BY <1>1 DEF Proposed, Candidate
    <3>3. Approved(row, t).state = "candidate" /\ Proposed(row, t).state = "ineligible"
      BY <1>1 DEF Approved, Proposed, Candidate
    <3> QED
      BY <3>1, <3>2, <3>3
  <2> QED
    BY <1>1, <2>1, QuestionSqlAssumption DEF RowType, RowOK, Grows
<1>2. CASE row.state # "absent" /\ next = Approved(row, t)
  <2>1. next = [row EXCEPT !.eligible = TRUE, !.awaiting = FALSE,
                   !.state = IF row.state # "promoted" THEN "candidate" ELSE row.state]
    BY <1>2 DEF Approved, Proposed, Candidate, RowType
  <2>2. /\ next \in RowType
        /\ next.task = row.task /\ next.feedback = row.feedback /\ next.eligible
        /\ next.state = IF row.state # "promoted" THEN "candidate" ELSE row.state
    BY <2>1 DEF RowType
  <2>3. Grows(row, next)
    BY <1>2, <2>2 DEF Grows
  <2>4. RowOK(next)
    BY <1>2, <2>2 DEF RowOK, Vetted
  <2> QED
    BY <2>2, <2>3, <2>4
<1>3. CASE row.state # "absent" /\ next = Proposed(row, t)
  <2>1. next = row
    BY <1>3 DEF Approved, Proposed, Candidate, RowType
  <2> QED
    BY <1>2, <1>3, <2>1 DEF Grows
<1> QED
  BY <1>1, <1>2, <1>3

\* record_query_feedback takes nothing back.
LEMMA JudgedRow ==
  ASSUME NEW row \in RowType, RowOK(row), NEW t \in Tasks, NEW d \in Decisions
  PROVE  /\ Judged(row, t, d) \in RowType /\ RowOK(Judged(row, t, d))
         /\ Grows(row, Judged(row, t, d))
         /\ row.task = t => Judged(row, t, d).feedback # ""
<1>1. CASE row.task # t
  BY <1>1 DEF Judged, Grows
<1>2. CASE row.task = t
  <2> DEFINE next == Judged(row, t, d)
  <2>1. next = [row EXCEPT !.feedback = d,
                   !.state = IF d = "incorrect" /\ row.state \in {"candidate", "ineligible"}
                             THEN "rejected" ELSE row.state]
    BY <1>2 DEF Judged
  <2>2. /\ next \in RowType /\ next.feedback = d
        /\ next.task = row.task /\ next.eligible = row.eligible
        /\ next.state = IF d = "incorrect" /\ row.state \in {"candidate", "ineligible"}
                        THEN "rejected" ELSE row.state
    BY <2>1 DEF RowType, Decisions
  <2> HIDE DEF next
  <2>3. d # ""
    BY DEF Decisions
  <2>4. Grows(row, next)
    BY <2>2, <2>3 DEF Grows
  <2>5. RowOK(next)
    BY <2>2, <2>3 DEF RowOK, Vetted
  <2> QED
    BY <2>2, <2>3, <2>4, <2>5 DEF next
<1> QED
  BY <1>1, <1>2

\* Neither does a promotion or a rejection of a judged row.
LEMMA DecidedRow ==
  ASSUME NEW row \in RowType, RowOK(row), Vetted(row)
  PROVE  /\ [row EXCEPT !.state = "promoted"] \in RowType
         /\ RowOK([row EXCEPT !.state = "promoted"])
         /\ Grows(row, [row EXCEPT !.state = "promoted"])
         /\ [row EXCEPT !.state = "rejected", !.feedback = "incorrect"] \in RowType
         /\ RowOK([row EXCEPT !.state = "rejected", !.feedback = "incorrect"])
         /\ Grows(row, [row EXCEPT !.state = "rejected", !.feedback = "incorrect"])
<1>0. row.task \in Tasks /\ row.task # NoTask /\ row.state # "absent"
  BY QuestionSqlAssumption DEF RowOK, Vetted
<1>1. PICK a : a = [row EXCEPT !.state = "promoted"]
  OBVIOUS
<1>2. /\ a \in RowType /\ a.state = "promoted" /\ a.feedback = row.feedback
      /\ a.task = row.task /\ a.eligible = row.eligible
  BY <1>1 DEF RowType
<1>3. RowOK(a) /\ Grows(row, a)
  BY <1>0, <1>2 DEF RowOK, Grows, Vetted
<1>4. PICK b : b = [row EXCEPT !.state = "rejected", !.feedback = "incorrect"]
  OBVIOUS
<1>5. /\ b \in RowType /\ b.state = "rejected" /\ b.feedback = "incorrect"
      /\ b.task = row.task /\ b.eligible = row.eligible
  BY <1>4 DEF RowType, Decisions
<1>6. RowOK(b) /\ Grows(row, b)
  BY <1>0, <1>5 DEF RowOK, Grows, Vetted
<1> QED
  BY <1>1, <1>2, <1>3, <1>4, <1>5, <1>6

\* What the transactions of the evolution store do to all rows.
RowsGrow ==
    /\ reviews' \in [Pairs -> RowType]
    /\ \A e \in Pairs : RowOK(reviews'[e]) /\ Grows(reviews[e], reviews'[e])

\* Proposing a pair leaves every row right, and its verdict as it was.
LEMMA AddCandidateRows ==
  ASSUME Inv, NEW e \in Pairs, NEW t \in Tasks,
         AddCandidate(e, t, TRUE) \/ AddCandidate(e, t, FALSE)
  PROVE  /\ RowsGrow
         /\ AddCandidate(e, t, TRUE) => reviews'[e].eligible
         /\ reviews[e].state # "absent" => /\ reviews'[e].task = reviews[e].task
                                           /\ reviews'[e].feedback = reviews[e].feedback
<1>1. PICK next : /\ next = Approved(reviews[e], t) \/ next = Proposed(reviews[e], t)
                  /\ AddCandidate(e, t, TRUE) => next = Approved(reviews[e], t)
                  /\ reviews' = [reviews EXCEPT ![e] = next]
  BY DEF AddCandidate, Approved, Proposed
<1>2. \A d \in Pairs : reviews[d] \in RowType /\ RowOK(reviews[d])
  BY DEF Inv, TypeOK, RowsOK
<1>3. /\ next \in RowType /\ RowOK(next) /\ Grows(reviews[e], next)
      /\ next = Approved(reviews[e], t) => next.eligible
      /\ reviews[e].state # "absent" =>
            next.task = reviews[e].task /\ next.feedback = reviews[e].feedback
  BY <1>1, <1>2, CandidateRow
<1>4. \A d \in Pairs : reviews'[d] = IF d = e THEN next ELSE reviews[d]
  BY <1>1 DEF Inv, TypeOK
<1>5. reviews' \in [Pairs -> RowType]
  BY <1>1, <1>3 DEF Inv, TypeOK
<1>6. \A d \in Pairs : Grows(reviews[d], reviews[d])
  BY DEF Grows
<1> QED
  BY <1>1, <1>2, <1>3, <1>4, <1>5, <1>6 DEF RowsGrow

\* A verdict leaves every row right, and reaches those of its task.
LEMMA RecordFeedbackRows ==
  ASSUME Inv, NEW t \in Tasks, NEW d \in Decisions, RecordFeedback(t, d)
  PROVE  /\ RowsGrow
         /\ \A e \in Pairs : reviews[e].task = t => reviews'[e].feedback # ""
         /\ verdict' \in [Tasks -> Decisions \cup {"absent", ""}]
<1>1. \A e \in Pairs : reviews'[e] = Judged(reviews[e], t, d)
  BY DEF RecordFeedback
<1>2. \A e \in Pairs : /\ Judged(reviews[e], t, d) \in RowType
                       /\ RowOK(Judged(reviews[e], t, d))
                       /\ Grows(reviews[e], Judged(reviews[e], t, d))
                       /\ reviews[e].task = t => Judged(reviews[e], t, d).feedback # ""
  BY JudgedRow DEF Inv, TypeOK, RowsOK
<1>3. reviews' \in [Pairs -> RowType]
  BY <1>2 DEF RecordFeedback
<1>4. verdict' \in [Tasks -> Decisions \cup {"absent", ""}]
  BY DEF RecordFeedback, Inv, TypeOK
<1> QED
  BY <1>1, <1>2, <1>3, <1>4 DEF RowsGrow

\* Rows that nobody writes grow.
LEMMA RowsStay ==
  ASSUME Inv, UNCHANGED reviews
  PROVE  RowsGrow
  BY DEF RowsGrow, Grows, Inv, TypeOK, RowsOK

(***************************************************************************)
(* Frames.                                                                 *)
(***************************************************************************)
\* A frame stays right while other threads write.
LEMMA FrameStays ==
  ASSUME Inv, RowsGrow, NEW f \in FrameType, FrameOK(f, reviews)
  PROVE  FrameOK(f, reviews')
<1>1. \A e \in Pairs : Vetted(reviews[e]) => Vetted(reviews'[e])
  BY VettedGrows DEF RowsGrow, Inv, RowsOK
<1>2. ASSUME NEW e \in Pairs, reviews[e].task \in Production
      PROVE  /\ reviews'[e].task = reviews[e].task
             /\ reviews[e].eligible => reviews'[e].eligible
             /\ reviews[e].feedback # "" => reviews'[e].feedback # ""
  BY <1>2, QuestionSqlAssumption DEF RowsGrow, Grows, Inv, RowsOK, RowOK
<1>3. f.corpus \subseteq Pairs
  BY DEF FrameType
<1> QED
  BY <1>1, <1>2, <1>3 DEF FrameOK

\* What a step of a thread has to show.
LEMMA ThreadStep ==
  ASSUME Inv, NEW w \in Threads, NEW f \in FrameType, RowsGrow,
         thread' = [thread EXCEPT ![w] = f], FrameOK(f, reviews'),
         verdict' \in [Tasks -> Decisions \cup {"absent", ""}],
         UNCHANGED vanna, f.pc \notin {"collect", "build"}
  PROVE  Inv'
<1>1. TypeOK'
  BY DEF Inv, TypeOK, RowsGrow, vanna
<1>2. RowsOK'
  BY DEF RowsGrow, RowsOK
<1>3. FramesOK'
  <2>1. \A v \in Threads : thread[v] \in FrameType /\ FrameOK(thread[v], reviews)
    BY DEF Inv, TypeOK, FramesOK
  <2>2. \A v \in Threads : thread'[v] = IF v = w THEN f ELSE thread[v]
    BY DEF Inv, TypeOK
  <2> QED
    BY <2>1, <2>2, FrameStays DEF FramesOK
<1>4. FilesOK'
  <2>1. \A e \in Pairs : Vetted(reviews[e]) => Vetted(reviews'[e])
    BY VettedGrows DEF RowsGrow, Inv, RowsOK
  <2>2. registry \subseteq Pairs /\ index \subseteq Pairs
    BY DEF Inv, TypeOK
  <2> QED
    BY <2>1, <2>2 DEF FilesOK, Inv, vanna
<1>5. LockOK'
  BY DEF LockOK, Inv, TypeOK, vanna
<1> QED
  BY <1>1, <1>2, <1>3, <1>4, <1>5 DEF Inv

\* An idle frame has read nothing.
LEMMA IdleFrame ==
  Idle \in FrameType /\ Idle.pc = "idle" /\ \A rows : FrameOK(Idle, rows)
  BY DEF Idle, FrameType, FrameOK

\* A step that touches no frame.
LEMMA StoreStep ==
  ASSUME Inv, RowsGrow, UNCHANGED <<vanna, thread>>,
         verdict' \in [Tasks -> Decisions \cup {"absent", ""}]
  PROVE  Inv'
<1>1. TypeOK'
  BY DEF Inv, TypeOK, RowsGrow, vanna
<1>2. RowsOK'
  BY DEF RowsGrow, RowsOK
<1>3. FramesOK'
  BY FrameStays DEF FramesOK, Inv, TypeOK
<1>4. FilesOK'
  <2>1. \A e \in Pairs : Vetted(reviews[e]) => Vetted(reviews'[e])
    BY VettedGrows DEF RowsGrow, Inv, RowsOK
  <2> QED
    BY <2>1 DEF FilesOK, Inv, TypeOK, vanna
<1>5. LockOK'
  BY DEF LockOK, Inv, vanna
<1> QED
  BY <1>1, <1>2, <1>3, <1>4, <1>5 DEF Inv

(***************************************************************************)
(* The steps.                                                              *)
(***************************************************************************)
\* What holds of a frame a thread starts from.
LEMMA FrameFacts ==
  ASSUME Inv, NEW w \in Threads
  PROVE  /\ thread[w] \in FrameType /\ FrameOK(thread[w], reviews)
         /\ verdict \in [Tasks -> Decisions \cup {"absent", ""}]
         /\ \A e \in Pairs : /\ reviews[e] \in RowType /\ RowOK(reviews[e])
                             /\ reviews[e].state # "absent" => reviews[e].task \in Tasks
                             /\ Vetted(reviews[e]) => reviews[e].state # "absent"
  BY QuestionSqlAssumption DEF Inv, TypeOK, FramesOK, RowsOK, RowOK, RowType, Vetted

\* The operations begin without writing, or record a verdict and end.
LEMMA StartStep == ASSUME Inv, NEW w \in Threads, Start(w) PROVE Inv'
<1>0. /\ thread[w] \in FrameType /\ RowsOK
      /\ \A e \in Pairs : reviews[e].state # "absent" => reviews[e].task \in Tasks
  BY FrameFacts DEF Inv
<1>1. ASSUME NEW t \in Tasks, NEW d \in Decisions, FeedbackOnly(t, d) PROVE Inv'
  BY <1>1, RecordFeedbackRows, StoreStep DEF FeedbackOnly
<1>2. ASSUME NEW f \in FrameType, Begin(w, f), FrameOK(f, reviews),
             f.pc \notin {"collect", "build"}
      PROVE  Inv'
  <2>1. RowsGrow /\ thread' = [thread EXCEPT ![w] = f] /\ UNCHANGED <<reviews, vanna, verdict>>
    BY <1>2, RowsStay DEF Begin, store
  <2>2. verdict' \in [Tasks -> Decisions \cup {"absent", ""}]
    BY <2>1 DEF Inv, TypeOK
  <2> QED
    BY <1>2, <2>1, <2>2, ThreadStep
<1>3. ASSUME NEW d \in Decisions, NEW c \in Pairs \cup {NoPair}, NEW t \in Tasks,
             Feedback(w, t, d, c)
      PROVE  Inv'
  <2> DEFINE p == IF d = "correct" THEN PairOf[t] ELSE c
             f == [Idle EXCEPT !.pc = IF p = NoPair THEN "record" ELSE "add",
                              !.task = t, !.pair = p, !.decision = d]
  <2>1. CASE FeedbackOnly(t, d)
    BY <1>1, <2>1
  <2>2. CASE Begin(w, f)
    <3>1. PairOf[t] \in Pairs /\ PairOf[t] # NoPair
      BY QuestionSqlAssumption
    <3>2. PICK a : a = IF p = NoPair THEN "record" ELSE "add"
      OBVIOUS
    <3>3. PICK g : g = [Idle EXCEPT !.pc = a, !.task = t, !.pair = p, !.decision = d]
      OBVIOUS
    <3>4. p \in Pairs \cup {NoPair} /\ a \in {"record", "add"}
      BY <3>1, <3>2
    <3>5. g \in FrameType /\ g.pc = a /\ g.task = t /\ g.pair = p /\ g.decision = d
          /\ g.corpus = {}
      <4> HIDE DEF p
      <4> QED
        BY <3>3, <3>4, IdleFrame DEF FrameType, Idle
    <3>6. FrameOK(g, reviews) /\ g.pc \notin {"collect", "build"}
      BY <3>1, <3>2, <3>5 DEF FrameOK, Decisions
    <3>7. Begin(w, g)
      BY <2>2, <3>2, <3>3
    <3> QED
      BY <1>2, <3>5, <3>6, <3>7
  <2> QED
    BY <1>3, <2>1, <2>2 DEF Feedback
<1>4. ASSUME NEW e \in Pairs, Begin(w, [Idle EXCEPT !.pc = "check", !.pair = e]) PROVE Inv'
  <2> DEFINE f == [Idle EXCEPT !.pc = "check", !.pair = e]
  <2>1. f \in FrameType /\ FrameOK(f, reviews) /\ f.pc = "check"
    BY DEF Idle, FrameType, FrameOK
  <2> HIDE DEF f
  <2> QED
    BY <1>2, <1>4, <2>1 DEF f
<1>5. ASSUME NEW d \in Decisions, NEW c \in Pairs \cup {NoPair}, NEW e \in Pairs,
             ReviewExperience(w, e, d, c)
      PROVE  Inv'
  <2> DEFINE f == [Idle EXCEPT !.pc = "record", !.task = reviews[e].task,
                              !.decision = d, !.correction = c]
  <2>1. reviews[e].task \in Tasks
    BY <1>0, <1>5 DEF ReviewExperience
  <2>2. CASE FeedbackOnly(reviews[e].task, d)
    BY <1>1, <2>1, <2>2
  <2>3. CASE d = "incorrect" /\ Begin(w, f)
    <3>1. PICK g : g = f
      OBVIOUS
    <3>2. PICK t \in Tasks : t = reviews[e].task
      BY <2>1
    <3>3. g \in FrameType /\ g.pc = "record" /\ g.task = t /\ g.decision = d /\ g.corpus = {}
      BY <3>1, <3>2, IdleFrame DEF FrameType, Idle
    <3>4. FrameOK(g, reviews) /\ g.pc \notin {"collect", "build"}
      BY <2>3, <3>3 DEF FrameOK
    <3> QED
      BY <1>2, <2>3, <3>1, <3>3, <3>4
  <2> QED
    BY <1>4, <1>5, <2>2, <2>3 DEF ReviewExperience
<1>6. ASSUME NEW e \in Pairs, Confirm(w, e) PROVE Inv'
  BY <1>4, <1>6 DEF Confirm
<1>7. ASSUME NEW e \in Pairs, Revoke(w, e) PROVE Inv'
  <2> DEFINE f == [Idle EXCEPT !.pc = "remove", !.pair = e, !.decision = "incorrect"]
  <2>1. f \in FrameType /\ FrameOK(f, reviews) /\ f.pc = "remove"
    BY DEF Idle, FrameType, FrameOK, Decisions
  <2> HIDE DEF f
  <2> QED
    BY <1>2, <1>7, <2>1 DEF Revoke, f
<1> QED
  BY <1>3, <1>5, <1>6, <1>7 DEF Start

\* The thread keeps its frame but for the point it goes to, or ends.
LEMMA GotoStep ==
  ASSUME Inv, NEW w \in Threads, NEW pc, RowsGrow, UNCHANGED vanna,
         Goto(w, pc) \/ End(w),
         NEW g \in FrameType, g = [thread[w] EXCEPT !.pc = pc], FrameOK(g, reviews'),
         g.pc \notin {"collect", "build"},
         verdict' \in [Tasks -> Decisions \cup {"absent", ""}]
  PROVE  Inv'
<1>1. CASE Goto(w, pc)
  <2>1. thread' = [thread EXCEPT ![w] = g]
    BY <1>1 DEF Goto, Inv, TypeOK
  <2> QED
    BY <2>1, ThreadStep
<1>2. CASE End(w)
  BY <1>2, IdleFrame, ThreadStep DEF End
<1> QED
  BY <1>1, <1>2

\* Threads write and read the evolution store.
LEMMA StoreSteps ==
  ASSUME Inv, NEW w \in Threads,
         \/ AddPair(w) \/ RecordDecision(w) \/ AddCorrection(w) \/ CheckConfirm(w)
         \/ Approve(w) \/ MarkCorrect(w) \/ CheckPromote(w) \/ Promote(w)
         \/ CheckReject(w) \/ Reject(w)
  PROVE  Inv'
<1> DEFINE f == thread[w]
<1>0. /\ f \in FrameType /\ FrameOK(f, reviews)
      /\ verdict \in [Tasks -> Decisions \cup {"absent", ""}]
      /\ \A e \in Pairs : /\ reviews[e] \in RowType /\ RowOK(reviews[e])
                          /\ reviews[e].state # "absent" => reviews[e].task \in Tasks
                          /\ Vetted(reviews[e]) => reviews[e].state # "absent"
  BY FrameFacts
<1>1. ASSUME NEW pc \in {"idle", "record", "check", "correct", "publish", "mark", "promoted",
                         "rejected"},
             NEW g, g = [f EXCEPT !.pc = pc]
      PROVE  /\ g \in FrameType /\ g.pc = pc /\ g.task = f.task /\ g.pair = f.pair
             /\ g.decision = f.decision /\ g.correction = f.correction
             /\ g.awaiting = f.awaiting /\ g.corpus = f.corpus
  BY <1>0, <1>1 DEF FrameType
<1>2. ASSUME RowsGrow PROVE FrameOK(f, reviews')
  BY <1>0, <1>2, FrameStays
<1>3. CASE AddPair(w)
  <2>1. f.pc = "add" /\ f.pair \in Pairs /\ f.task \in Tasks /\ f.decision \in Decisions
    BY <1>0, <1>3 DEF AddPair, At, FrameOK
  <2>2. RowsGrow
    <3>1. AddCandidate(f.pair, f.task, TRUE)
      BY <1>3 DEF AddPair
    <3> QED
      BY <2>1, <3>1, AddCandidateRows
  <2>3. PICK g : g = [f EXCEPT !.pc = "record"]
    OBVIOUS
  <2>4. /\ g \in FrameType /\ g.pc = "record" /\ g.task = f.task /\ g.pair = f.pair
        /\ g.decision = f.decision /\ g.corpus = f.corpus
    BY <1>1, <2>3
  <2>5. FrameOK(g, reviews')
    BY <1>2, <2>1, <2>2, <2>4 DEF FrameOK
  <2>6. Goto(w, "record") /\ UNCHANGED <<verdict, vanna>>
    BY <1>3 DEF AddPair
  <2> QED
    BY <1>0, <2>2, <2>3, <2>4, <2>5, <2>6, GotoStep
<1>4. CASE RecordDecision(w)
  <2>1. /\ f.pc = "record" /\ f.task \in Tasks /\ f.decision \in Decisions
        /\ f.decision = "correct" => f.pair \in Pairs
    BY <1>0, <1>4 DEF RecordDecision, At, FrameOK
  <2>2. RowsGrow /\ verdict' \in [Tasks -> Decisions \cup {"absent", ""}]
    BY <1>4, <2>1, RecordFeedbackRows DEF RecordDecision
  <2>3. PICK pc \in {"check", "correct", "idle"} :
          /\ pc = CASE f.decision = "correct" -> "check"
                    [] f.correction # NoPair  -> "correct"
                    [] OTHER                  -> "idle"
          /\ Goto(w, pc) \/ End(w)
          /\ UNCHANGED vanna
    BY <1>4 DEF RecordDecision
  <2>4. (pc = "check" => f.pair \in Pairs) /\ (pc = "correct" => f.correction \in Pairs)
    BY <1>0, <2>1, <2>3 DEF FrameType
  <2>5. PICK g : g = [f EXCEPT !.pc = pc]
    OBVIOUS
  <2>6. /\ g \in FrameType /\ g.pc = pc /\ g.task = f.task /\ g.pair = f.pair
        /\ g.decision = f.decision /\ g.correction = f.correction /\ g.corpus = f.corpus
    BY <1>1, <2>3, <2>5
  <2>7. FrameOK(g, reviews')
    BY <1>2, <2>1, <2>2, <2>3, <2>4, <2>6 DEF FrameOK
  <2> QED
    BY <2>2, <2>3, <2>5, <2>6, <2>7, GotoStep
<1>5. CASE AddCorrection(w)
  <2>1. f.correction \in Pairs /\ f.task \in Tasks
    BY <1>0, <1>5 DEF AddCorrection, At, FrameOK
  <2>2. RowsGrow
    <3>1. AddCandidate(f.correction, f.task, TRUE)
      BY <1>5 DEF AddCorrection
    <3> QED
      BY <2>1, <3>1, AddCandidateRows
  <2> QED
    BY <1>0, <1>5, <2>2, IdleFrame, ThreadStep DEF AddCorrection, End
<1>6. CASE CheckConfirm(w)
  <2> DEFINE e == f.pair
             row == reviews[e]
             pc == IF row.state = "promoted" THEN "publish" ELSE "approve"
             g == [Idle EXCEPT !.pc = pc, !.pair = e, !.awaiting = Awaiting(row)]
  <2>1. e \in Pairs
    BY <1>0, <1>6 DEF CheckConfirm, At, FrameOK
  <2>2. RowsGrow
    BY <1>6, RowsStay DEF CheckConfirm, store
  <2>3. CASE Acceptable(row) /\ thread' = [thread EXCEPT ![w] = g]
    <3>1. Awaiting(row) \in BOOLEAN
      BY DEF Awaiting
    <3>2. /\ g \in FrameType /\ g.pc = pc /\ g.pair = e /\ g.awaiting = Awaiting(row)
          /\ g.corpus = {}
      BY <2>1, <3>1 DEF Idle, FrameType
    <3> HIDE DEF g
    <3>3. row.task \in Production /\ (row.state = "promoted" => Vetted(row))
      BY <1>0, <2>1, <2>3 DEF Acceptable, RowOK
    <3>4. row.state # "promoted" => Awaiting(row) \/ row.feedback # ""
      BY <2>3 DEF Acceptable, Confirmed
    <3>5. FrameOK(g, reviews)
      BY <2>1, <3>2, <3>3, <3>4 DEF FrameOK
    <3>6. FrameOK(g, reviews')
      BY <2>2, <3>2, <3>5, FrameStays
    <3>7. g.pc \notin {"collect", "build"}
      BY <3>2
    <3> QED
      BY <1>0, <1>6, <2>2, <2>3, <3>2, <3>6, <3>7, ThreadStep DEF CheckConfirm, store
  <2>4. CASE End(w)
    BY <1>0, <1>6, <2>2, <2>4, IdleFrame, ThreadStep DEF CheckConfirm, End, store
  <2> QED
    BY <1>6, <2>3, <2>4 DEF CheckConfirm
<1>7. CASE Approve(w)
  <2> DEFINE e == f.pair
             pc == IF f.awaiting THEN "mark" ELSE "publish"
  <2>1. /\ e \in Pairs /\ reviews[e].task \in Production
        /\ f.awaiting \/ reviews[e].feedback # ""
    BY <1>0, <1>7 DEF Approve, At, FrameOK
  <2>2. reviews[e].task \in Tasks /\ reviews[e].state # "absent"
    BY <1>0, <2>1, QuestionSqlAssumption DEF RowOK
  <2>3. /\ RowsGrow /\ reviews'[e].eligible /\ reviews'[e].task = reviews[e].task
        /\ reviews'[e].feedback = reviews[e].feedback
    <3>1. AddCandidate(e, reviews[e].task, TRUE)
      BY <1>7 DEF Approve
    <3> QED
      BY <2>1, <2>2, <3>1, AddCandidateRows
  <2>4. PICK g : g = [f EXCEPT !.pc = pc]
    OBVIOUS
  <2>5. /\ g \in FrameType /\ g.pc = pc /\ g.pair = f.pair /\ g.awaiting = f.awaiting
        /\ g.corpus = f.corpus
    BY <1>1, <2>4
  <2>6. FrameOK(g, reviews')
    BY <1>2, <2>1, <2>3, <2>5 DEF FrameOK, Vetted
  <2>7. Goto(w, g.pc) /\ g = [f EXCEPT !.pc = g.pc] /\ UNCHANGED <<verdict, vanna>>
    BY <1>7, <2>4, <2>5 DEF Approve
  <2>8. g.pc \notin {"collect", "build"}
    BY <2>5
  <2> QED
    BY <1>0, <2>3, <2>5, <2>6, <2>7, <2>8, GotoStep
<1>8. CASE MarkCorrect(w)
  <2>1. f.pair \in Pairs /\ reviews[f.pair].task \in Production /\ reviews[f.pair].eligible
    BY <1>0, <1>8 DEF MarkCorrect, At, FrameOK
  <2>2. reviews[f.pair].task \in Tasks /\ "correct" \in Decisions
    BY <2>1, QuestionSqlAssumption DEF Decisions
  <2>3. /\ RowsGrow /\ reviews'[f.pair].feedback # ""
        /\ verdict' \in [Tasks -> Decisions \cup {"absent", ""}]
    BY <1>8, <2>1, <2>2, RecordFeedbackRows DEF MarkCorrect
  <2>4. Vetted(reviews'[f.pair])
    BY <1>0, <2>1, <2>2, <2>3, QuestionSqlAssumption DEF RowsGrow, Grows, Vetted, RowOK
  <2>5. PICK g : g = [f EXCEPT !.pc = "publish"]
    OBVIOUS
  <2>6. g \in FrameType /\ g.pc = "publish" /\ g.pair = f.pair /\ g.corpus = f.corpus
    BY <1>1, <2>5
  <2>7. FrameOK(g, reviews')
    BY <1>2, <2>1, <2>3, <2>4, <2>6 DEF FrameOK
  <2>8. Goto(w, "publish") /\ UNCHANGED vanna
    BY <1>8 DEF MarkCorrect
  <2> QED
    BY <2>3, <2>5, <2>6, <2>7, <2>8, GotoStep
<1>9. CASE CheckPromote(w)
  <2>1. f.pair \in Pairs /\ Vetted(reviews[f.pair])
    BY <1>0, <1>9 DEF CheckPromote, At, FrameOK
  <2>2. RowsGrow /\ UNCHANGED reviews
    BY <1>9, RowsStay DEF CheckPromote, store
  <2>3. PICK g : g = [f EXCEPT !.pc = "promoted"]
    OBVIOUS
  <2>4. g \in FrameType /\ g.pc = "promoted" /\ g.pair = f.pair /\ g.corpus = f.corpus
    BY <1>1, <2>3
  <2>5. FrameOK(g, reviews')
    BY <1>2, <2>1, <2>2, <2>4 DEF FrameOK
  <2>6. (Goto(w, "promoted") \/ End(w)) /\ UNCHANGED <<verdict, vanna>>
    BY <1>9 DEF CheckPromote, store
  <2> QED
    BY <1>0, <2>2, <2>3, <2>4, <2>5, <2>6, GotoStep
<1>10. CASE Promote(w)
  <2> DEFINE e == f.pair
  <2>1. e \in Pairs /\ Vetted(reviews[e])
    BY <1>0, <1>10 DEF Promote, At, FrameOK
  <2>2. /\ [reviews[e] EXCEPT !.state = "promoted"] \in RowType
        /\ RowOK([reviews[e] EXCEPT !.state = "promoted"])
        /\ Grows(reviews[e], [reviews[e] EXCEPT !.state = "promoted"])
    BY <1>0, <2>1, DecidedRow
  <2>3. reviews' = [reviews EXCEPT ![e] = [reviews[e] EXCEPT !.state = "promoted"]]
    BY <1>10, <2>1 DEF Promote, Inv, TypeOK
  <2>4. RowsGrow
    BY <1>0, <2>1, <2>2, <2>3 DEF RowsGrow, Grows, Inv, TypeOK
  <2> QED
    BY <1>0, <1>10, <2>4, IdleFrame, ThreadStep DEF Promote, End
<1>11. CASE CheckReject(w)
  <2>1. f.pair \in Pairs
    BY <1>0, <1>11 DEF CheckReject, At, FrameOK
  <2>2. RowsGrow /\ UNCHANGED reviews
    BY <1>11, RowsStay DEF CheckReject, store
  <2>3. CASE reviews[f.pair].state = "promoted"
    <3>1. Vetted(reviews[f.pair])
      BY <1>0, <2>1, <2>3 DEF RowOK
    <3>2. PICK g : g = [f EXCEPT !.pc = "rejected"]
      OBVIOUS
    <3>3. g \in FrameType /\ g.pc = "rejected" /\ g.pair = f.pair /\ g.corpus = f.corpus
      BY <1>1, <3>2
    <3>4. FrameOK(g, reviews')
      BY <1>2, <2>1, <2>2, <3>1, <3>3 DEF FrameOK
    <3>5. (Goto(w, "rejected") \/ End(w)) /\ UNCHANGED <<verdict, vanna>>
      BY <1>11 DEF CheckReject, store
    <3> QED
      BY <1>0, <2>2, <3>2, <3>3, <3>4, <3>5, GotoStep
  <2>4. CASE End(w)
    BY <1>0, <1>11, <2>2, <2>4, IdleFrame, ThreadStep DEF CheckReject, End, store
  <2> QED
    BY <1>11, <2>3, <2>4 DEF CheckReject
<1>12. CASE Reject(w)
  <2> DEFINE e == f.pair
             row == [reviews[e] EXCEPT !.state = "rejected", !.feedback = "incorrect"]
  <2>1. e \in Pairs /\ Vetted(reviews[e])
    BY <1>0, <1>12 DEF Reject, At, FrameOK
  <2>2. row \in RowType /\ RowOK(row) /\ Grows(reviews[e], row)
    BY <1>0, <2>1, DecidedRow
  <2>3. reviews' = [reviews EXCEPT ![e] = row]
    BY <1>12, <2>1 DEF Reject, Inv, TypeOK
  <2>4. RowsGrow
    <3> HIDE DEF row
    <3> QED
      BY <1>0, <2>1, <2>2, <2>3 DEF RowsGrow, Grows, Inv, TypeOK
  <2> QED
    BY <1>0, <1>12, <2>4, IdleFrame, ThreadStep DEF Reject, End
<1> QED
  BY <1>3, <1>4, <1>5, <1>6, <1>7, <1>8, <1>9, <1>10, <1>11, <1>12

\* Whoever has the lock is alone with the files.
LEMMA LockFacts ==
  ASSUME Inv, NEW w \in Threads, NEW v \in Threads, thread[v].pc \in {"collect", "build"}
  PROVE  /\ lock = v /\ lock # NoThread
         /\ v # w => lock # w
  BY QuestionSqlAssumption DEF Inv, LockOK

\* The steps that publish.
LEMMA FileSteps ==
  ASSUME Inv, NEW w \in Threads,
         Publish(w) \/ Collect(w) \/ Build(w) \/ Remove(w) \/ Fail(w)
  PROVE  Inv'
<1> DEFINE f == thread[w]
<1>0. /\ f \in FrameType /\ FrameOK(f, reviews)
      /\ thread \in [Threads -> FrameType] /\ \A v \in Threads : FrameOK(thread[v], reviews)
      /\ registry \subseteq Pairs /\ index \subseteq Pairs /\ lock \in Threads \cup {NoThread}
  BY FrameFacts DEF Inv, TypeOK, FramesOK
<1>1. ASSUME NEW g \in FrameType, UNCHANGED store, FrameOK(g, reviews),
             thread' = [thread EXCEPT ![w] = g],
             registry' \subseteq Pairs, index' \subseteq Pairs, lock' \in Threads \cup {NoThread},
             \A e \in registry' \cup index' : Vetted(reviews[e]),
             g.pc \in {"collect", "build"} => lock' = w,
             g.pc = "build" => g.corpus = registry',
             \A v \in Threads : v # w /\ thread[v].pc \in {"collect", "build"} =>
                 lock' = lock /\ registry' = registry
      PROVE  Inv'
  <2>1. \A v \in Threads : thread'[v] = IF v = w THEN g ELSE thread[v]
    BY <1>0, <1>1
  <2>2. UNCHANGED <<verdict, reviews>>
    BY <1>1 DEF store
  <2>3. TypeOK'
    BY <1>0, <1>1, <2>2 DEF Inv, TypeOK
  <2>4. RowsOK' /\ FilesOK'
    BY <1>1, <2>2 DEF Inv, RowsOK, FilesOK
  <2>5. FramesOK'
    BY <1>0, <1>1, <2>1, <2>2 DEF FramesOK
  <2>6. LockOK'
    BY <1>1, <2>1 DEF Inv, LockOK
  <2> QED
    BY <2>3, <2>4, <2>5, <2>6 DEF Inv
<1>2. \A e \in registry \cup index : Vetted(reviews[e])
  BY DEF Inv, FilesOK
<1>3. CASE Publish(w)
  <2>1. PICK g : g = [f EXCEPT !.pc = "collect", !.decision = "correct"]
    OBVIOUS
  <2>2. /\ g \in FrameType /\ g.pc = "collect" /\ g.decision = "correct"
        /\ g.pair = f.pair /\ g.corpus = f.corpus
    BY <1>0, <2>1 DEF FrameType, Decisions
  <2>3. f.pair \in Pairs /\ Vetted(reviews[f.pair])
    BY <1>0, <1>3 DEF Publish, At, FrameOK
  <2>4. FrameOK(g, reviews)
    BY <1>0, <2>2, <2>3 DEF FrameOK
  <2>5. thread' = [thread EXCEPT ![w] = g]
    BY <1>0, <1>3, <2>1 DEF Publish
  <2>6. /\ UNCHANGED <<store, index>> /\ lock = NoThread /\ lock' = w
        /\ registry' = registry \cup {f.pair}
    BY <1>3 DEF Publish
  <2>7. \A v \in Threads : thread[v].pc \notin {"collect", "build"}
    BY <2>6, LockFacts
  <2> QED
    BY <1>0, <1>1, <1>2, <2>2, <2>3, <2>4, <2>5, <2>6, <2>7
<1>4. CASE Collect(w)
  <2>1. PICK g : g = [f EXCEPT !.pc = "build", !.corpus = registry]
    OBVIOUS
  <2>2. /\ g \in FrameType /\ g.pc = "build" /\ g.decision = f.decision
        /\ g.pair = f.pair /\ g.corpus = registry
    BY <1>0, <2>1 DEF FrameType
  <2>3. f.pc = "collect"
    BY <1>4 DEF Collect, At
  <2>4. FrameOK(g, reviews)
    BY <1>0, <1>2, <2>2, <2>3 DEF FrameOK
  <2>5. thread' = [thread EXCEPT ![w] = g]
    BY <1>0, <1>4, <2>1 DEF Collect
  <2>6. UNCHANGED <<store, registry, index, lock>>
    BY <1>4 DEF Collect, vanna
  <2>7. lock = w
    BY <2>3, LockFacts
  <2> QED
    BY <1>0, <1>1, <1>2, <2>2, <2>4, <2>5, <2>6, <2>7
<1>5. CASE Build(w)
  <2>1. PICK pc \in {"promote", "reject"} :
          /\ pc = IF f.decision = "correct" THEN "promote" ELSE "reject"
          /\ thread' = [thread EXCEPT ![w].corpus = {}, ![w].pc = pc]
    BY <1>5 DEF Build
  <2>2. PICK g : g = [f EXCEPT !.corpus = {}, !.pc = pc]
    OBVIOUS
  <2>3. /\ g \in FrameType /\ g.pc = pc /\ g.decision = f.decision
        /\ g.pair = f.pair /\ g.corpus = {}
    BY <1>0, <2>1, <2>2 DEF FrameType
  <2>4. f.pc = "build"
    BY <1>5 DEF Build, At
  <2>5. FrameOK(g, reviews)
    BY <1>0, <2>1, <2>3, <2>4 DEF FrameOK
  <2>6. thread' = [thread EXCEPT ![w] = g]
    BY <1>0, <2>1, <2>2
  <2>7. UNCHANGED <<store, registry>> /\ index' = f.corpus /\ lock' = NoThread
    BY <1>5 DEF Build
  <2>8. f.corpus \subseteq Pairs /\ \A e \in f.corpus : Vetted(reviews[e])
    BY <1>0 DEF FrameOK, FrameType
  <2>9. \A v \in Threads : v # w => thread[v].pc \notin {"collect", "build"}
    BY <2>4, LockFacts
  <2> QED
    BY <1>0, <1>1, <1>2, <2>1, <2>3, <2>5, <2>6, <2>7, <2>8, <2>9
<1>6. CASE Remove(w)
  <2>1. PICK g : g = [f EXCEPT !.pc = "collect"]
    OBVIOUS
  <2>2. /\ g \in FrameType /\ g.pc = "collect" /\ g.decision = f.decision
        /\ g.pair = f.pair /\ g.corpus = f.corpus
    BY <1>0, <2>1 DEF FrameType
  <2>3. f.pc = "remove" /\ f.decision = "incorrect"
    BY <1>0, <1>6 DEF Remove, At, FrameOK
  <2>4. lock = NoThread /\ UNCHANGED <<store, index>>
    BY <1>6 DEF Remove
  <2>5. \A v \in Threads : thread[v].pc \notin {"collect", "build"}
    BY <2>4, LockFacts
  <2>6. CASE lock' = w /\ registry' = registry \ {f.pair} /\ Goto(w, "collect")
    <3>1. FrameOK(g, reviews)
      BY <1>0, <2>2, <2>3 DEF FrameOK
    <3>2. thread' = [thread EXCEPT ![w] = g]
      BY <1>0, <2>1, <2>6 DEF Goto
    <3> QED
      BY <1>0, <1>1, <1>2, <2>2, <2>4, <2>5, <2>6, <3>1, <3>2
  <2>7. CASE End(w) /\ UNCHANGED <<registry, lock>>
    BY <1>0, <1>1, <1>2, <2>4, <2>5, <2>7, IdleFrame DEF End
  <2> QED
    BY <1>6, <2>6, <2>7 DEF Remove
<1>7. CASE Fail(w)
  BY <1>0, <1>1, <1>2, <1>7, IdleFrame, LockFacts DEF Fail, End, store
<1> QED
  BY <1>3, <1>4, <1>5, <1>6, <1>7

(***************************************************************************)
(* The theorems.                                                           *)
(***************************************************************************)
\* The invariant holds at the start,
LEMMA InitInv == Init => Inv
<1> SUFFICES ASSUME Init PROVE Inv
  OBVIOUS
<1>1. NoReview \in RowType /\ RowOK(NoReview)
  BY DEF NoReview, RowType, RowOK
<1>2. TypeOK
  BY <1>1, IdleFrame DEF Init, TypeOK
<1>3. RowsOK /\ FramesOK /\ FilesOK
  BY <1>1, IdleFrame DEF Init, RowsOK, FramesOK, FilesOK
<1>4. LockOK
  BY IdleFrame DEF Init, LockOK
<1> QED
  BY <1>2, <1>3, <1>4 DEF Inv

\* and every step keeps it.
LEMMA NextInv == Inv /\ [Next]_vars => Inv'
<1> SUFFICES ASSUME Inv, [Next]_vars PROVE Inv'
  OBVIOUS
<1>1. ASSUME NEW t \in Tasks, Remember(t) PROVE Inv'
  <2>1. PairOf[t] \in Pairs /\ AddCandidate(PairOf[t], t, FALSE)
    BY <1>1, QuestionSqlAssumption DEF Remember
  <2>2. RowsGrow
    BY <2>1, AddCandidateRows
  <2>3. verdict' \in [Tasks -> Decisions \cup {"absent", ""}] /\ UNCHANGED <<vanna, thread>>
    BY <1>1 DEF Remember, Inv, TypeOK
  <2> QED
    BY <2>2, <2>3, StoreStep
<1>2. ASSUME NEW w \in Threads, Start(w) \/ Continue(w) \/ Fail(w) PROVE Inv'
  BY <1>2, StartStep, StoreSteps, FileSteps DEF Continue
<1>3. CASE UNCHANGED vars
  <2>1. RowsGrow /\ UNCHANGED <<vanna, thread, verdict>>
    BY <1>3, RowsStay DEF vars, store
  <2>2. verdict' \in [Tasks -> Decisions \cup {"absent", ""}]
    BY <2>1 DEF Inv, TypeOK
  <2> QED
    BY <2>1, <2>2, StoreStep
<1> QED
  BY <1>1, <1>2, <1>3 DEF Next

\* The rows, the files and the frames keep their types.
THEOREM Types == Spec => []TypeOK
<1>1. Inv => TypeOK
  BY DEF Inv
<1> QED
  BY <1>1, InitInv, NextInv, PTL DEF Spec

\* Nothing unvetted is retrieved: what confirm_experience read of a row still holds when the
\* pair reaches the registry, because no transaction takes a verdict, an eligibility or the
\* task of a row back.
THEOREM RetrievalIsVetted == Spec => []OnlyVettedIsRetrieved
<1>1. Inv => OnlyVettedIsRetrieved
  BY DEF Inv, FilesOK, OnlyVettedIsRetrieved, Vetted
<1> QED
  BY <1>1, InitInv, NextInv, PTL DEF Spec

\* Whoever builds the index holds _VANNA_PUBLISH_LOCK since it changed the registry, so
\* what it collected is the registry still.
THEOREM IndexIsTheRegistry == Spec => PublishesTheRegistry
<1>1. Inv /\ [Next]_vars => [index' # index => index' = registry]_vars
  <2> SUFFICES ASSUME Inv, Next, index' # index PROVE index' = registry
    OBVIOUS
  <2>1. PICK w \in Threads : Start(w) \/ Continue(w) \/ Fail(w)
    BY DEF Next, Remember, vanna
  <2>2. ~Start(w)
    BY DEF Start, Feedback, FeedbackOnly, ReviewExperience, Begin, Confirm, Revoke, vanna
  <2>3. ~Fail(w)
    BY DEF Fail
  <2>4. CASE Continue(w) /\ ~Build(w)
    BY <2>4 DEF Continue, AddPair, RecordDecision, AddCorrection, CheckConfirm, Approve,
       MarkCorrect, Publish, Collect, CheckPromote, Promote, Remove, CheckReject, Reject, vanna
  <2>5. CASE Build(w)
    BY <2>5 DEF Build, At, Inv, LockOK
  <2> QED
    BY <2>1, <2>2, <2>3, <2>4, <2>5
<1> QED
  BY <1>1, InitInv, NextInv, PTL DEF Spec, PublishesTheRegistry
=============================================================================
