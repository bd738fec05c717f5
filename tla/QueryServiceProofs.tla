-------------------------- MODULE QueryServiceProofs ---------------------------
(***************************************************************************)
(* Answers, contexts, side effects and evidence of a task, for any number   *)
(* of requests, releases and sessions.                                     *)
(***************************************************************************)
EXTENDS QueryService, TLAPS

(***************************************************************************)
(* The inductive invariant.                                                *)
(***************************************************************************)
\* A result that its lane's run still holds.
Durable(x, rns) == x \in Answers /\ (x # NoResult => rns[x[1]].result = x)

\* What a frame knows of the store stays true.
FrameOK(f, row, rns, log, lessons) ==
    /\ Durable(f.stable, rns) /\ Durable(f.candidate, rns) /\ Durable(f.answer, rns)
    /\ f.pc \in {"question", "assign", "acquire", "run"} =>
          row.status # "missing" /\ f.identity = row.identity
    /\ f.pc \in {"save", "errorSave"} => f.revision >= 1
    /\ f.pc = "learn" => \E i \in DOMAIN log : log[i].result = f.answer
    /\ f.pc \in {"answer", "finish"} /\ ~f.degraded =>
          \E i \in DOMAIN log : log[i].result = f.answer
    /\ f.pc \in {"answer", "finish"} /\ ~f.degraded /\ f.rollout = "off" =>
          \E e \in lessons : e.result = f.answer

\* The runs of the task are in its frozen context, and none is owned and finished.
RunsOK(row, rns) ==
    \A l \in Lanes :
        /\ rns[l].identity \in {NoIdentity, row.identity}
        /\ row.status = "missing" => rns[l].identity = NoIdentity
        /\ rns[l].owner # NoRequest => rns[l].result = NoResult
        /\ rns[l].result # NoResult => rns[l].result[1] = l

RowsOK ==
    /\ RunsOK(attempt, runs) /\ Durable(attempt.response, runs)
    /\ ProjectionIsLatest /\ OneMessagePerRole /\ OneExperiencePerRun

FramesOK == \A q \in Requests : FrameOK(request[q], attempt, runs, trace, learned)

Inv == TypeOK /\ RowsOK /\ FramesOK

\* What the transactions never take back.
AttemptGrows ==
    attempt.status # "missing" =>
        attempt'.status # "missing" /\ attempt'.identity = attempt.identity
RunsGrow == \A x : Durable(x, runs) => Durable(x, runs')
TraceGrows == \A i \in DOMAIN trace : i \in DOMAIN trace' /\ trace'[i] = trace[i]
StoreGrows == AttemptGrows /\ RunsGrow /\ TraceGrows /\ learned \subseteq learned'

(***************************************************************************)
(* Steps in general.                                                       *)
(***************************************************************************)
StoreType ==
    /\ attempt \in [status : {"missing", "pending", "completed", "error"},
                    identity : Identity \cup {NoIdentity}, response : Answers]
    /\ runs \in [Lanes -> [identity : Identity \cup {NoIdentity},
                           owner : Requests \cup {NoRequest}, result : Answers]]
    /\ trace \in Seq(TraceType) /\ projection \in TraceType
    /\ messages \in Seq({"user", "assistant"})
    /\ learned \subseteq [result : Answers, revision : Nat]

\* A frame stays right while other requests write.
LEMMA FrameStays ==
  ASSUME StoreGrows, NEW f, FrameOK(f, attempt, runs, trace, learned)
  PROVE  FrameOK(f, attempt', runs', trace', learned')
  BY DEF StoreGrows, AttemptGrows, RunsGrow, TraceGrows, FrameOK

\* What a step of a request has to show.
LEMMA RequestStep ==
  ASSUME Inv, NEW q \in Requests, NEW f \in FrameType, request' = [request EXCEPT ![q] = f],
         StoreGrows, StoreType', RowsOK', FrameOK(f, attempt', runs', trace', learned')
  PROVE  Inv'
<1>1. \A r \in Requests : request'[r] = IF r = q THEN f ELSE request[r]
  BY DEF Inv, TypeOK
<1>2. TypeOK'
  BY DEF Inv, TypeOK, StoreType
<1>3. FramesOK'
  BY <1>1, FrameStays DEF Inv, FramesOK
<1> QED
  BY <1>2, <1>3 DEF Inv

\* A step of nobody's.
LEMMA OtherStep ==
  ASSUME Inv, UNCHANGED request, StoreGrows, StoreType', RowsOK' PROVE Inv'
<1>1. TypeOK'
  BY DEF Inv, TypeOK, StoreType
<1>2. FramesOK'
  BY FrameStays DEF Inv, FramesOK
<1> QED
  BY <1>1, <1>2 DEF Inv

\* What holds at every step.
LEMMA Facts ==
  ASSUME Inv
  PROVE  /\ StoreType /\ RowsOK
         /\ \A q \in Requests : /\ request[q] \in FrameType
                                /\ FrameOK(request[q], attempt, runs, trace, learned)
         /\ request \in [Requests -> FrameType]
  BY DEF Inv, TypeOK, StoreType, FramesOK

\* A step that writes neither store nor runs.
LEMMA StoreStays ==
  ASSUME Inv, UNCHANGED <<store, runs>>
  PROVE  StoreGrows /\ StoreType' /\ RowsOK'
<1>1. StoreType /\ RowsOK /\ UNCHANGED <<attempt, trace, projection, messages, learned, runs>>
  BY Facts DEF store
<1>2. StoreGrows
  BY <1>1 DEF StoreGrows, AttemptGrows, RunsGrow, TraceGrows
<1>3. StoreType'
  BY <1>1 DEF StoreType
<1>4. RowsOK'
  BY <1>1 DEF RowsOK, RunsOK, ProjectionIsLatest, OneMessagePerRole, OneExperiencePerRun
<1> QED
  BY <1>2, <1>3, <1>4

\* A step that changes a frame and nothing else.
LEMMA FrameStep ==
  ASSUME Inv, NEW q \in Requests, NEW f \in FrameType, UNCHANGED <<store, runs>>,
         request' = [request EXCEPT ![q] = f], FrameOK(f, attempt, runs, trace, learned)
  PROVE  Inv'
  BY StoreStays, FrameStays, RequestStep

(***************************************************************************)
(* Frames.                                                                 *)
(***************************************************************************)
\* The points at which a frame promises nothing about the store.
Free == {"idle", "prepare", "observe", "revision", "errorRevision", "errorFinish",
         "answered", "cached", "refused", "failed", "dead"}

LEMMA IdleType ==
  /\ Idle \in FrameType /\ Idle.pc = "idle" /\ Idle.stable = NoResult
  /\ Idle.candidate = NoResult /\ Idle.answer = NoResult /\ Idle.revision = 0
  BY DEF Idle, FrameType, Rollouts, Lanes, Answers

\* A frame that only keeps what it answers.
LEMMA ReturnFrame ==
  ASSUME NEW pc \in Free, NEW x \in Answers, NEW g,
         g = [Idle EXCEPT !.pc = pc, !.answer = x],
         NEW row, NEW rns, NEW log, NEW lessons, Durable(x, rns)
  PROVE  g \in FrameType /\ FrameOK(g, row, rns, log, lessons)
<1>1. /\ g \in FrameType /\ g.pc = pc /\ g.answer = x /\ g.stable = NoResult
      /\ g.candidate = NoResult
  BY IdleType DEF FrameType, Free
<1>2. Durable(NoResult, rns)
  BY DEF Durable, Answers
<1> QED
  BY <1>1, <1>2 DEF FrameOK, Free

\* The frame of the error path.
LEMMA ErrorFrame ==
  ASSUME NEW g, g = [Idle EXCEPT !.pc = "errorRevision"],
         NEW row, NEW rns, NEW log, NEW lessons
  PROVE  g \in FrameType /\ FrameOK(g, row, rns, log, lessons)
<1>1. /\ g \in FrameType /\ g.pc = "errorRevision" /\ g.answer = NoResult
      /\ g.stable = NoResult /\ g.candidate = NoResult
  BY IdleType DEF FrameType
<1>2. Durable(NoResult, rns)
  BY DEF Durable, Answers
<1> QED
  BY <1>1, <1>2 DEF FrameOK

\* The frame that has its answer.
LEMMA ConcludeFrame ==
  ASSUME NEW r \in Rollouts, NEW x \in Answers, NEW g,
         g = [Idle EXCEPT !.pc = "revision", !.rollout = r, !.answer = x],
         NEW row, NEW rns, NEW log, NEW lessons, Durable(x, rns)
  PROVE  g \in FrameType /\ FrameOK(g, row, rns, log, lessons)
<1>1. /\ g \in FrameType /\ g.pc = "revision" /\ g.answer = x
      /\ g.stable = NoResult /\ g.candidate = NoResult
  BY IdleType DEF FrameType
<1>2. Durable(NoResult, rns)
  BY DEF Durable, Answers
<1> QED
  BY <1>1, <1>2 DEF FrameOK

\* The fields of a frame that goes on.
LEMMA GoesOn ==
  ASSUME NEW f \in FrameType, NEW pc, NEW g, g = [f EXCEPT !.pc = pc],
         pc \in Free \cup {"question", "assign", "acquire", "run", "save", "learn", "answer",
                           "finish", "errorSave"}
  PROVE  /\ g \in FrameType /\ g.pc = pc /\ g.identity = f.identity
         /\ g.rollout = f.rollout /\ g.lane = f.lane /\ g.stable = f.stable
         /\ g.candidate = f.candidate /\ g.revision = f.revision
         /\ g.degraded = f.degraded /\ g.answer = f.answer
  BY DEF FrameType, Free

\* A frame that goes on to a point that promises no more.
LEMMA GotoStep ==
  ASSUME Inv, NEW q \in Requests, NEW pc, Goto(q, pc), StoreGrows, StoreType', RowsOK',
         \/ pc \in Free
         \/ /\ pc \in {"question", "assign", "acquire", "run"}
            /\ attempt'.status # "missing" /\ request[q].identity = attempt'.identity
         \/ /\ pc = "learn"
            /\ \E i \in DOMAIN trace' : trace'[i].result = request[q].answer
         \/ /\ pc = "answer" /\ request[q].pc = "learn"
            /\ request[q].rollout = "off" =>
                 \E e \in learned' : e.result = request[q].answer
         \/ pc = "finish" /\ request[q].pc = "answer"
  PROVE  Inv'
<1>1. PICK g : g = [request[q] EXCEPT !.pc = pc]
  OBVIOUS
<1>2. /\ request[q] \in FrameType /\ request \in [Requests -> FrameType]
      /\ FrameOK(request[q], attempt', runs', trace', learned')
  BY Facts, FrameStays
<1>3. /\ g \in FrameType /\ g.pc = pc /\ g.identity = request[q].identity
      /\ g.rollout = request[q].rollout /\ g.stable = request[q].stable
      /\ g.candidate = request[q].candidate /\ g.revision = request[q].revision
      /\ g.degraded = request[q].degraded /\ g.answer = request[q].answer
  <2>1. pc \in Free \cup {"question", "assign", "acquire", "run", "save", "learn", "answer",
                           "finish", "errorSave"}
    OBVIOUS
  <2> QED
    BY <1>1, <1>2, <2>1, GoesOn
<1>4. request' = [request EXCEPT ![q] = g]
  BY <1>1, <1>2 DEF Goto
<1>5. FrameOK(g, attempt', runs', trace', learned')
  BY <1>2, <1>3 DEF FrameOK, Free
<1> QED
  BY <1>3, <1>4, <1>5, RequestStep

\* A frame that goes on after a failed write, with its memory degraded.
LEMMA DegradedStep ==
  ASSUME Inv, NEW q \in Requests, NEW pc \in {"answer", "finish", "errorFinish"},
         UNCHANGED <<store, runs>>,
         NEW b \in BOOLEAN,
         request' = [request EXCEPT ![q] = [@ EXCEPT !.pc = pc, !.degraded = TRUE, !.fault = b]]
  PROVE  Inv'
<1>1. PICK g : g = [request[q] EXCEPT !.pc = pc, !.degraded = TRUE, !.fault = b]
  OBVIOUS
<1>2. /\ request[q] \in FrameType /\ request \in [Requests -> FrameType]
      /\ FrameOK(request[q], attempt, runs, trace, learned)
  BY Facts
<1>3. /\ g \in FrameType /\ g.pc = pc /\ g.stable = request[q].stable
      /\ g.candidate = request[q].candidate /\ g.degraded = TRUE
      /\ g.answer = request[q].answer
  BY <1>1, <1>2 DEF FrameType
<1>4. FrameOK(g, attempt, runs, trace, learned)
  BY <1>2, <1>3 DEF FrameOK
<1>5. request' = [request EXCEPT ![q] = g]
  BY <1>1, <1>2
<1> QED
  BY <1>3, <1>4, <1>5, FrameStep

LEMMA FaultStep ==
  ASSUME Inv, NEW q \in Requests, NEW pc \in {"answer", "finish", "errorFinish"},
         Fault(q, pc), UNCHANGED runs
  PROVE  Inv'
<1>1. request' = [request EXCEPT ![q] = [request[q] EXCEPT !.pc = pc, !.degraded = TRUE,
                                                          !.fault = TRUE]]
  BY Facts DEF Fault
<1> QED
  BY <1>1, DegradedStep DEF Fault, store

\* A request that is over.
LEMMA ReturnStep ==
  ASSUME Inv, NEW q \in Requests, NEW pc \in Free, NEW x, Return(q, pc, x),
         StoreGrows, StoreType', RowsOK', Durable(x, runs)
  PROVE  Inv'
<1>1. PICK g : g = [Idle EXCEPT !.pc = pc, !.answer = x]
  OBVIOUS
<1>2. x \in Answers /\ Durable(x, runs')
  BY DEF Durable, StoreGrows, RunsGrow
<1>3. g \in FrameType /\ FrameOK(g, attempt', runs', trace', learned')
  BY <1>1, <1>2, ReturnFrame, Zenon
<1>4. request' = [request EXCEPT ![q] = g]
  BY <1>1 DEF Return
<1> QED
  BY <1>3, <1>4, RequestStep

LEMMA NothingIsDurable == \A rns : Durable(NoResult, rns)
  BY DEF Durable, Answers

(***************************************************************************)
(* The store.                                                              *)
(***************************************************************************)
\* append_message adds a role once.
LEMMA AppendedOnce ==
  ASSUME messages \in Seq({"user", "assistant"}), OneMessagePerRole,
         NEW role \in {"user", "assistant"}, messages' = Appended(role)
  PROVE  messages' \in Seq({"user", "assistant"}) /\ OneMessagePerRole'
<1>1. CASE \E i \in DOMAIN messages : messages[i] = role
  BY <1>1 DEF Appended, OneMessagePerRole
<1>2. CASE ~\E i \in DOMAIN messages : messages[i] = role
  <2>1. messages' = Append(messages, role)
    BY <1>2 DEF Appended
  <2> QED
    BY <1>2, <2>1 DEF OneMessagePerRole
<1> QED
  BY <1>1, <1>2

\* A write to the conversation.
LEMMA MessageStore ==
  ASSUME Inv, NEW role \in {"user", "assistant"}, messages' = Appended(role),
         UNCHANGED <<attempt, trace, projection, learned, runs>>
  PROVE  StoreGrows /\ StoreType' /\ RowsOK'
<1>1. StoreType /\ RowsOK
  BY Facts
<1>2. messages' \in Seq({"user", "assistant"}) /\ OneMessagePerRole'
  BY <1>1, AppendedOnce DEF StoreType, RowsOK
<1>3. StoreGrows
  BY DEF StoreGrows, AttemptGrows, RunsGrow, TraceGrows
<1>4. StoreType'
  BY <1>1, <1>2 DEF StoreType
<1>5. RowsOK'
  BY <1>1, <1>2 DEF RowsOK, RunsOK, ProjectionIsLatest, OneExperiencePerRun
<1> QED
  BY <1>3, <1>4, <1>5

\* A write to the evidence.
LEMMA TraceStore ==
  ASSUME Inv, NEW revision \in Nat, revision >= 1, NEW content \in TraceType,
         Saved(revision, content), ~Conflicts(revision, content),
         UNCHANGED <<attempt, messages, learned, runs>>
  PROVE  /\ StoreGrows /\ StoreType' /\ RowsOK'
         /\ \E i \in DOMAIN trace' : trace'[i] = content
         /\ IsPrefix(trace, trace')
<1>1. StoreType /\ RowsOK /\ trace \in Seq(TraceType)
  BY Facts DEF StoreType
<1>2. CASE revision > Len(trace)
  <2>1. trace' = Append(trace, content) /\ projection' = content
    BY <1>2 DEF Saved
  <2>2. trace' \in Seq(TraceType) /\ TraceGrows /\ ProjectionIsLatest'
    BY <1>1, <2>1 DEF TraceGrows, ProjectionIsLatest
  <2>3. \E i \in DOMAIN trace' : trace'[i] = content
    BY <1>1, <2>1
  <2>4. IsPrefix(trace, trace')
    BY <1>1, <2>1 DEF IsPrefix
  <2> QED
    BY <1>1, <2>1, <2>2, <2>3, <2>4 DEF StoreType, RowsOK, StoreGrows, AttemptGrows, RunsGrow,
       RunsOK, OneMessagePerRole, OneExperiencePerRun
<1>3. CASE revision <= Len(trace)
  <2>1. trace' = trace /\ projection' = projection /\ trace[revision] = content
    BY <1>1, <1>3 DEF Saved, Conflicts
  <2>2. revision \in DOMAIN trace
    BY <1>1, <1>3
  <2>3. IsPrefix(trace, trace')
    BY <1>1, <2>1 DEF IsPrefix
  <2> QED
    BY <1>1, <2>1, <2>2, <2>3 DEF StoreType, RowsOK, StoreGrows, AttemptGrows, RunsGrow,
       TraceGrows, RunsOK, ProjectionIsLatest, OneMessagePerRole, OneExperiencePerRun
<1> QED
  BY <1>1, <1>2, <1>3

\* A write of the attempt that keeps what it was made for.
LEMMA AttemptStore ==
  ASSUME Inv, UNCHANGED <<trace, projection, messages, learned, runs>>,
         attempt' \in [status : {"missing", "pending", "completed", "error"},
                       identity : Identity \cup {NoIdentity}, response : Answers],
         Durable(attempt'.response, runs), attempt'.status # "missing",
         attempt.status # "missing" => attempt'.identity = attempt.identity
  PROVE  StoreGrows /\ StoreType' /\ RowsOK'
<1>1. StoreType /\ RowsOK
  BY Facts
<1>2. StoreGrows
  BY DEF StoreGrows, AttemptGrows, RunsGrow, TraceGrows
<1>3. StoreType'
  BY <1>1 DEF StoreType
<1>4. RunsOK(attempt', runs')
  BY <1>1 DEF RowsOK, RunsOK
<1>5. RowsOK'
  BY <1>1, <1>4 DEF RowsOK, ProjectionIsLatest, OneMessagePerRole, OneExperiencePerRun
<1> QED
  BY <1>2, <1>3, <1>5

\* A write to the run of one lane.
LEMMA RunStore ==
  ASSUME Inv, UNCHANGED store, NEW l \in Lanes, NEW r,
         r \in [identity : Identity \cup {NoIdentity}, owner : Requests \cup {NoRequest},
                result : Answers],
         runs' = [runs EXCEPT ![l] = r],
         runs[l].result = NoResult \/ r.result = runs[l].result,
         r.owner # NoRequest => r.result = NoResult,
         r.result # NoResult => r.result[1] = l,
         r.identity = runs[l].identity \/
            (r.identity = attempt.identity /\ attempt.status # "missing")
  PROVE  StoreGrows /\ StoreType' /\ RowsOK'
<1>1. StoreType /\ RowsOK /\ UNCHANGED <<attempt, trace, projection, messages, learned>>
  BY Facts DEF store
<1>2. \A m \in Lanes : runs'[m] = IF m = l THEN r ELSE runs[m]
  BY <1>1 DEF StoreType
<1>3. RunsGrow
  <2> SUFFICES ASSUME NEW x, Durable(x, runs), x # NoResult PROVE runs'[x[1]].result = x
    BY DEF RunsGrow, Durable
  <2>1. x[1] \in Lanes /\ runs[x[1]].result = x
    BY DEF Durable, Answers, Result
  <2> QED
    BY <1>2, <2>1
<1>4. StoreGrows
  BY <1>1, <1>3 DEF StoreGrows, AttemptGrows, TraceGrows
<1>5. StoreType'
  BY <1>1 DEF StoreType
<1>6. RunsOK(attempt', runs')
  BY <1>1, <1>2 DEF RowsOK, RunsOK
<1>7. Durable(attempt'.response, runs')
  BY <1>1, <1>3 DEF RowsOK, RunsGrow
<1>8. RowsOK'
  BY <1>1, <1>6, <1>7 DEF RowsOK, ProjectionIsLatest, OneMessagePerRole, OneExperiencePerRun
<1> QED
  BY <1>4, <1>5, <1>8

(***************************************************************************)
(* The actions.                                                            *)
(***************************************************************************)
\* The attempt is made, refused, answered from its cache, or taken up again in the context
\* it was made in.
LEMMA PrepareStep == ASSUME Inv, NEW q \in Requests, Prepare(q) PROVE Inv'
<1> DEFINE mine == request[q].identity
           same == attempt.identity.release = mine.release
<1>0. /\ StoreType /\ RowsOK /\ request[q] \in FrameType
      /\ request \in [Requests -> FrameType]
      /\ FrameOK(request[q], attempt, runs, trace, learned)
  BY Facts
<1>1. UNCHANGED <<trace, projection, messages, learned, runs>>
  BY DEF Prepare
<1>2. ASSUME attempt.status = "missing", Goto(q, "question"),
             attempt' = [status |-> "pending", identity |-> mine, response |-> NoResult]
      PROVE  Inv'
  <2>1. mine \in Identity \cup {NoIdentity} /\ NoResult \in Answers
    BY <1>0 DEF FrameType, Answers
  <2>2. StoreGrows /\ StoreType' /\ RowsOK'
    BY <1>1, <1>2, <2>1, AttemptStore, NothingIsDurable
  <2> QED
    BY <1>2, <2>2, GotoStep
<1>3. ASSUME Return(q, "refused", NoResult), UNCHANGED attempt PROVE Inv'
  BY <1>1, <1>3, StoreStays, NothingIsDurable, ReturnStep DEF store, Free
<1>4. ASSUME Return(q, "cached", attempt.response), UNCHANGED attempt PROVE Inv'
  <2>1. Durable(attempt.response, runs)
    BY <1>0 DEF RowsOK
  <2> QED
    BY <1>1, <1>4, <2>1, StoreStays, ReturnStep DEF store, Free
<1>5. ASSUME attempt.status # "missing", attempt' = [attempt EXCEPT !.status = "pending"],
             request' = [request EXCEPT ![q].pc = "question", ![q].identity = attempt.identity]
      PROVE  Inv'
  <2>1. /\ attempt' \in [status : {"missing", "pending", "completed", "error"},
                         identity : Identity \cup {NoIdentity}, response : Answers]
        /\ attempt'.status = "pending" /\ attempt'.response = attempt.response
        /\ attempt'.identity = attempt.identity
        /\ attempt.identity \in Identity \cup {NoIdentity}
    BY <1>0, <1>5 DEF StoreType
  <2>2. StoreGrows /\ StoreType' /\ RowsOK'
    BY <1>0, <1>1, <1>5, <2>1, AttemptStore DEF RowsOK
  <2>3. PICK g : g = [request[q] EXCEPT !.pc = "question", !.identity = attempt.identity]
    OBVIOUS
  <2>4. /\ g \in FrameType /\ g.pc = "question" /\ g.identity = attempt.identity
        /\ g.stable = request[q].stable /\ g.candidate = request[q].candidate
        /\ g.answer = request[q].answer
    BY <1>0, <2>1, <2>3 DEF FrameType
  <2>5. FrameOK(g, attempt', runs', trace', learned')
    BY <1>0, <2>1, <2>2, <2>4, FrameStays DEF FrameOK
  <2>6. request' = [request EXCEPT ![q] = g]
    BY <1>0, <1>5, <2>3
  <2> QED
    BY <2>2, <2>4, <2>5, <2>6, RequestStep
<1> QED
  BY <1>2, <1>3, <1>4, <1>5 DEF Prepare

\* A lane that failed, or returned what its run holds.
LEMMA LaneStep ==
  ASSUME Inv, NEW q \in Requests, StoreGrows, StoreType', RowsOK',
         request[q].pc \in {"acquire", "run"},
         \/ LaneFailed(q)
         \/ \E x \in Answers : LaneReturned(q, x) /\ Durable(x, runs')
  PROVE  Inv'
<1>0. /\ request[q] \in FrameType /\ request \in [Requests -> FrameType]
      /\ FrameOK(request[q], attempt', runs', trace', learned')
  BY Facts, FrameStays
<1>1. CASE LaneFailed(q)
  <2>1. CASE Goto(q, "observe")
    BY <2>1, GotoStep DEF Free
  <2>2. CASE request' = [request EXCEPT ![q] = [Idle EXCEPT !.pc = "errorRevision"]]
    <3>1. PICK g : g = [Idle EXCEPT !.pc = "errorRevision"]
      OBVIOUS
    <3>2. g \in FrameType /\ FrameOK(g, attempt', runs', trace', learned')
      BY <3>1, ErrorFrame, Zenon
    <3> QED
      BY <2>2, <3>1, <3>2, RequestStep
  <2> QED
    BY <1>1, <2>1, <2>2 DEF LaneFailed
<1>2. ASSUME NEW x \in Answers, LaneReturned(q, x), Durable(x, runs') PROVE Inv'
  <2>1. CASE Conclude(q, x)
    <3>1. PICK g : g = [Idle EXCEPT !.pc = "revision", !.rollout = request[q].rollout,
                                    !.answer = x]
      OBVIOUS
    <3>2. request[q].rollout \in Rollouts
      BY <1>0 DEF FrameType
    <3>3. g \in FrameType /\ FrameOK(g, attempt', runs', trace', learned')
      BY <1>2, <3>1, <3>2, ConcludeFrame, Zenon
    <3> QED
      BY <2>1, <3>1, <3>3, RequestStep DEF Conclude
  <2>2. CASE request' = [request EXCEPT ![q].pc = "acquire", ![q].stable = x,
                             ![q].lane = "candidate"]
    <3>1. PICK g : g = [request[q] EXCEPT !.pc = "acquire", !.stable = x, !.lane = "candidate"]
      OBVIOUS
    <3>2. /\ g \in FrameType /\ g.pc = "acquire" /\ g.identity = request[q].identity
          /\ g.stable = x /\ g.candidate = request[q].candidate
          /\ g.answer = request[q].answer
      BY <1>0, <3>1 DEF FrameType, Lanes
    <3>3. FrameOK(g, attempt', runs', trace', learned')
      BY <1>0, <1>2, <3>2 DEF FrameOK
    <3>4. request' = [request EXCEPT ![q] = g]
      BY <1>0, <2>2, <3>1
    <3> QED
      BY <3>2, <3>3, <3>4, RequestStep
  <2>3. CASE \E rated \in {x, NoResult} :
               request' = [request EXCEPT ![q].pc = "observe", ![q].candidate = rated]
    <3>1. PICK rated \in {x, NoResult} :
            request' = [request EXCEPT ![q].pc = "observe", ![q].candidate = rated]
      BY <2>3
    <3>2. Durable(rated, runs') /\ rated \in Answers
      BY <1>2, NothingIsDurable DEF Durable
    <3>3. PICK g : g = [request[q] EXCEPT !.pc = "observe", !.candidate = rated]
      OBVIOUS
    <3>4. /\ g \in FrameType /\ g.pc = "observe" /\ g.candidate = rated
          /\ g.stable = request[q].stable /\ g.answer = request[q].answer
      BY <1>0, <3>2, <3>3 DEF FrameType
    <3>5. FrameOK(g, attempt', runs', trace', learned')
      BY <1>0, <3>2, <3>4 DEF FrameOK
    <3>6. request' = [request EXCEPT ![q] = g]
      BY <1>0, <3>1, <3>3
    <3> QED
      BY <3>4, <3>5, <3>6, RequestStep
  <2> QED
    BY <1>2, <2>1, <2>2, <2>3 DEF LaneReturned
<1> QED
  BY <1>1, <1>2

\* The steps that take and give up a run, and publish its result.
LEMMA RunSteps ==
  ASSUME Inv, NEW q \in Requests, Acquire(q) \/ Publish(q) \/ FailRun(q) PROVE Inv'
<1> DEFINE f == request[q]
           lane == f.lane
           run == runs[lane]
<1>0. /\ StoreType /\ RowsOK /\ f \in FrameType /\ lane \in Lanes
      /\ FrameOK(f, attempt, runs, trace, learned) /\ run.result \in Answers
      /\ run \in [identity : Identity \cup {NoIdentity}, owner : Requests \cup {NoRequest},
                  result : Answers]
      /\ runs \in [Lanes -> [identity : Identity \cup {NoIdentity},
                             owner : Requests \cup {NoRequest}, result : Answers]]
  BY Facts DEF FrameType, StoreType
<1>1. CASE Acquire(q)
  <2>0. f.pc = "acquire" /\ UNCHANGED store
    BY <1>1 DEF Acquire, At
  <2>1. CASE LaneFailed(q) /\ UNCHANGED runs
    BY <2>0, <2>1, StoreStays, LaneStep
  <2>2. CASE run.result # NoResult /\ LaneReturned(q, run.result) /\ UNCHANGED runs
    <3>1. Durable(run.result, runs)
      BY <1>0, <2>2 DEF RowsOK, RunsOK, Durable
    <3>2. StoreGrows /\ StoreType' /\ RowsOK'
      BY <2>0, <2>2, StoreStays
    <3>3. Durable(run.result, runs')
      BY <3>1, <3>2 DEF StoreGrows, RunsGrow
    <3> QED
      BY <1>0, <2>0, <2>2, <3>2, <3>3, LaneStep
  <2>3. CASE /\ run.result = NoResult /\ Goto(q, "run")
             /\ runs' = [runs EXCEPT ![lane].owner = q, ![lane].identity = f.identity]
    <3>1. f.identity = attempt.identity /\ attempt.status # "missing"
          /\ f.identity \in Identity \cup {NoIdentity}
      BY <1>0, <2>0 DEF FrameOK, FrameType
    <3>2. PICK r : r = [run EXCEPT !.owner = q, !.identity = f.identity]
      OBVIOUS
    <3>3. /\ r \in [identity : Identity \cup {NoIdentity}, owner : Requests \cup {NoRequest},
                    result : Answers]
          /\ r.result = NoResult /\ r.identity = attempt.identity
      BY <1>0, <2>3, <3>1, <3>2
    <3>4. runs' = [runs EXCEPT ![lane] = r]
      BY <1>0, <2>3, <3>2
    <3>5. StoreGrows /\ StoreType' /\ RowsOK'
      <4> HIDE DEF lane, run
      <4> QED
        BY <1>0, <2>0, <2>3, <3>1, <3>3, <3>4, RunStore DEF run
    <3> QED
      BY <2>0, <2>3, <3>1, <3>5, GotoStep DEF store
  <2> QED
    BY <1>1, <2>1, <2>2, <2>3 DEF Acquire
<1>2. CASE Publish(q)
  <2> DEFINE x == <<lane, q>>
  <2>0. /\ f.pc = "run" /\ UNCHANGED store /\ LaneReturned(q, x) /\ run.owner = q
        /\ runs' = [runs EXCEPT ![lane].owner = NoRequest, ![lane].result = x]
    BY <1>2 DEF Publish, At
  <2>1. run.result = NoResult /\ x \in Answers /\ x[1] = lane
    BY <1>0, <2>0, QueryAssumption DEF RowsOK, RunsOK, Answers, Result
  <2>2. PICK r : r = [run EXCEPT !.owner = NoRequest, !.result = x]
    OBVIOUS
  <2>3. /\ r \in [identity : Identity \cup {NoIdentity}, owner : Requests \cup {NoRequest},
                  result : Answers]
        /\ r.owner = NoRequest /\ r.identity = run.identity /\ r.result = x
    BY <1>0, <2>1, <2>2
  <2>4. runs' = [runs EXCEPT ![lane] = r]
    BY <1>0, <2>0, <2>2
  <2>5. StoreGrows /\ StoreType' /\ RowsOK'
    BY <1>0, <2>0, <2>1, <2>3, <2>4, RunStore
  <2>6. Durable(x, runs')
    BY <1>0, <2>1, <2>3, <2>4 DEF Durable
  <2> QED
    BY <2>0, <2>1, <2>5, <2>6, LaneStep
<1>3. CASE FailRun(q)
  <2>0. /\ f.pc = "run" /\ UNCHANGED store /\ LaneFailed(q)
        /\ runs' = [runs EXCEPT ![lane].owner = IF @ = q THEN NoRequest ELSE @]
    BY <1>3 DEF FailRun, At
  <2>1. PICK r : r = [run EXCEPT !.owner = IF @ = q THEN NoRequest ELSE @]
    OBVIOUS
  <2>2. /\ r \in [identity : Identity \cup {NoIdentity}, owner : Requests \cup {NoRequest},
                  result : Answers]
        /\ r.owner \in {NoRequest, run.owner} /\ r.identity = run.identity
        /\ r.result = run.result
    BY <1>0, <2>1
  <2>3. runs' = [runs EXCEPT ![lane] = r]
    BY <1>0, <2>0, <2>1
  <2>4. /\ r.owner # NoRequest => r.result = NoResult
        /\ r.result # NoResult => r.result[1] = lane
    BY <1>0, <2>2 DEF RowsOK, RunsOK
  <2>5. StoreGrows /\ StoreType' /\ RowsOK'
    BY <1>0, <2>0, <2>2, <2>3, <2>4, RunStore
  <2> QED
    BY <2>0, <2>5, LaneStep
<1> QED
  BY <1>1, <1>2, <1>3

\* The steps up to the durable runs, and the choice of the result.
LEMMA EarlySteps ==
  ASSUME Inv, NEW q \in Requests,
         ReadVersions(q) \/ AppendQuestion(q) \/ Assign(q) \/ Observe(q) \/ Crash(q)
  PROVE  Inv'
<1>0. /\ StoreType /\ RowsOK /\ request[q] \in FrameType
      /\ request \in [Requests -> FrameType]
      /\ FrameOK(request[q], attempt, runs, trace, learned)
  BY Facts
<1>1. CASE ReadVersions(q)
  <2>1. PICK i \in Identity :
          request' = [request EXCEPT ![q].pc = "prepare", ![q].identity = i]
    BY <1>1 DEF ReadVersions
  <2>2. PICK g : g = [request[q] EXCEPT !.pc = "prepare", !.identity = i]
    OBVIOUS
  <2>3. /\ g \in FrameType /\ g.pc = "prepare" /\ g.stable = request[q].stable
        /\ g.candidate = request[q].candidate /\ g.answer = request[q].answer
    BY <1>0, <2>2 DEF FrameType
  <2>4. FrameOK(g, attempt, runs, trace, learned)
    BY <1>0, <2>3 DEF FrameOK
  <2>5. request' = [request EXCEPT ![q] = g]
    BY <1>0, <2>1, <2>2
  <2> QED
    BY <1>1, <2>3, <2>4, <2>5, FrameStep DEF ReadVersions
<1>2. CASE AppendQuestion(q)
  <2>1. CASE Return(q, "failed", NoResult) /\ UNCHANGED store
    BY <1>2, <2>1, StoreStays, NothingIsDurable, ReturnStep DEF AppendQuestion, Free
  <2>2. CASE /\ messages' = Appended("user") /\ Goto(q, "assign")
             /\ UNCHANGED <<attempt, trace, projection, learned>>
    <3>1. StoreGrows /\ StoreType' /\ RowsOK'
      BY <1>2, <2>2, MessageStore DEF AppendQuestion
    <3>2. attempt'.status # "missing" /\ request[q].identity = attempt'.identity
      BY <1>0, <1>2, <2>2 DEF AppendQuestion, At, FrameOK
    <3> QED
      BY <2>2, <3>1, <3>2, GotoStep
  <2> QED
    BY <1>2, <2>1, <2>2 DEF AppendQuestion
<1>3. CASE Assign(q)
  <2>1. PICK r \in Rollouts :
          request' = [request EXCEPT ![q].pc = "acquire", ![q].rollout = r]
    BY <1>3 DEF Assign
  <2>2. PICK g : g = [request[q] EXCEPT !.pc = "acquire", !.rollout = r]
    OBVIOUS
  <2>3. /\ g \in FrameType /\ g.pc = "acquire" /\ g.stable = request[q].stable
        /\ g.candidate = request[q].candidate /\ g.answer = request[q].answer
        /\ g.identity = request[q].identity
    BY <1>0, <2>2 DEF FrameType
  <2>4. FrameOK(g, attempt, runs, trace, learned)
    BY <1>0, <1>3, <2>3 DEF FrameOK, Assign, At
  <2>5. request' = [request EXCEPT ![q] = g]
    BY <1>0, <2>1, <2>2
  <2> QED
    BY <1>3, <2>3, <2>4, <2>5, FrameStep DEF Assign
<1>4. CASE Observe(q)
  <2>1. CASE Conclude(q, Served(q))
    <3>1. PICK g : g = [Idle EXCEPT !.pc = "revision", !.rollout = request[q].rollout,
                                    !.answer = Served(q)]
      OBVIOUS
    <3>2. request[q].rollout \in Rollouts /\ Served(q) \in Answers /\ Durable(Served(q), runs)
      BY <1>0 DEF FrameType, FrameOK, Served
    <3>3. g \in FrameType /\ FrameOK(g, attempt, runs, trace, learned)
      BY <3>1, <3>2, ConcludeFrame, Zenon
    <3> QED
      BY <1>4, <2>1, <3>1, <3>3, FrameStep DEF Conclude, Observe
  <2>2. CASE request' = [request EXCEPT ![q] = [Idle EXCEPT !.pc = "errorRevision"]]
    <3>1. PICK g : g = [Idle EXCEPT !.pc = "errorRevision"]
      OBVIOUS
    <3>2. g \in FrameType /\ FrameOK(g, attempt, runs, trace, learned)
      BY <3>1, ErrorFrame, Zenon
    <3> QED
      BY <1>4, <2>2, <3>1, <3>2, FrameStep DEF Observe
  <2> QED
    BY <1>4, <2>1, <2>2 DEF Observe
<1>5. CASE Crash(q)
  BY <1>5, StoreStays, NothingIsDurable, ReturnStep DEF Crash, Free
<1> QED
  BY <1>1, <1>2, <1>3, <1>4, <1>5

\* The next revision is read, or cannot be.
LEMMA RevisionStep == ASSUME Inv, NEW q \in Requests, NextRevision(q) PROVE Inv'
<1>0. /\ StoreType /\ RowsOK /\ request[q] \in FrameType
      /\ request \in [Requests -> FrameType]
      /\ FrameOK(request[q], attempt, runs, trace, learned)
  BY Facts
<1>1. ASSUME NEW pc \in {"save", "errorSave"}, UNCHANGED <<store, runs>>,
             request' = [request EXCEPT ![q].pc = pc, ![q].revision = Len(trace) + 1]
      PROVE  Inv'
  <2>1. PICK g : g = [request[q] EXCEPT !.pc = pc, !.revision = Len(trace) + 1]
    OBVIOUS
  <2>2. Len(trace) \in Nat
    BY <1>0 DEF StoreType
  <2>3. /\ g \in FrameType /\ g.pc = pc /\ g.stable = request[q].stable
        /\ g.candidate = request[q].candidate /\ g.answer = request[q].answer
        /\ g.revision = Len(trace) + 1
    <3>1. PICK n \in Nat : n = Len(trace) + 1
      BY <2>2
    <3>2. g = [request[q] EXCEPT !.pc = pc, !.revision = n]
      BY <2>1, <3>1
    <3> QED
      BY <1>0, <3>1, <3>2 DEF FrameType
  <2>4. FrameOK(g, attempt, runs, trace, learned)
    BY <1>0, <2>2, <2>3 DEF FrameOK
  <2>5. request' = [request EXCEPT ![q] = g]
    BY <1>0, <1>1, <2>1
  <2> QED
    BY <1>1, <2>3, <2>4, <2>5, FrameStep
<1>2. ASSUME Return(q, "answered", request[q].answer), UNCHANGED <<store, runs>> PROVE Inv'
  <2>1. Durable(request[q].answer, runs)
    BY <1>0 DEF FrameOK
  <2> QED
    BY <1>2, <2>1, StoreStays, ReturnStep DEF Free
<1>3. ASSUME Fault(q, "errorFinish"), UNCHANGED runs PROVE Inv'
  BY <1>3, FaultStep
<1> QED
  BY <1>1, <1>2, <1>3 DEF NextRevision

\* The evidence of an answer, and of a failed run.
LEMMA SaveSteps ==
  ASSUME Inv, NEW q \in Requests, SaveTrace(q) \/ SaveErrorTrace(q) PROVE Inv'
<1> DEFINE revision == request[q].revision
<1>0. /\ request[q] \in FrameType /\ request[q].pc \in {"save", "errorSave"} /\ UNCHANGED runs
      /\ revision \in Nat /\ revision >= 1 /\ request[q].answer \in Answers
  BY Facts DEF FrameOK, FrameType, SaveTrace, SaveErrorTrace, At
<1>1. CASE SaveTrace(q)
  <2> DEFINE content == [result |-> request[q].answer, source |-> SourceLane(q)]
  <2>1. content \in TraceType
    BY <1>0 DEF TraceType, SourceLane, FrameType, Rollouts
  <2>2. CASE /\ ~Conflicts(revision, content) /\ Saved(revision, content) /\ Goto(q, "learn")
             /\ UNCHANGED <<attempt, messages, learned>>
    <3>1. /\ StoreGrows /\ StoreType' /\ RowsOK'
          /\ \E i \in DOMAIN trace' : trace'[i] = content
      <4> HIDE DEF content, revision
      <4> QED
        BY <1>0, <2>1, <2>2, TraceStore DEF revision
    <3>2. \E i \in DOMAIN trace' : trace'[i].result = request[q].answer
      BY <3>1
    <3> QED
      BY <2>2, <3>1, <3>2, GotoStep
  <2>3. CASE /\ request' = [request EXCEPT ![q].pc = "answer", ![q].degraded = TRUE]
             /\ UNCHANGED store
    <3>1. request[q].fault \in BOOLEAN
      BY <1>0 DEF FrameType
    <3>2. request' = [request EXCEPT ![q] = [request[q] EXCEPT !.pc = "answer",
                                    !.degraded = TRUE, !.fault = request[q].fault]]
      BY <1>0, <2>3, Facts DEF FrameType
    <3> QED
      BY <1>0, <2>3, <3>1, <3>2, DegradedStep
  <2>4. CASE Fault(q, "answer")
    BY <1>0, <2>4, FaultStep
  <2> QED
    BY <1>1, <2>2, <2>3, <2>4 DEF SaveTrace
<1>2. CASE SaveErrorTrace(q)
  <2>1. ErrorTrace \in TraceType
    BY DEF ErrorTrace, TraceType, Answers
  <2>2. CASE /\ ~Conflicts(revision, ErrorTrace) /\ Saved(revision, ErrorTrace)
             /\ Goto(q, "errorFinish") /\ UNCHANGED <<attempt, messages, learned>>
    <3>1. StoreGrows /\ StoreType' /\ RowsOK'
      BY <1>0, <2>1, <2>2, TraceStore
    <3> QED
      BY <2>2, <3>1, GotoStep DEF Free
  <2>3. CASE Goto(q, "errorFinish") /\ UNCHANGED store
    BY <1>0, <2>3, StoreStays, GotoStep DEF Free
  <2>4. CASE Fault(q, "errorFinish")
    BY <1>0, <2>4, FaultStep
  <2> QED
    BY <1>2, <2>2, <2>3, <2>4 DEF SaveErrorTrace
<1> QED
  BY <1>1, <1>2

\* A run of the stable lane teaches its lesson once.
LEMMA LearnStep == ASSUME Inv, NEW q \in Requests, Learn(q) PROVE Inv'
<1> DEFINE f == request[q]
<1>0. /\ StoreType /\ RowsOK /\ f \in FrameType /\ f.pc = "learn" /\ UNCHANGED runs
      /\ request \in [Requests -> FrameType]
      /\ FrameOK(f, attempt, runs, trace, learned)
      /\ SourceLane(q) # "stable" => f.rollout # "off"
  BY Facts DEF Learn, At, SourceLane
<1>1. CASE SourceLane(q) # "stable" /\ Goto(q, "answer") /\ UNCHANGED store
  BY <1>0, <1>1, StoreStays, GotoStep
<1>2. CASE /\ LearnOf(q) = {} /\ Goto(q, "answer")
           /\ learned' = learned \cup {[result |-> f.answer, revision |-> f.revision]}
           /\ UNCHANGED <<attempt, trace, projection, messages>>
  <2>1. PICK e : e = [result |-> f.answer, revision |-> f.revision]
    OBVIOUS
  <2>2. e \in [result : Answers, revision : Nat] /\ e.result = f.answer
    BY <1>0, <2>1 DEF FrameType
  <2>3. \A d \in learned : d.result # f.answer
    BY <1>2 DEF LearnOf
  <2>4. OneExperiencePerRun'
    BY <1>0, <1>2, <2>1, <2>2, <2>3 DEF OneExperiencePerRun, RowsOK
  <2>5. StoreGrows /\ StoreType'
    BY <1>0, <1>2, <2>1, <2>2
       DEF StoreGrows, AttemptGrows, RunsGrow, TraceGrows, StoreType
  <2>6. RowsOK'
    BY <1>0, <1>2, <2>4 DEF RowsOK, RunsOK, ProjectionIsLatest, OneMessagePerRole
  <2>7. \E d \in learned' : d.result = f.answer
    BY <1>2, <2>1, <2>2
  <2> QED
    BY <1>0, <1>2, <2>5, <2>6, <2>7, GotoStep
<1>3. CASE /\ \E e \in LearnOf(q) :
                 request' = [request EXCEPT ![q].pc = "answer",
                                 ![q].degraded = e.revision # f.revision]
           /\ UNCHANGED store
  <2>1. PICK e \in LearnOf(q), b \in BOOLEAN :
          request' = [request EXCEPT ![q].pc = "answer", ![q].degraded = b]
    BY <1>3
  <2>2. e \in learned /\ e.result = f.answer
    BY <2>1 DEF LearnOf
  <2>3. PICK g : g = [f EXCEPT !.pc = "answer", !.degraded = b]
    OBVIOUS
  <2>4. /\ g \in FrameType /\ g.pc = "answer" /\ g.degraded = b /\ g.stable = f.stable
        /\ g.candidate = f.candidate /\ g.answer = f.answer /\ g.rollout = f.rollout
    BY <1>0, <2>3 DEF FrameType
  <2>5. request' = [request EXCEPT ![q] = g]
    BY <1>0, <2>1, <2>3
  <2>6. FrameOK(g, attempt, runs, trace, learned)
    BY <1>0, <2>2, <2>4 DEF FrameOK
  <2> QED
    BY <1>0, <1>3, <2>4, <2>5, <2>6, FrameStep
<1>4. CASE Fault(q, "answer")
  BY <1>0, <1>4, FaultStep
<1> QED
  BY <1>1, <1>2, <1>3, <1>4 DEF Learn

\* The answer joins the conversation and the attempt is closed.
LEMMA LateSteps ==
  ASSUME Inv, NEW q \in Requests, AppendAnswer(q) \/ Finish(q) \/ FinishError(q) PROVE Inv'
<1> DEFINE f == request[q]
<1>0. /\ StoreType /\ RowsOK /\ f.answer \in Answers /\ Durable(f.answer, runs)
      /\ UNCHANGED runs
  BY Facts DEF FrameOK, FrameType, AppendAnswer, Finish, FinishError
<1>1. CASE AppendAnswer(q)
  <2>1. CASE /\ messages' = Appended("assistant") /\ Goto(q, "finish")
             /\ UNCHANGED <<attempt, trace, projection, learned>>
    <3>1. StoreGrows /\ StoreType' /\ RowsOK'
      BY <1>0, <2>1, MessageStore
    <3> QED
      BY <1>1, <2>1, <3>1, GotoStep DEF AppendAnswer, At
  <2>2. CASE Fault(q, "finish")
    BY <1>0, <2>2, FaultStep
  <2> QED
    BY <1>1, <2>1, <2>2 DEF AppendAnswer
<1>2. ASSUME UNCHANGED store, Return(q, "answered", f.answer) \/ Return(q, "failed", NoResult)
      PROVE  Inv'
  BY <1>0, <1>2, StoreStays, NothingIsDurable, ReturnStep DEF Free
<1>3. ASSUME NEW status \in {"completed", "error"}, NEW x, Durable(x, runs),
             attempt' = [attempt EXCEPT !.status = status, !.response = x],
             UNCHANGED <<trace, projection, messages, learned>>,
             Return(q, "answered", f.answer) \/ Return(q, "failed", NoResult)
      PROVE  Inv'
  <2>1. /\ attempt' \in [status : {"missing", "pending", "completed", "error"},
                         identity : Identity \cup {NoIdentity}, response : Answers]
        /\ attempt'.status # "missing" /\ attempt'.response = x
        /\ attempt'.identity = attempt.identity
    BY <1>0, <1>3 DEF StoreType, Durable
  <2>2. StoreGrows /\ StoreType' /\ RowsOK'
    BY <1>0, <1>3, <2>1, AttemptStore
  <2> QED
    BY <1>0, <1>3, <2>2, NothingIsDurable, ReturnStep DEF Free
<1>4. CASE Finish(q)
  BY <1>0, <1>2, <1>3, <1>4 DEF Finish
<1>5. CASE FinishError(q)
  <2>1. attempt' = [attempt EXCEPT !.status = "error"] =>
          attempt' = [attempt EXCEPT !.status = "error", !.response = attempt.response]
    BY <1>0 DEF StoreType
  <2>2. Durable(attempt.response, runs)
    BY <1>0 DEF RowsOK
  <2> QED
    BY <1>2, <1>3, <1>5, <2>1, <2>2 DEF FinishError
<1> QED
  BY <1>1, <1>4, <1>5

\* A lease runs out, or retention drops the oldest message.
LEMMA SurroundingSteps ==
  ASSUME Inv, Retain \/ \E l \in Lanes : Expire(l) PROVE Inv'
<1>0. StoreType /\ RowsOK /\ UNCHANGED request
  BY Facts DEF Retain, Expire
<1>1. CASE Retain
  <2>1. /\ messages \in Seq({"user", "assistant"}) /\ messages # <<>>
        /\ messages' = Tail(messages)
        /\ UNCHANGED <<attempt, trace, projection, learned, runs>>
    BY <1>0, <1>1 DEF Retain, StoreType
  <2>2. messages' \in Seq({"user", "assistant"}) /\ OneMessagePerRole'
    <3>1. /\ messages' \in Seq({"user", "assistant"}) /\ Len(messages') = Len(messages) - 1
          /\ \A i \in DOMAIN messages' : messages'[i] = messages[i + 1]
      BY <2>1
    <3>2. ASSUME NEW i \in DOMAIN messages', NEW j \in DOMAIN messages',
                 messages'[i] = messages'[j]
          PROVE  i = j
      <4>1. /\ i \in 1 .. Len(messages) - 1 /\ j \in 1 .. Len(messages) - 1
            /\ Len(messages) \in Nat /\ DOMAIN messages = 1 .. Len(messages)
        BY <2>1, <3>1
      <4>2. i + 1 \in DOMAIN messages /\ j + 1 \in DOMAIN messages
        BY <4>1
      <4>3. messages[i + 1] = messages[j + 1]
        BY <3>1, <3>2
      <4>4. i + 1 = j + 1
        BY <1>0, <4>2, <4>3 DEF RowsOK, OneMessagePerRole
      <4> QED
        BY <4>1, <4>4
    <3> QED
      BY <3>1, <3>2 DEF OneMessagePerRole
  <2>3. StoreGrows
    BY <2>1 DEF StoreGrows, AttemptGrows, RunsGrow, TraceGrows
  <2>4. StoreType' /\ RowsOK'
    BY <1>0, <2>1, <2>2
       DEF StoreType, RowsOK, RunsOK, ProjectionIsLatest, OneExperiencePerRun
  <2> QED
    BY <1>0, <2>3, <2>4, OtherStep
<1>2. ASSUME NEW l \in Lanes, Expire(l) PROVE Inv'
  <2>1. PICK r : r = [runs[l] EXCEPT !.owner = NoRequest]
    OBVIOUS
  <2>2. /\ r \in [identity : Identity \cup {NoIdentity}, owner : Requests \cup {NoRequest},
                  result : Answers]
        /\ r.owner = NoRequest /\ r.identity = runs[l].identity /\ r.result = runs[l].result
    BY <1>0, <2>1 DEF StoreType
  <2>3. runs' = [runs EXCEPT ![l] = r] /\ UNCHANGED store
    BY <1>0, <1>2, <2>1 DEF Expire, StoreType
  <2>4. r.result # NoResult => r.result[1] = l
    BY <1>0, <2>2 DEF RowsOK, RunsOK
  <2>5. StoreGrows /\ StoreType' /\ RowsOK'
    BY <2>2, <2>3, <2>4, RunStore
  <2> QED
    BY <1>0, <2>5, OtherStep
<1> QED
  BY <1>1, <1>2

(***************************************************************************)
(* The theorems.                                                           *)
(***************************************************************************)
\* The invariant holds at the start,
LEMMA InitInv == Init => Inv
<1> SUFFICES ASSUME Init PROVE Inv
  OBVIOUS
<1>1. Durable(NoResult, runs)
  BY NothingIsDurable
<1>2. TypeOK
  BY IdleType DEF Init, TypeOK, Answers, ErrorTrace, TraceType
<1>3. RowsOK
  BY <1>1 DEF Init, RowsOK, RunsOK, ProjectionIsLatest, OneMessagePerRole, OneExperiencePerRun
<1>4. FramesOK
  BY <1>1, IdleType DEF Init, FramesOK, FrameOK
<1> QED
  BY <1>2, <1>3, <1>4 DEF Inv

\* and every step keeps it.
LEMMA NextInv == Inv /\ [Next]_vars => Inv'
<1> SUFFICES ASSUME Inv, [Next]_vars PROVE Inv'
  OBVIOUS
<1>1. ASSUME NEW q \in Requests, Step(q) PROVE Inv'
  BY <1>1, PrepareStep, RunSteps, EarlySteps, RevisionStep, SaveSteps, LearnStep, LateSteps
     DEF Step
<1>2. CASE UNCHANGED vars
  BY <1>2, StoreStays, OtherStep DEF vars
<1> QED
  BY <1>1, <1>2, SurroundingSteps DEF Next

\* The rows and the frames keep their types.
THEOREM Types == Spec => []TypeOK
<1>1. Inv => TypeOK
  BY DEF Inv
<1> QED
  BY <1>1, InitInv, NextInv, PTL DEF Spec

\* Callers are told what the lanes' runs hold: a run is published by its owner, only while
\* it has no result, and a frame carries nothing else to its caller or to the attempt row.
THEOREM AnswersAgree == Spec => []AnswersAreDurable
<1>1. Inv => AnswersAreDurable
  BY DEF Inv, RowsOK, FramesOK, FrameOK, Durable, AnswersAreDurable
<1> QED
  BY <1>1, InitInv, NextInv, PTL DEF Spec

\* The checkpoint store accepts every retry: prepare_query_attempt hands it the context of
\* the attempt row, and every run of the task was started in that context.
THEOREM RetriesAreAccepted == Spec => []RetryIsAccepted
<1>1. Inv => RetryIsAccepted
  <2> SUFFICES ASSUME Inv, NEW q \in Requests, At(q, "acquire")
               PROVE  Accepts(runs[request[q].lane], request[q].identity)
    BY DEF RetryIsAccepted
  <2>1. request[q].lane \in Lanes /\ request[q].identity = attempt.identity
    BY Facts DEF FrameOK, FrameType, At
  <2> QED
    BY <2>1 DEF Inv, RowsOK, RunsOK, Accepts
<1> QED
  BY <1>1, InitInv, NextInv, PTL DEF Spec

\* No retry, takeover or crash repeats a message or a lesson.
THEOREM EffectsHappenOnce == Spec => []SideEffectsHappenOnce
<1>1. Inv => SideEffectsHappenOnce
  BY DEF Inv, RowsOK, SideEffectsHappenOnce
<1> QED
  BY <1>1, InitInv, NextInv, PTL DEF Spec

\* Revisions are only appended.
LEMMA TraceStep == Inv /\ [Next]_vars => [IsPrefix(trace, trace')]_vars
<1> SUFFICES ASSUME Inv, Next PROVE IsPrefix(trace, trace')
  BY DEF vars
<1>1. trace \in Seq(TraceType)
  BY DEF Inv, TypeOK
<1>2. CASE UNCHANGED trace
  BY <1>1, <1>2 DEF IsPrefix
<1>3. ASSUME NEW q \in Requests, NEW c \in TraceType, NEW n \in Nat, n >= 1,
             ~Conflicts(n, c), Saved(n, c), UNCHANGED <<attempt, messages, learned, runs>>
      PROVE  IsPrefix(trace, trace')
  BY <1>3, TraceStore
<1>4. ASSUME NEW q \in Requests, SaveTrace(q) PROVE IsPrefix(trace, trace')
  <2> DEFINE content == [result |-> request[q].answer, source |-> SourceLane(q)]
             revision == request[q].revision
  <2>1. revision \in Nat /\ revision >= 1 /\ content \in TraceType
    BY <1>4, Facts DEF SaveTrace, At, FrameOK, FrameType, TraceType, SourceLane, Rollouts
  <2>2. CASE ~Conflicts(revision, content) /\ Saved(revision, content)
             /\ UNCHANGED <<attempt, messages, learned>>
    <3> HIDE DEF content, revision
    <3> QED
      BY <1>3, <1>4, <2>1, <2>2 DEF SaveTrace
  <2>3. CASE UNCHANGED store \/ Fault(q, "answer")
    BY <1>2, <2>3 DEF store, Fault
  <2> QED
    BY <1>4, <2>2, <2>3 DEF SaveTrace
<1>5. ASSUME NEW q \in Requests, SaveErrorTrace(q) PROVE IsPrefix(trace, trace')
  <2>1. /\ request[q].revision \in Nat /\ request[q].revision >= 1
        /\ ErrorTrace \in TraceType
    BY <1>5, Facts DEF SaveErrorTrace, At, FrameOK, FrameType, ErrorTrace, TraceType, Answers
  <2>2. CASE /\ ~Conflicts(request[q].revision, ErrorTrace)
             /\ Saved(request[q].revision, ErrorTrace) /\ UNCHANGED <<attempt, messages, learned>>
    BY <1>3, <1>5, <2>1, <2>2 DEF SaveErrorTrace
  <2>3. CASE UNCHANGED store \/ Fault(q, "errorFinish")
    BY <1>2, <2>3 DEF store, Fault
  <2> QED
    BY <1>5, <2>2, <2>3 DEF SaveErrorTrace
<1>6. ASSUME NEW q \in Requests, Step(q), ~SaveTrace(q), ~SaveErrorTrace(q)
      PROVE  UNCHANGED trace
  BY <1>6 DEF Step, ReadVersions, Prepare, AppendQuestion, Assign, Acquire, Publish, FailRun,
     Observe, NextRevision, Learn, AppendAnswer, Finish, FinishError, Crash, Fault, store
<1>7. (Retain \/ \E l \in Lanes : Expire(l)) => UNCHANGED trace
  BY DEF Retain, Expire, store
<1> QED
  BY <1>2, <1>4, <1>5, <1>6, <1>7 DEF Next

\* The evidence of a task only grows, query_traces shows its latest revision, and a caller
\* that is not told of degraded memory has its evidence and its lesson in the store.
THEOREM EvidenceStays == Spec => EvidenceIsKept
<1>1. Inv => ProjectionIsLatest /\ MemoryStatusIsTrue
  <2> SUFFICES ASSUME Inv PROVE ProjectionIsLatest /\ MemoryStatusIsTrue
    OBVIOUS
  <2>1. ASSUME NEW q \in Requests, At(q, "finish"), ~request[q].degraded
        PROVE  /\ \E i \in DOMAIN trace : trace[i].result = request[q].answer
               /\ SourceLane(q) = "stable" => LearnOf(q) # {}
    <3>1. request[q].rollout \in Rollouts
      BY Facts DEF FrameType
    <3>2. SourceLane(q) = "stable" => request[q].rollout = "off"
      BY <3>1 DEF SourceLane, Rollouts
    <3> QED
      BY <2>1, <3>2, Facts DEF FrameOK, At, LearnOf
  <2> QED
    BY <2>1 DEF Inv, RowsOK, MemoryStatusIsTrue
<1>2. Inv /\ [Next]_vars => [IsPrefix(trace, trace')]_vars
  BY TraceStep
<1> QED
  BY <1>1, <1>2, InitInv, NextInv, PTL DEF Spec, EvidenceIsKept, TraceIsImmutable

(***************************************************************************)
(* The runs of the lanes implement LeasedRun.                              *)
(*                                                                         *)
(* LeasedRun never lets a run go without an identity once it was taken, so  *)
(* the proof needs that the context a run is started in is a real one: it    *)
(* comes from the attempt row, which a request that is past                *)
(* prepare_query_attempt has found or made.                                *)
(***************************************************************************)
\* The requests that have passed prepare_query_attempt.
Begun(q) == request[q].pc \notin Over \cup {"idle", "prepare"}

\* Whoever has begun finds an attempt, and the attempt has a context.
ContextOK ==
    /\ attempt.status # "missing" => attempt.identity \in Identity
    /\ \A q \in Requests :
          /\ request[q].pc = "prepare" => request[q].identity \in Identity
          /\ Begun(q) => attempt.status # "missing"

\* A step of a request that has begun, and is not past its versions again.
LEMMA BegunKeepsContext ==
  ASSUME Inv, ContextOK, NEW q \in Requests, Begun(q), NEW f,
         request' = [request EXCEPT ![q] = f], f.pc # "prepare",
         attempt'.status # "missing", attempt'.identity = attempt.identity
  PROVE  ContextOK'
<1>1. \A r \in Requests : request'[r] = IF r = q THEN f ELSE request[r]
  BY Facts
<1>2. attempt'.identity \in Identity
  BY DEF ContextOK
<1> QED
  BY <1>1, <1>2 DEF ContextOK, Begun

\* A request that goes on or ends has left its versions behind.
LEMMA FramesGoOn ==
  ASSUME Inv, NEW q \in Requests, NEW pc, pc # "prepare"
  PROVE  /\ Goto(q, pc) =>
              \E f : request' = [request EXCEPT ![q] = f] /\ f.pc # "prepare"
         /\ \A x : Return(q, pc, x) =>
              \E f : request' = [request EXCEPT ![q] = f] /\ f.pc # "prepare"
<1>1. request[q] \in FrameType /\ request \in [Requests -> FrameType]
  BY Facts
<1>2. [request[q] EXCEPT !.pc = pc].pc # "prepare"
  BY <1>1 DEF FrameType
<1>3. \A x : [Idle EXCEPT !.pc = pc, !.answer = x].pc # "prepare"
  BY DEF Idle
<1>4. Goto(q, pc) => request' = [request EXCEPT ![q] = [request[q] EXCEPT !.pc = pc]]
  BY <1>1 DEF Goto
<1> QED
  BY <1>2, <1>3, <1>4 DEF Return

\* The frame of every step that follows prepare_query_attempt.
LEMMA LaterFrames ==
  ASSUME Inv, NEW q \in Requests, Step(q), ~ReadVersions(q), ~Prepare(q)
  PROVE  \E f : request' = [request EXCEPT ![q] = f] /\ f.pc # "prepare"
<1> DEFINE Later == \E f : request' = [request EXCEPT ![q] = f] /\ f.pc # "prepare"
<1> SUFFICES Later
  OBVIOUS
<1>0. request[q] \in FrameType /\ request \in [Requests -> FrameType]
  BY Facts
<1>1. ASSUME NEW pc, pc # "prepare", Goto(q, pc) \/ \E x : Return(q, pc, x) PROVE Later
  BY <1>1, FramesGoOn
<1>2. ASSUME NEW pc, pc # "prepare", Fault(q, pc) PROVE Later
  <2>1. PICK f : f = [request[q] EXCEPT !.pc = pc, !.degraded = TRUE, !.fault = TRUE]
    OBVIOUS
  <2>2. f.pc # "prepare" /\ request' = [request EXCEPT ![q] = f]
    BY <1>0, <1>2, <2>1 DEF Fault, FrameType
  <2> QED
    BY <2>2
<1>3. ASSUME request' = [request EXCEPT ![q] = [Idle EXCEPT !.pc = "errorRevision"]] PROVE Later
  <2>1. PICK f : f = [Idle EXCEPT !.pc = "errorRevision"]
    OBVIOUS
  <2>2. f.pc # "prepare"
    BY <2>1 DEF Idle
  <2> QED
    BY <1>3, <2>1, <2>2
<1>4. ASSUME NEW x, Conclude(q, x) PROVE Later
  <2>1. PICK f : f = [Idle EXCEPT !.pc = "revision", !.rollout = request[q].rollout, !.answer = x]
    OBVIOUS
  <2>2. f.pc # "prepare"
    BY <2>1 DEF Idle
  <2> QED
    BY <1>4, <2>1, <2>2 DEF Conclude
<1>5. ASSUME LaneFailed(q) PROVE Later
  BY <1>1, <1>3, <1>5 DEF LaneFailed
<1>6. ASSUME NEW x, LaneReturned(q, x) PROVE Later
  <2>1. CASE request' = [request EXCEPT ![q].pc = "acquire", ![q].stable = x,
                                        ![q].lane = "candidate"]
    <3>1. PICK f : f = [request[q] EXCEPT !.pc = "acquire", !.stable = x, !.lane = "candidate"]
      OBVIOUS
    <3>2. f.pc # "prepare" /\ request' = [request EXCEPT ![q] = f]
      BY <1>0, <2>1, <3>1 DEF FrameType
    <3> QED
      BY <3>2
  <2>2. ASSUME NEW y, request' = [request EXCEPT ![q].pc = "observe", ![q].candidate = y]
        PROVE  Later
    <3>1. PICK f : f = [request[q] EXCEPT !.pc = "observe", !.candidate = y]
      OBVIOUS
    <3>2. f.pc # "prepare" /\ request' = [request EXCEPT ![q] = f]
      BY <1>0, <2>2, <3>1 DEF FrameType
    <3> QED
      BY <3>2
  <2> QED
    BY <1>4, <1>6, <2>1, <2>2 DEF LaneReturned
<1>7. ASSUME NEW pc, pc # "prepare", NEW x,
             \/ request' = [request EXCEPT ![q].pc = pc, ![q].rollout = x]
             \/ request' = [request EXCEPT ![q].pc = pc, ![q].revision = x]
             \/ request' = [request EXCEPT ![q].pc = pc, ![q].degraded = x]
      PROVE  Later
  <2> DEFINE f == request[q]
  <2>1. PICK g : g = [f EXCEPT !.pc = pc, !.rollout = x]
    OBVIOUS
  <2>2. PICK h : h = [f EXCEPT !.pc = pc, !.revision = x]
    OBVIOUS
  <2>3. PICK k : k = [f EXCEPT !.pc = pc, !.degraded = x]
    OBVIOUS
  <2>4. g.pc # "prepare" /\ h.pc # "prepare" /\ k.pc # "prepare"
    BY <1>0, <1>7, <2>1, <2>2, <2>3 DEF FrameType
  <2>5. \/ request' = [request EXCEPT ![q] = g]
        \/ request' = [request EXCEPT ![q] = h]
        \/ request' = [request EXCEPT ![q] = k]
    BY <1>0, <1>7, <2>1, <2>2, <2>3
  <2> QED
    BY <2>4, <2>5
<1> HIDE DEF Later
<1>8. CASE AppendQuestion(q) \/ AppendAnswer(q) \/ Finish(q) \/ FinishError(q) \/ Crash(q)
           \/ SaveErrorTrace(q)
  BY <1>1, <1>2, <1>8 DEF AppendQuestion, AppendAnswer, Finish, FinishError, Crash,
     SaveErrorTrace
<1>9. CASE Assign(q)
  <2>1. PICK x : request' = [request EXCEPT ![q].pc = "acquire", ![q].rollout = x]
    BY <1>9 DEF Assign
  <2> QED
    BY <1>0, <1>7, <2>1
<1>10. CASE Acquire(q) \/ Publish(q) \/ FailRun(q)
  BY <1>1, <1>5, <1>6, <1>10 DEF Acquire, Publish, FailRun
<1>11. CASE Observe(q)
  BY <1>3, <1>4, <1>11 DEF Observe
<1>12. CASE NextRevision(q)
  <2>1. CASE request' = [request EXCEPT ![q].pc = "save", ![q].revision = Len(trace) + 1]
    BY <1>0, <1>7, <2>1
  <2>2. CASE request' = [request EXCEPT ![q].pc = "errorSave", ![q].revision = Len(trace) + 1]
    BY <1>0, <1>7, <2>2
  <2> QED
    BY <1>1, <1>2, <1>12, <2>1, <2>2 DEF NextRevision
<1>13. CASE SaveTrace(q)
  <2>1. CASE request' = [request EXCEPT ![q].pc = "answer", ![q].degraded = TRUE]
    BY <1>0, <1>7, <2>1
  <2> QED
    BY <1>1, <1>2, <1>13, <2>1 DEF SaveTrace
<1>14. CASE Learn(q)
  <2>1. ASSUME NEW b, request' = [request EXCEPT ![q].pc = "answer", ![q].degraded = b]
        PROVE  Later
    BY <1>0, <1>7, <2>1
  <2> QED
    BY <1>1, <1>2, <1>14, <2>1 DEF Learn
<1> QED
  BY <1>8, <1>9, <1>10, <1>11, <1>12, <1>13, <1>14 DEF Step

\* No step forgets the attempt or its context.
LEMMA ContextStep == Inv /\ ContextOK /\ [Next]_vars => ContextOK'
<1> SUFFICES ASSUME Inv, ContextOK, [Next]_vars PROVE ContextOK'
  OBVIOUS
<1>0. request \in [Requests -> FrameType] /\ StoreType
  BY Facts
<1>1. CASE UNCHANGED <<attempt, request>>
  BY <1>1 DEF ContextOK, Begun
<1>2. ASSUME NEW q \in Requests, ReadVersions(q) PROVE ContextOK'
  <2>1. PICK i \in Identity :
          request' = [request EXCEPT ![q].pc = "prepare", ![q].identity = i]
    BY <1>2 DEF ReadVersions
  <2>2. request'[q].pc = "prepare" /\ request'[q].identity = i
    BY <1>0, <2>1 DEF FrameType
  <2>3. \A r \in Requests : r # q => request'[r] = request[r]
    BY <1>0, <2>1
  <2>4. attempt' = attempt
    BY <1>2 DEF ReadVersions, store
  <2> QED
    BY <2>2, <2>3, <2>4 DEF ContextOK, Begun
<1>3. ASSUME NEW q \in Requests, Prepare(q) PROVE ContextOK'
  <2> DEFINE mine == request[q].identity
  <2>0. mine \in Identity /\ \A r \in Requests : r # q => request'[r] = request[r]
    BY <1>0, <1>3 DEF ContextOK, Prepare, At, Goto, Return
  <2>1. CASE attempt'.status # "missing" /\ attempt'.identity \in Identity
             /\ request'[q].pc # "prepare"
    BY <2>0, <2>1 DEF ContextOK, Begun
  <2>2. CASE attempt' = attempt /\ request'[q].pc \in Over
    BY <2>0, <2>2 DEF ContextOK, Begun, Over
  <2>3. CASE /\ attempt' = [status |-> "pending", identity |-> mine, response |-> NoResult]
             /\ Goto(q, "question")
    <3>1. request'[q].pc = "question"
      BY <1>0, <2>3 DEF Goto, FrameType
    <3> QED
      BY <2>0, <2>1, <2>3, <3>1
  <2>4. CASE /\ attempt.status # "missing" /\ attempt' = [attempt EXCEPT !.status = "pending"]
             /\ request' = [request EXCEPT ![q].pc = "question", ![q].identity = attempt.identity]
    <3>1. request'[q].pc = "question"
      BY <1>0, <2>4 DEF FrameType
    <3>2. attempt'.status = "pending" /\ attempt'.identity = attempt.identity
      BY <1>0, <2>4 DEF StoreType
    <3> QED
      BY <2>1, <2>4, <3>1, <3>2 DEF ContextOK
  <2>5. ASSUME NEW pc \in Over, NEW x, Return(q, pc, x), UNCHANGED attempt PROVE ContextOK'
    <3>1. request'[q].pc = pc
      BY <1>0, <2>5 DEF Return, Idle
    <3> QED
      BY <2>2, <2>5, <3>1
  <2>6. "refused" \in Over /\ "cached" \in Over
    BY DEF Over
  <2> HIDE DEF mine
  <2> QED
    BY <1>3, <2>3, <2>4, <2>5, <2>6 DEF Prepare, mine
<1>4. ASSUME NEW q \in Requests, Step(q), ~ReadVersions(q), ~Prepare(q), ~Crash(q)
      PROVE  ContextOK'
  <2>1. PICK f : request' = [request EXCEPT ![q] = f] /\ f.pc # "prepare"
    BY <1>4, LaterFrames
  <2>2. Begun(q)
    <3>1. (AppendQuestion(q) => At(q, "question")) /\ (Assign(q) => At(q, "assign"))
      BY DEF AppendQuestion, Assign
    <3>2. (Acquire(q) => At(q, "acquire")) /\ (Publish(q) \/ FailRun(q) => At(q, "run"))
      BY DEF Acquire, Publish, FailRun
    <3>3. /\ Observe(q) => At(q, "observe")
          /\ NextRevision(q) => At(q, "revision") \/ At(q, "errorRevision")
      BY DEF Observe, NextRevision
    <3>4. (SaveTrace(q) => At(q, "save")) /\ (Learn(q) => At(q, "learn"))
      BY DEF SaveTrace, Learn
    <3>5. (AppendAnswer(q) => At(q, "answer")) /\ (Finish(q) => At(q, "finish"))
      BY DEF AppendAnswer, Finish
    <3>6. (SaveErrorTrace(q) => At(q, "errorSave")) /\ (FinishError(q) => At(q, "errorFinish"))
      BY DEF SaveErrorTrace, FinishError
    <3> QED
      BY <1>4, <3>1, <3>2, <3>3, <3>4, <3>5, <3>6 DEF Step, Begun, Over, At
  <2>3. attempt.status # "missing"
    BY <2>2 DEF ContextOK
  <2>4. attempt' = attempt \/ Finish(q) \/ FinishError(q)
    BY <1>4 DEF Step, AppendQuestion, Assign, Acquire, Publish, FailRun, Observe,
       NextRevision, SaveTrace, Learn, AppendAnswer, SaveErrorTrace, Fault, store
  <2>5. attempt'.status # "missing" /\ attempt'.identity = attempt.identity
    BY <1>0, <2>3, <2>4 DEF Finish, FinishError, store, StoreType
  <2> QED
    BY <2>1, <2>2, <2>5, BegunKeepsContext
<1>5. ASSUME NEW q \in Requests, Crash(q) PROVE ContextOK'
  <2>1. request'[q].pc = "dead" /\ \A r \in Requests : r # q => request'[r] = request[r]
    BY <1>0, <1>5 DEF Crash, Return, Idle
  <2>2. attempt' = attempt
    BY <1>5 DEF Crash, store
  <2> QED
    BY <2>1, <2>2 DEF ContextOK, Begun, Over
<1>6. (Retain \/ \E l \in Lanes : Expire(l)) => UNCHANGED <<attempt, request>>
  BY DEF Retain, Expire, store
<1> QED
  BY <1>1, <1>2, <1>3, <1>4, <1>5, <1>6 DEF Next, vars, store

\* A step of the service that leaves the runs alone shows nothing of them.
LEMMA RunsStutter == ASSUME NEW l \in Lanes, UNCHANGED runs PROVE UNCHANGED Leased(l)!row
  BY DEF Leased!row

\* The step of one lane's run shows nothing of the other's.
LEMMA OtherLane ==
  ASSUME Inv, NEW l \in Lanes, NEW m \in Lanes, NEW r, runs' = [runs EXCEPT ![m] = r],
         m # l
  PROVE  UNCHANGED Leased(l)!row
  BY Facts DEF Leased!row, StoreType

\* A request takes a run that nobody holds, gives it back, or publishes its result.
LEMMA LaneIsLeased ==
  ASSUME Inv, ContextOK, NEW q \in Requests, NEW l \in Lanes,
         Acquire(q) \/ Publish(q) \/ FailRun(q)
  PROVE  [Leased(l)!Next]_(Leased(l)!row)
<1> DEFINE f == request[q]
           lane == f.lane
           run == runs[lane]
<1>0. /\ f \in FrameType /\ lane \in Lanes
      /\ FrameOK(f, attempt, runs, trace, learned) /\ run.result \in Answers
      /\ run \in [identity : Identity \cup {NoIdentity}, owner : Requests \cup {NoRequest},
                  result : Answers]
      /\ runs \in [Lanes -> [identity : Identity \cup {NoIdentity},
                             owner : Requests \cup {NoRequest}, result : Answers]]
  BY Facts DEF FrameType, StoreType
<1>1. CASE UNCHANGED runs
  BY <1>1, RunsStutter
<1>2. ASSUME NEW r, runs' = [runs EXCEPT ![lane] = r],
             r.identity = run.identity, r.result = run.result, r.owner \in {NoRequest, run.owner}
      PROVE  [Leased(l)!Next]_(Leased(l)!row)
  <2>1. CASE lane = l
    <3>1. /\ runs'[l].identity = runs[l].identity /\ runs'[l].result = runs[l].result
          /\ runs'[l].owner \in {NoRequest, runs[l].owner}
      BY <1>0, <1>2, <2>1
    <3> QED
      BY <3>1 DEF Leased!Next, Leased!Leave, Leased!row
  <2> QED
    BY <1>0, <1>2, <2>1, OtherLane
<1>3. ASSUME f.pc = "acquire", Accepts(run, f.identity), run.result = NoResult,
             run.owner = NoRequest,
             runs' = [runs EXCEPT ![lane].owner = q, ![lane].identity = f.identity]
      PROVE  [Leased(l)!Next]_(Leased(l)!row)
  <2>1. PICK r : r = [run EXCEPT !.owner = q, !.identity = f.identity]
    OBVIOUS
  <2>2. r.owner = q /\ r.identity = f.identity /\ r.result = run.result
    BY <1>0, <2>1
  <2>3. runs' = [runs EXCEPT ![lane] = r]
    BY <1>0, <1>3, <2>1
  <2>4. f.identity \in Identity
    BY <1>0, <1>3 DEF FrameOK, ContextOK
  <2>5. f.identity # NoIdentity
    BY <2>4, QueryAssumption DEF Identity, NoIdentity
  <2>6. q # NoRequest
    BY QueryAssumption
  <2>7. CASE lane = l
    <3>1. /\ runs'[l].owner = q /\ runs'[l].identity = f.identity
          /\ runs'[l].result = NoResult /\ runs[l].result = NoResult
          /\ runs[l].owner = NoRequest
          /\ runs[l].identity = NoIdentity \/ f.identity = runs[l].identity
      BY <1>0, <1>3, <2>2, <2>3, <2>7 DEF Accepts
    <3> QED
      BY <2>5, <2>6, <3>1 DEF Leased!Next, Leased!Take
  <2> QED
    BY <1>0, <2>3, <2>7, OtherLane
<1>4. ASSUME run.owner = q,
             runs' = [runs EXCEPT ![lane].owner = NoRequest, ![lane].result = <<lane, q>>]
      PROVE  [Leased(l)!Next]_(Leased(l)!row)
  <2>1. PICK r : r = [run EXCEPT !.owner = NoRequest, !.result = <<lane, q>>]
    OBVIOUS
  <2>2. r.owner = NoRequest /\ r.identity = run.identity /\ r.result = <<lane, q>>
    BY <1>0, <2>1
  <2>3. runs' = [runs EXCEPT ![lane] = r]
    BY <1>0, <1>4, <2>1
  <2>4. run.owner # NoRequest /\ run.result = NoResult
    BY <1>0, <1>4, QueryAssumption, Facts DEF RowsOK, RunsOK
  <2>5. <<lane, q>> # NoResult
    BY <1>0, QueryAssumption DEF Lanes
  <2>6. CASE lane = l
    <3>1. /\ runs'[l].owner = NoRequest /\ runs'[l].identity = runs[l].identity
          /\ runs'[l].result # NoResult /\ runs[l].result = NoResult
          /\ runs[l].owner # NoRequest
      BY <1>0, <2>2, <2>3, <2>4, <2>5, <2>6
    <3> QED
      BY <3>1 DEF Leased!Next, Leased!Publish
  <2> QED
    BY <1>0, <2>3, <2>6, OtherLane
<1>5. CASE Acquire(q)
  BY <1>1, <1>3, <1>5 DEF Acquire, At
<1>6. CASE Publish(q)
  BY <1>4, <1>6 DEF Publish
<1>7. CASE FailRun(q)
  <2>1. PICK r : r = [run EXCEPT !.owner = IF @ = q THEN NoRequest ELSE @]
    OBVIOUS
  <2>2. /\ r.owner \in {NoRequest, run.owner} /\ r.identity = run.identity
        /\ r.result = run.result
    BY <1>0, <2>1
  <2>3. runs' = [runs EXCEPT ![lane] = r]
    BY <1>0, <1>7, <2>1 DEF FailRun
  <2> QED
    BY <1>2, <2>2, <2>3
<1> QED
  BY <1>5, <1>6, <1>7

\* The runs are missing at first.
LEMMA InitIsLeased == ASSUME Init, NEW l \in Lanes PROVE Leased(l)!Init
  BY DEF Init, Leased!Init

\* Every step of the service is a step of the lane's run or shows nothing of it.
LEMMA NextIsLeased ==
  ASSUME Inv, ContextOK, [Next]_vars, NEW l \in Lanes
  PROVE  [Leased(l)!Next]_(Leased(l)!row)
<1>1. ASSUME NEW q \in Requests, Step(q), ~(Acquire(q) \/ Publish(q) \/ FailRun(q))
      PROVE  UNCHANGED runs
  BY <1>1 DEF Step, ReadVersions, Prepare, AppendQuestion, Assign, Observe, NextRevision,
     SaveTrace, Learn, AppendAnswer, Finish, SaveErrorTrace, FinishError, Crash
<1>2. ASSUME NEW q \in Requests, Step(q) PROVE [Leased(l)!Next]_(Leased(l)!row)
  BY <1>1, <1>2, LaneIsLeased, RunsStutter
<1>3. ASSUME NEW m \in Lanes, Expire(m) PROVE [Leased(l)!Next]_(Leased(l)!row)
  <2>1. PICK r : r = [runs[m] EXCEPT !.owner = NoRequest]
    OBVIOUS
  <2>2. /\ r.owner = NoRequest /\ r.identity = runs[m].identity
        /\ r.result = runs[m].result
    BY <2>1, Facts DEF StoreType
  <2>3. runs' = [runs EXCEPT ![m] = r]
    BY <1>3, <2>1, Facts DEF Expire, StoreType
  <2>4. CASE m = l
    <3>1. /\ runs'[l].owner = NoRequest /\ runs'[l].identity = runs[l].identity
          /\ runs'[l].result = runs[l].result
      BY <2>2, <2>3, <2>4, Facts DEF StoreType
    <3> QED
      BY <3>1 DEF Leased!Next, Leased!Leave
  <2> QED
    BY <2>3, <2>4, OtherLane
<1>4. Retain \/ UNCHANGED vars => UNCHANGED runs
  BY DEF Retain, vars
<1> QED
  BY <1>2, <1>3, <1>4, RunsStutter DEF Next

\* The requests of a task use the runs of its lanes as the checkpoint store lets them
\* (StoreImplementsLeasedRun of CheckpointStoreProofs): nothing that is shown of the service
\* rests on a run that changes its identity, has two owners or publishes twice.
THEOREM LanesAreLeased == Spec => RunsAreLeased
<1>1. ASSUME NEW l \in Lanes
      PROVE  /\ Init => Leased(l)!Init
             /\ Inv /\ ContextOK /\ [Next]_vars => [Leased(l)!Next]_(Leased(l)!row)
  BY InitIsLeased, NextIsLeased
<1>2. /\ Init => Leased("stable")!Init
      /\ Inv /\ ContextOK /\ [Next]_vars =>
           [Leased("stable")!Next]_(Leased("stable")!row)
  BY <1>1 DEF Lanes
<1>3. /\ Init => Leased("candidate")!Init
      /\ Inv /\ ContextOK /\ [Next]_vars =>
           [Leased("candidate")!Next]_(Leased("candidate")!row)
  BY <1>1 DEF Lanes
<1>4. Init => ContextOK
  BY IdleType DEF Init, ContextOK, Begun
<1> QED
  BY <1>2, <1>3, <1>4, ContextStep, InitInv, NextInv, PTL DEF Spec, RunsAreLeased, Leased!Spec
=============================================================================
