----------------------------- MODULE QueryService -----------------------------
(***************************************************************************)
(* Text2SQLWebService.query for one task_id: requests of several processes  *)
(* and threads that carry the same id, because the browser retries it or    *)
(* sends it twice.                                                         *)
(*                                                                         *)
(* A request freezes the conversation context in the attempt row, runs the  *)
(* policy lanes the release asks for over the durable runs of the           *)
(* checkpoint store (module CheckpointStore; here a lease and a result),    *)
(* and then records the trace, the answer, what was learned and the cached  *)
(* response in separate transactions of the evolution store.  It may die    *)
(* between any two of them.                                                *)
(***************************************************************************)
EXTENDS Integers, Sequences, SequencesExt

CONSTANTS
    Requests,     \* the requests that carry the task_id
    Releases,     \* database, corpus, memory and policy versions
    Sessions,     \* what the other tasks have said in the session so far
    NoRequest,    \* the owner of a lease nobody holds
    NoResult,     \* where there is no result
    FaultyWrites  \* whether a write to the evolution store may fail

ASSUME QueryAssumption ==
    /\ NoRequest \notin Requests \cup Releases
    /\ NoResult \notin Requests \cup ({"stable", "candidate"} \X Requests)
    /\ FaultyWrites \in BOOLEAN

VARIABLES
    attempt,   \* the row of query_attempts
    runs,      \* the durable run of each policy lane
    trace,     \* the rows of query_trace_revisions, by revision
    projection,  \* the row of query_traces
    messages,  \* the rows of memory_messages, in order
    learned,   \* the experiences in memory_items
    request    \* the Python frame of each request

store == <<attempt, trace, projection, messages, learned>>
vars  == <<store, runs, request>>

Lanes    == {"stable", "candidate"}
Rollouts == {"off", "shadow", "canary"}

\* Who published it tells two results of a lane apart.
Result   == Lanes \X Requests
Answers  == Result \cup {NoResult}
ErrorTrace == [result |-> NoResult, source |-> "stable"]
TraceType  == [result : Answers, source : {"stable", "shadow", "candidate"}]
NoIdentity == [release |-> NoRequest, context |-> NoRequest]
Identity   == [release : Releases, context : Sessions]

FrameType ==
    [pc : {"idle", "prepare", "question", "assign", "acquire", "run", "observe",
           "revision", "save", "learn", "answer", "finish",
           "errorRevision", "errorSave", "errorFinish",
           "answered", "cached", "refused", "failed", "dead"},
     identity : Identity \cup {NoIdentity}, \* its pins and its conversation context
     rollout : Rollouts, lane : Lanes,      \* its assignment and the lane it runs
     stable : Answers, candidate : Answers, \* the results of the lanes
     revision : Nat,                        \* next_query_trace_revision
     degraded : BOOLEAN,                    \* memory_status
     fault : BOOLEAN,                       \* a write of this request failed
     answer : Answers]                      \* what the caller got

Idle ==
    [pc |-> "idle", identity |-> NoIdentity, rollout |-> "off", lane |-> "stable",
     stable |-> NoResult, candidate |-> NoResult, revision |-> 0,
     degraded |-> FALSE, fault |-> FALSE, answer |-> NoResult]

Init ==
    /\ attempt = [status |-> "missing", identity |-> NoIdentity, response |-> NoResult]
    /\ runs = [l \in Lanes |-> [identity |-> NoIdentity, owner |-> NoRequest, result |-> NoResult]]
    /\ trace = <<>>
    /\ projection = ErrorTrace
    /\ messages = <<>>
    /\ learned = {}
    /\ request = [q \in Requests |-> Idle]

At(q, pc) == request[q].pc = pc

Goto(q, pc) == request' = [request EXCEPT ![q].pc = pc]

\* The frame is gone; only what the caller got remains.
Return(q, pc, answer) ==
    request' = [request EXCEPT ![q] = [Idle EXCEPT !.pc = pc, !.answer = answer]]

\* A write that raises leaves the evolution store as it was.
Fault(q, pc) ==
    /\ FaultyWrites
    /\ request' = [request EXCEPT ![q].pc = pc, ![q].degraded = TRUE, ![q].fault = TRUE]
    /\ UNCHANGED store

(***************************************************************************)
(* The attempt.                                                            *)
(***************************************************************************)
\* The pins and the session without this task, read before the transaction: the release
\* and the session move whenever they like.
ReadVersions(q) ==
    /\ At(q, "idle")
    /\ \E identity \in Identity :
           request' = [request EXCEPT ![q].pc = "prepare", ![q].identity = identity]
    /\ UNCHANGED <<store, runs>>

\* Mutant of Prepare: a retry runs in the context it has just read.
PrepareInCurrentContext(q) ==
    LET mine == request[q].identity
        same == attempt.identity.release = mine.release
    IN
    /\ At(q, "prepare")
    /\ \/ /\ attempt.status = "missing"
          /\ attempt' = [status |-> "pending", identity |-> mine, response |-> NoResult]
          /\ Goto(q, "question")
       \/ /\ attempt.status # "missing" /\ ~same
          /\ Return(q, "refused", NoResult)
          /\ UNCHANGED attempt
       \/ /\ attempt.status = "completed" /\ same
          /\ Return(q, "cached", attempt.response)
          /\ UNCHANGED attempt
       \/ /\ attempt.status \in {"pending", "error"} /\ same
          /\ attempt' = [attempt EXCEPT !.status = "pending"]
          /\ Goto(q, "question")
    /\ UNCHANGED <<trace, projection, messages, learned, runs>>

\* prepare_query_attempt inserts the row, or compares everything but the context with it,
\* takes over its context, and answers what a completed row has cached.
Prepare(q) ==
    LET mine == request[q].identity
        same == attempt.identity.release = mine.release
    IN
    /\ At(q, "prepare")
    /\ \/ /\ attempt.status = "missing"
          /\ attempt' = [status |-> "pending", identity |-> mine, response |-> NoResult]
          /\ Goto(q, "question")
       \/ /\ attempt.status # "missing" /\ ~same
          /\ Return(q, "refused", NoResult)
          /\ UNCHANGED attempt
       \/ /\ attempt.status = "completed" /\ same
          /\ Return(q, "cached", attempt.response)
          /\ UNCHANGED attempt
       \/ /\ attempt.status \in {"pending", "error"} /\ same
          /\ attempt' = [attempt EXCEPT !.status = "pending"]
          /\ request' = [request EXCEPT ![q].pc = "question", ![q].identity = attempt.identity]
    /\ UNCHANGED <<trace, projection, messages, learned, runs>>

\* Mutant of Appended: a plain INSERT.
AppendedAgain(role) == Append(messages, role)

\* append_message: INSERT ... WHERE NOT EXISTS one of the task and the role.
Appended(role) ==
    IF \E i \in DOMAIN messages : messages[i] = role THEN messages ELSE Append(messages, role)

\* Not guarded by the handler of query: a failure reaches the caller at once.
AppendQuestion(q) ==
    /\ At(q, "question")
    /\ \/ /\ messages' = Appended("user")
          /\ Goto(q, "assign")
          /\ UNCHANGED <<attempt, trace, projection, learned>>
       \/ FaultyWrites /\ Return(q, "failed", NoResult) /\ UNCHANGED store
    /\ UNCHANGED runs

(***************************************************************************)
(* The release and the durable runs.  A lane's run is keyed by the task and *)
(* the lane's policy; the store compares the rest of the identity.          *)
(***************************************************************************)
Assign(q) ==
    /\ At(q, "assign")
    /\ \E rollout \in Rollouts :
           request' = [request EXCEPT ![q].pc = "acquire", ![q].rollout = rollout]
    /\ UNCHANGED <<store, runs>>

Accepts(run, identity) == run.identity \in {NoIdentity, identity}


\* The lanes run in two threads and share nothing but the frame: the model runs one after
\* the other.  Without the stable result there is no answer; without the candidate's, the
\* stable one is it.  A candidate result may also be rated a failure.
LaneFailed(q) ==
    IF request[q].lane = "stable"
    THEN request' = [request EXCEPT ![q] = [Idle EXCEPT !.pc = "errorRevision"]]
    ELSE Goto(q, "observe")

\* What the rest of query needs of the frame once the release has its result.
Conclude(q, result) ==
    request' = [request EXCEPT ![q] =
                    [Idle EXCEPT !.pc = "revision", !.rollout = request[q].rollout, !.answer = result]]

LaneReturned(q, result) ==
    \/ /\ request[q].lane = "stable" /\ request[q].rollout = "off"
       /\ Conclude(q, result)
    \/ /\ request[q].lane = "stable" /\ request[q].rollout # "off"
       /\ request' = [request EXCEPT ![q].pc = "acquire", ![q].stable = result,
                          ![q].lane = "candidate"]
    \/ /\ request[q].lane = "candidate"
       /\ \E rated \in {result, NoResult} :
              request' = [request EXCEPT ![q].pc = "observe", ![q].candidate = rated]

\* The run is cached, refused because its identity differs, busy, or ours.
Acquire(q) ==
    LET lane == request[q].lane
        run  == runs[lane]
    IN
    /\ At(q, "acquire")
    /\ \/ /\ ~Accepts(run, request[q].identity)
          /\ LaneFailed(q)
          /\ UNCHANGED runs
       \/ /\ Accepts(run, request[q].identity) /\ run.result # NoResult
          /\ LaneReturned(q, run.result)
          /\ UNCHANGED runs
       \/ /\ Accepts(run, request[q].identity) /\ run.result = NoResult
          /\ run.owner # NoRequest
          /\ LaneFailed(q)
          /\ UNCHANGED runs
       \/ /\ Accepts(run, request[q].identity) /\ run.result = NoResult
          /\ run.owner = NoRequest
          /\ runs' = [runs EXCEPT ![lane].owner = q, ![lane].identity = request[q].identity]
          /\ Goto(q, "run")
    /\ UNCHANGED <<store>>

\* Mutant of Publish: the session does not look at its lease.
PublishWithoutLease(q) ==
    LET lane == request[q].lane
    IN
    /\ At(q, "run")
    /\ runs' = [runs EXCEPT ![lane].owner = NoRequest, ![lane].result = <<lane, q>>]
    /\ LaneReturned(q, <<lane, q>>)
    /\ UNCHANGED <<store>>

Publish(q) ==
    LET lane == request[q].lane
    IN
    /\ At(q, "run") /\ runs[lane].owner = q
    /\ runs' = [runs EXCEPT ![lane].owner = NoRequest, ![lane].result = <<lane, q>>]
    /\ LaneReturned(q, <<lane, q>>)
    /\ UNCHANGED <<store>>

\* A node raises and the session releases its lease, or the lease is already another's.
FailRun(q) ==
    LET lane == request[q].lane
    IN
    /\ At(q, "run")
    /\ runs' = [runs EXCEPT ![lane].owner = IF @ = q THEN NoRequest ELSE @]
    /\ LaneFailed(q)
    /\ UNCHANGED <<store>>

\* Takeover: an overdue lease is as good as none.
Expire(lane) ==
    /\ runs[lane].owner # NoRequest
    /\ runs' = [runs EXCEPT ![lane].owner = NoRequest]
    /\ UNCHANGED <<store, request>>

\* The shadow observation (module ShadowRelease), whose failure fails the request, and the
\* choice of the result.
Served(q) ==
    IF request[q].rollout = "canary" /\ request[q].candidate # NoResult
    THEN request[q].candidate
    ELSE request[q].stable

Observe(q) ==
    /\ At(q, "observe")
    /\ \/ Conclude(q, Served(q))
       \/ FaultyWrites /\ request' = [request EXCEPT ![q] = [Idle EXCEPT !.pc = "errorRevision"]]
    /\ UNCHANGED <<store, runs>>

(***************************************************************************)
(* _remember_trace: every step may fail on its own; only the first makes it *)
(* give up the others.                                                     *)
(***************************************************************************)
SourceLane(q) ==
    CASE request[q].rollout = "off"    -> "stable"
      [] request[q].rollout = "shadow" -> "shadow"
      [] request[q].rollout = "canary" -> "candidate"

NextRevision(q) ==
    /\ \/ /\ At(q, "revision")
          /\ request' = [request EXCEPT ![q].pc = "save", ![q].revision = Len(trace) + 1]
          /\ UNCHANGED store
       \/ /\ At(q, "revision") /\ FaultyWrites
          /\ Return(q, "answered", request[q].answer)
          /\ UNCHANGED store
       \/ /\ At(q, "errorRevision")
          /\ request' = [request EXCEPT ![q].pc = "errorSave", ![q].revision = Len(trace) + 1]
          /\ UNCHANGED store
       \/ At(q, "errorRevision") /\ Fault(q, "errorFinish")
    /\ UNCHANGED runs

\* Mutant of Saved: the projection is replaced for a known revision too.
SavedWithProjection(revision, content) ==
    /\ trace'      = IF revision > Len(trace) THEN Append(trace, content) ELSE trace
    /\ projection' = content

\* save_query_trace: the same evidence at a revision is written once, other evidence is a
\* conflict; a new revision also replaces the projection.
Saved(revision, content) ==
    /\ trace'      = IF revision > Len(trace) THEN Append(trace, content) ELSE trace
    /\ projection' = IF revision > Len(trace) THEN content ELSE projection

Conflicts(revision, content) == revision <= Len(trace) /\ trace[revision] # content

SaveTrace(q) ==
    LET content  == [result |-> request[q].answer, source |-> SourceLane(q)]
        revision == request[q].revision
    IN
    /\ At(q, "save")
    /\ \/ /\ ~Conflicts(revision, content)
          /\ Saved(revision, content)
          /\ Goto(q, "learn")
          /\ UNCHANGED <<attempt, messages, learned>>
       \/ /\ Conflicts(revision, content)
          /\ request' = [request EXCEPT ![q].pc = "answer", ![q].degraded = TRUE]
          /\ UNCHANGED store
       \/ Fault(q, "answer")
    /\ UNCHANGED runs

\* add_experience_memory for what a run of the stable lane teaches: the evidence does not
\* contain the revision, the row does, and a row of another revision is another experience.
LearnOf(q) == {e \in learned : e.result = request[q].answer}

Learn(q) ==
    /\ At(q, "learn")
    /\ \/ /\ SourceLane(q) # "stable"
          /\ Goto(q, "answer")
          /\ UNCHANGED store
       \/ /\ SourceLane(q) = "stable" /\ LearnOf(q) = {}
          /\ learned' = learned \cup {[result |-> request[q].answer, revision |-> request[q].revision]}
          /\ Goto(q, "answer")
          /\ UNCHANGED <<attempt, trace, projection, messages>>
       \/ /\ SourceLane(q) = "stable"
          /\ \E e \in LearnOf(q) :
                 request' = [request EXCEPT ![q].pc = "answer",
                                 ![q].degraded = e.revision # request[q].revision]
          /\ UNCHANGED store
       \/ SourceLane(q) = "stable" /\ Fault(q, "answer")
    /\ UNCHANGED runs

AppendAnswer(q) ==
    /\ At(q, "answer")
    /\ \/ /\ messages' = Appended("assistant")
          /\ Goto(q, "finish")
          /\ UNCHANGED <<attempt, trace, projection, learned>>
       \/ Fault(q, "finish")
    /\ UNCHANGED runs

\* finish_query_attempt "completed", whatever the row says now; then the caller has its
\* answer.
Finish(q) ==
    /\ At(q, "finish")
    /\ \/ /\ attempt' = [attempt EXCEPT !.status = "completed", !.response = request[q].answer]
          /\ Return(q, "answered", request[q].answer)
          /\ UNCHANGED <<trace, projection, messages, learned>>
       \/ /\ FaultyWrites
          /\ Return(q, "answered", request[q].answer)
          /\ UNCHANGED store
    /\ UNCHANGED runs

(***************************************************************************)
(* The handler of a failed run: an error trace and an error attempt, both   *)
(* at best effort.                                                         *)
(***************************************************************************)
SaveErrorTrace(q) ==
    /\ At(q, "errorSave")
    /\ \/ /\ ~Conflicts(request[q].revision, ErrorTrace)
          /\ Saved(request[q].revision, ErrorTrace)
          /\ Goto(q, "errorFinish")
          /\ UNCHANGED <<attempt, messages, learned>>
       \/ /\ Conflicts(request[q].revision, ErrorTrace)
          /\ Goto(q, "errorFinish")
          /\ UNCHANGED store
       \/ Fault(q, "errorFinish")
    /\ UNCHANGED runs

FinishError(q) ==
    /\ At(q, "errorFinish")
    /\ \/ /\ attempt' = [attempt EXCEPT !.status = "error"]
          /\ Return(q, "failed", NoResult)
          /\ UNCHANGED <<trace, projection, messages, learned>>
       \/ FaultyWrites /\ Return(q, "failed", NoResult) /\ UNCHANGED store
    /\ UNCHANGED runs

(***************************************************************************)
(* The surroundings.                                                       *)
(***************************************************************************)
Over == {"answered", "cached", "refused", "failed", "dead"}

Crash(q) ==
    /\ request[q].pc \notin Over \cup {"idle"}
    /\ Return(q, "dead", NoResult)
    /\ UNCHANGED <<store, runs>>

\* Other tasks of the session write enough messages for retention to drop this task's
\* oldest one.
Retain ==
    /\ messages # <<>>
    /\ messages' = Tail(messages)
    /\ UNCHANGED <<attempt, trace, projection, learned, runs, request>>

Step(q) ==
    \/ ReadVersions(q) \/ Prepare(q) \/ AppendQuestion(q)
    \/ Assign(q) \/ Acquire(q) \/ Publish(q) \/ FailRun(q) \/ Observe(q)
    \/ NextRevision(q) \/ SaveTrace(q) \/ Learn(q) \/ AppendAnswer(q) \/ Finish(q)
    \/ SaveErrorTrace(q) \/ FinishError(q)
    \/ Crash(q)

Next ==
    \/ \E q \in Requests : Step(q)
    \/ \E l \in Lanes : Expire(l)
    \/ Retain

Spec == Init /\ [][Next]_vars

(***************************************************************************)
(* Properties.                                                             *)
(***************************************************************************)
\* Types of the rows and the frames.
TypeOK ==
    /\ attempt \in [status : {"missing", "pending", "completed", "error"},
                    identity : Identity \cup {NoIdentity}, response : Answers]
    /\ runs \in [Lanes -> [identity : Identity \cup {NoIdentity},
                           owner : Requests \cup {NoRequest}, result : Answers]]
    /\ trace \in Seq(TraceType) /\ projection \in TraceType
    /\ messages \in Seq({"user", "assistant"})
    /\ learned \subseteq [result : Answers, revision : Nat]
    /\ request \in [Requests -> FrameType]

\* Whatever crashes, races and retries: what a caller was told and what the attempt caches
\* is the result its lane's run still holds, so no two callers are told different results of
\* one lane.
AnswersAreDurable ==
    \A answer \in {request[q].answer : q \in Requests} \cup {attempt.response} :
        answer # NoResult => runs[answer[1]].result = answer

\* A request that has passed prepare_query_attempt is never turned away by the checkpoint
\* store for another identity, however the session and the release have moved since the
\* first request: the frozen context is the one the run was started in.
RetryIsAccepted ==
    \A q \in Requests :
        At(q, "acquire") => Accepts(runs[request[q].lane], request[q].identity)

\* A revision of the query trace never changes and none is lost (the immutable evidence of
\* save_query_trace), although its number is read in another transaction.
TraceIsImmutable == [][IsPrefix(trace, trace')]_vars

\* query_traces shows the newest revision, also when an older one is written again.
ProjectionIsLatest == trace # <<>> => projection = trace[Len(trace)]

\* A request that does not report degraded memory has its answer among the evidence and,
\* when the answer teaches something, the lesson in the memory (memory_status of finalize_run).
MemoryStatusIsTrue ==
    \A q \in Requests :
        At(q, "finish") /\ ~request[q].degraded =>
            /\ \E i \in DOMAIN trace : trace[i].result = request[q].answer
            /\ SourceLane(q) = "stable" => LearnOf(q) # {}

\* The evidence of a task only grows, its latest state is what is shown, and a caller is
\* told when it is not there.
EvidenceIsKept == TraceIsImmutable /\ [](ProjectionIsLatest /\ MemoryStatusIsTrue)

\* A task says one thing in each role of the conversation, however often it is run.
OneMessagePerRole ==
    \A i, j \in DOMAIN messages : messages[i] = messages[j] => i = j

\* A run teaches its lesson once, under one revision (memory_id is made of the evidence).
OneExperiencePerRun ==
    \A e, f \in learned : e.result = f.result => e = f

\* Retries, takeovers and crashes repeat no side effect of a request: neither a message
\* of the conversation nor a lesson.
SideEffectsHappenOnce == OneMessagePerRole /\ OneExperiencePerRun

(***************************************************************************)
(* The run of a lane is a run of the checkpoint store.                     *)
(***************************************************************************)
Leased(lane) == INSTANCE LeasedRun WITH
    identity <- runs[lane].identity,
    owner    <- runs[lane].owner,
    NoOwner  <- NoRequest,
    result   <- runs[lane].result

\* The runs of both lanes do what the module CheckpointStore promises, so that what is shown
\* here for requests that share a run holds for the store behind them.
RunsAreLeased == Leased("stable")!Spec /\ Leased("candidate")!Spec
=============================================================================
