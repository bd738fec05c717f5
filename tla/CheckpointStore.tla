--------------------------- MODULE CheckpointStore ---------------------------
(***************************************************************************)
(* One durable Text2SQL run, as evoagent/text2sql/checkpoint_store.py keeps *)
(* it in SQLite and as AgentRuntime.execute (evoagent/runtime.py) drives    *)
(* it.  Several callers (threads or processes) ask for the same task_id.    *)
(* A call acquires a leased session, restores the completed nodes, executes *)
(* the remaining ones in graph order, commits each, and publishes a result. *)
(*                                                                         *)
(* One step of the model is one SQLite transaction, or the Python code      *)
(* between two of them.  Every read the code makes outside the write        *)
(* transaction is a step of its own, so that a lease may expire, another    *)
(* caller may take over, or the process may die, in between.                *)
(***************************************************************************)
EXTENDS Integers

CONSTANTS
    Callers,        \* threads or processes that ask for this task_id
    Identity,       \* caller -> the identity digest its request presents
    NoIdentity,     \* the run row has not been inserted yet
    NoResult,       \* result_json IS NULL
    NumNodes,       \* length of the bound node_order
    Retries,        \* node_retries of the runtime
    LeaseSeconds,   \* lease_seconds of a session
    MaxTime,        \* bound on the clock
    MaxFaults       \* bound on handler errors, crashes and rejected writes

Nodes   == 1 .. NumNodes
Results == [Nodes -> Nat]

ASSUME ConstantsAssumption ==
    /\ NumNodes \in Nat \ {0}
    /\ Retries \in Nat
    /\ LeaseSeconds \in Nat \ {0}
    /\ MaxTime \in Nat
    /\ MaxFaults \in Nat
    /\ NoIdentity \notin {Identity[c] : c \in Callers}
    /\ NoResult \notin Results

VARIABLES
    now,      \* time.time()
    faults,   \* faults injected so far
    issued,   \* owner tokens handed out (a uuid4 is modelled by the next number)
    run,      \* the row of text2sql_checkpoint_runs
    ckpt,     \* the rows of text2sql_runtime_checkpoints, by node
    call,     \* the Python frame of each caller's current call
    answer    \* the result the caller's last finished call returned

store == <<issued, run, ckpt>>
vars  == <<now, faults, issued, run, ckpt, call, answer>>

Ended  == {"idle", "returned", "refused", "raised", "crashed"}
Active == {"acquire", "load", "run", "check", "commit", "closing", "finish",
           "reply", "fail"}

RunType ==
    [status : {"missing", "running", "failed", "completed"}, owner : Nat,
     expires : Nat, identity : {Identity[c] : c \in Callers} \cup {NoIdentity},
     result : Results \cup {NoResult}, spent : Nat]

NodeType == [status : {"none", "failed", "completed"}, attempt : Nat, out : Nat]

CallType ==
    [pc     : Ended \cup Active,
     seen   : Nat,      \* now_epoch, read by acquire before its transaction
     token  : Nat,      \* owner_token of the session, 0 when it is ""
     state  : Results,  \* node outputs in the runtime state, 0 when absent
     prior  : Results,  \* attempt numbers load_checkpoints returned
     at     : 1 .. NumNodes + 1,         \* the node being executed
     tries  : Nat \ {0},                 \* offset in the retry loop
     saving : {"completed", "failed"},   \* the status being saved
     used   : Nat]      \* handler executions in the call's ExecutionLedger

Empty == [n \in Nodes |-> 0]
NoNodes == [n \in Nodes |-> [status |-> "none", attempt |-> 0, out |-> 0]]

\* A caller without a Python frame: its call has not started, or is over.
Frameless(label) ==
    [pc |-> label, seen |-> 0, token |-> 0, state |-> Empty, prior |-> Empty,
     at |-> 1, tries |-> 1, saving |-> "completed", used |-> 0]

Init ==
    /\ now = 0 /\ faults = 0 /\ issued = 0
    /\ run = [status |-> "missing", owner |-> 0, expires |-> 0,
              identity |-> NoIdentity, result |-> NoResult, spent |-> 0]
    /\ ckpt = NoNodes
    /\ call = [c \in Callers |-> Frameless("idle")]
    /\ answer = [c \in Callers |-> NoResult]

(***************************************************************************)
(* Helpers.                                                                *)
(***************************************************************************)
Completed(n) == ckpt[n].status = "completed"

\* _validate_prefix: no completed node after an incomplete one.
ContinuousPrefix ==
    \A n \in Nodes : Completed(n) => \A m \in 1 .. n - 1 : Completed(m)

\* n is the first node the runtime has to execute; NumNodes + 1 when none is left.
FirstOpen(n) ==
    /\ \A m \in 1 .. n - 1 : Completed(m)
    /\ n \in Nodes => ~Completed(n)

\* Mutant of Owns: _require_owner accepts any session that once had a token.
OwnsWithoutFencing(c) == call[c].token # 0

\* _require_owner: the token matches and the lease has not run out.
Owns(c) ==
    /\ call[c].token # 0
    /\ run.owner = call[c].token
    /\ run.expires > now

AttemptOf(c) == call[c].prior[call[c].at] + call[c].tries

\* The two corruption checks of _save_checkpoint on an existing row.
Overwrites(c) ==
    /\ Completed(call[c].at)
    /\ call[c].saving # "completed" \/ ckpt[call[c].at].out # call[c].token
Backwards(c) ==
    /\ ckpt[call[c].at].status = "failed"
    /\ AttemptOf(c) < ckpt[call[c].at].attempt

\* The call of c goes on with frame f.
Become(c, f) == call' = [call EXCEPT ![c] = f]
Goto(c, label) == Become(c, [call[c] EXCEPT !.pc = label])
End(c, label)  == Become(c, Frameless(label))

NextStop(node) == IF node > NumNodes THEN "closing" ELSE "run"

Fault == faults < MaxFaults /\ faults' = faults + 1

(***************************************************************************)
(* acquire.                                                                *)
(***************************************************************************)
\* now_epoch is read before BEGIN IMMEDIATE, which may wait for the writer lock.
Call(c) ==
    /\ call[c].pc = "idle"
    /\ Become(c, [call[c] EXCEPT !.pc = "acquire", !.seen = now])
    /\ UNCHANGED <<now, faults, store, answer>>

\* The row belongs to a fresh token from now on, until its lease runs out.
Lease(c, row) ==
    run' = [row EXCEPT !.status = "running", !.owner = issued + 1,
                       !.expires = call[c].seen + LeaseSeconds]

\* Mutant of TakeLease: INSERT OR REPLACE, which cascades to the node rows.
TakeLeaseByReplace(c, row) ==
    /\ issued' = issued + 1
    /\ Lease(c, row)
    /\ Become(c, [call[c] EXCEPT !.pc = "load", !.token = issued + 1, !.used = row.spent])
    /\ ckpt' = NoNodes
    /\ UNCHANGED <<now, faults, answer>>

\* Mutant of TakeLease: the session starts with an empty execution ledger.
TakeLeaseFreshLedger(c, row) ==
    /\ issued' = issued + 1
    /\ Lease(c, row)
    /\ Become(c, [call[c] EXCEPT !.pc = "load", !.token = issued + 1])
    /\ UNCHANGED <<now, faults, ckpt, answer>>

\* The session gets the fresh token and continues the row's execution ledger.
TakeLease(c, row) ==
    /\ issued' = issued + 1
    /\ Lease(c, row)
    /\ Become(c, [call[c] EXCEPT !.pc = "load", !.token = issued + 1, !.used = row.spent])
    /\ UNCHANGED <<now, faults, ckpt, answer>>

AcquireNew(c) ==
    /\ call[c].pc = "acquire"
    /\ run.status = "missing"
    /\ TakeLease(c, [run EXCEPT !.identity = Identity[c]])

\* Mutant of AcquireTakeover: the lease of the current owner is not looked at.
AcquireTakeoverIgnoresLease(c) ==
    /\ call[c].pc = "acquire"
    /\ run.status \in {"running", "failed"}
    /\ run.identity = Identity[c]
    /\ TakeLease(c, run)

\* Mutant of AcquireTakeover: only a lease that was given back can be taken.
AcquireTakeoverNeverExpires(c) ==
    /\ call[c].pc = "acquire"
    /\ run.status \in {"running", "failed"}
    /\ run.identity = Identity[c]
    /\ run.owner = 0
    /\ TakeLease(c, run)

\* Mutant of AcquireTakeover: a finished run that is asked again is run again.
AcquireTakeoverOfAny(c) ==
    /\ call[c].pc = "acquire"
    /\ run.status # "missing"
    /\ run.identity = Identity[c]
    /\ run.owner = 0 \/ run.expires <= call[c].seen
    /\ TakeLease(c, run)

AcquireTakeover(c) ==
    /\ call[c].pc = "acquire"
    /\ run.status \in {"running", "failed"}
    /\ run.identity = Identity[c]
    /\ run.owner = 0 \/ run.expires <= call[c].seen
    /\ TakeLease(c, run)

AcquireBusy(c) ==
    /\ call[c].pc = "acquire"
    /\ run.status = "running"
    /\ run.identity = Identity[c]
    /\ run.owner # 0 /\ run.expires > call[c].seen
    /\ End(c, "raised")
    /\ UNCHANGED <<now, faults, store, answer>>

AcquireRefused(c) ==
    /\ call[c].pc = "acquire"
    /\ run.status # "missing"
    /\ run.identity # Identity[c]
    /\ End(c, "refused")
    /\ UNCHANGED <<now, faults, store, answer>>

\* Mutant of AcquireCached: a finished run answers whoever names its task_id.
AcquireCachedAnyIdentity(c) ==
    /\ call[c].pc = "acquire"
    /\ run.status = "completed"
    /\ Become(c, [call[c] EXCEPT !.pc = "reply", !.state = run.result])
    /\ UNCHANGED <<now, faults, store, answer>>

\* A completed run hands out its cached result in a session without a token.
AcquireCached(c) ==
    /\ call[c].pc = "acquire"
    /\ run.status = "completed"
    /\ run.identity = Identity[c]
    /\ Become(c, [call[c] EXCEPT !.pc = "reply", !.state = run.result])
    /\ UNCHANGED <<now, faults, store, answer>>

(***************************************************************************)
(* The node loop of AgentRuntime.execute and session.save_checkpoint.      *)
(***************************************************************************)
\* Mutant of Load: completed nodes are skipped but their outputs are not restored.
LoadWithoutOutputs(c) ==
    /\ call[c].pc = "load"
    /\ \E n \in 1 .. NumNodes + 1 :
        /\ FirstOpen(n)
        /\ Become(c, [call[c] EXCEPT !.pc = NextStop(n), !.at = n,
                          !.prior = [m \in Nodes |-> ckpt[m].attempt]])
    /\ UNCHANGED <<now, faults, store, answer>>

\* load_checkpoints: one read, then the completed prefix enters the state.
Load(c) ==
    /\ call[c].pc = "load"
    /\ IF ContinuousPrefix
         THEN \E n \in 1 .. NumNodes + 1 :
                /\ FirstOpen(n)
                /\ Become(c, [call[c] EXCEPT !.pc = NextStop(n), !.at = n,
                        !.prior = [m \in Nodes |-> ckpt[m].attempt],
                        !.state = [m \in Nodes |-> IF Completed(m) THEN ckpt[m].out ELSE 0]])
         ELSE Goto(c, "fail")
    /\ UNCHANGED <<now, faults, store, answer>>

\* node.handler returns; its output is identified by the session that computed it.
HandlerReturns(c) ==
    /\ call[c].pc = "run"
    /\ Become(c, [call[c] EXCEPT !.pc = "check", !.saving = "completed",
                      !.used = call[c].used + 1,
                      !.state = [call[c].state EXCEPT ![call[c].at] = call[c].token]])
    /\ UNCHANGED <<now, faults, store, answer>>

\* An ordinary exception: the attempt is recorded as failed.
HandlerRaises(c) ==
    /\ call[c].pc = "run"
    /\ Fault
    /\ Become(c, [call[c] EXCEPT !.pc = "check", !.saving = "failed",
                      !.used = call[c].used + 1])
    /\ UNCHANGED <<now, store, answer>>

\* ValueError, RuntimeCancelled or RuntimeBudgetExceeded, in the handler, or in
\* guard before the handler ran.
HandlerAborts(c) ==
    /\ call[c].pc = "run"
    /\ Fault
    /\ \E ran \in {0, 1} :
        Become(c, [call[c] EXCEPT !.pc = "fail", !.used = call[c].used + ran])
    /\ UNCHANGED <<now, store, answer>>

\* save_checkpoint reads the previous nodes outside the store's transaction.
CheckPrevious(c) ==
    /\ call[c].pc = "check"
    /\ Goto(c, IF \A m \in 1 .. call[c].at - 1 : Completed(m) THEN "commit" ELSE "fail")
    /\ UNCHANGED <<now, faults, store, answer>>

\* The upsert of _save_checkpoint and the lease renewal, in one transaction.
Upsert(c) ==
    /\ ckpt' = IF Completed(call[c].at) THEN ckpt
               ELSE [ckpt EXCEPT ![call[c].at] =
                       [status  |-> call[c].saving,
                        attempt |-> AttemptOf(c),
                        out |-> IF call[c].saving = "completed" THEN call[c].token ELSE 0]]
    /\ run' = [run EXCEPT !.expires = now + LeaseSeconds, !.spent = call[c].used]

CommitCompleted(c) ==
    /\ call[c].pc = "commit" /\ call[c].saving = "completed"
    /\ Owns(c) /\ ~Overwrites(c) /\ ~Backwards(c)
    /\ Upsert(c)
    /\ Become(c, [call[c] EXCEPT !.pc = NextStop(call[c].at + 1),
                      !.at = call[c].at + 1, !.tries = 1])
    /\ UNCHANGED <<now, faults, issued, answer>>

CommitFailed(c) ==
    /\ call[c].pc = "commit" /\ call[c].saving = "failed"
    /\ Owns(c) /\ ~Overwrites(c) /\ ~Backwards(c)
    /\ Upsert(c)
    /\ IF call[c].tries <= Retries
         THEN Become(c, [call[c] EXCEPT !.pc = "run", !.tries = call[c].tries + 1])
         ELSE Goto(c, "fail")
    /\ UNCHANGED <<now, faults, issued, answer>>

\* The write raises Text2SQLCheckpointBusy, a RuntimeError, or finds the database
\* locked: the retry loop takes it for a node failure and saves the attempt as
\* failed; a second exception leaves the loop.
CommitFenced(c) ==
    /\ call[c].pc = "commit"
    /\ (~Owns(c) /\ UNCHANGED faults) \/ Fault
    /\ Become(c, [call[c] EXCEPT !.saving = "failed",
                      !.pc = IF call[c].saving = "completed" THEN "check" ELSE "fail"])
    /\ UNCHANGED <<now, store, answer>>

\* An oversized state, or a corruption check: both are ValueErrors.
CommitRejected(c) ==
    /\ call[c].pc = "commit"
    /\ \/ Fault
       \/ Owns(c) /\ (Overwrites(c) \/ Backwards(c)) /\ UNCHANGED faults
    /\ Goto(c, "fail")
    /\ UNCHANGED <<now, store, answer>>

(***************************************************************************)
(* complete and fail.                                                      *)
(***************************************************************************)
\* complete reads every node outside the transaction of _finish.
CheckComplete(c) ==
    /\ call[c].pc = "closing"
    /\ Goto(c, IF \A n \in Nodes : Completed(n) THEN "finish" ELSE "fail")
    /\ UNCHANGED <<now, faults, store, answer>>

\* _finish gives the lease up and leaves a terminal row.
Release(c, status, result) ==
    /\ run' = [run EXCEPT !.status = status, !.owner = 0, !.expires = 0,
                          !.result = result, !.spent = call[c].used]
    /\ UNCHANGED <<issued, ckpt>>

FinishCompleted(c) ==
    /\ call[c].pc = "finish"
    /\ Owns(c)
    /\ Release(c, "completed", call[c].state)
    /\ Become(c, [call[c] EXCEPT !.pc = "reply", !.token = 0])
    /\ UNCHANGED <<now, faults, answer>>

\* The lease is gone, or the result is larger than MAX_CHECKPOINT_JSON_BYTES.
FinishRejected(c) ==
    /\ call[c].pc = "finish"
    /\ Fault \/ (~Owns(c) /\ UNCHANGED faults)
    /\ Goto(c, "fail")
    /\ UNCHANGED <<now, store, answer>>

\* The answer leaves the process after the result is durable.
Reply(c) ==
    /\ call[c].pc = "reply"
    /\ answer' = [answer EXCEPT ![c] = call[c].state]
    /\ End(c, "returned")
    /\ UNCHANGED <<now, faults, store>>

\* Mutant of Fail: the row is marked failed without _require_owner.
FailWithoutOwner(c) ==
    /\ call[c].pc = "fail"
    /\ Release(c, "failed", NoResult)
    /\ End(c, "raised")
    /\ UNCHANGED <<now, faults, answer>>

\* session.fail, reached from every exception; the exception is re-raised.
Fail(c) ==
    /\ call[c].pc = "fail"
    /\ IF Owns(c) THEN Release(c, "failed", NoResult) ELSE UNCHANGED store
    /\ End(c, "raised")
    /\ UNCHANGED <<now, faults, answer>>

(***************************************************************************)
(* The environment.                                                        *)
(***************************************************************************)
\* The caller sends the same task_id again.
Retry(c) ==
    /\ call[c].pc \in {"raised", "crashed"}
    /\ Goto(c, "idle")
    /\ UNCHANGED <<now, faults, store, answer>>

\* The process dies.  A lease it leaves behind must be able to run out before
\* MaxTime, or the bound on the clock would keep the run busy for ever.
Crash(c) ==
    /\ call[c].pc \in Active
    /\ Fault
    /\ Owns(c) => run.expires <= MaxTime
    /\ End(c, "crashed")
    /\ UNCHANGED <<now, store, answer>>

Tick ==
    /\ now < MaxTime
    /\ now' = now + 1
    /\ UNCHANGED <<faults, store, call, answer>>

Acquire(c) ==
    \/ AcquireNew(c) \/ AcquireTakeover(c) \/ AcquireBusy(c)
    \/ AcquireRefused(c) \/ AcquireCached(c)

Handler(c) == HandlerReturns(c) \/ HandlerRaises(c) \/ HandlerAborts(c)

Commit(c) ==
    \/ CommitCompleted(c) \/ CommitFailed(c)
    \/ CommitFenced(c) \/ CommitRejected(c)

Step(c) ==
    \/ Call(c) \/ Acquire(c) \/ Load(c) \/ Handler(c) \/ CheckPrevious(c)
    \/ Commit(c) \/ CheckComplete(c) \/ FinishCompleted(c) \/ FinishRejected(c)
    \/ Reply(c) \/ Fail(c) \/ Retry(c)

Next ==
    \/ \E c \in Callers : Step(c) \/ Crash(c)
    \/ Tick

Spec == Init /\ [][Next]_vars

\* A live process keeps running, a caller without an answer asks again, and time
\* passes.  Nothing obliges a process to crash.
Fairness == WF_vars(Tick) /\ \A c \in Callers : WF_vars(Step(c))

FairSpec == Spec /\ Fairness

(***************************************************************************)
(* Properties.                                                             *)
(***************************************************************************)
\* Every variable keeps its type.
TypeOK ==
    /\ now \in Nat /\ faults \in Nat /\ issued \in Nat
    /\ run \in RunType
    /\ ckpt \in [Nodes -> NodeType]
    /\ call \in [Callers -> CallType]
    /\ answer \in [Callers -> Results \cup {NoResult}]

\* The continuity checks of save_checkpoint and complete read outside the write
\* transaction, and sessions without a lease go on running; still none of the
\* corruption checks (_validate_prefix, "non-continuous graph prefix",
\* "cannot complete before", "cannot be overwritten", "moved backwards") ever
\* fires on a store that nobody tampered with.
NoFalseCorruption ==
    /\ ContinuousPrefix
    /\ \A c \in Callers :
        /\ call[c].pc \in {"check", "commit"} =>
             \A m \in 1 .. call[c].at - 1 : Completed(m)
        /\ call[c].pc \in {"closing", "finish"} => \A n \in Nodes : Completed(n)
        /\ call[c].pc = "commit" /\ Owns(c) => ~Overwrites(c) /\ ~Backwards(c)

\* A published result is made of exactly the committed node outputs, whichever
\* sessions computed them: no output of a fenced session leaks into it.
ResultIsCommitted ==
    run.status = "completed" =>
        run.result = [n \in Nodes |-> ckpt[n].out] /\ \A n \in Nodes : Completed(n)

\* Every call that returns an answer returns the published result, and only to
\* a caller that presents the identity the run is bound to.
AnswersAgree ==
    \A c \in Callers : answer[c] # NoResult =>
        /\ run.status = "completed"
        /\ answer[c] = run.result
        /\ Identity[c] = run.identity

\* A committed node is never changed or lost, by whoever holds the lease later.
CompletedNodesAreFinal ==
    [][\A n \in Nodes : Completed(n) => ckpt'[n] = ckpt[n]]_vars

\* Crashes and takeovers do not make a node's attempt number start over.
AttemptsNeverGoBack ==
    [][\A n \in Nodes : ckpt'[n].attempt >= ckpt[n].attempt]_vars

\* A lease changes hands only after it ran out or was given back, although
\* acquire compares it with a clock it read before it got the writer lock.
NoTakeoverOfALiveLease ==
    [][run.owner # 0 /\ run'.owner # 0 /\ run'.owner # run.owner
         => run.expires <= now]_vars

\* The budget consumption on the row only grows: a takeover resumes the ledger
\* of its predecessor instead of starting from zero.
LedgerNeverShrinks == [][run'.spent >= run.spent]_vars

\* Crashes, takeovers and sessions that lost their lease never set the run back: the
\* attempt number of a node does not start over, and neither does the budget consumption
\* of the run (acquire resumes the ledger of the predecessor, the node runtime its
\* attempt number).
ProgressIsKept == AttemptsNeverGoBack /\ LedgerNeverShrinks

\* Every caller with the identity of the run in the end gets an answer, through
\* crashes, handler errors and lost leases, as long as the faults stop.
EveryCallerIsServed ==
    \A c \in Callers : <>(call[c].pc \in {"returned", "refused"})

(***************************************************************************)
(* The store implements DurableRun.                                        *)
(***************************************************************************)
Durable == INSTANCE DurableRun WITH
    committed <- [n \in Nodes |-> ckpt[n].out],
    published <- run.result

\* Whatever sessions, leases and crashes do, what is durable about the task only
\* evolves as DurableRun allows.
ImplementsDurableRun == Durable!Spec

(***************************************************************************)
(* The row of the run implements LeasedRun.                                *)
(***************************************************************************)
Leased == INSTANCE LeasedRun WITH
    identity <- run.identity,
    owner    <- run.owner,
    NoOwner  <- 0,
    result   <- run.result

\* Whatever a request sees of the run row, which is all that the query service relies on
\* (acquire, _require_owner and _finish), is a leased run: it stays bound to its first
\* identity, one session at a time owns it, and only an owner publishes the result, once.
ImplementsLeasedRun == Leased!Spec
=============================================================================
