------------------------ MODULE CheckpointStoreProofs ------------------------
(***************************************************************************)
(* Proofs about CheckpointStore, for every number of callers, nodes and     *)
(* retries, every lease length, and every bound on time and faults.         *)
(***************************************************************************)
EXTENDS CheckpointStore, TLAPS

(***************************************************************************)
(* Frames and rows: what the record updates of the actions yield.          *)
(***************************************************************************)
\* A caller without a frame is well typed.
LEMMA FramelessType ==
  ASSUME NEW label \in Ended \cup Active
  PROVE  Frameless(label) \in CallType /\ Frameless(label).pc = label
  BY ConstantsAssumption DEF Frameless, CallType, Empty, Results, Nodes

\* What Become changes, and what it leaves alone.
LEMMA BecomeFrame ==
  ASSUME call \in [Callers -> CallType], NEW c \in Callers,
         NEW f \in CallType, Become(c, f)
  PROVE  /\ call' \in [Callers -> CallType]
         /\ call'[c] = f
         /\ \A d \in Callers : d # c => call'[d] = call[d]
  BY DEF Become

\* The frame of a call that got the cached result.
LEMMA CachedFrame ==
  ASSUME NEW f \in CallType, NEW res \in Results
  PROVE  LET new == [f EXCEPT !.pc = "reply", !.state = res]
         IN  new \in CallType /\ new.pc = "reply" /\ new.state = res /\ new.token = f.token
  BY DEF CallType, Active

\* The frame of a call that read the clock.
LEMMA CalledFrame ==
  ASSUME NEW f \in CallType, NEW t \in Nat
  PROVE  LET new == [f EXCEPT !.pc = "acquire", !.seen = t]
         IN  new \in CallType /\ new.pc = "acquire" /\ new.token = f.token
  BY DEF CallType, Active

(***************************************************************************)
(* The inductive invariant.                                                *)
(*                                                                         *)
(* The safety properties are not inductive by themselves: they say nothing  *)
(* of what a session holds in memory while it has lost, or may lose, its    *)
(* lease.  Session says it: whatever a session restored or committed is     *)
(* still what the store holds (a completed node never changes), and as long *)
(* as a session owns the row nobody else touched the nodes it has yet to do.*)
(***************************************************************************)
Holding == {"load", "run", "check", "commit", "closing", "finish", "fail"}
InNode  == {"run", "check", "commit"}

\* The row: an owner means running, a result means completed.
RowInv ==
    /\ run.owner <= issued
    /\ run.owner # 0 => run.status = "running"
    /\ run.status # "completed" => run.result = NoResult
    /\ run.status = "missing" => run.identity = NoIdentity
    /\ ResultIsCommitted

\* The nodes: completed ones are a prefix, and they are the ones with an output.
NodeInv ==
    /\ ContinuousPrefix
    /\ \A n \in Nodes : Completed(n) <=> ckpt[n].out # 0

\* Owner tokens are not shared.
TokenInv ==
    \A c, d \in Callers :
        call[c].token # 0 /\ call[c].token = call[d].token => c = d

\* A session has a token until its call ends, for the identity of the row.
HoldsToken(c) ==
    /\ call[c].token <= issued
    /\ call[c].token # 0 <=> call[c].pc \in Holding
    /\ call[c].pc \in Holding => run.status # "missing" /\ run.identity = Identity[c]

\* The nodes before the current one are durable, as the session remembers them.
RemembersNodes(c) ==
    call[c].pc \in InNode =>
        /\ call[c].at \in Nodes
        /\ \A m \in Nodes : m < call[c].at =>
             Completed(m) /\ call[c].state[m] = ckpt[m].out

\* While the session owns the row, nobody else works on the nodes it has to do.
OwnsTheRest(c) ==
    call[c].pc \in InNode /\ run.owner = call[c].token =>
        /\ ~Completed(call[c].at)
        /\ ckpt[call[c].at].attempt < AttemptOf(c)
        /\ \A m \in Nodes : m > call[c].at => ckpt[m].attempt <= call[c].prior[m]

\* The output about to be committed is the session's own.
SavesItsOutput(c) ==
    call[c].pc \in {"check", "commit"} /\ call[c].saving = "completed" =>
        call[c].state[call[c].at] = call[c].token

\* The result about to be published consists of the durable outputs.
ClosesAll(c) ==
    call[c].pc \in {"closing", "finish"} =>
        \A n \in Nodes : Completed(n) /\ call[c].state[n] = ckpt[n].out

\* The answer about to be returned is the published one.
RepliesPublished(c) ==
    call[c].pc = "reply" =>
        /\ run.status = "completed" /\ run.identity = Identity[c]
        /\ call[c].state = run.result

Session(c) ==
    /\ HoldsToken(c)
    /\ RemembersNodes(c)
    /\ OwnsTheRest(c)
    /\ SavesItsOutput(c)
    /\ ClosesAll(c)
    /\ RepliesPublished(c)

Inv ==
    /\ TypeOK
    /\ RowInv
    /\ NodeInv
    /\ TokenInv
    /\ \A c \in Callers : Session(c)
    /\ AnswersAgree

\* The invariant holds initially.
LEMMA InitInv == Init => Inv
<1> SUFFICES ASSUME Init PROVE Inv
  OBVIOUS
<1>1. \A c \in Callers : call[c] = Frameless("idle")
  BY DEF Init
<1>2. Frameless("idle") \in CallType /\ Frameless("idle").pc = "idle"
  BY FramelessType DEF Ended
<1>3. Frameless("idle").token = 0
  BY DEF Frameless
<1>4. TypeOK
  BY <1>2 DEF Init, TypeOK, NoNodes, NodeType, RunType
<1>5. RowInv
  BY DEF Init, RowInv, ResultIsCommitted
<1>6. NodeInv
  BY DEF Init, NodeInv, ContinuousPrefix, Completed, NoNodes
<1>7. TokenInv
  BY <1>1, <1>3 DEF TokenInv
<1>8. ASSUME NEW c \in Callers PROVE Session(c)
  BY <1>1, <1>2, <1>3 DEF Init, Session, HoldsToken, RemembersNodes, OwnsTheRest,
     SavesItsOutput, ClosesAll, RepliesPublished, Holding, InNode
<1>9. AnswersAgree
  BY DEF Init, AnswersAgree
<1> QED
  BY <1>4, <1>5, <1>6, <1>7, <1>8, <1>9 DEF Inv

(***************************************************************************)
(* A step of one caller does not disturb the sessions of the others.       *)
(***************************************************************************)
\* Durable progress: nothing that a session may rely on is taken back.
Progress ==
    /\ issued <= issued'
    /\ run.status # "missing" => run'.status # "missing" /\ run'.identity = run.identity
    /\ run.status = "completed" => run'.status = "completed" /\ run'.result = run.result
    /\ \A n \in Nodes : Completed(n) => ckpt'[n] = ckpt[n]

\* Session survives every step that makes progress and leaves its frame alone, if
\* the nodes only change under a session that owns the row.
LEMMA SessionSurvives ==
  ASSUME TypeOK, TypeOK', Progress, NEW d \in Callers, Session(d), call'[d] = call[d],
         call[d].token # 0 /\ run'.owner = call[d].token =>
            run.owner = call[d].token /\ ckpt' = ckpt
  PROVE  Session(d)'
<1>0. call[d] \in CallType /\ call[d].token \in Nat /\ issued \in Nat /\ issued' \in Nat
  BY DEF TypeOK, CallType
<1>1. \A n \in Nodes : Completed(n) => Completed(n)' /\ ckpt'[n] = ckpt[n]
  BY DEF Progress, Completed
<1>2. HoldsToken(d)'
  BY <1>0 DEF Progress, Session, HoldsToken
<1>3. RemembersNodes(d)'
  BY <1>1 DEF Session, RemembersNodes
<1>4. OwnsTheRest(d)'
  <2> SUFFICES ASSUME call'[d].pc \in InNode, run'.owner = call'[d].token
               PROVE  /\ ~Completed(call[d].at)'
                      /\ ckpt'[call[d].at].attempt < AttemptOf(d)
                      /\ \A m \in Nodes :
                           m > call[d].at => ckpt'[m].attempt <= call[d].prior[m]
    BY DEF OwnsTheRest, AttemptOf
  <2>1. call[d].token # 0
    BY DEF Session, HoldsToken, Holding, InNode
  <2>2. run.owner = call[d].token /\ ckpt' = ckpt
    BY <2>1
  <2> QED
    BY <2>2 DEF Session, OwnsTheRest, Completed
<1>5. SavesItsOutput(d)'
  BY DEF Session, SavesItsOutput
<1>6. ClosesAll(d)'
  BY <1>1 DEF Session, ClosesAll
<1>7. RepliesPublished(d)'
  BY DEF Progress, Session, RepliesPublished
<1> QED
  BY <1>2, <1>3, <1>4, <1>5, <1>6, <1>7 DEF Session

\* Answers that were given stay right as long as the store makes progress.
LEMMA AnswersSurvive ==
  ASSUME AnswersAgree, Progress, answer' = answer
  PROVE  AnswersAgree'
  BY DEF AnswersAgree, Progress

\* A step in which caller c moves to frame f keeps the invariant, if its own session
\* is in order afterwards and the store makes progress that c was entitled to.
LEMMA FrameStep ==
  ASSUME Inv, NEW c \in Callers, NEW f \in CallType, Become(c, f),
         now' \in Nat, faults' \in Nat, issued' \in Nat, run' \in RunType,
         ckpt' \in [Nodes -> NodeType], answer' \in [Callers -> Results \cup {NoResult}],
         Progress, RowInv', NodeInv', AnswersAgree', Session(c)',
         f.token = 0 \/ f.token = call[c].token \/ f.token = issued + 1,
         \A d \in Callers : d # c /\ call[d].token # 0 /\ run'.owner = call[d].token =>
            run.owner = call[d].token /\ ckpt' = ckpt
  PROVE  Inv'
<1>1. /\ call' \in [Callers -> CallType]
      /\ call'[c] = f
      /\ \A d \in Callers : d # c => call'[d] = call[d]
  BY BecomeFrame DEF Inv, TypeOK
<1>2. TypeOK'
  BY <1>1 DEF TypeOK, Nodes, NodeType, RunType, CallType, Results
<1>3. ASSUME NEW d \in Callers PROVE Session(d)'
  <2>1. CASE d = c
    BY <2>1
  <2>2. CASE d # c
    BY <1>1, <1>2, <2>2, SessionSurvives DEF Inv
  <2> QED
    BY <2>1, <2>2
<1>4. TokenInv'
  <2>1. \A d \in Callers : call[d].token \in Nat /\ call[d].token <= issued
    BY DEF Inv, TypeOK, CallType, Session, HoldsToken
  <2>2. issued \in Nat
    BY DEF Inv, TypeOK
  <2>3. TokenInv
    BY DEF Inv
  <2> QED
    BY <1>1, <2>1, <2>2, <2>3 DEF TokenInv
<1> QED
  BY <1>2, <1>3, <1>4 DEF Inv

\* The same for a step that leaves the database alone.
LEMMA QuietStep ==
  ASSUME Inv, NEW c \in Callers, NEW f \in CallType, Become(c, f),
         now' \in Nat, faults' \in Nat, UNCHANGED store, answer' = answer,
         Session(c)', f.token = 0 \/ f.token = call[c].token
  PROVE  Inv'
<1>1. issued' = issued /\ run' = run /\ ckpt' = ckpt
  BY DEF store
<1>2. Progress
  BY <1>1 DEF Progress, Completed, Inv, TypeOK
<1>3. RowInv' /\ NodeInv'
  BY <1>1 DEF Inv, RowInv, NodeInv, ResultIsCommitted, ContinuousPrefix, Completed
<1>4. AnswersAgree'
  BY <1>2, AnswersSurvive DEF Inv
<1>5. /\ issued' \in Nat /\ run' \in RunType /\ ckpt' \in [Nodes -> NodeType]
      /\ answer' \in [Callers -> Results \cup {NoResult}]
  BY <1>1 DEF Inv, TypeOK
<1> QED
  BY <1>1, <1>2, <1>3, <1>4, <1>5, FrameStep

\* A call that has no token has a session in order, whatever happened to the store.
LEMMA EndedSession ==
  ASSUME NEW c \in Callers, call'[c].pc \in Ended \cup {"acquire"},
         call'[c].token = 0, issued' \in Nat
  PROVE  Session(c)'
  BY DEF Session, HoldsToken, RemembersNodes, OwnsTheRest, SavesItsOutput, ClosesAll,
     RepliesPublished, Ended, Holding, InNode

\* A call that ends, and leaves the database alone, keeps the invariant.
LEMMA EndKeepsInv ==
  ASSUME Inv, NEW c \in Callers, NEW label \in Ended, End(c, label),
         now' \in Nat, faults' \in Nat, UNCHANGED store, answer' = answer
  PROVE  Inv'
<1>1. /\ Frameless(label) \in CallType /\ Frameless(label).pc = label
      /\ Frameless(label).token = 0
  BY FramelessType DEF Frameless
<1>2. call'[c] = Frameless(label)
  BY <1>1, BecomeFrame DEF End, Inv, TypeOK
<1>3. Session(c)'
  BY <1>1, <1>2, EndedSession DEF store, Inv, TypeOK
<1> QED
  BY <1>1, <1>3, QuietStep DEF End

\* A session that gives up its run: nothing but its token and the row matters.
LEMMA FailingSession ==
  ASSUME NEW c \in Callers, HoldsToken(c), call[c].pc \in Holding,
         call'[c].pc = "fail", call'[c].token = call[c].token, UNCHANGED store
  PROVE  Session(c)'
  BY DEF Session, HoldsToken, RemembersNodes, OwnsTheRest, SavesItsOutput, ClosesAll,
     RepliesPublished, Holding, InNode, store

(***************************************************************************)
(* Each action keeps the invariant.                                        *)
(***************************************************************************)
LEMMA CallInv == ASSUME Inv, NEW c \in Callers, Call(c) PROVE Inv'
<1> DEFINE f == [call[c] EXCEPT !.pc = "acquire", !.seen = now]
<1>1. call[c] \in CallType /\ now \in Nat /\ faults \in Nat /\ issued \in Nat
  BY DEF Inv, TypeOK
<1>2. f \in CallType /\ f.pc = "acquire" /\ f.token = call[c].token
  BY <1>1, CalledFrame
<1>3. Become(c, f) /\ UNCHANGED <<now, faults, store, answer>>
  BY DEF Call
<1>4. call[c].token = 0
  BY DEF Call, Inv, Session, HoldsToken, Holding
<1> HIDE DEF f
<1>5. call'[c] = f
  BY <1>2, <1>3, BecomeFrame DEF Inv, TypeOK
<1>6. Session(c)'
  BY <1>1, <1>2, <1>3, <1>4, <1>5, EndedSession DEF store
<1> QED
  BY <1>1, <1>2, <1>3, <1>4, <1>6, QuietStep

LEMMA TakeLeaseInv ==
  ASSUME Inv, NEW c \in Callers, call[c].pc = "acquire", run.status # "completed",
         NEW row \in RunType, row.identity = Identity[c], row.result = run.result,
         run.status # "missing" => row.identity = run.identity, TakeLease(c, row)
  PROVE  Inv'
<1> DEFINE f == [call[c] EXCEPT !.pc = "load", !.token = issued + 1, !.used = row.spent]
<1>1. /\ call[c] \in CallType /\ now \in Nat /\ faults \in Nat /\ issued \in Nat
      /\ ckpt \in [Nodes -> NodeType] /\ answer \in [Callers -> Results \cup {NoResult}]
  BY DEF Inv, TypeOK
<1>2. call[c].seen \in Nat /\ row.spent \in Nat
  BY <1>1 DEF CallType, RunType
<1>3. f \in CallType /\ f.pc = "load" /\ f.token = issued + 1
  <2>1. issued + 1 \in Nat
    BY <1>1
  <2> QED
    BY <1>1, <1>2, <2>1 DEF CallType, Active
<1>4. Become(c, f) /\ issued' = issued + 1 /\ UNCHANGED <<now, faults, ckpt, answer>>
  BY DEF TakeLease
<1>5. /\ run' \in RunType /\ run'.status = "running" /\ run'.owner = issued + 1
      /\ run'.identity = row.identity /\ run'.result = row.result
  <2> DEFINE e == call[c].seen + LeaseSeconds
             t == issued + 1
  <2>1. e \in Nat /\ t \in Nat
    BY <1>1, <1>2, ConstantsAssumption
  <2>2. run' = [row EXCEPT !.status = "running", !.owner = t, !.expires = e]
    BY DEF TakeLease, Lease
  <2> HIDE DEF e, t
  <2>3. /\ run' \in RunType /\ run'.status = "running" /\ run'.owner = t
        /\ run'.identity = row.identity /\ run'.result = row.result
    BY <2>1, <2>2 DEF RunType
  <2> QED
    BY <2>3 DEF t
<1> HIDE DEF f
<1>6. call'[c] = f
  BY <1>3, <1>4, BecomeFrame DEF Inv, TypeOK
<1>7. Progress
  BY <1>1, <1>4, <1>5 DEF Progress
<1>8. RowInv' /\ NodeInv'
  BY <1>1, <1>4, <1>5 DEF Inv, RowInv, NodeInv, ResultIsCommitted, ContinuousPrefix, Completed
<1>9. AnswersAgree'
  BY <1>4, <1>7, AnswersSurvive DEF Inv
<1>10. Session(c)'
  BY <1>1, <1>3, <1>4, <1>5, <1>6 DEF Session, HoldsToken, RemembersNodes, OwnsTheRest,
     SavesItsOutput, ClosesAll, RepliesPublished, Holding, InNode
<1>11. ASSUME NEW d \in Callers PROVE run'.owner # call[d].token
  <2>1. call[d].token \in Nat /\ call[d].token <= issued
    BY DEF Inv, TypeOK, CallType, Session, HoldsToken
  <2> QED
    BY <1>1, <1>5, <2>1
<1>12. now' \in Nat /\ faults' \in Nat /\ issued' \in Nat
  BY <1>1, <1>4
<1> QED
  BY <1>1, <1>3, <1>4, <1>5, <1>7, <1>8, <1>9, <1>10, <1>11, <1>12, FrameStep

LEMMA AcquireInv == ASSUME Inv, NEW c \in Callers, Acquire(c) PROVE Inv'
<1>1. /\ call[c] \in CallType /\ now \in Nat /\ faults \in Nat /\ issued \in Nat
      /\ run \in RunType
  BY DEF Inv, TypeOK
<1>2. CASE AcquireNew(c)
  <2> DEFINE row == [run EXCEPT !.identity = Identity[c]]
  <2>1. row \in RunType /\ row.identity = Identity[c] /\ row.result = run.result
    BY <1>1 DEF RunType
  <2>2. call[c].pc = "acquire" /\ run.status = "missing" /\ TakeLease(c, row)
    BY <1>2 DEF AcquireNew
  <2> HIDE DEF row
  <2> QED
    BY <2>1, <2>2, TakeLeaseInv
<1>3. CASE AcquireTakeover(c)
  BY <1>1, <1>3, TakeLeaseInv DEF AcquireTakeover
<1>4. CASE AcquireBusy(c) \/ AcquireRefused(c)
  BY <1>1, <1>4, EndKeepsInv DEF AcquireBusy, AcquireRefused, Ended
<1>5. CASE AcquireCached(c)
  <2> DEFINE f == [call[c] EXCEPT !.pc = "reply", !.state = run.result]
  <2>1. run.result \in Results
    <3>1. run.result = [n \in Nodes |-> ckpt[n].out]
      BY <1>5 DEF AcquireCached, Inv, RowInv, ResultIsCommitted
    <3> QED
      BY <3>1 DEF Inv, TypeOK, NodeType, Results
  <2>2. f \in CallType /\ f.pc = "reply" /\ f.state = run.result /\ f.token = call[c].token
    BY <1>1, <2>1, CachedFrame
  <2>3. /\ Become(c, f) /\ UNCHANGED <<now, faults, store, answer>>
        /\ run.status = "completed" /\ run.identity = Identity[c]
    BY <1>5 DEF AcquireCached
  <2>4. call[c].token = 0
    BY <1>5 DEF AcquireCached, Inv, Session, HoldsToken, Holding
  <2> HIDE DEF f
  <2>5. call'[c] = f
    BY <2>2, <2>3, BecomeFrame DEF Inv, TypeOK
  <2>6. Session(c)'
    BY <1>1, <2>2, <2>3, <2>4, <2>5 DEF Session, HoldsToken, RemembersNodes, OwnsTheRest,
       SavesItsOutput, ClosesAll, RepliesPublished, Holding, InNode, store
  <2> QED
    BY <1>1, <2>2, <2>3, <2>6, QuietStep
<1> QED
  BY <1>2, <1>3, <1>4, <1>5 DEF Acquire

\* The types of a caller's frame and of the database.
LEMMA Typing ==
  ASSUME Inv, NEW c \in Callers
  PROVE  /\ now \in Nat /\ faults \in Nat /\ issued \in Nat
         /\ run \in RunType /\ ckpt \in [Nodes -> NodeType]
         /\ answer \in [Callers -> Results \cup {NoResult}]
         /\ call[c] \in CallType
         /\ call[c].token \in Nat /\ call[c].used \in Nat
         /\ call[c].at \in 1 .. NumNodes + 1 /\ call[c].tries \in Nat \ {0}
         /\ call[c].state \in Results /\ call[c].prior \in Results
<1>1. call[c] \in CallType
  BY DEF Inv, TypeOK
<1> QED
  BY <1>1 DEF Inv, TypeOK, CallType

\* A session that gives up keeps the invariant.
LEMMA GiveUpInv ==
  ASSUME Inv, NEW c \in Callers, NEW f \in CallType, Become(c, f), f.pc = "fail",
         f.token = call[c].token, call[c].pc \in Holding,
         now' \in Nat, faults' \in Nat, UNCHANGED <<store, answer>>
  PROVE  Inv'
<1>1. call'[c] = f
  BY BecomeFrame DEF Inv, TypeOK
<1>2. UNCHANGED store /\ answer' = answer
  OBVIOUS
<1>3. HoldsToken(c)
  BY DEF Inv, Session
<1>4. Session(c)'
  BY <1>1, <1>2, <1>3, FailingSession
<1> QED
  BY <1>2, <1>4, QuietStep

\* The same for a step that only moves the program counter to "fail".
LEMMA GotoFailInv ==
  ASSUME Inv, NEW c \in Callers, Goto(c, "fail"), call[c].pc \in Holding,
         now' \in Nat, faults' \in Nat, UNCHANGED <<store, answer>>
  PROVE  Inv'
<1> DEFINE f == [call[c] EXCEPT !.pc = "fail"]
<1>1. call[c] \in CallType
  BY Typing
<1>2. f \in CallType /\ f.pc = "fail" /\ f.token = call[c].token
  BY <1>1 DEF CallType, Active
<1>3. Become(c, f)
  BY DEF Goto
<1> HIDE DEF f
<1> QED
  BY <1>2, <1>3, GiveUpInv

LEMMA LoadInv == ASSUME Inv, NEW c \in Callers, Load(c) PROVE Inv'
<1>1. /\ now \in Nat /\ faults \in Nat /\ call[c] \in CallType
      /\ ckpt \in [Nodes -> NodeType] /\ call[c].tries \in Nat \ {0}
  BY Typing
<1>2. ContinuousPrefix
  BY DEF Inv, NodeInv
<1> DEFINE pri == [m \in Nodes |-> ckpt[m].attempt]
           st  == [m \in Nodes |-> IF Completed(m) THEN ckpt[m].out ELSE 0]
           f(n) == [call[c] EXCEPT !.pc = NextStop(n), !.at = n, !.prior = pri, !.state = st]
<1>3. PICK n \in 1 .. NumNodes + 1 : FirstOpen(n) /\ Become(c, f(n))
  BY <1>2 DEF Load
<1>4. call[c].pc = "load" /\ UNCHANGED <<now, faults, store, answer>>
  BY DEF Load
<1>5. pri \in Results /\ st \in Results
  BY <1>1 DEF Results, NodeType
<1>6. \A m \in Nodes : pri[m] = ckpt[m].attempt /\ (Completed(m) => st[m] = ckpt[m].out)
  OBVIOUS
<1> HIDE DEF pri, st
<1>7. /\ f(n) \in CallType /\ f(n).pc = NextStop(n) /\ f(n).at = n /\ f(n).prior = pri
      /\ f(n).state = st /\ f(n).token = call[c].token /\ f(n).tries = call[c].tries
  BY <1>1, <1>5 DEF CallType, Active, NextStop
<1> HIDE DEF f
<1>8. call'[c] = f(n) /\ UNCHANGED store
  BY <1>3, <1>4, <1>7, BecomeFrame DEF Inv, TypeOK
<1>9. run' = run /\ ckpt' = ckpt /\ issued' = issued
  BY <1>8 DEF store
<1>10. n <= NumNodes => n \in Nodes /\ NextStop(n) = "run"
  BY ConstantsAssumption DEF Nodes, NextStop
<1>11. n > NumNodes => NextStop(n) = "closing" /\ \A m \in Nodes : m \in 1 .. n - 1
  BY ConstantsAssumption DEF Nodes, NextStop
<1>12. n \in Nat /\ NumNodes \in Nat
  BY ConstantsAssumption
<1>13. HoldsToken(c)'
  BY <1>4, <1>7, <1>8, <1>9, <1>10, <1>11, <1>12 DEF Inv, Session, HoldsToken, Holding
<1>14. RemembersNodes(c)'
  BY <1>3, <1>6, <1>7, <1>8, <1>9, <1>10, <1>11, <1>12
     DEF RemembersNodes, FirstOpen, InNode, Nodes, Completed
<1>15. OwnsTheRest(c)'
  <2>1. n \in Nodes => ckpt[n].attempt \in Nat
    BY <1>1 DEF NodeType
  <2>2. \A m \in Nodes : ckpt[m].attempt \in Nat
    BY <1>1 DEF NodeType
  <2>3. AttemptOf(c)' = pri[n] + call[c].tries
    BY <1>7, <1>8 DEF AttemptOf
  <2>4. n \in Nodes => ckpt[n].attempt < pri[n] + call[c].tries
    BY <1>1, <1>6, <2>1
  <2> QED
    BY <1>3, <1>6, <1>7, <1>8, <1>9, <1>10, <1>11, <1>12, <2>2, <2>3, <2>4
       DEF OwnsTheRest, FirstOpen, InNode, Completed
<1>16. SavesItsOutput(c)' /\ RepliesPublished(c)'
  BY <1>7, <1>8, <1>10, <1>11, <1>12 DEF SavesItsOutput, RepliesPublished
<1>17. ClosesAll(c)'
  BY <1>3, <1>6, <1>7, <1>8, <1>9, <1>10, <1>11, <1>12 DEF ClosesAll, FirstOpen, Completed
<1> QED
  BY <1>1, <1>3, <1>4, <1>7, <1>13, <1>14, <1>15, <1>16, <1>17, QuietStep DEF Session

LEMMA HandlerInv == ASSUME Inv, NEW c \in Callers, Handler(c) PROVE Inv'
<1>1. /\ now \in Nat /\ faults \in Nat /\ call[c] \in CallType
      /\ call[c].used \in Nat /\ call[c].token \in Nat /\ call[c].state \in Results
  BY Typing
<1>2. Session(c)
  BY DEF Inv
<1>3. CASE HandlerReturns(c)
  <2> DEFINE st == [call[c].state EXCEPT ![call[c].at] = call[c].token]
             u  == call[c].used + 1
             f  == [call[c] EXCEPT !.pc = "check", !.saving = "completed", !.used = u,
                                   !.state = st]
  <2>1. st \in Results /\ u \in Nat
    <3>1. ASSUME NEW old \in Results, NEW n, NEW t \in Nat
          PROVE  [old EXCEPT ![n] = t] \in Results
      BY DEF Results
    <3>2. u \in Nat
      BY <1>1
    <3> QED
      BY <1>1, <3>1, <3>2
  <2>2. \A m \in Nodes : st[m] = IF m = call[c].at THEN call[c].token ELSE call[c].state[m]
    BY <1>1 DEF Results
  <2>3. call[c].pc = "run" /\ Become(c, f) /\ UNCHANGED <<now, faults, store, answer>>
    BY <1>3 DEF HandlerReturns
  <2> HIDE DEF st, u
  <2>4. /\ f \in CallType /\ f.pc = "check" /\ f.saving = "completed"
        /\ f.state = st /\ f.at = call[c].at /\ f.token = call[c].token
        /\ f.prior = call[c].prior /\ f.tries = call[c].tries
    BY <1>1, <2>1 DEF CallType, Active
  <2> HIDE DEF f
  <2>5. call'[c] = f
    BY <2>3, <2>4, BecomeFrame DEF Inv, TypeOK
  <2>6. run' = run /\ ckpt' = ckpt /\ issued' = issued
    BY <2>3 DEF store
  <2>7. call[c].at \in Nodes
    BY <1>2, <2>3 DEF Session, RemembersNodes, InNode
  <2>8. HoldsToken(c)' /\ OwnsTheRest(c)' /\ ClosesAll(c)' /\ RepliesPublished(c)'
    BY <1>2, <2>3, <2>4, <2>5, <2>6 DEF Session, HoldsToken, OwnsTheRest, ClosesAll,
       RepliesPublished, Holding, InNode, AttemptOf, Completed
  <2>9. RemembersNodes(c)' /\ SavesItsOutput(c)'
    <3>1. \A m \in Nodes : m < call[c].at => m # call[c].at
      BY DEF Nodes
    <3>2. RemembersNodes(c)
      BY <1>2 DEF Session
    <3>3. RemembersNodes(c)'
      BY <2>2, <2>3, <2>4, <2>5, <2>6, <2>7, <3>1, <3>2 DEF RemembersNodes, InNode, Completed
    <3>4. SavesItsOutput(c)'
      BY <2>2, <2>4, <2>5, <2>7 DEF SavesItsOutput
    <3> QED
      BY <3>3, <3>4
  <2> QED
    BY <1>1, <2>3, <2>4, <2>8, <2>9, QuietStep DEF Session
<1>4. CASE HandlerRaises(c)
  <2> DEFINE u == call[c].used + 1
             f == [call[c] EXCEPT !.pc = "check", !.saving = "failed", !.used = u]
  <2>1. u \in Nat /\ faults' \in Nat
    BY <1>1, <1>4 DEF HandlerRaises, Fault
  <2>2. call[c].pc = "run" /\ Become(c, f) /\ UNCHANGED <<now, store, answer>>
    BY <1>4 DEF HandlerRaises
  <2> HIDE DEF u
  <2>3. /\ f \in CallType /\ f.pc = "check" /\ f.saving = "failed"
        /\ f.state = call[c].state /\ f.at = call[c].at /\ f.token = call[c].token
        /\ f.prior = call[c].prior /\ f.tries = call[c].tries
    BY <1>1, <2>1 DEF CallType, Active
  <2> HIDE DEF f
  <2>4. call'[c] = f
    BY <2>2, <2>3, BecomeFrame DEF Inv, TypeOK
  <2>5. run' = run /\ ckpt' = ckpt /\ issued' = issued
    BY <2>2 DEF store
  <2>6. Session(c)'
    BY <1>2, <2>2, <2>3, <2>4, <2>5 DEF Session, HoldsToken, RemembersNodes, OwnsTheRest,
       SavesItsOutput, ClosesAll, RepliesPublished, Holding, InNode, AttemptOf, Completed
  <2> QED
    BY <1>1, <2>1, <2>2, <2>3, <2>6, QuietStep
<1>5. CASE HandlerAborts(c)
  <2>1. PICK ran \in {0, 1} : Become(c, [call[c] EXCEPT !.pc = "fail", !.used = call[c].used + ran])
    BY <1>5 DEF HandlerAborts
  <2> DEFINE u == call[c].used + ran
             f == [call[c] EXCEPT !.pc = "fail", !.used = u]
  <2>2. u \in Nat /\ faults' \in Nat
    BY <1>1, <1>5 DEF HandlerAborts, Fault
  <2>3. call[c].pc = "run" /\ Become(c, f) /\ UNCHANGED <<now, store, answer>>
    BY <1>5, <2>1 DEF HandlerAborts
  <2> HIDE DEF u
  <2>4. f \in CallType /\ f.pc = "fail" /\ f.token = call[c].token
    BY <1>1, <2>2 DEF CallType, Active
  <2> HIDE DEF f
  <2> QED
    BY <1>1, <2>2, <2>3, <2>4, GiveUpInv DEF Holding
<1> QED
  BY <1>3, <1>4, <1>5 DEF Handler

LEMMA CheckPreviousInv == ASSUME Inv, NEW c \in Callers, CheckPrevious(c) PROVE Inv'
<1>1. now \in Nat /\ faults \in Nat /\ call[c] \in CallType
  BY Typing
<1>2. Session(c) /\ call[c].pc = "check" /\ UNCHANGED <<now, faults, store, answer>>
  BY DEF Inv, CheckPrevious
<1>3. \A m \in 1 .. call[c].at - 1 : Completed(m)
  BY <1>2, ConstantsAssumption DEF Session, RemembersNodes, InNode, Nodes
<1> DEFINE f == [call[c] EXCEPT !.pc = "commit"]
<1>4. Become(c, f)
  BY <1>3 DEF CheckPrevious, Goto
<1>5. /\ f \in CallType /\ f.pc = "commit" /\ f.saving = call[c].saving
      /\ f.state = call[c].state /\ f.at = call[c].at /\ f.token = call[c].token
      /\ f.prior = call[c].prior /\ f.tries = call[c].tries
  BY <1>1 DEF CallType, Active
<1> HIDE DEF f
<1>6. call'[c] = f
  BY <1>4, <1>5, BecomeFrame DEF Inv, TypeOK
<1>7. run' = run /\ ckpt' = ckpt /\ issued' = issued
  BY <1>2 DEF store
<1>8. Session(c)'
  BY <1>2, <1>5, <1>6, <1>7 DEF Session, HoldsToken, RemembersNodes, OwnsTheRest,
     SavesItsOutput, ClosesAll, RepliesPublished, Holding, InNode, AttemptOf, Completed
<1> QED
  BY <1>1, <1>2, <1>4, <1>5, <1>8, QuietStep

\* A session that commits its node has not been overtaken: the node is still open,
\* and the row written is the session's own.
LEMMA UpsertWrites ==
  ASSUME Inv, NEW c \in Callers, call[c].pc = "commit", Owns(c), Upsert(c)
  PROVE  /\ call[c].at \in Nodes /\ ~Completed(call[c].at)
         /\ ckpt[call[c].at].attempt < AttemptOf(c) /\ AttemptOf(c) \in Nat
         /\ ckpt' \in [Nodes -> NodeType]
         /\ \A n \in Nodes : n # call[c].at => ckpt'[n] = ckpt[n]
         /\ ckpt'[call[c].at].status = call[c].saving
         /\ ckpt'[call[c].at].attempt = AttemptOf(c)
         /\ ckpt'[call[c].at].out = (IF call[c].saving = "completed"
                                     THEN call[c].token ELSE 0)
         /\ run' \in RunType
         /\ run'.status = "running" /\ run.status = "running" /\ run'.owner = run.owner
         /\ run'.identity = run.identity /\ run'.result = run.result
<1>1. /\ now \in Nat /\ run \in RunType /\ ckpt \in [Nodes -> NodeType]
      /\ call[c] \in CallType /\ call[c].used \in Nat /\ call[c].token \in Nat
      /\ call[c].tries \in Nat \ {0} /\ call[c].prior \in Results
  BY Typing
<1>2. call[c].saving \in {"failed", "completed"}
  BY <1>1 DEF CallType
<1>3. run.owner = call[c].token /\ call[c].token # 0
  BY DEF Owns
<1>4. call[c].at \in Nodes /\ ~Completed(call[c].at)
  BY <1>3 DEF Inv, Session, RemembersNodes, OwnsTheRest, InNode
<1>5. ckpt[call[c].at].attempt < AttemptOf(c)
  BY <1>3 DEF Inv, Session, OwnsTheRest, InNode
<1>6. AttemptOf(c) \in Nat
  <2>1. call[c].prior[call[c].at] \in Nat
    BY <1>1, <1>4 DEF Results
  <2> QED
    BY <1>1, <2>1 DEF AttemptOf
<1> DEFINE out == IF call[c].saving = "completed" THEN call[c].token ELSE 0
           row == [status |-> call[c].saving, attempt |-> AttemptOf(c), out |-> out]
<1>7. /\ row \in NodeType /\ row.status = call[c].saving
      /\ row.attempt = AttemptOf(c) /\ row.out = out
  BY <1>1, <1>2, <1>6 DEF NodeType
<1>8. ckpt' = [ckpt EXCEPT ![call[c].at] = row]
  BY <1>4 DEF Upsert
<1> HIDE DEF row
<1>9. /\ ckpt' \in [Nodes -> NodeType] /\ ckpt'[call[c].at] = row
      /\ \A n \in Nodes : n # call[c].at => ckpt'[n] = ckpt[n]
  BY <1>1, <1>4, <1>7, <1>8
<1> DEFINE e == now + LeaseSeconds
           u == call[c].used
<1>10. e \in Nat /\ u \in Nat
  BY <1>1, ConstantsAssumption
<1>11. run' = [run EXCEPT !.expires = e, !.spent = u]
  BY DEF Upsert
<1> HIDE DEF e, u
<1>12. /\ run' \in RunType /\ run'.status = run.status /\ run'.owner = run.owner
       /\ run'.identity = run.identity /\ run'.result = run.result
  BY <1>1, <1>10, <1>11 DEF RunType
<1>13. run.status = "running"
  BY <1>3 DEF Inv, RowInv
<1> QED
  BY <1>4, <1>5, <1>6, <1>7, <1>9, <1>12, <1>13

\* What the row and the nodes satisfy after a commit.
LEMMA UpsertKeepsTheStore ==
  ASSUME Inv, NEW c \in Callers, call[c].pc = "commit", Owns(c), Upsert(c),
         UNCHANGED <<issued, answer>>
  PROVE  /\ Progress /\ RowInv' /\ NodeInv' /\ AnswersAgree'
         /\ \A d \in Callers : d # c /\ call[d].token # 0 => run'.owner # call[d].token
<1>1. /\ issued \in Nat /\ ckpt \in [Nodes -> NodeType] /\ call[c].token \in Nat
      /\ call[c].at \in Nodes
  BY Typing, UpsertWrites
<1>2. call[c].saving \in {"failed", "completed"} /\ call[c].token # 0
  BY Typing DEF CallType, Owns
<1>3. Progress
  BY <1>1, UpsertWrites DEF Progress, Completed
<1>4. RowInv'
  BY <1>1, UpsertWrites DEF Inv, RowInv, ResultIsCommitted
<1>5. NodeInv'
  <2>1. \A m \in Nodes : m < call[c].at => Completed(m)
    BY DEF Inv, Session, RemembersNodes, InNode
  <2>2. \A n \in Nodes : n # call[c].at => ckpt'[n] = ckpt[n]
    BY UpsertWrites
  <2>3. \A n \in Nodes : Completed(n)' <=> ckpt'[n].out # 0
    <3>1. ckpt'[call[c].at].status = "completed" <=> ckpt'[call[c].at].out # 0
      BY <1>1, <1>2, UpsertWrites
    <3> QED
      BY <2>2, <3>1 DEF Inv, NodeInv, Completed
  <2>4. ContinuousPrefix'
    <3> SUFFICES ASSUME NEW n \in Nodes, Completed(n)', NEW m \in 1 .. n - 1
                 PROVE  Completed(m)'
      BY DEF ContinuousPrefix
    <3>1. m \in Nodes /\ m < n
      BY ConstantsAssumption DEF Nodes
    <3>2. Completed(m)
      <4>1. CASE n = call[c].at
        BY <2>1, <3>1, <4>1
      <4>2. CASE n # call[c].at
        BY <2>2, <4>2 DEF Inv, NodeInv, ContinuousPrefix, Completed
      <4> QED
        BY <4>1, <4>2
    <3> QED
      BY <2>2, <3>1, <3>2, UpsertWrites DEF Completed
  <2> QED
    BY <2>3, <2>4 DEF NodeInv
<1>6. AnswersAgree'
  BY <1>3, AnswersSurvive DEF Inv
<1>7. ASSUME NEW d \in Callers, d # c, call[d].token # 0 PROVE run'.owner # call[d].token
  BY <1>2, <1>7, UpsertWrites DEF Inv, TokenInv, Owns
<1> QED
  BY <1>3, <1>4, <1>5, <1>6, <1>7

LEMMA CommitCompletedInv == ASSUME Inv, NEW c \in Callers, CommitCompleted(c) PROVE Inv'
<1>1. /\ now \in Nat /\ faults \in Nat /\ issued \in Nat /\ call[c] \in CallType
      /\ ckpt \in [Nodes -> NodeType] /\ call[c].prior \in Results
      /\ answer \in [Callers -> Results \cup {NoResult}]
  BY Typing
<1> DEFINE next == call[c].at + 1
           f == [call[c] EXCEPT !.pc = NextStop(next), !.at = next, !.tries = 1]
<1>2. /\ call[c].pc = "commit" /\ call[c].saving = "completed" /\ Owns(c) /\ Upsert(c)
      /\ Become(c, f) /\ UNCHANGED <<now, faults, issued, answer>>
  BY DEF CommitCompleted
<1>3. /\ call[c].at \in Nodes /\ ~Completed(call[c].at)
      /\ \A n \in Nodes : n # call[c].at => ckpt'[n] = ckpt[n]
      /\ ckpt'[call[c].at].status = "completed" /\ ckpt'[call[c].at].out = call[c].token
      /\ run'.status = "running" /\ run'.identity = run.identity /\ run'.owner = run.owner
  BY <1>2, UpsertWrites
<1>4. next \in 1 .. NumNodes + 1 /\ (next <= NumNodes => next \in Nodes)
  BY <1>3, ConstantsAssumption DEF Nodes
<1>5. NextStop(next) \in {"run", "closing"} /\ (NextStop(next) = "run" <=> next <= NumNodes)
  BY <1>4, ConstantsAssumption DEF NextStop
<1>6. \A m \in Nodes : m < next <=> m < call[c].at \/ m = call[c].at
  BY <1>3 DEF Nodes
<1>7. NumNodes \in Nat /\ \A m \in Nodes : m <= NumNodes
  BY ConstantsAssumption DEF Nodes
<1>8. /\ f \in CallType /\ f.pc = NextStop(next) /\ f.at = next /\ f.tries = 1
      /\ f.state = call[c].state /\ f.token = call[c].token /\ f.prior = call[c].prior
  <2>1. NextStop(next) \in Ended \cup Active /\ 1 \in Nat \ {0}
    BY <1>5 DEF Active
  <2> HIDE DEF next
  <2> QED
    BY <1>1, <1>4, <2>1 DEF CallType
<1> HIDE DEF f
<1>9. call'[c] = f
  BY <1>2, <1>8, BecomeFrame DEF Inv, TypeOK
<1>10. Session(c)
  BY DEF Inv
<1>11. \A m \in Nodes : m < next => Completed(m)' /\ call[c].state[m] = ckpt'[m].out
  BY <1>2, <1>3, <1>6, <1>10 DEF Session, RemembersNodes, SavesItsOutput, InNode, Completed
<1>12. HoldsToken(c)'
  BY <1>2, <1>3, <1>5, <1>8, <1>9, <1>10 DEF Session, HoldsToken, Holding
<1>13. RemembersNodes(c)'
  BY <1>4, <1>5, <1>8, <1>9, <1>11 DEF RemembersNodes, InNode
<1>14. OwnsTheRest(c)'
  <2> SUFFICES ASSUME next <= NumNodes
               PROVE  /\ ckpt'[next].status # "completed"
                      /\ ckpt'[next].attempt < AttemptOf(c)'
                      /\ \A m \in Nodes :
                           m > next => ckpt'[m].attempt <= call'[c].prior[m]
    BY <1>5, <1>8, <1>9 DEF OwnsTheRest, InNode, Completed
  <2>1. next \in Nodes /\ next # call[c].at /\ call[c].at \in 1 .. next - 1
    BY <1>3, <1>4 DEF Nodes
  <2>2. ~Completed(next)
    BY <1>3, <2>1 DEF Inv, NodeInv, ContinuousPrefix
  <2>3. \A m \in Nodes : m > call[c].at => ckpt[m].attempt <= call[c].prior[m]
    BY <1>2, <1>10 DEF Session, OwnsTheRest, InNode, Owns
  <2>4. AttemptOf(c)' = call[c].prior[next] + 1
    BY <1>8, <1>9 DEF AttemptOf
  <2>5. call[c].prior[next] \in Nat /\ ckpt[next].attempt \in Nat /\ next > call[c].at
    <3>1. next > call[c].at
      BY <1>3 DEF Nodes
    <3> HIDE DEF next
    <3>2. ckpt[next].attempt \in Nat
      BY <1>1, <2>1 DEF NodeType
    <3>3. call[c].prior[next] \in Nat
      BY <1>1, <2>1 DEF Results
    <3> QED
      BY <3>1, <3>2, <3>3
  <2>6. ckpt[next].attempt <= call[c].prior[next]
    BY <2>1, <2>3, <2>5
  <2>7. \A m \in Nodes : m > next => m > call[c].at /\ m # call[c].at
    BY <1>3 DEF Nodes
  <2> HIDE DEF next
  <2>8. ckpt'[next].attempt < AttemptOf(c)'
    BY <1>3, <2>1, <2>4, <2>5, <2>6
  <2> QED
    BY <1>3, <1>8, <1>9, <2>1, <2>2, <2>3, <2>7, <2>8 DEF Completed
<1>15. SavesItsOutput(c)' /\ RepliesPublished(c)'
  BY <1>5, <1>8, <1>9 DEF SavesItsOutput, RepliesPublished
<1>16. ClosesAll(c)'
  <2>1. next > NumNodes => \A m \in Nodes : m < next
    BY <1>3, <1>7 DEF Nodes
  <2> QED
    BY <1>3, <1>5, <1>7, <1>8, <1>9, <1>11, <2>1 DEF ClosesAll, Nodes
<1>17. Session(c)'
  BY <1>12, <1>13, <1>14, <1>15, <1>16 DEF Session
<1>18. /\ Progress /\ RowInv' /\ NodeInv' /\ AnswersAgree'
       /\ \A d \in Callers : d # c /\ call[d].token # 0 => run'.owner # call[d].token
       /\ run' \in RunType /\ ckpt' \in [Nodes -> NodeType]
  BY <1>2, UpsertKeepsTheStore, UpsertWrites
<1> QED
  BY <1>1, <1>2, <1>8, <1>17, <1>18, FrameStep

LEMMA CommitFailedInv == ASSUME Inv, NEW c \in Callers, CommitFailed(c) PROVE Inv'
<1>1. /\ now \in Nat /\ faults \in Nat /\ issued \in Nat /\ call[c] \in CallType
      /\ ckpt \in [Nodes -> NodeType] /\ call[c].prior \in Results
      /\ call[c].tries \in Nat \ {0} /\ answer \in [Callers -> Results \cup {NoResult}]
  BY Typing
<1>2. /\ call[c].pc = "commit" /\ call[c].saving = "failed" /\ Owns(c) /\ Upsert(c)
      /\ UNCHANGED <<now, faults, issued, answer>>
  BY DEF CommitFailed
<1>3. /\ call[c].at \in Nodes /\ ~Completed(call[c].at)
      /\ \A n \in Nodes : n # call[c].at => ckpt'[n] = ckpt[n]
      /\ ckpt'[call[c].at].status = "failed"
      /\ ckpt'[call[c].at].attempt = AttemptOf(c) /\ AttemptOf(c) \in Nat
      /\ run'.status = "running" /\ run'.identity = run.identity /\ run'.owner = run.owner
  BY <1>2, UpsertWrites
<1>4. /\ Progress /\ RowInv' /\ NodeInv' /\ AnswersAgree'
      /\ \A d \in Callers : d # c /\ call[d].token # 0 => run'.owner # call[d].token
      /\ run' \in RunType /\ ckpt' \in [Nodes -> NodeType]
  BY <1>2, UpsertKeepsTheStore, UpsertWrites
<1>5. Session(c)
  BY DEF Inv
<1>6. CASE call[c].tries <= Retries
  <2> DEFINE t == call[c].tries + 1
             f == [call[c] EXCEPT !.pc = "run", !.tries = t]
  <2>1. t \in Nat \ {0}
    BY <1>1
  <2>2. Become(c, f)
    BY <1>6 DEF CommitFailed
  <2>3. AttemptOf(c) < call[c].prior[call[c].at] + t
    <3>1. call[c].prior[call[c].at] \in Nat
      BY <1>1, <1>3 DEF Results
    <3> QED
      BY <1>1, <3>1 DEF AttemptOf
  <2> HIDE DEF t
  <2>4. /\ f \in CallType /\ f.pc = "run" /\ f.tries = t /\ f.saving = call[c].saving
        /\ f.state = call[c].state /\ f.at = call[c].at /\ f.token = call[c].token
        /\ f.prior = call[c].prior
    BY <1>1, <2>1 DEF CallType, Active
  <2> HIDE DEF f
  <2>5. call'[c] = f
    BY <2>2, <2>4, BecomeFrame DEF Inv, TypeOK
  <2>6. AttemptOf(c)' = call[c].prior[call[c].at] + t
    BY <2>4, <2>5 DEF AttemptOf
  <2>7. HoldsToken(c)'
    BY <1>2, <1>3, <1>5, <2>4, <2>5 DEF Session, HoldsToken, Holding
  <2>8. \A m \in Nodes : m < call[c].at \/ m > call[c].at => m # call[c].at
    BY <1>3 DEF Nodes
  <2>9. RemembersNodes(c)'
    BY <1>2, <1>3, <1>5, <2>4, <2>5, <2>8 DEF Session, RemembersNodes, InNode, Completed
  <2>10. OwnsTheRest(c)'
    BY <1>2, <1>3, <1>5, <2>3, <2>4, <2>5, <2>6, <2>8
       DEF Session, OwnsTheRest, InNode, Completed
  <2>11. SavesItsOutput(c)' /\ ClosesAll(c)' /\ RepliesPublished(c)'
    BY <2>4, <2>5 DEF SavesItsOutput, ClosesAll, RepliesPublished
  <2>12. Session(c)'
    BY <2>7, <2>9, <2>10, <2>11 DEF Session
  <2> QED
    BY <1>1, <1>2, <1>4, <2>2, <2>4, <2>12, FrameStep
<1>7. CASE ~(call[c].tries <= Retries)
  <2> DEFINE f == [call[c] EXCEPT !.pc = "fail"]
  <2>1. Become(c, f)
    BY <1>7 DEF CommitFailed, Goto
  <2>2. f \in CallType /\ f.pc = "fail" /\ f.token = call[c].token
    BY <1>1 DEF CallType, Active
  <2> HIDE DEF f
  <2>3. call'[c] = f
    BY <2>1, <2>2, BecomeFrame DEF Inv, TypeOK
  <2>4. Session(c)'
    BY <1>2, <1>3, <1>5, <2>2, <2>3 DEF Session, HoldsToken, RemembersNodes, OwnsTheRest,
       SavesItsOutput, ClosesAll, RepliesPublished, Holding, InNode
  <2> QED
    BY <1>1, <1>2, <1>4, <2>1, <2>2, <2>4, FrameStep
<1> QED
  BY <1>6, <1>7

LEMMA CommitFencedInv == ASSUME Inv, NEW c \in Callers, CommitFenced(c) PROVE Inv'
<1>1. now \in Nat /\ faults' \in Nat /\ call[c] \in CallType
  BY Typing DEF CommitFenced, Fault
<1> DEFINE label == IF call[c].saving = "completed" THEN "check" ELSE "fail"
           f == [call[c] EXCEPT !.saving = "failed", !.pc = label]
<1>2. /\ call[c].pc = "commit" /\ Become(c, f) /\ UNCHANGED <<now, store, answer>>
  BY DEF CommitFenced
<1>3. label \in {"check", "fail"}
  OBVIOUS
<1> HIDE DEF label
<1>4. /\ f \in CallType /\ f.pc = label /\ f.saving = "failed" /\ f.tries = call[c].tries
      /\ f.state = call[c].state /\ f.at = call[c].at /\ f.token = call[c].token
      /\ f.prior = call[c].prior
  BY <1>1, <1>3 DEF CallType, Active
<1> HIDE DEF f
<1>5. call'[c] = f
  BY <1>2, <1>4, BecomeFrame DEF Inv, TypeOK
<1>6. run' = run /\ ckpt' = ckpt /\ issued' = issued
  BY <1>2 DEF store
<1>7. Session(c)
  BY DEF Inv
<1>8. Session(c)'
  BY <1>2, <1>3, <1>4, <1>5, <1>6, <1>7 DEF Session, HoldsToken, RemembersNodes,
     OwnsTheRest, SavesItsOutput, ClosesAll, RepliesPublished, Holding, InNode, AttemptOf,
     Completed
<1> QED
  BY <1>1, <1>2, <1>4, <1>8, QuietStep

LEMMA CommitInv == ASSUME Inv, NEW c \in Callers, Commit(c) PROVE Inv'
<1>1. CASE CommitRejected(c)
  <2>1. now' \in Nat /\ faults' \in Nat
    BY <1>1, Typing DEF CommitRejected, Fault
  <2> QED
    BY <1>1, <2>1, GotoFailInv DEF CommitRejected, Holding
<1> QED
  BY <1>1, CommitCompletedInv, CommitFailedInv, CommitFencedInv DEF Commit

LEMMA CheckCompleteInv == ASSUME Inv, NEW c \in Callers, CheckComplete(c) PROVE Inv'
<1>1. now \in Nat /\ faults \in Nat /\ call[c] \in CallType
  BY Typing
<1>2. Session(c) /\ call[c].pc = "closing" /\ UNCHANGED <<now, faults, store, answer>>
  BY DEF Inv, CheckComplete
<1>3. \A n \in Nodes : Completed(n)
  BY <1>2 DEF Session, ClosesAll
<1> DEFINE f == [call[c] EXCEPT !.pc = "finish"]
<1>4. Become(c, f)
  BY <1>3 DEF CheckComplete, Goto
<1>5. /\ f \in CallType /\ f.pc = "finish" /\ f.state = call[c].state
      /\ f.token = call[c].token
  BY <1>1 DEF CallType, Active
<1> HIDE DEF f
<1>6. call'[c] = f
  BY <1>4, <1>5, BecomeFrame DEF Inv, TypeOK
<1>7. run' = run /\ ckpt' = ckpt /\ issued' = issued
  BY <1>2 DEF store
<1>8. Session(c)'
  BY <1>2, <1>5, <1>6, <1>7 DEF Session, HoldsToken, RemembersNodes, OwnsTheRest,
     SavesItsOutput, ClosesAll, RepliesPublished, Holding, InNode, Completed
<1> QED
  BY <1>1, <1>2, <1>4, <1>5, <1>8, QuietStep

\* The row and the nodes after the owner gave its lease up.
LEMMA ReleaseKeepsTheStore ==
  ASSUME Inv, NEW c \in Callers, Owns(c),
         NEW st \in {"failed", "completed"}, NEW res \in Results \cup {NoResult},
         Release(c, st, res), answer' = answer,
         st = "failed" => res = NoResult,
         st = "completed" =>
            res = [n \in Nodes |-> ckpt[n].out] /\ \A n \in Nodes : Completed(n)
  PROVE  /\ Progress /\ RowInv' /\ NodeInv' /\ AnswersAgree'
         /\ issued' \in Nat /\ ckpt' \in [Nodes -> NodeType] /\ run' \in RunType
         /\ run'.owner = 0 /\ run'.status = st /\ run'.identity = run.identity
         /\ run'.result = res
<1>1. /\ issued \in Nat /\ run \in RunType /\ ckpt \in [Nodes -> NodeType]
      /\ call[c].used \in Nat
  BY Typing
<1>2. issued' = issued /\ ckpt' = ckpt
  BY DEF Release
<1>3. /\ run' \in RunType /\ run'.owner = 0 /\ run'.status = st
      /\ run'.identity = run.identity /\ run'.result = res
  <2> DEFINE u == call[c].used
  <2>1. run' = [run EXCEPT !.status = st, !.owner = 0, !.expires = 0, !.result = res,
                           !.spent = u]
    BY DEF Release
  <2>2. u \in Nat
    BY <1>1
  <2> HIDE DEF u
  <2> QED
    BY <1>1, <2>1, <2>2 DEF RunType
<1>4. run.status = "running"
  BY DEF Owns, Inv, RowInv
<1>5. Progress
  BY <1>1, <1>2, <1>3, <1>4 DEF Progress
<1>6. RowInv'
  BY <1>1, <1>2, <1>3 DEF RowInv, ResultIsCommitted, Completed
<1>7. NodeInv'
  BY <1>2 DEF Inv, NodeInv, ContinuousPrefix, Completed
<1>8. AnswersAgree'
  BY <1>5, AnswersSurvive DEF Inv
<1> QED
  BY <1>1, <1>2, <1>3, <1>5, <1>6, <1>7, <1>8

\* The state of a session that is about to publish is exactly what is durable.
LEMMA StateIsDurable ==
  ASSUME Inv, NEW c \in Callers, call[c].pc = "finish"
  PROVE  /\ call[c].state = [n \in Nodes |-> ckpt[n].out]
         /\ \A n \in Nodes : Completed(n)
<1>1. \A n \in Nodes : Completed(n) /\ call[c].state[n] = ckpt[n].out
  BY DEF Inv, Session, ClosesAll
<1>2. call[c].state \in [Nodes -> Nat]
  BY Typing DEF Results
<1> QED
  BY <1>1, <1>2

LEMMA FinishCompletedInv == ASSUME Inv, NEW c \in Callers, FinishCompleted(c) PROVE Inv'
<1>1. /\ now \in Nat /\ faults \in Nat /\ issued \in Nat /\ call[c] \in CallType
      /\ call[c].state \in Results /\ answer \in [Callers -> Results \cup {NoResult}]
  BY Typing
<1> DEFINE f == [call[c] EXCEPT !.pc = "reply", !.token = 0]
<1>2. /\ call[c].pc = "finish" /\ Owns(c) /\ Release(c, "completed", call[c].state)
      /\ Become(c, f) /\ UNCHANGED <<now, faults, answer>>
  BY DEF FinishCompleted
<1>3. f \in CallType /\ f.pc = "reply" /\ f.state = call[c].state /\ f.token = 0
  BY <1>1 DEF CallType, Active
<1> HIDE DEF f
<1>4. call'[c] = f
  BY <1>2, <1>3, BecomeFrame DEF Inv, TypeOK
<1> DEFINE res == call[c].state
<1>5. /\ res \in Results \cup {NoResult} /\ Release(c, "completed", res)
      /\ res = [n \in Nodes |-> ckpt[n].out] /\ \A n \in Nodes : Completed(n)
  BY <1>1, <1>2, StateIsDurable
<1> HIDE DEF res
<1>6. /\ Progress /\ RowInv' /\ NodeInv' /\ AnswersAgree'
      /\ issued' \in Nat /\ ckpt' \in [Nodes -> NodeType] /\ run' \in RunType
      /\ run'.owner = 0 /\ run'.status = "completed" /\ run'.identity = run.identity
      /\ run'.result = res
  BY <1>2, <1>5, ReleaseKeepsTheStore
<1>7. run.identity = Identity[c]
  BY <1>2 DEF Inv, Session, HoldsToken, Holding
<1>8. Session(c)'
  BY <1>3, <1>4, <1>6, <1>7 DEF Session, HoldsToken, RemembersNodes, OwnsTheRest,
     SavesItsOutput, ClosesAll, RepliesPublished, Holding, InNode, res
<1> QED
  BY <1>1, <1>2, <1>3, <1>6, <1>8, FrameStep

LEMMA FinishRejectedInv == ASSUME Inv, NEW c \in Callers, FinishRejected(c) PROVE Inv'
<1>1. now' \in Nat /\ faults' \in Nat
  BY Typing DEF FinishRejected, Fault
<1> QED
  BY <1>1, GotoFailInv DEF FinishRejected, Holding

LEMMA ReplyInv == ASSUME Inv, NEW c \in Callers, Reply(c) PROVE Inv'
<1>1. /\ now \in Nat /\ faults \in Nat /\ issued \in Nat /\ run \in RunType
      /\ ckpt \in [Nodes -> NodeType] /\ call[c].state \in Results
      /\ answer \in [Callers -> Results \cup {NoResult}]
  BY Typing
<1> DEFINE f == Frameless("returned")
<1>2. f \in CallType /\ f.pc = "returned" /\ f.token = 0
  BY FramelessType DEF Frameless, Ended
<1>3. /\ call[c].pc = "reply" /\ Become(c, f) /\ UNCHANGED <<now, faults, store>>
      /\ answer' = [answer EXCEPT ![c] = call[c].state]
  BY DEF Reply, End
<1> HIDE DEF f
<1>4. call'[c] = f
  BY <1>2, <1>3, BecomeFrame DEF Inv, TypeOK
<1>5. run' = run /\ ckpt' = ckpt /\ issued' = issued
  BY <1>3 DEF store
<1>6. Progress /\ RowInv' /\ NodeInv'
  BY <1>1, <1>5 DEF Progress, Inv, RowInv, NodeInv, ResultIsCommitted, ContinuousPrefix,
     Completed
<1>7. run.status = "completed" /\ run.identity = Identity[c] /\ call[c].state = run.result
  BY <1>3 DEF Inv, Session, RepliesPublished
<1>8. AnswersAgree'
  BY <1>1, <1>3, <1>5, <1>7 DEF Inv, AnswersAgree
<1>9. answer' \in [Callers -> Results \cup {NoResult}]
  BY <1>1, <1>3
<1>10. Session(c)'
  BY <1>1, <1>2, <1>4, <1>5, EndedSession DEF Ended
<1> QED
  BY <1>1, <1>2, <1>3, <1>5, <1>6, <1>8, <1>9, <1>10, FrameStep

LEMMA FailInv == ASSUME Inv, NEW c \in Callers, Fail(c) PROVE Inv'
<1>1. /\ now \in Nat /\ faults \in Nat
      /\ answer \in [Callers -> Results \cup {NoResult}]
  BY Typing
<1>2. CASE Owns(c)
  <2> DEFINE f == Frameless("raised")
  <2>1. f \in CallType /\ f.pc = "raised" /\ f.token = 0
    BY FramelessType DEF Frameless, Ended
  <2>2. Become(c, f) /\ Release(c, "failed", NoResult) /\ UNCHANGED <<now, faults, answer>>
    BY <1>2 DEF Fail, End
  <2> HIDE DEF f
  <2>3. call'[c] = f
    BY <2>1, <2>2, BecomeFrame DEF Inv, TypeOK
  <2>4. /\ Progress /\ RowInv' /\ NodeInv' /\ AnswersAgree' /\ run'.owner = 0
        /\ issued' \in Nat /\ ckpt' \in [Nodes -> NodeType] /\ run' \in RunType
    BY <1>2, <2>2, ReleaseKeepsTheStore
  <2>5. Session(c)'
    BY <2>1, <2>3, <2>4, EndedSession DEF Ended
  <2> QED
    BY <1>1, <2>1, <2>2, <2>4, <2>5, FrameStep
<1>3. CASE ~Owns(c)
  <2>1. End(c, "raised") /\ UNCHANGED <<now, faults, store, answer>>
    BY <1>3 DEF Fail
  <2> QED
    BY <1>1, <2>1, EndKeepsInv DEF Ended
<1> QED
  BY <1>2, <1>3

LEMMA RetryInv == ASSUME Inv, NEW c \in Callers, Retry(c) PROVE Inv'
<1>1. now \in Nat /\ faults \in Nat /\ issued \in Nat /\ call[c] \in CallType
  BY Typing
<1> DEFINE f == [call[c] EXCEPT !.pc = "idle"]
<1>2. Become(c, f) /\ UNCHANGED <<now, faults, store, answer>>
  BY DEF Retry, Goto
<1>3. f \in CallType /\ f.pc = "idle" /\ f.token = call[c].token
  BY <1>1 DEF CallType, Ended
<1>4. call[c].token = 0
  BY DEF Retry, Inv, Session, HoldsToken, Holding
<1> HIDE DEF f
<1>5. call'[c] = f
  BY <1>2, <1>3, BecomeFrame DEF Inv, TypeOK
<1>6. Session(c)'
  BY <1>1, <1>2, <1>3, <1>4, <1>5, EndedSession DEF store, Ended
<1> QED
  BY <1>1, <1>2, <1>3, <1>4, <1>6, QuietStep

LEMMA CrashInv == ASSUME Inv, NEW c \in Callers, Crash(c) PROVE Inv'
<1>1. now' \in Nat /\ faults' \in Nat
  BY Typing DEF Crash, Fault
<1> QED
  BY <1>1, EndKeepsInv DEF Crash, Ended

\* A step that changes none of the callers and nothing durable.
LEMMA SameInv ==
  ASSUME Inv, now' \in Nat, UNCHANGED <<faults, store, call, answer>>
  PROVE  Inv'
<1>1. /\ faults' = faults /\ issued' = issued /\ run' = run /\ ckpt' = ckpt
      /\ call' = call /\ answer' = answer
  BY DEF store
<1>2. TypeOK'
  BY <1>1 DEF Inv, TypeOK
<1>3. RowInv' /\ NodeInv' /\ TokenInv' /\ AnswersAgree'
  BY <1>1 DEF Inv, RowInv, NodeInv, TokenInv, AnswersAgree, ResultIsCommitted,
     ContinuousPrefix, Completed
<1>4. ASSUME NEW c \in Callers PROVE Session(c)'
  BY <1>1 DEF Inv, Session, HoldsToken, RemembersNodes, OwnsTheRest, SavesItsOutput,
     ClosesAll, RepliesPublished, AttemptOf, Completed
<1> QED
  BY <1>2, <1>3, <1>4 DEF Inv

\* The invariant is inductive.
LEMMA NextInv == ASSUME Inv, [Next]_vars PROVE Inv'
<1>1. ASSUME NEW c \in Callers, Step(c) PROVE Inv'
  BY <1>1, CallInv, AcquireInv, LoadInv, HandlerInv, CheckPreviousInv, CommitInv,
     CheckCompleteInv, FinishCompletedInv, FinishRejectedInv, ReplyInv, FailInv, RetryInv
     DEF Step
<1>2. ASSUME NEW c \in Callers, Crash(c) PROVE Inv'
  BY <1>2, CrashInv
<1>3. CASE Tick
  BY <1>3, SameInv DEF Tick, Inv, TypeOK
<1>4. CASE UNCHANGED vars
  BY <1>4, SameInv DEF vars, store, Inv, TypeOK
<1> QED
  BY <1>1, <1>2, <1>3, <1>4 DEF Next

\* Every reachable state satisfies the invariant.
THEOREM Invariance == Spec => []Inv
  BY InitInv, NextInv, PTL DEF Spec

(***************************************************************************)
(* The safety properties.                                                  *)
(***************************************************************************)
\* Type correctness.
THEOREM TypeCorrect == Spec => []TypeOK
<1>1. Inv => TypeOK
  BY DEF Inv
<1> QED
  BY <1>1, Invariance, PTL

\* None of the store's corruption checks fires on a store nobody tampered with,
\* although they read the nodes outside the write transaction.
THEOREM NoCorruptionIsReported == Spec => []NoFalseCorruption
<1>1. ASSUME Inv PROVE NoFalseCorruption
  <2>1. ContinuousPrefix
    BY <1>1 DEF Inv, NodeInv
  <2>2. ASSUME NEW c \in Callers PROVE
          /\ call[c].pc \in {"check", "commit"} =>
               \A m \in 1 .. call[c].at - 1 : Completed(m)
          /\ call[c].pc \in {"closing", "finish"} => \A n \in Nodes : Completed(n)
          /\ call[c].pc = "commit" /\ Owns(c) => ~Overwrites(c) /\ ~Backwards(c)
    <3>1. Session(c)
      BY <1>1 DEF Inv
    <3>2. call[c].pc \in {"check", "commit"} => \A m \in 1 .. call[c].at - 1 : Completed(m)
      BY <3>1, ConstantsAssumption DEF Session, RemembersNodes, InNode, Nodes
    <3>3. call[c].pc \in {"closing", "finish"} => \A n \in Nodes : Completed(n)
      BY <3>1 DEF Session, ClosesAll
    <3>4. ASSUME call[c].pc = "commit", Owns(c) PROVE ~Overwrites(c) /\ ~Backwards(c)
      <4>1. ~Completed(call[c].at) /\ ckpt[call[c].at].attempt < AttemptOf(c)
        BY <3>1, <3>4 DEF Session, OwnsTheRest, InNode, Owns
      <4>2. call[c].at \in Nodes
        BY <3>1, <3>4 DEF Session, RemembersNodes, InNode
      <4>3. ckpt[call[c].at].attempt \in Nat
        BY <1>1, <4>2, Typing DEF NodeType
      <4>4. AttemptOf(c) \in Nat
        <5>1. call[c].tries \in Nat /\ call[c].prior[call[c].at] \in Nat
          BY <1>1, <4>2, Typing DEF Results
        <5> QED
          BY <5>1 DEF AttemptOf
      <4> QED
        BY <4>1, <4>3, <4>4 DEF Overwrites, Backwards
    <3> QED
      BY <3>2, <3>3, <3>4
  <2> QED
    BY <2>1, <2>2 DEF NoFalseCorruption
<1> QED
  BY <1>1, Invariance, PTL

\* A published result consists of the durable outputs of all nodes.
THEOREM PublishedResultIsCommitted == Spec => []ResultIsCommitted
<1>1. Inv => ResultIsCommitted
  BY DEF Inv, RowInv
<1> QED
  BY <1>1, Invariance, PTL

\* Every answer is the published result, for the identity the run is bound to.
THEOREM AnswersArePublished == Spec => []AnswersAgree
<1>1. Inv => AnswersAgree
  BY DEF Inv
<1> QED
  BY <1>1, Invariance, PTL

(***************************************************************************)
(* What a step may do to the database.                                     *)
(***************************************************************************)
\* Every step that changes the database is a lease, a commit or a release; those that
\* commit and release are made by the caller that owns the row.
LEMMA StoreSteps ==
  ASSUME Inv, [Next]_vars
  PROVE  \/ UNCHANGED store
         \/ \E c \in Callers : \E row \in RunType : TakeLease(c, row) /\ run.status # "completed"
         \/ \E c \in Callers :
              call[c].pc = "commit" /\ Owns(c) /\ Upsert(c) /\ issued' = issued
         \/ \E c \in Callers : Owns(c) /\ \E st, res : Release(c, st, res)
<1>1. ASSUME NEW c \in Callers, Acquire(c)
      PROVE  \/ UNCHANGED store
             \/ \E row \in RunType : TakeLease(c, row) /\ run.status # "completed"
  <2>1. run \in RunType /\ [run EXCEPT !.identity = Identity[c]] \in RunType
    BY DEF Inv, TypeOK, RunType
  <2> QED
    BY <1>1, <2>1 DEF Acquire, AcquireNew, AcquireTakeover, AcquireBusy, AcquireRefused,
       AcquireCached
<1>2. ASSUME NEW c \in Callers, Commit(c)
      PROVE  \/ UNCHANGED store
             \/ call[c].pc = "commit" /\ Owns(c) /\ Upsert(c) /\ issued' = issued
  BY <1>2 DEF Commit, CommitCompleted, CommitFailed, CommitFenced, CommitRejected
<1>3. ASSUME NEW c \in Callers, FinishCompleted(c) \/ Fail(c)
      PROVE  \/ UNCHANGED store
             \/ Owns(c) /\ \E st, res : Release(c, st, res)
  BY <1>3 DEF FinishCompleted, Fail
<1>4. ASSUME NEW c \in Callers, Step(c),
             ~(Acquire(c) \/ Commit(c) \/ FinishCompleted(c) \/ Fail(c))
      PROVE  UNCHANGED store
  BY <1>4 DEF Step, Call, Load, Handler, HandlerReturns, HandlerRaises, HandlerAborts,
     CheckPrevious, CheckComplete, FinishRejected, Reply, Retry
<1>5. ASSUME NEW c \in Callers, Crash(c) PROVE UNCHANGED store
  BY <1>5 DEF Crash
<1>6. CASE Tick \/ UNCHANGED vars
  BY <1>6 DEF Tick, vars, store
<1>7. ASSUME NEW c \in Callers, Step(c)
      PROVE  \/ UNCHANGED store
             \/ \E row \in RunType : TakeLease(c, row) /\ run.status # "completed"
             \/ call[c].pc = "commit" /\ Owns(c) /\ Upsert(c) /\ issued' = issued
             \/ Owns(c) /\ \E st, res : Release(c, st, res)
  BY <1>1, <1>2, <1>3, <1>4, <1>7
<1> QED
  BY <1>5, <1>6, <1>7 DEF Next

\* How the nodes may change in one step.
LEMMA NodeSteps ==
  ASSUME Inv, [Next]_vars, NEW n \in Nodes
  PROVE  \/ ckpt'[n] = ckpt[n]
         \/ ~Completed(n) /\ ckpt'[n].attempt > ckpt[n].attempt
<1>1. CASE UNCHANGED store
  BY <1>1 DEF store
<1>2. ASSUME NEW c \in Callers, NEW row \in RunType, TakeLease(c, row) PROVE ckpt' = ckpt
  BY <1>2 DEF TakeLease
<1>3. ASSUME NEW c \in Callers, call[c].pc = "commit", Owns(c), Upsert(c)
      PROVE  \/ ckpt'[n] = ckpt[n]
             \/ ~Completed(n) /\ ckpt'[n].attempt > ckpt[n].attempt
  <2>1. CASE n = call[c].at
    BY <1>3, <2>1, UpsertWrites
  <2>2. CASE n # call[c].at
    BY <1>3, <2>2, UpsertWrites
  <2> QED
    BY <2>1, <2>2
<1>4. ASSUME NEW c \in Callers, NEW st, NEW res, Release(c, st, res) PROVE ckpt' = ckpt
  BY <1>4 DEF Release
<1> QED
  BY <1>1, <1>2, <1>3, <1>4, StoreSteps

\* A committed node is never changed or lost, by whoever holds the lease later.
THEOREM NodesAreFinal == Spec => CompletedNodesAreFinal
<1>1. ASSUME Inv, [Next]_vars
      PROVE  [\A n \in Nodes : Completed(n) => ckpt'[n] = ckpt[n]]_vars
  BY <1>1, NodeSteps
<1> QED
  BY <1>1, Invariance, PTL DEF Spec, CompletedNodesAreFinal

\* Crashes and takeovers do not make a node's attempt number start over.
THEOREM AttemptsGrow == Spec => AttemptsNeverGoBack
<1>1. ASSUME Inv, [Next]_vars
      PROVE  [\A n \in Nodes : ckpt'[n].attempt >= ckpt[n].attempt]_vars
  <2>1. ASSUME NEW n \in Nodes PROVE ckpt'[n].attempt >= ckpt[n].attempt
    <3>1. ckpt[n].attempt \in Nat /\ ckpt'[n].attempt \in Nat
      <4>1. ckpt \in [Nodes -> NodeType] /\ ckpt' \in [Nodes -> NodeType]
        BY <1>1, NextInv DEF Inv, TypeOK, Nodes, NodeType
      <4> QED
        BY <4>1 DEF NodeType
    <3> QED
      BY <1>1, <3>1, NodeSteps
  <2> QED
    BY <2>1
<1> QED
  BY <1>1, Invariance, PTL DEF Spec, AttemptsNeverGoBack

(***************************************************************************)
(* The lease and the ledger.                                               *)
(*                                                                         *)
(* Two more facts about the frames are inductive next to Inv: the time that *)
(* acquire compares with the lease is not ahead of the clock, and the owner *)
(* has spent at least what the row says the run has spent.                  *)
(***************************************************************************)
ClockInv == \A c \in Callers : call[c].seen <= now

LedgerInv ==
    \A c \in Callers :
        call[c].token # 0 /\ run.owner = call[c].token => call[c].used >= run.spent

\* A caller reads the clock or keeps what it has read; it gives its token up, or keeps it
\* and what it has spent.
Continues(c) ==
    /\ call'[c].seen \in {call[c].seen, now, 0}
    /\ \/ call'[c].token = 0
       \/ call'[c].token = call[c].token /\ call'[c].used >= call[c].used

\* The frame a caller continues with.
LEMMA FrameContinues ==
  ASSUME Inv, NEW c \in Callers, NEW f, Become(c, f),
         f.seen \in {call[c].seen, now, 0},
         f.token = 0 \/ (f.token = call[c].token /\ f.used >= call[c].used)
  PROVE  Continues(c) /\ \A d \in Callers : d # c => call'[d] = call[d]
<1>1. call'[c] = f /\ \A d \in Callers : d # c => call'[d] = call[d]
  BY DEF Become, Inv, TypeOK
<1> QED
  BY <1>1 DEF Continues

\* The steps that do not take the lease.
LEMMA StepContinues ==
  ASSUME Inv, NEW c \in Callers, Step(c) \/ Crash(c),
         ~AcquireNew(c), ~AcquireTakeover(c)
  PROVE  Continues(c) /\ \A d \in Callers : d # c => call'[d] = call[d]
<1> DEFINE Fits(f) == /\ f.seen \in {call[c].seen, now, 0}
                      /\ f.token = 0 \/ (f.token = call[c].token /\ f.used >= call[c].used)
<1>0. call[c] \in CallType
  BY DEF Inv, TypeOK
<1>1. ASSUME NEW label, End(c, label) PROVE \E f : Become(c, f) /\ Fits(f)
  <2>1. Fits(Frameless(label))
    BY DEF Frameless
  <2>2. Become(c, Frameless(label))
    BY <1>1 DEF End
  <2> WITNESS Frameless(label)
  <2> QED
    BY <2>1, <2>2
<1>2. ASSUME NEW label, Goto(c, label) PROVE \E f : Become(c, f) /\ Fits(f)
  BY <1>0, <1>2 DEF Goto, CallType
<1>3. CASE Call(c)
  <2>1. Fits([call[c] EXCEPT !.pc = "acquire", !.seen = now])
    BY <1>0 DEF CallType
  <2> QED
    BY <1>3, <2>1, FrameContinues DEF Call
<1>4. CASE AcquireBusy(c) \/ AcquireRefused(c) \/ Reply(c) \/ Fail(c) \/ Crash(c)
  <2>1. \E label : End(c, label)
    BY <1>4 DEF AcquireBusy, AcquireRefused, Reply, Fail, Crash
  <2> QED
    BY <1>1, <2>1, FrameContinues
<1>5. CASE AcquireCached(c)
  <2>1. Fits([call[c] EXCEPT !.pc = "reply", !.state = run.result])
    BY <1>0 DEF CallType
  <2> QED
    BY <1>5, <2>1, FrameContinues DEF AcquireCached
<1>6. CASE Load(c)
  <2>1. ASSUME NEW p, NEW n, NEW a, NEW b
        PROVE  Fits([call[c] EXCEPT !.pc = p, !.at = n, !.prior = a, !.state = b])
    BY <1>0 DEF CallType
  <2>2. ASSUME ContinuousPrefix PROVE \E f : Become(c, f) /\ Fits(f)
    <3> HIDE DEF Fits
    <3>1. PICK n : Become(c, [call[c] EXCEPT !.pc = NextStop(n), !.at = n,
                        !.prior = [m \in Nodes |-> ckpt[m].attempt],
                        !.state = [m \in Nodes |-> IF Completed(m) THEN ckpt[m].out ELSE 0]])
      BY <1>6, <2>2, Zenon DEF Load
    <3> QED
      BY <2>1, <3>1, Zenon
  <2>3. ASSUME ~ContinuousPrefix PROVE \E f : Become(c, f) /\ Fits(f)
    BY <1>2, <1>6, <2>3, Zenon DEF Load
  <2> QED
    BY <2>2, <2>3, FrameContinues
<1>7. CASE Handler(c)
  <2>1. ASSUME NEW p, NEW v, NEW b, NEW u \in {0, 1}
        PROVE  /\ Fits([call[c] EXCEPT !.pc = p, !.saving = v, !.used = call[c].used + 1,
                                      !.state = b])
               /\ Fits([call[c] EXCEPT !.pc = p, !.saving = v, !.used = call[c].used + 1])
               /\ Fits([call[c] EXCEPT !.pc = p, !.used = call[c].used + u])
    BY <1>0 DEF CallType
  <2>2. \E f : Become(c, f) /\ Fits(f)
    BY <1>7, <2>1 DEF Handler, HandlerReturns, HandlerRaises, HandlerAborts
  <2> QED
    BY <2>2, FrameContinues
<1>8. CASE Commit(c)
  <2>1. ASSUME NEW p, NEW n, NEW t, NEW v
        PROVE  /\ Fits([call[c] EXCEPT !.pc = p, !.at = n, !.tries = t])
               /\ Fits([call[c] EXCEPT !.pc = p, !.tries = t])
               /\ Fits([call[c] EXCEPT !.saving = v, !.pc = p])
    BY <1>0 DEF CallType
  <2>2. ASSUME CommitCompleted(c) PROVE \E f : Become(c, f) /\ Fits(f)
    <3>1. Become(c, [call[c] EXCEPT !.pc = NextStop(call[c].at + 1),
                                    !.at = call[c].at + 1, !.tries = 1])
      BY <2>2 DEF CommitCompleted
    <3>2. Fits([call[c] EXCEPT !.pc = NextStop(call[c].at + 1),
                               !.at = call[c].at + 1, !.tries = 1])
      BY <2>1
    <3> HIDE DEF Fits
    <3> QED
      BY <3>1, <3>2, Zenon
  <2>3. ASSUME CommitFailed(c) PROVE \E f : Become(c, f) /\ Fits(f)
    <3> HIDE DEF Fits
    <3> QED
      BY <1>2, <2>1, <2>3, Zenon DEF CommitFailed
  <2>4. ASSUME CommitFenced(c) PROVE \E f : Become(c, f) /\ Fits(f)
    BY <2>1, <2>4, Zenon DEF CommitFenced
  <2>5. ASSUME CommitRejected(c) PROVE \E f : Become(c, f) /\ Fits(f)
    BY <1>2, <2>5, Zenon DEF CommitRejected
  <2> QED
    BY <1>8, <2>2, <2>3, <2>4, <2>5, FrameContinues DEF Commit
<1>9. CASE CheckPrevious(c) \/ CheckComplete(c) \/ FinishRejected(c) \/ Retry(c)
  <2>1. \E label : Goto(c, label)
    BY <1>9 DEF CheckPrevious, CheckComplete, FinishRejected, Retry
  <2> QED
    BY <1>2, <2>1, FrameContinues
<1>10. CASE FinishCompleted(c)
  <2>1. Fits([call[c] EXCEPT !.pc = "reply", !.token = 0])
    BY <1>0 DEF CallType
  <2> QED
    BY <1>10, <2>1, FrameContinues DEF FinishCompleted
<1> QED
  BY <1>3, <1>4, <1>5, <1>6, <1>7, <1>8, <1>9, <1>10 DEF Step, Acquire

\* The steps that take the lease.
LEMMA TakerContinues ==
  ASSUME Inv, NEW c \in Callers, NEW row \in RunType, TakeLease(c, row)
  PROVE  /\ call'[c].seen = call[c].seen /\ \A d \in Callers : d # c => call'[d] = call[d]
         /\ call'[c].used = row.spent /\ call'[c].token = issued + 1
         /\ run'.owner = issued + 1 /\ run'.spent = row.spent
  BY DEF TakeLease, Lease, Become, Inv, TypeOK, CallType, RunType

\* A step of one caller keeps the clocks of all.
LEMMA ClockStep ==
  ASSUME Inv, ClockInv, NEW c \in Callers, Step(c) \/ Crash(c) PROVE ClockInv'
<1>1. now \in Nat /\ now' = now /\ \A d \in Callers : call[d].seen <= now
  <2>1. now' = now
    BY DEF Step, Call, Acquire, AcquireNew, AcquireTakeover, AcquireBusy, AcquireRefused,
       AcquireCached, TakeLease, Load, Handler, HandlerReturns, HandlerRaises, HandlerAborts,
       CheckPrevious, Commit, CommitCompleted, CommitFailed, CommitFenced, CommitRejected,
       CheckComplete, FinishCompleted, FinishRejected, Reply, Fail, Retry, Crash
  <2> QED
    BY <2>1 DEF ClockInv, Inv, TypeOK
<1>2. call'[c].seen \in {call[c].seen, now, 0} /\ \A d \in Callers : d # c => call'[d] = call[d]
  <2>1. CASE AcquireNew(c) \/ AcquireTakeover(c)
    <3>1. run \in RunType /\ [run EXCEPT !.identity = Identity[c]] \in RunType
      BY DEF Inv, TypeOK, RunType
    <3> QED
      BY <2>1, <3>1, TakerContinues DEF AcquireNew, AcquireTakeover
  <2> QED
    BY <2>1, StepContinues DEF Continues
<1> QED
  BY <1>1, <1>2 DEF ClockInv

\* A lease changes hands only after it ran out or was given back, although acquire
\* compares it with a clock it read before it got the writer lock.
LEMMA TakeoverStep ==
  ASSUME Inv, ClockInv, [Next]_vars, run.owner # 0, run'.owner # 0, run'.owner # run.owner
  PROVE  run.expires <= now
<1>1. ASSUME NEW c \in Callers, AcquireTakeover(c) PROVE run.expires <= now
  <2>1. run.expires <= call[c].seen
    BY <1>1 DEF AcquireTakeover
  <2>2. run.expires \in Nat /\ call[c].seen \in Nat /\ now \in Nat /\ call[c].seen <= now
    BY DEF Inv, TypeOK, RunType, CallType, ClockInv
  <2> QED
    BY <2>1, <2>2
<1>2. ASSUME NEW c \in Callers, AcquireNew(c) PROVE FALSE
  BY <1>2 DEF AcquireNew, Inv, RowInv
<1>3. CASE \E c \in Callers : Acquire(c)
  <2>1. run' = run \/ \E c \in Callers : AcquireNew(c) \/ AcquireTakeover(c)
    BY <1>3 DEF Acquire, AcquireBusy, AcquireRefused, AcquireCached, store
  <2> QED
    BY <1>1, <1>2, <2>1
<1>4. ASSUME NEW c \in Callers, Upsert(c) PROVE run'.owner = run.owner
  BY <1>4 DEF Upsert, Inv, TypeOK, RunType
<1>5. ASSUME NEW c \in Callers, NEW st, NEW res, Release(c, st, res) PROVE run'.owner = 0
  BY <1>5 DEF Release, Inv, TypeOK, RunType
<1>6. CASE \A c \in Callers : ~Acquire(c)
  <2>1. \/ run' = run
        \/ \E c \in Callers : Upsert(c)
        \/ \E c \in Callers : \E st, res : Release(c, st, res)
    BY <1>6 DEF Next, Step, Call, Load, Handler, HandlerReturns, HandlerRaises, HandlerAborts,
       CheckPrevious, Commit, CommitCompleted, CommitFailed, CommitFenced, CommitRejected,
       CheckComplete, FinishCompleted, FinishRejected, Reply, Fail, Retry, Crash, Tick,
       store, vars
  <2> QED
    BY <1>4, <1>5, <2>1
<1> QED
  BY <1>3, <1>6

\* The time an acquire works with is never ahead of the clock.
LEMMA ClockNext == ASSUME Inv, ClockInv, [Next]_vars PROVE ClockInv'
<1>1. CASE Tick
  <2>1. \A c \in Callers : call'[c] = call[c] /\ call[c].seen \in Nat
    BY <1>1 DEF Tick, Inv, TypeOK, CallType
  <2>2. now \in Nat /\ now' = now + 1
    BY <1>1 DEF Tick, Inv, TypeOK
  <2> QED
    BY <2>1, <2>2 DEF ClockInv
<1>2. CASE UNCHANGED vars
  BY <1>2 DEF vars, ClockInv
<1>3. CASE \E c \in Callers : Step(c) \/ Crash(c)
  BY <1>3, ClockStep
<1> QED
  BY <1>1, <1>2, <1>3 DEF Next

\* No live lease is taken over.
THEOREM LiveLeasesAreKept == Spec => NoTakeoverOfALiveLease
<1>1. ASSUME Init PROVE ClockInv
  <2>1. now = 0 /\ \A c \in Callers : call[c] = Frameless("idle")
    BY <1>1 DEF Init
  <2>2. Frameless("idle").seen = 0
    BY DEF Frameless
  <2> QED
    <3>1. 0 <= 0
      OBVIOUS
    <3>2. ASSUME NEW c \in Callers PROVE call[c].seen <= now
      <4>1. call[c].seen = 0 /\ now = 0
        BY <2>1, <2>2
      <4> QED
        BY <3>1, <4>1, Zenon
    <3> QED
      BY <3>2 DEF ClockInv
<1>2. ASSUME Inv, ClockInv, [Next]_vars
      PROVE  [run.owner # 0 /\ run'.owner # 0 /\ run'.owner # run.owner
                => run.expires <= now]_vars
  BY <1>2, TakeoverStep
<1> QED
  BY <1>1, <1>2, ClockNext, Invariance, PTL DEF Spec, NoTakeoverOfALiveLease

\* Taking the lease continues the ledger of the row.
LEMMA LedgerTaken ==
  ASSUME Inv, LedgerInv, NEW c \in Callers, AcquireNew(c) \/ AcquireTakeover(c)
  PROVE  LedgerInv' /\ run'.spent >= run.spent
<1>1. /\ run \in RunType /\ [run EXCEPT !.identity = Identity[c]] \in RunType
      /\ [run EXCEPT !.identity = Identity[c]].spent = run.spent
  BY DEF Inv, TypeOK, RunType
<1>2. /\ run.spent \in Nat /\ issued \in Nat
      /\ \A d \in Callers : call[d].token \in Nat /\ call[d].token <= issued
  BY DEF Inv, TypeOK, RunType, CallType, Session, HoldsToken
<1>3. /\ \A d \in Callers : d # c => call'[d] = call[d]
      /\ call'[c].used = run.spent /\ call'[c].token = issued + 1
      /\ run'.owner = issued + 1 /\ run'.spent = run.spent
  BY <1>1, TakerContinues DEF AcquireNew, AcquireTakeover
<1> QED
  BY <1>2, <1>3 DEF LedgerInv

\* No other step changes the owner, but to nobody, or sets the row back.
LEMMA LedgerKept ==
  ASSUME Inv, LedgerInv, [Next]_vars,
         \A c \in Callers : ~AcquireNew(c) /\ ~AcquireTakeover(c)
  PROVE  LedgerInv' /\ run'.spent >= run.spent
<1> DEFINE Keeps(d) == \/ call'[d].token = 0
                       \/ call'[d].token = call[d].token /\ call'[d].used >= call[d].used
<1>1. /\ run.spent \in Nat
      /\ \A d \in Callers : call[d].used \in Nat
      /\ \A d, e \in Callers : call[d].token # 0 /\ call[d].token = call[e].token => d = e
  BY DEF Inv, TypeOK, RunType, CallType, TokenInv
<1>2. \A d \in Callers : Keeps(d)
  <2>1. CASE UNCHANGED vars \/ Tick
    BY <1>1, <2>1 DEF vars, Tick
  <2>2. CASE \E c \in Callers : Step(c) \/ Crash(c)
    <3>1. PICK c \in Callers : Step(c) \/ Crash(c)
      BY <2>2
    <3>2. Continues(c) /\ \A d \in Callers : d # c => call'[d] = call[d]
      BY <3>1, StepContinues
    <3> QED
      BY <1>1, <3>2 DEF Continues
  <2> QED
    BY <2>1, <2>2 DEF Next
<1>3. \/ run' = run
      \/ run'.owner = 0 /\ \E c \in Callers : Owns(c) /\ run'.spent = call[c].used
      \/ run'.owner = run.owner /\ \E c \in Callers : Owns(c) /\ run'.spent = call[c].used
  <2>1. ASSUME NEW c \in Callers, Upsert(c) PROVE run'.owner = run.owner /\ run'.spent = call[c].used
    BY <2>1 DEF Upsert, Inv, TypeOK, RunType
  <2>2. ASSUME NEW c \in Callers, NEW st, NEW res, Release(c, st, res)
        PROVE  run'.owner = 0 /\ run'.spent = call[c].used
    BY <2>2 DEF Release, Inv, TypeOK, RunType
  <2>3. \/ run' = run
        \/ \E c \in Callers : Owns(c) /\ Upsert(c)
        \/ \E c \in Callers : Owns(c) /\ \E st, res : Release(c, st, res)
    BY DEF Next, Step, Call, Acquire, AcquireBusy, AcquireRefused, AcquireCached, Load, Handler,
       HandlerReturns, HandlerRaises, HandlerAborts, CheckPrevious, Commit, CommitCompleted,
       CommitFailed, CommitFenced, CommitRejected, CheckComplete, FinishCompleted,
       FinishRejected, Reply, Fail, Retry, Crash, Tick, store, vars
  <2> QED
    BY <2>1, <2>2, <2>3
<1>4. \A c \in Callers : Owns(c) => call[c].token = run.owner /\ call[c].used >= run.spent
  BY DEF Owns, LedgerInv
<1>5. \A d \in Callers : call'[d].used \in Nat
  BY NextInv DEF Inv, TypeOK, CallType
<1>6. run'.spent >= run.spent
  BY <1>1, <1>3, <1>4
<1>7. ASSUME NEW d \in Callers, call'[d].token # 0, run'.owner = call'[d].token
      PROVE  call'[d].used >= run'.spent
  <2>1. call'[d].token = call[d].token /\ call'[d].used >= call[d].used
    BY <1>2, <1>7
  <2>2. CASE run' = run
    <3>1. call[d].used >= run.spent
      BY <1>7, <2>1, <2>2 DEF LedgerInv
    <3> QED
      BY <1>1, <1>5, <2>1, <2>2, <3>1
  <2>3. CASE run' # run
    <3>1. PICK c \in Callers : Owns(c) /\ run'.spent = call[c].used /\ run'.owner = run.owner
      BY <1>3, <1>7, <2>3
    <3>2. c = d
      BY <1>1, <1>4, <1>7, <2>1, <3>1
    <3> QED
      BY <2>1, <3>1, <3>2
  <2> QED
    BY <2>2, <2>3
<1> QED
  BY <1>6, <1>7 DEF LedgerInv

\* The attempt numbers and the ledger of a run never go back.
THEOREM ProgressGrows == Spec => ProgressIsKept
<1>1. ASSUME Init PROVE LedgerInv
  <2>1. \A c \in Callers : call[c].token = 0
    BY <1>1 DEF Init, Frameless
  <2> QED
    BY <2>1 DEF LedgerInv
<1>2. ASSUME Inv, LedgerInv, [Next]_vars PROVE LedgerInv' /\ run'.spent >= run.spent
  BY <1>2, LedgerTaken, LedgerKept
<1>3. ASSUME Inv, LedgerInv, [Next]_vars PROVE LedgerInv' /\ [run'.spent >= run.spent]_vars
  BY <1>2, <1>3
<1> QED
  BY <1>1, <1>3, Invariance, AttemptsGrow, PTL
     DEF Spec, ProgressIsKept, LedgerNeverShrinks

(***************************************************************************)
(* The store implements DurableRun.                                        *)
(***************************************************************************)
Outputs == [n \in Nodes |-> ckpt[n].out]

\* A step that leaves the outputs, the result and the answers alone stutters.
LEMMA Stutter ==
  ASSUME Outputs' = Outputs, run'.result = run.result, answer' = answer
  PROVE  UNCHANGED Durable!vars
  BY DEF Durable!vars, Outputs

\* A step that leaves the database and the answers alone stutters.
LEMMA QuietStutter ==
  ASSUME UNCHANGED store, answer' = answer
  PROVE  UNCHANGED Durable!vars
<1>1. Outputs' = Outputs /\ run'.result = run.result
  BY DEF store, Outputs
<1> QED
  BY <1>1, Stutter

\* The initial states are initial states of DurableRun.
LEMMA InitRefines == Init => Durable!Init
  BY DEF Init, Durable!Init, Durable!Nodes, Nodes, NoNodes

\* Taking a lease is invisible.
LEMMA AcquireRefines ==
  ASSUME Inv, NEW c \in Callers, Acquire(c) PROVE UNCHANGED Durable!vars
<1>1. ASSUME NEW row, row.result = run.result, TakeLease(c, row)
      PROVE  Outputs' = Outputs /\ run'.result = run.result /\ answer' = answer
  BY <1>1 DEF TakeLease, Lease, Outputs
<1>2. CASE AcquireNew(c)
  <2> DEFINE row == [run EXCEPT !.identity = Identity[c]]
  <2>1. row.result = run.result
    BY DEF Inv, TypeOK, RunType
  <2>2. TakeLease(c, row)
    BY <1>2 DEF AcquireNew
  <2> HIDE DEF row
  <2> QED
    BY <1>1, <2>1, <2>2, Stutter
<1>3. CASE AcquireTakeover(c)
  BY <1>1, <1>3, Stutter DEF AcquireTakeover
<1>4. CASE AcquireBusy(c) \/ AcquireRefused(c) \/ AcquireCached(c)
  BY <1>4, QuietStutter DEF AcquireBusy, AcquireRefused, AcquireCached
<1> QED
  BY <1>2, <1>3, <1>4 DEF Acquire

\* Committing a completed node commits it in DurableRun.
LEMMA CommitCompletedRefines ==
  ASSUME Inv, NEW c \in Callers, CommitCompleted(c)
  PROVE  \E n \in Nodes : Durable!CommitNode(n)
<1>1. /\ call[c].pc = "commit" /\ call[c].saving = "completed" /\ Owns(c) /\ Upsert(c)
      /\ answer' = answer
  BY DEF CommitCompleted
<1> SUFFICES ASSUME NEW n \in Nodes, n = call[c].at PROVE Durable!CommitNode(n)
  BY <1>1, UpsertWrites
<1>2. /\ n \in Nodes /\ ~Completed(n) /\ ckpt'[n].out = call[c].token
      /\ \A m \in Nodes : m # n => ckpt'[m] = ckpt[m]
      /\ run'.result = run.result
  BY <1>1, UpsertWrites
<1>3. call[c].token \in Nat \ {0}
  BY <1>1, Typing DEF Owns
<1>4. \A m \in 1 .. n - 1 : m \in Nodes /\ Completed(m)
  BY <1>1, <1>2, ConstantsAssumption DEF Inv, Session, RemembersNodes, InNode, Nodes
<1>5. \A m \in Nodes : Completed(m) <=> ckpt[m].out # 0
  BY DEF Inv, NodeInv
<1>6. Outputs' = [Outputs EXCEPT ![n] = call[c].token]
  BY <1>2 DEF Outputs
<1>7. Outputs'[n] = call[c].token /\ Outputs[n] = 0
  BY <1>2, <1>5 DEF Outputs
<1>8. \A m \in 1 .. n - 1 : Outputs[m] # 0
  BY <1>4, <1>5 DEF Outputs
<1> QED
  BY <1>1, <1>2, <1>3, <1>6, <1>7, <1>8 DEF Durable!CommitNode, Outputs

\* Recording a failed attempt is invisible.
LEMMA CommitFailedRefines ==
  ASSUME Inv, NEW c \in Callers, CommitFailed(c) PROVE UNCHANGED Durable!vars
<1>1. /\ call[c].pc = "commit" /\ call[c].saving = "failed" /\ Owns(c) /\ Upsert(c)
      /\ answer' = answer
  BY DEF CommitFailed
<1>2. /\ call[c].at \in Nodes /\ ~Completed(call[c].at) /\ ckpt'[call[c].at].out = 0
      /\ \A m \in Nodes : m # call[c].at => ckpt'[m] = ckpt[m]
      /\ run'.result = run.result
  BY <1>1, UpsertWrites
<1>3. ckpt[call[c].at].out = 0
  BY <1>2 DEF Inv, NodeInv
<1>4. Outputs' = Outputs
  BY <1>2, <1>3 DEF Outputs
<1> QED
  BY <1>1, <1>2, <1>4, Stutter

\* Completing the run publishes the committed outputs.
LEMMA FinishRefines ==
  ASSUME Inv, NEW c \in Callers, FinishCompleted(c) PROVE Durable!Publish
<1>1. /\ call[c].pc = "finish" /\ Owns(c) /\ Release(c, "completed", call[c].state)
      /\ answer' = answer
  BY DEF FinishCompleted
<1>2. call[c].state = Outputs /\ \A n \in Nodes : Completed(n)
  BY <1>1, StateIsDurable DEF Outputs
<1>3. \A n \in Nodes : Outputs[n] # 0
  BY <1>2 DEF Inv, NodeInv, Outputs
<1>4. run.result = NoResult
  BY <1>1 DEF Owns, Inv, RowInv
<1>5. run'.result = call[c].state /\ Outputs' = Outputs
  BY <1>1 DEF Release, Outputs, Inv, TypeOK, RunType
<1> QED
  BY <1>1, <1>2, <1>3, <1>4, <1>5 DEF Durable!Publish, Durable!Nodes, Nodes, Outputs

\* Failing the run is invisible.
LEMMA FailRefines ==
  ASSUME Inv, NEW c \in Callers, Fail(c) PROVE UNCHANGED Durable!vars
<1>1. CASE Owns(c)
  <2>1. run.result = NoResult
    BY <1>1 DEF Owns, Inv, RowInv
  <2>2. run'.result = NoResult /\ Outputs' = Outputs /\ answer' = answer
    BY <1>1 DEF Fail, Release, Outputs, Inv, TypeOK, RunType
  <2> QED
    BY <2>1, <2>2, Stutter
<1>2. CASE ~Owns(c)
  BY <1>2, QuietStutter DEF Fail
<1> QED
  BY <1>1, <1>2

\* Returning the result is the answer of DurableRun.
LEMMA ReplyRefines ==
  ASSUME Inv, NEW c \in Callers, Reply(c) PROVE Durable!Answer(c)
<1>1. call[c].pc = "reply" /\ UNCHANGED store /\ answer' = [answer EXCEPT ![c] = call[c].state]
  BY DEF Reply
<1>2. run.status = "completed" /\ call[c].state = run.result
  BY <1>1 DEF Inv, Session, RepliesPublished
<1>3. run.result # NoResult
  <2>1. call[c].state \in Results
    BY Typing
  <2> QED
    BY <1>2, <2>1, ConstantsAssumption
<1>4. Outputs' = Outputs /\ run'.result = run.result
  BY <1>1 DEF store, Outputs
<1> QED
  BY <1>1, <1>2, <1>3, <1>4 DEF Durable!Answer, Outputs

\* Every step of the store is a step of DurableRun or leaves it alone.
LEMMA NextRefines ==
  ASSUME Inv, [Next]_vars PROVE [Durable!Next]_(Durable!vars)
<1>1. ASSUME NEW c \in Callers, Commit(c) PROVE [Durable!Next]_(Durable!vars)
  <2>1. CASE CommitCompleted(c)
    BY <2>1, CommitCompletedRefines DEF Durable!Next, Durable!Nodes, Nodes
  <2>2. CASE CommitFailed(c)
    BY <2>2, CommitFailedRefines
  <2>3. CASE CommitFenced(c) \/ CommitRejected(c)
    BY <2>3, QuietStutter DEF CommitFenced, CommitRejected
  <2> QED
    BY <1>1, <2>1, <2>2, <2>3 DEF Commit
<1>2. ASSUME NEW c \in Callers, Step(c),
             ~(Acquire(c) \/ Commit(c) \/ FinishCompleted(c) \/ Fail(c) \/ Reply(c))
      PROVE  UNCHANGED Durable!vars
  BY <1>2, QuietStutter DEF Step, Call, Load, Handler, HandlerReturns, HandlerRaises,
     HandlerAborts, CheckPrevious, CheckComplete, FinishRejected, Retry
<1>3. ASSUME NEW c \in Callers, Step(c) PROVE [Durable!Next]_(Durable!vars)
  <2>1. CASE FinishCompleted(c)
    BY <2>1, FinishRefines DEF Durable!Next
  <2>2. CASE Reply(c)
    BY <2>2, ReplyRefines DEF Durable!Next
  <2> QED
    BY <1>1, <1>2, <1>3, <2>1, <2>2, AcquireRefines, FailRefines
<1>4. ASSUME NEW c \in Callers, Crash(c) PROVE UNCHANGED Durable!vars
  BY <1>4, QuietStutter DEF Crash
<1>5. CASE Tick
  BY <1>5, QuietStutter DEF Tick
<1>6. CASE UNCHANGED vars
  BY <1>6, QuietStutter DEF vars, store
<1> QED
  BY <1>3, <1>4, <1>5, <1>6 DEF Next

\* Sessions, leases, retries, takeovers and crashes implement DurableRun.
THEOREM StoreImplementsDurableRun == Spec => ImplementsDurableRun
  BY InitRefines, NextRefines, Invariance, PTL DEF Spec, ImplementsDurableRun, Durable!Spec

(***************************************************************************)
(* The store implements LeasedRun.                                         *)
(***************************************************************************)
\* A step that leaves the owner, the identity and the result of the row alone stutters.
LEMMA RowStutter ==
  ASSUME run'.identity = run.identity, run'.owner = run.owner, run'.result = run.result
  PROVE  UNCHANGED Leased!row
  BY DEF Leased!row

\* A step that leaves the store alone stutters.
LEMMA QuietRow == ASSUME UNCHANGED store PROVE UNCHANGED Leased!row
  BY RowStutter DEF store

\* The row is missing at first.
LEMMA InitIsLeased == Init => Leased!Init
  BY DEF Init, Leased!Init

\* A session that takes a lease takes the run, in the identity of the row.
LEMMA TakeLeaseTakes ==
  ASSUME Inv, NEW c \in Callers, NEW row \in RunType, TakeLease(c, row),
         run.result = NoResult, row.result = run.result,
         row.identity # NoIdentity,
         run.identity = NoIdentity \/ row.identity = run.identity
  PROVE  Leased!Take
<1>1. /\ run'.owner = issued + 1 /\ run'.identity = row.identity
      /\ run'.result = row.result
  BY DEF TakeLease, Lease, RunType
<1>2. issued + 1 # 0 /\ issued + 1 # run.owner
  BY DEF Inv, TypeOK, RunType, RowInv
<1> QED
  BY <1>1, <1>2 DEF Leased!Take

\* Acquiring a session takes the run or leaves it alone.
LEMMA AcquireIsLeased ==
  ASSUME Inv, NEW c \in Callers, Acquire(c) PROVE Leased!Take \/ UNCHANGED Leased!row
<1>1. Identity[c] # NoIdentity
  BY ConstantsAssumption
<1>2. run \in RunType
  BY DEF Inv, TypeOK
<1>3. CASE AcquireNew(c)
  <2> DEFINE row == [run EXCEPT !.identity = Identity[c]]
  <2>1. row \in RunType /\ row.identity = Identity[c] /\ row.result = run.result
    BY <1>2 DEF RunType
  <2>2. TakeLease(c, row) /\ run.status = "missing"
    BY <1>3 DEF AcquireNew
  <2>3. run.result = NoResult /\ run.identity = NoIdentity
    BY <2>2 DEF Inv, RowInv
  <2> HIDE DEF row
  <2> QED
    BY <1>1, <2>1, <2>2, <2>3, TakeLeaseTakes
<1>4. CASE AcquireTakeover(c)
  <2>1. TakeLease(c, run) /\ run.status # "completed" /\ run.identity = Identity[c]
    BY <1>4 DEF AcquireTakeover
  <2>2. run.result = NoResult
    BY <2>1 DEF Inv, RowInv
  <2> QED
    BY <1>1, <1>2, <2>1, <2>2, TakeLeaseTakes
<1>5. CASE AcquireBusy(c) \/ AcquireRefused(c) \/ AcquireCached(c)
  BY <1>5, QuietRow DEF AcquireBusy, AcquireRefused, AcquireCached
<1> QED
  BY <1>3, <1>4, <1>5 DEF Acquire

\* Saving a node renews the lease and shows nothing of it.
LEMMA CommitIsLeased ==
  ASSUME Inv, NEW c \in Callers, Commit(c) PROVE UNCHANGED Leased!row
<1>1. CASE CommitCompleted(c) \/ CommitFailed(c)
  <2>1. Upsert(c)
    BY <1>1 DEF CommitCompleted, CommitFailed
  <2> QED
    BY <2>1, RowStutter DEF Upsert, Inv, TypeOK, RunType
<1>2. CASE CommitFenced(c) \/ CommitRejected(c)
  BY <1>2, QuietRow DEF CommitFenced, CommitRejected
<1> QED
  BY <1>1, <1>2 DEF Commit

\* Only the owner publishes, when nothing is published yet.
LEMMA FinishIsLeased ==
  ASSUME Inv, NEW c \in Callers, FinishCompleted(c) PROVE Leased!Publish
<1>1. Owns(c) /\ Release(c, "completed", call[c].state)
  BY DEF FinishCompleted
<1>2. run.owner # 0 /\ run.result = NoResult
  BY <1>1 DEF Owns, Inv, RowInv
<1>3. call[c].state # NoResult
  BY Typing, ConstantsAssumption
<1>4. run'.owner = 0 /\ run'.result = call[c].state /\ run'.identity = run.identity
  BY <1>1 DEF Release, Inv, TypeOK, RunType
<1> QED
  BY <1>2, <1>3, <1>4 DEF Leased!Publish

\* A session that fails gives its lease back; one without a lease changes nothing.
LEMMA FailIsLeased ==
  ASSUME Inv, NEW c \in Callers, Fail(c) PROVE Leased!Leave \/ UNCHANGED Leased!row
<1>1. CASE Owns(c)
  <2>1. run.result = NoResult
    BY <1>1 DEF Owns, Inv, RowInv
  <2>2. run'.owner = 0 /\ run'.result = NoResult /\ run'.identity = run.identity
    BY <1>1 DEF Fail, Release, Inv, TypeOK, RunType
  <2> QED
    BY <2>1, <2>2 DEF Leased!Leave
<1>2. CASE ~Owns(c)
  BY <1>2, QuietRow DEF Fail
<1> QED
  BY <1>1, <1>2

\* Every step of the store is a step of LeasedRun or shows nothing of the row.
LEMMA NextIsLeased ==
  ASSUME Inv, [Next]_vars PROVE [Leased!Next]_(Leased!row)
<1>1. ASSUME NEW c \in Callers, Step(c) PROVE [Leased!Next]_(Leased!row)
  <2>1. CASE Acquire(c)
    BY <2>1, AcquireIsLeased DEF Leased!Next
  <2>2. CASE Commit(c)
    BY <2>2, CommitIsLeased
  <2>3. CASE FinishCompleted(c)
    BY <2>3, FinishIsLeased DEF Leased!Next
  <2>4. CASE Fail(c)
    BY <2>4, FailIsLeased DEF Leased!Next
  <2>5. CASE ~(Acquire(c) \/ Commit(c) \/ FinishCompleted(c) \/ Fail(c))
    BY <1>1, <2>5, QuietRow DEF Step, Call, Load, Handler, HandlerReturns, HandlerRaises,
       HandlerAborts, CheckPrevious, CheckComplete, FinishRejected, Reply, Retry
  <2> QED
    BY <2>1, <2>2, <2>3, <2>4, <2>5
<1>2. ASSUME NEW c \in Callers, Crash(c) PROVE UNCHANGED Leased!row
  BY <1>2, QuietRow DEF Crash
<1>3. CASE Tick
  BY <1>3, QuietRow DEF Tick
<1>4. CASE UNCHANGED vars
  BY <1>4, QuietRow DEF vars, store
<1> QED
  BY <1>1, <1>2, <1>3, <1>4 DEF Next

\* Tokens, leases, the clock and crashes implement the leased run that the query service
\* relies on.
THEOREM StoreImplementsLeasedRun == Spec => ImplementsLeasedRun
  BY InitIsLeased, NextIsLeased, Invariance, PTL DEF Spec, ImplementsLeasedRun, Leased!Spec
=============================================================================
