--------------------------- MODULE RuntimeMemoryProofs ---------------------------
(***************************************************************************)
(* The rules that are served were evaluated together, for any number of     *)
(* rows, rules and evaluations, while one operator acts at a time.          *)
(***************************************************************************)
EXTENDS RuntimeMemory, FiniteSetTheorems, WellFoundedInduction, TLAPS

(***************************************************************************)
(* The stable pool.                                                        *)
(***************************************************************************)
\* The intervals up to the elements of a set are ordered like these, and they are finite.
LEMMA LeastElement ==
  ASSUME NEW S \in SUBSET Nat, S # {}
  PROVE  \E n \in S : \A m \in S : n <= m
<1>1. PICK k \in S : TRUE
  OBVIOUS
<1> DEFINE T == {0..n : n \in S}
           R == StrictSubsetOrdering(Nat)
<1>2. T \subseteq FiniteSubsetsOf(Nat) /\ T # {}
  <2>1. \A n \in S : IsFiniteSet(0..n) /\ 0..n \in SUBSET Nat
    BY FS_Interval
  <2> QED
    BY <1>1, <2>1 DEF FiniteSubsetsOf
<1>3. IsWellFoundedOn(R, FiniteSubsetsOf(Nat))
  BY FS_StrictSubsetOrderingWellFounded
<1>4. PICK x \in T : \A y \in T : ~ (<<y, x>> \in R)
  BY <1>2, <1>3, WFMin
<1>5. PICK n \in S : x = 0..n
  BY <1>4
<1>6. ASSUME NEW m \in S, m < n PROVE FALSE
  <2>1. 0..m \in T /\ 0..m \subseteq 0..n /\ n \in 0..n /\ n \notin 0..m
    BY <1>6
  <2>2. <<0..m, x>> \in R
    BY <1>5, <2>1 DEF StrictSubsetOrdering
  <2> QED
    BY <1>4, <2>1, <2>2
<1> QED
  BY <1>6

\* Of the stable rows with one rule the first serves it.
LEMMA PoolHasTheStableRules ==
  ASSUME NEW m \in Ids, StateOf(m) = "stable"
  PROVE  items[m].rule \in RulesIn(StablePool)
<1> DEFINE S == {n \in Ids : StateOf(n) = "stable" /\ items[n].rule = items[m].rule}
<1>1. S \in SUBSET Nat /\ S # {}
  BY RuntimeMemoryAssumption
<1>2. PICK n \in S : \A k \in S : n <= k
  BY <1>1, LeastElement
<1>3. \A k \in Ids : k < n /\ StateOf(k) = "stable" => items[k].rule # items[n].rule
  BY <1>1, <1>2, RuntimeMemoryAssumption
<1>4. <<n, items[n].rule>> \in StablePool
  BY <1>2, <1>3 DEF StablePool
<1> QED
  BY <1>2, <1>4 DEF RulesIn

LEMMA RulesOfThePool ==
  RulesIn(StablePool) = {items[n].rule : n \in {k \in Ids : StateOf(k) = "stable"}}
<1>1. RulesIn(StablePool) \subseteq {items[n].rule : n \in {k \in Ids : StateOf(k) = "stable"}}
  BY DEF RulesIn, StablePool
<1>2. {items[n].rule : n \in {k \in Ids : StateOf(k) = "stable"}} \subseteq RulesIn(StablePool)
  BY PoolHasTheStableRules
<1> QED
  BY <1>1, <1>2

(***************************************************************************)
(* The inductive invariant.                                                *)
(***************************************************************************)
OneOperator == \A o, p \in Operators : o = p

JobOK(j) ==
    LET job == jobs[j]
    IN
    /\ job.alive => Active(j)
    /\ Active(j) => StateOf(job.memory) = "evaluating"
    /\ job.alive /\ job.phase \in Sides => job.engine \in Pins
    /\ job.alive /\ job.phase \in {"candidate", "judging", "storing"} =>
          job.artifact["baseline"] \in Pins
    /\ job.alive /\ job.phase \in {"judging", "storing"} => job.artifact["candidate"] \in Pins

JobsOK ==
    /\ \A j \in DOMAIN jobs : JobOK(j)
    /\ \A j, k \in DOMAIN jobs :
          Active(j) /\ Active(k) /\ jobs[j].memory = jobs[k].memory => j = k
    /\ \A m \in Ids : StateOf(m) = "evaluating" =>
          \E j \in DOMAIN jobs : Active(j) /\ jobs[j].memory = m

\* What an operator has checked stays so until it writes.
WriteOK(w) ==
    /\ w.op # "none" => w.memory \in Ids
    /\ w.op = "evaluate" => StateOf(w.memory) \in {"approved", "evaluation_failed"}
    /\ w.op = "activate" =>
          /\ StateOf(w.memory) = "evaluated" /\ run[w.memory].passed
          /\ RulesIn(run[w.memory].candidate.pool) = RulesIn(Snapshot(w.memory))
    /\ w.op = "rollback" => StateOf(w.memory) = "stable"

WritesOK == \A o \in Operators : WriteOK(pending[o])

Inv == TypeOK /\ JobsOK /\ WritesOK

\* What PoolWasEvaluated asks of a step.
Promotion ==
    \A m \in Ids :
        StateOf(m) # "stable" /\ items'[m].state = "stable" =>
            /\ run[m].passed
            /\ RulesIn(run[m].candidate.pool) = RulesIn(StablePool')

LEMMA InitInv == Init => Inv
<1> SUFFICES ASSUME Init PROVE Inv
  OBVIOUS
<1>1. TypeOK
  <2>1. jobs \in Seq(JobType) /\ Len(jobs) <= MaxJobs
    BY RuntimeMemoryAssumption DEF Init
  <2>2. \A m \in Ids : [state |-> "absent", rule |-> RuleOf[m]] \in ItemType
    BY RuntimeMemoryAssumption DEF ItemType, States
  <2> QED
    BY <2>1, <2>2, RuntimeMemoryAssumption DEF Init, TypeOK, NoWrite
<1>2. JobsOK
  BY DEF Init, JobsOK, StateOf
<1>3. WritesOK
  BY DEF Init, WritesOK, WriteOK, NoWrite
<1> QED
  BY <1>1, <1>2, <1>3 DEF Inv

LEMMA JobTyped ==
  ASSUME TypeOK
  PROVE  /\ \A j \in DOMAIN jobs : jobs[j] \in JobType
         /\ DOMAIN jobs = 1..Len(jobs) /\ Len(jobs) \in Nat
<1>1. jobs \in Seq(JobType)
  BY DEF TypeOK
<1> QED
  BY <1>1

(***************************************************************************)
(* What a step leaves alone.                                               *)
(***************************************************************************)
\* Rows that are served, or that an operator may have checked, stay as they are.
RowsKept ==
    \A m \in Ids :
        IF StateOf(m) \in {"absent", "candidate", "evaluating"}
        THEN items'[m].state # "stable"
        ELSE items'[m] = items[m] /\ run'[m] = run[m]

LEMMA PoolKept ==
  ASSUME RowsKept
  PROVE  /\ StablePool' = StablePool
         /\ \A m \in Ids : StateOf(m) = "evaluated" => Snapshot(m)' = Snapshot(m)
<1>1. \A m \in Ids : /\ StateOf(m)' = "stable" <=> StateOf(m) = "stable"
                     /\ StateOf(m) = "stable" => items'[m] = items[m]
  BY DEF RowsKept, StateOf
<1>2. StablePool' = StablePool
  BY <1>1 DEF StablePool
<1>3. \A m \in Ids : StateOf(m) = "evaluated" => items'[m] = items[m]
  BY DEF RowsKept
<1> QED
  BY <1>2, <1>3 DEF Snapshot

LEMMA WritesKept ==
  ASSUME Inv, RowsKept, UNCHANGED pending
  PROVE  WritesOK' /\ Promotion
<1>1. ASSUME NEW o \in Operators PROVE WriteOK(pending[o])'
  <2>1. WriteOK(pending[o])
    BY DEF Inv, WritesOK
  <2>2. \A m \in Ids : StateOf(m) \notin {"absent", "candidate", "evaluating"} =>
                          StateOf(m)' = StateOf(m) /\ run'[m] = run[m]
    BY DEF RowsKept, StateOf
  <2> QED
    BY <2>1, <2>2, PoolKept DEF WriteOK
<1>2. Promotion
  BY DEF RowsKept, Promotion, StateOf
<1> QED
  BY <1>1, <1>2 DEF WritesOK

\* The jobs stay, and the rows that are being evaluated.
LEMMA JobsKept ==
  ASSUME Inv, UNCHANGED jobs,
         \A m \in Ids : StateOf(m)' = "evaluating" <=> StateOf(m) = "evaluating"
  PROVE  JobsOK'
<1>1. \A j \in DOMAIN jobs : jobs[j].memory \in Ids
  BY JobTyped DEF Inv, JobType
<1> QED
  BY <1>1 DEF Inv, JobsOK, JobOK, Active, StateOf

LEMMA NewState ==
  ASSUME TypeOK, NEW m \in Ids, NEW s \in States, SetState(m, s)
  PROVE  /\ items' \in [Ids -> ItemType]
         /\ StateOf(m)' = s /\ items'[m].rule = items[m].rule
         /\ \A n \in Ids \ {m} : items'[n] = items[n]
  BY DEF TypeOK, ItemType, SetState, StateOf

(***************************************************************************)
(* Review.                                                                 *)
(***************************************************************************)
LEMMA AddStep ==
  ASSUME Inv, NEW m \in Ids, AddCandidate(m)
  PROVE  Inv' /\ Promotion
<1>1. /\ StateOf(m) = "absent" /\ SetState(m, "candidate")
      /\ UNCHANGED <<jobs, run, policy, inputs, pending, crashes>>
  BY DEF AddCandidate
<1>2. /\ items' \in [Ids -> ItemType] /\ StateOf(m)' = "candidate"
      /\ \A n \in Ids \ {m} : items'[n] = items[n]
  BY <1>1, NewState DEF Inv, States
<1>3. RowsKept /\ \A n \in Ids : StateOf(n)' = "evaluating" <=> StateOf(n) = "evaluating"
  BY <1>1, <1>2 DEF RowsKept, StateOf
<1> QED
  BY <1>1, <1>2, <1>3, JobsKept, WritesKept DEF Inv, TypeOK

LEMMA RejectStep ==
  ASSUME Inv, NEW o \in Operators, NEW m \in Ids, Reject(o, m)
  PROVE  Inv' /\ Promotion
<1>1. /\ StateOf(m) = "candidate" /\ SetState(m, "rejected")
      /\ UNCHANGED <<jobs, run, policy, inputs, pending, crashes>>
  BY DEF Reject
<1>2. /\ items' \in [Ids -> ItemType] /\ StateOf(m)' = "rejected"
      /\ \A n \in Ids \ {m} : items'[n] = items[n]
  BY <1>1, NewState DEF Inv, States
<1>3. RowsKept /\ \A n \in Ids : StateOf(n)' = "evaluating" <=> StateOf(n) = "evaluating"
  BY <1>1, <1>2 DEF RowsKept, StateOf
<1> QED
  BY <1>1, <1>2, <1>3, JobsKept, WritesKept DEF Inv, TypeOK

\* The policy, the indexes and nothing else.
LEMMA MoveStep ==
  ASSUME Inv, PolicyMoves \/ InputsMove \/ UNCHANGED vars
  PROVE  Inv' /\ Promotion
<1>1. /\ UNCHANGED <<items, jobs, run, pending, crashes>>
      /\ policy' \in 0..MaxMoves /\ inputs' \in 0..MaxMoves
  BY RuntimeMemoryAssumption DEF Inv, TypeOK, PolicyMoves, InputsMove, vars
<1>2. RowsKept /\ \A n \in Ids : StateOf(n)' = "evaluating" <=> StateOf(n) = "evaluating"
  <2>1. \A n \in Ids : items'[n] = items[n] /\ run'[n] = run[n]
    BY <1>1
  <2> QED
    BY <2>1 DEF RowsKept, StateOf
<1> QED
  BY <1>1, <1>2, JobsKept, WritesKept DEF Inv, TypeOK

(***************************************************************************)
(* What an operator checks, and then writes.                               *)
(***************************************************************************)
WriteType ==
    [op : {"none", "approve", "evaluate", "activate", "rollback"},
     memory : Ids \cup {NoId}, baseline : Pins \cup {NoPins}]

LEMMA PinsTyped ==
  ASSUME TypeOK
  PROVE  /\ Pinned(StablePool) \in Pins
         /\ \A m \in Ids : Pinned(Snapshot(m)) \in Pins
<1>1. StablePool \in SUBSET (Ids \X Rules)
  BY DEF TypeOK, ItemType, StablePool
<1>2. \A m \in Ids : Snapshot(m) \in SUBSET (Ids \X Rules)
  BY <1>1 DEF TypeOK, ItemType, Snapshot
<1> QED
  BY <1>1, <1>2 DEF TypeOK, Pinned, Pins

\* The write of the one operator.
LEMMA OneWrite ==
  ASSUME OneOperator, TypeOK, NEW o \in Operators, NEW w \in WriteType,
         pending' = [pending EXCEPT ![o] = w], WriteOK(w)'
  PROVE  pending' \in [Operators -> WriteType] /\ WritesOK'
<1>1. pending \in [Operators -> WriteType]
  BY DEF TypeOK, WriteType
<1>2. pending' \in [Operators -> WriteType] /\ \A p \in Operators : pending'[p] = w
  BY <1>1 DEF OneOperator
<1> QED
  BY <1>2 DEF WritesOK, WriteOK

LEMMA NoWriteOK == NoWrite \in WriteType /\ WriteOK(NoWrite)'
  BY DEF NoWrite, WriteType, WriteOK

\* A check changes nothing else.
LEMMA CheckStep ==
  ASSUME OneOperator, Inv, NEW o \in Operators, NEW w \in WriteType, WriteOK(w),
         pending' = [pending EXCEPT ![o] = w],
         UNCHANGED <<items, jobs, run, policy, inputs, crashes>>
  PROVE  Inv' /\ Promotion
<1>1. WriteOK(w)'
  <2>1. /\ \A m \in Ids : StateOf(m)' = StateOf(m)
        /\ StablePool' = StablePool
    BY DEF StateOf, StablePool
  <2>2. \A m \in Ids : Snapshot(m)' = Snapshot(m)
    BY <2>1 DEF Snapshot
  <2>3. w.memory \in Ids \/ w.op = "none"
    BY DEF WriteOK
  <2> QED
    BY <2>1, <2>2, <2>3 DEF WriteOK
<1>2. pending' \in [Operators -> WriteType] /\ WritesOK'
  BY <1>1, OneWrite DEF Inv
<1>3. JobsOK'
  BY JobsKept DEF StateOf
<1>4. Promotion
  BY DEF Promotion, StateOf
<1>5. TypeOK'
  BY <1>2 DEF Inv, TypeOK, WriteType
<1> QED
  BY <1>2, <1>3, <1>4, <1>5 DEF Inv

LEMMA OperatorChecks ==
  ASSUME OneOperator, Inv, NEW o \in Operators, NEW m \in Ids,
         \/ \E base \in {NoPins, CurrentPins} : CheckEvaluation(o, m, base)
         \/ CheckActivation(o, m)
         \/ CheckRollback(o, m)
  PROVE  Inv' /\ Promotion
<1>1. UNCHANGED <<items, jobs, run, policy, inputs, crashes>>
  BY DEF CheckEvaluation, CheckActivation, CheckRollback
<1>2. PICK w : /\ w \in WriteType /\ WriteOK(w)
               /\ pending' = [pending EXCEPT ![o] = w]
  <2>1. ASSUME NEW base \in {NoPins, CurrentPins}, CheckEvaluation(o, m, base)
        PROVE  \E w \in WriteType : WriteOK(w) /\ pending' = [pending EXCEPT ![o] = w]
    <3>1. PICK w : /\ w = [op |-> "evaluate", memory |-> m, baseline |-> base]
                   /\ pending' = [pending EXCEPT ![o] = w]
      BY <2>1 DEF CheckEvaluation, Write
    <3>2. base \in Pins \cup {NoPins}
      BY PinsTyped DEF Inv, CurrentPins
    <3>3. w \in WriteType /\ w.op = "evaluate" /\ w.memory = m
      BY <3>1, <3>2 DEF WriteType
    <3> QED
      BY <2>1, <3>1, <3>3 DEF CheckEvaluation, WriteOK
  <2>2. ASSUME CheckActivation(o, m)
        PROVE  \E w \in WriteType : WriteOK(w) /\ pending' = [pending EXCEPT ![o] = w]
    <3>1. PICK w : /\ w = [op |-> "activate", memory |-> m, baseline |-> NoPins]
                   /\ pending' = [pending EXCEPT ![o] = w]
      BY <2>2 DEF CheckActivation, Write
    <3>2. w \in WriteType /\ w.op = "activate" /\ w.memory = m
      BY <3>1 DEF WriteType
    <3>3. run[m].candidate.pool = Snapshot(m)
      BY <2>2 DEF CheckActivation, Activatable, Pinned
    <3> QED
      BY <2>2, <3>1, <3>2, <3>3 DEF CheckActivation, Activatable, WriteOK
  <2>3. ASSUME CheckRollback(o, m)
        PROVE  \E w \in WriteType : WriteOK(w) /\ pending' = [pending EXCEPT ![o] = w]
    <3>1. PICK w : /\ w = [op |-> "rollback", memory |-> m, baseline |-> NoPins]
                   /\ pending' = [pending EXCEPT ![o] = w]
      BY <2>3 DEF CheckRollback, Write
    <3>2. w \in WriteType /\ w.op = "rollback" /\ w.memory = m
      BY <3>1 DEF WriteType
    <3> QED
      BY <2>3, <3>1, <3>2 DEF CheckRollback, WriteOK
  <2> QED
    BY <2>1, <2>2, <2>3
<1> QED
  BY <1>1, <1>2, CheckStep

LEMMA EditStep ==
  ASSUME OneOperator, Inv, NEW o \in Operators, NEW m \in Ids, NEW r \in Rules, Edit(o, m, r)
  PROVE  Inv' /\ Promotion
<1>1. PICK w : /\ w = [op |-> "approve", memory |-> m, baseline |-> NoPins]
               /\ pending' = [pending EXCEPT ![o] = w]
               /\ StateOf(m) = "candidate" /\ items' = [items EXCEPT ![m].rule = r]
               /\ UNCHANGED <<jobs, run, policy, inputs, crashes>>
  BY DEF Edit, Write
<1>2. /\ items' \in [Ids -> ItemType] /\ StateOf(m)' = "candidate"
      /\ \A n \in Ids \ {m} : items'[n] = items[n]
  BY <1>1 DEF Inv, TypeOK, ItemType, StateOf
<1>3. RowsKept /\ \A n \in Ids : StateOf(n)' = "evaluating" <=> StateOf(n) = "evaluating"
  BY <1>1, <1>2 DEF RowsKept, StateOf
<1>4. w \in WriteType /\ WriteOK(w)'
  BY <1>1 DEF WriteType, WriteOK
<1>5. pending' \in [Operators -> WriteType] /\ WritesOK'
  BY <1>1, <1>4, OneWrite DEF Inv
<1>6. Promotion
  BY <1>3 DEF Promotion, RowsKept, StateOf
<1> QED
  BY <1>1, <1>2, <1>3, <1>5, <1>6, JobsKept DEF Inv, TypeOK, WriteType

LEMMA ApproveStep ==
  ASSUME OneOperator, Inv, NEW o \in Operators, Approve(o)
  PROVE  Inv' /\ Promotion
<1>1. PICK m : m = pending[o].memory
  OBVIOUS
<1>2. /\ pending[o].op = "approve" /\ pending' = [pending EXCEPT ![o] = NoWrite]
      /\ UNCHANGED <<jobs, run, policy, inputs, crashes>>
  BY <1>1 DEF Approve, Done
<1>3. m \in Ids
  BY <1>1, <1>2 DEF Inv, WritesOK, WriteOK
<1>4. /\ items' \in [Ids -> ItemType]
      /\ StateOf(m)' = StateOf(m) \/ (StateOf(m) = "candidate" /\ StateOf(m)' = "approved")
      /\ \A n \in Ids : items'[n] # items[n] => n = m /\ StateOf(m) = "candidate"
  <2>1. CASE StateOf(m) = "candidate"
    <3>1. SetState(m, "approved")
      BY <1>1, <2>1 DEF Approve
    <3> QED
      BY <1>3, <2>1, <3>1, NewState DEF Inv, States
  <2>2. CASE StateOf(m) # "candidate"
    <3>1. UNCHANGED items
      BY <1>1, <2>2 DEF Approve
    <3> QED
      BY <3>1 DEF Inv, TypeOK, StateOf
  <2> QED
    BY <2>1, <2>2
<1>5. RowsKept /\ \A n \in Ids : StateOf(n)' = "evaluating" <=> StateOf(n) = "evaluating"
  BY <1>1, <1>2, <1>3, <1>4 DEF RowsKept, StateOf
<1>6. pending' \in [Operators -> WriteType] /\ WritesOK'
  BY <1>1, <1>2, NoWriteOK, OneWrite DEF Inv
<1>7. Promotion
  BY <1>5 DEF Promotion, RowsKept, StateOf
<1> QED
  BY <1>1, <1>2, <1>4, <1>5, <1>6, <1>7, JobsKept DEF Inv, TypeOK, WriteType

LEMMA RollbackStep ==
  ASSUME OneOperator, Inv, NEW o \in Operators, Rollback(o)
  PROVE  Inv' /\ Promotion
<1>1. PICK m : m = pending[o].memory
  OBVIOUS
<1>2. /\ pending[o].op = "rollback" /\ pending' = [pending EXCEPT ![o] = NoWrite]
      /\ SetState(m, "retired") /\ UNCHANGED <<jobs, run, policy, inputs, crashes>>
  BY <1>1 DEF Rollback, Done
<1>3. m \in Ids /\ StateOf(m) = "stable"
  BY <1>1, <1>2 DEF Inv, WritesOK, WriteOK
<1>4. /\ items' \in [Ids -> ItemType] /\ StateOf(m)' = "retired"
      /\ \A n \in Ids \ {m} : items'[n] = items[n]
  BY <1>1, <1>2, <1>3, NewState DEF Inv, States
<1>5. pending' \in [Operators -> WriteType] /\ WritesOK'
  BY <1>1, <1>2, NoWriteOK, OneWrite DEF Inv
<1>6. Promotion /\ \A n \in Ids : StateOf(n)' = "evaluating" <=> StateOf(n) = "evaluating"
  BY <1>3, <1>4 DEF Promotion, StateOf
<1> QED
  BY <1>1, <1>2, <1>4, <1>5, <1>6, JobsKept DEF Inv, TypeOK, WriteType

\* The row joins the stable ones, which are those it was evaluated with.
LEMMA ActivateStep ==
  ASSUME OneOperator, Inv, NEW o \in Operators, Activate(o)
  PROVE  Inv' /\ Promotion
<1>1. PICK m : m = pending[o].memory
  OBVIOUS
<1>2. /\ pending[o].op = "activate" /\ pending' = [pending EXCEPT ![o] = NoWrite]
      /\ SetState(m, "stable") /\ UNCHANGED <<jobs, run, policy, inputs, crashes>>
  BY <1>1 DEF Activate, Done
<1>3. /\ m \in Ids /\ StateOf(m) = "evaluated" /\ run[m].passed
      /\ RulesIn(run[m].candidate.pool) = RulesIn(Snapshot(m))
  BY <1>1, <1>2 DEF Inv, WritesOK, WriteOK
<1>4. /\ items' \in [Ids -> ItemType] /\ StateOf(m)' = "stable"
      /\ items'[m].rule = items[m].rule
      /\ \A n \in Ids \ {m} : items'[n] = items[n]
  BY <1>1, <1>2, <1>3, NewState DEF Inv, States
<1>5. pending' \in [Operators -> WriteType] /\ WritesOK'
  BY <1>1, <1>2, NoWriteOK, OneWrite DEF Inv
<1>6. \A n \in Ids : StateOf(n)' = "evaluating" <=> StateOf(n) = "evaluating"
  BY <1>3, <1>4 DEF StateOf
<1>7. RulesIn(StablePool') = RulesIn(Snapshot(m))
  <2>1. (RulesIn(StablePool) = {items[n].rule : n \in {k \in Ids : StateOf(k) = "stable"}})'
    BY RulesOfThePool, PTL
  <2>2. RulesIn(Snapshot(m)) = RulesIn(StablePool) \cup {items[m].rule}
    <3>1. <<m, items[m].rule>>[2] = items[m].rule
      OBVIOUS
    <3>2. Snapshot(m) = StablePool \cup {<<m, items[m].rule>>}
      BY DEF Snapshot
    <3>3. \A P : RulesIn(P \cup {<<m, items[m].rule>>}) = RulesIn(P) \cup {items[m].rule}
      BY <3>1 DEF RulesIn
    <3> QED
      BY <3>2, <3>3
  <2>3. \A n \in Ids : StateOf(n)' = "stable" <=> n = m \/ StateOf(n) = "stable"
    BY <1>4 DEF StateOf
  <2>4. \A n \in Ids : items'[n].rule = items[n].rule
    BY <1>4
  <2>5. RulesIn(StablePool)' =
          {items[n].rule : n \in {k \in Ids : k = m \/ StateOf(k) = "stable"}}
    BY <2>1, <2>3, <2>4
  <2> QED
    BY <1>3, <2>2, <2>5, RulesOfThePool
<1>8. Promotion
  BY <1>3, <1>4, <1>7 DEF Promotion, StateOf
<1> QED
  BY <1>1, <1>2, <1>4, <1>5, <1>6, <1>8, JobsKept DEF Inv, TypeOK, WriteType

(***************************************************************************)
(* The worker.                                                             *)
(***************************************************************************)
\* The state of a row that is being evaluated, and a job, change together.
LEMMA JobStep ==
  ASSUME Inv, NEW j \in DOMAIN jobs, NEW job \in JobType, job.memory = jobs[j].memory,
         SetJob(j, job),
         job.alive => job.status \in {"queued", "running"},
         job.alive /\ job.phase \in Sides => job.engine \in Pins,
         job.alive /\ job.phase \in {"candidate", "judging", "storing"} =>
            job.artifact["baseline"] \in Pins,
         job.alive /\ job.phase \in {"judging", "storing"} =>
            job.artifact["candidate"] \in Pins,
         UNCHANGED <<pending, policy, inputs>>, crashes' \in 0..MaxCrashes,
         run' \in [Ids -> RunType \cup {NoRun}],
         \A m \in Ids : run'[m] # run[m] => m = job.memory /\ StateOf(m) = "evaluating",
         items' \in [Ids -> ItemType],
         \A m \in Ids : items'[m] # items[m] => m = job.memory /\ StateOf(m) = "evaluating",
         StateOf(job.memory)' # "stable" \/ UNCHANGED items,
         Active(j) \/ UNCHANGED items,
         Active(j)' => Active(j) /\ StateOf(job.memory)' = "evaluating",
         Active(j) /\ ~Active(j)' => StateOf(job.memory)' # "evaluating"
  PROVE  Inv' /\ Promotion
<1>1. /\ jobs' \in Seq(JobType) /\ Len(jobs') <= MaxJobs /\ DOMAIN jobs' = DOMAIN jobs
      /\ jobs'[j] = job /\ \A k \in DOMAIN jobs \ {j} : jobs'[k] = jobs[k]
  BY DEF Inv, TypeOK, SetJob
<1>2. RowsKept
  BY DEF RowsKept, StateOf
<1>3. WritesOK' /\ Promotion
  BY <1>2, WritesKept
<1>4. JobsOK'
  <2>1. \A k \in DOMAIN jobs : jobs[k].memory \in Ids
    BY JobTyped DEF Inv, JobType
  <2>2. \A m \in Ids : m # job.memory => StateOf(m)' = StateOf(m)
    BY DEF StateOf
  <2>3. \A k \in DOMAIN jobs \ {j} : Active(k)' <=> Active(k)
    BY <1>1 DEF Active
  <2>4. Active(j) => StateOf(job.memory) = "evaluating"
    BY DEF Inv, JobsOK, JobOK
  <2>5. ASSUME NEW k \in DOMAIN jobs', NEW l \in DOMAIN jobs', Active(k)', Active(l)',
               jobs'[k].memory = jobs'[l].memory
        PROVE  k = l
    BY <1>1, <2>3, <2>5 DEF Inv, JobsOK
  <2>6. ASSUME NEW k \in DOMAIN jobs' PROVE JobOK(k)'
    <3>1. CASE k = j
      <4>1. jobs'[k] = job
        BY <1>1, <3>1
      <4> QED
        BY <3>1, <4>1 DEF JobOK, Active
    <3>2. CASE k # j
      <4>1. jobs'[k] = jobs[k] /\ JobOK(k) /\ Active(k)' = Active(k)
        BY <1>1, <3>2 DEF Inv, JobsOK, Active
      <4>2. Active(k) => StateOf(jobs[k].memory)' = "evaluating"
        BY <1>1, <2>1, <2>2, <3>2, <4>1 DEF Inv, JobsOK, JobOK, StateOf
      <4> QED
        BY <4>1, <4>2 DEF JobOK
    <3> QED
      BY <3>1, <3>2
  <2>7. ASSUME NEW m \in Ids, StateOf(m)' = "evaluating"
        PROVE  \E k \in DOMAIN jobs' : Active(k)' /\ jobs'[k].memory = m
    <3>1. StateOf(m) = "evaluating"
      BY <2>2, <2>7 DEF StateOf
    <3>2. PICK k \in DOMAIN jobs : Active(k) /\ jobs[k].memory = m
      BY <3>1 DEF Inv, JobsOK
    <3> QED
      BY <1>1, <2>3, <2>7, <3>2
  <2> QED
    BY <2>5, <2>6, <2>7 DEF JobsOK
<1> QED
  BY <1>1, <1>3, <1>4 DEF Inv, TypeOK

\* What is known of a job whose worker lives.
LEMMA WorkerJob ==
  ASSUME Inv, NEW j \in DOMAIN jobs, Works(j)
  PROVE  /\ jobs[j] \in JobType /\ jobs[j].memory \in Ids
         /\ Active(j) /\ StateOf(jobs[j].memory) = "evaluating"
         /\ jobs[j].phase \in Sides => jobs[j].engine \in Pins
         /\ jobs[j].phase \in {"candidate", "judging", "storing"} =>
               jobs[j].artifact["baseline"] \in Pins
         /\ jobs[j].phase \in {"judging", "storing"} => jobs[j].artifact["candidate"] \in Pins
<1>1. jobs[j] \in JobType
  BY JobTyped DEF Inv
<1>2. jobs[j].memory \in Ids
  BY <1>1 DEF JobType
<1> QED
  BY <1>1, <1>2 DEF Inv, JobsOK, JobOK, Works

LEMMA FailStep ==
  ASSUME Inv, NEW j \in DOMAIN jobs, Works(j), FailJob(j),
         UNCHANGED <<run, policy, inputs, pending, crashes>>
  PROVE  Inv' /\ Promotion
<1>1. PICK job :
        /\ job = [jobs[j] EXCEPT !.status = "failed", !.alive = FALSE, !.engine = NoPins]
        /\ SetJob(j, job)
  BY DEF FailJob
<1>2. PICK m : m = jobs[j].memory /\ m \in Ids /\ StateOf(m) = "evaluating"
  BY WorkerJob
<1>3. /\ job \in JobType /\ job.memory = m /\ job.status = "failed" /\ ~job.alive
  BY <1>1, <1>2, WorkerJob DEF JobType
<1>4. /\ items' \in [Ids -> ItemType] /\ StateOf(m)' = "evaluation_failed"
      /\ \A n \in Ids \ {m} : items'[n] = items[n]
  <2>1. SetState(m, "evaluation_failed")
    BY <1>2 DEF FailJob
  <2> QED
    BY <1>2, <2>1, NewState DEF Inv, States
<1>5. Active(j) /\ ~Active(j)'
  <2>1. jobs'[j] = job
    BY <1>1 DEF SetJob
  <2> QED
    BY <1>3, <2>1, WorkerJob DEF Active
<1>6. /\ crashes' \in 0..MaxCrashes /\ run' \in [Ids -> RunType \cup {NoRun}]
      /\ \A n \in Ids : run'[n] = run[n]
  BY DEF Inv, TypeOK
<1> QED
  BY <1>1, <1>2, <1>3, <1>4, <1>5, <1>6, JobStep

\* The worker goes on; no row changes.
LEMMA WorkerStep ==
  ASSUME Inv, NEW j \in DOMAIN jobs, NEW job \in JobType, job.memory = jobs[j].memory,
         SetJob(j, job), Active(j), job.status \in {"queued", "running"},
         job.alive /\ job.phase \in Sides => job.engine \in Pins,
         job.alive /\ job.phase \in {"candidate", "judging", "storing"} =>
            job.artifact["baseline"] \in Pins,
         job.alive /\ job.phase \in {"judging", "storing"} =>
            job.artifact["candidate"] \in Pins,
         UNCHANGED <<items, run, policy, inputs, pending>>, crashes' \in 0..MaxCrashes
  PROVE  Inv' /\ Promotion
<1>1. jobs'[j] = job
  BY DEF SetJob
<1>2. Active(j)' /\ StateOf(job.memory) = "evaluating"
  BY <1>1 DEF Active, Inv, JobsOK, JobOK
<1>3. /\ items' \in [Ids -> ItemType] /\ run' \in [Ids -> RunType \cup {NoRun}]
      /\ \A n \in Ids : run'[n] = run[n] /\ items'[n] = items[n] /\ StateOf(n)' = StateOf(n)
  BY DEF Inv, TypeOK, StateOf
<1>4. StateOf(job.memory)' = "evaluating"
  BY <1>2 DEF StateOf
<1> QED
  BY <1>1, <1>2, <1>3, <1>4, JobStep

LEMMA BeginSideStep ==
  ASSUME Inv, NEW j \in DOMAIN jobs, BeginSide(j)
  PROVE  Inv' /\ Promotion
<1>1. /\ Works(j) /\ jobs[j].phase = "preparing"
      /\ UNCHANGED <<run, policy, inputs, pending, crashes>>
  BY DEF BeginSide
<1>2. CASE FailJob(j)
  BY <1>1, <1>2, FailStep
<1>3. CASE ~FailJob(j)
  <2>1. PICK side, pins, job :
          /\ side \in Sides /\ pins \in Pins /\ side = NextSide(j)
          /\ job = [jobs[j] EXCEPT !.status = "running", !.phase = side,
                       !.begun = @ \cup {side}, !.engine = pins]
          /\ SetJob(j, job) /\ UNCHANGED items
    <3>1. NextSide(j) \in Sides
      BY DEF NextSide, Sides
    <3>2. jobs[j].memory \in Ids
      BY <1>1, WorkerJob
    <3>3. /\ Pinned(StablePool) \in Pins /\ Pinned(Snapshot(jobs[j].memory)) \in Pins
      BY <3>2, PinsTyped DEF Inv
    <3> QED
      BY <1>3, <3>1, <3>3 DEF BeginSide
  <2>2. /\ job \in JobType /\ job.memory = jobs[j].memory /\ job.status = "running"
        /\ job.phase = side /\ job.engine = pins /\ job.artifact = jobs[j].artifact
    BY <1>1, <2>1, WorkerJob DEF JobType, Sides
  <2>3. side = "candidate" => job.artifact["baseline"] \in Pins
    <3>1. jobs[j].artifact \in [Sides -> Pins \cup {NoPins}]
      BY <1>1, WorkerJob DEF JobType
    <3> QED
      BY <2>1, <2>2, <3>1 DEF NextSide, Sides
  <2>4. Active(j) /\ crashes' \in 0..MaxCrashes
    BY <1>1, WorkerJob DEF Inv, TypeOK
  <2> QED
    BY <1>1, <2>1, <2>2, <2>3, <2>4, WorkerStep DEF Sides
<1> QED
  BY <1>2, <1>3

LEMMA EndSideStep ==
  ASSUME Inv, NEW j \in DOMAIN jobs, EndSide(j)
  PROVE  Inv' /\ Promotion
<1>1. Works(j) /\ UNCHANGED <<items, run, policy, inputs, pending, crashes>>
  BY DEF EndSide
<1>2. PICK side, next, job :
        /\ side \in Sides /\ next \in {"preparing", "judging"}
        /\ side = jobs[j].phase /\ (next = "judging" <=> side = "candidate")
        /\ job = [jobs[j] EXCEPT !.artifact[side] = jobs[j].engine, !.engine = NoPins,
                     !.phase = next]
        /\ SetJob(j, job)
  BY DEF EndSide, Sides
<1>3. jobs[j] \in JobType /\ jobs[j].engine \in Pins
  BY <1>1, <1>2, WorkerJob
<1>4. /\ job \in JobType /\ job.memory = jobs[j].memory /\ job.status = jobs[j].status
      /\ job.phase = next /\ job.artifact = [jobs[j].artifact EXCEPT ![side] = jobs[j].engine]
  BY <1>2, <1>3 DEF JobType
<1>5. side = "candidate" =>
        job.artifact["baseline"] \in Pins /\ job.artifact["candidate"] \in Pins
  <2>1. jobs[j].artifact \in [Sides -> Pins \cup {NoPins}]
    BY <1>3 DEF JobType
  <2>2. job.artifact[side] = jobs[j].engine
    BY <1>2, <1>4, <2>1
  <2>3. side = "candidate" => /\ jobs[j].artifact["baseline"] \in Pins
                              /\ job.artifact["baseline"] = jobs[j].artifact["baseline"]
    <3>1. side = "candidate" => jobs[j].artifact["baseline"] \in Pins
      BY <1>1, <1>2, WorkerJob
    <3> QED
      BY <1>4, <2>1, <3>1 DEF Sides
  <2> QED
    BY <1>3, <2>2, <2>3
<1>6. Active(j) /\ crashes' \in 0..MaxCrashes /\ job.status \in {"queued", "running"}
  BY <1>1, <1>4, WorkerJob DEF Inv, TypeOK, Active
<1> QED
  BY <1>1, <1>2, <1>4, <1>5, <1>6, WorkerStep DEF Sides

LEMMA JudgeStep ==
  ASSUME Inv, NEW j \in DOMAIN jobs, Judge(j)
  PROVE  Inv' /\ Promotion
<1>1. /\ Works(j) /\ jobs[j].phase = "judging"
      /\ UNCHANGED <<run, policy, inputs, pending, crashes>>
  BY DEF Judge
<1>2. CASE FailJob(j)
  BY <1>1, <1>2, FailStep
<1>3. CASE ~FailJob(j)
  <2>1. PICK verdict \in BOOLEAN :
          /\ SetJob(j, [jobs[j] EXCEPT !.phase = "storing", !.verdict = verdict])
          /\ UNCHANGED items
    BY <1>3 DEF Judge
  <2>2. PICK job : job = [jobs[j] EXCEPT !.phase = "storing", !.verdict = verdict]
    OBVIOUS
  <2>3. SetJob(j, job) /\ UNCHANGED items
    BY <2>1, <2>2
  <2>4. /\ job \in JobType /\ job.memory = jobs[j].memory /\ job.status = jobs[j].status
        /\ job.phase = "storing" /\ job.artifact = jobs[j].artifact
    <3>1. jobs[j] \in JobType
      BY <1>1, WorkerJob
    <3> QED
      BY <2>1, <2>2, <3>1 DEF JobType
  <2>5. Active(j) /\ crashes' \in 0..MaxCrashes /\ job.status \in {"queued", "running"}
    BY <1>1, <2>4, WorkerJob DEF Inv, TypeOK, Active
  <2> QED
    BY <1>1, <2>3, <2>4, <2>5, WorkerStep, WorkerJob DEF Sides
<1> QED
  BY <1>2, <1>3

LEMMA StoreStep ==
  ASSUME Inv, NEW j \in DOMAIN jobs, Store(j)
  PROVE  Inv' /\ Promotion
<1>1. /\ Works(j) /\ jobs[j].phase = "storing"
      /\ UNCHANGED <<policy, inputs, pending, crashes>>
  BY DEF Store
<1>2. PICK m, job, r :
        /\ m = jobs[j].memory
        /\ job = [jobs[j] EXCEPT !.phase = "complete", !.alive = FALSE,
                     !.status = IF jobs[j].verdict THEN "passed" ELSE "failed"]
        /\ r = [passed |-> jobs[j].verdict, baseline |-> jobs[j].artifact["baseline"],
                candidate |-> jobs[j].artifact["candidate"]]
        /\ SetJob(j, job) /\ SetState(m, Verdict(jobs[j].verdict))
        /\ run' = [run EXCEPT ![m] = r]
  BY DEF Store
<1>3. m \in Ids /\ StateOf(m) = "evaluating" /\ Active(j)
  BY <1>1, <1>2, WorkerJob
<1>4. /\ job \in JobType /\ job.memory = m /\ job.status \in {"passed", "failed"}
      /\ ~job.alive /\ job.phase = "complete" /\ r \in RunType
  BY <1>1, <1>2, WorkerJob DEF JobType, RunType
<1>5. /\ items' \in [Ids -> ItemType] /\ StateOf(m)' \in {"evaluated", "evaluation_failed"}
      /\ \A n \in Ids \ {m} : items'[n] = items[n]
  <2>1. PICK s \in {"evaluated", "evaluation_failed"} : SetState(m, s)
    BY <1>2 DEF Verdict
  <2> QED
    BY <1>3, <2>1, NewState DEF Inv, States
<1>6. /\ run' \in [Ids -> RunType \cup {NoRun}] /\ crashes' \in 0..MaxCrashes
      /\ \A n \in Ids \ {m} : run'[n] = run[n]
  <2>1. run \in [Ids -> RunType \cup {NoRun}] /\ crashes' \in 0..MaxCrashes
    BY <1>1 DEF Inv, TypeOK
  <2>2. run' = [run EXCEPT ![m] = r] /\ r \in RunType
    BY <1>2, <1>4
  <2> QED
    BY <2>1, <2>2
<1>7. ~Active(j)'
  BY <1>2, <1>4 DEF Active, SetJob
<1>8. /\ \A n \in Ids : run'[n] # run[n] => n = job.memory /\ StateOf(n) = "evaluating"
      /\ \A n \in Ids : items'[n] # items[n] => n = job.memory /\ StateOf(n) = "evaluating"
      /\ StateOf(job.memory)' # "stable" /\ StateOf(job.memory)' # "evaluating"
  BY <1>3, <1>4, <1>5, <1>6
<1>9. job.memory = jobs[j].memory
  BY <1>2, <1>4
<1> QED
  BY <1>1, <1>2, <1>3, <1>4, <1>5, <1>6, <1>7, <1>8, <1>9, JobStep

LEMMA CrashStep ==
  ASSUME Inv, NEW j \in DOMAIN jobs, Crash(j)
  PROVE  Inv' /\ Promotion
<1>1. /\ Works(j) /\ UNCHANGED <<items, run, policy, inputs, pending>>
      /\ crashes' \in 0..MaxCrashes
  BY RuntimeMemoryAssumption DEF Crash, Inv, TypeOK
<1>2. PICK job : /\ job = [jobs[j] EXCEPT !.alive = FALSE, !.engine = NoPins, !.verdict = FALSE]
                 /\ SetJob(j, job)
  BY DEF Crash
<1>3. /\ job \in JobType /\ job.memory = jobs[j].memory /\ job.status = jobs[j].status
      /\ ~job.alive
  BY <1>1, <1>2, WorkerJob DEF JobType
<1>4. Active(j) /\ job.status \in {"queued", "running"}
  BY <1>1, <1>3, WorkerJob DEF Active
<1> QED
  BY <1>1, <1>2, <1>3, <1>4, WorkerStep

LEMMA RelaunchStep ==
  ASSUME Inv, NEW j \in DOMAIN jobs, Relaunch(j)
  PROVE  Inv' /\ Promotion
<1>1. /\ Active(j) /\ UNCHANGED <<items, run, policy, inputs, pending>>
      /\ crashes' \in 0..MaxCrashes
  BY DEF Relaunch, Inv, TypeOK
<1>2. PICK job :
        /\ job = [jobs[j] EXCEPT !.alive = TRUE, !.status = "running", !.phase = "preparing"]
        /\ SetJob(j, job)
  BY DEF Relaunch
<1>3. /\ job \in JobType /\ job.memory = jobs[j].memory /\ job.status = "running"
      /\ job.phase = "preparing"
  <2>1. jobs[j] \in JobType
    BY JobTyped DEF Inv
  <2> QED
    BY <1>2, <2>1 DEF JobType
<1> QED
  BY <1>1, <1>2, <1>3, WorkerStep DEF Sides

\* A job and the state of its row are new together.
LEMMA StartEvaluationStep ==
  ASSUME OneOperator, Inv, NEW o \in Operators, StartEvaluation(o)
  PROVE  Inv' /\ Promotion
<1>1. PICK m, job :
        /\ m = pending[o].memory /\ job = NewJob(m, pending[o].baseline)
        /\ pending[o].op = "evaluate" /\ Len(jobs) < MaxJobs
        /\ jobs' = Append(jobs, job) /\ SetState(m, "evaluating")
        /\ pending' = [pending EXCEPT ![o] = NoWrite]
        /\ UNCHANGED <<run, policy, inputs, crashes>>
  BY DEF StartEvaluation, Done
<1>2. m \in Ids /\ StateOf(m) \in {"approved", "evaluation_failed"}
  BY <1>1 DEF Inv, WritesOK, WriteOK
<1>3. /\ job \in JobType /\ job.memory = m /\ job.status = "queued"
      /\ job.phase = "preparing"
  <2>1. pending[o].baseline \in Pins \cup {NoPins}
    BY DEF Inv, TypeOK
  <2> QED
    BY <1>1, <1>2, <2>1 DEF NewJob, JobType
<1>4. /\ items' \in [Ids -> ItemType] /\ StateOf(m)' = "evaluating"
      /\ \A n \in Ids \ {m} : items'[n] = items[n]
  BY <1>1, <1>2, NewState DEF Inv, States
<1>5. pending' \in [Operators -> WriteType] /\ WritesOK'
  BY <1>1, NoWriteOK, OneWrite DEF Inv
<1>6. Promotion
  BY <1>2, <1>4 DEF Promotion, StateOf
<1>7. PICK new :
      /\ jobs' \in Seq(JobType) /\ Len(jobs') <= MaxJobs
      /\ DOMAIN jobs' = DOMAIN jobs \cup {new} /\ new \notin DOMAIN jobs
      /\ jobs'[new] = job /\ \A k \in DOMAIN jobs : jobs'[k] = jobs[k]
  <2>1. jobs \in Seq(JobType) /\ MaxJobs \in Nat /\ Len(jobs) \in Nat
    BY JobTyped, RuntimeMemoryAssumption DEF Inv, TypeOK
  <2>2. /\ jobs' \in Seq(JobType) /\ Len(jobs') <= MaxJobs
        /\ DOMAIN jobs' = DOMAIN jobs \cup {Len(jobs) + 1} /\ Len(jobs) + 1 \notin DOMAIN jobs
        /\ jobs'[Len(jobs) + 1] = job /\ \A k \in DOMAIN jobs : jobs'[k] = jobs[k]
    BY <1>1, <1>3, <2>1
  <2> QED
    BY <2>2
<1>8. JobsOK'
  <2>1. \A k \in DOMAIN jobs : jobs[k].memory \in Ids /\ (Active(k)' <=> Active(k))
    BY <1>7, JobTyped DEF Inv, JobType, Active
  <2>2. \A k \in DOMAIN jobs : Active(k) => jobs[k].memory # m
    BY <1>2 DEF Inv, JobsOK, JobOK
  <2>3. Active(new)'
    BY <1>3, <1>7 DEF Active
  <2>4. ASSUME NEW k \in DOMAIN jobs' PROVE JobOK(k)'
    <3>1. CASE k = new
      <4>1. jobs'[k] = job
        BY <1>7, <3>1
      <4> QED
        BY <1>3, <1>4, <2>3, <3>1, <4>1 DEF JobOK, Sides
    <3>2. CASE k # new
      <4>1. k \in DOMAIN jobs /\ jobs'[k] = jobs[k] /\ JobOK(k) /\ Active(k)' = Active(k)
        BY <1>7, <2>1, <3>2 DEF Inv, JobsOK, Active
      <4>2. Active(k) => StateOf(jobs[k].memory)' = "evaluating"
        BY <1>4, <2>1, <2>2, <4>1 DEF JobOK, StateOf
      <4> QED
        BY <4>1, <4>2 DEF JobOK
    <3> QED
      BY <3>1, <3>2
  <2>5. ASSUME NEW k \in DOMAIN jobs', NEW l \in DOMAIN jobs', Active(k)', Active(l)',
               jobs'[k].memory = jobs'[l].memory
        PROVE  k = l
    BY <1>3, <1>7, <2>1, <2>2, <2>5 DEF Inv, JobsOK
  <2>6. ASSUME NEW n \in Ids, StateOf(n)' = "evaluating"
        PROVE  \E k \in DOMAIN jobs' : Active(k)' /\ jobs'[k].memory = n
    <3>1. CASE n = m
      BY <1>3, <1>7, <2>3, <3>1
    <3>2. CASE n # m
      <4>1. StateOf(n) = "evaluating"
        BY <1>4, <2>6, <3>2 DEF StateOf
      <4>2. PICK k \in DOMAIN jobs : Active(k) /\ jobs[k].memory = n
        BY <4>1 DEF Inv, JobsOK
      <4> QED
        BY <1>7, <2>1, <4>2
    <3> QED
      BY <3>1, <3>2
  <2> QED
    BY <2>4, <2>5, <2>6 DEF JobsOK
<1> QED
  BY <1>1, <1>4, <1>5, <1>6, <1>7, <1>8 DEF Inv, TypeOK, WriteType

(***************************************************************************)
(* The theorems.                                                           *)
(***************************************************************************)
LEMMA NextStep ==
  ASSUME OneOperator, Inv, [Next]_vars
  PROVE  Inv' /\ Promotion
<1>1. CASE \E m \in Ids : AddCandidate(m)
  BY <1>1, AddStep
<1>2. CASE \E o \in Operators : Operate(o)
  <2>1. PICK o \in Operators : Operate(o)
    BY <1>2
  <2>2. CASE Approve(o) \/ StartEvaluation(o) \/ Activate(o) \/ Rollback(o)
    BY <2>2, ApproveStep, StartEvaluationStep, ActivateStep, RollbackStep
  <2>3. ASSUME NEW m \in Ids,
               \/ \E r \in Rules : Edit(o, m, r)
               \/ Reject(o, m)
               \/ \E base \in {NoPins, CurrentPins} : CheckEvaluation(o, m, base)
               \/ CheckActivation(o, m)
               \/ CheckRollback(o, m)
        PROVE  Inv' /\ Promotion
    BY <2>3, EditStep, RejectStep, OperatorChecks
  <2> QED
    BY <2>1, <2>2, <2>3 DEF Operate
<1>3. ASSUME NEW j \in DOMAIN jobs, Work(j) \/ WorkerFails(j) \/ Crash(j) \/ Relaunch(j)
      PROVE  Inv' /\ Promotion
  <2>1. CASE WorkerFails(j)
    BY <2>1, FailStep DEF WorkerFails
  <2> QED
    BY <1>3, <2>1, BeginSideStep, EndSideStep, JudgeStep, StoreStep, CrashStep, RelaunchStep
    DEF Work
<1>4. CASE PolicyMoves \/ InputsMove \/ UNCHANGED vars
  BY <1>4, MoveStep
<1> QED
  BY <1>1, <1>2, <1>3, <1>4 DEF Next

\* The inductive invariant, which the code owes to operators that act one after the other.
THEOREM Invariance == OneOperator => (Spec => []Inv)
<1> SUFFICES ASSUME OneOperator PROVE Spec => []Inv
  OBVIOUS
<1>1. Inv /\ [Next]_vars => Inv'
  BY NextStep
<1> QED
  BY <1>1, InitInv, PTL DEF Spec

\* Types of the rows, the jobs and the pending writes.
THEOREM Types == OneOperator => (Spec => []TypeOK)
<1>1. Inv => TypeOK
  BY DEF Inv
<1> QED
  BY <1>1, Invariance, PTL

\* activate_memory serves a pool that a passed evaluation had, although it writes without
\* looking again and rows, jobs, Policy and indexes move in between.
THEOREM ServedIsEvaluated == OneOperator => (Spec => PoolWasEvaluated)
<1> SUFFICES ASSUME OneOperator PROVE Spec => PoolWasEvaluated
  OBVIOUS
<1>1. Inv /\ [Next]_vars => [Promotion]_vars
  BY NextStep
<1>2. [][Promotion]_vars => PoolWasEvaluated
  BY PTL DEF PoolWasEvaluated, Promotion
<1> QED
  BY <1>1, <1>2, Invariance, PTL DEF Spec

\* start_memory_evaluation, the worker and its error path leave no row in evaluation without
\* a job, and no row with two.
THEOREM RowsHaveTheirJob == OneOperator => (Spec => []EvaluationHasAJob)
<1>1. Inv => EvaluationHasAJob
  <2> SUFFICES ASSUME Inv, NEW m \in Ids
               PROVE  Cardinality(ActiveJobs(m)) = (IF StateOf(m) = "evaluating" THEN 1 ELSE 0)
    BY DEF EvaluationHasAJob
  <2>1. CASE StateOf(m) = "evaluating"
    <3>1. PICK j \in DOMAIN jobs : Active(j) /\ jobs[j].memory = m
      BY <2>1 DEF Inv, JobsOK
    <3>2. ActiveJobs(m) = {j}
      BY <3>1 DEF Inv, JobsOK, ActiveJobs
    <3> QED
      BY <2>1, <3>2, FS_Singleton
  <2>2. CASE StateOf(m) # "evaluating"
    <3>1. ActiveJobs(m) = {}
      BY <2>2 DEF Inv, JobsOK, JobOK, ActiveJobs
    <3> QED
      BY <2>2, <3>1, FS_EmptySet
  <2> QED
    BY <2>1, <2>2
<1> QED
  BY <1>1, Invariance, PTL
=============================================================================
