------------------------------ MODULE DurableRun ------------------------------
(***************************************************************************)
(* What the checkpoint store promises about one task_id, without sessions,  *)
(* leases, clocks, retries or crashes: node outputs become durable one by   *)
(* one in graph order, the result is published once all of them are, and    *)
(* every answer is the published result.                                   *)
(***************************************************************************)
EXTENDS Integers

CONSTANTS Callers, NumNodes, NoResult

VARIABLES
    committed,  \* node -> the durable output, 0 while there is none
    published,  \* the durable result
    answer      \* caller -> the answer it received

vars == <<committed, published, answer>>

Nodes == 1 .. NumNodes

Init ==
    /\ committed = [n \in Nodes |-> 0]
    /\ published = NoResult
    /\ answer = [c \in Callers |-> NoResult]

CommitNode(n) ==
    /\ committed[n] = 0
    /\ \A m \in 1 .. n - 1 : committed[m] # 0
    /\ committed'[n] \in Nat \ {0}
    /\ committed' = [committed EXCEPT ![n] = committed'[n]]
    /\ UNCHANGED <<published, answer>>

Publish ==
    /\ published = NoResult
    /\ \A n \in Nodes : committed[n] # 0
    /\ published' = committed
    /\ UNCHANGED <<committed, answer>>

Answer(c) ==
    /\ published # NoResult
    /\ answer' = [answer EXCEPT ![c] = published]
    /\ UNCHANGED <<committed, published>>

Next ==
    \/ \E n \in Nodes : CommitNode(n)
    \/ Publish
    \/ \E c \in Callers : Answer(c)

Spec == Init /\ [][Next]_vars
=============================================================================
