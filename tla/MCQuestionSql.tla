----------------------------- MODULE MCQuestionSql -----------------------------
(* QuestionSql for TLC. *)
EXTENDS QuestionSql, TLC

CONSTANTS t1, t2, e1, e2

\* Two tasks that answered the same question.
SamePair == [t \in Tasks |-> e1]

\* Threads are only compared.
Symmetry == Permutations(Threads)

=============================================================================
