--------------------------- MODULE MCShadowRelease ---------------------------
(* ShadowRelease for TLC: two candidates, two deployments and two queries,    *)
(* explored in two parts.                                                    *)
EXTENDS ShadowRelease, TLC

\* Queries and deployments are only compared.
Symmetry == Permutations(Queries) \cup Permutations(Deployments)

\* One release under concurrent queries while the versions move.  Its candidate is
\* evaluated under the second environment, which keeps the two parts apart.
OneRelease ==
    /\ \A p \in Policies : AnyEnvironment \notin policies[p].passed
    /\ env = AnyEnvironment => \E p \in Policies : policies[p].passed # {}
    /\ \A p \in Compiled : policies[p].status = "absent"
    /\ Cardinality({d \in Deployments : deployments[d].status # "absent"}) <= 1
    /\ \A change \in audit : change[1] # "rollback"

\* Releases that follow, supersede and roll back each other, under one query at a time.
OneQuery ==
    /\ env = AnyEnvironment /\ \A p \in Policies : policies[p].passed \subseteq {env}
    /\ \A o \in Operators : operator[o].env = env
    /\ \A q \in Queries : query[q].env = env
    /\ Cardinality({q \in Queries : query[q].pc # "idle"}) <= 1

\* A task that is not sampled only reads: it is followed in the shadow of a first release.
Unsampled ==
    (\E q \in Queries : query[q].task \notin Sampled \cup {NoTask}) =>
        OneQuery /\ Cardinality(audit) <= 1

Explored == (OneRelease \/ OneQuery) /\ Unsampled
=============================================================================
