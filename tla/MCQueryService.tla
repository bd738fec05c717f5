---------------------------- MODULE MCQueryService ----------------------------
(* QueryService for TLC. *)
EXTENDS QueryService, TLC

\* Requests, releases and sessions are only compared.
Symmetry == Permutations(Requests) \cup Permutations(Releases) \cup Permutations(Sessions)

\* The third request comes when nobody crashes, no write fails, retention keeps what the
\* task said, and release and session stand.
Explored ==
    (\A q \in Requests : request[q].pc # "idle") =>
        /\ \A q \in Requests : ~request[q].fault /\ ~At(q, "dead")
        /\ (\E q \in Requests : request[q].pc \notin {"idle", "prepare", "question"}) =>
             Contains(messages, "user")
        /\ \A q, r \in Requests :
             {request[q].identity, request[r].identity} \subseteq Identity =>
                 request[q].identity = request[r].identity
===============================================================================
