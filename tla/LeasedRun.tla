------------------------------- MODULE LeasedRun -------------------------------
(***************************************************************************)
(* What the checkpoint store promises about the row of one run to whoever   *)
(* asks for it: the row is bound to the identity of its first session, one  *)
(* session at a time owns it, and an owner publishes the result, once.      *)
(* CheckpointStore implements it with tokens, leases and a clock, and       *)
(* QueryService relies on it for the run of either lane.                    *)
(***************************************************************************)
CONSTANTS NoIdentity, NoOwner, NoResult

VARIABLES
    identity,  \* what the run was first asked with
    owner,     \* the session that may write
    result     \* the durable result

row == <<identity, owner, result>>

Init == identity = NoIdentity /\ owner = NoOwner /\ result = NoResult

\* A new session takes the run over, if the last one is gone or its lease has run out.
Take ==
    /\ result = NoResult
    /\ owner' \notin {NoOwner, owner}
    /\ identity' # NoIdentity /\ (identity = NoIdentity \/ identity' = identity)
    /\ UNCHANGED result

\* The session gives the run back, or loses it.
Leave == owner' = NoOwner /\ UNCHANGED <<identity, result>>

Publish ==
    /\ result = NoResult /\ owner # NoOwner
    /\ result' # NoResult /\ owner' = NoOwner
    /\ UNCHANGED identity

Next == Take \/ Leave \/ Publish

Spec == Init /\ [][Next]_row
=============================================================================
