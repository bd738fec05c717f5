---------------------------- MODULE MCRuntimeMemory ----------------------------
(* RuntimeMemory for TLC. *)
EXTENDS RuntimeMemory

CONSTANTS ra, rb

\* Two rows that are added with the same rule, which an edit may tell apart.
SameRule == [m \in Ids |-> ra]
================================================================================
