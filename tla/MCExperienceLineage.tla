-------------------------- MODULE MCExperienceLineage --------------------------
(* ExperienceLineage for TLC. *)
EXTENDS ExperienceLineage

CONSTANTS e2, old1, old2, planning, generation

\* A revision of the plan, and what both prompts of the Policy of the older store came from.
SkillsOfTwo == [e \in Memories |-> IF e = old1 THEN generation ELSE planning]
TasksOfTwo == [e \in Experiences |-> e]
===============================================================================
