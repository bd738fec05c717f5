--------------------------- MODULE EvaluationRunProofs ---------------------------
(***************************************************************************)
(* An evaluation that calls itself complete is whole and of one release,    *)
(* for any dataset, number of files and workers, and any budget.           *)
(***************************************************************************)
EXTENDS EvaluationRun, DatasetReview, FiniteSetTheorems, TLAPS, WellFoundedInduction

(***************************************************************************)
(* The inductive invariant.                                                *)
(***************************************************************************)
\* No case has two outcomes, and they were computed with this release.
OfOneRun(outcomes, r) ==
    /\ \A o, p \in outcomes : o.case = p.case => o = p
    /\ \A o \in outcomes : o.release = r

FileOK(f) ==
    /\ OfOneRun(file[f].outcomes, file[f].identity)
    /\ file[f].state = "absent" => file[f].outcomes = {}

\* An artifact repeats its file, and names its release.
ArtifactOK(f) ==
    /\ artifact[f].outcomes \subseteq file[f].outcomes
    /\ artifact[f].status # "none" => file[f].state # "absent"
    /\ artifact[f].status = "complete" =>
          /\ artifact[f].identity = file[f].identity
          /\ Status(artifact[f].outcomes) = "complete"

\* All the outcomes a process holds or may still append.
Held(p) == p.outcomes \cup p.seeds \cup p.ended

\* The process owns its file, which holds what it has in memory.
ProcessOK(p) ==
    p.pc # "idle" =>
        /\ p.file \in Files
        /\ file[p.file].state = "open" /\ file[p.file].identity = p.release
        /\ file[p.file].outcomes = p.outcomes
        /\ OfOneRun(Held(p), p.release)
        /\ p.inFlight \cap CasesOf(Held(p)) = {}
        /\ p.pc # "seeding" => p.seeds = {}
        /\ p.pc = "seeding" => p.inFlight = {} /\ p.ended = {}

\* The calls the process has measured, is to copy or may still have to add, against its budget.
Load(p) ==
    Cardinality(Spent(p.outcomes \cup p.seeds)) + Cardinality(p.ended)
      + Cardinality(p.inFlight)

LoadOK(p) ==
    p.pc # "idle" /\ p.budget # 0 =>
        Load(p) <= p.found \/ Load(p) <= p.budget + p.workers - 1

Inv ==
    /\ TypeOK
    /\ \A f \in Files : FileOK(f) /\ ArtifactOK(f)
    /\ ProcessOK(process) /\ LoadOK(process)

(***************************************************************************)
(* Outcomes of a run are as many as their cases.                           *)
(***************************************************************************)
LEMMA CasesAreFinite ==
  IsFiniteSet(Cases) /\ Cardinality(Cases) \in Nat
  BY EvaluationRunAssumption, FS_CardinalityType

\* Without a case that has two outcomes, there are no more outcomes than cases; if there are
\* as many, every case has one.
LEMMA OneOutcomePerCase ==
  ASSUME NEW S \in SUBSET OutcomeType, NEW r, OfOneRun(S, r)
  PROVE  /\ IsFiniteSet(S) /\ Cardinality(S) \in 0..Cardinality(Cases)
         /\ IsFiniteSet(CasesOf(S)) /\ Cardinality(CasesOf(S)) = Cardinality(S)
         /\ Cardinality(S) = Cardinality(Cases) => CasesOf(S) = Cases
<1> DEFINE g == [o \in S |-> o.case]
<1>1. CasesOf(S) \subseteq Cases /\ IsFiniteSet(CasesOf(S))
  BY CasesAreFinite, FS_Subset DEF CasesOf, OutcomeType
<1>2. g \in [S -> CasesOf(S)]
  BY DEF CasesOf
<1>3. g \in Injection(S, CasesOf(S))
  BY <1>2 DEF Injection, IsInjective, OfOneRun
<1>4. g \in Surjection(S, CasesOf(S))
  BY <1>2 DEF Surjection, CasesOf
<1>5. IsFiniteSet(S) /\ Cardinality(S) = Cardinality(CasesOf(S))
  BY <1>1, <1>3, <1>4, FS_Injection
<1>6. /\ Cardinality(CasesOf(S)) <= Cardinality(Cases)
      /\ Cardinality(Cases) = Cardinality(CasesOf(S)) => Cases = CasesOf(S)
  BY <1>1, CasesAreFinite, FS_Subset
<1>7. Cardinality(S) \in Nat
  BY <1>5, FS_CardinalityType
<1> QED
  BY <1>1, <1>5, <1>6, <1>7, CasesAreFinite

LEMMA FinitePart ==
  ASSUME NEW S \in SUBSET OutcomeType, NEW r, OfOneRun(S, r), NEW T \in SUBSET S
  PROVE  OfOneRun(T, r) /\ IsFiniteSet(T) /\ Cardinality(T) \in Nat
<1>1. OfOneRun(T, r)
  BY DEF OfOneRun
<1> QED
  BY <1>1, OneOutcomePerCase

\* What is measured of a run is a part of it, and one more outcome measures one call at most.
LEMMA Measured ==
  ASSUME NEW S \in SUBSET OutcomeType, NEW r, OfOneRun(S, r)
  PROVE  /\ Spent(S) \subseteq S /\ IsFiniteSet(Spent(S))
         /\ Cardinality(Spent(S)) \in 0..Cardinality(Cases) /\ Cardinality(Spent(S)) \in Nat
<1>1. Spent(S) \in SUBSET S
  BY DEF Spent
<1>2. OfOneRun(Spent(S), r) /\ Spent(S) \in SUBSET OutcomeType
  BY <1>1, FinitePart
<1> QED
  BY <1>1, <1>2, FinitePart, OneOutcomePerCase

LEMMA MeasuredMore ==
  ASSUME NEW S \in SUBSET OutcomeType, NEW r, OfOneRun(S, r), NEW o \in OutcomeType,
         OfOneRun(S \cup {o}, r)
  PROVE  /\ Cardinality(Spent(S \cup {o})) \in Nat
         /\ Cardinality(Spent(S \cup {o})) <= Cardinality(Spent(S)) + 1
<1>1. IsFiniteSet(Spent(S)) /\ Cardinality(Spent(S)) \in Nat
  BY Measured
<1>2. Spent(S \cup {o}) = Spent(S) \/ Spent(S \cup {o}) = Spent(S) \cup {o}
  BY DEF Spent
<1>3. Cardinality(Spent(S) \cup {o}) =
        IF o \in Spent(S) THEN Cardinality(Spent(S)) ELSE Cardinality(Spent(S)) + 1
  BY <1>1, FS_AddElement
<1>4. PICK n \in Nat : n = Cardinality(Spent(S))
  BY <1>1
<1>5. Cardinality(Spent(S \cup {o})) = n \/ Cardinality(Spent(S \cup {o})) = n + 1
  BY <1>2, <1>3, <1>4
<1> QED
  BY <1>4, <1>5

\* An outcome of another case joins those of a run.
LEMMA OneMore ==
  ASSUME NEW S, NEW r, OfOneRun(S, r), NEW o, o.case \notin CasesOf(S), o.release = r
  PROVE  OfOneRun(S \cup {o}, r)
  BY DEF OfOneRun, CasesOf

LEMMA MaxOfTwo ==
  ASSUME NEW a \in Int, NEW b \in Int, NEW n \in Int, n <= a \/ n <= b
  PROVE  n <= Max({a, b})
<1>1. \E x \in {a, b} : \A y \in {a, b} : x >= y
  OBVIOUS
<1> QED
  BY <1>1 DEF Max

(***************************************************************************)
(* The initial state, and the start of a process.                          *)
(***************************************************************************)
LEMMA InitInv == Init => Inv
<1> SUFFICES ASSUME Init PROVE Inv
  OBVIOUS
<1>1. 0 \in 0..Cardinality(Cases) /\ 0 \in Releases
  BY CasesAreFinite, EvaluationRunAssumption DEF Releases
<1>2. TypeOK
  BY <1>1 DEF Init, TypeOK, FileType, ProcessType, Absent, Idle, NoArtifact
<1>3. \A f \in Files : FileOK(f) /\ ArtifactOK(f)
  BY DEF Init, FileOK, ArtifactOK, OfOneRun, Absent, NoArtifact
<1>4. ProcessOK(process) /\ LoadOK(process)
  BY DEF Init, ProcessOK, LoadOK, Idle
<1> QED
  BY <1>2, <1>3, <1>4 DEF Inv

\* What one process writes leaves the other files and the artifacts as they are.
LEMMA HeaderKeepsFiles ==
  ASSUME Inv, NEW f \in Files, file[f].state = "absent", Header(f), UNCHANGED artifact
  PROVE  /\ file' \in [Files -> FileType]
         /\ file'[f].state = "open" /\ file'[f].identity = release /\ file'[f].outcomes = {}
         /\ \A h \in Files : FileOK(h)' /\ ArtifactOK(h)'
<1>1. PICK new : /\ file' = [file EXCEPT ![f] = new]
                 /\ new = [Absent EXCEPT !.state = "open", !.identity = release]
  BY DEF Header
<1>2. new \in FileType /\ new.state = "open" /\ new.identity = release /\ new.outcomes = {}
  BY <1>1 DEF Inv, TypeOK, FileType, Absent
<1>3. file' \in [Files -> FileType] /\ file'[f] = new
  BY <1>1, <1>2 DEF Inv, TypeOK
<1>4. ASSUME NEW h \in Files PROVE FileOK(h)' /\ ArtifactOK(h)'
  <2>1. CASE h = f
    <3>1. artifact[f].outcomes = {} /\ artifact[f].status = "none"
      BY DEF Inv, FileOK, ArtifactOK, TypeOK, FileType
    <3> QED
      BY <2>1, <1>2, <1>3, <3>1 DEF FileOK, ArtifactOK, OfOneRun
  <2>2. CASE h # f
    <3>1. file'[h] = file[h]
      BY <2>2, <1>1 DEF Inv, TypeOK
    <3>2. Status(artifact[h].outcomes)' = Status(artifact[h].outcomes)
      BY DEF Status, Clean
    <3> QED
      BY <3>1, <3>2 DEF Inv, FileOK, ArtifactOK
  <2> QED
    BY <2>1, <2>2
<1> QED
  BY <1>2, <1>3, <1>4

LEMMA RunStarts ==
  ASSUME Inv, NEW f \in Files, NEW pc \in {"seeding", "running"},
         NEW seeds \in SUBSET OutcomeType, NEW outcomes \in SUBSET OutcomeType,
         file'[f].state = "open", file'[f].identity = release, file'[f].outcomes = outcomes,
         OfOneRun(seeds \cup outcomes, release), pc = "seeding" \/ seeds = {},
         Run(pc, f, seeds, outcomes)
  PROVE  process' \in ProcessType /\ ProcessOK(process)' /\ LoadOK(process)'
<1> DEFINE found == Cardinality(Spent(seeds \cup outcomes))
<1>1. PICK w \in Workers, b \in Budgets :
        process' = [pc |-> pc, file |-> f, release |-> release, workers |-> w, budget |-> b,
                    found |-> found, seeds |-> seeds, outcomes |-> outcomes,
                    inFlight |-> {}, ended |-> {}]
  <2>1. PICK w \in Workers, b \in Budgets :
          process' = [Idle EXCEPT !.pc = pc, !.file = f, !.release = release, !.workers = w,
                         !.budget = b, !.found = Cardinality(Spent(seeds \cup outcomes)),
                         !.seeds = seeds, !.outcomes = outcomes]
    BY DEF Run
  <2> QED
    BY <2>1 DEF Idle
<1>2. found \in 0..Cardinality(Cases)
  <2>1. seeds \cup outcomes \in SUBSET OutcomeType
    OBVIOUS
  <2> QED
    BY <2>1, Measured
<1>3. process' \in ProcessType
  <2> HIDE DEF found
  <2> QED
    BY <1>1, <1>2 DEF ProcessType, Inv, TypeOK
<1>4. OfOneRun(Held(process'), process'.release)
  <2>1. Held(process') = seeds \cup outcomes
    BY <1>1 DEF Held
  <2> QED
    BY <2>1, <1>1
<1>5. ProcessOK(process)'
  BY <1>1, <1>4 DEF ProcessOK
<1>6. Load(process') = found
  <2>1. process'.outcomes \cup process'.seeds = seeds \cup outcomes
    BY <1>1
  <2>2. Cardinality({}) = 0 /\ found \in Int
    BY FS_EmptySet, <1>2, CasesAreFinite
  <2> HIDE DEF found
  <2>3. process'.ended = {} /\ process'.inFlight = {}
    BY <1>1
  <2>4. Load(process') = found + 0 + 0
    BY <2>1, <2>2, <2>3 DEF Load, found
  <2> QED
    BY <2>4, <2>2
<1>7. LoadOK(process)'
  <2>1. process'.found = found /\ found \in Int
    BY <1>1, <1>2, CasesAreFinite
  <2> QED
    BY <1>6, <2>1 DEF LoadOK
<1> QED
  BY <1>3, <1>5, <1>7

LEMMA StartStep ==
  ASSUME Inv, NEW f \in Files, Start(f)
  PROVE  Inv'
<1> USE DEF Start
<1>1. /\ file' \in [Files -> FileType]
      /\ file'[f].state = "open" /\ file'[f].identity = release /\ file'[f].outcomes = {}
      /\ \A h \in Files : FileOK(h)' /\ ArtifactOK(h)'
  BY HeaderKeepsFiles
<1>2. OfOneRun({} \cup {}, release)
  BY DEF OfOneRun
<1>3. process' \in ProcessType /\ ProcessOK(process)' /\ LoadOK(process)'
  BY <1>1, <1>2, RunStarts
<1> QED
  BY <1>1, <1>3 DEF Inv, TypeOK

LEMMA SeedStep ==
  ASSUME Inv, NEW f \in Files, NEW source \in Files, Seed(f, source)
  PROVE  Inv'
<1> USE DEF Seed
<1> DEFINE seeds == Spent(file[source].outcomes)
<1>1. /\ file' \in [Files -> FileType]
      /\ file'[f].state = "open" /\ file'[f].identity = release /\ file'[f].outcomes = {}
      /\ \A h \in Files : FileOK(h)' /\ ArtifactOK(h)'
  BY HeaderKeepsFiles
<1>2. file[source].outcomes \in SUBSET OutcomeType /\ OfOneRun(file[source].outcomes, release)
  BY DEF Inv, TypeOK, FileType, FileOK
<1>3. seeds \in SUBSET OutcomeType /\ OfOneRun(seeds \cup {}, release)
  BY <1>2 DEF OfOneRun, Spent
<1>4. process' \in ProcessType /\ ProcessOK(process)' /\ LoadOK(process)'
  <2>1. Run("seeding", f, seeds, {})
    OBVIOUS
  <2>2. /\ file'[f].state = "open" /\ file'[f].identity = release /\ file'[f].outcomes = {}
        /\ {} \in SUBSET OutcomeType
    BY <1>1
  <2> HIDE DEF seeds, Seed
  <2> QED
    BY <1>3, <2>1, <2>2, RunStarts
<1> QED
  BY <1>1, <1>4 DEF Inv, TypeOK

LEMMA ResumeStep ==
  ASSUME Inv, NEW f \in Files, Resume(f)
  PROVE  Inv'
<1> USE DEF Resume, Resumable
<1>1. /\ file[f].outcomes \in SUBSET OutcomeType
      /\ OfOneRun({} \cup file[f].outcomes, release)
  BY DEF Inv, TypeOK, FileType, FileOK
<1>2. process' \in ProcessType /\ ProcessOK(process)' /\ LoadOK(process)'
  <2>1. /\ file'[f].state = "open" /\ file'[f].identity = release
        /\ file'[f].outcomes = file[f].outcomes /\ {} \in SUBSET OutcomeType
    OBVIOUS
  <2> QED
    BY <1>1, <2>1, RunStarts
<1>3. \A h \in Files : FileOK(h)' /\ ArtifactOK(h)'
  BY DEF Inv, FileOK, ArtifactOK, Status, Clean
<1> QED
  BY <1>2, <1>3 DEF Inv, TypeOK

(***************************************************************************)
(* The steps of a process.                                                 *)
(***************************************************************************)
\* An outcome of the run of the process is appended to the file of the process.
LEMMA RecordKeepsFiles ==
  ASSUME Inv, NEW f \in Files, NEW o \in OutcomeType, Record(f, o), UNCHANGED artifact,
         file[f].state = "open", OfOneRun(file[f].outcomes \cup {o}, file[f].identity)
  PROVE  /\ file' \in [Files -> FileType]
         /\ file'[f].state = "open" /\ file'[f].identity = file[f].identity
         /\ file'[f].outcomes = file[f].outcomes \cup {o}
         /\ \A h \in Files : FileOK(h)' /\ ArtifactOK(h)'
<1>1. PICK new : /\ file' = [file EXCEPT ![f] = new]
                 /\ new = [file[f] EXCEPT !.outcomes = @ \cup {o}]
  BY DEF Record
<1>2. /\ new \in FileType /\ new.state = file[f].state /\ new.identity = file[f].identity
      /\ new.outcomes = file[f].outcomes \cup {o}
  BY <1>1 DEF Inv, TypeOK, FileType
<1>3. file' \in [Files -> FileType] /\ file'[f] = new
  BY <1>1, <1>2 DEF Inv, TypeOK
<1>4. ASSUME NEW h \in Files PROVE FileOK(h)' /\ ArtifactOK(h)'
  <2>1. Status(artifact[h].outcomes)' = Status(artifact[h].outcomes)
    BY DEF Status, Clean
  <2>2. CASE h = f
    BY <1>2, <1>3, <2>1, <2>2 DEF Inv, FileOK, ArtifactOK
  <2>3. CASE h # f
    <3>1. file'[h] = file[h]
      BY <2>3, <1>1 DEF Inv, TypeOK
    <3> QED
      BY <2>1, <3>1 DEF Inv, FileOK, ArtifactOK
  <2> QED
    BY <2>2, <2>3
<1> QED
  BY <1>2, <1>3, <1>4

LEMMA Numbers ==
  ASSUME NEW p \in ProcessType
  PROVE  p.workers \in Int /\ p.budget \in Int /\ p.found \in Int
<1>1. Workers \cup {0} \subseteq Int /\ Budgets \cup {0} \subseteq Int
  BY EvaluationRunAssumption
<1>2. 0..Cardinality(Cases) \subseteq Int
  BY CasesAreFinite
<1> QED
  BY <1>1, <1>2 DEF ProcessType

\* The files and the artifacts stay as they are.
LEMMA SameFiles ==
  ASSUME Inv, UNCHANGED <<file, artifact>>
  PROVE  \A h \in Files : FileOK(h)' /\ ArtifactOK(h)'
  BY DEF Inv, FileOK, ArtifactOK, Status, Clean

LEMMA CopySeedStep ==
  ASSUME Inv, CopySeed
  PROVE  Inv'
<1> USE DEF CopySeed, At
<1>1. CASE process.seeds = {} /\ process' = [process EXCEPT !.pc = "running"] /\ UNCHANGED file
  <2>1. process' \in ProcessType
    BY <1>1 DEF Inv, TypeOK, ProcessType
  <2>2. Held(process') = Held(process) /\ Load(process') = Load(process)
    BY <1>1 DEF Inv, TypeOK, ProcessType, Held, Load
  <2>3. ProcessOK(process)' /\ LoadOK(process)'
    BY <1>1, <2>2 DEF Inv, TypeOK, ProcessType, ProcessOK, LoadOK
  <2> QED
    BY <1>1, <2>1, <2>3, SameFiles DEF Inv, TypeOK
<1>2. ASSUME NEW o \in process.seeds, Record(process.file, o),
             process' = [process EXCEPT !.seeds = @ \ {o}, !.outcomes = @ \cup {o}]
      PROVE  Inv'
  <2>1. ProcessOK(process) /\ process \in ProcessType /\ o \in OutcomeType
    BY DEF Inv, TypeOK, ProcessType
  <2>2. OfOneRun(Held(process), process.release) /\ process.file \in Files
    BY <2>1 DEF ProcessOK
  <2>3. process' \in ProcessType
    BY <1>2, <2>1 DEF ProcessType
  <2>4. Held(process') = Held(process) /\ Load(process') = Load(process)
    <3>1. process'.outcomes \cup process'.seeds = process.outcomes \cup process.seeds
      BY <1>2, <2>1 DEF ProcessType
    <3> QED
      BY <1>2, <2>1, <3>1 DEF ProcessType, Held, Load
  <2>5. /\ file' \in [Files -> FileType]
        /\ file'[process.file].state = "open"
        /\ file'[process.file].identity = file[process.file].identity
        /\ file'[process.file].outcomes = file[process.file].outcomes \cup {o}
        /\ \A h \in Files : FileOK(h)' /\ ArtifactOK(h)'
    <3>1. OfOneRun(file[process.file].outcomes \cup {o}, file[process.file].identity)
      BY <2>1, <2>2 DEF ProcessOK, OfOneRun, Held
    <3> QED
      BY <1>2, <2>1, <2>2, <3>1, RecordKeepsFiles DEF ProcessOK
  <2>6. ProcessOK(process)' /\ LoadOK(process)'
    BY <1>2, <2>1, <2>4, <2>5 DEF Inv, ProcessType, ProcessOK, LoadOK
  <2> QED
    BY <2>3, <2>5, <2>6 DEF Inv, TypeOK
<1> QED
  BY <1>1, <1>2

LEMMA SubmitStep ==
  ASSUME Inv, NEW c \in Cases, Submit(c)
  PROVE  Inv'
<1> USE DEF Submit, At
<1>1. PICK p : p = process /\ process' = [p EXCEPT !.inFlight = @ \cup {c}]
  OBVIOUS
<1>2. p \in ProcessType /\ ProcessOK(p) /\ LoadOK(p) /\ p.pc = "running"
  BY <1>1 DEF Inv, TypeOK
<1>3. /\ process' \in ProcessType /\ process'.inFlight = p.inFlight \cup {c}
      /\ process'.pc = p.pc /\ process'.file = p.file /\ process'.release = p.release
      /\ process'.workers = p.workers /\ process'.budget = p.budget /\ process'.found = p.found
      /\ process'.seeds = p.seeds /\ process'.outcomes = p.outcomes /\ process'.ended = p.ended
  BY <1>1, <1>2 DEF ProcessType
<1>4. p.seeds = {} /\ OfOneRun(Held(p), p.release)
  BY <1>2 DEF ProcessOK
<1>5. ProcessOK(process)'
  <2>1. Held(process') = Held(p)
    BY <1>3 DEF Held
  <2>2. c \notin CasesOf(Held(p))
    BY <1>1, <1>4 DEF Remaining, CasesOf, Held
  <2> QED
    BY <1>2, <1>3, <2>1, <2>2 DEF ProcessOK
<1>6. LoadOK(process)'
  <2>1. IsFiniteSet(p.inFlight) /\ Cardinality(p.inFlight) \in Nat
    BY <1>2, CasesAreFinite, FS_Subset, FS_CardinalityType DEF ProcessType
  <2>2. Cardinality(p.inFlight \cup {c}) <= Cardinality(p.inFlight) + 1
        /\ Cardinality(p.inFlight \cup {c}) \in Nat
    <3>1. Cardinality(p.inFlight \cup {c}) =
            IF c \in p.inFlight THEN Cardinality(p.inFlight) ELSE Cardinality(p.inFlight) + 1
      BY <2>1, FS_AddElement
    <3> QED
      BY <2>1, <3>1
  <2>3. /\ Cardinality(Spent(p.outcomes)) \in Nat /\ Cardinality(p.ended) \in Nat
        /\ p.outcomes \cup p.seeds = p.outcomes
    <3>1. /\ Held(p) \in SUBSET OutcomeType /\ p.ended \in SUBSET Held(p)
          /\ p.outcomes \in SUBSET Held(p)
      BY <1>2 DEF ProcessType, Held
    <3>2. Cardinality(p.ended) \in Nat /\ OfOneRun(p.outcomes, p.release)
      BY <1>4, <3>1, FinitePart
    <3> QED
      BY <1>4, <3>1, <3>2, Measured
  <2>4. Load(process') = Cardinality(Spent(p.outcomes)) + Cardinality(p.ended)
                           + Cardinality(p.inFlight \cup {c})
    BY <1>3, <2>3 DEF Load
  <2>5. p.workers \in Int /\ p.budget \in Int
    BY <1>2, Numbers
  <2>6. p.budget # 0 => Load(process') <= p.budget + p.workers - 1
    <3>1. Cardinality(p.inFlight) + Cardinality(p.ended) < p.workers
      BY <1>1
    <3>2. p.budget # 0 => Cardinality(Spent(p.outcomes)) < p.budget
      BY <1>1 DEF Continues
    <3> QED
      BY <2>1, <2>2, <2>3, <2>4, <2>5, <3>1, <3>2
  <2> QED
    BY <1>3, <2>6 DEF LoadOK
<1> QED
  BY <1>3, <1>5, <1>6, SameFiles DEF Inv, TypeOK

LEMMA CaseEndsStep ==
  ASSUME Inv, NEW c \in Cases, NEW result \in Results, CaseEnds(c, result)
  PROVE  Inv'
<1> DEFINE o == [case |-> c, result |-> result, release |-> process.release]
<1>1. PICK p, n : /\ p = process /\ n = o
                  /\ process' = [p EXCEPT !.inFlight = @ \ {c}, !.ended = @ \cup {n}]
                  /\ UNCHANGED <<release, file, artifact>>
  BY DEF CaseEnds
<1>2. /\ p \in ProcessType /\ ProcessOK(p) /\ LoadOK(p) /\ c \in p.inFlight
      /\ p.pc = "running" \/ p.pc = "draining"
  BY <1>1 DEF Inv, TypeOK, CaseEnds, At
<1>3. n \in OutcomeType /\ n.case = c /\ n.release = p.release
  BY <1>1, <1>2 DEF OutcomeType, ProcessType
<1> HIDE DEF o
<1>4. /\ process' \in ProcessType
      /\ process'.inFlight = p.inFlight \ {c} /\ process'.ended = p.ended \cup {n}
      /\ process'.pc = p.pc /\ process'.file = p.file /\ process'.release = p.release
      /\ process'.workers = p.workers /\ process'.budget = p.budget /\ process'.found = p.found
      /\ process'.seeds = p.seeds /\ process'.outcomes = p.outcomes
  BY <1>1, <1>2, <1>3 DEF ProcessType
<1>5. /\ OfOneRun(Held(p), p.release) /\ c \notin CasesOf(Held(p))
      /\ p.seeds = {} /\ p.file \in Files
  BY <1>2 DEF ProcessOK
<1>6. ProcessOK(process)'
  <2>1. Held(process') = Held(p) \cup {n}
    BY <1>4 DEF Held
  <2>2. OfOneRun(Held(p) \cup {n}, p.release)
    BY <1>3, <1>5, OneMore
  <2>3. process'.inFlight \cap CasesOf(Held(process')) = {}
    BY <1>2, <1>3, <1>4, <2>1 DEF ProcessOK, CasesOf
  <2> QED
    BY <1>1, <1>2, <1>4, <2>1, <2>2, <2>3 DEF ProcessOK
<1>7. LoadOK(process)'
  <2>1. IsFiniteSet(p.inFlight) /\ Cardinality(p.inFlight) \in Nat
    BY <1>2, CasesAreFinite, FS_Subset, FS_CardinalityType DEF ProcessType
  <2>2. Cardinality(p.inFlight \ {c}) = Cardinality(p.inFlight) - 1
    BY <1>2, <2>1, FS_RemoveElement
  <2>3. /\ IsFiniteSet(p.ended) /\ Cardinality(p.ended) \in Nat
        /\ Cardinality(Spent(p.outcomes \cup p.seeds)) \in Nat
    <3>1. /\ Held(p) \in SUBSET OutcomeType /\ p.ended \in SUBSET Held(p)
          /\ p.outcomes \cup p.seeds \in SUBSET Held(p)
      BY <1>2 DEF ProcessType, Held
    <3>2. /\ IsFiniteSet(p.ended) /\ Cardinality(p.ended) \in Nat
          /\ OfOneRun(p.outcomes \cup p.seeds, p.release)
          /\ p.outcomes \cup p.seeds \in SUBSET OutcomeType
      BY <1>5, <3>1, FinitePart
    <3> QED
      BY <3>2, Measured
  <2>4. /\ Cardinality(p.ended \cup {n}) <= Cardinality(p.ended) + 1
        /\ Cardinality(p.ended \cup {n}) \in Nat
    <3>1. Cardinality(p.ended \cup {n}) =
            IF n \in p.ended THEN Cardinality(p.ended) ELSE Cardinality(p.ended) + 1
      BY <2>3, FS_AddElement
    <3> QED
      BY <2>3, <3>1
  <2>5. Load(process') = Cardinality(Spent(p.outcomes \cup p.seeds))
                           + Cardinality(p.ended \cup {n})
                           + Cardinality(p.inFlight \ {c})
    BY <1>4 DEF Load
  <2>6. Load(process') <= Load(p) /\ Load(process') \in Int /\ Load(p) \in Int
    BY <2>1, <2>2, <2>3, <2>4, <2>5 DEF Load
  <2>7. p.workers \in Int /\ p.budget \in Int /\ p.found \in Int
    BY <1>2, Numbers
  <2> QED
    BY <1>2, <1>4, <2>6, <2>7 DEF LoadOK
<1>8. answers' \in [Files -> [Cases -> Results \cup {"none"}]]
  BY <1>1, <1>5 DEF Inv, TypeOK, CaseEnds
<1> QED
  BY <1>1, <1>4, <1>6, <1>7, <1>8, SameFiles DEF Inv, TypeOK

LEMMA PersistStep ==
  ASSUME Inv, NEW o \in process.ended, Persist(o)
  PROVE  Inv'
<1> USE DEF Persist, At
<1>1. PICK p : p = process
  OBVIOUS
<1>2. /\ p \in ProcessType /\ ProcessOK(p) /\ LoadOK(p) /\ p.pc = "running" /\ o \in p.ended
      /\ o \in OutcomeType
  BY <1>1 DEF Inv, TypeOK, ProcessType
<1>3. CASE process' = [p EXCEPT !.pc = "draining"] /\ UNCHANGED file
  <2>1. /\ process' \in ProcessType
        /\ Held(process') = Held(p) /\ Load(process') = Load(p)
    BY <1>2, <1>3 DEF ProcessType, Held, Load
  <2>2. ProcessOK(process)' /\ LoadOK(process)'
    BY <1>2, <1>3, <2>1 DEF ProcessType, ProcessOK, LoadOK
  <2> QED
    BY <1>3, <2>1, <2>2, SameFiles DEF Inv, TypeOK
<1>4. CASE /\ Record(p.file, o)
           /\ process' = [p EXCEPT !.ended = @ \ {o}, !.outcomes = @ \cup {o}]
  <2>1. /\ process' \in ProcessType
        /\ process'.ended = p.ended \ {o} /\ process'.outcomes = p.outcomes \cup {o}
        /\ process'.pc = p.pc /\ process'.file = p.file /\ process'.release = p.release
        /\ process'.workers = p.workers /\ process'.budget = p.budget
        /\ process'.found = p.found /\ process'.seeds = p.seeds
        /\ process'.inFlight = p.inFlight
    BY <1>2, <1>4 DEF ProcessType
  <2>2. OfOneRun(Held(p), p.release) /\ p.seeds = {} /\ p.file \in Files
    BY <1>2 DEF ProcessOK
  <2>3. Held(process') = Held(p)
    BY <1>2, <2>1 DEF Held
  <2>4. /\ file' \in [Files -> FileType]
        /\ file'[p.file].state = "open" /\ file'[p.file].identity = file[p.file].identity
        /\ file'[p.file].outcomes = file[p.file].outcomes \cup {o}
        /\ \A h \in Files : FileOK(h)' /\ ArtifactOK(h)'
    <3>1. OfOneRun(file[p.file].outcomes \cup {o}, file[p.file].identity)
      BY <1>2, <2>2 DEF ProcessOK, OfOneRun, Held
    <3> QED
      BY <1>2, <1>4, <2>2, <3>1, RecordKeepsFiles DEF ProcessOK
  <2>5. ProcessOK(process)'
    BY <1>2, <2>1, <2>3, <2>4 DEF ProcessOK
  <2>6. LoadOK(process)'
    <3>1. /\ IsFiniteSet(p.ended) /\ Cardinality(p.ended) \in Nat
          /\ p.outcomes \in SUBSET OutcomeType /\ OfOneRun(p.outcomes, p.release)
          /\ OfOneRun(p.outcomes \cup {o}, p.release) /\ Cardinality(Spent(p.outcomes)) \in Nat
      <4>1. /\ Held(p) \in SUBSET OutcomeType /\ p.ended \in SUBSET Held(p)
            /\ p.outcomes \in SUBSET Held(p) /\ p.outcomes \cup {o} \in SUBSET Held(p)
        BY <1>2 DEF ProcessType, Held
      <4> QED
        BY <2>2, <4>1, FinitePart, Measured
    <3>2. IsFiniteSet(p.inFlight) /\ Cardinality(p.inFlight) \in Nat
      BY <1>2, CasesAreFinite, FS_Subset, FS_CardinalityType DEF ProcessType
    <3>3. Cardinality(p.ended \ {o}) = Cardinality(p.ended) - 1
      BY <1>2, <3>1, FS_RemoveElement
    <3>4. /\ Cardinality(Spent(p.outcomes \cup {o})) <= Cardinality(Spent(p.outcomes)) + 1
          /\ Cardinality(Spent(p.outcomes \cup {o})) \in Nat
      BY <1>2, <3>1, MeasuredMore
    <3>5. /\ p.outcomes \cup p.seeds = p.outcomes
          /\ process'.outcomes \cup process'.seeds = p.outcomes \cup {o}
      BY <2>1, <2>2
    <3>6. /\ Load(p) = Cardinality(Spent(p.outcomes)) + Cardinality(p.ended)
                          + Cardinality(p.inFlight)
          /\ Load(process') = Cardinality(Spent(p.outcomes \cup {o}))
                                + Cardinality(p.ended \ {o}) + Cardinality(p.inFlight)
      BY <2>1, <3>5 DEF Load
    <3>7. Load(process') <= Load(p) /\ Load(process') \in Int /\ Load(p) \in Int
      BY <3>1, <3>2, <3>3, <3>4, <3>6
    <3>8. p.workers \in Int /\ p.budget \in Int /\ p.found \in Int
      BY <1>2, Numbers
    <3> QED
      BY <1>2, <2>1, <3>7, <3>8 DEF LoadOK
  <2> QED
    BY <2>1, <2>4, <2>5, <2>6 DEF Inv, TypeOK
<1> QED
  BY <1>1, <1>3, <1>4

(***************************************************************************)
(* The end of a process.                                                   *)
(***************************************************************************)
LEMMA IdleProcess ==
  /\ Idle \in ProcessType
  /\ process' = Idle => ProcessOK(process)' /\ LoadOK(process)'
<1>1. 0 \in 0..Cardinality(Cases) /\ 0 \in Releases
  BY CasesAreFinite, EvaluationRunAssumption DEF Releases
<1> QED
  BY <1>1 DEF Idle, ProcessType, ProcessOK, LoadOK

LEMMA FinishStep ==
  ASSUME Inv, Finish
  PROVE  Inv'
<1> USE DEF Finish, At
<1> DEFINE status == Status(process.outcomes)
<1>1. PICK a : /\ a.status = status /\ a.identity = process.release
               /\ a.outcomes = process.outcomes
               /\ a = [status |-> status, identity |-> process.release,
                       outcomes |-> process.outcomes]
               /\ artifact' = [artifact EXCEPT ![process.file] = a]
  OBVIOUS
<1>2. process \in ProcessType /\ ProcessOK(process) /\ LoadOK(process) /\ process.file \in Files
  BY DEF Inv, TypeOK, ProcessOK
<1>3. status \in {"complete", "incomplete_budget_reached", "incomplete_infrastructure_error"}
  BY DEF Status
<1>4. /\ artifact' \in [Files -> [status : {"none", "complete", "incomplete_budget_reached",
                                           "incomplete_infrastructure_error"},
                                 identity : Releases, outcomes : SUBSET OutcomeType]]
      /\ artifact'[process.file] = a
  <2> HIDE DEF status
  <2>1. a \in [status : {"none", "complete", "incomplete_budget_reached",
                         "incomplete_infrastructure_error"},
               identity : Releases, outcomes : SUBSET OutcomeType]
    BY <1>1, <1>2, <1>3 DEF ProcessType
  <2> QED
    BY <1>1, <1>2, <2>1 DEF Inv, TypeOK
<1>5. ASSUME NEW h \in Files PROVE FileOK(h)' /\ ArtifactOK(h)'
  <2>1. FileOK(h)'
    BY DEF Inv, FileOK
  <2>2. CASE h = process.file
    <3> HIDE DEF status
    <3>1. Status(a.outcomes)' = Status(a.outcomes)
      BY <1>1 DEF Status, Clean
    <3> QED
      BY <1>1, <1>2, <1>4, <2>1, <2>2, <3>1 DEF ArtifactOK, ProcessOK, status
  <2>3. CASE h # process.file
    <3>1. artifact'[h] = artifact[h]
      BY <1>1, <1>2, <2>3 DEF Inv, TypeOK
    <3>2. Status(artifact[h].outcomes)' = Status(artifact[h].outcomes)
      BY <3>1 DEF Status, Clean
    <3> QED
      BY <2>1, <3>1, <3>2 DEF Inv, ArtifactOK
  <2> QED
    BY <2>1, <2>2, <2>3
<1>6. process' \in ProcessType /\ ProcessOK(process)' /\ LoadOK(process)'
  <2>1. CASE process' = Idle
    BY <2>1, IdleProcess
  <2>2. CASE process' = [process EXCEPT !.pc = "marking"]
    <3>1. /\ process' \in ProcessType
          /\ Held(process') = Held(process) /\ Load(process') = Load(process)
      BY <1>2, <2>2 DEF ProcessType, Held, Load
    <3> QED
      BY <1>2, <2>2, <3>1 DEF ProcessType, ProcessOK, LoadOK
  <2> QED
    BY <2>1, <2>2
<1> QED
  BY <1>4, <1>5, <1>6 DEF Inv, TypeOK

\* The state of the file of a process that ends is written, or it is torn.
LEMMA StateKeepsFiles ==
  ASSUME Inv, NEW f \in Files, NEW s \in {"complete", "torn"}, UNCHANGED artifact,
         file' = [file EXCEPT ![f].state = s]
  PROVE  file' \in [Files -> FileType] /\ \A h \in Files : FileOK(h)' /\ ArtifactOK(h)'
<1>1. file' \in [Files -> FileType]
  BY DEF Inv, TypeOK, FileType
<1>2. ASSUME NEW h \in Files PROVE FileOK(h)' /\ ArtifactOK(h)'
  <2>1. /\ file'[h].outcomes = file[h].outcomes /\ file'[h].identity = file[h].identity
        /\ file'[h].state = file[h].state \/ file'[h].state = s
    BY DEF Inv, TypeOK, FileType
  <2>2. Status(artifact[h].outcomes)' = Status(artifact[h].outcomes)
    BY DEF Status, Clean
  <2> QED
    BY <2>1, <2>2 DEF Inv, FileOK, ArtifactOK
<1> QED
  BY <1>1, <1>2

LEMMA EndStep ==
  ASSUME Inv, Drained \/ MarkComplete \/ Crash
  PROVE  Inv'
<1> USE DEF Drained, MarkComplete, Crash, At
<1>1. process' = Idle /\ UNCHANGED <<release, artifact, answers>> /\ process.pc # "idle"
  OBVIOUS
<1>2. process.file \in Files
  BY <1>1 DEF Inv, ProcessOK
<1>3. file' \in [Files -> FileType] /\ \A h \in Files : FileOK(h)' /\ ArtifactOK(h)'
  <2>1. CASE UNCHANGED file
    BY <1>1, <2>1, SameFiles DEF Inv, TypeOK
  <2>2. CASE \E s \in {"complete", "torn"} : file' = [file EXCEPT ![process.file].state = s]
    BY <1>1, <1>2, <2>2, StateKeepsFiles
  <2> QED
    BY <2>1, <2>2
<1> QED
  BY <1>1, <1>3, IdleProcess DEF Inv, TypeOK

LEMMA ReleaseMovesStep ==
  ASSUME Inv, ReleaseMoves \/ UNCHANGED vars
  PROVE  Inv'
<1> USE DEF ReleaseMoves, vars
<1>1. UNCHANGED <<file, artifact, answers, process>> /\ release' \in Releases
  BY EvaluationRunAssumption DEF Inv, TypeOK, Releases
<1>2. ProcessOK(process)' /\ LoadOK(process)'
  BY <1>1 DEF Inv, ProcessOK, LoadOK
<1> QED
  BY <1>1, <1>2, SameFiles DEF Inv, TypeOK

(***************************************************************************)
(* The theorems.                                                           *)
(***************************************************************************)
\* The inductive invariant of an evaluation.
THEOREM Invariance == Spec => []Inv
<1>1. Inv /\ [Next]_vars => Inv'
  <2> SUFFICES ASSUME Inv, [Next]_vars PROVE Inv'
    OBVIOUS
  <2>1. CASE \E f \in Files : Start(f) \/ Resume(f) \/ \E s \in Files : Seed(f, s)
    BY <2>1, StartStep, ResumeStep, SeedStep
  <2>2. CASE \E c \in Cases : Submit(c) \/ \E result \in Results : CaseEnds(c, result)
    BY <2>2, SubmitStep, CaseEndsStep
  <2>3. CASE \E o \in process.ended : Persist(o)
    BY <2>3, PersistStep
  <2>4. CASE CopySeed \/ Finish
    BY <2>4, CopySeedStep, FinishStep
  <2>5. CASE Drained \/ MarkComplete \/ Crash
    BY <2>5, EndStep
  <2>6. CASE ReleaseMoves \/ UNCHANGED vars
    BY <2>6, ReleaseMovesStep
  <2> QED
    BY <2>1, <2>2, <2>3, <2>4, <2>5, <2>6 DEF Next
<1> QED
  BY <1>1, InitInv, PTL DEF Spec

\* Files, artifacts and the process have their types: the count a process begins with too,
\* which never exceeds the cases of the dataset.
THEOREM Types == Spec => []TypeOK
<1>1. Inv => TypeOK
  BY DEF Inv
<1> QED
  BY <1>1, Invariance, PTL

\* A complete artifact is whole, clean and of one release (start, resume and seed of
\* benchmark.py, and the status the script writes).
THEOREM CompleteIsSound == Spec => []ArtifactIsSound
<1>1. Inv => ArtifactIsSound
  <2> SUFFICES ASSUME Inv, NEW f \in Files, artifact[f].status = "complete"
               PROVE  LET outcomes == artifact[f].outcomes
                      IN  /\ Cardinality(outcomes) = Cardinality(Cases)
                          /\ CasesOf(outcomes) = Cases
                          /\ \A o \in outcomes : Clean(o) /\ o.release = artifact[f].identity
    BY DEF ArtifactIsSound
  <2> DEFINE outcomes == artifact[f].outcomes
  <2>1. /\ outcomes \in SUBSET OutcomeType /\ outcomes \subseteq file[f].outcomes
        /\ artifact[f].identity = file[f].identity /\ Status(outcomes) = "complete"
    BY DEF Inv, TypeOK, ArtifactOK
  <2>2. OfOneRun(outcomes, file[f].identity)
    BY <2>1 DEF Inv, FileOK, OfOneRun
  <2>3. Cardinality(outcomes) = Cardinality(Cases) /\ \A o \in outcomes : Clean(o)
    BY <2>1 DEF Status
  <2> HIDE DEF outcomes
  <2>4. CasesOf(outcomes) = Cases
    BY <2>1, <2>2, <2>3, OneOutcomePerCase
  <2> QED
    BY <2>1, <2>2, <2>3, <2>4 DEF OfOneRun, outcomes
<1> QED
  BY <1>1, Invariance, PTL

\* No case of a run has a second outcome, and its artifact repeats its checkpoint.
THEOREM OutcomesAreKept == Spec => []OutcomesAreFinal
<1>1. Inv => OutcomesAreFinal
  <2> SUFFICES ASSUME Inv, NEW f \in Files
               PROVE  /\ Cardinality(CasesOf(file[f].outcomes)) = Cardinality(file[f].outcomes)
                      /\ artifact[f].outcomes \subseteq file[f].outcomes
    BY DEF OutcomesAreFinal
  <2>1. file[f].outcomes \in SUBSET OutcomeType /\ OfOneRun(file[f].outcomes, file[f].identity)
    BY DEF Inv, TypeOK, FileType, FileOK
  <2> QED
    BY <2>1, OneOutcomePerCase DEF Inv, ArtifactOK
<1> QED
  BY <1>1, Invariance, PTL

\* The calls a run measures, which are those of the cases that were answered, exceed its budget
\* by the cases in flight at most, whatever the number of workers and of processes it took.
THEOREM BudgetIsKept == Spec => []BudgetHolds
<1>1. Inv => BudgetHolds
  <2> SUFFICES ASSUME Inv, process.pc = "running", process.budget # 0
               PROVE  Cardinality(Spent(process.outcomes))
                        <= Max({process.found, process.budget + process.workers - 1})
    BY DEF BudgetHolds, At
  <2>1. process \in ProcessType /\ ProcessOK(process) /\ LoadOK(process)
    BY DEF Inv, TypeOK
  <2>2. process.seeds = {} /\ OfOneRun(Held(process), process.release)
    BY <2>1 DEF ProcessOK
  <2>3. /\ Cardinality(Spent(process.outcomes)) \in Nat /\ Cardinality(process.ended) \in Nat
    <3>1. /\ Held(process) \in SUBSET OutcomeType /\ process.ended \in SUBSET Held(process)
          /\ process.outcomes \in SUBSET Held(process)
      BY <2>1 DEF ProcessType, Held
    <3> QED
      BY <2>2, <3>1, FinitePart, Measured
  <2>4. Cardinality(process.inFlight) \in Nat
    BY <2>1, CasesAreFinite, FS_Subset, FS_CardinalityType DEF ProcessType
  <2>5. Cardinality(Spent(process.outcomes)) <= Load(process) /\ Load(process) \in Int
    <3>1. process.outcomes \cup process.seeds = process.outcomes
      BY <2>2
    <3>2. Load(process) = Cardinality(Spent(process.outcomes))
                            + Cardinality(process.ended) + Cardinality(process.inFlight)
      BY <3>1 DEF Load
    <3> QED
      BY <2>3, <2>4, <3>2
  <2>6. Load(process) <= process.found \/ Load(process) <= process.budget + process.workers - 1
    BY <2>1 DEF LoadOK
  <2>7. process.workers \in Int /\ process.budget \in Int /\ process.found \in Int
    BY <2>1, Numbers
  <2>8. \/ Cardinality(Spent(process.outcomes)) <= process.found
        \/ Cardinality(Spent(process.outcomes)) <= process.budget + process.workers - 1
    BY <2>3, <2>5, <2>6, <2>7
  <2>9. process.budget + process.workers - 1 \in Int /\ Cardinality(Spent(process.outcomes)) \in Int
    BY <2>3, <2>7
  <2> QED
    BY <2>7, <2>8, <2>9, MaxOfTwo
<1> QED
  BY <1>1, Invariance, PTL

--------------------------------------------------------------------------------
(***************************************************************************)
(* The review of the dataset: what a certificate says stays true of the log *)
(* it was drawn from, however many verdicts come in while it is drawn.      *)
(***************************************************************************)
Stores == Versions \cup {NoVersion}

EventType == [case : ReviewCases, verdict : {"approve", "reject"}, store : Stores,
              previous : Int]
ReviewType == [store : Stores, verdict : {"approve", "reject"}, todo : SUBSET ReviewCases,
               head : Int]

LogOK ==
    /\ log \in Seq(EventType) /\ reviews \in [Reviewers -> ReviewType]
    /\ dataset \in Stores /\ bound \in Stores

\* What finalize saw of a store when it began: the events up to some head.
Before(store, head) == {j \in EventsOf(store) : j <= head}

ChainedUpTo(store, head) ==
    \A j \in Before(store, head) :
        log[j].previous = LastOf({k \in Before(store, head) : k < j})

DraftOK ==
    /\ draft \in {NoDraft} \cup [stage : {"ready", "written"}, store : Stores, head : Nat]
    /\ draft.stage = "ready" =>
          /\ draft.head \in 0..Len(log) /\ ChainedUpTo(draft.store, draft.head)
          /\ \A c \in ReviewCases : \E i \in EventsOf(draft.store) : log[i].case = c

\* An attestation is an event of its case that approves it, none later up to the head.
Attested(store, head, c, i) ==
    /\ i \in DOMAIN log /\ log[i].case = c /\ log[i].store = store
    /\ log[i].verdict = "approve"
    /\ \A j \in Before(store, head) : log[j].case = c => j <= i

CertificateOK ==
    certificate.kind # "none" =>
        /\ certificate.head \in 0..Len(log)
        /\ ChainedUpTo(certificate.cases, certificate.head)
        /\ \A c \in ReviewCases :
              Attested(certificate.cases, certificate.head, c, certificate.attested[c])

ReviewInv == LogOK /\ DraftOK /\ CertificateOK

LEMMA LogFields ==
  ASSUME LogOK
  PROVE  /\ Len(log) \in Nat /\ DOMAIN log = 1..Len(log)
         /\ \A i \in DOMAIN log : log[i] \in EventType
  BY DEF LogOK

\* A set of positions has a last one.
LEMMA LastIndex ==
  ASSUME NEW n \in Nat, NEW S \in SUBSET (1..n), S # {}
  PROVE  \E i \in S : \A j \in S : j <= i
<1> DEFINE T == {i..n : i \in S}
           R == StrictSubsetOrdering(Nat)
<1>1. T \subseteq FiniteSubsetsOf(Nat) /\ T # {}
  <2>1. \A i \in S : IsFiniteSet(i..n) /\ i..n \in SUBSET Nat
    BY FS_Interval
  <2> QED BY <2>1 DEF FiniteSubsetsOf
<1>2. IsWellFoundedOn(R, FiniteSubsetsOf(Nat))
  BY FS_StrictSubsetOrderingWellFounded
<1>3. PICK x \in T : \A y \in T : ~ (<<y, x>> \in R)
  BY <1>1, <1>2, WFMin
<1>4. PICK i \in S : x = i..n
  BY <1>3
<1>5. ASSUME NEW j \in S, i < j PROVE FALSE
  <2>1. j..n \in T /\ j..n \subseteq i..n /\ i \in i..n /\ i \notin j..n
    BY <1>5
  <2>2. <<j..n, x>> \in R
    BY <1>4, <2>1 DEF StrictSubsetOrdering
  <2> QED BY <1>3, <2>1, <2>2
<1>6. \A j \in S : j <= i
  BY <1>5
<1> QED BY <1>6

\* The last of some events of the log is one of them.
LEMMA LastIsLast ==
  ASSUME LogOK, NEW S \in SUBSET DOMAIN log
  PROVE  /\ LastOf(S) \in 0..Len(log)
         /\ S # {} => LastOf(S) \in S
         /\ \A j \in S : j <= LastOf(S)
<1>1. PICK n \in Nat : n = Len(log) /\ DOMAIN log = 1..n
  BY LogFields
<1>2. CASE S = {}
  BY <1>1, <1>2 DEF LastOf
<1>3. CASE S # {}
  <2>1. \E i \in S : \A j \in S : j <= i
    BY <1>1, <1>3, LastIndex
  <2>2. LastOf(S) \in S /\ \A j \in S : j <= LastOf(S)
    BY <1>3, <2>1 DEF LastOf
  <2> QED BY <1>1, <2>2
<1> QED BY <1>2, <1>3

(***************************************************************************)
(* Verdicts that come in later change nothing that was said before.        *)
(***************************************************************************)
\* The log grows at its end.
LogGrows ==
    /\ Len(log) \in Nat /\ DOMAIN log = 1..Len(log)
    /\ \/ log' = log
       \/ /\ DOMAIN log' = 1..(Len(log) + 1) /\ Len(log') = Len(log) + 1
          /\ \A i \in DOMAIN log : log'[i] = log[i]

LEMMA BeforeStays ==
  ASSUME LogGrows, NEW store, NEW head \in 0..Len(log)
  PROVE  /\ Before(store, head)' = Before(store, head)
         /\ ChainedUpTo(store, head) => ChainedUpTo(store, head)'
         /\ head \in 0..Len(log')
         /\ \A c, i : Attested(store, head, c, i) => Attested(store, head, c, i)'
<1>1. CASE log' = log
  BY <1>1 DEF Before, EventsOf, ChainedUpTo, Attested
<1>2. CASE /\ DOMAIN log' = 1..(Len(log) + 1) /\ Len(log') = Len(log) + 1
           /\ \A i \in DOMAIN log : log'[i] = log[i]
  <2>1. Len(log) \in Nat /\ DOMAIN log = 1..Len(log)
    BY DEF LogGrows
  <2>2. Before(store, head)' = Before(store, head)
    <3>1. \A j : j \in DOMAIN log' /\ j <= head <=> j \in DOMAIN log /\ j <= head
      BY <1>2, <2>1
    <3> QED BY <1>2, <3>1 DEF Before, EventsOf
  <2>3. \A j \in Before(store, head) : log'[j] = log[j]
    BY <1>2 DEF Before, EventsOf
  <2>4. ChainedUpTo(store, head) => ChainedUpTo(store, head)'
    BY <2>2, <2>3 DEF ChainedUpTo, LastOf
  <2>5. \A c, i : Attested(store, head, c, i) => Attested(store, head, c, i)'
    <3> SUFFICES ASSUME NEW c, NEW i, Attested(store, head, c, i)
                 PROVE  Attested(store, head, c, i)'
      OBVIOUS
    <3>1. i \in DOMAIN log /\ i \in DOMAIN log' /\ log'[i] = log[i]
      BY <1>2, <2>1 DEF Attested
    <3>2. \A j \in Before(store, head)' : log'[j].case = c => j <= i
      BY <2>2, <2>3 DEF Attested
    <3> QED BY <3>1, <3>2 DEF Attested
  <2>6. head \in 0..Len(log')
    BY <1>2, <2>1
  <2> QED BY <2>2, <2>4, <2>5, <2>6
<1> QED BY <1>1, <1>2 DEF LogGrows

LEMMA CertificateStays ==
  ASSUME CertificateOK, LogGrows, certificate' = certificate
  PROVE  CertificateOK'
<1>1. PICK c : c = certificate
  OBVIOUS
<1>2. CASE c.kind = "none"
  BY <1>1, <1>2 DEF CertificateOK
<1>3. CASE c.kind # "none"
  <2>1. /\ c.head \in 0..Len(log) /\ ChainedUpTo(c.cases, c.head)
        /\ \A case \in ReviewCases : Attested(c.cases, c.head, case, c.attested[case])
    BY <1>1, <1>3 DEF CertificateOK
  <2>2. /\ c.head \in 0..Len(log') /\ ChainedUpTo(c.cases, c.head)'
        /\ \A case \in ReviewCases : Attested(c.cases, c.head, case, c.attested[case])'
    BY <2>1, BeforeStays
  <2> QED BY <1>1, <2>2 DEF CertificateOK
<1> QED BY <1>2, <1>3

LEMMA DraftStays ==
  ASSUME DraftOK, LogGrows, draft' = draft
  PROVE  DraftOK'
<1>1. PICK d : d = draft
  OBVIOUS
<1>2. d.stage = "ready" =>
         /\ d.head \in 0..Len(log') /\ ChainedUpTo(d.store, d.head)'
         /\ \A c \in ReviewCases : \E i \in EventsOf(d.store)' : log'[i].case = c
  <2> SUFFICES ASSUME d.stage = "ready"
               PROVE  /\ d.head \in 0..Len(log') /\ ChainedUpTo(d.store, d.head)'
                      /\ \A c \in ReviewCases : \E i \in EventsOf(d.store)' : log'[i].case = c
    OBVIOUS
  <2>1. /\ d.head \in 0..Len(log) /\ ChainedUpTo(d.store, d.head)
        /\ \A c \in ReviewCases : \E i \in EventsOf(d.store) : log[i].case = c
    BY <1>1 DEF DraftOK
  <2>2. \A i \in EventsOf(d.store) : i \in EventsOf(d.store)' /\ log'[i] = log[i]
    BY DEF LogGrows, EventsOf
  <2> QED BY <2>1, <2>2, BeforeStays
<1> QED BY <1>1, <1>2 DEF DraftOK

(***************************************************************************)
(* The steps.                                                              *)
(***************************************************************************)
LEMMA ReviewInitInv == ASSUME ReviewInit PROVE ReviewInv
<1>1. LogOK
  BY DEF ReviewInit, LogOK, ReviewType, NoReview, Stores
<1>2. DraftOK
  BY DEF ReviewInit, DraftOK, NoDraft
<1>3. CertificateOK
  BY DEF ReviewInit, CertificateOK, NoCertificate
<1> QED BY <1>1, <1>2, <1>3 DEF ReviewInv

LEMMA NothingRecorded == ASSUME LogOK, log' = log PROVE LogGrows
  BY LogFields DEF LogGrows

LEMMA EventsAreEvents ==
  ASSUME NEW store
  PROVE  EventsOf(store) \subseteq DOMAIN log
  BY DEF EventsOf

\* What a command may still have to do.
LEMMA ReviewRecords ==
  /\ NoReview \in ReviewType
  /\ \A s \in Stores, v \in {"approve", "reject"}, T \in SUBSET ReviewCases, h \in Int :
        [store |-> s, verdict |-> v, todo |-> T, head |-> h] \in ReviewType
  /\ \A r \in ReviewType, h \in Int : [r EXCEPT !.head = h] \in ReviewType
  /\ \A r \in ReviewType, T \in SUBSET ReviewCases : [r EXCEPT !.todo = T, !.head = -1] \in ReviewType
<1>1. \A s \in Stores, v \in {"approve", "reject"}, T \in SUBSET ReviewCases, h \in Int :
        [store |-> s, verdict |-> v, todo |-> T, head |-> h] \in ReviewType
  BY DEF ReviewType
<1>2. NoReview \in ReviewType
  <2>1. NoVersion \in Stores /\ {} \in SUBSET ReviewCases /\ -1 \in Int
    BY DEF Stores
  <2> QED BY <1>1, <2>1 DEF NoReview
<1>3. ASSUME NEW r \in ReviewType, NEW h \in Int PROVE [r EXCEPT !.head = h] \in ReviewType
  BY DEF ReviewType
<1>4. ASSUME NEW r \in ReviewType, NEW T \in SUBSET ReviewCases
      PROVE  [r EXCEPT !.todo = T, !.head = -1] \in ReviewType
  <2>1. PICK h \in Int : h = -1
    OBVIOUS
  <2>2. [r EXCEPT !.todo = T, !.head = h] \in ReviewType
    BY DEF ReviewType
  <2> QED BY <2>1, <2>2
<1> QED BY <1>1, <1>2, <1>3, <1>4

LEMMA Recording ==
  ASSUME ReviewInv, NEW p \in Reviewers, RecordReview(p)
  PROVE  ReviewInv'
<1>1. PICK r : r = reviews[p]
  OBVIOUS
<1>3. r \in ReviewType /\ reviews \in [Reviewers -> ReviewType]
  BY <1>1 DEF ReviewInv, LogOK
<1>2. PICK c \in r.todo :
        /\ log' = Append(log, [case |-> c, verdict |-> r.verdict, store |-> r.store,
                               previous |-> r.head])
        /\ \/ reviews' = [reviews EXCEPT ![p] = NoReview]
           \/ reviews' = [reviews EXCEPT ![p] = [r EXCEPT !.todo = r.todo \ {c}, !.head = -1]]
  BY <1>1 DEF RecordReview
<1>4. PICK e \in EventType : log' = Append(log, e)
  BY <1>2, <1>3 DEF ReviewType, EventType
<1>5. LogOK'
  <2>1. log' \in Seq(EventType)
    BY <1>4 DEF ReviewInv, LogOK
  <2>2. NoReview \in ReviewType /\ [r EXCEPT !.todo = r.todo \ {c}, !.head = -1] \in ReviewType
    <3>1. r.todo \ {c} \in SUBSET ReviewCases
      BY <1>3 DEF ReviewType
    <3> QED BY <1>3, <3>1, ReviewRecords
  <2>3. reviews' \in [Reviewers -> ReviewType]
    BY <1>2, <2>2 DEF ReviewInv, LogOK
  <2> QED BY <2>1, <2>3 DEF RecordReview, ReviewInv, LogOK
<1>6. LogGrows
  BY <1>4 DEF LogGrows, ReviewInv, LogOK
<1> QED BY <1>5, <1>6, DraftStays, CertificateStays DEF ReviewInv, RecordReview

\* Commands that only read the log.
LEMMA Reviewing ==
  ASSUME ReviewInv, NEW p \in Reviewers, StartReview(p) \/ AttestAllApproved(p) \/ ReadHead(p)
  PROVE  ReviewInv'
<1>1. UNCHANGED <<dataset, bound, log, draft, certificate>>
  BY DEF StartReview, AttestAllApproved, ReadHead
<1>2. reviews' \in [Reviewers -> ReviewType]
  <2>1. CASE StartReview(p)
    <3>1. PICK r : /\ r \in ReviewType /\ reviews' = [reviews EXCEPT ![p] = r]
      <4>1. PICK c \in ReviewCases, v \in {"approve", "reject"} :
              reviews' = [reviews EXCEPT ![p] = [store |-> bound, verdict |-> v,
                                                 todo |-> {c}, head |-> -1]]
        BY <2>1 DEF StartReview
      <4>2. bound \in Stores /\ {c} \in SUBSET ReviewCases /\ -1 \in Int
        BY DEF ReviewInv, LogOK
      <4> QED BY <4>1, <4>2, ReviewRecords
    <3> QED BY <3>1 DEF ReviewInv, LogOK
  <2>2. CASE AttestAllApproved(p)
    <3>1. PICK r : /\ r \in ReviewType /\ reviews' = [reviews EXCEPT ![p] = r]
      <4>1. PICK T \in SUBSET ReviewCases : T = {c \in ReviewCases : ~Approved(bound, c)}
        OBVIOUS
      <4>2. PICK r : /\ r = [store |-> bound, verdict |-> "approve", todo |-> T, head |-> -1]
                     /\ reviews' = [reviews EXCEPT ![p] = r]
        BY <2>2, <4>1 DEF AttestAllApproved
      <4>3. bound \in Stores /\ -1 \in Int
        BY DEF ReviewInv, LogOK
      <4> QED BY <4>2, <4>3, ReviewRecords
    <3> QED BY <3>1 DEF ReviewInv, LogOK
  <2>3. CASE ReadHead(p)
    <3>1. PICK r : r = reviews[p]
      OBVIOUS
    <3>2. EventsOf(r.store) \in SUBSET DOMAIN log
      BY EventsAreEvents
    <3>3. ChainHead(r.store) \in 0..Len(log) /\ Len(log) \in Nat
      BY <3>2, LastIsLast, LogFields DEF ChainHead, ReviewInv
    <3>4. PICK h \in Int : h = ChainHead(r.store)
      BY <3>3
    <3>5. r \in ReviewType /\ NoReview \in ReviewType /\ [r EXCEPT !.head = h] \in ReviewType
      <4>1. r \in ReviewType
        BY <3>1 DEF ReviewInv, LogOK
      <4> QED BY <3>4, <4>1, ReviewRecords
    <3>6. \/ reviews' = [reviews EXCEPT ![p] = [r EXCEPT !.head = h]]
          \/ reviews' = [reviews EXCEPT ![p] = NoReview]
      BY <2>3, <3>1, <3>4 DEF ReadHead
    <3> QED BY <3>5, <3>6 DEF ReviewInv, LogOK
  <2> QED BY <2>1, <2>2, <2>3
<1>3. LogOK'
  BY <1>1, <1>2 DEF ReviewInv, LogOK
<1> QED BY <1>1, <1>3, NothingRecorded, DraftStays, CertificateStays DEF ReviewInv

\* Everything there is on the store when finalize begins comes before the head it saw.
LEMMA Readying ==
  ASSUME ReviewInv, CheckReady
  PROVE  ReviewInv'
<1>1. UNCHANGED <<dataset, bound, log, reviews, certificate>>
  BY DEF CheckReady
<1>2. EventsOf(bound) \in SUBSET DOMAIN log
  BY EventsAreEvents
<1>3. PICK h : h = ChainHead(bound)
  OBVIOUS
<1>4. /\ h \in 0..Len(log) /\ Len(log) \in Nat
      /\ \A j \in EventsOf(bound) : j <= h
  BY <1>2, <1>3, LastIsLast, LogFields DEF ChainHead, ReviewInv
<1>5. Before(bound, h) = EventsOf(bound)
  BY <1>4 DEF Before
<1>6. ChainedUpTo(bound, h)
  BY <1>5 DEF CheckReady, Opens, Chained, ChainedUpTo
<1>7. \A c \in ReviewCases : \E i \in EventsOf(bound) : log[i].case = c
  <2> SUFFICES ASSUME NEW c \in ReviewCases
               PROVE  \E i \in EventsOf(bound) : log[i].case = c
    OBVIOUS
  <2>1. Latest(bound, c) # 0
    BY DEF CheckReady, ReleaseReady, Approved
  <2> QED BY <2>1 DEF Latest, LastOf
<1>8. PICK d : d = [stage |-> "ready", store |-> bound, head |-> h] /\ draft' = d
  BY <1>3 DEF CheckReady
<1>9. d.stage = "ready" /\ d.store = bound /\ d.head = h
  BY <1>8
<1>10. d \in [stage : {"ready", "written"}, store : Stores, head : Nat]
  BY <1>4, <1>8 DEF ReviewInv, LogOK
<1>11. /\ ChainedUpTo(d.store, d.head)'
       /\ \A c \in ReviewCases : \E i \in EventsOf(d.store)' : log'[i].case = c
  BY <1>1, <1>6, <1>7, <1>9 DEF ChainedUpTo, Before, EventsOf
<1>12. DraftOK'
  BY <1>1, <1>4, <1>8, <1>9, <1>10, <1>11 DEF DraftOK
<1>13. LogOK'
  BY <1>1 DEF ReviewInv, LogOK
<1> QED BY <1>1, <1>12, <1>13, NothingRecorded, CertificateStays DEF ReviewInv

\* The certificate is drawn later, and refused if a verdict has turned.
LEMMA Building ==
  ASSUME ReviewInv, BuildCertificate
  PROVE  ReviewInv'
<1>1. UNCHANGED <<dataset, bound, log, reviews>>
  BY DEF BuildCertificate
<1>2. PICK d : d = draft
  OBVIOUS
<1>3. /\ d \in [stage : {"ready", "written"}, store : Stores, head : Nat]
      /\ d.head \in 0..Len(log) /\ ChainedUpTo(d.store, d.head)
      /\ \A c \in ReviewCases : \E i \in EventsOf(d.store) : log[i].case = c
  BY <1>2 DEF BuildCertificate, ReviewInv, DraftOK, NoDraft
<1>4. PICK new : new = [kind |-> "dataset-human-review", cases |-> d.store,
                        attested |-> Attestations(d.store), head |-> d.head]
  OBVIOUS
<1>5. /\ new.kind # "none" /\ new.cases = d.store /\ new.head = d.head
      /\ \A c \in ReviewCases : new.attested[c] = Latest(d.store, c)
  BY <1>4 DEF Attestations
<1>6. \/ /\ VerifyReviewCertificate(new, d.store) /\ certificate' = new
         /\ draft' = [d EXCEPT !.stage = "written"]
      \/ draft' = NoDraft /\ UNCHANGED certificate
  BY <1>2, <1>4 DEF BuildCertificate
<1>7. DraftOK'
  <2>1. [d EXCEPT !.stage = "written"] \in [stage : {"ready", "written"}, store : Stores, head : Nat]
    BY <1>3
  <2>2. [d EXCEPT !.stage = "written"].stage # "ready" /\ NoDraft.stage # "ready"
    BY <1>3 DEF NoDraft
  <2> QED BY <1>6, <2>1, <2>2 DEF DraftOK
<1>8. LogOK'
  BY <1>1 DEF ReviewInv, LogOK
<1>9. CASE VerifyReviewCertificate(new, d.store) /\ certificate' = new
  <2>1. ASSUME NEW c \in ReviewCases
        PROVE  Attested(d.store, d.head, c, new.attested[c])
    <3>1. PICK S : S = {i \in EventsOf(d.store) : log[i].case = c}
      OBVIOUS
    <3>2. S \in SUBSET DOMAIN log /\ S # {}
      BY <1>3, <3>1, EventsAreEvents
    <3>3. PICK i : i = new.attested[c] /\ i \in S /\ \A j \in S : j <= i
      BY <1>5, <3>1, <3>2, LastIsLast DEF Latest, ReviewInv
    <3>4. log[i].verdict = "approve"
      BY <1>9, <3>3 DEF VerifyReviewCertificate
    <3> QED BY <3>1, <3>3, <3>4 DEF Attested, Before, EventsOf
  <2>2. \A c \in ReviewCases : Attested(new.cases, new.head, c, new.attested[c])
    BY <1>5, <2>1
  <2>3. /\ new.head \in 0..Len(log') /\ ChainedUpTo(new.cases, new.head)'
        /\ \A c \in ReviewCases : Attested(new.cases, new.head, c, new.attested[c])'
    BY <1>1, <1>3, <1>5, <2>2 DEF ChainedUpTo, Attested, Before, EventsOf
  <2>4. CertificateOK'
    BY <1>9, <2>3 DEF CertificateOK
  <2> QED BY <1>7, <1>8, <2>4 DEF ReviewInv
<1>10. CASE UNCHANGED certificate
  BY <1>1, <1>7, <1>8, <1>10, NothingRecorded, CertificateStays DEF ReviewInv
<1> QED BY <1>6, <1>9, <1>10

\* What touches neither the log nor what was drawn from it.
LEMMA Administering ==
  ASSUME ReviewInv,
         InitStore \/ EnterCertificate \/ CommandDies \/ WriteCases \/ WriteManifest
           \/ UNCHANGED reviewVars
  PROVE  ReviewInv'
<1>1. UNCHANGED <<log, certificate>>
  BY DEF InitStore, EnterCertificate, CommandDies, WriteCases, WriteManifest, reviewVars
<1>2. draft' = draft \/ draft' = NoDraft
  BY DEF InitStore, EnterCertificate, CommandDies, WriteCases, WriteManifest, reviewVars
<1>3. LogOK'
  <2>1. dataset' \in Stores /\ bound' \in Stores
    BY DEF InitStore, EnterCertificate, CommandDies, WriteCases, WriteManifest, reviewVars,
       ReviewInv, LogOK, Stores
  <2>2. reviews' \in [Reviewers -> ReviewType]
    <3>1. NoReview \in ReviewType
      BY DEF ReviewType, NoReview, Stores
    <3> QED BY <3>1 DEF InitStore, EnterCertificate, CommandDies, WriteCases, WriteManifest,
               reviewVars, ReviewInv, LogOK
  <2> QED BY <1>1, <2>1, <2>2 DEF ReviewInv, LogOK
<1>4. LogGrows
  BY <1>1, NothingRecorded DEF ReviewInv
<1>5. DraftOK'
  <2>1. CASE draft' = draft
    BY <1>4, <2>1, DraftStays DEF ReviewInv
  <2>2. CASE draft' = NoDraft
    BY <2>2 DEF DraftOK, NoDraft
  <2> QED BY <1>2, <2>1, <2>2
<1> QED BY <1>1, <1>3, <1>4, <1>5, CertificateStays DEF ReviewInv

LEMMA ReviewNextInv == ASSUME ReviewInv, [ReviewNext]_reviewVars PROVE ReviewInv'
  BY Recording, Reviewing, Readying, Building, Administering DEF ReviewNext

\* However many reviewers give their verdicts while the certificate is drawn, whoever dies
\* between its two files and whenever the dataset is generated again: a dataset that loads as
\* reviewed is one whose every case was approved, on a log that was then a chain.
THEOREM DatasetsAreReviewed == ReviewSpec => []ReviewedIsApproved
<1>1. ASSUME ReviewInv
      PROVE  ReviewedIsApproved
  <2> SUFFICES ASSUME Verified, NEW c \in ReviewCases
               PROVE  LET i == certificate.attested[c]
                          before == {j \in EventsOf(dataset) : j <= certificate.head}
                      IN /\ i # 0 /\ log[i].case = c /\ log[i].store = dataset
                         /\ log[i].verdict = "approve"
                         /\ \A j \in before : log[j].case = c => j <= i
                         /\ \A j \in before : log[j].previous = LastOf({k \in before : k < j})
    BY DEF ReviewedIsApproved
  <2>1. certificate.kind # "none" /\ certificate.cases = dataset
    BY DEF Verified, LoadDataset, VerifyReviewCertificate
  <2>2. /\ ChainedUpTo(dataset, certificate.head)
        /\ Attested(dataset, certificate.head, c, certificate.attested[c])
    BY <1>1, <2>1 DEF ReviewInv, CertificateOK
  <2>3. certificate.attested[c] \in DOMAIN log /\ DOMAIN log = 1..Len(log) /\ Len(log) \in Nat
    BY <1>1, <2>2, LogFields DEF Attested, ReviewInv
  <2>4. certificate.attested[c] # 0
    BY <2>3
  <2> QED BY <2>2, <2>4 DEF Attested, ChainedUpTo, Before
<1> QED BY <1>1, ReviewInitInv, ReviewNextInv, PTL DEF ReviewSpec
=============================================================================
