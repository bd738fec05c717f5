INIT LessonsOnly
NEXT Next
CONSTANTS
  Members <- Dataset
  Returns <- EngineResults
  Usual <- UsualResults
  MaxUnusual = 2
  PlanWorkers = {w1}
  Sqls = {s1, s2}
  NoSql = NoSql
  Worlds = {d1, d2}
  Fallback = {d2}
  ReviewCases = {c1, c2}
  Versions = {v1, v2}
  NoVersion = NoVersion
  Reviewers = {p1, p2}
  MaxEvents = 3
  MaxBuilds = 1
SYMMETRY Symmetry
INVARIANT BaselineReproduces
CHECK_DEADLOCK FALSE
