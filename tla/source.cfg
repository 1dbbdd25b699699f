\* Two overlapping calls on one source, over three queries and a cache of two.
SPECIFICATION CacheSpec
CONSTANTS
  Callers = {c1, c2}
  FailThreshold = 3
  MaxFails = 5
  None = None
  Queries = {q1, q2, q3}
  NoQuery = NoQuery
  MaxEntries = 2
SYMMETRY Symmetry
INVARIANTS CacheInv BenchingJust OrderIsRecency
