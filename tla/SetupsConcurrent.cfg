SPECIFICATION SetupsSpec
CONSTANTS
  Nil = Nil
  Maps = {m1, m2, m3}
  Machines = {c1, c2}
  ToolSets = {s1, s2}
  Workers = {w1, w2}
SYMMETRY Symmetry
INVARIANTS
  OneActive
