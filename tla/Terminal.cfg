SPECIFICATION Spec
CONSTANTS
  None = None
  t1 = t1
  t2 = t2
  t3 = t3
  outer = outer
  inner = inner
  solution = solution
  notes = notes
  Terminals = {t1, t2, t3}
  Roots = {outer, inner}
  Files = {solution, notes}
  Solutions = {solution}
  Around <- Layout
  MaxCommands = 2
INVARIANTS TypeOK OneDuckTerminal
SYMMETRY Symmetric
CHECK_DEADLOCK FALSE
