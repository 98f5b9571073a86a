SPECIFICATION MCSpec
CONSTANTS
  Tickets = {t1}
  Fixes = {f1, f2}
  Limits = {1, 2}
  MaxPerTicket = 1
  NoTicket = NoTicket
  Nodes = {a, b, c}
  NumChildren = 3
  NumRepos = 3
  Titles = {x1, x2}
  Evals = {r1}
  MaxKids = 3
  MaxReeval = 1
  Overlaps = FALSE
SYMMETRY Symmetry
INVARIANTS  ComponentsAreExact PlanIsSound
 
CHECK_DEADLOCK FALSE
