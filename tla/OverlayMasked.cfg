SPECIFICATION Spec
CONSTANTS
  f = f g = g c1 = c1 c2 = c2 c3 = c3 o1 = o1 o2 = o2
  Nobody = Nobody
  Cmd = {c1}
  Other = {o2}
  Field = {f, g}
  Writes <- TwoFields
  Fallible = {}
  Eager = FALSE
INVARIANT SettledShowsServer
CHECK_DEADLOCK FALSE
