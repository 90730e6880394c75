CONSTANTS
  r1 = r1  r2 = r2  q1 = q1  s1 = s1  s2 = s2
  Lost = Lost  Nobody = Nobody
  Replicas = {r1, r2}
  Requests = {q1}
  Sessions = {s1, s2}
  PoolMax = 2
  Routes <- AllRoutes
  MaxBoots = 1
  MinSize = 2
  ErrorSize = 1
SPECIFICATION Spec
INVARIANT InFlightAnswered
\* The boots are bounded.
CHECK_DEADLOCK FALSE
