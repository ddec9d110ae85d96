SPECIFICATION Spec
CONSTANTS
  None = None
  Bad = Bad
  a1 = a1
  a2 = a2
  p1 = p1
  p2 = p2
  s1 = s1
  x1 = x1
  x2 = x2
  d1 = d1
  m1 = m1
  m2 = m2
  Thread = {t1, t2}
  Request = {r1}
  Prompt = {p1, p2}
  Root = {d1}
  Text = {x1, x2}
  Content <- MCContent
  Initial <- MCInitial
  MaxEdits = 2
  MaxRevision = 3
SYMMETRY CallerSymmetry
INVARIANTS
  PublishedIsCoherent
  RevisionsNameRuntimes
  RunsKeepTheirRevision
PROPERTIES
  QuietReloadIsExact
