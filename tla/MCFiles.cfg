CONSTANTS
  s1 = s1  s2 = s2  t1 = t1  t2 = t2  c1 = c1  c2 = c2
  p1 = p1  p2 = p2  v1 = v1  v2 = v2
  Both = {s1, s2}  Parts = {p1, p2}  Versions = {v1, v2}  Backups = 2
  NoFile = NoFile  Folder = Folder  NoProject = NoProject  None = None
  Simulators = {s1}
  Projects = {t1, t2}
  Contents = {c1, c2}
SYMMETRY Alike
SPECIFICATION MCSpec
INVARIANTS ProjectsAreWhole SavesAreSound LibraryIsSound
