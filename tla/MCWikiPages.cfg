CONSTANTS
  p1 = p1
  p2 = p2
  here = here
  elsewhere = elsewhere
  bare = bare
  tagged = tagged
  written = written
  typed = typed
  c1 = c1
  c2 = c2
  None = None
  PageIds = {p1, p2}
  Locales = {"en", "de"}
  WriteLocale = "en"
  Paths = {here, elsewhere}
  Metas = {bare, tagged}
  Plain = bare
  Texts = {written, typed}
  Calls = {c1, c2}
  Reads <- MCReads
  Writes <- MCWrites
  MaxEdits = 2
SPECIFICATION Spec
SYMMETRY Symmetry
CHECK_DEADLOCK FALSE
INVARIANTS
  ReadStoodThere
  WroteWhereNamed
PROPERTY MetaCarriedOver
