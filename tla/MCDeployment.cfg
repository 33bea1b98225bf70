CONSTANTS
  delta = delta
  modern = modern
  full = full
  None = None
  Terminals = {t1, t2}
  Paths = {default, fresh}
  DefaultPath = default
  Addrs = {port}
  Inputs = {delta, modern, full}
  Dumps = {delta, modern}
  Recs <- MCRecs
  MaxRuns = 3
SPECIFICATION Spec
INVARIANTS TypeOK ImportedIsServed ServedImportsEnded NothingForeign
PROPERTIES ServedUnchanging
SYMMETRY Symmetric
CHECK_DEADLOCK FALSE
