SPECIFICATION Spec
CONSTANTS
  Files = {events, meta}
  LogMeta = log_meta
  Rows = {r1, r2}
  Counts = counts
  WriteErrors = FALSE
  MaxRows = 3
INVARIANT DurableAtClose
