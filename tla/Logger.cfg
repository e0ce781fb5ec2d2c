SPECIFICATION FairSpec
CONSTANTS
  Files = {events, meta}
  LogMeta = log_meta
  Rows = {r1, r2}
  Counts = counts
  WriteErrors = FALSE
  MaxRows = 3
INVARIANTS TypeOK AppendOnly BufferLifetime QuiescentAtClose MetaTruthful
PROPERTIES AppendLogSpec FlushTerminates
