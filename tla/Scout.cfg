SPECIFICATION ScoutSpec
CONSTANTS
  g1 = g1
  g2 = g2
  g3 = g3
  h1 = h1
  h2 = h2
  Parts = {"contexts", "once", "retried", "again", "calls", "log", "timeline", "scanning", "keeping", "asking"}
  Transcripts <- FourTranscripts
  LogOf <- TheirLogs
  Logs = {"log", "other"}
  SampleOf <- Scanned
  Samples <- InLogs
  NoUuid = "none"
  MaxFailures = 2
SYMMETRY Symmetric
INVARIANTS
  ReadOnce
  StepsCiteTheirOwn
  ScansAgree
CHECK_DEADLOCK FALSE
