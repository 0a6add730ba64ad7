SPECIFICATION Spec
CONSTANTS
  Jobs <- TestJobs
  Text <- ShellText
  PIPE_CAPACITY = 4
  MaxFds = 8
  MaxProcs = 2
  Faults = {}
INVARIANT PipelineDelivers
