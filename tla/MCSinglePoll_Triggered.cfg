CONSTANTS
  short = short
  mid = mid
  slotJob = slotJob
  shortWatch = shortWatch
  midWatch = midWatch
  Startup = startup
  Nobody = nobody
  Requests = {r1}
  Kinds <- MCKinds
  Jobs <- MCJobs
  JobsOf <- MCJobsOf
  ManualKinds <- MCKinds
  Watchdog = midWatch
SPECIFICATION Spec
INVARIANT TriggeredRuns
