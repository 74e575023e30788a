CONSTANTS
  short = short
  mid = mid
  slotJob = slotJob
  shortWatch = shortWatch
  midWatch = midWatch
  Startup = startup
  Nobody = nobody
  Requests = {r1}
  Kinds <- MCKinds
  Jobs <- MCJobs
  JobsOf <- MCJobsOf
  ManualKinds <- MCKinds
  Watchdog = midWatch
SPECIFICATION FairSpec
INVARIANTS TypeOK AtMostOneLoop GuardMatchesLoop
PROPERTIES LeaseSpec GuardReleased
