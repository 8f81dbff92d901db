SPECIFICATION FairSpec
CONSTANTS
  Requests = {r1, r2}
  Jobs <- MixedJobs
  Confirmed = {"run_command"}
  Blocked = {"format_disk"}
INVARIANTS
  TypeOK
  ConsentGiven
  PendingIsAsked
  PlanIsHonest
  IdleUnlessBroken
PROPERTIES
  RequestsEnd
CHECK_DEADLOCK FALSE
