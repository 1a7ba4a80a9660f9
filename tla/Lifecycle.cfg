SPECIFICATION FairSpec
INVARIANTS
  HandlesFollowRuntime
  NotReadyWithoutConsumer
PROPERTIES
  RecoversReadiness
  OutageShows
  ShutdownCompletes
