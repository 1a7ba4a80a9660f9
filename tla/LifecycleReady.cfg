SPECIFICATION Spec
INVARIANT NotReadyAfterShutdown
