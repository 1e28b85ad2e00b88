\* The application shell under weak fairness of the main thread: its
\* safety invariants, the liveness of painting and of run()'s return, and
\* the refinement of the AppLifecycle specification.
CONSTANTS
  hw = hw
  Window = hw
  Null = Null
  MaxInput = 3
SPECIFICATION AppSpec
\* The program ends: run() returns and the application is deleted.
CHECK_DEADLOCK FALSE
INVARIANT HandlersNeedCreate NoIdleAfterDestroy
PROPERTY FramePresented RunReturns LifecycleRefinement
