---------------------------- MODULE AppLoopProofs ----------------------------
(***************************************************************************)
(* Proofs about the application shell (AppLoop) for every value of its     *)
(* constants: the type invariant, the two safety invariants of the        *)
(* app_loop run -- the draw and idle handlers only run after the create   *)
(* handler, and no frame is rendered after the window is destroyed -- and *)
(* that the shell implements the AppLifecycle specification.              *)
(***************************************************************************)
EXTENDS AppLoop, TLAPS

\* The facts about the lifecycle that make the safety invariants inductive:
\* inside CreateWindow and in the loop the window exists and on_create has
\* run, and a destroyed window has posted the quit message.
Lifecycle ==
  /\ pc \in {"creating", "loop"} => win # "none" /\ created
  /\ win = "destroyed" => quit

ShellSafety == HandlersNeedCreate /\ NoIdleAfterDestroy

IInv == AppTypeOK /\ Lifecycle /\ ShellSafety

LEMMA InitIInv == AppInit => IInv
<1> SUFFICES ASSUME AppInit PROVE IInv
  OBVIOUS
<1>1. <<>> \in Seq(Inputs) /\ 0 \in 0..MaxInput
  BY AppLoopAssumption
<1>2. AppTypeOK
  BY <1>1 DEF AppInit, AppTypeOK, PCs, Ran
<1>3. Lifecycle /\ ShellSafety
  BY DEF AppInit, Lifecycle, ShellSafety,
         HandlersNeedCreate, NoIdleAfterDestroy
<1> QED
  BY <1>2, <1>3 DEF IInv

\* A message the loop dispatches to a live window keeps the invariant: the
\* close click destroys the window and posts the quit message together.
LEMMA DispatchIInv ==
  ASSUME IInv, LoopDispatch PROVE IInv'
<1>1. Head(queue) \in Inputs /\ Tail(queue) \in Seq(Inputs)
  BY DEF LoopDispatch, IInv, AppTypeOK
<1>2. AppTypeOK'
  BY <1>1 DEF LoopDispatch, ProcessMessage, IInv, AppTypeOK, Ran
<1>3. (Lifecycle /\ ShellSafety)'
  BY DEF LoopDispatch, ProcessMessage, IInv, AppTypeOK, Lifecycle, ShellSafety,
         HandlersNeedCreate, NoIdleAfterDestroy
<1> QED
  BY <1>2, <1>3 DEF IInv

LEMMA NextIInv == IInv /\ [AppNext]_appVars => IInv'
<1> SUFFICES ASSUME IInv, [AppNext]_appVars PROVE IInv'
  OBVIOUS
<1> USE AppLoopAssumption
<1>1. CASE CreateApplication
  BY <1>1 DEF CreateApplication, IInv, AppTypeOK, Lifecycle, ShellSafety,
     HandlersNeedCreate, NoIdleAfterDestroy, PCs
<1>2. CASE ConnectHandlers
  BY <1>2 DEF ConnectHandlers, IInv, AppTypeOK, Lifecycle, ShellSafety,
     HandlersNeedCreate, NoIdleAfterDestroy, PCs
<1>3. CASE CreateWindowFails
  BY <1>3 DEF CreateWindowFails, RegisterWindowClass, IInv, AppTypeOK,
     Lifecycle, ShellSafety, HandlersNeedCreate,
     NoIdleAfterDestroy, PCs
<1>4. CASE CreateWindowSendsCreate
  BY <1>4 DEF CreateWindowSendsCreate, RegisterWindowClass, IInv, AppTypeOK,
     Lifecycle, ShellSafety, HandlersNeedCreate,
     NoIdleAfterDestroy, PCs, Ran
<1>5. CASE CreateWindowReturns
  BY <1>5 DEF CreateWindowReturns, Paint, IInv, AppTypeOK, Lifecycle,
     ShellSafety, HandlersNeedCreate,
     NoIdleAfterDestroy, PCs, Ran
<1>6. CASE LoopDispatch
  BY <1>6, DispatchIInv
<1>7. CASE LoopQuit
  BY <1>7 DEF LoopQuit, IInv, AppTypeOK, Lifecycle, ShellSafety,
     HandlersNeedCreate, NoIdleAfterDestroy, PCs, Ran
<1>8. CASE LoopPaint
  BY <1>8 DEF LoopPaint, Paint, IInv, AppTypeOK, Lifecycle, ShellSafety,
     HandlersNeedCreate, NoIdleAfterDestroy, Ran
<1>9. CASE LoopIdle
  BY <1>9 DEF LoopIdle, IInv, AppTypeOK, Lifecycle, ShellSafety,
     HandlersNeedCreate, NoIdleAfterDestroy, Ran
<1>10. CASE DeleteApplication
  BY <1>10 DEF DeleteApplication, IInv, AppTypeOK, Lifecycle, ShellSafety,
     HandlersNeedCreate, NoIdleAfterDestroy, PCs
<1>11. ASSUME NEW m \in Inputs, UserInput(m) PROVE IInv'
  BY <1>11 DEF UserInput, IInv, AppTypeOK, Lifecycle, ShellSafety,
     HandlersNeedCreate, NoIdleAfterDestroy
<1>12. CASE UNCHANGED appVars
  BY <1>12 DEF appVars, IInv, AppTypeOK, Lifecycle, ShellSafety,
     HandlersNeedCreate, NoIdleAfterDestroy
<1> QED
  BY <1>1, <1>2, <1>3, <1>4, <1>5, <1>6, <1>7, <1>8, <1>9, <1>10, <1>11,
     <1>12 DEF AppNext, MainStep

\* The shell's state stays well typed: the queue holds only user input and
\* never more than MaxInput messages are posted.
THEOREM AppTypeCorrect == AppSpec => []AppTypeOK
<1>1. AppInit => IInv
  BY InitIInv
<1>2. IInv /\ [AppNext]_appVars => IInv'
  BY NextIInv
<1>3. IInv => AppTypeOK
  BY DEF IInv
<1> QED
  BY <1>1, <1>2, <1>3, PTL DEF AppSpec

\* For any number of user inputs: the draw and idle handlers never run
\* before on_create (run() returns when create() fails), and idle() never
\* renders after WM_DESTROY (PostQuitMessage is seen first).
THEOREM ShellSafetyHolds ==
  AppSpec => [](HandlersNeedCreate /\ NoIdleAfterDestroy)
<1>1. AppInit => IInv
  BY InitIInv
<1>2. IInv /\ [AppNext]_appVars => IInv'
  BY NextIInv
<1>3. IInv => HandlersNeedCreate /\ NoIdleAfterDestroy
  BY DEF IInv, ShellSafety
<1> QED
  BY <1>1, <1>2, <1>3, PTL DEF AppSpec

-----------------------------------------------------------------------------
(* Refinement: the shell implements AppLifecycle.                          *)

\* The facts the refinement needs: the application object is live from
\* create_win_application until it is deleted, the window does not exist
\* before run() calls CreateWindow, and the quit message is posted only
\* by WM_DESTROY.
Phases ==
  /\ pc = "start" => app = "none"
  /\ pc \in {"ready", "connected", "creating", "loop", "returned"} => app = "live"
  /\ pc \in {"start", "ready", "connected"} => win = "none"
  /\ quit => win = "destroyed"

RInv == IInv /\ Phases

LEMMA InitRInv == AppInit => RInv
BY InitIInv DEF AppInit, RInv, Phases

LEMMA NextRInv == RInv /\ [AppNext]_appVars => RInv'
<1> SUFFICES ASSUME RInv, [AppNext]_appVars PROVE RInv'
  OBVIOUS
<1>1. IInv'
  BY NextIInv DEF RInv
<1>2. Phases'
  <2>1. CASE LoopDispatch
    BY <2>1 DEF LoopDispatch, ProcessMessage, RInv, Phases
  <2>2. CASE \/ CreateApplication \/ ConnectHandlers \/ CreateWindowFails
             \/ CreateWindowSendsCreate \/ CreateWindowReturns \/ LoopQuit
             \/ LoopPaint \/ LoopIdle \/ DeleteApplication
             \/ \E m \in Inputs : UserInput(m)
             \/ UNCHANGED appVars
    BY <2>2 DEF CreateApplication, ConnectHandlers, CreateWindowFails,
       RegisterWindowClass, CreateWindowSendsCreate, CreateWindowReturns,
       Paint, LoopQuit, LoopPaint, LoopIdle, DeleteApplication, UserInput,
       appVars, RInv, Phases
  <2> QED
    BY <2>1, <2>2 DEF AppNext, MainStep
<1> QED
  BY <1>1, <1>2 DEF RInv

\* Every step of the shell is a step of AppLifecycle or leaves its
\* state alone.
LEMMA StepRefines == RInv /\ [AppNext]_appVars => [AppLife!LNext]_(AppLife!lvars)
<1> SUFFICES ASSUME RInv, [AppNext]_appVars
             PROVE  [AppLife!LNext]_(AppLife!lvars)
  OBVIOUS
<1>1. CASE CreateApplication
  BY <1>1 DEF CreateApplication, RInv, Phases, AppLife!LNext, AppLife!Start,
     RunPhase, WindowPhase
<1>2. CASE CreateWindowFails
  BY <1>2 DEF CreateWindowFails, RegisterWindowClass, RInv, Phases,
     AppLife!LNext, AppLife!Fail, RunPhase, WindowPhase
<1>3. CASE CreateWindowSendsCreate
  BY <1>3 DEF CreateWindowSendsCreate, RegisterWindowClass, RInv, Phases,
     AppLife!LNext, AppLife!Open, RunPhase, WindowPhase
<1>4. CASE LoopDispatch
  <2>1. CASE win = "alive" /\ Head(queue) = "WM_CLOSE"
    BY <1>4, <2>1 DEF LoopDispatch, ProcessMessage, AppLife!LNext,
       AppLife!Close, RunPhase, WindowPhase
  <2>2. CASE ~(win = "alive" /\ Head(queue) = "WM_CLOSE")
    BY <1>4, <2>2 DEF LoopDispatch, ProcessMessage, AppLife!lvars,
       RunPhase, WindowPhase
  <2> QED
    BY <2>1, <2>2
<1>5. CASE LoopQuit
  BY <1>5 DEF LoopQuit, RInv, Phases, AppLife!LNext, AppLife!Return,
     RunPhase, WindowPhase
<1>6. CASE DeleteApplication
  BY <1>6 DEF DeleteApplication, AppLife!LNext, AppLife!Delete,
     RunPhase, WindowPhase
<1>7. CASE \/ ConnectHandlers \/ CreateWindowReturns \/ LoopPaint \/ LoopIdle
           \/ \E m \in Inputs : UserInput(m)
           \/ UNCHANGED appVars
  BY <1>7 DEF ConnectHandlers, CreateWindowReturns, Paint, LoopPaint,
     LoopIdle, UserInput, appVars, AppLife!lvars, RunPhase, WindowPhase
<1> QED
  BY <1>1, <1>2, <1>3, <1>4, <1>5, <1>6, <1>7 DEF AppNext, MainStep

\* For any number of user inputs, the shell's runs are runs of the
\* application lifecycle: run() enters the loop only with the window
\* CreateWindow made, returns only after WM_DESTROY (or a failed create)
\* and the application is deleted only after that
\* (create_win_application, win_window::create, win_application::run,
\* delete_win_application).
THEOREM LifecycleRefined == AppSpec => LifecycleRefinement
<1>1. AppInit => AppLife!LInit
  BY DEF AppInit, AppLife!LInit, RunPhase, WindowPhase
<1>2. RInv /\ [AppNext]_appVars => RInv'
  BY NextRInv
<1>3. RInv /\ [AppNext]_appVars => [AppLife!LNext]_(AppLife!lvars)
  BY StepRefines
<1> QED
  BY <1>1, <1>2, <1>3, InitRInv, PTL
  DEF AppSpec, LifecycleRefinement, AppLife!LSpec

=============================================================================
