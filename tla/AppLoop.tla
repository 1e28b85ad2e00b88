------------------------------ MODULE AppLoop ------------------------------
(***************************************************************************)
(* The Windows application shell of salviau                                *)
(* (src/salviau/src/win/win_application.cpp): create_win_application,     *)
(* win_application::run with win_window::create and the message loop,     *)
(* win_window::win_proc / process_message, and delete_win_application.    *)
(*                                                                         *)
(* No program of this repository calls create_win_application (the      *)
(* samples run on the WTL shell), so the main thread is a client in the   *)
(* order the interface implies: create the application, connect the      *)
(* create, draw and idle handlers, run, delete.  The handlers are a       *)
(* renderer's, as the samples write them: on_create builds the          *)
(* presenter, on_idle renders a frame and calls refresh() (as             *)
(* Triangles.cpp:258 does), on_paint presents the frame.  Windows itself  *)
(* is modelled from its documented behaviour: CreateWindow sends          *)
(* WM_CREATE before it returns, UpdateWindow sends WM_PAINT, PeekMessage  *)
(* returns posted messages first, then WM_QUIT once PostQuitMessage was   *)
(* called, then WM_PAINT while the window is invalid, and otherwise       *)
(* nothing.  The user posts input, among it a click on the close button,  *)
(* whose default processing destroys the window and sends WM_DESTROY.     *)
(***************************************************************************)
EXTENDS Naturals, Sequences

CONSTANTS
  Window,    \* the HWND CreateWindow creates
  MaxInput,  \* how many input messages the user posts in a run
  Null

ASSUME AppLoopAssumption == MaxInput \in Nat /\ Window # Null

\* Input the user can post: a key (default processing only) or a click on
\* the close button.
Inputs == {"WM_KEYDOWN", "WM_CLOSE"}

VARIABLES
  gApp,          \* g_app # nullptr
  app,           \* the win_application object: "none", "live", "deleted"
  wndClass,      \* win_window::wnd_class_ # 0
  hwnd,          \* win_window::hwnd_
  win,           \* the OS window: "none", "alive", "destroyed"
  pc,            \* where the main thread is
  queue,         \* the thread's posted-message queue
  quit,          \* PostQuitMessage has been called
  invalid,       \* the window has a non-empty update region
  inputs,        \* how many input messages the user has posted
  created,       \* the create handler has run
  frame,         \* the last frame: "none", "rendered", "presented"
  last           \* what the main thread last dispatched or ran

appVars == <<gApp, app, wndClass, hwnd, win, pc, queue, quit, invalid,
             inputs, created, frame, last>>

PCs == {"start", "ready", "connected", "creating", "loop", "returned", "done"}
Ran == {"none", "create", "paint", "idle", "default", "destroy", "quit"}

AppTypeOK ==
  /\ gApp \in BOOLEAN
  /\ app \in {"none", "live", "deleted"}
  /\ wndClass \in BOOLEAN
  /\ hwnd \in {Window, Null}
  /\ win \in {"none", "alive", "destroyed"}
  /\ pc \in PCs
  /\ queue \in Seq(Inputs)
  /\ quit \in BOOLEAN
  /\ invalid \in BOOLEAN
  /\ inputs \in 0..MaxInput
  /\ created \in BOOLEAN
  /\ frame \in {"none", "rendered", "presented"}
  /\ last \in Ran

\* Static initialisation: g_app and wnd_class_ are null.
AppInit ==
  /\ gApp = FALSE
  /\ app = "none"
  /\ wndClass = FALSE
  /\ hwnd = Null
  /\ win = "none"
  /\ pc = "start"
  /\ queue = <<>>
  /\ quit = FALSE
  /\ invalid = FALSE
  /\ inputs = 0
  /\ created = FALSE
  /\ frame = "none"
  /\ last = "none"

-----------------------------------------------------------------------------
(* The main thread.                                                        *)

\* create_win_application(): g_app is null, so a win_application is built;
\* its constructor builds the win_window with a null hwnd_.
CreateApplication ==
  /\ pc = "start"
  /\ ~gApp
  /\ gApp' = TRUE
  /\ app' = "live"
  /\ pc' = "ready"
  /\ UNCHANGED <<wndClass, hwnd, win, queue, quit, invalid, inputs, created,
                 frame, last>>

\* set_create_handler, set_draw_handler, set_idle_handler connect the
\* renderer's handlers to the window's signals.
ConnectHandlers ==
  /\ pc = "ready"
  /\ pc' = "connected"
  /\ UNCHANGED <<gApp, app, wndClass, hwnd, win, queue, quit, invalid,
                 inputs, created, frame, last>>

\* create(): register_window_class runs the first time, when wnd_class_ is
\* still 0; its atom is kept in wnd_class_.
RegisterWindowClass == wndClass' = TRUE

\* Mutant of CreateWindowFails: run() enters the loop anyway.
CreateWindowFailsContinue ==
  /\ pc = "connected"
  /\ RegisterWindowClass
  /\ pc' = "loop"
  /\ UNCHANGED <<gApp, app, hwnd, win, queue, quit, invalid, inputs, created,
                 frame, last>>

\* run() calls create(): the class is registered once; CreateWindow fails,
\* the error is formatted and logged, create() returns false and run()
\* returns 0 without entering the loop.
CreateWindowFails ==
  /\ pc = "connected"
  /\ RegisterWindowClass
  /\ pc' = "returned"
  /\ UNCHANGED <<gApp, app, hwnd, win, queue, quit, invalid, inputs, created,
                 frame, last>>

\* CreateWindow creates the window and, before it returns, sends WM_CREATE:
\* win_proc stores the hwnd it is called with in hwnd_ and process_message
\* runs the create handler, which reads view_handle().
CreateWindowSendsCreate ==
  /\ pc = "connected"
  /\ RegisterWindowClass
  /\ win' = "alive"
  /\ hwnd' = Window
  /\ created' = TRUE
  /\ last' = "create"
  /\ pc' = "creating"
  /\ UNCHANGED <<gApp, app, queue, quit, invalid, inputs, frame>>

\* Mutant of Paint: the draw handler is not invoked.
PaintNoHandler ==
  /\ invalid' = FALSE
  /\ frame' = frame
  /\ last' = "paint"

\* WM_PAINT through process_message: BeginPaint validates the window, the
\* draw handler presents the frame, EndPaint.
Paint ==
  /\ invalid' = FALSE
  /\ frame' = IF frame = "rendered" THEN "presented" ELSE frame
  /\ last' = "paint"

\* CreateWindow returns the hwnd into hwnd_; ShowWindow makes the window
\* invalid and UpdateWindow sends WM_PAINT at once; run() shows it again
\* and enters the loop.
CreateWindowReturns ==
  /\ pc = "creating"
  /\ hwnd' = Window
  /\ Paint
  /\ pc' = "loop"
  /\ UNCHANGED <<gApp, app, wndClass, win, queue, quit, inputs, created>>

\* Mutant of ProcessMessage: WM_DESTROY does not post the quit message.
ProcessMessageNoQuit(m) ==
  IF m = "WM_CLOSE"
  THEN /\ win' = "destroyed"
       /\ last' = "destroy"
       /\ UNCHANGED quit
  ELSE /\ last' = "default"
       /\ UNCHANGED <<win, quit>>

\* A posted message dispatched through win_proc to process_message.
\* Key input takes the default arm (DefWindowProc).  The close click's
\* default processing destroys the window, which sends WM_DESTROY: that arm
\* calls PostQuitMessage(0).
ProcessMessage(m) ==
  IF m = "WM_CLOSE"
  THEN /\ win' = "destroyed"
       /\ quit' = TRUE
       /\ last' = "destroy"
  ELSE /\ last' = "default"
       /\ UNCHANGED <<win, quit>>

\* One turn of the message loop: PeekMessage(PM_REMOVE), then either
\* Translate/DispatchMessage, the break on WM_QUIT, or idle().
LoopDispatch ==
  /\ pc = "loop"
  /\ queue # <<>>
  /\ queue' = Tail(queue)
  /\ IF win = "alive"
     THEN ProcessMessage(Head(queue))
     ELSE /\ last' = "default"   \* a message for a destroyed window is dropped
          /\ UNCHANGED <<win, quit>>
  /\ hwnd' = Window              \* win_proc stores its hwnd argument
  /\ UNCHANGED <<gApp, app, wndClass, pc, invalid, inputs, created,
                 frame>>

LoopQuit ==
  /\ pc = "loop"
  /\ queue = <<>>
  /\ quit
  /\ pc' = "returned"
  /\ last' = "quit"
  /\ UNCHANGED <<gApp, app, wndClass, hwnd, win, queue, quit, invalid,
                 inputs, created, frame>>

LoopPaint ==
  /\ pc = "loop"
  /\ queue = <<>> /\ ~quit /\ invalid /\ win = "alive"
  /\ Paint
  /\ UNCHANGED <<gApp, app, wndClass, hwnd, win, pc, queue, quit, inputs,
                 created>>

\* idle(): the idle handler renders a frame and refresh() invalidates the
\* window (InvalidateRect fails on a destroyed window).
LoopIdle ==
  /\ pc = "loop"
  /\ queue = <<>> /\ ~quit /\ ~(invalid /\ win = "alive")
  /\ frame' = "rendered"
  /\ invalid' = (win = "alive")
  /\ last' = "idle"
  /\ UNCHANGED <<gApp, app, wndClass, hwnd, win, pc, queue, quit, inputs,
                 created>>

\* Mutant of DeleteApplication: the dynamic_cast fails (the pointer is not
\* a win_application) and the process exits with status 1.
DeleteApplicationWrongType ==
  /\ pc = "returned"
  /\ app = "live"
  /\ pc' = "exited"
  /\ UNCHANGED <<gApp, app, wndClass, hwnd, win, queue, quit, invalid, inputs,
                 created, frame, last>>

\* delete_win_application(app): the dynamic_cast succeeds and the
\* application is deleted; g_app is not reset.
DeleteApplication ==
  /\ pc = "returned"
  /\ app = "live"
  /\ app' = "deleted"
  /\ pc' = "done"
  /\ UNCHANGED <<gApp, wndClass, hwnd, win, queue, quit, invalid, inputs,
                 created, frame, last>>

MainStep ==
  \/ CreateApplication
  \/ ConnectHandlers
  \/ CreateWindowFails
  \/ CreateWindowSendsCreate
  \/ CreateWindowReturns
  \/ LoopDispatch
  \/ LoopQuit
  \/ LoopPaint
  \/ LoopIdle
  \/ DeleteApplication

\* The user posts input to the live window.
UserInput(m) ==
  /\ win = "alive"
  /\ inputs < MaxInput
  /\ queue' = Append(queue, m)
  /\ inputs' = inputs + 1
  /\ UNCHANGED <<gApp, app, wndClass, hwnd, win, pc, quit, invalid, created,
                 frame, last>>

AppNext ==
  \/ MainStep
  \/ \E m \in Inputs : UserInput(m)

\* The main thread never blocks: PeekMessage returns at once and idle()
\* runs whenever nothing is pending, so the main thread is weakly fair.
\* The user is not: input may never come.
AppSpec == AppInit /\ [][AppNext]_appVars /\ WF_appVars(MainStep)

-----------------------------------------------------------------------------
(* Properties.                                                             *)

\* The draw and idle handlers, which use what the create handler built,
\* only run after it: run() does not enter the loop when create() fails.
HandlersNeedCreate ==
  last \in {"paint", "idle"} => created

\* No frame is rendered after the window is destroyed: WM_DESTROY posts the
\* quit message, and PeekMessage returns it before idle() can run again.
NoIdleAfterDestroy ==
  last = "idle" => win = "alive"

\* Every frame the idle handler renders is presented by the draw handler,
\* unless the window is destroyed first (refresh() and WM_PAINT).
FramePresented ==
  frame = "rendered" ~> (frame = "presented" \/ win = "destroyed")

\* Once the window is destroyed, run() returns and the application is
\* deleted (WM_DESTROY, PostQuitMessage, the break on WM_QUIT).
RunReturns ==
  win = "destroyed" ~> pc = "done"

\* The refinement mapping: where run() is, seen from outside (not yet
\* entered, inside CreateWindow or the loop, returned), and the window
\* as the program sees it.
RunPhase ==
  IF pc \in {"start", "ready", "connected"} THEN "before"
  ELSE IF pc \in {"creating", "loop"} THEN "running"
  ELSE "returned"

WindowPhase ==
  CASE win = "none"  -> "none"
    [] win = "alive" -> "open"
    [] OTHER         -> "closed"

AppLife == INSTANCE AppLifecycle WITH
             appA <- app, winA <- WindowPhase, runA <- RunPhase

\* The shell implements the application lifecycle: run() enters its loop
\* only with a window CreateWindow created, leaves it only after that
\* window was destroyed (or never created), and delete_win_application
\* comes after run() returned (create_win_application, win_window::create,
\* the WM_QUIT break of win_application::run, delete_win_application).
LifecycleRefinement == AppLife!LSpec

=============================================================================
