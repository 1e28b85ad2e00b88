---------------------------- MODULE AppLifecycle ----------------------------
(***************************************************************************)
(* What the application shell promises a program, with no message queue,  *)
(* window class or handlers: the application is created, run() opens one  *)
(* window or fails to, the loop runs while the window is open and returns *)
(* only once it is closed (or was never opened), and only then is the     *)
(* application deleted.  AppLoop implements this specification under a   *)
(* refinement mapping.                                                     *)
(***************************************************************************)
VARIABLES
  appA,   \* the application object: "none", "live", "deleted"
  winA,   \* the program's window: "none", "open", "closed"
  runA    \* run(): "before", "running", "returned"

lvars == <<appA, winA, runA>>

LInit ==
  /\ appA = "none"
  /\ winA = "none"
  /\ runA = "before"

\* The application object is created.
Start ==
  /\ appA = "none" /\ runA = "before"
  /\ appA' = "live"
  /\ UNCHANGED <<winA, runA>>

\* run() opens the window; the loop is running from then on.
Open ==
  /\ appA = "live" /\ runA = "before" /\ winA = "none"
  /\ winA' = "open"
  /\ runA' = "running"
  /\ UNCHANGED appA

\* run() cannot open a window and returns at once.
Fail ==
  /\ appA = "live" /\ runA = "before" /\ winA = "none"
  /\ runA' = "returned"
  /\ UNCHANGED <<appA, winA>>

\* The user closes the open window.
Close ==
  /\ runA = "running" /\ winA = "open"
  /\ winA' = "closed"
  /\ UNCHANGED <<appA, runA>>

\* run() returns once the window is closed.
Return ==
  /\ runA = "running" /\ winA = "closed"
  /\ runA' = "returned"
  /\ UNCHANGED <<appA, winA>>

\* The application is deleted after run() returned.
Delete ==
  /\ appA = "live" /\ runA = "returned"
  /\ appA' = "deleted"
  /\ UNCHANGED <<winA, runA>>

LNext == Start \/ Open \/ Fail \/ Close \/ Return \/ Delete

LSpec == LInit /\ [][LNext]_lvars

=============================================================================
