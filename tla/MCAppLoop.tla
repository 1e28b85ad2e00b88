------------------------------ MODULE MCAppLoop ------------------------------
(* The application shell with one window handle and a user who posts up to *)
(* three inputs: enough for a key before the close click, a close click    *)
(* with input still queued behind it, and input the shell drops after the  *)
(* window is gone.                                                         *)
EXTENDS AppLoop

CONSTANTS hw
=============================================================================
