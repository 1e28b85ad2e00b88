--------------------------- MODULE MCSponzaFrame ---------------------------
(* run() as the code has it: 60 frames, here over two meshes.             *)
EXTENDS SponzaFrame
=============================================================================
