------------------------------- MODULE MCGui -------------------------------
(* GuiLogger on small instances.                                           *)
EXTENDS GuiLogger

\* What was on the stack is shown by MCLogger; here it is zero.
MCGarbage == {0}
=============================================================================
