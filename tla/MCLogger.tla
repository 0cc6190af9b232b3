------------------------------ MODULE MCLogger ------------------------------
(* Logger on small instances.                                              *)
EXTENDS Logger

\* Stack garbage read as a double: zero, or a time far in the future.
MCGarbage == {0, 50}
=============================================================================
