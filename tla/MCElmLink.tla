----------------------------- MODULE MCElmLink -----------------------------
(* ElmLink on small instances: bitmaps of two PIDs.                        *)
EXTENDS ElmLink

\* A car with two bitmaps, one that claims nothing but answers, one whose
\* second bitmap is claimed and never answered.
MCCars == {[claims |-> {1, 2, 3}, answers |-> {0, 1, 2, 3}],
           [claims |-> {},        answers |-> {0, 1, 3}],
           [claims |-> {1, 2},    answers |-> {0, 1}]}
=============================================================================
