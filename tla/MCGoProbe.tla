----------------------------- MODULE MCGoProbe ------------------------------
(* All configurations, and three cycles that may overlap.                  *)
EXTENDS GoProbe
=============================================================================
