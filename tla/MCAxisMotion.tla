------------------------------ MODULE MCAxisMotion ------------------------------
(***************************************************************************)
(* AxisMotion on small instances: the axes are interchangeable, and the    *)
(* requests are divided among the configurations.                          *)
(***************************************************************************)
EXTENDS AxisMotion, TLC

AxisSymmetry == Permutations(Axes)
===============================================================================
