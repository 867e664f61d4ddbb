---------------------------- MODULE MCAxisPanel ----------------------------
EXTENDS AxisPanel, TLC

\* A server with two axes, one of them in velocity mode, and one with one axis.
MCCountOf == [e1 |-> 2, e2 |-> 1]
=============================================================================
