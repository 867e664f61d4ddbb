------------------------- MODULE MCDriveParameters -------------------------
EXTENDS DriveParameters

TwoAxes == 1..2
=============================================================================
