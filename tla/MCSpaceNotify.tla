--------------------------- MODULE MCSpaceNotify ---------------------------
(* SpaceNotify with two pages.                                             *)
EXTENDS SpaceNotify

CONSTANTS p1, p2
=============================================================================
