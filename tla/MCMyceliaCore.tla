--------------------------- MODULE MCMyceliaCore ---------------------------
(* Small instances of MyceliaCore for TLC. *)
EXTENDS MyceliaCore

\* Grids of four cells and of two.
Square == <<2, 2>>
Strip == <<2, 1>>
=============================================================================
