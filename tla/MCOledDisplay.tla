--------------------------- MODULE MCOledDisplay ---------------------------
(* OledDisplay for TLC: texts of up to two glyphs, so that copies of every  *)
(* length are interrupted by texts of every other length.                   *)
EXTENDS OledDisplay
=============================================================================
