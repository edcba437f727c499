-------------------------- MODULE MCOutputCapture --------------------------
(* Slices of two bytes out of a window of three: a wide character may be      *)
(* whole, cut, or split over two slices, and the limit may fall inside it.    *)
EXTENDS OutputCapture, TLC
=============================================================================
