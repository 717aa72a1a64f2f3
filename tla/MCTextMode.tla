----------------------------- MODULE MCTextMode -----------------------------
(***************************************************************************)
(* TextMode on a screen of three lines of three cells with one printable   *)
(* character besides the blank: a tab is longer than a line, and a scroll  *)
(* leaves two lines of the old text.                                       *)
(***************************************************************************)
EXTENDS TextMode
=============================================================================
