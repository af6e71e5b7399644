---------------------------- MODULE MCReviewScreen ----------------------------
(* Instances of ReviewScreen.                                                 *)
EXTENDS ReviewScreen, TLC
===============================================================================
