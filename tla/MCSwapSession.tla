--------------------------- MODULE MCSwapSession ---------------------------
(***************************************************************************)
(* SwapSession for one or two swaps of one user.                           *)
(***************************************************************************)
EXTENDS SwapSession
=============================================================================
