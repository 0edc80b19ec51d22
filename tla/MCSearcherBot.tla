---------------------------- MODULE MCSearcherBot ----------------------------
(***************************************************************************)
(* Two bots of one keypair, and the client of one of them.                 *)
(***************************************************************************)
EXTENDS SearcherBot

CONSTANTS b1, b2
=============================================================================
