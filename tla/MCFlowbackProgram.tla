------------------------- MODULE MCFlowbackProgram --------------------------
(***************************************************************************)
(* Two searchers, one relay, a user.  A treasury may be the relay, or a    *)
(* searcher: settlements happen between accounts that coincide and between *)
(* distinct ones.                                                          *)
(***************************************************************************)
EXTENDS SettlementAudit, TLC

CONSTANTS s1, s2, relay, user, h1, h2

MCWallets == {s1, s2, relay, user}
MCLamports == (s1 :> 12 @@ s2 :> 7 @@ relay :> 6 @@ user :> 1)
HintSymmetry == Permutations({h1, h2})
=============================================================================
