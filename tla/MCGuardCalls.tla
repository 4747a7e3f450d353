---------------------------- MODULE MCGuardCalls ----------------------------
(* Two tokens, the whole policy and one action outside it. *)
EXTENDS GuardCalls, TLC

CONSTANTS t1, t2, unlisted

MCToken == {t1, t2}
MCUnlisted == {unlisted}

Symmetric == Permutations(MCToken)

=============================================================================
