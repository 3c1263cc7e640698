---------------------------- MODULE MCReplySend ----------------------------
(* Instances of ReplySend for TLC.                                         *)
EXTENDS ReplySend, TLC

ReplySymmetry ==
    Permutations(Texts) \union Permutations(Attempts) \union Permutations(Keys)
        \union Permutations(Accounts)
=============================================================================
