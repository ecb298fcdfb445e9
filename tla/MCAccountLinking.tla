------------------------- MODULE MCAccountLinking ---------------------------
(* AccountLinking for TLC: addresses, Telegram users, handlers and tokens  *)
(* are interchangeable.                                                    *)
EXTENDS AccountLinking, TLC
Symmetry == Permutations(Emails) \union Permutations(Workers)
            \union Permutations(Sessions) \union Permutations(Tokens)
=============================================================================
