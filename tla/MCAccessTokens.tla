--------------------------- MODULE MCAccessTokens ---------------------------
(* Small instances of AccessTokens for TLC. *)
EXTENDS AccessTokens, TLC

Symmetry == Permutations(Tokens) \cup Permutations(Workers)

OneEmail == {"a.b@c.d"}
OwnSlug  == [e \in Emails |-> e]
=============================================================================
