------------------------------ MODULE MCNotes -------------------------------
(* Small instances of Notes for TLC. *)
EXTENDS Notes, TLC

CONSTANTS u1, u2, u3, here, elsewhere

(* u1 and u2 are colleagues, u3 works for another organisation. *)
ThreeUsers == {u1, u2, u3}
TwoOrgs == (u1 :> here) @@ (u2 :> here) @@ (u3 :> elsewhere)

Symmetry == Permutations(NoteIDs) \cup Permutations(Contents) \cup Permutations(Workers)
              \cup Permutations({u1, u2})
=============================================================================
