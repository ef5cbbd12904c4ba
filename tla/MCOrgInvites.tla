---------------------------- MODULE MCOrgInvites ----------------------------
(* Small instances of OrgInvites for TLC. *)
EXTENDS OrgInvites, TLC

Symmetry == Permutations(Users) \cup Permutations(Guests) \cup Permutations(Invites)

FewRoles   == {"owner", "viewer"}
InviteKinds == {"AddMember", "RemoveMember", "Delete"}
NoKinds == {}
=============================================================================
