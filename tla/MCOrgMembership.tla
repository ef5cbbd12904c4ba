--------------------------- MODULE MCOrgMembership --------------------------
(* Small instances of OrgMembership for TLC. *)
EXTENDS OrgMembership, TLC

(* Users, workers and names are interchangeable: nothing compares them but *)
(* for equality.                                                           *)
Symmetry == Permutations(Users) \cup Permutations(Names) \cup Permutations(Workers)

AllRoles   == validRoles
FewRoles   == {"owner", "admin", "viewer"}
OwnerRoles == {"owner", "admin"}

AllKinds    == {"AddMember", "UpdateMemberRole", "RemoveMember", "Update", "Delete"}
MemberKinds == {"AddMember", "UpdateMemberRole", "RemoveMember"}
=============================================================================
