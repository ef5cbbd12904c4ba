------------------------------ MODULE OrgAtomic -----------------------------
(***************************************************************************)
(* What the organisation service promises, with every request taking       *)
(* effect in one step: the rules of internal/org/service_impl.go applied   *)
(* to the rows as they are at the moment of the write.  OrgMembership is   *)
(* the code, which reads and writes in separate statements; it implements  *)
(* this specification whenever no other write slips in between.            *)
(***************************************************************************)
EXTENDS OrgRules, FiniteSets

CONSTANTS Users, Names

VARIABLES
  org,      (* the row of orgs: deleted_at IS NULL (live), and its name    *)
  members   (* the rows of org_members: a role for each user, or NoRow     *)

NoRow == "no row"

Members == {u \in Users : members[u] # NoRow}
Owners  == {u \in Users : members[u] = "owner"}

AtLeast(c, role) == members[c] # NoRow /\ HasAtLeastRole(members[c], role)

(* Taking ownership from t leaves the organisation with another owner.     *)
NotLastOwner(t) == members[t] = "owner" => \E u \in Users \ {t} : members[u] = "owner"

Init ==
  /\ org \in [live : {TRUE}, name : Names]
  /\ members \in [Users -> Roles \cup {NoRow}]
  /\ Capped => Cardinality(Members) <= Cap

Admit(t, role) ==
  /\ org.live
  /\ members[t] = NoRow
  /\ RoomFor(Cardinality(Members))
  /\ members' = [members EXCEPT ![t] = role]
  /\ UNCHANGED org

Reassign(c, t, role) ==
  /\ org.live
  /\ AtLeast(c, "admin")
  /\ members[t] # NoRow
  /\ role # "owner" => NotLastOwner(t)
  /\ members' = [members EXCEPT ![t] = role]
  /\ UNCHANGED org

Expel(c, t) ==
  /\ org.live
  /\ c # t => AtLeast(c, "admin")
  /\ members[t] # NoRow
  /\ NotLastOwner(t)
  /\ members' = [members EXCEPT ![t] = NoRow]
  /\ UNCHANGED org

Rename(c, name) ==
  /\ org.live
  /\ AtLeast(c, "admin")
  /\ org' = [org EXCEPT !.name = name]
  /\ UNCHANGED members

Dissolve(c) ==
  /\ AtLeast(c, "owner")
  /\ org' = [org EXCEPT !.live = FALSE]
  /\ UNCHANGED members

Next ==
  \/ \E t \in Users, role \in Roles : Admit(t, role)
  \/ \E c, t \in Users, role \in Roles : Reassign(c, t, role)
  \/ \E c, t \in Users : Expel(c, t)
  \/ \E c \in Users, name \in Names : Rename(c, name)
  \/ \E c \in Users : Dissolve(c)

vars == <<org, members>>

Spec == Init /\ [][Next]_vars
=============================================================================
