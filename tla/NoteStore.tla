----------------------------- MODULE NoteStore ------------------------------
(***************************************************************************)
(* What the note service promises: every request takes effect in one step, *)
(* on a note that is there, and only at its owner's wish.  Notes is the    *)
(* code (internal/capture), which checks in one statement and writes in    *)
(* another.                                                                *)
(***************************************************************************)
CONSTANTS
  NoteIDs,    (* notes that can be created: bounds Create                  *)
  Users,
  Contents    (* non-empty note contents                                   *)

VARIABLE notes  (* rows of nodes with type 'note'; NoNote until inserted   *)

NoNote == [status |-> "none"]

(* archived: archived_at IS NOT NULL; deleted: deleted_at IS NOT NULL      *)
Row == [user : Users, content : Contents, status : {"inbox", "archived"},
        archived : BOOLEAN, deleted : BOOLEAN]

Created == {n \in NoteIDs : notes[n] # NoNote}

Present(n) == n \in Created /\ ~notes[n].deleted

Init == notes = [n \in NoteIDs |-> NoNote]

Create(u, n, c) ==
  /\ n \notin Created
  /\ notes' = [notes EXCEPT ![n] = [user |-> u, content |-> c, status |-> "inbox",
                                    archived |-> FALSE, deleted |-> FALSE]]

Edit(u, n, c) ==
  /\ Present(n) /\ notes[n].user = u
  /\ notes' = [notes EXCEPT ![n].content = c]

(* The status and the time of archiving change together, and stay. *)
Archive(u, n) ==
  /\ Present(n) /\ notes[n].user = u
  /\ notes' = [notes EXCEPT ![n].status = "archived", ![n].archived = TRUE]

Delete(u, n) ==
  /\ Present(n) /\ notes[n].user = u
  /\ notes' = [notes EXCEPT ![n].deleted = TRUE]

Next == \E u \in Users, n \in NoteIDs :
  \/ \E c \in Contents : Create(u, n, c) \/ Edit(u, n, c)
  \/ Archive(u, n)
  \/ Delete(u, n)

Spec == Init /\ [][Next]_notes
=============================================================================
