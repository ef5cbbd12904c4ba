---------------------------- MODULE NotesProofs -----------------------------
(***************************************************************************)
(* Proofs about Notes, for any notes, users, organisations and workers.    *)
(***************************************************************************)
EXTENDS Notes, TLAPS

LEMMA RequestFields ==
  ASSUME NEW q \in Request
  PROVE  /\ q.kind \in {"Create", "Update", "Get", "Delete", "Archive"}
         /\ q.user \in Users
         /\ q.kind # "Create" => q.note \in NoteIDs
         /\ q.kind \in {"Create", "Update"} => q.content \in Contents \cup {Empty}
  BY DEF Request, CreateRequest, UpdateRequest, GetRequest, NoteRequest

LEMMA NoNoteIsNoRow == NoNote \notin Row
<1>1. NoNote.status \notin {"inbox", "archived"}
  BY DEF NoNote, Store!NoNote
<1>2. ASSUME NEW r \in Row
      PROVE  r.status \in {"inbox", "archived"}
  BY DEF Row, Store!Row
<1>3. QED
  BY <1>1, <1>2

(* The rows, and the workers. *)
RowsOK == notes \in [NoteIDs -> Row \cup {NoNote}]

WorkersOK ==
  /\ pc \in [Workers -> Statements \cup {"idle"}]
  /\ req \in [Workers -> Request \cup {NoRequest}]
  /\ reply \in [Workers -> Replies]
  /\ \A w \in Workers : IF Idle(w) THEN req[w] = NoRequest ELSE Stage(w)

(* A note never disappears nor changes owner. *)
OwnersStay == \A n \in Created : n \in Created' /\ notes'[n].user = notes[n].user

LEMMA CreatedRows ==
  ASSUME RowsOK, NEW n \in Created
  PROVE  n \in NoteIDs /\ notes[n] \in Row
  BY DEF RowsOK, Created, Store!Created, NoNote

LEMMA AnswerType ==
  ASSUME WorkersOK, NEW w \in Workers, NEW code \in Replies, Answer(w, code), OwnersStay
  PROVE  WorkersOK'
  BY DEF WorkersOK, Answer, Idle, Stage, OwnersStay

LEMMA ProceedType ==
  ASSUME WorkersOK, NEW w \in Workers, NEW s \in Statements, Proceed(w, s), Stage(w)',
         OwnersStay
  PROVE  WorkersOK'
<1>1. s # "idle"
  BY DEF Statements
<1>2. ASSUME NEW v \in Workers
      PROVE  (IF Idle(v) THEN req[v] = NoRequest ELSE Stage(v))'
  <2>1. CASE v = w
    BY <1>1, <2>1 DEF WorkersOK, Proceed, Idle
  <2>2. CASE v # w
    BY <2>2 DEF WorkersOK, Proceed, Idle, Stage, OwnersStay
  <2>3. QED
    BY <2>1, <2>2
<1>3. QED
  BY <1>2 DEF WorkersOK, Proceed

LEMMA UnchangedRows ==
  ASSUME RowsOK, UNCHANGED notes
  PROVE  RowsOK' /\ OwnersStay
  BY DEF RowsOK, OwnersStay, Created, Store!Created

LEMMA ReceiveType ==
  ASSUME RowsOK, WorkersOK, NEW w \in Workers, NEW q \in Request, Receive(w, q)
  PROVE  RowsOK' /\ WorkersOK'
<1>1. RowsOK' /\ OwnersStay /\ notes' = notes
  BY UnchangedRows DEF Receive
<1>2. CASE Answer(w, "invalid")
  BY <1>1, <1>2, AnswerType DEF Replies
<1>3. CASE ~Answer(w, "invalid")
  <2>1. /\ ~(q.kind \in {"Create", "Update"} /\ q.content = Empty)
        /\ pc'    = [pc EXCEPT ![w] = IF q.kind = "Create" THEN "FindDefaultOrgUnit"
                                                           ELSE "FindNoteByID"]
        /\ req'   = [req EXCEPT ![w] = q]
        /\ reply' = [reply EXCEPT ![w] = "none"]
    BY <1>3 DEF Receive
  <2>2. /\ pc'[w] = IF q.kind = "Create" THEN "FindDefaultOrgUnit" ELSE "FindNoteByID"
        /\ req'[w] = q
    BY <2>1 DEF WorkersOK
  <2>3. Stage(w)'
    BY <2>1, <2>2, RequestFields DEF Stage
  <2>4. ASSUME NEW v \in Workers
        PROVE  (IF Idle(v) THEN req[v] = NoRequest ELSE Stage(v))'
    <3>1. CASE v = w
      BY <2>2, <2>3, <3>1 DEF Idle
    <3>2. CASE v # w
      BY <1>1, <2>1, <3>2 DEF WorkersOK, Idle, Stage, Created, Store!Created
    <3>3. QED
      BY <3>1, <3>2
  <2>5. QED
    BY <1>1, <2>1, <2>4 DEF WorkersOK, Statements, Replies
<1>4. QED
  BY <1>2, <1>3

(* A write either replaces a present note by another row of its owner, or  *)
(* leaves the notes alone.                                                 *)
LEMMA WriteType ==
  ASSUME RowsOK, WorkersOK, NEW w \in Workers, NEW kind, NEW row, Write(w, kind, row),
         notes[req[w].note] \in Row => row \in Row /\ row.user = notes[req[w].note].user
  PROVE  RowsOK' /\ WorkersOK'
<1> USE DEF Replies
<1>1. CASE Answer(w, "not found") /\ UNCHANGED notes
  BY <1>1, UnchangedRows, AnswerType
<1>2. CASE /\ Present(req[w].note)
           /\ notes' = [notes EXCEPT ![req[w].note] = row]
           /\ \E code \in {"ok", "internal"} : Answer(w, code)
  <2>1. PICK n \in Created : n = req[w].note /\ n \in NoteIDs /\ notes[n] \in Row
    BY <1>2, CreatedRows DEF Present, Store!Present, Created
  <2>2. row \in Row /\ row.user = notes[n].user
    BY <2>1
  <2>3. RowsOK'
    BY <1>2, <2>1, <2>2 DEF RowsOK
  <2>4. OwnersStay
    BY <1>2, <2>1, <2>2, NoNoteIsNoRow DEF OwnersStay, RowsOK, Created, Store!Created, NoNote
  <2>5. QED
    BY <1>2, <2>3, <2>4, AnswerType
<1>3. QED
  BY <1>1, <1>2 DEF Write

LEMMA RowUpdates ==
  ASSUME NEW r \in Row, NEW c \in Contents
  PROVE  /\ [r EXCEPT !.content = c] \in Row /\ [r EXCEPT !.content = c].user = r.user
         /\ [r EXCEPT !.deleted = TRUE] \in Row /\ [r EXCEPT !.deleted = TRUE].user = r.user
         /\ [r EXCEPT !.status = "archived", !.archived = TRUE] \in Row
         /\ [r EXCEPT !.status = "archived", !.archived = TRUE].user = r.user
  BY DEF Row, Store!Row

LEMMA StepType ==
  ASSUME RowsOK, WorkersOK, NEW w \in Workers, Step(w)
  PROVE  RowsOK' /\ WorkersOK'
<1> USE DEF Replies, Statements
<1>1. Stage(w) /\ req[w] \in Request
  BY DEF Step, FindDefaultOrgUnit, CreateNote, FindNoteByID, UpdateNote, ArchiveNote,
         SoftDeleteNote, Write, Writing, WorkersOK, Idle, Stage
<1>2. CASE FindDefaultOrgUnit(w)
  <2>1. RowsOK' /\ OwnersStay
    BY <1>2, UnchangedRows DEF FindDefaultOrgUnit
  <2>2. Stage(w)'
    BY <1>1, <1>2 DEF FindDefaultOrgUnit, Proceed, Stage, WorkersOK
  <2>3. QED
    BY <1>2, <2>1, <2>2, ProceedType DEF FindDefaultOrgUnit
<1>3. CASE CreateNote(w)
  <2>1. req[w].user \in Users /\ req[w].content \in Contents
    BY <1>1, <1>3, RequestFields DEF CreateNote, Stage
  <2>2. PICK n \in NoteIDs \ Created :
          notes' = [notes EXCEPT ![n] = [user |-> req[w].user, content |-> req[w].content,
                                         status |-> "inbox", archived |-> FALSE,
                                         deleted |-> FALSE]]
    BY <1>3 DEF CreateNote
  <2>3. RowsOK'
    BY <2>1, <2>2 DEF RowsOK, Row, Store!Row
  <2>4. OwnersStay
    BY <2>2, NoNoteIsNoRow DEF OwnersStay, RowsOK, Created, Store!Created, NoNote
  <2>5. QED
    BY <1>3, <2>3, <2>4, AnswerType DEF CreateNote
<1>4. CASE FindNoteByID(w)
  <2>1. RowsOK' /\ OwnersStay /\ notes' = notes
    BY <1>4, UnchangedRows DEF FindNoteByID
  <2>2. CASE \E code \in Replies : Answer(w, code)
    BY <2>1, <2>2, AnswerType
  <2>3. CASE /\ Present(req[w].note) /\ req[w].kind # "Get"
             /\ notes[req[w].note].user = req[w].user
             /\ Proceed(w, "Write")
    <3>1. Stage(w)'
      BY <1>1, <1>4, <2>1, <2>3
      DEF FindNoteByID, Proceed, Stage, WorkersOK, Present, Store!Present, Created, Store!Created
    <3>2. QED
      BY <2>1, <2>3, <3>1, ProceedType
  <2>4. QED
    BY <1>4, <2>2, <2>3 DEF FindNoteByID
<1>5. CASE UpdateNote(w)
  <2>1. req[w].content \in Contents
    BY <1>1, <1>5 DEF UpdateNote, Write, Writing, Stage
  <2>2. QED
    BY <1>5, <2>1, RowUpdates, WriteType DEF UpdateNote
<1>6. CASE ArchiveNote(w)
  <2>1. notes[req[w].note] \in Row =>
          /\ [notes[req[w].note] EXCEPT !.status = "archived", !.archived = TRUE] \in Row
          /\ [notes[req[w].note] EXCEPT !.status = "archived", !.archived = TRUE].user
               = notes[req[w].note].user
    BY DEF Row, Store!Row
  <2>2. QED
    BY <1>6, <2>1, WriteType DEF ArchiveNote
<1>7. CASE SoftDeleteNote(w)
  <2>1. notes[req[w].note] \in Row =>
          /\ [notes[req[w].note] EXCEPT !.deleted = TRUE] \in Row
          /\ [notes[req[w].note] EXCEPT !.deleted = TRUE].user = notes[req[w].note].user
    BY DEF Row, Store!Row
  <2>2. QED
    BY <1>7, <2>1, WriteType DEF SoftDeleteNote
<1>8. QED
  BY <1>2, <1>3, <1>4, <1>5, <1>6, <1>7 DEF Step

LEMMA NextType == TypeOK /\ [Next]_vars => TypeOK'
<1> SUFFICES ASSUME RowsOK, WorkersOK, [Next]_vars
             PROVE  RowsOK' /\ WorkersOK'
  BY DEF TypeOK, RowsOK, WorkersOK
<1>1. CASE UNCHANGED vars
  BY <1>1 DEF vars, RowsOK, WorkersOK, Idle, Stage, Created, Store!Created
<1>2. ASSUME NEW w \in Workers, Fail(w)
      PROVE  RowsOK' /\ WorkersOK'
  BY <1>2, UnchangedRows, AnswerType DEF Fail, Replies
<1>3. QED
  BY <1>1, <1>2, StepType, ReceiveType DEF Next

(* Every variable keeps its type, and whoever is about to write a note is  *)
(* its owner.                                                              *)
THEOREM TypeCorrect == Spec => []TypeOK
<1>1. Init => TypeOK
  BY DEF Init, TypeOK, Store!Init, Idle, Replies, NoNote, Store!NoNote
<1>2. TypeOK /\ [Next]_vars => TypeOK'
  BY NextType
<1>3. QED
  BY <1>1, <1>2, PTL DEF Spec

-----------------------------------------------------------------------------
(* The service implements the atomic store *)

LEMMA StepImplements ==
  ASSUME TypeOK, NEW w \in Workers, Step(w)
  PROVE  [Store!Next]_notes
<1>1. Stage(w) /\ req[w] \in Request /\ req[w].user \in Users
  BY RequestFields
  DEF Step, FindDefaultOrgUnit, CreateNote, FindNoteByID, UpdateNote, ArchiveNote,
      SoftDeleteNote, Write, Writing, TypeOK, Idle, Stage
<1> USE DEF Store!Next
<1>2. CASE FindDefaultOrgUnit(w) \/ FindNoteByID(w)
  BY <1>2 DEF FindDefaultOrgUnit, FindNoteByID
<1>3. CASE CreateNote(w)
  <2>1. req[w].content \in Contents
    BY <1>1, <1>3 DEF CreateNote, Stage
  <2>2. \E n \in NoteIDs : Store!Create(req[w].user, n, req[w].content)
    BY <1>3 DEF CreateNote, Store!Create, Created
  <2>3. QED
    BY <1>1, <2>1, <2>2
<1>4. CASE UpdateNote(w) \/ ArchiveNote(w) \/ SoftDeleteNote(w)
  <2>1. req[w].note \in NoteIDs /\ notes[req[w].note].user = req[w].user
    BY <1>1, <1>4, RequestFields
    DEF UpdateNote, ArchiveNote, SoftDeleteNote, Write, Writing, Stage
  <2>2. CASE UNCHANGED notes
    BY <2>2
  <2>3. CASE UpdateNote(w) /\ notes' # notes
    <3>1. Store!Edit(req[w].user, req[w].note, req[w].content)
      BY <2>1, <2>3 DEF UpdateNote, Write, Present, Store!Edit
    <3>2. req[w].content \in Contents
      BY <1>1, <2>3 DEF UpdateNote, Write, Writing, Stage
    <3>3. QED
      BY <1>1, <2>1, <3>1, <3>2
  <2>4. CASE ArchiveNote(w) /\ notes' # notes
    <3>1. Store!Archive(req[w].user, req[w].note)
      BY <2>1, <2>4 DEF ArchiveNote, Write, Present, Store!Archive
    <3>2. QED
      BY <1>1, <2>1, <3>1
  <2>5. CASE SoftDeleteNote(w) /\ notes' # notes
    <3>1. Store!Delete(req[w].user, req[w].note)
      BY <2>1, <2>5 DEF SoftDeleteNote, Write, Present, Store!Delete
    <3>2. QED
      BY <1>1, <2>1, <3>1
  <2>6. QED
    BY <1>4, <2>2, <2>3, <2>4, <2>5
<1>5. QED
  BY <1>2, <1>3, <1>4 DEF Step

(* The note service is the atomic store, whatever its requests' statements *)
(* interleave with.                                                        *)
THEOREM ServiceImplementsStore == Spec => ImplementsStore
<1>1. Init => Store!Init
  BY DEF Init
<1>2. TypeOK /\ [Next]_vars => [Store!Next]_notes
  <2> SUFFICES ASSUME TypeOK, [Next]_vars
               PROVE  [Store!Next]_notes
    OBVIOUS
  <2>1. CASE UNCHANGED vars
    BY <2>1 DEF vars
  <2>2. ASSUME NEW w \in Workers, Fail(w) \/ \E q \in Request : Receive(w, q)
        PROVE  [Store!Next]_notes
    BY <2>2 DEF Fail, Receive
  <2>3. QED
    BY <2>1, <2>2, StepImplements DEF Next
<1>3. QED
  BY <1>1, <1>2, TypeCorrect, PTL DEF Spec, ImplementsStore, Store!Spec

-----------------------------------------------------------------------------
(* What is acknowledged has happened *)

(* An acknowledged edit or delete is the end of its own writing statement, *)
(* which found the note.                                                   *)
LEMMA AcknowledgedWrites ==
  ASSUME TypeOK, [Next]_vars, NEW w \in Workers, NEW n \in NoteIDs,
         req[w].kind \in {"Update", "Delete"}, req[w].note = n,
         reply'[w] = "ok", pc'[w] = "idle"
  PROVE  /\ Present(n) /\ notes[n] \in Row
         /\ req[w].kind = "Update" =>
              notes' = [notes EXCEPT ![n] = [notes[n] EXCEPT !.content = req[w].content]]
         /\ req[w].kind = "Delete" =>
              notes' = [notes EXCEPT ![n] = [notes[n] EXCEPT !.deleted = TRUE]]
<1>1. pc[w] # "idle"
  BY DEF TypeOK, Idle, NoRequest
<1>2. PICK v \in Workers : (\E q \in Request : Receive(v, q)) \/ Step(v) \/ Fail(v)
  BY <1>1 DEF Next, vars
<1>3. v = w
  <2>1. \/ \E code \in Replies : Answer(v, code)
        \/ \E s \in Statements : Proceed(v, s)
        \/ \E s \in Statements : pc' = [pc EXCEPT ![v] = s]
    BY <1>2
    DEF Step, Receive, Fail, FindDefaultOrgUnit, CreateNote, FindNoteByID, UpdateNote,
        ArchiveNote, SoftDeleteNote, Write, Replies, Statements
  <2>2. v # w => pc'[w] = pc[w]
    BY <2>1 DEF Answer, Proceed, TypeOK
  <2>3. QED
    BY <1>1, <2>2
<1>4. Stage(w)
  BY <1>1 DEF TypeOK, Idle
<1>5. UpdateNote(w) \/ SoftDeleteNote(w)
  <2>1. ~Fail(w) /\ ~FindDefaultOrgUnit(w) /\ ~CreateNote(w)
    BY <1>4 DEF Fail, FindDefaultOrgUnit, CreateNote, Proceed, Answer, Stage, TypeOK
  <2>2. ~FindNoteByID(w)
    BY DEF FindNoteByID, Proceed, Answer, TypeOK, Statements
  <2>3. ~ArchiveNote(w) /\ ~\E q \in Request : Receive(w, q)
    BY <1>1 DEF ArchiveNote, Write, Writing, Receive, Idle
  <2>4. QED
    BY <1>2, <1>3, <2>1, <2>2, <2>3 DEF Step
<1>6. Present(n) /\ notes[n] \in Row
  BY <1>5 DEF UpdateNote, SoftDeleteNote, Write, Writing, Answer, Present, Store!Present, Created,
     Store!Created, NoNote, TypeOK
<1>7. QED
  BY <1>5, <1>6 DEF UpdateNote, SoftDeleteNote, Write, Writing, Answer, TypeOK

(* Of all the requests to delete one note, the one acknowledged deleted it.*)
THEOREM DeletesOnce == Spec => DeleteAcknowledgedOnce
<1>1. ASSUME TypeOK, [Next]_vars, NEW w \in Workers, NEW n \in NoteIDs,
             req[w].kind = "Delete", req[w].note = n, reply'[w] = "ok", pc'[w] = "idle"
      PROVE  Present(n) /\ ~Present(n)'
  <2>1. /\ Present(n) /\ notes[n] \in Row
        /\ notes' = [notes EXCEPT ![n] = [notes[n] EXCEPT !.deleted = TRUE]]
    BY <1>1, AcknowledgedWrites
  <2>2. notes'[n].deleted
    BY <1>1, <2>1 DEF TypeOK, Row, Store!Row
  <2>3. QED
    BY <2>1, <2>2 DEF Present, Store!Present
<1> DEFINE D == \A w \in Workers, n \in NoteIDs :
       req[w].kind = "Delete" /\ req[w].note = n /\ reply'[w] = "ok" /\ pc'[w] = "idle" =>
         Present(n) /\ ~Present(n)'
<1>2. TypeOK /\ [Next]_vars => [D]_vars
  BY <1>1
<1>3. QED
  BY <1>2, TypeCorrect, PTL DEF Spec, DeleteAcknowledgedOnce

(* An acknowledged edit is what the note then holds.                       *)
THEOREM EditsHold == Spec => EditAcknowledged
<1>1. ASSUME TypeOK, [Next]_vars, NEW w \in Workers, NEW n \in NoteIDs,
             req[w].kind = "Update", req[w].note = n, reply'[w] = "ok", pc'[w] = "idle"
      PROVE  Present(n)' /\ notes'[n].content = req[w].content
  <2>1. /\ Present(n) /\ notes[n] \in Row
        /\ notes' = [notes EXCEPT ![n] = [notes[n] EXCEPT !.content = req[w].content]]
    BY <1>1, AcknowledgedWrites
  <2>2. /\ notes'[n].content = req[w].content /\ notes'[n].deleted = notes[n].deleted
    BY <1>1, <2>1 DEF TypeOK, Row, Store!Row
  <2>3. notes'[n].status = notes[n].status /\ notes'[n] # NoNote
    BY <1>1, <2>1 DEF TypeOK, Row, Store!Row, NoNote, Store!NoNote
  <2>4. QED
    BY <2>1, <2>2, <2>3 DEF Present, Store!Present, Created, Store!Created, NoNote
<1> DEFINE E == \A w \in Workers, n \in NoteIDs :
       req[w].kind = "Update" /\ req[w].note = n /\ reply'[w] = "ok" /\ pc'[w] = "idle" =>
         Present(n)' /\ notes'[n].content = req[w].content
<1>2. TypeOK /\ [Next]_vars => [E]_vars
  BY <1>1
<1>3. QED
  BY <1>2, TypeCorrect, PTL DEF Spec, EditAcknowledged
=============================================================================
