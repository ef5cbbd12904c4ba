------------------------------- MODULE Notes --------------------------------
(***************************************************************************)
(* The note service (internal/capture: handler.go, service_impl.go,        *)
(* repository_pg.go, db/queries/notes.sql) serving concurrent requests.    *)
(*                                                                         *)
(* A worker is the goroutine of one HTTP request, pc[w] the statement it   *)
(* issues next; statements run outside any transaction.  Update, Delete    *)
(* and Archive look the note up, compare its owner with the caller, and    *)
(* write in a second statement.                                            *)
(*                                                                         *)
(* auth.Require stands before every route with the role in the token,      *)
(* which is "owner" for every registered user and so always passes.        *)
(* Register gives each user an organisation of their own; the schema allows*)
(* several users in one, and requireOwner is written for them.             *)
(***************************************************************************)
CONSTANTS
  NoteIDs,
  Users,
  Org,        (* Org[u]: the organisation in user u's token                *)
  Contents,
  Workers

Empty == "empty"

ASSUME ContentsAssumption == Empty \notin Contents

VARIABLES
  notes,
  pc, req, reply

vars == <<notes, pc, req, reply>>

Store == INSTANCE NoteStore

NoNote     == Store!NoNote
Row        == Store!Row
Created    == Store!Created
Present(n) == Store!Present(n)

CreateRequest == [kind : {"Create"}, user : Users, content : Contents \cup {Empty}]
UpdateRequest == [kind : {"Update"}, user : Users, note : NoteIDs,
                  content : Contents \cup {Empty}]
GetRequest    == [kind : {"Get"}, user : Users, note : NoteIDs]
NoteRequest   == [kind : {"Delete", "Archive"}, user : Users, note : NoteIDs]

Request   == CreateRequest \cup UpdateRequest \cup GetRequest \cup NoteRequest
NoRequest == [kind |-> "none"]

Statements == {"FindDefaultOrgUnit", "CreateNote", "FindNoteByID", "Write"}
Replies    == {"none", "ok", "invalid", "not found", "forbidden", "internal"}

Idle(w) == pc[w] = "idle"

Writing(w, kind) == pc[w] = "Write" /\ req[w].kind = kind

(* A row has its creator's organisation in org_id. *)
SameOrg(u, n) == Org[notes[n].user] = Org[u]

Proceed(w, statement) ==
  /\ pc' = [pc EXCEPT ![w] = statement]
  /\ UNCHANGED <<req, reply>>

Answer(w, code) ==
  /\ pc'    = [pc EXCEPT ![w] = "idle"]
  /\ req'   = [req EXCEPT ![w] = NoRequest]
  /\ reply' = [reply EXCEPT ![w] = code]

-----------------------------------------------------------------------------
Init ==
  /\ Store!Init
  /\ pc    = [w \in Workers |-> "idle"]
  /\ req   = [w \in Workers |-> NoRequest]
  /\ reply = [w \in Workers |-> "none"]

(* Create and Update reject empty content before their first statement.    *)
Receive(w, q) ==
  /\ Idle(w)
  /\ LET invalid == q.kind \in {"Create", "Update"} /\ q.content = Empty IN
     \/ invalid /\ Answer(w, "invalid")
     \/ /\ ~invalid
        /\ pc'    = [pc EXCEPT ![w] = IF q.kind = "Create" THEN "FindDefaultOrgUnit"
                                                           ELSE "FindNoteByID"]
        /\ req'   = [req EXCEPT ![w] = q]
        /\ reply' = [reply EXCEPT ![w] = "none"]
  /\ UNCHANGED notes

(* Registration made the root unit; nothing deletes units. *)
FindDefaultOrgUnit(w) ==
  /\ pc[w] = "FindDefaultOrgUnit"
  /\ Proceed(w, "CreateNote")
  /\ UNCHANGED notes

CreateNote(w) ==
  /\ pc[w] = "CreateNote"
  /\ \E n \in NoteIDs \ Created :
       notes' = [notes EXCEPT ![n] = [user |-> req[w].user, content |-> req[w].content,
                                      status |-> "inbox", archived |-> FALSE,
                                      deleted |-> FALSE]]
  /\ \E code \in {"ok", "internal"} : Answer(w, code)

(* FindByID within the caller's organisation, then requireOwner. *)
FindNoteByID(w) ==
  /\ pc[w] = "FindNoteByID"
  /\ LET q == req[w]
         found == Present(q.note) /\ SameOrg(q.user, q.note) IN
     \/ ~found /\ Answer(w, "not found")
     \/ found /\ q.kind = "Get" /\ Answer(w, "ok")
     \/ /\ found /\ q.kind # "Get"
        /\ \/ notes[q.note].user # q.user /\ Answer(w, "forbidden")
           \/ notes[q.note].user = q.user /\ Proceed(w, "Write")
  /\ UNCHANGED notes

(* Mutant of Write: deleted_at IS NULL is forgotten. *)
WriteDeleted(w, kind, row) ==
  /\ Writing(w, kind)
  /\ notes' = [notes EXCEPT ![req[w].note] = row]
  /\ \E code \in {"ok", "internal"} : Answer(w, code)

(* Mutant of Write: that no row was written goes unreported. *)
WriteUnreported(w, kind, row) ==
  /\ Writing(w, kind)
  /\ \/ Present(req[w].note) /\ notes' = [notes EXCEPT ![req[w].note] = row]
     \/ ~Present(req[w].note) /\ UNCHANGED notes
  /\ \E code \in {"ok", "internal"} : Answer(w, code)

(* UPDATE ... WHERE id AND org_id AND deleted_at IS NULL RETURNING: a note *)
(* deleted since the lookup is not found.                                  *)
Write(w, kind, row) ==
  /\ Writing(w, kind)
  /\ \/ /\ Present(req[w].note) /\ SameOrg(req[w].user, req[w].note)
        /\ notes' = [notes EXCEPT ![req[w].note] = row]
        /\ \E code \in {"ok", "internal"} : Answer(w, code)
     \/ /\ ~(Present(req[w].note) /\ SameOrg(req[w].user, req[w].note))
        /\ Answer(w, "not found")
        /\ UNCHANGED notes

(* The metadata patch is empty: the status stays. *)
UpdateNote(w) ==
  Write(w, "Update", [notes[req[w].note] EXCEPT !.content = req[w].content])

ArchiveNote(w) ==
  Write(w, "Archive", [notes[req[w].note] EXCEPT !.status = "archived", !.archived = TRUE])

SoftDeleteNote(w) ==
  Write(w, "Delete", [notes[req[w].note] EXCEPT !.deleted = TRUE])

(* A statement fails or the request's context ends. *)
Fail(w) == ~Idle(w) /\ Answer(w, "internal") /\ UNCHANGED notes

Step(w) ==
  \/ FindDefaultOrgUnit(w)
  \/ CreateNote(w)
  \/ FindNoteByID(w)
  \/ UpdateNote(w)
  \/ ArchiveNote(w)
  \/ SoftDeleteNote(w)

Next == \E w \in Workers :
  \/ \E q \in Request : Receive(w, q)
  \/ Step(w)
  \/ Fail(w)

Spec == Init /\ [][Next]_vars

-----------------------------------------------------------------------------
(* Properties *)

Stage(w) ==
  /\ req[w] \in Request
  /\ pc[w] \in {"FindDefaultOrgUnit", "CreateNote"} <=> req[w].kind = "Create"
  /\ req[w].kind \in {"Create", "Update"} => req[w].content \in Contents
  /\ pc[w] = "Write" => /\ req[w].kind # "Get"
                        /\ req[w].note \in Created
                        /\ notes[req[w].note].user = req[w].user

(* Every variable keeps its type; whoever is about to write a note has been*)
(* found to be its owner and still is (requireOwner).                      *)
TypeOK ==
  /\ notes \in [NoteIDs -> Row \cup {NoNote}]
  /\ pc \in [Workers -> Statements \cup {"idle"}]
  /\ req \in [Workers -> Request \cup {NoRequest}]
  /\ reply \in [Workers -> Replies]
  /\ \A w \in Workers : IF Idle(w) THEN req[w] = NoRequest ELSE Stage(w)

(* Although checks and writes are separate statements, the note service is *)
(* the atomic one under any interleaving: owners do not change and every   *)
(* write repeats deleted_at IS NULL.                                       *)
ImplementsStore == Store!Spec

(* Of all the requests to delete one note, the one acknowledged is the one *)
(* that deleted it; the others learn that it was not found.                *)
DeleteAcknowledgedOnce ==
  [][\A w \in Workers, n \in NoteIDs :
       req[w].kind = "Delete" /\ req[w].note = n /\ reply'[w] = "ok" /\ pc'[w] = "idle" =>
         Present(n) /\ ~Present(n)']_vars

(* An edit is acknowledged only if its content is what the note then holds:*)
(* a delete in between is answered "not found", not 200.                   *)
EditAcknowledged ==
  [][\A w \in Workers, n \in NoteIDs :
       req[w].kind = "Update" /\ req[w].note = n /\ reply'[w] = "ok" /\ pc'[w] = "idle" =>
         Present(n)' /\ notes'[n].content = req[w].content]_vars
=============================================================================
