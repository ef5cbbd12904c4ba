---------------------------- MODULE NoteListing -----------------------------
(***************************************************************************)
(* Listing notes (internal/capture: List and Inbox) while notes come, move *)
(* to the archive and go.                                                  *)
(*                                                                         *)
(* A page is read in two statements, the rows and their total, and a client*)
(* reads all its notes by asking for page 1, 2, 3, ...: every page by an   *)
(* offset into what the listing is by then.  The writers are the steps of  *)
(* NoteStore, which the note service implements (Notes!ImplementsStore).   *)
(* Readers do not affect each other, so there is one, user Me.             *)
(***************************************************************************)
EXTENDS Integers, SequencesExt

CONSTANTS
  NoteIDs, Users, Contents,
  Me,               (* the user in the reader's token                      *)
  AskedPages,       (* values of the query parameters page and page_size;  *)
  AskedSizes,       (* one that is no number reads as 0                    *)
  DefaultPageSize,  (* 20 *)
  MaxPageSize,      (* 100 *)
  Int32Max,         (* 2^31 - 1 *)
  Overtaking        (* bound: notes created later that may be seen first   *)

ASSUME ListingAssumption ==
  /\ IsFiniteSet(NoteIDs) /\ Me \in Users
  /\ AskedPages \subseteq Int /\ AskedSizes \subseteq Int
  /\ DefaultPageSize \in 1..MaxPageSize /\ MaxPageSize \in Nat
  /\ Int32Max \in Nat /\ Cardinality(NoteIDs) <= Int32Max
  /\ Overtaking \in Nat

VARIABLES
  notes,
  feed,       (* notes in the order of the index: created_at DESC, id DESC *)
  at,         (* the statement the reader's request issues next            *)
  req,        (* ... and what it asks for, once the parameters are settled *)
  rows,       (* the page, between the two statements                      *)
  reply,
  client,     (* what the client is doing: it asks once, or walks          *)
  shown,      (* notes the walk has been shown                             *)
  repeats,    (* history: how often the walk was shown a note again        *)
  stayed,     (* history: notes listed from before the walk until now      *)
  came, went, (* history: how many were listed, or not any more, meanwhile *)
  disturbed   (* history: the listing changed since the first statement    *)

storeVars  == <<notes, feed>>
serverVars == <<at, req, rows, reply>>
clientVars == <<client, shown, repeats>>
history    == <<stayed, came, went, disturbed>>
vars       == <<storeVars, serverVars, clientVars, history>>

Store == INSTANCE NoteStore WITH notes <- notes

NoReply == [status |-> "none"]

Views == {"List", "Inbox"}

-----------------------------------------------------------------------------
(* What a listing is *)

Listed(view, n) ==
  /\ Store!Present(n) /\ notes[n].user = Me
  /\ view = "Inbox" => notes[n].status = "inbox"

ListedNotes(view) == {n \in NoteIDs : Listed(view, n)}

(* ORDER BY created_at DESC, id DESC: how many of the rows come before. *)
Place == AntiFunction(feed)

Rank(view, n) == Cardinality({m \in ListedNotes(view) : Place[m] < Place[n]})

Listing(view) ==
  [i \in 1..Cardinality(ListedNotes(view)) |->
     CHOOSE n \in ListedNotes(view) : Rank(view, n) = i - 1]

(* A row as the client sees it. *)
NoteRow == [id : NoteIDs, content : Contents, status : {"inbox", "archived"},
            archived : BOOLEAN]

BuildNote(n) == [id |-> n, content |-> notes[n].content, status |-> notes[n].status,
                 archived |-> notes[n].archived]

MapNoteRows(ids) == [i \in DOMAIN ids |-> BuildNote(ids[i])]

(* LIMIT limit OFFSET offset *)
Slice(s, offset, limit) ==
  SubSeq(s, offset + 1, IF offset + limit < Len(s) THEN offset + limit ELSE Len(s))

(* int32(x) *)
Int32(x) == ((x + Int32Max + 1) % (2 * (Int32Max + 1))) - (Int32Max + 1)

(* Mutant of Offset: pages counted from 0. *)
OffsetFromZero == Int32(req.page * req.size)

(* Mutant of Offset: as if an int32 were half as wide. *)
NarrowOffset ==
  LET half == (Int32Max + 1) \div 2 IN
  (((req.page - 1) * req.size + half) % (2 * half)) - half

Offset == Int32((req.page - 1) * req.size)

-----------------------------------------------------------------------------
(* The server *)

(* Mutant of ParsePagination and of the service's copy: any size will do.  *)
AnySize(page, size) ==
  [page |-> IF page < 1 THEN 1 ELSE page,
   size |-> IF size < 1 THEN DefaultPageSize ELSE size]

(* What the handler makes of the query parameters; a size beyond the       *)
(* maximum becomes the default one, not the maximum.                       *)
ParsePagination(page, size) ==
  [page |-> IF page < 1 THEN 1 ELSE page,
   size |-> IF size \in 1..MaxPageSize THEN size ELSE DefaultPageSize]

(* The service repeats it for its other callers. *)
Settled(q) == ParsePagination(q.page, q.size)

Ask(view, page, size) ==
  LET settled == Settled(ParsePagination(page, size)) IN
  /\ at = "idle"
  /\ at' = "ListNotes"
  /\ req' = [view |-> view, page |-> settled.page, size |-> settled.size]
  /\ reply' = NoReply
  /\ UNCHANGED <<storeVars, rows>>

Reply(r) == at' = "idle" /\ rows' = <<>> /\ reply' = r /\ UNCHANGED req

Fetch(view) ==
  /\ at = "ListNotes" /\ req.view = view
  /\ \/ /\ Offset >= 0
        /\ rows' = MapNoteRows(Slice(Listing(view), Offset, req.size))
        /\ at' = "CountNotes"
        /\ UNCHANGED <<req, reply>>
     \/ /\ Offset < 0            \* OFFSET must not be negative
        /\ Reply([status |-> "internal"])
  /\ disturbed' = FALSE
  /\ UNCHANGED <<storeVars, clientVars, stayed, came, went>>

(* Mutant of Count: the inbox reports the total of all notes. *)
CountAll(view) ==
  /\ at = "CountNotes" /\ req.view = view
  /\ Reply([status |-> "ok", notes |-> rows, total |-> Len(Listing("List")),
            page |-> req.page, size |-> req.size])
  /\ UNCHANGED <<storeVars, clientVars, history>>

Count(view) ==
  /\ at = "CountNotes" /\ req.view = view
  /\ Reply([status |-> "ok", notes |-> rows, total |-> Len(Listing(view)),
            page |-> req.page, size |-> req.size])
  /\ UNCHANGED <<storeVars, clientVars, history>>

ListNotes       == Fetch("List")
CountNotes      == Count("List")
ListInboxNotes  == Fetch("Inbox")
CountInboxNotes == Count("Inbox")

(* A statement fails, or the request's context ends. *)
Fail ==
  /\ at # "idle"
  /\ Reply([status |-> "internal"])
  /\ UNCHANGED <<storeVars, clientVars, history>>

Serve == ListNotes \/ CountNotes \/ ListInboxNotes \/ CountInboxNotes

-----------------------------------------------------------------------------
(* The client *)

NoRequest == [view |-> "List", page |-> 1, size |-> DefaultPageSize]

AskOnce(view) ==
  /\ client = "idle" /\ client' = "asking"
  /\ \E page \in AskedPages, size \in AskedSizes : Ask(view, page, size)
  /\ UNCHANGED <<shown, repeats, history>>

StartWalk(view) ==
  /\ client = "idle" /\ client' = "walking"
  /\ \E size \in AskedSizes : Ask(view, 1, size)
  /\ stayed' = ListedNotes(view)
  /\ UNCHANGED <<shown, repeats, came, went, disturbed>>

Finish ==
  /\ client' = "idle" /\ shown' = {} /\ repeats' = 0
  /\ req' = NoRequest /\ reply' = NoReply
  /\ stayed' = {} /\ came' = 0 /\ went' = 0 /\ disturbed' = FALSE
  /\ UNCHANGED <<storeVars, at, rows>>

Ids(page) == {page[i].id : i \in DOMAIN page}

(* A page that is not full is the last; so is one that reaches the total,  *)
(* for a client that looks at it.                                          *)
NextPage ==
  /\ client = "walking" /\ at = "idle" /\ reply.status = "ok"
  /\ Len(reply.notes) = reply.size
  /\ shown' = shown \cup Ids(reply.notes)
  /\ repeats' = repeats + Cardinality(Ids(reply.notes) \cap shown)
  /\ Ask(req.view, reply.page + 1, reply.size)
  /\ UNCHANGED <<client, history>>

LastPage ==
  /\ client = "walking" /\ at = "idle" /\ reply.status = "ok"
  /\ Len(reply.notes) < reply.size \/ reply.page * reply.size >= reply.total
  /\ Finish

(* One page was all that was wanted, or an error ends the walk. *)
TakeAnswer ==
  /\ at = "idle"
  /\ client = "asking" \/ (client = "walking" /\ reply.status = "internal")
  /\ Finish

ReadOn == NextPage \/ LastPage \/ TakeAnswer

-----------------------------------------------------------------------------
(* The writers *)

(* What a write does to the listing the reader is at. *)
Observe ==
  LET before == ListedNotes(req.view)
      after  == ListedNotes(req.view)' IN
  /\ IF client = "walking"
     THEN /\ stayed' = stayed \cap after
          /\ came' = came + Cardinality(after \ before)
          /\ went' = went + Cardinality(before \ after)
     ELSE UNCHANGED <<stayed, came, went>>
  /\ disturbed' = (disturbed \/ (at = "CountNotes" /\ before # after))

(* created_at is the time the insert began: a later one may have committed *)
(* before it.  Which fresh id a note gets does not matter.                 *)
CreateNote(u, c) ==
  /\ Store!Created # NoteIDs
  /\ LET n == CHOOSE m \in NoteIDs : m \notin Store!Created IN
       /\ Store!Create(u, n, c)
       /\ \E i \in 0..Overtaking : i <= Len(feed) /\ feed' = InsertAt(feed, i + 1, n)

(* Mutant of UpdateNote: the listing is ordered by updated_at. *)
UpdateMovesNote(u, n, c) ==
  /\ Store!Edit(u, n, c)
  /\ feed' = <<n>> \o SelectSeq(feed, LAMBDA m : m # n)

UpdateNote(u, n, c) == Store!Edit(u, n, c) /\ UNCHANGED feed

ArchiveNote(u, n) == Store!Archive(u, n) /\ UNCHANGED feed

SoftDeleteNote(u, n) == Store!Delete(u, n) /\ UNCHANGED feed

Write ==
  /\ \E u \in Users :
       \/ \E c \in Contents : CreateNote(u, c)
       \/ \E n \in NoteIDs :
            \/ \E c \in Contents : UpdateNote(u, n, c)
            \/ ArchiveNote(u, n)
            \/ SoftDeleteNote(u, n)
  /\ UNCHANGED <<serverVars, clientVars>>
  /\ Observe

-----------------------------------------------------------------------------
Init ==
  /\ Store!Init /\ feed = <<>>
  /\ at = "idle" /\ req = NoRequest
  /\ rows = <<>> /\ reply = NoReply
  /\ client = "idle" /\ shown = {} /\ repeats = 0
  /\ stayed = {} /\ came = 0 /\ went = 0 /\ disturbed = FALSE

Next ==
  \/ \E view \in Views : AskOnce(view) \/ StartWalk(view)
  \/ ReadOn
  \/ Serve
  \/ Fail
  \/ Write

Spec == Init /\ [][Next]_vars

-----------------------------------------------------------------------------
(* Properties *)

TrueOffset == (req.page - 1) * req.size

Request == [view : Views, page : Nat \ {0}, size : 1..MaxPageSize]

Answer == {NoReply, [status |-> "internal"]}
            \cup [status : {"ok"}, notes : Seq(NoteRow), total : Nat,
                  page : Nat \ {0}, size : 1..MaxPageSize]

(* Every variable keeps its type; each note created is in the feed once.   *)
TypeOK ==
  /\ notes \in [NoteIDs -> Store!Row \cup {Store!NoNote}]
  /\ feed \in Seq(NoteIDs) /\ ToSet(feed) = Store!Created /\ IsInjective(feed)
  /\ at \in {"idle", "ListNotes", "CountNotes"}
  /\ req \in Request
  /\ rows \in Seq(NoteRow) /\ Len(rows) <= req.size
  /\ reply \in Answer
  /\ client \in {"idle", "asking", "walking"}
  /\ shown \subseteq Store!Created /\ stayed \subseteq Store!Created
  /\ repeats \in Nat /\ came \in Nat /\ went \in Nat /\ disturbed \in BOOLEAN

(* A walk over pages by offset misses a note that was listed all the while *)
(* only if another left the listing: no more are missed than left.         *)
SkippedBounded ==
  [][LastPage => Cardinality(stayed \ (shown \cup Ids(reply.notes))) <= went]_vars

(* ... and it shows no more notes twice than came into the listing.        *)
RepeatedBounded ==
  [][LastPage => repeats + Cardinality(Ids(reply.notes) \cap shown) <= came]_vars

(* A client that walks is never refused a page for the 32 bits of the      *)
(* offset (repository_pg.go:188): the page before was full.                *)
WalksStayInRange ==
  client = "walking" => Offset = TrueOffset

(* The page a walk gets is the page it asked for, as of one moment, and the*)
(* total is of the same moment, if nobody wrote between the statements.    *)
UndisturbedIsSnapshot ==
  [][reply' # reply /\ reply'.status = "ok" /\ ~disturbed /\ TrueOffset <= Int32Max =>
       /\ [i \in DOMAIN reply'.notes |-> reply'.notes[i].id]
            = Slice(Listing(req.view), TrueOffset, req.size)
       /\ reply'.total = Len(Listing(req.view))]_vars
=============================================================================
