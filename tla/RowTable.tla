---- MODULE RowTable ----
(***************************************************************************)
(* The daemon's row table (daemon/supervisor.ts, ServerSupervisor), its    *)
(* two files (instances.json and deleted.json, daemon/storage.ts) and the  *)
(* prompt delivery it feeds: what each of its operations leaves of them.   *)
(*                                                                         *)
(* An operation takes the daemon's state as one value and returns the      *)
(* next: the daemon runs one request at a time, and a request is several   *)
(* of them.  Of a record, what decides anything is kept: its session file, *)
(* its pin and its orchestrator; names, ages and details are left out.     *)
(***************************************************************************)
EXTENDS Delivery, FiniteSets, SequencesExt

CONSTANTS
  File,      \* session files
  Parent,    \* each pane's orchestrator, None for a pane that is no run
  Pins       \* the values a row's pin is set to: BOOLEAN, or {} to leave pins out

ASSUME PaneIdsAreRowIds == Pane \subseteq Row
ASSUME FileAssumption == None \notin File
ASSUME ParentAssumption == Parent \in [Pane -> Pane \cup {None}]
ASSUME PinsAssumption == Pins \subseteq BOOLEAN

VARIABLES
  rows,      \* the row table
  stored,    \* instances.json: the stored rows, in the file's order
  deleted,   \* deleted.json
  dropped,   \* droppedPaneOn: the pane reaping dropped from each file
  waits,     \* the panes with a wait pending
  files      \* the session files that exist, which pi writes

table == <<rows, stored, deleted, dropped, waits, prompts, inboxes>>

MaybeFile == File \cup {None}

Pin == Pins \cup {None}

Kept == [file : File, pin : Pin]

(* A pane's pi as it last beat.  lapsed: longer than its TTL ago.  saved:  *)
(* its row as last stored (persisted).                                     *)
PaneRecord == [id : Pane, file : MaybeFile, pin : Pin, lapsed : BOOLEAN,
               saved : Kept \cup {None}]

Start == [file : MaybeFile, pane : Pane \cup {None}]

RowRecord == [state : {"starting", "live", "silent", "stored"},
              pane : PaneRecord \cup {None}, held : Seq(PaneRecord),
              start : Start \cup {None}]

(* A row with no entry in the table is a stored one. *)
NoEntry == [state |-> "stored", pane |-> None, held |-> <<>>, start |-> None]

StoredRow == [id : Row, file : File, pin : Pin, parent : Pane \cup {None}]

DeletedRow == [pane : Pane \cup {None}, file : MaybeFile, gone : BOOLEAN]

ASSUME NoneIsNoRecord == None \notin PaneRecord \cup Kept \cup Start \cup StoredRow
ASSUME PanesAssumption == IsFiniteSet(Pane)

(* The types of the table, of the two files and of the delivery.           *)
TableTypeOK ==
  /\ TypeOK
  /\ rows \in [Row -> RowRecord]
  /\ stored \in Seq(StoredRow)
  /\ deleted \subseteq DeletedRow
  /\ dropped \in [File -> Pane \cup {None}]
  /\ waits \subseteq Pane
  /\ files \subseteq File

TableInit ==
  /\ DInit
  /\ rows = [r \in Row |-> NoEntry]
  /\ stored = <<>>
  /\ deleted = {}
  /\ dropped = [f \in File |-> None]
  /\ waits = {}
  /\ files = {}

---------------------------------------------------------------------------
(* The daemon's state as one value, which its operations take and return   *)

Now == [rows |-> rows, stored |-> stored, deleted |-> deleted, dropped |-> dropped,
        waits |-> waits, prompts |-> prompts, inboxes |-> inboxes]

Becomes(s) ==
  /\ rows' = s.rows
  /\ stored' = s.stored
  /\ deleted' = s.deleted
  /\ dropped' = s.dropped
  /\ waits' = s.waits
  /\ prompts' = s.prompts
  /\ inboxes' = s.inboxes

(* What is left of a sequence of records without those of some ids. *)
Lacking(seq, ids) ==
  LET lacking[k \in 0..Len(seq)] ==
        IF k = 0 THEN <<>>
        ELSE IF seq[k].id \in ids THEN lacking[k - 1]
        ELSE Append(lacking[k - 1], seq[k])
  IN  lacking[Len(seq)]

(* Stored rows: getInstance, the first one of a file, upsert and remove. *)
StoredAt(s, id) == SelectInSeq(s.stored, LAMBDA x : x.id = id)

IsStored(s, id) == StoredAt(s, id) # 0

StoredOn(s, f) ==
  LET k == SelectInSeq(s.stored, LAMBDA x : x.file = f)
  IN  IF k = 0 THEN None ELSE s.stored[k]

Upsert(s, row) ==
  IF IsStored(s, row.id) THEN [s EXCEPT !.stored[StoredAt(s, row.id)] = row]
  ELSE [s EXCEPT !.stored = Append(@, row)]

Unstore(s, id) == [s EXCEPT !.stored = Lacking(@, {id})]

(* A pane is listed as its row, or held by it. *)
PanesIn(row) == ({row.pane} \ {None}) \cup {row.held[k] : k \in DOMAIN row.held}

Lists(row, p) == row.pane # None /\ row.pane.id = p

PaneIds(row) == {x.id : x \in PanesIn(row)}

Registered(s) == UNION {PaneIds(s.rows[r]) : r \in Row}

RowOf(s, p) == CHOOSE r \in Row : p \in PaneIds(s.rows[r])

PaneOf(s, p) == CHOOSE x \in UNION {PanesIn(s.rows[r]) : r \in Row} : x.id = p

IsLive(s, p) == \E r \in Row : s.rows[r].state = "live" /\ Lists(s.rows[r], p)

Lapsed(s, p) ==
  \E r \in Row : s.rows[r].state = "live" /\ Lists(s.rows[r], p) /\ s.rows[r].pane.lapsed

(* The panes on session file f, live or silent. *)
PanesOn(s, f) == {p \in Registered(s) : PaneOf(s, p).file = f}

LivePanesOn(s, f) == {p \in PanesOn(s, f) : IsLive(s, p)}

(* The pane id addresses: the row's, or a live pane's own id when no row   *)
(* is stored under it.                                                     *)
Addressed(s, id) ==
  IF s.rows[id].pane # None THEN s.rows[id].pane.id
  ELSE IF id \in Pane /\ IsLive(s, id) /\ ~IsStored(s, id) THEN id
  ELSE None

---------------------------------------------------------------------------
(* Transitions of a row *)

(* A mutant: the wait a pane has pending is left unanswered. *)
SettleNoWait(s, p) == s

SettleWait(s, p) == [s EXCEPT !.waits = @ \ {p}]

(* A start of row r ends with its row as it was. *)
LeaveStart(row) ==
  IF row.pane # None THEN [row EXCEPT !.start = None] ELSE NoEntry

(* What row goes on as without pane p: with the first silent pane it       *)
(* holds, or as its stored row.                                            *)
Without(row, p) ==
  IF ~Lists(row, p)
    THEN [row EXCEPT !.held = Lacking(@, {p})]
  ELSE IF row.held # <<>>
    THEN [row EXCEPT !.pane = Head(row.held), !.held = Tail(row.held), !.state = "silent"]
  ELSE [row EXCEPT !.pane = None, !.state = IF row.start # None THEN "starting" ELSE "stored"]

(* Pane p's registration ends, and with it its row's inbox if it lists it. *)
Drop(s, p, reason) ==
  LET r == RowOf(s, p)
      listed == Lists(s.rows[r], p)
  IN  [SettleWait(s, p) EXCEPT
                !.rows[r] = Without(@, p),
                !.prompts = AfterEnded(@, s.inboxes, r, p, reason, listed),
                !.inboxes = IF listed THEN Emptied(@, r) ELSE @]

(* The stopped row of session file f: of the row stored for it already     *)
(* (previous, or None), else of pane p's (or None), else a new one.        *)
StoppedRow(s, previous, f, p, fresh) ==
  [id |-> IF previous # None THEN previous.id ELSE IF p # None THEN RowOf(s, p) ELSE fresh,
   file |-> f,
   pin |-> IF p # None /\ PaneOf(s, p).pin # None THEN PaneOf(s, p).pin
           ELSE IF previous # None THEN previous.pin ELSE None,
   parent |-> IF p # None /\ Parent[p] # None THEN Parent[p]
              ELSE IF previous # None THEN previous.parent ELSE None]

(* Session file f is kept as a stopped row, and pane p's registration ends. *)
StopRow(s, f, p, fresh, reason) ==
  Upsert(IF p = None THEN s ELSE Drop(s, p, reason), StoppedRow(s, StoredOn(s, f), f, p, fresh))

(* Pane p's pi ended: its row is stopped, unless another pane goes on as it. *)
PaneEnded(s, p, reason) ==
  LET row == s.rows[RowOf(s, p)]
      f == PaneOf(s, p).file
      taken == row.state = "live" /\ ~Lists(row, p)
  IN  IF f \in files /\ ~taken THEN StopRow(s, f, p, None, reason) ELSE Drop(s, p, reason)

(* Live pane p missed its heartbeats while tmux still has it. *)
Silence(s, p) ==
  LET r == RowOf(s, p)
  IN  [SettleWait(s, p) EXCEPT
                !.rows[r].state = "silent",
                !.prompts = AfterSilent(@, s.inboxes, r),
                !.inboxes = Emptied(@, r)]

---------------------------------------------------------------------------
(* Deleted rows *)

RecordDeleted(s, p, f) ==
  IF p = None /\ f = None THEN s
  ELSE [s EXCEPT !.deleted = @ \cup {[pane |-> p, file |-> f, gone |-> p = None]}]

ForgetDeletedSession(s, f) ==
  [s EXCEPT !.deleted = {IF e.file = f THEN [e EXCEPT !.file = None] ELSE e :
                           e \in {d \in @ : d.file # f \/ d.pane # None}}]

(* Those in over were gone for longer than START_MS. *)
ExpireDeleted(s, says, over) ==
  [s EXCEPT !.deleted = {[e EXCEPT !.gone = e.gone \/ says[e.pane] = "gone"] : e \in @ \ over}]

---------------------------------------------------------------------------
(* Starts *)

(* A mutant: only the start of a new session's pane ends. *)
OwnStartTaken(s, p, f) == {r \in Row : s.rows[r].start # None /\ r = p}

(* The rows whose start a pane p registering on f ends. *)
StartsTaken(s, p, f) ==
  {r \in Row : s.rows[r].start # None
               /\ (r = p \/ (f # None /\ s.rows[r].start.file = f))}

TakeStarting(s, p, f) ==
  [s EXCEPT !.rows = [r \in Row |-> IF r \in StartsTaken(s, p, f) THEN LeaveStart(@[r]) ELSE @[r]]]

(* A start ends that was due, or whose new session's pane tmux has lost. *)
ExpireStarts(s, says, due) ==
  LET over == {r \in Row : /\ s.rows[r].start # None
                           /\ \/ r \in due
                              \/ /\ s.rows[r].start.pane # None
                                 /\ says[s.rows[r].start.pane] = "gone"}
  IN  [s EXCEPT !.rows = [r \in Row |-> IF r \in over THEN LeaveStart(@[r]) ELSE @[r]]]

ListStarting(s, r, f, p) ==
  LET row == s.rows[r]
  IN  [s EXCEPT !.rows[r] = [row EXCEPT !.start = [file |-> f, pane |-> p],
                               !.state = IF row.pane = None THEN "starting" ELSE row.state]]

---------------------------------------------------------------------------
(* A heartbeat *)

Deletes(s, p) == \E e \in s.deleted : e.pane = p

(* A pane whose row was deleted is not listed again; what it runs now is   *)
(* deleted with it.  (Its pi is asked to end: the environment's.)          *)
EndDeleted(s, p, f) ==
  IF f # None /\ ~\E e \in s.deleted : e.file = f THEN RecordDeleted(s, p, f) ELSE s

(* A mutant: a pane back from silence stays held too. *)
StillHeld(s, p) == s

(* A pane back from silence leaves the place it was held in. *)
Unheld(s, p) ==
  LET r == RowOf(s, p)
  IN  IF Lists(s.rows[r], p) THEN s
      ELSE [s EXCEPT !.rows[r].held = Lacking(@, {p})]

(* Row r lists pane x from now on; a silent one it listed is held. *)
Enter(s, r, x) ==
  LET row == s.rows[r]
      held == IF row.pane # None /\ row.pane.id # x.id THEN Append(row.held, row.pane) ELSE row.held
  IN  [s EXCEPT !.rows[r] = [state |-> "live", pane |-> x, held |-> held, start |-> None]]

(* The row is stored as it shows without its pane, once its session has a  *)
(* file, unless that is what was stored last.  A pane that is no run       *)
(* leaves the orchestrator the row was stored with.                        *)
PersistRow(s, r) ==
  LET x == s.rows[r].pane
      kept == [file |-> x.file, pin |-> x.pin]
      parent == IF Parent[x.id] = None /\ IsStored(s, r) THEN s.stored[StoredAt(s, r)].parent
                ELSE Parent[x.id]
  IN  IF x.file \notin files \/ x.saved = kept THEN s
      ELSE [Upsert(s, [id |-> r, file |-> x.file, pin |-> x.pin, parent |-> parent])
              EXCEPT !.rows[r].pane.saved = kept]

(* A live pane beats: the same row goes on, on whatever session it is now, *)
(* and until that has a file the row stored for the old one goes.          *)
BeatAgain(s, p, f) ==
  LET r == RowOf(s, p)
      x == PaneOf(s, p)
      beaten == [TakeStarting(s, p, f) EXCEPT !.rows[r].pane = [x EXCEPT !.file = f, !.lapsed = FALSE]]
  IN  PersistRow(IF x.file # f /\ f \notin files THEN Unstore(beaten, r) ELSE beaten, r)

(* A pane not live goes on as row r from now on. *)
GoOnAs(s, r, p, f, pin) ==
  PersistRow(Enter(TakeStarting(s, p, f), r,
                   [id |-> p, file |-> f, pin |-> pin, lapsed |-> FALSE, saved |-> None]), r)

(* A pane not registered: it goes on as the stored row of its session      *)
(* (onFile, or None), unless a live pane already does, else as the row a   *)
(* start claimed, else as one of its own.                                  *)
Placed(s, onFile, p, f, fresh, claimed) ==
  IF onFile # None /\ s.rows[onFile.id].state # "live"
    THEN GoOnAs(s, onFile.id, p, f, onFile.pin)
  ELSE GoOnAs(s, IF claimed # None THEN claimed ELSE IF IsStored(s, p) THEN fresh ELSE p,
              p, f, None)

PlacedOnFile(s, p, f, fresh, claimed) ==
  Placed(s, IF f = None THEN None ELSE StoredOn(s, f), p, f, fresh, claimed)

(* A pane not live: new, or back from silence.  It goes on as the row it   *)
(* fell silent as, if it is on the same session and no other pane went on  *)
(* as that row; else the session it ran ended.                             *)
Arrive(s, p, f, fresh, claimed) ==
  LET silent == p \in Registered(s)
      same == silent /\ PaneOf(s, p).file = f
  IN  IF same /\ s.rows[RowOf(s, p)].state # "live"
        THEN GoOnAs(Unheld(s, p), RowOf(s, p), p, f, PaneOf(s, p).pin)
      ELSE PlacedOnFile(IF ~silent THEN s
                        ELSE PaneEnded(s, p, IF same THEN "unsaid" ELSE "another"),
                        p, f, fresh, claimed)

RegisterExternal(s, p, f, fresh, claimed) ==
  IF Deletes(s, p) THEN EndDeleted(s, p, f)
  ELSE LET s1 == [s EXCEPT !.dropped = [g \in File |-> IF @[g] = p \/ g = f THEN None ELSE @[g]]]
           s2 == IF f = None THEN s1 ELSE ForgetDeletedSession(s1, f)
       IN  IF IsLive(s2, p) THEN BeatAgain(s2, p, f) ELSE Arrive(s2, p, f, fresh, claimed)

(* A mutant: the inbox is looked up by the pane's id, not its row's. *)
DrainByPane(s, p) ==
  IF ~IsLive(s, p) THEN s
  ELSE [s EXCEPT !.prompts = AfterTake(@, s.inboxes, p, p), !.inboxes = Emptied(@, p)]

(* Pane p's heartbeat takes what waits for its row, when it is live. *)
DrainExternal(s, p) ==
  IF ~IsLive(s, p) THEN s
  ELSE [s EXCEPT !.prompts = AfterTake(@, s.inboxes, RowOf(s, p), p),
                 !.inboxes = Emptied(@, RowOf(s, p))]

(* Why a pane's session ended decides whether its row is stopped at once;  *)
(* a silent pane's is by what follows.                                     *)
UnregisterExternal(s, p, reason) ==
  IF p \notin Registered(s) THEN s
  ELSE LET r == RowOf(s, p)
           f == PaneOf(s, p).file
       IN  IF ~IsLive(s, p)
             THEN IF reason = "another" THEN PaneEnded(s, p, reason) ELSE Drop(s, p, reason)
           ELSE IF f \in files /\ reason # "unsaid"
             THEN StopRow(s, f, p, None, reason)
           ELSE Drop(IF r = p /\ reason # "unsaid" THEN Unstore(s, p) ELSE s, p, reason)

---------------------------------------------------------------------------
(* Time passing: every list reaps first *)

(* A mutant: only live panes are reaped. *)
KeepGone(s, p, says) == s

(* A silent pane tmux no longer has ends. *)
EndGone(s, p, says) ==
  IF p \in Registered(s) /\ ~IsLive(s, p) /\ says[p] = "gone" THEN PaneEnded(s, p, "unsaid") ELSE s

(* A live pane past its TTL ends, falls silent or is dropped. *)
ReapLapsed(s, p, says) ==
  IF ~Lapsed(s, p) THEN s
  ELSE CASE says[p] = "gone" -> PaneEnded(s, p, "unsaid")
         [] says[p] = "up" -> Silence(s, p)
         [] OTHER ->
              LET f == PaneOf(s, p).file
              IN  Drop(IF f = None THEN s ELSE [s EXCEPT !.dropped[f] = p], p, "unsaid")

EndAllGone(s, order, says) ==
  LET after[k \in 0..Len(order)] ==
        IF k = 0 THEN s ELSE EndGone(after[k - 1], order[k], says)
  IN  after[Len(order)]

ReapAllLapsed(s, order, says) ==
  LET after[k \in 0..Len(order)] ==
        IF k = 0 THEN s ELSE ReapLapsed(after[k - 1], order[k], says)
  IN  after[Len(order)]

Reap(s, order, says, due, over) ==
  ReapAllLapsed(EndAllGone(ExpireDeleted(ExpireStarts(s, says, due), says, over), order, says),
                order, says)

(* The stored rows of the runs of the panes in gone. *)
RunsOf(s, gone) ==
  {s.stored[k].id : k \in {k \in DOMAIN s.stored : s.stored[k].parent \in gone}}

(* A mutant: a run's orchestrator that is not registered is taken for gone. *)
RemoveUnregisteredRuns(s, says) ==
  [s EXCEPT !.stored = Lacking(@, RunsOf(s, Pane \ Registered(s)))]

(* A closed run's stored row goes once tmux no longer has its orchestrator. *)
RemoveOrphanedRuns(s, says) ==
  [s EXCEPT !.stored = Lacking(@, RunsOf(s, {p \in Pane \ Registered(s) : says[p] = "gone"}))]

---------------------------------------------------------------------------
(* Deleting a row, and the rows of the runs it orchestrates *)

DeleteRow(s, id) ==
  LET p == Addressed(s, id)
      at == StoredAt(s, id)
  IN  IF p # None
        THEN RecordDeleted(Unstore(Drop(s, p, "unsaid"), RowOf(s, p)), p, PaneOf(s, p).file)
      ELSE IF at # 0
        THEN Unstore(RecordDeleted(s, s.dropped[s.stored[at].file], s.stored[at].file), id)
      ELSE s

(* The rows of the runs pane p orchestrates, open or stored. *)
RunRows(s, p) ==
  {RowOf(s, q) : q \in {q \in Registered(s) : Parent[q] = p}} \cup RunsOf(s, {p})

DeleteRows(s, ids) ==
  LET after[k \in 0..Len(ids)] ==
        IF k = 0 THEN s ELSE DeleteRow(after[k - 1], ids[k])
  IN  after[Len(ids)]

DeleteInstance(s, id) ==
  LET p == Addressed(s, id)
      s1 == DeleteRow(s, id)
  IN  IF p = None THEN s1
      ELSE DeleteRows(s1, SetToSeq(RunRows(s1, p)))
====
