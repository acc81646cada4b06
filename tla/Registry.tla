---- MODULE Registry ----
(***************************************************************************)
(* The daemon's requests on its row table (daemon/handler.ts), with all    *)
(* that calls them: panes, which register, wait, report and unregister;    *)
(* agent views and phones, which list, start, send, pin and delete; a      *)
(* quit's detached hand-off, which saves; and tmux and the clock, which    *)
(* the daemon asks.                                                        *)
(*                                                                         *)
(* The clock is left out: that a pane's last heartbeat is older than       *)
(* EXTERNAL_TTL_MS is a bit that time sets, and when a start or a deleted  *)
(* row has been kept for START_MS is chosen as the daemon looks.           *)
(***************************************************************************)
EXTENDS RowTable

CONSTANT Events   \* what may happen beside heartbeats, sends, lists and quits

ASSUME EventsAssumption ==
  Events \subseteq {"die", "tmux fails", "request lost", "move", "unlist", "start",
                    "delete", "restart", "report", "wait"}

VARIABLES
  life,      \* each pane's tmux session: none yet, up, gone, quit (gone, and no
             \* heartbeat of its is on its way) or past (gone for so long that nothing
             \* of its is)
  on,        \* the session file each pane's pi runs
  handoffs,  \* quits whose hand-off has not saved its row yet: <<pane, file>>
  asked,     \* the panes whose pi the daemon asked to end
  buried,    \* history: the panes whose row was deleted
  erased,    \* history: the session files whose row was deleted and that no pane
             \* was opened on since
  ended      \* history: <<pane, file>> for the panes up on a deleted row's session
             \* that the daemon did not know of

env == <<life, on, files, handoffs>>
history == <<asked, buried, erased, ended>>
vars == <<table, env, history>>

(* The types of all that the daemon and its environment keep.  Every row's *)
(* stored record, and every pane's, is of a pane's or a made-up row.       *)
RegistryTypeOK ==
  /\ TableTypeOK
  /\ life \in [Pane -> {"none", "up", "gone", "quit", "past"}]
  /\ on \in [Pane -> MaybeFile]
  /\ handoffs \subseteq Pane \X File
  /\ asked \subseteq Pane
  /\ buried \subseteq Pane
  /\ erased \subseteq File
  /\ ended \subseteq Pane \X File

RInit ==
  /\ TableInit
  /\ life = [p \in Pane |-> "none"]
  /\ on = [p \in Pane |-> None]
  /\ handoffs = {}
  /\ asked = {}
  /\ buried = {}
  /\ erased = {}
  /\ ended = {}

---------------------------------------------------------------------------
(* What the clock, tmux and a busy machine may do to a request *)

(* What tmux may answer of each pane: the truth, or that it could not say. *)
TmuxTruth == [p \in Pane |-> IF life[p] = "up" THEN "up" ELSE "gone"]

TmuxAnswers ==
  IF "tmux fails" \notin Events THEN {TmuxTruth}
  ELSE {says \in [Pane -> {"up", "gone", "unknown"}] :
          \A p \in Pane : says[p] \in {TmuxTruth[p], "unknown"}}

(* An id nothing refers to, for a row the daemon makes up an id for. *)
FreshIds == {r \in Row \ Pane :
               /\ rows[r] = NoEntry
               /\ ~IsStored(Now, r)
               /\ \A i \in Id : prompts[i].row # r}

(* The starts that time is up for, as the daemon looks. *)
Due == SUBSET {r \in Row : rows[r].start # None}

(* A hand-off's save lands within START_MS of its pane's end, as a late    *)
(* heartbeat does: no deleted row is let go before that.                   *)
OverDeleted ==
  SUBSET {e \in deleted : /\ e.gone
                          /\ e.pane # None => life[e.pane] = "past"
                          /\ \A p \in Pane : <<p, e.file>> \notin handoffs}

---------------------------------------------------------------------------
(* A pane's requests *)

(* A mutant: tmux not answering is taken for the orchestrator being gone. *)
AskedUnlessUp(p, says) ==
  IF Deletes(Now, p) \/ (Parent[p] # None /\ says[Parent[p]] # "up") THEN {p} ELSE {}

(* A deleted row's pane is asked to end, and a run whose orchestrator tmux *)
(* has lost.                                                               *)
AskedBy(p, says) ==
  IF Deletes(Now, p) \/ (Parent[p] # None /\ says[Parent[p]] = "gone") THEN {p} ELSE {}

(* register: the pane's heartbeat, which takes what waits for it. *)
Register(p) ==
  /\ life[p] \in {"up", "gone"}
  /\ on[p] # None
  /\ FreshIds # {}
  /\ LET starts == StartsTaken(Now, p, on[p]) IN
     \E fresh \in FreshIds, claimed \in IF starts = {} THEN {None} ELSE starts :
       Becomes(DrainExternal(RegisterExternal(Now, p, on[p], fresh, claimed), p))
  /\ \E says \in TmuxAnswers : asked' = asked \cup AskedBy(p, says)
  /\ UNCHANGED <<env, buried, erased, ended>>

(* wait: answered at once when something waits already; a wait pending for *)
(* the same pane is superseded.                                            *)
Wait(p) ==
  /\ "wait" \in Events
  /\ IsLive(Now, p)
  /\ waits' = IF inboxes[RowOf(Now, p)] # <<>> THEN waits \ {p} ELSE waits \cup {p}
  /\ UNCHANGED <<rows, stored, deleted, dropped, prompts, inboxes, env, history>>

WaitEnds(p) ==
  /\ p \in waits
  /\ waits' = waits \ {p}
  /\ UNCHANGED <<rows, stored, deleted, dropped, prompts, inboxes, env, history>>

(* report: what became of a prompt the pane was given; the daemon lists    *)
(* its rows then, to let go of the reports of those gone.                  *)
Report(p, i, o) ==
  /\ "report" \in Events
  /\ p \in Registered(Now)
  /\ prompts[i].pane = p
  /\ Open(prompts[i]) /\ prompts[i].outcome # o
  /\ \E says \in TmuxAnswers, order \in SetToSeqs(Pane), due \in Due, over \in OverDeleted :
       LET s == [Now EXCEPT !.prompts = AfterReport(@, RowOf(Now, p), [j \in {i} |-> o])]
       IN  Becomes(RemoveOrphanedRuns(Reap(s, order, says, due, over), says))
  /\ UNCHANGED <<env, history>>

(* Its session leaves the list, with no reason given. *)
Unlist(p) ==
  /\ "unlist" \in Events
  /\ life[p] = "up"
  /\ p \in Registered(Now)
  /\ Becomes(UnregisterExternal(Now, p, "unsaid"))
  /\ UNCHANGED <<env, history>>

(* pi quits: it does not wait for its unregister to land, which no         *)
(* heartbeat follows, and hands its row off to be saved once it is gone.   *)
Quit(p) ==
  /\ life[p] = "up"
  /\ handoffs' = handoffs \cup ({<<p, on[p]>>} \cap (Pane \X files))
  /\ \/ /\ life' = [life EXCEPT ![p] = "quit"]
        /\ Becomes(UnregisterExternal(Now, p, "quit"))
     \/ /\ "request lost" \in Events
        /\ life' = [life EXCEPT ![p] = "gone"]
        /\ UNCHANGED table
  /\ UNCHANGED <<on, files, history>>

(* The pane goes on to another session: a new one carries its row on; a    *)
(* resume of another file or a fork unregisters the one it ran.            *)
MoveOn(p, f) ==
  /\ "move" \in Events
  /\ life[p] = "up"
  /\ f # on[p]
  /\ f \in files \/ \A q \in Pane : on[q] # f
  /\ on' = [on EXCEPT ![p] = f]
  /\ \/ Becomes(UnregisterExternal(Now, p, "another"))
     \/ (f \notin files \/ "request lost" \in Events) /\ UNCHANGED table
  /\ erased' = erased \ {f}
  /\ UNCHANGED <<life, files, handoffs, asked, buried, ended>>

---------------------------------------------------------------------------
(* What agent views, phones and hand-offs ask *)

(* list: what the agent views and the phone poll. *)
List ==
  /\ \E says \in TmuxAnswers, order \in SetToSeqs(Pane), due \in Due, over \in OverDeleted :
       Becomes(RemoveOrphanedRuns(Reap(Now, order, says, due, over), says))
  /\ UNCHANGED <<env, history>>

(* A phone gives every prompt an id of its own. *)
NewId(i) ==
  /\ prompts[i] = NoDelivery
  /\ \A r \in Row : ~InInbox(inboxes, i, r)

(* send: queued for the live pane id addresses, which ends instead if tmux *)
(* no longer has it; refused, with nothing done, when there is none.       *)
Send(id, m) ==
  LET p == Addressed(Now, id) IN
  /\ m \in Id => NewId(m)
  /\ p # None /\ IsLive(Now, p)
  /\ Len(inboxes[RowOf(Now, p)]) < InboxBound
  /\ \E says \in TmuxAnswers :
       LET r == RowOf(Now, p) IN
       Becomes(IF says[p] = "gone" THEN PaneEnded(Now, p, "unsaid")
               ELSE [SettleWait(Now, p) EXCEPT !.inboxes[r] = Append(@, m),
                                               !.prompts = AfterQueue(@, r, m)])
  /\ UNCHANGED <<env, history>>

(* save: the hand-off of a quit lands, or never does, after what its pi    *)
(* sent.  A deleted row's is the last that row hears of.                   *)
SaveInstance(s, f, p, fresh) ==
  IF \E e \in s.deleted : e.file = f THEN ForgetDeletedSession(s, f)
  ELSE StopRow(s, f, p, fresh, "unsaid")

Save(p, f) ==
  /\ <<p, f>> \in handoffs
  /\ \E q \in IF LivePanesOn(Now, f) = {} THEN {None} ELSE LivePanesOn(Now, f),
        fresh \in FreshIds : Becomes(SaveInstance(Now, f, q, fresh))
  /\ handoffs' = handoffs \ {<<p, f>>}
  /\ life' = [life EXCEPT ![p] = IF @ = "gone" THEN "quit" ELSE @]
  /\ UNCHANGED <<on, files, history>>

SaveLost(p, f) ==
  /\ "request lost" \in Events
  /\ <<p, f>> \in handoffs
  /\ handoffs' = handoffs \ {<<p, f>>}
  /\ UNCHANGED <<table, life, on, files, history>>

(* start: refused while a pane runs the file or another start is on it. *)
ClaimStart(f) ==
  /\ "start" \in Events
  /\ f \in files
  /\ \A p \in PanesOn(Now, f) : Lapsed(Now, p)
  /\ \E says \in TmuxAnswers, due \in Due, fresh \in FreshIds :
       LET s == ExpireStarts(Now, says, due)
           claimed == \E r \in Row : s.rows[r].start # None /\ s.rows[r].start.file = f
           row == StoredOn(s, f)
       IN  Becomes(IF claimed THEN s
                   ELSE ListStarting(s, IF row # None THEN row.id ELSE fresh, f, None))
  /\ UNCHANGED <<env, history>>

StartFailed(r) ==
  /\ rows[r].start # None
  /\ Becomes([Now EXCEPT !.rows[r] = LeaveStart(@)])
  /\ UNCHANGED <<env, history>>

(* What the history keeps of the deletion of session file f's row.         *)
Deleted(f) ==
  LET unknown == {p \in Pane \ Registered(Now) : life[p] = "up" /\ on[p] = f} IN
  /\ buried' = buried \cup (Registered(Now) \ Registered(Now)')
                     \cup ({e.pane : e \in deleted'} \ {None})
  /\ erased' = IF f \in File /\ unknown = {} /\ StoredOn(Now, f)' = None /\ PanesOn(Now, f)' = {}
               THEN erased \cup {f} ELSE erased
  /\ ended' = ended \cup {<<p, f>> : p \in unknown}

(* delete: of the row and of the rows of the runs it orchestrates, whose   *)
(* pis are asked to end.                                                   *)
Delete(id) ==
  LET p == Addressed(Now, id) IN
      /\ "delete" \in Events
      /\ p # None \/ IsStored(Now, id)
      /\ Becomes(DeleteInstance(Now, id))
      /\ \E f \in MaybeFile :
           /\ f = IF p # None THEN PaneOf(Now, p).file ELSE stored[StoredAt(Now, id)].file
           /\ Deleted(f)
      /\ asked' = asked \cup {q \in Registered(Now) \ {p} : p # None /\ Parent[q] = p}
      /\ UNCHANGED env

(* meta: a row's pin, kept by its pane and by the stored row behind it. *)
SetPinned(id, pin) ==
  LET p == Addressed(Now, id)
      r == IF p # None THEN RowOf(Now, p) ELSE id
      s == IF p # None THEN [Now EXCEPT !.rows[r].pane.pin = pin] ELSE Now
  IN  /\ p # None \/ IsStored(Now, id)
      /\ Becomes(IF IsStored(s, r) THEN [s EXCEPT !.stored[StoredAt(s, r)].pin = pin] ELSE s)
      /\ UNCHANGED <<env, history>>

(* The daemon ends and another starts: its files are all it knows. *)
DaemonRestarts ==
  /\ "restart" \in Events
  /\ rows' = [r \in Row |-> NoEntry]
  /\ dropped' = [f \in File |-> None]
  /\ waits' = {}
  /\ Restart
  /\ UNCHANGED <<stored, deleted, env, history>>

---------------------------------------------------------------------------
(* Panes and time *)

(* A pane starts on a session file that exists, or on one of its own; a    *)
(* run's is started by its orchestrator.                                   *)
StartPane(p, f) ==
  /\ life[p] = "none"
  /\ Parent[p] # None => life[Parent[p]] = "up"
  /\ f \in files \/ \A q \in Pane : on[q] # f
  /\ life' = [life EXCEPT ![p] = "up"]
  /\ on' = [on EXCEPT ![p] = f]
  /\ erased' = erased \ {f}
  /\ UNCHANGED <<files, handoffs, asked, buried, ended>>

OpenPane(p, f) ==
  /\ StartPane(p, f)
  /\ UNCHANGED table

(* start: a phone's new session is listed as starting at once. *)
PaneStarting(p, f) ==
  /\ "start" \in Events
  /\ f \notin files
  /\ StartPane(p, f)
  /\ Becomes(ListStarting(Now, p, None, p))

(* pi writes the session's file. *)
WriteFile(p) ==
  /\ life[p] = "up"
  /\ on[p] \notin files
  /\ files' = files \cup {on[p]}
  /\ UNCHANGED <<table, life, on, handoffs, history>>

(* pi dies unseen. *)
Die(p) ==
  /\ "die" \in Events
  /\ life[p] = "up"
  /\ life' = [life EXCEPT ![p] = "gone"]
  /\ UNCHANGED <<table, on, files, handoffs, history>>

(* Long after a pane went, nothing it sent is on its way any more. *)
Passes(p) ==
  /\ life[p] \in {"gone", "quit"}
  /\ \A f \in File : <<p, f>> \notin handoffs
  /\ life' = [life EXCEPT ![p] = "past"]
  /\ UNCHANGED <<table, on, files, handoffs, history>>

(* A live pane's last heartbeat is older than its TTL. *)
Lapse(p) ==
  /\ IsLive(Now, p) /\ ~Lapsed(Now, p)
  /\ rows' = [rows EXCEPT ![RowOf(Now, p)].pane.lapsed = TRUE]
  /\ UNCHANGED <<stored, deleted, dropped, waits, prompts, inboxes, env, history>>

(* What may happen with the events "die" and "start" alone. *)
LiveNext ==
  \/ \E p \in Pane : Register(p) \/ WriteFile(p) \/ Quit(p) \/ Die(p) \/ Passes(p) \/ Lapse(p)
  \/ \E p \in Pane, f \in File : Save(p, f) \/ OpenPane(p, f) \/ PaneStarting(p, f)
  \/ \E f \in File : ClaimStart(f)
  \/ \E r \in Row : StartFailed(r)
  \/ \E r \in Row, m \in Message : Send(r, m)
  \/ List

RNext ==
  \/ LiveNext
  \/ \E p \in Pane : Wait(p) \/ WaitEnds(p) \/ Unlist(p)
  \/ \E p \in Pane, f \in File : SaveLost(p, f) \/ MoveOn(p, f)
  \/ \E r \in Row : Delete(r)
  \/ \E r \in Row, pin \in Pins : SetPinned(r, pin)
  \/ \E p \in Pane, i \in Id, o \in Reportable : Report(p, i, o)
  \/ DaemonRestarts

RSpec == RInit /\ [][RNext]_vars

---------------------------------------------------------------------------
(* Properties *)

(* Every pane the daemon knows is in one place: listed as one row or held  *)
(* by one, once (enter, held and drop; paneRow takes the first it finds).  *)
PaneOnce ==
  /\ \A r, q \in Row : r # q => PaneIds(rows[r]) \cap PaneIds(rows[q]) = {}
  /\ \A r \in Row : Cardinality(PaneIds(rows[r])) =
       Len(rows[r].held) + (IF rows[r].pane = None THEN 0 ELSE 1)

(* A message waits only for a row whose pane is live, so that a heartbeat  *)
(* takes it (delivery.ts, queue: "the row table queues only for a row      *)
(* whose pane is live").                                                   *)
InboxOfLive == \A r \in Row : inboxes[r] # <<>> => rows[r].state = "live"

(* A prompt given to a pane stays answerable: while it is unsettled, that  *)
(* pane is listed as the prompt's row or held by it, whatever row it beats *)
(* as, so that its end or its report settles it.                           *)
GivenListed ==
  \A i \in Id : Open(prompts[i]) /\ prompts[i].pane # None =>
     prompts[i].pane \in PaneIds(rows[prompts[i].row])

(* No pane waits while something is queued for it. *)
NoLostWakeup ==
  \A p \in waits : IsLive(Now, p) => inboxes[RowOf(Now, p)] = <<>>

(* No session file is started twice: one start at most is on it, and none  *)
(* is left on it while a live pane within its TTL runs it (claimStart,     *)
(* takeStarting).                                                          *)
StartedOnce ==
  \A r \in Row : rows[r].start # None /\ rows[r].start.file # None =>
    /\ \A q \in Row : rows[q].start # None /\ rows[q].start.file = rows[r].start.file => q = r
    /\ \A p \in LivePanesOn(Now, rows[r].start.file) : Lapsed(Now, p)

(* What the table keeps right of its rows, whatever happens. *)
RowsKept == PaneOnce /\ InboxOfLive /\ GivenListed /\ StartedOnce

(* A deleted row's pane is never listed again, however late it beats, and  *)
(* across a restart (endIfDeleted).                                        *)
BuriedStayGone == buried \cap Registered(Now) = {}

(* Nor does a deleted row come back stored, by the save of a quit already  *)
(* on its way or otherwise, until a pane is opened on its session again.   *)
ErasedStayUnstored == \A f \in erased : StoredOn(Now, f) = None

(* A deleted row stays away, listed and stored, across quits, saves and    *)
(* restarts, for a pane on its own.                                        *)
DeletedStayAway == BuriedStayGone /\ ErasedStayUnstored

(* The daemon ends no pi but those of deleted rows and of runs whose       *)
(* orchestrator is gone or deleted.                                        *)
EndsNoOther ==
  \A p \in asked : \/ p \in buried
                   \/ Parent[p] # None /\ (life[Parent[p]] # "up" \/ Parent[p] \in buried)

(* A deleted row does not come back with the beat of a pane that ran its   *)
(* session as it was deleted (GLOSSARY.md, Delete: "the row does not come  *)
(* back by itself: not with a late heartbeat").  For one pane, which no    *)
(* other window can have opened since.                                     *)
DeletedStayGone == \A e \in ended : e[1] \notin PanesOn(Now, e[2])

(* A live pane's row, once stored, is stored as it shows: its pin survives *)
(* a daemon restart (persistRow).                                          *)
PinSurvives ==
  \A r \in Row : rows[r].state = "live" =>
    LET x == rows[r].pane IN
    x.saved # None /\ x.file = x.saved.file =>
      \E k \in DOMAIN stored : stored[k].id = r /\ stored[k].file = x.file /\ stored[k].pin = x.pin

(* The daemon says a prompt it gave to a pane was lost only once that pane *)
(* is gone or on another session, unless it is told to let the pane go.    *)
LosesOnlyGone ==
  \A i \in Id :
    LET p == prompts[i].pane IN
    /\ Open(prompts[i]) /\ p # None
    /\ prompts'[i].outcome = "lost"
    /\ ~Report(p, i, "lost")
    => \/ life'[p] # "up"
       \/ on'[p] # PaneOf(Now, p).file
       \/ Unlist(p)
       \/ \E r \in Row : Delete(r)

(* A row's delete leaves no run of its pane: listed, held or stored        *)
(* (deleteRuns).                                                           *)
RunsDeleted(r, p) ==
  /\ Addressed(Now, r) = p
  /\ \/ \E q \in Registered(Now)' : Parent[q] = p
     \/ \E k \in DOMAIN stored' : stored'[k].parent = p
  => ~Delete(r)

(* While a run's orchestrator is up, no listing lets go of its stored row  *)
(* (removeOrphanedRuns).                                                   *)
RunsListed(r, p) ==
  /\ life[p] = "up"
  /\ \E k \in DOMAIN stored : stored[k].id = r /\ stored[k].parent = p
  /\ ~IsStored(Now, r)'
  => ~List

(* Deleting pane p's row lets go of no pane but p's runs and, as a run's   *)
(* row keeps its orchestrator (persistRow), of those whose session was a   *)
(* run of p's before they opened it.                                       *)
OnlyRunsDeleted(r, p) ==
  /\ Addressed(Now, r) = p
  /\ \E q \in Registered(Now) \ (Registered(Now)' \cup {p}) :
       /\ Parent[q] # p
       /\ \A k \in DOMAIN stored : stored[k].id = RowOf(Now, q) => stored[k].parent # p
  => ~Delete(r)

(* The rows of runs go with their orchestrator's, not before, and no other *)
(* row with them.                                                          *)
RunsGo ==
  \A r \in Row, p \in Pane : RunsDeleted(r, p) /\ OnlyRunsDeleted(r, p) /\ RunsListed(r, p)

---------------------------------------------------------------------------
(* Progress, while some agent view or phone keeps listing: panes that are  *)
(* up keep beating, one that is not lapses, and tmux answers.              *)

Looked(order) == RemoveOrphanedRuns(Reap(Now, order, TmuxTruth, Row, {}), TmuxTruth)

Look ==
  /\ \E order \in SetToSeqs(Pane) : Becomes(Looked(order))
  /\ UNCHANGED <<env, history>>

(* A heartbeat of p's would change nothing. *)
Steady(p) ==
  \A fresh \in FreshIds : DrainExternal(RegisterExternal(Now, p, on[p], fresh, None), p) = Now

(* Weak fairness, each with what it takes to be enabled written out: TLC   *)
(* evaluates ENABLED of these actions slowly.                              *)
Fairness ==
  /\ []<>(\A order \in SetToSeqs(Pane) : Looked(order) = Now) \/ []<><<Look>>_vars
  /\ \A p \in Pane :
       /\ []<>(life[p] # "up" \/ Steady(p)) \/ []<><<life[p] = "up" /\ Register(p)>>_vars
       /\ WF_vars(life[p] # "up" /\ Lapse(p))
       /\ WF_vars(Passes(p))
  /\ \A p \in Pane, f \in File : []<>(<<p, f>> \notin handoffs) \/ []<><<Save(p, f)>>_vars

RLive == RInit /\ [][LiveNext]_vars /\ Fairness

(* What waits in an inbox is taken or settled, as long as the daemon does  *)
(* not run out of ids for new rows, which is a bound of the model.         *)
InboxesEmpty ==
  \A r \in Row, i \in Id :
    InInbox(inboxes, i, r) ~> (~InInbox(inboxes, i, r) \/ FreshIds = {})

(* A pane that died or quit is delisted for good.                          *)
DeadDelisted == \A p \in Pane : life[p] \in {"gone", "quit"} ~> [](p \notin Registered(Now))

(* A start ends: its pane registers, or its row is as it was.              *)
StartsEnd == \A r \in Row : rows[r].start # None ~> rows[r].start = None

(* A pane that died is delisted, and a start ends.                         *)
RowsSettle == DeadDelisted /\ StartsEnd

(* Parent, where no pane is a run.                                         *)
NoRuns == [p \in Pane |-> None]
====
