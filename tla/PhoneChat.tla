---- MODULE PhoneChat ----
(***************************************************************************)
(* The prompts sent from a phone's chat until they are settled             *)
(* (daemon/remote/web: chat.js, pending.js, live.js and app.js): pending   *)
(* in the chat, kept on the phone while the chat is left or the app is     *)
(* reloaded, back in the reply box once refused, lost or given up on, and  *)
(* let go once the transcript has them.                                    *)
(*                                                                         *)
(* What becomes of a prompt at the daemon and its pane is PromptJourney's, *)
(* and external here.  The pane is of a build that reports outcomes, and   *)
(* prompts are for the model: each is written to the transcript as it is   *)
(* taken.  The phone's storage takes what it is given.                     *)
(***************************************************************************)
EXTENDS Naturals, FiniteSets

CONSTANTS
  Prompt,
  None,
  FileBound,     \* messages in the transcript
  LeaveBound,    \* times the chat is left
  RestartBound   \* times the daemon restarts

VARIABLES
  fate,       \* what became of each prompt
  life,       \* the daemon's lifetime
  known,      \* the prompts the daemon knows the outcome of
  reported,   \* the pane has reported to this daemon
  file,       \* messages in the transcript
  state,      \* the session's, as the daemon lists it
  open,       \* the chat is open
  pending, kept,
  replayed,   \* the daemon's outcomes are in, in this chat
  statusIn,   \* and its pane's report
  restored,
  page,       \* messages of the transcript the chat shows
  seen,       \* the session's state in the phone's list
  due,        \* the daemon has outcomes the open chat's stream has not brought yet
  asked,      \* the prompts the daemon is being asked about
  post,       \* how far each prompt's request is
  by,         \* the lifetime that accepted each, 0 before
  mine,       \* the chat that sent it is still the one open
  timers,     \* the prompts whose time is running
  box,        \* the prompts put back in the reply box
  starting,   \* a session is being started from the phone
  ended,      \* the prompts sent before a turn's end the next page is for
  early,      \* history: those of them whose pane had not said by then what it did with them
  misjudged,  \* history: put back when the answer was lost, or by a phone that was behind
  leaves      \* times the chat was left

outsideVars == <<fate, life, known, reported, file, state>>
chatVars == <<open, pending, kept, replayed, statusIn, restored, page, seen>>
sendVars == <<asked, post, by, mine, timers, box>>
turnVars == <<ended, early>>
rest == <<starting, leaves>>
vars == <<outsideVars, chatVars, due, sendVars, turnVars, misjudged, rest>>

Entry == [outcome : {None, "taken", "queued"}, last : 0..FileBound,
          life : 0..(RestartBound + 1), started : BOOLEAN]   \* life 0: none yet

None0 == [p \in Prompt |-> None]
Of(entries) == {p \in Prompt : entries[p] # None}

(* The types of the prompts and the chat.                                  *)
TypeOK ==
  /\ fate \in [Prompt -> {"typed", "accepted", "queued", "taken", "refused", "lost"}]
  /\ life \in 1..(RestartBound + 1) /\ known \subseteq Prompt /\ file \in 0..FileBound
  /\ pending \in [Prompt -> Entry \cup {None}] /\ kept \in [Prompt -> Entry \cup {None}]
  /\ {page} \subseteq 0..FileBound /\ state \cup seen \subseteq {"working", "silent"}
  /\ asked \cup timers \cup box \cup mine \cup ended \cup early \cup misjudged \subseteq Prompt
  /\ post \in [Prompt -> {"no", "going", "there", "done"}] /\ by \in [Prompt -> 0..(RestartBound + 1)]

Init ==
  /\ fate = [p \in Prompt |-> "typed"] /\ life = 1 /\ known = {} /\ reported = TRUE
  /\ file = 0 /\ state = {}
  /\ open = TRUE /\ pending = None0 /\ kept = None0
  /\ replayed = TRUE /\ statusIn = TRUE /\ restored = TRUE
  /\ page = 0 /\ seen = {} /\ due = FALSE
  /\ asked = {} /\ post = [p \in Prompt |-> "no"] /\ mine = {} /\ timers = {} /\ box = {}
  /\ by = [p \in Prompt |-> 0]
  /\ ended = {} /\ early = {} /\ misjudged = {} /\ starting = FALSE /\ leaves = 0

---------------------------------------------------------------------------
(* The daemon and the pane *)

Becomes(p, to) == fate' = [fate EXCEPT ![p] = to] /\ known' = known \cup {p} /\ due' = TRUE

Takes(p) ==
  /\ "silent" \notin state /\ reported
  /\ fate[p] \in {"accepted", "queued"} /\ file < FileBound
  /\ Becomes(p, "taken")
  /\ file' = file + 1
  /\ state' = {"working"}
  /\ UNCHANGED <<life, reported, chatVars, sendVars, turnVars, misjudged, rest>>

Settles(p) ==
  /\ \/ state = {"working"} /\ fate[p] = "accepted" /\ Becomes(p, "queued")
     \/ "silent" \notin state /\ fate[p] = "accepted" /\ Becomes(p, "refused")
     \/ fate[p] \in {"accepted", "queued"} /\ Becomes(p, "lost")
  /\ reported
  /\ UNCHANGED <<life, reported, file, state, chatVars, sendVars, turnVars, misjudged, rest>>

(* The session's turn ends, nothing queued for the next, its pane falls    *)
(* silent, what waits for it lost, or comes back, or something else is     *)
(* written to its transcript.                                              *)
SessionGoesOn ==
  /\ \/ /\ "working" \in state /\ \A p \in Prompt : fate[p] # "queued"
        /\ state' = state \ {"working"}
        /\ UNCHANGED <<fate, file, known, due>>
     \/ /\ "silent" \notin state
        /\ state' = state \cup {"silent"}
        /\ LET waiting == {p \in Prompt : fate[p] = "accepted"}
           IN  /\ fate' = [p \in Prompt |-> IF p \in waiting THEN "lost" ELSE fate[p]]
               /\ known' = known \cup waiting
               /\ due' = (due \/ waiting # {})
        /\ UNCHANGED file
     \/ "silent" \in state /\ state' = state \ {"silent"} /\ UNCHANGED <<fate, file, known, due>>
     \/ file < FileBound /\ file' = file + 1 /\ UNCHANGED <<fate, state, known, due>>
  /\ UNCHANGED <<life, reported, chatVars, sendVars, turnVars, misjudged, rest>>

(* The daemon restarts: what waited for its pane is lost, and the rest it  *)
(* knows again from the pane's next report.                                *)
Restart ==
  /\ life <= RestartBound
  /\ life' = life + 1
  /\ fate' = [p \in Prompt |-> IF fate[p] = "accepted" THEN "lost" ELSE fate[p]]
  /\ known' = {} /\ reported' = FALSE
  /\ UNCHANGED <<file, state, chatVars, due, sendVars, turnVars, misjudged, rest>>

PaneReports ==
  /\ ~reported
  /\ reported' = TRUE
  /\ known' = {p \in Prompt : fate[p] \in {"queued", "taken", "refused"}}
  /\ due' = TRUE
  /\ UNCHANGED <<fate, life, file, state, chatVars, sendVars, turnVars, misjudged, rest>>

---------------------------------------------------------------------------
(* The chat: a prompt is settled *)

(* A prompt pi took is done once the transcript has moved past where it    *)
(* was.                                                                    *)
Written(entry, at) == entry.outcome = "taken" /\ at > entry.last

LeaveWritten(entries, at) ==
  [p \in Prompt |-> IF entries[p] # None /\ Written(entries[p], at) THEN None ELSE entries[p]]

Failed == {"refused", "lost"}

(* The prompts of entries that go back into the reply box. *)
Back(entries, outcomes) == {p \in Of(entries) : outcomes[p] \in Failed}

(* settleOutcomes: what is left of the pending prompts. *)
Settled(entries, outcomes, at) ==
  LeaveWritten([p \in Prompt |->
    IF entries[p] = None \/ outcomes[p] \in Failed THEN None
    ELSE IF outcomes[p] \in {"taken", "queued"} THEN [entries[p] EXCEPT !.outcome = outcomes[p]]
    ELSE entries[p]], at)

(* What the daemon tells of every prompt it knows. *)
Outcomes == [p \in Prompt |-> IF p \in known THEN fate[p] ELSE None]

(* Its answer to one asked about by the lifetime that accepted it.         *)
Answer(p) ==
  IF p \in known THEN fate[p]
  ELSE IF reported /\ pending[p] # None /\ pending[p].life \notin {0, life} THEN "lost"
  ELSE None

(* Those the phone asks about. *)
WaitingOn(entries) == {p \in Of(entries) : entries[p].outcome = None /\ entries[p].life # 0}

(* The kept ones are back before those sent since. *)
Restored == [p \in Prompt |-> IF pending[p] # None THEN pending[p] ELSE kept[p]]

(* Outcomes come in, once the replay and the report are both in with the   *)
(* kept prompts back; the daemon is asked about the others.                *)
ComeIn(replay, status) ==
  LET restores == ~restored /\ replay /\ status
      entries == IF restores THEN Restored ELSE pending
      left == Settled(entries, Outcomes, page)
  IN  /\ replayed' = replay /\ statusIn' = status
      /\ restored' = (restored \/ restores)
      /\ pending' = left
      /\ kept' = IF restores THEN None0 ELSE kept
      /\ timers' = timers \cup (IF restores THEN Of(kept) ELSE {})
      /\ box' = box \cup Back(entries, Outcomes)
      /\ asked' = WaitingOn(left)
      /\ due' = FALSE
      /\ UNCHANGED <<outsideVars, open, page, seen, post, by, mine, turnVars, misjudged, rest>>

Replay == open /\ ~replayed /\ ComeIn(TRUE, statusIn)
Status == open /\ replayed /\ (due \/ ~statusIn) /\ ComeIn(replayed, TRUE)

AskAnswered ==
  /\ open /\ asked # {}
  /\ LET outcomes == [p \in Prompt |-> IF p \in asked THEN Answer(p) ELSE None]
     IN  /\ pending' = Settled(pending, outcomes, page)
         /\ box' = box \cup Back(pending, outcomes)
  /\ asked' = {}
  /\ UNCHANGED <<outsideVars, open, kept, replayed, statusIn, restored, page, seen, due, post, by, mine, timers, turnVars, misjudged, rest>>

(* The prompts sent before a turn that ended, which its transcript lacks. *)
DropsEnded(entries) == {p \in Of(entries) : p \in ended /\ entries[p].outcome # "queued"}

Pending(p) == pending[p] # None \/ kept[p] # None

(* The latest page of the transcript. *)
PageLands ==
  /\ open /\ (page # file \/ ended # {})
  /\ page' = file /\ ended' = {} /\ early' = {}
  /\ LET entries == LeaveWritten(pending, file)
     IN  pending' = [p \in Prompt |-> IF p \in DropsEnded(entries) THEN None ELSE entries[p]]
  /\ UNCHANGED <<outsideVars, open, kept, replayed, statusIn, restored, seen, due, sendVars, misjudged, rest>>

(* A prompt pi has not taken, and not said here to be queued for the next  *)
(* turn.                                                                   *)
TooEarly(p) == Pending(p) /\ fate[p] # "taken" /\ (pending[p] # None => pending[p].outcome # "queued")

(* The list: a session seen working has started what was sent; one whose   *)
(* turn ended has the transcript fetched again.                            *)
Listed ==
  /\ open /\ seen # state
  /\ seen' = state
  /\ pending' = [p \in Prompt |->
       IF pending[p] # None /\ "working" \in state THEN [pending[p] EXCEPT !.started = TRUE] ELSE pending[p]]
  /\ IF "working" \in seen /\ "working" \notin state
     THEN /\ ended' = {p \in Prompt : post[p] # "no"}
          /\ early' = {p \in ended' : TooEarly(p)}
     ELSE UNCHANGED turnVars
  /\ UNCHANGED <<outsideVars, open, kept, replayed, statusIn, restored, page, due, sendVars, misjudged, rest>>

---------------------------------------------------------------------------
(* Sending *)

Send(p) ==
  /\ open /\ fate[p] = "typed" /\ post[p] = "no" /\ "silent" \notin seen
  /\ pending' = [pending EXCEPT ![p] = [outcome |-> None, last |-> page, life |-> 0, started |-> FALSE]]
  /\ post' = [post EXCEPT ![p] = "going"]
  /\ mine' = mine \cup {p} /\ timers' = timers \cup {p}
  /\ UNCHANGED <<outsideVars, open, kept, replayed, statusIn, restored, page, seen, due, asked, by, box, turnVars, misjudged, rest>>

PostArrives(p) ==
  /\ post[p] = "going" /\ "silent" \notin state
  /\ post' = [post EXCEPT ![p] = "there"]
  /\ fate' = [fate EXCEPT ![p] = "accepted"]
  /\ known' = known \cup {p} /\ by' = [by EXCEPT ![p] = life]
  /\ UNCHANGED <<life, reported, file, state, chatVars, due, asked, mine, timers, box, turnVars, misjudged, rest>>

(* The daemon's answer, which names its lifetime: for the chat that sent   *)
(* it, if it is still the one open.                                        *)
PostAnswered(p) ==
  /\ post[p] = "there"
  /\ post' = [post EXCEPT ![p] = "done"]
  /\ pending' = IF p \in mine /\ pending[p] # None THEN [pending EXCEPT ![p].life = by[p]] ELSE pending
  /\ UNCHANGED <<outsideVars, open, kept, replayed, statusIn, restored, page, seen, due, asked, by, mine, timers, box, turnVars, misjudged, rest>>

(* The request fails, or its answer is lost though the daemon accepted it: *)
(* back into the reply box of the chat that sent it, all the same.         *)
PostFails(p) ==
  /\ post[p] \in {"going", "there"}
  /\ post' = [post EXCEPT ![p] = "done"]
  /\ IF p \in mine
     THEN /\ pending' = [pending EXCEPT ![p] = None] /\ box' = box \cup {p}
          /\ misjudged' = IF post[p] = "there" THEN misjudged \cup {p} ELSE misjudged
     ELSE UNCHANGED <<pending, box, misjudged>>
  /\ UNCHANGED <<outsideVars, open, kept, replayed, statusIn, restored, page, seen, due, asked, by, mine, timers, turnVars, rest>>

(* One its pane has, or whose pane is silent, is not given up on. *)
Waits(entry) == entry.outcome # None \/ "silent" \in seen

(* A mutant: one the transcript has is put back too. *)
NeverReached(entry) == FALSE

(* giveUp: one with the transcript moved since is taken to have reached    *)
(* its session, and goes quietly.                                          *)
Reached(entry) == page # entry.last

(* The phone has what the daemon and the pane know of a prompt.            *)
UpToDate(p) ==
  /\ ~due /\ asked = {} /\ page = file /\ seen = state
  /\ fate[p] # "accepted" /\ post[p] = "done"

(* checkSent: a prompt's time is up, wherever the phone is with the rest,  *)
(* as one that was hidden or had no network may be.                        *)
GiveUp(p) ==
  /\ open /\ p \in timers /\ p \in Of(pending)
  /\ timers' = IF ~starting /\ Waits(pending[p]) /\ "silent" \in seen THEN timers ELSE timers \ {p}
  /\ IF starting \/ Waits(pending[p]) \/ pending[p].started \/ "working" \in seen
     THEN UNCHANGED <<pending, box, misjudged>>
     ELSE /\ pending' = [pending EXCEPT ![p] = None]
          /\ box' = IF Reached(pending[p]) THEN box ELSE box \cup {p}
          /\ misjudged' = IF UpToDate(p) THEN misjudged ELSE misjudged \cup {p}
  /\ UNCHANGED <<outsideVars, open, kept, replayed, statusIn, restored, page, seen, due, asked, post, by, mine, turnVars, rest>>

---------------------------------------------------------------------------
(* Leaving the chat, and the start of another session *)

(* The chat is left, or the app reloaded: its prompts are kept, and their  *)
(* timers go with it.                                                      *)
Leave ==
  /\ open /\ leaves < LeaveBound
  /\ leaves' = leaves + 1 /\ open' = FALSE
  /\ kept' = [p \in Prompt |-> IF pending[p] # None THEN pending[p] ELSE kept[p]]
  /\ pending' = None0
  /\ replayed' = FALSE /\ statusIn' = FALSE /\ restored' = FALSE
  /\ page' = 0 /\ asked' = {} /\ mine' = {} /\ timers' = {} /\ ended' = {} /\ early' = {}
  /\ due' = FALSE
  /\ UNCHANGED <<outsideVars, seen, post, by, box, misjudged, starting>>

Open == ~open /\ open' = TRUE /\ UNCHANGED <<outsideVars, pending, kept, replayed, statusIn, restored, page, seen, due, sendVars, turnVars, misjudged, rest>>

StartSession ==
  /\ starting' = ~starting
  /\ UNCHANGED <<outsideVars, chatVars, due, sendVars, turnVars, misjudged, leaves>>

(* waitForPane: a session started here got no pane in time.  Whatever chat *)
(* is open by then forgets what was sent.                                  *)
StartTimesOut ==
  /\ starting /\ starting' = FALSE
  /\ pending' = None0
  /\ UNCHANGED <<outsideVars, open, kept, replayed, statusIn, restored, page, seen, due, sendVars, turnVars, misjudged, leaves>>

Next ==
  \/ \E p \in Prompt : \/ Takes(p) \/ Settles(p)
                       \/ Send(p) \/ PostArrives(p) \/ PostAnswered(p) \/ PostFails(p)
                       \/ GiveUp(p)
  \/ SessionGoesOn \/ Restart \/ PaneReports
  \/ Replay \/ Status \/ AskAnswered \/ PageLands \/ Listed
  \/ Leave \/ Open \/ StartSession \/ StartTimesOut

Spec == Init /\ [][Next]_vars

---------------------------------------------------------------------------
(* Properties *)

(* A prompt put back in the reply box did not reach its session (putBack): *)
(* it never left, or was refused or said lost.  Two cases are left out,    *)
(* where pi may yet take it: the answer to it was lost after the daemon    *)
(* accepted it, and it was given up on by a phone that was behind.         *)
BackNotTaken == \A p \in box \ misjudged : fate[p] \in {"typed", "refused", "lost"}

Held(p) == Pending(p) \/ p \in box

LetGo(p) == Held(p) /\ ~Held(p)'

(* A start that got no pane in time empties the open chat. *)
Emptied == starting /\ ~starting'

(* A prompt the phone held is let go only if pi took it, or the transcript *)
(* moved since it was sent: one refused or lost comes back into the reply  *)
(* box, over a chat left, a reload and a daemon restarted (pending.js,     *)
(* putBack).  Two cases are left out: the chat a start's timeout empties,  *)
(* and a turn's end listed before the pane's word on the prompt came.      *)
LetGoWell(p) ==
  LetGo(p) /\ ~Emptied /\ p \notin early =>
    fate[p] = "taken" \/ (pending[p] # None /\ page' # pending[p].last)
====
