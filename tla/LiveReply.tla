---- MODULE LiveReply ----
(***************************************************************************)
(* The reply a pane streams, on the phone (ext/remote/live.ts,             *)
(* daemon/remote/events.ts, and the phone's chat.js, live.js and app.js):  *)
(* what the pane sends of pi's messages and tools, the daemon's stream to  *)
(* the phone that has the session open, and what the phone shows of a      *)
(* reply before and after the transcript has it.                           *)
(*                                                                         *)
(* One pane, which lives on, and one phone, which stays on the session.    *)
(* pi runs one reply after the other, each with a tool at most; its other  *)
(* messages are left out.  A send may fail, before the daemon had it or    *)
(* after; the phone's stream may break and open again, and the loading of  *)
(* a page fail.  A page is the whole transcript, and the phone waits for   *)
(* the latest it asked for.                                                *)
(***************************************************************************)
EXTENDS Naturals, Sequences, SequencesExt

CONSTANTS
  None,
  Replies,       \* replies pi writes
  ToolReplies,   \* those that may call a tool
  FaultBound,    \* sends and loads that fail and times the phone's stream breaks
  StreamBound    \* events on their way to the phone

VARIABLES
  phase,      \* how far pi is with its reply
  reply,      \* the reply pi is at, 0 before the first
  file,       \* the transcript: the replies and tool results written
  message,    \* the forwarder's message: the reply being streamed, or 0
  tools,      \* its tools: those whose result pi has not ended
  ending,     \* the reply that ended and whose entry it waits for, or 0
  watched, shown, dirty, timer,
  queue,      \* what waits to be sent
  sending,    \* what is on its way to the daemon, None when nothing is
  fresh,      \* something came to be sent since
  lives,      \* the daemon's latest snapshot, None without one
  open,       \* the phone's stream is open
  told,       \* the length of the transcript the stream was last told of
  stream,     \* events on their way to the phone
  live, liveEnded, liveClear, held,   \* the phone's chat
  page,       \* the transcript it shows, a prefix
  asked,      \* how far the page on its way is: "no", "asked", "served" or "failed"
  served,     \* its length
  fails, drops

paneVars == <<message, tools, ending, watched, shown, dirty, timer>>
sendVars == <<queue, sending, fresh>>
daemonVars == <<lives, open, told, stream>>
phoneVars == <<live, liveEnded, liveClear, held, page, asked, served>>
piVars == <<phase, reply, file>>
vars == <<piVars, paneVars, sendVars, daemonVars, phoneVars, fails, drops>>

Snapshot(text, of) == [text |-> text, tools |-> of]
End(entry) == [end |-> entry]       \* entry 0: an end that names none
Changes == [file |-> "changed"]     \* the transcript changed
IsEnd(item) == "end" \in DOMAIN item
Reply(n) == <<"reply", n>>
Result(n) == <<"result", n>>

Init ==
  /\ phase = "idle" /\ reply = 0 /\ file = <<>>
  /\ message = 0 /\ tools = {} /\ ending = 0
  /\ watched = FALSE /\ shown = FALSE /\ dirty = FALSE /\ timer = FALSE
  /\ queue = <<>> /\ sending = None /\ fresh = FALSE
  /\ lives = None /\ open = TRUE /\ told = 0 /\ stream = <<>>
  /\ live = None /\ liveEnded = FALSE /\ liveClear = FALSE /\ held = <<>>
  /\ page = 0 /\ asked = "no" /\ served = 0
  /\ fails = 0 /\ drops = 0

---------------------------------------------------------------------------
(* What the pane sends: one at a time, the latest snapshot, every end      *)

(* The snapshot a newer item replaces is left out. *)
Replaced(items) == IF IsEnd(Last(items)) THEN items ELSE Front(items)

(* An item comes to be sent, and goes at once when nothing is on its way. *)
Sends(item) ==
  LET waiting == Append(IF queue = <<>> THEN queue ELSE Replaced(queue), item)
  IN  IF sending = None
      THEN /\ queue' = Tail(waiting) /\ sending' = Head(waiting)
           /\ fresh' = FALSE
      ELSE /\ queue' = waiting /\ fresh' = TRUE
           /\ UNCHANGED sending

(* The next one of those goes. *)
Drained(waiting) ==
  /\ queue' = IF waiting = <<>> THEN waiting ELSE Tail(waiting)
  /\ sending' = IF waiting = <<>> THEN None ELSE Head(waiting)
  /\ fresh' = FALSE

(* A failed end is sent again before what waits behind it. *)
Kept(item) == IF IsEnd(item) THEN <<item>> ELSE <<>>

(* A failed end is tried again at once if something came meanwhile, else   *)
(* before the next send.                                                   *)
Failed ==
  IF IsEnd(sending) /\ ~fresh
  THEN /\ queue' = Kept(sending) \o queue /\ sending' = None
       /\ UNCHANGED fresh
  ELSE Drained(Kept(sending) \o queue)

(* A send that does not reach the daemon. *)
SendFails ==
  /\ sending # None /\ fails + drops < FaultBound
  /\ Failed
  /\ fails' = fails + 1
  /\ UNCHANGED <<piVars, paneVars, daemonVars, phoneVars, drops>>

---------------------------------------------------------------------------
(* The forwarder's steps.  Each of pi's events below takes one of them.    *)

(* A snapshot waits for the end it follows. *)
Flushes(d, e) == d /\ watched /\ e = 0

FlushTimer ==
  /\ timer
  /\ timer' = FALSE
  /\ IF Flushes(dirty, ending)
     THEN Sends(Snapshot(message, tools)) /\ dirty' = FALSE /\ shown' = TRUE
     ELSE UNCHANGED <<sendVars, shown, dirty>>
  /\ UNCHANGED <<piVars, message, tools, ending, watched, daemonVars, phoneVars, fails, drops>>

(* Sent by the timer; one that may go at once is a timer that fires next.  *)
Schedule == timer' = TRUE /\ UNCHANGED <<sendVars, shown>>

Changed ==
  /\ dirty' = TRUE
  /\ IF watched THEN Schedule ELSE UNCHANGED <<sendVars, shown, timer>>

(* What a null ends is what the phone was shown. *)
Retract ==
  /\ timer' = FALSE /\ ending' = 0
  /\ shown' = FALSE
  /\ IF shown THEN Sends(End(0)) ELSE UNCHANGED sendVars

Clear == dirty' = FALSE /\ Retract

Written(n) == n # 0 /\ Contains(file, Reply(n))

(* An end goes out once pi has written its entry, then what waited. *)
Settles ==
  /\ Written(ending)
  /\ Sends(End(ending))
  /\ ending' = 0 /\ shown' = FALSE
  /\ timer' = (timer \/ (dirty /\ watched))
  /\ UNCHANGED <<message, tools, watched, dirty>>

(* The macrotask of an end, and the first thing any later event does. *)
SettleTimer ==
  /\ Settles
  /\ UNCHANGED <<piVars, daemonVars, phoneVars, fails, drops>>

---------------------------------------------------------------------------
(* pi's events, in the order it has them                                   *)

(* A reply, a tool, and a turn's end settle what ended before: what leads  *)
(* to a snapshot then is theirs to say.                                    *)
Settle ==
  IF Written(ending)
  THEN Sends(End(ending)) /\ ending' = 0 /\ shown' = FALSE
  ELSE UNCHANGED <<sendVars, ending, shown>>

Waited == Written(ending) /\ dirty /\ watched

MessageStarts ==
  /\ phase = "idle" /\ reply < Replies
  /\ phase' = "streaming" /\ reply' = reply + 1
  /\ Settle /\ timer' = (timer \/ Waited)
  /\ UNCHANGED <<file, message, tools, dirty, watched, daemonVars, phoneVars, fails, drops>>

MessageUpdates ==
  /\ phase = "streaming"
  /\ message' = reply
  /\ Changed
  /\ UNCHANGED <<piVars, tools, ending, watched, daemonVars, phoneVars, fails, drops>>

MessageEnds ==
  /\ phase = "streaming"
  /\ phase' = "ended"
  /\ message' = 0
  /\ IF shown
     THEN ending' = reply /\ dirty' = FALSE /\ UNCHANGED <<shown, timer, sendVars>>
     ELSE Clear
  /\ UNCHANGED <<reply, file, tools, watched, daemonVars, phoneVars, fails, drops>>

EntryWritten ==
  /\ phase = "ended"
  /\ phase' = "written"
  /\ file' = Append(file, Reply(reply))
  /\ UNCHANGED <<reply, paneVars, sendVars, daemonVars, phoneVars, fails, drops>>

ToolStarts ==
  /\ phase = "written" /\ reply \in ToolReplies /\ ~Contains(file, Result(reply))
  /\ phase' = "tool"
  /\ tools' = {reply}
  /\ Settle /\ dirty' = TRUE /\ timer' = (timer \/ watched)
  /\ UNCHANGED <<reply, file, message, watched, daemonVars, phoneVars, fails, drops>>

(* It is shown, as no longer running, until its result is a message.       *)
ToolEnds ==
  /\ phase = "tool"
  /\ phase' = "done"
  /\ Changed
  /\ UNCHANGED <<reply, file, message, tools, ending, watched, daemonVars, phoneVars, fails, drops>>

(* That message's end: with no tool left, what the phone was shown is      *)
(* cleared.  Its start had nothing to settle, the tool's having done so.   *)
ResultEnds ==
  /\ phase = "done"
  /\ phase' = "result"
  /\ tools' = {}
  /\ Clear
  /\ UNCHANGED <<reply, file, message, watched, daemonVars, phoneVars, fails, drops>>

ResultWritten ==
  /\ phase = "result"
  /\ phase' = "written"
  /\ file' = Append(file, Result(reply))
  /\ UNCHANGED <<reply, paneVars, sendVars, daemonVars, phoneVars, fails, drops>>

TurnEnds ==
  /\ phase = "written"
  /\ phase' = "idle"
  /\ Settle /\ timer' = (timer \/ Waited)
  /\ UNCHANGED <<reply, file, message, tools, dirty, watched, daemonVars, phoneVars, fails, drops>>

(* With no turn after it: what is left is cleared.                         *)
AgentEnds ==
  /\ phase = "idle"
  /\ message' = 0 /\ tools' = {}
  /\ Clear
  /\ UNCHANGED <<piVars, watched, daemonVars, phoneVars, fails, drops>>

(* A heartbeat's answer says whether a phone has the session open. *)
Watched ==
  /\ watched # open
  /\ watched' = open
  /\ IF open
     THEN /\ dirty' = (message # 0 \/ tools # {})
          /\ IF dirty' THEN Schedule ELSE UNCHANGED <<sendVars, shown, timer>>
          /\ UNCHANGED ending
     ELSE Retract /\ UNCHANGED dirty
  /\ UNCHANGED <<piVars, message, tools, daemonVars, phoneVars, fails, drops>>

---------------------------------------------------------------------------
(* The daemon                                                              *)

(* A snapshot is kept for a session some phone has open, and an end always *)
(* sent on.  The pane hears that it was taken, or takes it for failed.     *)
Arrives ==
  /\ sending # None
  /\ Len(stream) < StreamBound
  /\ lives' = IF IsEnd(sending) \/ ~open THEN None ELSE sending
  /\ stream' = IF open THEN Append(stream, sending) ELSE stream
  /\ \/ Drained(queue) /\ UNCHANGED fails
     \/ /\ fails + drops < FaultBound
        /\ fails' = fails + 1
        /\ Failed
  /\ UNCHANGED <<piVars, paneVars, open, told, phoneVars, drops>>

(* The tick tells of a transcript that changed. *)
Tick ==
  /\ open /\ told # Len(file)
  /\ Len(stream) < StreamBound
  /\ told' = Len(file)
  /\ stream' = Append(stream, Changes)
  /\ UNCHANGED <<piVars, paneVars, sendVars, lives, open, phoneVars, fails, drops>>

(* The stream breaks: with the last phone go the snapshots. *)
StreamBreaks ==
  /\ open /\ fails + drops < FaultBound
  /\ open' = FALSE /\ stream' = <<>> /\ lives' = None
  /\ drops' = drops + 1
  /\ UNCHANGED <<piVars, paneVars, sendVars, told, phoneVars, fails>>

(* The phone opens it again: everything is loaded again, and what it shows *)
(* of a reply may have ended meanwhile.                                    *)
StreamOpens ==
  /\ ~open
  /\ open' = TRUE /\ told' = Len(file)
  /\ stream' = IF lives = None THEN <<>> ELSE <<lives>>
  /\ asked' = "asked"
  /\ IF live # None THEN liveEnded' = TRUE /\ liveClear' = TRUE
     ELSE UNCHANGED <<liveEnded, liveClear>>
  /\ UNCHANGED <<piVars, paneVars, sendVars, lives, live, held, page, served, fails, drops>>

---------------------------------------------------------------------------
(* The phone                                                               *)

(* A mutant: the reply is dropped at its end, the page is on its way. *)
HeldNone(entry) == held

(* The text that ended at an entry is held until a page has it. *)
HeldOn(entry) == IF live # None /\ live.text # 0 THEN Append(held, entry) ELSE held

Hears ==
  /\ stream # <<>>
  /\ stream' = Tail(stream)
  /\ LET item == Head(stream)
     IN  IF item = Changes
         THEN asked' = "asked" /\ UNCHANGED <<live, liveEnded, liveClear, held>>
         ELSE IF ~IsEnd(item)
         THEN /\ live' = item /\ liveEnded' = FALSE /\ liveClear' = FALSE
              /\ UNCHANGED <<held, asked>>
         ELSE /\ asked' = "asked"
              /\ IF item.end # 0
                 THEN /\ held' = HeldOn(item.end)
                      /\ live' = IF live # None /\ live.tools # {} THEN Snapshot(0, live.tools) ELSE None
                      /\ UNCHANGED <<liveEnded, liveClear>>
                 ELSE liveEnded' = TRUE /\ liveClear' = TRUE /\ UNCHANGED <<held, live>>
  /\ UNCHANGED <<piVars, paneVars, sendVars, lives, open, told, page, served, fails, drops>>

(* LIVE_CLEAR_MS after an end that named no entry. *)
ClearTimer ==
  /\ liveClear
  /\ liveClear' = FALSE /\ live' = None
  /\ UNCHANGED <<piVars, paneVars, sendVars, daemonVars, liveEnded, held, page, asked, served, fails, drops>>

(* The daemon reads the page. *)
PageServed ==
  /\ asked = "asked"
  /\ asked' = "served" /\ served' = Len(file)
  /\ UNCHANGED <<piVars, paneVars, sendVars, daemonVars, live, liveEnded, liveClear, held, page, fails, drops>>

Shows(n, entry) == \E i \in 1..n : file[i] = entry

LastReply(n) ==
  LET at == {i \in 1..n : file[i][1] = "reply"}
  IN  IF at = {} THEN 0 ELSE file[CHOOSE i \in at : \A j \in at : j <= i][2]

(* What is left of the reply on screen once a page of n entries lands. *)
LeftOf(n) ==
  IF live = None THEN None
  ELSE LET left == {t \in live.tools : ~Shows(n, Result(t))}
           text == IF liveEnded /\ LastReply(n) = live.text THEN 0 ELSE live.text
       IN  IF text = 0 /\ left = {} THEN None ELSE Snapshot(text, left)

(* Those up to the last one the page has are let go. *)
StillHeld(n) ==
  LET last == SelectLastInSeq(held, LAMBDA e : Shows(n, Reply(e)))
  IN  SubSeq(held, last + 1, Len(held))

PageLands ==
  /\ asked = "served"
  /\ page' = served /\ asked' = "no" /\ served' = 0
  /\ live' = LeftOf(served)
  /\ held' = StillHeld(served)
  /\ UNCHANGED <<piVars, paneVars, sendVars, daemonVars, liveEnded, liveClear, fails, drops>>

(* The request fails: the next event loads another.                        *)
PageFails ==
  /\ asked \in {"asked", "served"} /\ fails + drops < FaultBound
  /\ asked' = "failed" /\ served' = 0 /\ fails' = fails + 1
  /\ UNCHANGED <<piVars, paneVars, sendVars, daemonVars, live, liveEnded, liveClear, held, page, drops>>

Next ==
  \/ SendFails \/ SettleTimer \/ FlushTimer
  \/ MessageStarts \/ MessageUpdates \/ MessageEnds \/ EntryWritten
  \/ ToolStarts \/ ToolEnds \/ ResultEnds \/ ResultWritten \/ TurnEnds \/ AgentEnds \/ Watched
  \/ Arrives \/ Tick \/ StreamBreaks \/ StreamOpens
  \/ Hears \/ ClearTimer \/ PageServed \/ PageLands \/ PageFails

Spec == Init /\ [][Next]_vars

---------------------------------------------------------------------------
(* Properties *)

ShownText(n) == (live # None /\ live.text = n) \/ Contains(held, n) \/ Shows(page, Reply(n))

(* Nothing is on its way and no timer of the phone's runs. *)
AtRest ==
  /\ phase = "idle" /\ message = 0 /\ ending = 0
  /\ queue = <<>> /\ sending = None /\ stream = <<>>
  /\ open /\ watched /\ told = Len(file) /\ asked = "no"
  /\ ~timer /\ ~liveClear

(* Between replies, once everything is heard, the phone shows the whole    *)
(* transcript and nothing beside it: no reply of which the end was lost,   *)
(* overtaken or judged too early (events.ts, live; live.ts, latestOnly).   *)
NothingLeftOver == AtRest => live = None /\ held = <<>> /\ page = Len(file)

(* A reply the phone shows does not go off the screen before the           *)
(* transcript it loads has it, as long as its stream held                  *)
(* (chat.js, replyEndedAt).                                                *)
NoGap ==
  [][ \A n \in 1..Replies :
        ShownText(n) /\ drops' = 0 => ShownText(n)' \/ liveClear ]_vars
====
