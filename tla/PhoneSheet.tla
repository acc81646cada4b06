---- MODULE PhoneSheet ----
(***************************************************************************)
(* The phone's status sheet (daemon/remote/web/app.js) and the report it   *)
(* shows: a pane reports a change while a phone has its session open, each *)
(* report is told to the phone, which fetches it; a setting picked on the  *)
(* phone shows at once, and what the pane reports next confirms it or puts *)
(* the old one back. A task stopped from the phone is shown as stopping    *)
(* until a report lacks it.                                                *)
(***************************************************************************)
EXTENDS Naturals, FiniteSets, Sequences

CONSTANTS
  None,
  Setting,      \* the settings the phone may pick, of "model", "trust" and "level"
  Value, Task,
  Taken,        \* the values pi takes: not a model it no longer knows or has no login for
  PickBound,    \* settings and stops asked for from the phone
  MacBound,     \* changes made on the Mac
  BreakBound,   \* times the stream breaks, the daemon restarts or the chat is left
  FetchBound    \* fetches on their way at once

VARIABLES
  pane,      \* what the pane is set to and the tasks it runs
  watched,   \* the pane was told that a phone has its session open
  beat,      \* what the register reply on its way says, None without one
  heard,     \* the daemon's latest report, None without one
  inbox,     \* the phone's messages queued for the pane
  open, stream,  \* the chat is open, and its stream is up
  news,      \* a status event the phone has not had
  report,    \* what the phone shows, None before the first answer
  picker,    \* the sheet's picker: its setting and the report it was opened on
  request,   \* the number of the latest fetch
  fetches,   \* fetches on their way: their number and what they bring
  posts,     \* messages on their way to the daemon
  stopping,  \* the tasks the phone shows as stopping
  dying,     \* tasks asked to stop that have not ended
  picks, changes, breaks, restarted

macVars == <<pane, watched, beat, heard, inbox, dying>>
phoneVars == <<open, stream, report, picker, request, fetches, posts, stopping>>
bounds == <<picks, changes, breaks, restarted>>
vars == <<macVars, phoneVars, news, bounds>>

Init ==
  /\ pane = [at |-> [s \in Setting |-> CHOOSE v \in Value : TRUE], tasks |-> Task]
  /\ watched = FALSE /\ beat = None /\ heard = pane /\ inbox = << >>
  /\ open = FALSE /\ stream = FALSE /\ news = FALSE
  /\ report = None /\ picker = None /\ request = 0 /\ fetches = {} /\ posts = {} /\ stopping = {}
  /\ dying = {} /\ picks = 0 /\ changes = 0 /\ breaks = 0 /\ restarted = FALSE

---------------------------------------------------------------------------
(* The pane *)

(* control.report: the daemon has it, and each report is signalled, unchanged too. *)
Watching == open /\ stream
Reports(p) == heard' = p /\ news' = (news \/ Watching)

(* A change the phone shows is reported only while a phone has the session open. *)
Changed(p) == pane' = p /\ IF watched THEN Reports(p) ELSE UNCHANGED <<heard, news>>

MacChanges(s, v) ==
  /\ changes < MacBound /\ changes' = changes + 1
  /\ pane.at[s] # v /\ Changed([pane EXCEPT !.at[s] = v])
  /\ UNCHANGED <<watched, beat, inbox, dying, phoneVars, picks, breaks, restarted>>

(* A task ends, on its own or stopped. *)
TaskEnds(t) ==
  /\ t \in pane.tasks /\ (t \in dying \/ changes < MacBound)
  /\ changes' = changes + (IF t \in dying THEN 0 ELSE 1)
  /\ Changed([pane EXCEPT !.tasks = @ \ {t}]) /\ dying' = dying \ {t}
  /\ UNCHANGED <<watched, beat, inbox, phoneVars, picks, breaks, restarted>>

(* What pi has already or does not take is reported again, but for a model. *)
SaysNothing(s) == s = "model"

(* applyPaneMessage, for each message of a register reply: the pane so far, the tasks it is to end *)
(* and whether it reports.                                                                        *)
Apply(acc, m) ==
  CASE m.type = "stop" /\ m.task \in acc.pane.tasks -> [acc EXCEPT !.dying = @ \cup {m.task}]
    [] m.type = "set" /\ acc.pane.at[m.of] # m.value /\ m.value \in Taken ->
         [acc EXCEPT !.pane.at[m.of] = m.value, !.says = @ \/ watched]
    [] m.type = "set" /\ SaysNothing(m.of) -> acc
    [] OTHER -> [acc EXCEPT !.says = TRUE]

Applied(messages) ==
  LET a[n \in 0..Len(messages)] ==
        IF n = 0 THEN [pane |-> pane, dying |-> dying, says |-> FALSE] ELSE Apply(a[n - 1], messages[n])
  IN a[Len(messages)]

(* The daemon's reply to a register: what waits for the pane, whether it is watched, and whether *)
(* its report is wanted.                                                                         *)
BeatServed ==
  /\ beat = None /\ (watched # Watching \/ inbox # << >> \/ heard = None)
  /\ beat' = [messages |-> inbox, watched |-> Watching, want |-> heard = None]
  /\ inbox' = << >>
  /\ UNCHANGED <<pane, watched, heard, dying, phoneVars, news, bounds>>

(* A pane that finds itself watched reports at once: it may not have while nobody watched. *)
Opened == beat.watched /\ ~watched

BeatLands ==
  /\ beat # None
  /\ LET a == Applied(beat.messages) IN
     /\ pane' = a.pane /\ dying' = a.dying
     /\ IF a.says \/ Opened \/ beat.want THEN Reports(a.pane) ELSE UNCHANGED <<heard, news>>
  /\ watched' = beat.watched /\ beat' = None
  /\ UNCHANGED <<inbox, phoneVars, bounds>>

(* A restart of the daemon: its reports and its queues are gone, and every stream breaks. *)
Restarts ==
  /\ breaks < BreakBound /\ breaks' = breaks + 1 /\ restarted' = TRUE
  /\ heard' = None /\ inbox' = << >>
  /\ beat' = IF beat = None THEN None ELSE [messages |-> << >>, watched |-> FALSE, want |-> FALSE]
  /\ stream' = FALSE /\ news' = FALSE
  /\ UNCHANGED <<pane, watched, dying, open, report, picker, request, fetches, posts, stopping, picks, changes>>

---------------------------------------------------------------------------
(* The phone *)

(* loadStatus *)
Load == request' = request + 1 /\ fetches' = fetches \cup {[n |-> request + 1, has |-> FALSE, brings |-> None]}
CanLoad == Cardinality(fetches) < FetchBound

(* openChat, and its stream: each opening loads the status. *)
Connects ==
  /\ ~stream /\ CanLoad /\ stream' = TRUE /\ open' = TRUE /\ Load
  /\ UNCHANGED <<macVars, news, report, picker, posts, stopping, bounds>>

StreamBreaks ==
  /\ stream /\ breaks < BreakBound /\ breaks' = breaks + 1 /\ stream' = FALSE /\ news' = FALSE
  /\ UNCHANGED <<macVars, open, report, picker, request, fetches, posts, stopping, picks, changes, restarted>>

(* leaveChat: answers of its fetches are no longer its own. *)
Leaves ==
  /\ open /\ breaks < BreakBound /\ breaks' = breaks + 1
  /\ open' = FALSE /\ stream' = FALSE /\ news' = FALSE
  /\ report' = None /\ picker' = None /\ request' = 0 /\ fetches' = {} /\ stopping' = {}
  /\ UNCHANGED <<macVars, posts, picks, changes, restarted>>

(* The stream's status event *)
HearsStatus ==
  /\ news /\ CanLoad /\ news' = FALSE /\ Load
  /\ UNCHANGED <<macVars, open, stream, report, picker, posts, stopping, bounds>>

(* serveStatus takes the report before it renders the status lines, which may take a while. *)
Serves(f) ==
  /\ ~f.has /\ fetches' = (fetches \ {f}) \cup {[f EXCEPT !.has = TRUE, !.brings = heard]}
  /\ UNCHANGED <<macVars, news, open, stream, report, picker, request, posts, stopping, bounds>>

Latest(f) == f.n = request

Lands(f) ==
  /\ f.has /\ fetches' = fetches \ {f}
  /\ IF Latest(f)
     THEN /\ report' = f.brings
          /\ stopping' = IF f.brings = None THEN {} ELSE stopping \cap f.brings.tasks
     ELSE UNCHANGED <<report, stopping>>
  /\ UNCHANGED <<macVars, news, open, stream, picker, request, posts, bounds>>

(* A fetch that fails says so and is not made again; the stream is down too, and loads it anew. *)
FetchFails(f) ==
  /\ ~stream /\ fetches' = fetches \ {f}
  /\ UNCHANGED <<macVars, news, open, stream, report, picker, request, posts, stopping, bounds>>

(* pickSetting: the picker keeps the report it was opened on. *)
OpensPicker(s) ==
  /\ picks < PickBound /\ open /\ report # None /\ picker = None /\ s # "level"
  /\ picker' = [of |-> s, on |-> report]
  /\ UNCHANGED <<macVars, news, open, stream, report, request, fetches, posts, stopping, bounds>>

Set(s, v) == [type |-> "set", of |-> s, value |-> v]
Picks(v) ==
  /\ picker # None /\ picker' = None
  /\ IF picker.on.at[picker.of] = v
     THEN UNCHANGED <<report, posts, picks>>
     ELSE /\ report' = [picker.on EXCEPT !.at[picker.of] = v]
          /\ posts' = posts \cup {Set(picker.of, v)} /\ picks' = picks + 1
  /\ UNCHANGED <<macVars, news, open, stream, request, fetches, stopping, changes, breaks, restarted>>

(* slideThinking, let go at a level: shown on the report of the moment. *)
Slides(v) ==
  /\ "level" \in Setting /\ picks < PickBound /\ picks' = picks + 1
  /\ open /\ report # None /\ report.at["level"] # v
  /\ report' = [report EXCEPT !.at["level"] = v] /\ posts' = posts \cup {Set("level", v)}
  /\ UNCHANGED <<macVars, news, open, stream, picker, request, fetches, stopping, changes, breaks, restarted>>

(* stopTask *)
Stops(t) ==
  /\ picks < PickBound /\ picks' = picks + 1
  /\ open /\ report # None /\ t \in report.tasks \ stopping
  /\ stopping' = stopping \cup {t} /\ posts' = posts \cup {[type |-> "stop", task |-> t]}
  /\ UNCHANGED <<macVars, news, open, stream, report, picker, request, fetches, changes, breaks, restarted>>

Unstopped(m) == IF m.type = "stop" THEN stopping \ {m.task} ELSE stopping
(* A setting that failed goes back to what the pane reported. *)
PutBack(m) == IF open /\ m.type = "set" THEN Load ELSE UNCHANGED <<request, fetches>>

(* The daemon takes only what the pane's report offers. *)
Offered(m) == heard # None /\ (m.type = "stop" => m.task \in heard.tasks)

PostArrives(m) ==
  /\ Offered(m) /\ inbox' = Append(inbox, m) /\ posts' = posts \ {m}
  /\ UNCHANGED <<pane, watched, beat, heard, dying, news, open, stream, report, picker, request, fetches,
       stopping, bounds>>

(* It is refused, or its answer is lost with the stream, the message queued or not. *)
PostFails(m, arrived) ==
  /\ CanLoad /\ IF arrived THEN Offered(m) /\ ~stream ELSE ~(Offered(m) /\ stream)
  /\ inbox' = IF arrived THEN Append(inbox, m) ELSE inbox
  /\ posts' = posts \ {m} /\ PutBack(m)
  /\ stopping' = Unstopped(m)
  /\ UNCHANGED <<pane, watched, beat, heard, dying, news, open, stream, report, picker, bounds>>

Next ==
  \/ \E s \in Setting, v \in Value : MacChanges(s, v)
  \/ \E t \in Task : TaskEnds(t) \/ Stops(t)
  \/ BeatServed \/ BeatLands \/ Restarts
  \/ Connects \/ StreamBreaks \/ Leaves \/ HearsStatus
  \/ \E f \in fetches : Serves(f) \/ Lands(f) \/ FetchFails(f)
  \/ \E s \in Setting : OpensPicker(s)
  \/ \E v \in Value : Picks(v) \/ Slides(v)
  \/ \E m \in posts : PostArrives(m) \/ (\E arrived \in BOOLEAN : PostFails(m, arrived))

Spec == Init /\ [][Next]_vars

---------------------------------------------------------------------------
(* Nothing is on its way between the phone and the pane. *)
AtRest ==
  /\ Watching /\ watched /\ ~news /\ heard # None
  /\ beat = None /\ inbox = << >> /\ fetches = {} /\ posts = {} /\ picker = None

(* Once nothing is on its way the phone shows what the pane is set to and runs, whatever was      *)
(* picked, refused, broken off or changed on the Mac meanwhile (pickSetting: "the pane's next     *)
(* report confirms it (or puts back the old one)").                                               *)
ShowsPane == AtRest => report = pane

(* A task is shown as stopping only while it is being stopped, if no restart lost the message. *)
StopsEnd == AtRest /\ ~restarted => stopping \subseteq dying

====
