---- MODULE PanePath ----
(***************************************************************************)
(* A phone's prompts on their way to one pane's pi and back: the daemon's  *)
(* delivery (Delivery), the pane's registration, which fetches them and    *)
(* may outlive its session (self-registration.ts), the handling of each    *)
(* message and the chain of reports (ext/remote/index.ts), over the pane's *)
(* session switches and the daemon's restarts.                             *)
(*                                                                         *)
(* What becomes of a prompt inside pi, and how the tracker learns of it,   *)
(* is Outcomes'; here pi takes what it is handed when idle, queues it when *)
(* busy, and starts or drops what it queued.                               *)
(***************************************************************************)
EXTENDS Delivery, SequencesExt

CONSTANTS
  PaneRow,      \* the row the pane is listed as
  ThePane,
  File,         \* session files
  FirstFile,    \* the session file the pane starts on
  BeatBound,    \* register requests answered and not yet handled
  ReportBound,  \* reports of one session that have not landed
  LifeBound,    \* lifetimes of the daemon
  SwitchBound,  \* sessions the pane goes through
  AgeBound,     \* unsettled prompts that are old at once
  CalmLife      \* from this lifetime of the daemon on none grows old, nor is a live pane let go of

ASSUME PathAssumption ==
  /\ PaneRow \in Row
  /\ ThePane \in Pane
  /\ FirstFile \in File
  /\ {BeatBound, ReportBound, LifeBound, SwitchBound} \subseteq Nat \ {0}
  /\ {AgeBound, CalmLife} \subseteq Nat

VARIABLES
  life,        \* the daemon's lifetime
  rowFile,     \* the session file of the row, None while no live pane is listed as it
  silentFile,  \* that of the row's silent pane, None while it has none
  hasReport,   \* the daemon has a report of the row's
  sentFor,     \* the session file each prompt was sent for
  acceptedIn,  \* the lifetime that accepted each prompt, 0 before any did
  givenUp,     \* the prompts the phone was told are refused or lost
  cutOff,      \* those a pane had that goes on, as the daemon let go of it
  stage,       \* the session's: up, or how far its shutdown is
  file,        \* the session file of the pane's pi
  next,        \* where its shutdown leads: a file, or None as the pane leaves the row
  switches,    \* sessions so far
  replies,     \* the messages of each register reply on its way, or not yet done with
  busy,        \* pi runs
  given,       \* what pi did with each prompt, and in which session
  queuedIn,    \* the tracker's queued prompts
  settled,     \* the tracker's outcomes, of the prompts it has one of
  outbox,      \* this session's reports, in the order made
  oldbox,      \* the reports its predecessor has not sent yet
  lossy        \* a reply or a report was lost

daemonVars == <<life, rowFile, silentFile, hasReport>>
phoneVars == <<sentFor, acceptedIn, givenUp, cutOff>>
sessionVars == <<stage, file, next, switches>>
piVars == <<busy, given>>
trackerVars == <<queuedIn, settled>>
boxes == <<outbox, oldbox>>

vars == <<dvars, daemonVars, phoneVars, sessionVars, piVars, trackerVars, boxes, replies, lossy>>

Count(S) == Cardinality(S)

Untouched == [by |-> "no", in |-> None]

Init ==
  /\ DInit
  /\ life = 1 /\ rowFile = None /\ silentFile = None /\ hasReport = FALSE
  /\ sentFor = [i \in Id |-> None]
  /\ acceptedIn = [i \in Id |-> 0]
  /\ givenUp = {} /\ cutOff = {}
  /\ stage = "up" /\ file = FirstFile /\ next = None /\ switches = 1
  /\ replies = <<>>
  /\ busy = FALSE
  /\ given = [i \in Id |-> Untouched]
  /\ queuedIn = {}
  /\ settled = <<>>
  /\ outbox = <<<<>>>> /\ oldbox = <<>>
  /\ lossy = FALSE

GivenUp == {"refused", "lost"}

(* What of os stands once each prompt of S settled as o. *)
SettledAs(S, o, os) == [i \in S \cup DOMAIN os |-> IF i \in S THEN o ELSE os[i]]

(* Every report carries all the session's outcomes.  Those made in one     *)
(* step are one.                                                           *)
Report(os) ==
  /\ Len(outbox) < ReportBound
  /\ outbox' = Append(outbox, os)

---------------------------------------------------------------------------
(* The phone *)

(* Ids are made up as they are needed. *)
Fresh(i) == i = CHOOSE j \in Id : acceptedIn[j] = 0

(* A phone's prompt, or slash command, for the session the row is on. *)
PhoneSends(i) ==
  /\ acceptedIn[i] = 0
  /\ Fresh(i)
  /\ rowFile # None
  /\ Queue(PaneRow, i)
  /\ sentFor' = [sentFor EXCEPT ![i] = rowFile]
  /\ acceptedIn' = [acceptedIn EXCEPT ![i] = life]
  /\ UNCHANGED <<givenUp, cutOff, daemonVars, sessionVars, piVars, trackerVars, boxes, replies, lossy>>

(* What the daemon answers of prompt i, the old ones let go: what it knows,*)
(* else lost when an earlier lifetime accepted it and the row's pane       *)
(* reports.                                                                *)
Answer(i) ==
  IF Pruned(prompts)[i].outcome # "unknown" THEN prompts[i].outcome
  ELSE IF acceptedIn[i] \notin {0, life} /\ hasReport THEN "lost"
  ELSE "unknown"

(* The phone asks what became of prompt i, which it sent. *)
PhoneAsks(i) ==
  /\ acceptedIn[i] # 0
  /\ givenUp' = IF Answer(i) \in GivenUp THEN givenUp \cup {i} ELSE givenUp
  /\ Ask
  /\ UNCHANGED <<sentFor, acceptedIn, cutOff, daemonVars, sessionVars, piVars, trackerVars, boxes,
                 replies, lossy>>

---------------------------------------------------------------------------
(* The registration's heartbeats *)

(* The pane went on to another session while it was silent, which ended    *)
(* the one it was listed as.                                               *)
WentOn == silentFile \notin {None, file}

(* The daemon answers a heartbeat: the row is live, and what its inbox     *)
(* held, nothing if it was silent, is on its way.                          *)
Beat ==
  /\ stage = "up"
  /\ Len(replies) < BeatBound
  /\ IF WentOn
     THEN /\ Ended(PaneRow, ThePane, "another", TRUE)
          /\ replies' = Append(replies, <<>>)
     ELSE /\ Take(PaneRow, ThePane)
          /\ replies' = Append(replies, inboxes[PaneRow])
  /\ rowFile' = file /\ silentFile' = None
  /\ UNCHANGED <<life, hasReport, phoneVars, sessionVars, piVars, trackerVars, boxes, lossy>>

(* Or the session it went on to has a row of its own, the silent one being *)
(* stored: what it sends and takes from here on is that row's.             *)
BeatElsewhere ==
  /\ stage = "up"
  /\ WentOn
  /\ Ended(PaneRow, ThePane, "another", TRUE)
  /\ silentFile' = None
  /\ stage' = "gone" /\ file' = None
  /\ busy' = FALSE /\ queuedIn' = {} /\ settled' = <<>>
  /\ outbox' = <<>> /\ oldbox' = <<>> /\ replies' = <<>>
  /\ UNCHANGED <<life, rowFile, hasReport, phoneVars, next, switches, given, lossy>>

(* Refused before pi sees it: sent for another session, or for the pane's  *)
(* own reasons (compacting, skills that are gone, a prompt on the Mac that *)
(* a slash command cannot be typed into).                                  *)
Refuses(i, refusing) == sentFor[i] # file \/ i \in refusing

(* What handing over a reply's messages leaves of given.  Of those handed  *)
(* to an idle pi it starts the first, and queues those behind it.          *)
HandedOver(messages, handed) ==
  LET first(i) == \E k \in DOMAIN messages :
                    messages[k] = i /\ \A j \in 1..(k - 1) : messages[j] \notin handed
  IN  [i \in Id |->
        IF i \notin handed THEN given[i]
        ELSE [by |-> IF ~busy /\ first(i) THEN "started" ELSE "queued", in |-> file]]

(* A reply arrives while its session goes on: every message is handed over *)
(* and reported on.  All those handed to an idle pi are said to be taken.  *)
ReplyArrives(k, refusing) ==
  LET messages == replies[k]
      refused == {i \in Range(messages) : Refuses(i, refusing)}
      handed == Range(messages) \ refused
      now == SettledAs(refused, "refused",
                       SettledAs(handed, IF busy THEN "queued" ELSE "taken", settled))
  IN  /\ stage = "up"
      /\ refusing \subseteq Range(messages)
      /\ given' = HandedOver(messages, handed)
      /\ busy' = (busy \/ handed # {})
      /\ queuedIn' = IF busy THEN queuedIn \cup handed ELSE queuedIn
      /\ settled' = now
      /\ IF messages = <<>> THEN UNCHANGED outbox ELSE Report(now)
      /\ replies' = RemoveAt(replies, k)
      /\ UNCHANGED <<dvars, daemonVars, phoneVars, sessionVars, oldbox, lossy>>

(* A restarted daemon has no report of the row, and its replies ask for one. *)
WantReport ==
  /\ stage = "up"
  /\ rowFile # None /\ ~hasReport
  /\ Report(settled)
  /\ UNCHANGED <<dvars, daemonVars, phoneVars, sessionVars, piVars, trackerVars, oldbox, replies, lossy>>

(* A reply times out, or the daemon restarts under it. *)
ReplyLost(k) ==
  /\ replies' = RemoveAt(replies, k)
  /\ lossy' = (lossy \/ replies[k] # <<>>)
  /\ UNCHANGED <<dvars, daemonVars, phoneVars, sessionVars, piVars, trackerVars, boxes>>

(* A mutant: what is sent back stays among what the reply still holds. *)
KeptBehind(k) == replies[k]

(* What a reply holds once its first message is on its way back. *)
Behind(k) == Tail(replies[k])

(* A reply that arrives after its session stopped: its messages go back to *)
(* the inbox one by one.  One the daemon refuses, or whose answer is late, *)
(* loses those behind it.                                                  *)
SendBack(k, queued, answered) ==
  /\ stage = "stopping"
  /\ replies[k] # <<>>
  /\ queued => rowFile # None
  /\ answered => queued
  /\ IF queued THEN Queue(PaneRow, Head(replies[k])) ELSE UNCHANGED dvars
  /\ replies' = [replies EXCEPT ![k] = IF answered THEN Behind(k) ELSE <<>>]
  /\ lossy' = (lossy \/ ~queued \/ (~answered /\ Behind(k) # <<>>))
  /\ UNCHANGED <<daemonVars, phoneVars, sessionVars, piVars, trackerVars, boxes>>

(* Nothing is left of a reply to a session that stopped. *)
ReplyDone(k) ==
  /\ stage = "stopping"
  /\ replies[k] = <<>>
  /\ replies' = RemoveAt(replies, k)
  /\ UNCHANGED <<dvars, daemonVars, phoneVars, sessionVars, piVars, trackerVars, boxes, lossy>>

---------------------------------------------------------------------------
(* pi *)

QueuedByPi == {i \in Id : given[i].by = "queued"}

(* pi's queue goes unstarted. *)
Dropped == [i \in Id |-> IF i \in QueuedByPi THEN [given[i] EXCEPT !.by = "dropped"] ELSE given[i]]

(* pi starts a prompt it queued; the tracker settles it if it had it queued. *)
PiStarts(i) ==
  /\ stage = "up" /\ busy
  /\ given[i].by = "queued"
  /\ given' = [given EXCEPT ![i].by = "started"]
  /\ queuedIn' = queuedIn \ {i}
  /\ IF i \in queuedIn
     THEN /\ settled' = SettledAs({i}, "taken", settled)
          /\ Report(settled')
     ELSE UNCHANGED <<settled, outbox>>
  /\ UNCHANGED <<dvars, daemonVars, phoneVars, sessionVars, busy, oldbox, replies, lossy>>

(* The user empties pi's queue, which tells no one. *)
PiDrops ==
  /\ stage = "up"
  /\ QueuedByPi # {}
  /\ given' = Dropped
  /\ UNCHANGED <<dvars, daemonVars, phoneVars, sessionVars, busy, trackerVars, boxes, replies, lossy>>

RunOver ==
  /\ stage = "up" /\ busy
  /\ QueuedByPi = {}
  /\ busy' = FALSE
  /\ UNCHANGED <<dvars, daemonVars, phoneVars, sessionVars, given, trackerVars, boxes, replies, lossy>>

(* A look finds pi quiet: what is still queued in the tracker pi dropped. *)
LookLost ==
  /\ stage = "up" /\ ~busy
  /\ queuedIn # {}
  /\ queuedIn' = {}
  /\ settled' = SettledAs(queuedIn, "lost", settled)
  /\ Report(settled')
  /\ UNCHANGED <<dvars, daemonVars, phoneVars, sessionVars, piVars, oldbox, replies, lossy>>

---------------------------------------------------------------------------
(* Reports *)

(* What becomes of a report: the daemon takes it in, or its request fails, *)
(* which the chain goes on after.                                          *)
Sent(report) ==
  \/ /\ Reported(PaneRow, report)
     /\ hasReport' = TRUE
     /\ UNCHANGED <<life, rowFile, silentFile, lossy>>
  \/ /\ lossy' = TRUE
     /\ UNCHANGED <<dvars, daemonVars>>

ReportSent ==
  /\ outbox # <<>>
  /\ Sent(Head(outbox))
  /\ outbox' = Tail(outbox)
  /\ UNCHANGED <<phoneVars, sessionVars, piVars, trackerVars, oldbox, replies>>

(* A session's reports go on after it: no one awaits them. *)
OldReportSent ==
  /\ oldbox # <<>>
  /\ Sent(Head(oldbox))
  /\ oldbox' = Tail(oldbox)
  /\ UNCHANGED <<phoneVars, sessionVars, piVars, trackerVars, outbox, replies>>

---------------------------------------------------------------------------
(* The session's end *)

(* A reload, a new session, or a resume of the same file (f), which carry  *)
(* the row on, or another session, which leaves it (None): the             *)
(* registration stops.                                                     *)
Shutdown(f) ==
  /\ stage = "up"
  /\ switches < SwitchBound
  /\ stage' = "stopping"
  /\ next' = f
  /\ UNCHANGED <<dvars, daemonVars, phoneVars, file, switches, piVars, trackerVars, boxes, replies, lossy>>

(* The row is told that its pane's session ended, and why. *)
Unregister(reason) ==
  /\ Ended(PaneRow, ThePane, reason, TRUE)
  /\ rowFile' = None /\ silentFile' = None
  /\ hasReport' = FALSE
  /\ UNCHANGED life

(* No reply is on its way any more: the stop is done.  A row that is left  *)
(* is told, if the request gets through.                                   *)
Stopped ==
  /\ stage = "stopping"
  /\ replies = <<>>
  /\ stage' = "disposing"
  /\ \/ next = None /\ Unregister("another")
     \/ UNCHANGED <<dvars, daemonVars>>
  /\ UNCHANGED <<phoneVars, file, next, switches, piVars, trackerVars, boxes, replies, lossy>>

(* A mutant: the shutdown reports nothing. *)
NothingLeft(S) == {}

(* The prompts the shutdown reports as lost. *)
LeftQueued(S) == S

(* The tracker's turn, and pi's: what is queued goes with the session.     *)
(* The report of it is awaited; other reports are not.                     *)
Dispose ==
  /\ stage = "disposing"
  /\ busy' = FALSE
  /\ given' = Dropped
  /\ queuedIn' = {}
  /\ settled' = SettledAs(LeftQueued(queuedIn), "lost", settled)
  /\ IF LeftQueued(queuedIn) # {}
     THEN /\ Report(settled')
          /\ stage' = "reporting"
          /\ UNCHANGED oldbox
     ELSE /\ oldbox = <<>>
          /\ oldbox' = outbox
          /\ outbox' = <<>>
          /\ stage' = "between"
  /\ UNCHANGED <<dvars, daemonVars, phoneVars, file, next, switches, replies, lossy>>

DisposedOf ==
  /\ stage = "reporting"
  /\ outbox = <<>>
  /\ stage' = "between"
  /\ UNCHANGED <<dvars, daemonVars, phoneVars, file, next, switches, piVars, trackerVars, boxes, replies, lossy>>

(* The next session starts, with a tracker of its own and a first report;  *)
(* one that left the row goes on elsewhere.                                *)
NextSession ==
  /\ stage = "between"
  /\ file' = next
  /\ stage' = IF next = None THEN "gone" ELSE "up"
  /\ next' = None
  /\ switches' = switches + 1
  /\ settled' = <<>>
  /\ outbox' = IF next = None THEN <<>> ELSE <<<<>>>>
  /\ UNCHANGED <<dvars, daemonVars, phoneVars, piVars, queuedIn, oldbox, replies, lossy>>

(* The user quits, whose unregister may get through, or the pane dies.     *)
(* What was on its way is gone with it.                                    *)
Goes ==
  /\ stage = "up"
  /\ stage' = "gone"
  /\ file' = None
  /\ Unregister("quit") \/ UNCHANGED <<dvars, daemonVars>>
  /\ busy' = FALSE
  /\ given' = Dropped
  /\ queuedIn' = {} /\ settled' = <<>>
  /\ outbox' = <<>> /\ oldbox' = <<>> /\ replies' = <<>>
  /\ UNCHANGED <<phoneVars, next, switches, lossy>>

---------------------------------------------------------------------------
(* The daemon *)

Listed == rowFile # None \/ silentFile # None

(* The row's pane was not heard of for its time, and tmux still has it. *)
FallsSilent ==
  /\ rowFile # None
  /\ Silent(PaneRow)
  /\ rowFile' = None /\ silentFile' = rowFile
  /\ UNCHANGED <<life, hasReport, phoneVars, sessionVars, piVars, trackerVars, boxes, replies, lossy>>

RowEnds ==
  /\ Listed
  /\ Ended(PaneRow, ThePane, "unsaid", TRUE)
  /\ rowFile' = None /\ silentFile' = None
  /\ UNCHANGED <<life, hasReport, sessionVars, piVars, trackerVars, boxes, replies, lossy>>

(* tmux says the pane is gone, and the row is reaped. *)
Reaped ==
  /\ stage = "gone"
  /\ RowEnds
  /\ UNCHANGED phoneVars

(* The unsettled prompts that the pane has taken. *)
Had == {i \in Id : Open(prompts[i]) /\ prompts[i].pane = ThePane}

(* The row ends under a pane that goes on: not heard of for its time, tmux *)
(* unable to say whether it has the pane, or deleted.                      *)
LetGo ==
  /\ stage # "gone"
  /\ life < CalmLife
  /\ RowEnds
  /\ cutOff' = cutOff \cup Had
  /\ UNCHANGED <<sentFor, acceptedIn, givenUp>>

(* Its connections go with it: no reply of its arrives after.  Messages    *)
(* that are being sent back are the pane's.                                *)
DaemonRestarts ==
  /\ life < LifeBound
  /\ life' = life + 1
  /\ Restart
  /\ rowFile' = None /\ silentFile' = None /\ hasReport' = FALSE
  /\ replies' = IF stage = "up" THEN <<>> ELSE replies
  /\ lossy' = (lossy \/ FlattenSeq(replies) # FlattenSeq(replies'))
  /\ UNCHANGED <<phoneVars, sessionVars, piVars, trackerVars, boxes>>

(* Prompt i's outcome has stood for longer than the delivery keeps it.     *)
(* Settled ones are not let grow old: forgetting them tells no one         *)
(* anything.                                                               *)
Ages(i) ==
  /\ Open(prompts[i])
  /\ Count({j \in Id : prompts[j].old}) < AgeBound
  /\ life < CalmLife
  /\ Age(i)
  /\ UNCHANGED <<daemonVars, phoneVars, sessionVars, piVars, trackerVars, boxes, replies, lossy>>

---------------------------------------------------------------------------
Arrives == \E k \in DOMAIN replies, refusing \in SUBSET Id : ReplyArrives(k, refusing)

Resends == \E k \in DOMAIN replies, queued, answered \in BOOLEAN : SendBack(k, queued, answered)

Finishes == \E k \in DOMAIN replies : ReplyDone(k)

(* The reply that holds prompt i arrives. *)
ArrivesWith(i) ==
  \E k \in DOMAIN replies, refusing \in SUBSET Id :
    i \in Range(replies[k]) /\ ReplyArrives(k, refusing)

EmptyArrives == \E k \in DOMAIN replies : replies[k] = <<>> /\ ReplyArrives(k, {})

Next ==
  \/ \E i \in Id : PhoneSends(i) \/ PhoneAsks(i) \/ PiStarts(i) \/ Ages(i)
  \/ Beat \/ BeatElsewhere \/ Arrives \/ WantReport
  \/ Resends \/ Finishes
  \/ \E k \in DOMAIN replies : ReplyLost(k)
  \/ PiDrops \/ RunOver \/ LookLost
  \/ ReportSent \/ OldReportSent
  \/ \E f \in File \cup {None} : Shutdown(f)
  \/ Stopped \/ Dispose \/ DisposedOf \/ NextSession
  \/ Goes
  \/ FallsSilent \/ Reaped \/ LetGo \/ DaemonRestarts

(* The session's end, once begun, goes on to the next session. *)
EndGoesOn == Resends \/ Finishes \/ Stopped \/ Dispose \/ DisposedOf \/ NextSession

(* pi's run ends, or takes up what it queued, and the tracker looks. *)
PiGoesOn == RunOver \/ LookLost \/ (\E i \in Id : PiStarts(i))

(* Heartbeats, every reply and the reports go on, and so do pi and a       *)
(* shutdown once begun; tmux answers of a pane that is gone.  Nothing is   *)
(* assumed of the user or of the phone.                                    *)
Fairness ==
  /\ WF_vars(Beat \/ BeatElsewhere) /\ WF_vars(EmptyArrives) /\ (\A i \in Id : WF_vars(ArrivesWith(i)))
  /\ WF_vars(PiGoesOn) /\ WF_vars(EndGoesOn)
  /\ WF_vars(ReportSent \/ OldReportSent)
  /\ WF_vars(Reaped)

Spec == Init /\ [][Next]_vars /\ Fairness

---------------------------------------------------------------------------
(* Properties *)

(* How many copies of prompt i there are: waiting, on their way, with pi.  *)
Copies(i) ==
  Count({k \in DOMAIN inboxes[PaneRow] : inboxes[PaneRow][k] = i})
  + Count({kj \in (DOMAIN replies) \X (1..InboxBound) :
            kj[2] <= Len(replies[kj[1]]) /\ replies[kj[1]][kj[2]] = i})
  + (IF given[i].by = "no" THEN 0 ELSE 1)

(* However replies, switches, messages sent back and restarts fall, a      *)
(* prompt is never in two places, so that pi is never handed it twice      *)
(* (self-registration.ts, beat).                                           *)
HandedOnce == \A i \in Id : Copies(i) <= 1

(* pi is only handed a prompt in the session it was sent for: one on its   *)
(* way over a switch is refused (outcomes.ts, refusal).                    *)
RightSession == \A i \in Id : given[i].by # "no" => given[i].in = sentFor[i]

HandedRight == HandedOnce /\ RightSession

Starts(i) == given[i].by # "started" /\ given'[i].by = "started"

(* What the phone was told is refused or lost, and so puts back in its     *)
(* composer, pi does not start after that, as long as the daemon that      *)
(* accepted it is the one that answers (delivery.ts, settle).  Left out    *)
(* are the prompts that a pane had taken as the daemon let go of it alive: *)
(* they are said to be lost, and its pi may start them (LetGo).            *)
GivenUpStaysUp ==
  [][\A i \in Id : i \in givenUp \ cutOff /\ acceptedIn[i] = life => ~Starts(i)]_vars

(* Nor does anything else bring back what was settled, and an end leaves   *)
(* nothing unsettled (Delivery).                                           *)
SettledForGood == GivenUpStaysUp /\ EndSettlesAll

(* In time no prompt the daemon accepted is left unsettled, unless the     *)
(* daemon restarted since, or a reply or a report was lost.                *)
Settles ==
  []<>(\A i \in Id : Open(prompts[i]) => acceptedIn[i] # life \/ lossy)
====
