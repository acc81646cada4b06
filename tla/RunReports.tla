---- MODULE RunReports ----
(***************************************************************************)
(* What an orchestrator's runs tell it, from inside each run's pi          *)
(* (ext/subagents: actAsRun in tmux-runs.ts, run-messages.ts; the activity *)
(* of ext/agent-view/self-registration.ts): each start, wait and idle of   *)
(* its pi, and each report of a turn that settled.  SubagentRuns has the   *)
(* orchestrator's side.                                                    *)
(*                                                                         *)
(* Each pi stays on its session.  pi's events come in its order; one       *)
(* dialog is open at a time, and it may be one of the user's own commands. *)
(* A send arrives or is lost, and what a heartbeat of the orchestrator's   *)
(* drains may be lost.  What a run writes in its tools or is typed in it   *)
(* goes beside the chain of its sends, and is left out.                    *)
(***************************************************************************)
EXTENDS Naturals, Sequences

CONSTANTS
  Run,
  TurnBound,    \* bound: turns of each run
  DialogBound,  \* bound: dialogs of each run
  LossBound     \* bound: sends and drained messages that are lost

VARIABLES
  up,        \* the runs whose pi still runs
  turn,      \* how many turns each pi started
  running,   \* whether one goes on
  open,      \* whether a dialog is open in its terminal
  current,   \* the activity its events came to
  told,      \* what it last told, or set out to tell, its orchestrator
  sending,   \* the chain of its sends, the first one on its way
  settled,   \* the settled turns whose report waits for the chain: the turn, and how many sends are before it
  inbox,     \* the orchestrator's messages at the daemon
  heard,     \* the activity the orchestrator shows each run with
  dialogs,   \* how many dialogs each pi opened
  lost       \* the runs a state of which was lost, one entry each

pi == <<turn, running, open, current, dialogs>>
sends == <<told, sending, settled>>
arrived == <<inbox, heard, lost>>
vars == <<up, pi, sends, arrived>>

Activity == {"idle", "working", "awaiting_input"}
State(a) == [kind |-> "activity", activity |-> a]
Report(n) == [kind |-> "report", turn |-> n]
Sent == [kind : {"activity"}, activity : Activity] \cup [kind : {"report"}, turn : 1..TurnBound]

(* The types of a run's pi, its chain of sends and what arrived of it.    *)
TypeOK ==
  /\ up \subseteq Run /\ turn \in [Run -> 0..TurnBound] /\ dialogs \in [Run -> 0..DialogBound]
  /\ running \in [Run -> BOOLEAN] /\ open \in [Run -> BOOLEAN]
  /\ current \in [Run -> Activity] /\ told \in [Run -> Activity \cup {"none"}]
  /\ sending \in [Run -> Seq(Sent)]
  /\ settled \in [Run -> Seq([turn : 1..TurnBound, left : Nat])]
  /\ inbox \in Seq([from : Run, sent : Sent])
  /\ heard \in [Run -> Activity \cup {"none"}] /\ lost \in Seq(Run)

(* Each run's pi was just started; its task is its first turn.            *)
Init ==
  /\ up = Run
  /\ turn = [r \in Run |-> 0] /\ dialogs = [r \in Run |-> 0]
  /\ running = [r \in Run |-> FALSE] /\ open = [r \in Run |-> FALSE]
  /\ current = [r \in Run |-> "idle"]
  /\ told = [r \in Run |-> "none"] /\ heard = [r \in Run |-> "none"]
  /\ sending = [r \in Run |-> <<>>] /\ settled = [r \in Run |-> <<>>]
  /\ inbox = <<>> /\ lost = <<>>

---------------------------------------------------------------------------
(* ForegroundActivity.apply *)

IsBusy(r) == IF running[r] THEN "working" ELSE "idle"

OnStart(r) == IF current[r] = "awaiting_input" THEN current[r] ELSE "working"

(* What it is now is told once: the send joins the chain.                 *)
Tell(r, now) ==
  /\ current' = [current EXCEPT ![r] = now]
  /\ IF now = told[r] THEN UNCHANGED <<told, sending>>
     ELSE /\ told' = [told EXCEPT ![r] = now]
          /\ sending' = [sending EXCEPT ![r] = Append(@, State(now))]

Starts(r) ==
  /\ turn[r] < TurnBound
  /\ turn' = [turn EXCEPT ![r] = @ + 1]
  /\ running' = [running EXCEPT ![r] = TRUE]
  /\ Tell(r, OnStart(r))
  /\ UNCHANGED <<settled, open, dialogs>>

(* session_start: its task, if it was started with one, is its first turn. *)
Task(r) == r \in up /\ turn[r] = 0 /\ Starts(r) /\ UNCHANGED <<up, arrived>>

(* A message of its orchestrator's or a sibling's, or a prompt typed in    *)
(* it; a run that is busy reads it at its next step.                       *)
Prompted(r) == r \in up /\ ~running[r] /\ Starts(r) /\ UNCHANGED <<up, arrived>>

(* ui_prompt_start, of a tool's dialog or of the user's own command.      *)
DialogOpens(r) ==
  /\ r \in up /\ ~open[r] /\ dialogs[r] < DialogBound
  /\ open' = [open EXCEPT ![r] = TRUE]
  /\ dialogs' = [dialogs EXCEPT ![r] = @ + 1]
  /\ Tell(r, "awaiting_input")
  /\ UNCHANGED <<up, turn, running, settled, arrived>>

DialogCloses(r) ==
  /\ r \in up /\ open[r]
  /\ open' = [open EXCEPT ![r] = FALSE]
  /\ Tell(r, IsBusy(r))
  /\ UNCHANGED <<up, turn, running, dialogs, settled, arrived>>

(* agent_settled, by itself or by its orchestrator's stop: idle is told,   *)
(* and the report waits for the chain as it is then.                       *)
Settles(r) ==
  /\ r \in up /\ running[r]
  /\ running' = [running EXCEPT ![r] = FALSE]
  /\ Tell(r, "idle")
  /\ settled' = [settled EXCEPT ![r] = Append(@, [turn |-> turn[r], left |-> Len(sending'[r])])]
  /\ UNCHANGED <<up, turn, open, dialogs, arrived>>

(* Its handler goes on: the turn's report joins the chain.                *)
Reports(r) ==
  /\ r \in up /\ settled[r] # <<>> /\ Head(settled[r]).left = 0
  /\ settled' = [settled EXCEPT ![r] = Tail(@)]
  /\ sending' = [sending EXCEPT ![r] = Append(@, Report(Head(settled[r]).turn))]
  /\ UNCHANGED <<up, pi, told, arrived>>

(* The pi exits, or its pane is hung up: what it had not sent is gone.    *)
Ends(r) ==
  /\ r \in up /\ up' = up \ {r}
  /\ sending' = [sending EXCEPT ![r] = <<>>]
  /\ settled' = [settled EXCEPT ![r] = <<>>]
  /\ UNCHANGED <<pi, told, arrived>>

---------------------------------------------------------------------------
(* On the way *)

Loses(r, sent) ==
  /\ Len(lost) < LossBound
  /\ lost' = IF sent.kind = "activity" THEN Append(lost, r) ELSE lost

(* The send at the head of the chain is answered, or fails: the next one   *)
(* goes out either way.                                                    *)
Sends(r) ==
  /\ r \in up /\ sending[r] # <<>>
  /\ sending' = [sending EXCEPT ![r] = Tail(@)]
  /\ settled' = [settled EXCEPT ![r] =
       [i \in DOMAIN @ |-> [@[i] EXCEPT !.left = IF @ = 0 THEN 0 ELSE @ - 1]]]
  /\ \/ inbox' = Append(inbox, [from |-> r, sent |-> Head(sending[r])]) /\ UNCHANGED lost
     \/ Loses(r, Head(sending[r])) /\ UNCHANGED inbox
  /\ UNCHANGED <<up, pi, told, heard>>

(* A heartbeat of the orchestrator's drains the first message: it is heard *)
(* by the run's listener, or lost with the answer.                         *)
Receives ==
  /\ inbox # <<>>
  /\ inbox' = Tail(inbox)
  /\ LET m == Head(inbox) IN
     \/ /\ heard' = IF m.sent.kind = "activity" THEN [heard EXCEPT ![m.from] = m.sent.activity] ELSE heard
        /\ UNCHANGED lost
     \/ Loses(m.from, m.sent) /\ UNCHANGED heard
  /\ UNCHANGED <<up, pi, sends>>

Next ==
  \/ \E r \in Run :
       \/ Task(r) \/ Prompted(r) \/ DialogOpens(r) \/ DialogCloses(r)
       \/ Settles(r) \/ Reports(r) \/ Ends(r) \/ Sends(r)
  \/ Receives

Spec == Init /\ [][Next]_vars

---------------------------------------------------------------------------
(* Properties *)

Whole(r) == \A i \in DOMAIN lost : lost[i] # r

Quiet(r) ==
  /\ r \in up /\ sending[r] = <<>> /\ settled[r] = <<>>
  /\ \A i \in DOMAIN inbox : inbox[i].from # r

(* Once everything a run sent has come, and no state of it was lost, the   *)
(* orchestrator shows it idle only between its turns, working only during  *)
(* one, and waiting on a prompt only while one is open in its terminal.    *)
HeardTrue ==
  \A r \in Run : Quiet(r) /\ Whole(r) =>
    /\ heard[r] = "idle" => ~running[r]
    /\ heard[r] = "working" => running[r]
    /\ heard[r] = "awaiting_input" => open[r]

(* The report of a turn never finds the orchestrator showing its run busy  *)
(* with that turn: idle came before it, or the run has started another     *)
(* turn, or waits on a dialog, or a state of it was lost.                  *)
IdleFirst ==
  [][\A n \in 1..TurnBound, r \in Run :
       /\ inbox # <<>> /\ Receives /\ Head(inbox) = [from |-> r, sent |-> Report(n)]
       /\ Whole(r) /\ heard[r] = "working"
       => turn[r] > n]_vars
====
