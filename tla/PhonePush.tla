---- MODULE PhonePush ----
(***************************************************************************)
(* Pushes to a phone that does not show the app (daemon/remote/notifier.ts *)
(* and control.ts, notify; the subscriptions of pairing.ts and http.ts;    *)
(* the phone's enablePush in app.js).                                      *)
(*                                                                         *)
(* Every second the daemon looks at the sessions, and pushes those that    *)
(* stopped working or came to ask since the look before.  A push goes to   *)
(* an endpoint of the push service, whose answer comes later: the phone    *)
(* may have subscribed again by then, at another endpoint.                 *)
(*                                                                         *)
(* A session has a row while a pane runs it and after, a stored one.       *)
(***************************************************************************)
EXTENDS Naturals, FiniteSets

CONSTANTS
  Session,
  Endpoint,     \* what the push service gives a phone, once each
  None,
  SettleBound   \* times a session stops working

VARIABLES
  rows,       \* what the daemon lists of each session, None when it is not listed
  last,       \* what the latest look saw of each, None of one it did not see
  looked,     \* there was a look since the notifier was made
  push,       \* the phone's subscription in remote.json
  sent,       \* the pushes whose answer is not in: the session and endpoint of each
  present,    \* the phone has a stream open
  browser,    \* the phone's own subscription
  dead,       \* endpoints the push service no longer has
  used,       \* endpoints given so far
  enabling,   \* how far the phone is with subscribing
  news,       \* the sessions that stopped working since the latest look
  told,       \* those the latest look pushed
  ended       \* those whose pane ended since the latest look, or was over by then

rowVars == <<rows, news, ended>>
lookVars == <<last, looked, told>>
subVars == <<push, browser, dead, used, enabling>>
vars == <<rowVars, lookVars, subVars, sent, present>>

States == {"working", "needs", "idle"}

(* A pane's row counts how often its pi stopped working; a stored row has  *)
(* no count.                                                               *)
Row == [state : States, settled : 0..SettleBound] \cup [state : {"idle"}, settled : {None}]

(* The types of the rows, the subscriptions and the pushes on their way.   *)
TypeOK ==
  /\ rows \in [Session -> Row \cup {None}] /\ last \in [Session -> Row \cup {None}]
  /\ looked \in BOOLEAN /\ present \in BOOLEAN
  /\ {push, browser} \subseteq Endpoint \cup {None}
  /\ sent \subseteq [session : Session, endpoint : Endpoint]
  /\ dead \subseteq used /\ used \subseteq Endpoint
  /\ enabling \in {"no", "asked", "gone", "given"}
  /\ news \cup told \cup ended \subseteq Session

Init ==
  /\ rows = [s \in Session |-> None]
  /\ last = rows /\ looked = FALSE
  /\ push = None /\ sent = {} /\ present = FALSE
  /\ browser = None /\ dead = {} /\ used = {} /\ enabling = "no"
  /\ news = {} /\ told = {} /\ ended = {}

---------------------------------------------------------------------------
(* The sessions *)

Runs(s) == rows[s] # None /\ rows[s].settled # None

(* A pane registers: a new row, or one that was stored. *)
Registers(s) ==
  /\ ~Runs(s)
  /\ rows' = [rows EXCEPT ![s] = [state |-> "idle", settled |-> 0]]
  /\ UNCHANGED <<news, ended, lookVars, subVars, sent, present>>

Starts(s) ==
  /\ Runs(s) /\ rows[s].state # "working"
  /\ rows' = [rows EXCEPT ![s].state = "working"]
  /\ UNCHANGED <<news, ended, lookVars, subVars, sent, present>>

(* It stops working, or waits on a dialog: counted either way. *)
Stops(s, state) ==
  /\ Runs(s) /\ rows[s].state = "working" /\ rows[s].settled < SettleBound
  /\ rows' = [rows EXCEPT ![s] = [state |-> state, settled |-> @.settled + 1]]
  /\ news' = news \cup {s}
  /\ UNCHANGED <<ended, lookVars, subVars, sent, present>>

(* A dialog without a turn, and its answer. *)
Asks(s) ==
  /\ Runs(s) /\ rows[s].state # "working"
  /\ \E state \in {"needs", "idle"} \ {rows[s].state} : rows' = [rows EXCEPT ![s].state = state]
  /\ UNCHANGED <<news, ended, lookVars, subVars, sent, present>>

(* The pane ends: its row is stored, or gone. *)
Ends(s) ==
  /\ Runs(s)
  /\ \E row \in {[state |-> "idle", settled |-> None], None} : rows' = [rows EXCEPT ![s] = row]
  /\ ended' = ended \cup {s}
  /\ UNCHANGED <<news, lookVars, subVars, sent, present>>

---------------------------------------------------------------------------
(* The daemon's look *)

(* It stopped since the latest look, by the daemon's count.  A stored row  *)
(* had no count, so a first count after one says nothing.                  *)
StoppedSince(s) ==
  LET count(row) == IF row.settled = None THEN 0 ELSE row.settled
  IN  IF last[s] = None THEN looked /\ count(rows[s]) > 0
      ELSE last[s].settled # None /\ count(rows[s]) > last[s].settled

IsNews(s) ==
  /\ rows[s] # None /\ rows[s].state # "working"
  /\ \/ last[s] # None /\ last[s].state = "working"
     \/ rows[s].state = "needs" /\ last[s] # None /\ last[s].state # "needs"
     \/ StoppedSince(s)

(* With no phone subscribed there is no notifier, and a look does nothing; *)
(* else every news is pushed, but not to a phone with the app open.        *)
Look ==
  IF push = None
  THEN /\ looked' = FALSE /\ last' = [s \in Session |-> None]
       /\ told' = {} /\ news' = {} /\ ended' = {}
       /\ UNCHANGED <<rows, subVars, sent, present>>
  ELSE /\ last' = rows /\ looked' = TRUE
       /\ told' = {s \in Session : IsNews(s)}
       /\ sent' = sent \cup (IF present THEN {} ELSE [session : told', endpoint : {push}])
       /\ news' = {}
       /\ ended' = {s \in Session : rows[s] # None /\ ~Runs(s)}
       /\ UNCHANGED <<rows, subVars, present>>

(* Only the subscription the push was for goes. *)
AfterGone(endpoint) == IF push = endpoint THEN None ELSE push

(* The push service's answer: it has the phone's endpoint no longer, or    *)
(* the push went out or failed.                                            *)
Answered(p) ==
  /\ sent' = sent \ {p}
  /\ push' = IF p.endpoint \in dead THEN AfterGone(p.endpoint) ELSE push
  /\ UNCHANGED <<rowVars, lookVars, browser, dead, used, enabling, present>>

---------------------------------------------------------------------------
(* The phone *)

(* The app comes to the front or is hidden, and its stream with it. *)
Shows ==
  /\ present' = ~present
  /\ UNCHANGED <<rowVars, lookVars, subVars, sent>>

(* The permission is asked for, and the Mac's key. *)
Enables ==
  /\ enabling = "no"
  /\ enabling' = "asked"
  /\ UNCHANGED <<rowVars, lookVars, push, browser, dead, used, sent, present>>

(* A subscription made before is ended, at the push service and then at    *)
(* the Mac.                                                                *)
Unsubscribes ==
  /\ enabling = "asked" /\ browser # None
  /\ browser' = None /\ dead' = dead \cup {browser}
  /\ enabling' = "gone"
  /\ UNCHANGED <<rowVars, lookVars, push, used, sent, present>>

MacForgets ==
  /\ enabling = "gone"
  /\ push' = None
  /\ enabling' = "asked"
  /\ UNCHANGED <<rowVars, lookVars, browser, dead, used, sent, present>>

Subscribes ==
  /\ enabling = "asked" /\ browser = None
  /\ \E e \in Endpoint \ used : browser' = e /\ used' = used \cup {e}
  /\ enabling' = "given"
  /\ UNCHANGED <<rowVars, lookVars, push, dead, sent, present>>

MacKeeps ==
  /\ enabling = "given"
  /\ push' = browser
  /\ enabling' = "no"
  /\ UNCHANGED <<rowVars, lookVars, browser, dead, used, sent, present>>

(* A step of it fails: the phone may start over. *)
EnableFails ==
  /\ enabling # "no"
  /\ enabling' = "no"
  /\ UNCHANGED <<rowVars, lookVars, push, browser, dead, used, sent, present>>

Next ==
  \/ \E s \in Session :
       \/ Registers(s) \/ Starts(s) \/ Asks(s) \/ Ends(s)
       \/ \E state \in {"needs", "idle"} : Stops(s, state)
  \/ Look
  \/ \E p \in sent : Answered(p)
  \/ Shows \/ Enables \/ Unsubscribes \/ MacForgets \/ Subscribes \/ MacKeeps \/ EnableFails

Spec == Init /\ [][Next]_vars

---------------------------------------------------------------------------
(* Properties *)

(* A look pushes each session that stopped working since the look before,  *)
(* or came to ask, if it still waits, however quick its turn was, and no   *)
(* other (notifier.ts, observe).  Only of a session whose pane was over at *)
(* the look before, or ended since, is this not said: the count begins     *)
(* anew with each pane.                                                    *)
NewsPushed ==
  [][ looked /\ push # None /\ Look =>
        \A s \in Session \ ended :
          s \in told' <=>
            \/ s \in news /\ rows[s].state # "working"
            \/ rows[s] # None /\ rows[s].state = "needs" /\ last[s] # None /\ last[s].state # "needs" ]_vars

(* A subscription the phone made and the push service still has is what    *)
(* remote.json holds, from when the Mac has it: a late answer about an     *)
(* earlier one does not drop it (control.ts, notify).                      *)
SubscriptionKept ==
  [][ push # None /\ push \notin dead => push' = push \/ push \in dead' ]_vars
====
