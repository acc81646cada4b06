---- MODULE PhoneList ----
(***************************************************************************)
(* The phone's list of sessions and the chat it opens and leaves           *)
(* (daemon/remote/web/app.js): the list is fetched at every change the     *)
(* daemon tells of, also while an earlier fetch is on its way, and the     *)
(* answers are applied in whatever order they come in; a chat is left when *)
(* its row is deleted from it or is gone from the list; a name             *)
(* given from the phone shows before the pane has taken it; and a pane     *)
(* started from the phone is waited for.                                   *)
(***************************************************************************)
EXTENDS Naturals, FiniteSets, SequencesExt

CONSTANTS
  Row, Name, None,
  AskBound,     \* fetches on their way at once
  ChangeBound,  \* rows listed or deleted, and names given
  ChatBound     \* chats opened

VARIABLES
  label,     \* the daemon's name of each row, None for one not listed
  taking,    \* the name each row's pane is yet to take
  up,        \* the rows that are no longer starting
  gone,      \* the rows deleted: none comes back under its id
  news,      \* the daemon has told of a change the phone has not heard of
  shown,     \* the names the phone shows
  asks,      \* how many fetches are yet to be answered
  answers,   \* the lists on their way back, in the order they were answered: what they bring,
             \* and whether the phone has heard newer since (history)
  chat,      \* the row of the chat open, None without one
  nth,       \* how many chats were opened
  left,      \* the chat that was last left
  backs,     \* steps back asked of the browser
  saving,    \* a name on its way: its row and name
  renamed,   \* a name given from here and shown until the list has it
  starting,  \* the pane started from here: None, "out", or its row
  changes

macVars == <<label, taking, up, gone, news, changes>>
fetchVars == <<asks, answers>>
chatVars == <<chat, nth, left, backs>>
nameVars == <<saving, renamed>>
vars == <<macVars, shown, fetchVars, chatVars, nameVars, starting>>

Nothing == [r \in Row |-> None]
Listed == {r \in Row : label[r] # None}

Init ==
  /\ label = [Nothing EXCEPT ![CHOOSE r \in Row : TRUE] = CHOOSE n \in Name : TRUE]
  /\ taking = Nothing /\ up = Listed /\ gone = {}
  /\ news = FALSE /\ shown = label /\ asks = 0 /\ answers = << >>
  /\ chat = None /\ nth = 0 /\ left = 0 /\ backs = 0
  /\ saving = None /\ renamed = None /\ starting = None /\ changes = 0

Changes == changes < ChangeBound /\ changes' = changes + 1
Asking == asks + Len(answers) < AskBound

(* loadSessions: a fetch of its own, whatever is on its way. *)
Ask == Asking /\ asks' = asks + 1

---------------------------------------------------------------------------
(* The Mac *)

Tells == news' = TRUE

(* A pane takes its new name at its heartbeat, or starts, or a row of its  *)
(* own is listed or deleted there.                                         *)
TakesName(r) ==
  /\ taking[r] # None
  /\ label' = [label EXCEPT ![r] = taking[r]] /\ taking' = [taking EXCEPT ![r] = None]
  /\ Tells /\ UNCHANGED <<up, gone, changes>>

PaneUp(r) ==
  /\ r \in Listed \ up /\ up' = up \cup {r}
  /\ Tells /\ UNCHANGED <<label, taking, gone, changes>>

Lists(r) ==
  /\ r \notin Listed \cup gone
  /\ Changes
  /\ \E n \in Name : label' = [label EXCEPT ![r] = n]
  /\ up' = up \cup {r}
  /\ Tells /\ UNCHANGED <<taking, gone>>

Unlist(r) ==
  /\ label' = [label EXCEPT ![r] = None] /\ taking' = [taking EXCEPT ![r] = None]
  /\ up' = up \ {r} /\ gone' = gone \cup {r}
  /\ Tells

MacGoesOn ==
  /\ \E r \in Row :
       \/ TakesName(r) \/ PaneUp(r) \/ Lists(r)
       \/ r \in Listed /\ Changes /\ Unlist(r)
  /\ UNCHANGED <<shown, fetchVars, chatVars, nameVars, starting>>

(* A fetch is answered with the list as it is. *)
Serves ==
  /\ asks > 0 /\ asks' = asks - 1
  /\ answers' = Append(answers, [names |-> label, up |-> up, late |-> FALSE])
  /\ UNCHANGED <<macVars, shown, chatVars, nameVars, starting>>

---------------------------------------------------------------------------
(* Leaving a chat *)

(* leaveChat: back to the list, once per chat. *)
StepsBack == IF left = nth THEN backs ELSE backs + 1
LeaveChat == backs' = StepsBack /\ left' = nth /\ UNCHANGED <<chat, nth>>

OpenChat(r) == chat' = r /\ nth' = nth + 1 /\ UNCHANGED <<left, backs>>

---------------------------------------------------------------------------
(* The list *)

(* The stream's word that the list changed, or a stream opened again.      *)
Hears ==
  /\ news /\ news' = FALSE /\ Ask
  /\ UNCHANGED <<label, taking, up, gone, changes, shown, answers, chatVars, nameVars, starting>>

(* holdRename: a name given from here shows until the list has it. *)
Held(list) ==
  IF renamed # None /\ list[renamed.id] # None /\ list[renamed.id] # renamed.name
  THEN [held |-> renamed, names |-> [list EXCEPT ![renamed.id] = renamed.name]]
  ELSE [held |-> None, names |-> list]

(* The first n of the lists on their way are older than what the phone has *)
(* heard.                                                                  *)
Late(n) == [m \in DOMAIN answers |-> [answers[m] EXCEPT !.late = @ \/ m <= n]]

(* A fetch is back, before or after those answered earlier: the pane that  *)
(* was waited for opens, unless another screen did, and a chat whose row   *)
(* is not listed is left.                                                  *)
Lands(n) ==
  /\ LET list == answers[n].names
         started == starting \in answers[n].up
     IN  /\ shown' = Held(list).names /\ renamed' = Held(list).held
         /\ starting' = IF started THEN None ELSE starting
         /\ IF started /\ chat = None THEN nth < ChatBound /\ OpenChat(starting)
            ELSE IF chat # None /\ list[chat] = None THEN LeaveChat
            ELSE UNCHANGED chatVars
  /\ answers' = RemoveAt(Late(n), n)
  /\ UNCHANGED <<macVars, asks, saving>>

(* A mutant: a fetch that failed is taken for an empty list. *)
FailsEmpty ==
  /\ asks > 0 /\ asks' = asks - 1
  /\ IF chat # None THEN LeaveChat ELSE UNCHANGED chatVars
  /\ UNCHANGED <<macVars, shown, answers, nameVars, starting>>

(* A fetch fails: the list stays as it is. *)
Fails ==
  /\ asks > 0 /\ asks' = asks - 1
  /\ UNCHANGED <<macVars, shown, answers, chatVars, nameVars, starting>>

---------------------------------------------------------------------------
(* Moving between screens *)

(* A row is tapped, or a notification, which may be of one not fetched     *)
(* yet: the stream opens anew, and with it comes a fetch.                  *)
Opens(r) ==
  /\ chat = None /\ nth < ChatBound
  /\ \/ shown[r] # None /\ UNCHANGED answers
     \/ shown[r] = None /\ label[r] # None /\ answers' = Late(Len(answers))
  /\ OpenChat(r) /\ Ask
  /\ UNCHANGED <<macVars, shown, nameVars, starting>>

(* The browser goes back: from a chat to the list, and from the list out   *)
(* of the app's history.                                                   *)
GoesBack ==
  /\ backs > 0 /\ backs' = backs - 1
  /\ chat' = None
  /\ IF chat # None /\ Asking THEN Ask ELSE UNCHANGED asks
  /\ UNCHANGED <<macVars, shown, answers, nth, left, nameVars, starting>>

---------------------------------------------------------------------------
(* A chat's sheet *)

(* rename: the pane takes the name later; its answer shows it at once.     *)
Renames ==
  /\ chat # None /\ saving = None /\ shown[chat] # None
  /\ \E n \in Name \ {shown[chat]} : saving' = [id |-> chat, name |-> n, there |-> FALSE]
  /\ Changes
  /\ UNCHANGED <<label, taking, up, gone, news, shown, fetchVars, chatVars, renamed, starting>>

RenameArrives ==
  /\ saving # None /\ ~saving.there
  /\ \/ /\ saving.id \in Listed
        /\ taking' = [taking EXCEPT ![saving.id] = saving.name]
        /\ saving' = [saving EXCEPT !.there = TRUE]
     \/ saving' = None /\ UNCHANGED taking
  /\ UNCHANGED <<label, up, gone, news, changes, shown, fetchVars, chatVars, renamed, starting>>

RenameAnswered ==
  /\ saving # None /\ saving.there
  /\ saving' = None
  /\ LET given == [id |-> saving.id, name |-> saving.name]
         differs == shown[given.id] \notin {None, given.name}
     IN  /\ renamed' = IF differs THEN given ELSE None
         /\ shown' = IF differs THEN [shown EXCEPT ![given.id] = given.name] ELSE shown
  /\ UNCHANGED <<macVars, fetchVars, chatVars, starting>>

(* A name nobody took by then is let go with the next list. *)
HoldEnds ==
  /\ renamed # None /\ renamed' = None
  /\ UNCHANGED <<macVars, shown, fetchVars, chatVars, saving, starting>>

(* deleteSession: refused for a row that runs; answered, the chat is left. *)
Deletes ==
  /\ chat \in Listed
  /\ Changes /\ Unlist(chat)
  /\ LeaveChat
  /\ UNCHANGED <<shown, fetchVars, nameVars, starting>>

---------------------------------------------------------------------------
(* A pane started from the list *)

StartsPane ==
  /\ chat = None /\ starting = None
  /\ starting' = "out"
  /\ UNCHANGED <<macVars, shown, fetchVars, chatVars, nameVars>>

(* The row is listed as starting before its id is answered. *)
StartAnswered ==
  /\ starting = "out"
  /\ \/ /\ \E r \in Row \ (Listed \cup gone), n \in Name :
             /\ label' = [label EXCEPT ![r] = n] /\ starting' = r
        /\ Changes /\ Tells /\ Ask
        /\ UNCHANGED <<taking, up, gone>>
     \/ starting' = None /\ UNCHANGED <<macVars, asks>>
  /\ UNCHANGED <<shown, answers, chatVars, nameVars>>

StartTimesOut ==
  /\ starting \in Row /\ starting' = None
  /\ UNCHANGED <<macVars, shown, fetchVars, chatVars, nameVars>>

Next ==
  \/ MacGoesOn \/ Hears
  \/ Serves \/ Fails
  \/ \E n \in DOMAIN answers : Lands(n)
  \/ \E r \in Row : Opens(r)
  \/ GoesBack \/ Renames \/ RenameArrives \/ RenameAnswered \/ HoldEnds \/ Deletes
  \/ StartsPane \/ StartAnswered \/ StartTimesOut

Spec == Init /\ [][Next]_vars

---------------------------------------------------------------------------
(* Properties *)

(* The list that comes in was answered before another that is in already,  *)
(* or before the notification that opened a chat.                          *)
OutOfDate == \E n \in DOMAIN answers : answers[n].late /\ answers' = RemoveAt(answers, n)

(* A chat is left for the list only once its row was deleted: "a chat      *)
(* whose row is not listed was deleted" (loadSessions).  Left out is the   *)
(* chat that a list out of date leaves though its row is there.            *)
LeftMeansGone == [][left' # left /\ ~OutOfDate => label'[chat] = None]_vars

(* However many ways out of a chat there are at once, a deletion here and  *)
(* lists that lack its row, one step back is taken (leaveChat).            *)
OneStepBack == backs <= 1 /\ (backs = 1 => chat # None)

(* A name given from the phone stays on its screen, whatever lists from    *)
(* before the pane took it come in, while it is held (holdRename).         *)
NameStays ==
  [][renamed # None /\ renamed' # None /\ renamed'.id = renamed.id
       => shown'[renamed.id] \in {renamed'.name, None}]_vars
====
