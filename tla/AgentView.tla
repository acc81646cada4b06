---- MODULE AgentView ----
(***************************************************************************)
(* Agent view: the list of sessions in a terminal, and what its keys do to *)
(* them while lists come in and requests are answered                      *)
(* (ext/agent-view/agent-view.ts and row-actions.ts).                      *)
(*                                                                         *)
(* Rows are listed in the order of their numbers, all in one band that is  *)
(* neither filtered nor folded.  A row is a session with a pane ("live")   *)
(* or without ("stopped"); one that is gone never comes back.  What is     *)
(* typed for a row is a text named by the row.                             *)
(***************************************************************************)
EXTENDS Naturals, Sequences, FiniteSets, FiniteSetsExt, SequencesExt

CONSTANTS
  Rows,   \* rows there may be
  Keys    \* what the user does besides moving: some of "reply", "stop", "open"

Row == 1..Rows
OpenBound == 2   \* starts of one row's pane that may be under way

VARIABLES
  session,    \* each row as the daemon has it: "live", "stopped" or "gone"
  instances,  \* the rows of the view's list, as it has them
  asked,      \* a list is on its way: "no", "asked" or "answered"
  answer,     \* the list answered
  deleted,    \* the rows deleted here
  since,      \* those of them since it was asked for
  deleting,   \* rows whose delete is under way
  selected,   \* the row in focus, 0 without one
  lastIndex,
  armed,      \* the row a ctrl+x armed, 0 without one
  mode,       \* "list", "peek" or "rename"
  renameFrom,
  reply,      \* the text in the peek's reply box, 0 for none
  drafts,     \* each row's draft
  replying,   \* the row a reply is being sent to, 0 without one
  opening,    \* the row being opened, 0 without one
  opens,      \* starts of a pane under way for opens of each row
  left        \* the terminal shows another pane: the view is closed

listVars == <<instances, asked, answer, deleted, since, deleting>>
focusVars == <<selected, lastIndex, armed, mode, renameFrom>>
replyVars == <<reply, drafts, replying>>
openVars == <<opening, opens, left>>
vars == <<session, listVars, focusVars, replyVars, openVars>>

Listed(rows) == {r \in Row : rows[r] \in {"live", "stopped"}}
Items(rows, hidden) == SetToSortSeq(Listed(rows) \ hidden, <)
items == Items(instances, deleting)
NoList == [r \in Row |-> "gone"]
IndexIn(r, of) == CHOOSE i \in DOMAIN of : of[i] = r

(* The types of the view's state. *)
TypeOK ==
  /\ session \in [Row -> {"live", "stopped", "gone"}]
  /\ instances \in [Row -> {"live", "stopped", "gone"}]
  /\ asked \in {"no", "asked", "answered"}
  /\ deleting \cup deleted \cup since \subseteq Row /\ opens \in [Row -> 0..OpenBound]
  /\ {selected, armed, reply, replying, opening} \subseteq 0..Rows
  /\ mode \in {"list", "peek", "rename"} /\ renameFrom \in {"list", "peek"}

Init ==
  /\ session \in [Row -> {"live", "stopped"}]
  /\ instances = session
  /\ asked = "no" /\ answer = NoList /\ deleted = {} /\ since = {} /\ deleting = {}
  /\ selected = 1 /\ lastIndex = 1 /\ armed = 0 /\ mode = "list" /\ renameFrom = "list"
  /\ reply = 0 /\ drafts = [r \in Row |-> 0] /\ replying = 0
  /\ opening = 0 /\ opens = [r \in Row |-> 0] /\ left = FALSE

---------------------------------------------------------------------------
(* The sessions, whatever this view does *)

SessionGoesOn(r) ==
  /\ \/ session[r] = "live" /\ session' = [session EXCEPT ![r] = "stopped"]
     \/ session[r] \in {"live", "stopped"} /\ session' = [session EXCEPT ![r] = "gone"]
  /\ ~left
  /\ UNCHANGED <<listVars, focusVars, replyVars, openVars>>

---------------------------------------------------------------------------
(* The list *)

(* A peek or a rename of a row that went away ends. *)
ModeAfter(now, is) ==
  IF ~Contains(now, selected) /\ is \in {"peek", "rename"} THEN "list" ELSE is

(* recompute in mode `is`: the items become `now`; a focused row that went *)
(* away leaves the focus to its neighbour.                                 *)
Recompute(now, is) ==
  /\ mode' = ModeAfter(now, is)
  /\ IF Contains(now, selected)
     THEN UNCHANGED selected /\ lastIndex' = IndexIn(selected, now)
     ELSE /\ selected' = IF now = <<>> THEN 0 ELSE now[IF lastIndex < Len(now) THEN lastIndex ELSE Len(now)]
          /\ UNCHANGED lastIndex

(* load: a list is asked for, answered, and comes in. *)
Asks ==
  /\ asked = "no" /\ ~left
  /\ asked' = "asked" /\ since' = {}
  /\ UNCHANGED <<session, instances, answer, deleted, deleting, focusVars, replyVars, openVars>>

Answers ==
  /\ asked = "asked"
  /\ asked' = "answered" /\ answer' = session
  /\ UNCHANGED <<session, instances, deleted, since, deleting, focusVars, replyVars, openVars>>

(* A list asked for before a delete landed still has its row. *)
WithoutDeleted(list) == [r \in Row |-> IF r \in since THEN "gone" ELSE list[r]]

Lands ==
  /\ asked = "answered" /\ ~left
  /\ asked' = "no" /\ answer' = NoList /\ since' = {}
  /\ instances' = WithoutDeleted(answer)
  /\ Recompute(Items(instances', deleting), mode)
  /\ UNCHANGED <<session, deleted, deleting, armed, renameFrom, replyVars, openVars>>

---------------------------------------------------------------------------
(* The focus, and a peek's reply *)

Selected == ~left /\ opening = 0 /\ Contains(items, selected)

(* What is typed is kept as the draft of the row in focus. *)
Saved == [drafts EXCEPT ![selected] = reply]

Focus(r) ==
  /\ Selected /\ mode # "rename" /\ Contains(items, r) /\ r # selected
  /\ armed' = 0 /\ selected' = r /\ lastIndex' = IndexIn(r, items)
  /\ drafts' = Saved /\ reply' = Saved[r]
  /\ UNCHANGED <<session, listVars, mode, renameFrom, replying, openVars>>

OpenPeek ==
  /\ Selected /\ mode = "list"
  /\ mode' = "peek" /\ reply' = drafts[selected]
  /\ UNCHANGED <<session, listVars, selected, lastIndex, armed, renameFrom, drafts, replying, openVars>>

ClosePeek ==
  /\ Selected /\ mode = "peek"
  /\ mode' = "list" /\ drafts' = Saved
  /\ UNCHANGED <<session, listVars, selected, lastIndex, armed, renameFrom, reply, replying, openVars>>

(* A reply is typed; what the box held goes with it. *)
Type ==
  /\ "reply" \in Keys /\ Selected /\ mode = "peek" /\ reply = 0
  /\ reply' = selected
  /\ UNCHANGED <<session, listVars, focusVars, drafts, replying, openVars>>

SendReply ==
  /\ Selected /\ mode = "peek" /\ reply # 0 /\ replying = 0
  /\ drafts' = Saved /\ replying' = selected
  /\ UNCHANGED <<session, listVars, focusVars, reply, openVars>>

(* It was sent, and the reply box is emptied; or it was not. *)
ReplyEnds ==
  /\ replying # 0 /\ ~left
  /\ replying' = 0
  /\ \/ reply' = 0 /\ drafts' = [drafts EXCEPT ![replying] = 0]
     \/ UNCHANGED <<reply, drafts>>
  /\ UNCHANGED <<session, listVars, focusVars, openVars>>

StartRename ==
  /\ Selected /\ mode # "rename"
  /\ mode' = "rename" /\ renameFrom' = mode
  /\ UNCHANGED <<session, listVars, selected, lastIndex, armed, replyVars, openVars>>

(* The name goes to the row in focus, or the rename is given up. *)
EndRename ==
  /\ mode = "rename" /\ ~left
  /\ mode' = renameFrom /\ renameFrom' = "list"
  /\ UNCHANGED <<session, listVars, selected, lastIndex, armed, replyVars, openVars>>

---------------------------------------------------------------------------
(* ctrl+x: stop, then delete *)

Disarmed ==
  /\ armed # 0 /\ armed' = 0
  /\ UNCHANGED <<session, listVars, selected, lastIndex, mode, renameFrom, replyVars, openVars>>

(* A mutant: the press is for whichever row has the focus now. *)
NeverStray == FALSE

(* The armed row went away: the press meant it. *)
Stray == armed # 0 /\ ~Contains(items, armed)

(* The first press: a live session's pi ends, and its row stays. *)
Stop ==
  /\ "stop" \in Keys /\ Selected /\ mode # "rename" /\ ~Stray /\ armed # selected
  /\ armed' = selected
  /\ session' = IF instances[selected] = "live" /\ session[selected] = "live"
                THEN [session EXCEPT ![selected] = "stopped"] ELSE session
  /\ UNCHANGED <<listVars, selected, lastIndex, mode, renameFrom, replyVars, openVars>>

(* The second: the row leaves the list at once, and the daemon is asked.   *)
Delete ==
  /\ Selected /\ mode # "rename" /\ ~Stray /\ armed = selected
  /\ armed' = 0
  /\ deleting' = deleting \cup {selected}
  /\ Recompute(Items(instances, deleting'), mode)
  /\ UNCHANGED <<session, instances, asked, answer, deleted, since, renameFrom, replyVars, openVars>>

StrayPress == Stray /\ mode # "rename" /\ opening = 0 /\ Disarmed /\ ~left

(* The delete lands, and a peek at any row is closed; or it fails, and the  *)
(* row is back.                                                            *)
DeleteEnds(r) ==
  /\ r \in deleting /\ ~left
  /\ deleting' = deleting \ {r}
  /\ \/ /\ session' = [session EXCEPT ![r] = "gone"]
        /\ instances' = [instances EXCEPT ![r] = "gone"]
        /\ deleted' = deleted \cup {r}
        /\ since' = IF asked = "no" THEN since ELSE since \cup {r}
        /\ Recompute(Items(instances', deleting'), IF mode = "peek" THEN "list" ELSE mode)
     \/ UNCHANGED <<session, instances, deleted, since, selected, lastIndex, mode>>
  /\ UNCHANGED <<asked, answer, armed, renameFrom, replyVars, openVars>>

---------------------------------------------------------------------------
(* Opening a row: its pane, or a pane started on it *)

Open ==
  /\ "open" \in Keys /\ Selected /\ mode # "rename"
  /\ IF instances[selected] = "live"
     THEN left' = TRUE /\ UNCHANGED <<opening, opens>>
     ELSE /\ opens[selected] < OpenBound
          /\ opening' = selected /\ opens' = [opens EXCEPT ![selected] = @ + 1]
          /\ UNCHANGED left
  /\ UNCHANGED <<session, listVars, focusVars, replyVars>>

CancelOpen ==
  /\ opening # 0 /\ ~left
  /\ opening' = 0
  /\ UNCHANGED <<session, listVars, focusVars, replyVars, opens, left>>

StillOpening(r) == opening = r

(* The pane is started, and shown unless the open was called off; or it    *)
(* could not be: another window's pane, or an earlier open, has it.        *)
Opened(r) ==
  /\ opens[r] > 0 /\ ~left
  /\ opens' = [opens EXCEPT ![r] = @ - 1]
  /\ opening' = IF opening = r THEN 0 ELSE opening
  /\ \/ session[r] # "gone" /\ left' = StillOpening(r)
     \/ UNCHANGED left
  /\ UNCHANGED <<session, listVars, focusVars, replyVars>>

Next ==
  \/ \E r \in Row : SessionGoesOn(r) \/ Focus(r) \/ DeleteEnds(r) \/ Opened(r)
  \/ Asks \/ Answers \/ Lands
  \/ OpenPeek \/ ClosePeek \/ Type \/ SendReply \/ ReplyEnds \/ StartRename \/ EndRename
  \/ Disarmed \/ Stop \/ Delete \/ StrayPress \/ Open \/ CancelOpen

Spec == Init /\ [][Next]_vars

---------------------------------------------------------------------------
(* Properties *)

(* A row whose delete landed is not in the list again, whatever list was   *)
(* on its way (load, forget).                                              *)
DeletedGone == deleted \cap Listed(instances) = {}

(* What is typed in a peek's reply box stays with the row it was typed for, *)
(* over moves, lists and replies on their way (focus, sendReply).  Left out *)
(* is what was typed for a row that went away: the next move gives it to    *)
(* the row that took the focus (recompute).                                 *)
RepliesMeant ==
  LET meant(text, r) == text \in {0, r} \/ text \notin Listed(instances)
  IN  (\A r \in Row : meant(drafts[r], r)) /\ (mode = "peek" => meant(reply, selected))

(* While a row is armed, ctrl+x stops and deletes no other                 *)
(* (stopOrDelete).                                                         *)
NoOtherStopped == [][armed # 0 /\ armed' # 0 => armed' = armed]_vars

(* A rename ends on the row it began on, whatever list came in meanwhile   *)
(* (recompute).                                                            *)
RenamesMeant == [][mode = "rename" /\ mode' = "rename" => selected' = selected]_vars

(* The terminal leaves for no pane whose open was called off               *)
(* (RowActions.open).                                                      *)
LeavesMeant == [][left' /\ ~left => \A r \in Row : opens'[r] < opens[r] => opening = r]_vars
====
