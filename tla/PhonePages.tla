---- MODULE PhonePages ----
(***************************************************************************)
(* The log of a phone's chat, page by page (daemon/remote: transcript.ts,  *)
(* http.ts; web/app.js, web/chat.js): the latest messages of the session's *)
(* active branch, asked for again at each change, and older ones put above *)
(* them as the user scrolls up, while the session grows on the Mac and     *)
(* moves in its tree.                                                      *)
(*                                                                         *)
(* Each entry of the session is a message the phone shows; those it does   *)
(* not show are left out of the tree.  Requests are served in any order,   *)
(* and answered in any.                                                    *)
(***************************************************************************)
EXTENDS Naturals, Sequences, SequencesExt

CONSTANTS
  Limit,         \* messages of a page
  EntryBound,    \* bound: entries of the session
  MoveBound,     \* bound: moves in its tree
  AskBound       \* bound: pages asked for while one is open

VARIABLES
  size, above,   \* the session's entries, and the one each is below, 0 at the root
  leaf,          \* where the session is
  told,          \* where its pane last said it is, 0 for the last entry
  moves,
  chat,          \* the messages shown, whether there are more, whether any were loaded
  request,       \* messagesRequest
  latest,        \* latest pages on their way: for the request, and as served
  older          \* the older page on its way, if any

macVars == <<size, above, leaf, told, moves>>
phoneVars == <<chat, request, latest, older>>
vars == <<macVars, phoneVars>>

Unserved == [messages |-> <<0>>, more |-> FALSE]
NoOlder == [first |-> 0, page |-> Unserved]
Opened == [messages |-> <<>>, more |-> FALSE]

Init ==
  /\ size = 1 /\ above = <<0>> /\ leaf = 1 /\ told = 0 /\ moves = 0
  /\ chat = Opened /\ request = 0 /\ latest = {} /\ older = NoOlder

---------------------------------------------------------------------------
(* The session *)

(* To the entry `to`, or to the file's last when none is named.            *)
ActiveBranch(to) ==
  LET path[e \in 0..size] == IF e = 0 THEN <<>> ELSE Append(path[above[e]], e)
  IN  path[IF to = 0 THEN size ELSE to]

(* A message is added below the leaf. *)
Appends ==
  /\ size < EntryBound
  /\ size' = size + 1 /\ above' = Append(above, leaf) /\ leaf' = size + 1
  /\ UNCHANGED <<told, moves, phoneVars>>

(* /tree *)
Moves(e) ==
  /\ e \in 1..size /\ e # leaf /\ moves < MoveBound
  /\ leaf' = e /\ moves' = moves + 1
  /\ UNCHANGED <<size, above, told, phoneVars>>

(* Its pane registers again, naming the leaf unless it is the last entry;  *)
(* or it has ended, and nothing names one.                                 *)
Tells ==
  /\ told' \in {0, IF leaf = size THEN 0 ELSE leaf} /\ told' # told
  /\ UNCHANGED <<size, above, leaf, moves, phoneVars>>

---------------------------------------------------------------------------
(* The daemon *)

Before(branch, e) == IF e \in ToSet(branch) THEN SubSeq(branch, 1, SelectInSeq(branch, LAMBDA m : m = e) - 1) ELSE <<>>

LastOnes(s, n) == SubSeq(s, IF Len(s) > n THEN Len(s) - n + 1 ELSE 1, Len(s))

(* serveMessages: one past the page tells whether older ones are left. *)
Page(branch) == [messages |-> LastOnes(branch, Limit), more |-> Len(branch) > Limit]

(* A file that cannot be read has no messages. *)
Transcripts == {ActiveBranch(told), <<>>}

ServeLatest(r) ==
  /\ r \in latest /\ r.page = Unserved
  /\ \E branch \in Transcripts :
       latest' = (latest \ {r}) \cup {[r EXCEPT !.page = Page(branch)]}
  /\ UNCHANGED <<macVars, chat, request, older>>

ServeOlder ==
  /\ older # NoOlder /\ older.page = Unserved
  /\ \E branch \in Transcripts :
       older' = [older EXCEPT !.page = Page(Before(branch, older.first))]
  /\ UNCHANGED <<macVars, chat, request, latest>>

---------------------------------------------------------------------------
(* The phone *)

AskLatest ==
  /\ request < AskBound
  /\ request' = request + 1
  /\ latest' = latest \cup {[n |-> request + 1, page |-> Unserved]}
  /\ UNCHANGED <<macVars, chat, older>>

(* applyLatest: what is above the page stays while the page starts among   *)
(* the messages shown.                                                     *)
ApplyLatest(page) ==
  LET at == IF page.messages = <<>> THEN 0 ELSE SelectInSeq(chat.messages, LAMBDA m : m = page.messages[1])
  IN  IF at > 1 THEN [chat EXCEPT !.messages = SubSeq(@, 1, at - 1) \o page.messages] ELSE page

(* loadMessages: the answer to the last request counts; one that fails is  *)
(* not asked again by itself.                                              *)
LatestLands(r) ==
  /\ r \in latest /\ r.page # Unserved
  /\ latest' = latest \ {r}
  /\ chat' = IF r.n = request THEN ApplyLatest(r.page) ELSE chat
  /\ UNCHANGED <<macVars, request, older>>

LatestFails(r) == r \in latest /\ latest' = latest \ {r} /\ UNCHANGED <<macVars, chat, request, older>>

(* The top of the log is in view, as it may be again once one has failed. *)
AskOlder ==
  /\ chat.messages # <<>> /\ chat.more /\ older = NoOlder
  /\ older' = [first |-> chat.messages[1], page |-> Unserved]
  /\ UNCHANGED <<macVars, chat, request, latest>>

(* A mutant: the log is not looked at again. *)
ApplyOlderAnyway(o) == [messages |-> o.page.messages \o chat.messages, more |-> o.page.more]

(* applyOlder: not above a log that starts elsewhere by now. *)
ApplyOlder(o) ==
  IF chat.messages = <<>> \/ chat.messages[1] # o.first THEN chat
  ELSE [messages |-> o.page.messages \o chat.messages, more |-> o.page.more]

OlderLands ==
  /\ older # NoOlder /\ older.page # Unserved
  /\ chat' = ApplyOlder(older)
  /\ older' = NoOlder
  /\ UNCHANGED <<macVars, request, latest>>

OlderFails == older # NoOlder /\ older' = NoOlder /\ UNCHANGED <<macVars, chat, request, latest>>

(* The chat is left and opened again; answers for the one before go        *)
(* nowhere.                                                                *)
Reopens ==
  /\ request > 0
  /\ chat' = Opened /\ request' = 0 /\ latest' = {} /\ older' = NoOlder
  /\ UNCHANGED macVars

---------------------------------------------------------------------------
Next ==
  \/ Appends \/ Tells \/ \E e \in 1..size : Moves(e)
  \/ AskLatest \/ AskOlder \/ ServeOlder \/ OlderLands \/ OlderFails \/ Reopens
  \/ \E r \in latest : ServeLatest(r) \/ LatestLands(r) \/ LatestFails(r)

Spec == Init /\ [][Next]_vars

---------------------------------------------------------------------------
(* Properties *)

(* The log is a piece of one branch with nothing left out, repeated or     *)
(* taken from another, however the session moves while pages are on their  *)
(* way (applyOlder: "not after a refresh that replaced the log meanwhile,  *)
(* as it would be another branch's").                                      *)
OneBranch ==
  \A k \in 1..Len(chat.messages) - 1 : above[chat.messages[k + 1]] = chat.messages[k]
====
