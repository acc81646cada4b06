---- MODULE Delivery ----
(***************************************************************************)
(* The daemon's PromptDelivery (daemon/remote/delivery.ts): each row's     *)
(* inbox of messages for its live pane's pi, and what became of each       *)
(* prompt or slash command a phone sent with an id.                        *)
(*                                                                         *)
(* Time is one bit per prompt, `old`: its outcome has stood for longer     *)
(* than DELIVERY_KEEP_MS.  A prompt's text is left out, and a refused or   *)
(* lost one's reason too: the outcome says which it is.                    *)
(***************************************************************************)
EXTENDS Naturals, Sequences

CONSTANTS
  Id,          \* the ids phones give their prompts and slash commands
  Note,        \* messages that carry no id (an abort, a rename, a phone's model switch)
  Row,
  Pane,
  None,
  InboxBound   \* an inbox is given no more messages than this

ASSUME NoneAssumption == None \notin Row \cup Pane
ASSUME BoundAssumption == InboxBound \in Nat
ASSUME MessageAssumption == Id \cap Note = {}

VARIABLES
  prompts,     \* each id's delivery
  inboxes      \* each row's messages, oldest first

dvars == <<prompts, inboxes>>

Message == Id \cup Note

(* Why a session ended: a quit, another session taken up in its place      *)
(* (new, resume and fork), or the pane said nothing.                       *)
EndReason == {"quit", "another", "unsaid"}

Unsettled == {"sent", "queued"}

Settled == {"taken", "refused", "lost"}

(* What a pane's report may say of a prompt. *)
Reportable == {"queued"} \cup Settled

DeliveryRecord ==
  [outcome : {"unknown"} \cup Unsettled \cup Settled,
   row : Row \cup {None}, pane : Pane \cup {None}, old : BOOLEAN]

NoDelivery == [outcome |-> "unknown", row |-> None, pane |-> None, old |-> FALSE]

Open(d) == d.outcome \in Unsettled

(* The types of both maps: an outcome delivery.ts has, of a row's prompt,  *)
(* and messages in the inboxes.                                            *)
TypeOK ==
  /\ prompts \in [Id -> DeliveryRecord]
  /\ inboxes \in [Row -> Seq(Message)]

DInit ==
  /\ prompts = [i \in Id |-> NoDelivery]
  /\ inboxes = [r \in Row |-> <<>>]

---------------------------------------------------------------------------
(* What each operation leaves of the prompts ps and of the inboxes ib *)

InInbox(ib, i, r) == \E k \in 1..Len(ib[r]) : ib[r][k] = i

Emptied(ib, r) == [ib EXCEPT ![r] = <<>>]

(* A mutant: a queued prompt is let go with the others. *)
PrunedQueuedToo(ps) == [i \in Id |-> IF ps[i].old THEN NoDelivery ELSE ps[i]]

(* A queued prompt waits on the turn ahead of it, however long that runs. *)
Pruned(ps) ==
  [i \in Id |-> IF ps[i].old /\ ps[i].outcome # "queued" THEN NoDelivery ELSE ps[i]]

(* The unsettled prompts of row r in S, as their pane's going leaves them. *)
SettledBy(ps, r, S, reason) ==
  [i \in Id |->
    IF ps[i].row = r /\ Open(ps[i]) /\ i \in S
    THEN [outcome |-> IF reason = "another" THEN "refused" ELSE "lost",
          row |-> r, pane |-> None, old |-> FALSE]
    ELSE ps[i]]

InboxIds(ib, r) == {i \in Id : InInbox(ib, i, r)}

GivenTo(ps, p) == {i \in Id : ps[i].pane = p}

AfterQueue(ps, r, m) ==
  [i \in Id |-> IF i = m THEN [outcome |-> "sent", row |-> r, pane |-> None, old |-> FALSE]
                ELSE Pruned(ps)[i]]

AfterTake(ps, ib, r, p) ==
  [i \in Id |-> IF InInbox(ib, i, r) /\ ps[i].outcome # "unknown"
                THEN [ps[i] EXCEPT !.pane = p] ELSE ps[i]]

(* A mutant: a report is taken for a settled prompt too. *)
ReportedAnyway(ps, r, os) ==
  [i \in Id |->
    IF i \in DOMAIN os /\ ps[i].row = r
    THEN [outcome |-> os[i], row |-> r, pane |-> ps[i].pane, old |-> FALSE]
    ELSE ps[i]]

AfterReport(ps, r, os) ==
  [i \in Id |->
    IF i \in DOMAIN os /\ ps[i].row = r /\ Open(ps[i]) /\ ps[i].outcome # os[i]
    THEN [outcome |-> os[i], row |-> r, pane |-> ps[i].pane, old |-> FALSE]
    ELSE ps[i]]

AfterEnded(ps, ib, r, p, reason, inbox) ==
  SettledBy(ps, r, (IF inbox THEN InboxIds(ib, r) ELSE {}) \cup GivenTo(ps, p), reason)

(* A mutant: a silent pane's inbox is emptied and nothing settled. *)
SilentUnsettled(ps, ib, r) == ps

(* A mutant: what the silent pane was given is settled too. *)
SilentGivenToo(ps, ib, r) ==
  SettledBy(ps, r, InboxIds(ib, r) \cup {i \in Id : ps[i].pane # None}, "unsaid")

AfterSilent(ps, ib, r) == SettledBy(ps, r, InboxIds(ib, r), "unsaid")

---------------------------------------------------------------------------
(* Operations *)

(* A message goes into a row's inbox; one with an id is tracked from here. *)
Queue(r, m) ==
  /\ Len(inboxes[r]) < InboxBound
  /\ inboxes' = [inboxes EXCEPT ![r] = Append(@, m)]
  /\ prompts' = AfterQueue(prompts, r, m)

(* Pane p's heartbeat takes all that waits in row r's inbox. *)
Take(r, p) ==
  /\ inboxes' = Emptied(inboxes, r)
  /\ prompts' = AfterTake(prompts, inboxes, r, p)

(* What row r's pane reports of the prompts in os, a function from ids.  *)
Reported(r, os) ==
  /\ prompts' = AfterReport(prompts, r, os)
  /\ UNCHANGED inboxes

(* Pane p, listed as row r or held by it, ended.  What it was given goes   *)
(* with it, and what the inbox holds too when it was the row's pane.       *)
Ended(r, p, reason, inbox) ==
  /\ inboxes' = IF inbox THEN Emptied(inboxes, r) ELSE inboxes
  /\ prompts' = AfterEnded(prompts, inboxes, r, p, reason, inbox)

(* Row r's pane fell silent: only what its inbox holds is lost. *)
Silent(r) ==
  /\ prompts' = AfterSilent(prompts, inboxes, r)
  /\ inboxes' = Emptied(inboxes, r)

(* A phone or the daemon asks for outcomes: the old ones are let go. *)
Ask ==
  /\ prompts' = Pruned(prompts)
  /\ UNCHANGED inboxes

(* Time passes: prompt i's outcome has stood longer than DELIVERY_KEEP_MS. *)
Age(i) ==
  /\ prompts[i].outcome # "unknown"
  /\ ~prompts[i].old
  /\ prompts' = [prompts EXCEPT ![i].old = TRUE]
  /\ UNCHANGED inboxes

(* The daemon restarts: its delivery is only in memory. *)
Restart ==
  /\ prompts' = [i \in Id |-> NoDelivery]
  /\ inboxes' = [r \in Row |-> <<>>]

---------------------------------------------------------------------------
(* The delivery on its own, called by a row table and by reports in any    *)
(* order: what it promises does not rest on who calls it.                  *)

(* The outcomes a report may carry: of any of the prompts. *)
ReportedOutcomes == UNION {[S -> Reportable] : S \in SUBSET Id}

Reports(r) == \E os \in ReportedOutcomes : Reported(r, os)

DNext ==
  \/ \E r \in Row, m \in Message : Queue(r, m)
  \/ \E r \in Row, p \in Pane : Take(r, p)
  \/ \E r \in Row : Reports(r)
  \/ \E r \in Row, p \in Pane, reason \in EndReason, inbox \in BOOLEAN :
       Ended(r, p, reason, inbox)
  \/ \E r \in Row : Silent(r)
  \/ Ask
  \/ \E i \in Id : Age(i)
  \/ Restart

DSpec == DInit /\ [][DNext]_dvars

---------------------------------------------------------------------------
(* Properties *)

(* An unsettled prompt is either still in its row's inbox or was given to  *)
(* a pane, so that the pane's end or silence, or its report, can settle    *)
(* it: none is left that nothing will ever answer for (delivery.ts, queue  *)
(* to ended).                                                              *)
Answerable ==
  \A i \in Id : Open(prompts[i]) =>
    /\ prompts[i].row \in Row
    /\ InInbox(inboxes, i, prompts[i].row) \/ prompts[i].pane \in Pane

(* Whatever ends a pane that was its row's leaves nothing unsettled of     *)
(* that row that was in its inbox or that this pane had taken.             *)
EndSettlesAll ==
  [][\A r \in Row, p \in Pane, reason \in EndReason :
       Ended(r, p, reason, TRUE) =>
         \A i \in Id : prompts'[i].row = r /\ Open(prompts'[i]) =>
           prompts'[i].pane \notin {p, None}]_dvars

Journey == INSTANCE PromptJourney WITH status <- [i \in Id |-> prompts[i].outcome]

(* A prompt's outcome only moves forward; nothing follows a settled one    *)
(* but its being forgotten or put in an inbox again; and one that its pane *)
(* says is queued is never forgotten, however long it waits, but by a      *)
(* restart, with all the others (prune).  One that is only sent may be:    *)
(* it is let go once it is old, like those that are settled.               *)
JourneySpec == Journey!Spec
====
