---- MODULE Outcomes ----
(***************************************************************************)
(* A pane's prompt outcome tracker (ext/remote/outcomes.ts, PromptOutcomes)*)
(* in one session of its pi: it follows pi's events and the pane's         *)
(* heartbeats, and works out what became of each prompt of a phone, which  *)
(* no event of pi's names.                                                 *)
(*                                                                         *)
(* pi itself is external and modelled as outcomes.ts describes it: what    *)
(* enters it goes through input handlers, which may await; then it is      *)
(* queued if a run goes on, or runs as a turn of its own.  A heartbeat     *)
(* counted in QUIET_LOOKS is a step; images and reports are left out.      *)
(***************************************************************************)
EXTENDS Naturals, Sequences, SequencesExt

CONSTANTS
  Phone,        \* the phones' prompts, by the ids the phones gave them
  Mac,          \* what else enters pi: the Mac's prompts, other extensions'
  TextOf,       \* each entrant's text
  KEPT,         \* how many entries each of the tracker's lists keeps
  QUIET_LOOKS,
  Slow          \* the entrants whose input handlers may await

Entrant == Phone \cup Mac

ASSUME EntrantAssumption == Phone \cap Mac = {}
ASSUME KeptAssumption == KEPT \in Nat \ {0} /\ QUIET_LOOKS \in Nat \ {0}
ASSUME SlowAssumption == Slow \subseteq Phone \cup Mac

VARIABLES
  waiting,      \* phone prompts handed to pi, before their input event
  queued,       \* phone prompts pi queues, each with whether it was seen there
  others,       \* the texts of the other entrants pi queues
  settled,      \* the outcomes the tracker reports, oldest first
  quietLooks,
  compacting,
  started,      \* the tracker has its session's context
  looks,        \* how many looks at pi's queue are due, each a tick after an input event
  stage,        \* how far each entrant is in pi
  streamed,     \* the entrants a run went on for as they entered pi
  queue,        \* pi's queue
  running,      \* pi's run goes on
  forgotten,    \* history: the entrants a look let go of while they were in their handlers
  misled        \* history: the phone prompts seen while pi's queue held another unknown

tracker == <<waiting, queued, others, settled, quietLooks, compacting, started, looks>>
pi == <<stage, streamed, queue, running>>
history == <<forgotten, misled>>
vars == <<tracker, pi, history>>

(* before and after: an entrant's input handlers that run before and after *)
(* the tracker's.  ran: pi started a turn with it.  dropped: pi let go of  *)
(* it.  gone: its session ended first.                                     *)
Stage == {"none", "before", "after", "queued", "ran", "dropped", "gone"}

Outcome == [id : Phone, outcome : {"taken", "queued", "refused", "lost"}]

(* The types of the tracker's lists, none longer than it keeps, and of pi. *)
TypeOK ==
  /\ waiting \in BoundedSeq(Phone, KEPT)
  /\ queued \in BoundedSeq([id : Phone, seen : BOOLEAN], KEPT)
  /\ others \in BoundedSeq({TextOf[e] : e \in Entrant}, KEPT)
  /\ settled \in BoundedSeq(Outcome, KEPT)
  /\ quietLooks \in Nat
  /\ looks \in Nat
  /\ <<compacting, started, running>> \in BOOLEAN \X BOOLEAN \X BOOLEAN
  /\ stage \in [Entrant -> Stage]
  /\ streamed \subseteq Entrant
  /\ queue \in Seq(Entrant)
  /\ forgotten \subseteq Entrant /\ misled \subseteq Phone

Init ==
  /\ waiting = <<>>
  /\ queued = <<>>
  /\ others = <<>>
  /\ settled = <<>>
  /\ quietLooks = 0
  /\ compacting = FALSE
  /\ started = TRUE
  /\ looks = 0
  /\ stage = [e \in Entrant |-> "none"]
  /\ streamed = {}
  /\ queue = <<>>
  /\ running = FALSE
  /\ forgotten = {} /\ misled = {}

---------------------------------------------------------------------------
(* The tracker's lists *)

(* s with x behind it, without the oldest beyond KEPT. *)
Pushed(s, x) ==
  LET t == Append(s, x)
  IN  IF Len(t) > KEPT THEN SubSeq(t, Len(t) - KEPT + 1, Len(t)) ELSE t

(* Where the oldest prompt with text t is in s, 0 when none has it. *)
At(s, t) == SelectInSeq(s, LAMBDA x : TextOf[x] = t)

(* And in the queued ones. *)
QueuedAt(t) == SelectInSeq(queued, LAMBDA x : TextOf[x.id] = t)

(* A prompt's outcome takes the place of its last one. *)
AfterSettle(s, i, o) ==
  LET k == SelectInSeq(s, LAMBDA x : x.id = i)
      entry == [id |-> i, outcome |-> o]
  IN  IF k = 0 THEN Pushed(s, entry) ELSE [s EXCEPT ![k] = entry]

(* What the tracker's next report says of a prompt. *)
OutcomeOf(i) ==
  LET k == SelectInSeq(settled, LAMBDA x : x.id = i)
  IN  IF k = 0 THEN "none" ELSE settled[k].outcome

---------------------------------------------------------------------------
(* Looking at pi's queue *)

Pending == queue # <<>>

(* A mutant: the oldest queued phone prompt is seen, whatever else is queued. *)
SeenAmongOthers(qs) ==
  IF Pending /\ Len(qs) >= 1 THEN [qs EXCEPT ![1].seen = TRUE] ELSE qs

(* Only a lone queued phone prompt, no other entrant queued, is seen. *)
Seen(qs) ==
  IF Pending /\ Len(qs) = 1 /\ others = <<>> THEN [qs EXCEPT ![1].seen = TRUE] ELSE qs

(* Those of qs that are in drops are let go of and settle as lost. *)
Dequeued(qs, drops) ==
  /\ queued' = SelectSeq(qs, LAMBDA x : x \notin drops)
  /\ settled' = FoldLeft(LAMBDA s, x : IF x \in drops THEN AfterSettle(s, x.id, "lost") ELSE s,
                         settled, qs)

(* How many heartbeats in a row have found pi quiet, after this look. *)
LooksAfter(by, quiet) ==
  IF ~quiet \/ by = "settled" THEN 0
  ELSE IF by = "heartbeat" /\ quietLooks < QUIET_LOOKS THEN quietLooks + 1
  ELSE quietLooks

InHandlers == {e \in Entrant : stage[e] \in {"before", "after"}}

(* Entrants in pi's queue that the tracker does not take to be: others let *)
(* go of in their handlers, and phone prompts it reported taken as they    *)
(* entered an idle pi.                                                     *)
Unknown == {e \in Range(queue) : e \in forgotten \/ e \in Phone \ streamed}

(* A look, with pi idle or not: isIdle. *)
Look(by, idle) ==
  LET quiet == ~Pending /\ idle
      qs == Seen(queued)
      n == LooksAfter(by, quiet)
  IN  /\ quietLooks' = n
      /\ others' = IF quiet THEN <<>> ELSE others
      /\ IF quiet THEN Dequeued(qs, {x \in Range(qs) : x.seen \/ n >= QUIET_LOOKS})
         ELSE queued' = qs /\ UNCHANGED settled
      /\ forgotten' = IF quiet THEN forgotten \cup {e \in InHandlers : Contains(others, TextOf[e])} ELSE forgotten
      /\ misled' = IF Unknown = {} THEN misled
                   ELSE misled \cup {qs[k].id : k \in {j \in DOMAIN qs : qs[j].seen /\ ~queued[j].seen}}
      /\ UNCHANGED <<waiting, compacting, started>>

---------------------------------------------------------------------------
(* What enters pi *)

(* Those whose handlers await nothing: nothing else happens until they are *)
(* done.                                                                   *)
Entering == InHandlers \ Slow

(* pi.prompt is called: what comes after its handlers is chosen then. *)
Enters(e) ==
  /\ stage' = [stage EXCEPT ![e] = "before"]
  /\ streamed' = IF running THEN streamed \cup {e} ELSE streamed
  /\ UNCHANGED <<queue, running>>

(* A phone's prompt comes with a heartbeat: refused when it was sent to    *)
(* another session or while pi compacts at the user's request, else handed *)
(* to pi.                                                                  *)
PhonePrompt(i) ==
  /\ started
  /\ stage[i] = "none" /\ Entering = {}
  /\ \E another \in BOOLEAN :
     IF another \/ compacting
     THEN /\ settled' = AfterSettle(settled, i, "refused")
          /\ stage' = [stage EXCEPT ![i] = "dropped"]
          /\ UNCHANGED <<waiting, streamed, queue, running>>
     ELSE /\ waiting' = Pushed(waiting, i)
          /\ Enters(i)
          /\ UNCHANGED settled
  /\ UNCHANGED <<queued, others, quietLooks, compacting, started, looks, history>>

(* The Mac's user submits, or another extension prompts. *)
MacPrompt(e) ==
  /\ started
  /\ stage[e] = "none" /\ Entering = {}
  /\ ~compacting
  /\ Enters(e)
  /\ UNCHANGED <<tracker, history>>

(* pi's input event reaches the tracker. *)
Input(e) ==
  LET at == IF e \in Phone THEN At(waiting, TextOf[e]) ELSE 0 IN
  /\ stage[e] = "before" /\ Entering \subseteq {e}
  /\ stage' = [stage EXCEPT ![e] = "after"]
  /\ IF at # 0
     THEN LET i == waiting[at]
              o == IF e \in streamed THEN "queued" ELSE "taken"
          IN  /\ waiting' = RemoveAt(waiting, at)
              /\ queued' = IF o = "queued" THEN Pushed(queued, [id |-> i, seen |-> FALSE]) ELSE queued
              /\ settled' = AfterSettle(settled, i, o)
              /\ looks' = IF e \in streamed THEN looks + 1 ELSE looks
              /\ UNCHANGED others
     ELSE /\ others' = IF e \in streamed THEN Pushed(others, TextOf[e]) ELSE others
          /\ UNCHANGED <<waiting, queued, settled, looks>>
  /\ UNCHANGED <<quietLooks, compacting, started, streamed, queue, running, history>>

(* pi starts e's turn: the tracker finds the oldest queued phone prompt    *)
(* with its text, else another entrant's.                                  *)
MessageStart(e) ==
  LET at == QueuedAt(TextOf[e])
      k == SelectInSeq(others, LAMBDA t : t = TextOf[e])
  IN  /\ queued' = IF at # 0 THEN RemoveAt(queued, at) ELSE queued
      /\ settled' = IF at # 0 THEN AfterSettle(settled, queued[at].id, "taken") ELSE settled
      /\ others' = IF at = 0 /\ k # 0 THEN RemoveAt(others, k) ELSE others
      /\ UNCHANGED <<waiting, quietLooks, compacting, started, looks>>

(* The last of e's input handlers is done: pi queues it while a run goes   *)
(* on, and runs it as a turn of its own when none does.  It throws on one  *)
(* while it compacts at the user's request, and on one of the Mac's that   *)
(* entered while it was idle once a run goes on.                           *)
HandlersDone(e) ==
  /\ stage[e] = "after" /\ Entering \subseteq {e}
  /\ IF compacting \/ (running /\ e \in Mac \ streamed)
     THEN stage' = [stage EXCEPT ![e] = "dropped"] /\ UNCHANGED <<queue, running, tracker>>
     ELSE IF running
     THEN /\ stage' = [stage EXCEPT ![e] = "queued"]
          /\ queue' = Append(queue, e)
          /\ UNCHANGED <<running, tracker>>
     ELSE /\ stage' = [stage EXCEPT ![e] = "ran"]
          /\ running' = TRUE
          /\ MessageStart(e)
          /\ UNCHANGED queue
  /\ UNCHANGED <<streamed, history>>

---------------------------------------------------------------------------
(* pi's run and its queue *)

(* The run goes on with one of its queue: the oldest, or a steer of the    *)
(* Mac's ahead of it.                                                      *)
StartQueued(e) ==
  /\ running
  /\ Pending /\ (e = Head(queue) \/ (e \in Mac /\ Contains(queue, e)))
  /\ queue' = SelectSeq(queue, LAMBDA x : x # e)
  /\ stage' = [stage EXCEPT ![e] = "ran"]
  /\ MessageStart(e)
  /\ UNCHANGED <<streamed, running, history>>

(* The run ends with its queue empty, or is stopped with it as it is. *)
AgentSettled ==
  /\ running
  /\ running' = FALSE
  /\ Look("settled", TRUE)
  /\ UNCHANGED <<looks, stage, streamed, queue>>

(* Esc and the dequeue key put what the queue holds in the Mac's editor. *)
Dequeue ==
  /\ Pending /\ Entering = {}
  /\ queue' = <<>>
  /\ stage' = [e \in Entrant |-> IF stage[e] = "queued" THEN "dropped" ELSE stage[e]]
  /\ UNCHANGED <<streamed, running, tracker, history>>

(* Input handlers are done before QUIET_LOOKS heartbeats have gone by.     *)
Heartbeat ==
  /\ started /\ Entering = {}
  /\ quietLooks = QUIET_LOOKS - 1 => InHandlers = {}
  /\ Look("heartbeat", ~running)
  /\ UNCHANGED <<looks, pi>>

Tick ==
  /\ looks > 0 /\ Entering = {}
  /\ looks' = looks - 1
  /\ IF started THEN Look("input", ~running)
     ELSE UNCHANGED <<waiting, queued, others, settled, quietLooks, compacting, started, history>>
  /\ UNCHANGED pi

(* The user asks pi to compact, which stops its run. *)
Compact ==
  /\ started /\ ~compacting
  /\ ~running /\ Entering = {}
  /\ compacting' = TRUE
  /\ UNCHANGED <<waiting, queued, others, settled, quietLooks, started, looks, pi, history>>

CompactDone ==
  /\ compacting
  /\ compacting' = FALSE
  /\ UNCHANGED <<waiting, queued, others, settled, quietLooks, started, looks, pi, history>>

(* The session ends: another takes its place, and what it queued goes with *)
(* it; or pi quits, and the daemon finds the pane gone.                    *)
Shutdown(reason) ==
  /\ started /\ Entering = {}
  /\ started' = FALSE
  /\ IF reason # "quit" THEN Dequeued(queued, Range(queued)) ELSE UNCHANGED <<queued, settled>>
  /\ stage' = [e \in Entrant |-> IF stage[e] \in {"before", "after", "queued"} THEN "gone" ELSE stage[e]]
  /\ queue' = <<>>
  /\ running' = FALSE
  /\ UNCHANGED <<waiting, others, quietLooks, compacting, looks, streamed, history>>

Next ==
  \/ \E i \in Phone : PhonePrompt(i)
  \/ \E e \in Mac : MacPrompt(e)
  \/ \E e \in Entrant : Input(e) \/ HandlersDone(e) \/ StartQueued(e)
  \/ AgentSettled \/ Dequeue \/ Heartbeat \/ Tick \/ Compact \/ CompactDone
  \/ \E reason \in {"quit", "another"} : Shutdown(reason)

Spec == Init /\ [][Next]_vars

(* Heartbeats are a timer's and go on; input handlers, ticks and runs end. *)
Fairness ==
  /\ WF_vars(Heartbeat)
  /\ WF_vars(Tick)
  /\ \A e \in Entrant : WF_vars(Input(e)) /\ WF_vars(HandlersDone(e))
  /\ WF_vars(AgentSettled \/ \E e \in Entrant : StartQueued(e))

LiveSpec == Spec /\ Fairness

---------------------------------------------------------------------------
(* Properties *)

(* A prompt reported refused or lost, which the phone puts back in its     *)
(* composer to be sent again, pi has let go of: it is not in its queue or  *)
(* its input handlers, to run as well, nor has it run (look, dequeued).    *)
(* Left out is one the tracker was misled about.                           *)
LostIsDropped ==
  \A i \in Phone \ misled : OutcomeOf(i) \in {"refused", "lost"} => stage[i] \in {"dropped", "gone"}

(* A phone prompt marked as seen in pi's queue has been there: it is not   *)
(* still in its input handlers, which would queue it later (look: "Only a  *)
(* lone queued phone prompt, no other entrant queued, is seen there").     *)
(* Left out is one marked while pi's queue held another that the tracker   *)
(* had let go of in its handlers, or had reported taken as two entered an  *)
(* idle pi.                                                                *)
SeenWasQueued ==
  \A k \in DOMAIN queued : queued[k].seen => queued[k].id \notin InHandlers \ misled

(* One reported queued is not left so while the session goes on, unless pi *)
(* was stopped with its queue full and stays idle with it.                 *)
NotQueued(i) == OutcomeOf(i) # "queued" \/ Pending \/ ~started
QueuedSettles == \A i \in Phone : []<>NotQueued(i)
====
