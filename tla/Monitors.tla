---- MODULE Monitors ----
(***************************************************************************)
(* One monitor (ext/background-bash/monitor-tool.ts): a job whose lines go *)
(* to the model as events.  The lines of a batch window are one event; a   *)
(* token bucket limits the events, and a monitor that stays over the limit *)
(* is stopped.  The job's end takes what is left along, or expiry does.    *)
(*                                                                         *)
(* Time is counted in ticks; a timer fires at its time or later.  Lines    *)
(* are numbered as they are written.  Their texts and caps are left out,   *)
(* and the cap on a job's file; an exec that fails ends it as an exit does. *)
(* The registry drops an ended job at once or, here, not at all.           *)
(***************************************************************************)
EXTENDS Integers, Sequences, SequencesExt

CONSTANTS
  BatchWindow,   \* BATCH_WINDOW_MS
  Capacity,      \* the rate limit: events at once,
  Refill,        \* the time for one more,
  MaxSuppress,   \* and how long it may be exceeded
  Ws,            \* the source is a WebSocket, which may say more once closed
  RegistryFull,  \* MaxFinishedJobs younger jobs have ended
  MaxTime,       \* bound: the ticks
  MaxLines       \* bound: the lines written

VARIABLES
  now,
  written,         \* the lines the source has written
  taken,           \* those of them the batcher has let go of
  timer,           \* when the batch is due, 0 when no timer is set
  tokens, lastTake,
  suppressed,      \* the events suppressed since the last that went out
  suppressedSince, lastSuppressedAt,
  exit, killed, events, registered,   \* the job
  sent,            \* history: the messages, in order
  suppressedAt,    \* history: when each event was suppressed
  output           \* history: the lines written when the job ended

batcher == <<written, taken, timer>>
limiter == <<tokens, lastTake, suppressed, suppressedSince, lastSuppressedAt, suppressedAt>>
job == <<exit, killed, events, registered>>
vars == <<now, batcher, limiter, job, sent, output>>

Time == 1..MaxTime
Message == [kind : {"event", "end", "expired", "stopped"}, at : Time,
            lines : SUBSET (1..MaxLines), notice : 0..MaxLines]

(* The types; a token is counted in the time it takes to refill. *)
TypeOK ==
  /\ now \in Time
  /\ written \in 0..MaxLines /\ taken \in 0..written
  /\ timer \in 0..(MaxTime + BatchWindow)
  /\ tokens \in 0..(Capacity * Refill) /\ lastTake \in {0} \cup Time
  /\ suppressed \in 0..MaxLines
  /\ suppressedSince \in {0} \cup Time /\ lastSuppressedAt \in {0} \cup Time
  /\ exit \in {"no", "ended", "timeout"}
  /\ killed \in {"no", "model", "user", "limit"}
  /\ events \in 0..MaxLines /\ registered \in BOOLEAN
  /\ sent \in Seq(Message) /\ suppressedAt \in Seq(Time) /\ output \in 0..MaxLines

Init ==
  /\ now = 1
  /\ written = 0 /\ taken = 0 /\ timer = 0
  /\ tokens = Capacity * Refill /\ lastTake = 0
  /\ suppressed = 0 /\ suppressedSince = 0 /\ lastSuppressedAt = 0
  /\ exit = "no" /\ killed = "no" /\ events = 0 /\ registered = TRUE
  /\ sent = <<>> /\ suppressedAt = <<>> /\ output = 0

Tick ==
  /\ now < MaxTime
  /\ now' = now + 1
  /\ UNCHANGED <<batcher, limiter, job, sent, output>>

---------------------------------------------------------------------------
(* The source and the batcher *)

(* A line is pushed, which sets the timer unless it is set. *)
Push ==
  /\ written < MaxLines
  /\ written' = written + 1
  /\ timer' = IF timer = 0 THEN now + BatchWindow ELSE timer
  /\ UNCHANGED <<now, taken, limiter, job, sent, output>>

(* A killed source may go on writing until it ends. *)
Write == exit = "no" /\ Push

(* A WebSocket closed from this side tells of its close once it is closed. *)
WriteLate == Ws /\ exit # "no" /\ (killed # "no" \/ exit = "timeout") /\ Push

(* The pending lines, when the batcher is emptied with w lines written. *)
Pending(w) == (taken + 1)..w

---------------------------------------------------------------------------
(* The rate limit *)

(* The bucket's tokens, refilled since it was last asked. *)
Refilled ==
  IF lastTake = 0 THEN tokens
  ELSE LET t == tokens + (now - lastTake) IN IF t > Capacity * Refill THEN Capacity * Refill ELSE t

(* No event has been suppressed for the time of a token. *)
Recovered == lastSuppressedAt # 0 /\ now - lastSuppressedAt >= Refill

(* An event with these lines goes out, with how many were suppressed. *)
Send(lines) ==
  /\ tokens' = Refilled - Refill
  /\ suppressed' = 0
  /\ suppressedSince' = IF Recovered THEN 0 ELSE suppressedSince
  /\ lastSuppressedAt' = IF Recovered THEN 0 ELSE lastSuppressedAt
  /\ events' = IF registered THEN events + 1 ELSE events
  /\ sent' = Append(sent, [kind |-> "event", at |-> now, lines |-> lines, notice |-> suppressed])
  /\ UNCHANGED <<killed, suppressedAt>>

(* It is suppressed, and the monitor stopped if this has gone on too long. *)
Suppress ==
  LET since == IF Recovered \/ suppressedSince = 0 THEN now ELSE suppressedSince
  IN  /\ tokens' = Refilled
      /\ suppressed' = suppressed + 1
      /\ suppressedSince' = since
      /\ lastSuppressedAt' = now
      /\ suppressedAt' = Append(suppressedAt, now)
      /\ killed' = IF now - since > MaxSuppress THEN "limit" ELSE killed
      /\ UNCHANGED <<events, sent>>

(* A mutant: a killed source that goes on writing is told of. *)
EndedOnly == registered /\ exit # "no"

(* What the registry says of the job; of one it dropped, the monitor has   *)
(* what it said as the job started.                                        *)
Over == registered /\ (exit # "no" \/ killed # "no")

(* The batch timer: the batch goes to the model, if the rate allows it. *)
Flush ==
  /\ timer # 0 /\ now >= timer
  /\ timer' = 0
  /\ taken' = written
  /\ IF Over THEN UNCHANGED <<limiter, killed, events, sent>>
     ELSE /\ lastTake' = now
          /\ IF Refilled >= Refill THEN Send(Pending(written)) ELSE Suppress
  /\ UNCHANGED <<now, written, exit, registered, output>>

---------------------------------------------------------------------------
(* The end *)

(* task_stop, or the user from /tasks: the last to stop it decides. *)
Kill(by) ==
  /\ exit = "no"
  /\ killed' = by
  /\ UNCHANGED <<now, batcher, limiter, exit, events, registered, sent, output>>

(* A mutant: what is left is an event of its own, as before the end. *)
LeftBehind(kind, lines) ==
  <<[kind |-> kind, at |-> now, lines |-> {}, notice |-> 0]>>

(* The end's message, with the lines that came too late for an event: of a *)
(* job someone stopped, only that it was.                                  *)
EndMessage(kind, lines) ==
  <<[kind |-> kind, at |-> now, lines |-> IF killed = "no" THEN lines ELSE {}, notice |-> 0]>>

(* The source ends or, unless it was killed before, expires; a last line   *)
(* without its end may come with it.                                       *)
Exit(how, partial) ==
  LET w == written + partial IN
  /\ exit = "no"
  /\ how = "timeout" => killed = "no"
  /\ w <= MaxLines
  /\ exit' = how
  /\ output' = w
  /\ written' = w /\ taken' = w /\ timer' = 0
  /\ events' = IF Pending(w) # {} THEN events + 1 ELSE events
  /\ sent' = sent \o
       CASE killed = "model" -> <<>>
         [] killed = "user" -> EndMessage("stopped", Pending(w))
         [] how = "timeout" -> EndMessage("expired", Pending(w))
         [] OTHER -> EndMessage("end", Pending(w))
  /\ registered' = ~RegistryFull
  /\ UNCHANGED <<now, limiter, killed>>

Next ==
  \/ Tick \/ Write \/ WriteLate \/ Flush
  \/ \E by \in {"model", "user"} : Kill(by)
  \/ \E how \in {"ended", "timeout"}, partial \in {0, 1} : Exit(how, partial)

Spec == Init /\ [][Next]_vars

---------------------------------------------------------------------------
(* Properties *)

Events == SelectSeq(sent, LAMBDA m : m.kind = "event")

(* Nothing follows the end of a monitor (deliver's guard: "the exit path   *)
(* sends the terminal message with whatever is left"), and no event of it  *)
(* its stop, though it may take its time to end ("a child that traps the   *)
(* signal keeps producing output"); what the model stopped, or what        *)
(* expired, ends unsaid.                                                   *)
SilentOnceOver ==
  [][LET ended == \E k \in DOMAIN sent : sent[k].kind # "event" IN
     /\ ended \/ killed = "model" => sent' = sent
     /\ killed # "no" => Events' = Events]_vars

(* A monitor that ends of its own has told every line it wrote, once and   *)
(* in order, but for those of suppressed events; the suppressed events are *)
(* all told of, or are those since the last event.                         *)
LinesTold ==
  LET told == [k \in DOMAIN sent |-> sent[k].lines]
      noticed == FoldLeft(LAMBDA n, m : n + m.notice, 0, sent)
  IN  /\ \A i, j \in DOMAIN sent : i < j => \A a \in told[i], b \in told[j] : a < b
      /\ noticed + suppressed = Len(suppressedAt)
      /\ exit # "no" /\ killed = "no" /\ suppressedAt = <<>> =>
           UNION {told[k] : k \in DOMAIN sent} = 1..output

(* Over any time, no more events than the bucket holds and refills. *)
RateKept ==
  \A i, j \in DOMAIN Events :
    i < j => (j - i + 1 - Capacity) * Refill <= Events[j].at - Events[i].at

(* The time over which events have been suppressed, never as long as a     *)
(* token's apart, up to the last.                                          *)
Sustained(i, j) ==
  /\ suppressedAt[j] - suppressedAt[i] > MaxSuppress
  /\ \A k \in i..(j - 1) : suppressedAt[k + 1] - suppressedAt[k] < Refill

(* It is stopped for its rate if and when that has gone on too long ("A    *)
(* refilled token alone is not recovery while other batches are still      *)
(* suppressed").                                                           *)
StoppedWhenSustained ==
  LET over == \E i, j \in DOMAIN suppressedAt : i < j /\ Sustained(i, j)
  IN  /\ killed = "limit" => over
      /\ over => killed # "no"
====
