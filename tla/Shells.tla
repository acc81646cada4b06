---- MODULE Shells ----
(***************************************************************************)
(* The shells a pane's model runs (ext/background-bash): in the foreground,*)
(* until they end or move to the background; in the background, as jobs of *)
(* the process-wide registry, which outlive the session that started them. *)
(* A job's start and end are recorded in the log of the main session that  *)
(* is current; the model is told of its end, by a message held while the   *)
(* tasks panel is open, and of ends nobody recorded, by a scan of the log  *)
(* when a session is resumed.                                              *)
(*                                                                         *)
(* src/ gives this tool to main sessions only, so no job has an agentId    *)
(* and none is stopped for another session's sake.                         *)
(***************************************************************************)
EXTENDS Naturals, Sequences, SequencesExt

CONSTANTS
  Call,              \* the model's bash calls, and by them their shells and jobs
  Session,           \* the main sessions
  None,              \* no session
  MaxFinishedJobs,
  MaxHolds,          \* bound: how many panels are open at once
  Prompting,         \* bound: the shells that come to wait for input
  DiesHolding        \* whether pi may die with a panel open

VARIABLES
  up,        \* pi runs
  current,   \* the main session that is current, None between two
  last,      \* lastMainSession
  pending,   \* what waits for the next main session
  holds,
  queue,     \* the messages held
  jobs,      \* the registry, in the order the jobs were started
  shells,    \* the foreground shells
  owner,     \* the session each shell was started in
  answer,    \* what its tool call has come to
  process,   \* the process of each call
  log,       \* the sessions' logs: shells started and ended, and what the model was told
  stops      \* history: the jobs the model stopped, of which task_stop's answer told it

memory == <<up, current, last, pending, holds, queue, jobs, shells>>
vars == <<memory, owner, answer, process, log, stops>>

(* A job: killed is who stopped it last, if anyone did. *)
Job == [id : Call, owner : Session, exit : BOOLEAN, stalled : BOOLEAN,
        killed : {"no", "model", "user"}]

(* What a job has to say: its records in the log, and messages to the model. *)
Use == [call : Call, kind : {"start", "end", "stall", "exit"}]

Log == [exists : BOOLEAN, started : SUBSET Call, ended : SUBSET Call,
        told : [Call -> Seq({"stall", "exit", "orphan"})]]

(* The types of pi's memory, of its processes and of the logs. *)
TypeOK ==
  /\ up \in BOOLEAN
  /\ current \in Session \cup {None}
  /\ last \in Session \cup {None}
  /\ pending \in Seq(Use)
  /\ holds \in 0..MaxHolds
  /\ queue \in Seq(Use)
  /\ jobs \in Seq(Job)
  /\ shells \subseteq Call
  /\ owner \in [Call -> Session \cup {None}]
  /\ answer \in [Call -> {"none", "open", "moving", "given", "background", "lost"}]
  /\ process \in [Call -> {"none", "runs", "aborted", "ended"}]
  /\ log \in [Session -> Log]
  /\ stops \subseteq Call

Init ==
  /\ up = FALSE
  /\ current = None
  /\ last = None
  /\ pending = <<>>
  /\ holds = 0
  /\ queue = <<>>
  /\ jobs = <<>>
  /\ shells = {}
  /\ owner = [c \in Call |-> None]
  /\ answer = [c \in Call |-> "none"]
  /\ process = [c \in Call |-> "none"]
  /\ log = [s \in Session |->
              [exists |-> FALSE, started |-> {}, ended |-> {}, told |-> [c \in Call |-> <<>>]]]
  /\ stops = {}

Alive(c) == process[c] \in {"runs", "aborted"}

---------------------------------------------------------------------------
(* Where a job reports to *)

Applied(l, u) ==
  CASE u.kind = "start" -> [l EXCEPT !.started = @ \cup {u.call}]
    [] u.kind = "end" -> [l EXCEPT !.ended = @ \cup {u.call}]
    [] OTHER -> [l EXCEPT !.told[u.call] = Append(@, u.kind)]

(* mainSession: to the current session, or to wait for the next. *)
WithSink(uses) ==
  IF current # None
  THEN /\ log' = [log EXCEPT ![current] = FoldLeft(Applied, @, uses)]
       /\ UNCHANGED pending
  ELSE /\ pending' = pending \o uses
       /\ UNCHANGED log

(* A record goes out at once, a message once no panel is open. *)
Report(records, messages) ==
  IF holds = 0
  THEN WithSink(records \o messages) /\ UNCHANGED queue
  ELSE WithSink(records) /\ queue' = queue \o messages

---------------------------------------------------------------------------
(* The registry *)

(* The oldest finished jobs past the cap are dropped. *)
EvictFinished(js) ==
  LET finished == SelectSeq(js, LAMBDA j : j.exit)
      dropped == {finished[k].id : k \in {n \in DOMAIN finished : n + MaxFinishedJobs <= Len(finished)}}
  IN  SelectSeq(js, LAMBDA j : j.id \notin dropped)

AfterStart(c, s) ==
  EvictFinished(Append(jobs, [id |-> c, owner |-> s, exit |-> FALSE, stalled |-> FALSE, killed |-> "no"]))

Registered(c) == \E k \in DOMAIN jobs : jobs[k].id = c

(* Whether c's job is in the registry and has not ended. *)
Running(c) == \E k \in DOMAIN jobs : jobs[k].id = c /\ ~jobs[k].exit

JobOf(c) == SelectInSeq(jobs, LAMBDA j : j.id = c)

(* The jobs left running by session from are session to's. *)
Reowned(from, to) ==
  [k \in DOMAIN jobs |->
    IF ~jobs[k].exit /\ jobs[k].owner = from THEN [jobs[k] EXCEPT !.owner = to] ELSE jobs[k]]

(* A job the model stopped itself already got its answer: the last to stop *)
(* a job decides.                                                          *)
ShouldNotifyExit(j) == j.killed # "model"

---------------------------------------------------------------------------
(* The bash tool *)

(* run_in_background: a job from the start. *)
RunInBackground(c) ==
  /\ current # None
  /\ process[c] = "none"
  /\ process' = [process EXCEPT ![c] = "runs"]
  /\ owner' = [owner EXCEPT ![c] = current]
  /\ answer' = [answer EXCEPT ![c] = "background"]
  /\ jobs' = AfterStart(c, current)
  /\ WithSink(<<[call |-> c, kind |-> "start"]>>)
  /\ UNCHANGED <<up, current, last, holds, queue, shells, stops>>

RunInForeground(c) ==
  /\ current # None
  /\ process[c] = "none"
  /\ process' = [process EXCEPT ![c] = "runs"]
  /\ owner' = [owner EXCEPT ![c] = current]
  /\ answer' = [answer EXCEPT ![c] = "open"]
  /\ shells' = shells \cup {c}
  /\ UNCHANGED <<up, current, last, pending, holds, queue, jobs, log, stops>>

(* Ctrl+B, a message of the user's or its timeout moves a foreground shell *)
(* to the background; the tool call learns of it a little later.  When     *)
(* several move at once, one after the other.                              *)
Detach(c) ==
  /\ c \in shells
  /\ shells' = shells \ {c}
  /\ jobs' = AfterStart(c, owner[c])
  /\ answer' = [answer EXCEPT ![c] = "moving"]
  /\ UNCHANGED <<up, current, last, pending, holds, queue, owner, process, log, stops>>

(* The tool call ends, and the job's start is recorded. *)
Moved(c) ==
  /\ answer[c] = "moving"
  /\ answer' = [answer EXCEPT ![c] = "background"]
  /\ WithSink(<<[call |-> c, kind |-> "start"]>>)
  /\ UNCHANGED <<up, current, last, holds, queue, jobs, shells, owner, process, stops>>

(* Esc, the tasks panel, or the timeout of a shell that may not move. *)
StopForeground(c) ==
  /\ c \in shells
  /\ process[c] = "runs"
  /\ process' = [process EXCEPT ![c] = "aborted"]
  /\ UNCHANGED <<memory, owner, answer, log, stops>>

(* The job's end: its records, its message, and then the eviction. *)
Finish(c) ==
  LET k == JobOf(c)
      exit == IF ShouldNotifyExit(jobs[k]) THEN <<[call |-> c, kind |-> "exit"]>> ELSE <<>>
  IN  /\ jobs' = EvictFinished([jobs EXCEPT ![k].exit = TRUE])
      /\ Report(<<[call |-> c, kind |-> "end"]>>, exit)
      /\ UNCHANGED <<shells, answer>>

(* The process of c ends, of its own or aborted. *)
ProcessEnds(c) ==
  /\ up /\ Alive(c)
  /\ process' = [process EXCEPT ![c] = "ended"]
  /\ IF c \in shells
     THEN /\ shells' = shells \ {c}
          /\ answer' = [answer EXCEPT ![c] = "given"]
          /\ UNCHANGED <<jobs, pending, queue, log>>
     ELSE Finish(c)
  /\ UNCHANGED <<up, current, last, holds, owner, stops>>

(* task_stop, or the user from the tasks panel or a phone: of a running    *)
(* job the current session owns.                                           *)
Kill(c, by) ==
  LET k == JobOf(c) IN
  /\ current # None
  /\ Running(c)
  /\ jobs[k].owner = current
  /\ jobs' = [jobs EXCEPT ![k].killed = by]
  /\ stops' = IF by = "model" THEN stops \cup {c} ELSE stops
  /\ process' = [process EXCEPT ![c] = "aborted"]
  /\ UNCHANGED <<up, current, last, pending, holds, queue, shells, owner, answer, log>>

(* The stall watchdog, once per job: its output ends in a prompt. *)
Stall(c) ==
  LET k == JobOf(c) IN
  /\ c \in Prompting /\ Running(c)
  /\ ~jobs[k].stalled
  /\ jobs' = [jobs EXCEPT ![k].stalled = TRUE]
  /\ Report(<<>>, <<[call |-> c, kind |-> "stall"]>>)
  /\ UNCHANGED <<up, current, last, holds, shells, owner, answer, process, stops>>

---------------------------------------------------------------------------
(* The tasks panel *)

OpenPanel ==
  /\ current # None
  /\ holds < MaxHolds
  /\ holds' = holds + 1
  /\ UNCHANGED <<up, current, last, pending, queue, jobs, shells, owner, answer, process, log, stops>>

ClosePanel ==
  /\ holds > 0
  /\ holds' = holds - 1
  /\ IF holds > 1 THEN UNCHANGED <<queue, pending, log>>
     ELSE WithSink(queue) /\ queue' = <<>>
  /\ UNCHANGED <<up, current, last, jobs, shells, owner, answer, process, stops>>

---------------------------------------------------------------------------
(* Sessions *)

(* session_shutdown, for another session: the user is at the editor, so no *)
(* panel is open, and pi has ended the turn.                               *)
SessionShutdown ==
  /\ current # None
  /\ holds = 0
  /\ \A c \in Call : answer[c] \notin {"open", "moving"}
  /\ current' = None
  /\ UNCHANGED <<up, last, pending, holds, queue, jobs, shells, owner, answer, process, log, stops>>

(* The shells l has a start of and no end, but for those registered here. *)
Orphans(l) == {c \in l.started \ l.ended : ~Registered(c)}

(* A mutant: the report is not recorded as their end. *)
ReportedOnly(l) ==
  [l EXCEPT !.told = [c \in Call |-> IF c \in Orphans(l) THEN Append(@[c], "orphan") ELSE @[c]]]

(* They are reported, which is recorded as their end. *)
Reported(l) ==
  [l EXCEPT !.ended = @ \cup Orphans(l),
            !.told = [c \in Call |-> IF c \in Orphans(l) THEN Append(@[c], "orphan") ELSE @[c]]]

(* session_start: what waited goes out to s before its log is scanned.     *)
(* A new session's log is empty, a fork's that of the session it is of; a  *)
(* reload starts the last one again.                                       *)
SessionStart(s, reason) ==
  LET from == IF reason = "fork" THEN [log[last] EXCEPT !.exists = TRUE]
              ELSE [log[s] EXCEPT !.exists = TRUE]
      flushed == FoldLeft(Applied, from, pending)
  IN  /\ current = None
      /\ up = (reason # "startup")
      /\ log[s].exists => reason \in {"startup", "resume", "reload"}
      /\ reason = "reload" => s = last
      /\ reason = "resume" => log[s].exists
      /\ up' = TRUE
      /\ current' = s
      /\ pending' = <<>>
      /\ jobs' = IF reason = "new" /\ last \notin {None, s} THEN Reowned(last, s) ELSE jobs
      /\ last' = s
      /\ log' = [log EXCEPT ![s] = IF reason \in {"startup", "resume"} THEN Reported(flushed) ELSE flushed]
      /\ UNCHANGED <<holds, queue, shells, owner, answer, process, stops>>

(* pi quits or dies, and its shells with it. *)
Die ==
  /\ up
  /\ holds = 0 \/ DiesHolding
  /\ up' = FALSE
  /\ current' = None
  /\ last' = None
  /\ pending' = <<>>
  /\ holds' = 0
  /\ queue' = <<>>
  /\ jobs' = <<>>
  /\ shells' = {}
  /\ process' = [c \in Call |-> IF Alive(c) THEN "ended" ELSE process[c]]
  /\ answer' = [c \in Call |-> IF answer[c] \in {"open", "moving"} THEN "lost" ELSE answer[c]]
  /\ UNCHANGED <<owner, log, stops>>

Next ==
  \/ \E c \in Call :
       \/ RunInBackground(c) \/ RunInForeground(c) \/ Detach(c) \/ Moved(c)
       \/ StopForeground(c) \/ ProcessEnds(c) \/ Stall(c)
       \/ \E by \in {"model", "user"} : Kill(c, by)
  \/ OpenPanel \/ ClosePanel \/ SessionShutdown \/ Die
  \/ \E s \in Session, reason \in {"startup", "new", "resume", "fork", "reload"} : SessionStart(s, reason)

Spec == Init /\ [][Next]_vars

(* The user leaves no panel open for good, and another session follows the last. *)
Fairness ==
  /\ []<>(holds = 0)
  /\ WF_vars(\E s \in Session, reason \in {"new", "resume", "fork", "reload"} : SessionStart(s, reason))

LiveSpec == Spec /\ Fairness

---------------------------------------------------------------------------
(* Properties *)

EndTold(s, c) == \E k \in DOMAIN log[s].told[c] : log[s].told[c][k] # "stall"

Waits(uses, c) == \E k \in DOMAIN uses : uses[k].call = c /\ uses[k].kind = "exit"

(* A conversation is told of a shell's end once, and of nothing of that    *)
(* shell's after it, whatever panels and sessions came between; the scan   *)
(* on resume repeats nothing (reportOrphanShells: "the model is told once")*)
EndIsLast ==
  \A s \in Session, c \in Call :
    LET told == log[s].told[c]
    IN  \A k \in DOMAIN told : told[k] # "stall" => k = Len(told)

(* The scan on resume leaves out the shells with an end recorded in the    *)
(* session, so that session's model has heard of those, or will when the   *)
(* panel closes, or stopped them itself (findOrphanShells: "a shell the    *)
(* conversation started but never heard the end of").                      *)
RecordedIsTold ==
  \A s \in Session : \A c \in log[s].ended :
    EndTold(s, c) \/ Waits(queue, c) \/ c \in stops

(* While pi is up, each shell that runs can be stopped: it is in the       *)
(* foreground, or a job that has not ended (evictFinished: "Running jobs   *)
(* are never evicted"; detach).                                            *)
RunningKept ==
  \A c \in Call : Alive(c) <=> (c \in shells \/ Running(c))

(* The end of a job is told to some session, unless the model stopped it   *)
(* itself or pi is gone first: neither a panel nor the time between two    *)
(* sessions swallows it (deliverOrHold, mainSession).                      *)
IsOver(c) == Registered(c) /\ ~Running(c)
IsTold(c) == c \in stops \/ ~up \/ \E s \in Session : EndTold(s, c)
EndsTold == \A c \in Call : IsOver(c) ~> IsTold(c)
====
