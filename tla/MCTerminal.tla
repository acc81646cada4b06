---- MODULE MCTerminal ----
(***************************************************************************)
(* Model checking what one session's extensions keep, a part at a time:    *)
(* the outcomes of the phone's prompts ("prompts"), the background shells  *)
(* ("shells") and monitors ("monitor"), the deny rules ("deny"), the       *)
(* accounts ("accounts"), the checkpoints ("checkpoints"),                 *)
(* /remote-control ("remote") and the memories ("memory").                 *)
(***************************************************************************)
EXTENDS Accounts, FiniteSets, Integers, Sequences, TLC

CONSTANTS i1, i2, m1, a, b, c, f, l, rel, f1, f2, t1, t2, p1, p2, q1, rm, c1, c2, s1,
          s2, g1, g2

VARIABLES
  part,
  waiting, queued, others, settled, quietLooks, compacting, started, looks, stage, streamed,
  queue, running, forgotten, misled,
  up, current, last, pending, holds, shellQueue, jobs, shells, owner, answer, process,
  log, stops,
  now, written, taken, timer, tokens, lastTake, suppressed, suppressedSince,
  lastSuppressedAt, exit, killed, events, registered, sent, suppressedAt, output,
  global, project, trusted, deny, call, blocked, shown, edits,
  tree, writes, branch, created, snaps, refs, prompts, capture, caught, prunes, tools,
  runs, menu, net, rewinds, unseen, astray,
  on, phones, at, remoteShown, about, proxy, plist, daemon, revoking, asked, changes,
  enabled, files, index, memoryAt, name, todo, found, memoryOn, alone, calls, deaths

(* The sessions are alike.                                                  *)
Symmetry == Permutations({s1, s2}) 

(* Each prompt of the phone and the Mac has its own text.                   *)
Tracker == INSTANCE Outcomes WITH
  Phone <- {i1, i2}, Mac <- {m1}, TextOf <- [e \in {i1, i2, m1} |-> e],
  KEPT <- 2, QUIET_LOOKS <- 2, Slow <- {i1, i2, m1}
Jobs == INSTANCE Shells WITH
  Call <- {c1, c2}, Session <- {s1, s2}, MaxFinishedJobs <- 1, MaxHolds <- 1,
  Prompting <- {c1}, DiesHolding <- FALSE, queue <- shellQueue
Monitor == INSTANCE Monitors WITH
  BatchWindow <- 1, Capacity <- 1, Refill <- 3, MaxSuppress <- 2, Ws <- TRUE,
  RegistryFull <- FALSE, MaxTime <- 8, MaxLines <- 6
Deny == INSTANCE DenyRules WITH
  Path <- {f, l, rel}, Relative <- {rel}, Linked <- {l}, Target <- f, Program <- {rm}, Query <- {q1},
  RuleVerb <- {"read", "edit", "bash"}, Wraps <- {0, 4, 5}, EditBound <- 1
Checkpoints == INSTANCE Checkpoints WITH
  File <- {f1, f2}, Tracked <- {f2}, KEPT <- 2, PromptBound <- 2, WriteBound <- 2,
  ToolBound <- 1, RewindBound <- 2
Remote == INSTANCE RemoteCommand WITH
  Term <- {t1, t2}, Phone <- {p1, p2}, ChangeBound <- 2, shown <- remoteShown
Memory == INSTANCE Memory WITH
  Unreadable <- "unreadable", Pane <- {t1, t2}, Name <- {1, 2}, Fact <- {g1, g2},
  CallBound <- 4, DieBound <- 1, at <- memoryAt, on <- memoryOn

promptVars ==
  <<waiting, queued, others, settled, quietLooks, compacting, started, looks, stage,
    streamed, queue, running, forgotten, misled>>
shellVars ==
  <<up, current, last, pending, holds, shellQueue, jobs, shells, owner, answer, process,
    log, stops>>
monitorVars ==
  <<now, written, taken, timer, tokens, lastTake, suppressed, suppressedSince,
    lastSuppressedAt, exit, killed, events, registered, sent, suppressedAt, output>>
ruleVars ==
  <<global, project, trusted, deny, call, blocked, shown, edits>>
checkpointVars ==
  <<tree, writes, branch, created, snaps, refs, prompts, capture, caught, prunes,
    tools, runs, menu, net, rewinds, unseen, astray>>
remoteVars ==
  <<on, phones, at, remoteShown, about, proxy, plist, daemon, revoking, asked, changes>>
memoryVars ==
  <<enabled, files, index, memoryAt, name, todo, found, memoryOn, alone, calls, deaths>>

(* The phones' prompts are alike: they come in turn. *)
InTurn ==
  /\ stage'[i2] # "none" => stage'[i1] # "none"

(* Of two prompts, a tool call, two writes and two rewinds there are five,  *)
(* with captures seven, and one prune runs at a time.                       *)
FewAtOnce ==
  LET done == prompts' + runs' + writes' + rewinds'
  IN  done <= 5 /\ done + Len(snaps') <= 7 /\ Cardinality(prunes') <= 1

terminalInit ==
  /\ part \in {"prompts", "shells", "monitor", "deny", "accounts", "checkpoints", "remote",
       "memory"}
  /\ Init
  /\ Tracker!Init
  /\ Jobs!Init
  /\ Monitor!Init
  /\ Deny!Init
  /\ Checkpoints!Init
  /\ Remote!Init
  /\ Memory!Init
  /\ project = [readable |-> TRUE, rules |-> {}]   \* until it changes
  /\ part # "deny" => global = project /\ trusted
  /\ part # "remote" => proxy = "none"

terminalNext ==
  \/ part = "prompts" /\ Tracker!Next /\ InTurn /\ UNCHANGED
       <<part, shellVars, monitorVars, ruleVars, vars,
         checkpointVars, remoteVars, memoryVars>>
  \/ part = "shells" /\ Jobs!Next /\ UNCHANGED
       <<part, promptVars, monitorVars, ruleVars, vars,
         checkpointVars, remoteVars, memoryVars>>
  \/ part = "monitor" /\ Monitor!Next /\ UNCHANGED
       <<part, promptVars, shellVars, ruleVars, vars,
         checkpointVars, remoteVars, memoryVars>>
  \/ part = "deny" /\ Deny!Next /\ UNCHANGED
       <<part, promptVars, shellVars, monitorVars, vars,
         checkpointVars, remoteVars, memoryVars>>
  \/ part = "accounts" /\ Next /\ UNCHANGED
       <<part, promptVars, shellVars, monitorVars, ruleVars,
         checkpointVars, remoteVars, memoryVars>>
  \/ part = "checkpoints" /\ Checkpoints!Next /\ FewAtOnce /\ UNCHANGED
       <<part, promptVars, shellVars, monitorVars, ruleVars,
         vars, remoteVars, memoryVars>>
  \/ part = "remote" /\ Remote!Next /\ UNCHANGED
       <<part, promptVars, shellVars, monitorVars, ruleVars,
         vars, checkpointVars, memoryVars>>
  \/ part = "memory" /\ Memory!Next /\ UNCHANGED
       <<part, promptVars, shellVars, monitorVars, ruleVars,
         vars, checkpointVars, remoteVars>>

terminalSpec == terminalInit /\ [][terminalNext]_<<part, promptVars, shellVars, monitorVars, ruleVars, vars, checkpointVars, remoteVars, memoryVars>>

(* What the tracker reports of a prompt is so (Outcomes).                   *)
ReportedTrue == part = "prompts" => Tracker!TypeOK /\ Tracker!SeenWasQueued /\ Tracker!LostIsDropped

(* A shell's end is told once and last, and its job is kept while it runs   *)
(* (Shells).                                                                *)
ShellsTold ==
  part = "shells" =>
    Jobs!TypeOK /\ Jobs!RecordedIsTold /\ Jobs!EndIsLast /\ Jobs!RunningKept

(* What a monitor tells of its lines, and how fast (Monitors).              *)
MonitorTold ==
  part = "monitor" =>
    Monitor!TypeOK /\ Monitor!LinesTold /\ Monitor!RateKept /\ Monitor!StoppedWhenSustained

(* No call a rule denies runs, however it is written (DenyRules); no grant  *)
(* is stored twice (Accounts); there is a checkpoint before what a prompt   *)
(* does, and one to undo the last restore (Checkpoints); and a daemon is    *)
(* left (RemoteCommand).                                                    *)
TerminalKept ==
  /\ part = "deny" => Deny!RulesHold
  /\ part = "accounts" => GrantOnce
  /\ part = "checkpoints" => Checkpoints!CheckpointBefore /\ Checkpoints!NetKept
  /\ part = "remote" => Remote!TypeOK /\ Remote!DaemonLeft
  /\ part = "memory" => Memory!TypeOK

(* Nothing is said of a monitor that is over (Monitors).                    *)
SilentOnceOver == Monitor!SilentOnceOver

(* A rewind can be undone, and leaves no file of the agent's (Checkpoints). *)
RewindsRight == Checkpoints!Undoable /\ Checkpoints!AgentsGone

(* Nothing is turned on or given away but what was asked (RemoteCommand),   *)
(* and memories changed alone are listed as they are (Memory).              *)
OnlyAsked == Remote!OnlyAsked /\ Memory!HealsAlone
====
