---- MODULE MCProgress ----
(***************************************************************************)
(* Model checking what must end, a part at a time: the prompts a pane      *)
(* reports on ("prompts"), the way of a prompt to its pane and of its      *)
(* outcome back ("path"), a shell's end ("shells"), a daemon's start and  *)
(* replacement ("daemon"), a run that is stopped ("run") and the commands  *)
(* remote control waits for ("serve").  Each part is fair as its own       *)
(* module says, in the behaviours that are its own.                        *)
(***************************************************************************)
EXTENDS Outcomes

CONSTANTS i1, i2, m1, c1, c2, s1, s2, r1, n1, n2, f1, row, pane, None

VARIABLES
  part,
  up, current, last, pending, holds, shellQueue, jobs, shells, owner, answer, process,
  log, stops,
  sock, st, old, pc, troubles,
  status, gen, stopped, exec, result, disk, unstored, panes, rows, endpoint, msg, fails,
  text, printed, heard, child, code, killed, timer, serveSettled, calls,
  prompts, inboxes, life, rowFile, silentFile, hasReport, sentFor, acceptedIn, givenUp, cutOff,
  session, file, next, switches, replies, busy, given, queuedIn, said, outbox, oldbox, lossy

(* Each prompt of the phone and the Mac has its own text.                   *)
OwnTexts == [e \in Entrant |-> e]

(* What `tailscale serve` and its like print, a piece at a time.            *)
Printed ==
  {<<"other">>, <<"line", "space", "link", "more", "space">>, <<"line", "link", "space", "other">>,
   <<"other", "link", "more", "space", "line">>, <<"line", "space", "link", "more">>}

Jobs == INSTANCE Shells WITH
  Call <- {c1, c2}, Session <- {s1, s2}, MaxFinishedJobs <- 1, MaxHolds <- 1,
  Prompting <- {c1}, DiesHolding <- FALSE, queue <- shellQueue
Life == INSTANCE DaemonLife WITH
  Clients <- {1, 2}, DaemonBound <- 4, TroubleBound <- 1
Sched == INSTANCE RunScheduler WITH
  Run <- {r1}, Message <- {n1, n2}, GenBound <- 1, FailBound <- 2
Serve == INSTANCE ServeCommand WITH
  Texts <- Printed, settled <- serveSettled
Path == INSTANCE PanePath WITH
  Id <- {i1, i2}, Note <- {}, Row <- {row}, Pane <- {pane}, InboxBound <- 2,
  PaneRow <- row, ThePane <- pane, File <- {f1}, FirstFile <- f1,
  BeatBound <- 1, ReportBound <- 1, LifeBound <- 1, SwitchBound <- 2, AgeBound <- 0, CalmLife <- 2,
  stage <- session, settled <- said

shellVars ==
  <<up, current, last, pending, holds, shellQueue, jobs, shells, owner, answer, process,
    log, stops>>
daemonVars ==
  <<sock, st, old, pc, troubles>>
runVars ==
  <<status, gen, stopped, exec, result, disk, unstored, panes, rows, endpoint, msg, fails>>
serveVars ==
  <<text, printed, heard, child, code, killed, timer, serveSettled, calls>>
pathVars ==
  <<prompts, inboxes, life, rowFile, silentFile, hasReport, sentFor, acceptedIn, givenUp, cutOff,
    session, file, next, switches, replies, busy, given, queuedIn, said, outbox, oldbox, lossy>>

(* Bound: two shells in one session, or one shell in two.                    *)
ShellBound == process'[c2] = "none" \/ ~log'[s2].exists

allInit ==
  /\ part \in {"prompts", "shells", "daemon", "run", "serve", "path"}
  /\ Init
  /\ Jobs!Init
  /\ Life!Init
  /\ Sched!Init
  /\ Serve!Init
  /\ Path!Init
  /\ part # "daemon" => sock = None /\ old = {}
  /\ part # "serve" => text = <<"other">>

allNext ==
  \/ part = "prompts" /\ Next /\ UNCHANGED <<part, shellVars, daemonVars, runVars, serveVars, pathVars>>
  \/ part = "shells" /\ Jobs!Next /\ ShellBound /\ UNCHANGED <<part, vars, daemonVars, runVars, serveVars, pathVars>>
  \/ part = "daemon" /\ Life!Next /\ UNCHANGED <<part, vars, shellVars, runVars, serveVars, pathVars>>
  \/ part = "run" /\ Sched!Next /\ UNCHANGED <<part, vars, shellVars, daemonVars, serveVars, pathVars>>
  \/ part = "serve" /\ Serve!Next /\ UNCHANGED <<part, vars, shellVars, daemonVars, runVars, pathVars>>
  \/ part = "path" /\ Path!Next /\ UNCHANGED <<part, vars, shellVars, daemonVars, runVars, serveVars>>

Mine(p, step) == part = p /\ step

allFairness ==
  /\ WF_vars(Mine("prompts", Heartbeat))
  /\ WF_vars(Mine("prompts", Tick))
  /\ \A e \in Entrant :
       WF_vars(Mine("prompts", Input(e))) /\ WF_vars(Mine("prompts", HandlersDone(e)))
  /\ WF_vars(Mine("prompts", AgentSettled \/ \E e \in Entrant : StartQueued(e)))
  /\ []<>(holds = 0)
  /\ WF_shellVars(Mine("shells",
       (\E s \in {s1, s2}, reason \in {"new", "resume", "fork", "reload"} : Jobs!SessionStart(s, reason)) /\ ShellBound))
  /\ \A c \in {1, 2} : WF_daemonVars(Mine("daemon", Life!PaneSteps(c)))
  /\ \A d \in Life!Daemons : WF_daemonVars(Mine("daemon", Life!DaemonSteps(d)))
  /\ WF_runVars(Mine("run", Sched!ExecuteEnds(r1))) /\ WF_runVars(Mine("run", Sched!ExecuteThrew(r1)))
  /\ WF_runVars(Mine("run", Sched!Finalize(r1))) /\ WF_runVars(Mine("run", Sched!FinalizeAgain(r1)))
  /\ WF_runVars(Mine("run", Sched!Settle(r1)))
  /\ \A m \in {n1, n2} : WF_runVars(Mine("run", Sched!Delivered(m) \/ Sched!GivesUp(m)))
  /\ WF_pathVars(Mine("path", Path!Beat \/ Path!BeatElsewhere))
  /\ WF_pathVars(Mine("path", Path!EmptyArrives))
  /\ \A i \in {i1, i2} : WF_pathVars(Mine("path", Path!ArrivesWith(i)))
  /\ WF_pathVars(Mine("path", Path!PiGoesOn)) /\ WF_pathVars(Mine("path", Path!EndGoesOn))
  /\ WF_pathVars(Mine("path", Path!ReportSent \/ Path!OldReportSent))
  /\ WF_pathVars(Mine("path", Path!Reaped))

allSpec == allInit /\ [][allNext]_<<part, vars, shellVars, daemonVars, runVars, serveVars, pathVars>> /\ allFairness

(* What is stored of a run, and the link that is told, are right            *)
(* (RunScheduler, ServeCommand).                                            *)
RunAndLinkTrue ==
  /\ part = "run" => Sched!TypeOK /\ Sched!Durable
  /\ part = "serve" => Serve!LinkTold
  /\ part = "daemon" => Life!TypeOK

(* What is owed is paid: a phone's prompt is not queued for ever            *)
(* (Outcomes!QueuedSettles), a shell's end is told (Shells!EndsTold) and a  *)
(* run that is to stop becomes final (RunScheduler!StopsSettle).  The       *)
(* prompts are alike, and so are the shells but for the input c1 waits for. *)
Owed ==
  \/ part = "prompts" /\ ~NotQueued(i1)
  \/ part = "shells" /\ Jobs!IsOver(c1)
  \/ part = "run" /\ status[r1] = "stopping"
Paid ==
  /\ part = "prompts" => NotQueued(i1)
  /\ part = "shells" => Jobs!IsTold(c1)
  /\ part = "run" => status[r1] \in Sched!Final
OwedIsPaid == Owed ~> Paid

(* A prompt the daemon accepted is settled in time (PanePath!Settles).      *)
PathSettles ==
  []<>(part = "path" => \A i \in {i1, i2} : Path!Open(prompts[i]) => acceptedIn[i] # life \/ lossy)

(* The daemon is reached, and replaced (DaemonLife!Reached and Replaced), by *)
(* one pane: the panes are alike.                                           *)
DaemonThere == Life!Reaches(1) /\ Life!Replaces(1)
====
