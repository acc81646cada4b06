---- MODULE MCRuns ----
(***************************************************************************)
(* Model checking an orchestrator's runs, a part at a time: their launches,*)
(* ends and reports as the orchestrator keeps them ("runs"), what a run's  *)
(* own pi tells it ("report"), and the usage it counts ("usage").          *)
(***************************************************************************)
EXTENDS SubagentRuns

CONSTANTS r1, s2, s3

VARIABLES
  part,
  reportUp, turn, running, open, reportCurrent, reportTold, sending, settled,
  reportInbox, heard, dialogs, lost,
  holds, owner, in, file, paned, working, reopened, wire, hearing, base, sessions,
  counted, losses, resumes, turns, copied, missed

Pi == INSTANCE RunReports WITH
  Run <- {r1}, TurnBound <- 3, DialogBound <- 1, LossBound <- 1, up <- reportUp,
  current <- reportCurrent, told <- reportTold, inbox <- reportInbox
Usage == INSTANCE RunUsage WITH
  Run <- {1, 2}, Session <- Session \cup {s2, s3}, Old <- {1}, TurnBound <- 2,
  WireBound <- 1, LossBound <- 1, ResumeBound <- 1

reportVars ==
  <<reportUp, turn, running, open, reportCurrent, reportTold, sending, settled,
    reportInbox, heard, dialogs, lost>>
usageVars ==
  <<holds, owner, in, file, paned, working, reopened, wire, hearing, base, sessions,
    counted, losses, resumes, turns, copied, missed>>

allInit ==
  /\ part \in {"runs", "report", "usage"}
  /\ Init
  /\ Pi!Init
  /\ Usage!Init
  /\ part # "usage" => file[1] = s2 /\ file[2] = s3

allNext ==
  \/ part = "runs" /\ Next /\ UNCHANGED <<part, reportVars, usageVars>>
  \/ part = "report" /\ Pi!Next /\ UNCHANGED <<part, vars, usageVars>>
  \/ part = "usage" /\ Usage!Next /\ UNCHANGED <<part, vars, reportVars>>

allSpec == allInit /\ [][allNext]_<<part, vars, reportVars, usageVars>>

(* Every turn's usage is counted once, and once more with each session a   *)
(* fork begins with it (RunUsage); a run is shown as what its pi does, and *)
(* its report does not come before it shows as idle (RunReports).          *)
HeardAndCounted ==
  /\ [](part = "usage" => Usage!CountedOnce)
  /\ [](part = "report" => Pi!TypeOK /\ Pi!HeardTrue)
  /\ Pi!IdleFirst
====
