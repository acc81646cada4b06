---- MODULE MCRegistryParts ----
(***************************************************************************)
(* Model checking the registry, a few of its events at a time: two panes   *)
(* that share a session ("table", and "lost" where requests fail), one     *)
(* pane that does all it may ("alone", and "started" where its session is  *)
(* started too, and "unsure" where tmux cannot say of it), and a run and   *)
(* its orchestrator ("runs", "failing" where tmux cannot say of them, and  *)
(* "opened" where another pane opens the run's session once it ended).     *)
(***************************************************************************)
EXTENDS TLC

CONSTANTS p1, p2, p3, p4, p5, f1, f2, f3, u1, i1, None

VARIABLES
  part,
  rows, stored, deleted, dropped, waits, files, prompts, inboxes, life, on, handoffs,
  asked, buried, erased, ended

NoRuns == [p \in {p1, p2} |-> None]
NoRun == [p \in {p3} |-> None]
OneRun == (p3 :> None) @@ (p4 :> p3)
RunOpened == OneRun @@ (p5 :> None)
TableEvents == {"die", "delete"}
LostEvents == {"die", "request lost"}
AloneEvents == {"report", "wait", "move", "delete", "unlist", "restart"}
StartedEvents == {"start", "move", "delete", "unlist", "restart"}
UnsureEvents == {"delete", "move", "tmux fails"}
RunsEvents == {"delete"}
FailingEvents == {"die", "tmux fails"}

Table == INSTANCE Registry WITH
  Id <- {i1}, Note <- {}, Pane <- {p1, p2}, Row <- {p1, p2, u1}, File <- {f3},
  Parent <- NoRuns, Pins <- {}, InboxBound <- 1, Events <- TableEvents
Lost == INSTANCE Registry WITH
  Id <- {i1}, Note <- {}, Pane <- {p1, p2}, Row <- {p1, p2, u1}, File <- {f3},
  Parent <- NoRuns, Pins <- {}, InboxBound <- 1, Events <- LostEvents
Alone == INSTANCE Registry WITH
  Id <- {i1}, Note <- {}, Pane <- {p3}, Row <- {p3, u1}, File <- {f1, f2},
  Parent <- NoRun, Pins <- {TRUE}, InboxBound <- 1, Events <- AloneEvents
Started == INSTANCE Registry WITH
  Id <- {}, Note <- {}, Pane <- {p3}, Row <- {p3, u1}, File <- {f1, f2},
  Parent <- NoRun, Pins <- {TRUE}, InboxBound <- 1, Events <- StartedEvents
Unsure == INSTANCE Registry WITH
  Id <- {}, Note <- {}, Pane <- {p3}, Row <- {p3, u1}, File <- {f1, f2},
  Parent <- NoRun, Pins <- {TRUE}, InboxBound <- 1, Events <- UnsureEvents
Runs == INSTANCE Registry WITH
  Id <- {}, Note <- {}, Pane <- {p3, p4}, Row <- {p3, p4, u1}, File <- {f1, f2},
  Parent <- OneRun, Pins <- {}, InboxBound <- 1, Events <- RunsEvents
Failing == INSTANCE Registry WITH
  Id <- {}, Note <- {}, Pane <- {p3, p4}, Row <- {p3, p4, u1}, File <- {f1, f2},
  Parent <- OneRun, Pins <- {}, InboxBound <- 1, Events <- FailingEvents

Opened == INSTANCE Registry WITH
  Id <- {}, Note <- {}, Pane <- {p3, p4, p5}, Row <- {p3, p4, p5, u1}, File <- {f1, f2},
  Parent <- RunOpened, Pins <- {}, InboxBound <- 1, Events <- RunsEvents

partsVars ==
  <<rows, stored, deleted, dropped, waits, files, prompts, inboxes, life, on, handoffs,
    asked, buried, erased, ended>>

partsInit ==
  \/ part = "table" /\ Table!RInit
  \/ part = "lost" /\ Lost!RInit
  \/ part = "alone" /\ Alone!RInit
  \/ part = "started" /\ Started!RInit
  \/ part = "unsure" /\ Unsure!RInit
  \/ part = "runs" /\ Runs!RInit
  \/ part = "failing" /\ Failing!RInit
  \/ part = "opened" /\ Opened!RInit

(* The bounds of "opened": the third pane opens the session of the run,    *)
(* which has ended; no other session has a file, and no heartbeat is late. *)
AfterTheRun ==
  /\ life'[p5] = "up" => life[p4] \in {"quit", "past"} /\ on'[p5] = on[p4]
  /\ files' \subseteq {on[p4]}
  /\ \A r \in {p3, p4, p5, u1} : rows'[r].pane # None => ~rows'[r].pane.lapsed

partsNext ==
  /\ UNCHANGED part
  /\ \/ part = "table" /\ Table!RNext
     \/ part = "lost" /\ Lost!RNext
     \/ part = "alone" /\ Alone!RNext
     \/ part = "started" /\ Started!RNext
     \/ part = "unsure" /\ Unsure!RNext
     \/ part = "runs" /\ Runs!RNext
     \/ part = "failing" /\ Failing!RNext
     \/ part = "opened" /\ Opened!RNext /\ AfterTheRun

partsSpec == partsInit /\ [][partsNext]_<<part, partsVars>>

(* The two panes that share a session are alike, and so are the files.     *)
Symmetry == Permutations({p1, p2}) \cup Permutations({f1, f2})

(* What the table keeps of panes, inboxes and prompts (Registry).          *)
TableSound ==
  /\ part = "table" =>
       /\ Table!RegistryTypeOK /\ Table!PaneOnce /\ Table!InboxOfLive /\ Table!GivenListed
       /\ Table!BuriedStayGone
  /\ part = "lost" => Lost!PaneOnce /\ Lost!InboxOfLive /\ Lost!GivenListed
  /\ part = "runs" => Runs!PaneOnce /\ Runs!BuriedStayGone

(* No wait is left behind, a pin survives a restart, and a deleted row      *)
(* stays away while nothing brings it back (Registry).                      *)
AloneTrue ==
  /\ part = "alone" =>
       Alone!RegistryTypeOK /\ Alone!NoLostWakeup /\ Alone!PinSurvives /\ Alone!DeletedStayAway
  /\ part = "started" => Started!PinSurvives /\ Started!DeletedStayAway
  /\ part = "unsure" => Unsure!DeletedStayAway

(* The daemon ends the pi of no other row (Registry).                       *)
EndsNoOther ==
  /\ part = "runs" => Runs!EndsNoOther
  /\ part = "failing" => Failing!EndsNoOther
  /\ part = "opened" => Opened!EndsNoOther

(* A prompt told lost is one whose pane is gone, the runs of a deleted row  *)
(* go with it, and nothing else does (Registry).                            *)
RowsGoRight ==
  [][/\ part = "alone" => Alone!LosesOnlyGone
     /\ part = "runs" => Runs!RunsGo
     /\ part = "failing" => Failing!RunsGo
     /\ part = "opened" => Opened!RunsGo]_partsVars
====
