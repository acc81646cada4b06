---- MODULE MCAgentView ----
(***************************************************************************)
(* Model checking agent view and the dialogs beside it, a part at a time:  *)
(* its rows and keys ("stops" and "replies"), the terminals and panes it   *)
(* moves between ("window"), the composer ("composer"), the order of a     *)
(* band ("order"), the rows it collects ("rows"), its `!` commands (one    *)
(* with its processes, "tree", and two peeked at, "peeks"), the tasks'     *)
(* dialog ("tasks") and the suggestions in the editor ("assist").          *)
(***************************************************************************)
EXTENDS Naturals, FiniteSets, Sequences

CONSTANTS None, t1, t2, i1, r1, a, b, p1, p2, p3, c1, c2, f1, s1, g1, w1, w2, n1, n2

VARIABLES
  part,
  session, instances, asked, answer, deleted, since, deleting, selected, lastIndex,
  armed, mode, renameFrom, reply, drafts, replying, opening, opens, left,
  pi, normal, home, blank, busy, hook, view, viewed, shown, moving, end,
  draft, held, next, last, version, pasting, editing, edits, composerMode, focus,
  before, model, dir, composerShown,
  there, order, rows, known, pending, presses, pressed, list, again,
  daemon, collectedList, self,
  shellSession, exit, flagged, born, alive, killed, stop, missed, shells, shellAsked,
  shellList, peeked, loads, output, read,
  taskOrder, done, starts, open, focusId, focusIndex, focusLost, detail, direct, frame,
  drawn, taskAsked, closing, dismissed,
  text, apt, phase, talk, tree, assistSession, enabled, assistModel, saved, timer, call,
  suggestion, attempted, naming, names, infos, changes

Stops == INSTANCE AgentView WITH
  Rows <- 2, Keys <- {"stop", "open"}
Replies == INSTANCE AgentView WITH
  Rows <- 3, Keys <- {"reply"}
Window == INSTANCE PaneWindow WITH
  Term <- {t1, t2}, Pane <- {p1, p2, p3}
Composer == INSTANCE ViewComposer WITH
  Text <- {t1}, Image <- {i1}, Row <- {r1}, LenBound <- 2, DraftBound <- 2,
  EditBound <- 1, mode <- composerMode, shown <- composerShown
Band == INSTANCE ViewOrder WITH
  N <- 3, Old <- {1, 2}, PressBound <- 2, PressTotal <- 2
Rows == INSTANCE ViewRows WITH
  Id <- {a, b}, Pane <- {p1, p2}, Own <- p1, list <- collectedList
Tree == INSTANCE ViewShells WITH
  Command <- {c1}, Proc <- {"shell", "child", "grand"}, LoadBound <- 1,
  session <- shellSession, asked <- shellAsked, list <- shellList
Peeks == INSTANCE ViewShells WITH
  Command <- {c1, c2}, Proc <- {}, LoadBound <- 2, session <- shellSession,
  asked <- shellAsked, list <- shellList
Tasks == INSTANCE TasksPanel WITH
  Fore <- {f1}, Shell <- {s1}, Socket <- {}, Agent <- {g1}, StartBound <- 3,
  order <- taskOrder, asked <- taskAsked
Assist == INSTANCE PromptAssist WITH
  Text <- {"", "/", "text"}, Empty <- "", Command <- "/", Session <- {w1, w2},
  Model <- {n1, n2}, Meanwhile <- FALSE, TalkBound <- 1, ChangeBound <- 2,
  session <- assistSession, model <- assistModel

rowVars ==
  <<session, instances, asked, answer, deleted, since, deleting, selected, lastIndex,
    armed, mode, renameFrom, reply, drafts, replying, opening, opens, left>>
windowVars ==
  <<pi, normal, home, blank, busy, hook, view, viewed, shown, moving, end>>
composerVars ==
  <<draft, held, next, last, version, pasting, editing, edits, composerMode, focus,
    before, model, dir, composerShown>>
bandVars ==
  <<there, order, rows, known, pending, presses, pressed, list, again>>
collectedVars ==
  <<daemon, collectedList, self>>
shellVars ==
  <<shellSession, exit, flagged, born, alive, killed, stop, missed, shells, shellAsked,
    shellList, peeked, loads, output, read>>
taskVars ==
  <<taskOrder, done, starts, open, focusId, focusIndex, focusLost, detail, direct,
    frame, drawn, taskAsked, closing, dismissed>>
assistVars ==
  <<text, apt, phase, talk, tree, assistSession, enabled, assistModel, saved, timer,
    call, suggestion, attempted, naming, names, infos, changes>>

(* Panes are alike, and so are terminals: panes are started in turn, the    *)
(* first from the first terminal.                                           *)
InTurn ==
  /\ home'[p1] \in {None, t1}
  /\ pi'[p2] # "unused" => pi'[p1] # "unused"
  /\ pi'[p3] # "unused" => pi'[p2] # "unused"

(* Replies are typed while no row is renamed, and rows of sessions that run go away. *)
RepliesOnly == mode' # "rename" /\ \A r \in DOMAIN session : session'[r] # "stopped"

viewInit ==
  /\ part \in {"stops", "replies", "window", "composer", "order", "rows", "tree", "peeks",
       "tasks", "assist"}
  /\ IF part = "stops" THEN Stops!Init ELSE Replies!Init
  /\ Window!Init
  /\ Composer!Init
  /\ Band!Init
  /\ Rows!Init
  /\ IF part = "tree" THEN Tree!Init ELSE Peeks!Init
  /\ Tasks!Init
  /\ Assist!Init
  /\ part # "stops" => \A r \in DOMAIN session : session[r] = "live"
  /\ part # "rows" => self.id = a
  /\ part # "assist" => assistSession = w1 /\ assistModel = n1

viewNext ==
  \/ part = "stops" /\ Stops!Next /\ UNCHANGED
       <<part, windowVars, composerVars, bandVars, collectedVars, shellVars, taskVars,
         assistVars>>
  \/ part = "replies" /\ Replies!Next /\ RepliesOnly /\ UNCHANGED
       <<part, windowVars, composerVars, bandVars, collectedVars, shellVars, taskVars,
         assistVars>>
  \/ part = "window" /\ Window!Next /\ InTurn /\ UNCHANGED
       <<part, rowVars, composerVars, bandVars, collectedVars, shellVars, taskVars,
         assistVars>>
  \/ part = "composer" /\ Composer!Next /\ UNCHANGED
       <<part, rowVars, windowVars, bandVars, collectedVars, shellVars, taskVars,
         assistVars>>
  \/ part = "order" /\ Band!Next /\ UNCHANGED
       <<part, rowVars, windowVars, composerVars, collectedVars, shellVars, taskVars,
         assistVars>>
  \/ part = "rows" /\ Rows!Next /\ UNCHANGED
       <<part, rowVars, windowVars, composerVars, bandVars, shellVars, taskVars,
         assistVars>>
  \/ part = "tree" /\ Tree!Next /\ UNCHANGED
       <<part, rowVars, windowVars, composerVars, bandVars, collectedVars, taskVars,
         assistVars>>
  \/ part = "peeks" /\ Peeks!Next /\ UNCHANGED
       <<part, rowVars, windowVars, composerVars, bandVars, collectedVars, taskVars,
         assistVars>>
  \/ part = "tasks" /\ Tasks!Next /\ UNCHANGED
       <<part, rowVars, windowVars, composerVars, bandVars, collectedVars, shellVars,
         assistVars>>
  \/ part = "assist" /\ Assist!Next /\ UNCHANGED
       <<part, rowVars, windowVars, composerVars, bandVars, collectedVars, shellVars,
         taskVars>>

viewSpec == viewInit /\ [][viewNext]_<<part, rowVars, windowVars, composerVars, bandVars, collectedVars, shellVars, taskVars, assistVars>>

(* The rows the view lists are the sessions there are, each once            *)
(* (ViewRows), none it deleted comes back (AgentView), and no row is left   *)
(* without a session (PaneWindow).                                          *)
RowsTrue ==
  /\ part = "rows" => Rows!ListedOnce
  /\ part = "stops" => Stops!TypeOK /\ Stops!DeletedGone
  /\ part = "replies" => Replies!RepliesMeant
  /\ part = "window" => Window!NoneLeftEmpty

(* A stop reaches the whole command, and a peek has its own command's       *)
(* output (ViewShells).                                                     *)
CommandsTrue ==
  /\ part = "tree" => Tree!TypeOK /\ Tree!WholeTree
  /\ part = "peeks" => Peeks!PeekTrue

(* A draft's tokens stand for what it holds, and it sends the images it     *)
(* shows (ViewComposer); a suggestion shown after one is of things as they  *)
(* are (PromptAssist).                                                      *)
DraftTrue ==
  /\ part = "composer" => Composer!TypeOK /\ Composer!TokensHold /\ Composer!SendsShown
  /\ part = "assist" => Assist!TypeOK /\ Assist!SuggestsAsIs

(* A key acts on the row or task the user saw when it was pressed           *)
(* (AgentView, TasksPanel), and a title is of the session it was made for   *)
(* (PromptAssist).                                                          *)
KeysMeant ==
  /\ Stops!NoOtherStopped /\ Stops!RenamesMeant /\ Stops!LeavesMeant /\ Tasks!NoOtherTask
  /\ Assist!TitledRight

(* A background session goes on when its terminal closes (PaneWindow).      *)
KeepsRunning == Window!KeepsRunning

(* Only presses move rows, and hidden ones keep their place (ViewOrder).    *)
OrderKept == Band!OnlyPressesMove /\ Band!HiddenKeepPlace
====
