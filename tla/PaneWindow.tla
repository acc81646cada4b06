---- MODULE PaneWindow ----
(***************************************************************************)
(* A pane and the terminals that show it (ext/agent-view/index.ts,         *)
(* daemon/tmux.ts): `pi` in a terminal starts its session as a pane of the *)
(* private tmux server and attaches to it. Such a session is normal until  *)
(* <- opens agent view: it ends with its terminal. Any other runs on when  *)
(* its terminal leaves or closes, but for one nothing was asked in, which  *)
(* ends; deleting the terminal's own session moves it to a new pane first. *)
(***************************************************************************)
EXTENDS Naturals

CONSTANTS Term, Pane, None

VARIABLES
  pi,      \* each pane's pi: "unused", "on" or "ended"
  normal,  \* the panes whose session is a normal one
  home,    \* the terminal `pi` was started in, for the panes started that way
  blank,   \* the panes nothing has been asked in
  busy,    \* the panes with a turn running
  hook,    \* the panes tmux ends when a terminal showing them detaches or closes
  view,    \* the panes showing agent view
  viewed,  \* the panes that ever showed agent view
  shown,   \* the pane each terminal shows
  moving,  \* deleting its own session: the pane, the new one, and how far it is
  end      \* how the pane that ended last did

paneVars == <<pi, normal, home, blank, busy, hook, view, viewed>>
vars == <<paneVars, shown, moving, end>>

On == {p \in Pane : pi[p] = "on"}
Showing(p) == {t \in Term : shown[t] = p}
Still == [pane |-> None, next |-> None, at |-> "no"]

Init ==
  /\ pi = [p \in Pane |-> "unused"] /\ home = [p \in Pane |-> None]
  /\ normal = {} /\ blank = {} /\ busy = {} /\ hook = {} /\ view = {} /\ viewed = {}
  /\ shown = [t \in Term |-> None] /\ moving = Still /\ end = [pane |-> None, by |-> None, at |-> None]

(* syncEndOnDetach, where the session is p's; N and B: the normal and the blank panes. *)
Synced(p, N, B) == IF p \in N \cup B THEN hook \cup {p} ELSE hook \ {p}

(* A new pane, whose session_start finds it blank. *)
Starts(p) ==
  /\ pi[p] = "unused" /\ pi' = [pi EXCEPT ![p] = "on"]
  /\ blank' = blank \cup {p} /\ hook' = Synced(p, {}, {p})

(* Pane p ends, and every terminal that shows it is back at its shell. *)
Ends(p, by, t) ==
  /\ pi' = [pi EXCEPT ![p] = "ended"]
  /\ shown' = [u \in Term |-> IF shown[u] = p \/ u = t THEN None ELSE shown[u]]
  /\ end' = [pane |-> p, by |-> by, at |-> t]

---------------------------------------------------------------------------
(* launchInTmux *)
Launches(t, p) ==
  /\ shown[t] = None /\ Starts(p)
  /\ normal' = normal \cup {p} /\ home' = [home EXCEPT ![p] = t] /\ shown' = [shown EXCEPT ![t] = p]
  /\ UNCHANGED <<busy, view, viewed, moving, end>>

(* agent_start *)
Asked(p) ==
  /\ p \in On \ busy /\ ((Showing(p) # {} /\ p \notin view) \/ p \notin blank)
  /\ blank' = blank \ {p} /\ busy' = busy \cup {p} /\ hook' = Synced(p, normal, blank')
  /\ UNCHANGED <<pi, normal, home, view, viewed, shown, moving, end>>

Settles(p) ==
  /\ p \in busy /\ busy' = busy \ {p}
  /\ UNCHANGED <<pi, normal, home, blank, hook, view, viewed, shown, moving, end>>

(* /new: the pane goes on with a session nothing was asked in. *)
NewSession(p) ==
  /\ p \in On \ (busy \cup view \cup blank) /\ Showing(p) # {}
  /\ blank' = blank \cup {p} /\ hook' = Synced(p, normal, blank')
  /\ UNCHANGED <<pi, normal, home, busy, view, viewed, shown, moving, end>>

(* A mutant: <- opens agent view, and the session ends with its terminal as before. *)
StaysNormal(p) == normal
Backgrounded(p) == normal \ {p}

(* openAgentView, by <- on an empty prompt *)
OpensView(p) ==
  /\ p \in On \ view /\ Showing(p) # {}
  /\ view' = view \cup {p} /\ viewed' = viewed \cup {p} /\ normal' = Backgrounded(p) /\ hook' = Synced(p, normal', blank)
  /\ UNCHANGED <<pi, home, blank, busy, shown, moving, end>>

(* esc; where agent view has no session of this terminal's, esc quits. *)
ClosesView(p) ==
  /\ p \in view /\ moving.pane # p /\ (home[p] # None \/ p \notin blank)
  /\ view' = view \ {p}
  /\ UNCHANGED <<pi, normal, home, blank, busy, hook, viewed, shown, moving, end>>

(* leavePane: its terminal is back at its shell; a pane with nothing in it ends. tmux detaches the *)
(* terminal that was used last, and ends the pane if it is to end then.                            *)
Leaves(t, p) ==
  IF p \in blank \cup hook THEN Ends(p, "terminal", t)
  ELSE shown' = [shown EXCEPT ![t] = None] /\ UNCHANGED <<pi, end>>

EndsOnSwitch(p) == p \in blank

(* switchTo: any session listed, which one nothing was asked in is not; a new one too. *)
Switches(t, p, q) ==
  /\ shown[t] = p /\ p \in view /\ moving.pane # p /\ q \in On \ ({p} \cup blank)
  /\ view' = view \ {p}
  /\ IF EndsOnSwitch(p)
     THEN /\ pi' = [pi EXCEPT ![p] = "ended"] /\ end' = [pane |-> p, by |-> "terminal", at |-> t]
          /\ shown' = [u \in Term |-> IF u = t THEN q ELSE IF shown[u] = p THEN None ELSE shown[u]]
     ELSE shown' = [shown EXCEPT ![t] = q] /\ UNCHANGED <<pi, end>>
  /\ UNCHANGED <<normal, home, blank, busy, hook, viewed, moving>>

(* A new background session, its task its first prompt: it is a session once asked it. *)
Dispatches(p, q) ==
  /\ p \in view /\ moving.pane # p /\ pi[q] = "unused"
  /\ pi' = [pi EXCEPT ![q] = "on"] /\ busy' = busy \cup {q} /\ hook' = Synced(q, {}, {})
  /\ UNCHANGED <<viewed, normal, home, blank, view, shown, moving, end>>

(* exitAction, of an exit key's second press or of an exit word: a normal session is quit, any *)
(* other one is left.                                                                          *)
Quits(p) == p \in normal
Exits(t, p) ==
  /\ shown[t] = p /\ p \in On \ view
  /\ IF Quits(p) THEN Ends(p, "quit", t) ELSE Leaves(t, p)
  /\ UNCHANGED <<normal, home, blank, busy, hook, view, viewed, moving>>

(* leaveViewAction: the session started in a terminal is quit with it while idle. *)
LeavesFromView(t, p) ==
  /\ shown[t] = p /\ p \in view /\ moving.pane # p /\ view' = view \ {p}
  /\ IF p \notin blank /\ home[p] # None /\ p \notin busy THEN Ends(p, "quit", t) ELSE Leaves(t, p)
  /\ UNCHANGED <<normal, home, blank, busy, hook, viewed, moving>>

(* The terminal closes: tmux runs the pane's hook. *)
TerminalCloses(t, p) ==
  /\ shown[t] = p /\ p \in On
  /\ IF p \in hook THEN Ends(p, "terminal", t)
     ELSE shown' = [shown EXCEPT ![t] = None] /\ UNCHANGED <<pi, end>>
  /\ UNCHANGED <<normal, home, blank, busy, hook, view, viewed, moving>>

(* ctrl+x on another terminal's row, from agent view in p: its pi ends. *)
StopsOther(p, q) ==
  /\ p \in view /\ moving.pane # p /\ q \in On \ ({p} \cup blank) /\ Ends(q, "stop", None)
  /\ UNCHANGED <<normal, home, blank, busy, hook, view, viewed, moving>>

---------------------------------------------------------------------------
(* deleteOwnPane: a new pane in agent view, *)
Moves(t, p, q) ==
  /\ moving = Still /\ shown[t] = p /\ p \in view \ blank /\ Starts(q)
  /\ moving' = [pane |-> p, next |-> q, at |-> "drawn"]
  /\ UNCHANGED <<normal, home, busy, view, viewed, shown, end>>

(* once it has drawn, the terminal that shows this one switches to it; without one it ends again. *)
MoveFails == pi' = [pi EXCEPT ![moving.next] = "ended"] /\ moving' = Still /\ UNCHANGED <<shown, view>>
Moved ==
  /\ moving.at = "drawn" /\ pi[moving.pane] = "on"
  /\ IF Showing(moving.pane) = {} THEN MoveFails
     ELSE /\ \E t \in Showing(moving.pane) : shown' = [shown EXCEPT ![t] = moving.next]
          /\ view' = (view \ {moving.pane}) \cup {moving.next}
          /\ moving' = [moving EXCEPT !.at = "ends"] /\ UNCHANGED pi
  /\ UNCHANGED <<viewed, normal, home, blank, busy, hook, end>>

(* Its row is gone, and this pane ends. *)
OwnEnds ==
  /\ moving.at = "ends" /\ moving' = Still
  /\ IF pi[moving.pane] = "on" THEN Ends(moving.pane, "deleted", None) ELSE UNCHANGED <<pi, shown, end>>
  /\ UNCHANGED <<viewed, normal, home, blank, busy, hook, view>>

Next ==
  \/ \E t \in Term, p \in Pane : Launches(t, p) \/ Exits(t, p) \/ LeavesFromView(t, p) \/ TerminalCloses(t, p)
  \/ \E p \in Pane : Asked(p) \/ Settles(p) \/ NewSession(p) \/ OpensView(p) \/ ClosesView(p)
  \/ \E t \in Term, p, q \in Pane : Switches(t, p, q) \/ Moves(t, p, q)
  \/ \E p, q \in Pane : Dispatches(p, q) \/ StopsOther(p, q)
  \/ Moved \/ OwnEnds

Spec == Init /\ [][Next]_vars

---------------------------------------------------------------------------
(* A pane that ends because a terminal left it or closed had nothing asked in it, or is a session *)
(* that a terminal's `pi` started and agent view was never opened from: one in the background     *)
(* runs on, whichever terminals show it, leave it and close (README.md, Session switching).  That *)
(* the terminal is the one that started it is left out: tmux's hook ends a normal session with    *)
(* any terminal, also one that only switched to it.                                               *)
KeepsRunning ==
  [][end' # end /\ end'.by = "terminal" =>
       \/ end'.pane \in blank
       \/ end'.pane \notin viewed /\ home[end'.pane] # None]_vars

(* No pane stays that nothing was asked in and no terminal shows: agent view lists none of them.   *)
(* One is made before a terminal moves to it.                                                      *)
NoneLeftEmpty ==
  \A p \in On \cap blank : Showing(p) # {} \/ p = moving.next

====
