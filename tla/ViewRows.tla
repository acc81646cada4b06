------------------------------ MODULE ViewRows ------------------------------
(***************************************************************************)
(* The rows agent view and the footer build (daemon/rows.ts) from the      *)
(* daemon's list (daemon/handler.ts) and from this window's own session:   *)
(* which sessions are listed, which row is this window's, and which runs   *)
(* show under which orchestrator.                                          *)
(*                                                                         *)
(* The daemon's rows change as panes register, move to another session     *)
(* and end (RowTable and Registry say when it lets them); the view's list  *)
(* is of some moment before, this window's session is as it is now.        *)
(***************************************************************************)
EXTENDS Naturals, FiniteSets

CONSTANTS Id, Pane, None, Own \* Own: this window's pane

VARIABLES daemon, \* the rows: what each is, which pane it names, and which it is a run of
          list,   \* the daemon's answer the view has
          self    \* this window's session: its id in this window, and its parent

vars == <<daemon, list, self>>

Row == [id : Id, is : {"stored", "starting", "online", "silent"}, pane : Pane \cup {None},
        parent : Pane \cup {None}]

External(r) == r.is \in {"online", "silent"}
Alive(r) == r.is \in {"online", "starting", "silent"}
OfPane(rows, p) == {r \in rows : External(r) /\ r.pane = p}
With(rows, r) == {x \in rows : x.id # r.id} \cup {r}

Init == daemon = {} /\ list = {} /\ \E i \in Id : self = [id |-> i, parent |-> None]

\* A pane registers as a row, under an id of its own or a stored row's, or moves to another; the
\* row it leaves is stored and goes on naming the pane.
Registers(p, i) ==
    /\ ~\E r \in daemon : r.id = i /\ External(r) /\ r.pane # p
    /\ \E parent \in (Pane \ {p}) \cup {None} :
          /\ parent # None => \A r \in OfPane(daemon, parent) : r.parent = None
          /\ daemon' = {IF Alive(x) /\ x.pane = p THEN [x EXCEPT !.is = "stored"] ELSE x :
                           x \in {y \in daemon : y.id # i}}
                       \cup {[id |-> i, is |-> "online", pane |-> p, parent |-> parent]}
          /\ self' = IF p = Own THEN [id |-> i, parent |-> parent] ELSE self
    /\ UNCHANGED list
\* A start, whose row is the pane's before it registers.
Starts(p, i) == /\ ~\E r \in daemon : r.id = i /\ r.is # "stored"
                /\ p # Own /\ ~\E r \in daemon : Alive(r) /\ r.pane = p
                /\ daemon' = With(daemon, [id |-> i, is |-> "starting", pane |-> p, parent |-> None])
                /\ UNCHANGED <<list, self>>
Ends(r) == /\ r \in daemon /\ r.is # "stored"
           /\ \E is \in {"stored", IF r.is = "online" THEN "silent" ELSE "stored"} : daemon' = With(daemon, [r EXCEPT !.is = is])
           /\ UNCHANGED <<list, self>>
Deleted(r) == /\ r \in daemon /\ daemon' = daemon \ {r} /\ UNCHANGED <<list, self>>
\* /new: this window goes on in another session, under its pane's name until it registers.
Renews(i) == /\ self' = [self EXCEPT !.id = i] /\ self' # self /\ UNCHANGED <<daemon, list>>
Lists == list' = daemon /\ UNCHANGED <<daemon, self>>

Next == \/ \E p \in Pane, i \in Id : Registers(p, i) \/ Starts(p, i)
        \/ \E r \in daemon : Ends(r) \/ Deleted(r)
        \/ \E i \in Id : Renews(i)
        \/ Lists

Spec == Init /\ [][Next]_vars

(***************************************************************************)
(* collectRows, otherRows and collectRuns.                                 *)
(***************************************************************************)
(* A mutant: a row that names the pane is the pane's, stored or not. *)
AnyNaming(rows) == {r \in rows : r.pane = Own}
\* registeredRow: only a registered pane's counts.
Registered(rows) == {r \in rows : External(r) /\ r.pane = Own}

OwnId == IF Registered(list) = {} THEN None ELSE (CHOOSE r \in Registered(list) : TRUE).id
\* This window's row, the daemon's where its pane is registered: what it is asked to do names that.
OwnRow == [id |-> OwnId, is |-> "online", pane |-> Own, parent |-> self.parent]

\* A run is reached from its orchestrator, never listed.
Others(rows) == {r \in rows \ Registered(rows) : r.parent = None}

Rows == Others(list) \cup (IF self.parent = None THEN {OwnRow} ELSE {})
\* otherRows: every row but this window's, for its footer.
\* collectRuns: the runs open under each listed orchestrator's row.
RunsUnder(r) == IF Alive(r) THEN {x \in list : x.parent = r.pane /\ x.parent # None /\ Alive(x)} ELSE {}

(***************************************************************************)
(* Properties                                                              *)
(***************************************************************************)
(* Every session the daemon lists is shown exactly once: as a row, as this window's own, or, if
   a run, under the one orchestrator it is a run of at most.  A session this window left is a row again
   although the daemon's record of it still names this window's pane. *)
ListedOnce ==
    \A x \in list :
        LET runOf == {r \in Rows : x \in RunsUnder(r)}
        IN  /\ x.parent = None /\ ~(x.pane = Own /\ External(x)) => x \in Rows
            /\ x.parent # None => x \notin Rows \ {OwnRow} /\ Cardinality(runOf) <= 1
            /\ Cardinality({r \in Rows : r.id = x.id}) <= 1
==============================================================================
