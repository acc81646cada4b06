---- MODULE SubagentRuns ----
(***************************************************************************)
(* The runs of an orchestrator (ext/subagents): pis of their own in tmux,  *)
(* which it launches, listens to, closes and resumes, and which report to  *)
(* it through the daemon each time they settle.  pi loads a new instance   *)
(* of the extension for each session and at each reload; what an instance  *)
(* knows of the runs of an earlier one is what that one stored, and the    *)
(* references to them on the session's active branch.                      *)
(*                                                                         *)
(* A run's stop and its end are a few microtasks apart, in which nothing   *)
(* else happens, so they are one step; "starting" and "stopping" do not    *)
(* show.  Scopes are compared for being the current one only, so an epoch  *)
(* is a bit of what belongs to it, cleared as the epoch ends.              *)
(* A batch of reports is a set: its order shows nowhere.                   *)
(***************************************************************************)
EXTENDS Naturals, Sequences, FiniteSets

CONSTANTS
  Run,           \* the subagent calls, numbered as they are made, and by them their runs
  Session,       \* the orchestrator's sessions
  Name,          \* what runs are called, numbered as first used
  None,          \* no session
  MAX_OPEN_RUNS,
  MaxGeneration, \* bound: how often a run is resumed
  MaxReports,    \* bound: how often a run reports
  MaxPlaces,     \* bound: the places of a tree the user moves about in
  Busy,          \* bound: the runs that report, fail, end by themselves and are resumed
  Detours        \* what the user also does: "between" goes back to where a run was launched, "resume" resumes off branch

ASSUME NumberAssumption == Run \subseteq Nat /\ Name \subseteq Nat \ {0}
ASSUME NoneAssumption == None \notin Session
ASSUME BoundAssumption == {MAX_OPEN_RUNS, MaxGeneration, MaxReports, MaxPlaces} \subseteq Nat
ASSUME BusyAssumption == Busy \subseteq Run
ASSUME DetourAssumption == Detours \subseteq {"between", "resume"}

VARIABLES
  up,        \* the orchestrator's pi runs
  current,   \* the session it is on, None between two
  reloading, \* the session a reload goes on with
  leaf,      \* where each session is in its tree
  tail,      \* the last entry of each session's file
  tree,      \* the places of each session's tree
  call,      \* the subagent calls
  parent,    \* the session of each run
  fresh,     \* whether the epoch of each run's scope is the current one
  name,      \* what each run is called, 0 before it is
  known,     \* the scheduler's runs
  gen,       \* generation
  stored,    \* the runs' records on disk
  live,      \* the panes that are up, by run and generation
  orphans,   \* those whose orchestrator's pane is gone
  sent,      \* how often each run has reported
  transit,   \* the reports on their way, as the daemon delivers them
  inbox,     \* what the next batch holds
  panel,     \* whether the tasks panel is open
  held,      \* what waits for it to close
  told,      \* history: the reports the model was given
  owed       \* history: the reports taken in for the scope that is current

session == <<up, current, reloading>>
place == <<leaf, tail, tree>>
run == <<call, parent, fresh, name, known, gen, stored, live, orphans>>
mail == <<sent, transit, inbox, panel, held, told, owed>>
vars == <<session, place, run, mail>>

(* A place in a session's tree: the entries runs were launched at, and the *)
(* references to runs, on the branch to it.                                *)
Place == [origins : SUBSET Run, refs : SUBSET Run]
Root == [origins |-> {}, refs |-> {}]

Pane == Run \X (0..MaxGeneration)
Item == [run : Run, n : 1..MaxReports, fresh : BOOLEAN]

(* The types of pi's memory, of the files and of what is on its way. *)
TypeOK ==
  /\ up \in BOOLEAN /\ panel \in BOOLEAN
  /\ current \in Session \cup {None} /\ reloading \in Session \cup {None}
  /\ leaf \in [Session -> Place] /\ tail \in [Session -> Place]
  /\ tree \in [Session -> SUBSET Place]
  /\ call \in [Run -> {"none", "resolving", "waiting", "done"}]
  /\ parent \in [Run -> Session \cup {None}]
  /\ fresh \in [Run -> BOOLEAN]
  /\ name \in [Run -> Name \cup {0}]
  /\ known \in [Run -> {"none", "running", "closed", "failed"}]
  /\ stored \in [Run -> {"none", "running", "closed", "failed"}]
  /\ gen \in [Run -> 0..MaxGeneration]
  /\ orphans \subseteq live /\ live \subseteq Pane
  /\ sent \in [Run -> 0..MaxReports]
  /\ transit \in Seq([run : Run, gen : 0..MaxGeneration, n : 1..MaxReports])
  /\ inbox \subseteq Item /\ held \subseteq Item
  /\ told \subseteq Run \X (1..MaxReports)
  /\ owed \subseteq Run \X (1..MaxReports)

Init ==
  /\ up = FALSE /\ current = None /\ reloading = None
  /\ leaf = [s \in Session |-> Root] /\ tail = leaf
  /\ tree = [s \in Session |-> {Root}]
  /\ call = [r \in Run |-> "none"]
  /\ parent = [r \in Run |-> None]
  /\ fresh = [r \in Run |-> FALSE]
  /\ name = [r \in Run |-> 0]
  /\ known = [r \in Run |-> "none"] /\ stored = known
  /\ gen = [r \in Run |-> 0]
  /\ live = {} /\ orphans = {}
  /\ sent = gen
  /\ transit = <<>> /\ inbox = {} /\ panel = FALSE /\ held = {}
  /\ told = {} /\ owed = {}

---------------------------------------------------------------------------
(* Scopes, places and panes *)

(* parentScope.inScope, of a run's scope. *)
InEpoch(r) == current # None /\ fresh[r] /\ parent[r] = current

(* runInScope: and on the active branch. *)
InScope(r) == InEpoch(r) /\ r \in leaf[current].origins

(* directory.list *)
Open == {r \in Run : known[r] = "running" /\ InEpoch(r)}

NameFree(n) == \A q \in Open : name[q] # n

(* Entries are appended to the active branch: it grows to p. *)
AppendTo(s, p) ==
  /\ leaf' = [leaf EXCEPT ![s] = p]
  /\ tail' = [tail EXCEPT ![s] = p]
  /\ tree' = [tree EXCEPT ![s] = @ \cup {p}]

(* Paneless rs leaves the panes that are up once those of the runs rs,     *)
(* as their records name them, were ended.                                 *)
Paneless(panes, rs) == {p \in panes : ~(p[1] \in rs /\ p[2] = gen[p[1]])}

(* A mutant: the calls that wait for their reports are not told. *)
EndedUnheard(rs) ==
  /\ known' = [r \in Run |-> IF r \in rs THEN "closed" ELSE known[r]]
  /\ stored' = [r \in Run |-> IF r \in rs THEN "closed" ELSE stored[r]]
  /\ live' = Paneless(live, rs) /\ orphans' = Paneless(orphans, rs)
  /\ UNCHANGED call

(* finalizeManagedRun, of the open runs rs: their panes are ended, their   *)
(* records stored as closed, and calls that wait for their reports end.    *)
Ended(rs) ==
  /\ known' = [r \in Run |-> IF r \in rs THEN "closed" ELSE known[r]]
  /\ stored' = [r \in Run |-> IF r \in rs THEN "closed" ELSE stored[r]]
  /\ live' = Paneless(live, rs) /\ orphans' = Paneless(orphans, rs)
  /\ call' = [r \in Run |-> IF r \in rs /\ call[r] = "waiting" THEN "done" ELSE call[r]]

(* A run that ends in its scope is referenced again, on the active branch. *)
Referenced(rs) ==
  IF rs = {} THEN UNCHANGED place
  ELSE AppendTo(current, [leaf[current] EXCEPT !.refs = @ \cup rs])

---------------------------------------------------------------------------
(* Launches and resumes *)

(* The subagent tool is called; its model and runtime are resolved before  *)
(* anything is admitted.                                                   *)
LaunchCall(r) ==
  /\ current # None
  /\ call[r] = "none" /\ \A q \in Run : q < r => call[q] # "none"
  /\ call' = [call EXCEPT ![r] = "resolving"]
  /\ parent' = [parent EXCEPT ![r] = current]
  /\ fresh' = [fresh EXCEPT ![r] = TRUE]
  /\ AppendTo(current, [leaf[current] EXCEPT !.origins = @ \cup {r}])
  /\ UNCHANGED <<session, name, known, gen, stored, live, orphans, mail>>

(* A mutant: the open runs were counted before the model was resolved. *)
AdmissibleUncounted(r, n) == InScope(r) /\ NameFree(n)

(* Its scope still is current, there is room, and its name is free. *)
Admissible(r, n) ==
  /\ InScope(r)
  /\ Cardinality(Open) < MAX_OPEN_RUNS
  /\ NameFree(n)

(* Its pi starts, or tmux fails it, which ends it in the same breath. *)
Started(r, g, starts) ==
  /\ starts \/ r \in Busy
  /\ gen' = [gen EXCEPT ![r] = g]
  /\ known' = [known EXCEPT ![r] = IF starts THEN "running" ELSE "failed"]
  /\ stored' = [stored EXCEPT ![r] = known'[r]]
  /\ live' = IF starts THEN live \cup {<<r, g>>} ELSE live
  /\ UNCHANGED orphans

(* The launch goes on: the run is listed, its record stored and referenced *)
(* and its pane started.  A call in the foreground waits for its report.   *)
Admit(r, n, foreground, starts) ==
  /\ call[r] = "resolving"
  /\ Admissible(r, n) /\ \A m \in Name : m < n => \E q \in Run : name[q] = m
  /\ foreground => r \in Busy
  /\ name' = [name EXCEPT ![r] = n]
  /\ call' = [call EXCEPT ![r] = IF foreground /\ starts THEN "waiting" ELSE "done"]
  /\ Started(r, 0, starts)
  /\ Referenced({r})
  /\ UNCHANGED <<session, parent, fresh, mail>>

(* The launch is refused: for its model, its scope, its name or for room. *)
Refuse(r) ==
  /\ up /\ call[r] = "resolving"
  /\ call' = [call EXCEPT ![r] = "done"]
  /\ UNCHANGED <<session, place, parent, fresh, name, known, gen, stored, live, orphans, mail>>

(* Esc: the call no longer waits, the run stays open. *)
StopWaiting(r) ==
  /\ call[r] = "waiting"
  /\ call' = [call EXCEPT ![r] = "done"]
  /\ UNCHANGED <<session, place, parent, fresh, name, known, gen, stored, live, orphans, mail>>

(* resumeInTmux: a message for a closed run, or the user opening it in     *)
(* /tasks.  Its branch is not asked for.                                   *)
Resume(r, starts) ==
  /\ current # None /\ parent[r] = current
  /\ \/ known[r] = "closed" /\ fresh[r]
     \/ known[r] = "none" /\ stored[r] = "closed"
  /\ Cardinality(Open) < MAX_OPEN_RUNS
  /\ NameFree(name[r])
  /\ r \in Busy /\ gen[r] < MaxGeneration
  /\ r \in leaf[current].origins \/ "resume" \in Detours
  /\ fresh' = [fresh EXCEPT ![r] = TRUE]
  /\ Started(r, gen[r] + 1, starts)
  /\ IF starts THEN UNCHANGED place ELSE Referenced({r})
  /\ UNCHANGED <<session, call, parent, name, mail>>

---------------------------------------------------------------------------
(* Runs and their ends *)

(* The run's turn settles: its report leaves for its orchestrator. *)
SendReport(r) ==
  /\ <<r, gen[r]>> \in live
  /\ r \in Busy /\ sent[r] < MaxReports
  /\ sent' = [sent EXCEPT ![r] = @ + 1]
  /\ transit' = Append(transit, [run |-> r, gen |-> gen[r], n |-> sent[r] + 1])
  /\ UNCHANGED <<session, place, run, inbox, panel, held, told, owed>>

(* The run's pi quits or dies; or the user closes it in agent view. *)
PaneEnds(r) ==
  /\ r \in Busy /\ <<r, gen[r]>> \in live
  /\ live' = live \ {<<r, gen[r]>>}
  /\ orphans' = orphans \ {<<r, gen[r]>>}
  /\ UNCHANGED <<session, place, call, parent, fresh, name, known, gen, stored, mail>>

(* The daemon ends the runs of an orchestrator whose pane is gone. *)
DaemonEnds(p) ==
  /\ p \in orphans
  /\ live' = live \ {p}
  /\ orphans' = orphans \ {p}
  /\ UNCHANGED <<session, place, call, parent, fresh, name, known, gen, stored, mail>>

EndInScope(rs) ==
  /\ Ended(rs)
  /\ Referenced({r \in rs : InEpoch(r)})
  /\ UNCHANGED <<session, parent, fresh, name, gen, mail>>

(* subagent_close, /tasks, the panel. *)
Close(r) == current # None /\ known[r] = "running" /\ EndInScope({r})

(* The open run's pane is checked, and gone. *)
PaneGone(r) ==
  /\ current # None
  /\ known[r] = "running" /\ <<r, gen[r]>> \notin live
  /\ EndInScope({r})

---------------------------------------------------------------------------
(* Reports *)

(* A report reaches pi: the call that waits for one gets it, else it is    *)
(* put in the inbox, if its run is in scope.  One from no open run's pane  *)
(* goes nowhere.                                                           *)
Receive ==
  /\ current # None /\ transit # <<>>
  /\ transit' = Tail(transit)
  /\ LET m == Head(transit)
         listening == known[m.run] = "running" /\ gen[m.run] = m.gen
     IN  \/ /\ listening /\ call[m.run] = "waiting"
            /\ call' = [call EXCEPT ![m.run] = "done"]
            /\ told' = told \cup {<<m.run, m.n>>}
            /\ UNCHANGED <<inbox, owed>>
         \/ /\ listening /\ call[m.run] # "waiting" /\ InScope(m.run)
            /\ inbox' = inbox \cup {[run |-> m.run, n |-> m.n, fresh |-> TRUE]}
            /\ owed' = owed \cup {<<m.run, m.n>>}
            /\ UNCHANGED <<call, told>>
         \/ /\ ~listening \/ (call[m.run] # "waiting" /\ ~InScope(m.run))
            /\ UNCHANGED <<inbox, owed, call, told>>
  /\ UNCHANGED <<session, place, parent, fresh, name, known, gen, stored, live, orphans, sent, panel, held>>

(* A mutant: nothing of a scope that ended is left out. *)
DeliverableAlways(i) == TRUE

(* isDeliverable, asked as the batch goes out. *)
Deliverable(i) ==
  /\ i.fresh /\ current # None /\ parent[i.run] = current
  /\ i.run \in leaf[current].origins

(* The report an item stands for. *)
Of(i) == <<i.run, i.n>>

(* deps.send, of the items still in scope.  What came out on another       *)
(* branch is no longer owed either.                                        *)
Send(items) ==
  LET out == {i \in items : Deliverable(i)} IN
  /\ told' = told \cup {Of(i) : i \in out}
  /\ owed' = {o \in owed :
                \A i \in items : Of(i) = o => i \notin out /\ i.run \in leaf[current].origins}

(* The batch window ends. *)
Flush ==
  /\ inbox # {}
  /\ inbox' = {}
  /\ IF panel THEN held' = held \cup inbox /\ UNCHANGED <<told, owed>>
     ELSE Send(inbox) /\ UNCHANGED held
  /\ UNCHANGED <<session, place, run, sent, transit, panel>>

OpenPanel ==
  /\ current # None /\ ~panel
  /\ panel' = TRUE
  /\ UNCHANGED <<session, place, run, sent, transit, inbox, held, told, owed>>

ClosePanel ==
  /\ panel
  /\ panel' = FALSE
  /\ Send(held)
  /\ held' = {}
  /\ UNCHANGED <<session, place, run, sent, transit, inbox>>

---------------------------------------------------------------------------
(* Sessions *)

(* The epoch ends: what was for it is stale, and the inbox emptied. *)
EpochEnds ==
  /\ fresh' = [r \in Run |-> FALSE]
  /\ inbox' = {}
  /\ held' = {[i EXCEPT !.fresh = FALSE] : i \in held}
  /\ owed' = {}

(* session_before_switch and session_before_fork: the switch may yet be    *)
(* called off.  All open runs are out of scope, and closed.                *)
BeforeSwitch ==
  /\ current # None
  /\ EpochEnds
  /\ Ended({r \in Run : known[r] = "running"})
  /\ UNCHANGED <<session, place, parent, name, gen, sent, transit, panel, told>>

(* session_shutdown, but for a reload: this instance goes once its runs    *)
(* have ended.                                                             *)
Shutdown ==
  LET open == {r \in Run : known[r] = "running"} IN
  /\ current # None
  /\ EpochEnds
  /\ known' = [r \in Run |-> "none"]
  /\ stored' = [r \in Run |-> IF r \in open THEN "closed" ELSE stored[r]]
  /\ live' = Paneless(live, open) /\ orphans' = Paneless(orphans, open)
  /\ call' = [r \in Run |-> IF call[r] = "waiting" THEN "done" ELSE call[r]]
  /\ current' = None
  /\ UNCHANGED <<up, reloading, place, parent, name, gen, sent, transit, panel, told>>

(* session_shutdown for a reload, which waits for the turn to end: open    *)
(* runs are handed over, as they are stored.  By the time a user reloads,  *)
(* the daemon has ended what an instance that died left up.                *)
Reload ==
  /\ current # None /\ ~panel
  /\ orphans = {}
  /\ \A r \in Run : call[r] \in {"none", "done"}
  /\ EpochEnds
  /\ known' = [r \in Run |-> "none"]
  /\ current' = None
  /\ reloading' = current
  /\ UNCHANGED <<up, place, call, parent, name, gen, stored, live, orphans, sent, transit, panel, told>>

(* A mutant: a run whose pane it ends may be up is taken for ended. *)
ReconcilePaneless(rs) ==
  /\ stored' = [r \in Run |-> IF r \in rs THEN "closed" ELSE stored[r]]
  /\ UNCHANGED <<live, orphans>>

(* reconcileInterruptedRuns: runs left open are closed, their panes ended. *)
Reconcile(rs) ==
  /\ stored' = [r \in Run |-> IF r \in rs THEN "closed" ELSE stored[r]]
  /\ live' = Paneless(live, rs) /\ orphans' = Paneless(orphans, rs)

(* session_start: a reload's instance adopts the open runs whose panes are *)
(* up; others left open are reconciled; those closed join the new epoch.   *)
SessionStart(s) ==
  LET at == IF reloading # None THEN leaf[s] ELSE tail[s]
      mine == {r \in at.refs : parent[r] = s}
      adopted == {r \in mine : reloading # None /\ stored[r] = "running" /\ <<r, gen[r]>> \in live}
      lapsed == {r \in mine : stored[r] = "running"} \ adopted
      reopened == {r \in mine : r \in lapsed \/ stored[r] = "closed"}
  IN  /\ current = None
      /\ reloading \in {None, s}
      /\ up' = TRUE /\ current' = s /\ reloading' = None
      /\ leaf' = [leaf EXCEPT ![s] = at]
      /\ Reconcile(lapsed)
      /\ known' = [r \in Run |-> IF r \in adopted THEN "running" ELSE IF r \in reopened THEN "closed" ELSE "none"]
      /\ fresh' = [r \in Run |-> r \in adopted \cup reopened]
      /\ UNCHANGED <<tail, tree, call, parent, name, gen, mail>>

LeftBranch(p) == {r \in Run : known[r] = "running" /\ ~(InEpoch(r) /\ r \in p.origins)}

(* session_tree, after the session moved to p: runs launched elsewhere are *)
(* closed, which references them on the branch p is on.                    *)
Navigate(p) ==
  /\ current # None
  /\ p \in tree[current] \ {leaf[current]}
  /\ Cardinality(tree[current]) <= MaxPlaces
  /\ "between" \in Detours \/ \A r \in p.origins \ p.refs : stored[r] = "none"
  /\ LET left == LeftBranch(p)
         there == [p EXCEPT !.refs = @ \cup {r \in left : InEpoch(r)}]
     IN  /\ Ended(left)
         /\ leaf' = [leaf EXCEPT ![current] = there]
         /\ tail' = [tail EXCEPT ![current] = IF there = p THEN @ ELSE there]
         /\ tree' = [tree EXCEPT ![current] = @ \cup {there}]
  /\ UNCHANGED <<session, parent, fresh, name, gen, mail>>

(* The orchestrator's pi dies, and its pane with it. *)
Die ==
  /\ up
  /\ up' = FALSE /\ current' = None /\ reloading' = None
  /\ known' = [r \in Run |-> "none"]
  /\ fresh' = [r \in Run |-> FALSE]
  /\ call' = [r \in Run |-> IF call[r] = "none" THEN "none" ELSE "done"]
  /\ orphans' = live
  /\ transit' = <<>> /\ inbox' = {} /\ panel' = FALSE /\ held' = {} /\ owed' = {}
  /\ UNCHANGED <<place, parent, name, gen, stored, live, sent, told>>

---------------------------------------------------------------------------
Next ==
  \/ \E r \in Run :
       \/ LaunchCall(r) \/ Refuse(r) \/ StopWaiting(r) \/ Close(r) \/ PaneGone(r)
       \/ SendReport(r) \/ PaneEnds(r)
       \/ \E starts \in BOOLEAN :
            Resume(r, starts) \/ \E n \in Name, foreground \in BOOLEAN : Admit(r, n, foreground, starts)
  \/ \E p \in Pane : DaemonEnds(p)
  \/ Receive \/ Flush \/ OpenPanel \/ ClosePanel
  \/ BeforeSwitch \/ Shutdown \/ Reload \/ Die
  \/ \E s \in Session : SessionStart(s)
  \/ \E p \in Place : Navigate(p)

Spec == Init /\ [][Next]_vars

---------------------------------------------------------------------------
(* Properties *)

(* No session file of a run is written by two pis, however the orchestrator*)
(* died, reloaded or resumed meanwhile (reconcileInterruptedRuns, adopt,   *)
(* resumeInTmux).                                                          *)
OnePi == \A p, q \in live : p[1] = q[1] => p = q

(* A run's pane that is up has an instance that listens to it, but between *)
(* two instances, or the daemon ends it (ADR-0006: "A run lives as long as *)
(* its orchestrator's session does").                                      *)
NoStray ==
  current # None =>
    \A p \in live \ orphans : known[p[1]] = "running" /\ gen[p[1]] = p[2]

(* A call that waits for a report has an open run to wait for. *)
WaitersHaveRuns == \A r \in Run : call[r] = "waiting" => known[r] = "running"

(* Admission holds across the awaits of concurrent launches, resumes and   *)
(* reloads: no more runs than MAX_OPEN_RUNS, and none of the same name.    *)
AdmissionHolds ==
  /\ Cardinality(Open) <= MAX_OPEN_RUNS
  /\ \A q, r \in Open : name[q] = name[r] => q = r

(* Each open run is in the parent scope, and so are its reports (GLOSSARY, *)
(* Admission: "whether the orchestrator's session and branch are still     *)
(* current").                                                              *)
OpenInScope ==
  current # None => \A r \in Run : known[r] = "running" => InScope(r)

(* A report taken in is on its way to the model until it is told, or its   *)
(* scope has ended, or it came out on another branch; and what is still on *)
(* its way, through hold, reload and resume, was never told (inbox, flush).*)
OwedIsHeld ==
  /\ \A o \in owed : \E i \in inbox \cup held : i.fresh /\ Of(i) = o
  /\ \A i \in inbox \cup held : Of(i) \notin told

(* The open runs are the session's, no more than may be open, and what     *)
(* they owe is kept for it.                                                *)
RunsSound == TypeOK /\ NoStray /\ AdmissionHolds /\ OpenInScope /\ OwedIsHeld

(* What the model is told was taken in for the scope that is current, by a *)
(* run launched on the active branch: a batch may be held through any      *)
(* number of sessions, reloads and moves in the tree (flush: "A hold can   *)
(* outlast the scope").                                                    *)
ToldInScope ==
  [][\A o \in told' \ told : InScope(o[1]) /\ (call[o[1]] = "waiting" \/ o \in owed)]_vars
====
