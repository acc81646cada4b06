---- MODULE SubagentRunsProofs ----
(***************************************************************************)
(* What SubagentRuns promises for any number of runs, sessions, names,     *)
(* generations and places: no two pis of one run (OnePi), and no call that *)
(* waits for a run that ended (WaitersHaveRuns).                           *)
(***************************************************************************)
EXTENDS SubagentRuns, FiniteSetTheorems, SequenceTheorems, TLAPS

(* The types of what both rest on. *)
Typed ==
  /\ call \in [Run -> {"none", "resolving", "waiting", "done"}]
  /\ known \in [Run -> {"none", "running", "closed", "failed"}]
  /\ stored \in [Run -> {"none", "running", "closed", "failed"}]
  /\ gen \in [Run -> 0..MaxGeneration]
  /\ live \subseteq Pane

(* What is on disk of a run is what the scheduler knows, of the runs it    *)
(* knows; nothing is, of a call not admitted yet.                          *)
Recorded ==
  /\ \A r \in Run : known[r] # "none" => stored[r] = known[r]
  /\ \A r \in Run : call[r] \in {"none", "resolving"} => stored[r] = "none"

(* A pane that is up runs the last generation of a run stored as open. *)
Paned == \A p \in live : stored[p[1]] = "running" /\ gen[p[1]] = p[2]

(* A call waits for an open run, and not past the end of its session. *)
Heard == \A r \in Run : call[r] = "waiting" => current # None /\ known[r] = "running"

IInv == Typed /\ Recorded /\ Paned /\ Heard

(* Ending open runs, with their panes, keeps all of it. *)
LEMMA EndedKeeps ==
  ASSUME IInv, NEW rs \in SUBSET Run, \A r \in rs : known[r] = "running",
         Ended(rs), UNCHANGED <<gen, current>>
  PROVE  IInv'
<1> USE DEF IInv
<1>1. Typed'
  BY DEF Typed, Ended, Paneless
<1>2. Recorded'
  BY DEF Typed, Recorded, Ended
<1>3. Paned'
  BY DEF Typed, Paned, Ended, Paneless, Pane
<1>4. Heard'
  BY DEF Typed, Heard, Ended
<1> QED BY <1>1, <1>2, <1>3, <1>4

(* Starting a generation of a run of which no pane is up keeps the types,  *)
(* the records of runs and the panes.                                      *)
LEMMA StartedKeeps ==
  ASSUME IInv, NEW r \in Run, NEW g \in 0..MaxGeneration, NEW starts \in BOOLEAN,
         stored[r] # "running", Started(r, g, starts)
  PROVE  /\ known' \in [Run -> {"none", "running", "closed", "failed"}]
         /\ stored' \in [Run -> {"none", "running", "closed", "failed"}]
         /\ gen' \in [Run -> 0..MaxGeneration]
         /\ live' \subseteq Pane
         /\ stored'[r] # "none"
         /\ \A q \in Run : known'[q] # "none" => stored'[q] = known'[q]
         /\ \A q \in Run : q # r => known'[q] = known[q] /\ stored'[q] = stored[q]
         /\ starts => known'[r] = "running"
         /\ Paned'
<1> USE DEF IInv
<1>1. /\ known' = [known EXCEPT ![r] = IF starts THEN "running" ELSE "failed"]
      /\ gen' = [gen EXCEPT ![r] = g]
      /\ live' = IF starts THEN live \cup {<<r, g>>} ELSE live
      /\ stored' = [stored EXCEPT ![r] = known'[r]]
  BY DEF Started
<1>2. known'[r] = IF starts THEN "running" ELSE "failed"
  BY <1>1 DEF Typed
<1>3. /\ known' \in [Run -> {"none", "running", "closed", "failed"}]
      /\ stored' \in [Run -> {"none", "running", "closed", "failed"}]
      /\ gen' \in [Run -> 0..MaxGeneration]
      /\ live' \subseteq Pane
  BY <1>1, <1>2 DEF Typed, Pane
<1>4. \A q \in Run : q # r => known'[q] = known[q] /\ stored'[q] = stored[q]
  BY <1>1 DEF Typed
<1>5. stored'[r] = known'[r]
  BY <1>1 DEF Typed
<1>6. \A q \in Run : known'[q] # "none" => stored'[q] = known'[q]
  BY <1>4, <1>5 DEF Recorded
<1>7. ASSUME NEW p \in live' PROVE stored'[p[1]] = "running" /\ gen'[p[1]] = p[2]
  <2>1. CASE p \in live
    <3>1. p[1] \in Run /\ p[1] # r
      BY <2>1 DEF Typed, Paned, Pane
    <3> QED BY <1>1, <1>4, <2>1, <3>1 DEF Typed, Paned
  <2>2. CASE p \notin live
    <3>1. starts /\ p = <<r, g>>
      BY <1>1, <1>7, <2>2
    <3> QED BY <1>1, <1>2, <1>5, <3>1 DEF Typed
  <2> QED BY <2>1, <2>2
<1> QED BY <1>2, <1>3, <1>4, <1>5, <1>6, <1>7 DEF Paned

LEMMA InitInv == Init => IInv
<1> SUFFICES ASSUME Init PROVE IInv
  OBVIOUS
<1>1. 0 \in 0..MaxGeneration
  BY BoundAssumption
<1> QED BY <1>1 DEF Init, IInv, Typed, Recorded, Paned, Heard

(* Each action keeps the invariant: most end runs, start one or leave all  *)
(* of it alone; a new instance takes over what the last one stored.        *)
LEMMA InvStep ==
  ASSUME IInv, [Next]_vars
  PROVE  IInv'
<1> USE DEF IInv
<1>1. ASSUME NEW r \in Run, LaunchCall(r) PROVE IInv'
  <2>1. /\ call[r] = "none" /\ call' = [call EXCEPT ![r] = "resolving"]
        /\ UNCHANGED <<current, known, stored, gen, live>>
    BY <1>1 DEF LaunchCall, session
  <2> QED BY <2>1 DEF Typed, Recorded, Paned, Heard
<1>2. ASSUME NEW r \in Run, NEW n \in Name, NEW foreground \in BOOLEAN, NEW starts \in BOOLEAN,
             Admit(r, n, foreground, starts)
      PROVE  IInv'
  <2>1. /\ call[r] = "resolving" /\ current # None /\ current' = current
        /\ call' = [call EXCEPT ![r] = IF foreground /\ starts THEN "waiting" ELSE "done"]
        /\ Started(r, 0, starts)
    BY <1>2 DEF Admit, Admissible, InScope, InEpoch, session
  <2>2. 0 \in 0..MaxGeneration /\ stored[r] # "running"
    BY <2>1, BoundAssumption DEF Recorded
  <2>3. /\ known' \in [Run -> {"none", "running", "closed", "failed"}]
        /\ stored' \in [Run -> {"none", "running", "closed", "failed"}]
        /\ gen' \in [Run -> 0..MaxGeneration]
        /\ live' \subseteq Pane
        /\ \A q \in Run : known'[q] # "none" => stored'[q] = known'[q]
        /\ \A q \in Run : q # r => known'[q] = known[q] /\ stored'[q] = stored[q]
        /\ starts => known'[r] = "running"
        /\ Paned'
    BY <2>1, <2>2, StartedKeeps
  <2>4. Typed'
    BY <2>1, <2>3 DEF Typed
  <2>5. Recorded'
    BY <2>1, <2>3 DEF Typed, Recorded
  <2>6. Heard'
    BY <2>1, <2>3 DEF Typed, Heard
  <2> QED BY <2>3, <2>4, <2>5, <2>6
<1>3. ASSUME NEW r \in Run, Refuse(r) \/ StopWaiting(r) PROVE IInv'
  <2>1. /\ call[r] \in {"resolving", "waiting"} /\ call' = [call EXCEPT ![r] = "done"]
        /\ UNCHANGED <<current, known, stored, gen, live>>
    BY <1>3 DEF Refuse, StopWaiting, session
  <2> QED BY <2>1 DEF Typed, Recorded, Paned, Heard
<1>4. ASSUME NEW r \in Run, NEW starts \in BOOLEAN, Resume(r, starts) PROVE IInv'
  <2>1. /\ known[r] = "closed" \/ (known[r] = "none" /\ stored[r] = "closed")
        /\ Started(r, gen[r] + 1, starts)
        /\ gen[r] < MaxGeneration
        /\ UNCHANGED <<current, call>>
    BY <1>4 DEF Resume, session
  <2>2. stored[r] = "closed"
    BY <2>1 DEF Recorded
  <2>3. gen[r] + 1 \in 0..MaxGeneration
    BY <2>1, BoundAssumption DEF Typed
  <2>4. /\ known' \in [Run -> {"none", "running", "closed", "failed"}]
        /\ stored' \in [Run -> {"none", "running", "closed", "failed"}]
        /\ gen' \in [Run -> 0..MaxGeneration]
        /\ live' \subseteq Pane
        /\ \A q \in Run : known'[q] # "none" => stored'[q] = known'[q]
        /\ \A q \in Run : q # r => known'[q] = known[q] /\ stored'[q] = stored[q]
        /\ Paned'
    BY <2>1, <2>2, <2>3, StartedKeeps
  <2>5. Typed'
    BY <2>1, <2>4 DEF Typed
  <2>6. Recorded'
    BY <2>1, <2>2, <2>4 DEF Recorded
  <2>7. Heard'
    BY <2>1, <2>2, <2>4 DEF Recorded, Heard
  <2> QED BY <2>4, <2>5, <2>6, <2>7
<1>5. ASSUME NEW r \in Run, Close(r) \/ PaneGone(r) PROVE IInv'
  <2>1. known[r] = "running" /\ Ended({r}) /\ UNCHANGED <<gen, current>>
    BY <1>5 DEF Close, PaneGone, EndInScope, session
  <2> QED BY <2>1, EndedKeeps
<1>6. ASSUME live' \subseteq live, UNCHANGED <<current, call, known, stored, gen>> PROVE IInv'
  BY <1>6 DEF Typed, Recorded, Paned, Heard
<1>7. ASSUME Receive PROVE IInv'
  <2>1. UNCHANGED <<current, known, stored, gen, live>>
    BY <1>7 DEF Receive, session
  <2>2. call' = call \/ \E r : call[r] = "waiting" /\ call' = [call EXCEPT ![r] = "done"]
    BY <1>7 DEF Receive
  <2> QED BY <2>1, <2>2 DEF Typed, Recorded, Paned, Heard
<1>8. ASSUME BeforeSwitch PROVE IInv'
  <2>1. Ended({r \in Run : known[r] = "running"}) /\ UNCHANGED <<gen, current>>
    BY <1>8 DEF BeforeSwitch, session
  <2> QED BY <2>1, EndedKeeps
<1>9. ASSUME Shutdown PROVE IInv'
  <2> DEFINE open == {r \in Run : known[r] = "running"}
  <2>1. /\ known' = [r \in Run |-> "none"]
        /\ stored' = [r \in Run |-> IF r \in open THEN "closed" ELSE stored[r]]
        /\ live' = Paneless(live, open)
        /\ call' = [r \in Run |-> IF call[r] = "waiting" THEN "done" ELSE call[r]]
        /\ gen' = gen
    BY <1>9 DEF Shutdown
  <2>2. Typed'
    BY <2>1 DEF Typed, Paneless
  <2>3. Recorded'
    BY <2>1 DEF Typed, Recorded
  <2>4. Paned'
    BY <2>1 DEF Typed, Paned, Paneless, Pane
  <2>5. Heard'
    BY <2>1 DEF Typed, Heard
  <2> QED BY <2>2, <2>3, <2>4, <2>5
<1>10. ASSUME Reload PROVE IInv'
  <2>1. /\ known' = [r \in Run |-> "none"]
        /\ \A r \in Run : call[r] \in {"none", "done"}
        /\ UNCHANGED <<call, stored, gen, live>>
    BY <1>10 DEF Reload
  <2> QED BY <2>1 DEF Typed, Recorded, Paned, Heard
<1>11. ASSUME NEW s \in Session, SessionStart(s) PROVE IInv'
  <2> DEFINE at == IF reloading # None THEN leaf[s] ELSE tail[s]
             mine == {r \in at.refs : parent[r] = s}
             adopted == {r \in mine : reloading # None /\ stored[r] = "running" /\ <<r, gen[r]>> \in live}
             lapsed == {r \in mine : stored[r] = "running"} \ adopted
             reopened == {r \in mine : r \in lapsed \/ stored[r] = "closed"}
  <2>1. /\ \A r \in adopted : stored[r] = "running" /\ r \notin lapsed
        /\ \A r \in lapsed : stored[r] = "running"
        /\ \A r \in reopened : r \in lapsed \/ stored[r] = "closed"
        /\ Reconcile(lapsed)
        /\ known' = [r \in Run |-> IF r \in adopted THEN "running" ELSE IF r \in reopened THEN "closed" ELSE "none"]
    BY <1>11 DEF SessionStart
  <2> HIDE DEF adopted, lapsed, reopened
  <2>2. current = None /\ UNCHANGED <<call, gen>>
    BY <1>11 DEF SessionStart
  <2>3. /\ stored' = [r \in Run |-> IF r \in lapsed THEN "closed" ELSE stored[r]]
        /\ live' = Paneless(live, lapsed)
    BY <2>1 DEF Reconcile
  <2>4. Typed'
    BY <2>1, <2>2, <2>3 DEF Typed, Paneless
  <2>5. Recorded'
    BY <2>1, <2>2, <2>3 DEF Typed, Recorded
  <2>6. Paned'
    BY <2>2, <2>3 DEF Typed, Paned, Paneless, Pane
  <2>7. Heard'
    BY <2>2 DEF Heard
  <2> QED BY <2>4, <2>5, <2>6, <2>7
<1>12. ASSUME NEW p \in Place, Navigate(p) PROVE IInv'
  <2>1. Ended(LeftBranch(p)) /\ UNCHANGED <<gen, current>>
    BY <1>12 DEF Navigate, session
  <2> QED BY <2>1, EndedKeeps DEF LeftBranch
<1>13. ASSUME Die PROVE IInv'
  <2>1. /\ known' = [r \in Run |-> "none"]
        /\ call' = [r \in Run |-> IF call[r] = "none" THEN "none" ELSE "done"]
        /\ UNCHANGED <<stored, gen, live>>
    BY <1>13 DEF Die
  <2> QED BY <2>1 DEF Typed, Recorded, Paned, Heard
<1>14. ASSUME UNCHANGED <<current, call, known, stored, gen, live>> PROVE IInv'
  BY <1>14 DEF Typed, Recorded, Paned, Heard
<1>15. ASSUME NEW r \in Run, SendReport(r) \/ PaneEnds(r) PROVE IInv'
  <2>1. live' \subseteq live /\ UNCHANGED <<current, call, known, stored, gen>>
    BY <1>15 DEF SendReport, PaneEnds, session, run
  <2> QED BY <2>1, <1>6
<1>16. ASSUME NEW p \in Pane, DaemonEnds(p) PROVE IInv'
  <2>1. live' \subseteq live /\ UNCHANGED <<current, call, known, stored, gen>>
    BY <1>16 DEF DaemonEnds, session
  <2> QED BY <2>1, <1>6
<1>17. ASSUME Flush \/ OpenPanel \/ ClosePanel \/ UNCHANGED vars PROVE IInv'
  <2>1. UNCHANGED <<current, call, known, stored, gen, live>>
    BY <1>17 DEF Flush, OpenPanel, ClosePanel, vars, session, run
  <2> QED BY <2>1, <1>14
<1> QED BY <1>1, <1>2, <1>3, <1>4, <1>5, <1>7, <1>8, <1>9, <1>10, <1>11, <1>12, <1>13, <1>15, <1>16, <1>17
        DEF Next

LEMMA Invariance == Spec => []IInv
<1>1. IInv /\ [Next]_vars => IInv'
  BY InvStep
<1> QED BY InitInv, <1>1, PTL DEF Spec

(* No session file of a run is written by two pis: what starts one, be it  *)
(* a launch, a resume or a new instance that takes runs over, finds none   *)
(* up (resumeInTmux, adopt, reconcileInterruptedRuns).                     *)
THEOREM AlwaysOnePi == Spec => []OnePi
<1>1. IInv => OnePi
  <2> SUFFICES ASSUME IInv, NEW p \in live, NEW q \in live, p[1] = q[1] PROVE p = q
    BY DEF OnePi
  <2>1. p[2] = q[2]
    BY DEF IInv, Paned
  <2> QED BY <2>1 DEF IInv, Typed, Pane
<1> QED BY Invariance, <1>1, PTL

(* A call that waits for a report waits for a run that may yet give one: a *)
(* run's end, for whatever reason, ends the call (whenFinal).              *)
THEOREM WaitersAlwaysHaveRuns == Spec => []WaitersHaveRuns
<1>1. IInv => WaitersHaveRuns
  BY DEF IInv, Heard, WaitersHaveRuns
<1> QED BY Invariance, <1>1, PTL

---------------------------------------------------------------------------
(* The scope of runs and of their reports.  All of it is for a user who    *)
(* takes no detour: an off-branch resume puts an open run out of scope,    *)
(* and on a place between a run's launch and its reference a reload loses  *)
(* the run.                                                                *)

(* A place's runs are of its session, and a session is at one of its places. *)
Placed ==
  \A s \in Session :
    /\ leaf[s] \in tree[s] /\ tail[s] \in tree[s]
    /\ \A p \in tree[s] : \A r \in p.origins : parent[r] = s /\ call[r] # "none"

(* What was admitted of a branch's runs is referenced on it, so that an    *)
(* instance to come finds it there.                                        *)
Refd(p) == \A r \in p.origins \ p.refs : stored[r] = "none"

AllRefd == \A s \in Session : Refd(leaf[s]) /\ Refd(tail[s])

(* Nothing is known, taken in or owed between two instances, and what the  *)
(* panel holds is stale.                                                   *)
Between ==
  current = None =>
    /\ \A r \in Run : known[r] = "none" /\ ~fresh[r]
    /\ inbox = {} /\ owed = {}
    /\ \A i \in held : ~i.fresh

(* The runs of which a pane is up. *)
Kept == {r \in Run : <<r, gen[r]>> \in live}

Few(rs) ==
  /\ IsFiniteSet(rs) /\ Cardinality(rs) <= MAX_OPEN_RUNS
  /\ \A q, r \in rs : name[q] = name[r] => q = r

(* What is up between two instances is either what a dead one left, or     *)
(* what the next is to adopt: on its branch, and no more than may be open. *)
Left ==
  /\ reloading # None => current = None
  /\ current = None /\ reloading = None => live \subseteq orphans
  /\ reloading # None =>
       /\ orphans = {} /\ Few(Kept)
       /\ \A p \in live : parent[p[1]] = reloading /\ p[1] \in leaf[reloading].origins

(* A report is in one place, and was not told before. *)
OnceOnly ==
  /\ \A j, k \in DOMAIN transit : Of(transit[j]) = Of(transit[k]) => j = k
  /\ \A k \in DOMAIN transit :
       /\ transit[k].n <= sent[transit[k].run]
       /\ Of(transit[k]) \notin told
       /\ \A i \in inbox \cup held : Of(transit[k]) # Of(i)
  /\ \A i \in inbox : \A j \in held : Of(i) # Of(j)
  /\ \A i \in inbox \cup held : i.n <= sent[i.run] /\ Of(i) \notin told
  /\ \A o \in told : o[2] <= sent[o[1]]

(* What is taken in and not stale is owed, to the session that is current. *)
Owing ==
  /\ \A i \in inbox \cup held : i.fresh => fresh[i.run] /\ Of(i) \in owed
  /\ \A o \in owed : parent[o[1]] = current

SInv ==
  /\ TypeOK /\ IInv
  /\ Placed /\ AllRefd /\ Between /\ Left
  /\ NoStray /\ OpenInScope /\ Few(Open)
  /\ OnceOnly /\ Owing /\ OwedIsHeld

(* The places after the branch of the current session grew by the runs os  *)
(* launched and the references rs.                                         *)
Grown(os, rs) ==
  /\ leaf'[current] = tail'[current]
  /\ leaf'[current].origins = leaf[current].origins \cup os
  /\ leaf'[current].refs = leaf[current].refs \cup rs
  /\ tree'[current] = tree[current] \cup {leaf'[current]}
  /\ \A s \in Session \ {current} : leaf'[s] = leaf[s] /\ tail'[s] = tail[s] /\ tree'[s] = tree[s]

PlaceTyped ==
  /\ leaf \in [Session -> Place] /\ tail \in [Session -> Place]
  /\ tree \in [Session -> SUBSET Place]

LEMMA Grows ==
  ASSUME PlaceTyped, current \in Session, NEW os \in SUBSET Run, NEW rs \in SUBSET Run, NEW p,
         p = [origins |-> leaf[current].origins \cup os, refs |-> leaf[current].refs \cup rs],
         AppendTo(current, p)
  PROVE  PlaceTyped' /\ Grown(os, rs)
<1>1. p \in Place
  BY DEF Place, PlaceTyped
<1>2. PlaceTyped'
  BY <1>1 DEF AppendTo, PlaceTyped
<1>3. leaf'[current] = p /\ tail'[current] = p /\ tree'[current] = tree[current] \cup {p}
  BY DEF AppendTo, PlaceTyped
<1>4. \A s \in Session \ {current} : leaf'[s] = leaf[s] /\ tail'[s] = tail[s] /\ tree'[s] = tree[s]
  BY DEF AppendTo, PlaceTyped
<1> QED BY <1>2, <1>3, <1>4 DEF Grown

LEMMA ReferencedGrows ==
  ASSUME PlaceTyped, current \in Session, NEW rs \in SUBSET Run, Referenced(rs)
  PROVE  PlaceTyped' /\ ((UNCHANGED place /\ rs = {}) \/ Grown({}, rs))
<1>1. CASE rs = {}
  BY <1>1 DEF Referenced, PlaceTyped, place
<1>2. CASE rs # {}
  <2> DEFINE p == [leaf[current] EXCEPT !.refs = @ \cup rs]
  <2>1. leaf[current] \in Place
    BY DEF PlaceTyped
  <2>2. p = [origins |-> leaf[current].origins \cup {}, refs |-> leaf[current].refs \cup rs]
    BY <2>1 DEF Place
  <2>3. AppendTo(current, p)
    BY <1>2 DEF Referenced
  <2> HIDE DEF p
  <2> QED BY <2>2, <2>3, Grows
<1> QED BY <1>1, <1>2

(* What a step does to the places. *)
LEMMA PlaceStep ==
  ASSUME TypeOK, [Next]_vars
  PROVE  /\ PlaceTyped'
         /\ \/ UNCHANGED place
            \/ \E r \in Run : LaunchCall(r) /\ Grown({r}, {})
            \/ \E rs \in SUBSET Run : current # None /\ Grown({}, rs)
            \/ \E s \in Session : SessionStart(s)
            \/ \E p \in Place : Navigate(p)
<1> DEFINE Goal ==
  /\ PlaceTyped'
  /\ \/ UNCHANGED place
     \/ \E r \in Run : LaunchCall(r) /\ Grown({r}, {})
     \/ \E rs \in SUBSET Run : current # None /\ Grown({}, rs)
     \/ \E s \in Session : SessionStart(s)
     \/ \E p \in Place : Navigate(p)
<1> SUFFICES Goal
  OBVIOUS
<1>t. PlaceTyped /\ current \in Session \cup {None}
  BY DEF TypeOK, PlaceTyped
<1>u. ASSUME UNCHANGED place PROVE Goal
  BY <1>u, <1>t DEF PlaceTyped, place
<1>r. ASSUME NEW rs \in SUBSET Run, current # None, Referenced(rs) PROVE Goal
  BY <1>r, <1>t, <1>u, ReferencedGrows
<1>1. ASSUME NEW r \in Run, LaunchCall(r) PROVE Goal
  <2> DEFINE p == [leaf[current] EXCEPT !.origins = @ \cup {r}]
  <2>1. current \in Session /\ AppendTo(current, p)
    BY <1>1, <1>t DEF LaunchCall
  <2>3. leaf[current] \in Place
    BY <1>t, <2>1 DEF PlaceTyped
  <2>2. p = [origins |-> leaf[current].origins \cup {r}, refs |-> leaf[current].refs \cup {}]
    BY <2>3 DEF Place
  <2> HIDE DEF p
  <2> QED BY <1>1, <1>t, <2>1, <2>2, Grows
<1>2. ASSUME NEW r \in Run, NEW n \in Name, NEW foreground \in BOOLEAN, NEW starts \in BOOLEAN,
             Admit(r, n, foreground, starts)
      PROVE  Goal
  BY <1>2, <1>r DEF Admit, Admissible, InScope, InEpoch
<1>3. ASSUME NEW r \in Run, NEW starts \in BOOLEAN, Resume(r, starts) PROVE Goal
  <2>1. current # None /\ (UNCHANGED place \/ Referenced({r})) /\ {r} \in SUBSET Run
    BY <1>3 DEF Resume
  <2> HIDE DEF Goal
  <2> QED BY <2>1, <1>r, <1>u
<1>4. ASSUME NEW r \in Run, Close(r) \/ PaneGone(r) PROVE Goal
  BY <1>4, <1>r DEF Close, PaneGone, EndInScope
<1>5. ASSUME NEW r \in Run, Refuse(r) \/ StopWaiting(r) \/ SendReport(r) \/ PaneEnds(r) PROVE Goal
  BY <1>5, <1>u DEF Refuse, StopWaiting, SendReport, PaneEnds
<1>6. ASSUME NEW p \in Pane, DaemonEnds(p) PROVE Goal
  BY <1>6, <1>u DEF DaemonEnds
<1>7. CASE Receive \/ Flush \/ OpenPanel \/ ClosePanel \/ UNCHANGED vars
  BY <1>7, <1>u DEF Receive, Flush, OpenPanel, ClosePanel, vars
<1>8. CASE BeforeSwitch \/ Shutdown \/ Reload \/ Die
  BY <1>8, <1>u DEF BeforeSwitch, Shutdown, Reload, Die
<1>9. ASSUME NEW s \in Session, SessionStart(s) PROVE Goal
  BY <1>9, <1>t DEF SessionStart, PlaceTyped
<1>10. ASSUME NEW p \in Place, Navigate(p) PROVE Goal
  <2> DEFINE there == [p EXCEPT !.refs = @ \cup {r \in LeftBranch(p) : InEpoch(r)}]
  <2>1. there \in Place
    BY DEF Place, LeftBranch
  <2>2. /\ leaf' = [leaf EXCEPT ![current] = there]
        /\ tail' = [tail EXCEPT ![current] = IF there = p THEN @ ELSE there]
        /\ tree' = [tree EXCEPT ![current] = @ \cup {there}]
    BY <1>10 DEF Navigate
  <2> HIDE DEF there
  <2> QED BY <1>10, <1>t, <2>1, <2>2 DEF PlaceTyped
<1> HIDE DEF Goal
<1> QED
  BY <1>1, <1>2, <1>3, <1>4, <1>5, <1>6, <1>7, <1>8, <1>9, <1>10 DEF Next

(* A call once made stays made, and of the session it was made in. *)
LEMMA CallStep ==
  ASSUME TypeOK, [Next]_vars
  PROVE  /\ call' \in [Run -> {"none", "resolving", "waiting", "done"}]
         /\ parent' \in [Run -> Session \cup {None}]
         /\ \A r \in Run : call[r] # "none" => call'[r] # "none" /\ parent'[r] = parent[r]
         /\ \A r \in Run : parent'[r] # parent[r] => parent'[r] = current
<1> DEFINE Goal ==
  /\ call' \in [Run -> {"none", "resolving", "waiting", "done"}]
  /\ parent' \in [Run -> Session \cup {None}]
  /\ \A r \in Run : call[r] # "none" => call'[r] # "none" /\ parent'[r] = parent[r]
  /\ \A r \in Run : parent'[r] # parent[r] => parent'[r] = current
<1> SUFFICES Goal
  OBVIOUS
<1>t. /\ call \in [Run -> {"none", "resolving", "waiting", "done"}]
      /\ parent \in [Run -> Session \cup {None}]
      /\ current \in Session \cup {None}
  BY DEF TypeOK
<1>u. ASSUME UNCHANGED <<call, parent>> PROVE Goal
  BY <1>u, <1>t
<1>e. ASSUME NEW rs, Ended(rs), parent' = parent PROVE Goal
  BY <1>e, <1>t DEF Ended
<1>1. ASSUME NEW r \in Run, LaunchCall(r) PROVE Goal
  BY <1>1, <1>t DEF LaunchCall
<1>2. ASSUME NEW r \in Run, NEW n \in Name, NEW foreground \in BOOLEAN, NEW starts \in BOOLEAN,
             Admit(r, n, foreground, starts)
      PROVE  Goal
  BY <1>2, <1>t DEF Admit
<1>3. ASSUME NEW r \in Run, NEW starts \in BOOLEAN, Resume(r, starts) PROVE Goal
  BY <1>3, <1>u DEF Resume
<1>4. ASSUME NEW r \in Run, Close(r) \/ PaneGone(r) PROVE Goal
  BY <1>4, <1>e DEF Close, PaneGone, EndInScope
<1>5. ASSUME NEW r \in Run, Refuse(r) \/ StopWaiting(r) PROVE Goal
  BY <1>5, <1>t DEF Refuse, StopWaiting
<1>6. ASSUME NEW r \in Run, SendReport(r) \/ PaneEnds(r) PROVE Goal
  BY <1>6, <1>u DEF SendReport, PaneEnds, run
<1>7. ASSUME NEW p \in Pane, DaemonEnds(p) PROVE Goal
  BY <1>7, <1>u DEF DaemonEnds
<1>8. CASE Receive
  <2>1. parent' = parent /\ (call' = call \/ \E r : call' = [call EXCEPT ![r] = "done"])
    BY <1>8 DEF Receive
  <2> QED BY <1>t, <2>1
<1>9. CASE Flush \/ OpenPanel \/ ClosePanel \/ UNCHANGED vars
  BY <1>9, <1>u DEF Flush, OpenPanel, ClosePanel, vars, run
<1>10. CASE BeforeSwitch
  BY <1>10, <1>e DEF BeforeSwitch
<1>11. CASE Shutdown \/ Reload \/ Die
  BY <1>11, <1>t DEF Shutdown, Reload, Die
<1>12. ASSUME NEW s \in Session, SessionStart(s) PROVE Goal
  BY <1>12, <1>u DEF SessionStart
<1>13. ASSUME NEW p \in Place, Navigate(p) PROVE Goal
  BY <1>13, <1>e DEF Navigate
<1> HIDE DEF Goal
<1> QED
  BY <1>1, <1>2, <1>3, <1>4, <1>5, <1>6, <1>7, <1>8, <1>9, <1>10, <1>11, <1>12, <1>13 DEF Next

(* The types of the mail. *)
MailTyped ==
  /\ sent \in [Run -> 0..MaxReports]
  /\ transit \in Seq([run : Run, gen : 0..MaxGeneration, n : 1..MaxReports])
  /\ inbox \subseteq Item /\ held \subseteq Item
  /\ told \subseteq Run \X (1..MaxReports)
  /\ owed \subseteq Run \X (1..MaxReports)

LEMMA MailTypeStep ==
  ASSUME TypeOK, [Next]_vars
  PROVE  MailTyped'
<1> DEFINE Report == [run : Run, gen : 0..MaxGeneration, n : 1..MaxReports]
<1>t. MailTyped /\ transit \in Seq(Report)
  BY DEF TypeOK, MailTyped
<1>f. ASSUME NEW items, items \subseteq Item, Send(items)
      PROVE  told' \subseteq Run \X (1..MaxReports) /\ owed' \subseteq owed
  BY <1>f, <1>t DEF Send, Of, Item, MailTyped
<1>e. ASSUME EpochEnds PROVE inbox' \subseteq Item /\ held' \subseteq Item /\ owed' = {}
  <2>1. \A i \in Item : [i EXCEPT !.fresh = FALSE] \in Item
    BY DEF Item
  <2> QED BY <1>e, <1>t, <2>1 DEF EpochEnds, MailTyped
<1>1. CASE UNCHANGED mail
  BY <1>t, <1>1 DEF MailTyped, mail
<1>2. ASSUME NEW r \in Run, SendReport(r) PROVE MailTyped'
  <2> DEFINE m == [run |-> r, gen |-> gen[r], n |-> sent[r] + 1]
  <2>1. sent[r] + 1 \in 1..MaxReports
    BY <1>2, <1>t, BoundAssumption DEF SendReport, MailTyped
  <2>2. m \in Report
    BY <2>1 DEF TypeOK
  <2>3. transit' = Append(transit, m) /\ sent' = [sent EXCEPT ![r] = @ + 1]
    BY <1>2 DEF SendReport
  <2> HIDE DEF m, Report
  <2>4. transit' \in Seq(Report)
    BY <1>t, <2>2, <2>3, AppendProperties
  <2>5. sent' \in [Run -> 0..MaxReports]
    BY <1>t, <2>1, <2>3 DEF MailTyped
  <2> QED BY <1>2, <1>t, <2>4, <2>5 DEF SendReport, MailTyped, Report
<1>3. CASE Receive
  <2> DEFINE m == Head(transit)
  <2>1. transit # <<>> /\ transit' = Tail(transit)
    BY <1>3 DEF Receive
  <2>2. m \in Report /\ transit' \in Seq(Report)
    BY <1>t, <2>1, HeadTailProperties
  <2>3. <<m.run, m.n>> \in Run \X (1..MaxReports) /\ [run |-> m.run, n |-> m.n, fresh |-> TRUE] \in Item
    BY <2>2 DEF Item
  <2>4. /\ told' \in {told, told \cup {<<m.run, m.n>>}}
        /\ inbox' \in {inbox, inbox \cup {[run |-> m.run, n |-> m.n, fresh |-> TRUE]}}
        /\ owed' \in {owed, owed \cup {<<m.run, m.n>>}}
        /\ UNCHANGED <<sent, held>>
    BY <1>3 DEF Receive
  <2> HIDE DEF m
  <2> QED BY <1>t, <2>2, <2>3, <2>4 DEF MailTyped
<1>4. CASE Flush
  BY <1>4, <1>t, <1>f DEF Flush, MailTyped
<1>5. CASE ClosePanel
  BY <1>5, <1>t, <1>f DEF ClosePanel, MailTyped
<1>6. CASE OpenPanel
  BY <1>6, <1>t DEF OpenPanel, MailTyped
<1>7. CASE BeforeSwitch \/ Shutdown \/ Reload
  BY <1>7, <1>t, <1>e DEF BeforeSwitch, Shutdown, Reload, MailTyped
<1>8. CASE Die
  BY <1>8, <1>t DEF Die, MailTyped
<1>9. ASSUME NEW r \in Run, LaunchCall(r) \/ Refuse(r) \/ StopWaiting(r) \/ Close(r) \/ PaneGone(r) \/ PaneEnds(r)
      PROVE  UNCHANGED mail
  BY <1>9 DEF LaunchCall, Refuse, StopWaiting, Close, PaneGone, PaneEnds, EndInScope
<1>10. ASSUME NEW r \in Run, NEW starts \in BOOLEAN,
              Resume(r, starts) \/ \E n \in Name, foreground \in BOOLEAN : Admit(r, n, foreground, starts)
       PROVE  UNCHANGED mail
  BY <1>10 DEF Resume, Admit
<1>11. ASSUME NEW p, DaemonEnds(p) \/ Navigate(p) \/ SessionStart(p) PROVE UNCHANGED mail
  BY <1>11 DEF DaemonEnds, Navigate, SessionStart
<1>12. CASE UNCHANGED vars
  BY <1>1, <1>12 DEF vars
<1> QED BY <1>1, <1>2, <1>3, <1>4, <1>5, <1>6, <1>7, <1>8, <1>9, <1>10, <1>11, <1>12 DEF Next

LEMMA TypeStep ==
  ASSUME TypeOK, IInv, [Next]_vars
  PROVE  TypeOK'
<1> DEFINE Rest ==
  /\ up \in BOOLEAN /\ panel \in BOOLEAN
  /\ current \in Session \cup {None} /\ reloading \in Session \cup {None}
  /\ fresh \in [Run -> BOOLEAN]
  /\ name \in [Run -> Name \cup {0}]
  /\ orphans \subseteq live
<1> SUFFICES Rest'
  <2>1. Typed'
    BY InvStep DEF IInv
  <2> QED BY <2>1, PlaceStep, CallStep, MailTypeStep DEF TypeOK, Typed, PlaceTyped, MailTyped
<1>t. Rest
  BY DEF TypeOK
<1>1. ASSUME NEW r \in Run, LaunchCall(r) PROVE Rest'
  BY <1>1, <1>t DEF LaunchCall, session, mail
<1>2. ASSUME NEW r \in Run, NEW n \in Name, NEW foreground \in BOOLEAN, NEW starts \in BOOLEAN,
             Admit(r, n, foreground, starts)
      PROVE  Rest'
  BY <1>2, <1>t DEF Admit, Started, session, mail
<1>3. ASSUME NEW r \in Run, NEW starts \in BOOLEAN, Resume(r, starts) PROVE Rest'
  BY <1>3, <1>t DEF Resume, Started, session, mail
<1>4. ASSUME NEW r \in Run, Close(r) \/ PaneGone(r) PROVE Rest'
  BY <1>4, <1>t DEF Close, PaneGone, EndInScope, Ended, Paneless, session, mail
<1>5. ASSUME NEW r \in Run, Refuse(r) \/ StopWaiting(r) PROVE Rest'
  BY <1>5, <1>t DEF Refuse, StopWaiting, session, mail
<1>6. ASSUME NEW r \in Run, SendReport(r) \/ PaneEnds(r) PROVE Rest'
  BY <1>6, <1>t DEF SendReport, PaneEnds, session, run, mail
<1>7. ASSUME NEW p \in Pane, DaemonEnds(p) PROVE Rest'
  BY <1>7, <1>t DEF DaemonEnds, session, mail
<1>8. CASE Receive
  BY <1>8, <1>t DEF Receive, session
<1>9. CASE Flush \/ OpenPanel \/ ClosePanel \/ UNCHANGED vars
  BY <1>9, <1>t DEF Flush, OpenPanel, ClosePanel, session, run, mail, vars
<1>10. CASE BeforeSwitch
  BY <1>10, <1>t DEF BeforeSwitch, EpochEnds, Ended, Paneless, session
<1>11. CASE Shutdown
  BY <1>11, <1>t DEF Shutdown, EpochEnds, Paneless
<1>12. CASE Reload
  BY <1>12, <1>t DEF Reload, EpochEnds
<1>13. CASE Die
  BY <1>13, <1>t DEF Die
<1>14. ASSUME NEW s \in Session, SessionStart(s) PROVE Rest'
  BY <1>14, <1>t DEF SessionStart, Reconcile, Paneless, mail
<1>15. ASSUME NEW p \in Place, Navigate(p) PROVE Rest'
  BY <1>15, <1>t DEF Navigate, Ended, Paneless, session, mail
<1> HIDE DEF Rest
<1> QED BY <1>1, <1>2, <1>3, <1>4, <1>5, <1>6, <1>7, <1>8, <1>9, <1>10, <1>11, <1>12, <1>13, <1>14, <1>15
        DEF Next

LEMMA PlacedStep ==
  ASSUME TypeOK, Placed, [Next]_vars
  PROVE  Placed'
<1>t. PlaceTyped /\ current \in Session \cup {None} /\ parent \in [Run -> Session \cup {None}]
  BY DEF TypeOK, PlaceTyped
<1>c. \A s \in Session : \A p \in tree[s] : \A r \in p.origins : parent'[r] = s /\ call'[r] # "none"
  <2> SUFFICES ASSUME NEW s \in Session, NEW p \in tree[s], NEW r \in p.origins
               PROVE  parent'[r] = s /\ call'[r] # "none"
    OBVIOUS
  <2>1. r \in Run
    BY <1>t DEF PlaceTyped, Place
  <2> QED BY <2>1, CallStep DEF Placed
<1>1. CASE UNCHANGED place
  BY <1>1, <1>c DEF Placed, place
<1>2. ASSUME NEW r \in Run, LaunchCall(r), Grown({r}, {}) PROVE Placed'
  <2>1. current \in Session /\ parent'[r] = current /\ call'[r] # "none"
    BY <1>2, <1>t DEF LaunchCall, TypeOK
  <2>2. \A q \in leaf'[current].origins : parent'[q] = current /\ call'[q] # "none"
    BY <1>2, <1>c, <2>1 DEF Grown, Placed
  <2> QED BY <1>2, <1>c, <2>1, <2>2 DEF Grown, Placed
<1>3. ASSUME NEW rs \in SUBSET Run, current # None, Grown({}, rs) PROVE Placed'
  <2>1. \A q \in leaf'[current].origins : parent'[q] = current /\ call'[q] # "none"
    BY <1>3, <1>c, <1>t DEF Grown, Placed
  <2> QED BY <1>3, <1>c, <1>t, <2>1 DEF Grown, Placed
<1>4. ASSUME NEW s \in Session, SessionStart(s) PROVE Placed'
  <2>1. \A q \in Session : leaf'[q] \in {leaf[q], tail[q]} /\ tail' = tail /\ tree' = tree
    BY <1>4, <1>t DEF SessionStart, PlaceTyped
  <2> QED BY <1>c, <2>1 DEF Placed
<1>5. ASSUME NEW p \in Place, Navigate(p) PROVE Placed'
  <2> DEFINE there == [p EXCEPT !.refs = @ \cup {r \in LeftBranch(p) : InEpoch(r)}]
  <2>1. /\ leaf' = [leaf EXCEPT ![current] = there]
        /\ tail' = [tail EXCEPT ![current] = IF there = p THEN @ ELSE there]
        /\ tree' = [tree EXCEPT ![current] = @ \cup {there}]
        /\ current \in Session /\ p \in tree[current]
    BY <1>5, <1>t DEF Navigate
  <2>2. there.origins = p.origins
    BY DEF Place
  <2> HIDE DEF there
  <2>3. \A s \in Session : leaf'[s] \in tree'[s] /\ tail'[s] \in tree'[s]
    BY <1>t, <2>1 DEF Placed, PlaceTyped
  <2>4. \A s \in Session : \A q \in tree'[s] : q \in tree[s] \/ (s = current /\ q = there)
    BY <1>t, <2>1 DEF PlaceTyped
  <2> QED BY <1>c, <2>1, <2>2, <2>3, <2>4 DEF Placed
<1> QED BY <1>1, <1>2, <1>3, <1>4, <1>5, PlaceStep

(* What is stored of a run: nothing until it is admitted, in its scope. *)
LEMMA StoredStep ==
  ASSUME TypeOK, IInv, [Next]_vars, NEW r \in Run, stored[r] = "none"
  PROVE  \/ stored'[r] = "none"
         \/ /\ call[r] = "resolving" /\ InScope(r)
            /\ current \in Session /\ Grown({}, {r})
<1> DEFINE Goal ==
  \/ stored'[r] = "none"
  \/ /\ call[r] = "resolving" /\ InScope(r)
     /\ current \in Session /\ Grown({}, {r})
<1> SUFFICES Goal
  OBVIOUS
<1>t. /\ known[r] = "none" /\ PlaceTyped /\ current \in Session \cup {None}
      /\ stored \in [Run -> {"none", "running", "closed", "failed"}]
  BY DEF TypeOK, PlaceTyped, IInv, Recorded
<1>e. ASSUME NEW rs \in SUBSET Run, \A q \in rs : known[q] = "running", Ended(rs) PROVE Goal
  BY <1>e, <1>t DEF Ended
<1>s. ASSUME NEW q \in Run, NEW g, NEW starts, q # r, Started(q, g, starts) PROVE Goal
  BY <1>s, <1>t DEF Started
<1>1. ASSUME NEW q \in Run, NEW n \in Name, NEW foreground \in BOOLEAN, NEW starts \in BOOLEAN,
             Admit(q, n, foreground, starts)
      PROVE  Goal
  <2>1. CASE q = r
    <3>1. call[r] = "resolving" /\ InScope(r) /\ Referenced({r}) /\ {r} \in SUBSET Run
      BY <1>1, <2>1 DEF Admit, Admissible
    <3>2. current \in Session
      BY <1>t, <3>1 DEF InScope, InEpoch
    <3> QED BY <1>t, <3>1, <3>2, ReferencedGrows
  <2>2. CASE q # r
    BY <1>1, <1>s, <2>2 DEF Admit
  <2> QED BY <2>1, <2>2
<1>2. ASSUME NEW q \in Run, NEW starts \in BOOLEAN, Resume(q, starts) PROVE Goal
  <2>1. q # r
    BY <1>2, <1>t DEF Resume
  <2> QED BY <1>2, <1>s, <2>1 DEF Resume
<1>3. ASSUME NEW q \in Run, Close(q) \/ PaneGone(q) PROVE Goal
  BY <1>3, <1>e DEF Close, PaneGone, EndInScope
<1>4. CASE BeforeSwitch
  BY <1>4, <1>e DEF BeforeSwitch
<1>5. CASE Shutdown
  BY <1>5, <1>t DEF Shutdown
<1>6. ASSUME NEW s \in Session, SessionStart(s) PROVE Goal
  BY <1>6, <1>t DEF SessionStart, Reconcile
<1>7. ASSUME NEW p \in Place, Navigate(p) PROVE Goal
  BY <1>7, <1>e DEF Navigate, LeftBranch
<1>8. CASE UNCHANGED stored
  BY <1>8, <1>t
<1>9. ASSUME NEW q \in Run, LaunchCall(q) \/ Refuse(q) \/ StopWaiting(q) \/ SendReport(q) \/ PaneEnds(q)
      PROVE  UNCHANGED stored
  BY <1>9 DEF LaunchCall, Refuse, StopWaiting, SendReport, PaneEnds, run
<1>10. ASSUME NEW p \in Pane, DaemonEnds(p) PROVE UNCHANGED stored
  BY <1>10 DEF DaemonEnds
<1>11. CASE Receive \/ Flush \/ OpenPanel \/ ClosePanel \/ Reload \/ Die \/ UNCHANGED vars
  BY <1>8, <1>11 DEF Receive, Flush, OpenPanel, ClosePanel, Reload, Die, run, vars
<1> HIDE DEF Goal
<1> QED BY <1>1, <1>2, <1>3, <1>4, <1>5, <1>6, <1>7, <1>8, <1>9, <1>10, <1>11 DEF Next

LEMMA RefdStep ==
  ASSUME TypeOK, IInv, Placed, AllRefd, Detours = {}, [Next]_vars
  PROVE  AllRefd'
<1>t. PlaceTyped /\ current \in Session \cup {None}
  BY DEF TypeOK, PlaceTyped
<1> SUFFICES ASSUME NEW s \in Session, NEW p \in {leaf'[s], tail'[s]}, NEW r \in p.origins \ p.refs
             PROVE  stored'[r] = "none"
  BY DEF AllRefd, Refd
<1>r. r \in Run
  BY PlaceStep DEF PlaceTyped, Place
<1>a. ASSUME stored[r] = "none", parent[r] = s PROVE stored'[r] = "none"
  <2> SUFFICES ASSUME stored'[r] # "none" PROVE FALSE
    OBVIOUS
  <2>1. InScope(r) /\ current \in Session /\ Grown({}, {r})
    BY <1>a, <1>r, StoredStep
  <2>2. s = current
    BY <1>a, <2>1 DEF InScope, InEpoch
  <2> QED BY <2>1, <2>2 DEF Grown
<1>b. ASSUME NEW q \in {leaf[s], tail[s]}, r \in q.origins \ q.refs PROVE stored'[r] = "none"
  <2>1. stored[r] = "none"
    BY <1>b DEF AllRefd, Refd
  <2>2. parent[r] = s
    BY <1>b DEF Placed
  <2> QED BY <1>a, <2>1, <2>2
<1>1. CASE UNCHANGED place
  BY <1>1, <1>b DEF place
<1>2. ASSUME NEW l \in Run, LaunchCall(l), Grown({l}, {}) PROVE stored'[r] = "none"
  <2>1. CASE s # current
    BY <1>2, <1>b, <2>1 DEF Grown
  <2>2. CASE s = current /\ r # l
    <3>1. r \in leaf[s].origins \ leaf[s].refs
      BY <1>2, <2>2 DEF Grown
    <3> QED BY <1>b, <3>1
  <2>3. CASE r = l
    BY <1>2, <2>3 DEF LaunchCall, IInv, Recorded
  <2> QED BY <2>1, <2>2, <2>3
<1>3. ASSUME NEW rs \in SUBSET Run, current # None, Grown({}, rs) PROVE stored'[r] = "none"
  <2>1. CASE s # current
    BY <1>3, <1>b, <2>1 DEF Grown
  <2>2. CASE s = current
    <3>1. r \in leaf[s].origins \ leaf[s].refs
      BY <1>3, <2>2 DEF Grown
    <3> QED BY <1>b, <3>1
  <2> QED BY <2>1, <2>2
<1>4. ASSUME NEW q \in Session, SessionStart(q) PROVE stored'[r] = "none"
  <2>1. p \in {leaf[s], tail[s]}
    BY <1>4, <1>t DEF SessionStart, PlaceTyped
  <2> QED BY <1>b, <2>1
<1>5. ASSUME NEW q \in Place, Navigate(q) PROVE stored'[r] = "none"
  <2> DEFINE there == [q EXCEPT !.refs = @ \cup {l \in LeftBranch(q) : InEpoch(l)}]
  <2>1. /\ leaf' = [leaf EXCEPT ![current] = there]
        /\ tail' = [tail EXCEPT ![current] = IF there = q THEN @ ELSE there]
        /\ current \in Session /\ q \in tree[current]
        /\ \A l \in q.origins \ q.refs : stored[l] = "none"
    BY <1>5, <1>t DEF Navigate
  <2>2. there.origins = q.origins /\ q.refs \subseteq there.refs
    BY DEF Place
  <2> HIDE DEF there
  <2>3. p \in {leaf[s], tail[s]} \/ (s = current /\ p = there)
    BY <1>t, <2>1 DEF PlaceTyped
  <2>4. CASE s = current /\ p = there
    <3>1. r \in q.origins \ q.refs
      BY <2>2, <2>4
    <3>2. stored[r] = "none" /\ parent[r] = s
      BY <2>1, <2>4, <3>1 DEF Placed
    <3> QED BY <1>a, <3>2
  <2> QED BY <1>b, <2>3, <2>4
<1> QED BY <1>1, <1>2, <1>3, <1>4, <1>5, PlaceStep

(* Between two instances there is nothing, whatever happens meanwhile. *)
LEMMA BetweenStep ==
  ASSUME TypeOK, IInv, Between, [Next]_vars
  PROVE  Between'
<1>t. /\ MailTyped /\ known \in [Run -> {"none", "running", "closed", "failed"}]
      /\ fresh \in [Run -> BOOLEAN]
  BY DEF TypeOK, MailTyped
<1>e. ASSUME EpochEnds PROVE (\A i \in held' : ~i.fresh) /\ inbox' = {} /\ owed' = {} /\ \A r \in Run : ~fresh'[r]
  <2>1. \A i \in held : ~[i EXCEPT !.fresh = FALSE].fresh
    BY <1>t DEF MailTyped, Item
  <2> QED BY <1>e, <2>1 DEF EpochEnds
<1>u. ASSUME current' # None PROVE Between'
  BY <1>u DEF Between
<1>v. ASSUME UNCHANGED <<current, known, fresh, inbox, held, owed>> PROVE Between'
  BY <1>v DEF Between
<1>1. ASSUME NEW r \in Run, LaunchCall(r) \/ Close(r) \/ PaneGone(r) PROVE Between'
  BY <1>1, <1>u DEF LaunchCall, Close, PaneGone, EndInScope, session
<1>2. ASSUME NEW r \in Run, NEW n \in Name, NEW foreground \in BOOLEAN, NEW starts \in BOOLEAN,
             Admit(r, n, foreground, starts)
      PROVE  Between'
  BY <1>2, <1>u DEF Admit, Admissible, InScope, InEpoch, session
<1>3. ASSUME NEW r \in Run, NEW starts \in BOOLEAN, Resume(r, starts) PROVE Between'
  BY <1>3, <1>u DEF Resume, session
<1>4. ASSUME NEW r \in Run, Refuse(r) \/ StopWaiting(r) \/ SendReport(r) \/ PaneEnds(r) PROVE Between'
  BY <1>4, <1>v DEF Refuse, StopWaiting, SendReport, PaneEnds, session, run, mail
<1>5. ASSUME NEW p \in Pane, DaemonEnds(p) PROVE Between'
  BY <1>5, <1>v DEF DaemonEnds, session, mail
<1>6. CASE Receive \/ OpenPanel
  BY <1>6, <1>u DEF Receive, OpenPanel, session
<1>7. CASE Flush
  <2>1. CASE current = None
    BY <1>7, <2>1 DEF Flush, Between
  <2>2. CASE current # None
    BY <1>7, <1>u, <2>2 DEF Flush, session
  <2> QED BY <2>1, <2>2
<1>8. CASE ClosePanel
  BY <1>8 DEF ClosePanel, Send, Between, session, run
<1>9. CASE BeforeSwitch
  BY <1>9, <1>u DEF BeforeSwitch, session
<1>10. CASE Shutdown \/ Reload
  BY <1>10, <1>e DEF Shutdown, Reload, Between
<1>11. CASE Die
  BY <1>11 DEF Die, Between
<1>12. ASSUME NEW s \in Session, SessionStart(s) PROVE Between'
  BY <1>12, <1>u, NoneAssumption DEF SessionStart
<1>13. ASSUME NEW p \in Place, Navigate(p) PROVE Between'
  BY <1>13, <1>u DEF Navigate, session
<1>14. CASE UNCHANGED vars
  BY <1>14, <1>v DEF vars, session, run, mail
<1> QED BY <1>1, <1>2, <1>3, <1>4, <1>5, <1>6, <1>7, <1>8, <1>9, <1>10, <1>11, <1>12, <1>13, <1>14 DEF Next

(* What a new instance takes over of a session that reloads is all that is *)
(* up; without a reload all of it is a dead one's.                         *)
LEMMA TakesOver ==
  ASSUME TypeOK, IInv, Placed, AllRefd, Left, NEW s \in Session, SessionStart(s)
  PROVE  /\ reloading = s \/ live \subseteq orphans
         /\ reloading = s => \A p \in live : known'[p[1]] = "running"
         /\ \A r \in Run : known'[r] = "running" =>
              reloading = s /\ r \in Kept /\ parent[r] = s /\ fresh'[r] /\ r \in leaf'[s].origins
         /\ \A p \in live' \ orphans' : p \in live \ orphans
         /\ live' \subseteq live
         /\ current' = s /\ reloading' = None /\ gen' = gen /\ name' = name /\ parent' = parent
<1> DEFINE at == IF reloading # None THEN leaf[s] ELSE tail[s]
           mine == {r \in at.refs : parent[r] = s}
           adopted == {r \in mine : reloading # None /\ stored[r] = "running" /\ <<r, gen[r]>> \in live}
           lapsed == {r \in mine : stored[r] = "running"} \ adopted
           reopened == {r \in mine : r \in lapsed \/ stored[r] = "closed"}
<1>1. /\ reloading \in {None, s} /\ current = None
      /\ leaf' = [leaf EXCEPT ![s] = at]
      /\ Reconcile(lapsed)
      /\ known' = [r \in Run |-> IF r \in adopted THEN "running" ELSE IF r \in reopened THEN "closed" ELSE "none"]
      /\ fresh' = [r \in Run |-> r \in adopted \cup reopened]
      /\ current' = s /\ reloading' = None /\ gen' = gen /\ name' = name /\ parent' = parent
  BY DEF SessionStart
<1>2. reloading = s \/ live \subseteq orphans
  BY <1>1 DEF Left
<1>3. ASSUME reloading = s, NEW p \in live PROVE p[1] \in adopted /\ p[1] \in leaf[s].origins
  <2>1. p[1] \in Run /\ stored[p[1]] = "running" /\ p = <<p[1], gen[p[1]]>>
    BY <1>3 DEF IInv, Typed, Paned, Pane
  <2>2. parent[p[1]] = s /\ p[1] \in leaf[s].origins
    BY <1>3, NoneAssumption DEF Left
  <2>3. p[1] \in leaf[s].refs
    BY <2>1, <2>2 DEF AllRefd, Refd
  <2> QED BY <1>3, <2>1, <2>2, <2>3, NoneAssumption
<1>4. ASSUME NEW r \in adopted PROVE reloading = s /\ r \in Kept /\ parent[r] = s /\ r \in leaf[s].origins
  <2>1. reloading = s /\ <<r, gen[r]>> \in live /\ parent[r] = s
    BY <1>1, <1>4
  <2>2. r \in Run
    BY <2>1 DEF TypeOK, Pane
  <2> QED BY <1>3, <2>1, <2>2 DEF Kept
<1>5. /\ live' \subseteq live
      /\ \A p \in live' \ orphans' : p \in live \ orphans
  BY <1>1 DEF Reconcile, Paneless
<1>6. at = leaf[s] \/ reloading # s
  BY NoneAssumption
<1>7. leaf'[s] = at
  BY <1>1 DEF TypeOK
<1> HIDE DEF adopted, lapsed, reopened, at
<1>8. \A r \in Run : known'[r] = "running" => r \in adopted
  BY <1>1
<1>9. \A r \in adopted : r \in Run
  BY <1>4 DEF Kept
<1>10. reloading = s => \A p \in live : known'[p[1]] = "running"
  BY <1>1, <1>3, <1>9
<1>11. \A r \in Run : known'[r] = "running" =>
         reloading = s /\ r \in Kept /\ parent[r] = s /\ fresh'[r] /\ r \in leaf'[s].origins
  BY <1>1, <1>4, <1>6, <1>7, <1>8
<1> QED BY <1>1, <1>2, <1>5, <1>10, <1>11

(* Ending open runs takes their panes, and no other open one. *)
LEMMA EndedOpen ==
  ASSUME TypeOK, IInv, NEW rs \in SUBSET Run, Ended(rs), gen' = gen
  PROVE  /\ \A r \in Run : known'[r] = "running" => known[r] = "running" /\ r \notin rs
         /\ \A r \in Run : known[r] = "running" /\ r \notin rs => known'[r] = "running"
         /\ \A p \in live' \ orphans' : p \in live \ orphans /\ p[1] \notin rs
<1>1. \A p \in live' : p \in live /\ p[1] \notin rs
  BY DEF Ended, Paneless, IInv, Typed, Paned
<1> QED BY <1>1 DEF Ended, Paneless, IInv, Typed

(* A pane that is up is listened to, or an orphan; and is an open run's, of *)
(* the session whose reload is to adopt it.                                *)
LEMMA StrayStep ==
  ASSUME SInv, Detours = {}, [Next]_vars
  PROVE  NoStray'
<1>i. /\ TypeOK /\ IInv /\ Placed /\ AllRefd /\ Left /\ NoStray
      /\ known \in [Run -> {"none", "running", "closed", "failed"}] /\ gen \in [Run -> 0..MaxGeneration]
      /\ live \subseteq Pane
  BY DEF SInv, IInv, Typed
<1>s. IInv'
  BY <1>i, InvStep
<1> SUFFICES ASSUME current' # None, NEW p \in live' \ orphans' PROVE known'[p[1]] = "running"
  BY <1>s DEF NoStray, IInv, Paned
<1>r. p \in Pane /\ p[1] \in Run
  BY <1>s DEF IInv, Typed, Pane
<1>k. ASSUME current # None, p \in live \ orphans PROVE known[p[1]] = "running"
  BY <1>k, <1>i DEF NoStray
<1>e. ASSUME NEW rs \in SUBSET Run, Ended(rs), gen' = gen, current # None PROVE known'[p[1]] = "running"
  BY <1>e, <1>i, <1>k, <1>r, EndedOpen
<1>st. ASSUME NEW r \in Run, NEW g, NEW starts \in BOOLEAN, Started(r, g, starts), stored[r] # "running", current # None
       PROVE  known'[p[1]] = "running"
  <2>1. CASE p \in live
    <3>1. p[1] # r /\ p \notin orphans
      BY <1>st, <2>1, <1>i DEF IInv, Paned, Started
    <3> QED BY <1>st, <1>k, <1>i, <2>1, <3>1 DEF Started
  <2>2. CASE p \notin live
    BY <1>st, <1>i, <1>r, <2>2 DEF Started, Pane
  <2> QED BY <2>1, <2>2
<1>u. ASSUME current' = current, known' = known, live' \ orphans' \subseteq live \ orphans PROVE known'[p[1]] = "running"
  BY <1>u, <1>k
<1>1. ASSUME NEW r \in Run, LaunchCall(r) \/ Refuse(r) \/ StopWaiting(r) \/ SendReport(r) \/ PaneEnds(r)
      PROVE  known'[p[1]] = "running"
  <2>1. current' = current /\ known' = known
    BY <1>1 DEF LaunchCall, Refuse, StopWaiting, SendReport, PaneEnds, session, run
  <2>2. live' \ orphans' \subseteq live \ orphans
    BY <1>1 DEF LaunchCall, Refuse, StopWaiting, SendReport, PaneEnds, session, run
  <2> QED BY <1>u, <2>1, <2>2
<1>2. ASSUME NEW r \in Run, NEW n \in Name, NEW foreground \in BOOLEAN, NEW starts \in BOOLEAN,
             Admit(r, n, foreground, starts)
      PROVE  known'[p[1]] = "running"
  <2>1. stored[r] # "running" /\ current # None /\ Started(r, 0, starts)
    BY <1>2, <1>i DEF Admit, Admissible, InScope, InEpoch, IInv, Recorded
  <2> QED BY <2>1, <1>st
<1>3. ASSUME NEW r \in Run, NEW starts \in BOOLEAN, Resume(r, starts) PROVE known'[p[1]] = "running"
  <2>1. stored[r] # "running" /\ current # None /\ Started(r, gen[r] + 1, starts)
    BY <1>3, <1>i DEF Resume, IInv, Recorded
  <2> QED BY <2>1, <1>st
<1>4. ASSUME NEW r \in Run, Close(r) \/ PaneGone(r) PROVE known'[p[1]] = "running"
  <2>1. Ended({r}) /\ gen' = gen /\ current # None /\ {r} \in SUBSET Run
    BY <1>4 DEF Close, PaneGone, EndInScope
  <2> QED BY <2>1, <1>e
<1>5. ASSUME NEW q \in Pane, DaemonEnds(q) PROVE known'[p[1]] = "running"
  BY <1>5, <1>u DEF DaemonEnds, session
<1>6. CASE Receive \/ Flush \/ OpenPanel \/ ClosePanel \/ UNCHANGED vars
  <2>1. current' = current /\ known' = known /\ live' = live /\ orphans' = orphans
    BY <1>6 DEF Receive, Flush, OpenPanel, ClosePanel, vars, session, run
  <2> QED BY <1>u, <2>1
<1>7. CASE BeforeSwitch
  BY <1>7, <1>e DEF BeforeSwitch
<1>8. CASE Shutdown \/ Reload \/ Die
  BY <1>8 DEF Shutdown, Reload, Die
<1>9. ASSUME NEW s \in Session, SessionStart(s) PROVE known'[p[1]] = "running"
  BY <1>9, <1>i, TakesOver
<1>10. ASSUME NEW q \in Place, Navigate(q) PROVE known'[p[1]] = "running"
  BY <1>10, <1>e DEF Navigate, LeftBranch
<1> QED BY <1>1, <1>2, <1>3, <1>4, <1>5, <1>6, <1>7, <1>8, <1>9, <1>10 DEF Next

(* An open run, after a step, was open, in its scope and under its name; or *)
(* is one admitted or resumed there, where there was room and its name was *)
(* free; or is one of those a reload handed over.                          *)
LEMMA OpenStep ==
  ASSUME SInv, Detours = {}, [Next]_vars, current' # None
  PROVE  /\ \A q \in Run : known'[q] = "running" => InScope(q)'
         /\ \/ /\ \A q \in Run : known'[q] = "running" => known[q] = "running" /\ name'[q] = name[q]
               /\ current # None
            \/ \E r \in Run :
                 /\ current # None /\ NameFree(name'[r]) /\ Cardinality(Open) < MAX_OPEN_RUNS
                 /\ \A q \in Run \ {r} : known'[q] = "running" => known[q] = "running" /\ name'[q] = name[q]
            \/ /\ \A q \in Run : known'[q] = "running" => reloading # None /\ q \in Kept
               /\ name' = name
<1> DEFINE Scoped == \A q \in Run : known'[q] = "running" => InScope(q)'
           Same == /\ \A q \in Run : known'[q] = "running" => known[q] = "running" /\ name'[q] = name[q]
                   /\ current # None
           More(r) ==
             /\ current # None /\ NameFree(name'[r]) /\ Cardinality(Open) < MAX_OPEN_RUNS
             /\ \A q \in Run \ {r} : known'[q] = "running" => known[q] = "running" /\ name'[q] = name[q]
           Adopts == /\ \A q \in Run : known'[q] = "running" => reloading # None /\ q \in Kept
                     /\ name' = name
           Goal == Scoped /\ (Same \/ (\E r \in Run : More(r)) \/ Adopts)
<1> SUFFICES Goal
  OBVIOUS
<1>i. /\ TypeOK /\ IInv /\ Placed /\ AllRefd /\ Left /\ OpenInScope
      /\ known \in [Run -> {"none", "running", "closed", "failed"}]
      /\ name \in [Run -> Name \cup {0}] /\ fresh \in [Run -> BOOLEAN]
      /\ PlaceTyped /\ current \in Session \cup {None}
  BY DEF SInv, TypeOK, PlaceTyped
<1>k. ASSUME current # None, NEW q \in Run, known[q] = "running"
      PROVE  fresh[q] /\ parent[q] = current /\ q \in leaf[current].origins
  BY <1>k, <1>i DEF OpenInScope, InScope, InEpoch
<1>u. ASSUME current' = current, \A q \in Run : known'[q] = "running" => known[q] = "running",
             UNCHANGED <<fresh, parent, name>>, leaf[current].origins \subseteq leaf'[current].origins
      PROVE  Goal
  BY <1>u, <1>k DEF InScope, InEpoch
<1>v. ASSUME current' = current, \A q \in Run : known'[q] = "running" => known[q] = "running",
             UNCHANGED <<fresh, parent, name, place>>
      PROVE  Goal
  <2>1. leaf[current].origins \subseteq leaf'[current].origins
    BY <1>v DEF place
  <2> HIDE DEF Goal
  <2> QED BY <1>u, <1>v, <2>1
<1>g. ASSUME current # None, NEW rs \in SUBSET Run, Referenced(rs)
      PROVE  leaf'[current].origins = leaf[current].origins
  BY <1>g, <1>i, ReferencedGrows DEF Grown, place
<1>e. ASSUME current # None, NEW rs \in SUBSET Run, Ended(rs), gen' = gen
      PROVE  \A q \in Run : known'[q] = "running" => known[q] = "running" /\ q \notin rs
  BY <1>e, <1>i, EndedOpen
<1>st. ASSUME NEW r \in Run, NEW g, NEW starts \in BOOLEAN, Started(r, g, starts)
       PROVE  \A q \in Run \ {r} : known'[q] = "running" => known[q] = "running"
  BY <1>st, <1>i DEF Started
<1>1. ASSUME NEW r \in Run, LaunchCall(r) PROVE Goal
  <2>1. /\ current # None /\ current' = current /\ UNCHANGED <<known, name>>
        /\ call[r] = "none"
        /\ parent' = [parent EXCEPT ![r] = current] /\ fresh' = [fresh EXCEPT ![r] = TRUE]
    BY <1>1 DEF LaunchCall, session
  <2>2. known[r] # "running"
    BY <1>i, <2>1 DEF IInv, Recorded
  <2>3. leaf'[current].origins = leaf[current].origins \cup {r}
    <3> DEFINE p == [leaf[current] EXCEPT !.origins = @ \cup {r}]
    <3>1. current \in Session /\ leaf' = [leaf EXCEPT ![current] = p] /\ leaf[current] \in Place
      BY <1>1, <1>i, <2>1 DEF LaunchCall, AppendTo, PlaceTyped
    <3>2. p.origins = leaf[current].origins \cup {r}
      BY <3>1 DEF Place
    <3> HIDE DEF p
    <3> QED BY <1>i, <3>1, <3>2 DEF PlaceTyped
  <2>4. \A q \in Run : q # r => parent'[q] = parent[q] /\ fresh'[q] = fresh[q]
    BY <1>i, <2>1 DEF TypeOK
  <2>5. Scoped
    BY <1>k, <2>1, <2>2, <2>3, <2>4 DEF InScope, InEpoch
  <2>6. Same
    BY <2>1
  <2> QED BY <2>5, <2>6
<1>2. ASSUME NEW r \in Run, NEW n \in Name, NEW foreground \in BOOLEAN, NEW starts \in BOOLEAN,
             Admit(r, n, foreground, starts)
      PROVE  Goal
  <2>1. /\ current # None /\ current' = current /\ UNCHANGED <<parent, fresh>>
        /\ fresh[r] /\ parent[r] = current /\ r \in leaf[current].origins
        /\ Cardinality(Open) < MAX_OPEN_RUNS /\ NameFree(n)
        /\ name' = [name EXCEPT ![r] = n]
        /\ Started(r, 0, starts) /\ Referenced({r}) /\ {r} \in SUBSET Run
    BY <1>2 DEF Admit, Admissible, InScope, InEpoch, session
  <2>2. leaf'[current].origins = leaf[current].origins
    BY <1>g, <2>1
  <2>3. \A q \in Run \ {r} : known'[q] = "running" => known[q] = "running"
    BY <1>st, <2>1
  <2>4. Scoped
    BY <1>k, <2>1, <2>2, <2>3 DEF InScope, InEpoch
  <2>5. More(r)
    BY <1>i, <2>1, <2>3
  <2> QED BY <2>4, <2>5
<1>3. ASSUME NEW r \in Run, NEW starts \in BOOLEAN, Resume(r, starts) PROVE Goal
  <2>1. /\ current # None /\ current' = current /\ UNCHANGED <<parent, name>>
        /\ parent[r] = current /\ r \in leaf[current].origins
        /\ fresh' = [fresh EXCEPT ![r] = TRUE]
        /\ Cardinality(Open) < MAX_OPEN_RUNS /\ NameFree(name[r])
        /\ Started(r, gen[r] + 1, starts) /\ {r} \in SUBSET Run
        /\ UNCHANGED place \/ Referenced({r})
    BY <1>3 DEF Resume, session
  <2>2. leaf'[current].origins = leaf[current].origins
    BY <1>g, <2>1 DEF place
  <2>3. \A q \in Run \ {r} : known'[q] = "running" => known[q] = "running"
    BY <1>st, <2>1
  <2>4. Scoped
    BY <1>i, <1>k, <2>1, <2>2, <2>3 DEF InScope, InEpoch
  <2>5. More(r)
    BY <2>1, <2>3
  <2> QED BY <2>4, <2>5
<1>4. ASSUME NEW r \in Run, Close(r) \/ PaneGone(r) PROVE Goal
  <2> HIDE DEF Goal
  <2>1. /\ Ended({r}) /\ gen' = gen /\ current # None /\ {r} \in SUBSET Run
        /\ current' = current /\ UNCHANGED <<fresh, parent, name>>
        /\ Referenced({q \in {r} : InEpoch(q)})
    BY <1>4 DEF Close, PaneGone, EndInScope, session
  <2>2. leaf'[current].origins = leaf[current].origins
    BY <1>g, <2>1
  <2> QED BY <1>e, <1>u, <2>1, <2>2
<1>5. ASSUME NEW r \in Run, Refuse(r) \/ StopWaiting(r) \/ SendReport(r) \/ PaneEnds(r) PROVE Goal
  <2> HIDE DEF Goal
  <2>1. current' = current /\ UNCHANGED <<known, fresh, parent, name, place>>
    BY <1>5 DEF Refuse, StopWaiting, SendReport, PaneEnds, session, run
  <2> QED BY <1>v, <2>1
<1>6. ASSUME NEW p \in Pane, DaemonEnds(p) PROVE Goal
  <2> HIDE DEF Goal
  <2>1. current' = current /\ UNCHANGED <<known, fresh, parent, name, place>>
    BY <1>6 DEF DaemonEnds, session
  <2> QED BY <1>v, <2>1
<1>7. ASSUME Receive \/ Flush \/ OpenPanel \/ ClosePanel \/ UNCHANGED vars PROVE Goal
  <2> HIDE DEF Goal
  <2>1. current' = current /\ UNCHANGED <<known, fresh, parent, name, place>>
    BY <1>7 DEF Receive, Flush, OpenPanel, ClosePanel, vars, session, run
  <2> QED BY <1>v, <2>1
<1>8. ASSUME BeforeSwitch PROVE Goal
  <2>1. /\ current # None /\ name' = name
        /\ \A q \in Run : known'[q] # "running"
    BY <1>8 DEF BeforeSwitch, Ended
  <2> QED BY <2>1
<1>9. ASSUME Shutdown \/ Reload \/ Die PROVE Goal
  BY <1>9 DEF Shutdown, Reload, Die
<1>10. ASSUME NEW s \in Session, SessionStart(s) PROVE Goal
  <2>1. /\ \A r \in Run : known'[r] = "running" =>
              reloading = s /\ r \in Kept /\ parent[r] = s /\ fresh'[r] /\ r \in leaf'[s].origins
        /\ current' = s /\ name' = name /\ parent' = parent
    BY <1>10, <1>i, TakesOver
  <2>2. Scoped
    BY <2>1 DEF InScope, InEpoch
  <2>3. Adopts
    BY <2>1, NoneAssumption
  <2> QED BY <2>2, <2>3
<1>11. ASSUME NEW p \in Place, Navigate(p) PROVE Goal
  <2> DEFINE there == [p EXCEPT !.refs = @ \cup {r \in LeftBranch(p) : InEpoch(r)}]
  <2>1. /\ Ended(LeftBranch(p)) /\ gen' = gen /\ current \in Session
        /\ current' = current /\ UNCHANGED <<fresh, parent, name>>
        /\ leaf' = [leaf EXCEPT ![current] = there]
    BY <1>11, <1>i DEF Navigate, session
  <2>2. leaf'[current].origins = p.origins
    <3>1. there.origins = p.origins
      BY DEF Place
    <3> HIDE DEF there
    <3> QED BY <1>i, <2>1, <3>1 DEF PlaceTyped
  <2>3. \A q \in Run : known'[q] = "running" => known[q] = "running" /\ q \notin LeftBranch(p)
    BY <1>e, <2>1, NoneAssumption DEF LeftBranch
  <2>4. Scoped
    BY <2>1, <2>2, <2>3 DEF LeftBranch, InScope, InEpoch
  <2>5. Same
    BY <2>1, <2>3, NoneAssumption
  <2> QED BY <2>4, <2>5
<1> HIDE DEF Goal
<1> QED BY <1>1, <1>2, <1>3, <1>4, <1>5, <1>6, <1>7, <1>8, <1>9, <1>10, <1>11 DEF Next

LEMMA ScopeStep ==
  ASSUME SInv, Detours = {}, [Next]_vars
  PROVE  OpenInScope'
BY OpenStep DEF OpenInScope

(* A part of what may be open, by the same names, may be open. *)
LEMMA FewOf ==
  ASSUME NEW rs, Few(rs), NEW qs \in SUBSET rs, \A q \in qs : name'[q] = name[q]
  PROVE  /\ IsFiniteSet(qs) /\ Cardinality(qs) <= MAX_OPEN_RUNS
         /\ \A q, r \in qs : name'[q] = name'[r] => q = r
<1>1. IsFiniteSet(qs) /\ Cardinality(qs) <= Cardinality(rs)
  BY FS_Subset DEF Few
<1>2. Cardinality(qs) \in Nat /\ Cardinality(rs) \in Nat /\ MAX_OPEN_RUNS \in Nat
  BY <1>1, FS_CardinalityType, BoundAssumption DEF Few
<1> QED BY <1>1, <1>2 DEF Few

(* Admission holds: what concurrent launches, resumes and a reload leave   *)
(* open is no more than may be, and by different names.                    *)
LEMMA AdmissionStep ==
  ASSUME SInv, Detours = {}, [Next]_vars
  PROVE  Few(Open)'
<1>i. Few(Open) /\ Left /\ OpenInScope /\ TypeOK
  BY DEF SInv
<1>o. current # None => \A q \in Run : known[q] = "running" => q \in Open
  BY <1>i DEF OpenInScope, InScope, Open
<1>p. /\ Open' \subseteq Run
      /\ \A q \in Open' : known'[q] = "running" /\ current' # None
  BY DEF Open, InEpoch
<1>n. CASE current' = None
  <2>1. Open' = {}
    BY <1>n DEF Open, InEpoch
  <2> QED BY <2>1, FS_EmptySet, BoundAssumption DEF Few
<1>1. CASE /\ current # None
           /\ \A q \in Run : known'[q] = "running" => known[q] = "running" /\ name'[q] = name[q]
  <2>1. Open' \in SUBSET Open /\ \A q \in Open' : name'[q] = name[q]
    BY <1>1, <1>o, <1>p
  <2> QED BY <1>i, <2>1, FewOf DEF Few
<1>2. ASSUME NEW r \in Run, current # None, NameFree(name'[r]), Cardinality(Open) < MAX_OPEN_RUNS,
             \A q \in Run \ {r} : known'[q] = "running" => known[q] = "running" /\ name'[q] = name[q]
      PROVE  Few(Open)'
  <2> DEFINE others == Open' \ {r}
  <2>1. others \in SUBSET Open /\ \A q \in others : name'[q] = name[q]
    BY <1>2, <1>o, <1>p
  <2> HIDE DEF others
  <2>2. /\ IsFiniteSet(others) /\ Cardinality(others) <= Cardinality(Open)
        /\ \A q, l \in others : name'[q] = name'[l] => q = l
    BY <1>i, <2>1, FewOf, FS_Subset DEF Few
  <2>3. IsFiniteSet(others \cup {r}) /\ Cardinality(others \cup {r}) <= Cardinality(others) + 1
    <3>1. IsFiniteSet(others)
      BY <2>2
    <3>2. Cardinality(others) \in Nat
      BY <3>1, FS_CardinalityType
    <3>3. /\ IsFiniteSet(others \cup {r})
          /\ Cardinality(others \cup {r}) = IF r \in others THEN Cardinality(others) ELSE Cardinality(others) + 1
      BY <3>1, FS_AddElement
    <3> QED BY <3>2, <3>3
  <2>4. Open' \subseteq others \cup {r}
    BY DEF others
  <2>5. IsFiniteSet(Open') /\ Cardinality(Open') <= Cardinality(others \cup {r})
    BY <2>3, <2>4, FS_Subset
  <2>6. /\ Cardinality(Open') \in Nat /\ Cardinality(others) \in Nat /\ Cardinality(Open) \in Nat
        /\ Cardinality(others \cup {r}) \in Nat /\ MAX_OPEN_RUNS \in Nat
    BY <1>i, <2>2, <2>3, <2>5, FS_CardinalityType, BoundAssumption DEF Few
  <2>7. Cardinality(Open') <= MAX_OPEN_RUNS
    BY <1>2, <2>2, <2>3, <2>5, <2>6
  <2>8. \A q \in others : name'[q] # name'[r]
    BY <1>2, <2>1 DEF NameFree
  <2>9. \A q, l \in Open' : name'[q] = name'[l] => q = l
    BY <2>2, <2>4, <2>8
  <2> QED BY <2>5, <2>7, <2>9 DEF Few
<1>3. CASE /\ name' = name
           /\ \A q \in Run : known'[q] = "running" => reloading # None /\ q \in Kept
  <2>1. CASE reloading = None
    <3>1. Open' = {}
      BY <1>3, <1>p, <2>1
    <3> QED BY <3>1, FS_EmptySet, BoundAssumption DEF Few
  <2>2. CASE reloading # None
    <3>1. Open' \in SUBSET Kept /\ Few(Kept)
      BY <1>3, <1>i, <1>p, <2>2 DEF Left
    <3> QED BY <1>3, <3>1, FewOf DEF Few
  <2> QED BY <2>1, <2>2
<1>4. CASE current' # None
  <2>1. \/ /\ \A q \in Run : known'[q] = "running" => known[q] = "running" /\ name'[q] = name[q]
           /\ current # None
        \/ \E r \in Run :
             /\ current # None /\ NameFree(name'[r]) /\ Cardinality(Open) < MAX_OPEN_RUNS
             /\ \A q \in Run \ {r} : known'[q] = "running" => known[q] = "running" /\ name'[q] = name[q]
        \/ /\ \A q \in Run : known'[q] = "running" => reloading # None /\ q \in Kept
           /\ name' = name
    BY <1>4, OpenStep
  <2> QED BY <1>1, <1>2, <1>3, <2>1
<1> QED BY <1>n, <1>4

(* What happens between two instances: panes end, and nothing starts. *)
LEMMA IdleStep ==
  ASSUME TypeOK, [Next]_vars, current = None, UNCHANGED session
  PROVE  /\ live' \subseteq live /\ orphans' \subseteq orphans
         /\ live' \ orphans' \subseteq live \ orphans
         /\ UNCHANGED <<gen, name, parent, place>>
<1> DEFINE Goal ==
  /\ live' \subseteq live /\ orphans' \subseteq orphans
  /\ live' \ orphans' \subseteq live \ orphans
  /\ UNCHANGED <<gen, name, parent, place>>
<1> SUFFICES Goal
  OBVIOUS
<1>c. current' = None /\ up' = up
  BY DEF session
<1>1. ASSUME NEW r \in Run, Refuse(r) \/ StopWaiting(r) \/ SendReport(r) \/ PaneEnds(r) PROVE Goal
  BY <1>1 DEF Refuse, StopWaiting, SendReport, PaneEnds, run
<1>2. ASSUME NEW p \in Pane, DaemonEnds(p) PROVE Goal
  BY <1>2 DEF DaemonEnds
<1>3. CASE Flush \/ ClosePanel \/ UNCHANGED vars
  BY <1>3 DEF Flush, ClosePanel, run, vars
<1>4. ASSUME NEW r \in Run, LaunchCall(r) \/ Close(r) \/ PaneGone(r) PROVE FALSE
  BY <1>4 DEF LaunchCall, Close, PaneGone
<1>5. ASSUME NEW r \in Run, NEW starts \in BOOLEAN,
             Resume(r, starts) \/ \E n \in Name, foreground \in BOOLEAN : Admit(r, n, foreground, starts)
      PROVE  FALSE
  BY <1>5 DEF Resume, Admit, Admissible, InScope, InEpoch
<1>6. CASE Receive \/ OpenPanel \/ BeforeSwitch \/ Shutdown \/ Reload
  BY <1>6 DEF Receive, OpenPanel, BeforeSwitch, Shutdown, Reload
<1>7. CASE Die
  BY <1>7, <1>c DEF Die
<1>8. ASSUME NEW s \in Session, SessionStart(s) PROVE FALSE
  BY <1>8, <1>c, NoneAssumption DEF SessionStart
<1>9. ASSUME NEW p \in Place, Navigate(p) PROVE FALSE
  BY <1>9 DEF Navigate
<1> HIDE DEF Goal
<1> QED BY <1>1, <1>2, <1>3, <1>4, <1>5, <1>6, <1>7, <1>8, <1>9 DEF Next

(* A step that goes on to another instance, or to none. *)
LEMMA SessionStep ==
  ASSUME [Next]_vars
  PROVE  \/ UNCHANGED session \/ Shutdown \/ Reload \/ Die
         \/ \E s \in Session : SessionStart(s)
<1>1. ASSUME NEW r \in Run,
             \/ LaunchCall(r) \/ Refuse(r) \/ StopWaiting(r) \/ Close(r) \/ PaneGone(r)
             \/ SendReport(r) \/ PaneEnds(r)
      PROVE  UNCHANGED session
  BY <1>1 DEF LaunchCall, Refuse, StopWaiting, Close, PaneGone, EndInScope, SendReport, PaneEnds
<1>2. ASSUME NEW r \in Run, NEW starts \in BOOLEAN,
             Resume(r, starts) \/ \E n \in Name, foreground \in BOOLEAN : Admit(r, n, foreground, starts)
      PROVE  UNCHANGED session
  BY <1>2 DEF Resume, Admit
<1>3. ASSUME NEW p, DaemonEnds(p) \/ Navigate(p) PROVE UNCHANGED session
  BY <1>3 DEF DaemonEnds, Navigate
<1>4. CASE Receive \/ Flush \/ OpenPanel \/ ClosePanel \/ BeforeSwitch \/ UNCHANGED vars
  BY <1>4 DEF Receive, Flush, OpenPanel, ClosePanel, BeforeSwitch, vars
<1> QED BY <1>1, <1>2, <1>3, <1>4 DEF Next

LEMMA LeftStep ==
  ASSUME SInv, Detours = {}, [Next]_vars
  PROVE  Left'
<1>i. /\ TypeOK /\ IInv /\ Left /\ NoStray /\ OpenInScope /\ Few(Open)
      /\ live \subseteq Pane /\ \A p \in live : p[1] \in Run /\ p = <<p[1], gen[p[1]]>>
  BY DEF SInv, IInv, Typed, Paned, Pane
<1>1. CASE UNCHANGED session
  <2>1. CASE current # None
    BY <1>1, <1>i, <2>1 DEF Left, session
  <2>2. CASE current = None
    <3>1. /\ live' \subseteq live /\ orphans' \subseteq orphans
          /\ live' \ orphans' \subseteq live \ orphans
          /\ gen' = gen /\ name' = name /\ parent' = parent /\ leaf' = leaf
      BY <1>1, <1>i, <2>2, IdleStep DEF place
    <3>2. Kept' \in SUBSET Kept
      BY <3>1 DEF Kept
    <3>3. Few(Kept) => Few(Kept)'
      BY <3>1, <3>2, FewOf DEF Few
    <3>4. current' = None /\ reloading' = reloading
      BY <1>1, <2>2 DEF session
    <3>5. reloading = None => live' \subseteq orphans'
      BY <1>i, <2>2, <3>1 DEF Left
    <3>6. reloading # None =>
            /\ orphans' = {} /\ Few(Kept)'
            /\ \A p \in live' : parent'[p[1]] = reloading /\ p[1] \in leaf'[reloading].origins
      BY <1>i, <3>1, <3>3 DEF Left
    <3> QED BY <3>4, <3>5, <3>6 DEF Left
  <2> QED BY <2>1, <2>2
<1>2. CASE Shutdown
  <2> DEFINE open == {r \in Run : known[r] = "running"}
  <2>1. /\ current # None /\ current' = None /\ reloading' = reloading
        /\ live' = Paneless(live, open) /\ orphans' = Paneless(orphans, open)
    BY <1>2 DEF Shutdown
  <2>2. \A p \in live' : p \in live /\ p[1] \notin open
    BY <1>i, <2>1 DEF Paneless, IInv, Paned
  <2>3. \A p \in live' : p \in orphans
    BY <1>i, <2>1, <2>2 DEF NoStray
  <2>4. live' \subseteq orphans'
    BY <2>1, <2>2, <2>3 DEF Paneless
  <2> QED BY <1>i, <2>1, <2>4 DEF Left
<1>3. CASE Reload
  <2>1. /\ current # None /\ current' = None /\ reloading' = current /\ orphans = {}
        /\ UNCHANGED <<live, orphans, gen, name, parent, leaf>>
    BY <1>3 DEF Reload, place
  <2>2. \A p \in live : known[p[1]] = "running" /\ InScope(p[1])
    BY <1>i, <2>1 DEF NoStray, OpenInScope
  <2>3. Kept' \in SUBSET Open
    <3>1. Kept' = Kept
      BY <2>1 DEF Kept
    <3>2. \A r \in Kept : known[r] = "running" /\ InScope(r) /\ r \in Run
      BY <2>2 DEF Kept
    <3> QED BY <3>1, <3>2 DEF Open, InScope
  <2>4. Few(Kept)'
    BY <1>i, <2>1, <2>3, FewOf DEF Few
  <2>5. \A p \in live' : parent'[p[1]] = current /\ p[1] \in leaf'[current].origins
    BY <2>1, <2>2 DEF InScope, InEpoch
  <2> QED BY <2>1, <2>4, <2>5 DEF Left
<1>4. CASE Die
  BY <1>4 DEF Die, Left
<1>5. ASSUME NEW s \in Session, SessionStart(s) PROVE Left'
  BY <1>5, NoneAssumption DEF SessionStart, Left
<1> QED BY <1>1, <1>2, <1>3, <1>4, <1>5, SessionStep

---------------------------------------------------------------------------
(* Reports *)

(* What is on its way after a step was before, or is one just taken in.    *)
LEMMA OnceStep ==
  ASSUME TypeOK, OnceOnly, [Next]_vars
  PROVE  OnceOnly'
<1> DEFINE Report == [run : Run, gen : 0..MaxGeneration, n : 1..MaxReports]
<1>t. MailTyped /\ transit \in Seq(Report) /\ Len(transit) \in Nat /\ DOMAIN transit = 1..Len(transit)
  BY DEF TypeOK, MailTyped
<1>k. \A k \in DOMAIN transit : transit[k].run \in Run /\ transit[k].n \in Nat
  <2> HIDE DEF Report
  <2>1. \A k \in DOMAIN transit : transit[k] \in Report
    BY <1>t
  <2> QED BY <2>1 DEF Report
<1>u. ASSUME UNCHANGED <<sent, transit, told, inbox, held>> PROVE OnceOnly'
  BY <1>u DEF OnceOnly, Of
<1>e. ASSUME EpochEnds, UNCHANGED <<sent, transit, told>> PROVE OnceOnly'
  <2>1. inbox' = {} /\ held' = {[i EXCEPT !.fresh = FALSE] : i \in held}
    BY <1>e DEF EpochEnds
  <2>2. \A i \in Item : [i EXCEPT !.fresh = FALSE].run = i.run /\ [i EXCEPT !.fresh = FALSE].n = i.n
    BY DEF Item
  <2>3. ASSUME NEW i \in held' PROVE \E j \in held : i.run = j.run /\ i.n = j.n
    <3>1. PICK j \in held : i = [j EXCEPT !.fresh = FALSE]
      BY <2>1
    <3>2. j \in Item
      BY <1>t DEF MailTyped
    <3> QED BY <2>2, <3>1, <3>2
  <2> QED BY <1>e, <2>1, <2>3 DEF OnceOnly, Of
<1>1. ASSUME NEW r \in Run, SendReport(r) PROVE OnceOnly'
  <2> DEFINE m == [run |-> r, gen |-> gen[r], n |-> sent[r] + 1]
  <2>1. /\ transit' = Append(transit, m) /\ sent' = [sent EXCEPT ![r] = @ + 1]
        /\ UNCHANGED <<inbox, held, told>>
    BY <1>1 DEF SendReport
  <2>2. m.run = r /\ m.n = sent[r] + 1 /\ sent[r] \in Nat
    BY <1>t DEF MailTyped
  <2> HIDE DEF m
  <2>3. DOMAIN transit' = 1..Len(transit) + 1 /\ transit'[Len(transit) + 1] = m
        /\ \A k \in DOMAIN transit : transit'[k] = transit[k]
    BY <1>t, <2>1
  <2>4. \A k \in DOMAIN transit' : k \in DOMAIN transit \/ k = Len(transit) + 1
    BY <1>t, <2>3
  <2>5. \A q \in Run : sent[q] \in Nat /\ sent'[q] \in Nat /\ sent[q] <= sent'[q] /\ (q = r => sent'[q] = sent[q] + 1)
    BY <1>t, <2>1 DEF MailTyped
  <2>6. ASSUME NEW k \in DOMAIN transit PROVE Of(transit[k]) # Of(m)
    <3>1. transit[k].n <= sent[transit[k].run] /\ transit[k].n \in Nat
      BY <1>k DEF OnceOnly
    <3>2. transit[k].run = r => transit[k].n # sent[r] + 1
      BY <2>2, <3>1
    <3> QED BY <2>2, <3>2 DEF Of
  <2>7. ASSUME NEW j \in DOMAIN transit', NEW k \in DOMAIN transit', Of(transit'[j]) = Of(transit'[k])
        PROVE  j = k
    <3>1. CASE j \in DOMAIN transit /\ k \in DOMAIN transit
      BY <2>3, <2>7, <3>1 DEF OnceOnly
    <3>2. CASE j \in DOMAIN transit /\ k = Len(transit) + 1
      BY <2>3, <2>6, <2>7, <3>2
    <3>3. CASE j = Len(transit) + 1 /\ k \in DOMAIN transit
      BY <2>3, <2>6, <2>7, <3>3
    <3> QED BY <2>4, <3>1, <3>2, <3>3
  <2>8. ASSUME NEW i \in inbox \cup held PROVE Of(m) # Of(i) /\ i.run \in Run /\ i.n \in Nat
    <3>1. i.run \in Run /\ i.n \in Nat
      BY <1>t DEF MailTyped, Item
    <3>2. i.n <= sent[i.run]
      BY DEF OnceOnly
    <3>3. i.run = r => i.n # sent[r] + 1
      BY <2>2, <3>1, <3>2
    <3> QED BY <2>2, <3>1, <3>3 DEF Of
  <2>9. Of(m) \notin told /\ \A o \in told : o[1] \in Run /\ o[2] \in Nat
    BY <1>t, <2>2 DEF OnceOnly, Of, MailTyped
  <2>10. \A k \in DOMAIN transit' :
           /\ transit'[k].n <= sent'[transit'[k].run]
           /\ Of(transit'[k]) \notin told
           /\ \A i \in inbox \cup held : Of(transit'[k]) # Of(i)
    <3>1. ASSUME NEW k \in DOMAIN transit PROVE transit[k].n <= sent'[transit[k].run]
      BY <1>k, <2>5 DEF OnceOnly
    <3>2. m.n <= sent'[m.run]
      BY <2>2, <2>5
    <3> QED BY <2>3, <2>4, <2>8, <2>9, <3>1, <3>2 DEF OnceOnly
  <2>11. \A i \in inbox \cup held : i.n <= sent'[i.run]
    BY <2>5, <2>8 DEF OnceOnly
  <2>12. \A o \in told : o[2] <= sent'[o[1]]
    BY <2>5, <2>9 DEF OnceOnly
  <2> QED BY <2>1, <2>7, <2>10, <2>11, <2>12 DEF OnceOnly, Of
<1>2. CASE Receive
  <2> DEFINE m == transit[1]
             new == [run |-> m.run, n |-> m.n, fresh |-> TRUE]
  <2>1. transit # <<>> /\ transit' = Tail(transit) /\ Head(transit) = m
    BY <1>2 DEF Receive
  <2>2. /\ 1 \in DOMAIN transit
        /\ DOMAIN transit' = 1..(Len(transit) - 1)
        /\ \A k \in DOMAIN transit' : k + 1 \in DOMAIN transit /\ k + 1 # 1 /\ transit'[k] = transit[k + 1]
    BY <1>t, <2>1
  <2>3. /\ UNCHANGED <<sent, held>>
        /\ told' \in {told, told \cup {Of(m)}}
        /\ inbox' \in {inbox, inbox \cup {new}}
        /\ told' = told \/ inbox' = inbox
    BY <1>2, <2>1 DEF Receive, Of
  <2>4. Of(new) = Of(m) /\ new.n = m.n /\ new.run = m.run
    BY DEF Of
  <2>5. Of(m)[1] = m.run /\ Of(m)[2] = m.n
    BY DEF Of
  <2> HIDE DEF m, new
  <2>6. /\ m.n <= sent[m.run] /\ Of(m) \notin told
        /\ \A i \in inbox \cup held : Of(m) # Of(i)
        /\ \A k \in DOMAIN transit' : Of(transit'[k]) # Of(m)
    <3>1. \A k \in DOMAIN transit' : Of(transit[k + 1]) # Of(transit[1])
      BY <2>2 DEF OnceOnly
    <3> QED BY <2>2, <3>1 DEF OnceOnly, m
  <2>7. \A j, k \in DOMAIN transit' : Of(transit'[j]) = Of(transit'[k]) => j = k
    <3>1. \A j, k \in DOMAIN transit' : Of(transit[j + 1]) = Of(transit[k + 1]) => j + 1 = k + 1
      BY <2>2 DEF OnceOnly
    <3> QED BY <2>2, <3>1
  <2>8. \A k \in DOMAIN transit' :
          /\ transit'[k].n <= sent[transit'[k].run]
          /\ Of(transit'[k]) \notin told'
          /\ \A i \in inbox' \cup held : Of(transit'[k]) # Of(i)
    BY <2>2, <2>3, <2>4, <2>6 DEF OnceOnly
  <2>9. \A i \in inbox' : \A j \in held : Of(i) # Of(j)
    BY <2>3, <2>4, <2>6 DEF OnceOnly
  <2>10. \A i \in inbox' \cup held : i.n <= sent[i.run] /\ Of(i) \notin told'
    BY <2>3, <2>4, <2>6 DEF OnceOnly
  <2>11. \A o \in told' : o[2] <= sent[o[1]]
    BY <2>3, <2>5, <2>6 DEF OnceOnly
  <2> QED BY <2>3, <2>7, <2>8, <2>9, <2>10, <2>11 DEF OnceOnly, Of
<1>f. ASSUME NEW items, Send(items)
      PROVE  \A o \in told' : o \in told \/ \E i \in items : o = Of(i)
  BY <1>f DEF Send
<1>o. \A i : Of(i)[1] = i.run /\ Of(i)[2] = i.n
  BY DEF Of
<1>3. CASE Flush
  <2>1. CASE panel
    BY <1>3, <2>1 DEF Flush, OnceOnly, Of
  <2>2. CASE ~panel
    <3>1. /\ inbox' = {} /\ UNCHANGED <<sent, transit, held>>
          /\ \A o \in told' : o \in told \/ \E i \in inbox : o = Of(i)
      BY <1>3, <1>f, <2>2 DEF Flush
    <3> QED BY <1>o, <3>1 DEF OnceOnly, Of
  <2> QED BY <2>1, <2>2
<1>4. CASE ClosePanel
  <2>1. /\ held' = {} /\ UNCHANGED <<sent, transit, inbox>>
        /\ \A o \in told' : o \in told \/ \E i \in held : o = Of(i)
    BY <1>4, <1>f DEF ClosePanel
  <2> QED BY <1>o, <2>1 DEF OnceOnly, Of
<1>5. CASE OpenPanel \/ UNCHANGED vars
  BY <1>5, <1>u DEF OpenPanel, vars, mail
<1>6. CASE BeforeSwitch \/ Shutdown \/ Reload
  BY <1>6, <1>e DEF BeforeSwitch, Shutdown, Reload
<1>7. CASE Die
  BY <1>7 DEF Die, OnceOnly
<1>8. ASSUME NEW r \in Run, LaunchCall(r) \/ Refuse(r) \/ StopWaiting(r) \/ Close(r) \/ PaneGone(r) \/ PaneEnds(r)
      PROVE  UNCHANGED mail
  BY <1>8 DEF LaunchCall, Refuse, StopWaiting, Close, PaneGone, PaneEnds, EndInScope
<1>9. ASSUME NEW r \in Run, NEW starts \in BOOLEAN,
             Resume(r, starts) \/ \E n \in Name, foreground \in BOOLEAN : Admit(r, n, foreground, starts)
      PROVE  UNCHANGED mail
  BY <1>9 DEF Resume, Admit
<1>10. ASSUME NEW p, DaemonEnds(p) \/ Navigate(p) \/ SessionStart(p) PROVE UNCHANGED mail
  BY <1>10 DEF DaemonEnds, Navigate, SessionStart
<1>11. UNCHANGED mail => OnceOnly'
  BY <1>u DEF mail
<1> QED BY <1>1, <1>2, <1>3, <1>4, <1>5, <1>6, <1>7, <1>8, <1>9, <1>10, <1>11 DEF Next

LEMMA OwingStep ==
  ASSUME SInv, Detours = {}, [Next]_vars
  PROVE  Owing' /\ OwedIsHeld'
<1> DEFINE Owed == \A o \in owed : \E i \in inbox \cup held : i.fresh /\ Of(i) = o
           Goal == Owing' /\ Owed'
<1>i. /\ TypeOK /\ MailTyped /\ OnceOnly /\ Owing /\ Between /\ OpenInScope /\ Owed /\ Placed
      /\ fresh \in [Run -> BOOLEAN] /\ parent \in [Run -> Session \cup {None}]
  BY DEF SInv, TypeOK, MailTyped, OwedIsHeld
<1> SUFFICES Goal
  <2>1. OnceOnly'
    BY <1>i, OnceStep
  <2> QED BY <2>1 DEF OnceOnly, OwedIsHeld
<1>r. (\A i \in inbox \cup held : i.run \in Run) /\ \A o \in owed : o[1] \in Run
  BY <1>i DEF MailTyped, Item
<1>u. ASSUME UNCHANGED <<inbox, held, owed, current>>, \A r \in Run : fresh[r] => fresh'[r],
             \A r \in Run : parent'[r] = parent[r] \/ parent'[r] = current
      PROVE  Goal
  BY <1>u, <1>i, <1>r DEF Owing, Of
<1>e. ASSUME EpochEnds PROVE Goal
  <2>1. \A i \in Item : ~[i EXCEPT !.fresh = FALSE].fresh
    BY DEF Item
  <2>2. inbox' = {} /\ owed' = {} /\ \A i \in held' : ~i.fresh
    BY <1>e, <1>i, <2>1 DEF EpochEnds, MailTyped
  <2> QED BY <2>2 DEF Owing
<1>v. ASSUME UNCHANGED <<inbox, held, owed, current, fresh, parent>> PROVE Goal
  <2> HIDE DEF Goal
  <2> QED BY <1>u, <1>v
<1>1. ASSUME NEW r \in Run, LaunchCall(r) PROVE Goal
  <2> HIDE DEF Goal
  <2>1. /\ UNCHANGED <<inbox, held, owed, current>>
        /\ parent' = [parent EXCEPT ![r] = current] /\ fresh' = [fresh EXCEPT ![r] = TRUE]
    BY <1>1 DEF LaunchCall, session, mail
  <2>2. \A q \in Run : (fresh[q] => fresh'[q]) /\ (parent'[q] = parent[q] \/ parent'[q] = current)
    BY <1>i, <2>1
  <2> QED BY <1>u, <2>1, <2>2
<1>2. ASSUME NEW r \in Run, NEW n \in Name, NEW foreground \in BOOLEAN, NEW starts \in BOOLEAN,
             Admit(r, n, foreground, starts)
      PROVE  Goal
  <2> HIDE DEF Goal
  <2>1. UNCHANGED <<inbox, held, owed, current, fresh, parent>>
    BY <1>2 DEF Admit, session, mail
  <2> QED BY <1>v, <2>1
<1>3. ASSUME NEW r \in Run, NEW starts \in BOOLEAN, Resume(r, starts) PROVE Goal
  <2> HIDE DEF Goal
  <2>1. UNCHANGED <<inbox, held, owed, current, parent>> /\ fresh' = [fresh EXCEPT ![r] = TRUE]
    BY <1>3 DEF Resume, session, mail
  <2>2. \A q \in Run : fresh[q] => fresh'[q]
    BY <1>i, <2>1
  <2> QED BY <1>u, <2>1, <2>2
<1>4. ASSUME NEW r \in Run,
             \/ Refuse(r) \/ StopWaiting(r) \/ Close(r) \/ PaneGone(r)
             \/ SendReport(r) \/ PaneEnds(r)
      PROVE  Goal
  <2> HIDE DEF Goal
  <2>1. UNCHANGED <<inbox, held, owed, current, fresh, parent>>
    BY <1>4 DEF Refuse, StopWaiting, Close, PaneGone, EndInScope, SendReport, PaneEnds, session, run, mail
  <2> QED BY <1>v, <2>1
<1>5. ASSUME NEW p, DaemonEnds(p) \/ Navigate(p) PROVE Goal
  <2> HIDE DEF Goal
  <2>1. UNCHANGED <<inbox, held, owed, current, fresh, parent>>
    BY <1>5 DEF DaemonEnds, Navigate, session, mail
  <2> QED BY <1>v, <2>1
<1>6. CASE Receive
  <2> DEFINE m == Head(transit)
             new == [run |-> m.run, n |-> m.n, fresh |-> TRUE]
  <2>1. /\ UNCHANGED <<held, current, fresh, parent>>
        /\ \/ UNCHANGED <<inbox, owed>>
           \/ /\ InScope(m.run)
              /\ inbox' = inbox \cup {new}
              /\ owed' = owed \cup {Of(m)}
    BY <1>6 DEF Receive, session, Of
  <2>2. new.fresh /\ Of(new) = Of(m) /\ new.run = m.run /\ Of(m)[1] = m.run
    BY DEF Of
  <2> HIDE DEF m, new
  <2>3. CASE UNCHANGED <<inbox, owed>>
    BY <1>v, <2>1, <2>3
  <2>4. CASE /\ InScope(m.run)
             /\ inbox' = inbox \cup {new}
             /\ owed' = owed \cup {Of(m)}
    <3>1. fresh[m.run] /\ parent[m.run] = current
      BY <2>4 DEF InScope, InEpoch
    <3>2. Owing'
      BY <1>i, <2>1, <2>2, <2>4, <3>1 DEF Owing, Of
    <3>3. Owed'
      BY <1>i, <2>1, <2>2, <2>4 DEF Of
    <3> QED BY <3>2, <3>3
  <2> QED BY <2>1, <2>3, <2>4
<1>s. ASSUME NEW items, NEW kept, items \cup kept = inbox \cup held, Send(items),
             \A i \in items, j \in kept : Of(i) # Of(j),
             inbox' \cup held' = kept, UNCHANGED <<current, fresh, parent>>
      PROVE  Goal
  <2>1. owed' = {o \in owed : \A i \in items : Of(i) = o => ~Deliverable(i) /\ i.run \in leaf[current].origins}
    BY <1>s DEF Send
  <2>2. Owing'
    <3>1. ASSUME NEW i \in kept, i.fresh PROVE fresh'[i.run] /\ Of(i) \in owed'
      <4>1. i \in inbox \cup held /\ fresh[i.run] /\ Of(i) \in owed
        BY <1>s, <1>i, <3>1 DEF Owing
      <4> QED BY <1>s, <2>1, <4>1
    <3>2. \A o \in owed' : parent'[o[1]] = current'
      BY <1>s, <1>i, <2>1 DEF Owing
    <3>3. \A i : Of(i)' = Of(i)
      BY DEF Of
    <3> QED BY <1>s, <3>1, <3>2, <3>3 DEF Owing
  <2>3. ASSUME NEW o \in owed' PROVE \E i \in kept : i.fresh /\ Of(i) = o
    <3>1. o \in owed /\ \A i \in items : Of(i) = o => ~Deliverable(i) /\ i.run \in leaf[current].origins
      BY <2>1
    <3>2. PICK i \in inbox \cup held : i.fresh /\ Of(i) = o
      BY <1>i, <3>1
    <3>3. parent[i.run] = current /\ current # None
      BY <1>i, <3>1, <3>2 DEF Owing, Of, Between
    <3>4. i \notin items
      BY <3>1, <3>2, <3>3 DEF Deliverable
    <3> QED BY <1>s, <3>2, <3>4
  <2>4. Owed'
    BY <1>s, <2>3 DEF Of
  <2> QED BY <2>2, <2>4
<1>7. CASE Flush
  <2> HIDE DEF Goal
  <2>1. CASE panel
    <3>1. inbox' \cup held' = inbox \cup held /\ UNCHANGED <<owed, current, fresh, parent>>
      BY <1>7, <2>1 DEF Flush, session, run
    <3> QED BY <1>i, <3>1 DEF Owing, Goal, Of
  <2>2. CASE ~panel
    <3>1. inbox' = {} /\ held' = held /\ Send(inbox) /\ UNCHANGED <<current, fresh, parent>>
      BY <1>7, <2>2 DEF Flush, session, run
    <3>2. \A i \in inbox, j \in held : Of(i) # Of(j)
      BY <1>i DEF OnceOnly
    <3> QED BY <1>s, <3>1, <3>2
  <2> QED BY <2>1, <2>2
<1>8. CASE ClosePanel
  <2> HIDE DEF Goal
  <2>1. inbox' = inbox /\ held' = {} /\ Send(held) /\ UNCHANGED <<current, fresh, parent>>
    BY <1>8 DEF ClosePanel, session, run
  <2>2. \A i \in held, j \in inbox : Of(i) # Of(j)
    BY <1>i DEF OnceOnly
  <2> QED BY <1>s, <2>1, <2>2
<1>9. CASE OpenPanel \/ UNCHANGED vars
  <2> HIDE DEF Goal
  <2>1. UNCHANGED <<inbox, held, owed, current, fresh, parent>>
    BY <1>9 DEF OpenPanel, vars, session, run, mail
  <2> QED BY <1>v, <2>1
<1>10. CASE BeforeSwitch \/ Shutdown \/ Reload
  BY <1>10, <1>e DEF BeforeSwitch, Shutdown, Reload
<1>11. CASE Die
  BY <1>11 DEF Die, Owing
<1>12. ASSUME NEW s \in Session, SessionStart(s) PROVE Goal
  <2>1. current = None /\ UNCHANGED <<inbox, held, owed>>
    BY <1>12 DEF SessionStart, mail
  <2> QED BY <1>i, <2>1 DEF Between, Owing
<1> HIDE DEF Goal
<1> QED BY <1>1, <1>2, <1>3, <1>4, <1>5, <1>6, <1>7, <1>8, <1>9, <1>10, <1>11, <1>12 DEF Next

LEMMA SInvInit == Init => SInv
<1> SUFFICES ASSUME Init PROVE SInv
  OBVIOUS
<1>1. IInv
  BY InitInv
<1>2. Root \in Place
  BY DEF Root, Place
<1>3. TypeOK
  <2>1. 0 \in 0..MaxGeneration /\ 0 \in 0..MaxReports
    BY BoundAssumption
  <2>2. transit \in Seq([run : Run, gen : 0..MaxGeneration, n : 1..MaxReports])
    BY DEF Init
  <2>3. PlaceTyped
    BY <1>2 DEF Init, PlaceTyped
  <2>4. MailTyped
    BY <2>1, <2>2 DEF Init, MailTyped
  <2> QED BY <1>1, <2>3, <2>4 DEF Init, TypeOK, IInv, Typed, PlaceTyped, MailTyped
<1>4. Placed /\ AllRefd
  BY DEF Init, Placed, AllRefd, Refd, Root
<1>5. Between /\ NoStray /\ OpenInScope /\ Owing /\ OwedIsHeld
  BY DEF Init, Between, NoStray, OpenInScope, Owing, OwedIsHeld
<1>6. Left /\ OnceOnly
  BY DEF Init, Left, OnceOnly
<1>7. Open = {}
  BY DEF Init, Open, InEpoch
<1>8. Few(Open)
  BY <1>7, FS_EmptySet, BoundAssumption DEF Few
<1> QED BY <1>1, <1>3, <1>4, <1>5, <1>6, <1>8 DEF SInv

LEMMA SInvStep ==
  ASSUME SInv, Detours = {}, [Next]_vars
  PROVE  SInv'
<1>i. TypeOK /\ IInv /\ Placed /\ AllRefd /\ Between /\ OnceOnly
  BY DEF SInv
<1>1. TypeOK' /\ IInv'
  BY <1>i, TypeStep, InvStep
<1>2. Placed' /\ AllRefd' /\ Between' /\ OnceOnly'
  BY <1>i, PlacedStep, RefdStep, BetweenStep, OnceStep
<1>3. Left' /\ NoStray' /\ OpenInScope' /\ Few(Open)'
  BY LeftStep, StrayStep, ScopeStep, AdmissionStep
<1> QED BY <1>1, <1>2, <1>3, OwingStep DEF SInv

LEMMA ScopeInvariance == Detours = {} => (Spec => []SInv)
<1>1. SInv /\ Detours = {} /\ [Next]_vars => SInv'
  BY SInvStep
<1>2. Detours = {} => (SInv /\ [Next]_vars => SInv')
  BY <1>1
<1>3. ASSUME Detours = {} PROVE Spec => []SInv
  <2>1. SInv /\ [Next]_vars => SInv'
    BY <1>2, <1>3
  <2> QED BY SInvInit, <2>1, PTL DEF Spec
<1> QED BY <1>3

(* The open runs are the session's and the branch's, as many as may be and *)
(* by different names, whatever is launched, resumed and reloaded at once; *)
(* nothing is up that nobody listens to; and a report taken in is kept for *)
(* the model till it is told, once (Admission, parent-scope, inbox).       *)
THEOREM RunsAlwaysSound == Detours = {} => (Spec => []RunsSound)
<1>1. SInv => RunsSound
  BY DEF SInv, RunsSound, Few, AdmissionHolds
<1>2. ASSUME Detours = {} PROVE Spec => []RunsSound
  <2>1. Spec => []SInv
    BY <1>2, ScopeInvariance
  <2> QED BY <1>1, <2>1, PTL
<1> QED BY <1>2

(* What the model is told is of the scope that is current, and was taken   *)
(* in for it: a hold outlasts the scope, but nothing of it gets through    *)
(* (isDeliverable).                                                        *)
THEOREM AlwaysToldInScope == Detours = {} => (Spec => ToldInScope)
<1> DEFINE Told == \A o \in told' \ told : InScope(o[1]) /\ (call[o[1]] = "waiting" \/ o \in owed)
<1>1. ASSUME SInv, [Next]_vars PROVE [Told]_vars
  <2>i. TypeOK /\ MailTyped /\ Owing /\ OpenInScope
    BY <1>1 DEF SInv, TypeOK, MailTyped
  <2>s. ASSUME NEW items, items \subseteq inbox \cup held, Send(items) PROVE Told
    <3> SUFFICES ASSUME NEW o \in told' \ told PROVE InScope(o[1]) /\ o \in owed
      OBVIOUS
    <3>1. PICK i \in items : o = Of(i) /\ Deliverable(i)
      BY <2>s DEF Send
    <3>2. fresh[i.run] /\ o \in owed /\ o[1] = i.run
      BY <2>i, <2>s, <3>1 DEF Owing, Deliverable, Of
    <3> QED BY <3>1, <3>2 DEF Deliverable, InScope, InEpoch
  <2>1. CASE Receive
    <3> DEFINE m == Head(transit)
    <3>1. transit # <<>> /\ current # None
      BY <2>1 DEF Receive
    <3>2. m.run \in Run
      <4> DEFINE Report == [run : Run, gen : 0..MaxGeneration, n : 1..MaxReports]
      <4>1. transit \in Seq(Report)
        BY <2>i DEF MailTyped
      <4> HIDE DEF Report
      <4>2. m \in Report
        BY <3>1, <4>1, HeadTailProperties
      <4> QED BY <4>2 DEF Report
    <3>3. told' = told \/ (told' = told \cup {<<m.run, m.n>>} /\ known[m.run] = "running" /\ call[m.run] = "waiting")
      BY <2>1 DEF Receive
    <3> QED BY <2>i, <3>1, <3>2, <3>3 DEF OpenInScope
  <2>2. CASE Flush \/ ClosePanel
    BY <2>2, <2>s DEF Flush, ClosePanel
  <2>3. CASE UNCHANGED told
    BY <2>3
  <2>4. ASSUME NEW r \in Run,
               \/ LaunchCall(r) \/ Refuse(r) \/ StopWaiting(r) \/ Close(r) \/ PaneGone(r)
               \/ SendReport(r) \/ PaneEnds(r)
        PROVE  UNCHANGED told
    BY <2>4 DEF LaunchCall, Refuse, StopWaiting, Close, PaneGone, EndInScope, SendReport, PaneEnds, mail
  <2>5. ASSUME NEW r \in Run, NEW starts \in BOOLEAN,
               Resume(r, starts) \/ \E n \in Name, foreground \in BOOLEAN : Admit(r, n, foreground, starts)
        PROVE  UNCHANGED told
    BY <2>5 DEF Resume, Admit, mail
  <2>6. ASSUME NEW p, DaemonEnds(p) \/ Navigate(p) \/ SessionStart(p) PROVE UNCHANGED told
    BY <2>6 DEF DaemonEnds, Navigate, SessionStart, mail
  <2>7. CASE OpenPanel \/ BeforeSwitch \/ Shutdown \/ Reload \/ Die \/ UNCHANGED vars
    BY <2>3, <2>7 DEF OpenPanel, BeforeSwitch, Shutdown, Reload, Die, mail, vars
  <2> HIDE DEF Told
  <2> QED BY <1>1, <2>1, <2>2, <2>3, <2>4, <2>5, <2>6, <2>7 DEF Next
<1>2. ASSUME Detours = {} PROVE Spec => ToldInScope
  <2>1. Spec => []SInv
    BY <1>2, ScopeInvariance
  <2>2. SInv /\ [Next]_vars => [Told]_vars
    BY <1>1
  <2> QED BY <2>1, <2>2, PTL DEF Spec, ToldInScope
<1> QED BY <1>2
====
