------------------------------ MODULE RunUsage ------------------------------
(***************************************************************************)
(* What is counted of subagent runs: a run's pi sends its orchestrator, as *)
(* it settles, a Report with its session's usage so far                    *)
(* (ext/subagents/tmux-runs.ts); the orchestrator keeps each session's     *)
(* latest total in a ledger (ext/subagents/storage.ts, generations.ts),    *)
(* from which the phone's status sheet and /status count.                  *)
(*                                                                         *)
(* Usage is counted in turns.  A run of Old is one from before runs were   *)
(* pis of their own, whose session the ledger had already counted.  A      *)
(* session begun by /fork starts with turns of the one it was forked from. *)
(***************************************************************************)
EXTENDS Naturals, FiniteSets, Sequences, FiniteSetsExt

CONSTANTS Run, Session, None,
          Old,        \* the old runs
          TurnBound, WireBound, LossBound, ResumeBound

VARIABLES holds,    \* each session file's usage: every turn in it
          owner,    \* the run a session was begun in
          in,       \* the session each run's pi is in; None: it is closed
          file,     \* the session a Resume reopens
          paned,    \* the runs whose record has a pane
          working,  \* the runs in a turn
          reopened, \* those a Resume started
          wire,     \* each run's Reports on their way, in order (`sending`)
          hearing,  \* the orchestrator's present instance listens to its runs
          base, sessions, counted, \* the ledger: usage, sessions and counted
          losses, resumes,
          turns,    \* history: how many turns the runs made
          copied,   \* history: how many of a session's turns its fork copied
          missed    \* the sessions no Report of which says, or will, what they hold

life == <<owner, in, file, paned, reopened>>
ledger == <<base, sessions, counted>>
history == <<turns, copied>>
vars == <<holds, life, working, wire, hearing, ledger, losses, resumes, history, missed>>

Zero == [s \in Session |-> 0]
Init == /\ \E first \in [Run -> Session] :
              /\ \A r, q \in Run : r # q => first[r] # first[q]
              /\ file = [r \in Run |-> first[r]]
              /\ in = [r \in Run |-> IF r \in Old THEN None ELSE first[r]]
              /\ owner = [s \in Session |-> IF \E r \in Run : first[r] = s
                                            THEN CHOOSE r \in Run : first[r] = s ELSE None]
              /\ holds = [s \in Session |-> IF owner[s] \in Old THEN 1 ELSE 0]
        /\ paned = Run \ Old /\ reopened = {} /\ working = {}
        /\ wire = [r \in Run |-> <<>>] /\ hearing = TRUE
        /\ base = Cardinality(Old) /\ sessions = [r \in Run |-> Zero] /\ counted = Zero
        /\ losses = 0 /\ resumes = 0 /\ missed = {}
        /\ turns = Cardinality(Old) /\ copied = Zero

(***************************************************************************)
(* In the run's pi (actAsRun).                                             *)
(***************************************************************************)
TurnStarts(r) ==
    /\ in[r] # None /\ r \notin working /\ holds[in[r]] < TurnBound
    /\ working' = working \cup {r}
    /\ UNCHANGED <<holds, life, wire, hearing, ledger, losses, resumes, history, missed>>
\* agent_settled: a Report, whose usage is that of every entry of the session.
Settles(r) ==
    /\ r \in working /\ Len(wire[r]) < WireBound
    /\ working' = working \ {r}
    /\ holds' = [holds EXCEPT ![in[r]] = @ + 1]
    /\ wire' = [wire EXCEPT ![r] = Append(@, [session |-> in[r], usage |-> holds'[in[r]]])]
    /\ turns' = turns + 1
    /\ UNCHANGED <<life, hearing, ledger, losses, resumes, copied, missed>>

\* /new in the run's window; its other session's total stays in the ledger.
NewSession(r, s) ==
    /\ in[r] # None /\ r \notin working /\ owner[s] = None
    /\ in' = [in EXCEPT ![r] = s] /\ owner' = [owner EXCEPT ![s] = r]
    /\ UNCHANGED <<holds, file, paned, reopened, working, wire, hearing, ledger, losses, resumes, history, missed>>
\* /fork there: a session that starts with the first turns of the one it is in.
Forks(r, s) ==
    /\ in[r] # None /\ r \notin working /\ owner[s] = None
    /\ \E k \in 1..holds[in[r]] :
         /\ holds' = [holds EXCEPT ![s] = k] /\ copied' = [copied EXCEPT ![s] = k]
    /\ in' = [in EXCEPT ![r] = s] /\ owner' = [owner EXCEPT ![s] = r]
    /\ missed' = missed \cup {s}
    /\ UNCHANGED <<file, paned, reopened, working, wire, hearing, ledger, losses, resumes, turns>>
\* /resume there, of a session of its own.
Switches(r, s) ==
    /\ in[r] # None /\ r \notin working /\ s # in[r] /\ owner[s] = r
    /\ in' = [in EXCEPT ![r] = s]
    /\ UNCHANGED <<holds, owner, file, paned, reopened, working, wire, hearing, ledger, losses, resumes, history, missed>>

(***************************************************************************)
(* The orchestrator.                                                       *)
(***************************************************************************)
\* recordRunSessionUsage: the session's total replaces its previous one.
Recorded(r, s, n) == [sessions EXCEPT ![r][s] = n]

\* A Report reaches the run it is from, unless no instance listens, or no more: one that is
\* closed is listened to until that is seen.
Arrives(r) ==
    /\ wire[r] # <<>> /\ wire' = [wire EXCEPT ![r] = Tail(@)]
    /\ LET m == Head(wire[r])
       IN  \/ /\ hearing /\ sessions' = Recorded(r, m.session, m.usage)
              /\ missed' = missed \ {s \in {m.session} : m.usage = holds[s]}
           \/ /\ ~hearing \/ in[r] = None
              /\ UNCHANGED sessions /\ missed' = missed \cup {m.session}
    /\ UNCHANGED <<holds, life, working, hearing, base, counted, losses, resumes, history>>
\* A send that fails is not tried again: the run's window says so.
Lost(r) ==
    /\ wire[r] # <<>> /\ losses < LossBound /\ losses' = losses + 1
    /\ wire' = [wire EXCEPT ![r] = Tail(@)]
    /\ missed' = missed \cup {Head(wire[r]).session}
    /\ UNCHANGED <<holds, life, working, hearing, ledger, resumes, history>>

\* A reload hands the open runs over to the next instance of the session.
HandsOff == /\ hearing /\ hearing' = FALSE
            /\ UNCHANGED <<holds, life, working, wire, ledger, losses, resumes, history, missed>>
TakesOver == /\ ~hearing /\ hearing' = TRUE
             /\ UNCHANGED <<holds, life, working, wire, ledger, losses, resumes, history, missed>>

\* runSessionFile: the session a Resume reopened, else the newest in the run's directory.
Kept(r) == IF r \in reopened THEN file[r] ELSE in[r]
\* Closed, or its pi quit or crashed: a turn in progress is not counted in the ledger.
Closes(r) ==
    /\ in[r] # None
    /\ in' = [in EXCEPT ![r] = None] /\ working' = working \ {r}
    /\ file' = [file EXCEPT ![r] = Kept(r)]
    /\ holds' = IF r \in working THEN [holds EXCEPT ![in[r]] = @ + 1] ELSE holds
    /\ missed' = IF r \in working THEN missed \cup {in[r]} ELSE missed
    /\ turns' = IF r \in working THEN turns + 1 ELSE turns
    /\ UNCHANGED <<owner, paned, reopened, wire, hearing, ledger, losses, resumes, copied>>

(* A mutant: nothing is noted of an old session. *)
NotNoted(r) == counted
\* recordCountedSessionUsage: what an old run's session had counted, before it is resumed.
Noted(r) == IF r \notin paned /\ counted[file[r]] = 0
            THEN [counted EXCEPT ![file[r]] = holds[file[r]]] ELSE counted
Resumes(r) ==
    /\ hearing /\ in[r] = None /\ wire[r] = <<>> /\ resumes < ResumeBound
    /\ counted' = Noted(r)
    /\ in' = [in EXCEPT ![r] = file[r]] /\ paned' = paned \cup {r} /\ reopened' = reopened \cup {r}
    /\ resumes' = resumes + 1
    /\ UNCHANGED <<holds, owner, file, working, wire, hearing, base, sessions, losses, history, missed>>

Next == \/ \E r \in Run : \/ TurnStarts(r) \/ Settles(r) \/ Arrives(r) \/ Lost(r) \/ Closes(r) \/ Resumes(r)
                          \/ \E s \in Session : NewSession(r, s) \/ Forks(r, s) \/ Switches(r, s)
        \/ HandsOff \/ TakesOver

Spec == Init /\ [][Next]_vars

(***************************************************************************)
(* readRunUsageLedger                                                      *)
(***************************************************************************)
Beyond(total, less) == IF total > less THEN total - less ELSE 0
Total == base + MapThenSumSet(LAMBDA p : Beyond(sessions[p[1]][p[2]], counted[p[2]]), Run \X Session)
Copies == MapThenSumSet(LAMBDA s : copied[s], Session)
OnItsWay(s) == \E r \in Run : \E i \in DOMAIN wire[r] : wire[r][i].session = s

(***************************************************************************)
(* Properties                                                              *)
(***************************************************************************)
(* Each turn is counted once (GLOSSARY.md, Usage), but for those a fork
   copied, once more with every session that begins with them, as sessionUsage sums all that a
   session holds: the ledger never says more than that, however many Reports carry a session's
   total, whatever sessions a run goes through and whichever of them are resumed; and it says all of
   it once what each session holds was reported, so a lost Report is made good by the next. *)
CountedOnce ==
    /\ Total <= turns + Copies
    /\ missed = {} /\ (\A s \in Session : ~OnItsWay(s)) => Total = turns + Copies
==============================================================================
