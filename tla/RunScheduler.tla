---- MODULE RunScheduler ----
(***************************************************************************)
(* The scheduler of an orchestrator's runs and the messages it sends them  *)
(* (ext/subagents: runs.ts, generations.ts, tmux-runs.ts, messages.ts,     *)
(* addressing.ts), await by await: SubagentRuns takes a run's stop and     *)
(* its end for one step, here they are several, and messages, closes,      *)
(* reports and the pane's own end come between them.                       *)
(*                                                                         *)
(* The orchestrator stays on one session and one branch.  Storing may fail *)
(* at each write, and so may the reference to a run that its session is    *)
(* appended.  A run's name is its own.                                     *)
(***************************************************************************)
EXTENDS Naturals, FiniteSets, TLAPS

CONSTANTS
  Run,
  Message,       \* the orchestrator's messages to its runs
  None,
  GenBound,      \* bound: how often a run is resumed
  FailBound      \* bound: writes, references and starts that fail

VARIABLES
  status,     \* the scheduler's records
  gen,
  stopped,    \* pendingTerminalStatus is set, and the signal aborted
  exec,       \* where each run's executeRun and its finalization are
  result,     \* what the run is finalized as
  disk,       \* the stored records
  unstored,   \* history: the runs whose failure could not be stored either
  panes,      \* the panes that are up, by run and generation
  rows,       \* those the daemon lists
  endpoint,   \* the runs the bus has an endpoint for
  msg,        \* each message: how far it is, its run and the pane it is for
  fails       \* writes, references and starts that failed

runVars == <<status, gen, stopped, exec, result, disk, unstored>>
paneVars == <<panes, rows>>
msgVars == <<endpoint, msg>>
vars == <<runVars, paneVars, msgVars, fails>>

Final == {"closed", "failed"}
Live == {"starting", "running", "stopping"}
Pane == Run \X (0..GenBound)
Record == [status : {"none"} \cup Live \cup Final, gen : 0..GenBound]
Sending == [step : {"new", "sending", "accepted", "refused"}, to : Run \cup {None}, gen : 0..GenBound]
Executing == {"none", "waits", "threw", "over", "again", "stored"}

(* The types of the scheduler, the stored records and the messages. *)
TypeOK ==
  /\ status \in [Run -> {"none"} \cup Live \cup Final] /\ gen \in [Run -> 0..GenBound]
  /\ stopped \in [Run -> BOOLEAN]
  /\ exec \in [Run -> Executing]
  /\ result \in [Run -> Final] /\ disk \in [Run -> Record] /\ unstored \subseteq Run
  /\ panes \subseteq Pane /\ rows \subseteq Pane
  /\ endpoint \subseteq Run /\ msg \in [Message -> Sending]
  /\ fails \in 0..FailBound

Init ==
  /\ status = [r \in Run |-> "none"] /\ gen = [r \in Run |-> 0]
  /\ stopped = [r \in Run |-> FALSE]
  /\ exec = [r \in Run |-> "none"] /\ result = [r \in Run |-> "closed"]
  /\ disk = [r \in Run |-> [status |-> "none", gen |-> 0]] /\ unstored = {}
  /\ panes = {} /\ rows = {} /\ endpoint = {}
  /\ msg = [m \in Message |-> [step |-> "new", to |-> None, gen |-> 0]]
  /\ fails = 0

Works == fails' = fails
Fails == fails < FailBound /\ fails' = fails + 1

Stored(r, g, s) == disk' = [disk EXCEPT ![r] = [status |-> s, gen |-> g]]

(* emitChange: the record is stored as it is now, or stays as it was.     *)
Emitted(r, g, s) == (Stored(r, g, s) /\ Works) \/ (UNCHANGED disk /\ Fails)

---------------------------------------------------------------------------
(* A generation's start *)

(* startManagedRun, up to executeTmuxRun's wait: its pi starts in a pane,  *)
(* and the record is stored as starting, then as running; or the start     *)
(* fails.                                                                  *)
StartManagedRun(r, g) ==
  /\ gen' = [gen EXCEPT ![r] = g]
  /\ stopped' = [stopped EXCEPT ![r] = FALSE]
  /\ endpoint' = endpoint \cup {r}
  /\ unstored' = unstored \ {r}
  /\ \/ /\ status' = [status EXCEPT ![r] = "running"]
        /\ exec' = [exec EXCEPT ![r] = "waits"]
        /\ panes' = panes \cup {<<r, g>>}
        /\ Emitted(r, g, "running") \/ (Stored(r, g, "starting") /\ Fails)
     \/ /\ status' = [status EXCEPT ![r] = "starting"]
        /\ exec' = [exec EXCEPT ![r] = "threw"]
        /\ Stored(r, g, "starting") \/ UNCHANGED disk
        /\ Fails /\ UNCHANGED panes
  /\ UNCHANGED <<result, rows>>

Admit(r) == status[r] = "none" /\ StartManagedRun(r, 0) /\ UNCHANGED msg

Resumable(r) == status[r] = "closed" /\ gen[r] < GenBound

(* The user opens a closed run in /tasks. *)
Resume(r) == Resumable(r) /\ StartManagedRun(r, gen[r] + 1) /\ UNCHANGED msg

(* Its pi registers with the daemon, which lists it until it is gone. *)
Registers(p) == p \in panes \ rows /\ rows' = rows \cup {p} /\ UNCHANGED <<runVars, panes, msgVars, fails>>
Unlisted(p) == p \in rows \ panes /\ rows' = rows \ {p} /\ UNCHANGED <<runVars, panes, msgVars, fails>>

(* Its pi reports, or says what it is doing: the record is stored again.   *)
Reports(r) ==
  /\ exec[r] = "waits"
  /\ Emitted(r, gen[r], status[r])
  /\ UNCHANGED <<status, gen, stopped, exec, result, unstored, paneVars, msgVars>>

---------------------------------------------------------------------------
(* Its end *)

(* A mutant: the signal is left alone. *)
StopUnsignalled(r) ==
  /\ status[r] \in Live /\ exec[r] \in {"waits", "threw", "over"}
  /\ ~stopped[r]
  /\ status' = [status EXCEPT ![r] = "stopping"]
  /\ Emitted(r, gen[r], "stopping")
  /\ UNCHANGED <<gen, stopped, exec, result, unstored, paneVars, msgVars>>

(* triggerStop, for a close and for a run out of scope: what it ends as is *)
(* noted first, then the signal aborts; one that is being finalized ends   *)
(* as it is.                                                               *)
Stop(r) ==
  /\ status[r] \in Live /\ exec[r] \in {"waits", "threw", "over"}
  /\ ~stopped[r]
  /\ stopped' = [stopped EXCEPT ![r] = TRUE]
  /\ status' = [status EXCEPT ![r] = "stopping"]
  /\ Emitted(r, gen[r], "stopping")
  /\ UNCHANGED <<gen, exec, result, unstored, paneVars, msgVars>>

(* Its pi quits or crashes. *)
PaneEnds(p) ==
  /\ p \in panes
  /\ panes' = panes \ {p}
  /\ UNCHANGED <<runVars, rows, msgVars, fails>>

(* The wait ends, for the signal or for a pane found gone; the pane is     *)
(* hung up and the run taken off the bus.                                  *)
ExecuteEnds(r) ==
  /\ exec[r] = "waits"
  /\ stopped[r] \/ <<r, gen[r]>> \notin panes
  /\ exec' = [exec EXCEPT ![r] = "over"]
  /\ panes' = panes \ {<<r, gen[r]>>}
  /\ endpoint' = endpoint \ {r}
  /\ UNCHANGED <<status, gen, stopped, result, disk, unstored, rows, msg, fails>>

(* onFinalize: the report is written, the record, then the reference to it *)
(* on the branch; each may fail, the last with the record written.         *)
OnFinalize(r, s) ==
  \/ Stored(r, gen[r], s) /\ exec' = [exec EXCEPT ![r] = "stored"] /\ Works
  \/ /\ Stored(r, gen[r], s) \/ UNCHANGED disk
     /\ exec' = [exec EXCEPT ![r] = "again"] /\ Fails

(* finalizeManagedRun, up to what it awaits. *)
FinalizeManagedRun(r, s) ==
  /\ result' = [result EXCEPT ![r] = s]
  /\ OnFinalize(r, s)
  /\ UNCHANGED <<status, gen, stopped, unstored>>

(* executeRun resolved: a run whose pi ended is closed. *)
Finalize(r) == exec[r] = "over" /\ FinalizeManagedRun(r, "closed") /\ UNCHANGED <<paneVars, msgVars>>

(* executeRun threw: the run is off the bus, and fails, unless it was      *)
(* stopped meanwhile.                                                      *)
ExecuteThrew(r) ==
  /\ exec[r] = "threw"
  /\ FinalizeManagedRun(r, IF stopped[r] THEN "closed" ELSE "failed")
  /\ endpoint' = endpoint \ {r}
  /\ UNCHANGED <<paneVars, msg>>

(* A mutant: a failure is not stored once more. *)
FinalizeAgainSkipped(r) ==
  /\ exec[r] = "again"
  /\ result' = [result EXCEPT ![r] = "failed"]
  /\ exec' = [exec EXCEPT ![r] = "stored"]
  /\ UNCHANGED <<status, gen, stopped, disk, unstored, paneVars, msgVars, fails>>

(* The failure is stored the same way; once more failed, it stays in       *)
(* memory.                                                                 *)
FinalizeAgain(r) ==
  /\ exec[r] = "again"
  /\ result' = [result EXCEPT ![r] = "failed"]
  /\ exec' = [exec EXCEPT ![r] = "stored"]
  /\ \/ Stored(r, gen[r], "failed") /\ (Works \/ Fails) /\ UNCHANGED unstored
     \/ UNCHANGED disk /\ Fails /\ unstored' = unstored \cup {r}
  /\ UNCHANGED <<status, gen, stopped, paneVars, msgVars>>

(* The stored record becomes the scheduler's: the generation has settled. *)
Settle(r) ==
  /\ exec[r] = "stored"
  /\ status' = [status EXCEPT ![r] = result[r]]
  /\ exec' = [exec EXCEPT ![r] = "none"]
  /\ UNCHANGED <<gen, stopped, result, disk, unstored, paneVars, msgVars, fails>>

---------------------------------------------------------------------------
(* Messages *)

Answered(m, step) == msg' = [msg EXCEPT ![m].step = step]

(* route: a run that is final or stopping, or off the bus, is not reached; *)
(* any other is sent it in its pane.                                       *)
Route(m, r) ==
  /\ \/ /\ status[r] \in Final \cup {"stopping"} \/ r \notin endpoint
        /\ msg' = [msg EXCEPT ![m] = [step |-> "refused", to |-> r, gen |-> gen[r]]]
     \/ /\ status[r] \in {"starting", "running"} /\ r \in endpoint
        /\ msg' = [msg EXCEPT ![m] = [step |-> IF exec[r] = "waits" THEN "sending" ELSE "refused", to |-> r, gen |-> gen[r]]]
  /\ UNCHANGED <<runVars, paneVars, endpoint, fails>>

(* messageFromParent: a final run is resumed with it, if it may be; any    *)
(* other is sent it through the bus.                                       *)
Send(m, r) ==
  /\ msg[m].step = "new" /\ status[r] # "none"
  /\ \/ /\ Resumable(r) /\ StartManagedRun(r, gen[r] + 1)
        /\ msg' = [msg EXCEPT ![m] = [step |-> "accepted", to |-> r, gen |-> gen[r] + 1]]
     \/ Route(m, r)

(* sendToRun reaches the daemon while it lists the pane. *)
Delivered(m) ==
  /\ msg[m].step = "sending"
  /\ <<msg[m].to, msg[m].gen>> \in rows
  /\ Answered(m, "accepted")
  /\ UNCHANGED <<runVars, paneVars, endpoint, fails>>

(* The daemon knows no such pane when the time is up, or does not reach    *)
(* the pi of one that ended.                                               *)
GivesUp(m) ==
  /\ msg[m].step = "sending"
  /\ <<msg[m].to, msg[m].gen>> \notin rows \cap panes
  /\ Answered(m, "refused")
  /\ UNCHANGED <<runVars, paneVars, endpoint, fails>>

---------------------------------------------------------------------------
Next ==
  \/ \E r \in Run :
       \/ Admit(r) \/ Resume(r) \/ Reports(r) \/ Stop(r) \/ ExecuteEnds(r) \/ ExecuteThrew(r)
       \/ Finalize(r) \/ FinalizeAgain(r) \/ Settle(r)
       \/ \E m \in Message : Send(m, r)
  \/ \E p \in Pane : Registers(p) \/ Unlisted(p) \/ PaneEnds(p)
  \/ \E m \in Message : Delivered(m) \/ GivesUp(m)

(* What is resolved goes on, a pane that is gone is found gone at the next *)
(* check, and a send has its deadline.                                     *)
Fairness ==
  /\ \A r \in Run : WF_vars(ExecuteEnds(r)) /\ WF_vars(ExecuteThrew(r)) /\ WF_vars(Finalize(r))
                    /\ WF_vars(FinalizeAgain(r)) /\ WF_vars(Settle(r))
  /\ \A m \in Message : WF_vars(Delivered(m) \/ GivesUp(m))

Spec == Init /\ [][Next]_vars /\ Fairness

---------------------------------------------------------------------------
(* Properties *)

Closed(r) == [status |-> "closed", gen |-> gen[r]]

(* A run the orchestrator is told is closed is stored as closed, one it is *)
(* told failed is stored as failed unless storing the failure failed as    *)
(* well, and what is told final or stored as closed has its pane hung up:  *)
(* whatever writes fail, and whatever closes it meanwhile (runs.ts:        *)
(* "Durably stores a settled run before it turns terminal", "Store the     *)
(* failure the same way so nothing durable still reads as a success").     *)
Durable ==
  \A r \in Run :
    /\ status[r] = "closed" => disk[r] = Closed(r)
    /\ status[r] = "failed" /\ r \notin unstored => disk[r] = [status |-> "failed", gen |-> gen[r]]
    /\ status[r] \in Final \/ disk[r] = Closed(r) => <<r, gen[r]>> \notin panes

(* A stop asked of a run settles its generation, so that a shutdown that   *)
(* waits for all runs (waitForSettled) ends.                               *)
StopsSettle == \A r \in Run : status[r] = "stopping" ~> status[r] \in Final

---------------------------------------------------------------------------
(* Why Durable holds, for any runs, messages and bounds *)

(* A run that executes is not stored as closed yet; one that is finalized  *)
(* is stored as its result, or its failure could not be.                   *)
StoredAs(r) ==
  /\ status[r] = "none" => disk[r] = [status |-> "none", gen |-> 0] /\ \A p \in panes : p[1] # r
  /\ status[r] = "closed" => disk[r] = Closed(r)
  /\ status[r] = "failed" => disk[r] = [status |-> "failed", gen |-> gen[r]] \/ r \in unstored
  /\ exec[r] = "waits" => disk[r] # Closed(r)
  /\ exec[r] = "stored" =>
       \/ disk[r] = [status |-> result[r], gen |-> gen[r]]
       \/ result[r] = "failed" /\ r \in unstored

(* A run executes while it is live, its pane is the last generation's, and *)
(* is gone once the wait for it is over.                                   *)
PaneAs(r) ==
  /\ exec[r] = "none" <=> status[r] \in {"none"} \cup Final
  /\ \A p \in panes : p[1] = r => p[2] <= gen[r] /\ (p[2] = gen[r] => exec[r] = "waits")

IInv == TypeOK /\ \A r \in Run : StoredAs(r) /\ PaneAs(r)

BoundsNatural == GenBound \in Nat /\ FailBound \in Nat

(* What is not of r is as it was. *)
LEMMA OthersKept ==
  ASSUME IInv, NEW r \in Run,
         \A q \in Run \ {r} : /\ status'[q] = status[q] /\ gen'[q] = gen[q] /\ exec'[q] = exec[q]
                              /\ result'[q] = result[q] /\ disk'[q] = disk[q]
                              /\ (q \in unstored' <=> q \in unstored),
         \A p \in panes' : p[1] # r => p \in panes
  PROVE  \A q \in Run \ {r} : StoredAs(q)' /\ PaneAs(q)'
<1> SUFFICES ASSUME NEW q \in Run \ {r} PROVE StoredAs(q)' /\ PaneAs(q)'
  OBVIOUS
<1>1. /\ status'[q] = status[q] /\ gen'[q] = gen[q] /\ exec'[q] = exec[q]
      /\ result'[q] = result[q] /\ disk'[q] = disk[q] /\ (q \in unstored' <=> q \in unstored)
      /\ StoredAs(q) /\ PaneAs(q)
  BY DEF IInv
<1>2. \A p \in panes' : p[1] = q => p \in panes
  OBVIOUS
<1>3. StoredAs(q)'
  BY <1>1, <1>2 DEF StoredAs, Closed
<1>4. PaneAs(q)'
  BY <1>1, <1>2 DEF PaneAs
<1> QED BY <1>3, <1>4

(* The records that may be stored are records. *)
LEMMA RecordIs ==
  ASSUME NEW s \in {"none"} \cup Live \cup Final, NEW g \in 0..GenBound
  PROVE  /\ [status |-> s, gen |-> g] \in Record
         /\ \A s2, g2 : [status |-> s, gen |-> g] = [status |-> s2, gen |-> g2] => s = s2 /\ g = g2
<1>1. [status |-> s, gen |-> g] \in Record
  BY DEF Record
<1>2. ASSUME NEW s2, NEW g2, [status |-> s, gen |-> g] = [status |-> s2, gen |-> g2]
      PROVE  s = s2 /\ g = g2
  <2>1. [status |-> s, gen |-> g].status = [status |-> s2, gen |-> g2].status
    BY <1>2
  <2>2. [status |-> s, gen |-> g].gen = [status |-> s2, gen |-> g2].gen
    BY <1>2
  <2> QED BY <2>1, <2>2
<1> QED BY <1>1, <1>2

(* A start, in its new generation: nothing stored is of it, no pane is.    *)
LEMMA StartIs ==
  ASSUME BoundsNatural, IInv, NEW r \in Run, NEW g \in 0..GenBound, StartManagedRun(r, g),
         disk[r] # [status |-> "closed", gen |-> g],
         \A p \in panes : p[1] = r => p[2] < g
  PROVE  /\ \A q \in Run : StoredAs(q)' /\ PaneAs(q)'
         /\ msg' \in [Message -> Sending] => TypeOK'
<1>1. TypeOK /\ g \in Nat
  BY DEF IInv, BoundsNatural
<1>2. /\ gen' = [gen EXCEPT ![r] = g] /\ stopped' = [stopped EXCEPT ![r] = FALSE]
      /\ endpoint' = endpoint \cup {r} /\ result' = result /\ rows' = rows
      /\ status' = [status EXCEPT ![r] = status'[r]] /\ status'[r] \in {"starting", "running"}
      /\ exec' = [exec EXCEPT ![r] = exec'[r]] /\ exec'[r] \in {"waits", "threw"}
      /\ panes' = panes \/ (panes' = panes \cup {<<r, g>>} /\ exec'[r] = "waits")
      /\ \/ disk' = disk
         \/ disk' = [disk EXCEPT ![r] = [status |-> "running", gen |-> g]]
         \/ disk' = [disk EXCEPT ![r] = [status |-> "starting", gen |-> g]]
      /\ unstored' = unstored \ {r} /\ fails' \in 0..FailBound
  BY <1>1 DEF StartManagedRun, Emitted, Stored, Works, Fails, TypeOK, BoundsNatural
<1>3. /\ [status |-> "running", gen |-> g] \in Record /\ [status |-> "starting", gen |-> g] \in Record
      /\ [status |-> "running", gen |-> g] # [status |-> "closed", gen |-> g]
      /\ [status |-> "starting", gen |-> g] # [status |-> "closed", gen |-> g]
  BY RecordIs DEF Live
<1>4. disk' \in [Run -> Record] /\ disk'[r] # [status |-> "closed", gen |-> g]
      /\ \A q \in Run \ {r} : disk'[q] = disk[q]
  BY <1>1, <1>2, <1>3 DEF TypeOK
<1>5. gen'[r] = g /\ \A q \in Run \ {r} : gen'[q] = gen[q] /\ status'[q] = status[q] /\ exec'[q] = exec[q]
  BY <1>1, <1>2 DEF TypeOK
<1>6. StoredAs(r)'
  BY <1>2, <1>4, <1>5 DEF StoredAs, Closed
<1>7. PaneAs(r)'
  <2>1. exec'[r] # "none" /\ status'[r] \notin {"none"} \cup Final
    BY <1>2 DEF Final
  <2>2. \A p \in panes' : p[1] = r => p[2] <= g /\ (p[2] = g => exec'[r] = "waits")
    <3> SUFFICES ASSUME NEW p \in panes', p[1] = r PROVE p[2] <= g /\ (p[2] = g => exec'[r] = "waits")
      OBVIOUS
    <3>1. CASE p \in panes
      <4>1. p[2] \in Nat /\ p[2] < g
        BY <1>1, <3>1 DEF TypeOK, Pane
      <4> QED BY <4>1, <1>1
    <3>2. CASE p = <<r, g>> /\ exec'[r] = "waits"
      BY <3>2, <1>1
    <3> QED BY <3>1, <3>2, <1>2
  <2> QED BY <2>1, <2>2, <1>5 DEF PaneAs
<1>8. \A q \in Run \ {r} : StoredAs(q)' /\ PaneAs(q)'
  BY <1>2, <1>4, <1>5, OthersKept
<1>9. ASSUME msg' \in [Message -> Sending] PROVE TypeOK'
  <2>1. <<r, g>> \in Pane
    BY DEF Pane
  <2>2. {"starting", "running"} \subseteq {"none"} \cup Live \cup Final
    BY DEF Live
  <2>3. /\ gen' \in [Run -> 0..GenBound] /\ stopped' \in [Run -> BOOLEAN]
        /\ status' \in [Run -> {"none"} \cup Live \cup Final]
        /\ exec' \in [Run -> Executing]
    BY <1>1, <1>2, <2>2 DEF TypeOK, Executing
  <2>4. unstored' \subseteq Run
    BY <1>1, <1>2 DEF TypeOK
  <2> QED BY <1>1, <1>2, <1>4, <1>9, <2>1, <2>3, <2>4 DEF TypeOK
<1> QED BY <1>6, <1>7, <1>8, <1>9

(* A run that is new, and one that is closed, may start. *)
LEMMA MayStart ==
  ASSUME BoundsNatural, IInv, NEW r \in Run
  PROVE  /\ status[r] = "none" => /\ 0 \in 0..GenBound /\ disk[r] # [status |-> "closed", gen |-> 0]
                                  /\ \A p \in panes : p[1] = r => p[2] < 0
         /\ Resumable(r) => /\ gen[r] + 1 \in 0..GenBound
                            /\ disk[r] # [status |-> "closed", gen |-> gen[r] + 1]
                            /\ \A p \in panes : p[1] = r => p[2] < gen[r] + 1
<1>1. TypeOK /\ StoredAs(r) /\ PaneAs(r) /\ gen[r] \in 0..GenBound /\ GenBound \in Nat
  BY DEF IInv, TypeOK, BoundsNatural
<1>2. ASSUME status[r] = "none"
      PROVE  /\ 0 \in 0..GenBound /\ disk[r] # [status |-> "closed", gen |-> 0]
             /\ \A p \in panes : p[1] = r => p[2] < 0
  <2>1. 0 \in 0..GenBound
    BY <1>1
  <2>2. [status |-> "none", gen |-> 0] # [status |-> "closed", gen |-> 0]
    BY <2>1, RecordIs
  <2> QED BY <1>1, <1>2, <2>1, <2>2 DEF StoredAs
<1>3. ASSUME Resumable(r)
      PROVE  /\ gen[r] + 1 \in 0..GenBound
             /\ disk[r] # [status |-> "closed", gen |-> gen[r] + 1]
             /\ \A p \in panes : p[1] = r => p[2] < gen[r] + 1
  <2>1. status[r] = "closed" /\ gen[r] < GenBound
    BY <1>3 DEF Resumable
  <2>2. disk[r] = [status |-> "closed", gen |-> gen[r]]
    BY <1>1, <2>1 DEF StoredAs, Closed
  <2>3. gen[r] # gen[r] + 1
    BY <1>1
  <2>4. [status |-> "closed", gen |-> gen[r]] # [status |-> "closed", gen |-> gen[r] + 1]
    BY <2>3, <1>1, RecordIs DEF Final
  <2>5. \A p \in panes : p[1] = r => p[2] < gen[r] + 1
    <3> SUFFICES ASSUME NEW p \in panes, p[1] = r PROVE p[2] < gen[r] + 1
      OBVIOUS
    <3>1. p[2] \in Nat /\ p[2] <= gen[r]
      BY <1>1 DEF TypeOK, Pane, PaneAs
    <3> QED BY <3>1, <1>1
  <2> QED BY <1>1, <2>1, <2>2, <2>4, <2>5
<1> QED BY <1>2, <1>3

(* A run is admitted, opened again, or resumed by a message. *)
LEMMA StartsKeep ==
  ASSUME BoundsNatural, IInv, NEW r \in Run, Admit(r) \/ Resume(r)
  PROVE  IInv'
<1>1. msg' = msg /\ msg \in [Message -> Sending]
  BY DEF Admit, Resume, IInv, TypeOK
<1>2. CASE Admit(r)
  <2>1. status[r] = "none" /\ StartManagedRun(r, 0)
    BY <1>2 DEF Admit
  <2> QED BY <2>1, <1>1, MayStart, StartIs DEF IInv
<1>3. CASE Resume(r)
  <2>1. Resumable(r) /\ StartManagedRun(r, gen[r] + 1)
    BY <1>3 DEF Resume
  <2> DEFINE g == gen[r] + 1
  <2>2. /\ g \in 0..GenBound /\ disk[r] # [status |-> "closed", gen |-> g]
        /\ \A p \in panes : p[1] = r => p[2] < g
    BY <2>1, MayStart
  <2>3. StartManagedRun(r, g)
    BY <2>1
  <2> HIDE DEF g
  <2> QED BY <2>2, <2>3, <1>1, StartIs DEF IInv
<1> QED BY <1>2, <1>3

(* What leaves the runs and the panes alone leaves IInv to its types. *)
LEMMA RunsKept ==
  ASSUME IInv, UNCHANGED runVars, panes' \subseteq panes,
         rows' \subseteq Pane, endpoint' \subseteq Run, msg' \in [Message -> Sending], fails' = fails
  PROVE  IInv'
<1>1. /\ status' = status /\ gen' = gen /\ stopped' = stopped /\ exec' = exec
      /\ result' = result /\ disk' = disk /\ unstored' = unstored
  BY DEF runVars
<1>2. TypeOK'
  BY <1>1 DEF IInv, TypeOK
<1>3. \A r \in Run : StoredAs(r)' /\ PaneAs(r)'
  BY <1>1 DEF IInv, StoredAs, PaneAs, Closed
<1> QED BY <1>2, <1>3 DEF IInv

(* A pane is listed, dropped or ends. *)
LEMMA PanesKeep ==
  ASSUME IInv, NEW p \in Pane, Registers(p) \/ Unlisted(p) \/ PaneEnds(p)
  PROVE  IInv'
<1>1. /\ rows \subseteq Pane /\ endpoint \subseteq Run /\ msg \in [Message -> Sending]
  BY DEF IInv, TypeOK
<1>2. /\ UNCHANGED runVars /\ panes' \subseteq panes /\ rows' \subseteq Pane
      /\ endpoint' = endpoint /\ msg' = msg /\ fails' = fails
  BY <1>1 DEF Registers, Unlisted, PaneEnds, msgVars
<1> QED BY <1>1, <1>2, RunsKept

(* A message's step is one. *)
LEMMA AnsweredTyped ==
  ASSUME msg \in [Message -> Sending], NEW m \in Message,
         NEW step \in {"new", "sending", "accepted", "refused"}, Answered(m, step)
  PROVE  msg' \in [Message -> Sending]
<1>1. msg[m] \in Sending
  OBVIOUS
<1>2. [msg[m] EXCEPT !.step = step] \in Sending
  BY <1>1 DEF Sending
<1> QED BY <1>2 DEF Answered

(* A message sent is answered, or given up. *)
LEMMA AnswersKeep ==
  ASSUME IInv, NEW m \in Message, Delivered(m) \/ GivesUp(m)
  PROVE  IInv'
<1>1. /\ rows \subseteq Pane /\ endpoint \subseteq Run /\ msg \in [Message -> Sending]
  BY DEF IInv, TypeOK
<1>2. msg' \in [Message -> Sending]
  BY <1>1, AnsweredTyped DEF Delivered, GivesUp
<1>3. /\ UNCHANGED runVars /\ panes' = panes /\ rows' = rows /\ endpoint' = endpoint /\ fails' = fails
  BY DEF Delivered, GivesUp, paneVars
<1> QED BY <1>1, <1>2, <1>3, RunsKept

(* A message to a run resumes it, is refused, or is on its way. *)
LEMMA SendKeeps ==
  ASSUME BoundsNatural, IInv, NEW m \in Message, NEW r \in Run, Send(m, r)
  PROVE  IInv'
<1>1. /\ rows \subseteq Pane /\ endpoint \subseteq Run /\ msg \in [Message -> Sending]
      /\ gen[r] \in 0..GenBound
  BY DEF IInv, TypeOK
<1>2. ASSUME NEW step \in {"new", "sending", "accepted", "refused"}, NEW g \in 0..GenBound,
             msg' = [msg EXCEPT ![m] = [step |-> step, to |-> r, gen |-> g]]
      PROVE  msg' \in [Message -> Sending]
  <2>1. [step |-> step, to |-> r, gen |-> g] \in Sending
    BY DEF Sending
  <2> QED BY <1>1, <1>2, <2>1
<1>3. CASE /\ Resumable(r) /\ StartManagedRun(r, gen[r] + 1)
           /\ msg' = [msg EXCEPT ![m] = [step |-> "accepted", to |-> r, gen |-> gen[r] + 1]]
  <2>1. gen[r] + 1 \in 0..GenBound
    BY <1>3, MayStart
  <2>2. msg' \in [Message -> Sending]
    BY <1>2, <1>3, <2>1
  <2> DEFINE g == gen[r] + 1
  <2>3. /\ g \in 0..GenBound /\ disk[r] # [status |-> "closed", gen |-> g]
        /\ \A p \in panes : p[1] = r => p[2] < g
    BY <1>3, MayStart
  <2>4. StartManagedRun(r, g)
    BY <1>3
  <2> HIDE DEF g
  <2> QED BY <2>2, <2>3, <2>4, StartIs DEF IInv
<1>4. CASE /\ UNCHANGED <<runVars, paneVars, endpoint, fails>>
           /\ \E step \in {"sending", "refused"} :
                msg' = [msg EXCEPT ![m] = [step |-> step, to |-> r, gen |-> gen[r]]]
  <2>1. msg' \in [Message -> Sending]
    BY <1>1, <1>2, <1>4
  <2>2. UNCHANGED runVars /\ panes' = panes /\ rows' = rows /\ endpoint' = endpoint /\ fails' = fails
    BY <1>4 DEF paneVars
  <2> QED BY <1>1, <2>1, <2>2, RunsKept
<1> QED BY <1>3, <1>4 DEF Send, Route

(* A pi's report stores the record again, as it is. *)
LEMMA ReportsKeep ==
  ASSUME BoundsNatural, IInv, NEW r \in Run, Reports(r)
  PROVE  IInv'
<1>1. /\ TypeOK /\ StoredAs(r) /\ PaneAs(r) /\ gen[r] \in 0..GenBound
      /\ status[r] \in {"none"} \cup Live \cup Final
  BY DEF IInv, TypeOK
<1>2. /\ exec[r] = "waits" /\ status' = status /\ gen' = gen /\ stopped' = stopped /\ exec' = exec
      /\ result' = result /\ unstored' = unstored /\ panes' = panes /\ rows' = rows
      /\ endpoint' = endpoint /\ msg' = msg
      /\ disk' = disk \/ disk' = [disk EXCEPT ![r] = [status |-> status[r], gen |-> gen[r]]]
      /\ fails' \in 0..FailBound
  BY <1>1 DEF Reports, Emitted, Stored, Works, Fails, paneVars, msgVars, TypeOK, BoundsNatural
<1>3. status[r] \notin {"none"} \cup Final
  BY <1>1, <1>2 DEF PaneAs
<1>4. [status |-> status[r], gen |-> gen[r]] \in Record /\ [status |-> status[r], gen |-> gen[r]] # Closed(r)
  BY <1>1, <1>3, RecordIs DEF Closed, Final
<1>5. disk' \in [Run -> Record] /\ disk'[r] # Closed(r) /\ \A q \in Run \ {r} : disk'[q] = disk[q]
  BY <1>1, <1>2, <1>4 DEF TypeOK, StoredAs
<1>6. StoredAs(r)'
  BY <1>2, <1>3, <1>5 DEF StoredAs, Closed, Final
<1>7. PaneAs(r)'
  BY <1>1, <1>2 DEF PaneAs
<1>8. \A q \in Run \ {r} : StoredAs(q)' /\ PaneAs(q)'
  BY <1>2, <1>5, OthersKept
<1>9. TypeOK'
  BY <1>1, <1>2, <1>5 DEF TypeOK
<1> QED BY <1>6, <1>7, <1>8, <1>9 DEF IInv

(* The record is noted as stopping before the signal goes. *)
LEMMA StopKeeps ==
  ASSUME BoundsNatural, IInv, NEW r \in Run, Stop(r)
  PROVE  IInv'
<1>1. /\ TypeOK /\ StoredAs(r) /\ PaneAs(r) /\ gen[r] \in 0..GenBound
  BY DEF IInv, TypeOK
<1>2. /\ status[r] \in Live /\ exec[r] \in {"waits", "threw", "over"}
      /\ stopped' = [stopped EXCEPT ![r] = TRUE] /\ status' = [status EXCEPT ![r] = "stopping"]
      /\ gen' = gen /\ exec' = exec /\ result' = result /\ unstored' = unstored
      /\ panes' = panes /\ rows' = rows /\ endpoint' = endpoint /\ msg' = msg
      /\ disk' = disk \/ disk' = [disk EXCEPT ![r] = [status |-> "stopping", gen |-> gen[r]]]
      /\ fails' \in 0..FailBound
  BY <1>1 DEF Stop, Emitted, Stored, Works, Fails, paneVars, msgVars, TypeOK, BoundsNatural
<1>3. "stopping" \notin {"none"} \cup Final /\ "stopping" \in {"none"} \cup Live \cup Final
  BY DEF Live, Final
<1>4. [status |-> "stopping", gen |-> gen[r]] \in Record /\ [status |-> "stopping", gen |-> gen[r]] # Closed(r)
  BY <1>1, <1>3, RecordIs DEF Closed
<1>5. /\ disk' \in [Run -> Record] /\ \A q \in Run \ {r} : disk'[q] = disk[q]
      /\ exec[r] = "waits" => disk'[r] # Closed(r)
  BY <1>1, <1>2, <1>4 DEF TypeOK, StoredAs
<1>6. status'[r] = "stopping" /\ status' \in [Run -> {"none"} \cup Live \cup Final]
      /\ \A q \in Run \ {r} : status'[q] = status[q]
  BY <1>1, <1>2, <1>3 DEF TypeOK
<1>7. StoredAs(r)'
  BY <1>2, <1>5, <1>6 DEF StoredAs, Closed
<1>8. PaneAs(r)'
  BY <1>1, <1>2, <1>3, <1>6 DEF PaneAs
<1>9. \A q \in Run \ {r} : StoredAs(q)' /\ PaneAs(q)'
  BY <1>2, <1>5, <1>6, OthersKept
<1>10. TypeOK'
  <2>1. stopped' \in [Run -> BOOLEAN]
    BY <1>1, <1>2 DEF TypeOK
  <2> QED BY <1>1, <1>2, <1>5, <1>6, <2>1 DEF TypeOK
<1> QED BY <1>7, <1>8, <1>9, <1>10 DEF IInv

(* A generation's wait ends, and its pane is gone. *)
LEMMA ExecuteEndsKeeps ==
  ASSUME IInv, NEW r \in Run, ExecuteEnds(r)
  PROVE  IInv'
<1>1. TypeOK /\ StoredAs(r) /\ PaneAs(r)
  BY DEF IInv
<1>2. /\ exec[r] = "waits" /\ exec' = [exec EXCEPT ![r] = "over"]
      /\ panes' = panes \ {<<r, gen[r]>>}
      /\ endpoint' = endpoint \ {r} /\ status' = status /\ gen' = gen /\ stopped' = stopped
      /\ result' = result /\ disk' = disk /\ unstored' = unstored /\ rows' = rows /\ msg' = msg
      /\ fails' = fails
  BY DEF ExecuteEnds
<1>3. exec'[r] = "over" /\ exec' \in [Run -> Executing] /\ \A q \in Run \ {r} : exec'[q] = exec[q]
  BY <1>1, <1>2 DEF TypeOK, Executing
<1>4. status[r] \notin {"none"} \cup Final
  BY <1>1, <1>2 DEF PaneAs
<1>5. StoredAs(r)'
  BY <1>2, <1>3, <1>4 DEF StoredAs, Final
<1>6. PaneAs(r)'
  <2>1. \A p \in panes' : p[1] = r => p[2] <= gen[r] /\ p[2] # gen[r]
    <3> SUFFICES ASSUME NEW p \in panes', p[1] = r PROVE p[2] <= gen[r] /\ p[2] # gen[r]
      OBVIOUS
    <3>1. p \in panes /\ p[2] <= gen[r] /\ p = <<r, p[2]>>
      BY <1>1, <1>2 DEF PaneAs, TypeOK, Pane
    <3> QED BY <3>1, <1>2
  <2> QED BY <2>1, <1>2, <1>3, <1>4 DEF PaneAs
<1>7. \A q \in Run \ {r} : StoredAs(q)' /\ PaneAs(q)'
  BY <1>2, <1>3, OthersKept
<1>8. TypeOK'
  BY <1>1, <1>2, <1>3 DEF TypeOK
<1> QED BY <1>5, <1>6, <1>7, <1>8 DEF IInv

(* While it is finalized, a run's record is only what it is finalized as.  *)
LEMMA FinalizingStored ==
  ASSUME NEW r \in Run, status'[r] \notin {"none", "closed", "failed"}, exec'[r] # "waits",
         exec'[r] = "stored" => \/ disk'[r] = [status |-> result'[r], gen |-> gen'[r]]
                                \/ result'[r] = "failed" /\ r \in unstored'
  PROVE  StoredAs(r)'
  BY DEF StoredAs

(* A run whose wait is over has no pane, and neither has one being         *)
(* finalized: what is stored of it then is as it is finalized.             *)
LEMMA FinalizingIs ==
  ASSUME IInv, NEW r \in Run, NEW s \in Final, NEW e \in {"again", "stored"},
         exec[r] \in {"threw", "over", "again"}, exec' = [exec EXCEPT ![r] = e],
         result' = [result EXCEPT ![r] = s],
         disk' = disk \/ disk' = [disk EXCEPT ![r] = [status |-> s, gen |-> gen[r]]],
         unstored' = unstored \/ unstored' = unstored \cup {r},
         \/ e = "again" \/ disk' = [disk EXCEPT ![r] = [status |-> s, gen |-> gen[r]]]
         \/ s = "failed" /\ r \in unstored',
         status' = status, gen' = gen, stopped' = stopped, panes' = panes, rows' = rows,
         endpoint' \subseteq endpoint, msg' = msg, fails' \in 0..FailBound
  PROVE  IInv'
<1>1. /\ TypeOK /\ StoredAs(r) /\ PaneAs(r) /\ gen[r] \in 0..GenBound
  BY DEF IInv, TypeOK
<1>2. exec'[r] = e /\ exec' \in [Run -> Executing] /\ \A q \in Run \ {r} : exec'[q] = exec[q]
  BY <1>1 DEF TypeOK, Executing
<1>3. result'[r] = s /\ result' \in [Run -> Final] /\ \A q \in Run \ {r} : result'[q] = result[q]
  BY <1>1 DEF TypeOK
<1>4. [status |-> s, gen |-> gen[r]] \in Record
  BY <1>1, RecordIs
<1>5. disk' \in [Run -> Record] /\ \A q \in Run \ {r} : disk'[q] = disk[q]
  BY <1>1, <1>4 DEF TypeOK
<1>6. disk' = [disk EXCEPT ![r] = [status |-> s, gen |-> gen[r]]] => disk'[r] = [status |-> s, gen |-> gen[r]]
  BY <1>1 DEF TypeOK
<1>7. status[r] \notin {"none"} \cup Final
  BY <1>1 DEF PaneAs
<1>8. StoredAs(r)'
  <2>1. status'[r] \notin {"none", "closed", "failed"} /\ exec'[r] # "waits"
    BY <1>2, <1>7 DEF Final
  <2>2. e = "stored" => \/ disk'[r] = [status |-> result'[r], gen |-> gen'[r]]
                        \/ result'[r] = "failed" /\ r \in unstored'
    BY <1>3, <1>6
  <2>3. exec'[r] = "stored" => e = "stored"
    BY <1>2
  <2> QED BY <2>1, <2>2, <2>3, FinalizingStored
<1>9. PaneAs(r)'
  <2>1. \A p \in panes : p[1] = r => p[2] <= gen[r] /\ p[2] # gen[r]
    BY <1>1 DEF PaneAs
  <2> QED BY <2>1, <1>2, <1>7 DEF PaneAs
<1>10. \A q \in Run \ {r} : StoredAs(q)' /\ PaneAs(q)'
  BY <1>2, <1>3, <1>5, OthersKept
<1>11. TypeOK'
  <2>1. endpoint' \subseteq Run /\ unstored' \subseteq Run
    BY <1>1 DEF TypeOK
  <2> QED BY <1>1, <1>2, <1>3, <1>5, <2>1 DEF TypeOK
<1> QED BY <1>8, <1>9, <1>10, <1>11 DEF IInv

(* The run is stored as what it is finalized as; not stored, or not        *)
(* referenced, it is tried once more as failed.                            *)
LEMMA FinalizesKeep ==
  ASSUME BoundsNatural, IInv, NEW r \in Run, Finalize(r) \/ ExecuteThrew(r)
  PROVE  IInv'
<1>1. fails \in 0..FailBound
  BY DEF IInv, TypeOK
<1>2. PICK s \in Final : FinalizeManagedRun(r, s)
  BY DEF Finalize, ExecuteThrew, Final
<1>3. /\ exec[r] \in {"threw", "over", "again"} /\ result' = [result EXCEPT ![r] = s]
      /\ unstored' = unstored /\ status' = status /\ gen' = gen /\ stopped' = stopped
      /\ panes' = panes /\ rows' = rows /\ endpoint' \subseteq endpoint /\ msg' = msg
  BY <1>2 DEF Finalize, ExecuteThrew, FinalizeManagedRun, paneVars, msgVars
<1>4. fails' \in 0..FailBound
  BY <1>1, <1>2 DEF FinalizeManagedRun, OnFinalize, Works, Fails, BoundsNatural
<1>5. CASE disk' = [disk EXCEPT ![r] = [status |-> s, gen |-> gen[r]]] /\ exec' = [exec EXCEPT ![r] = "stored"]
  BY <1>3, <1>4, <1>5, FinalizingIs
<1>6. CASE /\ disk' = disk \/ disk' = [disk EXCEPT ![r] = [status |-> s, gen |-> gen[r]]]
           /\ exec' = [exec EXCEPT ![r] = "again"]
  BY <1>3, <1>4, <1>6, FinalizingIs
<1> QED BY <1>2, <1>5, <1>6 DEF FinalizeManagedRun, OnFinalize, Stored

(* Its failure is stored, or noted as not stored. *)
LEMMA FinalizesAgainKeep ==
  ASSUME BoundsNatural, IInv, NEW r \in Run, FinalizeAgain(r)
  PROVE  IInv'
<1>1. fails \in 0..FailBound /\ "failed" \in Final
  BY DEF IInv, TypeOK, Final
<1>2. /\ exec[r] \in {"threw", "over", "again"} /\ result' = [result EXCEPT ![r] = "failed"]
      /\ exec' = [exec EXCEPT ![r] = "stored"]
      /\ status' = status /\ gen' = gen /\ stopped' = stopped
      /\ panes' = panes /\ rows' = rows /\ endpoint' \subseteq endpoint /\ msg' = msg
  BY DEF FinalizeAgain, paneVars, msgVars
<1>3. fails' \in 0..FailBound
  BY <1>1 DEF FinalizeAgain, Works, Fails, BoundsNatural
<1>4. CASE disk' = [disk EXCEPT ![r] = [status |-> "failed", gen |-> gen[r]]] /\ unstored' = unstored
  BY <1>1, <1>2, <1>3, <1>4, FinalizingIs
<1>5. CASE disk' = disk /\ unstored' = unstored \cup {r}
  BY <1>1, <1>2, <1>3, <1>5, FinalizingIs
<1> QED BY <1>4, <1>5 DEF FinalizeAgain, Stored

(* What is stored becomes what the orchestrator is told. *)
LEMMA SettleKeeps ==
  ASSUME IInv, NEW r \in Run, Settle(r)
  PROVE  IInv'
<1>1. /\ TypeOK /\ StoredAs(r) /\ PaneAs(r) /\ result[r] \in Final
  BY DEF IInv, TypeOK
<1>2. /\ exec[r] = "stored" /\ status' = [status EXCEPT ![r] = result[r]] /\ exec' = [exec EXCEPT ![r] = "none"]
      /\ gen' = gen /\ stopped' = stopped /\ result' = result /\ disk' = disk /\ unstored' = unstored
      /\ panes' = panes /\ rows' = rows /\ endpoint' = endpoint /\ msg' = msg /\ fails' = fails
  BY DEF Settle, paneVars, msgVars
<1>3. /\ status'[r] = result[r] /\ exec'[r] = "none"
      /\ status' \in [Run -> {"none"} \cup Live \cup Final] /\ exec' \in [Run -> Executing]
      /\ \A q \in Run \ {r} : exec'[q] = exec[q] /\ status'[q] = status[q]
  BY <1>1, <1>2 DEF TypeOK, Executing
<1>4. StoredAs(r)'
  BY <1>1, <1>2, <1>3 DEF StoredAs, Closed, Final
<1>5. PaneAs(r)'
  BY <1>1, <1>2, <1>3 DEF PaneAs
<1>6. \A q \in Run \ {r} : StoredAs(q)' /\ PaneAs(q)'
  BY <1>2, <1>3, OthersKept
<1>7. TypeOK'
  BY <1>1, <1>2, <1>3 DEF TypeOK
<1> QED BY <1>4, <1>5, <1>6, <1>7 DEF IInv

(* The scheduler starts with nothing. *)
LEMMA InitIs == BoundsNatural /\ Init => IInv
<1> SUFFICES ASSUME BoundsNatural, Init PROVE IInv
  OBVIOUS
<1>1. 0 \in 0..GenBound /\ 0 \in 0..FailBound
  BY DEF BoundsNatural
<1>2. [status |-> "none", gen |-> 0] \in Record
  BY <1>1, RecordIs
<1>3. [step |-> "new", to |-> None, gen |-> 0] \in Sending
  BY <1>1 DEF Sending
<1>4. TypeOK
  BY <1>1, <1>2, <1>3 DEF Init, TypeOK, Final, Executing
<1>5. \A r \in Run : StoredAs(r) /\ PaneAs(r)
  BY DEF Init, StoredAs, PaneAs, Final
<1> QED BY <1>4, <1>5 DEF IInv

(* Whatever happens, it stays so. *)
LEMMA NextIs == BoundsNatural /\ IInv /\ [Next]_vars => IInv'
<1> SUFFICES ASSUME BoundsNatural, IInv, [Next]_vars PROVE IInv'
  OBVIOUS
<1>1. ASSUME NEW r \in Run,
             \/ Admit(r) \/ Resume(r) \/ Reports(r) \/ Stop(r) \/ ExecuteEnds(r) \/ ExecuteThrew(r)
             \/ Finalize(r) \/ FinalizeAgain(r) \/ Settle(r)
      PROVE  IInv'
  BY <1>1, StartsKeep, ReportsKeep, StopKeeps, ExecuteEndsKeeps, FinalizesKeep, FinalizesAgainKeep, SettleKeeps
<1>2. ASSUME NEW r \in Run, NEW m \in Message, Send(m, r)
      PROVE  IInv'
  BY <1>2, SendKeeps
<1>3. ASSUME NEW p \in Pane, Registers(p) \/ Unlisted(p) \/ PaneEnds(p)
      PROVE  IInv'
  BY <1>3, PanesKeep
<1>4. ASSUME NEW m \in Message, Delivered(m) \/ GivesUp(m)
      PROVE  IInv'
  BY <1>4, AnswersKeep
<1>5. CASE UNCHANGED vars
  <2>1. /\ UNCHANGED runVars /\ panes' = panes /\ rows' = rows /\ endpoint' = endpoint
        /\ msg' = msg /\ fails' = fails
    BY <1>5 DEF vars, paneVars, msgVars
  <2> QED BY <2>1, RunsKept DEF IInv, TypeOK
<1> QED BY <1>1, <1>2, <1>3, <1>4, <1>5 DEF Next

LEMMA DurableIs == IInv => Durable
<1> SUFFICES ASSUME IInv, NEW r \in Run
             PROVE  /\ status[r] = "closed" => disk[r] = Closed(r)
                    /\ status[r] = "failed" /\ r \notin unstored => disk[r] = [status |-> "failed", gen |-> gen[r]]
                    /\ status[r] \in Final \/ disk[r] = Closed(r) => <<r, gen[r]>> \notin panes
  BY DEF Durable
<1>1. StoredAs(r) /\ PaneAs(r)
  BY DEF IInv
<1>2. ASSUME <<r, gen[r]>> \in panes PROVE status[r] \notin Final /\ disk[r] # Closed(r)
  BY <1>1, <1>2 DEF PaneAs, StoredAs
<1> QED BY <1>1, <1>2 DEF StoredAs

(* Whatever writes and starts fail, and however a run's close, its end,    *)
(* reports, messages and resumes overlap: a run told closed or failed is   *)
(* stored as that, but for a failure that could not be stored, and one     *)
(* told final or stored as closed has no pane (runs.ts,                    *)
(* finalizeManagedRun).                                                    *)
THEOREM AlwaysDurable == BoundsNatural => (Spec => [](TypeOK /\ Durable))
<1> SUFFICES ASSUME BoundsNatural PROVE Spec => [](TypeOK /\ Durable)
  OBVIOUS
<1>1. Init => IInv
  BY InitIs
<1>2. IInv /\ [Next]_vars => IInv'
  BY NextIs
<1>3. IInv => TypeOK /\ Durable
  BY DurableIs DEF IInv
<1> QED BY <1>1, <1>2, <1>3, PTL DEF Spec
====
