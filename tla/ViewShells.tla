---- MODULE ViewShells ----
(***************************************************************************)
(* The `!` commands of agent view (daemon/tmux.ts, ext/agent-view): each   *)
(* one runs in a tmux session of its own, whose wrapper puts the exit on   *)
(* the session and stays; the view lists them, peeks at their output, and  *)
(* stops and deletes them.                                                 *)
(*                                                                         *)
(* One view, open throughout.  Its calls of tmux for a key run without     *)
(* giving way to its other work, but the command's processes go on between *)
(* their steps, and any of them may fail: where nothing changes by it, no  *)
(* step stands for it.  The user's shell forks one child, and that one     *)
(* another.                                                                *)
(***************************************************************************)
EXTENDS Naturals, Sequences, SequencesExt

CONSTANTS
  Command,
  Proc,        \* the processes followed: {"shell", "child", "grand"}, or none of them
  None,
  LoadBound    \* bound: reads of a peek's output under way

VARIABLES
  session,   \* each command's tmux session: "none", "up" or "gone"
  exit,      \* its exit, once the wrapper has put it there: "none", "zero" or "other"
  flagged,   \* the sessions marked as stopped
  born,      \* each command's processes so far
  alive,     \* those still running
  killed,    \* history: those a stop killed
  stop,      \* the stop under way: its step, its command, the processes left to kill
  missed,    \* history: for each command stopped, those of its tree that run on after it
  shells,    \* the view's rows
  asked,     \* a refresh under way: "no", "asked" (of the daemon), "listing", or "listed"
  list,      \* the list it took
  peeked,    \* the command the view peeks at
  loads,     \* the reads of its output under way: of which command, and a refresh's own or not
  output,    \* the output the view has, by its command
  read       \* history: the peeked command's output has been read since it was peeked at

tmuxVars == <<session, exit, flagged>>
procVars == <<born, alive, killed>>
stopVars == <<stop, missed>>
listVars == <<shells, asked, list>>
peekVars == <<peeked, loads, output, read>>
vars == <<tmuxVars, procVars, stopVars, listVars, peekVars>>

Idle == [step |-> "no", of |-> None, left |-> <<>>]
Row == {"none", "working", "done", "failed", "stopped"}

Init ==
  /\ session = [c \in Command |-> "none"] /\ exit = [c \in Command |-> "none"]
  /\ flagged = {}
  /\ born = [c \in Command |-> {}] /\ alive = [c \in Command |-> {}] /\ killed = [c \in Command |-> {}]
  /\ stop = Idle /\ missed = [c \in Command |-> {}]
  /\ shells = [c \in Command |-> "none"] /\ asked = "no" /\ list = shells
  /\ peeked = None /\ loads = <<>> /\ output = None /\ read = FALSE

---------------------------------------------------------------------------
(* The command and its processes *)

Fork(c, p, q) ==
  /\ p \in alive[c] /\ <<p, q>> \in {<<"shell", "child">>, <<"child", "grand">>}
  /\ q \in Proc \ born[c]
  /\ born' = [born EXCEPT ![c] = @ \cup {q}]
  /\ alive' = [alive EXCEPT ![c] = @ \cup {q}]
  /\ UNCHANGED <<tmuxVars, killed, stopVars, listVars, peekVars>>

Exits(c, p) ==
  /\ p \in alive[c]
  /\ alive' = [alive EXCEPT ![c] = @ \ {p}]
  /\ UNCHANGED <<tmuxVars, born, killed, stopVars, listVars, peekVars>>

(* The wrapper: its shell has ended.                                      *)
Recorded(c) ==
  /\ session[c] = "up" /\ exit[c] = "none" /\ "shell" \in born[c] \ alive[c]
  /\ \E e \in IF "shell" \in killed[c] THEN {"other"} ELSE {"zero", "other"} :
       exit' = [exit EXCEPT ![c] = e]
  /\ UNCHANGED <<session, flagged, procVars, stopVars, listVars, peekVars>>

---------------------------------------------------------------------------
(* The view's refreshes *)

(* rowFromShell *)
RowOf(c) ==
  CASE session[c] # "up" -> "none"
    [] c \in flagged /\ exit[c] # "none" -> "stopped"
    [] exit[c] = "none" -> "working"
    [] exit[c] = "zero" -> "done"
    [] OTHER -> "failed"

Free == stop.step = "no"

(* A `!` in the composer.  Its session is made first: if tmux fails after  *)
(* that, the command runs on, and its row lacks its text.                  *)
StartShell(c) ==
  /\ Free /\ session[c] = "none"
  /\ session' = [session EXCEPT ![c] = "up"]
  /\ born' = [born EXCEPT ![c] = {"shell"} \cap Proc]
  /\ alive' = [alive EXCEPT ![c] = {"shell"} \cap Proc]
  /\ UNCHANGED <<exit, flagged, killed, stopVars, listVars, peekVars>>

(* By the poll, or after a key; one asked for during another runs after it.*)
Refresh ==
  /\ Free /\ asked = "no" /\ asked' = "asked"
  /\ UNCHANGED <<tmuxVars, procVars, stopVars, shells, list, peekVars>>

Read(c, own) == [of |-> c, own |-> own]

(* The daemon has answered, or not: the sessions are asked for, and the    *)
(* output of the peeked one, at once.                                      *)
Load ==
  /\ Free /\ asked = "asked" /\ asked' = "listing"
  /\ IF peeked = None THEN UNCHANGED loads
     ELSE Len(loads) < LoadBound /\ loads' = Append(loads, Read(peeked, TRUE))
  /\ UNCHANGED <<tmuxVars, procVars, stopVars, shells, list, peeked, output, read>>

(* tmux lists its sessions, or fails: no rows then.                       *)
ListShells ==
  /\ asked = "listing" /\ asked' = "listed"
  /\ \/ list' = [c \in Command |-> RowOf(c)]
     \/ list' = [c \in Command |-> "none"]
  /\ UNCHANGED <<tmuxVars, procVars, stopVars, shells, peekVars>>

(* The list is taken once the refresh's read of the output has ended too;  *)
(* a peek at a row no longer there closes.                                 *)
Landed ==
  /\ Free /\ asked = "listed" /\ asked' = "no"
  /\ \A i \in DOMAIN loads : ~loads[i].own
  /\ shells' = list
  /\ IF peeked # None /\ list[peeked] = "none"
     THEN peeked' = None /\ read' = FALSE
     ELSE UNCHANGED <<peeked, read>>
  /\ UNCHANGED <<tmuxVars, procVars, stopVars, list, loads, output>>

---------------------------------------------------------------------------
(* The peek *)

(* A peek opened, or moved to another command: its output is read.        *)
RefreshPeek(c) ==
  /\ Free /\ shells[c] # "none" /\ peeked # c
  /\ Len(loads) < LoadBound
  /\ peeked' = c /\ read' = FALSE /\ loads' = Append(loads, Read(c, FALSE))
  /\ UNCHANGED <<tmuxVars, procVars, stopVars, listVars, output>>

(* Closed, or moved to a session's row.                                    *)
Unpeeks ==
  /\ Free /\ peeked # None /\ peeked' = None /\ read' = FALSE
  /\ UNCHANGED <<tmuxVars, procVars, stopVars, listVars, loads, output>>

(* The peek may have moved on meanwhile.                                  *)
StillPeeked(c) == peeked = c

(* One of the reads under way ends, in any order.                         *)
Loaded(i) ==
  /\ Free /\ i \in DOMAIN loads
  /\ loads' = RemoveAt(loads, i)
  /\ output' = IF StillPeeked(loads[i].of) THEN loads[i].of ELSE output
  /\ read' = (read \/ peeked = loads[i].of)
  /\ UNCHANGED <<tmuxVars, procVars, stopVars, listVars, peeked>>

---------------------------------------------------------------------------
(* ctrl+x *)

(* The first press, or /stop in the peek, on a row not known to have       *)
(* ended: the session is marked first.  One that is gone is left.          *)
StopShell(c) ==
  /\ Free /\ shells[c] = "working" /\ session[c] = "up" /\ peeked \in {None, c}
  /\ flagged' = flagged \cup {c}
  /\ stop' = [step |-> "snapshot", of |-> c, left |-> <<>>]
  /\ UNCHANGED <<session, exit, procVars, missed, listVars, peekVars>>

Above(p) == CASE p = "shell" -> {} [] p = "child" -> {"shell"} [] p = "grand" -> {"shell", "child"}

(* What runs below the wrapper now.                                       *)
Below(c) == {p \in alive[c] : Above(p) \subseteq alive[c]}

(* A mutant: the shell's own children only. *)
OneLevel(c) == SelectSeq(<<"shell", "child">>, LAMBDA p : p \in Below(c))

(* Those processes, each after its parent.                                *)
Tree(c) == SelectSeq(<<"shell", "child", "grand">>, LAMBDA p : p \in Below(c))

(* ps is asked once, before the first kill.                               *)
Snapshot ==
  /\ stop.step = "snapshot"
  /\ stop' = [stop EXCEPT !.step = "kill", !.left = Reverse(Tree(stop.of))]
  /\ missed' = [missed EXCEPT ![stop.of] = Below(stop.of)]
  /\ UNCHANGED <<tmuxVars, procVars, listVars, peekVars>>

(* The last of them first; one that has exited meanwhile is passed over.  *)
Kills ==
  /\ stop.step = "kill" /\ stop.left # <<>>
  /\ LET p == Head(stop.left)  c == stop.of IN
     /\ killed' = [killed EXCEPT ![c] = @ \cup ({p} \cap alive[c])]
     /\ alive' = [alive EXCEPT ![c] = @ \ {p}]
     /\ stop' = [stop EXCEPT !.left = Tail(@)]
  /\ UNCHANGED <<tmuxVars, born, missed, listVars, peekVars>>

StopEnds ==
  /\ stop.step = "kill" /\ stop.left = <<>>
  /\ stop' = Idle
  /\ UNCHANGED <<tmuxVars, procVars, missed, listVars, peekVars>>

(* tmux, ps or a kill fails after the mark: the stop is reported failed,   *)
(* and is over.                                                            *)
StopFails ==
  /\ stop.step # "no" /\ stop' = Idle
  /\ missed' = [missed EXCEPT ![stop.of] = {}]
  /\ UNCHANGED <<tmuxVars, procVars, listVars, peekVars>>

(* The second press: the wrapper is killed, and its session with it, whose *)
(* processes are hung up, which they may ignore.  The view keeps the row   *)
(* until it has listed the sessions again.                                 *)
Delete(c) ==
  /\ Free /\ shells[c] # "none" /\ session[c] # "none" /\ peeked \in {None, c}
  /\ session' = [session EXCEPT ![c] = "gone"]
  /\ IF session[c] = "gone" THEN UNCHANGED alive
     ELSE \E rest \in SUBSET alive[c] : alive' = [alive EXCEPT ![c] = rest]
  /\ peeked' = None /\ read' = FALSE
  /\ UNCHANGED <<exit, flagged, born, killed, stopVars, listVars, loads, output>>

Next ==
  \/ \E c \in Command : StartShell(c) \/ Recorded(c) \/ RefreshPeek(c) \/ StopShell(c) \/ Delete(c)
  \/ \E c \in Command, p \in Proc : Exits(c, p) \/ \E q \in Proc : Fork(c, p, q)
  \/ \E i \in 1..LoadBound : Loaded(i)
  \/ Refresh \/ Load \/ ListShells \/ Landed \/ Unpeeks
  \/ Snapshot \/ Kills \/ StopEnds \/ StopFails

Spec == Init /\ [][Next]_vars

---------------------------------------------------------------------------
(* Properties *)

(* The types of the sessions, their processes and the view.               *)
TypeOK ==
  /\ session \in [Command -> {"none", "up", "gone"}] /\ exit \in [Command -> {"none", "zero", "other"}]
  /\ flagged \subseteq Command
  /\ \A c \in Command : killed[c] \cup alive[c] \cup missed[c] \subseteq born[c] /\ born[c] \subseteq Proc
  /\ stop \in [step : {"no", "snapshot", "kill"}, of : Command \cup {None}, left : Seq(Proc)]
  /\ shells \in [Command -> Row] /\ list \in [Command -> Row] /\ asked \in {"no", "asked", "listing", "listed"}
  /\ {peeked, output} \subseteq Command \cup {None} /\ read \in BOOLEAN
  /\ loads \in Seq([of : Command, own : BOOLEAN])

(* A stop that did not fail leaves nothing of the command running that ran below  *)
(* its wrapper when the stop looked, however deep.                         *)
WholeTree ==
  \A c \in Command : ~(stop.of = c) => missed[c] \cap alive[c] = {}

(* Once a peeked command's output was read, it is that output the view     *)
(* has, whatever reads of other commands end after it.                     *)
PeekTrue == read => output = peeked
====
