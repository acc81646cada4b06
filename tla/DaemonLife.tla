----------------------------- MODULE DaemonLife -----------------------------
(***************************************************************************)
(* The life of the daemon's process: one socket path, the processes that    *)
(* bind it, and the panes that probe it, start a daemon, and replace one    *)
(* whose code is older than the disk's.                                     *)
(*                                                                         *)
(* A process keeps the path it bound as long as nobody unlinks it: another  *)
(* process's unlink leaves it listening on a socket no client can reach.    *)
(***************************************************************************)
EXTENDS Integers, FiniteSets

CONSTANTS Clients,        \* the panes that want the daemon: agent view, /bg, remote control
          DaemonBound,    \* processes at one time, numbered; 1 is from before
          TroubleBound,   \* deaths and failed recoveries
          None

VARIABLES sock,       \* the process whose socket is at the path, or None
          st,         \* how far each process is
          old,        \* the running processes of a build older than the disk's
          pc,         \* how far each pane is
          troubles    \* how many deaths there were

vars == <<sock, st, old, pc, troubles>>

Daemons == 1..DaemonBound

TypeOK == /\ sock \in Daemons \cup {None}
          /\ st \in [Daemons -> {"check", "probe", "unlink", "bind", "applying",
                                 "serving", "asked", "gone"}]
          /\ old \subseteq Daemons
          /\ pc \in [Clients -> {"away", "ensure", "starting", "info", "shutdown", "leaving",
                                 "again", "restarting", "done", "failed"}]
          /\ troubles \in 0..TroubleBound

\* The states in which the process accepts connections.
Listening == {d \in Daemons : st[d] \in {"applying", "serving", "asked"}}

Up == sock \in Listening

\* isRunning may time out over a daemon that is up but busy for half a second. One asked to leave
\* is not: a timer that is due goes before the connections that wait.
SlowToGo == Up /\ st[sock] # "asked"

Starts == {"none", "crashed", "serving"}

Init == \E s \in Starts, o \in BOOLEAN :
          /\ sock = IF s = "none" THEN None ELSE 1
          /\ st = [d \in Daemons |-> IF d = 1 /\ s = "serving" THEN "serving" ELSE "gone"]
          /\ old = IF o /\ s = "serving" THEN {1} ELSE {}
          /\ pc = [c \in Clients |-> "away"]
          /\ troubles = 0

-----------------------------------------------------------------------------
(* The panes. *)

GoesTo(c, to) == pc' = [pc EXCEPT ![c] = to]

\* What follows a daemon found running: its build is compared, or a restart is over.
Found(from) == IF from \in {"again", "restarting"} THEN "done" ELSE "info"

Begins(c) == /\ pc[c] = "away"
             /\ GoesTo(c, "ensure")
             /\ UNCHANGED <<sock, st, old, troubles>>

\* ensureDaemon's first probe, and each of those after a start.
FindsIt(c) == /\ pc[c] \in {"ensure", "again", "starting", "restarting"}
              /\ Up
              /\ GoesTo(c, Found(pc[c]))
              /\ UNCHANGED <<sock, st, old, troubles>>

\* The number of a process that is gone is given again, unless its socket is still at the path.
Unborn == {d \in Daemons : st[d] = "gone" /\ d # sock}

Spawns(c) == /\ pc[c] \in {"ensure", "again"}
             /\ ~Up \/ SlowToGo
             /\ Unborn # {}
             /\ LET d == CHOOSE x \in Unborn : \A y \in Unborn : x <= y
                IN st' = [st EXCEPT ![d] = "check"]
             /\ GoesTo(c, IF pc[c] = "ensure" THEN "starting" ELSE "restarting")
             /\ UNCHANGED <<sock, old, troubles>>

\* Fifteen probes without an answer: three seconds, which a start may well take.
GivesUp(c) == /\ pc[c] \in {"starting", "restarting"}
              /\ ~Up \/ SlowToGo
              /\ GoesTo(c, "failed")
              /\ UNCHANGED <<sock, st, old, troubles>>

\* The build the daemon echoes against the disk's. Agent view leaves a daemon that did not answer
\* alone; /bg and remote control take the missing build id for an old one.
ReadsBuild(c) == /\ pc[c] = "info"
                 /\ \/ Up /\ GoesTo(c, IF sock \in old THEN "shutdown" ELSE "done")
                    \/ (~Up \/ SlowToGo) /\ \E to \in {"shutdown", "done"} : GoesTo(c, to)
                 /\ UNCHANGED <<sock, st, old, troubles>>

\* The shutdown request. Until remote control's switch is applied there is no hook to run, and the
\* request is refused; its answer may also come too late for the pane to go on.
AsksToLeave(c) ==
  /\ pc[c] = "shutdown"
  /\ IF Up /\ st[sock] # "applying"
     THEN /\ st' = [st EXCEPT ![sock] = "asked"]
          /\ GoesTo(c, "leaving") \/ GoesTo(c, "failed")
     ELSE GoesTo(c, "failed") /\ UNCHANGED st
  /\ UNCHANGED <<sock, old, troubles>>

\* The path is probed until nothing answers there.
IsGone == ~Up \/ SlowToGo

SeesItGone(c) == /\ pc[c] = "leaving"
                 /\ IsGone
                 /\ GoesTo(c, "again")
                 /\ UNCHANGED <<sock, st, old, troubles>>

\* Five seconds of answers, all from a daemon that was never asked: another pane's, started since.
\* One that was asked closes its socket a tenth of a second later.
NeverSeesItGone(c) == /\ pc[c] = "leaving"
                      /\ SlowToGo
                      /\ GoesTo(c, "failed")
                      /\ UNCHANGED <<sock, st, old, troubles>>

-----------------------------------------------------------------------------
(* A daemon's process. *)

Dies(d) == st' = [st EXCEPT ![d] = "gone"]
Moves(d, to) == st' = [st EXCEPT ![d] = to]

Checks(d) == /\ st[d] = "check"
             /\ Moves(d, IF sock = None THEN "bind" ELSE "probe")
             /\ UNCHANGED <<sock, old, pc, troubles>>

\* A connection that is accepted, however slow the daemon behind it, ends the newcomer.
Probes(d) == /\ st[d] = "probe"
             /\ IF Up THEN Dies(d) ELSE Moves(d, "unlink")
             /\ UNCHANGED <<sock, old, pc, troubles>>

(* A mutant: the socket a dead daemon left is not removed. *)
LeavesStale(d) == sock

\* What is at the path after the newcomer removed the stale socket.
WithoutStale(d) == None

\* The path is unlinked whatever is there by now; with nothing there unlinkSync throws.
Unlinks(d) == /\ st[d] = "unlink"
              /\ IF sock = None THEN Dies(d) ELSE Moves(d, "bind")
              /\ sock' = WithoutStale(d)
              /\ UNCHANGED <<old, pc, troubles>>

\* Bound and recovered in one turn of the event loop: no request comes between.
Binds(d) == /\ st[d] = "bind"
            /\ IF sock # None THEN Dies(d) /\ UNCHANGED sock
               ELSE Moves(d, "applying") /\ sock' = d
            /\ UNCHANGED <<old, pc, troubles>>

\* The roster could not be read: the socket is closed and removed, and the process ends.
NotRecovered(d) == /\ st[d] = "bind" /\ sock = None
                   /\ troubles < TroubleBound
                   /\ troubles' = troubles + 1
                   /\ Dies(d)
                   /\ UNCHANGED <<sock, old, pc>>

Applies(d) == /\ st[d] = "applying"
              /\ Moves(d, "serving")
              /\ UNCHANGED <<sock, old, pc, troubles>>

\* The shutdown: the socket is closed and whatever is at the path is removed; what is left, the
\* stop of remote control's server, touches neither.
Closes(d) == /\ st[d] = "asked"
             /\ Dies(d)
             /\ sock' = None /\ old' = old \ {d}
             /\ UNCHANGED <<pc, troubles>>

\* A signal or an error nobody caught: the same shutdown, once its handlers are installed; before,
\* and for a kill, the process is gone and its socket stays.
Fails(d) == /\ st[d] \in {"applying", "serving"}
            /\ troubles < TroubleBound
            /\ troubles' = troubles + 1
            /\ Dies(d)
            /\ \/ UNCHANGED sock
               \/ st[d] = "serving" /\ sock' = None
            /\ old' = old \ {d} /\ UNCHANGED pc

PaneSteps(c) == \/ FindsIt(c) \/ Spawns(c) \/ GivesUp(c) \/ ReadsBuild(c)
                \/ AsksToLeave(c) \/ SeesItGone(c) \/ NeverSeesItGone(c)

DaemonSteps(d) == \/ Checks(d) \/ Probes(d) \/ Unlinks(d) \/ Binds(d)
                  \/ Applies(d) \/ Closes(d)

Next == \/ \E c \in Clients : Begins(c) \/ PaneSteps(c)
        \/ \E d \in Daemons : DaemonSteps(d) \/ NotRecovered(d) \/ Fails(d)

Spec == /\ Init /\ [][Next]_vars
        /\ \A c \in Clients : WF_vars(PaneSteps(c))
        /\ \A d \in Daemons : WF_vars(DaemonSteps(d))

-----------------------------------------------------------------------------
(* A pane that wants the daemon gets one, whatever it finds: none, one that is up, the socket of a *)
(* dead one, or other panes starting theirs at the same moment. Two newcomers may both find the    *)
(* socket stale, and one may remove the other's; one of them answers all the same. The last death  *)
(* is behind when the pane begins (ensureDaemon and removeStaleSocketIfNeeded).                    *)
Reaches(c) == (pc[c] = "ensure" /\ troubles = TroubleBound) ~> Up
Reached == \A c \in Clients : Reaches(c)

(* A daemon that was asked to make way is replaced: a daemon of the disk's build answers in the    *)
(* end, or the pane was told that it could not be done, even when two panes replace the same one,  *)
(* and one of them asks the other's replacement to leave (shutdownDaemon and restartDaemon).       *)
Replaces(c) ==
  (pc[c] = "leaving" /\ troubles = TroubleBound) ~> (pc[c] = "failed" \/ (Up /\ sock \notin old))
Replaced == \A c \in Clients : Replaces(c)
=============================================================================
