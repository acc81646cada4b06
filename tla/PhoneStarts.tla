---- MODULE PhoneStarts ----
(***************************************************************************)
(* The panes a phone starts (daemon/remote/http.ts, the start and resume   *)
(* routes; remote/spawn.ts; control.ts, noteLaunch, launch and             *)
(* startSession) beside those agent view starts (row-actions.ts, resume),  *)
(* both by way of daemon/pane-start.ts: a session file is claimed before   *)
(* its pane is spawned, and given back if the spawn fails; a new session's *)
(* pane is spawned first.  A pane of the phone's that does not register in *)
(* time is ended.                                                          *)
(*                                                                         *)
(* Each pi says with its heartbeats how it was started, its launch; the    *)
(* one /remote-control chose is kept in remote.json, for the phone's panes *)
(* to be started the same way.  A launch is of use while its files are     *)
(* there.  Requests are taken once their body and the list of saved        *)
(* sessions are read; all from the claim on is one step of the daemon's.   *)
(* A pane that registered beats until its pi ends.  The new sessions agent *)
(* view starts are left out, and so are phones' starts that are refused or *)
(* make no pane: those change nothing.                                     *)
(***************************************************************************)
EXTENDS Naturals, Sequences, SequencesExt

CONSTANTS
  None,
  File,          \* saved sessions
  Launch,        \* ways a pi was started
  Faults,        \* "late", a pane may register past its time; "unsure", tmux
                 \* may make a pane and not say so, or not answer
  PaneBound, RestartBound, ChangeBound    \* how many panes, restarts and changes

VARIABLES
  kept,          \* the launch kept, None before any is known
  latest,        \* the latest heartbeat's
  written,       \* the one the daemon knows to be in remote.json
  stored,        \* the one in remote.json
  server,        \* the phone's server is up
  usable,        \* the launches whose files are there
  panes,         \* the panes started, in order
  claims,        \* the files, and the new panes, listed as starting
  granted,       \* the files agent view has claimed and not spawned a pane on yet
  listed,        \* the panes the daemon lists
  timers,        \* the phone's panes not registered yet
  chosen,        \* the launch last chosen, while its files stay and a restart knows it
  restarts, changes

vars == <<kept, latest, written, stored, server, usable, panes, claims, granted,
          listed, timers, chosen, restarts, changes>>

launchVars == <<kept, latest, written, stored, chosen>>
paneVars == <<panes, claims, granted, listed, timers>>

(* A pane on its way may come to hang, at a dialog before its session is   *)
(* up, and never register.                                                 *)
Pane == [file : File \cup {None}, launch : Launch, by : {"phone", "view"},
         state : {"starting", "hung", "live", "ended"}]

(* The types of the launches and the panes.                                *)
TypeOK ==
  /\ {kept, latest, written, stored, chosen} \subseteq Launch \cup {None}
  /\ usable \subseteq Launch /\ server \in BOOLEAN
  /\ panes \in Seq(Pane)
  /\ claims \subseteq File \cup DOMAIN panes /\ granted \subseteq File
  /\ listed \cup timers \subseteq DOMAIN panes

Init ==
  /\ \E first \in Launch \cup {None} :
       kept = first /\ written = first /\ stored = first /\ chosen = None
  /\ latest = None /\ server \in BOOLEAN /\ usable = Launch
  /\ panes = <<>> /\ claims = {} /\ granted = {} /\ listed = {} /\ timers = {}
  /\ restarts = 0 /\ changes = 0

---------------------------------------------------------------------------
(* How a pane is started *)

(* remote.json gets the launch kept while the server is up, or cannot be   *)
(* written, and gets it with a later heartbeat.                            *)
SaveLaunch(launch, up) ==
  \/ up /\ launch # None /\ launch # written /\ stored' = launch /\ written' = launch
  \/ UNCHANGED <<stored, written>>

(* The launch kept is replaced by a heartbeat's only once its files are    *)
(* gone, and always by one that is chosen.                                 *)
KeptAfter(launch, choice) ==
  IF choice \/ (launch # kept /\ kept \notin usable) THEN launch ELSE kept

NoteLaunch(launch, choice) ==
  /\ latest' = launch /\ kept' = KeptAfter(launch, choice)
  /\ SaveLaunch(KeptAfter(launch, choice), server)

(* A heartbeat of some other pane of the Mac's. *)
OtherBeats(launch) ==
  /\ NoteLaunch(launch, FALSE)
  /\ UNCHANGED <<server, usable, chosen, restarts, changes>> /\ UNCHANGED paneVars

(* /remote-control asks something of the daemon, from a pi started so. *)
Chooses(launch) ==
  /\ changes < ChangeBound /\ changes' = changes + 1
  /\ NoteLaunch(launch, TRUE)
  /\ chosen' = IF launch \in usable THEN launch ELSE None
  /\ UNCHANGED <<server, usable, restarts>> /\ UNCHANGED paneVars

(* The server comes up, which saves the launch kept, or is stopped. *)
Switches ==
  /\ changes < ChangeBound /\ changes' = changes + 1
  /\ server' = ~server
  /\ SaveLaunch(kept, server')
  /\ UNCHANGED <<kept, latest, chosen, usable, restarts>> /\ UNCHANGED paneVars

(* An upgrade moves the files of a launch away, or some are there again. *)
FilesMove(launch) ==
  /\ changes < ChangeBound /\ changes' = changes + 1
  /\ usable' = IF launch \in usable THEN usable \ {launch} ELSE usable \cup {launch}
  /\ chosen' = IF launch = chosen THEN None ELSE chosen
  /\ UNCHANGED <<kept, latest, written, stored, server, restarts>> /\ UNCHANGED paneVars

(* The launch a phone's pane is started with, None with none of use. *)
LaunchNow ==
  IF kept \in usable THEN kept ELSE IF latest \in usable THEN latest ELSE None

---------------------------------------------------------------------------
(* Claims and panes *)

(* No other start has the file, and no pane listed runs it. *)
Claimable(file) ==
  /\ file \notin claims
  /\ ~\E p \in listed : panes[p].file = file

Spawned(file, launch, by) ==
  panes' = Append(panes, [file |-> file, launch |-> launch, by |-> by, state |-> "starting"])

New == Len(panes) + 1

(* The phone resumes a saved session: claimed, and given back if its pane  *)
(* cannot be started, or tmux did not say that it was.                     *)
PhoneResumes(file) ==
  /\ server /\ LaunchNow # None /\ Claimable(file) /\ Len(panes) < PaneBound
  /\ Spawned(file, LaunchNow, "phone")
  /\ \E told \in {TRUE} \cup {"unsure" \notin Faults} :
       /\ claims' = claims \cup {f \in {file} : told}
       /\ timers' = timers \cup {p \in {New} : told}
  /\ UNCHANGED <<server, usable, granted, listed, restarts, changes>> /\ UNCHANGED launchVars

(* It starts a new session: its pane is listed as starting once spawned. *)
PhoneStarts ==
  /\ server /\ LaunchNow # None /\ Len(panes) < PaneBound
  /\ Spawned(None, LaunchNow, "phone")
  /\ \E told \in {TRUE} \cup {"unsure" \notin Faults} :
       /\ claims' = claims \cup {p \in {New} : told}
       /\ timers' = timers \cup {p \in {New} : told}
  /\ UNCHANGED <<server, usable, granted, listed, restarts, changes>> /\ UNCHANGED launchVars

(* Agent view claims a file over the socket, and spawns the pane once      *)
(* answered.  If that fails it gives the claim back, or leaves it to       *)
(* expire when the daemon does not answer.                                 *)
ViewResumes(file) ==
  /\ Claimable(file) /\ file \notin granted /\ Len(panes) < PaneBound
  /\ claims' = claims \cup {file} /\ granted' = granted \cup {file}
  /\ UNCHANGED <<server, usable, panes, listed, timers, restarts, changes>> /\ UNCHANGED launchVars

ViewSpawns(file) ==
  /\ granted' = granted \ {file}
  /\ \/ /\ Len(panes) < PaneBound /\ \E launch \in usable : Spawned(file, launch, "view")
        /\ UNCHANGED claims
     \/ claims' \in {claims, claims \ {file}} /\ UNCHANGED panes
     \/ /\ "unsure" \in Faults /\ Len(panes) < PaneBound
        /\ \E launch \in usable : Spawned(file, launch, "view")
        /\ claims' \in {claims, claims \ {file}}
  /\ UNCHANGED <<server, usable, listed, timers, restarts, changes>> /\ UNCHANGED launchVars

(* The pane a timer waits for, by the name its heartbeat gives. *)
Registered(p) == timers \ {p}

(* A pane's heartbeat, its first or a later one: the start it was listed   *)
(* as is over.                                                             *)
Beats(p) ==
  /\ panes[p].state \in {"starting", "live"}
  /\ panes' = [panes EXCEPT ![p].state = "live"]
  /\ claims' = claims \ {panes[p].file, p}
  /\ listed' = listed \cup {p} /\ timers' = Registered(p)
  /\ NoteLaunch(panes[p].launch, FALSE)
  /\ UNCHANGED <<server, usable, granted, chosen, restarts, changes>>

(* A pane hangs before it registers, or its pi ends; the daemon hears of   *)
(* it, or finds it out.                                                    *)
Stalls(p) ==
  /\ \/ panes[p].state = "starting" /\ panes' = [panes EXCEPT ![p].state = "hung"]
        /\ UNCHANGED listed
     \/ panes[p].state # "ended" /\ panes' = [panes EXCEPT ![p].state = "ended"]
        /\ UNCHANGED listed
     \/ p \in listed /\ panes[p].state = "ended" /\ listed' = listed \ {p} /\ UNCHANGED panes
  /\ UNCHANGED <<server, usable, claims, granted, timers, restarts, changes>> /\ UNCHANGED launchVars

(* A pane on its way is given the time it needs. *)
TimeUp(p) == panes[p].state = "starting" => "late" \in Faults

(* A start's time is up, or a new session's pane is gone. *)
Expires(c) ==
  /\ c \notin granted
  /\ \A p \in DOMAIN panes : c \in {p, panes[p].file} => TimeUp(p)
  /\ claims' = claims \ {c}
  /\ UNCHANGED <<server, usable, panes, granted, listed, timers, restarts, changes>>
  /\ UNCHANGED launchVars

(* The timer of a phone's pane ends it, if tmux answers. *)
TimerFires(p) ==
  /\ TimeUp(p)
  /\ timers' = timers \ {p}
  /\ \/ panes' = [panes EXCEPT ![p].state = "ended"]
     \/ "unsure" \in Faults /\ UNCHANGED panes
  /\ UNCHANGED <<server, usable, claims, granted, listed, restarts, changes>>
  /\ UNCHANGED launchVars

(* The daemon restarts, with what remote.json holds. *)
Restart ==
  /\ restarts < RestartBound /\ restarts' = restarts + 1
  /\ kept' = stored /\ written' = stored /\ latest' = None
  /\ chosen' = IF chosen = stored THEN chosen ELSE None
  /\ claims' = {} /\ listed' = {} /\ timers' = {}
  /\ UNCHANGED <<stored, server, usable, panes, granted, changes>>

Next ==
  \/ \E launch \in Launch : OtherBeats(launch) \/ Chooses(launch) \/ FilesMove(launch)
  \/ Switches \/ PhoneStarts \/ Restart
  \/ \E file \in File : PhoneResumes(file) \/ ViewResumes(file)
  \/ \E file \in granted : ViewSpawns(file)
  \/ \E p \in DOMAIN panes : Beats(p) \/ Stalls(p)
  \/ \E c \in claims : Expires(c)
  \/ \E p \in timers : TimerFires(p)

Spec == Init /\ [][Next]_vars

---------------------------------------------------------------------------
(* Properties *)

Running(file) == {p \in DOMAIN panes : panes[p].file = file /\ panes[p].state \in {"starting", "live"}}

(* However a phone's and agent view's starts meet, at most one pane is on  *)
(* its way to a saved session or runs it (pane-start.ts, resumePane; the   *)
(* claims a restart forgets aside).                                        *)
OneEach ==
  restarts = 0 => \A file \in File : \A p, q \in Running(file) : p = q

(* A pane of the phone's that never registered is one a timer will end, so *)
(* none runs unseen (control.ts, startSession; a restart forgets timers).  *)
NoneUnseen ==
  restarts = 0 =>
    \A p \in DOMAIN panes : panes[p].by = "phone" /\ panes[p].state = "hung" => p \in timers

(* The timer of a phone's pane ends none that has registered, whichever    *)
(* row it is listed as (control.ts, registered).                           *)
EndsUnregistered ==
  [][ \A p \in timers \ timers' :
        panes[p].state = "live" => panes'[p].state = "live" ]_vars

(* A phone's pane is started in a way whose files are there, and in the    *)
(* one /remote-control chose as long as that one's are, through heartbeats *)
(* of panes started otherwise and daemon restarts (control.ts, noteLaunch, *)
(* launch).                                                                *)
LaunchRight ==
  [][ \A p \in DOMAIN panes' \ DOMAIN panes :
        panes'[p].by = "phone" =>
          /\ panes'[p].launch \in usable
          /\ chosen # None => panes'[p].launch = chosen ]_vars
====
