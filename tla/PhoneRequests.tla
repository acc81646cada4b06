---- MODULE PhoneRequests ----
(***************************************************************************)
(* What the daemon does with a phone's requests about a session            *)
(* (daemon/remote/http.ts, handle and sessionRoute, and phone-control.ts,  *)
(* decide): which are refused, which queue a message for the session's     *)
(* pane, which the daemon carries out itself, and which only read.         *)
(*                                                                         *)
(* A request's body takes a while to read, and a session may change        *)
(* meanwhile.  Bodies are well formed or not; texts are what decide tells  *)
(* apart.  The session's pane is external here: it starts, beats, falls    *)
(* silent, reports and ends as it likes.                                   *)
(***************************************************************************)
CONSTANTS
  None,
  Offer,        \* a model, a thinking level, a command or a task a pane may list
  Title         \* names a session may have

VARIABLES
  row,        \* what the daemon lists of the session, None when it is deleted
  report,     \* its pane's latest report, None without one
  terminal,   \* a terminal on the Mac shows pi
  known,      \* as the daemon last asked
  bodies,     \* the requests whose body is being read
  queued,     \* the message the latest request queued for the pane, None if it queued none
  answer      \* its answer, None before

vars == <<row, report, terminal, known, bodies, queued, answer>>

Kinds == {"stored", "starting", "live", "silent"}

(* busy: mid-turn or waiting for an answer.  draft: its prompt held text   *)
(* at its last heartbeat.                                                  *)
Row == [kind : Kinds, busy : BOOLEAN, draft : BOOLEAN, pinned : BOOLEAN, name : Title]

(* tells: the pane reports what became of each prompt, which an older one  *)
(* does not.                                                               *)
Report == [tells : BOOLEAN, offers : SUBSET Offer]

Actions ==
  [type : {"set", "command", "stop_task", "task_output"}, names : Offer]
    \cup [type : {"rename"}, names : Title]
    \cup [type : {"prompt", "shell", "abort", "pin", "delete", "status", "read"}, names : {None}]

(* The types of the row, the report and the requests.                      *)
TypeOK ==
  /\ row \in Row \cup {None} /\ report \in Report \cup {None}
  /\ terminal \in BOOLEAN /\ known \in BOOLEAN
  /\ bodies \subseteq [action : Actions, seen : Row \cup {None}]

Init ==
  /\ \E name \in Title :
       row = [kind |-> "stored", busy |-> FALSE, draft |-> FALSE, pinned |-> FALSE, name |-> name]
  /\ report = None
  /\ terminal \in BOOLEAN /\ known = terminal
  /\ bodies = {} /\ queued = None /\ answer = None

---------------------------------------------------------------------------
(* decide *)

HasPane(session) == session.kind \in {"live", "silent"}

Error(why) == [error |-> why]

(* The row's verdict on a message for its pi. *)
Refusal(session) ==
  IF session.kind = "silent" THEN Error("session_silent") ELSE Error("session_not_running")

ToPane(session, action) ==
  IF session.kind = "live" THEN [message |-> action] ELSE Refusal(session)

Offers(rep, what) == rep # None /\ what \in rep.offers

(* A command or a shell line goes into an idle, empty prompt.  A pane that *)
(* tells what became of it checks that itself.                             *)
TypedIn(session, rep, action) ==
  IF action.type = "command" /\ ~Offers(rep, action.names) THEN Error("command_refused")
  ELSE IF (rep = None \/ ~rep.tells) /\ session.busy THEN Error("session_busy")
  ELSE IF (rep = None \/ ~rep.tells) /\ session.draft THEN Error("unsent_draft")
  ELSE ToPane(session, action)

(* A task the pane reported is stopped by its pane, and its output read. *)
OfTask(session, rep, action) ==
  IF ~HasPane(session) \/ ~Offers(rep, action.names) THEN Error("unknown_task")
  ELSE IF action.type = "stop_task" THEN ToPane(session, action)
  ELSE [read |-> action]

Delete(session) ==
  IF HasPane(session) THEN Error("session_running") ELSE [operation |-> [type |-> "delete"]]

Decide(session, rep, action) ==
  CASE action.type \in {"prompt", "abort"} -> ToPane(session, action)
    [] action.type \in {"command", "shell"} -> TypedIn(session, rep, action)
    [] action.type = "set" ->
         IF session.kind # "live" THEN Refusal(session)
         ELSE IF rep = None THEN Error("pane_too_old")
         ELSE IF ~Offers(rep, action.names) THEN Error("invalid_model")
         ELSE [message |-> action]
    [] action.type \in {"stop_task", "task_output"} -> OfTask(session, rep, action)
    [] action.type = "rename" ->
         IF HasPane(session) THEN ToPane(session, action) ELSE [operation |-> action]
    [] action.type = "pin" -> [operation |-> action]
    [] action.type = "delete" -> Delete(session)
    [] action.type = "status" ->
         IF ~HasPane(session) \/ rep = None THEN Error("no_status") ELSE [read |-> action]
    [] action.type = "read" -> [read |-> action]

---------------------------------------------------------------------------
(* A request *)

Reads(action) == action.type \in {"status", "read", "task_output"}

(* A request comes in.  One that changes something is refused at once      *)
(* while no terminal shows pi.                                             *)
Arrives(action) ==
  /\ bodies = {} /\ answer = None
  /\ IF ~Reads(action) /\ ~known
     THEN answer' = "pi_not_open" /\ UNCHANGED bodies
     ELSE bodies' = bodies \cup {[action |-> action, seen |-> row]} /\ UNCHANGED answer
  /\ UNCHANGED <<row, report, terminal, known, queued>>

(* A mutant: the session is looked up before the body is read. *)
SeenBefore(request) == request.seen

(* The session as it is once the body is read. *)
Session(request) == row

(* Its body is no request of that kind. *)
Malformed(request) ==
  /\ bodies' = bodies \ {request}
  /\ answer' = "invalid"
  /\ UNCHANGED <<row, report, terminal, known, queued>>

(* The daemon carries an operation out, on the row by that id now. *)
Operate(action) ==
  CASE row = None -> row' = row
    [] action.type = "rename" -> row' = [row EXCEPT !.name = action.names]
    [] action.type = "pin" -> row' = [row EXCEPT !.pinned = ~@]
    [] action.type = "delete" -> row' = None

Served(request) ==
  LET session == Session(request)
      outcome == IF session = None THEN Error("unknown_session") ELSE Decide(session, report, request.action)
  IN  /\ bodies' = bodies \ {request}
      /\ IF "message" \in DOMAIN outcome /\ row # None /\ HasPane(row)
         THEN queued' = outcome.message /\ UNCHANGED row
         ELSE IF "operation" \in DOMAIN outcome
         THEN Operate(outcome.operation) /\ UNCHANGED queued
         ELSE UNCHANGED <<row, queued>>
      /\ answer' = IF "error" \in DOMAIN outcome THEN outcome.error ELSE "done"
      /\ UNCHANGED <<report, terminal, known>>

(* The client lets the answer go. *)
Closed ==
  /\ answer # None
  /\ answer' = None /\ queued' = None
  /\ UNCHANGED <<row, report, terminal, known, bodies>>

---------------------------------------------------------------------------
(* Meanwhile *)

(* A terminal opens or closes; the daemon asks again after a while. *)
Terminal ==
  /\ \/ terminal' = ~terminal /\ UNCHANGED known
     \/ known' = terminal /\ UNCHANGED terminal
  /\ UNCHANGED <<row, report, bodies, queued, answer>>

(* The session's pane is started and registers, beats, falls silent and    *)
(* comes back, and ends: told, which drops its report, or not.             *)
PaneGoesOn ==
  /\ row # None
  /\ \/ /\ row.kind \in {"stored", "starting"}
        /\ row' = [row EXCEPT !.kind = IF @ = "stored" THEN "starting" ELSE "live"]
        /\ UNCHANGED report
     \/ /\ row.kind = "live"
        /\ \E busy, draft \in BOOLEAN : row' = [row EXCEPT !.busy = busy, !.draft = draft]
        /\ UNCHANGED report
     \/ /\ HasPane(row)
        /\ row' = [row EXCEPT !.kind = IF @ = "live" THEN "silent" ELSE "live"]
        /\ UNCHANGED report
     \/ /\ HasPane(row)
        /\ row' = [row EXCEPT !.kind = "stored", !.busy = FALSE, !.draft = FALSE]
        /\ report' \in IF row.kind = "live" THEN {None} ELSE {report}
  /\ UNCHANGED <<terminal, known, bodies, queued, answer>>

(* Its pane reports. *)
Reports ==
  /\ row # None /\ row.kind = "live"
  /\ \E tells \in BOOLEAN, offers \in SUBSET Offer :
       report' = [tells |-> tells, offers |-> offers]
  /\ UNCHANGED <<row, terminal, known, bodies, queued, answer>>

Next ==
  \/ \E action \in Actions : Arrives(action)
  \/ \E request \in bodies : Malformed(request) \/ Served(request)
  \/ Closed \/ Terminal \/ PaneGoesOn \/ Reports

Spec == Init /\ [][Next]_vars

---------------------------------------------------------------------------
(* Properties *)

(* However the session changed while a request's body was read, a message  *)
(* is queued only for a pane that is live then, and one that names what a  *)
(* pane offers only if the latest report has it; a session with a pane,    *)
(* silent too, is never deleted or renamed behind its pi (http.ts, handle; *)
(* phone-control.ts, decide).                                              *)
AsListed ==
  [][ \A request \in bodies \ bodies' :
        LET action == request.action IN
        /\ queued' # queued =>
             /\ row.kind = "live"
             /\ action.type \in {"set", "command", "stop_task"} => action.names \in report.offers
        /\ row' # row /\ action.type \in {"delete", "rename"} => ~HasPane(row) ]_vars
====
