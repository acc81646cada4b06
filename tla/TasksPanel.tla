------------------------------ MODULE TasksPanel ------------------------------
(***************************************************************************)
(* The /tasks panel (ext/background-bash/tasks-dialog.ts): the session's   *)
(* shells, monitors and subagent runs, in sections, and the keys that      *)
(* stop, close and dismiss them.  Its rows are read again on every frame   *)
(* and on every key, so a task can start or end between the frame a key    *)
(* was pressed on and the key.                                             *)
(*                                                                         *)
(* A frame is drawn after each key before the next one is handled; what    *)
(* the terminal's height leaves out of the list is not modelled.           *)
(***************************************************************************)
EXTENDS Naturals, FiniteSets, Sequences, SequencesExt

CONSTANTS Fore,    \* the model's bash commands in the foreground
          Shell,   \* background shells, and monitors of a command
          Socket,  \* WebSocket monitors
          Agent,   \* subagent runs
          None,
          StartBound \* how many tasks start, and runs that are resumed

Task == Fore \cup Shell \cup Socket \cup Agent

VARIABLES order,     \* the tasks there are, newest first
          done,      \* the finished runs
          starts,
          open, focusId, focusIndex, focusLost, detail, direct, \* the dialog
          frame,     \* the row key its last frame points at, or the detail it shows
          drawn,     \* a frame was drawn since the last key
          asked,     \* the tasks an `x` was to stop
          closing,   \* the runs an `X` was to close
          dismissed  \* the finished runs an `x` took off the list

tasks == <<order, done, starts>>
dialog == <<open, focusId, focusIndex, focusLost, detail, direct>>
acts == <<asked, closing, dismissed>>
vars == <<tasks, dialog, frame, drawn, acts>>

Init == /\ order = <<>> /\ done = {} /\ starts = 0
        /\ open = FALSE /\ focusId = None /\ focusIndex = 1 /\ focusLost = FALSE
        /\ detail = None /\ direct = FALSE
        /\ frame = None /\ drawn = FALSE /\ asked = {} /\ closing = {} /\ dismissed = {}

(***************************************************************************)
(* The rows                                                                *)
(***************************************************************************)
SectionOf(t) == CASE t \in Fore \cup Shell -> "shells"
                  [] t \in Socket -> "monitors"
                  [] t \in Agent -> IF t \in done THEN "done" ELSE "agents"
HasDetail(t) == SectionOf(t) # "monitors"
\* rowKey: a run that moves to Done is another row.
RowKey(t) == <<SectionOf(t), t>>

Section(s) == SelectSeq(order, LAMBDA t : SectionOf(t) = s /\ t \notin dismissed)
\* dialogRows: in section order, newest first within each.
Rows == Section("shells") \o Section("monitors") \o Section("agents") \o Section("done")

\* cursor: the focused row, followed by its key; else what slid under the cursor, which is noted.
Cursor ==
    LET at == {i \in DOMAIN Rows : RowKey(Rows[i]) = focusId}
    IN  IF Rows = <<>> THEN [id |-> focusId, index |-> focusIndex, lost |-> focusLost]
        ELSE IF at # {} THEN [id |-> focusId, index |-> CHOOSE i \in at : TRUE, lost |-> focusLost]
        ELSE LET i == IF focusIndex < Len(Rows) THEN focusIndex ELSE Len(Rows)
             IN  [id |-> RowKey(Rows[i]), index |-> i, lost |-> focusLost \/ focusId # None]
Focused(c) == focusId' = c.id /\ focusIndex' = c.index /\ focusLost' = c.lost
Focus(i) == LET j == IF i < 1 THEN 1 ELSE IF i > Len(Rows) THEN Len(Rows) ELSE i
            IN  Focused([id |-> RowKey(Rows[j]), index |-> j, lost |-> FALSE])

(***************************************************************************)
(* The tasks                                                               *)
(***************************************************************************)
\* The newest is first; the model's bash is listed some time after it started.
Starts(t) ==
    /\ starts < StartBound /\ starts' = starts + 1
    /\ t \notin ToSet(order)
    /\ \E i \in 1..Len(order) + 1 : (t \in Fore \/ i = 1) /\ order' = InsertAt(order, i, t)
    /\ UNCHANGED <<done, dialog, frame, drawn, acts>>
\* A shell's end, or that of a monitor; a run that is closed is done.
Ends(t) ==
    /\ t \in ToSet(order) \ done
    /\ IF t \in Agent THEN done' = done \cup {t} /\ UNCHANGED order
       ELSE order' = Remove(order, t) /\ UNCHANGED done
    /\ asked' = asked \ {t} /\ closing' = closing \ {t}
    /\ UNCHANGED <<starts, dialog, frame, drawn, dismissed>>
\* A Resume starts the run's next generation.
Resumes(t) ==
    /\ t \in done /\ starts < StartBound /\ starts' = starts + 1
    /\ done' = done \ {t} /\ dismissed' = dismissed \ {t}
    /\ order' = <<t>> \o Remove(order, t)
    /\ UNCHANGED <<dialog, frame, drawn, asked, closing>>
\* A message sent while the model's bash runs, or its timeout, moves it to the background: a new
\* job, started now.
Moves(f, s) ==
    /\ f \in Fore /\ f \in ToSet(order) /\ s \in Shell \ ToSet(order)
    /\ order' = <<s>> \o Remove(order, f)
    /\ asked' = asked \ {f}
    /\ UNCHANGED <<done, starts, dialog, frame, drawn, closing, dismissed>>

(***************************************************************************)
(* The dialog                                                              *)
(***************************************************************************)
Closed == /\ open' = FALSE /\ detail' = None /\ direct' = FALSE
          /\ focusId' = None /\ focusIndex' = 1 /\ focusLost' = FALSE /\ frame' = None

\* With one task to show it opens straight to it.
Opens ==
    /\ ~open /\ open' = TRUE
    /\ direct' = (Len(Rows) = 1 /\ HasDetail(Rows[1]) /\ Rows[1] \notin Agent)
    /\ detail' = IF direct' THEN Rows[1] ELSE None
    /\ focusId' = None /\ focusIndex' = 1 /\ focusLost' = FALSE
    /\ frame' = None /\ drawn' = FALSE
    /\ UNCHANGED <<tasks, acts>>

\* render: a detail view whose task ended closes a dialog opened straight to it, else goes back.
Draws ==
    /\ open /\ drawn' = TRUE
    /\ IF detail # None /\ detail \in ToSet(Rows)
       THEN frame' = <<"detail", detail>> /\ UNCHANGED dialog
       ELSE IF detail # None /\ direct THEN Closed
       ELSE /\ detail' = None /\ UNCHANGED <<open, direct>>
            /\ Focused(Cursor)
            /\ frame' = IF Rows = <<>> THEN None ELSE Cursor.id
    /\ UNCHANGED <<tasks, acts>>

Pressed == open /\ drawn /\ drawn' = FALSE /\ UNCHANGED tasks
Leaves == Pressed /\ Closed /\ UNCHANGED acts

\* In the detail view.
GoesBack ==
    /\ detail # None /\ Pressed /\ UNCHANGED acts
    /\ IF direct /\ Len(Rows) <= 1 THEN Closed
       ELSE /\ detail' = None /\ direct' = FALSE
            /\ UNCHANGED <<open, focusId, focusIndex, focusLost, frame>>
StopsShown ==
    /\ detail # None /\ Pressed
    /\ asked' = IF detail \in ToSet(Rows) \ done THEN asked \cup {detail} ELSE asked
    /\ UNCHANGED <<dialog, frame, closing, dismissed>>

\* In the list.
InList == detail = None /\ Rows # <<>>
Steps(by) ==
    /\ InList /\ Pressed /\ Focus(Cursor.index + by - 1)
    /\ UNCHANGED <<open, detail, direct, frame, acts>>
\* Enter opens a run's own session, the dialog closed first; any other task's detail view.
Enters ==
    /\ InList /\ Pressed /\ UNCHANGED acts
    /\ LET t == Rows[Cursor.index]
       IN  IF t \in Agent THEN Closed
           ELSE /\ detail' = IF HasDetail(t) THEN t ELSE None
                /\ Focused(Cursor) /\ UNCHANGED <<open, direct, frame>>
ClosesAll ==
    /\ InList /\ Pressed /\ Focused(Cursor)
    /\ closing' = closing \cup ((Agent \cap ToSet(order)) \ done)
    /\ UNCHANGED <<open, detail, direct, frame, asked, dismissed>>
\* `x`: swallowed once when the task under the cursor is not the one that was focused.
Stops ==
    /\ InList /\ Pressed
    /\ LET c == Cursor   t == Rows[c.index]
       IN  /\ Focused([c EXCEPT !.lost = FALSE])
           /\ asked' = IF c.lost \/ t \in done THEN asked ELSE asked \cup {t}
           /\ dismissed' = IF ~c.lost /\ t \in done THEN dismissed \cup {t} ELSE dismissed
    /\ UNCHANGED <<open, detail, direct, frame, closing>>

Next == \/ \E t \in Task : Starts(t) \/ Ends(t)
        \/ \E t \in Agent : Resumes(t)
        \/ \E f \in Fore, s \in Shell : Moves(f, s)
        \/ Opens \/ Draws \/ Leaves \/ GoesBack \/ StopsShown
        \/ \E by \in {0, 2} : Steps(by)
        \/ Enters \/ ClosesAll \/ Stops

Spec == Init /\ [][Next]_vars

(***************************************************************************)
(* Properties                                                              *)
(***************************************************************************)
(* An `x` stops, closes or dismisses only the task the last frame pointed at, as the frame showed
   it: never the one that took its place as it ended, nor a run dismissed that was shown working.
   (A frame that showed no task points at none: the one that starts before the key is stopped.) *)
NoOtherTask ==
    [][frame # None =>
       /\ \A t \in asked' \ asked : frame \in {<<"detail", t>>, RowKey(t)}
       /\ \A t \in dismissed' \ dismissed : frame = <<"done", t>>]_vars
==============================================================================
