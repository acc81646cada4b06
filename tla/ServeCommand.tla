---- MODULE ServeCommand ----
(***************************************************************************)
(* A tailscale command as /remote-control runs it (ext/remote/tailscale.ts *)
(* runWith, enablePrompt): its output is read as it arrives, cut anywhere, *)
(* and the link it prints where a feature is off ends it at once, as it    *)
(* would wait for the user to follow the link.                             *)
(*                                                                         *)
(* The command prints the line and the link on one of its pipes.           *)
(***************************************************************************)
EXTENDS Naturals, Sequences, SequencesExt

CONSTANTS
  Texts,         \* what the command may print, piece by piece: "line", "link", "more", "space", "other"
  None

VARIABLES
  text,       \* what it prints, all of it
  printed,    \* how much of it it has printed
  heard,      \* how much of that was read
  child,      \* "runs", "waits" for the user, "exits" with what it printed unread, "gone"
  code,       \* its exit code
  killed,     \* it was sent SIGTERM
  timer,      \* the ten seconds still run
  settled,    \* what the call came to: None, "ok", "failed", "timeout", or the link told
  calls       \* history: how often it was settled

vars == <<text, printed, heard, child, code, killed, timer, settled, calls>>

(* The link has two parts, which a read may come between. *)
Asks(t) == "line" \in ToSet(t) /\ "link" \in ToSet(t)
LinkAt(t) == SelectInSeq(t, LAMBDA p : p = "link")

Init ==
  /\ text \in Texts /\ printed = 0 /\ heard = 0
  /\ child = "runs" /\ code = None /\ killed = FALSE /\ timer = TRUE
  /\ settled = None /\ calls = 0

(* enablePrompt: the link counts once whitespace follows it. *)
EnablePrompt(t) ==
  IF ~Asks(t) THEN None
  ELSE LET after == SubSeq(t, LinkAt(t) + 1, Len(t)) IN
       IF after # <<>> /\ after[1] = "space" THEN "cut"
       ELSE IF Len(after) > 1 /\ after[1] = "more" /\ after[2] = "space" THEN "whole"
       ELSE None

(* Each promise settles once: what comes later changes nothing. *)
SettledAs(result) ==
  /\ settled' = IF settled = None THEN result ELSE settled
  /\ calls' = IF settled = None THEN calls + 1 ELSE calls

Prints ==
  /\ child = "runs" /\ printed < Len(text)
  /\ printed' = printed + 1
  /\ UNCHANGED <<text, heard, child, code, killed, timer, settled, calls>>

(* All printed, it waits for the user, or exits. *)
Waits ==
  /\ child = "runs" /\ printed = Len(text) /\ Asks(text)
  /\ child' = "waits"
  /\ UNCHANGED <<text, printed, heard, code, killed, timer, settled, calls>>

Exits ==
  /\ child \in {"runs", "waits"}
  /\ \/ killed /\ code' = "signal"
     \/ printed = Len(text) /\ code' = IF Asks(text) THEN "one" ELSE "zero"
     \/ code' = "one"
  /\ child' = "exits"
  /\ UNCHANGED <<text, printed, heard, killed, timer, settled, calls>>

(* No such program: its end frees the timer, and run tries the next one.   *)
SpawnFails ==
  /\ child = "runs" /\ printed = 0
  /\ child' = "gone" /\ timer' = FALSE
  /\ SettledAs("failed")
  /\ UNCHANGED <<text, printed, heard, code, killed>>

(* A chunk is read: as much of what was printed as there is, or less. *)
Reads(upTo) ==
  /\ upTo \in heard + 1 .. printed
  /\ heard' = upTo
  /\ LET told == IF settled = None THEN EnablePrompt(SubSeq(text, 1, upTo)) ELSE None IN
     IF told # None THEN SettledAs(told) /\ killed' = TRUE
     ELSE UNCHANGED <<settled, calls, killed>>
  /\ UNCHANGED <<text, printed, child, code, timer>>

(* close, once both pipes are read: the link may be the last of it. *)
Closes ==
  /\ child = "exits" /\ heard = printed
  /\ child' = "gone" /\ timer' = FALSE
  /\ LET told == EnablePrompt(Append(SubSeq(text, 1, heard), "space")) IN
     SettledAs(IF code = "zero" THEN "ok"
               ELSE IF told # None THEN told
               ELSE IF killed /\ ~timer THEN "timeout" ELSE "failed")
  /\ UNCHANGED <<text, printed, heard, code, killed>>

TimesOut ==
  /\ timer /\ child # "gone"
  /\ timer' = FALSE /\ killed' = TRUE
  /\ UNCHANGED <<text, printed, heard, child, code, settled, calls>>

Next ==
  Prints \/ Waits \/ Exits \/ SpawnFails \/ Closes \/ TimesOut \/ \E upTo \in 1..Len(text) : Reads(upTo)

(* The timer ends, a command that is hung up ends, and its output is read. *)
Fairness ==
  /\ WF_vars(TimesOut) /\ WF_vars(killed /\ Exits) /\ WF_vars(Closes)
  /\ WF_vars(\E upTo \in 1..Len(text) : Reads(upTo))

Spec == Init /\ [][Next]_vars /\ Fairness

---------------------------------------------------------------------------
(* Properties *)

(* The link the user is told is the one the command printed, however its   *)
(* output was cut into reads (enablePrompt: "until then, its next read may *)
(* carry more of it"), and a command that printed all of it and failed     *)
(* tells it.                                                               *)
LinkTold ==
  /\ settled = "cut" =>
       printed = LinkAt(text) \/ LinkAt(text) = Len(text) \/ text[LinkAt(text) + 1] # "more"
  /\ settled = "failed" => ~Asks(SubSeq(text, 1, printed))

(* Each command comes to an end, one that waits for the user too. *)
Ends == <>(child = "gone" /\ settled # None)
====
