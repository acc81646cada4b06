---- MODULE PromptJourney ----
(***************************************************************************)
(* What the daemon promises a phone about one prompt it accepted, whatever *)
(* becomes of the pane it is for: the outcome only ever moves forward,     *)
(* from sent, through queued, to one of the three settled outcomes, and    *)
(* leaves a settled one only when the prompt is forgotten or the same      *)
(* prompt is put in an inbox again.  One that is only sent may be          *)
(* forgotten too, but never one that is queued.  The daemon's restart      *)
(* forgets all.                                                            *)
(***************************************************************************)
CONSTANT Id

VARIABLE status

Settled == {"taken", "refused", "lost"}

Status == {"unknown", "sent", "queued"} \cup Settled

(* The outcomes that may follow s in one step, for one prompt. *)
Follows(s) ==
  CASE s = "unknown" -> {"unknown", "sent"}
    [] s = "sent"    -> Status
    [] s = "queued"  -> {"queued", "sent"} \cup Settled
    [] OTHER         -> {s, "unknown", "sent"}

TypeOK == status \in [Id -> Status]

Init == status = [i \in Id |-> "unknown"]

(* One step of the daemon may move several prompts, each of them forward. *)
Move ==
  /\ status' \in [Id -> Status]
  /\ \A i \in Id : status'[i] \in Follows(status[i])

(* A restarted daemon knows of none. *)
Forget == status' = [i \in Id |-> "unknown"]

Spec == Init /\ [][Move \/ Forget]_status
====
