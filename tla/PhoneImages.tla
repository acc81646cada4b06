---- MODULE PhoneImages ----
(***************************************************************************)
(* The photos of a phone's reply box (daemon/remote/web/app.js: attach,    *)
(* send, putBack): picked, read and made small, several picks at once,     *)
(* sent with a prompt, and back with one that did not reach its session.   *)
(* The photos of a pick are read in any order, and all that is picked are  *)
(* photos.  The chat stays open.                                           *)
(***************************************************************************)
EXTENDS Naturals, FiniteSets

CONSTANTS
  Photo,
  ATTACH_MAX,
  PromptBound    \* bound: prompts sent

VARIABLES
  album,      \* the photos not picked
  reading,    \* those picked and still being read
  box,        \* those attached
  sent,       \* those of each prompt on its way
  named,      \* those the error named
  lost,       \* history: those neither attached nor named once read
  left        \* history: those of a prompt that came back without them

vars == <<album, reading, box, sent, named, lost, left>>

Init ==
  /\ album = Photo /\ reading = {} /\ box = {} /\ named = {} /\ lost = {} /\ left = {}
  /\ sent = <<>>

(* The button is off while the box and those being read fill it; room is   *)
(* what the box has.                                                       *)
Picks(files) ==
  /\ files # {} /\ files \subseteq album \cup named
  /\ Cardinality(box) + Cardinality(reading) < ATTACH_MAX
  /\ \E picked \in SUBSET files :
       /\ Cardinality(picked) = IF Cardinality(files) < ATTACH_MAX - Cardinality(box)
                                THEN Cardinality(files) ELSE ATTACH_MAX - Cardinality(box)
       /\ reading' = reading \cup picked
       /\ named' = (named \ files) \cup (files \ picked)
  /\ album' = album \ files
  /\ UNCHANGED <<box, sent, lost, left>>

(* A photo is read; another pick may have filled the box meanwhile. *)
Reads(p) ==
  /\ p \in reading
  /\ reading' = reading \ {p}
  /\ IF Cardinality(box) < ATTACH_MAX THEN box' = box \cup {p} /\ UNCHANGED lost
     ELSE lost' = lost \cup {p} /\ UNCHANGED box
  /\ UNCHANGED <<album, sent, named, left>>

(* It cannot be read, or is too large. *)
Unreadable(p) ==
  /\ p \in reading
  /\ reading' = reading \ {p} /\ named' = named \cup {p}
  /\ UNCHANGED <<album, box, sent, lost, left>>

(* Its remove button. *)
Removes(p) ==
  /\ p \in box
  /\ box' = box \ {p} /\ album' = album \cup {p}
  /\ UNCHANGED <<reading, sent, named, lost, left>>

(* send waits for none, and goes only once all are read. *)
Sends ==
  /\ reading = {} /\ Cardinality(DOMAIN sent) < PromptBound
  /\ sent' = [k \in DOMAIN sent \cup {Cardinality(DOMAIN sent) + 1} |-> IF k \in DOMAIN sent THEN sent[k] ELSE box]
  /\ box' = {}
  /\ UNCHANGED <<album, reading, named, lost, left>>

(* pi has it: the daemon took it, with no more photos than it takes, and   *)
(* so did its pane.                                                        *)
Taken(k) ==
  /\ k \in DOMAIN sent /\ Cardinality(sent[k]) <= ATTACH_MAX
  /\ sent' = [sent EXCEPT ![k] = {}] /\ album' = album \cup sent[k]
  /\ UNCHANGED <<reading, box, named, lost, left>>

(* Not sent, refused or lost, it is back in the box; its photos, if none   *)
(* were attached since.                                                    *)
PutBack(k) ==
  /\ k \in DOMAIN sent /\ sent[k] # {}
  /\ IF box = {} THEN box' = sent[k] /\ UNCHANGED left ELSE left' = left \cup sent[k] /\ UNCHANGED box
  /\ sent' = [sent EXCEPT ![k] = {}]
  /\ UNCHANGED <<album, reading, named, lost>>

Next ==
  \/ \E files \in SUBSET Photo : Picks(files)
  \/ \E p \in Photo : Reads(p) \/ Unreadable(p) \/ Removes(p)
  \/ Sends \/ \E k \in DOMAIN sent : Taken(k) \/ PutBack(k)

Spec == Init /\ [][Next]_vars

---------------------------------------------------------------------------
(* Properties *)

(* No more photos are attached, or sent, than the daemon takes with a      *)
(* prompt, whichever picks are read at once and whatever comes back        *)
(* meanwhile: it would refuse the prompt for them (http.ts imagesIn).      *)
FewEnough ==
  /\ Cardinality(box) <= ATTACH_MAX
  /\ \A k \in DOMAIN sent : Cardinality(sent[k]) <= ATTACH_MAX
====
