---- MODULE PanePathProofs ----
(***************************************************************************)
(* What Delivery promises for every set of prompts, rows and panes and     *)
(* every bound on the inboxes: its types, that no unsettled prompt is out  *)
(* of reach of every report and end (Answerable), and that it implements   *)
(* PromptJourney.  Then what PanePath promises for every set of prompts    *)
(* and session files and every bound: that it implements the delivery, and *)
(* with it all of that, that pi is handed a prompt once and in the session *)
(* it was sent for (HandedRight), and that it does not start what the      *)
(* phone was told is refused or lost (GivenUpStaysUp).                     *)
(***************************************************************************)
EXTENDS PanePath, SequenceTheorems, FiniteSetTheorems, TLAPS

---------------------------------------------------------------------------
(* The delivery by itself *)


(* These only name what an operation leaves of a variable: every proof     *)
(* about the operation opens them.                                         *)
USE DEF AfterQueue, AfterTake, AfterReport, AfterEnded, AfterSilent, Emptied

(* Letting old prompts go leaves records of deliveries. *)
LEMMA PrunedType ==
  ASSUME NEW ps \in [Id -> DeliveryRecord]
  PROVE  Pruned(ps) \in [Id -> DeliveryRecord]
BY DEF Pruned, DeliveryRecord, NoDelivery

(* So does settling the prompts of a pane that went. *)
LEMMA SettledByType ==
  ASSUME NEW ps \in [Id -> DeliveryRecord], NEW r \in Row, NEW S, NEW reason
  PROVE  SettledBy(ps, r, S, reason) \in [Id -> DeliveryRecord]
BY DEF SettledBy, DeliveryRecord, Settled

(* Every operation of the delivery keeps both variables in their types. *)
LEMMA TypeStep ==
  ASSUME TypeOK, [DNext]_dvars
  PROVE  TypeOK'
<1> USE DEF TypeOK
<1>1. ASSUME NEW r \in Row, NEW m \in Message, Queue(r, m) PROVE TypeOK'
  <2>1. Pruned(prompts) \in [Id -> DeliveryRecord]
    BY PrunedType
  <2>2. prompts' \in [Id -> DeliveryRecord]
    BY <1>1, <2>1 DEF Queue, DeliveryRecord, Unsettled
  <2>3. inboxes' \in [Row -> Seq(Message)]
    BY <1>1 DEF Queue
  <2> QED BY <2>2, <2>3
<1>2. ASSUME NEW r \in Row, NEW p \in Pane, Take(r, p) PROVE TypeOK'
  <2>1. prompts' \in [Id -> DeliveryRecord]
    BY <1>2 DEF Take, DeliveryRecord
  <2>2. inboxes' \in [Row -> Seq(Message)]
    BY <1>2 DEF Take
  <2> QED BY <2>1, <2>2
<1>3. ASSUME NEW r \in Row, Reports(r)
      PROVE  TypeOK'
  <2>1. PICK os \in ReportedOutcomes : Reported(r, os)
    BY <1>3 DEF Reports
  <2> QED BY <2>1 DEF Reported, ReportedOutcomes, DeliveryRecord, Reportable, Unsettled
<1>4. ASSUME NEW r \in Row, NEW p \in Pane, NEW reason \in EndReason, NEW b \in BOOLEAN,
             Ended(r, p, reason, b)
      PROVE  TypeOK'
  BY <1>4, SettledByType DEF Ended
<1>5. ASSUME NEW r \in Row, Silent(r) PROVE TypeOK'
  BY <1>5, SettledByType DEF Silent
<1>6. ASSUME Ask PROVE TypeOK'
  BY <1>6, PrunedType DEF Ask
<1>7. ASSUME NEW i \in Id, Age(i) PROVE TypeOK'
  BY <1>7 DEF Age, DeliveryRecord
<1>8. CASE Restart
  BY <1>8 DEF Restart, DeliveryRecord, NoDelivery
<1>9. CASE UNCHANGED dvars
  BY <1>9 DEF dvars
<1> QED BY <1>1, <1>2, <1>3, <1>4, <1>5, <1>6, <1>7, <1>8, <1>9 DEF DNext

(* prompts and inboxes keep their types, whoever calls the delivery and in *)
(* whatever order.                                                         *)
THEOREM TypeCorrect == DSpec => []TypeOK
<1>1. DInit => TypeOK
  BY DEF DInit, TypeOK, DeliveryRecord, NoDelivery
<1> QED BY <1>1, TypeStep, PTL DEF DSpec

(* A message already in an inbox stays in it when another is put behind    *)
(* it, and the new one is in it too.                                       *)
LEMMA AppendKeeps ==
  ASSUME TypeOK, NEW r \in Row, NEW m \in Message, Queue(r, m)
  PROVE  /\ \A i, q : InInbox(inboxes, i, q) /\ q \in Row => InInbox(inboxes, i, q)'
         /\ InInbox(inboxes, m, r)'
<1>1. inboxes' = [inboxes EXCEPT ![r] = Append(inboxes[r], m)]
  BY DEF Queue
<1>2. inboxes[r] \in Seq(Message) /\ inboxes'[r] = Append(inboxes[r], m)
  BY <1>1 DEF TypeOK
<1>3. Len(inboxes'[r]) = Len(inboxes[r]) + 1 /\ Len(inboxes[r]) \in Nat
  BY <1>2
<1>4. \A k \in 1..Len(inboxes[r]) : inboxes'[r][k] = inboxes[r][k]
  BY <1>2
<1>5. inboxes'[r][Len(inboxes[r]) + 1] = m
  BY <1>2
<1>6. InInbox(inboxes, m, r)'
  BY <1>3, <1>5 DEF InInbox
<1>7. ASSUME NEW i, NEW q \in Row, InInbox(inboxes, i, q) PROVE InInbox(inboxes, i, q)'
  <2>1. CASE q = r
    BY <1>3, <1>4, <1>7, <2>1 DEF InInbox
  <2>2. CASE q # r
    <3>1. inboxes'[q] = inboxes[q]
      BY <1>1, <2>2 DEF TypeOK
    <3> QED BY <1>7, <3>1 DEF InInbox
  <2> QED BY <2>1, <2>2
<1> QED BY <1>6, <1>7

(* Emptying row r's inbox leaves the others as they were. *)
LEMMA EmptiedKeepsOthers ==
  ASSUME TypeOK, NEW r \in Row, inboxes' = [inboxes EXCEPT ![r] = <<>>]
  PROVE  \A i, q : InInbox(inboxes, i, q) /\ q \in Row /\ q # r => InInbox(inboxes, i, q)'
BY DEF TypeOK, InInbox

(* A prompt left unsettled by an operation was either not touched by it,   *)
(* and then what held it still does, or was just put in an inbox or given  *)
(* to a pane: ended and silent settle all they empty the inbox of.         *)
LEMMA AnswerableStep ==
  ASSUME TypeOK, Answerable, [DNext]_dvars
  PROVE  Answerable'
<1> USE DEF TypeOK
<1> DEFINE Goal(i) == /\ prompts'[i].row \in Row
                      /\ InInbox(inboxes, i, prompts[i].row)' \/ prompts'[i].pane \in Pane
<1>a. ASSUME NEW i \in Id, Open(prompts[i])
      PROVE  /\ prompts[i].row \in Row
             /\ InInbox(inboxes, i, prompts[i].row) \/ prompts[i].pane \in Pane
  BY <1>a DEF Answerable
<1>b. SUFFICES ASSUME NEW i \in Id, Open(prompts'[i]) PROVE Goal(i)
  BY DEF Answerable, Open
<1>1. ASSUME NEW r \in Row, NEW m \in Message, Queue(r, m) PROVE Goal(i)
  <2>1. CASE i = m
    <3>1. prompts'[i].row = r
      BY <1>1, <2>1 DEF Queue
    <3> QED BY <1>1, <2>1, <3>1, AppendKeeps DEF InInbox
  <2>2. CASE i # m
    <3>1. prompts'[i] = prompts[i]
      BY <1>1, <1>b, <2>2 DEF Queue, Pruned, NoDelivery, Open, Unsettled
    <3>2. CASE InInbox(inboxes, i, prompts[i].row)
      <4>1. PICK q \in Row : q = prompts[i].row
        BY <1>a, <1>b, <3>1
      <4>2. InInbox(inboxes, i, q)'
        BY <1>1, <3>2, <4>1, AppendKeeps
      <4> QED BY <3>1, <4>1, <4>2 DEF InInbox
    <3>3. CASE ~InInbox(inboxes, i, prompts[i].row)
      BY <1>a, <1>b, <3>1, <3>3
    <3> QED BY <3>2, <3>3
  <2> QED BY <2>1, <2>2
<1>2. ASSUME NEW r \in Row, NEW p \in Pane, Take(r, p) PROVE Goal(i)
  <2>0. /\ prompts'[i].outcome = prompts[i].outcome
        /\ prompts'[i].row = prompts[i].row
    BY <1>2, <1>b DEF Take, DeliveryRecord
  <2>1. Open(prompts[i]) /\ prompts[i].outcome # "unknown"
    BY <1>b, <2>0 DEF Open, Unsettled
  <2>2. CASE InInbox(inboxes, i, r)
    BY <1>2, <1>a, <2>0, <2>1, <2>2 DEF Take, DeliveryRecord
  <2>3. CASE ~InInbox(inboxes, i, r)
    <3>1. prompts'[i] = prompts[i]
      BY <1>2, <2>3 DEF Take
    <3>2. CASE InInbox(inboxes, i, prompts[i].row)
      <4>1. prompts[i].row \in Row /\ prompts[i].row # r
        BY <1>a, <2>1, <2>3, <3>2
      <4>2. inboxes'[prompts[i].row] = inboxes[prompts[i].row]
        BY <1>2, <4>1 DEF Take
      <4> QED BY <1>a, <2>1, <3>1, <3>2, <4>2 DEF InInbox
    <3>3. CASE ~InInbox(inboxes, i, prompts[i].row)
      BY <1>a, <2>1, <3>1, <3>3
    <3> QED BY <3>2, <3>3
  <2> QED BY <2>2, <2>3
<1>3. ASSUME NEW r \in Row, Reports(r)
      PROVE  Goal(i)
  <2>0. PICK os \in ReportedOutcomes : Reported(r, os)
    BY <1>3 DEF Reports
  <2>1. /\ Open(prompts[i])
        /\ prompts'[i].row = prompts[i].row
        /\ prompts'[i].pane = prompts[i].pane
    BY <2>0, <1>b DEF Reported, DeliveryRecord
  <2> QED BY <2>0, <1>a, <2>1 DEF Reported, InInbox
<1>4. ASSUME NEW r \in Row, NEW S, NEW reason, NEW b \in BOOLEAN,
             prompts' = SettledBy(prompts, r, S, reason),
             b => InboxIds(inboxes, r) \subseteq S,
             inboxes' = IF b THEN [inboxes EXCEPT ![r] = <<>>] ELSE inboxes
      PROVE  Goal(i)
  <2>1. prompts'[i] = prompts[i] /\ Open(prompts[i])
    BY <1>4, <1>b DEF SettledBy, Open, Unsettled
  <2>2. ~(prompts[i].row = r /\ i \in S)
    BY <1>4, <1>b, <2>1 DEF SettledBy, Open, Unsettled
  <2>3. CASE InInbox(inboxes, i, prompts[i].row)
    <3>1. b => prompts[i].row # r
      BY <1>4, <2>2, <2>3 DEF InboxIds
    <3>2. inboxes'[prompts[i].row] = inboxes[prompts[i].row]
      BY <1>4, <1>a, <2>1, <3>1
    <3> QED BY <1>a, <2>1, <2>3, <3>2 DEF InInbox
  <2>4. CASE ~InInbox(inboxes, i, prompts[i].row)
    BY <1>a, <2>1, <2>4
  <2> QED BY <2>3, <2>4
<1>5. ASSUME NEW r \in Row, NEW p \in Pane, NEW reason \in EndReason, NEW b \in BOOLEAN,
             Ended(r, p, reason, b)
      PROVE  Goal(i)
  <2> DEFINE S == (IF b THEN InboxIds(inboxes, r) ELSE {}) \cup GivenTo(prompts, p)
  <2>1. b => InboxIds(inboxes, r) \subseteq S
    OBVIOUS
  <2> QED BY <1>4, <1>5, <2>1 DEF Ended
<1>6. ASSUME NEW r \in Row, Silent(r) PROVE Goal(i)
  BY <1>4, <1>6 DEF Silent
<1>7. ASSUME Ask PROVE Goal(i)
  <2>1. prompts'[i] = prompts[i]
    BY <1>7, <1>b DEF Ask, Pruned, NoDelivery, Open, Unsettled
  <2> QED BY <1>7, <1>a, <1>b, <2>1 DEF Ask, InInbox
<1>8. ASSUME NEW j \in Id, Age(j) PROVE Goal(i)
  <2>1. /\ Open(prompts[i])
        /\ prompts'[i].row = prompts[i].row
        /\ prompts'[i].pane = prompts[i].pane
    BY <1>8, <1>b DEF Age, DeliveryRecord, Open
  <2> QED BY <1>8, <1>a, <2>1 DEF Age, InInbox
<1>9. CASE Restart
  BY <1>9, <1>b DEF Restart, NoDelivery, Open, Unsettled
<1>10. CASE UNCHANGED dvars
  BY <1>10, <1>a, <1>b DEF dvars, InInbox
<1> QED BY <1>1, <1>2, <1>3, <1>5, <1>6, <1>7, <1>8, <1>9, <1>10 DEF DNext

(* No unsettled prompt is left that neither an inbox holds nor a pane was  *)
(* given.                                                                  *)
THEOREM AlwaysAnswerable == DSpec => []Answerable
<1>1. DInit => Answerable
  BY DEF DInit, Answerable, NoDelivery, Open, Unsettled
<1> QED BY <1>1, TypeCorrect, AnswerableStep, PTL DEF DSpec

(* A pane's end leaves nothing of its row unsettled that it had taken or   *)
(* that waited for it.                                                     *)
THEOREM EndsSettle == DSpec => EndSettlesAll
<1> DEFINE A == \A r \in Row, p \in Pane, reason \in EndReason :
                  Ended(r, p, reason, TRUE) =>
                    \A i \in Id : prompts'[i].row = r /\ Open(prompts'[i]) =>
                      prompts'[i].pane \notin {p, None}
<1>1. TypeOK /\ Answerable => A
  <2> SUFFICES ASSUME TypeOK, Answerable,
                      NEW r \in Row, NEW p \in Pane, NEW reason \in EndReason,
                      Ended(r, p, reason, TRUE),
                      NEW i \in Id, prompts'[i].row = r, Open(prompts'[i])
               PROVE  prompts'[i].pane \notin {p, None}
    OBVIOUS
  <2>1. prompts'[i] = prompts[i] /\ i \notin InboxIds(inboxes, r) \cup GivenTo(prompts, p)
    BY DEF Ended, SettledBy, Open, Unsettled
  <2>2. prompts[i].pane \in Pane
    BY <2>1 DEF Answerable, InboxIds
  <2>3. prompts[i].pane # p
    BY <2>1 DEF GivenTo
  <2> QED BY <2>1, <2>2, <2>3, NoneAssumption
<1> QED BY <1>1, TypeCorrect, AlwaysAnswerable, PTL DEF EndSettlesAll

(* Every operation moves each prompt's outcome forward, or not at all, and *)
(* a restart forgets them all.                                             *)
LEMMA JourneyStep ==
  ASSUME TypeOK, [DNext]_dvars
  PROVE  [Journey!Move \/ Journey!Forget]_[i \in Id |-> prompts[i].outcome]
<1> USE DEF TypeOK
<1>r. CASE Restart
  BY <1>r DEF Restart, NoDelivery, Journey!Forget
<1>m. CASE ~Restart
  <2> DEFINE status == [i \in Id |-> prompts[i].outcome]
  <2>0. status' = [i \in Id |-> prompts'[i].outcome]
    OBVIOUS
  <2>t. prompts' \in [Id -> DeliveryRecord]
    BY TypeStep
  <2>s. SUFFICES ASSUME NEW i \in Id
                 PROVE  prompts'[i].outcome \in Journey!Follows(prompts[i].outcome)
    <3>1. status' \in [Id -> Journey!Status]
      BY <2>0, <2>t DEF DeliveryRecord, Unsettled, Settled, Journey!Status, Journey!Settled
    <3> QED BY <2>s, <3>1, <2>0 DEF Journey!Move
  <2> DEFINE Goal == prompts'[i].outcome \in Journey!Follows(prompts[i].outcome)
  <2> USE DEF Journey!Follows, Journey!Status, Journey!Settled
  <2>o. prompts[i].outcome \in Journey!Status
    BY DEF DeliveryRecord, Unsettled, Settled
  <2>p. \A ps : ps[i] = prompts[i] => Pruned(ps)[i].outcome \in Journey!Follows(prompts[i].outcome)
    BY <2>o DEF Pruned, NoDelivery
  <2>1. ASSUME NEW r \in Row, NEW m \in Message, Queue(r, m) PROVE Goal
    <3>1. CASE i = m
      BY <2>1, <2>o, <3>1 DEF Queue
    <3>2. CASE i # m
      BY <2>1, <2>p, <3>2 DEF Queue
    <3> QED BY <3>1, <3>2
  <2>2. ASSUME NEW r \in Row, NEW p \in Pane, Take(r, p) PROVE Goal
    BY <2>2, <2>o DEF Take, DeliveryRecord
  <2>3. ASSUME NEW r \in Row, Reports(r)
        PROVE  Goal
    <3>1. PICK os \in ReportedOutcomes : Reported(r, os)
      BY <2>3 DEF Reports
    <3> QED BY <3>1, <2>o DEF Reported, ReportedOutcomes, Reportable, Settled, Open, Unsettled
  <2>4. ASSUME NEW r, NEW S, NEW reason, prompts' = SettledBy(prompts, r, S, reason)
        PROVE  Goal
    BY <2>4, <2>o DEF SettledBy, Open, Unsettled
  <2>5. ASSUME NEW r \in Row, NEW p \in Pane, NEW reason \in EndReason, NEW b \in BOOLEAN,
               Ended(r, p, reason, b)
        PROVE  Goal
    BY <2>4, <2>5 DEF Ended
  <2>6. ASSUME NEW r \in Row, Silent(r) PROVE Goal
    BY <2>4, <2>6 DEF Silent
  <2>7. ASSUME Ask PROVE Goal
    BY <2>7, <2>p DEF Ask
  <2>8. ASSUME NEW j \in Id, Age(j) PROVE Goal
    BY <2>8, <2>o DEF Age, DeliveryRecord
  <2>9. CASE UNCHANGED dvars
    BY <2>9, <2>o DEF dvars
  <2> QED BY <1>m, <2>1, <2>2, <2>3, <2>5, <2>6, <2>7, <2>8, <2>9 DEF DNext
<1> QED BY <1>r, <1>m

(* The delivery implements PromptJourney. *)
THEOREM ImplementsJourney == DSpec => JourneySpec
<1>1. DInit => Journey!Init
  BY DEF DInit, Journey!Init, NoDelivery
<1> QED BY <1>1, TypeCorrect, JourneyStep, PTL DEF DSpec, JourneySpec, Journey!Spec

---------------------------------------------------------------------------
(* The path *)

(* These only group variables: every proof about an action opens them.     *)
USE DEF daemonVars, phoneVars, sessionVars, piVars, trackerVars, boxes, Emptied

---------------------------------------------------------------------------
(* Sequences of messages, and of replies *)

In(q, i) == \E k \in DOMAIN q : q[k] = i

Held(rs, i) == \E k \in DOMAIN rs : In(rs[k], i)

NoRepeat(q) == \A k, l \in DOMAIN q : q[k] = q[l] => k = l

NoneTwice(rs) ==
  \A k, l \in DOMAIN rs : \A m \in DOMAIN rs[k], n \in DOMAIN rs[l] :
    rs[k][m] = rs[l][n] => k = l /\ m = n

(* A sequence with one element more. *)
LEMMA Appended ==
  ASSUME NEW S, NEW s \in Seq(S), NEW e \in S
  PROVE  /\ Append(s, e) \in Seq(S)
         /\ DOMAIN Append(s, e) = DOMAIN s \cup {Len(s) + 1} /\ Len(s) + 1 \notin DOMAIN s
         /\ Append(s, e)[Len(s) + 1] = e
         /\ \A k \in DOMAIN s : Append(s, e)[k] = s[k]
<1>1. /\ Append(s, e) \in Seq(S) /\ Len(Append(s, e)) = Len(s) + 1
      /\ \A i \in 1..Len(s) : Append(s, e)[i] = s[i]
      /\ Append(s, e)[Len(s) + 1] = e
  BY AppendProperties
<1>2. DOMAIN s = 1..Len(s) /\ Len(s) \in Nat /\ DOMAIN Append(s, e) = 1..(Len(s) + 1)
  BY <1>1
<1> QED BY <1>1, <1>2

(* A message put behind others it is not one of. *)
LEMMA AppendedMessage ==
  ASSUME NEW q \in Seq(Id), NEW m \in Id
  PROVE  /\ Append(q, m) \in Seq(Id)
         /\ NoRepeat(q) /\ ~In(q, m) => NoRepeat(Append(q, m))
         /\ \A i : In(Append(q, m), i) => In(q, i) \/ i = m
<1>1. /\ Append(q, m) \in Seq(Id)
      /\ DOMAIN Append(q, m) = DOMAIN q \cup {Len(q) + 1} /\ Len(q) + 1 \notin DOMAIN q
      /\ Append(q, m)[Len(q) + 1] = m
      /\ \A k \in DOMAIN q : Append(q, m)[k] = q[k]
  BY Appended
<1> DEFINE a == Append(q, m)
           l == Len(q) + 1
           D == DOMAIN q
<1>2. DOMAIN a = D \cup {l} /\ l \notin D /\ a[l] = m /\ \A k \in D : a[k] = q[k]
  BY <1>1
<1> HIDE DEF a, l
<1>3. ASSUME NoRepeat(q), ~In(q, m) PROVE NoRepeat(a)
  BY <1>2, <1>3 DEF NoRepeat, In
<1>4. \A i : In(a, i) => In(q, i) \/ i = m
  BY <1>2 DEF In
<1> QED BY <1>1, <1>3, <1>4 DEF a

(* A reply more, of prompts no other holds. *)
LEMMA AppendedReply ==
  ASSUME NEW rs \in Seq(Seq(Id)), NEW q \in Seq(Id), NoneTwice(rs), NoRepeat(q),
         \A i \in Id : ~(In(q, i) /\ Held(rs, i))
  PROVE  /\ Append(rs, q) \in Seq(Seq(Id))
         /\ NoneTwice(Append(rs, q))
         /\ \A i \in Id : Held(Append(rs, q), i) => Held(rs, i) \/ In(q, i)
<1> DEFINE a == Append(rs, q)
           e == Len(rs) + 1
           D == DOMAIN rs
<1>1. a \in Seq(Seq(Id)) /\ DOMAIN a = D \cup {e} /\ e \notin D /\ a[e] = q /\ \A k \in D : a[k] = rs[k]
  BY Appended
<1> HIDE DEF a, e
<1>2. ASSUME NEW k \in DOMAIN a, NEW l \in DOMAIN a, NEW m \in DOMAIN a[k], NEW n \in DOMAIN a[l],
             a[k][m] = a[l][n]
      PROVE  k = l /\ m = n
  <2>1. CASE k \in D /\ l \in D
    BY <1>1, <1>2, <2>1 DEF NoneTwice
  <2>2. CASE k = e /\ l = e
    BY <1>1, <1>2, <2>2 DEF NoRepeat
  <2>3. ASSUME NEW x \in D, NEW y \in DOMAIN rs[x], NEW z \in DOMAIN q, rs[x][y] = q[z]
        PROVE  FALSE
    <3>1. q[z] \in Id
      OBVIOUS
    <3>2. In(q, q[z]) /\ In(rs[x], q[z])
      BY <2>3 DEF In
    <3> QED BY <3>1, <3>2 DEF Held
  <2>4. CASE k \in D /\ l = e
    BY <1>1, <1>2, <2>3, <2>4
  <2>5. CASE k = e /\ l \in D
    BY <1>1, <1>2, <2>3, <2>5
  <2> QED BY <1>1, <2>1, <2>2, <2>4, <2>5
<1>3. NoneTwice(a)
  BY <1>2 DEF NoneTwice
<1>4. \A i \in Id : Held(a, i) => Held(rs, i) \/ In(q, i)
  BY <1>1 DEF Held
<1> QED BY <1>1, <1>3, <1>4 DEF a

(* What is left of a sequence without its k-th element. *)
LEMMA RemoveAtFacts ==
  ASSUME NEW S, NEW s \in Seq(S), NEW k \in DOMAIN s
  PROVE  /\ RemoveAt(s, k) \in Seq(S)
         /\ Len(RemoveAt(s, k)) = Len(s) - 1
         /\ \A m \in 1..(Len(s) - 1) :
              RemoveAt(s, k)[m] = s[IF m < k THEN m ELSE m + 1]
<1> DEFINE a == SubSeq(s, 1, k - 1)
           b == SubSeq(s, k + 1, Len(s))
<1>1. k \in 1..Len(s) /\ Len(s) \in Nat /\ \A i \in 1..Len(s) : s[i] \in S
  OBVIOUS
<1>2. a \in Seq(S) /\ Len(a) = k - 1 /\ \A i \in 1..(k - 1) : a[i] = s[i]
  <2>1. \A i \in 1..(k - 1) : s[i] \in S
    BY <1>1
  <2>2. /\ a \in Seq(S)
        /\ Len(a) = IF 1 <= k - 1 THEN (k - 1) - 1 + 1 ELSE 0
        /\ \A i \in 1..((k - 1) - 1 + 1) : a[i] = s[1 + i - 1]
    BY <1>1, <2>1, SubSeqProperties
  <2> HIDE DEF a
  <2>3. Len(a) = k - 1 /\ (k - 1) - 1 + 1 = k - 1 /\ \A i \in 1..(k - 1) : 1 + i - 1 = i
    BY <1>1, <2>2
  <2> QED BY <2>2, <2>3
<1>3. b \in Seq(S) /\ Len(b) = Len(s) - k /\ \A i \in 1..(Len(s) - k) : b[i] = s[k + i]
  <2>1. \A i \in (k + 1)..Len(s) : s[i] \in S
    BY <1>1
  <2>2. /\ b \in Seq(S)
        /\ Len(b) = IF k + 1 <= Len(s) THEN Len(s) - (k + 1) + 1 ELSE 0
        /\ \A i \in 1..(Len(s) - (k + 1) + 1) : b[i] = s[(k + 1) + i - 1]
    BY <1>1, <2>1, SubSeqProperties
  <2> HIDE DEF b
  <2>3. /\ Len(b) = Len(s) - k /\ Len(s) - (k + 1) + 1 = Len(s) - k
        /\ \A i \in 1..(Len(s) - k) : (k + 1) + i - 1 = k + i
    BY <1>1, <2>2
  <2> QED BY <2>2, <2>3
<1>4. RemoveAt(s, k) = a \o b
  BY DEF RemoveAt
<1> HIDE DEF a, b
<1>5. /\ a \o b \in Seq(S)
      /\ Len(a \o b) = Len(a) + Len(b)
      /\ \A i \in 1..(Len(a) + Len(b)) : (a \o b)[i] = IF i <= Len(a) THEN a[i] ELSE b[i - Len(a)]
  BY <1>2, <1>3, ConcatProperties
<1>6. Len(a) + Len(b) = Len(s) - 1
  BY <1>1, <1>2, <1>3
<1>7. ASSUME NEW m \in 1..(Len(s) - 1)
      PROVE  (a \o b)[m] = s[IF m < k THEN m ELSE m + 1]
  <2>0. (a \o b)[m] = IF m <= k - 1 THEN a[m] ELSE b[m - (k - 1)]
    BY <1>2, <1>5, <1>6
  <2>1. CASE m < k
    <3>1. m <= k - 1 /\ m \in 1..(k - 1)
      BY <1>1, <2>1
    <3> QED BY <1>2, <2>0, <2>1, <3>1
  <2>2. CASE ~(m < k)
    <3>1. ~(m <= k - 1) /\ m - (k - 1) \in 1..(Len(s) - k) /\ k + (m - (k - 1)) = m + 1
      BY <1>1, <2>2
    <3> QED BY <1>3, <2>0, <2>2, <3>1
  <2> QED BY <2>1, <2>2
<1> QED BY <1>4, <1>5, <1>6, <1>7

(* A reply fewer holds no prompt twice, and none it did not hold before. *)
LEMMA RemovedReply ==
  ASSUME NEW rs \in Seq(Seq(Id)), NEW k \in DOMAIN rs, NoneTwice(rs)
  PROVE  /\ NoneTwice(RemoveAt(rs, k))
         /\ \A i \in Id : Held(RemoveAt(rs, k), i) => Held(rs, i) /\ ~In(rs[k], i)
<1> DEFINE n(m) == IF m < k THEN m ELSE m + 1
           rm == RemoveAt(rs, k)
<1>1. /\ rm \in Seq(Seq(Id)) /\ Len(rm) = Len(rs) - 1
      /\ \A m \in 1..(Len(rs) - 1) : rm[m] = rs[n(m)]
  BY RemoveAtFacts
<1> HIDE DEF rm
<1>2. DOMAIN rm = 1..(Len(rs) - 1) /\ k \in 1..Len(rs) /\ Len(rs) \in Nat /\ DOMAIN rs = 1..Len(rs)
  BY <1>1
<1>3. /\ \A m \in DOMAIN rm : n(m) \in DOMAIN rs /\ rm[m] = rs[n(m)] /\ n(m) # k
      /\ \A m, l \in DOMAIN rm : n(m) = n(l) => m = l
  <2>1. \A m \in 1..(Len(rs) - 1) : n(m) \in 1..Len(rs) /\ n(m) # k
    BY <1>2
  <2>2. \A m, l \in 1..(Len(rs) - 1) : n(m) = n(l) => m = l
    BY <1>2
  <2> HIDE DEF n
  <2> QED BY <1>1, <1>2, <2>1, <2>2
<1> HIDE DEF n
<1>4. NoneTwice(rm)
  <2> SUFFICES ASSUME NEW m \in DOMAIN rm, NEW l \in DOMAIN rm, NEW x \in DOMAIN rm[m], NEW y \in DOMAIN rm[l],
                      rm[m][x] = rm[l][y]
               PROVE  m = l /\ x = y
    BY DEF NoneTwice
  <2>1. /\ n(m) \in DOMAIN rs /\ n(l) \in DOMAIN rs /\ rm[m] = rs[n(m)] /\ rm[l] = rs[n(l)]
    BY <1>3
  <2>2. n(m) = n(l) /\ x = y
    BY <2>1 DEF NoneTwice
  <2> QED BY <1>3, <2>2
<1>5. ASSUME NEW i \in Id, Held(rm, i) PROVE Held(rs, i) /\ ~In(rs[k], i)
  <2>0. PICK m \in DOMAIN rm : In(rm[m], i)
    BY <1>5 DEF Held
  <2>1. n(m) \in DOMAIN rs /\ In(rs[n(m)], i) /\ n(m) # k
    BY <1>3, <2>0
  <2>2. Held(rs, i)
    BY <2>1 DEF Held
  <2>3. ~In(rs[k], i)
    <3> SUFFICES ASSUME In(rs[k], i) PROVE FALSE
      OBVIOUS
    <3>1. PICK x \in DOMAIN rs[k] : rs[k][x] = i
      BY DEF In
    <3>2. PICK y \in DOMAIN rs[n(m)] : rs[n(m)][y] = i
      BY <2>1 DEF In
    <3> QED BY <2>1, <3>1, <3>2 DEF NoneTwice
  <2> QED BY <2>2, <2>3
<1> QED BY <1>4, <1>5 DEF rm

(* Nor do replies of which one is emptied or loses its first message. *)
LEMMA ShortenedReply ==
  ASSUME NEW rs \in Seq(Seq(Id)), NEW k \in DOMAIN rs, NoneTwice(rs), rs[k] # <<>>,
         NEW q, q \in {<<>>, Tail(rs[k])}
  PROVE  /\ [rs EXCEPT ![k] = q] \in Seq(Seq(Id))
         /\ NoneTwice([rs EXCEPT ![k] = q])
         /\ \A i \in Id : Held([rs EXCEPT ![k] = q], i) => Held(rs, i) /\ i # Head(rs[k])
<1> DEFINE rs2 == [rs EXCEPT ![k] = q]
           s == rs[k]
<1>0. s \in Seq(Id) /\ s # <<>>
  OBVIOUS
<1>1. /\ Tail(s) \in Seq(Id) /\ Len(Tail(s)) = Len(s) - 1
      /\ \A m \in 1..(Len(s) - 1) : Tail(s)[m] = s[m + 1]
      /\ Head(s) = s[1] /\ Len(s) \in Nat \ {0} /\ DOMAIN s = 1..Len(s)
  <2> HIDE DEF s
  <2> QED BY <1>0, HeadTailProperties, EmptySeq
<1>2. q \in Seq(Id) /\ \A m \in DOMAIN q : m + 1 \in DOMAIN s /\ m \in Nat \ {0} /\ q[m] = s[m + 1]
  <2> HIDE DEF s
  <2>1. CASE q = <<>>
    BY <2>1
  <2>2. CASE q = Tail(s)
    <3>1. DOMAIN q = 1..(Len(s) - 1)
      BY <1>1, <2>2
    <3> QED BY <1>1, <2>2, <3>1
  <2> QED BY <2>1, <2>2 DEF s
<1>3. /\ rs2 \in Seq(Seq(Id)) /\ DOMAIN rs2 = DOMAIN rs
      /\ rs2[k] = q /\ \A l \in DOMAIN rs : l # k => rs2[l] = rs[l]
  BY <1>2
<1> HIDE DEF rs2
<1>4. ASSUME NEW l \in DOMAIN rs, NEW m \in DOMAIN rs2[l]
      PROVE  /\ m \in Nat \ {0}
             /\ l = k => m + 1 \in DOMAIN rs[l] /\ rs2[l][m] = rs[l][m + 1]
             /\ l # k => m \in DOMAIN rs[l] /\ rs2[l][m] = rs[l][m]
  <2>1. CASE l = k
    BY <1>2, <1>3, <2>1
  <2>2. CASE l # k
    <3>1. rs2[l] = rs[l] /\ rs[l] \in Seq(Id)
      BY <1>3, <2>2
    <3>2. DOMAIN rs[l] = 1..Len(rs[l]) /\ Len(rs[l]) \in Nat
      BY <3>1
    <3> QED BY <2>2, <3>1, <3>2
  <2> QED BY <2>1, <2>2
<1>5. ASSUME NEW l \in DOMAIN rs, NEW m \in DOMAIN rs, NEW a \in DOMAIN rs2[l], NEW b \in DOMAIN rs2[m],
             rs2[l][a] = rs2[m][b]
      PROVE  l = m /\ a = b
  <2> DEFINE c == IF l = k THEN a + 1 ELSE a
             d == IF m = k THEN b + 1 ELSE b
  <2>1. c \in DOMAIN rs[l] /\ rs2[l][a] = rs[l][c] /\ a \in Nat
    BY <1>4
  <2>2. d \in DOMAIN rs[m] /\ rs2[m][b] = rs[m][d] /\ b \in Nat
    BY <1>4
  <2>3. l = m /\ c = d
    <3> HIDE DEF c, d
    <3>1. rs[l][c] = rs[m][d]
      BY <1>5, <2>1, <2>2
    <3> QED BY <2>1, <2>2, <3>1 DEF NoneTwice
  <2> QED BY <2>1, <2>2, <2>3
<1>6. ASSUME NEW i \in Id, Held(rs2, i) PROVE Held(rs, i) /\ i # Head(s)
  <2>0. PICK l \in DOMAIN rs : In(rs2[l], i)
    BY <1>3, <1>6 DEF Held
  <2>1. PICK m \in DOMAIN rs2[l] : rs2[l][m] = i
    BY <2>0 DEF In
  <2>2. PICK n \in DOMAIN rs[l] : rs[l][n] = i /\ (l = k => n = m + 1 /\ m \in Nat \ {0})
    BY <1>4, <2>1
  <2>3. 1 \in DOMAIN rs[k]
    BY <1>1
  <2>4. Held(rs, i)
    BY <2>2 DEF Held, In
  <2>5. i = rs[k][1] => l = k /\ n = 1
    BY <2>2, <2>3 DEF NoneTwice
  <2> QED BY <1>1, <2>2, <2>4, <2>5
<1>7. NoneTwice(rs2)
  BY <1>3, <1>5 DEF NoneTwice
<1> QED BY <1>3, <1>6, <1>7 DEF rs2

---------------------------------------------------------------------------
(* Types, and the delivery implemented *)

By == {"no", "started", "queued", "dropped"}

(* What waits in the row's inbox. *)
Box == inboxes[PaneRow]

(* The types of every variable the proofs speak of. *)
PathTyped ==
  /\ TypeOK
  /\ Box \in Seq(Id)
  /\ replies \in Seq(Seq(Id))
  /\ life \in Nat \ {0}
  /\ sentFor \in [Id -> File \cup {None}]
  /\ acceptedIn \in [Id -> 0..life]
  /\ file \in File \cup {None} /\ rowFile \in File \cup {None} /\ silentFile \in File \cup {None}
  /\ next \in File \cup {None}
  /\ given \in [Id -> [by : By, in : File \cup {None}]]
  /\ queuedIn \subseteq Id
  /\ settled \in ReportedOutcomes
  /\ outbox \in Seq(ReportedOutcomes) /\ oldbox \in Seq(ReportedOutcomes)

LEMMA InitTyped == Init => PathTyped
<1> SUFFICES ASSUME Init PROVE PathTyped
  OBVIOUS
<1>1. <<>> \in ReportedOutcomes
  <2>1. <<>> \in [{} -> Reportable]
    OBVIOUS
  <2> QED BY <2>1 DEF ReportedOutcomes
<1>2. TypeOK
  BY DEF Init, DInit, TypeOK, DeliveryRecord, NoDelivery
<1>3. Box = <<>>
  BY PathAssumption DEF Init, DInit, Box
<1> QED BY <1>1, <1>2, <1>3, PathAssumption DEF Init, PathTyped, Untouched, By

(* What settles prompts as one outcome adds outcomes a report may carry. *)
LEMMA SettledAsType ==
  ASSUME NEW S \in SUBSET Id, NEW o \in Reportable, NEW os \in ReportedOutcomes
  PROVE  SettledAs(S, o, os) \in ReportedOutcomes
<1>1. PICK T \in SUBSET Id : os \in [T -> Reportable]
  BY DEF ReportedOutcomes
<1>2. SettledAs(S, o, os) \in [S \cup T -> Reportable]
  BY <1>1 DEF SettledAs
<1> QED BY <1>2 DEF ReportedOutcomes

(* The pane's steps are the delivery's, or leave it alone. *)
LEMMA DeliveryStep ==
  ASSUME PathTyped, [Next]_vars
  PROVE  [DNext]_dvars
<1> USE PathAssumption
<1>1. ASSUME NEW i \in Id, PhoneSends(i) PROVE DNext
  BY <1>1 DEF PhoneSends, DNext, Message
<1>2. ASSUME NEW i \in Id, PhoneAsks(i) PROVE DNext
  BY <1>2 DEF PhoneAsks, DNext
<1>3. CASE Beat
  BY <1>3 DEF Beat, DNext, EndReason
<1>4. ASSUME NEW k \in DOMAIN replies, NEW queued, NEW answered, SendBack(k, queued, answered)
      PROVE  [DNext]_dvars
  <2>1. replies[k] \in Seq(Id) /\ replies[k] # <<>>
    BY <1>4 DEF SendBack, PathTyped
  <2>2. Head(replies[k]) \in Message
    BY <2>1, HeadTailProperties DEF Message
  <2> QED BY <1>4, <2>2 DEF SendBack, DNext
<1>5. ASSUME NEW report \in ReportedOutcomes, Sent(report) PROVE [DNext]_dvars
  BY <1>5 DEF Sent, DNext, Reports
<1>6. CASE ReportSent
  <2>1. Head(outbox) \in ReportedOutcomes
    BY <1>6, HeadTailProperties DEF ReportSent, PathTyped
  <2> QED BY <1>5, <1>6, <2>1 DEF ReportSent
<1>7. CASE OldReportSent
  <2>1. Head(oldbox) \in ReportedOutcomes
    BY <1>7, HeadTailProperties DEF OldReportSent, PathTyped
  <2> QED BY <1>5, <1>7, <2>1 DEF OldReportSent
<1>8. ASSUME NEW reason \in EndReason, Unregister(reason) PROVE DNext
  BY <1>8 DEF Unregister, DNext
<1>9. CASE Stopped
  BY <1>8, <1>9 DEF Stopped, EndReason
<1>10. CASE Goes
  BY <1>8, <1>10 DEF Goes, EndReason
<1>11. CASE FallsSilent
  BY <1>11 DEF FallsSilent, DNext
<1>12. CASE RowEnds \/ BeatElsewhere
  BY <1>12 DEF RowEnds, BeatElsewhere, DNext, EndReason
<1>13. CASE DaemonRestarts
  BY <1>13 DEF DaemonRestarts, DNext
<1>14. ASSUME NEW k, NEW refusing, ReplyArrives(k, refusing) PROVE UNCHANGED dvars
  BY <1>14 DEF ReplyArrives
<1>15. CASE WantReport \/ PiDrops \/ RunOver \/ LookLost \/ Dispose \/ DisposedOf \/ NextSession
  BY <1>15 DEF WantReport, PiDrops, RunOver, LookLost, Dispose, DisposedOf, NextSession
<1>16. ASSUME NEW k, ReplyLost(k) \/ ReplyDone(k) PROVE UNCHANGED dvars
  BY <1>16 DEF ReplyLost, ReplyDone
<1>17. ASSUME NEW i \in Id, PiStarts(i) PROVE UNCHANGED dvars
  BY <1>17 DEF PiStarts
<1>18. ASSUME NEW f, Shutdown(f) PROVE UNCHANGED dvars
  BY <1>18 DEF Shutdown
<1>19. CASE UNCHANGED vars
  BY <1>19 DEF vars, dvars
<1>20. ASSUME NEW i \in Id, Ages(i) PROVE DNext
  BY <1>20 DEF Ages, DNext
<1> QED BY <1>1, <1>2, <1>3, <1>4, <1>6, <1>7, <1>9, <1>10, <1>11, <1>12, <1>13, <1>14, <1>15,
           <1>16, <1>17, <1>18, <1>19, <1>20 DEF Next, Arrives, Resends, Finishes, Reaped, LetGo

(* What waits is added to at the end, or taken whole. *)
LEMMA QueueBox ==
  ASSUME PathTyped, NEW i \in Id, Queue(PaneRow, i)
  PROVE  Box' = Append(Box, i) /\ Box' \in Seq(Id)
<1>1. Box' = Append(Box, i)
  BY PathAssumption DEF PathTyped, TypeOK, Queue, Box
<1> QED BY <1>1, AppendedMessage DEF PathTyped

LEMMA EmptiedBox ==
  ASSUME PathTyped, inboxes' = Emptied(inboxes, PaneRow)
  PROVE  Box' = <<>>
BY PathAssumption DEF PathTyped, TypeOK, Box

(* A restart of the daemon leaves nothing waiting. *)
LEMMA RestartBox ==
  ASSUME Restart
  PROVE  Box' = <<>>
BY PathAssumption DEF Restart, Box

LEMMA TypedStep ==
  ASSUME PathTyped, [Next]_vars
  PROVE  PathTyped'
<1> USE PathAssumption
<1>t. TypeOK'
  BY DeliveryStep, TypeStep DEF PathTyped
<1>e. <<>> \in ReportedOutcomes
  <2>1. <<>> \in [{} -> Reportable]
    OBVIOUS
  <2> QED BY <2>1 DEF ReportedOutcomes
<1>q. /\ \A q \in Seq(Seq(Id)) : \A k \in DOMAIN q : RemoveAt(q, k) \in Seq(Seq(Id))
      /\ \A q \in Seq(ReportedOutcomes) : q # <<>> => Tail(q) \in Seq(ReportedOutcomes)
      /\ \A q \in Seq(ReportedOutcomes), os \in ReportedOutcomes : Append(q, os) \in Seq(ReportedOutcomes)
  BY RemoveAtFacts, HeadTailProperties, AppendProperties
<1>b. settled \in ReportedOutcomes /\ outbox \in Seq(ReportedOutcomes) /\ oldbox \in Seq(ReportedOutcomes)
  BY DEF PathTyped
<1>d. Dropped \in [Id -> [by : By, in : File \cup {None}]]
  BY DEF Dropped, QueuedByPi, PathTyped, By
<1>1. ASSUME NEW i \in Id, PhoneSends(i) PROVE PathTyped'
  <2>1. Box' \in Seq(Id)
    BY <1>1, QueueBox DEF PhoneSends
  <2> QED BY <1>1, <1>t, <2>1 DEF PhoneSends, PathTyped
<1>2. ASSUME NEW i \in Id, PhoneAsks(i) PROVE PathTyped'
  BY <1>2, <1>t DEF PhoneAsks, PathTyped, Ask, Box
<1>3. CASE Beat
  <2>1. Box' = <<>>
    BY <1>3, EmptiedBox DEF Beat, Take, Ended
  <2>2. replies' \in Seq(Seq(Id))
    <3>1. replies' = Append(replies, <<>>) \/ replies' = Append(replies, Box)
      BY <1>3 DEF Beat, Box
    <3>2. \A q \in Seq(Id) : Append(replies, q) \in Seq(Seq(Id))
      BY AppendProperties DEF PathTyped
    <3>3. <<>> \in Seq(Id) /\ Box \in Seq(Id)
      BY DEF PathTyped
    <3> QED BY <3>1, <3>2, <3>3
  <2> QED BY <1>3, <1>t, <2>1, <2>2 DEF Beat, PathTyped
<1>4. ASSUME NEW k \in DOMAIN replies, NEW refusing \in SUBSET Id, ReplyArrives(k, refusing)
      PROVE  PathTyped'
  <2> DEFINE messages == replies[k]
             refused == {i \in Range(messages) : Refuses(i, refusing)}
             handed == Range(messages) \ refused
             now == SettledAs(refused, "refused",
                              SettledAs(handed, IF busy THEN "queued" ELSE "taken", settled))
  <2>0. /\ given' = HandedOver(messages, handed)
        /\ queuedIn' = IF busy THEN queuedIn \cup handed ELSE queuedIn
        /\ settled' = now
        /\ IF messages = <<>> THEN UNCHANGED outbox ELSE Report(now)
        /\ replies' = RemoveAt(replies, k)
        /\ UNCHANGED <<dvars, daemonVars, phoneVars, sessionVars, oldbox, lossy>>
    BY <1>4 DEF ReplyArrives
  <2>1. messages \in Seq(Id) /\ refused \in SUBSET Id /\ handed \in SUBSET Id
    BY DEF PathTyped, Range
  <2>2. now \in ReportedOutcomes
    <3> DEFINE o == IF busy THEN "queued" ELSE "taken"
    <3>1. SettledAs(handed, o, settled) \in ReportedOutcomes
      BY <2>1, SettledAsType DEF Reportable, Settled, PathTyped
    <3> QED BY <2>1, <3>1, SettledAsType DEF Reportable, Settled
  <2>3. given' \in [Id -> [by : By, in : File \cup {None}]]
    BY <2>0 DEF HandedOver, PathTyped, By
  <2> HIDE DEF messages, refused, handed, now
  <2>4. outbox' \in Seq(ReportedOutcomes)
    <3>1. CASE messages = <<>>
      BY <2>0, <3>1 DEF PathTyped
    <3>2. CASE messages # <<>>
      <4>1. outbox' = Append(outbox, now)
        BY <2>0, <3>2 DEF Report
      <4> QED BY <2>2, <4>1, AppendProperties DEF PathTyped
    <3> QED BY <3>1, <3>2
  <2>5. replies' \in Seq(Seq(Id)) /\ queuedIn' \subseteq Id
    BY <1>q, <2>0, <2>1 DEF PathTyped
  <2> QED BY <1>t, <2>0, <2>2, <2>3, <2>4, <2>5 DEF PathTyped, Box, dvars
<1>5. CASE WantReport
  BY <1>5, <1>t, <1>q DEF WantReport, Report, PathTyped, Box, dvars
<1>6. ASSUME NEW k \in DOMAIN replies, NEW queued \in BOOLEAN, NEW answered \in BOOLEAN,
             SendBack(k, queued, answered)
      PROVE  PathTyped'
  <2>1. replies[k] \in Seq(Id) /\ replies[k] # <<>>
    BY <1>6 DEF SendBack, PathTyped
  <2>2. Head(replies[k]) \in Id /\ Tail(replies[k]) \in Seq(Id)
    BY <2>1, HeadTailProperties
  <2>3. Box' \in Seq(Id)
    <3>1. CASE queued
      BY <1>6, <2>2, <3>1, QueueBox DEF SendBack
    <3>2. CASE ~queued
      BY <1>6, <3>2 DEF SendBack, PathTyped, Box, dvars
    <3> QED BY <3>1, <3>2
  <2>4. replies' \in Seq(Seq(Id))
    <3> DEFINE q == IF answered THEN Tail(replies[k]) ELSE <<>>
    <3>1. q \in Seq(Id) /\ replies' = [replies EXCEPT ![k] = q]
      BY <1>6, <2>2 DEF SendBack, Behind
    <3> HIDE DEF q
    <3>2. /\ replies \in Seq(Seq(Id)) /\ Len(replies) \in Nat /\ DOMAIN replies = 1..Len(replies)
      BY DEF PathTyped
    <3> QED BY <3>1, <3>2
  <2> QED BY <1>6, <1>t, <2>3, <2>4 DEF SendBack, PathTyped
<1>7. ASSUME NEW k \in DOMAIN replies, ReplyLost(k) \/ ReplyDone(k)
      PROVE  PathTyped'
  <2>1. replies' = RemoveAt(replies, k)
    BY <1>7 DEF ReplyLost, ReplyDone
  <2>2. replies' \in Seq(Seq(Id))
    BY <1>q, <2>1 DEF PathTyped
  <2> QED BY <1>7, <1>t, <2>2 DEF ReplyLost, ReplyDone, PathTyped, Box, dvars
<1>8. ASSUME NEW i \in Id, PiStarts(i) PROVE PathTyped'
  <2>1. SettledAs({i}, "taken", settled) \in ReportedOutcomes
    BY SettledAsType DEF Reportable, Settled, PathTyped
  <2>2. /\ settled' \in {settled, SettledAs({i}, "taken", settled)}
        /\ outbox' \in {outbox, Append(outbox, settled')}
    BY <1>8 DEF PiStarts, Report
  <2>4. settled' \in ReportedOutcomes /\ outbox' \in Seq(ReportedOutcomes)
    BY <1>b, <1>q, <2>1, <2>2
  <2>3. given' \in [Id -> [by : By, in : File \cup {None}]]
    BY <1>8 DEF PiStarts, PathTyped, By
  <2>5. /\ Box' = Box /\ queuedIn' = queuedIn \ {i}
        /\ UNCHANGED <<replies, life, sentFor, acceptedIn, file, rowFile, silentFile, next, oldbox>>
    BY <1>8 DEF PiStarts, Box, dvars, daemonVars, phoneVars, sessionVars
  <2> QED BY <1>t, <2>3, <2>4, <2>5 DEF PathTyped
<1>9. CASE PiDrops \/ RunOver
  BY <1>9, <1>t, <1>d DEF PiDrops, RunOver, PathTyped, Box, dvars
<1>10. CASE LookLost
  <2>1. SettledAs(queuedIn, "lost", settled) \in ReportedOutcomes
    BY SettledAsType DEF Reportable, Settled, PathTyped
  <2>2. settled' = SettledAs(queuedIn, "lost", settled) /\ outbox' = Append(outbox, settled')
    BY <1>10 DEF LookLost, Report
  <2>3. settled' \in ReportedOutcomes /\ outbox' \in Seq(ReportedOutcomes)
    BY <1>b, <1>q, <2>1, <2>2
  <2>4. Box' = Box
    BY <1>10 DEF LookLost, Box, dvars
  <2> QED BY <1>10, <1>t, <2>3, <2>4 DEF LookLost, PathTyped
<1>11. ASSUME NEW report, Sent(report)
       PROVE  Box' = Box /\ life' = life /\ rowFile' = rowFile /\ silentFile' = silentFile
  BY <1>11 DEF Sent, Reported, Box, dvars
<1>12. CASE ReportSent
  BY <1>11, <1>12, <1>t, <1>q DEF ReportSent, PathTyped
<1>13. CASE OldReportSent
  BY <1>11, <1>13, <1>t, <1>q DEF OldReportSent, PathTyped
<1>14. ASSUME NEW f \in File \cup {None}, Shutdown(f) PROVE PathTyped'
  BY <1>14, <1>t DEF Shutdown, PathTyped, Box, dvars
<1>15. ASSUME NEW reason, Unregister(reason) \/ UNCHANGED <<dvars, daemonVars>>
       PROVE  /\ Box' = Box \/ Box' = <<>>
              /\ life' = life /\ rowFile' \in {rowFile, None} /\ silentFile' \in {silentFile, None}
  BY <1>15, EmptiedBox DEF Unregister, Ended, Box, dvars
<1>16. CASE Stopped
  <2>1. /\ Box' = Box \/ Box' = <<>>
        /\ life' = life /\ rowFile' \in {rowFile, None} /\ silentFile' \in {silentFile, None}
    BY <1>15, <1>16 DEF Stopped
  <2>2. Box' \in Seq(Id)
    <3>1. Box \in Seq(Id) /\ <<>> \in Seq(Id)
      BY DEF PathTyped
    <3> QED BY <2>1, <3>1
  <2> QED BY <1>16, <1>t, <2>1, <2>2 DEF Stopped, PathTyped
<1>17. CASE Dispose
  <2>1. SettledAs(queuedIn, "lost", settled) \in ReportedOutcomes
    BY SettledAsType DEF Reportable, Settled, PathTyped
  <2>2. settled' \in ReportedOutcomes
    BY <1>17, <2>1 DEF Dispose, LeftQueued
  <2>4. \/ outbox' = Append(outbox, settled') /\ oldbox' = oldbox
        \/ outbox' = <<>> /\ oldbox' = outbox
    BY <1>17 DEF Dispose, Report
  <2>5. Append(outbox, settled') \in Seq(ReportedOutcomes) /\ <<>> \in Seq(ReportedOutcomes)
    BY <1>b, <1>q, <2>2
  <2>3. outbox' \in Seq(ReportedOutcomes) /\ oldbox' \in Seq(ReportedOutcomes)
    BY <1>b, <2>4, <2>5
  <2> QED BY <1>17, <1>t, <1>d, <2>2, <2>3 DEF Dispose, PathTyped, Box, dvars
<1>18. CASE DisposedOf
  BY <1>18, <1>t DEF DisposedOf, PathTyped, Box, dvars
<1>19. CASE NextSession
  BY <1>19, <1>t, <1>e DEF NextSession, PathTyped, Box, dvars
<1>20. CASE Goes
  <2>1. /\ Box' = Box \/ Box' = <<>>
        /\ life' = life /\ rowFile' \in {rowFile, None} /\ silentFile' \in {silentFile, None}
    BY <1>15, <1>20 DEF Goes
  <2>2. Box' \in Seq(Id)
    <3>1. Box \in Seq(Id) /\ <<>> \in Seq(Id)
      BY DEF PathTyped
    <3> QED BY <2>1, <3>1
  <2> QED BY <1>20, <1>t, <1>d, <1>e, <2>1, <2>2 DEF Goes, PathTyped
<1>21. CASE FallsSilent
  <2>1. Box' = <<>>
    BY <1>21, EmptiedBox DEF FallsSilent, Silent
  <2> QED BY <1>21, <1>t, <2>1 DEF FallsSilent, PathTyped
<1>22. CASE Reaped \/ LetGo
  <2>1. Box' = <<>>
    BY <1>22, EmptiedBox DEF Reaped, LetGo, RowEnds, Ended
  <2>2. /\ rowFile' = None /\ silentFile' = None
        /\ UNCHANGED <<replies, life, sentFor, acceptedIn, file, next, given, queuedIn, settled, boxes>>
    BY <1>22 DEF Reaped, LetGo, RowEnds
  <2>3. Box' \in Seq(Id)
    BY <2>1
  <2> QED BY <1>t, <2>2, <2>3 DEF PathTyped
<1>23. CASE DaemonRestarts
  BY <1>23, <1>t, RestartBox DEF DaemonRestarts, PathTyped
<1>24. CASE UNCHANGED vars
  BY <1>24, <1>t DEF vars, PathTyped, Box, dvars
<1>25. ASSUME NEW i \in Id, Ages(i) PROVE PathTyped'
  BY <1>25, <1>t DEF Ages, Age, PathTyped, Box
<1>26. CASE BeatElsewhere
  <2>1. Box' = <<>>
    BY <1>26, EmptiedBox DEF BeatElsewhere, Ended
  <2> QED BY <1>26, <1>t, <1>e, <2>1 DEF BeatElsewhere, PathTyped
<1> QED BY <1>1, <1>2, <1>3, <1>4, <1>5, <1>6, <1>7, <1>8, <1>9, <1>10, <1>12, <1>13, <1>14, <1>16,
           <1>17, <1>18, <1>19, <1>20, <1>21, <1>22, <1>23, <1>24, <1>25, <1>26
       DEF Next, Arrives, Resends, Finishes

---------------------------------------------------------------------------
(* Where a prompt is *)

WithPi(i) == given[i].by # "no"

WaitsOnce == NoRepeat(Box)

OnItsWayOnce == NoneTwice(replies)

OnePlace ==
  \A i \in Id : /\ ~(In(Box, i) /\ Held(replies, i))
                /\ ~(In(Box, i) /\ WithPi(i))
                /\ ~(Held(replies, i) /\ WithPi(i))

(* A prompt that is anywhere, or has an outcome, is one the phone sent. *)
Known ==
  \A i \in Id : In(Box, i) \/ Held(replies, i) \/ WithPi(i) \/ prompts[i].outcome # "unknown" =>
    acceptedIn[i] # 0

(* How a step may move prompt i: from the phone or from a reply to the     *)
(* inbox, from the inbox to a reply, and from a reply to pi.               *)
MovesOf(i) ==
  /\ acceptedIn'[i] = acceptedIn[i] \/ acceptedIn[i] = 0
  /\ In(Box', i) => \/ In(Box, i)
                    \/ acceptedIn[i] = 0 /\ acceptedIn'[i] # 0
                    \/ Held(replies, i) /\ ~Held(replies', i)
  /\ Held(replies', i) => Held(replies, i) \/ (In(Box, i) /\ ~In(Box', i))
  /\ given'[i].by # "no" =>
       given[i].by # "no" \/ (Held(replies, i) /\ ~Held(replies', i) /\ ~In(Box', i))
  /\ given'[i].by = "queued" => given[i].by = "queued" \/ Held(replies, i)

Moves == NoRepeat(Box') /\ NoneTwice(replies') /\ \A i \in Id : MovesOf(i)

(* No prompt is in an empty inbox. *)
LEMMA NothingIn == NoRepeat(<<>>) /\ NoneTwice(<<>>) /\ \A i : ~In(<<>>, i) /\ ~Held(<<>>, i)
BY DEF NoRepeat, NoneTwice, In, Held

(* A step that only lets go of prompts. *)
LEMMA NarrowMoves ==
  ASSUME PathTyped, WaitsOnce,
         Box' = Box \/ Box' = <<>>,
         NoneTwice(replies'), \A i \in Id : Held(replies', i) => Held(replies, i),
         given' \in {given, Dropped},
         acceptedIn' = acceptedIn
  PROVE  Moves
<1>1. NoRepeat(Box') /\ \A i \in Id : In(Box', i) => In(Box, i)
  BY NothingIn DEF WaitsOnce
<1>2. ASSUME NEW i \in Id
      PROVE  /\ given'[i].by # "no" => given[i].by # "no"
             /\ given'[i].by = "queued" => given[i].by = "queued"
  BY DEF Dropped, QueuedByPi, PathTyped, By
<1>3. ASSUME NEW i \in Id PROVE MovesOf(i)
  BY <1>1, <1>2 DEF MovesOf
<1> QED BY <1>1, <1>3 DEF Moves

(* What the delivery's steps may do to the inbox beside adding to it. *)
LEMMA EndedBox ==
  ASSUME PathTyped, NEW reason, Unregister(reason) \/ UNCHANGED <<dvars, daemonVars>>
  PROVE  Box' = Box \/ Box' = <<>>
BY EmptiedBox DEF Unregister, Ended, Box, dvars

LEMMA MovesStep ==
  ASSUME PathTyped, WaitsOnce, OnItsWayOnce, OnePlace, Known, [Next]_vars
  PROVE  Moves
<1> USE PathAssumption
<1>r. replies \in Seq(Seq(Id)) /\ NoneTwice(replies)
  BY DEF PathTyped, OnItsWayOnce
<1>1. ASSUME NEW i \in Id, PhoneSends(i) PROVE Moves
  <2>1. acceptedIn[i] = 0 /\ Box' = Append(Box, i) /\ replies' = replies /\ given' = given
    BY <1>1, QueueBox DEF PhoneSends
  <2>2. acceptedIn' = [acceptedIn EXCEPT ![i] = life] /\ life # 0
    BY <1>1 DEF PhoneSends, PathTyped
  <2>3. ~In(Box, i) /\ Box \in Seq(Id) /\ NoRepeat(Box)
    BY <2>1 DEF Known, PathTyped, WaitsOnce
  <2>4. NoRepeat(Box') /\ \A j \in Id : In(Box', j) => In(Box, j) \/ j = i
    BY <2>1, <2>3, AppendedMessage
  <2>5. acceptedIn'[i] # 0 /\ \A j \in Id : j # i => acceptedIn'[j] = acceptedIn[j]
    BY <2>2 DEF PathTyped
  <2>6. ASSUME NEW j \in Id PROVE MovesOf(j)
    BY <2>1, <2>4, <2>5 DEF MovesOf
  <2> QED BY <1>r, <2>1, <2>4, <2>6 DEF Moves
<1>2. ASSUME NEW i \in Id, PhoneAsks(i) PROVE Moves
  BY <1>2, <1>r, NarrowMoves DEF PhoneAsks, Ask, Box
<1>3. CASE Beat
  <2>1. Box' = <<>>
    BY <1>3, EmptiedBox DEF Beat, Take, Ended
  <2>2. Box \in Seq(Id) /\ NoRepeat(Box) /\ \A i \in Id : ~(In(Box, i) /\ Held(replies, i))
    BY DEF PathTyped, WaitsOnce, OnePlace
  <2>3. NoneTwice(replies') /\ \A i \in Id : Held(replies', i) => Held(replies, i) \/ In(Box, i)
    <3>1. replies' \in {Append(replies, <<>>), Append(replies, Box)}
      BY <1>3 DEF Beat, Box
    <3>2. <<>> \in Seq(Id) /\ NoRepeat(<<>>) /\ \A i : ~In(<<>>, i)
      BY NothingIn
    <3>3. ASSUME NEW q \in {<<>>, Box}, replies' = Append(replies, q)
          PROVE  NoneTwice(replies') /\ \A i \in Id : Held(replies', i) => Held(replies, i) \/ In(Box, i)
      <4>1. q \in Seq(Id) /\ NoRepeat(q) /\ \A i \in Id : In(q, i) => In(Box, i)
        BY <2>2, <3>2
      <4>2. \A i \in Id : ~(In(q, i) /\ Held(replies, i))
        BY <2>2, <4>1
      <4> QED BY <1>r, <3>3, <4>1, <4>2, AppendedReply
    <3> QED BY <3>1, <3>3
  <2>4. given' = given /\ acceptedIn' = acceptedIn
    BY <1>3 DEF Beat
  <2>5. ASSUME NEW j \in Id PROVE MovesOf(j)
    BY <2>1, <2>3, <2>4, NothingIn DEF MovesOf
  <2> QED BY <2>1, <2>3, <2>5, NothingIn DEF Moves
<1>4. ASSUME NEW k \in DOMAIN replies, NEW refusing \in SUBSET Id, ReplyArrives(k, refusing)
      PROVE  Moves
  <2> DEFINE messages == replies[k]
             handed == Range(messages) \ {i \in Range(messages) : Refuses(i, refusing)}
  <2>1. /\ given' = HandedOver(messages, handed)
        /\ replies' = RemoveAt(replies, k)
        /\ Box' = Box /\ acceptedIn' = acceptedIn
    BY <1>4 DEF ReplyArrives, Box, dvars
  <2>2. NoneTwice(replies') /\ \A i \in Id : Held(replies', i) => Held(replies, i) /\ ~In(messages, i)
    BY <1>r, <2>1, RemovedReply
  <2>3. \A i \in handed : In(messages, i) /\ Held(replies, i)
    BY DEF Range, In, Held
  <2> HIDE DEF messages, handed
  <2>4. ASSUME NEW i \in Id
        PROVE  /\ given'[i].by # "no" => given[i].by # "no" \/ i \in handed
               /\ given'[i].by = "queued" => given[i].by = "queued" \/ i \in handed
    BY <2>1 DEF HandedOver
  <2>5. ASSUME NEW i \in handed, i \in Id PROVE Held(replies, i) /\ ~Held(replies', i) /\ ~In(Box', i)
    BY <2>1, <2>2, <2>3, <2>5 DEF OnePlace
  <2>6. ASSUME NEW i \in Id PROVE MovesOf(i)
    BY <2>1, <2>2, <2>4, <2>5 DEF MovesOf
  <2> QED BY <2>1, <2>2, <2>6 DEF Moves, WaitsOnce
<1>5. CASE WantReport \/ RunOver \/ LookLost \/ DisposedOf \/ NextSession \/ PiDrops \/ Dispose
  BY <1>5, <1>r, NarrowMoves
     DEF WantReport, RunOver, LookLost, DisposedOf, NextSession, PiDrops, Dispose, Box, dvars
<1>6. ASSUME NEW k \in DOMAIN replies, NEW queued \in BOOLEAN, NEW answered \in BOOLEAN,
             SendBack(k, queued, answered)
      PROVE  Moves
  <2>1. replies[k] \in Seq(Id) /\ replies[k] # <<>>
    BY <1>6 DEF SendBack, PathTyped
  <2>2. Head(replies[k]) \in Id /\ In(replies[k], Head(replies[k]))
    <3>1. Head(replies[k]) = replies[k][1] /\ 1 \in DOMAIN replies[k]
      BY <2>1
    <3> QED BY <2>1, <3>1 DEF In
  <2>3. Held(replies, Head(replies[k]))
    BY <2>2 DEF Held
  <2> DEFINE q == IF answered THEN Tail(replies[k]) ELSE <<>>
  <2>4. q \in {<<>>, Tail(replies[k])} /\ replies' = [replies EXCEPT ![k] = q]
    BY <1>6 DEF SendBack, Behind
  <2> HIDE DEF q
  <2>5. NoneTwice(replies') /\ \A i \in Id : Held(replies', i) => Held(replies, i) /\ i # Head(replies[k])
    BY <1>r, <2>1, <2>4, ShortenedReply
  <2>6. given' = given /\ acceptedIn' = acceptedIn
    BY <1>6 DEF SendBack
  <2>7. CASE queued
    <3>1. Queue(PaneRow, Head(replies[k]))
      BY <1>6, <2>7 DEF SendBack
    <3>2. Box' = Append(Box, Head(replies[k]))
      BY <2>2, <3>1, QueueBox
    <3>3. ~In(Box, Head(replies[k])) /\ Box \in Seq(Id) /\ NoRepeat(Box)
      BY <2>2, <2>3 DEF OnePlace, PathTyped, WaitsOnce
    <3>4. NoRepeat(Box') /\ \A i \in Id : In(Box', i) => In(Box, i) \/ i = Head(replies[k])
      BY <2>2, <3>2, <3>3, AppendedMessage
    <3>5. ASSUME NEW j \in Id PROVE MovesOf(j)
      BY <2>3, <2>5, <2>6, <3>4 DEF MovesOf
    <3> QED BY <2>5, <3>4, <3>5 DEF Moves
  <2>8. CASE ~queued
    <3>1. Box' = Box
      BY <1>6, <2>8 DEF SendBack, Box, dvars
    <3> QED BY <2>5, <2>6, <3>1, NarrowMoves
  <2> QED BY <2>7, <2>8
<1>7. ASSUME NEW k \in DOMAIN replies, ReplyLost(k) \/ ReplyDone(k) PROVE Moves
  <2>1. NoneTwice(replies') /\ \A i \in Id : Held(replies', i) => Held(replies, i)
    BY <1>7, <1>r, RemovedReply DEF ReplyLost, ReplyDone
  <2> QED BY <1>7, <2>1, NarrowMoves DEF ReplyLost, ReplyDone, Box, dvars
<1>8. ASSUME NEW i \in Id, PiStarts(i) PROVE Moves
  <2>1. Box' = Box /\ replies' = replies /\ acceptedIn' = acceptedIn /\ WithPi(i)
    BY <1>8 DEF PiStarts, Box, dvars, WithPi
  <2>2. \A j \in Id : /\ given'[j].by # "no" => given[j].by # "no"
                      /\ given'[j].by = "queued" => given[j].by = "queued"
    BY <1>8 DEF PiStarts, PathTyped
  <2>3. ASSUME NEW j \in Id PROVE MovesOf(j)
    BY <2>1, <2>2 DEF MovesOf
  <2> QED BY <1>r, <2>1, <2>3 DEF Moves, WaitsOnce
<1>9. CASE ReportSent \/ OldReportSent
  BY <1>9, <1>r, NarrowMoves DEF ReportSent, OldReportSent, Sent, Reported, Box, dvars
<1>10. ASSUME NEW f, Shutdown(f) PROVE Moves
  BY <1>10, <1>r, NarrowMoves DEF Shutdown, Box, dvars
<1>11. CASE Stopped
  <2>1. Box' = Box \/ Box' = <<>>
    BY <1>11, EndedBox DEF Stopped
  <2> QED BY <1>11, <1>r, <2>1, NarrowMoves DEF Stopped
<1>12. CASE Goes
  <2>1. Box' = Box \/ Box' = <<>>
    BY <1>12, EndedBox DEF Goes
  <2> QED BY <1>12, <2>1, NarrowMoves, NothingIn DEF Goes
<1>13. CASE FallsSilent
  BY <1>13, <1>r, EmptiedBox, NarrowMoves DEF FallsSilent, Silent
<1>14. CASE Reaped \/ LetGo
  BY <1>14, <1>r, EmptiedBox, NarrowMoves DEF Reaped, LetGo, RowEnds, Ended
<1>15. CASE DaemonRestarts
  <2>1. Box' = <<>> /\ given' = given /\ acceptedIn' = acceptedIn /\ replies' \in {<<>>, replies}
    BY <1>15, RestartBox DEF DaemonRestarts
  <2> QED BY <1>r, <2>1, NarrowMoves, NothingIn
<1>16. CASE UNCHANGED vars
  BY <1>16, <1>r, NarrowMoves DEF vars, Box, dvars
<1>17. ASSUME NEW i \in Id, Ages(i) PROVE Moves
  BY <1>17, <1>r, NarrowMoves DEF Ages, Age, Box
<1>18. CASE BeatElsewhere
  <2>1. Box' = <<>> /\ replies' = <<>> /\ given' = given /\ acceptedIn' = acceptedIn
    BY <1>18, EmptiedBox DEF BeatElsewhere, Ended
  <2> QED BY <2>1, NarrowMoves, NothingIn
<1> QED BY <1>1, <1>2, <1>3, <1>4, <1>5, <1>6, <1>7, <1>8, <1>9, <1>10, <1>11, <1>12, <1>13, <1>14,
           <1>15, <1>16, <1>17, <1>18
       DEF Next, Arrives, Resends, Finishes

(* So no prompt comes to be in two places. *)
LEMMA OnePlaceStep ==
  ASSUME OnePlace, Known, Moves
  PROVE  OnePlace'
<1> SUFFICES ASSUME NEW i \in Id
             PROVE  /\ ~(In(Box', i) /\ Held(replies', i))
                    /\ ~(In(Box', i) /\ given'[i].by # "no")
                    /\ ~(Held(replies', i) /\ given'[i].by # "no")
  BY DEF OnePlace, WithPi
<1>1. /\ ~(In(Box, i) /\ Held(replies, i))
      /\ ~(In(Box, i) /\ given[i].by # "no")
      /\ ~(Held(replies, i) /\ given[i].by # "no")
      /\ In(Box, i) \/ Held(replies, i) \/ given[i].by # "no" => acceptedIn[i] # 0
  BY DEF OnePlace, Known, WithPi
<1>2. MovesOf(i)
  BY DEF Moves
<1> QED BY <1>1, <1>2 DEF MovesOf

(* What each operation of the delivery may make of prompt i's outcome. *)
LEMMA QueuedOutcome ==
  ASSUME TypeOK, NEW r \in Row, NEW m, Queue(r, m), NEW i \in Id, i # m
  PROVE  prompts'[i] \in {prompts[i], NoDelivery}
BY DEF Queue, AfterQueue, Pruned

LEMMA TakenOutcome ==
  ASSUME TypeOK, NEW r, NEW p, Take(r, p), NEW i \in Id
  PROVE  prompts'[i].outcome = prompts[i].outcome
BY DEF TypeOK, Take, AfterTake, DeliveryRecord

LEMMA ReportedOutcome ==
  ASSUME NEW r, NEW os, Reported(r, os), NEW i \in Id
  PROVE  \/ prompts'[i].outcome = prompts[i].outcome
         \/ Open(prompts[i]) /\ i \in DOMAIN os /\ prompts'[i].outcome = os[i]
BY DEF Reported, AfterReport

LEMMA EndedOutcome ==
  ASSUME NEW r, NEW p, NEW reason, Ended(r, p, reason, TRUE), NEW i \in Id
  PROVE  prompts'[i].outcome = prompts[i].outcome \/ Open(prompts[i])
BY DEF Ended, AfterEnded, SettledBy

LEMMA SettledOutcome ==
  ASSUME NEW r, NEW S, NEW reason, prompts' = SettledBy(prompts, r, S, reason), NEW i \in Id
  PROVE  prompts'[i].outcome = prompts[i].outcome \/ (Open(prompts[i]) /\ i \in S)
BY DEF SettledBy

LEMMA SilentOutcome ==
  ASSUME NEW r, Silent(r), NEW i \in Id
  PROVE  prompts'[i].outcome = prompts[i].outcome \/ (Open(prompts[i]) /\ InInbox(inboxes, i, r))
<1>1. PICK reason : prompts' = SettledBy(prompts, r, InboxIds(inboxes, r), reason)
  BY DEF Silent, AfterSilent
<1> QED BY <1>1, SettledOutcome DEF InboxIds

LEMMA AskedOutcome ==
  ASSUME Ask, NEW i \in Id
  PROVE  prompts'[i].outcome \in {prompts[i].outcome, "unknown"}
BY DEF Ask, Pruned, NoDelivery

(* A prompt has an outcome only from when it is put in the inbox. *)
LEMMA OutcomeFrom ==
  ASSUME PathTyped, [Next]_vars, NEW i \in Id, prompts'[i].outcome # "unknown"
  PROVE  prompts[i].outcome # "unknown" \/ acceptedIn'[i] # 0 \/ Held(replies, i)
<1> DEFINE Goal == prompts[i].outcome # "unknown" \/ acceptedIn'[i] # 0 \/ Held(replies, i)
<1> USE PathAssumption DEF Open, Unsettled
<1>t. TypeOK
  BY DEF PathTyped
<1>n. ASSUME NEW m, m # i, Queue(PaneRow, m) PROVE Goal
  BY <1>n, <1>t, QueuedOutcome DEF NoDelivery
<1>1. ASSUME NEW j \in Id, PhoneSends(j) PROVE Goal
  <2>1. CASE j = i
    BY <1>1, <2>1 DEF PhoneSends, PathTyped
  <2>2. CASE j # i
    BY <1>1, <1>n, <2>2 DEF PhoneSends
  <2> QED BY <2>1, <2>2
<1>2. ASSUME NEW j \in Id, PhoneAsks(j) PROVE Goal
  BY <1>2, AskedOutcome DEF PhoneAsks
<1>3. CASE Beat
  BY <1>3, <1>t, TakenOutcome, EndedOutcome DEF Beat
<1>4. ASSUME NEW k \in DOMAIN replies, NEW queued \in BOOLEAN, NEW answered \in BOOLEAN,
             SendBack(k, queued, answered)
      PROVE  Goal
  <2>1. CASE ~queued
    BY <1>4, <2>1 DEF SendBack, dvars
  <2>2. CASE queued /\ Head(replies[k]) # i
    BY <1>4, <1>n, <2>2 DEF SendBack
  <2>3. CASE Head(replies[k]) = i
    <3>1. replies[k] \in Seq(Id) /\ replies[k] # <<>>
      BY <1>4 DEF SendBack, PathTyped
    <3>2. Head(replies[k]) = replies[k][1] /\ 1 \in DOMAIN replies[k]
      BY <3>1
    <3> QED BY <2>3, <3>2 DEF Held, In
  <2> QED BY <2>1, <2>2, <2>3
<1>5. ASSUME NEW report, Sent(report) PROVE Goal
  BY <1>5, ReportedOutcome DEF Sent, dvars
<1>6. ASSUME NEW reason, Unregister(reason) \/ UNCHANGED <<dvars, daemonVars>> PROVE Goal
  BY <1>6, EndedOutcome DEF Unregister, dvars
<1>7. CASE ReportSent \/ OldReportSent
  BY <1>5, <1>7 DEF ReportSent, OldReportSent
<1>8. CASE Stopped \/ Goes
  BY <1>6, <1>8 DEF Stopped, Goes
<1>9. CASE FallsSilent
  BY <1>9, SilentOutcome DEF FallsSilent
<1>10. CASE Reaped \/ LetGo \/ BeatElsewhere
  BY <1>10, EndedOutcome DEF Reaped, LetGo, RowEnds, BeatElsewhere
<1>11. CASE DaemonRestarts
  BY <1>11 DEF DaemonRestarts, Restart, NoDelivery
<1>12. ASSUME UNCHANGED dvars PROVE Goal
  BY <1>12 DEF dvars
<1>13. CASE WantReport \/ PiDrops \/ RunOver \/ LookLost \/ Dispose \/ DisposedOf \/ NextSession
  BY <1>12, <1>13 DEF WantReport, PiDrops, RunOver, LookLost, Dispose, DisposedOf, NextSession
<1>14. ASSUME NEW k, NEW refusing, ReplyArrives(k, refusing) \/ ReplyLost(k) \/ ReplyDone(k) PROVE Goal
  BY <1>12, <1>14 DEF ReplyArrives, ReplyLost, ReplyDone
<1>15. ASSUME NEW j, PiStarts(j) \/ Shutdown(j) PROVE Goal
  BY <1>12, <1>15 DEF PiStarts, Shutdown
<1>16. CASE UNCHANGED vars
  BY <1>12, <1>16 DEF vars, dvars
<1>17. ASSUME NEW j \in Id, Ages(j) PROVE Goal
  BY <1>17, <1>t DEF Ages, Age, TypeOK, DeliveryRecord
<1> QED BY <1>1, <1>2, <1>3, <1>4, <1>7, <1>8, <1>9, <1>10, <1>11, <1>13, <1>14, <1>15, <1>16, <1>17
        DEF Next, Arrives, Resends, Finishes

LEMMA KnownStep ==
  ASSUME PathTyped, Known, Moves, [Next]_vars
  PROVE  Known'
<1> SUFFICES ASSUME NEW i \in Id,
                    In(Box', i) \/ Held(replies', i) \/ given'[i].by # "no" \/ prompts'[i].outcome # "unknown"
             PROVE  acceptedIn'[i] # 0
  BY DEF Known, WithPi
<1>1. In(Box, i) \/ Held(replies, i) \/ given[i].by # "no" \/ prompts[i].outcome # "unknown" =>
        acceptedIn[i] # 0
  BY DEF Known, WithPi
<1>2. MovesOf(i)
  BY DEF Moves
<1>3. prompts'[i].outcome # "unknown" =>
        prompts[i].outcome # "unknown" \/ acceptedIn'[i] # 0 \/ Held(replies, i)
  BY OutcomeFrom
<1> QED BY <1>1, <1>2, <1>3 DEF MovesOf

(* What pi drops it had, and had in the same session. *)
LEMMA DroppedNone ==
  ASSUME PathTyped, NEW i \in Id
  PROVE  /\ Dropped[i].by # "queued"
         /\ Dropped[i].by = "started" => given[i].by = "started"
         /\ given[i].by # "no" <=> Dropped[i].by # "no"
         /\ Dropped[i].in = given[i].in
<1>1. given[i] \in [by : By, in : File \cup {None}]
  BY DEF PathTyped
<1>2. CASE given[i].by = "queued"
  <2>1. Dropped[i] = [given[i] EXCEPT !.by = "dropped"]
    BY <1>2 DEF Dropped, QueuedByPi
  <2> QED BY <1>1, <1>2, <2>1 DEF By
<1>3. CASE given[i].by # "queued"
  BY <1>3 DEF Dropped, QueuedByPi
<1> QED BY <1>2, <1>3

(* What pi has, it got in the session it was sent for. *)
LEMMA RightSessionStep ==
  ASSUME PathTyped, Known, RightSession, [Next]_vars
  PROVE  RightSession'
<1> SUFFICES ASSUME NEW i \in Id, given'[i].by # "no"
             PROVE  given'[i].in = sentFor'[i]
  BY DEF RightSession
<1>1. given[i].by # "no" => given[i].in = sentFor[i] /\ acceptedIn[i] # 0
  BY DEF RightSession, Known, WithPi
<1>2. ASSUME NEW j \in Id, PhoneSends(j) PROVE given'[i].in = sentFor'[i]
  BY <1>1, <1>2 DEF PhoneSends, PathTyped
<1>3. ASSUME NEW k \in DOMAIN replies, NEW refusing \in SUBSET Id, ReplyArrives(k, refusing)
      PROVE  given'[i].in = sentFor'[i]
  <2> DEFINE messages == replies[k]
             refused == {j \in Range(messages) : Refuses(j, refusing)}
             handed == Range(messages) \ refused
  <2>1. given' = HandedOver(messages, handed) /\ sentFor' = sentFor
    BY <1>3 DEF ReplyArrives
  <2>2. i \in handed => sentFor[i] = file
    BY DEF Refuses
  <2> HIDE DEF messages, handed
  <2> QED BY <1>1, <2>1, <2>2 DEF HandedOver
<1>4. ASSUME NEW j \in Id, PiStarts(j) PROVE given'[i].in = sentFor'[i]
  BY <1>1, <1>4 DEF PiStarts, PathTyped
<1>5. ASSUME given' \in {given, Dropped}, sentFor' = sentFor PROVE given'[i].in = sentFor'[i]
  BY <1>1, <1>5, DroppedNone
<1>6. CASE PiDrops \/ Dispose \/ Goes
  BY <1>5, <1>6 DEF PiDrops, Dispose, Goes
<1>7. CASE \/ Beat \/ BeatElsewhere \/ LetGo \/ WantReport \/ RunOver \/ LookLost \/ ReportSent \/ OldReportSent \/ Stopped
           \/ DisposedOf \/ NextSession \/ FallsSilent \/ Reaped \/ DaemonRestarts
  BY <1>5, <1>7 DEF Beat, BeatElsewhere, WantReport, RunOver, LookLost, ReportSent, OldReportSent, Stopped,
                    DisposedOf, NextSession, FallsSilent, Reaped, LetGo, RowEnds, DaemonRestarts
<1>8. ASSUME NEW j, PhoneAsks(j) \/ Ages(j) \/ ReplyLost(j) \/ ReplyDone(j) \/ Shutdown(j)
      PROVE  given'[i].in = sentFor'[i]
  BY <1>5, <1>8 DEF PhoneAsks, Ages, ReplyLost, ReplyDone, Shutdown
<1>9. ASSUME NEW k, NEW queued, NEW answered, SendBack(k, queued, answered)
      PROVE  given'[i].in = sentFor'[i]
  BY <1>5, <1>9 DEF SendBack
<1>10. CASE UNCHANGED vars
  BY <1>5, <1>10 DEF vars
<1> QED BY <1>2, <1>3, <1>4, <1>6, <1>7, <1>8, <1>9, <1>10 DEF Next, Arrives, Resends, Finishes

---------------------------------------------------------------------------
(* What a stage leaves behind *)

AfterDispose == {"reporting", "between", "gone"}

(* pi queues only while it runs, and nothing once the session is disposed  *)
(* of; no reply outlives the session's stop; the tracker queues only what  *)
(* pi was handed.                                                          *)
Stages ==
  /\ \A i \in Id : given[i].by = "queued" => busy /\ stage \notin AfterDispose
  /\ stage \in {"disposing"} \cup AfterDispose => replies = <<>>
  /\ \A i \in queuedIn : given[i].by # "no"

(* A pane that goes on to another session begins it with nothing on its    *)
(* way and nothing queued, until the daemon has heard of it.               *)
Afresh ==
  stage = "up" /\ ({rowFile, silentFile} \ {None, file}) # {} =>
    replies = <<>> /\ \A i \in Id : given[i].by # "queued"

LEMMA StagesStep ==
  ASSUME PathTyped, Stages, Afresh, [Next]_vars
  PROVE  Stages'
<1>1. ASSUME NEW k \in DOMAIN replies, NEW refusing \in SUBSET Id, ReplyArrives(k, refusing)
      PROVE  Stages'
  <2> DEFINE messages == replies[k]
             refused == {j \in Range(messages) : Refuses(j, refusing)}
             handed == Range(messages) \ refused
  <2>1. /\ given' = HandedOver(messages, handed) /\ stage' = stage /\ stage = "up"
        /\ busy' = (busy \/ handed # {})
        /\ queuedIn' = IF busy THEN queuedIn \cup handed ELSE queuedIn
    BY <1>1 DEF ReplyArrives
  <2> HIDE DEF messages, handed
  <2>2. \A i \in Id : /\ i \in handed => given'[i].by \in {"started", "queued"}
                      /\ i \notin handed => given'[i] = given[i]
    BY <2>1 DEF HandedOver
  <2>3. \A i \in Id : given'[i].by = "queued" => busy'
    BY <2>1, <2>2 DEF Stages
  <2>4. \A i \in queuedIn' : given'[i].by # "no"
    <3> SUFFICES ASSUME NEW i \in queuedIn' PROVE given'[i].by # "no"
      OBVIOUS
    <3>1. i \in Id /\ (i \in handed \/ i \in queuedIn)
      BY <2>1, TypedStep DEF PathTyped
    <3> QED BY <2>2, <3>1 DEF Stages
  <2> QED BY <2>1, <2>3, <2>4 DEF Stages, AfterDispose
<1>2. ASSUME NEW i \in Id, PiStarts(i) PROVE Stages'
  BY <1>2 DEF PiStarts, Stages, PathTyped, AfterDispose
<1>3. ASSUME given' = Dropped, queuedIn' \subseteq queuedIn,
             stage' \in {"disposing"} \cup AfterDispose => replies' = <<>>
      PROVE  Stages'
  <2>1. \A i \in Id : given'[i].by # "queued" /\ (given[i].by # "no" <=> given'[i].by # "no")
    BY <1>3, DroppedNone
  <2>2. \A i \in queuedIn' : given'[i].by # "no"
    BY <1>3, <2>1 DEF Stages, PathTyped
  <2> QED BY <1>3, <2>1, <2>2 DEF Stages
<1>4. CASE PiDrops
  BY <1>3, <1>4 DEF PiDrops, AfterDispose, Stages
<1>5. CASE Dispose
  BY <1>3, <1>5 DEF Dispose, Stages
<1>6. CASE Goes
  BY <1>3, <1>6 DEF Goes
<1>7. CASE RunOver
  BY <1>7 DEF RunOver, Stages, QueuedByPi, AfterDispose
<1>8. ASSUME given' = given, busy' = busy, queuedIn' \subseteq queuedIn,
             stage' \in AfterDispose => stage \in AfterDispose,
             stage' \in {"disposing"} \cup AfterDispose => replies' = <<>>
      PROVE  Stages'
  BY <1>8 DEF Stages
<1>9. CASE WantReport \/ LookLost
  BY <1>8, <1>9 DEF WantReport, LookLost, AfterDispose
<1>10. CASE ReportSent \/ OldReportSent \/ FallsSilent \/ Reaped \/ LetGo
  BY <1>8, <1>10 DEF ReportSent, OldReportSent, FallsSilent, Reaped, LetGo, RowEnds, Stages
<1>11. CASE Stopped
  BY <1>8, <1>11 DEF Stopped, AfterDispose
<1>12. CASE DisposedOf \/ NextSession
  BY <1>8, <1>12 DEF DisposedOf, NextSession, Stages, AfterDispose
<1>13. CASE Beat
  BY <1>8, <1>13 DEF Beat, AfterDispose
<1>14. CASE DaemonRestarts
  BY <1>8, <1>14 DEF DaemonRestarts, Stages, AfterDispose
<1>15. ASSUME NEW i, PhoneSends(i) \/ PhoneAsks(i) \/ Ages(i) PROVE Stages'
  BY <1>8, <1>15 DEF PhoneSends, PhoneAsks, Ages, Stages
<1>16. ASSUME NEW k \in DOMAIN replies, ReplyLost(k) PROVE Stages'
  <2>1. replies # <<>>
    BY <1>16 DEF PathTyped
  <2> QED BY <1>8, <1>16, <2>1 DEF ReplyLost, Stages
<1>17. ASSUME NEW k, ReplyDone(k) PROVE Stages'
  BY <1>8, <1>17 DEF ReplyDone, AfterDispose
<1>18. ASSUME NEW k, NEW queued, NEW answered, SendBack(k, queued, answered) PROVE Stages'
  BY <1>8, <1>18 DEF SendBack, AfterDispose
<1>19. ASSUME NEW f, Shutdown(f) PROVE Stages'
  BY <1>8, <1>19 DEF Shutdown, AfterDispose
<1>20. CASE UNCHANGED vars
  BY <1>8, <1>20 DEF vars, Stages
<1>21. CASE BeatElsewhere
  <2>1. \A i \in Id : given[i].by # "queued"
    BY <1>21 DEF BeatElsewhere, WentOn, Afresh
  <2> QED BY <1>21, <2>1 DEF BeatElsewhere, Stages
<1> QED BY <1>1, <1>2, <1>4, <1>5, <1>6, <1>7, <1>9, <1>10, <1>11, <1>12, <1>13, <1>14, <1>15, <1>16,
           <1>17, <1>18, <1>19, <1>20, <1>21
        DEF Next, Arrives, Resends, Finishes

LEMMA AfreshStep ==
  ASSUME PathTyped, Stages, Afresh, [Next]_vars
  PROVE  Afresh'
<1>1. ASSUME stage' = "up" => stage = "up", file' = file,
             {rowFile', silentFile'} \subseteq {rowFile, silentFile, None, file},
             replies = <<>> => replies' = <<>> /\ \A i \in Id : given'[i].by = "queued" => given[i].by = "queued"
      PROVE  Afresh'
  BY <1>1 DEF Afresh
<1>2. ASSUME NEW k \in DOMAIN replies, NEW refusing, ReplyArrives(k, refusing) PROVE Afresh'
  <2>1. replies # <<>>
    OBVIOUS
  <2> QED BY <1>1, <1>2, <2>1 DEF ReplyArrives
<1>3. ASSUME given' \in {given, Dropped}
      PROVE  \A i \in Id : given'[i].by = "queued" => given[i].by = "queued"
  BY <1>3, DroppedNone
<1>4. ASSUME NEW i \in Id, PhoneSends(i) \/ PhoneAsks(i) \/ Ages(i) PROVE Afresh'
  BY <1>1, <1>4 DEF PhoneSends, PhoneAsks, Ages
<1>5. ASSUME NEW i \in Id, PiStarts(i) PROVE Afresh'
  <2>1. \A j \in Id : given'[j].by = "queued" => given[j].by = "queued"
    BY <1>5 DEF PiStarts, PathTyped
  <2> QED BY <1>1, <1>5, <2>1 DEF PiStarts
<1>6. CASE Beat
  BY <1>6 DEF Beat, Afresh
<1>7. CASE WantReport \/ PiDrops \/ RunOver \/ LookLost
  BY <1>1, <1>3, <1>7 DEF WantReport, PiDrops, RunOver, LookLost
<1>8. ASSUME NEW k, ReplyLost(k) \/ ReplyDone(k), k \in DOMAIN replies PROVE Afresh'
  <2>1. replies # <<>>
    BY <1>8
  <2> QED BY <1>1, <1>8, <2>1 DEF ReplyLost, ReplyDone
<1>9. ASSUME stage' # "up" PROVE Afresh'
  BY <1>9 DEF Afresh
<1>10. CASE BeatElsewhere \/ Stopped \/ Dispose \/ DisposedOf \/ Goes
  BY <1>9, <1>10 DEF BeatElsewhere, Stopped, Dispose, DisposedOf, Goes
<1>11. ASSUME NEW f, Shutdown(f) PROVE Afresh'
  BY <1>9, <1>11 DEF Shutdown
<1>12. ASSUME NEW k, NEW queued, NEW answered, SendBack(k, queued, answered) PROVE Afresh'
  BY <1>9, <1>12 DEF SendBack
<1>13. CASE ReportSent \/ OldReportSent
  BY <1>1, <1>13 DEF ReportSent, OldReportSent, Sent
<1>14. CASE NextSession
  BY <1>14 DEF NextSession, Stages, AfterDispose, Afresh
<1>15. CASE FallsSilent \/ Reaped \/ LetGo
  BY <1>1, <1>15 DEF FallsSilent, Reaped, LetGo, RowEnds
<1>16. CASE DaemonRestarts
  BY <1>1, <1>16 DEF DaemonRestarts
<1>17. CASE UNCHANGED vars
  BY <1>1, <1>17 DEF vars
<1> QED BY <1>2, <1>4, <1>5, <1>6, <1>7, <1>8, <1>10, <1>11, <1>12, <1>13, <1>14, <1>15, <1>16, <1>17
        DEF Next, Arrives, Resends, Finishes

---------------------------------------------------------------------------
(* What the phone may be told is refused or lost *)

(* Prompt i is nowhere it could still be started from: neither waiting nor *)
(* on its way, and queued by pi only as its session is disposed of.        *)
Spent(i) ==
  /\ acceptedIn[i] # 0
  /\ ~In(Box, i) /\ ~Held(replies, i)
  /\ given[i].by = "queued" => stage = "disposing"

(* A report, and one of a box of reports, says prompt i is given up. *)
Says(os, i) == i \in DOMAIN os /\ os[i] \in GivenUp

SaidIn(box, i) == \E k \in DOMAIN box : Says(box[k], i)

Said(i) == Says(settled, i) \/ SaidIn(outbox, i) \/ SaidIn(oldbox, i)

(* Whatever is said, reported or known to be given up is spent, or its pane *)
(* was let go of alive.                                                    *)
SaidSpent ==
  \A i \in Id :
    /\ Said(i) => Spent(i)
    /\ prompts[i].outcome \in GivenUp => Spent(i) \/ i \in cutOff
    /\ i \in givenUp =>
         acceptedIn[i] # 0 /\ (acceptedIn[i] = life => Spent(i) \/ i \in cutOff)

(* A disposed session goes on to its report, or is left. *)
LEMMA StageStep ==
  ASSUME stage = "disposing", [Next]_vars
  PROVE  stage' \in {"disposing", "reporting", "between"}
BY DEF Next, Arrives, Resends, Finishes, PhoneSends, PhoneAsks, PiStarts, Ages, Beat, BeatElsewhere, ReplyArrives, WantReport,
       SendBack, ReplyDone, ReplyLost, PiDrops, RunOver, LookLost, ReportSent, OldReportSent, Shutdown,
       Stopped, Dispose, DisposedOf, NextSession, Goes, FallsSilent, Reaped, LetGo, RowEnds, DaemonRestarts, vars

(* A spent prompt stays spent. *)
LEMMA SpentStays ==
  ASSUME PathTyped, Stages, Afresh, Moves, [Next]_vars, NEW i \in Id, Spent(i)
  PROVE  Spent(i)'
<1>1. MovesOf(i)
  BY DEF Moves
<1>2. given'[i].by = "queued" => stage' = "disposing"
  <2>1. given'[i].by = "queued" => stage = "disposing"
    BY <1>1 DEF MovesOf, Spent
  <2>2. given'[i].by = "queued" => stage' \notin AfterDispose
    BY StagesStep DEF Stages
  <2> QED BY <2>1, <2>2, StageStep DEF AfterDispose
<1> QED BY <1>1, <1>2 DEF MovesOf, Spent

(* What is added to a box of reports, or taken from its head. *)
LEMMA SaidInBox ==
  ASSUME NEW box \in Seq(ReportedOutcomes), NEW i
  PROVE  /\ \A os \in ReportedOutcomes : SaidIn(Append(box, os), i) => SaidIn(box, i) \/ Says(os, i)
         /\ box # <<>> => /\ SaidIn(Tail(box), i) => SaidIn(box, i)
                          /\ Says(Head(box), i) => SaidIn(box, i)
         /\ ~SaidIn(<<>>, i)
<1>1. ASSUME NEW os \in ReportedOutcomes, SaidIn(Append(box, os), i)
      PROVE  SaidIn(box, i) \/ Says(os, i)
  <2> DEFINE a == Append(box, os)
             l == Len(box) + 1
             D == DOMAIN box
  <2>1. DOMAIN a = D \cup {l} /\ a[l] = os /\ \A k \in D : a[k] = box[k]
    BY Appended
  <2>2. SaidIn(a, i)
    BY <1>1
  <2> HIDE DEF a, l
  <2> QED BY <2>1, <2>2 DEF SaidIn
<1>2. ASSUME box # <<>>
      PROVE  /\ SaidIn(Tail(box), i) => SaidIn(box, i)
             /\ Says(Head(box), i) => SaidIn(box, i)
  <2>1. /\ Len(Tail(box)) = Len(box) - 1 /\ Tail(box) \in Seq(ReportedOutcomes)
        /\ \A k \in 1..(Len(box) - 1) : Tail(box)[k] = box[k + 1]
        /\ Head(box) = box[1] /\ Len(box) \in Nat \ {0} /\ DOMAIN box = 1..Len(box)
    BY <1>2, HeadTailProperties, EmptySeq
  <2>2. DOMAIN Tail(box) = 1..(Len(box) - 1)
    BY <2>1
  <2>3. ASSUME SaidIn(Tail(box), i) PROVE SaidIn(box, i)
    <3>1. PICK k \in 1..(Len(box) - 1) : Says(box[k + 1], i)
      BY <2>1, <2>2, <2>3 DEF SaidIn
    <3>2. k + 1 \in DOMAIN box
      BY <2>1
    <3> QED BY <3>1, <3>2 DEF SaidIn
  <2>4. 1 \in DOMAIN box
    BY <2>1
  <2> QED BY <2>1, <2>3, <2>4 DEF SaidIn
<1>3. ~SaidIn(<<>>, i)
  BY DEF SaidIn
<1> QED BY <1>1, <1>2, <1>3

(* Only what is newly settled is newly said. *)
LEMMA SaidStep ==
  ASSUME PathTyped, [Next]_vars, NEW i \in Id, Said(i)'
  PROVE  Said(i) \/ Says(settled', i)
<1>t. /\ outbox \in Seq(ReportedOutcomes) /\ oldbox \in Seq(ReportedOutcomes)
      /\ settled \in ReportedOutcomes /\ settled' \in ReportedOutcomes
  BY TypedStep DEF PathTyped
<1>1. ASSUME outbox' \in {outbox, <<>>, Append(outbox, settled), Append(outbox, settled')}
      PROVE  SaidIn(outbox', i) => SaidIn(outbox, i) \/ Says(settled, i) \/ Says(settled', i)
  BY <1>t, <1>1, SaidInBox
<1>2. ASSUME outbox # <<>>, outbox' = Tail(outbox)
      PROVE  SaidIn(outbox', i) => SaidIn(outbox, i)
  BY <1>t, <1>2, SaidInBox
<1>3. ASSUME oldbox # <<>>, oldbox' = Tail(oldbox)
      PROVE  SaidIn(oldbox', i) => SaidIn(oldbox, i)
  BY <1>t, <1>3, SaidInBox
<1>4. \/ outbox' \in {outbox, <<>>, Append(outbox, settled), Append(outbox, settled')}
      \/ outbox # <<>> /\ outbox' = Tail(outbox)
      \/ NextSession
  BY DEF Next, Arrives, Resends, Finishes, PhoneSends, PhoneAsks, PiStarts, Ages, Beat, BeatElsewhere, ReplyArrives, WantReport,
       SendBack, ReplyDone, ReplyLost, PiDrops, RunOver, LookLost, ReportSent, OldReportSent, Shutdown,
       Stopped, Dispose, DisposedOf, Goes, FallsSilent, Reaped, LetGo, RowEnds, DaemonRestarts, vars, Report
<1>5. \/ oldbox' \in {oldbox, <<>>, outbox}
      \/ oldbox # <<>> /\ oldbox' = Tail(oldbox)
  BY DEF Next, Arrives, Resends, Finishes, PhoneSends, PhoneAsks, PiStarts, Ages, Beat, BeatElsewhere, ReplyArrives, WantReport,
       SendBack, ReplyDone, ReplyLost, PiDrops, RunOver, LookLost, ReportSent, OldReportSent, Shutdown,
       Stopped, Dispose, DisposedOf, NextSession, Goes, FallsSilent, Reaped, LetGo, RowEnds, DaemonRestarts, vars
<1>6. SaidIn(oldbox', i) => SaidIn(oldbox, i) \/ SaidIn(outbox, i)
  BY <1>t, <1>3, <1>5, SaidInBox
<1>7. ASSUME NextSession
      PROVE  ~SaidIn(outbox', i)
  <2>1. outbox' \in {<<>>, <<<<>>>>}
    BY <1>7 DEF NextSession
  <2>2. ~SaidIn(<<<<>>>>, i)
    BY DEF SaidIn, Says
  <2> QED BY <2>1, <2>2, <1>t, SaidInBox
<1> QED BY <1>1, <1>2, <1>4, <1>6, <1>7 DEF Said

(* All that holds of the path at once. *)
PathInv ==
  /\ PathTyped /\ WaitsOnce /\ OnItsWayOnce /\ OnePlace /\ Known
  /\ RightSession /\ Stages /\ Afresh /\ SaidSpent

(* What the pane newly says is given up is spent: what it refuses came in  *)
(* a reply, and what it says is lost the tracker had queued while pi had   *)
(* nothing queued any more.                                                *)
LEMMA NewlySaid ==
  ASSUME PathInv, Moves, [Next]_vars, NEW i \in Id, Says(settled', i), ~Says(settled, i)
  PROVE  Spent(i)'
<1>i. PathTyped /\ OnePlace /\ Known /\ Stages
  BY DEF PathInv
<1>s. ASSUME NEW S, NEW o, NEW os, Says(SettledAs(S, o, os), i)
      PROVE  (i \in S /\ o \in GivenUp) \/ (i \notin S /\ Says(os, i))
  BY <1>s DEF SettledAs, Says
<1>1. ASSUME NEW k \in DOMAIN replies, NEW refusing \in SUBSET Id, ReplyArrives(k, refusing)
      PROVE  Spent(i)'
  <2> DEFINE messages == replies[k]
             refused == {j \in Range(messages) : Refuses(j, refusing)}
             handed == Range(messages) \ refused
             o == IF busy THEN "queued" ELSE "taken"
  <2>1. /\ settled' = SettledAs(refused, "refused", SettledAs(handed, o, settled))
        /\ given' = HandedOver(messages, handed) /\ replies' = RemoveAt(replies, k)
        /\ Box' = Box /\ acceptedIn' = acceptedIn
    BY <1>1 DEF ReplyArrives, Box, dvars
  <2>2. i \in refused
    <3>1. o \notin GivenUp
      BY DEF GivenUp
    <3> HIDE DEF refused, handed, o
    <3> QED BY <1>s, <2>1, <3>1
  <2>3. In(messages, i) /\ Held(replies, i) /\ i \notin handed
    BY <2>2 DEF Range, In, Held
  <2>4. ~Held(replies', i)
    BY <1>i, <2>1, <2>3, RemovedReply DEF PathInv, PathTyped, OnItsWayOnce
  <2> HIDE DEF messages, handed
  <2>5. given'[i] = given[i]
    BY <2>1, <2>3 DEF HandedOver
  <2>6. ~In(Box, i) /\ given[i].by = "no" /\ acceptedIn[i] # 0
    BY <1>i, <2>3 DEF OnePlace, Known, WithPi
  <2> QED BY <2>1, <2>4, <2>5, <2>6 DEF Spent
<1>2. ASSUME i \in queuedIn PROVE ~In(Box, i) /\ ~Held(replies, i) /\ acceptedIn[i] # 0
  BY <1>2, <1>i DEF Stages, OnePlace, Known, WithPi
<1>3. CASE LookLost
  <2>1. settled' = SettledAs(queuedIn, "lost", settled) /\ ~busy
    BY <1>3 DEF LookLost
  <2>2. i \in queuedIn
    BY <1>s, <2>1
  <2>3. Box' = Box /\ replies' = replies /\ acceptedIn' = acceptedIn /\ given' = given
    BY <1>3 DEF LookLost, Box, dvars
  <2>4. given[i].by # "queued"
    BY <1>i, <2>1 DEF Stages
  <2> QED BY <1>2, <2>2, <2>3, <2>4 DEF Spent
<1>4. CASE Dispose
  <2>1. settled' = SettledAs(queuedIn, "lost", settled)
    BY <1>4 DEF Dispose, LeftQueued
  <2>2. i \in queuedIn
    BY <1>s, <2>1
  <2>3. Box' = Box /\ replies' = replies /\ acceptedIn' = acceptedIn /\ given' = Dropped
    BY <1>4 DEF Dispose, Box, dvars
  <2>4. given'[i].by # "queued"
    BY <1>i, <2>3, DroppedNone
  <2> QED BY <1>2, <2>2, <2>3, <2>4 DEF Spent
<1>5. ASSUME NEW j \in Id, PiStarts(j) PROVE FALSE
  <2>1. settled' \in {settled, SettledAs({j}, "taken", settled)}
    BY <1>5 DEF PiStarts
  <2> QED BY <1>s, <2>1 DEF GivenUp
<1>6. settled' # settled /\ settled' # <<>>
  BY DEF Says
<1> QED BY <1>1, <1>3, <1>4, <1>5, <1>6
    DEF Next, Arrives, Resends, Finishes, PhoneSends, PhoneAsks, Ages, Beat, BeatElsewhere, WantReport,
       SendBack, ReplyDone, ReplyLost, PiDrops, RunOver, ReportSent, OldReportSent, Shutdown,
       Stopped, DisposedOf, NextSession, Goes, FallsSilent, Reaped, LetGo, RowEnds, DaemonRestarts, vars

(* What the daemon newly settles as refused or lost is spent: a report     *)
(* said so, or the pane that had it ended or fell silent.                  *)
LEMMA NewlySettled ==
  ASSUME PathInv, Moves, [Next]_vars, NEW i \in Id,
         prompts'[i].outcome \in GivenUp, prompts'[i].outcome # prompts[i].outcome
  PROVE  Spent(i)' \/ i \in cutOff'
<1> USE PathAssumption
<1>i. PathTyped /\ TypeOK /\ OnePlace /\ Known /\ Stages /\ Afresh /\ SaidSpent
  BY DEF PathInv, PathTyped
<1>o. Open(prompts[i]) => acceptedIn[i] # 0
  BY <1>i DEF Open, Unsettled, Known
<1>n. \A ps : ps \in {prompts[i], NoDelivery} => ps # prompts'[i]
  BY DEF NoDelivery, GivenUp
<1>1. ASSUME NEW j \in Id, PhoneSends(j) PROVE FALSE
  <2>1. CASE j = i
    BY <1>1, <2>1 DEF PhoneSends, Queue, AfterQueue, GivenUp
  <2>2. CASE j # i
    BY <1>1, <1>i, <1>n, <2>2, QueuedOutcome DEF PhoneSends
  <2> QED BY <2>1, <2>2
<1>2. ASSUME NEW j \in Id, PhoneAsks(j) PROVE FALSE
  BY <1>2, AskedOutcome DEF PhoneAsks, GivenUp
<1>3. CASE Beat \/ BeatElsewhere
  <2>1. WentOn /\ Ended(PaneRow, ThePane, "another", TRUE) /\ replies' \in {<<>>, Append(replies, <<>>)}
    BY <1>3, <1>i, TakenOutcome DEF Beat, BeatElsewhere
  <2>2. Box' = <<>> /\ acceptedIn[i] # 0
    BY <1>i, <1>o, <2>1, EndedOutcome, EmptiedBox DEF Ended
  <2>3. replies = <<>> /\ given[i].by # "queued"
    BY <1>3, <1>i, <2>1 DEF Beat, BeatElsewhere, WentOn, Afresh
  <2>4. \A j : ~Held(replies', j)
    BY <2>1, <2>3 DEF Held, In
  <2> QED BY <1>3, <2>2, <2>3, <2>4, NothingIn DEF Beat, BeatElsewhere, Spent
<1>4. ASSUME NEW k \in DOMAIN replies, NEW queued \in BOOLEAN, NEW answered \in BOOLEAN,
             SendBack(k, queued, answered)
      PROVE  FALSE
  <2>1. CASE ~queued
    BY <1>4, <2>1 DEF SendBack, dvars
  <2>2. CASE queued /\ Head(replies[k]) # i
    BY <1>4, <1>i, <1>n, <2>2, QueuedOutcome DEF SendBack
  <2>3. CASE queued /\ Head(replies[k]) = i
    BY <1>4, <2>3 DEF SendBack, Queue, AfterQueue, GivenUp
  <2> QED BY <2>1, <2>2, <2>3
<1>5. ASSUME NEW report, Sent(report) PROVE Says(report, i)
  BY <1>5, ReportedOutcome DEF Sent, dvars, Says
<1>6. CASE ReportSent
  <2>1. Says(Head(outbox), i) /\ outbox # <<>>
    BY <1>5, <1>6 DEF ReportSent
  <2>2. Said(i)
    BY <1>i, <2>1, SaidInBox DEF Said, PathTyped
  <2> QED BY <1>i, <2>2, SpentStays DEF SaidSpent
<1>7. CASE OldReportSent
  <2>1. Says(Head(oldbox), i) /\ oldbox # <<>>
    BY <1>5, <1>7 DEF OldReportSent
  <2>2. Said(i)
    BY <1>i, <2>1, SaidInBox DEF Said, PathTyped
  <2> QED BY <1>i, <2>2, SpentStays DEF SaidSpent
<1>8. ASSUME NEW reason, Unregister(reason) \/ UNCHANGED <<dvars, daemonVars>>
      PROVE  Box' = <<>> /\ acceptedIn[i] # 0
  <2>1. CASE Unregister(reason)
    BY <1>i, <1>o, <2>1, EndedOutcome, EmptiedBox DEF Unregister, Ended
  <2>2. CASE UNCHANGED <<dvars, daemonVars>>
    BY <2>2 DEF dvars
  <2> QED BY <1>8, <2>1, <2>2
<1>9. CASE Stopped
  <2>1. Box' = <<>> /\ acceptedIn[i] # 0
    BY <1>8, <1>9 DEF Stopped
  <2> QED BY <1>9, <2>1, NothingIn DEF Stopped, Spent
<1>10. CASE Goes
  <2>1. Box' = <<>> /\ acceptedIn[i] # 0
    BY <1>8, <1>10 DEF Goes
  <2>2. given'[i].by # "queued"
    BY <1>10, <1>i, DroppedNone DEF Goes
  <2> QED BY <1>10, <2>1, <2>2, NothingIn DEF Goes, Spent
<1>11. CASE FallsSilent
  <2>1. Box' = <<>> /\ Open(prompts[i]) /\ InInbox(inboxes, i, PaneRow)
    BY <1>11, <1>i, SilentOutcome, EmptiedBox DEF FallsSilent, Silent
  <2>2. In(Box, i)
    BY <1>i, <2>1 DEF InInbox, In, Box, PathTyped
  <2>3. ~Held(replies, i) /\ given[i].by = "no"
    BY <1>i, <2>2 DEF OnePlace, WithPi
  <2> QED BY <1>11, <1>o, <2>1, <2>3, NothingIn DEF FallsSilent, Spent
<1>12. CASE Reaped
  <2>1. Box' = <<>> /\ acceptedIn[i] # 0
    BY <1>12, <1>i, <1>o, EndedOutcome, EmptiedBox DEF Reaped, RowEnds, Ended
  <2>2. replies = <<>> /\ given[i].by # "queued"
    BY <1>12, <1>i DEF Reaped, RowEnds, Stages, AfterDispose
  <2> QED BY <1>12, <2>1, <2>2, NothingIn DEF Reaped, RowEnds, Spent
<1>15. CASE LetGo
  <2>1. Box' = <<>> /\ acceptedIn[i] # 0 /\ Open(prompts[i])
    BY <1>15, <1>i, <1>o, EndedOutcome, EmptiedBox DEF LetGo, RowEnds, Ended
  <2>2. i \in InboxIds(inboxes, PaneRow) \/ i \in Had
    BY <1>15 DEF LetGo, RowEnds, Ended, SettledBy, GivenTo, Had
  <2>3. CASE i \in Had
    BY <1>15, <2>3 DEF LetGo
  <2>4. CASE i \in InboxIds(inboxes, PaneRow)
    <3>1. In(Box, i)
      BY <1>i, <2>4 DEF InboxIds, InInbox, In, Box, PathTyped
    <3>2. ~Held(replies, i) /\ given[i].by = "no"
      BY <1>i, <3>1 DEF OnePlace, WithPi
    <3> QED BY <1>15, <2>1, <3>2, NothingIn DEF LetGo, RowEnds, Spent
  <2> QED BY <2>2, <2>3, <2>4
<1>16. ASSUME NEW j \in Id, Ages(j) PROVE FALSE
  BY <1>16, <1>i DEF Ages, Age, TypeOK, DeliveryRecord
<1>13. CASE DaemonRestarts
  BY <1>13 DEF DaemonRestarts, Restart, NoDelivery, GivenUp
<1>14. UNCHANGED dvars => FALSE
  BY DEF dvars
<1> QED BY <1>1, <1>2, <1>3, <1>4, <1>6, <1>7, <1>9, <1>10, <1>11, <1>12, <1>13, <1>14, <1>15, <1>16
    DEF Next, Arrives, Resends, Finishes, PiStarts, ReplyArrives, WantReport, ReplyDone, ReplyLost,
       PiDrops, RunOver, LookLost, Shutdown, Dispose, DisposedOf, NextSession, vars, dvars

LEMMA SaidSpentStep ==
  ASSUME PathInv, Moves, [Next]_vars
  PROVE  SaidSpent'
<1>i. PathTyped /\ Stages /\ Afresh /\ SaidSpent
  BY DEF PathInv
<1> SUFFICES ASSUME NEW i \in Id
             PROVE  /\ Said(i)' => Spent(i)'
                    /\ prompts'[i].outcome \in GivenUp => Spent(i)' \/ i \in cutOff'
                    /\ i \in givenUp' =>
                         acceptedIn'[i] # 0 /\ (acceptedIn'[i] = life' => Spent(i)' \/ i \in cutOff')
  BY DEF SaidSpent
<1>c. cutOff \subseteq cutOff'
  BY DEF Next, Arrives, Resends, Finishes, PhoneSends, PhoneAsks, PiStarts, Ages, Beat, BeatElsewhere,
         ReplyArrives, WantReport, SendBack, ReplyDone, ReplyLost, PiDrops, RunOver, LookLost, ReportSent,
         OldReportSent, Shutdown, Stopped, Dispose, DisposedOf, NextSession, Goes, FallsSilent, Reaped,
         LetGo, RowEnds, DaemonRestarts, vars
<1>1. Said(i)' => Spent(i)'
  <2>1. Said(i)' => Said(i) \/ (Says(settled', i) /\ ~Says(settled, i))
    BY <1>i, SaidStep DEF Said
  <2> QED BY <1>i, <2>1, NewlySaid, SpentStays DEF SaidSpent
<1>2. prompts'[i].outcome \in GivenUp => Spent(i)' \/ i \in cutOff'
  BY <1>i, <1>c, NewlySettled, SpentStays DEF SaidSpent
<1>3. ASSUME i \in givenUp'
      PROVE  acceptedIn'[i] # 0 /\ (acceptedIn'[i] = life' => Spent(i)' \/ i \in cutOff')
  <2>1. CASE i \in givenUp
    <3>1. /\ acceptedIn[i] # 0 /\ acceptedIn'[i] = acceptedIn[i]
          /\ acceptedIn[i] = life => Spent(i)' \/ i \in cutOff'
      BY <1>i, <1>c, <2>1, SpentStays DEF SaidSpent, Moves, MovesOf
    <3>2. life' \in {life, life + 1}
      BY DEF Next, Arrives, Resends, Finishes, PhoneSends, PhoneAsks, PiStarts, Ages, Beat, BeatElsewhere,
       ReplyArrives, WantReport, SendBack, ReplyDone, ReplyLost, PiDrops, RunOver, LookLost, ReportSent,
       OldReportSent, Sent, Shutdown, Stopped, Unregister, Dispose, DisposedOf, NextSession, Goes,
       FallsSilent, Reaped, LetGo, RowEnds, DaemonRestarts, vars
    <3>3. acceptedIn[i] \in 0..life /\ life \in Nat
      BY <1>i DEF PathTyped
    <3> QED BY <3>1, <3>2, <3>3
  <2>2. CASE i \notin givenUp
    <3>1. PhoneAsks(i)
      <4>1. ASSUME NEW j \in Id, PhoneAsks(j) PROVE j = i
        BY <1>3, <2>2, <4>1 DEF PhoneAsks
      <4> QED BY <1>3, <2>2, <4>1 DEF Next, Arrives, Resends, Finishes, PhoneSends, PiStarts, Ages, Beat,
                BeatElsewhere, ReplyArrives, WantReport, SendBack, ReplyDone, ReplyLost, PiDrops, RunOver,
                LookLost, ReportSent, OldReportSent, Shutdown, Stopped, Dispose, DisposedOf, NextSession,
                Goes, FallsSilent, Reaped, LetGo, RowEnds, DaemonRestarts, vars
    <3>2. /\ acceptedIn[i] # 0 /\ acceptedIn' = acceptedIn /\ life' = life
          /\ \/ prompts[i].outcome \in GivenUp
             \/ acceptedIn[i] \notin {0, life}
      BY <1>3, <2>2, <3>1 DEF PhoneAsks, Answer, GivenUp
    <3>3. prompts[i].outcome \in GivenUp => Spent(i)' \/ i \in cutOff'
      BY <1>i, <1>c, SpentStays DEF SaidSpent
    <3> QED BY <3>2, <3>3
  <2> QED BY <2>1, <2>2
<1> QED BY <1>1, <1>2, <1>3

---------------------------------------------------------------------------
(* The theorems *)

LEMMA InitInv == Init => PathInv
<1> SUFFICES ASSUME Init PROVE PathInv
  OBVIOUS
<1>1. PathTyped
  BY InitTyped
<1>2. Box = <<>> /\ replies = <<>>
  BY PathAssumption DEF Init, DInit, Box
<1>3. \A i \in Id : given[i].by = "no" /\ prompts[i].outcome = "unknown"
  BY DEF Init, DInit, Untouched, NoDelivery
<1>4. \A i \in Id : ~Said(i)
  <2>1. settled = <<>> /\ outbox = <<<<>>>> /\ oldbox = <<>> /\ \A i : ~Says(<<>>, i)
    BY DEF Init, Says
  <2>2. \A i : ~SaidIn(outbox, i) /\ ~SaidIn(oldbox, i)
    BY <2>1 DEF SaidIn
  <2> QED BY <2>1, <2>2 DEF Said
<1>5. WaitsOnce /\ OnItsWayOnce /\ OnePlace /\ Known
  BY <1>2, <1>3, NothingIn DEF WaitsOnce, OnItsWayOnce, OnePlace, Known, WithPi
<1>6. RightSession /\ Stages /\ Afresh /\ SaidSpent
  BY <1>2, <1>3, <1>4 DEF Init, RightSession, Stages, Afresh, SaidSpent, GivenUp
<1> QED BY <1>1, <1>5, <1>6 DEF PathInv

LEMMA InvStep ==
  ASSUME PathInv, [Next]_vars
  PROVE  PathInv'
<1>1. Moves
  BY MovesStep DEF PathInv
<1>2. PathTyped' /\ Known' /\ RightSession' /\ Stages' /\ Afresh'
  BY <1>1, TypedStep, KnownStep, RightSessionStep, StagesStep, AfreshStep DEF PathInv
<1>3. OnePlace' /\ SaidSpent'
  BY <1>1, OnePlaceStep, SaidSpentStep DEF PathInv
<1>4. WaitsOnce' /\ OnItsWayOnce'
  BY <1>1 DEF Moves, WaitsOnce, OnItsWayOnce
<1> QED BY <1>2, <1>3, <1>4 DEF PathInv

(* The path's invariant holds throughout.                                  *)
THEOREM PathInvariant == Spec => []PathInv
<1> QED BY InitInv, InvStep, PTL DEF Spec

(* The daemon, the pane and its pi together only ever take the delivery's  *)
(* steps: the path implements the delivery (delivery.ts).                  *)
THEOREM ImplementsDelivery == Spec => DSpec
<1>1. Init => DInit
  BY DEF Init
<1>2. PathInv /\ [Next]_vars => [DNext]_dvars
  BY DeliveryStep DEF PathInv
<1> QED BY <1>1, <1>2, PathInvariant, PTL DEF Spec, DSpec

(* So no prompt of the path's is left that nothing will answer for.        *)
THEOREM PathAnswerable == Spec => []Answerable
<1> QED BY ImplementsDelivery, AlwaysAnswerable, PTL

(* And each prompt's outcome goes through the journey the phone is promised. *)
THEOREM PathJourney == Spec => JourneySpec
<1> QED BY ImplementsDelivery, ImplementsJourney, PTL

(* At most one copy of a prompt is anywhere, and pi only has it in the     *)
(* session it was sent for.                                                *)
THEOREM AlwaysHandedRight == Spec => []HandedRight
<1>1. PathInv => HandedRight
  <2> SUFFICES ASSUME PathInv PROVE HandedOnce /\ RightSession
    BY DEF HandedRight
  <2>1. RightSession
    BY DEF PathInv
  <2>2. ASSUME NEW i \in Id PROVE Copies(i) <= 1
    <3> DEFINE W == {k \in DOMAIN inboxes[PaneRow] : inboxes[PaneRow][k] = i}
               H == {kj \in (DOMAIN replies) \X (1..InboxBound) :
                       kj[2] <= Len(replies[kj[1]]) /\ replies[kj[1]][kj[2]] = i}
               g == IF given[i].by = "no" THEN 0 ELSE 1
    <3>0. PathTyped /\ WaitsOnce /\ OnItsWayOnce /\ OnePlace
      BY DEF PathInv
    <3>1. (W = {} \/ \E k : W = {k}) /\ (W # {} => In(Box, i))
      BY <3>0 DEF WaitsOnce, NoRepeat, In, Box
    <3>2. ASSUME NEW x \in H
          PROVE  /\ x[1] \in DOMAIN replies /\ x[2] \in DOMAIN replies[x[1]]
                 /\ replies[x[1]][x[2]] = i /\ x = <<x[1], x[2]>>
      <4>1. /\ x[1] \in DOMAIN replies /\ x[2] \in 1..InboxBound /\ x = <<x[1], x[2]>>
            /\ x[2] <= Len(replies[x[1]]) /\ replies[x[1]][x[2]] = i
        BY <3>2
      <4>2. replies[x[1]] \in Seq(Id)
        BY <3>0, <4>1 DEF PathTyped
      <4> QED BY <4>1, <4>2, BoundAssumption
    <3>3. H # {} => Held(replies, i)
      BY <3>2 DEF Held, In
    <3>4. \A x, y \in H : x = y
      BY <3>0, <3>2 DEF OnItsWayOnce, NoneTwice
    <3> HIDE DEF W, H
    <3>5. H = {} \/ \E x : H = {x}
      BY <3>4
    <3>6. /\ Cardinality(W) \in {0, 1} /\ (Cardinality(W) = 1 => W # {})
          /\ Cardinality(H) \in {0, 1} /\ (Cardinality(H) = 1 => H # {})
      BY <3>1, <3>5, FS_EmptySet, FS_Singleton
    <3>7. ~(W # {} /\ H # {}) /\ ~(W # {} /\ g = 1) /\ ~(H # {} /\ g = 1)
      BY <3>0, <3>1, <3>3 DEF OnePlace, WithPi
    <3>8. Copies(i) = Cardinality(W) + Cardinality(H) + g /\ g \in {0, 1}
      BY DEF Copies, Count, W, H
    <3> HIDE DEF g
    <3> QED BY <3>6, <3>7, <3>8
  <2> QED BY <2>1, <2>2 DEF HandedOnce
<1> QED BY <1>1, PathInvariant, PTL

(* What the phone was told is refused or lost pi does not start, unless    *)
(* the daemon let go of its pane alive, and a pane's end leaves nothing of *)
(* its own unsettled.                                                      *)
THEOREM AlwaysSettledForGood == Spec => SettledForGood
<1> DEFINE A == \A i \in Id : i \in givenUp \ cutOff /\ acceptedIn[i] = life => ~Starts(i)
<1>1. PathInv /\ [Next]_vars => [A]_vars
  <2> SUFFICES ASSUME PathInv, Next, NEW i \in Id, i \in givenUp \ cutOff, acceptedIn[i] = life, Starts(i)
               PROVE  FALSE
    BY DEF vars
  <2>1. Spent(i)
    BY DEF PathInv, SaidSpent
  <2>2. given[i].by # "started" /\ given'[i].by = "started"
    BY DEF Starts
  <2>3. ASSUME NEW k \in DOMAIN replies, NEW refusing, ReplyArrives(k, refusing) PROVE FALSE
    <3>1. \A j \in Range(replies[k]) : Held(replies, j)
      BY DEF Range, Held, In
    <3> QED BY <2>1, <2>2, <2>3, <3>1 DEF ReplyArrives, HandedOver, Spent
  <2>4. ASSUME NEW j \in Id, PiStarts(j) PROVE FALSE
    BY <2>1, <2>2, <2>4 DEF PiStarts, Spent, PathInv, PathTyped
  <2>5. given' \in {given, Dropped} => FALSE
    BY <2>2, DroppedNone DEF PathInv
  <2> QED BY <2>3, <2>4, <2>5
      DEF Next, Arrives, Resends, Finishes, PhoneSends, PhoneAsks, Ages, Beat, BeatElsewhere, WantReport, SendBack, ReplyDone,
          ReplyLost, PiDrops, RunOver, LookLost, ReportSent, OldReportSent, Shutdown, Stopped, Dispose,
          DisposedOf, NextSession, Goes, FallsSilent, Reaped, LetGo, RowEnds, DaemonRestarts
<1>2. Spec => GivenUpStaysUp
  BY <1>1, PathInvariant, PTL DEF Spec, GivenUpStaysUp
<1>3. Spec => EndSettlesAll
  BY ImplementsDelivery, EndsSettle, PTL
<1> QED BY <1>2, <1>3 DEF SettledForGood
====
