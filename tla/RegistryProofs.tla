---- MODULE RegistryProofs ----
(***************************************************************************)
(* What the daemon's row table promises for every set of panes, session    *)
(* files, rows and prompts and whatever happens of Events: its types, that *)
(* a pane is in one place, that messages wait for live panes only, that    *)
(* what a pane was given is settled with it, that no session is started    *)
(* twice, that no pane waits on while something is queued for it, that a   *)
(* deleted row's pane stays away, and that no other pi is asked to end.    *)
(***************************************************************************)
EXTENDS Registry, FiniteSetTheorems, SequenceTheorems, WellFoundedInduction, TLAPS

---------------------------------------------------------------------------
(* Induction and recursion on the numbers up to n *)

(* A set that has 0 and, with a number, the next one has all of them. *)
LEMMA NatSets ==
  ASSUME NEW S, 0 \in S, \A n \in Nat : n \in S => n + 1 \in S
  PROVE  Nat \subseteq S
<1> DEFINE R == OpToRel(<, Nat)
           T == Nat \ S
<1>1. SUFFICES ASSUME T # {} PROVE FALSE
  OBVIOUS
<1>2. IsWellFoundedOn(R, Nat)
  BY NatLessThanWellFounded
<1>3. \A x, y \in Nat : y < x => <<y, x>> \in R
  BY DEF OpToRel
<1>4. PICK x \in T : \A y \in T : ~ (<<y, x>> \in R)
  <2> HIDE DEF R
  <2> QED BY <1>1, <1>2, WFMin
<1>5. x # 0 /\ x \in Nat
  OBVIOUS
<1>6. x - 1 \in Nat /\ x - 1 < x /\ (x - 1) + 1 = x
  BY <1>5
<1>7. x - 1 \in S
  <2> HIDE DEF R
  <2> QED BY <1>3, <1>4, <1>6
<1> QED BY <1>6, <1>7

LEMMA UpTo ==
  ASSUME NEW n \in Nat, NEW S, 0 \in S, \A k \in 0..(n - 1) : k \in S => k + 1 \in S
  PROVE  0..n \subseteq S
<1> DEFINE T == {k \in Nat : k <= n => k \in S}
<1>1. 0 \in T
  OBVIOUS
<1>2. ASSUME NEW k \in Nat, k \in T PROVE k + 1 \in T
  <2>1. CASE k + 1 <= n
    <3>1. k \in 0..(n - 1) /\ k <= n
      BY <2>1
    <3> QED BY <1>2, <3>1
  <2>2. CASE ~(k + 1 <= n)
    BY <2>2
  <2> QED BY <2>1, <2>2
<1>3. Nat \subseteq T
  <2> HIDE DEF T
  <2> QED BY <1>1, <1>2, NatSets
<1> QED BY <1>3

(* What begins with a and goes on by F is a function on 0..n. *)
Builds(g, n, a, F) == g[0] = a /\ \A k \in 1..n : g[k] = F[k][g[k - 1]]

LEMMA Recursion ==
  ASSUME NEW n \in Nat, NEW A, NEW a \in A, NEW F \in [1..n -> [A -> A]]
  PROVE  \E g \in [0..n -> A] : Builds(g, n, a, F)
<1> USE DEF Builds
<1> DEFINE Good(m, g) == g[0] = a /\ \A k \in 1..m : g[k] = F[k][g[k - 1]]
           S == {m \in 0..n : \E g \in [0..m -> A] : Good(m, g)}
<1>1. 0 \in S
  <2>1. [k \in 0..0 |-> a] \in [0..0 -> A]
    OBVIOUS
  <2>2. Good(0, [k \in 0..0 |-> a])
    OBVIOUS
  <2>3. 0 \in 0..n
    OBVIOUS
  <2> HIDE DEF Good
  <2> QED BY <2>1, <2>2, <2>3
<1>2. ASSUME NEW m \in 0..(n - 1), m \in S PROVE m + 1 \in S
  <2>1. PICK g \in [0..m -> A] : Good(m, g)
    BY <1>2
  <2> DEFINE h == [k \in 0..(m + 1) |-> IF k = m + 1 THEN F[m + 1][g[m]] ELSE g[k]]
  <2>2. F[m + 1][g[m]] \in A
    <3>1. m + 1 \in 1..n /\ m \in 0..m
      OBVIOUS
    <3>2. F[m + 1] \in [A -> A] /\ g[m] \in A
      BY <3>1
    <3> QED BY <3>2
  <2>3. h \in [0..(m + 1) -> A]
    BY <2>2
  <2>4. h[0] = a
    BY <2>1
  <2>5. ASSUME NEW k \in 1..(m + 1) PROVE h[k] = F[k][h[k - 1]]
    <3>1. CASE k = m + 1
      <4>1. h[k] = F[m + 1][g[m]] /\ h[k - 1] = g[m]
        BY <3>1
      <4> QED BY <3>1, <4>1
    <3>2. CASE k # m + 1
      <4>1. k \in 1..m /\ h[k] = g[k] /\ h[k - 1] = g[k - 1]
        BY <3>2
      <4>2. g[k] = F[k][g[k - 1]]
        BY <2>1, <4>1
      <4> HIDE DEF h
      <4> QED BY <4>1, <4>2
    <3> QED BY <3>1, <3>2
  <2>6. Good(m + 1, h)
    <3> HIDE DEF h
    <3> QED BY <2>4, <2>5
  <2>7. m + 1 \in 0..n
    OBVIOUS
  <2> HIDE DEF Good, h
  <2> QED BY <2>3, <2>6, <2>7
<1>3. n \in S
  <2>1. n \in 0..n
    OBVIOUS
  <2>2. 0..n \subseteq S
    <3> HIDE DEF S
    <3> QED BY <1>1, <1>2, UpTo
  <2> HIDE DEF S
  <2> QED BY <2>1, <2>2
<1> QED BY <1>3
---------------------------------------------------------------------------
(* What is left of a sequence without some ids *)

(* Its records are those of the sequence with other ids, each in one place *)
(* if that was so.                                                         *)
LEMMA LackingIs ==
  ASSUME NEW A, NEW q \in Seq(A), NEW ids
  PROVE  /\ Lacking(q, ids) \in Seq(A)
         /\ \A j \in 1..Len(Lacking(q, ids)) :
              \E i \in 1..Len(q) : Lacking(q, ids)[j] = q[i] /\ q[i].id \notin ids
         /\ \A i \in 1..Len(q) : q[i].id \notin ids =>
              \E j \in 1..Len(Lacking(q, ids)) : Lacking(q, ids)[j] = q[i]
         /\ (\A i, j \in 1..Len(q) : q[i].id = q[j].id => i = j) =>
              \A i, j \in 1..Len(Lacking(q, ids)) :
                Lacking(q, ids)[i].id = Lacking(q, ids)[j].id => i = j
<1> DEFINE n == Len(q)
           Next(k, l) == IF q[k].id \in ids THEN l ELSE Append(l, q[k])
           lacking[k \in 0..n] ==
             IF k = 0 THEN <<>>
             ELSE IF q[k].id \in ids THEN lacking[k - 1]
             ELSE Append(lacking[k - 1], q[k])
           F == [k \in 1..n |-> [l \in Seq(A) |-> Next(k, l)]]
<1>1. n \in Nat /\ \A k \in 1..n : q[k] \in A
  BY LenProperties, ElementOfSeq
<1>2. F \in [1..n -> [Seq(A) -> Seq(A)]]
  <2>1. \A k \in 1..n, l \in Seq(A) : Next(k, l) \in Seq(A)
    BY <1>1, AppendProperties
  <2> HIDE DEF Next
  <2> QED BY <2>1
<1>3. PICK g \in [0..n -> Seq(A)] : g[0] = <<>> /\ \A k \in 1..n : g[k] = F[k][g[k - 1]]
  <2>1. <<>> \in Seq(A)
    OBVIOUS
  <2>2. n \in Nat
    BY <1>1
  <2> DEFINE Z == Seq(A)
  <2>3. /\ <<>> \in Z
        /\ F \in [1..n -> [Z -> Z]]
    BY <1>2, <2>1
  <2>4. \E g \in [0..n -> Z] : Builds(g, n, <<>>, F)
    <3> HIDE DEF F, n, Z
    <3> QED BY <2>2, <2>3, Recursion
  <2> QED BY <2>4 DEF Builds
<1>4. g = [k \in 0..n |-> IF k = 0 THEN <<>>
                          ELSE IF q[k].id \in ids THEN g[k - 1]
                          ELSE Append(g[k - 1], q[k])]
  <2>1. ASSUME NEW k \in 0..n, k # 0
        PROVE  g[k] = IF q[k].id \in ids THEN g[k - 1] ELSE Append(g[k - 1], q[k])
    <3>1. k \in 1..n /\ k - 1 \in 0..n
      BY <1>1, <2>1
    <3>2. g[k] = Next(k, g[k - 1])
      BY <1>3, <3>1
    <3> QED BY <3>2
  <2> HIDE DEF n
  <2> QED BY <1>3, <2>1
<1>5. lacking = [k \in 0..n |-> IF k = 0 THEN <<>>
                                ELSE IF q[k].id \in ids THEN lacking[k - 1]
                                ELSE Append(lacking[k - 1], q[k])]
  <2> HIDE DEF n
  <2> QED BY <1>4
<1>6. Lacking(q, ids) = lacking[n]
  BY DEF Lacking
<1>7. lacking[0] = <<>>
  <2>1. 0 \in 0..n
    BY <1>1
  <2> HIDE DEF lacking, n
  <2> QED BY <1>5, <2>1
<1>8. ASSUME NEW k \in 0..(n - 1)
      PROVE  lacking[k + 1] = IF q[k + 1].id \in ids THEN lacking[k] ELSE Append(lacking[k], q[k + 1])
  <2>1. k + 1 \in 0..n /\ k + 1 # 0 /\ (k + 1) - 1 = k
    BY <1>1
  <2> HIDE DEF lacking, n
  <2> QED BY <1>5, <2>1
<1> DEFINE From(k, l) == \A j \in 1..Len(l) : \E i \in 1..k : l[j] = q[i] /\ q[i].id \notin ids
           All(k, l) == \A i \in 1..k : q[i].id \notin ids => \E j \in 1..Len(l) : l[j] = q[i]
           Once(l) == \A i, j \in 1..Len(l) : l[i].id = l[j].id => i = j
           Distinct == \A i, j \in 1..n : q[i].id = q[j].id => i = j
           S == {k \in 0..n : /\ lacking[k] \in Seq(A)
                              /\ From(k, lacking[k])
                              /\ All(k, lacking[k])
                              /\ Distinct => Once(lacking[k])}
<1>9. 0 \in S
  <2>1. /\ <<>> \in Seq(A) /\ Len(<<>>) = 0 /\ 0 \in 0..n
        /\ 1..0 = {}
    BY <1>1
  <2> HIDE DEF lacking, n
  <2> QED BY <1>7, <2>1
<1>10. ASSUME NEW k \in 0..(n - 1), k \in S PROVE k + 1 \in S
  <2> DEFINE l == lacking[k]
  <2>1. k + 1 \in 1..n /\ k + 1 \in 0..n /\ q[k + 1] \in A /\ 1..(k + 1) = 1..k \cup {k + 1} /\ k \in Nat
    BY <1>1
  <2>2. l \in Seq(A) /\ From(k, l) /\ All(k, l) /\ (Distinct => Once(l))
    BY <1>10
  <2>3. CASE q[k + 1].id \in ids
    <3>1. lacking[k + 1] = l
      BY <1>8, <2>3
    <3>2. From(k + 1, l) /\ All(k + 1, l)
      BY <2>1, <2>2, <2>3
    <3> HIDE DEF From, All, Once, Distinct, lacking, n
    <3> QED BY <2>1, <2>2, <3>1, <3>2
  <2>4. CASE q[k + 1].id \notin ids
    <3> DEFINE m == Append(l, q[k + 1])
    <3>1. lacking[k + 1] = m
      BY <1>8, <2>4
    <3>2. /\ m \in Seq(A) /\ Len(m) = Len(l) + 1 /\ Len(l) \in Nat
          /\ m[Len(l) + 1] = q[k + 1]
          /\ \A j \in 1..Len(l) : m[j] = l[j]
      <4> HIDE DEF l
      <4> QED BY <2>1, <2>2, AppendProperties, LenProperties
    <3>3. 1..Len(m) = 1..Len(l) \cup {Len(l) + 1}
      <4>1. \A j \in Nat : 1..(j + 1) = 1..j \cup {j + 1}
        OBVIOUS
      <4> HIDE DEF l, m
      <4> QED BY <3>2, <4>1
    <3> HIDE DEF l, m
    <3>4. From(k + 1, m)
      <4> SUFFICES ASSUME NEW j \in 1..Len(m)
                   PROVE  \E i \in 1..(k + 1) : m[j] = q[i] /\ q[i].id \notin ids
        OBVIOUS
      <4>1. CASE j \in 1..Len(l)
        <5>1. PICK i \in 1..k : l[j] = q[i] /\ q[i].id \notin ids
          BY <2>2, <4>1
        <5> QED BY <2>1, <3>2, <4>1, <5>1
      <4>2. CASE j = Len(l) + 1
        <5>1. k + 1 \in 1..(k + 1)
          BY <2>1
        <5> QED BY <2>4, <3>2, <4>2, <5>1
      <4> QED BY <3>3, <4>1, <4>2
    <3>5. All(k + 1, m)
      BY <2>1, <2>2, <2>4, <3>2, <3>3
    <3>6. ASSUME Distinct PROVE Once(m)
      <4>1. ASSUME NEW j \in 1..Len(l) PROVE m[j].id # q[k + 1].id
        <5>1. PICK i \in 1..k : l[j] = q[i]
          BY <2>2
        <5>2. i \in 1..n /\ i # k + 1
          BY <1>1, <2>1
        <5> QED BY <2>1, <3>2, <3>6, <5>1, <5>2
      <4> QED BY <2>2, <3>2, <3>3, <3>6, <4>1
    <3> HIDE DEF From, All, Once, Distinct, lacking, n
    <3> QED BY <2>1, <3>1, <3>2, <3>4, <3>5, <3>6
  <2> QED BY <2>3, <2>4
<1>11. n \in S
  <2>1. n \in 0..n
    BY <1>1
  <2>2. 0..n \subseteq S
    <3> HIDE DEF S, n
    <3> QED BY <1>1, <1>9, <1>10, UpTo
  <2> HIDE DEF S
  <2> QED BY <2>1, <2>2
<1> HIDE DEF lacking
<1> QED BY <1>6, <1>11

(* A set of numbers has a least one. *)
LEMMA LeastIs ==
  ASSUME NEW I \in SUBSET Nat, I # {}
  PROVE  Min(I) \in I
<1> DEFINE R == OpToRel(<, Nat)
<1>1. IsWellFoundedOn(R, Nat)
  BY NatLessThanWellFounded
<1>2. \A x, y \in Nat : y < x => <<y, x>> \in R
  BY DEF OpToRel
<1>3. PICK x \in I : \A y \in I : ~ (<<y, x>> \in R)
  <2> HIDE DEF R
  <2> QED BY <1>1, WFMin
<1>4. \A y \in I : x <= y
  <2> SUFFICES ASSUME NEW y \in I PROVE x <= y
    OBVIOUS
  <2>1. ~(y < x) /\ x \in Nat /\ y \in Nat
    <3> HIDE DEF R
    <3> QED BY <1>2, <1>3
  <2> QED BY <2>1
<1> QED BY <1>3, <1>4 DEF Min

---------------------------------------------------------------------------
(* The daemon's state as one value, and what holds of it between requests *)

State == [rows : [Row -> RowRecord], stored : Seq(StoredRow), deleted : SUBSET DeletedRow,
          dropped : [File -> Pane \cup {None}], waits : SUBSET Pane,
          prompts : [Id -> DeliveryRecord], inboxes : [Row -> Seq(Message)]]

(* A row's panes are different ones, and it has one listed while it is     *)
(* live or silent, and whenever it holds one.                              *)
Sound(row) ==
  /\ \A j, k \in 1..Len(row.held) : row.held[j].id = row.held[k].id => j = k
  /\ row.pane # None => \A k \in 1..Len(row.held) : row.held[k].id # row.pane.id
  /\ row.pane = None => row.held = <<>>
  /\ row.state \in {"live", "silent"} <=> row.pane # None

(* No pane is of two rows. *)
Apart(rs) == \A r, q \in Row : r # q => PaneIds(rs[r]) \cap PaneIds(rs[q]) = {}

(* Messages wait for live rows only, and a prompt among them is its row's. *)
WaitingRight(s) ==
  /\ \A r \in Row : s.inboxes[r] # <<>> => s.rows[r].state = "live"
  /\ \A i \in Id, r \in Row : InInbox(s.inboxes, i, r) /\ Open(s.prompts[i]) => s.prompts[i].row = r

(* An unsettled prompt's pane is the prompt's row's. *)
Given(s, i) ==
  Open(s.prompts[i]) /\ s.prompts[i].pane # None =>
    s.prompts[i].row \in Row /\ s.prompts[i].pane \in PaneIds(s.rows[s.prompts[i].row])

(* A start on a file is the only one, and whoever runs the file lapsed. *)
Starts(rs, r) ==
  rs[r].start # None /\ rs[r].start.file # None =>
    \A q \in Row :
      /\ rs[q].start # None /\ rs[q].start.file = rs[r].start.file => q = r
      /\ rs[q].state = "live" /\ rs[q].pane.file = rs[r].start.file => rs[q].pane.lapsed

Good(s) ==
  /\ s \in State
  /\ \A r \in Row : Sound(s.rows[r])
  /\ Apart(s.rows)
  /\ WaitingRight(s)
  /\ \A i \in Id : Given(s, i)
  /\ \A r \in Row : Starts(s.rows, r)

(* Pane p is live, as this row. *)
LiveAs(row, p) == row.state = "live" /\ Lists(row, p)

(* A pane with a wait pending is known, and nothing is queued where it is  *)
(* live.                                                                   *)
Heard(s) ==
  \A p \in s.waits :
    p \in Registered(s) /\ \A r \in Row : LiveAs(s.rows[r], p) => s.inboxes[r] = <<>>

(* The pane of a deleted row is not known, nor one that reaping dropped.   *)
StaysGone(s) ==
  /\ \A p \in Pane : Deletes(s, p) => p \notin Registered(s)
  /\ \A f \in File : s.dropped[f] \notin Registered(s)

Calm(s) == Heard(s) /\ StaysGone(s)

(* From s to t panes may go, and N's may come: whoever waits on is still   *)
(* known, and what is live was, with what was queued for it or nothing.    *)
Follows(s, t, N) ==
  /\ Registered(t) \subseteq Registered(s) \cup N
  /\ t.waits \subseteq s.waits
  /\ (Registered(s) \cap t.waits) \ N \subseteq Registered(t)
  /\ \A r \in Row : \A q : q \notin N /\ LiveAs(t.rows[r], q) =>
       t.inboxes[r] = <<>> \/ (LiveAs(s.rows[r], q) /\ t.inboxes[r] = s.inboxes[r])

SameGone(s, t) == t.deleted = s.deleted /\ t.dropped = s.dropped

(* Panes go, and only gone ones are kept as dropped from a file.           *)
Reaps(s, t) ==
  /\ Follows(s, t, {}) /\ t.deleted = s.deleted
  /\ \A f \in File : t.dropped[f] = s.dropped[f] \/ t.dropped[f] \notin Registered(t)

(* Rows are deleted: their panes go, and are kept as deleted.              *)
Deletion(s, t) ==
  /\ Registered(t) \subseteq Registered(s)
  /\ \A q \in Registered(s) : q \in Registered(t) \/ Deletes(t, q)
  /\ \A q \in Pane : Deletes(s, q) => Deletes(t, q)

(* The same panes in the same rows, none of them live that was not.        *)
SamePanes(s, t) ==
  /\ SameGone(s, t) /\ t.waits = s.waits /\ t.inboxes = s.inboxes
  /\ \A r \in Row : PaneIds(t.rows[r]) = PaneIds(s.rows[r])
  /\ \A r \in Row : \A q : LiveAs(t.rows[r], q) => LiveAs(s.rows[r], q)

(* Pane p is one of row r from s to t, and no pane goes.                   *)
Joins(s, t, p, r) ==
  /\ SameGone(s, t) /\ t.waits = s.waits /\ t.inboxes = s.inboxes
  /\ Follows(s, t, {p})
  /\ p \in PaneIds(t.rows[r])

(* The panes a row has, by their ids. *)
LEMMA PanesAre ==
  ASSUME NEW row \in RowRecord
  PROVE  /\ PanesIn(row) \subseteq PaneRecord
         /\ \A x : x \in PanesIn(row) <=>
              (row.pane # None /\ x = row.pane) \/ \E k \in 1..Len(row.held) : x = row.held[k]
         /\ \A p : p \in PaneIds(row) <=> \E x \in PanesIn(row) : x.id = p
         /\ \A p : p \in PaneIds(row) <=>
              Lists(row, p) \/ \E k \in 1..Len(row.held) : row.held[k].id = p
         /\ PaneIds(row) \subseteq Pane
<1>1. /\ row.pane \in PaneRecord \cup {None} /\ row.held \in Seq(PaneRecord)
      /\ DOMAIN row.held = 1..Len(row.held)
      /\ \A k \in 1..Len(row.held) : row.held[k] \in PaneRecord
  <2>1. row.pane \in PaneRecord \cup {None} /\ row.held \in Seq(PaneRecord)
    BY DEF RowRecord
  <2> HIDE DEF PaneRecord
  <2> QED BY <2>1, LenProperties, ElementOfSeq
<1>2. \A x \in PaneRecord : x.id \in Pane
  BY DEF PaneRecord
<1>3. \A x : x \in PanesIn(row) <=>
         (row.pane # None /\ x = row.pane) \/ \E k \in 1..Len(row.held) : x = row.held[k]
  BY <1>1 DEF PanesIn
<1>4. \A x \in PanesIn(row) : x \in PaneRecord
  BY <1>1, <1>3
<1>5. \A p : p \in PaneIds(row) <=> \E x \in PanesIn(row) : x.id = p
  BY DEF PaneIds
<1>6. \A p : p \in PaneIds(row) <=>
        Lists(row, p) \/ \E k \in 1..Len(row.held) : row.held[k].id = p
  BY <1>3, <1>5 DEF Lists
<1> QED BY <1>2, <1>3, <1>4, <1>5, <1>6

(* Where a pane of a row is found. *)
LEMMA FoundIs ==
  ASSUME NEW s, Good(s), NEW r \in Row, NEW p \in PaneIds(s.rows[r])
  PROVE  /\ p \in Registered(s) /\ p \in Pane
         /\ RowOf(s, p) = r
         /\ PaneOf(s, p) \in PanesIn(s.rows[r]) /\ PaneOf(s, p).id = p
         /\ PaneOf(s, p) \in PaneRecord
         /\ \A x \in PanesIn(s.rows[r]) : x.id = p => PaneOf(s, p) = x
         /\ Lists(s.rows[r], p) => PaneOf(s, p) = s.rows[r].pane
         /\ IsLive(s, p) <=> s.rows[r].state = "live" /\ Lists(s.rows[r], p)
         /\ Lapsed(s, p) <=> s.rows[r].state = "live" /\ Lists(s.rows[r], p) /\ s.rows[r].pane.lapsed
<1>1. \A q \in Row : s.rows[q] \in RowRecord /\ Sound(s.rows[q])
  BY DEF Good, State
<1>2. Apart(s.rows)
  BY DEF Good
<1>3. \A q \in Row : p \in PaneIds(s.rows[q]) => q = r
  BY <1>2 DEF Apart
<1>4. RowOf(s, p) = r
  BY <1>3 DEF RowOf
<1>5. PICK y \in PanesIn(s.rows[r]) : y.id = p
  BY <1>1, PanesAre
<1>6. \A q \in Row : \A x \in PanesIn(s.rows[q]) : x.id = p => q = r
  BY <1>1, <1>3, PanesAre
<1>7. \A x \in PanesIn(s.rows[r]) : x.id = p => x = y
  <2>1. s.rows[r] \in RowRecord /\ Sound(s.rows[r])
    BY <1>1
  <2> SUFFICES ASSUME NEW x \in PanesIn(s.rows[r]), x.id = p PROVE x = y
    OBVIOUS
  <2>2. \A z : z \in PanesIn(s.rows[r]) <=>
              (s.rows[r].pane # None /\ z = s.rows[r].pane) \/ \E k \in 1..Len(s.rows[r].held) : z = s.rows[r].held[k]
    BY <2>1, PanesAre
  <2>3. /\ \A j, k \in 1..Len(s.rows[r].held) : s.rows[r].held[j].id = s.rows[r].held[k].id => j = k
        /\ (s.rows[r].pane # None) =>
             \A k \in 1..Len(s.rows[r].held) : s.rows[r].held[k].id # s.rows[r].pane.id
    BY <2>1 DEF Sound
  <2>4. x.id = y.id
    BY <1>5
  <2>5. CASE \E k \in 1..Len(s.rows[r].held) : x = s.rows[r].held[k]
    <3>1. PICK k \in 1..Len(s.rows[r].held) : x = s.rows[r].held[k]
      BY <2>5
    <3>2. CASE s.rows[r].pane # None /\ y = s.rows[r].pane
      BY <2>3, <2>4, <3>1, <3>2
    <3>3. CASE \E j \in 1..Len(s.rows[r].held) : y = s.rows[r].held[j]
      <4>1. PICK j \in 1..Len(s.rows[r].held) : y = s.rows[r].held[j]
        BY <3>3
      <4>2. j = k
        BY <2>3, <2>4, <3>1, <4>1
      <4> QED BY <3>1, <4>1, <4>2
    <3> QED BY <2>2, <3>2, <3>3
  <2>6. CASE s.rows[r].pane # None /\ x = s.rows[r].pane
    <3>1. ASSUME NEW j \in 1..Len(s.rows[r].held), y = s.rows[r].held[j] PROVE FALSE
      BY <2>3, <2>4, <2>6, <3>1
    <3> QED BY <2>2, <2>6, <3>1
  <2> QED BY <2>2, <2>5, <2>6
<1>8. PaneOf(s, p) = y
  <2>1. y \in UNION {PanesIn(s.rows[q]) : q \in Row}
    BY <1>5
  <2>2. \A x \in UNION {PanesIn(s.rows[q]) : q \in Row} : x.id = p => x = y
    BY <1>6, <1>7
  <2> QED BY <1>5, <2>1, <2>2 DEF PaneOf
<1>9. p \in Registered(s) /\ p \in Pane
  BY <1>1, PanesAre DEF Registered
<1>10. y \in PaneRecord
  BY <1>1, <1>5, PanesAre
<1>11. Lists(s.rows[r], p) => PaneOf(s, p) = s.rows[r].pane
  BY <1>1, <1>7, <1>8, PanesAre DEF Lists
<1>12. \A q \in Row : Lists(s.rows[q], p) => q = r
  BY <1>1, <1>3, PanesAre
<1>13. /\ IsLive(s, p) <=> s.rows[r].state = "live" /\ Lists(s.rows[r], p)
       /\ Lapsed(s, p) <=> s.rows[r].state = "live" /\ Lists(s.rows[r], p) /\ s.rows[r].pane.lapsed
  BY <1>12 DEF IsLive, Lapsed
<1> QED BY <1>4, <1>5, <1>7, <1>8, <1>9, <1>10, <1>11, <1>13

(* A registered pane is of a row. *)
LEMMA RowIs ==
  ASSUME NEW s, Good(s), NEW p \in Registered(s)
  PROVE  RowOf(s, p) \in Row /\ p \in PaneIds(s.rows[RowOf(s, p)])
BY DEF Registered, RowOf

LEMMA ApartStays ==
  ASSUME NEW rs, Apart(rs), NEW r \in Row, NEW us,
         \A q \in Row \ {r} : us[q] = rs[q],
         \A x \in PaneIds(us[r]), q \in Row \ {r} : x \notin PaneIds(rs[q])
  PROVE  Apart(us)
BY DEF Apart

LEMMA StartsStay ==
  ASSUME NEW rs, \A q \in Row : Starts(rs, q), NEW r \in Row, NEW us,
         \A q \in Row \ {r} : us[q] = rs[q],
         us[r].start \in {rs[r].start, None},
         us[r].state = "live" =>
           /\ rs[r].state = "live" /\ us[r].pane.file = rs[r].pane.file
           /\ rs[r].pane.lapsed => us[r].pane.lapsed
  PROVE  \A q \in Row : Starts(us, q)
BY DEF Starts

---------------------------------------------------------------------------
(* A pane's registration ends *)

LEMMA WithoutIs ==
  ASSUME NEW row \in RowRecord, Sound(row), NEW p \in PaneIds(row)
  PROVE  /\ Without(row, p) \in RowRecord
         /\ Sound(Without(row, p))
         /\ PaneIds(Without(row, p)) = PaneIds(row) \ {p}
         /\ Without(row, p).start = row.start
         /\ ~Lists(row, p) => Without(row, p).state = row.state /\ Without(row, p).pane = row.pane
         /\ Lists(row, p) => Without(row, p).state # "live"
<1> DEFINE new == Without(row, p)
<1>1. /\ row.held \in Seq(PaneRecord) /\ row.pane \in PaneRecord \cup {None}
      /\ row.start \in Start \cup {None} /\ row.state \in {"starting", "live", "silent", "stored"}
      /\ row = [state |-> row.state, pane |-> row.pane, held |-> row.held, start |-> row.start]
  <2> HIDE DEF PaneRecord, Start
  <2> QED BY DEF RowRecord
<1>2. None \notin PaneRecord
  BY NoneIsNoRecord
<1>3. SUFFICES /\ new \in RowRecord /\ Sound(new)
               /\ \A x : x \in PaneIds(new) <=> x \in PaneIds(row) /\ x # p
               /\ new.start = row.start
               /\ ~Lists(row, p) => new.state = row.state /\ new.pane = row.pane
               /\ Lists(row, p) => new.state # "live"
  OBVIOUS
<1>4. \A x : x \in PaneIds(row) <=>
        Lists(row, x) \/ \E k \in 1..Len(row.held) : row.held[k].id = x
  BY PanesAre
<1>5. CASE ~Lists(row, p)
  <2> DEFINE held == Lacking(row.held, {p})
  <2>1. /\ held \in Seq(PaneRecord)
        /\ \A j \in 1..Len(held) :
             \E i \in 1..Len(row.held) : held[j] = row.held[i] /\ row.held[i].id # p
        /\ \A i \in 1..Len(row.held) : row.held[i].id # p =>
             \E j \in 1..Len(held) : held[j] = row.held[i]
        /\ (\A i, j \in 1..Len(row.held) : row.held[i].id = row.held[j].id => i = j) =>
             \A i, j \in 1..Len(held) : held[i].id = held[j].id => i = j
    <3> DEFINE q == row.held
               A == PaneRecord
    <3>1. q \in Seq(A)
      BY <1>1
    <3>2. /\ Lacking(q, {p}) \in Seq(A)
          /\ \A j \in 1..Len(Lacking(q, {p})) :
               \E i \in 1..Len(q) : Lacking(q, {p})[j] = q[i] /\ q[i].id \notin {p}
          /\ \A i \in 1..Len(q) : q[i].id \notin {p} =>
               \E j \in 1..Len(Lacking(q, {p})) : Lacking(q, {p})[j] = q[i]
          /\ (\A i, j \in 1..Len(q) : q[i].id = q[j].id => i = j) =>
               \A i, j \in 1..Len(Lacking(q, {p})) :
                 Lacking(q, {p})[i].id = Lacking(q, {p})[j].id => i = j
      <4> HIDE DEF q, A
      <4> QED BY <3>1, LackingIs, Zenon
    <3>3. \A x : x \notin {p} <=> x # p
      OBVIOUS
    <3> QED BY <3>2, <3>3, Zenon
  <2>2. new = [state |-> row.state, pane |-> row.pane, held |-> held, start |-> row.start]
    BY <1>1, <1>5 DEF Without
  <2> HIDE DEF held
  <2>3. new \in RowRecord
    <3> HIDE DEF PaneRecord, Start, new
    <3> QED BY <1>1, <2>1, <2>2 DEF RowRecord
  <2>4. row.pane # None
    BY <1>4, <1>5 DEF Sound
  <2>5. Sound(new)
    <3>1. \A k \in 1..Len(held) : held[k].id # row.pane.id
      <4>1. \A k \in 1..Len(row.held) : row.held[k].id # row.pane.id
        BY <2>4 DEF Sound
      <4>2. \A j \in 1..Len(held) : \E i \in 1..Len(row.held) : held[j] = row.held[i]
        BY <2>1
      <4> QED BY <4>1, <4>2, Zenon
    <3>2. \A j, k \in 1..Len(held) : held[j].id = held[k].id => j = k
      BY <2>1 DEF Sound
    <3>3. row.state \in {"live", "silent"}
      BY <2>4 DEF Sound
    <3> HIDE DEF new
    <3> QED BY <2>2, <2>4, <3>1, <3>2, <3>3 DEF Sound
  <2>6. \A x : x \in PaneIds(new) <=> Lists(new, x) \/ \E k \in 1..Len(held) : held[k].id = x
    <3> HIDE DEF new
    <3> QED BY <2>2, <2>3, PanesAre
  <2>7. \A x : x \in PaneIds(new) <=> x \in PaneIds(row) /\ x # p
    <3> SUFFICES ASSUME NEW x PROVE x \in PaneIds(new) <=> x \in PaneIds(row) /\ x # p
      OBVIOUS
    <3>1. Lists(new, x) <=> Lists(row, x)
      BY <2>2 DEF Lists
    <3>2. ASSUME NEW k \in 1..Len(held), held[k].id = x
          PROVE  x # p /\ \E i \in 1..Len(row.held) : row.held[i].id = x
      BY <2>1, <3>2
    <3>3. ASSUME NEW i \in 1..Len(row.held), row.held[i].id = x, x # p
          PROVE  \E k \in 1..Len(held) : held[k].id = x
      BY <2>1, <3>3
    <3> HIDE DEF new
    <3> QED BY <1>4, <1>5, <2>6, <3>1, <3>2, <3>3
  <2> HIDE DEF new
  <2> QED BY <1>5, <2>2, <2>3, <2>5, <2>7
<1>6. CASE Lists(row, p) /\ row.held # <<>>
  <2> DEFINE held == Tail(row.held)
  <2>1. /\ Head(row.held) \in PaneRecord /\ held \in Seq(PaneRecord)
        /\ Len(held) = Len(row.held) - 1 /\ Len(row.held) \in Nat \ {0}
        /\ Head(row.held) = row.held[1]
        /\ \A k \in 1..Len(held) : held[k] = row.held[k + 1]
    <3> HIDE DEF PaneRecord
    <3> QED BY <1>1, <1>6, HeadTailProperties, EmptySeq, LenProperties
  <2>2. new = [state |-> "silent", pane |-> row.held[1], held |-> held, start |-> row.start]
    BY <1>1, <1>6, <2>1 DEF Without
  <2> HIDE DEF held
  <2>3. new \in RowRecord
    <3> HIDE DEF PaneRecord, Start, new
    <3> QED BY <1>1, <2>1, <2>2 DEF RowRecord
  <2>4. row.pane # None /\ row.pane.id = p /\ row.held[1] # None
    BY <1>2, <1>6, <2>1 DEF Lists
  <2>5. /\ \A j, k \in 1..Len(held) : held[j].id = held[k].id => j = k
        /\ \A k \in 1..Len(held) : held[k].id # row.held[1].id
    <3>1. \A k \in 1..Len(held) : k + 1 \in 1..Len(row.held) /\ held[k] = row.held[k + 1] /\ k + 1 # 1
      BY <2>1
    <3>2. 1 \in 1..Len(row.held)
      BY <2>1
    <3>3. \A j, k \in 1..Len(row.held) : row.held[j].id = row.held[k].id => j = k
      BY DEF Sound
    <3>4. ASSUME NEW k \in 1..Len(held) PROVE held[k].id # row.held[1].id
      BY <3>1, <3>2, <3>3
    <3>5. ASSUME NEW j \in 1..Len(held), NEW k \in 1..Len(held), held[j].id = held[k].id PROVE j = k
      <4>1. j + 1 \in 1..Len(row.held) /\ k + 1 \in 1..Len(row.held)
            /\ held[j] = row.held[j + 1] /\ held[k] = row.held[k + 1]
        BY <3>1
      <4>2. j + 1 = k + 1
        BY <3>3, <3>5, <4>1, Zenon
      <4>3. j \in Nat /\ k \in Nat
        OBVIOUS
      <4> QED BY <4>2, <4>3
    <3> QED BY <3>4, <3>5
  <2>6. Sound(new)
    <3> HIDE DEF new
    <3> QED BY <2>2, <2>4, <2>5 DEF Sound
  <2>7. \A x : x \in PaneIds(new) <=> Lists(new, x) \/ \E k \in 1..Len(held) : held[k].id = x
    <3> HIDE DEF new
    <3> QED BY <2>2, <2>3, PanesAre
  <2>8. \A x : x \in PaneIds(new) <=> \E k \in 1..Len(row.held) : row.held[k].id = x
    <3> SUFFICES ASSUME NEW x
                 PROVE  x \in PaneIds(new) <=> \E k \in 1..Len(row.held) : row.held[k].id = x
      OBVIOUS
    <3>1. Lists(new, x) <=> row.held[1].id = x
      BY <2>2, <2>4 DEF Lists
    <3>2. (\E k \in 1..Len(held) : held[k].id = x) <=> \E k \in 2..Len(row.held) : row.held[k].id = x
      <4>1. ASSUME NEW k \in 2..Len(row.held)
            PROVE  k - 1 \in 1..Len(held) /\ held[k - 1] = row.held[k]
        BY <2>1
      <4>2. ASSUME NEW k \in 1..Len(held)
            PROVE  k + 1 \in 2..Len(row.held) /\ held[k] = row.held[k + 1]
        BY <2>1
      <4>3. ASSUME NEW k \in 1..Len(held), held[k].id = x
            PROVE  \E j \in 2..Len(row.held) : row.held[j].id = x
        BY <4>2, <4>3
      <4>4. ASSUME NEW k \in 2..Len(row.held), row.held[k].id = x
            PROVE  \E j \in 1..Len(held) : held[j].id = x
        BY <4>1, <4>4
      <4> QED BY <4>3, <4>4
    <3>3. \A k : k \in 1..Len(row.held) <=> k = 1 \/ k \in 2..Len(row.held)
      BY <2>1
    <3> HIDE DEF new
    <3> QED BY <2>7, <3>1, <3>2, <3>3
  <2>9. \A k \in 1..Len(row.held) : row.held[k].id # p
    BY <2>4 DEF Sound
  <2>10. \A x : x \in PaneIds(new) <=> x \in PaneIds(row) /\ x # p
    <3>1. \A x : Lists(row, x) <=> x = p
      BY <2>4 DEF Lists
    <3> HIDE DEF new
    <3> QED BY <1>4, <2>8, <2>9, <3>1
  <2> HIDE DEF new
  <2> QED BY <1>6, <2>2, <2>3, <2>6, <2>10
<1>7. CASE Lists(row, p) /\ row.held = <<>>
  <2> DEFINE state == IF row.start # None THEN "starting" ELSE "stored"
  <2>1. new = [state |-> state, pane |-> None, held |-> <<>>, start |-> row.start]
    BY <1>1, <1>7 DEF Without
  <2>2. state \in {"starting", "stored"} /\ Len(<<>>) = 0 /\ <<>> \in Seq(PaneRecord)
    OBVIOUS
  <2>3. new \in RowRecord
    <3> HIDE DEF PaneRecord, Start, new, state
    <3> QED BY <1>1, <2>1, <2>2 DEF RowRecord
  <2>4. Sound(new)
    <3> HIDE DEF new, state
    <3> QED BY <2>1, <2>2 DEF Sound
  <2>5. \A x : x \notin PaneIds(new)
    <3>1. \A x : ~Lists(new, x)
      BY <2>1 DEF Lists
    <3> HIDE DEF new, state
    <3> QED BY <2>1, <2>2, <2>3, <3>1, PanesAre
  <2>6. \A x : x \in PaneIds(row) => x = p
    BY <1>4, <1>7 DEF Lists
  <2> HIDE DEF new, state
  <2> QED BY <1>7, <2>1, <2>2, <2>3, <2>4, <2>5, <2>6
<1> QED BY <1>5, <1>6, <1>7

(* What has the types of a state is one. *)
LEMMA StateIs ==
  ASSUME NEW s \in State
  PROVE  /\ s.rows \in [Row -> RowRecord] /\ s.stored \in Seq(StoredRow)
         /\ s.deleted \in SUBSET DeletedRow /\ s.dropped \in [File -> Pane \cup {None}]
         /\ s.waits \in SUBSET Pane /\ s.prompts \in [Id -> DeliveryRecord]
         /\ s.inboxes \in [Row -> Seq(Message)]
         /\ s = [rows |-> s.rows, stored |-> s.stored, deleted |-> s.deleted,
                 dropped |-> s.dropped, waits |-> s.waits, prompts |-> s.prompts,
                 inboxes |-> s.inboxes]
<1> HIDE DEF RowRecord, StoredRow, DeletedRow, DeliveryRecord, Message
<1> QED BY DEF State

(* Other rows, in a state. *)
LEMMA RowsSet ==
  ASSUME NEW s \in State, NEW us \in [Row -> RowRecord]
  PROVE  /\ [s EXCEPT !.rows = us] \in State
         /\ [s EXCEPT !.rows = us].rows = us
         /\ [s EXCEPT !.rows = us].stored = s.stored
         /\ [s EXCEPT !.rows = us].deleted = s.deleted
         /\ [s EXCEPT !.rows = us].dropped = s.dropped
         /\ [s EXCEPT !.rows = us].waits = s.waits
         /\ [s EXCEPT !.rows = us].prompts = s.prompts
         /\ [s EXCEPT !.rows = us].inboxes = s.inboxes
<1>1. [s EXCEPT !.rows = us] =
        [rows |-> us, stored |-> s.stored, deleted |-> s.deleted, dropped |-> s.dropped,
         waits |-> s.waits, prompts |-> s.prompts, inboxes |-> s.inboxes]
  <2>1. s = [rows |-> s.rows, stored |-> s.stored, deleted |-> s.deleted, dropped |-> s.dropped,
             waits |-> s.waits, prompts |-> s.prompts, inboxes |-> s.inboxes]
    BY StateIs
  <2> QED BY <2>1
<1> QED BY <1>1, StateIs DEF State

(* Only the rows, the prompts and the inboxes matter. *)
LEMMA SameTable ==
  ASSUME NEW s, Good(s), NEW t \in State,
         t.rows = s.rows, t.prompts = s.prompts, t.inboxes = s.inboxes
  PROVE  Good(t)
BY DEF Good, WaitingRight, Given

LEMMA NoneUnknown ==
  ASSUME NEW s, Good(s)
  PROVE  Registered(s) \subseteq Pane /\ None \notin Registered(s)
<1>1. \A r \in Row : PaneIds(s.rows[r]) \subseteq Pane
  <2>1. \A r \in Row : s.rows[r] \in RowRecord
    BY StateIs DEF Good
  <2> QED BY <2>1, PanesAre
<1> QED BY <1>1, NoneAssumption DEF Registered

(* One change of the table follows the other. *)
LEMMA FollowsOn ==
  ASSUME NEW s, NEW t, NEW u, NEW N, Follows(s, t, N), Follows(t, u, N)
  PROVE  Follows(s, u, N)
<1>1. Registered(u) \subseteq Registered(s) \cup N /\ u.waits \subseteq s.waits
  BY DEF Follows
<1>2. (Registered(s) \cap u.waits) \ N \subseteq Registered(u)
  BY DEF Follows
<1>3. ASSUME NEW r \in Row, NEW q, q \notin N, LiveAs(u.rows[r], q)
      PROVE  u.inboxes[r] = <<>> \/ (LiveAs(s.rows[r], q) /\ u.inboxes[r] = s.inboxes[r])
  <2>1. u.inboxes[r] = <<>> \/ (LiveAs(t.rows[r], q) /\ u.inboxes[r] = t.inboxes[r])
    BY <1>3 DEF Follows
  <2>2. LiveAs(t.rows[r], q) =>
          t.inboxes[r] = <<>> \/ (LiveAs(s.rows[r], q) /\ t.inboxes[r] = s.inboxes[r])
    BY <1>3 DEF Follows
  <2> QED BY <2>1, <2>2
<1> QED BY <1>1, <1>2, <1>3 DEF Follows

LEMMA FollowsMore ==
  ASSUME NEW s, NEW t, NEW N, Follows(s, t, {})
  PROVE  Follows(s, t, N)
BY DEF Follows

LEMMA SameFollows ==
  ASSUME NEW s, NEW t, SamePanes(s, t)
  PROVE  Follows(s, t, {}) /\ Registered(t) = Registered(s)
<1>1. Registered(t) = Registered(s)
  BY DEF Registered, SamePanes
<1> QED BY <1>1 DEF Follows, SamePanes

LEMMA SameOn ==
  ASSUME NEW s, NEW t, NEW u, SamePanes(s, t), SamePanes(t, u)
  PROVE  SamePanes(s, u)
BY DEF SamePanes, SameGone

LEMMA SameRows ==
  ASSUME NEW s, NEW t, t.rows = s.rows, t.inboxes = s.inboxes, t.waits = s.waits, SameGone(s, t)
  PROVE  SamePanes(s, t)
BY DEF SamePanes

LEMMA HeardOn ==
  ASSUME NEW s, NEW t, Heard(s), Follows(s, t, {})
  PROVE  Heard(t)
<1> SUFFICES ASSUME NEW p \in t.waits
             PROVE  /\ p \in Registered(t)
                    /\ \A r \in Row : LiveAs(t.rows[r], p) => t.inboxes[r] = <<>>
  BY DEF Heard
<1>1. p \in s.waits
  BY DEF Follows
<1>2. p \in Registered(t)
  BY <1>1 DEF Follows, Heard
<1>3. ASSUME NEW r \in Row, LiveAs(t.rows[r], p) PROVE t.inboxes[r] = <<>>
  BY <1>1, <1>3 DEF Follows, Heard
<1> QED BY <1>2, <1>3

(* All but pane p are heard of as before. *)
LEMMA HeardBut ==
  ASSUME NEW s, NEW t, NEW p, Heard(s), Follows(s, t, {p}),
         p \in t.waits => /\ p \in Registered(t)
                          /\ \A r \in Row : LiveAs(t.rows[r], p) => t.inboxes[r] = <<>>
  PROVE  Heard(t)
<1> SUFFICES ASSUME NEW q \in t.waits, q # p
             PROVE  /\ q \in Registered(t)
                    /\ \A r \in Row : LiveAs(t.rows[r], q) => t.inboxes[r] = <<>>
  BY DEF Heard
<1>1. q \in s.waits
  BY DEF Follows
<1>2. q \in Registered(t)
  BY <1>1 DEF Follows, Heard
<1>3. ASSUME NEW r \in Row, LiveAs(t.rows[r], q) PROVE t.inboxes[r] = <<>>
  BY <1>1, <1>3 DEF Follows, Heard
<1> QED BY <1>2, <1>3

LEMMA HeardSame ==
  ASSUME NEW s, NEW t, t.rows = s.rows, t.inboxes = s.inboxes, t.waits = s.waits
  PROVE  Registered(t) = Registered(s) /\ (Heard(s) => Heard(t))
BY DEF Registered, Heard

(* Where the same panes are listed, those that wait are too. *)
LEMMA RowsFollow ==
  ASSUME NEW s, NEW t, t.rows = s.rows, t.waits = s.waits,
         \A r \in Row : t.inboxes[r] \in {s.inboxes[r], <<>>}
  PROVE  Follows(s, t, {}) /\ Registered(t) = Registered(s)
<1>1. Registered(t) = Registered(s)
  BY DEF Registered
<1> QED BY <1>1 DEF Follows

LEMMA ReapsOn ==
  ASSUME NEW s, NEW t, NEW u, Reaps(s, t), Reaps(t, u)
  PROVE  Reaps(s, u)
<1>1. Follows(s, u, {}) /\ u.deleted = s.deleted
  BY FollowsOn DEF Reaps
<1>2. Registered(u) \subseteq Registered(t)
  BY DEF Reaps, Follows
<1>3. \A f \in File : u.dropped[f] = s.dropped[f] \/ u.dropped[f] \notin Registered(u)
  BY <1>2 DEF Reaps
<1> QED BY <1>1, <1>3 DEF Reaps

LEMMA GoneReaps ==
  ASSUME NEW s, NEW t, Follows(s, t, {}), SameGone(s, t)
  PROVE  Reaps(s, t)
BY DEF SameGone, Reaps

LEMMA ReapsCalm ==
  ASSUME NEW s, NEW t, Calm(s), Reaps(s, t)
  PROVE  Calm(t)
<1>1. Heard(t)
  BY HeardOn DEF Calm, Reaps
<1>2. Registered(t) \subseteq Registered(s)
  BY DEF Reaps, Follows
<1>3. StaysGone(t)
  BY <1>2 DEF Calm, StaysGone, Deletes, Reaps
<1> QED BY <1>1, <1>3 DEF Calm

(* Panes go, and what is said of the deleted rows stays. *)
LEMMA CalmOn ==
  ASSUME NEW s, NEW t, Calm(s), Follows(s, t, {}), SameGone(s, t)
  PROVE  Calm(t)
BY GoneReaps, ReapsCalm

LEMMA JoinsOn ==
  ASSUME NEW s, NEW t, NEW u, NEW v, NEW p, NEW r \in Row,
         SamePanes(s, t), Joins(t, u, p, r), SamePanes(u, v)
  PROVE  Joins(s, v, p, r)
<1>1. Follows(s, t, {p}) /\ Follows(u, v, {p})
  BY SameFollows, FollowsMore
<1>2. Follows(s, v, {p})
  BY <1>1, FollowsOn DEF Joins
<1>3. /\ SameGone(s, v) /\ v.waits = s.waits /\ v.inboxes = s.inboxes
      /\ p \in PaneIds(v.rows[r])
  BY DEF Joins, SamePanes, SameGone
<1> QED BY <1>2, <1>3 DEF Joins

LEMMA SettledByIs ==
  ASSUME NEW ps \in [Id -> DeliveryRecord], NEW r \in Row, NEW S, NEW reason
  PROVE  /\ SettledBy(ps, r, S, reason) \in [Id -> DeliveryRecord]
         /\ \A i \in Id : Open(SettledBy(ps, r, S, reason)[i]) =>
              /\ SettledBy(ps, r, S, reason)[i] = ps[i]
              /\ ps[i].row = r => i \notin S
<1>1. SettledBy(ps, r, S, reason) \in [Id -> DeliveryRecord]
  BY DEF SettledBy, DeliveryRecord, Settled
<1>2. ASSUME NEW i \in Id, Open(SettledBy(ps, r, S, reason)[i])
      PROVE  SettledBy(ps, r, S, reason)[i] = ps[i] /\ (ps[i].row = r => i \notin S)
  BY <1>2 DEF SettledBy, Open, Unsettled
<1> QED BY <1>1, <1>2

LEMMA DropIs ==
  ASSUME NEW s, Good(s), NEW p \in Registered(s), NEW reason
  PROVE  /\ Good(Drop(s, p, reason))
         /\ p \notin Registered(Drop(s, p, reason))
         /\ Drop(s, p, reason).stored = s.stored
         /\ \A q \in Row : s.rows[q].state # "live" => Drop(s, p, reason).rows[q].state # "live"
         /\ Follows(s, Drop(s, p, reason), {}) /\ SameGone(s, Drop(s, p, reason))
         /\ Registered(Drop(s, p, reason)) = Registered(s) \ {p}
<1> DEFINE r == RowOf(s, p)
           listed == Lists(s.rows[r], p)
           t == Drop(s, p, reason)
           new == Without(s.rows[r], p)
           rs == [s.rows EXCEPT ![r] = new]
           ps == AfterEnded(s.prompts, s.inboxes, r, p, reason, listed)
           ib == IF listed THEN Emptied(s.inboxes, r) ELSE s.inboxes
<1>1. s \in State
  BY DEF Good
<1>2. r \in Row /\ p \in PaneIds(s.rows[r])
  BY RowIs
<1>3. p \in Pane
  BY <1>2, FoundIs
<1>4. s.rows[r] \in RowRecord /\ Sound(s.rows[r])
  BY <1>1, <1>2, StateIs DEF Good
<1>5. /\ new \in RowRecord /\ Sound(new) /\ PaneIds(new) = PaneIds(s.rows[r]) \ {p}
      /\ new.start = s.rows[r].start
      /\ ~listed => new.state = s.rows[r].state /\ new.pane = s.rows[r].pane
      /\ listed => new.state # "live"
  BY <1>2, <1>4, WithoutIs
<1>6. /\ ps \in [Id -> DeliveryRecord]
      /\ \A i \in Id : Open(ps[i]) =>
           /\ ps[i] = s.prompts[i]
           /\ ps[i].row = r => i \notin (IF listed THEN InboxIds(s.inboxes, r) ELSE {}) \cup GivenTo(s.prompts, p)
  <2> DEFINE S == (IF listed THEN InboxIds(s.inboxes, r) ELSE {}) \cup GivenTo(s.prompts, p)
             os == s.prompts
  <2>1. os \in [Id -> DeliveryRecord]
    BY <1>1, StateIs
  <2>2. ps = SettledBy(os, r, S, reason)
    BY DEF AfterEnded
  <2>3. /\ SettledBy(os, r, S, reason) \in [Id -> DeliveryRecord]
        /\ \A i \in Id : Open(SettledBy(os, r, S, reason)[i]) =>
             /\ SettledBy(os, r, S, reason)[i] = os[i]
             /\ os[i].row = r => i \notin S
    <3> HIDE DEF S, r, os
    <3> QED BY <1>2, <2>1, SettledByIs
  <2>4. /\ ps \in [Id -> DeliveryRecord]
        /\ \A i \in Id : Open(ps[i]) => ps[i] = os[i] /\ (ps[i].row = r => i \notin S)
    <3> HIDE DEF S, ps, r, os
    <3> QED BY <2>2, <2>3
  <2> HIDE DEF ps, r
  <2> QED BY <2>4
<1>7. ib \in [Row -> Seq(Message)]
  <2>1. s.inboxes \in [Row -> Seq(Message)] /\ <<>> \in Seq(Message)
    BY <1>1, StateIs
  <2> QED BY <2>1 DEF Emptied
<1>8. t = [rows |-> rs, stored |-> s.stored, deleted |-> s.deleted, dropped |-> s.dropped,
           waits |-> s.waits \ {p}, prompts |-> ps, inboxes |-> ib]
  <2> DEFINE u == SettleWait(s, p)
  <2>1. u = [rows |-> s.rows, stored |-> s.stored, deleted |-> s.deleted, dropped |-> s.dropped,
             waits |-> s.waits \ {p}, prompts |-> s.prompts, inboxes |-> s.inboxes]
    <3>1. s = [rows |-> s.rows, stored |-> s.stored, deleted |-> s.deleted, dropped |-> s.dropped,
               waits |-> s.waits, prompts |-> s.prompts, inboxes |-> s.inboxes]
      BY <1>1, StateIs
    <3> QED BY <3>1 DEF SettleWait
  <2>2. t = [u EXCEPT !.rows[r] = Without(@, p),
                      !.prompts = AfterEnded(@, s.inboxes, r, p, reason, listed),
                      !.inboxes = IF listed THEN Emptied(@, r) ELSE @]
    <3> HIDE DEF u
    <3> QED BY DEF Drop, u
  <2> HIDE DEF u, r, listed
  <2> QED BY <2>1, <2>2
<1> HIDE DEF t, rs, ps, ib, new, listed, r
<1>9. rs \in [Row -> RowRecord] /\ rs[r] = new /\ \A q \in Row \ {r} : rs[q] = s.rows[q]
  BY <1>1, <1>2, <1>5, StateIs DEF rs
<1>10. t \in State
  BY <1>1, <1>6, <1>7, <1>8, <1>9, StateIs DEF State
<1>11. t.rows = rs /\ t.prompts = ps /\ t.inboxes = ib /\ t.stored = s.stored
  BY <1>8
<1>12. \A q \in Row : Sound(rs[q])
  BY <1>5, <1>9 DEF Good
<1>13. Apart(rs)
  <2>1. Apart(s.rows)
    BY DEF Good
  <2>2. \A x \in PaneIds(rs[r]), q \in Row \ {r} : x \notin PaneIds(s.rows[q])
    BY <1>2, <1>5, <1>9, <2>1 DEF Apart
  <2> QED BY <1>2, <1>9, <2>1, <2>2, ApartStays
<1>14. WaitingRight(t)
  <2>1. \A q \in Row : ib[q] = s.inboxes[q] \/ (q = r /\ listed /\ ib[q] = <<>>)
    BY <1>1, <1>2, StateIs DEF ib, Emptied
  <2>2. ASSUME NEW q \in Row, ib[q] # <<>> PROVE rs[q].state = "live"
    <3>1. s.rows[q].state = "live"
      BY <2>1, <2>2 DEF Good, WaitingRight
    <3>2. CASE q = r
      <4>1. ~listed
        <5>1. s.inboxes \in [Row -> Seq(Message)]
          BY <1>1, StateIs
        <5>2. listed => ib[r] = <<>>
          BY <1>2, <5>1 DEF ib, Emptied
        <5> QED BY <2>2, <3>2, <5>2
      <4> QED BY <1>5, <1>9, <3>1, <3>2, <4>1
    <3>3. CASE q # r
      BY <1>9, <3>1, <3>3
    <3> QED BY <3>2, <3>3
  <2>3. ASSUME NEW i \in Id, NEW q \in Row, InInbox(ib, i, q), Open(ps[i])
        PROVE  ps[i].row = q
    <3>1. InInbox(s.inboxes, i, q)
      BY <2>1, <2>3 DEF InInbox
    <3> QED BY <1>6, <2>3, <3>1 DEF Good, WaitingRight
  <2> QED BY <1>11, <2>2, <2>3 DEF WaitingRight
<1>15. ASSUME NEW i \in Id PROVE Given(t, i)
  <2> SUFFICES ASSUME Open(ps[i]), ps[i].pane # None
               PROVE  ps[i].row \in Row /\ ps[i].pane \in PaneIds(rs[ps[i].row])
    BY <1>11 DEF Given
  <2>1. ps[i] = s.prompts[i] /\ (ps[i].row = r => i \notin GivenTo(s.prompts, p))
    BY <1>6
  <2>2. ps[i].row \in Row /\ ps[i].pane \in PaneIds(s.rows[ps[i].row])
    BY <2>1 DEF Good, Given
  <2>3. CASE ps[i].row = r
    <3>1. ps[i].pane # p
      BY <2>1, <2>3 DEF GivenTo
    <3> QED BY <1>5, <1>9, <2>2, <2>3, <3>1
  <2>4. CASE ps[i].row # r
    BY <1>9, <2>2, <2>4
  <2> QED BY <2>3, <2>4
<1>16. \A q \in Row : Starts(rs, q)
  <2>1. \A q \in Row : Starts(s.rows, q)
    BY DEF Good
  <2>2. /\ rs[r].start = s.rows[r].start
        /\ rs[r].state = "live" => rs[r].state = s.rows[r].state /\ rs[r].pane = s.rows[r].pane
    BY <1>5, <1>9
  <2> QED BY <1>2, <1>9, <2>1, <2>2, StartsStay
<1>17. Good(t)
  BY <1>10, <1>11, <1>12, <1>13, <1>14, <1>15, <1>16 DEF Good
<1>18. Registered(t) = Registered(s) \ {p}
  <2>1. \A q \in Row : PaneIds(rs[q]) = PaneIds(s.rows[q]) \ {p}
    BY <1>2, <1>5, <1>9 DEF Good, Apart
  <2> QED BY <1>11, <2>1 DEF Registered
<1>19. \A q \in Row : s.rows[q].state # "live" => rs[q].state # "live"
  BY <1>5, <1>9
<1>20. SameGone(s, t) /\ t.waits = s.waits \ {p}
  BY <1>8 DEF SameGone
<1>21. ASSUME NEW q \in Row, NEW x, LiveAs(rs[q], x)
       PROVE  ib[q] = <<>> \/ (LiveAs(s.rows[q], x) /\ ib[q] = s.inboxes[q])
  <2>1. CASE q = r /\ listed
    BY <1>5, <1>9, <1>21, <2>1 DEF LiveAs
  <2>2. CASE q = r /\ ~listed
    BY <1>5, <1>9, <1>21, <2>2 DEF LiveAs, Lists, ib
  <2>3. CASE q # r
    <3>1. ib[q] = s.inboxes[q]
      BY <1>1, <2>3, StateIs DEF ib, Emptied
    <3> QED BY <1>9, <1>21, <2>3, <3>1
  <2> QED BY <2>1, <2>2, <2>3
<1>22. Follows(s, t, {})
  BY <1>11, <1>18, <1>20, <1>21 DEF Follows
<1> QED BY <1>11, <1>17, <1>18, <1>19, <1>20, <1>22 DEF t

---------------------------------------------------------------------------
(* Stored rows *)

LEMMA StoredAtIs ==
  ASSUME NEW s \in State, NEW id, IsStored(s, id)
  PROVE  StoredAt(s, id) \in 1..Len(s.stored) /\ s.stored[StoredAt(s, id)].id = id
<1> DEFINE I == {k \in 1..Len(s.stored) : s.stored[k].id = id}
<1>1. StoredAt(s, id) = IF I # {} THEN Min(I) ELSE 0
  BY DEF StoredAt, SelectInSeq
<1>2. I # {}
  BY <1>1 DEF IsStored
<1>3. I \in SUBSET Nat
  OBVIOUS
<1>4. Min(I) \in I
  <2> HIDE DEF I
  <2> QED BY <1>2, <1>3, LeastIs
<1> QED BY <1>1, <1>2, <1>4

(* Changes of the stored rows leave all else alone. *)
LEMMA UpsertIs ==
  ASSUME NEW s \in State, NEW row \in StoredRow
  PROVE  /\ Upsert(s, row) \in State
         /\ Upsert(s, row).rows = s.rows /\ Upsert(s, row).prompts = s.prompts
         /\ Upsert(s, row).inboxes = s.inboxes /\ SamePanes(s, Upsert(s, row))
<1> DEFINE R == StoredRow
           q == s.stored
           t == Upsert(s, row)
           k == StoredAt(s, row.id)
<1>1. q \in Seq(R) /\ row \in R
  BY StateIs
<1>2. \E new \in Seq(R) : t = [s EXCEPT !.stored = new]
  <2>1. CASE IsStored(s, row.id)
    <3>1. t = [s EXCEPT !.stored = [q EXCEPT ![k] = row]]
      BY <2>1 DEF Upsert
    <3>2. [q EXCEPT ![k] = row] \in Seq(R)
      <4>1. k \in 1..Len(q)
        BY <2>1, StoredAtIs
      <4> HIDE DEF q, R, k
      <4> QED BY <1>1, <4>1, ExceptSeq
    <3> QED BY <3>1, <3>2
  <2>2. CASE ~IsStored(s, row.id)
    <3>1. t = [s EXCEPT !.stored = Append(q, row)]
      BY <2>2 DEF Upsert
    <3>2. Append(q, row) \in Seq(R)
      <4> HIDE DEF q, R
      <4> QED BY <1>1, AppendProperties
    <3> QED BY <3>1, <3>2
  <2> QED BY <2>1, <2>2
<1>3. PICK new \in Seq(R) : t = [s EXCEPT !.stored = new]
  BY <1>2
<1>4. t = [rows |-> s.rows, stored |-> new, deleted |-> s.deleted, dropped |-> s.dropped,
           waits |-> s.waits, prompts |-> s.prompts, inboxes |-> s.inboxes]
  BY <1>3, StateIs
<1>5. t \in State
  BY <1>4, StateIs DEF State
<1>6. /\ t.rows = s.rows /\ t.prompts = s.prompts /\ t.inboxes = s.inboxes
      /\ t.waits = s.waits /\ t.deleted = s.deleted /\ t.dropped = s.dropped
  <2> HIDE DEF t
  <2> QED BY <1>4
<1> HIDE DEF t
<1>7. SamePanes(s, t)
  BY <1>6, SameRows DEF SameGone
<1> QED BY <1>5, <1>6, <1>7 DEF t

LEMMA UnstoreIs ==
  ASSUME NEW s \in State, NEW ids
  PROVE  /\ [s EXCEPT !.stored = Lacking(@, ids)] \in State
         /\ [s EXCEPT !.stored = Lacking(@, ids)].rows = s.rows
         /\ [s EXCEPT !.stored = Lacking(@, ids)].prompts = s.prompts
         /\ [s EXCEPT !.stored = Lacking(@, ids)].inboxes = s.inboxes
         /\ SamePanes(s, [s EXCEPT !.stored = Lacking(@, ids)])
<1> DEFINE R == StoredRow
           q == s.stored
           t == [s EXCEPT !.stored = Lacking(@, ids)]
<1>1. q \in Seq(R)
  BY StateIs
<1>2. Lacking(q, ids) \in Seq(R)
  <2> HIDE DEF q, R
  <2> QED BY <1>1, LackingIs
<1>3. /\ t \in State /\ t.rows = s.rows /\ t.prompts = s.prompts /\ t.inboxes = s.inboxes
      /\ t.waits = s.waits /\ t.deleted = s.deleted /\ t.dropped = s.dropped
  BY <1>2, StateIs DEF State
<1> HIDE DEF t
<1>4. SamePanes(s, t)
  BY <1>3, SameRows DEF SameGone
<1> QED BY <1>3, <1>4 DEF t

LEMMA StoredOnIs ==
  ASSUME NEW s \in State, NEW f
  PROVE  StoredOn(s, f) = None \/ (StoredOn(s, f) \in StoredRow /\ StoredOn(s, f) # None)
<1> DEFINE I == {k \in 1..Len(s.stored) : s.stored[k].file = f}
           k == IF I # {} THEN Min(I) ELSE 0
<1>1. StoredOn(s, f) = IF k = 0 THEN None ELSE s.stored[k]
  BY DEF StoredOn, SelectInSeq
<1>2. ASSUME I # {} PROVE k \in 1..Len(s.stored)
  <2>1. I \in SUBSET Nat
    OBVIOUS
  <2>2. Min(I) \in I
    <3> HIDE DEF I
    <3> QED BY <1>2, <2>1, LeastIs
  <2> QED BY <1>2, <2>2
<1>3. I = {} => k = 0
  OBVIOUS
<1>4. \A j \in 1..Len(s.stored) : s.stored[j] \in StoredRow
  <2> DEFINE R == StoredRow
             q == s.stored
  <2>1. q \in Seq(R)
    BY StateIs
  <2>2. \A j \in 1..Len(q) : q[j] \in R
    <3> HIDE DEF q, R
    <3> QED BY <2>1, ElementOfSeq
  <2> QED BY <2>2
<1>5. None \notin StoredRow
  BY NoneIsNoRecord
<1> HIDE DEF k, I
<1> QED BY <1>1, <1>2, <1>3, <1>4, <1>5

---------------------------------------------------------------------------
(* Starts *)

LEMMA LeaveStartIs ==
  ASSUME NEW row \in RowRecord, Sound(row)
  PROVE  /\ LeaveStart(row) \in RowRecord /\ Sound(LeaveStart(row))
         /\ LeaveStart(row).start = None
         /\ LeaveStart(row).pane = row.pane /\ LeaveStart(row).held = row.held
         /\ LeaveStart(row).state = "live" <=> row.state = "live"
<1>1. /\ row.held \in Seq(PaneRecord) /\ row.pane \in PaneRecord \cup {None}
      /\ row.state \in {"starting", "live", "silent", "stored"}
      /\ row = [state |-> row.state, pane |-> row.pane, held |-> row.held, start |-> row.start]
  <2> HIDE DEF PaneRecord, Start
  <2> QED BY DEF RowRecord
<1>2. CASE row.pane # None
  <2>1. LeaveStart(row) = [state |-> row.state, pane |-> row.pane, held |-> row.held, start |-> None]
    BY <1>1, <1>2 DEF LeaveStart
  <2>2. LeaveStart(row) \in RowRecord
    <3> HIDE DEF PaneRecord, Start
    <3> QED BY <1>1, <2>1 DEF RowRecord
  <2> QED BY <2>1, <2>2 DEF Sound
<1>3. CASE row.pane = None
  <2>1. LeaveStart(row) = [state |-> "stored", pane |-> None, held |-> <<>>, start |-> None]
    BY <1>3 DEF LeaveStart, NoEntry
  <2>2. row.held = <<>> /\ row.state # "live" /\ Len(<<>>) = 0
    BY <1>3 DEF Sound
  <2>3. LeaveStart(row) \in RowRecord
    <3>1. <<>> \in Seq(PaneRecord)
      OBVIOUS
    <3> HIDE DEF PaneRecord, Start
    <3> QED BY <2>1, <3>1 DEF RowRecord
  <2> QED BY <1>3, <2>1, <2>2, <2>3 DEF Sound
<1> QED BY <1>2, <1>3

(* As Good, but for the panes of the prompts X. *)
GoodBut(s, X) ==
  /\ s \in State
  /\ \A r \in Row : Sound(s.rows[r])
  /\ Apart(s.rows)
  /\ WaitingRight(s)
  /\ \A i \in Id \ X : Given(s, i)
  /\ \A r \in Row : Starts(s.rows, r)

LEMMA GoodIs ==
  ASSUME NEW s
  PROVE  Good(s) <=> GoodBut(s, {})
BY DEF Good, GoodBut

(* Starts of some rows end. *)
WithoutStarts(s, rs) ==
  [s EXCEPT !.rows = [r \in Row |-> IF r \in rs THEN LeaveStart(@[r]) ELSE @[r]]]

LEMMA StartsEndIs ==
  ASSUME NEW s, NEW X, GoodBut(s, X), NEW rs
  PROVE  /\ GoodBut(WithoutStarts(s, rs), X)
         /\ \A r \in Row :
              LET old == s.rows[r]
                  new == WithoutStarts(s, rs).rows[r]
              IN  /\ new.pane = old.pane /\ new.held = old.held
                  /\ new.state = "live" <=> old.state = "live"
                  /\ new.start = IF r \in rs THEN None ELSE old.start
         /\ WithoutStarts(s, rs).prompts = s.prompts
         /\ WithoutStarts(s, rs).inboxes = s.inboxes
         /\ WithoutStarts(s, rs).stored = s.stored
         /\ WithoutStarts(s, rs).dropped = s.dropped
         /\ WithoutStarts(s, rs).deleted = s.deleted
         /\ SamePanes(s, WithoutStarts(s, rs))
<1> DEFINE t == WithoutStarts(s, rs)
           us == [r \in Row |-> IF r \in rs THEN LeaveStart(s.rows[r]) ELSE s.rows[r]]
<1>1. s \in State
  BY DEF GoodBut
<1>2. t = [s EXCEPT !.rows = us]
  BY DEF WithoutStarts
<1>3. \A r \in Row :
        /\ us[r] \in RowRecord /\ Sound(us[r])
        /\ us[r].pane = s.rows[r].pane /\ us[r].held = s.rows[r].held
        /\ us[r].state = "live" <=> s.rows[r].state = "live"
        /\ us[r].start = IF r \in rs THEN None ELSE s.rows[r].start
  <2> SUFFICES ASSUME NEW r \in Row
               PROVE  /\ us[r] \in RowRecord /\ Sound(us[r])
                      /\ us[r].pane = s.rows[r].pane /\ us[r].held = s.rows[r].held
                      /\ us[r].state = "live" <=> s.rows[r].state = "live"
                      /\ us[r].start = IF r \in rs THEN None ELSE s.rows[r].start
    OBVIOUS
  <2>1. s.rows[r] \in RowRecord /\ Sound(s.rows[r])
    BY <1>1, StateIs DEF GoodBut
  <2>2. CASE r \in rs
    <3>1. us[r] = LeaveStart(s.rows[r])
      BY <2>2
    <3> HIDE DEF us
    <3> QED BY <2>1, <2>2, <3>1, LeaveStartIs
  <2>3. CASE r \notin rs
    BY <2>1, <2>3
  <2> QED BY <2>2, <2>3
<1>4. us \in [Row -> RowRecord]
  BY <1>3
<1> HIDE DEF t, us
<1>5. /\ t \in State
      /\ t.rows = us /\ t.prompts = s.prompts /\ t.inboxes = s.inboxes
      /\ t.stored = s.stored /\ t.dropped = s.dropped /\ t.deleted = s.deleted
      /\ t.waits = s.waits
  BY <1>1, <1>2, <1>4, RowsSet
<1>6. \A r \in Row : PaneIds(us[r]) = PaneIds(s.rows[r])
  BY <1>3 DEF PaneIds, PanesIn
<1>7. Apart(us)
  BY <1>6 DEF GoodBut, Apart
<1>8. \A r \in Row : Starts(us, r)
  BY <1>3 DEF GoodBut, Starts
<1>9. WaitingRight(t)
  BY <1>5, <1>3 DEF WaitingRight, GoodBut
<1>10. \A i \in Id \ X : Given(t, i)
  BY <1>5, <1>6 DEF GoodBut, Given
<1>11. GoodBut(t, X)
  BY <1>3, <1>5, <1>7, <1>8, <1>9, <1>10 DEF GoodBut
<1>12. SamePanes(s, t)
  BY <1>3, <1>5, <1>6 DEF SamePanes, SameGone, LiveAs, Lists
<1> QED BY <1>3, <1>5, <1>11, <1>12 DEF t

---------------------------------------------------------------------------
(* A heartbeat *)

(* Rows that keep their panes and what is live. *)
LEMMA RowsGood ==
  ASSUME NEW s, NEW X, GoodBut(s, X), NEW us \in [Row -> RowRecord],
         \A r \in Row : Sound(us[r]),
         Apart(us),
         \A r \in Row : Starts(us, r),
         \A r \in Row : s.rows[r].state = "live" => us[r].state = "live",
         \A r \in Row : PaneIds(s.rows[r]) \subseteq PaneIds(us[r]),
         \A i \in X \cap Id : Open(s.prompts[i]) =>
           s.prompts[i].row \in Row /\ s.prompts[i].pane \in PaneIds(us[s.prompts[i].row])
  PROVE  Good([s EXCEPT !.rows = us])
<1> DEFINE t == [s EXCEPT !.rows = us]
<1>1. s \in State
  BY DEF GoodBut
<1>2. t \in State /\ t.rows = us /\ t.prompts = s.prompts /\ t.inboxes = s.inboxes
  BY <1>1, RowsSet
<1> HIDE DEF t
<1>3. WaitingRight(t)
  BY <1>2 DEF GoodBut, WaitingRight
<1>4. ASSUME NEW i \in Id PROVE Given(t, i)
  <2>1. CASE i \in X
    BY <1>2, <2>1 DEF Given
  <2>2. CASE i \notin X
    BY <1>2, <2>2 DEF GoodBut, Given
  <2> QED BY <2>1, <2>2
<1> QED BY <1>2, <1>3, <1>4 DEF Good, t

(* A row whose pane is as it was but for what it beat. *)
LEMMA PaneKept ==
  ASSUME NEW row \in RowRecord, Sound(row), row.pane # None,
         NEW x \in PaneRecord, x.id = row.pane.id
  PROVE  /\ [row EXCEPT !.pane = x] \in RowRecord /\ Sound([row EXCEPT !.pane = x])
         /\ PaneIds([row EXCEPT !.pane = x]) = PaneIds(row)
         /\ [row EXCEPT !.pane = x].pane = x
         /\ [row EXCEPT !.pane = x].state = row.state
         /\ [row EXCEPT !.pane = x].start = row.start
<1> DEFINE new == [row EXCEPT !.pane = x]
<1>1. /\ row.held \in Seq(PaneRecord) /\ row.start \in Start \cup {None}
      /\ row.state \in {"starting", "live", "silent", "stored"}
      /\ row = [state |-> row.state, pane |-> row.pane, held |-> row.held, start |-> row.start]
  <2> HIDE DEF PaneRecord, Start
  <2> QED BY DEF RowRecord
<1>2. x # None
  BY NoneIsNoRecord
<1>3. new = [state |-> row.state, pane |-> x, held |-> row.held, start |-> row.start]
  BY <1>1
<1>4. new \in RowRecord
  <2> HIDE DEF PaneRecord, Start, new
  <2> QED BY <1>1, <1>3 DEF RowRecord
<1> HIDE DEF new
<1>5. Sound(new)
  BY <1>2, <1>3 DEF Sound
<1>6. \A p : p \in PaneIds(new) <=> p \in PaneIds(row)
  <2>1. \A p : Lists(new, p) <=> Lists(row, p)
    BY <1>2, <1>3 DEF Lists
  <2>2. \A p : p \in PaneIds(new) <=>
          Lists(new, p) \/ \E k \in 1..Len(new.held) : new.held[k].id = p
    BY <1>4, PanesAre
  <2>3. \A p : p \in PaneIds(row) <=>
          Lists(row, p) \/ \E k \in 1..Len(row.held) : row.held[k].id = p
    BY PanesAre
  <2>4. new.held = row.held
    BY <1>3
  <2> QED BY <2>1, <2>2, <2>3, <2>4
<1> QED BY <1>3, <1>4, <1>5, <1>6 DEF new

(* Row r's pane in another state: on the same session and no less lapsed,  *)
(* or on one no start is on.                                               *)
LEMMA PaneKeptIs ==
  ASSUME NEW s, Good(s), NEW r \in Row, s.rows[r].pane # None,
         NEW x \in PaneRecord, x.id = s.rows[r].pane.id,
         \/ x.file = s.rows[r].pane.file /\ (s.rows[r].pane.lapsed => x.lapsed)
         \/ \A q \in Row : s.rows[q].start # None /\ s.rows[q].start.file # None =>
              s.rows[q].start.file # x.file
  PROVE  /\ Good([s EXCEPT !.rows[r].pane = x])
         /\ [s EXCEPT !.rows[r].pane = x].rows[r].pane = x
         /\ SamePanes(s, [s EXCEPT !.rows[r].pane = x])
<1> DEFINE new == [s.rows[r] EXCEPT !.pane = x]
           us == [s.rows EXCEPT ![r] = new]
<1>1. s \in State /\ GoodBut(s, {})
  BY GoodIs DEF Good
<1>2. s.rows \in [Row -> RowRecord] /\ Sound(s.rows[r])
  BY <1>1, StateIs DEF Good
<1>3. /\ new \in RowRecord /\ Sound(new) /\ PaneIds(new) = PaneIds(s.rows[r])
      /\ new.pane = x /\ new.state = s.rows[r].state /\ new.start = s.rows[r].start
  <2> HIDE DEF new
  <2> QED BY <1>2, PaneKept DEF new
<1> HIDE DEF new
<1>4. us \in [Row -> RowRecord] /\ us[r] = new /\ \A q \in Row \ {r} : us[q] = s.rows[q]
  BY <1>2, <1>3
<1> HIDE DEF us
<1>5. \A q \in Row : Sound(us[q])
  BY <1>3, <1>4 DEF Good
<1>6. \A q \in Row : PaneIds(us[q]) = PaneIds(s.rows[q])
  BY <1>3, <1>4
<1>7. Apart(us)
  BY <1>6 DEF Good, Apart
<1>8. \A q \in Row : us[q].start = s.rows[q].start /\ us[q].state = s.rows[q].state
  BY <1>3, <1>4
<1>9. ASSUME NEW q \in Row PROVE Starts(us, q)
  <2>1. Starts(s.rows, q)
    BY DEF Good
  <2> SUFFICES ASSUME us[q].start # None, us[q].start.file # None, NEW u \in Row
               PROVE  /\ us[u].start # None /\ us[u].start.file = us[q].start.file => u = q
                      /\ us[u].state = "live" /\ us[u].pane.file = us[q].start.file =>
                           us[u].pane.lapsed
    BY DEF Starts
  <2>2. /\ us[u].start # None /\ us[u].start.file = us[q].start.file => u = q
        /\ s.rows[u].state = "live" /\ s.rows[u].pane.file = us[q].start.file =>
             s.rows[u].pane.lapsed
    BY <1>8, <2>1 DEF Starts
  <2>3. CASE u = r
    BY <1>3, <1>4, <1>8, <2>2, <2>3
  <2>4. CASE u # r
    BY <1>4, <1>8, <2>2, <2>4
  <2> QED BY <2>3, <2>4
<1>10. Good([s EXCEPT !.rows = us])
  BY <1>1, <1>4, <1>5, <1>6, <1>7, <1>8, <1>9, RowsGood
<1>11. [s EXCEPT !.rows[r].pane = x] = [s EXCEPT !.rows = us]
  BY DEF us, new
<1> DEFINE t == [s EXCEPT !.rows = us]
<1>12. /\ t.rows = us /\ t.inboxes = s.inboxes /\ t.waits = s.waits
       /\ t.deleted = s.deleted /\ t.dropped = s.dropped
  BY <1>1, <1>4, RowsSet
<1>13. ASSUME NEW q \in Row, NEW p, LiveAs(us[q], p) PROVE LiveAs(s.rows[q], p)
  BY <1>3, <1>4, <1>8, <1>13 DEF LiveAs, Lists
<1> HIDE DEF t
<1>14. SamePanes(s, t)
  BY <1>6, <1>12, <1>13 DEF SamePanes, SameGone
<1> QED BY <1>3, <1>4, <1>10, <1>11, <1>12, <1>14 DEF t

(* The row is stored as it shows. *)
LEMMA PersistIs ==
  ASSUME NEW s, Good(s), NEW r \in Row, s.rows[r].pane # None, files \subseteq File
  PROVE  Good(PersistRow(s, r)) /\ SamePanes(s, PersistRow(s, r))
<1> DEFINE x == s.rows[r].pane
           kept == [file |-> x.file, pin |-> x.pin]
           parent == IF Parent[x.id] = None /\ IsStored(s, r) THEN s.stored[StoredAt(s, r)].parent
                     ELSE Parent[x.id]
           row == [id |-> r, file |-> x.file, pin |-> x.pin, parent |-> parent]
           u == Upsert(s, row)
           y == [x EXCEPT !.saved = kept]
<1>1. CASE x.file \notin files \/ x.saved = kept
  <2>1. PersistRow(s, r) = s
    BY <1>1 DEF PersistRow
  <2> QED BY <2>1 DEF SamePanes, SameGone
<1>2. CASE ~(x.file \notin files \/ x.saved = kept)
  <2>1. x \in PaneRecord
    <3>1. s.rows[r] \in RowRecord
      BY StateIs DEF Good
    <3> HIDE DEF PaneRecord, Start
    <3> QED BY <3>1 DEF RowRecord
  <2>2. x.file \in File /\ x.pin \in Pin /\ x.id \in Pane
    BY <1>2, <2>1 DEF PaneRecord
  <2>3. kept \in Kept
    BY <2>2 DEF Kept
  <2>4. row \in StoredRow
    <3>1. parent \in Pane \cup {None}
      <4>1. CASE IsStored(s, r)
        <5>1. s.stored \in Seq(StoredRow) /\ StoredAt(s, r) \in 1..Len(s.stored)
          BY <4>1, StoredAtIs, StateIs DEF Good
        <5>2. s.stored[StoredAt(s, r)] \in StoredRow
          <6> HIDE DEF StoredRow
          <6> QED BY <5>1
        <5> QED BY <2>2, <4>1, <5>2, ParentAssumption DEF StoredRow
      <4> QED BY <2>2, <4>1, ParentAssumption
    <3> QED BY <2>2, <3>1 DEF StoredRow
  <2>5. /\ y \in PaneRecord /\ y.id = x.id /\ y.file = x.file /\ y.lapsed = x.lapsed
    BY <2>1, <2>3 DEF PaneRecord
  <2> HIDE DEF y, row, kept
  <2>6. /\ u \in State /\ u.rows = s.rows /\ u.prompts = s.prompts /\ u.inboxes = s.inboxes
        /\ SamePanes(s, u)
    BY <2>4, UpsertIs DEF Good
  <2> HIDE DEF u
  <2>7. Good(u)
    BY <2>6, SameTable
  <2>8. Good([u EXCEPT !.rows[r].pane = y]) /\ SamePanes(u, [u EXCEPT !.rows[r].pane = y])
    <3>1. u.rows[r].pane = x
      BY <2>6
    <3> HIDE DEF x
    <3> QED BY <2>5, <2>7, <3>1, PaneKeptIs DEF x
  <2>9. PersistRow(s, r) = [u EXCEPT !.rows[r].pane.saved = kept]
    BY <1>2 DEF PersistRow, u, row, kept, parent
  <2>10. [u EXCEPT !.rows[r].pane.saved = kept] = [u EXCEPT !.rows[r].pane = y]
    BY <2>6 DEF y
  <2> QED BY <2>6, <2>8, <2>9, <2>10, SameOn
<1> QED BY <1>1, <1>2

(* A row that lists pane x from now on. *)
Entered(row, x) ==
  [state |-> "live", pane |-> x,
   held |-> IF row.pane # None /\ row.pane.id # x.id THEN Append(row.held, row.pane) ELSE row.held,
   start |-> None]

LEMMA EnterRow ==
  ASSUME NEW row \in RowRecord, Sound(row), NEW x \in PaneRecord,
         \A k \in 1..Len(row.held) : row.held[k].id # x.id
  PROVE  /\ Entered(row, x) \in RowRecord /\ Sound(Entered(row, x))
         /\ \A p : p \in PaneIds(Entered(row, x)) <=> p \in PaneIds(row) \/ p = x.id
         /\ Entered(row, x).pane = x /\ Entered(row, x).state = "live"
         /\ Entered(row, x).start = None
<1> DEFINE new == Entered(row, x)
           held == new.held
<1>0. /\ held = IF row.pane # None /\ row.pane.id # x.id THEN Append(row.held, row.pane) ELSE row.held
      /\ new = [state |-> "live", pane |-> x, held |-> held, start |-> None]
  BY DEF Entered
<1> HIDE DEF new, held
<1>1. /\ row.held \in Seq(PaneRecord) /\ row.pane \in PaneRecord \cup {None}
  <2> HIDE DEF PaneRecord, Start
  <2> QED BY DEF RowRecord
<1>2. x # None
  BY NoneIsNoRecord
<1>3. /\ held \in Seq(PaneRecord)
      /\ \A j, k \in 1..Len(held) : held[j].id = held[k].id => j = k
      /\ \A k \in 1..Len(held) : held[k].id # x.id
      /\ \A p : (\E k \in 1..Len(held) : held[k].id = p) <=>
               (\E k \in 1..Len(row.held) : row.held[k].id = p) \/ (Lists(row, p) /\ p # x.id)
  <2>1. CASE row.pane # None /\ row.pane.id # x.id
    <3> DEFINE A == PaneRecord
               q == row.held
               n == Len(q)
    <3>1. row.pane \in A /\ q \in Seq(A) /\ held = Append(q, row.pane)
      BY <1>0, <1>1, <2>1
    <3>2. /\ held \in Seq(A) /\ Len(held) = n + 1 /\ n \in Nat
          /\ held[n + 1] = row.pane
          /\ \A k \in 1..n : held[k] = q[k]
      <4> HIDE DEF A, q
      <4> QED BY <3>1, AppendProperties, LenProperties
    <3>3. \A k : k \in 1..(n + 1) <=> k \in 1..n \/ k = n + 1
      BY <3>2
    <3>4. /\ \A j, k \in 1..n : q[j].id = q[k].id => j = k
          /\ \A k \in 1..n : q[k].id # row.pane.id
          /\ \A k \in 1..n : q[k].id # x.id
      BY <2>1 DEF Sound
    <3>5. \A p : Lists(row, p) <=> p = row.pane.id
      BY <2>1 DEF Lists
    <3> HIDE DEF n, q
    <3>6. \A j, k \in 1..Len(held) : held[j].id = held[k].id => j = k
      BY <3>2, <3>3, <3>4
    <3>7. \A k \in 1..Len(held) : held[k].id # x.id
      BY <2>1, <3>2, <3>3, <3>4
    <3>8. \A p : (\E k \in 1..Len(held) : held[k].id = p) <=>
               (\E k \in 1..n : q[k].id = p) \/ (Lists(row, p) /\ p # x.id)
      BY <2>1, <3>2, <3>3, <3>5
    <3> QED BY <3>2, <3>6, <3>7, <3>8 DEF n, q
  <2>2. CASE ~(row.pane # None /\ row.pane.id # x.id)
    <3>1. \A p : Lists(row, p) => p = x.id
      BY <2>2 DEF Lists
    <3> QED BY <1>0, <1>1, <2>2, <3>1 DEF Sound
  <2> QED BY <2>1, <2>2
<1>4. new \in RowRecord
  <2> HIDE DEF PaneRecord, Start
  <2> QED BY <1>0, <1>1, <1>3 DEF RowRecord
<1>5. Sound(new)
  BY <1>0, <1>2, <1>3 DEF Sound
<1>6. ASSUME NEW p PROVE p \in PaneIds(new) <=> p \in PaneIds(row) \/ p = x.id
  <2>1. p \in PaneIds(new) <=> Lists(new, p) \/ \E k \in 1..Len(new.held) : new.held[k].id = p
    BY <1>4, PanesAre
  <2>2. p \in PaneIds(row) <=> Lists(row, p) \/ \E k \in 1..Len(row.held) : row.held[k].id = p
    BY PanesAre
  <2>3. Lists(new, p) <=> p = x.id
    BY <1>0, <1>2 DEF Lists
  <2>4. new.held = held
    BY <1>0
  <2> QED BY <1>3, <2>1, <2>2, <2>3, <2>4
<1>7. \A p : p \in PaneIds(new) <=> p \in PaneIds(row) \/ p = x.id
  BY <1>6
<1>8. new.pane = x /\ new.state = "live" /\ new.start = None
  BY <1>0
<1> QED BY <1>4, <1>5, <1>7, <1>8 DEF new

(* Row r goes on as pane x, which is of no other row and not held by r, and *)
(* whose prompts are r's; no start is on the session it runs.              *)
LEMMA EnterIs ==
  ASSUME NEW s, NEW r \in Row, NEW x \in PaneRecord,
         GoodBut(s, GivenTo(s.prompts, x.id)),
         \A i \in GivenTo(s.prompts, x.id) : Open(s.prompts[i]) => s.prompts[i].row = r,
         \A q \in Row \ {r} : x.id \notin PaneIds(s.rows[q]),
         \A k \in 1..Len(s.rows[r].held) : s.rows[r].held[k].id # x.id,
         \A q \in Row : s.rows[q].start # None /\ s.rows[q].start.file # None =>
           s.rows[q].start.file # x.file
  PROVE  /\ Good(Enter(s, r, x)) /\ Enter(s, r, x).rows[r].pane = x
         /\ Joins(s, Enter(s, r, x), x.id, r)
<1> DEFINE row == s.rows[r]
           new == Entered(row, x)
           us == [s.rows EXCEPT ![r] = new]
           X == GivenTo(s.prompts, x.id)
<1>1. s \in State /\ GoodBut(s, X)
  BY DEF GoodBut
<1>2. s.rows \in [Row -> RowRecord] /\ row \in RowRecord /\ Sound(row)
  BY <1>1, StateIs DEF GoodBut
<1>3. /\ new \in RowRecord /\ Sound(new)
      /\ \A p : p \in PaneIds(new) <=> p \in PaneIds(row) \/ p = x.id
      /\ new.pane = x /\ new.state = "live" /\ new.start = None
  <2> HIDE DEF row
  <2>1. \A k \in 1..Len(row.held) : row.held[k].id # x.id
    BY DEF row
  <2> QED BY <1>2, <2>1, EnterRow
<1> HIDE DEF new
<1>4. us \in [Row -> RowRecord] /\ us[r] = new /\ \A q \in Row \ {r} : us[q] = s.rows[q]
  BY <1>2, <1>3
<1>5. Enter(s, r, x) = [s EXCEPT !.rows = us]
  BY DEF Enter, Entered, us, new
<1> HIDE DEF us, X
<1>6. \A q \in Row : Sound(us[q])
  BY <1>3, <1>4 DEF GoodBut
<1>7. Apart(us)
  <2>1. Apart(s.rows)
    BY DEF GoodBut
  <2>2. ASSUME NEW p \in PaneIds(us[r]), NEW q \in Row \ {r} PROVE p \notin PaneIds(s.rows[q])
    <3>1. CASE p = x.id
      BY <3>1
    <3>2. CASE p # x.id
      <4>1. p \in PaneIds(s.rows[r])
        BY <1>3, <1>4, <3>2
      <4> QED BY <2>1, <4>1 DEF Apart
    <3> QED BY <3>1, <3>2
  <2> QED BY <1>4, <2>1, <2>2, ApartStays
<1>8. ASSUME NEW q \in Row PROVE Starts(us, q)
  <2> SUFFICES ASSUME us[q].start # None, us[q].start.file # None, NEW u \in Row
               PROVE  /\ us[u].start # None /\ us[u].start.file = us[q].start.file => u = q
                      /\ us[u].state = "live" /\ us[u].pane.file = us[q].start.file =>
                           us[u].pane.lapsed
    BY DEF Starts
  <2>1. q # r /\ us[q] = s.rows[q]
    BY <1>3, <1>4
  <2>2. Starts(s.rows, q) /\ us[q].start.file # x.file
    BY <2>1 DEF GoodBut
  <2>3. CASE u = r
    BY <1>3, <1>4, <2>2, <2>3
  <2>4. CASE u # r
    <3>1. us[u] = s.rows[u]
      BY <1>4, <2>4
    <3> QED BY <2>1, <2>2, <3>1 DEF Starts
  <2> QED BY <2>3, <2>4
<1>9. \A q \in Row : s.rows[q].state = "live" => us[q].state = "live"
  BY <1>3, <1>4
<1>10. \A q \in Row : PaneIds(s.rows[q]) \subseteq PaneIds(us[q])
  BY <1>3, <1>4
<1>11. \A i \in X \cap Id : Open(s.prompts[i]) =>
         s.prompts[i].row \in Row /\ s.prompts[i].pane \in PaneIds(us[s.prompts[i].row])
  BY <1>3, <1>4 DEF X, GivenTo
<1>12. Good([s EXCEPT !.rows = us])
  BY <1>1, <1>4, <1>6, <1>7, <1>8, <1>9, <1>10, <1>11, RowsGood
<1> DEFINE t == [s EXCEPT !.rows = us]
<1>13. /\ t.rows = us /\ t.inboxes = s.inboxes /\ t.waits = s.waits
       /\ t.deleted = s.deleted /\ t.dropped = s.dropped
  BY <1>1, <1>4, RowsSet
<1> HIDE DEF t
<1>14. Registered(t) = Registered(s) \cup {x.id}
  <2>1. \A q \in Row : \A p : p \in PaneIds(us[q]) <=> p \in PaneIds(s.rows[q]) \/ (q = r /\ p = x.id)
    BY <1>3, <1>4
  <2>2. \A p : p \in Registered(t) <=> \E q \in Row : p \in PaneIds(us[q])
    BY <1>13 DEF Registered
  <2>3. \A p : p \in Registered(s) <=> \E q \in Row : p \in PaneIds(s.rows[q])
    BY DEF Registered
  <2>4. \A p : p \in Registered(t) <=> p \in Registered(s) \/ p = x.id
    BY <2>1, <2>2, <2>3
  <2> QED BY <2>4
<1>15. ASSUME NEW q \in Row, NEW p, p # x.id, LiveAs(us[q], p) PROVE LiveAs(s.rows[q], p)
  BY <1>3, <1>4, <1>15 DEF LiveAs, Lists
<1>16. Follows(s, t, {x.id})
  BY <1>13, <1>14, <1>15 DEF Follows
<1>17. x.id \in PaneIds(us[r])
  BY <1>3, <1>4
<1>18. Joins(s, t, x.id, r)
  BY <1>13, <1>16, <1>17 DEF Joins, SameGone
<1> QED BY <1>3, <1>4, <1>5, <1>12, <1>13, <1>18 DEF t

(* A live pane is listed by its row. *)
LEMMA LiveIs ==
  ASSUME NEW s, Good(s), NEW p, IsLive(s, p)
  PROVE  /\ p \in Registered(s) /\ p \in Pane /\ RowOf(s, p) \in Row
         /\ Lists(s.rows[RowOf(s, p)], p) /\ s.rows[RowOf(s, p)].state = "live"
         /\ PaneOf(s, p) = s.rows[RowOf(s, p)].pane
         /\ PaneOf(s, p) \in PaneRecord /\ PaneOf(s, p).id = p
<1>1. PICK r \in Row : s.rows[r].state = "live" /\ Lists(s.rows[r], p)
  BY DEF IsLive
<1>2. s.rows[r] \in RowRecord
  BY StateIs DEF Good
<1>3. p \in PaneIds(s.rows[r])
  BY <1>1, <1>2, PanesAre
<1> QED BY <1>1, <1>3, FoundIs

(* A pane that goes on as another row than it was held by. *)
LEMMA UnheldIs ==
  ASSUME NEW s, Good(s), NEW p \in Registered(s)
  PROVE  /\ GoodBut(Unheld(s, p), GivenTo(s.prompts, p))
         /\ Unheld(s, p).prompts = s.prompts
         /\ \A q \in Row \ {RowOf(s, p)} : p \notin PaneIds(Unheld(s, p).rows[q])
         /\ \A k \in 1..Len(Unheld(s, p).rows[RowOf(s, p)].held) :
              Unheld(s, p).rows[RowOf(s, p)].held[k].id # p
         /\ Follows(s, Unheld(s, p), {p}) /\ SameGone(s, Unheld(s, p))
         /\ Unheld(s, p).waits = s.waits /\ Unheld(s, p).inboxes = s.inboxes
<1> DEFINE r == RowOf(s, p)
           row == s.rows[r]
           X == GivenTo(s.prompts, p)
           Goal(t) == /\ GoodBut(t, X)
                      /\ t.prompts = s.prompts
                      /\ \A q \in Row \ {r} : p \notin PaneIds(t.rows[q])
                      /\ \A k \in 1..Len(t.rows[r].held) : t.rows[r].held[k].id # p
                      /\ Follows(s, t, {p}) /\ SameGone(s, t)
                      /\ t.waits = s.waits /\ t.inboxes = s.inboxes
<1> SUFFICES Goal(Unheld(s, p))
  OBVIOUS
<1>1. s \in State /\ GoodBut(s, X)
  BY DEF Good, GoodBut
<1>2. r \in Row /\ p \in PaneIds(row)
  BY RowIs
<1>3. s.rows \in [Row -> RowRecord] /\ row \in RowRecord /\ Sound(row)
  BY <1>1, <1>2, StateIs DEF Good
<1>4. \A q \in Row \ {r} : p \notin PaneIds(s.rows[q])
  BY <1>2 DEF Good, Apart
<1>5. CASE Lists(row, p)
  <2>1. Unheld(s, p) = s
    BY <1>5 DEF Unheld
  <2>2. \A k \in 1..Len(row.held) : row.held[k].id # p
    BY <1>3, <1>5 DEF Sound, Lists
  <2>3. Follows(s, s, {p}) /\ SameGone(s, s)
    BY DEF Follows, SameGone
  <2> QED BY <1>1, <1>4, <2>1, <2>2, <2>3
<1>6. CASE ~Lists(row, p)
  <2> DEFINE new == Without(row, p)
             us == [s.rows EXCEPT ![r] = new]
             t == [s EXCEPT !.rows = us]
  <2>1. /\ new \in RowRecord /\ Sound(new) /\ PaneIds(new) = PaneIds(row) \ {p}
        /\ new.start = row.start /\ new.state = row.state /\ new.pane = row.pane
    <3> HIDE DEF row, new
    <3> QED BY <1>2, <1>3, <1>6, WithoutIs DEF new
  <2>2. Unheld(s, p) = t
    BY <1>6 DEF Unheld, Without
  <2> HIDE DEF new, row
  <2>3. us \in [Row -> RowRecord] /\ us[r] = new /\ \A q \in Row \ {r} : us[q] = s.rows[q]
    BY <1>2, <1>3, <2>1
  <2> HIDE DEF us
  <2>4. /\ t \in State /\ t.rows = us /\ t.prompts = s.prompts /\ t.inboxes = s.inboxes
        /\ t.waits = s.waits /\ t.deleted = s.deleted /\ t.dropped = s.dropped
    BY <1>1, <2>3, RowsSet
  <2> HIDE DEF t, r
  <2>5. \A q \in Row : Sound(us[q])
    BY <2>1, <2>3 DEF Good
  <2>6. Apart(us)
    <3>1. Apart(s.rows)
      BY DEF Good
    <3>2. \A y \in PaneIds(us[r]), q \in Row \ {r} : y \notin PaneIds(s.rows[q])
      BY <1>2, <2>1, <2>3, <3>1 DEF Apart, row
    <3> QED BY <1>2, <2>3, <3>1, <3>2, ApartStays
  <2>7. WaitingRight(t)
    <3>1. \A q \in Row : us[q].state = s.rows[q].state
      BY <2>1, <2>3 DEF row
    <3> QED BY <2>4, <3>1 DEF Good, WaitingRight
  <2>8. ASSUME NEW i \in Id \ X PROVE Given(t, i)
    <3>1. Given(s, i) /\ s.prompts[i].pane # p
      BY <2>8 DEF Good, GivenTo
    <3>2. \A q \in Row : \A y \in PaneIds(s.rows[q]) : y # p => y \in PaneIds(us[q])
      BY <2>1, <2>3 DEF row
    <3> QED BY <2>4, <3>1, <3>2 DEF Given
  <2>9. \A q \in Row : Starts(us, q)
    <3>1. \A q \in Row : Starts(s.rows, q)
      BY DEF Good
    <3>2. us[r].start = s.rows[r].start /\ us[r].state = s.rows[r].state /\ us[r].pane = s.rows[r].pane
      BY <2>1, <2>3 DEF row
    <3> QED BY <1>2, <2>3, <3>1, <3>2, StartsStay
  <2>10. GoodBut(t, X)
    BY <2>4, <2>5, <2>6, <2>7, <2>8, <2>9 DEF GoodBut
  <2>11. \A k \in 1..Len(new.held) : new.held[k].id # p
    <3>1. p \notin PaneIds(new)
      BY <2>1
    <3> QED BY <2>1, <3>1, PanesAre
  <2>12. Follows(s, t, {p})
    <3>1. \A q \in Row : /\ PaneIds(us[q]) \subseteq PaneIds(s.rows[q])
                         /\ PaneIds(s.rows[q]) \ {p} \subseteq PaneIds(us[q])
                         /\ us[q].pane = s.rows[q].pane /\ us[q].state = s.rows[q].state
      BY <2>1, <2>3 DEF row
    <3>2. Registered(t) \subseteq Registered(s) /\ Registered(s) \ {p} \subseteq Registered(t)
      BY <2>4, <3>1 DEF Registered
    <3>3. \A q \in Row : \A y : LiveAs(us[q], y) => LiveAs(s.rows[q], y)
      BY <3>1 DEF LiveAs, Lists
    <3> QED BY <2>4, <3>2, <3>3 DEF Follows
  <2>13. SameGone(s, t)
    BY <2>4 DEF SameGone
  <2> QED BY <1>4, <2>2, <2>3, <2>4, <2>10, <2>11, <2>12, <2>13
<1> QED BY <1>5, <1>6

(* A pane goes on as row r. *)
LEMMA GoOnIs ==
  ASSUME NEW s, NEW r \in Row, NEW p \in Pane, NEW f \in File, NEW pin \in Pin, files \subseteq File,
         GoodBut(s, GivenTo(s.prompts, p)),
         \A i \in GivenTo(s.prompts, p) : Open(s.prompts[i]) => s.prompts[i].row = r,
         \A q \in Row \ {r} : p \notin PaneIds(s.rows[q]),
         \A k \in 1..Len(s.rows[r].held) : s.rows[r].held[k].id # p
  PROVE  Good(GoOnAs(s, r, p, f, pin)) /\ Joins(s, GoOnAs(s, r, p, f, pin), p, r)
<1> DEFINE taken == StartsTaken(s, p, f)
           u == WithoutStarts(s, taken)
           x == [id |-> p, file |-> f, pin |-> pin, lapsed |-> FALSE, saved |-> None]
           X == GivenTo(s.prompts, p)
           v == Enter(u, r, x)
<1>1. x \in PaneRecord /\ x.id = p /\ x.file = f
  BY DEF PaneRecord, MaybeFile
<1>2. /\ GoodBut(u, X)
      /\ u.prompts = s.prompts
      /\ \A q \in Row :
           /\ u.rows[q].pane = s.rows[q].pane /\ u.rows[q].held = s.rows[q].held
           /\ u.rows[q].start = IF q \in taken THEN None ELSE s.rows[q].start
      /\ SamePanes(s, u)
  <2> HIDE DEF X, taken
  <2> QED BY StartsEndIs DEF X
<1> HIDE DEF u, x
<1>3. \A q \in Row : PaneIds(u.rows[q]) = PaneIds(s.rows[q])
  BY <1>2 DEF PaneIds, PanesIn
<1>4. \A q \in Row : u.rows[q].start # None /\ u.rows[q].start.file # None =>
        u.rows[q].start.file # f
  <2>1. f # None
    BY FileAssumption
  <2> QED BY <1>2, <2>1 DEF StartsTaken
<1>5. Good(v) /\ v.rows[r].pane = x /\ Joins(u, v, p, r)
  <2>1. GoodBut(u, GivenTo(u.prompts, x.id))
    BY <1>1, <1>2
  <2>2. \A i \in GivenTo(u.prompts, x.id) : Open(u.prompts[i]) => u.prompts[i].row = r
    BY <1>1, <1>2
  <2>3. /\ \A q \in Row \ {r} : x.id \notin PaneIds(u.rows[q])
        /\ \A k \in 1..Len(u.rows[r].held) : u.rows[r].held[k].id # x.id
    BY <1>1, <1>2, <1>3
  <2>4. \A q \in Row : u.rows[q].start # None /\ u.rows[q].start.file # None =>
          u.rows[q].start.file # x.file
    BY <1>1, <1>4
  <2> HIDE DEF v, X, taken
  <2> QED BY <1>1, <2>1, <2>2, <2>3, <2>4, EnterIs DEF v
<1>6. x # None
  BY <1>1, NoneIsNoRecord
<1>7. GoOnAs(s, r, p, f, pin) = PersistRow(v, r)
  BY DEF GoOnAs, TakeStarting, v, u, x, WithoutStarts
<1> HIDE DEF v
<1>8. Good(PersistRow(v, r)) /\ SamePanes(v, PersistRow(v, r))
  BY <1>5, <1>6, PersistIs
<1> QED BY <1>2, <1>5, <1>7, <1>8, JoinsOn

(* A live pane beats. *)
LEMMA BeatIs ==
  ASSUME NEW s, Good(s), NEW p, IsLive(s, p), NEW f \in File, files \subseteq File
  PROVE  Good(BeatAgain(s, p, f)) /\ SamePanes(s, BeatAgain(s, p, f))
<1> DEFINE r == RowOf(s, p)
           x == PaneOf(s, p)
           y == [x EXCEPT !.file = f, !.lapsed = FALSE]
           taken == StartsTaken(s, p, f)
           u == WithoutStarts(s, taken)
           v == [u EXCEPT !.rows[r].pane = y]
           w == IF x.file # f /\ f \notin files THEN Unstore(v, r) ELSE v
<1>1. /\ r \in Row /\ p \in Pane /\ s.rows[r].pane = x /\ x \in PaneRecord /\ x.id = p
  BY LiveIs
<1>2. y \in PaneRecord /\ y.id = p /\ y.file = f
  <2> HIDE DEF x
  <2> QED BY <1>1 DEF PaneRecord, MaybeFile
<1> HIDE DEF r, x, y
<1>3. /\ Good(u) /\ SamePanes(s, u)
      /\ \A q \in Row :
           /\ u.rows[q].pane = s.rows[q].pane
           /\ u.rows[q].start = IF q \in taken THEN None ELSE s.rows[q].start
  <2>1. GoodBut(s, {})
    BY GoodIs
  <2> HIDE DEF taken
  <2> QED BY <2>1, GoodIs, StartsEndIs
<1>4. \A q \in Row : u.rows[q].start # None /\ u.rows[q].start.file # None =>
        u.rows[q].start.file # y.file
  <2>1. f # None
    BY FileAssumption
  <2> QED BY <1>2, <1>3, <2>1 DEF StartsTaken
<1> HIDE DEF u
<1>5. u.rows[r].pane = x /\ x # None
  BY <1>1, <1>3, NoneIsNoRecord
<1>6. Good(v) /\ v.rows[r].pane = y /\ SamePanes(u, v)
  <2> HIDE DEF v
  <2>1. u.rows[r].pane # None /\ y.id = u.rows[r].pane.id
    BY <1>1, <1>2, <1>5
  <2>2. /\ Good([u EXCEPT !.rows[r].pane = y]) /\ [u EXCEPT !.rows[r].pane = y].rows[r].pane = y
        /\ SamePanes(u, [u EXCEPT !.rows[r].pane = y])
    BY <1>1, <1>2, <1>3, <1>4, <2>1, PaneKeptIs
  <2> QED BY <2>2 DEF v
<1> HIDE DEF v
<1>7. Good(w) /\ w.rows = v.rows /\ SamePanes(v, w)
  <2>1. /\ Unstore(v, r) \in State /\ SamePanes(v, Unstore(v, r))
        /\ Unstore(v, r).rows = v.rows /\ Unstore(v, r).prompts = v.prompts
        /\ Unstore(v, r).inboxes = v.inboxes
    <3>1. v \in State
      BY <1>6 DEF Good
    <3> QED BY <3>1, UnstoreIs DEF Unstore
  <2>2. Good(Unstore(v, r))
    BY <1>6, <2>1, SameTable
  <2>3. SamePanes(v, v)
    BY DEF SamePanes, SameGone
  <2> QED BY <1>6, <2>1, <2>2, <2>3
<1>8. w.rows[r].pane # None
  BY <1>2, <1>6, <1>7, NoneIsNoRecord
<1>9. BeatAgain(s, p, f) = PersistRow(w, r)
  BY DEF BeatAgain, TakeStarting, WithoutStarts, r, x, y, u, v, w
<1> HIDE DEF w
<1>10. Good(PersistRow(w, r)) /\ SamePanes(w, PersistRow(w, r))
  BY <1>1, <1>7, <1>8, PersistIs
<1>11. SamePanes(s, w)
  BY <1>3, <1>6, <1>7, SameOn
<1> QED BY <1>9, <1>10, <1>11, SameOn

---------------------------------------------------------------------------
(* Stopped rows, and a pane's end *)

LEMMA StoppedIs ==
  ASSUME NEW s, Good(s), NEW f \in File, NEW p \in Registered(s) \cup {None},
         NEW previous \in StoredRow \cup {None}, NEW fresh, p = None => fresh \in Row
  PROVE  StoppedRow(s, previous, f, p, fresh) \in StoredRow
<1>1. ASSUME p # None
      PROVE  /\ RowOf(s, p) \in Row /\ PaneOf(s, p).pin \in Pin
             /\ Parent[p] \in Pane \cup {None}
  <2>1. p \in Registered(s)
    BY <1>1
  <2>2. RowOf(s, p) \in Row /\ p \in PaneIds(s.rows[RowOf(s, p)])
    BY <2>1, RowIs
  <2>3. PaneOf(s, p) \in PaneRecord /\ p \in Pane
    BY <2>2, FoundIs
  <2> QED BY <2>2, <2>3, ParentAssumption DEF PaneRecord
<1>2. ASSUME previous # None
      PROVE  previous.id \in Row /\ previous.pin \in Pin /\ previous.parent \in Pane \cup {None}
  BY <1>2 DEF StoredRow
<1>3. None \in Pin
  BY DEF Pin
<1> DEFINE id == IF previous # None THEN previous.id ELSE IF p # None THEN RowOf(s, p) ELSE fresh
           pin == IF p # None /\ PaneOf(s, p).pin # None THEN PaneOf(s, p).pin
                  ELSE IF previous # None THEN previous.pin ELSE None
           parent == IF p # None /\ Parent[p] # None THEN Parent[p]
                     ELSE IF previous # None THEN previous.parent ELSE None
<1>4. id \in Row
  BY <1>1, <1>2
<1>5. pin \in Pin
  BY <1>1, <1>2, <1>3
<1>6. parent \in Pane \cup {None}
  BY <1>1, <1>2
<1>7. StoppedRow(s, previous, f, p, fresh) = [id |-> id, file |-> f, pin |-> pin, parent |-> parent]
  BY DEF StoppedRow
<1> HIDE DEF id, pin, parent
<1> QED BY <1>4, <1>5, <1>6, <1>7 DEF StoredRow

LEMMA StopIs ==
  ASSUME NEW s, Good(s), NEW f \in File, NEW p \in Registered(s) \cup {None},
         NEW fresh, p = None => fresh \in Row, NEW reason
  PROVE  /\ Good(StopRow(s, f, p, fresh, reason))
         /\ p \notin Registered(StopRow(s, f, p, fresh, reason))
         /\ \A q \in Row : s.rows[q].state # "live" =>
              StopRow(s, f, p, fresh, reason).rows[q].state # "live"
         /\ Follows(s, StopRow(s, f, p, fresh, reason), {})
         /\ SameGone(s, StopRow(s, f, p, fresh, reason))
<1> DEFINE u == IF p = None THEN s ELSE Drop(s, p, reason)
           row == StoppedRow(s, StoredOn(s, f), f, p, fresh)
           t == Upsert(u, row)
<1>1. /\ Good(u) /\ \A q \in Row : s.rows[q].state # "live" => u.rows[q].state # "live"
      /\ Follows(s, u, {}) /\ SameGone(s, u)
  <2>1. Follows(s, s, {}) /\ SameGone(s, s)
    BY DEF Follows, SameGone
  <2> QED BY <2>1, DropIs
<1>2. p \notin Registered(u)
  <2>1. CASE p = None
    <3>1. \A q \in Row : PaneIds(u.rows[q]) \subseteq Pane
      <4>1. \A q \in Row : u.rows[q] \in RowRecord
        BY <1>1, StateIs DEF Good
      <4> QED BY <4>1, PanesAre
    <3> QED BY <2>1, <3>1, NoneAssumption DEF Registered
  <2>2. CASE p # None
    BY <2>2, DropIs
  <2> QED BY <2>1, <2>2
<1>3. row \in StoredRow
  <2>1. StoredOn(s, f) \in StoredRow \cup {None}
    BY StoredOnIs DEF Good
  <2> QED BY <2>1, StoppedIs
<1> HIDE DEF u, row
<1>4. /\ t \in State /\ t.rows = u.rows /\ t.prompts = u.prompts /\ t.inboxes = u.inboxes
      /\ SamePanes(u, t)
  BY <1>1, <1>3, UpsertIs DEF Good
<1>5. StopRow(s, f, p, fresh, reason) = t
  BY DEF StopRow, u, row
<1> HIDE DEF t
<1>6. Good(t)
  BY <1>1, <1>4, SameTable
<1>7. Follows(s, t, {}) /\ SameGone(s, t)
  <2>1. Follows(u, t, {})
    BY <1>4, SameFollows
  <2> QED BY <1>1, <1>4, <2>1, FollowsOn DEF SamePanes, SameGone
<1> QED BY <1>1, <1>2, <1>4, <1>5, <1>6, <1>7 DEF Registered

LEMMA PaneEndedIs ==
  ASSUME NEW s, Good(s), NEW p \in Registered(s), NEW reason, files \subseteq File
  PROVE  /\ Good(PaneEnded(s, p, reason))
         /\ p \notin Registered(PaneEnded(s, p, reason))
         /\ \A q \in Row : s.rows[q].state # "live" => PaneEnded(s, p, reason).rows[q].state # "live"
         /\ Follows(s, PaneEnded(s, p, reason), {}) /\ SameGone(s, PaneEnded(s, p, reason))
<1> DEFINE f == PaneOf(s, p).file
<1>1. p # None
  <2>1. p \in Pane
    BY RowIs, FoundIs
  <2> QED BY <2>1, NoneAssumption
<1>2. \/ PaneEnded(s, p, reason) = StopRow(s, f, p, None, reason) /\ f \in files
      \/ PaneEnded(s, p, reason) = Drop(s, p, reason)
  BY DEF PaneEnded
<1>3. CASE PaneEnded(s, p, reason) = StopRow(s, f, p, None, reason) /\ f \in files
  <2>1. f \in File
    BY <1>3
  <2> HIDE DEF f
  <2> QED BY <1>1, <1>3, <2>1, StopIs
<1>4. CASE PaneEnded(s, p, reason) = Drop(s, p, reason)
  BY <1>4, DropIs
<1> QED BY <1>2, <1>3, <1>4

---------------------------------------------------------------------------
(* register *)

(* What is open of a pane that is not registered. *)
LEMMA NoneGiven ==
  ASSUME NEW s, Good(s), NEW p, p \notin Registered(s), p # None
  PROVE  \A i \in Id : Open(s.prompts[i]) => s.prompts[i].pane # p
BY DEF Good, Given, Registered

LEMMA PlacedIs ==
  ASSUME NEW s, Good(s), NEW onFile \in StoredRow \cup {None}, NEW p \in Pane, NEW f \in File,
         NEW fresh \in Row, NEW claimed \in Row \cup {None},
         p \notin Registered(s), files \subseteq File
  PROVE  /\ Good(Placed(s, onFile, p, f, fresh, claimed))
         /\ \E r \in Row : Joins(s, Placed(s, onFile, p, f, fresh, claimed), p, r)
<1>1. ASSUME NEW r \in Row, NEW pin \in Pin
      PROVE  Good(GoOnAs(s, r, p, f, pin)) /\ Joins(s, GoOnAs(s, r, p, f, pin), p, r)
  <2>1. GoodBut(s, GivenTo(s.prompts, p))
    BY DEF Good, GoodBut
  <2>2. \A i \in GivenTo(s.prompts, p) : Open(s.prompts[i]) => s.prompts[i].row = r
    <3>1. p # None
      BY NoneAssumption
    <3> QED BY <3>1, NoneGiven DEF GivenTo
  <2>3. \A q \in Row : p \notin PaneIds(s.rows[q])
    BY DEF Registered
  <2>4. \A k \in 1..Len(s.rows[r].held) : s.rows[r].held[k].id # p
    <3>1. s.rows[r] \in RowRecord
      BY StateIs DEF Good
    <3> QED BY <2>3, <3>1, PanesAre
  <2> QED BY <2>1, <2>2, <2>3, <2>4, GoOnIs
<1>2. ASSUME onFile # None PROVE onFile.id \in Row /\ onFile.pin \in Pin
  BY <1>2 DEF StoredRow
<1> DEFINE r == IF claimed # None THEN claimed ELSE IF IsStored(s, p) THEN fresh ELSE p
<1>3. r \in Row /\ None \in Pin
  BY PaneIdsAreRowIds DEF Pin
<1>4. \/ onFile # None /\ Placed(s, onFile, p, f, fresh, claimed) = GoOnAs(s, onFile.id, p, f, onFile.pin)
      \/ Placed(s, onFile, p, f, fresh, claimed) = GoOnAs(s, r, p, f, None)
  BY DEF Placed
<1> HIDE DEF r
<1> QED BY <1>1, <1>2, <1>3, <1>4

LEMMA ArriveIs ==
  ASSUME NEW s, Good(s), NEW p \in Pane, NEW f \in File,
         NEW fresh \in Row, NEW claimed \in Row \cup {None}, files \subseteq File
  PROVE  /\ Good(Arrive(s, p, f, fresh, claimed))
         /\ Registered(Arrive(s, p, f, fresh, claimed)) \subseteq Registered(s) \cup {p}
         /\ SameGone(s, Arrive(s, p, f, fresh, claimed))
         /\ Heard(s) => Heard(Arrive(s, p, f, fresh, claimed))
<1> DEFINE silent == p \in Registered(s)
           same == silent /\ PaneOf(s, p).file = f
           r == RowOf(s, p)
           goes == same /\ s.rows[r].state # "live"
           u == IF ~silent THEN s ELSE PaneEnded(s, p, IF same THEN "unsaid" ELSE "another")
<1>1. CASE goes
  <2>1. p \in Registered(s)
    BY <1>1
  <2>2. r \in Row /\ p \in PaneIds(s.rows[r])
    BY <2>1, RowIs
  <2>3. PaneOf(s, p).pin \in Pin
    BY <2>2, FoundIs DEF PaneRecord
  <2>4. /\ GoodBut(Unheld(s, p), GivenTo(Unheld(s, p).prompts, p))
        /\ \A q \in Row \ {r} : p \notin PaneIds(Unheld(s, p).rows[q])
        /\ \A k \in 1..Len(Unheld(s, p).rows[r].held) : Unheld(s, p).rows[r].held[k].id # p
        /\ Unheld(s, p).prompts = s.prompts
        /\ Follows(s, Unheld(s, p), {p}) /\ SameGone(s, Unheld(s, p))
        /\ Unheld(s, p).waits = s.waits /\ Unheld(s, p).inboxes = s.inboxes
    BY <2>1, UnheldIs
  <2>5. \A i \in GivenTo(Unheld(s, p).prompts, p) :
          Open(Unheld(s, p).prompts[i]) => Unheld(s, p).prompts[i].row = r
    <3>1. p # None
      BY NoneAssumption
    <3>2. ASSUME NEW i \in Id, s.prompts[i].pane = p, Open(s.prompts[i]) PROVE s.prompts[i].row = r
      <4>1. s.prompts[i].row \in Row /\ p \in PaneIds(s.rows[s.prompts[i].row])
        BY <3>1, <3>2 DEF Good, Given
      <4> QED BY <4>1, FoundIs
    <3> QED BY <2>4, <3>2 DEF GivenTo
  <2> DEFINE t == GoOnAs(Unheld(s, p), r, p, f, PaneOf(s, p).pin)
  <2>6. Arrive(s, p, f, fresh, claimed) = t /\ s.rows[r].state # "live"
    BY <1>1 DEF Arrive
  <2> HIDE DEF r, t
  <2>7. Good(t) /\ Joins(Unheld(s, p), t, p, r)
    BY <2>2, <2>3, <2>4, <2>5, GoOnIs DEF t
  <2>8. Follows(s, t, {p}) /\ SameGone(s, t) /\ t.inboxes = s.inboxes
    BY <2>4, <2>7, FollowsOn DEF Joins, SameGone
  <2>9. ASSUME Heard(s) PROVE Heard(t)
    <3>1. p \in PaneIds(t.rows[r]) /\ p \in Registered(t)
      BY <2>2, <2>7 DEF Joins, Registered
    <3>2. ASSUME NEW q \in Row, LiveAs(t.rows[q], p) PROVE t.inboxes[q] = <<>>
      <4>1. t.rows[q] \in RowRecord
        BY <2>7, StateIs DEF Good
      <4>2. p \in PaneIds(t.rows[q])
        BY <3>2, <4>1, PanesAre DEF LiveAs
      <4>3. q = r
        BY <2>2, <2>7, <3>1, <4>2 DEF Good, Apart
      <4> QED BY <2>2, <2>6, <2>8, <4>3 DEF Good, WaitingRight
    <3> QED BY <2>8, <2>9, <3>1, <3>2, HeardBut
  <2>10. Registered(t) \subseteq Registered(s) \cup {p}
    BY <2>8 DEF Follows
  <2> QED BY <2>6, <2>7, <2>8, <2>9, <2>10
<1>2. CASE ~goes
  <2>1. Good(u) /\ p \notin Registered(u) /\ Follows(s, u, {}) /\ SameGone(s, u)
    <3>1. Follows(s, s, {}) /\ SameGone(s, s)
      BY DEF Follows, SameGone
    <3> QED BY <3>1, PaneEndedIs
  <2>2. Arrive(s, p, f, fresh, claimed) = PlacedOnFile(u, p, f, fresh, claimed)
    BY <1>2 DEF Arrive
  <2> HIDE DEF u
  <2> DEFINE onFile == IF f = None THEN None ELSE StoredOn(u, f)
  <2>3. onFile \in StoredRow \cup {None}
    BY <2>1, StoredOnIs DEF Good
  <2>4. PlacedOnFile(u, p, f, fresh, claimed) = Placed(u, onFile, p, f, fresh, claimed)
    BY DEF PlacedOnFile
  <2> HIDE DEF onFile
  <2> DEFINE t == Placed(u, onFile, p, f, fresh, claimed)
  <2>5. Good(t) /\ \E q \in Row : Joins(u, t, p, q)
    BY <2>1, <2>3, PlacedIs
  <2> HIDE DEF t
  <2>6. PICK q \in Row : Joins(u, t, p, q)
    BY <2>5
  <2>7. /\ Registered(t) \subseteq Registered(s) \cup {p} /\ SameGone(s, t)
        /\ Follows(u, t, {p}) /\ t.waits = u.waits
    BY <2>1, <2>6 DEF Joins, Follows, SameGone
  <2>8. ASSUME Heard(s) PROVE Heard(t)
    <3>1. Heard(u)
      BY <2>1, <2>8, HeardOn
    <3>2. p \notin t.waits
      BY <2>1, <2>7, <3>1 DEF Heard
    <3> QED BY <2>7, <3>1, <3>2, HeardBut
  <2> QED BY <2>2, <2>4, <2>5, <2>7, <2>8 DEF t
<1> QED BY <1>1, <1>2

(* What only the deleted rows and the drops tell. *)
LEMMA DeletedSet ==
  ASSUME NEW s, Good(s), NEW d \in SUBSET DeletedRow
  PROVE  /\ Good([s EXCEPT !.deleted = d])
         /\ [s EXCEPT !.deleted = d].rows = s.rows
         /\ [s EXCEPT !.deleted = d].dropped = s.dropped
         /\ [s EXCEPT !.deleted = d].stored = s.stored
         /\ [s EXCEPT !.deleted = d].waits = s.waits
         /\ [s EXCEPT !.deleted = d].inboxes = s.inboxes
         /\ [s EXCEPT !.deleted = d].deleted = d
<1> DEFINE t == [s EXCEPT !.deleted = d]
<1>1. /\ t \in State /\ t.rows = s.rows /\ t.prompts = s.prompts /\ t.inboxes = s.inboxes
      /\ t.dropped = s.dropped /\ t.stored = s.stored /\ t.waits = s.waits /\ t.deleted = d
  BY StateIs DEF Good, State
<1> HIDE DEF t
<1> QED BY <1>1, SameTable DEF t

LEMMA DroppedSet ==
  ASSUME NEW s, Good(s), NEW d \in [File -> Pane \cup {None}]
  PROVE  /\ Good([s EXCEPT !.dropped = d])
         /\ [s EXCEPT !.dropped = d].rows = s.rows
         /\ [s EXCEPT !.dropped = d].waits = s.waits
         /\ [s EXCEPT !.dropped = d].inboxes = s.inboxes
         /\ [s EXCEPT !.dropped = d].deleted = s.deleted
         /\ [s EXCEPT !.dropped = d].dropped = d
<1> DEFINE t == [s EXCEPT !.dropped = d]
<1>1. /\ t \in State /\ t.rows = s.rows /\ t.prompts = s.prompts /\ t.inboxes = s.inboxes
      /\ t.waits = s.waits /\ t.deleted = s.deleted /\ t.dropped = d
  BY StateIs DEF Good, State
<1> HIDE DEF t
<1> QED BY <1>1, SameTable DEF t

LEMMA RecordIs ==
  ASSUME NEW s, Good(s), NEW p \in Pane \cup {None}, NEW f \in MaybeFile
  PROVE  /\ Good(RecordDeleted(s, p, f)) /\ RecordDeleted(s, p, f).rows = s.rows
         /\ RecordDeleted(s, p, f).waits = s.waits /\ RecordDeleted(s, p, f).inboxes = s.inboxes
         /\ RecordDeleted(s, p, f).dropped = s.dropped
         /\ \A q \in Pane : Deletes(RecordDeleted(s, p, f), q) <=> Deletes(s, q) \/ q = p
<1> DEFINE e == [pane |-> p, file |-> f, gone |-> p = None]
           d == s.deleted \cup {e}
           t == [s EXCEPT !.deleted = d]
<1>1. CASE p = None /\ f = None
  <2>1. RecordDeleted(s, p, f) = s
    BY <1>1 DEF RecordDeleted
  <2> QED BY <1>1, <2>1, NoneAssumption
<1>2. CASE ~(p = None /\ f = None)
  <2>1. e \in DeletedRow /\ e.pane = p
    BY DEF DeletedRow
  <2>2. d \in SUBSET DeletedRow
    <3> HIDE DEF e
    <3> QED BY <2>1, StateIs DEF Good
  <2>3. RecordDeleted(s, p, f) = t
    BY <1>2 DEF RecordDeleted
  <2> HIDE DEF d
  <2>4. /\ Good(t) /\ t.rows = s.rows /\ t.waits = s.waits /\ t.inboxes = s.inboxes
        /\ t.dropped = s.dropped /\ t.deleted = d
    BY <2>2, DeletedSet
  <2> HIDE DEF t, e
  <2>5. \A q \in Pane : Deletes(t, q) <=> Deletes(s, q) \/ q = p
    BY <2>1, <2>4 DEF Deletes, d
  <2> QED BY <2>3, <2>4, <2>5
<1> QED BY <1>1, <1>2

LEMMA ForgetIs ==
  ASSUME NEW s, Good(s), NEW f
  PROVE  /\ Good(ForgetDeletedSession(s, f)) /\ ForgetDeletedSession(s, f).rows = s.rows
         /\ ForgetDeletedSession(s, f).waits = s.waits
         /\ ForgetDeletedSession(s, f).inboxes = s.inboxes
         /\ ForgetDeletedSession(s, f).dropped = s.dropped
         /\ \A q \in Pane : Deletes(ForgetDeletedSession(s, f), q) <=> Deletes(s, q)
<1> DEFINE F(e) == IF e.file = f THEN [e EXCEPT !.file = None] ELSE e
           d == {F(e) : e \in {c \in s.deleted : c.file # f \/ c.pane # None}}
           t == [s EXCEPT !.deleted = d]
<1>1. ForgetDeletedSession(s, f) = t
  BY DEF ForgetDeletedSession
<1>2. ASSUME NEW e \in DeletedRow PROVE F(e) \in DeletedRow /\ F(e).pane = e.pane
  BY DEF DeletedRow, MaybeFile
<1>3. s.deleted \subseteq DeletedRow
  BY StateIs DEF Good
<1> HIDE DEF F
<1>4. d \in SUBSET DeletedRow
  BY <1>2, <1>3
<1>5. \A q \in Pane : (\E e \in d : e.pane = q) <=> \E e \in s.deleted : e.pane = q
  <2> SUFFICES ASSUME NEW q \in Pane
               PROVE  (\E e \in d : e.pane = q) <=> \E e \in s.deleted : e.pane = q
    OBVIOUS
  <2>1. ASSUME NEW e \in d, e.pane = q PROVE \E c \in s.deleted : c.pane = q
    <3>1. PICK c \in s.deleted : e = F(c)
      OBVIOUS
    <3> QED BY <1>2, <1>3, <2>1, <3>1
  <2>2. ASSUME NEW c \in s.deleted, c.pane = q PROVE \E e \in d : e.pane = q
    <3>1. F(c) \in d
      BY <2>2, NoneAssumption
    <3> QED BY <1>2, <1>3, <2>2, <3>1
  <2> QED BY <2>1, <2>2
<1> HIDE DEF d
<1>6. /\ Good(t) /\ t.rows = s.rows /\ t.waits = s.waits /\ t.inboxes = s.inboxes
      /\ t.dropped = s.dropped /\ t.deleted = d
  BY <1>4, DeletedSet
<1> HIDE DEF t
<1> QED BY <1>1, <1>5, <1>6 DEF Deletes

(* A heartbeat brings its own pane alone, unless its row was deleted. *)
LEMMA RegisterIs ==
  ASSUME NEW s, Good(s), NEW p \in Pane, NEW f \in File,
         NEW fresh \in Row, NEW claimed \in Row \cup {None}, files \subseteq File
  PROVE  /\ Good(RegisterExternal(s, p, f, fresh, claimed))
         /\ Registered(RegisterExternal(s, p, f, fresh, claimed)) \subseteq
              Registered(s) \cup {q \in {p} : ~Deletes(s, q)}
         /\ \A q \in Pane : Deletes(RegisterExternal(s, p, f, fresh, claimed), q) <=> Deletes(s, q)
         /\ Calm(s) => Calm(RegisterExternal(s, p, f, fresh, claimed))
<1> DEFINE d == [g \in File |-> IF s.dropped[g] = p \/ g = f THEN None ELSE s.dropped[g]]
           s1 == [s EXCEPT !.dropped = d]
           s2 == IF f = None THEN s1 ELSE ForgetDeletedSession(s1, f)
           v == IF IsLive(s2, p) THEN BeatAgain(s2, p, f) ELSE Arrive(s2, p, f, fresh, claimed)
           w == EndDeleted(s, p, f)
<1>1. CASE Deletes(s, p)
  <2>1. f \in MaybeFile
    BY DEF MaybeFile
  <2>2. /\ Good(w) /\ w.rows = s.rows /\ w.waits = s.waits /\ w.inboxes = s.inboxes
        /\ w.dropped = s.dropped
        /\ \A q \in Pane : Deletes(w, q) <=> Deletes(s, q)
    BY <1>1, <2>1, RecordIs DEF EndDeleted
  <2>3. RegisterExternal(s, p, f, fresh, claimed) = w
    BY <1>1 DEF RegisterExternal
  <2> HIDE DEF w
  <2>4. Registered(w) = Registered(s) /\ (Heard(s) => Heard(w))
    BY <2>2, HeardSame
  <2>5. Calm(s) => Calm(w)
    BY <2>2, <2>4 DEF Calm, StaysGone
  <2> QED BY <2>2, <2>3, <2>4, <2>5
<1>2. CASE ~Deletes(s, p)
  <2>1. d \in [File -> Pane \cup {None}] /\ \A g \in File : d[g] # p /\ d[g] \in {s.dropped[g], None}
    <3>1. s.dropped \in [File -> Pane \cup {None}]
      BY StateIs DEF Good
    <3> QED BY <3>1, NoneAssumption
  <2>2. RegisterExternal(s, p, f, fresh, claimed) = v
    BY <1>2 DEF RegisterExternal
  <2> HIDE DEF d
  <2>3. /\ Good(s1) /\ s1.rows = s.rows /\ s1.waits = s.waits /\ s1.inboxes = s.inboxes
        /\ s1.deleted = s.deleted /\ s1.dropped = d
    BY <2>1, DroppedSet
  <2> HIDE DEF s1
  <2>4. /\ Good(s2) /\ s2.rows = s.rows /\ s2.waits = s.waits /\ s2.inboxes = s.inboxes
        /\ s2.dropped = d
        /\ \A q \in Pane : Deletes(s2, q) <=> Deletes(s, q)
    <3>1. \A q \in Pane : Deletes(s1, q) <=> Deletes(s, q)
      BY <2>3 DEF Deletes
    <3> QED BY <2>3, <3>1, ForgetIs
  <2> HIDE DEF s2
  <2>5. Registered(s2) = Registered(s) /\ (Heard(s) => Heard(s2))
    BY <2>4, HeardSame
  <2>6. /\ Good(v) /\ Registered(v) \subseteq Registered(s2) \cup {p} /\ SameGone(s2, v)
        /\ Heard(s2) => Heard(v)
    <3>1. CASE IsLive(s2, p)
      <4>1. v = BeatAgain(s2, p, f)
        BY <3>1
      <4>2. Good(v) /\ SamePanes(s2, v)
        BY <2>4, <3>1, <4>1, BeatIs
      <4> QED BY <4>2, SameFollows, HeardOn DEF SamePanes
    <3>2. CASE ~IsLive(s2, p)
      <4>1. v = Arrive(s2, p, f, fresh, claimed)
        BY <3>2
      <4> HIDE DEF v
      <4> QED BY <2>4, <4>1, ArriveIs
    <3> QED BY <3>1, <3>2
  <2> HIDE DEF v
  <2>7. \A q \in Pane : Deletes(v, q) <=> Deletes(s, q)
    BY <2>4, <2>6 DEF SameGone, Deletes
  <2>8. ASSUME Calm(s) PROVE Calm(v)
    <3>1. ASSUME NEW q \in Pane, Deletes(v, q) PROVE q \notin Registered(v)
      BY <1>2, <2>5, <2>6, <2>7, <2>8, <3>1 DEF Calm, StaysGone
    <3>2. ASSUME NEW g \in File PROVE v.dropped[g] \notin Registered(v)
      <4>1. v.dropped[g] # p /\ v.dropped[g] \in {s.dropped[g], None}
        BY <2>1, <2>4, <2>6 DEF SameGone
      <4>2. None \notin Registered(s) /\ s.dropped[g] \notin Registered(s)
        BY <2>8, NoneUnknown DEF Calm, StaysGone
      <4> QED BY <2>5, <2>6, <4>1, <4>2
    <3> QED BY <2>5, <2>6, <2>8, <3>1, <3>2 DEF Calm, StaysGone
  <2> QED BY <1>2, <2>2, <2>5, <2>6, <2>7, <2>8
<1> QED BY <1>1, <1>2

(* A live pane takes what waits for it: prompts of its row, given to it. *)
LEMMA DrainIs ==
  ASSUME NEW s, Good(s), NEW p
  PROVE  /\ Good(DrainExternal(s, p))
         /\ Follows(s, DrainExternal(s, p), {}) /\ SameGone(s, DrainExternal(s, p))
<1> DEFINE r == RowOf(s, p)
           ps == AfterTake(s.prompts, s.inboxes, r, p)
           ib == Emptied(s.inboxes, r)
           t == [s EXCEPT !.prompts = ps, !.inboxes = ib]
<1>1. CASE ~IsLive(s, p)
  BY <1>1 DEF DrainExternal, Follows, SameGone
<1>2. CASE IsLive(s, p)
  <2>1. /\ r \in Row /\ p \in Pane /\ p \in PaneIds(s.rows[r])
    BY <1>2, LiveIs, RowIs
  <2>2. s \in State /\ s.prompts \in [Id -> DeliveryRecord] /\ s.inboxes \in [Row -> Seq(Message)]
    BY StateIs DEF Good
  <2> HIDE DEF r
  <2>3. ps \in [Id -> DeliveryRecord]
    BY <2>1, <2>2 DEF AfterTake, DeliveryRecord
  <2>4. /\ ib \in [Row -> Seq(Message)] /\ ib[r] = <<>>
        /\ \A q \in Row \ {r} : ib[q] = s.inboxes[q]
    BY <2>1, <2>2 DEF Emptied
  <2>5. \A i \in Id :
          \/ ps[i] = s.prompts[i]
          \/ /\ InInbox(s.inboxes, i, r) /\ ps[i].outcome = s.prompts[i].outcome
             /\ ps[i].row = s.prompts[i].row /\ ps[i].pane = p
    BY <2>2 DEF AfterTake, DeliveryRecord
  <2>6. DrainExternal(s, p) = t
    BY <1>2 DEF DrainExternal, r
  <2> HIDE DEF ps, ib
  <2>7. /\ t \in State /\ t.rows = s.rows /\ t.prompts = ps /\ t.inboxes = ib
        /\ t.waits = s.waits /\ t.deleted = s.deleted /\ t.dropped = s.dropped
    BY <2>2, <2>3, <2>4, StateIs DEF State
  <2> HIDE DEF t
  <2>8. WaitingRight(t)
    <3>1. \A q \in Row : ib[q] # <<>> => s.rows[q].state = "live"
      BY <2>4 DEF Good, WaitingRight
    <3>2. ASSUME NEW i \in Id, NEW q \in Row, InInbox(ib, i, q), Open(ps[i]) PROVE ps[i].row = q
      <4>1. q # r
        BY <2>4, <3>2 DEF InInbox
      <4>2. InInbox(s.inboxes, i, q)
        BY <2>4, <3>2, <4>1 DEF InInbox
      <4>3. Open(s.prompts[i]) /\ ps[i].row = s.prompts[i].row
        BY <2>5, <3>2 DEF Open
      <4> QED BY <4>2, <4>3 DEF Good, WaitingRight
    <3> QED BY <2>7, <3>1, <3>2 DEF WaitingRight
  <2>9. ASSUME NEW i \in Id PROVE Given(t, i)
    <3>1. CASE ps[i] = s.prompts[i]
      BY <2>7, <3>1 DEF Good, Given
    <3>2. CASE /\ InInbox(s.inboxes, i, r) /\ ps[i].outcome = s.prompts[i].outcome
               /\ ps[i].row = s.prompts[i].row /\ ps[i].pane = p
      <4>1. Open(ps[i]) => ps[i].row = r
        BY <2>1, <3>2 DEF Good, WaitingRight, Open
      <4> QED BY <2>1, <2>7, <3>2, <4>1 DEF Given
    <3> QED BY <2>5, <3>1, <3>2
  <2>10. Good(t)
    BY <2>7, <2>8, <2>9 DEF Good
  <2>11. \A q \in Row : ib[q] \in {s.inboxes[q], <<>>}
    BY <2>4
  <2>12. Follows(s, t, {}) /\ SameGone(s, t)
    BY <2>7, <2>11, RowsFollow DEF SameGone
  <2> QED BY <2>6, <2>10, <2>12
<1> QED BY <1>1, <1>2

---------------------------------------------------------------------------
(* unregister, and what time does *)

LEMMA UnregisterIs ==
  ASSUME NEW s, Good(s), NEW p, NEW reason, files \subseteq File
  PROVE  /\ Good(UnregisterExternal(s, p, reason))
         /\ Follows(s, UnregisterExternal(s, p, reason), {})
         /\ SameGone(s, UnregisterExternal(s, p, reason))
<1> DEFINE Goal(t) == Good(t) /\ Follows(s, t, {}) /\ SameGone(s, t)
<1> SUFFICES Goal(UnregisterExternal(s, p, reason))
  OBVIOUS
<1>1. CASE p \notin Registered(s)
  <2>1. UnregisterExternal(s, p, reason) = s
    BY <1>1 DEF UnregisterExternal
  <2> QED BY <2>1 DEF Follows, SameGone
<1>2. CASE p \in Registered(s)
  <2> DEFINE f == PaneOf(s, p).file
             u == Unstore(s, p)
             t == UnregisterExternal(s, p, reason)
  <2>1. \/ t = PaneEnded(s, p, reason) \/ t = Drop(s, p, reason)
        \/ t = StopRow(s, f, p, None, reason) /\ f \in files
        \/ t = Drop(u, p, reason)
    BY <1>2 DEF UnregisterExternal
  <2>2. Good(u) /\ p \in Registered(u) /\ Follows(s, u, {}) /\ SameGone(s, u)
    <3>1. /\ u \in State /\ u.rows = s.rows /\ u.prompts = s.prompts /\ u.inboxes = s.inboxes
          /\ SamePanes(s, u)
      BY UnstoreIs DEF Good, Unstore
    <3> HIDE DEF u
    <3>2. Good(u)
      BY <3>1, SameTable
    <3> QED BY <1>2, <3>1, <3>2, SameFollows DEF Registered, SamePanes
  <2> HIDE DEF u, t, f
  <2>3. Goal(PaneEnded(s, p, reason)) /\ Goal(Drop(s, p, reason))
    BY <1>2, PaneEndedIs, DropIs
  <2>4. Goal(Drop(u, p, reason))
    <3>1. /\ Good(Drop(u, p, reason)) /\ Follows(u, Drop(u, p, reason), {})
          /\ SameGone(u, Drop(u, p, reason))
      BY <2>2, DropIs
    <3> QED BY <2>2, <3>1, FollowsOn DEF SameGone
  <2>5. ASSUME f \in files PROVE Goal(StopRow(s, f, p, None, reason))
    <3>1. p # None /\ f \in File
      <4>1. p \in Pane
        BY <1>2, RowIs, FoundIs
      <4> QED BY <2>5, <4>1, NoneAssumption
    <3> QED BY <1>2, <3>1, StopIs
  <2> HIDE DEF Goal
  <2>6. Goal(t)
    BY <2>1, <2>3, <2>4, <2>5
  <2> QED BY <2>6 DEF t
<1> QED BY <1>1, <1>2

(* A live pane falls silent: its inbox is emptied and what waited there is *)
(* settled; what it was given stays its own.                               *)
LEMMA SilenceIs ==
  ASSUME NEW s, Good(s), NEW p, IsLive(s, p)
  PROVE  Good(Silence(s, p)) /\ Follows(s, Silence(s, p), {}) /\ SameGone(s, Silence(s, p))
<1> DEFINE r == RowOf(s, p)
           row == s.rows[r]
           new == [row EXCEPT !.state = "silent"]
           us == [s.rows EXCEPT ![r] = new]
           S == InboxIds(s.inboxes, r)
           ps == AfterSilent(s.prompts, s.inboxes, r)
           ib == Emptied(s.inboxes, r)
           t == Silence(s, p)
<1>1. r \in Row /\ p \in Pane /\ Lists(row, p) /\ row.state = "live"
  BY LiveIs
<1>2. s \in State /\ s.prompts \in [Id -> DeliveryRecord] /\ s.inboxes \in [Row -> Seq(Message)]
  BY StateIs DEF Good
<1>3. s.rows \in [Row -> RowRecord] /\ row \in RowRecord /\ Sound(row)
  BY <1>1, StateIs DEF Good
<1>4. t = [rows |-> us, stored |-> s.stored, deleted |-> s.deleted, dropped |-> s.dropped,
           waits |-> s.waits \ {p}, prompts |-> ps, inboxes |-> ib]
  <2> DEFINE u == SettleWait(s, p)
  <2>1. u = [rows |-> s.rows, stored |-> s.stored, deleted |-> s.deleted, dropped |-> s.dropped,
             waits |-> s.waits \ {p}, prompts |-> s.prompts, inboxes |-> s.inboxes]
    <3>1. s = [rows |-> s.rows, stored |-> s.stored, deleted |-> s.deleted, dropped |-> s.dropped,
               waits |-> s.waits, prompts |-> s.prompts, inboxes |-> s.inboxes]
      BY <1>2, StateIs
    <3> QED BY <3>1 DEF SettleWait
  <2>2. t = [u EXCEPT !.rows[r].state = "silent", !.prompts = AfterSilent(@, s.inboxes, r),
                      !.inboxes = Emptied(@, r)]
    <3> HIDE DEF u
    <3> QED BY DEF Silence, u
  <2> HIDE DEF u, r
  <2> QED BY <2>1, <2>2
<1>5. /\ new \in RowRecord /\ Sound(new) /\ PaneIds(new) = PaneIds(row)
      /\ new.start = row.start /\ new.state = "silent"
  <2>1. /\ row.held \in Seq(PaneRecord) /\ row.pane \in PaneRecord \cup {None}
        /\ row.start \in Start \cup {None}
        /\ row = [state |-> row.state, pane |-> row.pane, held |-> row.held, start |-> row.start]
    <3> HIDE DEF PaneRecord, Start, row
    <3> QED BY <1>3 DEF RowRecord
  <2>2. new = [state |-> "silent", pane |-> row.pane, held |-> row.held, start |-> row.start]
    <3> HIDE DEF row
    <3> QED BY <2>1
  <2> HIDE DEF new, row
  <2>3. new \in RowRecord
    <3> HIDE DEF PaneRecord, Start
    <3> QED BY <2>1, <2>2 DEF RowRecord
  <2>4. Sound(new)
    BY <1>1, <1>3, <2>2 DEF Sound
  <2>5. PaneIds(new) = PaneIds(row)
    BY <2>2 DEF PaneIds, PanesIn
  <2> QED BY <2>2, <2>3, <2>4, <2>5
<1> HIDE DEF new
<1>6. us \in [Row -> RowRecord] /\ us[r] = new /\ \A q \in Row \ {r} : us[q] = s.rows[q]
  BY <1>1, <1>3, <1>5
<1>7. /\ ps \in [Id -> DeliveryRecord]
      /\ \A i \in Id : Open(ps[i]) => ps[i] = s.prompts[i]
  <2>1. ps = SettledBy(s.prompts, r, S, "unsaid")
    BY DEF AfterSilent
  <2> HIDE DEF S, ps, r
  <2> QED BY <1>1, <1>2, <2>1, SettledByIs
<1>8. /\ ib \in [Row -> Seq(Message)] /\ ib[r] = <<>>
      /\ \A q \in Row \ {r} : ib[q] = s.inboxes[q]
  BY <1>1, <1>2 DEF Emptied
<1> HIDE DEF t, us, ps, ib
<1>9. t \in State /\ t.rows = us /\ t.prompts = ps /\ t.inboxes = ib
  BY <1>1, <1>2, <1>4, <1>6, <1>7, <1>8, StateIs DEF State
<1> HIDE DEF row, r
<1>10. \A q \in Row : Sound(us[q])
  BY <1>5, <1>6 DEF Good
<1>11. \A q \in Row : PaneIds(us[q]) = PaneIds(s.rows[q])
  BY <1>5, <1>6 DEF row
<1>12. Apart(us)
  BY <1>11 DEF Good, Apart
<1>13. WaitingRight(t)
  <2>1. \A q \in Row : ib[q] # <<>> => us[q].state = "live"
    BY <1>6, <1>8 DEF Good, WaitingRight
  <2>2. ASSUME NEW i \in Id, NEW q \in Row, InInbox(ib, i, q), Open(ps[i]) PROVE ps[i].row = q
    <3>1. q # r
      BY <1>8, <2>2 DEF InInbox
    <3>2. InInbox(s.inboxes, i, q)
      BY <1>8, <2>2, <3>1 DEF InInbox
    <3> QED BY <1>7, <2>2, <3>2 DEF Good, WaitingRight
  <2> QED BY <1>9, <2>1, <2>2 DEF WaitingRight
<1>14. \A i \in Id : Given(t, i)
  BY <1>7, <1>9, <1>11 DEF Good, Given
<1>15. \A q \in Row : Starts(us, q)
  <2>1. \A q \in Row : Starts(s.rows, q)
    BY DEF Good
  <2>2. us[r].start = s.rows[r].start /\ us[r].state # "live"
    BY <1>5, <1>6 DEF row
  <2> QED BY <1>1, <1>6, <2>1, <2>2, StartsStay
<1>16. Good(t)
  BY <1>9, <1>10, <1>12, <1>13, <1>14, <1>15 DEF Good
<1>17. SameGone(s, t) /\ t.waits \subseteq s.waits
  BY <1>4 DEF SameGone
<1>18. Registered(t) = Registered(s)
  BY <1>9, <1>11 DEF Registered
<1>19. ASSUME NEW q \in Row, NEW y, LiveAs(us[q], y)
       PROVE  LiveAs(s.rows[q], y) /\ ib[q] = s.inboxes[q]
  <2>1. q # r
    BY <1>5, <1>6, <1>19 DEF LiveAs
  <2> QED BY <1>6, <1>8, <1>19, <2>1
<1>20. Follows(s, t, {})
  BY <1>9, <1>17, <1>18, <1>19 DEF Follows
<1> QED BY <1>16, <1>17, <1>20 DEF t

LEMMA EndGoneIs ==
  ASSUME NEW s, Good(s), NEW p, NEW says, files \subseteq File
  PROVE  Good(EndGone(s, p, says)) /\ Reaps(s, EndGone(s, p, says))
<1> DEFINE t == PaneEnded(s, p, "unsaid")
<1>1. Follows(s, s, {}) /\ SameGone(s, s)
  BY DEF Follows, SameGone
<1>2. p \in Registered(s) => Good(t) /\ Follows(s, t, {}) /\ SameGone(s, t)
  BY PaneEndedIs
<1>3. EndGone(s, p, says) = s \/ (p \in Registered(s) /\ EndGone(s, p, says) = t)
  BY DEF EndGone
<1> HIDE DEF t
<1> QED BY <1>1, <1>2, <1>3, GoneReaps

LEMMA ReapLapsedIs ==
  ASSUME NEW s, Good(s), NEW p, NEW says, files \subseteq File
  PROVE  Good(ReapLapsed(s, p, says)) /\ Reaps(s, ReapLapsed(s, p, says))
<1> DEFINE f == PaneOf(s, p).file
           d == [s.dropped EXCEPT ![f] = p]
           u == [s EXCEPT !.dropped = d]
           t == ReapLapsed(s, p, says)
<1>1. CASE ~Lapsed(s, p)
  <2>1. t = s
    BY <1>1 DEF ReapLapsed
  <2>2. Reaps(s, s)
    BY DEF Reaps, Follows
  <2> QED BY <2>1, <2>2
<1>2. CASE Lapsed(s, p)
  <2>1. IsLive(s, p)
    BY <1>2 DEF IsLive, Lapsed
  <2>2. p \in Registered(s) /\ p \in Pane /\ PaneOf(s, p) \in PaneRecord
    BY <2>1, LiveIs
  <2>3. f \in File \cup {None}
    BY <2>2 DEF PaneRecord, MaybeFile
  <2>4. \/ t = PaneEnded(s, p, "unsaid") \/ t = Silence(s, p)
        \/ t = Drop(s, p, "unsaid")
        \/ t = Drop(u, p, "unsaid") /\ f # None
    <3>1. t = CASE says[p] = "gone" -> PaneEnded(s, p, "unsaid")
                [] says[p] = "up" -> Silence(s, p)
                [] OTHER -> Drop(IF f = None THEN s ELSE u, p, "unsaid")
      BY <1>2 DEF ReapLapsed
    <3>2. CASE says[p] = "gone"
      BY <3>1, <3>2
    <3>3. CASE says[p] = "up"
      BY <3>1, <3>3
    <3>4. CASE says[p] # "gone" /\ says[p] # "up"
      <4> HIDE DEF f, u, t
      <4> QED BY <3>1, <3>4
    <3> QED BY <3>2, <3>3, <3>4
  <2>5. ASSUME f # None
        PROVE  /\ Good(u) /\ p \in Registered(u) /\ Follows(s, u, {}) /\ u.deleted = s.deleted
               /\ \A g \in File : u.dropped[g] \in {s.dropped[g], p}
    <3>1. d \in [File -> Pane \cup {None}]
      <4>1. s.dropped \in [File -> Pane \cup {None}]
        BY StateIs DEF Good
      <4> QED BY <2>2, <2>3, <2>5, <4>1
    <3>2. \A g \in File : d[g] \in {s.dropped[g], p}
      <4>1. s.dropped \in [File -> Pane \cup {None}]
        BY StateIs DEF Good
      <4> QED BY <4>1
    <3> HIDE DEF d
    <3>3. /\ Good(u) /\ u.rows = s.rows /\ u.waits = s.waits /\ u.inboxes = s.inboxes
          /\ u.deleted = s.deleted /\ u.dropped = d
      BY <3>1, DroppedSet
    <3> HIDE DEF u
    <3>4. Follows(s, u, {}) /\ Registered(u) = Registered(s)
      BY <3>3, RowsFollow
    <3> QED BY <2>2, <3>2, <3>3, <3>4
  <2> SUFFICES Good(t) /\ Reaps(s, t)
    OBVIOUS
  <2> HIDE DEF f, u, t
  <2>6. CASE t = PaneEnded(s, p, "unsaid")
    BY <2>2, <2>6, PaneEndedIs, GoneReaps
  <2>7. CASE t = Silence(s, p)
    BY <2>1, <2>7, SilenceIs, GoneReaps
  <2>8. CASE t = Drop(s, p, "unsaid")
    BY <2>2, <2>8, DropIs, GoneReaps
  <2>9. CASE t = Drop(u, p, "unsaid") /\ f # None
    <3>1. Good(t) /\ Follows(u, t, {}) /\ SameGone(u, t) /\ p \notin Registered(t)
      BY <2>5, <2>9, DropIs
    <3>2. Follows(s, t, {}) /\ t.deleted = s.deleted
      BY <2>5, <2>9, <3>1, FollowsOn DEF SameGone
    <3>3. \A g \in File : t.dropped[g] = s.dropped[g] \/ t.dropped[g] \notin Registered(t)
      BY <2>5, <2>9, <3>1 DEF SameGone
    <3> QED BY <3>1, <3>2, <3>3 DEF Reaps
  <2> QED BY <2>4, <2>6, <2>7, <2>8, <2>9
<1> QED BY <1>1, <1>2

(* One pane after the other. *)
LEMMA EndAllGoneIs ==
  ASSUME NEW s, Good(s), NEW order, Len(order) \in Nat, NEW says, files \subseteq File
  PROVE  Good(EndAllGone(s, order, says)) /\ Reaps(s, EndAllGone(s, order, says))
<1> DEFINE n == Len(order)
           A == {t \in State : Good(t) /\ Reaps(s, t)}
           after[k \in 0..n] == IF k = 0 THEN s ELSE EndGone(after[k - 1], order[k], says)
           F == [k \in 1..n |-> [t \in A |-> EndGone(t, order[k], says)]]
<1>1. \A t : t \in A <=> Good(t) /\ Reaps(s, t)
  BY DEF Good
<1> HIDE DEF A, n
<1>2. \A k \in 1..n, t \in A : EndGone(t, order[k], says) \in A
  BY <1>1, EndGoneIs, ReapsOn
<1>3. n \in Nat /\ s \in A /\ F \in [1..n -> [A -> A]]
  <2>1. Reaps(s, s)
    BY DEF Reaps, Follows
  <2> QED BY <1>1, <1>2, <2>1 DEF n
<1>4. PICK g \in [0..n -> A] : g[0] = s /\ \A k \in 1..n : g[k] = F[k][g[k - 1]]
  <2>1. \E g \in [0..n -> A] : Builds(g, n, s, F)
    <3> HIDE DEF F
    <3> QED BY <1>3, Recursion
  <2> QED BY <2>1 DEF Builds
<1>5. g = [k \in 0..n |-> IF k = 0 THEN s ELSE EndGone(g[k - 1], order[k], says)]
  <2>1. ASSUME NEW k \in 0..n, k # 0 PROVE g[k] = EndGone(g[k - 1], order[k], says)
    <3>1. k \in 1..n /\ k - 1 \in 0..n
      BY <1>3, <2>1
    <3> QED BY <1>4, <3>1
  <2> QED BY <1>4, <2>1
<1>6. after = [k \in 0..n |-> IF k = 0 THEN s ELSE EndGone(after[k - 1], order[k], says)]
  BY <1>5
<1> DEFINE S == {k \in 0..n : after[k] \in A}
<1> HIDE DEF after
<1>7. 0 \in S
  BY <1>3, <1>6
<1>8. ASSUME NEW k \in 0..(n - 1), k \in S PROVE k + 1 \in S
  <2>1. k + 1 \in 0..n /\ k + 1 \in 1..n /\ k + 1 # 0 /\ (k + 1) - 1 = k
    BY <1>3
  <2>2. after[k + 1] = EndGone(after[k], order[k + 1], says)
    BY <1>6, <2>1
  <2> QED BY <1>2, <1>8, <2>1, <2>2
<1>9. after[n] \in A
  <2>1. n \in 0..n
    BY <1>3
  <2>2. 0..n \subseteq S
    <3> HIDE DEF S
    <3> QED BY <1>3, <1>7, <1>8, UpTo
  <2> QED BY <2>1, <2>2
<1>10. EndAllGone(s, order, says) = after[n]
  BY DEF EndAllGone, after, n
<1> QED BY <1>1, <1>9, <1>10

LEMMA ReapAllLapsedIs ==
  ASSUME NEW s, Good(s), NEW order, Len(order) \in Nat, NEW says, files \subseteq File
  PROVE  Good(ReapAllLapsed(s, order, says)) /\ Reaps(s, ReapAllLapsed(s, order, says))
<1> DEFINE n == Len(order)
           A == {t \in State : Good(t) /\ Reaps(s, t)}
           after[k \in 0..n] == IF k = 0 THEN s ELSE ReapLapsed(after[k - 1], order[k], says)
           F == [k \in 1..n |-> [t \in A |-> ReapLapsed(t, order[k], says)]]
<1>1. \A t : t \in A <=> Good(t) /\ Reaps(s, t)
  BY DEF Good
<1> HIDE DEF A, n
<1>2. \A k \in 1..n, t \in A : ReapLapsed(t, order[k], says) \in A
  BY <1>1, ReapLapsedIs, ReapsOn
<1>3. n \in Nat /\ s \in A /\ F \in [1..n -> [A -> A]]
  <2>1. Reaps(s, s)
    BY DEF Reaps, Follows
  <2> QED BY <1>1, <1>2, <2>1 DEF n
<1>4. PICK g \in [0..n -> A] : g[0] = s /\ \A k \in 1..n : g[k] = F[k][g[k - 1]]
  <2>1. \E g \in [0..n -> A] : Builds(g, n, s, F)
    <3> HIDE DEF F
    <3> QED BY <1>3, Recursion
  <2> QED BY <2>1 DEF Builds
<1>5. g = [k \in 0..n |-> IF k = 0 THEN s ELSE ReapLapsed(g[k - 1], order[k], says)]
  <2>1. ASSUME NEW k \in 0..n, k # 0 PROVE g[k] = ReapLapsed(g[k - 1], order[k], says)
    <3>1. k \in 1..n /\ k - 1 \in 0..n
      BY <1>3, <2>1
    <3> QED BY <1>4, <3>1
  <2> QED BY <1>4, <2>1
<1>6. after = [k \in 0..n |-> IF k = 0 THEN s ELSE ReapLapsed(after[k - 1], order[k], says)]
  BY <1>5
<1> DEFINE S == {k \in 0..n : after[k] \in A}
<1> HIDE DEF after
<1>7. 0 \in S
  BY <1>3, <1>6
<1>8. ASSUME NEW k \in 0..(n - 1), k \in S PROVE k + 1 \in S
  <2>1. k + 1 \in 0..n /\ k + 1 \in 1..n /\ k + 1 # 0 /\ (k + 1) - 1 = k
    BY <1>3
  <2>2. after[k + 1] = ReapLapsed(after[k], order[k + 1], says)
    BY <1>6, <2>1
  <2> QED BY <1>2, <1>8, <2>1, <2>2
<1>9. after[n] \in A
  <2>1. n \in 0..n
    BY <1>3
  <2>2. 0..n \subseteq S
    <3> HIDE DEF S
    <3> QED BY <1>3, <1>7, <1>8, UpTo
  <2> QED BY <2>1, <2>2
<1>10. ReapAllLapsed(s, order, says) = after[n]
  BY DEF ReapAllLapsed, after, n
<1> QED BY <1>1, <1>9, <1>10

LEMMA ExpireDeletedIs ==
  ASSUME NEW s, Good(s), NEW says, NEW over
  PROVE  /\ Good(ExpireDeleted(s, says, over))
         /\ Registered(ExpireDeleted(s, says, over)) = Registered(s)
         /\ Calm(s) => Calm(ExpireDeleted(s, says, over))
         /\ \A q \in Pane : Deletes(ExpireDeleted(s, says, over), q) => Deletes(s, q)
         /\ \A e \in s.deleted \ over : Deletes(ExpireDeleted(s, says, over), e.pane)
<1> DEFINE F(e) == [e EXCEPT !.gone = e.gone \/ says[e.pane] = "gone"]
           d == {F(e) : e \in s.deleted \ over}
           t == [s EXCEPT !.deleted = d]
<1>1. ExpireDeleted(s, says, over) = t
  BY DEF ExpireDeleted
<1>2. ASSUME NEW e \in DeletedRow PROVE F(e) \in DeletedRow /\ F(e).pane = e.pane
  <2> DEFINE gone == e.gone \/ says[e.pane] = "gone"
  <2>1. gone \in BOOLEAN
    BY DEF DeletedRow
  <2> HIDE DEF gone
  <2> QED BY <2>1 DEF DeletedRow
<1>3. s.deleted \subseteq DeletedRow
  BY StateIs DEF Good
<1> HIDE DEF F
<1>4. d \in SUBSET DeletedRow
  BY <1>2, <1>3
<1>5. /\ \A e \in d : \E c \in s.deleted : c.pane = e.pane
      /\ \A c \in s.deleted \ over : \E e \in d : e.pane = c.pane
  BY <1>2, <1>3
<1> HIDE DEF d
<1>6. /\ Good(t) /\ t.rows = s.rows /\ t.waits = s.waits /\ t.inboxes = s.inboxes
      /\ t.dropped = s.dropped /\ t.deleted = d
  BY <1>4, DeletedSet
<1> HIDE DEF t
<1>7. /\ \A q \in Pane : Deletes(t, q) => Deletes(s, q)
      /\ \A e \in s.deleted \ over : Deletes(t, e.pane)
  BY <1>5, <1>6 DEF Deletes
<1>8. Registered(t) = Registered(s) /\ (Heard(s) => Heard(t))
  BY <1>6, HeardSame
<1>9. Calm(s) => Calm(t)
  BY <1>6, <1>7, <1>8 DEF Calm, StaysGone
<1> QED BY <1>1, <1>6, <1>7, <1>8, <1>9

LEMMA ExpireStartsIs ==
  ASSUME NEW s, Good(s), NEW says, NEW due
  PROVE  /\ Good(ExpireStarts(s, says, due))
         /\ ExpireStarts(s, says, due).stored = s.stored
         /\ SamePanes(s, ExpireStarts(s, says, due))
         /\ \A r \in Row :
              /\ ExpireStarts(s, says, due).rows[r].pane = s.rows[r].pane
              /\ ExpireStarts(s, says, due).rows[r].state = "live" <=> s.rows[r].state = "live"
<1> DEFINE over == {r \in Row : /\ s.rows[r].start # None
                                /\ \/ r \in due
                                   \/ /\ s.rows[r].start.pane # None
                                      /\ says[s.rows[r].start.pane] = "gone"}
<1>1. ExpireStarts(s, says, due) = WithoutStarts(s, over)
  BY DEF ExpireStarts, WithoutStarts
<1>2. GoodBut(s, {})
  BY GoodIs
<1> HIDE DEF over
<1>3. GoodBut(WithoutStarts(s, over), {})
  BY <1>2, StartsEndIs
<1> QED BY <1>1, <1>2, <1>3, GoodIs, StartsEndIs

LEMMA SameCalm ==
  ASSUME NEW s, NEW t, SamePanes(s, t)
  PROVE  /\ Registered(t) = Registered(s) /\ (Calm(s) => Calm(t))
         /\ \A q : Deletes(t, q) <=> Deletes(s, q)
<1>1. Follows(s, t, {}) /\ Registered(t) = Registered(s) /\ SameGone(s, t)
  BY SameFollows DEF SamePanes
<1>2. Calm(s) => Calm(t)
  BY <1>1, CalmOn
<1> QED BY <1>1, <1>2 DEF SameGone, Deletes

LEMMA ReapIs ==
  ASSUME NEW s, Good(s), NEW order, Len(order) \in Nat, NEW says, NEW due, NEW over,
         files \subseteq File
  PROVE  /\ Good(Reap(s, order, says, due, over))
         /\ Registered(Reap(s, order, says, due, over)) \subseteq Registered(s)
         /\ Calm(s) => Calm(Reap(s, order, says, due, over))
         /\ \A q \in Pane : Deletes(Reap(s, order, says, due, over), q) => Deletes(s, q)
         /\ \A e \in s.deleted \ over : Deletes(Reap(s, order, says, due, over), e.pane)
<1> DEFINE u == ExpireStarts(s, says, due)
           v == ExpireDeleted(u, says, over)
           w == EndAllGone(v, order, says)
           t == ReapAllLapsed(w, order, says)
<1>1. /\ Good(u) /\ Registered(u) = Registered(s) /\ (Calm(s) => Calm(u))
      /\ u.deleted = s.deleted
  <2>1. Good(u) /\ SamePanes(s, u)
    BY ExpireStartsIs
  <2> HIDE DEF u
  <2> QED BY <2>1, SameCalm DEF SamePanes, SameGone
<1> HIDE DEF u
<1>2. /\ Good(v) /\ Registered(v) = Registered(u) /\ (Calm(u) => Calm(v))
      /\ \A q \in Pane : Deletes(v, q) => Deletes(s, q)
      /\ \A e \in s.deleted \ over : Deletes(v, e.pane)
  <2>1. /\ Good(v) /\ Registered(v) = Registered(u) /\ (Calm(u) => Calm(v))
        /\ \A q \in Pane : Deletes(v, q) => Deletes(u, q)
        /\ \A e \in u.deleted \ over : Deletes(v, e.pane)
    BY <1>1, ExpireDeletedIs
  <2> QED BY <1>1, <2>1 DEF Deletes
<1> HIDE DEF v
<1>3. Good(w) /\ Reaps(v, w)
  BY <1>2, EndAllGoneIs
<1> HIDE DEF w
<1>4. Good(t) /\ Reaps(w, t)
  BY <1>3, ReapAllLapsedIs
<1>5. Reap(s, order, says, due, over) = t
  BY DEF Reap, u, v, w
<1> HIDE DEF t
<1>6. Reaps(v, t)
  BY <1>3, <1>4, ReapsOn
<1>7. /\ Registered(t) \subseteq Registered(v) /\ (Calm(v) => Calm(t))
      /\ \A q : Deletes(t, q) <=> Deletes(v, q)
  BY <1>6, ReapsCalm DEF Reaps, Follows, Deletes
<1> QED BY <1>1, <1>2, <1>4, <1>5, <1>7

(* Stored rows of some ids go. *)
LEMMA LackingGood ==
  ASSUME NEW s, Good(s), NEW ids
  PROVE  /\ Good([s EXCEPT !.stored = Lacking(@, ids)])
         /\ [s EXCEPT !.stored = Lacking(@, ids)].rows = s.rows
         /\ SamePanes(s, [s EXCEPT !.stored = Lacking(@, ids)])
<1> DEFINE t == [s EXCEPT !.stored = Lacking(@, ids)]
<1>1. /\ t \in State /\ t.rows = s.rows /\ t.prompts = s.prompts /\ t.inboxes = s.inboxes
      /\ SamePanes(s, t)
  BY UnstoreIs DEF Good
<1> HIDE DEF t
<1> QED BY <1>1, SameTable DEF t

LEMMA OrphansIs ==
  ASSUME NEW s, Good(s), NEW says
  PROVE  Good(RemoveOrphanedRuns(s, says)) /\ SamePanes(s, RemoveOrphanedRuns(s, says))
BY LackingGood DEF RemoveOrphanedRuns

(* An order of the panes. *)
LEMMA OrderIs ==
  ASSUME NEW order \in SetToSeqs(Pane)
  PROVE  Len(order) \in Nat
<1>1. Cardinality(Pane) \in Nat
  BY PanesAssumption, FS_CardinalityType
<1>2. order \in [1..Cardinality(Pane) -> Pane]
  BY DEF SetToSeqs
<1> DEFINE n == Cardinality(Pane)
           A == Pane
<1>3. order \in Seq(A)
  <2> HIDE DEF n, A
  <2> QED BY <1>1, <1>2, SeqDef DEF n, A
<1> HIDE DEF A
<1> QED BY <1>3, LenProperties

---------------------------------------------------------------------------
(* delete *)

LEMMA AddressedIs ==
  ASSUME NEW s, Good(s), NEW id \in Row
  PROVE  \/ Addressed(s, id) = None
         \/ /\ Addressed(s, id) \in Registered(s) /\ Addressed(s, id) # None
            /\ RowOf(s, Addressed(s, id)) \in Row
            /\ Lists(s.rows[RowOf(s, Addressed(s, id))], Addressed(s, id))
            /\ PaneOf(s, Addressed(s, id)) = s.rows[RowOf(s, Addressed(s, id))].pane
            /\ PaneOf(s, Addressed(s, id)) \in PaneRecord
<1> DEFINE Goal(p) ==
      /\ p \in Registered(s) /\ p # None /\ RowOf(s, p) \in Row
      /\ Lists(s.rows[RowOf(s, p)], p)
      /\ PaneOf(s, p) = s.rows[RowOf(s, p)].pane /\ PaneOf(s, p) \in PaneRecord
<1>1. ASSUME NEW p, NEW r \in Row, Lists(s.rows[r], p) PROVE Goal(p)
  <2>1. s.rows[r] \in RowRecord
    BY StateIs DEF Good
  <2>2. p \in PaneIds(s.rows[r])
    BY <1>1, <2>1, PanesAre
  <2>3. p # None
    BY <2>2, FoundIs, NoneAssumption
  <2> QED BY <1>1, <2>2, <2>3, FoundIs
<1>2. CASE s.rows[id].pane # None
  <2>1. Lists(s.rows[id], Addressed(s, id))
    BY <1>2 DEF Addressed, Lists
  <2>2. Goal(Addressed(s, id))
    <3> HIDE DEF Goal
    <3> QED BY <1>1, <2>1
  <2> QED BY <2>2
<1>3. CASE s.rows[id].pane = None /\ Addressed(s, id) # None
  <2>1. IsLive(s, Addressed(s, id))
    BY <1>3 DEF Addressed
  <2>2. \E r \in Row : Lists(s.rows[r], Addressed(s, id))
    BY <2>1 DEF IsLive
  <2>3. Goal(Addressed(s, id))
    <3> HIDE DEF Goal
    <3> QED BY <1>1, <2>2
  <2> QED BY <2>3
<1> QED BY <1>2, <1>3

LEMMA DeleteRowIs ==
  ASSUME NEW s, Good(s), NEW id \in Row
  PROVE  /\ Good(DeleteRow(s, id)) /\ Deletion(s, DeleteRow(s, id))
         /\ Addressed(s, id) \notin Registered(DeleteRow(s, id))
         /\ Calm(s) => Calm(DeleteRow(s, id))
<1> DEFINE p == Addressed(s, id)
           at == StoredAt(s, id)
           Goal(t) == Good(t) /\ Deletion(s, t) /\ p \notin Registered(t) /\ (Calm(s) => Calm(t))
<1> SUFFICES Goal(DeleteRow(s, id))
  OBVIOUS
<1>1. CASE p # None
  <2> DEFINE r == RowOf(s, p)
             u == Drop(s, p, "unsaid")
             v == Unstore(u, r)
  <2>1. p \in Registered(s) /\ p \in Pane /\ PaneOf(s, p).file \in MaybeFile
    <3>1. p \in Registered(s) /\ PaneOf(s, p) \in PaneRecord
      BY <1>1, AddressedIs
    <3>2. p \in Pane
      BY <3>1, RowIs, FoundIs
    <3> QED BY <3>1, <3>2 DEF PaneRecord
  <2>2. DeleteRow(s, id) = RecordDeleted(v, p, PaneOf(s, p).file)
    BY <1>1 DEF DeleteRow
  <2> DEFINE t == RecordDeleted(v, p, PaneOf(s, p).file)
  <2> HIDE DEF p
  <2>3. /\ Good(u) /\ Follows(s, u, {}) /\ SameGone(s, u)
        /\ Registered(u) = Registered(s) \ {p}
    BY <2>1, DropIs
  <2> HIDE DEF u
  <2>4. Good(v) /\ SamePanes(u, v)
    BY <2>3, LackingGood DEF Unstore
  <2> HIDE DEF v
  <2>5. /\ Registered(v) = Registered(s) \ {p} /\ (Calm(s) => Calm(v))
        /\ \A q : Deletes(v, q) <=> Deletes(s, q)
    BY <2>3, <2>4, CalmOn, SameCalm DEF SameGone, Deletes
  <2>6. /\ Good(t) /\ t.rows = v.rows /\ t.waits = v.waits /\ t.inboxes = v.inboxes
        /\ t.dropped = v.dropped
        /\ \A q \in Pane : Deletes(t, q) <=> Deletes(v, q) \/ q = p
    BY <2>1, <2>4, RecordIs
  <2> HIDE DEF t
  <2>7. Registered(t) = Registered(v) /\ (Heard(v) => Heard(t))
    BY <2>6, HeardSame
  <2>8. Calm(s) => Calm(t)
    BY <2>5, <2>6, <2>7 DEF Calm, StaysGone
  <2>9. Deletion(s, t)
    <3>1. Registered(s) \subseteq Pane
      BY NoneUnknown
    <3> QED BY <2>5, <2>6, <2>7, <3>1 DEF Deletion
  <2>10. Goal(t)
    BY <2>5, <2>6, <2>7, <2>8, <2>9
  <2> HIDE DEF Goal
  <2> QED BY <2>2, <2>10 DEF t
<1>2. CASE p = None /\ at # 0
  <2> DEFINE f == s.stored[at].file
             q == s.dropped[f]
             u == RecordDeleted(s, q, f)
  <2>1. at \in 1..Len(s.stored)
    BY <1>2, StoredAtIs DEF IsStored, Good
  <2>2. f \in File
    <3> DEFINE R == StoredRow
               st == s.stored
    <3>1. st \in Seq(R)
      BY StateIs DEF Good
    <3>2. st[at] \in R
      <4> HIDE DEF st, R, at
      <4> QED BY <2>1, <3>1, ElementOfSeq DEF st
    <3> QED BY <3>2 DEF StoredRow
  <2> HIDE DEF f
  <2>3. q \in Pane \cup {None} /\ f \in MaybeFile
    BY <2>2, StateIs DEF Good, MaybeFile
  <2>4. DeleteRow(s, id) = Unstore(u, id)
    BY <1>2 DEF DeleteRow, f
  <2> DEFINE t == Unstore(u, id)
  <2>5. Calm(s) => q \notin Registered(s)
    BY <2>2 DEF Calm, StaysGone
  <2> HIDE DEF q, p
  <2>6. /\ Good(u) /\ u.rows = s.rows /\ u.waits = s.waits /\ u.inboxes = s.inboxes
        /\ u.dropped = s.dropped
        /\ \A x \in Pane : Deletes(u, x) <=> Deletes(s, x) \/ x = q
    BY <2>3, RecordIs
  <2> HIDE DEF u
  <2>7. Registered(u) = Registered(s) /\ (Heard(s) => Heard(u))
    BY <2>6, HeardSame
  <2>8. Calm(s) => Calm(u)
    BY <2>5, <2>6, <2>7 DEF Calm, StaysGone
  <2>9. Good(t) /\ SamePanes(u, t)
    BY <2>6, LackingGood DEF Unstore
  <2> HIDE DEF t
  <2>10. /\ Registered(t) = Registered(s) /\ (Calm(s) => Calm(t))
         /\ \A x \in Pane : Deletes(s, x) => Deletes(t, x)
    BY <2>6, <2>7, <2>8, <2>9, SameCalm
  <2>11. p \notin Registered(t)
    BY <1>2, <2>10, NoneUnknown
  <2>12. Goal(t)
    BY <2>9, <2>10, <2>11 DEF Deletion
  <2> HIDE DEF Goal
  <2> QED BY <2>4, <2>12 DEF t
<1>3. CASE p = None /\ at = 0
  <2>1. DeleteRow(s, id) = s
    BY <1>3 DEF DeleteRow
  <2>2. p \notin Registered(s)
    BY <1>3, NoneUnknown
  <2> HIDE DEF p
  <2> QED BY <2>1, <2>2 DEF Deletion
<1> QED BY <1>1, <1>2, <1>3

LEMMA DeletionOn ==
  ASSUME NEW s, Good(s), NEW t, NEW u, Deletion(s, t), Deletion(t, u)
  PROVE  Deletion(s, u)
<1>1. Registered(s) \subseteq Pane
  BY NoneUnknown
<1> QED BY <1>1 DEF Deletion

LEMMA DeleteRowsIs ==
  ASSUME NEW s, Good(s), NEW ids \in Seq(Row)
  PROVE  /\ Good(DeleteRows(s, ids)) /\ Deletion(s, DeleteRows(s, ids))
         /\ Calm(s) => Calm(DeleteRows(s, ids))
<1> DEFINE n == Len(ids)
           A == {t \in State : Good(t) /\ Deletion(s, t) /\ (Calm(s) => Calm(t))}
           after[k \in 0..n] == IF k = 0 THEN s ELSE DeleteRow(after[k - 1], ids[k])
           F == [k \in 1..n |-> [t \in A |-> DeleteRow(t, ids[k])]]
<1>1. \A t : t \in A <=> Good(t) /\ Deletion(s, t) /\ (Calm(s) => Calm(t))
  BY DEF Good
<1>2. n \in Nat /\ \A k \in 1..n : ids[k] \in Row
  BY LenProperties, ElementOfSeq
<1> HIDE DEF A, n
<1>3. \A k \in 1..n, t \in A : DeleteRow(t, ids[k]) \in A
  BY <1>1, <1>2, DeleteRowIs, DeletionOn
<1>4. s \in A /\ F \in [1..n -> [A -> A]]
  BY <1>1, <1>3 DEF Deletion
<1>5. PICK g \in [0..n -> A] : g[0] = s /\ \A k \in 1..n : g[k] = F[k][g[k - 1]]
  <2>1. \E g \in [0..n -> A] : Builds(g, n, s, F)
    <3> HIDE DEF F
    <3> QED BY <1>2, <1>4, Recursion
  <2> QED BY <2>1 DEF Builds
<1>6. g = [k \in 0..n |-> IF k = 0 THEN s ELSE DeleteRow(g[k - 1], ids[k])]
  <2>1. ASSUME NEW k \in 0..n, k # 0 PROVE g[k] = DeleteRow(g[k - 1], ids[k])
    <3>1. k \in 1..n /\ k - 1 \in 0..n
      BY <1>2, <2>1
    <3> QED BY <1>5, <3>1
  <2> QED BY <1>5, <2>1
<1>7. after = [k \in 0..n |-> IF k = 0 THEN s ELSE DeleteRow(after[k - 1], ids[k])]
  BY <1>6
<1> DEFINE S == {k \in 0..n : after[k] \in A}
<1> HIDE DEF after
<1>8. 0 \in S
  BY <1>2, <1>4, <1>7
<1>9. ASSUME NEW k \in 0..(n - 1), k \in S PROVE k + 1 \in S
  <2>1. k + 1 \in 0..n /\ k + 1 \in 1..n /\ k + 1 # 0 /\ (k + 1) - 1 = k
    BY <1>2
  <2>2. after[k + 1] = DeleteRow(after[k], ids[k + 1])
    BY <1>7, <2>1
  <2> QED BY <1>3, <1>9, <2>1, <2>2
<1>10. after[n] \in A
  <2>1. n \in 0..n
    BY <1>2
  <2>2. 0..n \subseteq S
    <3> HIDE DEF S
    <3> QED BY <1>2, <1>8, <1>9, UpTo
  <2> QED BY <2>1, <2>2
<1>11. DeleteRows(s, ids) = after[n]
  BY DEF DeleteRows, after, n
<1> QED BY <1>1, <1>10, <1>11

(* A finite set has as many elements as what a function makes of them. *)
LEMMA ImageFinite ==
  ASSUME NEW S, IsFiniteSet(S), NEW F
  PROVE  IsFiniteSet({F[x] : x \in S})
<1> DEFINE T == {F[x] : x \in S}
           g == [x \in S |-> F[x]]
<1>1. g \in Surjection(S, T)
  BY DEF Surjection
<1> HIDE DEF g, T
<1>2. IsFiniteSet(T)
  BY <1>1, FS_Surjection
<1> QED BY <1>2 DEF T

LEMMA RunRowsAre ==
  ASSUME NEW s, Good(s), NEW p
  PROVE  RunRows(s, p) \subseteq Row /\ IsFiniteSet(RunRows(s, p))
<1> DEFINE P == {q \in Registered(s) : Parent[q] = p}
           K == {k \in DOMAIN s.stored : s.stored[k].parent \in {p}}
           F == [q \in P |-> RowOf(s, q)]
           G == [k \in K |-> s.stored[k].id]
<1>1. RunRows(s, p) = {F[q] : q \in P} \cup {G[k] : k \in K}
  BY DEF RunRows, RunsOf
<1>2. IsFiniteSet(P)
  <2>1. Registered(s) \subseteq Pane
    BY RowIs, FoundIs
  <2>2. P \in SUBSET Pane
    BY <2>1
  <2> HIDE DEF P
  <2> QED BY <2>2, PanesAssumption, FS_Subset
<1>3. /\ Len(s.stored) \in Nat /\ DOMAIN s.stored = 1..Len(s.stored)
      /\ \A k \in 1..Len(s.stored) : s.stored[k] \in StoredRow
  <2> DEFINE R == StoredRow
             st == s.stored
  <2>1. st \in Seq(R)
    BY StateIs DEF Good
  <2>2. /\ Len(st) \in Nat /\ DOMAIN st = 1..Len(st)
        /\ \A k \in 1..Len(st) : st[k] \in R
    <3> HIDE DEF st, R
    <3> QED BY <2>1, LenProperties, ElementOfSeq
  <2> QED BY <2>2
<1>4. IsFiniteSet(K)
  <2>1. IsFiniteSet(1..Len(s.stored))
    BY <1>3, FS_Interval
  <2>2. K \in SUBSET (1..Len(s.stored))
    BY <1>3
  <2> HIDE DEF K
  <2> QED BY <2>1, <2>2, FS_Subset
<1>5. \A q \in P : F[q] \in Row
  BY RowIs
<1>6. \A k \in K : G[k] \in Row
  BY <1>3 DEF StoredRow
<1> HIDE DEF P, K, F, G
<1>7. IsFiniteSet({F[q] : q \in P}) /\ IsFiniteSet({G[k] : k \in K})
  BY <1>2, <1>4, ImageFinite
<1> DEFINE S == {F[q] : q \in P}
           T == {G[k] : k \in K}
<1>8. IsFiniteSet(S \cup T)
  <2> HIDE DEF S, T
  <2> QED BY <1>7, FS_Union DEF S, T
<1> QED BY <1>1, <1>5, <1>6, <1>8

LEMMA InOrder ==
  ASSUME NEW S \in SUBSET Row, IsFiniteSet(S)
  PROVE  SetToSeq(S) \in Seq(Row)
<1> DEFINE n == Cardinality(S)
<1>1. n \in Nat /\ ExistsBijection(1..n, S)
  BY FS_CardinalityType
<1> HIDE DEF n
<1>2. PICK f \in Bijection(1..n, S) : TRUE
  BY <1>1 DEF ExistsBijection
<1>3. f \in [1..n -> S] /\ IsInjective(f)
  BY <1>2 DEF Bijection, Injection, IsInjective
<1>4. SetToSeq(S) \in [1..n -> S]
  BY <1>3 DEF SetToSeq, n
<1>5. SetToSeq(S) \in [1..n -> Row]
  BY <1>4
<1> DEFINE R == Row
<1>6. SetToSeq(S) \in Seq(R)
  <2> HIDE DEF R
  <2> QED BY <1>1, <1>5, SeqDef DEF R
<1> QED BY <1>6

LEMMA DeleteInstanceIs ==
  ASSUME NEW s, Good(s), NEW id \in Row
  PROVE  /\ Good(DeleteInstance(s, id)) /\ Deletion(s, DeleteInstance(s, id))
         /\ Addressed(s, id) \notin Registered(DeleteInstance(s, id))
         /\ Calm(s) => Calm(DeleteInstance(s, id))
<1> DEFINE p == Addressed(s, id)
           u == DeleteRow(s, id)
           ids == SetToSeq(RunRows(u, p))
           t == DeleteRows(u, ids)
<1>1. Good(u) /\ Deletion(s, u) /\ p \notin Registered(u) /\ (Calm(s) => Calm(u))
  BY DeleteRowIs
<1>2. DeleteInstance(s, id) \in {u, t}
  BY DEF DeleteInstance
<1> HIDE DEF u, p
<1>3. ids \in Seq(Row)
  BY <1>1, RunRowsAre, InOrder
<1> HIDE DEF ids
<1>4. Good(t) /\ Deletion(u, t) /\ (Calm(u) => Calm(t))
  BY <1>1, <1>3, DeleteRowsIs
<1> HIDE DEF t
<1>5. Deletion(s, t) /\ p \notin Registered(t)
  BY <1>1, <1>4, DeletionOn DEF Deletion
<1> QED BY <1>1, <1>2, <1>4, <1>5 DEF p

---------------------------------------------------------------------------
(* send and report *)

(* Live pane p's row is queued message m, which no inbox holds if it is a  *)
(* prompt.                                                                 *)
LEMMA QueueIs ==
  ASSUME NEW s, Good(s), NEW p, IsLive(s, p), NEW m \in Message,
         m \in Id => \A q \in Row : ~InInbox(s.inboxes, m, q)
  PROVE  LET t == [SettleWait(s, p) EXCEPT !.inboxes[RowOf(s, p)] = Append(@, m),
                                           !.prompts = AfterQueue(@, RowOf(s, p), m)]
         IN  /\ Good(t) /\ Registered(t) = Registered(s) /\ SameGone(s, t)
             /\ Calm(s) => Calm(t)
<1> DEFINE r == RowOf(s, p)
           new == Append(s.inboxes[r], m)
           ib == [s.inboxes EXCEPT ![r] = new]
           ps == AfterQueue(s.prompts, r, m)
           w == s.waits \ {p}
           t == [SettleWait(s, p) EXCEPT !.inboxes[r] = Append(@, m),
                                         !.prompts = AfterQueue(@, r, m)]
<1>1. r \in Row /\ s.rows[r].state = "live" /\ Lists(s.rows[r], p)
  BY LiveIs
<1>2. /\ s \in State /\ s.prompts \in [Id -> DeliveryRecord] /\ s.inboxes \in [Row -> Seq(Message)]
      /\ w \in SUBSET Pane
  BY StateIs DEF Good
<1>3. t = [rows |-> s.rows, stored |-> s.stored, deleted |-> s.deleted, dropped |-> s.dropped,
           waits |-> w, prompts |-> ps, inboxes |-> ib]
  <2> DEFINE u == SettleWait(s, p)
  <2>1. u = [rows |-> s.rows, stored |-> s.stored, deleted |-> s.deleted, dropped |-> s.dropped,
             waits |-> s.waits \ {p}, prompts |-> s.prompts, inboxes |-> s.inboxes]
    <3>1. s = [rows |-> s.rows, stored |-> s.stored, deleted |-> s.deleted, dropped |-> s.dropped,
               waits |-> s.waits, prompts |-> s.prompts, inboxes |-> s.inboxes]
      BY <1>2, StateIs
    <3> QED BY <3>1 DEF SettleWait
  <2>2. t = [u EXCEPT !.inboxes[r] = Append(@, m), !.prompts = AfterQueue(@, r, m)]
    OBVIOUS
  <2> HIDE DEF u, r, t
  <2> QED BY <2>1, <2>2
<1> HIDE DEF r, w, t
<1>4. /\ new \in Seq(Message)
      /\ \A i : (\E k \in 1..Len(new) : new[k] = i) =>
           i = m \/ \E k \in 1..Len(s.inboxes[r]) : s.inboxes[r][k] = i
  <2> DEFINE old == s.inboxes[r]
             A == Message
  <2>1. old \in Seq(A) /\ m \in A
    BY <1>1, <1>2
  <2>2. /\ new \in Seq(A) /\ Len(new) = Len(old) + 1 /\ Len(old) \in Nat
        /\ new[Len(old) + 1] = m
        /\ \A k \in 1..Len(old) : new[k] = old[k]
    <3> HIDE DEF old, A
    <3> QED BY <2>1, AppendProperties, LenProperties DEF old
  <2> HIDE DEF new
  <2>3. \A k \in 1..Len(new) : k \in 1..Len(old) \/ k = Len(old) + 1
    BY <2>2
  <2> QED BY <2>2, <2>3
<1> HIDE DEF new
<1>5. /\ ib \in [Row -> Seq(Message)] /\ ib[r] = new
      /\ \A q \in Row \ {r} : ib[q] = s.inboxes[q]
  BY <1>1, <1>2, <1>4
<1>6. /\ ps \in [Id -> DeliveryRecord]
      /\ \A i \in Id : Open(ps[i]) => ps[i] = s.prompts[i] \/ (i = m /\ ps[i].row = r /\ ps[i].pane = None)
  <2>1. ps \in [Id -> DeliveryRecord]
    BY <1>1, <1>2 DEF AfterQueue, Pruned, NoDelivery, DeliveryRecord, Unsettled
  <2>2. ~Open(NoDelivery)
    BY DEF Open, NoDelivery, Unsettled
  <2>3. ASSUME NEW i \in Id, Open(ps[i])
        PROVE  ps[i] = s.prompts[i] \/ (i = m /\ ps[i].row = r /\ ps[i].pane = None)
    <3>1. CASE i = m
      BY <3>1 DEF AfterQueue
    <3>2. CASE i # m
      <4>1. ps[i] = Pruned(s.prompts)[i]
        BY <3>2 DEF AfterQueue
      <4>2. Pruned(s.prompts)[i] \in {s.prompts[i], NoDelivery}
        BY DEF Pruned
      <4> QED BY <2>2, <2>3, <4>1, <4>2
    <3> QED BY <3>1, <3>2
  <2> QED BY <2>1, <2>3
<1> HIDE DEF ib, ps
<1>7. /\ t \in State /\ t.rows = s.rows /\ t.prompts = ps /\ t.inboxes = ib
      /\ t.waits = w /\ t.deleted = s.deleted /\ t.dropped = s.dropped
  BY <1>2, <1>3, <1>5, <1>6, StateIs DEF State
<1>8. \A i \in Id, q \in Row : InInbox(ib, i, q) => InInbox(s.inboxes, i, q) \/ (i = m /\ q = r)
  BY <1>4, <1>5 DEF InInbox
<1>9. WaitingRight(t)
  <2>1. \A q \in Row : ib[q] # <<>> => s.rows[q].state = "live"
    BY <1>1, <1>5 DEF Good, WaitingRight
  <2>2. ASSUME NEW i \in Id, NEW q \in Row, InInbox(ib, i, q), Open(ps[i]) PROVE ps[i].row = q
    <3>1. CASE i = m
      <4>1. q = r
        BY <1>8, <2>2, <3>1
      <4>2. ps[i].row = r
        <5>1. Open(s.prompts[i]) => ~InInbox(s.inboxes, i, r)
          BY <1>1, <3>1
        <5>2. CASE ps[i] = s.prompts[i]
          <6>1. i \in Id /\ ps[i] = AfterQueue(s.prompts, r, m)[i]
            BY DEF ps
          <6>2. AfterQueue(s.prompts, r, m)[i].row = r
            BY <3>1 DEF AfterQueue
          <6> QED BY <6>1, <6>2
        <5> QED BY <1>6, <2>2, <5>2
      <4> QED BY <4>1, <4>2
    <3>2. CASE i # m
      <4>1. InInbox(s.inboxes, i, q) /\ ps[i] = s.prompts[i]
        BY <1>6, <1>8, <2>2, <3>2
      <4> QED BY <2>2, <4>1 DEF Good, WaitingRight
    <3> QED BY <3>1, <3>2
  <2> QED BY <1>7, <2>1, <2>2 DEF WaitingRight
<1>10. \A i \in Id : Given(t, i)
  BY <1>6, <1>7 DEF Good, Given
<1>11. Good(t)
  BY <1>7, <1>9, <1>10 DEF Good
<1>12. Registered(t) = Registered(s) /\ SameGone(s, t)
  BY <1>7 DEF Registered, SameGone
<1>13. ASSUME Calm(s) PROVE Calm(t)
  <2>1. StaysGone(t)
    BY <1>7, <1>12, <1>13 DEF Calm, StaysGone, Deletes
  <2>2. ASSUME NEW q \in t.waits, NEW u \in Row, LiveAs(t.rows[u], q) PROVE t.inboxes[u] = <<>>
    <3>1. q \in s.waits /\ q # p
      BY <1>7, <2>2 DEF w
    <3>2. LiveAs(s.rows[u], q)
      BY <1>7, <2>2
    <3>3. u # r
      BY <1>1, <3>1, <3>2 DEF LiveAs, Lists
    <3>4. s.inboxes[u] = <<>>
      BY <1>13, <3>1, <3>2 DEF Calm, Heard
    <3> QED BY <1>5, <1>7, <3>3, <3>4
  <2>3. \A q \in t.waits : q \in Registered(t)
    BY <1>7, <1>12, <1>13 DEF Calm, Heard, w
  <2> QED BY <2>1, <2>2, <2>3 DEF Calm, Heard
<1> QED BY <1>11, <1>12, <1>13 DEF r, t

(* A row's pane reports of a prompt. *)
LEMMA ReportIs ==
  ASSUME NEW s, Good(s), NEW r \in Row, NEW S \in SUBSET Id, NEW os \in [S -> Reportable]
  PROVE  /\ Good([s EXCEPT !.prompts = AfterReport(@, r, os)])
         /\ SamePanes(s, [s EXCEPT !.prompts = AfterReport(@, r, os)])
<1> DEFINE ps == AfterReport(s.prompts, r, os)
           t == [s EXCEPT !.prompts = AfterReport(@, r, os)]
<1>1. /\ s \in State /\ s.prompts \in [Id -> DeliveryRecord] /\ s.inboxes \in [Row -> Seq(Message)]
      /\ s.waits \in SUBSET Pane
  BY StateIs DEF Good
<1>2. ps \in [Id -> DeliveryRecord]
  BY <1>1 DEF AfterReport, DeliveryRecord, Reportable, Open, Unsettled, Settled
<1>3. \A j \in Id : Open(ps[j]) =>
        Open(s.prompts[j]) /\ ps[j].row = s.prompts[j].row /\ ps[j].pane = s.prompts[j].pane
  BY <1>1 DEF AfterReport
<1>4. t = [rows |-> s.rows, stored |-> s.stored, deleted |-> s.deleted, dropped |-> s.dropped,
           waits |-> s.waits, prompts |-> ps, inboxes |-> s.inboxes]
  <2>1. s = [rows |-> s.rows, stored |-> s.stored, deleted |-> s.deleted, dropped |-> s.dropped,
             waits |-> s.waits, prompts |-> s.prompts, inboxes |-> s.inboxes]
    BY <1>1, StateIs
  <2>2. t = [s EXCEPT !.prompts = ps]
    OBVIOUS
  <2> HIDE DEF t, ps
  <2> QED BY <2>1, <2>2
<1> HIDE DEF t, ps
<1>5. /\ t \in State /\ t.rows = s.rows /\ t.prompts = ps /\ t.inboxes = s.inboxes
      /\ t.waits = s.waits /\ t.deleted = s.deleted /\ t.dropped = s.dropped
  BY <1>1, <1>2, <1>4, StateIs DEF State
<1>6. WaitingRight(t)
  BY <1>3, <1>5 DEF Good, WaitingRight
<1>7. \A j \in Id : Given(t, j)
  BY <1>3, <1>5 DEF Good, Given
<1>8. Good(t)
  BY <1>5, <1>6, <1>7 DEF Good
<1>9. SamePanes(s, t)
  BY <1>5, SameRows DEF SameGone
<1> QED BY <1>8, <1>9 DEF t

---------------------------------------------------------------------------
(* start, meta and the clock *)

(* A start of row r, on a file no other start is on and that only lapsed   *)
(* panes run, or on none.                                                  *)
LEMMA ListStartingIs ==
  ASSUME NEW s, Good(s), NEW r \in Row, NEW f \in MaybeFile, NEW p \in Pane \cup {None},
         f # None => \A q \in Row :
           /\ ~(s.rows[q].start # None /\ s.rows[q].start.file = f)
           /\ s.rows[q].state = "live" /\ s.rows[q].pane.file = f => s.rows[q].pane.lapsed
  PROVE  Good(ListStarting(s, r, f, p)) /\ SamePanes(s, ListStarting(s, r, f, p))
<1> DEFINE row == s.rows[r]
           start == [file |-> f, pane |-> p]
           state == IF row.pane = None THEN "starting" ELSE row.state
           new == [state |-> state, pane |-> row.pane, held |-> row.held, start |-> start]
           us == [s.rows EXCEPT ![r] = new]
           t == [s EXCEPT !.rows = us]
<1>1. s \in State /\ GoodBut(s, {})
  BY GoodIs DEF Good
<1>2. s.rows \in [Row -> RowRecord] /\ row \in RowRecord /\ Sound(row)
  BY <1>1, StateIs DEF Good
<1>3. /\ row.held \in Seq(PaneRecord) /\ row.pane \in PaneRecord \cup {None}
      /\ row.state \in {"starting", "live", "silent", "stored"}
      /\ row = [state |-> row.state, pane |-> row.pane, held |-> row.held, start |-> row.start]
  <2> HIDE DEF PaneRecord, Start, row
  <2> QED BY <1>2 DEF RowRecord
<1>4. start \in Start /\ start # None /\ start.file = f
  BY NoneIsNoRecord DEF Start
<1> HIDE DEF start
<1>5. /\ state \in {"starting", "live", "silent", "stored"}
      /\ state = "live" <=> row.state = "live"
      /\ state \in {"live", "silent"} <=> row.pane # None
  BY <1>2, <1>3 DEF Sound
<1>6. ListStarting(s, r, f, p) = t
  <2>1. ListStarting(s, r, f, p) =
          [s EXCEPT !.rows[r] = [row EXCEPT !.start = start, !.state = state]]
    BY DEF ListStarting, start
  <2>2. [row EXCEPT !.start = start, !.state = state] = new
    <3> HIDE DEF row, state
    <3>1. \E a, b, c, d : row = [state |-> a, pane |-> b, held |-> c, start |-> d]
      BY <1>3
    <3>2. PICK a, b, c, d : row = [state |-> a, pane |-> b, held |-> c, start |-> d]
      BY <3>1
    <3> DEFINE u == [row EXCEPT !.start = start]
               v == [u EXCEPT !.state = state]
    <3>3. [row EXCEPT !.start = start, !.state = state] = v
      OBVIOUS
    <3>4. u = [state |-> a, pane |-> b, held |-> c, start |-> start]
      BY <3>2
    <3> HIDE DEF u
    <3>5. v = [state |-> state, pane |-> b, held |-> c, start |-> start]
      BY <3>4
    <3>6. new = [state |-> state, pane |-> b, held |-> c, start |-> start]
      BY <3>2
    <3> HIDE DEF new, v
    <3> QED BY <3>3, <3>5, <3>6
  <2> HIDE DEF row, state, new
  <2> QED BY <2>1, <2>2
<1> HIDE DEF state
<1>7. /\ new \in RowRecord /\ Sound(new) /\ PaneIds(new) = PaneIds(row)
      /\ new.start = start /\ new.pane = row.pane /\ new.state = state
  <2> HIDE DEF row
  <2>1. new \in RowRecord
    <3> HIDE DEF PaneRecord, Start
    <3> QED BY <1>3, <1>4, <1>5 DEF RowRecord
  <2>2. Sound(new)
    BY <1>2, <1>5 DEF Sound
  <2>3. PaneIds(new) = PaneIds(row)
    BY DEF PaneIds, PanesIn
  <2> QED BY <2>1, <2>2, <2>3
<1> HIDE DEF new
<1>8. us \in [Row -> RowRecord] /\ us[r] = new /\ \A q \in Row \ {r} : us[q] = s.rows[q]
  BY <1>2, <1>7
<1> HIDE DEF us
<1>9. \A q \in Row :
        /\ Sound(us[q]) /\ PaneIds(us[q]) = PaneIds(s.rows[q]) /\ us[q].pane = s.rows[q].pane
        /\ us[q].state = "live" <=> s.rows[q].state = "live"
        /\ us[q].start = IF q = r THEN start ELSE s.rows[q].start
  BY <1>5, <1>7, <1>8 DEF Good
<1>10. Apart(us)
  BY <1>9 DEF Good, Apart
<1>11. ASSUME NEW q \in Row PROVE Starts(us, q)
  <2> SUFFICES ASSUME us[q].start # None, us[q].start.file # None, NEW u \in Row
               PROVE  /\ us[u].start # None /\ us[u].start.file = us[q].start.file => u = q
                      /\ us[u].state = "live" /\ us[u].pane.file = us[q].start.file =>
                           us[u].pane.lapsed
    BY DEF Starts
  <2>1. CASE q = r
    <3>1. us[q].start.file = f /\ f # None
      BY <1>4, <1>9, <2>1
    <3> QED BY <1>9, <2>1, <3>1
  <2>2. CASE q # r
    <3>1. us[q].start = s.rows[q].start
      BY <1>9, <2>2
    <3>2. s.rows[q].start.file # f
      BY <3>1
    <3>3. Starts(s.rows, q)
      BY DEF Good
    <3>4. /\ s.rows[u].start # None /\ s.rows[u].start.file = s.rows[q].start.file => u = q
          /\ s.rows[u].state = "live" /\ s.rows[u].pane.file = s.rows[q].start.file =>
               s.rows[u].pane.lapsed
      BY <3>1, <3>3 DEF Starts
    <3>5. us[u].start # None /\ us[u].start.file = us[q].start.file => u = q
      BY <1>4, <1>9, <3>1, <3>2, <3>4
    <3>6. us[u].state = "live" /\ us[u].pane.file = us[q].start.file => us[u].pane.lapsed
      BY <1>9, <3>1, <3>4
    <3> QED BY <3>5, <3>6
  <2> QED BY <2>1, <2>2
<1>12. Good(t)
  BY <1>1, <1>8, <1>9, <1>10, <1>11, RowsGood
<1>13. SamePanes(s, t)
  <2>1. /\ t.rows = us /\ t.waits = s.waits /\ t.inboxes = s.inboxes
        /\ t.deleted = s.deleted /\ t.dropped = s.dropped
    BY <1>1, <1>8, RowsSet
  <2> HIDE DEF t
  <2>2. \A q \in Row : \A x : LiveAs(us[q], x) => LiveAs(s.rows[q], x)
    BY <1>9 DEF LiveAs, Lists
  <2> QED BY <1>9, <2>1, <2>2 DEF SamePanes, SameGone
<1> QED BY <1>6, <1>12, <1>13

(* claimStart: unless another start is on file f. *)
LEMMA ClaimIs ==
  ASSUME NEW s, Good(s), NEW f \in File, \A p \in PanesOn(s, f) : Lapsed(s, p),
         NEW says, NEW due, NEW fresh \in Row
  PROVE  LET u == ExpireStarts(s, says, due)
             row == StoredOn(s, f)
             t == ListStarting(u, IF row # None THEN row.id ELSE fresh, f, None)
         IN  /\ Good(u) /\ SamePanes(s, u)
             /\ ~(\E r \in Row : u.rows[r].start # None /\ u.rows[r].start.file = f) =>
                  Good(t) /\ SamePanes(s, t)
<1> DEFINE u == ExpireStarts(s, says, due)
           row == StoredOn(s, f)
           r == IF row # None THEN row.id ELSE fresh
<1>1. /\ Good(u) /\ SamePanes(s, u)
      /\ \A q \in Row : /\ u.rows[q].pane = s.rows[q].pane
                        /\ u.rows[q].state = "live" <=> s.rows[q].state = "live"
  BY ExpireStartsIs
<1>2. r \in Row
  <2>1. row = None \/ row \in StoredRow
    BY StoredOnIs DEF Good
  <2> QED BY <2>1 DEF StoredRow
<1>3. ASSUME NEW q \in Row, s.rows[q].state = "live", s.rows[q].pane.file = f
      PROVE  s.rows[q].pane.lapsed
  <2> DEFINE p == s.rows[q].pane.id
  <2>1. s.rows[q] \in RowRecord /\ s.rows[q].pane # None
    BY <1>3, StateIs DEF Good, Sound
  <2>2. Lists(s.rows[q], p)
    BY <2>1 DEF Lists
  <2>3. p \in PaneIds(s.rows[q])
    BY <2>1, <2>2, PanesAre
  <2>4. p \in Registered(s) /\ PaneOf(s, p).file = f
    BY <1>3, <2>2, <2>3, FoundIs
  <2>5. Lapsed(s, p)
    BY <2>4 DEF PanesOn
  <2> QED BY <2>3, <2>5, FoundIs
<1> HIDE DEF u, r
<1>4. f \in MaybeFile /\ None \in Pane \cup {None}
  BY DEF MaybeFile
<1>5. ASSUME ~(\E q \in Row : u.rows[q].start # None /\ u.rows[q].start.file = f)
      PROVE  Good(ListStarting(u, r, f, None)) /\ SamePanes(s, ListStarting(u, r, f, None))
  <2>1. Good(ListStarting(u, r, f, None)) /\ SamePanes(u, ListStarting(u, r, f, None))
    BY <1>1, <1>2, <1>3, <1>4, <1>5, ListStartingIs
  <2> QED BY <1>1, <2>1, SameOn
<1> QED BY <1>1, <1>5 DEF u, r

LEMMA StartFailedIs ==
  ASSUME NEW s, Good(s), NEW r \in Row
  PROVE  /\ Good([s EXCEPT !.rows[r] = LeaveStart(@)])
         /\ SamePanes(s, [s EXCEPT !.rows[r] = LeaveStart(@)])
<1> DEFINE us == [q \in Row |-> IF q \in {r} THEN LeaveStart(s.rows[q]) ELSE s.rows[q]]
<1>1. s.rows \in [Row -> RowRecord]
  BY StateIs DEF Good
<1>2. [s.rows EXCEPT ![r] = LeaveStart(s.rows[r])] = us
  BY <1>1
<1>3. [s EXCEPT !.rows[r] = LeaveStart(@)] = [s EXCEPT !.rows = us]
  <2> HIDE DEF us
  <2> QED BY <1>2
<1>4. WithoutStarts(s, {r}) = [s EXCEPT !.rows = us]
  BY DEF WithoutStarts
<1>5. GoodBut(WithoutStarts(s, {r}), {}) /\ SamePanes(s, WithoutStarts(s, {r}))
  BY GoodIs, StartsEndIs
<1> QED BY <1>3, <1>4, <1>5, GoodIs

(* A pane's pin. *)
LEMMA PinIs ==
  ASSUME NEW s, Good(s), NEW r \in Row, s.rows[r].pane # None, NEW pin \in Pin
  PROVE  /\ Good([s EXCEPT !.rows[r].pane.pin = pin])
         /\ SamePanes(s, [s EXCEPT !.rows[r].pane.pin = pin])
<1> DEFINE x == s.rows[r].pane
           y == [x EXCEPT !.pin = pin]
<1>1. x \in PaneRecord
  <2>1. s.rows[r] \in RowRecord
    BY StateIs DEF Good
  <2> HIDE DEF PaneRecord, Start
  <2> QED BY <2>1 DEF RowRecord
<1>2. y \in PaneRecord /\ y.id = x.id /\ y.file = x.file /\ y.lapsed = x.lapsed
  <2> HIDE DEF x
  <2> QED BY <1>1 DEF PaneRecord
<1>3. [s EXCEPT !.rows[r].pane.pin = pin] = [s EXCEPT !.rows[r].pane = y]
  OBVIOUS
<1> HIDE DEF y
<1> QED BY <1>2, <1>3, PaneKeptIs

(* A stored row's pin. *)
LEMMA StoredPinIs ==
  ASSUME NEW s, Good(s), NEW r, IsStored(s, r), NEW pin \in Pin
  PROVE  /\ Good([s EXCEPT !.stored[StoredAt(s, r)].pin = pin])
         /\ SamePanes(s, [s EXCEPT !.stored[StoredAt(s, r)].pin = pin])
<1> DEFINE at == StoredAt(s, r)
           R == StoredRow
           q == s.stored
           new == [q[at] EXCEPT !.pin = pin]
           st == [q EXCEPT ![at] = new]
           t == [s EXCEPT !.stored = st]
<1>1. q \in Seq(R) /\ at \in 1..Len(q)
  BY StateIs, StoredAtIs DEF Good
<1>2. q[at] \in R
  <2> HIDE DEF q, R, at
  <2> QED BY <1>1, ElementOfSeq
<1>3. new \in R
  <2> DEFINE old == q[at]
  <2>1. old \in StoredRow
    BY <1>2
  <2> HIDE DEF old
  <2>2. [old EXCEPT !.pin = pin] \in StoredRow
    BY <2>1 DEF StoredRow
  <2> QED BY <2>2 DEF old
<1>4. st \in Seq(R)
  <2> HIDE DEF q, R, at, new
  <2> QED BY <1>1, <1>3, ExceptSeq
<1>5. [s EXCEPT !.stored[at].pin = pin] = t
  OBVIOUS
<1> HIDE DEF st, at, new
<1>6. /\ t \in State /\ t.rows = s.rows /\ t.prompts = s.prompts /\ t.inboxes = s.inboxes
      /\ t.waits = s.waits /\ t.deleted = s.deleted /\ t.dropped = s.dropped
  BY <1>4, StateIs DEF Good, State
<1> HIDE DEF t
<1>7. Good(t)
  BY <1>6, SameTable
<1>8. SamePanes(s, t)
  BY <1>6, SameRows DEF SameGone
<1> QED BY <1>5, <1>7, <1>8 DEF at

(* A live pane's last heartbeat is long ago. *)
LEMMA LapseIs ==
  ASSUME NEW s, Good(s), NEW p, IsLive(s, p)
  PROVE  /\ Good([s EXCEPT !.rows[RowOf(s, p)].pane.lapsed = TRUE])
         /\ SamePanes(s, [s EXCEPT !.rows[RowOf(s, p)].pane.lapsed = TRUE])
<1> DEFINE r == RowOf(s, p)
           x == s.rows[r].pane
           y == [x EXCEPT !.lapsed = TRUE]
<1>1. r \in Row /\ x \in PaneRecord /\ x # None
  BY LiveIs, NoneIsNoRecord
<1>2. y \in PaneRecord /\ y.id = x.id /\ y.file = x.file /\ y.lapsed
  <2> HIDE DEF x
  <2> QED BY <1>1 DEF PaneRecord
<1>3. [s EXCEPT !.rows[r].pane.lapsed = TRUE] = [s EXCEPT !.rows[r].pane = y]
  OBVIOUS
<1> HIDE DEF y, r
<1>4. Good([s EXCEPT !.rows[r].pane = y]) /\ SamePanes(s, [s EXCEPT !.rows[r].pane = y])
  BY <1>1, <1>2, PaneKeptIs
<1> QED BY <1>3, <1>4 DEF r

(* A daemon that knows only its files. *)
LEMMA FreshIs ==
  ASSUME NEW s \in State, s.rows = [r \in Row |-> NoEntry],
         s.prompts = [i \in Id |-> NoDelivery], s.inboxes = [r \in Row |-> <<>>], s.waits = {}
  PROVE  Good(s) /\ Calm(s) /\ Registered(s) = {}
<1>1. Len(<<>>) = 0 /\ 1..0 = {}
  OBVIOUS
<1>2. Sound(NoEntry) /\ PaneIds(NoEntry) = {} /\ NoEntry.start = None
  BY <1>1 DEF Sound, NoEntry, PaneIds, PanesIn
<1>3. Apart(s.rows)
  BY <1>2 DEF Apart
<1>4. WaitingRight(s)
  BY DEF WaitingRight, InInbox
<1>5. \A i \in Id : Given(s, i)
  BY DEF Given, Open, NoDelivery, Unsettled
<1>6. \A r \in Row : Starts(s.rows, r)
  BY <1>2 DEF Starts
<1>7. Good(s)
  BY <1>2, <1>3, <1>4, <1>5, <1>6 DEF Good
<1>8. Registered(s) = {}
  BY <1>2 DEF Registered
<1>9. Calm(s)
  BY <1>8 DEF Calm, Heard, StaysGone
<1> QED BY <1>7, <1>8, <1>9

---------------------------------------------------------------------------
(* The invariant *)

(* What panes and tmux may be as the daemon's requests find them. *)
EnvRight ==
  /\ files \subseteq File
  /\ life \in [Pane -> {"none", "up", "gone", "quit", "past"}]
  /\ on \in [Pane -> MaybeFile]
  /\ \A p \in Pane : life[p] # "none" => on[p] \in File
  /\ handoffs \subseteq Pane \X File
  /\ asked \subseteq Pane
  /\ buried \subseteq Pane
  /\ erased \subseteq File
  /\ ended \subseteq Pane \X File

(* A deleted row's pane is not known, and is kept as deleted until nothing *)
(* of it is on its way; runs are younger than their orchestrators; and who *)
(* was asked to end was deleted, or its orchestrator is gone or deleted.   *)
Graves ==
  /\ \A p \in Pane : Deletes(Now, p) => p \in buried
  /\ \A p \in buried : p \notin Registered(Now) /\ (Deletes(Now, p) \/ life[p] = "past")
  /\ \A p \in Pane : Parent[p] # None /\ life[p] # "none" => life[Parent[p]] # "none"
  /\ \A p \in asked :
       \/ p \in buried
       \/ Parent[p] # None /\ (life[Parent[p]] \notin {"none", "up"} \/ Parent[p] \in buried)

IInv == Good(Now) /\ Calm(Now) /\ EnvRight /\ Graves

(* What every request but a delete makes of state s: no pane of a deleted  *)
(* row comes, and one that may still beat stays kept as deleted.           *)
Leads(s, t) ==
  /\ Good(t) /\ Calm(t)
  /\ \A q \in Registered(t) : q \in Registered(s) \/ (life[q] # "past" /\ ~Deletes(s, q))
  /\ \A q \in Pane : Deletes(t, q) => Deletes(s, q)
  /\ \A q \in Pane : Deletes(s, q) => Deletes(t, q) \/ life[q] = "past"

LEMMA SameLeads ==
  ASSUME NEW s, Calm(s), NEW t, Good(t), SamePanes(s, t)
  PROVE  Leads(s, t)
BY SameCalm DEF Leads

LEMMA FollowsLeads ==
  ASSUME NEW s, Calm(s), NEW t, Good(t), Follows(s, t, {}), SameGone(s, t)
  PROVE  Leads(s, t)
<1>1. Calm(t)
  BY CalmOn
<1>2. Registered(t) \subseteq Registered(s)
  BY DEF Follows
<1> QED BY <1>1, <1>2 DEF Leads, SameGone, Deletes

LEMMA LeadsOn ==
  ASSUME NEW s, NEW t, NEW u, Good(s), Leads(s, t), Leads(t, u)
  PROVE  Leads(s, u)
<1>1. ASSUME NEW q \in Registered(u)
      PROVE  q \in Registered(s) \/ (life[q] # "past" /\ ~Deletes(s, q))
  <2>1. q \in Pane
    BY NoneUnknown DEF Leads
  <2> QED BY <1>1, <2>1 DEF Leads
<1> QED BY <1>1 DEF Leads

LEMMA NowIs ==
  ASSUME Good(Now)
  PROVE  /\ Now \in State
         /\ Now.rows = rows /\ Now.stored = stored /\ Now.deleted = deleted
         /\ Now.dropped = dropped /\ Now.waits = waits
         /\ Now.prompts = prompts /\ Now.inboxes = inboxes
BY DEF Good, Now

LEMMA BecomesIs ==
  ASSUME NEW s, Good(s), Becomes(s)
  PROVE  Now' = s /\ Good(Now)'
<1>1. s = [rows |-> s.rows, stored |-> s.stored, deleted |-> s.deleted, dropped |-> s.dropped,
           waits |-> s.waits, prompts |-> s.prompts, inboxes |-> s.inboxes]
  BY StateIs DEF Good
<1>2. Now' = s
  BY <1>1 DEF Now, Becomes
<1> QED BY <1>2

LEMMA BecomesLeads ==
  ASSUME NEW s, Leads(Now, s), Becomes(s)
  PROVE  Leads(Now, Now')
<1>1. Now' = s
  BY BecomesIs DEF Leads
<1> QED BY <1>1

LEMMA WaitsSet ==
  ASSUME Good(Now), Calm(Now), UNCHANGED <<rows, stored, deleted, dropped, prompts, inboxes>>,
         \A p \in waits' : p \in waits \/ (IsLive(Now, p) /\ inboxes[RowOf(Now, p)] = <<>>)
  PROVE  Leads(Now, Now')
<1> DEFINE t == Now'
<1>1. /\ t = [rows |-> rows, stored |-> stored, deleted |-> deleted, dropped |-> dropped,
              waits |-> waits', prompts |-> prompts, inboxes |-> inboxes]
  BY DEF Now
<1> HIDE DEF t
<1>2. t \in State
  <2>1. \A p \in waits : p \in Pane
    BY NowIs, StateIs
  <2>2. waits' \subseteq Pane
    BY <2>1, LiveIs
  <2> QED BY <1>1, <2>2, NowIs, StateIs DEF State
<1>3. /\ t.rows = Now.rows /\ t.prompts = Now.prompts /\ t.inboxes = Now.inboxes
      /\ t.deleted = Now.deleted /\ t.dropped = Now.dropped /\ t.waits = waits'
  BY <1>1, NowIs
<1>4. Good(t)
  BY <1>2, <1>3, SameTable
<1>5. Registered(t) = Registered(Now) /\ \A q : Deletes(t, q) <=> Deletes(Now, q)
  BY <1>3 DEF Registered, Deletes
<1>6. StaysGone(t)
  BY <1>3, <1>5 DEF Calm, StaysGone
<1>7. ASSUME NEW p \in waits'
      PROVE  p \in Registered(t) /\ \A r \in Row : LiveAs(t.rows[r], p) => t.inboxes[r] = <<>>
  <2>1. CASE p \in waits
    BY <1>3, <1>5, <2>1, NowIs DEF Calm, Heard
  <2>2. CASE IsLive(Now, p) /\ inboxes[RowOf(Now, p)] = <<>>
    <3>1. p \in Registered(Now)
      BY <2>2, LiveIs
    <3>2. ASSUME NEW r \in Row, LiveAs(Now.rows[r], p) PROVE r = RowOf(Now, p)
      <4>1. Now.rows[r] \in RowRecord
        BY StateIs DEF Good
      <4>2. p \in PaneIds(Now.rows[r])
        BY <3>2, <4>1, PanesAre DEF LiveAs
      <4> QED BY <4>2, FoundIs
    <3> QED BY <1>3, <1>5, <2>2, <3>1, <3>2, NowIs
  <2> QED BY <1>7, <2>1, <2>2
<1>8. Heard(t)
  BY <1>3, <1>7 DEF Heard
<1> QED BY <1>4, <1>5, <1>6, <1>8 DEF t, Leads, Calm

LEMMA TableSame ==
  ASSUME Good(Now), Calm(Now), UNCHANGED table
  PROVE  Leads(Now, Now')
<1>1. Now' = Now
  BY DEF Now, table
<1> QED BY <1>1 DEF Leads

LEMMA InitIs == RInit => IInv
<1> SUFFICES ASSUME RInit PROVE IInv
  OBVIOUS
<1>1. NoEntry \in RowRecord
  <2>1. <<>> \in Seq(PaneRecord)
    OBVIOUS
  <2> HIDE DEF PaneRecord, Start
  <2> QED BY <2>1 DEF NoEntry, RowRecord
<1>2. NoDelivery \in DeliveryRecord
  BY DEF NoDelivery, DeliveryRecord
<1>3. /\ rows = [r \in Row |-> NoEntry] /\ stored = <<>> /\ deleted = {}
      /\ dropped = [f \in File |-> None] /\ waits = {}
      /\ prompts = [i \in Id |-> NoDelivery] /\ inboxes = [r \in Row |-> <<>>]
  BY DEF RInit, TableInit, DInit
<1>4. stored \in Seq(StoredRow)
  BY <1>3
<1>5. Now \in State
  <2>1. rows \in [Row -> RowRecord]
    BY <1>1, <1>3
  <2>2. prompts \in [Id -> DeliveryRecord] /\ inboxes \in [Row -> Seq(Message)]
    BY <1>2, <1>3
  <2>3. dropped \in [File -> Pane \cup {None}] /\ deleted \in SUBSET DeletedRow /\ waits \in SUBSET Pane
    BY <1>3
  <2> QED BY <1>4, <2>1, <2>2, <2>3 DEF Now, State
<1>6. Good(Now) /\ Calm(Now) /\ Registered(Now) = {}
  BY <1>3, <1>5, FreshIs DEF Now
<1>7. EnvRight
  BY DEF RInit, TableInit, EnvRight, MaybeFile
<1>8. Graves
  BY <1>3, <1>6, NowIs DEF Graves, Deletes, RInit
<1> QED BY <1>6, <1>7, <1>8 DEF IInv

(* What each request leaves of the daemon's state. *)
LEMMA RegisterKeeps ==
  ASSUME IInv, NEW p \in Pane, Register(p)
  PROVE  Leads(Now, Now')
<1>1. Good(Now) /\ Calm(Now) /\ files \subseteq File /\ on[p] \in File /\ life[p] # "past"
  BY DEF IInv, EnvRight, Register
<1>2. PICK fresh \in FreshIds,
           claimed \in IF StartsTaken(Now, p, on[p]) = {} THEN {None} ELSE StartsTaken(Now, p, on[p]) :
        Becomes(DrainExternal(RegisterExternal(Now, p, on[p], fresh, claimed), p))
  BY DEF Register
<1>3. fresh \in Row /\ claimed \in Row \cup {None}
  BY DEF FreshIds, StartsTaken
<1> DEFINE s == RegisterExternal(Now, p, on[p], fresh, claimed)
           t == DrainExternal(s, p)
<1>4. /\ Good(s) /\ Calm(s)
      /\ Registered(s) \subseteq Registered(Now) \cup {q \in {p} : ~Deletes(Now, q)}
      /\ \A q \in Pane : Deletes(s, q) <=> Deletes(Now, q)
  BY <1>1, <1>3, RegisterIs
<1> HIDE DEF s
<1>5. Leads(Now, s)
  BY <1>1, <1>4 DEF Leads
<1>6. Leads(s, t)
  BY <1>4, DrainIs, FollowsLeads
<1> HIDE DEF t
<1>7. Leads(Now, t)
  BY <1>1, <1>5, <1>6, LeadsOn
<1>8. Becomes(t)
  BY <1>2 DEF s, t
<1> QED BY <1>7, <1>8, BecomesLeads

(* A listing's reaping. *)
LEMMA ReapLeads ==
  ASSUME NEW s, Good(s), Calm(s), s.deleted = deleted, files \subseteq File,
         NEW order \in SetToSeqs(Pane), NEW says, NEW due, NEW over \in OverDeleted
  PROVE  Leads(s, RemoveOrphanedRuns(Reap(s, order, says, due, over), says))
<1> DEFINE t == Reap(s, order, says, due, over)
           u == RemoveOrphanedRuns(t, says)
<1>1. /\ Good(t) /\ Registered(t) \subseteq Registered(s) /\ Calm(t)
      /\ \A q \in Pane : Deletes(t, q) => Deletes(s, q)
      /\ \A e \in s.deleted \ over : Deletes(t, e.pane)
  BY OrderIs, ReapIs
<1> HIDE DEF t
<1>2. ASSUME NEW q \in Pane, Deletes(s, q) PROVE Deletes(t, q) \/ life[q] = "past"
  <2>1. PICK e \in s.deleted : e.pane = q
    BY <1>2 DEF Deletes
  <2>2. CASE e \notin over
    BY <1>1, <2>1, <2>2
  <2>3. CASE e \in over
    BY <2>1, <2>3, NoneAssumption DEF OverDeleted
  <2> QED BY <2>2, <2>3
<1>3. Leads(s, t)
  BY <1>1, <1>2 DEF Leads
<1>4. Leads(t, u)
  BY <1>1, OrphansIs, SameLeads
<1> HIDE DEF u
<1>5. Leads(s, u)
  BY <1>3, <1>4, LeadsOn
<1> QED BY <1>5 DEF t, u

LEMMA ReportKeeps ==
  ASSUME IInv, NEW p \in Pane, NEW i \in Id, NEW o \in Reportable, Report(p, i, o)
  PROVE  Leads(Now, Now')
<1> DEFINE r == RowOf(Now, p)
           S == {i}
           os == [j \in S |-> o]
           s == [Now EXCEPT !.prompts = AfterReport(@, r, os)]
<1>1. Good(Now) /\ Calm(Now) /\ files \subseteq File /\ p \in Registered(Now)
  BY DEF IInv, EnvRight, Report
<1>2. RowOf(Now, p) \in Row
  BY <1>1, RowIs
<1>3. Good(s) /\ SamePanes(Now, s)
  <2>1. S \in SUBSET Id /\ os \in [S -> Reportable]
    OBVIOUS
  <2> HIDE DEF os, S, r
  <2> QED BY <1>1, <1>2, <2>1, ReportIs DEF r
<1>4. PICK says \in TmuxAnswers, order \in SetToSeqs(Pane), due \in Due, over \in OverDeleted :
        Becomes(RemoveOrphanedRuns(Reap(s, order, says, due, over), says))
  BY DEF Report
<1> HIDE DEF s
<1>5. Leads(Now, s)
  BY <1>1, <1>3, SameLeads
<1>6. s.deleted = deleted
  BY <1>1, <1>3, NowIs DEF SamePanes, SameGone
<1> DEFINE t == RemoveOrphanedRuns(Reap(s, order, says, due, over), says)
<1>7. Leads(s, t)
  BY <1>1, <1>3, <1>5, <1>6, ReapLeads DEF Leads
<1>8. Becomes(t)
  BY <1>4
<1> HIDE DEF t
<1>9. Leads(Now, t)
  BY <1>1, <1>5, <1>7, LeadsOn
<1> QED BY <1>8, <1>9, BecomesLeads

LEMMA ListKeeps ==
  ASSUME IInv, List
  PROVE  Leads(Now, Now')
<1>1. Good(Now) /\ Calm(Now) /\ files \subseteq File /\ Now.deleted = deleted
  BY NowIs DEF IInv, EnvRight
<1>2. PICK says \in TmuxAnswers, order \in SetToSeqs(Pane), due \in Due, over \in OverDeleted :
        Becomes(RemoveOrphanedRuns(Reap(Now, order, says, due, over), says))
  BY DEF List
<1> DEFINE t == RemoveOrphanedRuns(Reap(Now, order, says, due, over), says)
<1>3. Leads(Now, t)
  BY <1>1, ReapLeads
<1>4. Becomes(t)
  BY <1>2
<1> HIDE DEF t
<1> QED BY <1>3, <1>4, BecomesLeads

LEMMA SendKeeps ==
  ASSUME IInv, NEW id \in Row, NEW m \in Message, Send(id, m)
  PROVE  Leads(Now, Now')
<1> DEFINE p == Addressed(Now, id)
           t == [SettleWait(Now, p) EXCEPT !.inboxes[RowOf(Now, p)] = Append(@, m),
                                           !.prompts = AfterQueue(@, RowOf(Now, p), m)]
<1>1. Good(Now) /\ Calm(Now) /\ files \subseteq File /\ IsLive(Now, p)
  BY DEF IInv, EnvRight, Send
<1>2. m \in Id => \A q \in Row : ~InInbox(Now.inboxes, m, q)
  BY <1>1, NowIs DEF Send, NewId
<1>3. Becomes(PaneEnded(Now, p, "unsaid")) \/ Becomes(t)
  BY DEF Send
<1> HIDE DEF p
<1>4. Leads(Now, PaneEnded(Now, p, "unsaid"))
  BY <1>1, LiveIs, PaneEndedIs, FollowsLeads
<1>5. Good(t) /\ Calm(t) /\ Registered(t) = Registered(Now) /\ SameGone(Now, t)
  BY <1>1, <1>2, QueueIs
<1> HIDE DEF t
<1>6. Leads(Now, t)
  BY <1>5 DEF Leads, SameGone, Deletes
<1> QED BY <1>3, <1>4, <1>6, BecomesLeads

LEMMA SaveKeeps ==
  ASSUME IInv, NEW p \in Pane, NEW f \in File, Save(p, f)
  PROVE  Leads(Now, Now')
<1>1. Good(Now) /\ Calm(Now)
  BY DEF IInv
<1>2. PICK q \in IF LivePanesOn(Now, f) = {} THEN {None} ELSE LivePanesOn(Now, f),
           fresh \in FreshIds : Becomes(SaveInstance(Now, f, q, fresh))
  BY DEF Save
<1>3. q \in Registered(Now) \cup {None} /\ fresh \in Row
  BY DEF LivePanesOn, PanesOn, FreshIds
<1>4. Leads(Now, ForgetDeletedSession(Now, f))
  <2> DEFINE t == ForgetDeletedSession(Now, f)
  <2>1. /\ Good(t) /\ t.rows = Now.rows /\ t.waits = Now.waits /\ t.inboxes = Now.inboxes
        /\ t.dropped = Now.dropped /\ \A q1 \in Pane : Deletes(t, q1) <=> Deletes(Now, q1)
    BY <1>1, ForgetIs
  <2> HIDE DEF t
  <2>2. Registered(t) = Registered(Now) /\ Heard(t)
    BY <1>1, <2>1, HeardSame DEF Calm
  <2>3. StaysGone(t)
    BY <1>1, <2>1, <2>2 DEF Calm, StaysGone
  <2>4. Leads(Now, t)
    BY <2>1, <2>2, <2>3 DEF Leads, Calm
  <2> QED BY <2>4 DEF t
<1>5. Leads(Now, StopRow(Now, f, q, fresh, "unsaid"))
  BY <1>1, <1>3, StopIs, FollowsLeads
<1>6. Leads(Now, SaveInstance(Now, f, q, fresh))
  BY <1>4, <1>5 DEF SaveInstance
<1> QED BY <1>2, <1>6, BecomesLeads

LEMMA ClaimStartKeeps ==
  ASSUME IInv, NEW f \in File, ClaimStart(f)
  PROVE  Leads(Now, Now')
<1>1. Good(Now) /\ Calm(Now) /\ \A p \in PanesOn(Now, f) : Lapsed(Now, p)
  BY DEF IInv, ClaimStart
<1>2. PICK says \in TmuxAnswers, due \in Due, fresh \in FreshIds :
        LET s == ExpireStarts(Now, says, due)
            claimed == \E r \in Row : s.rows[r].start # None /\ s.rows[r].start.file = f
            row == StoredOn(s, f)
        IN  Becomes(IF claimed THEN s
                    ELSE ListStarting(s, IF row # None THEN row.id ELSE fresh, f, None))
  BY DEF ClaimStart
<1> DEFINE u == ExpireStarts(Now, says, due)
           row == StoredOn(Now, f)
           claimed == \E r \in Row : u.rows[r].start # None /\ u.rows[r].start.file = f
           t == ListStarting(u, IF row # None THEN row.id ELSE fresh, f, None)
<1>3. fresh \in Row
  BY DEF FreshIds
<1>4. Good(u) /\ SamePanes(Now, u) /\ (~claimed => Good(t) /\ SamePanes(Now, t))
  BY <1>1, <1>3, ClaimIs
<1>5. StoredOn(u, f) = row
  <2>1. u.stored = Now.stored
    BY <1>1, ExpireStartsIs
  <2> QED BY <2>1 DEF StoredOn
<1>6. Becomes(IF claimed THEN u ELSE t)
  BY <1>2, <1>5
<1> HIDE DEF u, t, claimed
<1>7. Leads(Now, IF claimed THEN u ELSE t)
  BY <1>1, <1>4, SameLeads
<1> QED BY <1>6, <1>7, BecomesLeads

LEMMA SetPinnedKeeps ==
  ASSUME IInv, NEW id \in Row, NEW pin \in Pins, SetPinned(id, pin)
  PROVE  Leads(Now, Now')
<1> DEFINE p == Addressed(Now, id)
           r == IF p # None THEN RowOf(Now, p) ELSE id
           s == IF p # None THEN [Now EXCEPT !.rows[r].pane.pin = pin] ELSE Now
           t == [s EXCEPT !.stored[StoredAt(s, r)].pin = pin]
<1>1. Good(Now) /\ Calm(Now) /\ pin \in Pin
  BY DEF IInv, Pin
<1>2. Good(s) /\ SamePanes(Now, s)
  <2>1. CASE p # None
    <3>1. r \in Row /\ Now.rows[r].pane # None
      BY <1>1, <2>1, AddressedIs DEF Lists
    <3>2. s = [Now EXCEPT !.rows[r].pane.pin = pin]
      BY <2>1
    <3> HIDE DEF p, r, s
    <3> QED BY <1>1, <3>1, <3>2, PinIs
  <2>2. CASE p = None
    BY <1>1, <2>2, SameRows DEF SameGone
  <2> QED BY <2>1, <2>2
<1>3. Becomes(IF IsStored(s, r) THEN t ELSE s)
  BY DEF SetPinned
<1> HIDE DEF s, r
<1>4. IsStored(s, r) => Good(t) /\ SamePanes(s, t)
  BY <1>1, <1>2, StoredPinIs
<1> HIDE DEF t
<1>5. Leads(Now, IF IsStored(s, r) THEN t ELSE s)
  BY <1>1, <1>2, <1>4, SameOn, SameLeads
<1> QED BY <1>3, <1>5, BecomesLeads

LEMMA RestartKeeps ==
  ASSUME IInv, DaemonRestarts
  PROVE  Leads(Now, Now')
<1> DEFINE t == Now'
<1>1. Good(Now)
  BY DEF IInv
<1>2. /\ rows' = [r \in Row |-> NoEntry] /\ dropped' = [f \in File |-> None] /\ waits' = {}
      /\ prompts' = [i \in Id |-> NoDelivery] /\ inboxes' = [r \in Row |-> <<>>]
      /\ stored' = stored /\ deleted' = deleted
  BY DEF DaemonRestarts, Restart
<1>3. NoEntry \in RowRecord
  <2>1. <<>> \in Seq(PaneRecord)
    OBVIOUS
  <2> HIDE DEF PaneRecord, Start
  <2> QED BY <2>1 DEF NoEntry, RowRecord
<1>4. NoDelivery \in DeliveryRecord
  BY DEF NoDelivery, DeliveryRecord
<1>5. t = [rows |-> rows', stored |-> stored, deleted |-> deleted, dropped |-> dropped',
           waits |-> waits', prompts |-> prompts', inboxes |-> inboxes']
  BY <1>2 DEF Now
<1> HIDE DEF t
<1>6. stored \in Seq(StoredRow) /\ deleted \in SUBSET DeletedRow
  BY <1>1, NowIs, StateIs
<1>7. t \in State
  <2>1. rows' \in [Row -> RowRecord]
    BY <1>2, <1>3
  <2>2. prompts' \in [Id -> DeliveryRecord] /\ inboxes' \in [Row -> Seq(Message)]
    BY <1>2, <1>4
  <2>3. dropped' \in [File -> Pane \cup {None}] /\ waits' \in SUBSET Pane
    BY <1>2
  <2> QED BY <1>5, <1>6, <2>1, <2>2, <2>3 DEF State
<1>8. Good(t) /\ Calm(t) /\ Registered(t) = {}
  BY <1>2, <1>5, <1>7, FreshIs
<1>9. \A q : Deletes(t, q) <=> Deletes(Now, q)
  BY <1>1, <1>5, NowIs DEF Deletes
<1> QED BY <1>8, <1>9 DEF t, Leads

LEMMA LapseKeeps ==
  ASSUME IInv, NEW p \in Pane, Lapse(p)
  PROVE  Leads(Now, Now')
<1> DEFINE r == RowOf(Now, p)
           s == [Now EXCEPT !.rows[r].pane.lapsed = TRUE]
<1>1. Good(Now) /\ Calm(Now) /\ IsLive(Now, p)
  BY DEF IInv, Lapse
<1>2. Good(s) /\ SamePanes(Now, s)
  BY <1>1, LapseIs
<1>3. Becomes(s)
  BY DEF Lapse, Becomes, Now
<1> HIDE DEF s
<1> QED BY <1>1, <1>2, <1>3, SameLeads, BecomesLeads

(* Through every step but a delete the daemon's state stays right, and a   *)
(* deleted row's pane away.                                                *)
LEMMA TableStays ==
  ASSUME IInv, [RNext]_vars
  PROVE  Leads(Now, Now') \/ \E r \in Row : Delete(r)
<1>1. Good(Now) /\ Calm(Now) /\ files \subseteq File
  BY DEF IInv, EnvRight
<1>2. ASSUME NEW p, NEW reason PROVE Leads(Now, UnregisterExternal(Now, p, reason))
  BY <1>1, UnregisterIs, FollowsLeads
<1>3. ASSUME NEW p \in Pane, Wait(p) \/ WaitEnds(p) PROVE Leads(Now, Now')
  <2>1. \A q \in waits' : q \in waits \/ (IsLive(Now, q) /\ inboxes[RowOf(Now, q)] = <<>>)
    BY <1>3 DEF Wait, WaitEnds
  <2>2. UNCHANGED <<rows, stored, deleted, dropped, prompts, inboxes>>
    BY <1>3 DEF Wait, WaitEnds
  <2> QED BY <1>1, <2>1, <2>2, WaitsSet
<1>4. ASSUME NEW p \in Pane, Unlist(p) PROVE Leads(Now, Now')
  <2>1. Becomes(UnregisterExternal(Now, p, "unsaid"))
    BY <1>4 DEF Unlist
  <2> QED BY <1>2, <2>1, BecomesLeads
<1>5. ASSUME NEW p \in Pane, Quit(p) PROVE Leads(Now, Now')
  <2>1. Becomes(UnregisterExternal(Now, p, "quit")) \/ UNCHANGED table
    BY <1>5 DEF Quit
  <2> QED BY <1>1, <1>2, <2>1, BecomesLeads, TableSame
<1>6. ASSUME NEW p \in Pane, NEW f \in File, MoveOn(p, f) PROVE Leads(Now, Now')
  <2>1. Becomes(UnregisterExternal(Now, p, "another")) \/ UNCHANGED table
    BY <1>6 DEF MoveOn
  <2> QED BY <1>1, <1>2, <2>1, BecomesLeads, TableSame
<1>7. ASSUME NEW r \in Row, StartFailed(r) PROVE Leads(Now, Now')
  <2>1. Becomes([Now EXCEPT !.rows[r] = LeaveStart(@)])
    BY <1>7 DEF StartFailed
  <2>2. Leads(Now, [Now EXCEPT !.rows[r] = LeaveStart(@)])
    BY <1>1, StartFailedIs, SameLeads
  <2> QED BY <2>1, <2>2, BecomesLeads
<1>8. ASSUME NEW p \in Pane, NEW f \in File, PaneStarting(p, f) PROVE Leads(Now, Now')
  <2>1. Becomes(ListStarting(Now, p, None, p))
    BY <1>8 DEF PaneStarting
  <2>2. Leads(Now, ListStarting(Now, p, None, p))
    <3>1. p \in Row /\ None \in MaybeFile
      BY PaneIdsAreRowIds DEF MaybeFile
    <3> QED BY <1>1, <3>1, ListStartingIs, SameLeads
  <2> QED BY <2>1, <2>2, BecomesLeads
<1>9. ASSUME NEW p \in Pane, WriteFile(p) \/ Die(p) \/ Passes(p) PROVE Leads(Now, Now')
  BY <1>1, <1>9, TableSame DEF WriteFile, Die, Passes
<1>10. ASSUME NEW p \in Pane, NEW f \in File, OpenPane(p, f) \/ SaveLost(p, f) PROVE Leads(Now, Now')
  BY <1>1, <1>10, TableSame DEF OpenPane, SaveLost
<1>11. CASE LiveNext
  <2>1. CASE \E p \in Pane :
               Register(p) \/ WriteFile(p) \/ Quit(p) \/ Die(p) \/ Passes(p) \/ Lapse(p)
    BY <1>5, <1>9, <2>1, RegisterKeeps, LapseKeeps
  <2>2. CASE \E p \in Pane, f \in File : Save(p, f) \/ OpenPane(p, f) \/ PaneStarting(p, f)
    BY <1>8, <1>10, <2>2, SaveKeeps
  <2>3. CASE \E f \in File : ClaimStart(f)
    BY <2>3, ClaimStartKeeps
  <2>4. CASE \E r \in Row : StartFailed(r)
    BY <1>7, <2>4
  <2>5. CASE \E r \in Row, m \in Message : Send(r, m)
    BY <2>5, SendKeeps
  <2>6. CASE List
    BY <2>6, ListKeeps
  <2> QED BY <1>11, <2>1, <2>2, <2>3, <2>4, <2>5, <2>6 DEF LiveNext
<1>12. CASE \E p \in Pane : Wait(p) \/ WaitEnds(p) \/ Unlist(p)
  BY <1>3, <1>4, <1>12
<1>13. CASE \E p \in Pane, f \in File : SaveLost(p, f) \/ MoveOn(p, f)
  BY <1>6, <1>10, <1>13
<1>14. CASE \E r \in Row : Delete(r)
  BY <1>14
<1>15. CASE \E r \in Row, pin \in Pins : SetPinned(r, pin)
  BY <1>15, SetPinnedKeeps
<1>16. CASE \E p \in Pane, i \in Id, o \in Reportable : Report(p, i, o)
  BY <1>16, ReportKeeps
<1>17. CASE DaemonRestarts
  BY <1>17, RestartKeeps
<1>18. CASE UNCHANGED vars
  <2>1. UNCHANGED table
    BY <1>18 DEF vars
  <2> QED BY <1>1, <2>1, TableSame
<1> QED BY <1>11, <1>12, <1>13, <1>14, <1>15, <1>16, <1>17, <1>18 DEF RNext

(* A delete's panes go for good. *)
LEMMA DeleteKeeps ==
  ASSUME IInv, NEW r \in Row, Delete(r)
  PROVE  /\ Good(Now') /\ Calm(Now') /\ Deletion(Now, Now')
         /\ Addressed(Now, r) \notin Registered(Now')
<1> DEFINE t == DeleteInstance(Now, r)
<1>1. /\ Good(t) /\ Deletion(Now, t) /\ Calm(t) /\ Addressed(Now, r) \notin Registered(t)
  BY DeleteInstanceIs DEF IInv
<1>2. Becomes(t)
  BY DEF Delete
<1> HIDE DEF t
<1>3. Now' = t
  BY <1>1, <1>2, BecomesIs
<1> QED BY <1>1, <1>3

(* What panes do: none is unborn again, nor up once it went, and a run     *)
(* starts while its orchestrator is up.                                    *)
Ages ==
  \A p \in Pane :
    /\ life'[p] = "none" => life[p] = "none"
    /\ life[p] = "past" => life'[p] = "past"
    /\ life[p] \notin {"none", "up"} => life'[p] \notin {"none", "up"}
    /\ life'[p] # "none" => life[p] # "none" \/ Parent[p] = None \/ life[Parent[p]] = "up"

LEMMA PanesAge ==
  ASSUME IInv, [RNext]_vars
  PROVE  Ages
<1>1. life \in [Pane -> {"none", "up", "gone", "quit", "past"}]
  BY DEF IInv, EnvRight
<1>2. ASSUME life' = life PROVE Ages
  BY <1>2 DEF Ages
<1>3. ASSUME NEW p \in Pane, life[p] # "none", life[p] # "past",
             \/ life' = [life EXCEPT ![p] = "gone"] /\ life[p] = "up"
             \/ life' = [life EXCEPT ![p] = "quit"]
             \/ life' = [life EXCEPT ![p] = "past"]
      PROVE  Ages
  BY <1>1, <1>3 DEF Ages
<1>4. ASSUME NEW p \in Pane, NEW f \in File, StartPane(p, f) PROVE Ages
  BY <1>1, <1>4 DEF StartPane, Ages
<1>5. ASSUME NEW p \in Pane, NEW f \in File, Save(p, f) PROVE Ages
  <2>1. life' = [life EXCEPT ![p] = IF @ = "gone" THEN "quit" ELSE @]
    BY <1>5 DEF Save
  <2> QED BY <1>1, <2>1 DEF Ages
<1>6. ASSUME NEW p \in Pane, Quit(p) \/ Die(p) \/ Passes(p) PROVE Ages
  <2>1. /\ life[p] # "none" /\ life[p] # "past"
        /\ \/ life' = [life EXCEPT ![p] = "gone"] /\ life[p] = "up"
           \/ life' = [life EXCEPT ![p] = "quit"]
           \/ life' = [life EXCEPT ![p] = "past"]
    BY <1>6 DEF Quit, Die, Passes
  <2> QED BY <1>3, <2>1
<1>7. CASE LiveNext
  <2>1. CASE \E p \in Pane :
               Register(p) \/ WriteFile(p) \/ Quit(p) \/ Die(p) \/ Passes(p) \/ Lapse(p)
    BY <1>2, <1>6, <2>1 DEF Register, WriteFile, Lapse, env
  <2>2. CASE \E p \in Pane, f \in File : Save(p, f) \/ OpenPane(p, f) \/ PaneStarting(p, f)
    BY <1>4, <1>5, <2>2 DEF OpenPane, PaneStarting
  <2>3. CASE \/ \E f \in File : ClaimStart(f)
             \/ \E r \in Row : StartFailed(r)
             \/ \E r \in Row, m \in Message : Send(r, m)
             \/ List
    BY <1>2, <2>3 DEF ClaimStart, StartFailed, Send, List, env
  <2> QED BY <1>7, <2>1, <2>2, <2>3 DEF LiveNext
<1>8. CASE \/ \E p \in Pane : Wait(p) \/ WaitEnds(p) \/ Unlist(p)
           \/ \E p \in Pane, f \in File : SaveLost(p, f) \/ MoveOn(p, f)
           \/ \E r \in Row : Delete(r)
  BY <1>2, <1>8 DEF Wait, WaitEnds, Unlist, SaveLost, MoveOn, Delete, env
<1>9. CASE \/ \E r \in Row, pin \in Pins : SetPinned(r, pin)
           \/ \E p \in Pane, i \in Id, o \in Reportable : Report(p, i, o)
           \/ DaemonRestarts \/ UNCHANGED vars
  BY <1>2, <1>9 DEF SetPinned, Report, DaemonRestarts, env, vars
<1> QED BY <1>7, <1>8, <1>9 DEF RNext

(* What the daemon asked panes to do, but by a delete. *)
LEMMA Asked ==
  ASSUME IInv, [RNext]_vars, ~\E r \in Row : Delete(r)
  PROVE  /\ buried' = buried
         /\ \A p \in asked' :
              \/ p \in asked \cup buried
              \/ Parent[p] # None /\ life[Parent[p]] \notin {"none", "up"}
<1> DEFINE Goal == /\ buried' = buried
                  /\ \A p \in asked' :
                       \/ p \in asked \cup buried
                       \/ Parent[p] # None /\ life[Parent[p]] \notin {"none", "up"}
<1> SUFFICES Goal OBVIOUS
<1>1. ASSUME UNCHANGED <<asked, buried>> PROVE Goal
  BY <1>1
<1>2. ASSUME NEW p \in Pane, Register(p) PROVE Goal
  <2>1. PICK says \in TmuxAnswers : asked' = asked \cup AskedBy(p, says)
    BY <1>2 DEF Register
  <2>2. buried' = buried /\ life[p] # "none"
    BY <1>2 DEF Register
  <2>3. ASSUME NEW q \in AskedBy(p, says)
        PROVE  q \in buried \/ (Parent[q] # None /\ life[Parent[q]] \notin {"none", "up"})
    <3>1. q = p /\ (Deletes(Now, p) \/ (Parent[p] # None /\ says[Parent[p]] = "gone"))
      BY <2>3 DEF AskedBy
    <3>2. Deletes(Now, p) => p \in buried
      BY DEF IInv, Graves
    <3>3. Parent[p] # None => Parent[p] \in Pane /\ life[Parent[p]] # "none"
      BY <2>2, ParentAssumption DEF IInv, Graves
    <3>4. \A u \in Pane : says[u] = "gone" => life[u] # "up"
      BY DEF TmuxAnswers, TmuxTruth
    <3> QED BY <3>1, <3>2, <3>3, <3>4
  <2> QED BY <2>1, <2>2, <2>3
<1> HIDE DEF Goal
<1>3. CASE LiveNext
  <2>1. CASE \E p \in Pane :
               Register(p) \/ WriteFile(p) \/ Quit(p) \/ Die(p) \/ Passes(p) \/ Lapse(p)
    BY <1>1, <1>2, <2>1 DEF WriteFile, Quit, Die, Passes, Lapse, history
  <2>2. CASE \E p \in Pane, f \in File : Save(p, f) \/ OpenPane(p, f) \/ PaneStarting(p, f)
    BY <1>1, <2>2 DEF Save, OpenPane, PaneStarting, StartPane, history
  <2>3. CASE \/ \E f \in File : ClaimStart(f)
             \/ \E r \in Row : StartFailed(r)
             \/ \E r \in Row, m \in Message : Send(r, m)
             \/ List
    BY <1>1, <2>3 DEF ClaimStart, StartFailed, Send, List, history
  <2> QED BY <1>3, <2>1, <2>2, <2>3 DEF LiveNext
<1>4. CASE \/ \E p \in Pane : Wait(p) \/ WaitEnds(p) \/ Unlist(p)
           \/ \E p \in Pane, f \in File : SaveLost(p, f) \/ MoveOn(p, f)
  BY <1>1, <1>4 DEF Wait, WaitEnds, Unlist, SaveLost, MoveOn, history
<1>5. CASE \/ \E r \in Row, pin \in Pins : SetPinned(r, pin)
           \/ \E p \in Pane, i \in Id, o \in Reportable : Report(p, i, o)
           \/ DaemonRestarts \/ UNCHANGED vars
  BY <1>1, <1>5 DEF SetPinned, Report, DaemonRestarts, history, vars
<1> QED BY <1>3, <1>4, <1>5 DEF RNext

(* So does what the daemon's requests find. *)
LEMMA EnvStays ==
  ASSUME IInv, [RNext]_vars, Good(Now)'
  PROVE  EnvRight'
<1>1. EnvRight /\ Good(Now)
  BY DEF IInv
<1>2. Registered(Now) \subseteq Pane
  BY <1>1, RowIs, FoundIs
<1>3. ASSUME NEW p \in Pane, Register(p) PROVE EnvRight'
  BY <1>1, <1>3 DEF EnvRight, Register, env, AskedBy
<1>4. ASSUME UNCHANGED <<env, history>> PROVE EnvRight'
  BY <1>1, <1>4 DEF EnvRight, env, history
<1>5. ASSUME NEW p \in Pane, Quit(p) PROVE EnvRight'
  <2>1. /\ handoffs' \subseteq Pane \X File
        /\ UNCHANGED <<on, files, asked, buried, erased, ended>>
    BY <1>1, <1>5 DEF EnvRight, Quit, history
  <2>2. life' \in {[life EXCEPT ![p] = "quit"], [life EXCEPT ![p] = "gone"]} /\ life[p] = "up"
    BY <1>5 DEF Quit
  <2>3. /\ life' \in [Pane -> {"none", "up", "gone", "quit", "past"}]
        /\ \A q \in Pane : life'[q] # "none" => life[q] # "none"
    BY <1>1, <2>2 DEF EnvRight
  <2> QED BY <1>1, <2>1, <2>3 DEF EnvRight
<1>6. ASSUME NEW p \in Pane, NEW f \in File, MoveOn(p, f) PROVE EnvRight'
  BY <1>1, <1>6 DEF EnvRight, MoveOn, MaybeFile
<1>7. ASSUME NEW p \in Pane, NEW f \in File, Save(p, f) PROVE EnvRight'
  <2>1. /\ handoffs' \subseteq Pane \X File
        /\ UNCHANGED <<on, files, asked, buried, erased, ended>>
    BY <1>1, <1>7 DEF EnvRight, Save, history
  <2>2. life' = [life EXCEPT ![p] = IF @ = "gone" THEN "quit" ELSE @]
    BY <1>7 DEF Save
  <2>3. /\ life' \in [Pane -> {"none", "up", "gone", "quit", "past"}]
        /\ \A q \in Pane : life'[q] # "none" => life[q] # "none"
    BY <1>1, <2>2 DEF EnvRight
  <2> QED BY <1>1, <2>1, <2>3 DEF EnvRight
<1>8. ASSUME NEW p \in Pane, NEW f \in File, SaveLost(p, f) PROVE EnvRight'
  BY <1>1, <1>8 DEF EnvRight, SaveLost, history
<1>9. ASSUME NEW p \in Pane, NEW f \in File, StartPane(p, f) PROVE EnvRight'
  BY <1>1, <1>9 DEF EnvRight, StartPane, MaybeFile
<1>10. ASSUME NEW p \in Pane, WriteFile(p) PROVE EnvRight'
  BY <1>1, <1>10 DEF EnvRight, WriteFile, history
<1>11. ASSUME NEW p \in Pane, Die(p) \/ Passes(p) PROVE EnvRight'
  <2>1. UNCHANGED <<on, files, handoffs, asked, buried, erased, ended>>
    BY <1>11 DEF Die, Passes, history
  <2>2. /\ life' \in {[life EXCEPT ![p] = "gone"], [life EXCEPT ![p] = "past"]}
        /\ life[p] # "none"
    BY <1>11 DEF Die, Passes
  <2>3. /\ life' \in [Pane -> {"none", "up", "gone", "quit", "past"}]
        /\ \A q \in Pane : life'[q] # "none" => life[q] # "none"
    BY <1>1, <2>2 DEF EnvRight
  <2> QED BY <1>1, <2>1, <2>3 DEF EnvRight
<1>12. ASSUME NEW r \in Row, Delete(r) PROVE EnvRight'
  <2>1. UNCHANGED <<life, on, files, handoffs>>
    BY <1>12 DEF Delete, env
  <2>2. asked' \subseteq Pane
    BY <1>1, <1>2, <1>12 DEF Delete, EnvRight
  <2>3. PICK f \in MaybeFile : Deleted(f)
    BY <1>12 DEF Delete
  <2>4. deleted' \subseteq DeletedRow
    <3> DEFINE t == Now'
    <3>1. t.deleted = deleted'
      BY DEF Now
    <3>2. t \in State
      BY DEF Good
    <3> HIDE DEF t
    <3> QED BY <3>1, <3>2, StateIs
  <2>5. buried' \subseteq Pane
    BY <1>1, <1>2, <2>3, <2>4 DEF Deleted, DeletedRow, EnvRight
  <2>6. erased' \subseteq File /\ ended' \subseteq Pane \X File
    <3>1. \A p \in Pane : life[p] = "up" /\ on[p] = f => f \in File
      BY <1>1 DEF EnvRight
    <3> QED BY <1>1, <2>3, <3>1 DEF Deleted, EnvRight
  <2> QED BY <1>1, <2>1, <2>2, <2>5, <2>6 DEF EnvRight
<1>13. CASE LiveNext
  <2>1. CASE \E p \in Pane :
               Register(p) \/ WriteFile(p) \/ Quit(p) \/ Die(p) \/ Passes(p) \/ Lapse(p)
    <3>1. ASSUME NEW p \in Pane, Lapse(p) PROVE UNCHANGED <<env, history>>
      BY <3>1 DEF Lapse
    <3> QED BY <1>3, <1>4, <1>5, <1>10, <1>11, <2>1, <3>1
  <2>2. CASE \E p \in Pane, f \in File : Save(p, f) \/ OpenPane(p, f) \/ PaneStarting(p, f)
    BY <1>7, <1>9, <2>2 DEF OpenPane, PaneStarting
  <2>3. CASE \E f \in File : ClaimStart(f)
    BY <1>4, <2>3 DEF ClaimStart
  <2>4. CASE \E r \in Row : StartFailed(r)
    BY <1>4, <2>4 DEF StartFailed
  <2>5. CASE \E r \in Row, m \in Message : Send(r, m)
    BY <1>4, <2>5 DEF Send
  <2>6. CASE List
    BY <1>4, <2>6 DEF List
  <2> QED BY <1>13, <2>1, <2>2, <2>3, <2>4, <2>5, <2>6 DEF LiveNext
<1>14. CASE \E p \in Pane : Wait(p) \/ WaitEnds(p) \/ Unlist(p)
  BY <1>4, <1>14 DEF Wait, WaitEnds, Unlist
<1>15. CASE \E p \in Pane, f \in File : SaveLost(p, f) \/ MoveOn(p, f)
  BY <1>6, <1>8, <1>15
<1>16. CASE \E r \in Row : Delete(r)
  BY <1>12, <1>16
<1>17. CASE \E r \in Row, pin \in Pins : SetPinned(r, pin)
  BY <1>4, <1>17 DEF SetPinned
<1>18. CASE \E p \in Pane, i \in Id, o \in Reportable : Report(p, i, o)
  BY <1>4, <1>18 DEF Report
<1>19. CASE DaemonRestarts
  BY <1>4, <1>19 DEF DaemonRestarts
<1>20. CASE UNCHANGED vars
  BY <1>4, <1>20 DEF vars
<1> QED BY <1>13, <1>14, <1>15, <1>16, <1>17, <1>18, <1>19, <1>20 DEF RNext

(* So what is deleted stays gone. *)
LEMMA GravesStay ==
  ASSUME IInv, [RNext]_vars
  PROVE  Graves'
<1> DEFINE Younger == \A p \in Pane : Parent[p] # None /\ life[p] # "none" => life[Parent[p]] # "none"
<1>1. Graves /\ Ages /\ asked \subseteq Pane /\ buried \subseteq Pane
  BY PanesAge DEF IInv, EnvRight
<1>2. \A p \in Pane : Parent[p] # None => Parent[p] \in Pane
  BY ParentAssumption
<1>3. Younger'
  BY <1>1, <1>2 DEF Graves, Ages
<1>4. ASSUME NEW p \in Pane, Parent[p] # None, life[Parent[p]] \notin {"none", "up"}
      PROVE  life'[Parent[p]] \notin {"none", "up"}
  BY <1>1, <1>2, <1>4 DEF Ages
<1>5. ASSUME ~\E r \in Row : Delete(r) PROVE Graves'
  <2> DEFINE t == Now'
  <2>1. Leads(Now, t)
    BY <1>5, TableStays
  <2>2. /\ buried' = buried
        /\ \A p \in asked' :
             \/ p \in asked \cup buried
             \/ Parent[p] # None /\ life[Parent[p]] \notin {"none", "up"}
    BY <1>5, Asked
  <2>3. \A p \in Pane : Deletes(t, p) => p \in buried
    BY <1>1, <2>1 DEF Graves, Leads
  <2>4. ASSUME NEW p \in buried
        PROVE  p \notin Registered(t) /\ (Deletes(t, p) \/ life'[p] = "past")
    <3>1. p \in Pane /\ p \notin Registered(Now) /\ (Deletes(Now, p) \/ life[p] = "past")
      BY <1>1 DEF Graves
    <3>2. life[p] = "past" => life'[p] = "past"
      BY <1>1, <3>1 DEF Ages
    <3> QED BY <2>1, <3>1, <3>2 DEF Leads
  <2>5. ASSUME NEW p \in asked'
        PROVE  \/ p \in buried
               \/ Parent[p] # None /\ (life'[Parent[p]] \notin {"none", "up"} \/ Parent[p] \in buried)
    <3>1. Good(Now')
      BY <2>1 DEF Leads
    <3>2. Good(Now)'
      BY <3>1
    <3>3. asked' \subseteq Pane
      BY <3>2, EnvStays DEF EnvRight
    <3> QED BY <1>1, <1>4, <2>2, <2>5, <3>3 DEF Graves
  <2> QED BY <1>3, <2>2, <2>3, <2>4, <2>5 DEF Graves
<1>6. ASSUME NEW r \in Row, Delete(r) PROVE Graves'
  <2> DEFINE t == Now'
             a == Addressed(Now, r)
             gone == Registered(Now) \ Registered(t)
             panes == {e.pane : e \in t.deleted} \ {None}
  <2>1. /\ Good(t) /\ Calm(t) /\ Deletion(Now, t) /\ a \notin Registered(t)
        /\ a = None \/ a \in Registered(Now)
    BY <1>6, DeleteKeeps, AddressedIs DEF IInv
  <2>2. buried' = buried \cup gone \cup panes
    <3>1. t.deleted = deleted'
      BY DEF Now
    <3>2. PICK f \in MaybeFile : Deleted(f)
      BY <1>6 DEF Delete
    <3>3. buried' = buried \cup (Registered(Now) \ Registered(Now)') \cup ({e.pane : e \in deleted'} \ {None})
      BY <3>2 DEF Deleted
    <3> QED BY <3>1, <3>3
  <2>3. asked' = asked \cup {q \in Registered(Now) \ {a} : a # None /\ Parent[q] = a}
    BY <1>6 DEF Delete
  <2>4. UNCHANGED life
    BY <1>6 DEF Delete, env
  <2> HIDE DEF t, a
  <2>5. \A p \in Pane : p \in panes <=> Deletes(t, p)
    BY NoneAssumption DEF Deletes
  <2>6. panes \subseteq Pane
    <3>1. \A e \in t.deleted : e.pane \in Pane \cup {None}
      <4>1. t.deleted \subseteq DeletedRow
        BY <2>1, StateIs DEF Good
      <4> QED BY <4>1 DEF DeletedRow
    <3> QED BY <3>1
  <2>7. Registered(Now) \subseteq Pane
    BY NoneUnknown DEF IInv
  <2>8. ASSUME NEW p \in buried'
        PROVE  p \notin Registered(t) /\ (Deletes(t, p) \/ life'[p] = "past")
    <3>1. CASE p \in buried
      BY <1>1, <2>1, <2>4, <3>1 DEF Graves, Deletion
    <3>2. CASE p \in gone
      BY <2>1, <3>2 DEF Deletion
    <3>3. CASE p \in panes
      BY <2>1, <2>5, <2>6, <3>3 DEF Calm, StaysGone
    <3> HIDE DEF gone, panes
    <3> QED BY <2>2, <2>8, <3>1, <3>2, <3>3
  <2>9. a # None => a \in buried'
    BY <2>1, <2>2
  <2>10. ASSUME NEW p \in asked'
         PROVE  \/ p \in buried'
                \/ Parent[p] # None /\ (life'[Parent[p]] \notin {"none", "up"} \/ Parent[p] \in buried')
    <3>1. CASE p \in asked
      <4>1. buried \subseteq buried'
        BY <2>2
      <4> QED BY <1>1, <2>4, <3>1, <4>1 DEF Graves
    <3>2. CASE a # None /\ Parent[p] = a
      BY <2>9, <3>2
    <3> QED BY <2>3, <2>10, <3>1, <3>2
  <2>11. \A p \in Pane : Deletes(t, p) => p \in buried'
    BY <2>2, <2>5
  <2> QED BY <1>3, <2>8, <2>10, <2>11 DEF t, Graves
<1> QED BY <1>5, <1>6

LEMMA InvStays == IInv /\ [RNext]_vars => IInv'
<1> SUFFICES ASSUME IInv, [RNext]_vars PROVE IInv'
  OBVIOUS
<1>1. Good(Now') /\ Calm(Now')
  BY TableStays, DeleteKeeps DEF Leads
<1>2. Good(Now)' /\ Calm(Now)'
  BY <1>1
<1>3. EnvRight' /\ Graves'
  BY <1>2, EnvStays, GravesStay
<1> QED BY <1>2, <1>3 DEF IInv

---------------------------------------------------------------------------
(* What the invariant says *)

(* A sound row has as many panes as it lists and holds. *)
LEMMA PanesCounted ==
  ASSUME NEW row \in RowRecord, Sound(row)
  PROVE  Cardinality(PaneIds(row)) = Len(row.held) + (IF row.pane = None THEN 0 ELSE 1)
<1> DEFINE m == Len(row.held)
           n == m + (IF row.pane = None THEN 0 ELSE 1)
           g == [k \in 1..n |-> IF k <= m THEN row.held[k].id ELSE row.pane.id]
           P == PaneIds(row)
<1>1. m \in Nat
  <2>1. row.held \in Seq(PaneRecord)
    <3> HIDE DEF PaneRecord, Start
    <3> QED BY DEF RowRecord
  <2> HIDE DEF PaneRecord
  <2> QED BY <2>1, LenProperties
<1>2. n \in Nat /\ m <= n /\ (n = m \/ (n = m + 1 /\ row.pane # None))
  <2> HIDE DEF m
  <2>1. CASE row.pane = None
    BY <1>1, <2>1
  <2>2. CASE row.pane # None
    BY <1>1, <2>2
  <2> QED BY <2>1, <2>2
<1>3. \A p : p \in P <=> Lists(row, p) \/ \E k \in 1..m : row.held[k].id = p
  BY PanesAre
<1>4. \A k \in 1..n : k \in 1..m \/ (k = m + 1 /\ row.pane # None)
  <2> HIDE DEF m, n, g, P
  <2> QED BY <1>1, <1>2
<1>5. /\ \A k \in 1..m : k \in 1..n /\ g[k] = row.held[k].id
      /\ (row.pane # None) => (m + 1 \in 1..n /\ g[m + 1] = row.pane.id)
  <2>1. \A k \in 1..n : g[k] = IF k <= m THEN row.held[k].id ELSE row.pane.id
    OBVIOUS
  <2>2. (row.pane # None) => n = m + 1
    OBVIOUS
  <2> HIDE DEF m, n, g, P
  <2> QED BY <1>1, <1>2, <2>1, <2>2
<1> HIDE DEF g, n, m, P
<1>6. \A k \in 1..n : g[k] \in P
  BY <1>3, <1>4, <1>5 DEF Lists
<1>7. \A j, k \in 1..n : g[j] = g[k] => j = k
  BY <1>4, <1>5 DEF Sound, m
<1>8. \A p \in P : \E k \in 1..n : g[k] = p
  BY <1>3, <1>5 DEF Lists
<1>9. g \in [1..n -> P]
  BY <1>6 DEF g
<1>10. g \in Bijection(1..n, P)
  BY <1>7, <1>8, <1>9 DEF Bijection, Injection, Surjection, IsInjective
<1>11. IsFiniteSet(1..n) /\ Cardinality(1..n) = n
  BY <1>2, FS_Interval
<1>12. Cardinality(P) = n
  BY <1>10, <1>11, FS_Bijection DEF ExistsBijection
<1> QED BY <1>12 DEF n, m, P

LEMMA InvMeans == IInv => RegistryTypeOK /\ RowsKept /\ NoLostWakeup /\ BuriedStayGone /\ EndsNoOther
<1> SUFFICES ASSUME IInv
             PROVE  RegistryTypeOK /\ RowsKept /\ NoLostWakeup /\ BuriedStayGone /\ EndsNoOther
  OBVIOUS
<1>1. Good(Now) /\ EnvRight
  BY DEF IInv
<1>2. /\ rows \in [Row -> RowRecord] /\ stored \in Seq(StoredRow)
      /\ deleted \in SUBSET DeletedRow /\ dropped \in [File -> Pane \cup {None}]
      /\ waits \in SUBSET Pane /\ prompts \in [Id -> DeliveryRecord]
      /\ inboxes \in [Row -> Seq(Message)]
  BY <1>1, NowIs, StateIs
<1>3. RegistryTypeOK
  BY <1>1, <1>2 DEF RegistryTypeOK, TableTypeOK, TypeOK, EnvRight
<1>4. /\ \A r \in Row : rows[r] \in RowRecord /\ Sound(rows[r])
      /\ Apart(rows) /\ \A r \in Row : Starts(rows, r)
  BY <1>1, <1>2, NowIs DEF Good
<1>5. PaneOnce
  BY <1>4, PanesCounted DEF PaneOnce, Apart
<1>6. InboxOfLive
  BY <1>1, NowIs DEF InboxOfLive, Good, WaitingRight
<1>7. GivenListed
  BY <1>1, NowIs DEF GivenListed, Good, Given
<1>8. ASSUME NEW r \in Row, rows[r].start # None, rows[r].start.file # None,
             NEW p \in LivePanesOn(Now, rows[r].start.file)
      PROVE  Lapsed(Now, p)
  <2> DEFINE q == RowOf(Now, p)
  <2>1. IsLive(Now, p) /\ PaneOf(Now, p).file = rows[r].start.file
    BY DEF LivePanesOn, PanesOn
  <2>2. /\ q \in Row /\ Lists(rows[q], p) /\ rows[q].state = "live"
        /\ PaneOf(Now, p) = rows[q].pane
    BY <1>1, <2>1, LiveIs, NowIs
  <2> HIDE DEF q
  <2>3. rows[q].pane.lapsed
    BY <1>4, <1>8, <2>1, <2>2 DEF Starts
  <2> QED BY <1>1, <2>2, <2>3, NowIs DEF Lapsed
<1>9. StartedOnce
  BY <1>4, <1>8 DEF StartedOnce, Starts
<1>10. NoLostWakeup
  <2> SUFFICES ASSUME NEW p \in waits, IsLive(Now, p) PROVE inboxes[RowOf(Now, p)] = <<>>
    BY DEF NoLostWakeup
  <2>1. RowOf(Now, p) \in Row /\ LiveAs(Now.rows[RowOf(Now, p)], p)
    BY <1>1, LiveIs DEF LiveAs
  <2> QED BY <1>1, <2>1, NowIs DEF IInv, Calm, Heard
<1>11. BuriedStayGone
  BY DEF IInv, Graves, BuriedStayGone
<1>12. EndsNoOther
  BY DEF IInv, Graves, EndsNoOther
<1> QED BY <1>3, <1>5, <1>6, <1>7, <1>9, <1>10, <1>11, <1>12 DEF RowsKept

(* The table's types, and all that is kept right of it, hold whatever      *)
(* happens: panes that die, quit, move on and come back late, requests     *)
(* lost, tmux that cannot say, starts, deletes and daemon restarts, for    *)
(* any panes, rows, session files and prompts.                             *)
THEOREM RegistryInvariant == RSpec => []IInv
BY InitIs, InvStays, PTL DEF RSpec

THEOREM RegistryTypes == RSpec => []RegistryTypeOK
<1>1. IInv => RegistryTypeOK
  BY InvMeans
<1> QED BY <1>1, RegistryInvariant, PTL

(* Every pane the daemon knows is in one place, messages wait for live     *)
(* panes only, a prompt given to a pane stays with the row that pane is    *)
(* of, and no session file is started twice.                               *)
THEOREM RowsAlwaysKept == RSpec => []RowsKept
<1>1. IInv => RowsKept
  BY InvMeans
<1> QED BY <1>1, RegistryInvariant, PTL

(* The same of what may happen with the progress the daemon makes.         *)
THEOREM RowsKeptLive == RLive => []RowsKept
<1>1. IInv => RowsKept
  BY InvMeans
<1>2. IInv /\ [LiveNext]_vars => IInv'
  <2>1. LiveNext => RNext
    BY DEF RNext
  <2> QED BY <2>1, InvStays
<1>3. RLive => RInit /\ [][LiveNext]_vars
  BY DEF RLive
<1> QED BY <1>1, <1>2, <1>3, InitIs, PTL

(* A pane that waits is never left with something queued for it: it is     *)
(* known to the daemon, and nothing is queued in the row it is live in.    *)
THEOREM WakeupsNeverLost == RSpec => []NoLostWakeup
<1>1. IInv => NoLostWakeup
  BY InvMeans
<1> QED BY <1>1, RegistryInvariant, PTL

(* A deleted row's pane is never listed again, however late its heartbeat, *)
(* whatever its session is saved as and however often the daemon restarts: *)
(* it is kept as deleted until nothing of it can be on its way.            *)
THEOREM BuriedNeverListed == RSpec => []BuriedStayGone
<1>1. IInv => BuriedStayGone
  BY InvMeans
<1> QED BY <1>1, RegistryInvariant, PTL

(* The daemon asks no pi to end but those of deleted rows and of runs      *)
(* whose orchestrator is gone or deleted, also while tmux cannot say.      *)
THEOREM EndsOnlyTheirs == RSpec => []EndsNoOther
<1>1. IInv => EndsNoOther
  BY InvMeans
<1> QED BY <1>1, RegistryInvariant, PTL

---------------------------------------------------------------------------
(* The rows of runs *)

(* What is stored, row by row.                                             *)
LEMMA StoredRows ==
  ASSUME NEW s \in State
  PROVE  /\ Len(s.stored) \in Nat /\ DOMAIN s.stored = 1..Len(s.stored)
         /\ \A k \in 1..Len(s.stored) : s.stored[k] \in StoredRow
<1> DEFINE R == StoredRow
           st == s.stored
<1>1. st \in Seq(R)
  BY StateIs
<1>2. Len(st) \in Nat /\ DOMAIN st = 1..Len(st) /\ \A k \in 1..Len(st) : st[k] \in R
  <2> HIDE DEF st, R
  <2> QED BY <1>1, LenProperties, ElementOfSeq
<1> QED BY <1>2

LEMMA StoredIf ==
  ASSUME NEW s \in State, NEW id
  PROVE  IsStored(s, id) <=> \E k \in 1..Len(s.stored) : s.stored[k].id = id
<1>1. ASSUME NEW j \in 1..Len(s.stored), s.stored[j].id = id PROVE IsStored(s, id)
  <2> DEFINE I == {k \in 1..Len(s.stored) : s.stored[k].id = id}
  <2>1. StoredAt(s, id) = IF I # {} THEN Min(I) ELSE 0
    BY DEF StoredAt, SelectInSeq
  <2>2. I # {} /\ I \in SUBSET Nat /\ 0 \notin I
    BY <1>1
  <2>3. Min(I) \in I
    <3> HIDE DEF I
    <3> QED BY <2>2, LeastIs
  <2> HIDE DEF I
  <2> QED BY <2>1, <2>2, <2>3 DEF IsStored
<1> QED BY <1>1, StoredAtIs

(* Rows thin out from s to t: no pane joins one, none that holds no pane   *)
(* comes to hold any, and what is stored was.                              *)
Thins(s, t) ==
  /\ \A r \in Row :
       /\ PaneIds(t.rows[r]) \subseteq PaneIds(s.rows[r])
       /\ s.rows[r].held = <<>> => t.rows[r].held = <<>>
  /\ \A k \in 1..Len(t.stored) : \E j \in 1..Len(s.stored) : t.stored[k] = s.stored[j]

(* Nothing is left of row r, unless it held a pane behind its own.         *)
RowGone(s, t, r) == ~IsStored(t, r) /\ (s.rows[r].held = <<>> => PaneIds(t.rows[r]) = {})

LEMMA ThinsOn ==
  ASSUME NEW s, NEW t, NEW u, Thins(s, t), Thins(t, u)
  PROVE  Thins(s, u)
<1>1. ASSUME NEW k \in 1..Len(u.stored)
      PROVE  \E j \in 1..Len(s.stored) : u.stored[k] = s.stored[j]
  <2>1. PICK i \in 1..Len(t.stored) : u.stored[k] = t.stored[i]
    BY DEF Thins
  <2> QED BY <2>1 DEF Thins
<1>2. ASSUME NEW r \in Row
      PROVE  /\ PaneIds(u.rows[r]) \subseteq PaneIds(s.rows[r])
             /\ s.rows[r].held = <<>> => u.rows[r].held = <<>>
  BY DEF Thins
<1> QED BY <1>1, <1>2 DEF Thins

LEMMA GoneOn ==
  ASSUME NEW s, NEW t, NEW u, t \in State, u \in State, NEW r \in Row,
         Thins(s, t), RowGone(s, t, r), Thins(t, u)
  PROVE  RowGone(s, u, r)
<1>1. ~IsStored(u, r)
  <2>1. ASSUME NEW k \in 1..Len(u.stored), u.stored[k].id = r PROVE FALSE
    <3>1. PICK j \in 1..Len(t.stored) : u.stored[k] = t.stored[j]
      BY DEF Thins
    <3> QED BY <2>1, <3>1, StoredIf DEF RowGone
  <2> QED BY <2>1, StoredIf
<1> QED BY <1>1 DEF RowGone, Thins

(* A pane that goes leaves its row thinner.                                *)
LEMMA DropThins ==
  ASSUME NEW s, Good(s), NEW p \in Registered(s), NEW reason
  PROVE  /\ Thins(s, Drop(s, p, reason))
         /\ s.rows[RowOf(s, p)].held = <<>> =>
              PaneIds(Drop(s, p, reason).rows[RowOf(s, p)]) = {}
         /\ \A r \in Row : r # RowOf(s, p) => Drop(s, p, reason).rows[r] = s.rows[r]
<1> DEFINE r == RowOf(s, p)
           t == Drop(s, p, reason)
           new == Without(s.rows[r], p)
<1>1. s \in State /\ r \in Row /\ p \in PaneIds(s.rows[r])
  BY RowIs DEF Good
<1>2. s.rows \in [Row -> RowRecord] /\ s.rows[r] \in RowRecord /\ Sound(s.rows[r])
  BY <1>1, StateIs DEF Good
<1>3. t.rows = [s.rows EXCEPT ![r] = new]
  <2> DEFINE u == SettleWait(s, p)
  <2>1. u = [rows |-> s.rows, stored |-> s.stored, deleted |-> s.deleted, dropped |-> s.dropped,
             waits |-> s.waits \ {p}, prompts |-> s.prompts, inboxes |-> s.inboxes]
    <3>1. s = [rows |-> s.rows, stored |-> s.stored, deleted |-> s.deleted, dropped |-> s.dropped,
               waits |-> s.waits, prompts |-> s.prompts, inboxes |-> s.inboxes]
      BY <1>1, StateIs
    <3> QED BY <3>1 DEF SettleWait
  <2>2. t = [u EXCEPT !.rows[r] = Without(@, p),
                      !.prompts = AfterEnded(@, s.inboxes, r, p, reason, Lists(s.rows[r], p)),
                      !.inboxes = IF Lists(s.rows[r], p) THEN Emptied(@, r) ELSE @]
    <3> HIDE DEF u
    <3> QED BY DEF Drop, u
  <2> HIDE DEF u, r
  <2> QED BY <2>1, <2>2
<1>4. t.stored = s.stored
  BY DropIs
<1> HIDE DEF t, r
<1>5. PaneIds(new) = PaneIds(s.rows[r]) \ {p}
  BY <1>1, <1>2, WithoutIs
<1>6. s.rows[r].held = <<>> => new.held = <<>> /\ PaneIds(new) = {}
  <2> SUFFICES ASSUME s.rows[r].held = <<>> PROVE new.held = <<>> /\ PaneIds(new) = {}
    OBVIOUS
  <2>1. Lists(s.rows[r], p) /\ \A q \in PaneIds(s.rows[r]) : q = p
    BY <1>1, <1>2, PanesAre DEF Lists
  <2>2. new = [s.rows[r] EXCEPT !.pane = None, !.state = IF s.rows[r].start # None THEN "starting" ELSE "stored"]
    BY <2>1 DEF Without
  <2>3. new.held = s.rows[r].held
    BY <2>2
  <2> QED BY <1>5, <2>1, <2>3
<1> HIDE DEF new
<1>7. t.rows[r] = new /\ \A q \in Row : q # r => t.rows[q] = s.rows[q]
  BY <1>1, <1>2, <1>3
<1> QED BY <1>4, <1>5, <1>6, <1>7 DEF Thins, t, r

LEMMA LackingThins ==
  ASSUME NEW s \in State, NEW ids
  PROVE  /\ Thins(s, [s EXCEPT !.stored = Lacking(@, ids)])
         /\ \A id \in ids : ~IsStored([s EXCEPT !.stored = Lacking(@, ids)], id)
<1> DEFINE t == [s EXCEPT !.stored = Lacking(@, ids)]
           R == StoredRow
           q == s.stored
<1>1. t \in State /\ t.rows = s.rows
  BY UnstoreIs
<1>2. t.stored = Lacking(s.stored, ids)
  BY StateIs
<1>3. \A j \in 1..Len(Lacking(q, ids)) :
        \E i \in 1..Len(q) : Lacking(q, ids)[j] = q[i] /\ q[i].id \notin ids
  <2>1. q \in Seq(R)
    BY StateIs
  <2> HIDE DEF q, R
  <2> QED BY <2>1, LackingIs
<1> HIDE DEF t
<1>4. \A id \in ids : ~IsStored(t, id)
  BY <1>1, <1>2, <1>3, StoredIf
<1> QED BY <1>1, <1>2, <1>3, <1>4 DEF Thins, t

LEMMA RecordThins ==
  ASSUME NEW s, Good(s), NEW p \in Pane \cup {None}, NEW f \in MaybeFile
  PROVE  Thins(s, RecordDeleted(s, p, f)) /\ RecordDeleted(s, p, f).stored = s.stored
<1>1. RecordDeleted(s, p, f).rows = s.rows
  BY RecordIs
<1>2. RecordDeleted(s, p, f).stored = s.stored
  <2>1. \A d : [s EXCEPT !.deleted = d].stored = s.stored
    BY StateIs DEF Good
  <2> QED BY <2>1 DEF RecordDeleted
<1> QED BY <1>1, <1>2 DEF Thins

(* A row that is deleted is gone, and the others no more than thinner.     *)
LEMMA DeleteRowThins ==
  ASSUME NEW s, Good(s), NEW id \in Row
  PROVE  Thins(s, DeleteRow(s, id)) /\ RowGone(s, DeleteRow(s, id), id)
<1> DEFINE p == Addressed(s, id)
           at == StoredAt(s, id)
<1>1. s \in State /\ s.rows[id] \in RowRecord /\ Sound(s.rows[id])
  BY StateIs DEF Good
<1>2. s.rows[id].pane = None => PaneIds(s.rows[id]) = {}
  <2> SUFFICES ASSUME s.rows[id].pane = None PROVE \A q : q \notin PaneIds(s.rows[id])
    OBVIOUS
  <2>1. s.rows[id].held = <<>>
    BY <1>1 DEF Sound
  <2> QED BY <1>1, <2>1, PanesAre DEF Lists
<1>3. CASE p # None
  <2> DEFINE r == RowOf(s, p)
             u == Drop(s, p, "unsaid")
             v == Unstore(u, r)
             t == RecordDeleted(v, p, PaneOf(s, p).file)
  <2>1. /\ p \in Registered(s) /\ p \in Pane /\ r \in Row
        /\ PaneOf(s, p).file \in MaybeFile
    <3>1. p \in Registered(s) /\ r \in Row /\ PaneOf(s, p) \in PaneRecord
      BY <1>3, AddressedIs
    <3>2. p \in Pane
      BY <3>1, RowIs, FoundIs
    <3> QED BY <3>1, <3>2 DEF PaneRecord
  <2>2. DeleteRow(s, id) = t
    BY <1>3 DEF DeleteRow
  <2>3. \/ s.rows[id].pane # None /\ r = id
        \/ s.rows[id].pane = None /\ ~IsStored(s, id)
    <3>1. CASE s.rows[id].pane # None
      <4>1. p = s.rows[id].pane.id
        BY <3>1 DEF Addressed
      <4>2. p \in PaneIds(s.rows[id])
        BY <1>1, <3>1, <4>1, PanesAre DEF Lists
      <4> QED BY <3>1, <4>2, FoundIs
    <3>2. CASE s.rows[id].pane = None
      BY <1>3, <3>2 DEF Addressed
    <3> QED BY <3>1, <3>2
  <2> HIDE DEF p, r
  <2>4. /\ Thins(s, u) /\ Good(u)
        /\ s.rows[r].held = <<>> => PaneIds(u.rows[r]) = {}
        /\ \A q \in Row : q # r => u.rows[q] = s.rows[q]
    BY <2>1, DropThins, DropIs DEF r
  <2> HIDE DEF u
  <2>5. Thins(u, v) /\ v.rows = u.rows /\ Good(v) /\ ~IsStored(v, r)
    <3>1. r \in {r}
      OBVIOUS
    <3> QED BY <2>4, <3>1, LackingThins, LackingGood DEF Unstore, Good
  <2> HIDE DEF v
  <2>6. Thins(v, t) /\ t.stored = v.stored /\ Good(t)
    BY <2>1, <2>5, RecordThins, RecordIs
  <2> HIDE DEF t
  <2>7. Thins(s, t)
    BY <2>4, <2>5, <2>6, ThinsOn
  <2>8. RowGone(s, t, id)
    <3>1. CASE r = id
      <4>1. ~IsStored(t, r)
        BY <2>5, <2>6, StoredIf DEF Good
      <4> QED BY <2>1, <2>4, <2>5, <2>6, <3>1, <4>1 DEF RowGone, Thins
    <3>2. CASE s.rows[id].pane = None /\ ~IsStored(s, id)
      <4>1. RowGone(s, s, id) /\ Thins(s, s)
        BY <1>2, <3>2 DEF RowGone, Thins
      <4> QED BY <1>1, <2>6, <2>7, <4>1, GoneOn DEF Good
    <3> QED BY <2>3, <3>1, <3>2
  <2> QED BY <2>2, <2>7, <2>8
<1>4. CASE p = None
  <2>1. s.rows[id].pane = None
    <3> SUFFICES ASSUME s.rows[id].pane # None PROVE FALSE
      OBVIOUS
    <3>1. p \in PaneIds(s.rows[id])
      BY <1>1, PanesAre DEF Addressed, Lists
    <3> QED BY <1>4, <3>1, FoundIs, NoneAssumption
  <2>2. RowGone(s, s, id) \/ at # 0
    BY <1>2, <2>1 DEF RowGone, IsStored
  <2>3. CASE at = 0
    BY <1>4, <2>2, <2>3 DEF DeleteRow, Thins
  <2>4. CASE at # 0
    <3> DEFINE f == s.stored[at].file
               q == s.dropped[f]
               u == RecordDeleted(s, q, f)
               t == Unstore(u, id)
    <3>1. q \in Pane \cup {None} /\ f \in MaybeFile
      <4>1. at \in 1..Len(s.stored)
        BY <1>1, <2>4, StoredAtIs DEF IsStored
      <4>2. f \in File
        BY <1>1, <4>1, StoredRows DEF StoredRow
      <4> HIDE DEF f
      <4> QED BY <1>1, <4>2, StateIs DEF MaybeFile
    <3>2. DeleteRow(s, id) = t
      BY <1>4, <2>4 DEF DeleteRow
    <3> HIDE DEF f, q, at, p
    <3>3. Thins(s, u) /\ Good(u) /\ u.rows = s.rows
      BY <3>1, RecordThins, RecordIs
    <3> HIDE DEF u
    <3>4. Thins(u, t) /\ t.rows = u.rows /\ ~IsStored(t, id)
      <4>1. id \in {id}
        OBVIOUS
      <4> QED BY <3>3, <4>1, LackingThins, LackingGood DEF Unstore, Good
    <3> HIDE DEF t
    <3>5. Thins(s, t)
      BY <3>3, <3>4, ThinsOn
    <3> QED BY <1>2, <2>1, <3>2, <3>3, <3>4, <3>5 DEF RowGone
  <2> QED BY <2>3, <2>4
<1> QED BY <1>3, <1>4

(* Of the rows that are deleted one after the other nothing is left.       *)
LEMMA DeleteRowsThin ==
  ASSUME NEW s, Good(s), NEW ids \in Seq(Row)
  PROVE  /\ Thins(s, DeleteRows(s, ids))
         /\ \A j \in 1..Len(ids) : RowGone(s, DeleteRows(s, ids), ids[j])
<1> DEFINE n == Len(ids)
           A == {t \in State : Good(t)}
           after[k \in 0..n] == IF k = 0 THEN s ELSE DeleteRow(after[k - 1], ids[k])
           F == [k \in 1..n |-> [t \in A |-> DeleteRow(t, ids[k])]]
<1>1. \A t : t \in A <=> Good(t)
  BY DEF Good
<1>2. n \in Nat /\ \A k \in 1..n : ids[k] \in Row
  BY LenProperties, ElementOfSeq
<1> HIDE DEF A, n
<1>3. \A k \in 1..n, t \in A : DeleteRow(t, ids[k]) \in A
  BY <1>1, <1>2, DeleteRowIs
<1>4. s \in A /\ F \in [1..n -> [A -> A]]
  BY <1>1, <1>3
<1>5. PICK g \in [0..n -> A] : g[0] = s /\ \A k \in 1..n : g[k] = F[k][g[k - 1]]
  <2>1. \E g \in [0..n -> A] : Builds(g, n, s, F)
    <3> HIDE DEF F
    <3> QED BY <1>2, <1>4, Recursion
  <2> QED BY <2>1 DEF Builds
<1>6. g = [k \in 0..n |-> IF k = 0 THEN s ELSE DeleteRow(g[k - 1], ids[k])]
  <2>1. ASSUME NEW k \in 0..n, k # 0 PROVE g[k] = DeleteRow(g[k - 1], ids[k])
    <3>1. k \in 1..n /\ k - 1 \in 0..n
      BY <1>2, <2>1
    <3> QED BY <1>5, <3>1
  <2> QED BY <1>5, <2>1
<1>7. after = [k \in 0..n |-> IF k = 0 THEN s ELSE DeleteRow(after[k - 1], ids[k])]
  BY <1>6
<1> DEFINE Done(k) == /\ after[k] \in A /\ Thins(s, after[k])
                      /\ \A j \in 1..k : RowGone(s, after[k], ids[j])
           S == {k \in 0..n : Done(k)}
<1> HIDE DEF after
<1>8. 0 \in S
  BY <1>2, <1>4, <1>7 DEF Thins
<1>9. ASSUME NEW k \in 0..(n - 1), k \in S PROVE k + 1 \in S
  <2>1. k + 1 \in 0..n /\ k + 1 \in 1..n /\ k + 1 # 0 /\ (k + 1) - 1 = k
    BY <1>2
  <2> DEFINE t == after[k]
             u == after[k + 1]
  <2>2. u = DeleteRow(t, ids[k + 1])
    BY <1>7, <2>1
  <2>3. Good(t) /\ Thins(s, t) /\ \A j \in 1..k : RowGone(s, t, ids[j])
    BY <1>1, <1>9
  <2> HIDE DEF t, u
  <2>4. u \in A /\ Good(u) /\ Thins(t, u) /\ RowGone(t, u, ids[k + 1])
    BY <1>1, <1>2, <1>3, <2>1, <2>2, <2>3, DeleteRowThins
  <2>5. Thins(s, u)
    BY <2>3, <2>4, ThinsOn
  <2>6. ASSUME NEW j \in 1..(k + 1) PROVE RowGone(s, u, ids[j])
    <3>1. j \in 1..n
      BY <1>2
    <3>2. CASE j = k + 1
      BY <1>2, <2>3, <2>4, <3>1, <3>2 DEF RowGone, Thins
    <3>3. CASE j \in 1..k
      BY <1>2, <2>3, <2>4, <3>1, <3>3, GoneOn DEF Good
    <3> QED BY <3>2, <3>3
  <2>7. Done(k + 1)
    BY <2>4, <2>5, <2>6 DEF u
  <2> QED BY <2>1, <2>7
<1>10. Done(n)
  <2>1. n \in 0..n
    BY <1>2
  <2>2. 0..n \subseteq S
    <3> HIDE DEF S
    <3> QED BY <1>2, <1>8, <1>9, UpTo
  <2> QED BY <2>1, <2>2
<1>11. DeleteRows(s, ids) = after[n]
  BY DEF DeleteRows, after, n
<1> QED BY <1>10, <1>11 DEF n

(* A finite set is all in the sequence made of it.                         *)
LEMMA AllInOrder ==
  ASSUME NEW S \in SUBSET Row, IsFiniteSet(S), NEW x \in S
  PROVE  \E j \in 1..Len(SetToSeq(S)) : SetToSeq(S)[j] = x
<1> DEFINE n == Cardinality(S)
           f == SetToSeq(S)
<1>1. n \in Nat /\ ExistsBijection(1..n, S)
  BY FS_CardinalityType
<1>2. IsFiniteSet(1..n) /\ Cardinality(1..n) = n
  BY <1>1, FS_Interval
<1>3. \E h : h \in [1..n -> S] /\ IsInjective(h)
  <2>1. PICK h \in Bijection(1..n, S) : TRUE
    BY <1>1 DEF ExistsBijection
  <2> QED BY <2>1 DEF Bijection, Injection, IsInjective
<1>4. f \in [1..n -> S] /\ IsInjective(f)
  BY <1>3 DEF SetToSeq
<1> HIDE DEF f
<1>5. f \in Injection(1..n, S)
  BY <1>4 DEF Injection, IsInjective
<1>6. f \in Surjection(1..n, S)
  BY <1>1, <1>2, <1>5, FS_Injection DEF n
<1>7. \E j \in 1..n : f[j] = x
  BY <1>6 DEF Surjection
<1>8. Len(f) = n
  BY <1>1, <1>4
<1> QED BY <1>7, <1>8 DEF f

(* No pane the row table knows is a run of p's that shares its row with    *)
(* another pane behind its own.                                            *)
OwnRows(s, p) ==
  \A q \in Registered(s) : Parent[q] = p => s.rows[RowOf(s, q)].held = <<>>

(* The delete of a pane's row leaves no run of it, listed or stored.       *)
LEMMA DeleteInstanceRuns ==
  ASSUME NEW s, Good(s), NEW id \in Row, NEW p \in Pane, Addressed(s, id) = p, OwnRows(s, p)
  PROVE  /\ \A q \in Registered(DeleteInstance(s, id)) : Parent[q] # p
         /\ \A k \in DOMAIN DeleteInstance(s, id).stored :
              DeleteInstance(s, id).stored[k].parent # p
<1> DEFINE u == DeleteRow(s, id)
           S == RunRows(u, p)
           ids == SetToSeq(S)
           t == DeleteRows(u, ids)
<1>1. DeleteInstance(s, id) = t
  BY NoneAssumption DEF DeleteInstance
<1>2. Good(u) /\ Thins(s, u)
  BY DeleteRowIs, DeleteRowThins
<1>3. S \in SUBSET Row /\ IsFiniteSet(S)
  <2> HIDE DEF u
  <2> QED BY <1>2, RunRowsAre
<1>4. ids \in Seq(Row) /\ \A x \in S : \E j \in 1..Len(ids) : ids[j] = x
  <2> HIDE DEF S
  <2> QED BY <1>3, InOrder, AllInOrder
<1>5. Good(t) /\ Thins(u, t) /\ \A x \in S : RowGone(u, t, x)
  <2> HIDE DEF u, ids
  <2>1. Good(t)
    BY <1>2, <1>4, DeleteRowsIs
  <2>2. Thins(u, t) /\ \A j \in 1..Len(ids) : RowGone(u, t, ids[j])
    BY <1>2, <1>4, DeleteRowsThin
  <2> HIDE DEF S, t
  <2> QED BY <1>4, <2>1, <2>2
<1> HIDE DEF u, ids, t
<1>6. ASSUME NEW q \in Registered(t), Parent[q] = p PROVE FALSE
  <2> DEFINE c == RowOf(t, q)
  <2>1. c \in Row /\ q \in PaneIds(t.rows[c])
    BY <1>5, RowIs
  <2> HIDE DEF c
  <2>2. q \in PaneIds(u.rows[c]) /\ q \in PaneIds(s.rows[c])
    BY <1>2, <1>5, <2>1 DEF Thins
  <2>3. q \in Registered(u) /\ RowOf(u, q) = c /\ q \in Registered(s) /\ RowOf(s, q) = c
    BY <1>2, <2>1, <2>2, FoundIs
  <2>4. RowGone(u, t, c)
    <3>1. c \in S
      BY <1>6, <2>3 DEF RunRows
    <3> HIDE DEF S
    <3> QED BY <1>5, <3>1
  <2>5. s.rows[c].held = <<>>
    BY <1>6, <2>3 DEF OwnRows
  <2>6. u.rows[c].held = <<>>
    BY <1>2, <2>1, <2>5 DEF Thins
  <2> QED BY <2>1, <2>4, <2>6 DEF RowGone
<1>7. DOMAIN t.stored = 1..Len(t.stored)
  BY <1>5, StoredRows DEF Good
<1>8. ASSUME NEW k \in 1..Len(t.stored), t.stored[k].parent = p PROVE FALSE
  <2>1. PICK j \in 1..Len(u.stored) : t.stored[k] = u.stored[j]
    BY <1>5 DEF Thins
  <2> DEFINE x == u.stored[j].id
  <2>2. DOMAIN u.stored = 1..Len(u.stored) /\ x \in Row
    BY <1>2, StoredRows DEF Good, StoredRow
  <2>3. RowGone(u, t, x)
    <3>1. x \in S
      BY <1>8, <2>1, <2>2 DEF RunRows, RunsOf
    <3> HIDE DEF S, x
    <3> QED BY <1>5, <3>1
  <2>4. IsStored(t, x)
    BY <1>5, <2>1, StoredIf DEF Good
  <2> QED BY <2>3, <2>4 DEF RowGone
<1> QED BY <1>1, <1>6, <1>7, <1>8

(* Without a pane a row's are the others. *)
LEMMA WithoutPanes ==
  ASSUME NEW row \in RowRecord, NEW p
  PROVE  PanesIn(Without(row, p)) \subseteq PanesIn(row)
<1> DEFINE R == PaneRecord
           h == row.held
           new == Without(row, p)
<1>1. row.held \in Seq(R) /\ row = [state |-> row.state, pane |-> row.pane, held |-> h, start |-> row.start]
  <2> HIDE DEF R
  <2> QED BY DEF RowRecord, R
<1>2. /\ Len(h) \in Nat /\ DOMAIN h = 1..Len(h)
      /\ \A k \in 1..Len(h) : h[k] \in R
  <2> HIDE DEF h, R
  <2>1. h \in Seq(R)
    BY <1>1 DEF h
  <2> QED BY <2>1, LenProperties, ElementOfSeq
<1>3. CASE ~Lists(row, p)
  <2>1. new.pane = row.pane /\ new.held = Lacking(h, {p})
    <3>1. new = [row EXCEPT !.held = Lacking(@, {p})]
      BY <1>3 DEF Without
    <3> HIDE DEF new
    <3> QED BY <1>1, <3>1
  <2>2. /\ DOMAIN Lacking(h, {p}) = 1..Len(Lacking(h, {p}))
        /\ \A j \in 1..Len(Lacking(h, {p})) : \E i \in 1..Len(h) : Lacking(h, {p})[j] = h[i]
    <3> HIDE DEF h, R
    <3>1. h \in Seq(R)
      BY <1>1 DEF h
    <3> DEFINE l == Lacking(h, {p})
    <3>2. /\ l \in Seq(R)
          /\ \A j \in 1..Len(l) : \E i \in 1..Len(h) : l[j] = h[i] /\ h[i].id \notin {p}
      BY <3>1, LackingIs
    <3> HIDE DEF l
    <3>3. DOMAIN l = 1..Len(l)
      BY <3>2, LenProperties
    <3> QED BY <3>2, <3>3 DEF l
  <2> DEFINE l == Lacking(h, {p})
  <2> HIDE DEF new, l
  <2>3. PanesIn(new) = ({row.pane} \ {None}) \cup {l[k] : k \in 1..Len(l)}
    BY <2>1, <2>2 DEF PanesIn, l
  <2>4. {l[k] : k \in 1..Len(l)} \subseteq {h[k] : k \in 1..Len(h)}
    BY <2>2 DEF l
  <2> QED BY <1>2, <2>3, <2>4 DEF PanesIn, new
<1>4. CASE Lists(row, p) /\ h # <<>>
  <2>1. new.pane = Head(h) /\ new.held = Tail(h)
    <3>1. new = [row EXCEPT !.pane = Head(h), !.held = Tail(h), !.state = "silent"]
      BY <1>4 DEF Without
    <3> HIDE DEF new
    <3> QED BY <1>1, <3>1
  <2>2. 1 \in 1..Len(h) /\ Head(h) = h[1]
        /\ \A k \in DOMAIN Tail(h) : k + 1 \in 1..Len(h) /\ Tail(h)[k] = h[k + 1]
    <3> HIDE DEF h, R
    <3>1. h \in Seq(R) /\ h # <<>>
      BY <1>1, <1>4 DEF h
    <3> QED BY <3>1
  <2> HIDE DEF new
  <2> QED BY <1>2, <2>1, <2>2 DEF PanesIn, new
<1>5. CASE Lists(row, p) /\ h = <<>>
  <2>1. new.pane = None /\ new.held = <<>>
    <3>1. new = [row EXCEPT !.pane = None, !.state = IF row.start # None THEN "starting" ELSE "stored"]
      BY <1>5 DEF Without
    <3> HIDE DEF new
    <3> QED BY <1>1, <1>5, <3>1
  <2> HIDE DEF new
  <2> QED BY <2>1 DEF PanesIn, new
<1> QED BY <1>3, <1>4, <1>5

(* Row r is stored, for a session of F, and its run and those of whoever   *)
(* runs such a session are P's.                                            *)
Keeps(s, r, F, P) ==
  /\ IsStored(s, r)
  /\ \A k \in 1..Len(s.stored) :
       s.stored[k].id = r => s.stored[k].file \in F /\ s.stored[k].parent \in P
  /\ \A x \in PanesIn(s.rows[r]) : x.file \in F
  /\ \A c \in Row : \A x \in PanesIn(s.rows[c]) : x.file \in F => Parent[x.id] \in P

LEMMA KeepsOn ==
  ASSUME NEW s \in State, NEW t \in State, NEW r \in Row, NEW F, NEW P, Keeps(s, r, F, P),
         t.stored = s.stored, \A c \in Row : PanesIn(t.rows[c]) \subseteq PanesIn(s.rows[c])
  PROVE  Keeps(t, r, F, P)
<1>1. IsStored(t, r)
  BY StoredIf DEF Keeps
<1> QED BY <1>1 DEF Keeps

LEMMA DropKeeps ==
  ASSUME NEW s, Good(s), NEW p \in Registered(s), NEW reason,
         NEW r \in Row, NEW F, NEW P, Keeps(s, r, F, P)
  PROVE  Keeps(Drop(s, p, reason), r, F, P)
<1> DEFINE c == RowOf(s, p)
           t == Drop(s, p, reason)
           new == Without(s.rows[c], p)
<1>1. s \in State /\ s.rows \in [Row -> RowRecord] /\ c \in Row
  BY RowIs, StateIs DEF Good
<1>2. t.rows = [s.rows EXCEPT ![c] = new]
  <2> DEFINE u == SettleWait(s, p)
  <2>1. u = [rows |-> s.rows, stored |-> s.stored, deleted |-> s.deleted, dropped |-> s.dropped,
             waits |-> s.waits \ {p}, prompts |-> s.prompts, inboxes |-> s.inboxes]
    <3>1. s = [rows |-> s.rows, stored |-> s.stored, deleted |-> s.deleted, dropped |-> s.dropped,
               waits |-> s.waits, prompts |-> s.prompts, inboxes |-> s.inboxes]
      BY <1>1, StateIs
    <3> QED BY <3>1 DEF SettleWait
  <2>2. t = [u EXCEPT !.rows[c] = Without(@, p),
                      !.prompts = AfterEnded(@, s.inboxes, c, p, reason, Lists(s.rows[c], p)),
                      !.inboxes = IF Lists(s.rows[c], p) THEN Emptied(@, c) ELSE @]
    <3> HIDE DEF u
    <3> QED BY DEF Drop, u
  <2> HIDE DEF u, c
  <2> QED BY <2>1, <2>2
<1>3. t.stored = s.stored /\ t \in State
  BY DropIs DEF Good
<1> HIDE DEF t, c
<1>4. PanesIn(new) \subseteq PanesIn(s.rows[c])
  BY <1>1, WithoutPanes
<1> HIDE DEF new
<1>5. \A d \in Row : PanesIn(t.rows[d]) \subseteq PanesIn(s.rows[d])
  BY <1>1, <1>2, <1>4
<1>6. Keeps(t, r, F, P)
  BY <1>1, <1>3, <1>5, KeepsOn
<1> QED BY <1>6 DEF t

(* A stored row that comes keeps row r, if it is of no other session and   *)
(* run.                                                                    *)
LEMMA UpsertKeeps ==
  ASSUME NEW s \in State, NEW row \in StoredRow, NEW r \in Row, NEW F, NEW P, Keeps(s, r, F, P),
         row.id = r => row.file \in F /\ row.parent \in P
  PROVE  Keeps(Upsert(s, row), r, F, P)
<1> DEFINE R == StoredRow
           q == s.stored
           t == Upsert(s, row)
           at == StoredAt(s, row.id)
<1>1. t \in State /\ t.rows = s.rows
  BY UpsertIs
<1>2. q \in Seq(R) /\ row \in R /\ Len(q) \in Nat /\ DOMAIN q = 1..Len(q)
  BY StateIs, StoredRows
<1>3. /\ \A k \in 1..Len(t.stored) :
           t.stored[k] = row \/ \E j \in 1..Len(q) : t.stored[k] = q[j]
      /\ \A j \in 1..Len(q) : \E k \in 1..Len(t.stored) : t.stored[k].id = q[j].id
  <2>1. CASE IsStored(s, row.id)
    <3>1. t.stored = [q EXCEPT ![at] = row]
      <4>1. t = [s EXCEPT !.stored = [q EXCEPT ![at] = row]]
        BY <2>1 DEF Upsert
      <4> HIDE DEF t, q
      <4> QED BY <4>1, StateIs
    <3>2. at \in 1..Len(q) /\ q[at].id = row.id
      BY <2>1, StoredAtIs
    <3> HIDE DEF t, at, q, R
    <3>3. Len(t.stored) = Len(q)
      BY <1>2, <3>1, <3>2
    <3> QED BY <1>2, <3>1, <3>2, <3>3
  <2>2. CASE ~IsStored(s, row.id)
    <3>1. t.stored = Append(q, row)
      <4>1. t = [s EXCEPT !.stored = Append(q, row)]
        BY <2>2 DEF Upsert
      <4> HIDE DEF t, q
      <4> QED BY <4>1, StateIs
    <3> HIDE DEF t, at, q, R
    <3>2. /\ Len(t.stored) = Len(q) + 1
          /\ \A k \in 1..Len(q) : t.stored[k] = q[k]
          /\ t.stored[Len(q) + 1] = row
      BY <1>2, <3>1, AppendProperties
    <3> QED BY <1>2, <3>2
  <2> QED BY <2>1, <2>2
<1> HIDE DEF t, at
<1>4. IsStored(t, r)
  <2>1. PICK j \in 1..Len(q) : q[j].id = r
    BY StoredIf DEF Keeps
  <2> QED BY <1>1, <1>3, <2>1, StoredIf
<1>5. \A k \in 1..Len(t.stored) :
        t.stored[k].id = r => t.stored[k].file \in F /\ t.stored[k].parent \in P
  BY <1>3 DEF Keeps
<1>6. Keeps(t, r, F, P)
  BY <1>1, <1>4, <1>5 DEF Keeps
<1> QED BY <1>6 DEF t

(* The row that is stored as a pane ends is row r only for its sessions.   *)
LEMMA PaneEndedKeeps ==
  ASSUME NEW s, Good(s), NEW p \in Registered(s), NEW reason, files \subseteq File,
         NEW r \in Row, NEW F, NEW P, None \in P, Keeps(s, r, F, P)
  PROVE  Keeps(PaneEnded(s, p, reason), r, F, P)
<1> DEFINE x == PaneOf(s, p)
           f == x.file
           c == RowOf(s, p)
           u == Drop(s, p, reason)
           previous == StoredOn(s, f)
           row == StoppedRow(s, previous, f, p, None)
<1>1. c \in Row /\ x \in PanesIn(s.rows[c]) /\ x.id = p /\ p # None
  BY RowIs, FoundIs, NoneAssumption
<1>2. Good(u) /\ Keeps(u, r, F, P)
  BY DropIs, DropKeeps
<1>3. \/ PaneEnded(s, p, reason) = Upsert(u, row) /\ f \in files
      \/ PaneEnded(s, p, reason) = u
  BY <1>1 DEF PaneEnded, StopRow
<1>4. CASE PaneEnded(s, p, reason) = Upsert(u, row) /\ f \in files
  <2>1. previous = None \/ \E k \in 1..Len(s.stored) : previous = s.stored[k] /\ s.stored[k].file = f
    <3> DEFINE I == {k \in 1..Len(s.stored) : s.stored[k].file = f}
               k == IF I # {} THEN Min(I) ELSE 0
    <3>1. previous = IF k = 0 THEN None ELSE s.stored[k]
      BY DEF StoredOn, SelectInSeq
    <3>2. I # {} => k \in I
      <4>1. I \in SUBSET Nat
        OBVIOUS
      <4> HIDE DEF I
      <4> QED BY <4>1, LeastIs
    <3> HIDE DEF previous, f, k
    <3> QED BY <3>1, <3>2 DEF k
  <2>2. row \in StoredRow
    <3>1. f \in File
      BY <1>4
    <3>2. previous \in StoredRow \cup {None}
      BY StoredOnIs DEF Good
    <3> HIDE DEF previous, f
    <3> QED BY <1>1, <3>1, <3>2, StoppedIs
  <2>3. /\ row.id = IF previous # None THEN previous.id ELSE c
        /\ row.file = f
        /\ row.parent = IF Parent[p] # None THEN Parent[p]
                        ELSE IF previous # None THEN previous.parent ELSE None
    <3> HIDE DEF previous, f, c
    <3> QED BY <1>1 DEF StoppedRow, c
  <2>4. ASSUME row.id = r PROVE row.file \in F /\ row.parent \in P
    <3>1. f \in F
      <4>1. CASE previous = None
        <5>1. c = r
          BY <2>3, <2>4, <4>1
        <5> QED BY <1>1, <5>1 DEF Keeps
      <4>2. CASE previous # None
        <5>1. PICK k \in 1..Len(s.stored) : previous = s.stored[k] /\ s.stored[k].file = f
          BY <2>1, <4>2
        <5>2. s.stored[k].id = r
          BY <2>3, <2>4, <4>2, <5>1
        <5> QED BY <5>1, <5>2 DEF Keeps
      <4> QED BY <4>1, <4>2
    <3>2. Parent[p] \in P
      BY <1>1, <3>1 DEF Keeps
    <3>3. previous # None => previous.parent \in P
      <4> HAVE previous # None
      <4>1. PICK k \in 1..Len(s.stored) : previous = s.stored[k]
        BY <2>1
      <4>2. s.stored[k].id = r
        BY <2>3, <2>4, <4>1
      <4> QED BY <4>1, <4>2 DEF Keeps
    <3> QED BY <2>3, <3>1, <3>2, <3>3
  <2> HIDE DEF u, row
  <2> QED BY <1>2, <1>4, <2>2, <2>4, UpsertKeeps DEF Good
<1>5. CASE PaneEnded(s, p, reason) = u
  BY <1>2, <1>5
<1> QED BY <1>3, <1>4, <1>5

LEMMA SilenceKeeps ==
  ASSUME NEW s, Good(s), NEW p, IsLive(s, p),
         NEW r \in Row, NEW F, NEW P, Keeps(s, r, F, P)
  PROVE  Keeps(Silence(s, p), r, F, P)
<1> DEFINE c == RowOf(s, p)
           t == Silence(s, p)
           new == [s.rows[c] EXCEPT !.state = "silent"]
<1>1. s \in State /\ s.rows \in [Row -> RowRecord] /\ c \in Row
  BY LiveIs, StateIs DEF Good
<1>2. t.rows = [s.rows EXCEPT ![c] = new] /\ t.stored = s.stored
  <2> DEFINE u == SettleWait(s, p)
  <2>1. u = [rows |-> s.rows, stored |-> s.stored, deleted |-> s.deleted, dropped |-> s.dropped,
             waits |-> s.waits \ {p}, prompts |-> s.prompts, inboxes |-> s.inboxes]
    <3>1. s = [rows |-> s.rows, stored |-> s.stored, deleted |-> s.deleted, dropped |-> s.dropped,
               waits |-> s.waits, prompts |-> s.prompts, inboxes |-> s.inboxes]
      BY <1>1, StateIs
    <3> QED BY <3>1 DEF SettleWait
  <2>2. t = [u EXCEPT !.rows[c].state = "silent",
                      !.prompts = AfterSilent(@, s.inboxes, c),
                      !.inboxes = Emptied(@, c)]
    <3> HIDE DEF u
    <3> QED BY DEF Silence, u
  <2> HIDE DEF u, c
  <2> QED BY <2>1, <2>2
<1>3. t \in State
  BY SilenceIs DEF Good
<1>4. PanesIn(new) = PanesIn(s.rows[c])
  <2>1. new.pane = s.rows[c].pane /\ new.held = s.rows[c].held
    BY <1>1 DEF RowRecord
  <2> HIDE DEF new, c
  <2> QED BY <2>1 DEF PanesIn
<1> HIDE DEF t, c, new
<1>5. \A d \in Row : PanesIn(t.rows[d]) \subseteq PanesIn(s.rows[d])
  BY <1>1, <1>2, <1>4
<1>6. Keeps(t, r, F, P)
  BY <1>1, <1>2, <1>3, <1>5, KeepsOn
<1> QED BY <1>6 DEF t

LEMMA EndGoneKeeps ==
  ASSUME NEW s, Good(s), NEW p, NEW says, files \subseteq File,
         NEW r \in Row, NEW F, NEW P, None \in P, Keeps(s, r, F, P)
  PROVE  Keeps(EndGone(s, p, says), r, F, P)
BY PaneEndedKeeps DEF EndGone

LEMMA ReapLapsedKeeps ==
  ASSUME NEW s, Good(s), NEW p, NEW says, files \subseteq File,
         NEW r \in Row, NEW F, NEW P, None \in P, Keeps(s, r, F, P)
  PROVE  Keeps(ReapLapsed(s, p, says), r, F, P)
<1> DEFINE f == PaneOf(s, p).file
           d == [s.dropped EXCEPT ![f] = p]
           u == [s EXCEPT !.dropped = d]
           t == ReapLapsed(s, p, says)
<1>1. CASE ~Lapsed(s, p)
  BY <1>1 DEF ReapLapsed
<1>2. CASE Lapsed(s, p)
  <2>1. IsLive(s, p)
    BY <1>2 DEF IsLive, Lapsed
  <2>2. p \in Registered(s) /\ p \in Pane /\ f \in File \cup {None}
    BY <2>1, LiveIs DEF PaneRecord, MaybeFile
  <2>3. \/ t = PaneEnded(s, p, "unsaid") \/ t = Silence(s, p)
        \/ t = Drop(s, p, "unsaid")
        \/ t = Drop(u, p, "unsaid") /\ f # None
    <3>1. t = CASE says[p] = "gone" -> PaneEnded(s, p, "unsaid")
                [] says[p] = "up" -> Silence(s, p)
                [] OTHER -> Drop(IF f = None THEN s ELSE u, p, "unsaid")
      BY <1>2 DEF ReapLapsed
    <3>2. CASE says[p] = "gone"
      BY <3>1, <3>2
    <3>3. CASE says[p] = "up"
      BY <3>1, <3>3
    <3>4. CASE says[p] # "gone" /\ says[p] # "up"
      <4> HIDE DEF f, u, t
      <4> QED BY <3>1, <3>4
    <3> QED BY <3>2, <3>3, <3>4
  <2>4. ASSUME f # None PROVE Good(u) /\ p \in Registered(u) /\ Keeps(u, r, F, P)
    <3>1. s.dropped \in [File -> Pane \cup {None}] /\ s \in State
      BY StateIs DEF Good
    <3>2. d \in [File -> Pane \cup {None}]
      BY <2>2, <2>4, <3>1
    <3> HIDE DEF d
    <3>3. Good(u) /\ u.rows = s.rows
      BY <3>2, DroppedSet
    <3>4. u.stored = s.stored
      BY <3>1, StateIs
    <3> HIDE DEF u
    <3> QED BY <2>2, <3>1, <3>3, <3>4, KeepsOn DEF Good, Registered
  <2> SUFFICES Keeps(t, r, F, P)
    OBVIOUS
  <2> HIDE DEF f, u, t
  <2> QED BY <2>1, <2>2, <2>3, <2>4, PaneEndedKeeps, SilenceKeeps, DropKeeps
<1> QED BY <1>1, <1>2

LEMMA EndAllGoneKeeps ==
  ASSUME NEW s, Good(s), NEW order, Len(order) \in Nat, NEW says, files \subseteq File,
         NEW r \in Row, NEW F, NEW P, None \in P, Keeps(s, r, F, P)
  PROVE  Keeps(EndAllGone(s, order, says), r, F, P)
<1> DEFINE n == Len(order)
           A == {t \in State : Good(t) /\ Keeps(t, r, F, P)}
           after[k \in 0..n] == IF k = 0 THEN s ELSE EndGone(after[k - 1], order[k], says)
           G == [k \in 1..n |-> [t \in A |-> EndGone(t, order[k], says)]]
<1>1. \A t : t \in A <=> Good(t) /\ Keeps(t, r, F, P)
  BY DEF Good
<1> HIDE DEF A, n
<1>2. \A k \in 1..n, t \in A : EndGone(t, order[k], says) \in A
  BY <1>1, EndGoneIs, EndGoneKeeps
<1>3. n \in Nat /\ s \in A /\ G \in [1..n -> [A -> A]]
  BY <1>1, <1>2 DEF n
<1>4. PICK g \in [0..n -> A] : g[0] = s /\ \A k \in 1..n : g[k] = G[k][g[k - 1]]
  <2>1. \E g \in [0..n -> A] : Builds(g, n, s, G)
    <3> HIDE DEF G
    <3> QED BY <1>3, Recursion
  <2> QED BY <2>1 DEF Builds
<1>5. g = [k \in 0..n |-> IF k = 0 THEN s ELSE EndGone(g[k - 1], order[k], says)]
  <2>1. ASSUME NEW k \in 0..n, k # 0 PROVE g[k] = EndGone(g[k - 1], order[k], says)
    <3>1. k \in 1..n /\ k - 1 \in 0..n
      BY <1>3, <2>1
    <3> QED BY <1>4, <3>1
  <2> QED BY <1>4, <2>1
<1>6. after = [k \in 0..n |-> IF k = 0 THEN s ELSE EndGone(after[k - 1], order[k], says)]
  BY <1>5
<1> DEFINE S == {k \in 0..n : after[k] \in A}
<1> HIDE DEF after
<1>7. 0 \in S
  BY <1>3, <1>6
<1>8. ASSUME NEW k \in 0..(n - 1), k \in S PROVE k + 1 \in S
  <2>1. k + 1 \in 0..n /\ k + 1 \in 1..n /\ k + 1 # 0 /\ (k + 1) - 1 = k
    BY <1>3
  <2>2. after[k + 1] = EndGone(after[k], order[k + 1], says)
    BY <1>6, <2>1
  <2> QED BY <1>2, <1>8, <2>1, <2>2
<1>9. after[n] \in A
  <2>1. n \in 0..n
    BY <1>3
  <2>2. 0..n \subseteq S
    <3> HIDE DEF S
    <3> QED BY <1>3, <1>7, <1>8, UpTo
  <2> QED BY <2>1, <2>2
<1>10. EndAllGone(s, order, says) = after[n]
  BY DEF EndAllGone, after, n
<1> QED BY <1>1, <1>9, <1>10

LEMMA ReapAllLapsedKeeps ==
  ASSUME NEW s, Good(s), NEW order, Len(order) \in Nat, NEW says, files \subseteq File,
         NEW r \in Row, NEW F, NEW P, None \in P, Keeps(s, r, F, P)
  PROVE  Keeps(ReapAllLapsed(s, order, says), r, F, P)
<1> DEFINE n == Len(order)
           A == {t \in State : Good(t) /\ Keeps(t, r, F, P)}
           after[k \in 0..n] == IF k = 0 THEN s ELSE ReapLapsed(after[k - 1], order[k], says)
           G == [k \in 1..n |-> [t \in A |-> ReapLapsed(t, order[k], says)]]
<1>1. \A t : t \in A <=> Good(t) /\ Keeps(t, r, F, P)
  BY DEF Good
<1> HIDE DEF A, n
<1>2. \A k \in 1..n, t \in A : ReapLapsed(t, order[k], says) \in A
  BY <1>1, ReapLapsedIs, ReapLapsedKeeps
<1>3. n \in Nat /\ s \in A /\ G \in [1..n -> [A -> A]]
  BY <1>1, <1>2 DEF n
<1>4. PICK g \in [0..n -> A] : g[0] = s /\ \A k \in 1..n : g[k] = G[k][g[k - 1]]
  <2>1. \E g \in [0..n -> A] : Builds(g, n, s, G)
    <3> HIDE DEF G
    <3> QED BY <1>3, Recursion
  <2> QED BY <2>1 DEF Builds
<1>5. g = [k \in 0..n |-> IF k = 0 THEN s ELSE ReapLapsed(g[k - 1], order[k], says)]
  <2>1. ASSUME NEW k \in 0..n, k # 0 PROVE g[k] = ReapLapsed(g[k - 1], order[k], says)
    <3>1. k \in 1..n /\ k - 1 \in 0..n
      BY <1>3, <2>1
    <3> QED BY <1>4, <3>1
  <2> QED BY <1>4, <2>1
<1>6. after = [k \in 0..n |-> IF k = 0 THEN s ELSE ReapLapsed(after[k - 1], order[k], says)]
  BY <1>5
<1> DEFINE S == {k \in 0..n : after[k] \in A}
<1> HIDE DEF after
<1>7. 0 \in S
  BY <1>3, <1>6
<1>8. ASSUME NEW k \in 0..(n - 1), k \in S PROVE k + 1 \in S
  <2>1. k + 1 \in 0..n /\ k + 1 \in 1..n /\ k + 1 # 0 /\ (k + 1) - 1 = k
    BY <1>3
  <2>2. after[k + 1] = ReapLapsed(after[k], order[k + 1], says)
    BY <1>6, <2>1
  <2> QED BY <1>2, <1>8, <2>1, <2>2
<1>9. after[n] \in A
  <2>1. n \in 0..n
    BY <1>3
  <2>2. 0..n \subseteq S
    <3> HIDE DEF S
    <3> QED BY <1>3, <1>7, <1>8, UpTo
  <2> QED BY <2>1, <2>2
<1>10. ReapAllLapsed(s, order, says) = after[n]
  BY DEF ReapAllLapsed, after, n
<1> QED BY <1>1, <1>9, <1>10

LEMMA ReapKeeps ==
  ASSUME NEW s, Good(s), NEW order, Len(order) \in Nat, NEW says, NEW due, NEW over,
         files \subseteq File, NEW r \in Row, NEW F, NEW P, None \in P, Keeps(s, r, F, P)
  PROVE  Keeps(Reap(s, order, says, due, over), r, F, P)
<1> DEFINE u == ExpireStarts(s, says, due)
           v == ExpireDeleted(u, says, over)
           w == EndAllGone(v, order, says)
           t == ReapAllLapsed(w, order, says)
<1>1. Good(u) /\ Keeps(u, r, F, P)
  <2>1. Good(u) /\ u.stored = s.stored
    BY ExpireStartsIs
  <2> DEFINE Over == {q \in Row : /\ s.rows[q].start # None
                                  /\ \/ q \in due
                                     \/ /\ s.rows[q].start.pane # None
                                        /\ says[s.rows[q].start.pane] = "gone"}
  <2>2. u = WithoutStarts(s, Over)
    BY DEF ExpireStarts, WithoutStarts
  <2>3. \A q \in Row : u.rows[q].pane = s.rows[q].pane /\ u.rows[q].held = s.rows[q].held
    <3>1. GoodBut(s, {})
      BY GoodIs
    <3> HIDE DEF Over, u
    <3> QED BY <2>2, <3>1, StartsEndIs
  <2> HIDE DEF u
  <2>4. \A q \in Row : PanesIn(u.rows[q]) = PanesIn(s.rows[q])
    BY <2>3 DEF PanesIn
  <2> QED BY <2>1, <2>4, KeepsOn DEF Good
<1> HIDE DEF u
<1>2. Good(v) /\ Keeps(v, r, F, P)
  <2>1. Good(v)
    BY <1>1, ExpireDeletedIs
  <2>2. v.rows = u.rows /\ v.stored = u.stored
    <3>1. \A d : [u EXCEPT !.deleted = d].rows = u.rows /\ [u EXCEPT !.deleted = d].stored = u.stored
      BY <1>1, StateIs DEF Good
    <3> QED BY <3>1 DEF ExpireDeleted
  <2> HIDE DEF v
  <2> QED BY <1>1, <2>1, <2>2, KeepsOn DEF Good
<1> HIDE DEF v
<1>3. Good(w) /\ Keeps(w, r, F, P)
  BY <1>2, EndAllGoneIs, EndAllGoneKeeps
<1> HIDE DEF w
<1>4. Keeps(t, r, F, P)
  BY <1>3, ReapAllLapsedKeeps
<1>5. Reap(s, order, says, due, over) = t
  BY DEF Reap, u, v, w
<1> QED BY <1>4, <1>5

(* A row of runs that are up stays stored. *)
LEMMA OrphansKeep ==
  ASSUME NEW s, Good(s), NEW says, NEW r \in Row, NEW F, NEW P, Keeps(s, r, F, P),
         \A g \in Pane : g \in P => says[g] # "gone"
  PROVE  IsStored(RemoveOrphanedRuns(s, says), r)
<1> DEFINE R == StoredRow
           q == s.stored
           ids == RunsOf(s, {p \in Pane \ Registered(s) : says[p] = "gone"})
           t == [s EXCEPT !.stored = Lacking(@, ids)]
<1>1. s \in State /\ q \in Seq(R)
  BY StateIs DEF Good
<1>2. r \notin ids
  <2>1. DOMAIN s.stored = 1..Len(s.stored)
    BY <1>1, StoredRows
  <2> QED BY <2>1 DEF RunsOf, Keeps
<1> HIDE DEF ids
<1>3. t \in State /\ t.stored = Lacking(q, ids)
  <2>1. t \in State
    BY <1>1, UnstoreIs
  <2>2. t.stored = Lacking(q, ids)
    BY <1>1, StateIs
  <2> QED BY <2>1, <2>2
<1>4. \E j \in 1..Len(Lacking(q, ids)) : Lacking(q, ids)[j].id = r
  <2>1. PICK i \in 1..Len(q) : q[i].id = r
    BY <1>1, StoredIf DEF Keeps
  <2> DEFINE l == Lacking(q, ids)
  <2>2. \A k \in 1..Len(q) : q[k].id \notin ids => \E j \in 1..Len(l) : l[j] = q[k]
    <3> HIDE DEF q, R
    <3> QED BY <1>1, LackingIs
  <2>3. PICK j \in 1..Len(l) : l[j] = q[i]
    BY <1>2, <2>1, <2>2
  <2>4. l[j].id = r
    BY <2>1, <2>3
  <2> HIDE DEF l
  <2> QED BY <2>4 DEF l
<1> HIDE DEF q
<1>5. RemoveOrphanedRuns(s, says) = t
  BY DEF RemoveOrphanedRuns, ids
<1> HIDE DEF t
<1> QED BY <1>3, <1>4, <1>5, StoredIf

(* The sessions row r is of: those it is stored for, and its panes'.       *)
Sessions(r) ==
  {stored[k].file : k \in {k \in DOMAIN stored : stored[k].id = r}}
    \cup {x.file : x \in PanesIn(rows[r])}

(* Row r is stored of no run but of orchestrators that are up, and no      *)
(* other run is on its sessions.                                           *)
RunsUp(r) ==
  LET up == {None} \cup {p \in Pane : life[p] = "up"} IN
  /\ \A k \in DOMAIN stored : stored[k].id = r => stored[k].parent \in up
  /\ \A c \in Row : \A x \in PanesIn(rows[c]) : x.file \in Sessions(r) => Parent[x.id] \in up

LEMMA ListRuns ==
  ASSUME IInv, List, NEW r \in Row, IsStored(Now, r), RunsUp(r)
  PROVE  IsStored(Now, r)'
<1> DEFINE P == {None} \cup {p \in Pane : life[p] = "up"}
           F == Sessions(r)
<1>1. Good(Now) /\ Now \in State /\ Now.rows = rows /\ Now.stored = stored /\ files \subseteq File
  BY NowIs DEF IInv, EnvRight
<1>2. DOMAIN stored = 1..Len(stored)
  BY <1>1, StoredRows
<1>3. Keeps(Now, r, F, P)
  <2>1. \A k \in 1..Len(stored) : stored[k].id = r => stored[k].file \in F /\ stored[k].parent \in P
    BY <1>2 DEF RunsUp, Sessions
  <2>2. \A x \in PanesIn(rows[r]) : x.file \in F
    BY DEF Sessions
  <2>3. \A c \in Row : \A x \in PanesIn(rows[c]) : x.file \in F => Parent[x.id] \in P
    BY DEF RunsUp
  <2> QED BY <1>1, <2>1, <2>2, <2>3 DEF Keeps
<1>4. PICK says \in TmuxAnswers, order \in SetToSeqs(Pane), due \in Due, over \in OverDeleted :
        Becomes(RemoveOrphanedRuns(Reap(Now, order, says, due, over), says))
  BY DEF List
<1>5. \A g \in Pane : g \in P => says[g] # "gone"
  BY NoneAssumption DEF TmuxAnswers, TmuxTruth
<1> DEFINE s == Reap(Now, order, says, due, over)
           t == RemoveOrphanedRuns(s, says)
<1> HIDE DEF P, F
<1>6. Good(s) /\ Keeps(s, r, F, P)
  <2>1. None \in P
    BY DEF P
  <2> QED BY <1>1, <1>3, <2>1, OrderIs, ReapIs, ReapKeeps
<1> HIDE DEF s
<1>7. Good(t) /\ IsStored(t, r)
  BY <1>5, <1>6, OrphansIs, OrphansKeep
<1>8. Becomes(t)
  BY <1>4 DEF s
<1> HIDE DEF t
<1>9. Now' = t
  BY <1>7, <1>8, BecomesIs
<1> QED BY <1>7, <1>9

(* The rows of runs go with their orchestrator's, and not before: a row's  *)
(* delete leaves no run of its pane, listed or stored, when none shares    *)
(* its row with another pane; and while a run's orchestrator is up, and no *)
(* other run is on its sessions, no listing lets go of its stored row.     *)
(* Both hold for any panes, rows and sessions, with a tmux that cannot     *)
(* say, and for the row of a run whose session a pane that is no run opens *)
(* since, which keeps the orchestrator it was stored with.                 *)
THEOREM RunsGoTogether ==
  RSpec => [][\A r \in Row, p \in Pane : /\ OwnRows(Now, p) => RunsDeleted(r, p)
                                         /\ RunsUp(r) => RunsListed(r, p)]_vars
<1>1. ASSUME IInv, NEW r \in Row, NEW p \in Pane, OwnRows(Now, p)
      PROVE  RunsDeleted(r, p)
  <2> SUFFICES ASSUME Addressed(Now, r) = p, Delete(r)
               PROVE  /\ \A q \in Registered(Now)' : Parent[q] # p
                      /\ \A k \in DOMAIN stored' : stored'[k].parent # p
    BY DEF RunsDeleted
  <2> DEFINE t == DeleteInstance(Now, r)
  <2>1. Good(Now)
    BY <1>1 DEF IInv
  <2>2. Good(t) /\ Becomes(t)
    BY <2>1, DeleteInstanceIs DEF Delete
  <2>3. /\ \A q \in Registered(t) : Parent[q] # p
        /\ \A k \in DOMAIN t.stored : t.stored[k].parent # p
    BY <1>1, <2>1, DeleteInstanceRuns
  <2> HIDE DEF t
  <2>4. Now' = t /\ stored' = t.stored
    BY <2>2, BecomesIs DEF Becomes
  <2> QED BY <2>3, <2>4
<1>2. ASSUME IInv, NEW r \in Row, NEW p \in Pane, RunsUp(r)
      PROVE  RunsListed(r, p)
  <2> SUFFICES ASSUME NEW k \in DOMAIN stored, stored[k].id = r, List
               PROVE  IsStored(Now, r)'
    BY DEF RunsListed
  <2>1. Now \in State /\ Now.stored = stored
    BY <1>2, NowIs DEF IInv
  <2>2. IsStored(Now, r)
    BY <2>1, StoredRows, StoredIf
  <2> QED BY <1>2, <2>2, ListRuns
<1> DEFINE Go == \A r \in Row, p \in Pane : /\ OwnRows(Now, p) => RunsDeleted(r, p)
                                            /\ RunsUp(r) => RunsListed(r, p)
<1>3. IInv => Go
  BY <1>1, <1>2
<1>4. IInv /\ [RNext]_vars => [Go]_vars
  BY <1>3
<1> QED BY <1>4, RegistryInvariant, PTL DEF RSpec
====
