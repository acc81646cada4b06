----------------------------- MODULE ViewOrder ------------------------------
(***************************************************************************)
(* Ordering rows by hand in agent view (shift+↑ and shift+↓ in a band that *)
(* is ordered so): what the view shows at once, the writes that store it   *)
(* (ext/agent-view/agent-view.ts), the row's own fields in the daemon      *)
(* (daemon/supervisor.ts) and the rows the view builds from the daemon's   *)
(* list (daemon/rows.ts).                                                  *)
(*                                                                         *)
(* One band of rows 1..N, numbered in the order they were created: a row   *)
(* with no order of its own comes after the ordered ones, oldest first.    *)
(* No write fails (a failed one shows the daemon's order again) and no     *)
(* other view orders the same band.                                        *)
(***************************************************************************)
EXTENDS Naturals, FiniteSets, Sequences

CONSTANTS N,          \* the rows there can be
          Old,        \* those there to begin with
          PressBound, \* bounds the presses waiting to be stored
          PressTotal  \* bounds the presses

VARIABLES there, order, \* the daemon's rows, and their sortOrder
          rows, known,  \* the same as the view's last list had them
          pending,      \* pendingOrder
          presses,      \* the chain of `ordering`: the first one's writes are on their way
          pressed,
          list,         \* the list being loaded: "none", "asked", or what the daemon answered
          again         \* refreshAgain

vars == <<there, order, rows, known, pending, presses, pressed, list, again>>

Row == 1..N
Unordered == 0               \* no order: sortOrder is counted from 1 here
NoList == [at |-> "none", there |-> {}, order |-> [r \in Row |-> Unordered]]

\* byCreation: the order given, else its creation's.
Key(o, r) == IF o[r] = Unordered THEN N + r ELSE o[r]
Shown == [r \in Row |-> IF pending[r] = Unordered THEN known[r] ELSE pending[r]]
Place(o, band, r) == Cardinality({x \in band : Key(o, x) < Key(o, r)}) + 1

Init == /\ there = Old /\ order = [r \in Row |-> Unordered]
        /\ rows = Old /\ known = order
        /\ pending = [r \in Row |-> Unordered]
        /\ presses = <<>> /\ pressed = 0 /\ list = NoList /\ again = FALSE

\* A session is started, or deleted, elsewhere.
Arrives(r) == /\ r \notin there \cup Old /\ there' = there \cup {r}
              /\ order' = [order EXCEPT ![r] = Unordered]
              /\ UNCHANGED <<rows, known, pending, presses, pressed, list, again>>
Goes(r) == /\ r \in there /\ r \in Old /\ there' = there \ {r}
           /\ UNCHANGED <<order, rows, known, pending, presses, pressed, list, again>>

(***************************************************************************)
(* shift+↑ on a row swaps it with the one shown above it, and numbers the  *)
(* whole band, the rows the composer's filter hides too.                   *)
(***************************************************************************)
Neighbours(a, b, hidden) == /\ {a, b} \subseteq rows \ hidden
                            /\ Place(Shown, rows \ hidden, b) = Place(Shown, rows \ hidden, a) + 1
Numbered(a, b, hidden) ==
    LET place(r) == Place(Shown, rows, r)
    IN  [r \in rows |-> IF r = a THEN place(b) ELSE IF r = b THEN place(a) ELSE place(r)]

Press(a, b, hidden) ==
    /\ Neighbours(a, b, hidden) /\ Len(presses) < PressBound /\ pressed < PressTotal
    /\ LET to == Numbered(a, b, hidden)
       IN  /\ pending' = [r \in Row |-> IF r \in DOMAIN to THEN to[r] ELSE pending[r]]
           /\ presses' = Append(presses, [to |-> pending', left |-> DOMAIN to, waits |-> "writes"])
    /\ pressed' = pressed + 1
    /\ UNCHANGED <<there, order, rows, known, list, again>>

\* A press's writes wait until the press before it is done.
Writing == {i \in DOMAIN presses : i = 1}

\* One setMeta lands; one for a row deleted meanwhile changes nothing.
Stores(i, r) ==
    /\ i \in Writing /\ r \in presses[i].left
    /\ presses' = [presses EXCEPT ![i].left = @ \ {r}]
    /\ order' = IF r \in there THEN [order EXCEPT ![r] = presses[i].to[r]] ELSE order
    /\ UNCHANGED <<there, rows, known, pending, pressed, list, again>>

\* With all of them stored the view lists the rows again: a list in flight may be older.
Stored(i) ==
    /\ i \in DOMAIN presses /\ presses[i].left = {} /\ presses[i].waits = "writes"
    /\ IF list.at = "none"
       THEN /\ list' = [NoList EXCEPT !.at = "asked"] /\ UNCHANGED again
            /\ presses' = [presses EXCEPT ![i].waits = "list"]
       ELSE /\ again' = TRUE /\ UNCHANGED list
            /\ presses' = [presses EXCEPT ![i].waits = "again"]
    /\ UNCHANGED <<there, order, rows, known, pending, pressed>>

\* The poll, or anything else the view did.
Refreshes ==
    /\ IF list.at = "none" THEN list' = [NoList EXCEPT !.at = "asked"] /\ UNCHANGED again
                           ELSE again' = TRUE /\ ~again /\ UNCHANGED list
    /\ UNCHANGED <<there, order, rows, known, pending, presses, pressed>>
Answers ==
    /\ list.at = "asked" /\ list' = [at |-> "answered", there |-> there, order |-> order]
    /\ UNCHANGED <<there, order, rows, known, pending, presses, pressed, again>>

(* A mutant: the first press whose list is in gives the daemon's order. *)
AnyDone(left) == TRUE
\* The press's list is in, and no later press has been made.
LastDone(left) == left = <<>>

Listed(i) == i \in DOMAIN presses /\ presses[i].waits = "list"
\* load: the rows as listed; a press that waited for this list is done.
Lands ==
    /\ list.at = "answered"
    /\ rows' = list.there /\ known' = list.order
    /\ list' = IF again THEN [NoList EXCEPT !.at = "asked"] ELSE NoList
    /\ again' = FALSE
    /\ LET left == SelectSeq(presses, LAMBDA p : p.waits # "list")
           done == Len(left) < Len(presses)
       IN  /\ presses' = [i \in DOMAIN left |->
                             IF left[i].waits = "again" THEN [left[i] EXCEPT !.waits = "list"] ELSE left[i]]
           /\ pending' = IF done /\ LastDone(left) THEN [r \in Row |-> Unordered] ELSE pending
    /\ UNCHANGED <<there, order, pressed>>

Next == \/ \E r \in Row : Arrives(r) \/ Goes(r)
        \/ \E a, b \in Row, hidden \in SUBSET Row : Press(a, b, hidden)
        \/ \E i \in 1..PressBound : Stored(i) \/ \E r \in Row : Stores(i, r)
        \/ Refreshes \/ Answers \/ Lands

Spec == Init /\ [][Next]_vars

(***************************************************************************)
(* Properties                                                              *)
(***************************************************************************)
Above(a, b) == Key(Shown, a) < Key(Shown, b)

(* The order on screen changes by the user's presses only: no list that was asked for before a
   press, no list between two presses' writes and no write that lands late moves a row back, as
   it would be seen to jump to its old place and on again. *)
OnlyPressesMove ==
    [][pressed' = pressed =>
        \A a, b \in rows \cap rows' : Above(a, b) = Above(a, b)']_vars

(* A press swaps two rows and no other: the rows a filter hides keep their places among all. *)
HiddenKeepPlace ==
    [][pressed' # pressed =>
        Cardinality({r \in rows : Place(Shown, rows, r) # Place(Shown, rows, r)'}) = 2]_vars
==============================================================================
