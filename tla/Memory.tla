---- MODULE Memory ----
(***************************************************************************)
(* A project's memories (ext/memory), which every pane in the project      *)
(* saves, deletes and lists: a file each, and an index of them made anew   *)
(* from the files after each change (store.ts).  No lock is taken: a pane  *)
(* is at one file at a time, and others' steps come between.  Whether a    *)
(* session keeps memories is settled as it starts (index.ts).              *)
(***************************************************************************)
EXTENDS Naturals, TLAPS

CONSTANTS
  None,
  Unreadable,    \* what is listed of a file that cannot be read
  Pane,
  Name,
  Fact,          \* what a memory may say
  CallBound,     \* how many saves, deletes, starts and toggles there are
  DieBound       \* how many panes end in the middle of a change

VARIABLES
  enabled,       \* the preference
  files,         \* what each memory's file says, None without one
  index,         \* what the index says of each, None where it lists none
  at,            \* where each pane is in a change
  name,          \* what it changes
  todo,          \* the files it has still to list
  found,         \* what it listed
  on,            \* whether its session keeps memories
  alone,         \* no other pane has been at a change since its own began
  calls, deaths

vars == <<enabled, files, index, at, name, todo, found, on, alone, calls, deaths>>

paneVars == <<at, name, todo, found>>

Empty == [n \in Name |-> None]

Line == Fact \cup {None, Unreadable}

(* The types of the files, the index and the panes.                        *)
TypeOK ==
  /\ enabled \in BOOLEAN
  /\ files \in [Name -> Fact \cup {None}] /\ index \in [Name -> Line]
  /\ at \in [Pane -> {"rest", "file", "list", "read"}] /\ name \in [Pane -> Name]
  /\ todo \in [Pane -> SUBSET Name] /\ found \in [Pane -> [Name -> Line]]
  /\ {on, alone} \subseteq [Pane -> BOOLEAN]

Init ==
  /\ enabled = TRUE /\ files = Empty /\ index = Empty
  /\ at = [p \in Pane |-> "rest"] /\ name = [p \in Pane |-> CHOOSE n \in Name : TRUE]
  /\ todo = [p \in Pane |-> {}] /\ found = [p \in Pane |-> Empty]
  /\ on = [p \in Pane |-> FALSE] /\ alone = [p \in Pane |-> TRUE]
  /\ calls = 0 /\ deaths = 0

Call == calls < CallBound /\ calls' = calls + 1

Listed(lines) == {n \in Name : lines[n] # None}

(* A session starts in p, or is reloaded. *)
SessionStarts(p) ==
  /\ Call /\ at[p] = "rest"
  /\ on' = [on EXCEPT ![p] = enabled]
  /\ UNCHANGED <<enabled, files, index, alone, deaths>> /\ UNCHANGED paneVars

(* The user turns memory on or off, from the next session on: the other    *)
(* way than it was as the menu opened, as another pane may have turned it. *)
Toggles ==
  /\ Call /\ enabled' \in BOOLEAN
  /\ UNCHANGED <<files, index, on, alone, deaths>> /\ UNCHANGED paneVars

---------------------------------------------------------------------------
(* Changes *)

(* What p does to a memory begins, among the changes others are at. *)
Begins(p, n, step) ==
  /\ Call /\ at[p] = "rest"
  /\ at' = [at EXCEPT ![p] = step] /\ name' = [name EXCEPT ![p] = n]
  /\ alone' = [q \in Pane |->
                 IF q = p THEN \A r \in Pane : at[r] = "rest" ELSE alone[q] /\ at[q] = "rest"]

(* A memory's file is written whole, and the index is to follow. *)
Saves(p, n, fact) ==
  /\ on[p] /\ Begins(p, n, "list")
  /\ files' = [files EXCEPT ![n] = fact]
  /\ UNCHANGED <<enabled, index, todo, found, on, deaths>>

(* A file to delete is there: for the tool, and the menu, on or off. *)
Deletes(p, n) ==
  /\ files[n] # None /\ Begins(p, n, "file")
  /\ UNCHANGED <<enabled, files, index, todo, found, on, deaths>>

(* It is removed, which fails on one that is gone by now. *)
Removes(p) ==
  /\ at[p] = "file"
  /\ at' = [at EXCEPT ![p] = IF files[name[p]] = None THEN "rest" ELSE "list"]
  /\ files' = [files EXCEPT ![name[p]] = None]
  /\ UNCHANGED <<enabled, index, name, todo, found, on, alone, calls, deaths>>

Lists(p) ==
  /\ at[p] = "list" /\ at' = [at EXCEPT ![p] = "read"]
  /\ todo' = [todo EXCEPT ![p] = Listed(files)] /\ found' = [found EXCEPT ![p] = Empty]
  /\ UNCHANGED <<enabled, files, index, name, on, alone, calls, deaths>>

(* A file listed is read, one that is gone since as one that cannot be. *)
Reads(p, n) ==
  /\ n \in todo[p] /\ todo' = [todo EXCEPT ![p] = @ \ {n}]
  /\ found' = [found EXCEPT ![p][n] = IF files[n] = None THEN Unreadable ELSE files[n]]
  /\ UNCHANGED <<enabled, files, index, at, name, on, alone, calls, deaths>>

(* The index is replaced by what was found. *)
Writes(p) ==
  /\ at[p] = "read" /\ todo[p] = {}
  /\ index' = found[p] /\ at' = [at EXCEPT ![p] = "rest"]
  /\ UNCHANGED <<enabled, files, name, todo, found, on, alone, calls, deaths>>

(* A pane ends, in the middle of a change. *)
Dies(p) ==
  /\ at[p] # "rest" /\ deaths < DieBound
  /\ at' = [at EXCEPT ![p] = "rest"] /\ todo' = [todo EXCEPT ![p] = {}]
  /\ on' = [on EXCEPT ![p] = FALSE] /\ deaths' = deaths + 1
  /\ UNCHANGED <<enabled, files, index, name, found, alone, calls>>

Next ==
  \/ Toggles
  \/ \E p \in Pane :
       \/ SessionStarts(p) \/ Removes(p) \/ Lists(p) \/ Writes(p) \/ Dies(p)
       \/ \E n \in Name : Deletes(p, n) \/ Reads(p, n) \/ \E fact \in Fact : Saves(p, n, fact)

Spec == Init /\ [][Next]_vars

---------------------------------------------------------------------------
(* Properties *)

(* A change no other overlaps leaves the index in step with the files,     *)
(* whatever panes that overlapped or died in the middle of one left before *)
(* it (store.ts, rebuildIndex).                                            *)
HealsAlone ==
  [][ \A p \in Pane : Writes(p) /\ alone[p] => index' = files' ]_vars

(* The index is rebuilt from the files, "so concurrent writers can't leave *)
(* it out of step" (store.ts, rebuildIndex): with no change under way, it  *)
(* lists each memory there is, as it is.                                   *)
IndexInStep == (\A p \in Pane : at[p] = "rest") => index = files

---------------------------------------------------------------------------
(* Proofs *)

(* The types HealsAlone needs: of the files and of what panes list.        *)
FilesOK ==
  /\ files \in [Name -> Fact \cup {None}]
  /\ at \in [Pane -> {"rest", "file", "list", "read"}]
  /\ todo \in [Pane -> SUBSET Name] /\ found \in [Pane -> [Name -> Line]]
  /\ alone \in [Pane -> BOOLEAN]

(* A change that is alone has none beside it; only a pane that is reading  *)
(* has files to read; and, alone, it has those left, and the others as     *)
(* they are.                                                               *)
AloneTrue ==
  \A p, q \in Pane : alone[p] /\ at[p] # "rest" /\ q # p => at[q] = "rest"

ReadsTodo == \A p \in Pane : todo[p] # {} => at[p] = "read"

FoundTrue ==
  \A p \in Pane : alone[p] /\ at[p] = "read" =>
    \A n \in Name : IF n \in todo[p] THEN files[n] # None ELSE found[p][n] = files[n]

MemoryInv == FilesOK /\ AloneTrue /\ ReadsTodo /\ FoundTrue

LEMMA MemoryInit == Init => MemoryInv
BY DEF Init, MemoryInv, FilesOK, AloneTrue, ReadsTodo, FoundTrue, Empty, Line

(* A change that begins is the only one that may be alone, and has listed  *)
(* nothing.                                                                *)
LEMMA BeginsKeeps ==
  ASSUME MemoryInv, NEW p \in Pane, NEW n \in Name, NEW step \in {"file", "list"},
         Begins(p, n, step), files' \in [Name -> Fact \cup {None}],
         UNCHANGED <<todo, found>>
  PROVE  MemoryInv'
<1> USE DEF MemoryInv, FilesOK
<1>1. FilesOK'
  BY DEF Begins
<1>2. \A q \in Pane : alone'[q] /\ at'[q] # "rest" => q = p /\ at'[q] = step
  BY DEF Begins
<1>3. AloneTrue'
  BY <1>2 DEF Begins, AloneTrue
<1>4. ReadsTodo'
  BY DEF Begins, ReadsTodo
<1>5. FoundTrue'
  BY <1>2 DEF FoundTrue
<1> QED
  BY <1>1, <1>3, <1>4, <1>5

LEMMA RemovesKeeps == ASSUME MemoryInv, NEW p \in Pane, Removes(p) PROVE MemoryInv'
<1> USE DEF MemoryInv, FilesOK, Removes
<1>1. FilesOK'
  OBVIOUS
<1>2. AloneTrue' /\ ReadsTodo'
  BY DEF AloneTrue, ReadsTodo
<1>3. FoundTrue'
  <2>1. \A q \in Pane : ~(alone'[q] /\ at'[q] = "read")
    BY DEF AloneTrue
  <2> QED
    BY <2>1 DEF FoundTrue
<1> QED
  BY <1>1, <1>2, <1>3

LEMMA ListsKeeps == ASSUME MemoryInv, NEW p \in Pane, Lists(p) PROVE MemoryInv'
<1> USE DEF MemoryInv, FilesOK, Lists
<1>1. FilesOK'
  BY DEF Empty, Line, Listed
<1>2. AloneTrue' /\ ReadsTodo'
  BY DEF AloneTrue, ReadsTodo
<1>3. FoundTrue'
  BY DEF FoundTrue, Empty, Listed
<1> QED
  BY <1>1, <1>2, <1>3

LEMMA ReadsKeeps ==
  ASSUME MemoryInv, NEW p \in Pane, NEW n \in Name, Reads(p, n) PROVE MemoryInv'
<1> USE DEF MemoryInv, FilesOK, Reads
<1>1. FilesOK'
  BY DEF Line
<1>2. AloneTrue' /\ ReadsTodo'
  BY DEF AloneTrue, ReadsTodo
<1>3. FoundTrue'
  <2> SUFFICES ASSUME NEW q \in Pane, alone[q], at[q] = "read", NEW m \in Name
               PROVE  IF m \in todo'[q] THEN files[m] # None ELSE found'[q][m] = files[m]
    BY DEF FoundTrue
  <2>1. IF m \in todo[q] THEN files[m] # None ELSE found[q][m] = files[m]
    BY DEF FoundTrue
  <2>2. CASE q = p /\ m = n
    BY <2>1, <2>2
  <2>3. CASE q # p \/ m # n
    BY <2>1, <2>3
  <2> QED
    BY <2>2, <2>3
<1> QED
  BY <1>1, <1>2, <1>3

(* A change that is over, or died, leaves no trace of what it listed.      *)
LEMMA EndsKeeps == ASSUME MemoryInv, NEW p \in Pane, Writes(p) \/ Dies(p) PROVE MemoryInv'
<1> USE DEF MemoryInv, FilesOK
<1>1. at' = [at EXCEPT ![p] = "rest"] /\ todo'[p] = {} /\ UNCHANGED <<files, found, alone>>
  BY DEF Writes, Dies
<1>2. todo' \in [Pane -> SUBSET Name] /\ \A q \in Pane : q # p => todo'[q] = todo[q]
  BY DEF Writes, Dies
<1>3. FilesOK'
  BY <1>1, <1>2
<1>4. AloneTrue' /\ ReadsTodo'
  BY <1>1, <1>2 DEF AloneTrue, ReadsTodo
<1>5. FoundTrue'
  BY <1>1, <1>2 DEF FoundTrue
<1> QED
  BY <1>3, <1>4, <1>5

LEMMA MemoryNext == MemoryInv /\ [Next]_vars => MemoryInv'
<1> SUFFICES ASSUME MemoryInv, [Next]_vars PROVE MemoryInv'
  OBVIOUS
<1>1. CASE UNCHANGED vars \/ Toggles \/ \E p \in Pane : SessionStarts(p)
  BY <1>1 DEF MemoryInv, FilesOK, AloneTrue, ReadsTodo, FoundTrue, vars, paneVars,
              Toggles, SessionStarts
<1>2. CASE \E p \in Pane, n \in Name : Deletes(p, n) \/ \E fact \in Fact : Saves(p, n, fact)
  <2> PICK p \in Pane, n \in Name : Deletes(p, n) \/ \E fact \in Fact : Saves(p, n, fact)
    BY <1>2
  <2>1. \E step \in {"file", "list"} : Begins(p, n, step)
    BY DEF Deletes, Saves
  <2>2. files' \in [Name -> Fact \cup {None}] /\ UNCHANGED <<todo, found>>
    BY DEF Deletes, Saves, MemoryInv, FilesOK
  <2> QED
    BY <2>1, <2>2, BeginsKeeps
<1>3. CASE \E p \in Pane : Removes(p) \/ Lists(p) \/ Writes(p) \/ Dies(p)
  BY <1>3, RemovesKeeps, ListsKeeps, EndsKeeps
<1>4. CASE \E p \in Pane, n \in Name : Reads(p, n)
  BY <1>4, ReadsKeeps
<1> QED
  BY <1>1, <1>2, <1>3, <1>4 DEF Next

(* Alone, what is found once no file is left to read is what there is.     *)
LEMMA WritesFiles ==
  ASSUME MemoryInv, NEW p \in Pane, Writes(p), alone[p] PROVE index' = files'
<1>1. \A n \in Name : found[p][n] = files[n]
  BY DEF MemoryInv, FoundTrue, Writes
<1>2. found[p] = files
  BY <1>1 DEF MemoryInv, FilesOK
<1> QED
  BY <1>2 DEF Writes

(* For any panes, memories and facts, and whatever changes overlapped or   *)
(* died before: a change no other overlaps writes the index the files ask  *)
(* for (rebuildIndex).                                                     *)
THEOREM AloneHeals == Spec => HealsAlone
<1>1. MemoryInv /\ [Next]_vars
      => [\A p \in Pane : Writes(p) /\ alone[p] => index' = files']_vars
  BY WritesFiles
<1> QED
  BY <1>1, MemoryInit, MemoryNext, PTL DEF Spec, HealsAlone
====
