---------------------------- MODULE ViewComposer ----------------------------
(***************************************************************************)
(* Agent view's composer (ext/agent-view/agent-view.ts) and its paste      *)
(* tokens (ext/_shared/paste-tokens.ts): what is typed and pasted into a   *)
(* draft, the two things that write to it later on their own (an image     *)
(* being read from the clipboard, the editor ctrl+g opened), and what a    *)
(* draft becomes: a session, a `!` command, a view command, a filter of    *)
(* the list, or nothing.                                                   *)
(*                                                                         *)
(* A draft is a sequence of parts: "word" (typed text; it stands for three *)
(* characters, so one alone is too short for a task), "find" (the n: or s: *)
(* a filter starts with), "bang" (the ! of a command), "slash" (a view     *)
(* command), "paste" and "image" (a token), "shown" (what a token held, in *)
(* its place).  A token's part also keeps what was pasted and into which   *)
(* draft: the code keeps neither, the properties compare with them.        *)
(***************************************************************************)
EXTENDS Naturals, FiniteSets, Sequences, SequencesExt

CONSTANTS Text, Image, \* what can be pasted: long texts, and images
          Row, None,   \* the rows the focus can be on
          LenBound,    \* bounds the parts of a draft
          DraftBound,  \* bounds the drafts cleared
          EditBound    \* bounds the editors opened

VARIABLES draft,    \* composerLines and the Input's value
          held,     \* PasteTokens.entries: what each token's number holds
          next,     \* PasteTokens.next
          last,     \* PasteTokens.last, the token a repeated paste expands (0: none)
          version,  \* draftVersion
          pasting,  \* the clipboard being read, with the version it was asked at; or None
          editing,  \* the draft as the open editor has it, or None
          edits,
          mode,     \* "list", "model", "resume", or "closed"
          focus, before, \* selectedKey and beforeFilter
          model, dir, \* dispatchModel and dispatchDir: given by a command, or the view's own
          shown     \* the focus as it was when the filter now typed was begun (None: no filter)

focusVars == <<focus, before, shown>>
pastes == <<held, next, last>>
given == <<model, dir>>
calls == <<pasting, editing, edits, given>>
vars == <<draft, held, next, last, version, pasting, editing, edits, mode, focus, before, model, dir, shown>>

Part(is) == [is |-> is, id |-> 0, of |-> None, born |-> 0]
Token(is, id, of, born) == [is |-> is, id |-> id, of |-> of, born |-> born]
Shown(of) == [is |-> "shown", id |-> 0, of |-> of, born |-> 0]

IsToken(p) == p.is \in {"paste", "image"}
IsFilter(d) == d # <<>> /\ Head(d).is = "find"
IsSlash(d) == d # <<>> /\ Head(d).is = "slash"
IsBang(d) == Len(d) > 1 /\ Head(d).is = "bang"
Composing(d) == d # <<>> /\ ~IsFilter(d)

Nothing == [id |-> 0, kind |-> "none", of |-> None]
Entry(id) == IF \E e \in held : e.id = id THEN CHOOSE e \in held : e.id = id ELSE Nothing
KindOf(is) == IF is = "paste" THEN "text" ELSE "image"

\* PasteTokens.expandText and imagesIn: what the numbers in the draft hold, of their kind.
Expand(d) == [i \in DOMAIN d |-> IF d[i].is = "paste" /\ Entry(d[i].id).kind = "text"
                                 THEN Shown(Entry(d[i].id).of) ELSE d[i]]
ImagesIn(d) == LET found == SelectSeq(d, LAMBDA p : p.is = "image" /\ Entry(p.id).kind = "image")
               IN  [i \in DOMAIN found |-> Entry(found[i].id).of]

TooShort(d) == /\ \A i \in DOMAIN d : d[i].is \notin {"paste", "image", "shown"}
               /\ Len(d) < 2

Init == /\ draft = <<>> /\ held = {} /\ next = 1 /\ last = 0 /\ version = 0
        /\ pasting = None /\ editing = None /\ edits = 0 /\ mode = "list"
        /\ focus \in Row /\ before = None /\ shown = None
        /\ model = FALSE /\ dir = FALSE

Listens == mode = "list" /\ editing = None

(***************************************************************************)
(* The focus while a filter is typed: kept as the filter begins, put back  *)
(* as an edit, or esc, leaves none.  A filter being typed puts the focus   *)
(* on a match of its own.                                                  *)
(***************************************************************************)
AfterEdit(d) ==
    IF IsFilter(d)
    THEN /\ before' = IF IsFilter(draft) THEN before ELSE focus
         /\ shown' = IF IsFilter(draft) THEN shown ELSE focus
         /\ focus' \in Row
    ELSE /\ shown' = None
         /\ IF IsFilter(draft)
            THEN focus' = (IF before = None THEN focus ELSE before) /\ before' = None
            ELSE UNCHANGED <<focus, before>>

\* A key into the Input, or the newline, the completions and the f of ctrl+f.
Types(is) ==
    /\ Listens /\ Len(draft) < LenBound
    /\ is # "word" => draft = <<>>
    /\ draft' = Append(draft, Part(is))
    /\ AfterEdit(draft')
    /\ UNCHANGED <<held, next, last, version, calls, mode>>

\* ctrl+f: the text is a name search, or no longer.
TogglesFind ==
    /\ Listens /\ ~IsSlash(draft)
    /\ draft' = IF IsFilter(draft) THEN Tail(draft) ELSE <<Part("find")>> \o draft
    /\ Len(draft') <= LenBound
    /\ AfterEdit(draft')
    /\ UNCHANGED <<held, next, last, version, calls, mode>>

\* Backspace: a token goes as one unit; what it held stays held.
Deletes ==
    /\ Listens /\ draft # <<>>
    /\ draft' = Front(draft)
    /\ AfterEdit(draft')
    /\ UNCHANGED <<held, next, last, version, calls, mode>>

\* The draft ends with the latest token, and this is what it holds.
Repeats(is, of) == /\ draft # <<>> /\ Last(draft).is = is /\ Last(draft).id = last
                   /\ Entry(last).kind = KindOf(is) /\ Entry(last).of = of
Expanded(of) == /\ draft' = Append(Front(draft), Shown(of))
                /\ last' = 0 /\ UNCHANGED <<held, next>>
Added(is, of, born) ==
    /\ draft' = Append(draft, Token(is, next, of, born))
    /\ held' = held \cup {[id |-> next, kind |-> KindOf(is), of |-> of]}
    /\ last' = next /\ next' = next + 1
Pasted(is, of, born) == \/ Repeats(is, of) /\ Expanded(of)
                        \/ /\ ~Repeats(is, of) /\ Len(draft) < LenBound /\ next <= LenBound
                           /\ Added(is, of, born)

\* A long paste is a token, a short one goes in as typed and is no target of a repeat.
PastesText(t) ==
    /\ Listens /\ Pasted("paste", t, version) /\ AfterEdit(draft')
    /\ UNCHANGED <<version, calls, mode>>
PastesShort ==
    /\ Listens /\ Len(draft) < LenBound
    /\ draft' = Append(draft, Part("word")) /\ last' = 0 /\ AfterEdit(draft')
    /\ UNCHANGED <<held, next, version, calls, mode>>

\* ctrl+v: the clipboard is read while the user goes on; one read at a time.
AsksImage ==
    /\ Listens /\ pasting = None
    /\ pasting' = [version |-> version]
    /\ UNCHANGED <<draft, pastes, version, editing, edits, given, mode, focusVars>>

(* A mutant: the image goes into whatever draft is there. *)
OfAnyDraft(at) == TRUE
OfThisDraft(at) == at = version

\* It lands in the draft it was asked for, in any mode and while the editor is open.
ImageLands(i) ==
    /\ pasting # None /\ mode # "closed"
    /\ \/ OfThisDraft(pasting.version) /\ Pasted("image", i, pasting.version)
       \/ ~OfThisDraft(pasting.version) /\ UNCHANGED <<draft, pastes>>
    /\ pasting' = None
    /\ UNCHANGED <<version, editing, edits, given, mode, focusVars>>
\* No image there, or none that can be read.
NoImage ==
    /\ pasting # None /\ mode # "closed"
    /\ pasting' = None
    /\ UNCHANGED <<draft, pastes, version, editing, edits, given, mode, focusVars>>

\* ctrl+g: the draft, tokens and all, in the user's editor, which owns the terminal.
OpensEditor ==
    /\ Listens /\ edits < EditBound
    /\ editing' = [text |-> draft] /\ edits' = edits + 1
    /\ UNCHANGED <<draft, pastes, version, pasting, given, mode, focusVars>>

Edited(d) == {d, <<>>, d \o <<Part("word")>>, <<Part("word")>>}
             \cup {RemoveAt(d, i) : i \in DOMAIN d}

\* Its exit 0: the composer is what it saved; tokens keep what they hold.
EditorSaves ==
    /\ editing # None
    /\ \E d \in Edited(editing.text) :
          /\ Len(d) <= LenBound /\ draft' = d
          /\ UNCHANGED before
          /\ IF IsFilter(d) THEN shown' = (IF IsFilter(draft) THEN shown ELSE focus)
                            ELSE shown' = None
          /\ UNCHANGED focus
    /\ editing' = None
    /\ UNCHANGED <<pastes, version, pasting, edits, given, mode>>
EditorFails ==
    /\ editing # None /\ editing' = None
    /\ UNCHANGED <<draft, pastes, version, pasting, edits, given, mode, focusVars>>

(***************************************************************************)
(* What clears a draft: its text, its tokens, and the pastes asked for it. *)
(***************************************************************************)
Forgotten == held' = {} /\ next' = 1 /\ last' = 0

ClearsDraft == /\ version < DraftBound
               /\ draft' = <<>> /\ Forgotten /\ version' = version + 1
               /\ shown' = None

\* esc, with something to clear or to call off: the focus the filter hid comes back.
Escapes ==
    /\ Listens /\ (draft # <<>> \/ pasting # None)
    /\ ClearsDraft
    /\ focus' = IF before = None THEN focus ELSE before
    /\ before' = None
    /\ UNCHANGED <<calls, mode>>

\* The first ctrl+c; the second one quits.
CtrlC ==
    /\ Listens /\ draft # <<>>
    /\ ClearsDraft
    /\ UNCHANGED <<calls, mode, focus, before>>

\* handleCommonKey: ↑ and ↓, a page, either end, or the next header.
Moves == /\ Listens /\ \E r \in Row : focus' = r
         /\ UNCHANGED <<draft, pastes, version, calls, mode, before, shown>>

(***************************************************************************)
(* Enter, which waits for an image being read.                             *)
(***************************************************************************)
Entering == Listens /\ pasting = None

\* A task starts a session, shown at once or not; a start that fails leaves the draft as it was.
Dispatches ==
    /\ Entering /\ Composing(draft) /\ ~IsSlash(draft) /\ ~IsBang(draft) /\ ~TooShort(draft)
    /\ ClearsDraft
    /\ mode' \in {"list", "closed"} /\ focus' \in Row
    /\ UNCHANGED <<calls, before>>
\* `!`: a command in a pane of its own.
StartsShell ==
    /\ Entering /\ IsBang(draft)
    /\ ClearsDraft
    /\ focus' \in Row
    /\ UNCHANGED <<calls, mode, before>>

\* A view command: enter, or the suggestion it completes to.
Commands == Entering /\ IsSlash(draft) /\ ClearsDraft /\ UNCHANGED <<focus, before, pasting, editing, edits>>
Quits == Commands /\ mode' = "closed" /\ UNCHANGED given
\* /model: one named, "default", or the picker.
SetsModel == /\ Commands
             /\ \/ mode' = "list" /\ model' \in BOOLEAN
                \/ mode' = "model" /\ UNCHANGED model
             /\ UNCHANGED dir
PicksModel == /\ mode = "model" /\ mode' = "list" /\ model' \in BOOLEAN
              /\ UNCHANGED <<draft, pastes, version, pasting, editing, edits, dir, focusVars>>
\* /cd: a directory there is, or back to the focus's.
SetsDir == Commands /\ dir' \in BOOLEAN /\ UNCHANGED <<mode, model>>
\* Tab on a `/` suggestion or an argument fills it in.
Completes == /\ Listens /\ IsSlash(draft) /\ Len(draft) < LenBound
             /\ draft' = Append(draft, Part("word"))
             /\ UNCHANGED <<pastes, version, calls, mode, focusVars>>

\* /resume: the past sessions, and one brought back, which this terminal then shows.
OpensResume == Commands /\ mode' = "resume" /\ UNCHANGED given
Resumes == /\ mode = "resume" /\ mode' \in {"list", "closed"}
           /\ UNCHANGED <<draft, pastes, version, calls, focusVars>>
ClosesPicker ==
    /\ mode \in {"model", "resume"} /\ mode' = "list"
    /\ UNCHANGED <<draft, pastes, version, calls, focusVars>>

\* Enter, → or a digit on a row, or esc with nothing left: the view closes.
Closes ==
    /\ Listens /\ (draft = <<>> \/ IsFilter(draft)) /\ mode' = "closed"
    /\ UNCHANGED <<draft, pastes, version, calls, focusVars>>
\* The next view is a new one; what the old one was reading lands nowhere.
OpensAgain ==
    /\ mode = "closed"
    /\ draft' = <<>> /\ held' = {} /\ next' = 1 /\ last' = 0 /\ version' = 0
    /\ pasting' = None /\ editing' = None /\ mode' = "list"
    /\ focus' \in Row /\ before' = None /\ shown' = None /\ model' = FALSE /\ dir' = FALSE
    /\ UNCHANGED edits

Next ==
    \/ \E is \in {"word", "find", "bang", "slash"} : Types(is)
    \/ TogglesFind \/ Deletes \/ PastesShort
    \/ \E t \in Text : PastesText(t)
    \/ AsksImage \/ NoImage \/ OpensEditor \/ EditorSaves \/ EditorFails
    \/ \E i \in Image : ImageLands(i)
    \/ Escapes \/ CtrlC \/ Moves \/ Dispatches \/ StartsShell
    \/ Quits \/ SetsModel \/ PicksModel \/ SetsDir \/ Completes \/ OpensResume \/ Resumes \/ ClosesPicker
    \/ Closes \/ OpensAgain

Spec == Init /\ [][Next]_vars

TypeOK == /\ next \in 1..(LenBound + 1) /\ last < next /\ version \in 0..DraftBound
          /\ \A e \in held : e.id \in 1..(next - 1) /\ e.kind \in {"text", "image"}
          /\ mode \in {"list", "model", "resume", "closed"} /\ focus \in Row
          /\ Len(draft) <= LenBound + 1

(***************************************************************************)
(* Properties                                                              *)
(***************************************************************************)
(* A token in the draft always stands for what was pasted where it stands, whatever was cleared,
   edited, deleted or pasted since, and was pasted for this very draft: an image still being read
   as its draft was cleared never turns up in the next one.  (Numbers start again with every
   draft, so a token left over would stand for something else.) *)
TokensHold == \A i \in DOMAIN draft :
    IsToken(draft[i]) =>
        /\ Entry(draft[i].id) = [id |-> draft[i].id, kind |-> KindOf(draft[i].is), of |-> draft[i].of]
        /\ draft[i].born = version

(* What enter would start now is what the draft shows: each text token as the text pasted there,
   and the images of the tokens still in it, in their order, and no other. *)
SendsShown ==
    /\ \A i \in DOMAIN draft : draft[i].is = "paste" => Expand(draft)[i] = Shown(draft[i].of)
    /\ LET images == SelectSeq(draft, LAMBDA p : p.is = "image")
       IN  ImagesIn(draft) = [i \in DOMAIN images |-> images[i].of]
==============================================================================
