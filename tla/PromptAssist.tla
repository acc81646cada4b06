---- MODULE PromptAssist ----
(***************************************************************************)
(* Prompt assistance (ext/prompt-assist): a model's suggestion of the next *)
(* prompt, shown after the draft in the editor (editor.ts), and a session's*)
(* title, made by the same model from its first prompt (index.ts).         *)
(*                                                                         *)
(* A suggestion is asked for a while after a key changes the draft, or at  *)
(* once when the agent settles, and its answer comes any time later: among *)
(* keys, turns, renames, switches of the session and choices of the model. *)
(* Whatever may make it wrong clears it, whichever way it is on: a timer, a*)
(* call, or on the screen.  Clearing counts a revision up and aborts the   *)
(* call, after either of which its answer is dropped, so that a call left  *)
(* is one nothing cleared; so it is with a title and its generation.       *)
(***************************************************************************)
EXTENDS Naturals

CONSTANTS
  None,
  Text,          \* what a draft may be
  Empty,         \* the empty one
  Command,       \* one that gets no suggestion: a command, or one with a paste
  Session, Model,
  Meanwhile,     \* turns may run while the session's tree is open
  TalkBound, ChangeBound      \* how much is said, and how often the rest changes

VARIABLES
  text,          \* the draft
  apt,           \* the cursor is at its end, with no completions listed
  phase,         \* of the agent
  talk,          \* how far each session's conversation went
  tree,          \* the session's tree is open, over the editor
  session,
  enabled, model,        \* as the session goes by
  saved,         \* as the next session will, any pane's choice
  timer,         \* the draft a suggestion is to be asked for
  call,          \* the suggestion asked for, as things were when it was
  suggestion,    \* the one to show
  attempted,     \* a title was asked for
  naming,        \* the title asked for, as things were when it was
  names,         \* who named each session last
  infos,         \* the sessions whose file records a name
  changes

vars == <<text, apt, phase, talk, tree, session, enabled, model, saved, timer, call,
          suggestion, attempted, naming, names, infos, changes>>

suggestVars == <<timer, call, suggestion>>
nameVars == <<attempted, naming, names, infos>>
editVars == <<text, apt>>
placeVars == <<talk, tree, session>>
choiceVars == <<enabled, model, saved>>

(* What a suggestion is made from. *)
Ask == [text : Text, session : Session, talk : 0..TalkBound, model : Model]

(* The types of the editor, the calls and the choices.                     *)
TypeOK ==
  /\ text \in Text /\ apt \in BOOLEAN /\ tree \in BOOLEAN
  /\ phase \in {"idle", "starting", "running", "ending"}
  /\ talk \in [Session -> 0..TalkBound] /\ session \in Session
  /\ enabled \in BOOLEAN /\ model \in Model
  /\ saved \in [enabled : BOOLEAN, model : Model]
  /\ timer \in Text \cup {None} /\ {call, suggestion} \subseteq Ask \cup {None}
  /\ attempted \in BOOLEAN
  /\ naming \in [session : Session, model : Model, asked : BOOLEAN] \cup {None}
  /\ names \in [Session -> {"none", "user", "assist"}] /\ infos \subseteq Session

Init ==
  /\ text = Empty /\ apt = TRUE /\ phase = "idle" /\ talk = [s \in Session |-> 0]
  /\ tree = FALSE /\ session \in Session
  /\ enabled = TRUE /\ model \in Model /\ saved = [enabled |-> TRUE, model |-> model]
  /\ timer = None /\ call = None /\ suggestion = None
  /\ attempted = FALSE /\ naming = None
  /\ names = [s \in Session |-> "none"] /\ infos = {} /\ changes = 0

Change == changes < ChangeBound /\ changes' = changes + 1

---------------------------------------------------------------------------
(* Suggestions *)

CanSuggest(draft, there, on) == on /\ there /\ draft # Command

IsIdle == phase # "running"

Eligible == IsIdle /\ CanSuggest(text, apt, enabled)

Visible == suggestion # None /\ suggestion.text = text /\ Eligible

Clear == timer' = None /\ call' = None /\ suggestion' = None

(* Whatever there was is cleared, and another asked for in time. *)
Schedule(draft, there, on) ==
  /\ timer' = IF CanSuggest(draft, there, on) THEN draft ELSE None
  /\ call' = None /\ suggestion' = None

(* A key that neither takes nor drops a suggestion shown. *)
Types(draft, there) ==
  /\ ~tree
  /\ text' = draft /\ apt' = there
  /\ IF draft # text /\ draft # Empty THEN Schedule(draft, there, enabled) ELSE Clear
  /\ UNCHANGED <<phase, changes>> /\ UNCHANGED <<placeVars, choiceVars, nameVars>>

(* Right or tab takes the suggestion; escape drops it. *)
Accepts(draft) ==
  /\ ~tree /\ Visible
  /\ draft \notin {Empty, text} /\ text' = draft
  /\ Clear
  /\ UNCHANGED <<apt, phase, changes>> /\ UNCHANGED <<placeVars, choiceVars, nameVars>>

Escapes ==
  /\ ~tree /\ Visible /\ Clear
  /\ UNCHANGED <<phase, changes>> /\ UNCHANGED <<editVars, placeVars, choiceVars, nameVars>>

(* The draft is set by an extension or by pi: from its history, or emptied *)
(* as it is sent.                                                          *)
SetText(draft) ==
  /\ text' = draft /\ apt' = TRUE /\ Clear
  /\ UNCHANGED <<phase, changes>> /\ UNCHANGED <<placeVars, choiceVars, nameVars>>

(* Completions are listed some time after a key, or no longer. *)
Completes ==
  /\ apt' = ~apt
  /\ UNCHANGED <<text, phase, changes>>
  /\ UNCHANGED <<suggestVars, placeVars, choiceVars, nameVars>>

TimerFires ==
  /\ timer # None /\ timer' = None
  /\ call' = IF Eligible
             THEN [text |-> timer, session |-> session, talk |-> talk[session], model |-> model]
             ELSE call
  /\ UNCHANGED <<suggestion, phase, changes>>
  /\ UNCHANGED <<editVars, placeVars, choiceVars, nameVars>>

(* The answer comes, or none; it is kept for the draft it was asked for.   *)
AnswerLands ==
  /\ call # None /\ call' = None
  /\ \/ call.text = text /\ Eligible /\ suggestion' = call
     \/ UNCHANGED suggestion
  /\ UNCHANGED <<timer, phase, changes>>
  /\ UNCHANGED <<editVars, placeVars, choiceVars, nameVars>>

---------------------------------------------------------------------------
(* Turns and titles *)

(* A prompt is on its way to the agent, the user's or an extension's own:  *)
(* one of the user's to a session never named has a title asked for, once. *)
BeforeAgentStart(user) ==
  /\ phase = "idle" /\ (tree => Meanwhile)
  /\ phase' = "starting"
  /\ IF /\ user /\ enabled /\ ~attempted
        /\ names[session] = "none" /\ session \notin infos
     THEN /\ attempted' = TRUE
          /\ naming' = [session |-> session, model |-> model, asked |-> user]
     ELSE UNCHANGED <<attempted, naming>>
  /\ UNCHANGED <<names, infos, changes>>
  /\ UNCHANGED <<editVars, suggestVars, placeVars, choiceVars>>

(* The agent starts, for a prompt, or goes on before it settled. *)
AgentStarts ==
  /\ phase \in {"starting", "ending"} /\ phase' = "running" /\ Clear
  /\ UNCHANGED changes /\ UNCHANGED <<editVars, placeVars, choiceVars, nameVars>>

Says ==
  /\ phase = "running" /\ talk[session] < TalkBound
  /\ talk' = [talk EXCEPT ![session] = @ + 1]
  /\ UNCHANGED <<tree, session, phase, changes>>
  /\ UNCHANGED <<editVars, suggestVars, choiceVars, nameVars>>

AgentEnds ==
  /\ phase = "running" /\ phase' = "ending"
  /\ UNCHANGED changes
  /\ UNCHANGED <<editVars, suggestVars, placeVars, choiceVars, nameVars>>

AgentSettles ==
  /\ phase = "ending" /\ phase' = "idle"
  /\ Schedule(text, apt, enabled)
  /\ UNCHANGED changes /\ UNCHANGED <<editVars, placeVars, choiceVars, nameVars>>

(* The title comes, or none; a session named meanwhile keeps its name.     *)
TitleLands ==
  /\ naming # None /\ naming' = None
  /\ \/ /\ naming.session = session /\ names[session] = "none"
        /\ names' = [names EXCEPT ![session] = "assist"]
        /\ infos' = infos \cup {session}
     \/ UNCHANGED <<names, infos>>
  /\ UNCHANGED <<attempted, phase, changes>>
  /\ UNCHANGED <<editVars, suggestVars, placeVars, choiceVars>>

(* The session is named by the user, here or from elsewhere, or its name   *)
(* is taken away: no title is to come.                                     *)
InfoChanges(name) ==
  /\ Change
  /\ names' = [names EXCEPT ![session] = name] /\ infos' = infos \cup {session}
  /\ naming' = None
  /\ UNCHANGED <<attempted, phase>>
  /\ UNCHANGED <<editVars, suggestVars, placeVars, choiceVars>>

---------------------------------------------------------------------------
(* Choices and sessions *)

(* /prompt-assist on or off; a preference that cannot be saved applies to  *)
(* this session only.                                                      *)
Toggles(on) ==
  /\ Change /\ ~tree
  /\ enabled' = on
  /\ IF on THEN Schedule(text, apt, on) ELSE Clear
  /\ naming' = None /\ attempted' = FALSE
  /\ saved' \in {saved, [saved EXCEPT !.enabled = on]}
  /\ UNCHANGED <<model, names, infos, phase>> /\ UNCHANGED <<editVars, placeVars>>

ChoosesModel(m) ==
  /\ Change /\ ~tree
  /\ model' = m /\ Clear
  /\ naming' = None /\ attempted' = FALSE
  /\ saved' \in {saved, [saved EXCEPT !.model = m]}
  /\ UNCHANGED <<enabled, names, infos, phase>> /\ UNCHANGED <<editVars, placeVars>>

(* Another pane saves its own choice. *)
OthersChoose(on, m) ==
  /\ Change /\ saved' = [enabled |-> on, model |-> m]
  /\ UNCHANGED <<enabled, model, phase>>
  /\ UNCHANGED <<editVars, suggestVars, placeVars, nameVars>>

(* The session is left for one, which goes by what is saved, or reloaded.  *)
SessionStarts(s) ==
  /\ Change
  /\ session' = s /\ tree' = FALSE /\ phase' = "idle"
  /\ enabled' = saved.enabled /\ model' = saved.model
  /\ Schedule(text, apt, saved.enabled)
  /\ naming' = None /\ attempted' = FALSE
  /\ UNCHANGED <<talk, saved, names, infos>> /\ UNCHANGED editVars

(* The session's tree is opened by a command, which leaves the editor      *)
(* empty, and another branch of it chosen, or none.                        *)
OpensTree ==
  /\ Change /\ phase = "idle" /\ ~tree
  /\ tree' = TRUE /\ text' = Empty /\ apt' = TRUE /\ Clear
  /\ UNCHANGED <<talk, session, phase>> /\ UNCHANGED <<choiceVars, nameVars>>

LeavesTree ==
  /\ tree /\ tree' = FALSE
  /\ \/ talk[session] < TalkBound /\ talk' = [talk EXCEPT ![session] = @ + 1]
     \/ UNCHANGED talk
  /\ UNCHANGED <<session, phase, changes>>
  /\ UNCHANGED <<editVars, suggestVars, choiceVars, nameVars>>

Next ==
  \/ \E draft \in Text : Accepts(draft) \/ SetText(draft)
  \/ \E draft \in Text, there \in BOOLEAN : Types(draft, there)
  \/ Escapes \/ Completes \/ TimerFires \/ AnswerLands
  \/ AgentStarts \/ Says \/ AgentEnds \/ AgentSettles \/ TitleLands
  \/ \E user \in BOOLEAN : BeforeAgentStart(user)
  \/ \E name \in {"none", "user"} : InfoChanges(name)
  \/ \E on \in BOOLEAN : Toggles(on)
  \/ \E m \in Model : ChoosesModel(m)
  \/ \E on \in BOOLEAN, m \in Model : OthersChoose(on, m)
  \/ \E s \in Session : SessionStarts(s)
  \/ OpensTree \/ LeavesTree

Spec == Init /\ [][Next]_vars

---------------------------------------------------------------------------
(* Properties *)

(* A suggestion shown was made by the model chosen, from this draft and    *)
(* this session's conversation as they are: none outlasts a turn, a switch *)
(* or a choice, however late its answer came (editor.ts, clear; tree       *)
(* navigation over a turn aside).                                          *)
SuggestsAsIs ==
  Visible =>
    suggestion = [text |-> text, session |-> session, talk |-> talk[session], model |-> model]

(* A title is given only to the session whose own prompt by the user it was*)
(* made from, never one that had a name, even one taken away since;        *)
(* by the model chosen and while assistance is on (index.ts, startNaming). *)
TitledRight ==
  [][ \A s \in Session :
        names[s] # "assist" /\ names'[s] = "assist" =>
          /\ s = session /\ s \notin infos /\ enabled
          /\ naming = [session |-> s, model |-> model, asked |-> TRUE] ]_vars
====
