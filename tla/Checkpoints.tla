---- MODULE Checkpoints ----
(***************************************************************************)
(* The snapshots of the working tree taken as prompts enter the            *)
(* conversation, and /rewind, which restores the files, the conversation   *)
(* or both (ext/checkpoints/index.ts).                                     *)
(*                                                                         *)
(* A file's content is who made the file and wrote it last (0, the user,   *)
(* or the prompt the agent ran a tool for) and which write it was.  No     *)
(* file is ignored by git, and the user removes none while a tool runs.    *)
(* Every capture lies at one moment between the message and the tool calls *)
(* that wait for it; a failed one leaves nothing.                          *)
(***************************************************************************)
EXTENDS Naturals, Sequences, SequencesExt, FiniteSets

CONSTANTS
  File,
  Tracked,      \* those in git's index
  KEPT,         \* MAX_CHECKPOINT_REFS
  PromptBound, WriteBound, ToolBound, RewindBound

VARIABLES
  tree,       \* each file's content, Absent where there is none
  writes,
  branch,     \* the entries of the session's branch
  created,    \* the files every branch's entries name as the agent's
  snaps,      \* the commits captured, by sha
  refs,       \* those with a ref
  prompts,
  capture,    \* the prompt a capture is pending for, 0 without one
  caught,     \* its commit, once git has it
  prunes,     \* what each running prune keeps
  tools,      \* the tool calls running: the prompt, and the files it found untracked
  runs,
  menu,       \* /rewind's: the sha it captured, 0 when that failed, its rows, and the writes by then
  net,        \* the safety net of the last restore, 0 before one
  rewinds,
  unseen,     \* history: the menus' captures that a prune then running did not know of
  astray      \* history: the captures listed with a prompt they were not made for

history == <<unseen, astray>>
vars == <<tree, writes, branch, created, snaps, refs, prompts, capture, caught, prunes, tools, runs,
          menu, net, rewinds, history>>
gitVars == <<snaps, refs>>

Absent == [maker |-> 0, by |-> 0, write |-> 0]
Closed == [sha |-> 0, rows |-> <<>>, writes |-> 0]
Present(files) == {f \in File : files[f] # Absent}
Untracked == Present(tree) \ Tracked

Prompt(p) == [prompt |-> p]
Checkpoint(sha, p) == [sha |-> sha, turn |-> p]
Called(run) == [run |-> run]
Result(files) == [files |-> files]
Is(field, entry) == field \in DOMAIN entry

(* The shas on a branch, oldest first (listCheckpoints). *)
Listed(entries) ==
  LET checkpoints == SelectSeq(entries, LAMBDA e : Is("sha", e))
  IN  [i \in DOMAIN checkpoints |-> checkpoints[i].sha]

PromptsOn(entries) == {entries[i].prompt : i \in {j \in DOMAIN entries : Is("prompt", entries[j])}}
LatestPrompt(entries) == Max(PromptsOn(entries) \cup {0})

Init ==
  /\ tree = [f \in File |-> Absent] /\ writes = 0
  /\ branch = <<>> /\ created = {} /\ snaps = <<>> /\ refs = {}
  /\ prompts = 0 /\ capture = 0 /\ caught = 0 /\ prunes = {}
  /\ tools = {} /\ runs = 0 /\ menu = Closed /\ net = 0 /\ rewinds = 0
  /\ unseen = {} /\ astray = {}

MenuOpen == menu # Closed

---------------------------------------------------------------------------
(* Changes to the working tree *)

Writes(f, by) ==
  /\ writes < WriteBound /\ writes' = writes + 1
  /\ tree' = [tree EXCEPT ![f] = [maker |-> IF @ = Absent THEN by ELSE @.maker, by |-> by, write |-> writes + 1]]

UserChanges(f) ==
  /\ \/ Writes(f, 0)
     \/ tools = {} /\ tree[f] # Absent /\ tree' = [tree EXCEPT ![f] = Absent] /\ UNCHANGED writes
  /\ UNCHANGED <<branch, created, gitVars, prompts, capture, caught, prunes, tools, runs, menu,
                 net, rewinds, history>>

(* A tool call of the agent's last reply waits for the pending capture. *)
MayRun == capture = 0

ToolCall ==
  /\ runs < ToolBound /\ prompts # 0 /\ MayRun
  /\ runs' = runs + 1
  /\ tools' = tools \cup {[call |-> runs + 1, prompt |-> prompts, before |-> Untracked]}
  /\ branch' = Append(branch, Called(runs + 1))
  /\ UNCHANGED <<tree, writes, created, gitVars, prompts, capture, caught, prunes, menu, net, rewinds, history>>

ToolWrites(t, f) ==
  /\ Writes(f, t.prompt)
  /\ UNCHANGED <<branch, created, gitVars, prompts, capture, caught, prunes, tools, runs, menu,
                 net, rewinds, history>>

(* The new files of a call are the agent's from then on. *)
ToolResult(t) ==
  /\ tools' = tools \ {t}
  /\ LET new == Untracked \ t.before
     IN  /\ branch' = Append(branch, Result(new))
         /\ created' = created \cup new
  /\ UNCHANGED <<tree, writes, gitVars, prompts, capture, caught, prunes, runs, menu, net, rewinds, history>>

---------------------------------------------------------------------------
(* Checkpoints of prompts *)

(* A message enters: a capture begins, unless one is pending. *)
MessageEnds ==
  /\ prompts < PromptBound
  /\ prompts' = prompts + 1
  /\ branch' = Append(branch, Prompt(prompts + 1))
  /\ capture' = IF capture = 0 THEN prompts + 1 ELSE capture
  /\ UNCHANGED <<tree, writes, created, gitVars, caught, prunes, tools, runs, menu,
                 net, rewinds, history>>

(* captureCheckpoint: git has the tree as it is, as a commit with a ref. *)
Captures == snaps' = Append(snaps, tree) /\ refs' = refs \cup {Len(snaps) + 1}

Captured ==
  /\ capture # 0 /\ caught = 0
  /\ Captures /\ caught' = Len(snaps) + 1
  /\ UNCHANGED <<tree, writes, branch, created, prompts, capture, prunes, tools, runs, menu,
                 net, rewinds, history>>

SmallerOf(m, n) == IF m < n THEN m ELSE n

(* The newest shas of a branch (pruneOldCheckpointRefs). *)
NewestShas(entries) ==
  LET shas == Listed(entries)
  IN  SubSeq(shas, Len(shas) - SmallerOf(KEPT, Len(shas)) + 1, Len(shas))

(* A prune begins: what it keeps is read from the branch, which a menu's   *)
(* capture is not on yet.                                                  *)
Prunes(keep) ==
  /\ prunes' = prunes \cup {keep}
  /\ unseen' = IF MenuOpen THEN unseen \cup {menu.sha} ELSE unseen

(* The capture's entry goes on the branch as it is by then, with the       *)
(* latest prompt there if its own has been left (findTurnContext), and a   *)
(* prune begins; a capture that failed leaves its prompt without one.      *)
CaptureEnds ==
  /\ capture # 0
  /\ capture' = 0 /\ caught' = 0
  /\ IF caught = 0
     THEN UNCHANGED <<branch, prunes, history>>
     ELSE LET turn == IF capture \in PromptsOn(branch) THEN capture ELSE LatestPrompt(branch)
          IN  /\ branch' = Append(branch, Checkpoint(caught, turn))
              /\ Prunes(Range(NewestShas(branch')))
              /\ astray' = IF turn = capture THEN astray ELSE astray \cup {caught}
  /\ UNCHANGED <<tree, writes, created, gitVars, prompts, tools, runs, menu, net, rewinds>>

(* A prune drops the refs it does not keep, as they are when it gets to    *)
(* them.                                                                   *)
PruneEnds(keep) ==
  /\ prunes' = prunes \ {keep}
  /\ refs' = refs \cap keep
  /\ UNCHANGED <<tree, writes, branch, created, snaps, prompts, capture, caught, tools, runs, menu, net,
                 rewinds, history>>

(* /rewind --prune keeps every sha on the branch. *)
PruneAsked ==
  /\ Prunes(Range(Listed(branch)))
  /\ UNCHANGED <<tree, writes, branch, created, gitVars, prompts, capture, caught, tools, runs, menu, net,
                 rewinds, astray>>

---------------------------------------------------------------------------
(* /rewind *)

(* The menu lists the branch as it is, over a capture of the tree as it    *)
(* is, whatever the agent, a capture or a prune is at.                     *)
RewindOpens ==
  /\ ~MenuOpen /\ rewinds < RewindBound
  /\ PromptsOn(branch) # {} \/ Listed(branch) # <<>>
  /\ rewinds' = rewinds + 1
  /\ \/ Captures /\ menu' = [sha |-> Len(snaps) + 1, rows |-> branch, writes |-> writes]
     \/ menu' = [sha |-> 0, rows |-> branch, writes |-> writes] /\ UNCHANGED gitVars
  /\ unseen' = IF prunes = {} THEN unseen ELSE unseen \cup {menu'.sha}
  /\ UNCHANGED <<tree, writes, branch, created, prompts, capture, caught, prunes, tools, runs, net, astray>>

NeverMind ==
  /\ MenuOpen /\ menu' = Closed
  /\ UNCHANGED <<tree, writes, branch, created, gitVars, prompts, capture, caught, prunes, tools, runs, net,
                 rewinds, history>>

(* Every entry counts, not just the branch's (agentCreatedFiles). *)
AgentCreated == created

(* restoreCheckpoint: the tree of the commit, without the agent's files    *)
(* added since, and with the user's as the safety net has them; without a  *)
(* safety net no untracked file is removed.                                *)
RestoredTree(target, safety) ==
  [f \in File |->
     IF target[f] # Absent THEN target[f]
     ELSE IF safety # 0 /\ snaps[safety][f] # Absent
          THEN IF f \in AgentCreated THEN Absent ELSE snaps[safety][f]
          ELSE IF f \in Tracked THEN Absent ELSE tree[f]]

(* The branch as navigateTree leaves it, before the prompt. *)
Before(p, entries) ==
  SubSeq(entries, 1, (CHOOSE i \in DOMAIN entries : Is("prompt", entries[i]) /\ entries[i].prompt = p) - 1)

(* The conversation goes back, and no file does: what was asked for is     *)
(* "Restore conversation", or the tree was the checkpoint's already.       *)
RestoresTalk(p) ==
  /\ MenuOpen /\ menu' = Closed
  /\ branch' = Before(p, branch)
  /\ net' = 0
  /\ UNCHANGED <<tree, writes, created, gitVars, prompts, capture, caught, prunes, tools, runs, rewinds,
                 history>>

(* The checkpoint of a prompt is the oldest with its id. *)
CheckpointOf(p, entries) ==
  LET own == SelectSeq(entries, LAMBDA e : Is("sha", e) /\ e.turn = p)
  IN  IF own = <<>> THEN 0 ELSE own[1].sha

(* Nothing would change: the menu's capture is the checkpoint, but for     *)
(* files of the user's.                                                    *)
AlreadyThere(target) ==
  /\ menu.sha # 0
  /\ \A f \in File : \/ snaps[menu.sha][f] = target[f]
                     \/ target[f] = Absent /\ f \notin AgentCreated

(* The safety net's entry, on the branch the session is on; the leaf is    *)
(* its prompt.                                                             *)
Leaf(entries) == IF entries # <<>> /\ Is("prompt", Last(entries)) THEN Last(entries).prompt ELSE 0
Safety(entries) == IF menu.sha = 0 THEN entries ELSE Append(entries, Checkpoint(menu.sha, Leaf(entries)))

(* A mutant: the safety net stays on the branch that was left. *)
LandedWithout(entries, safety) == entries

(* The safety net is repeated on the branch the session landed on. *)
Landed(entries, safety) == IF safety.sha = 0 THEN entries ELSE Append(entries, safety)

(* "Restore code", with p the conversation too (0: the code alone), from a *)
(* prompt's checkpoint or a safety net.  With no capture of the tree as it *)
(* was, the user was asked again; nothing asks what has changed since.     *)
RestoresCode(sha, p) ==
  /\ MenuOpen /\ menu' = Closed
  /\ ~AlreadyThere(snaps[sha])
  /\ LET safe == Safety(branch)
     IN  branch' = IF p = 0 THEN safe
                   ELSE Landed(Before(p, safe), IF menu.sha = 0 THEN [sha |-> 0, turn |-> 0] ELSE Last(safe))
  /\ tree' = RestoredTree(snaps[sha], menu.sha)
  /\ net' = menu.sha
  /\ astray' = IF menu.sha # 0 /\ Leaf(branch) # 0 THEN astray \cup {menu.sha} ELSE astray
  /\ UNCHANGED <<writes, created, gitVars, prompts, capture, caught, prunes, tools, runs, rewinds, unseen>>

(* A choice is of the rows the menu listed as it opened. *)
Rewinds ==
  \/ \E p \in PromptsOn(menu.rows) : RestoresTalk(p)
  \/ \E p \in PromptsOn(menu.rows) :
       LET sha == CheckpointOf(p, menu.rows)
       IN  sha # 0 /\ \E to \in {0, p} : RestoresCode(sha, to)
  \/ \E i \in DOMAIN menu.rows :
       /\ Is("sha", menu.rows[i]) /\ menu.rows[i].turn \notin PromptsOn(menu.rows)
       /\ RestoresCode(menu.rows[i].sha, 0)

Next ==
  \/ \E f \in File : UserChanges(f) \/ \E t \in tools : ToolWrites(t, f)
  \/ ToolCall \/ \E t \in tools : ToolResult(t)
  \/ MessageEnds \/ Captured \/ CaptureEnds \/ PruneAsked \/ \E keep \in prunes : PruneEnds(keep)
  \/ RewindOpens \/ NeverMind \/ Rewinds

Spec == Init /\ [][Next]_vars

---------------------------------------------------------------------------
(* Properties *)

(* A prompt's checkpoint is the tree before that prompt changed anything:  *)
(* no file in it was written by a tool run for it, or for a later one      *)
(* (checkpointForTurn).  Left out are the captures that were listed with   *)
(* another prompt: the latest one left, where a rewind left the capture's  *)
(* own (findTurnContext), and a safety net's leaf.                         *)
CheckpointBefore ==
  \A p \in PromptsOn(branch) :
    LET sha == CheckpointOf(p, branch)
    IN  sha # 0 /\ sha \notin astray => \A f \in File : snaps[sha][f].by < p

(* A restore can be undone: what it takes away is in the safety net, and   *)
(* that is on the branch, kept by its ref (restoreOverSafetyNet).  Left    *)
(* out is what was written while the menu was open, which no capture has,  *)
(* and the ref where a prune had read the branch before.                   *)
Undoable ==
  [][\A f \in File :
       /\ MenuOpen /\ menu.sha # 0 /\ tree'[f] # tree[f] /\ UNCHANGED writes /\ menu' = Closed
       /\ tree[f] # Absent /\ tree[f].write <= menu.writes
       => /\ snaps[menu.sha][f] = tree[f] /\ menu.sha \in Range(Listed(branch'))
          /\ menu.sha \in refs' \cup unseen]_vars

(* The safety net of the last restore stays within reach of /rewind, and   *)
(* keeps its ref through every prune that has seen it, until KEPT newer    *)
(* ones.                                                                   *)
NetKept ==
  net # 0 => /\ net \in Range(Listed(branch))
             /\ net \in Range(NewestShas(branch)) => net \in refs \cup unseen

(* With no tool running, a restore over a safety net leaves no file of it  *)
(* that a tool made since the checkpoint, whichever branch its call was on *)
(* (agentCreatedFiles).                                                    *)
AgentsGone ==
  [][\A sha \in Range(Listed(branch)), p \in PromptsOn(branch) \cup {0}, f \in File \ Tracked :
       /\ RestoresCode(sha, p) /\ menu.sha # 0 /\ tools = {}
       /\ snaps[sha][f] = Absent /\ snaps[menu.sha][f] # Absent /\ tree[f].maker # 0
       => tree'[f] = Absent]_vars
====
