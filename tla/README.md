# Verification of bluclawd

TLA+ models of bluclawd: the daemon that lists every pi session on a Mac, the
panes those sessions run in, the phones that follow them, and what a pane's
extensions keep beside its turns. TLC checks small instances; TLAPS proves what
holds for every instance.

Paths below are relative to the repository; line numbers are of `src/`.

## The system

A *pane* is a tmux session running one pi on a *session file*. The *daemon*
keeps one *row* per pane or stored session. Panes, *agent views*, *phones* (over
HTTP) and detached helpers all talk to the daemon through short requests on a
socket; the daemon never calls a pane, which fetches its messages with its
heartbeat. A pane whose pi runs *subagents* launches more panes, each a *run*.

```
 phone app --HTTP--> phone server, control --> row table <--> prompt delivery
   ^  events, pushes --'    ^                    ^   |            ^
   agent view --list, start, delete, pin, order -+   |            | outcomes
                            |                        v            |
 pane: registration --register/wait/unregister------+   pane: outcome tracker
    | quit: detached hand-off --save--> row table          ^ pi's events
    |-- extensions: shells, monitors, checkpoints, accounts, ...
    '-- orchestrator <--reports, messages--> runs (panes of their own)
```

### Inventory

| component | state | operations | what is hard | what makes it correct |
|---|---|---|---|---|
| row table (`daemon/supervisor.ts`, `storage.ts`) | rows (starting, live, silent or stored, with held silent panes), `instances.json`, `deleted.json`, dropped panes, waits | register, unregister, reap, start, save, delete, pin, wait | late heartbeats and saves, tmux that cannot say, two panes on one session, a restart in between | a pane is in one place; one pane per session; a deleted row stays away; no live pane's work is declared lost |
| prompt delivery (`daemon/remote/delivery.ts`) | inbox per row, outcome per prompt | queue, take, report, end, silence, ask | a report racing an end, silence, forgetting | an outcome only moves forward; every accepted prompt can still be answered |
| daemon requests, process (`daemon/handler.ts`, `ipc/`, `serve.ts`) | a socket path and who listens on it | one request, several operations; start, replace | lost and late requests; two starts at once | a pane that asks is answered, by a daemon of its build |
| starting panes (`daemon/pane-start.ts`, `spawn.ts`) | claims, launch timers, the launch of phone panes | claim, spawn, give back, end | a spawn that fails or registers late | one pane per session; a pane nobody sees is ended |
| pane registration (`ext/agent-view/self-registration.ts`, `hand-off.ts`) | the wait in flight, heartbeats in flight | beat, wait, stop, hand off | replies after a switch, replies lost | messages reach the session they were for |
| pane's outcome tracker (`ext/remote/outcomes.ts`) | prompts handed to pi, queued, settled; quiet looks | input, start, look, refuse, shutdown | pi tells it neither names nor queue changes; input handlers that await | lost is never said of what pi runs; queued is not said for good |
| pane's reports (`ext/remote/index.ts`, `report.ts`, `live.ts`) | a chain of reports, the reply being streamed | report, stream, apply | dropped and late sends | the last outcome gets through; a reply is not shown twice |
| remote control, pairing (`daemon/remote/control.ts`, `pairing.ts`, `ext/remote/`) | on/off, server, devices, codes | apply, stop, claim, revoke; the menu | on and off while starting; expiry and tries; two terminals | one server; a code is good once; nothing is turned on unasked |
| phone server (`daemon/remote/http.ts`, `phone-control.ts`, `events.ts`, `notifier.ts`) | event streams, subscriptions | requests on sessions, pushes | a session that changes as a body is read | a request is about the session as it is |
| phone app (`daemon/remote/web/`) | pending prompts, composer, list, sheet, pages, photos | send, settle, restore, poll, scroll | answers after give-up, restored drafts, late pages | a prompt is in the chat or in the composer, not both; what shows is what the pane has |
| agent view (`ext/agent-view/`) | rows, cursor, drafts, order, commands, its window's pane | keys, lists, answers | a list or an answer between a frame and a key | a key does what was meant, to the row that was shown |
| background shells, tasks panel (`ext/background-bash/`) | jobs, foreground commands, held notices | start, detach, finish, kill, evict, own | a command detached as it exits; session switches | each end is told once, to its session |
| monitors (`monitor-events.ts`, `monitor-tool.ts`) | batches, token bucket | event, flush, exit | rate limits and exit order | no event lost silently or told after the exit |
| subagent runs (`ext/subagents/`) | the scheduler's runs, their records on disk, references in the session's tree, the batched inbox, waits, the usage ledger | launch, resume, report, close, message, reload, switch, navigate, recover | awaits in a launch; reloads and deaths between two instances; writes that fail | one pi per run, and one that listens to it; each report told once, where it belongs; usage counted once |
| accounts (`ext/accounts/`) | the vault, pi's `auth.json` | switch, save, remove | one of several writes failing; pi's own refreshes | the latest tokens of a login are kept |
| checkpoints (`ext/checkpoints/`) | snapshots in git, what the agent made | capture, rewind, prune | a capture racing tools | a rewind can be undone, and touches only what the agent made |
| permissions (`ext/permissions/`) | deny rules | load, match, leave out | spellings, links, wrappers | no denied call runs |
| memory (`ext/memory/`) | a file per memory, an index | save, delete, rebuild | panes at once, no lock | the index is of the files |
| prompt assist (`ext/prompt-assist/`) | the suggestion, the title being made | ask, show, clear | late answers | what shows is of things as they are |
| agent definitions, phone layout, web, sandbox, terminal features, helpers | little | parse, draw, I/O | - | not modelled |

`PROJECT.json` lists every component with its sources and status, and under
`hazards` what can go wrong at which line and which property would catch it.

## Modules

Every module of a component has its state as variables, one action per operation
or handler with all it changes, and its properties at the end.

| module | of | contents |
|---|---|---|
| `PromptJourney` | the promise to a phone | the abstract life of a prompt: which outcome may follow which |
| `Delivery` | `remote/delivery.ts` | `prompts`, `inboxes`; one action per method; implements `PromptJourney` |
| `PanePath` | `self-registration.ts`, `ext/remote/index.ts`, on `Delivery` | a pane's beats, messages and reports over its sessions and the daemon's restarts; implements `Delivery` |
| `RowTable` | `supervisor.ts`, `storage.ts`, on `Delivery` | each operation as an operator from the daemon's state to the next |
| `Registry` | `handler.ts`, with its callers, on `RowTable` | the requests as actions; panes, hand-offs, tmux, time, restarts |
| `PhoneStarts` | `pane-start.ts`, `spawn.ts`, `http.ts`, `control.ts` | claims, spawns and launches of the panes a phone starts |
| `DaemonLife` | `ipc/server.ts`, `client.ts`, `serve.ts` | the socket, and the processes that bind, probe, start and replace |
| `Outcomes` | `ext/remote/outcomes.ts` with an external pi | the tracker's handlers, one action each |
| `LiveReply` | `ext/remote/live.ts`, `events.ts`, `web/live.js`, `chat.js` | the reply a pane streams and the transcript that replaces it |
| `RemoteControl` | `control.ts`, `pairing.ts` | the queue of applies and stops; codes, devices, `remote.json`; its theorems |
| `RemoteCommand`, `ServeCommand` | `ext/remote/` | /remote-control in two terminals; reading tailscale's output; the theorems of `RemoteCommand` |
| `PhoneRequests`, `PhonePush` | `http.ts`, `phone-control.ts`; `notifier.ts` | requests on a session that changes; pushes and subscriptions |
| `PhoneChat`, `PhoneList`, `PhoneSheet`, `PhonePages`, `PhoneImages` | `web/` | pending prompts; list and chat; settings and tasks; older pages; photos |
| `AgentView`, `ViewRows`, `ViewOrder`, `ViewComposer`, `ViewShells`, `PaneWindow` | `ext/agent-view/`, `daemon/rows.ts`, `tmux.ts` | keys and answers; the rows listed; order by hand; drafts and tokens; `!` commands; a pane and its terminals |
| `Shells`, `Monitors`, `TasksPanel` | `ext/background-bash/` | shells and their ends; a monitor's lines, batches and tokens; the panel's keys |
| `SubagentRuns` | `ext/subagents/` | an orchestrator's runs over its instances: launches, ends, reports, its sessions' changes |
| `RunScheduler`, `RunReports`, `RunUsage` | `runs.ts`, `messages.ts`; `tmux-runs.ts`, `run-messages.ts`; `storage.ts` | a run's stop and end await by await; what a run's own pi tells; the usage ledger; the theorems of `RunScheduler` |
| `Accounts`, `Checkpoints`, `DenyRules`, `Memory`, `PromptAssist` | the `ext/` of that name | writes that fail; captures and rewinds; rules on calls; files and index; suggestions and titles; the theorems of `Accounts` and `Memory` |
| `PanePathProofs`, `RegistryProofs`, `SubagentRunsProofs` | | the theorems: of `Delivery` and `PanePath`, of `RowTable` and `Registry`, of `SubagentRuns` |
| `MCRegistryParts`, `MCRuns`, `MCProgress`, `MCPhone`, `MCAgentView`, `MCTerminal` | | model values, bounds, and the parts of each run |

What follows says how state and actions correspond to the code where that is
not plain from the modules' own comments.

**Delivery.** `AfterQueue`, `AfterTake`, `AfterReport`, `AfterEnded` and
`AfterSilent` say what `queue`, `take`, `reported`, `ended` and `silent` leave of
the prompts; the actions of the same names apply them to the variables, and
`RowTable` and `PanePath` apply them inside their own operations. On its own the
module lets anyone call anything in any order: what it promises does not rest
on who calls. An outcome's age is one bit, set by `Age`; `DELIVERY_KEEP_MS` is that bit.

**PanePath.** A phone sends (`PhoneSends`) and asks (`PhoneAsks`); the pane's `Beat` empties the
inbox into a reply, which arrives (`ReplyArrives`), is lost, or outlives its session and is sent
back (`SendBack`); pi starts, queues or drops what it is handed; a session's reports go one
after the other (`ReportSent`), those of the one before it too (`OldReportSent`). `Shutdown`,
`Stopped`, `Dispose`, `DisposedOf` and `NextSession` are a session's end, await by
await; `Goes` is a quit or a death, `DaemonRestarts` a new lifetime of the daemon, which knows no
prompt. The daemon ends a row in three ways: `Reaped`, of a pane that is gone; `BeatElsewhere`, of one
that beats again after a silence in which another session went on; and `LetGo`, of a pane whose pi is
alive: a delete, tmux unable to say of a pane that lapsed, or a silent pane that another's row
holds. `Ages` lets an open outcome grow old, which `queue` may then forget. `sentFor`,
`acceptedIn`, `givenUp`, `cutOff` and `lossy` are what the phone knows and history; the properties read them.

**RowTable and Registry.** The daemon is single threaded and a request's
handlers do not yield between its changes to the table, so a request is one
action; what may come between requests is another action. `Now` is the daemon's state as a
value; `Register` is `DrainExternal(RegisterExternal(Now, ...))`, as the handler
does; `List` is `Reap` (`ExpireDeleted`, `ExpireStarts`, `EndGone`, `ReapLapsed`)
followed by `RemoveOrphanedRuns`. `DeleteInstance` deletes a row and the rows of
the runs it orchestrates. The order in which reaping visits rows is chosen, as
the insertion order of the maps is not kept.
The rest is the environment: `life` and `on` are the truth about each pane's
tmux session and the file its pi runs, `handoffs` the detached saves not landed
yet. `asked`, `buried`, `erased` and `ended` are history that only properties
read. Sends, pins and starts come from phones and agent views alike.

**Outcomes.** The tracker's four lists (`waiting`, `queued`, `others`,
`settled`), `quietLooks` and `compacting` are its fields; `looks` counts the
timers of one tick that input events set. pi is external and modelled as
`outcomes.ts` and its tests describe it: `stage` says how far each entrant is
(before and after the tracker's own input handler, queued, ran, dropped, gone),
`queue` is pi's queue and `running` its run. A prompt that enters while a run
goes on is queued only after its input handlers, which may await (`Slow`), and
runs as a turn of its own if the run is over by then.

**Shells.** The state is the code's: the registry's jobs, the foreground
shells, the messages held while the tasks panel is open, what is parked between two
sessions. Each operation of the bash tool (run, move to the background, answer),
of the registry (finish, kill, evict) and of the extension (session start for
each of its reasons, shutdown) is an action with all it calls: a job's end
records it in the session's log and sends or holds its message in that same step.
`process`, `owner` and `answer` are the truth about the operating system's
processes, whose session each shell was started in, and what the model was told by the call
itself; `log` is what pi's session files hold, and survives pi's death; `stops` is
history. A session's start scans its log for shells that never ended
(`orphan-shells.ts`), after it has sent what was parked.

**Monitors.** Time is in ticks and lines are numbered, so that a property can ask
after each. The bucket counts in refill time, a whole token being `Refill` ticks, as
fractions of tokens matter to it. The source may go on writing after it was killed
or has expired until it ends, timers may fire late, and pi's exec says "aborted"
rather than "timed out" when both hold.

**RemoteControl.** `remote.json` is `stored`, and `cached` the object the daemon parsed it into. That
object is shared: a step of the queue holds it over its awaits (`holds`, `wants`) and a command changes it
before it writes it (`Switch`), so what a step decides by may change under it, also to what was never
written. A write lets the copy go first (`Save`, `SaveFails`, `Rewrite` for all else that is kept
there), and a step that holds it goes on with it alone. `server` has the port that is kept and the
one it is on, as the first is read once the second is bound (`StepListens`).

**Checkpoints.** /rewind opens over whatever runs: a tool, a capture, several prunes, each with what it
decided to keep (`prunes`). `menu` is what the handler holds until the choice: its capture and the rows it
read. `unseen` and `astray` are history.

**SubagentRuns.** `known` and `gen` are the scheduler's runs, as this instance of the
extension knows them; `stored` is what is on disk, and `live` the truth about the runs'
panes, by run and generation. A place in a session's tree is what the module asks of
it: the launches and the references to runs on the branch to it. The code compares
epochs for equality with the current one only, so an epoch is a bit of what belongs
to it, which `EpochEnds` clears. `triggerStop` and `finalizeManagedRun` are a few
microtasks apart, between which no input, timer or message is handled, so a run's
end (`Ended`) is one step, with its record, its pane, and the call that waited for it
(`RunScheduler` takes them apart). A launch is two, `LaunchCall` and `Admit` or
`Refuse`, as it awaits its model; anything may come between. pi loads a new instance for
each session and each reload: `Shutdown` or `Reload` is the end of one, and
`SessionStart` what the next makes of the references and records, with `adopt`,
`reconcileInterruptedRuns` and `reopen`. `Die` leaves the panes to the daemon
(`orphans`, `DaemonEnds`). `inbox`, `held` and `told` are the batch, what a settle
still holds, and what the model was told.

**The phone app, agent view and the extensions.** Their code is event handlers that
await answers: each handler up to its await is an action, and so is what it does with
the answer; the state read before and used after is kept in the request
(`asks`, `fetches`, `posts`, `request`, a call's `pc`). What a peer does meanwhile
(the pane that reports, the daemon that lists, the user that types, pi's own login) is
the environment's actions. What is drawn is a variable only where a key or a
property reads it.

**The MC modules.** A run checks several components, a *part* at a time: `part` is
chosen in the initial state and never changes, the variables of other parts stay as
they began, and each property says of which part it speaks. A part's components do
not interact; those that do are composed in `PanePath`, `Registry` and the phone's
modules. This keeps one question per run: what a pane keeps, what a phone shows, and so on.

## Runs

| run | module | shows |
|---|---|---|
| `pane_path` | `PanePath` | `HandedRight`, `Answerable`, `SettledForGood`, `JourneySpec`: a prompt is handed over once, to the session it is for, can be answered, and keeps its answer |
| `table` | `MCRegistryParts` | `TableSound`, `AloneTrue`, `EndsNoOther`, `RowsGoRight`: table and delivery agree; no wakeup is lost; deleted rows stay away; the daemon ends what it was asked to and no more |
| `live` | `Registry` | `RowsKept` (`PaneOnce`, `InboxOfLive`, `GivenListed`, `StartedOnce`), and with fairness `InboxesEmpty`, `RowsSettle`: inboxes empty, dead panes are delisted for good, starts end |
| `runs` | `MCRuns` | `OnePi`, `WaitersHaveRuns`, `RunsSound`, `ToldInScope` of `SubagentRuns`; `HeardAndCounted` of `RunReports` and `RunUsage` |
| `progress` | `MCProgress` | `PathSettles`, `OwedIsPaid`, `DaemonThere`: an accepted prompt gets its outcome, a queued one settles, a shell's end is told, a stopped run is final, a terminal has its daemon; `RunAndLinkTrue` meanwhile |
| `phone` | `MCPhone` | `ServerTrue`, `ShowsPane`, `ChatTrue`, `ServedRight`, `NothingLost`, `ListRight`: the switch and pairing, and what a phone shows and sends |
| `agent_view` | `MCAgentView` | `RowsTrue`, `CommandsTrue`, `DraftTrue`, `KeysMeant`, `KeepsRunning`, `OrderKept`: keys against what changes under them |
| `terminal` | `MCTerminal` | `ReportedTrue`, `ShellsTold`, `MonitorTold`, `TerminalKept`, `SilentOnceOver`, `NoLoginLost`, `RewindsRight`, `OnlyAsked`: what a pane keeps beside its turns |
| `restart_deletes` | `Registry` | the code disagrees with `GLOSSARY.md:94` |
| `shells_die_holding` | `Shells` | the code disagrees with `ext/background-bash/index.ts:218` |
| `resume_off_branch` | `SubagentRuns` | the code disagrees with `GLOSSARY.md:34` |
| `memory_overlap` | `Memory` | the code disagrees with `ext/memory/store.ts:81` |

Deadlock is checked in `runs`, where another session can always start, and not
elsewhere: each of the other systems may come to rest (every pane gone, every prompt
settled, the session over).

### Bounds, and why they are enough

- **`pane_path`**: two prompts, one row, two sessions (`f1`, `f2`), 2 answers not handled
  yet, 1 report not landed, 2 lifetimes of the daemon. What interferes is a second prompt, an
  answer or report that outlives its session, and a second lifetime. One outcome is old at a time
  (`AgeBound`), and none grows old, nor is a live pane let go of, in the second lifetime
  (`CalmLife`), which begins as the first did.
- **`table`** has eight parts, by who is there and what may happen (`Events`):
  *table* (2 panes on one session, a prompt; deaths and deletes), *lost* (the same;
  deaths and lost requests), *alone* (1 pane over 2 files, a prompt, a pin; reports,
  waits, switches, deletes, unlisting, restarts), *started* (the same without a prompt, with
  starts), *unsure* (1 pane over 2 files; deletes, switches, tmux failing), *runs* (an
  orchestrator and its run; deletes), *failing* (the same; deaths, tmux failing) and *opened* (the same with
  a third pane, of the user's, that opens the run's session once the run has ended; deletes). In
  *opened* no other session has a file and no heartbeat is late; every other combination is explored
  in full. Two panes make every case of the table: one silent
  and held while the other is live on the same row, two on one session file, an orchestrator
  and its run. A third would only lengthen a row's list of held panes.
- One prompt in `Registry`: the table treats prompts alike, and how they meet in the
  delivery is checked with two in `pane_path`. `InboxBound` caps an inbox; the code has
  no cap of its own, and the guard is on `Queue` and `Send`.
- One row id the daemon makes up (`u1`). It is reused once nothing refers to it
  (`FreshIds`); when it is in use, a register that would need another waits.
  `InboxesEmpty` excuses that case by name.
- **`runs`**: three calls, one of a run that reports twice, fails, ends and is resumed
  (`Busy`), one session with a tree of three places, room for 2 open runs; *report*, one
  run's own pi with a dialog and losses;
  *usage*, turns counted over resumes, `/new`, `/fork` and lost reports. Calls are numbered as they are
  made and names as they are first used, so that states differ only where it matters.
- **`progress`, `terminal`**: `KEPT` is as large as the number of the phone's prompts, so no list
  overflows (the code keeps 20). Two prompts of the phone's, which come in turn (`InTurn`), and one of the Mac's, all
  with handlers that may await in `terminal`, have each kind of entrant meet another in its handlers and in pi's queue. `QUIET_LOOKS` is 2 (the code has 10): enough for a count
  that is interrupted and starts over. Two shells are one that is evicted as the other
  ends, or one detached while the other's end is held; two sessions are all that resume,
  fork and `/new` tell apart; `ShellBound` has, for the liveness, two shells in one session or
  one in two. *path* is `PanePath` in one lifetime of the daemon, over two
  sessions of one file, with one answer and one report on its way. `monitor` fits bursts, the refill of a token and a sustained overload in
  its 8 ticks and 6 lines. Two clients and four processes are a daemon, its
  replacement, and one started at the same time by each client. *checkpoints* has two prompts, two writes, two rewinds
  and a tool call, five of these at most in one behaviour, with captures seven, and one prune at a time
  (`FewAtOnce`): a rewind over a prune or a tool that a prompt began, and a second that undoes it, are
  within. *deny* has a file by its name, by a link and relative to the working directory, and a program run bare, through
  as many wrappers as are looked through, and through more. *accounts* has three logins, one of them (`c`) without an
  identity.
- **`phone`, `agent_view`**: one or two of each thing a peer may add, remove or change,
  one or two requests on their way, and one or two breaks of a stream, restarts or
  changes: enough for an answer to be overtaken, come late, or be of something replaced. *control* asks for a third
  step only while no code was made (`FewAtOnce`); a step that closes a server and one that opens another follow
  the first, as remote control may be on from the start. *prompts*, with two, starts no session (`NoStart`); *prompt*, with
  one, does. *window* has two terminals and three panes: the first pane is the one the first terminal started
  or none's, and panes are used in turn (`InTurn`). *replies* types replies only, while sessions that run go away
  (`RepliesOnly`).
- Larger instances were run once without an error: `Monitors` with 12 ticks, 9 lines, a bucket of 2 and 4 suppressed events (20
  million), `SubagentRuns` with two busy runs over two sessions and five places (2.0
  million), `Registry`'s table invariants with all events, two panes, one file and one prompt
  (2.2 million).

`MCTerminal` and `MCRegistryParts` use symmetry over model values that no definition tells
apart, in runs without liveness.

### Assumptions of the models

- Late heartbeats come only from panes that died, or whose unregister was lost,
  and none after a quit's hand-off saved its row: the hand-off waits for the
  pane's tmux session to be gone (`hand-off.ts`). Both land within `START_MS` of the
  pane's end, the time a deleted row is remembered for.
- tmux answers the truth or that it does not know, never a falsehood.
- Names, ages and details of rows are data nothing else in the table depends on.
- `endPane` is modelled as the daemon asking (`asked`); the pane then quits or
  dies by its own action.
- pi starts a prompt it is idle for before anything else enters it. The
  repository's own input handlers await nothing. They are done before `QUIET_LOOKS`
  heartbeats have gone by, as the comment at `outcomes.ts:36` expects.
- Bash and monitor tools are those of main sessions: nothing in `src/` gives
  them to an agent, so a job's `agentId` and `stoppedBy` are left out.
- The tasks panel is closed when a session is switched, as switching takes the
  editor the panel covers; pi ends the turn first. `detachAll` detaches one shell
  a step. The caps on texts are left out.
- tmux ends the runs' panes it is asked to end, and reports sent while the orchestrator
  is up reach it; what is on its way as it dies is lost. The daemon has ended a dead
  orchestrator's runs by the time the user reloads the next one.
- A reload waits for the turn, and so for calls, and is not made with the tasks panel
  open. A run saved a session, so it can be resumed. Where a session goes on after a
  reload is the place it was at; after a restart, its file's last entry.
- Some constants name what a run leaves out, because with it TLC finds a disagreement
  listed below: `Faults` of `PhoneStarts`, `Meanwhile` of `PromptAssist`, `Detours` of `SubagentRuns`,
  `DiesHolding` of `Shells`, `RegistryFull` of `Monitors`, and the setting "model" of
  `PhoneSheet`. They are empty, or off, in the passing runs.
- Elsewhere the model does what the code does and it is the property that leaves a case out, by a history
  variable that marks just the prompt, file, list or login it happened to: `cutOff` (`PanePath`), `crossed`
  (`RemoteControl`), `misjudged`, `early` and `Emptied` (`PhoneChat`), `OutOfDate` (`PhoneList`), `misled`
  (`Outcomes`), `unseen` and `astray` (`Checkpoints`), `copied` (`RunUsage`), `Mistaken` (`Accounts`). Each is
  reached in its run, and named at the property and below.

### Fairness

`live` assumes that panes that are up keep beating (a timer of `HEARTBEAT_MS`,
`self-registration.ts:181`), that some agent view or phone keeps listing (agent
views poll each second, `agent-view.ts:416`; an open phone's stream does too),
that a pane that does not beat is in time past its TTL and its requests past,
that a hand-off in the end saves, and that tmux answers. Nothing is assumed of
users, of starts or of reports. The fairness of `Register`, `List` and `Save` is
written as "infinitely often nothing to do, or infinitely often taken", since
TLC evaluates `ENABLED` of these actions slowly; `LiveNext` is the part of the next-state
relation that `live` needs.

In `progress`, each part is fair only in its own behaviours (`Mine`): heartbeats go on and
input handlers, ticks and runs end (*prompts*); no panel stays open for good, and a session that was
shut down is followed by another, as pi's `session_shutdown` is by its `session_start`
(*shells*); a pane and a daemon that are up go on with what they began
(*daemon*); executes and writes end, and messages arrive or are given up
(*run*); heartbeats, their replies and the reports go on (a lost reply or report ends the pane's
promise: `lossy`), pi's run ends or takes up what it queued, a shutdown once begun goes on, and
tmux answers of a pane that is gone (*path*). Not that anyone presses Esc, compacts, stops a shell or ends a session, nor that a
process ends.

## Proofs

A theorem holds for every value of the constants that the module's assumptions allow;
the assumptions are those the modules declare, and TLC evaluates them on the runs.

**`PanePathProofs`, of `Delivery`**, for every set of prompts, notes, rows and panes and
every inbox bound, from `None \notin Row \cup Pane`,
`InboxBound \in Nat` and `Id \cap Note = {}`:

- `TypeCorrect`: `DSpec => []TypeOK`. `TypeOK` is inductive as it stands, one
  step per operation.
- `AlwaysAnswerable`: `DSpec => []Answerable`. Inductive together with `TypeOK`.
  A prompt unsettled after an operation was either untouched by it, and what held
  it still does, or was just queued or given to a pane; `ended` and `silent`
  settle all they empty the inbox of. `AppendKeeps` and `EmptiedKeepsOthers` are
  the facts about inboxes it rests on.
- `EndsSettle`: an action property, from the two invariants: an
  unsettled prompt of the row whose pane ended is in no inbox, so `Answerable`
  has it with some other pane.
- `ImplementsJourney`: `DSpec => JourneySpec`, the refinement mapping being the
  outcomes; initial states map to initial states and `JourneyStep` maps each step
  to a step or a stutter.

**`PanePathProofs`, of `PanePath`**, for every set of prompts, notes, rows, panes and files and every bound, from
`PathAssumption` (the pane and its row are ones, the bounds positive):

- `PathInvariant`: `Spec => []PathInv`. A prompt is in the inbox, in one reply, or with pi, and in
  one of them only (`WaitsOnce`, `OnItsWayOnce`, `OnePlace`); one that is anywhere was accepted
  (`Known`); while a session ends pi has what its stage says (`Stages`); and what a report or an
  outcome says is given up is spent: nowhere on its way to pi, and not queued by it
  (`SaidSpent`). `Moves` is the lemma the others rest on: how a step may take a prompt from
  one place to the next.
- `ImplementsDelivery`: `Spec => DSpec`: every step of the path is one of `Delivery` or leaves its
  variables alone. `PathAnswerable` and `PathJourney` carry over what is proved of `Delivery`.
- `AlwaysHandedRight`: at most one copy of a prompt is anywhere, and pi has it in the session it
  was sent for. The count in `HandedOnce` comes from the three places by cardinalities.
- `AlwaysSettledForGood`: what the phone was told is refused or lost pi does not start, but for the prompts which a
  pane had taken as the daemon let go of it alive (`cutOff`).

**`RegistryProofs`**, for every finite set of panes, any rows, files, prompts, notes, parents, pins
and inbox bound, and every set of `Events`. The assumptions are that a pane's id is a row's,
that `None` is neither a row, a file nor a record (`NoneIsNoRecord`), that a parent is a pane or `None`, and that
there are finitely many panes (`PanesAssumption`):

- `RegistryInvariant`: `RSpec => []IInv`. `IInv` is `Good(Now) /\ Calm(Now) /\ EnvRight /\ Graves`. `Good(s)` is a
  predicate of the daemon's state as a value: the types (`State`); each row sound by itself
  (`Sound`: the ids listed and held are different, a row holds panes only while it lists one, and
  lists one just when it is live or silent); no pane in two rows (`Apart`); messages for live
  rows only, a prompt's in its row's inbox (`WaitingRight`); an unsettled prompt's pane listed or held by
  its row (`Given`); and starts alone on their file (`Starts`). `Calm(s)` adds that a pane that waits is known and
  nothing is queued where it is live (`Heard`), and that no deleted row's pane, nor one that reaping dropped, is known
  (`StaysGone`). `EnvRight` types the panes, files and tmux around it. `Graves` ties them to what was: a deleted
  row's pane is kept in `deleted` until nothing of it is on its way, a run is younger than its orchestrator, and
  who was asked to end was deleted, or its orchestrator is gone for good or deleted.
- `RegistryTypes`: `RSpec => []RegistryTypeOK`; `RowsAlwaysKept`: `RSpec => []RowsKept`;
  `RowsKeptLive`: the same of `RLive`, whose steps are `RNext`'s without restarts and the like.
- `WakeupsNeverLost`: `RSpec => []NoLostWakeup`; `BuriedNeverListed`: `RSpec => []BuriedStayGone`;
  `EndsOnlyTheirs`: `RSpec => []EndsNoOther`. The run `table` checks the last by itself and the first two within
  `TableSound` and `AloneTrue`, for the panes and events of its parts.
- `RunsGoTogether`: an action property, the two halves of `RunsGo` each with what it needs. A delete leaves no run of the
  row's pane, listed or stored (`RunsDeleted`), when no run of it shares its row with another pane (`OwnRows`): a
  pane that is held goes on as the row when the listed one is dropped, and is only asked to end
  (`supervisor.ts:724`). No listing lets go of the stored row of a run whose orchestrator is up (`RunsListed`), when no run
  of an orchestrator that is gone is on one of the row's sessions (`RunsUp`): what is stored as that one ends is the same
  row, and says it is that one's. The first is followed through the rows that are deleted one after the other (`Thins`:
  no pane joins a row and nothing is stored that was not; `RowGone`), the second through the reaping before
  (`Keeps`: the row stays stored, for its own sessions and runs). Both hold with a tmux that cannot say. The run
  `table` checks `RunsGo` without those conditions, with one orchestrator and one run, in `RowsGoRight`; and that no other
  pane's row goes with a delete (`OnlyRunsDeleted`), but that of a pane which opened a run's session, as its row keeps the
  run's orchestrator (`PersistRow`).

None of the properties of `RowsKept` is inductive by itself: that taking a pane from its row leaves none of it
behind rests on `Sound` of that row, that an inbox is emptied when its row stops being live on `Sound` and
`Apart`, and that a prompt which was taken from an inbox is with the row it is recorded for on `WaitingRight`.
The proof goes operator by operator, as the code composes them: for each one of `RowTable` a lemma says that it
takes a `Good` state to a `Good` one, what it leaves alone, and how panes come and go by it (`Follows`: whoever
waits on is still known, and what is live was, with what was queued for it or nothing; `SamePanes`, `Reaps` and
`Deletion` for those that leave them, reap and delete) (`GoodBut(s, X)` between the settling of a
pane's prompts and its removal, where `Given` fails of just those), and each action's step is one of
these: all but a delete lead from one such state to another without bringing back a pane of a deleted row (`Leads`).
That a deleted row's pane stays away across a daemon's restart rests on `deleted`, which outlives it, and its being
let go (`OverDeleted`) on nothing of the pane being on its way any more. `ReapAllLapsed`, `EndAllGone`, `DeleteRows` and `Lacking` are recursive functions over a sequence; that
their values are `Good` (or a subsequence) is proved with sets in place of predicates, as the library's
induction rule takes an operator: a set of numbers that has 0 and with each number the next has all
(`NatSets`, from `<` being well-founded), and what begins with a value and goes on by a function exists up to
every n (`Recursion`). `PanesCounted` gives `PaneOnce`'s count by a bijection.

**`SubagentRunsProofs`**, for any runs, sessions, names, limits, generations and
places, from `BoundAssumption` (the bounds are naturals):

- `AlwaysOnePi`: `Spec => []OnePi`. `OnePi` is not inductive: that no pane of a run is
  up when its next generation starts rests on what its record says. `IInv` adds that
  a pane that is up is the last generation of a run stored as running (`Paned`), that
  the record of a run the scheduler knows is what it knows, and that a call not
  admitted yet has none (`Recorded`), with the types of these (`Typed`).
- `WaitersAlwaysHaveRuns`: `Spec => []WaitersHaveRuns`, from `Heard` of the same `IInv`,
  which adds that calls wait only while a session goes on.
- `RunsAlwaysSound`: `Detours = {} => (Spec => []RunsSound)`: an open run is heard (`NoStray`), in the
  scope that is current (`OpenInScope`), within the limit and under a name of its own
  (`AdmissionHolds`), and what is owed to the model is held for it (`OwedIsHeld`). `SInv` adds to
  `IInv` what a place in the tree says of its runs (`Placed`, `AllRefd`), what is left between two
  instances (`Between`, `Left`), and that a report is in one place (`OnceOnly`, `Owing`).
  The hypothesis says the user opens no run off branch and does not reload between a run's launch
  and its reference; with either TLC has the counterexamples below.
- `AlwaysToldInScope`: what the model is told was taken in for the scope that is current; from `SInv`.

`InvStep` has one step per action. `EndedKeeps` is shared by the four that end runs,
`StartedKeeps` by the two that start them; `SessionStart` takes over what
`Recorded` says of the records.

**`RemoteControl`**, in the module itself, for any ports, devices and bounds, from `RemoteAssumption`
(`None` is neither a port nor a device, the bounds are positive):

- `RemoteInvariant`: `Spec => []IInv`. Steps go one after the other, so those before one under way are done
  and those after it wait (`OneByOne`); one server holds a port, none is in use while a step is under way,
  and it keeps its port only until the step that closes it goes on (`Served`); the *last* step asked for goes by what
  `remote.json` says, or has yet to look, unless a command whose write failed changed the state it holds (`LastRight`); and only the last code made stands, unused (`CodesRight`).
- `ServerAlwaysTrue`: `Spec => []ServerTrue`. `ServerMatches` alone is not inductive: a command that comes in during
  a step changes the state it holds, or leaves it with an old one, and that this does no harm rests on the step it
  asked for behind it. The two cases in which it does (below) are said in `ServerMatches`.
  `StepGoesOn` says what a step's going on leaves of the queue, and `DecideIs` is shared by the two actions that decide.

**`RunScheduler`**, in the module itself, for any runs and messages, where the bounds are naturals (`BoundsNatural`):

- `AlwaysDurable`: `Spec => [](TypeOK /\ Durable)`. `Durable` speaks of runs that are final, or stored as closed, only.
  `StoredAs` says of the others what their record can be: one whose pi is waited for is not stored as closed, and one
  whose end is stored is stored as its result, unless even the failure could not be (`unstored`). `PaneAs` says that no
  pane is of a generation yet to come, and that one of the last is there only while its run waits for it.

**`RemoteCommand`**, in the module itself, for any terminals and phones, where `ChangeBound` is a natural:

- `OnlyAskedRemoved`: `Spec => OnlyAsked`, and `DaemonAlwaysLeft`: `Spec => []DaemonLeft`, from `CommandInv`. What is still
  to remove was asked for, and there is some only while removing (`OnlyRevoking`); a question about one phone is about
  one (`SureOf`). `DaemonLeft` is not inductive: that a terminal which starts the daemon leaves one rests on the login
  item being absent whenever the daemon is missing, with a terminal that turned it off still to start it (`DaemonOwed`).

**`Memory`**, in the module itself, for any panes, memories and facts, with no assumption:

- `AloneHeals`: `Spec => HealsAlone`, an action property, from `MemoryInv`: while a change is alone no other is under way
  (`AloneTrue`), so that what it has left to read is there and what it read is as it was (`FoundTrue`), whatever
  changes overlapped or died before it; only a pane at reading has files to read (`ReadsTodo`).

Run `terminal` checks `DaemonLeft` within `TerminalKept`, and `OnlyAsked` and `HealsAlone` as its `OnlyAsked`.

**`Accounts`**, in the module itself, for any logins and bounds, where `GrantBound` is a natural (`BoundNatural`) and `None` is
neither a number nor a credential (`NoneIsNone`):

- `AlwaysGrantOnce`: `Spec => [](Typed /\ GrantOnce)`. That the live login's tokens are saved in one account
  only rests on `LiveRight`: its grant is in no account but the active one, and either its tokens are the grant's
  latest or they are stored already. While a change is under way that is said of the login it found (`Live`), which
  a rollback brings back; `UnderWay` says what each stage has written, `OneLogin` that a grant is one login's.
- `AlwaysFailedLeavesLive`: `Spec => FailedLeavesLive`, an action property, from `UnderWay`.
- `AlwaysNoLoginLost`: `Spec => NoLoginLost`. Each step keeps each place's latest tokens in a file or
  lets go of them (`LiveKept`, `StoredKept`, place by place), whichever logins a provider gives no identity for
  (`Unnamed`). Two of which one has none are taken for the same by the code (below), and saving one over
  the other loses it: `Mistaken` is that login alone.

### Only model-checked

- Liveness (`PathSettles`, `InboxesEmpty`, `RowsSettle`, `OwedIsPaid`, `DaemonThere`): the prover
  handles neither fairness nor `ENABLED`.
- What recursion computes: `Outcomes`, `DenyRules`, `ViewOrder`, `ViewComposer` and
  `TasksPanel` use the folds and `SelectSeq` of the libraries, which the prover has no
  facts about.
- Of the registry: `PinSurvives` and `ErasedStayUnstored`, which hold with one pane; `LosesOnlyGone`, whose
  proof lacks that a prompt which was given to a pane is in no inbox; `RunsGo` without the conditions of
  `RunsGoTogether`; and the properties over several parts (`part = "x" => ...`) as such.

## Disagreements between the code and what is said of it

Four runs end in a counterexample, described in `PROJECT.json` under `findings`:

1. After a restart the daemon knows no panes: a row deleted before its pane
   beats again comes back with that beat (`supervisor.ts:745`, against `GLOSSARY.md:94`).
2. The end of a job is recorded in the session at once and its message only held
   while the tasks panel is open: pi dying then, the next resume takes the record
   for the message and the model is never told (`bash-tool.ts:195`, against
   `background-bash/index.ts:218`).
3. A resume does not ask for the branch, as a launch does: a run opened from
   `/tasks` after the user went to another branch is open off branch, and its
   reports are dropped (`admission.ts:269`, against `GLOSSARY.md:34`).
4. Two panes that change one project's memories rebuild the index from what each
   listed before: the last writer may leave it out of step (`memory/store.ts:84`,
   against `store.ts:81`).

Others met while modelling. *(modelled)*: the model has the case, and the property it would
break leaves out what it happened to; the others are kept out of the runs by what the runs include.

**Row table and delivery.**
- A quit's late hand-off stops whichever live pane is on the file, also one
  that opened the session since (`supervisor.ts:661`, against 649-650).
- A silent pane that another pane's row holds and that beats again on its own
  session is ended first, which says its prompts were lost while pi has them
  (`supervisor.ts:159`, against `GLOSSARY.md:90`; modelled in `PanePath`, `LetGo`).
- A lapsed pane tmux cannot say of is dropped and its prompts are said lost, though its pi may start them
  (`supervisor.ts:558`, against `delivery.ts:86-87`; the comment at 573 wants a pane that may be up not taken
  for dead; modelled in `PanePath`, `LetGo`). `LosesOnlyGone` is checked where tmux answers.
- A session opened on its own after it was a run's keeps the run's orchestrator in its stored row
  (`supervisor.ts:283`, 287): it is listed as that one's run, and goes as the orchestrator is deleted (modelled).
- Deleting a row that holds a silent pane leaves it listed as that pane
  (`supervisor.ts:737`, against `GLOSSARY.md:94`).
- Two quits of one session: the second save finds the deletion forgotten by the
  first and stores the row again (660, against 232-234), and so does a dead
  pane's late heartbeat. `DeletedStayAway` is checked for one pane, without lost requests.
- `/new` and back with the unregister lost leaves a live row unstored (286,
  against 268-270). `PinSurvives` is checked without lost requests.
- A pane back from silence takes a made-up row id although the row stored under
  its own id is its own session's (197, against 191).
- After a daemon's restart, prompts the pane has yet to report on are answered "lost"
  (`delivery.ts:145`, against the comment at 136-138 and `GLOSSARY.md:86`).

**The pane's prompts and reports.**
- Two prompts of one heartbeat that finds pi idle are both reported taken,
  while pi queues the second (`outcomes.ts:142`); emptied out of the queue then,
  it is never said to be lost. Likewise one whose handlers await while
  the user starts compacting. (modelled)
- A look at an idle pi forgets entrants still in their input handlers, and one
  of the Mac's that is queued later is taken for the phone's prompt, which is then said lost when pi
  may yet run it (`outcomes.ts:172`, against 163-165; modelled: `misled`).
- Phone prompts with the same text are told apart by order only: with slow
  handlers the outcomes of two of them may be swapped.
- A model switch that does nothing leaves the sheet's picker as it was
  (`report.ts:228-230`, against `control.ts:157-158`); a captured report may overwrite a newer one.

**The daemon's process, starts and remote control.**
- Two daemons may serve (`ipc/server.ts:77-80`); "the old daemon did not exit" is said when another
  pane's replacement answers; an orphan's shutdown removes the other's socket.
- A claim ends at `START_MS`, just before the kill timer of the pane it was for
  (`control.ts:144`, `supervisor.ts:359`); tmux may make a pane and not say so (`tmux.ts:217-221`); and
  after a restart a resume can start a second pane before the first beats.
- `setEnabled` changes the state that a step of `control.ts` holds before it writes it (`pairing.ts:131-134`; modelled). A
  port changed while the server starts is kept as the server's though it listens on the earlier one, and nothing
  moves it (`control.ts:203-227`, against "match `remote.json`" at 189). A command whose write fails while a step closes the
  server is refused, and yet the step goes by it: the server is off though `remote.json` says on (`control.ts:195-197`).
- `addDevice` over an unreadable `remote.json` rewrites it, though the comment at `pairing.ts:147`
  would keep it. The menu of /remote-control shows what was read before it: labels and codes
  may be stale, and a failed `launchctl bootstrap` leaves no daemon at start.
- A push is not made for a turn that a resumed pane ends between two looks.

**The phone app.**
- A start that got no pane in time empties the pending prompts of whatever chat is open (`app.js:468-469`,
  against `pending.js:3`); `checkSent` returns for good while a start is pending (2592). (modelled)
- A prompt whose answer is lost after the daemon accepted it is put back into the reply box while pi takes it
  (`app.js:2515-2518`, against 2535), and so may one that a phone which is behind gives up on. A turn's end that is listed
  before the pane's word on a prompt lets go of it (`chat.js:171`). (modelled)
- A list answered before one that is in already, or before the notification that opened a chat, leaves a chat whose row is
  there (`app.js:408-413`, against the comment; modelled: `OutOfDate`).
- An older page of another branch may come back empty and end the scrolling.
- Photos that cannot be read are dropped without a word (2340, 2349, against
  2325-2329), and a prompt put back may lose its images (2535, 2553).

**Agent view.**
- A reply's draft is cleared after the await, with what was typed meanwhile (`agent-view.ts:1408`), and
  a delete that lands closes any peek (1000).
- What was typed in the peek of a row that goes away is given, by the next move, to the row that took the focus
  (`agent-view.ts:643-651`, 793; modelled).
- tmux's hook ends a normal session as any terminal that shows it closes, also one that only switched to it while
  the one that started it still shows it (`tmux.ts:389-396`, `index.ts:277`, against `README.md:255-265`; modelled).
- A `!` command that had ended is marked stopped (`tmux.ts:289`, `rows.ts:53`, against `tmux.ts:80-81`); a child
  forked after `ps` is not stopped.
- In the composer, an image that arrives while `$EDITOR` is open is overwritten, and a `!` command
  sends no images. A failed write of an order leaves part of it.

**Shells, monitors and the tasks panel.**
- A WebSocket monitor stopped or expired whose job is evicted at its own end is
  judged by what the registry said as it started, and its socket's close line is
  told as an event after the end (`monitor-tool.ts:265`). `SilentOnceOver` fails with
  `RegistryFull` set. Events suppressed before a source ends by itself are never told.
- `findOrphanShells` is asked whether a shell is alive and is told whether the
  registry still lists it, finished or not (`background-bash/index.ts`).

**Subagent runs.**
- Going back in the tree to between a run's launch and the reference to it, which
  closes nothing, and reloading there: the run is adopted by no one and its pane stays up
  (`ext/subagents/index.ts:392`, against `GLOSSARY.md:38`). `RunsSound` fails with `Detours` set to
  `{"between"}`.
- A reload drops the reports still in the batch window (`parent-scope.ts:153`), and a
  switch that is called off has closed the runs of a session that goes on
  (`ext/subagents/index.ts:517`).
- A resume whose pane fails to start turns a closed run into a failed one, which
  cannot be resumed (`runs.ts:467`, against `GLOSSARY.md:22`).
- A run that settles with a dialog open says it waits (`self-registration.ts:74`, against 54-55); a state
  that was lost is not sent again. `/fork` counts what it copied of a session again (`storage.ts:454`, against
  `GLOSSARY.md:30`; modelled: `copied`).

**What a pane keeps.**
- Checkpoints, all modelled but the last: /rewind captures the tree as its menu opens and checks nothing
  until it restores (`index.ts:854` to 634 and 923, against "the restore is undoable" at 39-41): what a tool or the user writes
  meanwhile is overwritten and in no capture, and a prune that read the branch before may drop the net's ref (702). A
  capture ends with a prompt of another branch when a rewind left its own (171-185), and a safety net listed with
  a prompt counts as that prompt's checkpoint (617). A user's file written during the agent's bash is taken for
  the agent's, and one the agent adds to git for the user's.
- Accounts: a crash or a failed rollback stores a grant twice (`store.ts:264`); signing in again over
  a different live login matches the wrong account, and so do two logins of which one has no identity
  (`store.ts:99-112`; modelled: `Mistaken`).
- Prompt assist: going to another place in the tree over a turn leaves a stale suggestion, and
  toggling the setting lets a later prompt give the title.
- Memory: the menu deletes by name a memory that was replaced meanwhile, and a pane that dies amid
  a change leaves the index behind.

## Plan

1. `LosesOnlyGone` beyond one pane: what it needs is a tmux that can say and an orchestrator a session; its proof
   would add to `Good` that a prompt which was given to a pane is in no inbox.
2. Proofs: `Shells`' `EndIsLast`, `Monitors`' `SilentOnceOver`, and what `RunReports` and `RunUsage` say.
3. `PanePath` and `Registry` meet in `Delivery` only; a module with both would have
   the row a pane is listed as change under its prompts.

## Not modelled

Sockets, HTTP's bodies and headers, the cryptography of a push and files' formats are I/O; the phone app's and
the terminal's layout, gestures and texts are presentation; tmux, tailscale, launchctl, git and pi are
external and appear as what they may answer. Of the row table: names, ages, rename,
and the conversion of an older daemon's running rows at startup. Of permissions: the splitting of a
command line into words. Of memory: the section of the system prompt. Agent definitions are parsed
files without a state; web and the sandbox are network and process I/O.

## Running

`tlc -config RegistryParts.cfg MCRegistryParts.tla`, and likewise for each run of
`PROJECT.json`; `tlapm PanePathProofs.tla`, `tlapm RegistryProofs.tla`,
`tlapm SubagentRunsProofs.tla`, `tlapm RemoteControl.tla`, `tlapm RunScheduler.tla`,
`tlapm Accounts.tla`, `tlapm RemoteCommand.tla`, `tlapm Memory.tla`.
