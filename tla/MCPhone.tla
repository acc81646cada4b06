---- MODULE MCPhone ----
(***************************************************************************)
(* Model checking remote control, a part at a time.  The daemon's side: its*)
(* switch and pairing ("control"), its pushes ("push") and the phone's     *)
(* requests ("requests").  The app's: the reply a pane streams ("streams", *)
(* two replies over a stream that holds, and "breaks", one over a stream   *)
(* and sends that fail), the prompts sent from a chat ("prompt", one       *)
(* through daemon restarts, and "prompts", two), the list of sessions      *)
(* ("list"), the sheet of a pane's settings and tasks ("trust", "level"    *)
(* and "stop"), the pages of a transcript ("pages"), the photos of a       *)
(* prompt ("photos") and the panes started from it ("starts" with the      *)
(* claims on a session, "launches" with how a pane is started).            *)
(***************************************************************************)
EXTENDS RemoteControl, Sequences, SequencesExt

CONSTANTS q1, q2, d1, d2, s1, e1, e2, o1, t1, t2, p1, p2, r1, r2, k1, f1, f2, f3, f4,
          l1, l2

VARIABLES
  part,
  rows, last, looked, push, sent, present, browser, dead, used, enabling, news, told,
  ended,
  row, report, terminal, known, bodies, queued, answer,
  phase, reply, file, message, tools, ending, watched, shown, dirty, timer, queue,
  sending, fresh, lives, open, replyTold, stream, live, liveEnded, liveClear, held,
  page, asked, served, fails, drops,
  fate, life, chatKnown, reported, chatFile, state, chatOpen, pending, kept, replayed,
  statusIn, restored, chatPage, seen, due, chatAsked, post, by, mine, timers, box, starting,
  chatEnded, early, misjudged, leaves,
  label, taking, up, gone, listNews, listShown, asks, answers, chat, nth, left, backs,
  saving, renamed, listStarting, changes,
  pane, sheetWatched, beat, heard, inbox, sheetOpen, sheetStream, sheetNews,
  sheetReport, picker, request, fetches, posts, stopping, dying, picks, sheetChanges,
  breaks, restarted,
  size, above, leaf, pageTold, moves, pageChat, pageRequest, latest, older,
  album, reading, photoBox, photoSent, named, lost, photoLeft,
  startKept, startLatest, written, startStored, startServer, usable, panes, claims,
  granted, listed, startTimers, chosen, restarts, startChanges

Push == INSTANCE PhonePush WITH
  Session <- {s1}, Endpoint <- {e1, e2}, SettleBound <- 2
Requests == INSTANCE PhoneRequests WITH
  Offer <- {o1}, Title <- {t1, t2}
Streams == INSTANCE LiveReply WITH
  Replies <- 2, ToolReplies <- {1}, FaultBound <- 0, StreamBound <- 1, told <- replyTold
Breaks == INSTANCE LiveReply WITH
  Replies <- 1, ToolReplies <- {1}, FaultBound <- 1, StreamBound <- 2, told <- replyTold
One == INSTANCE PhoneChat WITH
  Prompt <- {p1}, FileBound <- 2, LeaveBound <- 1, RestartBound <- 1,
  known <- chatKnown, file <- chatFile, open <- chatOpen, page <- chatPage,
  asked <- chatAsked, ended <- chatEnded
Two == INSTANCE PhoneChat WITH
  Prompt <- {p1, p2}, FileBound <- 0, LeaveBound <- 1, RestartBound <- 0,
  known <- chatKnown, file <- chatFile, open <- chatOpen, page <- chatPage,
  asked <- chatAsked, ended <- chatEnded
List == INSTANCE PhoneList WITH
  Row <- {r1, r2}, Name <- {t1, t2}, AskBound <- 2, ChangeBound <- 2,
  ChatBound <- 2, news <- listNews, shown <- listShown, starting <- listStarting
Trust == INSTANCE PhoneSheet WITH
  Setting <- {"trust"}, Value <- {1, 2}, Task <- {}, Taken <- {1}, PickBound <- 1,
  MacBound <- 1, BreakBound <- 1, FetchBound <- 1, watched <- sheetWatched,
  open <- sheetOpen, stream <- sheetStream, news <- sheetNews, report <- sheetReport,
  changes <- sheetChanges
Level == INSTANCE PhoneSheet WITH
  Setting <- {"level"}, Value <- {1, 2}, Task <- {}, Taken <- {1}, PickBound <- 1,
  MacBound <- 1, BreakBound <- 1, FetchBound <- 2, watched <- sheetWatched,
  open <- sheetOpen, stream <- sheetStream, news <- sheetNews, report <- sheetReport,
  changes <- sheetChanges
Stop == INSTANCE PhoneSheet WITH
  Setting <- {}, Value <- {1, 2}, Task <- {k1}, Taken <- {1}, PickBound <- 1,
  MacBound <- 1, BreakBound <- 1, FetchBound <- 2, watched <- sheetWatched,
  open <- sheetOpen, stream <- sheetStream, news <- sheetNews, report <- sheetReport,
  changes <- sheetChanges
Pages == INSTANCE PhonePages WITH
  Limit <- 2, EntryBound <- 5, MoveBound <- 1, AskBound <- 2, told <- pageTold,
  chat <- pageChat, request <- pageRequest
Photos == INSTANCE PhoneImages WITH
  Photo <- {f1, f2, f3, f4}, ATTACH_MAX <- 2, PromptBound <- 2, box <- photoBox,
  sent <- photoSent, left <- photoLeft
Starts == INSTANCE PhoneStarts WITH
  File <- {f1}, Launch <- {l1}, Faults <- {}, PaneBound <- 2, RestartBound <- 1,
  ChangeBound <- 0, kept <- startKept, latest <- startLatest, stored <- startStored,
  server <- startServer, timers <- startTimers, changes <- startChanges
Launches == INSTANCE PhoneStarts WITH
  File <- {}, Launch <- {l1, l2}, Faults <- {}, PaneBound <- 1, RestartBound <- 1,
  ChangeBound <- 3, kept <- startKept, latest <- startLatest, stored <- startStored,
  server <- startServer, timers <- startTimers, changes <- startChanges

pushVars ==
  <<rows, last, looked, push, sent, present, browser, dead, used, enabling, news, told,
    ended>>
requestVars ==
  <<row, report, terminal, known, bodies, queued, answer>>
replyVars ==
  <<phase, reply, file, message, tools, ending, watched, shown, dirty, timer, queue,
    sending, fresh, lives, open, replyTold, stream, live, liveEnded, liveClear, held,
    page, asked, served, fails, drops>>
chatVars ==
  <<fate, life, chatKnown, reported, chatFile, state, chatOpen, pending, kept, replayed,
    statusIn, restored, chatPage, seen, due, chatAsked, post, by, mine, timers, box,
    starting, chatEnded, early, misjudged, leaves>>
listVars ==
  <<label, taking, up, gone, listNews, listShown, asks, answers, chat, nth, left, backs,
    saving, renamed, listStarting, changes>>
sheetVars ==
  <<pane, sheetWatched, beat, heard, inbox, sheetOpen, sheetStream, sheetNews,
    sheetReport, picker, request, fetches, posts, stopping, dying, picks, sheetChanges,
    breaks, restarted>>
pageVars ==
  <<size, above, leaf, pageTold, moves, pageChat, pageRequest, latest, older>>
photoVars ==
  <<album, reading, photoBox, photoSent, named, lost, photoLeft>>
startVars ==
  <<startKept, startLatest, written, startStored, startServer, usable, panes, claims,
    granted, listed, startTimers, chosen, restarts, startChanges>>

(* The third step is asked for before a code is made, or not at all. *)
FewAtOnce == codes' = 0 \/ Cardinality(DOMAIN steps') < StepBound

(* Two prompts wait while no session is being started. *)
NoStart == ~starting'

phoneInit ==
  /\ part \in {"control", "push", "requests", "streams", "breaks", "prompt", "prompts", "list",
       "trust", "level", "stop", "pages", "photos", "starts", "launches"}
  /\ Init
  /\ Push!Init
  /\ Requests!Init
  /\ IF part = "streams" THEN Streams!Init ELSE Breaks!Init
  /\ IF part = "prompt" THEN One!Init ELSE Two!Init
  /\ List!Init
  /\ IF part = "trust" THEN Trust!Init ELSE IF part = "level" THEN Level!Init ELSE Stop!Init
  /\ Pages!Init
  /\ Photos!Init
  /\ IF part = "starts" THEN Starts!Init ELSE Launches!Init
  /\ stored.port = q1                     \* the ports are alike
  /\ part # "control" => ~stored.enabled
  /\ part # "requests" => row.name = t1
  /\ part # "requests" => terminal
  /\ part \notin {"starts", "launches"} => startKept = None /\ ~startServer

phoneNext ==
  \/ part = "control" /\ Next /\ FewAtOnce /\ UNCHANGED
       <<part, pushVars, requestVars, replyVars, chatVars, listVars, sheetVars, pageVars,
         photoVars, startVars>>
  \/ part = "push" /\ Push!Next /\ UNCHANGED
       <<part, vars, requestVars, replyVars, chatVars, listVars, sheetVars, pageVars,
         photoVars, startVars>>
  \/ part = "requests" /\ Requests!Next /\ UNCHANGED
       <<part, vars, pushVars, replyVars, chatVars, listVars, sheetVars, pageVars,
         photoVars, startVars>>
  \/ part = "streams" /\ Streams!Next /\ UNCHANGED
       <<part, vars, pushVars, requestVars, chatVars, listVars, sheetVars, pageVars,
         photoVars, startVars>>
  \/ part = "breaks" /\ Breaks!Next /\ UNCHANGED
       <<part, vars, pushVars, requestVars, chatVars, listVars, sheetVars, pageVars,
         photoVars, startVars>>
  \/ part = "prompt" /\ One!Next /\ UNCHANGED
       <<part, vars, pushVars, requestVars, replyVars, listVars, sheetVars, pageVars,
         photoVars, startVars>>
  \/ part = "prompts" /\ Two!Next /\ NoStart /\ UNCHANGED
       <<part, vars, pushVars, requestVars, replyVars, listVars, sheetVars, pageVars,
         photoVars, startVars>>
  \/ part = "list" /\ List!Next /\ UNCHANGED
       <<part, vars, pushVars, requestVars, replyVars, chatVars, sheetVars, pageVars,
         photoVars, startVars>>
  \/ part = "trust" /\ Trust!Next /\ UNCHANGED
       <<part, vars, pushVars, requestVars, replyVars, chatVars, listVars, pageVars,
         photoVars, startVars>>
  \/ part = "level" /\ Level!Next /\ UNCHANGED
       <<part, vars, pushVars, requestVars, replyVars, chatVars, listVars, pageVars,
         photoVars, startVars>>
  \/ part = "stop" /\ Stop!Next /\ UNCHANGED
       <<part, vars, pushVars, requestVars, replyVars, chatVars, listVars, pageVars,
         photoVars, startVars>>
  \/ part = "pages" /\ Pages!Next /\ UNCHANGED
       <<part, vars, pushVars, requestVars, replyVars, chatVars, listVars, sheetVars,
         photoVars, startVars>>
  \/ part = "photos" /\ Photos!Next /\ UNCHANGED
       <<part, vars, pushVars, requestVars, replyVars, chatVars, listVars, sheetVars,
         pageVars, startVars>>
  \/ part = "starts" /\ Starts!Next /\ UNCHANGED
       <<part, vars, pushVars, requestVars, replyVars, chatVars, listVars, sheetVars,
         pageVars, photoVars>>
  \/ part = "launches" /\ Launches!Next /\ UNCHANGED
       <<part, vars, pushVars, requestVars, replyVars, chatVars, listVars, sheetVars,
         pageVars, photoVars>>

phoneSpec == phoneInit /\ [][phoneNext]_<<part, vars, pushVars, requestVars, replyVars, chatVars, listVars, sheetVars, pageVars, photoVars, startVars>>

(* At rest the app shows what the pane has: the transcript and nothing      *)
(* beside it (LiveReply), its settings and tasks (PhoneSheet), and one      *)
(* branch (PhonePages); one pane runs a session, and none of the phone's    *)
(* runs unseen (PhoneStarts).                                               *)
ShowsPane ==
  /\ part \in {"streams", "breaks"} => Streams!NothingLeftOver
  /\ part \in {"trust", "level", "stop"} => Level!ShowsPane /\ Level!StopsEnd
  /\ part = "pages" => Pages!OneBranch
  /\ part = "launches" => Launches!TypeOK
  /\ part = "starts" => Starts!TypeOK /\ Starts!OneEach /\ Starts!NoneUnseen

(* A prompt back in the reply box did not reach pi (PhoneChat) and holds no *)
(* more photos than one may (PhoneImages); leaving a chat goes back once    *)
(* (PhoneList).                                                             *)
ChatTrue ==
  /\ part = "prompts" => Two!TypeOK
  /\ part \in {"prompt", "prompts"} => Two!BackNotTaken
  /\ part = "photos" => Photos!FewEnough
  /\ part = "list" => List!OneStepBack

(* A look pushes what is news, and a late answer drops no newer             *)
(* subscription (PhonePush); a message, a rename or a delete is of the      *)
(* session as it is (PhoneRequests); a pane is started as chosen, and not    *)
(* ended once registered (PhoneStarts).                                     *)
ServedRight ==
  /\ Push!NewsPushed /\ Push!SubscriptionKept /\ Requests!AsListed
  /\ Starts!EndsUnregistered /\ Launches!LaunchRight

(* A reply stays on the screen until the transcript has it (LiveReply), and *)
(* a prompt is let go only for one pi took, or once the transcript moved    *)
(* (PhoneChat).                                                             *)
NothingLost == Streams!NoGap /\ [][\A p \in DOMAIN pending : Two!LetGoWell(p)]_chatVars

(* A chat is left for a row that is gone, and a name given from the phone   *)
(* stays (PhoneList).                                                       *)
ListRight == List!LeftMeansGone /\ List!NameStays
====
