----------------------------- MODULE Dashboard -----------------------------
(***************************************************************************)
(* The dashboard: task files that other processes move, the copy of them   *)
(* the server scans every two seconds and in some requests (server.py), and *)
(* what the browsers make of its WebSocket messages and of the answers of   *)
(* /api/state (frontend/index.html).                                        *)
(*                                                                          *)
(* Coroutines of the server run without interruption between awaits, but    *)
(* the files may change under a scan.  A browser's socket keeps the order   *)
(* of what was sent on it; answers travel on connections of their own.      *)
(***************************************************************************)
EXTENDS Integers, Sequences, SequencesExt

CONSTANTS
  Browsers,
  Tasks, Agents,
  Owner,        \* of each task: assigned_to
  NoHash,       \* the empty last_hash of a server that has just started
  KeepMax,      \* a discussion longer than this (200) is cut
  KeepLast,     \* to its last entries (100)
  OldFiles,     \* the files there may be when the server starts
  OldEntries,   \* the number of entries in the log then
  Budgets       \* bounds: a behaviour has as many moves of files, adoptions, entries,
                \* events and faults as one of these records says

Rows == {"pending", "processing", "done"} \X Tasks

ASSUME DashboardAssumption ==
  /\ Owner \in [Tasks -> Agents]
  /\ KeepLast \in Nat /\ KeepMax \in Nat /\ KeepLast <= KeepMax
  /\ OldFiles \subseteq SUBSET Rows
  /\ OldEntries \in Nat
  /\ Budgets \subseteq [moves : Nat, adopts : Nat, entries : Nat, events : Nat, faults : Nat]

VARIABLES
  files,     \* task files: pairs of a bucket and a task
  log,       \* live.jsonl
  recorded,  \* number of events in the ledger
  tasks, agents, disc,  \* state["tasks"], state["agents"], state["discussion"]
  lastSent,  \* the tasks whose hash is last_hash
  sock,      \* of each browser: its WebSocket
  wire,      \* of each browser: messages sent to it and not yet shown
  view,      \* of each browser: what it shows
  asked,     \* of each browser: requests of /api/state on their way
  answers,   \* of each browser: answers on their way, oldest first, each with the
             \* number of messages sent before it that are not yet shown
  crossed,   \* history, of each browser: the last answer it showed since the first message
             \* of its socket was out of turn: overtaken by a message or a newer answer, or
             \* shown before a message that is older
  stale,     \* history, of each browser: it is crossed, and periodic has sent it no change
             \* of the tasks since
  missed,    \* history, of each browser: it was not told of an event, or an older answer
             \* took one away from it again
  returned,  \* history: unsent changes of the tasks were undone
  blank,     \* history: an entry without a text was pushed
  left       \* what is left of the budget

disk == <<files, log, recorded>>
board == <<tasks, agents, lastSent, returned>>
browser == <<sock, wire, view, asked, answers, crossed, stale, missed>>
vars == <<disk, board, disc, browser, blank, left>>

Buckets == <<"pending", "processing", "done">>
Blank == 0   \* an entry without a text; others are numbered

Free == [a \in Agents |-> "online"]

Init ==
  /\ files \in OldFiles /\ log = [i \in 1 .. OldEntries |-> i] /\ recorded = 0
  /\ tasks = {} /\ agents = Free /\ disc = log
  /\ lastSent = NoHash
  /\ sock = [b \in Browsers |-> "closed"]
  /\ wire = [b \in Browsers |-> <<>>]
  /\ view = [b \in Browsers |-> [tasks |-> {}, agents |-> Free, disc |-> <<>>, events |-> 0]]
  /\ asked = [b \in Browsers |-> 1]
  /\ answers = [b \in Browsers |-> <<>>]
  /\ crossed = [b \in Browsers |-> FALSE] /\ stale = crossed
  /\ missed = [b \in Browsers |-> FALSE]
  /\ returned = FALSE /\ blank = FALSE
  /\ left \in Budgets

-----------------------------------------------------------------------------
(* The task files and the scan.                                            *)

Spend(what) == left' = [left EXCEPT ![what] = @ - 1]

\* What another process makes of the files in a step.
Moved(from) ==
  {from \cup {<<Buckets[1], t>>} : t \in Tasks}
  \cup {from \ {x} : x \in from}
  \cup {(from \ {x}) \cup {<<Buckets[i], x[2]>>} : x \in from, i \in 1 .. 3}

FilesMove ==
  /\ left.moves > 0 /\ Spend("moves")
  /\ files' \in Moved(files) \ {files}
  /\ UNCHANGED <<log, recorded, board, disc, browser, blank>>

\* scan_tasks of the files, or of what this request has just made of them: bucket
\* after bucket, while another process may move a file.
Scan(new, spent) ==
  \E after \in {new} \cup (IF spent.moves > 0 THEN Moved(new) ELSE {}), k \in 1 .. 2 :
    /\ files' = after
    /\ left' = IF after = new THEN spent ELSE [spent EXCEPT !.moves = @ - 1]
    /\ tasks' = {x \in new : \E i \in 1 .. k : x[1] = Buckets[i]}
                \cup {x \in after : \E i \in (k + 1) .. 3 : x[1] = Buckets[i]}

Undone == returned \/ (tasks # lastSent /\ tasks' = lastSent)

Busy(ts, a) == \E t \in Tasks : Owner[t] = a /\ <<"processing", t>> \in ts

\* Mutant: an agent that has finished is never idle or online again.
UpdateAgents_Sticky ==
  agents' = [a \in Agents |-> IF Busy(tasks', a) THEN "working" ELSE agents[a]]

UpdateAgents ==
  agents' = [a \in Agents |->
               IF Busy(tasks', a) THEN "working"
               ELSE IF agents[a] = "working" THEN "idle" ELSE "online"]

-----------------------------------------------------------------------------
(* The server's messages.                                                  *)

Open == {b \in Browsers : sock[b] = "open"}

TasksMsg(ts) == [t |-> "tasks", tasks |-> ts]
AgentsMsg(as) == [t |-> "agents", agents |-> as]
EntryMsg(e) == [t |-> "entry", entry |-> e]
EventMsg == [t |-> "event"]

Broadcast(msgs) == wire' = [b \in Browsers |-> IF b \in Open THEN wire[b] \o msgs ELSE wire[b]]

\* Mutant: the messages are sent before update_agents.
Periodic_AgentsLater ==
  /\ Scan(files, left) /\ UpdateAgents
  /\ \/ /\ tasks' # lastSent
        /\ Broadcast(<<TasksMsg(tasks'), AgentsMsg(agents)>>)
        /\ lastSent' = tasks' /\ returned' = FALSE
        /\ stale' = [b \in Browsers |-> stale[b] /\ b \notin Open]
     \/ /\ tasks' = lastSent
        /\ returned' = Undone
        /\ UNCHANGED <<wire, lastSent, stale>>
  /\ UNCHANGED <<log, recorded, disc, sock, view, asked, answers, crossed, missed, blank>>

\* An iteration of periodic: tasks and agents are only sent when the hash of the
\* tasks is another one.
Periodic ==
  /\ Scan(files, left) /\ UpdateAgents
  /\ \/ /\ tasks' # lastSent
        /\ Broadcast(<<TasksMsg(tasks'), AgentsMsg(agents')>>)
        /\ lastSent' = tasks' /\ returned' = FALSE
        /\ stale' = [b \in Browsers |-> stale[b] /\ b \notin Open]
     \/ /\ tasks' = lastSent
        /\ returned' = Undone
        /\ UNCHANGED <<wire, lastSent, stale>>
  /\ UNCHANGED <<log, recorded, disc, sock, view, asked, answers, crossed, missed, blank>>

\* api_collab_adopt: a task of the mesh becomes a pending file; only tasks are sent.
Adopt(t) ==
  /\ left.adopts > 0
  /\ Scan(files \cup {<<Buckets[1], t>>}, [left EXCEPT !.adopts = @ - 1]) /\ UpdateAgents
  /\ Broadcast(<<TasksMsg(tasks')>>)
  /\ returned' = Undone
  /\ UNCHANGED <<log, recorded, disc, lastSent, sock, view, asked, answers, crossed, stale,
                 missed, blank>>

\* An event is in the ledger: the browsers are told that there is one.
Tells ==
  /\ recorded' = recorded + 1
  /\ missed' = [b \in Browsers |-> missed[b] \/ b \notin Open]

EventRecorded ==
  /\ left.events > 0 /\ Spend("events")
  /\ Tells /\ Broadcast(<<EventMsg>>)
  /\ UNCHANGED <<files, log, board, disc, sock, view, asked, answers, crossed, stale, blank>>

\* api_collab_export: the tasks are scanned, the agents are not updated.  The task is
\* not there, or the vault refuses it, or it is recorded and the browsers are told.
Export(t) ==
  /\ \/ /\ left.events > 0 /\ Scan(files, [left EXCEPT !.events = @ - 1])
        /\ \E x \in tasks' : x[2] = t
        /\ Tells /\ Broadcast(<<EventMsg>>)
     \/ /\ Scan(files, left)
        /\ UNCHANGED <<recorded, missed, wire>>
  /\ returned' = Undone
  /\ UNCHANGED <<log, agents, lastSent, disc, sock, view, asked, answers, crossed, stale,
                 blank>>

Trim(s) == IF Len(s) > KeepMax THEN SubSeq(s, Len(s) - KeepLast + 1, Len(s)) ELSE s

\* append_discussion and its message; the log may not be writable.
Push(e) ==
  /\ left.entries > 0
  /\ \/ log' = Append(log, e) /\ Spend("entries")
     \/ /\ left.faults > 0 /\ UNCHANGED log
        /\ left' = [left EXCEPT !.entries = @ - 1, !.faults = @ - 1]
  /\ disc' = Trim(Append(disc, e))
  /\ blank' = (blank \/ e = Blank)
  /\ Broadcast(<<EntryMsg(e)>>)
  /\ UNCHANGED <<files, recorded, board, sock, view, asked, answers, crossed, stale, missed>>

\* aio_ws: the snapshot is the first message of a socket.
Connect(b) ==
  /\ sock[b] = "closed"
  /\ sock' = [sock EXCEPT ![b] = "open"]
  /\ wire' = [wire EXCEPT ![b] =
       <<[t |-> "init", tasks |-> tasks, agents |-> agents, disc |-> disc]>>]
  /\ UNCHANGED <<disk, board, disc, view, asked, answers, crossed, stale, missed, blank, left>>

\* api_state.
ApiState(b) ==
  /\ asked[b] > 0
  /\ asked' = [asked EXCEPT ![b] = @ - 1]
  /\ Scan(files, left) /\ UpdateAgents /\ returned' = Undone
  /\ answers' = [answers EXCEPT ![b] = Append(@,
       [tasks |-> tasks', agents |-> agents', disc |-> disc, events |-> recorded,
        ahead |-> Len(wire[b])])]
  /\ UNCHANGED <<log, recorded, disc, lastSent, sock, wire, view, crossed, stale, missed, blank>>

-----------------------------------------------------------------------------
(* The browser.                                                            *)

\* Mutant: the browser does not cut its list.
Shown_Uncut(v, msg) ==
  CASE msg.t = "init" ->
         [v EXCEPT !.tasks = msg.tasks, !.agents = msg.agents, !.disc = msg.disc]
    [] msg.t = "tasks" -> [v EXCEPT !.tasks = msg.tasks]
    [] msg.t = "agents" -> [v EXCEPT !.agents = msg.agents]
    [] msg.t = "entry" /\ msg.entry # Blank -> [v EXCEPT !.disc = Append(@, msg.entry)]
    [] OTHER -> v

\* onmessage, updateUI: what is shown after a message.
Shown(v, msg) ==
  CASE msg.t = "init" ->
         [v EXCEPT !.tasks = msg.tasks, !.agents = msg.agents, !.disc = msg.disc]
    [] msg.t = "tasks" -> [v EXCEPT !.tasks = msg.tasks]
    [] msg.t = "agents" -> [v EXCEPT !.agents = msg.agents]
    [] msg.t = "entry" /\ msg.entry # Blank -> [v EXCEPT !.disc = Trim(Append(@, msg.entry))]
    [] OTHER -> v

\* Of the answers on their way: one message fewer is ahead, or they are overtaken (-1).
Behind(as) == [i \in DOMAIN as |-> [as[i] EXCEPT !.ahead = IF @ < 0 THEN -1 ELSE @ - 1]]

\* Mutant: an event is not followed by a request.
Deliver_NoRefresh(b) ==
  /\ wire[b] # <<>>
  /\ LET msg == Head(wire[b]) IN
       /\ view' = [view EXCEPT ![b] = Shown(@, msg)]
       /\ crossed' = [crossed EXCEPT ![b] = @ /\ msg.t # "init"]
       /\ stale' = [stale EXCEPT ![b] = @ /\ msg.t # "init"]
  /\ wire' = [wire EXCEPT ![b] = Tail(@)]
  /\ answers' = [answers EXCEPT ![b] = Behind(@)]
  /\ UNCHANGED <<disk, board, disc, sock, asked, missed, blank, left>>

\* An event makes the browser ask for the state.
Deliver(b) ==
  /\ wire[b] # <<>>
  /\ LET msg == Head(wire[b]) IN
       /\ view' = [view EXCEPT ![b] = Shown(@, msg)]
       /\ asked' = [asked EXCEPT ![b] = IF msg.t = "event" THEN @ + 1 ELSE @]
       /\ crossed' = [crossed EXCEPT ![b] = @ /\ msg.t # "init"]
       /\ stale' = [stale EXCEPT ![b] = @ /\ msg.t # "init"]
  /\ wire' = [wire EXCEPT ![b] = Tail(@)]
  /\ answers' = [answers EXCEPT ![b] = Behind(@)]
  /\ UNCHANGED <<disk, board, disc, sock, missed, blank, left>>

\* refreshState gets an answer, whatever came in the meantime.  Those that are still
\* on their way and older have been overtaken now.
AnswerShown(b) ==
  \E i \in DOMAIN answers[b] :
    LET ans == answers[b][i] IN
    /\ view' = [view EXCEPT ![b] = [tasks |-> ans.tasks, agents |-> ans.agents,
                                    disc |-> ans.disc, events |-> ans.events]]
    /\ crossed' = [crossed EXCEPT ![b] = ans.ahead # 0]
    /\ stale' = [stale EXCEPT ![b] = ans.ahead # 0]
    /\ missed' = [missed EXCEPT ![b] = (@ \/ ans.events < view[b].events)
                                       /\ ans.events # recorded]
    /\ answers' = [answers EXCEPT ![b] =
         [j \in 1 .. Len(@) - 1 |-> IF j < i THEN [@[j] EXCEPT !.ahead = -1] ELSE @[j + 1]]]
    /\ UNCHANGED <<disk, board, disc, sock, wire, asked, blank, left>>

\* A request or its answer is lost: refreshState does not try again.
FetchFails(b) ==
  /\ left.faults > 0 /\ Spend("faults")
  /\ \/ asked[b] > 0 /\ asked' = [asked EXCEPT ![b] = @ - 1] /\ UNCHANGED answers
     \/ answers[b] # <<>> /\ answers' = [answers EXCEPT ![b] = Tail(@)] /\ UNCHANGED asked
  /\ missed' = [missed EXCEPT ![b] = TRUE]
  /\ UNCHANGED <<disk, board, disc, sock, wire, view, crossed, stale, blank>>

\* Mutant: what was on a socket is kept for the next one.
Closes_Kept(bs) ==
  /\ sock' = [b \in Browsers |-> IF b \in bs THEN "closed" ELSE sock[b]]
  /\ UNCHANGED <<wire, answers>>

\* Sockets that close lose what was on them.
Closes(bs) ==
  /\ sock' = [b \in Browsers |-> IF b \in bs THEN "closed" ELSE sock[b]]
  /\ wire' = [b \in Browsers |-> IF b \in bs THEN <<>> ELSE wire[b]]
  /\ answers' = [b \in Browsers |->
       IF b \in bs
       THEN [i \in DOMAIN answers[b] |-> [answers[b][i] EXCEPT !.ahead = IF @ > 0 THEN 0 ELSE @]]
       ELSE answers[b]]

Drop(b) ==
  /\ b \in Open
  /\ left.faults > 0 /\ Spend("faults")
  /\ Closes({b})
  /\ missed' = [missed EXCEPT ![b] = @ \/ Contains(wire[b], EventMsg)]
  /\ UNCHANGED <<disk, board, disc, view, asked, crossed, stale, blank>>

\* The server ends and starts again: the discussion is read from the log.
Restart ==
  /\ left.faults > 0 /\ Spend("faults")
  /\ Closes(Browsers)
  /\ asked' = [b \in Browsers |-> 0]
  /\ missed' = [b \in Browsers |-> missed[b] \/ asked[b] > 0 \/ Contains(wire[b], EventMsg)]
  /\ tasks' = {} /\ agents' = Free /\ disc' = log
  /\ lastSent' = NoHash /\ returned' = FALSE
  /\ UNCHANGED <<disk, view, crossed, stale, blank>>

-----------------------------------------------------------------------------
Next ==
  \/ FilesMove \/ Periodic \/ EventRecorded \/ Restart
  \/ \E t \in Tasks : Adopt(t) \/ Export(t)
  \/ \E e \in {Blank, OldEntries + left.entries} : Push(e)
  \/ \E b \in Browsers : \/ Connect(b) \/ ApiState(b) \/ Deliver(b) \/ AnswerShown(b)
                         \/ FetchFails(b) \/ Drop(b)

Spec == Init /\ [][Next]_vars

\* periodic goes on, closed sockets are opened again, and what is on its way arrives.
Fairness ==
  /\ WF_vars(Periodic)
  /\ \A b \in Browsers : /\ WF_vars(Connect(b)) /\ WF_vars(ApiState(b))
                         /\ WF_vars(Deliver(b)) /\ WF_vars(AnswerShown(b))

FairSpec == Spec /\ Fairness

-----------------------------------------------------------------------------
(* Properties.                                                             *)

States == [Agents -> {"online", "idle", "working"}]
View == [tasks : SUBSET Rows, agents : States, disc : Seq(Nat), events : Nat]
Answer == [tasks : SUBSET Rows, agents : States, disc : Seq(Nat), events : Nat, ahead : Int]
Message ==
  [t : {"init"}, tasks : SUBSET Rows, agents : States, disc : Seq(Nat)]
  \cup [t : {"tasks"}, tasks : SUBSET Rows] \cup [t : {"agents"}, agents : States]
  \cup [t : {"entry"}, entry : Nat] \cup [t : {"event"}]

\* The types of the server's and the browsers' state: a browser never shows an event
\* that is not recorded, and a closed socket holds nothing for the next one.
TypeOK ==
  /\ files \subseteq Rows /\ tasks \subseteq Rows
  /\ lastSent = NoHash \/ lastSent \subseteq Rows
  /\ agents \in States
  /\ log \in Seq(Nat) /\ disc \in Seq(Nat)
  /\ recorded \in Nat
  /\ sock \in [Browsers -> {"open", "closed"}]
  /\ wire \in [Browsers -> Seq(Message)]
  /\ view \in [Browsers -> View]
  /\ asked \in [Browsers -> Nat]
  /\ answers \in [Browsers -> Seq(Answer)]
  /\ left \in [moves : Nat, adopts : Nat, entries : Nat, events : Nat, faults : Nat]
  /\ crossed \in [Browsers -> BOOLEAN] /\ stale \in [Browsers -> BOOLEAN]
  /\ missed \in [Browsers -> BOOLEAN]
  /\ returned \in BOOLEAN /\ blank \in BOOLEAN
  /\ \A b \in Browsers :
       /\ view[b].events <= recorded
       /\ sock[b] = "closed" => wire[b] = <<>>
       /\ \A j \in 1 .. Len(answers[b]) :
            /\ answers[b][j].events <= recorded
            /\ answers[b][j].ahead \in -1 .. Len(wire[b])

\* Nothing more is on its way to this browser.  What is sent to it is delivered without
\* a change of the server: what it will show later, it shows in another state.
Settled(b) == sock[b] = "open" /\ wire[b] = <<>>

\* A browser with nothing on its way to it shows the server's discussion, entry for
\* entry, through cuts, restarts and reconnections (append_discussion, updateUI).  Two
\* exceptions: an entry without a text, which only the server keeps, was pushed; or the
\* last answer of /api/state was shown out of turn.  refreshState lets it replace the
\* list whatever came meanwhile (index.html:356): an entry is then missing or shown
\* twice, until an answer comes in its turn or the socket is opened again.
DiscussionInStep ==
  ~blank => \A b \in Browsers : Settled(b) /\ ~crossed[b] => view[b].disc = disc

Agrees(v, ts) == v.tasks = ts /\ \A a \in Agents : (v.agents[a] = "working") = Busy(ts, a)

\* A browser that shows other tasks or other busy agents than the server has, and has
\* nothing on its way, will be told by periodic: scans of requests it is not told of, also
\* while changes are on their way, never make last_hash pass for what it shows.  Two
\* exceptions, of which periodic sees nothing (server.py:305): a change some request or
\* snapshot has shown was undone before periodic sent it; or an answer was shown out of
\* turn and no change has been sent since.
NoChangeUntold ==
  tasks = lastSent /\ ~returned =>
    \A b \in Browsers : Settled(b) /\ ~stale[b] => Agrees(view[b], tasks)

\* "tasks_update on FS change": when files stop moving, every browser comes to show them
\* and who is at work on them, also one that an answer out of turn had put back, if a
\* change was sent to it after that.  The exceptions of NoChangeUntold stay: where they
\* hold at the end, the code tells the browser nothing until the next change of the files
\* or the next connection.
BoardConverges ==
  <>[](~returned => \A b \in Browsers :
         sock[b] = "open" /\ ~stale[b] => Agrees(view[b], files))

\* collab_event, collab_node: a browser that is told of every event comes to show them
\* all, through however many requests at once, unless an older answer is the last to come.
EventsShown ==
  <>[](\A b \in Browsers : ~missed[b] => view[b].events = recorded)
=============================================================================
