-------------------------- MODULE DashboardProofs --------------------------
(***************************************************************************)
(* Proofs about Dashboard, for any browsers, tasks, agents, owners and     *)
(* cuts of the discussion: types, and that every browser shows, or is on   *)
(* its way to show, what the server has.                                   *)
(***************************************************************************)
EXTENDS Dashboard, SequenceTheorems, TLAPS

(***************************************************************************)
(* Sequences.                                                              *)
(***************************************************************************)

\* Append, place by place.
LEMMA AppendPlaces ==
  ASSUME NEW S, NEW s \in Seq(S), NEW e \in S
  PROVE  /\ Append(s, e) \in Seq(S) /\ Len(Append(s, e)) = Len(s) + 1
         /\ Append(s, e)[Len(s) + 1] = e
         /\ \A i \in 1 .. Len(s) : Append(s, e)[i] = s[i]
OBVIOUS

\* Head and Tail, place by place.
LEMMA TailPlaces ==
  ASSUME NEW S, NEW s \in Seq(S), s # <<>>
  PROVE  /\ Head(s) \in S /\ Head(s) = s[1] /\ Tail(s) \in Seq(S)
         /\ Len(s) \in Nat \ {0} /\ Len(Tail(s)) = Len(s) - 1
         /\ \A i \in 1 .. Len(Tail(s)) : Tail(s)[i] = s[i + 1]
OBVIOUS

\* Two messages sent at once are one sent after the other.
LEMMA TwoSent ==
  ASSUME NEW S, NEW w \in Seq(S), NEW m \in S, NEW n \in S
  PROVE  /\ w \o <<m>> = Append(w, m)
         /\ w \o <<m, n>> = Append(Append(w, m), n)
OBVIOUS

\* A discussion that is cut is one (append_discussion, updateUI).
LEMMA TrimType ==
  ASSUME DashboardAssumption, NEW s \in Seq(Nat)
  PROVE  Trim(s) \in Seq(Nat)
<1>1. CASE Len(s) > KeepMax
  <2>1. /\ Len(s) \in Nat /\ Len(s) - KeepLast + 1 \in 1 .. Len(s) + 1
    BY <1>1 DEF DashboardAssumption
  <2>2. SubSeq(s, Len(s) - KeepLast + 1, Len(s)) \in Seq(Nat)
    BY <2>1
  <2> QED BY <1>1, <2>2 DEF Trim
<1>2. CASE ~(Len(s) > KeepMax)
  BY <1>2 DEF Trim
<1> QED BY <1>1, <1>2

(***************************************************************************)
(* Messages and views.                                                     *)
(***************************************************************************)

\* The server's messages.
LEMMA MessageTypes ==
  /\ \A ts \in SUBSET Rows : TasksMsg(ts) \in Message
  /\ \A ag \in States : AgentsMsg(ag) \in Message
  /\ \A e \in Nat : EntryMsg(e) \in Message
  /\ EventMsg \in Message
  /\ \A ts \in SUBSET Rows, ag \in States, d \in Seq(Nat) :
       [t |-> "init", tasks |-> ts, agents |-> ag, disc |-> d] \in Message
BY DEF TasksMsg, AgentsMsg, EntryMsg, EventMsg, Message

\* What a browser shows after a message (updateUI) is something it may show, and the
\* number of its events is what it was.
LEMMA ShownType ==
  ASSUME DashboardAssumption, NEW v \in View, NEW m \in Message
  PROVE  Shown(v, m) \in View /\ Shown(v, m).events = v.events
<1>1. CASE m \in [t : {"init"}, tasks : SUBSET Rows, agents : States, disc : Seq(Nat)]
  BY <1>1 DEF Shown, View
<1>2. CASE m \in [t : {"tasks"}, tasks : SUBSET Rows]
  BY <1>2 DEF Shown, View
<1>3. CASE m \in [t : {"agents"}, agents : States]
  BY <1>3 DEF Shown, View
<1>4. CASE m \in [t : {"entry"}, entry : Nat]
  <2>1. Trim(Append(v.disc, m.entry)) \in Seq(Nat)
    <3>1. v.disc \in Seq(Nat) /\ m.entry \in Nat
      BY <1>4 DEF View
    <3>2. Append(v.disc, m.entry) \in Seq(Nat)
      BY <3>1
    <3> QED BY <3>2, TrimType
  <2> QED BY <1>4, <2>1 DEF Shown, View
<1>5. CASE m \in [t : {"event"}]
  BY <1>5 DEF Shown, View
<1> QED BY <1>1, <1>2, <1>3, <1>4, <1>5 DEF Message

\* A browser that shows v and is delivered w from its message k + 1 on comes to show u.
Ends(w, k, v, u) ==
  \E p : /\ p[k] = v /\ p[Len(w)] = u
         /\ \A i \in (k + 1) .. Len(w) : p[i] = Shown(p[i - 1], w[i])

\* Nothing is left to deliver.
LEMMA EndsNow ==
  ASSUME NEW S, NEW w \in Seq(S), NEW v
  PROVE  Ends(w, Len(w), v, v)
<1> DEFINE p == [i \in {Len(w)} |-> v]
<1>1. p[Len(w)] = v /\ Len(w) \in Nat
  OBVIOUS
<1> HIDE DEF p
<1> QED BY <1>1 DEF Ends

\* One more message is sent (broadcast).
LEMMA EndsSent ==
  ASSUME NEW S, NEW w \in Seq(S), NEW m \in S, NEW k \in 0 .. Len(w),
         NEW v, NEW u, Ends(w, k, v, u)
  PROVE  Ends(Append(w, m), k, v, Shown(u, m))
<1>1. PICK p : /\ p[k] = v /\ p[Len(w)] = u
               /\ \A i \in (k + 1) .. Len(w) : p[i] = Shown(p[i - 1], w[i])
  BY DEF Ends
<1> DEFINE a == Append(w, m)
           q == [i \in k .. Len(w) + 1 |-> IF i <= Len(w) THEN p[i] ELSE Shown(u, m)]
<1>2. /\ Len(w) \in Nat /\ Len(a) = Len(w) + 1 /\ a[Len(w) + 1] = m
      /\ \A i \in 1 .. Len(w) : a[i] = w[i]
  BY AppendPlaces
<1>3. /\ \A i \in k .. Len(w) : q[i] = p[i]
      /\ q[Len(w) + 1] = Shown(u, m)
  BY <1>2
<1> HIDE DEF a, q
<1>4. q[k] = v /\ q[Len(a)] = Shown(u, m)
  BY <1>1, <1>2, <1>3
<1>5. ASSUME NEW i \in (k + 1) .. Len(a) PROVE q[i] = Shown(q[i - 1], a[i])
  <2>1. CASE i = Len(w) + 1
    <3>1. i - 1 = Len(w) /\ Len(w) \in k .. Len(w)
      BY <1>2, <2>1
    <3>2. q[i - 1] = u
      BY <1>1, <1>3, <3>1
    <3> QED BY <1>2, <1>3, <2>1, <3>2
  <2>2. CASE i # Len(w) + 1
    <3>1. i \in (k + 1) .. Len(w) /\ i \in k .. Len(w) /\ i - 1 \in k .. Len(w) /\ i \in 1 .. Len(w)
      BY <1>2, <2>2
    <3> QED BY <1>1, <1>2, <1>3, <3>1
  <2> QED BY <2>1, <2>2
<1>6. Ends(a, k, v, Shown(u, m))
  BY <1>4, <1>5 DEF Ends
<1> QED BY <1>6 DEF a

\* A message is delivered (onmessage): one fewer is ahead of what came after it, and
\* what was shown before it is shown with it.
LEMMA EndsDelivered ==
  ASSUME NEW S, NEW w \in Seq(S), w # <<>>, NEW k \in 0 .. Len(w),
         NEW v, NEW u, Ends(w, k, v, u)
  PROVE  IF k = 0 THEN Ends(Tail(w), 0, Shown(v, Head(w)), u)
                  ELSE Ends(Tail(w), k - 1, v, u)
<1>1. PICK p : /\ p[k] = v /\ p[Len(w)] = u
               /\ \A i \in (k + 1) .. Len(w) : p[i] = Shown(p[i - 1], w[i])
  BY DEF Ends
<1> DEFINE a == Tail(w)
           q == [i \in 0 .. Len(w) - 1 |-> p[i + 1]]
<1>2. /\ Len(w) \in Nat \ {0} /\ Len(a) = Len(w) - 1 /\ Head(w) = w[1]
      /\ \A i \in 1 .. Len(a) : a[i] = w[i + 1]
  BY TailPlaces
<1>3. \A i \in 0 .. Len(w) - 1 : q[i] = p[i + 1]
  OBVIOUS
<1> HIDE DEF a, q
<1>4. q[Len(a)] = u
  BY <1>1, <1>2, <1>3
<1>5. ASSUME NEW i \in 1 .. Len(a), i >= k PROVE q[i] = Shown(q[i - 1], a[i])
  <2>1. /\ i + 1 \in (k + 1) .. Len(w) /\ i \in 0 .. Len(w) - 1 /\ i - 1 \in 0 .. Len(w) - 1
        /\ (i + 1) - 1 = i /\ (i - 1) + 1 = i
    BY <1>2, <1>5
  <2>2. p[i + 1] = Shown(p[(i + 1) - 1], w[i + 1])
    BY <1>1, <2>1
  <2> QED BY <1>2, <1>3, <2>1, <2>2
<1>6. CASE k = 0
  <2>1. q[0] = Shown(v, Head(w))
    <3>1. 1 \in (k + 1) .. Len(w) /\ 0 \in 0 .. Len(w) - 1 /\ 1 - 1 = 0
      BY <1>2, <1>6
    <3>2. p[1] = Shown(p[1 - 1], w[1])
      BY <1>1, <3>1
    <3> QED BY <1>1, <1>2, <1>3, <1>6, <3>1, <3>2
  <2>2. \A i \in (0 + 1) .. Len(a) : q[i] = Shown(q[i - 1], a[i])
    BY <1>2, <1>5, <1>6
  <2>3. Ends(a, 0, Shown(v, Head(w)), u)
    BY <1>4, <2>1, <2>2 DEF Ends
  <2> QED BY <1>6, <2>3 DEF a
<1>7. CASE k # 0
  <2>1. k - 1 \in 0 .. Len(w) - 1 /\ (k - 1) + 1 = k
    BY <1>2, <1>7
  <2>2. q[k - 1] = v
    BY <1>1, <1>3, <2>1
  <2>3. \A i \in ((k - 1) + 1) .. Len(a) : q[i] = Shown(q[i - 1], a[i])
    <3> TAKE i \in ((k - 1) + 1) .. Len(a)
    <3>1. i \in 1 .. Len(a) /\ i >= k
      BY <1>2, <1>7
    <3> QED BY <1>5, <3>1
  <2>4. Ends(a, k - 1, v, u)
    BY <1>4, <2>2, <2>3 DEF Ends
  <2> QED BY <1>7, <2>4 DEF a
<1> QED BY <1>6, <1>7

(***************************************************************************)
(* Types.                                                                  *)
(***************************************************************************)

Budget == [moves : Nat, adopts : Nat, entries : Nat, events : Nat, faults : Nat]

\* TypeOK in four parts: the server's state, what each browser has, how many events and
\* messages that can be, and the history.
ServerOK ==
  /\ files \subseteq Rows /\ tasks \subseteq Rows
  /\ lastSent = NoHash \/ lastSent \subseteq Rows
  /\ agents \in States
  /\ log \in Seq(Nat) /\ disc \in Seq(Nat)
  /\ recorded \in Nat
  /\ left \in Budget

BrowsersOK ==
  /\ sock \in [Browsers -> {"open", "closed"}]
  /\ wire \in [Browsers -> Seq(Message)]
  /\ view \in [Browsers -> View]
  /\ asked \in [Browsers -> Nat]
  /\ answers \in [Browsers -> Seq(Answer)]

CountsOK(b) ==
  /\ view[b].events <= recorded
  /\ sock[b] = "closed" => wire[b] = <<>>
  /\ \A j \in 1 .. Len(answers[b]) :
       /\ answers[b][j].events <= recorded
       /\ answers[b][j].ahead \in -1 .. Len(wire[b])

HistoryOK ==
  /\ crossed \in [Browsers -> BOOLEAN] /\ stale \in [Browsers -> BOOLEAN]
  /\ missed \in [Browsers -> BOOLEAN]
  /\ returned \in BOOLEAN /\ blank \in BOOLEAN

LEMMA TypeParts ==
  TypeOK <=> ServerOK /\ BrowsersOK /\ HistoryOK /\ \A b \in Browsers : CountsOK(b)
BY DEF TypeOK, ServerOK, BrowsersOK, HistoryOK, CountsOK, Budget

\* The history stays what it is: truth values.
LEMMA HistoryStep ==
  ASSUME TypeOK, [Next]_vars
  PROVE  HistoryOK'
<1> HistoryOK
  BY TypeParts
<1> USE DEF HistoryOK
<1>1. CASE FilesMove \/ Periodic \/ EventRecorded \/ Restart
  <2>1. CASE FilesMove
    BY <2>1 DEF FilesMove, board, browser
  <2>2. CASE Periodic
    BY <2>2 DEF Periodic, Undone
  <2>3. CASE EventRecorded
    BY <2>3 DEF EventRecorded, Tells, board
  <2>4. CASE Restart
    BY <2>4 DEF Restart
  <2> QED BY <1>1, <2>1, <2>2, <2>3, <2>4
<1>2. ASSUME NEW t \in Tasks, Adopt(t) \/ Export(t) PROVE HistoryOK'
  <2>1. CASE Adopt(t)
    BY <2>1 DEF Adopt, Undone
  <2>2. CASE Export(t)
    BY <2>2 DEF Export, Tells, Undone
  <2> QED BY <1>2, <2>1, <2>2
<1>3. ASSUME NEW e, Push(e) PROVE HistoryOK'
  BY <1>3 DEF Push, board
<1>4. ASSUME NEW b \in Browsers, Connect(b) \/ ApiState(b) \/ Deliver(b) PROVE HistoryOK'
  <2>1. CASE Connect(b)
    BY <2>1 DEF Connect, board
  <2>2. CASE ApiState(b)
    BY <2>2 DEF ApiState, Undone
  <2>3. CASE Deliver(b)
    BY <2>3 DEF Deliver, board
  <2> QED BY <1>4, <2>1, <2>2, <2>3
<1>5. ASSUME NEW b \in Browsers, AnswerShown(b) \/ FetchFails(b) \/ Drop(b) PROVE HistoryOK'
  <2>1. CASE AnswerShown(b)
    BY <2>1 DEF AnswerShown, board
  <2>2. CASE FetchFails(b)
    BY <2>2 DEF FetchFails, board
  <2>3. CASE Drop(b)
    BY <2>3 DEF Drop, board
  <2> QED BY <1>5, <2>1, <2>2, <2>3
<1>6. CASE UNCHANGED vars
  BY <1>6 DEF vars, board, browser
<1> QED BY <1>1, <1>2, <1>3, <1>4, <1>5, <1>6 DEF Next

\* What has a browser's types.
LEMMA BrowserTypes ==
  ASSUME BrowsersOK, NEW b \in Browsers
  PROVE  /\ sock[b] \in {"open", "closed"} /\ wire[b] \in Seq(Message) /\ view[b] \in View
         /\ asked[b] \in Nat /\ answers[b] \in Seq(Answer)
         /\ Len(wire[b]) \in Nat /\ Len(answers[b]) \in Nat
<1>1. wire[b] \in Seq(Message) /\ answers[b] \in Seq(Answer)
  BY DEF BrowsersOK
<1>2. Len(wire[b]) \in Nat /\ Len(answers[b]) \in Nat
  BY <1>1
<1> QED BY <1>1, <1>2 DEF BrowsersOK

\* A file that appears, goes or moves leaves task files.
LEMMA MovedType ==
  ASSUME NEW from \in SUBSET Rows, NEW after \in Moved(from)
  PROVE  after \subseteq Rows
<1>1. \A i \in 1 .. 3 : Buckets[i] \in {"pending", "processing", "done"}
  BY DEF Buckets
<1>2. ASSUME NEW i \in 1 .. 3, NEW t \in Tasks PROVE <<Buckets[i], t>> \in Rows
  BY <1>1 DEF Rows
<1>3. \A x \in Rows : x[2] \in Tasks
  BY DEF Rows
<1>4. CASE after \in {from \cup {<<Buckets[1], t>>} : t \in Tasks}
  BY <1>2, <1>4
<1>5. CASE after \in {from \ {x} : x \in from}
  BY <1>5
<1>6. CASE after \in {(from \ {x}) \cup {<<Buckets[i], x[2]>>} : x \in from, i \in 1 .. 3}
  <2>1. PICK x \in from, i \in 1 .. 3 : after = (from \ {x}) \cup {<<Buckets[i], x[2]>>}
    BY <1>6
  <2>2. <<Buckets[i], x[2]>> \in Rows
    BY <1>2, <1>3, <2>1
  <2> QED BY <2>1, <2>2
<1> QED BY <1>4, <1>5, <1>6 DEF Moved

\* A scan finds task files, whatever moves meanwhile (scan_tasks).
LEMMA ScanType ==
  ASSUME NEW new \in SUBSET Rows, NEW spent \in Budget, Scan(new, spent)
  PROVE  files' \subseteq Rows /\ tasks' \subseteq Rows /\ left' \in Budget
<1>1. PICK after \in {new} \cup (IF spent.moves > 0 THEN Moved(new) ELSE {}), k \in 1 .. 2 :
        /\ files' = after
        /\ left' = IF after = new THEN spent ELSE [spent EXCEPT !.moves = @ - 1]
        /\ tasks' = {x \in new : \E i \in 1 .. k : x[1] = Buckets[i]}
                    \cup {x \in after : \E i \in (k + 1) .. 3 : x[1] = Buckets[i]}
  BY DEF Scan
<1>2. after \subseteq Rows
  BY MovedType
<1>3. left' \in Budget
  <2>1. CASE after = new
    BY <1>1, <2>1
  <2>2. CASE after # new
    <3>1. spent.moves > 0 /\ spent.moves \in Nat
      BY <2>2 DEF Budget
    <3>2. left' = [spent EXCEPT !.moves = spent.moves - 1] /\ spent.moves - 1 \in Nat
      BY <1>1, <2>2, <3>1
    <3> QED BY <3>2 DEF Budget
  <2> QED BY <2>1, <2>2
<1> QED BY <1>1, <1>2, <1>3

\* Agents are online, idle or working (update_agents).
LEMMA AgentsType ==
  ASSUME agents \in States, UpdateAgents
  PROVE  agents' \in States
BY DEF UpdateAgents, States

\* One unit of a budget is spent.
LEMMA SpendType ==
  ASSUME left \in Budget
  PROVE  /\ left.moves > 0 => [left EXCEPT !.moves = @ - 1] \in Budget
         /\ left.adopts > 0 => [left EXCEPT !.adopts = @ - 1] \in Budget
         /\ left.events > 0 => [left EXCEPT !.events = @ - 1] \in Budget
         /\ left.entries > 0 => [left EXCEPT !.entries = @ - 1] \in Budget
         /\ left.faults > 0 => [left EXCEPT !.faults = @ - 1] \in Budget
         /\ left.entries > 0 /\ left.faults > 0 =>
              [left EXCEPT !.entries = @ - 1, !.faults = @ - 1] \in Budget
<1>1. /\ left.moves \in Nat /\ left.adopts \in Nat /\ left.events \in Nat
      /\ left.entries \in Nat /\ left.faults \in Nat
  BY DEF Budget
<1>2. \A n \in Nat : n > 0 => n - 1 \in Nat
  OBVIOUS
<1> QED BY <1>1, <1>2 DEF Budget

\* The open sockets get what is broadcast behind what is on them (broadcast).
LEMMA BroadcastType ==
  ASSUME BrowsersOK, NEW msgs \in Seq(Message), Broadcast(msgs)
  PROVE  /\ wire' \in [Browsers -> Seq(Message)]
         /\ \A b \in Browsers :
              /\ Len(wire'[b]) >= Len(wire[b])
              /\ sock[b] = "closed" => wire'[b] = wire[b]
              /\ sock[b] = "open" => wire'[b] = wire[b] \o msgs
<1>1. \A b \in Browsers : wire[b] \in Seq(Message)
  BY DEF BrowsersOK
<1>2. ASSUME NEW b \in Browsers
      PROVE  /\ wire[b] \o msgs \in Seq(Message)
             /\ Len(wire[b] \o msgs) >= Len(wire[b]) /\ Len(wire[b]) >= Len(wire[b])
  <2>1. wire[b] \in Seq(Message)
    BY <1>1
  <2>2. /\ Len(wire[b]) \in Nat /\ Len(msgs) \in Nat
        /\ Len(wire[b] \o msgs) = Len(wire[b]) + Len(msgs)
    BY <2>1
  <2> QED BY <2>1, <2>2
<1>3. wire' = [b \in Browsers |-> IF sock[b] = "open" THEN wire[b] \o msgs ELSE wire[b]]
  BY DEF Broadcast, Open
<1> QED BY <1>1, <1>2, <1>3

\* What the server does leaves the counts of the browsers right.
LEMMA CountsKept ==
  ASSUME TypeOK, UNCHANGED <<sock, view, answers>>, recorded' \in Nat, recorded' >= recorded,
         BrowsersOK',
         \A b \in Browsers : /\ Len(wire'[b]) >= Len(wire[b])
                             /\ sock[b] = "closed" => wire'[b] = wire[b],
         NEW b \in Browsers
  PROVE  CountsOK(b)'
<1>1. CountsOK(b) /\ BrowsersOK /\ recorded \in Nat
  BY TypeParts DEF ServerOK
<1>2. view[b].events \in Nat /\ \A j \in 1 .. Len(answers[b]) : answers[b][j].events \in Nat
  <2>1. view[b] \in View /\ answers[b] \in Seq(Answer)
    BY <1>1, BrowserTypes
  <2>2. view[b].events \in Nat
    BY <2>1 DEF View
  <2>3. ASSUME NEW j \in 1 .. Len(answers[b]) PROVE answers[b][j].events \in Nat
    <3>1. answers[b][j] \in Answer
      BY <2>1
    <3> QED BY <3>1 DEF Answer
  <2> QED BY <2>2, <2>3
<1>3. Len(wire[b]) \in Nat /\ Len(wire[b])' \in Nat
  <2>1. wire'[b] \in Seq(Message)
    BY DEF BrowsersOK
  <2> QED BY <1>1, <2>1, BrowserTypes
<1>4. view'[b].events <= recorded'
  BY <1>1, <1>2 DEF CountsOK
<1>5. sock'[b] = "closed" => wire'[b] = <<>>
  BY <1>1 DEF CountsOK
<1>6. ASSUME NEW j \in 1 .. Len(answers'[b])
      PROVE  answers'[b][j].events <= recorded' /\ answers'[b][j].ahead \in -1 .. Len(wire'[b])
  <2>1. /\ j \in 1 .. Len(answers[b]) /\ answers'[b][j] = answers[b][j]
        /\ answers[b][j].events <= recorded /\ answers[b][j].ahead \in -1 .. Len(wire[b])
    BY <1>1 DEF CountsOK
  <2> QED BY <1>1, <1>2, <1>3, <2>1
<1> QED BY <1>4, <1>5, <1>6 DEF CountsOK

\* Places of a sequence, and a function that is one.
LEMMA SeqPlaces ==
  ASSUME NEW S, NEW s \in Seq(S)
  PROVE  Len(s) \in Nat /\ \A i \in 1 .. Len(s) : s[i] \in S
OBVIOUS

LEMMA FunctionIsSeq ==
  ASSUME NEW S, NEW n \in Nat, NEW f \in [1 .. n -> S]
  PROVE  f \in Seq(S) /\ Len(f) = n
OBVIOUS

\* An answer with another number of messages ahead is one, and differs in nothing else.
LEMMA AheadType ==
  ASSUME NEW a \in Answer, NEW n \in Int
  PROVE  LET c == [a EXCEPT !.ahead = n] IN
         /\ c \in Answer /\ c.tasks = a.tasks /\ c.agents = a.agents
         /\ c.disc = a.disc /\ c.events = a.events /\ c.ahead = n
BY DEF Answer

\* A step of the server that sends nothing, or broadcasts, keeps the types.
LEMMA ServerStepTypes ==
  ASSUME TypeOK, HistoryOK', ServerOK', UNCHANGED <<sock, view, asked, answers>>, recorded' >= recorded,
         UNCHANGED wire \/ \E msgs \in Seq(Message) : Broadcast(msgs)
  PROVE  TypeOK'
<1>1. BrowsersOK /\ ServerOK
  BY TypeParts
<1>2. /\ wire' \in [Browsers -> Seq(Message)]
      /\ \A b \in Browsers : /\ Len(wire'[b]) >= Len(wire[b])
                             /\ sock[b] = "closed" => wire'[b] = wire[b]
  <2>1. CASE UNCHANGED wire
    <3>1. \A b \in Browsers : Len(wire[b]) \in Nat
      BY <1>1, BrowserTypes
    <3> QED BY <1>1, <2>1, <3>1 DEF BrowsersOK
  <2>2. CASE \E msgs \in Seq(Message) : Broadcast(msgs)
    BY <1>1, <2>2, BroadcastType
  <2> QED BY <2>1, <2>2
<1>3. BrowsersOK'
  BY <1>1, <1>2 DEF BrowsersOK
<1>4. \A b \in Browsers : CountsOK(b)'
  BY <1>2, <1>3, CountsKept DEF ServerOK
<1>5. ServerOK' /\ BrowsersOK' /\ \A b \in Browsers : CountsOK(b)'
  BY <1>3, <1>4
<1> QED BY <1>5 DEF TypeOK, ServerOK, BrowsersOK, HistoryOK, CountsOK, Budget

\* The steps of the server, and of the files, keep the types.
LEMMA ServerTypes ==
  ASSUME DashboardAssumption, TypeOK, HistoryOK',
         \/ FilesMove \/ Periodic \/ EventRecorded
         \/ \E t \in Tasks : Adopt(t) \/ Export(t)
         \/ \E e \in Nat : Push(e)
  PROVE  TypeOK'
<1>0. ServerOK /\ BrowsersOK /\ recorded >= recorded /\ recorded + 1 >= recorded
  BY TypeParts DEF ServerOK
<1>1. CASE FilesMove
  <2>1. files' \subseteq Rows
    BY <1>0, <1>1, MovedType DEF FilesMove, ServerOK
  <2>2. left' \in Budget
    BY <1>0, <1>1, SpendType DEF FilesMove, Spend, ServerOK
  <2>3. ServerOK'
    BY <1>0, <1>1, <2>1, <2>2 DEF FilesMove, board, ServerOK
  <2> QED BY <1>0, <1>1, <2>3, ServerStepTypes DEF FilesMove, browser
<1>2. CASE Periodic
  <2>1. files' \subseteq Rows /\ tasks' \subseteq Rows /\ left' \in Budget
    BY <1>0, <1>2, ScanType DEF Periodic, ServerOK
  <2>2. agents' \in States
    BY <1>0, <1>2, AgentsType DEF Periodic, ServerOK
  <2>3. lastSent' = tasks' \/ lastSent' = lastSent
    BY <1>2 DEF Periodic
  <2>4. ServerOK'
    BY <1>0, <1>2, <2>1, <2>2, <2>3 DEF Periodic, ServerOK
  <2>5. <<TasksMsg(tasks'), AgentsMsg(agents')>> \in Seq(Message)
    BY <2>1, <2>2, MessageTypes
  <2>6. UNCHANGED wire \/ \E msgs \in Seq(Message) : Broadcast(msgs)
    BY <1>2, <2>5 DEF Periodic
  <2> QED BY <1>0, <1>2, <2>4, <2>6, ServerStepTypes DEF Periodic
<1>3. CASE EventRecorded
  <2>1. left' \in Budget
    BY <1>0, <1>3, SpendType DEF EventRecorded, Spend, ServerOK
  <2>2. ServerOK'
    BY <1>0, <1>3, <2>1 DEF EventRecorded, Tells, board, ServerOK
  <2>3. <<EventMsg>> \in Seq(Message)
    BY MessageTypes
  <2>4. \E msgs \in Seq(Message) : Broadcast(msgs)
    BY <1>3, <2>3 DEF EventRecorded
  <2> QED BY <1>0, <1>3, <2>2, <2>4, ServerStepTypes DEF EventRecorded, Tells
<1>4. ASSUME NEW t \in Tasks, Adopt(t) PROVE TypeOK'
  <2>1. files \cup {<<Buckets[1], t>>} \in SUBSET Rows
    BY <1>0 DEF ServerOK, Rows, Buckets
  <2>2. [left EXCEPT !.adopts = @ - 1] \in Budget
    BY <1>0, <1>4, SpendType DEF Adopt, ServerOK
  <2>3. files' \subseteq Rows /\ tasks' \subseteq Rows /\ left' \in Budget
    BY <1>4, <2>1, <2>2, ScanType DEF Adopt
  <2>4. agents' \in States
    BY <1>0, <1>4, AgentsType DEF Adopt, ServerOK
  <2>5. ServerOK'
    BY <1>0, <1>4, <2>3, <2>4 DEF Adopt, ServerOK
  <2>6. <<TasksMsg(tasks')>> \in Seq(Message)
    BY <2>3, MessageTypes
  <2>7. \E msgs \in Seq(Message) : Broadcast(msgs)
    BY <1>4, <2>6 DEF Adopt
  <2> QED BY <1>0, <1>4, <2>5, <2>7, ServerStepTypes DEF Adopt
<1>5. ASSUME NEW t \in Tasks, Export(t) PROVE TypeOK'
  <2>1. files' \subseteq Rows /\ tasks' \subseteq Rows /\ left' \in Budget
    <3>1. left.events > 0 => [left EXCEPT !.events = @ - 1] \in Budget
      BY <1>0, SpendType DEF ServerOK
    <3>2. CASE left.events > 0 /\ Scan(files, [left EXCEPT !.events = @ - 1])
      BY <1>0, <3>1, <3>2, ScanType DEF ServerOK
    <3>3. CASE Scan(files, left)
      BY <1>0, <3>3, ScanType DEF ServerOK
    <3> QED BY <1>5, <3>2, <3>3 DEF Export
  <2>2. recorded' = recorded \/ recorded' = recorded + 1
    BY <1>5 DEF Export, Tells
  <2>3. ServerOK'
    BY <1>0, <1>5, <2>1, <2>2 DEF Export, ServerOK
  <2>4. <<EventMsg>> \in Seq(Message)
    BY MessageTypes
  <2>5. UNCHANGED wire \/ \E msgs \in Seq(Message) : Broadcast(msgs)
    BY <1>5, <2>4 DEF Export
  <2> QED BY <1>0, <1>5, <2>2, <2>3, <2>5, ServerStepTypes DEF Export
<1>6. ASSUME NEW e \in Nat, Push(e) PROVE TypeOK'
  <2>1. left' \in Budget
    BY <1>0, <1>6, SpendType DEF Push, Spend, ServerOK
  <2>2. log' \in Seq(Nat)
    <3>1. log \in Seq(Nat) /\ Append(log, e) \in Seq(Nat)
      BY <1>0 DEF ServerOK
    <3>2. log' = Append(log, e) \/ log' = log
      BY <1>6 DEF Push
    <3> QED BY <3>1, <3>2
  <2>3. disc' \in Seq(Nat)
    <3>1. Append(disc, e) \in Seq(Nat)
      BY <1>0 DEF ServerOK
    <3> QED BY <1>6, <3>1, TrimType DEF Push
  <2>4. ServerOK'
    BY <1>0, <1>6, <2>1, <2>2, <2>3 DEF Push, board, ServerOK
  <2>5. <<EntryMsg(e)>> \in Seq(Message)
    BY MessageTypes
  <2>6. \E msgs \in Seq(Message) : Broadcast(msgs)
    BY <1>6, <2>5 DEF Push
  <2> QED BY <1>0, <1>6, <2>4, <2>6, ServerStepTypes DEF Push
<1> QED BY <1>1, <1>2, <1>3, <1>4, <1>5, <1>6

\* The other browsers are as they were.
LEMMA OthersKept ==
  ASSUME TypeOK, NEW b \in Browsers, NEW c \in Browsers, c # b, recorded' = recorded,
         sock'[c] = sock[c], wire'[c] = wire[c], view'[c] = view[c], answers'[c] = answers[c]
  PROVE  CountsOK(c)'
<1>1. CountsOK(c)
  BY TypeParts
<1> QED BY <1>1 DEF CountsOK

\* A socket is opened (aio_ws).
LEMMA ConnectTypes ==
  ASSUME TypeOK, HistoryOK', NEW b \in Browsers, Connect(b)
  PROVE  TypeOK'
<1>0. ServerOK /\ BrowsersOK /\ CountsOK(b)
  BY TypeParts
<1> DEFINE m == [t |-> "init", tasks |-> tasks, agents |-> agents, disc |-> disc]
<1>1. m \in Message
  BY <1>0, MessageTypes DEF ServerOK
<1>2. /\ sock[b] = "closed" /\ sock' = [sock EXCEPT ![b] = "open"]
      /\ wire' = [wire EXCEPT ![b] = <<m>>]
      /\ UNCHANGED <<disk, board, disc, view, asked, answers, crossed, missed, blank, left>>
  BY DEF Connect
<1> HIDE DEF m
<1>3. ServerOK'
  BY <1>0, <1>2 DEF disk, board, ServerOK
<1>4. BrowsersOK'
  <2>1. <<m>> \in Seq(Message)
    BY <1>1
  <2> QED BY <1>0, <1>2, <2>1 DEF BrowsersOK
<1>5. CountsOK(b)'
  <2>1. wire[b] = <<>> /\ Len(<<>>) = 0
    BY <1>0, <1>2 DEF CountsOK
  <2>2. sock'[b] = "open" /\ wire'[b] = <<m>> /\ Len(<<m>>) = 1
    BY <1>0, <1>2 DEF BrowsersOK
  <2>3. UNCHANGED <<view, answers, recorded>>
    BY <1>2 DEF disk
  <2> QED BY <1>0, <2>1, <2>2, <2>3 DEF CountsOK
<1>6. ASSUME NEW c \in Browsers, c # b PROVE CountsOK(c)'
  BY <1>0, <1>2, <1>6, OthersKept DEF BrowsersOK, disk
<1> QED BY <1>3, <1>4, <1>5, <1>6 DEF TypeOK, ServerOK, BrowsersOK, HistoryOK, CountsOK, Budget

\* The server answers a request (api_state).
LEMMA ApiStateTypes ==
  ASSUME TypeOK, HistoryOK', NEW b \in Browsers, ApiState(b)
  PROVE  TypeOK'
<1>0. ServerOK /\ BrowsersOK /\ CountsOK(b)
  BY TypeParts
<1> DEFINE n == [tasks |-> tasks', agents |-> agents', disc |-> disc, events |-> recorded,
                 ahead |-> Len(wire[b])]
<1>1. files' \subseteq Rows /\ tasks' \subseteq Rows /\ left' \in Budget /\ agents' \in States
  BY <1>0, ScanType, AgentsType DEF ApiState, ServerOK
<1>2. n \in Answer /\ n.events = recorded /\ n.ahead = Len(wire[b]) /\ Len(wire[b]) \in Nat
  BY <1>0, <1>1, BrowserTypes DEF ServerOK, Answer
<1>3. /\ asked[b] > 0 /\ asked' = [asked EXCEPT ![b] = @ - 1]
      /\ answers' = [answers EXCEPT ![b] = Append(answers[b], n)]
      /\ UNCHANGED <<log, recorded, disc, lastSent, sock, wire, view, crossed, missed, blank>>
  BY DEF ApiState
<1> HIDE DEF n
<1>4. ServerOK'
  BY <1>0, <1>1, <1>3 DEF ServerOK
<1>5. answers[b] \in Seq(Answer) /\ Append(answers[b], n) \in Seq(Answer)
  BY <1>0, <1>2, BrowserTypes
<1>6. BrowsersOK'
  <2>1. asked[b] - 1 \in Nat
    BY <1>0, <1>3, BrowserTypes
  <2> QED BY <1>0, <1>3, <1>5, <2>1 DEF BrowsersOK
<1>7. CountsOK(b)'
  <2>1. answers'[b] = Append(answers[b], n)
    BY <1>0, <1>3 DEF BrowsersOK
  <2>2. ASSUME NEW j \in 1 .. Len(answers'[b])
        PROVE  answers'[b][j].events <= recorded /\ answers'[b][j].ahead \in -1 .. Len(wire[b])
    <3>1. /\ Len(answers'[b]) = Len(answers[b]) + 1 /\ Len(answers[b]) \in Nat
          /\ answers'[b][Len(answers[b]) + 1] = n
          /\ \A i \in 1 .. Len(answers[b]) : answers'[b][i] = answers[b][i]
      BY <1>2, <1>5, <2>1, AppendPlaces
    <3>2. CASE j = Len(answers[b]) + 1
      BY <1>0, <1>2, <3>1, <3>2 DEF ServerOK
    <3>3. CASE j # Len(answers[b]) + 1
      <4>1. j \in 1 .. Len(answers[b])
        BY <3>1, <3>3
      <4> QED BY <1>0, <3>1, <4>1 DEF CountsOK
    <3> QED BY <3>2, <3>3
  <2> QED BY <1>0, <1>3, <2>2 DEF CountsOK
<1>8. ASSUME NEW c \in Browsers, c # b PROVE CountsOK(c)'
  BY <1>0, <1>3, <1>8, OthersKept DEF BrowsersOK
<1> QED BY <1>4, <1>6, <1>7, <1>8 DEF TypeOK, ServerOK, BrowsersOK, HistoryOK, CountsOK, Budget

\* What Behind makes of the answers on their way.
LEMMA BehindType ==
  ASSUME NEW old \in Seq(Answer)
  PROVE  /\ Behind(old) \in Seq(Answer) /\ Len(Behind(old)) = Len(old)
         /\ \A j \in 1 .. Len(old) :
              /\ Behind(old)[j].tasks = old[j].tasks /\ Behind(old)[j].agents = old[j].agents
              /\ Behind(old)[j].disc = old[j].disc /\ Behind(old)[j].events = old[j].events
              /\ Behind(old)[j].ahead = IF old[j].ahead < 0 THEN -1 ELSE old[j].ahead - 1
<1> DEFINE ahead(i) == IF old[i].ahead < 0 THEN -1 ELSE old[i].ahead - 1
<1>1. /\ DOMAIN old = 1 .. Len(old) /\ Len(old) \in Nat
      /\ \A i \in 1 .. Len(old) : old[i] \in Answer
  BY SeqPlaces
<1>2. Behind(old) = [i \in 1 .. Len(old) |-> [old[i] EXCEPT !.ahead = ahead(i)]]
  BY <1>1 DEF Behind
<1>3. ASSUME NEW i \in 1 .. Len(old) PROVE old[i] \in Answer /\ ahead(i) \in Int
  <2>1. old[i] \in Answer /\ old[i].ahead \in Int
    BY <1>1 DEF Answer
  <2> QED BY <2>1
<1> HIDE DEF ahead
<1>4. ASSUME NEW i \in 1 .. Len(old)
      PROVE  /\ Behind(old)[i] \in Answer
             /\ Behind(old)[i].tasks = old[i].tasks /\ Behind(old)[i].agents = old[i].agents
             /\ Behind(old)[i].disc = old[i].disc /\ Behind(old)[i].events = old[i].events
             /\ Behind(old)[i].ahead = ahead(i)
  <2>1. Behind(old)[i] = [old[i] EXCEPT !.ahead = ahead(i)]
    BY <1>2
  <2> QED BY <1>3, <2>1, AheadType
<1>5. Behind(old) \in [1 .. Len(old) -> Answer]
  BY <1>2, <1>4
<1>6. Behind(old) \in Seq(Answer) /\ Len(Behind(old)) = Len(old)
  BY <1>1, <1>5, FunctionIsSeq, Zenon
<1> QED BY <1>4, <1>6 DEF ahead

\* A message is shown (onmessage).
LEMMA DeliverTypes ==
  ASSUME DashboardAssumption, TypeOK, HistoryOK', NEW b \in Browsers, Deliver(b)
  PROVE  TypeOK'
<1>0. ServerOK /\ BrowsersOK /\ CountsOK(b)
  BY TypeParts
<1> DEFINE m == Head(wire[b])
<1>1. wire[b] # <<>> /\ wire[b] \in Seq(Message)
  BY <1>0, BrowserTypes DEF Deliver
<1>2. /\ m \in Message /\ Tail(wire[b]) \in Seq(Message)
      /\ Len(wire[b]) \in Nat \ {0} /\ Len(Tail(wire[b])) = Len(wire[b]) - 1
  BY <1>1, TailPlaces
<1>3. /\ view' = [view EXCEPT ![b] = Shown(view[b], m)]
      /\ asked' = [asked EXCEPT ![b] = IF m.t = "event" THEN @ + 1 ELSE @]
      /\ wire' = [wire EXCEPT ![b] = Tail(wire[b])]
      /\ answers' = [answers EXCEPT ![b] = Behind(answers[b])]
      /\ UNCHANGED <<disk, board, disc, sock, missed, blank, left>>
  BY DEF Deliver
<1> HIDE DEF m
<1>4. ServerOK' /\ recorded' = recorded
  BY <1>0, <1>3 DEF disk, board, ServerOK
<1>5. Shown(view[b], m) \in View /\ Shown(view[b], m).events = view[b].events
  BY <1>0, <1>2, ShownType, BrowserTypes
<1>6. answers[b] \in Seq(Answer) /\ Behind(answers[b]) \in Seq(Answer)
  BY <1>0, BrowserTypes, BehindType
<1>7. BrowsersOK'
  <2>1. (IF m.t = "event" THEN asked[b] + 1 ELSE asked[b]) \in Nat
    BY <1>0, BrowserTypes
  <2> QED BY <1>0, <1>2, <1>3, <1>5, <1>6, <2>1 DEF BrowsersOK
<1>8. /\ view'[b] = Shown(view[b], m) /\ wire'[b] = Tail(wire[b]) /\ sock'[b] = sock[b]
      /\ answers'[b] = Behind(answers[b])
  BY <1>0, <1>3 DEF BrowsersOK
<1>9. CountsOK(b)'
  <2>1. view'[b].events <= recorded'
    BY <1>0, <1>4, <1>5, <1>8 DEF CountsOK
  <2>2. sock[b] # "closed"
    BY <1>0, <1>1 DEF CountsOK
  <2>3. ASSUME NEW j \in 1 .. Len(answers'[b])
        PROVE  answers'[b][j].events <= recorded /\ answers'[b][j].ahead \in -1 .. Len(wire'[b])
    <3>1. /\ j \in 1 .. Len(answers[b]) /\ answers'[b][j].events = answers[b][j].events
          /\ answers'[b][j].ahead = IF answers[b][j].ahead < 0 THEN -1 ELSE answers[b][j].ahead - 1
      BY <1>6, <1>8, BehindType
    <3>2. answers[b][j].events <= recorded /\ answers[b][j].ahead \in -1 .. Len(wire[b])
      BY <1>0, <3>1 DEF CountsOK
    <3>3. PICK x, l : x = answers[b][j].ahead /\ l = Len(wire[b])
      OBVIOUS
    <3>4. x \in -1 .. l /\ l \in Nat \ {0} /\ Len(wire'[b]) = l - 1
      BY <1>2, <1>8, <3>2, <3>3
    <3>5. (IF x < 0 THEN -1 ELSE x - 1) \in -1 .. l - 1
      BY <3>4
    <3>6. answers'[b][j].ahead \in -1 .. Len(wire'[b])
      BY <3>1, <3>3, <3>4, <3>5
    <3> QED BY <3>1, <3>2, <3>6
  <2> QED BY <1>4, <1>8, <2>1, <2>2, <2>3 DEF CountsOK
<1>10. ASSUME NEW c \in Browsers, c # b PROVE CountsOK(c)'
  BY <1>0, <1>3, <1>4, <1>10, OthersKept DEF BrowsersOK
<1> QED BY <1>4, <1>7, <1>9, <1>10 DEF TypeOK, ServerOK, BrowsersOK, HistoryOK, CountsOK, Budget

\* The answers that are left when the i-th is shown: the older ones are overtaken.
Rest(old, i) ==
  [j \in 1 .. Len(old) - 1 |-> IF j < i THEN [old[j] EXCEPT !.ahead = -1] ELSE old[j + 1]]

LEMMA RestType ==
  ASSUME NEW old \in Seq(Answer), NEW i \in 1 .. Len(old)
  PROVE  /\ Rest(old, i) \in Seq(Answer) /\ Len(Rest(old, i)) = Len(old) - 1
         /\ \A j \in 1 .. Len(old) - 1 :
              IF j < i THEN /\ j \in 1 .. Len(old)
                            /\ Rest(old, i)[j].ahead = -1
                            /\ Rest(old, i)[j].events = old[j].events
                       ELSE j + 1 \in 1 .. Len(old) /\ Rest(old, i)[j] = old[j + 1]
<1>1. Len(old) \in Nat \ {0} /\ \A j \in 1 .. Len(old) : old[j] \in Answer
  BY SeqPlaces
<1>2. ASSUME NEW j \in 1 .. Len(old) - 1
      PROVE  /\ Rest(old, i)[j] \in Answer
             /\ IF j < i THEN /\ j \in 1 .. Len(old)
                              /\ Rest(old, i)[j].ahead = -1
                              /\ Rest(old, i)[j].events = old[j].events
                         ELSE j + 1 \in 1 .. Len(old) /\ Rest(old, i)[j] = old[j + 1]
  <2>1. j \in 1 .. Len(old) /\ j + 1 \in 1 .. Len(old)
    BY <1>1
  <2>2. Rest(old, i)[j] = IF j < i THEN [old[j] EXCEPT !.ahead = -1] ELSE old[j + 1]
    BY DEF Rest
  <2>3. old[j] \in Answer /\ old[j + 1] \in Answer
    BY <1>1, <2>1
  <2>4. CASE j < i
    <3>1. Rest(old, i)[j] = [old[j] EXCEPT !.ahead = -1]
      BY <2>2, <2>4
    <3> QED BY <2>1, <2>3, <2>4, <3>1, AheadType
  <2>5. CASE ~(j < i)
    BY <2>1, <2>2, <2>3, <2>5
  <2> QED BY <2>4, <2>5
<1>3. Rest(old, i) \in [1 .. Len(old) - 1 -> Answer]
  BY <1>2 DEF Rest
<1>4. Rest(old, i) \in Seq(Answer) /\ Len(Rest(old, i)) = Len(old) - 1
  <2>1. Len(old) - 1 \in Nat
    BY <1>1
  <2> QED BY <1>3, <2>1, FunctionIsSeq, Zenon
<1> QED BY <1>2, <1>4

\* An answer is shown (refreshState).
LEMMA AnswerTypes ==
  ASSUME TypeOK, HistoryOK', NEW b \in Browsers, AnswerShown(b)
  PROVE  TypeOK'
<1>0. ServerOK /\ BrowsersOK /\ CountsOK(b) /\ answers[b] \in Seq(Answer)
  BY TypeParts, BrowserTypes
<1>1. DOMAIN answers[b] = 1 .. Len(answers[b])
  BY <1>0
<1>2. PICK i \in 1 .. Len(answers[b]) :
        LET ans == answers[b][i] IN
        /\ view' = [view EXCEPT ![b] = [tasks |-> ans.tasks, agents |-> ans.agents,
                                        disc |-> ans.disc, events |-> ans.events]]
        /\ answers' = [answers EXCEPT ![b] = Rest(answers[b], i)]
        /\ UNCHANGED <<disk, board, disc, sock, wire, asked, blank, left>>
  BY <1>1 DEF AnswerShown, Rest
<1> DEFINE ans == answers[b][i]
           v == [tasks |-> ans.tasks, agents |-> ans.agents,
                 disc |-> ans.disc, events |-> ans.events]
<1>3. ans \in Answer /\ v \in View /\ v.events = ans.events /\ ans.events <= recorded
  <2>1. ans \in Answer
    BY <1>0
  <2> QED BY <1>0, <2>1 DEF Answer, View, CountsOK
<1>4. view' = [view EXCEPT ![b] = v] /\ answers' = [answers EXCEPT ![b] = Rest(answers[b], i)]
  BY <1>2
<1>5. UNCHANGED <<disk, board, disc, sock, wire, asked, blank, left>>
  BY <1>2
<1> HIDE DEF ans, v
<1>6. ServerOK' /\ recorded' = recorded
  BY <1>0, <1>5 DEF disk, board, ServerOK
<1>7. Rest(answers[b], i) \in Seq(Answer) /\ Len(Rest(answers[b], i)) = Len(answers[b]) - 1
  BY <1>0, RestType
<1>8. BrowsersOK'
  BY <1>0, <1>3, <1>4, <1>5, <1>7 DEF BrowsersOK
<1>9. CountsOK(b)'
  <2>1. view'[b] = v /\ answers'[b] = Rest(answers[b], i)
    BY <1>0, <1>4 DEF BrowsersOK
  <2>2. ASSUME NEW j \in 1 .. Len(answers'[b])
        PROVE  answers'[b][j].events <= recorded /\ answers'[b][j].ahead \in -1 .. Len(wire[b])
    <3>1. j \in 1 .. Len(answers[b]) - 1 /\ Len(wire[b]) \in Nat
      BY <1>0, <1>7, <2>1, BrowserTypes
    <3>2. CASE j < i
      <4>1. /\ j \in 1 .. Len(answers[b]) /\ answers'[b][j].ahead = -1
            /\ answers'[b][j].events = answers[b][j].events
        BY <1>0, <2>1, <3>1, <3>2, RestType
      <4> QED BY <1>0, <3>1, <4>1 DEF CountsOK
    <3>3. CASE ~(j < i)
      <4>1. j + 1 \in 1 .. Len(answers[b]) /\ answers'[b][j] = answers[b][j + 1]
        BY <1>0, <2>1, <3>1, <3>3, RestType
      <4> QED BY <1>0, <4>1 DEF CountsOK
    <3> QED BY <3>2, <3>3
  <2> QED BY <1>0, <1>3, <1>5, <1>6, <2>1, <2>2 DEF CountsOK
<1>10. ASSUME NEW c \in Browsers, c # b PROVE CountsOK(c)'
  BY <1>0, <1>4, <1>5, <1>6, <1>10, OthersKept DEF BrowsersOK
<1> QED BY <1>6, <1>8, <1>9, <1>10 DEF TypeOK, ServerOK, BrowsersOK, HistoryOK, CountsOK, Budget

\* A request or an answer is lost.
LEMMA FetchFailsTypes ==
  ASSUME TypeOK, HistoryOK', NEW b \in Browsers, FetchFails(b)
  PROVE  TypeOK'
<1>0. ServerOK /\ BrowsersOK /\ CountsOK(b)
  BY TypeParts
<1>1. left' \in Budget
  BY <1>0, SpendType DEF FetchFails, Spend, ServerOK
<1>2. UNCHANGED <<disk, board, disc, sock, wire, view, crossed, blank>>
  BY DEF FetchFails
<1>3. ServerOK' /\ recorded' = recorded
  BY <1>0, <1>1, <1>2 DEF disk, board, ServerOK
<1>4. CASE asked[b] > 0 /\ asked' = [asked EXCEPT ![b] = @ - 1] /\ UNCHANGED answers
  <2>1. asked[b] - 1 \in Nat
    BY <1>0, <1>4, BrowserTypes
  <2>2. BrowsersOK'
    BY <1>0, <1>2, <1>4, <2>1 DEF BrowsersOK
  <2>3. \A c \in Browsers : CountsOK(c)'
    BY <1>2, <1>3, <1>4, TypeParts DEF CountsOK
  <2> QED BY <1>3, <2>2, <2>3 DEF TypeOK, ServerOK, BrowsersOK, HistoryOK, CountsOK, Budget
<1>5. CASE answers[b] # <<>> /\ answers' = [answers EXCEPT ![b] = Tail(@)] /\ UNCHANGED asked
  <2>1. /\ Tail(answers[b]) \in Seq(Answer) /\ Len(answers[b]) \in Nat
        /\ Len(Tail(answers[b])) = Len(answers[b]) - 1
        /\ \A j \in 1 .. Len(Tail(answers[b])) : Tail(answers[b])[j] = answers[b][j + 1]
    BY <1>0, <1>5, BrowserTypes, TailPlaces
  <2>2. BrowsersOK'
    BY <1>0, <1>2, <1>5, <2>1 DEF BrowsersOK
  <2>3. answers'[b] = Tail(answers[b])
    BY <1>0, <1>5 DEF BrowsersOK
  <2>4. CountsOK(b)'
    <3>1. ASSUME NEW j \in 1 .. Len(answers'[b])
          PROVE  answers'[b][j].events <= recorded /\ answers'[b][j].ahead \in -1 .. Len(wire[b])
      <4>1. j + 1 \in 1 .. Len(answers[b]) /\ answers'[b][j] = answers[b][j + 1]
        BY <2>1, <2>3
      <4> QED BY <1>0, <4>1 DEF CountsOK
    <3> QED BY <1>0, <1>2, <1>3, <3>1 DEF CountsOK
  <2>5. ASSUME NEW c \in Browsers, c # b PROVE CountsOK(c)'
    BY <1>0, <1>2, <1>3, <1>5, <2>5, OthersKept DEF BrowsersOK
  <2> QED BY <1>3, <2>2, <2>4, <2>5 DEF TypeOK, ServerOK, BrowsersOK, HistoryOK, CountsOK, Budget
<1> QED BY <1>4, <1>5 DEF FetchFails

\* Sockets close, and what was on them is gone (aio_ws, onclose).
LEMMA ClosesTypes ==
  ASSUME TypeOK, NEW bs \in SUBSET Browsers, Closes(bs), UNCHANGED <<view, recorded>>,
         asked' \in [Browsers -> Nat]
  PROVE  BrowsersOK' /\ \A b \in Browsers : CountsOK(b)'
<1>0. ServerOK /\ BrowsersOK
  BY TypeParts
<1> DEFINE ahead(b, i) == IF answers[b][i].ahead > 0 THEN 0 ELSE answers[b][i].ahead
           cut(b) == [i \in 1 .. Len(answers[b]) |-> [answers[b][i] EXCEPT !.ahead = ahead(b, i)]]
<1>1. ASSUME NEW b \in Browsers
      PROVE  /\ answers[b] \in Seq(Answer) /\ DOMAIN answers[b] = 1 .. Len(answers[b])
             /\ Len(answers[b]) \in Nat
  BY <1>0, BrowserTypes
<1>2. \A b \in Browsers :
        /\ sock'[b] = IF b \in bs THEN "closed" ELSE sock[b]
        /\ wire'[b] = IF b \in bs THEN <<>> ELSE wire[b]
        /\ answers'[b] = IF b \in bs THEN cut(b) ELSE answers[b]
  BY <1>1 DEF Closes
<1>3. ASSUME NEW b \in Browsers, NEW i \in 1 .. Len(answers[b])
      PROVE  /\ answers[b][i] \in Answer /\ ahead(b, i) \in Int
             /\ ahead(b, i) \in -1 .. 0
  <2>1. answers[b][i] \in Answer /\ answers[b][i].ahead \in -1 .. Len(wire[b])
    BY <1>0, <1>1, TypeParts DEF CountsOK
  <2>2. Len(wire[b]) \in Nat
    BY <1>0, BrowserTypes
  <2> QED BY <2>1, <2>2
<1>4. ASSUME NEW b \in Browsers
      PROVE  /\ cut(b) \in Seq(Answer) /\ Len(cut(b)) = Len(answers[b])
             /\ \A i \in 1 .. Len(answers[b]) :
                  cut(b)[i].events = answers[b][i].events /\ cut(b)[i].ahead = ahead(b, i)
  <2>1. ASSUME NEW i \in 1 .. Len(answers[b])
        PROVE  /\ cut(b)[i] \in Answer
               /\ cut(b)[i].events = answers[b][i].events /\ cut(b)[i].ahead = ahead(b, i)
    <3>1. cut(b)[i] = [answers[b][i] EXCEPT !.ahead = ahead(b, i)]
      OBVIOUS
    <3> HIDE DEF cut, ahead
    <3> QED BY <1>3, <3>1, AheadType
  <2>2. cut(b) \in [1 .. Len(answers[b]) -> Answer]
    BY <2>1
  <2> HIDE DEF cut
  <2>3. cut(b) \in Seq(Answer) /\ Len(cut(b)) = Len(answers[b])
    BY <1>1, <2>2, FunctionIsSeq, Zenon
  <2> QED BY <2>1, <2>3
<1> HIDE DEF cut, ahead
<1>5. BrowsersOK'
  <2>1. sock' \in [Browsers -> {"open", "closed"}] /\ wire' \in [Browsers -> Seq(Message)]
    BY <1>0 DEF Closes, BrowsersOK
  <2>2. answers' \in [Browsers -> Seq(Answer)]
    BY <1>1, <1>2, <1>4 DEF Closes
  <2> QED BY <1>0, <2>1, <2>2 DEF BrowsersOK
<1>6. ASSUME NEW b \in Browsers PROVE CountsOK(b)'
  <2>0. CountsOK(b)
    BY TypeParts
  <2>1. CASE b \notin bs
    BY <1>2, <2>0, <2>1 DEF CountsOK
  <2>2. CASE b \in bs
    <3>1. ASSUME NEW j \in 1 .. Len(answers'[b])
          PROVE  answers'[b][j].events <= recorded /\ answers'[b][j].ahead \in -1 .. Len(wire'[b])
      <4>1. /\ j \in 1 .. Len(answers[b]) /\ answers'[b][j].events = answers[b][j].events
            /\ answers'[b][j].ahead \in -1 .. 0
        BY <1>2, <1>3, <1>4, <2>2
      <4>2. Len(wire'[b]) = 0
        BY <1>2, <2>2
      <4> QED BY <2>0, <4>1, <4>2 DEF CountsOK
    <3> QED BY <1>2, <2>0, <2>2, <3>1 DEF CountsOK
  <2> QED BY <2>1, <2>2
<1> QED BY <1>5, <1>6

\* A socket drops, or all do because the server starts again.
LEMMA DropTypes ==
  ASSUME TypeOK, HistoryOK', Restart \/ \E b \in Browsers : Drop(b)
  PROVE  TypeOK'
<1>0. ServerOK /\ BrowsersOK
  BY TypeParts
<1>1. CASE Restart
  <2>1. left' \in Budget
    BY <1>0, <1>1, SpendType DEF Restart, Spend, ServerOK
  <2>2. Free \in States
    BY DEF Free, States
  <2>3. ServerOK' /\ UNCHANGED <<view, recorded>>
    BY <1>0, <1>1, <2>1, <2>2 DEF Restart, disk, ServerOK
  <2>4. asked' \in [Browsers -> Nat]
    BY <1>1 DEF Restart
  <2>5. BrowsersOK' /\ \A b \in Browsers : CountsOK(b)'
    BY <1>1, <2>3, <2>4, ClosesTypes DEF Restart
  <2> QED BY <2>3, <2>5 DEF TypeOK, ServerOK, BrowsersOK, HistoryOK, CountsOK, Budget
<1>2. ASSUME NEW b \in Browsers, Drop(b) PROVE TypeOK'
  <2>1. left' \in Budget
    BY <1>0, <1>2, SpendType DEF Drop, Spend, ServerOK
  <2>2. ServerOK' /\ UNCHANGED <<view, recorded>>
    BY <1>0, <1>2, <2>1 DEF Drop, disk, board, ServerOK
  <2>3. asked' \in [Browsers -> Nat]
    BY <1>0, <1>2 DEF Drop, BrowsersOK
  <2>4. BrowsersOK' /\ \A c \in Browsers : CountsOK(c)'
    BY <1>2, <2>2, <2>3, ClosesTypes DEF Drop
  <2> QED BY <2>2, <2>4 DEF TypeOK, ServerOK, BrowsersOK, HistoryOK, CountsOK, Budget
<1> QED BY <1>1, <1>2

\* A new server and new browsers.
LEMMA TypeStart == DashboardAssumption /\ Init => TypeOK
<1> SUFFICES ASSUME DashboardAssumption, Init PROVE TypeOK
  OBVIOUS
<1>1. Free \in States
  BY DEF Free, States
<1>2. [i \in 1 .. OldEntries |-> i] \in Seq(Nat)
  BY DEF DashboardAssumption
<1>3. ServerOK
  BY <1>1, <1>2 DEF Init, ServerOK, DashboardAssumption, Budget
<1>4. BrowsersOK
  <2>1. <<>> \in Seq(Nat) /\ <<>> \in Seq(Message) /\ <<>> \in Seq(Answer)
    OBVIOUS
  <2>2. [tasks |-> {}, agents |-> Free, disc |-> <<>>, events |-> 0] \in View
    BY <1>1, <2>1 DEF View
  <2> QED BY <2>1, <2>2 DEF Init, BrowsersOK
<1>5. \A b \in Browsers : CountsOK(b)
  BY DEF Init, CountsOK
<1>6. HistoryOK
  BY DEF Init, HistoryOK
<1> QED BY <1>3, <1>4, <1>5, <1>6, TypeParts

LEMMA EntryNumbers ==
  ASSUME DashboardAssumption, TypeOK
  PROVE  {Blank, OldEntries + left.entries} \subseteq Nat
<1>1. left.entries \in Nat /\ OldEntries \in Nat
  BY TypeParts DEF ServerOK, Budget, DashboardAssumption
<1> QED BY <1>1 DEF Blank

LEMMA TypeStep == DashboardAssumption /\ TypeOK /\ [Next]_vars => TypeOK'
<1> SUFFICES ASSUME DashboardAssumption, TypeOK, [Next]_vars PROVE TypeOK'
  OBVIOUS
<1>0. HistoryOK'
  BY HistoryStep
<1>1. CASE UNCHANGED vars
  BY <1>1 DEF vars, disk, board, browser, TypeOK
<1>2. CASE \E e \in {Blank, OldEntries + left.entries} : Push(e)
  BY <1>0, <1>2, EntryNumbers, ServerTypes
<1>3. CASE FilesMove \/ Periodic \/ EventRecorded \/ \E t \in Tasks : Adopt(t) \/ Export(t)
  BY <1>0, <1>3, ServerTypes
<1>4. CASE Restart \/ \E b \in Browsers : Drop(b)
  BY <1>0, <1>4, DropTypes
<1>5. ASSUME NEW b \in Browsers,
             Connect(b) \/ ApiState(b) \/ Deliver(b) \/ AnswerShown(b) \/ FetchFails(b)
      PROVE  TypeOK'
  BY <1>0, <1>5, ConnectTypes, ApiStateTypes, DeliverTypes, AnswerTypes, FetchFailsTypes
<1> QED BY <1>1, <1>2, <1>3, <1>4, <1>5 DEF Next

\* The types of the server's and the browsers' state (server.py, index.html).
THEOREM DashboardTypes == Spec => []TypeOK
<1>1. Init => TypeOK
  BY TypeStart, DashboardAssumption
<1>2. TypeOK /\ [Next]_vars => TypeOK'
  BY TypeStep, DashboardAssumption
<1> QED BY <1>1, <1>2, PTL DEF Spec

(***************************************************************************)
(* What a browser comes to show.                                           *)
(***************************************************************************)

\* What is shown is what the server has: its discussion, and, when periodic has told of
\* the tasks, these and who is at work on them.
Right(u) ==
  /\ ~blank => u.disc = disc
  /\ tasks = lastSent /\ ~returned => Agrees(u, tasks)

\* A browser that shows v will show what the server has when w is delivered, from its
\* message k + 1 on.
ComesRight(w, k, v) == \E u \in View : Ends(w, k, v, u) /\ Right(u)

\* An answer, and the state of the server, as what a browser would show of them.
ViewOf(ans) ==
  [tasks |-> ans.tasks, agents |-> ans.agents, disc |-> ans.disc, events |-> ans.events]
Here == [tasks |-> tasks, agents |-> agents, disc |-> disc, events |-> recorded]

\* What a browser on an open socket shows comes right, and so would what it is answered
\* if it were shown when the messages sent before the answer have been.
BrowserInv(b) ==
  sock[b] = "open" =>
    /\ ~crossed[b] => ComesRight(wire[b], 0, view[b])
    /\ \A j \in 1 .. Len(answers[b]) :
         answers[b][j].ahead >= 0 =>
           ComesRight(wire[b], answers[b][j].ahead, ViewOf(answers[b][j]))

\* A snapshot is the first message of its socket, and whatever is shown before it comes
\* right with it: a browser that shows an overtaken answer is in step again after it.
FirstInv(b) ==
  \A i \in 1 .. Len(wire[b]) :
    wire[b][i].t = "init" => i = 1 /\ \A v \in View : ComesRight(wire[b], 0, v)

DashboardInv ==
  TypeOK /\ Right(Here) /\ \A b \in Browsers : BrowserInv(b) /\ FirstInv(b)

\* Busy agents are those the server has a task in processing for (update_agents).
LEMMA AgentsAgree ==
  ASSUME TypeOK, UpdateAgents
  PROVE  \A a \in Agents : (agents'[a] = "working") = Busy(tasks', a)
<1> SUFFICES ASSUME NEW a \in Agents PROVE (agents'[a] = "working") = Busy(tasks', a)
  OBVIOUS
<1>1. agents'[a] = IF Busy(tasks', a) THEN "working"
                   ELSE IF agents[a] = "working" THEN "idle" ELSE "online"
  BY DEF UpdateAgents
<1>2. Busy(tasks', a) \in BOOLEAN
  BY DEF Busy
<1>3. CASE Busy(tasks', a)
  BY <1>1, <1>3
<1>4. CASE ~Busy(tasks', a)
  BY <1>1, <1>2, <1>4
<1> QED BY <1>3, <1>4

\* What a browser shows after each kind of message (updateUI).
LEMMA ShownAs ==
  ASSUME NEW v \in View
  PROVE  /\ \A ts : Shown(v, TasksMsg(ts)) = [v EXCEPT !.tasks = ts]
         /\ \A ag : Shown(v, AgentsMsg(ag)) = [v EXCEPT !.agents = ag]
         /\ \A e : e # Blank => Shown(v, EntryMsg(e)) = [v EXCEPT !.disc = Trim(Append(v.disc, e))]
         /\ Shown(v, EntryMsg(Blank)) = v
         /\ Shown(v, EventMsg) = v
         /\ \A ts, ag, d :
              Shown(v, [t |-> "init", tasks |-> ts, agents |-> ag, disc |-> d])
                = [v EXCEPT !.tasks = ts, !.agents = ag, !.disc = d]
BY DEF Shown, TasksMsg, AgentsMsg, EntryMsg, EventMsg

\* Nothing was sent: what came right does, if it is right still.
LEMMA NothingSent ==
  ASSUME NEW w, NEW k, NEW v, ComesRight(w, k, v), \A u \in View : Right(u) => Right(u)'
  PROVE  \E u \in View : Ends(w, k, v, u) /\ Right(u)'
BY DEF ComesRight

\* One message was sent to whoever has an open socket.
LEMMA OneSent ==
  ASSUME DashboardAssumption, NEW w \in Seq(Message), NEW m \in Message, NEW k \in 0 .. Len(w),
         NEW v, ComesRight(w, k, v),
         \A u \in View : Right(u) => Right(Shown(u, m))'
  PROVE  \E u \in View : Ends(w \o <<m>>, k, v, u) /\ Right(u)'
<1>1. PICK u \in View : Ends(w, k, v, u) /\ Right(u)
  BY DEF ComesRight
<1>2. Shown(u, m) \in View
  BY ShownType
<1>3. Ends(Append(w, m), k, v, Shown(u, m))
  BY <1>1, EndsSent
<1>4. w \o <<m>> = Append(w, m)
  BY TwoSent
<1>5. Right(Shown(u, m))'
  BY <1>1
<1> QED BY <1>2, <1>3, <1>4, <1>5

\* A scan that periodic has not told of (scan_tasks): what is right stays right, also
\* when the tasks it found are sent.
LEMMA ScanRight ==
  ASSUME UNCHANGED <<lastSent, disc, blank>>, returned' = Undone,
         NEW ts, ts = tasks', NEW u \in View, Right(u)
  PROVE  Right(u)' /\ Right([u EXCEPT !.tasks = ts])'
<1> DEFINE v == [u EXCEPT !.tasks = ts]
<1>0. v.tasks = ts /\ v.agents = u.agents /\ v.disc = u.disc
  BY DEF View
<1> HIDE DEF v
<1>1. ~blank' => u.disc = disc' /\ v.disc = disc'
  BY <1>0 DEF Right
<1>2. ASSUME tasks' = lastSent', ~returned' PROVE Agrees(u, ts) /\ Agrees(v, ts)
  <2>1. tasks = lastSent /\ ~returned /\ ts = tasks
    BY <1>2 DEF Undone
  <2>2. Agrees(u, ts)
    BY <2>1 DEF Right
  <2> QED BY <1>0, <2>2 DEF Agrees
<1>3. Right(u)'
  BY <1>1, <1>2 DEF Right
<1>4. Right(v)'
  BY <1>1, <1>2 DEF Right
<1> QED BY <1>3, <1>4 DEF v

\* What the server has is right after a scan that periodic has not told of.
LEMMA HereAfterScan ==
  ASSUME DashboardInv, TypeOK', UNCHANGED <<lastSent, disc, blank>>, returned' = Undone,
         UpdateAgents \/ agents' = agents
  PROVE  Right(Here)'
<1>1. Here' = [tasks |-> tasks', agents |-> agents', disc |-> disc', events |-> recorded']
  BY DEF Here
<1>2. ASSUME tasks' = lastSent', ~returned'
      PROVE  \A a \in Agents : (agents'[a] = "working") = Busy(tasks', a)
  <2>1. CASE UpdateAgents
    BY <2>1, AgentsAgree DEF DashboardInv
  <2>2. CASE agents' = agents
    <3>1. tasks = lastSent /\ ~returned /\ tasks' = tasks
      BY <1>2 DEF Undone
    <3>2. Agrees(Here, tasks)
      BY <3>1 DEF DashboardInv, Right
    <3> QED BY <2>2, <3>1, <3>2 DEF Agrees, Here
  <2> QED BY <2>1, <2>2
<1> QED BY <1>1, <1>2 DEF Right, Agrees, Busy

\* A browser whose own state a step of the server leaves alone.
LEMMA ServerStepRight ==
  ASSUME DashboardInv, NEW b \in Browsers,
         sock'[b] = sock[b], view'[b] = view[b], answers'[b] = answers[b], crossed'[b] = crossed[b],
         \A k \in 0 .. Len(wire[b]) : \A v :
           ComesRight(wire[b], k, v) => \E u \in View : Ends(wire'[b], k, v, u) /\ Right(u)',
         \A i \in 1 .. Len(wire'[b]) :
           wire'[b][i].t = "init" => i \in 1 .. Len(wire[b]) /\ wire[b][i].t = "init"
  PROVE  (BrowserInv(b) /\ FirstInv(b))'
<1>1. BrowserInv(b) /\ FirstInv(b) /\ CountsOK(b) /\ Len(wire[b]) \in Nat
  BY TypeParts, BrowserTypes DEF DashboardInv
<1>2. ASSUME NEW k \in 0 .. Len(wire[b]), NEW v, ComesRight(wire[b], k, v)
      PROVE  \E u \in View : Ends(wire'[b], k, v, u) /\ Right(u)'
  BY <1>2
<1>3. ASSUME sock[b] = "open", ~crossed[b]
      PROVE  \E u \in View : Ends(wire'[b], 0, view[b], u) /\ Right(u)'
  <2>1. ComesRight(wire[b], 0, view[b]) /\ 0 \in 0 .. Len(wire[b])
    BY <1>1, <1>3 DEF BrowserInv
  <2> QED BY <1>2, <2>1
<1>4. ASSUME sock[b] = "open", NEW j \in 1 .. Len(answers[b]), answers[b][j].ahead >= 0
      PROVE  ComesRight(wire[b], answers[b][j].ahead, ViewOf(answers[b][j]))'
  <2>1. ComesRight(wire[b], answers[b][j].ahead, ViewOf(answers[b][j]))
    BY <1>1, <1>4 DEF BrowserInv
  <2>2. answers[b][j].ahead \in 0 .. Len(wire[b])
    BY <1>1, <1>4 DEF CountsOK
  <2>3. \E u \in View : /\ Ends(wire'[b], answers[b][j].ahead, ViewOf(answers[b][j]), u)
                        /\ Right(u)'
    BY <1>2, <2>1, <2>2
  <2>4. ViewOf(answers[b][j])' = ViewOf(answers[b][j])
    BY DEF ViewOf
  <2> QED BY <2>3, <2>4 DEF ComesRight
<1>5. BrowserInv(b)'
  BY <1>3, <1>4 DEF BrowserInv, ComesRight
<1>6. FirstInv(b)'
  <2>1. ASSUME NEW i \in 1 .. Len(wire'[b]), wire'[b][i].t = "init"
        PROVE  i = 1 /\ \A v \in View : \E u \in View : Ends(wire'[b], 0, v, u) /\ Right(u)'
    <3>1. i = 1 /\ \A v \in View : ComesRight(wire[b], 0, v)
      BY <1>1, <2>1 DEF FirstInv
    <3>2. 0 \in 0 .. Len(wire[b])
      BY <1>1
    <3> QED BY <1>2, <3>1, <3>2
  <2> QED BY <2>1 DEF FirstInv, ComesRight
<1> QED BY <1>5, <1>6

\* Nothing that was broadcast, or one message, to all open sockets.
LEMMA QuietRight ==
  ASSUME DashboardAssumption, DashboardInv, UNCHANGED <<sock, view, answers, crossed>>,
         \/ UNCHANGED wire /\ \A u \in View : Right(u) => Right(u)'
         \/ \E m \in Message : /\ m.t # "init" /\ Broadcast(<<m>>)
                               /\ \A u \in View : Right(u) => Right(Shown(u, m))',
         NEW b \in Browsers
  PROVE  (BrowserInv(b) /\ FirstInv(b))'
<1>0. /\ TypeOK /\ BrowsersOK /\ CountsOK(b)
      /\ wire[b] \in Seq(Message) /\ sock[b] \in {"open", "closed"}
  BY TypeParts, BrowserTypes DEF DashboardInv
<1>1. CASE UNCHANGED wire /\ \A u \in View : Right(u) => Right(u)'
  <2>1. ASSUME NEW k \in 0 .. Len(wire[b]), NEW v, ComesRight(wire[b], k, v)
        PROVE  \E u \in View : Ends(wire'[b], k, v, u) /\ Right(u)'
    BY <1>1, <2>1 DEF ComesRight
  <2>2. wire'[b] = wire[b]
    BY <1>1
  <2> QED BY <2>1, <2>2, ServerStepRight
<1>2. ASSUME NEW m \in Message, m.t # "init", Broadcast(<<m>>),
             \A u \in View : Right(u) => Right(Shown(u, m))'
      PROVE  (BrowserInv(b) /\ FirstInv(b))'
  <2>1. <<m>> \in Seq(Message)
    OBVIOUS
  <2>2. CASE sock[b] = "open"
    <3>1. wire'[b] = wire[b] \o <<m>> /\ wire'[b] = Append(wire[b], m)
      BY <1>0, <1>2, <2>1, <2>2, BroadcastType, TwoSent
    <3>2. ASSUME NEW k \in 0 .. Len(wire[b]), NEW v, ComesRight(wire[b], k, v)
          PROVE  \E u \in View : Ends(wire'[b], k, v, u) /\ Right(u)'
      <4>1. \E u \in View : Ends(wire[b] \o <<m>>, k, v, u) /\ Right(u)'
        BY <1>0, <1>2, <3>2, OneSent
      <4> QED BY <3>1, <4>1
    <3>3. ASSUME NEW i \in 1 .. Len(wire'[b]), wire'[b][i].t = "init"
          PROVE  i \in 1 .. Len(wire[b]) /\ wire[b][i].t = "init"
      <4>1. /\ Len(wire[b]) \in Nat /\ Len(wire'[b]) = Len(wire[b]) + 1
            /\ wire'[b][Len(wire[b]) + 1] = m
            /\ \A j \in 1 .. Len(wire[b]) : wire'[b][j] = wire[b][j]
        BY <1>0, <3>1, AppendPlaces, SeqPlaces
      <4>2. i # Len(wire[b]) + 1
        BY <1>2, <3>3, <4>1
      <4>3. i \in 1 .. Len(wire[b])
        BY <4>1, <4>2
      <4> QED BY <3>3, <4>1, <4>3
    <3> QED BY <3>2, <3>3, ServerStepRight
  <2>3. CASE sock[b] = "closed"
    <3>1. wire'[b] = <<>> /\ Len(<<>>) = 0
      BY <1>0, <1>2, <2>1, <2>3, BroadcastType DEF CountsOK
    <3> QED BY <2>3, <3>1 DEF BrowserInv, FirstInv
  <2> QED BY <1>0, <2>2, <2>3
<1> QED BY <1>1, <1>2

\* The first steps of the server: files that move (any process), an event (collab_event).
LEMMA TellsRight ==
  ASSUME DashboardAssumption, DashboardInv, TypeOK', FilesMove \/ EventRecorded
  PROVE  DashboardInv'
<1>1. /\ UNCHANGED <<tasks, agents, lastSent, returned, disc, blank>>
      /\ UNCHANGED <<sock, view, answers, crossed>>
      /\ UNCHANGED wire \/ Broadcast(<<EventMsg>>)
  BY DEF FilesMove, EventRecorded, Tells, board, browser
<1>2. ASSUME NEW u \in View, Right(u) PROVE Right(u)'
  BY <1>1, <1>2 DEF Right, Agrees, Busy
<1>3. Right(Here)'
  BY <1>1 DEF DashboardInv, Right, Here, Agrees, Busy
<1>4. \A u \in View : Shown(u, EventMsg) = u
  BY ShownAs
<1>5. EventMsg \in Message /\ EventMsg.t # "init"
  BY MessageTypes DEF EventMsg
<1>6. ASSUME NEW b \in Browsers PROVE (BrowserInv(b) /\ FirstInv(b))'
  <2>1. CASE UNCHANGED wire
    BY <1>1, <1>2, <2>1, QuietRight
  <2>2. CASE Broadcast(<<EventMsg>>)
    <3>1. \A u \in View : Right(u) => Right(Shown(u, EventMsg))'
      BY <1>2, <1>4, <1>5
    <3> QED BY <1>1, <1>5, <2>2, <3>1, QuietRight
  <2> QED BY <1>1, <2>1, <2>2
<1> QED BY <1>3, <1>6 DEF DashboardInv

\* A task of the mesh becomes a pending file (api_collab_adopt): the browsers are told of
\* the tasks and not of the agents.
LEMMA AdoptRight ==
  ASSUME DashboardAssumption, DashboardInv, TypeOK', NEW t \in Tasks, Adopt(t)
  PROVE  DashboardInv'
<1>0. PICK ts : ts = tasks'
  OBVIOUS
<1>1. /\ UNCHANGED <<lastSent, disc, blank, sock, view, answers, crossed>>
      /\ returned' = Undone /\ UpdateAgents /\ Broadcast(<<TasksMsg(ts)>>)
  BY <1>0 DEF Adopt
<1>2. TasksMsg(ts) \in Message /\ TasksMsg(ts).t # "init"
  <2>1. ts \in SUBSET Rows
    BY <1>0 DEF TypeOK
  <2> QED BY <2>1, MessageTypes DEF TasksMsg
<1>3. ASSUME NEW u \in View, Right(u) PROVE Right(Shown(u, TasksMsg(ts)))'
  <2>1. Shown(u, TasksMsg(ts)) = [u EXCEPT !.tasks = ts]
    BY ShownAs
  <2>2. Right([u EXCEPT !.tasks = ts])'
    BY <1>0, <1>1, <1>3, ScanRight
  <2> QED BY <2>1, <2>2
<1>4. Right(Here)'
  BY <1>1, HereAfterScan
<1>5. ASSUME NEW b \in Browsers PROVE (BrowserInv(b) /\ FirstInv(b))'
  BY <1>1, <1>2, <1>3, QuietRight
<1> QED BY <1>4, <1>5 DEF DashboardInv

\* A task is exported, or refused (api_collab_export): the browsers are told of the event
\* and of nothing the scan found.
LEMMA ExportRight ==
  ASSUME DashboardAssumption, DashboardInv, TypeOK', NEW t \in Tasks, Export(t)
  PROVE  DashboardInv'
<1>0. PICK ts : ts = tasks'
  OBVIOUS
<1>1. /\ UNCHANGED <<agents, lastSent, disc, blank, sock, view, answers, crossed>>
      /\ returned' = Undone
      /\ UNCHANGED wire \/ Broadcast(<<EventMsg>>)
  BY DEF Export
<1>2. ASSUME NEW u \in View, Right(u) PROVE Right(u)'
  BY <1>0, <1>1, <1>2, ScanRight
<1>3. Right(Here)'
  BY <1>1, HereAfterScan
<1>4. \A u \in View : Shown(u, EventMsg) = u
  BY ShownAs
<1>5. EventMsg \in Message /\ EventMsg.t # "init"
  BY MessageTypes DEF EventMsg
<1>6. ASSUME NEW b \in Browsers PROVE (BrowserInv(b) /\ FirstInv(b))'
  <2>1. CASE UNCHANGED wire
    BY <1>1, <1>2, <2>1, QuietRight
  <2>2. CASE Broadcast(<<EventMsg>>)
    <3>1. \A u \in View : Right(u) => Right(Shown(u, EventMsg))'
      BY <1>2, <1>4, <1>5
    <3> QED BY <1>1, <1>5, <2>2, <3>1, QuietRight
  <2> QED BY <1>1, <2>1, <2>2
<1> QED BY <1>3, <1>6 DEF DashboardInv

\* An entry of the discussion (append_discussion): the server and the browsers cut at the
\* same length; one without a text is kept by the server only.
LEMMA PushRight ==
  ASSUME DashboardAssumption, DashboardInv, TypeOK', NEW e \in Nat, Push(e)
  PROVE  DashboardInv'
<1>1. /\ UNCHANGED <<tasks, agents, lastSent, returned, sock, view, answers, crossed>>
      /\ disc' = Trim(Append(disc, e)) /\ blank' = (blank \/ e = Blank)
      /\ Broadcast(<<EntryMsg(e)>>)
  BY DEF Push, board
<1>2. EntryMsg(e) \in Message /\ EntryMsg(e).t # "init"
  BY MessageTypes DEF EntryMsg
<1>3. ASSUME NEW u \in View, Right(u) PROVE Right(Shown(u, EntryMsg(e)))'
  <2> DEFINE v == Shown(u, EntryMsg(e))
  <2>1. v.tasks = u.tasks /\ v.agents = u.agents
        /\ (e # Blank => v.disc = Trim(Append(u.disc, e)))
    <3>1. CASE e = Blank
      BY <3>1, ShownAs
    <3>2. CASE e # Blank
      <4>1. v = [u EXCEPT !.disc = Trim(Append(u.disc, e))]
        BY <3>2, ShownAs
      <4> QED BY <4>1 DEF View
    <3> QED BY <3>1, <3>2
  <2> HIDE DEF v
  <2>2. ~blank' => v.disc = disc'
    BY <1>1, <1>3, <2>1 DEF Right
  <2>3. Right(v)'
    BY <1>1, <1>3, <2>1, <2>2 DEF Right, Agrees, Busy
  <2> QED BY <2>3 DEF v
<1>4. Right(Here)'
  BY <1>1 DEF DashboardInv, Right, Here, Agrees, Busy
<1>5. ASSUME NEW b \in Browsers PROVE (BrowserInv(b) /\ FirstInv(b))'
  BY <1>1, <1>2, <1>3, QuietRight
<1> QED BY <1>4, <1>5 DEF DashboardInv

\* Two messages at once, of which none is a snapshot.
LEMMA TwoPlaces ==
  ASSUME NEW w \in Seq(Message), NEW m \in Message, NEW n \in Message,
         m.t # "init", n.t # "init",
         NEW i \in 1 .. Len(Append(Append(w, m), n)), Append(Append(w, m), n)[i].t = "init"
  PROVE  i \in 1 .. Len(w) /\ w[i].t = "init"
<1> DEFINE a == Append(w, m)
           c == Append(a, n)
<1>1. /\ a \in Seq(Message) /\ Len(w) \in Nat /\ Len(a) = Len(w) + 1
      /\ a[Len(w) + 1] = m /\ \A j \in 1 .. Len(w) : a[j] = w[j]
  BY AppendPlaces, SeqPlaces
<1> HIDE DEF a
<1>2. Len(c) = Len(a) + 1 /\ c[Len(a) + 1] = n /\ \A j \in 1 .. Len(a) : c[j] = a[j]
  BY <1>1, AppendPlaces
<1>3. i \in 1 .. Len(c) /\ c[i].t = "init"
  BY DEF a
<1> HIDE DEF c
<1>4. i \in 1 .. Len(a) /\ a[i].t = "init"
  BY <1>1, <1>2, <1>3
<1> QED BY <1>1, <1>4

\* periodic: the tasks and the agents are sent together, after update_agents, or nothing.
LEMMA PeriodicRight ==
  ASSUME DashboardAssumption, DashboardInv, TypeOK', Periodic
  PROVE  DashboardInv'
<1>0. PICK ts, ag : ts = tasks' /\ ag = agents'
  OBVIOUS
<1>1. /\ UNCHANGED <<disc, blank, sock, view, answers, crossed>> /\ UpdateAgents
      /\ \/ Broadcast(<<TasksMsg(ts), AgentsMsg(ag)>>) /\ lastSent' = tasks' /\ returned' = FALSE
         \/ returned' = Undone /\ UNCHANGED <<wire, lastSent>>
  BY <1>0 DEF Periodic
<1>2. CASE returned' = Undone /\ UNCHANGED <<wire, lastSent>>
  <2>1. \A u \in View : Right(u) => Right(u)'
    BY <1>0, <1>1, <1>2, ScanRight
  <2>2. Right(Here)'
    BY <1>1, <1>2, HereAfterScan
  <2>3. ASSUME NEW b \in Browsers PROVE (BrowserInv(b) /\ FirstInv(b))'
    BY <1>1, <1>2, <2>1, QuietRight
  <2> QED BY <2>2, <2>3 DEF DashboardInv
<1>3. CASE Broadcast(<<TasksMsg(ts), AgentsMsg(ag)>>) /\ lastSent' = tasks' /\ returned' = FALSE
  <2>0. TypeOK /\ BrowsersOK
    BY TypeParts DEF DashboardInv
  <2>1. ts \in SUBSET Rows /\ ag \in States
    BY <1>0 DEF TypeOK
  <2> DEFINE m == TasksMsg(ts)
             n == AgentsMsg(ag)
  <2>2. m \in Message /\ n \in Message /\ m.t # "init" /\ n.t # "init"
    BY <2>1, MessageTypes DEF TasksMsg, AgentsMsg
  <2>3. \A a \in Agents : (ag[a] = "working") = Busy(ts, a)
    BY <1>0, <1>1, <2>0, AgentsAgree DEF Busy
  <2>4. ASSUME NEW u \in View, Right(u) PROVE Right(Shown(Shown(u, m), n))'
    <3> DEFINE v == Shown(u, m)
               x == Shown(v, n)
    <3>0. v = [u EXCEPT !.tasks = ts]
      BY ShownAs
    <3>1. v \in View
      BY <2>1, <3>0 DEF View
    <3>2. x = [v EXCEPT !.agents = ag]
      BY <3>1, ShownAs
    <3>3. x.tasks = ts /\ x.agents = ag /\ x.disc = u.disc
      BY <3>0, <3>1, <3>2 DEF View
    <3> HIDE DEF v, x
    <3>4. Right(x)'
      BY <1>0, <1>1, <2>3, <2>4, <3>3 DEF Right, Agrees
    <3> QED BY <3>4 DEF v, x
  <2>5. Right(Here)'
    BY <1>0, <1>1, <2>0, AgentsAgree DEF DashboardInv, Right, Agrees, Here, Busy
  <2> HIDE DEF m, n
  <2>6. ASSUME NEW b \in Browsers PROVE (BrowserInv(b) /\ FirstInv(b))'
    <3>0. /\ wire[b] \in Seq(Message) /\ sock[b] \in {"open", "closed"} /\ CountsOK(b)
          /\ <<m, n>> \in Seq(Message)
      BY <2>0, <2>2, BrowserTypes, TypeParts
    <3>1. Broadcast(<<m, n>>)
      BY <1>3 DEF m, n
    <3>2. CASE sock[b] = "open"
      <4>0. wire'[b] = wire[b] \o <<m, n>>
        BY <2>0, <3>0, <3>1, <3>2, BroadcastType
      <4>1. wire'[b] = Append(Append(wire[b], m), n)
        <5>1. \A w \in Seq(Message), x, y \in Message : w \o <<x, y>> = Append(Append(w, x), y)
          BY TwoSent
        <5>2. wire[b] \in Seq(Message) /\ m \in Message /\ n \in Message
          BY <2>2, <3>0
        <5> QED BY <4>0, <5>1, <5>2
      <4>2. ASSUME NEW k \in 0 .. Len(wire[b]), NEW v, ComesRight(wire[b], k, v)
            PROVE  \E u \in View : Ends(wire'[b], k, v, u) /\ Right(u)'
        <5>1. PICK u \in View : Ends(wire[b], k, v, u) /\ Right(u)
          BY <4>2 DEF ComesRight
        <5>2. Ends(Append(wire[b], m), k, v, Shown(u, m))
          BY <2>2, <3>0, <5>1, EndsSent
        <5>3. Append(wire[b], m) \in Seq(Message) /\ k \in 0 .. Len(Append(wire[b], m))
          BY <2>2, <3>0, AppendPlaces, SeqPlaces
        <5>4. Ends(Append(Append(wire[b], m), n), k, v, Shown(Shown(u, m), n))
          BY <2>2, <5>2, <5>3, EndsSent
        <5>5. Shown(Shown(u, m), n) \in View
          BY <2>2, ShownType
        <5> QED BY <2>4, <4>1, <5>1, <5>4, <5>5
      <4>3. ASSUME NEW i \in 1 .. Len(wire'[b]), wire'[b][i].t = "init"
            PROVE  i \in 1 .. Len(wire[b]) /\ wire[b][i].t = "init"
        BY <2>2, <3>0, <4>1, <4>3, TwoPlaces
      <4> QED BY <1>1, <4>2, <4>3, ServerStepRight
    <3>3. CASE sock[b] = "closed"
      <4>1. wire'[b] = <<>> /\ Len(<<>>) = 0
        BY <2>0, <3>0, <3>1, <3>3, BroadcastType DEF CountsOK
      <4> QED BY <1>1, <3>3, <4>1 DEF BrowserInv, FirstInv
    <3> QED BY <3>0, <3>2, <3>3
  <2> QED BY <2>5, <2>6 DEF DashboardInv
<1> QED BY <1>1, <1>2, <1>3

\* A browser that has no part in a step, after which what was right is.
LEMMA OthersRight ==
  ASSUME DashboardInv, NEW c \in Browsers,
         sock'[c] = sock[c], wire'[c] = wire[c], view'[c] = view[c], answers'[c] = answers[c],
         crossed'[c] = crossed[c],
         \A u \in View : Right(u) => Right(u)'
  PROVE  (BrowserInv(c) /\ FirstInv(c))'
<1>1. ASSUME NEW k \in 0 .. Len(wire[c]), NEW v, ComesRight(wire[c], k, v)
      PROVE  \E u \in View : Ends(wire'[c], k, v, u) /\ Right(u)'
  BY <1>1 DEF ComesRight
<1> QED BY <1>1, ServerStepRight

\* A socket is opened (aio_ws): whatever the browser shows, also an answer it was given
\* before, comes right with the snapshot.
LEMMA ConnectRight ==
  ASSUME DashboardAssumption, DashboardInv, TypeOK', NEW b \in Browsers, Connect(b)
  PROVE  DashboardInv'
<1>0. TypeOK /\ ServerOK /\ BrowsersOK /\ HistoryOK
  BY TypeParts DEF DashboardInv
<1>1. PICK m : m = [t |-> "init", tasks |-> tasks, agents |-> agents, disc |-> disc]
  OBVIOUS
<1>2. m \in Message
  BY <1>0, <1>1, MessageTypes DEF ServerOK
<1>3. /\ sock' = [sock EXCEPT ![b] = "open"] /\ wire' = [wire EXCEPT ![b] = <<m>>]
      /\ UNCHANGED <<tasks, agents, lastSent, returned, disc, blank, view, answers, crossed>>
  BY <1>1 DEF Connect, board
<1>4. wire'[b] = <<m>> /\ <<m>> = Append(<<>>, m) /\ Len(<<m>>) = 1
  BY <1>0, <1>3 DEF BrowsersOK
<1>5. ASSUME NEW v \in View
      PROVE  \E u \in View : Ends(wire'[b], 0, v, u) /\ Right(u)'
  <2> DEFINE u == Shown(v, m)
  <2>1. u = [v EXCEPT !.tasks = tasks, !.agents = agents, !.disc = disc]
    BY <1>1 DEF Shown
  <2>2. u.tasks = tasks /\ u.agents = agents /\ u.disc = disc
    BY <2>1 DEF View
  <2>3. u \in View
    BY <1>2, ShownType
  <2> HIDE DEF u
  <2>4. Right(u)'
    BY <1>3, <2>2 DEF DashboardInv, Right, Here, Agrees, Busy
  <2>5. Ends(<<>>, 0, v, v)
    <3>1. <<>> \in Seq(Message) /\ Len(<<>>) = 0
      OBVIOUS
    <3> QED BY <3>1, EndsNow
  <2>6. Ends(Append(<<>>, m), 0, v, u)
    <3>1. <<>> \in Seq(Message) /\ 0 \in 0 .. Len(<<>>)
      OBVIOUS
    <3> QED BY <1>2, <2>5, <3>1, EndsSent DEF u
  <2> QED BY <1>4, <2>3, <2>4, <2>6
<1>6. \A a \in Answer : ViewOf(a) \in View
  BY DEF ViewOf, View, Answer
<1>7. BrowserInv(b)'
  <2>1. view'[b] \in View
    BY <1>0, <1>3, BrowserTypes
  <2>2. ASSUME NEW j \in 1 .. Len(answers'[b]), answers'[b][j].ahead >= 0
        PROVE  ComesRight(wire[b], answers[b][j].ahead, ViewOf(answers[b][j]))'
    <3>1. answers'[b][j] \in Answer
      BY <1>0, <1>3, BrowserTypes, SeqPlaces
    <3>2. answers'[b][j].ahead = 0
      <4>1. wire[b] = <<>> /\ CountsOK(b)
        BY <1>0, TypeParts DEF CountsOK, Connect
      <4>2. answers[b][j].ahead \in -1 .. 0
        BY <1>3, <4>1 DEF CountsOK
      <4> QED BY <1>3, <2>2, <4>2
    <3>3. ViewOf(answers'[b][j]) \in View
      BY <1>6, <3>1
    <3>4. ViewOf(answers[b][j])' = ViewOf(answers'[b][j])
      BY DEF ViewOf
    <3> QED BY <1>5, <3>2, <3>3, <3>4 DEF ComesRight
  <2> QED BY <1>5, <2>1, <2>2 DEF BrowserInv, ComesRight
<1>8. FirstInv(b)'
  BY <1>4, <1>5 DEF FirstInv, ComesRight
<1>9. ASSUME NEW c \in Browsers, c # b PROVE (BrowserInv(c) /\ FirstInv(c))'
  <2>1. sock'[c] = sock[c] /\ wire'[c] = wire[c]
    BY <1>0, <1>3, <1>9 DEF BrowsersOK
  <2>2. \A u \in View : Right(u) => Right(u)'
    BY <1>3 DEF Right, Agrees, Busy
  <2> QED BY <1>3, <2>1, <2>2, OthersRight
<1>10. Right(Here)'
  BY <1>3 DEF DashboardInv, Right, Here, Agrees, Busy
<1> QED BY <1>7, <1>8, <1>9, <1>10 DEF DashboardInv

\* The server answers a request (api_state): the answer is right once the messages that
\* were sent before it have been shown.
LEMMA ApiStateRight ==
  ASSUME DashboardAssumption, DashboardInv, TypeOK', NEW b \in Browsers, ApiState(b)
  PROVE  DashboardInv'
<1>0. TypeOK /\ ServerOK /\ BrowsersOK /\ CountsOK(b)
  BY TypeParts DEF DashboardInv
<1>1. PICK ts, ag : ts = tasks' /\ ag = agents'
  OBVIOUS
<1>2. PICK n : n = [tasks |-> ts, agents |-> ag, disc |-> disc, events |-> recorded,
                    ahead |-> Len(wire[b])]
  OBVIOUS
<1>3. /\ UNCHANGED <<recorded, lastSent, disc, blank, sock, wire, view, crossed>>
      /\ returned' = Undone /\ UpdateAgents
      /\ answers' = [answers EXCEPT ![b] = Append(answers[b], n)]
  BY <1>1, <1>2 DEF ApiState
<1>4. \A u \in View : Right(u) => Right(u)'
  BY <1>1, <1>3, ScanRight
<1>5. Right(Here)'
  BY <1>3, HereAfterScan
<1>6. ASSUME NEW k, NEW v, ComesRight(wire[b], k, v)
      PROVE  ComesRight(wire[b], k, v)'
  BY <1>3, <1>4, <1>6 DEF ComesRight
<1>7. /\ answers[b] \in Seq(Answer) /\ Len(answers[b]) \in Nat
      /\ wire[b] \in Seq(Message) /\ Len(wire[b]) \in Nat
  BY <1>0, BrowserTypes
<1>8. n \in Answer
  <2>1. ts \in SUBSET Rows /\ ag \in States
    BY <1>1 DEF TypeOK
  <2> QED BY <1>0, <1>2, <1>7, <2>1 DEF ServerOK, Answer
<1>9. answers'[b] = Append(answers[b], n)
  BY <1>0, <1>3 DEF BrowsersOK
<1>10. BrowserInv(b)'
  <2>1. ASSUME sock[b] = "open", ~crossed[b] PROVE ComesRight(wire[b], 0, view[b])'
    <3>1. ComesRight(wire[b], 0, view[b])
      BY <2>1 DEF DashboardInv, BrowserInv
    <3> QED BY <1>3, <1>6, <3>1
  <2>2. ASSUME sock[b] = "open", NEW j \in 1 .. Len(answers'[b]), answers'[b][j].ahead >= 0
        PROVE  ComesRight(wire[b], answers[b][j].ahead, ViewOf(answers[b][j]))'
    <3>1. /\ Len(answers'[b]) = Len(answers[b]) + 1
          /\ answers'[b][Len(answers[b]) + 1] = n
          /\ \A i \in 1 .. Len(answers[b]) : answers'[b][i] = answers[b][i]
      BY <1>7, <1>8, <1>9, AppendPlaces
    <3>2. CASE j = Len(answers[b]) + 1
      <4> DEFINE u == ViewOf(n)
      <4>1. u = [tasks |-> ts, agents |-> ag, disc |-> disc, events |-> recorded]
        BY <1>2 DEF ViewOf
      <4>2. u \in View
        BY <1>8 DEF ViewOf, View, Answer
      <4>3. Right(u)'
        BY <1>1, <1>3, <1>5, <4>1 DEF Right, Here, Agrees, Busy
      <4>4. n.ahead = Len(wire[b])
        BY <1>2
      <4> HIDE DEF u
      <4>5. Ends(wire[b], Len(wire[b]), u, u)
        BY <1>7, EndsNow
      <4>6. \E x \in View : Ends(wire[b], n.ahead, u, x) /\ Right(x)'
        BY <4>2, <4>3, <4>4, <4>5
      <4>7. answers'[b][j] = n
        BY <3>1, <3>2
      <4>8. ViewOf(answers[b][j])' = u /\ answers'[b][j].ahead = n.ahead
        BY <4>7 DEF u, ViewOf
      <4> QED BY <1>3, <4>6, <4>8 DEF ComesRight
    <3>3. CASE j # Len(answers[b]) + 1
      <4>1. j \in 1 .. Len(answers[b]) /\ answers'[b][j] = answers[b][j]
        BY <1>7, <3>1, <3>3
      <4>2. ComesRight(wire[b], answers[b][j].ahead, ViewOf(answers[b][j]))
        BY <2>2, <4>1 DEF DashboardInv, BrowserInv
      <4>3. \E x \in View : Ends(wire[b], answers[b][j].ahead, ViewOf(answers[b][j]), x)
                            /\ Right(x)'
        BY <1>4, <4>2 DEF ComesRight
      <4>4. ViewOf(answers[b][j])' = ViewOf(answers[b][j])
        BY <4>1 DEF ViewOf
      <4> QED BY <1>3, <4>1, <4>3, <4>4 DEF ComesRight
    <3> QED BY <3>2, <3>3
  <2> QED BY <1>3, <2>1, <2>2 DEF BrowserInv
<1>11. FirstInv(b)'
  <2>1. ASSUME NEW v \in View, ComesRight(wire[b], 0, v)
        PROVE  ComesRight(wire[b], 0, v)'
    BY <1>6, <2>1
  <2> QED BY <1>3, <2>1 DEF DashboardInv, FirstInv
<1>12. ASSUME NEW c \in Browsers, c # b PROVE (BrowserInv(c) /\ FirstInv(c))'
  <2>1. answers'[c] = answers[c]
    BY <1>0, <1>3, <1>12 DEF BrowsersOK
  <2> QED BY <1>3, <1>4, <2>1, OthersRight
<1> QED BY <1>5, <1>10, <1>11, <1>12 DEF DashboardInv

\* A message is shown (onmessage): what comes right with it and those after it comes
\* right with those after it, and a snapshot puts a browser in step again.
LEMMA DeliverRight ==
  ASSUME DashboardAssumption, DashboardInv, TypeOK', NEW b \in Browsers, Deliver(b)
  PROVE  DashboardInv'
<1>0. /\ TypeOK /\ ServerOK /\ BrowsersOK /\ HistoryOK /\ CountsOK(b)
      /\ BrowserInv(b) /\ FirstInv(b)
  BY TypeParts DEF DashboardInv
<1>1. PICK m : m = Head(wire[b])
  OBVIOUS
<1>2. /\ view' = [view EXCEPT ![b] = Shown(view[b], m)]
      /\ crossed' = [crossed EXCEPT ![b] = crossed[b] /\ m.t # "init"]
      /\ wire' = [wire EXCEPT ![b] = Tail(wire[b])]
      /\ answers' = [answers EXCEPT ![b] = Behind(answers[b])]
      /\ UNCHANGED <<tasks, agents, lastSent, returned, disc, blank, sock>>
      /\ wire[b] # <<>>
  BY <1>1 DEF Deliver, board
<1>3. /\ view'[b] = Shown(view[b], m) /\ crossed'[b] = (crossed[b] /\ m.t # "init")
      /\ wire'[b] = Tail(wire[b]) /\ answers'[b] = Behind(answers[b])
  BY <1>0, <1>2 DEF BrowsersOK, HistoryOK
<1>4. wire[b] \in Seq(Message) /\ answers[b] \in Seq(Answer)
  BY <1>0, BrowserTypes
<1>5. /\ m = wire[b][1] /\ Len(wire[b]) \in Nat \ {0} /\ Len(Tail(wire[b])) = Len(wire[b]) - 1
      /\ \A i \in 1 .. Len(Tail(wire[b])) : Tail(wire[b])[i] = wire[b][i + 1]
  BY <1>1, <1>2, <1>4, TailPlaces
<1>6. \A u : Right(u) => Right(u)'
  BY <1>2 DEF Right, Agrees, Busy
<1>7. ASSUME NEW k \in 0 .. Len(wire[b]), NEW v, ComesRight(wire[b], k, v)
      PROVE  \E u \in View :
               /\ Right(u)'
               /\ IF k = 0 THEN Ends(Tail(wire[b]), 0, Shown(v, m), u)
                           ELSE Ends(Tail(wire[b]), k - 1, v, u)
  <2>1. PICK u \in View : Ends(wire[b], k, v, u) /\ Right(u)
    BY <1>7 DEF ComesRight
  <2>2. IF k = 0 THEN Ends(Tail(wire[b]), 0, Shown(v, m), u)
                 ELSE Ends(Tail(wire[b]), k - 1, v, u)
    BY <1>1, <1>2, <1>4, <2>1, EndsDelivered
  <2> QED BY <1>6, <2>1, <2>2
<1>8. BrowserInv(b)'
  <2>1. ASSUME sock[b] = "open", ~crossed'[b]
        PROVE  \E u \in View : Ends(Tail(wire[b]), 0, Shown(view[b], m), u) /\ Right(u)'
    <3>1. ComesRight(wire[b], 0, view[b])
      <4>1. CASE ~crossed[b]
        BY <1>0, <2>1, <4>1 DEF BrowserInv
      <4>2. CASE m.t = "init"
        <5>1. 1 \in 1 .. Len(wire[b]) /\ view[b] \in View
          BY <1>0, <1>5, BrowserTypes
        <5> QED BY <1>0, <1>5, <4>2, <5>1 DEF FirstInv
      <4> QED BY <1>3, <2>1, <4>1, <4>2
    <3>2. 0 \in 0 .. Len(wire[b])
      BY <1>5
    <3> QED BY <1>7, <3>1, <3>2
  <2>2. ASSUME sock[b] = "open", NEW j \in 1 .. Len(answers'[b]), answers'[b][j].ahead >= 0
        PROVE  ComesRight(wire[b], answers[b][j].ahead, ViewOf(answers[b][j]))'
    <3> DEFINE k == answers[b][j].ahead
               v == ViewOf(answers[b][j])
    <3>1. j \in 1 .. Len(answers[b]) /\ answers'[b][j].ahead = IF k < 0 THEN -1 ELSE k - 1
      <4>1. /\ Len(Behind(answers[b])) = Len(answers[b])
            /\ \A i \in 1 .. Len(answers[b]) :
                 Behind(answers[b])[i].ahead
                   = IF answers[b][i].ahead < 0 THEN -1 ELSE answers[b][i].ahead - 1
        BY <1>4, BehindType
      <4>2. j \in 1 .. Len(answers[b])
        BY <1>3, <4>1
      <4> QED BY <1>3, <4>1, <4>2
    <3>2. ViewOf(answers'[b][j]) = v
      BY <1>3, <1>4, <3>1, BehindType DEF ViewOf
    <3>3. k \in -1 .. Len(wire[b])
      BY <1>0, <3>1 DEF CountsOK
    <3>4. k \in 0 .. Len(wire[b]) /\ k # 0 /\ k >= 0 /\ answers'[b][j].ahead = k - 1
      BY <1>5, <2>2, <3>1, <3>3
    <3>5. ComesRight(wire[b], k, v)
      BY <1>0, <2>2, <3>1, <3>4 DEF BrowserInv
    <3> HIDE DEF k, v
    <3>6. \E u \in View : Ends(Tail(wire[b]), k - 1, v, u) /\ Right(u)'
      BY <1>7, <3>4, <3>5
    <3>7. ViewOf(answers[b][j])' = v
      BY <3>2 DEF ViewOf
    <3> QED BY <1>3, <3>4, <3>6, <3>7 DEF ComesRight
  <2>3. sock'[b] = sock[b]
    BY <1>2
  <2> QED BY <1>3, <2>1, <2>2, <2>3 DEF BrowserInv, ComesRight
<1>9. FirstInv(b)'
  <2>1. ASSUME NEW i \in 1 .. Len(Tail(wire[b])) PROVE Tail(wire[b])[i].t # "init"
    <3>1. i + 1 \in 1 .. Len(wire[b]) /\ i + 1 # 1 /\ Tail(wire[b])[i] = wire[b][i + 1]
      BY <1>5
    <3> QED BY <1>0, <3>1 DEF FirstInv
  <2> QED BY <1>3, <2>1 DEF FirstInv
<1>10. ASSUME NEW c \in Browsers, c # b PROVE (BrowserInv(c) /\ FirstInv(c))'
  <2>1. /\ sock'[c] = sock[c] /\ wire'[c] = wire[c] /\ view'[c] = view[c]
        /\ answers'[c] = answers[c] /\ crossed'[c] = crossed[c]
    BY <1>0, <1>2, <1>10 DEF BrowsersOK, HistoryOK
  <2> QED BY <1>6, <2>1, OthersRight
<1>11. Right(Here)'
  BY <1>2 DEF DashboardInv, Right, Here, Agrees, Busy
<1> QED BY <1>8, <1>9, <1>10, <1>11 DEF DashboardInv

\* An answer is shown (refreshState): if no message that came after it has been shown
\* before it, the browser is in step.
LEMMA AnswerRight ==
  ASSUME DashboardAssumption, DashboardInv, TypeOK', NEW b \in Browsers, AnswerShown(b)
  PROVE  DashboardInv'
<1>0. /\ TypeOK /\ ServerOK /\ BrowsersOK /\ HistoryOK /\ CountsOK(b)
      /\ BrowserInv(b) /\ FirstInv(b) /\ answers[b] \in Seq(Answer)
  BY TypeParts, BrowserTypes DEF DashboardInv
<1>1. DOMAIN answers[b] = 1 .. Len(answers[b]) /\ Len(answers[b]) \in Nat
  BY <1>0, SeqPlaces
<1>2. PICK i \in 1 .. Len(answers[b]) :
        /\ view' = [view EXCEPT ![b] = ViewOf(answers[b][i])]
        /\ crossed' = [crossed EXCEPT ![b] = answers[b][i].ahead # 0]
        /\ answers' = [answers EXCEPT ![b] = Rest(answers[b], i)]
        /\ UNCHANGED <<board, disc, sock, wire, blank>>
  BY <1>1 DEF AnswerShown, Rest, ViewOf
<1>3. /\ view'[b] = ViewOf(answers[b][i]) /\ crossed'[b] = (answers[b][i].ahead # 0)
      /\ answers'[b] = Rest(answers[b], i)
  BY <1>0, <1>2 DEF BrowsersOK, HistoryOK
<1>4. \A u : Right(u) => Right(u)'
  BY <1>2 DEF Right, Agrees, Busy, board
<1>5. ASSUME NEW k, NEW v, ComesRight(wire[b], k, v)
      PROVE  \E u \in View : Ends(wire'[b], k, v, u) /\ Right(u)'
  BY <1>2, <1>4, <1>5 DEF ComesRight
<1>6. BrowserInv(b)'
  <2>1. ASSUME sock[b] = "open", ~crossed'[b]
        PROVE  \E u \in View : Ends(wire'[b], 0, view'[b], u) /\ Right(u)'
    <3>1. answers[b][i].ahead = 0
      BY <1>3, <2>1
    <3>2. ComesRight(wire[b], 0, ViewOf(answers[b][i]))
      BY <1>0, <2>1, <3>1 DEF BrowserInv
    <3> QED BY <1>3, <1>5, <3>2
  <2>2. ASSUME sock[b] = "open", NEW j \in 1 .. Len(answers'[b]), answers'[b][j].ahead >= 0
        PROVE  ComesRight(wire[b], answers[b][j].ahead, ViewOf(answers[b][j]))'
    <3>1. j \in 1 .. Len(answers[b]) - 1 /\ i \in 1 .. Len(answers[b])
      BY <1>0, <1>3, RestType
    <3>2. ~(j < i)
      <4>1. SUFFICES ASSUME j < i PROVE answers'[b][j].ahead = -1
        BY <2>2
      <4> QED BY <1>0, <1>3, <3>1, <4>1, RestType
    <3>3. j + 1 \in 1 .. Len(answers[b]) /\ answers'[b][j] = answers[b][j + 1]
      BY <1>0, <1>3, <3>1, <3>2, RestType
    <3>4. ComesRight(wire[b], answers[b][j + 1].ahead, ViewOf(answers[b][j + 1]))
      BY <1>0, <2>2, <3>3 DEF BrowserInv
    <3>5. \E u \in View : /\ Ends(wire'[b], answers[b][j + 1].ahead, ViewOf(answers[b][j + 1]), u)
                          /\ Right(u)'
      BY <1>5, <3>4
    <3>6. ViewOf(answers[b][j])' = ViewOf(answers[b][j + 1])
      BY <3>3 DEF ViewOf
    <3> QED BY <3>3, <3>5, <3>6 DEF ComesRight
  <2> QED BY <1>2, <2>1, <2>2 DEF BrowserInv, ComesRight
<1>7. FirstInv(b)'
  <2>1. ASSUME NEW v \in View, ComesRight(wire[b], 0, v)
        PROVE  ComesRight(wire[b], 0, v)'
    BY <1>5, <2>1 DEF ComesRight
  <2> QED BY <1>0, <1>2, <2>1 DEF FirstInv
<1>8. ASSUME NEW c \in Browsers, c # b PROVE (BrowserInv(c) /\ FirstInv(c))'
  <2>1. /\ sock'[c] = sock[c] /\ wire'[c] = wire[c] /\ view'[c] = view[c]
        /\ answers'[c] = answers[c] /\ crossed'[c] = crossed[c]
    BY <1>0, <1>2, <1>8 DEF BrowsersOK, HistoryOK
  <2> QED BY <1>4, <2>1, OthersRight
<1>9. Right(Here)'
  BY <1>2 DEF DashboardInv, Right, Here, Agrees, Busy, board
<1> QED BY <1>6, <1>7, <1>8, <1>9 DEF DashboardInv

\* A request or an answer is lost (refreshState).
LEMMA FetchFailsRight ==
  ASSUME DashboardAssumption, DashboardInv, TypeOK', NEW b \in Browsers, FetchFails(b)
  PROVE  DashboardInv'
<1>0. TypeOK /\ BrowsersOK /\ BrowserInv(b) /\ FirstInv(b) /\ answers[b] \in Seq(Answer)
  BY TypeParts, BrowserTypes DEF DashboardInv
<1>1. /\ UNCHANGED <<tasks, agents, lastSent, returned, disc, blank, sock, wire, view, crossed>>
      /\ UNCHANGED answers \/ (answers[b] # <<>> /\ answers' = [answers EXCEPT ![b] = Tail(@)])
  BY DEF FetchFails, board
<1>2. \A u : Right(u) => Right(u)'
  BY <1>1 DEF Right, Agrees, Busy
<1>3. ASSUME NEW c \in Browsers, answers'[c] = answers[c]
      PROVE  (BrowserInv(c) /\ FirstInv(c))'
  BY <1>1, <1>2, <1>3, OthersRight
<1>4. ASSUME answers[b] # <<>>, answers'[b] = Tail(answers[b])
      PROVE  (BrowserInv(b) /\ FirstInv(b))'
  <2>1. ASSUME NEW k, NEW v, ComesRight(wire[b], k, v)
        PROVE  \E u \in View : Ends(wire'[b], k, v, u) /\ Right(u)'
    BY <1>1, <1>2, <2>1 DEF ComesRight
  <2>2. ASSUME sock[b] = "open", NEW j \in 1 .. Len(answers'[b]), answers'[b][j].ahead >= 0
        PROVE  ComesRight(wire[b], answers[b][j].ahead, ViewOf(answers[b][j]))'
    <3>1. j + 1 \in 1 .. Len(answers[b]) /\ answers'[b][j] = answers[b][j + 1]
      BY <1>0, <1>4, TailPlaces
    <3>2. ComesRight(wire[b], answers[b][j + 1].ahead, ViewOf(answers[b][j + 1]))
      BY <1>0, <2>2, <3>1 DEF BrowserInv
    <3>3. \E u \in View : /\ Ends(wire'[b], answers[b][j + 1].ahead, ViewOf(answers[b][j + 1]), u)
                          /\ Right(u)'
      BY <2>1, <3>2
    <3>4. ViewOf(answers[b][j])' = ViewOf(answers[b][j + 1])
      BY <3>1 DEF ViewOf
    <3> QED BY <3>1, <3>3, <3>4 DEF ComesRight
  <2>3. ASSUME sock[b] = "open", ~crossed[b] PROVE ComesRight(wire[b], 0, view[b])'
    <3>1. ComesRight(wire[b], 0, view[b])
      BY <1>0, <2>3 DEF BrowserInv
    <3>2. \E u \in View : Ends(wire'[b], 0, view[b], u) /\ Right(u)'
      BY <2>1, <3>1
    <3> QED BY <1>1, <3>2 DEF ComesRight
  <2>4. BrowserInv(b)'
    BY <1>1, <2>2, <2>3 DEF BrowserInv
  <2>5. FirstInv(b)'
    <3>1. ASSUME NEW v \in View, ComesRight(wire[b], 0, v)
          PROVE  ComesRight(wire[b], 0, v)'
      BY <2>1, <3>1 DEF ComesRight
    <3> QED BY <1>0, <1>1, <3>1 DEF FirstInv
  <2> QED BY <2>4, <2>5
<1>5. ASSUME NEW c \in Browsers PROVE (BrowserInv(c) /\ FirstInv(c))'
  <2>1. CASE UNCHANGED answers
    BY <1>3, <2>1
  <2>2. CASE answers[b] # <<>> /\ answers' = [answers EXCEPT ![b] = Tail(@)]
    <3>1. CASE c = b
      <4>1. answers'[b] = Tail(answers[b])
        BY <1>0, <2>2 DEF BrowsersOK
      <4> QED BY <1>4, <2>2, <3>1, <4>1
    <3>2. CASE c # b
      <4>1. answers'[c] = answers[c]
        BY <1>0, <2>2, <3>2 DEF BrowsersOK
      <4> QED BY <1>3, <4>1
    <3> QED BY <3>1, <3>2
  <2> QED BY <1>1, <2>1, <2>2
<1>6. Right(Here)'
  BY <1>1 DEF DashboardInv, Right, Here, Agrees, Busy
<1> QED BY <1>5, <1>6 DEF DashboardInv

\* A socket drops, or the server ends and starts again.
LEMMA ClosesRight ==
  ASSUME DashboardAssumption, DashboardInv, TypeOK', Restart \/ \E b \in Browsers : Drop(b)
  PROVE  DashboardInv'
<1>0. TypeOK /\ BrowsersOK
  BY TypeParts DEF DashboardInv
<1>1. CASE Restart
  <2>1. tasks' = {} /\ agents' = Free
    BY <1>1 DEF Restart
  <2>2. Right(Here)'
    BY <2>1 DEF Right, Here, Agrees, Free, Busy
  <2>3. ASSUME NEW b \in Browsers PROVE (BrowserInv(b) /\ FirstInv(b))'
    <3>1. sock'[b] = "closed" /\ wire'[b] = <<>> /\ Len(<<>>) = 0
      BY <1>1 DEF Restart, Closes
    <3> QED BY <3>1 DEF BrowserInv, FirstInv
  <2> QED BY <2>2, <2>3 DEF DashboardInv
<1>2. ASSUME NEW b \in Browsers, Drop(b) PROVE DashboardInv'
  <2>1. /\ UNCHANGED <<tasks, agents, lastSent, returned, disc, blank, view, crossed>>
        /\ Closes({b})
    BY <1>2 DEF Drop, board
  <2>2. Right(Here)'
    BY <2>1 DEF DashboardInv, Right, Here, Agrees, Busy
  <2>3. ASSUME NEW c \in Browsers PROVE (BrowserInv(c) /\ FirstInv(c))'
    <3>1. CASE c = b
      <4>1. sock'[b] = "closed" /\ wire'[b] = <<>> /\ Len(<<>>) = 0
        BY <2>1 DEF Closes
      <4> QED BY <3>1, <4>1 DEF BrowserInv, FirstInv
    <3>2. CASE c # b
      <4>1. sock'[c] = sock[c] /\ wire'[c] = wire[c] /\ answers'[c] = answers[c]
        BY <2>1, <3>2 DEF Closes
      <4>2. \A u \in View : Right(u) => Right(u)'
        BY <2>1 DEF Right, Agrees, Busy
      <4> QED BY <2>1, <4>1, <4>2, OthersRight
    <3> QED BY <3>1, <3>2
  <2> QED BY <2>2, <2>3 DEF DashboardInv
<1> QED BY <1>1, <1>2

\* Every browser with an open socket comes to show the server's discussion, tasks and busy
\* agents, whatever it shows now, as long as it does not show an answer that had been
\* overtaken (aio_ws, broadcast, periodic, api_state, index.html).
THEOREM DashboardInvariant == Spec => []DashboardInv
<1>1. ASSUME Init PROVE DashboardInv
  <2>1. TypeOK
    BY <1>1, TypeStart, DashboardAssumption
  <2>2. Right(Here)
    BY <1>1 DEF Init, Right, Here, Agrees, Free, Busy
  <2>3. \A b \in Browsers : BrowserInv(b) /\ FirstInv(b)
    <3>1. Len(<<>>) = 0
      OBVIOUS
    <3> QED BY <1>1, <3>1 DEF Init, BrowserInv, FirstInv
  <2> QED BY <2>1, <2>2, <2>3 DEF DashboardInv
<1>2. ASSUME DashboardInv, [Next]_vars PROVE DashboardInv'
  <2>0. TypeOK /\ TypeOK' /\ DashboardAssumption
    BY <1>2, TypeStep, DashboardAssumption DEF DashboardInv
  <2>1. CASE UNCHANGED vars
    <3>1. /\ UNCHANGED <<tasks, agents, lastSent, returned, disc, blank>>
          /\ UNCHANGED <<sock, wire, view, answers, crossed>>
      BY <2>1 DEF vars, board, browser
    <3>2. \A u \in View : Right(u) => Right(u)'
      BY <3>1 DEF Right, Agrees, Busy
    <3>3. \A b \in Browsers : (BrowserInv(b) /\ FirstInv(b))'
      BY <1>2, <3>1, <3>2, OthersRight
    <3>4. Right(Here)'
      BY <1>2, <3>1 DEF DashboardInv, Right, Here, Agrees, Busy
    <3> QED BY <2>0, <3>3, <3>4 DEF DashboardInv
  <2>2. CASE \E e \in {Blank, OldEntries + left.entries} : Push(e)
    BY <1>2, <2>0, <2>2, EntryNumbers, PushRight
  <2>3. CASE FilesMove \/ EventRecorded
    BY <1>2, <2>0, <2>3, TellsRight
  <2>4. CASE Periodic
    BY <1>2, <2>0, <2>4, PeriodicRight
  <2>5. CASE \E t \in Tasks : Adopt(t) \/ Export(t)
    BY <1>2, <2>0, <2>5, AdoptRight, ExportRight
  <2>6. CASE Restart \/ \E b \in Browsers : Drop(b)
    BY <1>2, <2>0, <2>6, ClosesRight
  <2>7. ASSUME NEW b \in Browsers,
               Connect(b) \/ ApiState(b) \/ Deliver(b) \/ AnswerShown(b) \/ FetchFails(b)
        PROVE  DashboardInv'
    BY <1>2, <2>0, <2>7, ConnectRight, ApiStateRight, DeliverRight, AnswerRight, FetchFailsRight
  <2> QED BY <1>2, <2>1, <2>2, <2>3, <2>4, <2>5, <2>6, <2>7 DEF Next
<1> QED BY <1>1, <1>2, PTL DEF Spec

(***************************************************************************)
(* What periodic tells also a browser that an answer out of turn put back. *)
(***************************************************************************)

\* Right, of the tasks and the agents alone.
BoardRight(u) == tasks = lastSent /\ ~returned => Agrees(u, tasks)

\* Whatever is shown, w is delivered to its end.
Reaches(w) == \A k \in 0 .. Len(w) : \A v \in View : \E u \in View : Ends(w, k, v, u)

BoardComes(b) == \E u \in View : Ends(wire[b], 0, view[b], u) /\ BoardRight(u)

BoardInv(b) == Reaches(wire[b]) /\ (sock[b] = "open" /\ ~stale[b] => BoardComes(b))

BoardsInv == DashboardInv /\ \A b \in Browsers : BoardInv(b)

\* Nothing, one message more, and one message less can be delivered to the end.
LEMMA ReachesNow == Reaches(<<>>)
<1>1. <<>> \in Seq(Message) /\ Len(<<>>) = 0
  OBVIOUS
<1>2. \A v \in View : Ends(<<>>, 0, v, v)
  BY <1>1, EndsNow
<1>3. \A k \in 0 .. Len(<<>>) : k = 0
  BY <1>1
<1> QED BY <1>2, <1>3 DEF Reaches

LEMMA ReachesSent ==
  ASSUME DashboardAssumption, NEW w \in Seq(Message), NEW m \in Message, Reaches(w)
  PROVE  Reaches(Append(w, m))
<1>1. /\ Len(w) \in Nat /\ Len(Append(w, m)) = Len(w) + 1 /\ Append(w, m) \in Seq(Message)
  BY AppendPlaces, SeqPlaces
<1>2. ASSUME NEW k \in 0 .. Len(Append(w, m)), NEW v \in View
      PROVE  \E u \in View : Ends(Append(w, m), k, v, u)
  <2>1. CASE k = Len(w) + 1
    BY <1>1, <2>1, EndsNow
  <2>2. CASE k # Len(w) + 1
    <3>1. k \in 0 .. Len(w)
      BY <1>1, <2>2
    <3>2. PICK u \in View : Ends(w, k, v, u)
      BY <3>1 DEF Reaches
    <3>3. Ends(Append(w, m), k, v, Shown(u, m))
      BY <3>1, <3>2, EndsSent
    <3>4. Shown(u, m) \in View
      BY ShownType
    <3> QED BY <3>3, <3>4
  <2> QED BY <2>1, <2>2
<1> QED BY <1>2 DEF Reaches

LEMMA ReachesDelivered ==
  ASSUME NEW w \in Seq(Message), w # <<>>, Reaches(w)
  PROVE  Reaches(Tail(w))
<1>1. Len(w) \in Nat \ {0} /\ Len(Tail(w)) = Len(w) - 1
  BY TailPlaces
<1>2. ASSUME NEW k \in 0 .. Len(Tail(w)), NEW v \in View
      PROVE  \E u \in View : Ends(Tail(w), k, v, u)
  <2>1. k + 1 \in 0 .. Len(w) /\ k + 1 # 0 /\ (k + 1) - 1 = k
    BY <1>1
  <2>2. PICK u \in View : Ends(w, k + 1, v, u)
    BY <2>1 DEF Reaches
  <2>3. Ends(Tail(w), (k + 1) - 1, v, u)
    BY <2>1, <2>2, EndsDelivered
  <2> QED BY <2>1, <2>3
<1> QED BY <1>2 DEF Reaches

\* A browser that is in step is so also of the tasks.
LEMMA InStep ==
  ASSUME DashboardInv, NEW b \in Browsers, sock[b] = "open", ~crossed[b]
  PROVE  BoardComes(b)
<1>1. PICK u \in View : Ends(wire[b], 0, view[b], u) /\ Right(u)
  BY DEF DashboardInv, BrowserInv, ComesRight
<1> QED BY <1>1 DEF BoardComes, BoardRight, Right

\* ScanRight, of the tasks and the agents.
LEMMA ScanBoard ==
  ASSUME UNCHANGED lastSent, returned' = Undone,
         NEW ts, ts = tasks', NEW u \in View, BoardRight(u)
  PROVE  BoardRight(u)' /\ BoardRight([u EXCEPT !.tasks = ts])'
<1> DEFINE v == [u EXCEPT !.tasks = ts]
<1>0. v.tasks = ts /\ v.agents = u.agents
  BY DEF View
<1> HIDE DEF v
<1>1. ASSUME tasks' = lastSent', ~returned' PROVE Agrees(u, ts) /\ Agrees(v, ts)
  <2>1. tasks = lastSent /\ ~returned /\ ts = tasks
    BY <1>1 DEF Undone
  <2>2. Agrees(u, ts)
    BY <2>1 DEF BoardRight
  <2> QED BY <1>0, <2>2 DEF Agrees
<1>2. BoardRight(u)' /\ BoardRight(v)'
  BY <1>1 DEF BoardRight
<1> QED BY <1>2 DEF v

\* A browser that has no part in a step.
LEMMA BoardKept ==
  ASSUME NEW c \in Browsers, BoardInv(c),
         sock'[c] = sock[c], wire'[c] = wire[c], view'[c] = view[c], stale'[c] = stale[c],
         \A u \in View : BoardRight(u) => BoardRight(u)'
  PROVE  BoardInv(c)'
<1>1. Reaches(wire'[c])
  BY DEF BoardInv
<1>2. ASSUME sock[c] = "open", ~stale[c] PROVE BoardComes(c)'
  <2>1. PICK u \in View : Ends(wire[c], 0, view[c], u) /\ BoardRight(u)
    BY <1>2 DEF BoardInv, BoardComes
  <2>2. Ends(wire'[c], 0, view'[c], u) /\ BoardRight(u)'
    BY <2>1
  <2> QED BY <2>2 DEF BoardComes
<1> QED BY <1>1, <1>2 DEF BoardInv, Reaches

\* One message is sent to every open socket (broadcast).
LEMMA BoardSent ==
  ASSUME DashboardAssumption, TypeOK, UNCHANGED <<sock, view, stale>>,
         NEW m \in Message, Broadcast(<<m>>),
         \A u \in View : BoardRight(u) => BoardRight(Shown(u, m))',
         NEW b \in Browsers, BoardInv(b)
  PROVE  BoardInv(b)'
<1>0. /\ BrowsersOK /\ CountsOK(b) /\ wire[b] \in Seq(Message) /\ <<m>> \in Seq(Message)
      /\ sock[b] \in {"open", "closed"} /\ Len(wire[b]) \in Nat
  BY TypeParts, BrowserTypes
<1>1. CASE sock[b] = "open"
  <2>1. wire'[b] = Append(wire[b], m)
    BY <1>0, <1>1, BroadcastType, TwoSent
  <2>2. Reaches(wire'[b])
    BY <1>0, <2>1, ReachesSent DEF BoardInv
  <2>3. ASSUME ~stale[b] PROVE BoardComes(b)'
    <3>1. PICK u \in View : Ends(wire[b], 0, view[b], u) /\ BoardRight(u)
      BY <1>1, <2>3 DEF BoardInv, BoardComes
    <3>2. 0 \in 0 .. Len(wire[b])
      BY <1>0
    <3>3. Ends(Append(wire[b], m), 0, view[b], Shown(u, m))
      BY <1>0, <3>1, <3>2, EndsSent
    <3>4. Shown(u, m) \in View /\ BoardRight(Shown(u, m))'
      BY <3>1, ShownType
    <3>5. \E x \in View : Ends(wire'[b], 0, view'[b], x) /\ BoardRight(x)'
      BY <2>1, <3>3, <3>4
    <3> QED BY <3>5 DEF BoardComes
  <2> QED BY <2>2, <2>3 DEF BoardInv, Reaches
<1>2. CASE sock[b] = "closed"
  <2>1. wire'[b] = wire[b] /\ sock'[b] # "open"
    BY <1>0, <1>2, BroadcastType
  <2> QED BY <2>1 DEF BoardInv, Reaches
<1> QED BY <1>0, <1>1, <1>2

\* An iteration of periodic: whoever is sent the tasks and the agents comes to show them,
\* whatever it shows before.
LEMMA BoardPeriodic ==
  ASSUME DashboardAssumption, BoardsInv, TypeOK', Periodic, NEW b \in Browsers
  PROVE  BoardInv(b)'
<1>0. PICK ts, ag : ts = tasks' /\ ag = agents'
  OBVIOUS
<1>1. /\ TypeOK /\ BrowsersOK /\ CountsOK(b) /\ wire[b] \in Seq(Message) /\ view[b] \in View
      /\ sock[b] \in {"open", "closed"} /\ Len(wire[b]) \in Nat /\ BoardInv(b)
  BY TypeParts, BrowserTypes DEF BoardsInv, DashboardInv
<1>2. /\ UNCHANGED <<sock, view>> /\ UpdateAgents
      /\ \/ /\ Broadcast(<<TasksMsg(ts), AgentsMsg(ag)>>) /\ lastSent' = tasks'
            /\ stale' = [c \in Browsers |-> stale[c] /\ c \notin Open]
         \/ returned' = Undone /\ UNCHANGED <<wire, lastSent, stale>>
  BY <1>0 DEF Periodic
<1>3. CASE returned' = Undone /\ UNCHANGED <<wire, lastSent, stale>>
  <2>1. \A u \in View : BoardRight(u) => BoardRight(u)'
    BY <1>0, <1>3, ScanBoard
  <2> QED BY <1>1, <1>2, <1>3, <2>1, BoardKept
<1>4. CASE /\ Broadcast(<<TasksMsg(ts), AgentsMsg(ag)>>) /\ lastSent' = tasks'
           /\ stale' = [c \in Browsers |-> stale[c] /\ c \notin Open]
  <2>1. ts \in SUBSET Rows /\ ag \in States
    BY <1>0 DEF TypeOK
  <2> DEFINE m == TasksMsg(ts)
             n == AgentsMsg(ag)
  <2>2. m \in Message /\ n \in Message /\ <<m, n>> \in Seq(Message)
    BY <2>1, MessageTypes DEF TasksMsg, AgentsMsg
  <2>3. \A a \in Agents : (ag[a] = "working") = Busy(ts, a)
    BY <1>0, <1>1, <1>2, AgentsAgree DEF Busy
  <2>4. ASSUME NEW u \in View PROVE BoardRight(Shown(Shown(u, m), n))'
    <3> DEFINE v == Shown(u, m)
               x == Shown(v, n)
    <3>0. v = [u EXCEPT !.tasks = ts]
      BY ShownAs
    <3>1. v \in View
      BY <2>1, <3>0 DEF View
    <3>2. x = [v EXCEPT !.agents = ag]
      BY <3>1, ShownAs
    <3>3. x.tasks = ts /\ x.agents = ag
      BY <3>0, <3>1, <3>2 DEF View
    <3> HIDE DEF v, x
    <3>4. BoardRight(x)'
      BY <1>0, <2>3, <3>3 DEF BoardRight, Agrees
    <3> QED BY <3>4 DEF v, x
  <2>5. Broadcast(<<m, n>>)
    BY <1>4
  <2> HIDE DEF m, n
  <2>6. CASE sock[b] = "open"
    <3>1. wire'[b] = Append(Append(wire[b], m), n)
      <4>1. wire'[b] = wire[b] \o <<m, n>>
        BY <1>1, <2>2, <2>5, <2>6, BroadcastType
      <4>2. \A w \in Seq(Message), x, y \in Message : w \o <<x, y>> = Append(Append(w, x), y)
        BY TwoSent
      <4> QED BY <1>1, <2>2, <4>1, <4>2
    <3>2. Append(wire[b], m) \in Seq(Message) /\ Reaches(Append(wire[b], m))
      BY <1>1, <2>2, AppendPlaces, SeqPlaces, ReachesSent DEF BoardInv
    <3>3. Reaches(wire'[b])
      BY <2>2, <3>1, <3>2, ReachesSent
    <3>4. 0 \in 0 .. Len(wire[b]) /\ 0 \in 0 .. Len(Append(wire[b], m))
      BY <1>1, <2>2, AppendPlaces
    <3>5. PICK u \in View : Ends(wire[b], 0, view[b], u)
      BY <1>1, <3>4 DEF BoardInv, Reaches
    <3>6. Ends(Append(wire[b], m), 0, view[b], Shown(u, m))
      BY <1>1, <2>2, <3>4, <3>5, EndsSent
    <3>7. Ends(wire'[b], 0, view[b], Shown(Shown(u, m), n))
      BY <2>2, <3>1, <3>2, <3>4, <3>6, EndsSent
    <3>8. Shown(Shown(u, m), n) \in View /\ BoardRight(Shown(Shown(u, m), n))'
      BY <2>2, <2>4, ShownType
    <3>9. \E x \in View : Ends(wire'[b], 0, view'[b], x) /\ BoardRight(x)'
      BY <1>2, <3>7, <3>8
    <3>10. BoardComes(b)'
      BY <3>9 DEF BoardComes
    <3> QED BY <3>3, <3>10 DEF BoardInv, Reaches
  <2>7. CASE sock[b] = "closed"
    <3>1. wire'[b] = wire[b] /\ sock'[b] # "open"
      BY <1>1, <1>2, <2>2, <2>5, <2>7, BroadcastType
    <3> QED BY <1>1, <3>1 DEF BoardInv, Reaches
  <2> QED BY <1>1, <2>6, <2>7
<1> QED BY <1>2, <1>3, <1>4

\* The other steps of the server.
LEMMA BoardServer ==
  ASSUME DashboardAssumption, BoardsInv, TypeOK', NEW b \in Browsers,
         \/ FilesMove \/ EventRecorded
         \/ \E t \in Tasks : Adopt(t) \/ Export(t)
         \/ \E e \in Nat : Push(e)
  PROVE  BoardInv(b)'
<1>0. TypeOK /\ BoardInv(b)
  BY DEF BoardsInv, DashboardInv
<1>1. EventMsg \in Message /\ \A u \in View : Shown(u, EventMsg) = u
  BY MessageTypes, ShownAs
<1>2. CASE FilesMove \/ EventRecorded
  <2>1. UNCHANGED <<tasks, lastSent, returned, sock, view, stale>>
    BY <1>2 DEF FilesMove, EventRecorded, Tells, board, browser
  <2>2. UNCHANGED wire \/ Broadcast(<<EventMsg>>)
    BY <1>2 DEF FilesMove, EventRecorded, browser
  <2>3. \A u \in View : BoardRight(u) => BoardRight(u)'
    BY <2>1 DEF BoardRight, Agrees, Busy
  <2>4. CASE UNCHANGED wire
    BY <1>0, <2>1, <2>3, <2>4, BoardKept
  <2>5. CASE Broadcast(<<EventMsg>>)
    <3>1. \A u \in View : BoardRight(u) => BoardRight(Shown(u, EventMsg))'
      BY <1>1, <2>3
    <3> QED BY <1>0, <1>1, <2>1, <2>5, <3>1, BoardSent
  <2> QED BY <2>2, <2>4, <2>5
<1>3. ASSUME NEW t \in Tasks, Adopt(t) PROVE BoardInv(b)'
  <2>0. PICK ts : ts = tasks'
    OBVIOUS
  <2>1. /\ UNCHANGED <<lastSent, sock, view, stale>>
        /\ returned' = Undone /\ Broadcast(<<TasksMsg(ts)>>)
    BY <1>3, <2>0 DEF Adopt
  <2>2. TasksMsg(ts) \in Message
    <3>1. ts \in SUBSET Rows
      BY <2>0 DEF TypeOK
    <3> QED BY <3>1, MessageTypes DEF TasksMsg
  <2>3. \A u \in View : BoardRight(u) => BoardRight(Shown(u, TasksMsg(ts)))'
    <3> SUFFICES ASSUME NEW u \in View, BoardRight(u) PROVE BoardRight(Shown(u, TasksMsg(ts)))'
      OBVIOUS
    <3>1. Shown(u, TasksMsg(ts)) = [u EXCEPT !.tasks = ts]
      BY ShownAs
    <3>2. BoardRight([u EXCEPT !.tasks = ts])'
      BY <2>0, <2>1, ScanBoard
    <3> QED BY <3>1, <3>2
  <2> QED BY <1>0, <2>1, <2>2, <2>3, BoardSent
<1>4. ASSUME NEW t \in Tasks, Export(t) PROVE BoardInv(b)'
  <2>1. UNCHANGED <<lastSent, sock, view, stale>> /\ returned' = Undone
    BY <1>4 DEF Export
  <2>2. UNCHANGED wire \/ Broadcast(<<EventMsg>>)
    BY <1>4 DEF Export
  <2>3. \A u \in View : BoardRight(u) => BoardRight(u)'
    BY <2>1, ScanBoard
  <2>4. CASE UNCHANGED wire
    BY <1>0, <2>1, <2>3, <2>4, BoardKept
  <2>5. CASE Broadcast(<<EventMsg>>)
    <3>1. \A u \in View : BoardRight(u) => BoardRight(Shown(u, EventMsg))'
      BY <1>1, <2>3
    <3> QED BY <1>0, <1>1, <2>1, <2>5, <3>1, BoardSent
  <2> QED BY <2>2, <2>4, <2>5
<1>5. ASSUME NEW e \in Nat, Push(e) PROVE BoardInv(b)'
  <2>1. /\ UNCHANGED <<tasks, lastSent, returned, sock, view, stale>>
        /\ Broadcast(<<EntryMsg(e)>>)
    BY <1>5 DEF Push, board
  <2>2. EntryMsg(e) \in Message
    BY MessageTypes
  <2>3. \A u \in View : BoardRight(u) => BoardRight(Shown(u, EntryMsg(e)))'
    <3> SUFFICES ASSUME NEW u \in View, BoardRight(u) PROVE BoardRight(Shown(u, EntryMsg(e)))'
      OBVIOUS
    <3> DEFINE v == Shown(u, EntryMsg(e))
    <3>1. v = u \/ v = [u EXCEPT !.disc = Trim(Append(u.disc, e))]
      BY ShownAs
    <3>2. v.tasks = u.tasks /\ v.agents = u.agents
      BY <3>1 DEF View
    <3> HIDE DEF v
    <3>3. BoardRight(v)'
      BY <2>1, <3>2 DEF BoardRight, Agrees, Busy
    <3> QED BY <3>3 DEF v
  <2> QED BY <1>0, <2>1, <2>2, <2>3, BoardSent
<1> QED BY <1>2, <1>3, <1>4, <1>5

\* The steps of the browsers, dropped sockets and restarts.
LEMMA BoardBrowsers ==
  ASSUME DashboardAssumption, BoardsInv, DashboardInv', NEW b \in Browsers,
         \/ \E c \in Browsers : \/ Connect(c) \/ ApiState(c) \/ Deliver(c) \/ AnswerShown(c)
                                \/ FetchFails(c) \/ Drop(c)
         \/ Restart
  PROVE  BoardInv(b)'
<1>0. /\ TypeOK /\ TypeOK' /\ BrowsersOK /\ HistoryOK /\ BoardInv(b) /\ FirstInv(b)
      /\ wire[b] \in Seq(Message) /\ Len(wire[b]) \in Nat
  BY TypeParts, BrowserTypes DEF BoardsInv, DashboardInv
<1>1. CASE Restart
  <2>1. sock'[b] = "closed" /\ wire'[b] = <<>>
    BY <1>1 DEF Restart, Closes
  <2> QED BY <2>1, ReachesNow DEF BoardInv, Reaches
<1>2. ASSUME NEW c \in Browsers, Connect(c) PROVE BoardInv(b)'
  <2>1. UNCHANGED <<tasks, lastSent, returned, view, stale>>
    BY <1>2 DEF Connect, board
  <2>2. CASE b = c
    <3>1. PICK m : m = [t |-> "init", tasks |-> tasks, agents |-> agents, disc |-> disc]
      OBVIOUS
    <3>2. m \in Message /\ m.t = "init"
      BY <1>0, <3>1, MessageTypes, TypeParts DEF ServerOK
    <3>3. wire'[b] = <<m>> /\ wire'[b] = Append(<<>>, m) /\ <<>> \in Seq(Message)
      BY <1>0, <1>2, <2>2, <3>1 DEF Connect, BrowsersOK
    <3>4. Reaches(wire'[b])
      BY <3>2, <3>3, ReachesNow, ReachesSent
    <3>5. 1 \in 1 .. Len(wire'[b]) /\ wire'[b][1].t = "init"
      BY <3>2, <3>3
    <3>6. view'[b] \in View
      BY <1>0, <2>1, BrowserTypes
    <3>7. \E u \in View : Ends(wire'[b], 0, view'[b], u) /\ Right(u)'
      BY <3>5, <3>6 DEF DashboardInv, FirstInv, ComesRight
    <3>8. BoardComes(b)'
      BY <3>7 DEF BoardComes, BoardRight, Right
    <3> QED BY <3>4, <3>8 DEF BoardInv, Reaches
  <2>3. CASE b # c
    <3>1. sock'[b] = sock[b] /\ wire'[b] = wire[b]
      BY <1>0, <1>2, <2>3 DEF Connect, BrowsersOK
    <3>2. \A u \in View : BoardRight(u) => BoardRight(u)'
      BY <2>1 DEF BoardRight, Agrees, Busy
    <3> QED BY <1>0, <2>1, <3>1, <3>2, BoardKept
  <2> QED BY <2>2, <2>3
<1>3. ASSUME NEW c \in Browsers, ApiState(c) PROVE BoardInv(b)'
  <2>1. UNCHANGED <<lastSent, sock, wire, view, stale>> /\ returned' = Undone
    BY <1>3 DEF ApiState
  <2>2. \A u \in View : BoardRight(u) => BoardRight(u)'
    BY <2>1, ScanBoard
  <2> QED BY <1>0, <2>1, <2>2, BoardKept
<1>4. ASSUME NEW c \in Browsers, Deliver(c) PROVE BoardInv(b)'
  <2>1. UNCHANGED <<tasks, lastSent, returned, sock>>
    BY <1>4 DEF Deliver, board
  <2>2. \A u \in View : BoardRight(u) => BoardRight(u)'
    BY <2>1 DEF BoardRight, Agrees, Busy
  <2>3. CASE b = c
    <3>1. PICK m : m = Head(wire[b])
      OBVIOUS
    <3>2. /\ view'[b] = Shown(view[b], m) /\ wire'[b] = Tail(wire[b]) /\ wire[b] # <<>>
          /\ stale'[b] = (stale[b] /\ m.t # "init")
          /\ crossed'[b] = (crossed[b] /\ m.t # "init")
      BY <1>0, <1>4, <2>3, <3>1 DEF Deliver, BrowsersOK, HistoryOK
    <3>3. Reaches(wire'[b])
      BY <1>0, <3>2, ReachesDelivered DEF BoardInv
    <3>4. ASSUME sock[b] = "open", ~stale'[b] PROVE BoardComes(b)'
      <4>1. CASE m.t = "init"
        <5>1. ~crossed'[b] /\ sock'[b] = "open"
          BY <2>1, <3>2, <3>4, <4>1
        <5>2. \E u \in View : Ends(wire'[b], 0, view'[b], u) /\ Right(u)'
          BY <5>1 DEF DashboardInv, BrowserInv, ComesRight
        <5> QED BY <5>2 DEF BoardComes, BoardRight, Right
      <4>2. CASE m.t # "init"
        <5>1. PICK u \in View : Ends(wire[b], 0, view[b], u) /\ BoardRight(u)
          BY <1>0, <3>2, <3>4, <4>2 DEF BoardInv, BoardComes
        <5>2. 0 \in 0 .. Len(wire[b])
          BY <1>0
        <5>3. Ends(Tail(wire[b]), 0, Shown(view[b], m), u)
          BY <1>0, <3>1, <3>2, <5>1, <5>2, EndsDelivered
        <5>4. Ends(wire'[b], 0, view'[b], u) /\ BoardRight(u)'
          BY <2>2, <3>2, <5>1, <5>3
        <5> QED BY <5>4 DEF BoardComes
      <4> QED BY <4>1, <4>2
    <3> QED BY <2>1, <3>3, <3>4 DEF BoardInv, Reaches
  <2>4. CASE b # c
    <3>1. wire'[b] = wire[b] /\ view'[b] = view[b] /\ stale'[b] = stale[b]
      BY <1>0, <1>4, <2>4 DEF Deliver, BrowsersOK, HistoryOK
    <3> QED BY <1>0, <2>1, <2>2, <3>1, BoardKept
  <2> QED BY <2>3, <2>4
<1>5. ASSUME NEW c \in Browsers, AnswerShown(c) PROVE BoardInv(b)'
  <2>1. UNCHANGED <<tasks, lastSent, returned, sock, wire>>
    BY <1>5 DEF AnswerShown, board
  <2>2. \A u \in View : BoardRight(u) => BoardRight(u)'
    BY <2>1 DEF BoardRight, Agrees, Busy
  <2>3. CASE b = c
    <3>1. stale'[b] = crossed'[b]
      <4>1. PICK out : /\ crossed' = [crossed EXCEPT ![c] = out]
                       /\ stale' = [stale EXCEPT ![c] = out]
        BY <1>5 DEF AnswerShown
      <4> QED BY <1>0, <2>3, <4>1 DEF HistoryOK
    <3>2. ASSUME sock'[b] = "open", ~stale'[b] PROVE BoardComes(b)'
      <4>1. \E u \in View : Ends(wire'[b], 0, view'[b], u) /\ Right(u)'
        BY <3>1, <3>2 DEF DashboardInv, BrowserInv, ComesRight
      <4> QED BY <4>1 DEF BoardComes, BoardRight, Right
    <3> QED BY <1>0, <2>1, <3>2 DEF BoardInv, Reaches
  <2>4. CASE b # c
    <3>1. view'[b] = view[b] /\ stale'[b] = stale[b]
      BY <1>0, <1>5, <2>4 DEF AnswerShown, BrowsersOK, HistoryOK
    <3> QED BY <1>0, <2>1, <2>2, <3>1, BoardKept
  <2> QED BY <2>3, <2>4
<1>6. ASSUME NEW c \in Browsers, FetchFails(c) PROVE BoardInv(b)'
  <2>1. UNCHANGED <<tasks, lastSent, returned, sock, wire, view, stale>>
    BY <1>6 DEF FetchFails, board
  <2>2. \A u \in View : BoardRight(u) => BoardRight(u)'
    BY <2>1 DEF BoardRight, Agrees, Busy
  <2> QED BY <1>0, <2>1, <2>2, BoardKept
<1>7. ASSUME NEW c \in Browsers, Drop(c) PROVE BoardInv(b)'
  <2>1. UNCHANGED <<tasks, lastSent, returned, view, stale>> /\ Closes({c})
    BY <1>7 DEF Drop, board
  <2>2. \A u \in View : BoardRight(u) => BoardRight(u)'
    BY <2>1 DEF BoardRight, Agrees, Busy
  <2>3. CASE b = c
    <3>1. sock'[b] = "closed" /\ wire'[b] = <<>>
      BY <2>1, <2>3 DEF Closes
    <3> QED BY <3>1, ReachesNow DEF BoardInv, Reaches
  <2>4. CASE b # c
    <3>1. sock'[b] = sock[b] /\ wire'[b] = wire[b]
      BY <2>1, <2>4 DEF Closes
    <3> QED BY <1>0, <2>1, <2>2, <3>1, BoardKept
  <2> QED BY <2>3, <2>4
<1> QED BY <1>1, <1>2, <1>3, <1>4, <1>5, <1>6, <1>7

\* Also a browser that showed an answer out of turn comes to show the server's tasks and
\* busy agents, once periodic has sent it a change (periodic, broadcast).
THEOREM BoardsInvariant == Spec => []BoardsInv
<1>1. Init => \A b \in Browsers : BoardInv(b)
  BY ReachesNow DEF Init, BoardInv
<1>2. ASSUME BoardsInv, DashboardInv', [Next]_vars PROVE BoardsInv'
  <2>0. DashboardInv /\ TypeOK' /\ DashboardAssumption
    BY <1>2, DashboardAssumption DEF BoardsInv, DashboardInv
  <2>1. CASE UNCHANGED vars
    <3>1. UNCHANGED <<tasks, lastSent, returned, sock, wire, view, stale>>
      BY <2>1 DEF vars, board, browser
    <3>2. \A u \in View : BoardRight(u) => BoardRight(u)'
      BY <3>1 DEF BoardRight, Agrees, Busy
    <3>3. \A b \in Browsers : BoardInv(b)'
      BY <1>2, <3>1, <3>2, BoardKept DEF BoardsInv
    <3> QED BY <1>2, <3>3 DEF BoardsInv
  <2>2. CASE \/ FilesMove \/ EventRecorded
             \/ \E t \in Tasks : Adopt(t) \/ Export(t)
             \/ \E e \in {Blank, OldEntries + left.entries} : Push(e)
    <3> QED BY <1>2, <2>0, <2>2, EntryNumbers, BoardServer DEF BoardsInv, DashboardInv
  <2>3. CASE Periodic
    BY <1>2, <2>0, <2>3, BoardPeriodic DEF BoardsInv
  <2>4. CASE \/ \E c \in Browsers : \/ Connect(c) \/ ApiState(c) \/ Deliver(c)
                                    \/ AnswerShown(c) \/ FetchFails(c) \/ Drop(c)
             \/ Restart
    BY <1>2, <2>0, <2>4, BoardBrowsers DEF BoardsInv
  <2> QED BY <1>2, <2>1, <2>2, <2>3, <2>4 DEF Next
<1>3. Spec => []DashboardInv
  BY DashboardInvariant
<1>4. Init /\ DashboardInv => BoardsInv
  BY <1>1 DEF BoardsInv
<1>5. BoardsInv /\ DashboardInv' /\ [Next]_vars => BoardsInv'
  BY <1>2
<1> QED BY <1>3, <1>4, <1>5, PTL DEF Spec

\* A browser to which nothing more is on its way shows what is right.
LEMMA SettledRight ==
  ASSUME DashboardInv, NEW b \in Browsers, Settled(b), ~crossed[b]
  PROVE  Right(view[b])
<1>1. ComesRight(wire[b], 0, view[b]) /\ wire[b] = <<>> /\ Len(<<>>) = 0
  BY DEF DashboardInv, BrowserInv, Settled
<1>2. PICK u \in View : Ends(<<>>, 0, view[b], u) /\ Right(u)
  BY <1>1 DEF ComesRight
<1>3. u = view[b]
  BY <1>1, <1>2 DEF Ends
<1> QED BY <1>2, <1>3

\* Browsers show the discussion the server has, entry for entry, through cuts at the same
\* length, restarts and reconnections (append_discussion, updateUI), unless an entry
\* without a text was pushed or the last answer was shown out of turn (index.html:356).
THEOREM DiscussionTheorem == Spec => []DiscussionInStep
<1>1. DashboardInv => DiscussionInStep
  BY SettledRight DEF DiscussionInStep, Right
<1> QED BY <1>1, DashboardInvariant, PTL

\* A browser that shows other tasks or busy agents than the server has, with nothing on its
\* way to it, is one that periodic has still to tell (last_hash), or a change was undone
\* before it was sent, or an answer was shown out of turn after the last change sent.
THEOREM NoChangeUntoldTheorem == Spec => []NoChangeUntold
<1>1. BoardsInv => NoChangeUntold
  <2> SUFFICES ASSUME BoardsInv, tasks = lastSent, ~returned,
                      NEW b \in Browsers, Settled(b), ~stale[b]
               PROVE  Agrees(view[b], tasks)
    BY DEF NoChangeUntold
  <2>1. BoardComes(b) /\ wire[b] = <<>> /\ Len(<<>>) = 0
    BY DEF BoardsInv, BoardInv, Settled
  <2>2. PICK u \in View : Ends(<<>>, 0, view[b], u) /\ BoardRight(u)
    BY <2>1 DEF BoardComes
  <2>3. u = view[b]
    BY <2>1, <2>2 DEF Ends
  <2> QED BY <2>2, <2>3 DEF BoardRight
<1> QED BY <1>1, BoardsInvariant, PTL

(***************************************************************************)
(* Events.                                                                 *)
(***************************************************************************)

\* A browser that was told of every event shows them all, or a request, an answer that
\* has them all, or a message that makes it ask is on the way.
HasAll(b) ==
  \/ view[b].events = recorded
  \/ asked[b] > 0
  \/ \E j \in 1 .. Len(answers[b]) : answers[b][j].events = recorded
  \/ \E i \in 1 .. Len(wire[b]) : wire[b][i] = EventMsg

EventsComing == \A b \in Browsers : ~missed[b] => HasAll(b)

\* What was on a socket is where it was after a broadcast.
LEMMA BroadcastPlaces ==
  ASSUME BrowsersOK, NEW msgs \in Seq(Message), Broadcast(msgs), NEW b \in Browsers,
         NEW i \in 1 .. Len(wire[b])
  PROVE  i \in 1 .. Len(wire'[b]) /\ wire'[b][i] = wire[b][i]
<1>1. wire[b] \in Seq(Message) /\ sock[b] \in {"open", "closed"}
  BY BrowserTypes
<1>2. wire'[b] = wire[b] \/ wire'[b] = wire[b] \o msgs
  BY <1>1, BroadcastType
<1>3. i \in 1 .. Len(wire[b] \o msgs) /\ (wire[b] \o msgs)[i] = wire[b][i]
  BY <1>1
<1> QED BY <1>2, <1>3

\* No event was recorded, and a browser has what it had.
LEMMA HasAllKept ==
  ASSUME TypeOK, NEW b \in Browsers, recorded' = recorded, HasAll(b),
         view'[b] = view[b], asked'[b] = asked[b], answers'[b] = answers[b],
         wire'[b] = wire[b] \/ wire[b] = <<>> \/ \E msgs \in Seq(Message) : Broadcast(msgs)
  PROVE  HasAll(b)'
<1>1. CASE \E i \in 1 .. Len(wire[b]) : wire[b][i] = EventMsg
  <2>1. PICK i \in 1 .. Len(wire[b]) : wire[b][i] = EventMsg
    BY <1>1
  <2>2. i \in 1 .. Len(wire'[b]) /\ wire'[b][i] = EventMsg'
    <3>1. EventMsg' = EventMsg /\ BrowsersOK /\ Len(<<>>) = 0
      BY TypeParts DEF EventMsg
    <3> QED BY <2>1, <3>1, BroadcastPlaces
  <2> QED BY <2>2 DEF HasAll
<1>2. CASE ~\E i \in 1 .. Len(wire[b]) : wire[b][i] = EventMsg
  BY <1>2 DEF HasAll
<1> QED BY <1>1, <1>2

\* Steps that record no event and tell the browsers something else, or nothing.
LEMMA OtherSteps ==
  ASSUME DashboardAssumption, TypeOK, TypeOK', EventsComing,
         \/ FilesMove \/ Periodic \/ \E t \in Tasks : Adopt(t)
         \/ \E e \in Nat : Push(e)
         \/ \E b \in Browsers : Connect(b)
         \/ UNCHANGED vars
  PROVE  EventsComing'
<1>0. tasks' \in SUBSET Rows /\ agents' \in States /\ BrowsersOK
  BY TypeParts DEF TypeOK
<1> SUFFICES ASSUME NEW b \in Browsers, ~missed'[b] PROVE HasAll(b)'
  BY DEF EventsComing
<1>1. /\ UNCHANGED <<recorded, view, asked, answers, missed>>
      /\ wire'[b] = wire[b] \/ wire[b] = <<>> \/ \E msgs \in Seq(Message) : Broadcast(msgs)
  <2>1. CASE FilesMove
    BY <2>1 DEF FilesMove, browser
  <2>2. CASE Periodic
    <3>1. <<TasksMsg(tasks'), AgentsMsg(agents')>> \in Seq(Message)
      BY <1>0, MessageTypes
    <3> QED BY <2>2, <3>1 DEF Periodic
  <2>3. ASSUME NEW t \in Tasks, Adopt(t)
        PROVE  /\ UNCHANGED <<recorded, view, asked, answers, missed>>
               /\ \E msgs \in Seq(Message) : Broadcast(msgs)
    <3>1. <<TasksMsg(tasks')>> \in Seq(Message)
      BY <1>0, MessageTypes
    <3> QED BY <2>3, <3>1 DEF Adopt
  <2>4. ASSUME NEW e \in Nat, Push(e)
        PROVE  /\ UNCHANGED <<recorded, view, asked, answers, missed>>
               /\ \E msgs \in Seq(Message) : Broadcast(msgs)
    <3>1. <<EntryMsg(e)>> \in Seq(Message)
      BY MessageTypes
    <3> QED BY <2>4, <3>1 DEF Push
  <2>5. ASSUME NEW c \in Browsers, Connect(c)
        PROVE  /\ UNCHANGED <<recorded, view, asked, answers, missed>>
               /\ wire'[b] = wire[b] \/ wire[b] = <<>>
    <3>1. CASE c = b
      <4>1. wire[b] = <<>>
        BY <2>5, <3>1, TypeParts DEF CountsOK, Connect
      <4> QED BY <2>5, <4>1 DEF Connect, disk
    <3>2. CASE c # b
      BY <1>0, <2>5, <3>2 DEF Connect, BrowsersOK, disk
    <3> QED BY <3>1, <3>2
  <2>6. CASE UNCHANGED vars
    BY <2>6 DEF vars, disk, browser
  <2> QED BY <2>1, <2>2, <2>3, <2>4, <2>5, <2>6
<1>2. HasAll(b)
  BY <1>1 DEF EventsComing
<1> QED BY <1>1, <1>2, HasAllKept

\* An event is recorded and every browser that has a socket is told (collab_event), or a
\* task is not exported.
LEMMA EventSteps ==
  ASSUME DashboardAssumption, TypeOK, TypeOK', EventsComing,
         EventRecorded \/ \E t \in Tasks : Export(t)
  PROVE  EventsComing'
<1>0. BrowsersOK /\ EventMsg \in Message /\ <<EventMsg>> \in Seq(Message)
  BY TypeParts, MessageTypes
<1> SUFFICES ASSUME NEW b \in Browsers, ~missed'[b] PROVE HasAll(b)'
  BY DEF EventsComing
<1>1. /\ UNCHANGED <<sock, view, asked, answers>>
      /\ \/ Tells /\ Broadcast(<<EventMsg>>)
         \/ UNCHANGED <<recorded, missed, wire>>
  BY DEF EventRecorded, Export
<1>2. CASE Tells /\ Broadcast(<<EventMsg>>)
  <2>1. sock[b] = "open"
    BY <1>2 DEF Tells, Open
  <2>2. wire'[b] = Append(wire[b], EventMsg) /\ wire[b] \in Seq(Message)
    BY <1>0, <1>2, <2>1, BroadcastType, BrowserTypes, TwoSent
  <2>3. Len(wire[b]) + 1 \in 1 .. Len(wire'[b]) /\ wire'[b][Len(wire[b]) + 1] = EventMsg
    BY <1>0, <2>2, AppendPlaces, SeqPlaces
  <2>4. EventMsg' = EventMsg
    BY DEF EventMsg
  <2> QED BY <2>3, <2>4 DEF HasAll
<1>3. CASE UNCHANGED <<recorded, missed, wire>>
  BY <1>1, <1>3, HasAllKept DEF EventsComing
<1> QED BY <1>1, <1>2, <1>3

\* api_state: the answer has every event there is.
LEMMA ApiStateEvents ==
  ASSUME TypeOK, TypeOK', EventsComing, NEW b \in Browsers, ApiState(b)
  PROVE  EventsComing'
<1>0. BrowsersOK
  BY TypeParts
<1>1. PICK n : n = [tasks |-> tasks', agents |-> agents', disc |-> disc, events |-> recorded,
                    ahead |-> Len(wire[b])]
  OBVIOUS
<1>2. /\ n.events = recorded
      /\ answers' = [answers EXCEPT ![b] = Append(answers[b], n)]
      /\ asked' = [asked EXCEPT ![b] = @ - 1]
      /\ UNCHANGED <<recorded, wire, view, missed>>
  BY <1>1 DEF ApiState
<1>3. HasAll(b)'
  <2>1. answers'[b] = Append(answers[b], n) /\ answers[b] \in Seq(Answer)
    BY <1>0, <1>2, BrowserTypes DEF BrowsersOK
  <2>2. /\ Len(answers[b]) \in Nat /\ Len(answers'[b]) = Len(answers[b]) + 1
        /\ answers'[b][Len(answers[b]) + 1] = n
    <3>1. /\ Len(answers[b]) \in Nat /\ Len(Append(answers[b], n)) = Len(answers[b]) + 1
          /\ Append(answers[b], n)[Len(answers[b]) + 1] = n
      BY <2>1
    <3> QED BY <2>1, <3>1
  <2>3. Len(answers[b]) + 1 \in 1 .. Len(answers'[b])
    BY <2>2
  <2> QED BY <1>2, <2>2, <2>3 DEF HasAll
<1>4. ASSUME NEW c \in Browsers, c # b, ~missed'[c] PROVE HasAll(c)'
  <2>1. answers'[c] = answers[c] /\ asked'[c] = asked[c]
    BY <1>0, <1>2, <1>4 DEF BrowsersOK
  <2> QED BY <1>2, <1>4, <2>1, HasAllKept DEF EventsComing
<1> QED BY <1>3, <1>4 DEF EventsComing

\* onmessage: an event that is shown makes the browser ask.
LEMMA DeliverEvents ==
  ASSUME DashboardAssumption, TypeOK, TypeOK', EventsComing, NEW b \in Browsers, Deliver(b)
  PROVE  EventsComing'
<1>0. BrowsersOK /\ wire[b] \in Seq(Message) /\ answers[b] \in Seq(Answer) /\ view[b] \in View
      /\ asked[b] \in Nat /\ wire[b] # <<>>
  BY TypeParts, BrowserTypes DEF Deliver
<1>1. PICK m : m = Head(wire[b])
  OBVIOUS
<1>2. /\ view' = [view EXCEPT ![b] = Shown(view[b], m)]
      /\ asked' = [asked EXCEPT ![b] = IF m.t = "event" THEN @ + 1 ELSE @]
      /\ wire' = [wire EXCEPT ![b] = Tail(wire[b])]
      /\ answers' = [answers EXCEPT ![b] = Behind(answers[b])]
      /\ UNCHANGED <<recorded, missed>>
  BY <1>1 DEF Deliver, disk
<1>3. /\ view'[b] = Shown(view[b], m) /\ wire'[b] = Tail(wire[b])
      /\ asked'[b] = (IF m.t = "event" THEN asked[b] + 1 ELSE asked[b])
      /\ answers'[b] = Behind(answers[b])
  BY <1>0, <1>2 DEF BrowsersOK
<1>4. /\ m \in Message /\ m = wire[b][1] /\ Len(wire[b]) \in Nat \ {0}
      /\ Len(Tail(wire[b])) = Len(wire[b]) - 1
      /\ \A i \in 1 .. Len(Tail(wire[b])) : Tail(wire[b])[i] = wire[b][i + 1]
  BY <1>0, <1>1, TailPlaces
<1>5. ASSUME HasAll(b) PROVE HasAll(b)'
  <2>1. CASE m.t = "event"
    BY <1>0, <1>3, <2>1 DEF HasAll
  <2>2. CASE m.t # "event"
    <3>1. CASE view[b].events = recorded
      BY <1>0, <1>2, <1>3, <1>4, <3>1, ShownType DEF HasAll
    <3>2. CASE asked[b] > 0
      BY <1>3, <2>2, <3>2 DEF HasAll
    <3>3. ASSUME NEW j \in 1 .. Len(answers[b]), answers[b][j].events = recorded
          PROVE  HasAll(b)'
      <4>1. j \in 1 .. Len(answers'[b]) /\ answers'[b][j].events = recorded'
        BY <1>0, <1>2, <1>3, <3>3, BehindType
      <4> QED BY <4>1 DEF HasAll
    <3>4. ASSUME NEW i \in 1 .. Len(wire[b]), wire[b][i] = EventMsg PROVE HasAll(b)'
      <4>1. i # 1
        BY <1>4, <2>2, <3>4 DEF EventMsg
      <4>2. i - 1 \in 1 .. Len(Tail(wire[b])) /\ (i - 1) + 1 = i
        BY <1>4, <4>1
      <4>3. wire'[b][i - 1] = EventMsg /\ i - 1 \in 1 .. Len(wire'[b]) /\ EventMsg' = EventMsg
        BY <1>3, <1>4, <3>4, <4>2 DEF EventMsg
      <4> QED BY <4>3 DEF HasAll
    <3> QED BY <1>5, <3>1, <3>2, <3>3, <3>4 DEF HasAll
  <2> QED BY <2>1, <2>2
<1>6. ASSUME NEW c \in Browsers, ~missed'[c] PROVE HasAll(c)'
  <2>1. CASE c = b
    BY <1>2, <1>5, <1>6, <2>1 DEF EventsComing
  <2>2. CASE c # b
    <3>1. /\ answers'[c] = answers[c] /\ asked'[c] = asked[c] /\ view'[c] = view[c]
          /\ wire'[c] = wire[c]
      BY <1>0, <1>2, <2>2 DEF BrowsersOK
    <3> QED BY <1>2, <1>6, <3>1, HasAllKept DEF EventsComing
  <2> QED BY <2>1, <2>2
<1> QED BY <1>6 DEF EventsComing

\* refreshState: an answer that is shown has every event, or one that has is still to come.
LEMMA AnswerEvents ==
  ASSUME TypeOK, TypeOK', EventsComing, NEW b \in Browsers, AnswerShown(b)
  PROVE  EventsComing'
<1>0. /\ BrowsersOK /\ HistoryOK /\ CountsOK(b) /\ answers[b] \in Seq(Answer)
      /\ Len(answers[b]) \in Nat /\ DOMAIN answers[b] = 1 .. Len(answers[b])
      /\ view[b] \in View /\ recorded \in Nat
  BY TypeParts, BrowserTypes, SeqPlaces DEF ServerOK
<1>1. PICK i \in 1 .. Len(answers[b]) :
        /\ view' = [view EXCEPT ![b] = ViewOf(answers[b][i])]
        /\ missed' = [missed EXCEPT ![b] = (@ \/ answers[b][i].events < view[b].events)
                                           /\ answers[b][i].events # recorded]
        /\ answers' = [answers EXCEPT ![b] = Rest(answers[b], i)]
        /\ UNCHANGED <<recorded, wire, asked>>
  BY <1>0 DEF AnswerShown, Rest, ViewOf, disk
<1>2. /\ view'[b].events = answers[b][i].events /\ answers'[b] = Rest(answers[b], i)
      /\ missed'[b] = ((missed[b] \/ answers[b][i].events < view[b].events)
                       /\ answers[b][i].events # recorded)
  BY <1>0, <1>1 DEF BrowsersOK, HistoryOK, ViewOf
<1>3. ASSUME ~missed'[b] PROVE HasAll(b)'
  <2>1. CASE answers[b][i].events = recorded
    BY <1>1, <1>2, <2>1 DEF HasAll
  <2>2. CASE answers[b][i].events # recorded
    <3>1. ~missed[b] /\ ~(answers[b][i].events < view[b].events)
      BY <1>2, <1>3, <2>2
    <3>2. answers[b][i].events <= recorded /\ answers[b][i].events \in Nat
      <4>1. answers[b][i] \in Answer
        BY <1>0, SeqPlaces
      <4> QED BY <1>0, <4>1 DEF CountsOK, Answer
    <3>3. view[b].events # recorded
      BY <1>0, <2>2, <3>1, <3>2 DEF View
    <3>4. CASE asked[b] > 0
      BY <1>1, <3>4 DEF HasAll
    <3>5. CASE \E k \in 1 .. Len(wire[b]) : wire[b][k] = EventMsg
      BY <1>1, <3>5 DEF HasAll, EventMsg
    <3>6. ASSUME NEW j \in 1 .. Len(answers[b]), answers[b][j].events = recorded
          PROVE  HasAll(b)'
      <4>0. Len(answers'[b]) = Len(answers[b]) - 1
        BY <1>0, <1>2, RestType
      <4>1. CASE j < i
        <5>1. j \in 1 .. Len(answers[b]) - 1
          BY <4>1
        <5>2. j \in 1 .. Len(answers'[b]) /\ answers'[b][j].events = recorded'
          BY <1>0, <1>1, <1>2, <3>6, <4>0, <4>1, <5>1, RestType
        <5> QED BY <5>2 DEF HasAll
      <4>2. CASE ~(j < i)
        <5>1. j # i
          BY <2>2, <3>6
        <5>2. j - 1 \in 1 .. Len(answers[b]) - 1 /\ ~(j - 1 < i) /\ (j - 1) + 1 = j
          BY <1>0, <4>2, <5>1
        <5>3. answers'[b][j - 1] = answers[b][j]
          BY <1>0, <1>2, <5>2, RestType
        <5>4. j - 1 \in 1 .. Len(answers'[b]) /\ answers'[b][j - 1].events = recorded'
          BY <1>1, <3>6, <4>0, <5>2, <5>3
        <5> QED BY <5>4 DEF HasAll
      <4> QED BY <4>1, <4>2
    <3>7. HasAll(b)
      BY <3>1 DEF EventsComing
    <3> QED BY <3>3, <3>4, <3>5, <3>6, <3>7 DEF HasAll
  <2> QED BY <2>1, <2>2
<1>4. ASSUME NEW c \in Browsers, c # b, ~missed'[c] PROVE HasAll(c)'
  <2>1. answers'[c] = answers[c] /\ view'[c] = view[c] /\ missed'[c] = missed[c]
    BY <1>0, <1>1, <1>4 DEF BrowsersOK, HistoryOK
  <2> QED BY <1>1, <1>4, <2>1, HasAllKept DEF EventsComing
<1> QED BY <1>3, <1>4 DEF EventsComing

\* A request or its answer is lost, or a socket with what was on it, or all of them with
\* the server: a browser that was not told is one that missed an event.
LEMMA LossEvents ==
  ASSUME TypeOK, TypeOK', EventsComing,
         Restart \/ \E b \in Browsers : FetchFails(b) \/ Drop(b)
  PROVE  EventsComing'
<1>0. BrowsersOK /\ HistoryOK
  BY TypeParts
<1>1. ASSUME NEW b \in Browsers, FetchFails(b) PROVE EventsComing'
  <2>1. /\ missed' = [missed EXCEPT ![b] = TRUE] /\ UNCHANGED <<recorded, wire, view>>
        /\ \/ asked' = [asked EXCEPT ![b] = @ - 1] /\ UNCHANGED answers
           \/ answers' = [answers EXCEPT ![b] = Tail(@)] /\ UNCHANGED asked
    BY <1>1 DEF FetchFails, disk
  <2>2. missed'[b]
    BY <1>0, <2>1 DEF HistoryOK
  <2>3. ASSUME NEW c \in Browsers, ~missed'[c] PROVE HasAll(c)'
    <3>1. c # b
      BY <2>2, <2>3
    <3>2. missed'[c] = missed[c] /\ answers'[c] = answers[c] /\ asked'[c] = asked[c]
      BY <1>0, <2>1, <3>1 DEF BrowsersOK, HistoryOK
    <3> QED BY <2>1, <2>3, <3>2, HasAllKept DEF EventsComing
  <2> QED BY <2>3 DEF EventsComing
<1>2. ASSUME NEW bs \in SUBSET Browsers, Closes(bs), UNCHANGED <<recorded, view>>,
             NEW b \in bs, ~missed[b], ~Contains(wire[b], EventMsg), asked'[b] = asked[b]
      PROVE  HasAll(b)'
  <2>1. HasAll(b)
    BY <1>2 DEF EventsComing
  <2>2. CASE \E j \in 1 .. Len(answers[b]) : answers[b][j].events = recorded
    <3>1. PICK j \in 1 .. Len(answers[b]) : answers[b][j].events = recorded
      BY <2>2
    <3>2. answers[b] \in Seq(Answer) /\ Len(answers[b]) \in Nat /\ answers[b][j] \in Answer
      BY <1>0, <3>1, BrowserTypes, SeqPlaces
    <3> DEFINE f == [i \in 1 .. Len(answers[b]) |->
                       [answers[b][i] EXCEPT !.ahead = IF @ > 0 THEN 0 ELSE @]]
    <3>3. answers'[b] = f
      <4>1. DOMAIN answers[b] = 1 .. Len(answers[b])
        BY <3>2
      <4>2. answers'[b] = [i \in DOMAIN answers[b] |->
                             [answers[b][i] EXCEPT !.ahead = IF @ > 0 THEN 0 ELSE @]]
        BY <1>2, Zenon DEF Closes
      <4> QED BY <4>1, <4>2
    <3>4. f[j].events = recorded
      BY <3>1, <3>2 DEF Answer
    <3>5. DOMAIN f = 1 .. Len(answers[b])
      OBVIOUS
    <3> HIDE DEF f
    <3>6. j \in 1 .. Len(answers'[b])
      <4>1. answers'[b] \in Seq(Answer) /\ DOMAIN answers'[b] = 1 .. Len(answers'[b])
        <5>1. BrowsersOK'
          BY DEF TypeOK, BrowsersOK
        <5>2. answers'[b] \in Seq(Answer)
          BY <5>1 DEF BrowsersOK
        <5> QED BY <5>2
      <4> QED BY <3>3, <3>5, <4>1
    <3> QED BY <1>2, <3>3, <3>4, <3>6 DEF HasAll
  <2>3. CASE \E i \in 1 .. Len(wire[b]) : wire[b][i] = EventMsg
    BY <1>2, <2>3 DEF Contains
  <2> QED BY <1>2, <2>1, <2>2, <2>3 DEF HasAll
<1>3. ASSUME NEW b \in Browsers, Drop(b) PROVE EventsComing'
  <2>1. /\ missed' = [missed EXCEPT ![b] = @ \/ Contains(wire[b], EventMsg)]
        /\ Closes({b}) /\ UNCHANGED <<recorded, view, asked>>
    BY <1>3 DEF Drop, disk
  <2>2. ASSUME NEW c \in Browsers, ~missed'[c] PROVE HasAll(c)'
    <3>1. CASE c = b
      <4>1. ~missed[b] /\ ~Contains(wire[b], EventMsg)
        BY <1>0, <2>1, <2>2, <3>1 DEF HistoryOK
      <4> QED BY <1>2, <2>1, <3>1, <4>1
    <3>2. CASE c # b
      <4>1. missed'[c] = missed[c] /\ answers'[c] = answers[c] /\ wire'[c] = wire[c]
        BY <1>0, <2>1, <3>2 DEF HistoryOK, Closes
      <4> QED BY <2>1, <2>2, <4>1, HasAllKept DEF EventsComing
    <3> QED BY <3>1, <3>2
  <2> QED BY <2>2 DEF EventsComing
<1>4. CASE Restart
  <2>1. /\ missed' = [b \in Browsers |-> missed[b] \/ asked[b] > 0 \/ Contains(wire[b], EventMsg)]
        /\ asked' = [b \in Browsers |-> 0]
        /\ Closes(Browsers) /\ UNCHANGED <<recorded, view>>
    BY <1>4 DEF Restart, disk
  <2>2. ASSUME NEW b \in Browsers, ~missed'[b] PROVE HasAll(b)'
    <3>1. ~missed[b] /\ ~(asked[b] > 0) /\ ~Contains(wire[b], EventMsg)
      BY <2>1, <2>2
    <3>2. asked[b] \in Nat /\ asked'[b] = asked[b]
      <4>1. asked[b] \in Nat /\ asked'[b] = 0
        BY <1>0, <2>1, BrowserTypes
      <4> QED BY <3>1, <4>1
    <3> QED BY <1>2, <2>1, <3>1, <3>2
  <2> QED BY <2>2 DEF EventsComing
<1> QED BY <1>1, <1>3, <1>4

\* A browser that was told of every event shows them all or is about to: no request, answer
\* or message that would bring them is dropped without a fault (collab_event, collab_node,
\* refreshState).
THEOREM EventsComeTheorem == Spec => []EventsComing
<1>1. Init => EventsComing
  BY DEF Init, EventsComing, HasAll
<1>2. ASSUME TypeOK, EventsComing, [Next]_vars PROVE EventsComing'
  <2>0. TypeOK' /\ DashboardAssumption
    BY <1>2, TypeStep, DashboardAssumption
  <2>1. CASE \E e \in {Blank, OldEntries + left.entries} : Push(e)
    BY <1>2, <2>0, <2>1, EntryNumbers, OtherSteps
  <2>2. CASE UNCHANGED vars \/ FilesMove \/ Periodic \/ (\E t \in Tasks : Adopt(t))
             \/ \E b \in Browsers : Connect(b)
    BY <1>2, <2>0, <2>2, OtherSteps
  <2>3. CASE EventRecorded \/ \E t \in Tasks : Export(t)
    BY <1>2, <2>0, <2>3, EventSteps
  <2>4. CASE Restart \/ \E b \in Browsers : FetchFails(b) \/ Drop(b)
    BY <1>2, <2>0, <2>4, LossEvents
  <2>5. ASSUME NEW b \in Browsers, ApiState(b) \/ Deliver(b) \/ AnswerShown(b)
        PROVE  EventsComing'
    BY <1>2, <2>0, <2>5, ApiStateEvents, DeliverEvents, AnswerEvents
  <2> QED BY <1>2, <2>1, <2>2, <2>3, <2>4, <2>5 DEF Next
<1> QED BY <1>1, <1>2, DashboardTypes, PTL DEF Spec
=============================================================================
