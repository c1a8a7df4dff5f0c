---------------------------- MODULE RelayProofs ----------------------------
(***************************************************************************)
(* Proofs about Relay, for any messages, partners and limits: the queue    *)
(* keeps its bound and no forwarded message is just forgotten.             *)
(***************************************************************************)
EXTENDS Relay, FiniteSetTheorems, TLAPS

LEMMA SeqAppend ==
  ASSUME NEW S, NEW s \in Seq(S), NEW e \in S
  PROVE  /\ Append(s, e) \in Seq(S) /\ Len(Append(s, e)) = Len(s) + 1
         /\ \A x : (\E i \in 1 .. Len(s) : s[i] = x)
                     => \E i \in 1 .. Len(Append(s, e)) : Append(s, e)[i] = x
         /\ \E i \in 1 .. Len(Append(s, e)) : Append(s, e)[i] = e
<1>1. Append(s, e) \in Seq(S) /\ Len(Append(s, e)) = Len(s) + 1
  OBVIOUS
<1>2. \A i \in 1 .. Len(s) : i \in 1 .. Len(Append(s, e)) /\ Append(s, e)[i] = s[i]
  BY <1>1
<1>3. Len(s) + 1 \in 1 .. Len(Append(s, e)) /\ Append(s, e)[Len(s) + 1] = e
  BY <1>1
<1> QED
  BY <1>1, <1>2, <1>3

LEMMA SeqTail ==
  ASSUME NEW S, NEW s \in Seq(S), s # <<>>
  PROVE  /\ Head(s) \in S /\ Tail(s) \in Seq(S) /\ Len(Tail(s)) = Len(s) - 1
         /\ Len(s) > 1 <=> Tail(s) # <<>>
         /\ \A x : (\E i \in 1 .. Len(s) : s[i] = x)
                     => x = Head(s) \/ \E i \in 1 .. Len(Tail(s)) : Tail(s)[i] = x
<1>1. /\ Head(s) \in S /\ Tail(s) \in Seq(S) /\ Len(Tail(s)) = Len(s) - 1
      /\ Head(s) = s[1] /\ Len(s) \in Nat \ {0}
  OBVIOUS
<1>3. Len(s) > 1 <=> Tail(s) # <<>>
  <2> DEFINE t == Tail(s)
  <2>1. t \in Seq(S) /\ Len(t) = Len(s) - 1 /\ Len(s) \in Nat \ {0}
    BY <1>1
  <2> HIDE DEF t
  <2>2. Len(t) \in Nat /\ (t # <<>> <=> Len(t) # 0)
    BY <2>1
  <2>3. Len(s) > 1 <=> t # <<>>
    BY <2>1, <2>2
  <2> QED
    BY <2>3 DEF t
<1>2. ASSUME NEW i \in 1 .. Len(s), s[i] # Head(s)
      PROVE  i - 1 \in 1 .. Len(Tail(s)) /\ Tail(s)[i - 1] = s[i]
  <2>1. i # 1
    BY <1>1, <1>2
  <2> QED
    BY <1>1, <2>1
<1> QED
  BY <1>1, <1>2, <1>3

\* The queue after QueueSafe: within its cap, with the message, and with what it
\* held before but for what was popped.
LEMMA QueueSafeKeeps ==
  ASSUME RelayAssumption, queue \in Seq(Messages), Len(queue) <= QueueCap,
         evicted \subseteq Messages, NEW m \in Messages, QueueSafe(m)
  PROVE  /\ queue' \in Seq(Messages) /\ Len(queue') <= QueueCap
         /\ evicted' \subseteq Messages /\ evicted \subseteq evicted'
         /\ Queued(m)'
         /\ \A x : Queued(x) => Queued(x)' \/ x \in evicted'
<1>0. QueueCap \in Nat \ {0}
  BY DEF RelayAssumption
<1>1. CASE /\ Len(queue) < QueueCap
           /\ queue' = Append(queue, m) /\ UNCHANGED evicted
  BY <1>0, <1>1, SeqAppend DEF Queued
<1>2. CASE /\ Len(queue) >= QueueCap
           /\ queue' = Append(Tail(queue), m)
           /\ evicted' = evicted \cup {Head(queue)}
  <2>1. queue # <<>> /\ Len(queue) = QueueCap
    BY <1>0, <1>2
  <2>2. /\ Head(queue) \in Messages /\ Tail(queue) \in Seq(Messages)
        /\ Len(Tail(queue)) = Len(queue) - 1
        /\ \A x : Queued(x) => x = Head(queue)
                               \/ \E i \in 1 .. Len(Tail(queue)) : Tail(queue)[i] = x
    BY <2>1, SeqTail DEF Queued
  <2>3. /\ queue' \in Seq(Messages) /\ Len(queue') = Len(Tail(queue)) + 1
        /\ \A x : (\E i \in 1 .. Len(Tail(queue)) : Tail(queue)[i] = x) => Queued(x)'
        /\ Queued(m)'
    <3> DEFINE t == Tail(queue)
    <3>1. t \in Seq(Messages) /\ queue' = Append(t, m)
      BY <1>2, <2>2
    <3> HIDE DEF t
    <3>2. /\ queue' \in Seq(Messages) /\ Len(queue') = Len(t) + 1
          /\ \A x : (\E i \in 1 .. Len(t) : t[i] = x) => Queued(x)'
          /\ Queued(m)'
      <4>1. /\ queue' \in Seq(Messages) /\ Len(queue') = Len(t) + 1
            /\ \A i \in 1 .. Len(t) : queue'[i] = t[i]
            /\ queue'[Len(t) + 1] = m
        BY <3>1
      <4>2. Len(t) \in Nat
        BY <3>1
      <4>3. ASSUME NEW x, NEW i \in 1 .. Len(t), t[i] = x PROVE Queued(x)'
        <5>1. i \in 1 .. Len(queue') /\ queue'[i] = x
          BY <4>1, <4>2, <4>3
        <5> QED BY <5>1 DEF Queued
      <4>4. Queued(m)'
        <5>1. Len(t) + 1 \in 1 .. Len(queue')
          BY <4>1, <4>2
        <5> QED BY <4>1, <5>1 DEF Queued
      <4> QED
        BY <4>1, <4>3, <4>4
    <3> QED
      BY <3>2 DEF t
  <2>4. Len(queue') <= QueueCap
    BY <1>0, <2>1, <2>2, <2>3
  <2> QED
    BY <1>2, <2>2, <2>3, <2>4
<1> QED
  BY <1>1, <1>2 DEF QueueSafe

\* The drain loop after NextMessage: what it had taken, but for the first.
LEMMA NextMessageKeeps ==
  ASSUME RelayAssumption, drain.pending \in Seq(Messages), drain.pending # <<>>, NextMessage
  PROVE  /\ drain'.ph \in {"sleep", "scan"} /\ drain'.at = 1
         /\ drain' \in [ph : {"sleep", "scan", "post", "dead"}, pending : Seq(Messages),
                        at : 1 .. N + 1]
         /\ drain'.ph = "scan" <=> drain'.pending # <<>>
         /\ Message \in Messages
         /\ \A x : Draining(x) => x = Message \/ Draining(x)'
<1>1. /\ Message \in Messages /\ Tail(drain.pending) \in Seq(Messages)
      /\ Len(drain.pending) > 1 <=> Tail(drain.pending) # <<>>
      /\ \A x : Draining(x) => x = Message
                   \/ \E i \in 1 .. Len(Tail(drain.pending)) : Tail(drain.pending)[i] = x
  BY SeqTail DEF Message, Draining
<1>2. 1 \in 1 .. N + 1
  BY DEF RelayAssumption
<1>3. CASE Len(drain.pending) > 1
  <2>1. drain' = [ph |-> "scan", pending |-> Tail(drain.pending), at |-> 1]
    BY <1>3 DEF NextMessage
  <2> QED
    BY <1>1, <1>2, <1>3, <2>1 DEF Draining
<1>4. CASE ~(Len(drain.pending) > 1)
  <2>1. drain' = Asleep
    BY <1>4 DEF NextMessage
  <2>2. \A x : Draining(x) => x = Message
    BY <1>1, <1>4
  <2> QED
    BY <1>1, <1>2, <2>1, <2>2 DEF Asleep, Draining
<1> QED
  BY <1>3, <1>4

LEMMA InitEstablishes == RelayAssumption /\ Init => RelayInv
  BY DEF RelayAssumption, Init, RelayInv, TypeOK, Asleep, Partners, Kept, Queued, Draining

LEMMA MessageAdded ==
  ASSUME NEW f \in [Partners -> SUBSET Messages], NEW p \in Partners, NEW m \in Messages,
         NEW g, g = [f EXCEPT ![p] = @ \cup {m}]
  PROVE  g \in [Partners -> SUBSET Messages] /\ \A q \in Partners : f[q] \subseteq g[q]
<1>1. f[p] \cup {m} \in SUBSET Messages
  OBVIOUS
<1> QED
  BY <1>1

\* The network alone: nothing of the client changes, and nothing is unapplied.
LEMMA NetworkSteps ==
  ASSUME RelayAssumption, RelayInv,
         \/ \E p \in Partners : GoesDown(p) \/ ComesUp(p)
         \/ \E m \in Messages : GoesStale(m)
         \/ \E p \in Partners, m \in Messages : LateArrival(p, m) \/ NonceDropped(p, m)
  PROVE  RelayInv'
<1>1. /\ UNCHANGED client
      /\ up' \in [Partners -> BOOLEAN]
      /\ seen' \in [Partners -> SUBSET Messages]
      /\ applied' \in [Partners -> SUBSET Messages] /\ wire' \in [Partners -> SUBSET Messages]
      /\ stale' \subseteq Messages /\ faults' \in 0 .. MaxFaults
      /\ \A p \in Partners : applied[p] \subseteq applied'[p]
  <2> USE DEF RelayAssumption, RelayInv, TypeOK
  <2>1. ASSUME NEW p \in Partners, GoesDown(p) PROVE <1>1!:
    BY <2>1 DEF GoesDown
  <2>2. ASSUME NEW p \in Partners, ComesUp(p) PROVE <1>1!:
    BY <2>2 DEF ComesUp
  <2>3. ASSUME NEW m \in Messages, GoesStale(m) PROVE <1>1!:
    BY <2>3 DEF GoesStale
  <2>4. ASSUME NEW p \in Partners, NEW m \in Messages, LateArrival(p, m) PROVE <1>1!:
    <3> USE <2>4 DEF LateArrival
    <3>1. UNCHANGED client /\ up' \in [Partners -> BOOLEAN] /\ stale' \subseteq Messages
      OBVIOUS
    <3>2. wire' \in [Partners -> SUBSET Messages]
      OBVIOUS
    <3>3. faults' \in 0 .. MaxFaults
      OBVIOUS
    <3>4. \/ seen' = seen /\ applied' = applied
          \/ seen' = [seen EXCEPT ![p] = @ \cup {m}] /\ applied' = [applied EXCEPT ![p] = @ \cup {m}]
          \/ seen' = [seen EXCEPT ![p] = @ \cup {m}] /\ applied' = applied
      BY DEF Applies, Spends
    <3>5. /\ seen \in [Partners -> SUBSET Messages] /\ applied \in [Partners -> SUBSET Messages]
      OBVIOUS
    <3>6. /\ seen' \in [Partners -> SUBSET Messages] /\ applied' \in [Partners -> SUBSET Messages]
          /\ \A q \in Partners : applied[q] \subseteq applied'[q]
      <4>1. applied' = [applied EXCEPT ![p] = @ \cup {m}] =>
              /\ applied' \in [Partners -> SUBSET Messages]
              /\ \A q \in Partners : applied[q] \subseteq applied'[q]
        BY <3>5, MessageAdded
      <4>2. seen' = [seen EXCEPT ![p] = @ \cup {m}] => seen' \in [Partners -> SUBSET Messages]
        BY <3>5, MessageAdded
      <4> QED
        BY <3>4, <3>5, <4>1, <4>2
    <3> QED
      BY <3>1, <3>2, <3>3, <3>6
  <2>5. ASSUME NEW p \in Partners, NEW m \in Messages, NonceDropped(p, m) PROVE <1>1!:
    BY <2>5 DEF NonceDropped
  <2> QED
    BY <2>1, <2>2, <2>3, <2>4, <2>5
<1>2. TypeOK'
  BY <1>1 DEF RelayInv, TypeOK, client
<1>3. \A m \in Messages : Kept(m) => Kept(m)'
  BY <1>1 DEF client, Kept, Queued, Draining, AppliedSomewhere
<1> QED
  BY <1>1, <1>2, <1>3 DEF RelayInv, client

\* What the answer to a POST does to the network.
LEMMA Answers ==
  ASSUME RelayAssumption, RelayInv, NEW p \in Partners, NEW m \in Messages,
         Accepts(p, m) \/ Fails(p, m)
  PROVE  /\ up' \in [Partners -> BOOLEAN]
         /\ seen' \in [Partners -> SUBSET Messages]
         /\ applied' \in [Partners -> SUBSET Messages] /\ wire' \in [Partners -> SUBSET Messages]
         /\ stale' \subseteq Messages /\ faults' \in 0 .. MaxFaults
         /\ \A q \in Partners : applied[q] \subseteq applied'[q]
         /\ Accepts(p, m) => m \in applied'[p]
<1> USE DEF RelayAssumption, RelayInv, TypeOK
<1>1. CASE Accepts(p, m)
  BY <1>1 DEF Accepts, Applies
<1>2. CASE Fails(p, m) /\ ~Accepts(p, m)
  <2>1. UNCHANGED <<up, stale>>
    BY <1>2 DEF Fails
  <2>2. faults' \in 0 .. MaxFaults
    BY <1>2 DEF Fails
  <2>3. /\ applied' \in [Partners -> SUBSET Messages]
        /\ \A q \in Partners : applied[q] \subseteq applied'[q]
    <3>1. \/ applied' = applied
          \/ applied' = [applied EXCEPT ![p] = applied[p] \cup {m}]
      BY <1>2 DEF Fails, Applies, Spends
    <3>2. applied \in [Partners -> SUBSET Messages] /\ applied[p] \cup {m} \in SUBSET Messages
      OBVIOUS
    <3>3. CASE applied' = applied
      BY <3>2, <3>3
    <3>4. CASE applied' = [applied EXCEPT ![p] = applied[p] \cup {m}]
      <4>1. \A q \in Partners : applied'[q] = IF q = p THEN applied[p] \cup {m} ELSE applied[q]
        BY <3>2, <3>4
      <4> QED
        BY <3>2, <3>4, <4>1
    <3> QED
      BY <3>1, <3>3, <3>4
  <2>5. seen' \in [Partners -> SUBSET Messages]
    <3>1. \/ seen' = seen
          \/ seen' = [seen EXCEPT ![p] = seen[p] \cup {m}]
      BY <1>2 DEF Fails, Applies, Spends
    <3>2. seen \in [Partners -> SUBSET Messages] /\ seen[p] \cup {m} \in SUBSET Messages
      OBVIOUS
    <3> QED
      BY <3>1, <3>2
  <2>4. wire' \in [Partners -> SUBSET Messages]
    <3>1. \/ wire' = wire
          \/ wire' = [wire EXCEPT ![p] = wire[p] \cup {m}]
      BY <1>2 DEF Fails
    <3>2. wire \in [Partners -> SUBSET Messages] /\ wire[p] \cup {m} \in SUBSET Messages
      OBVIOUS
    <3> QED
      BY <3>1, <3>2
  <2> QED
    BY <1>2, <2>1, <2>2, <2>3, <2>4, <2>5
<1> QED
  BY <1>1, <1>2

\* What it does to the breaker.
LEMMA BreakerTypes ==
  ASSUME RelayAssumption, RelayInv, NEW p \in Partners, MarkOk(p) \/ MarkFail(p)
  PROVE  /\ fails' \in [Partners -> 0 .. MaxRetry + FloatLimit]
         /\ open' \in [Partners -> BOOLEAN]
         /\ \A q \in Partners : fails'[q] < MaxRetry + FloatLimit
<1> USE DEF RelayAssumption, RelayInv, TypeOK
<1>1. CASE MarkOk(p)
  BY <1>1 DEF MarkOk
<1>2. CASE MarkFail(p)
  BY <1>2 DEF MarkFail, Overflows
<1> QED
  BY <1>1, <1>2

LEMMA NextPartnerTypes ==
  ASSUME RelayAssumption, RelayInv, NEW m \in Messages, dispatch[m].at \in Partners,
         dispatch' = NextPartner(m)
  PROVE  /\ dispatch' \in [Messages -> [at : 0 .. N + 1, posting : BOOLEAN]]
         /\ \A x \in Messages \ {m} : dispatch'[x] = dispatch[x]
         /\ ~dispatch'[m].posting
<1>1. dispatch \in [Messages -> [at : 0 .. N + 1, posting : BOOLEAN]]
  BY DEF RelayInv, TypeOK
<1> DEFINE r == [at |-> dispatch[m].at + 1, posting |-> FALSE]
<1>2. dispatch[m].at + 1 \in 0 .. N + 1
  BY DEF Partners, RelayAssumption
<1>3. r \in [at : 0 .. N + 1, posting : BOOLEAN] /\ ~r.posting
  BY <1>2
<1>4. dispatch' = [dispatch EXCEPT ![m] = r]
  BY DEF NextPartner
<1> HIDE DEF r
<1> QED
  BY <1>1, <1>3, <1>4

\* The tasks that forward a message.
LEMMA DispatchSteps ==
  ASSUME RelayAssumption, RelayInv, NEW m \in Messages, Forward(m) \/ DispatchStep(m)
  PROVE  RelayInv'
<1> USE DEF RelayAssumption
<1>1. CASE Forward(m)
  <2>0. dispatch' \in [Messages -> [at : 0 .. N + 1, posting : BOOLEAN]]
    <3>1. dispatch \in [Messages -> [at : 0 .. N + 1, posting : BOOLEAN]]
      BY DEF RelayInv, TypeOK
    <3>2. [dispatch[m] EXCEPT !.at = 1] \in [at : 0 .. N + 1, posting : BOOLEAN]
      BY <3>1
    <3>3. dispatch' = [dispatch EXCEPT ![m] = [dispatch[m] EXCEPT !.at = 1]]
      BY <1>1 DEF Forward
    <3> QED
      BY <3>1, <3>2, <3>3
  <2>1. TypeOK'
    <3>1. /\ TypeOK /\ UNCHANGED <<queue, drain, fails, open>>
          /\ UNCHANGED <<up, seen, applied, wire, stale, evicted, burnt, faults>>
      BY <1>1 DEF Forward, network, RelayInv
    <3>2. faults' \in 0 .. MaxFaults
      BY <3>1 DEF TypeOK
    <3> QED
      BY <2>0, <3>1, <3>2, Zenon DEF TypeOK
  <2>2. \A x \in Messages : Kept(x) => Kept(x)'
    BY <1>1 DEF Forward, network, Kept, Queued, Draining, AppliedSomewhere
  <2>3. \A x \in Messages : dispatch'[x].at > 1 => dispatch[x].at > 1
    BY <1>1 DEF Forward, RelayInv, TypeOK
  <2>4. \A x \in Messages : dispatch'[x].posting = dispatch[x].posting
    BY <1>1 DEF Forward, RelayInv, TypeOK
  <2>5. \A x \in Messages : dispatch'[x].at > 1 => Kept(x)'
    BY <2>2, <2>3 DEF RelayInv
  <2>6. \A x \in Messages : dispatch'[x].posting => dispatch'[x].at \in Partners
    <3>1. \A x \in Messages \ {m} : dispatch'[x] = dispatch[x]
      BY <1>1 DEF Forward, RelayInv, TypeOK
    <3>2. ~dispatch[m].posting
      BY <1>1 DEF Forward, RelayInv, Partners
    <3> QED
      BY <2>4, <3>1, <3>2 DEF RelayInv
  <2> QED
    BY <1>1, <2>1, <2>2, <2>5, <2>6 DEF Forward, network, RelayInv
<1>2. CASE DispatchTry(m)
  <2>1. CASE /\ Available(dispatch[m].at)
             /\ dispatch' = [dispatch EXCEPT ![m].posting = TRUE]
             /\ UNCHANGED <<queue, evicted>>
    <3>0. dispatch' \in [Messages -> [at : 0 .. N + 1, posting : BOOLEAN]]
      <4>1. dispatch \in [Messages -> [at : 0 .. N + 1, posting : BOOLEAN]]
        BY DEF RelayInv, TypeOK
      <4>2. [dispatch[m] EXCEPT !.posting = TRUE] \in [at : 0 .. N + 1, posting : BOOLEAN]
        BY <4>1
      <4>3. dispatch' = [dispatch EXCEPT ![m] = [dispatch[m] EXCEPT !.posting = TRUE]]
        BY <2>1
      <4> QED
        BY <4>1, <4>2, <4>3
    <3>1. TypeOK'
      <4>1. /\ TypeOK /\ UNCHANGED <<queue, drain, fails, open>>
            /\ UNCHANGED <<up, seen, applied, wire, stale, evicted, burnt, faults>>
        BY <1>2, <2>1 DEF DispatchTry, network, RelayInv
      <4> QED
        BY <3>0, <4>1, Zenon DEF TypeOK
    <3>2. \A x \in Messages : Kept(x) => Kept(x)'
      BY <1>2, <2>1 DEF DispatchTry, network, Kept, Queued, Draining, AppliedSomewhere
    <3> QED
      BY <1>2, <2>1, <3>1, <3>2 DEF DispatchTry, network, RelayInv, TypeOK
  <2>2. CASE /\ ~Available(dispatch[m].at)
             /\ dispatch' = NextPartner(m)
             /\ QueueSafe(m)
    <3>1. /\ queue' \in Seq(Messages) /\ Len(queue') <= QueueCap
          /\ evicted' \subseteq Messages /\ evicted \subseteq evicted'
          /\ Queued(m)'
          /\ \A x : Queued(x) => Queued(x)' \/ x \in evicted'
      BY <2>2, QueueSafeKeeps DEF RelayInv, TypeOK
    <3>2. dispatch' \in [Messages -> [at : 0 .. N + 1, posting : BOOLEAN]]
      BY <1>2, <2>2, NextPartnerTypes DEF DispatchTry
    <3>3. TypeOK'
      BY <1>2, <3>1, <3>2 DEF DispatchTry, network, RelayInv, TypeOK
    <3>4. \A x \in Messages : Kept(x) => Kept(x)'
      BY <1>2, <3>1 DEF DispatchTry, network, Kept, Draining, AppliedSomewhere
    <3>5. \A x \in Messages \ {m} : dispatch'[x] = dispatch[x]
      BY <1>2, <2>2, NextPartnerTypes DEF DispatchTry
    <3>6. ~dispatch'[m].posting /\ Kept(m)'
      BY <1>2, <2>2, <3>1, NextPartnerTypes DEF DispatchTry, Kept
    <3> QED
      BY <1>2, <3>1, <3>3, <3>4, <3>5, <3>6 DEF DispatchTry, network, RelayInv, TypeOK
  <2> QED
    BY <1>2, <2>1, <2>2 DEF DispatchTry
<1>3. CASE DispatchAccepted(m)
  <2> DEFINE p == dispatch[m].at
  <2>0. p \in Partners /\ Accepts(p, m) /\ MarkOk(p) /\ dispatch' = NextPartner(m)
    BY <1>3 DEF DispatchAccepted, RelayInv
  <2>1. /\ up' \in [Partners -> BOOLEAN]
        /\ seen' \in [Partners -> SUBSET Messages]
        /\ applied' \in [Partners -> SUBSET Messages] /\ wire' \in [Partners -> SUBSET Messages]
        /\ stale' \subseteq Messages /\ faults' \in 0 .. MaxFaults
        /\ \A q \in Partners : applied[q] \subseteq applied'[q]
        /\ m \in applied'[p]
    BY <2>0, Answers
  <2>2. /\ fails' \in [Partners -> 0 .. MaxRetry + FloatLimit]
        /\ open' \in [Partners -> BOOLEAN]
        /\ \A q \in Partners : fails'[q] < MaxRetry + FloatLimit
    BY <2>0, BreakerTypes
  <2>3. dispatch' \in [Messages -> [at : 0 .. N + 1, posting : BOOLEAN]]
    BY <2>0, NextPartnerTypes
  <2>4. TypeOK'
    BY <1>3, <2>1, <2>2, <2>3 DEF DispatchAccepted, RelayInv, TypeOK
  <2>5. \A x \in Messages : Kept(x) => Kept(x)'
    BY <1>3, <2>1 DEF DispatchAccepted, Kept, Queued, Draining, AppliedSomewhere
  <2>6. \A x \in Messages \ {m} : dispatch'[x] = dispatch[x]
    BY <2>0, NextPartnerTypes
  <2>7. ~dispatch'[m].posting /\ Kept(m)'
    BY <2>0, <2>1, NextPartnerTypes DEF Kept, AppliedSomewhere
  <2> QED
    BY <1>3, <2>2, <2>4, <2>5, <2>6, <2>7 DEF DispatchAccepted, RelayInv
<1>4. CASE DispatchFailed(m)
  <2> DEFINE p == dispatch[m].at
  <2>0. p \in Partners /\ Fails(p, m)
    BY <1>4 DEF DispatchFailed, RelayInv
  <2>1. /\ up' \in [Partners -> BOOLEAN]
        /\ seen' \in [Partners -> SUBSET Messages]
        /\ applied' \in [Partners -> SUBSET Messages] /\ wire' \in [Partners -> SUBSET Messages]
        /\ stale' \subseteq Messages /\ faults' \in 0 .. MaxFaults
        /\ \A q \in Partners : applied[q] \subseteq applied'[q]
    BY <2>0, Answers
  <2>2. CASE MarkFail(p) /\ dispatch' = NextPartner(m) /\ QueueSafe(m) /\ UNCHANGED burnt
    <3>1. /\ queue' \in Seq(Messages) /\ Len(queue') <= QueueCap
          /\ evicted' \subseteq Messages /\ evicted \subseteq evicted'
          /\ Queued(m)'
          /\ \A x : Queued(x) => Queued(x)' \/ x \in evicted'
      BY <2>2, QueueSafeKeeps DEF RelayInv, TypeOK
    <3>2. /\ fails' \in [Partners -> 0 .. MaxRetry + FloatLimit]
          /\ open' \in [Partners -> BOOLEAN]
          /\ \A q \in Partners : fails'[q] < MaxRetry + FloatLimit
      BY <2>0, <2>2, BreakerTypes
    <3>3. dispatch' \in [Messages -> [at : 0 .. N + 1, posting : BOOLEAN]]
      BY <2>0, <2>2, NextPartnerTypes
    <3>4. TypeOK'
      BY <1>4, <2>1, <2>2, <3>1, <3>2, <3>3 DEF DispatchFailed, RelayInv, TypeOK
    <3>5. \A x \in Messages : Kept(x) => Kept(x)'
      BY <1>4, <2>1, <2>2, <3>1 DEF DispatchFailed, Kept, Draining, AppliedSomewhere
    <3>6. \A x \in Messages \ {m} : dispatch'[x] = dispatch[x]
      BY <2>0, <2>2, NextPartnerTypes
    <3>7. ~dispatch'[m].posting /\ Kept(m)'
      BY <2>0, <2>2, <3>1, NextPartnerTypes DEF Kept
    <3> QED
      BY <1>4, <3>2, <3>4, <3>5, <3>6, <3>7 DEF DispatchFailed, RelayInv
  <2>3. CASE /\ Overflows(p)
             /\ dispatch' = [dispatch EXCEPT ![m] = [at |-> N + 1, posting |-> FALSE]]
             /\ burnt' = burnt \cup {m}
             /\ UNCHANGED <<queue, fails, open, evicted>>
    <3>1. TypeOK'
      BY <1>4, <2>1, <2>3 DEF DispatchFailed, RelayInv, TypeOK
    <3>2. \A x \in Messages : Kept(x) => Kept(x)'
      BY <1>4, <2>1, <2>3 DEF DispatchFailed, Kept, Queued, Draining, AppliedSomewhere
    <3>3. \A x \in Messages \ {m} : dispatch'[x] = dispatch[x]
      BY <2>3 DEF RelayInv, TypeOK
    <3>4. ~dispatch'[m].posting /\ Kept(m)'
      BY <2>3 DEF RelayInv, TypeOK, Kept
    <3> QED
      BY <1>4, <2>3, <3>1, <3>2, <3>3, <3>4 DEF DispatchFailed, RelayInv
  <2> QED
    BY <1>4, <2>2, <2>3 DEF DispatchFailed
<1> QED
  BY <1>1, <1>2, <1>3, <1>4 DEF DispatchStep

\* The drain loop.
LEMMA DrainSteps ==
  ASSUME RelayAssumption, RelayInv, DrainStep
  PROVE  RelayInv'
<1> USE DEF RelayAssumption
<1>1. CASE DrainWakes
  <2>1. TypeOK' /\ drain'.pending # <<>> /\ drain'.ph = "scan"
    BY <1>1 DEF DrainWakes, network, RelayInv, TypeOK
  <2>2. \A x \in Messages : Kept(x) => Kept(x)'
    BY <1>1 DEF DrainWakes, network, RelayInv, TypeOK, Kept, Queued, Draining, AppliedSomewhere
  <2> QED
    BY <1>1, <2>1, <2>2 DEF DrainWakes, network, RelayInv
<1>2. CASE DrainTries
  <2>1. PICK p \in drain.at .. N : drain' = [drain EXCEPT !.ph = "post", !.at = p]
    BY <1>2 DEF DrainTries
  <2>2. p \in Partners /\ drain.at \in 1 .. N + 1
    BY <2>1 DEF RelayInv, TypeOK, Partners
  <2>3. /\ drain' \in [ph : {"sleep", "scan", "post", "dead"}, pending : Seq(Messages),
                       at : 1 .. N + 1]
        /\ drain'.at \in Partners /\ drain'.pending = drain.pending /\ drain'.ph = "post"
    <3>1. drain \in [ph : {"sleep", "scan", "post", "dead"}, pending : Seq(Messages),
                      at : 1 .. N + 1]
      BY DEF RelayInv, TypeOK
    <3>2. p \in 1 .. N + 1
      BY <2>2 DEF Partners
    <3> QED
      BY <2>1, <2>2, <3>1, <3>2
  <2>4. TypeOK'
    BY <1>2, <2>3 DEF DrainTries, network, RelayInv, TypeOK
  <2>5. \A x \in Messages : Kept(x) => Kept(x)'
    BY <1>2, <2>3 DEF DrainTries, network, Kept, Queued, Draining, AppliedSomewhere
  <2> QED
    BY <1>2, <2>3, <2>4, <2>5 DEF DrainTries, network, RelayInv
<1>3. CASE DrainRequeues
  <2>1. drain.pending \in Seq(Messages) /\ drain.pending # <<>>
    BY <1>3 DEF DrainRequeues, RelayInv, TypeOK
  <2>2. /\ drain'.ph \in {"sleep", "scan"}
        /\ drain' \in [ph : {"sleep", "scan", "post", "dead"}, pending : Seq(Messages),
                       at : 1 .. N + 1]
        /\ drain'.ph = "scan" <=> drain'.pending # <<>>
        /\ Message \in Messages
        /\ \A x : Draining(x) => x = Message \/ Draining(x)'
    BY <1>3, <2>1, NextMessageKeeps DEF DrainRequeues
  <2>a. PICK m \in Messages : m = Message
    BY <2>2
  <2>3. QueueSafe(m)
    BY <1>3, <2>a DEF DrainRequeues
  <2>4. /\ queue' \in Seq(Messages) /\ Len(queue') <= QueueCap
        /\ evicted' \subseteq Messages /\ evicted \subseteq evicted'
        /\ Queued(m)'
        /\ \A x : Queued(x) => Queued(x)' \/ x \in evicted'
    BY <2>3, QueueSafeKeeps DEF RelayInv, TypeOK
  <2>5. TypeOK'
    BY <1>3, <2>2, <2>4 DEF DrainRequeues, network, RelayInv, TypeOK
  <2>6. \A x : Draining(x) => x = m \/ Draining(x)'
    BY <2>2, <2>a
  <2>7. \A x \in Messages : Kept(x) => Kept(x)'
    <3> SUFFICES ASSUME NEW x \in Messages, Kept(x) PROVE Kept(x)'
      OBVIOUS
    <3>1. CASE Queued(x)
      BY <2>4, <3>1 DEF Kept
    <3>2. CASE Draining(x)
      <4>1. CASE x = m
        BY <2>4, <4>1 DEF Kept, Queued
      <4>2. CASE x # m
        BY <2>6, <3>2, <4>2 DEF Kept
      <4> QED
        BY <4>1, <4>2
    <3>3. CASE AppliedSomewhere(x) \/ x \in evicted \/ x \in burnt
      BY <1>3, <2>4, <3>3 DEF DrainRequeues, network, Kept, AppliedSomewhere
    <3> QED
      BY <3>1, <3>2, <3>3 DEF Kept
  <2> QED
    BY <1>3, <2>2, <2>5, <2>7 DEF DrainRequeues, network, RelayInv
<1>4. CASE DrainAccepted
  <2>1. /\ drain.pending \in Seq(Messages) /\ drain.pending # <<>> /\ drain.at \in Partners
    BY <1>4 DEF DrainAccepted, RelayInv, TypeOK
  <2>2. /\ drain'.ph \in {"sleep", "scan"}
        /\ drain' \in [ph : {"sleep", "scan", "post", "dead"}, pending : Seq(Messages),
                       at : 1 .. N + 1]
        /\ drain'.ph = "scan" <=> drain'.pending # <<>>
        /\ Message \in Messages
        /\ \A x : Draining(x) => x = Message \/ Draining(x)'
    BY <1>4, <2>1, NextMessageKeeps DEF DrainAccepted
  <2>a. PICK m \in Messages, p \in Partners : m = Message /\ p = drain.at
    BY <2>1, <2>2
  <2>3. Accepts(p, m) /\ MarkOk(p)
    BY <1>4, <2>a DEF DrainAccepted
  <2>4. \A x : Draining(x) => x = m \/ Draining(x)'
    BY <2>2, <2>a
  <2>5. /\ up' \in [Partners -> BOOLEAN]
        /\ seen' \in [Partners -> SUBSET Messages]
        /\ applied' \in [Partners -> SUBSET Messages] /\ wire' \in [Partners -> SUBSET Messages]
        /\ stale' \subseteq Messages /\ faults' \in 0 .. MaxFaults
        /\ \A q \in Partners : applied[q] \subseteq applied'[q]
        /\ m \in applied'[p]
    BY <2>3, Answers
  <2>6. /\ fails' \in [Partners -> 0 .. MaxRetry + FloatLimit]
        /\ open' \in [Partners -> BOOLEAN]
        /\ \A q \in Partners : fails'[q] < MaxRetry + FloatLimit
    BY <2>3, BreakerTypes
  <2>7. TypeOK'
    BY <1>4, <2>2, <2>5, <2>6 DEF DrainAccepted, RelayInv, TypeOK
  <2>8. \A x \in Messages : Kept(x) => Kept(x)'
    <3>1. AppliedSomewhere(m)'
      BY <2>3, <2>5 DEF AppliedSomewhere
    <3>2. \A x : AppliedSomewhere(x) => AppliedSomewhere(x)'
      BY <2>5 DEF AppliedSomewhere
    <3> QED
      BY <1>4, <2>4, <3>1, <3>2 DEF DrainAccepted, Kept, Queued
  <2> QED
    BY <1>4, <2>2, <2>6, <2>7, <2>8 DEF DrainAccepted, RelayInv
<1>5. CASE DrainFailed
  <2>1. /\ drain.pending \in Seq(Messages) /\ drain.pending # <<>> /\ drain.at \in Partners
    BY <1>5 DEF DrainFailed, RelayInv, TypeOK
  <2>0. Message \in Messages
    BY <2>1, SeqTail DEF Message
  <2>a. PICK m \in Messages, p \in Partners : m = Message /\ p = drain.at
    BY <2>0, <2>1
  <2>2. Fails(p, m)
    BY <1>5, <2>a DEF DrainFailed
  <2>3. \/ /\ MarkFail(p)
           /\ drain' = [drain EXCEPT !.ph = "scan", !.at = @ + 1]
           /\ UNCHANGED burnt
        \/ /\ Overflows(p)
           /\ drain' = [drain EXCEPT !.ph = "dead", !.pending = <<>>]
           /\ burnt' = burnt \cup {drain.pending[i] : i \in DOMAIN drain.pending}
           /\ UNCHANGED <<fails, open>>
    BY <1>5, <2>a DEF DrainFailed
  <2>4. /\ up' \in [Partners -> BOOLEAN]
        /\ seen' \in [Partners -> SUBSET Messages]
        /\ applied' \in [Partners -> SUBSET Messages] /\ wire' \in [Partners -> SUBSET Messages]
        /\ stale' \subseteq Messages /\ faults' \in 0 .. MaxFaults
        /\ \A q \in Partners : applied[q] \subseteq applied'[q]
    BY <2>2, Answers
  <2>5. CASE /\ MarkFail(p)
             /\ drain' = [drain EXCEPT !.ph = "scan", !.at = @ + 1]
             /\ UNCHANGED burnt
    <3>1. /\ fails' \in [Partners -> 0 .. MaxRetry + FloatLimit]
          /\ open' \in [Partners -> BOOLEAN]
          /\ \A q \in Partners : fails'[q] < MaxRetry + FloatLimit
      BY <2>2, <2>5, BreakerTypes
    <3>2. /\ drain' \in [ph : {"sleep", "scan", "post", "dead"}, pending : Seq(Messages),
                         at : 1 .. N + 1]
          /\ drain'.pending = drain.pending /\ drain'.ph = "scan"
      <4>1. drain \in [ph : {"sleep", "scan", "post", "dead"}, pending : Seq(Messages),
                        at : 1 .. N + 1]
        BY DEF RelayInv, TypeOK
      <4>2. drain.at + 1 \in 1 .. N + 1
        BY <2>1 DEF Partners
      <4> QED
        BY <2>5, <4>1, <4>2
    <3>3. TypeOK'
      BY <1>5, <2>4, <2>5, <3>1, <3>2 DEF DrainFailed, RelayInv, TypeOK
    <3>4. \A x \in Messages : Kept(x) => Kept(x)'
      BY <1>5, <2>4, <2>5, <3>2 DEF DrainFailed, Kept, Queued, Draining, AppliedSomewhere
    <3> QED
      BY <1>5, <2>1, <3>1, <3>2, <3>3, <3>4 DEF DrainFailed, RelayInv
  <2>6. CASE /\ Overflows(p)
             /\ drain' = [drain EXCEPT !.ph = "dead", !.pending = <<>>]
             /\ burnt' = burnt \cup {drain.pending[i] : i \in DOMAIN drain.pending}
             /\ UNCHANGED <<fails, open>>
    <3>1. /\ drain' \in [ph : {"sleep", "scan", "post", "dead"}, pending : Seq(Messages),
                         at : 1 .. N + 1]
          /\ drain'.ph = "dead" /\ drain'.pending = <<>>
      <4>1. drain \in [ph : {"sleep", "scan", "post", "dead"}, pending : Seq(Messages),
                        at : 1 .. N + 1]
        BY DEF RelayInv, TypeOK
      <4>2. <<>> \in Seq(Messages)
        OBVIOUS
      <4> QED
        BY <2>6, <4>1, <4>2
    <3>2. DOMAIN drain.pending = 1 .. Len(drain.pending)
      BY <2>1
    <3>3. burnt' \subseteq Messages
      BY <2>1, <2>6 DEF RelayInv, TypeOK
    <3>4. TypeOK'
      BY <1>5, <2>4, <2>6, <3>1, <3>3 DEF DrainFailed, RelayInv, TypeOK
    <3>5. \A x : Draining(x) => x \in burnt'
      BY <2>6, <3>2 DEF Draining
    <3>6. \A x \in Messages : Kept(x) => Kept(x)'
      BY <1>5, <2>4, <2>6, <3>5 DEF DrainFailed, Kept, Queued, AppliedSomewhere
    <3> QED
      BY <1>5, <2>6, <3>1, <3>4, <3>6 DEF DrainFailed, RelayInv
  <2> QED
    BY <2>3, <2>5, <2>6
<1> QED
  BY <1>1, <1>2, <1>3, <1>4, <1>5 DEF DrainStep

\* The breakers' clocks, and steps of none of them.
LEMMA OtherSteps ==
  ASSUME RelayAssumption, RelayInv,
         (\E p \in Partners : BreakerExpires(p)) \/ UNCHANGED vars
  PROVE  RelayInv'
<1> USE DEF RelayAssumption
<1>1. ASSUME NEW p \in Partners, BreakerExpires(p) PROVE RelayInv'
  <2>1. TypeOK'
    BY <1>1 DEF BreakerExpires, network, RelayInv, TypeOK
  <2>2. \A x \in Messages : Kept(x) => Kept(x)'
    BY <1>1 DEF BreakerExpires, network, Kept, Queued, Draining, AppliedSomewhere
  <2> QED
    BY <1>1, <2>1, <2>2 DEF BreakerExpires, network, RelayInv
<1>2. CASE UNCHANGED vars
  BY <1>2 DEF vars, RelayInv, TypeOK, Kept, Queued, Draining, AppliedSomewhere
<1> QED
  BY <1>1, <1>2

\* The invariant of the relay, whatever the number of partners and messages.
THEOREM RelayInvariant == Spec => []RelayInv
<1>1. RelayInv /\ [Next]_vars => RelayInv'
  BY RelayAssumption, NetworkSteps, DispatchSteps, DrainSteps, OtherSteps DEF Next
<1>2. Init => RelayInv
  BY RelayAssumption, InitEstablishes
<1> QED
  BY <1>1, <1>2, PTL DEF Spec

\* TypeOK, with it that the queue never holds more than queue_cap messages.
THEOREM RelayTypes == Spec => []TypeOK
<1>1. RelayInv => TypeOK
  BY DEF RelayInv
<1> QED
  BY <1>1, RelayInvariant, PTL

\* forward, _dispatch_async and drain_loop never just forget a message, whatever
\* partners fail, time out or refuse, and whatever the tasks interleave.
THEOREM NothingForgotten == Spec => []NeverForgotten
<1>1. RelayInv => NeverForgotten
  <2> SUFFICES ASSUME RelayInv, NEW m \in Messages, dispatch[m].at > 0, ~Dispatching(m)
               PROVE  Kept(m)
    BY DEF NeverForgotten, Forwarded, Kept
  <2>1. dispatch[m].at \in 0 .. N + 1
    BY DEF RelayInv, TypeOK
  <2>2. dispatch[m].at > 1
    BY <2>1, RelayAssumption DEF RelayAssumption, Dispatching, Partners
  <2> QED
    BY <2>2 DEF RelayInv
<1> QED
  BY <1>1, RelayInvariant, PTL

-----------------------------------------------------------------------------
(* Copies.                                                                 *)

Places(seq, m) == {i \in 1 .. Len(seq) : seq[i] = m}

LEMMA CopiesType ==
  ASSUME NEW S, NEW s \in Seq(S), NEW m
  PROVE  IsFiniteSet(Places(s, m)) /\ Copies(s, m) = Cardinality(Places(s, m)) /\ Copies(s, m) \in Nat
<1>1. IsFiniteSet(1 .. Len(s))
  BY FS_Interval
<1>2. Places(s, m) \in SUBSET (1 .. Len(s)) /\ Copies(s, m) = Cardinality(Places(s, m))
  BY DEF Places, Copies
<1>3. IsFiniteSet(Places(s, m))
  BY <1>1, <1>2, FS_Subset
<1> QED
  BY <1>2, <1>3, FS_CardinalityType

LEMMA CopiesEmpty == \A m : Copies(<<>>, m) = 0
  BY FS_EmptySet DEF Copies

\* Whatever else a queue holds, one more element is one copy more of it.
LEMMA CopiesAppend ==
  ASSUME NEW S, NEW s \in Seq(S), NEW e \in S, NEW m,
         NEW a \in Seq(S), Len(a) = Len(s) + 1, a[Len(s) + 1] = e,
         \A i \in 1 .. Len(s) : a[i] = s[i]
  PROVE  Copies(a, m) = IF e = m THEN Copies(s, m) + 1 ELSE Copies(s, m)
<1> DEFINE P == Places(s, m)
<1>1. IsFiniteSet(P) /\ Copies(s, m) = Cardinality(P) /\ Copies(a, m) = Cardinality(Places(a, m))
  BY CopiesType
<1>2. CASE e = m
  <2>1. Places(a, m) = P \cup {Len(s) + 1} /\ Len(s) + 1 \notin P
    BY <1>2 DEF Places
  <2> HIDE DEF P
  <2>2. Cardinality(P \cup {Len(s) + 1}) = Cardinality(P) + 1
    BY <1>1, <2>1, FS_AddElement
  <2> QED
    BY <1>1, <1>2, <2>1, <2>2
<1>3. CASE e # m
  <2>1. Places(a, m) = P
    BY <1>3 DEF Places
  <2> QED
    BY <1>1, <1>3, <2>1
<1> QED
  BY <1>2, <1>3

\* Taking the first element takes one copy of it.
LEMMA CopiesTail ==
  ASSUME NEW S, NEW s \in Seq(S), s # <<>>, NEW m,
         NEW t \in Seq(S), Len(t) = Len(s) - 1, \A i \in 1 .. Len(t) : t[i] = s[i + 1]
  PROVE  Copies(s, m) = IF s[1] = m THEN Copies(t, m) + 1 ELSE Copies(t, m)
<1> DEFINE P == Places(t, m)
           Q == {i \in 2 .. Len(s) : s[i] = m}
           f == [i \in P |-> i + 1]
<1>1. /\ IsFiniteSet(P) /\ Copies(t, m) = Cardinality(P)
      /\ IsFiniteSet(Places(s, m)) /\ Copies(s, m) = Cardinality(Places(s, m))
  BY CopiesType
<1>2. Len(s) \in Nat /\ Len(s) > 0 /\ Len(t) \in Nat
  OBVIOUS
<1>3. Cardinality(Q) = Cardinality(P) /\ IsFiniteSet(Q)
  <2>1. \A i \in P : i \in Nat /\ i + 1 \in Q
    BY <1>2 DEF Places
  <2>2. f \in [P -> Q] /\ \A i, j \in P : f[i] = f[j] => i = j
    BY <2>1
  <2>3. \A j \in Q : \E i \in P : f[i] = j
    <3> TAKE j \in Q
    <3>1. j - 1 \in P /\ (j - 1) + 1 = j
      BY <1>2 DEF Places
    <3> QED
      BY <3>1
  <2>4. f \in Bijection(P, Q)
    BY <2>2, <2>3 DEF Bijection, Injection, Surjection, IsInjective
  <2> HIDE DEF P, Q, f
  <2>5. ExistsBijection(P, Q)
    BY <2>4 DEF ExistsBijection
  <2> QED
    BY <1>1, <2>5, FS_Bijection
<1>4. CASE s[1] = m
  <2>1. Places(s, m) = Q \cup {1} /\ 1 \notin Q
    BY <1>2, <1>4 DEF Places
  <2> HIDE DEF P, Q
  <2>2. Cardinality(Q \cup {1}) = Cardinality(Q) + 1
    BY <1>3, <2>1, FS_AddElement
  <2> QED
    BY <1>1, <1>3, <1>4, <2>1, <2>2
<1>5. CASE s[1] # m
  <2>1. Places(s, m) = Q
    BY <1>2, <1>5 DEF Places
  <2> HIDE DEF P, Q
  <2> QED
    BY <1>1, <1>3, <1>5, <2>1
<1> QED
  BY <1>4, <1>5

\* What the rest of a sequence is.
LEMMA TailPlaces ==
  ASSUME NEW S, NEW s \in Seq(S), s # <<>>, NEW t, t = Tail(s)
  PROVE  t \in Seq(S) /\ Len(t) = Len(s) - 1 /\ \A i \in 1 .. Len(t) : t[i] = s[i + 1]
<1>1. t \in Seq(S) /\ Len(s) \in Nat /\ Len(s) > 0
  OBVIOUS
<1>2. Len(t) = Len(s) - 1
  BY <1>1
<1>3. \A i \in 1 .. Len(s) - 1 : t[i] = s[i + 1]
  BY <1>1
<1> QED
  BY <1>1, <1>2, <1>3

\* One more copy of the message that is queued, none of another.
LEMMA CopiesQueued ==
  ASSUME queue \in Seq(Messages), NEW m \in Messages, QueueSafe(m), NEW x \in Messages, QueueCap \in Nat \ {0}
  PROVE  Copies(queue', x) <= IF x = m THEN Copies(queue, x) + 1 ELSE Copies(queue, x)
<1>0. \A s \in Seq(Messages) :
        /\ Append(s, m) \in Seq(Messages) /\ Len(Append(s, m)) = Len(s) + 1
        /\ Append(s, m)[Len(s) + 1] = m /\ \A i \in 1 .. Len(s) : Append(s, m)[i] = s[i]
  OBVIOUS
<1>1. ASSUME NEW s \in Seq(Messages), queue' = Append(s, m)
      PROVE  Copies(queue', x) = IF x = m THEN Copies(s, x) + 1 ELSE Copies(s, x)
  <2>1. PICK a \in Seq(Messages) :
          /\ queue' = a
          /\ Len(a) = Len(s) + 1 /\ a[Len(s) + 1] = m
          /\ \A i \in 1 .. Len(s) : a[i] = s[i]
    BY <1>0, <1>1, Zenon
  <2>2. Copies(a, x) = IF m = x THEN Copies(s, x) + 1 ELSE Copies(s, x)
    BY <2>1, CopiesAppend
  <2> QED
    BY <2>1, <2>2
<1>2. Copies(queue, x) \in Nat
  BY CopiesType
<1>3. CASE queue' = Append(queue, m)
  BY <1>1, <1>2, <1>3
<1>4. CASE queue # <<>> /\ queue' = Append(Tail(queue), m)
  <2>0. PICK t : t = Tail(queue)
    OBVIOUS
  <2>1. /\ queue' = Append(t, m) /\ t \in Seq(Messages)
        /\ Len(t) = Len(queue) - 1 /\ \A i \in 1 .. Len(t) : t[i] = queue[i + 1]
    BY <1>4, <2>0, TailPlaces
  <2>2. Copies(queue', x) = IF x = m THEN Copies(t, x) + 1 ELSE Copies(t, x)
    BY <1>1, <2>1
  <2>3. Copies(queue, x) = IF queue[1] = x THEN Copies(t, x) + 1 ELSE Copies(t, x)
    BY <1>4, <2>1, CopiesTail
  <2>4. Copies(t, x) \in Nat
    BY <2>1, CopiesType
  <2> QED
    BY <2>2, <2>3, <2>4
<1> QED
  BY <1>3, <1>4 DEF QueueSafe

\* The drain loop is done with one copy of the message it goes on from.
LEMMA CopiesTaken ==
  ASSUME drain.pending \in Seq(Messages), drain.pending # <<>>, NextMessage, NEW x \in Messages
  PROVE  Copies(drain.pending, x) =
           IF x = Message THEN Copies(drain'.pending, x) + 1 ELSE Copies(drain'.pending, x)
<1>0. PICK t : t = Tail(drain.pending)
  OBVIOUS
<1>1. /\ t = Tail(drain.pending) /\ t \in Seq(Messages) /\ Len(t) = Len(drain.pending) - 1
      /\ \A i \in 1 .. Len(t) : t[i] = drain.pending[i + 1]
  BY <1>0, TailPlaces
<1>2. Copies(drain.pending, x) = IF drain.pending[1] = x THEN Copies(t, x) + 1 ELSE Copies(t, x)
  <2>1. PICK s \in Seq(Messages) : s = drain.pending /\ s # <<>>
    OBVIOUS
  <2>2. Len(t) = Len(s) - 1 /\ \A i \in 1 .. Len(t) : t[i] = s[i + 1]
    BY <1>1, <2>1
  <2>3. Copies(s, x) = IF s[1] = x THEN Copies(t, x) + 1 ELSE Copies(t, x)
    <3>1. t \in Seq(Messages) /\ s \in Seq(Messages) /\ s # <<>>
      BY <1>1, <2>1
    <3> QED
      BY <2>2, <3>1, CopiesTail
  <2> QED
    BY <2>1, <2>3
<1>3. Message = drain.pending[1]
  BY DEF Message
<1>4. drain'.pending = t
  <2>1. CASE Len(drain.pending) > 1
    BY <1>1, <2>1 DEF NextMessage
  <2>2. CASE ~(Len(drain.pending) > 1)
    <3>1. Len(t) = 0
      <4>1. Len(drain.pending) \in Nat /\ Len(drain.pending) # 0 /\ Len(t) \in Nat
        BY <1>1
      <4>2. \A k, l \in Nat : l # 0 /\ ~(l > 1) /\ k = l - 1 => k = 0
        OBVIOUS
      <4> QED
        BY <1>1, <2>2, <4>1, <4>2, Zenon
    <3>2. t = <<>>
      BY <1>1, <3>1
    <3> QED
      BY <2>2, <3>2 DEF NextMessage, Asleep
  <2> QED
    BY <2>1, <2>2
<1> QED
  BY <1>2, <1>3, <1>4

\* The partners a task has still to try, all of them for a message to come.
Left(m) == IF dispatch[m].at = 0 THEN N ELSE N + 1 - dispatch[m].at

CopiesInv ==
  \A m \in Messages : Copies(queue, m) + Copies(drain.pending, m) + Left(m) <= N

\* A step of a task or of the drain loop that gives a message one copy takes one from
\* it, as an element of the drain loop's or as a partner of its task.
LEMMA CopiesStep ==
  ASSUME RelayInv, RelayInv', CopiesInv, [Next]_vars
  PROVE  CopiesInv'
<1>0. /\ queue \in Seq(Messages) /\ drain.pending \in Seq(Messages)
      /\ queue' \in Seq(Messages) /\ drain'.pending \in Seq(Messages)
      /\ N \in Nat \ {0} /\ QueueCap \in Nat \ {0}
      /\ \A x \in Messages : dispatch[x].at \in 0 .. N + 1 /\ dispatch'[x].at \in 0 .. N + 1
  BY RelayAssumption DEF RelayAssumption, RelayInv, TypeOK
<1>1. \A x \in Messages :
        /\ Copies(queue, x) \in Nat /\ Copies(drain.pending, x) \in Nat
        /\ Copies(queue', x) \in Nat /\ Copies(drain'.pending, x) \in Nat
        /\ Left(x) \in Nat /\ Left(x)' \in Nat
        /\ Copies(queue, x) + Copies(drain.pending, x) + Left(x) <= N
  <2> TAKE x \in Messages
  <2>1. Left(x) \in Nat
    <3>1. N \in Nat /\ dispatch[x].at \in 0 .. N + 1
      BY <1>0
    <3> QED
      BY <3>1 DEF Left
  <2>2. Left(x)' \in Nat
    <3>1. N \in Nat /\ dispatch'[x].at \in 0 .. N + 1
      BY <1>0
    <3> QED
      BY <3>1 DEF Left
  <2>3. /\ Copies(queue, x) \in Nat /\ Copies(drain.pending, x) \in Nat
        /\ Copies(queue', x) \in Nat /\ Copies(drain'.pending, x) \in Nat
    BY <1>0, CopiesType
  <2> QED
    BY <2>1, <2>2, <2>3 DEF CopiesInv
<1>2. ASSUME \A x \in Messages : Left(x)' <= Left(x), queue' = queue, drain'.pending = drain.pending
      PROVE  CopiesInv'
  BY <1>0, <1>1, <1>2 DEF CopiesInv
<1>3. ASSUME NEW m \in Messages, QueueSafe(m), drain'.pending = drain.pending,
             Left(m)' < Left(m), \A x \in Messages \ {m} : Left(x)' = Left(x)
      PROVE  CopiesInv'
  <2>1. ASSUME NEW x \in Messages
        PROVE  Copies(queue', x) <= IF x = m THEN Copies(queue, x) + 1 ELSE Copies(queue, x)
    BY <1>0, <1>3, CopiesQueued
  <2>2. ASSUME NEW x \in Messages
        PROVE  Copies(queue', x) + Copies(drain'.pending, x) + Left(x)' <= N
    <3>0. /\ N \in Nat /\ drain'.pending = drain.pending
          /\ Copies(queue, x) \in Nat /\ Copies(drain.pending, x) \in Nat
          /\ Copies(queue', x) \in Nat /\ Left(x) \in Nat /\ Left(x)' \in Nat
          /\ Copies(queue, x) + Copies(drain.pending, x) + Left(x) <= N
      BY <1>0, <1>1, <1>3
    <3>1. CASE x = m
      <4>1. Left(x)' < Left(x) /\ Copies(queue', x) <= Copies(queue, x) + 1
        BY <1>3, <2>1, <3>1
      <4> QED
        BY <3>0, <4>1
    <3>2. CASE x # m
      <4>1. Left(x)' = Left(x) /\ Copies(queue', x) <= Copies(queue, x)
        BY <1>3, <2>1, <3>2
      <4> QED
        BY <3>0, <4>1
    <3> QED
      BY <3>1, <3>2
  <2> QED
    BY <2>2 DEF CopiesInv
<1>4. ASSUME NEW m \in Messages, dispatch[m].at \in Partners,
             dispatch' = NextPartner(m) \/ dispatch' = [dispatch EXCEPT ![m] = [at |-> N + 1, posting |-> FALSE]]
      PROVE  Left(m)' < Left(m) /\ \A x \in Messages \ {m} : Left(x)' = Left(x)
  <2>1. /\ dispatch'[m].at > dispatch[m].at
        /\ \A x \in Messages \ {m} : dispatch'[x] = dispatch[x]
    <3>1. dispatch \in [Messages -> [at : 0 .. N + 1, posting : BOOLEAN]]
      BY DEF RelayInv, TypeOK
    <3>2. PICK r : /\ dispatch' = [dispatch EXCEPT ![m] = r]
                   /\ r = [at |-> dispatch[m].at + 1, posting |-> FALSE]
                      \/ r = [at |-> N + 1, posting |-> FALSE]
      BY <1>4 DEF NextPartner
    <3>3. r.at > dispatch[m].at
      BY <1>0, <1>4, <3>2 DEF Partners
    <3>4. dispatch' = [dispatch EXCEPT ![m] = r]
      BY <3>2
    <3> QED
      BY <3>1, <3>3, <3>4
  <2>2. Left(m)' < Left(m)
    <3>1. /\ N \in Nat /\ dispatch[m].at \in 1 .. N
          /\ dispatch'[m].at \in 0 .. N + 1 /\ dispatch'[m].at > dispatch[m].at
      BY <1>0, <1>4, <2>1 DEF Partners
    <3> QED
      BY <3>1 DEF Left
  <2>3. \A x \in Messages \ {m} : Left(x)' = Left(x)
    BY <2>1 DEF Left
  <2> QED
    BY <2>2, <2>3
<1>5. ASSUME dispatch' = dispatch PROVE \A x \in Messages : Left(x)' = Left(x)
  BY <1>5 DEF Left
<1>6. ASSUME NEW m \in Messages, Forward(m) PROVE CopiesInv'
  <2>0. /\ dispatch[m].at = 0 /\ dispatch'[m].at = 1
        /\ \A x \in Messages \ {m} : dispatch'[x] = dispatch[x]
    <3>1. dispatch \in [Messages -> [at : 0 .. N + 1, posting : BOOLEAN]]
      BY DEF RelayInv, TypeOK
    <3>2. dispatch' = [dispatch EXCEPT ![m].at = 1] /\ dispatch[m].at = 0
      BY <1>6 DEF Forward
    <3> QED
      BY <3>1, <3>2
  <2>1. ASSUME NEW x \in Messages PROVE Left(x)' <= Left(x)
    <3>1. CASE x = m
      <4>1. Left(x) = N /\ Left(x)' = N + 1 - 1 /\ N \in Nat
        BY <1>0, <2>0, <3>1 DEF Left
      <4> QED
        BY <4>1
    <3>2. CASE x # m
      <4>1. Left(x)' = Left(x) /\ Left(x) \in Nat
        BY <1>1, <2>0, <3>2 DEF Left
      <4> QED
        BY <4>1
    <3> QED
      BY <3>1, <3>2
  <2>2. queue' = queue /\ drain'.pending = drain.pending
    BY <1>6 DEF Forward
  <2> QED
    BY <1>2, <2>1, <2>2
<1>7. ASSUME NEW m \in Messages, DispatchTry(m) PROVE CopiesInv'
  <2>1. CASE dispatch' = [dispatch EXCEPT ![m].posting = TRUE] /\ UNCHANGED <<queue, evicted>>
    <3>1. \A x \in Messages : Left(x)' = Left(x)
      <4>1. dispatch \in [Messages -> [at : 0 .. N + 1, posting : BOOLEAN]]
        BY DEF RelayInv, TypeOK
      <4>2. \A x \in Messages : dispatch'[x].at = dispatch[x].at
        BY <2>1, <4>1
      <4> QED
        BY <4>2 DEF Left
    <3>2. \A x \in Messages : Left(x)' <= Left(x)
      BY <1>1, <3>1
    <3> QED
      BY <1>2, <1>7, <2>1, <3>2 DEF DispatchTry
  <2>2. CASE dispatch' = NextPartner(m) /\ QueueSafe(m)
    BY <1>3, <1>4, <1>7, <2>2 DEF DispatchTry
  <2> QED
    BY <1>7, <2>1, <2>2 DEF DispatchTry
<1>8. ASSUME NEW m \in Messages, DispatchAccepted(m) \/ DispatchFailed(m) PROVE CopiesInv'
  <2>1. dispatch[m].at \in Partners /\ drain' = drain
    BY <1>8 DEF DispatchAccepted, DispatchFailed, RelayInv
  <2>2. CASE QueueSafe(m) /\ dispatch' = NextPartner(m)
    BY <1>3, <1>4, <2>1, <2>2
  <2>3. CASE queue' = queue /\ (dispatch' = NextPartner(m)
                               \/ dispatch' = [dispatch EXCEPT ![m] = [at |-> N + 1, posting |-> FALSE]])
    <3>1. Left(m)' < Left(m) /\ \A x \in Messages \ {m} : Left(x)' = Left(x)
      BY <1>4, <2>1, <2>3
    <3>2. \A x \in Messages : Left(x)' <= Left(x)
      BY <1>1, <3>1
    <3> QED
      BY <1>2, <2>1, <2>3, <3>2
  <2> QED
    BY <1>8, <2>2, <2>3 DEF DispatchAccepted, DispatchFailed
<1>9. ASSUME DrainWakes PROVE CopiesInv'
  <2>1. /\ drain'.pending = queue /\ queue' = <<>> /\ drain.pending = <<>> /\ dispatch' = dispatch
    BY <1>9 DEF DrainWakes, RelayInv
  <2>2. \A x \in Messages : Copies(queue', x) = 0 /\ Copies(drain.pending, x) = 0
    BY <2>1, CopiesEmpty
  <2> QED
    BY <1>0, <1>1, <1>5, <2>1, <2>2 DEF CopiesInv
<1>10. ASSUME DrainTries PROVE CopiesInv'
  <2>1. drain'.pending = drain.pending /\ UNCHANGED <<queue, dispatch>>
    BY <1>10 DEF DrainTries, RelayInv, TypeOK
  <2> QED
    BY <1>1, <1>2, <1>5, <2>1
<1>11. ASSUME DrainRequeues \/ DrainAccepted PROVE CopiesInv'
  <2>1. drain.pending # <<>> /\ NextMessage /\ dispatch' = dispatch
    BY <1>11 DEF DrainRequeues, DrainAccepted, RelayInv
  <2>2. \A x \in Messages : Copies(drain.pending, x) =
          IF x = Message THEN Copies(drain'.pending, x) + 1 ELSE Copies(drain'.pending, x)
    BY <1>0, <2>1, CopiesTaken
  <2>3. \A x \in Messages : Copies(queue', x) <= IF x = Message THEN Copies(queue, x) + 1 ELSE Copies(queue, x)
    <3>1. CASE queue' = queue
      BY <1>1, <3>1
    <3>2. CASE QueueSafe(Message)
      <4>1. PICK m \in Messages : m = Message
        BY <1>0, <2>1 DEF Message
      <4>2. QueueSafe(m)
        BY <3>2, <4>1
      <4> QED
        BY <1>0, <4>1, <4>2, CopiesQueued
    <3> QED
      BY <1>11, <3>1, <3>2 DEF DrainRequeues, DrainAccepted
  <2>4. ASSUME NEW x \in Messages
        PROVE  Copies(queue', x) + Copies(drain'.pending, x) + Left(x)' <= N
    <3>1. Left(x)' = Left(x)
      BY <1>5, <2>1
    <3>2. CASE x = Message
      BY <1>0, <1>1, <2>2, <2>3, <3>1, <3>2
    <3>3. CASE x # Message
      BY <1>0, <1>1, <2>2, <2>3, <3>1, <3>3
    <3> QED
      BY <3>2, <3>3
  <2> QED
    BY <2>4 DEF CopiesInv
<1>12. ASSUME DrainFailed PROVE CopiesInv'
  <2>1. UNCHANGED <<queue, dispatch>>
    BY <1>12 DEF DrainFailed
  <2>2. CASE drain'.pending = drain.pending
    BY <1>1, <1>2, <1>5, <2>1, <2>2
  <2>3. CASE drain'.pending = <<>>
    <3>1. \A x \in Messages : Copies(drain'.pending, x) = 0
      BY <2>3, CopiesEmpty
    <3> QED
      BY <1>0, <1>1, <1>5, <2>1, <3>1 DEF CopiesInv
  <2> QED
    BY <1>12, <2>2, <2>3 DEF DrainFailed, RelayInv, TypeOK
<1>13. ASSUME UNCHANGED client PROVE CopiesInv'
  BY <1>1, <1>2, <1>5, <1>13 DEF client
<1>14. ASSUME \/ UNCHANGED vars
              \/ \E m \in Messages : GoesStale(m)
              \/ \E p \in Partners : BreakerExpires(p) \/ GoesDown(p) \/ ComesUp(p)
              \/ \E p \in Partners, m \in Messages : LateArrival(p, m) \/ NonceDropped(p, m)
       PROVE  CopiesInv'
  <2>1. UNCHANGED <<dispatch, queue, drain>>
    BY <1>14 DEF vars, client, GoesStale, BreakerExpires, GoesDown, ComesUp, LateArrival, NonceDropped
  <2> QED
    BY <1>1, <1>2, <1>5, <2>1
<1> QED
  BY <1>6, <1>7, <1>8, <1>9, <1>10, <1>11, <1>12, <1>14 DEF Next, DispatchStep, DrainStep

\* forward, the retries and the queue never multiply a message: whatever fails and
\* interleaves, there is at most one copy of it for each partner.
THEOREM RetriesNeverMultiply == Spec => []CopiesBounded
<1>1. Init => CopiesInv
  <2> SUFFICES ASSUME Init, NEW m \in Messages
               PROVE  Copies(queue, m) + Copies(drain.pending, m) + Left(m) <= N
    BY DEF CopiesInv
  <2>1. Copies(queue, m) = 0 /\ Copies(drain.pending, m) = 0 /\ Left(m) = N
    BY CopiesEmpty DEF Init, Asleep, Left, Forwarded
  <2> QED
    BY <2>1, RelayAssumption DEF RelayAssumption
<1>2. RelayInv /\ RelayInv' /\ CopiesInv /\ [Next]_vars => CopiesInv'
  BY CopiesStep
<1>3. RelayInv /\ CopiesInv => CopiesBounded
  <2> SUFFICES ASSUME RelayInv, CopiesInv, NEW m \in Messages
               PROVE  Copies(queue, m) + Copies(drain.pending, m)
                        + (IF Forwarded(m) THEN N + 1 - dispatch[m].at ELSE 0) <= N
    BY DEF CopiesBounded
  <2>1. Copies(queue, m) \in Nat /\ Copies(drain.pending, m) \in Nat /\ N \in Nat
    BY CopiesType, RelayAssumption DEF RelayInv, TypeOK, RelayAssumption
  <2>2. dispatch[m].at \in 0 .. N + 1
    BY DEF RelayInv, TypeOK
  <2>3. Copies(queue, m) + Copies(drain.pending, m) + Left(m) <= N
    BY DEF CopiesInv
  <2>4. /\ Forwarded(m) => Left(m) = N + 1 - dispatch[m].at
        /\ ~Forwarded(m) => Left(m) = N
    BY <2>2 DEF Left, Forwarded
  <2>5. CASE Forwarded(m)
    BY <2>3, <2>4, <2>5
  <2>6. CASE ~Forwarded(m)
    BY <2>1, <2>3, <2>4, <2>6
  <2> QED
    BY <2>5, <2>6
<1> QED
  BY <1>1, <1>2, <1>3, RelayInvariant, PTL DEF Spec
=============================================================================
