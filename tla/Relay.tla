------------------------------- MODULE Relay -------------------------------
(***************************************************************************)
(* RelayClient (collab/relay.py): events forwarded to the partners over    *)
(* HTTP.  One task per forwarded message tries every partner in turn       *)
(* (_dispatch_async); what a partner does not take goes to one queue,      *)
(* which the drain loop retries.  The tasks share an event loop: they      *)
(* interleave only where they await the answer to a POST.                  *)
(*                                                                         *)
(* Time is not counted: an open breaker may close, and a message outlive   *)
(* the 30 seconds a partner's verify allows its timestamp, at any point.   *)
(* A partner is its POST /api/relay: it takes a message whose timestamp is *)
(* fresh and whose nonce it does not know, and from then on it knows the   *)
(* nonce, whether or not it then records the event.                        *)
(***************************************************************************)
EXTENDS Naturals, Sequences, FiniteSets

CONSTANTS
  Messages,    \* messages that may be forwarded, each with its nonce
  N,           \* number of partners, in the order they are tried
  QueueCap,    \* max_queue, 500
  MaxRetry,    \* max_retry, 3
  FloatLimit,  \* 1024: 2 ** FloatLimit does not convert to a float
  MaxFaults    \* bound: lost or late answers, refusals, outages, messages gone stale,
               \* nonces dropped

ASSUME RelayAssumption ==
  /\ N \in Nat \ {0} /\ QueueCap \in Nat \ {0} /\ MaxRetry \in Nat \ {0}
  /\ FloatLimit \in Nat /\ MaxFaults \in Nat

Partners == 1 .. N

VARIABLES
  dispatch,   \* the task of each message: partner it is at (0: not forwarded
              \* yet, N + 1: ended) and whether it awaits that partner's answer
  queue,      \* self._queue
  drain,      \* the drain loop: phase, messages taken, partner it is at
  fails,      \* self._failure: consecutive failures
  open,       \* self._failure: whether breaker_until is still to come
  up,         \* partners that can be reached
  seen,       \* messages whose nonce each partner knows
  applied,    \* messages each partner has applied
  wire,       \* messages on their way to a partner after their sender gave up
  stale,      \* messages whose timestamp no partner accepts any more
  evicted,    \* history: messages of which a queued copy was popped at the cap
  burnt,      \* history: messages dropped by an exception nobody catches
  faults

client == <<dispatch, queue, drain, fails, open, evicted, burnt>>
network == <<up, seen, applied, wire, stale, faults>>
vars == <<dispatch, queue, drain, fails, open, up, seen, applied, wire, stale,
          evicted, burnt, faults>>

Asleep == [ph |-> "sleep", pending |-> <<>>, at |-> 1]

Init ==
  /\ dispatch = [m \in Messages |-> [at |-> 0, posting |-> FALSE]]
  /\ queue = <<>> /\ drain = Asleep
  /\ fails = [p \in Partners |-> 0]
  /\ open = [p \in Partners |-> FALSE]
  /\ up = [p \in Partners |-> TRUE]
  /\ seen = [p \in Partners |-> {}] /\ applied = [p \in Partners |-> {}]
  /\ wire = [p \in Partners |-> {}]
  /\ stale = {} /\ evicted = {} /\ burnt = {}
  /\ faults = 0

-----------------------------------------------------------------------------
(* The breaker and the queue.                                              *)

\* Mutant: a breaker that has tripped stays open until a success.
Available_NeverHalfOpen(p) == fails[p] < MaxRetry

Available(p) == fails[p] < MaxRetry \/ ~open[p]

MarkOk(p) ==
  /\ fails' = [fails EXCEPT ![p] = 0]
  /\ open' = [open EXCEPT ![p] = FALSE]

\* The backoff of the next failure, base * (2 ** (fails - max_retry)), does not
\* fit a float: _mark_fail raises OverflowError and changes nothing.
Overflows(p) == fails[p] + 1 >= MaxRetry + FloatLimit

MarkFail(p) ==
  /\ ~Overflows(p)
  /\ fails' = [fails EXCEPT ![p] = @ + 1]
  /\ open' = [open EXCEPT ![p] = fails[p] + 1 >= MaxRetry]

\* Mutant: the queue grows without a limit.
QueueSafe_NoCap(m) ==
  /\ queue' = Append(queue, m)
  /\ UNCHANGED evicted

QueueSafe(m) ==
  \/ /\ Len(queue) < QueueCap
     /\ queue' = Append(queue, m)
     /\ UNCHANGED evicted
  \/ /\ Len(queue) >= QueueCap
     /\ queue' = Append(Tail(queue), m)
     /\ evicted' = evicted \cup {Head(queue)}

BreakerExpires(p) ==
  /\ open[p]
  /\ open' = [open EXCEPT ![p] = FALSE]
  /\ UNCHANGED <<dispatch, queue, drain, fails, evicted, burnt, network>>

-----------------------------------------------------------------------------
(* The partner's side of a POST.                                           *)

\* verify: a timestamp that is stale and a nonce that is known are refused.
Acceptable(p, m) == m \notin stale /\ m \notin seen[p]

\* verify remembers the nonce, append_event records the event.
Applies(p, m) ==
  /\ seen' = [seen EXCEPT ![p] = @ \cup {m}]
  /\ applied' = [applied EXCEPT ![p] = @ \cup {m}]

\* append_event refuses, fails or is cut short, after verify: the nonce is spent.
Spends(p, m) ==
  /\ seen' = [seen EXCEPT ![p] = @ \cup {m}]
  /\ UNCHANGED applied

Accepts(p, m) ==
  /\ up[p] /\ Acceptable(p, m)
  /\ Applies(p, m)
  /\ UNCHANGED <<up, wire, stale, faults>>

\* Not 2xx, or no answer: the partner is down, it refuses the message (403), it
\* refuses before verify (429) or after it (503), its answer is lost, or the
\* request reaches it only later.
Fails(p, m) ==
  /\ \/ /\ ~(up[p] /\ Acceptable(p, m))
        /\ UNCHANGED <<seen, applied, wire, faults>>
     \/ /\ up[p] /\ Acceptable(p, m) /\ faults < MaxFaults
        /\ faults' = faults + 1
        /\ \/ UNCHANGED <<seen, applied, wire>>
           \/ Spends(p, m) /\ UNCHANGED wire
           \/ Applies(p, m) /\ UNCHANGED wire
           \/ wire' = [wire EXCEPT ![p] = @ \cup {m}] /\ UNCHANGED <<seen, applied>>
  /\ UNCHANGED <<up, stale>>

LateArrival(p, m) ==
  /\ m \in wire[p]
  /\ wire' = [wire EXCEPT ![p] = @ \ {m}]
  /\ \/ up[p] /\ Acceptable(p, m) /\ Applies(p, m) /\ UNCHANGED faults
     \/ /\ up[p] /\ Acceptable(p, m) /\ faults < MaxFaults
        /\ Spends(p, m)
        /\ faults' = faults + 1
     \/ ~(up[p] /\ Acceptable(p, m)) /\ UNCHANGED <<seen, applied, faults>>
  /\ UNCHANGED <<client, up, stale>>

\* nonce_limit: the partner drops the nonce, and takes the message once more.
NonceDropped(p, m) ==
  /\ m \in seen[p] /\ faults < MaxFaults
  /\ seen' = [seen EXCEPT ![p] = @ \ {m}]
  /\ faults' = faults + 1
  /\ UNCHANGED <<client, up, applied, wire, stale>>

GoesDown(p) ==
  /\ up[p] /\ faults < MaxFaults
  /\ up' = [up EXCEPT ![p] = FALSE]
  /\ faults' = faults + 1
  /\ UNCHANGED <<client, seen, applied, wire, stale>>

ComesUp(p) ==
  /\ ~up[p]
  /\ up' = [up EXCEPT ![p] = TRUE]
  /\ UNCHANGED <<client, seen, applied, wire, stale, faults>>

GoesStale(m) ==
  /\ dispatch[m].at > 0 /\ m \notin stale /\ faults < MaxFaults
  /\ stale' = stale \cup {m}
  /\ faults' = faults + 1
  /\ UNCHANGED <<client, up, seen, applied, wire>>

-----------------------------------------------------------------------------
(* forward and _dispatch_async.                                            *)

Forward(m) ==
  /\ dispatch[m].at = 0
  /\ dispatch' = [dispatch EXCEPT ![m].at = 1]
  /\ UNCHANGED <<queue, drain, fails, open, evicted, burnt, network>>

NextPartner(m) == [dispatch EXCEPT ![m] = [at |-> @.at + 1, posting |-> FALSE]]

\* The task goes to its next partner: it POSTs, or queues without asking.
DispatchTry(m) ==
  LET p == dispatch[m].at IN
  /\ p \in Partners /\ ~dispatch[m].posting
  /\ \/ /\ Available(p)
        /\ dispatch' = [dispatch EXCEPT ![m].posting = TRUE]
        /\ UNCHANGED <<queue, evicted>>
     \/ /\ ~Available(p)
        /\ dispatch' = NextPartner(m)
        /\ QueueSafe(m)
  /\ UNCHANGED <<drain, fails, open, burnt, network>>

DispatchAccepted(m) ==
  LET p == dispatch[m].at IN
  /\ dispatch[m].posting
  /\ Accepts(p, m)
  /\ MarkOk(p)
  /\ dispatch' = NextPartner(m)
  /\ UNCHANGED <<queue, drain, evicted, burnt>>

\* Mutant: a message that the partner did not take is not queued.
DispatchFailed_NotQueued(m) ==
  LET p == dispatch[m].at IN
  /\ dispatch[m].posting
  /\ Fails(p, m)
  /\ MarkFail(p)
  /\ dispatch' = NextPartner(m)
  /\ UNCHANGED <<queue, evicted, burnt, drain>>

\* OverflowError is none of the exceptions _dispatch_async catches: the task ends.
DispatchFailed(m) ==
  LET p == dispatch[m].at IN
  /\ dispatch[m].posting
  /\ Fails(p, m)
  /\ \/ /\ MarkFail(p)
        /\ dispatch' = NextPartner(m)
        /\ QueueSafe(m)
        /\ UNCHANGED burnt
     \/ /\ Overflows(p)
        /\ dispatch' = [dispatch EXCEPT ![m] = [at |-> N + 1, posting |-> FALSE]]
        /\ burnt' = burnt \cup {m}
        /\ UNCHANGED <<queue, fails, open, evicted>>
  /\ UNCHANGED drain

-----------------------------------------------------------------------------
(* drain_loop.                                                             *)

DrainWakes ==
  /\ drain.ph = "sleep" /\ queue # <<>>
  /\ drain' = [ph |-> "scan", pending |-> queue, at |-> 1]
  /\ queue' = <<>>
  /\ UNCHANGED <<dispatch, fails, open, evicted, burnt, network>>

Message == Head(drain.pending)

\* On to the next message taken, or back to sleep after the last.
NextMessage ==
  drain' = IF Len(drain.pending) > 1
           THEN [ph |-> "scan", pending |-> Tail(drain.pending), at |-> 1]
           ELSE Asleep

\* No partner left to try for this message.
DrainRequeues ==
  /\ drain.ph = "scan"
  /\ \A q \in drain.at .. N : ~Available(q)
  /\ QueueSafe(Message)
  /\ NextMessage
  /\ UNCHANGED <<dispatch, fails, open, burnt, network>>

DrainTries ==
  /\ drain.ph = "scan"
  /\ \E p \in drain.at .. N :
       /\ Available(p) /\ \A q \in drain.at .. p - 1 : ~Available(q)
       /\ drain' = [drain EXCEPT !.ph = "post", !.at = p]
  /\ UNCHANGED <<dispatch, queue, fails, open, evicted, burnt, network>>

\* One partner took it: the loop breaks, whichever partner it was queued for.
DrainAccepted ==
  /\ drain.ph = "post"
  /\ Accepts(drain.at, Message)
  /\ MarkOk(drain.at)
  /\ NextMessage
  /\ UNCHANGED <<dispatch, queue, evicted, burnt>>

\* Mutant: a failed retry is queued at once, and again after the last partner.
DrainFailed_QueuesAtOnce ==
  /\ drain.ph = "post"
  /\ Fails(drain.at, Message)
  /\ MarkFail(drain.at)
  /\ drain' = [drain EXCEPT !.ph = "scan", !.at = @ + 1]
  /\ QueueSafe(Message)
  /\ UNCHANGED <<dispatch, burnt>>

\* OverflowError ends the loop, with the messages it had taken.
DrainFailed ==
  /\ drain.ph = "post"
  /\ Fails(drain.at, Message)
  /\ \/ /\ MarkFail(drain.at)
        /\ drain' = [drain EXCEPT !.ph = "scan", !.at = @ + 1]
        /\ UNCHANGED burnt
     \/ /\ Overflows(drain.at)
        /\ drain' = [drain EXCEPT !.ph = "dead", !.pending = <<>>]
        /\ burnt' = burnt \cup {drain.pending[i] : i \in DOMAIN drain.pending}
        /\ UNCHANGED <<fails, open>>
  /\ UNCHANGED <<dispatch, queue, evicted>>

-----------------------------------------------------------------------------
DispatchStep(m) == DispatchTry(m) \/ DispatchAccepted(m) \/ DispatchFailed(m)
DrainStep == DrainWakes \/ DrainRequeues \/ DrainTries \/ DrainAccepted \/ DrainFailed

Next ==
  \/ \E m \in Messages : Forward(m) \/ DispatchStep(m) \/ GoesStale(m)
  \/ DrainStep
  \/ \E p \in Partners : BreakerExpires(p) \/ GoesDown(p) \/ ComesUp(p)
  \/ \E p \in Partners, m \in Messages : LateArrival(p, m) \/ NonceDropped(p, m)

Spec == Init /\ [][Next]_vars

\* The event loop runs every task that is not waiting, every POST ends (it has a
\* timeout), the interval and the backoffs pass, and an outage ends.
Fairness ==
  /\ \A m \in Messages : WF_vars(DispatchStep(m))
  /\ WF_vars(DrainStep)
  /\ \A p \in Partners : WF_vars(BreakerExpires(p)) /\ WF_vars(ComesUp(p))

FairSpec == Spec /\ Fairness

-----------------------------------------------------------------------------
(* Properties.                                                             *)

\* The types of the client's and the partners' state; the queue holds at most
\* QueueCap messages, whichever tasks append to it.
TypeOK ==
  /\ dispatch \in [Messages -> [at : 0 .. N + 1, posting : BOOLEAN]]
  /\ queue \in Seq(Messages) /\ Len(queue) <= QueueCap
  /\ drain \in [ph : {"sleep", "scan", "post", "dead"}, pending : Seq(Messages), at : 1 .. N + 1]
  /\ fails \in [Partners -> 0 .. MaxRetry + FloatLimit]
  /\ open \in [Partners -> BOOLEAN] /\ up \in [Partners -> BOOLEAN]
  /\ seen \in [Partners -> SUBSET Messages] /\ applied \in [Partners -> SUBSET Messages]
  /\ wire \in [Partners -> SUBSET Messages]
  /\ stale \subseteq Messages /\ evicted \subseteq Messages /\ burnt \subseteq Messages
  /\ faults \in 0 .. MaxFaults

Forwarded(m) == dispatch[m].at > 0
Dispatching(m) == dispatch[m].at \in Partners
Queued(m) == \E i \in 1 .. Len(queue) : queue[i] = m
Draining(m) == \E i \in 1 .. Len(drain.pending) : drain.pending[i] = m
AppliedSomewhere(m) == \E p \in Partners : m \in applied[p]

\* A forwarded message is never just forgotten: a task or the queue still has
\* it, or a partner applied it, or the cap of the queue or an exception took it.
NeverForgotten ==
  \A m \in Messages :
    Forwarded(m) => Dispatching(m) \/ Queued(m) \/ Draining(m)
                    \/ AppliedSomewhere(m) \/ m \in evicted \/ m \in burnt

\* Retries never multiply a message: the copies of it that are queued or taken
\* by the drain loop, and the partners its task has still to try, are at most
\* one per partner.
Copies(seq, m) == Cardinality({i \in 1 .. Len(seq) : seq[i] = m})
CopiesBounded ==
  \A m \in Messages :
    Copies(queue, m) + Copies(drain.pending, m)
      + (IF Forwarded(m) THEN N + 1 - dispatch[m].at ELSE 0) <= N

\* "no verified event is permanently lost" (drain_loop): a partner the task has
\* been at has applied the message, or the queue still has it for the partner.
NoVerifiedEventLost ==
  \A m \in Messages, p \in Partners :
    dispatch[m].at > p => \/ m \in applied[p]
                          \/ Queued(m) \/ Draining(m) \/ m \in evicted

Refused(m) == \A p \in Partners : ~Acceptable(p, m)

\* "it is delivered once the partner is reachable again" (drain_loop), as far as it is
\* true, and of some partner: a forwarded message is applied in the end, in spite of
\* outages, tripped breakers and messages that are refused whenever they are retried.
\* The exceptions: every partner refuses it, being stale or its nonce spent on an event
\* that was not recorded; the cap or an exception takes it; or an exception ended the
\* drain loop, which the retries of a message refused everywhere lead to.
DeliveredUnlessRefused ==
  []<>(\A m \in Messages :
         Forwarded(m) => \/ AppliedSomewhere(m) \/ Refused(m)
                         \/ m \in evicted \/ m \in burnt \/ drain.ph = "dead")
-----------------------------------------------------------------------------
(* The inductive invariant behind the theorems of RelayProofs.             *)

\* Where a message is once a partner has been tried for it.
Kept(m) == Queued(m) \/ Draining(m) \/ AppliedSomewhere(m) \/ m \in evicted \/ m \in burnt

\* The drain loop has a message while it works, and a partner while it posts; so
\* has a task.  NeverForgotten says nothing of a message between two partners of
\* its task, where it must be kept too.
RelayInv ==
  /\ TypeOK
  /\ drain.ph \in {"scan", "post"} <=> drain.pending # <<>>
  /\ drain.ph = "post" => drain.at \in Partners
  /\ \A m \in Messages : dispatch[m].posting => dispatch[m].at \in Partners
  /\ \A p \in Partners : fails[p] < MaxRetry + FloatLimit
  /\ \A m \in Messages : dispatch[m].at > 1 => Kept(m)
=============================================================================
