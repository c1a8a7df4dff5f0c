----------------------------- MODULE RateLimit -----------------------------
(***************************************************************************)
(* SQLiteRateLimiter (collab/ratelimit.py): hits of the last WindowSeconds  *)
(* of time, in one SQLite file shared by processes and threads.  check()   *)
(* reads the clock first and then waits for the database's write lock      *)
(* (busy_timeout): by the time it counts and inserts, its now is old, and  *)
(* another process may have removed hits with a newer one.                 *)
(***************************************************************************)
EXTENDS Naturals, FiniteSets

CONSTANTS
  Callers,   \* threads and processes that may be in check() at once
  Buckets,
  Limit,
  WindowSeconds,
  Lag,       \* bound of the time between the clock and the lock
  MaxClock,  \* bound of the model: the clock stops
  NoCall

ASSUME RateAssumption ==
  /\ Limit \in Nat \ {0} /\ WindowSeconds \in Nat \ {0}
  /\ Lag \in Nat /\ Lag <= WindowSeconds
  /\ MaxClock \in Nat
  /\ NoCall \notin [bucket : Buckets, now : Nat]

VARIABLES
  clock,     \* time.time()
  call,      \* of each caller: the bucket and the time it has read, until it ends
  rows,      \* rate_hits, each hit with a rowid
  admitted,  \* history: every hit ever allowed, with the time it really was
  early      \* history: whether the last refusal came with fewer than Limit hits
             \* in the window before it

rate_vars == <<clock, call, rows, admitted, early>>

Hit == [id : Nat, bucket : Buckets, at : Nat]
Admission == [id : Nat, bucket : Buckets, at : Nat, real : Nat]

RateInit ==
  /\ clock = 0
  /\ call = [c \in Callers |-> NoCall]
  /\ rows = {} /\ admitted = {}
  /\ early = FALSE

ReadsClock(c, b) ==
  /\ call[c] = NoCall
  /\ call' = [call EXCEPT ![c] = [bucket |-> b, now |-> clock]]
  /\ UNCHANGED <<clock, rows, admitted, early>>

\* Mutant: a hit exactly as old as the window is removed.
Expired_AtWindow(r, now) == r.at + WindowSeconds <= now

\* DELETE FROM rate_hits WHERE hit_at < now - window_seconds.
Expired(r, now) == r.at + WindowSeconds < now

In(hits, b) == {r \in hits : r.bucket = b}

\* Mutant: hits are not removed, and counted for ever.
Kept_All(now) == rows

Kept(now) == {r \in rows : ~Expired(r, now)}

\* Hits really allowed in the window that ends with now, and since.
Recent(b, now) == {h \in In(admitted, b) : h.real + WindowSeconds >= now}

\* Mutant: the count does not see what was inserted while the caller waited.
Check_CountsOld(c) ==
  LET b == call[c].bucket
      now == call[c].now
      id == Cardinality(admitted)
  IN
  /\ call[c] # NoCall
  /\ Cardinality({r \in In(Kept(now), b) : r.at < now}) < Limit
  /\ rows' = Kept(now) \cup {[id |-> id, bucket |-> b, at |-> now]}
  /\ admitted' = admitted \cup {[id |-> id, bucket |-> b, at |-> now, real |-> clock]}
  /\ UNCHANGED early
  /\ call' = [call EXCEPT ![c] = NoCall]
  /\ UNCHANGED clock

\* The transaction, BEGIN IMMEDIATE to commit.
Check(c) ==
  LET b == call[c].bucket
      now == call[c].now
      id == Cardinality(admitted)
  IN
  /\ call[c] # NoCall
  /\ \/ /\ Cardinality(In(Kept(now), b)) >= Limit
        /\ rows' = Kept(now)
        /\ early' = (Cardinality(Recent(b, now)) < Limit)
        /\ UNCHANGED admitted
     \/ /\ Cardinality(In(Kept(now), b)) < Limit
        /\ rows' = Kept(now) \cup {[id |-> id, bucket |-> b, at |-> now]}
        /\ admitted' = admitted \cup {[id |-> id, bucket |-> b, at |-> now, real |-> clock]}
        /\ UNCHANGED early
  /\ call' = [call EXCEPT ![c] = NoCall]
  /\ UNCHANGED clock

\* OperationalError: the database stayed locked for busy_timeout.
GivesUp(c) ==
  /\ call[c] # NoCall
  /\ call' = [call EXCEPT ![c] = NoCall]
  /\ UNCHANGED <<clock, rows, admitted, early>>

\* No caller waits longer than Lag.
RateTick ==
  /\ clock < MaxClock
  /\ \A c \in Callers : call[c] # NoCall => clock < call[c].now + Lag
  /\ clock' = clock + 1
  /\ UNCHANGED <<call, rows, admitted, early>>

RateNext ==
  \/ \E c \in Callers, b \in Buckets : ReadsClock(c, b)
  \/ \E c \in Callers : Check(c) \/ GivesUp(c)
  \/ RateTick

RateSpec == RateInit /\ [][RateNext]_rate_vars

-----------------------------------------------------------------------------
(* Properties.                                                             *)

RateTypeOK ==
  /\ clock \in Nat
  /\ call \in [Callers -> [bucket : Buckets, now : Nat] \cup {NoCall}]
  /\ rows \subseteq Hit /\ IsFiniteSet(rows)
  /\ admitted \subseteq Admission /\ IsFiniteSet(admitted)
  /\ early \in BOOLEAN

\* Of a bucket no more than Limit hits are really allowed in any
\* WindowSeconds - Lag units of time, both ends included, whoever waits for the lock and whoever removes hits
\* with a newer clock meanwhile.
WindowLimit ==
  \A b \in Buckets :
    Cardinality({h \in In(admitted, b) : h.real + (WindowSeconds - Lag) >= clock}) <= Limit

\* A request is only refused when Limit hits were really allowed in the window
\* before it.
NoEarlyRefusal == ~early

\* Every hit in the database was allowed, by a call whose clock was at most Lag old,
\* and every hit younger than the window is still there.
RateInv ==
  /\ RateTypeOK
  /\ \A c \in Callers : call[c] # NoCall =>
       call[c].now <= clock /\ clock <= call[c].now + Lag
  /\ \A r \in rows : \E h \in admitted : h.id = r.id /\ h.bucket = r.bucket /\ h.at = r.at
  /\ \A h \in admitted :
       /\ h.id < Cardinality(admitted)
       /\ h.at <= h.real /\ h.real <= h.at + Lag /\ h.real <= clock
       /\ h.at + WindowSeconds >= clock => [id |-> h.id, bucket |-> h.bucket, at |-> h.at] \in rows
  /\ \A h1, h2 \in admitted : h1.id = h2.id => h1 = h2
  /\ \A b \in Buckets : Cardinality(In(rows, b)) <= Limit
  /\ NoEarlyRefusal
=============================================================================
