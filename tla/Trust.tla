------------------------------- MODULE Trust -------------------------------
(***************************************************************************)
(* TrustManager (collab/trust.py): which signed envelopes a node accepts.  *)
(*                                                                         *)
(* An envelope is its nonce and its timestamp; signature, fields, op and   *)
(* payload are those of a well-signed message (verify refuses the others   *)
(* before it touches a nonce).  The same envelope may be delivered again   *)
(* at any time.  Time is the wall clock, time.time(): it may be set back.  *)
(*                                                                         *)
(* A timestamp is what timestamp_seconds makes of the message's "ts": a    *)
(* number, an ISO time or a string for float().  It can be NaN, of which   *)
(* every comparison is false.                                              *)
(***************************************************************************)
EXTENDS Integers, FiniteSets

CONSTANTS
  Nonces,
  NaN,          \* the timestamp float("nan")
  Window,       \* replay_window, 30 seconds
  NonceLimit,   \* nonce_limit, 10 000
  MaxTime,      \* bound: the last instant
  MaxBack,      \* how far behind its own maximum the clock may be set
  MaxEnvelopes, \* bound: different envelopes accepted
  MaxFaults     \* bound: restarts and failed writes

\* Nonces are kept for 4 windows and accepted for one: the clock may be set back by the
\* three in between.
ASSUME TrustAssumption ==
  /\ NaN \notin Int
  /\ Window \in Nat /\ NonceLimit \in Nat
  /\ MaxTime \in Nat /\ MaxEnvelopes \in Nat /\ MaxFaults \in Nat
  /\ MaxBack \in Nat /\ MaxBack <= 3 * Window

Envelopes == [nonce : Nonces, ts : (0 .. MaxTime) \cup {NaN}]

VARIABLES
  now,        \* time.time()
  highest,    \* history: the latest instant the clock has shown
  nonces,     \* self._nonces: the envelopes whose nonce is remembered
  file,       \* .auth/nonces
  pending,    \* the envelope verify is saving the nonce of; {} between calls
  accepted,   \* history: envelopes verified
  replayed,   \* history: envelopes verified more than once
  evicted,    \* history: nonces dropped because of NonceLimit
  faults

vars == <<now, highest, nonces, file, pending, accepted, replayed, evicted, faults>>

Init ==
  /\ now = 0 /\ highest = 0
  /\ nonces = {} /\ file = {} /\ pending = {}
  /\ accepted = {} /\ replayed = {} /\ evicted = {}
  /\ faults = 0

\* abs(now - ts) > Window is what verify refuses: false of NaN.
Fresh(e) == e.ts # NaN => now - e.ts <= Window /\ e.ts - now <= Window

Known(e) == \E r \in nonces : r.nonce = e.nonce

\* verify up to _remember_nonce: a stale timestamp and a known nonce are refused
\* without a change; else the nonce is remembered in memory, to be saved.
Verify(e) ==
  /\ pending = {}
  /\ e \in accepted \/ Cardinality(accepted) < MaxEnvelopes
  /\ Fresh(e) /\ ~Known(e)
  /\ nonces' = nonces \cup {e}
  /\ pending' = {e}
  /\ UNCHANGED <<now, highest, file, accepted, replayed, evicted, faults>>

\* Mutant: nonces are kept as long as a timestamp is fresh.
Unexpired_OneWindow == {r \in nonces : r.ts # NaN /\ now - r.ts <= Window}

\* _save_nonces: what the pruning by age keeps, now - ts <= 4 * Window: false of NaN.
Unexpired == {r \in nonces : r.ts # NaN /\ now - r.ts <= 4 * Window}

\* What the limit keeps of them: the newest timestamps, whichever of equal ones.
KeptByLimit(kept) ==
  IF Cardinality(Unexpired) <= NonceLimit
  THEN kept = Unexpired
  ELSE /\ Cardinality(kept) = NonceLimit
       /\ \A k \in kept, d \in Unexpired \ kept : k.ts >= d.ts

\* Mutant: the file is written as it was before the new nonce.
SaveNonces_OldFile ==
  \E kept \in SUBSET Unexpired :
    /\ pending # {}
    /\ KeptByLimit(kept)
    /\ nonces' = kept
    /\ file' = kept \ pending
    /\ evicted' = evicted \cup {r.nonce : r \in Unexpired \ kept}
    /\ replayed' = replayed \cup (accepted \cap pending)
    /\ accepted' = accepted \cup pending
    /\ pending' = {}
    /\ UNCHANGED <<now, highest, faults>>

\* _save_nonces, and verify's answer: the nonce counts from the replaced file on.
SaveNonces ==
  \E kept \in SUBSET Unexpired :
    /\ pending # {}
    /\ KeptByLimit(kept)
    /\ nonces' = kept /\ file' = kept
    /\ evicted' = evicted \cup {r.nonce : r \in Unexpired \ kept}
    /\ replayed' = replayed \cup (accepted \cap pending)
    /\ accepted' = accepted \cup pending
    /\ pending' = {}
    /\ UNCHANGED <<now, highest, faults>>

\* A write raises OSError: memory is pruned and verify does not return; the file is
\* replaced only if it is the chmod after the replacement that raises.
SaveFails ==
  \E kept \in SUBSET Unexpired :
    /\ pending # {} /\ faults < MaxFaults
    /\ KeptByLimit(kept)
    /\ nonces' = kept /\ file' \in {file, kept}
    /\ evicted' = evicted \cup {r.nonce : r \in Unexpired \ kept}
    /\ pending' = {}
    /\ faults' = faults + 1
    /\ UNCHANGED <<now, highest, accepted, replayed>>

\* The process dies and starts again: _load_nonces.
Restart ==
  /\ faults < MaxFaults
  /\ nonces' = file
  /\ pending' = {}
  /\ faults' = faults + 1
  /\ UNCHANGED <<now, highest, file, accepted, replayed, evicted>>

\* The wall clock goes on, or is set back, between any two steps.
Tick ==
  \E t \in 0 .. MaxTime :
    /\ t > now \/ (t < now /\ highest - t <= MaxBack)
    /\ now' = t
    /\ highest' = IF t > highest THEN t ELSE highest
    /\ UNCHANGED <<nonces, file, pending, accepted, replayed, evicted, faults>>

Next ==
  \/ \E e \in Envelopes : Verify(e)
  \/ SaveNonces \/ SaveFails \/ Restart \/ Tick

Spec == Init /\ [][Next]_vars

-----------------------------------------------------------------------------
\* The types of the trust manager's state.
TypeOK ==
  /\ now \in 0 .. MaxTime /\ highest \in 0 .. MaxTime
  /\ nonces \subseteq Envelopes /\ file \subseteq Envelopes
  /\ pending \subseteq Envelopes
  /\ accepted \subseteq Envelopes /\ replayed \subseteq Envelopes
  /\ evicted \subseteq Nonces
  /\ faults \in 0 .. MaxFaults

\* What the store does not protect: a nonce that nonce_limit dropped, and an envelope
\* whose timestamp is NaN, fresh whenever it comes and pruned before it is saved.
Repeatable(e) == e.ts = NaN \/ e.nonce \in evicted

\* verify accepts an envelope once, however often it is delivered, across restarts,
\* failed saves and a clock set back by up to three windows, except for a nonce that
\* nonce_limit dropped and a timestamp of NaN, which it accepts on every delivery.
NoReplay == \A e \in replayed : Repeatable(e)

\* Why: an accepted envelope is remembered, in memory and in the file, until its
\* timestamp is four windows behind the latest instant the clock has shown.
Remembered(e, store) == Repeatable(e) \/ e \in store \/ highest - e.ts > 4 * Window

\* The envelope being verified is remembered, and was not accepted before.
PendingKnown ==
  /\ pending \subseteq nonces
  /\ \A e \in pending \cap accepted : Repeatable(e)

TrustInv ==
  /\ TypeOK
  /\ now <= highest /\ highest - now <= MaxBack
  /\ \A e \in accepted : Remembered(e, nonces) /\ Remembered(e, file)
  /\ PendingKnown
  /\ NoReplay
=============================================================================
