----------------------------- MODULE DoorProofs -----------------------------
(***************************************************************************)
(* Proofs about the two checks a signed request passes at the HTTP doors   *)
(* of a node (server.py api_relay): the rate limiter (RateSpec), for any   *)
(* callers, buckets, limit, window and lag, and the trust manager (Spec),  *)
(* for any replay window, nonce limit and clock that is not set back by    *)
(* more than three windows.                                                *)
(***************************************************************************)
EXTENDS RateLimit, Trust, FiniteSetTheorems, TLAPS

-----------------------------------------------------------------------------
(* RateLimit.                                                              *)

RowOf(h) == [id |-> h.id, bucket |-> h.bucket, at |-> h.at]

\* The hits of a bucket are no more than those of a finite set they are part of.
LEMMA InFinite ==
  ASSUME NEW S, IsFiniteSet(S), NEW b, NEW T, T \subseteq S
  PROVE  /\ IsFiniteSet(In(T, b)) /\ Cardinality(In(T, b)) \in Nat
         /\ Cardinality(In(T, b)) <= Cardinality(In(S, b))
<1>1. In(S, b) \subseteq S /\ In(T, b) \subseteq In(S, b)
  BY DEF In
<1>2. IsFiniteSet(In(S, b)) /\ IsFiniteSet(In(T, b))
  BY <1>1, FS_Subset
<1> QED
  BY <1>1, <1>2, FS_Subset, FS_CardinalityType

LEMMA InitEstablishes == RateAssumption /\ RateInit => RateInv
<1> SUFFICES ASSUME RateAssumption, RateInit PROVE RateInv
  OBVIOUS
<1>1. RateTypeOK
  BY FS_EmptySet DEF RateInit, RateTypeOK
<1>2. \A b \in Buckets : Cardinality(In(rows, b)) <= Limit
  <2> TAKE b \in Buckets
  <2>1. In(rows, b) = {}
    BY DEF RateInit, In
  <2> QED
    BY <2>1, FS_EmptySet DEF RateAssumption
<1> QED
  BY <1>1, <1>2 DEF RateInit, RateInv, NoEarlyRefusal

\* A refusal is never early: each hit it counted was really allowed in the window.
LEMMA CountedWereRecent ==
  ASSUME RateAssumption, RateInv, NEW b \in Buckets, NEW t \in Nat
  PROVE  Cardinality(In(Kept(t), b)) <= Cardinality(Recent(b, t))
<1> DEFINE S == In(Kept(t), b)
           T == Recent(b, t)
           f == [r \in S |-> CHOOSE h \in T : h.id = r.id /\ h.bucket = r.bucket /\ h.at = r.at]
<1>1. ASSUME NEW r \in S
      PROVE  \E h \in T : h.id = r.id /\ h.bucket = r.bucket /\ h.at = r.at
  <2>1. r \in rows /\ r.bucket = b /\ ~Expired(r, t)
    BY DEF In, Kept
  <2>2. PICK h \in admitted : h.id = r.id /\ h.bucket = r.bucket /\ h.at = r.at
    BY <2>1 DEF RateInv
  <2>3. h \in Admission /\ h.at <= h.real
    BY DEF RateInv, RateTypeOK
  <2>4. h.real + WindowSeconds >= t
    BY <2>1, <2>2, <2>3 DEF Expired, RateAssumption, Admission
  <2> QED
    BY <2>1, <2>2, <2>4 DEF Recent, In
<1>2. \A r \in S : /\ f[r] \in T
                   /\ f[r].id = r.id /\ f[r].bucket = r.bucket /\ f[r].at = r.at
  BY <1>1
<1>3. S \subseteq Hit
  BY DEF In, Kept, RateInv, RateTypeOK
<1>4. f \in Injection(S, T)
  <2>1. f \in [S -> T]
    BY <1>2
  <2>2. ASSUME NEW r1 \in S, NEW r2 \in S, f[r1] = f[r2] PROVE r1 = r2
    BY <1>2, <1>3, <2>2 DEF Hit
  <2> QED
    BY <2>1, <2>2 DEF Injection, IsInjective
<1>5. IsFiniteSet(T)
  <2>1. T \subseteq admitted
    BY DEF Recent, In
  <2> QED
    BY <2>1, FS_Subset DEF RateInv, RateTypeOK
<1> QED
  BY <1>4, <1>5, FS_Injection

\* check() either refuses and only removes old hits, or adds one.
LEMMA CheckPreserves ==
  ASSUME RateAssumption, RateInv, NEW c \in Callers, Check(c)
  PROVE  RateInv'
<1> DEFINE b == call[c].bucket
           t == call[c].now
           id == Cardinality(admitted)
           r0 == [id |-> id, bucket |-> b, at |-> t]
           h0 == [id |-> id, bucket |-> b, at |-> t, real |-> clock]
<1>0. \A h \in admitted :
        /\ h \in Admission /\ h.id \in Nat /\ h.at \in Nat /\ h.real \in Nat /\ h.id < id
  BY DEF RateInv, RateTypeOK, Admission
<1>1. /\ call[c] \in [bucket : Buckets, now : Nat]
      /\ b \in Buckets /\ t \in Nat /\ t <= clock /\ clock <= t + Lag
  BY DEF Check, RateInv, RateTypeOK
<1>2. id \in Nat /\ IsFiniteSet(admitted) /\ IsFiniteSet(rows)
  BY FS_CardinalityType DEF RateInv, RateTypeOK
<1>3. Kept(t) \subseteq rows /\ IsFiniteSet(Kept(t))
  BY <1>2, FS_Subset DEF Kept
<1>4. /\ call' = [call EXCEPT ![c] = NoCall] /\ clock' = clock
      /\ call' \in [Callers -> [bucket : Buckets, now : Nat] \cup {NoCall}]
  BY DEF Check, RateInv, RateTypeOK
<1>5. \A d \in Callers : call'[d] # NoCall => call'[d].now <= clock' /\ clock' <= call'[d].now + Lag
  BY <1>4 DEF RateInv, RateTypeOK
<1>6. \A h \in admitted : h.at + WindowSeconds >= clock => RowOf(h) \in Kept(t)
  <2> TAKE h \in admitted
  <2> HAVE h.at + WindowSeconds >= clock
  <2>1. RowOf(h) \in rows /\ h \in Admission /\ RowOf(h).at = h.at
    BY DEF RateInv, RateTypeOK, RowOf
  <2>2. h.at + WindowSeconds >= t
    BY <1>1, <2>1 DEF RateAssumption, RateInv, RateTypeOK, Admission
  <2>3. ~Expired(RowOf(h), t)
    BY <1>1, <2>1, <2>2 DEF Expired, RateAssumption, Admission
  <2> QED
    BY <2>1, <2>3 DEF Kept
<1>7. CASE /\ Cardinality(In(Kept(t), b)) >= Limit
           /\ rows' = Kept(t) /\ admitted' = admitted
           /\ early' = (Cardinality(Recent(b, t)) < Limit)
  <2>1. early' = FALSE
    <3>1. Cardinality(In(Kept(t), b)) <= Cardinality(Recent(b, t))
      BY <1>1, CountedWereRecent
    <3>2. IsFiniteSet(Recent(b, t))
      <4>1. Recent(b, t) \subseteq admitted
        BY DEF Recent, In
      <4> QED
        BY <1>2, <4>1, FS_Subset
    <3>3. Cardinality(Recent(b, t)) \in Nat /\ Cardinality(In(Kept(t), b)) \in Nat
      BY <1>3, <3>2, InFinite, FS_CardinalityType
    <3> DEFINE k == Cardinality(In(Kept(t), b))
               l == Cardinality(Recent(b, t))
    <3>4. k \in Nat /\ l \in Nat /\ Limit \in Nat /\ k >= Limit /\ k <= l
      BY <1>7, <3>1, <3>3 DEF RateAssumption
    <3> HIDE DEF k, l
    <3>5. (l < Limit) = FALSE
      BY <3>4
    <3>6. early' = (l < Limit)
      BY <1>7 DEF l
    <3> QED
      BY <3>5, <3>6
  <2>2. \A q \in Buckets : Cardinality(In(rows, q)') <= Limit
    <3> TAKE q \in Buckets
    <3>1. In(rows, q)' = In(Kept(t), q)
      BY <1>7 DEF In
    <3>2. Cardinality(In(Kept(t), q)) <= Cardinality(In(rows, q))
      BY <1>2, <1>3, InFinite
    <3>3. Cardinality(In(Kept(t), q)) \in Nat /\ Cardinality(In(rows, q)) \in Nat
      BY <1>2, <1>3, InFinite
    <3> QED
      BY <3>1, <3>2, <3>3 DEF RateInv, RateAssumption
  <2>3. RateTypeOK'
    BY <1>3, <1>4, <1>7, <2>1 DEF RateInv, RateTypeOK
  <2>4. /\ \A r \in rows' : \E h \in admitted' : h.id = r.id /\ h.bucket = r.bucket /\ h.at = r.at
        /\ \A h \in admitted' :
             /\ h.id < Cardinality(admitted') /\ h.at <= h.real /\ h.real <= h.at + Lag
             /\ h.real <= clock'
             /\ h.at + WindowSeconds >= clock' => RowOf(h) \in rows'
        /\ \A h1, h2 \in admitted' : h1.id = h2.id => h1 = h2
    BY <1>3, <1>4, <1>6, <1>7 DEF RateInv
  <2> QED
    BY <1>5, <2>1, <2>2, <2>3, <2>4 DEF RateInv, NoEarlyRefusal, RowOf
<1>8. CASE /\ Cardinality(In(Kept(t), b)) < Limit
           /\ rows' = Kept(t) \cup {r0} /\ admitted' = admitted \cup {h0}
           /\ early' = early
  <2>1. r0 \in Hit /\ h0 \in Admission
    BY <1>1, <1>2 DEF Hit, Admission, RateInv, RateTypeOK
  <2>2. h0 \notin admitted
    <3>1. h0.id = id /\ ~(id < id)
      BY <1>2
    <3> HIDE DEF h0
    <3> QED
      BY <1>0, <3>1
  <2>3. Cardinality(admitted') = id + 1 /\ IsFiniteSet(admitted') /\ IsFiniteSet(rows')
    BY <1>2, <1>3, <1>8, <2>2, FS_AddElement
  <2>4. RateTypeOK'
    BY <1>3, <1>4, <1>8, <2>1, <2>3 DEF RateInv, RateTypeOK
  <2>5. \A q \in Buckets : Cardinality(In(rows, q)') <= Limit
    <3> TAKE q \in Buckets
    <3>1. /\ IsFiniteSet(In(Kept(t), q)) /\ Cardinality(In(Kept(t), q)) \in Nat
          /\ Cardinality(In(rows, q)) \in Nat
          /\ Cardinality(In(Kept(t), q)) <= Cardinality(In(rows, q))
      BY <1>2, <1>3, InFinite
    <3>2. CASE q = b
      <4>1. In(rows, q)' = In(Kept(t), q) \cup {r0}
        BY <1>8, <3>2 DEF In
      <4>2. /\ Cardinality(In(Kept(t), q) \cup {r0}) <= Cardinality(In(Kept(t), q)) + 1
            /\ Cardinality(In(Kept(t), q) \cup {r0}) \in Nat
        <5> DEFINE S == In(Kept(t), q)
        <5> HIDE DEF r0, S
        <5>1. IsFiniteSet(S) /\ Cardinality(S) \in Nat
          BY <3>1 DEF S
        <5>2. /\ IsFiniteSet(S \cup {r0})
              /\ Cardinality(S \cup {r0}) = IF r0 \in S THEN Cardinality(S) ELSE Cardinality(S) + 1
          BY <5>1, FS_AddElement
        <5>3. Cardinality(S \cup {r0}) \in Nat
          BY <5>2, FS_CardinalityType
        <5>4. Cardinality(S \cup {r0}) <= Cardinality(S) + 1
          BY <5>1, <5>2
        <5> QED
          BY <5>3, <5>4 DEF S
      <4>3. Cardinality(In(Kept(t), q)) < Limit
        BY <1>8, <3>2
      <4>4. Cardinality(In(rows, q)') = Cardinality(In(Kept(t), q) \cup {r0})
        BY <4>1
      <4> DEFINE k == Cardinality(In(Kept(t), q))
                 m == Cardinality(In(Kept(t), q) \cup {r0})
                 n == Cardinality(In(rows, q)')
      <4>5. k \in Nat /\ m \in Nat /\ Limit \in Nat /\ k < Limit /\ m <= k + 1 /\ n = m
        BY <3>1, <4>2, <4>3, <4>4 DEF RateAssumption
      <4> HIDE DEF k, m, n
      <4>6. n <= Limit
        BY <4>5
      <4> QED
        BY <4>6 DEF n
    <3>3. CASE q # b
      <4>1. In(rows, q)' = In(Kept(t), q)
        BY <1>8, <3>3 DEF In
      <4> QED
        BY <3>1, <4>1 DEF RateInv, RateAssumption
    <3> QED
      BY <3>2, <3>3
  <2>6. \A r \in rows' : \E h \in admitted' : h.id = r.id /\ h.bucket = r.bucket /\ h.at = r.at
    <3> TAKE r \in rows'
    <3>1. CASE r = r0
      <4>1. h0.id = r0.id /\ h0.bucket = r0.bucket /\ h0.at = r0.at
        OBVIOUS
      <4> HIDE DEF h0, r0
      <4> QED
        BY <1>8, <3>1, <4>1
    <3>2. CASE r \in rows
      BY <1>8, <3>2 DEF RateInv
    <3> QED
      BY <1>3, <1>8, <3>1, <3>2
  <2>7. \A h \in admitted' :
          /\ h.id < Cardinality(admitted') /\ h.at <= h.real /\ h.real <= h.at + Lag
          /\ h.real <= clock'
          /\ h.at + WindowSeconds >= clock' => RowOf(h) \in rows'
    <3> TAKE h \in admitted'
    <3>1. CASE h = h0
      BY <1>1, <1>2, <1>4, <1>8, <2>3, <3>1 DEF RowOf, RateInv, RateTypeOK
    <3>2. CASE h \in admitted
      <4>1. h.id < id + 1
        <5> HIDE DEF id
        <5> QED
          BY <1>0, <1>2, <3>2
      <4> QED
        BY <1>4, <1>6, <1>8, <2>3, <3>2, <4>1 DEF RateInv
    <3> QED
      BY <1>8, <3>1, <3>2
  <2>8. \A h1, h2 \in admitted' : h1.id = h2.id => h1 = h2
    <3>1. \A h \in admitted : h.id # id
      <4> HIDE DEF id
      <4> QED
        BY <1>0, <1>2
    <3>2. h0.id = id
      OBVIOUS
    <3> HIDE DEF h0, id
    <3> QED
      BY <1>8, <3>1, <3>2 DEF RateInv
  <2> QED
    BY <1>5, <1>8, <2>4, <2>5, <2>6, <2>7, <2>8 DEF RateInv, NoEarlyRefusal, RowOf
<1> QED
  BY <1>7, <1>8 DEF Check

LEMMA NextPreserves ==
  ASSUME RateAssumption, RateInv, [RateNext]_rate_vars
  PROVE  RateInv'
<1>1. CASE UNCHANGED rate_vars
  BY <1>1 DEF rate_vars, RateInv, RateTypeOK, In, NoEarlyRefusal
<1>2. ASSUME NEW c \in Callers, NEW b \in Buckets, ReadsClock(c, b) PROVE RateInv'
  <2>1. /\ call' \in [Callers -> [bucket : Buckets, now : Nat] \cup {NoCall}]
        /\ \A d \in Callers : call'[d] = IF d = c THEN [bucket |-> b, now |-> clock] ELSE call[d]
    BY <1>2 DEF ReadsClock, RateInv, RateTypeOK
  <2>2. \A d \in Callers : call'[d] # NoCall => call'[d].now <= clock /\ clock <= call'[d].now + Lag
    BY <2>1 DEF RateInv, RateTypeOK, RateAssumption
  <2> QED
    BY <1>2, <2>1, <2>2 DEF ReadsClock, RateInv, RateTypeOK, In, NoEarlyRefusal
<1>3. ASSUME NEW c \in Callers, GivesUp(c) PROVE RateInv'
  <2>1. /\ call' \in [Callers -> [bucket : Buckets, now : Nat] \cup {NoCall}]
        /\ \A d \in Callers : call'[d] = IF d = c THEN NoCall ELSE call[d]
    BY <1>3 DEF GivesUp, RateInv, RateTypeOK
  <2> QED
    BY <1>3, <2>1 DEF GivesUp, RateInv, RateTypeOK, In, NoEarlyRefusal
<1>4. CASE RateTick
  <2>1. \A c \in Callers : call[c] # NoCall => call[c].now <= clock' /\ clock' <= call[c].now + Lag
    BY <1>4 DEF RateTick, RateInv, RateTypeOK, RateAssumption
  <2>2. \A h \in admitted : /\ h.real <= clock'
                            /\ h.at + WindowSeconds >= clock' => RowOf(h) \in rows
    <3> TAKE h \in admitted
    <3>1. /\ clock \in Nat /\ clock' = clock + 1 /\ WindowSeconds \in Nat
          /\ h.at \in Nat /\ h.real \in Nat /\ h.real <= clock
          /\ h.at + WindowSeconds >= clock => RowOf(h) \in rows
      BY <1>4 DEF RateTick, RateInv, RateTypeOK, RateAssumption, Admission, RowOf
    <3> QED
      BY <3>1
  <2>3. RateTypeOK'
    BY <1>4 DEF RateTick, RateInv, RateTypeOK
  <2> QED
    BY <1>4, <2>1, <2>2, <2>3 DEF RateTick, RateInv, In, NoEarlyRefusal, RowOf
<1> QED
  BY <1>1, <1>2, <1>3, <1>4, CheckPreserves DEF RateNext

\* check(): the inductive invariant, whoever waits for the lock and for how long.
THEOREM RateInvariant == RateSpec => []RateInv
<1>1. RateInit => RateInv
  BY InitEstablishes, RateAssumption
<1>2. RateInv /\ [RateNext]_rate_vars => RateInv'
  BY NextPreserves, RateAssumption
<1> QED
  BY <1>1, <1>2, PTL DEF RateSpec

\* check(): a request is only refused when its bucket's limit was really used up.
THEOREM RefusalsAreDue == RateSpec => []NoEarlyRefusal
<1>1. RateInv => NoEarlyRefusal
  BY DEF RateInv
<1> QED
  BY <1>1, RateInvariant, PTL

\* check(): the limit holds in every stretch of WindowSeconds - Lag of real time.
THEOREM LimitHolds == RateSpec => []WindowLimit
<1>1. ASSUME RateInv, RateAssumption PROVE WindowLimit
  <2> SUFFICES ASSUME NEW b \in Buckets
               PROVE  Cardinality({h \in In(admitted, b) : h.real + (WindowSeconds - Lag) >= clock}) <= Limit
    BY DEF WindowLimit
  <2> DEFINE S == {h \in In(admitted, b) : h.real + (WindowSeconds - Lag) >= clock}
             T == In(rows, b)
             f == [h \in S |-> RowOf(h)]
  <2>1. \A h \in S : h \in admitted /\ h.bucket = b /\ RowOf(h) \in T
    <3> TAKE h \in S
    <3>1. h \in admitted /\ h.bucket = b /\ h \in Admission
      BY <1>1 DEF In, RateInv, RateTypeOK
    <3>2. h.at + WindowSeconds >= clock
      <4>1. /\ h.at \in Nat /\ h.real \in Nat /\ h.real <= h.at + Lag
            /\ h.real + (WindowSeconds - Lag) >= clock
            /\ clock \in Nat /\ WindowSeconds \in Nat /\ Lag \in Nat
        BY <1>1, <3>1 DEF RateInv, RateTypeOK, RateAssumption, Admission
      <4> QED
        BY <4>1
    <3> QED
      BY <1>1, <3>1, <3>2 DEF RateInv, In, RowOf
  <2>2. f \in Injection(S, T)
    <3>1. f \in [S -> T]
      BY <2>1
    <3>2. ASSUME NEW h1 \in S, NEW h2 \in S, f[h1] = f[h2] PROVE h1 = h2
      <4>1. RowOf(h1) = RowOf(h2)
        BY <3>2
      <4> QED
        BY <1>1, <2>1, <4>1 DEF RateInv, RowOf
    <3> QED
      BY <3>1, <3>2 DEF Injection, IsInjective
  <2>3. IsFiniteSet(T) /\ Cardinality(T) \in Nat
    BY <1>1, InFinite DEF RateInv, RateTypeOK
  <2>4. Cardinality(S) <= Cardinality(T) /\ IsFiniteSet(S)
    BY <2>2, <2>3, FS_Injection
  <2>5. Cardinality(S) \in Nat
    BY <2>4, FS_CardinalityType
  <2> QED
    BY <1>1, <2>3, <2>4, <2>5 DEF RateInv, RateAssumption
<1> QED
  BY <1>1, RateInvariant, RateAssumption, PTL

-----------------------------------------------------------------------------
(* Trust.                                                                  *)

\* What an envelope's timestamp is: a number, or NaN.
LEMMA EnvelopeType == \A e \in Envelopes : e.nonce \in Nonces /\ (e.ts # NaN => e.ts \in Int)
  BY DEF Envelopes

\* Whatever set _save_nonces keeps, an envelope that was remembered and is not
\* kept has been dropped for its age or by the limit, and the history says so.
LEMMA PruneRemembers ==
  ASSUME TrustInv, NEW kept \in SUBSET Unexpired,
         evicted' = evicted \cup {r.nonce : r \in Unexpired \ kept},
         highest' = highest,
         NEW e \in nonces
  PROVE  Remembered(e, kept)'
<1> USE TrustAssumption
<1>1. e \in Envelopes /\ now \in Int /\ highest \in Int /\ now <= highest
  BY DEF TrustInv, TypeOK
<1>2. CASE e.ts = NaN
  BY <1>2 DEF Remembered, Repeatable
<1>3. CASE e.ts # NaN /\ now - e.ts <= 4 * Window
  BY <1>3 DEF Unexpired, Remembered, Repeatable
<1>4. CASE e.ts # NaN /\ ~(now - e.ts <= 4 * Window)
  <2>1. highest - e.ts > 4 * Window
    BY <1>1, <1>4, EnvelopeType
  <2> QED BY <2>1 DEF Remembered
<1> QED BY <1>2, <1>3, <1>4

\* A remembered nonce refuses its envelope; one forgotten for its age is too old to
\* be fresh on a clock that is at most three windows behind its maximum.
LEMMA AcceptedIsRefused ==
  ASSUME TrustInv, NEW e \in accepted, Fresh(e), ~Known(e)
  PROVE  Repeatable(e)
<1> USE TrustAssumption
<1>1. e \in Envelopes /\ now \in Int /\ highest \in Int /\ highest - now <= MaxBack
  BY DEF TrustInv, TypeOK
<1>2. e \notin nonces
  BY DEF Known
<1>3. CASE e.ts # NaN
  <2>1. ~(highest - e.ts > 4 * Window)
    BY <1>1, <1>3, EnvelopeType DEF Fresh
  <2> QED BY <1>2, <2>1 DEF TrustInv, Remembered
<1>4. CASE e.ts = NaN
  BY <1>4 DEF Repeatable
<1> QED BY <1>3, <1>4

\* The invariant is inductive.
LEMMA TrustStep ==
  ASSUME TrustInv, [Next]_vars
  PROVE  TrustInv'
<1> USE TrustAssumption DEF TrustInv
<1>1. ASSUME NEW e \in Envelopes, Verify(e) PROVE TrustInv'
  <2>1. TypeOK'
    BY <1>1 DEF Verify, TypeOK
  <2>2. \A x \in accepted : Remembered(x, nonces)' /\ Remembered(x, file)'
    BY <1>1 DEF Verify, Remembered, Repeatable
  <2>3. e \in accepted => Repeatable(e)
    BY <1>1, AcceptedIsRefused DEF Verify
  <2> QED BY <1>1, <2>1, <2>2, <2>3 DEF Verify, NoReplay, PendingKnown, Repeatable
<1>2. ASSUME SaveNonces PROVE TrustInv'
  <2>1. PICK kept \in SUBSET Unexpired :
          /\ nonces' = kept /\ file' = kept
          /\ evicted' = evicted \cup {r.nonce : r \in Unexpired \ kept}
          /\ replayed' = replayed \cup (accepted \cap pending)
          /\ accepted' = accepted \cup pending
          /\ pending' = {}
          /\ UNCHANGED <<now, highest, faults>>
    BY <1>2 DEF SaveNonces
  <2>2. Unexpired \subseteq nonces /\ nonces \subseteq Envelopes
    BY DEF Unexpired, TypeOK
  <2>3. TypeOK'
    BY <2>1, <2>2, EnvelopeType DEF TypeOK
  <2>4. pending \subseteq nonces
    BY DEF PendingKnown
  <2>5. ASSUME NEW x \in accepted' PROVE Remembered(x, nonces)'
    <3>1. CASE x \in nonces
      BY <2>1, <3>1, PruneRemembers DEF Remembered, Repeatable
    <3>2. CASE x \notin nonces
      BY <2>1, <2>4, <2>5, <3>2 DEF Remembered, Repeatable
    <3> QED BY <3>1, <3>2
  <2>6. NoReplay'
    BY <2>1 DEF NoReplay, PendingKnown, Repeatable
  <2> QED BY <2>1, <2>3, <2>5, <2>6 DEF Remembered, PendingKnown, Repeatable
<1>3. ASSUME SaveFails PROVE TrustInv'
  <2>1. PICK kept \in SUBSET Unexpired :
          /\ faults < MaxFaults
          /\ nonces' = kept /\ file' \in {file, kept}
          /\ evicted' = evicted \cup {r.nonce : r \in Unexpired \ kept}
          /\ pending' = {} /\ faults' = faults + 1
          /\ UNCHANGED <<now, highest, accepted, replayed>>
    BY <1>3 DEF SaveFails
  <2>2. Unexpired \subseteq nonces /\ nonces \subseteq Envelopes
    BY DEF Unexpired, TypeOK
  <2>3. TypeOK'
    BY <2>1, <2>2, EnvelopeType DEF TypeOK
  <2>4. ASSUME NEW x \in accepted PROVE Remembered(x, nonces)' /\ Remembered(x, file)'
    <3>1. Remembered(x, kept)'
      <4>1. CASE x \in nonces
        BY <2>1, <4>1, PruneRemembers
      <4>2. CASE x \notin nonces
        BY <2>1, <4>2 DEF Remembered, Repeatable
      <4> QED BY <4>1, <4>2
    <3>2. file' = file => Remembered(x, file)'
      BY <2>1 DEF Remembered, Repeatable
    <3> QED BY <2>1, <3>1, <3>2 DEF Remembered, Repeatable
  <2> QED BY <2>1, <2>3, <2>4 DEF NoReplay, PendingKnown, Repeatable
<1>4. ASSUME Restart PROVE TrustInv'
  <2>1. TypeOK'
    BY <1>4 DEF Restart, TypeOK
  <2> QED BY <1>4, <2>1 DEF Restart, Remembered, NoReplay, PendingKnown, Repeatable
<1>5. ASSUME Tick PROVE TrustInv'
  <2>1. PICK t \in 0 .. MaxTime :
          /\ t > now \/ (t < now /\ highest - t <= MaxBack)
          /\ now' = t /\ highest' = IF t > highest THEN t ELSE highest
          /\ UNCHANGED <<nonces, file, pending, accepted, replayed, evicted, faults>>
    BY <1>5 DEF Tick
  <2>2. TypeOK' /\ now' <= highest' /\ highest' - now' <= MaxBack /\ highest' >= highest
    BY <2>1 DEF TypeOK
  <2>3. ASSUME NEW x \in accepted PROVE Remembered(x, nonces)' /\ Remembered(x, file)'
    <3>1. x \in Envelopes
      BY DEF TypeOK
    <3>2. x.ts # NaN /\ highest - x.ts > 4 * Window => highest' - x.ts > 4 * Window
      BY <2>2, <3>1, EnvelopeType DEF TypeOK
    <3> QED BY <2>1, <3>2 DEF Remembered, Repeatable
  <2> QED BY <2>1, <2>2, <2>3 DEF NoReplay, PendingKnown, Repeatable
<1>6. ASSUME UNCHANGED vars PROVE TrustInv'
  BY <1>6 DEF vars, TypeOK, Remembered, NoReplay, PendingKnown, Repeatable
<1> QED BY <1>1, <1>2, <1>3, <1>4, <1>5, <1>6 DEF Next

\* The invariant of every reachable state of a trust manager: types, the clock, and what
\* is remembered of the envelopes that verify accepted (trust.py _save_nonces).
THEOREM TrustInvariant == Spec => []TrustInv
<1>1. Init => TrustInv
  BY TrustAssumption DEF Init, TrustInv, TypeOK, Remembered, NoReplay,
         PendingKnown
<1>2. TrustInv /\ [Next]_vars => TrustInv'
  BY TrustStep
<1> QED BY <1>1, <1>2, PTL DEF Spec

\* verify accepts an envelope at most once, whatever is delivered again, across
\* restarts, failed saves and clock steps, unless nonce_limit dropped its nonce or its
\* timestamp is NaN.
THEOREM NoReplayTheorem == Spec => []NoReplay
<1>1. TrustInv => NoReplay
  BY DEF TrustInv
<1> QED BY <1>1, TrustInvariant, PTL
=============================================================================
