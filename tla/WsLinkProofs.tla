---------------------------- MODULE WsLinkProofs ----------------------------
(***************************************************************************)
(* Proofs about WsLink: the link is one of the clients that Sessions allows *)
(* for, so that what is proved of Sessions (SessionsProofs) holds of the   *)
(* partner it dials, whatever the link leaves behind; and the partner only *)
(* refuses it for sockets it has left behind.                              *)
(***************************************************************************)
EXTENDS WsLink, FiniteSetTheorems, TLAPS

Facts == INSTANCE SessionsProofs WITH Nodes <- {Self}, Requests <- {}, Challenges <- {}

USE LinkAssumption

(***************************************************************************)
(* The two instances of Sessions, the partner and what is proved of it,    *)
(* say the same.                                                           *)
(***************************************************************************)

\* The partner's constants are ones that Sessions allows.
LEMMA PartnerConstants == Facts!ConstantsOK
BY DEF Partner!ConstantsOK, Facts!ConstantsOK, Partner!IsFiniteSet, Facts!IsFiniteSet

\* The invariants are the same.
LEMMA SameInvariant == Partner!SessionsInv <=> Facts!SessionsInv
<1>1. \A S : Partner!Cardinality(S) = Facts!Cardinality(S)
  BY DEF Partner!Cardinality, Facts!Cardinality
<1>2. Partner!TypeOK <=> Facts!TypeOK
  BY DEF Partner!TypeOK, Facts!TypeOK
<1>3. Partner!RefusedKnown <=> Facts!RefusedKnown
  BY DEF Partner!RefusedKnown, Facts!RefusedKnown
<1>4. \A n : Partner!Open(n) = Facts!Open(n)
  BY DEF Partner!Open, Facts!Open
<1>5. Partner!SlotsNeverLeak <=> Facts!SlotsNeverLeak
  BY <1>1, <1>4 DEF Partner!SlotsNeverLeak, Facts!SlotsNeverLeak
<1>6. Partner!CapUnlessRefused <=> Facts!CapUnlessRefused
  BY <1>1, <1>4 DEF Partner!CapUnlessRefused, Facts!CapUnlessRefused
<1> QED BY <1>2, <1>3, <1>5, <1>6 DEF Partner!SessionsInv, Facts!SessionsInv

\* The initial states and the steps are the same.
LEMMA SameSteps ==
  /\ Partner!Init <=> Facts!Init
  /\ [Partner!Next]_partner <=> [Facts!Next]_(Facts!vars)
<1>1. Partner!Init <=> Facts!Init
  BY DEF Partner!Init, Facts!Init, Partner!NoConn, Facts!NoConn
<1>2. Partner!Next <=> Facts!Next
  BY DEF Partner!Next, Facts!Next, Partner!NoConn, Facts!NoConn,
         Partner!Join, Facts!Join, Partner!TokenExpires, Facts!TokenExpires,
         Partner!PrepareRevoke, Facts!PrepareRevoke,
         Partner!ChallengeExpires, Facts!ChallengeExpires,
         Partner!MeshRevoke, Facts!MeshRevoke, Partner!Connect, Facts!Connect,
         Partner!HelloFails, Facts!HelloFails, Partner!Frame, Facts!Frame,
         Partner!ConnEnds, Facts!ConnEnds, Partner!AuthRefused, Facts!AuthRefused,
         Partner!AuthAccepted, Facts!AuthAccepted, Partner!VerifyToken, Facts!VerifyToken,
         Partner!RequestAuthorized, Facts!RequestAuthorized,
         Partner!RequestEnds, Facts!RequestEnds, Partner!Appended, Facts!Appended
<1> QED BY <1>1, <1>2 DEF partner, Facts!vars

(***************************************************************************)
(* The composition.                                                        *)
(***************************************************************************)

\* Each action of the composition is one of the partner's, or leaves it alone.
LEMMA PartnerStep == [Next]_vars => [Partner!Next]_partner
<1> SUFFICES ASSUME [Next]_vars PROVE [Partner!Next]_partner
  OBVIOUS
<1>1. CASE Wakes \/ DialFails \/ Established \/ AuthFails \/ StreamEnds
  BY <1>1 DEF Wakes, DialFails, Established, AuthFails, StreamEnds
<1>2. CASE Dial
  BY <1>2 DEF Dial, Partner!Next
<1>3. CASE Enrolled \/ TokenExpires
  BY <1>3 DEF Enrolled, TokenExpires, Partner!Next
<1>4. ASSUME NEW c \in Conns, PartnerAnswers(c) PROVE Partner!Next
  BY <1>4 DEF PartnerAnswers, Partner!Next
<1>5. ASSUME NEW c \in Conns, SocketEnds(c) PROVE Partner!Next
  BY <1>5 DEF SocketEnds, Partner!Next
<1>6. CASE GoesDown \/ ComesUp \/ \E e \in Events : RelayForward(e)
  BY <1>6 DEF GoesDown, ComesUp, RelayForward
<1>7. CASE UNCHANGED vars
  BY <1>7 DEF vars
<1> QED BY <1>1, <1>2, <1>3, <1>4, <1>5, <1>6, <1>7 DEF Next, LinkStep

\* A failed attempt counts, or is the one the task dies of.
LEMMA BackoffStep ==
  ASSUME Backoff, reconnects \in 0 .. Many
  PROVE  /\ reconnects' \in 0 .. Many
         /\ phase' = "sleep" \/ (phase' = "dead" /\ reconnects = Many)
BY DEF Backoff

\* The link's own part of the invariant.
LEMMA LinkStart == Init => LinkInv
<1> SUFFICES ASSUME Init PROVE LinkInv
  OBVIOUS
<1>1. Partner!SessionsInv
  BY PartnerConstants, SameInvariant, SameSteps, Facts!InitEstablishes DEF Init
<1> QED BY <1>1 DEF Init, LinkInv, TypeOK, Partner!SessionsInv

LEMMA LinkKept == LinkInv /\ [Next]_vars => LinkInv'
<1> SUFFICES ASSUME LinkInv, [Next]_vars PROVE LinkInv'
  OBVIOUS
<1>1. Partner!SessionsInv'
  <2>1. Facts!SessionsInv /\ [Facts!Next]_(Facts!vars)
    BY PartnerStep, SameSteps, SameInvariant DEF LinkInv
  <2>2. Facts!SessionsInv'
    BY <2>1, PartnerConstants, Facts!Preserved
  <2>3. Partner!SessionsInv' <=> Facts!SessionsInv'
    BY SameInvariant, PTL
  <2> QED BY <2>2, <2>3
<1> DEFINE Own == /\ phase \in {"dial", "auth", "stream", "sleep", "dead"}
                  /\ ws \in Conns \cup {NoWs}
                  /\ reconnects \in 0 .. Many
                  /\ up \in BOOLEAN /\ faults \in 0 .. MaxFaults
                  /\ unsent \subseteq Events /\ http \subseteq Events
                  /\ phase \in {"auth", "stream"} => ws \in Conns
                  /\ phase = "stream" => reconnects = 0
<1>2. Own
  BY DEF LinkInv, TypeOK
<1>3. Own'
  <2>1. CASE Wakes \/ Dial \/ Established
    BY <1>2, <2>1 DEF Wakes, Dial, Established
  <2>2. CASE DialFails \/ StreamEnds
    BY <1>2, <2>2, BackoffStep DEF DialFails, StreamEnds
  <2>3. CASE AuthFails
    BY <1>2, <2>3, BackoffStep DEF AuthFails
  <2>4. CASE \/ Enrolled \/ TokenExpires
             \/ \E c \in Conns : PartnerAnswers(c) \/ SocketEnds(c)
    BY <1>2, <2>4 DEF Enrolled, TokenExpires, PartnerAnswers, SocketEnds, PartnerRest, link
  <2>5. CASE GoesDown \/ ComesUp
    <3>1. UNCHANGED <<phase, ws, reconnects, unsent, http>>
      BY <2>5 DEF GoesDown, ComesUp, link
    <3>2. up' \in BOOLEAN
      BY <2>5 DEF GoesDown, ComesUp
    <3>3. faults' \in 0 .. MaxFaults
      BY <1>2, <2>5 DEF GoesDown, ComesUp
    <3> QED BY <1>2, <3>1, <3>2, <3>3
  <2>6. ASSUME NEW e \in Events, RelayForward(e) PROVE Own'
    <3>1. UNCHANGED <<phase, ws, reconnects, up, faults>>
      BY <2>6 DEF RelayForward, link
    <3>2. unsent' \subseteq Events /\ http' \subseteq Events
      BY <1>2, <2>6 DEF RelayForward
    <3> QED BY <1>2, <3>1, <3>2
  <2>7. CASE UNCHANGED vars
    BY <1>2, <2>7 DEF vars, link
  <2> QED BY <2>1, <2>2, <2>3, <2>4, <2>5, <2>6, <2>7 DEF Next, LinkStep
<1> QED BY <1>1, <1>3 DEF LinkInv, TypeOK, Partner!SessionsInv

\* The task has a socket while it authenticates and reads, its failures are counted
\* from its last handshake, and the partner's counter keeps what Sessions promises
\* (wsrelay.py _run, server.py api_ws_relay).
THEOREM LinkInvariant == Spec => []LinkInv
<1> QED BY LinkStart, LinkKept, PTL DEF Spec

\* The link is one of the clients of Sessions: what holds of that specification holds
\* of the partner (wsrelay.py _run, _authenticate; server.py api_ws_relay).
THEOREM LinkIsAClient == Spec => Partner!Spec
<1>1. Init => Partner!Init
  BY DEF Init
<1>2. [Next]_vars => [Partner!Next]_(Partner!vars)
  BY PartnerStep DEF partner, Partner!vars
<1> QED BY <1>1, <1>2, PTL DEF Spec, Partner!Spec

\* The partner refuses the link's handshake only while sockets the link has left behind
\* are open and fill the limit, never for connections that have ended (server.py
\* api_ws_relay: the counter and its finally clause).
THEOREM RefusedForOpen == Spec => RefusedForOpenSockets
<1>1. ASSUME LinkInv, [Next]_vars, ws # NoWs, conn[ws].ph = "hello", conn'[ws].ph = "refused"
      PROVE  Cardinality(Partner!Open(Self) \ {ws}) >= MaxConns
  <2>1. /\ ws \in Conns /\ DOMAIN conn = Conns
        /\ slots[Self] <= Partner!Cardinality(Partner!Open(Self)) /\ slots[Self] \in Nat
        /\ MaxConns \in Nat
    BY <1>1 DEF LinkInv, TypeOK, Partner!SessionsInv, Partner!SlotsNeverLeak, Partner!TypeOK,
                Partner!ConstantsOK
  <2>2. \A c \in Conns : PartnerAnswers(c) => slots[Self] >= MaxConns
    BY <1>1, <2>1 DEF PartnerAnswers, Partner!AuthAccepted, Partner!AuthRefused,
                      Partner!HelloFails, Partner!NoConn
  <2>3. \A c \in Conns : ~SocketEnds(c)
    BY <1>1, <2>1 DEF SocketEnds, Partner!ConnEnds, Partner!HelloFails, Partner!NoConn
  <2>4. ~Dial
    BY <1>1, <2>1 DEF Dial, Partner!Connect
  <2>5. conn' # conn
    BY <1>1
  <2>6. ~(Wakes \/ DialFails \/ Established \/ AuthFails \/ StreamEnds)
    BY <2>5 DEF Wakes, DialFails, Established, AuthFails, StreamEnds, partner
  <2>7. ~(Enrolled \/ TokenExpires \/ GoesDown \/ ComesUp \/ \E e \in Events : RelayForward(e))
    BY <2>5 DEF Enrolled, TokenExpires, Partner!Join, Partner!TokenExpires, GoesDown, ComesUp,
                RelayForward, partner
  <2>8. slots[Self] >= MaxConns
    BY <1>1, <2>2, <2>3, <2>4, <2>5, <2>6, <2>7 DEF Next, LinkStep, vars, partner
  <2>9. Partner!Open(Self) \ {ws} = Partner!Open(Self)
    BY <1>1 DEF Partner!Open
  <2>10. Partner!Cardinality(Partner!Open(Self)) = Cardinality(Partner!Open(Self))
    BY DEF Partner!Cardinality, Cardinality
  <2>11. Cardinality(Partner!Open(Self)) \in Nat
    <3>1. IsFiniteSet(Conns)
      BY DEF Partner!ConstantsOK, Partner!IsFiniteSet, IsFiniteSet
    <3> QED BY <3>1, FS_Subset, FS_CardinalityType DEF Partner!Open
  <2> QED BY <2>1, <2>8, <2>9, <2>10, <2>11
<1> QED BY <1>1, LinkInvariant, PTL DEF Spec, RefusedForOpenSockets
=============================================================================
