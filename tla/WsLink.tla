------------------------------- MODULE WsLink -------------------------------
(***************************************************************************)
(* One outbound WebSocket link (WSRelayClient, collab/wsrelay.py) composed *)
(* with the handlers of the partner it dials (Sessions), and what the      *)
(* server makes of the link when it forwards an event (_relay_forward).    *)
(*                                                                         *)
(* The link's task dials, authenticates, reads frames and starts over.  A  *)
(* socket is dropped when authentication fails; when the reading ends, with *)
(* no frame in time or with the socket closed, self._ws keeps it until the *)
(* next dial has succeeded: the partner's handler may outlive that.        *)
(*                                                                         *)
(* stop() is not modelled: the server never calls it while it serves.      *)
(***************************************************************************)
EXTENDS Naturals, FiniteSets

CONSTANTS
  Self,        \* this node's id at the partner
  NoNode,
  Conns,       \* sockets, each used again once it is closed
  NoWs,        \* None
  MaxConns,    \* WS_RELAY_MAX_CONNS_PER_NODE at the partner
  Events,      \* events to forward
  Many,        \* failures in a row are counted up to here
  MaxFaults    \* bound: outages and failed handshakes

VARIABLES
  status, conn, slots, request, challenges, refused, late,  \* the partner
  phase,      \* of the link's task
  ws,         \* self._ws
  reconnects, \* self._reconnects
  up,         \* whether the partner can be reached
  unsent,     \* events whose send() was called and never awaited
  http,       \* events handed to the HTTP relay instead
  faults

Partner == INSTANCE Sessions WITH Nodes <- {Self}, Requests <- {}, Challenges <- {}

ASSUME LinkAssumption ==
  /\ Partner!ConstantsOK
  /\ NoWs \notin Conns
  /\ Many \in Nat \ {0} /\ MaxFaults \in Nat

partner == <<status, conn, slots, request, challenges, refused, late>>
link == <<phase, ws, reconnects>>
vars == <<partner, link, up, unsent, http, faults>>

Init ==
  /\ Partner!Init
  /\ phase = "dial" /\ ws = NoWs /\ reconnects = 0
  /\ up = TRUE
  /\ unsent = {} /\ http = {}
  /\ faults = 0

-----------------------------------------------------------------------------
(* The link's task.                                                        *)

Closed(c) == conn[c].ph = "none"

\* After an attempt.  The delay is computed outside the try: 2.0 ** reconnects
\* overflows at 1024, which may be any failure after Many in a row.
Backoff ==
  \/ /\ reconnects' = IF reconnects < Many THEN reconnects + 1 ELSE Many
     /\ phase' = "sleep"
  \/ /\ reconnects >= Many
     /\ phase' = "dead"
     /\ UNCHANGED reconnects

Wakes ==
  /\ phase = "sleep" /\ phase' = "dial"
  /\ UNCHANGED <<partner, ws, reconnects, up, unsent, http, faults>>

\* The new socket replaces the last one, closed or not.
Dial ==
  /\ phase = "dial" /\ up
  /\ \E c \in Conns \ {ws} :
       /\ Partner!Connect(c)
       /\ ws' = c
  /\ phase' = "auth"
  /\ UNCHANGED <<reconnects, up, unsent, http, faults>>

DialFails ==
  /\ phase = "dial" /\ ~up
  /\ Backoff
  /\ UNCHANGED <<partner, ws, up, unsent, http, faults>>

\* Mutant: the backoff goes on from where it was.
Established_KeepsBackoff ==
  /\ phase = "auth" /\ conn[ws].ph = "open"
  /\ phase' = "stream"
  /\ UNCHANGED <<partner, ws, reconnects, up, unsent, http, faults>>

Established ==
  /\ phase = "auth" /\ conn[ws].ph = "open"
  /\ phase' = "stream" /\ reconnects' = 0
  /\ UNCHANGED <<partner, ws, up, unsent, http, faults>>

\* The partner closed the socket or did not answer in time: _drop.
AuthFails ==
  /\ phase = "auth"
  /\ \/ conn[ws].ph \in {"none", "refused"} /\ UNCHANGED faults
     \/ conn[ws].ph = "hello" /\ ~up /\ UNCHANGED faults
     \/ faults < MaxFaults /\ faults' = faults + 1
  /\ ws' = NoWs
  /\ Backoff
  /\ UNCHANGED <<partner, up, unsent, http>>

\* receive() raises TimeoutError after receive_timeout without a frame, or it
\* answers that the socket was closed.
StreamEnds ==
  /\ phase = "stream"
  /\ Backoff
  /\ UNCHANGED <<partner, ws, up, unsent, http, faults>>

-----------------------------------------------------------------------------
(* The partner and the network.                                            *)

PartnerRest == UNCHANGED <<link, up, unsent, http, faults>>

Enrolled == Partner!Join(Self) /\ PartnerRest
TokenExpires == Partner!TokenExpires(Self) /\ PartnerRest

PartnerAnswers(c) ==
  /\ up
  /\ \/ Partner!AuthAccepted(c, Self)
     \/ slots[Self] >= MaxConns /\ Partner!AuthRefused(c, Self, Self)
     \/ ~Partner!VerifyToken(Self) /\ Partner!HelloFails(c)
  /\ PartnerRest

\* A socket ends: the partner refused it, the task dropped it or replaced it (its
\* heartbeat finds nobody reading), or an outage cuts it.
Cut(c) == conn[c].ph = "refused" \/ c # ws \/ ~up

SocketEnds(c) ==
  /\ Cut(c)
  /\ Partner!ConnEnds(c) \/ Partner!HelloFails(c)
  /\ PartnerRest

GoesDown ==
  /\ up /\ faults < MaxFaults
  /\ up' = FALSE /\ faults' = faults + 1
  /\ UNCHANGED <<partner, link, unsent, http>>

ComesUp ==
  /\ ~up /\ up' = TRUE
  /\ UNCHANGED <<partner, link, unsent, http, faults>>

-----------------------------------------------------------------------------
(* _relay_forward, for an event of this node.                              *)

connected == ws # NoWs /\ ~Closed(ws)

\* A link that is connected gets client.send(), a coroutine that nobody awaits: it
\* never runs.  Only without the link is the event handed to the HTTP relay.
RelayForward(e) ==
  /\ e \notin unsent \cup http
  /\ \/ connected /\ unsent' = unsent \cup {e} /\ UNCHANGED http
     \/ ~connected /\ http' = http \cup {e} /\ UNCHANGED unsent
  /\ UNCHANGED <<partner, link, up, faults>>

-----------------------------------------------------------------------------
LinkStep == Wakes \/ Dial \/ DialFails \/ Established \/ AuthFails \/ StreamEnds

Next ==
  \/ LinkStep
  \/ Enrolled \/ TokenExpires
  \/ \E c \in Conns : PartnerAnswers(c) \/ SocketEnds(c)
  \/ GoesDown \/ ComesUp
  \/ \E e \in Events : RelayForward(e)

Spec == Init /\ [][Next]_vars

\* The event loops run the task and the partner's handlers, the delay and the
\* timeouts pass, sockets nobody reads are closed, and an outage ends.
Fairness ==
  /\ WF_vars(LinkStep)
  /\ \A c \in Conns : WF_vars(PartnerAnswers(c)) /\ WF_vars(SocketEnds(c))
  /\ WF_vars(ComesUp)

FairSpec == Spec /\ Fairness

-----------------------------------------------------------------------------
(* Properties.                                                             *)

TypeOK ==
  /\ Partner!TypeOK
  /\ phase \in {"dial", "auth", "stream", "sleep", "dead"}
  /\ ws \in Conns \cup {NoWs}
  /\ reconnects \in 0 .. Many
  /\ up \in BOOLEAN /\ faults \in 0 .. MaxFaults
  /\ unsent \subseteq Events /\ http \subseteq Events

\* The task has a socket while it authenticates and reads, and with this client the
\* partner keeps what Sessions promises: its counter never counts a socket that has
\* ended, and counts all of them unless one of this node was refused.
LinkInv ==
  /\ TypeOK
  /\ phase \in {"auth", "stream"} => ws \in Conns
  /\ phase = "stream" => reconnects = 0
  /\ Partner!SessionsInv

\* "a dropped link retries and recovers without manual intervention": the link
\* streams again and again, although it leaves sockets behind that the partner
\* counts against its limit, unless its token no longer verifies or the backoff
\* overflowed.
LinkRecovers ==
  \/ []<>(phase = "stream")
  \/ <>[](~Partner!VerifyToken(Self))
  \/ <>(phase = "dead")

\* Connections that have ended never lock the link out: when the partner refuses its
\* handshake, the sockets that fill the limit are open at the partner, and all of them
\* are ones the link has left behind.
RefusedForOpenSockets ==
  [][ws # NoWs /\ conn[ws].ph = "hello" /\ conn'[ws].ph = "refused" =>
       Cardinality(Partner!Open(Self) \ {ws}) >= MaxConns]_vars

\* "each live WS link gets it; any partner whose WS link is down falls back to the
\* HTTP relay": no event is left unsent.
EveryEventSent == unsent = {}
=============================================================================
