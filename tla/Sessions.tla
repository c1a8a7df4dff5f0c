------------------------------ MODULE Sessions ------------------------------
(***************************************************************************)
(* What a node does at this server once it has a token (server.py): its    *)
(* WebSocket relay connections (api_ws_relay), limited by a counter per    *)
(* node, its HTTP requests (api_relay), and the owner's two-step           *)
(* revocation, all handlers of one event loop.  A handler is interrupted   *)
(* where it awaits: the first frame, the next frame, the request's body,   *)
(* the end of a close.                                                     *)
(***************************************************************************)
EXTENDS Naturals, FiniteSets

CONSTANTS
  Nodes,
  NoNode,      \* None
  Conns,       \* sockets, each used again once its connection has ended
  Requests,    \* HTTP requests in progress, likewise
  Challenges,  \* revocation challenges, likewise
  MaxConns     \* WS_RELAY_MAX_CONNS_PER_NODE, 3

\* What the code's constants are: a limit, finitely many sockets, None.
ConstantsOK ==
  /\ MaxConns \in Nat \ {0}
  /\ IsFiniteSet(Conns)
  /\ NoNode \notin Nodes

ASSUME SessionsAssumption == ConstantsOK

VARIABLES
  status,      \* of each node: what verify_token makes of it
  conn,        \* of each socket: phase of its handler, and peer_node_id
  slots,       \* ws_relay_conns
  request,     \* of each request: the node it was authorized for, until it ends
  challenges,  \* mesh_challenges: [id, node, fresh]
  refused,     \* history: nodes of which an authenticated connection was refused
  late         \* history: nodes with an event appended after their revocation

vars == <<status, conn, slots, request, challenges, refused, late>>

NoConn == [ph |-> "none", node |-> NoNode]

Init ==
  /\ status = [n \in Nodes |-> "absent"]
  /\ conn = [c \in Conns |-> NoConn]
  /\ slots = [n \in Nodes |-> 0]
  /\ request = [r \in Requests |-> NoNode]
  /\ challenges = {} /\ refused = {} /\ late = {}

-----------------------------------------------------------------------------
(* The node: it joins once, its token expires, the owner revokes it.       *)

\* Mutant: a token is good as long as nobody revokes its node.
VerifyToken_NotExpired(n) == status[n] # "absent"

VerifyToken(n) == status[n] = "active"

Join(n) ==
  /\ status[n] = "absent"
  /\ status' = [status EXCEPT ![n] = "active"]
  /\ UNCHANGED <<conn, slots, request, challenges, refused, late>>

TokenExpires(n) ==
  /\ status[n] = "active"
  /\ status' = [status EXCEPT ![n] = "expired"]
  /\ UNCHANGED <<conn, slots, request, challenges, refused, late>>

PrepareRevoke(id, n) ==
  /\ status[n] # "absent"
  /\ \A ch \in challenges : ch.id # id
  /\ challenges' = challenges \cup {[id |-> id, node |-> n, fresh |-> TRUE]}
  /\ UNCHANGED <<status, conn, slots, request, refused, late>>

ChallengeExpires(ch) ==
  /\ ch \in challenges /\ ch.fresh
  /\ challenges' = (challenges \ {ch}) \cup {[ch EXCEPT !.fresh = FALSE]}
  /\ UNCHANGED <<status, conn, slots, request, refused, late>>

\* Mutant: the challenge is read, not popped.
MeshRevoke_NotPopped(ch) ==
  /\ ch \in challenges /\ ch.fresh
  /\ status' = [status EXCEPT ![ch.node] = "revoked"]
  /\ UNCHANGED <<conn, slots, request, challenges, refused, late>>

\* The challenge is popped whatever the rest of the request says; the node is
\* revoked if the challenge is fresh and node and phrases are the ones given.
MeshRevoke(ch) ==
  /\ ch \in challenges
  /\ challenges' = challenges \ {ch}
  /\ \/ ch.fresh /\ status' = [status EXCEPT ![ch.node] = "revoked"]
     \/ UNCHANGED status
  /\ UNCHANGED <<conn, slots, request, refused, late>>

-----------------------------------------------------------------------------
(* api_ws_relay.                                                           *)

Connect(c) ==
  /\ conn[c].ph = "none"
  /\ conn' = [conn EXCEPT ![c].ph = "hello"]
  /\ UNCHANGED <<status, slots, request, challenges, refused, late>>

\* No frame in time, not an auth frame, or a token that does not verify: the
\* connection ends and peer_node_id is still None.
HelloFails(c) ==
  /\ conn[c].ph = "hello"
  /\ conn' = [conn EXCEPT ![c] = NoConn]
  /\ UNCHANGED <<status, slots, request, challenges, refused, late>>

\* The token verifies, but another node_id is claimed or the limit is reached.
AuthRefused(c, n, claimed) ==
  /\ conn[c].ph = "hello" /\ VerifyToken(n)
  /\ claimed # n \/ slots[n] >= MaxConns
  /\ conn' = [conn EXCEPT ![c] = [ph |-> "refused", node |-> n]]
  /\ refused' = refused \cup {n}
  /\ UNCHANGED <<status, slots, request, challenges, late>>

\* Mutant: one connection too many.
AuthAccepted_OffByOne(c, n) ==
  /\ conn[c].ph = "hello" /\ VerifyToken(n)
  /\ slots[n] <= MaxConns
  /\ slots' = [slots EXCEPT ![n] = @ + 1]
  /\ conn' = [conn EXCEPT ![c] = [ph |-> "open", node |-> n]]
  /\ UNCHANGED <<status, request, challenges, refused, late>>

AuthAccepted(c, n) ==
  /\ conn[c].ph = "hello" /\ VerifyToken(n)
  /\ slots[n] < MaxConns
  /\ slots' = [slots EXCEPT ![n] = @ + 1]
  /\ conn' = [conn EXCEPT ![c] = [ph |-> "open", node |-> n]]
  /\ UNCHANGED <<status, request, challenges, refused, late>>

\* A frame with a valid envelope is appended; the token is not looked at again.
Appended(n) == late' = IF status[n] = "revoked" THEN late \cup {n} ELSE late

Frame(c) ==
  /\ conn[c].ph = "open"
  /\ Appended(conn[c].node)
  /\ UNCHANGED <<status, conn, slots, request, challenges, refused>>

\* Mutant: only a connection that was refused gives its slot back.
ConnEnds_Leaks(c) ==
  /\ conn[c].ph \in {"open", "refused"}
  /\ LET n == conn[c].node IN
       slots' = [slots EXCEPT ![n] = IF conn[c].ph = "refused" /\ @ > 1 THEN @ - 1 ELSE @]
  /\ conn' = [conn EXCEPT ![c] = NoConn]
  /\ UNCHANGED <<status, request, challenges, refused, late>>

\* The connection is closed, by either side or by an error: the finally clause.
ConnEnds(c) ==
  /\ conn[c].ph \in {"open", "refused"}
  /\ LET n == conn[c].node IN
       slots' = [slots EXCEPT ![n] = IF @ > 1 THEN @ - 1 ELSE 0]
  /\ conn' = [conn EXCEPT ![c] = NoConn]
  /\ UNCHANGED <<status, request, challenges, refused, late>>

-----------------------------------------------------------------------------
(* api_relay: authorized first, then the body is awaited.                  *)

RequestAuthorized(r, n) ==
  /\ request[r] = NoNode /\ VerifyToken(n)
  /\ request' = [request EXCEPT ![r] = n]
  /\ UNCHANGED <<status, conn, slots, challenges, refused, late>>

RequestEnds(r) ==
  /\ request[r] # NoNode
  /\ request' = [request EXCEPT ![r] = NoNode]
  /\ Appended(request[r]) \/ UNCHANGED late
  /\ UNCHANGED <<status, conn, slots, challenges, refused>>

-----------------------------------------------------------------------------
Next ==
  \/ \E n \in Nodes : Join(n) \/ TokenExpires(n)
  \/ \E id \in Challenges, n \in Nodes : PrepareRevoke(id, n)
  \/ \E ch \in challenges : ChallengeExpires(ch) \/ MeshRevoke(ch)
  \/ \E c \in Conns : Connect(c) \/ HelloFails(c) \/ Frame(c) \/ ConnEnds(c)
  \/ \E c \in Conns, n, claimed \in Nodes : AuthRefused(c, n, claimed)
  \/ \E c \in Conns, n \in Nodes : AuthAccepted(c, n)
  \/ \E r \in Requests, n \in Nodes : RequestAuthorized(r, n)
  \/ \E r \in Requests : RequestEnds(r)

Spec == Init /\ [][Next]_vars

-----------------------------------------------------------------------------
(* Properties.                                                             *)

\* The types of the sessions.
TypeOK ==
  /\ status \in [Nodes -> {"absent", "active", "expired", "revoked"}]
  /\ conn \in [Conns -> [ph : {"none", "hello", "open", "refused"}, node : Nodes \cup {NoNode}]]
  /\ \A c \in Conns : conn[c].ph \in {"open", "refused"} <=> conn[c].node # NoNode
  /\ slots \in [Nodes -> Nat]
  /\ request \in [Requests -> Nodes \cup {NoNode}]
  /\ challenges \subseteq [id : Challenges, node : Nodes, fresh : BOOLEAN]
  /\ refused \subseteq Nodes /\ late \subseteq Nodes

Open(n) == {c \in Conns : conn[c] = [ph |-> "open", node |-> n]}

\* ws_relay_conns never counts a connection that has ended: however connections
\* fail, a node is not locked out by slots that nobody gives back.
SlotsNeverLeak == \A n \in Nodes : slots[n] <= Cardinality(Open(n))

\* As long as no authenticated connection of a node was refused, the counter is
\* the number of its open connections, and they keep to the limit.
CapUnlessRefused ==
  \A n \in Nodes \ refused : /\ slots[n] = Cardinality(Open(n))
                             /\ Cardinality(Open(n)) <= MaxConns

\* "Cap concurrent WS relay connections per peer" (api_ws_relay).
CapHolds == \A n \in Nodes : Cardinality(Open(n)) <= MaxConns

\* A node whose token has expired or that was revoked gets no new session: the
\* connections and requests that go on are ones it had before, and once they have
\* ended nothing of it is appended any more.
NoSessionWithoutToken ==
  [][\A n \in Nodes : status[n] # "active" =>
       /\ Open(n)' \subseteq Open(n)
       /\ \A r \in Requests : request'[r] = n => request[r] = n
       /\ n \in late' \ late => Open(n) # {} \/ \E r \in Requests : request[r] = n]_vars

\* A node is revoked by a challenge prepared for it and not used before, and the
\* challenge is gone with it: one confirmation never revokes twice.
ChallengeUsedOnce ==
  [][\A n \in Nodes : status[n] # "revoked" /\ status'[n] = "revoked" =>
       \E ch \in challenges \ challenges' : ch.node = n /\ ch.fresh]_vars

-----------------------------------------------------------------------------
(* The inductive invariant behind the theorems of SessionsProofs.          *)

\* A refused connection still waits to give back a slot it never took: its node
\* is one CapUnlessRefused says nothing of.
RefusedKnown == \A c \in Conns : conn[c].ph = "refused" => conn[c].node \in refused

SessionsInv == TypeOK /\ RefusedKnown /\ SlotsNeverLeak /\ CapUnlessRefused
=============================================================================
