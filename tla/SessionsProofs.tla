--------------------------- MODULE SessionsProofs ---------------------------
(***************************************************************************)
(* Proofs about Sessions, for any nodes, sockets and limit: the counter of *)
(* a node never counts more than its open connections, and counts them     *)
(* exactly while none of the node was refused.                             *)
(***************************************************************************)
EXTENDS Sessions, FiniteSetTheorems, TLAPS

LEMMA InitEstablishes == ConstantsOK /\ Init => SessionsInv
<1> SUFFICES ASSUME ConstantsOK, Init PROVE SessionsInv
  OBVIOUS
<1> USE DEF ConstantsOK
<1>1. TypeOK
  BY DEF Init, NoConn, TypeOK
<1>2. \A n \in Nodes : Open(n) = {}
  BY DEF Init, NoConn, Open
<1>3. \A n \in Nodes : Cardinality(Open(n)) = 0
  BY <1>2, FS_EmptySet
<1> QED
  BY <1>1, <1>3 DEF Init, NoConn, SessionsInv, RefusedKnown,
      SlotsNeverLeak, CapUnlessRefused

LEMMA OpenFinite ==
  ASSUME ConstantsOK, NEW n
  PROVE  IsFiniteSet(Open(n)) /\ Cardinality(Open(n)) \in Nat
<1>1. Open(n) \subseteq Conns
  BY DEF Open
<1> QED
  BY <1>1, FS_Subset, FS_CardinalityType DEF ConstantsOK

\* One socket changes its phase: what its handler was in, and is in, decides
\* which nodes have a connection more or less.
LEMMA OpenChanges ==
  ASSUME ConstantsOK, TypeOK, NEW c \in Conns,
         NEW v \in [ph : {"none", "hello", "open", "refused"}, node : Nodes \cup {NoNode}],
         conn' = [conn EXCEPT ![c] = v]
  PROVE  \A n \in Nodes :
           /\ c \notin Open(n) /\ v # [ph |-> "open", node |-> n] => Open(n)' = Open(n)
           /\ c \notin Open(n) /\ v = [ph |-> "open", node |-> n] =>
                Cardinality(Open(n)') = Cardinality(Open(n)) + 1
           /\ c \in Open(n) /\ v # [ph |-> "open", node |-> n] =>
                Cardinality(Open(n)') = Cardinality(Open(n)) - 1
<1> TAKE n \in Nodes
<1>0. \A d \in Conns : conn'[d] = IF d = c THEN v ELSE conn[d]
  BY DEF TypeOK
<1>1. ASSUME c \notin Open(n), v # [ph |-> "open", node |-> n] PROVE Open(n)' = Open(n)
  BY <1>0, <1>1 DEF Open
<1>2. ASSUME c \notin Open(n), v = [ph |-> "open", node |-> n]
      PROVE  Cardinality(Open(n)') = Cardinality(Open(n)) + 1
  <2>1. Open(n)' = Open(n) \cup {c}
    BY <1>0, <1>2 DEF Open
  <2> QED
    BY <1>2, <2>1, OpenFinite, FS_AddElement
<1>3. ASSUME c \in Open(n), v # [ph |-> "open", node |-> n]
      PROVE  Cardinality(Open(n)') = Cardinality(Open(n)) - 1
  <2>1. Open(n)' = Open(n) \ {c}
    BY <1>0, <1>3 DEF Open
  <2> QED
    BY <1>3, <2>1, OpenFinite, FS_RemoveElement
<1> QED
  BY <1>1, <1>2, <1>3

LEMMA Preserved ==
  ASSUME ConstantsOK, SessionsInv, [Next]_vars
  PROVE  SessionsInv'
<1> USE DEF ConstantsOK
<1>0. TypeOK /\ RefusedKnown /\ SlotsNeverLeak /\ CapUnlessRefused
  BY DEF SessionsInv
<1>1. \A n \in Nodes : Cardinality(Open(n)) \in Nat
  BY OpenFinite
\* Steps that leave the connections and the counter alone.
<1>2. ASSUME TypeOK', UNCHANGED <<conn, slots, refused>> PROVE SessionsInv'
  <2>1. \A n \in Nodes : Open(n)' = Open(n)
    BY <1>2 DEF Open
  <2> QED
    BY <1>0, <1>2, <2>1 DEF SessionsInv, RefusedKnown, SlotsNeverLeak, CapUnlessRefused
<1>3. ASSUME NEW n \in Nodes, Join(n) \/ TokenExpires(n) PROVE SessionsInv'
  BY <1>0, <1>2, <1>3 DEF Join, TokenExpires, TypeOK
<1>4. ASSUME NEW id \in Challenges, NEW n \in Nodes, PrepareRevoke(id, n) PROVE SessionsInv'
  <2>1. challenges' \subseteq [id : Challenges, node : Nodes, fresh : BOOLEAN]
    <3> DEFINE ch == [id |-> id, node |-> n, fresh |-> TRUE]
    <3>1. ch \in [id : Challenges, node : Nodes, fresh : BOOLEAN]
      OBVIOUS
    <3>2. challenges' = challenges \cup {ch}
      BY <1>4 DEF PrepareRevoke
    <3> HIDE DEF ch
    <3> QED
      BY <1>0, <3>1, <3>2 DEF TypeOK
  <2>2. TypeOK'
    BY <1>0, <1>4, <2>1 DEF PrepareRevoke, TypeOK
  <2> QED
    BY <1>2, <1>4, <2>2 DEF PrepareRevoke
<1>5. ASSUME NEW ch \in challenges, ChallengeExpires(ch) PROVE SessionsInv'
  <2>1. ch \in [id : Challenges, node : Nodes, fresh : BOOLEAN]
    BY <1>0 DEF TypeOK
  <2>2. [ch EXCEPT !.fresh = FALSE] \in [id : Challenges, node : Nodes, fresh : BOOLEAN]
    BY <2>1
  <2>3. TypeOK'
    BY <1>0, <1>5, <2>2 DEF ChallengeExpires, TypeOK
  <2> QED
    BY <1>2, <1>5, <2>3 DEF ChallengeExpires
<1>6. ASSUME NEW ch \in challenges, MeshRevoke(ch) PROVE SessionsInv'
  <2>1. ch.node \in Nodes
    BY <1>0 DEF TypeOK
  <2>2. TypeOK'
    BY <1>0, <1>6, <2>1 DEF MeshRevoke, TypeOK
  <2> QED
    BY <1>2, <1>6, <2>2 DEF MeshRevoke
<1>7. ASSUME NEW c \in Conns, Frame(c) PROVE SessionsInv'
  <2>1. conn[c].node \in Nodes
    BY <1>0, <1>7 DEF Frame, TypeOK
  <2>2. TypeOK'
    BY <1>0, <1>7, <2>1 DEF Frame, Appended, TypeOK
  <2> QED
    BY <1>2, <1>7, <2>2 DEF Frame
<1>8. ASSUME NEW r \in Requests, NEW n \in Nodes, RequestAuthorized(r, n) PROVE SessionsInv'
  BY <1>0, <1>2, <1>8 DEF RequestAuthorized, TypeOK
<1>9. ASSUME NEW r \in Requests, RequestEnds(r) PROVE SessionsInv'
  <2>1. TypeOK'
    BY <1>0, <1>9 DEF RequestEnds, Appended, TypeOK
  <2> QED
    BY <1>2, <1>9, <2>1 DEF RequestEnds
\* Steps of a connection.
<1>10. ASSUME NEW c \in Conns, Connect(c) PROVE SessionsInv'
  <2> DEFINE v == [ph |-> "hello", node |-> NoNode]
  <2>0. /\ conn[c] \in [ph : {"none", "hello", "open", "refused"}, node : Nodes \cup {NoNode}]
        /\ conn[c].ph = "none" /\ conn[c].node = NoNode
    BY <1>0, <1>10 DEF Connect, TypeOK
  <2>1. \A n \in Nodes : c \notin Open(n)
    BY <2>0 DEF Open
  <2>2. conn' = [conn EXCEPT ![c] = v]
    <3>1. [conn[c] EXCEPT !.ph = "hello"] = v
      BY <2>0
    <3>2. conn' = [conn EXCEPT ![c] = [conn[c] EXCEPT !.ph = "hello"]]
      BY <1>10 DEF Connect
    <3> QED
      BY <3>1, <3>2
  <2>3. TypeOK'
    BY <1>0, <1>10, <2>2 DEF Connect, TypeOK
  <2>4. \A n \in Nodes : Open(n)' = Open(n)
    <3>1. /\ v \in [ph : {"none", "hello", "open", "refused"}, node : Nodes \cup {NoNode}]
          /\ \A n \in Nodes : v # [ph |-> "open", node |-> n]
      OBVIOUS
    <3> HIDE DEF v
    <3> QED
      BY <1>0, <2>1, <2>2, <3>1, OpenChanges
  <2> QED
    BY <1>0, <1>10, <2>3, <2>4 DEF Connect, SessionsInv, RefusedKnown, SlotsNeverLeak, CapUnlessRefused
<1>11. ASSUME NEW c \in Conns, HelloFails(c) PROVE SessionsInv'
  <2>1. \A n \in Nodes : c \notin Open(n)
    <3>1. \A k \in Nodes : conn[c] # [ph |-> "open", node |-> k]
      BY <1>11 DEF HelloFails
    <3> QED
      BY <3>1 DEF Open
  <2>2. TypeOK'
    BY <1>0, <1>11 DEF HelloFails, NoConn, TypeOK
  <2>3. \A n \in Nodes : Open(n)' = Open(n)
    <3> DEFINE v == NoConn
    <3>1. /\ v \in [ph : {"none", "hello", "open", "refused"}, node : Nodes \cup {NoNode}]
          /\ \A n \in Nodes : v # [ph |-> "open", node |-> n]
      BY DEF NoConn
    <3>2. conn' = [conn EXCEPT ![c] = v]
      BY <1>11 DEF HelloFails
    <3> HIDE DEF v
    <3> QED
      BY <1>0, <2>1, <3>1, <3>2, OpenChanges
  <2> QED
    BY <1>0, <1>11, <2>2, <2>3 DEF HelloFails, NoConn, SessionsInv, RefusedKnown,
      SlotsNeverLeak, CapUnlessRefused
<1>12. ASSUME NEW c \in Conns, NEW n \in Nodes, NEW claimed \in Nodes, AuthRefused(c, n, claimed)
       PROVE SessionsInv'
  <2> DEFINE v == [ph |-> "refused", node |-> n]
  <2>1. \A k \in Nodes : c \notin Open(k)
    <3>1. \A k \in Nodes : conn[c] # [ph |-> "open", node |-> k]
      BY <1>12 DEF AuthRefused
    <3> QED
      BY <3>1 DEF Open
  <2>2. TypeOK'
    BY <1>0, <1>12 DEF AuthRefused, TypeOK
  <2>3. \A k \in Nodes : Open(k)' = Open(k)
    <3>1. /\ v \in [ph : {"none", "hello", "open", "refused"}, node : Nodes \cup {NoNode}]
          /\ \A k \in Nodes : v # [ph |-> "open", node |-> k]
      OBVIOUS
    <3>2. conn' = [conn EXCEPT ![c] = v]
      BY <1>12 DEF AuthRefused
    <3> HIDE DEF v
    <3> QED
      BY <1>0, <2>1, <3>1, <3>2, OpenChanges
  <2> QED
    BY <1>0, <1>12, <2>2, <2>3 DEF AuthRefused, SessionsInv, RefusedKnown, SlotsNeverLeak, CapUnlessRefused
<1>13. ASSUME NEW c \in Conns, NEW n \in Nodes, AuthAccepted(c, n) PROVE SessionsInv'
  <2> DEFINE v == [ph |-> "open", node |-> n]
  <2>1. \A k \in Nodes : c \notin Open(k)
    <3>1. \A k \in Nodes : conn[c] # [ph |-> "open", node |-> k]
      BY <1>13 DEF AuthAccepted
    <3> QED
      BY <3>1 DEF Open
  <2>2. TypeOK'
    BY <1>0, <1>13 DEF AuthAccepted, TypeOK
  <2>3. /\ \A k \in Nodes \ {n} : Open(k)' = Open(k)
        /\ Cardinality(Open(n)') = Cardinality(Open(n)) + 1
    <3>1. /\ v \in [ph : {"none", "hello", "open", "refused"}, node : Nodes \cup {NoNode}]
          /\ v = [ph |-> "open", node |-> n]
          /\ \A k \in Nodes \ {n} : v # [ph |-> "open", node |-> k]
      OBVIOUS
    <3>2. conn' = [conn EXCEPT ![c] = v]
      BY <1>13 DEF AuthAccepted
    <3> HIDE DEF v
    <3> QED
      BY <1>0, <2>1, <3>1, <3>2, OpenChanges
  <2>4. \A k \in Nodes : slots'[k] = IF k = n THEN slots[n] + 1 ELSE slots[k]
    BY <1>0, <1>13 DEF AuthAccepted, TypeOK
  <2>5. slots[n] < MaxConns /\ refused' = refused
    BY <1>13 DEF AuthAccepted
  <2>6. SlotsNeverLeak'
    BY <1>0, <1>1, <2>3, <2>4 DEF SlotsNeverLeak, TypeOK
  <2>7. CapUnlessRefused'
    BY <1>0, <1>1, <2>3, <2>4, <2>5 DEF CapUnlessRefused, TypeOK
  <2>8. RefusedKnown'
    BY <1>0, <1>13 DEF AuthAccepted, RefusedKnown, TypeOK
  <2> QED
    BY <2>2, <2>6, <2>7, <2>8 DEF SessionsInv
<1>14. ASSUME NEW c \in Conns, ConnEnds(c) PROVE SessionsInv'
  <2>1. PICK n \in Nodes : conn[c].node = n
    BY <1>0, <1>14 DEF ConnEnds, TypeOK
  <2>2. TypeOK'
    BY <1>0, <1>14, <2>1 DEF ConnEnds, NoConn, TypeOK
  <2>3. \A k \in Nodes : slots'[k] = IF k = n THEN (IF slots[n] > 1 THEN slots[n] - 1 ELSE 0)
                                     ELSE slots[k]
    BY <1>0, <1>14, <2>1 DEF ConnEnds, TypeOK
  <2> DEFINE v == NoConn
  <2>v. /\ v \in [ph : {"none", "hello", "open", "refused"}, node : Nodes \cup {NoNode}]
        /\ \A k \in Nodes : v # [ph |-> "open", node |-> k]
        /\ conn' = [conn EXCEPT ![c] = v]
    BY <1>14 DEF ConnEnds, NoConn
  <2> HIDE DEF v
  <2>4. \A k \in Nodes \ {n} : Open(k)' = Open(k)
    <3>1. \A k \in Nodes \ {n} : c \notin Open(k)
      BY <2>1 DEF Open
    <3> QED
      BY <1>0, <2>v, <3>1, OpenChanges
  <2>r. RefusedKnown'
    BY <1>0, <1>14 DEF ConnEnds, NoConn, RefusedKnown, TypeOK
  <2>5. CASE conn[c].ph = "open"
    <3>1. c \in Open(n)
      BY <1>0, <2>1, <2>5 DEF TypeOK, Open
    <3>2. Cardinality(Open(n)') = Cardinality(Open(n)) - 1
      BY <1>0, <2>v, <3>1, OpenChanges
    <3>3. Cardinality(Open(n)') \in Nat
      <4>1. Open(n)' \subseteq Conns
        BY DEF Open
      <4> QED
        BY <4>1, FS_Subset, FS_CardinalityType
    <3>4. SlotsNeverLeak'
      BY <1>0, <1>1, <2>3, <2>4, <3>2, <3>3 DEF SlotsNeverLeak, TypeOK
    <3>5. CapUnlessRefused'
      BY <1>0, <1>1, <1>14, <2>3, <2>4, <3>2, <3>3 DEF ConnEnds, CapUnlessRefused, TypeOK
    <3> QED
      BY <2>2, <2>r, <3>4, <3>5 DEF SessionsInv
  <2>6. CASE conn[c].ph = "refused"
    <3>1. Open(n)' = Open(n)
      <4>1. c \notin Open(n)
        BY <2>6 DEF Open
      <4> QED
        BY <1>0, <2>v, <4>1, OpenChanges
    <3>2. SlotsNeverLeak'
      BY <1>0, <1>1, <2>3, <2>4, <3>1 DEF SlotsNeverLeak, TypeOK
    <3>3. n \in refused
      BY <1>0, <2>1, <2>6 DEF RefusedKnown
    <3>4. CapUnlessRefused'
      BY <1>0, <1>1, <1>14, <2>3, <2>4, <3>3 DEF ConnEnds, CapUnlessRefused, TypeOK
    <3> QED
      BY <2>2, <2>r, <3>2, <3>4 DEF SessionsInv
  <2> QED
    BY <1>14, <2>5, <2>6 DEF ConnEnds
<1>15. CASE UNCHANGED vars
  BY <1>0, <1>2, <1>15 DEF vars, TypeOK
<1> QED
  BY <1>3, <1>4, <1>5, <1>6, <1>7, <1>8, <1>9, <1>10, <1>11, <1>12, <1>13, <1>14, <1>15 DEF Next

\* The counter of ws_relay_conns, for any number of nodes and sockets.
THEOREM SessionsInvariant == Spec => []SessionsInv
<1>1. Init => SessionsInv
  BY SessionsAssumption, InitEstablishes
<1>2. SessionsInv /\ [Next]_vars => SessionsInv'
  BY SessionsAssumption, Preserved
<1> QED
  BY <1>1, <1>2, PTL DEF Spec

\* No slot is kept by a connection that has ended, whatever ended it.
THEOREM NoSlotLeaks == Spec => []SlotsNeverLeak
<1>1. SessionsInv => SlotsNeverLeak
  BY DEF SessionsInv
<1> QED
  BY <1>1, SessionsInvariant, PTL

\* The limit holds for a node none of whose authenticated connections was refused.
THEOREM LimitUnlessRefused == Spec => []CapUnlessRefused
<1>1. SessionsInv => CapUnlessRefused
  BY DEF SessionsInv
<1> QED
  BY <1>1, SessionsInvariant, PTL

\* Without a token that verifies a node opens no connection and no request.
THEOREM TokensAreNeeded == Spec => NoSessionWithoutToken
<1> DEFINE Fewer(n) == /\ Open(n)' \subseteq Open(n)
                       /\ \A r \in Requests : request'[r] = n => request[r] = n
                       /\ n \in late' \ late =>
                            Open(n) # {} \/ \E r \in Requests : request[r] = n
<1>1. ASSUME TypeOK, [Next]_vars, NEW n \in Nodes, status[n] # "active"
      PROVE  Fewer(n)
  <2>1. CASE UNCHANGED <<conn, request, late>>
    BY <2>1 DEF Open
  <2>2. ASSUME NEW c \in Conns, Connect(c) \/ HelloFails(c) \/ ConnEnds(c)
        PROVE  Fewer(n)
    BY <1>1, <2>2, SessionsAssumption
       DEF Connect, HelloFails, ConnEnds, NoConn, Open, TypeOK, ConstantsOK
  <2>3. ASSUME NEW c \in Conns, NEW k \in Nodes, NEW claimed \in Nodes, AuthRefused(c, k, claimed)
        PROVE  Fewer(n)
    BY <1>1, <2>3 DEF AuthRefused, Open, TypeOK
  <2>4. ASSUME NEW c \in Conns, NEW k \in Nodes, AuthAccepted(c, k)
        PROVE  Fewer(n)
    <3>1. k # n
      BY <1>1, <2>4 DEF AuthAccepted, VerifyToken
    <3> QED
      BY <1>1, <2>4, <3>1 DEF AuthAccepted, Open, TypeOK
  <2>5. ASSUME NEW r \in Requests, NEW k \in Nodes, RequestAuthorized(r, k)
        PROVE  Fewer(n)
    <3>1. k # n
      BY <1>1, <2>5 DEF RequestAuthorized, VerifyToken
    <3> QED
      BY <1>1, <2>5, <3>1 DEF RequestAuthorized, Open, TypeOK
  <2>6. ASSUME NEW r \in Requests, RequestEnds(r)
        PROVE  Fewer(n)
    BY <1>1, <2>6, SessionsAssumption
       DEF RequestEnds, Appended, Open, TypeOK, ConstantsOK
  <2>7. ASSUME NEW c \in Conns, Frame(c)
        PROVE  Fewer(n)
    <3>1. n \in late' \ late => c \in Open(n)
      BY <1>1, <2>7 DEF Frame, Appended, Open, TypeOK
    <3> QED
      BY <1>1, <2>7, <3>1 DEF Frame, Open
  <2> QED
    BY <1>1, <2>1, <2>2, <2>3, <2>4, <2>5, <2>6, <2>7
    DEF Next, vars, Join, TokenExpires, PrepareRevoke, ChallengeExpires, MeshRevoke
<1>2. SessionsInv => TypeOK
  BY DEF SessionsInv
<1>3. SessionsInv /\ [Next]_vars =>
        [\A n \in Nodes : status[n] # "active" =>
           /\ Open(n)' \subseteq Open(n)
           /\ \A r \in Requests : request'[r] = n => request[r] = n
           /\ n \in late' \ late =>
                Open(n) # {} \/ \E r \in Requests : request[r] = n]_vars
  BY <1>1, <1>2
<1> QED
  BY <1>3, SessionsInvariant, PTL DEF Spec, NoSessionWithoutToken

\* A node is only revoked with a fresh challenge prepared for it, which is popped from
\* mesh_challenges in the same step (server.py api_mesh_revoke): one confirmation
\* never revokes twice.
THEOREM OneRevocationPerChallenge == Spec => ChallengeUsedOnce
<1> DEFINE Used(n) == \E ch \in challenges \ challenges' : ch.node = n /\ ch.fresh
<1>1. ASSUME TypeOK, [Next]_vars, NEW n \in Nodes, status[n] # "revoked", status'[n] = "revoked"
      PROVE  Used(n)
  <2>1. \A k \in Nodes : ~Join(k) /\ ~TokenExpires(k)
    BY <1>1 DEF Join, TokenExpires, TypeOK
  <2>2. status' # status
    BY <1>1
  <2>3. PICK ch \in challenges : MeshRevoke(ch)
    BY <1>1, <2>1, <2>2
       DEF Next, vars, PrepareRevoke, ChallengeExpires, Connect, HelloFails, Frame, ConnEnds,
           AuthRefused, AuthAccepted, RequestAuthorized, RequestEnds
  <2>4. ch.fresh /\ status' = [status EXCEPT ![ch.node] = "revoked"]
    BY <2>2, <2>3 DEF MeshRevoke
  <2>5. ch.node = n
    BY <1>1, <2>4 DEF TypeOK
  <2>6. ch \in challenges \ challenges'
    BY <2>3 DEF MeshRevoke
  <2> QED
    BY <2>4, <2>5, <2>6
<1>2. SessionsInv => TypeOK
  BY DEF SessionsInv
<1>3. SessionsInv /\ [Next]_vars =>
        [\A n \in Nodes : status[n] # "revoked" /\ status'[n] = "revoked" =>
           \E ch \in challenges \ challenges' : ch.node = n /\ ch.fresh]_vars
  BY <1>1, <1>2
<1> QED
  BY <1>3, SessionsInvariant, PTL DEF Spec, ChallengeUsedOnce
=============================================================================
