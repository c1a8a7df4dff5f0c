-------------------------- MODULE MembershipProofs --------------------------
(***************************************************************************)
(* Theorems about Membership, for any nodes, codes, tokens and number of   *)
(* faults.  MembershipInv is inductive: one lemma per action of Next, and  *)
(* the properties follow from it.                                          *)
(***************************************************************************)
EXTENDS Membership, TLAPS

\* Memory keeps its type, and of its two books a call changes at most one, at its
\* own node.
LEMMA ChangedBooks ==
  ASSUME TypeOK, CallOK
  PROVE  /\ Changed \in Books
         /\ pc = "issue" => /\ Changed.nodes = mem.nodes
                            /\ Changed.certs = [mem.certs EXCEPT ![call.node] = "valid"]
         /\ pc \in {"register", "strike"} => Changed.certs = mem.certs
         /\ pc = "register" => Changed.nodes = [mem.nodes EXCEPT ![call.node] = "active"]
         /\ pc = "strike" => Changed.nodes = [mem.nodes EXCEPT ![call.node] = "revoked"]
         /\ pc = "uncertify" =>
              /\ Changed.nodes = mem.nodes
              /\ Changed.certs = [mem.certs EXCEPT ![call.node] =
                                    IF @ = "none" THEN @ ELSE "revoked"]
         /\ pc \notin {"issue", "register", "strike", "uncertify"} => Changed = mem
<1> mem \in Books
  BY DEF TypeOK
<1>1. CASE pc = "issue"
  <2>1. call.node \in Nodes
    BY <1>1 DEF CallOK, Joining, JoinCall
  <2>2. Changed = [mem EXCEPT !.certs[call.node] = "valid"]
    BY <1>1 DEF Changed
  <2> QED
    BY <1>1, <2>1, <2>2 DEF Books
<1>2. CASE pc = "register"
  <2>1. call.node \in Nodes
    BY <1>2 DEF CallOK, Joining, JoinCall
  <2>2. Changed = [mem EXCEPT !.nodes[call.node] = "active"]
    BY <1>2 DEF Changed
  <2> QED
    BY <1>2, <2>1, <2>2 DEF Books
<1>3. CASE pc = "strike"
  <2>1. call.node \in Nodes
    BY <1>3 DEF CallOK, RevokeCall
  <2>2. Changed = [mem EXCEPT !.nodes[call.node] = "revoked"]
    BY <1>3 DEF Changed
  <2> QED
    BY <1>3, <2>1, <2>2 DEF Books
<1>4. CASE pc = "uncertify"
  <2>1. call.node \in Nodes
    BY <1>4 DEF CallOK, Revoking, RevokeCall
  <2>2. Changed = [mem EXCEPT !.certs[call.node] = IF @ = "none" THEN @ ELSE "revoked"]
    BY <1>4 DEF Changed
  <2> QED
    BY <1>4, <2>1, <2>2 DEF Books
<1>5. CASE pc \notin {"issue", "register", "strike", "uncertify"}
  <2>1. Changed = mem
    BY <1>5 DEF Changed
  <2> QED
    BY <1>5, <2>1
<1> QED
  BY <1>1, <1>2, <1>3, <1>4, <1>5

\* The empty stores have the invariant.
LEMMA InitEstablishes == MembershipAssumption /\ Init => MembershipInv
<1> SUFFICES ASSUME MembershipAssumption, Init PROVE MembershipInv
  OBVIOUS
<1>1. NoNodes \in Books
  BY DEF NoNodes, Books
<1>2. TypeOK
  <2>1. disk \in Books /\ mem \in Books /\ faults \in 0 .. MaxFaults
    BY <1>1 DEF MembershipAssumption, Init
  <2> QED
    BY <2>1 DEF Init, TypeOK
<1>3. CallOK /\ CodesOK /\ TokensOK
  BY DEF Init, CallOK, CodesOK, TokensOK, Joining, Revoking
<1>4. RevokedOK /\ MembersOK
  BY DEF Init, RevokedOK, MembersOK, NoNodes
<1> QED
  BY <1>2, <1>3, <1>4 DEF MembershipInv

\* CreateInvite preserves the invariant.
LEMMA CreateInvitePreserves ==
  ASSUME MembershipAssumption, MembershipInv, NEW c \in Codes,
  NEW n \in Nodes \cup {AnyNode}, CreateInvite(c, n)
  PROVE  MembershipInv'
<1> TypeOK /\ CallOK /\ CodesOK /\ TokensOK /\ RevokedOK /\ MembersOK
  BY DEF MembershipInv
<1> USE DEF MembershipAssumption, stores, history
<1>1. TypeOK'
  <2>1. [code |-> c, node |-> n, used |-> FALSE] \in Code
    BY DEF Code
  <2>2. codes' \subseteq Code
    BY <2>1 DEF CreateInvite, TypeOK
  <2> QED
    BY <2>1 DEF CreateInvite, TypeOK
<1>2. CallOK'
  BY DEF CreateInvite, CallOK, Joining, Revoking, JoinCall, RevokeCall, NoNodes, Books,
      TypeOK
<1>3. CodesOK'
  BY DEF CreateInvite, CodesOK, Code, JoinCall, TypeOK
<1>4. TokensOK'
  BY DEF CreateInvite, TokensOK, Token, JoinCall, TypeOK, CallOK
<1>5. RevokedOK'
  BY DEF CreateInvite, RevokedOK, Revoking, Books, NoNodes, TypeOK, CallOK
<1>6. MembersOK'
  BY DEF CreateInvite, MembersOK, Joining, Revoking, Books, NoNodes, JoinCall, TypeOK,
      CallOK, RevokedOK, TokensOK, CodesOK
<1> QED
  BY <1>1, <1>2, <1>3, <1>4, <1>5, <1>6 DEF MembershipInv

\* Join preserves the invariant.
LEMMA JoinPreserves ==
  ASSUME MembershipAssumption, MembershipInv, NEW n \in Nodes, NEW c \in Codes,
  NEW t \in Tokens, Join(n, c, t)
  PROVE  MembershipInv'
<1> TypeOK /\ CallOK /\ CodesOK /\ TokensOK /\ RevokedOK /\ MembersOK
  BY DEF MembershipInv
<1> USE DEF MembershipAssumption, stores, history
<1>1. TypeOK'
  BY DEF Join, Spent, TypeOK, Code, Token, JoinCall, RevokeCall, Books
<1>2. CallOK'
  BY DEF Join, Spent, CallOK, Joining, Revoking, JoinCall, RevokeCall, NoNodes, Books,
      TypeOK
<1>3. CodesOK'
  BY DEF Join, Spent, CodesOK, Code, JoinCall, TypeOK
<1>4. TokensOK'
  BY DEF Join, Spent, TokensOK, Token, JoinCall, TypeOK, CallOK
<1>5. RevokedOK'
  BY DEF Join, Spent, RevokedOK, Revoking, Books, NoNodes, TypeOK, CallOK
<1>6. MembersOK'
  BY DEF Join, Spent, MembersOK, Joining, Revoking, Books, NoNodes, JoinCall, TypeOK,
      CallOK, RevokedOK, TokensOK, CodesOK
<1> QED
  BY <1>1, <1>2, <1>3, <1>4, <1>5, <1>6 DEF MembershipInv

\* Issue preserves the invariant.
LEMMA IssuePreserves ==
  ASSUME MembershipAssumption, MembershipInv, Issue
  PROVE  MembershipInv'
<1> TypeOK /\ CallOK /\ CodesOK /\ TokensOK /\ RevokedOK /\ MembersOK
  BY DEF MembershipInv
<1> USE DEF MembershipAssumption, stores, history
<1>0. mem' = Changed /\ Changed \in Books
  BY ChangedBooks DEF Goes, Issue
<1>1. TypeOK'
  BY <1>0, ChangedBooks DEF Issue, SaveNodes, Goes, TypeOK, Code, Token, JoinCall,
      RevokeCall, Books
<1>2. CallOK'
  BY <1>0, ChangedBooks DEF Issue, SaveNodes, Goes, CallOK, Joining, Revoking, JoinCall,
      RevokeCall, NoNodes, Books, TypeOK
<1>3. CodesOK'
  BY <1>0, ChangedBooks DEF Issue, SaveNodes, Goes, CodesOK, Code, JoinCall, TypeOK
<1>4. TokensOK'
  BY <1>0, ChangedBooks DEF Issue, SaveNodes, Goes, TokensOK, Token, JoinCall, TypeOK,
      CallOK
<1>5. RevokedOK'
  BY <1>0, ChangedBooks DEF Issue, SaveNodes, Goes, RevokedOK, Revoking, Books, NoNodes,
      TypeOK, CallOK
<1>6. MembersOK'
  BY <1>0, ChangedBooks DEF Issue, SaveNodes, Goes, MembersOK, Joining, Revoking, Books,
      NoNodes, JoinCall, TypeOK, CallOK, RevokedOK, TokensOK, CodesOK
<1> QED
  BY <1>1, <1>2, <1>3, <1>4, <1>5, <1>6 DEF MembershipInv

\* UseCode preserves the invariant.
LEMMA UseCodePreserves ==
  ASSUME MembershipAssumption, MembershipInv, UseCode
  PROVE  MembershipInv'
<1> TypeOK /\ CallOK /\ CodesOK /\ TokensOK /\ RevokedOK /\ MembersOK
  BY DEF MembershipInv
<1> USE DEF MembershipAssumption, stores, history
<1>0. mem' = Changed /\ Changed \in Books
  BY ChangedBooks DEF Goes, UseCode
<1>1. TypeOK'
  <2>1. codes' \subseteq Code
    BY DEF UseCode, TypeOK, Code, Goes
  <2>2. tokens' \subseteq Token
    BY DEF UseCode, TypeOK, CallOK, Joining, JoinCall, Token, Goes
  <2>3. mem' \in Books /\ disk' \in Books
    BY <1>0 DEF UseCode, TypeOK, Books, Goes
  <2>4. call' \in JoinCall \cup RevokeCall \cup {NoCall} /\ call.node \in Nodes
    BY DEF UseCode, TypeOK, CallOK, Joining, Revoking, JoinCall, RevokeCall, Goes
  <2>5. /\ revoked' \subseteq Nodes /\ struck' \subseteq Nodes /\ out' \subseteq Nodes
        /\ minted' \subseteq JoinCall /\ granted' \subseteq minted'
    BY <2>4 DEF UseCode, TypeOK, CallOK, CodesOK, Joining, Goes
  <2> QED
    BY <2>1, <2>2, <2>3, <2>4, <2>5 DEF UseCode, TypeOK, Goes
<1>2. CallOK'
  BY <1>0, ChangedBooks DEF UseCode, Goes, CallOK, Joining, Revoking, JoinCall,
      RevokeCall, NoNodes, Books, TypeOK
<1>3. CodesOK'
  <2>1. ASSUME NEW r \in codes'
        PROVE  /\ \A m \in minted : r.code = m.code => r.used
               /\ r.code = call.code => r.used
    <3>1. PICK q \in codes : r = [q EXCEPT !.used = @ \/ q.code = call.code]
      BY <2>1 DEF UseCode
    <3>2. q \in Code
      BY DEF TypeOK
    <3>3. r.code = q.code
      BY <3>1, <3>2 DEF Code
    <3>4. q.used \/ q.code = call.code => r.used
      BY <3>1, <3>2 DEF Code
    <3> QED
      BY <3>3, <3>4, Zenon DEF CodesOK
  <2>2. minted' = minted /\ call' = call /\ pc' = "token"
    BY DEF UseCode, Goes
  <2>3. \A m \in minted : m.code # call.code /\ m.token # call.token
    BY DEF UseCode, Goes, CodesOK
  <2>4. \A m1, m2 \in minted : m1.code = m2.code \/ m1.token = m2.token => m1 = m2
    BY DEF CodesOK
  <2> QED
    BY <2>1, <2>2, <2>3, <2>4 DEF CodesOK
<1>4. TokensOK'
  BY <1>0, ChangedBooks DEF UseCode, Goes, TokensOK, Token, JoinCall, TypeOK, CallOK
<1>5. RevokedOK'
  BY <1>0, ChangedBooks DEF UseCode, Goes, RevokedOK, Revoking, Books, NoNodes, TypeOK,
      CallOK
<1>6. MembersOK'
  BY <1>0, ChangedBooks DEF UseCode, Goes, MembersOK, Joining, Revoking, Books, NoNodes,
      JoinCall, TypeOK, CallOK, RevokedOK, TokensOK, CodesOK
<1> QED
  BY <1>1, <1>2, <1>3, <1>4, <1>5, <1>6 DEF MembershipInv

\* StoreToken preserves the invariant.
LEMMA StoreTokenPreserves ==
  ASSUME MembershipAssumption, MembershipInv, StoreToken
  PROVE  MembershipInv'
<1> TypeOK /\ CallOK /\ CodesOK /\ TokensOK /\ RevokedOK /\ MembersOK
  BY DEF MembershipInv
<1> USE DEF MembershipAssumption, stores, history
<1>0. mem' = Changed /\ Changed \in Books
  BY ChangedBooks DEF Goes, StoreToken
<1>1. TypeOK'
  <2>1. codes' \subseteq Code
    BY DEF StoreToken, TypeOK, Code, Goes
  <2>2. tokens' \subseteq Token
    <3>1. call.node \in Nodes /\ call.token \in Tokens
      BY DEF StoreToken, Goes, CallOK, Joining, JoinCall
    <3>2. [token |-> call.token, node |-> call.node, revoked |-> FALSE] \in Token
      BY <3>1 DEF Token
    <3> QED
      BY <3>2 DEF StoreToken, TypeOK
  <2>3. mem' \in Books /\ disk' \in Books
    BY <1>0 DEF StoreToken, TypeOK, Books, Goes
  <2>4. call' \in JoinCall \cup RevokeCall \cup {NoCall} /\ call.node \in Nodes
    BY DEF StoreToken, TypeOK, CallOK, Joining, Revoking, JoinCall, RevokeCall, Goes
  <2>5. /\ revoked' \subseteq Nodes /\ struck' \subseteq Nodes /\ out' \subseteq Nodes
        /\ minted' \subseteq JoinCall /\ granted' \subseteq minted'
    BY <2>4 DEF StoreToken, TypeOK, CallOK, CodesOK, Joining, Goes
  <2> QED
    BY <2>1, <2>2, <2>3, <2>4, <2>5 DEF StoreToken, TypeOK, Goes
<1>2. CallOK'
  BY <1>0, ChangedBooks DEF StoreToken, Goes, CallOK, Joining, Revoking, JoinCall,
      RevokeCall, NoNodes, Books, TypeOK
<1>3. CodesOK'
  BY <1>0, ChangedBooks DEF StoreToken, Goes, CodesOK, Code, JoinCall, TypeOK
<1>4. TokensOK'
  BY <1>0, ChangedBooks DEF StoreToken, Goes, TokensOK, Token, JoinCall, TypeOK, CallOK
<1>5. RevokedOK'
  BY <1>0, ChangedBooks DEF StoreToken, Goes, RevokedOK, Revoking, Books, NoNodes,
      TypeOK, CallOK
<1>6. MembersOK'
  BY <1>0, ChangedBooks DEF StoreToken, Goes, MembersOK, Joining, Revoking, Books,
      NoNodes, JoinCall, TypeOK, CallOK, RevokedOK, TokensOK, CodesOK
<1> QED
  BY <1>1, <1>2, <1>3, <1>4, <1>5, <1>6 DEF MembershipInv

\* Register preserves the invariant.
LEMMA RegisterPreserves ==
  ASSUME MembershipAssumption, MembershipInv, Register
  PROVE  MembershipInv'
<1> TypeOK /\ CallOK /\ CodesOK /\ TokensOK /\ RevokedOK /\ MembersOK
  BY DEF MembershipInv
<1> USE DEF MembershipAssumption, stores, history
<1>0. mem' = Changed /\ Changed \in Books
  BY ChangedBooks DEF Goes, Register
<1>1. TypeOK'
  <2>1. codes' \subseteq Code
    BY DEF Register, TypeOK, Code, Goes, SaveState
  <2>2. tokens' \subseteq Token
    BY DEF Register, TypeOK, CallOK, Joining, JoinCall, Token, Goes, SaveState
  <2>3. mem' \in Books /\ disk' \in Books
    BY <1>0 DEF Register, TypeOK, Books, Goes, SaveState
  <2>4. call' \in JoinCall \cup RevokeCall \cup {NoCall} /\ call.node \in Nodes
    BY DEF Register, TypeOK, CallOK, Joining, Revoking, JoinCall, RevokeCall, Goes,
        SaveState
  <2>5. /\ revoked' \subseteq Nodes /\ struck' \subseteq Nodes /\ out' \subseteq Nodes
        /\ minted' \subseteq JoinCall /\ granted' \subseteq minted'
    BY <2>4 DEF Register, TypeOK, CallOK, CodesOK, Joining, Goes, SaveState
  <2> QED
    BY <2>1, <2>2, <2>3, <2>4, <2>5 DEF Register, TypeOK, Goes, SaveState
<1>2. CallOK'
  BY <1>0, ChangedBooks DEF Register, SaveState, Goes, CallOK, Joining, Revoking,
      JoinCall, RevokeCall, NoNodes, Books, TypeOK
<1>3. CodesOK'
  BY <1>0, ChangedBooks DEF Register, SaveState, Goes, CodesOK, Code, JoinCall, TypeOK
<1>4. TokensOK'
  BY <1>0, ChangedBooks DEF Register, SaveState, Goes, TokensOK, Token, JoinCall, TypeOK,
      CallOK
<1>5. RevokedOK'
  <2>1. pc = "register" /\ call.node \in Nodes
    BY DEF Register, Goes, SaveState, CallOK, Joining, JoinCall, RevokeCall
  <2>2. mem'.certs = mem.certs /\ mem'.nodes = [mem.nodes EXCEPT ![call.node] = "active"]
    BY <1>0, <2>1, ChangedBooks
  <2>3. disk' = [disk EXCEPT !.nodes = mem'.nodes]
    BY DEF Register, Goes, SaveState
  <2> QED
    BY <2>1, <2>2, <2>3 DEF Register, Goes, SaveState, TypeOK, CallOK, Joining,
        RevokedOK, Books
<1>6. MembersOK'
  BY <1>0, ChangedBooks DEF Register, SaveState, Goes, MembersOK, Joining, Revoking,
      Books, NoNodes, JoinCall, TypeOK, CallOK, RevokedOK, TokensOK, CodesOK
<1> QED
  BY <1>1, <1>2, <1>3, <1>4, <1>5, <1>6 DEF MembershipInv

\* Revoke preserves the invariant.
LEMMA RevokePreserves ==
  ASSUME MembershipAssumption, MembershipInv, NEW n \in Nodes, Revoke(n)
  PROVE  MembershipInv'
<1> TypeOK /\ CallOK /\ CodesOK /\ TokensOK /\ RevokedOK /\ MembersOK
  BY DEF MembershipInv
<1> USE DEF MembershipAssumption, stores, history
<1>1. TypeOK'
  BY DEF Revoke, TypeOK, Code, Token, JoinCall, RevokeCall, Books
<1>2. CallOK'
  BY DEF Revoke, CallOK, Joining, Revoking, JoinCall, RevokeCall, NoNodes, Books, TypeOK
<1>3. CodesOK'
  BY DEF Revoke, CodesOK, Code, JoinCall, TypeOK
<1>4. TokensOK'
  BY DEF Revoke, TokensOK, Token, JoinCall, TypeOK, CallOK
<1>5. RevokedOK'
  BY DEF Revoke, RevokedOK, Revoking, Books, NoNodes, TypeOK, CallOK
<1>6. MembersOK'
  BY DEF Revoke, MembersOK, Joining, Revoking, Books, NoNodes, JoinCall, TypeOK, CallOK,
      RevokedOK, TokensOK, CodesOK
<1> QED
  BY <1>1, <1>2, <1>3, <1>4, <1>5, <1>6 DEF MembershipInv

\* Strike preserves the invariant.
LEMMA StrikePreserves ==
  ASSUME MembershipAssumption, MembershipInv, Strike
  PROVE  MembershipInv'
<1> TypeOK /\ CallOK /\ CodesOK /\ TokensOK /\ RevokedOK /\ MembersOK
  BY DEF MembershipInv
<1> USE DEF MembershipAssumption, stores, history
<1>0. mem' = Changed /\ Changed \in Books
  BY ChangedBooks DEF Goes, Strike
<1>1. TypeOK'
  <2>1. codes' \subseteq Code
    BY DEF Strike, TypeOK, Code, Goes, SaveState
  <2>2. tokens' \subseteq Token
    BY DEF Strike, TypeOK, CallOK, Joining, JoinCall, Token, Goes, SaveState
  <2>3. mem' \in Books /\ disk' \in Books
    BY <1>0 DEF Strike, TypeOK, Books, Goes, SaveState
  <2>4. call' \in JoinCall \cup RevokeCall \cup {NoCall} /\ call.node \in Nodes
    BY DEF Strike, TypeOK, CallOK, Joining, Revoking, JoinCall, RevokeCall, Goes, SaveState
  <2>5. /\ revoked' \subseteq Nodes /\ struck' \subseteq Nodes /\ out' \subseteq Nodes
        /\ minted' \subseteq JoinCall /\ granted' \subseteq minted'
    BY <2>4 DEF Strike, TypeOK, CallOK, CodesOK, Joining, Goes, SaveState
  <2> QED
    BY <2>1, <2>2, <2>3, <2>4, <2>5 DEF Strike, TypeOK, Goes, SaveState
<1>2. CallOK'
  BY <1>0, ChangedBooks DEF Strike, SaveState, Goes, CallOK, Joining, Revoking, JoinCall,
      RevokeCall, NoNodes, Books, TypeOK
<1>3. CodesOK'
  BY <1>0, ChangedBooks DEF Strike, SaveState, Goes, CodesOK, Code, JoinCall, TypeOK
<1>4. TokensOK'
  BY <1>0, ChangedBooks DEF Strike, SaveState, Goes, TokensOK, Token, JoinCall, TypeOK,
      CallOK
<1>5. RevokedOK'
  <2>1. pc = "strike" /\ call.node \in Nodes
    BY DEF Strike, Goes, SaveState, CallOK, Joining, JoinCall, RevokeCall
  <2>2. mem'.certs = mem.certs /\ mem'.nodes = [mem.nodes EXCEPT ![call.node] = "revoked"]
    BY <1>0, <2>1, ChangedBooks
  <2>3. disk' = [disk EXCEPT !.nodes = mem'.nodes]
    BY DEF Strike, Goes, SaveState
  <2> QED
    BY <2>1, <2>2, <2>3 DEF Strike, Goes, SaveState, TypeOK, CallOK, Joining, RevokedOK,
        Books
<1>6. MembersOK'
  BY <1>0, ChangedBooks DEF Strike, SaveState, Goes, MembersOK, Joining, Revoking, Books,
      NoNodes, JoinCall, TypeOK, CallOK, RevokedOK, TokensOK, CodesOK
<1> QED
  BY <1>1, <1>2, <1>3, <1>4, <1>5, <1>6 DEF MembershipInv

\* Uncertify preserves the invariant.
LEMMA UncertifyPreserves ==
  ASSUME MembershipAssumption, MembershipInv, Uncertify
  PROVE  MembershipInv'
<1> TypeOK /\ CallOK /\ CodesOK /\ TokensOK /\ RevokedOK /\ MembersOK
  BY DEF MembershipInv
<1> USE DEF MembershipAssumption, stores, history
<1>0. mem' = Changed /\ Changed \in Books
  BY ChangedBooks DEF Goes, Uncertify
<1>1. TypeOK'
  BY <1>0, ChangedBooks DEF Uncertify, SaveNodes, Goes, TypeOK, Code, Token, JoinCall,
      RevokeCall, Books
<1>2. CallOK'
  BY <1>0, ChangedBooks DEF Uncertify, SaveNodes, Goes, CallOK, Joining, Revoking,
      JoinCall, RevokeCall, NoNodes, Books, TypeOK
<1>3. CodesOK'
  BY <1>0, ChangedBooks DEF Uncertify, SaveNodes, Goes, CodesOK, Code, JoinCall, TypeOK
<1>4. TokensOK'
  BY <1>0, ChangedBooks DEF Uncertify, SaveNodes, Goes, TokensOK, Token, JoinCall,
      TypeOK, CallOK
<1>5. RevokedOK'
  BY <1>0, ChangedBooks DEF Uncertify, SaveNodes, Goes, RevokedOK, Revoking, Books,
      NoNodes, TypeOK, CallOK
<1>6. MembersOK'
  BY <1>0, ChangedBooks DEF Uncertify, SaveNodes, Goes, MembersOK, Joining, Revoking,
      Books, NoNodes, JoinCall, TypeOK, CallOK, RevokedOK, TokensOK, CodesOK
<1> QED
  BY <1>1, <1>2, <1>3, <1>4, <1>5, <1>6 DEF MembershipInv

\* ListRevoked preserves the invariant.
LEMMA ListRevokedPreserves ==
  ASSUME MembershipAssumption, MembershipInv, ListRevoked
  PROVE  MembershipInv'
<1> TypeOK /\ CallOK /\ CodesOK /\ TokensOK /\ RevokedOK /\ MembersOK
  BY DEF MembershipInv
<1> USE DEF MembershipAssumption, stores, history
<1>0. mem' = Changed /\ Changed \in Books
  BY ChangedBooks DEF Goes, ListRevoked
<1>1. TypeOK'
  <2>1. codes' \subseteq Code
    BY DEF ListRevoked, TypeOK, Code, Goes
  <2>2. tokens' \subseteq Token
    BY DEF ListRevoked, TypeOK, CallOK, Joining, JoinCall, Token, Goes
  <2>3. mem' \in Books /\ disk' \in Books
    BY <1>0 DEF ListRevoked, TypeOK, Books, Goes
  <2>4. call' \in JoinCall \cup RevokeCall \cup {NoCall} /\ call.node \in Nodes
    BY DEF ListRevoked, TypeOK, CallOK, Joining, Revoking, JoinCall, RevokeCall, Goes
  <2>5. /\ revoked' \subseteq Nodes /\ struck' \subseteq Nodes /\ out' \subseteq Nodes
        /\ minted' \subseteq JoinCall /\ granted' \subseteq minted'
    BY <2>4 DEF ListRevoked, TypeOK, CallOK, CodesOK, Joining, Goes
  <2> QED
    BY <2>1, <2>2, <2>3, <2>4, <2>5 DEF ListRevoked, TypeOK, Goes
<1>2. CallOK'
  BY <1>0, ChangedBooks DEF ListRevoked, Goes, CallOK, Joining, Revoking, JoinCall,
      RevokeCall, NoNodes, Books, TypeOK
<1>3. CodesOK'
  BY <1>0, ChangedBooks DEF ListRevoked, Goes, CodesOK, Code, JoinCall, TypeOK
<1>4. TokensOK'
  BY <1>0, ChangedBooks DEF ListRevoked, Goes, TokensOK, Token, JoinCall, TypeOK, CallOK
<1>5. RevokedOK'
  BY <1>0, ChangedBooks DEF ListRevoked, Goes, RevokedOK, Revoking, Books, NoNodes,
      TypeOK, CallOK
<1>6. MembersOK'
  BY <1>0, ChangedBooks DEF ListRevoked, Goes, MembersOK, Joining, Revoking, Books,
      NoNodes, JoinCall, TypeOK, CallOK, RevokedOK, TokensOK, CodesOK
<1> QED
  BY <1>1, <1>2, <1>3, <1>4, <1>5, <1>6 DEF MembershipInv

\* Untoken preserves the invariant.
LEMMA UntokenPreserves ==
  ASSUME MembershipAssumption, MembershipInv, Untoken
  PROVE  MembershipInv'
<1> TypeOK /\ CallOK /\ CodesOK /\ TokensOK /\ RevokedOK /\ MembersOK
  BY DEF MembershipInv
<1> USE DEF MembershipAssumption, stores, history
<1>0. mem' = Changed /\ Changed \in Books
  BY ChangedBooks DEF Goes, Untoken
<1>1. TypeOK'
  <2>1. codes' \subseteq Code
    BY DEF Untoken, TypeOK, Code, Goes
  <2>2. tokens' \subseteq Token
    <3> SUFFICES ASSUME NEW r \in tokens
                 PROVE  [r EXCEPT !.revoked = @ \/ r.node = call.node] \in Token
      BY DEF Untoken
    <3>1. r \in Token
      BY DEF TypeOK
    <3>2. (r.revoked \/ r.node = call.node) \in BOOLEAN
      OBVIOUS
    <3> HIDE DEF TypeOK
    <3> QED
      BY <3>1, <3>2 DEF Token
  <2>3. mem' \in Books /\ disk' \in Books
    BY <1>0 DEF Untoken, TypeOK, Books, Goes
  <2>4. call' \in JoinCall \cup RevokeCall \cup {NoCall} /\ call.node \in Nodes
    BY DEF Untoken, TypeOK, CallOK, Joining, Revoking, JoinCall, RevokeCall, Goes
  <2>5. /\ revoked' \subseteq Nodes /\ struck' \subseteq Nodes /\ out' \subseteq Nodes
        /\ minted' \subseteq JoinCall /\ granted' \subseteq minted'
    BY <2>4 DEF Untoken, TypeOK, CallOK, CodesOK, Joining, Goes
  <2> QED
    BY <2>1, <2>2, <2>3, <2>4, <2>5 DEF Untoken, TypeOK, Goes
<1>2. CallOK'
  BY <1>0, ChangedBooks DEF Untoken, Goes, CallOK, Joining, Revoking, JoinCall,
      RevokeCall, NoNodes, Books, TypeOK
<1>3. CodesOK'
  BY <1>0, ChangedBooks DEF Untoken, Goes, CodesOK, Code, JoinCall, TypeOK
<1>4. TokensOK'
  <2>1. \A r \in tokens' : \E q \in tokens : r.token = q.token /\ r.node = q.node
    BY DEF Untoken, TypeOK, Token
  <2>2. ASSUME NEW r \in tokens, r.node # call.node PROVE r \in tokens'
    <3>1. [r EXCEPT !.revoked = @ \/ r.node = call.node] = r
      BY <2>2 DEF TypeOK, Token
    <3> QED
      BY <3>1 DEF Untoken
  <2>3. \A r \in tokens' : \E m \in minted : m.token = r.token /\ m.node = r.node
    BY <2>1 DEF TokensOK
  <2>4. \A m \in granted :
          \/ m.token \in old \/ m.node \in out'
          \/ [token |-> m.token, node |-> m.node, revoked |-> FALSE] \in tokens'
    BY <2>2 DEF TokensOK, Untoken
  <2> QED
    BY <2>3, <2>4 DEF Untoken, Goes, TokensOK
<1>5. RevokedOK'
  BY <1>0, ChangedBooks DEF Untoken, Goes, RevokedOK, Revoking, Books, NoNodes, TypeOK,
      CallOK
<1>6. MembersOK'
  BY <1>0, ChangedBooks DEF Untoken, Goes, MembersOK, Joining, Revoking, Books, NoNodes,
      JoinCall, TypeOK, CallOK, RevokedOK, TokensOK, CodesOK
<1> QED
  BY <1>1, <1>2, <1>3, <1>4, <1>5, <1>6 DEF MembershipInv

\* SavesState preserves the invariant.
LEMMA SavesStatePreserves ==
  ASSUME MembershipAssumption, MembershipInv, SavesState
  PROVE  MembershipInv'
<1> TypeOK /\ CallOK /\ CodesOK /\ TokensOK /\ RevokedOK /\ MembersOK
  BY DEF MembershipInv
<1> USE DEF MembershipAssumption, stores, history
<1>1. TypeOK'
  BY DEF SavesState, SaveState, TypeOK, Code, Token, JoinCall, RevokeCall, Books
<1>2. CallOK'
  BY DEF SavesState, SaveState, CallOK, Joining, Revoking, JoinCall, RevokeCall, NoNodes,
      Books, TypeOK
<1>3. CodesOK'
  BY DEF SavesState, SaveState, CodesOK, Code, JoinCall, TypeOK
<1>4. TokensOK'
  BY DEF SavesState, SaveState, TokensOK, Token, JoinCall, TypeOK, CallOK
<1>5. RevokedOK'
  BY DEF SavesState, SaveState, RevokedOK, Revoking, Books, NoNodes, TypeOK, CallOK
<1>6. MembersOK'
  BY DEF SavesState, SaveState, MembersOK, Joining, Revoking, Books, NoNodes, JoinCall,
      TypeOK, CallOK, RevokedOK, TokensOK, CodesOK
<1> QED
  BY <1>1, <1>2, <1>3, <1>4, <1>5, <1>6 DEF MembershipInv

\* WriteFails preserves the invariant.
LEMMA WriteFailsPreserves ==
  ASSUME MembershipAssumption, MembershipInv, WriteFails
  PROVE  MembershipInv'
<1> TypeOK /\ CallOK /\ CodesOK /\ TokensOK /\ RevokedOK /\ MembersOK
  BY DEF MembershipInv
<1> USE DEF MembershipAssumption, stores, history
<1>0. mem' = Changed /\ Changed \in Books
  BY ChangedBooks DEF WriteFails
<1>1. TypeOK'
  BY <1>0, ChangedBooks DEF WriteFails, TypeOK, Code, Token, JoinCall, RevokeCall, Books
<1>2. CallOK'
  BY <1>0, ChangedBooks DEF WriteFails, CallOK, Joining, Revoking, JoinCall, RevokeCall,
      NoNodes, Books, TypeOK
<1>3. CodesOK'
  BY <1>0, ChangedBooks DEF WriteFails, CodesOK, Code, JoinCall, TypeOK
<1>4. TokensOK'
  BY <1>0, ChangedBooks DEF WriteFails, TokensOK, Token, JoinCall, TypeOK, CallOK
<1>5. RevokedOK'
  <2>1. \A n \in Nodes : mem'.certs[n] = "revoked" => n \in struck
    BY <1>0, ChangedBooks DEF TypeOK, Books, CallOK, RevokedOK, Revoking
  <2>2. \A n \in Nodes : mem.nodes[n] = "revoked" => mem'.nodes[n] = "revoked"
    BY <1>0, ChangedBooks DEF TypeOK, Books, CallOK, Joining
  <2> QED
    BY <2>1, <2>2 DEF WriteFails, TypeOK, RevokedOK
<1>6. MembersOK'
  BY <1>0, ChangedBooks DEF WriteFails, MembersOK, Joining, Revoking, Books, NoNodes,
      JoinCall, TypeOK, CallOK, RevokedOK, TokensOK, CodesOK
<1> QED
  BY <1>1, <1>2, <1>3, <1>4, <1>5, <1>6 DEF MembershipInv

\* Crash preserves the invariant.
LEMMA CrashPreserves ==
  ASSUME MembershipAssumption, MembershipInv, Crash
  PROVE  MembershipInv'
<1> TypeOK /\ CallOK /\ CodesOK /\ TokensOK /\ RevokedOK /\ MembersOK
  BY DEF MembershipInv
<1> USE DEF MembershipAssumption, stores, history
<1>1. TypeOK'
  BY DEF Crash, NoNodes, TypeOK, Code, Token, JoinCall, RevokeCall, Books
<1>2. CallOK'
  BY DEF Crash, NoNodes, CallOK, Joining, Revoking, JoinCall, RevokeCall, NoNodes, Books,
      TypeOK
<1>3. CodesOK'
  BY DEF Crash, NoNodes, CodesOK, Code, JoinCall, TypeOK
<1>4. TokensOK'
  BY DEF Crash, NoNodes, TokensOK, Token, JoinCall, TypeOK, CallOK
<1>5. RevokedOK'
  BY DEF Crash, NoNodes, RevokedOK, Revoking, Books, NoNodes, TypeOK, CallOK
<1>6. MembersOK'
  BY DEF Crash, NoNodes, MembersOK, Joining, Revoking, Books, NoNodes, JoinCall, TypeOK,
      CallOK, RevokedOK, TokensOK, CodesOK
<1> QED
  BY <1>1, <1>2, <1>3, <1>4, <1>5, <1>6 DEF MembershipInv

\* LoseState preserves the invariant.
LEMMA LoseStatePreserves ==
  ASSUME MembershipAssumption, MembershipInv, LoseState
  PROVE  MembershipInv'
<1> TypeOK /\ CallOK /\ CodesOK /\ TokensOK /\ RevokedOK /\ MembersOK
  BY DEF MembershipInv
<1> USE DEF MembershipAssumption, stores, history
<1>1. TypeOK'
  BY DEF LoseState, NoNodes, TypeOK, Code, Token, JoinCall, RevokeCall, Books
<1>2. CallOK'
  BY DEF LoseState, NoNodes, CallOK, Joining, Revoking, JoinCall, RevokeCall, NoNodes,
      Books, TypeOK
<1>3. CodesOK'
  BY DEF LoseState, NoNodes, CodesOK, Code, JoinCall, TypeOK
<1>4. TokensOK'
  BY DEF LoseState, NoNodes, TokensOK, Token, JoinCall, TypeOK, CallOK
<1>5. RevokedOK'
  BY DEF LoseState, NoNodes, RevokedOK, Revoking, Books, NoNodes, TypeOK, CallOK
<1>6. MembersOK'
  BY DEF LoseState, NoNodes, MembersOK, Joining, Revoking, Books, NoNodes, JoinCall,
      TypeOK, CallOK, RevokedOK, TokensOK, CodesOK
<1> QED
  BY <1>1, <1>2, <1>3, <1>4, <1>5, <1>6 DEF MembershipInv

\* Restart preserves the invariant.
LEMMA RestartPreserves ==
  ASSUME MembershipAssumption, MembershipInv, Restart
  PROVE  MembershipInv'
<1> TypeOK /\ CallOK /\ CodesOK /\ TokensOK /\ RevokedOK /\ MembersOK
  BY DEF MembershipInv
<1> USE DEF MembershipAssumption, stores, history
<1>1. TypeOK'
  BY DEF Restart, SaveState, TypeOK, Code, Token, JoinCall, RevokeCall, Books
<1>2. CallOK'
  BY DEF Restart, SaveState, CallOK, Joining, Revoking, JoinCall, RevokeCall, NoNodes,
      Books, TypeOK
<1>3. CodesOK'
  BY DEF Restart, SaveState, CodesOK, Code, JoinCall, TypeOK
<1>4. TokensOK'
  BY DEF Restart, SaveState, TokensOK, Token, JoinCall, TypeOK, CallOK
<1>5. RevokedOK'
  BY DEF Restart, SaveState, RevokedOK, Revoking, Books, NoNodes, TypeOK, CallOK
<1>6. MembersOK'
  BY DEF Restart, SaveState, MembersOK, Joining, Revoking, Books, NoNodes, JoinCall,
      TypeOK, CallOK, RevokedOK, TokensOK, CodesOK
<1> QED
  BY <1>1, <1>2, <1>3, <1>4, <1>5, <1>6 DEF MembershipInv

\* Expires preserves the invariant.
LEMMA ExpiresPreserves ==
  ASSUME MembershipAssumption, MembershipInv, NEW x \in Codes \cup Tokens, Expires(x)
  PROVE  MembershipInv'
<1> TypeOK /\ CallOK /\ CodesOK /\ TokensOK /\ RevokedOK /\ MembersOK
  BY DEF MembershipInv
<1> USE DEF MembershipAssumption, stores, history
<1>1. TypeOK'
  BY DEF Expires, TypeOK, Code, Token, JoinCall, RevokeCall, Books
<1>2. CallOK'
  BY DEF Expires, CallOK, Joining, Revoking, JoinCall, RevokeCall, NoNodes, Books, TypeOK
<1>3. CodesOK'
  BY DEF Expires, CodesOK, Code, JoinCall, TypeOK
<1>4. TokensOK'
  BY DEF Expires, TokensOK, Token, JoinCall, TypeOK, CallOK
<1>5. RevokedOK'
  BY DEF Expires, RevokedOK, Revoking, Books, NoNodes, TypeOK, CallOK
<1>6. MembersOK'
  BY DEF Expires, MembersOK, Joining, Revoking, Books, NoNodes, JoinCall, TypeOK, CallOK,
      RevokedOK, TokensOK, CodesOK
<1> QED
  BY <1>1, <1>2, <1>3, <1>4, <1>5, <1>6 DEF MembershipInv

\* CertExpires preserves the invariant.
LEMMA CertExpiresPreserves ==
  ASSUME MembershipAssumption, MembershipInv, NEW n \in Nodes, CertExpires(n)
  PROVE  MembershipInv'
<1> TypeOK /\ CallOK /\ CodesOK /\ TokensOK /\ RevokedOK /\ MembersOK
  BY DEF MembershipInv
<1> USE DEF MembershipAssumption, stores, history
<1>1. TypeOK'
  BY DEF CertExpires, Aged, TypeOK, Code, Token, JoinCall, RevokeCall, Books
<1>2. CallOK'
  BY DEF CertExpires, Aged, CallOK, Joining, Revoking, JoinCall, RevokeCall, NoNodes,
      Books, TypeOK
<1>3. CodesOK'
  BY DEF CertExpires, Aged, CodesOK, Code, JoinCall, TypeOK
<1>4. TokensOK'
  BY DEF CertExpires, Aged, TokensOK, Token, JoinCall, TypeOK, CallOK
<1>5. RevokedOK'
  BY DEF CertExpires, Aged, RevokedOK, Revoking, Books, NoNodes, TypeOK, CallOK
<1>6. MembersOK'
  BY DEF CertExpires, Aged, MembersOK, Joining, Revoking, Books, NoNodes, JoinCall,
      TypeOK, CallOK, RevokedOK, TokensOK, CodesOK
<1> QED
  BY <1>1, <1>2, <1>3, <1>4, <1>5, <1>6 DEF MembershipInv

\* Every step preserves the invariant.
LEMMA NextPreserves ==
  ASSUME MembershipAssumption, MembershipInv, [Next]_vars
  PROVE  MembershipInv'
<1>1. CASE UNCHANGED vars
  BY <1>1 DEF vars, stores, history, MembershipInv, TypeOK, CallOK, CodesOK, TokensOK,
      RevokedOK, MembersOK, Joining, Revoking, Code, Token, JoinCall, RevokeCall, Books
<1>2. CASE Next
  BY <1>2, CreateInvitePreserves, JoinPreserves, IssuePreserves, UseCodePreserves,
      StoreTokenPreserves, RegisterPreserves, RevokePreserves, StrikePreserves,
      UncertifyPreserves, ListRevokedPreserves, UntokenPreserves, SavesStatePreserves,
      WriteFailsPreserves, CrashPreserves, LoseStatePreserves, RestartPreserves,
      ExpiresPreserves, CertExpiresPreserves DEF Next
<1> QED
  BY <1>1, <1>2

\* The inductive invariant of auth.py's stores and the copies in memory: every
\* reachable state of join, revoke_node and a restart has it.
THEOREM MembershipInvariant == Spec => []MembershipInv
<1>1. Init => MembershipInv
  BY InitEstablishes, MembershipAssumption
<1>2. MembershipInv /\ [Next]_vars => MembershipInv'
  BY NextPreserves, MembershipAssumption
<1> QED
  BY <1>1, <1>2, PTL DEF Spec

\* join: one token at most is made for an invite code.
THEOREM CodesAreSingleUse == Spec => []CodeSpentOnce
<1>1. MembershipInv => CodeSpentOnce
  BY DEF MembershipInv, CodesOK, CodeSpentOnce
<1> QED
  BY <1>1, MembershipInvariant, PTL

\* A record of tokens.enc is of the node its token was made for.
LEMMA TokenOfNode ==
  ASSUME MembershipInv, NEW m \in minted, NEW r \in tokens, r.token = m.token
  PROVE  r.node = m.node
<1>1. PICK q \in minted : q.token = r.token /\ q.node = r.node
  BY DEF MembershipInv, TokensOK
<1>2. q = m
  BY <1>1 DEF MembershipInv, CodesOK
<1> QED
  BY <1>1, <1>2

\* revoke_node: a node whose revocation was acknowledged never comes back.
THEOREM RevocationIsFinal == Spec => []RevokedNeverReturns
<1>1. ASSUME MembershipInv PROVE RevokedNeverReturns
  <2> SUFFICES ASSUME NEW n \in out
               PROVE  /\ \A m \in minted : m.node = n => ~Verifies(m.token)
                      /\ pc # "down" => mem.nodes[n] = "revoked"
    BY DEF RevokedNeverReturns
  <2>1. n \in revoked
    BY <1>1 DEF MembershipInv, RevokedOK
  <2>2. \A m \in minted : m.node = n => ~Verifies(m.token)
    BY <1>1, <2>1, TokenOfNode DEF Verifies
  <2> QED
    BY <1>1, <2>2 DEF MembershipInv, RevokedOK
<1> QED
  BY <1>1, MembershipInvariant, PTL

\* revoke_node: an interrupted revocation that reached state.json keeps the node
\* out.
THEOREM InterruptedRevocationHolds == Spec => []StruckIsOut
<1>1. ASSUME MembershipInv PROVE StruckIsOut
  <2> SUFFICES ASSUME ~lost, NEW m \in minted, m.node \in struck
               PROVE  ~Verifies(m.token)
    BY DEF StruckIsOut
  <2>1. m.node \in Nodes
    BY <1>1 DEF MembershipInv, TypeOK, JoinCall
  <2>2. mem.nodes[m.node] # "active"
    BY <1>1, <2>1 DEF MembershipInv, RevokedOK, CallOK, NoNodes
  <2> QED
    BY <1>1, <2>2, TokenOfNode DEF Verifies
<1> QED
  BY <1>1, MembershipInvariant, PTL

\* join: what it answered is durable.
THEOREM MembershipIsDurable == Spec => []MemberStaysIn
<1>1. ASSUME MembershipInv PROVE MemberStaysIn
  <2> SUFFICES ASSUME pc # "down", ~lost, NEW m \in granted, m.token \notin old,
                      mem.certs[m.node] # "expired", mem.nodes[m.node] # "revoked"
               PROVE  Verifies(m.token)
    BY DEF MemberStaysIn
  <2>1. m.node \in Nodes /\ m \in minted
    BY <1>1 DEF MembershipInv, TypeOK, JoinCall
  <2>2. m.node \notin struck /\ m.node \notin revoked /\ m.node \notin out
    BY <1>1 DEF MembershipInv, RevokedOK
  <2>3. mem.nodes[m.node] = "active" /\ mem.certs[m.node] = "valid"
    BY <1>1, <2>1, <2>2 DEF MembershipInv, MembersOK, RevokedOK, TypeOK, Books
  <2>4. [token |-> m.token, node |-> m.node, revoked |-> FALSE] \in tokens
    BY <1>1, <2>2 DEF MembershipInv, TokensOK
  <2> QED
    BY <2>2, <2>3, <2>4 DEF Verifies
<1> QED
  BY <1>1, MembershipInvariant, PTL
=============================================================================
