----------------------------- MODULE Membership -----------------------------
(***************************************************************************)
(* Who belongs to the mesh: MeshAuth (collab/auth.py) with the node        *)
(* certificates of NodeIdentityManager (collab/identity.py) and the nodes  *)
(* of the vault's state.  An owner invites with a single-use code, a node  *)
(* joins with it and gets a token, and the owner may revoke the node.      *)
(*                                                                         *)
(* A join writes four files and so does a revocation, one after the other: *)
(* the process may stop between any two, and any write may fail.  The      *)
(* vault and the identities keep a copy in memory, which they change       *)
(* before they write; the other files are read whenever they are needed.   *)
(* The handlers do not await between two writes: one call at a time.       *)
(*                                                                         *)
(* Codes, certificates and tokens expire at any point.                     *)
(***************************************************************************)
EXTENDS Naturals, FiniteSets

CONSTANTS
  Nodes,      \* node ids
  AnyNode,    \* None, of an invite that names no node
  NoCall,
  Codes,      \* invite codes that may be drawn
  Tokens,     \* bearer tokens that may be drawn
  MaxFaults   \* bound: crashes, failed writes and losses of state.json

ASSUME MembershipAssumption == AnyNode \notin Nodes /\ MaxFaults \in Nat

VARIABLES
  codes,      \* join_codes.enc
  tokens,     \* tokens.enc
  revoked,    \* revoked_nodes.enc
  disk,       \* the nodes of state.json, and nodes.enc
  mem,        \* the same in memory: CollabVault._state, NodeIdentityManager._nodes
  old,        \* codes and tokens that have expired
  pc,         \* what the call in progress does next
  call,       \* its node; of a join, its code and the token it will return
  minted,     \* history: every token ever put into tokens.enc, and its code
  granted,    \* history: those of them that a join returned
  struck,     \* history: nodes whose revocation reached state.json
  out,        \* history: nodes whose revocation was acknowledged
  lost,       \* history: whether state.json has ever been lost
  faults

stores == <<codes, tokens, revoked>>
history == <<minted, granted, struck, out, lost>>
vars == <<stores, disk, mem, old, pc, call, history, faults>>

Code == [code : Codes, node : Nodes \cup {AnyNode}, used : BOOLEAN]
Token == [token : Tokens, node : Nodes, revoked : BOOLEAN]
JoinCall == [node : Nodes, code : Codes, token : Tokens]
RevokeCall == [node : Nodes]
Books == [nodes : [Nodes -> {"absent", "active", "revoked"}],
          certs : [Nodes -> {"none", "valid", "expired", "revoked"}]]

NoNodes == [nodes |-> [n \in Nodes |-> "absent"], certs |-> [n \in Nodes |-> "none"]]

Init ==
  /\ codes = {} /\ tokens = {} /\ revoked = {} /\ old = {}
  /\ disk = NoNodes /\ mem = NoNodes
  /\ pc = "idle" /\ call = NoCall
  /\ minted = {} /\ granted = {} /\ struck = {} /\ out = {} /\ lost = FALSE
  /\ faults = 0

-----------------------------------------------------------------------------
(* What a call changes in memory before it writes, and what may go wrong.  *)

Changed ==
  CASE pc = "issue"     -> [mem EXCEPT !.certs[call.node] = "valid"]
    [] pc = "register"  -> [mem EXCEPT !.nodes[call.node] = "active"]
    [] pc = "strike"    -> [mem EXCEPT !.nodes[call.node] = "revoked"]
    [] pc = "uncertify" -> [mem EXCEPT !.certs[call.node] =
                              IF @ = "none" THEN @ ELSE "revoked"]
    [] OTHER            -> mem

Goes(from, to) ==
  /\ pc = from /\ pc' = to
  /\ mem' = Changed
  /\ call' = IF to = "idle" THEN NoCall ELSE call
  /\ UNCHANGED <<old, lost, faults>>

SaveState == disk' = [disk EXCEPT !.nodes = mem'.nodes]
SaveNodes == disk' = [disk EXCEPT !.certs = mem'.certs]

\* OSError: the call ends, and memory keeps what the file does not have.
WriteFails ==
  /\ pc \notin {"idle", "down"} /\ faults < MaxFaults
  /\ faults' = faults + 1
  /\ pc' = "idle" /\ call' = NoCall
  /\ mem' = Changed
  /\ UNCHANGED <<stores, disk, old, history>>

Crash ==
  /\ pc # "down" /\ faults < MaxFaults
  /\ faults' = faults + 1
  /\ pc' = "down" /\ call' = NoCall
  /\ mem' = NoNodes
  /\ UNCHANGED <<stores, disk, old, history>>

\* _load_state answers the default state when state.json is missing or no JSON.
LoseState ==
  /\ pc = "down" /\ faults < MaxFaults
  /\ faults' = faults + 1
  /\ disk' = [disk EXCEPT !.nodes = NoNodes.nodes]
  /\ lost' = TRUE
  /\ UNCHANGED <<stores, mem, old, pc, call, minted, granted, struck, out>>

\* Mutant: the server trusts state.json alone.
Restart_TrustsState ==
  /\ pc = "down"
  /\ mem' = disk
  /\ pc' = "idle"
  /\ UNCHANGED <<stores, disk, old, call, history, faults>>

\* The memory is read back, and every node of revoked_nodes.enc is marked in it
\* (a crash between two marks only makes the next restart mark them again).
Restart ==
  /\ pc = "down"
  /\ mem' = [disk EXCEPT !.nodes =
               [n \in Nodes |-> IF n \in revoked THEN "revoked" ELSE disk.nodes[n]]]
  /\ SaveState
  /\ pc' = "idle"
  /\ UNCHANGED <<stores, old, call, history, faults>>

-----------------------------------------------------------------------------
(* create_invite and join.                                                 *)

Spent(r) == r.used \/ r.code \in old

CreateInvite(c, n) ==
  /\ pc = "idle"
  /\ \A r \in codes : r.code # c
  /\ c \notin old /\ \A m \in minted : m.code # c
  /\ codes' = {r \in codes : ~Spent(r)} \cup {[code |-> c, node |-> n, used |-> FALSE]}
  /\ UNCHANGED <<tokens, revoked, disk, mem, old, pc, call, history, faults>>

\* join answers AuthError and changes nothing unless a code matches, the vault
\* does not know the node, and identity.issue finds no live certificate of it.
Join(n, c, t) ==
  /\ pc = "idle"
  /\ \E r \in codes : r.code = c /\ ~Spent(r) /\ r.node \in {n, AnyNode}
  /\ mem.nodes[n] = "absent"
  /\ mem.certs[n] \in {"none", "revoked"}
  /\ \A m \in minted : m.token # t
  /\ pc' = "issue" /\ call' = [node |-> n, code |-> c, token |-> t]
  /\ UNCHANGED <<stores, disk, mem, old, history, faults>>

\* Mutant: the certificate stays in memory.
Issue_NotSaved ==
  /\ Goes("issue", "use")
  /\ UNCHANGED <<stores, disk, history>>

Issue ==
  /\ Goes("issue", "use")
  /\ SaveNodes
  /\ UNCHANGED <<stores, history>>

\* Mutant: the code is still good for another join.
UseCode_Keeps ==
  /\ Goes("use", "token")
  /\ UNCHANGED <<stores, disk, history>>

UseCode ==
  /\ Goes("use", "token")
  /\ codes' = {[r EXCEPT !.used = @ \/ r.code = call.code] : r \in codes}
  /\ UNCHANGED <<tokens, revoked, disk, history>>

StoreToken ==
  /\ Goes("token", "register")
  /\ tokens' = {r \in tokens : ~r.revoked /\ r.token \notin old}
               \cup {[token |-> call.token, node |-> call.node, revoked |-> FALSE]}
  /\ minted' = minted \cup {call}
  /\ UNCHANGED <<codes, revoked, disk, granted, struck, out, lost>>

Register ==
  /\ Goes("register", "idle")
  /\ SaveState
  /\ granted' = granted \cup {call}
  /\ UNCHANGED <<stores, minted, struck, out, lost>>

-----------------------------------------------------------------------------
(* revoke_node.                                                            *)

Revoke(n) ==
  /\ pc = "idle"
  /\ mem.nodes[n] # "absent"
  /\ pc' = "strike" /\ call' = [node |-> n]
  /\ UNCHANGED <<stores, disk, mem, old, history, faults>>

\* Mutant: the status is changed in memory, for some later call to save.
Strike_NotSaved ==
  /\ Goes("strike", "uncertify")
  /\ struck' = struck \cup {call.node}
  /\ UNCHANGED <<stores, disk, minted, granted, out, lost>>

Strike ==
  /\ Goes("strike", "uncertify")
  /\ SaveState
  /\ struck' = struck \cup {call.node}
  /\ UNCHANGED <<stores, minted, granted, out, lost>>

Uncertify ==
  /\ Goes("uncertify", "list")
  /\ SaveNodes
  /\ UNCHANGED <<stores, history>>

\* Mutant: the list is written anew with this node alone.
ListRevoked_Overwrites ==
  /\ Goes("list", "untoken")
  /\ revoked' = {call.node}
  /\ UNCHANGED <<codes, tokens, disk, history>>

ListRevoked ==
  /\ Goes("list", "untoken")
  /\ revoked' = revoked \cup {call.node}
  /\ UNCHANGED <<codes, tokens, disk, history>>

Untoken ==
  /\ Goes("untoken", "idle")
  /\ tokens' = {[r EXCEPT !.revoked = @ \/ r.node = call.node] : r \in tokens}
  /\ out' = out \cup {call.node}
  /\ UNCHANGED <<codes, revoked, disk, minted, granted, struck, lost>>

-----------------------------------------------------------------------------
(* verify_token, the other calls that save the vault's state, and time.    *)

Verifies(t) ==
  \E r \in tokens :
    /\ r.token = t /\ ~r.revoked /\ t \notin old
    /\ mem.nodes[r.node] = "active"
    /\ r.node \notin revoked
    /\ mem.certs[r.node] = "valid"

\* Whatever call saves state.json (touch_node of a verified token, append_event,
\* upsert_task) saves all that is in memory.
SavesState ==
  /\ pc = "idle"
  /\ mem' = mem /\ SaveState
  /\ UNCHANGED <<stores, old, pc, call, history, faults>>

Expires(x) ==
  /\ x \in {r.code : r \in codes} \cup {m.token : m \in minted}
  /\ old' = old \cup {x}
  /\ UNCHANGED <<stores, disk, mem, pc, call, history, faults>>

Aged(certs, n) == [certs EXCEPT ![n] = IF @ = "valid" THEN "expired" ELSE @]

\* In memory and in nodes.enc: both have the certificate's end.
CertExpires(n) ==
  /\ "valid" \in {mem.certs[n], disk.certs[n]}
  /\ mem' = [mem EXCEPT !.certs = Aged(@, n)]
  /\ disk' = [disk EXCEPT !.certs = Aged(@, n)]
  /\ UNCHANGED <<stores, old, pc, call, history, faults>>

-----------------------------------------------------------------------------
Next ==
  \/ \E c \in Codes, n \in Nodes \cup {AnyNode} : CreateInvite(c, n)
  \/ \E n \in Nodes, c \in Codes, t \in Tokens : Join(n, c, t)
  \/ Issue \/ UseCode \/ StoreToken \/ Register
  \/ \E n \in Nodes : Revoke(n)
  \/ Strike \/ Uncertify \/ ListRevoked \/ Untoken
  \/ SavesState
  \/ WriteFails \/ Crash \/ LoseState \/ Restart
  \/ \E x \in Codes \cup Tokens : Expires(x)
  \/ \E n \in Nodes : CertExpires(n)

Spec == Init /\ [][Next]_vars

-----------------------------------------------------------------------------
(* Properties.                                                             *)

TypeOK ==
  /\ codes \subseteq Code /\ tokens \subseteq Token /\ revoked \subseteq Nodes
  /\ disk \in Books /\ mem \in Books
  /\ old \subseteq Codes \cup Tokens
  /\ pc \in {"idle", "down", "issue", "use", "token", "register",
             "strike", "uncertify", "list", "untoken"}
  /\ call \in JoinCall \cup RevokeCall \cup {NoCall}
  /\ minted \subseteq JoinCall /\ granted \subseteq minted
  /\ struck \subseteq Nodes /\ out \subseteq Nodes
  /\ lost \in BOOLEAN /\ faults \in 0 .. MaxFaults

\* A code is single-use: one token is made for it at most, whatever join is
\* interrupted between the certificate, the code and the token.
CodeSpentOnce == \A m1, m2 \in minted : m1.code = m2.code => m1 = m2

\* A revocation that was acknowledged is final: no token of the node verifies and
\* no join gives it another one, across restarts and when state.json is lost.
RevokedNeverReturns ==
  \A n \in out :
    /\ \A m \in minted : m.node = n => ~Verifies(m.token)
    /\ pc # "down" => mem.nodes[n] = "revoked"

\* A revocation takes effect with its first write: if the rest of it never
\* happens the node is out all the same, after a restart too, while state.json is
\* there.
StruckIsOut ==
  ~lost => \A m \in minted : m.node \in struck => ~Verifies(m.token)

\* A join that was answered is durable: the token verifies until it or the
\* certificate expires or a revocation of the node begins, whatever crashes and
\* failed writes other calls meet, while state.json is there.
MemberStaysIn ==
  pc # "down" /\ ~lost =>
    \A m \in granted :
      \/ Verifies(m.token)
      \/ m.token \in old \/ mem.certs[m.node] = "expired"
      \/ mem.nodes[m.node] = "revoked"

-----------------------------------------------------------------------------
(* The inductive invariant behind the theorems of MembershipProofs.        *)

Joining == pc \in {"issue", "use", "token", "register"}
Revoking == pc \in {"uncertify", "list", "untoken"}

\* Which call is in progress, and what it has done so far.
CallOK ==
  /\ pc \in {"idle", "down"} => call = NoCall
  /\ pc = "down" => mem = NoNodes
  /\ Joining => call \in JoinCall /\ mem.nodes[call.node] = "absent"
  /\ pc = "strike" \/ Revoking => call \in RevokeCall
  /\ Revoking => mem.nodes[call.node] = "revoked" /\ call.node \in struck
  /\ pc = "untoken" => call.node \in revoked

\* A code that made a token is used or gone, and so is the code of the join in
\* progress from the moment it makes one.
CodesOK ==
  /\ \A m \in minted, r \in codes : r.code = m.code => r.used
  /\ \A m1, m2 \in minted : m1.code = m2.code \/ m1.token = m2.token => m1 = m2
  /\ pc \in {"issue", "use", "token"} =>
       \A m \in minted : m.code # call.code /\ m.token # call.token
  /\ pc = "token" => \A r \in codes : r.code = call.code => r.used
  /\ pc = "register" => call \in minted

\* A token is in tokens.enc once, for the node it was made for.
TokensOK ==
  /\ \A r \in tokens : \E m \in minted : m.token = r.token /\ m.node = r.node
  /\ \A m \in granted :
       \/ m.token \in old \/ m.node \in out
       \/ [token |-> m.token, node |-> m.node, revoked |-> FALSE] \in tokens
  /\ pc = "register" =>
       [token |-> call.token, node |-> call.node, revoked |-> FALSE] \in tokens

\* Every store that says "revoked" agrees with the vault, on disk and in memory.
RevokedOK ==
  /\ out \subseteq revoked
  /\ pc # "down" => \A n \in out : mem.nodes[n] = "revoked"
  /\ revoked \subseteq struck
  /\ \A n \in Nodes : "revoked" \in {disk.certs[n], mem.certs[n]} => n \in struck
  /\ ~lost =>
       \A n \in struck : /\ disk.nodes[n] = "revoked"
                         /\ pc # "down" => mem.nodes[n] = "revoked"

\* A node with a token a join returned has its certificate and its place in the
\* vault, on disk and in memory.
MembersOK ==
  /\ pc \in {"use", "token", "register"} =>
       {disk.certs[call.node], mem.certs[call.node]} \subseteq {"valid", "expired"}
  /\ \A m \in granted :
       /\ disk.certs[m.node] # "none"
       /\ ~lost => disk.nodes[m.node] # "absent"
       /\ pc # "down" => mem.certs[m.node] # "none"
       /\ pc # "down" /\ ~lost => mem.nodes[m.node] # "absent"

\* Not inductive without them: what a call has written, and that a node whose
\* revocation has begun is marked everywhere a restart may read it from.
MembershipInv ==
  TypeOK /\ CallOK /\ CodesOK /\ TokensOK /\ RevokedOK /\ MembersOK
=============================================================================
