-------------------------------- MODULE Mesh --------------------------------
(***************************************************************************)
(* Several nodes, each running the server: what a node records it signs    *)
(* again, under a nonce of its own, and forwards to its partners, which do *)
(* the same with it (server.py: api_relay, api_ws_relay, api_collab_task,  *)
(* api_collab_file, _relay_forward).  Composes, per node, the nonce store  *)
(* (Trust), the ledger (AuditedLog, implemented by Vault) and the client   *)
(* that forwards (Relay), each abstracted to what the others see of it.    *)
(*                                                                         *)
(* An envelope is the number of its nonce.  Once signed it may be posted   *)
(* to any node it is meant for at any time, any number of times: that is   *)
(* all a lost answer, a retry, a late request or a sender that died is to  *)
(* the node that receives it.  A handler does not await between verify and *)
(* its answer, so a node has one call at a time; the process may die, or a *)
(* write may fail, between any two steps of it.                            *)
(*                                                                         *)
(* There is no clock here.  A nonce may be dropped for its age at any save, *)
(* and its envelope is then stale at that node for good: no clock is set   *)
(* back by the three windows between the two limits of trust.py.  A nonce  *)
(* may be dropped for nonce_limit too, and one whose timestamp is not a    *)
(* number is never kept; envelopes of both kinds may still be fresh.       *)
(***************************************************************************)
EXTENDS Naturals, Sequences, FiniteSets

CONSTANTS
  Nodes,
  Http,          \* the forward() that no WebSocket link is behind
  Events,        \* what agents send: messages, tasks, files
  Topologies,    \* the configurations of the nodes the specification starts from
  NonceLimit,    \* nonce_limit
  MaxEnvelopes,  \* bound: envelopes signed
  MaxLedger,     \* bound: a node with so many entries takes no request any more
  MaxFaults      \* bound: restarts, failed writes and saves that drop old nonces

\* COLLAB_PARTNER_URLS of every node, the partners it has links to, and the nodes
\* that agents have joined.
Configurations == [partners : [Nodes -> SUBSET Nodes], links : [Nodes -> SUBSET Nodes],
                   agents : SUBSET Nodes]

ASSUME MeshAssumption ==
  /\ Http \notin Nodes
  /\ Topologies \subseteq Configurations
  /\ NonceLimit \in Nat
  /\ MaxEnvelopes \in Nat /\ MaxLedger \in Nat /\ MaxFaults \in Nat

Ids == 1 .. MaxEnvelopes

\* An envelope: its event, the entry it forwards (0: an agent signed it), whether its
\* timestamp is a number and not NaN, and, for the properties alone, the nodes that
\* forwarded the event so far.
Envelopes == [ev : Events, of : 0 .. MaxEnvelopes, timed : BOOLEAN, trail : Seq(Nodes)]

Doors == {"relay", "ws", "vault"}  \* api_relay, api_ws_relay, task and file
Phases == {"idle", "save", "store", "append", "forward"}
Calls == [ph : Phases, env : 0 .. MaxEnvelopes, door : Doors,
          todo : SUBSET (Nodes \cup {Http})]

VARIABLES
  net,        \* the topology
  envelopes,  \* the envelopes signed so far, by number
  mem, file,  \* the nonces a node knows: self._nonces and .auth/nonces
  lapsed,     \* envelopes that are stale to a node: it has dropped their nonces for their age
  evicted,    \* history: nonces a node has dropped for nonce_limit
  ledger,     \* the envelopes whose events a node has recorded
  sealed,     \* nodes whose audit chain does not verify any more
  stored,     \* envelopes whose task or file a node has written to its vault
  told,       \* history: envelopes a node has answered "ok" about
  call,       \* the handler a node is in: phase, envelope, door, and the
              \* forwards it has still to make
  faults

nonces == <<mem, file, lapsed, evicted>>
store == <<nonces, ledger, sealed, stored>>
vars == <<net, envelopes, store, told, call, faults>>

Idle == [ph |-> "idle", env |-> 0, door |-> "relay", todo |-> {}]

Init ==
  /\ net \in Topologies
  /\ envelopes = <<>>
  /\ mem = [n \in Nodes |-> {}] /\ file = [n \in Nodes |-> {}]
  /\ lapsed = [n \in Nodes |-> {}] /\ evicted = [n \in Nodes |-> {}]
  /\ ledger = [n \in Nodes |-> <<>>]
  /\ sealed = {} /\ stored = [n \in Nodes |-> {}]
  /\ told = [n \in Nodes |-> {}]
  /\ call = [n \in Nodes |-> Idle]
  /\ faults = 0

-----------------------------------------------------------------------------
(* Envelopes.                                                              *)

Signed(i) == i \in 1 .. Len(envelopes)
Trail(i) == envelopes[i].trail
Signer(i) == Trail(i)[Len(Trail(i))]
Timed(i) == envelopes[i].timed

\* TrustManager.sign, with a fresh nonce.
Sign(ev, i, timed, trail) ==
  /\ Len(envelopes) < MaxEnvelopes
  /\ envelopes' = Append(envelopes, [ev |-> ev, of |-> i, timed |-> timed, trail |-> trail])

\* An agent signs an event, once, with any timestamp.
AgentSigns(ev) ==
  /\ \A i \in 1 .. Len(envelopes) : envelopes[i].ev # ev
  /\ \E timed \in BOOLEAN : Sign(ev, 0, timed, <<>>)
  /\ UNCHANGED <<net, store, told, call, faults>>

\* Who may bring an envelope to which door: an agent its own, to any door of a node
\* it has joined; a node's client posts to the relay of its partners.
Arrives(i, n, door) ==
  /\ Signed(i)
  /\ \/ Trail(i) = <<>> /\ n \in net.agents
     \/ Trail(i) # <<>> /\ n \in net.partners[Signer(i)] /\ door = "relay"

-----------------------------------------------------------------------------
(* The handlers.                                                           *)

\* verify: a stale envelope and a known nonce are refused without a change; else the
\* nonce is remembered.
Verify(n, i, door) ==
  /\ call[n].ph = "idle" /\ Len(ledger[n]) < MaxLedger
  /\ Arrives(i, n, door) /\ i \notin lapsed[n] /\ i \notin mem[n]
  /\ mem' = [mem EXCEPT ![n] = @ \cup {i}]
  /\ call' = [call EXCEPT ![n] = [ph |-> "save", env |-> i, door |-> door, todo |-> {}]]
  /\ UNCHANGED <<net, envelopes, file, lapsed, evicted, ledger, sealed, stored, told, faults>>

\* The memory loses the nonces that are four windows old, NaN compared with anything
\* is not younger than that, and then all but NonceLimit of those left: the oldest, and
\* without a clock any of them may be.
Prunes(n) ==
  \E aged \in SUBSET {i \in mem[n] : Timed(i) /\ i # call[n].env} :
  LET young == {i \in mem[n] \ aged : Timed(i)} IN
  \E kept \in SUBSET young :
    /\ IF Cardinality(young) <= NonceLimit THEN kept = young ELSE Cardinality(kept) = NonceLimit
    /\ mem' = [mem EXCEPT ![n] = kept]
    /\ lapsed' = [lapsed EXCEPT ![n] = @ \cup aged]
    /\ evicted' = [evicted EXCEPT ![n] = @ \cup (young \ kept)]

\* Mutant: the nonce stays in memory.
SaveNonces_NotWritten(n) ==
  /\ call[n].ph = "save"
  /\ Prunes(n)
  /\ faults' = IF lapsed' = lapsed THEN faults ELSE faults + 1
  /\ faults' <= MaxFaults
  /\ call' = [call EXCEPT ![n].ph = IF call[n].door = "vault" THEN "store" ELSE "append"]
  /\ UNCHANGED <<net, envelopes, file, ledger, sealed, stored, told>>

\* _save_nonces writes what it has left of the memory, nonces of failed saves included.
SaveNonces(n) ==
  /\ call[n].ph = "save"
  /\ Prunes(n) /\ file' = [file EXCEPT ![n] = mem'[n]]
  /\ faults' = IF lapsed' = lapsed THEN faults ELSE faults + 1
  /\ faults' <= MaxFaults
  /\ call' = [call EXCEPT ![n].ph = IF call[n].door = "vault" THEN "store" ELSE "append"]
  /\ UNCHANGED <<net, envelopes, ledger, sealed, stored, told>>

\* ensure_audit_clean, then upsert_task or write_file, before anything is recorded.
Store(n) ==
  /\ call[n].ph = "store" /\ n \notin sealed
  /\ stored' = [stored EXCEPT ![n] = @ \cup {call[n].env}]
  /\ call' = [call EXCEPT ![n].ph = "append"]
  /\ UNCHANGED <<net, envelopes, nonces, ledger, sealed, told, faults>>

\* Mutant: the HTTP relay is asked besides the links, not instead of none.
Legs_AlsoHttp(n, door) ==
  {l \in Nodes \cup {Http} : \/ door = "relay" /\ l \in net.links[n]
                             \/ door \in {"relay", "vault"} /\ l = Http}

\* The forward() calls the handler will make: _relay_forward asks every link, or
\* without links makes one; task and file make one; a WebSocket frame makes none.
Legs(n, door) ==
  {l \in Nodes \cup {Http} : \/ door = "relay" /\ l \in net.links[n]
                             \/ door = "relay" /\ net.links[n] = {} /\ l = Http
                             \/ door = "vault" /\ l = Http}

\* Mutant: an entry is appended whether or not the chain verifies.
Record_Unchecked(n) ==
  /\ call[n].ph = "append"
  /\ ledger' = [ledger EXCEPT ![n] = Append(@, call[n].env)]
  /\ call' = [call EXCEPT ![n].ph = "forward", ![n].todo = Legs(n, call[n].door)]
  /\ UNCHANGED <<net, envelopes, nonces, sealed, stored, told, faults>>

\* append_event commits the entry.
Record(n) ==
  /\ call[n].ph = "append" /\ n \notin sealed
  /\ ledger' = [ledger EXCEPT ![n] = Append(@, call[n].env)]
  /\ call' = [call EXCEPT ![n].ph = "forward", ![n].todo = Legs(n, call[n].door)]
  /\ UNCHANGED <<net, envelopes, nonces, sealed, stored, told, faults>>

\* The call ends without an entry, and the nonce stays known: the request only reads a
\* file, the vault refuses the task or the path, or the chain does not verify (503).
Refused(n) ==
  /\ \/ call[n].ph = "store"
     \/ call[n].ph = "append" /\ n \in sealed
  /\ call' = [call EXCEPT ![n] = Idle]
  /\ UNCHANGED <<net, envelopes, store, told, faults>>

Forwards(n) ==
  LET i == call[n].env IN Sign(envelopes[i].ev, i, TRUE, Append(Trail(i), n))

\* One link asked: connected, it takes the event and never sends it (WsLink); down,
\* relay_client.forward signs the event for every partner.
ForwardLeg(n, l) ==
  /\ call[n].ph = "forward" /\ l \in call[n].todo
  /\ call' = [call EXCEPT ![n].todo = @ \ {l}]
  /\ \/ net.partners[n] # {} /\ Forwards(n)
     \/ (l # Http \/ net.partners[n] = {}) /\ UNCHANGED envelopes
  /\ UNCHANGED <<net, store, told, faults>>

Answer(n) ==
  /\ call[n].ph = "forward" /\ call[n].todo = {}
  /\ told' = IF call[n].door = "ws" THEN told
             ELSE [told EXCEPT ![n] = @ \cup {call[n].env}]
  /\ call' = [call EXCEPT ![n] = Idle]
  /\ UNCHANGED <<net, envelopes, store, faults>>

-----------------------------------------------------------------------------
(* Faults.                                                                 *)

\* A ledger line without its audit row is a chain that never verifies again.
Interrupted(n) ==
  /\ faults < MaxFaults
  /\ faults' = faults + 1
  /\ call' = [call EXCEPT ![n] = Idle]
  /\ \/ UNCHANGED sealed
     \/ call[n].ph = "append" /\ sealed' = sealed \cup {n}
  /\ UNCHANGED <<net, envelopes, ledger, stored, told>>

\* _save_nonces raises: the memory is pruned by then, and the file may be replaced.
SaveFails(n) ==
  /\ call[n].ph = "save"
  /\ Interrupted(n)
  /\ Prunes(n) /\ (UNCHANGED file \/ file' = [file EXCEPT ![n] = mem'[n]])

\* Another write raises, or _apply_event refuses the entry it has recorded: the caller
\* gets an error.
Fails(n) ==
  /\ \/ call[n].ph \in {"store", "append"}
     \/ call[n].ph = "forward" /\ call[n].todo = Legs(n, call[n].door)
  /\ Interrupted(n)
  /\ UNCHANGED nonces

\* Mutant: the file is not read when the process starts.
Restart_Forgets(n) ==
  /\ Interrupted(n)
  /\ mem' = [mem EXCEPT ![n] = {}]
  /\ UNCHANGED <<file, lapsed, evicted>>

\* The process dies and starts again.
Restart(n) ==
  /\ Interrupted(n)
  /\ mem' = [mem EXCEPT ![n] = file[n]]
  /\ UNCHANGED <<file, lapsed, evicted>>

Next ==
  \/ \E ev \in Events : AgentSigns(ev)
  \/ \E n \in Nodes, i \in Ids, door \in Doors : Verify(n, i, door)
  \/ \E n \in Nodes : \/ SaveNonces(n) \/ Store(n) \/ Record(n) \/ Refused(n)
                      \/ Answer(n) \/ SaveFails(n) \/ Fails(n) \/ Restart(n)
  \/ \E n \in Nodes, l \in Nodes \cup {Http} : ForwardLeg(n, l)

Spec == Init /\ [][Next]_vars

-----------------------------------------------------------------------------
(* Properties.                                                             *)

\* The types of the nodes' state.
TypeOK ==
  /\ net \in Topologies
  /\ envelopes \in Seq(Envelopes) /\ Len(envelopes) <= MaxEnvelopes
  /\ mem \in [Nodes -> SUBSET Ids] /\ file \in [Nodes -> SUBSET Ids]
  /\ lapsed \in [Nodes -> SUBSET Ids] /\ evicted \in [Nodes -> SUBSET Ids]
  /\ ledger \in [Nodes -> Seq(Ids)]
  /\ sealed \subseteq Nodes
  /\ stored \in [Nodes -> SUBSET Ids] /\ told \in [Nodes -> SUBSET Ids]
  /\ call \in [Nodes -> Calls]
  /\ faults \in 0 .. MaxFaults

Recorded(n) == {ledger[n][x] : x \in 1 .. Len(ledger[n])}

\* A node may take this envelope for a new one although it has verified it: its nonce
\* was one too many for nonce_limit, or its timestamp is not a number.
Forgettable(n, i) == ~Timed(i) \/ i \in evicted[n]

\* "a duplicate forward can never be applied twice on the partner" (relay.py), as
\* far as it is true: no envelope is recorded twice by a node, through whichever
\* doors, retries, restarts and failed appends it comes again, unless nonce_limit has
\* dropped its nonce there or an agent signed it with a timestamp that is not a number.
RecordedOnce ==
  \A n \in Nodes : \A x, y \in 1 .. Len(ledger[n]) :
    ledger[n][x] = ledger[n][y] => x = y \/ Forgettable(n, ledger[n][x])

\* "Local append always succeeds first" (relay.py): what a node forwards, its own
\* ledger has recorded, and so has, step by step, every node the event came through.
LocalAppendFirst ==
  \A j \in 1 .. Len(envelopes) : Trail(j) # <<>> =>
    LET i == envelopes[j].of IN
    /\ i \in Recorded(Signer(j))
    /\ envelopes[i].ev = envelopes[j].ev
    /\ Trail(j) = Append(Trail(i), Signer(j))

TwoLinks(n) == \E k, l \in net.links[n] : k # l

\* The node has recorded one envelope of the event twice.
Twice(n, ev) ==
  \E x, y \in 1 .. Len(ledger[n]) :
    x # y /\ ledger[n][x] = ledger[n][y] /\ envelopes[ledger[n][x]].ev = ev

\* The node makes two envelopes of one: of two links, or of one envelope recorded twice.
Doubles(n, ev) == TwoLinks(n) \/ Twice(n, ev)

\* A node that forwarded the event before this envelope was signed did.
DoubledOnTheWay(i) == \E k \in 1 .. Len(Trail(i)) : Doubles(Trail(i)[k], envelopes[i].ev)

\* Retries, lost answers, restarts and failures never multiply an event: a node
\* that has it twice got it along two routes through the mesh (a cycle of partners
\* is a route that never ends), or a node with two links on the way forwarded it
\* twice, or there, or on the way, one envelope was recorded twice (RecordedOnce).
CopiesAreRoutes ==
  \A n \in Nodes : \A x, y \in 1 .. Len(ledger[n]) :
    LET i == ledger[n][x]
        j == ledger[n][y]
        ev == envelopes[i].ev
    IN x # y /\ ev = envelopes[j].ev /\ Trail(i) = Trail(j) =>
         Twice(n, ev) \/ DoubledOnTheWay(i)

\* An envelope has one chance at a node: once its nonce is in the file, or too old, and
\* the call ended without a record, by a refused or failed append or a crash, no retry of
\* it is ever recorded, and what its call had stored is never accounted for.  A nonce
\* that nonce_limit drops is another chance while the envelope is fresh.
Burnt(n) == {i \in file[n] \cup lapsed[n] : i \notin Recorded(n) /\ call[n].env # i}
OneChance == [][\A n \in Nodes : Burnt(n) \subseteq Burnt(n)' \cup evicted'[n]]_vars

\* Every node's ledger is the log that AuditedLog promises, whatever the others do.
NodeLog(n) == INSTANCE AuditedLog
                WITH Entries <- Ids, log <- ledger[n], sealed <- n \in sealed,
                     told <- told[n]
LogStep(n) == [NodeLog(n)!Next]_<<ledger[n], n \in sealed, told[n]>>
NodesKeepLogs ==
  /\ \A n \in Nodes : NodeLog(n)!Init
  /\ [][\A n \in Nodes : LogStep(n)]_vars

-----------------------------------------------------------------------------
(* The inductive invariant behind the theorems of MeshProofs.              *)

\* The node knows the nonce also after a restart, or the envelope is stale to it.
Knows(n, i) == i \in file[n] \cup lapsed[n] \/ Forgettable(n, i)

\* What a node has recorded it knows, and a nonce in the file is in the memory unless it
\* was dropped there; the node answers "ok" only about what it has recorded, and stores
\* nothing before the nonce was saved: a task or file that no entry accounts for is Burnt
\* or forgettable.
NodeOK(n) ==
  /\ mem[n] \cup file[n] \cup lapsed[n] \cup evicted[n] \subseteq 1 .. Len(envelopes)
  /\ \A i \in file[n] : Timed(i) /\ i \in mem[n] \cup lapsed[n] \cup evicted[n]
  /\ \A i \in Recorded(n) : i \in 1 .. Len(envelopes) /\ Knows(n, i)
  /\ \A i \in stored[n] : i \in 1 .. Len(envelopes) /\ Knows(n, i)
  /\ told[n] \subseteq Recorded(n)

\* Where the call of a node is between its nonce, its entry and its forwards.
CallOK(n) ==
  LET c == call[n] IN
  /\ c.ph = "idle" => c = Idle
  /\ c.ph # "idle" => c.env \in 1 .. Len(envelopes)
  /\ c.ph = "save" => c.env \in mem[n]
  /\ c.ph \in {"save", "store", "append"} =>
       /\ c.env \in Recorded(n) => Forgettable(n, c.env)
       /\ c.todo = {}
  /\ c.ph \in {"store", "append", "forward"} => Knows(n, c.env)
  /\ c.ph = "forward" => /\ n \notin sealed
                         /\ ledger[n] # <<>> /\ ledger[n][Len(ledger[n])] = c.env
                         /\ c.todo \subseteq Legs(n, c.door)

\* Once the entry in progress has been forwarded, one leg of the call is done, or it is
\* not the first entry of the envelope.
LegDone ==
  \A j \in 1 .. Len(envelopes) : Trail(j) # <<>> =>
    LET c == call[Signer(j)] IN
    c.ph = "forward" /\ c.env = envelopes[j].of =>
      c.todo # Legs(Signer(j), c.door) \/ Twice(Signer(j), envelopes[j].ev)

\* CopiesAreRoutes, of all envelopes and not only of those recorded.
RoutesDistinct ==
  \A i, j \in 1 .. Len(envelopes) :
    i # j /\ envelopes[i].ev = envelopes[j].ev /\ Trail(i) = Trail(j) => DoubledOnTheWay(i)

MeshInv ==
  /\ TypeOK /\ RecordedOnce /\ LocalAppendFirst
  /\ \A n \in Nodes : NodeOK(n) /\ CallOK(n)
  /\ LegDone /\ RoutesDistinct
=============================================================================
