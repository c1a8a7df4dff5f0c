----------------------------- MODULE MeshProofs -----------------------------
(***************************************************************************)
(* What TLAPS proves of Mesh, for any nodes, topologies and events.        *)
(***************************************************************************)
EXTENDS Mesh, SequenceTheorems, TLAPS

USE MeshAssumption

(***************************************************************************)
(* Types and sequences.                                                    *)
(***************************************************************************)

\* The envelopes and the calls that a step makes are of their types.
LEMMA CallType ==
  \A ph \in Phases, e \in 0 .. MaxEnvelopes, door \in Doors, todo \in SUBSET (Nodes \cup {Http}) :
    [ph |-> ph, env |-> e, door |-> door, todo |-> todo] \in Calls
  BY DEF Calls

LEMMA LegsType == \A n \in Nodes, door \in Doors : Legs(n, door) \in SUBSET (Nodes \cup {Http})
  BY DEF Legs

\* Idle is a call.
LEMMA IdleType == Idle \in Calls
  BY DEF Idle, Calls, Phases, Doors

\* Appending keeps what a sequence has, at its place.
LEMMA AppendAt ==
  ASSUME NEW S, NEW s \in Seq(S), NEW x \in S
  PROVE  /\ Append(s, x) \in Seq(S)
         /\ Len(Append(s, x)) = Len(s) + 1 /\ Len(s) \in Nat
         /\ \A i \in 1 .. Len(s) : Append(s, x)[i] = s[i]
         /\ Append(s, x)[Len(s) + 1] = x
  OBVIOUS

\* The envelope of a call in progress is one that was signed.
LEMMA EnvType ==
  ASSUME MeshInv, NEW n \in Nodes, call[n].ph # "idle"
  PROVE  call[n].env \in Ids /\ call[n].env \in 1 .. Len(envelopes)
<1>1. Len(envelopes) \in Nat /\ Len(envelopes) <= MaxEnvelopes
  BY DEF MeshInv, TypeOK
<1>2. call[n].env \in 1 .. Len(envelopes)
  BY DEF MeshInv, CallOK
<1> QED BY <1>1, <1>2 DEF Ids

\* Every node on a trail is a node, and an envelope forwards an older one.
LEMMA TrailType ==
  ASSUME TypeOK, NEW j \in 1 .. Len(envelopes)
  PROVE  /\ Trail(j) \in Seq(Nodes) /\ envelopes[j].ev \in Events
         /\ envelopes[j].of \in 0 .. MaxEnvelopes /\ Timed(j) \in BOOLEAN
         /\ Trail(j) # <<>> => Signer(j) \in Nodes
<1>1. envelopes[j] \in Envelopes
  BY DEF TypeOK
<1>2. Trail(j) \in Seq(Nodes)
  BY <1>1 DEF Trail, Envelopes
<1> QED BY <1>1, <1>2 DEF Envelopes, Signer, Timed

\* Saving drops from the memory what has no number for a timestamp, what has lapsed and
\* what is evicted, and nothing else; the nonce just verified has not lapsed.
LEMMA PruneKeeps ==
  ASSUME TypeOK, NEW n \in Nodes, Prunes(n)
  PROVE  /\ mem' \in [Nodes -> SUBSET Ids]
         /\ lapsed' \in [Nodes -> SUBSET Ids] /\ evicted' \in [Nodes -> SUBSET Ids]
         /\ mem'[n] \subseteq mem[n] /\ \A i \in mem'[n] : Timed(i)
         /\ lapsed[n] \subseteq lapsed'[n] /\ lapsed'[n] \subseteq lapsed[n] \cup mem[n]
         /\ evicted[n] \subseteq evicted'[n] /\ evicted'[n] \subseteq evicted[n] \cup mem[n]
         /\ \A i \in mem[n] : Timed(i) => i \in mem'[n] \cup lapsed'[n] \cup evicted'[n]
         /\ call[n].env \in mem[n] /\ Timed(call[n].env) =>
              call[n].env \in mem'[n] \cup lapsed[n] \cup evicted'[n]
         /\ \A m \in Nodes \ {n} :
              mem'[m] = mem[m] /\ lapsed'[m] = lapsed[m] /\ evicted'[m] = evicted[m]
<1>1. PICK aged \in SUBSET {i \in mem[n] : Timed(i) /\ i # call[n].env} :
        LET young == {i \in mem[n] \ aged : Timed(i)} IN
        \E kept \in SUBSET young :
          /\ mem' = [mem EXCEPT ![n] = kept]
          /\ lapsed' = [lapsed EXCEPT ![n] = @ \cup aged]
          /\ evicted' = [evicted EXCEPT ![n] = @ \cup (young \ kept)]
  BY DEF Prunes
<1>2. PICK kept \in SUBSET {i \in mem[n] \ aged : Timed(i)} :
        /\ mem' = [mem EXCEPT ![n] = kept]
        /\ lapsed' = [lapsed EXCEPT ![n] = @ \cup aged]
        /\ evicted' = [evicted EXCEPT ![n] = @ \cup ({i \in mem[n] \ aged : Timed(i)} \ kept)]
  BY <1>1
<1>3. PICK gone \in SUBSET mem[n] : gone = {i \in mem[n] \ aged : Timed(i)} \ kept
  OBVIOUS
<1>4. /\ mem[n] \in SUBSET Ids /\ lapsed[n] \in SUBSET Ids /\ evicted[n] \in SUBSET Ids
      /\ kept \in SUBSET mem[n] /\ aged \in SUBSET mem[n]
  BY DEF TypeOK
<1>5. /\ mem' \in [Nodes -> SUBSET Ids] /\ lapsed' \in [Nodes -> SUBSET Ids]
      /\ evicted' \in [Nodes -> SUBSET Ids]
      /\ mem'[n] = kept /\ lapsed'[n] = lapsed[n] \cup aged /\ evicted'[n] = evicted[n] \cup gone
      /\ \A m \in Nodes \ {n} :
           mem'[m] = mem[m] /\ lapsed'[m] = lapsed[m] /\ evicted'[m] = evicted[m]
  BY <1>2, <1>3, <1>4 DEF TypeOK
<1>6. \A i \in kept : Timed(i)
  OBVIOUS
<1>7. \A i \in mem[n] : Timed(i) => i \in kept \/ i \in aged \/ i \in gone
  BY <1>3
<1>8. call[n].env \notin aged
  OBVIOUS
<1> QED BY <1>4, <1>5, <1>6, <1>7, <1>8

\* A nonce in the file is dropped from the memory as lapsed or evicted, never silently.
LEMMA PruneFile ==
  ASSUME MeshInv, NEW n \in Nodes, Prunes(n)
  PROVE  \A i \in file[n] : i \in mem'[n] \cup lapsed'[n] \cup evicted'[n]
<1>1. TypeOK /\ NodeOK(n)
  BY DEF MeshInv
<1> QED BY <1>1, PruneKeeps DEF NodeOK

\* A new phase makes a call of a call.
LEMMA PhaseType ==
  ASSUME TypeOK, NEW n \in Nodes, NEW ph \in Phases, NEW todo \in SUBSET (Nodes \cup {Http})
  PROVE  /\ [call[n] EXCEPT !.ph = ph] \in Calls
         /\ [call[n] EXCEPT !.todo = todo] \in Calls
         /\ [call[n] EXCEPT !.ph = ph, !.todo = todo] \in Calls
BY DEF TypeOK, Calls

\* The types are preserved.
LEMMA TypeStep == MeshInv /\ [Next]_vars => TypeOK'
<1> SUFFICES ASSUME MeshInv, [Next]_vars PROVE TypeOK'
  OBVIOUS
<1>0. TypeOK
  BY DEF MeshInv
<1> USE DEF TypeOK
<1>1. ASSUME NEW ev \in Events, AgentSigns(ev) PROVE TypeOK'
  <2>1. \A timed \in BOOLEAN : [ev |-> ev, of |-> 0, timed |-> timed, trail |-> <<>>] \in Envelopes
    BY DEF Envelopes
  <2>2. envelopes' \in Seq(Envelopes) /\ Len(envelopes)' <= MaxEnvelopes
    BY <1>0, <1>1, <2>1, AppendAt DEF AgentSigns, Sign
  <2> QED BY <1>0, <1>1, <2>2 DEF AgentSigns, store, nonces
<1>2. ASSUME NEW n \in Nodes, NEW i \in Ids, NEW door \in Doors, Verify(n, i, door) PROVE TypeOK'
  <2>1. [ph |-> "save", env |-> i, door |-> door, todo |-> {}] \in Calls
    BY CallType DEF Phases, Ids
  <2>2. call' \in [Nodes -> Calls]
    BY <1>0, <1>2, <2>1 DEF Verify
  <2> QED BY <1>0, <1>2, <2>2 DEF Verify
<1>3. ASSUME NEW n \in Nodes, SaveNonces(n) PROVE TypeOK'
  <2>1. call' \in [Nodes -> Calls]
    BY <1>0, <1>3, PhaseType DEF SaveNonces, Phases
  <2>2. /\ mem' \in [Nodes -> SUBSET Ids] /\ lapsed' \in [Nodes -> SUBSET Ids]
        /\ evicted' \in [Nodes -> SUBSET Ids] /\ mem'[n] \in SUBSET Ids
    BY <1>0, <1>3, PruneKeeps DEF SaveNonces
  <2>3. file' \in [Nodes -> SUBSET Ids]
    BY <1>0, <1>3, <2>2 DEF SaveNonces
  <2>4. faults' \in 0 .. MaxFaults
    BY <1>0, <1>3 DEF SaveNonces
  <2> QED BY <1>0, <1>3, <2>1, <2>2, <2>3, <2>4 DEF SaveNonces
<1>4. ASSUME NEW n \in Nodes, Store(n) PROVE TypeOK'
  <2>1. call' \in [Nodes -> Calls]
    BY <1>0, <1>4, PhaseType DEF Store, Phases
  <2>2. call[n].env \in Ids
    BY <1>4, EnvType DEF Store
  <2> QED BY <1>0, <1>4, <2>1, <2>2 DEF Store, nonces
<1>5. ASSUME NEW n \in Nodes, Record(n) PROVE TypeOK'
  <2>1. Legs(n, call[n].door) \in SUBSET (Nodes \cup {Http})
    BY <1>0, LegsType DEF Calls
  <2>2. call' \in [Nodes -> Calls]
    BY <1>0, <1>5, <2>1, PhaseType DEF Record, Phases
  <2>3. call[n].env \in Ids
    BY <1>5, EnvType DEF Record
  <2>4. Append(ledger[n], call[n].env) \in Seq(Ids)
    BY <1>0, <2>3
  <2> QED BY <1>0, <1>5, <2>2, <2>4 DEF Record, nonces
<1>6. ASSUME NEW n \in Nodes, Refused(n) PROVE TypeOK'
  BY <1>0, <1>6, IdleType DEF Refused, store, nonces
<1>7. ASSUME NEW n \in Nodes, NEW l \in Nodes \cup {Http}, ForwardLeg(n, l) PROVE TypeOK'
  <2>1. call[n].todo \ {l} \in SUBSET (Nodes \cup {Http})
    BY <1>0 DEF Calls
  <2>2. call' \in [Nodes -> Calls]
    BY <1>0, <1>7, <2>1, PhaseType DEF ForwardLeg, Phases
  <2>3. envelopes' \in Seq(Envelopes) /\ Len(envelopes)' <= MaxEnvelopes
    <3>1. CASE UNCHANGED envelopes
      BY <1>0, <3>1
    <3>2. CASE Forwards(n)
      <4>1. call[n].env \in Ids /\ call[n].env \in 1 .. Len(envelopes)
        BY <1>7, EnvType DEF ForwardLeg
      <4>2. envelopes[call[n].env] \in Envelopes
        BY <1>0, <4>1
      <4>3. Append(Trail(call[n].env), n) \in Seq(Nodes) /\ envelopes[call[n].env].ev \in Events
        BY <4>2 DEF Trail, Envelopes
      <4>4. [ev |-> envelopes[call[n].env].ev, of |-> call[n].env, timed |-> TRUE,
             trail |-> Append(Trail(call[n].env), n)] \in Envelopes
        BY <4>1, <4>3 DEF Envelopes, Ids
      <4> QED BY <1>0, <3>2, <4>4, AppendAt DEF Forwards, Sign
    <3> QED BY <1>7, <3>1, <3>2 DEF ForwardLeg
  <2> QED BY <1>0, <1>7, <2>2, <2>3 DEF ForwardLeg, store, nonces
<1>8. ASSUME NEW n \in Nodes, Answer(n) PROVE TypeOK'
  <2>1. call[n].env \in Ids
    BY <1>8, EnvType DEF Answer
  <2> QED BY <1>0, <1>8, <2>1, IdleType DEF Answer, store, nonces
<1>9. ASSUME NEW n \in Nodes, Interrupted(n)
      PROVE  /\ call' \in [Nodes -> Calls] /\ sealed' \subseteq Nodes /\ faults' \in 0 .. MaxFaults
             /\ UNCHANGED <<net, envelopes, ledger, stored, told>>
  BY <1>0, <1>9, IdleType DEF Interrupted
<1>10. ASSUME NEW n \in Nodes, SaveFails(n) PROVE TypeOK'
  <2>1. /\ mem' \in [Nodes -> SUBSET Ids] /\ lapsed' \in [Nodes -> SUBSET Ids]
        /\ evicted' \in [Nodes -> SUBSET Ids] /\ mem'[n] \in SUBSET Ids
    BY <1>0, <1>10, PruneKeeps DEF SaveFails
  <2>2. file' \in [Nodes -> SUBSET Ids]
    BY <1>0, <1>10, <2>1 DEF SaveFails
  <2> QED BY <1>0, <1>9, <1>10, <2>1, <2>2 DEF SaveFails
<1>11. ASSUME NEW n \in Nodes, Fails(n) PROVE TypeOK'
  BY <1>0, <1>9, <1>11 DEF Fails, nonces
<1>12. ASSUME NEW n \in Nodes, Restart(n) PROVE TypeOK'
  <2>1. mem' \in [Nodes -> SUBSET Ids]
    BY <1>0, <1>12 DEF Restart
  <2> QED BY <1>0, <1>9, <1>12, <2>1 DEF Restart
<1>13. CASE UNCHANGED vars
  BY <1>0, <1>13 DEF vars, store, nonces
<1> QED
  BY <1>1, <1>2, <1>3, <1>4, <1>5, <1>6, <1>7, <1>8, <1>10, <1>11, <1>12, <1>13 DEF Next

(***************************************************************************)
(* The steps of one node that sign and record nothing.                     *)
(***************************************************************************)

\* What does not change with the envelopes, the ledgers and the topology.
LEMMA SameMesh ==
  ASSUME UNCHANGED <<net, envelopes, ledger>>
  PROVE  /\ \A i : Trail(i)' = Trail(i) /\ Signer(i)' = Signer(i) /\ Timed(i)' = Timed(i)
         /\ \A m : Recorded(m)' = Recorded(m)
         /\ \A m, door : Legs(m, door)' = Legs(m, door)
         /\ \A m, ev : /\ Twice(m, ev)' <=> Twice(m, ev)
                       /\ Doubles(m, ev)' <=> Doubles(m, ev)
         /\ LocalAppendFirst' <=> LocalAppendFirst
         /\ RoutesDistinct' <=> RoutesDistinct
<1>1. \A i : Trail(i)' = Trail(i) /\ Timed(i)' = Timed(i)
  BY DEF Trail, Timed
<1>2. \A i : Signer(i)' = Signer(i)
  BY <1>1 DEF Signer
<1>3. \A m : Recorded(m)' = Recorded(m)
  BY DEF Recorded
<1>4. \A m, door : Legs(m, door)' = Legs(m, door)
  BY DEF Legs
<1>5. \A m, ev : Twice(m, ev)' <=> Twice(m, ev)
  BY DEF Twice
<1>6. \A m, ev : Doubles(m, ev)' <=> Doubles(m, ev)
  BY <1>5 DEF Doubles, TwoLinks
<1>7. LocalAppendFirst' <=> LocalAppendFirst
  BY <1>1, <1>2, <1>3 DEF LocalAppendFirst
<1>8. RoutesDistinct' <=> RoutesDistinct
  BY <1>1, <1>6 DEF RoutesDistinct, DoubledOnTheWay
<1> QED BY <1>1, <1>2, <1>3, <1>4, <1>5, <1>6, <1>7, <1>8

\* They concern the invariant of that node alone.
LEMMA QuietStep ==
  ASSUME MeshInv, NEW n \in Nodes, UNCHANGED <<net, envelopes, ledger>>,
         \A m \in Nodes \ {n} :
           /\ mem'[m] = mem[m] /\ file'[m] = file[m] /\ stored'[m] = stored[m]
           /\ lapsed'[m] = lapsed[m] /\ evicted'[m] = evicted[m]
           /\ told'[m] = told[m] /\ call'[m] = call[m]
           /\ m \in sealed' <=> m \in sealed,
         evicted[n] \subseteq evicted'[n],
         NodeOK(n)', CallOK(n)', call'[n].ph # "forward"
  PROVE  /\ RecordedOnce' /\ LocalAppendFirst'
         /\ \A m \in Nodes : NodeOK(m)' /\ CallOK(m)'
         /\ LegDone' /\ RoutesDistinct'
<1>1. RecordedOnce'
  <2>1. \A m \in Nodes : evicted[m] \subseteq evicted'[m]
    OBVIOUS
  <2>2. \A i : \A m \in Nodes : Forgettable(m, i) => Forgettable(m, i)'
    BY <2>1, SameMesh DEF Forgettable
  <2> QED BY <2>2 DEF MeshInv, RecordedOnce
<1>2. LocalAppendFirst' /\ RoutesDistinct'
  BY SameMesh DEF MeshInv
<1>3. ASSUME NEW m \in Nodes PROVE NodeOK(m)' /\ CallOK(m)'
  <2>1. CASE m # n
    <3>1. \A i : Forgettable(m, i)' <=> Forgettable(m, i)
      BY <2>1, SameMesh DEF Forgettable
    <3>2. \A i : Knows(m, i)' <=> Knows(m, i)
      BY <2>1, <3>1 DEF Knows
    <3>3. NodeOK(m) /\ CallOK(m)
      BY DEF MeshInv
    <3>4. NodeOK(m)'
      BY <2>1, <3>2, <3>3, SameMesh DEF NodeOK
    <3>5. CallOK(m)'
      BY <2>1, <3>1, <3>2, <3>3, SameMesh DEF CallOK
    <3> QED BY <3>4, <3>5
  <2> QED BY <2>1
<1>4. LegDone'
  <2> SUFFICES ASSUME NEW j \in 1 .. Len(envelopes), Trail(j) # <<>>,
                      call'[Signer(j)].ph = "forward", call'[Signer(j)].env = envelopes[j].of
               PROVE  \/ call'[Signer(j)].todo # Legs(Signer(j), call'[Signer(j)].door)
                      \/ Twice(Signer(j), envelopes[j].ev)
    BY SameMesh DEF LegDone
  <2>1. PICK s \in Nodes : s = Signer(j)
    BY TrailType DEF MeshInv
  <2>2. s # n /\ call'[s] = call[s]
    BY <2>1
  <2> QED BY <2>1, <2>2 DEF MeshInv, LegDone
<1> QED BY <1>1, <1>2, <1>3, <1>4

\* verify: the nonce was not known, so the envelope has not been recorded here, or its
\* nonce was dropped.
LEMMA VerifyStep ==
  ASSUME MeshInv, NEW n \in Nodes, NEW i \in Ids, NEW door \in Doors, Verify(n, i, door)
  PROVE  NodeOK(n)' /\ CallOK(n)' /\ call'[n].ph # "forward"
<1>1. call'[n] = [ph |-> "save", env |-> i, door |-> door, todo |-> {}] /\ mem'[n] = mem[n] \cup {i}
  BY DEF MeshInv, TypeOK, Verify
<1>2. /\ i \notin mem[n] /\ i \notin lapsed[n] /\ i \in 1 .. Len(envelopes)
      /\ UNCHANGED <<net, envelopes, file, lapsed, evicted, ledger, sealed, stored, told>>
  BY DEF Verify, Arrives, Signed
<1>3. \A x : Forgettable(n, x)' = Forgettable(n, x) /\ Knows(n, x)' = Knows(n, x)
  BY <1>2 DEF Forgettable, Knows, Timed
<1>4. i \in Recorded(n) => Forgettable(n, i)
  BY <1>2 DEF MeshInv, NodeOK, Knows, Forgettable
<1>5. Recorded(n)' = Recorded(n)
  BY <1>2, SameMesh
<1>6. NodeOK(n)'
  <2>1. NodeOK(n)
    BY DEF MeshInv
  <2> QED BY <1>1, <1>2, <1>3, <1>5, <2>1, SameMesh DEF NodeOK
<1>7. CallOK(n)'
  BY <1>1, <1>2, <1>3, <1>4, <1>5 DEF CallOK, Idle
<1> QED BY <1>1, <1>6, <1>7

\* _save_nonces, whether it writes the file or fails: what the node knew it knows, and
\* what it dropped is not in the memory, the file being the memory or what it was.
LEMMA SavedNode ==
  ASSUME MeshInv, NEW n \in Nodes, Prunes(n), file'[n] = file[n] \/ file'[n] = mem'[n],
         UNCHANGED <<net, envelopes, ledger, stored, told>>
  PROVE  /\ NodeOK(n)'
         /\ \A i : Knows(n, i) => Knows(n, i)'
         /\ \A i : Forgettable(n, i) => Forgettable(n, i)'
         /\ \A i : i = call[n].env /\ i \in mem[n] /\ file'[n] = mem'[n] => Knows(n, i)'
<1>0. TypeOK /\ NodeOK(n)
  BY DEF MeshInv
<1>1. /\ mem'[n] \subseteq mem[n] /\ \A i \in mem'[n] : Timed(i)
      /\ lapsed[n] \subseteq lapsed'[n] /\ lapsed'[n] \subseteq lapsed[n] \cup mem[n]
      /\ evicted[n] \subseteq evicted'[n] /\ evicted'[n] \subseteq evicted[n] \cup mem[n]
      /\ call[n].env \in mem[n] /\ Timed(call[n].env) =>
           call[n].env \in mem'[n] \cup lapsed[n] \cup evicted'[n]
  BY <1>0, PruneKeeps
<1>2. \A i \in file[n] : i \in mem'[n] \cup lapsed'[n] \cup evicted'[n]
  BY PruneFile
<1>3. \A i : Timed(i)' = Timed(i)
  BY SameMesh
<1>4. \A i : Forgettable(n, i) => Forgettable(n, i)'
  BY <1>1, <1>3 DEF Forgettable
<1>5. \A i : Knows(n, i) => Knows(n, i)'
  BY <1>1, <1>2, <1>4 DEF Knows, Forgettable
<1>6. \A i : i = call[n].env /\ i \in mem[n] /\ file'[n] = mem'[n] => Knows(n, i)'
  BY <1>1, <1>3 DEF Knows, Forgettable
<1>7. NodeOK(n)'
  <2>1. Recorded(n)' = Recorded(n)
    BY SameMesh
  <2>2. (mem[n] \cup file[n] \cup lapsed[n] \cup evicted[n] \subseteq 1 .. Len(envelopes))'
    BY <1>0, <1>1 DEF NodeOK
  <2>3. (\A i \in file[n] : Timed(i) /\ i \in mem[n] \cup lapsed[n] \cup evicted[n])'
    BY <1>0, <1>1, <1>2, <1>3 DEF NodeOK
  <2>4. (\A i \in Recorded(n) : i \in 1 .. Len(envelopes) /\ Knows(n, i))'
    BY <1>0, <1>5, <2>1 DEF NodeOK
  <2>5. (\A i \in stored[n] : i \in 1 .. Len(envelopes) /\ Knows(n, i))'
    BY <1>0, <1>5 DEF NodeOK
  <2>6. (told[n] \subseteq Recorded(n))'
    BY <1>0, <2>1 DEF NodeOK
  <2> QED BY <2>2, <2>3, <2>4, <2>5, <2>6 DEF NodeOK
<1> QED BY <1>4, <1>5, <1>6, <1>7

\* _save_nonces writes the file: the node knows the envelope of the call from here on.
LEMMA SaveStep ==
  ASSUME MeshInv, NEW n \in Nodes, SaveNonces(n)
  PROVE  NodeOK(n)' /\ CallOK(n)' /\ call'[n].ph # "forward"
<1> DEFINE ph == IF call[n].door = "vault" THEN "store" ELSE "append"
<1>1. call'[n] = [call[n] EXCEPT !.ph = ph] /\ file'[n] = mem'[n]
  BY DEF MeshInv, TypeOK, SaveNonces
<1>2. call[n] \in Calls
  BY DEF MeshInv, TypeOK
<1>3. /\ call'[n].ph = ph /\ call'[n].env = call[n].env /\ call'[n].todo = call[n].todo
      /\ ph \in {"store", "append"}
  BY <1>1, <1>2 DEF Calls
<1>4. Prunes(n) /\ UNCHANGED <<net, envelopes, ledger, sealed, stored, told>>
  BY DEF SaveNonces
<1>5. PICK e \in 1 .. Len(envelopes) : e = call[n].env
  BY DEF SaveNonces, MeshInv, CallOK
<1>6. /\ e \in mem[n] /\ call[n].todo = {}
      /\ e \in Recorded(n) => Forgettable(n, e)
  BY <1>5 DEF SaveNonces, MeshInv, CallOK
<1>7. /\ NodeOK(n)' /\ Knows(n, e)'
      /\ Forgettable(n, e) => Forgettable(n, e)'
  BY <1>1, <1>4, <1>5, <1>6, SavedNode
<1>8. Recorded(n)' = Recorded(n)
  BY <1>4, SameMesh
<1> HIDE DEF ph
<1>9. CallOK(n)'
  <2>1. /\ call'[n].env = e /\ call'[n].ph \in {"store", "append"} /\ call'[n].todo = {}
        /\ UNCHANGED envelopes
    BY <1>3, <1>4, <1>5, <1>6
  <2>2. e \in Recorded(n)' => Forgettable(n, e)'
    BY <1>6, <1>7, <1>8
  <2> QED BY <1>7, <2>1, <2>2 DEF CallOK
<1> QED BY <1>3, <1>7, <1>9

\* What the vault stores has its nonce in the file, unless it was dropped.
LEMMA StoreStep ==
  ASSUME MeshInv, NEW n \in Nodes, Store(n)
  PROVE  NodeOK(n)' /\ CallOK(n)' /\ call'[n].ph # "forward"
<1>1. /\ call'[n] = [call[n] EXCEPT !.ph = "append"] /\ stored'[n] = stored[n] \cup {call[n].env}
      /\ call[n] \in Calls
      /\ UNCHANGED <<net, envelopes, mem, file, lapsed, evicted, ledger, sealed, told>>
  BY DEF MeshInv, TypeOK, Store, nonces
<1>2. call'[n].ph = "append" /\ call'[n].env = call[n].env /\ call'[n].todo = call[n].todo
  BY <1>1 DEF Calls
<1>3. Recorded(n)' = Recorded(n) /\ \A i : Timed(i)' = Timed(i)
  BY <1>1, SameMesh
<1>4. \A x : Forgettable(n, x)' = Forgettable(n, x) /\ Knows(n, x)' = Knows(n, x)
  BY <1>1, <1>3 DEF Forgettable, Knows
<1>5. /\ Knows(n, call[n].env) /\ call[n].env \in 1 .. Len(envelopes)
      /\ call[n].env \in Recorded(n) => Forgettable(n, call[n].env)
      /\ call[n].todo = {}
  BY DEF Store, MeshInv, CallOK
<1>6. NodeOK(n)'
  <2>1. NodeOK(n)
    BY DEF MeshInv
  <2> QED BY <1>1, <1>3, <1>4, <1>5, <2>1 DEF NodeOK
<1>7. CallOK(n)'
  <2>1. PICK e \in 1 .. Len(envelopes) : e = call[n].env /\ e = call'[n].env
    BY <1>2, <1>5
  <2>2. Knows(n, e)' /\ (e \in Recorded(n)' => Forgettable(n, e)')
    BY <1>3, <1>4, <1>5, <2>1
  <2>3. call'[n].ph = "append" /\ call'[n].todo = {} /\ UNCHANGED envelopes
    BY <1>1, <1>2, <1>5
  <2> QED BY <2>1, <2>2, <2>3 DEF CallOK
<1> QED BY <1>2, <1>6, <1>7

\* A call that ends, by its answer, a refusal or a fault: it is answered "ok" only
\* after its entry, and memory is at least what the file has.
LEMMA EndStep ==
  ASSUME MeshInv, NEW n \in Nodes, call'[n] = Idle,
         UNCHANGED <<net, envelopes, ledger, file, lapsed, evicted, stored>>,
         mem'[n] = mem[n] \/ mem'[n] = file[n],
         told'[n] = told[n] \/ (told'[n] = told[n] \cup {call[n].env} /\ call[n].ph = "forward")
  PROVE  NodeOK(n)' /\ CallOK(n)' /\ call'[n].ph # "forward"
<1>1. Recorded(n)' = Recorded(n) /\ \A i : Timed(i)' = Timed(i)
  BY SameMesh
<1>2. \A x : Forgettable(n, x)' = Forgettable(n, x) /\ Knows(n, x)' = Knows(n, x)
  BY <1>1 DEF Forgettable, Knows
<1>3. CallOK(n)' /\ call'[n].ph # "forward"
  BY DEF CallOK, Idle
<1>4. call[n].ph = "forward" => call[n].env \in Recorded(n)
  <2>1. ledger[n] \in Seq(Ids)
    BY DEF MeshInv, TypeOK
  <2> QED BY <2>1 DEF MeshInv, CallOK, Recorded
<1>5. NodeOK(n)'
  <2>1. NodeOK(n)
    BY DEF MeshInv
  <2>2. (mem[n] \cup file[n] \cup lapsed[n] \cup evicted[n] \subseteq 1 .. Len(envelopes))'
    BY <2>1 DEF NodeOK
  <2>3. (\A i \in file[n] : Timed(i) /\ i \in mem[n] \cup lapsed[n] \cup evicted[n])'
    BY <1>1, <2>1 DEF NodeOK
  <2>4. told'[n] \subseteq Recorded(n)
    BY <1>4, <2>1 DEF NodeOK
  <2> QED BY <1>1, <1>2, <2>1, <2>2, <2>3, <2>4 DEF NodeOK
<1> QED BY <1>3, <1>5

(***************************************************************************)
(* The steps that sign or record.                                          *)
(***************************************************************************)

\* A new envelope leaves the others as they were.
LEMMA SignKeeps ==
  ASSUME TypeOK, NEW r \in Envelopes, envelopes' = Append(envelopes, r)
  PROVE  /\ Len(envelopes) \in Nat /\ Len(envelopes)' = Len(envelopes) + 1
         /\ \A j \in 1 .. Len(envelopes) :
              /\ envelopes'[j] = envelopes[j] /\ Trail(j)' = Trail(j)
              /\ Signer(j)' = Signer(j) /\ Timed(j)' = Timed(j)
         /\ \A k \in Nat : k = Len(envelopes) + 1 => envelopes'[k] = r /\ Trail(k)' = r.trail
<1>1. /\ Len(envelopes) \in Nat /\ Len(envelopes)' = Len(envelopes) + 1
      /\ \A j \in 1 .. Len(envelopes) : envelopes'[j] = envelopes[j]
      /\ \A k \in Nat : k = Len(envelopes) + 1 => envelopes'[k] = r
  BY AppendAt DEF TypeOK
<1>2. /\ \A j \in 1 .. Len(envelopes) : Trail(j)' = Trail(j)
      /\ \A k \in Nat : k = Len(envelopes) + 1 => Trail(k)' = r.trail
  BY <1>1 DEF Trail
<1>3. \A j \in 1 .. Len(envelopes) : Signer(j)' = Signer(j) /\ Timed(j)' = Timed(j)
  BY <1>1, <1>2 DEF Signer, Timed
<1> QED BY <1>1, <1>2, <1>3

\* What is recorded was signed.
LEMMA RecordedSigned ==
  ASSUME MeshInv, NEW n \in Nodes
  PROVE  Recorded(n) \subseteq 1 .. Len(envelopes)
BY DEF MeshInv, NodeOK

\* The nodes do not see that another envelope was signed, by whomever.
LEMMA SignNodes ==
  ASSUME MeshInv, NEW r \in Envelopes, envelopes' = Append(envelopes, r),
         UNCHANGED <<net, nonces, ledger, sealed, stored, told>>, NEW m \in Nodes
  PROVE  /\ NodeOK(m)'
         /\ \A e \in 1 .. Len(envelopes) :
              e \in 1 .. Len(envelopes)' /\ Forgettable(m, e)' = Forgettable(m, e)
                                         /\ Knows(m, e)' = Knows(m, e)
         /\ \A ev : Twice(m, ev) => Twice(m, ev)'
         /\ \A ev : Doubles(m, ev) => Doubles(m, ev)'
<1>1. Len(envelopes) \in Nat /\ Len(envelopes)' = Len(envelopes) + 1
  BY SignKeeps DEF MeshInv
<1>2. 1 .. Len(envelopes) \subseteq (1 .. Len(envelopes))'
  BY <1>1
<1>3. NodeOK(m) /\ Recorded(m)' = Recorded(m) /\ UNCHANGED <<mem, file, lapsed, evicted>>
  BY DEF MeshInv, Recorded, nonces
<1>4. \A e \in 1 .. Len(envelopes) : Timed(e)' = Timed(e)
  BY SignKeeps DEF MeshInv
<1>5. \A e \in 1 .. Len(envelopes) :
        Forgettable(m, e)' = Forgettable(m, e) /\ Knows(m, e)' = Knows(m, e)
  BY <1>3, <1>4 DEF Forgettable, Knows
<1>6. NodeOK(m)'
  <2>1. (mem[m] \cup file[m] \cup lapsed[m] \cup evicted[m] \subseteq 1 .. Len(envelopes))'
    BY <1>2, <1>3 DEF NodeOK
  <2>2. (\A i \in file[m] : Timed(i) /\ i \in mem[m] \cup lapsed[m] \cup evicted[m])'
    BY <1>3, <1>4 DEF NodeOK
  <2>3. (\A i \in Recorded(m) : i \in 1 .. Len(envelopes) /\ Knows(m, i))'
    BY <1>2, <1>3, <1>5 DEF NodeOK
  <2>4. (\A i \in stored[m] : i \in 1 .. Len(envelopes) /\ Knows(m, i))'
    BY <1>2, <1>3, <1>5 DEF NodeOK
  <2>5. (told[m] \subseteq Recorded(m))'
    BY <1>3 DEF NodeOK
  <2> QED BY <2>1, <2>2, <2>3, <2>4, <2>5 DEF NodeOK
<1>7. ASSUME NEW ev, Twice(m, ev) PROVE Twice(m, ev)'
  <2>1. PICK x \in 1 .. Len(ledger[m]), y \in 1 .. Len(ledger[m]) :
          x # y /\ ledger[m][x] = ledger[m][y] /\ envelopes[ledger[m][x]].ev = ev
    BY <1>7 DEF Twice
  <2>2. ledger[m][x] \in 1 .. Len(envelopes)
    BY RecordedSigned DEF Recorded
  <2>3. envelopes'[ledger[m][x]] = envelopes[ledger[m][x]]
    BY <2>2, SignKeeps DEF MeshInv
  <2> QED BY <2>1, <2>3 DEF Twice
<1>8. \A ev : Doubles(m, ev) => Doubles(m, ev)'
  BY <1>7 DEF Doubles, TwoLinks
<1> QED BY <1>2, <1>5, <1>6, <1>7, <1>8

\* So neither does the call of a node that goes on as it was.
LEMMA SignCalls ==
  ASSUME MeshInv, NEW r \in Envelopes, envelopes' = Append(envelopes, r),
         UNCHANGED <<net, nonces, ledger, sealed, stored, told>>, NEW m \in Nodes,
         call'[m].ph = call[m].ph, call'[m].env = call[m].env, call'[m].door = call[m].door,
         call'[m].todo \subseteq call[m].todo, call[m].ph = "idle" => call'[m] = call[m]
  PROVE  CallOK(m)'
<1>1. CallOK(m) /\ Recorded(m)' = Recorded(m) /\ Legs(m, call[m].door)' = Legs(m, call'[m].door)
  BY DEF MeshInv, Recorded, Legs
<1>2. CASE call[m].ph = "idle"
  BY <1>1, <1>2 DEF CallOK, Idle
<1>3. CASE call[m].ph # "idle"
  <2>1. PICK e \in 1 .. Len(envelopes) : e = call[m].env /\ e = call'[m].env
    BY <1>1, <1>3 DEF CallOK
  <2>2. /\ e \in 1 .. Len(envelopes)'
        /\ Forgettable(m, e)' = Forgettable(m, e) /\ Knows(m, e)' = Knows(m, e)
    BY SignNodes
  <2>3. UNCHANGED <<mem, ledger, sealed>>
    BY DEF nonces
  <2>4. call[m].ph \in {"save", "store", "append"} =>
          /\ e \in Recorded(m)' => Forgettable(m, e)'
          /\ call'[m].todo = {}
    BY <1>1, <2>1, <2>2 DEF CallOK
  <2>5. call[m].ph \in {"store", "append", "forward"} => Knows(m, e)'
    BY <1>1, <2>1, <2>2 DEF CallOK
  <2>6. call[m].ph = "forward" => call'[m].todo \subseteq Legs(m, call[m].door)
    BY <1>1 DEF CallOK
  <2>7. \A door : Legs(m, door)' = Legs(m, door)
    BY DEF Legs
  <2> QED BY <1>1, <1>3, <2>1, <2>2, <2>3, <2>4, <2>5, <2>6, <2>7 DEF CallOK
<1> QED BY <1>2, <1>3

\* The envelopes signed before forward what they did.
LEMMA SignLocal ==
  ASSUME MeshInv, NEW r \in Envelopes, envelopes' = Append(envelopes, r), UNCHANGED ledger,
         NEW j \in 1 .. Len(envelopes), Trail(j) # <<>>
  PROVE  \E i \in 1 .. Len(envelopes) :
           /\ envelopes'[j].of = i
           /\ i \in Recorded(Signer(j))'
           /\ envelopes'[i].ev = envelopes'[j].ev
           /\ Trail(j)' = Append(Trail(i)', Signer(j)')
<1>1. /\ envelopes[j].of \in Recorded(Signer(j))
      /\ envelopes[envelopes[j].of].ev = envelopes[j].ev
      /\ Trail(j) = Append(Trail(envelopes[j].of), Signer(j))
  BY DEF MeshInv, LocalAppendFirst
<1>2. Signer(j) \in Nodes
  BY TrailType DEF MeshInv
<1>3. PICK i \in 1 .. Len(envelopes) : i = envelopes[j].of
  BY <1>1, <1>2, RecordedSigned
<1>4. /\ envelopes'[j] = envelopes[j] /\ Trail(j)' = Trail(j) /\ Signer(j)' = Signer(j)
      /\ envelopes'[i] = envelopes[i] /\ Trail(i)' = Trail(i)
  BY <1>3, SignKeeps DEF MeshInv
<1>5. Recorded(Signer(j))' = Recorded(Signer(j))
  BY <1>4 DEF Recorded
<1> QED BY <1>1, <1>3, <1>4, <1>5

\* What a node has recorded once it still has recorded once.
LEMMA SignedOnce ==
  ASSUME MeshInv, NEW r \in Envelopes, envelopes' = Append(envelopes, r),
         UNCHANGED <<net, nonces, ledger, sealed, stored, told>>
  PROVE  RecordedOnce'
<1> SUFFICES ASSUME NEW m \in Nodes, NEW x \in 1 .. Len(ledger[m]), NEW y \in 1 .. Len(ledger[m]),
                    ledger[m][x] = ledger[m][y], x # y
             PROVE  Forgettable(m, ledger[m][x])'
  BY DEF RecordedOnce
<1>1. PICK e \in 1 .. Len(envelopes) : e = ledger[m][x]
  BY RecordedSigned DEF Recorded
<1>2. Forgettable(m, e)
  BY <1>1 DEF MeshInv, RecordedOnce
<1>3. Forgettable(m, e)'
  BY <1>2, SignNodes
<1> QED BY <1>1, <1>3 DEF Forgettable, Timed

\* The legs of a call in progress are done, or its entry is not the first of its envelope,
\* as before.
LEMMA SignedLegs ==
  ASSUME MeshInv, NEW r \in Envelopes, envelopes' = Append(envelopes, r),
         UNCHANGED <<net, nonces, ledger, sealed, stored, told>>,
         NEW j \in 1 .. Len(envelopes), Trail(j) # <<>>, NEW s \in Nodes, s = Signer(j),
         call'[s] = call[s], call[s].ph = "forward", call[s].env = envelopes[j].of
  PROVE  (call[s].todo # Legs(s, call[s].door) \/ Twice(s, envelopes[j].ev))'
<1>1. PICK v : v = envelopes[j].ev
  OBVIOUS
<1>2. call[s].todo # Legs(s, call[s].door) \/ Twice(s, v)
  BY <1>1 DEF MeshInv, LegDone
<1>3. Twice(s, v) => Twice(s, v)'
  BY SignNodes
<1>4. envelopes'[j] = envelopes[j]
  BY SignKeeps DEF MeshInv
<1>5. CASE Twice(s, v)'
  <2>1. Twice(s, envelopes[j].ev)'
    <3>1. (v = envelopes[j].ev)'
      BY <1>1, <1>4
    <3> QED BY <1>5, <3>1 DEF Twice
  <2> QED BY <2>1
<1>6. CASE call[s].todo # Legs(s, call[s].door)
  BY <1>6 DEF Legs
<1> QED BY <1>2, <1>3, <1>5, <1>6

\* Old envelopes on one route are where two were made of one, as before.
LEMMA SignRoutes ==
  ASSUME MeshInv, NEW r \in Envelopes, envelopes' = Append(envelopes, r),
         UNCHANGED <<net, nonces, ledger, sealed, stored, told>>,
         NEW S, S = 1 .. Len(envelopes),
         (\A i, j \in 1 .. Len(envelopes) :
            i # j /\ envelopes[i].ev = envelopes[j].ev /\ Trail(i) = Trail(j) =>
              \/ i \in S /\ j \in S
              \/ DoubledOnTheWay(i))'
  PROVE  RoutesDistinct'
<1> SUFFICES ASSUME NEW i \in S, NEW j \in S,
                    i # j, (envelopes[i].ev = envelopes[j].ev)', (Trail(i) = Trail(j))'
             PROVE  DoubledOnTheWay(i)'
  BY DEF RoutesDistinct
<1>1. /\ envelopes'[i] = envelopes[i] /\ envelopes'[j] = envelopes[j]
      /\ Trail(i)' = Trail(i) /\ Trail(j)' = Trail(j)
  BY SignKeeps DEF MeshInv
<1>2. PICK x \in 1 .. Len(Trail(i)) : Doubles(Trail(i)[x], envelopes[i].ev)
  BY <1>1 DEF MeshInv, RoutesDistinct, DoubledOnTheWay
<1>3. PICK m \in Nodes : m = Trail(i)[x]
  BY TrailType DEF MeshInv
<1>4. PICK v : v = envelopes[i].ev
  OBVIOUS
<1>5. Doubles(m, v)'
  BY <1>2, <1>3, <1>4, SignNodes
<1>6. Doubles(Trail(i)[x], envelopes[i].ev)'
  <2>1. (m = Trail(i)[x] /\ v = envelopes[i].ev)'
    BY <1>1, <1>3, <1>4
  <2>2. CASE TwoLinks(m)'
    BY <2>1, <2>2 DEF Doubles, TwoLinks
  <2>3. CASE Twice(m, v)'
    <3>1. Twice(Trail(i)[x], envelopes[i].ev)'
      BY <2>1, <2>3 DEF Twice
    <3> QED BY <3>1 DEF Doubles
  <2> QED BY <1>5, <2>2, <2>3 DEF Doubles
<1>7. x \in (1 .. Len(Trail(i)))'
  BY <1>1
<1> QED BY <1>6, <1>7 DEF DoubledOnTheWay

\* An agent's envelope is on a route of its own: its event is new.
LEMMA AgentStep ==
  ASSUME MeshInv, NEW ev \in Events, AgentSigns(ev), TypeOK'
  PROVE  MeshInv'
<1>t. PICK timed \in BOOLEAN : Sign(ev, 0, timed, <<>>)
  BY DEF AgentSigns
<1> DEFINE r == [ev |-> ev, of |-> 0, timed |-> timed, trail |-> <<>>]
<1>0. PICK k \in Nat : k = Len(envelopes) + 1
  BY DEF MeshInv, TypeOK
<1>1. r \in Envelopes
  BY DEF Envelopes
<1>2. envelopes' = Append(envelopes, r) /\ UNCHANGED <<net, nonces, ledger, sealed, stored, told, call>>
  BY <1>t DEF AgentSigns, Sign, store
<1>3. r.ev = ev /\ r.trail = <<>> /\ r.of = 0
  OBVIOUS
<1> HIDE DEF r
<1>4. /\ Len(envelopes) \in Nat /\ Len(envelopes)' = k /\ k = Len(envelopes) + 1
      /\ \A j \in 1 .. Len(envelopes) :
           envelopes'[j] = envelopes[j] /\ Trail(j)' = Trail(j) /\ Signer(j)' = Signer(j)
      /\ envelopes'[k] = r /\ Trail(k)' = <<>>
  BY <1>0, <1>1, <1>2, <1>3, SignKeeps DEF MeshInv
<1>5. RecordedOnce'
  BY <1>1, <1>2, SignedOnce
<1>6. LocalAppendFirst'
  <2>1. ASSUME NEW j \in 1 .. k, Trail(j)' # <<>>
        PROVE  j \in 1 .. Len(envelopes) /\ Trail(j) # <<>>
    BY <1>4, <2>1
  <2> QED BY <1>1, <1>2, <1>4, <2>1, SignLocal DEF LocalAppendFirst
<1>7. ASSUME NEW m \in Nodes PROVE NodeOK(m)' /\ CallOK(m)'
  BY <1>1, <1>2, SignNodes, SignCalls
<1>8. LegDone'
  <2> SUFFICES ASSUME NEW j \in (1 .. Len(envelopes))', (Trail(j) # <<>>)',
                      NEW s, (s = Signer(j))',
                      (call[s].ph = "forward" /\ call[s].env = envelopes[j].of)'
               PROVE  (call[s].todo # Legs(s, call[s].door) \/ Twice(s, envelopes[j].ev))'
    BY DEF LegDone
  <2>1. j \in 1 .. Len(envelopes) /\ Trail(j) # <<>>
    BY <1>4
  <2>2. envelopes'[j] = envelopes[j] /\ s = Signer(j) /\ s \in Nodes
    BY <1>4, <2>1, TrailType DEF MeshInv
  <2>3. call'[s] = call[s] /\ call[s].ph = "forward" /\ call[s].env = envelopes[j].of
    BY <1>2, <2>2
  <2> QED BY <1>1, <1>2, <2>1, <2>2, <2>3, SignedLegs
<1>9. RoutesDistinct'
  <2>1. \A x \in 1 .. Len(envelopes) : envelopes[x].ev # ev
    BY DEF AgentSigns
  <2>2. ASSUME NEW i \in (1 .. Len(envelopes))', NEW j \in (1 .. Len(envelopes))',
               i # j, (envelopes[i].ev = envelopes[j].ev)'
        PROVE  i \in 1 .. Len(envelopes) /\ j \in 1 .. Len(envelopes)
    BY <1>3, <1>4, <2>1, <2>2
  <2> QED BY <1>1, <1>2, <2>2, SignRoutes
<1> QED BY <1>5, <1>6, <1>7, <1>8, <1>9 DEF MeshInv

\* append_event: the entry is a new one, and the legs of its forward are all to come.
LEMMA RecordStep ==
  ASSUME MeshInv, NEW n \in Nodes, Record(n), TypeOK'
  PROVE  MeshInv'
<1>0. PICK e \in Ids : e = call[n].env
  BY EnvType DEF Record
<1>1. /\ ledger'[n] = Append(ledger[n], e)
      /\ \A m \in Nodes \ {n} : ledger'[m] = ledger[m] /\ call'[m] = call[m]
      /\ UNCHANGED <<net, envelopes, mem, file, lapsed, evicted, sealed, stored, told>>
      /\ call'[n] = [call[n] EXCEPT !.ph = "forward", !.todo = Legs(n, call[n].door)]
  BY <1>0 DEF Record, MeshInv, TypeOK, nonces
<1>2. ledger[n] \in Seq(Ids) /\ call[n] \in Calls
  BY DEF MeshInv, TypeOK
<1>3. /\ call'[n].ph = "forward" /\ call'[n].env = e /\ call'[n].door = call[n].door
      /\ call'[n].todo = Legs(n, call[n].door)
  BY <1>0, <1>1, <1>2 DEF Calls
<1>4. /\ Knows(n, e) /\ n \notin sealed /\ e \in 1 .. Len(envelopes)
      /\ e \in Recorded(n) => Forgettable(n, e)
  BY <1>0 DEF Record, MeshInv, CallOK
<1>5. /\ Len(ledger[n]) \in Nat /\ Len(ledger'[n]) = Len(ledger[n]) + 1
      /\ \A x \in 1 .. Len(ledger[n]) : ledger'[n][x] = ledger[n][x]
      /\ ledger'[n][Len(ledger[n]) + 1] = e /\ ledger'[n] # <<>>
  BY <1>0, <1>1, <1>2
<1>6. Recorded(n)' = Recorded(n) \cup {e}
  <2>1. \A v : v \in Recorded(n)' <=> v \in Recorded(n) \/ v = e
    <3> TAKE v
    <3>1. ASSUME v \in Recorded(n)' PROVE v \in Recorded(n) \/ v = e
      <4>1. PICK x \in 1 .. Len(ledger[n]) + 1 : v = ledger'[n][x]
        BY <1>5, <3>1 DEF Recorded
      <4>2. x \in 1 .. Len(ledger[n]) \/ x = Len(ledger[n]) + 1
        BY <1>5, <4>1
      <4> QED BY <1>5, <4>1, <4>2 DEF Recorded
    <3>2. ASSUME v \in Recorded(n) \/ v = e PROVE v \in Recorded(n)'
      <4>1. \A x \in 1 .. Len(ledger[n]) : x \in 1 .. Len(ledger'[n])
        BY <1>5
      <4>2. Len(ledger[n]) + 1 \in 1 .. Len(ledger'[n])
        BY <1>5
      <4> QED BY <1>5, <3>2, <4>1, <4>2 DEF Recorded
    <3> QED BY <3>1, <3>2
  <2> QED BY <2>1
<1>7. \A m \in Nodes \ {n} : Recorded(m)' = Recorded(m)
  BY <1>1 DEF Recorded
<1>same. \A m, i : /\ Timed(i)' = Timed(i) /\ Trail(i)' = Trail(i) /\ Signer(i)' = Signer(i)
                /\ Forgettable(m, i)' = Forgettable(m, i) /\ Knows(m, i)' = Knows(m, i)
                /\ Legs(m, i)' = Legs(m, i)
  BY <1>1 DEF Timed, Trail, Signer, Forgettable, Knows, Legs
<1>twice. ASSUME NEW m \in Nodes, NEW ev, Twice(m, ev) PROVE Twice(m, ev)'
  <2>1. PICK x \in 1 .. Len(ledger[m]), y \in 1 .. Len(ledger[m]) :
          x # y /\ ledger[m][x] = ledger[m][y] /\ envelopes[ledger[m][x]].ev = ev
    BY <1>twice DEF Twice
  <2>2. CASE m # n
    <3>1. ledger'[m] = ledger[m]
      BY <1>1, <2>2
    <3> QED BY <1>1, <2>1, <3>1 DEF Twice
  <2>3. CASE m = n
    <3>1. x \in 1 .. Len(ledger'[n]) /\ y \in 1 .. Len(ledger'[n])
      BY <1>5, <2>3
    <3>2. ledger'[n][x] = ledger[n][x] /\ ledger'[n][y] = ledger[n][y]
      BY <1>5, <2>3
    <3> QED BY <1>1, <2>1, <2>3, <3>1, <3>2 DEF Twice
  <2> QED BY <2>2, <2>3
<1>8. RecordedOnce'
  <2> SUFFICES ASSUME NEW m \in Nodes, NEW x \in 1 .. Len(ledger'[m]), NEW y \in 1 .. Len(ledger'[m]),
                      ledger'[m][x] = ledger'[m][y], x # y
               PROVE  Forgettable(m, ledger[m][x])'
    BY DEF RecordedOnce
  <2>1. CASE m # n
    <3>1. PICK v : v = ledger[m][x] /\ v = ledger'[m][x]
      BY <1>1, <2>1
    <3>2. Forgettable(m, v)
      <4>1. ledger'[m] = ledger[m]
        BY <1>1, <2>1
      <4>2. x \in 1 .. Len(ledger[m]) /\ y \in 1 .. Len(ledger[m]) /\ ledger[m][x] = ledger[m][y]
        BY <4>1
      <4> QED BY <3>1, <4>2 DEF MeshInv, RecordedOnce
    <3>3. Forgettable(m, v)'
      BY <1>same, <3>2
    <3> QED BY <3>1, <3>3 DEF Forgettable, Timed
  <2>2. CASE m = n
    <3>1. \A z \in 1 .. Len(ledger[n]) : ledger[n][z] = e => Forgettable(n, e)
      BY <1>4 DEF Recorded
    <3>2. /\ x \in 1 .. Len(ledger[n]) \/ x = Len(ledger[n]) + 1
          /\ y \in 1 .. Len(ledger[n]) \/ y = Len(ledger[n]) + 1
      BY <1>5, <2>2
    <3>3. \A v, w \in 1 .. Len(ledger[n]) :
            ledger[n][v] = ledger[n][w] => v = w \/ Forgettable(n, ledger[n][v])
      BY DEF MeshInv, RecordedOnce
    <3>4. PICK v : v = ledger'[n][x]
      OBVIOUS
    <3>5. Forgettable(n, v)
      <4>1. CASE x \in 1 .. Len(ledger[n]) /\ y \in 1 .. Len(ledger[n])
        BY <1>5, <2>2, <3>3, <3>4, <4>1
      <4>2. CASE x = Len(ledger[n]) + 1 /\ y \in 1 .. Len(ledger[n])
        BY <1>5, <2>2, <3>1, <3>4, <4>2
      <4>3. CASE x \in 1 .. Len(ledger[n]) /\ y = Len(ledger[n]) + 1
        BY <1>5, <2>2, <3>1, <3>4, <4>3
      <4> QED BY <3>2, <4>1, <4>2, <4>3
    <3>6. Forgettable(n, v)'
      BY <1>same, <3>5
    <3> QED BY <2>2, <3>4, <3>6 DEF Forgettable, Timed
  <2> QED BY <2>1, <2>2
<1>9. LocalAppendFirst'
  <2> SUFFICES ASSUME NEW j \in 1 .. Len(envelopes), Trail(j) # <<>>
               PROVE  envelopes[j].of \in Recorded(Signer(j))'
    BY <1>1 DEF MeshInv, LocalAppendFirst, Trail, Signer
  <2>1. PICK s \in Nodes : s = Signer(j)
    BY TrailType DEF MeshInv
  <2>2. envelopes[j].of \in Recorded(s)
    BY <2>1 DEF MeshInv, LocalAppendFirst
  <2>3. Recorded(Signer(j))' = Recorded(s)'
    BY <1>1, <2>1 DEF Recorded, Signer, Trail
  <2> QED BY <1>6, <1>7, <2>2, <2>3
<1>10. ASSUME NEW m \in Nodes PROVE NodeOK(m)' /\ CallOK(m)'
  <2>0. NodeOK(m) /\ CallOK(m)
    BY DEF MeshInv
  <2>1. CASE m # n
    <3>1. NodeOK(m)'
      BY <1>1, <1>7, <1>same, <2>0, <2>1 DEF NodeOK
    <3>2. CallOK(m)'
      BY <1>1, <1>7, <1>same, <2>0, <2>1 DEF CallOK
    <3> QED BY <3>1, <3>2
  <2>2. CASE m = n
    <3>1. NodeOK(n)'
      BY <1>1, <1>4, <1>6, <1>same, <2>0, <2>2 DEF NodeOK
    <3>2. ledger'[n][Len(ledger'[n])] = e
      BY <1>5
    <3>3. PICK d \in Doors : d = call[n].door
      BY <1>2 DEF Calls
    <3>4. call'[n].todo = Legs(n, d)'
      BY <1>1, <1>3, <3>3 DEF Legs
    <3>5. CallOK(n)'
      BY <1>1, <1>3, <1>4, <1>5, <1>same, <3>2, <3>3, <3>4 DEF CallOK
    <3> QED BY <2>2, <3>1, <3>5
  <2> QED BY <2>1, <2>2
<1>11. LegDone'
  <2> SUFFICES ASSUME NEW j \in 1 .. Len(envelopes), Trail(j) # <<>>, NEW s, s = Signer(j),
                      call'[s].ph = "forward", call'[s].env = envelopes[j].of
               PROVE  (call[s].todo # Legs(s, call[s].door) \/ Twice(s, envelopes[j].ev))'
    BY <1>1, <1>same DEF LegDone
  <2>1. PICK i \in Recorded(s) : i = envelopes[j].of
    BY DEF MeshInv, LocalAppendFirst
  <2>2. s \in Nodes
    BY TrailType DEF MeshInv
  <2>3. envelopes[i].ev = envelopes[j].ev
    BY <2>1 DEF MeshInv, LocalAppendFirst
  <2>4. PICK v : v = envelopes[j].ev
    OBVIOUS
  <2>5. CASE s # n
    <3>1. call'[s] = call[s]
      BY <1>1, <2>2, <2>5
    <3>2. call[s].todo # Legs(s, call[s].door) \/ Twice(s, v)
      BY <2>4, <3>1 DEF MeshInv, LegDone
    <3>3. CASE call[s].todo # Legs(s, call[s].door)
      BY <1>1, <3>1, <3>3 DEF Legs
    <3>4. CASE Twice(s, v)
      <4>1. Twice(s, v)'
        BY <1>twice, <2>2, <3>4
      <4> QED BY <1>1, <2>4, <4>1 DEF Twice
    <3> QED BY <3>2, <3>3, <3>4
  <2>6. CASE s = n
    <3>1. i = e
      BY <1>3, <2>1, <2>6
    <3>2. PICK x \in 1 .. Len(ledger[n]) : ledger[n][x] = e
      BY <2>1, <2>6, <3>1 DEF Recorded
    <3>3. PICK y \in 1 .. Len(ledger'[n]) : y = Len(ledger[n]) + 1
      BY <1>5
    <3>4. x \in 1 .. Len(ledger'[n]) /\ x # y /\ ledger'[n][x] = e /\ ledger'[n][y] = e
      BY <1>5, <3>2, <3>3
    <3>5. envelopes'[e].ev = envelopes'[j].ev
      BY <1>1, <2>3, <3>1
    <3>6. Twice(n, envelopes[j].ev)'
      BY <3>3, <3>4, <3>5 DEF Twice
    <3> QED BY <2>6, <3>6
  <2> QED BY <2>5, <2>6
<1>12. RoutesDistinct'
  <2> SUFFICES ASSUME NEW i \in 1 .. Len(envelopes), NEW j \in 1 .. Len(envelopes),
                      i # j, envelopes[i].ev = envelopes[j].ev, Trail(i) = Trail(j)
               PROVE  DoubledOnTheWay(i)'
    BY <1>1, <1>same DEF RoutesDistinct
  <2>1. PICK x \in 1 .. Len(Trail(i)) : Doubles(Trail(i)[x], envelopes[i].ev)
    BY DEF MeshInv, RoutesDistinct, DoubledOnTheWay
  <2>2. PICK m \in Nodes : \E v \in Events : m = Trail(i)[x] /\ v = envelopes[i].ev
    BY TrailType DEF MeshInv
  <2>v. PICK v \in Events : m = Trail(i)[x] /\ v = envelopes[i].ev
    BY <2>2
  <2>3. (m = Trail(i)[x] /\ v = envelopes[i].ev)'
    BY <1>1, <1>same, <2>v
  <2>4. CASE TwoLinks(m)
    <3>1. TwoLinks(Trail(i)[x])'
      BY <1>1, <2>3, <2>4 DEF TwoLinks
    <3> QED BY <1>same, <3>1 DEF Doubles, DoubledOnTheWay
  <2>5. CASE Twice(m, v)
    <3>1. Twice(m, v)'
      BY <1>twice, <2>5
    <3>2. Twice(Trail(i)[x], envelopes[i].ev)'
      BY <2>3, <3>1 DEF Twice
    <3> QED BY <1>same, <3>2 DEF Doubles, DoubledOnTheWay
  <2> QED BY <2>1, <2>v, <2>4, <2>5 DEF Doubles
<1> QED BY <1>8, <1>9, <1>10, <1>11, <1>12 DEF MeshInv

\* Two legs of one call are two links.
LEMMA TwoLegs ==
  ASSUME NEW n \in Nodes, NEW door, NEW k \in Legs(n, door), NEW l \in Legs(n, door), k # l
  PROVE  TwoLinks(n)
BY DEF Legs, TwoLinks

\* A leg of a forward that signs nothing.
LEMMA LegSkipped ==
  ASSUME MeshInv, NEW n \in Nodes, NEW l \in Nodes \cup {Http}, ForwardLeg(n, l),
         UNCHANGED envelopes, TypeOK'
  PROVE  MeshInv'
<1>1. /\ call'[n] = [call[n] EXCEPT !.todo = @ \ {l}] /\ call[n] \in Calls
      /\ \A m \in Nodes \ {n} : call'[m] = call[m]
      /\ UNCHANGED <<net, mem, file, lapsed, evicted, ledger, sealed, stored, told>>
  BY DEF ForwardLeg, MeshInv, TypeOK, store, nonces
<1>2. /\ call'[n].ph = call[n].ph /\ call'[n].env = call[n].env /\ call'[n].door = call[n].door
      /\ call'[n].todo = call[n].todo \ {l}
      /\ call[n].ph = "forward" /\ l \in call[n].todo
  BY <1>1 DEF Calls, ForwardLeg
<1>3. l \in Legs(n, call[n].door)
  BY <1>2 DEF MeshInv, CallOK
<1>same. /\ \A m, i : Forgettable(m, i)' = Forgettable(m, i) /\ Knows(m, i)' = Knows(m, i)
         /\ \A i : Timed(i)' = Timed(i)
  BY <1>1, SameMesh DEF Forgettable, Knows
<1>4. RecordedOnce'
  BY <1>1, <1>same DEF MeshInv, RecordedOnce
<1>5. LocalAppendFirst' /\ RoutesDistinct'
  BY <1>1, SameMesh DEF MeshInv
<1>6. ASSUME NEW m \in Nodes PROVE NodeOK(m)' /\ CallOK(m)'
  <2>0. NodeOK(m) /\ CallOK(m)
    BY DEF MeshInv
  <2>1. NodeOK(m)'
    BY <1>1, <1>same, <2>0, SameMesh DEF NodeOK
  <2>2. CASE m # n
    <3>1. CallOK(m)'
      BY <1>1, <1>same, <2>0, <2>2, SameMesh DEF CallOK
    <3> QED BY <2>1, <3>1
  <2>3. CASE m = n
    <3>2. PICK d : d = call[n].door /\ d = call'[n].door
      BY <1>2
    <3>3. Legs(n, d)' = Legs(n, d)
      BY <1>1, SameMesh
    <3>4. PICK e : e = call[n].env /\ e = call'[n].env
      BY <1>2
    <3>5. Knows(n, e)'
      BY <1>2, <1>same, <2>0, <2>3, <3>4 DEF CallOK
    <3>7. CallOK(n)'
      BY <1>1, <1>2, <2>0, <2>3, <3>2, <3>3, <3>4, <3>5 DEF CallOK
    <3> QED BY <2>1, <2>3, <3>7
  <2> QED BY <2>2, <2>3
<1>7. LegDone'
  <2> SUFFICES ASSUME NEW j \in 1 .. Len(envelopes), Trail(j) # <<>>, NEW s, s = Signer(j),
                      call'[s].ph = "forward", call'[s].env = envelopes[j].of
               PROVE  (call[s].todo # Legs(s, call[s].door) \/ Twice(s, envelopes[j].ev))'
    BY <1>1, SameMesh DEF LegDone
  <2>1. s \in Nodes /\ \A door : Legs(s, door)' = Legs(s, door)
    BY <1>1, TrailType, SameMesh DEF MeshInv
  <2>2. CASE s = n
    BY <1>2, <1>3, <2>1, <2>2
  <2>3. CASE s # n
    <3>1. call'[s] = call[s]
      BY <1>1, <2>1, <2>3
    <3>2. PICK v : v = envelopes[j].ev
      OBVIOUS
    <3>3. call[s].todo # Legs(s, call[s].door) \/ Twice(s, v)
      BY <3>1, <3>2 DEF MeshInv, LegDone
    <3>4. Twice(s, v)' <=> Twice(s, v)
      BY <1>1, SameMesh
    <3>5. CASE call[s].todo # Legs(s, call[s].door)
      BY <1>1, <3>1, <3>5 DEF Legs
    <3>6. CASE Twice(s, v)
      BY <1>1, <3>2, <3>4, <3>6 DEF Twice
    <3> QED BY <3>3, <3>5, <3>6
  <2> QED BY <2>2, <2>3
<1> QED BY <1>4, <1>5, <1>6, <1>7 DEF MeshInv

\* An envelope on the route that a leg is about to take again was signed by another
\* leg of the same call, or for another entry of the same envelope, or there are two
\* envelopes on one route on the way here.
LEMMA SameRoute ==
  ASSUME MeshInv, NEW n \in Nodes, NEW l, call[n].ph = "forward", l \in call[n].todo,
         NEW e \in 1 .. Len(envelopes), e = call[n].env,
         NEW j \in 1 .. Len(envelopes), envelopes[j].ev = envelopes[e].ev,
         Trail(j) = Append(Trail(e), n)
  PROVE  DoubledOnTheWay(j)
<1>1. Trail(e) \in Seq(Nodes)
  BY TrailType DEF MeshInv
<1>2. /\ Trail(j) # <<>> /\ Len(Trail(e)) \in Nat /\ Len(Trail(j)) = Len(Trail(e)) + 1
      /\ Trail(j)[Len(Trail(j))] = n /\ \A x \in 1 .. Len(Trail(e)) : Trail(j)[x] = Trail(e)[x]
  BY <1>1
<1>3. Signer(j) = n
  BY <1>2 DEF Signer
<1>4. PICK o \in 1 .. Len(envelopes) : o = envelopes[j].of
  BY <1>2, <1>3, RecordedSigned DEF MeshInv, LocalAppendFirst
<1>5. envelopes[o].ev = envelopes[j].ev /\ Trail(j) = Append(Trail(o), n)
  BY <1>2, <1>3, <1>4 DEF MeshInv, LocalAppendFirst
<1>6. Trail(o) \in Seq(Nodes)
  BY TrailType DEF MeshInv
<1>7. Trail(o) = Trail(e)
  <2>1. Append(Trail(o), n) = Append(Trail(e), n)
    BY <1>5
  <2>2. \A s, t \in Seq(Nodes) : Append(s, n) = Append(t, n) => s = t
    BY AppendInjective
  <2> QED BY <1>1, <1>6, <2>1, <2>2
<1>8. CASE o = e
  <2>1. call[n].todo # Legs(n, call[n].door) \/ Twice(n, envelopes[j].ev)
    BY <1>2, <1>3, <1>4, <1>8 DEF MeshInv, LegDone
  <2>2. ASSUME call[n].todo # Legs(n, call[n].door) PROVE TwoLinks(n)
    <3>1. call[n].todo \subseteq Legs(n, call[n].door)
      BY DEF MeshInv, CallOK
    <3>2. PICK m \in Legs(n, call[n].door) : m \notin call[n].todo
      BY <2>2, <3>1
    <3> QED BY <3>1, <3>2, TwoLegs
  <2>3. Doubles(n, envelopes[j].ev)
    BY <2>1, <2>2 DEF Doubles
  <2> QED BY <1>2, <2>3 DEF DoubledOnTheWay
<1>9. CASE o # e
  <2>1. \E x \in 1 .. Len(Trail(e)) : Doubles(Trail(e)[x], envelopes[e].ev)
    BY <1>5, <1>7, <1>9 DEF MeshInv, RoutesDistinct, DoubledOnTheWay
  <2> QED BY <1>2, <2>1 DEF DoubledOnTheWay
<1> QED BY <1>8, <1>9

\* A leg of a forward that signs: what it signs, the ledger here has recorded last.
LEMMA LegSigned ==
  ASSUME MeshInv, NEW n \in Nodes, NEW l \in Nodes \cup {Http}, ForwardLeg(n, l),
         Forwards(n), TypeOK'
  PROVE  MeshInv'
<1>0. PICK e \in 1 .. Len(envelopes) : e = call[n].env
  BY EnvType DEF ForwardLeg
<1>1. Trail(e) \in Seq(Nodes) /\ envelopes[e].ev \in Events /\ e \in 0 .. MaxEnvelopes
  BY <1>0, TrailType DEF MeshInv, TypeOK
<1>2. PICK r \in Envelopes :
        r = [ev |-> envelopes[e].ev, of |-> e, timed |-> TRUE, trail |-> Append(Trail(e), n)]
  <2>1. [ev |-> envelopes[e].ev, of |-> e, timed |-> TRUE, trail |-> Append(Trail(e), n)]
          \in Envelopes
    BY <1>1 DEF Envelopes
  <2> QED BY <2>1
<1>3. /\ envelopes' = Append(envelopes, r)
      /\ UNCHANGED <<net, nonces, ledger, sealed, stored, told>>
  BY <1>0, <1>2 DEF ForwardLeg, Forwards, Sign, store
<1>4. r.ev = envelopes[e].ev /\ r.of = e /\ r.trail = Append(Trail(e), n)
  BY <1>2
<1>5. PICK k \in Nat : k = Len(envelopes) + 1
  BY DEF MeshInv, TypeOK
<1>6. /\ Len(envelopes) \in Nat /\ Len(envelopes)' = k
      /\ \A j \in 1 .. Len(envelopes) :
           envelopes'[j] = envelopes[j] /\ Trail(j)' = Trail(j) /\ Signer(j)' = Signer(j)
      /\ envelopes'[k] = r /\ Trail(k)' = Append(Trail(e), n)
  BY <1>2, <1>3, <1>4, <1>5, SignKeeps DEF MeshInv
<1>7. Signer(k)' = n /\ Trail(k)' # <<>>
  BY <1>1, <1>6 DEF Signer
<1>8. /\ call'[n] = [call[n] EXCEPT !.todo = @ \ {l}] /\ call[n] \in Calls
      /\ \A m \in Nodes \ {n} : call'[m] = call[m]
  BY DEF ForwardLeg, MeshInv, TypeOK
<1>9. /\ call'[n].ph = call[n].ph /\ call'[n].env = call[n].env /\ call'[n].door = call[n].door
      /\ call'[n].todo = call[n].todo \ {l}
      /\ call[n].ph = "forward" /\ l \in call[n].todo
  BY <1>8 DEF Calls, ForwardLeg
<1>10. /\ l \in Legs(n, call[n].door) /\ ledger[n] # <<>> /\ ledger[n] \in Seq(Ids)
       /\ ledger[n][Len(ledger[n])] = e
  BY <1>0, <1>9 DEF MeshInv, CallOK, TypeOK
<1>11. e \in Recorded(n)
  BY <1>10 DEF Recorded
<1>12. RecordedOnce'
  BY <1>2, <1>3, SignedOnce
<1>13. LocalAppendFirst'
  <2> SUFFICES ASSUME NEW j \in 1 .. k, Trail(j)' # <<>>
               PROVE  \E i \in 1 .. k :
                        /\ envelopes'[j].of = i /\ i \in Recorded(Signer(j))'
                        /\ envelopes'[i].ev = envelopes'[j].ev
                        /\ Trail(j)' = Append(Trail(i)', Signer(j)')
    BY <1>6 DEF LocalAppendFirst
  <2>1. CASE j \in 1 .. Len(envelopes)
    <3>1. Trail(j) # <<>>
      BY <1>6, <2>1
    <3>2. /\ envelopes[j].of \in Recorded(Signer(j))
          /\ envelopes[j].of \in 1 .. Len(envelopes)
          /\ envelopes[envelopes[j].of].ev = envelopes[j].ev
          /\ Trail(j) = Append(Trail(envelopes[j].of), Signer(j))
      <4>1. /\ envelopes[j].of \in Recorded(Signer(j))
            /\ envelopes[envelopes[j].of].ev = envelopes[j].ev
            /\ Trail(j) = Append(Trail(envelopes[j].of), Signer(j))
        <5>1. LocalAppendFirst
          BY DEF MeshInv
        <5> QED BY <2>1, <3>1, <5>1 DEF LocalAppendFirst
      <4>2. envelopes[j].of \in 1 .. Len(envelopes)
        <5>1. Signer(j) \in Nodes
          BY <2>1, <3>1, TrailType DEF MeshInv
        <5> QED BY <4>1, <5>1, RecordedSigned
      <4> QED BY <4>1, <4>2
    <3>3. Recorded(Signer(j))' = Recorded(Signer(j))
      BY <1>3, <1>6, <2>1 DEF Recorded
    <3>4. envelopes[j].of \in 1 .. k
      BY <1>5, <1>6, <3>2
    <3> QED BY <1>6, <2>1, <3>2, <3>3, <3>4
  <2>2. CASE j = k
    <3>1. Recorded(Signer(j))' = Recorded(n)
      BY <1>3, <1>7, <2>2 DEF Recorded
    <3>2. e \in 1 .. k
      BY <1>5, <1>6
    <3> QED BY <1>4, <1>6, <1>7, <1>11, <2>2, <3>1, <3>2
  <2> QED BY <1>5, <1>6, <2>1, <2>2
<1>14. ASSUME NEW m \in Nodes PROVE NodeOK(m)' /\ CallOK(m)'
  <2>1. NodeOK(m)'
    BY <1>2, <1>3, SignNodes
  <2>2. CASE m # n
    BY <1>2, <1>3, <1>8, <2>1, <2>2, SignCalls
  <2>3. CASE m = n
    BY <1>2, <1>3, <1>9, <2>1, <2>3, SignCalls
  <2> QED BY <2>2, <2>3
<1>15. LegDone'
  <2> SUFFICES ASSUME NEW j \in (1 .. Len(envelopes))', (Trail(j) # <<>>)',
                      NEW s, (s = Signer(j))',
                      (call[s].ph = "forward" /\ call[s].env = envelopes[j].of)'
               PROVE  (call[s].todo # Legs(s, call[s].door) \/ Twice(s, envelopes[j].ev))'
    BY DEF LegDone
  <2>1. CASE s = n
    BY <1>3, <1>9, <1>10, <2>1 DEF Legs
  <2>2. CASE s # n
    <3>1. j \in 1 .. Len(envelopes)
      BY <1>5, <1>6, <1>7, <2>2
    <3>2. /\ envelopes'[j] = envelopes[j] /\ Trail(j) # <<>> /\ s = Signer(j) /\ s \in Nodes
      BY <1>6, <3>1, TrailType DEF MeshInv
    <3>3. call'[s] = call[s] /\ call[s].ph = "forward" /\ call[s].env = envelopes[j].of
      BY <1>8, <2>2, <3>2
    <3> QED BY <1>2, <1>3, <3>1, <3>2, <3>3, SignedLegs
  <2> QED BY <2>1, <2>2
<1>16. RoutesDistinct'
  <2>0. PICK S : S = 1 .. Len(envelopes)
    OBVIOUS
  <2>1. ASSUME NEW j \in 1 .. Len(envelopes), envelopes[j].ev = r.ev, Trail(j) = r.trail
        PROVE  \E x \in 1 .. Len(r.trail) : Doubles(r.trail[x], r.ev)'
    <3>1. PICK x \in 1 .. Len(Trail(j)) : Doubles(Trail(j)[x], envelopes[j].ev)
      BY <1>0, <1>4, <1>9, <2>1, SameRoute DEF DoubledOnTheWay
    <3>2. Trail(j)[x] \in Nodes
      BY TrailType DEF MeshInv
    <3>3. Doubles(r.trail[x], r.ev)'
      BY <1>2, <1>3, <2>1, <3>1, <3>2, SignNodes
    <3> QED BY <2>1, <3>3
  <2>2. (r.ev = envelopes[k].ev /\ r.trail = Trail(k))'
    BY <1>4, <1>6
  <2>3. ASSUME NEW i \in (1 .. Len(envelopes))', NEW j \in (1 .. Len(envelopes))',
               i # j, (envelopes[i].ev = envelopes[j].ev)', (Trail(i) = Trail(j))'
        PROVE  \/ i \in S /\ j \in S
               \/ DoubledOnTheWay(i)'
    <3>1. CASE i # k /\ j # k
      BY <1>5, <1>6, <2>0, <3>1
    <3>2. CASE i = k \/ j = k
      <4>1. PICK o \in 1 .. Len(envelopes) : envelopes'[o].ev = r.ev /\ Trail(o)' = r.trail
        BY <1>5, <1>6, <2>2, <2>3, <3>2
      <4>2. \E x \in 1 .. Len(r.trail) : Doubles(r.trail[x], r.ev)'
        BY <1>6, <2>1, <4>1
      <4>3. (r.ev = envelopes[i].ev /\ r.trail = Trail(i))'
        BY <2>2, <2>3, <3>2
      <4>4. PICK x \in 1 .. Len(r.trail) : Doubles(r.trail[x], r.ev)'
        BY <4>2
      <4>5. CASE TwoLinks(r.trail[x])'
        <5>1. TwoLinks(Trail(i)[x])'
          BY <4>3, <4>5 DEF TwoLinks
        <5> QED BY <4>3, <5>1 DEF Doubles, DoubledOnTheWay
      <4>6. CASE Twice(r.trail[x], r.ev)'
        <5>1. Twice(Trail(i)[x], envelopes[i].ev)'
          BY <4>3, <4>6 DEF Twice
        <5> QED BY <4>3, <5>1 DEF Doubles, DoubledOnTheWay
      <4> QED BY <4>4, <4>5, <4>6 DEF Doubles
    <3> QED BY <3>1, <3>2
  <2>4. (\A i, j \in 1 .. Len(envelopes) :
           i # j /\ envelopes[i].ev = envelopes[j].ev /\ Trail(i) = Trail(j) =>
             \/ i \in S /\ j \in S
             \/ DoubledOnTheWay(i))'
    BY <2>3
  <2> QED BY <1>2, <1>3, <2>0, <2>4, SignRoutes
<1> QED BY <1>12, <1>13, <1>14, <1>15, <1>16 DEF MeshInv

(***************************************************************************)
(* The invariant.                                                          *)
(***************************************************************************)

\* Nothing is signed, known or recorded when the nodes start.
LEMMA MeshStart == Init => MeshInv
<1> SUFFICES ASSUME Init PROVE MeshInv
  OBVIOUS
<1>1. TypeOK
  BY IdleType DEF Init, TypeOK
<1>2. RecordedOnce /\ LocalAppendFirst /\ LegDone /\ RoutesDistinct
  BY DEF Init, RecordedOnce, LocalAppendFirst, LegDone, RoutesDistinct
<1>3. ASSUME NEW n \in Nodes PROVE NodeOK(n) /\ CallOK(n)
  BY DEF Init, NodeOK, CallOK, Idle, Recorded
<1> QED BY <1>1, <1>2, <1>3 DEF MeshInv

\* A call that ends concerns its node alone.
LEMMA EndKeeps ==
  ASSUME MeshInv, TypeOK', NEW n \in Nodes, call' = [call EXCEPT ![n] = Idle],
         UNCHANGED <<net, envelopes, ledger, file, lapsed, evicted, stored>>,
         sealed' = sealed \/ sealed' = sealed \cup {n},
         mem' = mem \/ mem' = [mem EXCEPT ![n] = file[n]],
         told' = told \/ (told' = [told EXCEPT ![n] = @ \cup {call[n].env}] /\ call[n].ph = "forward")
  PROVE  MeshInv'
<1>1. /\ call'[n] = Idle
      /\ mem'[n] = mem[n] \/ mem'[n] = file[n]
      /\ told'[n] = told[n] \/ (told'[n] = told[n] \cup {call[n].env} /\ call[n].ph = "forward")
      /\ \A m \in Nodes \ {n} : mem'[m] = mem[m] /\ told'[m] = told[m] /\ call'[m] = call[m]
  BY DEF MeshInv, TypeOK
<1>2. NodeOK(n)' /\ CallOK(n)' /\ call'[n].ph # "forward"
  BY <1>1, EndStep
<1> QED BY <1>1, <1>2, QuietStep DEF MeshInv

\* Saving concerns its node alone, whatever it drops.
LEMMA PrunedStep ==
  ASSUME MeshInv, TypeOK', NEW n \in Nodes, Prunes(n),
         UNCHANGED <<net, envelopes, ledger, stored, told>>,
         \A m \in Nodes \ {n} :
           file'[m] = file[m] /\ call'[m] = call[m] /\ (m \in sealed' <=> m \in sealed),
         NodeOK(n)', CallOK(n)', call'[n].ph # "forward"
  PROVE  MeshInv'
<1>1. /\ evicted[n] \subseteq evicted'[n]
      /\ \A m \in Nodes \ {n} :
           mem'[m] = mem[m] /\ lapsed'[m] = lapsed[m] /\ evicted'[m] = evicted[m]
  BY PruneKeeps DEF MeshInv
<1> QED BY <1>1, QuietStep DEF MeshInv

\* Every step preserves the invariant.
LEMMA MeshStep == MeshInv /\ [Next]_vars => MeshInv'
<1> SUFFICES ASSUME MeshInv, [Next]_vars PROVE MeshInv'
  OBVIOUS
<1>0. TypeOK'
  BY TypeStep
<1>1. ASSUME NEW ev \in Events, AgentSigns(ev) PROVE MeshInv'
  BY <1>0, <1>1, AgentStep
<1>2. ASSUME NEW n \in Nodes, NEW i \in Ids, NEW door \in Doors, Verify(n, i, door) PROVE MeshInv'
  <2>1. NodeOK(n)' /\ CallOK(n)' /\ call'[n].ph # "forward"
    BY <1>2, VerifyStep
  <2>2. \A m \in Nodes \ {n} : mem'[m] = mem[m] /\ call'[m] = call[m]
    BY <1>2 DEF Verify, MeshInv, TypeOK
  <2>3. UNCHANGED <<net, envelopes, ledger, file, lapsed, evicted, stored, told, sealed>>
    BY <1>2 DEF Verify
  <2> QED BY <1>0, <2>1, <2>2, <2>3, QuietStep DEF MeshInv
<1>3. ASSUME NEW n \in Nodes, SaveNonces(n) PROVE MeshInv'
  <2>1. NodeOK(n)' /\ CallOK(n)' /\ call'[n].ph # "forward"
    BY <1>3, SaveStep
  <2>2. \A m \in Nodes \ {n} : file'[m] = file[m] /\ call'[m] = call[m]
    BY <1>3 DEF SaveNonces, MeshInv, TypeOK
  <2>3. Prunes(n) /\ UNCHANGED <<net, envelopes, ledger, stored, told, sealed>>
    BY <1>3 DEF SaveNonces
  <2> QED BY <1>0, <2>1, <2>2, <2>3, PrunedStep
<1>4. ASSUME NEW n \in Nodes, Store(n) PROVE MeshInv'
  <2>1. NodeOK(n)' /\ CallOK(n)' /\ call'[n].ph # "forward"
    BY <1>4, StoreStep
  <2>2. \A m \in Nodes \ {n} : stored'[m] = stored[m] /\ call'[m] = call[m]
    BY <1>4 DEF Store, MeshInv, TypeOK
  <2>3. UNCHANGED <<net, envelopes, ledger, mem, file, lapsed, evicted, told, sealed>>
    BY <1>4 DEF Store, nonces
  <2> QED BY <1>0, <2>1, <2>2, <2>3, QuietStep DEF MeshInv
<1>5. ASSUME NEW n \in Nodes, Record(n) PROVE MeshInv'
  BY <1>0, <1>5, RecordStep
<1>6. ASSUME NEW n \in Nodes, Refused(n) PROVE MeshInv'
  BY <1>0, <1>6, EndKeeps DEF Refused, store, nonces
<1>7. ASSUME NEW n \in Nodes, NEW l \in Nodes \cup {Http}, ForwardLeg(n, l) PROVE MeshInv'
  <2>1. UNCHANGED envelopes \/ Forwards(n)
    BY <1>7 DEF ForwardLeg
  <2> QED BY <1>0, <1>7, <2>1, LegSkipped, LegSigned
<1>8. ASSUME NEW n \in Nodes, Answer(n) PROVE MeshInv'
  BY <1>0, <1>8, EndKeeps DEF Answer, store, nonces
<1>9. ASSUME NEW n \in Nodes, Interrupted(n), UNCHANGED <<file, lapsed, evicted>>,
             mem' = mem \/ mem' = [mem EXCEPT ![n] = file[n]]
      PROVE MeshInv'
  BY <1>0, <1>9, EndKeeps DEF Interrupted
<1>10. ASSUME NEW n \in Nodes, SaveFails(n) PROVE MeshInv'
  <2>1. /\ Prunes(n) /\ UNCHANGED <<net, envelopes, ledger, stored, told>>
        /\ file' = file \/ file' = [file EXCEPT ![n] = mem'[n]]
        /\ sealed' = sealed \/ sealed' = sealed \cup {n}
        /\ call' = [call EXCEPT ![n] = Idle]
    BY <1>10 DEF SaveFails, Interrupted
  <2>2. /\ file'[n] = file[n] \/ file'[n] = mem'[n]
        /\ call'[n] = Idle
        /\ \A m \in Nodes \ {n} : file'[m] = file[m] /\ call'[m] = call[m]
    BY <2>1 DEF MeshInv, TypeOK
  <2>3. NodeOK(n)'
    BY <2>1, <2>2, SavedNode
  <2>4. CallOK(n)' /\ call'[n].ph # "forward"
    BY <2>2 DEF CallOK, Idle
  <2>5. \A m \in Nodes \ {n} : m \in sealed' <=> m \in sealed
    BY <2>1
  <2> QED BY <1>0, <2>1, <2>2, <2>3, <2>4, <2>5, PrunedStep
<1>11. ASSUME NEW n \in Nodes, Fails(n) PROVE MeshInv'
  BY <1>9, <1>11 DEF Fails, nonces
<1>12. ASSUME NEW n \in Nodes, Restart(n) PROVE MeshInv'
  BY <1>9, <1>12 DEF Restart
<1>13. CASE UNCHANGED vars
  <2>1. UNCHANGED <<net, envelopes, mem, file, lapsed, evicted, ledger, sealed, stored, told, call>>
    BY <1>13 DEF vars, store, nonces
  <2>2. \A i, m : Forgettable(m, i)' = Forgettable(m, i) /\ Knows(m, i)' = Knows(m, i)
    BY <2>1, SameMesh DEF Forgettable, Knows
  <2>3. RecordedOnce'
    BY <2>1, <2>2 DEF MeshInv, RecordedOnce
  <2>4. LocalAppendFirst' /\ RoutesDistinct'
    BY <2>1, SameMesh DEF MeshInv
  <2>5. LegDone'
    <3>1. LegDone
      BY DEF MeshInv
    <3>2. \A s, ev, d : Twice(s, ev)' = Twice(s, ev) /\ Legs(s, d)' = Legs(s, d)
      BY <2>1 DEF Twice, Legs
    <3>3. \A j : Trail(j)' = Trail(j) /\ Signer(j)' = Signer(j)
      BY <2>1, SameMesh
    <3> QED BY <2>1, <3>1, <3>2, <3>3 DEF LegDone
  <2>6. \A n \in Nodes : NodeOK(n)' /\ CallOK(n)'
    <3> TAKE n \in Nodes
    <3>1. NodeOK(n)'
      <4>1. NodeOK(n)
        BY DEF MeshInv
      <4> QED BY <2>1, <2>2, <4>1, SameMesh DEF NodeOK
    <3>2. CallOK(n)'
      <4>1. CallOK(n)
        BY DEF MeshInv
      <4> QED BY <2>1, <2>2, <4>1, SameMesh DEF CallOK
    <3> QED BY <3>1, <3>2
  <2> QED BY <1>0, <2>3, <2>4, <2>5, <2>6 DEF MeshInv
<1> QED
  BY <1>1, <1>2, <1>3, <1>4, <1>5, <1>6, <1>7, <1>8, <1>10, <1>11, <1>12, <1>13 DEF Next

\* The nodes of a mesh keep the invariant: no envelope is recorded twice by a node,
\* through its three doors, retries, restarts and failed appends, unless nonce_limit has
\* dropped its nonce there or its timestamp is not a number (RecordedOnce), and what a
\* node forwards its own ledger recorded first, back to the agent that signed it
\* (LocalAppendFirst): server.py api_relay, api_ws_relay, api_collab_task and
\* api_collab_file, trust.py verify and _save_nonces, relay.py forward.
THEOREM MeshInvariant == Spec => []MeshInv
<1> QED BY MeshStart, MeshStep, PTL DEF Spec

\* Two copies of an event on one route are two links of one node, or one envelope that
\* a node recorded twice, there or on the way: forward() is called once per link that is
\* down, and every call signs for every partner (server.py _relay_forward, relay.py
\* forward).
THEOREM CopiesOnRoutes == Spec => []CopiesAreRoutes
<1>1. MeshInv => CopiesAreRoutes
  <2> SUFFICES ASSUME MeshInv, NEW n \in Nodes,
                      NEW x \in 1 .. Len(ledger[n]), NEW y \in 1 .. Len(ledger[n]), x # y,
                      envelopes[ledger[n][x]].ev = envelopes[ledger[n][y]].ev,
                      Trail(ledger[n][x]) = Trail(ledger[n][y])
               PROVE  \/ Twice(n, envelopes[ledger[n][x]].ev)
                      \/ DoubledOnTheWay(ledger[n][x])
    BY DEF CopiesAreRoutes
  <2>1. PICK i \in 1 .. Len(envelopes) : i = ledger[n][x]
    BY RecordedSigned DEF Recorded
  <2>2. PICK j \in 1 .. Len(envelopes) : j = ledger[n][y]
    BY RecordedSigned DEF Recorded
  <2>3. CASE i = j
    BY <2>1, <2>2, <2>3 DEF Twice
  <2>4. CASE i # j
    BY <2>1, <2>2, <2>4 DEF MeshInv, RoutesDistinct
  <2> QED BY <2>3, <2>4
<1> QED BY <1>1, MeshInvariant, PTL

(***************************************************************************)
(* What no step does.                                                      *)
(***************************************************************************)

\* What a step changes of a node: a nonce leaves the file only when it is dropped, and a
\* new entry and a new call are of the envelope that the call, or verify, is about.
LEMMA NodeSteps ==
  ASSUME MeshInv, [Next]_vars, NEW n \in Nodes
  PROVE  /\ lapsed[n] \subseteq lapsed'[n] /\ evicted[n] \subseteq evicted'[n]
         /\ \A i \in file[n] : i \in file'[n] \cup lapsed'[n] \cup evicted'[n]
         /\ Recorded(n)' = Recorded(n) \/ Recorded(n)' = Recorded(n) \cup {call[n].env}
         /\ \/ call'[n].env = call[n].env \/ call'[n].env = 0
            \/ call'[n].env \notin mem[n] \cup lapsed[n]
<1>0. TypeOK
  BY DEF MeshInv
<1>1. ASSUME NEW ev \in Events, AgentSigns(ev)
      PROVE UNCHANGED <<file, lapsed, evicted, ledger, call>>
  BY <1>1 DEF AgentSigns, store, nonces
<1>2. ASSUME NEW m \in Nodes, NEW i \in Ids, NEW door \in Doors, Verify(m, i, door)
      PROVE  /\ UNCHANGED <<file, lapsed, evicted, ledger>>
             /\ call'[n] = call[n] \/ call'[n].env \notin mem[n] \cup lapsed[n]
  BY <1>0, <1>2 DEF Verify, TypeOK
<1>3. ASSUME NEW m \in Nodes, Prunes(m), file' = file \/ file' = [file EXCEPT ![m] = mem'[m]]
      PROVE  /\ lapsed[n] \subseteq lapsed'[n] /\ evicted[n] \subseteq evicted'[n]
             /\ \A i \in file[n] : i \in file'[n] \cup lapsed'[n] \cup evicted'[n]
  <2>1. CASE m = n
    <3>1. file'[n] = file[n] \/ file'[n] = mem'[n]
      BY <1>0, <1>3, <2>1 DEF TypeOK
    <3> QED BY <1>0, <1>3, <2>1, <3>1, PruneKeeps, PruneFile
  <2>2. CASE m # n
    <3>1. file'[n] = file[n]
      BY <1>0, <1>3, <2>2 DEF TypeOK
    <3> QED BY <1>0, <1>3, <2>2, <3>1, PruneKeeps
  <2> QED BY <2>1, <2>2
<1>4. ASSUME NEW m \in Nodes, SaveNonces(m)
      PROVE  ledger' = ledger /\ call'[n].env = call[n].env
  BY <1>0, <1>4 DEF SaveNonces, TypeOK, Calls
<1>5. ASSUME NEW m \in Nodes, Store(m)
      PROVE  UNCHANGED <<file, lapsed, evicted, ledger>> /\ call'[n].env = call[n].env
  BY <1>0, <1>5 DEF Store, TypeOK, Calls, nonces
<1>6. ASSUME NEW m \in Nodes, Record(m)
      PROVE  /\ UNCHANGED <<file, lapsed, evicted>> /\ call'[n].env = call[n].env
             /\ Recorded(n)' = Recorded(n) \/ Recorded(n)' = Recorded(n) \cup {call[n].env}
  <2>0. UNCHANGED <<file, lapsed, evicted>>
    BY <1>6 DEF Record, nonces
  <2>1. call'[n].env = call[n].env
    BY <1>0, <1>6 DEF Record, TypeOK, Calls
  <2>2. CASE m # n
    <3>1. ledger'[n] = ledger[n]
      BY <1>0, <1>6, <2>2 DEF Record, TypeOK
    <3> QED BY <2>0, <2>1, <3>1 DEF Recorded
  <2>3. CASE m = n
    <3>1. PICK e \in Ids : e = call[n].env
      BY <1>6, <2>3, EnvType DEF Record
    <3>2. ledger'[n] = Append(ledger[n], e) /\ ledger[n] \in Seq(Ids)
      BY <1>0, <1>6, <2>3, <3>1 DEF Record, TypeOK
    <3>3. /\ Len(ledger[n]) \in Nat /\ Len(ledger'[n]) = Len(ledger[n]) + 1
          /\ \A x \in 1 .. Len(ledger[n]) : ledger'[n][x] = ledger[n][x]
          /\ ledger'[n][Len(ledger[n]) + 1] = e
      BY <3>1, <3>2
    <3>4. Recorded(n)' = Recorded(n) \cup {e}
      BY <3>3 DEF Recorded
    <3> QED BY <2>0, <2>1, <3>1, <3>4
  <2> QED BY <2>2, <2>3
<1>7. ASSUME NEW m \in Nodes, NEW l \in Nodes \cup {Http}, ForwardLeg(m, l)
      PROVE  UNCHANGED <<file, lapsed, evicted, ledger>> /\ call'[n].env = call[n].env
  BY <1>0, <1>7 DEF ForwardLeg, TypeOK, Calls, store, nonces
<1>8. ASSUME NEW m \in Nodes, call' = [call EXCEPT ![m] = Idle]
      PROVE  call'[n].env = call[n].env \/ call'[n].env = 0
  BY <1>0, <1>8 DEF TypeOK, Idle
<1>9. ASSUME NEW m \in Nodes, Refused(m) \/ Answer(m) \/ Fails(m) \/ Restart(m)
      PROVE  call' = [call EXCEPT ![m] = Idle] /\ UNCHANGED <<file, lapsed, evicted, ledger>>
  BY <1>9 DEF Refused, Answer, Fails, Restart, Interrupted, store, nonces
<1>10. ASSUME NEW m \in Nodes, SaveFails(m)
       PROVE  call' = [call EXCEPT ![m] = Idle] /\ ledger' = ledger
  BY <1>10 DEF SaveFails, Interrupted
<1>11. UNCHANGED ledger => Recorded(n)' = Recorded(n)
  BY DEF Recorded
<1>12. CASE \E m \in Nodes : SaveNonces(m) \/ SaveFails(m)
  <2>1. PICK m \in Nodes : SaveNonces(m) \/ SaveFails(m)
    BY <1>12
  <2>2. Prunes(m) /\ (file' = file \/ file' = [file EXCEPT ![m] = mem'[m]])
    BY <2>1 DEF SaveNonces, SaveFails
  <2>3. ledger' = ledger /\ (call'[n].env = call[n].env \/ call'[n].env = 0)
    BY <1>4, <1>8, <1>10, <2>1
  <2> QED BY <1>3, <1>11, <2>2, <2>3
<1>13. CASE UNCHANGED vars
  BY <1>11, <1>13 DEF vars, store, nonces
<1>14. CASE \E m \in Nodes : Refused(m) \/ Answer(m) \/ Fails(m) \/ Restart(m)
  <2>1. /\ UNCHANGED <<file, lapsed, evicted, ledger>>
        /\ call'[n].env = call[n].env \/ call'[n].env = 0
    BY <1>8, <1>9, <1>14
  <2> QED BY <1>11, <2>1
<1>15. CASE Next
  BY <1>1, <1>2, <1>5, <1>6, <1>7, <1>11, <1>12, <1>14, <1>15 DEF Next
<1> QED BY <1>13, <1>15

\* A nonce that is known without an entry, its call being over, stays so until nonce_limit
\* drops it: the retry of a request that failed or was interrupted is refused, and so is
\* any later delivery, the file or the envelope's age being the reason (trust.py verify
\* and _save_nonces; server.py api_relay, api_collab_task and api_collab_file verify
\* before they append).
THEOREM OneChanceOnly == Spec => OneChance
<1>1. ASSUME MeshInv, [Next]_vars PROVE \A n \in Nodes : Burnt(n) \subseteq Burnt(n)' \cup evicted'[n]
  <2> SUFFICES ASSUME NEW n \in Nodes, NEW i \in Burnt(n), i \notin evicted'[n]
               PROVE  i \in Burnt(n)'
    OBVIOUS
  <2>1. /\ i \in file[n] \cup lapsed[n] /\ i \notin Recorded(n) /\ call[n].env # i /\ i # 0
        /\ i \in mem[n] \cup lapsed[n] \cup evicted[n]
    BY <1>1 DEF Burnt, MeshInv, NodeOK, TypeOK, Ids
  <2>2. i \in file'[n] \cup lapsed'[n] /\ i \in mem[n] \cup lapsed[n]
    BY <1>1, <2>1, NodeSteps
  <2>3. i \notin Recorded(n)' /\ call'[n].env # i
    BY <1>1, <2>1, <2>2, NodeSteps
  <2> QED BY <2>2, <2>3 DEF Burnt
<1> QED BY <1>1, MeshInvariant, PTL DEF OneChance, Spec

\* Every node keeps the log that AuditedLog promises of one vault, whatever the other
\* nodes, the partners' deliveries and its own restarts do (server.py, vault.py
\* append_event).
THEOREM EveryNodeKeepsItsLog == Spec => NodesKeepLogs
<1>1. Init => \A n \in Nodes : NodeLog(n)!Init
  <2> SUFFICES ASSUME Init, NEW n \in Nodes PROVE NodeLog(n)!Init
    OBVIOUS
  <2>1. ledger[n] = <<>> /\ told[n] = {} /\ n \notin sealed
    BY DEF Init
  <2>2. (n \in sealed) = FALSE
    BY <2>1
  <2> QED BY <2>1, <2>2 DEF NodeLog!Init
<1>2. ASSUME MeshInv, [Next]_vars PROVE \A n \in Nodes : LogStep(n)
  <2> SUFFICES ASSUME NEW n \in Nodes PROVE LogStep(n)
    OBVIOUS
  <2>0. TypeOK
    BY <1>2 DEF MeshInv
  <2>1. ASSUME NEW m \in Nodes, Record(m) PROVE LogStep(n)
    <3>1. CASE m = n
      <4>1. PICK e \in Ids : e = call[n].env
        BY <1>2, <2>1, <3>1, EnvType DEF Record
      <4>2. /\ ledger'[n] = Append(ledger[n], e) /\ n \notin sealed
            /\ UNCHANGED <<sealed, told>>
        BY <2>0, <2>1, <3>1, <4>1 DEF Record, TypeOK
      <4> QED BY <4>1, <4>2 DEF LogStep, NodeLog!Next, NodeLog!Commit
    <3>2. CASE m # n
      BY <2>0, <2>1, <3>2 DEF Record, TypeOK, LogStep
    <3> QED BY <3>1, <3>2
  <2>2. ASSUME NEW m \in Nodes, Answer(m) PROVE LogStep(n)
    <3>1. UNCHANGED <<ledger, sealed>>
      BY <2>2 DEF Answer, store
    <3>2. CASE told'[n] = told[n]
      BY <3>1, <3>2 DEF LogStep
    <3>3. CASE told'[n] # told[n]
      <4>1. m = n /\ told'[n] = told[n] \cup {call[n].env} /\ call[n].ph = "forward"
        BY <2>0, <2>2, <3>3 DEF Answer, TypeOK
      <4>2. n \notin sealed /\ ledger[n] # <<>> /\ ledger[n][Len(ledger[n])] = call[n].env
        BY <1>2, <4>1 DEF MeshInv, CallOK
      <4> QED BY <3>1, <4>1, <4>2 DEF LogStep, NodeLog!Next, NodeLog!Answer
    <3> QED BY <3>2, <3>3
  <2>3. ASSUME NEW m \in Nodes, Interrupted(m) PROVE LogStep(n)
    <3>1. UNCHANGED <<ledger, told>> /\ (sealed' = sealed \/ sealed' = sealed \cup {m})
      BY <2>3 DEF Interrupted
    <3>2. CASE n \in sealed' <=> n \in sealed
      <4>1. (n \in sealed') = (n \in sealed)
        BY <3>2
      <4> QED BY <3>1, <4>1 DEF LogStep
    <3>3. CASE n \in sealed' /\ n \notin sealed
      <4>1. (n \in sealed') = TRUE
        BY <3>3
      <4> QED BY <3>1, <3>3, <4>1 DEF LogStep, NodeLog!Next, NodeLog!Seal
    <3> QED BY <3>1, <3>2, <3>3
  <2>4. UNCHANGED <<ledger, sealed, told>> => LogStep(n)
    BY DEF LogStep
  <2>5. ASSUME NEW m \in Nodes, NEW l \in Nodes \cup {Http}, ForwardLeg(m, l) PROVE LogStep(n)
    BY <2>4, <2>5 DEF ForwardLeg, store
  <2>6. ASSUME NEW m \in Nodes, NEW i \in Ids, NEW door \in Doors, Verify(m, i, door) PROVE LogStep(n)
    BY <2>4, <2>6 DEF Verify
  <2>7. ASSUME NEW m \in Nodes, SaveNonces(m) \/ Store(m) \/ Refused(m) PROVE LogStep(n)
    BY <2>4, <2>7 DEF SaveNonces, Store, Refused, store, nonces
  <2>8. ASSUME NEW ev \in Events, AgentSigns(ev) PROVE LogStep(n)
    BY <2>4, <2>8 DEF AgentSigns, store
  <2>9. CASE UNCHANGED vars
    BY <2>4, <2>9 DEF vars, store
  <2> QED BY <1>2, <2>1, <2>2, <2>3, <2>5, <2>6, <2>7, <2>8, <2>9 DEF Next, SaveFails, Fails, Restart
<1> QED BY <1>1, <1>2, MeshInvariant, PTL DEF Spec, NodesKeepLogs
=============================================================================
