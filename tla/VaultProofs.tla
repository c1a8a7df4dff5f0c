---------------------------- MODULE VaultProofs ----------------------------
(***************************************************************************)
(* What TLAPS proves of Vault, for every value of its constants.           *)
(***************************************************************************)
EXTENDS Vault, SequenceTheorems, WellFoundedInduction, TLAPS

USE KeepLastAssumption, BoundsAssumption

-----------------------------------------------------------------------------
(* Lemmas about the helpers.                                               *)

\* Newest keeps a sequence over the same set.
LEMMA NewestType ==
  ASSUME NEW S, NEW s \in Seq(S)
  PROVE  Newest(s) \in Seq(S)
<1>1. CASE Len(s) > KeepLast
  <2>1. /\ Len(s) - KeepLast + 1 \in 1 .. Len(s) + 1
        /\ Len(s) \in Len(s) - KeepLast + 1 - 1 .. Len(s)
    BY <1>1
  <2> QED BY <1>1, <2>1, SubSeqProperties DEF Newest
<1>2. CASE ~(Len(s) > KeepLast)
  BY <1>2 DEF Newest
<1> QED BY <1>1, <1>2

\* Taking one element out keeps a sequence over the same set.
LEMMA TakeOutType ==
  ASSUME NEW S, NEW s \in Seq(S), NEW i \in 1 .. Len(s)
  PROVE  SubSeq(s, 1, i - 1) \o SubSeq(s, i + 1, Len(s)) \in Seq(S)
<1>1. SubSeq(s, 1, i - 1) \in Seq(S)
  <2>1. 1 \in 1 .. Len(s) + 1 /\ i - 1 \in 1 - 1 .. Len(s)
    OBVIOUS
  <2> QED BY <2>1, SubSeqProperties
<1>2. SubSeq(s, i + 1, Len(s)) \in Seq(S)
  <2>1. i + 1 \in 1 .. Len(s) + 1 /\ Len(s) \in i + 1 - 1 .. Len(s)
    OBVIOUS
  <2> QED BY <2>1, SubSeqProperties
<1> QED BY <1>1, <1>2, ConcatProperties

\* Without keeps a sequence over the same set.
LEMMA WithoutType ==
  ASSUME NEW S, NEW s \in Seq(S), NEW t
  PROVE  Without(s, t) \in Seq(S)
<1>1. CASE \E i \in 1 .. Len(s) : s[i] = t
  <2>1. (CHOOSE j \in 1 .. Len(s) : s[j] = t) \in 1 .. Len(s)
    BY <1>1
  <2> QED BY <1>1, <2>1, TakeOutType DEF Without
<1>2. CASE ~ \E i \in 1 .. Len(s) : s[i] = t
  BY <1>2 DEF Without
<1> QED BY <1>1, <1>2

\* The three updates of the state in memory keep its type.
LEMMA UpdatesType ==
  ASSUME NEW st \in States
  PROVE  /\ \A t \in TaskIds, s \in Statuses : WithTask(st, t, s) \in States
         /\ \A id \in Ids : WithMessage(st, id) \in States
         /\ \A n \in Nodes, s \in {"active", "revoked"} : WithNode(st, n, s) \in States
         /\ \A b \in BOOLEAN : [st EXCEPT !.audit_tampered = b] \in States
<1>1. ASSUME NEW t \in TaskIds, NEW s \in Statuses PROVE WithTask(st, t, s) \in States
  <2>1. ASSUME NEW r \in Statuses
        PROVE  /\ Without(st.tasks[r], t) \in Seq(TaskIds)
               /\ Newest(Append(Without(st.tasks[r], t), t)) \in Seq(TaskIds)
    <3>1. st.tasks[r] \in Seq(TaskIds)
      BY DEF States
    <3>2. Without(st.tasks[r], t) \in Seq(TaskIds)
      BY <3>1, WithoutType
    <3>3. Append(Without(st.tasks[r], t), t) \in Seq(TaskIds)
      BY <3>2
    <3> QED BY <3>2, <3>3, NewestType
  <2>2. [r \in Statuses |-> IF r = s THEN Newest(Append(Without(st.tasks[r], t), t))
                                     ELSE Without(st.tasks[r], t)]
          \in [Statuses -> Seq(TaskIds)]
    BY <2>1
  <2> QED BY <2>2 DEF WithTask, States
<1>2. ASSUME NEW id \in Ids PROVE WithMessage(st, id) \in States
  <2>1. Append(st.messages, id) \in Seq(Ids)
    BY DEF States
  <2>2. Newest(Append(st.messages, id)) \in Seq(Ids)
    BY <2>1, NewestType
  <2> QED BY <2>2 DEF WithMessage, States
<1>3. ASSUME NEW n \in Nodes, NEW s \in {"active", "revoked"} PROVE WithNode(st, n, s) \in States
  BY DEF WithNode, States
<1>4. ASSUME NEW b \in BOOLEAN PROVE [st EXCEPT !.audit_tampered = b] \in States
  BY DEF States
<1> QED BY <1>1, <1>2, <1>3, <1>4

-----------------------------------------------------------------------------
(* Types, and what a call in flight holds.                                 *)

\* The row that append_event builds for an entry is a row.
LEMMA AuditRowType ==
  ASSUME TypeOK, RowsLinked, NEW e \in Entries, \A i \in 1 .. Len(audit) : audit[i] # TornRow
  PROVE  AuditRow(e) \in Rows
<1>1. HashBefore(audit, Len(audit) + 1) \in LinkHashes
  <2>1. CASE audit = <<>>
    BY <2>1 DEF HashBefore, Genesis, LinkHashes
  <2>2. CASE audit # <<>>
    <3>1. Len(audit) \in 1 .. Len(audit) /\ audit[Len(audit)] \in Rows
      BY <2>2 DEF TypeOK
    <3> QED BY <3>1 DEF HashBefore, Rows
  <2> QED BY <2>1, <2>2
<1>2. <<e.id, e>> \in Ids \X Entries
  BY DEF Entries
<1>3. LinkHash(e.id, HashBefore(audit, Len(audit) + 1), e) \in LinkHashes
  BY <1>1, <1>2 DEF LinkHash, LinkHashes
<1> QED BY <1>1, <1>3 DEF AuditRow, Rows, Entries

\* An interrupted call leaves well-formed files, and no call in flight.
LEMMA InterruptedType ==
  ASSUME TypeOK, CallOK, Interrupted
  PROVE  /\ ledger' \in Seq(Lines) /\ audit' \in Seq(Rows \cup {TornRow})
         /\ disk' \in States /\ files' \in [TaskIds -> SUBSET Statuses]
         /\ pc' = "idle" /\ then' = "idle" /\ cur' \in Lines /\ nextId' \in 1 .. MaxId + 1
         /\ acked' \subseteq Entries /\ cut' \subseteq TaskIds
         /\ faults' \in 0 .. MaxFaults /\ damaged' \in BOOLEAN
         /\ CallOK'
<1>1. ledger' \in Seq(Lines)
  BY DEF TypeOK, Interrupted, LeavesTornLine, Lines
<1>2. audit' \in Seq(Rows \cup {TornRow})
  BY DEF TypeOK, Interrupted, LeavesTornLine
<1>3. cut' \subseteq TaskIds
  BY DEF TypeOK, CallOK, Interrupted, EndsUpsert, Entries, Events, TaskEvents, Messages,
         Joins, Others
<1>4. faults' \in 0 .. MaxFaults
  BY DEF TypeOK, Interrupted
<1>5. CallOK'
  BY DEF Interrupted, CallOK
<1> QED BY <1>1, <1>2, <1>3, <1>4, <1>5 DEF TypeOK, Interrupted

\* EnsureAuditClean leaves a type-correct memory and an entry to record.
LEMMA EnsureType ==
  ASSUME TypeOK, NEW ev \in Events, nextId <= MaxId, EnsureAuditClean(ev)
  PROVE  /\ mem' \in States /\ cur' \in Lines /\ nextId' \in 1 .. MaxId + 1
         /\ \/ pc' = "ledger" /\ cur' \in Entries
            \/ pc' = "save"
         /\ then' = "idle"
<1>1. CASE VerifyAuditChain
  BY <1>1 DEF TypeOK, EnsureAuditClean, Entries, Lines, Ids
<1>2. CASE ~VerifyAuditChain
  BY <1>2, UpdatesType DEF TypeOK, EnsureAuditClean, SaveThen
<1> QED BY <1>1, <1>2

\* The line that DamageLedger changes is the entry its audit row covers.
LEMMA DamageHitsAudited ==
  ASSUME TypeOK, RowsLinked, AuditIsPrefix, ~damaged,
         NEW i \in 1 .. Len(ledger), i <= Len(AuditLines)
  PROVE  /\ AuditLines = audit /\ Covered = Len(audit) /\ i \in 1 .. Len(audit)
         /\ ledger[i] = audit[i].entry_hash /\ ledger[i] \in Entries
<1>1. AuditLines = audit /\ \A k \in 1 .. Len(audit) : audit[k] # TornRow
  BY DEF AuditLines, TypeOK
<1>2. Covered = Len(audit) /\ i \in 1 .. Len(audit)
  BY <1>1 DEF Covered, TypeOK
<1>3. audit[i] \in Rows
  BY <1>1, <1>2 DEF TypeOK
<1> QED BY <1>1, <1>2, <1>3 DEF AuditIsPrefix, AuditedEntries, Rows

\* Every step keeps the types.
LEMMA TypeStep ==
  ASSUME TypeOK, CallOK, RowsLinked, AuditIsPrefix, InFlightOK, [Next]_vars
  PROVE  TypeOK' /\ CallOK'
<1>1. ASSUME NEW ev \in Events, Relay(ev) PROVE TypeOK' /\ CallOK'
  BY <1>1, EnsureType DEF Relay, TypeOK, CallOK, files_vars, PCs
<1>2. ASSUME NEW t \in TaskIds, NEW s \in Statuses, PutTask(t, s) PROVE TypeOK' /\ CallOK'
  <2>1. CASE VerifyAuditChain
    <3>1. mem' \in States
      BY <1>2, <2>1, UpdatesType DEF PutTask, TypeOK
    <3>2. cur' \in Entries /\ cur'.ev \in TaskEvents /\ cur'.ev.status \in Statuses
      BY <1>2, <2>1 DEF PutTask, TypeOK, Entries, Events, TaskEvents, Ids
    <3> QED BY <1>2, <2>1, <3>1, <3>2 DEF PutTask, TypeOK, CallOK, files_vars, PCs, Lines
  <2>2. CASE ~VerifyAuditChain
    BY <1>2, <2>2, UpdatesType DEF PutTask, TypeOK, CallOK, files_vars, PCs, SaveThen
  <2> QED BY <2>1, <2>2
<1>3. ASSUME NEW n \in Nodes, RegisterNode(n) \/ RevokeNode(n) PROVE TypeOK' /\ CallOK'
  BY <1>3, UpdatesType DEF RegisterNode, RevokeNode, TypeOK, CallOK, files_vars, PCs, SaveThen
<1>4. ASSUME TouchNode PROVE TypeOK' /\ CallOK'
  BY <1>4 DEF TouchNode, TypeOK, CallOK, files_vars, PCs, SaveThen
<1>5. ASSUME AuditStatus PROVE TypeOK' /\ CallOK'
  <2>1. VerifyAuditChain \in BOOLEAN
    BY DEF VerifyAuditChain
  <2> QED BY <1>5, <2>1, UpdatesType DEF AuditStatus, TypeOK, CallOK, files_vars, call_vars
<1>6. ASSUME Check PROVE TypeOK' /\ CallOK'
  <2>1. cur.ev \in Events /\ nextId <= MaxId
    BY <1>6 DEF Check, CallOK, Entries
  <2> QED BY <1>6, <2>1, EnsureType DEF Check, TypeOK, CallOK, files_vars, PCs
<1>7. ASSUME LedgerAppend PROVE TypeOK' /\ CallOK'
  BY <1>7 DEF LedgerAppend, TypeOK, CallOK, PCs, Lines
<1>8. ASSUME AuditAppend PROVE TypeOK' /\ CallOK'
  <2>1. AuditRow(cur) \in Rows
    <3>1. \A i \in 1 .. Len(audit) : audit[i] # TornRow
      BY <1>8 DEF AuditAppend, InFlightOK, Covered, RowsLinked, TypeOK
    <3> QED BY <1>8, <3>1, AuditRowType DEF AuditAppend, CallOK
  <2> QED BY <1>8, <2>1 DEF AuditAppend, TypeOK, CallOK, PCs
<1>9. ASSUME ApplyMessage \/ ApplyOther PROVE TypeOK' /\ CallOK'
  <2>1. cur.id \in Ids
    BY <1>9 DEF ApplyMessage, ApplyOther, CallOK, Entries
  <2> QED BY <1>9, <2>1, UpdatesType
          DEF ApplyMessage, ApplyOther, TypeOK, CallOK, files_vars, PCs
<1>10. ASSUME ApplyTask PROVE TypeOK' /\ CallOK'
  <2>1. cur \in Entries /\ cur.ev \in TaskEvents /\ cur.ev.task \in TaskIds
    BY <1>10 DEF ApplyTask, CallOK, Entries, Events, TaskEvents, Messages, Joins, Others
  <2> QED BY <1>10, <2>1, UpdatesType DEF ApplyTask, TypeOK, CallOK, files_vars, PCs
<1>11. ASSUME ApplyJoin PROVE TypeOK' /\ CallOK'
  <2>1. cur \in Entries /\ cur.ev.node \in Nodes
    BY <1>11 DEF ApplyJoin, CallOK, Entries, Events, TaskEvents, Messages, Joins, Others
  <2> QED BY <1>11, <2>1, UpdatesType DEF ApplyJoin, TypeOK, CallOK, files_vars, PCs, SaveThen
<1>12. ASSUME PutFile \/ UnlinkOthers PROVE TypeOK' /\ CallOK'
  <2>1. files' \in [TaskIds -> SUBSET Statuses]
    BY <1>12 DEF PutFile, UnlinkOthers, TypeOK, CallOK
  <2> QED BY <1>12, <2>1 DEF PutFile, UnlinkOthers, TypeOK, CallOK, PCs
<1>13. ASSUME Finish PROVE TypeOK' /\ CallOK'
  BY <1>13, UpdatesType DEF Finish, TypeOK, CallOK, files_vars, PCs, SaveThen
<1>14. ASSUME SaveState PROVE TypeOK' /\ CallOK'
  BY <1>14 DEF SaveState, TypeOK, CallOK, PCs, Lines, Entries
<1>15. ASSUME Restart \/ WriteFails PROVE TypeOK' /\ CallOK'
  BY <1>15, InterruptedType DEF Restart, WriteFails, TypeOK, PCs
<1>16. ASSUME DamageLedger PROVE TypeOK' /\ CallOK'
  <2>1. PICK i \in 1 .. Len(ledger) :
         /\ i <= Len(AuditLines)
         /\ \/ ledger' = [ledger EXCEPT ![i] = Torn]
            \/ \E ev \in Events \ {ledger[i].ev} : ledger' = [ledger EXCEPT ![i].ev = ev]
            \/ ledger' = SubSeq(ledger, 1, i - 1) \o SubSeq(ledger, i + 1, Len(ledger))
    BY <1>16 DEF DamageLedger
  <2>2. ledger' \in Seq(Lines)
    <3>1. CASE ledger' = [ledger EXCEPT ![i] = Torn]
      BY <3>1 DEF TypeOK, Lines
    <3>2. CASE \E ev \in Events \ {ledger[i].ev} : ledger' = [ledger EXCEPT ![i].ev = ev]
      <4>1. ledger[i] \in Entries
        BY <1>16, <2>1, DamageHitsAudited DEF DamageLedger
      <4>2. PICK ev \in Events \ {ledger[i].ev} : ledger' = [ledger EXCEPT ![i].ev = ev]
        BY <3>2
      <4>3. [ledger[i] EXCEPT !.ev = ev] \in Lines
        BY <4>1, <4>2 DEF Lines, Entries
      <4> QED BY <4>2, <4>3 DEF TypeOK
    <3>3. CASE ledger' = SubSeq(ledger, 1, i - 1) \o SubSeq(ledger, i + 1, Len(ledger))
      BY <3>3, TakeOutType DEF TypeOK
    <3> QED BY <2>1, <3>1, <3>2, <3>3
  <2> QED BY <1>16, <2>2 DEF DamageLedger, TypeOK, CallOK, call_vars
<1>17. ASSUME UNCHANGED vars PROVE TypeOK' /\ CallOK'
  BY <1>17 DEF vars, TypeOK, CallOK
<1> QED
  BY <1>1, <1>2, <1>3, <1>4, <1>5, <1>6, <1>7, <1>8, <1>9, <1>10, <1>11, <1>12, <1>13, <1>14,
     <1>15, <1>16, <1>17 DEF Next, Calls, Steps

-----------------------------------------------------------------------------
(* The audit chain.                                                        *)

\* With linked rows, verify_audit_chain says that the ledger is, line by line,
\* what the rows were written for.
Matched == /\ \A i \in 1 .. Len(audit) : audit[i] # TornRow
           /\ Len(ledger) = Len(audit)
           /\ \A i \in 1 .. Len(audit) : ledger[i] = audit[i].entry_hash

LEMMA VerifyMeaning == TypeOK /\ RowsLinked => (VerifyAuditChain <=> Matched)
<1> SUFFICES ASSUME TypeOK, RowsLinked PROVE VerifyAuditChain <=> Matched
  OBVIOUS
<1>1. CASE \E i \in 1 .. Len(audit) : audit[i] = TornRow
  <2>1. AuditLines = <<>> /\ ledger # <<>>
    BY <1>1 DEF AuditLines, RowsLinked, TypeOK
  <2>2. Len(ledger) # 0
    BY <2>1 DEF TypeOK
  <2> QED BY <1>1, <2>1, <2>2 DEF VerifyAuditChain, Matched
<1>2. CASE \A i \in 1 .. Len(audit) : audit[i] # TornRow
  <2>1. AuditLines = audit /\ Covered = Len(audit)
    BY <1>2 DEF AuditLines, Covered, TypeOK
  <2>2. \A i \in 1 .. Len(audit) : audit[i] \in Rows
    BY <1>2 DEF TypeOK
  <2>3. ASSUME Len(ledger) = Len(audit), NEW i \in 1 .. Len(audit), ledger[i] = audit[i].entry_hash
        PROVE  /\ ledger[i] # Torn
               /\ audit[i].ledger_id = ledger[i].id
               /\ audit[i].prev_hash = HashBefore(audit, i)
               /\ audit[i].hash = LinkHash(ledger[i].id, HashBefore(audit, i), ledger[i])
    <3>1. ledger[i] \in Entries
      BY <2>2, <2>3 DEF Rows
    <3>2. ledger[i] # Torn
      BY <3>1 DEF Entries, Torn, Ids
    <3> QED BY <2>1, <2>3, <3>2 DEF RowsLinked
  <2> QED BY <1>2, <2>1, <2>3 DEF VerifyAuditChain, Matched
<1> QED BY <1>1, <1>2

\* A step that writes neither the ledger nor the audit keeps what is said of them.
LEMMA ChainFrame ==
  ASSUME TypeOK, TypeOK', RowsLinked, AuditIsPrefix, LedgerDistinct, DamageDetected,
         UNCHANGED <<ledger, audit, damaged>>, nextId' >= nextId
  PROVE  /\ RowsLinked' /\ AuditIsPrefix' /\ LedgerDistinct' /\ DamageDetected'
         /\ VerifyAuditChain' = VerifyAuditChain
         /\ Covered' = Covered
<1>1. Covered' = Covered /\ VerifyAuditChain' = VerifyAuditChain
  BY DEF Covered, VerifyAuditChain, AuditLines, HashBefore
<1>2. RowsLinked'
  BY <1>1 DEF RowsLinked, HashBefore
<1>3. AuditIsPrefix'
  BY <1>1 DEF AuditIsPrefix, AuditedEntries
<1>4. ASSUME ~damaged, NEW i \in 1 .. Len(ledger), ledger[i].id < nextId
      PROVE  ledger[i].id < nextId'
  <2>1. ledger[i].id \in Nat
    BY DEF TypeOK, Lines, Entries, Torn, Ids
  <2> QED BY <1>4, <2>1 DEF TypeOK
<1>5. LedgerDistinct'
  BY <1>1, <1>4 DEF LedgerDistinct
<1> QED BY <1>1, <1>2, <1>3, <1>5 DEF DamageDetected

\* LedgerAppend puts one new entry on top of a ledger that verified.
LEMMA LedgerAppendStep ==
  ASSUME VaultInv, TypeOK', LedgerAppend
  PROVE  RowsLinked' /\ AuditIsPrefix' /\ LedgerDistinct' /\ DamageDetected' /\ InFlightOK'
<1> USE DEF VaultInv
<1>1. /\ VerifyAuditChain /\ ~damaged /\ damaged' = damaged /\ audit' = audit
      /\ \A i \in 1 .. Len(audit) : audit[i] # TornRow
      /\ Len(ledger) = Len(audit) /\ \A i \in 1 .. Len(audit) : ledger[i] = audit[i].entry_hash
      /\ pc' = "audit" /\ cur' = cur /\ nextId' = nextId
  BY VerifyMeaning DEF LedgerAppend, InFlightOK, DamageDetected, Matched
<1>2. Covered = Len(audit) /\ Covered' = Len(audit)
  BY <1>1 DEF Covered, TypeOK
<1>3. /\ Len(ledger') = Len(ledger) + 1 /\ ledger'[Len(ledger) + 1] = cur
      /\ \A i \in 1 .. Len(ledger) : ledger'[i] = ledger[i]
  BY DEF LedgerAppend, TypeOK
<1>4. RowsLinked'
  BY <1>1, <1>2, <1>3 DEF RowsLinked, HashBefore, TypeOK
<1>5. AuditIsPrefix'
  BY <1>1, <1>2, <1>3 DEF AuditIsPrefix, AuditedEntries, TypeOK
<1>6. LedgerDistinct'
  <2>1. cur \in Entries /\ nextId = cur.id + 1 /\ cur.id \in Nat
        /\ \A i \in 1 .. Len(ledger) : ledger[i].id < cur.id
    BY DEF LedgerAppend, InFlightOK, CallOK, Entries, Ids
  <2>2. \A i \in 1 .. Len(ledger) + 1 : ledger'[i].id < nextId
    <3> TAKE i \in 1 .. Len(ledger) + 1
    <3>1. CASE i \in 1 .. Len(ledger)
      <4>1. ledger'[i] = ledger[i] /\ ledger[i].id < nextId
        BY <1>1, <1>3, <3>1 DEF LedgerDistinct
      <4> QED BY <4>1
    <3>2. CASE i = Len(ledger) + 1
      <4>1. ledger'[i].id = cur.id
        BY <1>3, <3>2
      <4>2. cur.id < nextId
        BY <2>1
      <4> QED BY <4>1, <4>2
    <3>3. Len(ledger) \in Nat
      BY DEF TypeOK
    <3> QED BY <3>1, <3>2, <3>3
  <2>3. ASSUME NEW i \in 1 .. Len(ledger) + 1, NEW j \in 1 .. Len(ledger) + 1, i < j, i <= Covered
        PROVE  ledger'[i] # ledger'[j]
    <3>1. CASE j = Len(ledger) + 1
      <4>1. i \in 1 .. Len(ledger) /\ ledger'[i] = ledger[i] /\ ledger'[j] = cur
        BY <1>3, <2>3, <3>1 DEF TypeOK
      <4>2. ledger[i].id < cur.id
        BY <2>1, <4>1
      <4> QED BY <2>1, <4>1, <4>2
    <3>2. CASE j # Len(ledger) + 1
      BY <1>1, <1>3, <2>3, <3>2 DEF LedgerDistinct, TypeOK
    <3> QED BY <3>1, <3>2
  <2> QED BY <1>1, <1>2, <1>3, <2>2, <2>3 DEF LedgerDistinct, TypeOK
<1>7. DamageDetected' /\ InFlightOK'
  BY <1>1, <1>2, <1>3 DEF DamageDetected, InFlightOK, Recorded, TypeOK
<1> QED BY <1>4, <1>5, <1>6, <1>7

\* AuditAppend covers the line LedgerAppend wrote, and the chain verifies again.
LEMMA AuditAppendStep ==
  ASSUME VaultInv, TypeOK', AuditAppend
  PROVE  RowsLinked' /\ AuditIsPrefix' /\ LedgerDistinct' /\ DamageDetected' /\ InFlightOK'
<1> USE DEF VaultInv
<1> DEFINE n == Len(audit) + 1
<1>1. /\ ~damaged /\ damaged' = damaged /\ ledger' = ledger /\ nextId' = nextId
      /\ Covered = Len(audit) /\ Len(ledger) = n /\ ledger[n] = cur
      /\ pc' = "apply" /\ cur' = cur /\ cur \in Entries
  BY DEF AuditAppend, InFlightOK, CallOK
<1>2. \A i \in 1 .. Len(audit) : audit[i] # TornRow
  BY <1>1 DEF Covered, RowsLinked, TypeOK
<1>3. AuditRow(cur) \in Rows
  BY <1>1, <1>2, AuditRowType
<1>4. AuditRow(cur) # TornRow
  BY <1>3 DEF Rows, TornRow, Entries, Torn, Ids
<1>5. /\ Len(audit') = n /\ audit'[n] = AuditRow(cur) /\ n \in Nat \ {0}
      /\ \A i \in 1 .. Len(audit) : audit'[i] = audit[i]
  BY DEF AuditAppend, TypeOK
<1>6. Covered' = n /\ \A i \in 1 .. n : audit'[i] # TornRow
  <2>1. ASSUME NEW i \in 1 .. n PROVE audit'[i] # TornRow
    <3>1. CASE i = n
      BY <1>4, <1>5, <3>1
    <3>2. CASE i # n
      <4>1. i \in 1 .. Len(audit)
        BY <1>5, <3>2
      <4> QED BY <1>2, <1>5, <4>1
    <3> QED BY <3>1, <3>2
  <2>2. audit'[Len(audit')] # TornRow
    BY <1>4, <1>5
  <2> QED BY <1>5, <2>1, <2>2 DEF Covered
<1>7. ASSUME NEW i \in 1 .. n PROVE HashBefore(audit', i) = HashBefore(audit, i)
  <2>1. CASE i = 1
    BY <2>1 DEF HashBefore
  <2>2. CASE i # 1
    <3>1. i - 1 \in 1 .. Len(audit)
      BY <1>5, <2>2
    <3> QED BY <1>5, <2>2, <3>1 DEF HashBefore
  <2> QED BY <2>1, <2>2
<1>8. RowsLinked'
  <2>1. ASSUME NEW i \in 1 .. Len(audit)
        PROVE  /\ audit'[i].ledger_id = audit'[i].entry_hash.id
               /\ audit'[i].prev_hash = HashBefore(audit', i)
               /\ audit'[i].hash = LinkHash(audit'[i].ledger_id, audit'[i].prev_hash,
                                            audit'[i].entry_hash)
    BY <1>1, <1>5, <1>7 DEF RowsLinked
  <2>2. /\ audit'[n].ledger_id = audit'[n].entry_hash.id
        /\ audit'[n].prev_hash = HashBefore(audit', n)
        /\ audit'[n].hash = LinkHash(audit'[n].ledger_id, audit'[n].prev_hash,
                                     audit'[n].entry_hash)
    BY <1>5, <1>7 DEF AuditRow
  <2> QED BY <1>5, <1>6, <2>1, <2>2 DEF RowsLinked
<1>9. \A i \in 1 .. n : ledger[i] = audit'[i].entry_hash
  BY <1>1, <1>5 DEF AuditIsPrefix, AuditedEntries, AuditRow
<1>10. AuditIsPrefix'
  BY <1>1, <1>5, <1>6, <1>9 DEF AuditIsPrefix, AuditedEntries
<1>11. LedgerDistinct'
  <2>1. \A i, j \in 1 .. Len(ledger) : i < j /\ i <= n => i <= Len(audit)
    BY <1>1, <1>5
  <2> QED BY <1>1, <1>6, <2>1 DEF LedgerDistinct
<1>12. VerifyAuditChain'
  <2>1. (TypeOK /\ RowsLinked => (VerifyAuditChain <=> Matched))'
    BY VerifyMeaning, PTL
  <2>2. Matched'
    BY <1>1, <1>5, <1>6, <1>9 DEF Matched
  <2> QED BY <1>8, <2>1, <2>2
<1>13. DamageDetected' /\ InFlightOK'
  <2>1. audit' # <<>> /\ audit'[Len(audit')].entry_hash = cur
    BY <1>5 DEF AuditRow
  <2> QED BY <1>1, <1>12, <2>1 DEF DamageDetected, InFlightOK, Recorded
<1> QED BY <1>8, <1>10, <1>11, <1>13

\* A crash or a failed write changes the two files at most by half a line, and
\* only where append_event was writing.
LEMMA InterruptedStep ==
  ASSUME VaultInv, TypeOK', Interrupted
  PROVE  RowsLinked' /\ AuditIsPrefix' /\ LedgerDistinct' /\ DamageDetected' /\ InFlightOK'
<1> USE DEF VaultInv
<1>1. pc' = "idle" /\ then' = "idle" /\ damaged' = damaged /\ nextId' = nextId
  BY DEF Interrupted
<1>2. InFlightOK'
  BY <1>1 DEF InFlightOK, Recorded
<1>3. CASE UNCHANGED <<ledger, audit>>
  <2>1. nextId' >= nextId
    BY <1>1 DEF TypeOK
  <2> QED BY <1>1, <1>2, <1>3, <2>1, ChainFrame
<1>4. CASE pc = "ledger" /\ ledger' = Append(ledger, Torn) /\ UNCHANGED audit
  <2>1. /\ VerifyAuditChain /\ ~damaged
        /\ \A i \in 1 .. Len(audit) : audit[i] # TornRow
        /\ Len(ledger) = Len(audit)
    BY <1>4, VerifyMeaning DEF InFlightOK, DamageDetected, Matched
  <2>2. Covered = Len(audit) /\ Covered' = Len(audit)
    BY <1>4, <2>1 DEF Covered, TypeOK
  <2>3. /\ Len(ledger') = Len(ledger) + 1 /\ ledger'[Len(ledger) + 1] = Torn
        /\ \A i \in 1 .. Len(ledger) : ledger'[i] = ledger[i]
    BY <1>4 DEF TypeOK, Lines
  <2>4. RowsLinked' /\ AuditIsPrefix'
    <3>1. RowsLinked'
      BY <1>4, <2>1, <2>2 DEF RowsLinked, HashBefore
    <3>2. AuditIsPrefix'
      BY <1>1, <1>4, <2>1, <2>2, <2>3 DEF AuditIsPrefix, AuditedEntries, TypeOK
    <3> QED BY <3>1, <3>2
  <2>5. \A i \in 1 .. Len(audit) : ledger[i] # Torn
    <3>1. \A i \in 1 .. Len(audit) : audit[i] \in Rows /\ ledger[i] = audit[i].entry_hash
      BY <2>1, <2>2 DEF TypeOK, AuditIsPrefix, AuditedEntries
    <3> QED BY <3>1 DEF Rows, Entries, Torn, Ids
  <2>6. Torn.id < nextId
    BY DEF Torn, TypeOK
  <2>7. \A i \in 1 .. Len(ledger) : ledger'[i].id < nextId
    BY <2>1, <2>3 DEF LedgerDistinct
  <2>8. ASSUME NEW i \in 1 .. Len(ledger) + 1, NEW j \in 1 .. Len(ledger) + 1, i < j
        PROVE  ledger'[i] # ledger'[j]
    <3>1. i \in 1 .. Len(ledger) /\ ledger'[i] = ledger[i] /\ i \in 1 .. Len(audit) /\ i <= Covered
      BY <2>1, <2>2, <2>3, <2>8 DEF TypeOK
    <3>2. CASE j = Len(ledger) + 1
      BY <2>3, <2>5, <3>1, <3>2
    <3>3. CASE j # Len(ledger) + 1
      <4>1. j \in 1 .. Len(ledger) /\ ledger'[j] = ledger[j]
        BY <2>3, <3>3 DEF TypeOK
      <4> QED BY <2>1, <2>8, <3>1, <4>1 DEF LedgerDistinct
    <3> QED BY <3>2, <3>3
  <2>9. LedgerDistinct'
    <3>1. \A i \in 1 .. Len(ledger') : ledger'[i].id < nextId'
      BY <1>1, <2>3, <2>6, <2>7 DEF TypeOK
    <3> QED BY <2>3, <2>8, <3>1 DEF LedgerDistinct
  <2> QED BY <1>1, <1>2, <2>1, <2>4, <2>9 DEF DamageDetected
<1>5. CASE pc = "audit" /\ audit' = Append(audit, TornRow) /\ UNCHANGED ledger
  <2>1. /\ ~damaged /\ Covered = Len(audit) /\ Len(ledger) = Len(audit) + 1
    BY <1>5 DEF InFlightOK
  <2>2. \A i \in 1 .. Len(audit) : audit[i] # TornRow
    BY <2>1 DEF Covered, RowsLinked, TypeOK
  <2>3. /\ Len(audit') = Len(audit) + 1 /\ audit'[Len(audit) + 1] = TornRow
        /\ \A i \in 1 .. Len(audit) : audit'[i] = audit[i]
    BY <1>5 DEF TypeOK
  <2>4. Covered' = Len(audit)
    BY <2>3 DEF Covered, TypeOK
  <2>5. RowsLinked'
    <3>1. ledger' # <<>>
      BY <1>5, <2>1 DEF TypeOK
    <3>2. ASSUME NEW i \in 1 .. Len(audit) PROVE HashBefore(audit', i) = HashBefore(audit, i)
      <4>1. i = 1 \/ i - 1 \in 1 .. Len(audit)
        OBVIOUS
      <4> QED BY <2>3, <4>1 DEF HashBefore
    <3>3. \A i \in 1 .. Covered' :
            /\ audit'[i].ledger_id = audit'[i].entry_hash.id
            /\ audit'[i].prev_hash = HashBefore(audit', i)
            /\ audit'[i].hash = LinkHash(audit'[i].ledger_id, audit'[i].prev_hash,
                                         audit'[i].entry_hash)
      BY <2>1, <2>3, <2>4, <3>2 DEF RowsLinked
    <3>4. \A i \in 1 .. Len(audit') : audit'[i] = TornRow => i = Len(audit')
      <4>1. ASSUME NEW i \in 1 .. Len(audit'), i # Len(audit') PROVE audit'[i] # TornRow
        <5>1. i \in 1 .. Len(audit) /\ audit'[i] = audit[i]
          BY <2>3, <4>1 DEF TypeOK
        <5> QED BY <2>2, <5>1
      <4> QED BY <4>1
    <3> QED BY <3>1, <3>3, <3>4 DEF RowsLinked
  <2>6. AuditIsPrefix' /\ LedgerDistinct'
    BY <1>1, <1>5, <2>1, <2>3, <2>4 DEF AuditIsPrefix, AuditedEntries, LedgerDistinct, TypeOK
  <2> QED BY <1>1, <1>2, <2>1, <2>5, <2>6 DEF DamageDetected
<1> QED BY <1>3, <1>4, <1>5 DEF Interrupted, LeavesTornLine

\* The first place after the first part of a concatenation.
LEMMA ConcatPlace ==
  ASSUME NEW S, NEW a \in Seq(S), NEW b \in Seq(S)
  PROVE  /\ Len(a \o b) = Len(a) + Len(b)
         /\ Len(b) > 0 => (a \o b)[Len(a) + 1] = b[1]
<1>1. Len(b) > 0 => Len(a) + 1 \in 1 .. Len(a) + Len(b)
  OBVIOUS
<1>2. ~(Len(a) + 1 <= Len(a)) /\ Len(a) + 1 - Len(a) = 1
  OBVIOUS
<1> QED BY <1>1, <1>2, ConcatProperties

\* What taking element i out of a sequence does to its length and to place i.
LEMMA TakeOutPlaces ==
  ASSUME NEW S, NEW s \in Seq(S), NEW i \in 1 .. Len(s),
         NEW r, r = SubSeq(s, 1, i - 1) \o SubSeq(s, i + 1, Len(s))
  PROVE  Len(r) = Len(s) - 1 /\ (i < Len(s) => r[i] = s[i + 1])
<1>1. PICK a : a = SubSeq(s, 1, i - 1)
  OBVIOUS
<1>2. PICK b : b = SubSeq(s, i + 1, Len(s))
  OBVIOUS
<1>3. a \in Seq(S) /\ Len(a) = i - 1
  BY <1>1, SubSeqProperties
<1>4. b \in Seq(S) /\ Len(b) = Len(s) - i /\ (i < Len(s) => b[1] = s[i + 1])
  BY <1>2, SubSeqProperties
<1>5. r = a \o b
  BY <1>1, <1>2
<1>6. Len(r) = Len(a) + Len(b) /\ (Len(b) > 0 => r[Len(a) + 1] = b[1])
  BY <1>3, <1>4, <1>5, ConcatPlace
<1>7. Len(r) = Len(s) - 1
  <2>1. Len(s) \in Nat /\ i \in Nat
    OBVIOUS
  <2>2. Len(r) = (i - 1) + (Len(s) - i)
    BY <1>3, <1>4, <1>6
  <2>3. \A n, k \in Nat : (k - 1) + (n - k) = n - 1
    OBVIOUS
  <2> QED BY <2>1, <2>2, <2>3, Zenon
<1>8. ASSUME i < Len(s) PROVE r[i] = s[i + 1]
  <2>1. Len(b) > 0 /\ Len(a) + 1 = i
    BY <1>3, <1>4, <1>8
  <2> QED BY <1>4, <1>6, <1>8, <2>1
<1> QED BY <1>7, <1>8

\* Whatever happens to an audited ledger line, the chain does not verify after.
LEMMA DamageStep ==
  ASSUME VaultInv, TypeOK', DamageLedger
  PROVE  RowsLinked' /\ AuditIsPrefix' /\ LedgerDistinct' /\ DamageDetected' /\ InFlightOK'
<1> USE DEF VaultInv
<1>1. /\ pc' = "idle" /\ ~damaged /\ damaged' = TRUE /\ audit' = audit
  BY DEF DamageLedger, call_vars
<1>2. PICK i \in 1 .. Len(ledger) :
       /\ i <= Len(AuditLines)
       /\ \/ ledger' = [ledger EXCEPT ![i] = Torn]
          \/ \E ev \in Events \ {ledger[i].ev} : ledger' = [ledger EXCEPT ![i].ev = ev]
          \/ ledger' = SubSeq(ledger, 1, i - 1) \o SubSeq(ledger, i + 1, Len(ledger))
  BY DEF DamageLedger
<1>3. /\ AuditLines = audit /\ Covered = Len(audit) /\ i \in 1 .. Len(audit)
      /\ ledger[i] = audit[i].entry_hash /\ ledger[i] \in Entries
  BY <1>1, <1>2, DamageHitsAudited
<1>4. RowsLinked'
  <2>1. \A k \in 1 .. Len(audit) : audit[k] # TornRow
    BY <1>3 DEF AuditLines, TypeOK
  <2> QED BY <1>1, <2>1 DEF RowsLinked, Covered, HashBefore
<1>5. ~ Matched'
  <2>1. CASE ledger' = [ledger EXCEPT ![i] = Torn]
    <3>1. ledger'[i] = Torn /\ Torn # ledger[i]
      BY <1>3, <2>1 DEF TypeOK, Entries, Torn, Ids
    <3> QED BY <1>1, <1>3, <3>1 DEF Matched
  <2>2. CASE \E ev \in Events \ {ledger[i].ev} : ledger' = [ledger EXCEPT ![i].ev = ev]
    <3>1. PICK ev \in Events \ {ledger[i].ev} : ledger' = [ledger EXCEPT ![i].ev = ev]
      BY <2>2
    <3>2. ledger'[i] = [ledger[i] EXCEPT !.ev = ev]
      <4>1. i \in DOMAIN ledger
        BY DEF TypeOK
      <4> QED BY <3>1, <4>1
    <3>3. ledger'[i].ev # ledger[i].ev
      BY <1>3, <3>1, <3>2 DEF Entries
    <3> QED BY <1>1, <1>3, <3>3 DEF Matched
  <2>3. CASE ledger' = SubSeq(ledger, 1, i - 1) \o SubSeq(ledger, i + 1, Len(ledger))
    <3>1. Len(ledger') = Len(ledger) - 1 /\ (i < Len(ledger) => ledger'[i] = ledger[i + 1])
      BY <2>3, TakeOutPlaces DEF TypeOK
    <3>2. SUFFICES ASSUME Len(ledger') = Len(audit) PROVE ledger'[i] # audit[i].entry_hash
      BY <1>1, <1>3 DEF Matched
    <3>3. i < Len(ledger) /\ i + 1 \in 1 .. Len(ledger) /\ i < i + 1 /\ i <= Covered
      BY <1>3, <3>1, <3>2 DEF TypeOK
    <3>4. ledger[i] # ledger[i + 1]
      BY <1>1, <1>2, <3>3 DEF LedgerDistinct
    <3> QED BY <1>3, <3>1, <3>3, <3>4
  <2> QED BY <1>2, <2>1, <2>2, <2>3
<1>6. DamageDetected'
  <2>1. (TypeOK /\ RowsLinked => (VerifyAuditChain <=> Matched))'
    BY VerifyMeaning, PTL
  <2> QED BY <1>4, <1>5, <2>1 DEF DamageDetected
<1>7. AuditIsPrefix' /\ LedgerDistinct' /\ InFlightOK'
  BY <1>1 DEF AuditIsPrefix, LedgerDistinct, InFlightOK, Recorded
<1> QED BY <1>4, <1>6, <1>7

\* EnsureAuditClean lets an entry through only on top of a chain that verifies,
\* and gives it an id above all ids of the ledger.
LEMMA EnsureStep ==
  ASSUME VaultInv, NEW ev \in Events, EnsureAuditClean(ev),
         UNCHANGED <<ledger, audit, disk, files, damaged>>, TypeOK'
  PROVE  nextId' >= nextId /\ InFlightOK'
<1> USE DEF VaultInv
<1>1. VerifyAuditChain' = VerifyAuditChain
  BY DEF VerifyAuditChain, AuditLines, HashBefore
<1>2. CASE VerifyAuditChain
  <2>1. ~damaged
    BY <1>2 DEF DamageDetected
  <2>2. /\ pc' = "ledger" /\ cur'.id = nextId /\ nextId' = nextId + 1
    BY <1>2 DEF EnsureAuditClean
  <2> QED BY <1>1, <1>2, <2>1, <2>2 DEF InFlightOK, Recorded, LedgerDistinct, TypeOK
<1>3. CASE ~VerifyAuditChain
  <2>1. pc' = "save" /\ then' = "idle" /\ nextId' = nextId
    BY <1>3 DEF EnsureAuditClean, SaveThen
  <2> QED BY <2>1 DEF InFlightOK, Recorded, TypeOK
<1> QED BY <1>2, <1>3

\* The inductive invariant is inductive.
LEMMA VaultInvStep == VaultInv /\ [Next]_vars => VaultInv'
<1> SUFFICES ASSUME VaultInv, [Next]_vars PROVE VaultInv'
  OBVIOUS
<1> DEFINE Chain == RowsLinked /\ AuditIsPrefix /\ LedgerDistinct /\ DamageDetected /\ InFlightOK
<1>1. TypeOK' /\ CallOK'
  BY TypeStep DEF VaultInv
<1>2. SUFFICES Chain'
  BY <1>1 DEF VaultInv
<1>3. ASSUME UNCHANGED <<ledger, audit, damaged>>, nextId' >= nextId, InFlightOK' PROVE Chain'
  BY <1>1, <1>3, ChainFrame DEF VaultInv
<1>4. nextId' = nextId => nextId' >= nextId
  BY DEF VaultInv, TypeOK
<1>5. ASSUME UNCHANGED <<ledger, audit>>
      PROVE  VerifyAuditChain' = VerifyAuditChain /\ Covered' = Covered
  BY <1>5 DEF VerifyAuditChain, AuditLines, HashBefore, Covered
<1>6. ASSUME NEW ev \in Events, Relay(ev) PROVE Chain'
  BY <1>1, <1>3, <1>6, EnsureStep DEF Relay, files_vars
<1>7. ASSUME Check PROVE Chain'
  <2>1. cur.ev \in Events
    BY <1>7 DEF Check, VaultInv, CallOK, Entries
  <2> QED BY <1>1, <1>3, <1>7, <2>1, EnsureStep DEF Check, files_vars
<1>8. ASSUME NEW t \in TaskIds, NEW s \in Statuses, PutTask(t, s) PROVE Chain'
  <2>1. InFlightOK'
    BY <1>8 DEF PutTask, InFlightOK, Recorded, SaveThen
  <2> QED BY <1>3, <1>4, <1>8, <2>1 DEF PutTask, files_vars
<1>9. ASSUME NEW n \in Nodes, RegisterNode(n) \/ RevokeNode(n) PROVE Chain'
  <2>1. InFlightOK'
    BY <1>9 DEF RegisterNode, RevokeNode, InFlightOK, Recorded, SaveThen
  <2> QED BY <1>3, <1>4, <1>9, <2>1 DEF RegisterNode, RevokeNode, files_vars
<1>10. ASSUME TouchNode \/ AuditStatus PROVE Chain'
  <2>1. InFlightOK'
    BY <1>10 DEF TouchNode, AuditStatus, InFlightOK, Recorded, SaveThen, call_vars
  <2> QED BY <1>3, <1>4, <1>10, <2>1 DEF TouchNode, AuditStatus, files_vars, call_vars
<1>11. ASSUME ApplyMessage \/ ApplyOther \/ ApplyTask \/ ApplyJoin PROVE Chain'
  <2>1. InFlightOK'
    BY <1>5, <1>11 DEF ApplyMessage, ApplyOther, ApplyTask, ApplyJoin, InFlightOK, Recorded,
                       SaveThen, VaultInv, files_vars
  <2> QED BY <1>3, <1>4, <1>11, <2>1
          DEF ApplyMessage, ApplyOther, ApplyTask, ApplyJoin, files_vars
<1>12. ASSUME PutFile \/ UnlinkOthers \/ Finish PROVE Chain'
  <2>1. InFlightOK'
    BY <1>5, <1>12 DEF PutFile, UnlinkOthers, Finish, InFlightOK, Recorded, SaveThen, VaultInv,
                       files_vars
  <2> QED BY <1>3, <1>4, <1>12, <2>1 DEF PutFile, UnlinkOthers, Finish, files_vars
<1>13. ASSUME SaveState PROVE Chain'
  <2>1. InFlightOK'
    BY <1>5, <1>13 DEF SaveState, InFlightOK, Recorded, VaultInv, TypeOK
  <2> QED BY <1>3, <1>4, <1>13, <2>1 DEF SaveState
<1>14. ASSUME Restart \/ WriteFails PROVE Chain'
  BY <1>1, <1>14, InterruptedStep DEF Restart, WriteFails
<1>15. ASSUME UNCHANGED vars PROVE Chain'
  <2>1. InFlightOK'
    BY <1>5, <1>15 DEF vars, InFlightOK, Recorded, VaultInv
  <2> QED BY <1>3, <1>4, <1>15, <2>1 DEF vars
<1> QED
  BY <1>1, <1>6, <1>7, <1>8, <1>9, <1>10, <1>11, <1>12, <1>13, <1>14, <1>15, LedgerAppendStep,
     AuditAppendStep, DamageStep DEF Next, Calls, Steps

\* It holds initially.
LEMMA VaultInvInit == Init => VaultInv
<1> SUFFICES ASSUME Init PROVE VaultInv
  OBVIOUS
<1>1. DefaultState \in States
  BY DEF DefaultState, States
<1>2. TypeOK
  <2>1. /\ ledger \in Seq(Lines) /\ audit \in Seq(Rows \cup {TornRow})
        /\ acked \subseteq Entries /\ cut \subseteq TaskIds
    BY DEF Init
  <2>2. files \in [TaskIds -> SUBSET Statuses]
    BY DEF Init
  <2>3. nextId \in 1 .. MaxId + 1 /\ faults \in 0 .. MaxFaults
    BY DEF Init
  <2> QED BY <1>1, <2>1, <2>2, <2>3 DEF Init, TypeOK, NoEntry, Lines, PCs
<1>3. Covered = 0
  BY DEF Init, Covered
<1>4. CallOK /\ RowsLinked /\ AuditIsPrefix /\ LedgerDistinct /\ InFlightOK /\ DamageDetected
  BY <1>3 DEF Init, CallOK, RowsLinked, AuditIsPrefix, LedgerDistinct, InFlightOK, Recorded,
              DamageDetected
<1> QED BY <1>2, <1>4 DEF VaultInv

\* Every reachable state of the vault satisfies the inductive invariant: its
\* files and memory are well formed, and an append in flight is where the
\* order of append_event's writes says it is.
THEOREM VaultInvariant == Spec => []VaultInv
  BY VaultInvInit, VaultInvStep, PTL DEF Spec

\* The files and the memory of the vault keep their types.
THEOREM VaultTypes == Spec => []TypeOK
  BY VaultInvariant, PTL DEF VaultInv

\* The audited entries are the beginning of the ledger and at most one line is
\* not audited, wherever append_event was interrupted.
THEOREM AuditPrefix == Spec => []AuditIsPrefix
  BY VaultInvariant, PTL DEF VaultInv

\* verify_audit_chain fails for good after a change to an audited ledger line.
THEOREM DamageIsDetected == Spec => []DamageDetected
  BY VaultInvariant, PTL DEF VaultInv

-----------------------------------------------------------------------------
(* State, task files and the tamper flag.                                  *)

\* What is in state.json is not newer than the memory as far as revocation goes,
\* an upsert has its new file before it unlinks, and a raised flag is right.
StateInv ==
  /\ \A n \in Nodes : disk.nodes[n] = "revoked" => mem.nodes[n] = "revoked"
  /\ pc = "unlink" => cur.ev.status \in files[cur.ev.task]
  /\ mem.audit_tampered \/ disk.audit_tampered => ~VerifyAuditChain /\ pc # "audit"

\* The updates of the tasks and the messages leave the rest of a state alone.
LEMMA UpdatesFrame ==
  ASSUME NEW st \in States
  PROVE  /\ \A t, s : /\ WithTask(st, t, s).nodes = st.nodes
                      /\ WithTask(st, t, s).audit_tampered = st.audit_tampered
         /\ \A id : /\ WithMessage(st, id).nodes = st.nodes
                    /\ WithMessage(st, id).audit_tampered = st.audit_tampered
         /\ \A n \in Nodes : \A s :
              /\ \A m \in Nodes : WithNode(st, n, s).nodes[m] = IF m = n THEN s ELSE st.nodes[m]
              /\ WithNode(st, n, s).audit_tampered = st.audit_tampered
         /\ \A b : /\ [st EXCEPT !.audit_tampered = b].nodes = st.nodes
                   /\ [st EXCEPT !.audit_tampered = b].audit_tampered = b
  BY DEF WithTask, WithMessage, WithNode, States

\* StateInv is inductive, and the two things a step may never do follow.
LEMMA StateInvStep ==
  ASSUME VaultInv, VaultInv', StateInv, [Next]_vars
  PROVE  /\ StateInv'
         /\ \A n \in Nodes : disk.nodes[n] = "revoked" => disk'.nodes[n] = "revoked"
         /\ \A t \in TaskIds : files[t] # {} => files'[t] # {}
<1> DEFINE Revoked == \A n \in Nodes : disk.nodes[n] = "revoked" => disk'.nodes[n] = "revoked"
           Kept == \A t \in TaskIds : files[t] # {} => files'[t] # {}
           Goal == StateInv' /\ Revoked /\ Kept
<1> USE DEF StateInv
<1>1. TypeOK /\ TypeOK' /\ mem \in States /\ disk \in States
  BY DEF VaultInv, TypeOK
<1>2. ASSUME UNCHANGED <<ledger, audit>> PROVE VerifyAuditChain' = VerifyAuditChain
  BY <1>2 DEF VerifyAuditChain, AuditLines, HashBefore
<1>3. ASSUME ~VerifyAuditChain, mem' = [mem EXCEPT !.audit_tampered = TRUE], pc' = "save",
             UNCHANGED <<ledger, audit, disk, files>>
      PROVE  Goal
  <2>1. mem'.nodes = mem.nodes
    BY <1>1, <1>3, UpdatesFrame
  <2> QED BY <1>2, <1>3, <2>1
<1>4. ASSUME NEW ev \in Events, EnsureAuditClean(ev), UNCHANGED <<ledger, audit, disk, files>>
      PROVE  Goal
  <2>1. CASE VerifyAuditChain
    BY <1>2, <1>4, <2>1 DEF EnsureAuditClean
  <2>2. CASE ~VerifyAuditChain
    BY <1>3, <1>4, <2>2 DEF EnsureAuditClean, SaveThen
  <2> QED BY <2>1, <2>2
<1>5. ASSUME NEW ev \in Events, Relay(ev) PROVE Goal
  BY <1>5, <1>4 DEF Relay, files_vars
<1>6. ASSUME Check PROVE Goal
  <2>1. cur.ev \in Events
    BY <1>6 DEF Check, VaultInv, CallOK, Entries
  <2> QED BY <1>6, <1>4, <2>1 DEF Check, files_vars
<1>7. ASSUME NEW t \in TaskIds, NEW s \in Statuses, PutTask(t, s) PROVE Goal
  <2>1. CASE VerifyAuditChain
    <3>1. mem'.nodes = mem.nodes /\ mem'.audit_tampered = mem.audit_tampered /\ pc' = "put"
      BY <1>1, <1>7, <2>1, UpdatesFrame DEF PutTask
    <3> QED BY <1>2, <1>7, <2>1, <3>1 DEF PutTask, files_vars
  <2>2. CASE ~VerifyAuditChain
    BY <1>7, <1>3, <2>2 DEF PutTask, SaveThen, files_vars
  <2> QED BY <2>1, <2>2
<1>8. ASSUME NEW n \in Nodes, RegisterNode(n) \/ RevokeNode(n) PROVE Goal
  BY <1>1, <1>2, <1>8, UpdatesFrame DEF RegisterNode, RevokeNode, SaveThen, files_vars
<1>9. ASSUME TouchNode \/ AuditStatus PROVE Goal
  <2>1. CASE TouchNode
    BY <1>1, <1>2, <2>1 DEF TouchNode, SaveThen, files_vars
  <2>2. CASE AuditStatus
    <3>1. mem'.nodes = mem.nodes /\ pc' = "idle" /\ UNCHANGED <<ledger, audit, disk, files>>
      BY <1>1, <2>2 DEF AuditStatus, States, files_vars, call_vars
    <3>2. CASE VerifyAuditChain
      BY <1>2, <3>1, <3>2, <1>1, <2>2 DEF AuditStatus, States
    <3>3. CASE ~VerifyAuditChain
      BY <1>2, <3>1, <3>3
    <3> QED BY <3>2, <3>3
  <2> QED BY <1>9, <2>1, <2>2
<1>10. ASSUME LedgerAppend PROVE Goal
  BY <1>1, <1>10 DEF LedgerAppend, VaultInv, InFlightOK
<1>11. ASSUME AuditAppend PROVE Goal
  BY <1>1, <1>11 DEF AuditAppend
<1>12. ASSUME ApplyMessage \/ ApplyOther \/ ApplyTask \/ ApplyJoin PROVE Goal
  <2>1. cur.ev.op = "join" /\ pc = "apply" => cur.ev.node \in Nodes
    BY DEF VaultInv, CallOK, Entries, Events, TaskEvents, Messages, Joins, Others
  <2> QED BY <1>1, <1>2, <1>12, <2>1, UpdatesFrame
          DEF ApplyMessage, ApplyOther, ApplyTask, ApplyJoin, SaveThen, files_vars
<1>13. ASSUME PutFile \/ UnlinkOthers PROVE Goal
  <2>1. cur.ev.task \in TaskIds /\ files \in [TaskIds -> SUBSET Statuses]
    BY <1>1, <1>13 DEF PutFile, UnlinkOthers, VaultInv, CallOK, TaskEvents, TypeOK
  <2>2. Kept /\ (pc' = "unlink" => cur'.ev.status \in files'[cur'.ev.task])
    BY <1>13, <2>1 DEF PutFile, UnlinkOthers
  <2> QED BY <1>1, <1>2, <1>13, <2>2 DEF PutFile, UnlinkOthers
<1>14. ASSUME Finish PROVE Goal
  BY <1>1, <1>2, <1>14, UpdatesFrame DEF Finish, SaveThen, files_vars
<1>15. ASSUME SaveState PROVE Goal
  BY <1>1, <1>2, <1>15 DEF SaveState, TypeOK
<1>16. ASSUME Restart \/ WriteFails PROVE Goal
  <2>1. (mem.audit_tampered \/ disk.audit_tampered) => VerifyAuditChain' = VerifyAuditChain
    BY <1>2, <1>16 DEF Restart, WriteFails, Interrupted, LeavesTornLine, VaultInv, InFlightOK
  <2> QED BY <1>1, <1>16, <2>1 DEF Restart, WriteFails, Interrupted
<1>17. ASSUME DamageLedger PROVE Goal
  BY <1>1, <1>17 DEF DamageLedger, VaultInv, DamageDetected, call_vars
<1>18. ASSUME UNCHANGED vars PROVE Goal
  BY <1>1, <1>2, <1>18 DEF vars
<1> QED
  BY <1>5, <1>6, <1>7, <1>8, <1>9, <1>10, <1>11, <1>12, <1>13, <1>14, <1>15, <1>16, <1>17, <1>18
     DEF Next, Calls, Steps

\* The state invariant of every reachable state, with VaultInv.
LEMMA StateInvariant == Spec => [](VaultInv /\ StateInv)
<1>1. Init => StateInv
  BY DEF Init, StateInv, DefaultState
<1>2. VaultInv /\ StateInv /\ [Next]_vars => VaultInv' /\ StateInv'
  BY VaultInvStep, StateInvStep
<1> QED BY <1>1, <1>2, VaultInvInit, PTL DEF Spec

\* The audit_tampered flag is up only while the chain really does not verify.
THEOREM FlagIsRight == Spec => []NoFalseAlarm
<1>1. StateInv => NoFalseAlarm
  BY DEF StateInv, NoFalseAlarm
<1> QED BY <1>1, StateInvariant, PTL

\* A node revoked in state.json stays revoked in it: register_node refuses it,
\* and no save writes an older memory over it.
THEOREM RevocationIsFinal == Spec => RevocationSticks
<1>1. VaultInv /\ StateInv /\ VaultInv' /\ [Next]_vars
      => [\A n \in Nodes : disk.nodes[n] = "revoked" => disk'.nodes[n] = "revoked"]_vars
  BY StateInvStep
<1> QED BY <1>1, StateInvariant, PTL DEF Spec, RevocationSticks

\* A task that has a file always has one, at every step of upsert_task and
\* across crashes and failed writes.
THEOREM TaskIsNeverLost == Spec => TaskNeverLost
<1>1. VaultInv /\ StateInv /\ VaultInv' /\ [Next]_vars
      => [\A t \in TaskIds : files[t] # {} => files'[t] # {}]_vars
  BY StateInvStep
<1> QED BY <1>1, StateInvariant, PTL DEF Spec, TaskNeverLost

-----------------------------------------------------------------------------
(* The vault implements the log its callers were promised.                 *)

\* The abstract sealed, under the mapping of Vault.
Sealed == pc # "audit" /\ ~VerifyAuditChain

\* A step that commits and answers nothing is a Seal or a stutter of AuditedLog.
LEMMA QuietStep ==
  ASSUME AuditedEntries' = AuditedEntries, acked' = acked, Sealed => Sealed'
  PROVE  [Log!Next]_(Log!avars)
<1>1. CASE Sealed' = Sealed
  BY <1>1 DEF Log!avars, Sealed
<1>2. CASE ~Sealed /\ Sealed'
  BY <1>2 DEF Log!Next, Log!Seal, Sealed
<1> QED BY <1>1, <1>2 DEF Sealed

\* Every step of the vault is a step of AuditedLog, or none.
LEMMA LogStep == VaultInv /\ VaultInv' /\ [Next]_vars => [Log!Next]_(Log!avars)
<1> SUFFICES ASSUME VaultInv, VaultInv', [Next]_vars PROVE [Log!Next]_(Log!avars)
  OBVIOUS
<1>1. ASSUME audit' = audit PROVE AuditedEntries' = AuditedEntries /\ Covered' = Covered
  BY <1>1 DEF AuditedEntries, Covered
<1>2. ASSUME UNCHANGED <<ledger, audit>> PROVE VerifyAuditChain' = VerifyAuditChain
  BY <1>2 DEF VerifyAuditChain, AuditLines, HashBefore
<1>3. ASSUME UNCHANGED <<ledger, audit, acked>>, pc' # "audit" PROVE [Log!Next]_(Log!avars)
  BY <1>1, <1>2, <1>3, QuietStep DEF Sealed
<1>4. ASSUME Check PROVE [Log!Next]_(Log!avars)
  BY <1>3, <1>4 DEF Check, EnsureAuditClean, SaveThen, files_vars
<1>5. ASSUME NEW ev \in Events, Relay(ev) PROVE [Log!Next]_(Log!avars)
  BY <1>3, <1>5 DEF Relay, EnsureAuditClean, SaveThen, files_vars
<1>6. ASSUME NEW t \in TaskIds, NEW s \in Statuses, PutTask(t, s) PROVE [Log!Next]_(Log!avars)
  BY <1>3, <1>6 DEF PutTask, SaveThen, files_vars
<1>7. ASSUME NEW n \in Nodes, RegisterNode(n) \/ RevokeNode(n) PROVE [Log!Next]_(Log!avars)
  BY <1>3, <1>7 DEF RegisterNode, RevokeNode, SaveThen, files_vars
<1>8. ASSUME TouchNode \/ AuditStatus PROVE [Log!Next]_(Log!avars)
  BY <1>3, <1>8 DEF TouchNode, AuditStatus, SaveThen, files_vars, call_vars
<1>9. ASSUME LedgerAppend PROVE [Log!Next]_(Log!avars)
  BY <1>1, <1>9, QuietStep DEF LedgerAppend, Sealed, VaultInv, InFlightOK
<1>10. ASSUME AuditAppend PROVE [Log!Next]_(Log!avars)
  <2>1. /\ ~Sealed /\ ~Sealed' /\ acked' = acked /\ cur \in Entries
        /\ Covered = Len(audit) /\ audit' = Append(audit, AuditRow(cur))
        /\ audit \in Seq(Rows \cup {TornRow})
    BY <1>10 DEF AuditAppend, Sealed, VaultInv, InFlightOK, Recorded, CallOK, TypeOK
  <2>2. Covered' = Len(audit) + 1
    <3>1. VerifyAuditChain' /\ audit' \in Seq(Rows \cup {TornRow})
      BY <1>10 DEF AuditAppend, VaultInv, InFlightOK, Recorded, TypeOK
    <3>2. \A i \in 1 .. Len(audit) : audit[i] # TornRow
      BY <2>1 DEF VaultInv, RowsLinked, Covered
    <3>3. AuditRow(cur) \in Rows
      BY <2>1, <3>2, AuditRowType DEF VaultInv
    <3>4. AuditRow(cur) # TornRow
      BY <3>3 DEF Rows, TornRow, Entries, Torn, Ids
    <3> QED BY <2>1, <3>4 DEF Covered
  <2>3. AuditedEntries' = Append(AuditedEntries, cur)
    <3> DEFINE n == Len(audit)
    <3>1. AuditedEntries = [i \in 1 .. n |-> audit[i].entry_hash]
      BY <2>1 DEF AuditedEntries
    <3>2. AuditedEntries' = [i \in 1 .. n + 1 |-> audit'[i].entry_hash]
      BY <2>1, <2>2 DEF AuditedEntries
    <3>3. audit'[n + 1].entry_hash = cur /\ \A i \in 1 .. n : audit'[i] = audit[i]
      BY <2>1 DEF AuditRow
    <3>4. \A i \in 1 .. n : audit[i].entry_hash \in Entries
      BY <2>1 DEF Covered, Rows, VaultInv, RowsLinked
    <3>5. /\ AuditedEntries \in Seq(Entries) /\ Len(AuditedEntries) = n
          /\ \A i \in 1 .. n : AuditedEntries[i] = audit[i].entry_hash
      BY <2>1, <3>1, <3>4
    <3>6. /\ Append(AuditedEntries, cur) \in Seq(Entries)
          /\ Len(Append(AuditedEntries, cur)) = n + 1
          /\ \A i \in 1 .. n : Append(AuditedEntries, cur)[i] = audit[i].entry_hash
          /\ Append(AuditedEntries, cur)[n + 1] = cur
      BY <2>1, <3>5, AppendProperties
    <3>7. /\ AuditedEntries' \in Seq(Entries) /\ Len(AuditedEntries') = n + 1
          /\ \A i \in 1 .. n + 1 : AuditedEntries'[i] = audit'[i].entry_hash
      BY <2>1, <3>2, <3>3, <3>4
    <3>8. \A i \in 1 .. n + 1 : AuditedEntries'[i] = Append(AuditedEntries, cur)[i]
      BY <2>1, <3>3, <3>6, <3>7
    <3> QED BY <3>6, <3>7, <3>8, SeqEqual
  <2> QED BY <2>1, <2>3 DEF Log!Next, Log!Commit, Sealed
<1>11. ASSUME ApplyMessage \/ ApplyOther \/ ApplyTask \/ ApplyJoin PROVE [Log!Next]_(Log!avars)
  BY <1>3, <1>11 DEF ApplyMessage, ApplyOther, ApplyTask, ApplyJoin, SaveThen, files_vars
<1>12. ASSUME PutFile \/ UnlinkOthers \/ Finish PROVE [Log!Next]_(Log!avars)
  BY <1>3, <1>12 DEF PutFile, UnlinkOthers, Finish, SaveThen, files_vars
<1>13. ASSUME SaveState PROVE [Log!Next]_(Log!avars)
  <2>1. CASE then # "answer"
    <3>1. UNCHANGED <<ledger, audit, acked>> /\ pc' # "audit"
      BY <1>13, <2>1 DEF SaveState, VaultInv, TypeOK
    <3> QED BY <1>3, <3>1
  <2>2. CASE then = "answer"
    <3>1. /\ ~Sealed /\ acked' = acked \cup {cur} /\ pc' # "audit"
          /\ UNCHANGED <<ledger, audit>>
          /\ audit # <<>> /\ audit[Len(audit)].entry_hash = cur
          /\ VerifyAuditChain
      BY <1>13, <2>2 DEF SaveState, VaultInv, InFlightOK, Recorded, Sealed
    <3>2. ~Sealed' /\ AuditedEntries' = AuditedEntries
      BY <1>1, <1>2, <3>1 DEF Sealed
    <3>3. \A i \in 1 .. Len(audit) : audit[i] # TornRow
      BY <3>1, VerifyMeaning DEF VaultInv, Matched
    <3>4. Covered = Len(audit) /\ Len(audit) \in 1 .. Len(audit) /\ Len(audit) \in Nat
      BY <3>1, <3>3 DEF Covered, VaultInv, TypeOK
    <3>5. /\ Len(AuditedEntries) = Len(audit) /\ AuditedEntries # <<>>
          /\ AuditedEntries[Len(audit)] = cur
      <4>1. AuditedEntries = [i \in 1 .. Len(audit) |-> audit[i].entry_hash]
        BY <3>4 DEF AuditedEntries
      <4>2. \A i \in 1 .. Len(audit) : audit[i].entry_hash \in Entries
        BY <3>3 DEF VaultInv, TypeOK, Rows
      <4> QED BY <3>1, <3>4, <4>1, <4>2
    <3> QED BY <3>1, <3>2, <3>5 DEF Log!Next, Log!Answer, Sealed
  <2> QED BY <2>1, <2>2
<1>14. ASSUME Restart \/ WriteFails PROVE [Log!Next]_(Log!avars)
  <2>1. Interrupted /\ acked' = acked /\ pc' = "idle" /\ LeavesTornLine
    BY <1>14 DEF Restart, WriteFails, Interrupted
  <2>2. CASE UNCHANGED <<ledger, audit>>
    <3>1. UNCHANGED <<ledger, audit, acked>> /\ pc' # "audit"
      BY <2>1, <2>2
    <3> QED BY <1>3, <3>1
  <2>3. CASE pc = "ledger" /\ UNCHANGED audit
    BY <1>1, <2>1, <2>3, QuietStep DEF Sealed, VaultInv, InFlightOK
  <2>4. CASE pc = "audit" /\ audit' = Append(audit, TornRow)
    <3>1. Covered = Len(audit) /\ audit \in Seq(Rows \cup {TornRow})
      BY <2>4 DEF VaultInv, InFlightOK, TypeOK
    <3>2. /\ Len(audit') = Len(audit) + 1 /\ audit'[Len(audit) + 1] = TornRow
          /\ \A i \in 1 .. Len(audit) : audit'[i] = audit[i]
      BY <2>4, <3>1
    <3>3. Covered' = Len(audit)
      BY <3>1, <3>2 DEF Covered
    <3>4. AuditedEntries' = AuditedEntries
      BY <3>1, <3>2, <3>3 DEF AuditedEntries
    <3> QED BY <2>1, <2>4, <3>4, QuietStep DEF Sealed
  <2> QED BY <2>1, <2>2, <2>3, <2>4 DEF LeavesTornLine
<1>15. ASSUME DamageLedger PROVE [Log!Next]_(Log!avars)
  <2>1. Sealed' /\ audit' = audit /\ acked' = acked
    BY <1>15 DEF DamageLedger, Sealed, VaultInv, DamageDetected, call_vars
  <2> QED BY <1>1, <2>1, QuietStep
<1>16. ASSUME UNCHANGED vars PROVE [Log!Next]_(Log!avars)
  BY <1>1, <1>2, <1>16, QuietStep DEF vars, Sealed
<1> QED
  BY <1>5, <1>6, <1>7, <1>8, <1>9, <1>10, <1>11, <1>12, <1>13, <1>14, <1>15, <1>16, <1>4
     DEF Next, Calls, Steps

\* append_event over its two files, with crashes, failed writes and damaged
\* lines, is the append-only log of AuditedLog: what was answered "ok" was
\* committed last at that moment, and a sealed log takes no entry again.
THEOREM VaultImplementsLog == Spec => ImplementsAuditedLog
<1>1. Init => Log!Init
  <2> SUFFICES ASSUME Init PROVE Log!Init
    OBVIOUS
  <2>1. Covered = 0 /\ pc = "idle" /\ acked = {}
    BY DEF Init, Covered
  <2>2. AuditedEntries = <<>>
    BY <2>1 DEF AuditedEntries
  <2>3. VerifyAuditChain
    BY DEF Init, VerifyAuditChain, AuditLines
  <2> QED BY <2>1, <2>2, <2>3 DEF Log!Init
<1> QED BY <1>1, LogStep, VaultInvariant, PTL DEF Spec, ImplementsAuditedLog, Log!Spec

-----------------------------------------------------------------------------
(* The lists of the state: messages that grow, buckets that hold a task    *)
(* once.                                                                   *)

Ascending(s) == \A i, j \in 1 .. Len(s) : i < j => s[i] < s[j]
Below(s, b) == \A i \in 1 .. Len(s) : s[i] < b
Has(s, x) == \E i \in 1 .. Len(s) : s[i] = x
Distinct(s) == \A i, j \in 1 .. Len(s) : s[i] = s[j] => i = j

\* A message is in the state, or KeepLast newer ones are.
Shown(s, id) == Has(s, id) \/ (Len(s) = KeepLast /\ \A i \in 1 .. Len(s) : s[i] > id)

\* What Newest keeps of a sequence that is not empty: all but the first d elements.
Dropped(a) == IF Len(a) > KeepLast THEN Len(a) - KeepLast ELSE 0

LEMMA NewestPlaces ==
  ASSUME NEW S, NEW a \in Seq(S), a # <<>>
  PROVE  /\ Dropped(a) \in Nat /\ Dropped(a) < Len(a) /\ Newest(a) \in Seq(S)
         /\ Len(Newest(a)) = Len(a) - Dropped(a) /\ Len(Newest(a)) <= KeepLast
         /\ Dropped(a) > 0 => Len(Newest(a)) = KeepLast
         /\ \A i \in 1 .. Len(Newest(a)) : Newest(a)[i] = a[i + Dropped(a)]
<1>0. PICK d, r : d = Dropped(a) /\ r = Newest(a)
  OBVIOUS
<1>1. CASE Len(a) > KeepLast
  <2>1. d = Len(a) - KeepLast /\ d > 0 /\ d \in Nat /\ d < Len(a)
    BY <1>0, <1>1 DEF Dropped
  <2>2. d + 1 \in 1 .. Len(a) + 1 /\ Len(a) \in d + 1 - 1 .. Len(a)
    BY <2>1
  <2>3. r = SubSeq(a, d + 1, Len(a))
    BY <1>0, <1>1, <2>1 DEF Newest
  <2>4. /\ Len(r) = Len(a) - (d + 1) + 1
        /\ \A i \in 1 .. Len(a) - (d + 1) + 1 : r[i] = a[d + 1 + i - 1]
    BY <2>2, <2>3, SubSeqProperties
  <2>5. Len(r) = Len(a) - d /\ Len(r) = KeepLast /\ Len(r) <= KeepLast
    BY <2>1, <2>4
  <2>6. ASSUME NEW i \in 1 .. Len(r) PROVE r[i] = a[i + d]
    <3>1. d + 1 + i - 1 = i + d /\ i \in 1 .. Len(a) - (d + 1) + 1
      BY <2>1, <2>4
    <3> QED BY <2>4, <3>1
  <2>7. r \in Seq(S)
    BY <1>0, NewestType
  <2> QED BY <1>0, <2>1, <2>5, <2>6, <2>7
<1>2. CASE ~(Len(a) > KeepLast)
  <2>1. r = a /\ d = 0
    BY <1>0, <1>2 DEF Newest, Dropped
  <2>2. Len(a) \in Nat /\ Len(a) > 0 /\ Len(a) <= KeepLast
    BY <1>2
  <2> QED BY <1>0, <2>1, <2>2
<1> QED BY <1>1, <1>2

\* A message newer than all others is shown, and the others are or are followed by
\* KeepLast newer ones.
LEMMA NewestShows ==
  ASSUME NEW s \in Seq(Ids), Ascending(s), NEW c \in Ids, Below(s, c),
         NEW a \in Seq(Ids), Len(a) = Len(s) + 1, a[Len(s) + 1] = c,
         \A i \in 1 .. Len(s) : a[i] = s[i]
  PROVE  /\ Ascending(Newest(a)) /\ Shown(Newest(a), c)
         /\ \A b \in Nat : c < b => Below(Newest(a), b)
         /\ \A id \in Ids : Shown(s, id) => Shown(Newest(a), id)
<1>1. PICK d, r : d = Dropped(a) /\ r = Newest(a)
  OBVIOUS
<1>2. /\ a # <<>> /\ Len(s) \in Nat
      /\ \A i \in 1 .. Len(s) : s[i] \in Ids /\ s[i] < c
  BY DEF Below
<1>3. /\ d \in Nat /\ d < Len(a) /\ r \in Seq(Ids)
      /\ Len(r) = Len(a) - d /\ Len(r) <= KeepLast /\ (d > 0 => Len(r) = KeepLast)
      /\ \A i \in 1 .. Len(r) : r[i] = a[i + d]
  BY <1>1, <1>2, NewestPlaces
<1>4. \A i \in 1 .. Len(r) :
        /\ i + d \in 1 .. Len(s) + 1
        /\ i + d <= Len(s) => r[i] = s[i + d]
        /\ i + d = Len(s) + 1 => r[i] = c
        /\ i + d <= Len(s) \/ i + d = Len(s) + 1
  <2> TAKE i \in 1 .. Len(r)
  <2>1. r[i] = a[i + d]
    BY <1>3
  <2>2. Len(r) \in Nat /\ Len(a) \in Nat /\ i \in Nat
    BY <1>2, <1>3
  <2>3. i + d \in 1 .. Len(s) + 1 /\ (i + d <= Len(s) \/ i + d = Len(s) + 1)
    <3>1. i >= 1 /\ i <= Len(s) + 1 - d
      BY <1>3
    <3>2. i \in Nat /\ d \in Nat /\ Len(s) \in Nat
      BY <1>2, <1>3, <2>2
    <3> QED BY <3>1, <3>2
  <2>4. i + d <= Len(s) => i + d \in 1 .. Len(s)
    BY <1>2, <2>3
  <2> QED BY <1>2, <2>1, <2>3, <2>4
<1>5. Ascending(r)
  <2> SUFFICES ASSUME NEW i \in 1 .. Len(r), NEW j \in 1 .. Len(r), i < j PROVE r[i] < r[j]
    BY DEF Ascending
  <2>1. i + d \in 1 .. Len(s) /\ i + d < j + d
    <3>1. i \in Nat /\ j \in Nat /\ d \in Nat /\ Len(s) \in Nat
      BY <1>2, <1>3
    <3>2. i + d >= 1 /\ j + d <= Len(s) + 1
      BY <1>4, <3>1
    <3> QED BY <3>1, <3>2
  <2>2. CASE j + d = Len(s) + 1
    BY <1>2, <1>3, <1>4, <2>1, <2>2
  <2>3. CASE j + d <= Len(s)
    <3>1. j + d \in 1 .. Len(s)
      BY <1>2, <1>3, <1>4, <2>3
    <3> QED BY <1>4, <2>1, <2>3, <3>1 DEF Ascending
  <2> QED BY <1>4, <2>2, <2>3
<1>6. Has(r, c)
  <2>1. Len(r) \in 1 .. Len(r) /\ Len(r) + d = Len(s) + 1
    BY <1>2, <1>3
  <2> QED BY <1>4, <2>1 DEF Has
<1>7. ASSUME NEW b \in Nat, c < b PROVE Below(r, b)
  <2> SUFFICES ASSUME NEW i \in 1 .. Len(r) PROVE r[i] < b
    BY DEF Below
  <2>1. CASE i + d = Len(s) + 1
    BY <1>4, <1>7, <2>1
  <2>2. CASE i + d <= Len(s)
    <3>0. i + d \in 1 .. Len(s)
      BY <1>2, <1>4, <2>2
    <3>1. s[i + d] \in Nat /\ s[i + d] < c /\ c \in Nat
      BY <1>2, <3>0 DEF Ids
    <3> QED BY <1>4, <1>7, <2>2, <3>1
  <2> QED BY <1>4, <2>1, <2>2
<1>8. ASSUME NEW id \in Ids, Shown(s, id) PROVE Shown(r, id)
  <2>1. CASE \A i \in 1 .. Len(r) : r[i] > id
    <3>1. CASE d > 0
      BY <1>2, <1>3, <2>1, <3>1 DEF Shown
    <3>2. CASE d = 0
      <4>1. ~Has(s, id)
        <5>1. \A i \in 1 .. Len(s) : i \in 1 .. Len(r) /\ i + d <= Len(s) /\ i + d = i
          BY <1>2, <1>3, <3>2
        <5>2. \A i \in 1 .. Len(s) : s[i] > id
          BY <1>4, <2>1, <5>1
        <5>3. \A x, y \in Nat : x > y => x # y
          OBVIOUS
        <5>4. id \in Nat /\ \A i \in 1 .. Len(s) : s[i] \in Nat
          BY <1>2 DEF Ids
        <5> QED BY <5>2, <5>3, <5>4 DEF Has
      <4>2. Len(s) = KeepLast
        BY <1>8, <4>1 DEF Shown
      <4> QED BY <1>2, <1>3, <4>1, <4>2, <3>2
    <3> QED BY <1>2, <1>3, <3>1, <3>2
  <2>2. CASE Has(s, id)
    <3>1. PICK k \in 1 .. Len(s) : s[k] = id
      BY <2>2 DEF Has
    <3>2. CASE k > d
      <4>1. PICK i \in 1 .. Len(r) : i + d = k
        <5>1. k - d \in 1 .. Len(r) /\ (k - d) + d = k
          BY <1>2, <1>3, <3>2
        <5> QED BY <5>1
      <4>2. r[i] = id
        BY <1>2, <1>3, <1>4, <3>1, <4>1
      <4> QED BY <4>2 DEF Shown, Has
    <3>3. CASE k <= d
      <4>1. ASSUME NEW i \in 1 .. Len(r) PROVE r[i] > id
        <5>1. CASE i + d = Len(s) + 1
          BY <1>2, <1>3, <1>4, <3>1, <5>1 DEF Ids
        <5>2. CASE i + d <= Len(s)
          <6>1. i + d \in 1 .. Len(s) /\ k < i + d
            BY <1>2, <1>3, <1>4, <3>3, <5>2
          <6> QED BY <1>2, <1>3, <1>4, <3>1, <5>2, <6>1 DEF Ascending, Ids
        <5> QED BY <1>4, <5>1, <5>2
      <4> QED BY <2>1, <4>1
    <3> QED BY <1>2, <1>3, <3>2, <3>3
  <2>3. CASE Len(s) = KeepLast /\ \A i \in 1 .. Len(s) : s[i] > id
    <3>1. 1 \in 1 .. Len(s) /\ c > id
      BY <1>2, <1>3, <2>3 DEF Ids
    <3>2. \A i \in 1 .. Len(r) : r[i] > id
      BY <1>2, <1>3, <1>4, <2>3, <3>1
    <3> QED BY <2>1, <3>2
  <2> QED BY <1>8, <2>2, <2>3 DEF Shown
<1> QED BY <1>1, <1>5, <1>6, <1>7, <1>8 DEF Shown

\* Where the elements go when one is taken out.
LEMMA TakeOutElements ==
  ASSUME NEW S, NEW s \in Seq(S), NEW i \in 1 .. Len(s),
         NEW r, r = SubSeq(s, 1, i - 1) \o SubSeq(s, i + 1, Len(s))
  PROVE  /\ Len(r) = Len(s) - 1
         /\ \A j \in 1 .. Len(s) - 1 : r[j] = s[IF j < i THEN j ELSE j + 1]
<1>1. PICK a, b : a = SubSeq(s, 1, i - 1) /\ b = SubSeq(s, i + 1, Len(s))
  OBVIOUS
<1>2. a \in Seq(S) /\ Len(a) = i - 1 /\ \A j \in 1 .. i - 1 : a[j] = s[j]
  <2>1. 1 \in Int /\ i - 1 \in Int /\ \A j \in 1 .. i - 1 : s[j] \in S
    OBVIOUS
  <2> QED BY <1>1, <2>1, SubSeqProperties
<1>3. b \in Seq(S) /\ Len(b) = Len(s) - i /\ \A j \in 1 .. Len(s) - i : b[j] = s[i + j]
  <2>1. i + 1 \in Int /\ Len(s) \in Int /\ \A j \in i + 1 .. Len(s) : s[j] \in S
    OBVIOUS
  <2> QED BY <1>1, <2>1, SubSeqProperties
<1>4. r = a \o b
  BY <1>1
<1>5. /\ Len(r) = Len(a) + Len(b)
      /\ \A j \in 1 .. Len(a) + Len(b) : r[j] = IF j <= Len(a) THEN a[j] ELSE b[j - Len(a)]
  <2>1. a \in Seq(S) /\ b \in Seq(S)
    BY <1>2, <1>3
  <2> QED BY <1>4, <2>1, ConcatProperties, Zenon
<1>6. Len(a) + Len(b) = Len(s) - 1
  BY <1>2, <1>3
<1>7. ASSUME NEW j \in 1 .. Len(s) - 1 PROVE r[j] = s[IF j < i THEN j ELSE j + 1]
  <2>1. CASE j < i
    <3>1. j \in 1 .. i - 1 /\ j <= Len(a) /\ j \in 1 .. Len(a) + Len(b)
      BY <1>2, <1>6, <2>1
    <3> QED BY <1>2, <1>5, <2>1, <3>1
  <2>2. CASE ~(j < i)
    <3>1. PICK k \in 1 .. Len(s) - i : k = j - (i - 1)
      BY <2>2
    <3>2. ~(j <= Len(a)) /\ j - Len(a) = k /\ i + k = j + 1
      BY <1>2, <2>2, <3>1
    <3>3. r[j] = b[k]
      BY <1>5, <1>6, <3>2
    <3>4. b[k] = s[j + 1]
      BY <1>3, <3>1, <3>2
    <3> QED BY <2>2, <3>3, <3>4
  <2> QED BY <2>1, <2>2
<1> QED BY <1>5, <1>6, <1>7

\* The bucket filtered of a task that it lists at most once does not list it.
LEMMA WithoutHas ==
  ASSUME NEW S, NEW s \in Seq(S), Distinct(s), NEW t
  PROVE  /\ Without(s, t) \in Seq(S) /\ Distinct(Without(s, t)) /\ ~Has(Without(s, t), t)
         /\ \A u : Has(Without(s, t), u) => Has(s, u)
<1>0. Without(s, t) \in Seq(S)
  BY WithoutType
<1>1. CASE ~Has(s, t)
  BY <1>0, <1>1 DEF Without, Has
<1>2. CASE Has(s, t)
  <2>1. PICK i \in 1 .. Len(s) : i = (CHOOSE j \in 1 .. Len(s) : s[j] = t) /\ s[i] = t
    BY <1>2 DEF Has
  <2>2. PICK r : r = SubSeq(s, 1, i - 1) \o SubSeq(s, i + 1, Len(s))
    OBVIOUS
  <2>3. Without(s, t) = r
    BY <1>2, <2>1, <2>2 DEF Without, Has
  <2>4. /\ Len(r) = Len(s) - 1
        /\ \A j \in 1 .. Len(s) - 1 : r[j] = s[IF j < i THEN j ELSE j + 1]
    BY <2>2, TakeOutElements
  <2>5. \A j \in 1 .. Len(r) : \E k \in 1 .. Len(s) :
          k # i /\ r[j] = s[k] /\ k = IF j < i THEN j ELSE j + 1
    BY <2>4
  <2>6. ~Has(r, t) /\ \A u : Has(r, u) => Has(s, u)
    BY <2>1, <2>5 DEF Has, Distinct
  <2>7. Distinct(r)
    <3> SUFFICES ASSUME NEW j \in 1 .. Len(r), NEW m \in 1 .. Len(r), r[j] = r[m] PROVE j = m
      BY DEF Distinct
    <3>1. PICK k \in 1 .. Len(s) : r[j] = s[k] /\ k = IF j < i THEN j ELSE j + 1
      BY <2>5
    <3>2. PICK l \in 1 .. Len(s) : r[m] = s[l] /\ l = IF m < i THEN m ELSE m + 1
      BY <2>5
    <3>3. k = l
      BY <3>1, <3>2 DEF Distinct
    <3>4. j \in Nat /\ m \in Nat
      BY <2>4
    <3> QED BY <3>1, <3>2, <3>3, <3>4
  <2> QED BY <1>0, <2>3, <2>6, <2>7
<1> QED BY <1>1, <1>2

\* What a bucket lists after the task is appended to it, and cut to its newest.
LEMMA NewestHas ==
  ASSUME NEW S, NEW s \in Seq(S), Distinct(s), NEW t \in S, ~Has(s, t),
         NEW a \in Seq(S), Len(a) = Len(s) + 1, a[Len(s) + 1] = t,
         \A i \in 1 .. Len(s) : a[i] = s[i]
  PROVE  Distinct(Newest(a)) /\ \A u : Has(Newest(a), u) => Has(s, u) \/ u = t
<1>1. PICK d, r : d = Dropped(a) /\ r = Newest(a)
  OBVIOUS
<1>2. a # <<>> /\ Len(s) \in Nat
  OBVIOUS
<1>3. /\ d \in Nat /\ d < Len(a) /\ r \in Seq(S) /\ Len(r) = Len(a) - d
      /\ \A i \in 1 .. Len(r) : r[i] = a[i + d]
  BY <1>1, <1>2, NewestPlaces
<1>4. \A i \in 1 .. Len(a) : i \in 1 .. Len(s) \/ i = Len(s) + 1
  BY <1>2
<1>5. Distinct(a) /\ \A u : Has(a, u) => Has(s, u) \/ u = t
  BY <1>4 DEF Distinct, Has
<1>6. \A i \in 1 .. Len(r) : i + d \in 1 .. Len(a) /\ i \in Nat
  BY <1>2, <1>3
<1>7. \A u : Has(r, u) => Has(a, u)
  BY <1>3, <1>6 DEF Has
<1>8. Distinct(r)
  <2> SUFFICES ASSUME NEW i \in 1 .. Len(r), NEW j \in 1 .. Len(r), r[i] = r[j] PROVE i = j
    BY DEF Distinct
  <2>1. i + d = j + d
    BY <1>3, <1>5, <1>6 DEF Distinct
  <2> QED BY <1>3, <1>6, <2>1
<1> QED BY <1>1, <1>5, <1>7, <1>8

\* upsert_task: the task is in its bucket alone, and no other task is in a new one.
LEMMA WithTaskHas ==
  ASSUME NEW st \in States, \A s \in Statuses : Distinct(st.tasks[s]),
         NEW t \in TaskIds, NEW status \in Statuses, NEW s \in Statuses
  PROVE  /\ Distinct(WithTask(st, t, status).tasks[s])
         /\ Has(WithTask(st, t, status).tasks[s], t) => s = status
         /\ \A u : u # t /\ Has(WithTask(st, t, status).tasks[s], u) => Has(st.tasks[s], u)
<1>1. PICK w : w = Without(st.tasks[s], t)
  OBVIOUS
<1>2. /\ w \in Seq(TaskIds) /\ Distinct(w) /\ ~Has(w, t)
      /\ \A u : Has(w, u) => Has(st.tasks[s], u)
  <2>1. st.tasks[s] \in Seq(TaskIds)
    BY DEF States
  <2> QED BY <1>1, <2>1, WithoutHas
<1>3. PICK a : a = Append(w, t)
  OBVIOUS
<1>4. /\ a \in Seq(TaskIds) /\ Len(a) = Len(w) + 1 /\ a[Len(w) + 1] = t
      /\ \A i \in 1 .. Len(w) : a[i] = w[i]
  BY <1>2, <1>3
<1>5. WithTask(st, t, status).tasks[s] = IF s = status THEN Newest(a) ELSE w
  BY <1>1, <1>3 DEF WithTask, States
<1>6. Distinct(Newest(a)) /\ \A u : Has(Newest(a), u) => Has(w, u) \/ u = t
  BY <1>2, <1>4, NewestHas
<1> QED BY <1>2, <1>5, <1>6

-----------------------------------------------------------------------------
(* What was answered "ok" lasts.                                           *)

\* An append whose effect is in the memory and that is still to be answered.
Answering == pc = "finish" \/ (pc = "save" /\ then \in {"finish", "answer"})

\* The messages of the state are in the order of the ledger, the entry in flight is
\* newer than all of them until it is applied, and what was answered is shown.
MessagesInv ==
  /\ Ascending(mem.messages) /\ Ascending(disk.messages)
  /\ Below(mem.messages, nextId) /\ Below(disk.messages, nextId)
  /\ pc \in {"ledger", "audit", "apply"} => cur.id < nextId /\ Below(mem.messages, cur.id)
  /\ \A e \in acked : e.ev.op = "message" =>
       Shown(mem.messages, e.id) /\ Shown(disk.messages, e.id)
  /\ Answering /\ cur.ev.op = "message" => Shown(mem.messages, cur.id)

\* A bound that grows is still one.
LEMMA BelowMore ==
  ASSUME NEW s \in Seq(Ids), NEW b \in Nat, NEW c \in Nat, b <= c, Below(s, b)
  PROVE  Below(s, c)
BY DEF Below, Ids

\* The updates of a state leave its other lists alone.
LEMMA ListsFrame ==
  ASSUME NEW st \in States
  PROVE  /\ \A t, s : WithTask(st, t, s).messages = st.messages
         /\ \A id : WithMessage(st, id).tasks = st.tasks
         /\ \A id : WithMessage(st, id).messages = Newest(Append(st.messages, id))
         /\ \A n \in Nodes : \A s : WithNode(st, n, s).messages = st.messages
         /\ \A n \in Nodes : \A s : WithNode(st, n, s).tasks = st.tasks
         /\ \A b : [st EXCEPT !.audit_tampered = b].messages = st.messages
         /\ \A b : [st EXCEPT !.audit_tampered = b].tasks = st.tasks
  BY DEF WithTask, WithMessage, WithNode, States

\* MessagesInv is preserved.
LEMMA MessagesStep ==
  ASSUME VaultInv, MessagesInv, [Next]_vars
  PROVE  MessagesInv'
<1>1. /\ TypeOK /\ mem \in States /\ disk \in States /\ nextId \in Nat
      /\ mem.messages \in Seq(Ids) /\ disk.messages \in Seq(Ids)
  BY DEF VaultInv, TypeOK, States
<1>2. ASSUME mem'.messages = mem.messages, disk' = disk, acked' = acked, nextId' = nextId,
             pc' \in {"ledger", "audit", "apply"} =>
               pc \in {"ledger", "audit", "apply"} /\ cur' = cur,
             Answering' => (Answering /\ cur' = cur) \/ cur'.ev.op # "message"
      PROVE  MessagesInv'
  BY <1>2 DEF MessagesInv
<1>3. ASSUME NEW ev \in Events, EnsureAuditClean(ev), UNCHANGED <<disk, acked>>
      PROVE  MessagesInv'
  <2>1. CASE VerifyAuditChain
    <3>1. /\ pc' = "ledger" /\ mem' = mem /\ cur'.id = nextId /\ nextId' = nextId + 1
      BY <1>3, <2>1 DEF EnsureAuditClean
    <3>2. Below(mem.messages, nextId') /\ Below(disk.messages, nextId') /\ cur'.id < nextId'
      BY <1>1, <3>1, BelowMore DEF MessagesInv
    <3> QED BY <1>3, <3>1, <3>2 DEF MessagesInv, Answering
  <2>2. CASE ~VerifyAuditChain
    <3>1. /\ mem'.messages = mem.messages /\ pc' = "save" /\ then' = "idle" /\ nextId' = nextId
      BY <1>1, <1>3, <2>2 DEF EnsureAuditClean, SaveThen, States
    <3> QED BY <1>2, <1>3, <3>1 DEF Answering
  <2> QED BY <2>1, <2>2
<1>4. ASSUME NEW ev \in Events, Relay(ev) PROVE MessagesInv'
  BY <1>3, <1>4 DEF Relay, files_vars
<1>5. ASSUME Check PROVE MessagesInv'
  <2>1. cur.ev \in Events
    BY <1>5 DEF Check, VaultInv, CallOK, Entries
  <2> QED BY <1>3, <1>5, <2>1 DEF Check, files_vars
<1>6. ASSUME NEW t \in TaskIds, NEW st \in Statuses, PutTask(t, st) PROVE MessagesInv'
  <2>1. mem'.messages = mem.messages
    <3>1. WithTask(mem, t, st).messages = mem.messages
      BY <1>1, ListsFrame
    <3>2. mem' = WithTask(mem, t, st) \/ mem' = [mem EXCEPT !.audit_tampered = TRUE]
      BY <1>6 DEF PutTask
    <3>3. [mem EXCEPT !.audit_tampered = TRUE].messages = mem.messages
      BY <1>1, ListsFrame
    <3> QED BY <3>1, <3>2, <3>3
  <2>2. pc' = "put" \/ (pc' = "save" /\ then' = "idle")
    BY <1>6 DEF PutTask, SaveThen
  <2> QED BY <1>2, <1>6, <2>1, <2>2 DEF PutTask, Answering, files_vars
<1>7. ASSUME NEW n \in Nodes, RegisterNode(n) \/ RevokeNode(n) PROVE MessagesInv'
  <2>1. mem'.messages = mem.messages
    <3>1. mem' = WithNode(mem, n, "active") \/ mem' = WithNode(mem, n, "revoked")
      BY <1>7 DEF RegisterNode, RevokeNode
    <3>2. WithNode(mem, n, "active").messages = mem.messages
      BY <1>1, ListsFrame
    <3>3. WithNode(mem, n, "revoked").messages = mem.messages
      BY <1>1, ListsFrame
    <3> QED BY <3>1, <3>2, <3>3
  <2> QED BY <1>2, <1>7, <2>1 DEF RegisterNode, RevokeNode, SaveThen, Answering, files_vars
<1>8. ASSUME TouchNode \/ AuditStatus PROVE MessagesInv'
  <2>1. mem'.messages = mem.messages
    BY <1>1, <1>8 DEF TouchNode, AuditStatus, States
  <2> QED BY <1>2, <1>8, <2>1
          DEF TouchNode, AuditStatus, SaveThen, Answering, files_vars, call_vars
<1>9. ASSUME LedgerAppend \/ AuditAppend PROVE MessagesInv'
  BY <1>2, <1>9 DEF LedgerAppend, AuditAppend, Answering
<1>10. ASSUME ApplyMessage PROVE MessagesInv'
  <2>1. /\ cur.id \in Ids /\ Below(mem.messages, cur.id) /\ cur.id < nextId /\ pc' = "finish"
        /\ UNCHANGED <<disk, acked, nextId, cur>>
    BY <1>10 DEF ApplyMessage, MessagesInv, VaultInv, CallOK, Entries, files_vars
  <2>2. PICK a \in Seq(Ids) :
          /\ mem'.messages = Newest(a)
          /\ Len(a) = Len(mem.messages) + 1
          /\ a[Len(mem.messages) + 1] = cur.id
          /\ \A i \in 1 .. Len(mem.messages) : a[i] = mem.messages[i]
    <3>1. mem'.messages = Newest(Append(mem.messages, cur.id))
      BY <1>1, <1>10, ListsFrame DEF ApplyMessage
    <3>2. PICK a : a = Append(mem.messages, cur.id)
      OBVIOUS
    <3>3. /\ a \in Seq(Ids) /\ Len(a) = Len(mem.messages) + 1
          /\ a[Len(mem.messages) + 1] = cur.id
          /\ \A i \in 1 .. Len(mem.messages) : a[i] = mem.messages[i]
      BY <1>1, <2>1, <3>2
    <3>4. mem'.messages = Newest(a)
      BY <3>1, <3>2
    <3> QED BY <3>3, <3>4
  <2>3. ASSUME NEW m \in Seq(Ids), m = mem.messages, NEW c \in Ids, c = cur.id, NEW b \in Seq(Ids),
                Len(b) = Len(m) + 1, b[Len(m) + 1] = c, \A i \in 1 .. Len(m) : b[i] = m[i]
         PROVE  /\ Ascending(Newest(b)) /\ Shown(Newest(b), c) /\ Below(Newest(b), nextId)
                /\ \A id \in Ids : Shown(m, id) => Shown(Newest(b), id)
    <3>1. Ascending(m) /\ Below(m, c) /\ nextId \in Nat /\ c < nextId
      BY <1>1, <2>1, <2>3 DEF MessagesInv
    <3>2. /\ Ascending(Newest(b)) /\ Shown(Newest(b), c)
          /\ \A x \in Nat : c < x => Below(Newest(b), x)
          /\ \A id \in Ids : Shown(m, id) => Shown(Newest(b), id)
      BY <2>3, <3>1, NewestShows
    <3> QED BY <3>1, <3>2
  <2>4. /\ Ascending(Newest(a)) /\ Shown(Newest(a), cur.id) /\ Below(Newest(a), nextId)
        /\ \A id \in Ids : Shown(mem.messages, id) => Shown(Newest(a), id)
    BY <1>1, <2>1, <2>2, <2>3
  <2>5. \A e \in acked : e.id \in Ids
    BY <1>1 DEF TypeOK, Entries
  <2> QED BY <2>1, <2>2, <2>4, <2>5 DEF MessagesInv
<1>11. ASSUME ApplyTask PROVE MessagesInv'
  <2>1. mem'.messages = mem.messages
    BY <1>1, <1>11, ListsFrame DEF ApplyTask
  <2> QED BY <1>2, <1>11, <2>1 DEF ApplyTask, Answering, files_vars
<1>12. ASSUME ApplyJoin \/ ApplyOther PROVE MessagesInv'
  <2>1. mem'.messages = mem.messages
    <3>1. cur.ev.op = "join" /\ pc = "apply" => cur.ev.node \in Nodes
      BY DEF VaultInv, CallOK, Entries, Events, TaskEvents, Messages, Joins, Others
    <3> QED BY <1>1, <1>12, <3>1, ListsFrame DEF ApplyJoin, ApplyOther
  <2> QED BY <1>2, <1>12, <2>1 DEF ApplyJoin, ApplyOther, Answering, SaveThen, files_vars
<1>13. ASSUME PutFile \/ UnlinkOthers PROVE MessagesInv'
  <2>1. cur.ev.op # "message"
    BY <1>13 DEF PutFile, UnlinkOthers, VaultInv, CallOK, TaskEvents
  <2> QED BY <1>2, <1>13, <2>1 DEF PutFile, UnlinkOthers, Answering
<1>14. ASSUME Finish PROVE MessagesInv'
  <2>1. mem'.messages = mem.messages
    BY <1>1, <1>14 DEF Finish, States
  <2> QED BY <1>2, <1>14, <2>1 DEF Finish, Answering, SaveThen, files_vars
<1>15. ASSUME SaveState PROVE MessagesInv'
  <2>1. /\ disk' = mem /\ mem' = mem /\ nextId' = nextId /\ cur' = cur
        /\ pc' \notin {"ledger", "audit", "apply"}
        /\ Answering' => Answering
        /\ \A e \in acked' : e \in acked \/ (e = cur /\ Answering)
    BY <1>1, <1>15 DEF SaveState, TypeOK, Answering
  <2> QED BY <2>1 DEF MessagesInv
<1>16. ASSUME Restart \/ WriteFails PROVE MessagesInv'
  <2>1. /\ mem' = mem \/ mem' = disk
        /\ UNCHANGED <<disk, acked, nextId>> /\ pc' = "idle"
    BY <1>16 DEF Restart, WriteFails, Interrupted
  <2> QED BY <2>1 DEF MessagesInv, Answering
<1>17. ASSUME DamageLedger PROVE MessagesInv'
  BY <1>2, <1>17 DEF DamageLedger, Answering, call_vars
<1>18. ASSUME UNCHANGED vars PROVE MessagesInv'
  BY <1>2, <1>18 DEF vars, Answering
<1> QED
  BY <1>4, <1>5, <1>6, <1>7, <1>8, <1>9, <1>10, <1>11, <1>12, <1>13, <1>14, <1>15, <1>16, <1>17,
     <1>18 DEF Next, Calls, Steps

\* Which events a task, a join and a message are.
LEMMA EventTypes ==
  ASSUME NEW e \in Entries
  PROVE  /\ e.ev.op = "join" => e.ev.node \in Nodes
         /\ e.ev.op = "task" => e.ev \in TaskEvents /\ e.ev.task \in TaskIds
         /\ e.ev \in TaskEvents => e.ev.op = "task" /\ e.ev.task \in TaskIds
  BY DEF Entries, Events, TaskEvents, Messages, Joins, Others

\* A node that has joined stays known: what is in state.json is in the memory, and
\* a join is in the memory when it is answered.
NodesInv ==
  /\ \A n \in Nodes : disk.nodes[n] # "absent" => mem.nodes[n] # "absent"
  /\ \A e \in acked : e.ev.op = "join" => disk.nodes[e.ev.node] # "absent"
  /\ Answering /\ cur.ev.op = "join" => mem.nodes[cur.ev.node] # "absent"

\* A task of which an upsert was answered, or is to be, has a file.
FilesInv ==
  /\ \A e \in acked : e.ev.op = "task" => files[e.ev.task] # {}
  /\ Answering /\ cur.ev.op = "task" => files[cur.ev.task] # {}

\* An entry is answered by the save of append_event, and by nothing else.
LEMMA AckedStep ==
  ASSUME TypeOK, [Next]_vars
  PROVE  \/ acked' = acked
         \/ SaveState /\ then = "answer" /\ acked' = acked \cup {cur} /\ Answering
<1>1. CASE SaveState
  BY <1>1 DEF SaveState, Answering
<1>2. CASE ~SaveState
  BY <1>2 DEF Next, Calls, Steps, vars, Relay, PutTask, RegisterNode, RevokeNode, TouchNode, AuditStatus,
     Check, LedgerAppend, AuditAppend, ApplyMessage, ApplyTask, ApplyJoin, ApplyOther, PutFile,
     UnlinkOthers, Finish, Restart, WriteFails, Interrupted, DamageLedger
<1> QED BY <1>1, <1>2

\* An append comes to its answer from the step that applied it, a task's from the
\* save of its upsert_task.
LEMMA AnsweringStep ==
  ASSUME VaultInv, [Next]_vars, Answering'
  PROVE  /\ cur' = cur /\ cur \in Entries
         /\ \/ Answering
            \/ pc = "apply" /\ (ApplyMessage \/ ApplyJoin \/ ApplyOther)
            \/ pc = "unlink" /\ cur.ev \in TaskEvents /\ UnlinkOthers
<1>1. CASE Calls \/ Check
  BY <1>1 DEF Calls, Answering, Relay, PutTask, RegisterNode, RevokeNode, TouchNode, AuditStatus,
     Check, EnsureAuditClean, SaveThen, call_vars
<1>2. CASE Steps /\ ~Check
  BY <1>2 DEF Steps, Answering, SaveThen, LedgerAppend, AuditAppend, ApplyMessage, ApplyTask, ApplyJoin,
     ApplyOther, PutFile, UnlinkOthers, Finish, SaveState, VaultInv, CallOK
<1>3. CASE Restart \/ WriteFails \/ DamageLedger \/ UNCHANGED vars
  BY <1>3 DEF Restart, WriteFails, Interrupted, DamageLedger, vars, call_vars, Answering, VaultInv, CallOK
<1> QED BY <1>1, <1>2, <1>3 DEF Next

\* No step but a restart forgets a node, and state.json is written from the memory.
LEMMA NodesGrow ==
  ASSUME VaultInv, [Next]_vars
  PROVE  /\ disk' = disk \/ (disk' = mem /\ mem' = mem)
         /\ \/ \A n \in Nodes : mem.nodes[n] # "absent" => mem'.nodes[n] # "absent"
            \/ mem' = disk /\ disk' = disk /\ ~Answering'
<1> DEFINE Kept == \A n \in Nodes : mem.nodes[n] # "absent" => mem'.nodes[n] # "absent"
<1>1. mem \in States
  BY DEF VaultInv, TypeOK
<1>2. disk' = disk \/ (disk' = mem /\ mem' = mem)
  BY DEF Next, Calls, Steps, vars, files_vars, Relay, PutTask, RegisterNode, RevokeNode, TouchNode,
     AuditStatus, Check, LedgerAppend, AuditAppend, ApplyMessage, ApplyTask, ApplyJoin, ApplyOther,
     PutFile, UnlinkOthers, Finish, SaveState, Restart, WriteFails, Interrupted, DamageLedger
<1>3. ASSUME mem'.nodes = mem.nodes PROVE Kept
  BY <1>3
<1>3b. ASSUME NEW b, mem' = [mem EXCEPT !.audit_tampered = b] PROVE Kept
  BY <1>1, <1>3, <1>3b, UpdatesFrame
<1>4. ASSUME NEW n \in Nodes, NEW s \in {"active", "revoked"}, mem' = WithNode(mem, n, s) PROVE Kept
  BY <1>1, <1>4, UpdatesFrame
<1>5. ASSUME NEW n \in Nodes, RegisterNode(n) \/ RevokeNode(n) PROVE Kept
  BY <1>4, <1>5 DEF RegisterNode, RevokeNode
<1>6. CASE ApplyJoin
  <2>1. pc = "apply" /\ cur.ev.node \in Nodes
    BY <1>6, EventTypes DEF ApplyJoin, VaultInv, CallOK
  <2> QED BY <1>2, <1>3, <1>4, <1>6, <2>1 DEF ApplyJoin
<1>7. CASE Restart
  BY <1>2, <1>7 DEF Restart, Interrupted, Answering
<1>8. ASSUME NEW ev, EnsureAuditClean(ev) PROVE Kept
  BY <1>3, <1>3b, <1>8 DEF EnsureAuditClean
<1>9. ASSUME NEW t \in TaskIds, NEW s \in Statuses, PutTask(t, s) PROVE Kept
  <2>1. WithTask(mem, t, s).nodes = mem.nodes
    BY <1>1, UpdatesFrame
  <2> QED BY <1>3, <1>3b, <1>9, <2>1 DEF PutTask
<1>10. CASE AuditStatus \/ Finish \/ ApplyMessage \/ ApplyTask
  <2>1. WithMessage(mem, cur.id).nodes = mem.nodes /\ WithTask(mem, cur.ev.task, cur.ev.status).nodes = mem.nodes
    BY <1>1, UpdatesFrame
  <2> QED BY <1>2, <1>3, <1>3b, <1>10, <2>1 DEF AuditStatus, Finish, ApplyMessage, ApplyTask
<1>11. CASE \/ TouchNode \/ LedgerAppend \/ AuditAppend \/ ApplyOther \/ PutFile \/ UnlinkOthers
            \/ SaveState \/ WriteFails \/ DamageLedger \/ UNCHANGED vars
  BY <1>2, <1>3, <1>11 DEF TouchNode, LedgerAppend, AuditAppend, ApplyOther, PutFile, UnlinkOthers, SaveState,
     WriteFails, DamageLedger, vars
<1> QED
  BY <1>2, <1>5, <1>6, <1>7, <1>8, <1>9, <1>10, <1>11 DEF Next, Calls, Steps, Relay, Check

\* NodesInv is preserved.
LEMMA NodesStep ==
  ASSUME VaultInv, NodesInv, [Next]_vars
  PROVE  NodesInv'
<1>1. TypeOK /\ \A e \in acked : e \in Entries
  BY DEF VaultInv, TypeOK
<1>2. \A n \in Nodes : disk.nodes[n] # "absent" => disk'.nodes[n] # "absent" /\ mem'.nodes[n] # "absent"
  BY NodesGrow DEF NodesInv
<1>3. \A n \in Nodes : disk'.nodes[n] # "absent" => mem'.nodes[n] # "absent"
  BY <1>2, NodesGrow
<1>4. ASSUME NEW e \in acked', e.ev.op = "join" PROVE disk'.nodes[e.ev.node] # "absent"
  <2>1. CASE e \in acked
    BY <1>1, <1>2, <1>4, <2>1, EventTypes DEF NodesInv
  <2>2. CASE e \notin acked
    <3>1. SaveState /\ e = cur /\ Answering
      BY <1>1, <2>2, AckedStep
    <3>2. disk' = mem
      BY <3>1 DEF SaveState
    <3> QED BY <1>4, <3>1, <3>2 DEF NodesInv
  <2> QED BY <2>1, <2>2
<1>5. ASSUME Answering', cur'.ev.op = "join" PROVE mem'.nodes[cur'.ev.node] # "absent"
  <2>1. cur' = cur /\ cur.ev.op = "join" /\ cur.ev.node \in Nodes
    BY <1>5, AnsweringStep, EventTypes
  <2>2. CASE Answering
    BY <1>5, <2>1, <2>2, NodesGrow DEF NodesInv
  <2>3. CASE ApplyJoin
    <3>1. mem' = WithNode(mem, cur.ev.node, "active") /\ mem \in States
      BY <1>1, <1>5, <2>3 DEF ApplyJoin, Answering, TypeOK
    <3> QED BY <2>1, <3>1, UpdatesFrame
  <2> QED BY <1>5, <2>1, <2>2, <2>3, AnsweringStep DEF ApplyMessage, ApplyOther, TaskEvents
<1> QED BY <1>3, <1>4, <1>5 DEF NodesInv

\* FilesInv is preserved: upsert_task never leaves a task without a file.
LEMMA FilesStep ==
  ASSUME VaultInv, VaultInv', StateInv, FilesInv, [Next]_vars
  PROVE  FilesInv'
<1>1. TypeOK /\ \A e \in acked : e \in Entries
  BY DEF VaultInv, TypeOK
<1>2. \A t \in TaskIds : files[t] # {} => files'[t] # {}
  BY StateInvStep
<1>3. ASSUME NEW e \in acked', e.ev.op = "task" PROVE files'[e.ev.task] # {}
  <2>1. CASE e \in acked
    BY <1>1, <1>2, <1>3, <2>1, EventTypes DEF FilesInv
  <2>2. CASE e \notin acked
    <3>1. SaveState /\ e = cur /\ Answering
      BY <1>1, <2>2, AckedStep
    <3>2. files' = files
      BY <3>1 DEF SaveState
    <3> QED BY <1>3, <3>1, <3>2 DEF FilesInv
  <2> QED BY <2>1, <2>2
<1>4. ASSUME Answering', cur'.ev.op = "task" PROVE files'[cur'.ev.task] # {}
  <2>1. cur' = cur /\ cur.ev.op = "task" /\ cur.ev.task \in TaskIds
    BY <1>4, AnsweringStep, EventTypes
  <2>2. CASE Answering
    BY <1>2, <2>1, <2>2 DEF FilesInv
  <2>3. CASE UnlinkOthers
    <3>1. files[cur.ev.task] # {}
      BY <2>3 DEF UnlinkOthers, StateInv
    <3> QED BY <1>2, <2>1, <3>1
  <2> QED BY <1>4, <2>1, <2>2, <2>3, AnsweringStep DEF ApplyMessage, ApplyJoin, ApplyOther
<1> QED BY <1>3, <1>4 DEF FilesInv

\* An upsert_task in progress: its task may be listed where it has no file yet.
Storing == pc \in {"put", "unlink"} \/ (pc = "save" /\ EndsUpsert)

\* The buckets list a task once; a task that no upsert is at work on, and whose last
\* one was not interrupted, has its file where it is listed, in memory or on disk.
MatchInv ==
  /\ \A s \in Statuses : Distinct(mem.tasks[s]) /\ Distinct(disk.tasks[s])
  /\ \A t \in TaskIds \ cut, s \in Statuses :
       (Storing => t # cur.ev.task) /\ (Has(mem.tasks[s], t) \/ Has(disk.tasks[s], t))
       => files[t] = {s}
  /\ Storing => \A s \in Statuses : Has(mem.tasks[s], cur.ev.task) => s = cur.ev.status
  /\ pc = "save" /\ EndsUpsert => files[cur.ev.task] = {cur.ev.status}

\* MatchInv is preserved.
LEMMA MatchStep ==
  ASSUME VaultInv, MatchInv, [Next]_vars
  PROVE  MatchInv'
<1>1. TypeOK /\ mem \in States /\ disk \in States /\ files \in [TaskIds -> SUBSET Statuses]
  BY DEF VaultInv, TypeOK
<1>2. ASSUME mem'.tasks = mem.tasks, UNCHANGED <<disk, files, cut>>, ~Storing, ~Storing'
      PROVE  MatchInv'
  BY <1>2 DEF MatchInv, Storing
<1>3. ASSUME NEW t \in TaskIds, NEW st \in Statuses, mem' = WithTask(mem, t, st),
             ~Storing, pc' = "put", cur'.ev.task = t, cur'.ev.status = st,
             UNCHANGED <<disk, files, cut>>
      PROVE  MatchInv'
  <2>0. \A s \in Statuses : Distinct(mem.tasks[s])
    BY DEF MatchInv
  <2>1. ASSUME NEW s \in Statuses
        PROVE  /\ Distinct(WithTask(mem, t, st).tasks[s])
               /\ Has(WithTask(mem, t, st).tasks[s], t) => s = st
               /\ \A u : u # t /\ Has(WithTask(mem, t, st).tasks[s], u) => Has(mem.tasks[s], u)
    BY <1>1, <2>0, WithTaskHas
  <2>2. Storing' /\ ~(pc' = "save")
    BY <1>3 DEF Storing
  <2>3. \A s \in Statuses :
          /\ Distinct(mem'.tasks[s])
          /\ Has(mem'.tasks[s], t) => s = st
          /\ \A u : u # t /\ Has(mem'.tasks[s], u) => Has(mem.tasks[s], u)
    BY <1>3, <2>1
  <2> QED BY <1>3, <2>2, <2>3 DEF MatchInv
<1>4. ASSUME NEW ev, EnsureAuditClean(ev), ~Storing, UNCHANGED <<disk, files, cut>>
      PROVE  MatchInv'
  <2>1. mem'.tasks = mem.tasks
    BY <1>1, <1>4 DEF EnsureAuditClean, States
  <2>2. ~Storing'
    BY <1>4 DEF EnsureAuditClean, SaveThen, Storing, EndsUpsert
  <2> QED BY <1>2, <1>4, <2>1, <2>2
<1>5. ASSUME NEW ev \in Events, Relay(ev) PROVE MatchInv'
  BY <1>4, <1>5 DEF Relay, Storing, files_vars
<1>6. ASSUME Check PROVE MatchInv'
  BY <1>4, <1>6 DEF Check, Storing, files_vars
<1>7. ASSUME NEW t \in TaskIds, NEW st \in Statuses, PutTask(t, st) PROVE MatchInv'
  <2>1. ~Storing /\ UNCHANGED <<disk, files, cut>>
    BY <1>7 DEF PutTask, Storing, files_vars
  <2>2. CASE VerifyAuditChain
    BY <1>3, <1>7, <2>1, <2>2 DEF PutTask
  <2>3. CASE ~VerifyAuditChain
    <3>1. mem'.tasks = mem.tasks /\ ~Storing'
      BY <1>1, <1>7, <2>3 DEF PutTask, SaveThen, Storing, EndsUpsert, States
    <3> QED BY <1>2, <2>1, <3>1
  <2> QED BY <2>2, <2>3
<1>8. ASSUME NEW n \in Nodes, RegisterNode(n) \/ RevokeNode(n) PROVE MatchInv'
  <2>1. \A s : WithNode(mem, n, s).tasks = mem.tasks
    BY <1>1, ListsFrame
  <2>2. mem'.tasks = mem.tasks
    BY <1>8, <2>1 DEF RegisterNode, RevokeNode
  <2>3. ~Storing /\ ~Storing' /\ UNCHANGED <<disk, files, cut>>
    BY <1>8 DEF RegisterNode, RevokeNode, SaveThen, Storing, EndsUpsert, files_vars
  <2> QED BY <1>2, <2>2, <2>3
<1>9. ASSUME TouchNode \/ AuditStatus \/ Finish PROVE MatchInv'
  <2>1. mem'.tasks = mem.tasks
    BY <1>1, <1>9 DEF TouchNode, AuditStatus, Finish, States
  <2>2. ~Storing /\ ~Storing' /\ UNCHANGED <<disk, files, cut>>
    BY <1>9 DEF TouchNode, AuditStatus, Finish, SaveThen, Storing, EndsUpsert, files_vars, call_vars
  <2> QED BY <1>2, <2>1, <2>2
<1>10. ASSUME LedgerAppend \/ AuditAppend \/ DamageLedger PROVE MatchInv'
  BY <1>2, <1>10 DEF LedgerAppend, AuditAppend, DamageLedger, Storing, call_vars
<1>11. ASSUME ApplyMessage \/ ApplyOther PROVE MatchInv'
  <2>1. mem'.tasks = mem.tasks
    BY <1>1, <1>11, ListsFrame DEF ApplyMessage, ApplyOther
  <2> QED BY <1>2, <1>11, <2>1 DEF ApplyMessage, ApplyOther, Storing, files_vars
<1>12. ASSUME ApplyJoin PROVE MatchInv'
  <2>1. cur.ev.node \in Nodes
    BY <1>12, EventTypes DEF ApplyJoin, VaultInv, CallOK
  <2>2. WithNode(mem, cur.ev.node, "active").tasks = mem.tasks
    BY <1>1, <2>1, ListsFrame
  <2>3. ~Storing /\ ~Storing' /\ UNCHANGED <<disk, files, cut>>
    BY <1>12 DEF ApplyJoin, SaveThen, Storing, EndsUpsert, files_vars
  <2> QED BY <1>2, <1>12, <2>2, <2>3 DEF ApplyJoin
<1>13. ASSUME ApplyTask PROVE MatchInv'
  <2>1. cur.ev.task \in TaskIds /\ ~Storing /\ UNCHANGED <<disk, files, cut, cur>>
    BY <1>13, EventTypes DEF ApplyTask, VaultInv, CallOK, Storing, files_vars
  <2>2. CASE cur.ev.status \in Statuses
    BY <1>3, <1>13, <2>1, <2>2 DEF ApplyTask
  <2>3. CASE cur.ev.status \notin Statuses
    BY <1>2, <1>13, <2>1, <2>3 DEF ApplyTask, Storing
  <2> QED BY <2>2, <2>3
<1>14. ASSUME PutFile \/ UnlinkOthers PROVE MatchInv'
  <2>1. /\ cur.ev.task \in TaskIds /\ Storing /\ Storing' /\ UNCHANGED <<mem, disk, cut, cur>>
        /\ cur.ev.op = "task"
    BY <1>14 DEF PutFile, UnlinkOthers, VaultInv, CallOK, TaskEvents, Storing, EndsUpsert
  <2>2. \A t \in TaskIds : t # cur.ev.task => files'[t] = files[t]
    BY <1>1, <1>14 DEF PutFile, UnlinkOthers
  <2>3. pc' = "save" => files'[cur.ev.task] = {cur.ev.status}
    BY <1>14 DEF PutFile, UnlinkOthers
  <2> QED BY <2>1, <2>2, <2>3 DEF MatchInv
<1>15. ASSUME SaveState PROVE MatchInv'
  <2>1. /\ disk' = mem /\ UNCHANGED <<mem, files, cur>> /\ pc = "save" /\ ~Storing'
        /\ cut' = IF EndsUpsert THEN cut \ {cur.ev.task} ELSE cut
    BY <1>1, <1>15 DEF SaveState, Storing, TypeOK
  <2>2. ASSUME NEW t \in TaskIds \ cut', NEW s \in Statuses, Has(mem.tasks[s], t)
        PROVE  files[t] = {s}
    <3>1. CASE Storing /\ t = cur.ev.task
      BY <2>1, <2>2, <3>1 DEF MatchInv, Storing
    <3>2. CASE ~(Storing /\ t = cur.ev.task)
      BY <2>1, <2>2, <3>2 DEF MatchInv, Storing
    <3> QED BY <3>1, <3>2
  <2>3. ~(pc' = "save")
    BY <1>1, <1>15 DEF SaveState, TypeOK
  <2> QED BY <2>1, <2>2, <2>3 DEF MatchInv
<1>16. ASSUME Restart \/ WriteFails PROVE MatchInv'
  <2>1. /\ mem' = disk \/ mem' = mem
        /\ UNCHANGED <<disk, files>> /\ pc' = "idle"
        /\ cut' = IF Storing THEN cut \cup {cur.ev.task} ELSE cut
    BY <1>16 DEF Restart, WriteFails, Interrupted, Storing
  <2> QED BY <2>1 DEF MatchInv, Storing
<1>17. ASSUME UNCHANGED vars PROVE MatchInv'
  BY <1>17 DEF vars, MatchInv, Storing, EndsUpsert
<1> QED
  BY <1>5, <1>6, <1>7, <1>8, <1>9, <1>10, <1>11, <1>12, <1>13, <1>14, <1>15, <1>16, <1>17
     DEF Next, Calls, Steps

\* Every entry answered "ok" is in the audit chain: it was committed when it was
\* answered, and a chain only grows.
LEMMA AckedAreAudited ==
  Spec => [](\A e \in acked : \E i \in 1 .. Covered : AuditedEntries[i] = e)
<1> DEFINE Logged == /\ AuditedEntries \in Seq(Entries)
                     /\ \A e \in acked : \E i \in 1 .. Len(AuditedEntries) : AuditedEntries[i] = e
<1>1. Log!Init => Logged
  BY DEF Log!Init
<1>2. Logged /\ [Log!Next]_(Log!avars) => Logged'
  <2> SUFFICES ASSUME Logged, [Log!Next]_(Log!avars) PROVE Logged'
    OBVIOUS
  <2>1. CASE Log!Commit
    BY <2>1 DEF Log!Commit
  <2>2. CASE Log!Answer
    <3>1. /\ acked' = acked \cup {AuditedEntries[Len(AuditedEntries)]}
          /\ AuditedEntries' = AuditedEntries /\ Len(AuditedEntries) \in 1 .. Len(AuditedEntries)
      BY <2>2 DEF Log!Answer
    <3> QED BY <3>1
  <2>3. CASE Log!Seal
    BY <2>3 DEF Log!Seal
  <2>4. CASE UNCHANGED Log!avars
    BY <2>4 DEF Log!avars
  <2> QED BY <2>1, <2>2, <2>3, <2>4 DEF Log!Next
<1>3. TypeOK /\ Logged => \A e \in acked : \E i \in 1 .. Covered : AuditedEntries[i] = e
  <2> SUFFICES ASSUME TypeOK, Logged PROVE Covered = Len(AuditedEntries)
    OBVIOUS
  <2>1. Covered \in Nat
    BY DEF TypeOK, Covered
  <2>2. DOMAIN AuditedEntries = 1 .. Covered
    BY DEF AuditedEntries
  <2>3. DOMAIN AuditedEntries = 1 .. Len(AuditedEntries) /\ Len(AuditedEntries) \in Nat
    OBVIOUS
  <2> QED BY <2>1, <2>2, <2>3
<1>4. Spec => []Logged
  BY <1>1, <1>2, VaultImplementsLog, PTL DEF ImplementsAuditedLog, Log!Spec
<1> QED BY <1>3, <1>4, VaultInvariant, PTL DEF VaultInv

\* What a caller was told is stored lasts: its audit row, its ledger line unless
\* it was damaged, and its effect in state.json and the task files, whatever crash
\* or failed write came later.
THEOREM AckedEntriesLast == Spec => []AckedDurable
<1> DEFINE Lasting == MessagesInv /\ NodesInv /\ FilesInv
<1>1. Init => Lasting
  BY DEF Init, DefaultState, MessagesInv, NodesInv, FilesInv, Ascending, Below, Answering
<1>2. VaultInv /\ VaultInv' /\ StateInv /\ Lasting /\ [Next]_vars => Lasting'
  BY MessagesStep, NodesStep, FilesStep
<1>3. Spec => []Lasting
  BY <1>1, <1>2, StateInvariant, PTL DEF Spec
<1>4. ASSUME VaultInv, Lasting, \A e \in acked : \E i \in 1 .. Covered : AuditedEntries[i] = e
      PROVE  AckedDurable
  <2> SUFFICES ASSUME NEW e \in acked
               PROVE  /\ \E i \in 1 .. Covered : AuditedEntries[i] = e
                      /\ ~damaged => \E i \in 1 .. Len(ledger) : ledger[i] = e
                      /\ e.ev.op = "message" =>
                           LET shown == {disk.messages[i] : i \in 1 .. Len(disk.messages)} IN
                           \/ e.id \in shown
                           \/ Len(disk.messages) = KeepLast /\ \A id \in shown : id > e.id
                      /\ e.ev.op = "join" => disk.nodes[e.ev.node] # "absent"
                      /\ e.ev.op = "task" => files[e.ev.task] # {}
    BY DEF AckedDurable
  <2>1. PICK i \in 1 .. Covered : AuditedEntries[i] = e
    BY <1>4
  <2>2. ~damaged => ledger[i] = e /\ i \in 1 .. Len(ledger)
    <3>1. Covered \in Nat /\ Len(ledger) \in Nat
      BY <1>4 DEF VaultInv, TypeOK, Covered
    <3>2. ~damaged => /\ Covered <= Len(ledger)
                      /\ \A j \in 1 .. Covered : ledger[j] = AuditedEntries[j]
      BY <1>4 DEF VaultInv, AuditIsPrefix
    <3> QED BY <2>1, <3>1, <3>2
  <2>3. e.ev.op = "message" => Shown(disk.messages, e.id)
    BY <1>4 DEF MessagesInv
  <2>4. e.ev.op = "join" => disk.nodes[e.ev.node] # "absent"
    BY <1>4 DEF NodesInv
  <2>5. e.ev.op = "task" => files[e.ev.task] # {}
    BY <1>4 DEF FilesInv
  <2> QED BY <2>1, <2>2, <2>3, <2>4, <2>5 DEF Shown, Has
<1> QED BY <1>3, <1>4, AckedAreAudited, VaultInvariant, PTL

\* Between calls the task files are where the state lists the tasks, but for a task
\* whose last upsert_task was interrupted.
THEOREM FilesMatchState == Spec => []TaskFilesMatchState
<1>1. Init => MatchInv
  BY DEF Init, DefaultState, MatchInv, Distinct, Has, Storing
<1>2. VaultInv /\ MatchInv /\ [Next]_vars => MatchInv'
  BY MatchStep
<1>3. MatchInv => TaskFilesMatchState
  BY DEF MatchInv, TaskFilesMatchState, Has, Storing
<1> QED BY <1>1, <1>2, <1>3, VaultInvariant, PTL DEF Spec

-----------------------------------------------------------------------------
(* The snapshot and the ledger.                                            *)

\* Induction over the natural numbers, for sets of them.
LEMMA SetInduction ==
  ASSUME NEW T, 0 \in T, \A n \in Nat : n \in T => n + 1 \in T
  PROVE  Nat \subseteq T
<1> SUFFICES ASSUME Nat \ T # {} PROVE FALSE
  OBVIOUS
<1>1. PICK R : R = OpToRel(<, Nat)
  OBVIOUS
<1>2. IsWellFoundedOn(R, Nat)
  BY <1>1, NatLessThanWellFounded
<1>3. PICK x \in Nat \ T : \A y \in Nat \ T : ~ (<<y, x>> \in R)
  BY <1>2, WFMin
<1>4. x # 0 /\ x - 1 \in Nat /\ x - 1 < x /\ (x - 1) + 1 = x
  BY <1>3
<1>5. <<x - 1, x>> \in R
  <2>1. \A y, z \in Nat : y < z => <<y, z>> \in OpToRel(<, Nat)
    BY DEF OpToRel
  <2> QED BY <1>1, <1>4, <2>1
<1>6. x - 1 \in T
  BY <1>3, <1>4, <1>5
<1> QED BY <1>3, <1>4, <1>6

\* f holds the states that the first n lines make, one after the other.
Replays(f, lines, n) ==
  f = [k \in 0 .. n |-> IF k = 0 THEN DefaultState ELSE Replayed(f[k - 1], lines[k])]

\* There are such states, for any lines.
LEMMA ReplayExists ==
  ASSUME NEW lines, NEW n \in Nat
  PROVE  \E f : Replays(f, lines, n)
<1> DEFINE T == {m \in Nat : \E f : Replays(f, lines, m)}
<1>1. 0 \in T
  <2> DEFINE f == [k \in 0 .. 0 |-> DefaultState]
  <2>1. f = [k \in 0 .. 0 |-> IF k = 0 THEN DefaultState ELSE Replayed(f[k - 1], lines[k])]
    OBVIOUS
  <2> QED BY <2>1 DEF Replays
<1>2. ASSUME NEW m \in Nat, m \in T PROVE m + 1 \in T
  <2>1. PICK f : Replays(f, lines, m)
    BY <1>2
  <2> DEFINE g == [k \in 0 .. m + 1 |-> IF k <= m THEN f[k] ELSE Replayed(f[m], lines[m + 1])]
             h == [k \in 0 .. m + 1 |-> IF k = 0 THEN DefaultState ELSE Replayed(g[k - 1], lines[k])]
  <2>2. \A k \in 0 .. m : f[k] = IF k = 0 THEN DefaultState ELSE Replayed(f[k - 1], lines[k])
    BY <2>1 DEF Replays
  <2>3. ASSUME NEW k \in 0 .. m + 1 PROVE g[k] = h[k]
    <3>1. h[k] = IF k = 0 THEN DefaultState ELSE Replayed(g[k - 1], lines[k])
      OBVIOUS
    <3>2. CASE k = m + 1
      <4>1. k - 1 = m /\ ~(k <= m) /\ k # 0 /\ k - 1 \in 0 .. m + 1
        BY <3>2
      <4>2. g[k - 1] = f[m] /\ g[k] = Replayed(f[m], lines[m + 1])
        BY <4>1
      <4> HIDE DEF g, h
      <4> QED BY <3>1, <3>2, <4>1, <4>2
    <3>3. CASE k # m + 1
      <4>1. k \in 0 .. m /\ k <= m /\ g[k] = f[k]
        BY <3>3
      <4>2. k # 0 => k - 1 \in 0 .. m + 1 /\ k - 1 <= m /\ g[k - 1] = f[k - 1]
        BY <4>1
      <4> HIDE DEF g, h
      <4> QED BY <2>2, <3>1, <4>1, <4>2
    <3> QED BY <3>2, <3>3
  <2>4. g = h
    BY <2>3
  <2>5. Replays(g, lines, m + 1)
    BY <2>4 DEF Replays
  <2> QED BY <2>5
<1>3. Nat \subseteq T
  <2> HIDE DEF T
  <2> QED BY <1>1, <1>2, SetInduction
<1> QED BY <1>3

\* They depend on those lines alone.
SameStart(a, b, n) == \A i \in 1 .. n : a[i] = b[i]

LEMMA ReplayUnique ==
  ASSUME NEW a, NEW b, NEW n \in Nat, NEW m \in Nat, n <= m, SameStart(a, b, n),
         NEW f, Replays(f, a, n), NEW g, Replays(g, b, m)
  PROVE  f[n] = g[n]
<1> DEFINE T == {k \in Nat : k <= n => f[k] = g[k]}
<1>1. /\ \A k \in 0 .. n : f[k] = IF k = 0 THEN DefaultState ELSE Replayed(f[k - 1], a[k])
      /\ \A k \in 0 .. m : g[k] = IF k = 0 THEN DefaultState ELSE Replayed(g[k - 1], b[k])
  BY DEF Replays
<1>2. 0 \in T
  BY <1>1
<1>3. ASSUME NEW k \in Nat, k \in T PROVE k + 1 \in T
  <2> SUFFICES ASSUME k + 1 <= n PROVE f[k + 1] = g[k + 1]
    OBVIOUS
  <2>1. f[k] = g[k]
    BY <1>3
  <2>2. k + 1 \in 0 .. n /\ k + 1 \in 0 .. m /\ k + 1 # 0 /\ (k + 1) - 1 = k /\ k + 1 \in 1 .. n
    OBVIOUS
  <2>3. f[k + 1] = Replayed(f[k], a[k + 1]) /\ g[k + 1] = Replayed(g[k], b[k + 1])
    BY <1>1, <2>2
  <2> QED BY <2>1, <2>2, <2>3 DEF SameStart
<1>4. Nat \subseteq T
  <2> HIDE DEF T
  <2> QED BY <1>2, <1>3, SetInduction
<1> QED BY <1>4

\* Replay is the last of them.
LEMMA ReplayIs ==
  ASSUME NEW S, NEW lines \in Seq(S)
  PROVE  \E f : Replays(f, lines, Len(lines)) /\ Replay(lines) = f[Len(lines)]
<1>1. PICK h : Replays(h, lines, Len(lines))
  <2>1. Len(lines) \in Nat
    OBVIOUS
  <2> QED BY <2>1, ReplayExists
<1> DEFINE f == CHOOSE st : Replays(st, lines, Len(lines))
<1>2. Replays(f, lines, Len(lines))
  BY <1>1
<1>3. Replay(lines) = f[Len(lines)]
  BY DEF Replay, Replays
<1> QED BY <1>2, <1>3

\* A ledger without lines, and with one more.
LEMMA ReplayNone == Replay(<<>>) = DefaultState
<1>1. <<>> \in Seq(Lines) /\ Len(<<>>) = 0
  OBVIOUS
<1>2. PICK f : Replays(f, <<>>, 0) /\ Replay(<<>>) = f[0]
  BY <1>1, ReplayIs
<1> QED BY <1>2 DEF Replays

LEMMA ReplayOneMore ==
  ASSUME NEW S, NEW s \in Seq(S), NEW e \in S
  PROVE  Replay(Append(s, e)) = Replayed(Replay(s), e)
<1> DEFINE a == Append(s, e)
<1>1. /\ a \in Seq(S) /\ Len(s) \in Nat /\ Len(a) = Len(s) + 1 /\ a[Len(s) + 1] = e
      /\ \A i \in 1 .. Len(s) : a[i] = s[i]
  OBVIOUS
<1> HIDE DEF a
<1>2. PICK f : Replays(f, s, Len(s)) /\ Replay(s) = f[Len(s)]
  BY ReplayIs
<1>3. PICK g : Replays(g, a, Len(a)) /\ Replay(a) = g[Len(a)]
  BY <1>1, ReplayIs
<1>4. f[Len(s)] = g[Len(s)]
  <2>1. PICK n, m : n = Len(s) /\ m = Len(a)
    OBVIOUS
  <2>2. n \in Nat /\ m \in Nat /\ n <= m /\ SameStart(s, a, n)
    BY <1>1, <2>1 DEF SameStart
  <2>3. Replays(f, s, n) /\ Replays(g, a, m)
    BY <1>2, <1>3, <2>1
  <2>4. f[n] = g[n]
    BY <2>2, <2>3, ReplayUnique
  <2> QED BY <2>1, <2>4
<1>5. g[Len(a)] = Replayed(g[Len(a) - 1], a[Len(a)])
  <2>1. Len(a) \in 0 .. Len(a) /\ Len(a) # 0
    BY <1>1
  <2> QED BY <1>3, <2>1 DEF Replays
<1>6. Len(a) - 1 = Len(s)
  BY <1>1
<1>7. Replay(a) = Replayed(Replay(s), e)
  BY <1>1, <1>2, <1>3, <1>4, <1>5, <1>6
<1> QED BY <1>7 DEF a

-----------------------------------------------------------------------------
(* What an event makes of a state.                                         *)

\* The cases of Replayed.
LEMMA ReplayedCases ==
  ASSUME NEW st, NEW l
  PROVE  /\ l.ev.op = "message" => Replayed(st, l) = WithMessage(st, l.id)
         /\ l.ev.op = "task" /\ l.ev.status \in Statuses =>
              Replayed(st, l) = WithTask(st, l.ev.task, l.ev.status)
         /\ l.ev.op # "message" /\ ~(l.ev.op = "task" /\ l.ev.status \in Statuses) =>
              Replayed(st, l) = st
  BY DEF Replayed

\* States that are alike stay alike.
LEMMA ReplayedAlike ==
  ASSUME NEW a \in States, NEW b \in States, Alike(a, b), NEW l
  PROVE  Alike(Replayed(a, l), Replayed(b, l))
<1>1. a.tasks = b.tasks /\ a.messages = b.messages
  BY DEF Alike
<1>2. CASE l.ev.op = "message"
  <2>1. Alike(WithMessage(a, l.id), WithMessage(b, l.id))
    BY <1>1 DEF Alike, WithMessage, States
  <2> QED BY <1>2, <2>1, ReplayedCases
<1>3. CASE l.ev.op = "task" /\ l.ev.status \in Statuses
  <2>1. Alike(WithTask(a, l.ev.task, l.ev.status), WithTask(b, l.ev.task, l.ev.status))
    BY <1>1 DEF Alike, WithTask, States
  <2> QED BY <1>3, <2>1, ReplayedCases
<1>4. CASE l.ev.op # "message" /\ ~(l.ev.op = "task" /\ l.ev.status \in Statuses)
  BY <1>4, ReplayedCases
<1> QED BY <1>2, <1>3, <1>4

\* A state with a task in a bucket at most once, as upsert_task keeps it.
Tidy(st) == st \in States /\ \A s \in Statuses : Distinct(st.tasks[s])

\* An entry of the ledger leaves such a state.
LEMMA ReplayedTidy ==
  ASSUME NEW st, Tidy(st), NEW l \in Entries
  PROVE  Tidy(Replayed(st, l))
<1>1. st \in States /\ l.id \in Ids /\ l.ev \in Events
  BY DEF Tidy, Entries
<1>2. CASE l.ev.op = "message"
  <2>1. WithMessage(st, l.id) \in States
    BY <1>1, UpdatesType
  <2>2. WithMessage(st, l.id).tasks = st.tasks
    BY <1>1 DEF WithMessage, States
  <2> QED BY <1>2, <2>1, <2>2, ReplayedCases DEF Tidy
<1>3. CASE l.ev.op = "task" /\ l.ev.status \in Statuses
  <2>1. l.ev.task \in TaskIds
    BY <1>1, <1>3 DEF Events, Messages, TaskEvents, Joins, Others
  <2>2. WithTask(st, l.ev.task, l.ev.status) \in States
    BY <1>1, <1>3, <2>1, UpdatesType
  <2>3. \A s \in Statuses : Distinct(WithTask(st, l.ev.task, l.ev.status).tasks[s])
    BY <1>3, <2>1, WithTaskHas DEF Tidy
  <2> QED BY <1>3, <2>2, <2>3, ReplayedCases DEF Tidy
<1>4. CASE l.ev.op # "message" /\ ~(l.ev.op = "task" /\ l.ev.status \in Statuses)
  BY <1>4, ReplayedCases
<1> QED BY <1>2, <1>3, <1>4

\* A bucket that has a task last, and lists it once, is the same after it is taken out
\* and appended again.
LEMMA StoredTwice ==
  ASSUME NEW S, NEW s \in Seq(S), s # <<>>, Len(s) <= KeepLast, Distinct(s), NEW t \in S,
         s[Len(s)] = t
  PROVE  Newest(Append(Without(s, t), t)) = s
<1>1. Len(s) \in 1 .. Len(s) /\ Len(s) \in Nat
  OBVIOUS
<1>2. PICK i \in 1 .. Len(s) : i = (CHOOSE j \in 1 .. Len(s) : s[j] = t) /\ s[i] = t
  BY <1>1
<1>3. i = Len(s)
  BY <1>1, <1>2 DEF Distinct
<1>4. PICK r : r = SubSeq(s, 1, i - 1) \o SubSeq(s, i + 1, Len(s))
  OBVIOUS
<1>5. Without(s, t) = r
  BY <1>1, <1>2, <1>4 DEF Without
<1>6. r \in Seq(S) /\ Len(r) = Len(s) - 1
      /\ \A j \in 1 .. Len(s) - 1 : r[j] = s[IF j < i THEN j ELSE j + 1]
  BY <1>4, TakeOutElements, TakeOutType
<1>7. PICK a : a = Append(r, t)
  OBVIOUS
<1>8. /\ a \in Seq(S) /\ Len(a) = Len(r) + 1 /\ a[Len(r) + 1] = t
      /\ \A j \in 1 .. Len(r) : a[j] = r[j]
  BY <1>6, <1>7
<1>9. Len(a) = Len(s)
  BY <1>1, <1>6, <1>8
<1>10. ASSUME NEW j \in 1 .. Len(s) PROVE a[j] = s[j]
  <2>1. CASE j = Len(s)
    <3>1. j = Len(r) + 1
      BY <1>1, <1>6, <2>1
    <3> QED BY <1>8, <2>1, <3>1
  <2>2. CASE j # Len(s)
    <3>1. j \in 1 .. Len(s) - 1 /\ j < i /\ j \in 1 .. Len(r)
      BY <1>1, <1>3, <1>6, <2>2
    <3> QED BY <1>6, <1>8, <3>1
  <2> QED BY <2>1, <2>2
<1>11. a = s
  BY <1>8, <1>9, <1>10, SeqEqual
<1> QED BY <1>5, <1>7, <1>11 DEF Newest

\* api_collab_task stores a task, and append_event stores it again: it is in its place.
LEMMA ReplayedTwice ==
  ASSUME NEW st, Tidy(st), NEW l, NEW m, l.ev = m.ev, l.ev \in TaskEvents,
         l.ev.status \in Statuses
  PROVE  Alike(Replayed(Replayed(st, l), m), Replayed(st, m))
<1>1. PICK t \in TaskIds, status \in Statuses : t = l.ev.task /\ status = l.ev.status
  BY DEF TaskEvents
<1>2. l.ev.op = "task" /\ m.ev.op = "task" /\ m.ev.task = t /\ m.ev.status = status
  BY <1>1 DEF TaskEvents
<1>3. PICK once, twice : once = WithTask(st, t, status) /\ twice = WithTask(once, t, status)
  OBVIOUS
<1>4. st \in States /\ once \in States /\ twice \in States
  <2>1. st \in States
    BY DEF Tidy
  <2>2. once \in States
    BY <1>3, <2>1, UpdatesType
  <2>3. twice \in States
    BY <1>3, <2>2, UpdatesType
  <2> QED BY <2>1, <2>2, <2>3
<1>5. twice.messages = once.messages
  BY <1>3, <1>4 DEF WithTask, States
<1>6. ASSUME NEW s \in Statuses PROVE twice.tasks[s] = once.tasks[s]
  <2>1. st.tasks[s] \in Seq(TaskIds) /\ Distinct(st.tasks[s])
    BY <1>4 DEF Tidy, States
  <2>2. PICK w : w = Without(st.tasks[s], t)
    OBVIOUS
  <2>3. w \in Seq(TaskIds) /\ Distinct(w) /\ ~Has(w, t)
    BY <2>1, <2>2, WithoutHas
  <2>4. once.tasks[s] = IF s = status THEN Newest(Append(w, t)) ELSE w
    BY <1>3, <1>4, <2>2 DEF WithTask, States
  <2>5. twice.tasks[s] = IF s = status THEN Newest(Append(Without(once.tasks[s], t), t))
                         ELSE Without(once.tasks[s], t)
    BY <1>3, <1>4 DEF WithTask, States
  <2>6. CASE s # status
    BY <2>3, <2>4, <2>5, <2>6 DEF Without, Has
  <2>7. CASE s = status
    <3>1. PICK a, n : a = Append(w, t) /\ n = Newest(a)
      OBVIOUS
    <3>2. /\ a \in Seq(TaskIds) /\ a # <<>> /\ Len(a) = Len(w) + 1 /\ a[Len(w) + 1] = t
          /\ \A i \in 1 .. Len(w) : a[i] = w[i]
      BY <2>3, <3>1
    <3>3. Distinct(n)
      BY <2>3, <3>1, <3>2, NewestHas
    <3>4. /\ Dropped(a) \in Nat /\ Dropped(a) < Len(a) /\ n \in Seq(TaskIds)
          /\ Len(n) = Len(a) - Dropped(a) /\ Len(n) <= KeepLast
          /\ \A i \in 1 .. Len(n) : n[i] = a[i + Dropped(a)]
      BY <3>1, <3>2, NewestPlaces
    <3>5. n # <<>> /\ Len(n) \in 1 .. Len(n) /\ Len(n) + Dropped(a) = Len(w) + 1
      BY <3>2, <3>4
    <3>6. n[Len(n)] = t
      BY <3>2, <3>4, <3>5
    <3>7. Newest(Append(Without(n, t), t)) = n
      BY <3>3, <3>4, <3>5, <3>6, StoredTwice
    <3> QED BY <2>4, <2>5, <2>7, <3>1, <3>7
  <2> QED BY <2>6, <2>7
<1>7. twice.tasks = once.tasks
  <2>1. once.tasks \in [Statuses -> Seq(TaskIds)] /\ twice.tasks \in [Statuses -> Seq(TaskIds)]
    BY <1>4 DEF States
  <2> QED BY <1>6, <2>1
<1>8. Replayed(st, l) = once /\ Replayed(st, m) = once /\ Replayed(once, m) = twice
  BY <1>1, <1>2, <1>3, ReplayedCases
<1> QED BY <1>5, <1>7, <1>8 DEF Alike

-----------------------------------------------------------------------------
(* The snapshot.                                                           *)

\* A task that is stored, and whose event is not in the ledger yet.
StoresFirst == pc = "check" \/ (pc \in {"put", "unlink", "save"} /\ then = "check")

\* Nothing of a call is in one of the ledger and the memory, and not in the other.
InStep == \/ pc \in {"idle", "finish"}
          \/ pc = "save" /\ then = "idle"
          \/ pc \in {"put", "unlink", "save"} /\ then \in {"finish", "answer"}

\* How memory and state.json stand to r, what the events of the ledger make: an event
\* is ahead in memory while its task is stored first, then in the ledger until it is
\* applied.
SnapAt(r) ==
  /\ Tidy(r)
  /\ pc \in {"idle", "check", "ledger", "audit", "apply"} => Alike(disk, mem)
  /\ InStep => Alike(mem, r)
  /\ StoresFirst => /\ VerifyAuditChain
                    /\ cur.ev \in TaskEvents /\ cur.ev.status \in Statuses
                    /\ Alike(mem, Replayed(r, cur))
  /\ pc = "ledger" => Alike(Replayed(mem, cur), Replayed(r, cur))
  /\ pc \in {"audit", "apply"} => Alike(Replayed(mem, cur), r)

SnapInv == faults = 0 /\ ~damaged => SnapAt(Replay(ledger))

\* SnapAt is preserved by each step that is no fault.
LEMMA SnapStep ==
  ASSUME VaultInv, SnapInv, [Next]_vars
  PROVE  SnapInv'
<1> SUFFICES ASSUME faults' = 0, ~damaged' PROVE SnapAt(Replay(ledger))'
  BY DEF SnapInv
<1>1. /\ TypeOK /\ mem \in States /\ disk \in States /\ cur \in Lines /\ faults \in Nat
      /\ ledger \in Seq(Lines) /\ then \in {"idle", "check", "finish", "answer"}
  BY DEF VaultInv, TypeOK
<1>2. ~Restart /\ ~WriteFails /\ ~DamageLedger
  BY <1>1 DEF Restart, WriteFails, Interrupted, DamageLedger
<1>3. faults = 0 /\ ~damaged
  <2>1. CASE UNCHANGED vars
    BY <2>1 DEF vars
  <2>2. CASE Calls
    BY <2>2 DEF Calls, Relay, PutTask, RegisterNode, RevokeNode, TouchNode, AuditStatus
  <2>3. CASE Steps
    BY <2>3 DEF Steps, Check, LedgerAppend, AuditAppend, ApplyMessage, ApplyTask, ApplyJoin,
                ApplyOther, PutFile, UnlinkOthers, Finish, SaveState
  <2> QED BY <1>2, <2>1, <2>2, <2>3 DEF Next
<1>4. PICK r : r = Replay(ledger)
  OBVIOUS
<1>5. SnapAt(r) /\ r \in States
  BY <1>3, <1>4 DEF SnapInv, SnapAt, Tidy
<1>6. ASSUME ledger' = ledger, SnapAt(r)' PROVE SnapAt(Replay(ledger))'
  <2>1. Replay(ledger)' = r
    BY <1>4, <1>6
  <2> QED BY <1>6, <2>1 DEF SnapAt
<1>7. ASSUME UNCHANGED <<ledger, audit>> PROVE VerifyAuditChain' = VerifyAuditChain
  BY <1>7 DEF VerifyAuditChain, AuditLines, HashBefore
\* A step after which all is in step.
<1>8. ASSUME InStep', UNCHANGED <<ledger, disk>>, Alike(mem', r), pc' # "idle"
      PROVE  SnapAt(Replay(ledger))'
  <2>1. ~StoresFirst' /\ pc' \notin {"idle", "check", "ledger", "audit", "apply"}
    BY <1>8 DEF InStep, StoresFirst
  <2> QED BY <1>5, <1>6, <1>8, <2>1 DEF SnapAt
<1>9. ASSUME NEW ev, EnsureAuditClean(ev), pc \in {"idle", "check"}, UNCHANGED <<ledger, disk>>,
              VerifyAuditChain => Alike(Replayed(mem, cur'), Replayed(r, cur')),
              ~VerifyAuditChain => pc = "idle"
       PROVE  SnapAt(Replay(ledger))'
  <2>1. CASE VerifyAuditChain
    <3>1. pc' = "ledger" /\ mem' = mem /\ Alike(disk, mem)
      BY <1>5, <1>9, <2>1 DEF EnsureAuditClean, SnapAt
    <3>2. ~InStep' /\ ~StoresFirst'
      BY <3>1 DEF InStep, StoresFirst
    <3> QED BY <1>5, <1>6, <1>9, <2>1, <3>1, <3>2 DEF SnapAt
  <2>2. CASE ~VerifyAuditChain
    <3>1. pc' = "save" /\ then' = "idle" /\ Alike(mem', mem) /\ Alike(mem, r)
      BY <1>1, <1>5, <1>9, <2>2 DEF EnsureAuditClean, SaveThen, SnapAt, InStep, States, Alike
    <3>2. Alike(mem', r)
      BY <3>1 DEF Alike
    <3> QED BY <1>8, <1>9, <3>1, <3>2 DEF InStep
  <2> QED BY <2>1, <2>2
<1>10. ASSUME NEW ev \in Events, Relay(ev) PROVE SnapAt(Replay(ledger))'
  <2>1. pc = "idle" /\ EnsureAuditClean(ev) /\ UNCHANGED <<ledger, disk>> /\ Alike(mem, r)
    BY <1>5, <1>10 DEF Relay, files_vars, SnapAt, InStep
  <2>2. Alike(Replayed(mem, cur'), Replayed(r, cur'))
    BY <1>1, <1>5, <2>1, ReplayedAlike
  <2> QED BY <1>9, <2>1, <2>2
<1>11. ASSUME Check PROVE SnapAt(Replay(ledger))'
  <2>1. /\ pc = "check" /\ EnsureAuditClean(cur.ev) /\ UNCHANGED <<ledger, disk>>
        /\ VerifyAuditChain /\ cur.ev \in TaskEvents /\ cur.ev.status \in Statuses
        /\ Alike(mem, Replayed(r, cur)) /\ Tidy(r) /\ cur \in Entries
    BY <1>5, <1>11 DEF Check, files_vars, SnapAt, StoresFirst, VaultInv, CallOK
  <2>2. cur'.ev = cur.ev
    BY <2>1 DEF EnsureAuditClean
  <2>3. Replayed(r, cur) \in States
    BY <2>1, ReplayedTidy DEF Tidy
  <2>4. Alike(Replayed(mem, cur'), Replayed(Replayed(r, cur), cur'))
    BY <1>1, <2>1, <2>3, ReplayedAlike
  <2>5. Alike(Replayed(Replayed(r, cur), cur'), Replayed(r, cur'))
    BY <2>1, <2>2, ReplayedTwice
  <2>6. Alike(Replayed(mem, cur'), Replayed(r, cur'))
    BY <2>4, <2>5 DEF Alike
  <2> QED BY <1>9, <2>1, <2>6
<1>12. ASSUME NEW t \in TaskIds, NEW status \in Statuses, PutTask(t, status)
       PROVE  SnapAt(Replay(ledger))'
  <2>1. pc = "idle" /\ UNCHANGED <<ledger, audit, disk>> /\ Alike(mem, r)
    BY <1>5, <1>12 DEF PutTask, files_vars, SnapAt, InStep
  <2>2. CASE VerifyAuditChain
    <3>1. /\ mem' = WithTask(mem, t, status) /\ pc' = "put" /\ then' = "check"
          /\ cur'.ev = [op |-> "task", task |-> t, status |-> status]
      BY <1>12, <2>2 DEF PutTask
    <3>2. /\ cur'.ev.op = "task" /\ cur'.ev.task = t /\ cur'.ev.status = status
          /\ cur'.ev \in TaskEvents
      BY <3>1 DEF TaskEvents
    <3>3. mem' = Replayed(mem, cur')
      BY <3>1, <3>2, ReplayedCases
    <3>4. Alike(mem', Replayed(r, cur'))
      BY <1>1, <1>5, <2>1, <3>3, ReplayedAlike
    <3>5. ~InStep' /\ VerifyAuditChain'
      BY <1>7, <2>1, <2>2, <3>1 DEF InStep
    <3> QED BY <1>5, <1>6, <2>1, <3>1, <3>2, <3>4, <3>5 DEF SnapAt
  <2>3. CASE ~VerifyAuditChain
    <3>1. pc' = "save" /\ then' = "idle" /\ Alike(mem', mem)
      BY <1>1, <1>12, <2>3 DEF PutTask, SaveThen, States, Alike
    <3>2. Alike(mem', r)
      BY <2>1, <3>1 DEF Alike
    <3> QED BY <1>8, <2>1, <3>1, <3>2 DEF InStep
  <2> QED BY <2>2, <2>3
<1>13. ASSUME NEW n \in Nodes, RegisterNode(n) \/ RevokeNode(n) PROVE SnapAt(Replay(ledger))'
  <2>1. \A s : WithNode(mem, n, s).tasks = mem.tasks /\ WithNode(mem, n, s).messages = mem.messages
    BY <1>1, ListsFrame
  <2>2. pc = "idle" /\ pc' = "save" /\ then' = "idle" /\ UNCHANGED <<ledger, disk>>
        /\ Alike(mem', mem)
    BY <1>13, <2>1 DEF RegisterNode, RevokeNode, SaveThen, files_vars, Alike
  <2>3. Alike(mem, r)
    BY <1>5, <2>2 DEF SnapAt, InStep
  <2>4. Alike(mem', r)
    BY <2>2, <2>3 DEF Alike
  <2> QED BY <1>8, <2>2, <2>4 DEF InStep
<1>14. ASSUME TouchNode \/ Finish PROVE SnapAt(Replay(ledger))'
  <2>1. /\ pc \in {"idle", "finish"} /\ pc' = "save" /\ then' \in {"idle", "answer"}
        /\ UNCHANGED <<ledger, disk>> /\ Alike(mem', mem)
    BY <1>1, <1>14 DEF TouchNode, Finish, SaveThen, files_vars, Alike, States
  <2>2. Alike(mem, r)
    BY <1>5, <2>1 DEF SnapAt, InStep
  <2>3. Alike(mem', r)
    BY <2>1, <2>2 DEF Alike
  <2> QED BY <1>8, <2>1, <2>3 DEF InStep
<1>15. ASSUME AuditStatus PROVE SnapAt(Replay(ledger))'
  <2>1. pc = "idle" /\ pc' = "idle" /\ UNCHANGED <<ledger, disk>> /\ Alike(mem', mem)
    BY <1>1, <1>15 DEF AuditStatus, files_vars, call_vars, Alike, States
  <2>2. Alike(mem', r) /\ Alike(disk, mem')
    <3>1. Alike(mem, r) /\ Alike(disk, mem)
      BY <1>5, <2>1 DEF SnapAt, InStep
    <3> QED BY <2>1, <3>1 DEF Alike
  <2>3. ~StoresFirst'
    BY <2>1 DEF StoresFirst
  <2> QED BY <1>5, <1>6, <2>1, <2>2, <2>3 DEF SnapAt
<1>16. ASSUME LedgerAppend PROVE SnapAt(Replay(ledger))'
  <2>1. /\ pc = "ledger" /\ pc' = "audit" /\ cur \in Entries /\ ledger' = Append(ledger, cur)
        /\ UNCHANGED <<mem, disk, cur>> /\ Tidy(r)
        /\ Alike(disk, mem) /\ Alike(Replayed(mem, cur), Replayed(r, cur))
    BY <1>5, <1>16 DEF LedgerAppend, VaultInv, CallOK, SnapAt
  <2>2. Replay(ledger)' = Replayed(r, cur)
    BY <1>1, <1>4, <2>1, ReplayOneMore
  <2>3. Tidy(Replayed(r, cur))
    BY <2>1, ReplayedTidy
  <2>4. ~InStep' /\ ~StoresFirst'
    BY <2>1 DEF InStep, StoresFirst
  <2> QED BY <2>1, <2>2, <2>3, <2>4 DEF SnapAt
<1>17. ASSUME AuditAppend PROVE SnapAt(Replay(ledger))'
  <2>1. pc = "audit" /\ pc' = "apply" /\ UNCHANGED <<ledger, mem, disk, cur>>
    BY <1>17 DEF AuditAppend
  <2>2. ~InStep' /\ ~StoresFirst'
    BY <2>1 DEF InStep, StoresFirst
  <2> QED BY <1>5, <1>6, <2>1, <2>2 DEF SnapAt
<1>18. ASSUME ApplyMessage \/ ApplyTask \/ ApplyJoin \/ ApplyOther PROVE SnapAt(Replay(ledger))'
  <2>1. /\ pc = "apply" /\ cur \in Entries /\ UNCHANGED <<ledger, disk>>
        /\ Alike(disk, mem) /\ Alike(Replayed(mem, cur), r)
    BY <1>5, <1>18 DEF ApplyMessage, ApplyTask, ApplyJoin, ApplyOther, files_vars, VaultInv, CallOK,
                       SnapAt
  \* VaultError: the event has no effect.
  <2>2. ASSUME pc' = "idle", mem' = mem, Replayed(mem, cur) = mem PROVE SnapAt(Replay(ledger))'
    <3>1. ~StoresFirst'
      BY <2>2 DEF StoresFirst
    <3> QED BY <1>5, <1>6, <2>1, <2>2, <3>1 DEF SnapAt
  <2>3. CASE ApplyMessage
    <3>1. mem' = Replayed(mem, cur) /\ pc' = "finish"
      BY <2>3, ReplayedCases DEF ApplyMessage
    <3> QED BY <1>8, <2>1, <3>1 DEF InStep
  <2>4. CASE ApplyOther
    <3>1. mem' = Replayed(mem, cur) /\ pc' = "finish"
      BY <2>4, ReplayedCases DEF ApplyOther
    <3> QED BY <1>8, <2>1, <3>1 DEF InStep
  <2>5. CASE ApplyTask
    <3>1. CASE cur.ev.status \in Statuses
      <4>1. mem' = Replayed(mem, cur) /\ pc' = "put" /\ then' = "finish"
        BY <2>5, <3>1, ReplayedCases DEF ApplyTask
      <4> QED BY <1>8, <2>1, <4>1 DEF InStep
    <3>2. CASE cur.ev.status \notin Statuses
      <4>1. Replayed(mem, cur) = mem /\ mem' = mem /\ pc' = "idle"
        BY <2>5, <3>2, ReplayedCases DEF ApplyTask
      <4> QED BY <2>2, <4>1
    <3> QED BY <3>1, <3>2
  <2>6. CASE ApplyJoin
    <3>1. Replayed(mem, cur) = mem
      BY <2>6, ReplayedCases DEF ApplyJoin
    <3>2. CASE mem.nodes[cur.ev.node] # "revoked"
      <4>1. mem' = WithNode(mem, cur.ev.node, "active") /\ pc' = "save" /\ then' = "finish"
        BY <2>6, <3>2 DEF ApplyJoin, SaveThen
      <4>2. cur.ev.node \in Nodes
        BY <2>1, <2>6, EventTypes DEF ApplyJoin
      <4>3. Alike(mem', mem)
        BY <1>1, <4>1, <4>2, ListsFrame DEF Alike
      <4>4. Alike(mem', r)
        BY <2>1, <3>1, <4>3 DEF Alike
      <4> QED BY <1>8, <2>1, <4>1, <4>4 DEF InStep
    <3>3. CASE ~(mem.nodes[cur.ev.node] # "revoked")
      <4>1. mem' = mem /\ pc' = "idle"
        BY <2>6, <3>3 DEF ApplyJoin
      <4> QED BY <2>2, <3>1, <4>1
    <3> QED BY <3>2, <3>3
  <2> QED BY <1>18, <2>3, <2>4, <2>5, <2>6
<1>19. ASSUME PutFile \/ UnlinkOthers PROVE SnapAt(Replay(ledger))'
  <2>1. /\ pc \in {"put", "unlink"} /\ pc' \in {"unlink", "save"}
        /\ UNCHANGED <<ledger, audit, mem, disk, cur, then>> /\ then \in {"check", "finish"}
    BY <1>19 DEF PutFile, UnlinkOthers, VaultInv, CallOK
  <2>2. CASE then = "finish"
    <3>1. InStep /\ InStep' /\ pc' # "idle"
      BY <2>1, <2>2 DEF InStep
    <3> QED BY <1>5, <1>8, <2>1, <3>1 DEF SnapAt
  <2>3. CASE then = "check"
    <3>1. StoresFirst /\ StoresFirst' /\ ~InStep'
      BY <2>1, <2>3 DEF StoresFirst, InStep
    <3> QED BY <1>5, <1>6, <1>7, <2>1, <3>1 DEF SnapAt
  <2> QED BY <2>1, <2>2, <2>3
<1>20. ASSUME SaveState PROVE SnapAt(Replay(ledger))'
  <2>1. /\ pc = "save" /\ disk' = mem /\ UNCHANGED <<ledger, audit, mem, cur, then>>
        /\ pc' = IF then = "answer" THEN "idle" ELSE then
    BY <1>20 DEF SaveState
  <2>2. Alike(disk', mem')
    BY <2>1 DEF Alike
  <2>3. CASE then = "check"
    <3>1. StoresFirst /\ pc' = "check" /\ StoresFirst' /\ ~InStep'
      BY <2>1, <2>3 DEF StoresFirst, InStep
    <3> QED BY <1>5, <1>6, <1>7, <2>1, <2>2, <3>1 DEF SnapAt
  <2>4. CASE then # "check"
    <3>1. InStep /\ pc' \in {"idle", "finish"} /\ ~StoresFirst'
      BY <1>1, <2>1, <2>4 DEF StoresFirst, InStep
    <3> QED BY <1>5, <1>6, <2>1, <2>2, <3>1 DEF SnapAt
  <2> QED BY <2>3, <2>4
<1>21. ASSUME UNCHANGED vars PROVE SnapAt(Replay(ledger))'
  BY <1>5, <1>6, <1>7, <1>21 DEF vars, SnapAt, InStep, StoresFirst
<1> QED
  BY <1>2, <1>10, <1>11, <1>12, <1>13, <1>14, <1>15, <1>16, <1>17, <1>18, <1>19, <1>20, <1>21
     DEF Next, Calls, Steps

\* SnapInv is an invariant.
LEMMA SnapInvariant == Spec => []SnapInv
<1>1. Init => SnapInv
  <2>1. Tidy(DefaultState)
    BY DEF Tidy, DefaultState, States, Distinct
  <2> QED BY <2>1, ReplayNone DEF Init, SnapInv, SnapAt, InStep, StoresFirst, Alike
<1>2. VaultInv /\ SnapInv /\ [Next]_vars => SnapInv'
  BY SnapStep
<1> QED BY <1>1, <1>2, VaultInvariant, PTL DEF Spec

\* As long as no call of append_event, upsert_task or _save_state was interrupted,
\* state.json shows, between calls, what the events of ledger.jsonl make of the messages
\* and the tasks when they are applied one after the other, for a ledger of any length.
THEOREM SnapshotIsCurrent == Spec => []SnapshotUnlessInterrupted
<1>1. VaultInv /\ SnapInv => SnapshotUnlessInterrupted
  <2> SUFFICES ASSUME VaultInv, SnapInv, faults = 0, pc = "idle", VerifyAuditChain
               PROVE  Alike(disk, Replay(ledger))
    BY DEF SnapshotUnlessInterrupted
  <2>1. ~damaged
    BY DEF VaultInv, DamageDetected
  <2>2. Alike(disk, mem) /\ Alike(mem, Replay(ledger))
    BY <2>1 DEF SnapInv, SnapAt, InStep
  <2> QED BY <2>2 DEF Alike
<1> QED BY <1>1, SnapInvariant, VaultInvariant, PTL
=============================================================================
