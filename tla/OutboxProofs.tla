---------------------------- MODULE OutboxProofs ----------------------------
(***************************************************************************)
(* Proofs about the outbox processor, for any number of rows, instances    *)
(* and attempts and any batch size.                                        *)
(***************************************************************************)
EXTENDS Outbox, TLAPS

\* The initial state of the outbox satisfies the inductive invariant.
LEMMA OutboxInitially == Init => TypeOK /\ OutboxInv
BY OutboxAssumption DEF Init, TypeOK, OutboxInv, LocksHold, AttemptsLeft, SendsExplained, Locked, Pending, Recorded

\* Every step of the processor, of a handler that inserts a row and of the
\* clock keeps the inductive invariant.
LEMMA OutboxStep == TypeOK /\ OutboxInv /\ [Next]_vars => TypeOK' /\ OutboxInv'
<1> SUFFICES ASSUME TypeOK, OutboxInv, [Next]_vars
             PROVE  TypeOK' /\ OutboxInv'
    OBVIOUS
<1> USE OutboxAssumption
<1>1. CASE UNCHANGED vars
    BY <1>1 DEF vars, TypeOK, OutboxInv, LocksHold, AttemptsLeft, SendsExplained, Locked, Pending, Recorded
<1>2. ASSUME NEW r \in Rows, Insert(r)
      PROVE  TypeOK' /\ OutboxInv'
    <2>1. TypeOK'
        BY <1>2 DEF Insert, TypeOK
    <2>2. OutboxInv'
        BY <1>2 DEF Insert, TypeOK, OutboxInv, LocksHold, AttemptsLeft, SendsExplained, Locked, Pending, Recorded
    <2> QED BY <2>1, <2>2
<1>3. ASSUME NEW r \in Rows, TimePasses(r)
      PROVE  TypeOK' /\ OutboxInv'
    BY <1>3 DEF TimePasses, TypeOK, OutboxInv, LocksHold, AttemptsLeft, SendsExplained, Locked, Pending, Recorded
<1>4. ASSUME NEW i \in Instances, Tick(i)
      PROVE  TypeOK' /\ OutboxInv'
    <2>1. PICK S \in SUBSET Select \ {{}} : batch' = [batch EXCEPT ![i] = S]
        BY <1>4 DEF Tick
    <2>2. TypeOK'
        BY <1>4, <2>1 DEF Tick, TypeOK, Select, Pending
    <2>3. OutboxInv'
        BY <1>4, <2>1 DEF Tick, TypeOK, OutboxInv, LocksHold, AttemptsLeft, SendsExplained, Select, Locked, Pending, Recorded
    <2> QED BY <2>2, <2>3
<1>5. ASSUME NEW i \in Instances, NEW r \in Rows, Publish(i, r)
      PROVE  TypeOK' /\ OutboxInv'
    <2> USE <1>5 DEF Publish, TypeOK
    <2>1. TypeOK'
        OBVIOUS
    <2>2. LocksHold'
        BY DEF OutboxInv, LocksHold, Locked, Pending
    <2>3. AttemptsLeft'
        BY DEF OutboxInv, AttemptsLeft
    <2>4. ~Recorded(r) /\ Recorded(r)'
        BY DEF OutboxInv, LocksHold, Locked, Pending, Recorded
    <2>5. \A q \in Rows \ {r} : Recorded(q)' = Recorded(q) /\ sends'[q] = sends[q]
        BY DEF Recorded
    <2>6. SendsExplained'
        BY <2>4, <2>5 DEF OutboxInv, SendsExplained
    <2> QED BY <2>1, <2>2, <2>3, <2>6 DEF OutboxInv
<1>6. ASSUME NEW i \in Instances, NEW r \in Rows, PublishFails(i, r)
      PROVE  TypeOK' /\ OutboxInv'
    <2> USE <1>6
    <2>0. /\ sends' \in [Rows -> Nat] /\ mishaps' \in [Rows -> Nat]
          /\ \/ sends'[r] = sends[r] /\ mishaps'[r] = mishaps[r]
             \/ sends'[r] = sends[r] + 1 /\ mishaps'[r] = mishaps[r] + 1
          /\ \A q \in Rows \ {r} : sends'[q] = sends[q] /\ mishaps'[q] = mishaps[q]
        <3>1. CASE UNCHANGED <<sends, mishaps>>
            BY <3>1 DEF TypeOK
        <3>2. CASE /\ sends' = [sends EXCEPT ![r] = @ + 1]
                   /\ mishaps' = [mishaps EXCEPT ![r] = @ + 1]
            BY <3>2 DEF TypeOK
        <3> QED BY <3>1, <3>2 DEF PublishFails
    <2>1. TypeOK'
        BY <2>0 DEF PublishFails, TypeOK
    <2>2. LocksHold'
        BY DEF PublishFails, TypeOK, OutboxInv, LocksHold, Locked, Pending
    <2>3. AttemptsLeft'
        BY DEF PublishFails, OutboxInv, AttemptsLeft
    <2>4. \A q \in Rows : Recorded(q)' = Recorded(q)
        BY DEF PublishFails, Recorded
    <2>5. SendsExplained'
        <3> SUFFICES ASSUME NEW q \in Rows
                     PROVE  /\ Recorded(q)' => sends'[q] = 1 + mishaps'[q]
                            /\ ~Recorded(q)' => sends'[q] = mishaps'[q]
            BY DEF SendsExplained
        <3>1. sends[q] \in Nat /\ mishaps[q] \in Nat
            BY DEF TypeOK
        <3>2. /\ Recorded(q) => sends[q] = 1 + mishaps[q]
              /\ ~Recorded(q) => sends[q] = mishaps[q]
            BY DEF OutboxInv, SendsExplained
        <3>3. CASE q = r
            BY <2>0, <2>4, <3>1, <3>2, <3>3
        <3>4. CASE q # r
            BY <2>0, <2>4, <3>2, <3>4
        <3> QED BY <3>3, <3>4
    <2> QED BY <2>1, <2>2, <2>3, <2>5 DEF OutboxInv
<1>7. ASSUME NEW i \in Instances, Commit(i)
      PROVE  TypeOK' /\ OutboxInv'
    <2>1. TypeOK'
        BY <1>7 DEF Commit, EndTick, Retried, TypeOK, OutboxInv, LocksHold, AttemptsLeft, SendsExplained, Locked, Pending
    <2>2. OutboxInv'
        BY <1>7 DEF Commit, EndTick, Retried, TypeOK, OutboxInv, LocksHold, AttemptsLeft, SendsExplained, Locked, Pending, Recorded
    <2> QED BY <2>1, <2>2
<1>8. ASSUME NEW i \in Instances, Rollback(i)
      PROVE  TypeOK' /\ OutboxInv'
    <2>1. TypeOK'
        BY <1>8 DEF Rollback, EndTick, TypeOK
    <2>2. OutboxInv'
        BY <1>8 DEF Rollback, EndTick, TypeOK, OutboxInv, LocksHold, AttemptsLeft, SendsExplained, Locked, Pending, Recorded
    <2> QED BY <2>1, <2>2
<1> QED BY <1>1, <1>2, <1>3, <1>4, <1>5, <1>6, <1>7, <1>8 DEF Next, ProcessPending

\* Locked rows are PENDING and have one holder, and every send beyond those
\* that mishaps explain is recorded.
THEOREM OutboxInvariant == Spec => [](TypeOK /\ OutboxInv)
BY OutboxInitially, OutboxStep, PTL DEF Spec

\* A row marked PUBLISHED reached the broker.
THEOREM PublishedTheorem == Spec => []PublishedWasSent
<1>1. TypeOK /\ OutboxInv => PublishedWasSent
    BY DEF TypeOK, OutboxInv, SendsExplained, PublishedWasSent, Log, Recorded
<1> QED BY <1>1, OutboxInvariant, PTL

\* Without a rollback or a lost acknowledgement no row is published twice.
THEOREM NoDuplicateTheorem == Spec => []NoDuplicateWithoutMishap
<1>1. TypeOK /\ OutboxInv => NoDuplicateWithoutMishap
    BY DEF TypeOK, OutboxInv, SendsExplained, NoDuplicateWithoutMishap
<1> QED BY <1>1, OutboxInvariant, PTL

\* A step of the processor sends PENDING rows only, and a row that stops being
\* PENDING was sent or has used up its attempts.
THEOREM TransportTheorem == Spec => BehavesAsTransport
<1> DEFINE Step == \/ UNCHANGED Log /\ Pending \subseteq Pending'
                   \/ /\ Log \subseteq Log' /\ Log' \subseteq Log \cup Pending
                      /\ Pending' \subseteq Pending
                      /\ \A r \in Pending \ Pending' : r \in Log' \/ rows'[r].retryCount = MaxAttempts
<1>1. TypeOK /\ OutboxInv /\ [Next]_vars => [Step]_vars
    <2> SUFFICES ASSUME TypeOK, OutboxInv, Next
                 PROVE  Step
        OBVIOUS
    <2> USE OutboxAssumption
    <2>1. ASSUME NEW r \in Rows, Insert(r) \/ TimePasses(r)
          PROVE  Step
        BY <2>1 DEF Insert, TimePasses, TypeOK, Log, Pending
    <2>2. ASSUME NEW i \in Instances, Tick(i) \/ Rollback(i)
          PROVE  Step
        BY <2>2 DEF Tick, Rollback, EndTick, Log, Pending
    <2>3. ASSUME NEW i \in Instances, NEW r \in Rows, Publish(i, r)
          PROVE  Step
        BY <2>3 DEF Publish, TypeOK, OutboxInv, LocksHold, Locked, Log, Pending
    <2>4. ASSUME NEW i \in Instances, NEW r \in Rows, PublishFails(i, r)
          PROVE  Step
        <3>1. Pending' = Pending
            BY <2>4 DEF PublishFails, Pending
        <3>2. r \in Pending
            BY <2>4 DEF PublishFails, OutboxInv, LocksHold, Locked
        <3>3. CASE UNCHANGED sends
            BY <3>1, <3>3 DEF Log
        <3>4. CASE sends' = [sends EXCEPT ![r] = @ + 1]
            BY <3>1, <3>2, <3>4 DEF TypeOK, Log
        <3> QED BY <2>4, <3>3, <3>4 DEF PublishFails
    <2>5. ASSUME NEW i \in Instances, Commit(i)
          PROVE  Step
        <3>1. UNCHANGED Log
            BY <2>5 DEF Commit, Log
        <3>2. marked[i] \subseteq Log
            BY DEF TypeOK, OutboxInv, SendsExplained, Recorded, Log
        <3>3. Pending' \subseteq Pending
            BY <2>5 DEF Commit, Pending, TypeOK, OutboxInv, LocksHold, Locked
        <3>4. \A r \in Pending \ Pending' : r \in Log' \/ rows'[r].retryCount = MaxAttempts
            BY <2>5, <3>1, <3>2 DEF Commit, Retried, Pending, TypeOK, OutboxInv, AttemptsLeft
        <3> QED BY <3>1, <3>3, <3>4
    <2> QED BY <2>1, <2>2, <2>3, <2>4, <2>5 DEF Next, ProcessPending
<1> QED BY <1>1, OutboxInvariant, PTL DEF Spec, BehavesAsTransport

=============================================================================
