------------------------- MODULE KafkaConsumerProofs -------------------------
(***************************************************************************)
(* Proofs about the consumers of a command topic, for any number of        *)
(* instances, commands, messages, attempts, crashes and lost sessions.     *)
(***************************************************************************)
EXTENDS KafkaConsumer, SequenceTheorems, TLAPS

\* The log is a sequence of messages.
LEMMA LogTypes ==
    ASSUME TypeOK
    PROVE  /\ Len(log) \in Nat
           /\ DOMAIN log = 1..Len(log)
           /\ \A i \in 1..Len(log) : log[i] \in Message
BY LenProperties, ElementOfSeq DEF TypeOK

\* A task in progress is a record, and its message is in the log.
LEMMA TaskTypes ==
    ASSUME TypeOK, OffsetInv, TaskInv, NEW c \in Consumers, task[c] # NoTask
    PROVE  /\ task[c] \in Task
           /\ task[c].offset \in 1..Len(log)
           /\ task[c].offset \in 1..MaxLog
           /\ task[c].offset = position[c] + 1
           /\ c \in assigned
           /\ Now(c) \in Message
           /\ ~At(c, "dispatch") => Now(c) \in Commands
<1>1. task[c] \in Task /\ position[c] \in Nat
    BY DEF TypeOK
<1>2. /\ task[c].offset = position[c] + 1 /\ task[c].offset <= Len(log) /\ c \in assigned
      /\ At(c, "dispatch") \/ Now(c) # Junk
    BY DEF TaskInv
<1>3. task[c].offset \in 1..Len(log) /\ task[c].offset \in 1..MaxLog
    BY <1>1, <1>2, LogTypes, ConsumerAssumption DEF OffsetInv, Task
<1> QED BY <1>1, <1>2, <1>3, LogTypes DEF Now, Message

\* Somebody who is at a place has a task.
LEMMA AtHasTask ==
    ASSUME NEW c \in Consumers,
           At(c, "dispatch") \/ At(c, "working") \/ At(c, "saving") \/ At(c, "dlq")
    PROVE  task[c] # NoTask
BY DEF At, NoTask

\* The initial state satisfies the inductive invariant.
LEMMA ConsumerInitially == Init => ConsumerInv
<1> SUFFICES ASSUME Init PROVE ConsumerInv
    OBVIOUS
<1> USE ConsumerAssumption DEF Init
<1>1. TypeOK
    BY DEF TypeOK, NoOffset, Settled
<1>2. OffsetInv
    BY DEF OffsetInv, NoOffset
<1>3. TaskInv /\ LockInv
    BY DEF TaskInv, LockInv, At, NoTask
<1>4. RowInv /\ OnceInv
    BY DEF RowInv, OnceInv, Missed, At, NoTask
<1> QED BY <1>1, <1>2, <1>3, <1>4 DEF ConsumerInv

\* A step that does not touch a transaction that has done its work keeps the
\* locks as they were.
LEMMA LocksUntouched ==
    ASSUME LockInv, UNCHANGED lock,
           \A c \in Consumers, k \in Commands :
               (At(c, "saving") /\ Now(c) = k)' <=> (At(c, "saving") /\ Now(c) = k)
    PROVE  LockInv'
BY DEF LockInv

\* The end of a transaction frees its lock and leaves the others'.
LEMMA UnlockKeeps ==
    ASSUME TypeOK, LockInv, NEW c \in Consumers, Unlock(c), ~At(c, "saving")',
           \A d \in Consumers, k \in Commands : d # c =>
               ((At(d, "saving") /\ Now(d) = k)' <=> (At(d, "saving") /\ Now(d) = k))
    PROVE  /\ LockInv'
           /\ \A k \in Commands : lock'[k] # Nobody => lock[k] # Nobody
BY ConsumerAssumption DEF LockInv, Unlock, TypeOK

\* A step that commits nothing and lets no further transaction miss a row.
LEMMA RowsUntouched ==
    ASSUME RowInv, OnceInv, UNCHANGED <<row, applied, replies>>, overlapped \subseteq overlapped',
           \A k \in Commands : Missed(k)' \subseteq Missed(k),
           \A k \in Commands : lock'[k] # Nobody => lock[k] # Nobody
    PROVE  RowInv' /\ OnceInv'
<1>1. RowInv'
    BY ConsumerAssumption DEF RowInv
<1>2. OnceInv'
    BY DEF OnceInv
<1> QED BY <1>1, <1>2

\* Of the tasks, only that of c changes, and it is not one that missed a row.
LEMMA TaskLeaves ==
    ASSUME NEW c \in Consumers, UNCHANGED log,
           \A d \in Consumers : d # c => task'[d] = task[d],
           ~At(c, "working")', ~At(c, "saving")'
    PROVE  /\ \A k \in Commands : Missed(k)' \subseteq Missed(k)
           /\ \A d \in Consumers, k \in Commands : d # c =>
               ((At(d, "saving") /\ Now(d) = k)' <=> (At(d, "saving") /\ Now(d) = k))
BY DEF Missed, At, Now

\* dispatch returns: the fate of the message is known and the position moves
\* past it.
LEMMA ReturnKeeps ==
    ASSUME TypeOK, OffsetInv, TaskInv, NEW c \in Consumers, task[c] # NoTask,
           NEW how \in Settled, Return(c, how), UNCHANGED <<log, groupVars>>
    PROVE  /\ position' \in [Consumers -> Nat]
           /\ task' \in [Consumers -> {NoTask} \cup Task]
           /\ fate' \in [1..MaxLog -> Settled \cup {"none", "skipped"}]
           /\ OffsetInv' /\ TaskInv'
           /\ ~At(c, "working")' /\ ~At(c, "saving")'
           /\ \A d \in Consumers : d # c => task'[d] = task[d]
<1> USE DEF Return, groupVars
<1> DEFINE o == task[c].offset
<1>1. o \in 1..MaxLog /\ o \in 1..Len(log) /\ o = position[c] + 1 /\ c \in assigned /\ o \in Nat
    BY TaskTypes DEF Task
<1>2. /\ fate'[o] = how /\ \A i \in 1..MaxLog : i # o => fate'[i] = fate[i]
      /\ position'[c] = o /\ \A d \in Consumers : d # c => position'[d] = position[d]
      /\ task'[c] = NoTask /\ \A d \in Consumers : d # c => task'[d] = task[d]
    BY <1>1 DEF TypeOK
<1>3. how # "none" /\ how # "skipped"
    BY DEF Settled
<1>4. Len(log) \in Nat /\ position \in [Consumers -> Nat] /\ assigned \subseteq Consumers
    BY LogTypes DEF TypeOK
<1>5. OffsetInv'
    <2>1. \A i \in 1..MaxLog : fate[i] # "none" => fate'[i] # "none"
        BY <1>2, <1>3
    <2>2. \A i \in 1..MaxLog : fate'[i] = "skipped" => fate[i] = "skipped"
        BY <1>2, <1>3
    <2>3. position'[c] <= Len(log) /\ \A i \in 1..MaxLog : i <= position'[c] => fate'[i] # "none"
        <3>1. \A i \in 1..MaxLog : i <= position[c] => fate[i] # "none"
            BY <1>1 DEF OffsetInv
        <3> QED BY <3>1, <2>1, <1>1, <1>2, <1>3, <1>4
    <2>4. ASSUME NEW d \in assigned
          PROVE  position'[d] <= Len(log) /\ \A i \in 1..MaxLog : i <= position'[d] => fate'[i] # "none"
        <3>1. CASE d = c
            BY <3>1, <2>3
        <3>2. CASE d # c
            BY <3>2, <2>1, <1>2, <1>4 DEF OffsetInv
        <3> QED BY <3>1, <3>2
    <2> HIDE DEF Return
    <2> QED BY <2>1, <2>2, <2>4 DEF OffsetInv
<1>6. TaskInv'
    BY <1>2 DEF TaskInv, At, Now
<1>7. ~At(c, "working")' /\ ~At(c, "saving")'
    BY <1>2 DEF At, NoTask
<1>8. /\ position' \in [Consumers -> Nat]
      /\ task' \in [Consumers -> {NoTask} \cup Task]
      /\ fate' \in [1..MaxLog -> Settled \cup {"none", "skipped"}]
    BY <1>1 DEF TypeOK
<1> QED BY <1>2, <1>5, <1>6, <1>7, <1>8

\* Publish: the messages that were there stay where they are.
LEMMA PublishKeeps ==
    ASSUME ConsumerInv, NEW m \in Message, Publish(m)
    PROVE  ConsumerInv'
<1> USE DEF Publish, groupVars, tableVars
<1>0. TypeOK /\ OffsetInv /\ TaskInv /\ LockInv /\ RowInv /\ OnceInv
    BY DEF ConsumerInv
<1>1. /\ log' \in Seq(Message)
      /\ Len(log') = Len(log) + 1
      /\ \A i \in 1..Len(log) : log'[i] = log[i]
    BY <1>0, AppendProperties DEF TypeOK
<1>2. Len(log) \in Nat
    BY <1>0, LogTypes
<1>3. \A c \in Consumers : task[c] # NoTask => Now(c)' = Now(c)
    BY <1>0, <1>1, TaskTypes DEF Now
<1>4. TypeOK'
    BY <1>0, <1>1 DEF TypeOK
<1>5. OffsetInv'
    <2>1. committed \in Int /\ start \in Nat /\ position \in [Consumers -> Nat] /\ assigned \subseteq Consumers
        BY <1>0 DEF TypeOK, NoOffset
    <2> QED BY <1>0, <1>1, <1>2, <2>1, ConsumerAssumption DEF OffsetInv
<1>6. TaskInv'
    <2>1. \A c \in Consumers : task[c] # NoTask => task[c].offset \in Nat
        BY <1>0 DEF TypeOK, Task
    <2> QED BY <1>0, <1>1, <1>2, <1>3, <2>1 DEF TaskInv, At
<1>7. \A c \in Consumers, k \in Commands :
          /\ (At(c, "saving") /\ Now(c) = k)' <=> (At(c, "saving") /\ Now(c) = k)
          /\ (At(c, "working") /\ Now(c) = k)' <=> (At(c, "working") /\ Now(c) = k)
    BY <1>3, AtHasTask DEF At
<1>8. LockInv'
    BY <1>0, <1>7, LocksUntouched
<1>9. \A k \in Commands : Missed(k)' \subseteq Missed(k)
    BY <1>7 DEF Missed
<1> QED BY <1>0, <1>4, <1>5, <1>6, <1>8, <1>9, RowsUntouched DEF ConsumerInv

\* The group: an instance joins, loses its session, notices that, or commits.
LEMMA GroupKeeps ==
    ASSUME ConsumerInv, NEW c \in Consumers,
           Join(c) \/ LoseSession \/ NoticeRebalance(c) \/ CommitOffsets(c)
    PROVE  ConsumerInv'
<1>0. TypeOK /\ OffsetInv /\ TaskInv /\ LockInv /\ RowInv /\ OnceInv
    BY DEF ConsumerInv
<1>1. Len(log) \in Nat /\ committed \in Int /\ position \in [Consumers -> Nat]
    BY <1>0, LogTypes DEF TypeOK, NoOffset
<1>2. UNCHANGED <<log, task, tableVars>>
    BY DEF Join, LoseSession, NoticeRebalance, CommitOffsets
<1>3. LockInv' /\ RowInv' /\ OnceInv'
    <2>1. \A k \in Commands : Missed(k)' = Missed(k)
        BY <1>2 DEF Missed, At, Now
    <2>2. LockInv'
        BY <1>0, <1>2, LocksUntouched DEF tableVars, At, Now
    <2> QED BY <1>0, <1>2, <2>1, <2>2, RowsUntouched DEF tableVars
<1>4. ASSUME Join(c) PROVE TypeOK' /\ OffsetInv' /\ TaskInv'
    <2> USE <1>4 DEF Join
    <2>1. FirstOffset \in Nat /\ FirstOffset <= Len(log)
        BY <1>0, <1>1 DEF FirstOffset, TypeOK, NoOffset, OffsetInv
    <2>2. TypeOK'
        <3>1. start' \in Nat
            BY <1>0, <1>1 DEF TypeOK
        <3>2. fate' \in [1..MaxLog -> Settled \cup {"none", "skipped"}]
            BY <1>0 DEF TypeOK
        <3>3. position' \in [Consumers -> Nat]
            BY <1>1, <2>1
        <3> QED BY <1>0, <1>2, <3>1, <3>2, <3>3 DEF TypeOK, tableVars
    <2>3. position'[c] = FirstOffset /\ \A d \in Consumers : d # c => position'[d] = position[d]
        BY <1>1
    <2>4. CASE committed = NoOffset
        <3>1. /\ FirstOffset = Len(log) /\ start' = Len(log)
              /\ \A i \in 1..MaxLog : fate'[i] = IF i <= Len(log) /\ fate[i] = "none"
                                                 THEN "skipped" ELSE fate[i]
            BY <2>4 DEF FirstOffset
        <3>2. \A i \in 1..MaxLog : fate[i] # "none" => fate'[i] # "none"
            BY <3>1
        <3>3. \A i \in 1..MaxLog : i <= Len(log) => fate'[i] # "none"
            BY <3>1
        <3>4. \A i \in 1..MaxLog : fate'[i] = "skipped" => i <= Len(log)
            BY <1>0, <1>1, <3>1 DEF OffsetInv, TypeOK
        <3>5. \A d \in assigned' : position'[d] <= Len(log) /\ position'[d] \in Nat
            BY <1>0, <1>1, <2>1, <2>3 DEF OffsetInv, TypeOK
        <3> QED BY <1>0, <1>1, <3>1, <3>2, <3>3, <3>4, <3>5, <2>2, <2>4,
                TaskTypes DEF OffsetInv, TaskInv, At, Now, NoOffset
    <2>5. CASE committed # NoOffset
        <3>1. FirstOffset = committed /\ UNCHANGED <<start, fate>>
            BY <2>5 DEF FirstOffset
        <3>2. \A d \in assigned' : /\ position'[d] <= Len(log)
                                   /\ \A i \in 1..MaxLog : i <= position'[d] => fate'[i] # "none"
            BY <1>0, <2>1, <2>3, <3>1 DEF OffsetInv, TypeOK
        <3>3. OffsetInv'
            BY <1>0, <3>1, <3>2 DEF OffsetInv
        <3>4. TaskInv'
            BY <1>0, <2>3 DEF TaskInv, At, Now
        <3> QED BY <2>2, <3>3, <3>4
    <2> QED BY <2>4, <2>5
<1>5. ASSUME LoseSession PROVE TypeOK' /\ OffsetInv' /\ TaskInv'
    <2> USE <1>0, <1>5 DEF LoseSession, tableVars
    <2>1. TypeOK'
        BY DEF TypeOK
    <2>2. OffsetInv' /\ TaskInv'
        BY DEF OffsetInv, TaskInv, At, Now
    <2> QED BY <2>1, <2>2
<1>6. ASSUME NoticeRebalance(c) PROVE TypeOK' /\ OffsetInv' /\ TaskInv'
    <2> USE <1>0, <1>6 DEF NoticeRebalance, tableVars
    <2>1. TypeOK'
        BY DEF TypeOK
    <2>2. OffsetInv' /\ TaskInv'
        BY DEF OffsetInv, TaskInv, At, Now
    <2> QED BY <2>1, <2>2
<1>7. ASSUME CommitOffsets(c) PROVE TypeOK' /\ OffsetInv' /\ TaskInv'
    <2> USE <1>0, <1>7 DEF CommitOffsets, tableVars
    <2>1. TypeOK'
        BY <1>1 DEF TypeOK
    <2>2. OffsetInv'
        BY <1>1 DEF OffsetInv
    <2>3. TaskInv'
        BY DEF TaskInv, At, Now
    <2> QED BY <2>1, <2>2, <2>3
<1> QED BY <1>3, <1>4, <1>5, <1>6, <1>7 DEF ConsumerInv

\* A crash frees the locks and forgets the task; what was committed stays.
LEMMA CrashKeeps ==
    ASSUME ConsumerInv, NEW c \in Consumers, Crash(c)
    PROVE  ConsumerInv'
<1> USE DEF Crash
<1>0. TypeOK /\ OffsetInv /\ TaskInv /\ LockInv /\ RowInv /\ OnceInv
    BY DEF ConsumerInv
<1>1. task'[c] = NoTask /\ \A d \in Consumers : d # c => task'[d] = task[d]
    BY <1>0 DEF TypeOK
<1>2. ~At(c, "working")' /\ ~At(c, "saving")'
    BY <1>1 DEF At, NoTask
<1>3. TypeOK'
    <2>1. lock' \in [Commands -> Consumers \cup {Nobody}]
        BY <1>0 DEF Unlock, TypeOK
    <2>2. task' \in [Consumers -> {NoTask} \cup Task]
        BY <1>0 DEF TypeOK
    <2> QED BY <1>0, <2>1, <2>2 DEF TypeOK
<1>4. OffsetInv'
    BY <1>0 DEF OffsetInv
<1>5. TaskInv'
    BY <1>0, <1>1 DEF TaskInv, At, Now
<1>6. LockInv' /\ \A k \in Commands : lock'[k] # Nobody => lock[k] # Nobody
    BY <1>0, <1>1, <1>2, TaskLeaves, UnlockKeeps
<1>7. RowInv' /\ OnceInv'
    BY <1>0, <1>1, <1>2, <1>6, TaskLeaves, RowsUntouched
<1> QED BY <1>3, <1>4, <1>5, <1>6, <1>7 DEF ConsumerInv

\* dispatch takes the next message, or returns without a handler's result.
LEMMA ReturnsKeep ==
    ASSUME ConsumerInv, NEW c \in Consumers, DropJunk(c) \/ SendToDlq(c)
    PROVE  ConsumerInv'
<1>0. TypeOK /\ OffsetInv /\ TaskInv /\ LockInv /\ RowInv /\ OnceInv
    BY DEF ConsumerInv
<1>1. PICK how \in Settled : Return(c, how)
    BY DEF DropJunk, SendToDlq, Settled
<1>2. task[c] # NoTask /\ UNCHANGED <<log, groupVars, tableVars>> /\ ~At(c, "saving")
    BY AtHasTask DEF DropJunk, SendToDlq, At
<1>3. /\ position' \in [Consumers -> Nat]
      /\ task' \in [Consumers -> {NoTask} \cup Task]
      /\ fate' \in [1..MaxLog -> Settled \cup {"none", "skipped"}]
      /\ OffsetInv' /\ TaskInv'
      /\ ~At(c, "working")' /\ ~At(c, "saving")'
      /\ \A d \in Consumers : d # c => task'[d] = task[d]
    BY <1>0, <1>1, <1>2, ReturnKeeps
<1>4. TypeOK'
    BY <1>0, <1>2, <1>3 DEF TypeOK, groupVars, tableVars
<1>5. LockInv'
    BY <1>0, <1>2, <1>3, TaskLeaves, LocksUntouched DEF tableVars
<1>6. RowInv' /\ OnceInv'
    BY <1>0, <1>2, <1>3, TaskLeaves, RowsUntouched DEF tableVars
<1> QED BY <1>3, <1>4, <1>5, <1>6 DEF ConsumerInv

\* dispatch takes the next message.
LEMMA FetchKeeps ==
    ASSUME ConsumerInv, NEW c \in Consumers, Fetch(c)
    PROVE  ConsumerInv'
<1> USE DEF Fetch, groupVars, tableVars
<1> DEFINE x == [at |-> "dispatch", offset |-> position[c] + 1, attempt |-> 1]
<1>0. TypeOK /\ OffsetInv /\ TaskInv /\ LockInv /\ RowInv /\ OnceInv
    BY DEF ConsumerInv
<1>1. x \in Task /\ position[c] \in Nat /\ Len(log) \in Nat
    BY <1>0, LogTypes, ConsumerAssumption DEF Task, TypeOK
<1>2. task'[c] = x /\ \A d \in Consumers : d # c => task'[d] = task[d]
    BY <1>0 DEF TypeOK
<1>3. ~At(c, "working")' /\ ~At(c, "saving")' /\ At(c, "dispatch")' /\ ~At(c, "saving")
    BY <1>2 DEF At, NoTask
<1>4. TypeOK'
    BY <1>0, <1>1 DEF TypeOK
<1>5. OffsetInv'
    BY <1>0 DEF OffsetInv
<1>6. TaskInv'
    <2>1. task'[c].offset = position[c] + 1 /\ position[c] + 1 <= Len(log)
        BY <1>1, <1>2
    <2> QED BY <1>0, <1>2, <1>3, <2>1 DEF TaskInv, At, Now
<1>7. LockInv'
    BY <1>0, <1>2, <1>3, TaskLeaves, LocksUntouched
<1>8. RowInv' /\ OnceInv'
    BY <1>0, <1>2, <1>3, TaskLeaves, RowsUntouched
<1> QED BY <1>4, <1>5, <1>6, <1>7, <1>8 DEF ConsumerInv

\* A failed attempt rolls back.
LEMMA FailKeeps ==
    ASSUME ConsumerInv, NEW c \in Consumers, HandlerFails(c)
    PROVE  ConsumerInv'
<1> USE DEF HandlerFails, groupVars
<1>0. TypeOK /\ OffsetInv /\ TaskInv /\ LockInv /\ RowInv /\ OnceInv
    BY DEF ConsumerInv
<1>1. task[c] # NoTask /\ task[c] \in Task
    BY <1>0, AtHasTask, TaskTypes
<1>2. /\ NextAttempt(c) \in Task /\ NextAttempt(c).at \in {"dispatch", "dlq"}
      /\ NextAttempt(c).offset = task[c].offset
    <2>1. task[c].attempt \in 1..MaxRetries
        BY <1>1 DEF Task
    <2>2. CASE task[c].attempt = MaxRetries
        BY <1>1, <2>2 DEF NextAttempt, Task
    <2>3. CASE task[c].attempt # MaxRetries
        <3>1. task[c].attempt + 1 \in 1..MaxRetries
            BY <2>1, <2>3, ConsumerAssumption
        <3>2. NextAttempt(c) = [task[c] EXCEPT !.at = "dispatch", !.attempt = task[c].attempt + 1]
            BY <2>3 DEF NextAttempt
        <3> QED BY <1>1, <3>1, <3>2 DEF Task
    <2> QED BY <2>2, <2>3
<1>3. task'[c] = NextAttempt(c) /\ \A d \in Consumers : d # c => task'[d] = task[d]
    BY <1>0 DEF TypeOK
<1>4. ~At(c, "working")' /\ ~At(c, "saving")'
    BY <1>2, <1>3 DEF At
<1>5. TypeOK'
    <2>1. lock' \in [Commands -> Consumers \cup {Nobody}]
        BY <1>0 DEF Unlock, TypeOK
    <2>2. task' \in [Consumers -> {NoTask} \cup Task]
        BY <1>0, <1>2 DEF TypeOK
    <2> QED BY <1>0, <2>1, <2>2 DEF TypeOK
<1>6. OffsetInv'
    BY <1>0 DEF OffsetInv
<1>7. TaskInv'
    <2>1. Now(c)' = Now(c) /\ Now(c) # Junk
        BY <1>2, <1>3 DEF Now
    <2> QED BY <1>0, <1>1, <1>2, <1>3, <2>1 DEF TaskInv, At, Now
<1>8. LockInv' /\ \A k \in Commands : lock'[k] # Nobody => lock[k] # Nobody
    BY <1>0, <1>3, <1>4, TaskLeaves, UnlockKeeps
<1>9. RowInv' /\ OnceInv'
    BY <1>0, <1>3, <1>4, <1>8, TaskLeaves, RowsUntouched
<1> QED BY <1>5, <1>6, <1>7, <1>8, <1>9 DEF ConsumerInv

\* The stored reply is sent once more, and it is one that was sent before.
LEMMA ReplyAgainKeeps ==
    ASSUME ConsumerInv, NEW c \in Consumers, ReplyAgain(c)
    PROVE  ConsumerInv'
<1> USE DEF ReplyAgain
<1>0. TypeOK /\ OffsetInv /\ TaskInv /\ LockInv /\ RowInv /\ OnceInv
    BY DEF ConsumerInv
<1>1. task[c] # NoTask /\ Now(c) \in Commands
    <2>1. task[c] # NoTask
        BY AtHasTask
    <2> QED BY <1>0, <2>1, TaskTypes DEF Message
<1>2. row[Now(c)] \in replies[Now(c)] /\ UNCHANGED replies
    BY <1>0, <1>1 DEF RowInv, TypeOK
<1>3. /\ position' \in [Consumers -> Nat]
      /\ task' \in [Consumers -> {NoTask} \cup Task]
      /\ fate' \in [1..MaxLog -> Settled \cup {"none", "skipped"}]
      /\ OffsetInv' /\ TaskInv'
      /\ ~At(c, "working")' /\ ~At(c, "saving")'
      /\ \A d \in Consumers : d # c => task'[d] = task[d]
    BY <1>0, <1>1, ReturnKeeps DEF Settled
<1>4. TypeOK'
    BY <1>0, <1>2, <1>3 DEF TypeOK, groupVars
<1>5. LockInv'
    <2>1. ~At(c, "saving")
        BY DEF At
    <2> QED BY <1>0, <1>3, <2>1, TaskLeaves, LocksUntouched
<1>6. RowInv' /\ OnceInv'
    BY <1>0, <1>2, <1>3, TaskLeaves, RowsUntouched
<1> QED BY <1>3, <1>4, <1>5, <1>6 DEF ConsumerInv

\* A task that goes on to another place of its handler stays the task it is.
LEMMA GoToKeeps ==
    ASSUME TypeOK, OffsetInv, TaskInv, NEW c \in Consumers, NEW place \in {"working", "saving"},
           task[c] # NoTask, Now(c) # Junk, GoTo(c, place), UNCHANGED <<log, assigned, position>>
    PROVE  /\ task' \in [Consumers -> {NoTask} \cup Task]
           /\ TaskInv'
           /\ Now(c)' = Now(c)
           /\ \A p : At(c, p)' <=> p = place
           /\ \A d \in Consumers : d # c => task'[d] = task[d]
<1>1. task[c] \in Task
    BY TaskTypes
<1>2. /\ task'[c] = [task[c] EXCEPT !.at = place]
      /\ \A d \in Consumers : d # c => task'[d] = task[d]
    BY DEF GoTo, TypeOK
<1>3. /\ task'[c] \in Task /\ task'[c].offset = task[c].offset /\ task'[c].at = place
    BY <1>1, <1>2 DEF Task
<1>4. task' \in [Consumers -> {NoTask} \cup Task]
    BY <1>1, <1>3 DEF GoTo, TypeOK
<1>5. Now(c)' = Now(c)
    BY <1>3 DEF Now
<1>6. TaskInv'
    BY <1>2, <1>3, <1>5 DEF TaskInv, At, Now
<1>7. \A p : At(c, p)' <=> p = place
    BY <1>3 DEF At
<1> QED BY <1>2, <1>4, <1>5, <1>6, <1>7

\* A transaction that misses the row is the only one, or the command overlaps.
LEMMA FindMissesKeeps ==
    ASSUME ConsumerInv, NEW c \in Consumers, FindMisses(c)
    PROVE  ConsumerInv'
<1> USE DEF FindMisses, groupVars
<1> DEFINE k == Now(c)
<1>0. TypeOK /\ OffsetInv /\ TaskInv /\ LockInv /\ RowInv /\ OnceInv
    BY DEF ConsumerInv
<1>1. task[c] # NoTask /\ k \in Commands
    BY <1>0, AtHasTask, TaskTypes DEF Message
<1>2. /\ task' \in [Consumers -> {NoTask} \cup Task]
      /\ TaskInv'
      /\ Now(c)' = Now(c)
      /\ \A p : At(c, p)' <=> p = "working"
      /\ \A d \in Consumers : d # c => task'[d] = task[d]
    BY <1>0, <1>1, GoToKeeps
<1>3. TypeOK'
    BY <1>0, <1>1, <1>2 DEF TypeOK
<1>4. OffsetInv'
    BY <1>0 DEF OffsetInv
<1>5. LockInv'
    <2>1. ~At(c, "saving")
        BY DEF At
    <2> QED BY <1>0, <1>2, <2>1, LocksUntouched DEF At, Now
<1>6. \A j \in Commands : Missed(j)' \subseteq IF j = k THEN Missed(j) \cup {c} ELSE Missed(j)
    BY <1>2 DEF Missed, At, Now
<1>7. ASSUME NEW j \in Commands \ overlapped', NEW a \in Missed(j)', NEW b \in Missed(j)'
      PROVE  row[j] = "none" /\ a = b
    <2>1. j \notin overlapped /\ (j = k => Missed(j) = {})
        OBVIOUS
    <2>2. CASE j = k
        BY <2>1, <2>2, <1>6
    <2>3. CASE j # k
        BY <2>1, <2>3, <1>0, <1>6 DEF RowInv
    <2> QED BY <2>2, <2>3
<1>8. RowInv'
    <2> HIDE DEF k
    <2>1. UNCHANGED <<row, applied, replies, lock>>
        OBVIOUS
    <2> HIDE DEF FindMisses
    <2> QED BY <1>0, <1>7, <2>1 DEF RowInv
<1>9. OnceInv'
    BY <1>0 DEF OnceInv
<1> QED BY <1>2, <1>3, <1>4, <1>5, <1>8, <1>9 DEF ConsumerInv

\* The work takes the lock.
LEMMA DoWorkKeeps ==
    ASSUME ConsumerInv, NEW c \in Consumers, DoWork(c)
    PROVE  ConsumerInv'
<1> USE DEF DoWork, groupVars
<1> DEFINE k == Now(c)
<1>0. TypeOK /\ OffsetInv /\ TaskInv /\ LockInv /\ RowInv /\ OnceInv
    BY DEF ConsumerInv
<1>1. task[c] # NoTask /\ k \in Commands /\ k # Junk
    <2>1. task[c] # NoTask /\ ~At(c, "dispatch")
        BY AtHasTask DEF At
    <2> QED BY <1>0, <2>1, TaskTypes, ConsumerAssumption
<1>2. /\ task' \in [Consumers -> {NoTask} \cup Task]
      /\ TaskInv'
      /\ Now(c)' = Now(c)
      /\ \A p : At(c, p)' <=> p = "saving"
      /\ \A d \in Consumers : d # c => task'[d] = task[d]
    BY <1>0, <1>1, GoToKeeps
<1>3. TypeOK'
    BY <1>0, <1>1, <1>2 DEF TypeOK
<1>4. OffsetInv'
    BY <1>0 DEF OffsetInv
<1>5. lock'[k] = c /\ \A j \in Commands : j # k => lock'[j] = lock[j]
    BY <1>0, <1>1 DEF TypeOK
<1>6. \A d \in Consumers, j \in Commands : d # c =>
         ((At(d, "saving") /\ Now(d) = j)' <=> (At(d, "saving") /\ Now(d) = j))
    BY <1>2 DEF At, Now
<1>7. LockInv'
    <2>1. \A j \in Commands : lock[j] # c
        BY <1>0 DEF LockInv, At
    <2>2. \A d \in Consumers : lock[k] # d
        BY ConsumerAssumption
    <2> HIDE DEF DoWork
    <2>3. ASSUME NEW d \in Consumers, NEW j \in Commands
          PROVE  lock'[j] = d <=> (At(d, "saving") /\ Now(d) = j)'
        <3>1. CASE d = c
            BY <3>1, <1>1, <1>2, <1>5, <2>1
        <3>2. CASE d # c
            BY <3>2, <1>0, <1>1, <1>5, <1>6, <2>2 DEF LockInv
        <3> QED BY <3>1, <3>2
    <2> QED BY <2>3 DEF LockInv
<1>8. \A j \in Commands : Missed(j)' \subseteq Missed(j)
    BY <1>2 DEF Missed, At, Now
<1>9. RowInv'
    <2>1. \A j \in OncePerOrder : lock'[j] # Nobody => row[j] = "none"
        BY <1>0, <1>1, <1>5, ConsumerAssumption DEF RowInv
    <2>2. UNCHANGED <<row, applied, replies, overlapped>>
        OBVIOUS
    <2> HIDE DEF DoWork
    <2> QED BY <1>0, <1>8, <2>1, <2>2 DEF RowInv
<1>10. OnceInv'
    BY <1>0 DEF OnceInv
<1> QED BY <1>2, <1>3, <1>4, <1>7, <1>9, <1>10 DEF ConsumerInv

\* A transaction that commits was the only one to miss the row, or the command
\* overlaps and is no payment.
LEMMA CommitKeeps ==
    ASSUME ConsumerInv, NEW c \in Consumers, NEW outcome \in Outcomes, SaveAndCommit(c, outcome)
    PROVE  ConsumerInv'
<1> USE DEF SaveAndCommit
<1> DEFINE k == Now(c)
<1>0. TypeOK /\ OffsetInv /\ TaskInv /\ LockInv /\ RowInv /\ OnceInv
    BY DEF ConsumerInv
<1>1. task[c] # NoTask /\ k \in Commands /\ lock[k] = c /\ c \in Missed(k) /\ c # Nobody
    <2>1. task[c] # NoTask /\ ~At(c, "dispatch")
        BY AtHasTask DEF At
    <2>2. k \in Commands
        BY <1>0, <2>1, TaskTypes
    <2> QED BY <1>0, <2>1, <2>2, ConsumerAssumption DEF LockInv, Missed
<1>2. /\ position' \in [Consumers -> Nat]
      /\ task' \in [Consumers -> {NoTask} \cup Task]
      /\ fate' \in [1..MaxLog -> Settled \cup {"none", "skipped"}]
      /\ OffsetInv' /\ TaskInv'
      /\ ~At(c, "working")' /\ ~At(c, "saving")'
      /\ \A d \in Consumers : d # c => task'[d] = task[d]
    BY <1>0, <1>1, ReturnKeeps DEF Settled
<1>3. TypeOK'
    <2>1. lock' \in [Commands -> Consumers \cup {Nobody}]
        BY <1>0 DEF Unlock, TypeOK
    <2>2. row' \in [Commands -> Outcomes \cup {"none"}]
        BY <1>0 DEF TypeOK
    <2>3. replies' \in [Commands -> SUBSET Outcomes]
        BY <1>0, <1>1 DEF TypeOK
    <2>4. applied' \in [Commands -> Nat]
        BY <1>0, <1>1 DEF TypeOK
    <2> QED BY <1>0, <1>2, <2>1, <2>2, <2>3, <2>4 DEF TypeOK, groupVars
<1>4. LockInv' /\ \A j \in Commands : lock'[j] # Nobody => lock[j] # Nobody
    BY <1>0, <1>2, TaskLeaves, UnlockKeeps
<1>5. lock'[k] = Nobody
    BY <1>1 DEF Unlock
<1>6. /\ row'[k] = outcome
      /\ replies'[k] = replies[k] \cup {outcome}
      /\ applied'[k] <= applied[k] + 1 /\ applied[k] \in Nat
      /\ \A j \in Commands : j # k => row'[j] = row[j] /\ replies'[j] = replies[j] /\ applied'[j] = applied[j]
      /\ outcome # "none"
    BY <1>0, <1>1 DEF TypeOK, Outcomes
<1>7. \A j \in Commands : Missed(j)' \subseteq Missed(j)
    BY <1>2, TaskLeaves
<1>8. \A j \in Commands : c \notin Missed(j)'
    BY <1>2 DEF Missed
<1>9. k \in OncePerOrder \/ k \notin overlapped => applied[k] = 0 /\ replies[k] = {}
    BY <1>0, <1>1 DEF RowInv
<1>10. k \notin overlapped => \A j \in Commands : j = k => Missed(j)' = {}
    <2> SUFFICES ASSUME NEW j \in Commands, j = k, j \notin overlapped, NEW d \in Missed(j)' PROVE FALSE
        OBVIOUS
    <2>1. d \in Missed(j) /\ c \in Missed(j)
        BY <1>1, <1>7
    <2>2. \A x, y \in Missed(j) : x = y
        BY <1>0 DEF RowInv
    <2> QED BY <1>8, <2>1, <2>2
<1>11. UNCHANGED overlapped
    OBVIOUS
<1> HIDE DEF k, SaveAndCommit
<1>12. RowInv'
    <2>1. \A j \in Commands : row'[j] = "none" => applied'[j] = 0 /\ replies'[j] = {}
        BY <1>0, <1>6 DEF RowInv
    <2>2. \A j \in Commands : row'[j] # "none" => row'[j] \in replies'[j]
        BY <1>0, <1>6 DEF RowInv
    <2>3. ASSUME NEW j \in Commands \ overlapped', NEW a \in Missed(j)', NEW b \in Missed(j)'
          PROVE  row'[j] = "none" /\ a = b
        <3>1. j # k /\ j \in Commands \ overlapped /\ row'[j] = row[j]
            BY <1>6, <1>10, <1>11
        <3>2. a \in Missed(j) /\ b \in Missed(j)
            BY <1>7
        <3>3. \A x, y \in Missed(j) : row[j] = "none" /\ x = y
            BY <1>0, <3>1 DEF RowInv
        <3> QED BY <3>1, <3>2, <3>3
    <2>4. \A j \in OncePerOrder : lock'[j] # Nobody => row'[j] = "none"
        BY <1>0, <1>4, <1>5, <1>6, ConsumerAssumption DEF RowInv
    <2> QED BY <2>1, <2>2, <2>3, <2>4 DEF RowInv
<1>13. OnceInv'
    <2>1. k \in OncePerOrder \/ k \notin overlapped => applied'[k] <= 1 /\ replies'[k] \subseteq {row'[k]}
        <3>1. SUFFICES ASSUME k \in OncePerOrder \/ k \notin overlapped
                       PROVE  applied'[k] <= 1 /\ replies'[k] \subseteq {row'[k]}
            OBVIOUS
        <3>2. applied'[k] \in Nat
            BY <1>1, <1>3 DEF TypeOK, k
        <3> QED BY <3>1, <3>2, <1>6, <1>9
    <2> QED BY <2>1, <1>0, <1>6, <1>11 DEF OnceInv
<1> QED BY <1>2, <1>3, <1>4, <1>12, <1>13 DEF ConsumerInv

\* Every step of the broker, the group and the handlers keeps the inductive
\* invariant.
LEMMA ConsumerStep == ConsumerInv /\ [Next]_vars => ConsumerInv'
<1> SUFFICES ASSUME ConsumerInv, [Next]_vars
             PROVE  ConsumerInv'
    OBVIOUS
<1>1. CASE UNCHANGED vars
    <2> USE <1>1 DEF vars, groupVars, tableVars
    <2>1. TypeOK' /\ OffsetInv'
        BY DEF ConsumerInv, TypeOK, OffsetInv
    <2>2. TaskInv' /\ LockInv' /\ RowInv' /\ OnceInv'
        BY DEF ConsumerInv, TaskInv, LockInv, RowInv, OnceInv, Missed, At, Now
    <2> QED BY <2>1, <2>2 DEF ConsumerInv
<1>2. CASE \E m \in Message : Publish(m)
    BY <1>2, PublishKeeps
<1>3. CASE LoseSession
    <2>1. PICK c \in Consumers : TRUE
        BY <1>3 DEF LoseSession, ConsumerInv, TypeOK
    <2> QED BY <1>3, <2>1, GroupKeeps
<1>4. ASSUME NEW c \in Consumers,
             Join(c) \/ NoticeRebalance(c) \/ CommitOffsets(c) \/ Crash(c) \/ Dispatch(c)
      PROVE  ConsumerInv'
    <2>1. CASE Join(c) \/ NoticeRebalance(c) \/ CommitOffsets(c)
        BY <2>1, GroupKeeps
    <2>2. CASE Crash(c)
        BY <2>2, CrashKeeps
    <2>3. CASE Fetch(c)
        BY <2>3, FetchKeeps
    <2>4. CASE DropJunk(c) \/ SendToDlq(c)
        BY <2>4, ReturnsKeep
    <2>5. CASE ReplyAgain(c)
        BY <2>5, ReplyAgainKeeps
    <2>6. CASE FindMisses(c)
        BY <2>6, FindMissesKeeps
    <2>7. CASE DoWork(c)
        BY <2>7, DoWorkKeeps
    <2>8. CASE \E outcome \in Outcomes : SaveAndCommit(c, outcome)
        BY <2>8, CommitKeeps
    <2>9. CASE HandlerFails(c)
        BY <2>9, FailKeeps
    <2> QED BY <1>4, <2>1, <2>2, <2>3, <2>4, <2>5, <2>6, <2>7, <2>8, <2>9 DEF Dispatch
<1> QED BY <1>1, <1>2, <1>3, <1>4 DEF Next

\* The inductive invariant of the consumers holds in every reachable state.
THEOREM ConsumerCorrect == Spec => []ConsumerInv
BY ConsumerInitially, ConsumerStep, PTL DEF Spec

\* Idempotency: a command takes effect twice, or has two replies, only when
\* two transactions missed its row at once; a payment never.
THEOREM EffectsAreNotRepeated == Spec => []RepeatNeedsOverlap
<1>1. ConsumerInv => RepeatNeedsOverlap
    BY DEF ConsumerInv, OnceInv, RepeatNeedsOverlap
<1> QED BY <1>1, ConsumerCorrect, PTL

\* The group's offset never passes a message nobody has dealt with.
THEOREM NothingIsLost == Spec => []CommittedIsSettled
<1>1. ConsumerInv => CommittedIsSettled
    <2> SUFFICES ASSUME ConsumerInv, NEW i \in 1..MaxLog, i > start, i <= committed
                 PROVE  fate[i] \in Settled
        BY DEF CommittedIsSettled
    <2>1. fate[i] # "none"
        BY DEF ConsumerInv, OffsetInv
    <2>2. fate[i] # "skipped"
        BY DEF ConsumerInv, OffsetInv, TypeOK
    <2> QED BY <2>1, <2>2 DEF ConsumerInv, TypeOK
<1> QED BY <1>1, ConsumerCorrect, PTL

=============================================================================
