--------------------------- MODULE KafkaConsumer ---------------------------
(***************************************************************************)
(* KafkaConsumerService of packages/kafka with the command handlers of     *)
(* product-service and payment-service, for one partition of a command     *)
(* topic and the instances of one service that share it.                   *)
(*                                                                         *)
(* OrderSaga takes a handler for one step.  Here the handlers of several   *)
(* instances are in progress at once: an instance whose session times out  *)
(* goes on with the message at hand while the partition has a new owner,   *)
(* and the same command may have been published twice.  A handler is a     *)
(* transaction of three parts: it looks for the command's idempotency row, *)
(* changes rows that it keeps locked, and saves the idempotency row with   *)
(* the reply.  repo.save inserts that row or, if it is there by then,      *)
(* overwrites it.                                                          *)
(*                                                                         *)
(* A reservation or release is a plain command; a payment is one of        *)
(* OncePerOrder, because payments.orderId is unique.  The stock and the    *)
(* balance that decide between the two replies are left open.              *)
(***************************************************************************)
EXTENDS Integers, Sequences

CONSTANTS Commands,      \* commandIds
          OncePerOrder,  \* those of process.payment
          Junk,          \* an empty or unparseable message
          Consumers,     \* instances of the service
          Nobody,        \* no instance
          MaxRetries,    \* attempts at a message
          MaxLog,        \* bound: messages published
          MaxMishaps     \* bound: crashes and lost sessions

ASSUME ConsumerAssumption ==
    /\ OncePerOrder \subseteq Commands
    /\ Junk \notin Commands
    /\ Nobody \notin Consumers
    /\ MaxRetries \in Nat \ {0}
    /\ MaxLog \in Nat
    /\ MaxMishaps \in Nat

VARIABLES log,        \* the messages of the partition
          committed,  \* how many of them the group has committed, or NoOffset
          owner,      \* the instance the group coordinator has assigned it to
          assigned,   \* instances that take themselves for the owner
          position,   \* position[c]: how many messages instance c has done with
          task,       \* task[c]: the message in hand
          row,        \* row[k]: the reply in the command's idempotency row
          lock,       \* lock[k]: the instance whose transaction has changed rows
          start       \* how many messages were there when the group began

\* History.
VARIABLES fate,        \* fate[i]: what became of message i
          applied,     \* applied[k]: transactions that did what the command says
          replies,     \* replies[k]: the replies written to the outbox
          overlapped,  \* commands two transactions of which missed the row
          mishaps

groupVars == <<committed, owner, assigned, start, mishaps>>
tableVars == <<row, lock, applied, replies, overlapped>>
vars == <<log, groupVars, position, task, tableVars, fate>>

NoOffset == -1

NoTask == [at |-> "idle"]

Task == [at : {"dispatch", "working", "saving", "dlq"}, offset : Nat, attempt : 1..MaxRetries]

Outcomes == {"done", "refused"}

Settled == {"handled", "junk", "dead", "dropped"}

Message == Commands \cup {Junk}

TypeOK ==
    /\ log \in Seq(Message)
    /\ committed \in Nat \cup {NoOffset}
    /\ owner \in Consumers \cup {Nobody}
    /\ assigned \in SUBSET Consumers
    /\ position \in [Consumers -> Nat]
    /\ task \in [Consumers -> {NoTask} \cup Task]
    /\ row \in [Commands -> Outcomes \cup {"none"}]
    /\ lock \in [Commands -> Consumers \cup {Nobody}]
    /\ start \in Nat
    /\ fate \in [1..MaxLog -> Settled \cup {"none", "skipped"}]
    /\ applied \in [Commands -> Nat]
    /\ replies \in [Commands -> SUBSET Outcomes]
    /\ overlapped \in SUBSET Commands
    /\ mishaps \in Nat

Init ==
    /\ log = <<>>
    /\ committed = NoOffset
    /\ owner = Nobody
    /\ assigned = {}
    /\ position = [c \in Consumers |-> 0]
    /\ task = [c \in Consumers |-> NoTask]
    /\ row = [k \in Commands |-> "none"]
    /\ lock = [k \in Commands |-> Nobody]
    /\ start = 0
    /\ fate = [i \in 1..MaxLog |-> "none"]
    /\ applied = [k \in Commands |-> 0]
    /\ replies = [k \in Commands |-> {}]
    /\ overlapped = {}
    /\ mishaps = 0

-----------------------------------------------------------------------------
(***************************************************************************)
(* The broker and the consumer group                                       *)
(***************************************************************************)

\* The outbox publishes at least once, so that a command may come again.
Publish(m) ==
    /\ Len(log) < MaxLog
    /\ log' = Append(log, m)
    /\ UNCHANGED <<groupVars, position, task, tableVars, fate>>

\* fromBeginning: false.  A group without a committed offset begins at the end.
FirstOffset == IF committed = NoOffset THEN Len(log) ELSE committed

\* An instance joins and is given the partition.
Join(c) ==
    /\ owner = Nobody
    /\ c \notin assigned
    /\ task[c] = NoTask
    /\ owner' = c
    /\ assigned' = assigned \cup {c}
    /\ position' = [position EXCEPT ![c] = FirstOffset]
    /\ IF committed = NoOffset
       THEN /\ start' = Len(log)
            /\ fate' = [i \in 1..MaxLog |-> IF i <= Len(log) /\ fate[i] = "none"
                                            THEN "skipped" ELSE fate[i]]
       ELSE UNCHANGED <<start, fate>>
    /\ UNCHANGED <<log, committed, mishaps, task, tableVars>>

\* The coordinator misses the owner's heartbeats; the owner does not know.
LoseSession ==
    /\ owner # Nobody
    /\ mishaps < MaxMishaps
    /\ owner' = Nobody
    /\ mishaps' = mishaps + 1
    /\ UNCHANGED <<log, committed, assigned, start, position, task, tableVars, fate>>

\* A heartbeat between two messages tells the old owner.
NoticeRebalance(c) ==
    /\ c \in assigned
    /\ owner # c
    /\ task[c] = NoTask
    /\ assigned' = assigned \ {c}
    /\ UNCHANGED <<log, committed, owner, start, mishaps, position, task, tableVars, fate>>

\* The offsets of finished messages are committed after them, where there are
\* any; the coordinator refuses the commit of an old owner.
CommitOffsets(c) ==
    /\ owner = c
    /\ c \in assigned
    /\ position[c] # IF committed = NoOffset THEN start ELSE committed
    /\ committed' = position[c]
    /\ UNCHANGED <<log, owner, assigned, start, mishaps, position, task, tableVars, fate>>

-----------------------------------------------------------------------------
(***************************************************************************)
(* dispatch                                                                *)
(***************************************************************************)

At(c, place) == task[c].at = place

Now(c) == log[task[c].offset]

\* Transactions that looked for the row of k and missed it.
Missed(k) == {c \in Consumers : (At(c, "working") \/ At(c, "saving")) /\ Now(c) = k}

GoTo(c, place) == task' = [task EXCEPT ![c].at = place]

\* Slip: eachMessage does not wait for dispatch.
FetchUnawaited(c) ==
    /\ c \in assigned
    /\ task[c] = NoTask
    /\ position[c] < Len(log)
    /\ task' = [task EXCEPT ![c] = [at |-> "dispatch", offset |-> position[c] + 1, attempt |-> 1]]
    /\ position' = [position EXCEPT ![c] = @ + 1]
    /\ UNCHANGED <<log, groupVars, tableVars, fate>>

Fetch(c) ==
    /\ c \in assigned
    /\ task[c] = NoTask
    /\ position[c] < Len(log)
    /\ task' = [task EXCEPT ![c] = [at |-> "dispatch", offset |-> position[c] + 1, attempt |-> 1]]
    /\ UNCHANGED <<log, groupVars, position, tableVars, fate>>

\* dispatch returns: the message is done with, one way or another.
Return(c, how) ==
    /\ fate' = [fate EXCEPT ![task[c].offset] = how]
    /\ position' = [position EXCEPT ![c] = task[c].offset]
    /\ task' = [task EXCEPT ![c] = NoTask]

DropJunk(c) ==
    /\ At(c, "dispatch")
    /\ Now(c) = Junk
    /\ Return(c, "junk")
    /\ UNCHANGED <<log, groupVars, tableVars>>

\* The end of a transaction frees what it had locked.
Unlock(c) == lock' = [k \in Commands |-> IF lock[k] = c THEN Nobody ELSE lock[k]]

\* Slip: a failed attempt leaves the count as it is.
SameAttempt(c) == [task[c] EXCEPT !.at = "dispatch"]

NextAttempt(c) ==
    IF task[c].attempt = MaxRetries
    THEN [task[c] EXCEPT !.at = "dlq"]
    ELSE [task[c] EXCEPT !.at = "dispatch", !.attempt = @ + 1]

\* Slip: the connection goes back to the pool with its transaction open.
HandlerFailsOpen(c) ==
    /\ At(c, "dispatch") \/ At(c, "working") \/ At(c, "saving")
    /\ Now(c) # Junk
    /\ task' = [task EXCEPT ![c] = NextAttempt(c)]
    /\ UNCHANGED <<log, groupVars, position, tableVars, fate>>

\* The handler throws: rollback, then another attempt or the dead-letter topic.
HandlerFails(c) ==
    /\ At(c, "dispatch") \/ At(c, "working") \/ At(c, "saving")
    /\ Now(c) # Junk
    /\ task' = [task EXCEPT ![c] = NextAttempt(c)]
    /\ Unlock(c)
    /\ UNCHANGED <<log, groupVars, position, row, applied, replies, overlapped, fate>>

\* sendToDlq; when that fails the message is only logged.
SendToDlq(c) ==
    /\ At(c, "dlq")
    /\ Return(c, "dead") \/ Return(c, "dropped")
    /\ UNCHANGED <<log, groupVars, tableVars>>

\* The process ends and is started again.
Crash(c) ==
    /\ c \in assigned
    /\ mishaps < MaxMishaps
    /\ mishaps' = mishaps + 1
    /\ owner' = IF owner = c THEN Nobody ELSE owner
    /\ assigned' = assigned \ {c}
    /\ task' = [task EXCEPT ![c] = NoTask]
    /\ Unlock(c)
    /\ UNCHANGED <<log, committed, start, position, row, applied, replies, overlapped, fate>>

-----------------------------------------------------------------------------
(***************************************************************************)
(* handleReserveStock, handleReleaseStock, handleProcessPayment            *)
(***************************************************************************)

\* The row is there: its reply is written to the outbox once more.
ReplyAgain(c) ==
    LET k == Now(c)
    IN  /\ At(c, "dispatch")
        /\ k # Junk
        /\ row[k] # "none"
        /\ replies' = [replies EXCEPT ![k] = @ \cup {row[k]}]
        /\ Return(c, "handled")
        /\ UNCHANGED <<log, groupVars, row, lock, applied, overlapped>>

\* Slip: the row is not looked for.
FindNothing(c) ==
    LET k == Now(c)
    IN  /\ At(c, "dispatch")
        /\ k # Junk
        /\ GoTo(c, "working")
        /\ overlapped' = IF Missed(k) # {} THEN overlapped \cup {k} ELSE overlapped
        /\ UNCHANGED <<log, groupVars, position, row, lock, applied, replies, fate>>

FindMisses(c) ==
    LET k == Now(c)
    IN  /\ At(c, "dispatch")
        /\ k # Junk
        /\ row[k] = "none"
        /\ GoTo(c, "working")
        /\ overlapped' = IF Missed(k) # {} THEN overlapped \cup {k} ELSE overlapped
        /\ UNCHANGED <<log, groupVars, position, row, lock, applied, replies, fate>>

\* SELECT ... FOR UPDATE, UPDATE or INSERT: waits for the other transaction
\* on these rows; a second payment of the order is refused by its unique key,
\* and then only HandlerFails is left.
DoWork(c) ==
    LET k == Now(c)
    IN  /\ At(c, "working")
        /\ lock[k] = Nobody
        /\ k \in OncePerOrder => row[k] = "none"
        /\ lock' = [lock EXCEPT ![k] = c]
        /\ GoTo(c, "saving")
        /\ UNCHANGED <<log, groupVars, position, row, applied, replies, overlapped, fate>>

\* idempotencyService.save, the reply, and the commit.
SaveAndCommit(c, outcome) ==
    LET k == Now(c)
    IN  /\ At(c, "saving")
        /\ row' = [row EXCEPT ![k] = outcome]
        /\ replies' = [replies EXCEPT ![k] = @ \cup {outcome}]
        /\ applied' = IF outcome = "done" THEN [applied EXCEPT ![k] = @ + 1] ELSE applied
        /\ Unlock(c)
        /\ Return(c, "handled")
        /\ UNCHANGED <<log, groupVars, overlapped>>

-----------------------------------------------------------------------------
Dispatch(c) ==
    \/ Fetch(c) \/ DropJunk(c) \/ ReplyAgain(c) \/ FindMisses(c) \/ DoWork(c)
    \/ \E outcome \in Outcomes : SaveAndCommit(c, outcome)
    \/ HandlerFails(c) \/ SendToDlq(c)

Next ==
    \/ \E m \in Message : Publish(m)
    \/ LoseSession
    \/ \E c \in Consumers :
          Join(c) \/ NoticeRebalance(c) \/ CommitOffsets(c) \/ Crash(c) \/ Dispatch(c)

Spec == Init /\ [][Next]_vars

\* An instance that runs goes on with its message, hears of a rebalance and
\* joins a group that has lost its owner.
Fairness ==
    /\ \A c \in Consumers : WF_vars(Dispatch(c))
    /\ \A c \in Consumers : WF_vars(NoticeRebalance(c))
    /\ WF_vars(\E c \in Consumers : Join(c))

LiveSpec == Spec /\ Fairness

-----------------------------------------------------------------------------
(***************************************************************************)
(* Properties                                                              *)
(***************************************************************************)

\* Offsets lie within the log, and what an instance is done with has a fate.
OffsetInv ==
    /\ Len(log) <= MaxLog
    /\ start <= Len(log)
    /\ committed <= Len(log)
    /\ \A i \in 1..MaxLog : i <= committed => fate[i] # "none"
    /\ \A i \in 1..MaxLog : fate[i] = "skipped" => i <= start
    /\ \A c \in assigned : /\ position[c] <= Len(log)
                           /\ \A i \in 1..MaxLog : i <= position[c] => fate[i] # "none"

\* A task is the message after its instance's position.
TaskInv ==
    \A c \in Consumers : task[c] # NoTask =>
        /\ c \in assigned
        /\ task[c].offset = position[c] + 1
        /\ task[c].offset <= Len(log)
        /\ At(c, "dispatch") \/ Now(c) # Junk

\* A transaction that has done its work holds the lock, alone.
LockInv ==
    \A c \in Consumers, k \in Commands : lock[k] = c <=> At(c, "saving") /\ Now(c) = k

\* Without a row nothing was done; a transaction that missed the row and has
\* no rival, and a payment that has done its work, can rely on that.
RowInv ==
    /\ \A k \in Commands : row[k] = "none" => applied[k] = 0 /\ replies[k] = {}
    /\ \A k \in Commands : row[k] # "none" => row[k] \in replies[k]
    /\ \A k \in Commands \ overlapped : \A c, d \in Missed(k) : row[k] = "none" /\ c = d
    /\ \A k \in OncePerOrder : lock[k] # Nobody => row[k] = "none"

\* A command that did not overlap with itself was applied at most once.
OnceInv ==
    \A k \in Commands : k \in OncePerOrder \/ k \notin overlapped =>
        /\ applied[k] <= 1
        /\ replies[k] \subseteq {row[k]}

\* KafkaConsumerService and the handlers: the types and what ties offsets,
\* tasks, locks and idempotency rows together.
ConsumerInv == TypeOK /\ OffsetInv /\ TaskInv /\ LockInv /\ RowInv /\ OnceInv

\* Idempotency: however often a command is delivered, retried or taken over,
\* it takes effect at most once and has one reply, unless two transactions
\* both missed its row; and a payment even then.
RepeatNeedsOverlap ==
    \A k \in Commands : k \in OncePerOrder \/ k \notin overlapped =>
        /\ applied[k] <= 1
        /\ \A x, y \in replies[k] : x = y

\* Whatever the group has committed was handled, dead-lettered or logged,
\* unless it was published before the group began.
CommittedIsSettled ==
    \A i \in 1..MaxLog : i > start /\ i <= committed => fate[i] \in Settled

\* Every message is done with in the end: no retry, takeover or lost dead
\* letter holds up those that follow.
EveryMessageSettles ==
    \A i \in 1..MaxLog : (Len(log) >= i) ~> (fate[i] # "none")

\* products-saga.controller.ts: "redelivery or a saga retry never
\* double-reserves inventory".
NeverDoubleReserves == \A k \in Commands : applied[k] <= 1

=============================================================================
