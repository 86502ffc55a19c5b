------------------------------- MODULE Outbox -------------------------------
(***************************************************************************)
(* The outbox processor, row by row: AbstractOutboxProcessorService of     *)
(* packages/outbox and its copy in order-service.  Every second a tick     *)
(* opens a transaction, locks a batch of due PENDING rows (FOR UPDATE SKIP *)
(* LOCKED), publishes them one after the other, records each outcome in    *)
(* the transaction and commits.  isProcessing keeps the ticks of one       *)
(* process apart, the row locks keep processes apart.                      *)
(*                                                                         *)
(* Transport abstracts this to one step per row; BehavesAsTransport is     *)
(* what justifies it.                                                      *)
(***************************************************************************)
EXTENDS Naturals, FiniteSets

CONSTANTS Rows,         \* ids of outbox rows
          Instances,    \* processes that run the processor on one database
          MaxAttempts,  \* OUTBOX_MAX_RETRIES
          BatchSize,    \* rows a tick takes at most
          MaxMishaps    \* bound on the mishaps counted for a row

ASSUME OutboxAssumption ==
    /\ MaxAttempts \in Nat \ {0}
    /\ BatchSize \in Nat \ {0}
    /\ MaxMishaps \in Nat

VARIABLES rows,          \* rows[r]: the committed status and retryCount
          due,           \* due[r]: scheduledAt has passed
          isProcessing,  \* isProcessing[i]: a tick of instance i is running
          batch,         \* batch[i]: rows locked by i and not yet tried
          marked,        \* marked[i]: rows set PUBLISHED, not committed
          missed,        \* missed[i]: rows with a failed attempt, not committed
          sends,         \* history: times the broker accepted row r
          mishaps        \* history: times r was accepted and that was not recorded

vars == <<rows, due, isProcessing, batch, marked, missed, sends, mishaps>>

TypeOK ==
    /\ rows \in [Rows -> [status : {"none", "pending", "published", "failed"},
                          retryCount : 0..MaxAttempts]]
    /\ due \in [Rows -> BOOLEAN]
    /\ isProcessing \in [Instances -> BOOLEAN]
    /\ batch \in [Instances -> SUBSET Rows]
    /\ marked \in [Instances -> SUBSET Rows]
    /\ missed \in [Instances -> SUBSET Rows]
    /\ sends \in [Rows -> Nat]
    /\ mishaps \in [Rows -> Nat]

Init ==
    /\ rows = [r \in Rows |-> [status |-> "none", retryCount |-> 0]]
    /\ due = [r \in Rows |-> FALSE]
    /\ isProcessing = [i \in Instances |-> FALSE]
    /\ batch = [i \in Instances |-> {}]
    /\ marked = [i \in Instances |-> {}]
    /\ missed = [i \in Instances |-> {}]
    /\ sends = [r \in Rows |-> 0]
    /\ mishaps = [r \in Rows |-> 0]

-----------------------------------------------------------------------------

\* The rows the open transaction of instance i has locked.
Locked(i) == batch[i] \cup marked[i] \cup missed[i]

Pending == {r \in Rows : rows[r].status = "pending"}

\* A handler commits a new row; scheduledAt defaults to NOW().
Insert(r) ==
    /\ rows[r].status = "none"
    /\ rows' = [rows EXCEPT ![r].status = "pending"]
    /\ due' = [due EXCEPT ![r] = TRUE]
    /\ UNCHANGED <<isProcessing, batch, marked, missed, sends, mishaps>>

\* The clock passes scheduledAt of a row that waits for its next attempt.
TimePasses(r) ==
    /\ r \in Pending /\ ~due[r]
    /\ due' = [due EXCEPT ![r] = TRUE]
    /\ UNCHANGED <<rows, isProcessing, batch, marked, missed, sends, mishaps>>

\* Slip: the rows are selected without a lock.
SelectUnlocked == {r \in Pending : due[r]}

\* Rows a SELECT ... FOR UPDATE SKIP LOCKED may return.
Select == {r \in Pending : due[r] /\ \A i \in Instances : r \notin Locked(i)}

\* A tick finds isProcessing clear and rows to publish.  Which BatchSize rows
\* it takes, and in which order it tries them, is left open: the code takes
\* the earliest scheduledAt first.
Tick(i) ==
    /\ ~isProcessing[i]
    /\ \E S \in SUBSET Select \ {{}} :
          /\ Cardinality(S) <= BatchSize
          /\ S = Select \/ Cardinality(S) = BatchSize
          /\ batch' = [batch EXCEPT ![i] = S]
    /\ isProcessing' = [isProcessing EXCEPT ![i] = TRUE]
    /\ UNCHANGED <<rows, due, marked, missed, sends, mishaps>>

\* publish resolves and the row is set PUBLISHED in the transaction.
Publish(i, r) ==
    /\ r \in batch[i]
    /\ batch' = [batch EXCEPT ![i] = @ \ {r}]
    /\ marked' = [marked EXCEPT ![i] = @ \cup {r}]
    /\ sends' = [sends EXCEPT ![r] = @ + 1]
    /\ UNCHANGED <<rows, due, isProcessing, missed, mishaps>>

\* publish rejects.  The broker may have the message all the same: only its
\* acknowledgement was lost.
PublishFails(i, r) ==
    /\ r \in batch[i]
    /\ batch' = [batch EXCEPT ![i] = @ \ {r}]
    /\ missed' = [missed EXCEPT ![i] = @ \cup {r}]
    /\ \/ UNCHANGED <<sends, mishaps>>
       \/ /\ mishaps[r] < MaxMishaps
          /\ sends' = [sends EXCEPT ![r] = @ + 1]
          /\ mishaps' = [mishaps EXCEPT ![r] = @ + 1]
    /\ UNCHANGED <<rows, due, isProcessing, marked>>

\* The row of a failed attempt: one attempt more, FAILED after the last.
Retried(row) ==
    [status |-> IF row.retryCount + 1 >= MaxAttempts THEN "failed" ELSE "pending",
     retryCount |-> row.retryCount + 1]

EndTick(i) ==
    /\ isProcessing' = [isProcessing EXCEPT ![i] = FALSE]
    /\ batch' = [batch EXCEPT ![i] = {}]
    /\ marked' = [marked EXCEPT ![i] = {}]
    /\ missed' = [missed EXCEPT ![i] = {}]

\* Slip: every row of the batch is set PUBLISHED.
CommitAll(i) ==
    /\ isProcessing[i] /\ batch[i] = {}
    /\ rows' = [r \in Rows |-> IF r \in marked[i] \cup missed[i] THEN [rows[r] EXCEPT !.status = "published"] ELSE rows[r]]
    /\ EndTick(i)
    /\ UNCHANGED <<due, sends, mishaps>>

\* Slip: a failed attempt is not counted.
CommitUncounted(i) ==
    /\ isProcessing[i] /\ batch[i] = {}
    /\ rows' = [r \in Rows |-> IF r \in marked[i] THEN [rows[r] EXCEPT !.status = "published"] ELSE rows[r]]
    /\ due' = [r \in Rows |-> due[r] /\ r \notin missed[i]]
    /\ EndTick(i)
    /\ UNCHANGED <<sends, mishaps>>

Commit(i) ==
    /\ isProcessing[i] /\ batch[i] = {}
    /\ rows' = [r \in Rows |-> CASE r \in marked[i] -> [rows[r] EXCEPT !.status = "published"]
                                 [] r \in missed[i] -> Retried(rows[r])
                                 [] OTHER -> rows[r]]
    /\ due' = [r \in Rows |-> due[r] /\ r \notin missed[i]]
    /\ EndTick(i)
    /\ UNCHANGED <<sends, mishaps>>

\* The process dies, the connection is lost or an UPDATE fails: nothing of
\* the transaction is left, its locks are released and isProcessing is clear
\* (the finally clause, or a new process).
Rollback(i) ==
    /\ isProcessing[i]
    /\ \A r \in marked[i] : mishaps[r] < MaxMishaps
    /\ mishaps' = [r \in Rows |-> IF r \in marked[i] THEN mishaps[r] + 1 ELSE mishaps[r]]
    /\ EndTick(i)
    /\ UNCHANGED <<rows, due, sends>>

ProcessPending(i) ==
    \/ Tick(i)
    \/ \E r \in Rows : Publish(i, r) \/ PublishFails(i, r)
    \/ Commit(i)

Next ==
    \/ \E r \in Rows : Insert(r) \/ TimePasses(r)
    \/ \E i \in Instances : ProcessPending(i) \/ Rollback(i)

Spec == Init /\ [][Next]_vars

\* The clock advances, @Interval keeps ticking, a tick works on, and crashes
\* and database failures stop at last: a batch of two may otherwise be rolled
\* back between its two rows for ever.
FairSpec ==
    /\ Spec
    /\ \A r \in Rows : WF_vars(TimePasses(r))
    /\ \A i \in Instances : WF_vars(ProcessPending(i))
    /\ <>[][~\E i \in Instances : Rollback(i)]_vars

-----------------------------------------------------------------------------
(***************************************************************************)
(* Properties                                                              *)
(***************************************************************************)

Log == {r \in Rows : sends[r] > 0}

\* A row that is marked PUBLISHED reached the broker, whatever transactions
\* were rolled back and whichever instance tried it first.
PublishedWasSent == \A r \in Rows : rows[r].status = "published" => r \in Log

\* isProcessing and SKIP LOCKED let no row be published twice, unless its mark
\* was rolled back or an acknowledgement was lost.
NoDuplicateWithoutMishap == \A r \in Rows : sends[r] <= 1 + mishaps[r]

\* A step of the processor is what Transport lets happen to the outbox in one
\* or more of its steps: a row is sent only while it is PENDING, and one that
\* stops being PENDING was sent or has used up its attempts.
BehavesAsTransport ==
    [][\/ UNCHANGED Log /\ Pending \subseteq Pending'
       \/ /\ Log \subseteq Log' /\ Log' \subseteq Log \cup Pending
          /\ Pending' \subseteq Pending
          /\ \A r \in Pending \ Pending' : r \in Log' \/ rows'[r].retryCount = MaxAttempts]_vars

\* A row is not PENDING for ever: it is published or given up.
EveryRowSettles ==
    \A r \in Rows : rows[r].status = "pending" ~> rows[r].status \in {"published", "failed"}

-----------------------------------------------------------------------------

\* The last send of row r is recorded, in the table or in a transaction.
Recorded(r) == rows[r].status = "published" \/ \E i \in Instances : r \in marked[i]

\* Locked rows are PENDING and have one holder.
LocksHold ==
    /\ \A i, j \in Instances : i # j => Locked(i) \cap Locked(j) = {}
    /\ \A i \in Instances :
          /\ Locked(i) \subseteq Pending
          /\ batch[i] \cap (marked[i] \cup missed[i]) = {}
          /\ marked[i] \cap missed[i] = {}
          /\ ~isProcessing[i] => Locked(i) = {}

\* A row that is not given up has attempts left.
AttemptsLeft ==
    \A r \in Rows : rows[r].status \in {"none", "pending"} => rows[r].retryCount < MaxAttempts

\* A row was sent as often as its mishaps explain, once more when recorded.
SendsExplained ==
    \A r \in Rows :
        /\ Recorded(r) => sends[r] = 1 + mishaps[r]
        /\ ~Recorded(r) => sends[r] = mishaps[r]

\* No row has two holders, too few attempts or a send that nothing explains:
\* the inductive invariant behind the theorems of OutboxProofs.
OutboxInv ==
    /\ LocksHold
    /\ AttemptsLeft
    /\ SendsExplained

=============================================================================
