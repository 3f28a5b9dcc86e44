-------------------------- MODULE RunKernelOutbox --------------------------
(***************************************************************************)
(* publishOutbox over the Run Kernel: publishers in several processes read *)
(* a batch of pending rows and then, row by row, hand the event to the     *)
(* consumer and mark the row published.  Commands go on committing rows.   *)
(***************************************************************************)
EXTENDS RunKernel

CONSTANTS Publisher,   \* the processes that drain the outbox
          Limit,       \* rows read per call
          Rank         \* the order of project ids

ASSUME OutboxAssumption ==
    /\ Limit \in Nat \ {0}
    /\ Rank \in [Project -> Nat]
    /\ \A a, b \in Project : Rank[a] = Rank[b] => a = b

VARIABLES batch,      \* the rows each publisher has still to publish
          sent,       \* publishers between publish() and the UPDATE
          delivered   \* the rows the consumer has received at least once

outboxVars == <<batch, sent, delivered>>
allVars == <<vars, outboxVars>>

OutboxTypeOK ==
    /\ batch \in [Publisher -> Seq(Project \X Nat)]
    /\ sent \subseteq Publisher
    /\ delivered \subseteq Project \X Nat

OutboxInit ==
    /\ Init
    /\ batch = [u \in Publisher |-> <<>>]
    /\ sent = {}
    /\ delivered = {}

\* ORDER BY project_id, sequence
Before(a, b) ==
    \/ Rank[a[1]] < Rank[b[1]]
    \/ a[1] = b[1] /\ a[2] < b[2]

\* LIMIT ?: b lists the oldest of the rows in order, Limit of them or all.
OldestFirst(b, rows) ==
    /\ \A i, j \in 1..Len(b) : i < j => Before(b[i], b[j])
    /\ \A row \in rows : \/ \E i \in 1..Len(b) : b[i] = row
                         \/ Len(b) = Limit /\ \A i \in 1..Len(b) : Before(b[i], row)

ReadBatch(u) ==
    /\ batch[u] = <<>>
    /\ \E k \in 1..Limit : \E b \in [1..k -> pending] :
          /\ OldestFirst(b, pending)
          /\ batch' = [batch EXCEPT ![u] = b]
    /\ UNCHANGED <<vars, sent, delivered>>

\* publish(event) resolves.
Publish(u) ==
    /\ batch[u] # <<>> /\ u \notin sent
    /\ delivered' = delivered \cup {Head(batch[u])}
    /\ sent' = sent \cup {u}
    /\ UNCHANGED <<vars, batch>>

\* UPDATE kernel_outbox SET published_at; a row another publisher marked stays so.
MarkPublished(u) ==
    /\ u \in sent
    /\ pending' = pending \ {Head(batch[u])}
    /\ batch' = [batch EXCEPT ![u] = Tail(@)]
    /\ sent' = sent \ {u}
    /\ UNCHANGED <<journal, proj, procVars, delivered>>

\* Mutants of PublishFails: the loop goes on with the next row; the row is marked all
\* the same.
PublishFailsSkipping(u) ==
    /\ batch[u] # <<>> /\ u \notin sent
    /\ delivered' \in {delivered, delivered \cup {Head(batch[u])}}
    /\ batch' = [batch EXCEPT ![u] = Tail(@)]
    /\ UNCHANGED <<vars, sent>>

PublishFailsMarking(u) ==
    /\ batch[u] # <<>> /\ u \notin sent
    /\ pending' = pending \ {Head(batch[u])}
    /\ batch' = [batch EXCEPT ![u] = <<>>]
    /\ UNCHANGED <<journal, proj, procVars, sent, delivered>>

\* publish(event) rejects, before or after it reached the consumer: the row stays
\* pending (its attempts and last_error are not modelled) and the call throws.
PublishFails(u) ==
    /\ batch[u] # <<>> /\ u \notin sent
    /\ delivered' \in {delivered, delivered \cup {Head(batch[u])}}
    /\ batch' = [batch EXCEPT ![u] = <<>>]
    /\ UNCHANGED <<vars, sent>>

\* The publisher dies; only what it marked is remembered.
PublisherCrash(u) ==
    /\ batch[u] # <<>>
    /\ batch' = [batch EXCEPT ![u] = <<>>]
    /\ sent' = sent \ {u}
    /\ UNCHANGED <<vars, delivered>>

OutboxNext ==
    \/ Next /\ UNCHANGED outboxVars
    \/ \E u \in Publisher : ReadBatch(u) \/ Publish(u) \/ MarkPublished(u)
                            \/ PublishFails(u) \/ PublisherCrash(u)

OutboxSpec == OutboxInit /\ [][OutboxNext]_allVars

-----------------------------------------------------------------------------
\* No event is lost: each row of the journal is still pending or has reached the
\* consumer, whatever publishers failed, died or overlapped.
NoEventLost ==
    \A pr \in Project : \A n \in Rows(pr) : <<pr, n>> \in pending \cup delivered

\* A consumer that drops repetitions sees a project's events in sequence order
\* and without holes, even with two publishers working through stale batches.
DeliveredInOrder ==
    \A row \in delivered : \A m \in 1..row[2] : <<row[1], m>> \in delivered
=============================================================================
