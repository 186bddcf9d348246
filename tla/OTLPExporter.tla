----------------------------- MODULE OTLPExporter -----------------------------
(***************************************************************************)
(* The OTLP/HTTP exporter of OTelExport (OTLPHTTPJSONExporter.swift).      *)
(*                                                                         *)
(* Two threads share it.  "caller" is the tool's run loop: it emits events *)
(* and aggregation snapshots, reports drops, flushes and, last, shuts the  *)
(* exporter down.  "sender" is the serial dispatch queue: it runs the      *)
(* batches that emit hands off and the events of the flush timer, whose    *)
(* handler is targeted at the same queue.  Both threads POST: a size-      *)
(* triggered batch and a timer flush on the sender, an explicit flush and  *)
(* the flush inside shutdown on the caller.                                *)
(*                                                                         *)
(* The n-th event and the n-th snapshot given to the exporter are named by *)
(* n.  A request is a payload: its path, the items it carries and the drop *)
(* count attached to its first record.  JSON, gzip, headers and the length *)
(* of sleeps are abstracted; what the collector does is a choice.          *)
(***************************************************************************)
EXTENDS Naturals, Sequences, Functions

CONSTANTS
    BatchSize,     \* init parameter batchSize
    MaxRetries,    \* init parameter maxRetries
    HasTimer,      \* flushInterval > 0
    MaxEvents,     \* bound: events emitted with a non-empty body
    MaxSnapshots,  \* bound: snapshots emitted with data points
    MaxDrops       \* bound: drops reported

ASSUME ExporterAssumption ==
    /\ BatchSize \in Nat \ {0}
    /\ MaxRetries \in Nat
    /\ HasTimer \in BOOLEAN
    /\ MaxEvents \in Nat /\ MaxSnapshots \in Nat /\ MaxDrops \in Nat

Threads == {"caller", "sender"}
Logs    == "v1/logs"
Metrics == "v1/metrics"
Paths   == {Logs, Metrics}
Limit   == [p \in Paths |-> IF p = Logs THEN MaxEvents ELSE MaxSnapshots]

Payload == [path : Paths, items : Seq(Nat \ {0}), drops : Nat]

(* A job of the sender queue: a payload handed off, or a timer event.      *)
Job == [timer : BOOLEAN, posts : Seq(Payload)]

VARIABLES
    batch,         \* log records not yet taken by a flush
    metricsBatch,  \* snapshots not yet taken by a flush
    pendingDrops,  \* drops reported since the last take
    senderQueue,   \* jobs waiting on the serial dispatch queue
    flushTimer,    \* "none", "armed" or "cancelled"
    pc,            \* where the caller is
    posts,         \* per thread, the payloads it took and has still to post
    attempt,       \* per thread, the retry number of the post in progress
    session,       \* the URLSession: "open" or "invalid"
    given,         \* per path, how many items the exporter was given
    reported,      \* how many drops were reported
    noted,         \* how many drops the settled payloads carried
    delivered,     \* per path, items whose post returned after a 2xx reply
    abandoned,     \* per path, items whose post gave up
    sent,          \* per path, how many requests carried each item
    copies         \* per path, how often the collector stored each item

shared == <<batch, metricsBatch, pendingDrops>>
history == <<given, reported, noted, delivered, abandoned, sent, copies>>
vars == <<shared, senderQueue, flushTimer, pc, posts, attempt, session, history>>

Items(payload) == {payload.items[i] : i \in DOMAIN payload.items}

Init ==
    /\ batch = <<>> /\ metricsBatch = <<>> /\ pendingDrops = 0
    /\ senderQueue = <<>> /\ flushTimer = "none"
    /\ pc = "new"
    /\ posts = [t \in Threads |-> <<>>]
    /\ attempt = [t \in Threads |-> 0]
    /\ session = "open"
    /\ given = [p \in Paths |-> 0] /\ reported = 0 /\ noted = 0
    /\ delivered = [p \in Paths |-> {}] /\ abandoned = [p \in Paths |-> {}]
    /\ sent = [p \in Paths |-> [n \in 1..Limit[p] |-> 0]] /\ copies = sent

-----------------------------------------------------------------------------
(* The caller.                                                             *)

(* Mutant: the flush timer is never resumed.                               *)
StartWithoutTimer ==
    /\ pc = "new"
    /\ pc' = "ready"
    /\ flushTimer' = "none"
    /\ UNCHANGED <<shared, senderQueue, posts, attempt, session, history>>

Start ==
    /\ pc = "new"
    /\ pc' = "ready"
    /\ flushTimer' = IF HasTimer THEN "armed" ELSE "none"
    /\ UNCHANGED <<shared, senderQueue, posts, attempt, session, history>>

(* libdtrace's drop handler runs inside the run loop's poll.               *)
ReportDrops ==
    /\ pc = "ready"
    /\ reported < MaxDrops
    /\ pendingDrops' = pendingDrops + 1
    /\ reported' = reported + 1
    /\ UNCHANGED <<batch, metricsBatch, senderQueue, flushTimer, pc, posts,
                   attempt, session, given, noted, delivered, abandoned,
                   sent, copies>>

LogsPayload(records, drops) ==
    [path |-> Logs, items |-> records, drops |-> drops]
MetricsPayload(snapshots) ==
    [path |-> Metrics, items |-> snapshots, drops |-> 0]

(* Mutant: the record is inserted at the front of the batch.               *)
EmitEventPrepends ==
    LET extended == <<given[Logs] + 1>> \o batch
    IN  /\ pc = "ready"
        /\ given[Logs] < MaxEvents
        /\ given' = [given EXCEPT ![Logs] = @ + 1]
        /\ \/ /\ Len(extended) >= BatchSize
              /\ posts' = [posts EXCEPT !["caller"] =
                              <<LogsPayload(extended, pendingDrops)>>]
              /\ batch' = <<>> /\ pendingDrops' = 0
              /\ pc' = "handoff"
           \/ /\ Len(extended) < BatchSize
              /\ batch' = extended
              /\ UNCHANGED <<pendingDrops, posts, pc>>
        /\ UNCHANGED <<metricsBatch, senderQueue, flushTimer, attempt, session,
                       reported, noted, delivered, abandoned, sent,
                       copies>>

(* The locked section of emit(event:): append, and take a full batch.      *)
EmitEvent ==
    LET appended == Append(batch, given[Logs] + 1)
    IN  /\ pc = "ready"
        /\ given[Logs] < MaxEvents
        /\ given' = [given EXCEPT ![Logs] = @ + 1]
        /\ \/ /\ Len(appended) >= BatchSize
              /\ posts' = [posts EXCEPT !["caller"] =
                              <<LogsPayload(appended, pendingDrops)>>]
              /\ batch' = <<>> /\ pendingDrops' = 0
              /\ pc' = "handoff"
           \/ /\ Len(appended) < BatchSize
              /\ batch' = appended
              /\ UNCHANGED <<pendingDrops, posts, pc>>
        /\ UNCHANGED <<metricsBatch, senderQueue, flushTimer, attempt, session,
                       reported, noted, delivered, abandoned, sent,
                       copies>>

(* The rest of emit(event:), after the lock is released.                   *)
AsyncPost ==
    /\ pc = "handoff"
    /\ senderQueue' = Append(senderQueue,
                             [timer |-> FALSE, posts |-> posts["caller"]])
    /\ posts' = [posts EXCEPT !["caller"] = <<>>]
    /\ pc' = "ready"
    /\ UNCHANGED <<shared, flushTimer, attempt, session, history>>

EmitSnapshot ==
    /\ pc = "ready"
    /\ given[Metrics] < MaxSnapshots
    /\ metricsBatch' = Append(metricsBatch, given[Metrics] + 1)
    /\ given' = [given EXCEPT ![Metrics] = @ + 1]
    /\ UNCHANGED <<batch, pendingDrops, senderQueue, flushTimer, pc, posts,
                   attempt, session, reported, noted, delivered, abandoned, sent,
                       copies>>

(* What a flush posts, in this order; an empty batch is not posted.        *)
Pending ==
    (IF batch = <<>> THEN <<>> ELSE <<LogsPayload(batch, pendingDrops)>>)
    \o (IF metricsBatch = <<>> THEN <<>> ELSE <<MetricsPayload(metricsBatch)>>)

(* Mutants: a flush forgets to reset the drops, to clear the records, or   *)
(* to post the snapshots it clears.                                        *)
TakeAllKeepsDrops(t) ==
    /\ posts' = [posts EXCEPT ![t] = Pending]
    /\ batch' = <<>> /\ metricsBatch' = <<>> /\ UNCHANGED pendingDrops
TakeAllKeepsBatch(t) ==
    /\ posts' = [posts EXCEPT ![t] = Pending]
    /\ metricsBatch' = <<>> /\ pendingDrops' = 0 /\ UNCHANGED batch
TakeAllLosesMetrics(t) ==
    /\ posts' = [posts EXCEPT ![t] = SelectSeq(Pending, LAMBDA p : p.path = Logs)]
    /\ batch' = <<>> /\ metricsBatch' = <<>> /\ pendingDrops' = 0

(* The locked section of flush and of timerFlush, on thread t.             *)
TakeAll(t) ==
    /\ posts' = [posts EXCEPT ![t] = Pending]
    /\ batch' = <<>> /\ metricsBatch' = <<>> /\ pendingDrops' = 0

Flush ==
    /\ pc = "ready"
    /\ TakeAll("caller")
    /\ pc' = "flushing"
    /\ UNCHANGED <<senderQueue, flushTimer, attempt, session, history>>

FlushReturn ==
    /\ pc = "flushing" /\ posts["caller"] = <<>>
    /\ pc' = "ready"
    /\ UNCHANGED <<shared, senderQueue, flushTimer, posts, attempt, session,
                   history>>

(* shutdown: cancel the timer, wait for the sender, flush, close.          *)
CancelTimer ==
    /\ pc = "ready"
    /\ flushTimer' = IF flushTimer = "armed" THEN "cancelled" ELSE flushTimer
    /\ pc' = "syncing"
    /\ UNCHANGED <<shared, senderQueue, posts, attempt, session, history>>

(* Mutant: shutdown does not wait for the sender queue.                    *)
SyncSenderSkipped ==
    /\ pc = "syncing"
    /\ pc' = "draining"
    /\ UNCHANGED <<shared, senderQueue, flushTimer, posts, attempt, session,
                   history>>

(* senderQueue.sync { } returns once every job queued before it has run;   *)
(* nothing is queued behind it, the caller being blocked and the timer     *)
(* cancelled.                                                              *)
SyncSender ==
    /\ pc = "syncing"
    /\ senderQueue = <<>> /\ posts["sender"] = <<>>
    /\ pc' = "draining"
    /\ UNCHANGED <<shared, senderQueue, flushTimer, posts, attempt, session,
                   history>>

ShutdownFlush ==
    /\ pc = "draining"
    /\ TakeAll("caller")
    /\ pc' = "closing"
    /\ UNCHANGED <<senderQueue, flushTimer, attempt, session, history>>

(* Mutant: shutdown flushes again for as long as a post has given up.       *)
InvalidateOnlyWhenDelivered ==
    /\ pc = "closing" /\ posts["caller"] = <<>>
    /\ \/ /\ \A p \in Paths : abandoned[p] = {}
          /\ session' = "invalid" /\ pc' = "closed"
       \/ /\ \E p \in Paths : abandoned[p] # {}
          /\ pc' = "draining" /\ UNCHANGED session
    /\ UNCHANGED <<shared, senderQueue, flushTimer, posts, attempt, history>>

Invalidate ==
    /\ pc = "closing" /\ posts["caller"] = <<>>
    /\ session' = "invalid"
    /\ pc' = "closed"
    /\ UNCHANGED <<shared, senderQueue, flushTimer, posts, attempt, history>>

-----------------------------------------------------------------------------
(* The sender queue and its timer.                                         *)

(* A timer source holds at most one event that its queue has not run.      *)
TimerFires ==
    /\ flushTimer = "armed"
    /\ \A j \in DOMAIN senderQueue : ~senderQueue[j].timer
    /\ senderQueue' = Append(senderQueue, [timer |-> TRUE, posts |-> <<>>])
    /\ UNCHANGED <<shared, flushTimer, pc, posts, attempt, session, history>>

RunHandoff ==
    /\ posts["sender"] = <<>> /\ senderQueue # <<>>
    /\ ~Head(senderQueue).timer
    /\ posts' = [posts EXCEPT !["sender"] = Head(senderQueue).posts]
    /\ senderQueue' = Tail(senderQueue)
    /\ UNCHANGED <<shared, flushTimer, pc, attempt, session, history>>

(* timerFlush; a cancelled source never runs its handler.                  *)
RunTimer ==
    /\ posts["sender"] = <<>> /\ senderQueue # <<>>
    /\ Head(senderQueue).timer
    /\ senderQueue' = Tail(senderQueue)
    /\ \/ flushTimer = "armed" /\ TakeAll("sender")
       \/ flushTimer # "armed" /\ UNCHANGED <<shared, posts>>
    /\ UNCHANGED <<flushTimer, pc, attempt, session, history>>

-----------------------------------------------------------------------------
(* post: one attempt of the retry loop, on either thread.                  *)

(* What an attempt may come back with.  A 2xx ends the post, also one whose *)
(* partialSuccess says that the collector stored nothing.  A transport      *)
(* error or a 429, 502, 503 or 504 is retried.  Any other status is final.  *)
(* None of them says whether the collector stores the request, or when.     *)
Replies == {"success", "retryable", "fatal"}

IsPosting(t) ==
    /\ posts[t] # <<>>
    /\ t = "caller" => pc \in {"flushing", "closing"}

(* Mutant: one attempt too many.                                           *)
IsFinalOffByOne(t, reply) ==
    reply # "retryable" \/ attempt[t] > MaxRetries

(* The retry loop returns with this reply.                                 *)
IsFinal(t, reply) ==
    reply # "retryable" \/ attempt[t] = MaxRetries

Settle(t, payload, reply) ==
    /\ posts' = [posts EXCEPT ![t] = Tail(@)]
    /\ attempt' = [attempt EXCEPT ![t] = 0]
    /\ noted' = noted + payload.drops
    /\ \/ /\ reply = "success"
          /\ delivered' = [delivered EXCEPT ![payload.path] = @ \cup Items(payload)]
          /\ UNCHANGED abandoned
       \/ /\ reply # "success"
          /\ abandoned' = [abandoned EXCEPT ![payload.path] = @ \cup Items(payload)]
          /\ UNCHANGED delivered

Retry(t) ==
    /\ attempt' = [attempt EXCEPT ![t] = @ + 1]
    /\ UNCHANGED <<posts, noted, delivered, abandoned>>

Send(payload) ==
    sent' = [sent EXCEPT ![payload.path] =
               [n \in DOMAIN @ |-> IF n \in Items(payload) THEN @[n] + 1 ELSE @[n]]]

PostAttempt(t, reply) ==
    LET payload == Head(posts[t])
    IN  /\ IsPosting(t)
        /\ Send(payload)
        /\ IF IsFinal(t, reply) THEN Settle(t, payload, reply) ELSE Retry(t)
        /\ UNCHANGED <<shared, senderQueue, flushTimer, pc, session, given, reported,
                       copies>>

(* The collector stores an item of a request it was sent, once for each    *)
(* request: before the client has the reply, after the client gave up      *)
(* waiting for it and has sent the next, after shutdown, or never.         *)
CollectorStores ==
    /\ \E p \in Paths : \E n \in 1..Limit[p] :
          /\ copies[p][n] < sent[p][n]
          /\ copies' = [copies EXCEPT ![p][n] = @ + 1]
    /\ UNCHANGED <<shared, senderQueue, flushTimer, pc, posts, attempt, session, given,
                   reported, noted, delivered, abandoned, sent>>

-----------------------------------------------------------------------------

(* The tool ends once shutdown has returned.                               *)
Closed == pc = "closed" /\ UNCHANGED vars

CallerStep ==
    \/ AsyncPost \/ FlushReturn \/ SyncSender \/ ShutdownFlush \/ Invalidate
    \/ \E reply \in Replies : PostAttempt("caller", reply)

SenderStep ==
    \/ RunHandoff \/ RunTimer
    \/ \E reply \in Replies : PostAttempt("sender", reply)

Next ==
    \/ Start \/ ReportDrops \/ EmitEvent \/ EmitSnapshot \/ Flush \/ CancelTimer
    \/ CallerStep \/ SenderStep \/ TimerFires \/ CollectorStores \/ Closed

Spec == Init /\ [][Next]_vars

(* A call in progress runs on, the dispatch queue runs its jobs and the    *)
(* timer repeats; every attempt ends, by its reply or by exportTimeout.    *)
(* Nothing obliges the tool to make a call.                                *)
Fairness == WF_vars(CallerStep) /\ WF_vars(SenderStep) /\ WF_vars(TimerFires)
FairSpec == Spec /\ Fairness

-----------------------------------------------------------------------------
(* Properties.                                                             *)

TypeOK ==
    /\ batch \in Seq(Nat \ {0}) /\ metricsBatch \in Seq(Nat \ {0})
    /\ pendingDrops \in Nat
    /\ senderQueue \in Seq(Job)
    /\ flushTimer \in {"none", "armed", "cancelled"}
    /\ pc \in {"new", "ready", "handoff", "flushing", "syncing", "draining",
               "closing", "closed"}
    /\ posts \in [Threads -> Seq(Payload)]
    /\ attempt \in [Threads -> 0..MaxRetries]
    /\ session \in {"open", "invalid"}
    /\ given \in [Paths -> Nat]
    /\ reported \in Nat /\ noted \in Nat
    /\ delivered \in [Paths -> SUBSET (Nat \ {0})]
    /\ abandoned \in [Paths -> SUBSET (Nat \ {0})]
    /\ DOMAIN sent = Paths /\ DOMAIN copies = Paths
    /\ \A p \in Paths : sent[p] \in [1..Limit[p] -> Nat] /\ copies[p] \in [1..Limit[p] -> Nat]

(* Consecutive numbers.                                                    *)
IsRun(s) == \A i \in DOMAIN s : s[i] = s[1] + (i - 1)
HoldsRuns(s) == \A i \in DOMAIN s : s[i].items # <<>> /\ IsRun(s[i].items)

(* What the lock is for: whichever thread takes a batch, at a size trigger, *)
(* a flush or a timer event, takes a run of consecutively emitted items,    *)
(* and what it leaves behind is the run of items emitted since.             *)
TakesAreRuns ==
    /\ \A t \in Threads : HoldsRuns(posts[t])
    /\ \A j \in DOMAIN senderQueue : HoldsRuns(senderQueue[j].posts)
    /\ \A i \in DOMAIN batch : batch[i] = given[Logs] - Len(batch) + i
    /\ \A i \in DOMAIN metricsBatch :
          metricsBatch[i] = given[Metrics] - Len(metricsBatch) + i

(* shutdown leaves nothing behind: when the session is invalidated no       *)
(* thread is posting, no job waits and nothing sits in a batch, whatever    *)
(* the timer and the queue were doing when shutdown was called.             *)
DrainedWhenInvalid ==
    session = "invalid" =>
        /\ \A t \in Threads : posts[t] = <<>>
        /\ senderQueue = <<>>
        /\ batch = <<>> /\ metricsBatch = <<>>

(* A retry may store a request twice (a reply lost, or a request that the   *)
(* client timed out and the collector stored later), but no item is stored  *)
(* more often than a post has attempts, so no two payloads ever carry the   *)
(* same item to the collector.                                              *)
CopiesBounded ==
    \A p \in Paths : \A n \in DOMAIN copies[p] : copies[p][n] <= MaxRetries + 1

(* Once the post of an item has returned, with a 2xx or given up, no        *)
(* request carries the item again: what the collector stores of it later    *)
(* is a request that was sent before.                                       *)
NoRequestAfterSettled ==
    [][\A p \in Paths : \A n \in delivered[p] \cup abandoned[p] :
          sent'[p][n] = sent[p][n]]_vars

(* Drops carried by payloads that are taken but not settled.                *)
SumDrops(payloads) == SumFunction([i \in DOMAIN payloads |-> payloads[i].drops])
QueuedDrops(jobs)  == SumFunction([j \in DOMAIN jobs |-> SumDrops(jobs[j].posts)])
DropsInFlight ==
    SumDrops(posts["caller"]) + SumDrops(posts["sender"]) + QueuedDrops(senderQueue)

(* No drop is counted twice: take and reset are one locked step, so a drop  *)
(* is pending, on one payload in flight, or on one settled payload.         *)
DropsNotInflated == pendingDrops + DropsInFlight + noted <= reported

(* shutdown returns, and everything emitted before it is settled.           *)
ShutdownReturns == pc = "syncing" ~> pc = "closed"

(* With a flush timer every event given to the exporter is settled even if  *)
(* the tool never calls it again: neither a batch below the size trigger    *)
(* nor a full sender queue strands it.                                      *)
EveryEventSettles ==
    \A n \in 1..MaxEvents :
        given[Logs] >= n ~> n \in delivered[Logs] \cup abandoned[Logs]

(* What the exporter promises of each item, see Delivery.                   *)
Unsettled == [p \in Paths |-> (1..given[p]) \ (delivered[p] \cup abandoned[p])]
Promise == INSTANCE Delivery WITH Channels <- Paths, accepted <- given,
               pending <- Unsettled, open <- (pc # "closed")
DeliverySpec == Promise!Spec

-----------------------------------------------------------------------------
(* The inductive invariant behind the safety properties.                   *)

(* The items of path p that the payloads of the sequence s carry.          *)
Carried(s, p) == UNION {Items(s[i]) : i \in {k \in DOMAIN s : s[k].path = p}}

(* Items of path p that left the batch: 1..Taken(p), for batches are runs. *)
Waiting(p) == IF p = Logs THEN batch ELSE metricsBatch
Taken(p) == given[p] - Len(Waiting(p))
Settled(p) == delivered[p] \cup abandoned[p]

(* A batch is the run of the items given last.                             *)
BatchInv ==
    \A p \in Paths :
        /\ Len(Waiting(p)) <= given[p] /\ given[p] <= Limit[p]
        /\ \A i \in DOMAIN Waiting(p) : Waiting(p)[i] = Taken(p) + i

(* A payload holds a non-empty run, and one take never yields two payloads *)
(* of the same path.                                                       *)
WellFormed(s) ==
    /\ HoldsRuns(s)
    /\ \A i, k \in DOMAIN s : i # k => s[i].path # s[k].path

ShapeInv ==
    /\ \A t \in Threads : WellFormed(posts[t])
    /\ \A j \in DOMAIN senderQueue :
          /\ WellFormed(senderQueue[j].posts)
          /\ senderQueue[j].timer => senderQueue[j].posts = <<>>

(* Payloads in flight carry taken items that are not settled, no two       *)
(* places carry the same item, and every taken item is settled or carried. *)
OpenInv ==
    \A p \in Paths :
        /\ \A t \in Threads : Carried(posts[t], p) \subseteq (1..Taken(p)) \ Settled(p)
        /\ \A j \in DOMAIN senderQueue :
              Carried(senderQueue[j].posts, p) \subseteq (1..Taken(p)) \ Settled(p)

ApartInv ==
    \A p \in Paths :
        /\ Carried(posts["caller"], p) \cap Carried(posts["sender"], p) = {}
        /\ \A t \in Threads, j \in DOMAIN senderQueue :
              Carried(posts[t], p) \cap Carried(senderQueue[j].posts, p) = {}
        /\ \A j, k \in DOMAIN senderQueue : j # k =>
              Carried(senderQueue[j].posts, p) \cap Carried(senderQueue[k].posts, p) = {}

NothingLostInv ==
    \A p \in Paths :
        /\ Settled(p) \subseteq 1..Taken(p)
        /\ delivered[p] \cap abandoned[p] = {}
        /\ \A n \in 1..Taken(p) :
              \/ n \in Settled(p)
              \/ \E t \in Threads : n \in Carried(posts[t], p)
              \/ \E j \in DOMAIN senderQueue : n \in Carried(senderQueue[j].posts, p)

(* What is empty, as a function of where the caller is.                    *)
ControlInv ==
    /\ pc \in {"new", "syncing", "draining", "closing", "closed"} => flushTimer # "armed"
    /\ pc \notin {"handoff", "flushing", "closing"} => posts["caller"] = <<>>
    /\ pc \in {"draining", "closing", "closed"} =>
          senderQueue = <<>> /\ posts["sender"] = <<>>
    /\ pc \in {"closing", "closed"} => batch = <<>> /\ metricsBatch = <<>>
    /\ session = "invalid" <=> pc = "closed"
    /\ \A t \in Threads : ~IsPosting(t) => attempt[t] = 0

(* No request carried an item that no post has tried, and one being posted *)
(* was in at most one per attempt made; the collector stored no more.      *)
CopiesInv ==
    \A p \in Paths : \A n \in 1..Limit[p] :
        /\ sent[p][n] <= MaxRetries + 1
        /\ n > Taken(p) => sent[p][n] = 0
        /\ \A j \in DOMAIN senderQueue :
              n \in Carried(senderQueue[j].posts, p) => sent[p][n] = 0
        /\ \A t \in Threads : n \in Carried(posts[t], p) =>
              sent[p][n] <= IF p = Head(posts[t]).path THEN attempt[t] ELSE 0

StoredInv == \A p \in Paths : \A n \in 1..Limit[p] : copies[p][n] <= sent[p][n]

IInv ==
    /\ TypeOK /\ BatchInv /\ ShapeInv /\ OpenInv /\ ApartInv /\ NothingLostInv
    /\ ControlInv /\ CopiesInv /\ StoredInv
=============================================================================
