-------------------------- MODULE OTLPExporterProofs --------------------------
(***************************************************************************)
(* Proofs about OTLPExporter, for every batch size, retry limit, timer     *)
(* setting and number of items.                                            *)
(***************************************************************************)
EXTENDS OTLPExporter, InductionTheorems

(* The two threads and the two paths, by name.                             *)
LEMMA Names ==
    /\ "caller" \in Threads /\ "sender" \in Threads
    /\ Logs \in Paths /\ Metrics \in Paths /\ Logs # Metrics
    /\ \A t \in Threads : t = "caller" \/ t = "sender"
    /\ \A p \in Paths : p = Logs \/ p = Metrics
BY DEF Threads, Paths, Logs, Metrics

-----------------------------------------------------------------------------
(* Type correctness.                                                       *)

LEMMA ExceptType ==
    ASSUME NEW D, NEW S, NEW f \in [D -> S], NEW d, NEW x \in S
    PROVE  [f EXCEPT ![d] = x] \in [D -> S]
OBVIOUS

(* What a flush takes is a sequence of payloads.                           *)
LEMMA PendingType == TypeOK => Pending \in Seq(Payload)
<1> SUFFICES ASSUME TypeOK PROVE Pending \in Seq(Payload)
    OBVIOUS
<1>1. LogsPayload(batch, pendingDrops) \in Payload
    BY Names DEF TypeOK, LogsPayload, Payload
<1>2. MetricsPayload(metricsBatch) \in Payload
    BY Names DEF TypeOK, MetricsPayload, Payload
<1>3. \A x \in Payload : <<x>> \in Seq(Payload)
    OBVIOUS
<1>4. <<>> \in Seq(Payload)
    OBVIOUS
<1>5. \A s1, s2 \in Seq(Payload) : s1 \o s2 \in Seq(Payload)
    OBVIOUS
<1> HIDE DEF Payload
<1> QED BY <1>1, <1>2, <1>3, <1>4, <1>5 DEF Pending

(* A locked take leaves well-typed shared state.                           *)
LEMMA TakeAllType ==
    ASSUME TypeOK, NEW t \in Threads, TakeAll(t)
    PROVE  /\ posts' \in [Threads -> Seq(Payload)]
           /\ batch' \in Seq(Nat \ {0}) /\ metricsBatch' \in Seq(Nat \ {0})
           /\ pendingDrops' \in Nat
<1>1. Pending \in Seq(Payload)
    BY PendingType
<1>2. posts' = [posts EXCEPT ![t] = Pending] /\ batch' = <<>> /\ metricsBatch' = <<>>
      /\ pendingDrops' = 0
    BY DEF TakeAll
<1>3. posts \in [Threads -> Seq(Payload)]
    BY DEF TypeOK
<1> QED BY <1>1, <1>2, <1>3

(* A payload's fields.                                                     *)
LEMMA PayloadFields ==
    ASSUME NEW payload \in Payload
    PROVE  /\ payload.path \in Paths /\ payload.items \in Seq(Nat \ {0})
           /\ payload.drops \in Nat
           /\ Items(payload) \subseteq Nat \ {0}
BY DEF Payload, Items

(* The payload being posted is the head of the thread's sequence.          *)
LEMMA HeadPayload ==
    ASSUME TypeOK, NEW t \in Threads, posts[t] # <<>>
    PROVE  Head(posts[t]) \in Payload /\ Tail(posts[t]) \in Seq(Payload)
<1>1. posts[t] \in Seq(Payload)
    BY DEF TypeOK
<1> QED BY <1>1

(* Counting one more copy of the members of a set.                         *)
LEMMA CountType ==
    ASSUME NEW D, NEW f \in [D -> Nat], NEW S
    PROVE  [n \in DOMAIN f |-> IF n \in S THEN f[n] + 1 ELSE f[n]] \in [D -> Nat]
OBVIOUS

(* An item's number is never zero.                                         *)
LEMMA AppendType ==
    ASSUME NEW s \in Seq(Nat \ {0}), NEW n \in Nat
    PROVE  Append(s, n + 1) \in Seq(Nat \ {0})
<1>1. n + 1 \in Nat \ {0}
    OBVIOUS
<1> QED BY <1>1

LEMMA SendType ==
    ASSUME DOMAIN sent = Paths,
           \A p \in Paths : sent[p] \in [1..Limit[p] -> Nat],
           NEW payload \in Payload, Send(payload)
    PROVE  /\ DOMAIN sent' = Paths
           /\ \A p \in Paths : sent'[p] \in [1..Limit[p] -> Nat]
           /\ \A p \in Paths : \A n \in 1..Limit[p] : sent'[p][n] =
                IF p = payload.path /\ n \in Items(payload)
                THEN sent[p][n] + 1 ELSE sent[p][n]
<1> DEFINE f == sent[payload.path]
           g == [n \in DOMAIN f |-> IF n \in Items(payload) THEN f[n] + 1 ELSE f[n]]
<1>1. payload.path \in Paths
    BY PayloadFields
<1>2. f \in [1..Limit[payload.path] -> Nat]
    BY <1>1
<1> HIDE DEF f
<1>3. g \in [1..Limit[payload.path] -> Nat]
    BY <1>2, CountType
<1>4. \A n \in 1..Limit[payload.path] :
         g[n] = IF n \in Items(payload) THEN f[n] + 1 ELSE f[n]
    BY <1>2
<1>5. sent' = [sent EXCEPT ![payload.path] = g]
    BY DEF Send, f
<1> HIDE DEF g
<1> QED BY <1>1, <1>3, <1>4, <1>5 DEF f

LEMMA SettleType ==
    ASSUME TypeOK, NEW t \in Threads, NEW payload \in Payload, NEW verdict,
           posts[t] # <<>>, Settle(t, payload, verdict)
    PROVE  /\ posts' \in [Threads -> Seq(Payload)]
           /\ attempt' \in [Threads -> 0..MaxRetries]
           /\ noted' \in Nat
           /\ delivered' \in [Paths -> SUBSET (Nat \ {0})]
           /\ abandoned' \in [Paths -> SUBSET (Nat \ {0})]
<1>1. /\ posts \in [Threads -> Seq(Payload)] /\ attempt \in [Threads -> 0..MaxRetries]
      /\ noted \in Nat
      /\ delivered \in [Paths -> SUBSET (Nat \ {0})]
      /\ abandoned \in [Paths -> SUBSET (Nat \ {0})]
    BY DEF TypeOK
<1>2. payload.path \in Paths /\ payload.drops \in Nat /\ Items(payload) \subseteq Nat \ {0}
    BY PayloadFields
<1>3. posts' \in [Threads -> Seq(Payload)]
    BY <1>1, HeadPayload DEF Settle
<1>4. attempt' \in [Threads -> 0..MaxRetries]
    BY <1>1, ExporterAssumption DEF Settle
<1>5. noted' \in Nat
    BY <1>1, <1>2 DEF Settle
<1>6. /\ delivered' \in [Paths -> SUBSET (Nat \ {0})]
      /\ abandoned' \in [Paths -> SUBSET (Nat \ {0})]
    BY <1>1, <1>2 DEF Settle
<1> QED BY <1>3, <1>4, <1>5, <1>6

(* An attempt on either thread keeps every variable in its type.           *)
LEMMA PostAttemptType ==
    ASSUME TypeOK, NEW t \in Threads, NEW reply \in Replies, PostAttempt(t, reply)
    PROVE  TypeOK'
<1>1. posts[t] # <<>>
    BY DEF PostAttempt, IsPosting
<1>2. PICK payload \in Payload : payload = Head(posts[t])
    BY <1>1, HeadPayload
<1>3. DOMAIN sent' = Paths /\ \A p \in Paths : sent'[p] \in [1..Limit[p] -> Nat]
  <2>1. DOMAIN sent = Paths /\ \A p \in Paths : sent[p] \in [1..Limit[p] -> Nat]
      BY DEF TypeOK
  <2>2. Send(payload)
      BY <1>2 DEF PostAttempt
  <2> QED BY <2>1, <2>2, SendType
<1>4. /\ posts' \in [Threads -> Seq(Payload)] /\ attempt' \in [Threads -> 0..MaxRetries]
      /\ noted' \in Nat
      /\ delivered' \in [Paths -> SUBSET (Nat \ {0})]
      /\ abandoned' \in [Paths -> SUBSET (Nat \ {0})]
  <2>1. CASE IsFinal(t, reply)
    <3>1. Settle(t, payload, reply)
        BY <1>2, <2>1 DEF PostAttempt
    <3> QED BY <1>1, <3>1, SettleType
  <2>2. CASE ~IsFinal(t, reply)
    <3>1. Retry(t)
        BY <2>2 DEF PostAttempt
    <3>2. attempt \in [Threads -> 0..MaxRetries] /\ attempt[t] # MaxRetries
        BY <2>2 DEF IsFinal, TypeOK
    <3>3. attempt' \in [Threads -> 0..MaxRetries]
        BY <3>1, <3>2, ExporterAssumption DEF Retry
    <3> QED BY <3>1, <3>3 DEF Retry, TypeOK
  <2> QED BY <2>1, <2>2
<1> QED BY <1>3, <1>4 DEF TypeOK, PostAttempt, shared

(* The collector stores one more of an item that was sent; nothing else    *)
(* changes.                                                                *)
LEMMA CollectorEffect ==
    ASSUME TypeOK, CollectorStores
    PROVE  /\ UNCHANGED <<batch, metricsBatch, pendingDrops, senderQueue, flushTimer, pc, posts,
                          attempt, session, given, reported, noted, delivered, abandoned, sent>>
           /\ DOMAIN copies' = Paths
           /\ \A p \in Paths : copies'[p] \in [1..Limit[p] -> Nat]
           /\ StoredInv => StoredInv'
<1>1. PICK p \in Paths : \E n \in 1..Limit[p] :
         /\ copies[p][n] < sent[p][n]
         /\ copies' = [copies EXCEPT ![p][n] = @ + 1]
    BY DEF CollectorStores
<1>2. PICK n \in 1..Limit[p] : /\ copies[p][n] < sent[p][n]
                              /\ copies' = [copies EXCEPT ![p][n] = @ + 1]
    BY <1>1
<1>3. /\ DOMAIN copies = Paths
      /\ \A q \in Paths : sent[q] \in [1..Limit[q] -> Nat] /\ copies[q] \in [1..Limit[q] -> Nat]
    BY DEF TypeOK
<1>4. copies[p][n] \in Nat /\ sent[p][n] \in Nat
    BY <1>3
<1>5. /\ copies'[p] = [copies[p] EXCEPT ![n] = copies[p][n] + 1]
      /\ \A q \in Paths : q # p => copies'[q] = copies[q]
      /\ DOMAIN copies' = Paths
    BY <1>2, <1>3
<1>6. \A q \in Paths : copies'[q] \in [1..Limit[q] -> Nat]
  <2>1. copies[p] \in [1..Limit[p] -> Nat] /\ copies[p][n] + 1 \in Nat
      BY <1>3, <1>4
  <2>2. copies'[p] \in [1..Limit[p] -> Nat]
      BY <1>5, <2>1, ExceptType
  <2> QED BY <1>3, <1>5, <2>2
<1>7. UNCHANGED <<batch, metricsBatch, pendingDrops, senderQueue, flushTimer, pc, posts,
                  attempt, session, given, reported, noted, delivered, abandoned, sent>>
    BY DEF CollectorStores, shared
<1>8. ASSUME StoredInv, NEW q \in Paths, NEW m \in 1..Limit[q]
      PROVE  copies'[q][m] <= sent'[q][m]
  <2>1. copies[q][m] <= sent[q][m]
      BY <1>8 DEF StoredInv
  <2>2. CASE q = p /\ m = n
      BY <1>2, <1>3, <1>4, <1>5, <1>7, <2>2
  <2>3. CASE ~(q = p /\ m = n)
      BY <1>3, <1>5, <1>7, <2>1, <2>3
  <2> QED BY <2>2, <2>3
<1> QED BY <1>5, <1>6, <1>7, <1>8 DEF StoredInv

LEMMA TypeStep == TypeOK /\ [Next]_vars => TypeOK'
<1> SUFFICES ASSUME TypeOK, [Next]_vars PROVE TypeOK'
    OBVIOUS
<1>1. CASE Start
    BY <1>1 DEF Start, TypeOK, shared, history
<1>2. CASE ReportDrops
    BY <1>2 DEF ReportDrops, TypeOK
<1>3. CASE EmitEvent
  <2>1. /\ batch \in Seq(Nat \ {0}) /\ pendingDrops \in Nat /\ given \in [Paths -> Nat]
        /\ posts \in [Threads -> Seq(Payload)]
        /\ pc = "ready"
      BY <1>3 DEF TypeOK, EmitEvent
  <2>2. PICK appended \in Seq(Nat \ {0}) : appended = Append(batch, given[Logs] + 1)
      BY <2>1, Names, AppendType
  <2>3. given' \in [Paths -> Nat]
      BY <1>3, <2>1, Names DEF EmitEvent
  <2>4. <<LogsPayload(appended, pendingDrops)>> \in Seq(Payload)
      BY <2>1, <2>2, Names DEF LogsPayload, Payload
  <2>5. /\ posts' \in [Threads -> Seq(Payload)] /\ batch' \in Seq(Nat \ {0})
        /\ pendingDrops' \in Nat /\ pc' \in {"ready", "handoff"}
    <3>1. CASE Len(appended) >= BatchSize
      <4>1. /\ posts' = [posts EXCEPT !["caller"] = <<LogsPayload(appended, pendingDrops)>>]
            /\ batch' = <<>> /\ pendingDrops' = 0 /\ pc' = "handoff"
        <5>1. Len(appended) \in Nat /\ BatchSize \in Nat
            BY <2>2, ExporterAssumption
        <5>2. ~(Len(appended) < BatchSize)
            BY <3>1, <5>1
        <5> QED BY <1>3, <2>2, <5>2 DEF EmitEvent
      <4>2. posts' \in [Threads -> Seq(Payload)]
          BY <2>1, <2>4, <4>1, ExceptType
      <4> QED BY <4>1, <4>2
    <3>2. CASE ~(Len(appended) >= BatchSize)
        BY <1>3, <2>1, <2>2, <3>2 DEF EmitEvent
    <3> QED BY <3>1, <3>2
  <2> QED BY <1>3, <2>3, <2>5 DEF EmitEvent, TypeOK
<1>4. CASE EmitSnapshot
  <2>1. metricsBatch \in Seq(Nat \ {0}) /\ given \in [Paths -> Nat]
      BY DEF TypeOK
  <2>2. metricsBatch' \in Seq(Nat \ {0}) /\ given' \in [Paths -> Nat]
      BY <1>4, <2>1, Names DEF EmitSnapshot
  <2> QED BY <1>4, <2>2 DEF EmitSnapshot, TypeOK
<1>5. CASE Flush
    BY <1>5, TakeAllType, Names DEF Flush, TypeOK, history
<1>6. CASE CancelTimer
    BY <1>6 DEF CancelTimer, TypeOK, shared, history
<1>7. CASE AsyncPost
  <2>1. [timer |-> FALSE, posts |-> posts["caller"]] \in Job
      BY Names DEF TypeOK, Job
  <2>2. senderQueue' \in Seq(Job)
      BY <1>7, <2>1 DEF AsyncPost, TypeOK
  <2>3. posts' \in [Threads -> Seq(Payload)]
    <3>1. posts \in [Threads -> Seq(Payload)]
        BY DEF TypeOK
    <3>2. posts' = [posts EXCEPT !["caller"] = <<>>]
        BY <1>7 DEF AsyncPost
    <3>3. <<>> \in Seq(Payload)
        OBVIOUS
    <3> QED BY <3>1, <3>2, <3>3
  <2> QED BY <1>7, <2>2, <2>3 DEF AsyncPost, TypeOK, shared, history
<1>8. CASE FlushReturn
    BY <1>8 DEF FlushReturn, TypeOK, shared, history
<1>9. CASE SyncSender
    BY <1>9 DEF SyncSender, TypeOK, shared, history
<1>10. CASE ShutdownFlush
    BY <1>10, TakeAllType, Names DEF ShutdownFlush, TypeOK, history
<1>11. CASE Invalidate
    BY <1>11 DEF Invalidate, TypeOK, shared, history
<1>12. CASE RunHandoff
  <2>1. Head(senderQueue) \in Job /\ Tail(senderQueue) \in Seq(Job)
      BY <1>12 DEF RunHandoff, TypeOK
  <2>2. Head(senderQueue).posts \in Seq(Payload)
      BY <2>1 DEF Job
  <2> QED BY <1>12, <2>1, <2>2 DEF RunHandoff, TypeOK, shared, history
<1>13. CASE RunTimer
  <2>1. Tail(senderQueue) \in Seq(Job)
      BY <1>13 DEF RunTimer, TypeOK
  <2> QED BY <1>13, <2>1, TakeAllType, Names DEF RunTimer, TypeOK, shared, history
<1>14. CASE TimerFires
  <2>1. [timer |-> TRUE, posts |-> <<>>] \in Job
      BY DEF Job
  <2> QED BY <1>14, <2>1 DEF TimerFires, TypeOK, shared, history
<1>15. ASSUME NEW t \in Threads, NEW reply \in Replies, PostAttempt(t, reply)
       PROVE  TypeOK'
    BY <1>15, PostAttemptType
<1>16. CASE UNCHANGED vars
    BY <1>16 DEF TypeOK, vars, shared, history
<1>17. CASE CollectorStores
    BY <1>17, CollectorEffect DEF TypeOK
<1> QED BY <1>1, <1>2, <1>3, <1>4, <1>5, <1>6, <1>7, <1>8, <1>9, <1>10, <1>11, <1>12,
           <1>13, <1>14, <1>15, <1>16, <1>17, Names DEF Next, CallerStep, SenderStep, Closed

(* The exporter's state is well typed in every reachable state.            *)
THEOREM TypeCorrect == Spec => []TypeOK
<1>1. Init => TypeOK
    BY ExporterAssumption, Names DEF Init, TypeOK, Limit
<1>2. QED BY <1>1, TypeStep, PTL DEF Spec

-----------------------------------------------------------------------------
(* What a sequence of payloads carries.                                    *)

LEMMA CarriedEmpty == \A p : Carried(<<>>, p) = {}
BY DEF Carried

LEMMA WellFormedOne ==
    ASSUME NEW x, x.items # <<>>, IsRun(x.items)
    PROVE  WellFormed(<<x>>)
<1>1. DOMAIN <<x>> = {1} /\ <<x>>[1] = x
    OBVIOUS
<1> QED BY <1>1 DEF WellFormed, HoldsRuns

LEMMA CarriedOne ==
    ASSUME NEW x, NEW p
    PROVE  Carried(<<x>>, p) = IF x.path = p THEN Items(x) ELSE {}
<1>1. DOMAIN <<x>> = {1} /\ <<x>>[1] = x
    OBVIOUS
<1> QED BY <1>1 DEF Carried

LEMMA PairOfOnes == \A x, y : <<x>> \o <<y>> = <<x, y>>
<1> SUFFICES ASSUME NEW x, NEW y PROVE <<x>> \o <<y>> = <<x, y>>
    OBVIOUS
<1> DEFINE S == {x, y}
           s == <<x>> \o <<y>>
<1>1. <<x>> \in Seq(S) /\ <<y>> \in Seq(S) /\ Len(<<x>>) = 1 /\ Len(<<y>>) = 1
    OBVIOUS
<1>2. /\ s \in Seq(S) /\ Len(s) = 1 + 1
      /\ \A i \in 1..(1 + 1) : s[i] = IF i <= 1 THEN <<x>>[i] ELSE <<y>>[i - 1]
    BY <1>1, ConcatProperties
<1>3. Len(s) = 2 /\ s[1] = x /\ s[2] = y
    BY <1>2
<1>4. <<x, y>> \in Seq(S) /\ Len(<<x, y>>) = 2
    OBVIOUS
<1>5. \A i \in 1..2 : s[i] = <<x, y>>[i]
    BY <1>3
<1> QED BY <1>2, <1>3, <1>4, <1>5, SeqEqual

LEMMA CarriedTwo ==
    ASSUME NEW x, NEW y, NEW p
    PROVE  Carried(<<x, y>>, p) =
               (IF x.path = p THEN Items(x) ELSE {}) \cup (IF y.path = p THEN Items(y) ELSE {})
<1>1. DOMAIN <<x, y>> = {1, 2} /\ <<x, y>>[1] = x /\ <<x, y>>[2] = y
    OBVIOUS
<1> QED BY <1>1 DEF Carried

LEMMA CarriedHeadTail ==
    ASSUME NEW s \in Seq(Payload), s # <<>>, NEW p
    PROVE  Carried(s, p) = (IF Head(s).path = p THEN Items(Head(s)) ELSE {})
                           \cup Carried(Tail(s), p)
<1>1. /\ Head(s) = s[1] /\ Len(s) \in Nat \ {0} /\ DOMAIN s = 1..Len(s)
      /\ DOMAIN Tail(s) = 1..(Len(s) - 1)
      /\ \A i \in DOMAIN Tail(s) : Tail(s)[i] = s[i + 1]
    OBVIOUS
<1>2. ASSUME NEW n
      PROVE  n \in Carried(s, p) <=>
                \E i \in 1..Len(s) : s[i].path = p /\ n \in Items(s[i])
    BY <1>1 DEF Carried
<1>3. ASSUME NEW n
      PROVE  n \in Carried(Tail(s), p) <=>
                \E i \in 1..(Len(s) - 1) : s[i + 1].path = p /\ n \in Items(s[i + 1])
    BY <1>1 DEF Carried
<1>4. \A i \in 1..Len(s) : i = 1 \/ (i - 1 \in 1..(Len(s) - 1) /\ (i - 1) + 1 = i)
    BY <1>1
<1>5. \A i \in 1..(Len(s) - 1) : i + 1 \in 1..Len(s)
    BY <1>1
<1>6. 1 \in 1..Len(s)
    BY <1>1
<1>7. ASSUME NEW n
      PROVE  (\E i \in 1..Len(s) : s[i].path = p /\ n \in Items(s[i])) <=>
               \/ s[1].path = p /\ n \in Items(s[1])
               \/ \E i \in 1..(Len(s) - 1) : s[i + 1].path = p /\ n \in Items(s[i + 1])
    BY <1>4, <1>5, <1>6
<1> QED BY <1>1, <1>2, <1>3, <1>7

(* One take never yields two payloads of a path: the rest of the sequence  *)
(* carries nothing of its head's path.                                     *)
LEMMA TailShape ==
    ASSUME NEW s \in Seq(Payload), s # <<>>, WellFormed(s)
    PROVE  WellFormed(Tail(s)) /\ Carried(Tail(s), Head(s).path) = {}
<1>1. /\ Head(s) = s[1] /\ Len(s) \in Nat \ {0} /\ DOMAIN s = 1..Len(s)
      /\ DOMAIN Tail(s) = 1..(Len(s) - 1)
      /\ \A i \in DOMAIN Tail(s) : Tail(s)[i] = s[i + 1]
    OBVIOUS
<1>2. \A i \in DOMAIN Tail(s) : i + 1 \in DOMAIN s /\ i + 1 # 1
    BY <1>1
<1>3. \A i \in DOMAIN Tail(s) : Tail(s)[i].path # Head(s).path
  <2> SUFFICES ASSUME NEW i \in DOMAIN Tail(s) PROVE s[i + 1].path # s[1].path
      BY <1>1
  <2>1. 1 \in DOMAIN s /\ i + 1 \in DOMAIN s /\ i + 1 # 1
      BY <1>1, <1>2
  <2> QED BY <2>1 DEF WellFormed, HoldsRuns
<1>4. WellFormed(Tail(s))
  <2>1. \A i \in DOMAIN Tail(s) : Tail(s)[i].items # <<>> /\ IsRun(Tail(s)[i].items)
      BY <1>1, <1>2 DEF WellFormed, HoldsRuns
  <2>2. ASSUME NEW i \in DOMAIN Tail(s), NEW k \in DOMAIN Tail(s), i # k
        PROVE  Tail(s)[i].path # Tail(s)[k].path
    <3>1. i + 1 \in DOMAIN s /\ k + 1 \in DOMAIN s /\ i + 1 # k + 1
        BY <1>1, <1>2, <2>2
    <3> QED BY <1>1, <3>1 DEF WellFormed, HoldsRuns
  <2> QED BY <2>1, <2>2 DEF WellFormed, HoldsRuns
<1> QED BY <1>3, <1>4 DEF Carried

(* The items of a run.                                                     *)
LEMMA RunItems ==
    ASSUME NEW s \in Seq(Nat \ {0}), NEW k \in Nat, \A i \in DOMAIN s : s[i] = k + i
    PROVE  {s[i] : i \in DOMAIN s} = (k + 1)..(k + Len(s)) /\ IsRun(s)
<1>1. Len(s) \in Nat /\ DOMAIN s = 1..Len(s)
    OBVIOUS
<1>2. \A n \in (k + 1)..(k + Len(s)) : n - k \in DOMAIN s /\ s[n - k] = n
    BY <1>1
<1>3. \A i \in DOMAIN s : s[i] \in (k + 1)..(k + Len(s))
    BY <1>1
<1>4. {s[i] : i \in DOMAIN s} = (k + 1)..(k + Len(s))
    BY <1>2, <1>3
<1>5. ASSUME NEW i \in DOMAIN s PROVE s[i] = s[1] + (i - 1)
  <2>1. 1 \in DOMAIN s /\ i \in Nat
      BY <1>1
  <2>2. s[1] = k + 1 /\ s[i] = k + i
      BY <2>1
  <2> QED BY <2>1, <2>2
<1> QED BY <1>4, <1>5 DEF IsRun

(* A batch as a payload: the run from the first item not yet taken.        *)
LEMMA WaitingRun ==
    ASSUME TypeOK, BatchInv, NEW p \in Paths
    PROVE  /\ Waiting(p) \in Seq(Nat \ {0}) /\ Taken(p) \in Nat /\ given[p] \in Nat
           /\ Taken(p) <= given[p] /\ given[p] <= Limit[p]
           /\ Waiting(p) # <<>> => Taken(p) < given[p]
           /\ Waiting(p) = <<>> => Taken(p) = given[p]
           /\ IsRun(Waiting(p))
           /\ {Waiting(p)[i] : i \in DOMAIN Waiting(p)} = (Taken(p) + 1)..given[p]
<1>1. Waiting(p) \in Seq(Nat \ {0}) /\ given[p] \in Nat
    BY DEF TypeOK, Waiting
<1>2. Len(Waiting(p)) \in Nat /\ Len(Waiting(p)) <= given[p] /\ given[p] <= Limit[p]
    BY <1>1 DEF BatchInv
<1>3. Taken(p) \in Nat /\ Taken(p) <= given[p] /\ Taken(p) + Len(Waiting(p)) = given[p]
    BY <1>1, <1>2 DEF Taken
<1>4. \A i \in DOMAIN Waiting(p) : Waiting(p)[i] = Taken(p) + i
    BY DEF BatchInv
<1>5. Waiting(p) # <<>> => Len(Waiting(p)) > 0
    BY <1>1
<1>6. Waiting(p) = <<>> => Len(Waiting(p)) = 0
    BY <1>1
<1>7. /\ {Waiting(p)[i] : i \in DOMAIN Waiting(p)} = (Taken(p) + 1)..given[p]
      /\ IsRun(Waiting(p))
    BY <1>1, <1>3, <1>4, RunItems
<1> QED BY <1>1, <1>2, <1>3, <1>5, <1>6, <1>7

(* What a flush takes is exactly what waits, well formed.                  *)
LEMMA PendingShape ==
    ASSUME TypeOK, BatchInv
    PROVE  /\ WellFormed(Pending)
           /\ \A p \in Paths : Carried(Pending, p) = (Taken(p) + 1)..given[p]
<1> DEFINE l == LogsPayload(batch, pendingDrops)
           m == MetricsPayload(metricsBatch)
<1>1. /\ l.path = Logs /\ l.items = batch /\ m.path = Metrics /\ m.items = metricsBatch
    BY DEF LogsPayload, MetricsPayload
<1>2. Waiting(Logs) = batch /\ Waiting(Metrics) = metricsBatch
    BY Names DEF Waiting
<1>3. Items(l) = (Taken(Logs) + 1)..given[Logs] /\ IsRun(batch)
    BY <1>1, <1>2, WaitingRun, Names DEF Items
<1>4. Items(m) = (Taken(Metrics) + 1)..given[Metrics] /\ IsRun(metricsBatch)
    BY <1>1, <1>2, WaitingRun, Names DEF Items
<1>5. batch = <<>> => Items(l) = {}
    BY <1>1 DEF Items
<1>6. metricsBatch = <<>> => Items(m) = {}
    BY <1>1 DEF Items
<1>7. Pending = (IF batch = <<>> THEN <<>> ELSE <<l>>)
                \o (IF metricsBatch = <<>> THEN <<>> ELSE <<m>>)
    BY DEF Pending
<1> HIDE DEF l, m
<1>8. CASE batch = <<>> /\ metricsBatch = <<>>
  <2>1. Pending = <<>>
      BY <1>7, <1>8
  <2>2. WellFormed(<<>>)
      BY DEF WellFormed, HoldsRuns
  <2>3. \A p \in Paths : (Taken(p) + 1)..given[p] = {}
      BY <1>3, <1>4, <1>5, <1>6, <1>8, Names
  <2> QED BY <2>1, <2>2, <2>3, CarriedEmpty
<1>9. CASE batch # <<>> /\ metricsBatch = <<>>
  <2>1. Pending = <<l>>
      BY <1>7, <1>9
  <2>2. WellFormed(<<l>>)
      BY <1>1, <1>3, <1>9 DEF WellFormed, HoldsRuns
  <2> QED BY <1>1, <1>3, <1>4, <1>6, <1>9, <2>1, <2>2, CarriedOne, Names
<1>10. CASE batch = <<>> /\ metricsBatch # <<>>
  <2>1. Pending = <<m>>
      BY <1>7, <1>10
  <2>2. WellFormed(<<m>>)
      BY <1>1, <1>4, <1>10 DEF WellFormed, HoldsRuns
  <2> QED BY <1>1, <1>3, <1>4, <1>5, <1>10, <2>1, <2>2, CarriedOne, Names
<1>11. CASE batch # <<>> /\ metricsBatch # <<>>
  <2>1. Pending = <<l, m>>
    <3>1. <<l>> \o <<m>> = <<l, m>>
        BY PairOfOnes
    <3> QED BY <1>7, <1>11, <3>1
  <2>2. DOMAIN <<l, m>> = {1, 2} /\ <<l, m>>[1] = l /\ <<l, m>>[2] = m
      OBVIOUS
  <2>3. WellFormed(<<l, m>>)
      BY <1>1, <1>3, <1>4, <1>11, <2>2, Names DEF WellFormed, HoldsRuns
  <2>4. Carried(<<l, m>>, Logs) = Items(l)
      BY <1>1, CarriedTwo, Names
  <2>5. Carried(<<l, m>>, Metrics) = Items(m)
      BY <1>1, CarriedTwo, Names
  <2> QED BY <1>3, <1>4, <2>1, <2>3, <2>4, <2>5, Names
<1> QED BY <1>8, <1>9, <1>10, <1>11

-----------------------------------------------------------------------------
(* The steps that move items, each for all the invariants about payloads.  *)

DataInv == ShapeInv /\ OpenInv /\ ApartInv /\ NothingLostInv /\ CopiesInv

(* A thread with nothing to post takes a well-formed sequence s of all the *)
(* items that stop waiting.  The queue may lose its head, a timer event.   *)
LEMMA TakeStep ==
    ASSUME TypeOK, TypeOK', BatchInv, BatchInv', DataInv,
           NEW t \in Threads, posts[t] = <<>>,
           NEW s, WellFormed(s), posts' = [posts EXCEPT ![t] = s],
           \A p \in Paths : Taken(p) <= Taken(p)',
           \A p \in Paths : Carried(s, p) = (Taken(p) + 1)..Taken(p)',
           NEW d \in {0, 1},
           \A j \in DOMAIN senderQueue' :
               j + d \in DOMAIN senderQueue /\ senderQueue'[j] = senderQueue[j + d],
           \A j \in DOMAIN senderQueue :
               j - d \in DOMAIN senderQueue' \/ senderQueue[j].posts = <<>>,
           UNCHANGED <<attempt, delivered, abandoned, sent>>
    PROVE  DataInv'
<1>1. \A p \in Paths : /\ Taken(p) \in Nat /\ Taken(p)' \in Nat /\ Taken(p) <= Taken(p)'
                       /\ Taken(p)' <= Limit[p] /\ Settled(p)' = Settled(p)
  <2> SUFFICES ASSUME NEW p \in Paths
               PROVE  /\ Taken(p) \in Nat /\ Taken(p)' \in Nat /\ Taken(p) <= Taken(p)'
                      /\ Taken(p)' <= Limit[p] /\ Settled(p)' = Settled(p)
      OBVIOUS
  <2>1. Taken(p) \in Nat /\ given[p] \in Nat
      BY WaitingRun
  <2>2. Limit[p] \in Nat
      BY ExporterAssumption DEF Limit
  <2>3. /\ Waiting(p)' \in Seq(Nat \ {0}) /\ given'[p] \in Nat
        /\ Len(Waiting(p)') <= given'[p] /\ given'[p] <= Limit[p]
      BY DEF TypeOK, Waiting, BatchInv
  <2>4. Taken(p)' = given'[p] - Len(Waiting(p)')
      BY DEF Taken
  <2> QED BY <2>1, <2>2, <2>3, <2>4 DEF Settled
<1>2. posts'[t] = s /\ \A u \in Threads \ {t} : posts'[u] = posts[u]
    BY DEF TypeOK
<1>3. \A p : Carried(posts[t], p) = {}
    BY CarriedEmpty
<1>4. ShapeInv'
    BY <1>2 DEF DataInv, ShapeInv
<1>5. OpenInv'
  <2> SUFFICES ASSUME NEW p \in Paths
               PROVE  /\ \A u \in Threads :
                            Carried(posts'[u], p) \subseteq (1..Taken(p)') \ Settled(p)'
                      /\ \A j \in DOMAIN senderQueue' :
                            Carried(senderQueue'[j].posts, p)
                               \subseteq (1..Taken(p)') \ Settled(p)'
      BY DEF OpenInv
  <2>1. (1..Taken(p)) \ Settled(p) \subseteq (1..Taken(p)') \ Settled(p)'
      BY <1>1
  <2>2. Carried(s, p) \subseteq (1..Taken(p)') \ Settled(p)'
      BY <1>1 DEF DataInv, NothingLostInv
  <2>3. \A u \in Threads : Carried(posts[u], p) \subseteq (1..Taken(p)) \ Settled(p)
      BY DEF DataInv, OpenInv
  <2>4. \A j \in DOMAIN senderQueue :
           Carried(senderQueue[j].posts, p) \subseteq (1..Taken(p)) \ Settled(p)
      BY DEF DataInv, OpenInv
  <2> QED BY <1>2, <2>1, <2>2, <2>3, <2>4
<1>6. ApartInv'
  <2> SUFFICES ASSUME NEW p \in Paths
               PROVE  /\ Carried(posts'["caller"], p) \cap Carried(posts'["sender"], p) = {}
                      /\ \A u \in Threads, j \in DOMAIN senderQueue' :
                            Carried(posts'[u], p) \cap Carried(senderQueue'[j].posts, p) = {}
                      /\ \A j, k \in DOMAIN senderQueue' : j # k =>
                            Carried(senderQueue'[j].posts, p)
                               \cap Carried(senderQueue'[k].posts, p) = {}
      BY DEF ApartInv
  <2>1. \A n \in Carried(s, p) : n \notin 1..Taken(p)
      BY <1>1
  <2>2. \A u \in Threads : Carried(posts[u], p) \cap Carried(s, p) = {}
      BY <2>1 DEF DataInv, OpenInv
  <2>3. \A j \in DOMAIN senderQueue : Carried(s, p) \cap Carried(senderQueue[j].posts, p) = {}
      BY <2>1 DEF DataInv, OpenInv
  <2>4. Carried(posts'["caller"], p) \cap Carried(posts'["sender"], p) = {}
      BY <1>2, <2>2, Names DEF DataInv, ApartInv
  <2>5. \A u \in Threads, j \in DOMAIN senderQueue' :
           Carried(posts'[u], p) \cap Carried(senderQueue'[j].posts, p) = {}
      BY SMTT(30), <1>2, <2>3 DEF DataInv, ApartInv
  <2>6. ASSUME NEW j \in DOMAIN senderQueue', NEW k \in DOMAIN senderQueue', j # k
        PROVE  Carried(senderQueue'[j].posts, p) \cap Carried(senderQueue'[k].posts, p) = {}
    <3>1. senderQueue' \in Seq(Job)
        BY DEF TypeOK
    <3>2. j \in Nat /\ k \in Nat
        BY <3>1
    <3>3. j + d # k + d
        BY <2>6, <3>2
    <3>4. /\ Carried(senderQueue[j + d].posts, p) \cap Carried(senderQueue[k + d].posts, p) = {}
        BY <3>3 DEF DataInv, ApartInv
    <3> QED BY <3>4
  <2> QED BY <2>4, <2>5, <2>6
<1>7. NothingLostInv'
  <2> SUFFICES ASSUME NEW p \in Paths
               PROVE  /\ Settled(p)' \subseteq 1..Taken(p)'
                      /\ delivered'[p] \cap abandoned'[p] = {}
                      /\ \A n \in 1..Taken(p)' :
                            \/ n \in Settled(p)'
                            \/ \E u \in Threads : n \in Carried(posts'[u], p)
                            \/ \E j \in DOMAIN senderQueue' :
                                  n \in Carried(senderQueue'[j].posts, p)
      BY DEF NothingLostInv
  <2>1. Settled(p)' \subseteq 1..Taken(p)' /\ delivered'[p] \cap abandoned'[p] = {}
      BY <1>1 DEF DataInv, NothingLostInv
  <2>2. ASSUME NEW n \in 1..Taken(p)'
        PROVE  \/ n \in Settled(p)'
               \/ \E u \in Threads : n \in Carried(posts'[u], p)
               \/ \E j \in DOMAIN senderQueue' : n \in Carried(senderQueue'[j].posts, p)
    <3>1. CASE n > Taken(p)
      <4>1. n \in (Taken(p) + 1)..Taken(p)'
          BY <1>1, <3>1
      <4> QED BY <1>2, <4>1
    <3>2. CASE n \in 1..Taken(p)
      <4>1. CASE n \in Settled(p)
          BY <1>1, <4>1
      <4>2. CASE \E u \in Threads : n \in Carried(posts[u], p)
          BY <1>2, <1>3, <4>2
      <4>3. ASSUME NEW j \in DOMAIN senderQueue, n \in Carried(senderQueue[j].posts, p)
            PROVE  \E k \in DOMAIN senderQueue' : n \in Carried(senderQueue'[k].posts, p)
        <5>1. j - d \in DOMAIN senderQueue'
            BY <4>3, CarriedEmpty
        <5>2. senderQueue \in Seq(Job)
            BY DEF TypeOK
        <5>3. (j - d) + d = j
            BY <5>2
        <5>4. senderQueue'[j - d] = senderQueue[j]
            BY <5>1, <5>3
        <5> QED BY <4>3, <5>1, <5>4
      <4> QED BY <3>2, <4>1, <4>2, <4>3 DEF DataInv, NothingLostInv
    <3> QED BY <1>1, <3>1, <3>2
  <2> QED BY <2>1, <2>2
<1>8. CopiesInv'
  <2> SUFFICES ASSUME NEW p \in Paths, NEW n \in 1..Limit[p]
               PROVE  /\ sent[p][n] <= MaxRetries + 1
                      /\ n > Taken(p)' => sent[p][n] = 0
                      /\ \A j \in DOMAIN senderQueue' :
                            n \in Carried(senderQueue'[j].posts, p) => sent[p][n] = 0
                      /\ \A u \in Threads : n \in Carried(posts'[u], p) =>
                            sent[p][n] <= IF p = Head(posts'[u]).path THEN attempt[u] ELSE 0
      BY DEF CopiesInv
  <2>1. n > Taken(p) => sent[p][n] = 0
      BY DEF DataInv, CopiesInv
  <2>2. sent[p][n] \in Nat /\ \A u \in Threads : attempt[u] \in Nat
    <3>1. attempt \in [Threads -> 0..MaxRetries] /\ sent[p] \in [1..Limit[p] -> Nat]
        BY DEF TypeOK
    <3>2. sent[p][n] \in Nat
        BY <3>1
    <3>3. \A u \in Threads : attempt[u] \in Nat
        BY <3>1, ExporterAssumption
    <3> QED BY <3>2, <3>3
  <2>3. n > Taken(p)' => n > Taken(p)
      BY <1>1
  <2>4. n \in Carried(posts'[t], p) => sent[p][n] = 0
      BY <1>1, <1>2, <2>1
  <2>5. \A u \in Threads : n \in Carried(posts'[u], p) =>
           sent[p][n] <= IF p = Head(posts'[u]).path THEN attempt[u] ELSE 0
      BY <1>2, <2>2, <2>4 DEF DataInv, CopiesInv
  <2>6. \A j \in DOMAIN senderQueue' :
           n \in Carried(senderQueue'[j].posts, p) => sent[p][n] = 0
      BY DEF DataInv, CopiesInv
  <2> QED BY <2>1, <2>3, <2>5, <2>6 DEF DataInv, CopiesInv
<1> QED BY <1>4, <1>5, <1>6, <1>7, <1>8 DEF DataInv

(* Steps that neither take nor move nor post.                              *)
LEMMA QuietStep ==
    ASSUME DataInv, \A p \in Paths : Taken(p)' = Taken(p),
           UNCHANGED <<posts, senderQueue, attempt, delivered, abandoned, sent>>
    PROVE  DataInv'
<1>1. \A p \in Paths : Settled(p)' = Settled(p)
    BY DEF Settled
<1>2. ShapeInv'
    BY DEF DataInv, ShapeInv
<1>3. OpenInv'
    BY <1>1 DEF DataInv, OpenInv
<1>4. ApartInv'
    BY DEF DataInv, ApartInv
<1>5. NothingLostInv'
    BY <1>1 DEF DataInv, NothingLostInv
<1>6. CopiesInv'
    BY DEF DataInv, CopiesInv
<1> QED BY <1>2, <1>3, <1>4, <1>5, <1>6 DEF DataInv

(* A job is queued: either a timer event, which carries nothing, or what   *)
(* the caller held.                                                        *)
LEMMA EnqueueStep ==
    ASSUME TypeOK, TypeOK', DataInv, NEW job \in Job,
           senderQueue' = Append(senderQueue, job),
           \/ job.posts = <<>> /\ posts' = posts
           \/ /\ ~job.timer /\ job.posts = posts["caller"]
              /\ posts' = [posts EXCEPT !["caller"] = <<>>]
              /\ attempt["caller"] = 0,
           \A p \in Paths : Taken(p)' = Taken(p),
           UNCHANGED <<attempt, delivered, abandoned, sent>>
    PROVE  DataInv'
<1> DEFINE last == Len(senderQueue) + 1
<1>1. \A p \in Paths : Settled(p)' = Settled(p)
    BY DEF Settled
<1>2. senderQueue \in Seq(Job) /\ posts \in [Threads -> Seq(Payload)]
    BY DEF TypeOK
<1>3. /\ last \in Nat /\ DOMAIN senderQueue' = DOMAIN senderQueue \cup {last}
      /\ senderQueue'[last] = job /\ last \notin DOMAIN senderQueue
      /\ \A j \in DOMAIN senderQueue : senderQueue'[j] = senderQueue[j]
    BY <1>2
<1> HIDE DEF last
<1>4. /\ posts'["sender"] = posts["sender"]
      /\ \/ job.posts = <<>> /\ posts'["caller"] = posts["caller"]
         \/ job.posts = posts["caller"] /\ posts'["caller"] = <<>>
    BY <1>2, Names
<1>5. \A p : \/ /\ Carried(job.posts, p) = {}
                /\ Carried(posts'["caller"], p) = Carried(posts["caller"], p)
             \/ /\ Carried(job.posts, p) = Carried(posts["caller"], p)
                /\ Carried(posts'["caller"], p) = {}
  <2> SUFFICES ASSUME NEW p
               PROVE  \/ /\ Carried(job.posts, p) = {}
                         /\ Carried(posts'["caller"], p) = Carried(posts["caller"], p)
                      \/ /\ Carried(job.posts, p) = Carried(posts["caller"], p)
                         /\ Carried(posts'["caller"], p) = {}
      OBVIOUS
  <2> QED BY <1>4, CarriedEmpty
<1>6. ShapeInv'
  <2>1. WellFormed(<<>>)
      BY DEF WellFormed, HoldsRuns
  <2>2. WellFormed(job.posts)
      BY <1>4, <2>1, Names DEF DataInv, ShapeInv
  <2>3. \A t \in Threads : WellFormed(posts'[t])
      BY <1>4, <2>1, Names DEF DataInv, ShapeInv
  <2>4. job.timer => job.posts = <<>>
      OBVIOUS
  <2>5. \A j \in DOMAIN senderQueue' :
           /\ WellFormed(senderQueue'[j].posts)
           /\ senderQueue'[j].timer => senderQueue'[j].posts = <<>>
      BY <1>3, <2>2, <2>4 DEF DataInv, ShapeInv
  <2> QED BY <2>3, <2>5 DEF ShapeInv
<1>7. OpenInv'
  <2> SUFFICES ASSUME NEW p \in Paths
               PROVE  /\ \A t \in Threads :
                            Carried(posts'[t], p) \subseteq (1..Taken(p)) \ Settled(p)
                      /\ \A j \in DOMAIN senderQueue' :
                            Carried(senderQueue'[j].posts, p) \subseteq (1..Taken(p)) \ Settled(p)
      BY <1>1 DEF OpenInv
  <2>1. Carried(job.posts, p) \subseteq (1..Taken(p)) \ Settled(p)
      BY <1>5, Names DEF DataInv, OpenInv
  <2>2. \A t \in Threads : Carried(posts'[t], p) \subseteq (1..Taken(p)) \ Settled(p)
      BY <1>4, <1>5, Names DEF DataInv, OpenInv
  <2>3. \A j \in DOMAIN senderQueue' :
           Carried(senderQueue'[j].posts, p) \subseteq (1..Taken(p)) \ Settled(p)
      BY <1>3, <2>1 DEF DataInv, OpenInv
  <2> QED BY <2>2, <2>3
<1>8. ApartInv'
  <2> SUFFICES ASSUME NEW p \in Paths
               PROVE  /\ Carried(posts'["caller"], p) \cap Carried(posts'["sender"], p) = {}
                      /\ \A t \in Threads, j \in DOMAIN senderQueue' :
                            Carried(posts'[t], p) \cap Carried(senderQueue'[j].posts, p) = {}
                      /\ \A j, k \in DOMAIN senderQueue' : j # k =>
                            Carried(senderQueue'[j].posts, p)
                               \cap Carried(senderQueue'[k].posts, p) = {}
      BY DEF ApartInv
  <2>1. Carried(posts'["caller"], p) \cap Carried(posts'["sender"], p) = {}
      BY <1>4, <1>5 DEF DataInv, ApartInv
  <2>2. \A j \in DOMAIN senderQueue : Carried(job.posts, p) \cap Carried(senderQueue[j].posts, p) = {}
      BY <1>5, Names DEF DataInv, ApartInv
  <2>3. \A t \in Threads : Carried(posts'[t], p) \cap Carried(job.posts, p) = {}
      BY <1>4, <1>5, Names DEF DataInv, ApartInv
  <2>4. \A t \in Threads, j \in DOMAIN senderQueue :
           Carried(posts'[t], p) \cap Carried(senderQueue[j].posts, p) = {}
      BY <1>4, <1>5, Names DEF DataInv, ApartInv
  <2>5. \A j, k \in DOMAIN senderQueue : j # k =>
           Carried(senderQueue[j].posts, p) \cap Carried(senderQueue[k].posts, p) = {}
      BY DEF DataInv, ApartInv
  <2> QED BY ZenonT(40), <1>3, <2>1, <2>2, <2>3, <2>4, <2>5
<1>9. NothingLostInv'
  <2> SUFFICES ASSUME NEW p \in Paths
               PROVE  /\ Settled(p) \subseteq 1..Taken(p)
                      /\ delivered[p] \cap abandoned[p] = {}
                      /\ \A n \in 1..Taken(p) :
                            \/ n \in Settled(p)
                            \/ \E t \in Threads : n \in Carried(posts'[t], p)
                            \/ \E j \in DOMAIN senderQueue' :
                                  n \in Carried(senderQueue'[j].posts, p)
      BY <1>1 DEF NothingLostInv
  <2>1. ASSUME NEW n, NEW t \in Threads, n \in Carried(posts[t], p)
        PROVE  \/ \E u \in Threads : n \in Carried(posts'[u], p)
               \/ \E j \in DOMAIN senderQueue' : n \in Carried(senderQueue'[j].posts, p)
      BY <1>3, <1>4, <1>5, <2>1, Names
  <2>2. ASSUME NEW n, NEW j \in DOMAIN senderQueue, n \in Carried(senderQueue[j].posts, p)
        PROVE  \E k \in DOMAIN senderQueue' : n \in Carried(senderQueue'[k].posts, p)
      BY <1>3, <2>2
  <2> QED BY <2>1, <2>2 DEF DataInv, NothingLostInv
<1>10. CopiesInv'
  <2> SUFFICES ASSUME NEW p \in Paths, NEW n \in 1..Limit[p]
               PROVE  /\ sent[p][n] <= MaxRetries + 1
                      /\ n > Taken(p) => sent[p][n] = 0
                      /\ \A j \in DOMAIN senderQueue' :
                            n \in Carried(senderQueue'[j].posts, p) => sent[p][n] = 0
                      /\ \A t \in Threads : n \in Carried(posts'[t], p) =>
                            sent[p][n] <= IF p = Head(posts'[t]).path THEN attempt[t] ELSE 0
      BY DEF CopiesInv
  <2>1. /\ sent[p][n] <= MaxRetries + 1
        /\ n > Taken(p) => sent[p][n] = 0
        /\ \A j \in DOMAIN senderQueue :
              n \in Carried(senderQueue[j].posts, p) => sent[p][n] = 0
        /\ \A t \in Threads : n \in Carried(posts[t], p) =>
              sent[p][n] <= IF p = Head(posts[t]).path THEN attempt[t] ELSE 0
      BY DEF DataInv, CopiesInv
  <2>2. sent[p][n] \in Nat
    <3>1. sent[p] \in [1..Limit[p] -> Nat]
        BY DEF TypeOK
    <3> QED BY <3>1
  <2>3. n \in Carried(job.posts, p) => sent[p][n] = 0
      BY <2>1, <2>2, CarriedEmpty, Names
  <2>4. \A j \in DOMAIN senderQueue' :
           n \in Carried(senderQueue'[j].posts, p) => sent[p][n] = 0
      BY <1>3, <2>1, <2>3
  <2>5. \A t \in Threads : n \in Carried(posts'[t], p) =>
           sent[p][n] <= IF p = Head(posts'[t]).path THEN attempt[t] ELSE 0
      BY <1>4, <2>1, CarriedEmpty, Names
  <2> QED BY <2>1, <2>4, <2>5
<1> QED BY <1>6, <1>7, <1>8, <1>9, <1>10 DEF DataInv

(* The sender, idle, takes the payloads of the job at the queue's head.    *)
LEMMA DequeueStep ==
    ASSUME TypeOK, DataInv, senderQueue # <<>>, posts["sender"] = <<>>,
           posts' = [posts EXCEPT !["sender"] = Head(senderQueue).posts],
           senderQueue' = Tail(senderQueue),
           \A p \in Paths : Taken(p)' = Taken(p),
           UNCHANGED <<attempt, delivered, abandoned, sent>>
    PROVE  DataInv'
<1> DEFINE s == Head(senderQueue).posts
<1>1. \A p \in Paths : Settled(p)' = Settled(p)
    BY DEF Settled
<1>2. senderQueue \in Seq(Job) /\ posts \in [Threads -> Seq(Payload)]
    BY DEF TypeOK
<1>3. /\ 1 \in DOMAIN senderQueue /\ senderQueue[1].posts = s
      /\ \A j \in DOMAIN senderQueue' : /\ j \in Nat /\ j + 1 \in DOMAIN senderQueue
                                        /\ j + 1 # 1
                                        /\ senderQueue'[j] = senderQueue[j + 1]
    BY <1>2
<1>4. \A j \in DOMAIN senderQueue : j = 1 \/
         (j - 1 \in DOMAIN senderQueue' /\ senderQueue'[j - 1] = senderQueue[j])
    BY <1>2
<1>5. posts'["sender"] = s /\ posts'["caller"] = posts["caller"]
    BY <1>2, Names
<1>6. \A p : Carried(posts["sender"], p) = {}
    BY CarriedEmpty
<1> HIDE DEF s
<1>7. ShapeInv'
  <2>1. \A t \in Threads : WellFormed(posts'[t])
      BY <1>3, <1>5, Names DEF DataInv, ShapeInv
  <2> QED BY <1>3, <2>1 DEF DataInv, ShapeInv
<1>8. OpenInv'
  <2>1. \A p \in Paths : \A t \in Threads :
           Carried(posts'[t], p) \subseteq (1..Taken(p)) \ Settled(p)
      BY <1>3, <1>5, Names DEF DataInv, OpenInv
  <2>2. \A p \in Paths : \A j \in DOMAIN senderQueue' :
           Carried(senderQueue'[j].posts, p) \subseteq (1..Taken(p)) \ Settled(p)
      BY <1>3 DEF DataInv, OpenInv
  <2> QED BY <1>1, <2>1, <2>2 DEF OpenInv
<1>9. ApartInv'
  <2> SUFFICES ASSUME NEW p \in Paths
               PROVE  /\ Carried(posts'["caller"], p) \cap Carried(posts'["sender"], p) = {}
                      /\ \A t \in Threads, j \in DOMAIN senderQueue' :
                            Carried(posts'[t], p) \cap Carried(senderQueue'[j].posts, p) = {}
                      /\ \A j, k \in DOMAIN senderQueue' : j # k =>
                            Carried(senderQueue'[j].posts, p)
                               \cap Carried(senderQueue'[k].posts, p) = {}
      BY DEF ApartInv
  <2>1. /\ \A t \in Threads, j \in DOMAIN senderQueue :
              Carried(posts[t], p) \cap Carried(senderQueue[j].posts, p) = {}
        /\ \A j, k \in DOMAIN senderQueue : j # k =>
              Carried(senderQueue[j].posts, p) \cap Carried(senderQueue[k].posts, p) = {}
      BY DEF DataInv, ApartInv
  <2>2. Carried(posts'["caller"], p) \cap Carried(posts'["sender"], p) = {}
      BY <1>3, <1>5, <2>1, Names
  <2>3. \A t \in Threads, j \in DOMAIN senderQueue' :
           Carried(posts'[t], p) \cap Carried(senderQueue'[j].posts, p) = {}
    <3>1. \A j \in DOMAIN senderQueue' : Carried(s, p) \cap Carried(senderQueue'[j].posts, p) = {}
        BY <1>3, <2>1
    <3>2. \A j \in DOMAIN senderQueue' :
             Carried(posts["caller"], p) \cap Carried(senderQueue'[j].posts, p) = {}
        BY <1>3, <2>1, Names
    <3> QED BY <1>5, <3>1, <3>2, Names
  <2>4. \A j, k \in DOMAIN senderQueue' : j # k =>
           Carried(senderQueue'[j].posts, p) \cap Carried(senderQueue'[k].posts, p) = {}
    <3> SUFFICES ASSUME NEW j \in DOMAIN senderQueue', NEW k \in DOMAIN senderQueue', j # k
                 PROVE  Carried(senderQueue'[j].posts, p) \cap Carried(senderQueue'[k].posts, p) = {}
        OBVIOUS
    <3>1. j + 1 # k + 1
        BY <1>3
    <3> QED BY <1>3, <2>1, <3>1
  <2> QED BY <2>2, <2>3, <2>4
<1>10. NothingLostInv'
  <2> SUFFICES ASSUME NEW p \in Paths
               PROVE  /\ Settled(p) \subseteq 1..Taken(p)
                      /\ delivered[p] \cap abandoned[p] = {}
                      /\ \A n \in 1..Taken(p) :
                            \/ n \in Settled(p)
                            \/ \E t \in Threads : n \in Carried(posts'[t], p)
                            \/ \E j \in DOMAIN senderQueue' :
                                  n \in Carried(senderQueue'[j].posts, p)
      BY <1>1 DEF NothingLostInv
  <2>1. ASSUME NEW n, NEW t \in Threads, n \in Carried(posts[t], p)
        PROVE  \E u \in Threads : n \in Carried(posts'[u], p)
      BY <1>5, <1>6, <2>1, Names
  <2>2. ASSUME NEW n, NEW j \in DOMAIN senderQueue, n \in Carried(senderQueue[j].posts, p)
        PROVE  \/ \E u \in Threads : n \in Carried(posts'[u], p)
               \/ \E k \in DOMAIN senderQueue' : n \in Carried(senderQueue'[k].posts, p)
      BY <1>3, <1>4, <1>5, <2>2, Names
  <2> QED BY <2>1, <2>2 DEF DataInv, NothingLostInv
<1>11. CopiesInv'
  <2> SUFFICES ASSUME NEW p \in Paths, NEW n \in 1..Limit[p]
               PROVE  /\ sent[p][n] <= MaxRetries + 1
                      /\ n > Taken(p) => sent[p][n] = 0
                      /\ \A j \in DOMAIN senderQueue' :
                            n \in Carried(senderQueue'[j].posts, p) => sent[p][n] = 0
                      /\ \A t \in Threads : n \in Carried(posts'[t], p) =>
                            sent[p][n] <= IF p = Head(posts'[t]).path THEN attempt[t] ELSE 0
      BY DEF CopiesInv
  <2>1. /\ sent[p][n] <= MaxRetries + 1
        /\ n > Taken(p) => sent[p][n] = 0
        /\ \A j \in DOMAIN senderQueue :
              n \in Carried(senderQueue[j].posts, p) => sent[p][n] = 0
        /\ \A t \in Threads : n \in Carried(posts[t], p) =>
              sent[p][n] <= IF p = Head(posts[t]).path THEN attempt[t] ELSE 0
      BY DEF DataInv, CopiesInv
  <2>2. attempt["sender"] \in Nat
    <3>1. attempt \in [Threads -> 0..MaxRetries]
        BY DEF TypeOK
    <3> QED BY <3>1, ExporterAssumption, Names
  <2>3. n \in Carried(posts'["sender"], p) => sent[p][n] = 0
      BY <1>3, <1>5, <2>1
  <2>4. \A t \in Threads : n \in Carried(posts'[t], p) =>
           sent[p][n] <= IF p = Head(posts'[t]).path THEN attempt[t] ELSE 0
      BY <1>5, <2>1, <2>2, <2>3, Names
  <2>5. \A j \in DOMAIN senderQueue' :
           n \in Carried(senderQueue'[j].posts, p) => sent[p][n] = 0
      BY <1>3, <2>1
  <2> QED BY <2>1, <2>4, <2>5
<1> QED BY <1>7, <1>8, <1>9, <1>10, <1>11 DEF DataInv

LEMMA CounterTypes ==
    ASSUME TypeOK
    PROVE  /\ \A p \in Paths : \A n \in 1..Limit[p] : sent[p][n] \in Nat
           /\ \A t \in Threads : attempt[t] \in 0..MaxRetries /\ attempt[t] \in Nat
<1>1. /\ \A p \in Paths : sent[p] \in [1..Limit[p] -> Nat]
      /\ attempt \in [Threads -> 0..MaxRetries]
    BY DEF TypeOK
<1>2. \A p \in Paths : \A n \in 1..Limit[p] : sent[p][n] \in Nat
    BY <1>1
<1>3. \A t \in Threads : attempt[t] \in 0..MaxRetries /\ attempt[t] \in Nat
    BY <1>1, ExporterAssumption
<1> QED BY <1>2, <1>3

(* An attempt sends its items once more, and no other.                     *)
LEMMA SendEffect ==
    ASSUME TypeOK, NEW payload \in Payload, Send(payload),
           NEW p \in Paths, NEW n \in 1..Limit[p]
    PROVE  /\ sent'[p][n] = sent[p][n] \/ sent'[p][n] = sent[p][n] + 1
           /\ ~(p = payload.path /\ n \in Items(payload)) => sent'[p][n] = sent[p][n]
<1>1. DOMAIN sent = Paths /\ \A q \in Paths : sent[q] \in [1..Limit[q] -> Nat]
    BY DEF TypeOK
<1> QED BY <1>1, SendType

(* A post ends: its payload leaves its thread and its items are settled.   *)
LEMMA SettleStep ==
    ASSUME TypeOK, TypeOK', BatchInv, DataInv, NEW t \in Threads, posts[t] # <<>>,
           NEW verdict, Settle(t, Head(posts[t]), verdict),
           Send(Head(posts[t])),
           \A p \in Paths : Taken(p)' = Taken(p), UNCHANGED senderQueue
    PROVE  DataInv'
<1>1. PICK payload \in Payload : payload = Head(posts[t])
    BY HeadPayload
<1>2. payload.path \in Paths
    BY PayloadFields
<1>3. /\ posts[t] \in Seq(Payload) /\ posts \in [Threads -> Seq(Payload)]
      /\ WellFormed(posts[t])
    BY DEF TypeOK, DataInv, ShapeInv
<1>4. posts'[t] = Tail(posts[t]) /\ \A u \in Threads \ {t} : posts'[u] = posts[u]
    BY <1>3 DEF Settle
<1>5. WellFormed(Tail(posts[t])) /\ Carried(Tail(posts[t]), payload.path) = {}
    BY <1>1, <1>3, TailShape
<1>6. \A p : Carried(posts[t], p) = (IF payload.path = p THEN Items(payload) ELSE {})
                                    \cup Carried(posts'[t], p)
    BY <1>1, <1>3, <1>4, CarriedHeadTail
<1>7. /\ Carried(posts'[t], payload.path) = {}
      /\ Carried(posts[t], payload.path) = Items(payload)
    BY <1>4, <1>5, <1>6
<1>8. \A p \in Paths : p # payload.path => Carried(posts'[t], p) = Carried(posts[t], p)
    BY <1>6
<1>9. /\ Settled(payload.path)' = Settled(payload.path) \cup Items(payload)
      /\ \A p \in Paths : p # payload.path => Settled(p)' = Settled(p)
  <2>1. delivered \in [Paths -> SUBSET (Nat \ {0})] /\ abandoned \in [Paths -> SUBSET (Nat \ {0})]
      BY DEF TypeOK
  <2> QED BY <1>1, <1>2, <2>1 DEF Settle, Settled
<1>10. \A p \in Paths : \A u \in Threads : Carried(posts'[u], p) \subseteq Carried(posts[u], p)
    BY <1>4, <1>6
<1>11. Items(payload) \subseteq (1..Taken(payload.path)) \ Settled(payload.path)
    BY <1>2, <1>7 DEF DataInv, OpenInv
<1>12. \A u \in Threads : Items(payload) \cap Carried(posts'[u], payload.path) = {}
    BY <1>2, <1>4, <1>7, Names DEF DataInv, ApartInv
<1>13. \A j \in DOMAIN senderQueue :
          Items(payload) \cap Carried(senderQueue[j].posts, payload.path) = {}
    BY <1>2, <1>7 DEF DataInv, ApartInv
<1>14. ShapeInv'
    BY <1>4, <1>5 DEF DataInv, ShapeInv
<1>15. OpenInv'
  <2>1. ASSUME NEW p \in Paths, NEW u \in Threads
        PROVE  Carried(posts'[u], p) \subseteq (1..Taken(p)) \ Settled(p)'
    <3>1. Carried(posts'[u], p) \subseteq (1..Taken(p)) \ Settled(p)
        BY <1>10 DEF DataInv, OpenInv
    <3> QED BY <1>9, <1>12, <3>1
  <2>2. ASSUME NEW p \in Paths, NEW j \in DOMAIN senderQueue
        PROVE  Carried(senderQueue[j].posts, p) \subseteq (1..Taken(p)) \ Settled(p)'
    <3>1. Carried(senderQueue[j].posts, p) \subseteq (1..Taken(p)) \ Settled(p)
        BY DEF DataInv, OpenInv
    <3> QED BY <1>9, <1>13, <3>1
  <2> QED BY <2>1, <2>2 DEF OpenInv
<1>16. ApartInv'
  <2>1. ASSUME NEW p \in Paths
        PROVE  Carried(posts'["caller"], p) \cap Carried(posts'["sender"], p) = {}
      BY <1>10, Names DEF DataInv, ApartInv
  <2>2. ASSUME NEW p \in Paths, NEW u \in Threads, NEW j \in DOMAIN senderQueue
        PROVE  Carried(posts'[u], p) \cap Carried(senderQueue[j].posts, p) = {}
      BY <1>10 DEF DataInv, ApartInv
  <2> QED BY <2>1, <2>2 DEF DataInv, ApartInv
<1>17. NothingLostInv'
  <2> SUFFICES ASSUME NEW p \in Paths
               PROVE  /\ Settled(p)' \subseteq 1..Taken(p)
                      /\ delivered'[p] \cap abandoned'[p] = {}
                      /\ \A n \in 1..Taken(p) :
                            \/ n \in Settled(p)'
                            \/ \E u \in Threads : n \in Carried(posts'[u], p)
                            \/ \E j \in DOMAIN senderQueue :
                                  n \in Carried(senderQueue[j].posts, p)
      BY DEF NothingLostInv
  <2>1. Settled(p)' \subseteq 1..Taken(p)
      BY <1>9, <1>11 DEF DataInv, NothingLostInv
  <2>2. delivered'[p] \cap abandoned'[p] = {}
    <3>1. delivered \in [Paths -> SUBSET (Nat \ {0})] /\ abandoned \in [Paths -> SUBSET (Nat \ {0})]
        BY DEF TypeOK
    <3>2. delivered[p] \cap abandoned[p] = {}
        BY DEF DataInv, NothingLostInv
    <3>3. \A n \in Items(payload) : n \notin delivered[payload.path] /\ n \notin abandoned[payload.path]
        BY <1>11 DEF Settled
    <3> QED BY <1>1, <1>2, <3>1, <3>2, <3>3 DEF Settle
  <2>3. ASSUME NEW n, NEW u \in Threads, n \in Carried(posts[u], p)
        PROVE  n \in Settled(p)' \/ \E v \in Threads : n \in Carried(posts'[v], p)
      BY <1>4, <1>7, <1>8, <1>9, <2>3
  <2>4. Settled(p) \subseteq Settled(p)'
      BY <1>9
  <2> QED BY <2>1, <2>2, <2>3, <2>4 DEF DataInv, NothingLostInv
<1>18. CopiesInv'
  <2> SUFFICES ASSUME NEW p \in Paths, NEW n \in 1..Limit[p]
               PROVE  /\ sent'[p][n] <= MaxRetries + 1
                      /\ n > Taken(p) => sent'[p][n] = 0
                      /\ \A j \in DOMAIN senderQueue :
                            n \in Carried(senderQueue[j].posts, p) => sent'[p][n] = 0
                      /\ \A u \in Threads : n \in Carried(posts'[u], p) =>
                            sent'[p][n] <= IF p = Head(posts'[u]).path THEN attempt'[u] ELSE 0
      BY DEF CopiesInv
  <2>1. /\ sent[p][n] <= MaxRetries + 1
        /\ n > Taken(p) => sent[p][n] = 0
        /\ \A j \in DOMAIN senderQueue :
              n \in Carried(senderQueue[j].posts, p) => sent[p][n] = 0
        /\ \A u \in Threads : n \in Carried(posts[u], p) =>
              sent[p][n] <= IF p = Head(posts[u]).path THEN attempt[u] ELSE 0
      BY DEF DataInv, CopiesInv
  <2>2. sent[p][n] \in Nat /\ attempt[t] \in 0..MaxRetries /\ Taken(p) \in Nat
      BY CounterTypes, WaitingRun
  <2>3. attempt'[t] = 0 /\ \A u \in Threads \ {t} : attempt'[u] = attempt[u]
    <3>1. attempt \in [Threads -> 0..MaxRetries]
        BY DEF TypeOK
    <3> QED BY <3>1 DEF Settle
  <2>4. CASE p = payload.path /\ n \in Items(payload)
    <3>1. sent[p][n] <= attempt[t]
        BY <1>1, <1>7, <2>1, <2>4
    <3>2. sent'[p][n] = sent[p][n] \/ sent'[p][n] = sent[p][n] + 1
        BY <1>1, SendEffect
    <3>3. sent'[p][n] <= MaxRetries + 1
        BY <2>2, <3>1, <3>2, ExporterAssumption
    <3>4. n \in 1..Taken(p)
        BY <1>11, <2>4
    <3>5. ~(n > Taken(p))
        BY <2>2, <3>4
    <3> QED BY <1>12, <1>13, <2>4, <3>3, <3>5
  <2>5. CASE ~(p = payload.path /\ n \in Items(payload))
    <3>1. sent'[p][n] = sent[p][n]
        BY <1>1, <2>5, SendEffect
    <3>2. ASSUME NEW u \in Threads \ {t}, n \in Carried(posts'[u], p)
          PROVE  sent[p][n] <= IF p = Head(posts'[u]).path THEN attempt'[u] ELSE 0
        BY <1>4, <2>1, <2>3, <3>2
    <3>3. n \in Carried(posts'[t], p) => sent[p][n] <= 0
        BY <1>1, <1>7, <1>8, <2>1
    <3>4. \A u \in Threads : n \in Carried(posts'[u], p) =>
             sent[p][n] <= IF p = Head(posts'[u]).path THEN attempt'[u] ELSE 0
        BY <2>3, <3>2, <3>3
    <3> QED BY <2>1, <3>1, <3>4
  <2> QED BY <2>4, <2>5
<1> QED BY <1>14, <1>15, <1>16, <1>17, <1>18 DEF DataInv

(* A failed attempt that is retried: the payload stays, one attempt more.  *)
LEMMA RetryStep ==
    ASSUME TypeOK, BatchInv, DataInv, NEW t \in Threads, posts[t] # <<>>,
           attempt[t] # MaxRetries, Retry(t),
           Send(Head(posts[t])),
           \A p \in Paths : Taken(p)' = Taken(p), UNCHANGED senderQueue
    PROVE  DataInv'
<1>1. PICK payload \in Payload : payload = Head(posts[t])
    BY HeadPayload
<1>2. payload.path \in Paths
    BY PayloadFields
<1>3. UNCHANGED <<posts, delivered, abandoned>>
    BY DEF Retry
<1>4. \A p \in Paths : Settled(p)' = Settled(p)
    BY <1>3 DEF Settled
<1>5. ShapeInv' /\ OpenInv' /\ ApartInv' /\ NothingLostInv'
  <2>1. ShapeInv'
      BY <1>3 DEF DataInv, ShapeInv
  <2>2. OpenInv'
      BY <1>3, <1>4 DEF DataInv, OpenInv
  <2>3. ApartInv'
      BY <1>3 DEF DataInv, ApartInv
  <2>4. NothingLostInv'
      BY <1>3, <1>4 DEF DataInv, NothingLostInv
  <2> QED BY <2>1, <2>2, <2>3, <2>4
<1>6. Items(payload) \subseteq Carried(posts[t], payload.path)
  <2>1. posts[t] \in Seq(Payload)
      BY DEF TypeOK
  <2> QED BY <1>1, <2>1, CarriedHeadTail
<1>7. CopiesInv'
  <2> SUFFICES ASSUME NEW p \in Paths, NEW n \in 1..Limit[p]
               PROVE  /\ sent'[p][n] <= MaxRetries + 1
                      /\ n > Taken(p) => sent'[p][n] = 0
                      /\ \A j \in DOMAIN senderQueue :
                            n \in Carried(senderQueue[j].posts, p) => sent'[p][n] = 0
                      /\ \A u \in Threads : n \in Carried(posts[u], p) =>
                            sent'[p][n] <= IF p = Head(posts[u]).path THEN attempt'[u] ELSE 0
      BY <1>3 DEF CopiesInv
  <2>1. /\ sent[p][n] <= MaxRetries + 1
        /\ n > Taken(p) => sent[p][n] = 0
        /\ \A j \in DOMAIN senderQueue :
              n \in Carried(senderQueue[j].posts, p) => sent[p][n] = 0
        /\ \A u \in Threads : n \in Carried(posts[u], p) =>
              sent[p][n] <= IF p = Head(posts[u]).path THEN attempt[u] ELSE 0
      BY DEF DataInv, CopiesInv
  <2>2. sent[p][n] \in Nat /\ attempt[t] \in 0..MaxRetries /\ Taken(p) \in Nat
      BY CounterTypes, WaitingRun
  <2>3. attempt'[t] = attempt[t] + 1 /\ \A u \in Threads \ {t} : attempt'[u] = attempt[u]
    <3>1. attempt \in [Threads -> 0..MaxRetries]
        BY DEF TypeOK
    <3> QED BY <3>1 DEF Retry
  <2>4. CASE p = payload.path /\ n \in Items(payload)
    <3>1. n \in Carried(posts[t], p) /\ p = Head(posts[t]).path
        BY <1>1, <1>6, <2>4
    <3>2. sent[p][n] <= attempt[t]
        BY <2>1, <3>1
    <3>3. sent'[p][n] = sent[p][n] \/ sent'[p][n] = sent[p][n] + 1
        BY <1>1, SendEffect
    <3>4. sent'[p][n] <= attempt'[t] /\ sent'[p][n] <= MaxRetries + 1
        BY <2>2, <2>3, <3>2, <3>3, ExporterAssumption
    <3>5. n \in 1..Taken(p)
        BY <3>1 DEF DataInv, OpenInv
    <3>6. ~(n > Taken(p))
        BY <2>2, <3>5
    <3>7. \A u \in Threads \ {t} : n \notin Carried(posts[u], p)
        BY <3>1, Names DEF DataInv, ApartInv
    <3>8. \A j \in DOMAIN senderQueue : n \notin Carried(senderQueue[j].posts, p)
        BY <3>1 DEF DataInv, ApartInv
    <3> QED BY <3>1, <3>4, <3>6, <3>7, <3>8
  <2>5. CASE ~(p = payload.path /\ n \in Items(payload))
    <3>1. sent'[p][n] = sent[p][n]
        BY <1>1, <2>5, SendEffect
    <3>2. ASSUME NEW u \in Threads, n \in Carried(posts[u], p)
          PROVE  sent[p][n] <= IF p = Head(posts[u]).path THEN attempt'[u] ELSE 0
      <4>1. sent[p][n] <= IF p = Head(posts[u]).path THEN attempt[u] ELSE 0
          BY <2>1, <3>2
      <4>2. attempt[u] \in Nat /\ attempt'[u] \in Nat /\ attempt[u] <= attempt'[u]
          BY <2>3, CounterTypes
      <4> QED BY <2>2, <4>1, <4>2
    <3> QED BY <2>1, <3>1, <3>2
  <2> QED BY <2>4, <2>5
<1> QED BY <1>5, <1>7 DEF DataInv

-----------------------------------------------------------------------------
(* Every step keeps the inductive invariant.                               *)

(* Giving the exporter one more item of path p lengthens the run that waits.*)
LEMMA AppendRun ==
    ASSUME TypeOK, BatchInv, NEW p \in Paths, NEW s,
           s = Append(Waiting(p), given[p] + 1)
    PROVE  /\ s \in Seq(Nat \ {0}) /\ Len(s) = Len(Waiting(p)) + 1
           /\ \A i \in DOMAIN s : s[i] = Taken(p) + i
<1>1. /\ Waiting(p) \in Seq(Nat \ {0}) /\ given[p] \in Nat /\ Taken(p) \in Nat
    BY WaitingRun
<1>2. given[p] = Taken(p) + Len(Waiting(p))
    BY <1>1 DEF Taken
<1>3. \A i \in DOMAIN Waiting(p) : Waiting(p)[i] = Taken(p) + i
    BY DEF BatchInv
<1>4. s \in Seq(Nat \ {0}) /\ Len(s) = Len(Waiting(p)) + 1
    BY <1>1
<1>5. /\ DOMAIN s = 1..(Len(Waiting(p)) + 1) /\ DOMAIN Waiting(p) = 1..Len(Waiting(p))
      /\ \A i \in 1..Len(Waiting(p)) : s[i] = Waiting(p)[i]
      /\ s[Len(Waiting(p)) + 1] = given[p] + 1
    BY <1>1
<1>6. Len(Waiting(p)) \in Nat
    BY <1>1
<1>7. ASSUME NEW i \in DOMAIN s PROVE s[i] = Taken(p) + i
  <2>1. CASE i \in 1..Len(Waiting(p))
      BY <1>3, <1>5, <2>1
  <2>2. CASE i = Len(Waiting(p)) + 1
      BY <1>1, <1>2, <1>5, <1>6, <2>2
  <2> QED BY <1>5, <1>6, <1>7, <2>1, <2>2
<1> QED BY <1>4, <1>7

(* The two outcomes of emit(event:) in the terms of the invariants.        *)
LEMMA EmitEventEffect ==
    ASSUME TypeOK, BatchInv, EmitEvent
    PROVE  /\ BatchInv'
           /\ Taken(Metrics)' = Taken(Metrics)
           /\ \/ Taken(Logs)' = Taken(Logs) /\ UNCHANGED <<posts, pc>>
              \/ /\ pc' = "handoff" /\ Taken(Logs)' = given[Logs] + 1
                 /\ \E s : /\ posts' = [posts EXCEPT !["caller"] = s] /\ WellFormed(s)
                           /\ Carried(s, Logs) = (Taken(Logs) + 1)..(given[Logs] + 1)
                           /\ Carried(s, Metrics) = {}
<1> DEFINE appended == Append(batch, given[Logs] + 1)
           x == LogsPayload(appended, pendingDrops)
<1>1. Waiting(Logs) = batch /\ Waiting(Metrics) = metricsBatch
      /\ Waiting(Logs)' = batch' /\ Waiting(Metrics)' = metricsBatch'
    BY Names DEF Waiting
<1>2. /\ appended \in Seq(Nat \ {0}) /\ Len(appended) = Len(batch) + 1
      /\ \A i \in DOMAIN appended : appended[i] = Taken(Logs) + i
    BY <1>1, AppendRun, Names
<1>3. /\ Taken(Logs) \in Nat /\ given[Logs] \in Nat /\ Len(batch) \in Nat
      /\ given[Logs] = Taken(Logs) + Len(batch)
  <2>1. Taken(Logs) \in Nat /\ given[Logs] \in Nat /\ batch \in Seq(Nat \ {0})
      BY <1>1, WaitingRun, Names
  <2> QED BY <1>1, <2>1 DEF Taken
<1>4. /\ given[Logs] < MaxEvents /\ given' = [given EXCEPT ![Logs] = given[Logs] + 1]
      /\ metricsBatch' = metricsBatch /\ given \in [Paths -> Nat]
    BY DEF EmitEvent, TypeOK
<1>5. given'[Logs] = given[Logs] + 1 /\ given'[Metrics] = given[Metrics]
    BY <1>4, Names
<1>6. Limit[Logs] = MaxEvents
    BY Names DEF Limit
<1>7. given'[Logs] <= Limit[Logs]
    BY <1>3, <1>4, <1>5, <1>6, ExporterAssumption
<1>8. Taken(Metrics)' = Taken(Metrics)
    BY <1>1, <1>4, <1>5 DEF Taken
<1>9. /\ Len(Waiting(Metrics)') <= given'[Metrics] /\ given'[Metrics] <= Limit[Metrics]
      /\ \A i \in DOMAIN Waiting(Metrics)' : Waiting(Metrics)'[i] = Taken(Metrics)' + i
    BY <1>1, <1>4, <1>5, <1>8, Names DEF BatchInv
<1>10. x.path = Logs /\ x.items = appended
    BY DEF LogsPayload
<1>11. CASE Len(appended) >= BatchSize
  <2>1. ~(Len(appended) < BatchSize)
    <3>1. Len(appended) \in Nat /\ BatchSize \in Nat
        BY <1>2, <1>3, ExporterAssumption
    <3> QED BY <1>11, <3>1
  <2>2. posts' = [posts EXCEPT !["caller"] = <<x>>] /\ batch' = <<>> /\ pc' = "handoff"
      BY <2>1 DEF EmitEvent
  <2>3. Taken(Logs)' = given[Logs] + 1
      BY <1>1, <1>3, <1>5, <2>2 DEF Taken
  <2>4. BatchInv'
    <3>1. /\ Len(Waiting(Logs)') <= given'[Logs]
          /\ \A i \in DOMAIN Waiting(Logs)' : Waiting(Logs)'[i] = Taken(Logs)' + i
        BY <1>1, <1>3, <1>5, <2>2
    <3> QED BY <1>7, <1>9, <3>1, Names DEF BatchInv
  <2>5. {appended[i] : i \in DOMAIN appended} = (Taken(Logs) + 1)..(Taken(Logs) + Len(appended))
        /\ IsRun(appended)
      BY <1>2, <1>3, RunItems
  <2>6. Items(x) = (Taken(Logs) + 1)..(given[Logs] + 1)
    <3>1. Taken(Logs) + Len(appended) = given[Logs] + 1
        BY <1>2, <1>3
    <3> QED BY <1>10, <2>5, <3>1 DEF Items
  <2>7. appended # <<>>
      BY <1>2, <1>3
  <2>8. WellFormed(<<x>>)
      BY <1>10, <2>5, <2>7, WellFormedOne
  <2>9. Carried(<<x>>, Logs) = Items(x) /\ Carried(<<x>>, Metrics) = {}
      BY <1>10, CarriedOne, Names
  <2> HIDE DEF x
  <2> QED BY <1>8, <2>2, <2>3, <2>4, <2>6, <2>8, <2>9
<1>12. CASE ~(Len(appended) >= BatchSize)
  <2>1. batch' = appended /\ UNCHANGED <<posts, pc>>
    <3>1. ~(Len(appended) >= BatchSize)
        BY <1>12
    <3> QED BY <3>1 DEF EmitEvent
  <2>2. Taken(Logs)' = Taken(Logs)
      BY <1>1, <1>2, <1>3, <1>5, <2>1 DEF Taken
  <2>3. BatchInv'
    <3>1. /\ Len(Waiting(Logs)') <= given'[Logs]
          /\ \A i \in DOMAIN Waiting(Logs)' : Waiting(Logs)'[i] = Taken(Logs)' + i
        BY <1>1, <1>2, <1>3, <1>5, <2>1, <2>2
    <3> QED BY <1>7, <1>9, <3>1, Names DEF BatchInv
  <2> QED BY <1>8, <2>1, <2>2, <2>3
<1> QED BY <1>11, <1>12

LEMMA EmitSnapshotEffect ==
    ASSUME TypeOK, BatchInv, EmitSnapshot
    PROVE  BatchInv' /\ \A p \in Paths : Taken(p)' = Taken(p)
<1>1. Waiting(Logs) = batch /\ Waiting(Metrics) = metricsBatch
      /\ Waiting(Logs)' = batch' /\ Waiting(Metrics)' = metricsBatch'
    BY Names DEF Waiting
<1>2. /\ metricsBatch' \in Seq(Nat \ {0}) /\ Len(metricsBatch') = Len(metricsBatch) + 1
      /\ \A i \in DOMAIN metricsBatch' : metricsBatch'[i] = Taken(Metrics) + i
    BY <1>1, AppendRun, Names DEF EmitSnapshot
<1>3. /\ Taken(Metrics) \in Nat /\ given[Metrics] \in Nat /\ Len(metricsBatch) \in Nat
      /\ given[Metrics] = Taken(Metrics) + Len(metricsBatch)
  <2>1. Taken(Metrics) \in Nat /\ given[Metrics] \in Nat /\ metricsBatch \in Seq(Nat \ {0})
      BY <1>1, WaitingRun, Names
  <2> QED BY <1>1, <2>1 DEF Taken
<1>4. /\ given[Metrics] < MaxSnapshots /\ batch' = batch
      /\ given' = [given EXCEPT ![Metrics] = given[Metrics] + 1] /\ given \in [Paths -> Nat]
    BY DEF EmitSnapshot, TypeOK
<1>5. given'[Metrics] = given[Metrics] + 1 /\ given'[Logs] = given[Logs]
    BY <1>4, Names
<1>6. Limit[Metrics] = MaxSnapshots
    BY Names DEF Limit
<1>7. Taken(Metrics)' = Taken(Metrics)
    BY <1>1, <1>2, <1>3, <1>5 DEF Taken
<1>8. Taken(Logs)' = Taken(Logs)
    BY <1>1, <1>4, <1>5 DEF Taken
<1>9. /\ Len(Waiting(Metrics)') <= given'[Metrics] /\ given'[Metrics] <= Limit[Metrics]
      /\ \A i \in DOMAIN Waiting(Metrics)' : Waiting(Metrics)'[i] = Taken(Metrics)' + i
    BY <1>1, <1>2, <1>3, <1>4, <1>5, <1>6, <1>7, ExporterAssumption
<1>10. /\ Len(Waiting(Logs)') <= given'[Logs] /\ given'[Logs] <= Limit[Logs]
       /\ \A i \in DOMAIN Waiting(Logs)' : Waiting(Logs)'[i] = Taken(Logs)' + i
    BY <1>1, <1>4, <1>5, <1>8, Names DEF BatchInv
<1> QED BY <1>7, <1>8, <1>9, <1>10, Names DEF BatchInv

(* A locked take empties both batches.                                     *)
LEMMA TakeAllEffect ==
    ASSUME TypeOK, BatchInv, NEW t \in Threads, TakeAll(t), UNCHANGED given
    PROVE  BatchInv' /\ \A p \in Paths : Taken(p)' = given[p] /\ Taken(p) <= Taken(p)'
<1>1. \A p \in Paths : Waiting(p)' = <<>>
    BY DEF TakeAll, Waiting
<1>2. \A p \in Paths : given[p] \in Nat /\ given[p] <= Limit[p] /\ Taken(p) <= given[p]
    BY WaitingRun
<1>3. \A p \in Paths : Taken(p)' = given[p]
    BY <1>1, <1>2 DEF Taken
<1>4. BatchInv'
    BY <1>1, <1>2 DEF BatchInv
<1> QED BY <1>2, <1>3, <1>4

LEMMA BatchStep == TypeOK /\ BatchInv /\ [Next]_vars => BatchInv'
<1> SUFFICES ASSUME TypeOK, BatchInv, [Next]_vars PROVE BatchInv'
    OBVIOUS
<1>1. CASE EmitEvent
    BY <1>1, EmitEventEffect
<1>2. CASE EmitSnapshot
    BY <1>2, EmitSnapshotEffect
<1>3. ASSUME NEW t \in Threads, TakeAll(t), UNCHANGED given PROVE BatchInv'
    BY <1>3, TakeAllEffect
<1>4. CASE UNCHANGED <<batch, metricsBatch, given>>
    BY <1>4 DEF BatchInv, Taken, Waiting
<1>5. CASE Start \/ ReportDrops \/ CancelTimer \/ AsyncPost \/ FlushReturn \/ SyncSender
           \/ Invalidate \/ TimerFires \/ RunHandoff \/ CollectorStores \/ Closed
           \/ UNCHANGED vars
    BY <1>4, <1>5 DEF CollectorStores, Start, ReportDrops, CancelTimer, AsyncPost, FlushReturn, SyncSender,
       Invalidate, TimerFires, RunHandoff, Closed, vars, shared, history
<1>6. CASE Flush \/ ShutdownFlush
    BY <1>3, <1>6, Names DEF Flush, ShutdownFlush, history
<1>7. CASE RunTimer
    BY <1>3, <1>4, <1>7, Names DEF RunTimer, shared, history
<1>8. ASSUME NEW t \in Threads, NEW reply \in Replies, PostAttempt(t, reply)
      PROVE  BatchInv'
    BY <1>4, <1>8 DEF PostAttempt, shared
<1> QED BY <1>1, <1>2, <1>5, <1>6, <1>7, <1>8, Names DEF Next, CallerStep, SenderStep

(* Nothing of a path leaves its batch when the batches and the counts of   *)
(* items given stay as they are.                                           *)
LEMMA TakenSame ==
    ASSUME UNCHANGED <<batch, metricsBatch, given>>, NEW p \in Paths
    PROVE  Taken(p)' = Taken(p)
BY DEF Taken, Waiting

(* A flush, of either thread, on payloads and queue.                       *)
LEMMA FlushStep ==
    ASSUME TypeOK, TypeOK', BatchInv, BatchInv', DataInv, NEW t \in Threads,
           posts[t] = <<>>, TakeAll(t),
           \/ UNCHANGED senderQueue
           \/ /\ senderQueue # <<>> /\ Head(senderQueue).posts = <<>>
              /\ senderQueue' = Tail(senderQueue),
           UNCHANGED <<attempt, given, delivered, abandoned, sent>>
    PROVE  DataInv'
<1>1. WellFormed(Pending) /\ \A p \in Paths : Carried(Pending, p) = (Taken(p) + 1)..given[p]
    BY PendingShape
<1>2. posts' = [posts EXCEPT ![t] = Pending]
    BY DEF TakeAll
<1>3. \A p \in Paths : Taken(p) <= Taken(p)' /\ Taken(p)' = given[p]
    BY TakeAllEffect
<1>4. \A p \in Paths : Carried(Pending, p) = (Taken(p) + 1)..Taken(p)'
    BY <1>1, <1>3
<1>5. senderQueue \in Seq(Job)
    BY DEF TypeOK
<1>6. CASE UNCHANGED senderQueue
  <2>1. /\ \A j \in DOMAIN senderQueue' :
              j + 0 \in DOMAIN senderQueue /\ senderQueue'[j] = senderQueue[j + 0]
        /\ \A j \in DOMAIN senderQueue :
              j - 0 \in DOMAIN senderQueue' \/ senderQueue[j].posts = <<>>
      BY <1>5, <1>6
  <2> HIDE DEF Pending
  <2> QED BY <1>1, <1>2, <1>3, <1>4, <2>1, TakeStep
<1>7. CASE /\ senderQueue # <<>> /\ Head(senderQueue).posts = <<>>
           /\ senderQueue' = Tail(senderQueue)
  <2>1. /\ \A j \in DOMAIN senderQueue' :
              j + 1 \in DOMAIN senderQueue /\ senderQueue'[j] = senderQueue[j + 1]
        /\ \A j \in DOMAIN senderQueue :
              j - 1 \in DOMAIN senderQueue' \/ senderQueue[j].posts = <<>>
      BY <1>5, <1>7
  <2> QED BY <1>1, <1>2, <1>3, <1>4, <2>1, TakeStep
<1> QED BY <1>6, <1>7

LEMMA DataStep ==
    ASSUME IInv, TypeOK', BatchInv', [Next]_vars
    PROVE  DataInv'
<1> USE DEF IInv
<1>0. DataInv
    BY DEF DataInv
<1>1. CASE Start \/ ReportDrops \/ CancelTimer \/ FlushReturn \/ SyncSender
           \/ Invalidate \/ CollectorStores \/ Closed \/ UNCHANGED vars
  <2>1. UNCHANGED <<batch, metricsBatch, given, posts, senderQueue, attempt, delivered,
                    abandoned, sent>>
      BY <1>1 DEF CollectorStores, Start, ReportDrops, CancelTimer, FlushReturn, SyncSender,
         Invalidate, Closed, vars, shared, history
  <2> QED BY <1>0, <2>1, QuietStep, TakenSame
<1>2. CASE EmitSnapshot
    BY <1>0, <1>2, EmitSnapshotEffect, QuietStep DEF EmitSnapshot
<1>3. CASE EmitEvent
  <2>1. UNCHANGED <<senderQueue, attempt, delivered, abandoned, sent>> /\ pc = "ready"
      BY <1>3 DEF EmitEvent
  <2>2. Taken(Metrics)' = Taken(Metrics)
      BY <1>3, EmitEventEffect
  <2>3. CASE Taken(Logs)' = Taken(Logs) /\ UNCHANGED <<posts, pc>>
      BY <1>0, <2>1, <2>2, <2>3, QuietStep, Names
  <2>4. ASSUME Taken(Logs)' = given[Logs] + 1,
               NEW s, posts' = [posts EXCEPT !["caller"] = s], WellFormed(s),
               Carried(s, Logs) = (Taken(Logs) + 1)..(given[Logs] + 1),
               Carried(s, Metrics) = {}
        PROVE  DataInv'
    <3>1. posts["caller"] = <<>>
        BY <2>1 DEF ControlInv
    <3>2. \A p \in Paths : Taken(p) \in Nat /\ given[p] \in Nat /\ Taken(p) <= given[p]
        BY WaitingRun
    <3>3. \A p \in Paths : Taken(p) <= Taken(p)'
        BY <2>2, <2>4, <3>2, Names
    <3>4. \A p \in Paths : Carried(s, p) = (Taken(p) + 1)..Taken(p)'
      <4>1. (Taken(Metrics) + 1)..Taken(Metrics) = {}
          BY <3>2, Names
      <4> QED BY <2>2, <2>4, <4>1, Names
    <3>5. senderQueue \in Seq(Job)
        BY DEF TypeOK
    <3>6. /\ \A j \in DOMAIN senderQueue' :
                j + 0 \in DOMAIN senderQueue /\ senderQueue'[j] = senderQueue[j + 0]
          /\ \A j \in DOMAIN senderQueue :
                j - 0 \in DOMAIN senderQueue' \/ senderQueue[j].posts = <<>>
        BY <2>1, <3>5
    <3> QED BY <1>0, <2>1, <2>4, <3>1, <3>3, <3>4, <3>6, TakeStep, Names
  <2> QED BY <1>3, <2>3, <2>4, EmitEventEffect
<1>4. CASE AsyncPost
  <2> DEFINE job == [timer |-> FALSE, posts |-> posts["caller"]]
  <2>1. job \in Job /\ ~job.timer /\ job.posts = posts["caller"]
      BY Names DEF TypeOK, Job
  <2>2. /\ senderQueue' = Append(senderQueue, job)
        /\ posts' = [posts EXCEPT !["caller"] = <<>>]
        /\ UNCHANGED <<batch, metricsBatch, given, attempt, delivered, abandoned, sent>>
        /\ pc = "handoff"
      BY <1>4 DEF AsyncPost, shared, history
  <2>3. attempt["caller"] = 0
      BY <2>2, Names DEF ControlInv, IsPosting
  <2> HIDE DEF job
  <2> QED BY <1>0, <2>1, <2>2, <2>3, EnqueueStep, TakenSame
<1>5. CASE TimerFires
  <2> DEFINE job == [timer |-> TRUE, posts |-> <<>>]
  <2>1. job \in Job /\ job.posts = <<>>
      BY DEF Job
  <2>2. /\ senderQueue' = Append(senderQueue, job) /\ posts' = posts
        /\ UNCHANGED <<batch, metricsBatch, given, attempt, delivered, abandoned, sent>>
      BY <1>5 DEF TimerFires, shared, history
  <2> HIDE DEF job
  <2> QED BY <1>0, <2>1, <2>2, EnqueueStep, TakenSame
<1>6. CASE Flush \/ ShutdownFlush
  <2>1. /\ posts["caller"] = <<>> /\ TakeAll("caller")
        /\ UNCHANGED <<senderQueue, attempt, given, delivered, abandoned, sent>>
      BY <1>6 DEF Flush, ShutdownFlush, history, ControlInv
  <2> QED BY <1>0, <2>1, FlushStep, Names
<1>7. CASE RunHandoff
  <2>1. /\ senderQueue # <<>> /\ posts["sender"] = <<>>
        /\ posts' = [posts EXCEPT !["sender"] = Head(senderQueue).posts]
        /\ senderQueue' = Tail(senderQueue)
        /\ UNCHANGED <<batch, metricsBatch, given, attempt, delivered, abandoned, sent>>
      BY <1>7 DEF RunHandoff, shared, history
  <2> QED BY <1>0, <2>1, DequeueStep, TakenSame
<1>8. CASE RunTimer
  <2>1. /\ senderQueue # <<>> /\ posts["sender"] = <<>> /\ Head(senderQueue).timer
        /\ senderQueue' = Tail(senderQueue)
        /\ UNCHANGED <<attempt, given, delivered, abandoned, sent>>
      BY <1>8 DEF RunTimer, history
  <2>2. senderQueue \in Seq(Job) /\ posts \in [Threads -> Seq(Payload)]
      BY DEF TypeOK
  <2>3. 1 \in DOMAIN senderQueue /\ Head(senderQueue) = senderQueue[1]
      BY <2>1, <2>2
  <2>4. Head(senderQueue).posts = <<>>
      BY <2>1, <2>3 DEF ShapeInv
  <2>5. CASE TakeAll("sender")
      BY <1>0, <2>1, <2>4, <2>5, FlushStep, Names
  <2>6. CASE UNCHANGED <<shared, posts>>
    <3>1. posts' = [posts EXCEPT !["sender"] = Head(senderQueue).posts]
        BY <2>1, <2>2, <2>4, <2>6
    <3> QED BY <1>0, <2>1, <2>6, <3>1, DequeueStep, TakenSame DEF shared
  <2> QED BY <1>8, <2>5, <2>6 DEF RunTimer
<1>9. ASSUME NEW t \in Threads, NEW reply \in Replies, PostAttempt(t, reply)
      PROVE  DataInv'
  <2>1. /\ posts[t] # <<>> /\ Send(Head(posts[t]))
        /\ UNCHANGED <<batch, metricsBatch, given, senderQueue>>
      BY <1>9 DEF PostAttempt, IsPosting, shared
  <2>2. CASE IsFinal(t, reply)
    <3>1. Settle(t, Head(posts[t]), reply)
        BY <1>9, <2>2 DEF PostAttempt
    <3> QED BY <1>0, <2>1, <3>1, SettleStep, TakenSame
  <2>3. CASE ~IsFinal(t, reply)
    <3>1. Retry(t) /\ attempt[t] # MaxRetries
        BY <1>9, <2>3 DEF PostAttempt, IsFinal
    <3> QED BY <1>0, <2>1, <3>1, RetryStep, TakenSame
  <2> QED BY <2>2, <2>3
<1> QED BY <1>1, <1>2, <1>3, <1>4, <1>5, <1>6, <1>7, <1>8, <1>9, Names
        DEF Next, CallerStep, SenderStep

(* What is empty at each point of the caller's control.                    *)
LEMMA ControlStep ==
    ASSUME IInv, TypeOK', [Next]_vars
    PROVE  ControlInv'
<1> USE Names DEF IInv
<1>0. /\ posts \in [Threads -> Seq(Payload)] /\ attempt \in [Threads -> 0..MaxRetries]
      /\ posts["caller"] = <<>> => attempt["caller"] = 0
      /\ posts["sender"] = <<>> => attempt["sender"] = 0
    BY DEF TypeOK, ControlInv, IsPosting
<1>1. CASE Start
    BY <1>1 DEF Start, ControlInv, IsPosting, shared
<1>2. CASE ReportDrops
    BY <1>2 DEF ReportDrops, ControlInv, IsPosting
<1>3. CASE EmitEvent
    BY <1>0, <1>3 DEF EmitEvent, ControlInv, IsPosting
<1>4. CASE EmitSnapshot
    BY <1>4 DEF EmitSnapshot, ControlInv, IsPosting
<1>5. CASE Flush
    BY <1>0, <1>5 DEF Flush, TakeAll, ControlInv, IsPosting
<1>6. CASE CancelTimer
    BY <1>6 DEF CancelTimer, ControlInv, IsPosting, shared
<1>7. CASE AsyncPost
    BY <1>0, <1>7 DEF AsyncPost, ControlInv, IsPosting, shared
<1>8. CASE FlushReturn
    BY <1>0, <1>8 DEF FlushReturn, ControlInv, IsPosting, shared
<1>9. CASE SyncSender
    BY <1>9 DEF SyncSender, ControlInv, IsPosting, shared
<1>10. CASE ShutdownFlush
    BY <1>0, <1>10 DEF ShutdownFlush, TakeAll, ControlInv, IsPosting
<1>11. CASE Invalidate
    BY <1>0, <1>11 DEF Invalidate, ControlInv, IsPosting, shared
<1>12. CASE TimerFires
    BY <1>12 DEF TimerFires, ControlInv, IsPosting, shared
<1>13. CASE RunHandoff
    BY <1>0, <1>13 DEF RunHandoff, ControlInv, IsPosting, shared
<1>14. CASE RunTimer
    BY <1>0, <1>14 DEF RunTimer, TakeAll, ControlInv, IsPosting, shared
<1>15. ASSUME NEW t \in Threads, NEW reply \in Replies, PostAttempt(t, reply)
       PROVE  ControlInv'
  <2>1. /\ IsPosting(t) /\ posts[t] # <<>>
        /\ UNCHANGED <<batch, metricsBatch, senderQueue, flushTimer, pc, session>>
      BY <1>15 DEF PostAttempt, IsPosting, shared
  <2>2. CASE IsFinal(t, reply)
    <3>1. Settle(t, Head(posts[t]), reply)
        BY <1>15, <2>2 DEF PostAttempt
    <3>2. /\ posts' = [posts EXCEPT ![t] = Tail(posts[t])]
          /\ attempt' = [attempt EXCEPT ![t] = 0]
        BY <3>1 DEF Settle
    <3> QED BY <1>0, <2>1, <3>2 DEF ControlInv, IsPosting
  <2>3. CASE ~IsFinal(t, reply)
    <3>1. Retry(t)
        BY <1>15, <2>3 DEF PostAttempt
    <3> QED BY <1>0, <2>1, <3>1 DEF Retry, ControlInv, IsPosting
  <2> QED BY <2>2, <2>3
<1>16. CASE Closed \/ UNCHANGED vars
    BY <1>16 DEF Closed, vars, shared, ControlInv, IsPosting
<1>17. CASE CollectorStores
    BY <1>17, CollectorEffect DEF ControlInv, IsPosting
<1> QED BY <1>1, <1>2, <1>3, <1>4, <1>5, <1>6, <1>7, <1>8, <1>9, <1>10, <1>11, <1>12,
           <1>13, <1>14, <1>15, <1>16, <1>17 DEF Next, CallerStep, SenderStep

(* The collector stores no more than it was sent.                          *)
LEMMA StoredStep ==
    ASSUME IInv, [Next]_vars
    PROVE  StoredInv'
<1>1. ASSUME UNCHANGED <<sent, copies>> PROVE StoredInv'
    BY <1>1 DEF IInv, StoredInv
<1>2. CASE CollectorStores
    BY <1>2, CollectorEffect DEF IInv
<1>3. ASSUME NEW t \in Threads, NEW reply \in Replies, PostAttempt(t, reply)
      PROVE  StoredInv'
  <2>1. posts[t] # <<>> /\ Send(Head(posts[t])) /\ UNCHANGED copies
      BY <1>3 DEF PostAttempt, IsPosting
  <2>2. Head(posts[t]) \in Payload
      BY <2>1, HeadPayload DEF IInv
  <2> SUFFICES ASSUME NEW p \in Paths, NEW n \in 1..Limit[p]
               PROVE  copies[p][n] <= sent'[p][n]
      BY <2>1 DEF StoredInv
  <2>3. sent'[p][n] = sent[p][n] \/ sent'[p][n] = sent[p][n] + 1
      BY <2>1, <2>2, SendEffect DEF IInv
  <2>4. copies[p][n] \in Nat /\ sent[p][n] \in Nat
      BY DEF IInv, TypeOK
  <2>5. copies[p][n] <= sent[p][n]
      BY DEF IInv, StoredInv
  <2> QED BY <2>3, <2>4, <2>5
<1>4. CASE Start \/ ReportDrops \/ EmitEvent \/ EmitSnapshot \/ Flush \/ CancelTimer
           \/ AsyncPost \/ FlushReturn \/ SyncSender \/ ShutdownFlush \/ Invalidate
           \/ RunHandoff \/ RunTimer \/ TimerFires \/ Closed \/ UNCHANGED vars
    BY <1>1, <1>4 DEF Start, ReportDrops, EmitEvent, EmitSnapshot, Flush, CancelTimer,
       AsyncPost, FlushReturn, SyncSender, ShutdownFlush, Invalidate, RunHandoff, RunTimer,
       TimerFires, Closed, vars, history
<1> QED BY <1>2, <1>3, <1>4, Names DEF Next, CallerStep, SenderStep

LEMMA InvInit == Init => IInv
<1> SUFFICES ASSUME Init PROVE IInv
    OBVIOUS
<1>1. TypeOK
    BY ExporterAssumption, Names DEF Init, TypeOK, Limit
<1>2. /\ \A t \in Threads : posts[t] = <<>> /\ attempt[t] = 0
      /\ senderQueue = <<>> /\ \A p \in Paths : Settled(p) = {} /\ Waiting(p) = <<>>
      /\ \A p \in Paths : given[p] = 0 /\ Limit[p] \in Nat
    BY ExporterAssumption DEF Init, Settled, Waiting, Limit
<1>3. \A p \in Paths : Taken(p) = 0
    BY <1>2 DEF Taken
<1>4. BatchInv
    BY <1>2 DEF BatchInv
<1>5. ShapeInv
    BY <1>2 DEF ShapeInv, WellFormed, HoldsRuns
<1>6. OpenInv /\ ApartInv
    BY <1>2, CarriedEmpty, Names DEF OpenInv, ApartInv
<1>7. NothingLostInv
    BY <1>2, <1>3 DEF NothingLostInv, Init
<1>8. ControlInv
    BY <1>2, Names DEF Init, ControlInv, IsPosting
<1>9. CopiesInv
    BY <1>2, CarriedEmpty, ExporterAssumption DEF CopiesInv, Init
<1>10. StoredInv
    BY DEF StoredInv, Init
<1> QED BY <1>1, <1>4, <1>5, <1>6, <1>7, <1>8, <1>9, <1>10 DEF IInv

LEMMA InvStep == IInv /\ [Next]_vars => IInv'
<1> SUFFICES ASSUME IInv, [Next]_vars PROVE IInv'
    OBVIOUS
<1>1. TypeOK'
    BY TypeStep DEF IInv
<1>2. BatchInv'
    BY BatchStep DEF IInv
<1>3. DataInv'
    BY <1>1, <1>2, DataStep
<1>4. ControlInv'
    BY <1>1, ControlStep
<1>5. StoredInv'
    BY StoredStep
<1> QED BY <1>1, <1>2, <1>3, <1>4, <1>5 DEF IInv, DataInv

(* Every item given to the exporter waits in its batch, is carried by      *)
(* exactly one payload in flight, or is settled, in every reachable state. *)
THEOREM Invariance == Spec => []IInv
BY InvInit, InvStep, PTL DEF Spec

-----------------------------------------------------------------------------
(* What follows for the code.                                              *)

(* shutdown invalidates the session only once nothing is waiting, queued   *)
(* or being posted, on either thread.                                      *)
THEOREM ShutdownDrains == Spec => []DrainedWhenInvalid
<1>1. IInv => DrainedWhenInvalid
  <2> SUFFICES ASSUME IInv, session = "invalid" PROVE DrainedWhenInvalid
      BY DEF DrainedWhenInvalid
  <2>1. pc = "closed"
      BY DEF IInv, ControlInv
  <2> QED BY <2>1, Names DEF IInv, ControlInv, DrainedWhenInvalid
<1> QED BY <1>1, Invariance, PTL

(* Whichever thread takes a batch takes consecutive items, and leaves the  *)
(* run of the items given since.                                           *)
THEOREM BatchesAreRuns == Spec => []TakesAreRuns
<1>1. IInv => TakesAreRuns
  <2> SUFFICES ASSUME IInv PROVE TakesAreRuns
      OBVIOUS
  <2>1. /\ \A t \in Threads : HoldsRuns(posts[t])
        /\ \A j \in DOMAIN senderQueue : HoldsRuns(senderQueue[j].posts)
      BY DEF IInv, ShapeInv, WellFormed
  <2>2. Waiting(Logs) = batch /\ Waiting(Metrics) = metricsBatch
      BY Names DEF Waiting
  <2>3. \A i \in DOMAIN batch : batch[i] = given[Logs] - Len(batch) + i
      BY <2>2, Names DEF IInv, BatchInv, Taken
  <2>4. \A i \in DOMAIN metricsBatch :
           metricsBatch[i] = given[Metrics] - Len(metricsBatch) + i
      BY <2>2, Names DEF IInv, BatchInv, Taken
  <2> QED BY <2>1, <2>3, <2>4 DEF TakesAreRuns
<1> QED BY <1>1, Invariance, PTL

(* The collector never holds more copies of an item than a post has        *)
(* attempts, however late it stores a request.                             *)
THEOREM RetriesBounded == Spec => []CopiesBounded
<1>1. IInv => CopiesBounded
  <2> SUFFICES ASSUME IInv, NEW p \in Paths, NEW n \in DOMAIN copies[p]
               PROVE  copies[p][n] <= MaxRetries + 1
      BY DEF CopiesBounded
  <2>1. n \in 1..Limit[p] /\ copies[p][n] \in Nat /\ sent[p][n] \in Nat /\ MaxRetries \in Nat
      BY ExporterAssumption DEF IInv, TypeOK
  <2>2. copies[p][n] <= sent[p][n] /\ sent[p][n] <= MaxRetries + 1
      BY <2>1 DEF IInv, CopiesInv, StoredInv
  <2> QED BY <2>1, <2>2
<1> QED BY <1>1, Invariance, PTL

(* No request carries an item whose post has returned, after a 2xx or      *)
(* having given up: the takes never hand one item to two posts.            *)
THEOREM SettledNotSent == Spec => NoRequestAfterSettled
<1> DEFINE Keeps == \A p \in Paths : \A n \in delivered[p] \cup abandoned[p] :
                        sent'[p][n] = sent[p][n]
<1>1. IInv /\ [Next]_vars => [Keeps]_vars
  <2> SUFFICES ASSUME IInv, [Next]_vars, NEW p \in Paths,
                      NEW n \in delivered[p] \cup abandoned[p]
               PROVE  sent'[p][n] = sent[p][n]
      OBVIOUS
  <2>1. CASE UNCHANGED sent
      BY <2>1
  <2>2. ASSUME NEW t \in Threads, NEW reply \in Replies, PostAttempt(t, reply)
        PROVE  sent'[p][n] = sent[p][n]
    <3>1. /\ posts[t] # <<>> /\ Send(Head(posts[t]))
        BY <2>2 DEF PostAttempt, IsPosting
    <3>2. PICK payload \in Payload : payload = Head(posts[t])
        BY <3>1, HeadPayload DEF IInv
    <3>3. posts[t] \in Seq(Payload)
        BY DEF IInv, TypeOK
    <3>4. payload.path = p => Items(payload) \subseteq Carried(posts[t], p)
        BY <3>1, <3>2, <3>3, CarriedHeadTail
    <3>5. ~(p = payload.path /\ n \in Items(payload))
        BY <3>4 DEF IInv, OpenInv, Settled
    <3>6. n \in 1..Limit[p]
      <4>1. n \in 1..Taken(p)
          BY DEF IInv, NothingLostInv, Settled
      <4>2. Taken(p) \in Nat /\ given[p] \in Nat /\ Taken(p) <= given[p] /\ given[p] <= Limit[p]
          BY WaitingRun DEF IInv
      <4>3. Limit[p] \in Nat
          BY ExporterAssumption DEF Limit
      <4> QED BY <4>1, <4>2, <4>3
    <3> QED BY <3>1, <3>2, <3>5, <3>6, SendEffect DEF IInv
  <2>3. CASE Start \/ ReportDrops \/ EmitEvent \/ EmitSnapshot \/ Flush \/ CancelTimer
             \/ AsyncPost \/ FlushReturn \/ SyncSender \/ ShutdownFlush \/ Invalidate
             \/ RunHandoff \/ RunTimer \/ TimerFires \/ CollectorStores \/ Closed
             \/ UNCHANGED vars
      BY <2>1, <2>3 DEF CollectorStores, Start, ReportDrops, EmitEvent, EmitSnapshot, Flush, CancelTimer,
         AsyncPost, FlushReturn, SyncSender, ShutdownFlush, Invalidate, RunHandoff, RunTimer,
         TimerFires, Closed, vars, history
  <2> QED BY <2>2, <2>3, Names DEF Next, CallerStep, SenderStep
<1>2. NoRequestAfterSettled <=> [][Keeps]_vars
    BY DEF NoRequestAfterSettled
<1> QED BY <1>1, <1>2, Invariance, PTL DEF Spec

-----------------------------------------------------------------------------
(* The exporter implements Delivery.                                       *)

LEMMA UnsettledAt == \A p \in Paths : Unsettled[p] = (1..given[p]) \ Settled(p)
BY DEF Unsettled, Settled

(* Settled items were given before.                                        *)
LEMMA SettledGiven ==
    ASSUME IInv, NEW p \in Paths
    PROVE  Settled(p) \subseteq 1..given[p] /\ given[p] \in Nat
<1>1. Taken(p) \in Nat /\ given[p] \in Nat /\ Taken(p) <= given[p]
    BY WaitingRun DEF IInv
<1>2. Settled(p) \subseteq 1..Taken(p)
    BY DEF IInv, NothingLostInv
<1> QED BY <1>1, <1>2

(* emit accepts one more item of its path.                                 *)
LEMMA AcceptStep ==
    ASSUME IInv, NEW p \in Paths, pc # "closed", pc' # "closed",
           given' = [given EXCEPT ![p] = @ + 1],
           UNCHANGED <<delivered, abandoned>>
    PROVE  Promise!Accept(p)
<1>1. given[p] \in Nat /\ Settled(p) \subseteq 1..given[p] /\ given \in [Paths -> Nat]
    BY SettledGiven DEF IInv, TypeOK
<1>2. given[p] + 1 \notin Settled(p)
    BY <1>1
<1>3. (1..(given[p] + 1)) \ Settled(p) = ((1..given[p]) \ Settled(p)) \cup {given[p] + 1}
    BY <1>1, <1>2
<1>4. Unsettled' = [Unsettled EXCEPT ![p] = @ \cup {given[p] + 1}]
    BY <1>1, <1>3 DEF Unsettled, Settled
<1> QED BY <1>4 DEF Promise!Accept

(* A post that ends settles the items of its payload, all of them pending. *)
LEMMA SettleImplements ==
    ASSUME IInv, NEW t \in Threads, posts[t] # <<>>, NEW verdict,
           Settle(t, Head(posts[t]), verdict), pc # "closed", UNCHANGED <<given, pc>>
    PROVE  Promise!Next
<1>1. PICK payload \in Payload : payload = Head(posts[t])
    BY HeadPayload DEF IInv
<1>2. payload.path \in Paths
    BY PayloadFields
<1>3. posts[t] \in Seq(Payload)
    BY DEF IInv, TypeOK
<1>4. Items(payload) \subseteq Carried(posts[t], payload.path)
    BY <1>1, <1>3, CarriedHeadTail
<1>5. Items(payload) \subseteq (1..Taken(payload.path)) \ Settled(payload.path)
    BY <1>2, <1>4 DEF IInv, OpenInv
<1>6. /\ Taken(payload.path) \in Nat /\ given[payload.path] \in Nat
      /\ Taken(payload.path) <= given[payload.path]
    BY <1>2, WaitingRun DEF IInv
<1>7. Items(payload) \subseteq Unsettled[payload.path]
    BY <1>2, <1>5, <1>6, UnsettledAt
<1>8. /\ delivered \in [Paths -> SUBSET (Nat \ {0})]
      /\ abandoned \in [Paths -> SUBSET (Nat \ {0})]
    BY DEF IInv, TypeOK
<1>9. CASE verdict = "success"
  <2>1. /\ delivered' = [delivered EXCEPT ![payload.path] = @ \cup Items(payload)]
        /\ UNCHANGED abandoned
      BY <1>1, <1>9 DEF Settle
  <2>2. Unsettled' = [Unsettled EXCEPT ![payload.path] = @ \ Items(payload)]
      BY <1>2, <1>8, <2>1 DEF Unsettled
  <2>3. Promise!Deliver(payload.path, Items(payload))
      BY <2>1, <2>2 DEF Promise!Deliver
  <2> QED BY <1>2, <1>7, <2>3 DEF Promise!Next
<1>10. CASE verdict # "success"
  <2>1. /\ abandoned' = [abandoned EXCEPT ![payload.path] = @ \cup Items(payload)]
        /\ UNCHANGED delivered
      BY <1>1, <1>10 DEF Settle
  <2>2. Unsettled' = [Unsettled EXCEPT ![payload.path] = @ \ Items(payload)]
      BY <1>2, <1>8, <2>1 DEF Unsettled
  <2>3. Promise!Abandon(payload.path, Items(payload))
      BY <2>1, <2>2 DEF Promise!Abandon
  <2> QED BY <1>2, <1>7, <2>3 DEF Promise!Next
<1> QED BY <1>9, <1>10

(* Once shutdown has flushed, nothing given is unsettled.                  *)
LEMMA NothingPending ==
    ASSUME IInv, pc = "closing", posts["caller"] = <<>>, NEW p \in Paths
    PROVE  Unsettled[p] = {}
<1>1. senderQueue = <<>> /\ \A t \in Threads : posts[t] = <<>>
    BY Names DEF IInv, ControlInv
<1>2. Waiting(p) = <<>>
    BY DEF IInv, ControlInv, Waiting
<1>3. Taken(p) = given[p]
    BY <1>2, WaitingRun DEF IInv
<1>4. \A n \in 1..Taken(p) : n \in Settled(p)
    BY <1>1, CarriedEmpty DEF IInv, NothingLostInv
<1> QED BY <1>3, <1>4, UnsettledAt

LEMMA DeliveryStep ==
    ASSUME IInv, [Next]_vars
    PROVE  [Promise!Next]_(Promise!vars)
<1>1. CASE EmitEvent
  <2>1. /\ pc # "closed" /\ pc' # "closed" /\ given' = [given EXCEPT ![Logs] = @ + 1]
        /\ UNCHANGED <<delivered, abandoned>>
      BY <1>1 DEF EmitEvent
  <2> QED BY <2>1, AcceptStep, Names DEF Promise!Next
<1>2. CASE EmitSnapshot
  <2>1. /\ pc # "closed" /\ pc' # "closed" /\ given' = [given EXCEPT ![Metrics] = @ + 1]
        /\ UNCHANGED <<delivered, abandoned>>
      BY <1>2 DEF EmitSnapshot
  <2> QED BY <2>1, AcceptStep, Names DEF Promise!Next
<1>3. CASE Invalidate
  <2>1. /\ pc = "closing" /\ pc' = "closed" /\ posts["caller"] = <<>>
        /\ UNCHANGED <<given, delivered, abandoned>>
      BY <1>3 DEF Invalidate, history
  <2>2. UNCHANGED Unsettled
      BY <2>1 DEF Unsettled
  <2>3. \A p \in Paths : Unsettled[p] = {}
      BY <2>1, NothingPending
  <2>4. Promise!Close
      BY <2>1, <2>2, <2>3 DEF Promise!Close
  <2> QED BY <2>4 DEF Promise!Next
<1>4. ASSUME UNCHANGED <<given, delivered, abandoned>>, (pc = "closed") = (pc' = "closed")
      PROVE  UNCHANGED (Promise!vars)
  <2>1. UNCHANGED Unsettled
      BY <1>4 DEF Unsettled
  <2> QED BY <1>4, <2>1 DEF Promise!vars
<1>5. CASE Start \/ ReportDrops \/ Flush \/ CancelTimer \/ AsyncPost \/ FlushReturn
           \/ SyncSender \/ ShutdownFlush \/ RunHandoff \/ RunTimer \/ TimerFires
           \/ CollectorStores \/ Closed \/ UNCHANGED vars
  <2>1. UNCHANGED <<given, delivered, abandoned>> /\ (pc = "closed") = (pc' = "closed")
      BY <1>5 DEF CollectorStores, Start, ReportDrops, Flush, CancelTimer, AsyncPost, FlushReturn, SyncSender,
         ShutdownFlush, RunHandoff, RunTimer, TimerFires, Closed, vars, history
  <2> QED BY <1>4, <2>1
<1>6. ASSUME NEW t \in Threads, NEW reply \in Replies, PostAttempt(t, reply)
      PROVE  [Promise!Next]_(Promise!vars)
  <2>1. posts[t] # <<>> /\ UNCHANGED <<given, pc>> /\ IsPosting(t)
      BY <1>6 DEF PostAttempt, IsPosting
  <2>2. pc # "closed"
      BY <2>1, Names DEF IInv, ControlInv, IsPosting
  <2>3. CASE IsFinal(t, reply)
    <3>1. Settle(t, Head(posts[t]), reply)
        BY <1>6, <2>3 DEF PostAttempt
    <3> QED BY <2>1, <2>2, <3>1, SettleImplements
  <2>4. CASE ~IsFinal(t, reply)
    <3>1. UNCHANGED <<delivered, abandoned>>
        BY <1>6, <2>4 DEF PostAttempt, Retry
    <3> QED BY <1>4, <2>1, <3>1
  <2> QED BY <2>3, <2>4
<1> QED BY <1>1, <1>2, <1>3, <1>5, <1>6, Names DEF Next, CallerStep, SenderStep

(* The exporter keeps the promise of the Exporter protocol: an item is     *)
(* pending from emit until one post settles it, once, and shutdown returns *)
(* with nothing pending.                                                   *)
THEOREM ImplementsDelivery == Spec => DeliverySpec
<1>1. Init => Promise!Init
  <2> SUFFICES ASSUME Init PROVE Promise!Init
      OBVIOUS
  <2>1. Unsettled = [p \in Paths |-> {}]
    <3>1. \A p \in Paths : (1..given[p]) \ (delivered[p] \cup abandoned[p]) = {}
        BY DEF Init
    <3> QED BY <3>1 DEF Unsettled
  <2> QED BY <2>1 DEF Init, Promise!Init
<1> QED BY <1>1, DeliveryStep, Invariance, PTL DEF Spec, DeliverySpec, Promise!Spec

-----------------------------------------------------------------------------
(* The accounting of drops: the counts a sequence of payloads carries, and *)
(* the counts a queue of jobs carries, are sums over sequences of numbers. *)

DropsOf(s) == [i \in DOMAIN s |-> s[i].drops]
QueueOf(q) == [j \in DOMAIN q |-> SumDrops(q[j].posts)]

LEMMA DropsType ==
    ASSUME NEW s \in Seq(Payload)
    PROVE  /\ DropsOf(s) \in Seq(Nat) /\ Len(DropsOf(s)) = Len(s)
           /\ \A i \in 1..Len(s) : DropsOf(s)[i] = s[i].drops
           /\ SumDrops(s) = SumFunction(DropsOf(s)) /\ SumDrops(s) \in Nat
<1>1. DropsOf(s) = [i \in 1..Len(s) |-> s[i].drops] /\ Len(s) \in Nat
    BY DEF DropsOf
<1>2. \A i \in 1..Len(s) : s[i].drops \in Nat
  <2>1. \A i \in 1..Len(s) : s[i] \in Payload
      OBVIOUS
  <2> QED BY <2>1, PayloadFields
<1>3. /\ DropsOf(s) \in Seq(Nat) /\ Len(DropsOf(s)) = Len(s)
      /\ \A i \in 1..Len(s) : DropsOf(s)[i] = s[i].drops
    BY <1>1, <1>2
<1>4. SumDrops(s) = SumFunction(DropsOf(s))
    BY DEF SumDrops, DropsOf
<1> QED BY <1>3, <1>4, SumOfSequence

LEMMA DropsAppend ==
    ASSUME NEW s \in Seq(Payload), NEW x \in Payload
    PROVE  SumDrops(Append(s, x)) = SumDrops(s) + x.drops
<1> DEFINE t == Append(s, x)
           n == Len(s)
           w == DropsOf(s)
           g == DropsOf(t)
<1>1. t \in Seq(Payload) /\ Len(t) = n + 1 /\ n \in Nat
    OBVIOUS
<1>2. t[n + 1] = x /\ \A i \in 1..n : t[i] = s[i]
    OBVIOUS
<1> HIDE DEF t
<1>3. /\ w \in [1..n -> Nat] /\ SumDrops(s) = SumFunction(w)
      /\ \A i \in 1..n : w[i] = s[i].drops
    BY DropsType
<1>4. /\ g \in [1..(n + 1) -> Nat] /\ SumDrops(t) = SumFunction(g)
      /\ \A i \in 1..(n + 1) : g[i] = t[i].drops
    BY <1>1, DropsType
<1>5. \A i \in 1..n : g[i] = w[i]
    BY <1>1, <1>2, <1>3, <1>4
<1>6. g[n + 1] = x.drops
    BY <1>1, <1>2, <1>4
<1> HIDE DEF g, w, n
<1>7. SumFunction(g) = SumFunction(w) + g[n + 1]
    BY <1>1, <1>3, <1>4, <1>5, SumExtended
<1> QED BY <1>3, <1>4, <1>6, <1>7 DEF t

LEMMA DropsTail ==
    ASSUME NEW s \in Seq(Payload), s # <<>>
    PROVE  SumDrops(s) = Head(s).drops + SumDrops(Tail(s))
<1> DEFINE t == Tail(s)
           g == DropsOf(s)
           w == DropsOf(t)
<1>1. /\ t \in Seq(Payload) /\ Len(s) = Len(t) + 1 /\ Head(s) = s[1]
      /\ \A i \in 1..Len(t) : t[i] = s[i + 1]
    BY HeadTailProperties
<1> HIDE DEF t
<1>2. /\ g \in Seq(Nat) /\ Len(g) = Len(s) /\ SumDrops(s) = SumFunction(g)
      /\ \A i \in 1..Len(s) : g[i] = s[i].drops
    BY DropsType
<1>3. /\ w \in Seq(Nat) /\ Len(w) = Len(t) /\ SumDrops(t) = SumFunction(w)
      /\ \A i \in 1..Len(t) : w[i] = t[i].drops
    BY <1>1, DropsType
<1>4. Len(t) \in Nat /\ Len(g) = Len(w) + 1
    BY <1>1, <1>2, <1>3
<1>5. \A i \in 1..Len(t) : i + 1 \in 1..Len(s)
    BY <1>1, <1>4
<1>6. \A i \in 1..Len(w) : w[i] = g[i + 1]
    BY <1>1, <1>2, <1>3, <1>5
<1>7. g[1] = Head(s).drops
    BY <1>1, <1>2, <1>4
<1> HIDE DEF g, w
<1>8. SumFunction(g) = g[1] + SumFunction(w)
    BY <1>2, <1>3, <1>4, <1>6, SumShifted
<1> QED BY <1>2, <1>3, <1>7, <1>8 DEF t

LEMMA QueueType ==
    ASSUME NEW q \in Seq(Job)
    PROVE  /\ QueueOf(q) \in Seq(Nat) /\ Len(QueueOf(q)) = Len(q)
           /\ \A j \in 1..Len(q) : QueueOf(q)[j] = SumDrops(q[j].posts)
           /\ QueuedDrops(q) = SumFunction(QueueOf(q)) /\ QueuedDrops(q) \in Nat
<1>1. QueueOf(q) = [j \in 1..Len(q) |-> SumDrops(q[j].posts)] /\ Len(q) \in Nat
    BY DEF QueueOf
<1>2. \A j \in 1..Len(q) : SumDrops(q[j].posts) \in Nat
  <2>1. \A j \in 1..Len(q) : q[j] \in Job
      OBVIOUS
  <2>2. \A job \in Job : job.posts \in Seq(Payload)
      BY DEF Job
  <2> QED BY <2>1, <2>2, DropsType
<1>3. /\ QueueOf(q) \in Seq(Nat) /\ Len(QueueOf(q)) = Len(q)
      /\ \A j \in 1..Len(q) : QueueOf(q)[j] = SumDrops(q[j].posts)
    BY <1>1, <1>2
<1>4. QueuedDrops(q) = SumFunction(QueueOf(q))
    BY DEF QueuedDrops, QueueOf
<1> QED BY <1>3, <1>4, SumOfSequence

LEMMA QueueAppend ==
    ASSUME NEW q \in Seq(Job), NEW job \in Job
    PROVE  QueuedDrops(Append(q, job)) = QueuedDrops(q) + SumDrops(job.posts)
<1> DEFINE t == Append(q, job)
           n == Len(q)
           w == QueueOf(q)
           g == QueueOf(t)
<1>1. t \in Seq(Job) /\ Len(t) = n + 1 /\ n \in Nat
    OBVIOUS
<1>2. t[n + 1] = job /\ \A j \in 1..n : t[j] = q[j]
    OBVIOUS
<1> HIDE DEF t
<1>3. /\ w \in [1..n -> Nat] /\ QueuedDrops(q) = SumFunction(w)
      /\ \A j \in 1..n : w[j] = SumDrops(q[j].posts)
    BY QueueType
<1>4. /\ g \in [1..(n + 1) -> Nat] /\ QueuedDrops(t) = SumFunction(g)
      /\ \A j \in 1..(n + 1) : g[j] = SumDrops(t[j].posts)
    BY <1>1, QueueType
<1>5. \A j \in 1..n : g[j] = w[j]
    BY <1>1, <1>2, <1>3, <1>4
<1>6. g[n + 1] = SumDrops(job.posts)
    BY <1>1, <1>2, <1>4
<1> HIDE DEF g, w, n
<1>7. SumFunction(g) = SumFunction(w) + g[n + 1]
    BY <1>1, <1>3, <1>4, <1>5, SumExtended
<1> QED BY <1>3, <1>4, <1>6, <1>7 DEF t

LEMMA QueueTail ==
    ASSUME NEW q \in Seq(Job), q # <<>>
    PROVE  QueuedDrops(q) = SumDrops(Head(q).posts) + QueuedDrops(Tail(q))
<1> DEFINE t == Tail(q)
           g == QueueOf(q)
           w == QueueOf(t)
<1>1. /\ t \in Seq(Job) /\ Len(q) = Len(t) + 1 /\ Head(q) = q[1]
      /\ \A j \in 1..Len(t) : t[j] = q[j + 1]
    BY HeadTailProperties
<1> HIDE DEF t
<1>2. /\ g \in Seq(Nat) /\ Len(g) = Len(q) /\ QueuedDrops(q) = SumFunction(g)
      /\ \A j \in 1..Len(q) : g[j] = SumDrops(q[j].posts)
    BY QueueType
<1>3. /\ w \in Seq(Nat) /\ Len(w) = Len(t) /\ QueuedDrops(t) = SumFunction(w)
      /\ \A j \in 1..Len(t) : w[j] = SumDrops(t[j].posts)
    BY <1>1, QueueType
<1>4. Len(t) \in Nat /\ Len(g) = Len(w) + 1
    BY <1>1, <1>2, <1>3
<1>5. \A j \in 1..Len(t) : j + 1 \in 1..Len(q)
    BY <1>1, <1>4
<1>6. \A j \in 1..Len(w) : w[j] = g[j + 1]
    BY <1>1, <1>2, <1>3, <1>5
<1>7. g[1] = SumDrops(Head(q).posts)
    BY <1>1, <1>2, <1>4
<1> HIDE DEF g, w
<1>8. SumFunction(g) = g[1] + SumFunction(w)
    BY <1>2, <1>3, <1>4, <1>6, SumShifted
<1> QED BY <1>2, <1>3, <1>7, <1>8 DEF t

(* What a take attaches to its payloads is at most what was pending.       *)
LEMMA DropsTaken ==
    /\ SumDrops(<<>>) = 0
    /\ \A x \in Payload : SumDrops(<<x>>) = x.drops
    /\ TypeOK => SumDrops(Pending) <= pendingDrops /\ SumDrops(Pending) \in Nat
<1>1. <<>> \in Seq(Payload) /\ SumDrops(<<>>) = 0
  <2>1. <<>> \in Seq(Payload)
      OBVIOUS
  <2>2. DropsOf(<<>>) = <<>>
      BY DEF DropsOf
  <2> QED BY <2>1, <2>2, DropsType, SumOfEmpty
<1>2. ASSUME NEW x \in Payload PROVE SumDrops(<<x>>) = x.drops
  <2>1. x.drops \in Nat /\ <<x>> = Append(<<>>, x)
      BY PayloadFields
  <2>2. SumDrops(Append(<<>>, x)) = SumDrops(<<>>) + x.drops
      BY <1>1, DropsAppend
  <2> QED BY <1>1, <2>1, <2>2
<1>3. ASSUME TypeOK PROVE SumDrops(Pending) <= pendingDrops /\ SumDrops(Pending) \in Nat
  <2> DEFINE x == LogsPayload(batch, pendingDrops)
             y == MetricsPayload(metricsBatch)
  <2>1. x \in Payload /\ y \in Payload
      BY <1>3, Names DEF TypeOK, LogsPayload, MetricsPayload, Payload
  <2>2. x.drops = pendingDrops /\ y.drops = 0 /\ pendingDrops \in Nat
      BY <1>3 DEF TypeOK, LogsPayload, MetricsPayload
  <2>3. Pending = (IF batch = <<>> THEN <<>> ELSE <<x>>)
                  \o (IF metricsBatch = <<>> THEN <<>> ELSE <<y>>)
      BY DEF Pending
  <2> HIDE DEF x, y
  <2>4. <<x>> \o <<y>> = Append(<<x>>, y) /\ <<x>> \in Seq(Payload)
      BY <2>1, PairOfOnes
  <2>5. SumDrops(<<x>> \o <<y>>) = x.drops + y.drops
      BY <1>2, <2>1, <2>4, DropsAppend
  <2>6. <<>> \o <<>> = <<>> /\ <<>> \o <<y>> = <<y>> /\ <<x>> \o <<>> = <<x>>
      OBVIOUS
  <2>7. \/ Pending = <<>> \/ Pending = <<x>> \/ Pending = <<y>> \/ Pending = <<x>> \o <<y>>
      BY <2>3, <2>6
  <2>8. SumDrops(<<x>>) = pendingDrops /\ SumDrops(<<y>>) = 0
      BY <1>2, <2>1, <2>2
  <2>9. SumDrops(<<x>> \o <<y>>) = pendingDrops
      BY <2>2, <2>5
  <2>10. CASE Pending = <<>>
      BY <1>1, <2>2, <2>10
  <2>11. CASE Pending = <<x>>
      BY <2>2, <2>8, <2>11
  <2>12. CASE Pending = <<y>>
      BY <2>2, <2>8, <2>12
  <2>13. CASE Pending = <<x>> \o <<y>>
      BY <2>2, <2>9, <2>13
  <2> QED BY <2>7, <2>10, <2>11, <2>12, <2>13
<1> QED BY <1>1, <1>2, <1>3

(* The sums in a state, and the effect of replacing a thread's payloads.   *)
LEMMA DropsNow ==
    ASSUME TypeOK
    PROVE  /\ SumDrops(posts["caller"]) \in Nat /\ SumDrops(posts["sender"]) \in Nat
           /\ QueuedDrops(senderQueue) \in Nat
           /\ pendingDrops \in Nat /\ noted \in Nat /\ reported \in Nat
<1>1. posts["caller"] \in Seq(Payload) /\ posts["sender"] \in Seq(Payload)
    BY Names DEF TypeOK
<1>2. senderQueue \in Seq(Job)
    BY DEF TypeOK
<1> QED BY <1>1, <1>2, DropsType, QueueType DEF TypeOK

(* One thread's payloads are replaced.                                     *)
LEMMA DropsPosts ==
    ASSUME TypeOK, NEW s
    PROVE  /\ posts' = [posts EXCEPT !["caller"] = s] =>
                 posts'["caller"] = s /\ posts'["sender"] = posts["sender"]
           /\ posts' = [posts EXCEPT !["sender"] = s] =>
                 posts'["caller"] = posts["caller"] /\ posts'["sender"] = s
<1>1. posts \in [Threads -> Seq(Payload)] /\ "caller" # "sender"
    BY DEF TypeOK
<1> QED BY <1>1, Names

(* No step makes the drops that are pending, in flight or noted outgrow    *)
(* the drops reported.                                                     *)
LEMMA DropsStep == TypeOK /\ DropsNotInflated /\ [Next]_vars => DropsNotInflated'
<1> SUFFICES ASSUME TypeOK, DropsNotInflated, [Next]_vars PROVE DropsNotInflated'
    OBVIOUS
<1> DEFINE a == SumDrops(posts["caller"])
           b == SumDrops(posts["sender"])
           c == QueuedDrops(senderQueue)
           a1 == SumDrops(posts'["caller"])
           b1 == SumDrops(posts'["sender"])
           c1 == QueuedDrops(senderQueue')
           d == SumDrops(Pending)
<1>1. /\ a \in Nat /\ b \in Nat /\ c \in Nat /\ d \in Nat /\ d <= pendingDrops
      /\ pendingDrops \in Nat /\ noted \in Nat /\ reported \in Nat
    BY DropsNow, DropsTaken
<1>2. pendingDrops + (a + b + c) + noted <= reported
    BY DEF DropsNotInflated, DropsInFlight
<1>3. DropsNotInflated' <=> pendingDrops' + (a1 + b1 + c1) + noted' <= reported'
    BY DEF DropsNotInflated, DropsInFlight
<1>4. /\ UNCHANGED posts => a1 = a /\ b1 = b
      /\ UNCHANGED senderQueue => c1 = c
    OBVIOUS
<1>5. /\ TakeAll("caller") => a1 = d /\ b1 = b /\ pendingDrops' = 0
      /\ TakeAll("sender") => a1 = a /\ b1 = d /\ pendingDrops' = 0
    BY DropsPosts DEF TakeAll
<1>6. /\ senderQueue \in Seq(Job)
      /\ posts["caller"] \in Seq(Payload) /\ posts["sender"] \in Seq(Payload)
    BY Names DEF TypeOK
<1>7. /\ SumDrops(<<>>) = 0
      /\ \A job \in Job : SumDrops(job.posts) \in Nat /\ job.posts \in Seq(Payload)
  <2>1. \A job \in Job : job.posts \in Seq(Payload)
      BY DEF Job
  <2> QED BY <2>1, DropsTaken, DropsType
<1>8. senderQueue # <<>> =>
         /\ Head(senderQueue) \in Job
         /\ c = SumDrops(Head(senderQueue).posts) + QueuedDrops(Tail(senderQueue))
         /\ QueuedDrops(Tail(senderQueue)) \in Nat
  <2>1. ASSUME senderQueue # <<>>
        PROVE  Head(senderQueue) \in Job /\ Tail(senderQueue) \in Seq(Job)
      BY <1>6, <2>1
  <2> QED BY <1>6, <2>1, QueueTail, QueueType
<1> HIDE DEF a, b, c, a1, b1, c1, d
<1>10. CASE ReportDrops
  <2>1. /\ pendingDrops' = pendingDrops + 1 /\ reported' = reported + 1
        /\ UNCHANGED <<posts, senderQueue, noted>>
      BY <1>10 DEF ReportDrops
  <2> QED BY <1>1, <1>2, <1>3, <1>4, <2>1
<1>11. CASE EmitEvent
  <2> DEFINE appended == Append(batch, given[Logs] + 1)
             x == LogsPayload(appended, pendingDrops)
  <2>1. UNCHANGED <<senderQueue, noted, reported>>
      BY <1>11 DEF EmitEvent
  <2>2. CASE UNCHANGED <<pendingDrops, posts>>
      BY <1>1, <1>2, <1>3, <1>4, <2>1, <2>2
  <2>3. CASE posts' = [posts EXCEPT !["caller"] = <<x>>] /\ pendingDrops' = 0
    <3>1. given[Logs] \in Nat /\ batch \in Seq(Nat \ {0}) /\ pendingDrops \in Nat
        BY Names DEF TypeOK
    <3>2. appended \in Seq(Nat \ {0})
        BY <3>1, AppendType
    <3> HIDE DEF appended
    <3>3. x \in Payload /\ x.drops = pendingDrops
        BY <3>1, <3>2, Names DEF LogsPayload, Payload
    <3> HIDE DEF x
    <3>4. a1 = pendingDrops /\ b1 = b
        BY <2>3, <3>3, DropsPosts, DropsTaken DEF a1, b1, b
    <3> QED BY <1>1, <1>2, <1>3, <1>4, <2>1, <2>3, <3>4
  <2> QED BY <1>11, <2>2, <2>3 DEF EmitEvent
<1>12. CASE AsyncPost
  <2> DEFINE job == [timer |-> FALSE, posts |-> posts["caller"]]
  <2>1. /\ senderQueue' = Append(senderQueue, job)
        /\ posts' = [posts EXCEPT !["caller"] = <<>>]
        /\ UNCHANGED <<pendingDrops, noted, reported>>
      BY <1>12 DEF AsyncPost, shared, history
  <2>2. job \in Job /\ job.posts = posts["caller"]
      BY <1>6 DEF Job
  <2> HIDE DEF job
  <2>3. c1 = c + a
      BY <1>6, <2>1, <2>2, QueueAppend DEF c1, c, a
  <2>4. a1 = 0 /\ b1 = b
      BY <1>7, <2>1, DropsPosts DEF a1, b1, b
  <2> QED BY <1>1, <1>2, <1>3, <2>1, <2>3, <2>4
<1>13. CASE Flush \/ ShutdownFlush
  <2>1. TakeAll("caller") /\ UNCHANGED <<senderQueue, noted, reported>>
      BY <1>13 DEF Flush, ShutdownFlush, history
  <2> QED BY <1>1, <1>2, <1>3, <1>4, <1>5, <2>1
<1>14. CASE TimerFires
  <2> DEFINE job == [timer |-> TRUE, posts |-> <<>>]
  <2>1. /\ senderQueue' = Append(senderQueue, job)
        /\ UNCHANGED <<posts, pendingDrops, noted, reported>>
      BY <1>14 DEF TimerFires, shared, history
  <2>2. job \in Job /\ job.posts = <<>>
      BY DEF Job
  <2> HIDE DEF job
  <2>3. c1 = c + 0
      BY <1>6, <1>7, <2>1, <2>2, QueueAppend DEF c1, c
  <2> QED BY <1>1, <1>2, <1>3, <1>4, <2>1, <2>3
<1>15. CASE RunHandoff
  <2> DEFINE job == Head(senderQueue)
  <2>1. /\ senderQueue # <<>> /\ senderQueue' = Tail(senderQueue)
        /\ posts' = [posts EXCEPT !["sender"] = job.posts]
        /\ UNCHANGED <<pendingDrops, noted, reported>>
      BY <1>15 DEF RunHandoff, shared, history
  <2>2. a1 = a /\ b1 = SumDrops(job.posts) /\ c = b1 + c1
      BY <1>8, <2>1, DropsPosts DEF a1, b1, a, c1
  <2>3. b1 \in Nat /\ c1 \in Nat
      BY <1>7, <1>8, <2>1, <2>2 DEF c1
  <2>4. /\ a1 = a /\ c = b1 + c1 /\ pendingDrops' = pendingDrops
        /\ noted' = noted /\ reported' = reported
      BY <2>1, <2>2
  <2> HIDE DEF job
  <2> QED BY <1>1, <1>2, <1>3, <2>3, <2>4
<1>16. CASE RunTimer
  <2>1. /\ senderQueue # <<>> /\ senderQueue' = Tail(senderQueue)
        /\ UNCHANGED <<noted, reported>>
      BY <1>16 DEF RunTimer, history
  <2>2. c1 \in Nat /\ c1 <= c
    <3>1. c = SumDrops(Head(senderQueue).posts) + c1 /\ c1 \in Nat
        BY <1>8, <2>1 DEF c1
    <3>2. SumDrops(Head(senderQueue).posts) \in Nat
        BY <1>7, <1>8, <2>1
    <3> QED BY <3>1, <3>2
  <2>3. CASE TakeAll("sender")
      BY <1>1, <1>2, <1>3, <1>5, <2>1, <2>2, <2>3
  <2>4. CASE UNCHANGED <<pendingDrops, posts>>
      BY <1>1, <1>2, <1>3, <1>4, <2>1, <2>2, <2>4
  <2> QED BY <1>16, <2>3, <2>4 DEF RunTimer, shared
<1>17. ASSUME NEW t \in Threads, NEW reply \in Replies, PostAttempt(t, reply)
       PROVE  DropsNotInflated'
  <2> DEFINE payload == Head(posts[t])
  <2>1. posts[t] # <<>> /\ UNCHANGED <<pendingDrops, senderQueue, reported>>
      BY <1>17 DEF PostAttempt, IsPosting, shared
  <2>2. CASE UNCHANGED <<posts, noted>>
      BY <1>1, <1>2, <1>3, <1>4, <2>1, <2>2
  <2>3. CASE posts' = [posts EXCEPT ![t] = Tail(@)] /\ noted' = noted + payload.drops
    <3>1. posts' = [posts EXCEPT ![t] = Tail(posts[t])]
        BY <2>3
    <3>2. payload \in Payload /\ Tail(posts[t]) \in Seq(Payload) /\ posts[t] \in Seq(Payload)
        BY <2>1, HeadPayload DEF TypeOK
    <3>3. payload.drops \in Nat /\ SumDrops(Tail(posts[t])) \in Nat
        BY <3>2, PayloadFields, DropsType
    <3>4. SumDrops(posts[t]) = payload.drops + SumDrops(Tail(posts[t]))
        BY <2>1, <3>2, DropsTail
    <3> DEFINE e == SumDrops(Tail(posts[t]))
               k == payload.drops
    <3>5. (a1 = e /\ b1 = b /\ a = k + e) \/ (b1 = e /\ a1 = a /\ b = k + e)
      <4>1. CASE t = "caller"
          BY <3>1, <3>4, <4>1, DropsPosts DEF a1, b1, a, b
      <4>2. CASE t = "sender"
          BY <3>1, <3>4, <4>2, DropsPosts DEF a1, b1, a, b
      <4> QED BY <4>1, <4>2, Names
    <3>6. k \in Nat /\ e \in Nat /\ noted' = noted + k
        BY <2>3, <3>3
    <3> HIDE DEF e, k
    <3> QED BY <1>1, <1>2, <1>3, <1>4, <2>1, <3>5, <3>6
  <2>4. \/ Settle(t, payload, reply) \/ Retry(t)
      BY <1>17 DEF PostAttempt
  <2> QED BY <2>2, <2>3, <2>4 DEF Settle, Retry
<1>18. CASE UNCHANGED <<pendingDrops, posts, senderQueue, noted, reported>>
    BY <1>1, <1>2, <1>3, <1>4, <1>18
<1>19. CASE \/ Start \/ EmitSnapshot \/ CancelTimer \/ FlushReturn \/ SyncSender
            \/ Invalidate \/ CollectorStores \/ Closed \/ UNCHANGED vars
  <2>1. UNCHANGED <<pendingDrops, posts, senderQueue, noted, reported>>
      BY <1>19 DEF CollectorStores, Start, EmitSnapshot, CancelTimer, FlushReturn, SyncSender,
                   Invalidate, Closed, vars, shared, history
  <2> QED BY <1>18, <2>1
<1> QED
  <2>1. \/ ReportDrops \/ EmitEvent \/ AsyncPost \/ Flush \/ ShutdownFlush \/ TimerFires
        \/ RunHandoff \/ RunTimer
        \/ \E t \in Threads : \E reply \in Replies : PostAttempt(t, reply)
        \/ (\/ Start \/ EmitSnapshot \/ CancelTimer \/ FlushReturn \/ SyncSender
            \/ Invalidate \/ CollectorStores \/ Closed \/ UNCHANGED vars)
      BY Names DEF Next, CallerStep, SenderStep
  <2> QED BY <1>10, <1>11, <1>12, <1>13, <1>14, <1>15, <1>16, <1>17, <1>19, <2>1

LEMMA DropsInit == Init => DropsNotInflated
<1> SUFFICES ASSUME Init PROVE DropsNotInflated
    OBVIOUS
<1>1. /\ posts["caller"] = <<>> /\ posts["sender"] = <<>> /\ senderQueue = <<>>
      /\ pendingDrops = 0 /\ noted = 0 /\ reported = 0
    BY Names DEF Init
<1>2. QueuedDrops(<<>>) = 0
  <2>1. <<>> \in Seq(Job)
      OBVIOUS
  <2>2. QueueOf(<<>>) = <<>>
      BY DEF QueueOf
  <2> QED BY <2>1, <2>2, QueueType, SumOfEmpty
<1>3. /\ SumDrops(posts["caller"]) = 0 /\ SumDrops(posts["sender"]) = 0
      /\ QueuedDrops(senderQueue) = 0
    BY <1>1, <1>2, DropsTaken
<1> QED BY <1>1, <1>3 DEF DropsNotInflated, DropsInFlight

(* No drop is attached to two payloads: the counts pending, in flight on   *)
(* either thread or in the sender's queue, and carried by settled posts    *)
(* never exceed the drops that noteDrops was told of.                      *)
THEOREM DropsAreNotInflated == Spec => []DropsNotInflated
<1>1. Init => DropsNotInflated
    BY DropsInit
<1>2. TypeOK /\ DropsNotInflated /\ [Next]_vars => DropsNotInflated'
    BY DropsStep
<1> QED BY <1>1, <1>2, TypeCorrect, PTL DEF Spec
=============================================================================
