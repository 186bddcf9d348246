-------------------------- MODULE WatchRunnerProofs ---------------------------
(***************************************************************************)
(* Proofs about WatchRunner, for every set of command lines, clauses and   *)
(* aggregation keys and every size of the kernel's buffer.                 *)
(***************************************************************************)
EXTENDS WatchRunner, InductionTheorems, FiniteSetTheorems

-----------------------------------------------------------------------------
(* Types.                                                                  *)

Tag == Nat \X Nat

LineSet ==
    [type : {"body"}, body : Tag]
    \cup [type : {"frame"}, firing : Nat, stack : {"kernel", "user"}, depth : Nat]
    \cup [type : {"marker"}]

PendingSet == [body : {NoBody} \cup Tag, kstack : Seq(LineSet),
               ustack : Seq(LineSet), inUStack : BOOLEAN]

EventSet == [body : Tag, stack : Seq(LineSet), ustack : Seq(LineSet)]

InLoop == {"loop", "deliver", "drain"}
After  == {"aggregate", "emit", "flush", "shutdown", "done"}

ControlInv ==
    /\ option \in Options
    /\ pc \in {"setup", "go", "last", "failed"} \cup InLoop \cup After
    /\ signalReceived \in BOOLEAN /\ exiting \in BOOLEAN
    /\ errorBox \in BOOLEAN /\ drained \in BOOLEAN
    /\ exporter \in {"new", "started", "flushed", "closed"}

KernelInv ==
    /\ shapes \in Seq(Shapes) /\ buffer \in Seq(Nat)
    /\ \A i \in DOMAIN buffer : buffer[i] \in DOMAIN shapes
    /\ lost \subseteq DOMAIN shapes /\ IsFiniteSet(lost)
    /\ dropped \in Nat /\ reported \in Nat

HandlerInv ==
    /\ work \in Seq(LineSet) /\ pending \in PendingSet
    /\ events \in Seq(EventSet) /\ printed \in Seq(Tag)

-----------------------------------------------------------------------------
(* What a firing prints.                                                   *)

(* Lines, for any command line and any clauses fired.                      *)
KernelPart(o, sh, n) == IF o.withStack THEN KernelFrames(n, sh[n]) ELSE <<>>

MarkerPart(o) == IF o.withUstack /\ o.withStack THEN <<Marker>> ELSE <<>>
UserPart(o, sh, n) == IF o.withUstack THEN UserFrames(n, sh[n]) ELSE <<>>

LinesOf(o, sh, n) ==
    Bodies(n, sh[n]) \o KernelPart(o, sh, n) \o (MarkerPart(o) \o UserPart(o, sh, n))

Stream(o, sh, ns) == FlattenSeq([i \in DOMAIN ns |-> LinesOf(o, sh, ns[i])])

LEMMA PartTypes ==
    ASSUME NEW o \in Options, NEW sh \in Seq(Shapes), NEW n \in DOMAIN sh
    PROVE  /\ Bodies(n, sh[n]) \in Seq(LineSet)
           /\ KernelPart(o, sh, n) \in Seq(LineSet)
           /\ MarkerPart(o) \in Seq(LineSet)
           /\ UserPart(o, sh, n) \in Seq(LineSet)
           /\ LinesOf(o, sh, n) \in Seq(LineSet)
  <1> DEFINE shape == sh[n]
  <1>1. /\ shape.bodies \in Nat /\ shape.kernel \in Nat /\ shape.user \in Nat
        /\ n \in Nat
    BY WatchAssumption
  <1> HIDE DEF shape
  <1>2. Bodies(n, shape) \in Seq(LineSet)
    <2>1. \A i \in 1..shape.bodies : Body(n, i) \in LineSet
      BY <1>1 DEF Body, LineSet, Tag
    <2> QED  BY <1>1, <2>1 DEF Bodies
  <1>3. KernelFrames(n, shape) \in Seq(LineSet)
    <2>1. \A i \in 1..shape.kernel : Frame(n, "kernel", i) \in LineSet
      BY <1>1 DEF Frame, LineSet
    <2> QED  BY <1>1, <2>1 DEF KernelFrames
  <1>4. UserFrames(n, shape) \in Seq(LineSet)
    <2>1. \A i \in 1..shape.user : Frame(n, "user", i) \in LineSet
      BY <1>1 DEF Frame, LineSet
    <2> QED  BY <1>1, <2>1 DEF UserFrames
  <1>5. Marker \in LineSet  BY DEF Marker, LineSet
  <1>6. MarkerPart(o) \in Seq(LineSet)
    <2> HIDE DEF Marker
    <2>1. <<Marker>> \in Seq(LineSet) /\ <<>> \in Seq(LineSet)  BY <1>5
    <2> QED  BY <2>1 DEF MarkerPart
  <1>7. KernelPart(o, sh, n) \in Seq(LineSet)  BY <1>3 DEF KernelPart, shape
  <1>8. UserPart(o, sh, n) \in Seq(LineSet)  BY <1>4 DEF UserPart, shape
  <1> QED  BY <1>2, <1>6, <1>7, <1>8 DEF LinesOf, shape

LEMMA LinesAre ==
    ASSUME option \in Options, shapes \in Seq(Shapes), NEW n \in DOMAIN shapes
    PROVE  Lines(n) = LinesOf(option, shapes, n)
  <1>1. UserFrames(n, shapes[n]) \in Seq(LineSet) \/ ~option.withUstack
    BY PartTypes DEF UserPart
  <1>2. UstackAction(n, shapes[n]) = MarkerPart(option) \o UserPart(option, shapes, n)
    <2>1. CASE ~option.withUstack  
      <3>1. <<>> \o <<>> = <<>>  OBVIOUS
      <3> QED  BY <3>1, <2>1 DEF UstackAction, MarkerPart, UserPart
    <2>2. CASE option.withUstack
      BY <1>1, <2>2 DEF UstackAction, MarkerPart, UserPart
    <2> QED  BY <2>1, <2>2
  <1> QED  BY <1>2 DEF Lines, LinesOf, KernelPart, StackAction

LEMMA StreamTypes ==
    ASSUME NEW o \in Options, NEW sh \in Seq(Shapes), NEW ns \in Seq(DOMAIN sh)
    PROVE  /\ [i \in DOMAIN ns |-> LinesOf(o, sh, ns[i])] \in Seq(Seq(LineSet))
           /\ Stream(o, sh, ns) \in Seq(LineSet)
  <1> DEFINE ss == [i \in DOMAIN ns |-> LinesOf(o, sh, ns[i])]
  <1>1. \A i \in DOMAIN ns : ns[i] \in DOMAIN sh  OBVIOUS
  <1>2. \A i \in DOMAIN ns : ss[i] \in Seq(LineSet)
    <2> TAKE i \in DOMAIN ns
    <2>1. LinesOf(o, sh, ns[i]) \in Seq(LineSet)  BY <1>1, PartTypes
    <2> QED  BY <2>1
  <1>3. ss \in Seq(Seq(LineSet))
    <2>1. DOMAIN ns = 1..Len(ns) /\ Len(ns) \in Nat  OBVIOUS
    <2>2. ss \in [1..Len(ns) -> Seq(LineSet)]  BY <2>1, <1>2
    <2> HIDE DEF ss
    <2> QED  BY SMTT(30), <2>1, <2>2
  <1>4. <<>> \in Seq(LineSet)  OBVIOUS
  <1>5. FlattenSeq(ss) \in Seq(LineSet)
    <2> HIDE DEF ss
    <2> QED  BY <1>3, <1>4, FlattenAppend
  <1> QED  BY <1>3, <1>5 DEF Stream

LEMMA StreamNothing ==
    ASSUME NEW o, NEW sh
    PROVE  Stream(o, sh, <<>>) = <<>>
  <1>1. [i \in DOMAIN <<>> |-> LinesOf(o, sh, <<>>[i])] = <<>>  OBVIOUS
  <1> QED  BY <1>1, FlattenNothing DEF Stream

LEMMA StreamAppend ==
    ASSUME NEW o \in Options, NEW sh \in Seq(Shapes), NEW ns \in Seq(DOMAIN sh),
           NEW n \in DOMAIN sh
    PROVE  Stream(o, sh, Append(ns, n)) = Stream(o, sh, ns) \o LinesOf(o, sh, n)
  <1> DEFINE F(k) == LinesOf(o, sh, k)
             ss == [i \in DOMAIN ns |-> F(ns[i])]
             longer == Append(ns, n)
             tt == [i \in DOMAIN longer |-> F(longer[i])]
  <1>1. ss \in Seq(Seq(LineSet)) /\ F(n) \in Seq(LineSet)  BY StreamTypes, PartTypes
  <1>2. tt = Append(ss, F(n))
    <2> HIDE DEF F
    <2>1. Len(ss) = Len(ns)  OBVIOUS
    <2> QED  BY <2>1, <1>1
  <1>3. FlattenSeq(Append(ss, F(n))) = FlattenSeq(ss) \o F(n)
    <2> HIDE DEF ss, F
    <2> QED  BY <1>1, FlattenAppend
  <1> QED  BY <1>2, <1>3 DEF Stream

-----------------------------------------------------------------------------
(* The inductive invariant.                                                *)

(* Where run() is and what it has left behind.                             *)
PhaseInv ==
    /\ pc \notin {"deliver", "drain"} => work = <<>>
    /\ pc \in {"setup", "go"} \cup After => pending.body = NoBody
    /\ option.backend = "text" =>
          /\ pc \notin {"deliver", "drain", "last", "aggregate", "emit"}
          /\ pending.body = NoBody /\ ~drained
    /\ drained => pc \notin {"setup", "go"} \cup InLoop
    /\ exporter = "closed" => pc = "done"
    /\ errorBox => Faults

(* Once the script has exited, the last poll has taken all there was.      *)
ExitInv == pc = "drain" \/ drained => exiting /\ dropped = 0 /\ buffer = <<>>

(* The events given to the exporter, and the one accumulating.             *)
Given(evs) == [e \in DOMAIN evs |-> evs[e].body]
Waiting(p) == IF p.body = NoBody THEN <<>> ELSE <<p.body>>
OrderInv   == printed = Given(events) \o Waiting(pending)

(* The firings that lines, or bodies, come from.                           *)
FiringsIn(lines) == {lines[i].body[1] : i \in {j \in DOMAIN lines : lines[j].type = "body"}}
FiringsOf(tags)  == {tags[i][1] : i \in DOMAIN tags}
Printing(sh, ns) == {n \in ns : sh[n].bodies > 0}
Held             == {buffer[i] : i \in DOMAIN buffer}

DropsInv == option.backend = "structured" => reported + dropped = Cardinality(lost)

(* Until a poll is cut short, a firing was dropped, or is in the buffer,   *)
(* in the lines being delivered or already printed.                        *)
FiringsInv ==
    option.backend = "structured" /\ (drained \/ pc \in {"setup", "go"} \cup InLoop)
      => FiringsOf(printed) \cup FiringsIn(work) \cup Printing(shapes, Held)
            = Printing(shapes, DOMAIN shapes \ lost)

-----------------------------------------------------------------------------
(* The stack frames.                                                       *)

(* The accumulator holds what has been delivered of its body's firing.     *)
Pre(s, t) == Len(s) <= Len(t) /\ \A i \in 1..Len(s) : s[i] = t[i]

Partial(o, sh, p) ==
    LET n == p.body[1]
        i == p.body[2]
    IN  /\ n \in DOMAIN sh /\ i \in 1..sh[n].bodies
        /\ Pre(p.kstack, KernelPart(o, sh, n)) /\ Pre(p.ustack, UserPart(o, sh, n))
        /\ p.kstack # <<>> \/ p.inUStack => i = sh[n].bodies
        /\ p.inUStack => /\ o.withStack /\ o.withUstack
                         /\ p.kstack = KernelPart(o, sh, n)
        /\ p.ustack # <<>> => p.inUStack

(* How many of its lines those are, and the lines that are still to come.  *)
Position(p) ==
    p.body[2] + Len(p.kstack) + (IF p.inUStack THEN 1 ELSE 0) + Len(p.ustack)

Drop(s, k) == [i \in 1..(Len(s) - k) |-> s[k + i]]

Rest(o, sh, p) ==
    IF p.body = NoBody THEN <<>>
    ELSE Drop(LinesOf(o, sh, p.body[1]), Position(p))

PendingOK(o, sh, p) == IF p.body = NoBody THEN p = Nothing ELSE Partial(o, sh, p)

(* The lines to deliver are the rest of that firing's, and whole firings.  *)
Ahead(o, sh, p, w) == \E ns \in Seq(DOMAIN sh) : w = Rest(o, sh, p) \o Stream(o, sh, ns)

Wanted(o, sh, b) ==
    LET n == b[1]
        last == b[2] = sh[n].bodies
    IN  [stack  |-> IF last THEN KernelPart(o, sh, n) ELSE <<>>,
         ustack |-> IF last THEN UserPart(o, sh, n) ELSE <<>>]

WholeEvent(o, sh, e) ==
    /\ e.body[1] \in DOMAIN sh
    /\ e.stack = Wanted(o, sh, e.body).stack /\ e.ustack = Wanted(o, sh, e.body).ustack

CutEvent(o, sh, e) ==
    /\ e.body[1] \in DOMAIN sh
    /\ Pre(e.stack, Wanted(o, sh, e.body).stack)
    /\ Pre(e.ustack, Wanted(o, sh, e.body).ustack)

StacksInv ==
    /\ PendingOK(option, shapes, pending)
    /\ pc \in {"setup", "go"} \cup InLoop => Ahead(option, shapes, pending, work)
    /\ pc = "last" /\ ~Faults => Rest(option, shapes, pending) = <<>>
    /\ \A e \in DOMAIN events :
          \/ WholeEvent(option, shapes, events[e])
          \/ /\ Faults /\ e = Len(events)
             /\ pc \notin {"setup", "go", "last"} \cup InLoop
             /\ CutEvent(option, shapes, events[e])

-----------------------------------------------------------------------------
(* The aggregation snapshots.                                              *)

Increasing(points) == \A i, j \in DOMAIN points : i < j => points[i] < points[j]

(* The points are those of the records of the key, in order.               *)
PointsOf(recs, key, points) ==
    /\ points \in Seq(Nat) /\ Increasing(points)
    /\ {points[i] : i \in DOMAIN points} = {i \in DOMAIN recs : recs[i] = key}

SnapshotsInv ==
    /\ records \in Seq(Keys)
    /\ \A key \in DOMAIN groups : PointsOf(records, key, groups[key])
    /\ snapshots \in Seq([key : Keys, points : Seq(Nat)])
    /\ \A s \in DOMAIN snapshots :
          /\ PointsOf(records, snapshots[s].key, snapshots[s].points)
          /\ snapshots[s].key \notin DOMAIN groups
          /\ \A t \in DOMAIN snapshots : snapshots[t].key = snapshots[s].key => t = s
    /\ \A i \in DOMAIN records :
          records[i] \in DOMAIN groups \/ \E s \in DOMAIN snapshots : snapshots[s].key = records[i]
    /\ DOMAIN groups \subseteq Keys
    /\ pc # "emit" /\ pc # "failed" => DOMAIN groups = {}
    /\ pc \notin {"emit", "failed", "flush", "shutdown", "done"} => records = <<>> /\ snapshots = <<>>

-----------------------------------------------------------------------------
(* Lines and tags.                                                         *)

LEMMA TagIsBody == \A t \in Tag : t # NoBody
  BY DEF Tag, NoBody

LEMMA LineKinds ==
    ASSUME NEW line \in LineSet
    PROVE  /\ line.type \in {"body", "frame", "marker"}
           /\ line.type = "body" => line.body \in Tag
  BY DEF LineSet

LEMMA NothingTypes == Nothing \in PendingSet /\ Nothing.body = NoBody
  BY DEF Nothing, PendingSet, NoBody

-----------------------------------------------------------------------------
(* Types, one group of variables at a time.                                *)

LEMMA ControlInit == Init => ControlInv
  BY DEF Init, ControlInv, InLoop, After

LEMMA ControlNext == ControlInv /\ [Next]_vars => ControlInv'
  <1> SUFFICES ASSUME ControlInv, [Next]_vars PROVE ControlInv'  OBVIOUS
  <1> USE DEF ControlInv, InLoop, After
  <1>1. CASE Runner
    <2> USE <1>1 DEF kernel, handler, output
    <2>1. CASE HandleLine
      BY <2>1, WatchAssumption
         DEF HandleLine, BodyLine, FrameLine, MarkerLine, GiveEvent
    <2>2. CASE FlushLast  BY <2>2, WatchAssumption DEF FlushLast, GiveEvent
    <2>3. CASE EmitSnapshot  BY <2>3, WatchAssumption DEF EmitSnapshot
    <2>4. CASE PollReturns  BY <2>4 DEF PollReturns
    <2> QED
      BY ZenonT(40), <2>1, <2>2, <2>3, <2>4
         DEF Runner, Setup, SetupThrows, Go, GoThrows, StopLoop, PollText, Poll,
             PollFails, AggregateWalk, AggregateFails, SurfaceError, Flush, Shutdown
  <1>2. CASE \E shape \in Shapes : ProbeFires(shape)
    BY <1>2 DEF ProbeFires, handler, output
  <1>3. CASE ExitFires  BY <1>3 DEF ExitFires, handler, output
  <1>4. CASE Signal  BY <1>4 DEF Signal, kernel, handler, output
  <1>5. CASE UNCHANGED vars  BY <1>5 DEF vars, kernel, handler, output
  <1> QED  BY <1>1, <1>2, <1>3, <1>4, <1>5 DEF Next, Finished

LEMMA KernelInit == Init => KernelInv
  BY FS_EmptySet DEF Init, KernelInv

LEMMA KernelNext == KernelInv /\ [Next]_vars => KernelInv'
  <1> SUFFICES ASSUME KernelInv, [Next]_vars PROVE KernelInv'  OBVIOUS
  <1> USE DEF KernelInv
  <1>1. CASE Runner
    <2> USE <1>1 DEF kernel, handler, output
    <2>1. CASE PollText \/ Poll
      <3>1. buffer' = <<>> /\ dropped' = 0 /\ shapes' = shapes /\ lost' = lost
        BY <2>1 DEF PollText, Poll
      <3>2. reported' = reported \/ reported' = reported + dropped
        BY <2>1 DEF PollText, Poll
      <3>3. <<>> \in Seq(Nat) /\ DOMAIN <<>> = {}  OBVIOUS
      <3> QED  BY <3>1, <3>2, <3>3
    <2> QED
      BY <2>1
         DEF Runner, Setup, SetupThrows, Go, GoThrows, StopLoop, HandleLine, PollReturns,
             PollFails, FlushLast, AggregateWalk, AggregateFails, EmitSnapshot,
             SurfaceError, Flush, Shutdown
  <1>2. ASSUME NEW shape \in Shapes, ProbeFires(shape) PROVE KernelInv'
    <2> DEFINE n == Len(shapes) + 1
    <2>1. /\ shapes' = Append(shapes, shape) /\ shapes' \in Seq(Shapes)
          /\ DOMAIN shapes' = 1..n /\ DOMAIN shapes = 1..Len(shapes)
          /\ DOMAIN shapes \subseteq DOMAIN shapes' /\ n \in DOMAIN shapes' /\ n \in Nat
          /\ reported' = reported
      BY <1>2 DEF ProbeFires, output
    <2>2. CASE buffer' = Append(buffer, n) /\ UNCHANGED <<dropped, lost>>
      <3>1. buffer' \in Seq(Nat)  BY <2>1, <2>2
      <3>2. \A i \in DOMAIN buffer' : buffer'[i] \in DOMAIN shapes'
        BY <2>1, <2>2
      <3> QED  BY <2>1, <2>2, <3>1, <3>2
    <2>3. CASE dropped' = dropped + 1 /\ lost' = lost \cup {n} /\ UNCHANGED buffer
      <3>1. IsFiniteSet(lost')  BY <2>3, FS_AddElement
      <3> QED  BY <2>1, <2>3, <3>1
    <2> QED  BY <1>2, <2>2, <2>3 DEF ProbeFires
  <1>3. CASE ExitFires  BY <1>3 DEF ExitFires, handler, output
  <1>4. CASE Signal  BY <1>4 DEF Signal, kernel, handler, output
  <1>5. CASE UNCHANGED vars  BY <1>5 DEF vars, kernel, handler, output
  <1> QED  BY <1>1, <1>2, <1>3, <1>4, <1>5 DEF Next, Finished

-----------------------------------------------------------------------------
(* The handler.                                                            *)

LEMMA HandlerInit == Init => HandlerInv
  BY NothingTypes DEF Init, HandlerInv

LEMMA GivenTypes ==
    ASSUME NEW evs \in Seq(EventSet)
    PROVE  Given(evs) \in Seq(Tag) /\ Len(Given(evs)) = Len(evs)
  <1>1. \A e \in 1..Len(evs) : evs[e] \in EventSet  OBVIOUS
  <1>2. \A e \in 1..Len(evs) : evs[e].body \in Tag  BY <1>1 DEF EventSet
  <1>3. Given(evs) \in [1..Len(evs) -> Tag] /\ Len(evs) \in Nat  BY <1>2 DEF Given
  <1> QED  BY <1>3

(* flushPending, by whether a body is accumulating.                        *)
LEMMA Flushing ==
    ASSUME HandlerInv, ControlInv, GiveEvent
    PROVE  /\ Flushed \in PendingSet /\ Flushed.body = NoBody
           /\ events' \in Seq(EventSet)
           /\ Given(events') = Given(events) \o Waiting(pending)
           /\ errorBox' \in BOOLEAN
  <1> USE DEF HandlerInv, ControlInv
  <1>1. CASE pending.body = NoBody
    <2>1. Flushed = pending /\ events' = events /\ errorBox' = errorBox
      BY <1>1 DEF Flushed, GiveEvent
    <2>2. Given(events) \in Seq(Tag)  BY GivenTypes
    <2>3. Waiting(pending) = <<>>  BY <1>1 DEF Waiting
    <2> QED  BY <1>1, <2>1, <2>2, <2>3
  <1>2. CASE pending.body # NoBody
    <2> DEFINE e == [body |-> pending.body, stack |-> pending.kstack, ustack |-> pending.ustack]
    <2>1. Flushed = Nothing /\ events' = Append(events, e)
      BY <1>2 DEF Flushed, GiveEvent
    <2>2. e \in EventSet  BY <1>2 DEF PendingSet, EventSet
    <2>3. errorBox' \in BOOLEAN  BY <1>2, WatchAssumption DEF GiveEvent
    <2>4. e.body = pending.body /\ Waiting(pending) = <<pending.body>>
      BY <1>2 DEF Waiting
    <2>5. events' \in Seq(EventSet)
      <3> HIDE DEF e
      <3> QED  BY <2>1, <2>2
    <2>6. Given(events) \in Seq(Tag) /\ Len(Given(events)) = Len(events) /\ e.body \in Tag
      BY <2>2, GivenTypes DEF EventSet
    <2>7. Given(events') = Append(Given(events), e.body)
      <3> HIDE DEF e
      <3> QED  BY <2>1, <2>2, <2>6 DEF Given
    <2>8. Append(Given(events), e.body) = Given(events) \o <<e.body>>
      <3> HIDE DEF e
      <3> QED  BY <2>6, AppendIsConcat
    <2> QED  BY <2>1, <2>3, <2>4, <2>5, <2>7, <2>8, NothingTypes
  <1> QED  BY <1>1, <1>2

LEMMA PollLines ==
    ASSUME ControlInv, KernelInv, Poll
    PROVE  /\ work' = Stream(option, shapes, buffer) /\ work' \in Seq(LineSet)
           /\ buffer \in Seq(DOMAIN shapes)
  <1>1. option \in Options /\ shapes \in Seq(Shapes)  BY DEF ControlInv, KernelInv
  <1>2. buffer \in Seq(DOMAIN shapes)  BY DEF KernelInv
  <1>3. \A i \in DOMAIN buffer : Lines(buffer[i]) = LinesOf(option, shapes, buffer[i])
    <2> TAKE i \in DOMAIN buffer
    <2>1. buffer[i] \in DOMAIN shapes  BY DEF KernelInv
    <2> QED  BY <2>1, <1>1, LinesAre
  <1>4. work' = Stream(option, shapes, buffer)  BY <1>3 DEF Poll, Stream
  <1> QED  BY <1>1, <1>2, <1>4, StreamTypes

(* What one line does, by its kind.                                        *)
LEMMA OneLine ==
    ASSUME HandlerInv, ControlInv, HandleLine
    PROVE  /\ pending' \in PendingSet /\ events' \in Seq(EventSet)
           /\ printed' \in Seq(Tag) /\ work' \in Seq(LineSet)
           /\ printed = Given(events) \o Waiting(pending)
                => printed' = Given(events') \o Waiting(pending')
  <1> DEFINE line == Head(work)
  <1> USE DEF HandlerInv
  <1>1. line \in LineSet /\ Tail(work) \in Seq(LineSet)  BY DEF HandleLine
  <1>2. work' \in Seq(LineSet)
    <2>1. CASE work' = <<>>
      <3>1. <<>> \in Seq(LineSet)  OBVIOUS
      <3> QED  BY <2>1, <3>1
    <2>2. CASE work' = Tail(work)  BY <1>1, <2>2
    <2> QED  BY <2>1, <2>2 DEF HandleLine
  <1> HIDE DEF line
  <1>3. CASE line.type = "body" /\ BodyLine(line)
    <2>1. GiveEvent /\ pending' = [Flushed EXCEPT !.body = line.body]
          /\ printed' = Append(printed, line.body)
      BY <1>3 DEF BodyLine
    <2>2. line.body \in Tag  BY <1>1, <1>3, LineKinds
    <2>3. /\ Flushed \in PendingSet /\ events' \in Seq(EventSet)
          /\ Given(events') = Given(events) \o Waiting(pending)
      BY <2>1, Flushing
    <2>4. pending' \in PendingSet /\ pending'.body = line.body
      BY <2>1, <2>2, <2>3 DEF PendingSet
    <2>5. Waiting(pending') = <<line.body>>  BY <2>2, <2>4, TagIsBody DEF Waiting
    <2>6. printed' = printed \o <<line.body>>  BY <2>1, <2>2, AppendIsConcat
    <2>7. printed' \in Seq(Tag)  BY <2>1, <2>2
    <2> QED  BY <1>2, <2>3, <2>4, <2>5, <2>6, <2>7
  <1>4. CASE line.type = "frame" /\ FrameLine(line)
    <2>1. /\ pending' \in PendingSet /\ pending'.body = pending.body
      <3>1. pending.ustack \in Seq(LineSet) /\ pending.kstack \in Seq(LineSet)
        BY DEF PendingSet
      <3> DEFINE us == Append(pending.ustack, line)
                 ks == Append(pending.kstack, line)
      <3>2. us \in Seq(LineSet) /\ ks \in Seq(LineSet)  BY <1>1, <3>1
      <3>3. \/ pending' = [pending EXCEPT !.ustack = us]
            \/ pending' = [pending EXCEPT !.kstack = ks]
        BY <1>4 DEF FrameLine
      <3> HIDE DEF us, ks
      <3> QED  BY <3>2, <3>3 DEF PendingSet
    <2>2. events' = events /\ printed' = printed  BY <1>4 DEF FrameLine
    <2> QED  BY <1>2, <2>1, <2>2 DEF Waiting
  <1>5. CASE line.type = "marker" /\ MarkerLine
    <2>1. /\ pending' \in PendingSet /\ pending'.body = pending.body
      BY <1>5 DEF MarkerLine, PendingSet
    <2>2. events' = events /\ printed' = printed  BY <1>5 DEF MarkerLine
    <2> QED  BY <1>2, <2>1, <2>2 DEF Waiting
  <1> QED  BY <1>3, <1>4, <1>5 DEF HandleLine, line

(* The steps that change what the handler keeps.                           *)
LEMMA HandlerSteps ==
    ASSUME [Next]_vars
    PROVE  Poll \/ HandleLine \/ FlushLast \/ PollFails
              \/ UNCHANGED <<work, pending, events, printed>>
  <1> USE DEF kernel, handler, output
  <1>1. CASE Runner
    BY <1>1 DEF Runner, Setup, SetupThrows, Go, GoThrows, StopLoop, PollText, PollReturns,
                AggregateWalk, AggregateFails, EmitSnapshot, SurfaceError, Flush, Shutdown
  <1>2. CASE \E shape \in Shapes : ProbeFires(shape)  BY <1>2 DEF ProbeFires
  <1>3. CASE ExitFires \/ Signal  BY <1>3 DEF ExitFires, Signal
  <1>4. CASE UNCHANGED vars  BY <1>4 DEF vars
  <1> QED  BY <1>1, <1>2, <1>3, <1>4 DEF Next, Finished

LEMMA LastFlush ==
    ASSUME HandlerInv, ControlInv, FlushLast
    PROVE  /\ pending' \in PendingSet /\ pending'.body = NoBody
           /\ events' \in Seq(EventSet)
           /\ Given(events') = Given(events) \o Waiting(pending)
           /\ printed' = printed /\ work' = work
  BY Flushing DEF FlushLast

LEMMA HandlerNext == ControlInv /\ KernelInv /\ HandlerInv /\ [Next]_vars => HandlerInv'
  <1> SUFFICES ASSUME ControlInv, KernelInv, HandlerInv, [Next]_vars PROVE HandlerInv'
    OBVIOUS
  <1>1. CASE Poll
    <2>1. work' \in Seq(LineSet)  BY <1>1, PollLines
    <2>2. UNCHANGED <<pending, events, printed>>  BY <1>1 DEF Poll
    <2> QED  BY <2>1, <2>2 DEF HandlerInv
  <1>2. CASE HandleLine  BY <1>2, OneLine DEF HandlerInv
  <1>3. CASE FlushLast   BY <1>3, LastFlush DEF HandlerInv
  <1>4. CASE PollFails
    <2>1. work' = <<>> /\ UNCHANGED <<pending, events, printed>>  BY <1>4 DEF PollFails
    <2>2. <<>> \in Seq(LineSet)  OBVIOUS
    <2> QED  BY <2>1, <2>2 DEF HandlerInv
  <1>5. CASE UNCHANGED <<work, pending, events, printed>>  BY <1>5 DEF HandlerInv
  <1> QED  BY <1>1, <1>2, <1>3, <1>4, <1>5, HandlerSteps

LEMMA OrderInit == Init => OrderInv
  <1> SUFFICES ASSUME Init PROVE OrderInv  OBVIOUS
  <1>1. events = <<>> /\ printed = <<>> /\ pending = Nothing  BY DEF Init
  <1>2. Waiting(pending) = <<>>  BY <1>1, NothingTypes DEF Waiting
  <1>3. Given(events) = <<>>  BY <1>1 DEF Given
  <1> QED  BY <1>1, <1>2, <1>3 DEF OrderInv

LEMMA OrderNext ==
    ControlInv /\ HandlerInv /\ OrderInv /\ [Next]_vars => OrderInv'
  <1> SUFFICES ASSUME ControlInv, HandlerInv, OrderInv, [Next]_vars PROVE OrderInv'
    OBVIOUS
  <1>1. CASE HandleLine  BY <1>1, OneLine DEF OrderInv
  <1>2. CASE FlushLast
    <2>1. /\ Given(events') = printed /\ printed' = printed
          /\ Waiting(pending') = <<>>
      BY <1>2, LastFlush DEF OrderInv, Waiting
    <2>2. printed \in Seq(Tag)  BY DEF HandlerInv
    <2> QED  BY <2>1, <2>2 DEF OrderInv
  <1>3. CASE UNCHANGED <<pending, events, printed>>
    BY <1>3 DEF OrderInv
  <1> QED  BY <1>1, <1>2, <1>3, HandlerSteps DEF Poll, PollFails

-----------------------------------------------------------------------------
(* The phases of a session.                                                *)

LEMMA PhaseInit == Init => PhaseInv
  BY NothingTypes DEF Init, PhaseInv, InLoop, After

LEMMA ExitInit == Init => ExitInv
  BY DEF Init, ExitInv

LEMMA LineEnds ==
    ASSUME HandleLine
    PROVE  (pc' = pc /\ work' = Tail(work)) \/ (pc' = "last" /\ work' = <<>> /\ errorBox')
  BY DEF HandleLine

LEMMA EarlySteps ==
    ASSUME Setup \/ SetupThrows \/ Go \/ GoThrows \/ StopLoop \/ PollText
    PROVE  exporter' = exporter \/ (exporter' = "started" /\ pc' = "go")
  <1>1. CASE Setup  BY <1>1 DEF Setup
  <1>2. CASE SetupThrows \/ Go \/ GoThrows \/ StopLoop
    BY <1>2 DEF SetupThrows, Go, GoThrows, StopLoop, output
  <1>3. CASE PollText  BY <1>3 DEF PollText, output
  <1> QED  BY <1>1, <1>2, <1>3

LEMMA PhaseNext ==
    ControlInv /\ HandlerInv /\ PhaseInv /\ [Next]_vars => PhaseInv'
  <1> SUFFICES ASSUME ControlInv, HandlerInv, PhaseInv, [Next]_vars PROVE PhaseInv'
    OBVIOUS
  <1> USE DEF ControlInv, PhaseInv, InLoop, After
  <1>1. CASE HandleLine
    <2>1. /\ pc \in {"deliver", "drain"} /\ option' = option /\ drained' = drained
          /\ exporter' = exporter
      BY <1>1 DEF HandleLine, output
    <2>2. pc' = pc \/ (pc' = "last" /\ work' = <<>>)
      <3> HIDE DEF ControlInv, PhaseInv, InLoop, After
      <3> QED  BY <1>1, LineEnds
    <2>3. errorBox' => Faults
      BY <1>1, WatchAssumption DEF HandleLine, BodyLine, FrameLine, MarkerLine, GiveEvent
    <2> QED  BY <2>1, <2>2, <2>3
  <1>2. CASE FlushLast
    <2>1. pending'.body = NoBody /\ work' = work  BY <1>2, LastFlush
    <2>2. errorBox' => Faults  BY <1>2, WatchAssumption DEF FlushLast, GiveEvent
    <2>3. /\ pc = "last" /\ pc' = "aggregate" /\ option' = option /\ drained' = drained
          /\ exporter' = exporter
      BY <1>2 DEF FlushLast, output
    <2> QED  BY <2>1, <2>2, <2>3
  <1>3. CASE EmitSnapshot
    <2>1. errorBox' => Faults  BY <1>3, WatchAssumption DEF EmitSnapshot
    <2> QED  BY <1>3, <2>1 DEF EmitSnapshot, kernel
  <1>4. CASE PollReturns  BY <1>4 DEF PollReturns, kernel, output
  <1>5. CASE AggregateWalk
    <2>1. pc = "aggregate" /\ pc' = "emit"
          /\ UNCHANGED <<option, handler, exporter>>
      BY <1>5 DEF AggregateWalk
    <2> QED  BY <2>1 DEF handler
  <1>6. CASE Setup \/ SetupThrows \/ Go \/ GoThrows \/ StopLoop \/ PollText
    <2>1. UNCHANGED <<option, work, pending, errorBox, drained>>
      BY <1>6 DEF Setup, SetupThrows, Go, GoThrows, StopLoop, PollText, handler
    <2>2. exporter' = exporter \/ (exporter' = "started" /\ pc' = "go")
      <3> HIDE DEF ControlInv, PhaseInv, InLoop, After
      <3> QED  BY <1>6, EarlySteps
    <2>3. \/ pc \in {"setup", "go"} /\ pc' \in {"go", "failed", "loop"}
          \/ pc = "loop" /\ pc' = "loop"
          \/ pc = "loop" /\ pc' = "flush" /\ option.backend = "text"
          \/ pc = "loop" /\ pc' = "last" /\ option.backend # "text"
      BY <1>6, WatchAssumption
         DEF Setup, SetupThrows, Go, GoThrows, StopLoop, PollText
    <2> QED  BY <2>1, <2>2, <2>3
  <1>7. CASE Poll  BY <1>7 DEF Poll
  <1>8. CASE PollFails  BY <1>8 DEF PollFails, kernel, output
  <1>9. CASE AggregateFails \/ SurfaceError \/ Flush \/ Shutdown
    BY <1>9 DEF AggregateFails, SurfaceError, Flush, Shutdown, kernel, handler, output
  <1>10. CASE \E shape \in Shapes : ProbeFires(shape)
    BY <1>10 DEF ProbeFires, handler, output
  <1>11. CASE ExitFires \/ Signal  BY <1>11 DEF ExitFires, Signal, kernel, handler, output
  <1>12. CASE UNCHANGED vars  BY <1>12 DEF vars, kernel, handler, output
  <1> QED
    BY <1>1, <1>2, <1>3, <1>4, <1>5, <1>6, <1>7, <1>8, <1>9, <1>10, <1>11, <1>12
       DEF Next, Runner, Finished

LEMMA ExitNext ==
    ControlInv /\ PhaseInv /\ ExitInv /\ [Next]_vars => ExitInv'
  <1> SUFFICES ASSUME ControlInv, PhaseInv, ExitInv, [Next]_vars PROVE ExitInv'
    OBVIOUS
  <1> USE DEF ControlInv, PhaseInv, ExitInv, InLoop, After
  <1>1. CASE HandleLine  BY <1>1 DEF HandleLine, kernel
  <1>2. CASE Poll  BY <1>2 DEF Poll
  <1>3. CASE PollReturns  BY <1>3 DEF PollReturns, kernel
  <1>4. CASE PollText  BY <1>4 DEF PollText, handler
  <1>5. CASE \E shape \in Shapes : ProbeFires(shape)  BY <1>5 DEF ProbeFires, handler
  <1>6. CASE ExitFires  BY <1>6 DEF ExitFires, handler
  <1>7. CASE /\ UNCHANGED kernel /\ UNCHANGED drained
             /\ pc' = "drain" => pc = "drain"
    BY <1>7 DEF kernel
  <1>8. CASE Setup \/ SetupThrows \/ Go \/ GoThrows \/ StopLoop \/ PollFails \/ FlushLast
             \/ AggregateFails \/ AggregateWalk \/ EmitSnapshot \/ SurfaceError
             \/ Flush \/ Shutdown \/ Signal \/ UNCHANGED vars
    <2>1. UNCHANGED kernel /\ UNCHANGED drained
      BY <1>8 DEF Setup, SetupThrows, Go, GoThrows, StopLoop, PollFails, FlushLast,
                  AggregateFails, AggregateWalk, EmitSnapshot, SurfaceError, Flush,
                  Shutdown, Signal, handler, vars
    <2>2. pc' = "drain" => pc = "drain"
      BY <1>8 DEF Setup, SetupThrows, Go, GoThrows, StopLoop, PollFails, FlushLast,
                  AggregateFails, AggregateWalk, EmitSnapshot, SurfaceError, Flush,
                  Shutdown, Signal, vars
    <2> QED  BY <1>7, <2>1, <2>2
  <1> QED  BY <1>1, <1>2, <1>3, <1>4, <1>5, <1>6, <1>8 DEF Next, Runner, Finished

-----------------------------------------------------------------------------
(* Where the firings are.                                                  *)

LEMMA FiringsConcat ==
    ASSUME NEW s \in Seq(LineSet), NEW t \in Seq(LineSet)
    PROVE  FiringsIn(s \o t) = FiringsIn(s) \cup FiringsIn(t)
  <1> DEFINE st == s \o t
             m == Len(s)
             k == Len(t)
  <1>1. /\ m \in Nat /\ k \in Nat /\ DOMAIN s = 1..m /\ DOMAIN t = 1..k
        /\ DOMAIN st = 1..(m + k)
        /\ \A i \in 1..m : st[i] = s[i]
        /\ \A i \in 1..k : st[m + i] = t[i]
    OBVIOUS
  <1> HIDE DEF st, m, k
  <1>2. ASSUME NEW x \in FiringsIn(s) PROVE x \in FiringsIn(st)
    <2>1. PICK i \in DOMAIN s : s[i].type = "body" /\ x = s[i].body[1]  BY DEF FiringsIn
    <2>2. i \in DOMAIN st /\ st[i] = s[i]  BY <1>1, <2>1
    <2> QED  BY <2>1, <2>2 DEF FiringsIn
  <1>3. ASSUME NEW x \in FiringsIn(t) PROVE x \in FiringsIn(st)
    <2>1. PICK i \in DOMAIN t : t[i].type = "body" /\ x = t[i].body[1]  BY DEF FiringsIn
    <2>2. m + i \in DOMAIN st /\ st[m + i] = t[i]  BY <1>1, <2>1
    <2> QED  BY <2>1, <2>2 DEF FiringsIn
  <1>4. ASSUME NEW x \in FiringsIn(st) PROVE x \in FiringsIn(s) \cup FiringsIn(t)
    <2>1. PICK i \in DOMAIN st : st[i].type = "body" /\ x = st[i].body[1]  BY DEF FiringsIn
    <2>2. CASE i <= m
      <3>1. i \in DOMAIN s /\ st[i] = s[i]  BY <1>1, <2>2
      <3> QED  BY <2>1, <3>1 DEF FiringsIn
    <2>3. CASE ~(i <= m)
      <3>1. i - m \in 1..k /\ m + (i - m) = i  BY <1>1, <2>3
      <3>2. i - m \in DOMAIN t /\ st[i] = t[i - m]  BY <1>1, <3>1
      <3> QED  BY <2>1, <3>2 DEF FiringsIn
    <2> QED  BY <2>2, <2>3
  <1> QED  BY <1>2, <1>3, <1>4 DEF st

LEMMA FiringsOfOne ==
    ASSUME NEW o \in Options, NEW sh \in Seq(Shapes), NEW n \in DOMAIN sh
    PROVE  FiringsIn(LinesOf(o, sh, n)) = Printing(sh, {n})
  <1> DEFINE bs == Bodies(n, sh[n])
             ks == KernelPart(o, sh, n)
             ms == MarkerPart(o)
             us == UserPart(o, sh, n)
  <1>1. /\ bs \in Seq(LineSet) /\ ks \in Seq(LineSet)
        /\ ms \in Seq(LineSet) /\ us \in Seq(LineSet)
    BY PartTypes
  <1>2. sh[n].bodies \in Nat  BY WatchAssumption
  <1>3. FiringsIn(bs) = Printing(sh, {n})
    <2>1. DOMAIN bs = 1..sh[n].bodies /\ \A i \in DOMAIN bs : bs[i] = Body(n, i)
      BY <1>2 DEF Bodies
    <2> HIDE DEF bs
    <2>2. \A i \in DOMAIN bs : bs[i].type = "body" /\ bs[i].body[1] = n
      <3>1. \A i : Body(n, i).type = "body" /\ Body(n, i).body = <<n, i>>  BY DEF Body
      <3>2. \A i : <<n, i>>[1] = n  OBVIOUS
      <3> QED  BY <2>1, <3>1, <3>2
    <2>3. FiringsIn(bs) = IF sh[n].bodies > 0 THEN {n} ELSE {}
      <3>1. CASE sh[n].bodies > 0
        <4>1. 1 \in DOMAIN bs  BY <1>2, <2>1, <3>1
        <4> QED  BY <2>2, <3>1, <4>1 DEF FiringsIn
      <3>2. CASE ~(sh[n].bodies > 0)
        <4>1. DOMAIN bs = {}  BY <1>2, <2>1, <3>2
        <4> QED  BY <3>2, <4>1 DEF FiringsIn
      <3> QED  BY <3>1, <3>2
    <2> QED  BY <2>3 DEF Printing
  <1>4. FiringsIn(ks) = {}
    <2>1. \A i \in DOMAIN ks : ks[i].type # "body"
      BY DEF KernelPart, KernelFrames, Frame
    <2> QED  BY <2>1 DEF FiringsIn
  <1>5. FiringsIn(us) = {}
    <2>1. \A i \in DOMAIN us : us[i].type # "body"
      BY DEF UserPart, UserFrames, Frame
    <2> QED  BY <2>1 DEF FiringsIn
  <1>6. FiringsIn(ms) = {}
    <2>1. \A i \in DOMAIN ms : ms[i].type # "body"
      BY DEF MarkerPart, Marker
    <2> QED  BY <2>1 DEF FiringsIn
  <1>7. LinesOf(o, sh, n) = (bs \o ks) \o (ms \o us)  BY DEF LinesOf
  <1> HIDE DEF bs, ks, ms, us
  <1>8. bs \o ks \in Seq(LineSet) /\ ms \o us \in Seq(LineSet)  BY <1>1
  <1>9. /\ FiringsIn(bs \o ks) = FiringsIn(bs) \cup FiringsIn(ks)
        /\ FiringsIn(ms \o us) = FiringsIn(ms) \cup FiringsIn(us)
    BY <1>1, FiringsConcat
  <1>10. FiringsIn((bs \o ks) \o (ms \o us))
            = FiringsIn(bs \o ks) \cup FiringsIn(ms \o us)
    BY <1>8, FiringsConcat
  <1> QED  BY <1>3, <1>4, <1>5, <1>6, <1>7, <1>9, <1>10

(* A poll's lines come from the firings the buffer held.                   *)
LEMMA FiringsOfStream ==
    ASSUME NEW o \in Options, NEW sh \in Seq(Shapes), NEW ns \in Seq(DOMAIN sh)
    PROVE  FiringsIn(Stream(o, sh, ns)) = Printing(sh, {ns[i] : i \in DOMAIN ns})
  <1> DEFINE R(q) == {q[i] : i \in DOMAIN q}
             T == {q \in Seq(DOMAIN sh) : FiringsIn(Stream(o, sh, q)) = Printing(sh, R(q))}
  <1>1. <<>> \in T
    <2>1. FiringsIn(<<>>) = {} /\ R(<<>>) = {}  BY DEF FiringsIn
    <2>2. Printing(sh, {}) = {}  BY DEF Printing
    <2>3. FiringsIn(Stream(o, sh, <<>>)) = Printing(sh, R(<<>>))
      <3>1. Stream(o, sh, <<>>) = <<>>  BY StreamNothing
      <3> QED  BY <2>1, <2>2, <3>1
    <2>4. <<>> \in Seq(DOMAIN sh)  OBVIOUS
    <2> HIDE DEF R
    <2> QED  BY <2>3, <2>4
  <1>2. ASSUME NEW q \in Seq(DOMAIN sh), NEW n \in DOMAIN sh, q \in T
        PROVE  Append(q, n) \in T
    <2> DEFINE q1 == Append(q, n)
    <2>1. Stream(o, sh, q1) = Stream(o, sh, q) \o LinesOf(o, sh, n)  BY StreamAppend
    <2>2. FiringsIn(Stream(o, sh, q1))
             = FiringsIn(Stream(o, sh, q)) \cup FiringsIn(LinesOf(o, sh, n))
      <3>1. Stream(o, sh, q) \in Seq(LineSet) /\ LinesOf(o, sh, n) \in Seq(LineSet)
        BY StreamTypes, PartTypes
      <3> QED  BY <2>1, <3>1, FiringsConcat
    <2>3. R(q1) = R(q) \cup {n}
      <3>1. /\ Len(q) \in Nat /\ DOMAIN q = 1..Len(q) /\ DOMAIN q1 = 1..(Len(q) + 1)
            /\ q1[Len(q) + 1] = n /\ \A i \in 1..Len(q) : q1[i] = q[i]
        OBVIOUS
      <3> HIDE DEF q1
      <3>2. DOMAIN q1 = DOMAIN q \cup {Len(q) + 1}
        <4> DEFINE m == Len(q)
        <4>1. m \in Nat  BY <3>1
        <4> HIDE DEF m
        <4>2. 1..(m + 1) = (1..m) \cup {m + 1}  BY <4>1
        <4> QED  BY <3>1, <4>2 DEF m
      <3>3. \A x : (\E i \in DOMAIN q1 : x = q1[i]) <=> (x = n \/ \E i \in DOMAIN q : x = q[i])
        BY <3>1, <3>2
      <3> QED  BY <3>3
    <2>4. FiringsIn(Stream(o, sh, q)) = Printing(sh, R(q))  BY <1>2
    <2>5. FiringsIn(LinesOf(o, sh, n)) = Printing(sh, {n})  BY FiringsOfOne
    <2>6. q1 \in Seq(DOMAIN sh)  OBVIOUS
    <2> HIDE DEF q1, R
    <2>7. Printing(sh, R(q) \cup {n}) = Printing(sh, R(q)) \cup Printing(sh, {n})
      BY DEF Printing
    <2>8. FiringsIn(Stream(o, sh, q1)) = Printing(sh, R(q1))
      BY <2>2, <2>3, <2>4, <2>5, <2>7
    <2> QED  BY <2>6, <2>8 DEF q1
  <1>3. Seq(DOMAIN sh) \subseteq T
    <2> HIDE DEF T
    <2> QED  BY <1>1, <1>2, SeqInduction
  <1> QED  BY <1>3

(* Taking the first line off moves at most its own firing.                 *)
LEMMA FiringsHead ==
    ASSUME NEW w \in Seq(LineSet), w # <<>>
    PROVE  FiringsIn(w) = FiringsIn(Tail(w))
                            \cup (IF Head(w).type = "body" THEN {Head(w).body[1]} ELSE {})
  <1> DEFINE h == Head(w)
             t == Tail(w)
  <1>1. /\ h \in LineSet /\ t \in Seq(LineSet) /\ Len(w) \in Nat \ {0}
        /\ Len(t) = Len(w) - 1 /\ h = w[1]
        /\ \A i \in 1..(Len(w) - 1) : t[i] = w[i + 1]
        /\ DOMAIN w = 1..Len(w) /\ DOMAIN t = 1..(Len(w) - 1)
    OBVIOUS
  <1> HIDE DEF h, t
  <1>2. ASSUME NEW x \in FiringsIn(w)
        PROVE  x \in FiringsIn(t) \/ (h.type = "body" /\ x = h.body[1])
    <2>1. PICK i \in DOMAIN w : w[i].type = "body" /\ x = w[i].body[1]  BY DEF FiringsIn
    <2>2. CASE i = 1  BY <1>1, <2>1, <2>2
    <2>3. CASE i # 1
      <3>1. i - 1 \in DOMAIN t /\ t[i - 1] = w[i]
        <4>1. i - 1 \in 1..(Len(w) - 1) /\ (i - 1) + 1 = i  BY <1>1, <2>3
        <4> QED  BY <1>1, <4>1
      <3> QED  BY <2>1, <3>1 DEF FiringsIn
    <2> QED  BY <2>2, <2>3
  <1>3. ASSUME NEW x \in FiringsIn(t) PROVE x \in FiringsIn(w)
    <2>1. PICK i \in DOMAIN t : t[i].type = "body" /\ x = t[i].body[1]  BY DEF FiringsIn
    <2>2. i + 1 \in DOMAIN w /\ w[i + 1] = t[i]  BY <1>1, <2>1
    <2> QED  BY <2>1, <2>2 DEF FiringsIn
  <1>4. h.type = "body" => h.body[1] \in FiringsIn(w)
    <2>1. 1 \in DOMAIN w /\ w[1] = h  BY <1>1
    <2> QED  BY <2>1 DEF FiringsIn
  <1> QED  BY <1>2, <1>3, <1>4 DEF h, t

LEMMA FiringsInit == Init => DropsInv /\ FiringsInv
  <1> SUFFICES ASSUME Init PROVE DropsInv /\ FiringsInv  OBVIOUS
  <1>1. /\ lost = {} /\ reported = 0 /\ dropped = 0 /\ work = <<>> /\ printed = <<>>
        /\ shapes = <<>> /\ buffer = <<>>
    BY DEF Init
  <1>2. DropsInv  BY <1>1, FS_EmptySet DEF DropsInv
  <1>3. FiringsOf(printed) = {}  BY <1>1 DEF FiringsOf
  <1>4. FiringsIn(work) = {}  BY <1>1 DEF FiringsIn
  <1>5. Held = {}  BY <1>1 DEF Held
  <1>6. DOMAIN shapes = {}  BY <1>1
  <1>7. Printing(shapes, {}) = {}  BY DEF Printing
  <1> QED  BY <1>2, <1>3, <1>4, <1>5, <1>6, <1>7 DEF FiringsInv

(* The steps that move firings.                                            *)
LEMMA FiringSteps ==
    ASSUME [Next]_vars
    PROVE  \/ \E shape \in Shapes : ProbeFires(shape)
           \/ Poll \/ PollText \/ HandleLine \/ PollFails \/ PollReturns
           \/ /\ UNCHANGED <<option, shapes, buffer, lost, dropped, reported, work, printed,
                             drained>>
              /\ pc' \in {"setup", "go"} \cup InLoop => pc \in {"setup", "go"} \cup InLoop
  <1> USE DEF kernel, handler, output, InLoop
  <1>1. CASE Setup \/ SetupThrows \/ Go \/ GoThrows \/ StopLoop
    BY <1>1 DEF Setup, SetupThrows, Go, GoThrows, StopLoop
  <1>2. CASE FlushLast \/ AggregateFails \/ SurfaceError \/ Flush \/ Shutdown
    BY <1>2 DEF FlushLast, AggregateFails, SurfaceError, Flush, Shutdown
  <1>3. CASE AggregateWalk
    <2>1. pc' = "emit" /\ UNCHANGED <<option, kernel, handler, reported>>
      BY <1>3 DEF AggregateWalk
    <2> QED  BY <2>1
  <1>4. CASE EmitSnapshot  BY <1>4 DEF EmitSnapshot
  <1>5. CASE ExitFires \/ Signal  BY <1>5 DEF ExitFires, Signal
  <1>6. CASE UNCHANGED vars  BY <1>6 DEF vars
  <1> QED  BY <1>1, <1>2, <1>3, <1>4, <1>5, <1>6 DEF Next, Runner, Finished

LEMMA DropsNext ==
    ControlInv /\ KernelInv /\ DropsInv /\ [Next]_vars => DropsInv'
  <1> SUFFICES ASSUME ControlInv, KernelInv, DropsInv, [Next]_vars PROVE DropsInv'
    OBVIOUS
  <1> USE DEF DropsInv
  <1>1. ASSUME NEW shape \in Shapes, ProbeFires(shape) PROVE DropsInv'
    <2> DEFINE n == Len(shapes) + 1
    <2>1. option' = option /\ reported' = reported  BY <1>1 DEF ProbeFires, output
    <2>2. CASE UNCHANGED <<dropped, lost>>  BY <2>1, <2>2
    <2>3. CASE dropped' = dropped + 1 /\ lost' = lost \cup {n}
      <3>1. n \notin lost /\ IsFiniteSet(lost)  BY DEF KernelInv
      <3>2. Cardinality(lost') = Cardinality(lost) + 1
        <4> HIDE DEF n
        <4> QED  BY <2>3, <3>1, FS_AddElement
      <3> QED  BY <2>1, <2>3, <3>2 DEF KernelInv
    <2> QED  BY <1>1, <2>2, <2>3 DEF ProbeFires
  <1>2. CASE Poll  BY <1>2 DEF Poll, KernelInv
  <1>3. CASE PollText  BY <1>3 DEF PollText, KernelInv
  <1>4. CASE HandleLine \/ PollFails \/ PollReturns
    <2>1. UNCHANGED <<option, dropped, lost, reported>>
      BY <1>4 DEF HandleLine, PollFails, PollReturns, kernel, output
    <2> QED  BY <2>1
  <1> QED  BY <1>1, <1>2, <1>3, <1>4, FiringSteps

LEMMA FiringsNext ==
    /\ ControlInv /\ KernelInv /\ HandlerInv /\ PhaseInv /\ ExitInv
    /\ FiringsInv /\ [Next]_vars
    => FiringsInv'
  <1> SUFFICES ASSUME ControlInv, KernelInv, HandlerInv, PhaseInv, ExitInv,
                      FiringsInv, [Next]_vars,
                      option'.backend = "structured",
                      drained' \/ pc' \in {"setup", "go"} \cup InLoop
               PROVE  FiringsOf(printed') \cup FiringsIn(work') \cup Printing(shapes', Held')
                         = Printing(shapes', DOMAIN shapes' \ lost')
    BY DEF FiringsInv
  <1>0. option' = option
    <2>1. CASE Runner
      BY <2>1 DEF Runner, Setup, SetupThrows, Go, GoThrows, StopLoop, PollText, Poll,
                  HandleLine, PollReturns, PollFails, FlushLast, AggregateWalk,
                  AggregateFails, EmitSnapshot, SurfaceError, Flush, Shutdown
    <2> QED  BY <2>1 DEF Next, Finished, ProbeFires, ExitFires, Signal, vars
  <1> DEFINE Now == FiringsOf(printed) \cup FiringsIn(work) \cup Printing(shapes, Held)
                       = Printing(shapes, DOMAIN shapes \ lost)
  <1>a. drained \/ pc \in {"setup", "go"} \cup InLoop => Now  BY <1>0 DEF FiringsInv
  <1> HIDE DEF Now
  <1>1. ASSUME NEW shape \in Shapes, ProbeFires(shape)
        PROVE  FiringsOf(printed') \cup FiringsIn(work') \cup Printing(shapes', Held')
                 = Printing(shapes', DOMAIN shapes' \ lost')
    <2> DEFINE n == Len(shapes) + 1
    <2>1. /\ shapes' = Append(shapes, shape) /\ UNCHANGED <<printed, work, drained, pc>>
          /\ ~exiting
      BY <1>1 DEF ProbeFires, handler
    <2>2. Now  BY <2>1, <1>a
    <2>3. /\ n \in Nat /\ DOMAIN shapes = 1..(n - 1)
          /\ DOMAIN shapes' = DOMAIN shapes \cup {n} /\ n \notin DOMAIN shapes
          /\ \A i \in DOMAIN shapes : shapes'[i] = shapes[i]
      BY <2>1 DEF KernelInv
    <2>4. Held \subseteq DOMAIN shapes /\ lost \subseteq DOMAIN shapes
      BY DEF Held, KernelInv
    <2>5. \A S \in SUBSET DOMAIN shapes : Printing(shapes', S) = Printing(shapes, S)
      BY <2>3 DEF Printing
    <2>6. CASE buffer' = Append(buffer, n) /\ UNCHANGED <<dropped, lost>>
      <3>1. Held' = Held \cup {n}
        <4>1. /\ buffer \in Seq(Nat) /\ Len(buffer) \in Nat /\ DOMAIN buffer = 1..Len(buffer)
              /\ DOMAIN buffer' = DOMAIN buffer \cup {Len(buffer) + 1}
              /\ buffer'[Len(buffer) + 1] = n
              /\ \A i \in DOMAIN buffer : buffer'[i] = buffer[i]
          BY <2>3, <2>6 DEF KernelInv
        <4> HIDE DEF n
        <4> QED  BY <4>1 DEF Held
      <3> HIDE DEF n
      <3>2. DOMAIN shapes' \ lost' = (DOMAIN shapes \ lost) \cup {n}  BY <2>3, <2>4, <2>6
      <3>3. \A S : Printing(shapes', S \cup {n}) = Printing(shapes', S) \cup Printing(shapes', {n})
        BY DEF Printing
      <3>4. Printing(shapes', Held) = Printing(shapes, Held)  BY <2>4, <2>5
      <3>5. Printing(shapes', DOMAIN shapes \ lost) = Printing(shapes, DOMAIN shapes \ lost)
        BY <2>5
      <3> QED  BY <2>1, <2>2, <3>1, <3>2, <3>3, <3>4, <3>5 DEF Now
    <2>7. CASE lost' = lost \cup {n} /\ UNCHANGED buffer
      <3> HIDE DEF n
      <3>1. Held' = Held  BY <2>7 DEF Held
      <3>2. DOMAIN shapes' \ lost' = DOMAIN shapes \ lost  BY <2>3, <2>7
      <3>3. Printing(shapes', Held) = Printing(shapes, Held)  BY <2>4, <2>5
      <3>4. Printing(shapes', DOMAIN shapes \ lost) = Printing(shapes, DOMAIN shapes \ lost)
        BY <2>5
      <3> QED  BY <2>1, <2>2, <3>1, <3>2, <3>3, <3>4 DEF Now
    <2> QED  BY <1>1, <2>6, <2>7 DEF ProbeFires
  <1>2. CASE Poll
    <2>1. /\ pc = "loop" /\ buffer' = <<>> /\ UNCHANGED <<shapes, lost, printed>>
      BY <1>2 DEF Poll
    <2>2. work = <<>> /\ Now  BY <2>1, <1>a DEF PhaseInv, InLoop
    <2>3. work' = Stream(option, shapes, buffer) /\ buffer \in Seq(DOMAIN shapes)
      BY <1>2, PollLines
    <2>4. FiringsIn(work') = Printing(shapes, Held)
      BY <2>3, FiringsOfStream DEF ControlInv, KernelInv, Held
    <2>5. FiringsIn(work) = {}  BY <2>2 DEF FiringsIn
    <2>6. Printing(shapes, Held') = {}  BY <2>1 DEF Held, Printing
    <2> QED  BY <2>1, <2>2, <2>4, <2>5, <2>6 DEF Now
  <1>3. CASE PollText  BY <1>3, <1>0 DEF PollText
  <1>4. CASE HandleLine
    <2>1. /\ pc \in InLoop /\ work # <<>> /\ UNCHANGED <<shapes, buffer, lost, drained>>
      BY <1>4 DEF HandleLine, kernel, InLoop
    <2>2. Now /\ ~drained  BY <2>1, <1>a DEF PhaseInv
    <2>3. work' = Tail(work)
      <3>1. pc' # "last"  BY <2>1, <2>2 DEF InLoop
      <3> QED  BY <1>4, <3>1, LineEnds
    <2> DEFINE h == Head(work)
    <2>4. FiringsIn(work) = FiringsIn(work')
                              \cup (IF h.type = "body" THEN {h.body[1]} ELSE {})
      BY <2>1, <2>3, FiringsHead DEF HandlerInv
    <2>5. h \in LineSet  BY <2>1 DEF HandlerInv
    <2>6. Held' = Held  BY <2>1 DEF Held
    <2>7. FiringsOf(printed') = FiringsOf(printed)
                                  \cup (IF h.type = "body" THEN {h.body[1]} ELSE {})
      <3> HIDE DEF h
      <3>1. CASE h.type = "body" /\ BodyLine(h)
        <4>1. printed' = Append(printed, h.body)  BY <3>1 DEF BodyLine
        <4>2. /\ printed \in Seq(Tag) /\ h.body \in Tag
          BY <2>5, <3>1, LineKinds DEF HandlerInv
        <4>3. /\ Len(printed) \in Nat /\ DOMAIN printed = 1..Len(printed)
              /\ DOMAIN printed' = DOMAIN printed \cup {Len(printed) + 1}
              /\ printed'[Len(printed) + 1] = h.body
              /\ \A i \in DOMAIN printed : printed'[i] = printed[i]
          BY <4>1, <4>2
        <4> QED  BY <3>1, <4>3 DEF FiringsOf
      <3>2. CASE h.type = "frame" /\ FrameLine(h)  BY <3>2 DEF FrameLine, FiringsOf
      <3>3. CASE h.type = "marker" /\ MarkerLine  BY <3>3 DEF MarkerLine, FiringsOf
      <3> QED  BY <1>4, <3>1, <3>2, <3>3 DEF HandleLine, h
    <2> HIDE DEF h
    <2> QED  BY <2>1, <2>2, <2>4, <2>6, <2>7 DEF Now
  <1>5. CASE PollFails
    <2>1. pc \in InLoop /\ pc' = "last" /\ drained' = drained  BY <1>5 DEF PollFails, InLoop
    <2> QED  BY <2>1 DEF PhaseInv, InLoop
  <1>6. CASE PollReturns
    <2>1. pc \in InLoop /\ UNCHANGED <<shapes, buffer, lost, printed, work>>
      BY <1>6 DEF PollReturns, kernel, InLoop
    <2> QED  BY <2>1, <1>a DEF Now, Held
  <1>7. CASE /\ UNCHANGED <<option, shapes, buffer, lost, dropped, reported, work, printed,
                             drained>>
             /\ pc' \in {"setup", "go"} \cup InLoop => pc \in {"setup", "go"} \cup InLoop
    <2>1. Now  BY <1>7, <1>a
    <2> QED  BY <1>7, <2>1 DEF Now, Held
  <1> QED  BY <1>1, <1>2, <1>3, <1>4, <1>5, <1>6, <1>7, FiringSteps

-----------------------------------------------------------------------------
Inv ==
    /\ ControlInv /\ KernelInv /\ HandlerInv /\ PhaseInv /\ ExitInv
    /\ OrderInv /\ DropsInv /\ FiringsInv

LEMMA InvHolds == Spec => []Inv
  <1>1. Init => Inv
    BY ControlInit, KernelInit, HandlerInit, PhaseInit, ExitInit, OrderInit, FiringsInit
       DEF Inv
  <1>2. Inv /\ [Next]_vars => Inv'
    BY ControlNext, KernelNext, HandlerNext, PhaseNext, ExitNext, OrderNext, DropsNext,
       FiringsNext
       DEF Inv
  <1> QED  BY <1>1, <1>2, PTL DEF Spec

(* The exporter is given every printf line the handler of WatchRunner.run  *)
(* was called with exactly once and in order, and none is left when the    *)
(* loop has ended, whatever fails and whenever a signal comes.             *)
THEOREM BodiesAreInOrder == Spec => []BodiesInOrder
  <1>1. Inv => BodiesInOrder
    BY DEF Inv, OrderInv, PhaseInv, BodiesInOrder, Given, Waiting, After
  <1> QED  BY <1>1, InvHolds, PTL

(* A session that the script's own exit() ended has exported every firing  *)
(* that prints, or has told the exporter that the kernel dropped it.       *)
THEOREM FiringsAreAccounted == Spec => []AllAccounted
  <1>1. ASSUME Inv, exporter = "closed", drained
        PROVE  /\ reported = Cardinality(lost)
               /\ {printed[i][1] : i \in DOMAIN printed}
                     = {n \in DOMAIN shapes \ lost : shapes[n].bodies > 0}
    <2>1. option.backend = "structured"
      BY <1>1, WatchAssumption DEF Inv, ControlInv, PhaseInv
    <2>2. dropped = 0 /\ buffer = <<>> /\ work = <<>>
      BY <1>1 DEF Inv, ExitInv, PhaseInv
    <2>3. reported = Cardinality(lost)
      BY <1>1, <2>1, <2>2 DEF Inv, DropsInv, KernelInv
    <2>4. Held = {}  BY <2>2 DEF Held
    <2>5. FiringsIn(work) = {}  BY <2>2 DEF FiringsIn
    <2>6. Printing(shapes, Held) = {}  BY <2>4 DEF Printing
    <2>7. FiringsOf(printed) = Printing(shapes, DOMAIN shapes \ lost)
      BY <1>1, <2>1, <2>5, <2>6 DEF Inv, FiringsInv
    <2> QED  BY <2>3, <2>7 DEF FiringsOf, Printing
  <1>2. Inv => AllAccounted  BY <1>1 DEF AllAccounted
  <1> QED  BY <1>2, InvHolds, PTL

-----------------------------------------------------------------------------
(* The lines of a firing, by position.                                     *)

LEMMA DropTypes ==
    ASSUME NEW L, NEW s \in Seq(L), NEW k \in 0..Len(s)
    PROVE  /\ Drop(s, k) \in Seq(L) /\ Len(Drop(s, k)) = Len(s) - k
           /\ Drop(s, Len(s)) = <<>> /\ Drop(s, 0) = s
  <1>1. Len(s) \in Nat /\ Len(s) - k \in Nat  OBVIOUS
  <1>2. \A i \in 1..(Len(s) - k) : k + i \in 1..Len(s)  BY <1>1
  <1>3. Drop(s, k) \in [1..(Len(s) - k) -> L]  BY <1>2 DEF Drop
  <1>4. Drop(s, k) \in Seq(L) /\ Len(Drop(s, k)) = Len(s) - k  BY <1>1, <1>3
  <1>5. Drop(s, 0) = s
    <2>1. s = [i \in 1..Len(s) |-> s[i]]  OBVIOUS
    <2>2. Len(s) - 0 = Len(s) /\ \A i \in 1..Len(s) : 0 + i = i  BY <1>1
    <2> QED  BY <2>1, <2>2 DEF Drop
  <1>6. Drop(s, Len(s)) = <<>>
    <2>1. Len(s) - Len(s) = 0  BY <1>1
    <2>2. Drop(s, Len(s)) = [i \in 1..0 |-> s[Len(s) + i]]  BY <2>1 DEF Drop
    <2> QED  BY <2>2
  <1> QED  BY <1>4, <1>5, <1>6

LEMMA TwoParts ==
    ASSUME NEW L, NEW s \in Seq(L), NEW t \in Seq(L)
    PROVE  /\ s \o t \in Seq(L) /\ Len(s \o t) = Len(s) + Len(t)
           /\ \A i \in 1..Len(s) : (s \o t)[i] = s[i]
           /\ \A i \in 1..Len(t) : (s \o t)[Len(s) + i] = t[i]
  OBVIOUS

LEMMA DropHead ==
    ASSUME NEW L, NEW s \in Seq(L), NEW k \in 0..(Len(s) - 1), NEW x \in Seq(L)
    PROVE  /\ Head(Drop(s, k) \o x) = s[k + 1]
           /\ Tail(Drop(s, k) \o x) = Drop(s, k + 1) \o x
  <1> DEFINE d == Drop(s, k)
             e == Drop(s, k + 1)
             n == Len(s) - k
  <1>1. k \in 0..Len(s) /\ k + 1 \in 0..Len(s) /\ n \in Nat /\ n > 0 /\ 1 \in 1..n
    OBVIOUS
  <1>2. d \in Seq(L) /\ Len(d) = n /\ e \in Seq(L) /\ Len(e) = n - 1
    <2>1. d \in Seq(L) /\ Len(d) = n  BY <1>1, DropTypes
    <2>2. e \in Seq(L) /\ Len(e) = Len(s) - (k + 1)  BY <1>1, DropTypes
    <2>3. Len(s) - (k + 1) = n - 1  BY <1>1
    <2> HIDE DEF d, e, n
    <2> QED  BY <2>1, <2>2, <2>3
  <1>3. \A i \in 1..n : d[i] = s[k + i]  BY DEF Drop
  <1>4. \A i \in 1..(n - 1) : e[i] = s[k + (i + 1)]
    <2>1. \A i \in 1..(Len(s) - (k + 1)) : e[i] = s[(k + 1) + i]  BY DEF Drop
    <2>2. n - 1 = Len(s) - (k + 1) /\ \A i \in 1..(n - 1) : (k + 1) + i = k + (i + 1)
      OBVIOUS
    <2> HIDE DEF e, n
    <2> QED  BY <2>1, <2>2
  <1>5. \A i \in 1..(n - 1) : e[i] = d[i + 1]
    <2>1. \A i \in 1..(n - 1) : i + 1 \in 1..n  BY <1>1
    <2> HIDE DEF d, e, n
    <2> QED  BY <1>3, <1>4, <2>1
  <1> HIDE DEF d, e
  <1>6. Head(d \o x) = d[1]  BY <1>1, <1>2
  <1>7. d[1] = s[k + 1]  BY <1>1, <1>3
  <1>8. Tail(d \o x) = e \o x
    <2>1. /\ Tail(d \o x) \in Seq(L) /\ e \o x \in Seq(L)
          /\ Len(Tail(d \o x)) = n - 1 + Len(x) /\ Len(e \o x) = n - 1 + Len(x)
      <3> DEFINE dx == d \o x
      <3> HIDE DEF n
      <3>1. dx \in Seq(L) /\ Len(dx) = n + Len(x) /\ Len(x) \in Nat
        <4>1. Len(x) \in Nat  OBVIOUS
        <4>2. dx \in Seq(L) /\ Len(dx) = Len(d) + Len(x)  BY <1>2, TwoParts
        <4> HIDE DEF dx
        <4> QED  BY <1>2, <4>1, <4>2
      <3>2. e \o x \in Seq(L) /\ Len(e \o x) = n - 1 + Len(x)  BY <1>2, TwoParts
      <3> HIDE DEF dx
      <3>3. dx # <<>>  BY <1>1, <3>1
      <3>4. Tail(dx) \in Seq(L) /\ Len(Tail(dx)) = Len(dx) - 1  BY <3>1, <3>3
      <3> QED  BY <1>1, <3>1, <3>2, <3>4 DEF dx
    <2>2. ASSUME NEW i \in 1..(n - 1 + Len(x))
          PROVE  Tail(d \o x)[i] = (e \o x)[i]
      <3>1. Tail(d \o x)[i] = (d \o x)[i + 1]  BY <1>1, <1>2
      <3>2. CASE i <= n - 1
        <4>1. i \in 1..(n - 1) /\ i + 1 \in 1..n  BY <3>2, <1>1
        <4>2. (d \o x)[i + 1] = d[i + 1]  BY <4>1, <1>2
        <4>3. (e \o x)[i] = e[i]  BY <4>1, <1>2
        <4> QED  BY <3>1, <4>1, <4>2, <4>3, <1>5
      <3>3. CASE ~(i <= n - 1)
        <4>1. (d \o x)[i + 1] = x[i + 1 - n]  BY SMTT(30), <3>3, <1>2, <1>1
        <4>2. (e \o x)[i] = x[i - (n - 1)]  BY SMTT(30), <3>3, <1>2, <1>1
        <4>3. i + 1 - n = i - (n - 1)  BY <1>1
        <4> QED  BY <3>1, <4>1, <4>2, <4>3
      <3> QED  BY <3>2, <3>3
    <2> QED  BY <2>1, <2>2, SeqEqual
  <1> QED  BY <1>6, <1>7, <1>8 DEF d, e

(* The parts of a firing's lines, and where each begins.                   *)
LEMMA LinePositions ==
    ASSUME NEW L, NEW b \in Seq(L), NEW k \in Seq(L), NEW m \in Seq(L), NEW u \in Seq(L),
           NEW lines, lines = b \o k \o (m \o u)
    PROVE  /\ lines \in Seq(L) /\ Len(lines) = Len(b) + Len(k) + Len(m) + Len(u)
           /\ \A i \in 1..Len(b) : lines[i] = b[i]
           /\ \A i \in 1..Len(k) : lines[Len(b) + i] = k[i]
           /\ \A i \in 1..Len(m) : lines[Len(b) + Len(k) + i] = m[i]
           /\ \A i \in 1..Len(u) : lines[Len(b) + Len(k) + Len(m) + i] = u[i]
  <1> DEFINE bk == b \o k
             mu == m \o u
  <1>1. /\ bk \in Seq(L) /\ Len(bk) = Len(b) + Len(k)
        /\ \A i \in 1..Len(b) : bk[i] = b[i]
        /\ \A i \in 1..Len(k) : bk[Len(b) + i] = k[i]
    OBVIOUS
  <1>2. /\ mu \in Seq(L) /\ Len(mu) = Len(m) + Len(u)
        /\ \A i \in 1..Len(m) : mu[i] = m[i]
        /\ \A i \in 1..Len(u) : mu[Len(m) + i] = u[i]
    OBVIOUS
  <1> HIDE DEF bk, mu
  <1> DEFINE ls == bk \o mu
  <1>3. /\ ls \in Seq(L) /\ Len(ls) = Len(bk) + Len(mu)
        /\ \A i \in 1..Len(bk) : ls[i] = bk[i]
        /\ \A i \in 1..Len(mu) : ls[Len(bk) + i] = mu[i]
    <2>1. bk \in Seq(L) /\ mu \in Seq(L)  BY <1>1, <1>2
    <2> QED  BY <2>1, TwoParts
  <1> HIDE DEF ls
  <1>4. Len(b) \in Nat /\ Len(k) \in Nat /\ Len(m) \in Nat /\ Len(u) \in Nat  OBVIOUS
  <1>5. Len(ls) = Len(b) + Len(k) + Len(m) + Len(u)  BY <1>1, <1>2, <1>3, <1>4
  <1>6. \A i \in 1..Len(b) : ls[i] = b[i]  BY <1>1, <1>3, <1>4
  <1>7. \A i \in 1..Len(k) : ls[Len(b) + i] = k[i]  BY <1>1, <1>3, <1>4
  <1>8. \A i \in 1..Len(m) : ls[Len(b) + Len(k) + i] = m[i]  BY <1>1, <1>2, <1>3, <1>4
  <1>9. \A i \in 1..Len(u) : ls[Len(b) + Len(k) + Len(m) + i] = u[i]
    <2> TAKE i \in 1..Len(u)
    <2>1. Len(m) + i \in 1..Len(mu)  BY <1>2, <1>4
    <2>2. ls[Len(bk) + (Len(m) + i)] = u[i]  BY <2>1, <1>2, <1>3
    <2>3. Len(bk) + (Len(m) + i) = Len(b) + Len(k) + Len(m) + i  BY <1>1, <1>4
    <2> QED  BY <2>2, <2>3
  <1> QED  BY <1>3, <1>5, <1>6, <1>7, <1>8, <1>9 DEF ls, bk, mu

LEMMA PartLengths ==
    ASSUME NEW o \in Options, NEW sh \in Seq(Shapes), NEW n \in DOMAIN sh
    PROVE  /\ sh[n].bodies \in Nat /\ Len(Bodies(n, sh[n])) = sh[n].bodies
           /\ \A i \in 1..sh[n].bodies : Bodies(n, sh[n])[i] = Body(n, i)
           /\ Len(MarkerPart(o)) = IF o.withUstack /\ o.withStack THEN 1 ELSE 0
           /\ o.withUstack /\ o.withStack => MarkerPart(o)[1] = Marker
           /\ ~o.withUstack => Len(UserPart(o, sh, n)) = 0
           /\ \A i \in 1..Len(KernelPart(o, sh, n)) : KernelPart(o, sh, n)[i].type = "frame"
           /\ \A i \in 1..Len(UserPart(o, sh, n)) : UserPart(o, sh, n)[i].type = "frame"
  <1>1. sh[n].bodies \in Nat /\ sh[n].kernel \in Nat /\ sh[n].user \in Nat
    BY WatchAssumption
  <1>2. /\ Len(Bodies(n, sh[n])) = sh[n].bodies
        /\ \A i \in 1..sh[n].bodies : Bodies(n, sh[n])[i] = Body(n, i)
    <2> HIDE DEF Body
    <2> QED  BY <1>1 DEF Bodies
  <1>3. /\ Len(MarkerPart(o)) = IF o.withUstack /\ o.withStack THEN 1 ELSE 0
        /\ o.withUstack /\ o.withStack => MarkerPart(o)[1] = Marker
    BY DEF MarkerPart
  <1>4. ~o.withUstack => Len(UserPart(o, sh, n)) = 0  BY DEF UserPart
  <1>5. \A i, s : Frame(n, s, i).type = "frame"  BY DEF Frame
  <1>6. \A i \in 1..Len(KernelPart(o, sh, n)) : KernelPart(o, sh, n)[i].type = "frame"
    BY <1>1, <1>5 DEF KernelPart, KernelFrames
  <1>7. \A i \in 1..Len(UserPart(o, sh, n)) : UserPart(o, sh, n)[i].type = "frame"
    BY <1>1, <1>5 DEF UserPart, UserFrames
  <1> QED  BY <1>1, <1>2, <1>3, <1>4, <1>6, <1>7

(* What comes next, when part of a firing has been delivered.              *)
LEMMA NextLine ==
    ASSUME NEW o \in Options, NEW sh \in Seq(Shapes), NEW p \in PendingSet,
           o.withUstack => o.withStack, Partial(o, sh, p)
    PROVE  LET n  == p.body[1]
               i  == p.body[2]
               ls == LinesOf(o, sh, n)
               k  == Position(p)
               ks == KernelPart(o, sh, n)
               us == UserPart(o, sh, n)
           IN  /\ ls \in Seq(LineSet) /\ k \in 0..Len(ls) /\ n \in DOMAIN sh
               /\ k = Len(ls) => i = sh[n].bodies /\ Len(p.kstack) = Len(ks)
                                   /\ Len(p.ustack) = Len(us)
               /\ k < Len(ls) =>
                    \/ /\ i < sh[n].bodies /\ ls[k + 1] = Body(n, i + 1)
                       /\ p.kstack = <<>> /\ p.ustack = <<>> /\ ~p.inUStack
                    \/ /\ Len(p.kstack) < Len(ks) /\ ls[k + 1] = ks[Len(p.kstack) + 1]
                       /\ i = sh[n].bodies /\ p.ustack = <<>> /\ ~p.inUStack
                    \/ /\ ls[k + 1] = Marker /\ ~p.inUStack /\ Len(p.kstack) = Len(ks)
                       /\ i = sh[n].bodies /\ p.ustack = <<>>
                       /\ o.withStack /\ o.withUstack
                    \/ /\ Len(p.ustack) < Len(us) /\ ls[k + 1] = us[Len(p.ustack) + 1]
                       /\ i = sh[n].bodies /\ p.inUStack
  <1> DEFINE n  == p.body[1]
             i  == p.body[2]
             ls == LinesOf(o, sh, n)
             k  == Position(p)
             bs == Bodies(n, sh[n])
             ks == KernelPart(o, sh, n)
             ms == MarkerPart(o)
             us == UserPart(o, sh, n)
             kn == Len(p.kstack)
             un == Len(p.ustack)
             B  == sh[n].bodies
             K  == Len(ks)
             U  == Len(us)
             M  == IF o.withUstack /\ o.withStack THEN 1 ELSE 0
  <1>1. /\ n \in DOMAIN sh /\ i \in 1..B /\ kn <= K /\ un <= U
        /\ p.kstack # <<>> \/ p.inUStack => i = B
        /\ p.inUStack => o.withStack /\ o.withUstack /\ kn = K
        /\ p.ustack # <<>> => p.inUStack
    BY DEF Partial, Pre
  <1>2. /\ bs \in Seq(LineSet) /\ ks \in Seq(LineSet) /\ ms \in Seq(LineSet)
        /\ us \in Seq(LineSet)
    BY <1>1, PartTypes
  <1>3. B \in Nat /\ K \in Nat /\ U \in Nat /\ M \in {0, 1} /\ Len(bs) = B /\ Len(ms) = M
    BY SMTT(30), <1>1, <1>2, PartLengths
  <1>4. p.kstack \in Seq(LineSet) /\ p.ustack \in Seq(LineSet) /\ p.inUStack \in BOOLEAN
    BY DEF PendingSet
  <1>5. /\ kn \in Nat /\ un \in Nat
        /\ kn = 0 <=> p.kstack = <<>>
        /\ un = 0 <=> p.ustack = <<>>
    BY <1>4, EmptySeq
  <1>6. /\ ls \in Seq(LineSet) /\ Len(ls) = B + K + M + U
        /\ \A j \in 1..B : ls[j] = bs[j]
        /\ \A j \in 1..K : ls[B + j] = ks[j]
        /\ \A j \in 1..M : ls[B + K + j] = ms[j]
        /\ \A j \in 1..U : ls[B + K + M + j] = us[j]
    <2>1. ls = bs \o ks \o (ms \o us)  BY DEF LinesOf
    <2> HIDE DEF ls, bs, ks, ms, us, B, M
    <2>2. Len(bs) = B /\ Len(ms) = M  BY <1>3
    <2>3. /\ ls \in Seq(LineSet) /\ Len(ls) = Len(bs) + Len(ks) + Len(ms) + Len(us)
          /\ \A j \in 1..Len(bs) : ls[j] = bs[j]
          /\ \A j \in 1..Len(ks) : ls[Len(bs) + j] = ks[j]
          /\ \A j \in 1..Len(ms) : ls[Len(bs) + Len(ks) + j] = ms[j]
          /\ \A j \in 1..Len(us) : ls[Len(bs) + Len(ks) + Len(ms) + j] = us[j]
      BY <1>2, <2>1, LinePositions
    <2> QED  BY <2>2, <2>3
  <1>7. /\ \A j \in 1..B : bs[j] = Body(n, j)
        /\ M = 1 => ms[1] = Marker
        /\ M = 0 => U = 0
    BY <1>1, PartLengths
  <1>8. /\ k = i + kn + (IF p.inUStack THEN 1 ELSE 0) + un
    BY DEF Position
  <1>9. /\ M = 1 => o.withStack /\ o.withUstack
        /\ o.withStack /\ o.withUstack => M = 1
    OBVIOUS
  <1> HIDE DEF n, i, ls, k, bs, ks, ms, us, B, K, U, M
  <1>10. i \in Nat /\ i >= 1 /\ i <= B  BY <1>1, <1>3
  <1> HIDE DEF kn, un
  <1>11. CASE p.inUStack
    <2>1. i = B /\ kn = K /\ M = 1 /\ k = B + K + 1 + un /\ k \in Nat
      BY <1>1, <1>3, <1>5, <1>8, <1>9, <1>10, <1>11
    <2>2. k <= Len(ls) /\ (k = Len(ls) <=> un = U)  BY <1>1, <1>3, <1>5, <1>6, <2>1
    <2>3. k < Len(ls) => un < U /\ un + 1 \in 1..U /\ k + 1 = B + K + M + (un + 1)
      BY <1>1, <1>3, <1>5, <1>6, <2>1
    <2>4. k < Len(ls) => ls[k + 1] = us[un + 1]  BY <1>6, <2>3
    <2> QED
      BY <1>1, <1>3, <1>5, <1>6, <1>11, <2>1, <2>2, <2>3, <2>4
         DEF n, i, ls, k, bs, ks, ms, us, B, K, U, M, kn, un
  <1>12. CASE ~p.inUStack /\ i < B
    <2>1. kn = 0 /\ un = 0 /\ p.kstack = <<>> /\ p.ustack = <<>>  BY <1>1, <1>5, <1>12
    <2>2. k = i  BY <1>8, <1>10, <1>12, <2>1
    <2>3. k \in 0..Len(ls) /\ k < Len(ls) /\ i + 1 \in 1..B
      BY <1>3, <1>6, <1>10, <1>12, <2>2
    <2>4. ls[k + 1] = Body(n, i + 1)  BY <1>6, <1>7, <2>2, <2>3
    <2>5. k # Len(ls)  BY <2>2, <2>3, <1>10, <1>6
    <2> QED
      BY <1>1, <1>6, <1>12, <2>1, <2>3, <2>4, <2>5
         DEF n, i, ls, k, bs, ks, ms, us, B, K, U, M, kn, un
  <1>13. CASE ~p.inUStack /\ i = B /\ kn < K
    <2>1. un = 0 /\ p.ustack = <<>>  BY <1>1, <1>5, <1>13
    <2>2. k = B + kn  BY <1>3, <1>5, <1>8, <1>10, <1>13, <2>1
    <2>3. k \in 0..Len(ls) /\ k < Len(ls) /\ kn + 1 \in 1..K /\ k + 1 = B + (kn + 1)
      BY <1>3, <1>5, <1>6, <1>13, <2>2
    <2>4. ls[k + 1] = ks[kn + 1]  BY <1>6, <2>3
    <2>5. k # Len(ls)  BY <2>2, <2>3, <1>3, <1>5, <1>6
    <2> QED
      BY <1>1, <1>6, <1>13, <2>1, <2>3, <2>4, <2>5
         DEF n, i, ls, k, bs, ks, ms, us, B, K, U, M, kn, un
  <1>14. CASE ~p.inUStack /\ i = B /\ kn = K
    <2>1. un = 0 /\ p.ustack = <<>>  BY <1>1, <1>5, <1>14
    <2>2. k = B + K  BY <1>3, <1>5, <1>8, <1>10, <1>14, <2>1
    <2>3. k \in 0..Len(ls)  BY <1>3, <1>6, <2>2
    <2>4. k = Len(ls) => un = U  BY <1>3, <1>6, <2>1, <2>2
    <2>5. k < Len(ls) => M = 1  BY <1>3, <1>6, <1>7, <2>2
    <2>6. k < Len(ls) => ls[k + 1] = Marker /\ o.withStack /\ o.withUstack
      <3>1. k + 1 = B + K + 1  BY <2>2, <1>3
      <3>2. M = 1 => 1 \in 1..M  OBVIOUS
      <3> QED  BY <3>1, <3>2, <2>5, <1>6, <1>7, <1>9
    <2> QED
      BY <1>1, <1>6, <1>14, <2>1, <2>3, <2>4, <2>6
         DEF n, i, ls, k, bs, ks, ms, us, B, K, U, M, kn, un
  <1>15. kn < K \/ kn = K  BY <1>1, <1>3, <1>5
  <1>16. i < B \/ i = B  BY <1>3, <1>10
  <1> QED  BY <1>4, <1>11, <1>12, <1>13, <1>14, <1>15, <1>16

(* Delivering whole firings, the first one first.                          *)
LEMMA StreamCons ==
    ASSUME NEW o \in Options, NEW sh \in Seq(Shapes), NEW n \in DOMAIN sh,
           NEW ns \in Seq(DOMAIN sh)
    PROVE  Stream(o, sh, <<n>> \o ns) = LinesOf(o, sh, n) \o Stream(o, sh, ns)
  <1> DEFINE D == DOMAIN sh
             one == <<n>>
             T == {q \in Seq(D) : Stream(o, sh, one \o q) = LinesOf(o, sh, n) \o Stream(o, sh, q)}
  <1>1. one \in Seq(D) /\ LinesOf(o, sh, n) \in Seq(LineSet)  BY PartTypes
  <1>2. <<>> \in T
    <2>1. one = Append(<<>>, n) /\ <<>> \in Seq(D)  OBVIOUS
    <2>2. Stream(o, sh, Append(<<>>, n)) = Stream(o, sh, <<>>) \o LinesOf(o, sh, n)
      BY <2>1, StreamAppend
    <2>3. Stream(o, sh, <<>>) = <<>>  BY StreamNothing
    <2> DEFINE x == LinesOf(o, sh, n)
    <2>4. <<>> \o x = x /\ x \o <<>> = x
      <3> HIDE DEF x
      <3> QED  BY <1>1 DEF x
    <2>5. one \o <<>> = one  BY <1>1
    <2> HIDE DEF x, one
    <2>6. Stream(o, sh, one \o <<>>) = x \o Stream(o, sh, <<>>)
      BY <2>1, <2>2, <2>3, <2>4, <2>5 DEF x
    <2> QED  BY <2>1, <2>6 DEF x
  <1>3. ASSUME NEW q \in Seq(D), NEW m \in D, q \in T PROVE Append(q, m) \in T
    <2> HIDE DEF one
    <2>1. one \o Append(q, m) = Append(one \o q, m)  BY SMTT(30), <1>1, ConcatAppend
    <2>2. one \o q \in Seq(D) /\ Append(q, m) \in Seq(D)  BY <1>1
    <2>3. Stream(o, sh, Append(one \o q, m)) = Stream(o, sh, one \o q) \o LinesOf(o, sh, m)
      BY <2>2, StreamAppend
    <2>4. Stream(o, sh, Append(q, m)) = Stream(o, sh, q) \o LinesOf(o, sh, m)
      BY StreamAppend
    <2>5. Stream(o, sh, one \o q) = LinesOf(o, sh, n) \o Stream(o, sh, q)  BY <1>3
    <2>6. Stream(o, sh, q) \in Seq(LineSet) /\ LinesOf(o, sh, m) \in Seq(LineSet)
      BY StreamTypes, PartTypes
    <2>7. (LinesOf(o, sh, n) \o Stream(o, sh, q)) \o LinesOf(o, sh, m)
             = LinesOf(o, sh, n) \o (Stream(o, sh, q) \o LinesOf(o, sh, m))
      <3> DEFINE a == LinesOf(o, sh, n)
                 b == Stream(o, sh, q)
                 c == LinesOf(o, sh, m)
      <3>1. a \in Seq(LineSet) /\ b \in Seq(LineSet) /\ c \in Seq(LineSet)  BY <1>1, <2>6
      <3> HIDE DEF a, b, c
      <3>2. (a \o b) \o c = a \o (b \o c)  BY SMTT(30), <3>1, ConcatAssociative
      <3> QED  BY <3>2 DEF a, b, c
    <2> QED  BY <2>1, <2>2, <2>3, <2>4, <2>5, <2>7
  <1>4. Seq(D) \subseteq T
    <2> HIDE DEF T, D
    <2> QED  BY <1>2, <1>3, SeqInduction
  <1> QED  BY <1>4

EventOf(p) == [body |-> p.body, stack |-> p.kstack, ustack |-> p.ustack]

BodyNext(b)      == [Nothing EXCEPT !.body = b]
FrameNext(p, l)  == IF p.inUStack THEN [p EXCEPT !.ustack = Append(@, l)]
                                  ELSE [p EXCEPT !.kstack = Append(@, l)]
MarkerNext(p)    == [p EXCEPT !.inUStack = TRUE]

LEMMA BodyNextIs ==
    ASSUME NEW b \in Tag
    PROVE  /\ BodyNext(b) \in PendingSet /\ BodyNext(b).body = b
           /\ BodyNext(b).kstack = <<>> /\ BodyNext(b).ustack = <<>>
           /\ BodyNext(b).inUStack = FALSE
  <1>1. Nothing \in PendingSet  BY NothingTypes
  <1>2. Nothing.kstack = <<>> /\ Nothing.ustack = <<>> /\ Nothing.inUStack = FALSE
    BY DEF Nothing
  <1>3. BodyNext(b) = [Nothing EXCEPT !.body = b]  BY DEF BodyNext
  <1> HIDE DEF Nothing, BodyNext
  <1>4. /\ BodyNext(b) \in PendingSet /\ BodyNext(b).body = b
        /\ BodyNext(b).kstack = Nothing.kstack /\ BodyNext(b).ustack = Nothing.ustack
        /\ BodyNext(b).inUStack = Nothing.inUStack
    BY <1>1, <1>3 DEF PendingSet
  <1> QED  BY <1>2, <1>4

LEMMA FrameNextIs ==
    ASSUME NEW p \in PendingSet, NEW l \in LineSet
    PROVE  LET q == FrameNext(p, l)
           IN  /\ q \in PendingSet /\ q.body = p.body /\ q.inUStack = p.inUStack
               /\ p.inUStack => q.kstack = p.kstack /\ q.ustack = Append(p.ustack, l)
               /\ ~p.inUStack => q.kstack = Append(p.kstack, l) /\ q.ustack = p.ustack
  <1>1. p.ustack \in Seq(LineSet) /\ p.kstack \in Seq(LineSet)  BY DEF PendingSet
  <1> DEFINE us == Append(p.ustack, l)
             ks == Append(p.kstack, l)
  <1>2. us \in Seq(LineSet) /\ ks \in Seq(LineSet)  BY <1>1
  <1>3. FrameNext(p, l) = IF p.inUStack THEN [p EXCEPT !.ustack = us]
                                        ELSE [p EXCEPT !.kstack = ks]
    BY DEF FrameNext
  <1> HIDE DEF us, ks
  <1> DEFINE q == FrameNext(p, l)
  <1>4. CASE p.inUStack
    <2>1. q = [p EXCEPT !.ustack = us]  BY <1>3, <1>4
    <2> HIDE DEF q
    <2>2. /\ q \in PendingSet /\ q.body = p.body /\ q.inUStack = p.inUStack
          /\ q.kstack = p.kstack /\ q.ustack = us
      BY <1>2, <2>1 DEF PendingSet
    <2> QED  BY <1>4, <2>2 DEF q, us
  <1>5. CASE ~p.inUStack
    <2>1. q = [p EXCEPT !.kstack = ks]  BY <1>3, <1>5
    <2> HIDE DEF q
    <2>2. /\ q \in PendingSet /\ q.body = p.body /\ q.inUStack = p.inUStack
          /\ q.kstack = ks /\ q.ustack = p.ustack
      BY <1>2, <2>1 DEF PendingSet
    <2> QED  BY <1>5, <2>2 DEF q, ks
  <1> QED  BY <1>4, <1>5

LEMMA MarkerNextIs ==
    ASSUME NEW p \in PendingSet
    PROVE  LET q == MarkerNext(p)
           IN  /\ q \in PendingSet /\ q.body = p.body /\ q.inUStack = TRUE
               /\ q.kstack = p.kstack /\ q.ustack = p.ustack
  BY DEF MarkerNext, PendingSet

LEMMA PreAppend ==
    ASSUME NEW s \in Seq(LineSet), NEW t \in Seq(LineSet), Pre(s, t), Len(s) < Len(t)
    PROVE  Pre(Append(s, t[Len(s) + 1]), t)
  BY DEF Pre

LEMMA PreWhole ==
    ASSUME NEW s \in Seq(LineSet), NEW t \in Seq(LineSet), Pre(s, t), Len(s) = Len(t)
    PROVE  s = t
  BY SeqEqual DEF Pre

(* The event of an accumulator that holds all its firing's lines is whole. *)
LEMMA WholeAtEnd ==
    ASSUME NEW o \in Options, NEW sh \in Seq(Shapes), NEW p \in PendingSet,
           o.withUstack => o.withStack, p.body # NoBody, Partial(o, sh, p),
           Position(p) = Len(LinesOf(o, sh, p.body[1]))
    PROVE  WholeEvent(o, sh, EventOf(p))
  <1> DEFINE n == p.body[1]
             ks == KernelPart(o, sh, n)
             us == UserPart(o, sh, n)
  <1>1. /\ n \in DOMAIN sh /\ p.body[2] = sh[n].bodies
        /\ Len(p.kstack) = Len(ks) /\ Len(p.ustack) = Len(us)
    BY NextLine
  <1>2. Pre(p.kstack, ks) /\ Pre(p.ustack, us)  BY DEF Partial
  <1>3. ks \in Seq(LineSet) /\ us \in Seq(LineSet)  BY <1>1, PartTypes
  <1>4. p.kstack \in Seq(LineSet) /\ p.ustack \in Seq(LineSet)  BY DEF PendingSet
  <1>5. p.kstack = ks /\ p.ustack = us
    <2> HIDE DEF ks, us
    <2> QED  BY <1>1, <1>2, <1>3, <1>4, PreWhole
  <1>6. /\ EventOf(p).body = p.body /\ EventOf(p).stack = p.kstack
        /\ EventOf(p).ustack = p.ustack
    BY DEF EventOf
  <1>7. Wanted(o, sh, p.body).stack = ks /\ Wanted(o, sh, p.body).ustack = us
    BY <1>1 DEF Wanted
  <1> QED  BY <1>1, <1>5, <1>6, <1>7 DEF WholeEvent

(* A partial accumulator's event lacks at most frames at the end.          *)
LEMMA CutIsPrefix ==
    ASSUME NEW o \in Options, NEW sh \in Seq(Shapes), NEW p \in PendingSet,
           Partial(o, sh, p)
    PROVE  CutEvent(o, sh, EventOf(p))
  <1> DEFINE n == p.body[1]
             ks == KernelPart(o, sh, n)
             us == UserPart(o, sh, n)
  <1>1. /\ n \in DOMAIN sh /\ Pre(p.kstack, ks) /\ Pre(p.ustack, us)
        /\ p.kstack # <<>> \/ p.inUStack => p.body[2] = sh[n].bodies
        /\ p.ustack # <<>> => p.inUStack
    BY DEF Partial
  <1>2. /\ EventOf(p).body = p.body /\ EventOf(p).stack = p.kstack
        /\ EventOf(p).ustack = p.ustack
    BY DEF EventOf
  <1>3. CASE p.body[2] = sh[n].bodies
    <2>1. Wanted(o, sh, p.body).stack = ks /\ Wanted(o, sh, p.body).ustack = us
      BY <1>3 DEF Wanted
    <2> QED  BY <1>1, <1>2, <2>1 DEF CutEvent
  <1>4. CASE p.body[2] # sh[n].bodies
    <2>1. Wanted(o, sh, p.body).stack = <<>> /\ Wanted(o, sh, p.body).ustack = <<>>
      BY <1>4 DEF Wanted
    <2>2. p.kstack = <<>> /\ p.ustack = <<>>  BY <1>1, <1>4
    <2>3. Pre(<<>>, <<>>)  BY DEF Pre
    <2> QED  BY <1>1, <1>2, <2>1, <2>2, <2>3 DEF CutEvent
  <1> QED  BY <1>3, <1>4

(* The handler's state after the next line.                                *)
After1(o, sh, q, t) == q \in PendingSet /\ PendingOK(o, sh, q) /\ Ahead(o, sh, q, t)

LEMMA FirstLine ==
    ASSUME NEW o \in Options, NEW sh \in Seq(Shapes), NEW ns \in Seq(DOMAIN sh),
           \A n \in DOMAIN sh : sh[n].bodies > 0,
           NEW w, w = Stream(o, sh, ns), w # <<>>
    PROVE  /\ Head(w).type = "body" /\ Head(w).body \in Tag
           /\ After1(o, sh, BodyNext(Head(w).body), Tail(w))
  <1>1. ns # <<>>  BY StreamNothing
  <1> DEFINE n == Head(ns)
             tl == Tail(ns)
             ls == LinesOf(o, sh, n)
             st == Stream(o, sh, tl)
             b  == <<n, 1>>
             q  == BodyNext(b)
  <1>2. n \in DOMAIN sh /\ tl \in Seq(DOMAIN sh) /\ ns = <<n>> \o tl  BY <1>1
  <1>3. w = ls \o st
    <2> HIDE DEF n, tl
    <2> QED  BY <1>2, StreamCons DEF n, tl
  <1>4. ls \in Seq(LineSet) /\ st \in Seq(LineSet)  BY <1>2, PartTypes, StreamTypes
  <1>5. /\ sh[n].bodies \in Nat /\ sh[n].bodies > 0
        /\ Len(Bodies(n, sh[n])) = sh[n].bodies /\ Bodies(n, sh[n])[1] = Body(n, 1)
    <2>1. sh[n].bodies \in Nat /\ sh[n].bodies > 0 /\ 1 \in 1..sh[n].bodies
      BY <1>2, PartLengths
    <2> QED  BY <1>2, <2>1, PartLengths
  <1>6. Len(ls) \in Nat /\ Len(ls) >= 1 /\ ls[1] = Body(n, 1)
    <2> DEFINE bs == Bodies(n, sh[n])
               ks == KernelPart(o, sh, n)
               ms == MarkerPart(o)
               us == UserPart(o, sh, n)
    <2>1. /\ bs \in Seq(LineSet) /\ ks \in Seq(LineSet) /\ ms \in Seq(LineSet)
          /\ us \in Seq(LineSet)
      BY <1>2, PartTypes
    <2>2. ls = bs \o ks \o (ms \o us)  BY DEF LinesOf
    <2>3. Len(bs) = sh[n].bodies /\ bs[1] = Body(n, 1)  BY <1>5
    <2> HIDE DEF bs, ks, ms, us, ls
    <2>4. /\ Len(ls) = Len(bs) + Len(ks) + Len(ms) + Len(us)
          /\ \A j \in 1..Len(bs) : ls[j] = bs[j]
      BY <2>1, <2>2, LinePositions
    <2>5. Len(bs) \in Nat /\ Len(ks) \in Nat /\ Len(ms) \in Nat /\ Len(us) \in Nat
      BY <2>1
    <2>6. 1 \in 1..Len(bs)  BY <1>5, <2>3
    <2>7. ls[1] = Body(n, 1)  BY <2>3, <2>4, <2>6
    <2>8. Len(bs) >= 1  BY <1>5, <2>3
    <2>9. Len(ls) \in Nat /\ Len(ls) >= 1  BY <2>4, <2>5, <2>8
    <2> QED  BY <2>7, <2>9
  <1> HIDE DEF ls, st
  <1>7. Head(w) = Body(n, 1) /\ Tail(w) = Drop(ls, 1) \o st
    <2>1. Drop(ls, 0) = ls
      <3>1. 0 \in 0..Len(ls)  BY <1>6
      <3> QED  BY <1>4, <3>1, DropTypes
    <2>2. 0 \in 0..(Len(ls) - 1)  BY <1>6
    <2>3. /\ Head(Drop(ls, 0) \o st) = ls[0 + 1]
          /\ Tail(Drop(ls, 0) \o st) = Drop(ls, 0 + 1) \o st
      BY <1>4, <2>2, DropHead
    <2>4. 0 + 1 = 1  OBVIOUS
    <2> QED  BY <1>3, <1>6, <2>1, <2>3, <2>4
  <1>8. Body(n, 1).type = "body" /\ Body(n, 1).body = b  BY DEF Body
  <1>9. b \in Tag /\ b[1] = n /\ b[2] = 1  BY <1>2 DEF Tag
  <1> HIDE DEF b
  <1>10. /\ q \in PendingSet /\ q.body = b /\ q.kstack = <<>> /\ q.ustack = <<>>
         /\ q.inUStack = FALSE
    BY <1>9, BodyNextIs
  <1> HIDE DEF q
  <1>11. q.body # NoBody  BY <1>9, <1>10, TagIsBody
  <1>12. Position(q) = 1
    <2>1. Len(<<>>) = 0  OBVIOUS
    <2> QED  BY <1>9, <1>10, <2>1 DEF Position
  <1>13. Partial(o, sh, q)
    <2>1. KernelPart(o, sh, n) \in Seq(LineSet) /\ UserPart(o, sh, n) \in Seq(LineSet)
      BY <1>2, PartTypes
    <2>2. \A t \in Seq(LineSet) : Pre(<<>>, t)  BY DEF Pre
    <2>3. 1 \in 1..sh[n].bodies  BY <1>5
    <2> QED  BY <1>2, <1>9, <1>10, <2>1, <2>2, <2>3 DEF Partial
  <1>14. Rest(o, sh, q) = Drop(ls, 1)  BY <1>9, <1>10, <1>11, <1>12 DEF Rest, ls
  <1>15. Ahead(o, sh, q, Tail(w))  BY <1>2, <1>7, <1>14 DEF Ahead, st
  <1>16. PendingOK(o, sh, q)  BY <1>11, <1>13 DEF PendingOK
  <1> QED  BY <1>7, <1>8, <1>9, <1>10, <1>15, <1>16 DEF After1, q

(* A step to the next line of the same firing.                             *)
LEMMA StaysAhead ==
    ASSUME NEW o \in Options, NEW sh \in Seq(Shapes), NEW p \in PendingSet,
           NEW q \in PendingSet, NEW n, NEW ns \in Seq(DOMAIN sh), NEW t,
           q.body # NoBody, q.body[1] = n, Partial(o, sh, q),
           t = Drop(LinesOf(o, sh, n), Position(q)) \o Stream(o, sh, ns)
    PROVE  After1(o, sh, q, t)
  BY DEF After1, PendingOK, Ahead, Rest

(* The next line, of any kind, and what the handler has then.              *)
LEMMA AheadLine ==
    ASSUME NEW o \in Options, NEW sh \in Seq(Shapes), NEW p \in PendingSet,
           o.withUstack => o.withStack, \A n \in DOMAIN sh : sh[n].bodies > 0,
           PendingOK(o, sh, p), NEW w \in Seq(LineSet), w # <<>>, Ahead(o, sh, p, w)
    PROVE  \/ /\ Head(w).type = "body" /\ Head(w).body \in Tag
              /\ p.body # NoBody => WholeEvent(o, sh, EventOf(p))
              /\ After1(o, sh, BodyNext(Head(w).body), Tail(w))
           \/ /\ Head(w).type = "frame" /\ After1(o, sh, FrameNext(p, Head(w)), Tail(w))
           \/ /\ Head(w).type = "marker" /\ After1(o, sh, MarkerNext(p), Tail(w))
  <1>1. PICK ns \in Seq(DOMAIN sh) : w = Rest(o, sh, p) \o Stream(o, sh, ns)
    BY DEF Ahead
  <1>2. Stream(o, sh, ns) \in Seq(LineSet)  BY StreamTypes
  <1>3. CASE p.body = NoBody
    <2>1. Rest(o, sh, p) = <<>>  BY <1>3 DEF Rest
    <2>2. w = Stream(o, sh, ns)  BY <1>1, <1>2, <2>1
    <2> QED  BY <1>3, <2>2, FirstLine
  <1>4. CASE p.body # NoBody
    <2> DEFINE n  == p.body[1]
               i  == p.body[2]
               ls == LinesOf(o, sh, n)
               k  == Position(p)
               ks == KernelPart(o, sh, n)
               us == UserPart(o, sh, n)
               B  == sh[n].bodies
               x  == Stream(o, sh, ns)
    <2>1. Partial(o, sh, p) /\ p.body \in Tag  BY <1>4 DEF PendingOK, PendingSet
    <2>2. /\ n \in DOMAIN sh /\ i \in 1..B /\ Pre(p.kstack, ks) /\ Pre(p.ustack, us)
          /\ p.inUStack => p.kstack = ks
          /\ p.inUStack => o.withStack /\ o.withUstack
      BY <2>1 DEF Partial
    <2>3. /\ ls \in Seq(LineSet) /\ k \in 0..Len(ls)
          /\ k < Len(ls) =>
                \/ /\ i < B /\ ls[k + 1] = Body(n, i + 1)
                   /\ p.kstack = <<>> /\ p.ustack = <<>> /\ ~p.inUStack
                \/ /\ Len(p.kstack) < Len(ks) /\ ls[k + 1] = ks[Len(p.kstack) + 1]
                   /\ i = B /\ p.ustack = <<>> /\ ~p.inUStack
                \/ /\ ls[k + 1] = Marker /\ ~p.inUStack /\ Len(p.kstack) = Len(ks)
                   /\ i = B /\ p.ustack = <<>>
                   /\ o.withStack /\ o.withUstack
                \/ /\ Len(p.ustack) < Len(us) /\ ls[k + 1] = us[Len(p.ustack) + 1]
                   /\ i = B /\ p.inUStack
      BY <2>1, NextLine
    <2>4. ks \in Seq(LineSet) /\ us \in Seq(LineSet)  BY <2>2, PartTypes
    <2>5. p.kstack \in Seq(LineSet) /\ p.ustack \in Seq(LineSet) /\ p.inUStack \in BOOLEAN
      BY DEF PendingSet
    <2>6. /\ B \in Nat /\ n \in Nat /\ i \in Nat
          /\ \A j \in 1..Len(ks) : ks[j].type = "frame"
          /\ \A j \in 1..Len(us) : us[j].type = "frame"
      BY <2>1, <2>2, PartLengths DEF Tag
    <2>7. Rest(o, sh, p) = Drop(ls, k)  BY <1>4 DEF Rest
    <2>8. k = i + Len(p.kstack) + (IF p.inUStack THEN 1 ELSE 0) + Len(p.ustack)
      BY DEF Position
    <2>9. \A t \in Seq(LineSet) : Pre(<<>>, t)  BY DEF Pre
    <2>10. x \in Seq(LineSet) /\ w = Drop(ls, k) \o x  BY <1>1, <1>2, <2>7
    <2>11. n = p.body[1] /\ i = p.body[2] /\ p.body = <<n, i>>  BY <2>1 DEF Tag
    <2> HIDE DEF ls, k, ks, us, B, x, n, i
    <2>12. CASE k = Len(ls)
      <3>1. Drop(ls, k) = <<>>  BY <2>3, <2>12, DropTypes
      <3>2. w = x  BY <2>10, <3>1
      <3>3. WholeEvent(o, sh, EventOf(p))
        BY <1>4, <2>1, <2>12, WholeAtEnd DEF k, ls, n
      <3> QED  BY <3>2, <3>3, FirstLine DEF x
    <2>13. CASE k < Len(ls)
      <3>1. k \in 0..(Len(ls) - 1) /\ Len(ls) \in Nat  BY <2>3, <2>13
      <3>2. Head(w) = ls[k + 1] /\ Tail(w) = Drop(ls, k + 1) \o x
        BY <2>3, <2>10, <3>1, DropHead
      <3>3. ls[k + 1] \in LineSet  BY <2>3, <3>1
      <3>4. ASSUME NEW q \in PendingSet, q.body # NoBody, q.body[1] = n,
                   Partial(o, sh, q), Position(q) = k + 1
            PROVE  After1(o, sh, q, Tail(w))
        <4>1. Tail(w) = Drop(LinesOf(o, sh, n), Position(q)) \o Stream(o, sh, ns)
          BY <3>2, <3>4 DEF ls, x
        <4> QED  BY <3>4, <4>1, StaysAhead
      <3>5. CASE /\ i < B /\ ls[k + 1] = Body(n, i + 1)
                 /\ p.kstack = <<>> /\ p.ustack = <<>> /\ ~p.inUStack
        <4> DEFINE b == <<n, i + 1>>
                   q == BodyNext(b)
        <4>1. b \in Tag /\ b[1] = n /\ b[2] = i + 1  BY <2>6 DEF Tag
        <4>2. Head(w).type = "body" /\ Head(w).body = b  BY <3>2, <3>5 DEF Body
        <4> HIDE DEF b
        <4>3. /\ q \in PendingSet /\ q.body = b /\ q.kstack = <<>> /\ q.ustack = <<>>
              /\ q.inUStack = FALSE
          BY <4>1, BodyNextIs
        <4> HIDE DEF q
        <4>4. q.body # NoBody  BY <4>1, <4>3, TagIsBody
        <4>5. Position(q) = k + 1
          <5>1. Len(<<>>) = 0  OBVIOUS
          <5>2. Position(q) = i + 1 /\ k = i
            BY <2>6, <2>8, <3>5, <4>1, <4>3, <5>1 DEF Position
          <5> QED  BY <5>2
        <4>6. Partial(o, sh, q)
          <5>1. i + 1 \in 1..B  BY <2>6, <3>5
          <5> QED  BY <2>2, <2>4, <2>9, <4>1, <4>3, <5>1 DEF Partial, ks, us, B
        <4>7. After1(o, sh, q, Tail(w))  BY <3>4, <4>1, <4>3, <4>4, <4>5, <4>6
        <4>8. WholeEvent(o, sh, EventOf(p))
          <5>1. /\ EventOf(p).body = p.body /\ EventOf(p).stack = <<>>
                /\ EventOf(p).ustack = <<>>
            BY <3>5 DEF EventOf
          <5>2. i # B  BY <2>6, <3>5
          <5>3. Wanted(o, sh, p.body).stack = <<>> /\ Wanted(o, sh, p.body).ustack = <<>>
            BY <5>2 DEF Wanted, i, B, n
          <5> QED  BY <2>2, <5>1, <5>3 DEF WholeEvent, n
        <4> QED  BY <4>1, <4>2, <4>7, <4>8 DEF q
      <3>6. CASE /\ Len(p.kstack) < Len(ks) /\ ls[k + 1] = ks[Len(p.kstack) + 1]
                 /\ i = B /\ p.ustack = <<>> /\ ~p.inUStack
        <4> DEFINE l == ks[Len(p.kstack) + 1]
                   q == FrameNext(p, l)
        <4>1. Len(p.kstack) + 1 \in 1..Len(ks) /\ l \in LineSet /\ Head(w) = l
          BY <2>4, <2>5, <3>2, <3>6
        <4>2. Head(w).type = "frame"  BY <2>6, <4>1
        <4>3. Pre(Append(p.kstack, l), ks)  BY <2>2, <2>4, <2>5, <3>6, PreAppend
        <4> HIDE DEF l
        <4>4. /\ q \in PendingSet /\ q.body = p.body /\ ~q.inUStack
              /\ q.kstack = Append(p.kstack, l) /\ q.ustack = p.ustack
          BY <3>6, <4>1, FrameNextIs
        <4> HIDE DEF q
        <4>5. Position(q) = k + 1
          <5>1. Len(q.kstack) = Len(p.kstack) + 1 /\ Len(p.kstack) \in Nat
                /\ Len(p.ustack) \in Nat
            BY <2>5, <4>1, <4>4
          <5> QED  BY SMTT(30), <2>6, <2>8, <3>6, <4>4, <5>1 DEF Position, i
        <4>6. Partial(o, sh, q)
          BY <2>2, <3>6, <4>3, <4>4 DEF Partial, ks, us, B, n, i
        <4>7. After1(o, sh, q, Tail(w))  BY <1>4, <3>4, <4>4, <4>5, <4>6 DEF n
        <4> QED  BY <4>1, <4>2, <4>7 DEF q
      <3>7. CASE /\ ls[k + 1] = Marker /\ ~p.inUStack /\ Len(p.kstack) = Len(ks)
                 /\ i = B /\ p.ustack = <<>> /\ o.withStack /\ o.withUstack
        <4> DEFINE q == MarkerNext(p)
        <4>1. Head(w).type = "marker"  BY <3>2, <3>7 DEF Marker
        <4>2. /\ q \in PendingSet /\ q.body = p.body /\ q.inUStack = TRUE
              /\ q.kstack = p.kstack /\ q.ustack = p.ustack
          BY MarkerNextIs
        <4> HIDE DEF q
        <4>3. p.kstack = ks  BY <2>2, <2>4, <2>5, <3>7, PreWhole
        <4>4. Position(q) = k + 1
          <5>1. Len(p.kstack) \in Nat /\ Len(p.ustack) \in Nat  BY <2>5
          <5> QED  BY <2>6, <2>8, <3>7, <4>2, <5>1 DEF Position, i
        <4>5. Partial(o, sh, q)
          BY <2>2, <3>7, <4>2, <4>3 DEF Partial, ks, us, B, n, i
        <4>6. After1(o, sh, q, Tail(w))  BY <1>4, <3>4, <4>2, <4>4, <4>5 DEF n
        <4> QED  BY <4>1, <4>6 DEF q
      <3>8. CASE /\ Len(p.ustack) < Len(us) /\ ls[k + 1] = us[Len(p.ustack) + 1]
                 /\ i = B /\ p.inUStack
        <4> DEFINE l == us[Len(p.ustack) + 1]
                   q == FrameNext(p, l)
        <4>1. Len(p.ustack) + 1 \in 1..Len(us) /\ l \in LineSet /\ Head(w) = l
          BY <2>4, <2>5, <3>2, <3>8
        <4>2. Head(w).type = "frame"  BY <2>6, <4>1
        <4>3. Pre(Append(p.ustack, l), us)  BY <2>2, <2>4, <2>5, <3>8, PreAppend
        <4> HIDE DEF l
        <4>4. /\ q \in PendingSet /\ q.body = p.body /\ q.inUStack = p.inUStack
              /\ q.ustack = Append(p.ustack, l) /\ q.kstack = p.kstack
          BY <3>8, <4>1, FrameNextIs
        <4> HIDE DEF q
        <4>5. Position(q) = k + 1
          <5>1. Len(q.ustack) = Len(p.ustack) + 1 /\ Len(p.kstack) \in Nat
                /\ Len(p.ustack) \in Nat
            BY <2>5, <4>1, <4>4
          <5>2. k = i + Len(p.kstack) + 1 + Len(p.ustack)  BY <2>8, <3>8
          <5>3. Position(q) = i + Len(p.kstack) + 1 + (Len(p.ustack) + 1)
            BY <3>8, <4>4, <5>1 DEF Position, i
          <5> DEFINE a == Len(p.kstack)
                     c == Len(p.ustack)
          <5>4. a \in Nat /\ c \in Nat /\ i \in Nat  BY <2>6, <5>1
          <5> HIDE DEF a, c
          <5>5. i + a + 1 + (c + 1) = (i + a + 1 + c) + 1  BY <5>4
          <5> QED  BY <5>2, <5>3, <5>5 DEF a, c
        <4>6. Partial(o, sh, q)
          BY <2>2, <3>8, <4>3, <4>4 DEF Partial, ks, us, B, n, i
        <4>7. After1(o, sh, q, Tail(w))  BY <1>4, <3>4, <4>4, <4>5, <4>6 DEF n
        <4> QED  BY <4>1, <4>2, <4>7 DEF q
      <3> QED  BY <2>3, <2>13, <3>5, <3>6, <3>7, <3>8
    <2>14. k < Len(ls) \/ k = Len(ls)  BY <2>3
    <2> QED  BY <2>12, <2>13, <2>14
  <1> QED  BY <1>3, <1>4

-----------------------------------------------------------------------------
(* A clause that fires later changes nothing of what is being delivered.   *)
LEMMA Grows ==
    ASSUME NEW o \in Options, NEW sh \in Seq(Shapes), NEW sh1 \in Seq(Shapes),
           DOMAIN sh \subseteq DOMAIN sh1, \A n \in DOMAIN sh : sh1[n] = sh[n]
    PROVE  /\ \A p : p \in PendingSet /\ PendingOK(o, sh, p) => PendingOK(o, sh1, p)
           /\ \A p : PendingOK(o, sh, p) => Rest(o, sh1, p) = Rest(o, sh, p)
           /\ \A p, w : PendingOK(o, sh, p) /\ Ahead(o, sh, p, w) => Ahead(o, sh1, p, w)
           /\ \A e : WholeEvent(o, sh, e) => WholeEvent(o, sh1, e)
           /\ \A e : CutEvent(o, sh, e) => CutEvent(o, sh1, e)
  <1>1. \A n \in DOMAIN sh : /\ KernelPart(o, sh1, n) = KernelPart(o, sh, n)
                             /\ UserPart(o, sh1, n) = UserPart(o, sh, n)
                             /\ LinesOf(o, sh1, n) = LinesOf(o, sh, n)
    BY DEF KernelPart, UserPart, LinesOf
  <1>2. \A ns \in Seq(DOMAIN sh) :
           ns \in Seq(DOMAIN sh1) /\ Stream(o, sh1, ns) = Stream(o, sh, ns)
    <2> TAKE ns \in Seq(DOMAIN sh)
    <2>1. \A j \in DOMAIN ns : ns[j] \in DOMAIN sh  OBVIOUS
    <2>2. [j \in DOMAIN ns |-> LinesOf(o, sh1, ns[j])] = [j \in DOMAIN ns |-> LinesOf(o, sh, ns[j])]
      BY <1>1, <2>1
    <2>3. ns \in Seq(DOMAIN sh1)  BY <2>1
    <2> QED  BY <2>2, <2>3 DEF Stream
  <1>3. \A p : PendingOK(o, sh, p) => PendingOK(o, sh1, p)
    <2> SUFFICES ASSUME NEW p, PendingOK(o, sh, p) PROVE PendingOK(o, sh1, p)  OBVIOUS
    <2>1. CASE p.body = NoBody  BY <2>1 DEF PendingOK
    <2>2. CASE p.body # NoBody
      <3>1. Partial(o, sh, p)  BY <2>2 DEF PendingOK
      <3>2. p.body[1] \in DOMAIN sh  BY <3>1 DEF Partial
      <3>3. Partial(o, sh1, p)  BY <1>1, <3>1, <3>2 DEF Partial
      <3> QED  BY <2>2, <3>3 DEF PendingOK
    <2> QED  BY <2>1, <2>2
  <1>4. \A p : PendingOK(o, sh, p) => Rest(o, sh1, p) = Rest(o, sh, p)
    <2> SUFFICES ASSUME NEW p, PendingOK(o, sh, p) PROVE Rest(o, sh1, p) = Rest(o, sh, p)
      OBVIOUS
    <2>1. CASE p.body = NoBody  BY <2>1 DEF Rest
    <2>2. CASE p.body # NoBody
      <3>1. p.body[1] \in DOMAIN sh  BY <2>2 DEF PendingOK, Partial
      <3> QED  BY <1>1, <2>2, <3>1 DEF Rest
    <2> QED  BY <2>1, <2>2
  <1>5. \A p, w : PendingOK(o, sh, p) /\ Ahead(o, sh, p, w) => Ahead(o, sh1, p, w)
    BY <1>2, <1>4 DEF Ahead
  <1>6. \A b : b[1] \in DOMAIN sh => Wanted(o, sh1, b) = Wanted(o, sh, b)
    BY <1>1 DEF Wanted
  <1>7. \A e : WholeEvent(o, sh, e) => WholeEvent(o, sh1, e)  BY <1>6 DEF WholeEvent
  <1>8. \A e : CutEvent(o, sh, e) => CutEvent(o, sh1, e)  BY <1>6 DEF CutEvent
  <1> QED  BY <1>3, <1>4, <1>5, <1>7, <1>8

LEMMA StackSteps ==
    ASSUME [Next]_vars
    PROVE  \/ \E shape \in Shapes : ProbeFires(shape)
           \/ Poll \/ HandleLine \/ FlushLast \/ PollFails \/ PollReturns \/ StopLoop
           \/ /\ UNCHANGED <<option, shapes, work, pending, events>>
              /\ pc' \in {"setup", "go"} \cup InLoop => pc \in {"setup", "go"} \cup InLoop
              /\ pc' = "last" => pc = "last"
  <1> USE DEF kernel, handler, output, InLoop
  <1>1. CASE Setup \/ SetupThrows \/ Go \/ GoThrows
    BY <1>1 DEF Setup, SetupThrows, Go, GoThrows
  <1>2. CASE AggregateFails \/ SurfaceError \/ Flush \/ Shutdown
    BY <1>2 DEF AggregateFails, SurfaceError, Flush, Shutdown
  <1>3. CASE AggregateWalk
    <2>1. pc' = "emit" /\ UNCHANGED <<option, kernel, handler>>
      BY <1>3 DEF AggregateWalk
    <2> QED  BY <2>1
  <1>4. CASE EmitSnapshot  BY <1>4 DEF EmitSnapshot
  <1>5. CASE ExitFires \/ Signal  BY <1>5 DEF ExitFires, Signal
  <1>6. CASE UNCHANGED vars  BY <1>6 DEF vars
  <1>7. CASE PollText
    <2>1. pc = "loop" /\ pc' \in {"loop", "flush"} /\ UNCHANGED <<option, shapes, handler>>
      BY <1>7 DEF PollText
    <2> QED  BY <2>1
  <1> QED  BY <1>1, <1>2, <1>3, <1>4, <1>5, <1>6, <1>7 DEF Next, Runner, Finished

(* render puts a marker before every user stack, and every clause prints.  *)
Marked == \A o \in Options : o.backend = "structured" /\ o.withUstack => o.withStack
Prints == \A shape \in Shapes : shape.bodies > 0

LEMMA StacksInit == Init => StacksInv
  <1> SUFFICES ASSUME Init PROVE StacksInv  OBVIOUS
  <1>1. /\ pc = "setup" /\ pending = Nothing /\ work = <<>> /\ events = <<>>
        /\ shapes = <<>>
    BY DEF Init
  <1>2. pending.body = NoBody  BY <1>1, NothingTypes
  <1>3. PendingOK(option, shapes, pending)  BY <1>1, <1>2 DEF PendingOK
  <1>4. Rest(option, shapes, pending) = <<>>  BY <1>2 DEF Rest
  <1>5. Ahead(option, shapes, pending, work)
    <2>1. <<>> \in Seq(DOMAIN shapes) /\ <<>> \o <<>> = <<>>  OBVIOUS
    <2> QED  BY <1>1, <1>4, <2>1, StreamNothing DEF Ahead
  <1>6. DOMAIN events = {}  BY <1>1
  <1> QED  BY <1>3, <1>4, <1>5, <1>6 DEF StacksInv

LEMMA MarkedOption ==
    ASSUME Marked, ControlInv, PhaseInv, pending.body # NoBody \/ pc \in {"deliver", "drain"}
    PROVE  option.withUstack => option.withStack
  BY WatchAssumption DEF Marked, ControlInv, PhaseInv

LEMMA RestTypes ==
    ASSUME Marked, ControlInv, KernelInv, HandlerInv, PhaseInv, StacksInv
    PROVE  Rest(option, shapes, pending) \in Seq(LineSet)
  <1>1. CASE pending.body = NoBody
    <2>1. Rest(option, shapes, pending) = <<>>  BY <1>1 DEF Rest
    <2>2. <<>> \in Seq(LineSet)  OBVIOUS
    <2> QED  BY <2>1, <2>2
  <1>2. CASE pending.body # NoBody
    <2> DEFINE ls == LinesOf(option, shapes, pending.body[1])
               k == Position(pending)
    <2>1. Partial(option, shapes, pending)  BY <1>2 DEF StacksInv, PendingOK
    <2>2. option.withUstack => option.withStack  BY <1>2, MarkedOption
    <2>3. ls \in Seq(LineSet) /\ k \in 0..Len(ls)
      BY <2>1, <2>2, NextLine DEF ControlInv, KernelInv, HandlerInv
    <2>4. Rest(option, shapes, pending) = Drop(ls, k)  BY <1>2 DEF Rest
    <2> HIDE DEF ls, k
    <2> QED  BY <2>3, <2>4, DropTypes
  <1> QED  BY <1>1, <1>2

(* When all lines have been delivered, the accumulator is complete.        *)
LEMMA NothingAhead ==
    ASSUME Marked, ControlInv, KernelInv, HandlerInv, PhaseInv, StacksInv,
           pc \in InLoop, work = <<>>
    PROVE  Rest(option, shapes, pending) = <<>>
  <1>1. PICK ns \in Seq(DOMAIN shapes) :
           work = Rest(option, shapes, pending) \o Stream(option, shapes, ns)
    BY DEF StacksInv, Ahead
  <1> DEFINE r == Rest(option, shapes, pending)
             s == Stream(option, shapes, ns)
  <1>2. s \in Seq(LineSet)  BY StreamTypes DEF ControlInv, KernelInv
  <1>3. r \in Seq(LineSet)  BY RestTypes
  <1>4. r \o s = <<>>  BY <1>1
  <1> HIDE DEF r, s
  <1>5. Len(r) + Len(s) = 0
    <2>1. Len(r \o s) = Len(r) + Len(s)  BY <1>2, <1>3
    <2>2. Len(<<>>) = 0  OBVIOUS
    <2> QED  BY <1>4, <2>1, <2>2
  <1>6. Len(r) = 0  BY <1>2, <1>3, <1>5
  <1>7. r = <<>>  BY <1>3, <1>6, EmptySeq
  <1> QED  BY <1>7 DEF r

(* The event that flushPending gives, and the accumulator it leaves.       *)
LEMMA FlushGives ==
    ASSUME HandlerInv, StacksInv, GiveEvent
    PROVE  /\ Flushed = Nothing
           /\ pending.body = NoBody => events' = events
           /\ pending.body # NoBody => events' = Append(events, EventOf(pending))
  BY DEF Flushed, GiveEvent, EventOf, StacksInv, PendingOK

LEMMA EventsAppend ==
    ASSUME NEW evs \in Seq(EventSet), NEW e, NEW evs1, evs1 = Append(evs, e)
    PROVE  /\ DOMAIN evs1 = DOMAIN evs \cup {Len(evs) + 1} /\ Len(evs1) = Len(evs) + 1
           /\ \A i \in DOMAIN evs : evs1[i] = evs[i]
           /\ evs1[Len(evs) + 1] = e
  OBVIOUS

LEMMA NothingOK == \A o, sh : PendingOK(o, sh, Nothing) /\ Rest(o, sh, Nothing) = <<>>
  BY NothingTypes DEF PendingOK, Rest

AllWhole == \A e \in DOMAIN events : WholeEvent(option, shapes, events[e])

LEMMA HandleLineStacks ==
    ASSUME Marked, Prints, ControlInv, KernelInv, HandlerInv, PhaseInv, StacksInv,
           HandleLine
    PROVE  StacksInv'
  <1> DEFINE o == option
             sh == shapes
             line == Head(work)
  <1>1. /\ pc \in {"deliver", "drain"} /\ work # <<>>
        /\ option' = option /\ shapes' = shapes
    BY DEF HandleLine, kernel
  <1>2. o \in Options /\ sh \in Seq(Shapes) /\ work \in Seq(LineSet) /\ pending \in PendingSet
        /\ events \in Seq(EventSet)
    BY DEF ControlInv, KernelInv, HandlerInv
  <1>3. o.withUstack => o.withStack  BY <1>1, MarkedOption
  <1>4. \A n \in DOMAIN sh : sh[n].bodies > 0  BY <1>2 DEF Prints
  <1>5. PendingOK(o, sh, pending) /\ Ahead(o, sh, pending, work)
    BY <1>1 DEF StacksInv, InLoop
  <1>6. AllWhole  BY <1>1 DEF StacksInv, InLoop, AllWhole
  <1>7. \/ /\ line.type = "body" /\ line.body \in Tag
           /\ pending.body # NoBody => WholeEvent(o, sh, EventOf(pending))
           /\ After1(o, sh, BodyNext(line.body), Tail(work))
        \/ /\ line.type = "frame" /\ After1(o, sh, FrameNext(pending, line), Tail(work))
        \/ /\ line.type = "marker" /\ After1(o, sh, MarkerNext(pending), Tail(work))
    BY <1>1, <1>2, <1>3, <1>4, <1>5, AheadLine
  <1> HIDE DEF line
  <1>8. After1(o, sh, pending', Tail(work)) /\ AllWhole'
    <2>1. CASE line.type = "body" /\ BodyLine(line)
      <3>1. GiveEvent /\ pending' = [Flushed EXCEPT !.body = line.body]
        BY <2>1 DEF BodyLine
      <3>2. /\ Flushed = Nothing
            /\ pending.body = NoBody => events' = events
            /\ pending.body # NoBody => events' = Append(events, EventOf(pending))
        BY <3>1, FlushGives
      <3>3. pending' = BodyNext(line.body)  BY <3>1, <3>2 DEF BodyNext
      <3>4. /\ pending.body # NoBody => WholeEvent(o, sh, EventOf(pending))
            /\ After1(o, sh, BodyNext(line.body), Tail(work))
        BY <1>7, <2>1
      <3>5. CASE pending.body = NoBody
        BY <1>1, <1>6, <3>2, <3>3, <3>4, <3>5 DEF AllWhole
      <3>6. CASE pending.body # NoBody
        <4> DEFINE e == EventOf(pending)
        <4>1. events' = Append(events, e) /\ WholeEvent(o, sh, e)  BY <3>2, <3>4, <3>6
        <4> HIDE DEF e
        <4>2. /\ DOMAIN events' = DOMAIN events \cup {Len(events) + 1}
              /\ \A i \in DOMAIN events : events'[i] = events[i]
              /\ events'[Len(events) + 1] = e
          BY <1>2, <4>1, EventsAppend
        <4>3. AllWhole'  BY <1>1, <1>6, <4>1, <4>2 DEF AllWhole
        <4> QED  BY <3>3, <3>4, <4>3
      <3> QED  BY <3>5, <3>6
    <2>2. CASE line.type = "frame" /\ FrameLine(line)
      <3>1. pending' = FrameNext(pending, line) /\ events' = events
        BY <2>2 DEF FrameLine, FrameNext
      <3> QED  BY <1>1, <1>6, <1>7, <2>2, <3>1 DEF AllWhole
    <2>3. CASE line.type = "marker" /\ MarkerLine
      <3>1. pending' = MarkerNext(pending) /\ events' = events
        BY <2>3 DEF MarkerLine, MarkerNext
      <3> QED  BY <1>1, <1>6, <1>7, <2>3, <3>1 DEF AllWhole
    <2> QED  BY <2>1, <2>2, <2>3 DEF HandleLine, line
  <1>9. PendingOK(o, sh, pending')  BY <1>8 DEF After1
  <1>10. CASE pc' = pc /\ work' = Tail(work)
    <2>1. Ahead(o, sh, pending', work')  BY <1>8, <1>10 DEF After1
    <2> QED  BY <1>1, <1>8, <1>9, <1>10, <2>1 DEF StacksInv, AllWhole
  <1>11. CASE pc' = "last" /\ errorBox'
    <2>1. errorBox' => Faults
      BY WatchAssumption
         DEF HandleLine, BodyLine, FrameLine, MarkerLine, GiveEvent, PhaseInv
    <2>2. Faults  BY <1>11, <2>1
    <2> QED  BY <1>1, <1>8, <1>9, <1>11, <2>2 DEF StacksInv, AllWhole, InLoop
  <1> QED  BY <1>10, <1>11, LineEnds

LEMMA FlushLastStacks ==
    ASSUME Marked, ControlInv, KernelInv, HandlerInv, PhaseInv, StacksInv, FlushLast
    PROVE  StacksInv'
  <1>1. /\ pc = "last" /\ pc' = "aggregate" /\ option' = option /\ shapes' = shapes
        /\ GiveEvent /\ pending' = Flushed
    BY DEF FlushLast, kernel
  <1>2. /\ Flushed = Nothing
        /\ pending.body = NoBody => events' = events
        /\ pending.body # NoBody => events' = Append(events, EventOf(pending))
    BY <1>1, FlushGives
  <1>3. PendingOK(option, shapes, pending')  BY <1>1, <1>2, NothingOK
  <1>4. AllWhole  BY <1>1 DEF StacksInv, AllWhole
  <1>5. events \in Seq(EventSet) /\ pending \in PendingSet  BY DEF HandlerInv
  <1>6. CASE pending.body = NoBody
    BY <1>1, <1>2, <1>3, <1>4, <1>6 DEF StacksInv, AllWhole, InLoop
  <1>7. CASE pending.body # NoBody
    <2> DEFINE e == EventOf(pending)
    <2>1. Partial(option, shapes, pending)  BY <1>7 DEF StacksInv, PendingOK
    <2>2. option \in Options /\ shapes \in Seq(Shapes)  BY DEF ControlInv, KernelInv
    <2>3. CutEvent(option, shapes, e)  BY <1>5, <2>1, <2>2, CutIsPrefix
    <2>4. ~Faults => WholeEvent(option, shapes, e)
      <3> SUFFICES ASSUME ~Faults PROVE WholeEvent(option, shapes, e)  OBVIOUS
      <3> DEFINE ls == LinesOf(option, shapes, pending.body[1])
                 k == Position(pending)
      <3>1. Rest(option, shapes, pending) = <<>>  BY <1>1 DEF StacksInv
      <3>2. Drop(ls, k) = <<>>  BY <1>7, <3>1 DEF Rest
      <3>3. option.withUstack => option.withStack  BY <1>7, MarkedOption
      <3>4. ls \in Seq(LineSet) /\ k \in 0..Len(ls)
        BY <1>5, <2>1, <2>2, <3>3, NextLine
      <3>5. k = Len(ls)
        <4> HIDE DEF ls, k
        <4>1. Len(Drop(ls, k)) = Len(ls) - k  BY <3>4, DropTypes
        <4>2. Len(<<>>) = 0  OBVIOUS
        <4>3. Len(ls) - k = 0  BY <3>2, <4>1, <4>2
        <4> QED  BY <3>4, <4>3
      <3> QED  BY <1>5, <1>7, <2>1, <2>2, <3>3, <3>5, WholeAtEnd
    <2>5. events' = Append(events, e)  BY <1>2, <1>7
    <2> HIDE DEF e
    <2>6. /\ DOMAIN events' = DOMAIN events \cup {Len(events) + 1}
          /\ Len(events') = Len(events) + 1
          /\ \A i \in DOMAIN events : events'[i] = events[i]
          /\ events'[Len(events) + 1] = e
      BY <1>5, <2>5, EventsAppend
    <2>7. \A i \in DOMAIN events' :
             \/ WholeEvent(option, shapes, events'[i])
             \/ Faults /\ i = Len(events') /\ CutEvent(option, shapes, events'[i])
      BY <1>4, <2>3, <2>4, <2>6 DEF AllWhole
    <2> QED  BY <1>1, <1>3, <2>7 DEF StacksInv, InLoop
  <1> QED  BY <1>6, <1>7

LEMMA StacksNext ==
    ASSUME Marked, Prints, ControlInv, KernelInv, HandlerInv, PhaseInv, StacksInv,
           KernelInv', [Next]_vars
    PROVE  StacksInv'
  <1>0. option \in Options /\ shapes \in Seq(Shapes) /\ pending \in PendingSet
    BY DEF ControlInv, KernelInv, HandlerInv
  <1>1. ASSUME NEW shape \in Shapes, ProbeFires(shape) PROVE StacksInv'
    <2>1. /\ shapes' = Append(shapes, shape)
          /\ UNCHANGED <<option, pc, work, pending, events>>
      BY <1>1 DEF ProbeFires, handler
    <2>2. /\ shapes' \in Seq(Shapes) /\ DOMAIN shapes \subseteq DOMAIN shapes'
          /\ \A n \in DOMAIN shapes : shapes'[n] = shapes[n]
      BY <1>0, <2>1
    <2>3. /\ PendingOK(option, shapes', pending)
          /\ Rest(option, shapes', pending) = Rest(option, shapes, pending)
          /\ \A w : Ahead(option, shapes, pending, w) => Ahead(option, shapes', pending, w)
          /\ \A e : WholeEvent(option, shapes, e) => WholeEvent(option, shapes', e)
          /\ \A e : CutEvent(option, shapes, e) => CutEvent(option, shapes', e)
      <3>1. PendingOK(option, shapes, pending)  BY DEF StacksInv
      <3> QED  BY <1>0, <2>2, <3>1, Grows
    <2> QED  BY <2>1, <2>3 DEF StacksInv
  <1>2. CASE Poll
    <2>1. /\ pc = "loop" /\ pc' \in {"drain", "deliver"}
          /\ UNCHANGED <<option, shapes, pending, events>>
      BY <1>2 DEF Poll
    <2>2. work = <<>> /\ pc \in InLoop  BY <2>1 DEF PhaseInv, InLoop
    <2>3. Rest(option, shapes, pending) = <<>>  BY <2>2, NothingAhead
    <2>4. /\ work' = Stream(option, shapes, buffer) /\ work' \in Seq(LineSet)
          /\ buffer \in Seq(DOMAIN shapes)
      BY <1>2, PollLines
    <2>5. <<>> \o work' = work'  BY <2>4
    <2>6. Ahead(option, shapes, pending, work')  BY <2>3, <2>4, <2>5 DEF Ahead
    <2> QED  BY <2>1, <2>6 DEF StacksInv, InLoop
  <1>3. CASE HandleLine  BY <1>3, HandleLineStacks
  <1>4. CASE FlushLast  BY <1>4, FlushLastStacks
  <1>5. CASE PollFails
    <2>1. /\ Faults /\ pc \in InLoop /\ pc' = "last"
          /\ UNCHANGED <<option, shapes, pending, events>>
      BY <1>5 DEF PollFails, kernel, InLoop
    <2> QED  BY <2>1 DEF StacksInv, InLoop
  <1>6. CASE PollReturns
    <2>1. /\ pc \in {"deliver", "drain"} /\ work = <<>> /\ pc' \in {"loop", "last"}
          /\ UNCHANGED <<option, shapes, work, pending, events>>
      BY <1>6 DEF PollReturns, kernel
    <2>2. Rest(option, shapes, pending) = <<>>  BY <2>1, NothingAhead DEF InLoop
    <2> QED  BY <2>1, <2>2 DEF StacksInv, InLoop
  <1>7. CASE StopLoop
    <2>1. /\ pc = "loop" /\ pc' \in {"flush", "last"}
          /\ UNCHANGED <<option, shapes, work, pending, events>>
      BY <1>7 DEF StopLoop, kernel, handler
    <2>2. work = <<>> /\ pc \in InLoop  BY <2>1 DEF PhaseInv, InLoop
    <2>3. Rest(option, shapes, pending) = <<>>  BY <2>2, NothingAhead
    <2> QED  BY <2>1, <2>3 DEF StacksInv, InLoop
  <1>8. CASE /\ UNCHANGED <<option, shapes, work, pending, events>>
             /\ pc' \in {"setup", "go"} \cup InLoop => pc \in {"setup", "go"} \cup InLoop
             /\ pc' = "last" => pc = "last"
    BY <1>8 DEF StacksInv, InLoop
  <1> QED  BY <1>1, <1>2, <1>3, <1>4, <1>5, <1>6, <1>7, <1>8, StackSteps

(* Where render puts a marker before every user stack and every clause     *)
(* prints, the frames captured for a printf line are those of its own      *)
(* firing, in the right stack and in order, also after the exporter or     *)
(* libdtrace failed: only the last event may then lack some.               *)
THEOREM StacksAreWhole ==
    ASSUME Marked, Prints
    PROVE  Spec => []WholeStacks
  <1>1. Init => StacksInv  BY StacksInit
  <1>2. Inv /\ Inv' /\ StacksInv /\ [Next]_vars => StacksInv'  BY StacksNext DEF Inv
  <1>3. Inv /\ StacksInv => WholeStacks
    <2> SUFFICES ASSUME Inv, StacksInv, NEW e \in DOMAIN events
                 PROVE  LET n == events[e].body[1]
                            last == events[e].body[2] = shapes[n].bodies
                            k == IF last THEN StackAction(n, shapes[n]) ELSE <<>>
                            u == IF last /\ option.withUstack
                                 THEN UserFrames(n, shapes[n]) ELSE <<>>
                        IN  \/ events[e].stack = k /\ events[e].ustack = u
                            \/ /\ Faults /\ e = Len(events)
                               /\ pc \notin {"loop", "deliver", "drain"}
                               /\ IsPrefix(events[e].stack, k)
                               /\ IsPrefix(events[e].ustack, u)
      BY DEF WholeStacks
    <2> DEFINE b == events[e].body
               n == b[1]
               last == b[2] = shapes[n].bodies
               k == IF last THEN StackAction(n, shapes[n]) ELSE <<>>
               u == IF last /\ option.withUstack THEN UserFrames(n, shapes[n]) ELSE <<>>
    <2>1. Wanted(option, shapes, b).stack = k /\ Wanted(option, shapes, b).ustack = u
      BY DEF Wanted, KernelPart, UserPart, StackAction
    <2>2. CASE WholeEvent(option, shapes, events[e])
      BY <2>1, <2>2 DEF WholeEvent
    <2>3. CASE /\ Faults /\ e = Len(events)
               /\ pc \notin {"setup", "go", "last"} \cup InLoop
               /\ CutEvent(option, shapes, events[e])
      <3> DEFINE ks == events[e].stack
                 us == events[e].ustack
      <3>1. Pre(ks, k) /\ Pre(us, u) /\ n \in DOMAIN shapes  BY <2>1, <2>3 DEF CutEvent
      <3>2. ks \in Seq(LineSet) /\ us \in Seq(LineSet)
        <4>1. events \in Seq(EventSet)  BY DEF Inv, HandlerInv
        <4>2. events[e] \in EventSet  BY <4>1
        <4> QED  BY <4>2 DEF EventSet
      <3>3. k \in Seq(LineSet) /\ u \in Seq(LineSet)
        <4>1. /\ KernelPart(option, shapes, n) \in Seq(LineSet)
              /\ UserPart(option, shapes, n) \in Seq(LineSet) /\ <<>> \in Seq(LineSet)
          BY <3>1, PartTypes DEF Inv, ControlInv, KernelInv
        <4> QED  BY <4>1 DEF KernelPart, UserPart, StackAction
      <3>4. \A s, t \in Seq(LineSet) : Pre(s, t) => IsPrefix(s, t)
        <4> SUFFICES ASSUME NEW s \in Seq(LineSet), NEW t \in Seq(LineSet), Pre(s, t)
                     PROVE  Len(s) <= Len(t) /\ SubSeq(s, 1, Len(s)) = SubSeq(t, 1, Len(s))
          BY DEF IsPrefix
        <4> QED  BY DEF Pre
      <3> HIDE DEF k, u, ks, us
      <3>5. IsPrefix(ks, k) /\ IsPrefix(us, u)  BY <3>1, <3>2, <3>3, <3>4
      <3> QED  BY <2>3, <3>5 DEF InLoop, k, u, ks, us
    <2> QED  BY <2>2, <2>3 DEF StacksInv
  <1>4. Spec => []StacksInv
    <2>1. Inv /\ Inv' /\ StacksInv /\ [Next]_vars => StacksInv'  BY <1>2
    <2> QED  BY <1>1, <2>1, InvHolds, PTL DEF Spec
  <1> QED  BY <1>3, <1>4, InvHolds, PTL

-----------------------------------------------------------------------------
(* The snapshots of the aggregations.                                      *)

Indices(walk) == [i \in DOMAIN walk |-> i]

(* The function by which the fold over the walked records is defined.      *)
IsWalk(it, walk) ==
    it = [s \in SUBSET (DOMAIN Indices(walk)) |->
            IF s = {} THEN <<>>
            ELSE AddRecord(it[s \ {Max(s)}], walk[Indices(walk)[Max(s)]],
                           Indices(walk)[Max(s)])]

GroupsOf(walk) == (CHOOSE it : IsWalk(it, walk))[DOMAIN Indices(walk)]

LEMMA WalkFolds ==
    ASSUME AggregateWalk
    PROVE  \E walk \in SeqOf(Keys, MaxRecords) :
              records' = walk /\ groups' = GroupsOf(walk)
  BY DEF AggregateWalk, FoldLeftDomain, FoldLeft, MapThenFoldSet, IsWalk, GroupsOf, Indices

(* Snapshots by key.                                                       *)
SnapsSet == UNION {[K -> Seq(Nat)] : K \in SUBSET Keys}

LEMMA AddRecordIs ==
    ASSUME NEW snaps \in SnapsSet, NEW key \in Keys, NEW i \in Nat
    PROVE  LET r == AddRecord(snaps, key, i)
           IN  /\ r \in SnapsSet /\ DOMAIN r = DOMAIN snaps \cup {key}
               /\ \A k \in DOMAIN snaps : k # key => r[k] = snaps[k]
               /\ key \in DOMAIN snaps => r[key] = Append(snaps[key], i)
               /\ key \notin DOMAIN snaps => r[key] = <<i>>
  <1> DEFINE r == AddRecord(snaps, key, i)
             new == IF key \in DOMAIN snaps THEN Append(snaps[key], i) ELSE <<i>>
             D == DOMAIN snaps \cup {key}
  <1>1. /\ r = [k \in D |-> r[k]]
        /\ \A k \in D : r[k] = IF k = key THEN new ELSE snaps[k]
    BY DEF AddRecord
  <1>2. PICK K \in SUBSET Keys : snaps \in [K -> Seq(Nat)]  BY DEF SnapsSet
  <1>3. new \in Seq(Nat)
    <2>1. CASE key \in DOMAIN snaps
      <3>1. snaps[key] \in Seq(Nat)  BY <1>2, <2>1
      <3> QED  BY <2>1, <3>1
    <2>2. CASE key \notin DOMAIN snaps
      <3>1. <<i>> \in Seq(Nat)  OBVIOUS
      <3> QED  BY <2>2, <3>1
    <2> QED  BY <2>1, <2>2
  <1> HIDE DEF r, new
  <1>4. r \in [D -> Seq(Nat)] /\ D \in SUBSET Keys  BY <1>1, <1>2, <1>3
  <1>5. r \in SnapsSet  BY <1>4 DEF SnapsSet
  <1>6. /\ DOMAIN r = D /\ r[key] = new
        /\ \A k \in DOMAIN snaps : k # key => r[k] = snaps[k]
    BY <1>1
  <1> QED  BY <1>5, <1>6 DEF r, new

LEMMA WalkStep ==
    ASSUME NEW walk, NEW n \in Nat, DOMAIN walk = 1..n, NEW it, IsWalk(it, walk)
    PROVE  /\ it[1..0] = <<>>
           /\ \A k \in 0..(n - 1) :
                 it[1..(k + 1)] = AddRecord(it[1..k], walk[k + 1], k + 1)
  <1>1. 1..0 = {} /\ DOMAIN Indices(walk) = 1..n /\ \A i \in 1..n : Indices(walk)[i] = i
    BY DEF Indices
  <1>2. it[1..0] = <<>>  BY <1>1 DEF IsWalk
  <1>3. ASSUME NEW k \in 0..(n - 1)
        PROVE  it[1..(k + 1)] = AddRecord(it[1..k], walk[k + 1], k + 1)
    <2> DEFINE s == 1..(k + 1)
    <2>0. k \in Nat /\ k + 1 \in 1..n  OBVIOUS
    <2>1. s \in SUBSET (1..n) /\ s # {} /\ k \in Nat /\ k + 1 \in 1..n
      <3>1. \A i \in s : i \in 1..n  BY <2>0
      <3>2. k + 1 \in s  BY <2>0
      <3> QED  BY <2>0, <3>1, <3>2
    <2>2. Max(s) = k + 1 /\ s \ {k + 1} = 1..k  BY <2>1, MaxOfPrefix
    <2> HIDE DEF s
    <2>3. it[s] = AddRecord(it[s \ {Max(s)}], walk[Indices(walk)[Max(s)]], Indices(walk)[Max(s)])
      BY <1>1, <2>1 DEF IsWalk
    <2>4. Indices(walk)[Max(s)] = k + 1  BY <1>1, <2>1, <2>2
    <2> QED  BY <2>2, <2>3, <2>4 DEF s
  <1> QED  BY <1>2, <1>3

LEMMA NoSnaps == <<>> \in SnapsSet /\ DOMAIN <<>> = {}
  <1>1. <<>> \in [{} -> Seq(Nat)]  OBVIOUS
  <1>2. {} \in SUBSET Keys  OBVIOUS
  <1> QED  BY <1>1, <1>2 DEF SnapsSet

LEMMA WalkExists ==
    ASSUME NEW walk \in Seq(Keys)
    PROVE  IsWalk(CHOOSE it : IsWalk(it, walk), walk)
  <1> DEFINE n == Len(walk)
             V == SnapsSet
             G == [p \in V \X (1..n) |-> AddRecord(p[1], walk[p[2]], p[2])]
             I == Indices(walk)
  <1>1. n \in Nat /\ DOMAIN walk = 1..n /\ DOMAIN I = 1..n /\ \A i \in 1..n : I[i] = i
    BY DEF Indices
  <1>2. G \in [V \X (1..n) -> V]
    <2> SUFFICES ASSUME NEW p \in V \X (1..n)
                 PROVE  AddRecord(p[1], walk[p[2]], p[2]) \in V
      OBVIOUS
    <2>1. p[1] \in SnapsSet /\ walk[p[2]] \in Keys /\ p[2] \in Nat  OBVIOUS
    <2> QED  BY <2>1, AddRecordIs
  <1>3. <<>> \in V  BY NoSnaps
  <1>4. PICK it \in [SUBSET (1..n) -> V] : IsIter(it, n, <<>>, G)
    <2> HIDE DEF n, V, G
    <2> QED  BY <1>1, <1>2, <1>3, IterExists
  <1>5. \A s \in SUBSET (1..n) : s # {} => Max(s) \in 1..n
    BY <1>1, MaxOfIndices
  <1> HIDE DEF I
  <1>6. \A s \in SUBSET (1..n) :
           it[s] = IF s = {} THEN <<>>
                   ELSE AddRecord(it[s \ {Max(s)}], walk[I[Max(s)]], I[Max(s)])
    <2> TAKE s \in SUBSET (1..n)
    <2>1. it[s] = IF s = {} THEN <<>> ELSE G[<<it[s \ {Max(s)}], Max(s)>>]
      BY <1>4 DEF IsIter
    <2>2. CASE s = {}  BY <2>1, <2>2
    <2>3. CASE s # {}
      <3> DEFINE m == Max(s)
                 a == it[s \ {m}]
      <3>1. m \in 1..n /\ I[m] = m  BY <1>1, <1>5, <2>3
      <3>2. a \in V
        <4>1. s \ {m} \in SUBSET (1..n)  OBVIOUS
        <4> HIDE DEF m
        <4> QED  BY <1>4, <4>1
      <3>3. it[s] = G[<<a, m>>]  BY <2>1, <2>3
      <3> HIDE DEF m, a, V
      <3>4. <<a, m>> \in V \X (1..n)  BY <3>1, <3>2
      <3>5. G[<<a, m>>] = AddRecord(a, walk[m], m)  BY <3>4
      <3> QED  BY <2>3, <3>1, <3>3, <3>5 DEF a, m
    <2> QED  BY <2>2, <2>3
  <1>7. IsWalk(it, walk)  BY <1>1, <1>4, <1>6 DEF IsWalk, I
  <1> QED  BY <1>7

(* The points of the first k records of a key.                             *)
PointsTo(walk, k, key, points) ==
    /\ points \in Seq(Nat) /\ Increasing(points)
    /\ {points[i] : i \in DOMAIN points} = {i \in 1..k : walk[i] = key}

LEMMA PointsAppend ==
    ASSUME NEW walk, NEW k \in Nat, NEW key, NEW points, PointsTo(walk, k, key, points),
           walk[k + 1] = key
    PROVE  PointsTo(walk, k + 1, key, Append(points, k + 1))
  <1> DEFINE longer == Append(points, k + 1)
             n == Len(points)
  <1>1. points \in Seq(Nat) /\ n \in Nat /\ DOMAIN points = 1..n  BY DEF PointsTo
  <1>2. /\ longer \in Seq(Nat) /\ DOMAIN longer = 1..(n + 1) /\ longer[n + 1] = k + 1
        /\ \A i \in 1..n : longer[i] = points[i]
    BY <1>1
  <1> HIDE DEF longer, n
  <1>3. \A i \in 1..n : points[i] \in 1..k /\ walk[points[i]] = key  BY <1>1 DEF PointsTo
  <1>4. Increasing(longer)
    <2> SUFFICES ASSUME NEW i \in 1..(n + 1), NEW j \in 1..(n + 1), i < j
                 PROVE  longer[i] < longer[j]
      BY <1>2 DEF Increasing
    <2>1. i \in 1..n  BY <1>1
    <2>2. CASE j = n + 1  BY <1>2, <1>3, <2>1, <2>2
    <2>3. CASE j # n + 1
      <3>1. j \in 1..n  BY <1>1, <2>3
      <3> QED  BY <1>1, <1>2, <2>1, <3>1 DEF PointsTo, Increasing
    <2> QED  BY <2>2, <2>3
  <1>5. \A x : (\E i \in 1..(n + 1) : x = longer[i]) <=> (x \in 1..(k + 1) /\ walk[x] = key)
    <2>1. ASSUME NEW i \in 1..(n + 1)
          PROVE  longer[i] \in 1..(k + 1) /\ walk[longer[i]] = key
      <3>1. CASE i = n + 1  BY <1>2, <3>1
      <3>2. CASE i # n + 1
        <4>1. i \in 1..n  BY <1>1, <3>2
        <4>2. longer[i] \in 1..k /\ walk[longer[i]] = key  BY <1>2, <1>3, <4>1
        <4> QED  BY <4>2
      <3> QED  BY <3>1, <3>2
    <2>2. ASSUME NEW x \in 1..(k + 1), walk[x] = key
          PROVE  \E i \in 1..(n + 1) : x = longer[i]
      <3>1. CASE x = k + 1
        <4>1. n + 1 \in 1..(n + 1)  BY <1>1
        <4> QED  BY <1>2, <3>1, <4>1
      <3>2. CASE x # k + 1
        <4>1. x \in 1..k  BY <3>2
        <4>2. PICK i \in 1..n : x = points[i]  BY <1>1, <2>2, <4>1 DEF PointsTo
        <4>3. i \in 1..(n + 1)  BY <1>1
        <4> QED  BY <1>2, <4>2, <4>3
      <3> QED  BY <3>1, <3>2
    <2> QED  BY <2>1, <2>2
  <1>6. {longer[i] : i \in DOMAIN longer} = {x \in 1..(k + 1) : walk[x] = key}
    BY <1>2, <1>5
  <1> QED  BY <1>2, <1>4, <1>6 DEF PointsTo, longer

LEMMA PointsSkip ==
    ASSUME NEW walk, NEW k \in Nat, NEW key, NEW points, PointsTo(walk, k, key, points),
           walk[k + 1] # key
    PROVE  PointsTo(walk, k + 1, key, points)
  <1>1. {i \in 1..k : walk[i] = key} = {i \in 1..(k + 1) : walk[i] = key}
    <2>1. 1..(k + 1) = (1..k) \cup {k + 1}  OBVIOUS
    <2> QED  BY <2>1
  <1> QED  BY <1>1 DEF PointsTo

LEMMA PointsNew ==
    ASSUME NEW walk, NEW k \in Nat, NEW key, \A i \in 1..k : walk[i] # key,
           walk[k + 1] = key
    PROVE  PointsTo(walk, k + 1, key, <<k + 1>>)
  <1>1. <<>> \in Seq(Nat) /\ DOMAIN <<>> = {} /\ Append(<<>>, k + 1) = <<k + 1>>  OBVIOUS
  <1>2. PointsTo(walk, k, key, <<>>)  BY <1>1 DEF PointsTo, Increasing
  <1> QED  BY <1>1, <1>2, PointsAppend

(* The walk's snapshots partition the records, in order.                   *)
LEMMA GroupsPartition ==
    ASSUME NEW walk \in Seq(Keys)
    PROVE  /\ DOMAIN GroupsOf(walk) = {walk[i] : i \in DOMAIN walk}
           /\ \A key \in DOMAIN GroupsOf(walk) : PointsOf(walk, key, GroupsOf(walk)[key])
  <1> DEFINE n == Len(walk)
             it == CHOOSE r : IsWalk(r, walk)
             Good(k) == /\ it[1..k] \in SnapsSet
                        /\ DOMAIN it[1..k] = {walk[i] : i \in 1..k}
                        /\ \A key \in DOMAIN it[1..k] : PointsTo(walk, k, key, it[1..k][key])
             S == {k \in 0..n : Good(k)}
  <1>1. n \in Nat /\ DOMAIN walk = 1..n /\ \A i \in 1..n : walk[i] \in Keys  OBVIOUS
  <1>2. IsWalk(it, walk)  BY WalkExists
  <1>3. GroupsOf(walk) = it[1..n]  BY <1>1 DEF GroupsOf, Indices
  <1> HIDE DEF it, n
  <1>4. /\ it[1..0] = <<>>
        /\ \A k \in 0..(n - 1) : it[1..(k + 1)] = AddRecord(it[1..k], walk[k + 1], k + 1)
    BY <1>1, <1>2, WalkStep
  <1>5. Good(0)
    <2>1. {walk[i] : i \in 1..0} = {}  OBVIOUS
    <2> QED  BY <1>4, <2>1, NoSnaps
  <1>6. ASSUME NEW k \in 0..(n - 1), Good(k) PROVE Good(k + 1)
    <2> DEFINE old == it[1..k]
               new == it[1..(k + 1)]
               key == walk[k + 1]
    <2>1. k + 1 \in 1..n /\ k \in Nat /\ k + 1 \in Nat /\ 1..(k + 1) = (1..k) \cup {k + 1}
      BY <1>1
    <2>2. key \in Keys  BY <1>1, <2>1
    <2>3. new = AddRecord(old, key, k + 1)  BY <1>4
    <2>4. /\ old \in SnapsSet /\ DOMAIN old = {walk[i] : i \in 1..k}
          /\ \A x \in DOMAIN old : PointsTo(walk, k, x, old[x])
      BY <1>6
    <2> HIDE DEF old, new
    <2>5. /\ new \in SnapsSet /\ DOMAIN new = DOMAIN old \cup {key}
          /\ \A x \in DOMAIN old : x # key => new[x] = old[x]
          /\ key \in DOMAIN old => new[key] = Append(old[key], k + 1)
          /\ key \notin DOMAIN old => new[key] = <<k + 1>>
      <3> HIDE DEF key
      <3> QED  BY <2>1, <2>2, <2>3, <2>4, AddRecordIs
    <2>6. DOMAIN new = {walk[i] : i \in 1..(k + 1)}  BY <2>1, <2>4, <2>5
    <2>7. ASSUME NEW x \in DOMAIN new PROVE PointsTo(walk, k + 1, x, new[x])
      <3>1. CASE x # key
        <4>1. x \in DOMAIN old /\ new[x] = old[x]  BY <2>5, <3>1
        <4> QED  BY <2>1, <2>4, <3>1, <4>1, PointsSkip
      <3>2. CASE x = key /\ key \in DOMAIN old
        <4>1. PointsTo(walk, k, key, old[key])  BY <2>4, <3>2
        <4>2. PointsTo(walk, k + 1, key, Append(old[key], k + 1))
          BY <2>1, <4>1, PointsAppend
        <4> QED  BY <2>5, <3>2, <4>2
      <3>3. CASE x = key /\ key \notin DOMAIN old
        <4>1. \A i \in 1..k : walk[i] # key  BY <2>4, <3>3
        <4>2. PointsTo(walk, k + 1, key, <<k + 1>>)  BY <2>1, <4>1, PointsNew
        <4> QED  BY <2>5, <3>3, <4>2
      <3> QED  BY <3>1, <3>2, <3>3
    <2> QED  BY <2>5, <2>6, <2>7 DEF new
  <1> HIDE DEF Good
  <1>7. 0 \in S /\ \A k \in 0..(n - 1) : k \in S => k + 1 \in S  BY <1>1, <1>5, <1>6
  <1>8. 0..n \subseteq S
    <2> HIDE DEF S
    <2> QED  BY <1>1, <1>7, InductionTo
  <1>9. Good(n)  BY <1>1, <1>8
  <1> QED  BY <1>1, <1>3, <1>9 DEF Good, PointsTo, PointsOf

LEMMA WalksAreSequences ==
    ASSUME NEW walk \in SeqOf(Keys, MaxRecords)
    PROVE  walk \in Seq(Keys)
  <1>1. PICK m \in 0..MaxRecords : walk \in [1..m -> Keys]  BY DEF SeqOf
  <1>2. m \in Nat  BY <1>1, WatchAssumption
  <1> QED  BY <1>1, <1>2

LEMMA SnapshotsInit == Init => SnapshotsInv
  <1> SUFFICES ASSUME Init PROVE SnapshotsInv
    OBVIOUS
  <1>1. groups = <<>> /\ records = <<>> /\ snapshots = <<>> /\ pc = "setup"  BY DEF Init
  <1>2. DOMAIN groups = {} /\ DOMAIN records = {} /\ DOMAIN snapshots = {}  BY <1>1
  <1>3. records \in Seq(Keys) /\ snapshots \in Seq([key : Keys, points : Seq(Nat)])
    BY <1>1
  <1> QED  BY <1>1, <1>2, <1>3 DEF SnapshotsInv

LEMMA SnapshotsWalk ==
    ASSUME SnapshotsInv, AggregateWalk
    PROVE  SnapshotsInv'
  <1>1. pc = "aggregate" /\ pc' = "emit" /\ snapshots' = snapshots  BY DEF AggregateWalk
  <1>2. snapshots = <<>>  BY <1>1 DEF SnapshotsInv
  <1>3. PICK walk \in SeqOf(Keys, MaxRecords) : records' = walk /\ groups' = GroupsOf(walk)
    BY WalkFolds
  <1>4. walk \in Seq(Keys)  BY <1>3, WalksAreSequences
  <1>5. /\ DOMAIN groups' = {walk[i] : i \in DOMAIN walk}
        /\ \A key \in DOMAIN groups' : PointsOf(walk, key, groups'[key])
    BY <1>3, <1>4, GroupsPartition
  <1>6. records' \in Seq(Keys)  BY <1>3, <1>4
  <1>7. DOMAIN groups' \subseteq Keys /\ \A i \in DOMAIN records' : records'[i] \in DOMAIN groups'
    BY <1>3, <1>4, <1>5
  <1>8. DOMAIN snapshots' = {} /\ snapshots' \in Seq([key : Keys, points : Seq(Nat)])
    BY <1>1, <1>2
  <1> QED  BY <1>1, <1>3, <1>5, <1>6, <1>7, <1>8 DEF SnapshotsInv

LEMMA SnapshotsEmit ==
    ASSUME SnapshotsInv, EmitSnapshot
    PROVE  SnapshotsInv'
  <1> DEFINE Snap == [key : Keys, points : Seq(Nat)]
             n == Len(snapshots)
  <1>1. pc = "emit" /\ pc' = "emit" /\ records' = records  BY DEF EmitSnapshot
  <1>2. PICK key \in DOMAIN groups :
           /\ snapshots' = Append(snapshots, [key |-> key, points |-> groups[key]])
           /\ groups' = [k \in DOMAIN groups \ {key} |-> groups[k]]
    BY DEF EmitSnapshot
  <1> DEFINE new == [key |-> key, points |-> groups[key]]
  <1>3. /\ key \in Keys /\ PointsOf(records, key, groups[key]) /\ groups[key] \in Seq(Nat)
        /\ snapshots \in Seq(Snap)
    BY DEF SnapshotsInv, PointsOf
  <1>4. new \in Snap /\ new.key = key /\ new.points = groups[key]  BY <1>3
  <1> HIDE DEF new, Snap
  <1>5. /\ n \in Nat /\ DOMAIN snapshots = 1..n /\ snapshots' \in Seq(Snap)
        /\ DOMAIN snapshots' = 1..(n + 1) /\ snapshots'[n + 1] = new
        /\ \A s \in 1..n : snapshots'[s] = snapshots[s]
    BY <1>2, <1>3, <1>4 DEF new
  <1> HIDE DEF n
  <1>6. /\ DOMAIN groups' = DOMAIN groups \ {key}
        /\ \A k \in DOMAIN groups' : groups'[k] = groups[k]
    BY <1>2
  <1>7. \A s \in 1..n : snapshots[s].key # key  BY <1>5 DEF SnapshotsInv
  <1>8. \A s \in 1..(n + 1) : s = n + 1 \/ s \in 1..n  BY <1>5
  <1>9. n + 1 \in 1..(n + 1) /\ \A s \in 1..n : s \in 1..(n + 1)  BY <1>5
  <1>10. ASSUME NEW s \in DOMAIN snapshots'
         PROVE  /\ PointsOf(records, snapshots'[s].key, snapshots'[s].points)
                /\ snapshots'[s].key \notin DOMAIN groups'
                /\ \A t \in DOMAIN snapshots' : snapshots'[t].key = snapshots'[s].key => t = s
    <2>1. CASE s = n + 1
      BY <1>3, <1>4, <1>5, <1>6, <1>7, <1>8, <2>1
    <2>2. CASE s \in 1..n
      <3>1. snapshots'[s] = snapshots[s]  BY <1>5, <2>2
      <3>2. /\ PointsOf(records, snapshots[s].key, snapshots[s].points)
            /\ snapshots[s].key \notin DOMAIN groups
            /\ \A t \in 1..n : snapshots[t].key = snapshots[s].key => t = s
        BY <1>5, <2>2 DEF SnapshotsInv
      <3> QED  BY <1>4, <1>5, <1>6, <1>7, <1>8, <2>2, <3>1, <3>2
    <2> QED  BY <1>5, <1>8, <2>1, <2>2
  <1>11. ASSUME NEW i \in DOMAIN records
         PROVE  \/ records[i] \in DOMAIN groups'
                \/ \E s \in DOMAIN snapshots' : snapshots'[s].key = records[i]
    <2>1. CASE records[i] = key  BY <1>4, <1>5, <1>9, <2>1
    <2>2. CASE records[i] \in DOMAIN groups /\ records[i] # key  BY <1>6, <2>2
    <2>3. CASE \E s \in 1..n : snapshots[s].key = records[i]  BY <1>5, <1>9, <2>3
    <2> QED  BY <1>5, <2>1, <2>2, <2>3 DEF SnapshotsInv
  <1>12. /\ records' \in Seq(Keys) /\ DOMAIN groups' \subseteq Keys
         /\ \A k \in DOMAIN groups' : PointsOf(records, k, groups'[k])
    BY <1>1, <1>6 DEF SnapshotsInv
  <1>13. snapshots' \in Seq([key : Keys, points : Seq(Nat)])  BY <1>5 DEF Snap
  <1> QED  BY <1>1, <1>10, <1>11, <1>12, <1>13 DEF SnapshotsInv

(* Steps other than the walk and the hand-out leave the snapshots alone,   *)
(* and the run leaves "emit" only when none is left to hand out.           *)
LEMMA SnapshotsRest ==
    ASSUME [Next]_vars, SnapshotsInv
    PROVE  \/ AggregateWalk \/ EmitSnapshot
           \/ /\ UNCHANGED <<groups, records, snapshots>>
              /\ pc' # "emit" /\ pc' # "failed" => DOMAIN groups = {}
              /\ \/ pc' \in {"emit", "failed", "flush", "shutdown", "done"}
                 \/ pc \notin {"emit", "failed", "flush", "shutdown", "done"}
  <1> USE DEF kernel, handler, output, vars, SnapshotsInv
  <1>1. CASE Runner
    BY <1>1 DEF Runner, Setup, SetupThrows, Go, GoThrows, StopLoop, PollText, Poll,
       HandleLine, PollReturns, PollFails, FlushLast, AggregateFails, SurfaceError,
       Flush, Shutdown
  <1>2. CASE Next /\ ~Runner
    BY <1>2 DEF Next, ProbeFires, ExitFires, Signal, Finished
  <1>3. CASE UNCHANGED vars  BY <1>3
  <1> QED  BY <1>1, <1>2, <1>3

LEMMA SnapshotsNext == SnapshotsInv /\ [Next]_vars => SnapshotsInv'
  <1> SUFFICES ASSUME SnapshotsInv, [Next]_vars PROVE SnapshotsInv'
    OBVIOUS
  <1>1. CASE AggregateWalk  BY <1>1, SnapshotsWalk
  <1>2. CASE EmitSnapshot  BY <1>2, SnapshotsEmit
  <1>3. CASE /\ UNCHANGED <<groups, records, snapshots>>
             /\ pc' # "emit" /\ pc' # "failed" => DOMAIN groups = {}
             /\ \/ pc' \in {"emit", "failed", "flush", "shutdown", "done"}
                \/ pc \notin {"emit", "failed", "flush", "shutdown", "done"}
    BY <1>3 DEF SnapshotsInv
  <1> QED  BY <1>1, <1>2, <1>3, SnapshotsRest

(* Once the exporter is shut down, each record aggregateWalk delivered is  *)
(* a data point of exactly one snapshot, the only one of its key, which    *)
(* holds its points in the order of the walk, whatever order the           *)
(* dictionary yields its values in.                                        *)
THEOREM SnapshotsArePartition == Spec => []SnapshotsPartition
  <1>1. Spec => []SnapshotsInv  BY SnapshotsInit, SnapshotsNext, PTL DEF Spec
  <1>2. Inv /\ SnapshotsInv => SnapshotsPartition
    <2> SUFFICES ASSUME Inv, SnapshotsInv, exporter = "closed"
                 PROVE  SnapshotsPartition
      BY DEF SnapshotsPartition
    <2>1. DOMAIN groups = {}  BY DEF Inv, PhaseInv, SnapshotsInv
    <2>2. ASSUME NEW s \in DOMAIN snapshots
          PROVE  LET points == snapshots[s].points
                 IN  /\ {points[i] : i \in DOMAIN points}
                          = {i \in DOMAIN records : records[i] = snapshots[s].key}
                     /\ \A i, j \in DOMAIN points : i < j => points[i] < points[j]
      BY DEF SnapshotsInv, PointsOf, Increasing
    <2>3. ASSUME NEW i \in DOMAIN records
          PROVE  \E s \in DOMAIN snapshots :
                    /\ records[i] = snapshots[s].key
                    /\ \A t \in DOMAIN snapshots : records[i] = snapshots[t].key => t = s
      <3>1. PICK s \in DOMAIN snapshots : snapshots[s].key = records[i]
        BY <2>1 DEF SnapshotsInv
      <3>2. \A t \in DOMAIN snapshots : snapshots[t].key = snapshots[s].key => t = s
        BY DEF SnapshotsInv
      <3> QED  BY <3>1, <3>2
    <2> QED  BY <2>2, <2>3 DEF SnapshotsPartition
  <1> QED  BY <1>1, <1>2, InvHolds, PTL
=============================================================================
