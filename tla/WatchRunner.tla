----------------------------- MODULE WatchRunner ------------------------------
(***************************************************************************)
(* One `bsdinstruments watch` session (WatchRunner.swift), with the part   *)
(* of Profile.render that decides which lines a firing prints.             *)
(*                                                                         *)
(* DTrace fires the profile's clauses in the kernel, which keeps each      *)
(* firing in a buffer until dtrace_work consumes it.  In the structured    *)
(* backend dtrace_work hands every line of a firing to a handler, which    *)
(* groups a printf line and the stack frames after it into one ProbeEvent. *)
(* In the text backend libdtrace prints the lines itself.                  *)
(*                                                                         *)
(* Firings are numbered.  A line is a printf body <<firing, line>>, a      *)
(* frame of the kernel or of the user stack, or the marker that render     *)
(* puts between the two stacks.                                            *)
(***************************************************************************)
EXTENDS Naturals, Sequences, FiniteSets, SequencesExt, TLC

CONSTANTS
    Options,      \* command lines: the format's backend and the stack flags
    Shapes,       \* clauses: printf lines, kernel and user frames of a firing
    Keys,         \* (name, action) pairs of the script's aggregations
    BufferSize,   \* firings the kernel buffer holds
    Faults,       \* whether libdtrace and the exporter may fail
    MaxFirings,   \* bound: firings
    MaxRecords    \* bound: aggregation records

ASSUME WatchAssumption ==
    /\ Options \subseteq [backend : {"text", "structured"},
                          withStack : BOOLEAN, withUstack : BOOLEAN]
    /\ Shapes \subseteq [bodies : Nat, kernel : Nat, user : Nat]
    /\ BufferSize \in Nat \ {0} /\ Faults \in BOOLEAN
    /\ MaxFirings \in Nat /\ MaxRecords \in Nat

VARIABLES
    option,      \* the command line
    pc,          \* where run() is
    signalReceived,
    exiting,     \* the script called exit()
    buffer,      \* firings the kernel holds
    dropped,     \* firings the kernel dropped since the last poll
    work,        \* lines the dtrace_work call in progress has still to deliver
    pending,     \* pendingBody, pendingKStack, pendingUStack, inUStack
    errorBox,    \* whether the exporter threw
    groups,      \* aggregation snapshots still to be emitted, by key
    exporter,    \* "new", "started", "flushed" or "closed"
    shapes,      \* history: the clause of each firing
    lost,        \* history: the firings dropped
    reported,    \* history: how many drops the exporter was told of
    drained,     \* history: the last poll consumed all there was
    printed,     \* history: bodies delivered to the handler
    events,      \* history: the events given to the exporter
    records,     \* history: the aggregation records walked
    snapshots    \* history: the snapshots given to the exporter

kernel  == <<exiting, buffer, dropped, shapes, lost>>
handler == <<work, pending, errorBox, drained, printed, events>>
output  == <<groups, records, exporter, reported, snapshots>>
vars == <<option, pc, signalReceived, kernel, handler, output>>

-----------------------------------------------------------------------------
(* What a firing prints.                                                   *)

Body(n, i)     == [type |-> "body", body |-> <<n, i>>]
Frame(n, s, i) == [type |-> "frame", firing |-> n, stack |-> s, depth |-> i]
Marker         == [type |-> "marker"]

Bodies(n, shape)       == [i \in 1..shape.bodies |-> Body(n, i)]
KernelFrames(n, shape) == [i \in 1..shape.kernel |-> Frame(n, "kernel", i)]
UserFrames(n, shape)   == [i \in 1..shape.user |-> Frame(n, "user", i)]

(* Profile.render replaces the stack markers of a clause by actions.       *)
StackAction(n, shape) ==
    IF option.withStack THEN KernelFrames(n, shape) ELSE <<>>

UstackAction(n, shape) ==
    IF option.withUstack
    THEN (IF option.withStack THEN <<Marker>> ELSE <<>>) \o UserFrames(n, shape)
    ELSE <<>>

Lines(n) ==
    Bodies(n, shapes[n]) \o StackAction(n, shapes[n]) \o UstackAction(n, shapes[n])

-----------------------------------------------------------------------------
NoBody  == <<>>
Nothing == [body |-> NoBody, kstack |-> <<>>, ustack |-> <<>>, inUStack |-> FALSE]

Init ==
    /\ option \in Options
    /\ pc = "setup" /\ signalReceived = FALSE
    /\ exiting = FALSE /\ buffer = <<>> /\ dropped = 0
    /\ work = <<>> /\ pending = Nothing /\ errorBox = FALSE
    /\ groups = <<>> /\ records = <<>> /\ exporter = "new"
    /\ shapes = <<>> /\ lost = {} /\ reported = 0
    /\ drained = FALSE /\ printed = <<>> /\ events = <<>> /\ snapshots = <<>>

(* render, open, the buffer options, compile, exec, then exporter.start    *)
(* and the signal handlers.                                                *)
Setup ==
    /\ pc = "setup"
    /\ pc' = "go"
    /\ exporter' = "started"
    /\ UNCHANGED <<option, signalReceived, kernel, handler,
                   groups, records, reported, snapshots>>

(* Any of those steps throws: defer stops the handle, run() throws.        *)
SetupThrows ==
    /\ Faults /\ pc = "setup"
    /\ pc' = "failed"
    /\ UNCHANGED <<option, signalReceived, kernel, handler, output>>

(* The structured backend registers its handlers; then handle.go().        *)
Go ==
    /\ pc = "go"
    /\ pc' = "loop"
    /\ UNCHANGED <<option, signalReceived, kernel, handler, output>>

GoThrows ==
    /\ Faults /\ pc = "go"
    /\ pc' = "failed"
    /\ UNCHANGED <<option, signalReceived, kernel, handler, output>>

-----------------------------------------------------------------------------
(* The kernel.  The trace is going until run() returns or throws.          *)

Tracing == pc \notin {"setup", "go", "done", "failed"}

ProbeFires(shape) ==
    LET n == Len(shapes) + 1
    IN  /\ Tracing /\ ~exiting /\ n <= MaxFirings
        /\ shapes' = Append(shapes, shape)
        /\ \/ /\ Len(buffer) < BufferSize
              /\ buffer' = Append(buffer, n)
              /\ UNCHANGED <<dropped, lost>>
           \/ /\ Len(buffer) >= BufferSize
              /\ dropped' = dropped + 1 /\ lost' = lost \cup {n}
              /\ UNCHANGED buffer
        /\ UNCHANGED <<option, pc, signalReceived, exiting, handler, output>>

(* The tick clause of --duration, or the script's own exit().              *)
ExitFires ==
    /\ Tracing /\ ~exiting
    /\ exiting' = TRUE
    /\ UNCHANGED <<option, pc, signalReceived, buffer, dropped, shapes, lost,
                   handler, output>>

Signal ==
    /\ pc \notin {"setup", "done", "failed"} /\ ~signalReceived
    /\ signalReceived' = TRUE
    /\ UNCHANGED <<option, pc, kernel, handler, output>>

-----------------------------------------------------------------------------
(* The poll loop.                                                          *)

(* Mutant: the handler forgets to leave the user-stack section.            *)
FlushedKeepsSection ==
    IF pending.body = NoBody THEN pending
    ELSE [Nothing EXCEPT !.inUStack = pending.inUStack]

(* flushPending: the accumulator it leaves.  Without a body it returns     *)
(* early, and the frames and the section stay.                             *)
Flushed == IF pending.body = NoBody THEN pending ELSE Nothing

(* flushPending: the event it gives to the exporter, which may throw.      *)
GiveEvent ==
    \/ /\ pending.body = NoBody
       /\ UNCHANGED <<events, errorBox>>
    \/ /\ pending.body # NoBody
       /\ events' = Append(events, [body |-> pending.body,
                                    stack |-> pending.kstack,
                                    ustack |-> pending.ustack])
       /\ errorBox' \in {errorBox} \cup (IF Faults THEN {TRUE} ELSE {})

(* Mutant: the poll loop never looks at the flag.                          *)
NeverStops == FALSE

(* stopFlag.isSet                                                          *)
IsSet == signalReceived

(* The loop's condition, once a signal has come.                           *)
StopLoop ==
    /\ pc = "loop" /\ IsSet
    /\ pc' = IF option.backend = "text" THEN "flush" ELSE "last"
    /\ UNCHANGED <<option, signalReceived, kernel, handler, output>>

(* dtrace_work of the text backend, which prints what it consumes and has  *)
(* no drop handler: a drop aborts it.  After the loop the aggregations are *)
(* printed, best-effort.                                                   *)
PollText ==
    /\ pc = "loop" /\ ~IsSet /\ option.backend = "text"
    /\ buffer' = <<>> /\ dropped' = 0
    /\ \/ exiting /\ pc' = "flush"
       \/ dropped > 0 /\ pc' = "flush"
       \/ Faults /\ pc' = "flush"
       \/ ~exiting /\ dropped = 0 /\ pc' = "loop"
    /\ UNCHANGED <<option, signalReceived, exiting, shapes, lost, handler, output>>

(* Mutant: the last poll does not run the drop handler.                    *)
PollSkipsDrops ==
    /\ pc = "loop" /\ ~IsSet /\ option.backend = "structured"
    /\ reported' = IF exiting THEN reported ELSE reported + dropped
    /\ dropped' = 0
    /\ work' = FlattenSeq([i \in DOMAIN buffer |-> Lines(buffer[i])])
    /\ buffer' = <<>>
    /\ pc' = IF exiting THEN "drain" ELSE "deliver"
    /\ UNCHANGED <<option, signalReceived, exiting, shapes, lost, pending,
                   errorBox, drained, printed, events, groups, records, exporter,
                   snapshots>>

(* pollBuffered: the drop handler, then every line the buffer holds.  Once *)
(* the script has exited this is the last one.                             *)
Poll ==
    /\ pc = "loop" /\ ~IsSet /\ option.backend = "structured"
    /\ reported' = reported + dropped /\ dropped' = 0
    /\ work' = FlattenSeq([i \in DOMAIN buffer |-> Lines(buffer[i])])
    /\ buffer' = <<>>
    /\ pc' = IF exiting THEN "drain" ELSE "deliver"
    /\ UNCHANGED <<option, signalReceived, exiting, shapes, lost, pending,
                   errorBox, drained, printed, events, groups, records, exporter,
                   snapshots>>

(* The buffered-output handler, once per line.                             *)
BodyLine(line) ==
    /\ GiveEvent
    /\ pending' = [Flushed EXCEPT !.body = line.body]
    /\ printed' = Append(printed, line.body)

FrameLine(line) ==
    /\ pending' = IF pending.inUStack
                  THEN [pending EXCEPT !.ustack = Append(@, line)]
                  ELSE [pending EXCEPT !.kstack = Append(@, line)]
    /\ UNCHANGED <<errorBox, printed, events>>

MarkerLine ==
    /\ pending' = [pending EXCEPT !.inUStack = TRUE]
    /\ UNCHANGED <<errorBox, printed, events>>

(* A handler that returns false makes dtrace_work fail, which ends the     *)
(* loop.                                                                   *)
HandleLine ==
    /\ pc \in {"deliver", "drain"} /\ work # <<>>
    /\ LET line == Head(work)
       IN  \/ line.type = "body" /\ BodyLine(line)
           \/ line.type = "frame" /\ FrameLine(line)
           \/ line.type = "marker" /\ MarkerLine
    /\ \/ errorBox' /\ work' = <<>> /\ pc' = "last"
       \/ ~errorBox' /\ work' = Tail(work) /\ UNCHANGED pc
    /\ UNCHANGED <<option, signalReceived, kernel, drained, output>>

(* dtrace_work returns: .okay sleeps and goes round, .done leaves.         *)
PollReturns ==
    /\ pc \in {"deliver", "drain"} /\ work = <<>>
    /\ pc' = IF pc = "deliver" THEN "loop" ELSE "last"
    /\ drained' = (pc = "drain")
    /\ UNCHANGED <<option, signalReceived, kernel, work, pending, errorBox,
                   printed, events, output>>

(* .error of dtrace_work itself, with lines still undelivered.             *)
PollFails ==
    /\ Faults /\ pc \in {"deliver", "drain"}
    /\ work' = <<>>
    /\ pc' = "last"
    /\ UNCHANGED <<option, signalReceived, kernel, pending, errorBox, drained,
                   printed, events, output>>

-----------------------------------------------------------------------------
(* After the loop.                                                         *)

(* Mutant: the event still accumulating is forgotten.                      *)
FlushLastSkipped ==
    /\ pc = "last"
    /\ pc' = "aggregate"
    /\ UNCHANGED <<option, signalReceived, kernel, handler, output>>

FlushLast ==
    /\ pc = "last"
    /\ GiveEvent
    /\ pending' = Flushed
    /\ pc' = "aggregate"
    /\ UNCHANGED <<option, signalReceived, kernel, work, drained, printed, output>>

(* Mutant: a record whose snapshot exists replaces the data points.        *)
AddRecordReplaces(snaps, key, point) == (key :> <<point>>) @@ snaps

(* A walked record joins the snapshot of its name and action.  The i-th    *)
(* record's data point is i.                                               *)
AddRecord(snaps, key, point) ==
    [k \in DOMAIN snaps \cup {key} |->
        CASE k # key -> snaps[k]
          [] k = key /\ key \in DOMAIN snaps -> Append(snaps[key], point)
          [] OTHER -> <<point>>]

AggregateWalk ==
    /\ pc = "aggregate"
    /\ \E walk \in SeqOf(Keys, MaxRecords) :
          /\ records' = walk
          /\ groups' = FoldLeftDomain(LAMBDA snaps, i : AddRecord(snaps, walk[i], i),
                                      <<>>, walk)
    /\ pc' = "emit"
    /\ UNCHANGED <<option, signalReceived, kernel, handler, exporter, reported,
                   snapshots>>

(* aggregateSnap or the walk throws: reported on stderr, nothing emitted.  *)
AggregateFails ==
    /\ Faults /\ pc = "aggregate"
    /\ pc' = "emit"
    /\ UNCHANGED <<option, signalReceived, kernel, handler, output>>

(* The dictionary's values, in whatever order it yields them.              *)
EmitSnapshot ==
    /\ pc = "emit"
    /\ \E key \in DOMAIN groups :
          /\ snapshots' = Append(snapshots, [key |-> key, points |-> groups[key]])
          /\ groups' = [k \in DOMAIN groups \ {key} |-> groups[k]]
    /\ errorBox' \in {errorBox} \cup (IF Faults THEN {TRUE} ELSE {})
    /\ UNCHANGED <<option, pc, signalReceived, kernel, work, pending, drained,
                   printed, events, records, exporter, reported>>

(* An error of the exporter is thrown only here: run() then skips flush    *)
(* and shutdown.                                                           *)
SurfaceError ==
    /\ pc = "emit" /\ DOMAIN groups = {}
    /\ pc' = IF errorBox THEN "failed" ELSE "flush"
    /\ UNCHANGED <<option, signalReceived, kernel, handler, output>>

Flush ==
    /\ pc = "flush"
    /\ \/ exporter' = "flushed" /\ pc' = "shutdown"
       \/ Faults /\ pc' = "failed" /\ UNCHANGED exporter
    /\ UNCHANGED <<option, signalReceived, kernel, handler, groups, records,
                   reported, snapshots>>

Shutdown ==
    /\ pc = "shutdown"
    /\ \/ exporter' = "closed" /\ pc' = "done"
       \/ Faults /\ pc' = "failed" /\ UNCHANGED exporter
    /\ UNCHANGED <<option, signalReceived, kernel, handler, groups, records,
                   reported, snapshots>>

-----------------------------------------------------------------------------
Runner ==
    \/ Setup \/ SetupThrows \/ Go \/ GoThrows
    \/ StopLoop \/ PollText \/ Poll \/ HandleLine \/ PollReturns \/ PollFails
    \/ FlushLast \/ AggregateWalk \/ AggregateFails \/ EmitSnapshot
    \/ SurfaceError \/ Flush \/ Shutdown

Finished == pc \in {"done", "failed"} /\ UNCHANGED vars

Next ==
    \/ Runner
    \/ \E shape \in Shapes : ProbeFires(shape)
    \/ ExitFires \/ Signal
    \/ Finished

Spec == Init /\ [][Next]_vars

(* The run loop is one thread that the system schedules; nothing makes     *)
(* probes fire, the script exit or the user interrupt it.                  *)
FairSpec == Spec /\ WF_vars(Runner)

-----------------------------------------------------------------------------
(* The frames captured for a body are those of its own firing, in the      *)
(* right stack and in order, and all of them sit on the firing's last      *)
(* printf line (WatchRunner.swift, "grouping printf body + subsequent      *)
(* stack frames into a single ProbeEvent").  Only the event that was       *)
(* accumulating when the poll loop was cut short may lack some.            *)
WholeStacks ==
    \A e \in DOMAIN events :
        LET n == events[e].body[1]
            last == events[e].body[2] = shapes[n].bodies
            k == IF last THEN StackAction(n, shapes[n]) ELSE <<>>
            u == IF last /\ option.withUstack THEN UserFrames(n, shapes[n]) ELSE <<>>
        IN  \/ events[e].stack = k /\ events[e].ustack = u
            \/ /\ Faults /\ e = Len(events) /\ pc \notin {"loop", "deliver", "drain"}
               /\ IsPrefix(events[e].stack, k) /\ IsPrefix(events[e].ustack, u)

(* Every printf line the handler was called with is given to the exporter  *)
(* exactly once and in order, the one still accumulating excepted; after   *)
(* the loop none is left accumulating, also when the exporter threw.       *)
BodiesInOrder ==
    /\ printed = [e \in DOMAIN events |-> events[e].body]
                    \o (IF pending.body = NoBody THEN <<>> ELSE <<pending.body>>)
    /\ pc \in {"aggregate", "emit", "flush", "shutdown", "done"}
          => pending.body = NoBody

(* When the script's own exit() ended the poll loop, every firing is       *)
(* exported, or was dropped by the kernel and reported to the exporter     *)
(* (onDrop, "so the next batch includes" the count), before the exporter   *)
(* is shut down.                                                           *)
AllAccounted ==
    exporter = "closed" /\ drained =>
       /\ reported = Cardinality(lost)
       /\ {printed[i][1] : i \in DOMAIN printed}
             = {n \in DOMAIN shapes \ lost : shapes[n].bodies > 0}

(* Each aggregation record walked is a data point of exactly one snapshot, *)
(* the only one of its name and action, which holds the points in order.   *)
SnapshotsPartition ==
    exporter = "closed" =>
        /\ \A s \in DOMAIN snapshots :
              LET points == snapshots[s].points
              IN  /\ {points[i] : i \in DOMAIN points}
                        = {i \in DOMAIN records : records[i] = snapshots[s].key}
                  /\ \A i, j \in DOMAIN points : i < j => points[i] < points[j]
        /\ \A i \in DOMAIN records :
              \E s \in DOMAIN snapshots :
                 /\ records[i] = snapshots[s].key
                 /\ \A t \in DOMAIN snapshots :
                       records[i] = snapshots[t].key => t = s

(* A signal received while the session runs ends it (installSigintHandler, *)
(* "SIGINT/SIGTERM stop the loop cleanly").                                *)
SignalEnds == signalReceived ~> pc \in {"done", "failed"}

(* ProbeEvent.stack holds "Kernel stack frames if captured" and ustack     *)
(* "User stack frames if captured".                                        *)
RightStack ==
    \A e \in DOMAIN events :
        /\ \A i \in DOMAIN events[e].stack : events[e].stack[i].stack = "kernel"
        /\ \A i \in DOMAIN events[e].ustack : events[e].ustack[i].stack = "user"
=============================================================================
