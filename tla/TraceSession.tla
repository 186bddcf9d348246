----------------------------- MODULE TraceSession -----------------------------
(***************************************************************************)
(* One run of "bsdtrace exec" or "bsdtrace trace" (cmd_exec.c, cmd_trace.c, *)
(* trace.c, hwt.c): the command, the process it traces and the HWT context *)
(* of the kernel, which queues records about the process and, with         *)
(* pause-on-mmap, suspends it at every mapping until the command wakes it. *)
(*                                                                         *)
(* The kernel is external: it is modelled from how the commands use it.    *)
(* The target has one thread that maps images, and may create others.      *)
(* Images are numbered within the program image that maps them, so         *)
(* <<g, n>> is the n-th mapping of the g-th program the target executed.   *)
(***************************************************************************)
EXTENDS TraceState, FiniteSets

CONSTANTS
    Sessions,       \* the sessions considered: a command line and a load
    PollRecords,    \* MAX_POLL_RECORDS, POLL_RECORDS and POST_STOP_MAX_RECORDS
    EmptyDrains,    \* empty polls that end the loop once the target is gone
    PostStopPolls,  \* POST_STOP_EMPTY_POLLS
    MaxThreads,     \* MAX_THREADS
    Pages,          \* pages of a trace buffer
    Faults          \* HWT_IOC_RECORD_GET, WAKEUP and STOP may fail

Option == [command : {"exec", "trace"}, tid : Nat, all : BOOLEAN,
           requested : SUBSET Nat, pause : BOOLEAN, dryrun : BOOLEAN,
           kernel : BOOLEAN, timed : BOOLEAN, maxrecords : Nat]

(* Bounds on what the target does: how often it executes, maps or unmaps,   *)
(* how many threads it creates and how many pages of trace each produces.   *)
Load == [maps : Nat, created : Nat, written : Nat]

ASSUME SessionAssumption ==
    /\ Sessions \subseteq [opt : Option, load : Load]
    /\ {PollRecords, EmptyDrains, PostStopPolls, Pages} \subseteq Nat \ {0}
    /\ MaxThreads \in Nat
    /\ Faults \in BOOLEAN

VARIABLES
    opt,         \* the command line
    load,        \* the bounds on the target
    pc,          \* where the command is
    devices,     \* ctx_fd, then the thread devices, by thread number
    fds,         \* which of ctl_fd and kq_fd are open
    ts,          \* struct trace_state
    batch,       \* records polled and not yet processed
    nrecs,       \* how many the last poll returned
    total,       \* totalrecords
    gone,        \* child_done, target_gone
    empty,       \* empty_drains, and empty_polls after the stop
    interrupted, \* trace_interrupted
    seeded,      \* the mappings that predate tracing are known
    sidecars,    \* the .meta files of extra threads, with the live sections
    target,      \* the traced process
    paused,      \* it is suspended at a mapping
    maps,        \* its named executable mappings
    image,       \* how many programs it executed
    named,       \* the last of them whose exec was seen with its path
    mapped,      \* how many mappings it changed
    threads,     \* how many threads it has had
    context,     \* the kernel's HWT context
    queue,       \* its records
    swi,         \* buffers whose BUFFER record is still to be queued
    written,     \* pages written to each thread's trace buffer
    reached,     \* how far a BUFFER record queued before the stop got
    refused      \* the ioctls that the kernel refused

command == <<pc, devices, fds, ts, batch, nrecs, total, gone, empty, interrupted,
             seeded, sidecars>>
process == <<target, paused, maps, image, named, mapped, threads>>
kernel  == <<context, queue, swi, written, reached, refused>>
chosen  == <<opt, load>>
vars    == <<chosen, command, process, kernel>>

IsExec == opt.command = "exec"
Tids   == 0..load.created

Init ==
    /\ \E s \in Sessions : opt = s.opt /\ load = s.load
    /\ pc = "begin" /\ devices = <<>> /\ fds = {}
    /\ ts = TraceStateInit(MetaOpen(FALSE))
    /\ batch = <<>> /\ nrecs = 0 /\ total = 0 /\ empty = 0
    /\ gone = FALSE /\ interrupted = FALSE /\ seeded = FALSE
    /\ sidecars = {}
    /\ target = IF IsExec THEN "none" ELSE "running"
    /\ image = (IF IsExec THEN 0 ELSE 1) /\ named = image
    /\ maps = IF IsExec THEN {} ELSE {<<1, 0>>}
    /\ paused = FALSE /\ mapped = 0 /\ threads = 1
    /\ context = "none" /\ queue = <<>> /\ swi = {}
    /\ written = [t \in Tids |-> 0] /\ reached = 0 /\ refused = {}

-----------------------------------------------------------------------------
(* The target and the kernel.  A running context records what the target   *)
(* does.  What the target maps once tracing has stopped concerns nobody.   *)

TargetActs ==
    /\ target = "running" /\ ~paused
    /\ context # "stopped" /\ pc \notin {"done", "killed"}

Tracing == context = "running"

Record(rec) == queue' = IF Tracing THEN Append(queue, rec) ELSE queue

MapsImage(rec) ==
    /\ mapped < load.maps /\ mapped' = mapped + 1
    /\ Record(rec)
    /\ paused' = (Tracing /\ opt.pause)
    /\ UNCHANGED <<chosen, command, target, threads, context, swi, written, reached, refused>>

TargetExecs ==
    /\ TargetActs
    /\ image' = image + 1 /\ named' = image + 1
    /\ maps' = {<<image + 1, mapped>>}
    /\ MapsImage(ImageRecord("exec", <<image + 1, mapped>>))

(* The kernel cannot name the program.                                     *)
TargetExecsUnnamed ==
    /\ TargetActs
    /\ image' = image + 1 /\ named' = IF Tracing THEN named ELSE image + 1
    /\ maps' = {}
    /\ MapsImage(ImageRecord("exec", NoImage))

TargetMaps ==
    /\ TargetActs /\ image > 0
    /\ maps' = maps \cup {<<image, mapped>>}
    /\ MapsImage(ImageRecord("mmap", <<image, mapped>>))
    /\ UNCHANGED <<image, named>>

(* A mapping whose path the kernel cannot name.                            *)
TargetMapsUnnamed ==
    /\ TargetActs /\ image > 0
    /\ MapsImage(ImageRecord("mmap", NoImage))
    /\ UNCHANGED <<maps, image, named>>

TargetUnmaps ==
    /\ TargetActs /\ mapped < load.maps
    /\ \E m \in maps : maps' = maps \ {m}
    /\ mapped' = mapped + 1
    /\ Record(UnmapRecord)
    /\ UNCHANGED <<chosen, command, target, paused, image, named, threads, context, swi,
                   written, reached, refused>>

TargetCreatesThread ==
    /\ TargetActs /\ image > 0 /\ threads <= load.created
    /\ threads' = threads + 1
    /\ queue' = IF context = "none" THEN queue
                ELSE Append(queue, ThreadRecord("thread_create", threads))
    /\ UNCHANGED <<chosen, command, target, paused, maps, image, named, mapped, context,
                   swi, written, reached, refused>>

(* A thread fills a page; the interrupt asks for a BUFFER record, which    *)
(* reads the position when it is queued, also after the stop, and is       *)
(* followed by an OVERFLOW record if the processor lost packets.           *)
TargetFillsPage(t) ==
    /\ TargetActs /\ Tracing /\ t < threads
    /\ written[t] < load.written
    /\ written' = [written EXCEPT ![t] = @ + 1]
    /\ swi' = swi \cup {t}
    /\ UNCHANGED <<chosen, command, process, context, queue, reached, refused>>

QueueBuffer(t, lost) ==
    /\ t \in swi /\ pc \notin {"done", "killed"}
    /\ swi' = swi \ {t}
    /\ queue' = queue \o <<BufferRecord(t, written[t] % Pages)>>
                     \o (IF lost THEN <<OverflowRecord(t)>> ELSE <<>>)
    /\ reached' = IF t = 0 /\ pc \notin {"poststop", "decode"} THEN written[t] ELSE reached
    /\ UNCHANGED <<chosen, command, process, context, written, refused>>

(* The record may also never arrive.                                       *)
LoseBuffer(t) ==
    /\ t \in swi /\ pc \notin {"done", "killed"}
    /\ swi' = swi \ {t}
    /\ UNCHANGED <<chosen, command, process, context, queue, written, reached, refused>>

(* A child is a zombie until the command reaps it.                         *)
TargetEnds ==
    /\ \/ target = "running" /\ ~paused
       \/ target = "dying"
    /\ target' = IF IsExec THEN "zombie" ELSE "gone"
    /\ paused' = FALSE
    /\ UNCHANGED <<chosen, command, maps, image, named, mapped, threads, kernel>>

-----------------------------------------------------------------------------
(* Setting up.                                                             *)

(* kill(child, SIGKILL): a paused or stopped process dies of it too.       *)
KillChild == target' = IF target \in {"stopped", "running"} THEN "dying" ELSE target

Refuse ==
    /\ pc = "begin"
    /\ pc' = "done"
    /\ UNCHANGED <<chosen, devices, fds, ts, batch, nrecs, total, gone, empty,
                   interrupted, seeded, sidecars, process, kernel>>

(* fork_stopped; the command goes on once the child has stopped itself.    *)
Fork ==
    /\ pc = "begin" /\ IsExec
    /\ \/ target' = "stopped" /\ pc' = "alloc"
       \/ target' = "reaped" /\ pc' = "done"
    /\ UNCHANGED <<chosen, devices, fds, ts, batch, nrecs, total, gone, empty,
                   interrupted, seeded, sidecars, paused, maps,
                   image, named, mapped, threads, kernel>>

Attach ==
    /\ pc = "begin" /\ ~IsExec /\ target # "gone"
    /\ pc' = "alloc"
    /\ UNCHANGED <<chosen, devices, fds, ts, batch, nrecs, total, gone, empty,
                   interrupted, seeded, sidecars, process, kernel>>

(* hwt_ctx_alloc: the control device, the kqueue, HWT_IOC_ALLOC, which     *)
(* reports the threads there are, then the device; "abort" includes its    *)
(* label fail, reached with what was acquired before the step that failed. *)
AllocContext ==
    /\ pc = "alloc"
    /\ \/ /\ target # "gone"
          /\ fds' = {"ctl", "kq"}
          /\ context' = "allocated"
          /\ queue' = [t \in 1..threads |-> ThreadRecord("thread_create", t - 1)]
          /\ \/ opt.tid < threads /\ devices' = <<opt.tid>> /\ pc' = "config"
             \/ UNCHANGED devices /\ pc' = "abort"
       \/ /\ fds' \in {{}, {"ctl"}, {"ctl", "kq"}}
          /\ pc' = "abort"
          /\ UNCHANGED <<context, devices, queue>>
    /\ UNCHANGED <<chosen, ts, batch, nrecs, total, gone, empty, interrupted,
                   seeded, sidecars, process, swi, written, reached, refused>>

(* A dry run ends once the context is configured.                          *)
AfterConfig == IF opt.dryrun THEN "abort" ELSE "start"

(* The options and the timing check, then hwt_ctx_set_config.              *)
SetConfig ==
    /\ pc = "config"
    /\ \/ /\ context' = "configured"
          /\ pc' = AfterConfig
       \/ pc' = "abort" /\ UNCHANGED context
    /\ UNCHANGED <<chosen, devices, fds, ts, batch, nrecs, total, gone, empty,
                   interrupted, seeded, sidecars, process, queue,
                   swi, written, reached, refused>>

(* Newer kernels report their own image when tracing starts.               *)
StartTracing ==
    /\ pc = "start"
    /\ \/ /\ context' = "running"
          /\ \/ queue' = Append(queue, ImageRecord("kernel", KernelImage))
             \/ UNCHANGED queue
          /\ pc' = "meta"
       \/ pc' = "startfailed" /\ UNCHANGED <<context, queue>>
    /\ UNCHANGED <<chosen, devices, fds, ts, batch, nrecs, total, gone, empty,
                   interrupted, seeded, sidecars, process, swi,
                   written, reached, refused>>

(* The sidecar and the trace state; exec then resumes the child.           *)
OpenMeta ==
    /\ pc = "meta"
    /\ \E opened \in BOOLEAN :
          ts' = TraceStateInit(MetaHeader(MetaOpen(opened), opt.tid))
    /\ \/ IsExec /\ target = "stopped" /\ target' = "running"
       \/ (~IsExec \/ target # "stopped") /\ UNCHANGED target
    /\ seeded' = IsExec
    /\ pc' = IF IsExec THEN "loop" ELSE "seed"
    /\ UNCHANGED <<chosen, devices, fds, batch, nrecs, total, gone, empty, interrupted,
                   sidecars, paused, maps, image, named, mapped, threads,
                   kernel>>

(* process_exec_mmaps: the executable mappings with a path, in some order. *)
ProcessExecMmaps == SetToSeq(maps)

SeedMaps ==
    /\ pc = "seed"
    /\ \/ /\ target # "gone"
          /\ ts' = Seed(ts, ProcessExecMmaps)
          /\ seeded' = TRUE
       \/ UNCHANGED <<ts, seeded>>
    /\ pc' = "loop"
    /\ UNCHANGED <<chosen, devices, fds, batch, nrecs, total, gone, empty, interrupted,
                   sidecars, process, kernel>>

(* HWT_IOC_STOP on a context that traces; it may be refused.               *)
StopContext ==
    \/ context' = "stopped" /\ UNCHANGED refused
    \/ Faults /\ refused' = refused \cup {"stop"} /\ UNCHANGED context

(* hwt_ctx_close: without a device there is nothing to send a STOP to, and *)
(* one to a context that does not trace fails harmlessly.                  *)
CloseContext ==
    /\ \/ devices # <<>> /\ Tracing /\ StopContext
       \/ (devices = <<>> \/ ~Tracing) /\ UNCHANGED <<context, refused>>
    /\ devices' = <<>> /\ fds' = {}

(* Mutant: a failure leaves the stopped child behind.                      *)
AbortLeavesChild ==
    /\ pc \in {"abort", "startfailed"}
    /\ CloseContext
    /\ pc' = "done"
    /\ UNCHANGED <<chosen, ts, batch, nrecs, total, gone, empty, interrupted,
                   seeded, sidecars, process, queue, swi, written, reached>>

(* Every failure above: close the context; kill and reap the child.        *)
Abort ==
    /\ pc \in {"abort", "startfailed"}
    /\ CloseContext
    /\ \/ IsExec /\ KillChild /\ pc' = "abortreap"
       \/ ~IsExec /\ pc' = "done" /\ UNCHANGED target
    /\ UNCHANGED <<chosen, ts, batch, nrecs, total, gone, empty, interrupted,
                   seeded, sidecars, paused, maps, image, named, mapped, threads,
                   queue, swi, written, reached>>

AbortReap ==
    /\ pc = "abortreap" /\ target = "zombie"
    /\ target' = "reaped" /\ pc' = "done"
    /\ UNCHANGED <<chosen, devices, fds, ts, batch, nrecs, total, gone, empty,
                   interrupted, seeded, sidecars, paused, maps,
                   image, named, mapped, threads, kernel>>

-----------------------------------------------------------------------------
(* The loop.                                                               *)

LimitReached == opt.maxrecords > 0 /\ total >= opt.maxrecords

(* Mutant: the child is waited for and not killed.                         *)
ExecLimitSpares ==
    /\ pc = "loop" /\ IsExec
    /\ opt.timed \/ LimitReached
    /\ pc' = "reap"
    /\ UNCHANGED <<chosen, devices, fds, ts, batch, nrecs, total, gone, empty,
                   interrupted, seeded, sidecars, process, kernel>>

(* The duration has elapsed, or enough records were read.                  *)
ExecLimit ==
    /\ pc = "loop" /\ IsExec
    /\ opt.timed \/ LimitReached
    /\ KillChild
    /\ pc' = "reap"
    /\ UNCHANGED <<chosen, devices, fds, ts, batch, nrecs, total, gone, empty,
                   interrupted, seeded, sidecars, paused, maps, image, named, mapped,
                   threads, kernel>>

(* waitpid(child, WNOHANG).                                                *)
ExecCheck ==
    /\ pc = "loop" /\ IsExec /\ ~LimitReached
    /\ \/ target = "zombie" /\ target' = "reaped" /\ gone' = TRUE
       \/ target # "zombie" /\ UNCHANGED <<target, gone>>
    /\ pc' = "poll"
    /\ UNCHANGED <<chosen, devices, fds, ts, batch, nrecs, total, empty, interrupted,
                   seeded, sidecars, paused, maps, image, named, mapped,
                   threads, kernel>>

TraceLimit ==
    /\ pc = "loop" /\ ~IsExec
    /\ interrupted \/ (~gone /\ (opt.timed \/ LimitReached))
    /\ pc' = "finalize"
    /\ UNCHANGED <<chosen, devices, fds, ts, batch, nrecs, total, gone, empty,
                   interrupted, seeded, sidecars, process, kernel>>

(* kill(pid, 0).                                                           *)
TraceCheck ==
    /\ pc = "loop" /\ ~IsExec /\ ~interrupted
    /\ gone \/ ~LimitReached
    /\ gone' = (gone \/ target = "gone")
    /\ pc' = "poll"
    /\ UNCHANGED <<chosen, devices, fds, ts, batch, nrecs, total, empty, interrupted,
                   seeded, sidecars, process, kernel>>

(* hwt_ctx_poll_records without waiting.                                   *)
TakeRecords ==
    LET n == IF Len(queue) < PollRecords THEN Len(queue) ELSE PollRecords
    IN  /\ batch' = SubSeq(queue, 1, n)
        /\ queue' = SubSeq(queue, n + 1, Len(queue))
        /\ nrecs' = n

Poll ==
    /\ pc = "poll"
    /\ TakeRecords
    /\ pc' = "process"
    /\ UNCHANGED <<chosen, devices, fds, ts, total, gone, empty, interrupted, seeded,
                   sidecars, process, context, swi, written, reached, refused>>

PollFails ==
    /\ pc = "poll" /\ Faults
    /\ \/ /\ IsExec /\ ~gone
          /\ KillChild /\ pc' = "reap"
       \/ /\ ~IsExec \/ gone
          /\ pc' = "finalize" /\ UNCHANGED target
    /\ UNCHANGED <<chosen, devices, fds, ts, batch, nrecs, total, gone, empty,
                   interrupted, seeded, sidecars, paused, maps, image, named, mapped,
                   threads, kernel>>

(* hwt_ctx_open_thread; the device of a thread that exited is gone.        *)
Wanted(tid) == tid # opt.tid /\ (opt.all \/ tid \in opt.requested)

(* Mutant: the table of thread devices has no bound.                       *)
OpenThreadUnbounded(tid) ==
    \/ /\ \A i \in 2..Len(devices) : devices[i] # tid
       /\ devices' = Append(devices, tid)
    \/ UNCHANGED devices

OpenThread(tid) ==
    \/ /\ Len(devices) <= MaxThreads
       /\ \A i \in 2..Len(devices) : devices[i] # tid
       /\ devices' = Append(devices, tid)
    \/ UNCHANGED devices

(* hwt_ctx_wakeup; only a suspended target can tell whether it is refused. *)
Wakeup ==
    \/ paused' = FALSE /\ UNCHANGED refused
    \/ paused /\ Faults /\ refused' = refused \cup {"wakeup"} /\ UNCHANGED paused

(* Mutant: an exec does not wake the target.                               *)
EmitAndProcessNoWake(wake) ==
    LET rec == Head(batch)
    IN  /\ batch' = Tail(batch)
        /\ total' = total + 1
        /\ IF wake /\ rec.type = "mmap" THEN Wakeup ELSE UNCHANGED <<paused, refused>>
        /\ IF rec.type = "thread_create" /\ Wanted(rec.tid)
           THEN OpenThread(rec.tid) ELSE UNCHANGED devices
        /\ ts' = Process(ts, rec)

(* emit_and_process on the next record of the batch.                       *)
EmitAndProcess(wake) ==
    LET rec == Head(batch)
    IN  /\ batch' = Tail(batch)
        /\ total' = total + 1
        /\ IF wake /\ rec.type \in {"exec", "mmap"} THEN Wakeup ELSE UNCHANGED <<paused, refused>>
        /\ IF rec.type = "thread_create" /\ Wanted(rec.tid)
           THEN OpenThread(rec.tid) ELSE UNCHANGED devices
        /\ ts' = Process(ts, rec)

ProcessRecord ==
    /\ pc = "process" /\ batch # <<>>
    /\ EmitAndProcess(opt.pause)
    /\ UNCHANGED <<chosen, pc, fds, nrecs, gone, empty, interrupted, seeded, sidecars, target,
                   maps, image, named, mapped, threads, context, queue, swi, written, reached>>

(* A target that is gone is drained until EmptyDrains polls return nothing. *)
EndOfDrain ==
    /\ pc = "process" /\ batch = <<>>
    /\ empty' = IF ~gone THEN empty ELSE IF nrecs = 0 THEN empty + 1 ELSE 0
    /\ pc' = IF empty' >= EmptyDrains THEN "finalize" ELSE "loop"
    /\ UNCHANGED <<chosen, devices, fds, ts, batch, nrecs, total, gone, interrupted,
                   seeded, sidecars, process, kernel>>

(* The waitpid after a kill; a child already reaped is not waited for.     *)
Reap ==
    /\ pc = "reap"
    /\ \/ ~gone /\ target = "zombie" /\ target' = "reaped"
       \/ gone /\ UNCHANGED target
    /\ pc' = "finalize"
    /\ UNCHANGED <<chosen, devices, fds, ts, batch, nrecs, total, gone, empty,
                   interrupted, seeded, sidecars, paused, maps,
                   image, named, mapped, threads, kernel>>

-----------------------------------------------------------------------------
(* trace_finalize.                                                         *)

FinalPoll ==
    /\ pc = "finalize"
    /\ \/ TakeRecords /\ pc' = "finaldrain"
       \/ Faults /\ pc' = "stop" /\ UNCHANGED <<batch, nrecs, queue>>
    /\ UNCHANGED <<chosen, devices, fds, ts, total, gone, empty, interrupted, seeded,
                   sidecars, process, context, swi, written, reached, refused>>

FinalRecord ==
    /\ pc = "finaldrain" /\ batch # <<>>
    /\ EmitAndProcess(TRUE)
    /\ UNCHANGED <<chosen, pc, fds, nrecs, gone, empty, interrupted, seeded, sidecars, target,
                   maps, image, named, mapped, threads, context, queue, swi, written, reached>>

(* Mutant: the records that come late are not waited for.                  *)
StopTracingUndrained ==
    /\ pc = "stop" \/ (pc = "finaldrain" /\ batch = <<>>)
    /\ StopContext
    /\ empty' = 0
    /\ pc' = "decode"
    /\ UNCHANGED <<chosen, devices, fds, ts, batch, nrecs, total, gone, interrupted,
                   seeded, sidecars, process, queue, swi, written, reached>>

StopTracing ==
    /\ pc = "stop" \/ (pc = "finaldrain" /\ batch = <<>>)
    /\ StopContext
    /\ empty' = 0
    /\ pc' = "poststop"
    /\ UNCHANGED <<chosen, devices, fds, ts, batch, nrecs, total, gone, interrupted,
                   seeded, sidecars, process, queue, swi, written, reached>>

(* trace_state_drain_post_stop: records only feed the trace state.         *)
PostStopPoll ==
    /\ pc = "poststop" /\ batch = <<>>
    /\ \/ /\ empty < PostStopPolls
          /\ TakeRecords
          /\ empty' = IF queue = <<>> THEN empty + 1 ELSE 0
          /\ UNCHANGED <<pc, refused>>
       \/ /\ \/ empty = PostStopPolls /\ UNCHANGED refused
             \/ empty < PostStopPolls /\ Faults /\ refused' = refused \cup {"drain"}
          /\ pc' = "decode" /\ UNCHANGED <<batch, nrecs, queue, empty>>
    /\ UNCHANGED <<chosen, devices, fds, ts, total, gone, interrupted, seeded, sidecars, process,
                   context, swi, written, reached>>

PostStopRecord ==
    /\ pc = "poststop" /\ batch # <<>>
    /\ batch' = Tail(batch)
    /\ total' = total + 1
    /\ ts' = Process(ts, Head(batch))
    /\ UNCHANGED <<chosen, pc, devices, fds, nrecs, gone, empty, interrupted, seeded,
                   sidecars, process, kernel>>

(* ensure_kernel, snapshot_and_decode and the cleanup.  A thread's file is *)
(* skipped when its buffer is empty or cannot be mapped or written.        *)
FinishTrace ==
    /\ pc = "decode"
    /\ \E known \in BOOLEAN :
          ts' = IF opt.kernel THEN EnsureKernel(ts, known) ELSE ts
    /\ \E saved \in SUBSET {devices[i] : i \in 2..Len(devices)} :
          sidecars' = {[tid |-> t, lines |-> ThreadMeta(ts', t, TRUE).lines] : t \in saved}
    /\ CloseContext
    /\ pc' = "done"
    /\ UNCHANGED <<chosen, batch, nrecs, total, gone, empty, interrupted, seeded, process,
                   queue, swi, written, reached>>

-----------------------------------------------------------------------------
(* SIGINT.  Only trace installs a handler, just before it starts tracing;  *)
(* otherwise the command dies and its descriptors are closed.              *)

Handled == ~IsExec /\ pc \notin {"begin", "alloc", "config", "abort"}

Interrupt ==
    /\ pc \notin {"done", "killed"}
    /\ \/ Handled /\ interrupted' = TRUE /\ UNCHANGED <<pc, devices, fds>>
       \/ /\ ~Handled /\ pc' = "killed" /\ devices' = <<>> /\ fds' = {}
          /\ UNCHANGED interrupted
    /\ UNCHANGED <<chosen, ts, batch, nrecs, total, gone, empty, seeded, sidecars, process, kernel>>

Ended == pc \in {"done", "killed"} /\ UNCHANGED vars

TargetStep ==
    \/ TargetExecs \/ TargetExecsUnnamed \/ TargetMaps \/ TargetMapsUnnamed \/ TargetUnmaps
    \/ TargetCreatesThread \/ \E t \in Tids : TargetFillsPage(t)

KernelStep == \E t \in Tids : LoseBuffer(t) \/ \E lost \in BOOLEAN : QueueBuffer(t, lost)

CommandStep ==
    \/ Refuse \/ Fork \/ Attach \/ AllocContext \/ SetConfig \/ StartTracing
    \/ OpenMeta \/ SeedMaps \/ Abort \/ AbortReap
    \/ ExecLimit \/ ExecCheck \/ TraceLimit \/ TraceCheck
    \/ Poll \/ PollFails \/ ProcessRecord \/ EndOfDrain \/ Reap
    \/ FinalPoll \/ FinalRecord \/ StopTracing \/ PostStopPoll \/ PostStopRecord
    \/ FinishTrace

Next ==
    \/ TargetStep \/ KernelStep \/ TargetEnds \/ CommandStep \/ Interrupt \/ Ended

Spec == Init /\ [][Next]_vars

(* The command's steps and a killed child's death happen; a duration       *)
(* elapses, so the check at the top of the loop cannot miss it for ever.   *)
Fairness ==
    /\ WF_vars(CommandStep)
    /\ WF_vars(target = "dying" /\ TargetEnds)
    /\ SF_vars(ExecLimit) /\ SF_vars(TraceLimit)
FairSpec == Spec /\ Fairness

-----------------------------------------------------------------------------
(* Properties.                                                             *)

Polled == {"loop", "poll", "process", "reap", "finalize", "finaldrain", "stop",
           "poststop", "decode"}

TypeOK ==
    /\ [opt |-> opt, load |-> load] \in Sessions
    /\ pc \in {"begin", "alloc", "config", "start", "startfailed", "meta", "seed",
               "abort", "abortreap", "done", "killed"} \cup Polled
    /\ devices \in Seq(Nat) /\ Len(devices) <= MaxThreads + 1
    /\ {nrecs, total, empty, image, named, mapped, threads} \subseteq Nat
    /\ {gone, interrupted, seeded, paused} \subseteq BOOLEAN
    /\ target \in {"none", "stopped", "running", "dying", "zombie", "reaped", "gone"}
    /\ context \in {"none", "allocated", "configured", "running", "stopped"}
    /\ swi \subseteq Tids /\ written \in [Tids -> 0..load.written]
    /\ reached \in 0..load.written
    /\ fds \subseteq {"ctl", "kq"} /\ refused \subseteq {"wakeup", "stop", "drain"}

(* However a run ends by itself, at whichever step it failed: every         *)
(* descriptor is closed, no context is left tracing unless the kernel        *)
(* refused a STOP, and a child was killed or has exited and is reaped.       *)
CleanExit ==
    pc = "done" =>
        /\ devices = <<>> /\ fds = {}
        /\ Tracing => "stop" \in refused
        /\ IsExec => target \in {"none", "reaped"}

(* The sections used for decoding are those of the program that the target *)
(* runs: once the records are read, every mapping is among them, whether it *)
(* came from the seed or from a record that raced with it, and none is left *)
(* of a program replaced before tracing or by an exec with a path.          *)
SectionsCover ==
    pc \in Polled /\ queue = <<>> /\ batch = <<>> /\ seeded =>
        LET known == {ts.sections[i].image : i \in DOMAIN ts.sections} \ {KernelImage}
        IN  maps \subseteq known /\ \A m \in known : m[1] >= named

(* At every moment up to the decoding, the sections read back from the      *)
(* sidecar are the live ones, in the same order: a crash of the command     *)
(* leaves a sidecar that decodes as far as it had got.                      *)
SidecarMatchesLive ==
    pc \in Polled /\ ts.meta.open => MetaReadSections(ts.meta.lines) = ts.sections

(* A thread's own sidecar gives back its number and the sections with which *)
(* its buffer was decoded live.                                             *)
ThreadSidecarsReplay ==
    \A sidecar \in sidecars :
        /\ MetaReadTid(sidecar.lines) = sidecar.tid
        /\ MetaReadSections(sidecar.lines) = ts.sections

(* A wrap is reported only if the buffer of the single thread did wrap.     *)
WrapIsReal == ts.wrapped /\ threads = 1 => written[0] >= Pages

(* BUFFER records come late or not at all, and the extent they leave is a   *)
(* lower bound: of a single thread it is a position that the buffer did     *)
(* reach, and at least that of the last record queued before the stop,      *)
(* however late that was, unless a poll of the drain failed.                *)
ExtentIsLowerBound ==
    pc = "decode" /\ threads = 1 /\ reached > 0 /\ "drain" \notin refused =>
        \E n \in reached..written[0] : ts.lastPage = n % Pages

(* A target suspended at a mapping runs on, unless a SIGINT kills the       *)
(* command first, tracing stops before the record is read, or the kernel    *)
(* refuses the wakeup.                                                      *)
PausedResumes ==
    paused ~> \/ ~paused \/ "wakeup" \in refused
              \/ pc \in {"killed", "poststop", "decode", "done"}

(* A run with a duration ends, also when the target is suspended or stopped *)
(* by nobody but the command.                                               *)
TimedRunEnds == pc = "loop" /\ opt.timed ~> pc \in {"done", "killed"}

-----------------------------------------------------------------------------
(* What comments of the code say, and the code does not always do.         *)

(* The comment in trace_finalize: without the wakeup of the final drain     *)
(* "the target would stay suspended forever".                               *)
TargetNotLeftSuspended == pc = "done" => ~paused
=============================================================================
