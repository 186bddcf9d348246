# ObservableBSD: specifications, model checking and proofs

TLA+ models of the parts of ObservableBSD whose correctness depends on the order
in which things happen or on arithmetic that is hard to test: the OTLP exporter
shared by the tools, the `watch` session of bsdinstruments, the `exec` and
`trace` sessions of bsdtrace, its instruction decoder with the image, symbols
and filters it works with, and the sampling of hwtlm. Every definition is
translated from the code; `PROJECT.json` names the lines.

## The system

ObservableBSD is three command-line tools and a library.

| Component | State | Operations | Hard part |
|---|---|---|---|
| `OTelExport` OTLP exporter (`OTLPHTTPJSONExporter.swift`) | log batch, metrics batch, pending drops, sender queue, flush timer, URL session | start, emit event/snapshot, reportDrops, flush, shutdown, timer flush, post with retries | two threads and a timer share the batches; replies get lost; shutdown races all of them |
| Other exporters (text, JSONL, collapsed) | folded counts (collapsed) | emit, shutdown | none; formatting |
| `bsdinstruments watch` (`WatchRunner.swift`, `Profile.swift`) | accumulator of one event, error box, stop flag, libdtrace buffers | setup, poll, line handler, drop handler, final flush, aggregation walk, shutdown | events are reassembled from a flat stream of lines; failures and signals cut it short |
| Profile loader, filters | profile set, predicates | resolve, render | text substitution |
| `bsdtrace exec` / `trace` (`cmd_exec.c`, `cmd_trace.c`) | child or target, record loop, limits, signals | fork/attach, configure, start, poll loop, reap | target, kernel and command run concurrently; each step may fail |
| Trace state (`trace.c`) | sections, buffer extent, wrap and overflow flags | process record, seed, drains, finalize | records race with the seed, the stop and the target's mappings |
| HWT context (`hwt.c`) | descriptors, thread table | alloc, config, start, poll, wakeup, open thread, stop, close | suspended targets; late records; bounded table |
| `.meta` sidecar (`meta.c`) | a file of lines | header, record, sections, read back | must rebuild the live state, also after a crash |
| PT decoder (`decode.c`), `bsdtrace decode` | shadow stacks, call tree, profile, folded stacks | per-instruction steps of five reports, resynchronisation | unmatched calls and returns, gaps, missing symbols, table limits |
| Image and symbols (`elf.c`, `symbols.c`), snapshot length (`trace.c`), ranges (`resolve.c`) | sections, image, symbol table, filter | load addresses, lookup, choice of the extent, slide | one file is named by several records; slides; lost positions |
| `hwtlm` | previous counters, deadline, stop flag | sample, exec, watch, list | counter roll-over, failures between reads, interval against deadline |
| Kernel patches (`KernelConf/`) | HWT contexts and PT buffers | — | only their effect on user space is in scope |

How they interact: the run loop of a tool calls an `Exporter` synchronously from
a libdtrace callback; the OTLP exporter hands work to a dispatch queue; bsdtrace
talks to the kernel through ioctls on context and thread devices, learns about
the target from a record queue, and resumes a suspended target by another
ioctl; live and offline decoding meet in the sidecar.

What makes each correct is listed with the modules below; everything that is
hard to test is under `hazards` in `PROJECT.json`, at its line.

## Modules

| Module | Models | Uses |
|---|---|---|
| `Delivery` | what the `Exporter` protocol promises of an item | |
| `OTLPExporter` | the OTLP exporter | instantiates `Delivery` |
| `OTLPExporterProofs` | theorems and proofs | `OTLPExporter`, `InductionTheorems` |
| `WatchRunner` | a `watch` session | |
| `WatchRunnerProofs` | theorems and proofs | `WatchRunner`, `InductionTheorems` |
| `MCWatchRunner` | command lines and profile shapes | `WatchRunner` |
| `TraceState` | trace state and sidecar, as operators | |
| `TraceSession` | an `exec` or `trace` session with target and kernel | `TraceState` |
| `TraceSessionProofs` | theorems and proofs | `TraceSession`, `InductionTheorems` |
| `MCTraceSession` | the command lines and bounds of each run | `TraceSession` |
| `Decode` | the decode loop and the recorders of profile, tree, callers, collapsed and speedscope, next to the thread that is traced | |
| `MCDecode` | bounds by format | `Decode` |
| `DecodeProofs` | theorems and proofs | `Decode`, `InductionTheorems` |
| `Snapshot` | how much of a buffer is saved, as operators | |
| `SymLookup` | the symbol table and its binary search | |
| `Image` | from the records of a trace to image, symbols, fallback ranges and filter; implements `SymLookup` | `SymLookup`, `Snapshot` |
| `MCImage` | six small ELF files | `Image` |
| `ImageProofs` | theorems and proofs, those about `Snapshot` and `SymLookup` too | `Image`, `InductionTheorems` |
| `Hwtlm` | `hwtlm watch` and `hwtlm exec` with the RAPL sampler | |
| `HwtlmProofs` | a theorem about it | `Hwtlm`, `TLAPS` |
| `InductionTheorems` | induction over numbers and sequences, folds over sequences, sums over finite sets, minima and flattened sequences | `TLAPS` |

An operator whose comment begins with "Mutant" is a plausible bug of the
definition after it; each property is shown to fail with one of them.

### OTLPExporter

`batch`, `metricsBatch`, `pendingDrops` are the fields under the lock. A take is
one action (`EmitEvent`, `TakeAll`), because the code holds the lock for exactly
that long; the hand-off to the queue (`AsyncPost`) and each attempt of a post
(`PostAttempt`) are steps of their own, so that everything else may happen in
between. `posts[t]` are the payloads thread `t` has taken and not yet posted,
`senderQueue` the serial dispatch queue, which also carries timer events. The
collector is external: an attempt comes back with success (with or without a
partial rejection), a retryable failure or a fatal status, and independently of
that the collector stores what was sent (`CollectorStores`), once for each
request: before the reply, after the client has timed out and posted again, after
shutdown, or never. Items are numbered in the order of their emission; `given`,
`delivered`, `abandoned`, `sent`, `copies`, `reported`, `noted` are history.

Properties: takes are runs of consecutive items; no item is in two places; an
item is stored at most once per attempt, and no request carries it after its post
has returned (the collector may still store one that was sent before); shutdown
leaves nothing behind; drops are never counted twice; the whole implements
`Delivery` (an item, once accepted, is settled exactly once, and closing requires
that nothing is pending).

### WatchRunner

The kernel (external) appends firings to a bounded buffer or drops them; `Poll`
is a call of `dtrace_work`, which runs the drop handler and then delivers the
lines of the firings it took, one handler call each (`HandleLine`). A firing's
lines follow from its clause's shape and from `Profile.render`
(`StackAction`, `UstackAction`). `Flushed` and `GiveEvent` are the two effects of
`flushPending`. Setup, `go`, `dtrace_work`, the aggregation walk and every call
of the exporter may fail (`Faults`); `SurfaceError` is where an exporter's error
becomes the error of `run()`, which then skips flush and shutdown. The text
backend is `PollText`.

Properties: each event has exactly the frames of its own firing, in the right
stacks; every printed line is given to the exporter once and in order, the last
one too; every aggregation record is one data point of one snapshot; a signal
ends the session; a session ended by the script's `exit()` accounts for every
firing.

### TraceState and TraceSession

`TraceState` holds `struct trace_state` and the sidecar as pure operators, one
per function of `trace.c` and `meta.c`. `TraceSession` is the command's control
flow (`pc` names the step), the target (executes, maps, unmaps, creates threads,
fills trace pages, ends; suspended at a mapping with pause-on-mmap) and the
kernel context (record queue, BUFFER records queued by an asynchronous task that
reads the position when it runs, or never queues one: `LoseBuffer`). An exec may
be reported without a path (`TargetExecsUnnamed`), which resets no sections;
`named` is the last program whose exec was seen with one. Both commands are one module with a record
`opt` for the command line, since they share `trace.c` and `hwt.c` and differ in
how they start and in the checks at the top of their loop. The set-up actions
each have a failing alternative; `Abort` and `AbortReap` undo them. `fds` are the
control device and the kqueue, `devices` the context device and those of the
threads: `AllocContext` may fail before each of them, also at the open of the
context device, when the context is allocated and `hwt_ctx_close` has nothing to
send a STOP to. With `Faults`, polls, wakeups (`Wakeup`) and stops
(`StopContext`) may be refused; `refused` remembers it. `Interrupt`
is SIGINT: a flag in `trace` once the handler is installed, death elsewhere.

Properties: whatever fails, every descriptor is closed, no context is left
tracing unless the kernel refused the STOP, and the child is reaped; the sections
used for decoding cover the target's mappings and hold none of a program replaced
by an exec with a path; the sidecar reads back as the live sections at
every moment before finalization, and each thread's sidecar as its number and
the final sections; a reported wrap is real; the extent after the post-stop drain
is, for one thread, a position that the buffer reached, and at least that of the
last BUFFER record queued before the stop (`reached`), unless a poll of the drain
failed (a record may be lost, so no more can be said: `trace.c` calls the extent a
lower bound); a suspended target is woken unless the kernel refuses; a timed run
ends. If the STOP is refused, the drain after it goes on as long as the target
produces records: in the model the load bounds that, in the code nothing does.

### Decode

The traced thread executes one instruction at a time on a stack of its own
(`frames`): near and far calls, tail jumps, returns, also below the frame in
which the trace begins. `DecodeInsn` gives the instruction to the recorder of
the chosen format, as the loop of `decode_pt_insn` does; `LoseTrace`, `LoseInsn`
and `Sync` are a gap, after which the recorders keep what they had. A node of
the call tree is identified by its path, and a pointer on the shadow stack also
by how often the array it points into had been moved. A folded stack is counted
by its line: `collapsed_build_stack` joins the names (`NameOf`) by semicolons and
keeps what fits in the buffer (`LineSize`, 8192). Stacks of functions with the same
names, and stacks that differ only behind the cut, share a line. (When a name does
not fit, the code also moves the offset of the terminator past the buffer; the line
is taken to be what `snprintf` wrote.) `calls`, `spent` and
`samples` record what the thread did while no instruction was lost and all had
symbols.

Properties: the shadow stack is the thread's stack; every call is counted
between the right caller and callee; times of the tree add up, under recursion
too; a profile's times never overlap, whatever is lost; no pointer dangles;
every folded line has the number of returns from the stacks written as this line,
or the table was full.

### Image, SymLookup and Snapshot

A process attached to or executed has files mapped at slides; the kernel's
EXEC and MMAP records (external) become sections as in `TraceState`. The model
then follows the code: the extent of the buffer (`Snapshot`), the load address
of each section, its segments and symbols, the interpreter named only by an EXEC
record, the sorted table, the lookup loop step by step, the fallback ranges, and
the ranges resolved for `-r` before the trace starts. A file is a sequence of
segments and functions with small addresses; `MCImage` has the usual layout (a
read-only segment first), a file whose first segment is executable, a library
with two executable segments and two functions of different sizes at one address,
and functions without a size. A range is named by the path of its file; the code
uses the base name, and for the interpreter the fixed name `ld-elf.so.1`. A buffer is described by where it ends, where its last byte that
is not zero is and which units decode.

`reported` is, by file, the last header whose mapping the kernel has reported;
the map of a process that is attached to is any sequence of its executable
mappings in the order of addresses. `sym_table_sort` puts every entry at its
place; `qsort` is not stable, so both orders of the entries at one address are
tried. Of the files, `ElfAssumption` says what linkers guarantee: the PT_LOAD
headers ascend, the first one begins a page, and there is code. `InterpAssumption`
says that the interpreter is at a user address and not where the main file is,
which is how `build_pt_image` recognises it.

Properties: nothing that decodes is cut off; image, symbols and ranges are where
the files run; the binary search finds the last entry at or below an address, so
that a function at the address of the one running is found; nothing is returned
only when that is an alias which ends before the instruction; `Image` implements the lookup specification; the filter is right in exec mode,
and in trace mode for files whose first segment is executable.

### Hwtlm

The energy of a domain grows at any moment; `ReadMSR` reads one domain's counter,
modulo `Width`. `Prime`, `Sample` and `ExecReports` are the uses of a complete
reading; any read and any call of the exporter may fail.

Properties: the energies reported add up to what was used between the readings,
modulo the width only if a domain used that much between two readings; the
exporter is shut down on every path; watch ends at a signal and at its deadline.

## Runs

| Run | Shows | Result |
|---|---|---|
| `otlp` | safety of the exporter, its inductive invariant, refinement of `Delivery` | holds |
| `otlp_live` | shutdown returns; every event settles | holds |
| `watch` | stacks, order of events, partition of aggregations, accounting at `exit()`, with failures; a signal ends the session | holds |
| `watch_user_stack` | kernel frames in `stack`, user frames in `ustack`, with `--with-ustack` alone | **violated** |
| `trace` | clean-up, sections, sidecars, thread table, wrap and extent, for the nine command lines of `MCTraceSession` | holds |
| `trace_live` | suspended targets resume, timed runs end | holds |
| `trace_suspended` | no target is left suspended | **violated** |
| `decode` | shadow stacks, counts, times and tables of the reports | holds |
| `decode_stubs` | a called function stays on the shadow stack until it returns, with functions that have no symbol | **violated** |
| `image` | extent, image, symbols, lookup, fallback ranges, filter | holds |
| `image_ranges` | ranges are the run-time addresses, in every layout | **violated** |
| `hwtlm` | energy, exporter shutdown, end of watch | holds |

A violated run checks what a comment or a document of the repository says;
`findings` in `PROJECT.json` quotes it next to the code.

More shows in the models and contradicts no text, or only a text too loose to
state a property from:

* exporter: drops reported before a flush that carries no log record are reset
  with it; batches queued while the collector fails are not bounded; a
  Retry-After is slept in full; a flush from the caller may overtake a batch on
  the sender queue;
* watch: the stack of a clause that prints nothing joins the event of another
  firing; after a signal the firings still in the kernel's buffer are not
  exported;
* bsdtrace: the kernel section added for `-K` is not in the sidecar; `exec`
  kills by pid at a limit also after the child was reaped, and installs no SIGINT
  handler; BUFFER records of other threads are taken for the traced thread's; a
  wrap that passes the highest page seen is missed; a thread reported only after
  the stop has no buffer saved;
* decoder: the class of the instruction before a gap is kept across it, so that
  a resynchronisation at the start of a function can count as a call; the
  profile does not note the class of an instruction without a symbol; at
  `MAX_STACK_DEPTH` a push is dropped and its pop is not; a profile's time
  misses the outer calls of a recursion; an error while reading an event ends
  the decoding without a warning;
* image: the filter of `-r` stays when the process executes another file;
  without sections a stop position that lost its page cuts the trace;
* hwtlm: the reading at which a signal is noticed is not reported.

### Bounds

* `otlp`: batch size 2 and three events give a full batch, a partial one and a
  take in between; one snapshot and one drop suffice, since takes do not tell
  more of them apart; one retry gives a first, a repeated and a final attempt.
* `watch`: three firings of three shapes (both stacks, two lines and no stack,
  user stack only) in a buffer of two give every pair of neighbours and a drop;
  two aggregation records of two actions of one name give merging and keeping
  apart.
* `trace`, `trace_live`: polls of two records, two empty drains, two post-stop
  polls and a buffer of two or three pages stand for 256 (or 512), 5, 40 and the
  `-s` size: each is at least two, so that loops go round and stop in the middle
  of a queue. Three mapping changes (two in the timed `trace` session) give an exec
  between two mappings; two extra threads exceed a table of one. The sessions of `MCTraceSession` combine
  the options with the kinds of target steps that matter to them.
* `decode`: two functions, one entered by far calls, and one without a symbol
  give recursion, mutual calls and calls between both worlds; the limits of the
  tables are one or two, so that they are passed; one gap, at any place. Five
  (profile) to seven (collapsed) instructions suffice for two nested calls with
  their returns and for a table that is full. Names of one and two characters in a
  buffer of four make two stacks of two functions share a line.
* `image`: three slides for three files mapped at once; two execs give a second
  address space; a table of four ranges is too small for the largest process; a
  buffer of five units in pages of two has a lost page index and a partial page.
* `hwtlm`: two domains, counters modulo 2 and energy up to 4 give roll-overs of
  one and of several rounds at different moments of a reading; two intervals.

Deadlock is checked, except in the runs of `Decode`: a trace may end in any
state, and the decoder with it. Elsewhere a finished session only stutters by an
explicit action.

### Fairness

* Exporter: a call in progress runs on, the serial queue runs its jobs and the
  timer repeats (libdispatch); an attempt ends because the URL session has a
  request timeout. Nothing obliges a tool to call the exporter.
* Watch: the run loop is a scheduled thread. Nothing makes probes fire, the
  script exit or the user interrupt.
* Trace: the command is a scheduled process and a killed child dies. A duration
  elapses, so a check at the top of a loop that is passed again and again is
  eventually taken (strong fairness of `ExecLimit` and `TraceLimit`). The target
  is under no fairness: it may block for ever.
* Hwtlm: the command is a scheduled process and a sleep ends (`usleep`).

## Proofs

`OTLPExporterProofs` proves, for every batch size, retry limit, timer setting and
bound, that the specification implies `TypeOK`, `IInv`, `DrainedWhenInvalid`,
`TakesAreRuns`, `CopiesBounded`, `NoRequestAfterSettled`, `DropsNotInflated` and
`DeliverySpec`. The only assumption is `ExporterAssumption`: the batch size is positive, the other
numbers are naturals.

`DropsNotInflated` is inductive with `TypeOK`: a take moves the pending count to a
payload, a handoff moves a payload between the sums over the caller, the queue
and the sender, a settled post moves its count to `noted`, and only a report adds
to either side. None of the other safety properties is inductive alone. `IInv` says where every item
is: a batch is the run of the items given last (`BatchInv`); payloads hold
non-empty runs and one take yields at most one payload per path (`ShapeInv`);
items in flight are taken and unsettled (`OpenInv`), in one place only
(`ApartInv`), and every taken item is settled or in flight (`NothingLostInv`);
where the caller is determines what is empty and that the timer is not armed
(`ControlInv`), which is what makes shutdown drain; the requests that carried an
item are bounded by the attempts of the post in progress (`CopiesInv`), and the
copies at the collector by the requests (`StoredInv`). Each action is
one lemma or step; facts about what a sequence of payloads carries
(appending, taking the tail, taking all) are lemmas of their own. The refinement
maps `pending` to the given items that are not settled and `open` to "shutdown
has not returned"; every step is an `Accept`, `Deliver`, `Abandon`, `Close` or a
stutter.

`ImageProofs` proves, for every set of ELF files, slides, buffers, range
arguments and lookups, all that the run `image` checks: `SavedWhole`,
`ImageTrue`, `LookupTrue`, `FallbackTrue`, `FilterTrue`, `FindsLast`, and that
`Image` implements `LookupSpec`.

* The extent. `NothingDecodableCut`: the known end is kept only if probing it
  gives as many instructions as probing everything, and nested finite sets of the
  same size are equal. `SavedInv` adds that the probe is made with the sections
  there are, and the result is `SavedWhole`.
* The binary search. `FindsLast` says nothing of a search under way; `LookupInv`
  adds the order of the table and what is known of both sides of the part that
  remains. `LookupRefined` shows that the table `ImageBuilt` installs is sorted:
  the places of the entries are a permutation, because places are distinct and
  between 1 and the length, and places ascend with addresses. So the search finds
  the last entry also in every table built from sections.
* The addresses. Image, symbols and fallback ranges are all computed from the
  sections, by themselves no more than addresses. `SectionInv` says what each of
  them means: an EXEC section comes first and has the slide of a mapped main file
  and the place of its interpreter, an MMAP section has the page of an executable
  segment of a mapped file, the kernel's its base. `NamedInv` says that no file is
  missing: a main file that is mapped has an EXEC section or one for its *first*
  executable segment, so does every file of which a mapping was reported, and the
  interpreter has one or is named by the EXEC section. The first segment is what
  matters: `section_should_use` takes the MMAP of the lowest address, and
  `elf_effective_load_addr` takes it for the lowest segment. Since the headers
  ascend and `trunc_page` keeps their order, the first segment reported is the
  lowest. `BuildInv` says that image and symbols are those of the sections before
  `next`. From these, a section that contributes does so at the file's slide, and
  every known file is contributed by some section; the three properties follow.
* The filter. `FilterInv` has the slide by which each range was computed: none
  in exec mode, where position-independent files are refused, and in trace mode
  the page of the first executable segment less the base of the file, which is
  the file's slide when that segment is the first. When it is not, the run
  `image_ranges` shows the difference.

Used are `ImageAssumption`, `PathAssumption`, `ElfAssumption`, `InterpAssumption`,
`FallbackAssumption` and `SnapshotAssumption`; nothing is assumed of the sizes of
functions, of aliases, of the number of files, or of functions that overlap.

`WatchRunnerProofs` proves, for every buffer size, set of clause shapes, command
line and choice of failures, `BodiesInOrder`, `AllAccounted`, `WholeStacks` and
`SnapshotsPartition`. The order of the events is one equation (`OrderInv`):
what was printed is what the exporter was given followed by the event that is
accumulating; `PhaseInv` says at which steps none is. For the accounting,
`DropsInv` adds up what was lost, and `FiringsInv` says that a firing was
dropped, or is in the buffer, in the lines being delivered, or printed, until a
poll is cut short; `ExitInv` says what the last poll leaves. For the stacks,
`StacksInv` describes the lines still to be handled: the rest of the firing that
is accumulating, followed by whole firings (`Ahead`), so that a frame always
meets the event of its own firing; an event that is not whole is the last one
before a failure. `WholeStacks` has two hypotheses. `Marked` is that
`--with-ustack` comes with `--with-stack`: without it `render` puts no marker
before the user stack and the frames go to the wrong field, which is what the run
`watch_user_stack` shows. `Prints` is that every clause prints: the stack of one
that does not joins the event of another firing. The run `watch` satisfies both.
`SnapshotsInv` says of each group of aggregation records that its points are the
indices of the records of its key, in increasing order, and that a key already
emitted is no longer a group.

`TraceSessionProofs` proves, for every session, number of records and pages and
bound of the thread table, `TypeOK`, `CleanExit`, `SectionsCover`,
`SidecarMatchesLive`, `ThreadSidecarsReplay`, `WrapIsReal` and
`ExtentIsLowerBound`. `ContextInv`, `ChildInv` and `SetupInv` say what each step of
the command has acquired and not yet released; a context that still traces after
the STOP was sent is one whose STOP was refused. The records not yet processed are
one sequence, `Pend == batch \o queue`: a poll moves records within it,
processing takes its head, the kernel appends to it. Only an exec with a path
resets the sections. `ImagesInv` says that a mapping of the target is named by a
record of `Pend` that no such exec follows or, once the map is seeded, by a
section, and that no section is of a program before the last one named unless a
reset is still to come; `UntracedInv` that before the start there are only thread
records. `BufferInv` says that the pages noted and the ones in `Pend` grow until
the buffer wraps, and that the last BUFFER record, noted or still to come, is one
of `Ends`: the ends the buffer has had since the last record queued before the
stop. `DrainInv` adds what the drain is for: a poll of it that returned nothing
has seen every record queued before the stop, so unless one of its polls failed
the extent noted is one of `Ends`. That reading
the sidecar gives the sections (`SidecarInv`) is an induction over its lines:
reading is a fold, and one line more is one step more.

`DecodeProofs` proves, for traces of every length, every set of functions and
every limit of the tables, all safety properties of `Decode`: `TypeOK`,
`ProfileTimeBounded`, `PointersLive`, `ShadowIsStack`, `StacksCounted`,
`CallsCounted` and `TimesAddUp`. `TreeInv` says that the shadow stack is a path
from the root and that its i-th pointer is into the array of the node above; a
push can move only the array of the top, into which no pointer of the stack
points. `ArrivalInv` is why the class of the previous instruction is enough to
know that a frame was entered: while nothing is lost it is a call's exactly when
the frame is above the lowest depth. `TableInv` has the limits of the folded
stacks and `ProfileInv` the order of the times. The reports of callers are sums
over the nodes of a tree; `FiguresInv` adds that the functions on the thread's
stack have symbols (`CallersInv`), that the nodes on the shadow stack carry the
entry times of its frames (`EntriesInv`) and that there are finitely many nodes.
A push adds one to one term of two sums, a pop adds the time of one call to one
term of one. The assumptions beyond the signs of the numbers are that symbols
are finitely many, that "none" is not one of them and that the bound on frames
is at least two, where decoding begins.

`HwtlmProofs` proves `EnergyAccounted` for every counter width and set of
domains. `ReadingsOrdered` relates the counters kept from the last reading to
the energy at the moment each was read, also half-way through a reading;
`ReportsExact` says that what is not reported is a multiple of the width, and
nothing while no domain used that much between two readings.

`InductionTheorems` has what the others need of induction. The library's
induction theorems take a predicate as a parameter, which the provers cannot
instantiate; here induction is stated with a set, from the well-foundedness of
the natural numbers and the theorem that a set has a minimal element. On it rest
the existence of the functions by which the community modules define folds over
sequences and sums over finite sets, and what these do when an element is
appended or a term changes, and what a flattened sequence contains.

Every safety property of a passing run is thus a theorem. Only model-checked is
what is out of the prover's reach: liveness (`ShutdownReturns`,
`EveryEventSettles`, `SignalEnds`, `PausedResumes`, `TimedRunEnds`, `WatchEnds`).

## Not modelled

Formatting (text, JSON, gzip, OTLP envelopes, the text and JSON listings of the
decoder and its packet dump), parsing of ELF, DWARF, D sources and options,
`list` commands, the profile loader (text substitution), and the kernel beyond
what user space observes of it. The lengths of sleeps are abstracted: a
Retry-After of an hour is a sleep like any other. Memory allocation failures are
left out, and so are signal handlers of the traced thread, which enter and leave
functions without calls, and libraries unmapped and mapped again elsewhere. Of
hwtlm, temperatures and frequencies are left out: they are read and printed.

## Plan

1. Composition of `WatchRunner` with `OTLPExporter` through `Delivery`: from a
   firing to the collector.
2. Asynchronous entries (signal handlers) in `Decode`, remapped libraries in
   `Image`.
