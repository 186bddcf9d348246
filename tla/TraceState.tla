------------------------------ MODULE TraceState ------------------------------
(***************************************************************************)
(* What bsdtrace accumulates while it traces, and the .meta sidecar from   *)
(* which the same view is rebuilt for offline decoding (trace.c, meta.c).  *)
(*                                                                         *)
(* A path with its load and base address is one value, an image, and       *)
(* <<>> is the empty path.  Buffer positions are counted in pages.         *)
(***************************************************************************)
EXTENDS Integers, Sequences, SequencesExt

NoImage     == <<>>
KernelImage == <<0>>   \* "/boot/kernel/kernel"

(* struct bsdtrace_record, as hwt_ctx_poll_records fills it per type.      *)
ImageTypes == {"exec", "mmap", "kernel"}
ImageRecord(type, image) == [type |-> type, image |-> image]
BufferRecord(buf, page)  == [type |-> "buffer", buf |-> buf, page |-> page]
OverflowRecord(buf)      == [type |-> "overflow", buf |-> buf]
ThreadRecord(type, tid)  == [type |-> type, tid |-> tid]
UnmapRecord              == [type |-> "munmap"]

-----------------------------------------------------------------------------
(* The sidecar.  A writer that could not be opened swallows every line.    *)

MetaOpen(opened) == [open |-> opened, lines |-> <<>>]

(* meta_writer_header; the timing line that may follow names no image.     *)
MetaHeader(meta, tid) ==
    IF meta.open
    THEN [meta EXCEPT !.lines = Append(@, [type |-> "header", tid |-> tid])]
    ELSE meta

MetaRecord(meta, rec) ==
    IF meta.open /\ rec.type \in ImageTypes \cup {"thread_create", "thread_set_name"}
    THEN [meta EXCEPT !.lines = Append(@, rec)]
    ELSE meta

MetaSections(meta, sections) ==
    IF meta.open THEN [meta EXCEPT !.lines = @ \o sections] ELSE meta

(* The scanf of the reader does not match a line with an empty path.       *)
Parses(line) == line.type \in ImageTypes /\ line.image # NoImage

MetaReadSections(lines) ==
    FoldLeft(LAMBDA sections, line :
                 IF ~Parses(line) THEN sections
                 ELSE IF line.type = "exec" THEN <<line>>
                 ELSE Append(sections, line),
             <<>>, lines)

MetaReadTid(lines) ==
    IF lines # <<>> /\ lines[1].type = "header" THEN lines[1].tid ELSE -1

-----------------------------------------------------------------------------
(* struct trace_state.                                                     *)

TraceStateInit(meta) ==
    [sections |-> <<>>, meta |-> meta, lastPage |-> -1, maxPage |-> -1,
     wrapped |-> FALSE, overflows |-> 0]

AddSection(ts, image, type) ==
    IF image = NoImage THEN ts
    ELSE [ts EXCEPT !.sections = Append(@, ImageRecord(type, image))]

ResetSections(ts) == [ts EXCEPT !.sections = <<>>]

(* Mutant: the comparison is swapped.                                      *)
NoteBufferSwapped(ts, page) ==
    [ts EXCEPT !.wrapped  = @ \/ (ts.maxPage >= 0 /\ page > ts.maxPage),
               !.maxPage  = IF page > @ THEN page ELSE @,
               !.lastPage = page]

NoteBuffer(ts, page) ==
    [ts EXCEPT !.wrapped  = @ \/ (ts.maxPage >= 0 /\ page < ts.maxPage),
               !.maxPage  = IF page > @ THEN page ELSE @,
               !.lastPage = page]

(* Mutant: an exec does not discard the sections of the old program.       *)
NoteImageKeepsStale(ts, rec) ==
    IF rec.image = NoImage THEN ts ELSE AddSection(ts, rec.image, rec.type)

NoteImage(ts, rec) ==
    IF rec.image = NoImage THEN ts
    ELSE AddSection(IF rec.type = "exec" THEN ResetSections(ts) ELSE ts,
                    rec.image, rec.type)

(* trace_state_process: the sidecar first, then the state.                 *)
Process(ts, rec) ==
    LET noted == [ts EXCEPT !.meta = MetaRecord(@, rec)]
    IN  CASE rec.type = "buffer"        -> NoteBuffer(noted, rec.page)
          [] rec.type = "overflow"      -> [noted EXCEPT !.overflows = @ + 1]
          [] rec.type \in ImageTypes    -> NoteImage(noted, rec)
          [] OTHER                      -> noted

(* Mutant: the seed is not written to the sidecar.                         *)
SeedUnwritten(ts, images) ==
    [ts EXCEPT !.sections =
        @ \o [i \in DOMAIN images |-> ImageRecord("mmap", images[i])]]

(* trace_state_seed_process_mmaps, given what the sysctl returned.         *)
Seed(ts, images) ==
    LET sections == [i \in DOMAIN images |-> ImageRecord("mmap", images[i])]
    IN  [ts EXCEPT !.meta = MetaSections(@, sections), !.sections = @ \o sections]

(* trace_state_ensure_kernel; known says whether the sysctl succeeded.     *)
EnsureKernel(ts, known) ==
    IF ~known \/ \E i \in DOMAIN ts.sections : ts.sections[i].type = "kernel" THEN ts
    ELSE AddSection(ts, KernelImage, "kernel")

(* The sidecar of one extra thread, written from the live sections.        *)
ThreadMeta(ts, tid, opened) ==
    MetaSections(MetaHeader(MetaOpen(opened), tid), ts.sections)
=============================================================================
