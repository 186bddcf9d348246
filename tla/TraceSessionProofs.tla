-------------------------- MODULE TraceSessionProofs --------------------------
(***************************************************************************)
(* Proofs about TraceSession, for every command line, every load of the    *)
(* target and every size of the kernel's and the command's tables.         *)
(***************************************************************************)
EXTENDS TraceSession, InductionTheorems, FiniteSetTheorems

-----------------------------------------------------------------------------
(* Reading a sidecar back, one line at a time.                             *)

MetaReadStep(sections, line) ==
    IF ~Parses(line) THEN sections
    ELSE IF line.type = "exec" THEN <<line>>
    ELSE Append(sections, line)

IsRead(it, lines) ==
    it = [s \in SUBSET (DOMAIN lines) |->
            IF s = {} THEN <<>>
            ELSE MetaReadStep(it[s \ {Max(s)}], lines[Max(s)])]

LEMMA MetaReadFold ==
    ASSUME NEW lines
    PROVE  MetaReadSections(lines) = (CHOOSE it : IsRead(it, lines))[DOMAIN lines]
  BY DEF MetaReadSections, FoldLeft, MapThenFoldSet, MetaReadStep, IsRead

LEMMA ReadStep ==
    ASSUME NEW lines, NEW n \in Nat, DOMAIN lines = 1..n, NEW it, IsRead(it, lines)
    PROVE  /\ it[1..0] = <<>>
           /\ \A k \in 0..(n - 1) :
                 it[1..(k + 1)] = MetaReadStep(it[1..k], lines[k + 1])
  <1>1. 1..0 = {}  OBVIOUS
  <1>2. it[1..0] = <<>>  BY <1>1 DEF IsRead
  <1>3. ASSUME NEW k \in 0..(n - 1)
        PROVE  it[1..(k + 1)] = MetaReadStep(it[1..k], lines[k + 1])
    <2> DEFINE s == 1..(k + 1)
    <2>1. s \in SUBSET (1..n) /\ s # {} /\ k \in Nat  OBVIOUS
    <2>2. Max(s) = k + 1 /\ s \ {k + 1} = 1..k  BY <2>1, MaxOfPrefix
    <2> HIDE DEF s
    <2>3. it[s] = MetaReadStep(it[s \ {Max(s)}], lines[Max(s)])  BY <2>1 DEF IsRead
    <2> QED  BY <2>2, <2>3 DEF s
  <1> QED  BY <1>2, <1>3

LEMMA ReadExists ==
    ASSUME NEW L, NEW lines \in Seq(L)
    PROVE  /\ IsRead(CHOOSE it : IsRead(it, lines), lines)
           /\ MetaReadSections(lines) \in Seq(L)
  <1> DEFINE n == Len(lines)
             V == Seq(L)
             G == [p \in V \X (1..n) |-> MetaReadStep(p[1], lines[p[2]])]
  <1>1. n \in Nat /\ DOMAIN lines = 1..n  OBVIOUS
  <1>2. G \in [V \X (1..n) -> V]
    <2> SUFFICES ASSUME NEW p \in V \X (1..n)
                 PROVE  MetaReadStep(p[1], lines[p[2]]) \in V
      OBVIOUS
    <2>1. p[1] \in Seq(L) /\ lines[p[2]] \in L  OBVIOUS
    <2> QED  BY <2>1 DEF MetaReadStep
  <1>3. <<>> \in V  OBVIOUS
  <1>4. PICK it \in [SUBSET (1..n) -> V] : IsIter(it, n, <<>>, G)
    <2> HIDE DEF n, V, G
    <2> QED  BY <1>1, <1>2, <1>3, IterExists
  <1>5. \A s \in SUBSET (1..n) : s # {} => Max(s) \in 1..n
    BY <1>1, MaxOfIndices
  <1>6. \A s \in SUBSET (1..n) :
           it[s] = IF s = {} THEN <<>> ELSE MetaReadStep(it[s \ {Max(s)}], lines[Max(s)])
    <2> TAKE s \in SUBSET (1..n)
    <2>1. it[s] = IF s = {} THEN <<>> ELSE G[<<it[s \ {Max(s)}], Max(s)>>]
      BY <1>4 DEF IsIter
    <2>2. s # {} => <<it[s \ {Max(s)}], Max(s)>> \in V \X (1..n)
      BY <1>4, <1>5
    <2> QED  BY <2>1, <2>2
  <1>7. IsRead(it, lines)  BY <1>1, <1>4, <1>6 DEF IsRead
  <1> DEFINE c == CHOOSE r : IsRead(r, lines)
  <1>8. IsRead(c, lines)  BY <1>7
  <1>9. c[1..n] = it[1..n]
    <2> DEFINE S == {k \in 0..n : c[1..k] = it[1..k]}
    <2> HIDE DEF c
    <2>1. 0 \in S  BY <1>7, <1>8, <1>1, ReadStep
    <2>2. ASSUME NEW k \in 0..(n - 1), k \in S PROVE k + 1 \in S
      <3>1. k + 1 \in 0..n  OBVIOUS
      <3>2. c[1..(k + 1)] = MetaReadStep(c[1..k], lines[k + 1])
        BY <1>8, <1>1, ReadStep
      <3>3. it[1..(k + 1)] = MetaReadStep(it[1..k], lines[k + 1])
        BY <1>7, <1>1, ReadStep
      <3> QED  BY <3>1, <3>2, <3>3, <2>2
    <2>3. 0..n \subseteq S
      <3> HIDE DEF S
      <3> QED  BY <2>1, <2>2, <1>1, InductionTo
    <2> QED  BY <2>3, <1>1
  <1>10. MetaReadSections(lines) = c[1..n]  BY MetaReadFold, <1>1
  <1> HIDE DEF c
  <1>11. it[1..n] \in V  BY <1>4
  <1> QED  BY <1>8, <1>9, <1>10, <1>11 DEF c

LEMMA MetaReadNothing == MetaReadSections(<<>>) = <<>>
  <1>1. <<>> \in Seq({}) /\ DOMAIN <<>> = {}  OBVIOUS
  <1>2. IsRead(CHOOSE it : IsRead(it, <<>>), <<>>)  BY <1>1, ReadExists
  <1> QED  BY <1>1, <1>2, MetaReadFold DEF IsRead

(* meta_read reads a line after those before it.                           *)
LEMMA MetaReadAppend ==
    ASSUME NEW L, NEW lines \in Seq(L), NEW line \in L
    PROVE  MetaReadSections(Append(lines, line))
              = MetaReadStep(MetaReadSections(lines), line)
  <1> DEFINE n == Len(lines)
             longer == Append(lines, line)
             it == CHOOSE r : IsRead(r, lines)
             jt == CHOOSE r : IsRead(r, longer)
             S  == {k \in 0..n : jt[1..k] = it[1..k]}
  <1>1. /\ n \in Nat /\ DOMAIN lines = 1..n /\ DOMAIN longer = 1..(n + 1)
        /\ longer \in Seq(L) /\ longer[n + 1] = line
        /\ \A k \in 1..n : longer[k] = lines[k]
    OBVIOUS
  <1>2. IsRead(it, lines)   BY ReadExists
  <1>3. IsRead(jt, longer)  BY <1>1, ReadExists
  <1>4. MetaReadSections(lines) = it[1..n]         BY <1>1, MetaReadFold
  <1>5. MetaReadSections(longer) = jt[1..(n + 1)]  BY <1>1, MetaReadFold
  <1> HIDE DEF it, jt, n, longer
  <1>6. 0 \in S  BY <1>1, <1>2, <1>3, ReadStep
  <1>7. ASSUME NEW k \in 0..(n - 1), k \in S PROVE k + 1 \in S
    <2>1. k + 1 \in 0..n /\ k + 1 \in 1..n /\ k \in 0..((n + 1) - 1)  BY <1>1
    <2>2. it[1..(k + 1)] = MetaReadStep(it[1..k], lines[k + 1])
      BY <1>1, <1>2, ReadStep
    <2>3. jt[1..(k + 1)] = MetaReadStep(jt[1..k], longer[k + 1])
      <3>1. n + 1 \in Nat  BY <1>1
      <3> QED  BY <3>1, <2>1, <1>1, <1>3, ReadStep
    <2> QED  BY <2>1, <2>2, <2>3, <1>1, <1>7
  <1>8. 0..n \subseteq S
    <2> HIDE DEF S
    <2> QED  BY <1>1, <1>6, <1>7, InductionTo
  <1>9. jt[1..n] = it[1..n]  BY <1>1, <1>8
  <1>10. jt[1..(n + 1)] = MetaReadStep(jt[1..n], longer[n + 1])
    <2>1. n + 1 \in Nat /\ n \in 0..((n + 1) - 1)  BY <1>1
    <2> QED  BY <2>1, <1>1, <1>3, ReadStep
  <1> QED  BY <1>1, <1>4, <1>5, <1>9, <1>10 DEF longer

(* Lines that all name an image are read as they are written, provided     *)
(* that an exec comes first and follows nothing.                           *)
ReadsBack(lines, s) ==
    \A i \in 1..Len(s) :
      /\ Parses(s[i])
      /\ s[i].type = "exec" => i = 1 /\ MetaReadSections(lines) = <<>>

LEMMA MetaReadConcat ==
    ASSUME NEW L, NEW lines \in Seq(L)
    PROVE  \A s \in Seq(L) :
             ReadsBack(lines, s)
               => MetaReadSections(lines \o s) = MetaReadSections(lines) \o s
  <1> DEFINE r == MetaReadSections(lines)
             T == {s \in Seq(L) : ReadsBack(lines, s) => MetaReadSections(lines \o s) = r \o s}
  <1>1. r \in Seq(L)  BY ReadExists
  <1>2. <<>> \in T
    <2> DEFINE nil == <<>>
    <2>1. lines \o nil = lines /\ r \o nil = r  BY <1>1, ConcatEmptySeq
    <2>2. nil \in Seq(L)  OBVIOUS
    <2> HIDE DEF nil
    <2>3. nil \in T  BY <2>1, <2>2
    <2> QED  BY <2>3 DEF nil
  <1>3. ASSUME NEW s \in Seq(L), NEW e \in L, s \in T PROVE Append(s, e) \in T
    <2> DEFINE t == Append(s, e)
    <2>1. t \in Seq(L) /\ Len(t) = Len(s) + 1 /\ t[Len(t)] = e
             /\ \A i \in 1..Len(s) : t[i] = s[i]
      OBVIOUS
    <2> SUFFICES ASSUME ReadsBack(lines, t) PROVE MetaReadSections(lines \o t) = r \o t
      BY <2>1
    <2>2. ReadsBack(lines, s)
      <3> SUFFICES ASSUME NEW i \in 1..Len(s)
                   PROVE  Parses(s[i]) /\ (s[i].type = "exec" => i = 1 /\ r = <<>>)
        BY DEF ReadsBack
      <3>1. i \in 1..Len(t) /\ t[i] = s[i]  BY <2>1
      <3> QED  BY <3>1 DEF ReadsBack
    <2>3. Parses(e) /\ (e.type = "exec" => Len(s) = 0 /\ r = <<>>)
      <3>1. Len(t) \in 1..Len(t) /\ Len(s) \in Nat  BY <2>1
      <3> QED  BY <3>1, <2>1 DEF ReadsBack
    <2>4. MetaReadSections(lines \o t) = MetaReadStep(MetaReadSections(lines \o s), e)
      <3>1. lines \o t = Append(lines \o s, e)  BY ConcatAppend
      <3>2. lines \o s \in Seq(L)  OBVIOUS
      <3> QED  BY <3>1, <3>2, MetaReadAppend
    <2>5. MetaReadSections(lines \o s) = r \o s  BY <1>3, <2>2
    <2>6. r \o t = Append(r \o s, e)  BY <1>1, ConcatAppend
    <2>7. MetaReadStep(r \o s, e) = Append(r \o s, e)
      <3>1. CASE e.type # "exec"  BY <3>1, <2>3 DEF MetaReadStep
      <3>2. CASE e.type = "exec"
        <4>1. s = <<>> /\ r = <<>>  BY <3>2, <2>3, EmptySeq
        <4>2. r \o s = <<>>  BY <4>1
        <4>3. Append(<<>>, e) = <<e>>  OBVIOUS
        <4> QED  BY <4>2, <4>3, <3>2, <2>3 DEF MetaReadStep
      <3> QED  BY <3>1, <3>2
    <2> QED  BY <2>4, <2>5, <2>6, <2>7
  <1>4. Seq(L) \subseteq T
    <2> HIDE DEF T
    <2> QED  BY <1>2, <1>3, SeqInduction
  <1> QED  BY <1>4

-----------------------------------------------------------------------------
(* The inductive invariant, in parts.                                      *)

Image == Nat \X Nat

(* The records the kernel queues.                                          *)
Recs ==
    [type : {"exec"}, image : Image \cup {NoImage}]
    \cup [type : {"mmap"}, image : Image \cup {NoImage}]
    \cup [type : {"kernel"}, image : {KernelImage}]
    \cup [type : {"buffer"}, buf : Nat, page : Nat]
    \cup [type : {"overflow"}, buf : Nat]
    \cup [type : {"thread_create"}, tid : Nat]
    \cup [type : {"munmap"}]

(* The lines of a sidecar.                                                 *)
Lines == Recs \cup [type : {"header"}, tid : Nat]

TraceStates ==
    [sections : Seq(Recs), meta : [open : BOOLEAN, lines : Seq(Lines)],
     lastPage : Int, maxPage : Int, wrapped : BOOLEAN, overflows : Nat]

Locations == {"begin", "alloc", "config", "start", "startfailed", "meta", "seed",
              "abort", "abortreap", "done", "killed"} \cup Polled

SessionTypesInv == [opt |-> opt, load |-> load] \in Sessions
ControlTypes == pc \in Locations
TargetTypes  == target \in {"none", "stopped", "running", "dying", "zombie", "reaped", "gone"}
ContextTypes == context \in {"none", "allocated", "configured", "running", "stopped"}
FlagTypes    == gone \in BOOLEAN /\ interrupted \in BOOLEAN /\ seeded \in BOOLEAN
                  /\ paused \in BOOLEAN
CountTypes   == nrecs \in Nat /\ total \in Nat /\ empty \in Nat /\ image \in Nat
                  /\ named \in Nat /\ mapped \in Nat /\ threads \in Nat
DeviceTypes  == devices \in Seq(Nat) /\ Len(devices) <= MaxThreads + 1
HandleTypes  == fds \subseteq {"ctl", "kq"} /\ refused \subseteq {"wakeup", "stop", "drain"}
WriteTypes   == swi \subseteq Tids /\ written \in [Tids -> 0..load.written]
                  /\ reached \in 0..load.written
RecordTypes  == queue \in Seq(Recs) /\ batch \in Seq(Recs)
StateTypes   == ts \in TraceStates
MapTypes     == maps \subseteq Image /\ IsFiniteSet(maps)

TypeInv ==
    /\ SessionTypesInv /\ ControlTypes /\ TargetTypes /\ ContextTypes /\ FlagTypes
    /\ CountTypes /\ DeviceTypes /\ HandleTypes /\ WriteTypes /\ RecordTypes /\ StateTypes /\ MapTypes

(* The steps before the sidecar is opened, those of trace_finalize, and    *)
(* those in which a batch of records is processed.                         *)
Setup      == {"begin", "alloc", "config", "start", "startfailed", "meta", "abort",
               "abortreap"}
Finalizing == {"finalize", "finaldrain", "stop", "poststop", "decode"}
Processing == {"process", "finaldrain", "poststop"}

(* The context is where the command has brought it, and every descriptor   *)
(* is closed on every way out.  A context traces after the command has     *)
(* sent a STOP only if the kernel refused it.                              *)
Untraced == {"none", "allocated", "configured"}

ContextInv ==
    /\ pc \in {"begin", "alloc"} => context = "none" /\ devices = <<>> /\ fds = {}
    /\ pc = "config" => context = "allocated"
    /\ pc \in {"start", "startfailed"} => context = "configured"
    /\ pc \in {"abort", "abortreap"} => context \in Untraced
    /\ pc \in {"meta", "seed"} \cup (Polled \ {"poststop", "decode"}) => context = "running"
    /\ pc \in {"poststop", "decode"} => context \in {"running", "stopped"}
    /\ pc \in {"poststop", "decode", "done"} /\ context = "running" => "stop" \in refused
    /\ pc \in {"abortreap", "done"} => devices = <<>> /\ fds = {}

(* A child does not run before tracing has started; once the command goes  *)
(* on to trace_finalize it is reaped, as it is whenever it is known to be  *)
(* gone.  Empty polls are counted only then.                               *)
ChildInv ==
    /\ IsExec =>
         /\ pc = "begin" => target = "none"
         /\ pc \in Setup \ {"begin", "abortreap"} => target = "stopped"
         /\ target = "running" => context \in {"running", "stopped"}
         /\ gone \/ pc \in Finalizing => target = "reaped"
         /\ pc = "done" => target \in {"none", "reaped"}
    /\ pc \in Setup \cup {"seed"} => ~gone
    /\ ~gone /\ pc \in {"loop", "poll", "process"} \cup Setup \cup {"seed"} => empty = 0

(* Nothing is accumulated before the sidecar is opened; a batch is left    *)
(* only by the steps that process it.                                      *)
SetupInv ==
    /\ pc \in Setup \cup {"seed"} =>
         ts.sections = <<>> /\ ts.lastPage = -1 /\ ts.maxPage = -1 /\ ~ts.wrapped
    /\ pc \in Setup \cup {"seed"} => ~seeded
    /\ pc \notin Processing \cup {"killed"} => batch = <<>>
    /\ seeded => context \in {"running", "stopped"}
    /\ pc # "done" => sidecars = {}

(* The records still to be processed, in order.                            *)
Pend == batch \o queue

(* Before tracing, the kernel has only reported threads.                   *)
UntracedInv ==
    context \in Untraced =>
      /\ \A i \in 1..Len(Pend) : Pend[i].type = "thread_create"
      /\ swi = {} /\ reached = 0 /\ \A t \in Tids : written[t] = 0

(* Of records p still to be processed: the sections are not reset, by an   *)
(* exec with a path, after the i-th of them, or by any of them.            *)
Resets(rec) == rec.type = "exec" /\ rec.image # NoImage
Fresh(p, i) == \A j \in 1..Len(p) : j > i => ~Resets(p[j])
NoExec(p)   == \A j \in 1..Len(p) : ~Resets(p[j])

(* A record that names a mapping and is not followed by a reset, and every *)
(* section s unless a reset is to come, is not of a program before the     *)
(* g-th, the last that was named.                                          *)
Named(rec)    == rec.type \in {"exec", "mmap"} /\ rec.image # NoImage
Names(rec, m) == rec.type \in {"exec", "mmap"} /\ rec.image = m

Current(p, s, g) ==
    /\ \A i \in 1..Len(p) : Fresh(p, i) /\ Named(p[i]) => p[i].image[1] >= g
    /\ NoExec(p) => \A i \in 1..Len(s) : Named(s[i]) => s[i].image[1] >= g

(* A mapping is named by such a record or, if no reset is to come and the  *)
(* process's own map is known, by a section.                               *)
Covered(p, s, known, m) ==
    \/ \E i \in 1..Len(p) : Fresh(p, i) /\ Names(p[i], m)
    \/ NoExec(p) /\ (known => \E i \in 1..Len(s) : Names(s[i], m))

ImagesInv ==
    /\ IsExec /\ pc \in Setup \ {"abortreap"} => maps = {}
    /\ named <= image /\ \A m \in maps : m[1] = image
    /\ Current(Pend, ts.sections, named)
    /\ \A m \in maps : Covered(Pend, ts.sections, seeded, m)

(* The sections all have a path, an exec is the first one, and the sidecar *)
(* reads back as they are.                                                 *)
Sound(s) == \A i \in 1..Len(s) : Parses(s[i]) /\ (s[i].type = "exec" => i = 1)

SectionsInv == Sound(ts.sections)

SidecarInv ==
    ts.meta.open /\ pc # "done" => MetaReadSections(ts.meta.lines) = ts.sections

(* Of a single thread's buffer, of which w pages are written: until it     *)
(* wraps the pages noted and to come only grow; and the last BUFFER        *)
(* record, noted or to come, is of one of the ends it has had since the    *)
(* last one queued before the stop.                                        *)
IsBuffer(rec) == rec.type = "buffer"
LastBuffer(p, i) == IsBuffer(p[i]) /\ \A j \in 1..Len(p) : j > i => ~IsBuffer(p[j])

Growing(p, high, w) ==
    \A i \in 1..Len(p) : IsBuffer(p[i]) =>
      /\ high <= p[i].page /\ p[i].page <= w
      /\ \A j \in 1..Len(p) : IsBuffer(p[j]) /\ i < j => p[i].page <= p[j].page

Ending(p, last, ends) ==
    /\ \A i \in 1..Len(p) : LastBuffer(p, i) => p[i].page \in ends
    /\ (\A i \in 1..Len(p) : ~IsBuffer(p[i])) => last \in ends

Ends == {n % Pages : n \in reached..written[0]}

BufferInv ==
    /\ \A t \in swi : t < threads
    /\ threads >= 1 /\ reached <= written[0]
    /\ threads = 1 /\ written[0] < Pages =>
         ~ts.wrapped /\ ts.maxPage <= written[0] /\ Growing(Pend, ts.maxPage, written[0])
    /\ threads = 1 /\ reached > 0 => Ending(Pend, ts.lastPage, Ends)

(* A poll of the drain that returned nothing had seen every record queued  *)
(* before the stop.                                                        *)
Drained == pc = "decode" \/ (pc = "poststop" /\ empty > 0)

DrainInv ==
    Drained /\ "drain" \notin refused =>
      /\ batch = <<>>
      /\ threads = 1 /\ reached > 0 => ts.lastPage \in Ends

Inv == /\ TypeInv /\ ContextInv /\ ChildInv /\ SetupInv /\ UntracedInv /\ ImagesInv
       /\ SectionsInv /\ SidecarInv /\ BufferInv /\ DrainInv /\ ThreadSidecarsReplay

-----------------------------------------------------------------------------
(* Records and trace states.                                               *)

LEMMA ImagesDiffer ==
    NoImage \notin Image /\ KernelImage \notin Image /\ KernelImage # NoImage
  BY DEF NoImage, KernelImage, Image

LEMMA RecFields ==
    ASSUME NEW r \in Recs
    PROVE  /\ r.type \in {"exec", "mmap", "kernel", "buffer", "overflow",
                          "thread_create", "munmap"}
           /\ r.type = "exec" => r.image \in Image \cup {NoImage}
           /\ r.type = "mmap" => r.image \in Image \cup {NoImage}
           /\ r.type = "kernel" => r.image = KernelImage
           /\ r.type = "buffer" => r.page \in Nat
           /\ r.type = "thread_create" => r.tid \in Nat
           /\ r.type \in ImageTypes => r = ImageRecord(r.type, r.image)
  BY DEF Recs, ImageTypes, ImageRecord

LEMMA RecConstructors ==
    /\ \A m \in Image : ImageRecord("exec", m) \in Recs /\ ImageRecord("mmap", m) \in Recs
    /\ ImageRecord("exec", NoImage) \in Recs /\ ImageRecord("mmap", NoImage) \in Recs
    /\ ImageRecord("kernel", KernelImage) \in Recs
    /\ \A b, p \in Nat : BufferRecord(b, p) \in Recs
    /\ \A b \in Nat : OverflowRecord(b) \in Recs
    /\ \A t \in Nat : ThreadRecord("thread_create", t) \in Recs
    /\ UnmapRecord \in Recs
  BY DEF Recs, ImageRecord, BufferRecord, OverflowRecord, ThreadRecord, UnmapRecord

(* A record that is read back is one that is added to the sections.        *)
LEMMA RecParses ==
    ASSUME NEW r \in Recs
    PROVE  Parses(r) <=> r.type \in ImageTypes /\ r.image # NoImage
  BY DEF Parses

(* Updates of a trace state, field by field.                               *)
Unchanged(p, t, kept) ==
    /\ "sections" \in kept => p.sections = t.sections
    /\ "meta" \in kept => p.meta = t.meta
    /\ "extent" \in kept => p.lastPage = t.lastPage /\ p.maxPage = t.maxPage
                              /\ p.wrapped = t.wrapped

LEMMA SetSections ==
    ASSUME NEW t \in TraceStates, NEW s \in Seq(Recs)
    PROVE  LET p == [t EXCEPT !.sections = s]
           IN  p \in TraceStates /\ p.sections = s /\ Unchanged(p, t, {"meta", "extent"})
  BY DEF TraceStates, Unchanged

LEMMA SetMeta ==
    ASSUME NEW t \in TraceStates, NEW m \in [open : BOOLEAN, lines : Seq(Lines)]
    PROVE  LET p == [t EXCEPT !.meta = m]
           IN  p \in TraceStates /\ p.meta = m /\ Unchanged(p, t, {"sections", "extent"})
  BY DEF TraceStates, Unchanged

LEMMA SetOverflows ==
    ASSUME NEW t \in TraceStates
    PROVE  LET p == [t EXCEPT !.overflows = @ + 1]
           IN  p \in TraceStates /\ Unchanged(p, t, {"sections", "meta", "extent"})
  BY SMTT(30) DEF TraceStates, Unchanged

LEMMA SetExtent ==
    ASSUME NEW t \in TraceStates, NEW page \in Nat
    PROVE  LET p == NoteBuffer(t, page)
           IN  /\ p \in TraceStates /\ Unchanged(p, t, {"sections", "meta"})
               /\ p.lastPage = page
               /\ p.maxPage = IF page > t.maxPage THEN page ELSE t.maxPage
               /\ p.wrapped <=> t.wrapped \/ (t.maxPage >= 0 /\ page < t.maxPage)
  <1> DEFINE w == t.wrapped \/ (t.maxPage >= 0 /\ page < t.maxPage)
             x == IF page > t.maxPage THEN page ELSE t.maxPage
             p == [t EXCEPT !.wrapped = w, !.maxPage = x, !.lastPage = page]
  <1>1. NoteBuffer(t, page) = p  BY DEF NoteBuffer
  <1>2. w \in BOOLEAN  OBVIOUS
  <1>3. x \in Int  BY DEF TraceStates
  <1>4. DOMAIN t = {"sections", "meta", "lastPage", "maxPage", "wrapped", "overflows"}
    BY DEF TraceStates
  <1>5. page \in Int  OBVIOUS
  <1>6. p.wrapped = w  BY <1>4
  <1> HIDE DEF w, x
  <1>7. p \in TraceStates /\ p.lastPage = page /\ p.maxPage = x
          /\ p.sections = t.sections /\ p.meta = t.meta
    BY <1>2, <1>3, <1>5 DEF TraceStates
  <1> QED  BY <1>1, <1>6, <1>7 DEF Unchanged, w, x

(* trace_state_process, field by field.                                    *)
Processed(p, t, r) ==
    /\ p \in TraceStates
    /\ p.sections = MetaReadStep(t.sections, r)
    /\ p.meta = MetaRecord(t.meta, r)
    /\ p.lastPage = IF r.type = "buffer" THEN r.page ELSE t.lastPage
    /\ p.maxPage = IF r.type = "buffer" /\ r.page > t.maxPage THEN r.page ELSE t.maxPage
    /\ p.wrapped <=> t.wrapped \/ (r.type = "buffer" /\ t.maxPage >= 0 /\ r.page < t.maxPage)

LEMMA ProcessFields ==
    ASSUME NEW t \in TraceStates, NEW r \in Recs
    PROVE  Processed(Process(t, r), t, r)
  <1> DEFINE noted == [t EXCEPT !.meta = MetaRecord(t.meta, r)]
             p == Process(t, r)
  <1>1. MetaRecord(t.meta, r) \in [open : BOOLEAN, lines : Seq(Lines)]
    <2>1. r \in Lines  BY DEF Lines
    <2>2. t.meta \in [open : BOOLEAN, lines : Seq(Lines)]  BY DEF TraceStates
    <2>3. Append(t.meta.lines, r) \in Seq(Lines)  BY <2>1, <2>2
    <2> QED  BY <2>2, <2>3 DEF MetaRecord
  <1>2. /\ noted \in TraceStates /\ noted.meta = MetaRecord(t.meta, r)
        /\ noted.sections = t.sections /\ noted.lastPage = t.lastPage
        /\ noted.maxPage = t.maxPage /\ noted.wrapped = t.wrapped
    BY <1>1, SetMeta DEF Unchanged
  <1>3. p = CASE r.type = "buffer"     -> NoteBuffer(noted, r.page)
              [] r.type = "overflow"   -> [noted EXCEPT !.overflows = @ + 1]
              [] r.type \in ImageTypes -> NoteImage(noted, r)
              [] OTHER                 -> noted
    BY DEF Process
  <1> HIDE DEF noted, p
  <1> SUFFICES Processed(p, t, r)  BY DEF p
  <1>4. CASE r.type = "buffer"
    <2>1. r.page \in Nat  BY <1>4, RecFields
    <2>2. p = NoteBuffer(noted, r.page)  BY <1>3, <1>4 DEF ImageTypes
    <2>3. ~Parses(r)  BY <1>4 DEF Parses, ImageTypes
    <2>4. /\ p \in TraceStates /\ p.sections = noted.sections /\ p.meta = noted.meta
          /\ p.lastPage = r.page
          /\ p.maxPage = IF r.page > noted.maxPage THEN r.page ELSE noted.maxPage
          /\ p.wrapped <=> noted.wrapped \/ (noted.maxPage >= 0 /\ r.page < noted.maxPage)
      BY <1>2, <2>1, <2>2, SetExtent DEF Unchanged
    <2> QED  BY <1>2, <1>4, <2>3, <2>4 DEF Processed, MetaReadStep
  <1>5. CASE r.type = "overflow"
    <2>1. p = [noted EXCEPT !.overflows = @ + 1]  BY <1>3, <1>5 DEF ImageTypes
    <2>2. ~Parses(r)  BY <1>5 DEF Parses, ImageTypes
    <2>3. p \in TraceStates /\ Unchanged(p, noted, {"sections", "meta", "extent"})
      BY <1>2, <2>1, SetOverflows
    <2> QED  BY <1>2, <1>5, <2>2, <2>3 DEF Processed, Unchanged, MetaReadStep
  <1>6. CASE r.type \in ImageTypes
    <2>1. p = NoteImage(noted, r) /\ r.type # "buffer"  BY <1>3, <1>6 DEF ImageTypes
    <2>2. r = ImageRecord(r.type, r.image)  BY <1>6, RecFields
    <2>3. CASE r.image = NoImage
      <3>1. p = noted  BY <2>1, <2>3 DEF NoteImage
      <3> QED  BY <3>1, <2>1, <2>3, <1>2 DEF Processed, MetaReadStep, Parses
    <2>4. CASE r.image # NoImage
      <3> DEFINE s == MetaReadStep(t.sections, r)
      <3>1. s \in Seq(Recs)
        <4>1. <<r>> \in Seq(Recs) /\ t.sections \in Seq(Recs)  BY DEF TraceStates
        <4> QED  BY <4>1 DEF MetaReadStep
      <3>2. p = [noted EXCEPT !.sections = s]
        <4>1. Append(<<>>, r) = <<r>>  OBVIOUS
        <4>2. DOMAIN noted = {"sections", "meta", "lastPage", "maxPage", "wrapped", "overflows"}
          BY <1>2 DEF TraceStates
        <4>3. CASE r.type = "exec"
          <5> DEFINE z == ResetSections(noted)
          <5>1. p = [z EXCEPT !.sections = Append(z.sections, r)]
            BY <2>1, <2>2, <2>4, <4>3 DEF NoteImage, AddSection
          <5>2. s = <<r>>  BY <4>3, <2>4, <1>6 DEF MetaReadStep, Parses
          <5> QED  BY <5>1, <5>2, <4>1, <4>2 DEF ResetSections
        <4>4. CASE r.type # "exec"
          <5>1. p = [noted EXCEPT !.sections = Append(noted.sections, r)]
            BY <2>1, <2>2, <2>4, <4>4 DEF NoteImage, AddSection
          <5>2. s = Append(t.sections, r)  BY <4>4, <2>4, <1>6 DEF MetaReadStep, Parses
          <5> QED  BY <5>1, <5>2, <1>2
        <4> QED  BY <4>3, <4>4
      <3> HIDE DEF s
      <3>3. p \in TraceStates /\ p.sections = s /\ Unchanged(p, noted, {"meta", "extent"})
        BY <3>1, <3>2, <1>2, SetSections
      <3> QED  BY <3>3, <2>1, <1>2 DEF Processed, Unchanged, s
    <2> QED  BY <2>3, <2>4
  <1>7. CASE r.type \notin ImageTypes \cup {"buffer", "overflow"}
    <2>1. p = noted  BY <1>3, <1>7
    <2> QED  BY <2>1, <1>2, <1>7 DEF Processed, MetaReadStep, Parses
  <1> QED  BY <1>4, <1>5, <1>6, <1>7

(* Every element of a finite set is in the sequence made of it.            *)
LEMMA SetToSeqProperties ==
    ASSUME NEW S, IsFiniteSet(S)
    PROVE  /\ SetToSeq(S) \in Seq(S)
           /\ \A x \in S : \E i \in 1..Len(SetToSeq(S)) : SetToSeq(S)[i] = x
  <1> DEFINE n == Cardinality(S)
             f == SetToSeq(S)
  <1>1. n \in Nat /\ ExistsBijection(1..n, S)  BY FS_CardinalityType
  <1>2. \E g \in [1..n -> S] : IsInjective(g)
    BY <1>1 DEF ExistsBijection, Bijection, Injection
  <1>3. f \in [1..n -> S] /\ IsInjective(f)  BY <1>2 DEF SetToSeq
  <1> HIDE DEF f
  <1>4. Cardinality(1..n) = n
    <2>1. IsFiniteSet(1..n)  BY <1>1, FS_Interval
    <2> QED  BY <1>1, <2>1, FS_Bijection
  <1>5. f \in Injection(1..n, S)  BY <1>3 DEF Injection
  <1>6. f \in Surjection(1..n, S)
    <2> HIDE DEF n
    <2> QED  BY <1>4, <1>5, FS_Injection DEF n
  <1> HIDE DEF n
  <1>7. f \in Seq(S) /\ Len(f) = n  BY <1>1, <1>3
  <1> QED  BY <1>6, <1>7 DEF Surjection, f

(* The records a poll takes and those it leaves.                           *)
LEMMA TakeSplits ==
    ASSUME NEW q \in Seq(Recs), NEW n \in 0..Len(q)
    PROVE  /\ SubSeq(q, 1, n) \in Seq(Recs) /\ SubSeq(q, n + 1, Len(q)) \in Seq(Recs)
           /\ SubSeq(q, 1, n) \o SubSeq(q, n + 1, Len(q)) = q
  <1>1. /\ 1 \in 1..Len(q)+1 /\ n \in 1-1..Len(q) /\ Len(q) \in n..Len(q)
        /\ 1 \in Int /\ n \in Int /\ n + 1 \in Int /\ Len(q) \in Int
    OBVIOUS
  <1>2. SubSeq(q, 1, n) \o SubSeq(q, n + 1, Len(q)) = SubSeq(q, 1, Len(q))
    BY <1>1, ConcatAdjacentSubSeq
  <1>3. (\A i \in 1..n : q[i] \in Recs) /\ (\A i \in n+1..Len(q) : q[i] \in Recs)
    OBVIOUS
  <1>4. SubSeq(q, 1, n) \in Seq(Recs)  BY <1>1, <1>3, SubSeqProperties
  <1>5. SubSeq(q, n + 1, Len(q)) \in Seq(Recs)  BY <1>1, <1>3, SubSeqProperties
  <1> QED  BY <1>2, <1>4, <1>5, SubSeqFull

(* The record processed is the first of those to come.                     *)
LEMMA PendOfTail ==
    ASSUME NEW b \in Seq(Recs), NEW q \in Seq(Recs), b # <<>>
    PROVE  /\ b \o q \in Seq(Recs) /\ b \o q # <<>>
           /\ Head(b \o q) = Head(b) /\ Tail(b \o q) = Tail(b) \o q
           /\ Head(b) \in Recs /\ Tail(b) \in Seq(Recs)
  OBVIOUS

-----------------------------------------------------------------------------
(* The invariant holds initially.                                          *)

LEMMA SessionTypes ==
    ASSUME [opt |-> opt, load |-> load] \in Sessions
    PROVE  /\ opt \in Option /\ load \in Load
           /\ opt.tid \in Nat /\ load.written \in Nat /\ load.created \in Nat
           /\ opt.pause \in BOOLEAN
           /\ 0 \in Tids /\ Tids \subseteq Nat
  <1>1. [opt |-> opt, load |-> load] \in [opt : Option, load : Load]
    BY SessionAssumption
  <1>2. opt \in Option /\ load \in Load  BY <1>1
  <1> QED  BY <1>2 DEF Option, Load, Tids

LEMMA InitInv == Init => Inv
  <1> SUFFICES ASSUME Init PROVE Inv  OBVIOUS
  <1>1. [opt |-> opt, load |-> load] \in Sessions
    <2>1. PICK s \in Sessions : opt = s.opt /\ load = s.load  BY DEF Init
    <2>2. s \in [opt : Option, load : Load]  BY SessionAssumption
    <2>3. s = [opt |-> opt, load |-> load]  BY <2>1, <2>2
    <2> QED  BY <2>3
  <1>2. load.written \in Nat /\ 0 \in Tids  BY <1>1, SessionTypes
  <1>3. ts \in TraceStates /\ ts.sections = <<>> /\ ts.lastPage = -1 /\ ts.maxPage = -1
          /\ ~ts.wrapped /\ ~ts.meta.open
    <2> DEFINE nil == <<>>
    <2>1. nil \in Seq(Recs) /\ nil \in Seq(Lines)  OBVIOUS
    <2> HIDE DEF nil
    <2>2. ts = [sections |-> nil, meta |-> [open |-> FALSE, lines |-> nil], lastPage |-> -1,
                maxPage |-> -1, wrapped |-> FALSE, overflows |-> 0]
      BY DEF Init, TraceStateInit, MetaOpen, nil
    <2>3. ts \in TraceStates  BY <2>1, <2>2 DEF TraceStates
    <2>4. ts.sections = nil /\ ts.lastPage = -1 /\ ts.maxPage = -1  BY <2>2
    <2>5. ~ts.wrapped /\ ~ts.meta.open  BY <2>2
    <2> QED  BY <2>3, <2>4, <2>5 DEF nil
  <1>4. TypeInv
    <2>1. WriteTypes  BY <1>2 DEF Init, WriteTypes
    <2>2. DeviceTypes
      <3>1. MaxThreads \in Nat  BY SessionAssumption
      <3> QED  BY <3>1 DEF Init, DeviceTypes
    <2>3. MapTypes
      <3>1. <<1, 0>> \in Image  BY DEF Image
      <3> QED  BY <3>1, FS_EmptySet, FS_Singleton DEF Init, MapTypes
    <2>4. RecordTypes  BY DEF Init, RecordTypes
    <2>5. ControlTypes /\ TargetTypes /\ ContextTypes
      BY DEF Init, ControlTypes, Locations, TargetTypes, ContextTypes
    <2>6. FlagTypes  BY DEF Init, FlagTypes
    <2>7. CountTypes /\ HandleTypes  BY DEF Init, CountTypes, HandleTypes
    <2> QED
      BY <1>1, <1>3, <2>1, <2>2, <2>3, <2>4, <2>5, <2>6, <2>7
      DEF TypeInv, SessionTypesInv, StateTypes
  <1>5. Pend = <<>> /\ Len(Pend) = 0  BY DEF Pend, Init
  <1>6. ContextInv  BY DEF Init, ContextInv, Untraced, Polled
  <1>7. ChildInv  BY DEF Init, ChildInv, Setup, Finalizing, IsExec
  <1>8. SetupInv  BY <1>3 DEF Init, SetupInv, Setup, Processing
  <1>9. UntracedInv  BY <1>5 DEF Init, UntracedInv
  <1>10. ImagesInv
    <2>1. Len(ts.sections) = 0  BY <1>3
    <2>2. Current(Pend, ts.sections, named)  BY <1>5, <2>1 DEF Current
    <2>3. named <= image /\ \A m \in maps : m[1] = image  BY DEF Init
    <2>4. ~seeded /\ NoExec(Pend)  BY <1>5 DEF Init, NoExec
    <2>5. \A m \in maps : Covered(Pend, ts.sections, seeded, m)  BY <2>4 DEF Covered
    <2>6. IsExec => maps = {}  BY DEF Init
    <2> QED  BY <2>2, <2>3, <2>5, <2>6 DEF ImagesInv
  <1>11. SectionsInv  BY <1>3 DEF SectionsInv, Sound
  <1>12. SidecarInv  BY <1>3 DEF SidecarInv
  <1>13. BufferInv
    <2>1. written[0] = 0 /\ reached = 0 /\ threads = 1 /\ swi = {}  BY <1>2 DEF Init
    <2>2. Growing(Pend, ts.maxPage, written[0])  BY <1>5 DEF Growing
    <2> QED  BY <1>3, <2>1, <2>2 DEF BufferInv
  <1>14. ThreadSidecarsReplay /\ DrainInv
    BY DEF Init, ThreadSidecarsReplay, DrainInv, Drained
  <1> QED
    BY <1>4, <1>6, <1>7, <1>8, <1>9, <1>10, <1>11, <1>12, <1>13, <1>14 DEF Inv

-----------------------------------------------------------------------------
(* Who changes what.                                                       *)

(* Steps of the target and the kernel leave the command alone, and steps   *)
(* of the command leave what the target has done alone.                    *)
WorldStep == TargetStep \/ KernelStep \/ TargetEnds

LEMMA WorldKeepsCommand ==
    ASSUME WorldStep
    PROVE  UNCHANGED <<chosen, command, context, refused>>
  BY DEF WorldStep, TargetStep, KernelStep, TargetExecs, TargetExecsUnnamed, TargetMaps, TargetMapsUnnamed,
     TargetUnmaps, TargetCreatesThread, TargetFillsPage, MapsImage, QueueBuffer, LoseBuffer, TargetEnds,
     chosen, command, process, kernel

LEMMA CommandKeepsWorld ==
    ASSUME CommandStep \/ Interrupt \/ Ended
    PROVE  UNCHANGED <<chosen, maps, image, named, mapped, threads, swi, written, reached>>
  BY DEF CommandStep, Refuse, Fork, Attach, AllocContext, SetConfig, StartTracing, OpenMeta,
     SeedMaps, Abort, AbortReap, ExecLimit, ExecCheck, TraceLimit, TraceCheck, Poll, PollFails,
     ProcessRecord, EndOfDrain, Reap, FinalPoll, FinalRecord, StopTracing, PostStopPoll,
     PostStopRecord, FinishTrace, Interrupt, Ended, vars, chosen, command, process, kernel

LEMMA NextCases ==
    ASSUME [Next]_vars
    PROVE  WorldStep \/ CommandStep \/ Interrupt \/ UNCHANGED vars
  BY DEF Next, WorldStep, Ended

(* The steps that read records, those that process one, and those that do  *)
(* neither.                                                                *)
PollStep    == Poll \/ FinalPoll \/ PostStopPoll
RecordStep  == ProcessRecord \/ FinalRecord \/ PostStopRecord
ControlStep == Refuse \/ Fork \/ Attach \/ SetConfig \/ Abort \/ AbortReap \/ ExecLimit
               \/ ExecCheck \/ TraceLimit \/ TraceCheck \/ PollFails \/ EndOfDrain \/ Reap
               \/ StopTracing \/ Interrupt

LEMMA CommandCases ==
    ASSUME CommandStep \/ Interrupt
    PROVE  \/ PollStep \/ RecordStep \/ ControlStep \/ AllocContext \/ StartTracing
           \/ OpenMeta \/ SeedMaps \/ FinishTrace
  BY DEF CommandStep, PollStep, RecordStep, ControlStep

LEMMA ControlKeepsRecords ==
    ASSUME ControlStep
    PROVE  UNCHANGED <<ts, batch, queue, seeded, sidecars, total, nrecs>>
  BY DEF ControlStep, Refuse, Fork, Attach, SetConfig, Abort, AbortReap, ExecLimit,
     ExecCheck, TraceLimit, TraceCheck, PollFails, EndOfDrain, Reap, StopTracing, Interrupt,
     kernel

LEMMA PollKeeps ==
    ASSUME Inv, PollStep
    PROVE  /\ UNCHANGED <<ts, seeded, sidecars, total, context, devices, target, paused>>
           /\ batch' \in Seq(Recs) /\ queue' \in Seq(Recs) /\ nrecs' \in Nat
           /\ Pend' = Pend
  <1>1. UNCHANGED <<ts, seeded, sidecars, total, context, devices, target, paused>>
    BY DEF PollStep, Poll, FinalPoll, PostStopPoll, process
  <1>2. queue \in Seq(Recs) /\ nrecs \in Nat /\ batch \in Seq(Recs)
    BY DEF Inv, TypeInv, RecordTypes, CountTypes
  <1>3. batch = <<>>
    BY DEF PollStep, Poll, FinalPoll, PostStopPoll, Inv, SetupInv, Processing
  <1>4. CASE TakeRecords
    <2> DEFINE n == IF Len(queue) < PollRecords THEN Len(queue) ELSE PollRecords
    <2>1. n \in 0..Len(queue)  BY <1>2, SessionAssumption
    <2>2. batch' = SubSeq(queue, 1, n) /\ queue' = SubSeq(queue, n + 1, Len(queue))
            /\ nrecs' = n
      BY <1>4 DEF TakeRecords
    <2> HIDE DEF n
    <2>3. batch' \in Seq(Recs) /\ queue' \in Seq(Recs) /\ batch' \o queue' = queue
      BY <1>2, <2>1, <2>2, TakeSplits
    <2>4. batch \o queue = queue  BY <1>2, <1>3, ConcatEmptySeq
    <2>5. nrecs' \in Nat  BY <1>2, <2>1, <2>2
    <2>6. Pend' = Pend  BY <2>3, <2>4 DEF Pend
    <2> QED  BY <1>1, <2>3, <2>5, <2>6
  <1>5. CASE UNCHANGED <<batch, nrecs, queue>>  BY <1>1, <1>2, <1>5 DEF Pend
  <1> QED  BY <1>4, <1>5 DEF PollStep, Poll, FinalPoll, PostStopPoll

LEMMA RecordKeeps ==
    ASSUME Inv, RecordStep
    PROVE  /\ UNCHANGED <<pc, nrecs, gone, empty, interrupted, seeded, sidecars, target,
                          context, queue>>
           /\ Head(Pend) \in Recs /\ Pend # <<>> /\ Pend' = Tail(Pend)
           /\ batch' \in Seq(Recs) /\ queue' \in Seq(Recs)
           /\ ts' = Process(ts, Head(Pend)) /\ ts' \in TraceStates
           /\ total' = total + 1
           /\ Processed(ts', ts, Head(Pend))
           /\ pc \in Processing
  <1>1. queue \in Seq(Recs) /\ batch \in Seq(Recs) /\ ts \in TraceStates
    BY DEF Inv, TypeInv, RecordTypes, StateTypes
  <1>2. /\ UNCHANGED <<pc, nrecs, gone, empty, interrupted, seeded, sidecars, target,
                       context, queue>>
        /\ batch # <<>> /\ batch' = Tail(batch) /\ ts' = Process(ts, Head(batch))
        /\ total' = total + 1 /\ pc \in Processing
    BY DEF RecordStep, ProcessRecord, FinalRecord, PostStopRecord, EmitAndProcess, process,
       kernel, Processing
  <1>3. /\ Pend # <<>> /\ Head(Pend) = Head(batch) /\ Tail(Pend) = Tail(batch) \o queue
        /\ Head(batch) \in Recs /\ Tail(batch) \in Seq(Recs)
    BY <1>1, <1>2, PendOfTail DEF Pend
  <1>4. Pend' = Tail(Pend)  BY <1>2, <1>3 DEF Pend
  <1>5. Processed(ts', ts, Head(Pend))  BY <1>1, <1>2, <1>3, ProcessFields
  <1>6. ts' \in TraceStates  BY <1>5 DEF Processed
  <1> QED  BY <1>1, <1>2, <1>3, <1>4, <1>5, <1>6

-----------------------------------------------------------------------------
(* Types are preserved.                                                    *)

LEMMA SessionTypesNext ==
    ASSUME Inv, [Next]_vars
    PROVE  SessionTypesInv' /\ Tids' = Tids /\ opt' = opt /\ load' = load
  <1>1. UNCHANGED chosen
    BY NextCases, WorldKeepsCommand, CommandKeepsWorld DEF vars
  <1> QED  BY <1>1 DEF chosen, Inv, TypeInv, SessionTypesInv, Tids

LEMMA ControlTypesNext ==
    ASSUME Inv, [Next]_vars
    PROVE  ControlTypes' /\ TargetTypes' /\ ContextTypes'
  <1> USE DEF ControlTypes, Locations, Polled, TargetTypes, ContextTypes
  <1>1. ControlTypes /\ TargetTypes /\ ContextTypes  BY DEF Inv, TypeInv
  <1>2. CASE WorldStep
    <2>1. UNCHANGED <<pc, context>>  BY <1>2, WorldKeepsCommand DEF command
    <2>2. TargetTypes'
      BY <1>1, <1>2 DEF WorldStep, TargetStep, KernelStep, TargetExecs, TargetExecsUnnamed, TargetMaps,
         TargetMapsUnnamed, TargetUnmaps, TargetCreatesThread, TargetFillsPage, MapsImage,
         QueueBuffer, LoseBuffer, TargetEnds, process
    <2> QED  BY <1>1, <2>1, <2>2
  <1>3. CASE CommandStep
    <2>1. ControlTypes'
      BY <1>1, <1>3 DEF CommandStep, AfterConfig, Refuse, Fork, Attach, AllocContext,
         SetConfig, StartTracing, OpenMeta, SeedMaps, Abort, AbortReap, ExecLimit, ExecCheck,
         TraceLimit, TraceCheck, Poll, PollFails, ProcessRecord, EndOfDrain, Reap, FinalPoll,
         FinalRecord, StopTracing, PostStopPoll, PostStopRecord, FinishTrace
    <2>2. TargetTypes'
      BY <1>1, <1>3 DEF CommandStep, KillChild, process, Refuse, Fork, Attach, AllocContext,
         SetConfig, StartTracing, OpenMeta, SeedMaps, Abort, AbortReap, ExecLimit, ExecCheck,
         TraceLimit, TraceCheck, Poll, PollFails, ProcessRecord, EndOfDrain, Reap, FinalPoll,
         FinalRecord, StopTracing, PostStopPoll, PostStopRecord, FinishTrace
    <2>3. ContextTypes'
      BY <1>1, <1>3 DEF CommandStep, CloseContext, StopContext, kernel, Refuse, Fork, Attach, AllocContext,
         SetConfig, StartTracing, OpenMeta, SeedMaps, Abort, AbortReap, ExecLimit, ExecCheck,
         TraceLimit, TraceCheck, Poll, PollFails, ProcessRecord, EndOfDrain, Reap, FinalPoll,
         FinalRecord, StopTracing, PostStopPoll, PostStopRecord, FinishTrace
    <2> QED  BY <2>1, <2>2, <2>3
  <1>4. CASE Interrupt  BY <1>1, <1>4 DEF Interrupt, process, kernel
  <1>5. CASE UNCHANGED vars  BY <1>1, <1>5 DEF vars, command, process, kernel
  <1> QED  BY <1>2, <1>3, <1>4, <1>5, NextCases

LEMMA FlagTypesNext ==
    ASSUME Inv, [Next]_vars
    PROVE  FlagTypes'
  <1> USE DEF FlagTypes
  <1>1. FlagTypes  BY DEF Inv, TypeInv
  <1>2. CASE WorldStep
    <2>1. UNCHANGED <<gone, interrupted, seeded>>  BY <1>2, WorldKeepsCommand DEF command
    <2>2. paused' \in BOOLEAN
      BY <1>1, <1>2 DEF WorldStep, TargetStep, KernelStep, TargetExecs, TargetExecsUnnamed, TargetMaps,
         TargetMapsUnnamed, TargetUnmaps, TargetCreatesThread, TargetFillsPage, MapsImage,
         QueueBuffer, LoseBuffer, TargetEnds, process
    <2> QED  BY <1>1, <2>1, <2>2
  <1>3. CASE CommandStep
    <2>1. gone' \in BOOLEAN /\ interrupted' \in BOOLEAN
      BY <1>1, <1>3 DEF CommandStep, Refuse, Fork, Attach, AllocContext,
         SetConfig, StartTracing, OpenMeta, SeedMaps, Abort, AbortReap, ExecLimit, ExecCheck,
         TraceLimit, TraceCheck, Poll, PollFails, ProcessRecord, EndOfDrain, Reap, FinalPoll,
         FinalRecord, StopTracing, PostStopPoll, PostStopRecord, FinishTrace
    <2>2. seeded' \in BOOLEAN
      BY <1>1, <1>3 DEF CommandStep, IsExec, Refuse, Fork, Attach, AllocContext,
         SetConfig, StartTracing, OpenMeta, SeedMaps, Abort, AbortReap, ExecLimit, ExecCheck,
         TraceLimit, TraceCheck, Poll, PollFails, ProcessRecord, EndOfDrain, Reap, FinalPoll,
         FinalRecord, StopTracing, PostStopPoll, PostStopRecord, FinishTrace
    <2>3. paused' \in BOOLEAN
      BY <1>1, <1>3 DEF CommandStep, EmitAndProcess, Wakeup, process, Refuse, Fork, Attach, AllocContext,
         SetConfig, StartTracing, OpenMeta, SeedMaps, Abort, AbortReap, ExecLimit, ExecCheck,
         TraceLimit, TraceCheck, Poll, PollFails, ProcessRecord, EndOfDrain, Reap, FinalPoll,
         FinalRecord, StopTracing, PostStopPoll, PostStopRecord, FinishTrace
    <2> QED  BY <2>1, <2>2, <2>3
  <1>4. CASE Interrupt  BY <1>1, <1>4 DEF Interrupt, process
  <1>5. CASE UNCHANGED vars  BY <1>1, <1>5 DEF vars, command, process
  <1> QED  BY <1>2, <1>3, <1>4, <1>5, NextCases

LEMMA CountTypesNext ==
    ASSUME Inv, [Next]_vars
    PROVE  CountTypes'
  <1> USE DEF CountTypes
  <1>1. CountTypes  BY DEF Inv, TypeInv
  <1>2. CASE WorldStep
    <2>1. UNCHANGED <<nrecs, total, empty>>  BY <1>2, WorldKeepsCommand DEF command
    <2>2. /\ image' = image + 1 \/ image' = image
          /\ named' = image + 1 \/ named' = named
          /\ mapped' = mapped + 1 \/ mapped' = mapped
          /\ threads' = threads + 1 \/ threads' = threads
      BY <1>2, Zenon DEF WorldStep, TargetStep, KernelStep, TargetExecs, TargetExecsUnnamed, TargetMaps,
         TargetMapsUnnamed, TargetUnmaps, TargetCreatesThread, TargetFillsPage, MapsImage,
         QueueBuffer, LoseBuffer, TargetEnds, process
    <2> QED  BY <1>1, <2>1, <2>2
  <1>3. CASE CommandStep \/ Interrupt
    <2>1. UNCHANGED <<image, named, mapped, threads>>  BY <1>3, CommandKeepsWorld
    <2>2. CASE PollStep
      <3>1. nrecs' \in Nat /\ total' = total  BY <2>2, PollKeeps
      <3>2. empty' \in Nat  BY <1>1, <2>2 DEF PollStep, Poll, FinalPoll, PostStopPoll
      <3> QED  BY <1>1, <2>1, <3>1, <3>2
    <2>3. CASE RecordStep  BY <1>1, <2>1, <2>3, RecordKeeps
    <2>4. CASE ControlStep
      <3>1. UNCHANGED <<total, nrecs>>  BY <2>4, ControlKeepsRecords
      <3>2. empty' \in Nat
        BY <1>1, <2>4 DEF ControlStep, Refuse, Fork, Attach, SetConfig, Abort, AbortReap,
           ExecLimit, ExecCheck, TraceLimit, TraceCheck, PollFails, EndOfDrain, Reap,
           StopTracing, Interrupt
      <3> QED  BY <1>1, <2>1, <3>1, <3>2
    <2>5. CASE AllocContext \/ StartTracing \/ OpenMeta \/ SeedMaps \/ FinishTrace
      BY <1>1, <2>1, <2>5 DEF AllocContext, StartTracing, OpenMeta, SeedMaps, FinishTrace
    <2> QED  BY <1>3, <2>2, <2>3, <2>4, <2>5, CommandCases
  <1>4. CASE UNCHANGED vars  BY <1>1, <1>4 DEF vars, command, process
  <1> QED  BY <1>2, <1>3, <1>4, NextCases

LEMMA DeviceTypesNext ==
    ASSUME Inv, [Next]_vars
    PROVE  DeviceTypes'
  <1> USE DEF DeviceTypes
  <1>1. DeviceTypes /\ MaxThreads \in Nat  BY SessionAssumption DEF Inv, TypeInv
  <1>2. CASE WorldStep \/ UNCHANGED vars
    <2>1. UNCHANGED devices  BY <1>2, WorldKeepsCommand DEF vars, command
    <2> QED  BY <1>1, <2>1
  <1>3. CASE CommandStep \/ Interrupt
    <2>1. CASE RecordStep
      <3>1. CASE PostStopRecord  BY <1>1, <3>1 DEF PostStopRecord
      <3>2. CASE ProcessRecord \/ FinalRecord
        <4> DEFINE rec == Head(batch)
        <4>1. rec \in Recs
          <5>1. batch \in Seq(Recs) /\ batch # <<>>
            BY <3>2 DEF ProcessRecord, FinalRecord, Inv, TypeInv, RecordTypes
          <5> QED  BY <5>1
        <4>2. \/ UNCHANGED devices
              \/ rec.type = "thread_create" /\ OpenThread(rec.tid)
          BY <3>2 DEF ProcessRecord, FinalRecord, EmitAndProcess
        <4> HIDE DEF rec
        <4>3. rec.type = "thread_create" => rec.tid \in Nat  BY <4>1, RecFields
        <4> QED  BY SMTT(30), <1>1, <4>2, <4>3 DEF OpenThread
      <3> QED  BY <2>1, <3>1, <3>2 DEF RecordStep
    <2>2. CASE AllocContext
      <3>1. opt.tid \in Nat  BY SessionTypes DEF Inv, TypeInv, SessionTypesInv
      <3> DEFINE one == <<opt.tid>>
      <3>2. one \in Seq(Nat) /\ Len(one) = 1  BY <3>1
      <3>3. devices' = one \/ devices' = devices  BY <2>2 DEF AllocContext
      <3> HIDE DEF one
      <3>4. CASE devices' = one
        <4>1. 1 <= MaxThreads + 1  BY <1>1
        <4> QED  BY <3>2, <3>4, <4>1
      <3>5. CASE devices' = devices  BY <1>1, <3>5
      <3> QED  BY <3>3, <3>4, <3>5
    <2>3. CASE FinishTrace \/ Abort \/ Interrupt
      <3> DEFINE nil == <<>>
      <3>1. devices' = nil \/ devices' = devices
        BY <2>3 DEF FinishTrace, Abort, Interrupt, CloseContext
      <3>2. nil \in Seq(Nat) /\ Len(nil) = 0  OBVIOUS
      <3> HIDE DEF nil
      <3>3. CASE devices' = nil
        <4>1. 0 <= MaxThreads + 1  BY <1>1
        <4> QED  BY <3>2, <3>3, <4>1
      <3>4. CASE devices' = devices  BY <1>1, <3>4
      <3> QED  BY <3>1, <3>3, <3>4
    <2>4. CASE ~(RecordStep \/ AllocContext \/ FinishTrace \/ Abort \/ Interrupt)
      <3>1. UNCHANGED devices
        BY <1>3, <2>4 DEF CommandStep, RecordStep, Refuse, Fork, Attach, SetConfig, StartTracing,
           OpenMeta, SeedMaps, AbortReap, ExecLimit, ExecCheck, TraceLimit, TraceCheck, Poll,
           PollFails, EndOfDrain, Reap, FinalPoll, StopTracing, PostStopPoll
      <3> QED  BY <1>1, <3>1
    <2> QED  BY <2>1, <2>2, <2>3, <2>4
  <1> QED  BY <1>2, <1>3, NextCases

LEMMA HandleTypesNext ==
    ASSUME Inv, [Next]_vars
    PROVE  HandleTypes'
  <1> USE DEF HandleTypes
  <1>1. HandleTypes  BY DEF Inv, TypeInv
  <1>2. CASE WorldStep \/ UNCHANGED vars
    <2>1. UNCHANGED <<fds, refused>>  BY <1>2, WorldKeepsCommand DEF vars, command, kernel
    <2> QED  BY <1>1, <2>1
  <1>3. CASE CommandStep \/ Interrupt
    <2>1. fds' \in {fds, {}, {"ctl"}, {"ctl", "kq"}}
      BY <1>3 DEF CommandStep, CloseContext, Refuse, Fork, Attach, AllocContext,
         SetConfig, StartTracing, OpenMeta, SeedMaps, Abort, AbortReap, ExecLimit, ExecCheck,
         TraceLimit, TraceCheck, Poll, PollFails, ProcessRecord, EndOfDrain, Reap, FinalPoll,
         FinalRecord, StopTracing, PostStopPoll, PostStopRecord, FinishTrace, Interrupt
    <2>2. refused' \in {refused, refused \cup {"stop"}, refused \cup {"wakeup"},
                        refused \cup {"drain"}}
      BY <1>3 DEF CommandStep, CloseContext, StopContext, EmitAndProcess, Wakeup, kernel,
         Refuse, Fork, Attach, AllocContext,
         SetConfig, StartTracing, OpenMeta, SeedMaps, Abort, AbortReap, ExecLimit, ExecCheck,
         TraceLimit, TraceCheck, Poll, PollFails, ProcessRecord, EndOfDrain, Reap, FinalPoll,
         FinalRecord, StopTracing, PostStopPoll, PostStopRecord, FinishTrace, Interrupt
    <2> QED  BY <1>1, <2>1, <2>2
  <1> QED  BY <1>2, <1>3, NextCases

LEMMA WriteTypesNext ==
    ASSUME Inv, [Next]_vars
    PROVE  WriteTypes'
  <1>1. WriteTypes /\ load.written \in Nat /\ Tids' = Tids /\ load' = load
    BY SessionTypesNext, SessionTypes DEF Inv, TypeInv, SessionTypesInv
  <1>2. CASE \E t \in Tids : TargetFillsPage(t)
    <2>1. PICK t \in Tids : TargetFillsPage(t)  BY <1>2
    <2>2. swi' \subseteq Tids  BY <1>1, <2>1 DEF WriteTypes, TargetFillsPage
    <2>3. written' = [written EXCEPT ![t] = written[t] + 1] /\ written[t] < load.written
      BY <2>1 DEF TargetFillsPage
    <2>4. written[t] + 1 \in 0..load.written  BY <1>1, <2>1, <2>3 DEF WriteTypes
    <2>5. written' \in [Tids -> 0..load.written]  BY <1>1, <2>3, <2>4 DEF WriteTypes
    <2>6. reached' = reached  BY <2>1 DEF TargetFillsPage
    <2> QED  BY <1>1, <2>2, <2>5, <2>6 DEF WriteTypes
  <1>3. CASE KernelStep  BY <1>1, <1>3 DEF WriteTypes, KernelStep, QueueBuffer, LoseBuffer
  <1>4. CASE UNCHANGED <<swi, written, reached>>  BY <1>1, <1>4 DEF WriteTypes
  <1>5. CASE WorldStep
    BY <1>2, <1>3, <1>4, <1>5 DEF WorldStep, TargetStep, TargetExecs, TargetExecsUnnamed,
       TargetMaps,
       TargetMapsUnnamed, TargetUnmaps, TargetCreatesThread, MapsImage, TargetEnds, kernel
  <1>6. CASE CommandStep \/ Interrupt  BY <1>4, <1>6, CommandKeepsWorld
  <1>7. CASE UNCHANGED vars  BY <1>4, <1>7 DEF vars, kernel
  <1> QED  BY <1>5, <1>6, <1>7, NextCases

LEMMA MapTypesNext ==
    ASSUME Inv, [Next]_vars
    PROVE  MapTypes'
  <1> USE DEF MapTypes
  <1>1. MapTypes /\ image \in Nat /\ mapped \in Nat  BY DEF Inv, TypeInv, CountTypes
  <1>2. <<image + 1, mapped>> \in Image /\ <<image, mapped>> \in Image  BY <1>1 DEF Image
  <1>3. CASE TargetExecs \/ TargetExecsUnnamed
    BY <1>2, <1>3, FS_EmptySet, FS_Singleton DEF TargetExecs, TargetExecsUnnamed
  <1>4. CASE TargetMaps  BY <1>1, <1>2, <1>4, FS_AddElement DEF TargetMaps
  <1>5. CASE TargetUnmaps
    <2>1. PICK m \in maps : maps' = maps \ {m}  BY <1>5 DEF TargetUnmaps
    <2> QED  BY <1>1, <2>1, FS_RemoveElement
  <1>6. CASE UNCHANGED maps  BY <1>1, <1>6
  <1>7. CASE WorldStep
    BY <1>3, <1>4, <1>5, <1>6, <1>7 DEF WorldStep, TargetStep, KernelStep, QueueBuffer, LoseBuffer,
       TargetMapsUnnamed, TargetCreatesThread, TargetFillsPage, TargetEnds, process
  <1>8. CASE CommandStep \/ Interrupt  BY <1>6, <1>8, CommandKeepsWorld
  <1>9. CASE UNCHANGED vars  BY <1>6, <1>9 DEF vars, process
  <1> QED  BY <1>7, <1>8, <1>9, NextCases

(* The records the target, the kernel and the command cause.               *)
LEMMA BufferSuffix ==
    ASSUME Inv, NEW t \in Tids, NEW lost \in BOOLEAN
    PROVE  /\ <<BufferRecord(t, written[t] % Pages)>> \in Seq(Recs)
           /\ (IF lost THEN <<OverflowRecord(t)>> ELSE <<>>) \in Seq(Recs)
           /\ written[t] \in Nat /\ written[t] % Pages \in Nat
  <1>1. t \in Nat /\ written[t] \in Nat
    BY SessionTypes DEF Inv, TypeInv, SessionTypesInv, WriteTypes
  <1>2. Pages \in Nat \ {0}  BY SessionAssumption
  <1>3. written[t] % Pages \in Nat  BY <1>1, <1>2
  <1>4. BufferRecord(t, written[t] % Pages) \in Recs /\ OverflowRecord(t) \in Recs
    BY <1>1, <1>3, RecConstructors
  <1> QED  BY <1>1, <1>3, <1>4

LEMMA RecordTypesNext ==
    ASSUME Inv, [Next]_vars
    PROVE  RecordTypes'
  <1> USE DEF RecordTypes
  <1>1. /\ RecordTypes /\ image \in Nat /\ mapped \in Nat /\ threads \in Nat
        /\ <<image + 1, mapped>> \in Image /\ <<image, mapped>> \in Image
    BY DEF Inv, TypeInv, CountTypes, Image
  <1>2. CASE UNCHANGED <<batch, queue>>  BY <1>1, <1>2
  <1>3. ASSUME NEW r \in Recs, batch' = batch, queue' = Append(queue, r) PROVE RecordTypes'
    BY <1>1, <1>3
  <1>4. CASE WorldStep
    <2>1. batch' = batch  BY <1>4, WorldKeepsCommand DEF command
    <2>2. CASE TargetExecs
      <3> DEFINE r == ImageRecord("exec", <<image + 1, mapped>>)
      <3>1. r \in Recs  BY <1>1, RecConstructors
      <3>2. queue' = queue \/ queue' = Append(queue, r)
        BY <2>2 DEF TargetExecs, MapsImage, Record
      <3> QED  BY <2>1, <3>1, <3>2, <1>2, <1>3
    <2>3. CASE TargetMaps
      <3> DEFINE r == ImageRecord("mmap", <<image, mapped>>)
      <3>1. r \in Recs  BY <1>1, RecConstructors
      <3>2. queue' = queue \/ queue' = Append(queue, r)
        BY <2>3 DEF TargetMaps, MapsImage, Record
      <3> QED  BY <2>1, <3>1, <3>2, <1>2, <1>3
    <2>4. CASE TargetMapsUnnamed \/ TargetExecsUnnamed
      <3> DEFINE r == ImageRecord("mmap", NoImage)
                 x == ImageRecord("exec", NoImage)
      <3>1. r \in Recs /\ x \in Recs  BY RecConstructors
      <3>2. queue' = queue \/ queue' = Append(queue, r) \/ queue' = Append(queue, x)
        BY <2>4 DEF TargetMapsUnnamed, TargetExecsUnnamed, MapsImage, Record
      <3> QED  BY <2>1, <3>1, <3>2, <1>2, <1>3
    <2>5. CASE TargetUnmaps
      <3>1. UnmapRecord \in Recs  BY RecConstructors
      <3>2. queue' = queue \/ queue' = Append(queue, UnmapRecord)
        BY <2>5 DEF TargetUnmaps, Record
      <3> QED  BY <2>1, <3>1, <3>2, <1>2, <1>3
    <2>6. CASE TargetCreatesThread
      <3> DEFINE r == ThreadRecord("thread_create", threads)
      <3>1. r \in Recs  BY <1>1, RecConstructors
      <3>2. queue' = queue \/ queue' = Append(queue, r)
        BY <2>6 DEF TargetCreatesThread
      <3> QED  BY <2>1, <3>1, <3>2, <1>2, <1>3
    <2>7. CASE \E t \in Tids, lost \in BOOLEAN : QueueBuffer(t, lost)
      <3>1. PICK t \in Tids, lost \in BOOLEAN : QueueBuffer(t, lost)
        BY <2>7
      <3> DEFINE b == <<BufferRecord(t, written[t] % Pages)>>
                 o == IF lost THEN <<OverflowRecord(t)>> ELSE <<>>
      <3>2. queue' = queue \o b \o o  BY <3>1 DEF QueueBuffer
      <3>3. b \in Seq(Recs) /\ o \in Seq(Recs)  BY BufferSuffix
      <3> HIDE DEF b, o
      <3> QED  BY <1>1, <2>1, <3>2, <3>3
    <2>8. CASE (\E t \in Tids : TargetFillsPage(t) \/ LoseBuffer(t)) \/ TargetEnds
      BY <2>1, <2>8, <1>2 DEF TargetFillsPage, LoseBuffer, TargetEnds, kernel
    <2> QED
      BY <1>4, <2>2, <2>3, <2>4, <2>5, <2>6, <2>7, <2>8 DEF WorldStep, TargetStep, KernelStep
  <1>5. CASE CommandStep \/ Interrupt
    <2>1. CASE PollStep  BY <2>1, PollKeeps
    <2>2. CASE RecordStep  BY <2>2, RecordKeeps
    <2>3. CASE ControlStep  BY <1>2, <2>3, ControlKeepsRecords
    <2>4. CASE AllocContext
      <3> DEFINE q == [t \in 1..threads |-> ThreadRecord("thread_create", t - 1)]
      <3>1. \A t \in 1..threads : ThreadRecord("thread_create", t - 1) \in Recs
        <4> TAKE t \in 1..threads
        <4>1. t - 1 \in Nat  BY <1>1
        <4> QED  BY <4>1, RecConstructors
      <3>2. q \in Seq(Recs)  BY <1>1, <3>1
      <3>3. batch' = batch /\ (queue' = q \/ queue' = queue)  BY <2>4 DEF AllocContext
      <3> HIDE DEF q
      <3> QED  BY <1>1, <3>2, <3>3
    <2>5. CASE StartTracing
      <3> DEFINE r == ImageRecord("kernel", KernelImage)
      <3>1. r \in Recs  BY RecConstructors
      <3>2. batch' = batch /\ (queue' = queue \/ queue' = Append(queue, r))
        BY <2>5 DEF StartTracing
      <3> QED  BY <3>1, <3>2, <1>2, <1>3
    <2>6. CASE OpenMeta \/ SeedMaps \/ FinishTrace
      BY <1>2, <2>6 DEF OpenMeta, SeedMaps, FinishTrace, kernel
    <2> QED  BY <1>5, <2>1, <2>2, <2>3, <2>4, <2>5, <2>6, CommandCases
  <1>6. CASE UNCHANGED vars  BY <1>2, <1>6 DEF vars, command, kernel
  <1> QED  BY <1>4, <1>5, <1>6, NextCases

(* A sidecar with its header line, and trace_state_init with it.           *)
LEMMA HeaderFields ==
    ASSUME NEW tid \in Nat, NEW opened \in BOOLEAN
    PROVE  LET m == MetaHeader(MetaOpen(opened), tid)
           IN  /\ m \in [open : BOOLEAN, lines : Seq(Lines)]
               /\ m.open <=> opened
               /\ m.open => m.lines = <<[type |-> "header", tid |-> tid]>>
  <1> DEFINE h == [type |-> "header", tid |-> tid]
             m == MetaHeader(MetaOpen(opened), tid)
  <1>1. h \in Lines  BY DEF Lines
  <1>2. <<h>> \in Seq(Lines) /\ <<>> \in Seq(Lines)  BY <1>1
  <1>3. m = [open |-> opened, lines |-> IF opened THEN <<h>> ELSE <<>>]
    BY DEF MetaHeader, MetaOpen
  <1>4. m \in [open : BOOLEAN, lines : Seq(Lines)]  BY <1>2, <1>3
  <1>5. m.open <=> opened  BY <1>3
  <1>6. m.open => m.lines = <<h>>  BY <1>3
  <1> QED  BY <1>4, <1>5, <1>6

LEMMA OpenFields ==
    ASSUME NEW tid \in Nat, NEW opened \in BOOLEAN
    PROVE  LET p == TraceStateInit(MetaHeader(MetaOpen(opened), tid))
           IN  /\ p \in TraceStates /\ p.sections = <<>> /\ p.lastPage = -1 /\ p.maxPage = -1
               /\ ~p.wrapped
               /\ p.meta.open => p.meta.lines = <<[type |-> "header", tid |-> tid]>>
  <1> DEFINE h == [type |-> "header", tid |-> tid]
             m == MetaHeader(MetaOpen(opened), tid)
             nil == <<>>
             p == TraceStateInit(m)
  <1>1. nil \in Seq(Recs)  OBVIOUS
  <1>2. m \in [open : BOOLEAN, lines : Seq(Lines)] /\ (m.open => m.lines = <<h>>)
    BY HeaderFields
  <1> HIDE DEF m, nil, h
  <1>3. p = [sections |-> nil, meta |-> m, lastPage |-> -1, maxPage |-> -1,
             wrapped |-> FALSE, overflows |-> 0]
    BY DEF TraceStateInit, nil
  <1>4. p \in TraceStates  BY <1>1, <1>2, <1>3 DEF TraceStates
  <1>5. p.sections = nil /\ p.lastPage = -1 /\ p.maxPage = -1 /\ p.meta = m  BY <1>3
  <1>6. ~p.wrapped  BY <1>3
  <1> HIDE DEF p
  <1> QED  BY <1>2, <1>4, <1>5, <1>6 DEF p, m, h, nil

(* trace_state_seed_process_mmaps.                                         *)
Seeds(images) == [i \in DOMAIN images |-> ImageRecord("mmap", images[i])]

LEMMA SeedFields ==
    ASSUME NEW t \in TraceStates, NEW images \in Seq(Image)
    PROVE  LET p == Seed(t, images)
           IN  /\ p \in TraceStates /\ p.sections = t.sections \o Seeds(images)
               /\ p.meta = MetaSections(t.meta, Seeds(images))
               /\ Unchanged(p, t, {"extent"})
               /\ Seeds(images) \in Seq(Recs) /\ Len(Seeds(images)) = Len(images)
               /\ \A i \in 1..Len(images) : Seeds(images)[i] = ImageRecord("mmap", images[i])
  <1> DEFINE s == Seeds(images)
             m == MetaSections(t.meta, s)
  <1>1. \A i \in 1..Len(images) : ImageRecord("mmap", images[i]) \in Recs
    BY RecConstructors
  <1>2. /\ s \in Seq(Recs) /\ Len(s) = Len(images)
        /\ \A i \in 1..Len(images) : s[i] = ImageRecord("mmap", images[i])
    BY <1>1 DEF Seeds
  <1> HIDE DEF s
  <1>3. m \in [open : BOOLEAN, lines : Seq(Lines)]
    <2>1. t.meta \in [open : BOOLEAN, lines : Seq(Lines)]  BY DEF TraceStates
    <2>2. s \in Seq(Lines)  BY <1>2 DEF Lines
    <2>3. t.meta.lines \o s \in Seq(Lines)  BY <2>1, <2>2
    <2> QED  BY <2>1, <2>3 DEF MetaSections
  <1>4. t.sections \o s \in Seq(Recs)  BY <1>2 DEF TraceStates
  <1>5. Seed(t, images) = [t EXCEPT !.meta = m, !.sections = t.sections \o s]
    BY DEF Seed, s, Seeds
  <1> HIDE DEF m
  <1> DEFINE x == t.sections \o s
             p == [t EXCEPT !.meta = m, !.sections = x]
  <1>6. x \in Seq(Recs)  BY <1>4
  <1> HIDE DEF x
  <1>7. p \in TraceStates /\ p.sections = x /\ p.meta = m /\ Unchanged(p, t, {"extent"})
    BY <1>3, <1>6 DEF TraceStates, Unchanged
  <1> HIDE DEF p
  <1>8. Seed(t, images) = p  BY <1>5 DEF p, x
  <1> QED  BY <1>2, <1>7, <1>8 DEF x, s, m

(* trace_state_ensure_kernel.                                              *)
LEMMA EnsureFields ==
    ASSUME NEW t \in TraceStates, NEW known \in BOOLEAN
    PROVE  LET p == EnsureKernel(t, known)
           IN  /\ p \in TraceStates /\ Unchanged(p, t, {"meta", "extent"})
               /\ \/ p.sections = t.sections
                  \/ p.sections = Append(t.sections, ImageRecord("kernel", KernelImage))
  <1> DEFINE p == EnsureKernel(t, known)
             r == ImageRecord("kernel", KernelImage)
             x == Append(t.sections, r)
  <1>1. r \in Recs /\ t.sections \in Seq(Recs)  BY RecConstructors DEF TraceStates
  <1>2. x \in Seq(Recs)  BY <1>1
  <1>3. p = t \/ p = [t EXCEPT !.sections = x]
    BY ImagesDiffer DEF EnsureKernel, AddSection
  <1> HIDE DEF p, r, x
  <1>4. CASE p = t  BY <1>4 DEF Unchanged, p
  <1>5. CASE p = [t EXCEPT !.sections = x]
    <2>1. p \in TraceStates /\ p.sections = x /\ Unchanged(p, t, {"meta", "extent"})
      BY <1>2, <1>5, SetSections
    <2> QED  BY <2>1 DEF p, x, r
  <1> QED  BY <1>3, <1>4, <1>5

LEMMA StateTypesNext ==
    ASSUME Inv, [Next]_vars
    PROVE  StateTypes'
  <1> USE DEF StateTypes
  <1>1. StateTypes /\ maps \subseteq Image /\ IsFiniteSet(maps) /\ opt.tid \in Nat
    BY SessionTypes DEF Inv, TypeInv, SessionTypesInv, MapTypes
  <1>2. CASE UNCHANGED ts  BY <1>1, <1>2
  <1>3. CASE WorldStep \/ UNCHANGED vars
    BY <1>2, <1>3, WorldKeepsCommand DEF vars, command
  <1>4. CASE RecordStep  BY <1>4, RecordKeeps
  <1>5. CASE OpenMeta
    <2>1. PICK opened \in BOOLEAN : ts' = TraceStateInit(MetaHeader(MetaOpen(opened), opt.tid))
      BY <1>5 DEF OpenMeta
    <2> QED  BY <1>1, <2>1, OpenFields
  <1>6. CASE SeedMaps
    <2>1. SetToSeq(maps) \in Seq(Image)  BY <1>1, SetToSeqProperties
    <2>2. Seed(ts, SetToSeq(maps)) \in TraceStates  BY <1>1, <2>1, SeedFields
    <2> QED  BY <1>2, <1>6, <2>2 DEF SeedMaps, ProcessExecMmaps
  <1>7. CASE FinishTrace
    <2>1. PICK known \in BOOLEAN : ts' = IF opt.kernel THEN EnsureKernel(ts, known) ELSE ts
      BY <1>7 DEF FinishTrace
    <2>2. EnsureKernel(ts, known) \in TraceStates  BY <1>1, EnsureFields
    <2> QED  BY <1>1, <2>1, <2>2
  <1>8. CASE PollStep  BY <1>2, <1>8, PollKeeps
  <1>9. CASE ControlStep  BY <1>2, <1>9, ControlKeepsRecords
  <1>10. CASE AllocContext \/ StartTracing  BY <1>2, <1>10 DEF AllocContext, StartTracing
  <1> QED
    BY <1>3, <1>4, <1>5, <1>6, <1>7, <1>8, <1>9, <1>10, NextCases, CommandCases

LEMMA TypeInvNext ==
    ASSUME Inv, [Next]_vars
    PROVE  TypeInv'
  BY SessionTypesNext, ControlTypesNext, FlagTypesNext, CountTypesNext, DeviceTypesNext,
     HandleTypesNext, WriteTypesNext, MapTypesNext, RecordTypesNext, StateTypesNext DEF TypeInv

-----------------------------------------------------------------------------
(* The control parts are preserved.                                        *)

LEMMA ContextInvNext ==
    ASSUME Inv, [Next]_vars
    PROVE  ContextInv'
  <1> USE DEF ContextInv, Polled, Untraced
  <1>1. ContextInv /\ ControlTypes /\ ContextTypes  BY DEF Inv, TypeInv
  <1>2. CASE WorldStep \/ UNCHANGED vars
    <2>1. UNCHANGED <<pc, context, devices, fds, refused>>
      BY <1>2, WorldKeepsCommand DEF vars, command, kernel
    <2> QED  BY <1>1, <2>1
  <1>3. CASE RecordStep
    <2>1. UNCHANGED <<pc, context>> /\ pc \in {"process", "finaldrain", "poststop"}
      BY <1>3, RecordKeeps DEF Processing
    <2>2. refused \subseteq refused'
      BY <1>3 DEF RecordStep, ProcessRecord, FinalRecord, PostStopRecord, EmitAndProcess,
         Wakeup, kernel
    <2> QED  BY <1>1, <2>1, <2>2
  <1>4. CASE PollStep
    <2>1. UNCHANGED <<context, devices>>  BY <1>4, PollKeeps
    <2>2. refused \subseteq refused'  BY <1>4 DEF PollStep, Poll, FinalPoll, PostStopPoll
    <2> QED  BY <1>1, <1>4, <2>1, <2>2 DEF PollStep, Poll, FinalPoll, PostStopPoll
  <1>5. CASE AllocContext  BY <1>1, <1>5 DEF AllocContext
  <1>6. CASE Abort \/ FinishTrace
    BY <1>1, <1>6 DEF Abort, FinishTrace, CloseContext, StopContext, Tracing
  <1>7. CASE StartTracing \/ OpenMeta \/ SeedMaps
    BY <1>1, <1>7 DEF StartTracing, OpenMeta, SeedMaps, kernel
  <1>8. CASE Refuse \/ Fork \/ Attach \/ SetConfig \/ AbortReap
    BY <1>1, <1>8 DEF Refuse, Fork, Attach, SetConfig, AfterConfig, AbortReap, kernel
  <1>9. CASE ExecLimit \/ ExecCheck \/ TraceLimit \/ TraceCheck \/ PollFails \/ EndOfDrain \/ Reap
    BY <1>1, <1>9 DEF ExecLimit, ExecCheck, TraceLimit, TraceCheck, PollFails, EndOfDrain,
       Reap, kernel
  <1>10. CASE StopTracing \/ Interrupt
    BY <1>1, <1>10 DEF StopTracing, StopContext, Interrupt, kernel
  <1> QED
    BY <1>2, <1>3, <1>4, <1>5, <1>6, <1>7, <1>8, <1>9, <1>10, NextCases, CommandCases
    DEF ControlStep

LEMMA ChildInvNext ==
    ASSUME Inv, [Next]_vars
    PROVE  ChildInv'
  <1> USE DEF ChildInv, Setup, Finalizing
  <1>1. ChildInv /\ ContextInv /\ FlagTypes /\ TargetTypes  BY DEF Inv, TypeInv
  <1>2. IsExec' = IsExec  BY SessionTypesNext DEF IsExec
  <1> USE DEF FlagTypes
  <1>3. CASE WorldStep
    <2>1. UNCHANGED <<pc, gone, empty, context>>  BY <1>3, WorldKeepsCommand DEF command
    <2>2. \/ UNCHANGED target
          \/ (target \in {"running", "dying"}) /\ target' = IF IsExec THEN "zombie" ELSE "gone"
      BY <1>3 DEF WorldStep, TargetStep, KernelStep, TargetExecs, TargetExecsUnnamed, TargetMaps,
         TargetMapsUnnamed, TargetUnmaps, TargetCreatesThread, TargetFillsPage, MapsImage,
         QueueBuffer, LoseBuffer, TargetEnds, process
    <2> QED  BY <1>1, <1>2, <2>1, <2>2
  <1>4. CASE UNCHANGED vars  BY <1>1, <1>2, <1>4 DEF vars, command, process, kernel
  <1>5. CASE RecordStep  BY <1>1, <1>2, <1>5, RecordKeeps
  <1>6. CASE PollStep
    <2>1. UNCHANGED <<context, target>>  BY <1>6, PollKeeps
    <2>2. UNCHANGED gone  BY <1>6 DEF PollStep, Poll, FinalPoll, PostStopPoll
    <2> QED  BY <1>1, <1>2, <1>6, <2>1, <2>2 DEF PollStep, Poll, FinalPoll, PostStopPoll
  <1>7. CASE AllocContext \/ StartTracing \/ SeedMaps
    BY <1>1, <1>2, <1>7 DEF AllocContext, StartTracing, SeedMaps, ContextInv, Untraced, process, kernel
  <1>8. CASE OpenMeta
    BY <1>1, <1>2, <1>8 DEF OpenMeta, ContextInv, Polled, kernel
  <1>9. CASE FinishTrace \/ StopTracing
    BY <1>1, <1>2, <1>9 DEF FinishTrace, StopTracing, process, CloseContext, StopContext, Tracing
  <1>10. CASE Refuse \/ Fork \/ Attach \/ SetConfig
    BY <1>1, <1>2, <1>10 DEF Refuse, Fork, Attach, SetConfig, AfterConfig, ContextInv, process, kernel
  <1>11. CASE Abort \/ AbortReap
    BY <1>1, <1>2, <1>11 DEF Abort, AbortReap, KillChild, CloseContext, StopContext, Tracing,
       ContextInv, Untraced, process, kernel
  <1>12. CASE ExecLimit \/ ExecCheck \/ TraceLimit \/ TraceCheck
    BY <1>1, <1>2, <1>12 DEF ExecLimit, ExecCheck, TraceLimit, TraceCheck, KillChild, process, kernel
  <1>13. CASE PollFails \/ EndOfDrain \/ Reap
    BY <1>1, <1>2, <1>13, SessionAssumption DEF PollFails, EndOfDrain, Reap, KillChild, process, kernel
  <1>14. CASE Interrupt  BY <1>1, <1>2, <1>14 DEF Interrupt, process, kernel
  <1> QED
    BY <1>3, <1>4, <1>5, <1>6, <1>7, <1>8, <1>9, <1>10, <1>11, <1>12, <1>13, <1>14,
       NextCases, CommandCases DEF ControlStep

LEMMA SetupInvNext ==
    ASSUME Inv, [Next]_vars
    PROVE  SetupInv'
  <1> USE DEF SetupInv, Setup, Processing
  <1>1. SetupInv /\ ContextInv /\ FlagTypes  BY DEF Inv, TypeInv
  <1> USE DEF FlagTypes
  <1>2. CASE WorldStep \/ UNCHANGED vars
    <2>1. UNCHANGED <<pc, ts, seeded, batch, context, sidecars>>
      BY <1>2, WorldKeepsCommand DEF vars, command, kernel
    <2> QED  BY <1>1, <2>1
  <1>3. CASE RecordStep
    <2>1. UNCHANGED <<pc, seeded, context, sidecars>> /\ pc \in Processing
      BY <1>3, RecordKeeps
    <2> QED  BY <1>1, <2>1
  <1>4. CASE PollStep
    <2>1. UNCHANGED <<ts, seeded, context, sidecars>>  BY <1>4, PollKeeps
    <2> QED  BY <1>1, <1>4, <2>1 DEF PollStep, Poll, FinalPoll, PostStopPoll
  <1>5. CASE AllocContext \/ StartTracing
    BY <1>1, <1>5 DEF AllocContext, StartTracing, ContextInv
  <1>6. CASE OpenMeta
    <2>1. opt.tid \in Nat  BY SessionTypes DEF Inv, TypeInv, SessionTypesInv
    <2>2. PICK opened \in BOOLEAN : ts' = TraceStateInit(MetaHeader(MetaOpen(opened), opt.tid))
      BY <1>6 DEF OpenMeta
    <2>3. ts'.sections = <<>> /\ ts'.lastPage = -1 /\ ts'.maxPage = -1 /\ ~ts'.wrapped
      BY <2>1, <2>2, OpenFields
    <2>4. /\ pc = "meta" /\ seeded' = IsExec /\ pc' = IF IsExec THEN "loop" ELSE "seed"
          /\ UNCHANGED <<batch, context, sidecars>>
      BY <1>6 DEF OpenMeta, kernel
    <2>5. context = "running"  BY <1>1, <2>4 DEF ContextInv
    <2> QED  BY <1>1, <2>3, <2>4, <2>5
  <1>7. CASE SeedMaps
    <2>1. pc = "seed" /\ pc' = "loop" /\ UNCHANGED <<batch, context, sidecars>>
      BY <1>7 DEF SeedMaps, kernel
    <2>2. context = "running"  BY <1>1, <2>1 DEF ContextInv
    <2> QED  BY <1>1, <2>1, <2>2
  <1>8. CASE FinishTrace
    <2>1. pc = "decode" /\ pc' = "done" /\ UNCHANGED <<batch, seeded>> /\ context' \in {context, "stopped"}
      BY <1>8 DEF FinishTrace, CloseContext, StopContext
    <2> QED  BY <1>1, <2>1 DEF ContextInv
  <1>9. CASE ControlStep
    <2>1. UNCHANGED <<ts, batch, seeded, sidecars>>  BY <1>9, ControlKeepsRecords
    <2>2. CASE Refuse \/ Fork \/ Attach \/ SetConfig \/ Abort \/ AbortReap
      BY <1>1, <2>1, <2>2 DEF Refuse, Fork, Attach, SetConfig, AfterConfig, Abort, AbortReap,
         CloseContext, StopContext, Tracing, ContextInv, Untraced, kernel
    <2>3. CASE ExecLimit \/ ExecCheck \/ TraceLimit \/ TraceCheck
      BY <1>1, <2>1, <2>3 DEF ExecLimit, ExecCheck, TraceLimit, TraceCheck, kernel
    <2>4. CASE PollFails \/ EndOfDrain \/ Reap \/ StopTracing \/ Interrupt
      BY <1>1, <2>1, <2>4 DEF PollFails, EndOfDrain, Reap, StopTracing, StopContext, Interrupt, kernel
    <2> QED  BY <1>9, <2>2, <2>3, <2>4 DEF ControlStep
  <1> QED
    BY <1>2, <1>3, <1>4, <1>5, <1>6, <1>7, <1>8, <1>9, NextCases, CommandCases

-----------------------------------------------------------------------------
(* Records to come, when one is queued and when one is processed.          *)

LEMMA PendAppends ==
    ASSUME Inv, NEW r \in Recs, batch' = batch, queue' = Append(queue, r)
    PROVE  Pend' = Append(Pend, r)
  BY ConcatAppend DEF Pend, Inv, TypeInv, RecordTypes

LEMMA PendType ==
    ASSUME Inv PROVE Pend \in Seq(Recs)
  BY DEF Pend, Inv, TypeInv, RecordTypes

LEMMA SectionsType ==
    ASSUME Inv PROVE ts \in TraceStates /\ ts.sections \in Seq(Recs)
  BY DEF Inv, TypeInv, StateTypes, TraceStates

(* An appended record that does not reset the sections.                    *)
LEMMA CurrentAppend ==
    ASSUME NEW p \in Seq(Recs), NEW s \in Seq(Recs), NEW g, NEW r \in Recs,
           Current(p, s, g), ~Resets(r), Named(r) => r.image[1] >= g
    PROVE  Current(Append(p, r), s, g)
  <1> DEFINE q == Append(p, r)
  <1>1. /\ Len(q) = Len(p) + 1 /\ q[Len(p) + 1] = r /\ Len(p) \in Nat
        /\ \A i \in 1..Len(p) : q[i] = p[i]
    OBVIOUS
  <1> HIDE DEF q
  <1>2. ASSUME NEW i \in 1..Len(q), Fresh(q, i), Named(q[i]) PROVE q[i].image[1] >= g
    <2>1. CASE i \in 1..Len(p)
      <3>1. Fresh(p, i)  BY <1>1, <1>2, <2>1 DEF Fresh
      <3> QED  BY <1>1, <1>2, <2>1, <3>1 DEF Current
    <2>2. CASE i = Len(p) + 1  BY <1>1, <1>2, <2>2
    <2> QED  BY <1>1, <2>1, <2>2
  <1>3. NoExec(q) => NoExec(p)  BY <1>1 DEF NoExec
  <1> QED  BY <1>2, <1>3 DEF Current, q

LEMMA CoveredAppend ==
    ASSUME NEW p \in Seq(Recs), NEW s, NEW k, NEW m, NEW r \in Recs,
           Covered(p, s, k, m), ~Resets(r)
    PROVE  Covered(Append(p, r), s, k, m)
  <1> DEFINE q == Append(p, r)
  <1>1. /\ Len(q) = Len(p) + 1 /\ q[Len(p) + 1] = r /\ Len(p) \in Nat
        /\ \A i \in 1..Len(p) : q[i] = p[i]
    OBVIOUS
  <1> HIDE DEF q
  <1>2. \A i \in 1..Len(p) : Fresh(p, i) => Fresh(q, i) /\ i \in 1..Len(q)
    BY <1>1 DEF Fresh
  <1>3. NoExec(p) => NoExec(q)  BY <1>1 DEF NoExec
  <1> QED  BY <1>1, <1>2, <1>3 DEF Covered, q

(* The record that was appended last is followed by nothing.               *)
LEMMA LastAppended ==
    ASSUME NEW p \in Seq(Recs), NEW r \in Recs
    PROVE  LET q == Append(p, r)
           IN  /\ Len(q) \in 1..Len(q) /\ q[Len(q)] = r /\ Fresh(q, Len(q))
               /\ Resets(r) =>
                    ~NoExec(q) /\ \A i \in 1..Len(q) : Fresh(q, i) => i = Len(q)
  <1> DEFINE q == Append(p, r)
  <1>1. Len(q) = Len(p) + 1 /\ Len(p) \in Nat /\ q[Len(q)] = r  OBVIOUS
  <1> HIDE DEF q
  <1> QED  BY <1>1 DEF Fresh, NoExec, q

LEMMA TailFields ==
    ASSUME NEW p \in Seq(Recs), p # <<>>
    PROVE  /\ Tail(p) \in Seq(Recs) /\ Head(p) = p[1] /\ Head(p) \in Recs
           /\ Len(p) \in Nat /\ Len(p) >= 1
           /\ Len(Tail(p)) = Len(p) - 1
           /\ \A i \in 1..Len(Tail(p)) : Tail(p)[i] = p[i + 1]
           /\ \A i \in 2..Len(p) : i - 1 \in 1..Len(Tail(p)) /\ Tail(p)[i - 1] = p[i]
  OBVIOUS

LEMMA FreshTail ==
    ASSUME NEW p \in Seq(Recs), p # <<>>
    PROVE  /\ \A i \in 1..Len(Tail(p)) : Fresh(Tail(p), i) <=> Fresh(p, i + 1)
           /\ NoExec(Tail(p)) <=> Fresh(p, 1)
           /\ NoExec(p) <=> Fresh(p, 1) /\ ~Resets(Head(p))
  <1> DEFINE q == Tail(p)
  <1>1. /\ Len(p) \in Nat /\ Len(p) >= 1 /\ Len(q) = Len(p) - 1 /\ Head(p) = p[1]
        /\ \A i \in 1..Len(q) : q[i] = p[i + 1]
        /\ \A i \in 2..Len(p) : i - 1 \in 1..Len(q) /\ q[i - 1] = p[i]
    BY TailFields
  <1> HIDE DEF q
  <1>2. ASSUME NEW i \in 1..Len(q) PROVE Fresh(q, i) <=> Fresh(p, i + 1)
    <2>1. ASSUME Fresh(q, i) PROVE Fresh(p, i + 1)
      <3> SUFFICES ASSUME NEW j \in 1..Len(p), j > i + 1 PROVE ~Resets(p[j])
        BY DEF Fresh
      <3>1. j \in 2..Len(p) /\ j - 1 > i  BY <1>1
      <3> QED  BY <1>1, <2>1, <3>1 DEF Fresh
    <2>2. ASSUME Fresh(p, i + 1) PROVE Fresh(q, i)
      <3> SUFFICES ASSUME NEW j \in 1..Len(q), j > i PROVE ~Resets(q[j])
        BY DEF Fresh
      <3>1. j + 1 \in 1..Len(p) /\ j + 1 > i + 1 /\ q[j] = p[j + 1]  BY <1>1
      <3> QED  BY <2>2, <3>1 DEF Fresh
    <2> QED  BY <2>1, <2>2
  <1>3. NoExec(q) <=> Fresh(p, 1)
    <2>1. ASSUME NoExec(q) PROVE Fresh(p, 1)
      <3> SUFFICES ASSUME NEW j \in 1..Len(p), j > 1 PROVE ~Resets(p[j])
        BY DEF Fresh
      <3>1. j \in 2..Len(p)  BY <1>1
      <3> QED  BY <1>1, <2>1, <3>1 DEF NoExec
    <2>2. ASSUME Fresh(p, 1) PROVE NoExec(q)
      <3> SUFFICES ASSUME NEW j \in 1..Len(q) PROVE ~Resets(q[j])
        BY DEF NoExec
      <3>1. j + 1 \in 1..Len(p) /\ j + 1 > 1 /\ q[j] = p[j + 1]  BY <1>1
      <3> QED  BY <2>2, <3>1 DEF Fresh
    <2> QED  BY <2>1, <2>2
  <1>4. NoExec(p) <=> Fresh(p, 1) /\ ~Resets(Head(p))
    <2>1. \A j \in 1..Len(p) : j = 1 \/ j > 1  BY <1>1
    <2>2. 1 \in 1..Len(p)  BY <1>1
    <2> QED  BY <1>1, <2>1, <2>2 DEF NoExec, Fresh
  <1> QED  BY <1>2, <1>3, <1>4 DEF q

(* What processing a record makes of the sections.                         *)
LEMMA StepSections ==
    ASSUME NEW s \in Seq(Recs), NEW r \in Recs
    PROVE  LET z == MetaReadStep(s, r)
           IN  /\ z \in Seq(Recs)
               /\ Parses(r) => Len(z) \in 1..Len(z) /\ z[Len(z)] = r
               /\ \A i \in 1..Len(z) : z[i] = r \/ (~Resets(r) /\ i \in 1..Len(s) /\ z[i] = s[i])
               /\ ~Resets(r) => \A i \in 1..Len(s) : i \in 1..Len(z) /\ z[i] = s[i]
  <1> DEFINE z == MetaReadStep(s, r)
  <1>1. CASE ~Parses(r)
    <2>1. z = s  BY <1>1 DEF MetaReadStep
    <2>2. ~Resets(r)  BY <1>1 DEF Resets, Parses, ImageTypes
    <2> QED  BY <1>1, <2>1, <2>2
  <1>2. CASE Parses(r) /\ r.type = "exec"
    <2>1. z = <<r>>  BY <1>2 DEF MetaReadStep
    <2>2. Len(<<r>>) = 1 /\ <<r>>[1] = r /\ <<r>> \in Seq(Recs)  OBVIOUS
    <2>3. Resets(r)  BY <1>2 DEF Resets, Parses
    <2> HIDE DEF z
    <2> QED  BY <1>2, <2>1, <2>2, <2>3 DEF z
  <1>3. CASE Parses(r) /\ r.type # "exec"
    <2>1. z = Append(s, r)  BY <1>3 DEF MetaReadStep
    <2>2. /\ Len(z) = Len(s) + 1 /\ z[Len(s) + 1] = r /\ Len(s) \in Nat /\ z \in Seq(Recs)
          /\ \A i \in 1..Len(s) : z[i] = s[i]
      BY <2>1
    <2>3. ~Resets(r)  BY <1>3 DEF Resets
    <2> HIDE DEF z
    <2> QED  BY <1>3, <2>2, <2>3 DEF z
  <1> QED  BY <1>1, <1>2, <1>3

LEMMA CurrentProcess ==
    ASSUME NEW p \in Seq(Recs), NEW s \in Seq(Recs), NEW g, p # <<>>, Current(p, s, g)
    PROVE  Current(Tail(p), MetaReadStep(s, Head(p)), g)
  <1> DEFINE q == Tail(p)
             r == Head(p)
             z == MetaReadStep(s, r)
  <1>1. /\ r \in Recs /\ r = p[1] /\ 1 \in 1..Len(p) /\ Len(p) \in Nat
        /\ Len(q) = Len(p) - 1 /\ \A i \in 1..Len(q) : q[i] = p[i + 1]
    BY TailFields
  <1>2. /\ \A i \in 1..Len(q) : Fresh(q, i) <=> Fresh(p, i + 1)
        /\ NoExec(q) <=> Fresh(p, 1)
        /\ NoExec(p) <=> Fresh(p, 1) /\ ~Resets(r)
    BY FreshTail
  <1>3. \A i \in 1..Len(z) : z[i] = r \/ (~Resets(r) /\ i \in 1..Len(s) /\ z[i] = s[i])
    BY <1>1, StepSections
  <1> HIDE DEF q, r, z
  <1>4. ASSUME NEW i \in 1..Len(q), Fresh(q, i), Named(q[i]) PROVE q[i].image[1] >= g
    <2>1. i + 1 \in 1..Len(p)  BY <1>1
    <2> QED  BY <1>1, <1>2, <1>4, <2>1 DEF Current
  <1>5. ASSUME NoExec(q), NEW i \in 1..Len(z), Named(z[i]) PROVE z[i].image[1] >= g
    <2>1. CASE z[i] = r  BY <1>1, <1>2, <1>5, <2>1 DEF Current
    <2>2. CASE ~Resets(r) /\ i \in 1..Len(s) /\ z[i] = s[i]
      BY <1>2, <1>5, <2>2 DEF Current
    <2> QED  BY <1>3, <2>1, <2>2
  <1> QED  BY <1>4, <1>5 DEF Current, q, r, z

LEMMA CoveredProcess ==
    ASSUME NEW p \in Seq(Recs), NEW s \in Seq(Recs), NEW k, NEW m \in Image, p # <<>>,
           Covered(p, s, k, m)
    PROVE  Covered(Tail(p), MetaReadStep(s, Head(p)), k, m)
  <1> DEFINE q == Tail(p)
             r == Head(p)
             z == MetaReadStep(s, r)
  <1>1. /\ r \in Recs /\ r = p[1] /\ Len(p) \in Nat /\ Len(q) = Len(p) - 1
        /\ \A i \in 2..Len(p) : i - 1 \in 1..Len(q) /\ q[i - 1] = p[i]
    BY TailFields
  <1>2. /\ \A i \in 1..Len(q) : Fresh(q, i) <=> Fresh(p, i + 1)
        /\ NoExec(q) <=> Fresh(p, 1)
        /\ NoExec(p) <=> Fresh(p, 1) /\ ~Resets(r)
    BY FreshTail
  <1>3. /\ Parses(r) => Len(z) \in 1..Len(z) /\ z[Len(z)] = r
        /\ ~Resets(r) => \A i \in 1..Len(s) : i \in 1..Len(z) /\ z[i] = s[i]
    BY <1>1, StepSections
  <1>4. Names(r, m) => Parses(r)
    BY <1>1, RecParses, ImagesDiffer DEF Names, ImageTypes
  <1> HIDE DEF q, r, z
  <1>5. CASE \E i \in 1..Len(p) : Fresh(p, i) /\ Names(p[i], m)
    <2>1. PICK i \in 1..Len(p) : Fresh(p, i) /\ Names(p[i], m)  BY <1>5
    <2>2. CASE i = 1
      <3>1. NoExec(q) /\ Names(r, m)  BY <1>1, <1>2, <2>1, <2>2
      <3> QED  BY <1>3, <1>4, <3>1 DEF Covered, q, r, z
    <2>3. CASE i # 1
      <3>1. i \in 2..Len(p) /\ (i - 1) + 1 = i  BY <1>1, <2>3
      <3>2. i - 1 \in 1..Len(q) /\ q[i - 1] = p[i]  BY <1>1, <3>1
      <3>3. Fresh(q, i - 1)  BY <1>2, <2>1, <3>1, <3>2
      <3> QED  BY <2>1, <3>2, <3>3 DEF Covered, q, r, z
    <2> QED  BY <2>2, <2>3
  <1>6. CASE NoExec(p) /\ (k => \E i \in 1..Len(s) : Names(s[i], m))
    <2>1. NoExec(q) /\ (k => \E i \in 1..Len(z) : Names(z[i], m))  BY <1>2, <1>3, <1>6
    <2> QED  BY <2>1 DEF Covered, q, r, z
  <1> QED  BY <1>5, <1>6 DEF Covered

(* Records of threads only name nothing.                                   *)
LEMMA ThreadsOnly ==
    ASSUME NEW p \in Seq(Recs), \A i \in 1..Len(p) : p[i].type = "thread_create"
    PROVE  /\ NoExec(p) /\ \A i \in 1..Len(p) : ~Named(p[i]) /\ ~IsBuffer(p[i])
           /\ \A g : Current(p, <<>>, g)
  <1>1. NoExec(p) /\ \A i \in 1..Len(p) : ~Named(p[i]) /\ ~IsBuffer(p[i])
    BY DEF NoExec, Resets, Named, IsBuffer
  <1>2. Len(<<>>) = 0  OBVIOUS
  <1> QED  BY <1>1, <1>2 DEF Current

(* When the target acts, tracing has begun or nothing was recorded yet.    *)
LEMMA TargetActsWhen ==
    ASSUME Inv, TargetActs
    PROVE  \/ context = "running" /\ Tracing
           \/ /\ context \in Untraced /\ ~Tracing
              /\ pc \in Setup /\ ~seeded /\ ts.sections = <<>> /\ swi = {}
              /\ \A i \in 1..Len(Pend) : Pend[i].type = "thread_create"
  <1>1. context \in {"none", "allocated", "configured", "running", "stopped"} /\ pc \in Locations
    BY DEF Inv, TypeInv, ContextTypes, ControlTypes
  <1>2. context # "stopped" /\ pc \notin {"done", "killed"}  BY DEF TargetActs
  <1>3. CASE context = "running"  BY <1>3 DEF Tracing
  <1>4. CASE context \in Untraced
    <2>1. pc \in Setup  BY <1>1, <1>2, <1>4 DEF Inv, ContextInv, Untraced, Locations, Polled, Setup
    <2>2. ~seeded /\ ts.sections = <<>>  BY <2>1 DEF Inv, SetupInv
    <2>3. swi = {} /\ \A i \in 1..Len(Pend) : Pend[i].type = "thread_create"
      BY <1>4 DEF Inv, UntracedInv
    <2> QED  BY <1>4, <2>1, <2>2, <2>3 DEF Tracing, Untraced
  <1> QED  BY <1>1, <1>2, <1>3, <1>4 DEF Untraced

LEMMA UntracedInvNext ==
    ASSUME Inv, [Next]_vars
    PROVE  UntracedInv'
  <1> USE DEF UntracedInv, Untraced
  <1>1. UntracedInv /\ ContextInv /\ Tids' = Tids /\ Pend \in Seq(Recs)
    BY SessionTypesNext, PendType DEF Inv
  <1>2. SUFFICES ASSUME context' \in Untraced
                 PROVE  /\ \A i \in 1..Len(Pend') : Pend'[i].type = "thread_create"
                        /\ swi' = {} /\ reached' = 0 /\ \A t \in Tids : written'[t] = 0
    BY <1>1
  <1>3. CASE UNCHANGED <<Pend, swi, written, reached, context>>  BY <1>1, <1>2, <1>3
  <1>4. CASE WorldStep
    <2>1. context' = context /\ batch' = batch  BY <1>4, WorldKeepsCommand DEF command
    <2>2. ~Tracing  BY <1>2, <2>1 DEF Tracing
    <2>3. CASE TargetExecs \/ TargetExecsUnnamed \/ TargetMaps \/ TargetMapsUnnamed \/ TargetUnmaps
      <3>1. UNCHANGED <<queue, swi, written, reached>>
        BY <2>2, <2>3 DEF TargetExecs, TargetExecsUnnamed, TargetMaps, TargetMapsUnnamed, TargetUnmaps, MapsImage,
           Record
      <3> QED  BY <1>3, <2>1, <3>1 DEF Pend
    <2>4. CASE TargetCreatesThread
      <3> DEFINE r == ThreadRecord("thread_create", threads)
      <3>1. UNCHANGED <<swi, written, reached>> /\ (queue' = queue \/ queue' = Append(queue, r))
        BY <2>4 DEF TargetCreatesThread
      <3>2. CASE queue' = queue  BY <1>3, <2>1, <3>1, <3>2 DEF Pend
      <3>3. CASE queue' = Append(queue, r)
        <4>1. r \in Recs /\ r.type = "thread_create"
          BY RecConstructors DEF Inv, TypeInv, CountTypes, ThreadRecord
        <4> HIDE DEF r
        <4>2. Pend' = Append(Pend, r)  BY <2>1, <3>3, <4>1, PendAppends
        <4>3. /\ Len(Pend') = Len(Pend) + 1 /\ Len(Pend) \in Nat /\ Pend'[Len(Pend) + 1] = r
              /\ \A i \in 1..Len(Pend) : Pend'[i] = Pend[i]
          BY <1>1, <4>2
        <4>4. \A i \in 1..Len(Pend') : Pend'[i].type = "thread_create"
          BY <1>1, <1>2, <2>1, <4>1, <4>3
        <4> QED  BY <1>1, <1>2, <2>1, <3>1, <4>4
      <3> QED  BY <3>1, <3>2, <3>3
    <2>5. CASE (\E t \in Tids : TargetFillsPage(t)) \/ KernelStep
      <3>1. swi = {}  BY <1>1, <1>2, <2>1
      <3> QED  BY <2>2, <2>5, <3>1 DEF TargetFillsPage, KernelStep, QueueBuffer, LoseBuffer
    <2>6. CASE TargetEnds
      BY <1>3, <2>1, <2>6 DEF TargetEnds, kernel, Pend
    <2> QED  BY <1>4, <2>3, <2>4, <2>5, <2>6 DEF WorldStep, TargetStep
  <1>5. CASE UNCHANGED vars  BY <1>3, <1>5 DEF vars, command, kernel, Pend
  <1>6. CASE CommandStep \/ Interrupt
    <2>1. UNCHANGED <<swi, written, reached>>  BY <1>6, CommandKeepsWorld
    <2>2. CASE PollStep  BY <1>3, <2>1, <2>2, PollKeeps
    <2>3. CASE RecordStep
      <3>1. context' = context /\ pc \in Processing  BY <2>3, RecordKeeps
      <3> QED  BY <1>1, <1>2, <3>1 DEF ContextInv, Processing, Polled
    <2>4. CASE ControlStep
      <3>1. Pend' = Pend  BY <2>4, ControlKeepsRecords DEF Pend
      <3>2. context' = context \/ context \in Untraced
        BY <1>1, <1>2, <2>4 DEF ControlStep, ContextInv, CloseContext, StopContext, kernel, Refuse, Fork,
           Attach, SetConfig, Abort, AbortReap, ExecLimit, ExecCheck, TraceLimit, TraceCheck,
           PollFails, EndOfDrain, Reap, StopTracing, Interrupt
      <3> QED  BY <1>1, <1>2, <2>1, <3>1, <3>2
    <2>5. CASE AllocContext
      <3>1. CASE UNCHANGED <<context, queue>>
        BY <1>3, <2>1, <2>5, <3>1 DEF AllocContext, Pend
      <3>2. CASE queue' = [t \in 1..threads |-> ThreadRecord("thread_create", t - 1)]
        <4> DEFINE q == [t \in 1..threads |-> ThreadRecord("thread_create", t - 1)]
        <4>1. batch' = <<>> /\ context = "none"
          BY <1>1, <2>5 DEF AllocContext, ContextInv, Inv, SetupInv, Processing
        <4>2. queue' \in Seq(Recs)  BY RecordTypesNext DEF RecordTypes
        <4>3. Pend' = queue'  BY <4>1, <4>2, ConcatEmptySeq DEF Pend
        <4>4. threads \in Nat  BY DEF Inv, TypeInv, CountTypes
        <4>5. Len(q) = threads /\ \A i \in 1..threads : q[i].type = "thread_create"
          BY <4>4 DEF ThreadRecord
        <4> HIDE DEF q
        <4>6. \A i \in 1..Len(Pend') : Pend'[i].type = "thread_create"
          BY <3>2, <4>3, <4>5 DEF q
        <4> QED  BY <1>1, <2>1, <4>1, <4>6
      <3> QED  BY <2>5, <3>1, <3>2 DEF AllocContext
    <2>6. CASE StartTracing \/ OpenMeta \/ SeedMaps
      BY <1>2, <1>3, <2>1, <2>6 DEF StartTracing, OpenMeta, SeedMaps, kernel, Pend
    <2>7. CASE FinishTrace
      BY <1>1, <1>2, <2>7 DEF FinishTrace, CloseContext, StopContext, ContextInv
    <2> QED  BY <1>6, <2>2, <2>3, <2>4, <2>5, <2>6, <2>7, CommandCases
  <1> QED  BY <1>4, <1>5, <1>6, NextCases

(* A BUFFER record, and the OVERFLOW record that may follow it.            *)
LEMMA QueuesBuffer ==
    ASSUME Inv, NEW t \in Tids, NEW lost \in BOOLEAN, QueueBuffer(t, lost)
    PROVE  LET b == BufferRecord(t, written[t] % Pages)
           IN  Pend' = Append(Pend, b) \/ Pend' = Append(Append(Pend, b), OverflowRecord(t))
  <1> DEFINE b == BufferRecord(t, written[t] % Pages)
             o == OverflowRecord(t)
             p == Pend
  <1>1. b \in Recs /\ o \in Recs
    <2>1. t \in Nat /\ written[t] % Pages \in Nat
      BY BufferSuffix, SessionTypes DEF Inv, TypeInv, SessionTypesInv
    <2> QED  BY <2>1, RecConstructors
  <1>2. batch' = batch /\ queue' = queue \o <<b>> \o (IF lost THEN <<o>> ELSE <<>>)
    BY DEF QueueBuffer, command
  <1>3. queue \in Seq(Recs) /\ batch \in Seq(Recs) /\ p \in Seq(Recs)
    BY PendType DEF Inv, TypeInv, RecordTypes
  <1> HIDE DEF b, o
  <1>4. queue \o <<b>> = Append(queue, b) /\ Append(queue, b) \in Seq(Recs)
    BY <1>1, <1>3, AppendIsConcat
  <1>5. batch \o Append(queue, b) = Append(p, b)  BY <1>1, <1>3, ConcatAppend DEF Pend
  <1>6. CASE lost
    <2>1. queue' = Append(queue, b) \o <<o>>  BY <1>2, <1>4, <1>6
    <2>2. Append(queue, b) \o <<o>> = Append(Append(queue, b), o)
      BY <1>1, <1>4, AppendIsConcat
    <2>3. batch \o Append(Append(queue, b), o) = Append(batch \o Append(queue, b), o)
      BY <1>1, <1>3, <1>4, ConcatAppend
    <2>4. Pend' = Append(Append(p, b), o)  BY <1>2, <1>5, <2>1, <2>2, <2>3 DEF Pend
    <2> QED  BY <2>4 DEF b, o
  <1>7. CASE ~lost
    <2>1. queue' = Append(queue, b) \o <<>>  BY <1>2, <1>4, <1>7
    <2>2. queue' = Append(queue, b)  BY <1>4, <2>1, ConcatEmptySeq
    <2>3. Pend' = Append(p, b)  BY <1>2, <1>5, <2>2 DEF Pend
    <2> QED  BY <2>3 DEF b
  <1> QED  BY <1>6, <1>7

-----------------------------------------------------------------------------
(* The sections stay those of the program that runs.                       *)

(* A step that queues at most one record, no reset, and leaves the         *)
(* sections alone; the mappings it adds are named by the record.           *)
LEMMA ImagesQueued ==
    ASSUME Inv, NEW r \in Recs, ~Resets(r), Named(r) => r.image[1] >= named,
           UNCHANGED <<batch, ts, seeded, named, pc, opt>>, named <= image',
           queue' = queue \/ queue' = Append(queue, r),
           \A m \in maps' : m[1] = image' /\ (m \in maps \/ (Tracing => Names(r, m))),
           Tracing => queue' = Append(queue, r),
           maps' # maps => TargetActs
    PROVE  ImagesInv'
  <1>1. /\ Pend \in Seq(Recs) /\ ts.sections \in Seq(Recs)
        /\ (IsExec /\ pc \in Setup \ {"abortreap"} => maps = {})
        /\ Current(Pend, ts.sections, named)
        /\ \A m \in maps : Covered(Pend, ts.sections, seeded, m)
    BY PendType, SectionsType DEF Inv, ImagesInv
  <1>2. named' <= image' /\ \A m \in maps' : m[1] = image'  OBVIOUS
  <1>3. IsExec' /\ pc' \in Setup \ {"abortreap"} => maps' = {}
    <2>1. TargetActs => target = "running"  BY DEF TargetActs
    <2>2. IsExec /\ pc \in Setup \ {"abortreap"} => target # "running"
      BY DEF Inv, ChildInv, Setup
    <2> QED  BY <1>1, <2>1, <2>2 DEF IsExec
  <1>4. CASE queue' = queue
    <2>1. Pend' = Pend  BY <1>4 DEF Pend
    <2>2. ASSUME NEW m \in maps' PROVE Covered(Pend, ts.sections, seeded, m)
      <3>1. CASE m \in maps  BY <1>1, <3>1
      <3>2. CASE m \notin maps
        <4>1. TargetActs  BY <3>2
        <4>2. CASE Tracing
          <5>1. Append(queue, r) = queue  BY <1>4, <4>2
          <5>2. queue \in Seq(Recs)  BY DEF Inv, TypeInv, RecordTypes
          <5>3. Len(Append(queue, r)) = Len(queue) + 1 /\ Len(queue) \in Nat  BY <5>2
          <5> QED  BY <5>1, <5>3
        <4>3. CASE ~Tracing
          <5>1. ~seeded /\ \A i \in 1..Len(Pend) : Pend[i].type = "thread_create"
            BY <4>1, <4>3, TargetActsWhen
          <5>2. NoExec(Pend)  BY <5>1, <1>1, ThreadsOnly
          <5> QED  BY <5>1, <5>2 DEF Covered
        <4> QED  BY <4>2, <4>3
      <3> QED  BY <3>1, <3>2
    <2> QED  BY <1>1, <1>2, <1>3, <2>1, <2>2 DEF ImagesInv
  <1>5. CASE queue' = Append(queue, r)
    <2>1. Pend' = Append(Pend, r)  BY <1>5, PendAppends
    <2>2. Current(Pend', ts.sections, named)  BY <1>1, <2>1, CurrentAppend
    <2>3. ASSUME NEW m \in maps' PROVE Covered(Pend', ts.sections, seeded, m)
      <3>1. CASE m \in maps
        <4>1. Covered(Pend, ts.sections, seeded, m)  BY <1>1, <3>1
        <4> QED  BY <1>1, <2>1, <4>1, CoveredAppend
      <3>2. CASE m \notin maps
        <4>1. TargetActs  BY <3>2
        <4>2. CASE Tracing
          <5>1. Names(r, m)  BY <3>2, <4>2
          <5> DEFINE n == Len(Pend')
          <5>2. n \in 1..n /\ Pend'[n] = r /\ Fresh(Pend', n)
            BY <1>1, <2>1, LastAppended
          <5> QED  BY <5>1, <5>2 DEF Covered
        <4>3. CASE ~Tracing
          <5>1. ~seeded /\ \A i \in 1..Len(Pend) : Pend[i].type = "thread_create"
            BY <4>1, <4>3, TargetActsWhen
          <5>2. NoExec(Pend)  BY <5>1, <1>1, ThreadsOnly
          <5>3. Covered(Pend, ts.sections, seeded, m)  BY <5>1, <5>2 DEF Covered
          <5> QED  BY <1>1, <2>1, <5>3, CoveredAppend
        <4> QED  BY <4>2, <4>3
      <3> QED  BY <3>1, <3>2
    <2> QED  BY <1>2, <1>3, <2>2, <2>3 DEF ImagesInv
  <1> QED  BY <1>4, <1>5

LEMMA ImagesInvWorld ==
    ASSUME Inv, WorldStep
    PROVE  ImagesInv'
  <1>1. /\ Pend \in Seq(Recs) /\ ts.sections \in Seq(Recs) /\ ImagesInv
        /\ image \in Nat /\ named \in Nat /\ named <= image /\ mapped \in Nat /\ threads \in Nat /\ queue \in Seq(Recs)
        /\ \A m \in maps : m[1] = image
    BY PendType, SectionsType DEF Inv, TypeInv, CountTypes, RecordTypes, ImagesInv
  <1>2. UNCHANGED <<batch, ts, seeded, pc, opt, context>>
    BY WorldKeepsCommand DEF command, chosen
  <1>3. CASE TargetExecs
    <2> DEFINE new == <<image + 1, mapped>>
               r == ImageRecord("exec", new)
    <2>1. /\ image' = image + 1 /\ named' = image + 1 /\ maps' = {new} /\ TargetActs
          /\ queue' = IF Tracing THEN Append(queue, r) ELSE queue
      BY <1>3 DEF TargetExecs, MapsImage, Record
    <2>2. new \in Image /\ new[1] = image + 1  BY <1>1 DEF Image
    <2>3. r \in Recs /\ r.type = "exec" /\ r.image = new /\ Resets(r)
      BY <2>2, RecConstructors, ImagesDiffer DEF ImageRecord, Resets
    <2> HIDE DEF r, new
    <2>4. IsExec' /\ pc' \in Setup \ {"abortreap"} => maps' = {}
      <3>1. target = "running"  BY <2>1 DEF TargetActs
      <3> QED  BY <1>2, <3>1 DEF Inv, ChildInv, Setup, IsExec
    <2>5. named' <= image' /\ \A m \in maps' : m[1] = image'  BY <1>1, <2>1, <2>2
    <2>6. CASE Tracing
      <3>1. Pend' = Append(Pend, r)  BY <1>2, <2>1, <2>3, <2>6, PendAppends
      <3> DEFINE n == Len(Pend')
      <3>2. /\ n \in 1..n /\ Pend'[n] = r /\ Fresh(Pend', n) /\ ~NoExec(Pend')
            /\ \A i \in 1..n : Fresh(Pend', i) => i = n
        BY <1>1, <2>3, <3>1, LastAppended
      <3> HIDE DEF n
      <3>3. Current(Pend', ts.sections, named')
        BY <1>1, <2>1, <2>2, <2>3, <3>2 DEF Current, n
      <3>4. \A m \in maps' : Covered(Pend', ts.sections, seeded, m)
        BY <2>1, <2>3, <3>2 DEF Covered, Names, n
      <3> QED  BY <1>2, <2>4, <2>5, <3>3, <3>4 DEF ImagesInv
    <2>7. CASE ~Tracing
      <3>1. Pend' = Pend  BY <1>2, <2>1, <2>7 DEF Pend
      <3>2. /\ ~seeded /\ ts.sections = <<>>
            /\ \A i \in 1..Len(Pend) : Pend[i].type = "thread_create"
        BY <2>1, <2>7, TargetActsWhen
      <3>3. NoExec(Pend) /\ Current(Pend, <<>>, named')  BY <1>1, <3>2, ThreadsOnly
      <3>4. \A m \in maps' : Covered(Pend, ts.sections, seeded, m)
        BY <3>2, <3>3 DEF Covered
      <3> QED  BY <1>2, <2>4, <2>5, <3>1, <3>2, <3>3, <3>4 DEF ImagesInv
    <2> QED  BY <2>6, <2>7
  <1>4. CASE TargetMaps
    <2> DEFINE new == <<image, mapped>>
               r == ImageRecord("mmap", new)
    <2>1. /\ image' = image /\ named' = named /\ maps' = maps \cup {new} /\ TargetActs
          /\ queue' = IF Tracing THEN Append(queue, r) ELSE queue
      BY <1>4 DEF TargetMaps, MapsImage, Record
    <2>2. new \in Image /\ new[1] = image  BY <1>1 DEF Image
    <2>3. r \in Recs /\ r.type = "mmap" /\ r.image = new
      BY <2>2, RecConstructors DEF ImageRecord
    <2> HIDE DEF r, new
    <2>4. \A m \in maps' : m[1] = image' /\ (m \in maps \/ (Tracing => Names(r, m)))
      BY <1>1, <2>1, <2>2, <2>3 DEF Names
    <2>5. ~Resets(r) /\ (Named(r) => r.image[1] >= named)  BY <1>1, <2>2, <2>3 DEF Resets
    <2> QED  BY <1>1, <1>2, <2>1, <2>3, <2>4, <2>5, ImagesQueued
  <1>5. CASE TargetMapsUnnamed
    <2> DEFINE r == ImageRecord("mmap", NoImage)
    <2>1. /\ image' = image /\ named' = named /\ maps' = maps
          /\ queue' = IF Tracing THEN Append(queue, r) ELSE queue
      BY <1>5 DEF TargetMapsUnnamed, MapsImage, Record
    <2>2. r \in Recs /\ ~Resets(r) /\ ~Named(r)
      BY RecConstructors DEF ImageRecord, Resets, Named
    <2> HIDE DEF r
    <2> QED  BY <1>1, <1>2, <2>1, <2>2, ImagesQueued
  <1>6. CASE TargetUnmaps
    <2>1. /\ image' = image /\ named' = named /\ maps' \subseteq maps /\ TargetActs
          /\ queue' = IF Tracing THEN Append(queue, UnmapRecord) ELSE queue
      BY <1>6 DEF TargetUnmaps, Record
    <2>2. UnmapRecord \in Recs /\ ~Resets(UnmapRecord) /\ ~Named(UnmapRecord)
      BY RecConstructors DEF UnmapRecord, Resets, Named
    <2> QED  BY <1>1, <1>2, <2>1, <2>2, ImagesQueued
  <1>7. CASE TargetCreatesThread
    <2> DEFINE r == ThreadRecord("thread_create", threads)
    <2>1. /\ image' = image /\ named' = named /\ maps' = maps /\ TargetActs
          /\ queue' = IF context = "none" THEN queue ELSE Append(queue, r)
      BY <1>7 DEF TargetCreatesThread
    <2>2. r \in Recs /\ ~Resets(r) /\ ~Named(r)
      BY <1>1, RecConstructors DEF ThreadRecord, Resets, Named
    <2> HIDE DEF r
    <2>3. Tracing => context # "none"  BY DEF Tracing
    <2> QED  BY <1>1, <1>2, <2>1, <2>2, <2>3, ImagesQueued
  <1>8. CASE \E t \in Tids, lost \in BOOLEAN : QueueBuffer(t, lost)
    <2>1. PICK t \in Tids, lost \in BOOLEAN : QueueBuffer(t, lost)  BY <1>8
    <2>2. UNCHANGED <<maps, image, named>>  BY <2>1 DEF QueueBuffer, process
    <2> DEFINE b == BufferRecord(t, written[t] % Pages)
               o == OverflowRecord(t)
    <2>3. /\ b \in Recs /\ ~Resets(b) /\ ~Named(b)
          /\ o \in Recs /\ ~Resets(o) /\ ~Named(o)
      <3>1. t \in Nat /\ written[t] % Pages \in Nat
        BY BufferSuffix, SessionTypes DEF Inv, TypeInv, SessionTypesInv
      <3> QED  BY <3>1, RecConstructors DEF BufferRecord, OverflowRecord, Resets, Named
    <2> DEFINE q == Append(Pend, b)
    <2>4. Pend' = q \/ Pend' = Append(q, o)
      BY <1>2, <2>1, <2>3, QueuesBuffer
    <2> HIDE DEF b, o
    <2>5. q \in Seq(Recs)  BY <1>1, <2>3
    <2>6. Current(Pend, ts.sections, named)
            /\ \A m \in maps : Covered(Pend, ts.sections, seeded, m)
      BY <1>1 DEF ImagesInv
    <2>7. Current(q, ts.sections, named)  BY <1>1, <2>3, <2>6, CurrentAppend
    <2>8. \A m \in maps : Covered(q, ts.sections, seeded, m)
      BY <1>1, <2>3, <2>6, CoveredAppend
    <2> HIDE DEF q
    <2>9. Current(Append(q, o), ts.sections, named)  BY <1>1, <2>3, <2>5, <2>7, CurrentAppend
    <2>10. \A m \in maps : Covered(Append(q, o), ts.sections, seeded, m)
      BY <2>3, <2>5, <2>8, CoveredAppend
    <2>11. Current(Pend', ts.sections, named)
             /\ \A m \in maps : Covered(Pend', ts.sections, seeded, m)
      BY <2>4, <2>7, <2>8, <2>9, <2>10
    <2> QED  BY <1>1, <1>2, <2>2, <2>11 DEF ImagesInv, IsExec
  <1>9. CASE (\E t \in Tids : TargetFillsPage(t) \/ LoseBuffer(t)) \/ TargetEnds
    <2>1. UNCHANGED <<maps, image, named, queue>>
      BY <1>9 DEF TargetFillsPage, LoseBuffer, TargetEnds, process, kernel
    <2> QED  BY <1>1, <1>2, <2>1 DEF ImagesInv, IsExec, Pend
  <1>10. CASE TargetExecsUnnamed
    <2> DEFINE r == ImageRecord("exec", NoImage)
    <2>1. /\ image' = image + 1 /\ maps' = {} /\ TargetActs
          /\ named' = IF Tracing THEN named ELSE image + 1
          /\ queue' = IF Tracing THEN Append(queue, r) ELSE queue
      BY <1>10 DEF TargetExecsUnnamed, MapsImage, Record
    <2>2. r \in Recs /\ ~Resets(r) /\ ~Named(r)
      BY RecConstructors DEF ImageRecord, Resets, Named
    <2> HIDE DEF r
    <2>3. CASE Tracing
      <3>1. named <= image'  BY <1>1, <2>1
      <3> QED  BY <1>2, <2>1, <2>2, <2>3, <3>1, ImagesQueued
    <2>4. CASE ~Tracing
      <3>1. Pend' = Pend  BY <1>2, <2>1, <2>4 DEF Pend
      <3>2. /\ ts.sections = <<>>
            /\ \A i \in 1..Len(Pend) : Pend[i].type = "thread_create"
        BY <2>1, <2>4, TargetActsWhen
      <3>3. Current(Pend, <<>>, named')  BY <1>1, <3>2, ThreadsOnly
      <3>4. named' <= image'  BY <1>1, <2>1, <2>4
      <3> QED  BY <1>2, <2>1, <3>1, <3>2, <3>3, <3>4 DEF ImagesInv
    <2> QED  BY <2>3, <2>4
  <1> QED
    BY <1>3, <1>4, <1>5, <1>6, <1>7, <1>8, <1>9, <1>10 DEF WorldStep, TargetStep, KernelStep

LEMMA ImagesInvCommand ==
    ASSUME Inv, CommandStep \/ Interrupt
    PROVE  ImagesInv'
  <1>1. /\ Pend \in Seq(Recs) /\ ts.sections \in Seq(Recs)
        /\ IsExec /\ pc \in Setup \ {"abortreap"} => maps = {}
        /\ named <= image /\ image \in Nat /\ named \in Nat
        /\ \A m \in maps : m[1] = image
        /\ Current(Pend, ts.sections, named)
        /\ \A m \in maps : Covered(Pend, ts.sections, seeded, m)
        /\ maps \subseteq Image /\ IsFiniteSet(maps) /\ opt.tid \in Nat
    BY PendType, SectionsType, SessionTypes
    DEF Inv, ImagesInv, TypeInv, CountTypes, MapTypes, SessionTypesInv
  <1>2. UNCHANGED <<maps, image, named, opt>>  BY CommandKeepsWorld DEF chosen
  <1>3. IsExec' /\ pc' \in Setup \ {"abortreap"} => maps' = {}
    <2>1. pc' \in Setup \ {"abortreap"} => pc \in Setup \ {"abortreap"}
      BY DEF Setup, CommandStep, Refuse, Fork, Attach, AllocContext, SetConfig, StartTracing,
         OpenMeta, SeedMaps, Abort, AbortReap, ExecLimit, ExecCheck, TraceLimit, TraceCheck,
         Poll, PollFails, ProcessRecord, EndOfDrain, Reap, FinalPoll, FinalRecord, StopTracing,
         PostStopPoll, PostStopRecord, FinishTrace, Interrupt
    <2> QED  BY <1>1, <1>2, <2>1 DEF IsExec
  <1>4. SUFFICES /\ Current(Pend', ts'.sections, named)
                 /\ \A m \in maps : Covered(Pend', ts'.sections, seeded', m)
    BY <1>1, <1>2, <1>3 DEF ImagesInv
  <1>5. CASE PollStep \/ ControlStep
    <2>1. UNCHANGED <<Pend, ts, seeded>>
      BY <1>5, PollKeeps, ControlKeepsRecords DEF Pend
    <2> QED  BY <1>1, <2>1
  <1>6. CASE RecordStep
    <2>1. /\ Pend # <<>> /\ Pend' = Tail(Pend) /\ seeded' = seeded
          /\ ts'.sections = MetaReadStep(ts.sections, Head(Pend))
      BY <1>6, RecordKeeps DEF Processed
    <2>2. Current(Pend', ts'.sections, named)  BY <1>1, <2>1, CurrentProcess
    <2>3. ASSUME NEW m \in maps PROVE Covered(Pend', ts'.sections, seeded, m)
      <3>1. m \in Image /\ Covered(Pend, ts.sections, seeded, m)  BY <1>1
      <3> QED  BY <1>1, <2>1, <3>1, CoveredProcess
    <2> QED  BY <2>1, <2>2, <2>3
  <1>7. CASE AllocContext
    <2>1. UNCHANGED <<ts, seeded, batch>>  BY <1>7 DEF AllocContext
    <2>2. CASE queue' = queue  BY <1>1, <2>1, <2>2 DEF Pend
    <2>3. CASE queue' # queue
      <3>1. pc = "alloc" /\ context' = "allocated"  BY <1>7, <2>3 DEF AllocContext
      <3>2. [Next]_vars  BY <1>7 DEF Next, CommandStep
      <3>3. Pend' \in Seq(Recs)  BY <3>2, RecordTypesNext DEF RecordTypes, Pend
      <3>4. \A i \in 1..Len(Pend') : Pend'[i].type = "thread_create"
        BY <3>1, <3>2, UntracedInvNext DEF UntracedInv, Untraced
      <3>5. ts.sections = <<>> /\ ~seeded  BY <3>1 DEF Inv, SetupInv, Setup
      <3>6. NoExec(Pend') /\ Current(Pend', <<>>, named)  BY <3>3, <3>4, ThreadsOnly
      <3> QED  BY <2>1, <3>5, <3>6 DEF Covered
    <2> QED  BY <2>2, <2>3
  <1>8. CASE StartTracing
    <2> DEFINE r == ImageRecord("kernel", KernelImage)
    <2>1. UNCHANGED <<ts, seeded, batch>> /\ (queue' = queue \/ queue' = Append(queue, r))
      BY <1>8 DEF StartTracing
    <2>2. r \in Recs /\ ~Resets(r) /\ ~Named(r)
      BY RecConstructors DEF ImageRecord, Resets, Named
    <2> HIDE DEF r
    <2>3. CASE queue' = queue  BY <1>1, <2>1, <2>3 DEF Pend
    <2>4. CASE queue' = Append(queue, r)
      <3>1. Pend' = Append(Pend, r)  BY <2>1, <2>2, <2>4, PendAppends
      <3>2. Current(Pend', ts.sections, named)  BY <1>1, <2>2, <3>1, CurrentAppend
      <3>3. \A m \in maps : Covered(Pend', ts.sections, seeded, m)
        BY <1>1, <2>2, <3>1, CoveredAppend
      <3> QED  BY <2>1, <3>2, <3>3
    <2> QED  BY <2>1, <2>3, <2>4
  <1>9. CASE OpenMeta
    <2>1. PICK opened \in BOOLEAN : ts' = TraceStateInit(MetaHeader(MetaOpen(opened), opt.tid))
      BY <1>9 DEF OpenMeta
    <2>2. ts'.sections = <<>>  BY <1>1, <2>1, OpenFields
    <2>3. pc = "meta" /\ Pend' = Pend /\ seeded' = IsExec  BY <1>9 DEF OpenMeta, kernel, Pend
    <2>4. ts.sections = <<>> /\ ~seeded  BY <2>3 DEF Inv, SetupInv, Setup
    <2>5. IsExec => maps = {}  BY <1>1, <2>3 DEF Setup
    <2>6. ~IsExec => seeded' = FALSE  BY <2>3 DEF IsExec
    <2>7. ASSUME NEW m \in maps PROVE Covered(Pend, ts'.sections, seeded', m)
      <3>1. Covered(Pend, ts.sections, seeded, m)  BY <1>1
      <3>2. ~IsExec  BY <2>5
      <3> QED  BY <2>6, <3>1, <3>2 DEF Covered
    <2> QED  BY <1>1, <2>2, <2>3, <2>4, <2>7
  <1>10. CASE SeedMaps
    <2>1. Pend' = Pend /\ pc = "seed"  BY <1>10 DEF SeedMaps, kernel, Pend
    <2>2. CASE UNCHANGED <<ts, seeded>>  BY <1>1, <2>1, <2>2
    <2>3. CASE ts' = Seed(ts, SetToSeq(maps)) /\ seeded' = TRUE
      <3> DEFINE images == SetToSeq(maps)
                 s == Seeds(images)
      <3>1. images \in Seq(Image) /\ images \in Seq(maps)
              /\ \A m \in maps : \E i \in 1..Len(images) : images[i] = m
        BY <1>1, SetToSeqProperties
      <3>2. /\ ts \in TraceStates /\ ts.sections = <<>>
        BY <2>1, SectionsType DEF Inv, SetupInv, Setup
      <3> HIDE DEF images
      <3>3. /\ ts'.sections = ts.sections \o s /\ s \in Seq(Recs) /\ Len(s) = Len(images)
            /\ \A i \in 1..Len(images) : s[i] = ImageRecord("mmap", images[i])
        BY <2>3, <3>1, <3>2, SeedFields DEF images
      <3> HIDE DEF s
      <3>4. ts'.sections = s  BY <3>2, <3>3, ConcatEmptySeq
      <3>5. \A i \in 1..Len(s) : s[i].type = "mmap" /\ s[i].image = images[i] /\ images[i] \in maps
        <4> TAKE i \in 1..Len(s)
        <4>1. i \in 1..Len(images) /\ s[i] = ImageRecord("mmap", images[i])  BY <3>3
        <4>2. images \in Seq(maps)  BY <3>1
        <4>3. images[i] \in maps  BY <4>1, <4>2
        <4> QED  BY <4>1, <4>3 DEF ImageRecord
      <3>6. Current(Pend, s, named)  BY <1>1, <3>5 DEF Current
      <3>7. ASSUME NEW m \in maps PROVE Covered(Pend, s, TRUE, m)
        <4>1. Covered(Pend, ts.sections, seeded, m)  BY <1>1
        <4>2. PICK i \in 1..Len(s) : Names(s[i], m)  BY <3>1, <3>3, <3>5 DEF Names
        <4> QED  BY <4>1, <4>2 DEF Covered
      <3> QED  BY <2>1, <2>3, <3>4, <3>6, <3>7
    <2> QED  BY <1>10, <2>2, <2>3 DEF SeedMaps, ProcessExecMmaps
  <1>11. CASE FinishTrace
    <2> DEFINE r == ImageRecord("kernel", KernelImage)
    <2>1. UNCHANGED <<seeded, Pend>>  BY <1>11 DEF FinishTrace, Pend
    <2>2. ts'.sections = ts.sections \/ ts'.sections = Append(ts.sections, r)
      <3>1. PICK known \in BOOLEAN : ts' = IF opt.kernel THEN EnsureKernel(ts, known) ELSE ts
        BY <1>11 DEF FinishTrace
      <3>2. ts \in TraceStates  BY SectionsType
      <3>3. \/ EnsureKernel(ts, known).sections = ts.sections
            \/ EnsureKernel(ts, known).sections = Append(ts.sections, r)
        BY <3>2, EnsureFields
      <3> QED  BY <3>1, <3>3
    <2>3. r \in Recs /\ ~Named(r)  BY RecConstructors DEF ImageRecord, Named
    <2> HIDE DEF r
    <2>4. CASE ts'.sections = Append(ts.sections, r)
      <3> DEFINE s == ts.sections
                 z == Append(s, r)
      <3>1. /\ Len(z) = Len(s) + 1 /\ z[Len(s) + 1] = r /\ Len(s) \in Nat
            /\ \A i \in 1..Len(s) : z[i] = s[i]
        BY <1>1
      <3> HIDE DEF s, z
      <3>2. \A i \in 1..Len(z) : Named(z[i]) => i \in 1..Len(s) /\ z[i] = s[i]
        BY <2>3, <3>1
      <3>3. \A i \in 1..Len(s) : i \in 1..Len(z)  BY <3>1
      <3>4. Current(Pend, z, named)  BY <1>1, <3>2 DEF Current, s
      <3>5. ASSUME NEW m \in maps PROVE Covered(Pend, z, seeded, m)
        <4>1. Covered(Pend, s, seeded, m)  BY <1>1 DEF s
        <4> QED  BY <3>1, <3>3, <4>1 DEF Covered
      <3> QED  BY <2>1, <2>4, <3>4, <3>5 DEF s, z
    <2> QED  BY <1>1, <2>1, <2>2, <2>4
  <1> QED
    BY <1>5, <1>6, <1>7, <1>8, <1>9, <1>10, <1>11, CommandCases

LEMMA ImagesInvNext ==
    ASSUME Inv, [Next]_vars
    PROVE  ImagesInv'
  <1>1. CASE UNCHANGED vars
    BY <1>1 DEF vars, command, process, kernel, chosen, Inv, ImagesInv, Pend, IsExec
  <1> QED  BY <1>1, NextCases, ImagesInvWorld, ImagesInvCommand

-----------------------------------------------------------------------------
(* The sidecar reads back as the sections.                                 *)

(* The header line names no image.                                         *)
LEMMA MetaReadHeader ==
    ASSUME NEW tid \in Nat
    PROVE  MetaReadSections(<<[type |-> "header", tid |-> tid]>>) = <<>>
  <1> DEFINE h == [type |-> "header", tid |-> tid]
             nil == <<>>
  <1>1. h \in Lines  BY DEF Lines
  <1>2. ~Parses(h)  BY DEF Parses, ImageTypes
  <1>3. nil \in Seq(Lines) /\ Append(nil, h) = <<h>>  OBVIOUS
  <1>4. MetaReadSections(nil) = nil  BY MetaReadNothing
  <1> HIDE DEF h, nil
  <1>5. MetaReadSections(Append(nil, h)) = MetaReadStep(MetaReadSections(nil), h)
    BY <1>1, <1>3, MetaReadAppend
  <1>6. MetaReadSections(<<h>>) = nil  BY <1>2, <1>3, <1>4, <1>5 DEF MetaReadStep
  <1> QED  BY <1>6 DEF h, nil

(* How a step changes the trace state.                                     *)
LEMMA StateCases ==
    ASSUME Inv, [Next]_vars
    PROVE  \/ UNCHANGED ts \/ RecordStep \/ OpenMeta
           \/ FinishTrace /\ pc' = "done" /\ pc = "decode"
           \/ SeedMaps /\ pc = "seed" /\ ts' = Seed(ts, SetToSeq(maps))
                /\ SetToSeq(maps) \in Seq(Image)
  <1>1. CASE WorldStep \/ UNCHANGED vars  BY <1>1, WorldKeepsCommand DEF vars, command
  <1>2. CASE PollStep \/ ControlStep  BY <1>2, PollKeeps, ControlKeepsRecords
  <1>3. CASE AllocContext \/ StartTracing  BY <1>3 DEF AllocContext, StartTracing
  <1>4. CASE SeedMaps
    <2>1. SetToSeq(maps) \in Seq(Image)  BY SetToSeqProperties DEF Inv, TypeInv, MapTypes
    <2> QED  BY <1>4, <2>1 DEF SeedMaps, ProcessExecMmaps
  <1>5. CASE FinishTrace  BY <1>5 DEF FinishTrace
  <1> QED  BY <1>1, <1>2, <1>3, <1>4, <1>5, NextCases, CommandCases

(* Every section that is added has a path.                                 *)
LEMMA SoundAppend ==
    ASSUME NEW s \in Seq(Recs), Sound(s), NEW r \in Recs, Parses(r), r.type # "exec"
    PROVE  Sound(Append(s, r))
  <1> DEFINE z == Append(s, r)
  <1>1. /\ Len(z) = Len(s) + 1 /\ z[Len(s) + 1] = r /\ Len(s) \in Nat
        /\ \A i \in 1..Len(s) : z[i] = s[i]
    OBVIOUS
  <1> HIDE DEF z
  <1> QED  BY <1>1 DEF Sound, z

LEMMA SoundStep ==
    ASSUME NEW s \in Seq(Recs), Sound(s), NEW r \in Recs
    PROVE  Sound(MetaReadStep(s, r))
  <1>1. CASE ~Parses(r)  BY <1>1 DEF MetaReadStep
  <1>2. CASE Parses(r) /\ r.type = "exec"
    <2>1. MetaReadStep(s, r) = <<r>>  BY <1>2 DEF MetaReadStep
    <2>2. Len(<<r>>) = 1 /\ <<r>>[1] = r  OBVIOUS
    <2> QED  BY <1>2, <2>1, <2>2 DEF Sound
  <1>3. CASE Parses(r) /\ r.type # "exec"  BY <1>3, SoundAppend DEF MetaReadStep
  <1> QED  BY <1>1, <1>2, <1>3

(* Seeds have a path and are no exec.                                      *)
LEMMA SeedsParse ==
    ASSUME NEW images \in Seq(Image)
    PROVE  \A i \in 1..Len(Seeds(images)) :
              Parses(Seeds(images)[i]) /\ Seeds(images)[i].type # "exec"
  <1> TAKE i \in 1..Len(Seeds(images))
  <1>1. Len(Seeds(images)) = Len(images)  BY DEF Seeds
  <1>2. i \in 1..Len(images)  BY <1>1
  <1>3. images[i] \in Image /\ Seeds(images)[i] = ImageRecord("mmap", images[i])
    BY <1>2 DEF Seeds
  <1> QED  BY <1>3, ImagesDiffer DEF ImageRecord, Parses, ImageTypes

LEMMA SectionsInvNext ==
    ASSUME Inv, [Next]_vars
    PROVE  SectionsInv'
  <1> USE DEF SectionsInv
  <1>1. SectionsInv /\ ts \in TraceStates /\ ts.sections \in Seq(Recs)
    BY SectionsType DEF Inv
  <1>2. CASE UNCHANGED ts  BY <1>1, <1>2
  <1>3. CASE RecordStep
    <2>1. Head(Pend) \in Recs /\ ts'.sections = MetaReadStep(ts.sections, Head(Pend))
      BY <1>3, RecordKeeps DEF Processed
    <2> QED  BY <1>1, <2>1, SoundStep
  <1>4. CASE OpenMeta
    <2>1. opt.tid \in Nat  BY SessionTypes DEF Inv, TypeInv, SessionTypesInv
    <2>2. PICK opened \in BOOLEAN : ts' = TraceStateInit(MetaHeader(MetaOpen(opened), opt.tid))
      BY <1>4 DEF OpenMeta
    <2>3. ts'.sections = <<>>  BY <2>1, <2>2, OpenFields
    <2> QED  BY <2>3 DEF Sound
  <1>5. CASE FinishTrace
    <2> DEFINE r == ImageRecord("kernel", KernelImage)
    <2>1. PICK known \in BOOLEAN : ts' = IF opt.kernel THEN EnsureKernel(ts, known) ELSE ts
      BY <1>5 DEF FinishTrace
    <2>2. \/ EnsureKernel(ts, known).sections = ts.sections
          \/ EnsureKernel(ts, known).sections = Append(ts.sections, r)
      BY <1>1, EnsureFields
    <2>3. r \in Recs /\ Parses(r) /\ r.type # "exec"
      BY RecConstructors, ImagesDiffer DEF ImageRecord, Parses, ImageTypes
    <2> HIDE DEF r
    <2>4. Sound(Append(ts.sections, r))  BY <1>1, <2>3, SoundAppend
    <2> QED  BY <1>1, <2>1, <2>2, <2>4
  <1>6. CASE pc = "seed" /\ ts' = Seed(ts, SetToSeq(maps)) /\ SetToSeq(maps) \in Seq(Image)
    <2> DEFINE images == SetToSeq(maps)
               s == Seeds(images)
    <2> HIDE DEF images
    <2>1. images \in Seq(Image) /\ ts' = Seed(ts, images)  BY <1>6 DEF images
    <2>2. ts'.sections = ts.sections \o s /\ s \in Seq(Recs)  BY <1>1, <2>1, SeedFields
    <2>3. ts.sections = <<>>  BY <1>6 DEF Inv, SetupInv
    <2>4. ts'.sections = s  BY <2>2, <2>3, ConcatEmptySeq
    <2> QED  BY <2>1, <2>4, SeedsParse DEF Sound
  <1> QED  BY <1>2, <1>3, <1>4, <1>5, <1>6, StateCases

LEMMA SidecarInvNext ==
    ASSUME Inv, [Next]_vars
    PROVE  SidecarInv'
  <1>1. /\ SidecarInv /\ ts \in TraceStates /\ ts.sections \in Seq(Recs)
        /\ ts.meta \in [open : BOOLEAN, lines : Seq(Lines)]
    BY SectionsType DEF Inv, TraceStates
  <1>2. SUFFICES ASSUME ts'.meta.open, pc' # "done"
                 PROVE  MetaReadSections(ts'.meta.lines) = ts'.sections
    BY DEF SidecarInv
  <1>3. pc # "done"
    <2>1. CASE WorldStep \/ UNCHANGED vars
      <3>1. pc' = pc  BY <2>1, WorldKeepsCommand DEF vars, command
      <3> QED  BY <1>2, <3>1
    <2>2. CASE CommandStep \/ Interrupt
      BY <2>2 DEF CommandStep, Refuse, Fork, Attach, AllocContext, SetConfig, StartTracing,
         OpenMeta, SeedMaps, Abort, AbortReap, ExecLimit, ExecCheck, TraceLimit, TraceCheck,
         Poll, PollFails, ProcessRecord, EndOfDrain, Reap, FinalPoll, FinalRecord, StopTracing,
         PostStopPoll, PostStopRecord, FinishTrace, Interrupt
    <2> QED  BY <2>1, <2>2, NextCases
  <1>4. ts.meta.open => MetaReadSections(ts.meta.lines) = ts.sections
    BY <1>1, <1>3 DEF SidecarInv
  <1>5. CASE UNCHANGED ts  BY <1>2, <1>4, <1>5
  <1>6. CASE RecordStep
    <2> DEFINE r == Head(Pend)
    <2>1. /\ r \in Recs /\ ts'.sections = MetaReadStep(ts.sections, r)
          /\ ts'.meta = MetaRecord(ts.meta, r)
      BY <1>6, RecordKeeps DEF Processed
    <2> HIDE DEF r
    <2>2. r \in Lines  BY <2>1 DEF Lines
    <2>3. CASE ~(ts.meta.open /\ r.type \in ImageTypes \cup {"thread_create", "thread_set_name"})
      <3>1. ts'.meta = ts.meta  BY <2>1, <2>3 DEF MetaRecord
      <3>2. ts.meta.open  BY <1>2, <3>1
      <3>3. ~Parses(r)  BY <2>3, <3>2 DEF Parses
      <3>4. ts'.sections = ts.sections  BY <2>1, <3>3 DEF MetaReadStep
      <3> QED  BY <1>4, <3>1, <3>2, <3>4
    <2>4. CASE ts.meta.open /\ r.type \in ImageTypes \cup {"thread_create", "thread_set_name"}
      <3>1. ts'.meta.lines = Append(ts.meta.lines, r)
        BY <1>1, <2>1, <2>4 DEF MetaRecord
      <3>2. ts.meta.lines \in Seq(Lines)  BY <1>1
      <3>3. MetaReadSections(Append(ts.meta.lines, r))
              = MetaReadStep(MetaReadSections(ts.meta.lines), r)
        BY <2>2, <3>2, MetaReadAppend
      <3> QED  BY <1>4, <2>1, <2>4, <3>1, <3>3
    <2> QED  BY <2>3, <2>4
  <1>7. CASE OpenMeta
    <2> DEFINE h == [type |-> "header", tid |-> opt.tid]
    <2>1. opt.tid \in Nat  BY SessionTypes DEF Inv, TypeInv, SessionTypesInv
    <2>2. PICK opened \in BOOLEAN : ts' = TraceStateInit(MetaHeader(MetaOpen(opened), opt.tid))
      BY <1>7 DEF OpenMeta
    <2>3. ts'.sections = <<>> /\ ts'.meta.lines = <<h>>
      BY <1>2, <2>1, <2>2, OpenFields
    <2>4. MetaReadSections(<<h>>) = <<>>  BY <2>1, MetaReadHeader
    <2> QED  BY <2>3, <2>4
  <1>8. CASE ts' = Seed(ts, SetToSeq(maps)) /\ SetToSeq(maps) \in Seq(Image)
    <2> DEFINE images == SetToSeq(maps)
               s == Seeds(images)
    <2> HIDE DEF images
    <2>1. images \in Seq(Image) /\ ts' = Seed(ts, images)  BY <1>8 DEF images
    <2>2. /\ ts'.sections = ts.sections \o s /\ s \in Seq(Recs)
          /\ ts'.meta = MetaSections(ts.meta, s)
      BY <1>1, <2>1, SeedFields
    <2>3. \A i \in 1..Len(s) : Parses(s[i]) /\ s[i].type # "exec"  BY <2>1, SeedsParse
    <2> HIDE DEF s
    <2>4. ts.meta.open /\ ts'.meta.lines = ts.meta.lines \o s
      BY <1>1, <1>2, <2>2 DEF MetaSections
    <2>5. s \in Seq(Lines) /\ ts.meta.lines \in Seq(Lines)  BY <1>1, <2>2 DEF Lines
    <2>6. ReadsBack(ts.meta.lines, s)  BY <2>3 DEF ReadsBack
    <2>7. MetaReadSections(ts.meta.lines \o s) = MetaReadSections(ts.meta.lines) \o s
      BY <2>5, <2>6, MetaReadConcat
    <2> QED  BY <1>4, <2>2, <2>4, <2>7
  <1> QED  BY <1>2, <1>5, <1>6, <1>7, <1>8, StateCases

(* The sidecar of a thread, written from sections that all have a path.    *)
LEMMA ThreadMetaReplays ==
    ASSUME NEW t \in TraceStates, Sound(t.sections), NEW tid \in Nat
    PROVE  LET lines == ThreadMeta(t, tid, TRUE).lines
           IN  MetaReadTid(lines) = tid /\ MetaReadSections(lines) = t.sections
  <1> DEFINE h == [type |-> "header", tid |-> tid]
             s == t.sections
             lines == <<h>> \o s
  <1>1. h \in Lines /\ s \in Seq(Recs)  BY DEF Lines, TraceStates
  <1>2. <<h>> \in Seq(Lines) /\ s \in Seq(Lines)  BY <1>1 DEF Lines
  <1>3. ThreadMeta(t, tid, TRUE).lines = lines
    <2> DEFINE m == MetaHeader(MetaOpen(TRUE), tid)
    <2>1. /\ m \in [open : BOOLEAN, lines : Seq(Lines)] /\ m.open /\ m.lines = <<h>>
      BY HeaderFields
    <2> HIDE DEF m, h, s
    <2>2. ThreadMeta(t, tid, TRUE) = [m EXCEPT !.lines = m.lines \o s]
      BY <2>1 DEF ThreadMeta, MetaSections, m, s
    <2>3. ThreadMeta(t, tid, TRUE).lines = m.lines \o s  BY <2>1, <2>2
    <2> QED  BY <2>1, <2>3
  <1>4. MetaReadSections(<<h>>) = <<>>  BY MetaReadHeader
  <1>5. h.type = "header" /\ h.tid = tid  OBVIOUS
  <1> HIDE DEF h, s
  <1>6. lines # <<>> /\ lines[1] = h  BY <1>2
  <1>7. MetaReadTid(lines) = tid  BY <1>5, <1>6 DEF MetaReadTid
  <1>8. ReadsBack(<<h>>, s)  BY <1>4 DEF ReadsBack, Sound, s
  <1>9. MetaReadSections(lines) = MetaReadSections(<<h>>) \o s
    BY <1>2, <1>8, MetaReadConcat
  <1>10. MetaReadSections(lines) = s  BY <1>1, <1>4, <1>9, ConcatEmptySeq
  <1> QED  BY <1>3, <1>7, <1>10 DEF s

LEMMA ThreadSidecarsNext ==
    ASSUME Inv, [Next]_vars
    PROVE  ThreadSidecarsReplay'
  <1>1. ThreadSidecarsReplay  BY DEF Inv
  <1>2. CASE UNCHANGED <<ts, sidecars>>  BY <1>1, <1>2 DEF ThreadSidecarsReplay
  <1>3. CASE sidecars' = {}  BY <1>3 DEF ThreadSidecarsReplay
  <1>4. CASE WorldStep \/ UNCHANGED vars
    BY <1>2, <1>4, WorldKeepsCommand DEF vars, command
  <1>5. CASE PollStep \/ ControlStep  BY <1>2, <1>5, PollKeeps, ControlKeepsRecords
  <1>6. CASE RecordStep
    <2>1. sidecars' = sidecars /\ pc # "done"  BY <1>6, RecordKeeps DEF Processing
    <2> QED  BY <1>3, <2>1 DEF Inv, SetupInv
  <1>7. CASE AllocContext \/ StartTracing \/ OpenMeta \/ SeedMaps
    <2>1. sidecars' = sidecars /\ pc # "done"
      BY <1>7 DEF AllocContext, StartTracing, OpenMeta, SeedMaps
    <2> QED  BY <1>3, <2>1 DEF Inv, SetupInv
  <1>8. CASE FinishTrace
    <2>1. PICK saved \in SUBSET {devices[i] : i \in 2..Len(devices)} :
             sidecars' = {[tid |-> t, lines |-> ThreadMeta(ts', t, TRUE).lines] : t \in saved}
      BY <1>8 DEF FinishTrace
    <2>2. saved \subseteq Nat
      <3>1. devices \in Seq(Nat)  BY DEF Inv, TypeInv, DeviceTypes
      <3>2. \A i \in 2..Len(devices) : devices[i] \in Nat  BY <3>1
      <3> QED  BY <2>1, <3>2
    <2>3. ts' \in TraceStates /\ Sound(ts'.sections)
      BY StateTypesNext, SectionsInvNext DEF StateTypes, SectionsInv
    <2>4. ASSUME NEW sidecar \in sidecars'
          PROVE  /\ MetaReadTid(sidecar.lines) = sidecar.tid
                 /\ MetaReadSections(sidecar.lines) = ts'.sections
      <3>1. PICK t \in saved : sidecar = [tid |-> t, lines |-> ThreadMeta(ts', t, TRUE).lines]
        BY <2>1
      <3>2. t \in Nat  BY <2>2
      <3>3. sidecar.tid = t /\ sidecar.lines = ThreadMeta(ts', t, TRUE).lines  BY <3>1
      <3> QED  BY <2>3, <3>2, <3>3, ThreadMetaReplays
    <2> QED  BY <2>4 DEF ThreadSidecarsReplay
  <1> QED
    BY <1>4, <1>5, <1>6, <1>7, <1>8, NextCases, CommandCases

-----------------------------------------------------------------------------
(* The extent of a single thread's buffer.                                 *)

(* Any record but a BUFFER one is queued.                                  *)
LEMMA ExtentAppend ==
    ASSUME NEW p \in Seq(Recs), NEW r \in Recs, ~IsBuffer(r), NEW x, NEW w
    PROVE  /\ \A high : Growing(p, high, w) => Growing(Append(p, r), high, w)
           /\ \A last : Ending(p, last, x) => Ending(Append(p, r), last, x)
  <1> DEFINE q == Append(p, r)
  <1>1. /\ Len(q) = Len(p) + 1 /\ q[Len(p) + 1] = r /\ Len(p) \in Nat
        /\ \A i \in 1..Len(p) : q[i] = p[i]
    OBVIOUS
  <1> HIDE DEF q
  <1>2. \A i \in 1..Len(q) : IsBuffer(q[i]) => i \in 1..Len(p) /\ q[i] = p[i]  BY <1>1
  <1>3. \A i \in 1..Len(p) : i \in 1..Len(q)  BY <1>1
  <1>4. ASSUME NEW high, Growing(p, high, w) PROVE Growing(q, high, w)
    BY <1>2, <1>4 DEF Growing
  <1>5. ASSUME NEW last, Ending(p, last, x) PROVE Ending(q, last, x)
    <2>1. ASSUME NEW i \in 1..Len(q), LastBuffer(q, i) PROVE q[i].page \in x
      <3>1. i \in 1..Len(p) /\ q[i] = p[i]  BY <1>2, <2>1 DEF LastBuffer
      <3>2. LastBuffer(p, i)  BY <1>1, <1>3, <2>1, <3>1 DEF LastBuffer
      <3> QED  BY <1>5, <3>1, <3>2 DEF Ending
    <2>2. (\A i \in 1..Len(q) : ~IsBuffer(q[i])) => \A i \in 1..Len(p) : ~IsBuffer(p[i])
      BY <1>1, <1>3
    <2> QED  BY <1>5, <2>1, <2>2 DEF Ending
  <1> QED  BY <1>4, <1>5 DEF q

(* The BUFFER record of the end is queued.                                 *)
LEMMA ExtentQueued ==
    ASSUME NEW p \in Seq(Recs), NEW r \in Recs, IsBuffer(r)
    PROVE  /\ \A high \in Int, w \in Nat :
                 Growing(p, high, w) /\ high <= w /\ r.page = w => Growing(Append(p, r), high, w)
           /\ \A last, x : r.page \in x => Ending(Append(p, r), last, x)
  <1> DEFINE q == Append(p, r)
  <1>1. /\ Len(q) = Len(p) + 1 /\ q[Len(p) + 1] = r /\ Len(p) \in Nat
        /\ \A i \in 1..Len(p) : q[i] = p[i]
    OBVIOUS
  <1> HIDE DEF q
  <1>2. ASSUME NEW high \in Int, NEW w \in Nat, Growing(p, high, w), high <= w, r.page = w
        PROVE  Growing(q, high, w)
    <2>1. ASSUME NEW i \in 1..Len(q), IsBuffer(q[i]) PROVE high <= q[i].page /\ q[i].page <= w
      BY <1>1, <1>2, <2>1 DEF Growing
    <2>2. ASSUME NEW i \in 1..Len(q), NEW j \in 1..Len(q), IsBuffer(q[i]), IsBuffer(q[j]), i < j
          PROVE  q[i].page <= q[j].page
      <3>1. i \in 1..Len(p) /\ q[i] = p[i]  BY <1>1, <2>2
      <3>2. CASE j = Len(p) + 1  BY <1>1, <1>2, <2>1, <2>2, <3>2
      <3>3. CASE j # Len(p) + 1
        <4>1. j \in 1..Len(p) /\ q[j] = p[j]  BY <1>1, <3>3
        <4> QED  BY <1>2, <2>2, <3>1, <4>1 DEF Growing
      <3> QED  BY <3>2, <3>3
    <2> QED  BY <2>1, <2>2 DEF Growing
  <1>3. ASSUME NEW last, NEW x, r.page \in x PROVE Ending(q, last, x)
    <2>1. Len(p) + 1 \in 1..Len(q) /\ IsBuffer(q[Len(p) + 1])  BY <1>1
    <2>2. ASSUME NEW i \in 1..Len(q), LastBuffer(q, i) PROVE i = Len(p) + 1
      BY <1>1, <2>1, <2>2 DEF LastBuffer
    <2> QED  BY <1>1, <1>3, <2>1, <2>2 DEF Ending
  <1> QED  BY <1>2, <1>3 DEF q

(* The first record is processed.                                          *)
LEMMA ExtentProcess ==
    ASSUME NEW p \in Seq(Recs), p # <<>>, NEW last, NEW high \in Int, NEW w \in Nat, NEW x
    PROVE  LET r == Head(p)
           IN  /\ Growing(p, high, w) =>
                    Growing(Tail(p), IF IsBuffer(r) /\ r.page > high THEN r.page ELSE high, w)
               /\ Growing(p, high, w) /\ IsBuffer(r) => high <= r.page /\ r.page <= w
               /\ Ending(p, last, x) => Ending(Tail(p), IF IsBuffer(r) THEN r.page ELSE last, x)
  <1> DEFINE q == Tail(p)
             r == Head(p)
             hi == IF IsBuffer(r) /\ r.page > high THEN r.page ELSE high
             la == IF IsBuffer(r) THEN r.page ELSE last
  <1>1. /\ r \in Recs /\ r = p[1] /\ 1 \in 1..Len(p) /\ Len(p) \in Nat
        /\ Len(q) = Len(p) - 1 /\ \A i \in 1..Len(q) : q[i] = p[i + 1]
        /\ \A i \in 2..Len(p) : i - 1 \in 1..Len(q) /\ q[i - 1] = p[i]
    BY TailFields
  <1>2. \A i \in 1..Len(q) : i + 1 \in 1..Len(p) /\ 1 < i + 1  BY <1>1
  <1>3. \A i \in 1..Len(p) : i = 1 \/ i \in 2..Len(p)  BY <1>1
  <1> HIDE DEF q, r
  <1>4. ASSUME Growing(p, high, w) PROVE Growing(q, hi, w)
    <2>1. ASSUME NEW i \in 1..Len(q), IsBuffer(q[i]) PROVE hi <= q[i].page /\ q[i].page <= w
      BY <1>1, <1>2, <1>4, <2>1 DEF Growing
    <2>2. ASSUME NEW i \in 1..Len(q), NEW j \in 1..Len(q), IsBuffer(q[i]), IsBuffer(q[j]), i < j
          PROVE  q[i].page <= q[j].page
      <3>1. i + 1 < j + 1  BY <2>2
      <3> QED  BY <1>1, <1>2, <1>4, <2>2, <3>1 DEF Growing
    <2> QED  BY <2>1, <2>2 DEF Growing
  <1>5. Growing(p, high, w) /\ IsBuffer(r) => high <= r.page /\ r.page <= w
    BY <1>1 DEF Growing
  <1>6. ASSUME Ending(p, last, x) PROVE Ending(q, la, x)
    <2>1. ASSUME NEW i \in 1..Len(q), LastBuffer(q, i) PROVE q[i].page \in x
      <3>1. LastBuffer(p, i + 1)
        <4>1. IsBuffer(p[i + 1])  BY <1>1, <2>1 DEF LastBuffer
        <4>2. ASSUME NEW j \in 1..Len(p), j > i + 1 PROVE ~IsBuffer(p[j])
          <5>1. j \in 2..Len(p) /\ j - 1 > i  BY <1>1, <4>2
          <5> QED  BY <1>1, <2>1, <5>1 DEF LastBuffer
        <4> QED  BY <4>1, <4>2 DEF LastBuffer
      <3> QED  BY <1>1, <1>2, <1>6, <3>1 DEF Ending
    <2>2. ASSUME \A i \in 1..Len(q) : ~IsBuffer(q[i]) PROVE la \in x
      <3>1. \A i \in 2..Len(p) : ~IsBuffer(p[i])  BY <1>1, <2>2
      <3>2. CASE IsBuffer(r)
        <4>1. LastBuffer(p, 1)
          <5>1. \A j \in 1..Len(p) : j > 1 => j \in 2..Len(p)  BY <1>1
          <5> QED  BY <1>1, <3>1, <3>2, <5>1 DEF LastBuffer
        <4> QED  BY <1>1, <1>6, <3>2, <4>1 DEF Ending
      <3>3. CASE ~IsBuffer(r)
        <4>1. \A i \in 1..Len(p) : ~IsBuffer(p[i])  BY <1>1, <1>3, <3>1, <3>3
        <4> QED  BY <1>6, <3>3, <4>1 DEF Ending
      <3> QED  BY <3>2, <3>3
    <2> QED  BY <2>1, <2>2 DEF Ending
  <1> QED  BY <1>4, <1>5, <1>6 DEF q, r

(* A step that at most queues a record that is not a BUFFER one.           *)
LEMMA BufferInvQuiet ==
    ASSUME Inv, NEW r \in Recs, ~IsBuffer(r),
           UNCHANGED <<threads, written, reached>>, swi' \subseteq swi, Unchanged(ts', ts, {"extent"}),
           Pend' = Pend \/ Pend' = Append(Pend, r)
    PROVE  BufferInv'
  <1>1. BufferInv /\ Pend \in Seq(Recs)  BY PendType DEF Inv
  <1>2. UNCHANGED <<ts.lastPage, ts.maxPage, ts.wrapped>>  BY DEF Unchanged
  <1>3. Growing(Pend, ts.maxPage, written[0]) => Growing(Pend', ts.maxPage, written[0])
    BY <1>1, ExtentAppend
  <1>4. Ending(Pend, ts.lastPage, Ends) => Ending(Pend', ts.lastPage, Ends)
    BY <1>1, ExtentAppend
  <1>5. Ends' = Ends  BY DEF Ends
  <1> QED  BY <1>1, <1>2, <1>3, <1>4, <1>5 DEF BufferInv

LEMMA BufferInvWorld ==
    ASSUME Inv, WorldStep
    PROVE  BufferInv'
  <1>1. /\ Pend \in Seq(Recs) /\ BufferInv /\ image \in Nat /\ mapped \in Nat /\ threads \in Nat
        /\ ts \in TraceStates /\ ts.maxPage \in Int /\ 0 \in Tids /\ Tids \subseteq Nat
        /\ written \in [Tids -> 0..load.written] /\ load.written \in Nat
        /\ swi \subseteq Tids /\ reached \in Nat
    BY PendType, SectionsType, SessionTypes
    DEF Inv, TypeInv, CountTypes, TraceStates, WriteTypes, SessionTypesInv
  <1>2. batch' = batch /\ ts' = ts  BY WorldKeepsCommand DEF command
  <1>3. Unchanged(ts', ts, {"extent"})  BY <1>2 DEF Unchanged
  <1>4. written[0] \in Nat  BY <1>1
  <1>5. CASE TargetExecs
    <2> DEFINE r == ImageRecord("exec", <<image + 1, mapped>>)
    <2>1. /\ UNCHANGED <<threads, swi, written, reached>>
          /\ queue' = queue \/ queue' = Append(queue, r)
      BY <1>5 DEF TargetExecs, MapsImage, Record
    <2>2. <<image + 1, mapped>> \in Image  BY <1>1 DEF Image
    <2>3. r \in Recs /\ ~IsBuffer(r)  BY <2>2, RecConstructors DEF ImageRecord, IsBuffer
    <2> HIDE DEF r
    <2>4. Pend' = Pend \/ Pend' = Append(Pend, r)
      BY <1>2, <2>1, <2>3, PendAppends DEF Pend
    <2> QED  BY <1>3, <2>1, <2>3, <2>4, BufferInvQuiet
  <1>6. CASE TargetMaps
    <2> DEFINE r == ImageRecord("mmap", <<image, mapped>>)
    <2>1. /\ UNCHANGED <<threads, swi, written, reached>>
          /\ queue' = queue \/ queue' = Append(queue, r)
      BY <1>6 DEF TargetMaps, MapsImage, Record
    <2>2. <<image, mapped>> \in Image  BY <1>1 DEF Image
    <2>3. r \in Recs /\ ~IsBuffer(r)  BY <2>2, RecConstructors DEF ImageRecord, IsBuffer
    <2> HIDE DEF r
    <2>4. Pend' = Pend \/ Pend' = Append(Pend, r)
      BY <1>2, <2>1, <2>3, PendAppends DEF Pend
    <2> QED  BY <1>3, <2>1, <2>3, <2>4, BufferInvQuiet
  <1>7. CASE TargetMapsUnnamed
    <2> DEFINE r == ImageRecord("mmap", NoImage)
    <2>1. /\ UNCHANGED <<threads, swi, written, reached>>
          /\ queue' = queue \/ queue' = Append(queue, r)
      BY <1>7 DEF TargetMapsUnnamed, MapsImage, Record
    <2>2. r \in Recs /\ ~IsBuffer(r)  BY RecConstructors DEF ImageRecord, IsBuffer
    <2> HIDE DEF r
    <2>3. Pend' = Pend \/ Pend' = Append(Pend, r)
      BY <1>2, <2>1, <2>2, PendAppends DEF Pend
    <2> QED  BY <1>3, <2>1, <2>2, <2>3, BufferInvQuiet
  <1>12. CASE TargetExecsUnnamed
    <2> DEFINE r == ImageRecord("exec", NoImage)
    <2>1. /\ UNCHANGED <<threads, swi, written, reached>>
          /\ queue' = queue \/ queue' = Append(queue, r)
      BY <1>12 DEF TargetExecsUnnamed, MapsImage, Record
    <2>2. r \in Recs /\ ~IsBuffer(r)  BY RecConstructors DEF ImageRecord, IsBuffer
    <2> HIDE DEF r
    <2>3. Pend' = Pend \/ Pend' = Append(Pend, r)
      BY <1>2, <2>1, <2>2, PendAppends DEF Pend
    <2> QED  BY <1>3, <2>1, <2>2, <2>3, BufferInvQuiet
  <1>8. CASE TargetUnmaps \/ TargetEnds \/ \E t \in Tids : LoseBuffer(t)
    <2>1. /\ UNCHANGED <<threads, written, reached>> /\ swi' \subseteq swi
          /\ queue' = queue \/ queue' = Append(queue, UnmapRecord)
      BY <1>8 DEF TargetUnmaps, TargetEnds, LoseBuffer, Record, process, kernel
    <2>2. UnmapRecord \in Recs /\ ~IsBuffer(UnmapRecord)
      BY RecConstructors DEF UnmapRecord, IsBuffer
    <2>3. Pend' = Pend \/ Pend' = Append(Pend, UnmapRecord)
      BY <1>2, <2>1, <2>2, PendAppends DEF Pend
    <2> QED  BY <1>3, <2>1, <2>2, <2>3, BufferInvQuiet
  <1>9. CASE TargetCreatesThread
    <2>1. threads' = threads + 1 /\ UNCHANGED <<swi, written, reached>>  BY <1>9 DEF TargetCreatesThread
    <2>2. threads' > 1  BY <1>1, <2>1 DEF BufferInv
    <2>3. \A t \in swi : t < threads'  BY <1>1, <2>1 DEF BufferInv
    <2> QED  BY <1>1, <2>1, <2>2, <2>3 DEF BufferInv
  <1>10. CASE \E t \in Tids : TargetFillsPage(t)
    <2>1. PICK t \in Tids : TargetFillsPage(t)  BY <1>10
    <2>2. /\ t < threads /\ threads' = threads /\ swi' = swi \cup {t} /\ Pend' = Pend
          /\ written' = [written EXCEPT ![t] = @ + 1] /\ reached' = reached
      BY <1>2, <2>1 DEF TargetFillsPage, process, Pend
    <2>3. \A u \in swi' : u < threads'  BY <1>1, <2>1, <2>2 DEF BufferInv
    <2>4. threads = 1 => t = 0  BY <1>1, <2>1, <2>2
    <2>5. t = 0 => written'[0] = written[0] + 1  BY <1>1, <2>2
    <2>6. ASSUME threads' = 1, written'[0] < Pages
          PROVE  ~ts.wrapped /\ ts.maxPage <= written'[0] /\ Growing(Pend, ts.maxPage, written'[0])
      <3>1. written[0] < Pages /\ written'[0] = written[0] + 1
        BY <1>4, <2>2, <2>4, <2>5, <2>6, SessionAssumption
      <3>2. ~ts.wrapped /\ ts.maxPage <= written[0] /\ Growing(Pend, ts.maxPage, written[0])
        BY <1>1, <2>2, <2>6, <3>1 DEF BufferInv
      <3>3. \A i \in 1..Len(Pend) : IsBuffer(Pend[i]) => Pend[i].page \in Nat
        BY <1>1, RecFields DEF IsBuffer
      <3>4. Growing(Pend, ts.maxPage, written'[0])
        BY <1>4, <3>1, <3>2, <3>3 DEF Growing
      <3> QED  BY <1>1, <1>4, <3>1, <3>2, <3>4
    <2>7. written'[0] \in Nat /\ written[0] <= written'[0]  BY <1>1, <1>4, <2>1, <2>2
    <2>8. threads' >= 1 /\ reached' <= written'[0]
      BY <1>1, <1>4, <2>2, <2>7 DEF BufferInv
    <2>9. Ends \subseteq Ends'
      <3>1. \A n \in reached..written[0] : n \in reached..written'[0]  BY <1>1, <1>4, <2>7
      <3> QED  BY <2>2, <3>1 DEF Ends
    <2>10. Ending(Pend, ts.lastPage, Ends) => Ending(Pend, ts.lastPage, Ends')
      BY <2>9 DEF Ending
    <2> QED  BY <1>1, <1>2, <2>2, <2>3, <2>6, <2>8, <2>10 DEF BufferInv
  <1>11. CASE \E t \in Tids, lost \in BOOLEAN : QueueBuffer(t, lost)
    <2>1. PICK t \in Tids, lost \in BOOLEAN : QueueBuffer(t, lost)  BY <1>11
    <2>2. t \in swi /\ swi' = swi \ {t} /\ UNCHANGED <<threads, written>>
      BY <2>1 DEF QueueBuffer, process
    <2> DEFINE b == BufferRecord(t, written[t] % Pages)
               o == OverflowRecord(t)
               q == Append(Pend, b)
    <2>3. written[t] % Pages \in Nat /\ t \in Nat  BY <1>1, BufferSuffix
    <2>4. /\ b \in Recs /\ IsBuffer(b) /\ b.page = written[t] % Pages
          /\ o \in Recs /\ ~IsBuffer(o)
      BY <2>3, RecConstructors DEF BufferRecord, OverflowRecord, IsBuffer
    <2>5. Pend' = q \/ Pend' = Append(q, o)  BY <2>1, QueuesBuffer
    <2> HIDE DEF b, o
    <2>6. q \in Seq(Recs)  BY <1>1, <2>4
    <2>7. threads = 1 => t = 0  BY <1>1, <2>2, <2>3 DEF BufferInv
    <2>8. \A u \in swi' : u < threads'  BY <1>1, <2>2 DEF BufferInv
    <2>9. ASSUME threads = 1, written[0] < Pages
          PROVE  ~ts.wrapped /\ ts.maxPage <= written[0] /\ Growing(Pend', ts.maxPage, written[0])
      <3>1. ~ts.wrapped /\ ts.maxPage <= written[0] /\ Growing(Pend, ts.maxPage, written[0])
        BY <1>1, <2>9 DEF BufferInv
      <3>2. b.page = written[0]
        <4>1. Pages \in Nat \ {0}  BY SessionAssumption
        <4>2. written[0] % Pages = written[0]  BY <1>4, <2>9, <4>1
        <4> QED  BY <2>4, <2>7, <2>9, <4>2
      <3>3. Growing(q, ts.maxPage, written[0])
        BY <1>1, <1>4, <2>4, <3>1, <3>2, ExtentQueued
      <3> HIDE DEF q
      <3>4. Growing(Append(q, o), ts.maxPage, written[0])
        BY <2>4, <2>6, <3>3, ExtentAppend
      <3> QED  BY <2>5, <3>1, <3>3, <3>4
    <2>10. reached' \in Nat /\ reached' <= written[0]
      BY <1>1, <1>4, <2>1 DEF QueueBuffer, BufferInv
    <2>11. ASSUME threads = 1 PROVE Ending(Pend', ts.lastPage, Ends')
      <3>1. b.page \in Ends'
        <4>1. written[0] \in reached'..written[0]  BY <1>4, <2>10
        <4> QED  BY <2>2, <2>4, <2>7, <2>11, <4>1 DEF Ends
      <3>2. Ending(q, ts.lastPage, Ends')  BY <1>1, <2>4, <3>1, ExtentQueued
      <3> HIDE DEF q
      <3>3. Ending(Append(q, o), ts.lastPage, Ends')
        BY <2>4, <2>6, <3>2, ExtentAppend
      <3> QED  BY <2>5, <3>2, <3>3
    <2>12. threads >= 1  BY <1>1 DEF BufferInv
    <2> QED  BY <1>2, <2>2, <2>8, <2>9, <2>10, <2>11, <2>12 DEF BufferInv
  <1> QED
    BY <1>5, <1>6, <1>7, <1>8, <1>9, <1>10, <1>11, <1>12 DEF WorldStep, TargetStep, KernelStep

LEMMA BufferInvCommand ==
    ASSUME Inv, CommandStep \/ Interrupt
    PROVE  BufferInv'
  <1>1. /\ Pend \in Seq(Recs) /\ BufferInv /\ 0 \in Tids
        /\ ts \in TraceStates /\ ts.maxPage \in Int /\ ts.lastPage \in Int
        /\ written \in [Tids -> 0..load.written] /\ load.written \in Nat
    BY PendType, SectionsType, SessionTypes
    DEF Inv, TypeInv, CountTypes, TraceStates, WriteTypes, SessionTypesInv
  <1>2. UNCHANGED <<threads, swi, written, reached>> /\ Ends' = Ends
    BY CommandKeepsWorld DEF Ends
  <1>3. written[0] \in Nat  BY <1>1
  <1>4. UnmapRecord \in Recs /\ ~IsBuffer(UnmapRecord)
    BY RecConstructors DEF UnmapRecord, IsBuffer
  <1>5. CASE Pend' = Pend /\ Unchanged(ts', ts, {"extent"})
    BY <1>2, <1>4, <1>5, BufferInvQuiet
  <1>6. CASE PollStep \/ ControlStep
    <2>1. Pend' = Pend /\ ts' = ts  BY <1>6, PollKeeps, ControlKeepsRecords DEF Pend
    <2> QED  BY <1>5, <2>1 DEF Unchanged
  <1>7. CASE RecordStep
    <2> DEFINE r == Head(Pend)
    <2>1. Pend # <<>> /\ Pend' = Tail(Pend) /\ r \in Recs /\ Processed(ts', ts, r)
      BY <1>7, RecordKeeps
    <2>2. /\ ts'.lastPage = IF IsBuffer(r) THEN r.page ELSE ts.lastPage
          /\ ts'.maxPage = IF IsBuffer(r) /\ r.page > ts.maxPage THEN r.page ELSE ts.maxPage
          /\ ts'.wrapped <=> ts.wrapped \/ (IsBuffer(r) /\ ts.maxPage >= 0 /\ r.page < ts.maxPage)
      BY <2>1 DEF Processed, IsBuffer
    <2>3. IsBuffer(r) => r.page \in Nat  BY <2>1, RecFields DEF IsBuffer
    <2>4. /\ Growing(Pend, ts.maxPage, written[0]) => Growing(Pend', ts'.maxPage, written[0])
          /\ Growing(Pend, ts.maxPage, written[0]) /\ IsBuffer(r)
               => ts.maxPage <= r.page /\ r.page <= written[0]
      BY <1>1, <1>3, <2>1, <2>2, ExtentProcess
    <2>5. Ending(Pend, ts.lastPage, Ends) => Ending(Pend', ts'.lastPage, Ends)
      BY <1>1, <1>3, <2>1, <2>2, ExtentProcess
    <2> HIDE DEF r
    <2>6. ASSUME threads = 1, written[0] < Pages
          PROVE  ~ts'.wrapped /\ ts'.maxPage <= written[0] /\ Growing(Pend', ts'.maxPage, written[0])
      <3>1. ~ts.wrapped /\ ts.maxPage <= written[0] /\ Growing(Pend, ts.maxPage, written[0])
        BY <1>1, <2>6 DEF BufferInv
      <3>2. IsBuffer(r) => ts.maxPage <= r.page /\ r.page <= written[0]  BY <2>4, <3>1
      <3>3. ~(IsBuffer(r) /\ r.page < ts.maxPage)  BY <1>1, <2>3, <3>2
      <3>4. ~ts'.wrapped  BY <2>2, <3>1, <3>3
      <3>5. ts'.maxPage <= written[0]  BY <2>2, <3>1, <3>2
      <3> QED  BY <2>4, <3>1, <3>4, <3>5
    <2> QED  BY <1>1, <1>2, <2>5, <2>6 DEF BufferInv
  <1>8. CASE AllocContext
    <2>1. UNCHANGED <<ts, batch>>  BY <1>8 DEF AllocContext
    <2>2. CASE queue' = queue  BY <1>5, <2>1, <2>2 DEF Pend, Unchanged
    <2>3. CASE queue' # queue
      <3>1. pc = "alloc" /\ context' = "allocated"  BY <1>8, <2>3 DEF AllocContext
      <3>2. [Next]_vars  BY <1>8 DEF Next, CommandStep
      <3>3. Pend' \in Seq(Recs)  BY <3>2, RecordTypesNext DEF RecordTypes, Pend
      <3>4. \A i \in 1..Len(Pend') : Pend'[i].type = "thread_create"
        BY <3>1, <3>2, UntracedInvNext DEF UntracedInv, Untraced
      <3>5. \A i \in 1..Len(Pend') : ~IsBuffer(Pend'[i])  BY <3>3, <3>4, ThreadsOnly
      <3>6. context = "none"  BY <3>1 DEF Inv, ContextInv
      <3>7. reached = 0 /\ \A t \in Tids : written[t] = 0
        BY <3>6 DEF Inv, UntracedInv, Untraced
      <3>8. written[0] = 0  BY <1>1, <3>7
      <3>9. Growing(Pend', ts.maxPage, written[0])  BY <3>5 DEF Growing
      <3>10. ~ts.wrapped /\ ts.maxPage = -1  BY <3>1 DEF Inv, SetupInv, Setup
      <3> QED  BY <1>1, <1>2, <2>1, <3>7, <3>8, <3>9, <3>10 DEF BufferInv
    <2> QED  BY <2>2, <2>3
  <1>9. CASE StartTracing
    <2> DEFINE r == ImageRecord("kernel", KernelImage)
    <2>1. UNCHANGED <<ts, batch>> /\ (queue' = queue \/ queue' = Append(queue, r))
      BY <1>9 DEF StartTracing
    <2>2. r \in Recs /\ ~IsBuffer(r)  BY RecConstructors DEF ImageRecord, IsBuffer
    <2> HIDE DEF r
    <2>3. Pend' = Pend \/ Pend' = Append(Pend, r)  BY <2>1, <2>2, PendAppends DEF Pend
    <2>4. Unchanged(ts', ts, {"extent"})  BY <2>1 DEF Unchanged
    <2> QED  BY <1>2, <2>2, <2>3, <2>4, BufferInvQuiet
  <1>10. CASE OpenMeta
    <2>1. PICK opened \in BOOLEAN : ts' = TraceStateInit(MetaHeader(MetaOpen(opened), opt.tid))
      BY <1>10 DEF OpenMeta
    <2>2. opt.tid \in Nat  BY SessionTypes DEF Inv, TypeInv, SessionTypesInv
    <2>3. ts' \in TraceStates /\ ts'.lastPage = -1 /\ ts'.maxPage = -1 /\ ~ts'.wrapped
      BY <2>1, <2>2, OpenFields
    <2>4. pc = "meta" /\ Pend' = Pend  BY <1>10 DEF OpenMeta, kernel, Pend
    <2>5. ts.lastPage = -1 /\ ts.maxPage = -1 /\ ~ts.wrapped
      BY <2>4 DEF Inv, SetupInv, Setup
    <2>6. ts'.wrapped = ts.wrapped
      <3>1. ts.wrapped \in BOOLEAN /\ ts'.wrapped \in BOOLEAN  BY <1>1, <2>3 DEF TraceStates
      <3> QED  BY <2>3, <2>5, <3>1
    <2> QED  BY <1>5, <2>3, <2>4, <2>5, <2>6 DEF Unchanged
  <1>11. CASE SeedMaps
    <2>1. Pend' = Pend  BY <1>11 DEF SeedMaps, kernel, Pend
    <2>2. CASE UNCHANGED ts  BY <1>5, <2>1, <2>2 DEF Unchanged
    <2>3. CASE ts' = Seed(ts, SetToSeq(maps))
      <3>1. SetToSeq(maps) \in Seq(Image)  BY SetToSeqProperties DEF Inv, TypeInv, MapTypes
      <3>2. Unchanged(ts', ts, {"extent"})  BY <1>1, <2>3, <3>1, SeedFields
      <3> QED  BY <1>5, <2>1, <3>2
    <2> QED  BY <1>11, <2>2, <2>3 DEF SeedMaps, ProcessExecMmaps
  <1>12. CASE FinishTrace
    <2>1. PICK known \in BOOLEAN : ts' = IF opt.kernel THEN EnsureKernel(ts, known) ELSE ts
      BY <1>12 DEF FinishTrace
    <2>2. Unchanged(EnsureKernel(ts, known), ts, {"meta", "extent"})  BY <1>1, EnsureFields
    <2>3. Unchanged(ts', ts, {"extent"})  BY <2>1, <2>2 DEF Unchanged
    <2>4. Pend' = Pend  BY <1>12 DEF FinishTrace, Pend
    <2> QED  BY <1>5, <2>3, <2>4
  <1> QED
    BY <1>6, <1>7, <1>8, <1>9, <1>10, <1>11, <1>12, CommandCases

LEMMA BufferInvNext ==
    ASSUME Inv, [Next]_vars
    PROVE  BufferInv'
  <1>1. CASE UNCHANGED vars
    BY <1>1 DEF vars, command, process, kernel, Inv, BufferInv, Ends, Pend
  <1> QED  BY <1>1, NextCases, BufferInvWorld, BufferInvCommand

LEMMA DrainInvNext ==
    ASSUME Inv, [Next]_vars
    PROVE  DrainInv'
  <1>1. /\ DrainInv /\ BufferInv /\ 0 \in Tids /\ written[0] \in Nat /\ reached \in Nat
        /\ empty \in Nat /\ threads \in Nat
    BY SessionTypes DEF Inv, TypeInv, SessionTypesInv, WriteTypes, CountTypes
  <1>2. SUFFICES ASSUME Drained', "drain" \notin refused'
                 PROVE  /\ batch' = <<>>
                        /\ threads' = 1 /\ reached' > 0 => ts'.lastPage \in Ends'
    BY DEF DrainInv
  <1>3. CASE WorldStep
    <2>1. UNCHANGED <<pc, empty, batch, ts, refused>>  BY <1>3, WorldKeepsCommand DEF command
    <2>2. Drained /\ "drain" \notin refused /\ pc \in {"poststop", "decode"}
      BY <1>2, <2>1 DEF Drained
    <2>3. batch = <<>> /\ (threads = 1 /\ reached > 0 => ts.lastPage \in Ends)
      BY <1>1, <2>2 DEF DrainInv
    <2>4. /\ reached' = reached /\ (threads' = threads \/ threads' = threads + 1)
          /\ written' = written \/ \E t \in Tids : written' = [written EXCEPT ![t] = @ + 1]
      BY <1>3, <2>2, Zenon DEF WorldStep, TargetStep, KernelStep, TargetExecs, TargetExecsUnnamed,
         TargetMaps, TargetMapsUnnamed, TargetUnmaps, TargetCreatesThread, TargetFillsPage,
         MapsImage, QueueBuffer, LoseBuffer, TargetEnds, process, kernel
    <2>5. written'[0] \in Nat /\ written[0] <= written'[0]
      <3>1. written \in [Tids -> 0..load.written] /\ load.written \in Nat
        BY SessionTypes DEF Inv, TypeInv, SessionTypesInv, WriteTypes
      <3> QED  BY <1>1, <2>4, <3>1
    <2>6. Ends \subseteq Ends'
      <3>1. \A n \in reached..written[0] : n \in reached..written'[0]  BY <1>1, <2>5
      <3> QED  BY <2>4, <3>1 DEF Ends
    <2>7. threads' = 1 => threads = 1  BY <1>1, <2>4 DEF BufferInv
    <2> QED  BY <2>1, <2>3, <2>4, <2>6, <2>7
  <1>4. CASE UNCHANGED vars
    BY <1>1, <1>2, <1>4 DEF vars, command, process, kernel, DrainInv, Drained, Ends
  <1>5. CASE CommandStep \/ Interrupt
    <2>1. UNCHANGED <<threads, reached>> /\ Ends' = Ends
      BY <1>5, CommandKeepsWorld DEF Ends
    <2>2. CASE PostStopPoll
      <3>1. ts' = ts /\ pc = "poststop" /\ batch = <<>>  BY <2>2 DEF PostStopPoll
      <3>2. CASE queue = <<>> /\ TakeRecords
        <4>1. Pend = <<>> /\ Len(Pend) = 0  BY <3>1, <3>2 DEF Pend
        <4>2. threads = 1 /\ reached > 0 => ts.lastPage \in Ends
          BY <1>1, <4>1 DEF BufferInv, Ending
        <4>3. batch' = <<>>
          <5>1. batch' \in Seq(Recs) /\ queue' \in Seq(Recs) /\ Pend' = Pend
            BY <2>2, PollKeeps DEF PollStep
          <5> QED  BY <4>1, <5>1 DEF Pend
        <4> QED  BY <2>1, <3>1, <4>2, <4>3 DEF Ends
      <3>3. CASE empty' = 0 /\ pc' = pc
        BY <1>2, <3>1, <3>3 DEF Drained
      <3>4. CASE empty = PostStopPolls /\ refused' = refused /\ UNCHANGED batch
        <4>1. empty > 0  BY <3>4, SessionAssumption
        <4>2. Drained  BY <3>1, <4>1 DEF Drained
        <4> QED  BY <1>1, <1>2, <2>1, <3>1, <3>4, <4>2 DEF DrainInv
      <3>5. CASE refused' = refused \cup {"drain"}  BY <1>2, <3>5
      <3> QED  BY <2>2, <3>2, <3>3, <3>4, <3>5 DEF PostStopPoll
    <2>3. CASE RecordStep
      <3>1. UNCHANGED <<pc, empty>> /\ batch # <<>>
        BY <2>3 DEF RecordStep, ProcessRecord, FinalRecord, PostStopRecord
      <3>2. "drain" \notin refused
        BY <1>2, <2>3 DEF RecordStep, ProcessRecord, FinalRecord, PostStopRecord,
           EmitAndProcess, Wakeup, kernel
      <3>3. Drained  BY <1>2, <3>1 DEF Drained
      <3> QED  BY <1>1, <3>1, <3>2, <3>3 DEF DrainInv
    <2>4. CASE Interrupt
      <3>1. UNCHANGED <<ts, batch, empty, refused>> /\ pc' \in {pc, "killed"}
        BY <2>4 DEF Interrupt, kernel
      <3>2. Drained  BY <1>2, <3>1 DEF Drained
      <3> QED  BY <1>1, <1>2, <2>1, <3>1, <3>2 DEF DrainInv
    <2>5. CASE StopTracing  BY <1>2, <2>5 DEF StopTracing, Drained
    <2>6. CASE CommandStep /\ ~(PostStopPoll \/ RecordStep \/ StopTracing)
      <3>1. pc' \notin {"poststop", "decode"}
        BY <2>6 DEF CommandStep, RecordStep, AfterConfig, Refuse, Fork, Attach, AllocContext,
           SetConfig, StartTracing, OpenMeta, SeedMaps, Abort, AbortReap, ExecLimit, ExecCheck,
           TraceLimit, TraceCheck, Poll, PollFails, EndOfDrain, Reap, FinalPoll, FinishTrace
      <3> QED  BY <1>2, <3>1 DEF Drained
    <2> QED  BY <1>5, <2>2, <2>3, <2>4, <2>5, <2>6
  <1> QED  BY <1>3, <1>4, <1>5, NextCases

-----------------------------------------------------------------------------
(* The theorems.                                                           *)

LEMMA InvNext ==
    ASSUME Inv, [Next]_vars
    PROVE  Inv'
  BY TypeInvNext, ContextInvNext, ChildInvNext, SetupInvNext, UntracedInvNext, ImagesInvNext,
     SectionsInvNext, SidecarInvNext, BufferInvNext, DrainInvNext, ThreadSidecarsNext DEF Inv

LEMMA InvHolds == Spec => []Inv
  BY InitInv, InvNext, PTL DEF Spec

(* Types, and the bound on the table of thread devices, in every state of   *)
(* every session: hwt_ctx_open_thread never writes past MAX_THREADS.        *)
THEOREM TypesHold == Spec => []TypeOK
  <1>1. Inv => TypeOK
    <2> SUFFICES ASSUME Inv PROVE TypeOK  OBVIOUS
    <2>1. {gone, interrupted, seeded, paused} \subseteq BOOLEAN
      BY DEF Inv, TypeInv, FlagTypes
    <2> QED
      BY <2>1 DEF Inv, TypeInv, TypeOK, SessionTypesInv, ControlTypes, Locations, TargetTypes,
         ContextTypes, CountTypes, DeviceTypes, HandleTypes, WriteTypes
  <1> QED  BY <1>1, InvHolds, PTL

(* A command that ends by itself has closed every descriptor, also when     *)
(* opening the device failed after HWT_IOC_ALLOC, leaves no context that    *)
(* traces unless the kernel refused a STOP, and the child of an exec is     *)
(* dead and reaped, at whichever step the run failed.                       *)
THEOREM ExitsClean == Spec => []CleanExit
  <1>1. Inv => CleanExit  BY DEF Inv, ContextInv, ChildInv, CleanExit, Tracing
  <1> QED  BY <1>1, InvHolds, PTL

(* Once the records are read, every mapping of the target is a section,     *)
(* however the seed raced with records, and no section is of a program that *)
(* was replaced before tracing or by an exec with a path.                   *)
THEOREM SectionsAreCurrent == Spec => []SectionsCover
  <1>1. Inv => SectionsCover
    <2> SUFFICES ASSUME Inv, queue = <<>>, batch = <<>>, seeded
                 PROVE  LET known == {ts.sections[i].image : i \in DOMAIN ts.sections}
                                       \ {KernelImage}
                        IN  maps \subseteq known /\ \A m \in known : m[1] >= named
      BY DEF SectionsCover
    <2> DEFINE s == ts.sections
    <2>1. s \in Seq(Recs) /\ DOMAIN s = 1..Len(s)  BY SectionsType
    <2>2. Pend = <<>> /\ Len(Pend) = 0  BY DEF Pend
    <2>3. NoExec(Pend)  BY <2>2 DEF NoExec
    <2>4. \A i \in 1..Len(s) : Named(s[i]) => s[i].image[1] >= named
      BY <2>3 DEF Inv, ImagesInv, Current
    <2>5. \A m \in maps : \E i \in 1..Len(s) : Names(s[i], m)
      BY <2>2 DEF Inv, ImagesInv, Covered
    <2>6. maps \subseteq Image  BY DEF Inv, TypeInv, MapTypes
    <2>7. \A i \in 1..Len(s) : Parses(s[i])  BY DEF Inv, SectionsInv, Sound
    <2> HIDE DEF s
    <2>8. ASSUME NEW i \in 1..Len(s), s[i].image # KernelImage PROVE Named(s[i])
      <3>1. s[i] \in Recs /\ Parses(s[i])  BY <2>1, <2>7
      <3>2. s[i].type # "kernel"  BY <2>8, <3>1, RecFields
      <3> QED  BY <3>1, <3>2 DEF Parses, ImageTypes, Named
    <2>9. ASSUME NEW m \in maps PROVE \E i \in DOMAIN s : s[i].image = m /\ m # KernelImage
      BY <2>1, <2>5, <2>6, ImagesDiffer DEF Names
    <2> QED  BY <2>1, <2>4, <2>8, <2>9 DEF s
  <1> QED  BY <1>1, InvHolds, PTL

(* The sidecar, read back, gives the live sections at every step up to the  *)
(* decoding, whatever was recorded and in whatever order.                   *)
THEOREM SidecarIsLive == Spec => []SidecarMatchesLive
  <1>1. Inv => SidecarMatchesLive  BY DEF Inv, SidecarInv, SidecarMatchesLive, Polled
  <1> QED  BY <1>1, InvHolds, PTL

(* The sidecar of each extra thread gives back its number and the sections  *)
(* with which its buffer was decoded, the kernel's added last included.     *)
THEOREM ThreadSidecarsAreLive == Spec => []ThreadSidecarsReplay
  <1>1. Inv => ThreadSidecarsReplay  BY DEF Inv
  <1> QED  BY <1>1, InvHolds, PTL

(* The buffer of a single thread is reported as wrapped only if it did.     *)
THEOREM WrapsAreReal == Spec => []WrapIsReal
  <1>1. Inv => WrapIsReal
    <2> SUFFICES ASSUME Inv, ts.wrapped, threads = 1 PROVE written[0] >= Pages
      BY DEF WrapIsReal
    <2>1. ~(written[0] < Pages)  BY DEF Inv, BufferInv
    <2>2. written[0] \in Nat
      BY SessionTypes DEF Inv, TypeInv, SessionTypesInv, WriteTypes
    <2>3. Pages \in Nat  BY SessionAssumption
    <2> QED  BY <2>1, <2>2, <2>3
  <1> QED  BY <1>1, InvHolds, PTL

(* BUFFER records may come late or never: when decoding starts the extent   *)
(* noted for a single thread is nevertheless a position that its buffer     *)
(* reached, not before that of the last record queued ahead of the stop,    *)
(* provided that no poll of the drain failed.                               *)
THEOREM ExtentIsBelow == Spec => []ExtentIsLowerBound
  <1>1. Inv => ExtentIsLowerBound
    <2> SUFFICES ASSUME Inv, pc = "decode", threads = 1, reached > 0, "drain" \notin refused
                 PROVE  \E n \in reached..written[0] : ts.lastPage = n % Pages
      BY DEF ExtentIsLowerBound
    <2>1. ts.lastPage \in Ends  BY DEF Inv, DrainInv, Drained
    <2> QED  BY <2>1 DEF Ends
  <1> QED  BY <1>1, InvHolds, PTL
=============================================================================
