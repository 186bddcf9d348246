--------------------------------- MODULE Image ---------------------------------
(***************************************************************************)
(* From the records of a trace to the addresses it is decoded with: the    *)
(* part of the buffer that is saved (Snapshot), the image and the symbols  *)
(* that build_pt_image makes of the sections                               *)
(* (decode.c, elf.c, symbols.c), the ranges of the fallback lookup, and    *)
(* the address filter computed from -r before the trace (resolve.c).       *)
(*                                                                         *)
(* The traced process and the kernel's records are external: a file is     *)
(* mapped at a slide, and every executable mapping is reported.            *)
(***************************************************************************)
EXTENDS SymLookup, Snapshot, SequencesExt, FiniteSetsExt

CONSTANTS
    Elf,        \* by path: the PT_LOAD segments, the functions of the symbol
                \*   table, whether it is position independent, and its
                \*   interpreter
    Mains, Libs, Interp, KernelPath,    \* the paths, by their part
    Slides,     \* slides of position-independent files; no two files overlap
    PageSize,
    UserLimit,  \* first address that is not a user address
    MaxRanges,  \* MAX_BIN_RANGES
    Specs,      \* lists of -r arguments: indices of functions of the main
                \*   file, or 0 for a range given by addresses
    MaxExecs,   \* bound: images the process executes
    Ips         \* addresses looked up

Paths == Mains \cup Libs \cup {Interp, KernelPath}

ASSUME ImageAssumption ==
    /\ {PageSize, UserLimit, MaxRanges} \subseteq Nat \ {0}
    /\ Slides \cup Ips \subseteq Nat
    /\ \A s \in Slides : s % PageSize = 0
    /\ MaxExecs \in Nat

ASSUME PathAssumption ==
    /\ IsFiniteSet(Paths)
    /\ Mains \cap Libs = {} /\ Interp \notin Mains \cup Libs
    /\ KernelPath \notin Mains \cup Libs \cup {Interp}

(* Files as linkers write them: the PT_LOAD headers ascend, the first maps *)
(* the file from its start and so begins a page, and there is code.        *)
ASSUME ElfAssumption ==
    /\ DOMAIN Elf = Paths
    /\ \A p \in Paths :
         /\ Elf[p].pie \in BOOLEAN /\ Elf[p].interp \in BOOLEAN
         /\ Elf[p].loads \in Seq([vaddr : Nat, filesz : Nat, exec : BOOLEAN])
         /\ \E n \in DOMAIN Elf[p].loads :
                Elf[p].loads[n].exec /\ Elf[p].loads[n].filesz > 0
         /\ \A n, m \in DOMAIN Elf[p].loads :
                n <= m => Elf[p].loads[n].vaddr <= Elf[p].loads[m].vaddr
         /\ Elf[p].loads[1].vaddr % PageSize = 0
         /\ Elf[p].syms \in Seq([addr : Nat, size : Nat, name : Names])
         /\ \A n \in DOMAIN Elf[p].syms : Elf[p].syms[n].name[1] = p

(* The interpreter is mapped at a user address, apart from the main file.  *)
ASSUME InterpAssumption ==
    \A i \in Slides :
       LET at == Elf[Interp].loads[1].vaddr + i
       IN  /\ at # 0 /\ at < UserLimit
           /\ \A p \in Mains :
                 \A s \in (IF Elf[p].pie THEN Slides ELSE {0}) \ {i} :
                    Elf[p].loads[1].vaddr + s # at

VARIABLES
    mode,       \* bsdtrace "exec" or bsdtrace "trace"
    main,       \* the path given, or that of the process attached to
    slide,      \* where each path is mapped: its slide, or -1
    reported,   \* by path, the last header whose mapping was reported, or 0
    execs,      \* images executed
    filter,     \* the ranges resolved, each with the function asked for
    sections,   \* the trace state's sections
    phase,      \* "setup", "trace", "stopped", "build", "ready" or "exit"
    saved,      \* the units saved and those that had to be, or <<>>
    next,       \* the section build_pt_image is at
    image,      \* struct pt_image: the segments added
    syms        \* the symbol table before it is sorted

process == <<main, slide, reported, execs>>
built   == <<next, image, syms>>
vars    == <<mode, process, filter, sections, phase, saved, built, table, search>>

-----------------------------------------------------------------------------
(* elf.c                                                                   *)

is_user_addr(a) == a # 0 /\ a < UserLimit
trunc_page(a)   == a - (a % PageSize)

(* The executable PT_LOAD headers of a file, by index and as a set.        *)
Segments(path) ==
    {n \in DOMAIN Elf[path].loads : Elf[path].loads[n].exec /\ Elf[path].loads[n].filesz > 0}
ExecLoads(path) == {l \in Range(Elf[path].loads) : l.exec /\ l.filesz > 0}

elf_base_vaddr(path)     == Elf[path].loads[1].vaddr
elf_exec_map_vaddr(path) == Min({trunc_page(l.vaddr) : l \in ExecLoads(path)})

(* Mutant: an MMAP record is taken for the address of the first segment.   *)
elf_record_load_addr(path, type, addr) ==
    IF type = "EXEC" THEN elf_base_vaddr(path) + addr ELSE addr

(* The address of the first segment, or -1.                                *)
elf_effective_load_addr(path, type, addr) ==
    CASE type = "EXEC" -> elf_base_vaddr(path) + addr
      [] type = "MMAP" -> IF addr < elf_exec_map_vaddr(path) THEN -1
                          ELSE elf_base_vaddr(path) + (addr - elf_exec_map_vaddr(path))
      [] OTHER         -> addr

(* Of the sections of one path, the first EXEC, or without one the MMAP of *)
(* the lowest address.                                                     *)
section_should_use(secs, i) ==
    LET sec == secs[i]
        of(type) == {j \in DOMAIN secs : secs[j].type = type /\ secs[j].path = sec.path}
    IN  CASE sec.type = "EXEC" -> \A j \in of("EXEC") : i <= j
          [] sec.type = "MMAP" ->
               /\ of("EXEC") = {}
               /\ \A j \in of("MMAP") \ {i} :
                     \/ secs[j].load_addr > sec.load_addr
                     \/ secs[j].load_addr = sec.load_addr /\ i < j
          [] OTHER -> TRUE

(* The segment of a header, moved by the slide.                            *)
Moved(path, load_addr, l) ==
    [path |-> path, lo |-> l.vaddr + (load_addr - elf_base_vaddr(path)),
     hi |-> l.vaddr + l.filesz + (load_addr - elf_base_vaddr(path))]

add_elf_to_image(path, load_addr) == {Moved(path, load_addr, l) : l \in ExecLoads(path)}

(* Whether the interpreter of section i is added along with it.            *)
AddsInterp(secs, i, load_addr) ==
    /\ secs[i].type = "EXEC"
    /\ is_user_addr(secs[i].base_addr) /\ secs[i].base_addr # load_addr
    /\ Elf[secs[i].path].interp
    /\ \A k \in DOMAIN secs : ~(secs[k].type = "MMAP" /\ secs[k].path = Interp)

(* The files a section contributes, and their load addresses.              *)
Contributes(secs, i) ==
    LET sec  == secs[i]
        load == elf_effective_load_addr(sec.path, sec.type, sec.load_addr)
    IN  IF ~section_should_use(secs, i) \/ load = -1 THEN <<>>
        ELSE <<[path |-> sec.path, load |-> load]>>
             \o (IF AddsInterp(secs, i, load)
                 THEN <<[path |-> Interp, load |-> sec.base_addr]>> ELSE <<>>)

(* The ranges of a file, in the order of its headers.                      *)
file_ranges(path, load_addr) ==
    FlattenSeq([n \in DOMAIN Elf[path].loads |->
       IF n \in Segments(path) THEN <<Moved(path, load_addr, Elf[path].loads[n])>> ELSE <<>>])

(* Mutant: an interpreter without a section of its own is left out.        *)
build_section_ranges(secs) ==
    FlattenSeq([i \in DOMAIN secs |->
       LET files == Contributes(secs, i)
       IN  IF files = <<>> THEN <<>> ELSE file_ranges(files[1].path, files[1].load)])

(* build_bin_ranges: at most MaxRanges, in the order of the sections.      *)
build_bin_ranges(secs) ==
    LET files  == FlattenSeq([i \in DOMAIN secs |-> Contributes(secs, i)])
        ranges == FlattenSeq([i \in DOMAIN files |->
                                file_ranges(files[i].path, files[i].load)])
    IN  SubSeq(ranges, 1, Min({Len(ranges), MaxRanges}))

find_binary_for_ip(ranges, a) ==
    LET at == {i \in DOMAIN ranges : a >= ranges[i].lo /\ a < ranges[i].hi}
    IN  IF at = {} THEN "none" ELSE ranges[Min(at)].path

-----------------------------------------------------------------------------
(* symbols.c                                                               *)

(* sym_table_add_elf: the functions with a value, moved by the slide.      *)
sym_table_add_elf(path, load_addr) ==
    FlattenSeq([i \in DOMAIN Elf[path].syms |->
       LET sym == Elf[path].syms[i]
       IN  IF sym.addr = 0 THEN <<>>
           ELSE <<[addr |-> sym.addr + (load_addr - elf_base_vaddr(path)),
                   size |-> sym.size, name |-> sym.name]>>])

-----------------------------------------------------------------------------
(* resolve.c                                                               *)

(* process_load_addr: the first executable mapping of the path.            *)
process_load_addr(path) == Min({trunc_page(l.vaddr) : l \in ExecLoads(path)}) + slide[path]

(* Mutant: position-independent files are not refused.                     *)
ResolvesAny(path) == TRUE

(* Symbols can be resolved, and by which slide.                            *)
Resolvable(path) == mode = "exec" => ~Elf[path].pie
compute_slide(path) ==
    IF mode = "exec" THEN 0 ELSE process_load_addr(path) - elf_base_vaddr(path)

resolve_symbol_in_elf(sym, by) ==
    [start |-> sym.addr + by,
     end   |-> sym.addr + (IF sym.size > 0 THEN sym.size ELSE Fallback) + by]

(* resolve_range_specs: the ranges of a list of arguments.                 *)
Resolves(spec) ==
    /\ Len(spec) <= 2
    /\ Range(spec) \ {0} # {} => Resolvable(main)
    /\ \A n \in Range(spec) \ {0} : n \in DOMAIN Elf[main].syms /\ Elf[main].syms[n].addr # 0

resolve_range_specs(spec) ==
    [i \in {j \in DOMAIN spec : spec[j] # 0} |->
       [sym |-> Elf[main].syms[spec[i]],
        to  |-> resolve_symbol_in_elf(Elf[main].syms[spec[i]], compute_slide(main))]]

-----------------------------------------------------------------------------
(* The process and the kernel's records (external).                        *)

Mapped   == {p \in Paths : slide[p] # -1}
Free     == Slides \ {slide[p] : p \in Mapped}
Nowhere  == [p \in Paths |-> IF p = KernelPath THEN 0 ELSE -1]
SlidesOf(p) == IF Elf[p].pie THEN Slides ELSE {0}

(* The record of a segment.                                                *)
Mmap(p, n, s) ==
    [type |-> "MMAP", path |-> p, base_addr |-> 0,
     load_addr |-> trunc_page(Elf[p].loads[n].vaddr) + s[p]]

(* process_exec_mmaps: the executable mappings in the order of addresses.  *)
process_exec_mmaps(s) ==
    LET mmaps == UNION {{Mmap(p, n, s) : n \in Segments(p)} :
                          p \in {q \in Paths \ {KernelPath} : s[q] # -1}}
    IN  {t \in [1..Cardinality(mmaps) -> mmaps] :
           /\ Range(t) = mmaps
           /\ \A i, j \in DOMAIN t : i <= j => t[i].load_addr <= t[j].load_addr}

(* A process to attach to has its files mapped, some libraries not yet.    *)
AttachedSlides ==
    {s \in [Paths -> Slides \cup {0, -1}] :
       /\ s[KernelPath] = 0 /\ s[main] \in SlidesOf(main)
       /\ \A p \in Mains \ {main} : s[p] = -1
       /\ s[Interp] \in IF Elf[main].interp THEN Slides ELSE {-1}
       /\ \A p \in Libs : s[p] \in Slides \cup {-1}
       /\ \A p, q \in Paths : s[p] \in Slides /\ p # q => s[p] # s[q]}

Init ==
    /\ mode \in {"exec", "trace"} /\ main \in Mains
    /\ slide \in IF mode = "exec" THEN {Nowhere} ELSE AttachedSlides
    /\ reported = [p \in Paths |-> 0]
    /\ execs = 0 /\ filter = <<>> /\ sections = <<>> /\ phase = "setup" /\ saved = <<>>
    /\ next = 1 /\ image = {} /\ syms = <<>>
    /\ LookupInit

(* resolve_range_specs, then the start of the trace; cmd_trace seeds the   *)
(* sections with the mappings the process has.                             *)
StartTrace ==
    /\ phase = "setup"
    /\ \E spec \in Specs :
          \/ /\ Resolves(spec)
             /\ filter' = resolve_range_specs(spec)
             /\ phase' = "trace"
             /\ IF mode = "exec" THEN UNCHANGED <<sections, reported>>
                ELSE /\ sections' \in process_exec_mmaps(slide)
                     /\ reported' = [p \in Paths |-> IF p \in Mapped \ {KernelPath}
                                                     THEN Max(Segments(p)) ELSE 0]
          \/ /\ ~Resolves(spec)
             /\ phase' = "exit" /\ UNCHANGED <<filter, sections, reported>>
    /\ UNCHANGED <<mode, main, slide, execs, saved, built, table, search>>

(* The process executes a file: a new address space.  The EXEC record has  *)
(* the slide and the interpreter's address, and empties the sections.      *)
Exec ==
    /\ phase = "trace" /\ execs < MaxExecs
    /\ \E p \in IF mode = "exec" /\ execs = 0 THEN {main} ELSE Mains :
       \E s \in SlidesOf(p) : \E i \in Slides \ {s} :
         /\ slide' = [Nowhere EXCEPT ![p] = s,
                                     ![Interp] = IF Elf[p].interp THEN i ELSE -1]
         /\ sections' = <<[type |-> "EXEC", path |-> p, load_addr |-> s,
                           base_addr |-> IF Elf[p].interp
                                         THEN elf_base_vaddr(Interp) + i ELSE 0]>>
    /\ execs' = execs + 1
    /\ reported' = [p \in Paths |-> 0]
    /\ UNCHANGED <<mode, main, filter, phase, saved, built, table, search>>

(* The next executable segment of a library, or of the interpreter, is     *)
(* mapped and reported.                                                    *)
Unreported(p) == {n \in Segments(p) : n > reported[p]}

MapSegment ==
    /\ phase = "trace" /\ Mapped # {KernelPath}
    /\ \E p \in Libs \cup {Interp} :
         /\ Unreported(p) # {}
         /\ \/ p \in Mapped /\ UNCHANGED slide
            \/ /\ p \in Libs \ Mapped
               /\ \E s \in Free : slide' = [slide EXCEPT ![p] = s]
         /\ reported' = [reported EXCEPT ![p] = Min(Unreported(p))]
         /\ sections' = Append(sections, Mmap(p, Min(Unreported(p)), slide'))
    /\ UNCHANGED <<mode, main, execs, filter, phase, saved, built, table, search>>

-----------------------------------------------------------------------------
(* The decoder's tables.                                                   *)

(* The trace ends and the context with its filter is closed; with -K,      *)
(* trace_state_ensure_kernel adds the kernel.                              *)
StopTrace ==
    /\ phase = "trace"
    /\ phase' = "stopped"
    /\ filter' = <<>>
    /\ \/ UNCHANGED sections
       \/ sections' = Append(sections,
            [type |-> "KERNEL", path |-> KernelPath, base_addr |-> 0,
             load_addr |-> elf_base_vaddr(KernelPath) + slide[KernelPath]])
    /\ UNCHANGED <<mode, process, saved, built, table, search>>

(* snapshot_and_decode chooses the extent and writes the file: it probes   *)
(* with the same sections.                                                 *)
Probes == \E i \in DOMAIN sections : Contributes(sections, i) # <<>>

Questions == [nsections : {0, 1}, works : BOOLEAN, named : BOOLEAN]
Outcome(q, b) ==
    [of |-> q, len |-> choose_snapshot_len(b, q.nsections, q.works, q.named),
     decodable |-> Max({0} \cup b.code \cup b.other)]
Outcomes == UNION {{Outcome(q, b) : b \in Buffers} : q \in Questions}

SaveBuffer ==
    LET question == [nsections |-> IF sections = <<>> THEN 0 ELSE 1, works |-> Probes,
                     named |-> \E i \in DOMAIN sections : sections[i].type = "EXEC"]
    IN  /\ phase = "stopped" /\ saved = <<>>
        /\ saved' \in {o \in Outcomes : o.of = question}
        /\ UNCHANGED <<mode, process, filter, sections, phase, built, table, search>>

(* The file could not be written, or the buffer was empty; else it is      *)
(* decoded.                                                                *)
DecodeSaved ==
    /\ phase = "stopped" /\ saved # <<>>
    /\ phase' \in IF saved.len = 0 THEN {"exit"} ELSE {"build", "exit"}
    /\ saved' = <<>>
    /\ UNCHANGED <<mode, process, filter, sections, built, table, search>>

(* build_pt_image, one section.                                            *)
AddSection ==
    /\ phase = "build" /\ next <= Len(sections)
    /\ LET files == Contributes(sections, next)
       IN  /\ image' = image \cup UNION {add_elf_to_image(files[i].path, files[i].load) :
                                            i \in DOMAIN files}
           /\ syms' = syms \o FlattenSeq([i \in DOMAIN files |->
                                   sym_table_add_elf(files[i].path, files[i].load)])
    /\ next' = next + 1
    /\ UNCHANGED <<mode, process, filter, sections, phase, saved, table, search>>

(* Mutant: the table is left in the order of the files.                    *)
sym_table_unsorted(t) == t

(* sym_table_sort, by the place of each entry; qsort leaves the order of   *)
(* entries at one address open.                                            *)
Place(t, i) ==
    Cardinality({j \in DOMAIN t :
                   t[j].addr < t[i].addr \/ (t[j].addr = t[i].addr /\ j <= i)})
sym_table_sort(t) == [k \in DOMAIN t |-> t[CHOOSE i \in DOMAIN t : Place(t, i) = k]]

ImageBuilt ==
    /\ phase = "build" /\ next > Len(sections)
    /\ IF image = {} THEN phase' = "exit" /\ UNCHANGED table
       ELSE /\ phase' = "ready"
            /\ \E t \in {syms, Reverse(syms)} : table' = sym_table_sort(t)
    /\ UNCHANGED <<mode, process, filter, sections, saved, built, search>>

Lookup ==
    /\ phase = "ready"
    /\ (\E a \in Ips : sym_table_lookup(a)) \/ Probe \/ LookupDone \/ LookupReturn
    /\ UNCHANGED <<mode, process, filter, sections, phase, saved, built>>

Exited == phase = "exit" /\ UNCHANGED vars

Next == \/ StartTrace \/ Exec \/ MapSegment \/ StopTrace
        \/ SaveBuffer \/ DecodeSaved \/ AddSection \/ ImageBuilt \/ Lookup \/ Exited

Spec == Init /\ [][Next]_vars

-----------------------------------------------------------------------------
(* Properties.                                                             *)

(* What is saved has every unit from which instructions decode, whether    *)
(* the stop pointer is exact, has lost its page or cannot be read, and     *)
(* however old the last BUFFER record is.                                  *)
SavedWhole == saved # <<>> /\ Probes => saved.decodable <= saved.len

(* Where the segments of a path really are.                                *)
At(p) == {[path |-> p, lo |-> l.vaddr + slide[p], hi |-> l.vaddr + l.filesz + slide[p]] :
            l \in ExecLoads(p)}

(* What the process has executed, and what was reported to be mapped.      *)
Known == {p \in Mapped \ {KernelPath} : reported[p] > 0 \/ p = Interp \/ p \in Mains}

(* The image has the segments of every file the process runs, at the       *)
(* addresses at which they run: whether the file is known from an EXEC     *)
(* record, from one or several MMAP records, from the process's map when   *)
(* it was attached to, or is only named as an interpreter.                 *)
ImageTrue ==
    phase = "ready" =>
      /\ \A s \in image : slide[s.path] # -1 /\ s \in At(s.path)
      /\ \A p \in Known : At(p) \subseteq image

(* An address without a symbol is attributed to the file that is mapped    *)
(* there, or to none when the ranges did not fit.                          *)
FallbackTrue ==
    phase = "ready" /\ pc = "idle" =>
      LET ranges == build_bin_ranges(sections)
      IN  \A a \in Ips :
            LET owners == {p \in Mapped : \E s \in At(p) : a >= s.lo /\ a < s.hi}
            IN  \/ find_binary_for_ip(ranges, a) \in owners
                \/ /\ find_binary_for_ip(ranges, a) = "none"
                   /\ owners \cap Known = {} \/ Len(ranges) = MaxRanges

(* The functions of the files mapped, at their run-time addresses.         *)
Functions_ ==
    UNION {{[addr |-> f.addr + slide[p], size |-> f.size, name |-> f.name] :
              f \in {g \in Range(Elf[p].syms) : g.addr # 0}} : p \in Mapped}

(* By its size a function reaches an address; one without a size reaches   *)
(* as far as the fallback.                                                 *)
Holds(f, a) ==
    /\ f.addr <= a
    /\ a < f.addr + f.size \/ (f.size = 0 /\ a <= f.addr + Fallback)

(* A symbol found is a function mapped where the instruction is.  And for  *)
(* the function f that the instruction is in, when no later one starts     *)
(* before it, a function at f's address is found: f, or an alias, which    *)
(* may be shorter.  Nothing is returned only if it is an alias that ends   *)
(* before the instruction.                                                 *)
LookupTrue ==
    phase = "ready" /\ pc = "found" =>
      LET e == table[best + 1]
      IN  /\ Hit => e \in Functions_ /\ Holds(e, ip)
          /\ \A f \in Functions_ :
                (/\ \E p \in Known : f.name[1] = p
                 /\ f.addr <= ip /\ ip < f.addr + f.size
                 /\ \A g \in Functions_ : g.addr <= ip => g.addr <= f.addr)
                => /\ best >= 0 /\ e \in Functions_ /\ e.addr = f.addr
                   /\ Hit \/ (e # f /\ ~Holds(e, ip))

(* The ranges of the hardware filter, while the file they were resolved    *)
(* for runs, are the run-time addresses of the functions asked for.        *)
RangesOfRunning ==
    slide[main] # -1 /\ (mode = "trace" => execs = 0) =>
      \A i \in DOMAIN filter :
        filter[i].to = resolve_symbol_in_elf(filter[i].sym, slide[main])

(* So they are for bsdtrace exec, and for bsdtrace trace when the first    *)
(* segment of the file is the executable one.                              *)
FilterTrue ==
    mode = "exec" \/ 1 \in Segments(main) => RangesOfRunning
=============================================================================
