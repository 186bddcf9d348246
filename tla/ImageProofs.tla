----------------------------- MODULE ImageProofs ------------------------------
(***************************************************************************)
(* Theorems about Image, SymLookup and Snapshot: for all files, slides,    *)
(* records, ranges and buffers.                                            *)
(***************************************************************************)
EXTENDS Image, InductionTheorems, FiniteSetTheorems, SequenceTheorems

-----------------------------------------------------------------------------
(* Snapshot: choose_snapshot_len never cuts off a unit from which an       *)
(* instruction decodes, for buffers of every size, when the probes can     *)
(* decode.  The known end is only kept when probing up to it yields as     *)
(* many instructions, and as many of the executable, as probing up to the  *)
(* last byte that is not zero; counts of nested finite sets that agree     *)
(* make the sets equal.                                                    *)

(* Of a finite set of units, a longer prefix holds at least as many, and   *)
(* the same ones when it holds as many.                                    *)
LEMMA PrefixCounts ==
    ASSUME NEW k \in Nat, NEW S \in SUBSET (1..k),
           NEW n \in Nat, NEW m \in Nat, n <= m
    PROVE  /\ Cardinality(S \cap (1..n)) \in Nat
           /\ Cardinality(S \cap (1..m)) \in Nat
           /\ Cardinality(S \cap (1..n)) <= Cardinality(S \cap (1..m))
           /\ Cardinality(S \cap (1..n)) = Cardinality(S \cap (1..m))
                => S \cap (1..n) = S \cap (1..m)
  <1>1. IsFiniteSet(1..k)
    BY FS_Interval
  <1>2. IsFiniteSet(S \cap (1..m))
    BY <1>1, FS_Subset
  <1>3. S \cap (1..n) \in SUBSET (S \cap (1..m))
    OBVIOUS
  <1>. QED
    BY <1>2, <1>3, FS_Subset, FS_CardinalityType

(* The fields of a buffer.                                                 *)
LEMMA BufferFields ==
    ASSUME NEW b \in Buffers
    PROVE  /\ b.end \in Nat /\ b.last \in Nat /\ b.record \in Nat
           /\ b.code \in SUBSET (1..BufUnits) /\ b.other \in SUBSET (1..BufUnits)
           /\ b.code \cup b.other \subseteq 1..b.last
           /\ b.stop \in {"exact", "page lost", "failed"}
  <1>1. b \in [end : 0..BufUnits, last : 0..BufUnits, code : SUBSET (1..BufUnits),
               other : SUBSET (1..BufUnits), stop : {"exact", "page lost", "failed"},
               record : 0..BufUnits]
    BY DEF Buffers
  <1>2. /\ b.end \in 0..BufUnits /\ b.last \in 0..BufUnits /\ b.record \in 0..BufUnits
        /\ b.code \in SUBSET (1..BufUnits) /\ b.other \in SUBSET (1..BufUnits)
        /\ b.stop \in {"exact", "page lost", "failed"}
    BY <1>1, Zenon
  <1>3. b.end \in Nat /\ b.last \in Nat /\ b.record \in Nat
    <2>1. BufUnits \in Nat
      BY SnapshotAssumption
    <2>2. 0..BufUnits \subseteq Nat
      BY <2>1
    <2>. QED
      BY <1>2, <2>2, Zenon
  <1>4. b.code \cup b.other \subseteq 1..b.last
    BY Zenon DEF Buffers
  <1>. QED
    BY <1>2, <1>3, <1>4, Zenon

(* The known end is a length, also when the stop pointer lost its page.    *)
LEMMA KnownEndIsLength ==
    ASSUME NEW b \in Buffers
    PROVE  known_end(b) \in Nat
  <1>1. b.end % PageUnits \in Nat
    <2>1. b.end \in Nat /\ PageUnits \in Nat \ {0}
      BY BufferFields, SnapshotAssumption, Zenon
    <2>. QED
      BY <2>1
  <1>. QED
    BY <1>1, BufferFields DEF known_end

(* What choose_snapshot_len of trace.c chooses, when there are sections    *)
(* and their image can be built, includes every unit that decodes: an      *)
(* exact stop pointer, one that lost its page and none at all alike.       *)
THEOREM NothingDecodableCut ==
    ASSUME NEW b \in Buffers, NEW named \in BOOLEAN, NEW u \in b.code \cup b.other
    PROVE  u <= choose_snapshot_len(b, 1, TRUE, named)
  <1>. DEFINE base    == known_end(b)
              all     == b.code \cup b.other
              p_base  == decode_pt_probe(b, base, named)
              p_scan  == decode_pt_probe(b, b.last, named)
              base_ok == p_base.total > 0
              scan_ok == p_scan.total > 0
              takes   == \/ scan_ok /\ (~base_ok \/ probe_result_better(p_scan, p_base))
                         \/ ~base_ok /\ ~scan_ok /\ b.last < base
              chosen  == IF takes THEN b.last ELSE base
  <1>a. /\ b.last \in Nat /\ BufUnits \in Nat
        /\ b.code \in SUBSET (1..BufUnits) /\ b.other \in SUBSET (1..BufUnits)
        /\ b.code \cup b.other \subseteq 1..b.last
    BY BufferFields, SnapshotAssumption
  <1>b. base \in Nat
    BY KnownEndIsLength
  <1>c. u \in 1..b.last
    BY <1>a
  <1>d. all \in SUBSET (1..BufUnits)
    BY <1>a
  <1>1. /\ base \in Nat /\ b.last \in Nat /\ BufUnits \in Nat
        /\ u \in Nat /\ 1 <= u /\ u <= b.last
    BY <1>a, <1>b, <1>c
  <1>2. choose_snapshot_len(b, 1, TRUE, named)
          = IF base = 0 THEN b.last
            ELSE IF b.last = 0 \/ b.last = base THEN base
            ELSE IF chosen = base /\ base < PageUnits /\ b.last > base THEN b.last
            ELSE chosen
    BY DEF choose_snapshot_len
  <1>3. ASSUME base < b.last, ~takes
        PROVE  u <= base
    <2>1. /\ p_base.total = Cardinality(all \cap (1..base))
          /\ p_scan.total = Cardinality(all \cap (1..b.last))
          /\ p_base.exec_hits = IF named THEN Cardinality(b.code \cap (1..base)) ELSE 0
          /\ p_scan.exec_hits = IF named THEN Cardinality(b.code \cap (1..b.last)) ELSE 0
      BY DEF decode_pt_probe
    <2>a. base <= b.last
      BY <1>1, <1>3
    <2>b. /\ Cardinality(b.code \cap (1..base)) \in Nat
          /\ Cardinality(b.code \cap (1..b.last)) \in Nat
          /\ Cardinality(b.code \cap (1..base)) <= Cardinality(b.code \cap (1..b.last))
      BY <1>a, <1>b, <2>a, PrefixCounts
    <2>2. /\ p_base.exec_hits \in Nat /\ p_scan.exec_hits \in Nat
          /\ p_base.exec_hits <= p_scan.exec_hits
      <3>. HIDE DEF p_base, p_scan
      <3>. QED
        BY <2>1, <2>b
    <2>c. /\ Cardinality(all \cap (1..base)) \in Nat
          /\ Cardinality(all \cap (1..b.last)) \in Nat
          /\ Cardinality(all \cap (1..base)) <= Cardinality(all \cap (1..b.last))
          /\ Cardinality(all \cap (1..base)) = Cardinality(all \cap (1..b.last))
               => all \cap (1..base) = all \cap (1..b.last)
      <3>. HIDE DEF all, base
      <3>. QED
        BY <1>a, <1>b, <1>d, <2>a, PrefixCounts
    <2>3. /\ p_base.total \in Nat /\ p_scan.total \in Nat
          /\ p_base.total <= p_scan.total
          /\ p_base.total = p_scan.total => all \cap (1..base) = all \cap (1..b.last)
      <3>. HIDE DEF all, base, p_base, p_scan
      <3>. QED
        BY <2>1, <2>c
    <2>4. scan_ok
      <3>1. u \in all \cap (1..b.last)
        BY <1>c
      <3>2. IsFiniteSet(1..b.last)
        <4>1. 1 \in Int /\ b.last \in Int
          BY <1>1
        <4>. QED
          BY <4>1, FS_Interval
      <3>3. IsFiniteSet(all \cap (1..b.last))
        <4>1. all \cap (1..b.last) \in SUBSET (1..b.last)
          OBVIOUS
        <4>. QED
          BY <3>2, <4>1, FS_Subset
      <3>4. Cardinality(all \cap (1..b.last)) # 0
        BY <3>1, <3>3, FS_EmptySet
      <3>. HIDE DEF p_scan, all
      <3>. QED
        BY <2>1, <2>3, <3>4
    <2>5. base_ok /\ ~probe_result_better(p_scan, p_base)
      BY <1>3, <2>4
    <2>6. p_base.total = p_scan.total
      <3>. HIDE DEF p_base, p_scan
      <3>. QED
        BY <2>2, <2>3, <2>5 DEF probe_result_better
    <2>. HIDE DEF p_base, p_scan, base
    <2>. QED
      BY <1>1, <2>3, <2>6
  <1>4. base < b.last \/ u <= base
    <2>. HIDE DEF base
    <2>. QED
      BY <1>1
  <1>. DEFINE len == choose_snapshot_len(b, 1, TRUE, named)
  <1>. HIDE DEF base, takes, len
  <1>5. len = b.last \/ (len = base /\ (base < b.last => ~takes))
    <2>1. len = IF base = 0 THEN b.last
                ELSE IF b.last = 0 \/ b.last = base THEN base
                ELSE IF chosen = base /\ base < PageUnits /\ b.last > base THEN b.last
                ELSE chosen
      BY <1>2 DEF len
    <2>. QED
      BY <1>1, <2>1
  <1>6. u <= len
    BY <1>1, <1>3, <1>4, <1>5
  <1>. QED
    BY <1>6 DEF len

-----------------------------------------------------------------------------
(* SymLookup: sym_table_lookup returns the last entry at or below the      *)
(* address, for tables of every length.  FindsLast is not inductive: it    *)
(* says nothing of a search under way.  LookupInv adds the types, the      *)
(* order of the table and SearchInvariant.                                 *)

LookupTypes ==
    /\ IsTable(table)
    /\ pc \in {"idle", "search", "found"}
    /\ ip \in Nat /\ lo \in Int /\ hi \in Int /\ best \in Int

LookupInv ==
    /\ LookupTypes
    /\ SearchInvariant
    /\ pc = "found" => lo > hi

(* Entries have natural addresses, ordered as their indices.               *)
LEMMA EntriesOrdered ==
    ASSUME IsTable(table), NEW i \in 0..(Len(table) - 1), NEW j \in i..(Len(table) - 1)
    PROVE  Addr(i) \in Nat /\ Addr(j) \in Nat /\ Addr(i) <= Addr(j)
  <1>1. Len(table) \in Nat
    BY DEF IsTable
  <1>2. i + 1 \in 1..Len(table) /\ j + 1 \in 1..Len(table) /\ i + 1 <= j + 1
    BY <1>1
  <1>3. table[i + 1] \in [addr : Nat, size : Nat, name : Names]
    BY <1>2, ElementOfSeq DEF IsTable
  <1>4. table[j + 1] \in [addr : Nat, size : Nat, name : Names]
    BY <1>2, ElementOfSeq DEF IsTable
  <1>. QED
    BY <1>2, <1>3, <1>4 DEF IsTable, Addr

(* The middle of what remains is in it.                                    *)
LEMMA MiddleWithin ==
    ASSUME NEW l \in Nat, NEW h \in Nat, l <= h
    PROVE  l + ((h - l) \div 2) \in l..h
  <1>. DEFINE d == h - l
  <1>1. d \in Nat /\ h = l + d
    OBVIOUS
  <1>2. d \div 2 \in 0..d
    <2>. HIDE DEF d
    <2>. QED  BY <1>1
  <1>. QED
    BY <1>1, <1>2

(* The loop starts with the whole table.                                   *)
LEMMA LookupStarts ==
    ASSUME LookupInv, NEW a \in Nat, sym_table_lookup(a)
    PROVE  LookupInv'
  <1>1. Len(table) \in Nat
    BY DEF LookupInv, LookupTypes, IsTable
  <1>2. LookupTypes'
    BY <1>1 DEF LookupInv, LookupTypes, IsTable, sym_table_lookup
  <1>3. SearchInvariant'
    BY <1>1 DEF SearchInvariant, sym_table_lookup, Addr
  <1>. QED
    BY <1>2, <1>3 DEF LookupInv, sym_table_lookup

(* A turn of the loop keeps both halves on their sides of the address.     *)
LEMMA ProbeKeeps ==
    ASSUME LookupInv, Probe
    PROVE  LookupInv'
  <1>. DEFINE mid == lo + ((hi - lo) \div 2)
  <1>1. /\ pc = "search" /\ lo <= hi /\ IsTable(table)
        /\ ip \in Nat /\ lo \in Int /\ hi \in Int /\ best \in Int
        /\ UNCHANGED <<table, pc, ip>>
    BY DEF LookupInv, LookupTypes, Probe
  <1>2. /\ Len(table) \in Nat /\ 0 <= lo /\ hi < Len(table) /\ best = lo - 1
        /\ \A i \in 0..(lo - 1) : Addr(i) <= ip
        /\ \A i \in (hi + 1)..(Len(table) - 1) : Addr(i) > ip
    BY <1>1 DEF LookupInv, SearchInvariant, IsTable
  <1>3. mid \in lo..hi
    BY <1>1, <1>2, MiddleWithin
  <1>4. \/ Addr(mid) <= ip /\ best' = mid /\ lo' = mid + 1 /\ hi' = hi
        \/ Addr(mid) > ip /\ hi' = mid - 1 /\ lo' = lo /\ best' = best
    BY DEF Probe
  <1>. HIDE DEF mid
  <1>5. LookupTypes'
    <2>1. IsTable(table')  BY <1>1
    <2>2. ip' \in Nat /\ pc' = "search" /\ lo' \in Int /\ hi' \in Int /\ best' \in Int
      BY <1>1, <1>3, <1>4
    <2>. QED
      BY <2>1, <2>2 DEF LookupTypes
  <1>6. CASE Addr(mid) <= ip /\ best' = mid /\ lo' = mid + 1 /\ hi' = hi
    <2>1. \A i \in 0..mid : Addr(i) <= ip
      <3>1. TAKE i \in 0..mid
      <3>2. Addr(i) \in Nat /\ Addr(mid) \in Nat /\ Addr(i) <= Addr(mid)
        BY <1>1, <1>2, <1>3, EntriesOrdered
      <3>. QED
        BY <1>1, <1>6, <3>2
    <2>2. SearchInvariant'
      BY <1>1, <1>2, <1>3, <1>6, <2>1 DEF SearchInvariant, Addr
    <2>. QED
      BY <1>1, <1>5, <2>2 DEF LookupInv
  <1>7. CASE Addr(mid) > ip /\ hi' = mid - 1 /\ lo' = lo /\ best' = best
    <2>1. \A i \in mid..(Len(table) - 1) : Addr(i) > ip
      <3>1. TAKE i \in mid..(Len(table) - 1)
      <3>2. Addr(i) \in Nat /\ Addr(mid) \in Nat /\ Addr(mid) <= Addr(i)
        BY <1>1, <1>2, <1>3, EntriesOrdered
      <3>. QED
        BY <1>1, <1>7, <3>2
    <2>2. SearchInvariant'
      BY <1>1, <1>2, <1>3, <1>7, <2>1 DEF SearchInvariant, Addr
    <2>. QED
      BY <1>1, <1>5, <2>2 DEF LookupInv
  <1>. QED
    BY <1>4, <1>6, <1>7

(* The other steps leave the search alone, end it or forget it.            *)
LEMMA OtherStepsKeep ==
    ASSUME LookupInv, Install \/ LookupDone \/ LookupReturn
    PROVE  LookupInv'
  <1>1. CASE Install
    BY <1>1 DEF Install, search, LookupInv, LookupTypes, SearchInvariant
  <1>2. CASE LookupDone
    BY <1>2 DEF LookupDone, LookupInv, LookupTypes, SearchInvariant, Addr
  <1>3. CASE LookupReturn
    BY <1>3 DEF LookupReturn, LookupInv, LookupTypes, SearchInvariant
  <1>. QED
    BY <1>1, <1>2, <1>3

(* Steps that leave the table and the search alone.                        *)
LEMMA StutterKeeps ==
    ASSUME LookupInv, UNCHANGED <<table, search>>
    PROVE  LookupInv'
  BY DEF search, LookupInv, LookupTypes, SearchInvariant, Addr

(* The invariant of the binary search in sym_table_lookup (symbols.c).     *)
THEOREM SearchInvariance == LookupSpec => []LookupInv
  <1>1. LookupInit => LookupInv
    BY DEF LookupInit, LookupInv, LookupTypes, SearchInvariant, IsTable
  <1>2. LookupInv /\ [LookupNext]_<<table, search>> => LookupInv'
    BY LookupStarts, ProbeKeeps, OtherStepsKeep, StutterKeeps DEF LookupNext
  <1>. QED
    BY <1>1, <1>2, PTL DEF LookupSpec

(* sym_table_lookup finds the last entry at or below the address.          *)
THEOREM LookupFindsLast == LookupSpec => []FindsLast
  <1>1. LookupInv => FindsLast
    <2>. SUFFICES ASSUME LookupInv, pc = "found"
                  PROVE  FindsLast
      BY DEF FindsLast
    <2>1. /\ Len(table) \in Nat /\ ip \in Nat /\ lo \in Int /\ hi \in Int
          /\ 0 <= lo /\ lo = hi + 1 /\ hi < Len(table) /\ best = lo - 1
          /\ \A i \in 0..(lo - 1) : Addr(i) <= ip
          /\ \A i \in (hi + 1)..(Len(table) - 1) : Addr(i) > ip
      BY DEF LookupInv, LookupTypes, SearchInvariant, IsTable
    <2>2. ASSUME NEW i \in 0..(Len(table) - 1), Addr(i) <= ip, ~(i <= best)
          PROVE  FALSE
      <3>1. Addr(i) > ip
        BY <2>1, <2>2
      <3>2. Addr(i) \in Nat
        BY <2>1, EntriesOrdered DEF LookupInv, LookupTypes
      <3>. QED
        BY <2>1, <2>2, <3>1, <3>2
    <2>. QED
      BY <2>1, <2>2 DEF FindsLast
  <1>. QED
    BY <1>1, SearchInvariance, PTL

-----------------------------------------------------------------------------
(* The inductive invariant.                                                *)

Types   == {"EXEC", "MMAP", "KERNEL"}
Section == [type : Types, path : Paths, base_addr : Nat, load_addr : Nat]
Entry   == [addr : Nat, size : Nat, name : Names]
Base(p) == elf_base_vaddr(p) + slide[p]

TypeInv ==
    /\ mode \in {"exec", "trace"} /\ main \in Mains /\ execs \in Nat
    /\ slide \in [Paths -> Slides \cup {0, -1}] /\ reported \in [Paths -> Nat]
    /\ sections \in Seq(Section)
    /\ phase \in {"setup", "trace", "stopped", "build", "ready", "exit"}

(* A file is nowhere or at one of its slides.                              *)
SlideInv ==
    /\ slide[KernelPath] = 0
    /\ \A p \in Mains : slide[p] \in SlidesOf(p) \cup {-1}
    /\ \A p \in Libs \cup {Interp} : slide[p] \in Slides \cup {-1}
    /\ mode = "trace" /\ execs = 0 => slide[main] # -1

(* What a section says is so.                                              *)
SectionTrue(i) ==
    LET s == sections[i]
    IN  \/ /\ s.type = "EXEC" /\ i = 1 /\ s.path \in Mains
           /\ slide[s.path] # -1 /\ s.load_addr = slide[s.path]
           /\ Elf[s.path].interp =>
                 /\ slide[Interp] \in Slides \ {slide[s.path]}
                 /\ s.base_addr = Base(Interp)
        \/ /\ s.type = "MMAP" /\ s.path # KernelPath /\ slide[s.path] # -1
           /\ reported[s.path] > 0
           /\ \E n \in Segments(s.path) :
                 s.load_addr = trunc_page(Elf[s.path].loads[n].vaddr) + slide[s.path]
        \/ /\ s.type = "KERNEL" /\ s.path = KernelPath
           /\ s.load_addr = elf_base_vaddr(KernelPath)

SectionInv == \A i \in DOMAIN sections : SectionTrue(i)

(* The sections that name file p: by an EXEC record, by the mapping of its *)
(* first executable segment, or as the interpreter of an EXEC record.      *)
Executed(p) == \E i \in DOMAIN sections : sections[i].type = "EXEC" /\ sections[i].path = p
FirstMapped(p) ==
    \E i \in DOMAIN sections :
       /\ sections[i].type = "MMAP" /\ sections[i].path = p
       /\ sections[i].load_addr = elf_exec_map_vaddr(p) + slide[p]
Interprets ==
    \E i \in DOMAIN sections : sections[i].type = "EXEC" /\ Elf[sections[i].path].interp

NamedInv ==
    /\ \A p \in Paths : reported[p] > 0 => FirstMapped(p)
    /\ phase \notin {"setup", "exit"} =>
         /\ \A p \in Mapped \cap Mains : Executed(p) \/ FirstMapped(p)
         /\ Interp \in Mapped => Interprets \/ FirstMapped(Interp)

(* What there is in each phase.                                            *)
PhaseInv ==
    /\ phase = "setup" => /\ sections = <<>> /\ execs = 0
                          /\ \A p \in Paths : reported[p] = 0
                          /\ mode = "exec" => slide = Nowhere
    /\ phase # "trace" => filter = <<>>
    /\ phase \notin {"build", "ready", "exit"} => next = 1 /\ image = {} /\ syms = <<>>
    /\ phase # "ready" => pc = "idle"
    /\ phase # "stopped" => saved = <<>>

(* The ranges of the filter are those of the file at its slide.            *)
FilterInv ==
    \A i \in DOMAIN filter :
       /\ mode = "exec" => /\ ~Elf[main].pie
                           /\ filter[i].to = resolve_symbol_in_elf(filter[i].sym, 0)
       /\ mode = "trace" /\ execs = 0 =>
             filter[i].to = resolve_symbol_in_elf(filter[i].sym,
                               (elf_exec_map_vaddr(main) + slide[main]) - elf_base_vaddr(main))

SavedInv == saved # <<>> => saved \in Outcomes /\ saved.of.works = Probes
                            /\ (sections # <<>> => saved.of.nsections = 1)

(* The image and the symbols are those of the sections before next.        *)
ImageOf(i) ==
    UNION {add_elf_to_image(Contributes(sections, i)[k].path, Contributes(sections, i)[k].load) :
             k \in DOMAIN Contributes(sections, i)}
SymsOf(i) ==
    UNION {Range(sym_table_add_elf(Contributes(sections, i)[k].path,
                                   Contributes(sections, i)[k].load)) :
             k \in DOMAIN Contributes(sections, i)}
BuildInv ==
    /\ phase \in {"build", "ready"} =>
         /\ next \in 1..(Len(sections) + 1)
         /\ image = UNION {ImageOf(i) : i \in 1..(next - 1)}
         /\ syms \in Seq(Entry)
         /\ Range(syms) = UNION {SymsOf(i) : i \in 1..(next - 1)}
    /\ phase = "ready" =>
         next = Len(sections) + 1 /\ IsTable(table) /\ Range(table) = Range(syms)

IInv == /\ TypeInv /\ SlideInv /\ SectionInv /\ NamedInv /\ PhaseInv
        /\ FilterInv /\ SavedInv /\ BuildInv

-----------------------------------------------------------------------------
(* Page addresses.                                                         *)

(* A page address is at most the address, and keeps the order.             *)
LEMMA TruncPage ==
    ASSUME NEW a \in Nat
    PROVE  /\ trunc_page(a) \in Nat /\ trunc_page(a) <= a
           /\ \E q \in Int : trunc_page(a) = PageSize * q /\ a < PageSize * q + PageSize
  <1> DEFINE r == a % PageSize
             q == a \div PageSize
  <1>1. PageSize \in Nat \ {0}  BY ImageAssumption
  <1>2. r \in 0..(PageSize - 1) /\ q \in Int /\ a = PageSize * q + r  BY <1>1, Z3
  <1>3. trunc_page(a) = a - r  BY DEF trunc_page
  <1> HIDE DEF r, q
  <1> DEFINE k == PageSize * q
  <1>4. k \in Int  BY <1>1, <1>2
  <1>5. a = k + r  BY <1>2
  <1>6. q >= 0
    <2> SUFFICES ASSUME q <= -1 PROVE FALSE  BY <1>2
    <2>1. PageSize * q <= -PageSize  BY <1>1, <1>2, Z3
    <2> QED  BY <2>1, <1>1, <1>2, <1>4, <1>5
  <1>7. k >= 0  BY <1>6, <1>1, <1>2, Z3
  <1> HIDE DEF k
  <1>8. trunc_page(a) = k /\ k \in Nat /\ k <= a /\ a < k + PageSize
    BY <1>1, <1>2, <1>3, <1>4, <1>5, <1>7
  <1> QED  BY <1>2, <1>8 DEF k

(* trunc_page keeps the order of addresses.                                *)
LEMMA TruncMonotone ==
    ASSUME NEW a \in Nat, NEW b \in Nat, a <= b
    PROVE  trunc_page(a) <= trunc_page(b)
  <1> DEFINE ta == trunc_page(a)
             tb == trunc_page(b)
  <1>1. PageSize \in Nat \ {0}  BY ImageAssumption
  <1>2. ta \in Nat /\ ta <= a  BY TruncPage
  <1>3. PICK p \in Int : ta = PageSize * p  BY TruncPage
  <1>4. tb \in Nat  BY TruncPage
  <1>5. PICK q \in Int : tb = PageSize * q /\ b < PageSize * q + PageSize  BY TruncPage
  <1> HIDE DEF ta, tb
  <1>6. SUFFICES ASSUME tb < ta PROVE FALSE  BY <1>2, <1>4 DEF ta, tb
  <1>7. q < p
    <2> SUFFICES ASSUME p <= q PROVE FALSE  BY <1>3, <1>5
    <2>1. PageSize * p <= PageSize * q  BY <1>1, <1>3, <1>5, Z3
    <2> QED  BY <2>1, <1>2, <1>3, <1>4, <1>5, <1>6
  <1>8. PageSize * q + PageSize <= PageSize * p
    <2>1. q + 1 <= p  BY <1>3, <1>5, <1>7
    <2>2. PageSize * (q + 1) <= PageSize * p  BY <1>1, <1>3, <1>5, <2>1, Z3
    <2>3. PageSize * (q + 1) = PageSize * q + PageSize  BY <1>1, <1>5, Z3
    <2> QED  BY <2>2, <2>3
  <1>9. b < ta  BY <1>1, <1>2, <1>3, <1>5, <1>8
  <1> QED  BY <1>2, <1>9

-----------------------------------------------------------------------------
(* sym_table_sort.                                                         *)

(* The entries at or before entry i.                                       *)
Before(t, i) == {j \in DOMAIN t : t[j].addr < t[i].addr \/ (t[j].addr = t[i].addr /\ j <= i)}

(* The place of an entry is an index of the table.                         *)
LEMMA PlaceBounds ==
    ASSUME NEW t \in Seq(Entry), NEW i \in 1..Len(t)
    PROVE  /\ IsFiniteSet(Before(t, i)) /\ Place(t, i) = Cardinality(Before(t, i))
           /\ Place(t, i) \in 1..Len(t)
  <1> DEFINE n == Len(t)
  <1>1. n \in Nat /\ DOMAIN t = 1..n  OBVIOUS
  <1>2. IsFiniteSet(1..n) /\ Cardinality(1..n) = n
    BY <1>1, FS_Interval
  <1>3. Before(t, i) \in SUBSET (1..n)  BY <1>1 DEF Before
  <1>4. IsFiniteSet(Before(t, i)) /\ Cardinality(Before(t, i)) <= n
    BY <1>2, <1>3, FS_Subset
  <1>5. i \in Before(t, i)  BY <1>1 DEF Before
  <1>6. Cardinality(Before(t, i)) \in Nat /\ Cardinality(Before(t, i)) # 0
    BY <1>4, <1>5, FS_CardinalityType, FS_EmptySet
  <1>7. Place(t, i) = Cardinality(Before(t, i))  BY DEF Place, Before
  <1> QED  BY <1>1, <1>4, <1>6, <1>7

(* Places are ordered as the addresses.                                    *)
LEMMA PlaceOrder ==
    ASSUME NEW t \in Seq(Entry), NEW i \in 1..Len(t), NEW j \in 1..Len(t), i # j,
           t[i].addr < t[j].addr \/ (t[i].addr = t[j].addr /\ i <= j)
    PROVE  Place(t, i) < Place(t, j)
  <1>0. Len(t) \in Nat /\ DOMAIN t = 1..Len(t)  OBVIOUS
  <1>1. \A k \in 1..Len(t) : t[k].addr \in Nat
    <2>1. \A k \in 1..Len(t) : t[k] \in Entry  BY ElementOfSeq
    <2> QED  BY <2>1 DEF Entry
  <1>2. Before(t, i) \in SUBSET Before(t, j)  BY <1>0, <1>1 DEF Before
  <1>3. j \in Before(t, j) /\ j \notin Before(t, i)  BY <1>0, <1>1 DEF Before
  <1>4. IsFiniteSet(Before(t, j)) /\ Place(t, j) = Cardinality(Before(t, j))
        /\ Place(t, i) = Cardinality(Before(t, i))
    BY PlaceBounds
  <1>5. Cardinality(Before(t, i)) <= Cardinality(Before(t, j))
        /\ Cardinality(Before(t, i)) # Cardinality(Before(t, j))
    BY <1>2, <1>3, <1>4, FS_Subset
  <1>6. Place(t, i) \in 1..Len(t) /\ Place(t, j) \in 1..Len(t)  BY PlaceBounds
  <1> QED  BY <1>0, <1>4, <1>5, <1>6

(* Every place is that of one entry.                                       *)
LEMMA PlaceIsPermutation ==
    ASSUME NEW t \in Seq(Entry)
    PROVE  /\ \A i, j \in 1..Len(t) : Place(t, i) = Place(t, j) => i = j
           /\ \A k \in 1..Len(t) : \E i \in 1..Len(t) : Place(t, i) = k
  <1> DEFINE D == 1..Len(t)
             f == [i \in D |-> Place(t, i)]
  <1>0. Len(t) \in Nat  OBVIOUS
  <1>1. \A k \in D : t[k].addr \in Nat
    <2>1. \A k \in D : t[k] \in Entry  BY ElementOfSeq
    <2> QED  BY <2>1 DEF Entry
  <1>2. ASSUME NEW i \in D, NEW j \in D, Place(t, i) = Place(t, j), i # j PROVE FALSE
    <2>1. Place(t, i) \in 1..Len(t) /\ Place(t, j) \in 1..Len(t)  BY PlaceBounds
    <2>2. CASE t[i].addr < t[j].addr \/ (t[i].addr = t[j].addr /\ i <= j)
      <3>1. Place(t, i) < Place(t, j)  BY <1>2, <2>2, PlaceOrder
      <3> QED  BY <3>1, <2>1, <1>2, <1>0
    <2>3. CASE t[j].addr < t[i].addr \/ (t[j].addr = t[i].addr /\ j <= i)
      <3>1. Place(t, j) < Place(t, i)  BY <1>2, <2>3, PlaceOrder
      <3> QED  BY <3>1, <2>1, <1>2, <1>0
    <2> QED  BY <2>2, <2>3, <1>0, <1>1
  <1>3. f \in [D -> D]  BY PlaceBounds
  <1>4. \A i, j \in D : f[i] = f[j] => i = j  BY <1>2
  <1>5. IsFiniteSet(D)  BY <1>0, FS_Interval
  <1>6. \A k \in D : \E i \in D : f[i] = k
    <2> HIDE DEF f, D
    <2>1. f \in Injection(D, D)  BY <1>3, <1>4 DEF Injection, IsInjective
    <2>2. f \in Surjection(D, D)  BY <2>1, <1>5, FS_Injection
    <2> QED  BY <2>2 DEF Surjection
  <1> QED  BY <1>2, <1>6

(* sym_table_sort orders the entries, and keeps them all.                  *)
LEMMA SortIsTable ==
    ASSUME NEW t \in Seq(Entry)
    PROVE  IsTable(sym_table_sort(t)) /\ Range(sym_table_sort(t)) = Range(t)
  <1> DEFINE D == 1..Len(t)
             g(k) == CHOOSE i \in D : Place(t, i) = k
             u == [k \in D |-> t[g(k)]]
  <1>0. Len(t) \in Nat /\ DOMAIN t = D  OBVIOUS
  <1>1. \A k \in D : g(k) \in D /\ Place(t, g(k)) = k  BY PlaceIsPermutation
  <1>2. \A k \in D : t[k] \in Entry  BY ElementOfSeq
  <1>3. \A k \in D : t[k].addr \in Nat  BY <1>2 DEF Entry
  <1>4. sym_table_sort(t) = u  BY <1>0 DEF sym_table_sort
  <1>5. \A k \in D : u[k] = t[g(k)]  OBVIOUS
  <1>6. u \in Seq(Entry) /\ Len(u) = Len(t) /\ DOMAIN u = D
    BY <1>0, <1>1, <1>2
  <1>7. ASSUME NEW i \in D, NEW j \in D, i <= j PROVE u[i].addr <= u[j].addr
    <2> DEFINE a == g(i)
               b == g(j)
    <2>1. /\ a \in D /\ b \in D /\ Place(t, a) = i /\ Place(t, b) = j
          /\ u[i] = t[a] /\ u[j] = t[b]
      BY <1>1, <1>5
    <2>2. t[a].addr \in Nat /\ t[b].addr \in Nat  BY <2>1, <1>3
    <2> HIDE DEF u, a, b
    <2>3. SUFFICES ASSUME t[b].addr < t[a].addr PROVE FALSE  BY <2>1, <2>2
    <2>4. a # b  BY <2>2, <2>3
    <2>5. Place(t, b) < Place(t, a)  BY <2>1, <2>3, <2>4, PlaceOrder
    <2> QED  BY <2>5, <2>1, <1>0, <1>7
  <1>8. Range(u) = Range(t)
    <2>1. \A i \in D : \E k \in D : g(k) = i
      <3> TAKE i \in D
      <3>1. Place(t, i) \in D  BY PlaceBounds
      <3>2. g(Place(t, i)) \in D /\ Place(t, g(Place(t, i))) = Place(t, i)  BY <3>1, <1>1
      <3>3. g(Place(t, i)) = i  BY <3>2, PlaceIsPermutation
      <3> QED  BY <3>1, <3>3
    <2> HIDE DEF u, g
    <2> QED  BY <1>0, <1>1, <1>5, <1>6, <2>1 DEF Range
  <1> HIDE DEF u
  <1> QED  BY <1>4, <1>6, <1>7, <1>8 DEF IsTable, Entry

(* A reversed sequence has the same elements.                              *)
LEMMA ReverseRange ==
    ASSUME NEW L, NEW t \in Seq(L)
    PROVE  Reverse(t) \in Seq(L) /\ Range(Reverse(t)) = Range(t)
  <1> DEFINE n == Len(t)
             r == Reverse(t)
  <1>1. n \in Nat /\ DOMAIN t = 1..n /\ \A i \in 1..n : t[i] \in L  OBVIOUS
  <1>2. r = [i \in 1..n |-> t[(n - i) + 1]]  BY DEF Reverse
  <1>3. \A i \in 1..n : (n - i) + 1 \in 1..n /\ (n - ((n - i) + 1)) + 1 = i  BY <1>1
  <1>4. r \in Seq(L) /\ DOMAIN r = 1..n /\ \A i \in 1..n : r[i] = t[(n - i) + 1]
    BY <1>1, <1>2, <1>3
  <1> HIDE DEF n, r
  <1>5. Range(r) = Range(t)  BY <1>1, <1>3, <1>4 DEF Range
  <1> QED  BY <1>4, <1>5 DEF r

-----------------------------------------------------------------------------
(* Files.                                                                  *)

Load == [vaddr : Nat, filesz : Nat, exec : BOOLEAN]

(* What a file consists of.                                                *)
LEMMA ElfFields ==
    ASSUME NEW p \in Paths
    PROVE  /\ Elf[p].loads \in Seq(Load) /\ Elf[p].syms \in Seq(Entry)
           /\ Len(Elf[p].loads) \in Nat /\ DOMAIN Elf[p].loads = 1..Len(Elf[p].loads)
           /\ Len(Elf[p].syms) \in Nat /\ DOMAIN Elf[p].syms = 1..Len(Elf[p].syms)
  <1>1. Elf[p].loads \in Seq(Load) /\ Elf[p].syms \in Seq(Entry)
    BY ElfAssumption, Zenon DEF ElfAssumption, Load, Entry
  <1> QED  BY <1>1, LenProperties

LEMMA LoadFields ==
    ASSUME NEW p \in Paths, NEW n \in DOMAIN Elf[p].loads
    PROVE  Elf[p].loads[n].vaddr \in Nat /\ Elf[p].loads[n].filesz \in Nat
  <1>1. Elf[p].loads[n] \in Load  BY ElfFields, ElementOfSeq
  <1> QED  BY <1>1 DEF Load

LEMMA SymFields ==
    ASSUME NEW p \in Paths, NEW n \in DOMAIN Elf[p].syms
    PROVE  /\ Elf[p].syms[n].addr \in Nat /\ Elf[p].syms[n].size \in Nat
           /\ Elf[p].syms[n].name \in Names /\ Elf[p].syms[n].name[1] = p
  <1>1. Elf[p].syms[n] \in Entry  BY ElfFields, ElementOfSeq
  <1>2. Elf[p].syms[n].name[1] = p  BY ElfAssumption DEF ElfAssumption
  <1> QED  BY <1>1, <1>2 DEF Entry

(* The first executable header.                                            *)
LEMMA FirstSegment ==
    ASSUME NEW p \in Paths
    PROVE  /\ Segments(p) \subseteq DOMAIN Elf[p].loads /\ Segments(p) \subseteq Nat \ {0}
           /\ Min(Segments(p)) \in Segments(p)
           /\ \A n \in Segments(p) : Min(Segments(p)) <= n
  <1>1. Segments(p) \subseteq DOMAIN Elf[p].loads  BY DEF Segments
  <1>2. Segments(p) \subseteq Nat \ {0}  BY <1>1, ElfFields
  <1>3. Segments(p) # {}  BY ElfAssumption DEF ElfAssumption, Segments
  <1>4. Segments(p) \subseteq Nat  BY <1>2
  <1> QED  BY <1>1, <1>2, <1>3, <1>4, MinIsLeast

(* The executable headers, by their indices.                               *)
LEMMA LoadsOfSegments ==
    ASSUME NEW p \in Paths
    PROVE  ExecLoads(p) = {Elf[p].loads[n] : n \in Segments(p)}
  BY DEF ExecLoads, Segments, Range

(* Base addresses.                                                         *)
LEMMA BaseType ==
    ASSUME NEW p \in Paths
    PROVE  /\ elf_base_vaddr(p) \in Nat /\ trunc_page(elf_base_vaddr(p)) = elf_base_vaddr(p)
           /\ 1 \in DOMAIN Elf[p].loads
  <1>1. Min(Segments(p)) \in 1..Len(Elf[p].loads)  BY FirstSegment, ElfFields
  <1>2. 1 \in DOMAIN Elf[p].loads  BY <1>1, ElfFields
  <1>3. elf_base_vaddr(p) \in Nat  BY <1>2, LoadFields DEF elf_base_vaddr
  <1>4. elf_base_vaddr(p) % PageSize = 0  BY ElfAssumption DEF ElfAssumption, elf_base_vaddr
  <1>5. trunc_page(elf_base_vaddr(p)) = elf_base_vaddr(p) - 0  BY <1>4 DEF trunc_page
  <1> QED  BY <1>2, <1>3, <1>5

(* elf_exec_map_vaddr is the page of the first executable header, and no   *)
(* other is below.                                                         *)
LEMMA ExecMap ==
    ASSUME NEW p \in Paths
    PROVE  /\ elf_exec_map_vaddr(p) = trunc_page(Elf[p].loads[Min(Segments(p))].vaddr)
           /\ elf_exec_map_vaddr(p) \in Nat
           /\ \A n \in Segments(p) : /\ trunc_page(Elf[p].loads[n].vaddr) \in Nat
                                     /\ elf_exec_map_vaddr(p) <= trunc_page(Elf[p].loads[n].vaddr)
  <1> DEFINE v(n) == Elf[p].loads[n].vaddr
             S == {trunc_page(l.vaddr) : l \in ExecLoads(p)}
             f == Min(Segments(p))
  <1>1. f \in Segments(p) /\ \A n \in Segments(p) : f <= n  BY FirstSegment
  <1>2. \A n \in Segments(p) : n \in DOMAIN Elf[p].loads /\ v(n) \in Nat
    BY FirstSegment, LoadFields
  <1>3. \A n \in Segments(p) : trunc_page(v(n)) \in Nat  BY <1>2, TruncPage
  <1> HIDE DEF f
  <1>4. \A n \in Segments(p) : v(f) <= v(n)
    BY <1>1, <1>2, ElfAssumption DEF ElfAssumption
  <1>5. \A n \in Segments(p) : trunc_page(v(f)) <= trunc_page(v(n))
    BY <1>1, <1>2, <1>4, TruncMonotone
  <1>6. S = {trunc_page(v(n)) : n \in Segments(p)}  BY LoadsOfSegments
  <1> DEFINE m == trunc_page(v(f))
  <1>7. m \in S /\ S \subseteq Nat /\ \A y \in S : m <= y
    BY <1>1, <1>3, <1>5, <1>6
  <1>8. Min(S) = m
    <2> HIDE DEF m, S
    <2> QED  BY <1>7, LeastIs
  <1> QED  BY <1>1, <1>3, <1>5, <1>8 DEF elf_exec_map_vaddr, f

-----------------------------------------------------------------------------
(* The segments and the functions of a file moved by a slide.              *)
Segment == [path : Paths, lo : Int, hi : Int]

SegmentsAt(p, s) ==
    {[path |-> p, lo |-> l.vaddr + s, hi |-> l.vaddr + l.filesz + s] : l \in ExecLoads(p)}
FunctionsAt(p, s) ==
    {[addr |-> f.addr + s, size |-> f.size, name |-> f.name] :
       f \in {g \in Range(Elf[p].syms) : g.addr # 0}}

(* add_elf_to_image at the address that belongs to a slide.                *)
LEMMA ImageAtSlide ==
    ASSUME NEW p \in Paths, NEW s \in Nat
    PROVE  add_elf_to_image(p, elf_base_vaddr(p) + s) = SegmentsAt(p, s)
  <1>1. (elf_base_vaddr(p) + s) - elf_base_vaddr(p) = s  BY BaseType
  <1> QED  BY <1>1 DEF add_elf_to_image, SegmentsAt, Moved

(* file_ranges has the same segments, in order.                            *)
LEMMA FileRanges ==
    ASSUME NEW p \in Paths, NEW s \in Nat
    PROVE  /\ file_ranges(p, elf_base_vaddr(p) + s) \in Seq(Segment)
           /\ Range(file_ranges(p, elf_base_vaddr(p) + s)) = SegmentsAt(p, s)
  <1> DEFINE at == elf_base_vaddr(p) + s
             D  == DOMAIN Elf[p].loads
             m(n) == Moved(p, at, Elf[p].loads[n])
             ss == [n \in D |-> IF n \in Segments(p) THEN <<m(n)>> ELSE <<>>]
  <1>1. at - elf_base_vaddr(p) = s  BY BaseType
  <1>2. \A n \in D : m(n) = [path |-> p, lo |-> Elf[p].loads[n].vaddr + s,
                             hi |-> Elf[p].loads[n].vaddr + Elf[p].loads[n].filesz + s]
    BY <1>1 DEF Moved
  <1>3. \A n \in D : m(n) \in Segment
    <2> TAKE n \in D
    <2>1. Elf[p].loads[n].vaddr \in Nat /\ Elf[p].loads[n].filesz \in Nat  BY LoadFields
    <2>2. /\ Elf[p].loads[n].vaddr + s \in Int
          /\ Elf[p].loads[n].vaddr + Elf[p].loads[n].filesz + s \in Int
      BY <2>1
    <2> HIDE DEF m
    <2> QED  BY <1>2, <2>2 DEF Segment
  <1> HIDE DEF m
  <1>4. ss \in Seq(Seq(Segment)) /\ DOMAIN ss = D
    <2>1. \A n \in D : <<m(n)>> \in Seq(Segment)  BY <1>3
    <2>2. \A n \in D : (IF n \in Segments(p) THEN <<m(n)>> ELSE <<>>) \in Seq(Segment)
      BY <2>1
    <2>3. D = 1..Len(Elf[p].loads) /\ Len(Elf[p].loads) \in Nat  BY ElfFields
    <2> HIDE DEF D
    <2> QED  BY <2>2, <2>3
  <1>5. FlattenSeq(ss) \in Seq(Segment) /\ Range(FlattenSeq(ss)) = UNION {Range(ss[i]) : i \in D}
    <2> HIDE DEF ss
    <2> QED  BY <1>4, FlattenRange DEF Flattens
  <1>6. \A n \in D : Range(ss[n]) = IF n \in Segments(p) THEN {m(n)} ELSE {}
    <2>1. \A x : Range(<<x>>) = {x}  BY DEF Range
    <2>2. Range(<<>>) = {}  BY DEF Range
    <2> QED  BY <2>1, <2>2
  <1>7. Segments(p) \subseteq D  BY FirstSegment
  <1>8. UNION {Range(ss[i]) : i \in D} = {m(n) : n \in Segments(p)}
    <2> HIDE DEF ss, D
    <2> QED  BY <1>6, <1>7
  <1>9. SegmentsAt(p, s) = {m(n) : n \in Segments(p)}
    BY <1>2, <1>7, LoadsOfSegments DEF SegmentsAt
  <1>10. file_ranges(p, at) = FlattenSeq(ss)  BY DEF file_ranges, m
  <1> HIDE DEF at, ss
  <1>11. file_ranges(p, at) \in Seq(Segment) /\ Range(file_ranges(p, at)) = SegmentsAt(p, s)
    BY <1>5, <1>8, <1>9, <1>10
  <1> QED  BY <1>11 DEF at

(* sym_table_add_elf adds the functions at the slide.                      *)
LEMMA FileFunctions ==
    ASSUME NEW p \in Paths, NEW s \in Nat
    PROVE  /\ sym_table_add_elf(p, elf_base_vaddr(p) + s) \in Seq(Entry)
           /\ Range(sym_table_add_elf(p, elf_base_vaddr(p) + s)) = FunctionsAt(p, s)
  <1> DEFINE at == elf_base_vaddr(p) + s
             D  == DOMAIN Elf[p].syms
             f(n) == Elf[p].syms[n]
             m(n) == [addr |-> f(n).addr + (at - elf_base_vaddr(p)),
                      size |-> f(n).size, name |-> f(n).name]
             ss == [n \in D |-> IF f(n).addr = 0 THEN <<>> ELSE <<m(n)>>]
  <1>1. at - elf_base_vaddr(p) = s  BY BaseType
  <1>2. \A n \in D : m(n) = [addr |-> f(n).addr + s, size |-> f(n).size, name |-> f(n).name]
    BY <1>1
  <1>3. \A n \in D : m(n) \in Entry
    <2> TAKE n \in D
    <2>1. f(n).addr \in Nat /\ f(n).size \in Nat /\ f(n).name \in Names  BY SymFields
    <2>2. f(n).addr + s \in Nat  BY <2>1
    <2> HIDE DEF m
    <2> QED  BY <1>2, <2>1, <2>2 DEF Entry
  <1>10. sym_table_add_elf(p, at) = FlattenSeq(ss)  BY DEF sym_table_add_elf
  <1> HIDE DEF m
  <1>4. ss \in Seq(Seq(Entry)) /\ DOMAIN ss = D
    <2>1. \A n \in D : <<m(n)>> \in Seq(Entry)  BY <1>3
    <2>2. \A n \in D : (IF f(n).addr = 0 THEN <<>> ELSE <<m(n)>>) \in Seq(Entry)
      BY <2>1
    <2>3. D = 1..Len(Elf[p].syms) /\ Len(Elf[p].syms) \in Nat  BY ElfFields
    <2> HIDE DEF D
    <2> QED  BY <2>2, <2>3
  <1>5. FlattenSeq(ss) \in Seq(Entry) /\ Range(FlattenSeq(ss)) = UNION {Range(ss[i]) : i \in D}
    <2> HIDE DEF ss
    <2> QED  BY <1>4, FlattenRange DEF Flattens
  <1>6. \A n \in D : Range(ss[n]) = IF f(n).addr = 0 THEN {} ELSE {m(n)}
    <2>1. \A x : Range(<<x>>) = {x}  BY DEF Range
    <2>2. Range(<<>>) = {}  BY DEF Range
    <2> QED  BY <2>1, <2>2
  <1>8. UNION {Range(ss[i]) : i \in D} = {m(n) : n \in {k \in D : f(k).addr # 0}}
    <2> HIDE DEF ss, D
    <2> QED  BY <1>6
  <1>9. FunctionsAt(p, s) = {m(n) : n \in {k \in D : f(k).addr # 0}}
    BY <1>2 DEF FunctionsAt, Range
  <1> HIDE DEF at, ss
  <1>11. /\ sym_table_add_elf(p, at) \in Seq(Entry)
         /\ Range(sym_table_add_elf(p, at)) = FunctionsAt(p, s)
    BY <1>5, <1>8, <1>9, <1>10
  <1> QED  BY <1>11 DEF at

-----------------------------------------------------------------------------
(* What build_pt_image makes of the sections.                              *)

(* What the sections say of the process.                                   *)
Reported == TypeInv /\ SlideInv /\ SectionInv /\ NamedInv

(* A file that is mapped has a slide and a base address.                   *)
LEMMA SlideType ==
    ASSUME TypeInv, NEW p \in Paths
    PROVE  slide[p] # -1 => slide[p] \in Nat /\ Base(p) \in Nat
  <1>1. slide[p] \in Slides \cup {0, -1}  BY DEF TypeInv
  <1>2. Slides \subseteq Nat  BY ImageAssumption
  <1>3. elf_base_vaddr(p) \in Nat  BY BaseType
  <1>4. slide[p] \in Nat \/ slide[p] = -1
    <2>1. 0 \in Nat  OBVIOUS
    <2> QED  BY <1>1, <1>2, <2>1, Zenon
  <1> QED  BY <1>3, <1>4 DEF Base

(* What a section consists of.                                             *)
LEMMA SectionFields ==
    ASSUME TypeInv, NEW i \in DOMAIN sections
    PROVE  /\ sections[i] \in Section
           /\ sections[i].type \in Types /\ sections[i].path \in Paths
           /\ sections[i].base_addr \in Nat /\ sections[i].load_addr \in Nat
           /\ Len(sections) \in Nat /\ DOMAIN sections = 1..Len(sections)
  <1>1. sections \in Seq(Section)  BY DEF TypeInv
  <1>2. Len(sections) \in Nat /\ DOMAIN sections = 1..Len(sections)  BY <1>1, LenProperties
  <1>3. sections[i] \in Section  BY <1>1, <1>2, ElementOfSeq
  <1> QED  BY <1>2, <1>3 DEF Section

LEMMA ReportedFacts ==
    ASSUME Reported
    PROVE  /\ TypeInv /\ SlideInv /\ SectionInv /\ NamedInv
           /\ \A i \in DOMAIN sections : SectionTrue(i)
           /\ \A p \in Paths : reported[p] > 0 => FirstMapped(p)
  BY DEF Reported, SectionInv, NamedInv

(* A mapping of file p is at the slide or above.                           *)
LEMMA MappingAbove ==
    ASSUME Reported, NEW i \in DOMAIN sections, sections[i].type = "MMAP"
    PROVE  LET p == sections[i].path
           IN  /\ p # KernelPath /\ slide[p] # -1 /\ reported[p] > 0
               /\ elf_exec_map_vaddr(p) + slide[p] \in Nat
               /\ sections[i].load_addr >= elf_exec_map_vaddr(p) + slide[p]
  <1> DEFINE p == sections[i].path
  <1>1. SectionTrue(i) /\ p \in Paths  BY ReportedFacts, SectionFields
  <1>2. PICK n \in Segments(p) :
          /\ p # KernelPath /\ slide[p] # -1 /\ reported[p] > 0
          /\ sections[i].load_addr = trunc_page(Elf[p].loads[n].vaddr) + slide[p]
    BY <1>1 DEF SectionTrue
  <1>3. slide[p] \in Nat  BY <1>1, <1>2, SlideType, ReportedFacts
  <1>4. /\ elf_exec_map_vaddr(p) \in Nat /\ trunc_page(Elf[p].loads[n].vaddr) \in Nat
        /\ elf_exec_map_vaddr(p) <= trunc_page(Elf[p].loads[n].vaddr)
    BY <1>1, ExecMap
  <1> HIDE DEF p
  <1>5. /\ elf_exec_map_vaddr(p) + slide[p] \in Nat
        /\ sections[i].load_addr >= elf_exec_map_vaddr(p) + slide[p]
    BY <1>2, <1>3, <1>4
  <1> QED  BY <1>2, <1>5 DEF p

(* A section that is used gives the address of its file.                   *)
LEMMA UsedLoad ==
    ASSUME Reported, NEW i \in DOMAIN sections, section_should_use(sections, i)
    PROVE  LET sec == sections[i]
           IN  /\ slide[sec.path] # -1
               /\ elf_effective_load_addr(sec.path, sec.type, sec.load_addr) = Base(sec.path)
  <1> DEFINE sec == sections[i]
             p == sec.path
  <1>1. /\ SectionTrue(i) /\ p \in Paths /\ sec.type \in Types /\ sec.load_addr \in Nat
        /\ TypeInv /\ slide[KernelPath] = 0
    BY ReportedFacts, SectionFields DEF SlideInv
  <1>2. CASE sec.type = "EXEC"
    BY <1>1, <1>2 DEF SectionTrue, elf_effective_load_addr, Base
  <1>3. CASE sec.type = "KERNEL"
    <2>1. p = KernelPath /\ sec.load_addr = elf_base_vaddr(KernelPath)
      BY <1>1, <1>3 DEF SectionTrue
    <2>2. Base(KernelPath) = elf_base_vaddr(KernelPath)
      BY <1>1, <2>1, BaseType DEF Base
    <2> QED  BY <1>1, <1>3, <2>1, <2>2 DEF elf_effective_load_addr
  <1>4. CASE sec.type = "MMAP"
    <2> DEFINE low == elf_exec_map_vaddr(p) + slide[p]
    <2>1. /\ slide[p] # -1 /\ reported[p] > 0
          /\ low \in Nat /\ sec.load_addr >= low
      BY <1>4, MappingAbove
    <2>2. PICK j \in DOMAIN sections :
            /\ sections[j].type = "MMAP" /\ sections[j].path = p
            /\ sections[j].load_addr = low
      BY <1>1, <2>1, ReportedFacts DEF FirstMapped
    <2>3. j = i \/ sections[j].load_addr > sec.load_addr \/ sections[j].load_addr = sec.load_addr
      BY <1>4, <2>2 DEF section_should_use
    <2>4. sec.load_addr = low
      <3> HIDE DEF low
      <3> QED  BY <1>1, <2>1, <2>2, <2>3
    <2>5. slide[p] \in Nat /\ elf_exec_map_vaddr(p) \in Nat /\ elf_base_vaddr(p) \in Nat
      BY <1>1, <2>1, SlideType, ExecMap, BaseType
    <2>6. /\ ~(low < elf_exec_map_vaddr(p))
          /\ elf_base_vaddr(p) + (low - elf_exec_map_vaddr(p)) = elf_base_vaddr(p) + slide[p]
      BY <2>5
    <2> HIDE DEF low, sec
    <2> QED  BY <1>4, <2>1, <2>4, <2>6 DEF elf_effective_load_addr, Base, sec
  <1> QED  BY <1>1, <1>2, <1>3, <1>4 DEF Types

(* The files a section adds, at their addresses.                           *)
Contribution == [path : Paths, load : Nat]
Own(p) == [path |-> p, load |-> Base(p)]

LEMMA ConcatOfOne ==
    ASSUME NEW x, NEW y
    PROVE  <<x>> \o <<y>> = <<x, y>> /\ <<x>> \o <<>> = <<x>>
  <1>1. <<x>> \in Seq({x, y}) /\ y \in {x, y}  OBVIOUS
  <1>2. <<x>> \o <<>> = <<x>>  BY <1>1, ConcatEmptySeq
  <1>3. Append(<<x>>, y) = <<x>> \o <<y>>  BY <1>1, AppendIsConcat
  <1>4. Append(<<x>>, y) = <<x, y>>
    <2> DEFINE s == Append(<<x>>, y)
               t == <<x, y>>
    <2>1. s \in Seq({x, y}) /\ Len(s) = 2 /\ s[1] = x /\ s[2] = y  BY <1>1
    <2>2. t \in Seq({x, y}) /\ Len(t) = 2 /\ t[1] = x /\ t[2] = y  OBVIOUS
    <2> HIDE DEF s, t
    <2>3. \A i \in 1..Len(s) : s[i] = t[i]
      <3>1. \A i \in 1..2 : i = 1 \/ i = 2  OBVIOUS
      <3> QED  BY <2>1, <2>2, <3>1
    <2>4. s = t  BY <2>1, <2>2, <2>3, SeqEqual
    <2> QED  BY <2>4 DEF s, t
  <1> QED  BY <1>2, <1>3, <1>4

(* A section that is used adds its own file at its base address, and       *)
(* perhaps the interpreter.                                                *)
LEMMA ContributesIs ==
    ASSUME Reported, NEW i \in DOMAIN sections
    PROVE  LET p == sections[i].path
               adds == AddsInterp(sections, i, Base(p))
           IN  Contributes(sections, i)
                 = IF ~section_should_use(sections, i) THEN <<>>
                   ELSE IF adds THEN <<Own(p), [path |-> Interp, load |-> sections[i].base_addr]>>
                   ELSE <<Own(p)>>
  <1> DEFINE p == sections[i].path
             sec == sections[i]
  <1>1. CASE ~section_should_use(sections, i)
    BY <1>1 DEF Contributes
  <1>2. CASE section_should_use(sections, i)
    <2>1. /\ elf_effective_load_addr(p, sec.type, sec.load_addr) = Base(p)
          /\ slide[p] # -1
      BY <1>2, UsedLoad
    <2>2. Base(p) # -1
      <3>1. Base(p) \in Nat  BY <2>1, SlideType, SectionFields, ReportedFacts
      <3> QED  BY <3>1
    <2>3. Contributes(sections, i)
            = <<Own(p)>> \o (IF AddsInterp(sections, i, Base(p))
                 THEN <<[path |-> Interp, load |-> sec.base_addr]>> ELSE <<>>)
      BY <1>2, <2>1, <2>2 DEF Contributes, Own
    <2> QED  BY <1>2, <2>3, ConcatOfOne
  <1> QED  BY <1>1, <1>2

(* The EXEC record of a file with an interpreter has the address of that.  *)
LEMMA InterpIs ==
    ASSUME Reported, NEW i \in DOMAIN sections, sections[i].type = "EXEC",
           Elf[sections[i].path].interp
    PROVE  /\ slide[Interp] \in Slides \ {slide[sections[i].path]}
           /\ sections[i].base_addr = Base(Interp) /\ sections[i].path \in Mains
           /\ slide[sections[i].path] # -1
  BY ReportedFacts DEF SectionTrue

(* Every file added is mapped, and added at its base address.              *)
LEMMA ContributesTrue ==
    ASSUME Reported, NEW i \in DOMAIN sections
    PROVE  /\ Contributes(sections, i) \in Seq(Contribution)
           /\ \A k \in DOMAIN Contributes(sections, i) :
                 LET c == Contributes(sections, i)[k]
                 IN  c.path \in Paths /\ slide[c.path] # -1 /\ c.load = Base(c.path)
  <1> DEFINE p == sections[i].path
             adds == AddsInterp(sections, i, Base(p))
             C == Contributes(sections, i)
  <1>0. p \in Paths /\ Interp \in Paths /\ TypeInv
    BY SectionFields, ReportedFacts DEF Paths
  <1>1. CASE ~section_should_use(sections, i)
    <2>1. C = <<>>  BY <1>1, ContributesIs
    <2>2. <<>> \in Seq(Contribution) /\ DOMAIN <<>> = {}  OBVIOUS
    <2> HIDE DEF C
    <2>3. C \in Seq(Contribution) /\ DOMAIN C = {}  BY <2>1, <2>2
    <2> QED  BY <2>3 DEF C
  <1>2. CASE section_should_use(sections, i) /\ adds
    <2>1. C = <<Own(p), [path |-> Interp, load |-> sections[i].base_addr]>>
      BY <1>2, ContributesIs
    <2>2. slide[p] # -1  BY <1>2, UsedLoad
    <2>3. slide[Interp] \in Slides /\ sections[i].base_addr = Base(Interp)
      BY <1>2, InterpIs DEF AddsInterp
    <2>4. slide[Interp] # -1
      <3>1. Slides \subseteq Nat  BY ImageAssumption
      <3> QED  BY <2>3, <3>1
    <2>5. Base(p) \in Nat /\ Base(Interp) \in Nat  BY <1>0, <2>2, <2>4, SlideType
    <2>6. C = <<Own(p), Own(Interp)>>  BY <2>1, <2>3 DEF Own
    <2>7. Own(p) \in Contribution /\ Own(Interp) \in Contribution
      BY <1>0, <2>5 DEF Contribution, Own
    <2> HIDE DEF C, p
    <2>8. C \in Seq(Contribution)  BY <2>6, <2>7
    <2>9. \A k \in DOMAIN C : C[k] = Own(p) \/ C[k] = Own(Interp)  BY <2>6
    <2> QED  BY <1>0, <2>2, <2>4, <2>8, <2>9 DEF Own, C
  <1>3. CASE section_should_use(sections, i) /\ ~adds
    <2>1. C = <<Own(p)>>  BY <1>3, ContributesIs
    <2>2. slide[p] # -1  BY <1>3, UsedLoad
    <2>3. Base(p) \in Nat  BY <1>0, <2>2, SlideType
    <2>4. Own(p) \in Contribution  BY <1>0, <2>3 DEF Contribution, Own
    <2> HIDE DEF C, p
    <2>5. C \in Seq(Contribution)  BY <2>1, <2>4
    <2>6. \A k \in DOMAIN C : C[k] = Own(p)  BY <2>1
    <2> QED  BY <1>0, <2>2, <2>5, <2>6 DEF Own, C
  <1> QED  BY <1>1, <1>2, <1>3

Contributed(p) ==
    \E i \in DOMAIN sections : \E k \in DOMAIN Contributes(sections, i) :
       Contributes(sections, i)[k] = Own(p)

(* Every file that the process is known to run is added: the file of a     *)
(* section that is used,                                                   *)
LEMMA UsedContributes ==
    ASSUME Reported, NEW i \in DOMAIN sections, section_should_use(sections, i)
    PROVE  Contributed(sections[i].path)
  <1> DEFINE C == Contributes(sections, i)
             p == sections[i].path
  <1>1. \/ C = <<Own(p)>>
        \/ C = <<Own(p), [path |-> Interp, load |-> sections[i].base_addr]>>
    BY ContributesIs
  <1>2. 1 \in DOMAIN C /\ C[1] = Own(p)
    <2> HIDE DEF C, p
    <2> QED  BY <1>1
  <1> QED  BY <1>2 DEF Contributed

(* a file named by an EXEC record,                                         *)
LEMMA ExecutedContributed ==
    ASSUME Reported, NEW p \in Paths, Executed(p)
    PROVE  Contributed(p)
  <1>1. PICK i \in DOMAIN sections : sections[i].type = "EXEC" /\ sections[i].path = p
    BY DEF Executed
  <1>2. \A j \in DOMAIN sections : sections[j].type = "EXEC" => j = 1
    BY ReportedFacts DEF SectionTrue
  <1>3. \A j \in DOMAIN sections : sections[j].type = "EXEC" => i <= j
    BY <1>1, <1>2
  <1>4. section_should_use(sections, i)
    BY <1>1, <1>3 DEF section_should_use
  <1> QED  BY <1>1, <1>4, UsedContributes

(* one whose first executable segment was reported (of several such        *)
(* sections the first is used),                                            *)
LEMMA MappedContributed ==
    ASSUME Reported, NEW p \in Paths, FirstMapped(p), ~Executed(p)
    PROVE  Contributed(p)
  <1> DEFINE low == elf_exec_map_vaddr(p) + slide[p]
             S == {j \in DOMAIN sections : sections[j].type = "MMAP" /\ sections[j].path = p
                                           /\ sections[j].load_addr = low}
  <1>1. S # {}  BY DEF FirstMapped
  <1>2. S \subseteq Nat  BY SectionFields, ReportedFacts
  <1>3. PICK i \in S : \A j \in S : i <= j
    <2> HIDE DEF S
    <2> QED  BY <1>1, <1>2, LeastElement
  <1>4. \A j \in DOMAIN sections : ~(sections[j].type = "EXEC" /\ sections[j].path = p)
    BY DEF Executed
  <1>5. ASSUME NEW j \in DOMAIN sections, sections[j].type = "MMAP", sections[j].path = p, j # i
        PROVE  \/ sections[j].load_addr > low
               \/ sections[j].load_addr = low /\ i < j
    <2>1. low \in Nat /\ sections[j].load_addr >= low /\ sections[j].load_addr \in Nat
      BY <1>5, MappingAbove, SectionFields, ReportedFacts
    <2>2. j \in Nat /\ i \in Nat  BY <1>3, <1>2, SectionFields, ReportedFacts
    <2>3. CASE sections[j].load_addr = low
      <3>1. j \in S  BY <2>3, <1>5
      <3> QED  BY <3>1, <1>3, <1>5, <2>2, <2>3
    <2> HIDE DEF low
    <2> QED  BY <2>1, <2>3
  <1>6. i \in DOMAIN sections /\ sections[i].type = "MMAP" /\ sections[i].path = p
        /\ sections[i].load_addr = low
    BY <1>3
  <1> HIDE DEF S, low
  <1>7. section_should_use(sections, i)
    BY <1>4, <1>5, <1>6 DEF section_should_use
  <1> QED  BY <1>6, <1>7, UsedContributes

(* and an interpreter that only its EXEC record names: its address is a    *)
(* user address and not that of the main file.                             *)
LEMMA InterpreterContributed ==
    ASSUME Reported, Interprets, ~FirstMapped(Interp)
    PROVE  Contributed(Interp)
  <1>1. PICK i \in DOMAIN sections : sections[i].type = "EXEC" /\ Elf[sections[i].path].interp
    BY DEF Interprets
  <1> DEFINE p == sections[i].path
  <1>2. /\ slide[Interp] \in Slides /\ slide[Interp] # slide[p]
        /\ sections[i].base_addr = Base(Interp) /\ p \in Mains /\ slide[p] # -1
    BY <1>1, InterpIs
  <1>3. \A k \in DOMAIN sections : ~(sections[k].type = "MMAP" /\ sections[k].path = Interp)
    <2>1. Interp \in Paths  BY DEF Paths
    <2> QED  BY <2>1, MappingAbove, ReportedFacts
  <1>4. slide[p] \in SlidesOf(p)
    <2>1. slide[p] \in SlidesOf(p) \cup {-1}  BY <1>2, ReportedFacts DEF SlideInv
    <2> QED  BY <1>2, <2>1
  <1>5. is_user_addr(Base(Interp)) /\ Base(p) # Base(Interp)
    BY <1>2, <1>4, InterpAssumption
    DEF InterpAssumption, is_user_addr, Base, elf_base_vaddr, SlidesOf
  <1>6. AddsInterp(sections, i, Base(p))
    BY <1>1, <1>2, <1>3, <1>5 DEF AddsInterp
  <1>7. section_should_use(sections, i)
    <2>1. \A j \in DOMAIN sections : sections[j].type = "EXEC" => j = 1
      BY ReportedFacts DEF SectionTrue
    <2>2. \A j \in DOMAIN sections : sections[j].type = "EXEC" => i <= j
      BY <1>1, <2>1
    <2> QED  BY <1>1, <2>2 DEF section_should_use
  <1>8. Contributes(sections, i) = <<Own(p), [path |-> Interp, load |-> sections[i].base_addr]>>
    BY <1>6, <1>7, ContributesIs
  <1>9. Contributes(sections, i) = <<Own(p), Own(Interp)>>
    BY <1>2, <1>8 DEF Own
  <1>10. 2 \in DOMAIN Contributes(sections, i) /\ Contributes(sections, i)[2] = Own(Interp)
    BY <1>9
  <1> QED  BY <1>10 DEF Contributed

LEMMA KnownContributed ==
    ASSUME Reported, phase \notin {"setup", "exit"}, NEW p \in Known
    PROVE  Contributed(p)
  <1>1. p \in Paths /\ p \in Mapped /\ (reported[p] > 0 \/ p = Interp \/ p \in Mains)
    BY DEF Known, Mapped
  <1>2. \/ Executed(p) \/ FirstMapped(p)
        \/ p = Interp /\ Interprets /\ ~FirstMapped(Interp)
    BY <1>1, ReportedFacts DEF NamedInv
  <1> QED  BY <1>1, <1>2, ExecutedContributed, MappedContributed, InterpreterContributed

-----------------------------------------------------------------------------
(* The invariant holds at first, and in the steps of the decoder.          *)

(* Paths of different parts differ.                                        *)
LEMMA PathFacts ==
    /\ Mains \subseteq Paths /\ Libs \subseteq Paths /\ Interp \in Paths /\ KernelPath \in Paths
    /\ \A p \in Mains : p \notin Libs /\ p # Interp /\ p # KernelPath
    /\ \A p \in Libs : p # Interp /\ p # KernelPath
    /\ Interp # KernelPath
  BY PathAssumption DEF PathAssumption, Paths

LEMMA SlidesAreNat ==
    /\ Slides \subseteq Nat /\ -1 \notin Slides /\ -1 \notin Nat /\ 0 # -1
    /\ \A p : SlidesOf(p) \subseteq Nat /\ SlidesOf(p) \subseteq Slides \cup {0}
  BY ImageAssumption DEF SlidesOf

(* The initial states.                                                     *)
LEMMA InitHolds == Init => IInv
  <1> SUFFICES ASSUME Init PROVE IInv  OBVIOUS
  <1>1. /\ mode \in {"exec", "trace"} /\ main \in Mains /\ execs = 0 /\ phase = "setup"
        /\ filter = <<>> /\ sections = <<>> /\ saved = <<>> /\ next = 1 /\ image = {}
        /\ syms = <<>> /\ pc = "idle" /\ reported = [p \in Paths |-> 0]
        /\ slide \in IF mode = "exec" THEN {Nowhere} ELSE AttachedSlides
    BY DEF Init, LookupInit
  <1>2. \A p \in Paths : reported[p] = 0  BY <1>1
  <1>3. DOMAIN <<>> = {}  OBVIOUS
  <1>4. /\ slide \in [Paths -> Slides \cup {0, -1}] /\ SlideInv
        /\ mode = "exec" => slide = Nowhere
    <2>1. CASE mode = "exec"
      <3>1. slide = Nowhere  BY <2>1, <1>1
      <3>2. slide \in [Paths -> Slides \cup {0, -1}]  BY <3>1 DEF Nowhere
      <3>3. SlideInv  BY <2>1, <3>1, PathFacts DEF SlideInv, Nowhere
      <3> QED  BY <3>1, <3>2, <3>3
    <2>2. CASE mode = "trace"
      <3>1. slide \in AttachedSlides  BY <2>2, <1>1
      <3>2. slide[main] \in SlidesOf(main) /\ slide[main] # -1
        BY <3>1, SlidesAreNat DEF AttachedSlides
      <3>3. SlideInv  BY <2>2, <3>1, <3>2 DEF SlideInv, AttachedSlides
      <3> QED  BY <2>2, <3>1, <3>3 DEF AttachedSlides
    <2> QED  BY <2>1, <2>2, <1>1
  <1>5. TypeInv
    <2>1. reported \in [Paths -> Nat]  BY <1>1
    <2>2. sections \in Seq(Section)  BY <1>1
    <2> QED  BY <1>1, <1>4, <2>1, <2>2 DEF TypeInv
  <1>6. SectionInv  BY <1>1, <1>3 DEF SectionInv
  <1>7. NamedInv  BY <1>1, <1>2 DEF NamedInv
  <1>8. PhaseInv  BY <1>1, <1>2, <1>4 DEF PhaseInv
  <1>9. FilterInv  BY <1>1, <1>3 DEF FilterInv
  <1>10. SavedInv  BY <1>1 DEF SavedInv
  <1>11. BuildInv  BY <1>1 DEF BuildInv
  <1> QED  BY <1>4, <1>5, <1>6, <1>7, <1>8, <1>9, <1>10, <1>11 DEF IInv

(* What the sections say stays true while only the phase changes.          *)
LEMMA SameSections ==
    ASSUME IInv, UNCHANGED <<mode, process, sections>>, phase \notin {"setup", "exit"},
           phase' \in {"setup", "trace", "stopped", "build", "ready", "exit"}
    PROVE  /\ TypeInv' /\ SlideInv' /\ SectionInv' /\ NamedInv'
           /\ Reported
  <1>1. TypeInv /\ SlideInv /\ SectionInv /\ NamedInv  BY DEF IInv
  <1>2. /\ mode' = mode /\ main' = main /\ slide' = slide /\ reported' = reported
        /\ execs' = execs /\ sections' = sections
    BY DEF process
  <1>3. TypeInv'  BY <1>1, <1>2 DEF TypeInv
  <1>4. SlideInv'  BY <1>1, <1>2 DEF SlideInv
  <1>5. SectionInv'  BY <1>1, <1>2 DEF SectionInv, SectionTrue, Base
  <1>6. NamedInv'
    BY <1>1, <1>2 DEF NamedInv, Executed, FirstMapped, Interprets, Mapped
  <1> QED  BY <1>1, <1>3, <1>4, <1>5, <1>6 DEF Reported

(* Steps that change nothing.                                              *)
LEMMA StutterStep ==
    ASSUME IInv, UNCHANGED vars
    PROVE  IInv'
  <1>1. /\ mode' = mode /\ main' = main /\ slide' = slide /\ reported' = reported
        /\ execs' = execs /\ filter' = filter /\ sections' = sections /\ phase' = phase
        /\ saved' = saved /\ next' = next /\ image' = image /\ syms' = syms
        /\ table' = table /\ pc' = pc
    BY DEF vars, process, built, search
  <1>2. TypeInv' /\ SlideInv'  BY <1>1 DEF IInv, TypeInv, SlideInv
  <1>3. SectionInv'  BY <1>1 DEF IInv, SectionInv, SectionTrue, Base
  <1>4. NamedInv'
    BY <1>1 DEF IInv, NamedInv, Executed, FirstMapped, Interprets, Mapped
  <1>5. PhaseInv'  BY <1>1 DEF IInv, PhaseInv, Nowhere
  <1>6. FilterInv'  BY <1>1 DEF IInv, FilterInv
  <1>7. SavedInv'  BY <1>1 DEF IInv, SavedInv, Probes
  <1>8. BuildInv'  BY <1>1 DEF IInv, BuildInv, ImageOf, SymsOf
  <1> QED  BY <1>2, <1>3, <1>4, <1>5, <1>6, <1>7, <1>8 DEF IInv

(* The buffer is saved: the outcome is for the sections there are.         *)
LEMMA SaveBufferStep ==
    ASSUME IInv, SaveBuffer
    PROVE  IInv'
  <1>1. /\ phase = "stopped" /\ phase' = phase /\ filter' = filter /\ sections' = sections
        /\ next' = next /\ image' = image /\ syms' = syms /\ table' = table /\ pc' = pc
        /\ UNCHANGED <<mode, process, sections>>
    BY DEF SaveBuffer, built, search
  <1>2. TypeInv' /\ SlideInv' /\ SectionInv' /\ NamedInv'  BY <1>1, SameSections
  <1>3. PhaseInv'  BY <1>1 DEF IInv, PhaseInv
  <1>4. FilterInv'
    <2>1. filter' = <<>>  BY <1>1 DEF IInv, PhaseInv
    <2> QED  BY <2>1 DEF FilterInv
  <1>5. SavedInv'
    <2>1. saved' \in Outcomes /\ saved'.of = [nsections |-> IF sections = <<>> THEN 0 ELSE 1,
             works |-> Probes, named |-> \E i \in DOMAIN sections : sections[i].type = "EXEC"]
      BY DEF SaveBuffer
    <2>2. saved'.of.works = Probes /\ (sections # <<>> => saved'.of.nsections = 1)  BY <2>1
    <2>3. Probes' = Probes  BY <1>1 DEF Probes
    <2> QED  BY <1>1, <2>1, <2>2, <2>3 DEF SavedInv
  <1>6. BuildInv'  BY <1>1 DEF BuildInv
  <1> QED  BY <1>2, <1>3, <1>4, <1>5, <1>6 DEF IInv

(* Decoding starts with nothing built.                                     *)
LEMMA DecodeSavedStep ==
    ASSUME IInv, DecodeSaved
    PROVE  IInv'
  <1>1. /\ phase = "stopped" /\ phase' \in {"build", "exit"} /\ filter' = filter
        /\ sections' = sections /\ saved' = <<>>
        /\ next' = next /\ image' = image /\ syms' = syms /\ table' = table /\ pc' = pc
        /\ UNCHANGED <<mode, process, sections>>
    BY DEF DecodeSaved, built, search
  <1>2. TypeInv' /\ SlideInv' /\ SectionInv' /\ NamedInv'  BY <1>1, SameSections
  <1>3. /\ filter = <<>> /\ next = 1 /\ image = {} /\ syms = <<>> /\ pc = "idle"
    BY <1>1 DEF IInv, PhaseInv
  <1>4. PhaseInv'  BY <1>1, <1>3 DEF PhaseInv
  <1>5. FilterInv'  BY <1>1, <1>3 DEF FilterInv
  <1>6. SavedInv'  BY <1>1 DEF SavedInv
  <1>7. BuildInv'
    <2>1. Len(sections') \in Nat  BY <1>2 DEF TypeInv
    <2>2. next' \in 1..(Len(sections') + 1) /\ 1..(next' - 1) = {}  BY <1>1, <1>3, <2>1
    <2>3. image' = UNION {ImageOf(i)' : i \in 1..(next' - 1)}  BY <1>1, <1>3, <2>2
    <2>4. Range(syms') = UNION {SymsOf(i)' : i \in 1..(next' - 1)}
      BY <1>1, <1>3, <2>2 DEF Range
    <2>5. syms' \in Seq(Entry)  BY <1>1, <1>3
    <2> QED  BY <1>1, <2>2, <2>3, <2>4, <2>5 DEF BuildInv
  <1> QED  BY <1>2, <1>4, <1>5, <1>6, <1>7 DEF IInv

(* The image is complete and the table sorted.                             *)
LEMMA ImageBuiltStep ==
    ASSUME IInv, ImageBuilt
    PROVE  IInv'
  <1>1. /\ phase = "build" /\ phase' \in {"ready", "exit"} /\ next > Len(sections)
        /\ filter' = filter /\ sections' = sections /\ saved' = saved
        /\ next' = next /\ image' = image /\ syms' = syms /\ pc' = pc
        /\ UNCHANGED <<mode, process, sections>>
    BY DEF ImageBuilt, built, search
  <1>2. TypeInv' /\ SlideInv' /\ SectionInv' /\ NamedInv'  BY <1>1, SameSections
  <1>3. filter = <<>> /\ pc = "idle" /\ saved = <<>>  BY <1>1 DEF IInv, PhaseInv
  <1>4. PhaseInv'  BY <1>1, <1>3 DEF PhaseInv
  <1>5. FilterInv'  BY <1>1, <1>3 DEF FilterInv
  <1>6. SavedInv'  BY <1>1, <1>3 DEF SavedInv
  <1>7. BuildInv'
    <2>1. Len(sections) \in Nat  BY DEF IInv, TypeInv
    <2>2. /\ next \in 1..(Len(sections) + 1) /\ syms \in Seq(Entry)
          /\ image = UNION {ImageOf(i) : i \in 1..(next - 1)}
          /\ Range(syms) = UNION {SymsOf(i) : i \in 1..(next - 1)}
      BY <1>1 DEF IInv, BuildInv
    <2>3. next = Len(sections) + 1  BY <1>1, <2>1, <2>2
    <2>4. phase' = "ready" => IsTable(table') /\ Range(table') = Range(syms)
      <3> SUFFICES ASSUME phase' = "ready"
                   PROVE  IsTable(table') /\ Range(table') = Range(syms)
        OBVIOUS
      <3>1. PICK t \in {syms, Reverse(syms)} : table' = sym_table_sort(t)  BY DEF ImageBuilt
      <3>2. t \in Seq(Entry) /\ Range(t) = Range(syms)  BY <2>2, ReverseRange
      <3> QED  BY <3>1, <3>2, SortIsTable
    <2>5. \A i \in 1..(next - 1) : ImageOf(i)' = ImageOf(i) /\ SymsOf(i)' = SymsOf(i)
      BY <1>1 DEF ImageOf, SymsOf
    <2> QED  BY <1>1, <2>2, <2>3, <2>4, <2>5 DEF BuildInv
  <1> QED  BY <1>2, <1>4, <1>5, <1>6, <1>7 DEF IInv

(* Lookups leave the table alone.                                          *)
LEMMA LookupStep ==
    ASSUME IInv, Lookup
    PROVE  IInv'
  <1>1. /\ phase = "ready" /\ phase' = phase
        /\ filter' = filter /\ sections' = sections /\ saved' = saved
        /\ next' = next /\ image' = image /\ syms' = syms /\ table' = table
        /\ UNCHANGED <<mode, process, sections>>
    BY DEF Lookup, built, sym_table_lookup, Probe, LookupDone, LookupReturn
  <1>2. TypeInv' /\ SlideInv' /\ SectionInv' /\ NamedInv'  BY <1>1, SameSections
  <1>3. filter = <<>> /\ saved = <<>>  BY <1>1 DEF IInv, PhaseInv
  <1>4. PhaseInv'  BY <1>1, <1>3 DEF PhaseInv
  <1>5. FilterInv'  BY <1>1, <1>3 DEF FilterInv
  <1>6. SavedInv'  BY <1>1, <1>3 DEF SavedInv
  <1>7. BuildInv'  BY <1>1 DEF IInv, BuildInv, ImageOf, SymsOf
  <1> QED  BY <1>2, <1>4, <1>5, <1>6, <1>7 DEF IInv

(* The functions of the files a section adds.                              *)
LEMMA SymsOfSection ==
    ASSUME Reported, NEW i \in DOMAIN sections
    PROVE  LET files == Contributes(sections, i)
               added == FlattenSeq([k \in DOMAIN files |->
                                      sym_table_add_elf(files[k].path, files[k].load)])
           IN  added \in Seq(Entry) /\ Range(added) = SymsOf(i)
  <1> DEFINE files == Contributes(sections, i)
             D == DOMAIN files
             f(k) == sym_table_add_elf(files[k].path, files[k].load)
             ss == [k \in D |-> f(k)]
  <1>1. files \in Seq(Contribution)  BY ContributesTrue
  <1>2. Len(files) \in Nat /\ D = 1..Len(files)
    <2> HIDE DEF files
    <2> QED  BY <1>1, LenProperties
  <1>3. \A k \in D : f(k) \in Seq(Entry)
    <2> TAKE k \in D
    <2> DEFINE p == files[k].path
    <2>1. p \in Paths /\ slide[p] # -1 /\ files[k].load = elf_base_vaddr(p) + slide[p]
      BY ContributesTrue DEF Base
    <2>2. slide[p] \in Nat  BY <2>1, SlideType, ReportedFacts
    <2> HIDE DEF p
    <2>3. sym_table_add_elf(p, elf_base_vaddr(p) + slide[p]) \in Seq(Entry)
      BY <2>1, <2>2, FileFunctions
    <2>4. f(k) = sym_table_add_elf(p, elf_base_vaddr(p) + slide[p])  BY <2>1 DEF p
    <2> QED  BY <2>3, <2>4
  <1>s. SymsOf(i) = UNION {Range(f(k)) : k \in D}
    BY DEF SymsOf
  <1> HIDE DEF f
  <1>4. ss \in Seq(Seq(Entry)) /\ DOMAIN ss = D /\ \A k \in D : ss[k] = f(k)
    <2> HIDE DEF D
    <2> QED  BY <1>2, <1>3
  <1> HIDE DEF ss
  <1>5. FlattenSeq(ss) \in Seq(Entry) /\ Range(FlattenSeq(ss)) = UNION {Range(ss[k]) : k \in D}
    BY <1>4, FlattenRange DEF Flattens
  <1>6. Range(FlattenSeq(ss)) = SymsOf(i)
    <2> HIDE DEF D
    <2> QED  BY <1>4, <1>5, <1>s
  <1> QED  BY <1>5, <1>6 DEF ss, f

(* One section of build_pt_image.                                          *)
LEMMA AddSectionStep ==
    ASSUME IInv, AddSection
    PROVE  IInv'
  <1> DEFINE files == Contributes(sections, next)
             added == FlattenSeq([k \in DOMAIN files |->
                                    sym_table_add_elf(files[k].path, files[k].load)])
  <1>1. /\ phase = "build" /\ phase' = phase /\ next <= Len(sections) /\ next' = next + 1
        /\ filter' = filter /\ sections' = sections /\ saved' = saved
        /\ pc' = pc /\ table' = table
        /\ UNCHANGED <<mode, process, sections>>
        /\ image' = image \cup ImageOf(next)
        /\ syms' = syms \o added
    BY DEF AddSection, search, ImageOf
  <1>2. TypeInv' /\ SlideInv' /\ SectionInv' /\ NamedInv' /\ Reported
    BY <1>1, SameSections
  <1>3. filter = <<>> /\ pc = "idle" /\ saved = <<>>  BY <1>1 DEF IInv, PhaseInv
  <1>4. PhaseInv'  BY <1>1, <1>3 DEF PhaseInv
  <1>5. FilterInv'  BY <1>1, <1>3 DEF FilterInv
  <1>6. SavedInv'  BY <1>1, <1>3 DEF SavedInv
  <1>7. BuildInv'
    <2>1. Len(sections) \in Nat /\ DOMAIN sections = 1..Len(sections)
      BY DEF IInv, TypeInv
    <2>2. /\ next \in 1..(Len(sections) + 1) /\ syms \in Seq(Entry)
          /\ image = UNION {ImageOf(i) : i \in 1..(next - 1)}
          /\ Range(syms) = UNION {SymsOf(i) : i \in 1..(next - 1)}
      BY <1>1 DEF IInv, BuildInv
    <2>3. /\ next \in DOMAIN sections /\ next' \in 1..(Len(sections) + 1)
          /\ 1..(next' - 1) = 1..(next - 1) \cup {next}
      BY <1>1, <2>1, <2>2
    <2>4. added \in Seq(Entry) /\ Range(added) = SymsOf(next)
      BY <1>2, <2>3, SymsOfSection
    <2> HIDE DEF added
    <2>5. syms' \in Seq(Entry) /\ Range(syms') = Range(syms) \cup SymsOf(next)
      BY <1>1, <2>2, <2>4, RangeOfConcat
    <2>6. \A i \in 1..(next' - 1) : ImageOf(i)' = ImageOf(i) /\ SymsOf(i)' = SymsOf(i)
      BY <1>1 DEF ImageOf, SymsOf
    <2>7. image' = UNION {ImageOf(i) : i \in 1..(next' - 1)}
      BY <1>1, <2>2, <2>3
    <2>8. Range(syms') = UNION {SymsOf(i) : i \in 1..(next' - 1)}
      BY <2>2, <2>3, <2>5
    <2> QED  BY <1>1, <2>3, <2>5, <2>6, <2>7, <2>8 DEF BuildInv
  <1> QED  BY <1>2, <1>4, <1>5, <1>6, <1>7 DEF IInv

-----------------------------------------------------------------------------
(* The steps of the process.                                               *)

(* A file is executed: the one section says where it is.                   *)
LEMMA ExecStep ==
    ASSUME IInv, Exec
    PROVE  IInv'
  <1> DEFINE Runs(p, s, i) ==
          /\ slide' = [Nowhere EXCEPT ![p] = s,
                                      ![Interp] = IF Elf[p].interp THEN i ELSE -1]
          /\ sections' = <<[type |-> "EXEC", path |-> p, load_addr |-> s,
                            base_addr |-> IF Elf[p].interp
                                          THEN elf_base_vaddr(Interp) + i ELSE 0]>>
  <1>0. \E p \in Mains : \E s \in SlidesOf(p) : \E i \in Slides \ {s} : Runs(p, s, i)
    <2>1. main \in Mains  BY DEF IInv, TypeInv
    <2> QED  BY <2>1 DEF Exec
  <1>a. PICK p \in Mains : \E s \in SlidesOf(p) : \E i \in Slides \ {s} : Runs(p, s, i)
    BY <1>0
  <1>b. PICK s \in SlidesOf(p) : \E i \in Slides \ {s} : Runs(p, s, i)  BY <1>a
  <1>1. PICK i \in Slides \ {s} : Runs(p, s, i)  BY <1>b
  <1>2. /\ phase = "trace" /\ phase' = phase /\ execs' = execs + 1 /\ mode' = mode /\ main' = main
        /\ reported' = [q \in Paths |-> 0] /\ filter' = filter /\ saved' = saved
        /\ next' = next /\ image' = image /\ syms' = syms /\ table' = table /\ pc' = pc
    BY DEF Exec, built, search
  <1>3. execs \in Nat /\ mode \in {"exec", "trace"} /\ main \in Mains  BY DEF IInv, TypeInv
  <1>p. p \in Paths /\ p # Interp /\ p # KernelPath /\ s \in Nat /\ i \in Nat
        /\ s \in Slides \cup {0} /\ s # -1 /\ i # -1
    BY PathFacts, SlidesAreNat
  <1>4. /\ slide' \in [Paths -> Slides \cup {0, -1}] /\ slide'[p] = s
        /\ slide'[Interp] = (IF Elf[p].interp THEN i ELSE -1) /\ slide'[KernelPath] = 0
        /\ \A q \in Paths \ {p, Interp, KernelPath} : slide'[q] = -1
    BY <1>1, <1>p, PathFacts DEF Nowhere
  <1>5. \A q \in Paths : reported'[q] = 0  BY <1>2
  <1> DEFINE e == [type |-> "EXEC", path |-> p, load_addr |-> s,
                   base_addr |-> IF Elf[p].interp THEN elf_base_vaddr(Interp) + i ELSE 0]
  <1>6. e \in Section
    <2>1. elf_base_vaddr(Interp) \in Nat  BY PathFacts, BaseType
    <2>2. (IF Elf[p].interp THEN elf_base_vaddr(Interp) + i ELSE 0) \in Nat  BY <2>1, <1>p
    <2> QED  BY <1>p, <2>2 DEF Section, Types
  <1>7. sections' = <<e>> /\ DOMAIN sections' = {1} /\ sections'[1] = e  BY <1>1
  <1>8. e.type = "EXEC" /\ e.path = p /\ e.load_addr = s
        /\ e.base_addr = (IF Elf[p].interp THEN elf_base_vaddr(Interp) + i ELSE 0)
    OBVIOUS
  <1> HIDE DEF e
  <1>9. TypeInv'
    <2>1. sections' \in Seq(Section)  BY <1>6, <1>7
    <2>2. reported' \in [Paths -> Nat]  BY <1>2
    <2>3. execs' \in Nat  BY <1>2, <1>3
    <2> QED  BY <1>2, <1>3, <1>4, <2>1, <2>2, <2>3 DEF TypeInv
  <1>10. SlideInv'
    <2>1. execs' # 0  BY <1>2, <1>3
    <2>2. \A q \in Mains : slide'[q] \in SlidesOf(q) \cup {-1}
      BY <1>1, <1>4, PathFacts
    <2>3. \A q \in Libs \cup {Interp} : slide'[q] \in Slides \cup {-1}
      BY <1>1, <1>4, PathFacts
    <2> QED  BY <1>4, <2>1, <2>2, <2>3 DEF SlideInv
  <1>11. SectionInv'
    <2>1. SectionTrue(1)'
      BY <1>1, <1>4, <1>7, <1>8, <1>p DEF SectionTrue, Base
    <2> QED  BY <1>7, <2>1 DEF SectionInv
  <1>12. NamedInv'
    <2>1. \A q \in Paths : ~(reported'[q] > 0)  BY <1>5
    <2>2. Executed(p)'  BY <1>7, <1>8 DEF Executed
    <2>3. \A q \in Mapped' \cap Mains : q = p  BY <1>4, PathFacts DEF Mapped
    <2>4. Interp \in Mapped' => Interprets'
      BY <1>4, <1>7, <1>8 DEF Interprets, Mapped
    <2> QED  BY <2>1, <2>2, <2>3, <2>4 DEF NamedInv
  <1>13. PhaseInv'  BY <1>2 DEF IInv, PhaseInv
  <1>14. FilterInv'
    <2>1. execs' # 0  BY <1>2, <1>3
    <2> QED  BY <1>2, <2>1 DEF IInv, FilterInv
  <1>15. SavedInv'  BY <1>2 DEF IInv, PhaseInv, SavedInv
  <1>16. BuildInv'  BY <1>2 DEF BuildInv
  <1> QED  BY <1>9, <1>10, <1>11, <1>12, <1>13, <1>14, <1>15, <1>16 DEF IInv

(* Where a file is and that it was reported is not forgotten.              *)
Kept == /\ \A q \in Paths : slide[q] # -1 => slide'[q] = slide[q]
        /\ \A q \in Paths : reported[q] > 0 => reported'[q] > 0

(* A section stays true while Kept,                                        *)
LEMMA SectionKept ==
    ASSUME Reported, Kept, NEW i \in DOMAIN sections, i \in DOMAIN sections',
           sections'[i] = sections[i]
    PROVE  SectionTrue(i)'
  <1> DEFINE s == sections[i]
  <1>1. SectionTrue(i) /\ s.path \in Paths  BY ReportedFacts, SectionFields
  <1>2. Interp \in Paths /\ -1 \notin Slides  BY PathFacts, SlidesAreNat
  <1>3. CASE s.type = "EXEC"
    BY <1>1, <1>2, <1>3 DEF SectionTrue, Kept, Base
  <1>4. CASE s.type = "MMAP"
    BY <1>1, <1>4 DEF SectionTrue, Kept
  <1>5. CASE s.type = "KERNEL"
    BY <1>1, <1>5 DEF SectionTrue
  <1> QED  BY <1>1, <1>3, <1>4, <1>5 DEF SectionTrue

(* and files stay named.                                                   *)
LEMMA NamedKept ==
    ASSUME Reported, Kept,
           \A i \in DOMAIN sections : i \in DOMAIN sections' /\ sections'[i] = sections[i]
    PROVE  /\ \A p \in Paths : Executed(p) => Executed(p)'
           /\ \A p \in Paths : FirstMapped(p) => FirstMapped(p)'
           /\ Interprets => Interprets'
  <1>1. \A p \in Paths : Executed(p) => Executed(p)'  BY DEF Executed
  <1>2. Interprets => Interprets'  BY DEF Interprets
  <1>3. ASSUME NEW p \in Paths, FirstMapped(p) PROVE FirstMapped(p)'
    <2>1. PICK i \in DOMAIN sections :
            /\ sections[i].type = "MMAP" /\ sections[i].path = p
            /\ sections[i].load_addr = elf_exec_map_vaddr(p) + slide[p]
      BY <1>3 DEF FirstMapped
    <2>2. slide[p] # -1  BY <2>1, MappingAbove
    <2> QED  BY <2>1, <2>2 DEF FirstMapped, Kept
  <1> QED  BY <1>1, <1>2, <1>3

(* The trace ends, perhaps with a section for the kernel.                  *)
LEMMA StopTraceStep ==
    ASSUME IInv, StopTrace
    PROVE  IInv'
  <1> DEFINE e == [type |-> "KERNEL", path |-> KernelPath, base_addr |-> 0,
                   load_addr |-> elf_base_vaddr(KernelPath) + slide[KernelPath]]
             n == Len(sections) + 1
  <1>1. /\ phase = "trace" /\ phase' = "stopped" /\ filter' = <<>> /\ saved' = saved
        /\ mode' = mode /\ main' = main /\ slide' = slide /\ reported' = reported /\ execs' = execs
        /\ next' = next /\ image' = image /\ syms' = syms /\ table' = table /\ pc' = pc
        /\ sections' = sections \/ sections' = Append(sections, e)
    BY DEF StopTrace, process, built, search
  <1>2. TypeInv /\ SlideInv /\ SectionInv /\ NamedInv /\ Reported  BY DEF IInv, Reported
  <1>3. sections \in Seq(Section) /\ Len(sections) \in Nat /\ slide[KernelPath] = 0
        /\ DOMAIN sections = 1..Len(sections)
    BY <1>2 DEF TypeInv, SlideInv
  <1>4. /\ e.type = "KERNEL" /\ e.path = KernelPath /\ e \in Section
        /\ e.load_addr = elf_base_vaddr(KernelPath)
    <2>1. elf_base_vaddr(KernelPath) \in Nat /\ KernelPath \in Paths  BY PathFacts, BaseType
    <2>2. elf_base_vaddr(KernelPath) + slide[KernelPath] = elf_base_vaddr(KernelPath)
      BY <1>3, <2>1
    <2> QED  BY <2>1, <2>2 DEF Section, Types
  <1> HIDE DEF e
  <1>5. /\ sections' \in Seq(Section)
        /\ \A i \in DOMAIN sections : i \in DOMAIN sections' /\ sections'[i] = sections[i]
        /\ \A i \in DOMAIN sections' : i \in DOMAIN sections \/ sections'[i] = e
    BY <1>1, <1>3, <1>4
  <1>6. Kept  BY <1>1 DEF Kept
  <1>7. TypeInv'  BY <1>1, <1>2, <1>5 DEF TypeInv
  <1>8. SlideInv'  BY <1>1, <1>2 DEF SlideInv
  <1>9. SectionInv'
    <2>1. ASSUME NEW i \in DOMAIN sections' PROVE SectionTrue(i)'
      <3>1. CASE i \in DOMAIN sections  BY <3>1, <1>2, <1>5, <1>6, SectionKept
      <3>2. CASE sections'[i] = e  BY <3>2, <1>4 DEF SectionTrue
      <3> QED  BY <3>1, <3>2, <1>5
    <2> QED  BY <2>1 DEF SectionInv
  <1>10. NamedInv'
    <2>1. /\ \A p \in Paths : Executed(p) => Executed(p)'
          /\ \A p \in Paths : FirstMapped(p) => FirstMapped(p)'
          /\ Interprets => Interprets'
      BY <1>2, <1>5, <1>6, NamedKept
    <2>2. Mapped' = Mapped  BY <1>1 DEF Mapped
    <2> QED  BY <1>1, <1>2, <2>1, <2>2, PathFacts DEF NamedInv
  <1>11. PhaseInv'  BY <1>1 DEF IInv, PhaseInv
  <1>12. FilterInv'  BY <1>1 DEF FilterInv
  <1>13. SavedInv'  BY <1>1 DEF IInv, PhaseInv, SavedInv
  <1>14. BuildInv'  BY <1>1 DEF BuildInv
  <1> QED  BY <1>7, <1>8, <1>9, <1>10, <1>11, <1>12, <1>13, <1>14 DEF IInv

(* The record of a mapping.                                                *)
LEMMA MmapIs ==
    ASSUME NEW p \in Paths, NEW n \in Segments(p), NEW s, s[p] \in Nat
    PROVE  /\ Mmap(p, n, s) \in Section
           /\ Mmap(p, n, s).type = "MMAP" /\ Mmap(p, n, s).path = p
           /\ Mmap(p, n, s).load_addr = trunc_page(Elf[p].loads[n].vaddr) + s[p]
  <1> DEFINE a == trunc_page(Elf[p].loads[n].vaddr) + s[p]
  <1>1. trunc_page(Elf[p].loads[n].vaddr) \in Nat  BY ExecMap
  <1>2. a \in Nat  BY <1>1
  <1>3. Mmap(p, n, s) = [type |-> "MMAP", path |-> p, base_addr |-> 0, load_addr |-> a]
    BY DEF Mmap
  <1> HIDE DEF a
  <1>4. /\ Mmap(p, n, s) \in Section /\ Mmap(p, n, s).load_addr = a
        /\ Mmap(p, n, s).type = "MMAP" /\ Mmap(p, n, s).path = p
    BY <1>2, <1>3 DEF Section, Types
  <1> QED  BY <1>4 DEF a

(* A segment is mapped and reported: the first one reported of a file is   *)
(* its first executable one.                                               *)
LEMMA MapSegmentStep ==
    ASSUME IInv, MapSegment
    PROVE  IInv'
  <1>1. PICK p \in Libs \cup {Interp} :
          /\ Unreported(p) # {}
          /\ \/ p \in Mapped /\ UNCHANGED slide
             \/ /\ p \in Libs \ Mapped
                /\ \E s \in Free : slide' = [slide EXCEPT ![p] = s]
          /\ reported' = [reported EXCEPT ![p] = Min(Unreported(p))]
          /\ sections' = Append(sections, Mmap(p, Min(Unreported(p)), slide'))
    BY DEF MapSegment
  <1> DEFINE n == Min(Unreported(p))
             e == Mmap(p, n, slide')
             last == Len(sections) + 1
  <1>2. /\ phase = "trace" /\ phase' = phase /\ filter' = filter /\ saved' = saved
        /\ mode' = mode /\ main' = main /\ execs' = execs
        /\ next' = next /\ image' = image /\ syms' = syms /\ table' = table /\ pc' = pc
    BY DEF MapSegment, built, search
  <1>3. TypeInv /\ SlideInv /\ SectionInv /\ NamedInv /\ Reported  BY DEF IInv, Reported
  <1>4. /\ sections \in Seq(Section) /\ Len(sections) \in Nat
        /\ DOMAIN sections = 1..Len(sections) /\ main \in Mains
        /\ slide \in [Paths -> Slides \cup {0, -1}] /\ reported \in [Paths -> Nat]
    BY <1>3 DEF TypeInv
  <1>5. p \in Paths /\ p # KernelPath /\ p \notin Mains  BY PathFacts
  <1>6. /\ n \in Segments(p) /\ n > reported[p] /\ n \in Nat
        /\ reported[p] = 0 => n = Min(Segments(p))
    <2>1. Segments(p) \subseteq Nat \ {0}  BY <1>5, FirstSegment
    <2>2. Unreported(p) \subseteq Nat  BY <2>1 DEF Unreported
    <2>3. n \in Unreported(p)  BY <1>1, <2>2, MinIsLeast
    <2>4. reported[p] = 0 => Unreported(p) = Segments(p)  BY <2>1 DEF Unreported
    <2> QED  BY <2>1, <2>3, <2>4 DEF Unreported
  <1>7. /\ slide' \in [Paths -> Slides \cup {0, -1}] /\ slide'[p] \in Slides
        /\ \A q \in Paths : q # p => slide'[q] = slide[q]
        /\ slide[p] # -1 => slide'[p] = slide[p]
    <2>1. CASE p \in Mapped /\ UNCHANGED slide
      BY <2>1, <1>3, <1>4, <1>5 DEF Mapped, SlideInv
    <2>2. CASE p \in Libs \ Mapped /\ \E s \in Free : slide' = [slide EXCEPT ![p] = s]
      BY <2>2, <1>4, <1>5 DEF Mapped, Free
    <2> QED  BY <1>1, <2>1, <2>2
  <1>8. slide'[p] \in Nat /\ slide'[p] # -1  BY <1>7, SlidesAreNat
  <1>9. /\ reported' \in [Paths -> Nat] /\ reported'[p] > 0
        /\ \A q \in Paths : q # p => reported'[q] = reported[q]
    BY <1>1, <1>4, <1>5, <1>6
  <1>10. /\ e \in Section /\ e.type = "MMAP" /\ e.path = p
         /\ e.load_addr = trunc_page(Elf[p].loads[n].vaddr) + slide'[p]
    <2> HIDE DEF n
    <2> QED  BY <1>5, <1>6, <1>8, MmapIs
  <1>s. sections' = Append(sections, e)  BY <1>1
  <1> HIDE DEF e, n
  <1>11. /\ sections' \in Seq(Section) /\ last \in DOMAIN sections' /\ sections'[last] = e
         /\ \A i \in DOMAIN sections : i \in DOMAIN sections' /\ sections'[i] = sections[i]
         /\ \A i \in DOMAIN sections' : i \in DOMAIN sections \/ sections'[i] = e
    BY <1>s, <1>4, <1>10
  <1> HIDE DEF last
  <1>12. Kept
    <2>1. \A q \in Paths : slide[q] # -1 => slide'[q] = slide[q]  BY <1>7
    <2>2. \A q \in Paths : reported[q] > 0 => reported'[q] > 0  BY <1>9
    <2> QED  BY <2>1, <2>2 DEF Kept
  <1>13. TypeInv'  BY <1>2, <1>3, <1>7, <1>9, <1>11 DEF TypeInv
  <1>14. SlideInv'
    <2>1. \A q \in Mains \cup {KernelPath} : slide'[q] = slide[q]  BY <1>5, <1>7, PathFacts
    <2>2. \A q \in Libs \cup {Interp} : slide'[q] \in Slides \cup {-1}
      <3>1. \A q \in Libs \cup {Interp} : q \in Paths  BY PathFacts
      <3> QED  BY <1>3, <1>7, <3>1 DEF SlideInv
    <2>3. main \in Mains  BY <1>4
    <2> QED  BY <1>2, <1>3, <2>1, <2>2, <2>3 DEF SlideInv
  <1>15. SectionInv'
    <2>1. ASSUME NEW i \in DOMAIN sections' PROVE SectionTrue(i)'
      <3>1. CASE i \in DOMAIN sections  BY <3>1, <1>3, <1>11, <1>12, SectionKept
      <3>2. CASE sections'[i] = e
        BY <3>2, <1>5, <1>6, <1>8, <1>9, <1>10 DEF SectionTrue
      <3> QED  BY <3>1, <3>2, <1>11
    <2> QED  BY <2>1 DEF SectionInv
  <1>16. NamedInv'
    <2>1. /\ \A q \in Paths : Executed(q) => Executed(q)'
          /\ \A q \in Paths : FirstMapped(q) => FirstMapped(q)'
          /\ Interprets => Interprets'
      BY <1>3, <1>11, <1>12, NamedKept
    <2>2. FirstMapped(p)'
      <3>1. CASE reported[p] > 0  BY <3>1, <2>1, <1>3, <1>5 DEF NamedInv
      <3>2. CASE reported[p] = 0
        <4>1. e.load_addr = elf_exec_map_vaddr(p) + slide'[p]
          BY <3>2, <1>5, <1>6, <1>10, ExecMap
        <4> QED  BY <4>1, <1>10, <1>11 DEF FirstMapped
      <3>3. reported[p] \in Nat  BY <1>4, <1>5
      <3> QED  BY <3>1, <3>2, <3>3
    <2>3. \A q \in Paths : reported'[q] > 0 => FirstMapped(q)'
      <3> SUFFICES ASSUME NEW q \in Paths, reported'[q] > 0, q # p PROVE FirstMapped(q)'
        BY <2>2
      <3>1. reported[q] > 0  BY <1>9
      <3> QED  BY <3>1, <2>1, <1>3 DEF NamedInv
    <2>4. /\ Mapped' \cap Mains = Mapped \cap Mains
          /\ Interp \in Mapped' => Interp \in Mapped \/ Interp = p
      BY <1>5, <1>7, PathFacts DEF Mapped
    <2> QED  BY <1>2, <1>3, <2>1, <2>2, <2>3, <2>4, PathFacts DEF NamedInv
  <1>17. PhaseInv'  BY <1>2 DEF IInv, PhaseInv
  <1>18. FilterInv'
    <2>1. slide'[main] = slide[main]  BY <1>4, <1>5, <1>7, PathFacts
    <2> QED  BY <1>2, <2>1 DEF IInv, FilterInv
  <1>19. SavedInv'  BY <1>2 DEF IInv, PhaseInv, SavedInv
  <1>20. BuildInv'  BY <1>2 DEF BuildInv
  <1> QED  BY <1>13, <1>14, <1>15, <1>16, <1>17, <1>18, <1>19, <1>20 DEF IInv

-----------------------------------------------------------------------------
(* The mappings of a process are finitely many.                            *)
Mmaps(s) == UNION {{Mmap(p, n, s) : n \in Segments(p)} :
                     p \in {q \in Paths \ {KernelPath} : s[q] # -1}}

LEMMA ImageFinite ==
    ASSUME NEW S, IsFiniteSet(S), NEW f, DOMAIN f = S
    PROVE  IsFiniteSet({f[x] : x \in S})
  <1> DEFINE T == {f[x] : x \in S}
             g == [x \in S |-> f[x]]
  <1>1. g \in Surjection(S, T)  BY DEF Surjection
  <1> HIDE DEF g
  <1> QED  BY <1>1, FS_Surjection

LEMMA MmapsFinite ==
    ASSUME NEW s
    PROVE  IsFiniteSet(Mmaps(s)) /\ Cardinality(Mmaps(s)) \in Nat
  <1> DEFINE P == {q \in Paths \ {KernelPath} : s[q] # -1}
             M(p) == {Mmap(p, n, s) : n \in Segments(p)}
             f == [p \in P |-> M(p)]
  <1>1. IsFiniteSet(P)
    <2>1. P \in SUBSET Paths  OBVIOUS
    <2> QED  BY <2>1, PathAssumption, FS_Subset DEF PathAssumption
  <1>2. ASSUME NEW p \in P PROVE IsFiniteSet(M(p))
    <2> DEFINE g == [n \in Segments(p) |-> Mmap(p, n, s)]
    <2>1. IsFiniteSet(Segments(p))
      <3>1. Len(Elf[p].loads) \in Nat /\ Segments(p) \in SUBSET (1..Len(Elf[p].loads))
        BY FirstSegment, ElfFields
      <3>2. IsFiniteSet(1..Len(Elf[p].loads))
        <4>1. 1 \in Int /\ Len(Elf[p].loads) \in Int  BY <3>1
        <4> QED  BY <4>1, FS_Interval
      <3> QED  BY <3>1, <3>2, FS_Subset
    <2>2. DOMAIN g = Segments(p) /\ M(p) = {g[n] : n \in Segments(p)}  OBVIOUS
    <2> HIDE DEF g, M
    <2>3. IsFiniteSet({g[n] : n \in Segments(p)})  BY <2>1, <2>2, ImageFinite
    <2> QED  BY <2>2, <2>3
  <1>3. DOMAIN f = P /\ {f[p] : p \in P} = {M(p) : p \in P}  OBVIOUS
  <1>4. IsFiniteSet({M(p) : p \in P})
    <2> HIDE DEF f, M, P
    <2>1. IsFiniteSet({f[p] : p \in P})  BY <1>1, <1>3, ImageFinite
    <2> QED  BY <2>1, <1>3
  <1>5. IsFiniteSet(UNION {M(p) : p \in P})
    <2>1. \A T \in {M(p) : p \in P} : IsFiniteSet(T)  BY <1>2
    <2> HIDE DEF M, P
    <2> QED  BY <2>1, <1>4, FS_UNION
  <1>6. IsFiniteSet(Mmaps(s))  BY <1>5 DEF Mmaps
  <1> QED  BY <1>6, FS_CardinalityType

LEMMA MaxSegment ==
    ASSUME NEW p \in Paths
    PROVE  Max(Segments(p)) \in Segments(p) /\ Max(Segments(p)) \in Nat \ {0}
  <1>1. Len(Elf[p].loads) \in Nat /\ Segments(p) \subseteq 1..Len(Elf[p].loads) /\ Segments(p) # {}
        /\ Segments(p) \subseteq Nat \ {0}
    BY FirstSegment, ElfFields
  <1> QED  BY <1>1, MaxOfIndices

(* The sections a process is attached with.                                *)
LEMMA Attached ==
    ASSUME IInv, phase = "setup", mode = "trace",
           sections' \in process_exec_mmaps(slide),
           reported' = [p \in Paths |-> IF p \in Mapped \ {KernelPath}
                                        THEN Max(Segments(p)) ELSE 0],
           phase' = "trace",
           UNCHANGED <<mode, main, slide, execs>>
    PROVE  TypeInv' /\ SlideInv' /\ SectionInv' /\ NamedInv'
  <1> DEFINE all == Mmaps(slide)
             Here == {q \in Paths \ {KernelPath} : slide[q] # -1}
  <1>1. TypeInv /\ SlideInv  BY DEF IInv
  <1>2. /\ sections' \in [1..Cardinality(all) -> all] /\ Range(sections') = all
    BY DEF process_exec_mmaps, Mmaps
  <1>3. \A p \in Here : p \in Paths /\ p # KernelPath /\ slide[p] \in Nat /\ slide[p] # -1
    BY <1>1, SlideType
  <1>4. ASSUME NEW x \in all
        PROVE  \E p \in Here : \E n \in Segments(p) : x = Mmap(p, n, slide)
    BY DEF Mmaps
  <1>5. \A p \in Here : \A n \in Segments(p) : Mmap(p, n, slide) \in all
    BY DEF Mmaps
  <1>6. all \subseteq Section  BY <1>3, <1>4, MmapIs
  <1>7. sections' \in Seq(Section)
    <2>1. Cardinality(all) \in Nat  BY MmapsFinite
    <2> HIDE DEF all
    <2>2. sections' \in Seq(all)  BY <1>2, <2>1
    <2> QED  BY <1>6, <2>2, SeqMonotonic
  <1>8. /\ reported' \in [Paths -> Nat]
        /\ \A p \in Paths : reported'[p] > 0 <=> p \in Here
    <2>1. \A p \in Paths : p \in Mapped \ {KernelPath} <=> p \in Here  BY DEF Mapped
    <2> QED  BY <2>1, MaxSegment
  <1>9. TypeInv'  BY <1>1, <1>7, <1>8 DEF TypeInv
  <1>10. SlideInv'  BY <1>1 DEF SlideInv
  <1>d. \A i \in DOMAIN sections' : sections'[i] \in all  BY <1>2
  <1> HIDE DEF all
  <1>11. SectionInv'
    <2>1. ASSUME NEW i \in DOMAIN sections' PROVE SectionTrue(i)'
      <3>1. sections'[i] \in all  BY <1>d
      <3>2. PICK p \in Here : \E n \in Segments(p) : sections'[i] = Mmap(p, n, slide)
        BY <1>4, <3>1
      <3>3. PICK n \in Segments(p) : sections'[i] = Mmap(p, n, slide)  BY <3>2
      <3>4. /\ sections'[i].type = "MMAP" /\ sections'[i].path = p
            /\ sections'[i].load_addr = trunc_page(Elf[p].loads[n].vaddr) + slide[p]
        BY <1>3, <3>3, MmapIs
      <3> QED  BY <1>3, <1>8, <3>4 DEF SectionTrue
    <2> QED  BY <2>1 DEF SectionInv
  <1>12. ASSUME NEW p \in Here PROVE FirstMapped(p)'
    <2> DEFINE n == Min(Segments(p))
    <2>1. n \in Segments(p)  BY <1>3, FirstSegment
    <2>2. Mmap(p, n, slide) \in Range(sections')  BY <1>2, <1>5, <2>1
    <2>3. PICK i \in DOMAIN sections' : sections'[i] = Mmap(p, n, slide)  BY <2>2 DEF Range
    <2>4. /\ sections'[i].type = "MMAP" /\ sections'[i].path = p
          /\ sections'[i].load_addr = trunc_page(Elf[p].loads[n].vaddr) + slide[p]
      <3> HIDE DEF n
      <3> QED  BY <1>3, <2>1, <2>3, MmapIs
    <2>5. elf_exec_map_vaddr(p) = trunc_page(Elf[p].loads[n].vaddr)  BY <1>3, ExecMap
    <2> QED  BY <2>3, <2>4, <2>5 DEF FirstMapped
  <1>13. NamedInv'
    <2>1. \A p \in Paths : reported'[p] > 0 => FirstMapped(p)'  BY <1>8, <1>12
    <2>2. Mapped' = Here \cup {KernelPath}
      BY <1>1, PathFacts DEF Mapped, SlideInv
    <2>3. \A p \in Mapped' \cap Mains : p \in Here  BY <2>2, PathFacts
    <2>4. Interp \in Mapped' => Interp \in Here  BY <2>2, PathFacts
    <2> QED  BY <1>12, <2>1, <2>3, <2>4 DEF NamedInv
  <1> QED  BY <1>9, <1>10, <1>11, <1>13

(* The trace starts: the filter is resolved, the sections are seeded.      *)
LEMMA StartTraceStep ==
    ASSUME IInv, StartTrace
    PROVE  IInv'
  <1>1. /\ phase = "setup" /\ mode' = mode /\ main' = main /\ slide' = slide /\ execs' = execs
        /\ saved' = saved /\ next' = next /\ image' = image /\ syms' = syms
        /\ table' = table /\ pc' = pc
    BY DEF StartTrace, built, search
  <1>2. /\ sections = <<>> /\ execs = 0 /\ \A p \in Paths : reported[p] = 0
        /\ mode = "exec" => slide = Nowhere
        /\ filter = <<>> /\ next = 1 /\ image = {} /\ syms = <<>>
        /\ pc = "idle" /\ saved = <<>>
    BY <1>1 DEF IInv, PhaseInv
  <1>3. TypeInv /\ SlideInv /\ SectionInv /\ NamedInv  BY DEF IInv
  <1>m. mode \in {"exec", "trace"}  BY <1>3 DEF TypeInv
  <1>4. PICK spec \in Specs :
          \/ /\ Resolves(spec)
             /\ filter' = resolve_range_specs(spec)
             /\ phase' = "trace"
             /\ IF mode = "exec" THEN UNCHANGED <<sections, reported>>
                ELSE /\ sections' \in process_exec_mmaps(slide)
                     /\ reported' = [p \in Paths |-> IF p \in Mapped \ {KernelPath}
                                                     THEN Max(Segments(p)) ELSE 0]
          \/ /\ ~Resolves(spec)
             /\ phase' = "exit" /\ UNCHANGED <<filter, sections, reported>>
    BY DEF StartTrace
  <1>5. phase' \in {"trace", "exit"} /\ (phase' = "exit" => filter' = <<>>)
    BY <1>2, <1>4
  <1>6. PhaseInv'  BY <1>1, <1>2, <1>5 DEF PhaseInv
  <1>7. SavedInv'  BY <1>1, <1>2 DEF SavedInv
  <1>8. BuildInv'  BY <1>5 DEF BuildInv
  <1>9. FilterInv'
    <2>1. CASE filter' = <<>>  BY <2>1 DEF FilterInv
    <2>2. CASE Resolves(spec) /\ filter' = resolve_range_specs(spec)
      <3>1. ASSUME NEW i \in DOMAIN filter'
            PROVE  /\ i \in DOMAIN spec /\ spec[i] # 0
                   /\ filter'[i].to = resolve_symbol_in_elf(filter'[i].sym, compute_slide(main))
        <4> DEFINE D == {j \in DOMAIN spec : spec[j] # 0}
        <4>1. filter' = [j \in D |->
                 [sym |-> Elf[main].syms[spec[j]],
                  to  |-> resolve_symbol_in_elf(Elf[main].syms[spec[j]], compute_slide(main))]]
          BY <2>2 DEF resolve_range_specs
        <4>2. i \in D  BY <4>1
        <4>3. filter'[i] = [sym |-> Elf[main].syms[spec[i]],
                  to |-> resolve_symbol_in_elf(Elf[main].syms[spec[i]], compute_slide(main))]
          BY <4>1, <4>2
        <4> QED  BY <4>2, <4>3
      <3>2. ASSUME NEW i \in DOMAIN filter', mode = "exec"
            PROVE  /\ ~Elf[main].pie /\ compute_slide(main) = 0
        <4>1. spec[i] \in Range(spec) \ {0}  BY <3>1 DEF Range
        <4> QED  BY <2>2, <3>2, <4>1 DEF Resolves, Resolvable, compute_slide
      <3>3. mode = "trace" =>
              compute_slide(main) = (elf_exec_map_vaddr(main) + slide[main]) - elf_base_vaddr(main)
        BY DEF compute_slide, process_load_addr, elf_exec_map_vaddr
      <3> QED  BY <1>1, <3>1, <3>2, <3>3 DEF FilterInv
    <2> QED  BY <1>2, <1>4, <2>1, <2>2
  <1>10. TypeInv' /\ SlideInv' /\ SectionInv' /\ NamedInv'
    <2>1. CASE UNCHANGED <<sections, reported>> /\ (phase' = "exit" \/ mode = "exec")
      <3>1. TypeInv' /\ SlideInv'  BY <1>1, <1>3, <1>5, <2>1 DEF TypeInv, SlideInv
      <3>2. SectionInv'  BY <1>2, <2>1 DEF SectionInv
      <3>3. \A p \in Paths : ~(reported'[p] > 0)  BY <1>2, <2>1
      <3>4. CASE phase' = "exit"  BY <3>1, <3>2, <3>3, <3>4 DEF NamedInv
      <3>5. CASE mode = "exec"
        <4>1. Mapped' \cap Mains = {} /\ Interp \notin Mapped'
          BY <1>1, <1>2, <3>5, PathFacts DEF Mapped, Nowhere
        <4>2. NamedInv'  BY <3>3, <4>1 DEF NamedInv
        <4> QED  BY <3>1, <3>2, <4>2
      <3> QED  BY <2>1, <3>4, <3>5
    <2>2. CASE /\ mode = "trace" /\ phase' = "trace" /\ sections' \in process_exec_mmaps(slide)
               /\ reported' = [p \in Paths |-> IF p \in Mapped \ {KernelPath}
                                               THEN Max(Segments(p)) ELSE 0]
      BY <1>1, <2>2, Attached
    <2> QED  BY <1>4, <1>m, <2>1, <2>2
  <1> QED  BY <1>6, <1>7, <1>8, <1>9, <1>10 DEF IInv

-----------------------------------------------------------------------------
(* The theorems.                                                           *)

(* The invariant of Image: what the sections say of the process is so, and *)
(* the image and the symbols are those of the sections added.              *)
THEOREM ImageInvariance == Spec => []IInv
  <1>1. IInv /\ [Next]_vars => IInv'
    <2> SUFFICES ASSUME IInv, [Next]_vars PROVE IInv'  OBVIOUS
    <2>1. CASE StartTrace  BY <2>1, StartTraceStep
    <2>2. CASE Exec  BY <2>2, ExecStep
    <2>3. CASE MapSegment  BY <2>3, MapSegmentStep
    <2>4. CASE StopTrace  BY <2>4, StopTraceStep
    <2>5. CASE SaveBuffer  BY <2>5, SaveBufferStep
    <2>6. CASE DecodeSaved  BY <2>6, DecodeSavedStep
    <2>7. CASE AddSection  BY <2>7, AddSectionStep
    <2>8. CASE ImageBuilt  BY <2>8, ImageBuiltStep
    <2>9. CASE Lookup  BY <2>9, LookupStep
    <2>10. CASE Exited \/ UNCHANGED vars  BY <2>10, StutterStep DEF Exited
    <2> QED  BY <2>1, <2>2, <2>3, <2>4, <2>5, <2>6, <2>7, <2>8, <2>9, <2>10 DEF Next
  <1> QED  BY <1>1, InitHolds, PTL DEF Spec

(* The lookups of the decoder implement the binary search of symbols.c on  *)
(* a sorted table: ImageBuilt installs one, before the first lookup.       *)
THEOREM LookupRefined == Spec => LookupSpec
  <1>1. Init => LookupInit  BY DEF Init
  <1>2. IInv /\ IInv' /\ [Next]_vars => [LookupNext]_<<table, search>>
    <2> SUFFICES ASSUME IInv, IInv', [Next]_vars
                 PROVE  LookupNext \/ UNCHANGED <<table, search>>
      OBVIOUS
    <2>1. CASE ImageBuilt
      <3>1. phase = "build" /\ UNCHANGED search  BY <2>1 DEF ImageBuilt
      <3>2. pc = "idle"  BY <3>1 DEF IInv, PhaseInv
      <3>3. CASE phase' = "ready"
        <4>1. IsTable(table')  BY <3>3 DEF IInv, BuildInv
        <4> QED  BY <3>1, <3>2, <4>1 DEF Install, LookupNext
      <3>4. CASE phase' # "ready"  BY <2>1, <3>1, <3>4 DEF ImageBuilt
      <3> QED  BY <3>3, <3>4
    <2>2. CASE Lookup
      <3>1. CASE \E a \in Ips : sym_table_lookup(a)
        <4>1. PICK a \in Ips : sym_table_lookup(a)  BY <3>1
        <4>2. a \in Nat  BY ImageAssumption
        <4>3. ip' = a  BY <4>1 DEF sym_table_lookup
        <4> QED  BY <4>1, <4>2, <4>3 DEF LookupNext
      <3>2. CASE Probe \/ LookupDone \/ LookupReturn  BY <3>2 DEF LookupNext
      <3> QED  BY <2>2, <3>1, <3>2 DEF Lookup
    <2>3. CASE \/ StartTrace \/ Exec \/ MapSegment \/ StopTrace
               \/ SaveBuffer \/ DecodeSaved \/ AddSection
      BY <2>3 DEF StartTrace, Exec, MapSegment, StopTrace, SaveBuffer, DecodeSaved, AddSection
    <2>4. CASE Exited \/ UNCHANGED vars  BY <2>4 DEF Exited, vars
    <2> QED  BY <2>1, <2>2, <2>3, <2>4 DEF Next
  <1> QED  BY <1>1, <1>2, ImageInvariance, PTL DEF Spec, LookupSpec

(* So sym_table_lookup finds the last entry at or below the address in     *)
(* every table build_pt_image makes.                                       *)
THEOREM ImageFindsLast == Spec => []FindsLast
  BY LookupRefined, LookupFindsLast, PTL

-----------------------------------------------------------------------------
(* The part saved.                                                         *)

LEMMA ChosenIsLength ==
    ASSUME NEW b \in Buffers, NEW named \in BOOLEAN
    PROVE  choose_snapshot_len(b, 1, TRUE, named) \in Nat
  <1>1. b.last \in Nat /\ known_end(b) \in Nat  BY BufferFields, KnownEndIsLength
  <1>2. \/ choose_snapshot_len(b, 1, TRUE, named) = b.last
        \/ choose_snapshot_len(b, 1, TRUE, named) = known_end(b)
    BY DEF choose_snapshot_len
  <1> QED  BY <1>1, <1>2

LEMMA DecodableBound ==
    ASSUME NEW b \in Buffers, NEW named \in BOOLEAN
    PROVE  Max({0} \cup b.code \cup b.other) <= choose_snapshot_len(b, 1, TRUE, named)
  <1> DEFINE all == b.code \cup b.other
             S == {0} \cup b.code \cup b.other
             len == choose_snapshot_len(b, 1, TRUE, named)
  <1>1. len \in Nat  BY ChosenIsLength
  <1>2. \A u \in all : u <= len  BY NothingDecodableCut
  <1>3. BufUnits \in Nat /\ all \subseteq 1..BufUnits
    BY BufferFields, SnapshotAssumption
  <1>4. \E x \in S : \A y \in S : x >= y
    <2>1. CASE all = {}
      <3>1. S = {0}  BY <2>1
      <3> QED  BY <3>1
    <2>2. CASE all # {}
      <3> DEFINE m == Max(all)
      <3>1. m \in all /\ \A y \in all : y <= m
        <4> HIDE DEF all
        <4> QED  BY <1>3, <2>2, MaxOfIndices
      <3> HIDE DEF m
      <3>2. m \in S /\ m \in Nat /\ \A y \in all : y \in Nat  BY <1>3, <3>1
      <3>3. \A y \in S : y = 0 \/ y \in all  OBVIOUS
      <3>4. \A y \in S : m >= y  BY <3>1, <3>2, <3>3
      <3> QED  BY <3>2, <3>4
    <2> QED  BY <2>1, <2>2
  <1>5. Max(S) \in S  BY <1>4 DEF Max
  <1>6. Max(S) = 0 \/ Max(S) \in all  BY <1>5
  <1> HIDE DEF all, len, S
  <1>7. Max(S) <= len  BY <1>1, <1>2, <1>6
  <1> QED  BY <1>7 DEF S, len

(* The part of the buffer that is saved (trace.c) has every unit from      *)
(* which instructions decode, for the sections there are.                  *)
THEOREM SavedIsWhole == Spec => []SavedWhole
  <1>1. IInv => SavedWhole
    <2> SUFFICES ASSUME IInv, saved # <<>>, Probes
                 PROVE  saved.decodable <= saved.len
      BY DEF SavedWhole
    <2>1. saved \in Outcomes /\ saved.of.works = Probes
          /\ (sections # <<>> => saved.of.nsections = 1)
      BY DEF IInv, SavedInv
    <2>a. PICK q \in Questions : \E b \in Buffers : saved = Outcome(q, b)
      BY <2>1 DEF Outcomes
    <2>b. PICK b \in Buffers : saved = Outcome(q, b)  BY <2>a
    <2>2. saved = [of |-> q, len |-> choose_snapshot_len(b, q.nsections, q.works, q.named),
                     decodable |-> Max({0} \cup b.code \cup b.other)]
      BY <2>b DEF Outcome
    <2>3. q.works \in BOOLEAN /\ q.named \in BOOLEAN  BY DEF Questions
    <2>4. saved.of = q /\ saved.len = choose_snapshot_len(b, q.nsections, q.works, q.named)
          /\ saved.decodable = Max({0} \cup b.code \cup b.other)
      BY <2>2
    <2>5. sections # <<>>  BY DEF Probes
    <2>6. q.works = TRUE  BY <2>1, <2>3, <2>4, Zenon
    <2>7. q.nsections = 1  BY <2>1, <2>4, <2>5
    <2>8. saved.len = choose_snapshot_len(b, 1, TRUE, q.named)  BY <2>4, <2>6, <2>7
    <2> QED  BY <2>3, <2>4, <2>8, DecodableBound
  <1> QED  BY <1>1, ImageInvariance, PTL

-----------------------------------------------------------------------------
(* The image and the symbols.                                              *)

(* What is built once every section was added.                             *)
LEMMA ReadyFacts ==
    ASSUME IInv, phase = "ready"
    PROVE  /\ Reported /\ Len(sections) \in Nat /\ DOMAIN sections = 1..Len(sections)
           /\ image = UNION {ImageOf(i) : i \in DOMAIN sections}
           /\ IsTable(table) /\ Range(table) = UNION {SymsOf(i) : i \in DOMAIN sections}
  <1>1. Reported /\ sections \in Seq(Section)  BY DEF IInv, Reported, TypeInv
  <1>2. Len(sections) \in Nat /\ DOMAIN sections = 1..Len(sections)  BY <1>1, LenProperties
  <1>3. /\ next = Len(sections) + 1 /\ IsTable(table) /\ Range(table) = Range(syms)
        /\ image = UNION {ImageOf(i) : i \in 1..(next - 1)}
        /\ Range(syms) = UNION {SymsOf(i) : i \in 1..(next - 1)}
    BY DEF IInv, BuildInv
  <1>4. 1..(next - 1) = DOMAIN sections  BY <1>2, <1>3
  <1> QED  BY <1>1, <1>2, <1>3, <1>4

(* A file added is mapped, and added at its slide.                         *)
LEMMA FileAdded ==
    ASSUME Reported, NEW i \in DOMAIN sections, NEW k \in DOMAIN Contributes(sections, i)
    PROVE  LET c == Contributes(sections, i)[k]
           IN  /\ c.path \in Mapped /\ c.path \in Paths
               /\ add_elf_to_image(c.path, c.load) = At(c.path)
               /\ Range(sym_table_add_elf(c.path, c.load)) = FunctionsAt(c.path, slide[c.path])
               /\ file_ranges(c.path, c.load) \in Seq(Segment)
               /\ Range(file_ranges(c.path, c.load)) = At(c.path)
  <1> DEFINE c == Contributes(sections, i)[k]
             p == c.path
  <1>1. p \in Paths /\ slide[p] # -1 /\ c.load = elf_base_vaddr(p) + slide[p]
    BY ContributesTrue DEF Base
  <1>2. slide[p] \in Nat  BY <1>1, SlideType, ReportedFacts
  <1>3. At(p) = SegmentsAt(p, slide[p])  BY DEF At, SegmentsAt
  <1>4. p \in Mapped  BY <1>1 DEF Mapped
  <1> HIDE DEF c
  <1>5. add_elf_to_image(p, c.load) = At(p)  BY <1>1, <1>2, <1>3, ImageAtSlide
  <1>6. Range(sym_table_add_elf(p, c.load)) = FunctionsAt(p, slide[p])
    BY <1>1, <1>2, FileFunctions
  <1>7. file_ranges(p, c.load) \in Seq(Segment) /\ Range(file_ranges(p, c.load)) = At(p)
    BY <1>1, <1>2, <1>3, FileRanges
  <1> QED  BY <1>1, <1>4, <1>5, <1>6, <1>7 DEF c

(* The image build_pt_image makes has the segments of every file the       *)
(* process runs, at the addresses at which they run, and no others.        *)
THEOREM ImageIsTrue == Spec => []ImageTrue
  <1>1. ASSUME IInv, phase = "ready"
        PROVE  /\ \A s \in image : slide[s.path] # -1 /\ s \in At(s.path)
               /\ \A p \in Known : At(p) \subseteq image
    <2>1. Reported /\ image = UNION {ImageOf(i) : i \in DOMAIN sections}
      BY <1>1, ReadyFacts
    <2>2. ASSUME NEW s \in image PROVE slide[s.path] # -1 /\ s \in At(s.path)
      <3>1. PICK i \in DOMAIN sections : s \in ImageOf(i)  BY <2>1
      <3>2. PICK k \in DOMAIN Contributes(sections, i) :
              s \in add_elf_to_image(Contributes(sections, i)[k].path,
                                     Contributes(sections, i)[k].load)
        BY <3>1 DEF ImageOf
      <3> DEFINE p == Contributes(sections, i)[k].path
      <3>3. p \in Mapped /\ s \in At(p)  BY <2>1, <3>2, FileAdded
      <3> HIDE DEF p
      <3>4. s.path = p  BY <3>3 DEF At
      <3> QED  BY <3>3, <3>4 DEF Mapped
    <2>3. ASSUME NEW p \in Known PROVE At(p) \subseteq image
      <3>1. Contributed(p)  BY <1>1, <2>1, KnownContributed
      <3>2. PICK i \in DOMAIN sections : \E k \in DOMAIN Contributes(sections, i) :
              Contributes(sections, i)[k] = Own(p)
        BY <3>1 DEF Contributed
      <3>3. PICK k \in DOMAIN Contributes(sections, i) : Contributes(sections, i)[k] = Own(p)
        BY <3>2
      <3>4. Contributes(sections, i)[k].path = p  BY <3>3 DEF Own
      <3>5. add_elf_to_image(Contributes(sections, i)[k].path,
                             Contributes(sections, i)[k].load) = At(p)
        BY <2>1, <3>4, FileAdded
      <3>6. At(p) \subseteq ImageOf(i)  BY <3>5 DEF ImageOf
      <3> QED  BY <2>1, <3>6
    <2> QED  BY <2>2, <2>3
  <1>2. IInv => ImageTrue  BY <1>1 DEF ImageTrue
  <1> QED  BY <1>2, ImageInvariance, PTL

(* The entries of the table are the functions of files that are mapped,    *)
(* with all of those known.                                                *)
LEMMA TableIs ==
    ASSUME IInv, phase = "ready"
    PROVE  /\ \A e \in Range(table) : e \in Functions_
           /\ \A p \in Known : FunctionsAt(p, slide[p]) \subseteq Range(table)
  <1>1. Reported /\ Range(table) = UNION {SymsOf(i) : i \in DOMAIN sections}
    BY ReadyFacts
  <1>2. Functions_ = UNION {FunctionsAt(p, slide[p]) : p \in Mapped}
    BY DEF Functions_, FunctionsAt
  <1>3. ASSUME NEW e \in Range(table) PROVE e \in Functions_
    <2>1. PICK i \in DOMAIN sections : e \in SymsOf(i)  BY <1>1, <1>3
    <2>2. PICK k \in DOMAIN Contributes(sections, i) :
            e \in Range(sym_table_add_elf(Contributes(sections, i)[k].path,
                                          Contributes(sections, i)[k].load))
      BY <2>1 DEF SymsOf
    <2> DEFINE p == Contributes(sections, i)[k].path
    <2>3. p \in Mapped /\ e \in FunctionsAt(p, slide[p])  BY <1>1, <2>2, FileAdded
    <2> HIDE DEF p
    <2> QED  BY <1>2, <2>3
  <1>4. ASSUME NEW p \in Known PROVE FunctionsAt(p, slide[p]) \subseteq Range(table)
    <2>1. Contributed(p)  BY <1>1, KnownContributed
    <2>2. PICK i \in DOMAIN sections : \E k \in DOMAIN Contributes(sections, i) :
            Contributes(sections, i)[k] = Own(p)
      BY <2>1 DEF Contributed
    <2>3. PICK k \in DOMAIN Contributes(sections, i) : Contributes(sections, i)[k] = Own(p)
      BY <2>2
    <2>4. Contributes(sections, i)[k].path = p  BY <2>3 DEF Own
    <2>5. Range(sym_table_add_elf(Contributes(sections, i)[k].path,
                                  Contributes(sections, i)[k].load)) = FunctionsAt(p, slide[p])
      BY <1>1, <2>4, FileAdded
    <2>6. FunctionsAt(p, slide[p]) \subseteq SymsOf(i)  BY <2>5 DEF SymsOf
    <2> QED  BY <1>1, <2>6
  <1> QED  BY <1>3, <1>4

(* The name of a function tells its file.                                  *)
LEMMA NameOfFunction ==
    ASSUME NEW f \in Functions_
    PROVE  \E p \in Mapped : f \in FunctionsAt(p, slide[p]) /\ f.name[1] = p
  <1>1. PICK p \in Mapped : f \in FunctionsAt(p, slide[p])
    BY DEF Functions_, FunctionsAt
  <1>2. p \in Paths  BY DEF Mapped
  <1>3. PICK n \in DOMAIN Elf[p].syms : f.name = Elf[p].syms[n].name
    BY <1>1 DEF FunctionsAt, Range
  <1>4. f.name[1] = p  BY <1>2, <1>3, SymFields
  <1> QED  BY <1>1, <1>4

(* A symbol found is a function mapped at the instruction.  Of the         *)
(* functions at the address of the one that holds the instruction one is   *)
(* found, whatever their sizes, and returned unless it is another one that *)
(* ends before the instruction.                                            *)
THEOREM LookupIsTrue == Spec => []LookupTrue
  <1>1. ASSUME IInv, LookupInv, FindsLast, phase = "ready", pc = "found"
        PROVE  LookupTrue
    <2> DEFINE e == table[best + 1]
    <2>1. /\ ip \in Nat /\ IsTable(table) /\ Len(table) \in Nat
          /\ best \in -1..(Len(table) - 1) /\ (best >= 0 => Addr(best) <= ip)
          /\ \A i \in 0..(Len(table) - 1) : Addr(i) <= ip => i <= best
          /\ table \in Seq(Entry)
      BY <1>1 DEF LookupInv, LookupTypes, FindsLast, IsTable, Entry
    <2>2. ASSUME best >= 0
          PROVE  /\ e \in Range(table) /\ e \in Functions_ /\ e.addr <= ip
                 /\ e.addr \in Nat /\ e.size \in Nat
                 /\ Size(best) = e.size /\ Addr(best) = e.addr
      <3>1. best + 1 \in 1..Len(table) /\ DOMAIN table = 1..Len(table)
        BY <2>1, <2>2, LenProperties
      <3>2. e \in Entry  BY <2>1, <3>1, ElementOfSeq
      <3>3. e \in Range(table)  BY <3>1 DEF Range
      <3>4. e \in Functions_  BY <1>1, <3>3, TableIs
      <3>5. Addr(best) = e.addr /\ Size(best) = e.size  BY DEF Addr, Size
      <3> HIDE DEF e
      <3> QED  BY <2>1, <2>2, <3>2, <3>3, <3>4, <3>5 DEF Entry
    <2> HIDE DEF e
    <2>3. ASSUME Hit
          PROVE  e \in Functions_ /\ Holds(e, ip)
      <3>1. best >= 0 /\ IF Size(best) > 0 THEN ip < Addr(best) + Size(best)
                         ELSE ip - Addr(best) <= Fallback
        BY <2>3 DEF Hit
      <3>2. Fallback \in Nat  BY FallbackAssumption
      <3> QED  BY <2>1, <2>2, <3>1, <3>2 DEF Holds
    <2>4. ASSUME NEW f \in Functions_, \E p \in Known : f.name[1] = p,
                 f.addr <= ip, ip < f.addr + f.size,
                 \A g \in Functions_ : g.addr <= ip => g.addr <= f.addr
          PROVE  /\ best >= 0 /\ e \in Functions_ /\ e.addr = f.addr
                 /\ Hit \/ (e # f /\ ~Holds(e, ip))
      <3>1. PICK p \in Mapped : f \in FunctionsAt(p, slide[p]) /\ f.name[1] = p
        BY NameOfFunction
      <3>2. p \in Known  BY <2>4, <3>1
      <3>3. f \in Range(table)  BY <1>1, <3>1, <3>2, TableIs
      <3>4. PICK k \in DOMAIN table : table[k] = f  BY <3>3 DEF Range
      <3>5. k \in 1..Len(table)  BY <2>1, <3>4, LenProperties
      <3>6. f \in Entry  BY <2>1, <3>4, <3>5, ElementOfSeq
      <3>7. f.addr \in Nat /\ f.size \in Nat  BY <3>6 DEF Entry
      <3>8. k - 1 \in 0..(Len(table) - 1) /\ (k - 1) + 1 = k  BY <2>1, <3>5
      <3>9. Addr(k - 1) = f.addr  BY <3>4, <3>8 DEF Addr
      <3>10. k - 1 <= best  BY <2>1, <2>4, <3>8, <3>9
      <3>11. best >= 0  BY <2>1, <3>8, <3>10
      <3>12. e \in Functions_ /\ e.addr <= ip /\ e.addr \in Nat /\ e.size \in Nat
             /\ Size(best) = e.size /\ Addr(best) = e.addr
        BY <2>2, <3>11
      <3>13. e.addr <= f.addr  BY <2>4, <3>12
      <3>14. f.addr <= e.addr
        <4>1. k \in 1..Len(table) /\ best + 1 \in 1..Len(table) /\ k <= best + 1
          BY <2>1, <3>5, <3>10, <3>11
        <4>2. table[k].addr <= table[best + 1].addr  BY <2>1, <4>1 DEF IsTable
        <4> QED  BY <3>4, <4>2 DEF e
      <3>15. e.addr = f.addr  BY <3>7, <3>12, <3>13, <3>14
      <3>16. Fallback \in Nat  BY FallbackAssumption
      <3>17. Hit <=> Holds(e, ip)
        BY <2>1, <3>11, <3>12, <3>16 DEF Hit, Holds
      <3>18. e = f => Holds(e, ip)  BY <2>4, <3>12 DEF Holds
      <3> QED  BY <3>11, <3>12, <3>15, <3>17, <3>18
    <2> QED  BY <2>3, <2>4 DEF LookupTrue, e
  <1>2. IInv /\ LookupInv /\ FindsLast => LookupTrue  BY <1>1 DEF LookupTrue
  <1>3. Spec => []LookupInv  BY LookupRefined, SearchInvariance, PTL
  <1> QED  BY <1>2, <1>3, ImageInvariance, ImageFindsLast, PTL

-----------------------------------------------------------------------------
(* The ranges of the fallback.                                             *)

(* The ranges of build_bin_ranges, before they are cut off.                *)
LEMMA RangesAre ==
    ASSUME IInv, phase = "ready"
    PROVE  \E all \in Seq(Segment) :
             /\ build_bin_ranges(sections) = SubSeq(all, 1, Min({Len(all), MaxRanges}))
             /\ \A s \in Range(all) : s.path \in Mapped /\ s \in At(s.path)
             /\ \A p \in Known : At(p) \subseteq Range(all)
  <1> DEFINE D == DOMAIN sections
             cs == [i \in D |-> Contributes(sections, i)]
             files == FlattenSeq(cs)
             E == DOMAIN files
             rs == [i \in E |-> file_ranges(files[i].path, files[i].load)]
             all == FlattenSeq(rs)
  <1>1. Reported /\ Len(sections) \in Nat /\ D = 1..Len(sections)  BY ReadyFacts
  <1>2. \A i \in D : Contributes(sections, i) \in Seq(Contribution)  BY <1>1, ContributesTrue
  <1>3. build_bin_ranges(sections) = SubSeq(all, 1, Min({Len(all), MaxRanges}))
    BY DEF build_bin_ranges
  <1>4. cs \in Seq(Seq(Contribution)) /\ DOMAIN cs = D
        /\ \A i \in D : cs[i] = Contributes(sections, i)
    <2> HIDE DEF D
    <2> QED  BY <1>1, <1>2
  <1>5. files \in Seq(Contribution) /\ Range(files) = UNION {Range(cs[i]) : i \in D}
    <2> HIDE DEF cs
    <2> QED  BY <1>4, FlattenRange DEF Flattens
  <1> HIDE DEF cs, files
  <1>6. Len(files) \in Nat /\ E = 1..Len(files)  BY <1>5, LenProperties
  <1>7. ASSUME NEW j \in E
        PROVE  \E i \in D : \E k \in DOMAIN Contributes(sections, i) :
                  files[j] = Contributes(sections, i)[k]
    <2>1. files[j] \in Range(files)  BY DEF Range
    <2> QED  BY <1>4, <1>5, <2>1 DEF Range
  <1>8. ASSUME NEW j \in E
        PROVE  /\ files[j].path \in Mapped
               /\ file_ranges(files[j].path, files[j].load) \in Seq(Segment)
               /\ Range(file_ranges(files[j].path, files[j].load)) = At(files[j].path)
    <2>1. PICK i \in D : \E k \in DOMAIN Contributes(sections, i) :
                  files[j] = Contributes(sections, i)[k]
      BY <1>7
    <2>2. PICK k \in DOMAIN Contributes(sections, i) : files[j] = Contributes(sections, i)[k]
      BY <2>1
    <2> QED  BY <1>1, <2>2, FileAdded
  <1>9. /\ rs \in Seq(Seq(Segment)) /\ DOMAIN rs = E
        /\ \A j \in E : rs[j] = file_ranges(files[j].path, files[j].load)
    <2> HIDE DEF E
    <2> QED  BY <1>6, <1>8
  <1>10. all \in Seq(Segment) /\ Range(all) = UNION {Range(rs[j]) : j \in E}
    <2> HIDE DEF rs
    <2> QED  BY <1>9, FlattenRange DEF Flattens
  <1> HIDE DEF rs, all
  <1>11. ASSUME NEW s \in Range(all) PROVE s.path \in Mapped /\ s \in At(s.path)
    <2>1. PICK j \in E : s \in Range(rs[j])  BY <1>10
    <2> DEFINE p == files[j].path
    <2>2. p \in Mapped /\ s \in At(p)  BY <1>8, <1>9, <2>1
    <2> HIDE DEF p
    <2>3. s.path = p  BY <2>2 DEF At
    <2> QED  BY <2>2, <2>3
  <1>12. ASSUME NEW p \in Known PROVE At(p) \subseteq Range(all)
    <2>1. PICK i \in D : \E k \in DOMAIN Contributes(sections, i) :
            Contributes(sections, i)[k] = Own(p)
      BY <1>1, KnownContributed DEF Contributed
    <2>2. Own(p) \in Range(Contributes(sections, i))  BY <2>1 DEF Range
    <2>3. Own(p) \in Range(files)  BY <1>4, <1>5, <2>2
    <2>4. PICK j \in E : files[j] = Own(p)  BY <2>3 DEF Range
    <2>5. Range(rs[j]) = At(p)
      <3>1. files[j].path = p  BY <2>4 DEF Own
      <3> QED  BY <1>8, <1>9, <3>1
    <2> QED  BY <1>10, <2>5
  <1> QED  BY <1>3, <1>10, <1>11, <1>12

(* An address without a symbol is attributed to the file mapped there, or  *)
(* to none.                                                                *)
THEOREM FallbackIsTrue == Spec => []FallbackTrue
  <1>1. ASSUME IInv, phase = "ready" PROVE FallbackTrue
    <2> DEFINE ranges == build_bin_ranges(sections)
    <2>1. PICK all \in Seq(Segment) :
             /\ ranges = SubSeq(all, 1, Min({Len(all), MaxRanges}))
             /\ \A s \in Range(all) : s.path \in Mapped /\ s \in At(s.path)
             /\ \A p \in Known : At(p) \subseteq Range(all)
      BY <1>1, RangesAre
    <2> DEFINE m == Min({Len(all), MaxRanges})
    <2>2. Len(all) \in Nat /\ DOMAIN all = 1..Len(all) /\ MaxRanges \in Nat
      BY ImageAssumption, LenProperties
    <2>3. m \in Nat /\ m <= Len(all) /\ (m = Len(all) \/ m = MaxRanges)
      <3>1. {Len(all), MaxRanges} \subseteq Nat  BY <2>2
      <3>2. m \in {Len(all), MaxRanges} /\ \A y \in {Len(all), MaxRanges} : m <= y
        BY <3>1, MinIsLeast
      <3> QED  BY <2>2, <3>2
    <2> HIDE DEF m
    <2>4. /\ ranges \in Seq(Segment) /\ Len(ranges) = m /\ DOMAIN ranges = 1..m
          /\ \A i \in 1..m : i \in DOMAIN all /\ ranges[i] = all[i]
      <3>1. ranges = SubSeq(all, 1, m)  BY <2>1 DEF m
      <3>2. \A i \in 1..m : i \in DOMAIN all /\ all[i] \in Segment
        <4> TAKE i \in 1..m
        <4> DEFINE n == Len(all)
        <4>0. n \in Nat /\ m \in Nat /\ m <= n  BY <2>2, <2>3
        <4>1. i \in 1..n
          <5> HIDE DEF n
          <5> QED  BY <4>0
        <4> QED  BY <2>2, <4>1, ElementOfSeq
      <3>3. 1 \in Int /\ m \in Int  BY <2>3
      <3> HIDE DEF ranges
      <3>4. ranges \in Seq(Segment) /\ Len(ranges) = (IF 1 <= m THEN m - 1 + 1 ELSE 0)
            /\ \A i \in 1..(m - 1 + 1) : ranges[i] = all[1 + i - 1]
        BY <3>1, <3>2, <3>3, SubSeqProperties
      <3>5. Len(ranges) = m  BY <2>3, <3>4
      <3>6. DOMAIN ranges = 1..m  BY <3>4, <3>5, LenProperties
      <3>7. \A i \in 1..m : ranges[i] = all[i]
        <4> TAKE i \in 1..m
        <4>1. i \in 1..(m - 1 + 1) /\ 1 + i - 1 = i  BY <2>3
        <4> QED  BY <3>4, <4>1
      <3> QED  BY <3>2, <3>4, <3>5, <3>6, <3>7
    <2> HIDE DEF ranges
    <2>5. ASSUME NEW a \in Ips
          PROVE  LET owners == {p \in Mapped : \E s \in At(p) : a >= s.lo /\ a < s.hi}
                 IN  \/ find_binary_for_ip(ranges, a) \in owners
                     \/ /\ find_binary_for_ip(ranges, a) = "none"
                        /\ owners \cap Known = {} \/ Len(ranges) = MaxRanges
      <3> DEFINE owners == {p \in Mapped : \E s \in At(p) : a >= s.lo /\ a < s.hi}
                 at == {i \in DOMAIN ranges : a >= ranges[i].lo /\ a < ranges[i].hi}
      <3>1. CASE at # {}
        <4> DEFINE i == Min(at)
        <4>1. at \subseteq Nat  BY <2>3, <2>4
        <4>2. i \in at  BY <3>1, <4>1, MinIsLeast
        <4>3. find_binary_for_ip(ranges, a) = ranges[i].path  BY <3>1 DEF find_binary_for_ip
        <4> HIDE DEF i
        <4>4. i \in 1..m /\ a >= ranges[i].lo /\ a < ranges[i].hi  BY <2>4, <4>2
        <4>5. ranges[i] \in Range(all)  BY <2>4, <4>4 DEF Range
        <4>6. ranges[i].path \in Mapped /\ ranges[i] \in At(ranges[i].path)  BY <2>1, <4>5
        <4> QED  BY <4>3, <4>4, <4>6
      <3>2. CASE at = {}
        <4>1. find_binary_for_ip(ranges, a) = "none"  BY <3>2 DEF find_binary_for_ip
        <4>2. ASSUME Len(ranges) # MaxRanges, NEW p \in owners, p \in Known PROVE FALSE
          <5>1. m = Len(all)  BY <2>3, <2>4, <4>2
          <5>2. PICK s \in At(p) : a >= s.lo /\ a < s.hi  BY <4>2
          <5>3. s \in Range(all)  BY <2>1, <4>2, <5>2
          <5>4. PICK i \in DOMAIN all : all[i] = s  BY <5>3 DEF Range
          <5>5. i \in 1..m /\ ranges[i] = s  BY <2>2, <2>4, <5>1, <5>4
          <5>6. i \in at  BY <2>4, <5>2, <5>5
          <5> QED  BY <3>2, <5>6
        <4> QED  BY <4>1, <4>2
      <3> QED  BY <3>1, <3>2
    <2> QED  BY <2>5 DEF FallbackTrue, ranges
  <1>2. IInv => FallbackTrue  BY <1>1 DEF FallbackTrue
  <1> QED  BY <1>2, ImageInvariance, PTL

-----------------------------------------------------------------------------
(* The hardware filter has the run-time addresses of the functions asked   *)
(* for, for bsdtrace exec and for files whose first segment is executable. *)
THEOREM FilterIsTrue == Spec => []FilterTrue
  <1>1. ASSUME IInv, mode = "exec" \/ 1 \in Segments(main), slide[main] # -1,
               mode = "trace" => execs = 0, NEW i \in DOMAIN filter
        PROVE  filter[i].to = resolve_symbol_in_elf(filter[i].sym, slide[main])
    <2>1. /\ TypeInv /\ SlideInv /\ FilterInv /\ mode \in {"exec", "trace"}
          /\ main \in Mains /\ main \in Paths
      <3>1. TypeInv /\ SlideInv /\ FilterInv  BY <1>1 DEF IInv
      <3>2. mode \in {"exec", "trace"} /\ main \in Mains  BY <3>1 DEF TypeInv
      <3> QED  BY <3>1, <3>2, PathFacts
    <2>2. CASE mode = "exec"
      <3>1. ~Elf[main].pie /\ filter[i].to = resolve_symbol_in_elf(filter[i].sym, 0)
        BY <2>1, <2>2 DEF FilterInv
      <3>2. slide[main] \in SlidesOf(main) \cup {-1}  BY <2>1 DEF SlideInv
      <3>3. slide[main] = 0  BY <1>1, <3>1, <3>2 DEF SlidesOf
      <3> QED  BY <3>1, <3>3
    <2>3. CASE mode = "trace"
      <3>1. 1 \in Segments(main)  BY <1>1, <2>3
      <3>2. Min(Segments(main)) = 1
        <4>1. Segments(main) \subseteq Nat \ {0}  BY <2>1, FirstSegment
        <4>2. Segments(main) \subseteq Nat /\ \A y \in Segments(main) : 1 <= y  BY <4>1
        <4> QED  BY <3>1, <4>2, LeastIs
      <3>3. elf_exec_map_vaddr(main) = elf_base_vaddr(main)
        <4>1. elf_exec_map_vaddr(main) = trunc_page(Elf[main].loads[1].vaddr)
          BY <2>1, <3>2, ExecMap
        <4>2. trunc_page(elf_base_vaddr(main)) = elf_base_vaddr(main)  BY <2>1, BaseType
        <4> QED  BY <4>1, <4>2 DEF elf_base_vaddr
      <3>4. slide[main] \in Nat /\ elf_base_vaddr(main) \in Nat
        BY <1>1, <2>1, SlideType, BaseType
      <3>5. (elf_exec_map_vaddr(main) + slide[main]) - elf_base_vaddr(main) = slide[main]
        BY <3>3, <3>4
      <3> QED  BY <1>1, <2>1, <2>3, <3>5 DEF FilterInv
    <2> QED  BY <2>1, <2>2, <2>3
  <1>2. IInv => FilterTrue  BY <1>1 DEF FilterTrue, RangesOfRunning
  <1> QED  BY <1>2, ImageInvariance, PTL
=============================================================================
