------------------------------- MODULE Snapshot -------------------------------
(***************************************************************************)
(* How much of a trace buffer is saved and decoded once tracing has        *)
(* stopped (trace.c).  Lengths are counted in units, of which PageUnits    *)
(* make a page.                                                            *)
(*                                                                         *)
(* A buffer that has not wrapped is described by                           *)
(*   end    the position the hardware has reached,                         *)
(*   last   the end of the last unit with a byte that is not zero: the     *)
(*          trace may end in padding,                                      *)
(*   code   the units from which instructions of the executable decode,    *)
(*   other  the units from which other instructions decode,                *)
(*   stop   what HWT_IOC_BUFPTR_GET says of end: "exact", "page lost" (the *)
(*          offset in the page only) or "failed",                          *)
(*   record the extent of the last BUFFER record, 0 without one.           *)
(***************************************************************************)
EXTENDS Integers, FiniteSets

CONSTANTS PageUnits, BufUnits

ASSUME SnapshotAssumption == PageUnits \in Nat \ {0} /\ BufUnits \in Nat

Buffers ==
    {b \in [end : 0..BufUnits, last : 0..BufUnits, code : SUBSET (1..BufUnits),
            other : SUBSET (1..BufUnits), stop : {"exact", "page lost", "failed"},
            record : 0..BufUnits] :
       /\ b.last <= b.end /\ b.record <= b.end
       /\ b.code \cup b.other \subseteq 1..b.last /\ b.code \cap b.other = {}}

(* snapshot_and_decode: the extent known from the stop pointer, or from    *)
(* the last record when that is missing or ahead.                          *)
known_end(b) ==
    LET stop_len == CASE b.stop = "exact"     -> b.end
                      [] b.stop = "page lost" -> b.end % PageUnits
                      [] b.stop = "failed"    -> 0
    IN  IF stop_len = 0 \/ (b.record > 0 /\ stop_len < b.record) THEN b.record
        ELSE stop_len

(* decode_pt_probe of the first n units: instructions, and those of the    *)
(* executable when a section names it.                                     *)
decode_pt_probe(b, n, named) ==
    [total     |-> Cardinality((b.code \cup b.other) \cap (1..n)),
     exec_hits |-> IF named THEN Cardinality(b.code \cap (1..n)) ELSE 0]

(* Mutant: only instructions of the executable count.                      *)
probe_hits_better(p, q) == p.exec_hits > q.exec_hits

probe_result_better(p, q) ==
    IF p.exec_hits # q.exec_hits THEN p.exec_hits > q.exec_hits
    ELSE p.total > q.total

(* works: there are sections and the image can be built, so that a probe   *)
(* succeeds if it decodes anything.                                        *)
choose_snapshot_len(b, nsections, works, named) ==
    LET base     == known_end(b)
        scan_end == b.last
        p_base   == decode_pt_probe(b, base, named)
        p_scan   == decode_pt_probe(b, scan_end, named)
        base_ok  == works /\ p_base.total > 0
        scan_ok  == works /\ p_scan.total > 0
        chosen   == IF nsections > 0
                    THEN IF \/ scan_ok /\ (~base_ok \/ probe_result_better(p_scan, p_base))
                            \/ ~base_ok /\ ~scan_ok /\ scan_end < base
                         THEN scan_end ELSE base
                    ELSE IF scan_end < base THEN scan_end ELSE base
    IN  IF base = 0 THEN scan_end
        ELSE IF scan_end = 0 \/ scan_end = base THEN base
        ELSE IF chosen = base /\ base < PageUnits /\ scan_end > base THEN scan_end
        ELSE chosen
=============================================================================
