------------------------------- MODULE SymLookup -------------------------------
(***************************************************************************)
(* The symbol table of symbols.c: a table sorted by address and the binary *)
(* search that finds the function of an instruction address.               *)
(*                                                                         *)
(* Indices count from 0 as in the code; a table is a TLA+ sequence, so     *)
(* entry i is table[i + 1].                                                *)
(***************************************************************************)
EXTENDS Integers, Sequences

CONSTANTS
    Names,      \* the functions
    Fallback    \* bytes an entry without a size is taken to cover

ASSUME FallbackAssumption == Fallback \in Nat

VARIABLES
    table,      \* struct sym_table, sorted
    pc,         \* "idle", "search" or "found"
    ip,         \* the address looked up
    lo, hi,     \* what remains of the table
    best        \* the last entry found at or below ip, or -1

search == <<pc, ip, lo, hi, best>>

Addr(i) == table[i + 1].addr
Size(i) == table[i + 1].size

(* A table of struct sym_entry in the order of sym_entry_cmp.              *)
IsTable(t) ==
    /\ t \in Seq([addr : Nat, size : Nat, name : Names])
    /\ \A i, j \in 1..Len(t) : i <= j => t[i].addr <= t[j].addr

(* sym_table_sort: the table only changes between lookups.                 *)
Install ==
    /\ pc = "idle"
    /\ IsTable(table')
    /\ UNCHANGED search

sym_table_lookup(a) ==
    /\ pc = "idle"
    /\ pc' = "search"
    /\ ip' = a /\ lo' = 0 /\ hi' = Len(table) - 1 /\ best' = -1
    /\ UNCHANGED table

(* Mutant: an entry that starts at the address counts as above it.         *)
ProbeBelow ==
    /\ pc = "search" /\ lo <= hi
    /\ LET mid == lo + ((hi - lo) \div 2)
       IN  \/ /\ Addr(mid) < ip
              /\ best' = mid /\ lo' = mid + 1 /\ UNCHANGED hi
           \/ /\ Addr(mid) >= ip
              /\ hi' = mid - 1 /\ UNCHANGED <<lo, best>>
    /\ UNCHANGED <<table, pc, ip>>

(* One turn of the loop.                                                   *)
Probe ==
    /\ pc = "search" /\ lo <= hi
    /\ LET mid == lo + ((hi - lo) \div 2)
       IN  \/ /\ Addr(mid) <= ip
              /\ best' = mid /\ lo' = mid + 1 /\ UNCHANGED hi
           \/ /\ Addr(mid) > ip
              /\ hi' = mid - 1 /\ UNCHANGED <<lo, best>>
    /\ UNCHANGED <<table, pc, ip>>

LookupDone ==
    /\ pc = "search" /\ lo > hi
    /\ pc' = "found"
    /\ UNCHANGED <<table, ip, lo, hi, best>>

(* Mutant: the end of an entry belongs to it.                              *)
HitEnd ==
    /\ best >= 0
    /\ IF Size(best) > 0 THEN ip <= Addr(best) + Size(best)
       ELSE ip - Addr(best) <= Fallback

(* Whether the entry found is returned: its size, or the fallback.         *)
Hit ==
    /\ best >= 0
    /\ IF Size(best) > 0 THEN ip < Addr(best) + Size(best)
       ELSE ip - Addr(best) <= Fallback

LookupReturn ==
    /\ pc = "found"
    /\ pc' = "idle"
    /\ ip' = 0 /\ lo' = 0 /\ hi' = -1 /\ best' = -1
    /\ UNCHANGED table

LookupInit ==
    /\ table = <<>> /\ pc = "idle" /\ ip = 0 /\ lo = 0 /\ hi = -1 /\ best = -1

LookupNext ==
    \/ Install
    \/ ip' \in Nat /\ sym_table_lookup(ip')
    \/ Probe
    \/ LookupDone
    \/ LookupReturn

LookupSpec == LookupInit /\ [][LookupNext]_<<table, search>>

-----------------------------------------------------------------------------
(* Properties.                                                             *)

(* While the search runs, everything left of lo is at or below ip,         *)
(* everything right of hi is above it, and best is the entry before lo.    *)
SearchInvariant ==
    pc \in {"search", "found"} =>
      /\ 0 <= lo /\ lo <= hi + 1 /\ hi < Len(table)
      /\ best = lo - 1
      /\ \A i \in 0..(lo - 1) : Addr(i) <= ip
      /\ \A i \in (hi + 1)..(Len(table) - 1) : Addr(i) > ip

(* What a lookup finds is the last entry at or below the address: an entry *)
(* whose range has the address is missed only when a later one starts      *)
(* between, and no entry is found exactly when all start above it.         *)
FindsLast ==
    pc = "found" =>
      /\ best \in -1..(Len(table) - 1)
      /\ best >= 0 => Addr(best) <= ip
      /\ \A i \in 0..(Len(table) - 1) : Addr(i) <= ip => i <= best
=============================================================================
