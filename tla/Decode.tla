-------------------------------- MODULE Decode --------------------------------
(***************************************************************************)
(* The instruction decoder of bsdtrace (decode_pt_insn in decode.c) and    *)
(* the recorders behind the formats profile, tree, callers, collapsed and  *)
(* speedscope.                                                             *)
(*                                                                         *)
(* The traced thread and libipt are external.  The thread executes one     *)
(* instruction at a time; libipt returns it, or has lost it and returns to *)
(* the trace at a later one.  The trace is read in the order in which it   *)
(* was written, so executing and decoding an instruction are one step.     *)
(* Of an instruction the recorders see its class, its function (a symbol,  *)
(* or none) and whether it is the first of the function.  ptic_cond_jump   *)
(* counts as "jump", ptic_far_return as "return".                          *)
(***************************************************************************)
EXTENDS Integers, Sequences, SequencesExt, FiniteSetsExt

CONSTANTS
    Symbols,        \* functions with a symbol
    Stubs,          \* functions without one: linkage stubs, stripped code
    NameOf,         \* the names of those, as sequences of characters: two
                    \*   binaries may have a function of one name
    Kernel,         \* the functions entered by a far call
    Formats,        \* the formats considered
    MaxStackDepth,  \* MAX_STACK_DEPTH
    MaxStacks,      \* MAX_COLLAPSED_STACKS
    LineSize,       \* the buffer a folded stack is written to (8192)
    StacksCap,      \* first capacity of the table of stacks (256)
    ChildrenCap,    \* first capacity of an array of children (8)
    MaxGaps,        \* bound: gaps in the trace
    MaxExecuted,    \* bound: instructions executed, by format
    MaxFrames       \* bound: frames of the thread's stack

AllFormats == {"profile", "tree", "collapsed"}
Code == Symbols \cup Stubs
Root == "<root>"

ASSUME DecodeAssumption ==
    /\ Symbols # {} /\ IsFiniteSet(Symbols) /\ Symbols \cap Stubs = {}
    /\ Root \notin Code /\ "none" \notin Symbols
    /\ Kernel \subseteq Symbols /\ DOMAIN NameOf = Symbols
    /\ Formats \subseteq AllFormats
    /\ {MaxStackDepth, MaxStacks, LineSize, StacksCap, ChildrenCap} \subseteq Nat \ {0}
    /\ MaxFrames \in Nat /\ MaxFrames >= 2
    /\ StacksCap <= MaxStacks
    /\ MaxGaps \in Nat /\ MaxExecuted \in [Formats -> Nat]

VARIABLES
    fmt,        \* the recorder of the output format: "tree" is also the one
                \*   of callers, "collapsed" also the one of speedscope
    timed,      \* the trace carries time stamps
    frames,     \* the thread's stack: per frame the function called, the one
                \*   running (a tail jump changes it) and its entry time
    arrival,    \* how the next instruction is reached: by a "call" or a
                \*   "jump" to the start of a function, or in its "body"
    executed,   \* instructions executed
    decoder,    \* "run", or "lost" until the next synchronisation point
    gaps,       \* gaps so far
    prevClass,  \* prev_class of the recorder in use
    prof,       \* struct profile
    ct,         \* struct calltree
    col,        \* struct collapsed
    low,        \* least depth of the thread's stack since the first
                \*   instruction decoded
    whole,      \* no instruction has been lost since then
    known,      \* every instruction since then has a symbol
    calls,      \* while both hold: calls made, by caller and callee,
    spent,      \*   time spent in finished calls, by function,
    samples     \*   and returns, by the stack they return from

thread    == <<frames, arrival, executed>>
recorders == <<prevClass, prof, ct, col>>
history   == <<low, whole, known, calls, spent, samples>>
vars      == <<fmt, timed, thread, decoder, gaps, recorders, history>>

(* A table without entries, and one with an entry added to it.             *)
NoEntries         == [x \in {} |-> 0]
Put(table, key, e) == [x \in DOMAIN table \cup {key} |-> IF x = key THEN e ELSE table[x]]

(* A node of the call tree as ct_node_init leaves it, its children an      *)
(* array of a capacity that has been moved a number of times.              *)
ct_node_init == [count |-> 0, total_tsc |-> 0, entry_tsc |-> 0,
                 nchildren |-> 0, children_cap |-> 0, moves |-> 0]

profile_init   == [f \in Symbols |-> [calls |-> 0, returns |-> 0, branches |-> 0,
                                      cumulative_tsc |-> 0, entry_tsc |-> 0]]
calltree_init  == [nodes |-> Put(NoEntries, <<>>, ct_node_init), stack |-> <<>>]
collapsed_init == [names |-> <<>>, entries |-> NoEntries, capacity |-> 0]

Frame(f) == [called |-> f, fn |-> f, since |-> 0]

Init ==
    /\ fmt \in Formats /\ timed \in BOOLEAN /\ (fmt = "collapsed" => ~timed)
    /\ \E f \in Symbols : frames = <<Frame(f), Frame(f)>>
    /\ arrival \in {"body", "call"} /\ executed = 0
    /\ decoder = "run" /\ gaps = 0 /\ prevClass = "unknown"
    /\ prof = profile_init /\ ct = calltree_init /\ col = collapsed_init
    /\ low = 2 /\ whole = TRUE /\ known = TRUE
    /\ calls = [e \in (Code \cup {Root}) \X Code |-> 0]
    /\ spent = [f \in Code |-> 0]
    /\ samples = NoEntries

-----------------------------------------------------------------------------
(* The thread (external).                                                  *)

(* The instructions the thread can execute next.                           *)
Insns ==
    {[class |-> "other"], [class |-> "far_call"], [class |-> "jump"]}
    \cup {[class |-> "jump", to |-> f] : f \in Code}
    \cup {[class |-> IF f \in Kernel THEN "far_call" ELSE "call", to |-> f] :
             f \in IF Len(frames) < MaxFrames THEN Code ELSE {}}
    \cup (IF Len(frames) > 1 THEN {[class |-> "return"]} ELSE {})

Targets(insn) == "to" \in DOMAIN insn
Calls(insn)   == Targets(insn) /\ insn.class # "jump"

(* The frame's entry is stamped when its first instruction executes.       *)
Since == IF arrival = "call" /\ timed THEN executed + 1 ELSE Last(frames).since

Execute(insn) ==
    LET stack == [frames EXCEPT ![Len(frames)].since = Since]
    IN  /\ executed < MaxExecuted[fmt]
        /\ executed' = executed + 1
        /\ arrival' = IF Calls(insn) THEN "call"
                      ELSE IF Targets(insn) THEN "jump" ELSE "body"
        /\ frames' = IF insn.class = "return" THEN Front(stack)
                     ELSE IF Calls(insn) THEN Append(stack, Frame(insn.to))
                     ELSE IF Targets(insn)
                          THEN [stack EXCEPT ![Len(stack)].fn = insn.to]
                     ELSE stack

-----------------------------------------------------------------------------
(* The recorders: what one instruction, of function f (or "none") and      *)
(* class c, at the function's first instruction if start, does to each.    *)

Here  == Last(frames).fn
Start == arrival # "body"
Tsc   == IF timed THEN executed + 1 ELSE 0

(* Mutant: a far call enters no function.                                  *)
EntersByCall(class) == class = "call"

EntersBy(class) == class \in {"call", "far_call"}
Entered(f, start, prev) == f \in Symbols /\ start /\ EntersBy(prev)

(* Mutant: the entry time is kept when the function returns.               *)
profile_record_keeps(p, f, entered, c, tsc) ==
    IF f \notin Symbols THEN p
    ELSE LET e1 == [p[f] EXCEPT !.calls = IF entered THEN @ + 1 ELSE @,
                                !.entry_tsc = IF entered /\ tsc > 0 THEN tsc ELSE @]
         IN  [p EXCEPT ![f] = IF c = "return" /\ e1.entry_tsc > 0
                              THEN [e1 EXCEPT !.returns = @ + 1,
                                              !.cumulative_tsc = @ + (tsc - e1.entry_tsc)]
                              ELSE e1]

profile_record(p, f, entered, c, tsc) ==
    IF f \notin Symbols THEN p
    ELSE LET e1 == [p[f] EXCEPT !.calls = IF entered THEN @ + 1 ELSE @,
                                !.entry_tsc = IF entered /\ tsc > 0 THEN tsc ELSE @]
             e2 == [e1 EXCEPT !.returns = @ + 1]
             e3 == [e2 EXCEPT !.cumulative_tsc = @ + (tsc - e1.entry_tsc),
                              !.entry_tsc = 0]
         IN  [p EXCEPT ![f] =
                CASE c = "return" -> IF tsc > e1.entry_tsc /\ e1.entry_tsc > 0
                                     THEN e3 ELSE e2
                  [] c = "jump"   -> [e1 EXCEPT !.branches = @ + 1]
                  [] OTHER        -> e1]

(* The child called f of the node at path: added if there is none, which   *)
(* moves the array of children when that is full.                          *)
ct_find_or_add_child(nodes, path, f) ==
    LET parent == nodes[path]
        grows  == parent.nchildren >= parent.children_cap
    IN  IF Append(path, f) \in DOMAIN nodes THEN nodes
        ELSE Put([nodes EXCEPT
                    ![path].nchildren = @ + 1,
                    ![path].children_cap =
                       IF ~grows THEN @ ELSE IF @ = 0 THEN ChildrenCap ELSE 2 * @,
                    ![path].moves = IF grows THEN @ + 1 ELSE @],
                 Append(path, f), ct_node_init)

(* The shadow stack holds pointers into the arrays of children: the node,  *)
(* and how often its array had moved when the pointer was taken.           *)
Top(t) == IF t.stack = <<>> THEN <<>> ELSE Last(t.stack).path

(* Mutant: the pointer to the child is taken before its array may move.    *)
calltree_push_early(t, f, tsc) ==
    LET child == Append(Top(t), f)
        nodes == ct_find_or_add_child(t.nodes, Top(t), f)
    IN  [nodes |-> [nodes EXCEPT ![child].count = @ + 1, ![child].entry_tsc = tsc],
         stack |-> Append(t.stack, [path |-> child, moves |-> t.nodes[Top(t)].moves])]

(* Mutant: only the first call at a position stamps its entry.             *)
calltree_push_once(t, f, tsc) ==
    LET child == Append(Top(t), f)
        nodes == ct_find_or_add_child(t.nodes, Top(t), f)
    IN  [nodes |-> [nodes EXCEPT ![child].count = @ + 1,
                                 ![child].entry_tsc = IF nodes[child].count = 0
                                                      THEN tsc ELSE @],
         stack |-> Append(t.stack, [path |-> child, moves |-> nodes[Top(t)].moves])]

calltree_push(t, f, tsc) ==
    LET parent == Top(t)
        child  == Append(parent, f)
        nodes  == ct_find_or_add_child(t.nodes, parent, f)
    IN  [nodes |-> [nodes EXCEPT ![child].count = @ + 1, ![child].entry_tsc = tsc],
         stack |-> Append(t.stack, [path |-> child, moves |-> nodes[parent].moves])]

calltree_pop(t, tsc) ==
    IF t.stack = <<>> THEN t
    ELSE LET node == t.nodes[Top(t)]
             took == IF tsc > node.entry_tsc /\ node.entry_tsc > 0
                     THEN tsc - node.entry_tsc ELSE 0
         IN  [nodes |-> [t.nodes EXCEPT ![Top(t)].total_tsc = @ + took,
                                        ![Top(t)].entry_tsc = 0],
              stack |-> Front(t.stack)]

(* Mutant: every function start is pushed, tail jumps included.            *)
calltree_record_starts(t, f, entered, c, tsc) ==
    LET t1 == IF f \in Symbols /\ Start THEN calltree_push(t, f, tsc) ELSE t
    IN  IF c = "return" THEN calltree_pop(t1, tsc) ELSE t1

calltree_record(t, f, entered, c, tsc) ==
    LET t1 == IF entered THEN calltree_push(t, f, tsc) ELSE t
    IN  IF c = "return" THEN calltree_pop(t1, tsc) ELSE t1

(* The line of a folded stack: the names joined by ";", as much of them as *)
(* the buffer holds with its terminator.                                   *)
collapsed_build_stack(names) ==
    LET line == FlattenSeq([i \in DOMAIN names |->
                   IF i = 1 THEN NameOf[names[i]] ELSE <<";">> \o NameOf[names[i]]])
    IN  SubSeq(line, 1, Min({Len(line), LineSize - 1}))

(* Mutant: a full table is not extended.                                   *)
collapsed_count_first(s) ==
    LET stack == collapsed_build_stack(s.names)
    IN  IF s.names = <<>> THEN s
        ELSE IF stack \in DOMAIN s.entries
        THEN [s EXCEPT !.entries[stack] = @ + 1]
        ELSE IF s.capacity > 0 /\ Cardinality(DOMAIN s.entries) >= s.capacity THEN s
        ELSE [s EXCEPT !.entries = Put(@, stack, 1), !.capacity = StacksCap]

(* Count the current stack; a new line is dropped when the table is full.  *)
collapsed_count_stack(s) ==
    LET stack  == collapsed_build_stack(s.names)
        count  == Cardinality(DOMAIN s.entries)
        newcap == IF count < s.capacity THEN s.capacity
                  ELSE IF s.capacity = 0 THEN Min({StacksCap, MaxStacks})
                  ELSE Min({2 * s.capacity, MaxStacks})
    IN  IF s.names = <<>> THEN s
        ELSE IF stack \in DOMAIN s.entries
        THEN [s EXCEPT !.entries[stack] = @ + 1]
        ELSE IF count >= newcap THEN s
        ELSE [s EXCEPT !.entries = Put(@, stack, 1), !.capacity = newcap]

(* Mutant: the limit on the depth is off by one.                           *)
collapsed_record_deep(s, f, entered, c) ==
    LET s1 == IF entered /\ Len(s.names) <= MaxStackDepth
              THEN [s EXCEPT !.names = Append(@, f)] ELSE s
    IN  IF c = "return"
        THEN [collapsed_count_stack(s1) EXCEPT !.names = IF @ = <<>> THEN @ ELSE Front(@)]
        ELSE s1

collapsed_record(s, f, entered, c) ==
    LET s1 == IF entered /\ Len(s.names) < MaxStackDepth
              THEN [s EXCEPT !.names = Append(@, f)] ELSE s
        s2 == collapsed_count_stack(s1)
    IN  IF c = "return"
        THEN [s2 EXCEPT !.names = IF @ = <<>> THEN @ ELSE Front(@)]
        ELSE s1

(* Only the recorder of the format sees the instruction.  The profile      *)
(* returns before it notes the class of one without a symbol.              *)
Record(insn) ==
    LET c == insn.class
        f == IF Here \in Symbols THEN Here ELSE "none"
        e == Entered(f, Start, prevClass)
    IN  /\ prof' = IF fmt = "profile" THEN profile_record(prof, f, e, c, Tsc) ELSE prof
        /\ ct'   = IF fmt = "tree"
                   THEN calltree_record(ct, f, e, c, Tsc) ELSE ct
        /\ col'  = IF fmt = "collapsed"
                   THEN collapsed_record(col, f, e, c) ELSE col
        /\ prevClass' = IF fmt = "profile" /\ f = "none" THEN prevClass ELSE c

-----------------------------------------------------------------------------
(* What the thread really did, by its own stack.                           *)

(* Frames above the lowest depth reached since decoding began, without the *)
(* one whose first instruction is still to be decoded.                     *)
Pending   == arrival = "call" /\ Len(frames) > low
Called    == [i \in 1..(Len(frames) - low) |-> frames[low + i].called]
Completed == IF Pending THEN Front(Called) ELSE Called

Caller == IF Len(Called) > 1 THEN Called[Len(Called) - 1] ELSE Root

Observe(insn) ==
    LET f    == Last(frames).called
        out  == insn.class = "return" /\ Len(frames) > low
        seen == whole /\ known'
    IN  /\ known' = (known /\ Here \in Symbols)
        /\ calls' = IF seen /\ Pending /\ fmt # "collapsed"
                    THEN [calls EXCEPT ![<<Caller, f>>] = @ + 1] ELSE calls
        /\ spent' = IF seen /\ out /\ timed /\ fmt = "tree"
                    THEN [spent EXCEPT ![f] = @ + (executed + 1 - Since)] ELSE spent
        /\ samples' = IF ~(seen /\ out /\ fmt = "collapsed") THEN samples
                      ELSE IF Called \in DOMAIN samples
                      THEN [samples EXCEPT ![Called] = @ + 1]
                      ELSE Put(samples, Called, 1)
        /\ low' = Min({low, Len(frames')})
        /\ UNCHANGED whole

-----------------------------------------------------------------------------
(* The decode loop.  The trace may end in any state, and with it the loop: *)
(* what holds in every state holds of the report that is printed.          *)

(* pt_insn_next returns an instruction.                                    *)
DecodeInsn ==
    /\ decoder = "run"
    /\ \E insn \in Insns : Execute(insn) /\ Record(insn) /\ Observe(insn)
    /\ UNCHANGED <<fmt, timed, decoder, gaps>>

(* pt_insn_next fails (no memory mapped at the address, or another error), *)
(* or an overflow event says that packets were lost: the recorders keep    *)
(* their state until the decoder is back in the trace.                     *)
LoseTrace ==
    /\ decoder = "run" /\ gaps < MaxGaps
    /\ decoder' = "lost"
    /\ gaps' = gaps + 1
    /\ UNCHANGED <<fmt, timed, thread, recorders, history>>

(* The thread executes an instruction that is not in the trace.            *)
LoseInsn ==
    /\ decoder = "lost"
    /\ \E insn \in Insns : Execute(insn)
    /\ whole' = FALSE
    /\ low' = Min({low, Len(frames')})
    /\ UNCHANGED <<fmt, timed, decoder, gaps, recorders, known, calls, spent, samples>>

(* pt_insn_sync_forward finds the next synchronisation point.              *)
Sync ==
    /\ decoder = "lost"
    /\ decoder' = "run"
    /\ UNCHANGED <<fmt, timed, thread, gaps, recorders, history>>

Next == DecodeInsn \/ LoseTrace \/ LoseInsn \/ Sync

Spec == Init /\ [][Next]_vars

-----------------------------------------------------------------------------
(* The report of callers.                                                  *)

Name(path) == IF path = <<>> THEN Root ELSE Last(path)

(* ct_collect_edges: the nodes of f, and those of f under a node of g.     *)
NodesOf(f)    == {p \in DOMAIN ct.nodes : Name(p) = f}
Edge(g, f)    == {p \in NodesOf(f) \ {<<>>} : Name(Front(p)) = g}
Count(nodes)  == SumFunction([p \in nodes |-> ct.nodes[p].count])

(* callers_print: the calls of f and its time; its callers and its callees *)
(* are each printed with the calls on the edge.                            *)
FuncSummary(f) ==
    [total_calls |-> Count(NodesOf(f)),
     total_tsc   |-> SumFunction([p \in NodesOf(f) |-> ct.nodes[p].total_tsc]),
     callers     |-> [g \in Symbols \cup {Root} |-> Count(Edge(g, f))]]

-----------------------------------------------------------------------------
(* Properties.                                                             *)

TypeOK ==
    /\ fmt \in AllFormats /\ {timed, whole, known} \subseteq BOOLEAN
    /\ frames # <<>> /\ Len(frames) <= MaxFrames
    /\ low \in 1..Len(frames)
    /\ arrival \in {"body", "jump", "call"} /\ executed \in 0..MaxExecuted[fmt]
    /\ decoder \in {"lost", "run"} /\ gaps \in 0..MaxGaps
    /\ prevClass \in {"unknown", "other", "jump", "call", "far_call", "return"}
    /\ Len(col.names) <= MaxStackDepth
    /\ Cardinality(DOMAIN col.entries) <= col.capacity /\ col.capacity <= MaxStacks
    /\ \A p \in DOMAIN ct.nodes : ct.nodes[p].nchildren <= ct.nodes[p].children_cap

Treed  == fmt = "tree"
Folded == fmt = "collapsed"
Shadow == IF Treed THEN [i \in DOMAIN ct.stack |-> Name(ct.stack[i].path)]
          ELSE col.names

(* The folded stack has never been at its limit.                           *)
Fits == Treed \/ \A s \in DOMAIN samples \cup {Called} : Len(s) <= MaxStackDepth

(* While every instruction is decoded and has a symbol, the shadow stack   *)
(* is the thread's own stack above the lowest depth reached: a function    *)
(* entered by a tail jump, or where decoding began, is never on it, and a  *)
(* return below that depth takes nothing off it.                           *)
ShadowIsStack ==
    (Treed \/ Folded) /\ whole /\ known /\ Fits => Shadow = Completed

(* The callers report has, for every caller and callee, the calls that     *)
(* were made between them, wherever in the tree they are counted, and the  *)
(* calls of a profile entry are the calls made to its function.            *)
CallsCounted ==
    whole /\ known =>
      \A f \in Symbols :
        /\ fmt = "tree" =>
             /\ \A g \in Symbols \cup {Root} : FuncSummary(f).callers[g] = calls[<<g, f>>]
             /\ FuncSummary(f).total_calls
                   = SumFunction([g \in Symbols \cup {Root} |-> calls[<<g, f>>]])
        /\ fmt = "profile" =>
             prof[f].calls = SumFunction([g \in Symbols \cup {Root} |-> calls[<<g, f>>]])

(* The time of a function in the tree is the time its finished calls took, *)
(* recursive ones included.                                                *)
TimesAddUp ==
    fmt = "tree" /\ timed /\ whole /\ known =>
      \A f \in Symbols : FuncSummary(f).total_tsc = spent[f]

(* The calls whose time a profile entry adds up do not overlap, whatever   *)
(* is lost, recursive or jumped to: the time fits in the trace so far, and *)
(* before the call that is running.                                        *)
ProfileTimeBounded ==
    \A f \in Symbols :
      prof[f].cumulative_tsc <= IF prof[f].entry_tsc > 0 THEN prof[f].entry_tsc
                                ELSE executed

(* No pointer on the shadow stack of the call tree points into an array of *)
(* children that has been moved since, gaps and stray returns included.    *)
PointersLive ==
    \A i \in DOMAIN ct.stack :
      ct.nodes[Front(ct.stack[i].path)].moves = ct.stack[i].moves

(* The stacks returned from that are written as one line: stacks whose     *)
(* names agree, or agree up to the end of the buffer.                      *)
SameLine(line) == {s \in DOMAIN samples : collapsed_build_stack(s) = line}

(* The count of a line in the table is the number of returns from all the  *)
(* stacks that are written as this line, which may be several below every  *)
(* limit of the table; the line of a stack is missing only when the table  *)
(* has reached its limit.                                                  *)
StacksCounted ==
    Folded /\ whole /\ known /\ Fits =>
      /\ \A line \in DOMAIN col.entries :
            /\ SameLine(line) # {}
            /\ col.entries[line] = SumFunction([s \in SameLine(line) |-> samples[s]])
      /\ {collapsed_build_stack(s) : s \in DOMAIN samples} = DOMAIN col.entries
         \/ Cardinality(DOMAIN col.entries) = MaxStacks

(* "Push on CALL (using the callee's symbol), pop on RETURN": without      *)
(* gaps, a called function is on the shadow stack until it returns.        *)
PushedUntilReturn ==
    Treed /\ whole =>
      Shadow = SelectSeq(Completed, LAMBDA f : f \in Symbols)
=============================================================================
