----------------------------- MODULE DecodeProofs -----------------------------
(***************************************************************************)
(* Theorems about the instruction decoder and its recorders: for traces of *)
(* every length, every set of functions and every limit of the tables.     *)
(***************************************************************************)
EXTENDS Decode, InductionTheorems, FiniteSetTheorems

-----------------------------------------------------------------------------
(* The inductive invariant.                                                *)

Classes   == {"other", "jump", "call", "far_call", "return"}
FrameSet  == [called : Code, fn : Code, since : Nat]
EntrySet  == [calls : Nat, returns : Nat, branches : Nat,
              cumulative_tsc : Nat, entry_tsc : Nat]
NodeSet   == [count : Nat, total_tsc : Nat, entry_tsc : Nat,
              nchildren : Nat, children_cap : Nat, moves : Nat]
Paths     == Seq(Symbols)
Pointers  == [path : Paths, moves : Nat]

ThreadInv ==
    /\ fmt \in Formats /\ timed \in BOOLEAN
    /\ frames \in Seq(FrameSet) /\ Len(frames) <= MaxFrames
    /\ low \in 1..Len(frames)
    /\ arrival \in {"body", "jump", "call"} /\ executed \in 0..MaxExecuted[fmt]
    /\ decoder \in {"lost", "run"} /\ gaps \in 0..MaxGaps
    /\ prevClass \in Classes \cup {"unknown"}
    /\ whole \in BOOLEAN /\ known \in BOOLEAN

(* A frame just entered runs the function called.  While nothing is lost,  *)
(* the class noted tells whether the frame was entered by a call that the  *)
(* decoder has seen; in a profile while all have symbols.                  *)
ArrivalInv ==
    /\ arrival = "call" => Last(frames).fn = Last(frames).called
    /\ whole /\ (fmt = "profile" => known) =>
         /\ arrival = "call" => (EntersBy(prevClass) <=> Len(frames) > low)
         /\ arrival = "jump" => ~EntersBy(prevClass)

(* The time of finished calls ends before the call that is running began.  *)
ProfileInv ==
    /\ prof \in [Symbols -> EntrySet]
    /\ \A f \in Symbols : prof[f].entry_tsc <= executed
    /\ ProfileTimeBounded

(* The shadow stack of the tree is a path from the root: the pointer at    *)
(* depth i is to a node i levels down, in the array of the node above.     *)
TreeInv(t) ==
    /\ DOMAIN t.nodes \subseteq Paths /\ <<>> \in DOMAIN t.nodes
    /\ \A p \in DOMAIN t.nodes : t.nodes[p] \in NodeSet
    /\ \A p \in DOMAIN t.nodes : t.nodes[p].nchildren <= t.nodes[p].children_cap
    /\ t.stack \in Seq(Pointers)
    /\ \A i \in DOMAIN t.stack :
          /\ t.stack[i].path \in DOMAIN t.nodes /\ Len(t.stack[i].path) = i
          /\ Front(t.stack[i].path) = (IF i = 1 THEN <<>> ELSE t.stack[i - 1].path)
          /\ t.nodes[Front(t.stack[i].path)].moves = t.stack[i].moves

(* The table of folded stacks keeps its limits.                            *)
TableInv(s) ==
    /\ s = [names |-> s.names, entries |-> s.entries, capacity |-> s.capacity]
    /\ s.names \in Paths /\ Len(s.names) <= MaxStackDepth
    /\ IsFiniteSet(DOMAIN s.entries)
    /\ \A d \in DOMAIN s.entries : s.entries[d] \in Nat
    /\ s.capacity \in Nat /\ s.capacity <= MaxStacks
    /\ Cardinality(DOMAIN s.entries) <= s.capacity

HistoryInv ==
    /\ IsFiniteSet(DOMAIN samples) /\ DOMAIN samples \subseteq Seq(Code)
    /\ \A s \in DOMAIN samples : samples[s] \in Nat

Inv == /\ ThreadInv /\ ArrivalInv /\ ProfileInv /\ TreeInv(ct) /\ TableInv(col)
       /\ HistoryInv /\ ShadowIsStack /\ StacksCounted
-----------------------------------------------------------------------------
(* Sequences, tables and least elements.                                   *)

LEMMA MinIs ==
    ASSUME NEW a \in Int, NEW b \in Int
    PROVE  Min({a, b}) = IF a <= b THEN a ELSE b
  <1>1. CASE a <= b
    <2>1. \A x \in {a, b} : (\A y \in {a, b} : x <= y) => x = a  BY <1>1
    <2>2. \E x \in {a, b} : \A y \in {a, b} : x <= y  BY <1>1
    <2> QED  BY <1>1, <2>1, <2>2 DEF Min
  <1>2. CASE ~(a <= b)
    <2>1. \A x \in {a, b} : (\A y \in {a, b} : x <= y) => x = b  BY <1>2
    <2>2. \E x \in {a, b} : \A y \in {a, b} : x <= y  BY <1>2
    <2> QED  BY <1>2, <2>1, <2>2 DEF Min
  <1> QED  BY <1>1, <1>2

LEMMA FrontIs ==
    ASSUME NEW S, NEW s \in Seq(S), s # <<>>
    PROVE  /\ Front(s) \in Seq(S) /\ Len(s) \in Nat /\ Len(s) > 0
           /\ Len(Front(s)) = Len(s) - 1
           /\ \A i \in 1..(Len(s) - 1) : Front(s)[i] = s[i]
           /\ Last(s) = s[Len(s)] /\ Last(s) \in S
  <1>1. Len(s) \in Nat /\ Len(s) > 0  BY EmptySeq
  <1>2. Len(s) - 1 \in Nat /\ Len(s) \in 1..Len(s)  BY <1>1
  <1>3. Front(s) = [i \in 1..(Len(s) - 1) |-> s[i]]  BY <1>1 DEF Front
  <1>4. /\ Front(s) \in Seq(S) /\ Len(Front(s)) = Len(s) - 1
        /\ \A i \in 1..(Len(s) - 1) : Front(s)[i] = s[i]
    BY <1>1, <1>2, <1>3
  <1> QED  BY <1>1, <1>2, <1>4 DEF Last

LEMMA FrontOfAppend ==
    ASSUME NEW S, NEW s \in Seq(S), NEW x \in S
    PROVE  /\ Append(s, x) # <<>> /\ Front(Append(s, x)) = s /\ Last(Append(s, x)) = x
           /\ Append(s, x) \in Seq(S) /\ Len(Append(s, x)) = Len(s) + 1
  <1> DEFINE t == Append(s, x)
  <1>1. /\ t \in Seq(S) /\ Len(t) = Len(s) + 1 /\ t # <<>> /\ Len(s) \in Nat
        /\ \A i \in 1..Len(s) : t[i] = s[i]
        /\ t[Len(s) + 1] = x
    OBVIOUS
  <1> HIDE DEF t
  <1>2. Front(t) \in Seq(S) /\ Len(Front(t)) = Len(s) /\ \A i \in 1..Len(s) : Front(t)[i] = s[i]
    BY <1>1, FrontIs
  <1>3. Front(t) = s  BY <1>2
  <1> QED  BY <1>1, <1>3 DEF Last, t

LEMMA AppendOfFront ==
    ASSUME NEW S, NEW s \in Seq(S), s # <<>>
    PROVE  Append(Front(s), Last(s)) = s
  <1> DEFINE t == Append(Front(s), Last(s))
  <1>1. /\ Front(s) \in Seq(S) /\ Len(s) \in Nat /\ Len(s) > 0 /\ Len(Front(s)) = Len(s) - 1
        /\ \A i \in 1..(Len(s) - 1) : Front(s)[i] = s[i]
        /\ Last(s) = s[Len(s)] /\ Last(s) \in S
    BY FrontIs
  <1>2. t \in Seq(S) /\ Len(t) = Len(s)  BY <1>1
  <1>3. \A i \in 1..Len(s) : t[i] = s[i]  BY <1>1
  <1> HIDE DEF t
  <1>4. t = s  BY <1>1, <1>2, <1>3
  <1> QED  BY <1>4 DEF t

LEMMA PutIs ==
    ASSUME NEW table, NEW key, NEW e
    PROVE  /\ DOMAIN Put(table, key, e) = DOMAIN table \cup {key}
           /\ Put(table, key, e)[key] = e
           /\ \A x \in DOMAIN table : x # key => Put(table, key, e)[x] = table[x]
  BY DEF Put

LEMMA NoEntriesIs == DOMAIN NoEntries = {}
  BY DEF NoEntries
-----------------------------------------------------------------------------
(* The thread.                                                             *)

(* The kinds of instructions: within a function or a tail jump, a call, a  *)
(* return.                                                                 *)
LEMMA InsnKinds ==
    ASSUME NEW insn \in Insns
    PROVE  /\ insn.class \in Classes
           /\ \/ ~Targets(insn) /\ insn.class \in {"other", "far_call", "jump"}
              \/ Targets(insn) /\ insn.class = "jump" /\ insn.to \in Code
              \/ /\ Targets(insn) /\ insn.class \in {"call", "far_call"} /\ insn.to \in Code
                 /\ Len(frames) < MaxFrames
              \/ ~Targets(insn) /\ insn.class = "return" /\ Len(frames) > 1
  <1>1. CASE insn \in {[class |-> "other"], [class |-> "far_call"], [class |-> "jump"]}
    BY <1>1 DEF Targets, Classes
  <1>2. CASE insn \in {[class |-> "jump", to |-> f] : f \in Code}
    BY <1>2 DEF Targets, Classes
  <1>3. CASE insn \in {[class |-> IF f \in Kernel THEN "far_call" ELSE "call", to |-> f] :
                          f \in IF Len(frames) < MaxFrames THEN Code ELSE {}}
    BY <1>3 DEF Targets, Classes
  <1>4. CASE insn \in IF Len(frames) > 1 THEN {[class |-> "return"]} ELSE {}
    BY <1>4 DEF Targets, Classes
  <1> QED  BY <1>1, <1>2, <1>3, <1>4 DEF Insns

(* What executing an instruction does to the thread.                       *)
Stays(old, new) ==
    Len(new) = Len(old) /\ \A i \in 1..Len(old) : new[i].called = old[i].called
Enters(old, new) ==
    /\ Len(new) = Len(old) + 1 /\ \A i \in 1..Len(old) : new[i].called = old[i].called
    /\ Last(new).fn = Last(new).called
Leaves(old, new) ==
    /\ Len(new) = Len(old) - 1 /\ Len(old) > 1
    /\ \A i \in 1..Len(new) : new[i].called = old[i].called

LEMMA StackNonempty ==
    ASSUME ThreadInv
    PROVE  /\ frames # <<>> /\ Len(frames) \in Nat /\ Len(frames) > 0
           /\ Last(frames) \in FrameSet /\ Last(frames) = frames[Len(frames)]
           /\ low \in Nat /\ 0 < low /\ low <= Len(frames)
  <1>1. frames \in Seq(FrameSet) /\ low \in 1..Len(frames)  BY DEF ThreadInv
  <1>2. Len(frames) \in Nat  BY <1>1
  <1>3. low \in Nat /\ 0 < low /\ low <= Len(frames) /\ Len(frames) > 0  BY <1>1, <1>2
  <1>4. frames # <<>>  BY <1>1, <1>3
  <1> QED  BY <1>1, <1>2, <1>3, <1>4, FrontIs

LEMMA ExecuteIs ==
    ASSUME ThreadInv, NEW insn \in Insns, Execute(insn)
    PROVE  /\ frames' \in Seq(FrameSet) /\ Len(frames') \in 1..MaxFrames
           /\ executed' = executed + 1 /\ executed' \in 0..MaxExecuted[fmt]
           /\ insn.class \in Classes
           /\ \/ /\ Stays(frames, frames') /\ insn.class \in {"other", "far_call", "jump"}
                 /\ arrival' \in {"body", "jump"} /\ (arrival' = "jump" => insn.class = "jump")
              \/ /\ Enters(frames, frames') /\ insn.class \in {"call", "far_call"}
                 /\ arrival' = "call"
              \/ /\ Leaves(frames, frames') /\ insn.class = "return"
                 /\ arrival' = "body"
  <1> DEFINE n == Len(frames)
             stack == [frames EXCEPT ![n].since = Since]
  <1>1. /\ n \in Nat /\ n > 0 /\ n <= MaxFrames /\ frames \in Seq(FrameSet)
        /\ executed \in Nat /\ MaxFrames \in Nat /\ MaxExecuted[fmt] \in Nat
    BY StackNonempty, DecodeAssumption DEF ThreadInv
  <1>2. Since \in Nat
    <2>1. Last(frames) \in FrameSet  BY StackNonempty
    <2>2. Last(frames).since \in Nat  BY <2>1 DEF FrameSet
    <2> QED  BY <1>1, <2>2 DEF Since
  <1>3. /\ executed' = executed + 1 /\ executed' \in 0..MaxExecuted[fmt]
    BY <1>1 DEF Execute
  <1>4. /\ stack \in Seq(FrameSet) /\ Len(stack) = n
        /\ \A i \in 1..n : stack[i].called = frames[i].called
    <2> HIDE DEF n
    <2>1. frames \in [1..n -> FrameSet]  BY <1>1 DEF n
    <2>2. stack \in [1..n -> FrameSet]
      <3> SUFFICES ASSUME NEW i \in 1..n PROVE stack[i] \in FrameSet
        BY <2>1
      <3>1. frames[i] \in FrameSet  BY <2>1
      <3> QED  BY <1>2, <2>1, <3>1 DEF FrameSet
    <2>3. \A i \in 1..n : stack[i].called = frames[i].called
      <3> TAKE i \in 1..n
      <3>1. frames[i] \in FrameSet  BY <2>1
      <3> QED  BY <2>1, <3>1 DEF FrameSet
    <2> HIDE DEF stack
    <2> QED  BY <1>1, <2>2, <2>3
  <1>5. frames' = IF insn.class = "return" THEN Front(stack)
                  ELSE IF Calls(insn) THEN Append(stack, Frame(insn.to))
                  ELSE IF Targets(insn)
                       THEN [stack EXCEPT ![Len(stack)].fn = insn.to]
                  ELSE stack
    BY DEF Execute
  <1>6. arrival' = IF Calls(insn) THEN "call" ELSE IF Targets(insn) THEN "jump" ELSE "body"
    BY DEF Execute
  <1>7. insn.class \in Classes  BY InsnKinds
  <1> HIDE DEF stack, n
  <1>8. CASE ~Targets(insn) /\ insn.class \in {"other", "far_call", "jump"}
    <2>1. frames' = stack /\ arrival' = "body"  BY <1>5, <1>6, <1>8 DEF Calls
    <2>2. Stays(frames, frames')  BY <1>4, <2>1 DEF Stays, n
    <2>3. Len(frames') \in 1..MaxFrames  BY <1>1, <1>4, <2>1
    <2> QED  BY <1>3, <1>4, <1>7, <1>8, <2>1, <2>2, <2>3
  <1>9. CASE Targets(insn) /\ insn.class = "jump" /\ insn.to \in Code
    <2>1. frames' = [stack EXCEPT ![n].fn = insn.to] /\ arrival' = "jump"
      BY <1>4, <1>5, <1>6, <1>9 DEF Calls
    <2>2. stack \in [1..n -> FrameSet]  BY <1>4
    <2>3. \A i \in 1..n : frames'[i] \in FrameSet /\ frames'[i].called = stack[i].called
      <3> TAKE i \in 1..n
      <3>1. stack[i] \in FrameSet  BY <2>2
      <3> QED  BY <1>9, <2>1, <2>2, <3>1 DEF FrameSet
    <2>4. frames' \in [1..n -> FrameSet]  BY <2>1, <2>2, <2>3
    <2>5. frames' \in Seq(FrameSet) /\ Len(frames') = n  BY <1>1, <2>4
    <2>6. Stays(frames, frames')  BY <1>4, <2>3, <2>5 DEF Stays, n
    <2>7. Len(frames') \in 1..MaxFrames  BY <1>1, <2>5
    <2> QED  BY <1>3, <1>7, <1>9, <2>1, <2>5, <2>6, <2>7
  <1>10. CASE /\ Targets(insn) /\ insn.class \in {"call", "far_call"} /\ insn.to \in Code
              /\ n < MaxFrames
    <2> DEFINE fr == Frame(insn.to)
    <2>1. frames' = Append(stack, fr) /\ arrival' = "call"
      BY <1>5, <1>6, <1>10 DEF Calls
    <2>2. fr \in FrameSet /\ fr.fn = fr.called  BY <1>10 DEF Frame, FrameSet
    <2> HIDE DEF fr
    <2>3. /\ frames' \in Seq(FrameSet) /\ Len(frames') = n + 1 /\ Last(frames') = fr
          /\ \A i \in 1..n : frames'[i] = stack[i]
      BY <1>1, <1>4, <2>1, <2>2, FrontOfAppend
    <2>4. Enters(frames, frames')  BY <1>4, <2>2, <2>3 DEF Enters, n
    <2>5. Len(frames') \in 1..MaxFrames  BY <1>1, <1>10, <2>3
    <2> QED  BY <1>3, <1>7, <1>10, <2>1, <2>3, <2>4, <2>5
  <1>11. CASE ~Targets(insn) /\ insn.class = "return" /\ n > 1
    <2>1. frames' = Front(stack) /\ arrival' = "body"  BY <1>5, <1>6, <1>11 DEF Calls
    <2>2. stack # <<>>  BY <1>1, <1>4
    <2>3. /\ frames' \in Seq(FrameSet) /\ Len(frames') = n - 1
          /\ \A i \in 1..(n - 1) : frames'[i] = stack[i]
      BY <1>4, <2>1, <2>2, FrontIs
    <2>4. Leaves(frames, frames')  BY <1>1, <1>4, <1>11, <2>3 DEF Leaves, n
    <2>5. Len(frames') \in 1..MaxFrames  BY <1>1, <1>11, <2>3
    <2> QED  BY <1>3, <1>7, <1>11, <2>1, <2>3, <2>4, <2>5
  <1> QED  BY <1>8, <1>9, <1>10, <1>11, InsnKinds DEF n

(* The steps: an instruction decoded, one lost, or neither.                *)
LEMMA Steps ==
    ASSUME [Next]_vars
    PROVE  \/ /\ \E insn \in Insns : Execute(insn) /\ Record(insn) /\ Observe(insn)
              /\ UNCHANGED <<fmt, timed, decoder, gaps>>
           \/ /\ \E insn \in Insns : Execute(insn)
              /\ whole' = FALSE /\ low' = Min({low, Len(frames')})
              /\ UNCHANGED <<fmt, timed, decoder, gaps, recorders, known, calls, spent, samples>>
           \/ /\ UNCHANGED <<fmt, timed, thread, recorders, history>>
              /\ \/ UNCHANGED <<decoder, gaps>>
                 \/ decoder' = "lost" /\ gaps < MaxGaps /\ gaps' = gaps + 1
                 \/ decoder' = "run" /\ gaps' = gaps
  <1>1. CASE DecodeInsn  BY <1>1 DEF DecodeInsn
  <1>2. CASE LoseTrace  BY <1>2 DEF LoseTrace
  <1>3. CASE LoseInsn  BY <1>3 DEF LoseInsn
  <1>4. CASE Sync  BY <1>4 DEF Sync
  <1>5. CASE UNCHANGED vars  BY <1>5 DEF vars
  <1> QED  BY <1>1, <1>2, <1>3, <1>4, <1>5 DEF Next

LEMMA InitThread == Init => ThreadInv /\ ArrivalInv
  <1> SUFFICES ASSUME Init PROVE ThreadInv /\ ArrivalInv
    OBVIOUS
  <1>1. PICK f \in Symbols : frames = <<Frame(f), Frame(f)>>  BY DEF Init
  <1>2. Frame(f) \in FrameSet /\ Frame(f).fn = f /\ Frame(f).called = f
    BY DEF Frame, FrameSet, Code
  <1>3. frames \in Seq(FrameSet) /\ Len(frames) = 2 /\ Last(frames) = Frame(f)
    BY <1>1, <1>2 DEF Last
  <1>4. fmt \in Formats /\ MaxExecuted[fmt] \in Nat /\ MaxGaps \in Nat /\ MaxFrames >= 2
    BY DecodeAssumption DEF Init
  <1>5. low = 2 /\ executed = 0 /\ gaps = 0 /\ prevClass = "unknown"  BY DEF Init
  <1>6. ThreadInv
    <2>1. low \in 1..Len(frames)  BY <1>3, <1>5
    <2>2. Len(frames) <= MaxFrames  BY <1>3, <1>4
    <2>3. executed \in 0..MaxExecuted[fmt] /\ gaps \in 0..MaxGaps  BY <1>4, <1>5
    <2> QED  BY <1>3, <1>4, <1>5, <2>1, <2>2, <2>3 DEF Init, ThreadInv
  <1>7. ArrivalInv
    <2>1. ~EntersBy(prevClass) /\ ~(Len(frames) > low)  BY <1>3, <1>5 DEF EntersBy
    <2> QED  BY <1>2, <1>3, <2>1 DEF ArrivalInv
  <1> QED  BY <1>6, <1>7

LEMMA LowIs ==
    ASSUME ThreadInv, Len(frames') \in 1..MaxFrames, low' = Min({low, Len(frames')})
    PROVE  /\ low' \in 1..Len(frames') /\ low' = IF low <= Len(frames') THEN low ELSE Len(frames')
  <1>1. low \in Int /\ 0 < low  BY StackNonempty
  <1>2. Len(frames') \in Int /\ 0 < Len(frames')  BY DecodeAssumption
  <1>3. low' = IF low <= Len(frames') THEN low ELSE Len(frames')  BY <1>1, <1>2, MinIs
  <1> QED  BY <1>1, <1>2, <1>3

LEMMA ThreadNext == ThreadInv /\ [Next]_vars => ThreadInv'
  <1> SUFFICES ASSUME ThreadInv, [Next]_vars PROVE ThreadInv'
    OBVIOUS
  <1>1. CASE /\ \E insn \in Insns : Execute(insn) /\ Record(insn) /\ Observe(insn)
             /\ UNCHANGED <<fmt, timed, decoder, gaps>>
    <2>1. PICK insn \in Insns : Execute(insn) /\ Record(insn) /\ Observe(insn)  BY <1>1
    <2>2. /\ frames' \in Seq(FrameSet) /\ Len(frames') \in 1..MaxFrames
          /\ executed' \in 0..MaxExecuted[fmt] /\ insn.class \in Classes
          /\ arrival' \in {"body", "jump", "call"}
      BY <2>1, ExecuteIs
    <2>3. low' \in 1..Len(frames')  BY <2>1, <2>2, LowIs DEF Observe
    <2>4. prevClass' \in Classes \cup {"unknown"}
      <3>1. prevClass' \in {prevClass, insn.class}  BY <2>1 DEF Record
      <3> QED  BY <2>2, <3>1 DEF ThreadInv
    <2>5. whole' = whole /\ known' \in BOOLEAN  BY <2>1 DEF Observe
    <2>6. Len(frames') <= MaxFrames  BY <2>2, DecodeAssumption
    <2> QED  BY <1>1, <2>2, <2>3, <2>4, <2>5, <2>6 DEF ThreadInv
  <1>2. CASE /\ \E insn \in Insns : Execute(insn)
             /\ whole' = FALSE /\ low' = Min({low, Len(frames')})
             /\ UNCHANGED <<fmt, timed, decoder, gaps, recorders, known, calls, spent, samples>>
    <2>1. PICK insn \in Insns : Execute(insn)  BY <1>2
    <2>2. /\ frames' \in Seq(FrameSet) /\ Len(frames') \in 1..MaxFrames
          /\ executed' \in 0..MaxExecuted[fmt] /\ arrival' \in {"body", "jump", "call"}
      BY <2>1, ExecuteIs
    <2>3. low' \in 1..Len(frames')  BY <1>2, <2>2, LowIs
    <2>4. prevClass' = prevClass /\ known' = known  BY <1>2 DEF recorders
    <2>5. Len(frames') <= MaxFrames  BY <2>2, DecodeAssumption
    <2> QED  BY <1>2, <2>2, <2>3, <2>4, <2>5 DEF ThreadInv
  <1>3. CASE /\ UNCHANGED <<fmt, timed, thread, recorders, history>>
             /\ \/ UNCHANGED <<decoder, gaps>>
                \/ decoder' = "lost" /\ gaps < MaxGaps /\ gaps' = gaps + 1
                \/ decoder' = "run" /\ gaps' = gaps
    <2>1. gaps' \in 0..MaxGaps /\ decoder' \in {"lost", "run"}
      BY <1>3, DecodeAssumption DEF ThreadInv
    <2>2. UNCHANGED <<fmt, timed, frames, arrival, executed, prevClass, low, whole, known>>
      BY <1>3 DEF thread, recorders, history
    <2> QED  BY <2>1, <2>2 DEF ThreadInv
  <1> QED  BY <1>1, <1>2, <1>3, Steps

LEMMA ArrivalNext == ThreadInv /\ ArrivalInv /\ [Next]_vars => ArrivalInv'
  <1> SUFFICES ASSUME ThreadInv, ArrivalInv, [Next]_vars PROVE ArrivalInv'
    OBVIOUS
  <1>0. ASSUME NEW insn \in Insns, Execute(insn)
        PROVE  arrival' = "call" => Last(frames').fn = Last(frames').called
    BY <1>0, ExecuteIs DEF Enters
  <1>1. CASE /\ \E insn \in Insns : Execute(insn) /\ Record(insn) /\ Observe(insn)
             /\ UNCHANGED <<fmt, timed, decoder, gaps>>
    <2>1. PICK insn \in Insns : Execute(insn) /\ Record(insn) /\ Observe(insn)  BY <1>1
    <2>2. Len(frames') \in 1..MaxFrames  BY <2>1, ExecuteIs
    <2>3. low' = IF low <= Len(frames') THEN low ELSE Len(frames')
      BY <2>1, <2>2, LowIs DEF Observe
    <2>4. fmt' = fmt /\ ((fmt = "profile" => known') => prevClass' = insn.class)
      BY <1>1, <2>1, DecodeAssumption DEF Record, Observe
    <2>5. arrival' = "jump" => insn.class = "jump"  BY <2>1, ExecuteIs
    <2>6. arrival' = "call" => insn.class \in {"call", "far_call"} /\ Len(frames') = Len(frames) + 1
      BY <2>1, ExecuteIs DEF Enters
    <2>7. arrival' = "call" => Len(frames') > low'
      <3>1. /\ Len(frames) \in Nat /\ low \in Nat /\ low <= Len(frames)  BY StackNonempty
      <3> QED  BY <2>3, <2>6, <3>1
    <2> QED  BY <1>0, <2>1, <2>4, <2>5, <2>6, <2>7 DEF ArrivalInv, EntersBy
  <1>2. CASE /\ \E insn \in Insns : Execute(insn)
             /\ whole' = FALSE /\ low' = Min({low, Len(frames')})
             /\ UNCHANGED <<fmt, timed, decoder, gaps, recorders, known, calls, spent, samples>>
    BY <1>0, <1>2 DEF ArrivalInv
  <1>3. CASE UNCHANGED <<fmt, timed, thread, recorders, history>>
    BY <1>3 DEF ArrivalInv, EntersBy, thread, recorders, history
  <1> QED  BY <1>1, <1>2, <1>3, Steps
-----------------------------------------------------------------------------
(* The profile.                                                            *)

BoundedEntry(e, ex) ==
    /\ e.entry_tsc <= ex
    /\ e.cumulative_tsc <= IF e.entry_tsc > 0 THEN e.entry_tsc ELSE ex

LEMMA ProfileRecordIs ==
    ASSUME NEW p \in [Symbols -> EntrySet], NEW ex \in Nat,
           \A f \in Symbols : BoundedEntry(p[f], ex),
           NEW g, NEW entered \in BOOLEAN, NEW c, NEW tsc \in {0, ex + 1}
    PROVE  LET q == profile_record(p, g, entered, c, tsc)
           IN  q \in [Symbols -> EntrySet] /\ \A f \in Symbols : BoundedEntry(q[f], ex + 1)
  <1> DEFINE e0 == p[g]
             e1 == [e0 EXCEPT !.calls = IF entered THEN @ + 1 ELSE @,
                              !.entry_tsc = IF entered /\ tsc > 0 THEN tsc ELSE @]
             e2 == [e1 EXCEPT !.returns = @ + 1]
             e3 == [e2 EXCEPT !.cumulative_tsc = @ + (tsc - e1.entry_tsc), !.entry_tsc = 0]
             e4 == [e1 EXCEPT !.branches = @ + 1]
             new == CASE c = "return" -> IF tsc > e1.entry_tsc /\ e1.entry_tsc > 0 THEN e3 ELSE e2
                      [] c = "jump"   -> e4
                      [] OTHER        -> e1
             q == profile_record(p, g, entered, c, tsc)
  <1>0. tsc \in Nat /\ tsc <= ex + 1  OBVIOUS
  <1>1. \A e \in EntrySet : BoundedEntry(e, ex) => BoundedEntry(e, ex + 1)
    BY DEF BoundedEntry, EntrySet
  <1>2. CASE g \notin Symbols
    <2>1. q = p  BY <1>2 DEF profile_record
    <2> QED  BY <1>1, <2>1
  <1>3. CASE g \in Symbols
    <2>1. e0 \in EntrySet /\ BoundedEntry(e0, ex)  BY <1>3
    <2>2. q = [p EXCEPT ![g] = new]  BY <1>3 DEF profile_record
    <2> HIDE DEF e0
    <2>3. /\ e1 \in EntrySet /\ e1.cumulative_tsc = e0.cumulative_tsc
          /\ e1.entry_tsc = IF entered /\ tsc > 0 THEN tsc ELSE e0.entry_tsc
      <3> DEFINE n == IF entered THEN e0.calls + 1 ELSE e0.calls
                 t == IF entered /\ tsc > 0 THEN tsc ELSE e0.entry_tsc
      <3>1. e0.calls \in Nat /\ e0.entry_tsc \in Nat  BY <2>1 DEF EntrySet
      <3>2. n \in Nat /\ t \in Nat  BY <1>0, <3>1
      <3>3. e1 = [e0 EXCEPT !.calls = n, !.entry_tsc = t]  OBVIOUS
      <3> HIDE DEF n, t, e1
      <3>4. e1 \in EntrySet /\ e1.cumulative_tsc = e0.cumulative_tsc /\ e1.entry_tsc = t
        BY <2>1, <3>2, <3>3 DEF EntrySet
      <3> QED  BY <3>4 DEF t
    <2>4. BoundedEntry(e1, ex + 1)
      BY <1>0, <2>1, <2>3 DEF BoundedEntry, EntrySet
    <2> HIDE DEF e1
    <2>5. e2 \in EntrySet /\ BoundedEntry(e2, ex + 1)
      BY <2>3, <2>4 DEF EntrySet, BoundedEntry
    <2>6. e4 \in EntrySet /\ BoundedEntry(e4, ex + 1)
      BY <2>3, <2>4 DEF EntrySet, BoundedEntry
    <2>7. ASSUME tsc > e1.entry_tsc, e1.entry_tsc > 0
          PROVE  e3 \in EntrySet /\ BoundedEntry(e3, ex + 1)
      <3>1. e2.cumulative_tsc = e1.cumulative_tsc /\ e2 \in EntrySet  BY <2>3 DEF EntrySet
      <3>2. e1.entry_tsc \in Nat /\ e1.cumulative_tsc \in Nat  BY <2>3 DEF EntrySet
      <3>3. e1.cumulative_tsc <= e1.entry_tsc  BY <2>4, <2>7, <3>2 DEF BoundedEntry
      <3> DEFINE sum == e1.cumulative_tsc + (tsc - e1.entry_tsc)
      <3>4. sum \in Nat /\ sum <= ex + 1  BY <1>0, <2>7, <3>2, <3>3
      <3> HIDE DEF sum, e2
      <3>5. e3 = [e2 EXCEPT !.cumulative_tsc = sum, !.entry_tsc = 0]  BY <3>1 DEF sum
      <3> HIDE DEF e3
      <3>6. e3 \in EntrySet /\ e3.cumulative_tsc = sum /\ e3.entry_tsc = 0
        BY <3>1, <3>4, <3>5 DEF EntrySet
      <3> QED  BY <3>4, <3>6 DEF BoundedEntry
    <2> HIDE DEF e2, e3, e4
    <2>8. new \in EntrySet /\ BoundedEntry(new, ex + 1)
      <3>1. CASE c = "return"
        <4>1. new = IF tsc > e1.entry_tsc /\ e1.entry_tsc > 0 THEN e3 ELSE e2  BY <3>1
        <4> QED  BY <2>5, <2>7, <4>1
      <3>2. CASE c = "jump"
        <4>1. new = e4  BY <3>2
        <4> QED  BY <2>6, <4>1
      <3>3. CASE c # "return" /\ c # "jump"
        <4>1. new = e1  BY <3>3
        <4> QED  BY <2>3, <2>4, <4>1
      <3> QED  BY <3>1, <3>2, <3>3
    <2> HIDE DEF new, q
    <2>9. q \in [Symbols -> EntrySet]  BY <2>2, <2>8
    <2>10. \A f \in Symbols : q[f] = IF f = g THEN new ELSE p[f]  BY <2>2
    <2>11. \A f \in Symbols : BoundedEntry(q[f], ex + 1)
      <3> TAKE f \in Symbols
      <3>1. CASE f = g  BY <2>8, <2>10, <3>1
      <3>2. CASE f # g
        <4>1. p[f] \in EntrySet /\ q[f] = p[f]  BY <2>10, <3>2
        <4> QED  BY <1>1, <4>1
      <3> QED  BY <3>1, <3>2
    <2> QED  BY <2>9, <2>11 DEF q
  <1> QED  BY <1>2, <1>3

LEMMA InitProfile == Init => ProfileInv
  <1> SUFFICES ASSUME Init PROVE ProfileInv
    OBVIOUS
  <1>1. prof = profile_init /\ executed = 0  BY DEF Init
  <1> QED  BY <1>1 DEF profile_init, ProfileInv, ProfileTimeBounded, EntrySet

LEMMA ProfileNext == ThreadInv /\ ProfileInv /\ [Next]_vars => ProfileInv'
  <1> SUFFICES ASSUME ThreadInv, ProfileInv, [Next]_vars PROVE ProfileInv'
    OBVIOUS
  <1>1. /\ executed \in Nat /\ prof \in [Symbols -> EntrySet]
        /\ \A f \in Symbols : BoundedEntry(prof[f], executed)
    BY DecodeAssumption DEF ThreadInv, ProfileInv, ProfileTimeBounded, BoundedEntry
  <1>2. ASSUME prof' \in [Symbols -> EntrySet],
               \A f \in Symbols : BoundedEntry(prof'[f], executed')
        PROVE  ProfileInv'
    BY <1>2 DEF ProfileInv, ProfileTimeBounded, BoundedEntry
  <1>3. \A e \in EntrySet : BoundedEntry(e, executed) => BoundedEntry(e, executed + 1)
    BY <1>1 DEF BoundedEntry, EntrySet
  <1>4. \A f \in Symbols : BoundedEntry(prof[f], executed + 1)  BY <1>1, <1>3
  <1>5. CASE /\ \E insn \in Insns : Execute(insn) /\ Record(insn) /\ Observe(insn)
             /\ UNCHANGED <<fmt, timed, decoder, gaps>>
    <2>1. PICK insn \in Insns : Execute(insn) /\ Record(insn) /\ Observe(insn)  BY <1>5
    <2>2. executed' = executed + 1  BY <2>1 DEF Execute
    <2> DEFINE f == IF Here \in Symbols THEN Here ELSE "none"
               en == Entered(f, Start, prevClass)
    <2>3. prof' = IF fmt = "profile" THEN profile_record(prof, f, en, insn.class, Tsc) ELSE prof
      BY <2>1 DEF Record
    <2>4. en \in BOOLEAN  BY DEF Entered
    <2>5. Tsc \in {0, executed + 1}  BY DEF Tsc
    <2> HIDE DEF f, en
    <2>6. CASE fmt = "profile"
      <3>1. /\ profile_record(prof, f, en, insn.class, Tsc) \in [Symbols -> EntrySet]
            /\ \A x \in Symbols :
                  BoundedEntry(profile_record(prof, f, en, insn.class, Tsc)[x], executed + 1)
        BY <1>1, <2>4, <2>5, ProfileRecordIs
      <3>2. prof' = profile_record(prof, f, en, insn.class, Tsc)  BY <2>3, <2>6
      <3> QED  BY <1>2, <2>2, <3>1, <3>2
    <2>7. CASE fmt # "profile"
      <3>1. prof' = prof  BY <2>3, <2>7
      <3> QED  BY <1>1, <1>2, <1>4, <2>2, <3>1
    <2> QED  BY <2>6, <2>7
  <1>6. CASE /\ \E insn \in Insns : Execute(insn)
             /\ UNCHANGED recorders
    <2>1. executed' = executed + 1 /\ prof' = prof  BY <1>6 DEF Execute, recorders
    <2> QED  BY <1>1, <1>2, <1>4, <2>1
  <1>7. CASE UNCHANGED <<fmt, timed, thread, recorders, history>>
    <2>1. executed' = executed /\ prof' = prof  BY <1>7 DEF thread, recorders
    <2> QED  BY <1>1, <1>2, <2>1
  <1> QED  BY <1>5, <1>6, <1>7, Steps DEF recorders
-----------------------------------------------------------------------------
(* The call tree.                                                          *)

NodesOK(nodes) ==
    /\ DOMAIN nodes \subseteq Paths /\ <<>> \in DOMAIN nodes
    /\ \A p \in DOMAIN nodes :
          nodes[p] \in NodeSet /\ nodes[p].nchildren <= nodes[p].children_cap

(* What the reports print of two nodes is the same.                        *)
SameFigures(a, b) ==
    a.count = b.count /\ a.total_tsc = b.total_tsc /\ a.entry_tsc = b.entry_tsc

LEMMA NewNode == ct_node_init \in NodeSet /\ ct_node_init.nchildren <= ct_node_init.children_cap
  BY DEF ct_node_init, NodeSet

(* A child is in the tree, and nothing else has changed but its parent's   *)
(* array.                                                                  *)
Added(nodes, path, child, r) ==
    /\ NodesOK(r) /\ DOMAIN r = DOMAIN nodes \cup {child} /\ child # path
    /\ \A p \in DOMAIN nodes : p # path => r[p] = nodes[p]
    /\ SameFigures(r[path], nodes[path])
    /\ r[child] = IF child \in DOMAIN nodes THEN nodes[child] ELSE ct_node_init

LEMMA FindOrAddIs ==
    ASSUME NEW nodes, NodesOK(nodes), NEW path \in DOMAIN nodes, NEW f \in Symbols
    PROVE  Added(nodes, path, Append(path, f), ct_find_or_add_child(nodes, path, f))
  <1> DEFINE r == ct_find_or_add_child(nodes, path, f)
             child == Append(path, f)
  <1>0. r = ct_find_or_add_child(nodes, path, f) /\ child = Append(path, f)  OBVIOUS
  <1> HIDE DEF r, child
  <1> SUFFICES Added(nodes, path, child, r)
    BY <1>0
  <1> USE <1>0
  <1>1. path \in Seq(Symbols) /\ nodes[path] \in NodeSet
        /\ nodes[path].nchildren <= nodes[path].children_cap
    BY DEF NodesOK, Paths
  <1>2. child \in Paths /\ Len(child) = Len(path) + 1 /\ Len(path) \in Nat
    BY <1>1, FrontOfAppend DEF Paths
  <1>3. child # path  BY <1>2
  <1>4. CASE child \in DOMAIN nodes
    <2>1. r = nodes  BY <1>4 DEF ct_find_or_add_child
    <2> QED  BY <1>3, <1>4, <2>1 DEF SameFigures, Added
  <1>5. CASE child \notin DOMAIN nodes
    <2> DEFINE par == nodes[path]
               grows == par.nchildren >= par.children_cap
               cap == IF ~grows THEN par.children_cap
                      ELSE IF par.children_cap = 0 THEN ChildrenCap ELSE 2 * par.children_cap
               mv == IF grows THEN par.moves + 1 ELSE par.moves
               mid == [nodes EXCEPT
                         ![path].nchildren = @ + 1,
                         ![path].children_cap =
                            IF ~grows THEN @ ELSE IF @ = 0 THEN ChildrenCap ELSE 2 * @,
                         ![path].moves = IF grows THEN @ + 1 ELSE @]
    <2>1. r = Put(mid, child, ct_node_init)  BY <1>5 DEF ct_find_or_add_child
    <2>2. /\ DOMAIN mid = DOMAIN nodes
          /\ \A p \in DOMAIN nodes : p # path => mid[p] = nodes[p]
      OBVIOUS
    <2>3. /\ mid[path] = [par EXCEPT !.nchildren = par.nchildren + 1,
                                     !.children_cap = cap, !.moves = mv]
      BY <1>1 DEF NodeSet
    <2>4. /\ par.nchildren \in Nat /\ par.children_cap \in Nat /\ par.moves \in Nat
          /\ ChildrenCap \in Nat /\ ChildrenCap > 0 /\ par.nchildren <= par.children_cap
      BY <1>1, DecodeAssumption DEF NodeSet
    <2>5. cap \in Nat /\ mv \in Nat /\ par.nchildren + 1 \in Nat /\ par.nchildren + 1 <= cap
      BY <2>4
    <2>6. par \in NodeSet  BY <1>1
    <2> HIDE DEF par, cap, mv, mid
    <2> DEFINE x == mid[path]
    <2>7. /\ x \in NodeSet /\ x.nchildren <= x.children_cap /\ SameFigures(x, par)
      BY <2>3, <2>5, <2>6 DEF NodeSet, SameFigures
    <2>8. /\ DOMAIN r = DOMAIN nodes \cup {child} /\ r[child] = ct_node_init
          /\ \A p \in DOMAIN nodes : r[p] = mid[p]
      <3>1. /\ DOMAIN r = DOMAIN mid \cup {child} /\ r[child] = ct_node_init
            /\ \A p \in DOMAIN mid : p # child => r[p] = mid[p]
        BY <2>1 DEF Put
      <3> QED  BY <1>5, <2>2, <3>1
    <2> HIDE DEF x
    <2>9. \A p \in DOMAIN r : r[p] \in NodeSet /\ r[p].nchildren <= r[p].children_cap
      <3> TAKE p \in DOMAIN r
      <3>1. CASE p = child  BY <2>8, <3>1, NewNode
      <3>2. CASE p = path  BY <2>7, <2>8, <3>2 DEF x
      <3>3. CASE p # child /\ p # path
        <4>1. p \in DOMAIN nodes /\ r[p] = nodes[p]  BY <2>2, <2>8, <3>3
        <4> QED  BY <4>1 DEF NodesOK
      <3> QED  BY <3>1, <3>2, <3>3
    <2>10. NodesOK(r)  BY <1>2, <2>8, <2>9 DEF NodesOK
    <2>11. SameFigures(r[path], nodes[path])  BY <2>7, <2>8 DEF x, par
    <2> QED  BY <1>3, <1>5, <2>2, <2>8, <2>10, <2>11 DEF Added
  <1> QED  BY <1>4, <1>5

(* The top of the shadow stack is a node, as deep as the stack is high.    *)
LEMMA TopIs ==
    ASSUME NEW t, TreeInv(t)
    PROVE  /\ NodesOK(t.nodes) /\ Top(t) \in DOMAIN t.nodes /\ Top(t) \in Paths
           /\ Len(t.stack) \in Nat /\ DOMAIN t.stack = 1..Len(t.stack)
           /\ Len(Top(t)) = Len(t.stack)
           /\ t.stack # <<>> => Len(t.stack) > 0 /\ Top(t) = t.stack[Len(t.stack)].path
  <1>1. NodesOK(t.nodes)  BY DEF TreeInv, NodesOK
  <1>2. Len(t.stack) \in Nat /\ DOMAIN t.stack = 1..Len(t.stack)  BY DEF TreeInv
  <1>3. CASE t.stack = <<>>
    <2>1. Top(t) = <<>> /\ Len(<<>>) = 0  BY <1>3 DEF Top
    <2> QED  BY <1>1, <1>2, <1>3, <2>1 DEF NodesOK
  <1>4. CASE t.stack # <<>>
    <2>1. Len(t.stack) > 0  BY <1>4, EmptySeq DEF TreeInv
    <2>2. Len(t.stack) \in DOMAIN t.stack  BY <1>2, <2>1
    <2>3. Top(t) = t.stack[Len(t.stack)].path  BY <1>4 DEF Top, Last
    <2>4. Top(t) \in DOMAIN t.nodes /\ Len(Top(t)) = Len(t.stack)
      BY <2>2, <2>3 DEF TreeInv
    <2> QED  BY <1>1, <1>2, <2>1, <2>3, <2>4 DEF NodesOK
  <1> QED  BY <1>3, <1>4

(* The child is counted and stamped, and is the new top.                   *)
Pushed(t, child, tsc, r) ==
    /\ TreeInv(r) /\ DOMAIN r.nodes = DOMAIN t.nodes \cup {child} /\ child \in Paths
    /\ child = Append(Top(t), Last(child))
    /\ \A p \in DOMAIN t.nodes : p # child => SameFigures(r.nodes[p], t.nodes[p])
    /\ LET old == IF child \in DOMAIN t.nodes THEN t.nodes[child] ELSE ct_node_init
       IN  /\ r.nodes[child].count = old.count + 1
           /\ r.nodes[child].total_tsc = old.total_tsc
           /\ r.nodes[child].entry_tsc = tsc
    /\ Len(r.stack) = Len(t.stack) + 1 /\ r.stack[Len(t.stack) + 1].path = child
    /\ \A i \in 1..Len(t.stack) : r.stack[i] = t.stack[i]

LEMMA PushIs ==
    ASSUME NEW t, TreeInv(t), NEW f \in Symbols, NEW tsc \in Nat
    PROVE  Pushed(t, Append(Top(t), f), tsc, calltree_push(t, f, tsc))
  <1> DEFINE r == calltree_push(t, f, tsc)
             child == Append(Top(t), f)
  <1>0. r = calltree_push(t, f, tsc) /\ child = Append(Top(t), f)  OBVIOUS
  <1> HIDE DEF r, child
  <1> SUFFICES Pushed(t, child, tsc, r)
    BY <1>0
  <1> USE <1>0
  <1> DEFINE parent == Top(t)
             mid == ct_find_or_add_child(t.nodes, parent, f)
             nodes == [mid EXCEPT ![child].count = @ + 1, ![child].entry_tsc = tsc]
             ptr == [path |-> child, moves |-> mid[parent].moves]
             n == Len(t.stack)
  <1>1. r = [nodes |-> nodes, stack |-> Append(t.stack, ptr)]  BY DEF calltree_push
  <1>2. /\ NodesOK(t.nodes) /\ parent \in DOMAIN t.nodes /\ parent \in Paths
        /\ n \in Nat /\ DOMAIN t.stack = 1..n /\ Len(parent) = n
        /\ t.stack # <<>> => parent = t.stack[n].path
    BY TopIs
  <1>3. t.stack \in Seq(Pointers)  BY DEF TreeInv
  <1>a. mid = ct_find_or_add_child(t.nodes, parent, f) /\ child = Append(parent, f)
    OBVIOUS
  <1> HIDE DEF parent, mid
  <1>4. /\ NodesOK(mid) /\ DOMAIN mid = DOMAIN t.nodes \cup {child} /\ child # parent
        /\ \A p \in DOMAIN t.nodes : p # parent => mid[p] = t.nodes[p]
        /\ SameFigures(mid[parent], t.nodes[parent])
        /\ mid[child] = IF child \in DOMAIN t.nodes THEN t.nodes[child] ELSE ct_node_init
    <2> DEFINE old == t.nodes
    <2>1. NodesOK(old) /\ parent \in DOMAIN old /\ mid = ct_find_or_add_child(old, parent, f)
      BY <1>2, <1>a
    <2> HIDE DEF old
    <2>2. child = Append(parent, f)  BY <1>a
    <2>3. /\ NodesOK(mid) /\ DOMAIN mid = DOMAIN old \cup {child} /\ child # parent
          /\ \A p \in DOMAIN old : p # parent => mid[p] = old[p]
          /\ SameFigures(mid[parent], old[parent])
          /\ mid[child] = IF child \in DOMAIN old THEN old[child] ELSE ct_node_init
      <3>1. Added(old, parent, Append(parent, f), ct_find_or_add_child(old, parent, f))
        BY <2>1, FindOrAddIs
      <3>2. Added(old, parent, child, mid)  BY <2>1, <2>2, <3>1
      <3> QED  BY <3>2 DEF Added
    <2> QED  BY <2>3 DEF old
  <1>5. child \in Paths /\ Len(child) = n + 1 /\ Front(child) = parent
    BY <1>2, <1>a, FrontOfAppend DEF Paths
  <1>6. mid[child] \in NodeSet /\ mid[child].nchildren <= mid[child].children_cap
        /\ mid[parent] \in NodeSet
    BY <1>2, <1>4 DEF NodesOK
  <1>7. /\ DOMAIN nodes = DOMAIN mid
        /\ \A p \in DOMAIN mid : p # child => nodes[p] = mid[p]
    BY <1>4
  <1> DEFINE m == mid[child]
             x == nodes[child]
  <1>b. x = [m EXCEPT !.count = m.count + 1, !.entry_tsc = tsc]
    BY <1>4, <1>6 DEF NodeSet
  <1> HIDE DEF nodes
  <1>8. /\ x \in NodeSet /\ x.nchildren <= x.children_cap /\ x.moves = m.moves
        /\ x.count = m.count + 1 /\ x.total_tsc = m.total_tsc /\ x.entry_tsc = tsc
    <2> HIDE DEF x, m
    <2>1. m \in NodeSet /\ m.nchildren <= m.children_cap  BY <1>6 DEF m
    <2> DEFINE k == m.count + 1
    <2>2. k \in Nat  BY <2>1 DEF NodeSet
    <2>3. x = [m EXCEPT !.count = k, !.entry_tsc = tsc]  BY <1>b
    <2> HIDE DEF k
    <2>4. /\ x \in NodeSet /\ x.nchildren <= x.children_cap /\ x.moves = m.moves
          /\ x.count = k /\ x.total_tsc = m.total_tsc /\ x.entry_tsc = tsc
      BY <2>1, <2>2, <2>3 DEF NodeSet
    <2> QED  BY <2>4 DEF k
  <1> HIDE DEF x, m
  <1>9. NodesOK(nodes)
    <2>1. ASSUME NEW p \in DOMAIN nodes
          PROVE  nodes[p] \in NodeSet /\ nodes[p].nchildren <= nodes[p].children_cap
      <3>1. CASE p = child  BY <1>8, <3>1 DEF x
      <3>2. CASE p # child  BY <1>4, <1>7, <3>2 DEF NodesOK
      <3> QED  BY <3>1, <3>2
    <2> QED  BY <1>4, <1>7, <2>1 DEF NodesOK
  <1>10. \A p \in DOMAIN mid : nodes[p].moves = mid[p].moves
    BY <1>7, <1>8 DEF x, m
  <1>11. ptr \in Pointers /\ ptr.path = child /\ ptr.moves = mid[parent].moves
    BY <1>5, <1>6 DEF Pointers, NodeSet
  <1> HIDE DEF ptr
  <1> DEFINE stack == Append(t.stack, ptr)
  <1>12. /\ stack \in Seq(Pointers) /\ Len(stack) = n + 1 /\ DOMAIN stack = 1..(n + 1)
         /\ stack[n + 1] = ptr /\ \A i \in 1..n : stack[i] = t.stack[i]
    BY <1>2, <1>3, <1>11
  <1>13. r.nodes = nodes /\ r.stack = stack  BY <1>1
  <1> HIDE DEF stack, n
  <1>14. ASSUME NEW i \in 1..(n + 1)
         PROVE  /\ stack[i].path \in DOMAIN nodes /\ Len(stack[i].path) = i
                /\ Front(stack[i].path) = (IF i = 1 THEN <<>> ELSE stack[i - 1].path)
                /\ nodes[Front(stack[i].path)].moves = stack[i].moves
    <2>1. CASE i = n + 1
      <3>1. stack[i].path = child /\ stack[i].moves = mid[parent].moves  BY <1>11, <1>12, <2>1
      <3>2. parent = IF i = 1 THEN <<>> ELSE stack[i - 1].path
        <4>1. CASE n = 0
          <5>1. t.stack = <<>>  BY <1>2, <1>3, <4>1, EmptySeq DEF n
          <5> QED  BY <2>1, <4>1, <5>1 DEF parent, Top
        <4>2. CASE n # 0
          <5>1. t.stack # <<>> /\ n \in 1..n /\ i - 1 = n /\ i # 1
            BY <1>2, <1>3, <2>1, <4>2 DEF n
          <5>2. stack[n] = t.stack[n]  BY <1>12, <5>1
          <5> QED  BY <1>2, <5>1, <5>2
        <4> QED  BY <4>1, <4>2
      <3>3. nodes[parent].moves = mid[parent].moves  BY <1>2, <1>4, <1>10
      <3> QED  BY <1>4, <1>5, <1>7, <2>1, <3>1, <3>2, <3>3
    <2>2. CASE i # n + 1
      <3>1. i \in 1..n /\ (i # 1 => i - 1 \in 1..n)  BY <1>2, <2>2
      <3>2. stack[i] = t.stack[i] /\ (i # 1 => stack[i - 1] = t.stack[i - 1])  BY <1>12, <3>1
      <3>3. /\ t.stack[i].path \in DOMAIN t.nodes /\ Len(t.stack[i].path) = i
            /\ Front(t.stack[i].path) = (IF i = 1 THEN <<>> ELSE t.stack[i - 1].path)
            /\ t.nodes[Front(t.stack[i].path)].moves = t.stack[i].moves
        BY <1>2, <3>1 DEF TreeInv
      <3> DEFINE up == Front(t.stack[i].path)
      <3>4. up \in DOMAIN t.nodes /\ Len(up) = i - 1
        <4>1. CASE i = 1  BY <1>2, <3>3, <4>1 DEF NodesOK
        <4>2. CASE i # 1
          <5>1. /\ t.stack[i - 1].path \in DOMAIN t.nodes /\ Len(t.stack[i - 1].path) = i - 1
            BY <1>2, <3>1, <4>2 DEF TreeInv
          <5> QED  BY <3>3, <4>2, <5>1
        <4> QED  BY <4>1, <4>2
      <3>5. up # parent  BY <1>2, <3>1, <3>4
      <3>6. nodes[up].moves = t.nodes[up].moves
        <4>1. mid[up] = t.nodes[up] /\ up \in DOMAIN mid  BY <1>4, <3>4, <3>5
        <4> QED  BY <1>10, <4>1
      <3> QED  BY <1>4, <1>7, <3>2, <3>3, <3>6
    <2> QED  BY <2>1, <2>2
  <1>15. TreeInv(r)  BY <1>9, <1>12, <1>13, <1>14 DEF TreeInv, NodesOK
  <1>16. \A p \in DOMAIN t.nodes : p # child => SameFigures(nodes[p], t.nodes[p])
    <2> SUFFICES ASSUME NEW p \in DOMAIN t.nodes, p # child
                 PROVE  SameFigures(nodes[p], t.nodes[p])
      OBVIOUS
    <2>1. nodes[p] = mid[p]  BY <1>4, <1>7
    <2>2. CASE p = parent  BY <1>4, <2>1, <2>2
    <2>3. CASE p # parent  BY <1>4, <2>1, <2>3 DEF SameFigures
    <2> QED  BY <2>2, <2>3
  <1>17. stack[n + 1].path = child  BY <1>11, <1>12
  <1>18. Last(child) = f  BY <1>2, <1>a, FrontOfAppend DEF Paths
  <1> QED
    BY <1>4, <1>5, <1>7, <1>8, <1>12, <1>13, <1>15, <1>16, <1>17, <1>18 DEF n, x, m, Pushed

(* The top's time is added up, and it is no longer on the stack.           *)
Popped(t, tsc, r) ==
    /\ TreeInv(r) /\ DOMAIN r.nodes = DOMAIN t.nodes
    /\ \A p \in DOMAIN t.nodes : p # Top(t) => r.nodes[p] = t.nodes[p]
    /\ LET old == t.nodes[Top(t)]
           new == r.nodes[Top(t)]
       IN  /\ new.count = old.count /\ new.entry_tsc = 0
           /\ new.total_tsc = old.total_tsc + IF tsc > old.entry_tsc /\ old.entry_tsc > 0
                                              THEN tsc - old.entry_tsc ELSE 0
    /\ Len(r.stack) = Len(t.stack) - 1
    /\ \A i \in 1..Len(r.stack) : r.stack[i] = t.stack[i]

LEMMA PopIs ==
    ASSUME NEW t, TreeInv(t), t.stack # <<>>, NEW tsc \in Nat
    PROVE  Popped(t, tsc, calltree_pop(t, tsc))
  <1> DEFINE r == calltree_pop(t, tsc)
             top == Top(t)
             node == t.nodes[top]
             took == IF tsc > node.entry_tsc /\ node.entry_tsc > 0
                     THEN tsc - node.entry_tsc ELSE 0
             nodes == [t.nodes EXCEPT ![top].total_tsc = @ + took, ![top].entry_tsc = 0]
             n == Len(t.stack)
  <1>1. r = [nodes |-> nodes, stack |-> Front(t.stack)]  BY DEF calltree_pop
  <1>2. /\ NodesOK(t.nodes) /\ top \in DOMAIN t.nodes /\ n \in Nat /\ DOMAIN t.stack = 1..n
    BY TopIs
  <1>3. node \in NodeSet /\ node.nchildren <= node.children_cap  BY <1>2 DEF NodesOK
  <1> DEFINE x == nodes[top]
             sum == node.total_tsc + took
  <1>4. /\ DOMAIN nodes = DOMAIN t.nodes
        /\ \A p \in DOMAIN t.nodes : p # top => nodes[p] = t.nodes[p]
    BY <1>2
  <1>5. x = [node EXCEPT !.total_tsc = sum, !.entry_tsc = 0]  BY <1>2, <1>3 DEF NodeSet
  <1>6. r.nodes = nodes /\ r.stack = Front(t.stack)  BY <1>1
  <1> HIDE DEF node
  <1>7. took \in Nat /\ sum \in Nat
    <2>1. node.total_tsc \in Nat /\ node.entry_tsc \in Nat  BY <1>3 DEF NodeSet
    <2>2. took \in Nat  BY <2>1
    <2> QED  BY <2>1, <2>2
  <1> HIDE DEF nodes, sum, took
  <1>8. /\ x \in NodeSet /\ x.nchildren <= x.children_cap /\ x.moves = node.moves
        /\ x.count = node.count /\ x.total_tsc = sum /\ x.entry_tsc = 0
    <2> HIDE DEF x
    <2> QED  BY <1>3, <1>5, <1>7 DEF NodeSet
  <1>9. NodesOK(nodes)
    <2>1. ASSUME NEW p \in DOMAIN nodes
          PROVE  nodes[p] \in NodeSet /\ nodes[p].nchildren <= nodes[p].children_cap
      <3>1. CASE p = top  BY <1>8, <3>1
      <3>2. CASE p # top  BY <1>2, <1>4, <3>2 DEF NodesOK
      <3> QED  BY <3>1, <3>2
    <2> QED  BY <1>2, <1>4, <2>1 DEF NodesOK
  <1>10. \A p \in DOMAIN nodes : nodes[p].moves = t.nodes[p].moves
    BY <1>4, <1>8 DEF node
  <1>11. t.stack \in Seq(Pointers)  BY DEF TreeInv
  <1> DEFINE stack == Front(t.stack)
  <1>12. /\ stack \in Seq(Pointers) /\ n > 0 /\ Len(stack) = n - 1
         /\ \A i \in 1..(n - 1) : stack[i] = t.stack[i]
    BY <1>11, FrontIs
  <1>13. DOMAIN stack = 1..(n - 1)  BY <1>12
  <1> HIDE DEF stack, n, x
  <1>14. ASSUME NEW i \in 1..(n - 1)
         PROVE  /\ stack[i].path \in DOMAIN nodes /\ Len(stack[i].path) = i
                /\ Front(stack[i].path) = (IF i = 1 THEN <<>> ELSE stack[i - 1].path)
                /\ nodes[Front(stack[i].path)].moves = stack[i].moves
    <2>1. i \in 1..n /\ (i # 1 => i - 1 \in 1..(n - 1) /\ i - 1 \in 1..n)  BY <1>2
    <2>2. stack[i] = t.stack[i] /\ (i # 1 => stack[i - 1] = t.stack[i - 1])  BY <1>12, <2>1
    <2>3. /\ t.stack[i].path \in DOMAIN t.nodes /\ Len(t.stack[i].path) = i
          /\ Front(t.stack[i].path) = (IF i = 1 THEN <<>> ELSE t.stack[i - 1].path)
          /\ t.nodes[Front(t.stack[i].path)].moves = t.stack[i].moves
      BY <1>2, <2>1 DEF TreeInv
    <2>4. Front(t.stack[i].path) \in DOMAIN t.nodes
      <3>1. CASE i = 1  BY <1>2, <2>3, <3>1 DEF NodesOK
      <3>2. CASE i # 1
        <4>1. t.stack[i - 1].path \in DOMAIN t.nodes  BY <1>2, <2>1, <3>2 DEF TreeInv
        <4> QED  BY <2>3, <3>2, <4>1
      <3> QED  BY <3>1, <3>2
    <2> QED  BY <1>4, <1>10, <2>2, <2>3, <2>4
  <1>15. TreeInv(r)  BY <1>6, <1>9, <1>12, <1>13, <1>14 DEF TreeInv, NodesOK, stack
  <1> HIDE DEF r, top
  <1>16. Popped(t, tsc, r)
    BY <1>4, <1>6, <1>8, <1>12, <1>15 DEF Popped, stack, n, x, node, sum, took, top
  <1> QED  BY <1>16 DEF r

LEMMA InitTree == Init => TreeInv(ct)
  <1> SUFFICES ASSUME Init PROVE TreeInv(ct)
    OBVIOUS
  <1>1. ct = [nodes |-> Put(NoEntries, <<>>, ct_node_init), stack |-> <<>>]
    BY DEF Init, calltree_init
  <1> DEFINE nodes == Put(NoEntries, <<>>, ct_node_init)
  <1>2. DOMAIN nodes = {<<>>} /\ nodes[<<>>] = ct_node_init  BY DEF Put, NoEntries
  <1>3. ct.nodes = nodes /\ ct.stack = <<>>  BY <1>1
  <1> HIDE DEF nodes
  <1>4. ct.stack \in Seq(Pointers) /\ DOMAIN ct.stack = {}  BY <1>3
  <1>5. <<>> \in Paths  BY DEF Paths
  <1> QED  BY <1>2, <1>3, <1>4, <1>5, NewNode DEF TreeInv

LEMMA TreeRecordIs ==
    ASSUME NEW t, TreeInv(t), NEW f, NEW entered \in BOOLEAN, entered => f \in Symbols,
           NEW c, NEW tsc \in Nat
    PROVE  TreeInv(calltree_record(t, f, entered, c, tsc))
  <1> DEFINE t1 == IF entered THEN calltree_push(t, f, tsc) ELSE t
  <1>1. TreeInv(t1)
    <2>1. CASE entered
      <3>1. Pushed(t, Append(Top(t), f), tsc, calltree_push(t, f, tsc))  BY <2>1, PushIs
      <3>2. TreeInv(calltree_push(t, f, tsc))  BY <3>1 DEF Pushed
      <3> QED  BY <2>1, <3>2
    <2>2. CASE ~entered  BY <2>2
    <2> QED  BY <2>1, <2>2
  <1>2. calltree_record(t, f, entered, c, tsc) = IF c = "return" THEN calltree_pop(t1, tsc) ELSE t1
    BY DEF calltree_record
  <1> HIDE DEF t1
  <1>3. TreeInv(calltree_pop(t1, tsc))
    <2>1. CASE t1.stack = <<>>
      <3>1. calltree_pop(t1, tsc) = t1  BY <2>1 DEF calltree_pop
      <3> QED  BY <1>1, <3>1
    <2>2. CASE t1.stack # <<>>
      <3>1. Popped(t1, tsc, calltree_pop(t1, tsc))  BY <1>1, <2>2, PopIs
      <3> QED  BY <3>1 DEF Popped
    <2> QED  BY <2>1, <2>2
  <1> QED  BY <1>1, <1>2, <1>3

LEMMA TreeNext == ThreadInv /\ TreeInv(ct) /\ [Next]_vars => TreeInv(ct')
  <1> SUFFICES ASSUME ThreadInv, TreeInv(ct), [Next]_vars PROVE TreeInv(ct')
    OBVIOUS
  <1>1. CASE \E insn \in Insns : Execute(insn) /\ Record(insn) /\ Observe(insn)
    <2>1. PICK insn \in Insns : Execute(insn) /\ Record(insn) /\ Observe(insn)  BY <1>1
    <2> DEFINE f == IF Here \in Symbols THEN Here ELSE "none"
               en == Entered(f, Start, prevClass)
    <2>2. ct' = IF fmt = "tree" THEN calltree_record(ct, f, en, insn.class, Tsc) ELSE ct
      BY <2>1 DEF Record
    <2>3. en \in BOOLEAN /\ (en => f \in Symbols)  BY DEF Entered
    <2>4. Tsc \in Nat  BY DecodeAssumption DEF Tsc, ThreadInv
    <2> HIDE DEF f, en
    <2>5. TreeInv(calltree_record(ct, f, en, insn.class, Tsc))  BY <2>3, <2>4, TreeRecordIs
    <2> QED  BY <2>2, <2>5
  <1>2. CASE UNCHANGED recorders
    <2>1. ct' = ct  BY <1>2 DEF recorders
    <2> QED  BY <2>1
  <1> QED  BY <1>1, <1>2, Steps DEF recorders
-----------------------------------------------------------------------------
(* The table of folded stacks.                                             *)

(* A line is counted once, or is new and the table is full.                *)
Tabled(old, line, new) ==
    \/ /\ line \in DOMAIN old
       /\ DOMAIN new = DOMAIN old /\ new[line] = old[line] + 1
       /\ \A d \in DOMAIN old : d # line => new[d] = old[d]
    \/ /\ line \notin DOMAIN old
       /\ Cardinality(DOMAIN old) = MaxStacks /\ new = old
    \/ /\ line \notin DOMAIN old
       /\ Cardinality(DOMAIN old) # MaxStacks
       /\ DOMAIN new = DOMAIN old \cup {line} /\ new[line] = 1
       /\ \A d \in DOMAIN old : new[d] = old[d]

Counted(old, names, new) ==
    IF names = <<>> THEN new = old ELSE Tabled(old, collapsed_build_stack(names), new)

LEMMA NewCapacity ==
    ASSUME NEW count \in Nat, NEW capacity \in Nat, count <= capacity, capacity <= MaxStacks
    PROVE  LET newcap == IF count < capacity THEN capacity
                         ELSE IF capacity = 0 THEN Min({StacksCap, MaxStacks})
                         ELSE Min({2 * capacity, MaxStacks})
           IN  /\ newcap \in Nat /\ newcap <= MaxStacks /\ count <= newcap
               /\ count >= newcap => count = MaxStacks
  <1>1. MaxStacks \in Nat /\ MaxStacks > 0 /\ StacksCap \in Nat /\ StacksCap > 0
        /\ StacksCap <= MaxStacks
    BY DecodeAssumption
  <1>2. Min({StacksCap, MaxStacks}) = StacksCap  BY <1>1, MinIs
  <1>3. 2 * capacity \in Nat  OBVIOUS
  <1>4. Min({2 * capacity, MaxStacks}) = IF 2 * capacity <= MaxStacks THEN 2 * capacity ELSE MaxStacks
    BY <1>1, <1>3, MinIs
  <1> DEFINE a == Min({StacksCap, MaxStacks})
             b == Min({2 * capacity, MaxStacks})
  <1> HIDE DEF a, b
  <1>5. a = StacksCap  BY <1>2 DEF a
  <1>6. b = IF 2 * capacity <= MaxStacks THEN 2 * capacity ELSE MaxStacks  BY <1>4 DEF b
  <1>7. LET newcap == IF count < capacity THEN capacity ELSE IF capacity = 0 THEN a ELSE b
        IN  /\ newcap \in Nat /\ newcap <= MaxStacks /\ count <= newcap
            /\ count >= newcap => count = MaxStacks
    BY <1>1, <1>5, <1>6
  <1> QED  BY <1>7 DEF a, b

LEMMA CountStackIs ==
    ASSUME NEW s, TableInv(s)
    PROVE  LET r == collapsed_count_stack(s)
           IN  TableInv(r) /\ r.names = s.names /\ Counted(s.entries, s.names, r.entries)
  <1> DEFINE r == collapsed_count_stack(s)
             names == s.names
             line == collapsed_build_stack(s.names)
             entries == s.entries
             count == Cardinality(DOMAIN entries)
             newcap == IF count < s.capacity THEN s.capacity
                       ELSE IF s.capacity = 0 THEN Min({StacksCap, MaxStacks})
                       ELSE Min({2 * s.capacity, MaxStacks})
  <1>1. /\ names \in Paths /\ Len(names) <= MaxStackDepth
        /\ IsFiniteSet(DOMAIN entries)
        /\ \A d \in DOMAIN entries : entries[d] \in Nat
        /\ s.capacity \in Nat /\ s.capacity <= MaxStacks /\ count <= s.capacity
        /\ s = [names |-> names, entries |-> entries, capacity |-> s.capacity]
    BY DEF TableInv
  <1>2. count \in Nat  BY <1>1, FS_CardinalityType
  <1>3. /\ newcap \in Nat /\ newcap <= MaxStacks /\ count <= newcap
        /\ count >= newcap => count = MaxStacks
    <2> DEFINE cap == s.capacity
    <2>1. cap \in Nat /\ cap <= MaxStacks /\ count <= cap  BY <1>1
    <2> HIDE DEF cap, count
    <2> QED  BY <1>2, <2>1, NewCapacity DEF cap
  <1>4. r = IF names = <<>> THEN s
            ELSE IF line \in DOMAIN entries THEN [s EXCEPT !.entries[line] = @ + 1]
            ELSE IF count >= newcap THEN s
            ELSE [s EXCEPT !.entries = Put(@, line, 1), !.capacity = newcap]
    BY DEF collapsed_count_stack
  <1> HIDE DEF newcap, count, r, line
  <1>5. CASE names = <<>> \/ (line \notin DOMAIN entries /\ count >= newcap)
    <2>1. r = s  BY <1>4, <1>5
    <2>2. Counted(entries, names, entries)  BY <1>3, <1>5 DEF Counted, Tabled, line, count
    <2> QED  BY <2>1, <2>2 DEF r
  <1>6. CASE names # <<>> /\ line \in DOMAIN entries
    <2> DEFINE e == [entries EXCEPT ![line] = @ + 1]
               cap == s.capacity
    <2>1. r = [s EXCEPT !.entries[line] = @ + 1]  BY <1>4, <1>6
    <2>2. r = [names |-> names, entries |-> e, capacity |-> cap]
      <3> HIDE DEF cap, names, entries
      <3>1. s = [names |-> names, entries |-> entries, capacity |-> cap]
        BY <1>1 DEF names, entries, cap
      <3> QED  BY <2>1, <3>1
    <2>3. /\ DOMAIN e = DOMAIN entries /\ e[line] = entries[line] + 1
          /\ \A d \in DOMAIN entries : d # line => e[d] = entries[d]
      BY <1>6
    <2>4. \A d \in DOMAIN e : e[d] \in Nat  BY <1>1, <1>6, <2>3
    <2> HIDE DEF e, cap
    <2>5. r.names = names /\ r.entries = e /\ r.capacity = cap  BY <2>2
    <2>6. TableInv(r)  BY <1>1, <1>2, <2>2, <2>3, <2>4, <2>5 DEF TableInv, count, cap
    <2>7. Counted(entries, names, e)  BY <1>6, <2>3 DEF Counted, Tabled, line
    <2> QED  BY <2>5, <2>6, <2>7 DEF r
  <1>7. CASE names # <<>> /\ line \notin DOMAIN entries /\ ~(count >= newcap)
    <2> DEFINE e == Put(entries, line, 1)
    <2>1. r = [s EXCEPT !.entries = Put(@, line, 1), !.capacity = newcap]  BY <1>4, <1>7
    <2>2. r = [names |-> names, entries |-> e, capacity |-> newcap]
      <3> DEFINE cap == s.capacity
      <3>1. s = [names |-> names, entries |-> entries, capacity |-> cap]  BY <1>1
      <3>2. r = [s EXCEPT !.entries = e, !.capacity = newcap]  BY <2>1
      <3> HIDE DEF cap, names, entries, e
      <3> QED  BY <3>1, <3>2
    <2>3. /\ DOMAIN e = DOMAIN entries \cup {line} /\ e[line] = 1
          /\ \A d \in DOMAIN entries : e[d] = entries[d]
      BY <1>7 DEF Put
    <2> HIDE DEF e
    <2>4. \A d \in DOMAIN e : e[d] \in Nat  BY <1>1, <2>3
    <2>5. r.names = names /\ r.entries = e /\ r.capacity = newcap  BY <2>2
    <2>6. IsFiniteSet(DOMAIN e) /\ Cardinality(DOMAIN e) = count + 1
      BY <1>1, <1>7, <2>3, FS_AddElement DEF count
    <2>8. Cardinality(DOMAIN e) <= newcap  BY <1>2, <1>3, <1>7, <2>6
    <2>9. TableInv(r)  BY <1>1, <1>3, <2>2, <2>4, <2>5, <2>6, <2>8 DEF TableInv
    <2>10. Counted(entries, names, e)
      <3>1. count # MaxStacks  BY <1>2, <1>3, <1>7, DecodeAssumption
      <3> QED  BY <1>7, <2>3, <3>1 DEF Counted, Tabled, line, count
    <2> QED  BY <2>5, <2>9, <2>10 DEF r
  <1> QED  BY <1>5, <1>6, <1>7

(* The stack of names after an instruction, before it is counted.          *)
Longer(names, f, entered) ==
    IF entered /\ Len(names) < MaxStackDepth THEN Append(names, f) ELSE names

Shorter(names) == IF names = <<>> THEN names ELSE Front(names)

FoldedStep(s, names, c, r) ==
    /\ TableInv(r)
    /\ c # "return" => r.names = names /\ r.entries = s.entries
    /\ c = "return" => r.names = Shorter(names) /\ Counted(s.entries, names, r.entries)

LEMMA CollapsedRecordIs ==
    ASSUME NEW s, TableInv(s), NEW f, NEW entered \in BOOLEAN, entered => f \in Symbols, NEW c
    PROVE  FoldedStep(s, Longer(s.names, f, entered), c, collapsed_record(s, f, entered, c))
  <1> DEFINE names == Longer(s.names, f, entered)
             s1 == IF entered /\ Len(s.names) < MaxStackDepth
                   THEN [s EXCEPT !.names = Append(@, f)] ELSE s
             s2 == collapsed_count_stack(s1)
             r == collapsed_record(s, f, entered, c)
  <1>1. /\ s.names \in Paths /\ Len(s.names) <= MaxStackDepth /\ MaxStackDepth \in Nat
        /\ IsFiniteSet(DOMAIN s.entries)
        /\ \A d \in DOMAIN s.entries : s.entries[d] \in Nat
        /\ s.capacity \in Nat /\ s.capacity <= MaxStacks
        /\ Cardinality(DOMAIN s.entries) <= s.capacity
        /\ s = [names |-> s.names, entries |-> s.entries, capacity |-> s.capacity]
    BY DecodeAssumption DEF TableInv
  <1>2. TableInv(s1) /\ s1.names = names /\ s1.entries = s.entries
    <2>1. CASE entered /\ Len(s.names) < MaxStackDepth
      <3> DEFINE new == Append(s.names, f)
                 old == s.names
                 ents == s.entries
                 cap == s.capacity
      <3>1. new \in Paths /\ Len(new) = Len(s.names) + 1 /\ Len(s.names) \in Nat
        BY <1>1, <2>1, FrontOfAppend DEF Paths
      <3>2. Len(new) <= MaxStackDepth  BY <1>1, <2>1, <3>1
      <3>3. s1 = [s EXCEPT !.names = new] /\ names = new  BY <2>1 DEF Longer
      <3>4. s = [names |-> old, entries |-> ents, capacity |-> cap]  BY <1>1
      <3> HIDE DEF new, s1, names, old, ents, cap
      <3>5. s1 = [names |-> new, entries |-> ents, capacity |-> cap]
        BY <3>3, <3>4
      <3>6. s1.names = new /\ s1.entries = ents /\ s1.capacity = cap  BY <3>5
      <3>7. s1 = [names |-> s1.names, entries |-> s1.entries, capacity |-> s1.capacity]
        BY <3>5, <3>6
      <3> QED  BY <1>1, <3>1, <3>2, <3>3, <3>6, <3>7 DEF TableInv, ents, cap
    <2>2. CASE ~(entered /\ Len(s.names) < MaxStackDepth)
      <3>1. s1 = s /\ names = s.names  BY <2>2 DEF Longer
      <3> QED  BY <3>1
    <2> QED  BY <2>1, <2>2
  <1>3. r = IF c = "return"
            THEN [s2 EXCEPT !.names = IF @ = <<>> THEN @ ELSE Front(@)] ELSE s1
    BY DEF collapsed_record
  <1> HIDE DEF s1, names
  <1>4. TableInv(s2) /\ s2.names = names /\ Counted(s.entries, names, s2.entries)
    BY <1>2, CountStackIs
  <1> HIDE DEF s2
  <1>5. CASE c # "return"
    <2>1. r = s1  BY <1>3, <1>5
    <2> HIDE DEF r
    <2>2. FoldedStep(s, names, c, r)  BY <1>2, <1>5, <2>1 DEF FoldedStep
    <2> QED  BY <2>2 DEF r, names
  <1>6. CASE c = "return"
    <2> DEFINE short == Shorter(names)
               ents == s2.entries
               cap == s2.capacity
    <2>1. r = [s2 EXCEPT !.names = short]  BY <1>3, <1>4, <1>6 DEF Shorter
    <2>2. s2 = [names |-> names, entries |-> ents, capacity |-> cap]  BY <1>4 DEF TableInv
    <2>3. short \in Paths /\ Len(short) <= MaxStackDepth
      <3>1. names \in Seq(Symbols) /\ Len(names) <= MaxStackDepth  BY <1>4 DEF TableInv, Paths
      <3>2. CASE names = <<>>  BY <3>1, <3>2 DEF Shorter, Paths
      <3>3. CASE names # <<>>
        <4>1. /\ Front(names) \in Seq(Symbols) /\ Len(names) \in Nat
              /\ Len(Front(names)) = Len(names) - 1
          BY <3>1, <3>3, FrontIs
        <4> QED  BY <1>1, <3>1, <3>3, <4>1 DEF Shorter, Paths
      <3> QED  BY <3>2, <3>3
    <2> HIDE DEF r, short, ents, cap
    <2>4. r = [names |-> short, entries |-> ents, capacity |-> cap]  BY <2>1, <2>2
    <2>5. r.names = short /\ r.entries = ents /\ r.capacity = cap  BY <2>4
    <2>6. TableInv(r)  BY <1>4, <2>3, <2>4, <2>5 DEF TableInv, ents, cap
    <2>7. FoldedStep(s, names, c, r)  BY <1>4, <1>6, <2>5, <2>6 DEF FoldedStep, short, ents
    <2> QED  BY <2>7 DEF r, names
  <1> QED  BY <1>5, <1>6

LEMMA InitTable == Init => TableInv(col)
  <1> SUFFICES ASSUME Init PROVE TableInv(col)
    OBVIOUS
  <1>1. col = [names |-> <<>>, entries |-> NoEntries, capacity |-> 0]
    BY DEF Init, collapsed_init
  <1>2. col.names = <<>> /\ col.entries = NoEntries /\ col.capacity = 0  BY <1>1
  <1>3. DOMAIN col.entries = {}  BY <1>2, NoEntriesIs
  <1>4. IsFiniteSet({}) /\ Cardinality({}) = 0  BY FS_EmptySet
  <1>5. <<>> \in Paths /\ Len(<<>>) = 0  BY DEF Paths
  <1>6. MaxStackDepth \in Nat /\ MaxStacks \in Nat  BY DecodeAssumption
  <1> QED  BY <1>1, <1>2, <1>3, <1>4, <1>5, <1>6 DEF TableInv

LEMMA TableNext == TableInv(col) /\ [Next]_vars => TableInv(col')
  <1> SUFFICES ASSUME TableInv(col), [Next]_vars PROVE TableInv(col')
    OBVIOUS
  <1>1. CASE \E insn \in Insns : Execute(insn) /\ Record(insn) /\ Observe(insn)
    <2>1. PICK insn \in Insns : Execute(insn) /\ Record(insn) /\ Observe(insn)  BY <1>1
    <2> DEFINE f == IF Here \in Symbols THEN Here ELSE "none"
               en == Entered(f, Start, prevClass)
               r == collapsed_record(col, f, en, insn.class)
    <2>2. col' = IF fmt = "collapsed" THEN r ELSE col  BY <2>1 DEF Record
    <2>3. en \in BOOLEAN /\ (en => f \in Symbols)  BY DEF Entered
    <2> HIDE DEF f, en
    <2>4. FoldedStep(col, Longer(col.names, f, en), insn.class, r)
      BY <2>3, CollapsedRecordIs
    <2> HIDE DEF r
    <2>5. TableInv(r)  BY <2>4 DEF FoldedStep
    <2> QED  BY <2>2, <2>5
  <1>2. CASE UNCHANGED recorders
    <2>1. col' = col  BY <1>2 DEF recorders
    <2> QED  BY <2>1
  <1> QED  BY <1>1, <1>2, Steps DEF recorders
-----------------------------------------------------------------------------
(* The thread's own stack above the lowest depth.                          *)

LEMMA SameSequence ==
    ASSUME NEW S, NEW a \in Seq(S), NEW b \in Seq(S), Len(a) = Len(b),
           \A i \in 1..Len(a) : a[i] = b[i]
    PROVE  a = b
  OBVIOUS

CalledIn(fr, l) == [i \in 1..(Len(fr) - l) |-> fr[l + i].called]

LEMMA CalledInIs ==
    ASSUME NEW fr \in Seq(FrameSet), NEW l \in 1..Len(fr), NEW c, c = CalledIn(fr, l)
    PROVE  /\ c \in Seq(Code) /\ Len(c) = Len(fr) - l
           /\ \A i \in 1..(Len(fr) - l) : c[i] = fr[l + i].called
           /\ c # <<>> <=> Len(fr) > l
  <1> DEFINE m == Len(fr) - l
  <1>1. Len(fr) \in Nat /\ l \in Nat /\ 0 < l /\ l <= Len(fr)
    <2>1. Len(fr) \in Nat  OBVIOUS
    <2> QED  BY <2>1
  <1>2. m \in Nat  BY <1>1
  <1>3. c = [i \in 1..m |-> fr[l + i].called]  BY DEF CalledIn
  <1>4. ASSUME NEW i \in 1..m PROVE fr[l + i].called \in Code
    <2>1. l + i \in 1..Len(fr)  BY <1>1
    <2>2. fr[l + i] \in FrameSet  BY <2>1
    <2> QED  BY <2>2 DEF FrameSet
  <1> HIDE DEF m
  <1>5. c \in Seq(Code) /\ Len(c) = m /\ \A i \in 1..m : c[i] = fr[l + i].called
    BY <1>2, <1>3, <1>4
  <1>6. c # <<>> <=> m # 0  BY <1>2, <1>5, EmptySeq
  <1> QED  BY <1>1, <1>5, <1>6 DEF m

LEMMA CalledIs ==
    ASSUME ThreadInv
    PROVE  /\ Called \in Seq(Code) /\ Len(Called) = Len(frames) - low
           /\ \A i \in 1..(Len(frames) - low) : Called[i] = frames[low + i].called
           /\ Called # <<>> <=> Len(frames) > low
  <1>1. frames \in Seq(FrameSet) /\ low \in 1..Len(frames)  BY DEF ThreadInv
  <1>2. Called = CalledIn(frames, low)  BY DEF Called, CalledIn
  <1> QED  BY <1>1, <1>2, CalledInIs

LEMMA CompletedIs ==
    ASSUME ThreadInv
    PROVE  /\ Pending => /\ Called # <<>> /\ Completed = Front(Called) /\ Completed \in Seq(Code)
                         /\ Called = Append(Completed, Last(frames).called)
                         /\ Len(Called) = Len(Completed) + 1
           /\ ~Pending => Completed = Called
  <1>1. CASE Pending
    <2>1. Called \in Seq(Code) /\ Called # <<>>  BY <1>1, CalledIs DEF Pending
    <2>2. Completed = Front(Called)  BY <1>1 DEF Completed
    <2>3. Last(Called) = Last(frames).called
      <3>1. /\ Len(frames) \in Nat /\ low \in Nat /\ low <= Len(frames)
            /\ Last(frames) = frames[Len(frames)]
        BY StackNonempty
      <3>2. Len(frames) > low  BY <1>1 DEF Pending
      <3> DEFINE m == Len(frames) - low
      <3>3. m \in 1..m /\ low + m = Len(frames)  BY <3>1, <3>2
      <3>4. Len(Called) = m /\ \A i \in 1..m : Called[i] = frames[low + i].called  BY CalledIs
      <3> HIDE DEF m
      <3>5. Called[m] = frames[Len(frames)].called  BY <3>3, <3>4
      <3> QED  BY <3>1, <3>4, <3>5 DEF Last
    <2>4. Called = Append(Front(Called), Last(Called))  BY <2>1, AppendOfFront
    <2>5. Front(Called) \in Seq(Code) /\ Len(Called) \in Nat /\ Len(Front(Called)) = Len(Called) - 1
      BY <2>1, FrontIs
    <2> QED  BY <1>1, <2>1, <2>2, <2>3, <2>4, <2>5
  <1>2. CASE ~Pending  BY <1>2 DEF Completed
  <1> QED  BY <1>1, <1>2

(* The frames whose first instruction is decoded, after an instruction.    *)
LEMMA CompletedNext ==
    ASSUME ThreadInv, ThreadInv', NEW insn \in Insns, Execute(insn),
           low' = Min({low, Len(frames')})
    PROVE  /\ Completed' = IF insn.class = "return" THEN Shorter(Called) ELSE Called
           /\ insn.class # "return" => Len(Called) <= Len(Called')
  <1> DEFINE n == Len(frames)
             n1 == Len(frames')
  <1>1. /\ n \in Nat /\ low \in Nat /\ 0 < low /\ low <= n  BY StackNonempty
  <1>2. n1 \in 1..MaxFrames /\ n1 \in Nat  BY ExecuteIs, DecodeAssumption
  <1>3. low' = IF low <= n1 THEN low ELSE n1  BY <1>2, LowIs
  <1>4. /\ Called \in Seq(Code) /\ Len(Called) = n - low
        /\ \A i \in 1..(n - low) : Called[i] = frames[low + i].called
        /\ Called # <<>> <=> n > low
    BY CalledIs
  <1>5. /\ Called' \in Seq(Code) /\ Len(Called') = n1 - low'
        /\ \A i \in 1..(n1 - low') : Called'[i] = frames'[low' + i].called
        /\ Called' # <<>> <=> n1 > low'
    <2>1. frames' \in Seq(FrameSet) /\ low' \in 1..Len(frames')  BY DEF ThreadInv
    <2>2. Called' = CalledIn(frames', low')  BY DEF Called, CalledIn
    <2> QED  BY <2>1, <2>2, CalledInIs
  <1>6. CASE /\ Stays(frames, frames') /\ insn.class \in {"other", "far_call", "jump"}
             /\ arrival' \in {"body", "jump"}
    <2>1. n1 = n /\ \A i \in 1..n : frames'[i].called = frames[i].called  BY <1>6 DEF Stays
    <2>2. low' = low  BY <1>1, <1>3, <2>1
    <2>3. Called' = Called
      <3> DEFINE m == n - low
      <3>1. m \in Nat /\ Len(Called) = m /\ Len(Called') = m  BY <1>1, <1>4, <1>5, <2>1, <2>2
      <3>2. \A i \in 1..m : low + i \in 1..n  BY <1>1
      <3>3. \A i \in 1..m : Called'[i] = Called[i]  BY <1>4, <1>5, <2>1, <2>2, <3>2
      <3> HIDE DEF m
      <3> QED  BY <1>4, <1>5, <3>1, <3>3, SameSequence
    <2>4. Completed' = Called'  BY <1>6 DEF Completed, Pending
    <2>5. Len(Called) \in Nat  BY <1>4
    <2> QED  BY <1>6, <2>3, <2>4, <2>5
  <1>7. CASE /\ Enters(frames, frames') /\ insn.class \in {"call", "far_call"}
             /\ arrival' = "call"
    <2>1. n1 = n + 1 /\ \A i \in 1..n : frames'[i].called = frames[i].called  BY <1>7 DEF Enters
    <2>2. low' = low  BY <1>1, <1>3, <2>1
    <2>3. Pending'  BY <1>1, <1>7, <2>1, <2>2 DEF Pending
    <2>4. Completed' = Front(Called')  BY <2>3 DEF Completed
    <2>5. Called' # <<>>  BY <1>1, <1>5, <2>1, <2>2
    <2> DEFINE m == n - low
               c1 == Front(Called')
    <2>6. m \in Nat /\ Len(Called) = m /\ Len(Called') = m + 1 /\ n1 - low' = m + 1
      BY <1>1, <1>4, <1>5, <2>1, <2>2
    <2>7. \A i \in 1..m : low + i \in 1..n /\ i \in 1..(m + 1)  BY <1>1
    <2>8. ASSUME NEW i \in 1..m PROVE Called'[i] = Called[i]
      <3>1. low + i \in 1..n /\ i \in 1..(n1 - low')  BY <2>6, <2>7
      <3>2. Called'[i] = frames'[low + i].called  BY <1>5, <2>2, <3>1
      <3>3. Called[i] = frames[low + i].called  BY <1>4
      <3>4. frames'[low + i].called = frames[low + i].called  BY <2>1, <3>1
      <3> QED  BY <3>2, <3>3, <3>4
    <2>9. /\ c1 \in Seq(Code) /\ Len(c1) = Len(Called') - 1
          /\ \A i \in 1..(Len(Called') - 1) : c1[i] = Called'[i]
      BY <1>5, <2>5, FrontIs
    <2>10. Len(Called') - 1 = m  BY <2>6
    <2> HIDE DEF m, c1
    <2>11. c1 = Called  BY <1>4, <2>6, <2>8, <2>9, <2>10, SameSequence
    <2> QED  BY <1>7, <2>4, <2>6, <2>11 DEF c1
  <1>8. CASE Leaves(frames, frames') /\ insn.class = "return" /\ arrival' = "body"
    <2>1. n1 = n - 1 /\ n > 1 /\ \A i \in 1..n1 : frames'[i].called = frames[i].called
      BY <1>8 DEF Leaves
    <2>2. Completed' = Called'  BY <1>8 DEF Completed, Pending
    <2>3. CASE n = low
      <3>1. Called = <<>>  BY <1>4, <2>3
      <3>2. low' = n1  BY <1>1, <1>3, <2>1, <2>3
      <3>3. Called' = <<>>  BY <1>2, <1>5, <3>2
      <3> QED  BY <1>8, <2>2, <3>1, <3>3 DEF Shorter
    <2>4. CASE n # low
      <3>1. low' = low /\ n > low  BY <1>1, <1>3, <2>1, <2>4
      <3>2. Called # <<>>  BY <1>4, <3>1
      <3> DEFINE m == n1 - low
                 c1 == Front(Called)
      <3>3. m \in Nat /\ Len(Called) - 1 = m /\ Len(Called') = m
        BY <1>1, <1>4, <1>5, <2>1, <3>1
      <3>4. \A i \in 1..m : low + i \in 1..n1 /\ i \in 1..(n - low)  BY <1>1, <2>1
      <3>5. \A i \in 1..m : Called'[i] = Called[i]  BY <1>4, <1>5, <2>1, <3>1, <3>4
      <3>6. /\ c1 \in Seq(Code) /\ Len(c1) = Len(Called) - 1
            /\ \A i \in 1..(Len(Called) - 1) : c1[i] = Called[i]
        BY <1>4, <3>2, FrontIs
      <3> HIDE DEF m, c1
      <3>7. c1 = Called'  BY <1>5, <3>3, <3>5, <3>6, SameSequence
      <3> QED  BY <1>8, <2>2, <3>2, <3>7 DEF Shorter, c1
    <2> QED  BY <2>3, <2>4
  <1> QED  BY <1>6, <1>7, <1>8, ExecuteIs
-----------------------------------------------------------------------------
(* The shadow stack.                                                       *)

(* While nothing is lost, an instruction enters a function exactly if it   *)
(* is the first of a frame that the decoder has not completed.             *)
LEMMA EnteredIs ==
    ASSUME ThreadInv, ArrivalInv, whole, fmt = "profile" => known, Here \in Symbols
    PROVE  /\ Entered(Here, Start, prevClass) <=> Pending
           /\ Pending => Here = Last(frames).called
  <1>1. arrival \in {"body", "jump", "call"}  BY DEF ThreadInv
  <1>2. Start /\ EntersBy(prevClass) <=> Pending
    <2>1. CASE arrival = "body"  BY <2>1 DEF Start, Pending
    <2>2. CASE arrival = "jump"  BY <2>2 DEF Start, Pending, ArrivalInv
    <2>3. CASE arrival = "call"  BY <2>3 DEF Start, Pending, ArrivalInv
    <2> QED  BY <1>1, <2>1, <2>2, <2>3
  <1>3. Pending => Here = Last(frames).called  BY DEF Pending, Here, ArrivalInv
  <1> QED  BY <1>2, <1>3 DEF Entered

ShadowOf(t) == [i \in DOMAIN t.stack |-> Name(t.stack[i].path)]

LEMMA ShadowOfIs ==
    ASSUME NEW t, TreeInv(t)
    PROVE  /\ ShadowOf(t) \in Seq(Symbols) /\ Len(ShadowOf(t)) = Len(t.stack)
           /\ \A i \in 1..Len(t.stack) : ShadowOf(t)[i] = Name(t.stack[i].path)
           /\ ShadowOf(t) = <<>> <=> t.stack = <<>>
  <1> DEFINE n == Len(t.stack)
  <1>1. n \in Nat /\ DOMAIN t.stack = 1..n /\ t.stack \in Seq(Pointers)  BY TopIs DEF TreeInv
  <1>2. ShadowOf(t) = [i \in 1..n |-> Name(t.stack[i].path)]  BY <1>1 DEF ShadowOf
  <1>3. ASSUME NEW i \in 1..n PROVE Name(t.stack[i].path) \in Symbols
    <2> DEFINE p == t.stack[i].path
    <2>1. p \in DOMAIN t.nodes /\ Len(p) = i /\ i > 0  BY <1>1 DEF TreeInv
    <2>2. p \in Seq(Symbols)  BY <2>1 DEF TreeInv, Paths
    <2> HIDE DEF p
    <2>3. p # <<>>  BY <2>1, <2>2
    <2>4. Last(p) \in Symbols  BY <2>2, <2>3, FrontIs
    <2> QED  BY <2>3, <2>4 DEF Name, p
  <1> HIDE DEF n
  <1>4. /\ ShadowOf(t) \in Seq(Symbols) /\ Len(ShadowOf(t)) = n
        /\ \A i \in 1..n : ShadowOf(t)[i] = Name(t.stack[i].path)
    BY <1>1, <1>2, <1>3
  <1>5. ShadowOf(t) = <<>> <=> n = 0  BY <1>1, <1>4, EmptySeq
  <1>6. t.stack = <<>> <=> n = 0  BY <1>1, EmptySeq DEF n
  <1> QED  BY <1>4, <1>5, <1>6 DEF n

LEMMA ShadowPushed ==
    ASSUME NEW t, TreeInv(t), NEW child, NEW tsc, NEW r, Pushed(t, child, tsc, r)
    PROVE  ShadowOf(r) = Append(ShadowOf(t), Last(child)) /\ Last(child) \in Symbols
  <1> DEFINE n == Len(t.stack)
             a == ShadowOf(r)
             b == ShadowOf(t)
             c == Append(b, Last(child))
  <1>1. /\ TreeInv(r) /\ Len(r.stack) = n + 1 /\ r.stack[n + 1].path = child
        /\ \A i \in 1..n : r.stack[i] = t.stack[i]
    BY DEF Pushed
  <1>2. n \in Nat  BY TopIs
  <1>3. /\ a \in Seq(Symbols) /\ Len(a) = n + 1
        /\ \A i \in 1..(n + 1) : a[i] = Name(r.stack[i].path)
    BY <1>1, ShadowOfIs
  <1>4. /\ b \in Seq(Symbols) /\ Len(b) = n
        /\ \A i \in 1..n : b[i] = Name(t.stack[i].path)
    BY ShadowOfIs
  <1>5. n + 1 \in 1..(n + 1) /\ \A i \in 1..n : i \in 1..(n + 1)  BY <1>2
  <1>6. child # <<>>
    <2>1. n + 1 \in DOMAIN r.stack  BY <1>1, <1>5, TopIs
    <2>2. Len(child) = n + 1 /\ child \in Seq(Symbols)  BY <1>1, <2>1 DEF TreeInv, Pushed, Paths
    <2> QED  BY <1>2, <2>2
  <1>7. a[n + 1] = Last(child)  BY <1>1, <1>3, <1>5, <1>6 DEF Name
  <1>8. Last(child) \in Symbols  BY <1>6, FrontIs DEF Pushed, Paths
  <1> HIDE DEF n, a, b
  <1>9. c \in Seq(Symbols) /\ Len(c) = n + 1 /\ c[n + 1] = Last(child)
        /\ \A i \in 1..n : c[i] = b[i]
    BY <1>2, <1>4, <1>8
  <1>10. \A i \in 1..(n + 1) : a[i] = c[i]
    <2> TAKE i \in 1..(n + 1)
    <2>1. CASE i = n + 1  BY <1>7, <1>9, <2>1
    <2>2. CASE i # n + 1
      <3>1. i \in 1..n  BY <1>2, <2>2
      <3> QED  BY <1>1, <1>3, <1>4, <1>9, <3>1
    <2> QED  BY <2>1, <2>2
  <1> HIDE DEF c
  <1>11. a = c  BY <1>3, <1>9, <1>10, SameSequence
  <1> QED  BY <1>8, <1>11 DEF a, b, c

LEMMA ShadowPopped ==
    ASSUME NEW t, TreeInv(t), t.stack # <<>>, NEW tsc, NEW r, Popped(t, tsc, r)
    PROVE  ShadowOf(r) = Front(ShadowOf(t))
  <1> DEFINE n == Len(t.stack)
             a == ShadowOf(r)
             b == ShadowOf(t)
             c == Front(b)
  <1>1. /\ TreeInv(r) /\ Len(r.stack) = n - 1
        /\ \A i \in 1..(n - 1) : r.stack[i] = t.stack[i]
    BY DEF Popped
  <1>2. n \in Nat /\ n > 0  BY TopIs
  <1>3. /\ a \in Seq(Symbols) /\ Len(a) = n - 1
        /\ \A i \in 1..(n - 1) : a[i] = Name(r.stack[i].path)
    BY <1>1, ShadowOfIs
  <1>4. /\ b \in Seq(Symbols) /\ Len(b) = n /\ b # <<>>
        /\ \A i \in 1..n : b[i] = Name(t.stack[i].path)
    BY ShadowOfIs
  <1> HIDE DEF n, a, b
  <1>5. c \in Seq(Symbols) /\ Len(c) = n - 1 /\ \A i \in 1..(n - 1) : c[i] = b[i]
    BY <1>4, FrontIs
  <1>6. \A i \in 1..(n - 1) : i \in 1..n  BY <1>2
  <1>7. \A i \in 1..(n - 1) : a[i] = c[i]  BY <1>1, <1>3, <1>4, <1>5, <1>6
  <1> HIDE DEF c
  <1>8. a = c  BY <1>3, <1>5, <1>7, SameSequence
  <1> QED  BY <1>8 DEF a, b, c

LEMMA ShadowRecorded ==
    ASSUME NEW t, TreeInv(t), NEW f, NEW entered \in BOOLEAN, entered => f \in Symbols,
           NEW c, NEW tsc \in Nat,
           NEW s1, s1 = IF entered THEN Append(ShadowOf(t), f) ELSE ShadowOf(t)
    PROVE  ShadowOf(calltree_record(t, f, entered, c, tsc)) = IF c = "return" THEN Shorter(s1) ELSE s1
  <1> DEFINE t1 == IF entered THEN calltree_push(t, f, tsc) ELSE t
  <1>1. TreeInv(t1) /\ ShadowOf(t1) = s1
    <2>1. CASE entered
      <3> DEFINE child == Append(Top(t), f)
      <3>1. Pushed(t, child, tsc, calltree_push(t, f, tsc))  BY <2>1, PushIs
      <3>2. Last(child) = f
        <4>1. Top(t) \in Seq(Symbols)  BY TopIs DEF Paths
        <4> QED  BY <2>1, <4>1, FrontOfAppend
      <3> HIDE DEF child
      <3>3. t1 = calltree_push(t, f, tsc)  BY <2>1
      <3> HIDE DEF t1
      <3>4. Pushed(t, child, tsc, t1)  BY <3>1, <3>3
      <3>5. ShadowOf(t1) = Append(ShadowOf(t), f)  BY <3>2, <3>4, ShadowPushed
      <3> QED  BY <2>1, <3>4, <3>5 DEF Pushed
    <2>2. CASE ~entered  BY <2>2
    <2> QED  BY <2>1, <2>2
  <1>2. calltree_record(t, f, entered, c, tsc) = IF c = "return" THEN calltree_pop(t1, tsc) ELSE t1
    BY DEF calltree_record
  <1> HIDE DEF t1
  <1>3. ShadowOf(calltree_pop(t1, tsc)) = Shorter(s1)
    <2>1. CASE t1.stack = <<>>
      <3>1. calltree_pop(t1, tsc) = t1  BY <2>1 DEF calltree_pop
      <3>2. s1 = <<>>  BY <1>1, <2>1, ShadowOfIs
      <3> QED  BY <1>1, <3>1, <3>2 DEF Shorter
    <2>2. CASE t1.stack # <<>>
      <3>1. Popped(t1, tsc, calltree_pop(t1, tsc))  BY <1>1, <2>2, PopIs
      <3>2. s1 # <<>>  BY <1>1, <2>2, ShadowOfIs
      <3>3. ShadowOf(calltree_pop(t1, tsc)) = Front(ShadowOf(t1))
        BY <1>1, <2>2, <3>1, ShadowPopped
      <3> QED  BY <1>1, <3>2, <3>3 DEF Shorter
    <2> QED  BY <2>1, <2>2
  <1> QED  BY <1>1, <1>2, <1>3

(* One more sample of a stack.                                             *)
Tallied(old, key, new) ==
    /\ DOMAIN new = DOMAIN old \cup {key}
    /\ new[key] = IF key \in DOMAIN old THEN old[key] + 1 ELSE 1
    /\ \A d \in DOMAIN old : d # key => new[d] = old[d]

LEMMA SamplesNext ==
    ASSUME ThreadInv, NEW insn, Observe(insn)
    PROVE  IF /\ whole /\ known' /\ fmt = "collapsed"
              /\ insn.class = "return" /\ Called # <<>>
           THEN Tallied(samples, Called, samples')
           ELSE samples' = samples
  <1> DEFINE out == insn.class = "return" /\ Len(frames) > low
             on == whole /\ known' /\ out /\ fmt = "collapsed"
  <1>1. samples' = IF ~on THEN samples
                   ELSE IF Called \in DOMAIN samples
                   THEN [samples EXCEPT ![Called] = @ + 1]
                   ELSE Put(samples, Called, 1)
    BY DEF Observe
  <1>2. Called # <<>> <=> Len(frames) > low  BY CalledIs
  <1>3. CASE ~on  BY <1>1, <1>2, <1>3
  <1>4. CASE on /\ Called \in DOMAIN samples
    <2>1. samples' = [samples EXCEPT ![Called] = @ + 1]  BY <1>1, <1>4
    <2>2. Tallied(samples, Called, samples')  BY <1>4, <2>1 DEF Tallied
    <2> QED  BY <1>2, <1>4, <2>2
  <1>5. CASE on /\ Called \notin DOMAIN samples
    <2>1. samples' = Put(samples, Called, 1)  BY <1>1, <1>5
    <2>2. Tallied(samples, Called, samples')  BY <1>5, <2>1 DEF Tallied, Put
    <2> QED  BY <1>2, <1>5, <2>2
  <1> QED  BY <1>3, <1>4, <1>5

(* The stacks of a tally that are written as one line, and their number.   *)
Merged(tally, line) == {s \in DOMAIN tally : collapsed_build_stack(s) = line}
Lined(tally, line)  == SumFunction([s \in Merged(tally, line) |-> tally[s]])

(* One more sample of a stack is one more of its line, and of no other.    *)
LEMMA LineTallied ==
    ASSUME NEW old, IsFiniteSet(DOMAIN old), \A s \in DOMAIN old : old[s] \in Nat,
           NEW c, NEW new, Tallied(old, c, new), NEW line
    PROVE  IF line = collapsed_build_stack(c)
           THEN /\ Merged(new, line) = Merged(old, line) \cup {c}
                /\ Lined(new, line) = Lined(old, line) + 1
                /\ Merged(old, line) = {} => Lined(new, line) = 1
           ELSE Merged(new, line) = Merged(old, line) /\ Lined(new, line) = Lined(old, line)
  <1> DEFINE S == Merged(old, line)
             f == [s \in S |-> old[s]]
             g == [s \in Merged(new, line) |-> new[s]]
  <1>1. S \subseteq DOMAIN old /\ IsFiniteSet(S)
    <2>1. S \subseteq DOMAIN old  BY DEF Merged
    <2> QED  BY <2>1, FS_Subset
  <1>2. f \in [S -> Nat] /\ \A s \in S : f[s] = old[s]  BY <1>1
  <1>3. Lined(old, line) = SumFunction(f) /\ Lined(new, line) = SumFunction(g)  BY DEF Lined
  <1>4. CASE line = collapsed_build_stack(c)
    <2>1. Merged(new, line) = S \cup {c}  BY <1>4 DEF Merged, Tallied
    <2>2. c \in S <=> c \in DOMAIN old  BY <1>4 DEF Merged
    <2>3. /\ DOMAIN g = S \cup {c} /\ g = [s \in S \cup {c} |-> new[s]]
          /\ \A x \in S : x # c => g[x] = f[x]
          /\ g[c] = (IF c \in S THEN f[c] ELSE 0) + 1
      BY <1>1, <1>2, <2>1, <2>2 DEF Tallied
    <2>4. \A x \in S \cup {c} : g[x] \in Nat  BY <1>2, <2>3
    <2>5. g \in [S \cup {c} -> Nat]
      <3> HIDE DEF S
      <3>1. g = [s \in S \cup {c} |-> g[s]]  BY <2>3
      <3> HIDE DEF g
      <3> QED  BY <2>4, <3>1
    <2> HIDE DEF f, g, S
    <2>6. SumFunction(g) = SumFunction(f) + 1  BY <1>1, <1>2, <2>3, <2>5, SumGrows
    <2>7. S = {} => SumFunction(f) = 0  BY <1>2, SumNothing
    <2> QED  BY <1>3, <1>4, <2>1, <2>6, <2>7 DEF S
  <1>5. CASE line # collapsed_build_stack(c)
    <2>1. Merged(new, line) = S  BY <1>5 DEF Merged, Tallied
    <2>2. \A s \in S : new[s] = old[s]  BY <1>5 DEF Merged, Tallied
    <2>3. g = f  BY <2>1, <2>2
    <2> QED  BY <1>3, <1>5, <2>1, <2>3
  <1> QED  BY <1>4, <1>5

(* The table has the lines of a tally, each as often as it was returned    *)
(* from, or is full.                                                       *)
Lists(table, tally) ==
    /\ \A line \in DOMAIN table :
          Merged(tally, line) # {} /\ table[line] = Lined(tally, line)
    /\ {collapsed_build_stack(s) : s \in DOMAIN tally} = DOMAIN table
       \/ Cardinality(DOMAIN table) = MaxStacks

LEMMA StacksCountedIs ==
    /\ StacksCounted <=> (Folded /\ whole /\ known /\ Fits => Lists(col.entries, samples))
    /\ StacksCounted' <=> (Folded' /\ whole' /\ known' /\ Fits' => Lists(col'.entries, samples'))
  BY DEF StacksCounted, SameLine, Lists, Merged, Lined

LEMMA ListsNext ==
    ASSUME NEW table, NEW table1, NEW tally, NEW tally1, NEW c,
           IsFiniteSet(DOMAIN tally), \A s \in DOMAIN tally : tally[s] \in Nat,
           Lists(table, tally), Tallied(tally, c, tally1),
           Tabled(table, collapsed_build_stack(c), table1)
    PROVE  Lists(table1, tally1)
  <1> DEFINE key == collapsed_build_stack(c)
             lines(u) == {collapsed_build_stack(s) : s \in DOMAIN u}
  <1>1. /\ Merged(tally1, key) # {} /\ Lined(tally1, key) = Lined(tally, key) + 1
        /\ Merged(tally, key) = {} => Lined(tally1, key) = 1
    BY LineTallied
  <1>2. \A line : line # key =>
          /\ Merged(tally1, line) = Merged(tally, line)
          /\ Lined(tally1, line) = Lined(tally, line)
    BY LineTallied
  <1>3. lines(tally1) = lines(tally) \cup {key}  BY DEF Tallied
  <1>4. /\ \A line \in DOMAIN table :
              Merged(tally, line) # {} /\ table[line] = Lined(tally, line)
        /\ lines(tally) = DOMAIN table \/ Cardinality(DOMAIN table) = MaxStacks
    BY DEF Lists
  <1>5. SUFFICES /\ \A line \in DOMAIN table1 :
                      Merged(tally1, line) # {} /\ table1[line] = Lined(tally1, line)
                 /\ lines(tally1) = DOMAIN table1 \/ Cardinality(DOMAIN table1) = MaxStacks
    BY DEF Lists
  <1>6. key \notin lines(tally) => Merged(tally, key) = {}  BY DEF Merged
  <1> HIDE DEF key, lines
  <1>7. CASE /\ key \in DOMAIN table
             /\ DOMAIN table1 = DOMAIN table /\ table1[key] = table[key] + 1
             /\ \A d \in DOMAIN table : d # key => table1[d] = table[d]
    <2>1. \A line \in DOMAIN table1 :
            Merged(tally1, line) # {} /\ table1[line] = Lined(tally1, line)
      BY <1>1, <1>2, <1>4, <1>7
    <2> QED  BY <1>3, <1>4, <1>7, <2>1
  <1>8. CASE /\ key \notin DOMAIN table
             /\ Cardinality(DOMAIN table) = MaxStacks /\ table1 = table
    BY <1>2, <1>4, <1>8
  <1>9. CASE /\ key \notin DOMAIN table /\ Cardinality(DOMAIN table) # MaxStacks
             /\ DOMAIN table1 = DOMAIN table \cup {key} /\ table1[key] = 1
             /\ \A d \in DOMAIN table : table1[d] = table[d]
    <2>1. lines(tally) = DOMAIN table  BY <1>4, <1>9
    <2>2. Lined(tally1, key) = 1  BY <1>1, <1>6, <1>9, <2>1
    <2>3. \A line \in DOMAIN table1 :
            Merged(tally1, line) # {} /\ table1[line] = Lined(tally1, line)
      BY <1>1, <1>2, <1>4, <1>9, <2>2
    <2> QED  BY <1>3, <1>9, <2>1, <2>3
  <1> QED  BY <1>7, <1>8, <1>9 DEF Tabled, key

LEMMA InitHistory == Init => HistoryInv
  BY NoEntriesIs, FS_EmptySet DEF Init, HistoryInv

LEMMA HistoryNext == ThreadInv /\ HistoryInv /\ [Next]_vars => HistoryInv'
  <1> SUFFICES ASSUME ThreadInv, HistoryInv, [Next]_vars PROVE HistoryInv'
    OBVIOUS
  <1>1. CASE \E insn \in Insns : Execute(insn) /\ Record(insn) /\ Observe(insn)
    <2>1. PICK insn \in Insns : Observe(insn)  BY <1>1
    <2>2. samples' = samples \/ Tallied(samples, Called, samples')  BY <2>1, SamplesNext
    <2>3. Called \in Seq(Code)  BY CalledIs
    <2>4. CASE samples' = samples  BY <2>4 DEF HistoryInv
    <2>5. CASE Tallied(samples, Called, samples')
      <3>1. DOMAIN samples' \subseteq Seq(Code)  BY <2>3, <2>5 DEF Tallied, HistoryInv
      <3>3. IsFiniteSet(DOMAIN samples')  BY <2>5, FS_AddElement DEF Tallied, HistoryInv
      <3>2. ASSUME NEW d \in DOMAIN samples' PROVE samples'[d] \in Nat
        <4>1. CASE d = Called
          <5>1. samples'[d] = IF Called \in DOMAIN samples THEN samples[Called] + 1 ELSE 1
            BY <2>5, <4>1 DEF Tallied
          <5> QED  BY <5>1 DEF HistoryInv
        <4>2. CASE d # Called  BY <2>5, <4>2 DEF Tallied, HistoryInv
        <4> QED  BY <4>1, <4>2
      <3> QED  BY <3>1, <3>2, <3>3 DEF HistoryInv
    <2> QED  BY <2>2, <2>4, <2>5
  <1>2. CASE UNCHANGED samples  BY <1>2 DEF HistoryInv
  <1> QED  BY <1>1, <1>2, Steps DEF history

(* What holds before an instruction if nothing is lost after it.           *)
LEMMA SeenBefore ==
    ASSUME ThreadInv, ThreadInv', HistoryInv, NEW insn \in Insns, Execute(insn), Observe(insn),
           fmt' = fmt, Treed \/ Folded, whole', known', Fits'
    PROVE  /\ whole /\ known /\ Here \in Symbols /\ Fits
           /\ Folded => Len(Called) <= MaxStackDepth
  <1>1. whole /\ known /\ Here \in Symbols /\ low' = Min({low, Len(frames')})  BY DEF Observe
  <1>2. CASE Treed
    <2>1. ~Folded  BY <1>2 DEF Treed, Folded
    <2> QED  BY <1>1, <1>2, <2>1 DEF Fits
  <1>3. CASE Folded
    <2>1. ~Treed'  BY <1>3 DEF Treed, Folded
    <2>2. \A s \in DOMAIN samples' \cup {Called'} : Len(s) <= MaxStackDepth  BY <2>1 DEF Fits
    <2>3. Called \in Seq(Code) /\ Called' \in Seq(Code) /\ MaxStackDepth \in Nat
      <3>1. frames' \in Seq(FrameSet) /\ low' \in 1..Len(frames')  BY DEF ThreadInv
      <3>2. Called' = CalledIn(frames', low')  BY DEF Called, CalledIn
      <3>3. Called' \in Seq(Code)  BY <3>1, <3>2, CalledInIs
      <3> QED  BY <3>3, CalledIs, DecodeAssumption
    <2>4. DOMAIN samples \subseteq DOMAIN samples'
      <3>1. samples' = samples \/ Tallied(samples, Called, samples')  BY SamplesNext
      <3> QED  BY <3>1 DEF Tallied
    <2>5. Len(Called) <= MaxStackDepth
      <3>1. CASE insn.class # "return"
        <4>1. Len(Called) <= Len(Called')  BY <1>1, <3>1, CompletedNext
        <4>2. Len(Called') <= MaxStackDepth  BY <2>2
        <4>3. Len(Called) \in Nat /\ Len(Called') \in Nat  BY <2>3
        <4> QED  BY <2>3, <4>1, <4>2, <4>3
      <3>2. CASE insn.class = "return" /\ Called # <<>>
        <4>1. Tallied(samples, Called, samples')
          BY <1>1, <1>3, <3>2, SamplesNext DEF Folded
        <4> QED  BY <2>2, <4>1 DEF Tallied
      <3>3. CASE Called = <<>>
        <4>1. Len(<<>>) = 0  OBVIOUS
        <4> QED  BY <2>3, <3>3, <4>1
      <3> QED  BY <3>1, <3>2, <3>3
    <2> QED  BY <1>1, <2>2, <2>4, <2>5 DEF Fits
  <1> QED  BY <1>2, <1>3

(* The shadow stack after the instruction's function is entered.           *)
LEMMA ShadowEntered ==
    ASSUME ThreadInv, ArrivalInv, whole, known, Treed \/ Folded, Here \in Symbols, Fits,
           ShadowIsStack, NEW entered, entered = Entered(Here, Start, prevClass)
    PROVE  (IF entered THEN Append(Shadow, Here) ELSE Shadow) = Called
  <1>1. fmt # "profile"  BY DEF Treed, Folded
  <1>2. Shadow = Completed  BY DEF ShadowIsStack
  <1>3. (entered <=> Pending) /\ (Pending => Here = Last(frames).called)  BY <1>1, EnteredIs
  <1>4. CASE Pending
    <2>1. Called = Append(Completed, Last(frames).called)  BY <1>4, CompletedIs
    <2> QED  BY <1>2, <1>3, <1>4, <2>1
  <1>5. CASE ~Pending
    <2>1. Called = Completed  BY <1>5, CompletedIs
    <2> QED  BY <1>2, <1>3, <1>5, <2>1
  <1> QED  BY <1>4, <1>5

(* The names after it, in the folded format: the limit is not in the way.  *)
LEMMA NamesEntered ==
    ASSUME ThreadInv, ArrivalInv, whole, known, Folded, Here \in Symbols, Fits,
           ShadowIsStack, Len(Called) <= MaxStackDepth,
           NEW entered, entered = Entered(Here, Start, prevClass)
    PROVE  Longer(col.names, Here, entered) = Called
  <1>1. Shadow = col.names /\ Shadow = Completed
    BY DEF Shadow, ShadowIsStack, Treed, Folded
  <1>2. (IF entered THEN Append(Shadow, Here) ELSE Shadow) = Called  BY ShadowEntered
  <1>3. entered => Len(col.names) < MaxStackDepth
    <2> SUFFICES ASSUME entered PROVE Len(col.names) < MaxStackDepth
      OBVIOUS
    <2>1. fmt # "profile"  BY DEF Folded
    <2>2. Pending  BY <2>1, EnteredIs
    <2>3. Len(Called) = Len(Completed) + 1 /\ Completed \in Seq(Code)  BY <2>2, CompletedIs
    <2>4. Len(Completed) \in Nat /\ MaxStackDepth \in Nat  BY <2>3, DecodeAssumption
    <2> QED  BY <1>1, <2>3, <2>4
  <1> QED  BY <1>1, <1>2, <1>3 DEF Longer

LEMMA InitShadow == Init => ShadowIsStack /\ StacksCounted
  <1> SUFFICES ASSUME Init PROVE ShadowIsStack /\ StacksCounted
    OBVIOUS
  <1>1. ThreadInv /\ Len(frames) = 2 /\ low = 2
    <2>1. ThreadInv  BY InitThread
    <2>2. PICK f \in Symbols : frames = <<Frame(f), Frame(f)>>  BY DEF Init
    <2>3. Len(frames) = 2  BY <2>2
    <2> QED  BY <2>1, <2>3 DEF Init
  <1>2. Called = <<>>  BY <1>1, CalledIs
  <1>3. ~Pending  BY <1>1 DEF Pending
  <1>4. Completed = <<>>  BY <1>2, <1>3 DEF Completed
  <1>5. ct.stack = <<>> /\ TreeInv(ct)  BY InitTree DEF Init, calltree_init
  <1>6. ShadowOf(ct) = <<>>  BY <1>5, ShadowOfIs
  <1>7. col.names = <<>> /\ col.entries = NoEntries /\ samples = NoEntries
    BY DEF Init, collapsed_init
  <1>8. Shadow = <<>>  BY <1>6, <1>7 DEF Shadow, ShadowOf
  <1>9. Lists(col.entries, samples)  BY <1>7, NoEntriesIs DEF Lists
  <1> QED  BY <1>4, <1>8, <1>9, StacksCountedIs DEF ShadowIsStack

LEMMA ShadowNext ==
    ASSUME ThreadInv, ThreadInv', ArrivalInv, TreeInv(ct), TableInv(col), HistoryInv,
           ShadowIsStack, StacksCounted, [Next]_vars
    PROVE  ShadowIsStack' /\ StacksCounted'
  <1>1. CASE /\ \E insn \in Insns : Execute(insn) /\ Record(insn) /\ Observe(insn)
             /\ UNCHANGED <<fmt, timed, decoder, gaps>>
    <2>1. PICK insn \in Insns : Execute(insn) /\ Record(insn) /\ Observe(insn)  BY <1>1
    <2>2. fmt' = fmt /\ (Treed' <=> Treed) /\ (Folded' <=> Folded)  BY <1>1 DEF Treed, Folded
    <2> SUFFICES ASSUME whole', known', Fits', Treed \/ Folded
                 PROVE  ShadowIsStack' /\ StacksCounted'
      BY <2>2 DEF ShadowIsStack, StacksCounted
    <2>3. /\ whole /\ known /\ Here \in Symbols /\ Fits
          /\ Folded => Len(Called) <= MaxStackDepth
      BY <2>1, <2>2, SeenBefore
    <2> DEFINE en == Entered(Here, Start, prevClass)
               c == insn.class
    <2>4. en \in BOOLEAN  BY DEF Entered
    <2>5. low' = Min({low, Len(frames')})  BY <2>1 DEF Observe
    <2>6. Completed' = IF c = "return" THEN Shorter(Called) ELSE Called
      BY <2>1, <2>5, CompletedNext
    <2>7. CASE Treed
      <3>1. ct' = calltree_record(ct, Here, en, c, Tsc)  BY <2>1, <2>3, <2>7 DEF Record, Treed
      <3>2. Tsc \in Nat  BY DecodeAssumption DEF Tsc, ThreadInv
      <3>3. Shadow = ShadowOf(ct) /\ Shadow' = ShadowOf(ct')
        BY <2>2, <2>7 DEF Shadow, ShadowOf
      <3> HIDE DEF en, c
      <3>4. (IF en THEN Append(ShadowOf(ct), Here) ELSE ShadowOf(ct)) = Called
        BY <2>3, <3>3, ShadowEntered DEF en
      <3>5. ShadowOf(ct') = IF c = "return" THEN Shorter(Called) ELSE Called
        BY <2>3, <2>4, <3>1, <3>2, <3>4, ShadowRecorded
      <3>6. ~Folded'  BY <2>2, <2>7 DEF Treed, Folded
      <3> QED  BY <2>6, <3>3, <3>5, <3>6 DEF ShadowIsStack, StacksCounted
    <2>8. CASE Folded
      <3> DEFINE r == collapsed_record(col, Here, en, c)
      <3>1. col' = r  BY <2>1, <2>3, <2>8 DEF Record, Folded
      <3>2. Shadow' = col'.names  BY <2>2, <2>8 DEF Shadow, Treed, Folded
      <3> HIDE DEF en
      <3>3. Longer(col.names, Here, en) = Called  BY <2>3, <2>8, NamesEntered DEF en
      <3>4. FoldedStep(col, Called, c, r)
        <4>1. FoldedStep(col, Longer(col.names, Here, en), c, r)
          BY <2>3, <2>4, CollapsedRecordIs
        <4> QED  BY <3>3, <4>1
      <3> HIDE DEF r, c
      <3>5. FoldedStep(col, Called, c, col')  BY <3>1, <3>4
      <3>6. col'.names = IF c = "return" THEN Shorter(Called) ELSE Called
        BY <3>5 DEF FoldedStep
      <3>7. ShadowIsStack'  BY <2>6, <3>2, <3>6 DEF ShadowIsStack
      <3> DEFINE old == col.entries
                 new == col'.entries
      <3>8. Lists(old, samples)  BY <2>3, <2>8, StacksCountedIs
      <3> HIDE DEF old, new
      <3>9. Lists(new, samples')
        <4>1. CASE c # "return" \/ Called = <<>>
          <5>1. samples' = samples  BY <2>1, <4>1, SamplesNext DEF c
          <5>2. new = old  BY <3>5, <4>1 DEF FoldedStep, Counted, old, new
          <5> QED  BY <3>8, <5>1, <5>2
        <4>2. CASE c = "return" /\ Called # <<>>
          <5>1. Tallied(samples, Called, samples')
            BY <2>1, <2>3, <2>8, <4>2, SamplesNext DEF c, Folded
          <5>2. Tabled(old, collapsed_build_stack(Called), new)
            BY <3>5, <4>2 DEF FoldedStep, Counted, old, new
          <5>3. IsFiniteSet(DOMAIN samples) /\ \A s \in DOMAIN samples : samples[s] \in Nat
            BY DEF HistoryInv
          <5> QED  BY <3>8, <5>1, <5>2, <5>3, ListsNext
        <4> QED  BY <4>1, <4>2
      <3>10. StacksCounted'  BY <3>9, StacksCountedIs DEF new
      <3> QED  BY <3>7, <3>10
    <2> QED  BY <2>7, <2>8
  <1>2. CASE whole' = FALSE
    BY <1>2 DEF ShadowIsStack, StacksCounted
  <1>3. CASE UNCHANGED <<fmt, timed, thread, recorders, history>>
    <2>1. UNCHANGED <<fmt, frames, arrival, ct, col, low, whole, known, samples>>
      BY <1>3 DEF thread, recorders, history
    <2>2. UNCHANGED <<Called, Completed, Shadow>>
      BY <2>1 DEF Called, Completed, Pending, Shadow, Treed
    <2>3. UNCHANGED <<Treed, Folded, Fits>>  BY <2>1, <2>2 DEF Treed, Folded, Fits
    <2>4. StacksCounted'
      <3>1. col'.entries = col.entries /\ samples' = samples  BY <2>1
      <3> QED  BY <2>1, <2>3, <3>1, StacksCountedIs
    <2> QED  BY <2>1, <2>2, <2>3, <2>4 DEF ShadowIsStack
  <1> QED  BY <1>1, <1>2, <1>3, Steps

-----------------------------------------------------------------------------
LEMMA InvHolds == Spec => []Inv
  <1>1. Init => Inv
    BY InitThread, InitProfile, InitTree, InitTable, InitHistory, InitShadow DEF Inv
  <1>2. Inv /\ [Next]_vars => Inv'
    <2> SUFFICES ASSUME Inv, [Next]_vars PROVE Inv'
      OBVIOUS
    <2>1. ThreadInv' /\ ArrivalInv' /\ ProfileInv' /\ HistoryInv'
      BY ThreadNext, ArrivalNext, ProfileNext, HistoryNext DEF Inv
    <2>2. TreeInv(ct') /\ TableInv(col')  BY TreeNext, TableNext DEF Inv
    <2>3. ShadowIsStack' /\ StacksCounted'  BY <2>1, ShadowNext DEF Inv
    <2> QED  BY <2>1, <2>2, <2>3 DEF Inv
  <1> QED  BY <1>1, <1>2, PTL DEF Spec

(* Types, and the limits of the recorders in every state: the folded stack *)
(* never passes MAX_STACK_DEPTH, the table of stacks neither its capacity  *)
(* nor MAX_COLLAPSED_STACKS, and no array of children its capacity.        *)
THEOREM TypesHold == Spec => []TypeOK
  <1>1. Inv => TypeOK
    <2> SUFFICES ASSUME Inv PROVE TypeOK
      OBVIOUS
    <2>1. frames # <<>>  BY StackNonempty DEF Inv
    <2>2. fmt \in AllFormats  BY DecodeAssumption DEF Inv, ThreadInv
    <2>3. {timed, whole, known} \subseteq BOOLEAN  BY DEF Inv, ThreadInv
    <2> QED  BY <2>1, <2>2, <2>3 DEF Inv, ThreadInv, TreeInv, TableInv, TypeOK, Classes
  <1> QED  BY <1>1, InvHolds, PTL

(* Whatever is lost, recursive or jumped to, the calls whose time a        *)
(* profile entry adds up do not overlap.                                   *)
THEOREM ProfileTimeIsBounded == Spec => []ProfileTimeBounded
  <1>1. Inv => ProfileTimeBounded  BY DEF Inv, ProfileInv
  <1> QED  BY <1>1, InvHolds, PTL

(* A pointer on the shadow stack of the call tree never dangles: the only  *)
(* array that can move is the one of the top's children, which no pointer  *)
(* on the stack points into.                                               *)
THEOREM PointersAreLive == Spec => []PointersLive
  <1>1. Inv => PointersLive  BY DEF Inv, TreeInv, PointersLive
  <1> QED  BY <1>1, InvHolds, PTL

(* While every instruction is decoded and has a symbol, the shadow stack   *)
(* is the thread's own stack above the lowest depth reached.               *)
THEOREM ShadowIsTheStack == Spec => []ShadowIsStack
  <1>1. Inv => ShadowIsStack  BY DEF Inv
  <1> QED  BY <1>1, InvHolds, PTL

(* A line of the folded format is counted once for each return from a      *)
(* stack that collapsed_build_stack writes as this line, whatever names    *)
(* the buffer cuts off, and is missing only when the table is at           *)
(* MAX_COLLAPSED_STACKS.                                                   *)
THEOREM StacksAreCounted == Spec => []StacksCounted
  <1>1. Inv => StacksCounted  BY DEF Inv
  <1> QED  BY <1>1, InvHolds, PTL
-----------------------------------------------------------------------------
(* The figures of the call tree.                                           *)

CountOver(nodes, P) == SumFunction([p \in P |-> nodes[p].count])
TimeOver(nodes, P)  == SumFunction([p \in P |-> nodes[p].total_tsc])

NodesIn(nodes, f)   == {p \in DOMAIN nodes : Name(p) = f}
EdgeIn(nodes, g, f) == {p \in NodesIn(nodes, f) \ {<<>>} : Name(Front(p)) = g}

(* The report of callers, in those terms.                                  *)
Summary(nodes, f) ==
    [total_calls |-> CountOver(nodes, NodesIn(nodes, f)),
     total_tsc   |-> TimeOver(nodes, NodesIn(nodes, f)),
     callers     |-> [g \in Symbols \cup {Root} |-> CountOver(nodes, EdgeIn(nodes, g, f))]]

LEMMA SummaryIs == \A f : FuncSummary(f) = Summary(ct.nodes, f)
  BY DEF FuncSummary, Summary, Count, CountOver, TimeOver, NodesOf, NodesIn, Edge, EdgeIn

LEMMA FiguresAreNumbers ==
    ASSUME NEW t, TreeInv(t), IsFiniteSet(DOMAIN t.nodes), NEW P, P \subseteq DOMAIN t.nodes
    PROVE  /\ IsFiniteSet(P)
           /\ [p \in P |-> t.nodes[p].count] \in [P -> Nat]
           /\ [p \in P |-> t.nodes[p].total_tsc] \in [P -> Nat]
           /\ CountOver(t.nodes, P) \in Nat /\ TimeOver(t.nodes, P) \in Nat
  <1>1. IsFiniteSet(P)  BY FS_Subset
  <1>2. \A p \in P : t.nodes[p].count \in Nat /\ t.nodes[p].total_tsc \in Nat
    BY DEF TreeInv, NodeSet
  <1> DEFINE a == [p \in P |-> t.nodes[p].count]
             b == [p \in P |-> t.nodes[p].total_tsc]
  <1>3. a \in [P -> Nat] /\ b \in [P -> Nat]  BY <1>2
  <1>4. CountOver(t.nodes, P) = SumFunction(a) /\ TimeOver(t.nodes, P) = SumFunction(b)
    BY DEF CountOver, TimeOver
  <1> HIDE DEF a, b
  <1>5. SumFunction(a) \in Nat /\ SumFunction(b) \in Nat  BY <1>1, <1>3, SumType
  <1> QED  BY <1>1, <1>3, <1>4, <1>5 DEF a, b

(* A set of nodes with the child pushed, and one without it.               *)
LEMMA PushedWith ==
    ASSUME NEW t, TreeInv(t), IsFiniteSet(DOMAIN t.nodes), NEW child, NEW tsc, NEW r,
           Pushed(t, child, tsc, r), NEW P, P \subseteq DOMAIN t.nodes,
           child \in DOMAIN t.nodes => child \in P
    PROVE  /\ CountOver(r.nodes, P \cup {child}) = CountOver(t.nodes, P) + 1
           /\ TimeOver(r.nodes, P \cup {child}) = TimeOver(t.nodes, P)
  <1> DEFINE R == P \cup {child}
             a == [p \in P |-> t.nodes[p].count]
             b == [p \in P |-> t.nodes[p].total_tsc]
             a1 == [p \in R |-> r.nodes[p].count]
             b1 == [p \in R |-> r.nodes[p].total_tsc]
  <1>1. IsFiniteSet(P) /\ a \in [P -> Nat] /\ b \in [P -> Nat]  BY FiguresAreNumbers
  <1>2. TreeInv(r) /\ DOMAIN r.nodes = DOMAIN t.nodes \cup {child}  BY DEF Pushed
  <1>3. a1 \in [R -> Nat] /\ b1 \in [R -> Nat]
    <2>1. \A p \in R : r.nodes[p].count \in Nat /\ r.nodes[p].total_tsc \in Nat
      BY <1>2 DEF TreeInv, NodeSet
    <2> QED  BY <2>1
  <1>4. \A p \in P : p # child => a1[p] = a[p] /\ b1[p] = b[p]
    BY DEF Pushed, SameFigures
  <1>5. /\ a1[child] = (IF child \in P THEN a[child] ELSE 0) + 1
        /\ b1[child] = (IF child \in P THEN b[child] ELSE 0) + 0
    <2>1. a1[child] = r.nodes[child].count /\ b1[child] = r.nodes[child].total_tsc  OBVIOUS
    <2>2. CASE child \in DOMAIN t.nodes
      <3>1. /\ r.nodes[child].count = t.nodes[child].count + 1
            /\ r.nodes[child].total_tsc = t.nodes[child].total_tsc
        BY <2>2 DEF Pushed
      <3>2. a[child] = t.nodes[child].count /\ b[child] = t.nodes[child].total_tsc  BY <2>2
      <3>3. b[child] \in Nat /\ child \in P  BY <1>1, <2>2
      <3> QED  BY <2>1, <3>1, <3>2, <3>3
    <2>3. CASE child \notin DOMAIN t.nodes
      <3>1. /\ r.nodes[child].count = ct_node_init.count + 1
            /\ r.nodes[child].total_tsc = ct_node_init.total_tsc
        BY <2>3 DEF Pushed
      <3>2. ct_node_init.count = 0 /\ ct_node_init.total_tsc = 0  BY DEF ct_node_init
      <3> QED  BY <2>1, <2>3, <3>1, <3>2
    <2> QED  BY <2>2, <2>3
  <1>6. /\ CountOver(r.nodes, R) = SumFunction(a1) /\ CountOver(t.nodes, P) = SumFunction(a)
        /\ TimeOver(r.nodes, R) = SumFunction(b1) /\ TimeOver(t.nodes, P) = SumFunction(b)
    BY DEF CountOver, TimeOver
  <1>7. a1 \in [P \cup {child} -> Nat] /\ b1 \in [P \cup {child} -> Nat]  BY <1>3
  <1> HIDE DEF a, b, a1, b1
  <1>8. SumFunction(a1) = SumFunction(a) + 1  BY <1>1, <1>4, <1>5, <1>7, SumGrows
  <1>9. SumFunction(b1) = SumFunction(b) + 0  BY <1>1, <1>4, <1>5, <1>7, SumGrows
  <1>10. SumFunction(b) \in Nat  BY <1>1, SumType
  <1> QED  BY <1>6, <1>8, <1>9, <1>10

LEMMA PushedWithout ==
    ASSUME NEW t, NEW child, NEW tsc, NEW r, Pushed(t, child, tsc, r),
           NEW P, P \subseteq DOMAIN t.nodes, child \notin P
    PROVE  /\ CountOver(r.nodes, P) = CountOver(t.nodes, P)
           /\ TimeOver(r.nodes, P) = TimeOver(t.nodes, P)
  <1>1. \A p \in P : SameFigures(r.nodes[p], t.nodes[p])  BY DEF Pushed
  <1>2. [p \in P |-> r.nodes[p].count] = [p \in P |-> t.nodes[p].count]
    BY <1>1 DEF SameFigures
  <1>3. [p \in P |-> r.nodes[p].total_tsc] = [p \in P |-> t.nodes[p].total_tsc]
    BY <1>1 DEF SameFigures
  <1> QED  BY <1>2, <1>3 DEF CountOver, TimeOver

One(b) == IF b THEN 1 ELSE 0

(* What a push adds to the figures: a call between the top and the child.  *)
CallAdded(old, new, g0, f0) ==
    \A f \in Symbols :
      /\ CountOver(new, NodesIn(new, f)) = CountOver(old, NodesIn(old, f)) + One(f = f0)
      /\ TimeOver(new, NodesIn(new, f)) = TimeOver(old, NodesIn(old, f))
      /\ \A g \in Symbols \cup {Root} :
            CountOver(new, EdgeIn(new, g, f))
              = CountOver(old, EdgeIn(old, g, f)) + One(g = g0 /\ f = f0)

LEMMA PushedFigures ==
    ASSUME NEW t, TreeInv(t), IsFiniteSet(DOMAIN t.nodes), NEW f0 \in Symbols, NEW tsc, NEW r,
           Pushed(t, Append(Top(t), f0), tsc, r)
    PROVE  CallAdded(t.nodes, r.nodes, Name(Top(t)), f0)
  <1> DEFINE child == Append(Top(t), f0)
             old == t.nodes
             new == r.nodes
             g0 == Name(Top(t))
  <1>1. child # <<>> /\ Front(child) = Top(t) /\ Last(child) = f0
    <2>1. Top(t) \in Seq(Symbols)  BY TopIs DEF Paths
    <2>2. child # <<>>  BY <2>1
    <2> QED  BY <2>1, <2>2, FrontOfAppend
  <1>2. Name(child) = f0  BY <1>1 DEF Name
  <1>3. DOMAIN new = DOMAIN old \cup {child}  BY DEF Pushed
  <1>p. Pushed(t, child, tsc, r)  OBVIOUS
  <1> HIDE DEF child, g0
  <1> SUFFICES ASSUME NEW f \in Symbols
               PROVE  /\ CountOver(new, NodesIn(new, f)) = CountOver(old, NodesIn(old, f)) + One(f = f0)
                      /\ TimeOver(new, NodesIn(new, f)) = TimeOver(old, NodesIn(old, f))
                      /\ \A g \in Symbols \cup {Root} :
                            CountOver(new, EdgeIn(new, g, f))
                              = CountOver(old, EdgeIn(old, g, f)) + One(g = g0 /\ f = f0)
    BY DEF CallAdded, g0
  <1> DEFINE P == NodesIn(old, f)
  <1>4. P \subseteq DOMAIN old  BY DEF NodesIn
  <1>5. CountOver(old, P) \in Nat  BY <1>4, FiguresAreNumbers
  <1>6. /\ CountOver(new, NodesIn(new, f)) = CountOver(old, P) + One(f = f0)
        /\ TimeOver(new, NodesIn(new, f)) = TimeOver(old, P)
    <2>1. CASE f = f0
      <3>1. NodesIn(new, f) = P \cup {child} /\ (child \in DOMAIN old => child \in P)
        BY <1>2, <1>3, <2>1 DEF NodesIn
      <3> HIDE DEF P
      <3>2. /\ CountOver(new, P \cup {child}) = CountOver(old, P) + 1
            /\ TimeOver(new, P \cup {child}) = TimeOver(old, P)
        BY <1>p, <1>4, <3>1, PushedWith
      <3> QED  BY <2>1, <3>1, <3>2 DEF One
    <2>2. CASE f # f0
      <3>1. NodesIn(new, f) = P /\ child \notin P  BY <1>2, <1>3, <2>2 DEF NodesIn
      <3> HIDE DEF P
      <3>2. CountOver(new, P) = CountOver(old, P) /\ TimeOver(new, P) = TimeOver(old, P)
        BY <1>p, <1>4, <3>1, PushedWithout
      <3> QED  BY <1>5, <2>2, <3>1, <3>2 DEF One
    <2> QED  BY <2>1, <2>2
  <1>7. ASSUME NEW g \in Symbols \cup {Root}
        PROVE  CountOver(new, EdgeIn(new, g, f))
                 = CountOver(old, EdgeIn(old, g, f)) + One(g = g0 /\ f = f0)
    <2> DEFINE E == EdgeIn(old, g, f)
    <2>1. E \subseteq DOMAIN old  BY DEF EdgeIn, NodesIn
    <2>2. CountOver(old, E) \in Nat  BY <2>1, FiguresAreNumbers
    <2>3. Name(Front(child)) = g0  BY <1>1 DEF g0
    <2>4. CASE g = g0 /\ f = f0
      <3>1. EdgeIn(new, g, f) = E \cup {child} /\ (child \in DOMAIN old => child \in E)
        BY <1>1, <1>2, <1>3, <2>3, <2>4 DEF NodesIn, EdgeIn
      <3> HIDE DEF E
      <3>2. CountOver(new, E \cup {child}) = CountOver(old, E) + 1
        BY <1>p, <2>1, <3>1, PushedWith
      <3> QED  BY <2>4, <3>1, <3>2 DEF One, E
    <2>5. CASE ~(g = g0 /\ f = f0)
      <3>1. EdgeIn(new, g, f) = E /\ child \notin E
        BY <1>1, <1>2, <1>3, <2>3, <2>5 DEF NodesIn, EdgeIn
      <3> HIDE DEF E
      <3>2. CountOver(new, E) = CountOver(old, E)  BY <1>p, <2>1, <3>1, PushedWithout
      <3> QED  BY <2>2, <2>5, <3>1, <3>2 DEF One, E
    <2> QED  BY <2>4, <2>5
  <1> QED  BY <1>6, <1>7 DEF P

(* What a pop adds: time of the function on top.                           *)
TimeAdded(old, new, f0, took) ==
    \A f \in Symbols :
      /\ CountOver(new, NodesIn(new, f)) = CountOver(old, NodesIn(old, f))
      /\ TimeOver(new, NodesIn(new, f))
           = TimeOver(old, NodesIn(old, f)) + (IF f = f0 THEN took ELSE 0)
      /\ \A g \in Symbols \cup {Root} :
            CountOver(new, EdgeIn(new, g, f)) = CountOver(old, EdgeIn(old, g, f))

LEMMA PoppedFigures ==
    ASSUME NEW t, TreeInv(t), IsFiniteSet(DOMAIN t.nodes), t.stack # <<>>,
           NEW tsc \in Nat, NEW r, Popped(t, tsc, r),
           NEW took, took = (IF /\ tsc > t.nodes[Top(t)].entry_tsc
                                /\ t.nodes[Top(t)].entry_tsc > 0
                             THEN tsc - t.nodes[Top(t)].entry_tsc ELSE 0)
    PROVE  TimeAdded(t.nodes, r.nodes, Name(Top(t)), took)
  <1> DEFINE old == t.nodes
             new == r.nodes
             top == Top(t)
  <1>0. top \in DOMAIN old  BY TopIs
  <1>1. old[top] \in NodeSet  BY <1>0 DEF TreeInv
  <1>2. took \in Nat  BY <1>1 DEF NodeSet
  <1>3. DOMAIN new = DOMAIN old  BY DEF Popped
  <1>4. \A p \in DOMAIN old : new[p].count = old[p].count
    BY <1>0 DEF Popped
  <1>5. \A p \in DOMAIN old : p # top => new[p].total_tsc = old[p].total_tsc
    BY DEF Popped
  <1>6. new[top].total_tsc = old[top].total_tsc + took
    BY DEF Popped
  <1>7. \A f, g : NodesIn(new, f) = NodesIn(old, f) /\ EdgeIn(new, g, f) = EdgeIn(old, g, f)
    BY <1>3 DEF NodesIn, EdgeIn
  <1>8. ASSUME NEW P, P \subseteq DOMAIN old PROVE CountOver(new, P) = CountOver(old, P)
    <2>1. [p \in P |-> new[p].count] = [p \in P |-> old[p].count]  BY <1>4, <1>8
    <2> QED  BY <2>1 DEF CountOver
  <1>9. \A f, g : NodesIn(old, f) \subseteq DOMAIN old /\ EdgeIn(old, g, f) \subseteq DOMAIN old
    BY DEF NodesIn, EdgeIn
  <1>10. ASSUME NEW f \in Symbols
         PROVE  TimeOver(new, NodesIn(old, f))
                  = TimeOver(old, NodesIn(old, f)) + (IF f = Name(top) THEN took ELSE 0)
    <2> DEFINE P == NodesIn(old, f)
               b == [p \in P |-> old[p].total_tsc]
               b1 == [p \in P |-> new[p].total_tsc]
    <2>1. P \subseteq DOMAIN old /\ (top \in P <=> f = Name(top))  BY <1>0 DEF NodesIn
    <2>2. IsFiniteSet(P) /\ b \in [P -> Nat]  BY <2>1, FiguresAreNumbers
    <2>3. TimeOver(old, P) = SumFunction(b) /\ TimeOver(new, P) = SumFunction(b1)
      BY DEF TimeOver
    <2>4. SumFunction(b) \in Nat
      <3> HIDE DEF b, P
      <3> QED  BY <2>2, SumType
    <2>5. CASE f = Name(top)
      <3>1. top \in P  BY <2>1, <2>5
      <3>2. b1[top] = b[top] + took  BY <1>6, <3>1
      <3>3. \A p \in P : p # top => b1[p] = b[p]  BY <1>5, <2>1
      <3>4. b1 \in [P -> Nat]
        <4>1. \A p \in P : b[p] \in Nat  BY <2>2
        <4>2. \A p \in P : b1[p] \in Nat  BY <1>2, <3>1, <3>2, <3>3, <4>1
        <4> QED  BY <4>2
      <3> HIDE DEF b, b1, P, top
      <3>5. SumFunction(b1) = SumFunction(b) + took
        BY <1>2, <2>2, <3>1, <3>2, <3>3, <3>4, SumChanges
      <3> QED  BY <2>3, <2>5, <3>5 DEF P
    <2>6. CASE f # Name(top)
      <3>1. b1 = b  BY <1>5, <2>1, <2>6
      <3> QED  BY <2>3, <2>4, <2>6, <3>1
    <2> QED  BY <2>5, <2>6
  <1> QED  BY <1>7, <1>8, <1>9, <1>10 DEF TimeAdded

(* An instruction given to the tree: a push and a pop.                     *)
Recorded(t, f, entered, c, tsc, t1, r) ==
    /\ TreeInv(t1) /\ TreeInv(r)
    /\ entered => Pushed(t, Append(Top(t), f), tsc, t1)
    /\ ~entered => t1 = t
    /\ c = "return" /\ t1.stack # <<>> => Popped(t1, tsc, r)
    /\ c # "return" \/ t1.stack = <<>> => r = t1

LEMMA RecordedIs ==
    ASSUME NEW t, TreeInv(t), NEW f, NEW entered \in BOOLEAN, entered => f \in Symbols,
           NEW c, NEW tsc \in Nat
    PROVE  \E t1 : Recorded(t, f, entered, c, tsc, t1, calltree_record(t, f, entered, c, tsc))
  <1> DEFINE t1 == IF entered THEN calltree_push(t, f, tsc) ELSE t
             r == calltree_record(t, f, entered, c, tsc)
  <1>1. entered => Pushed(t, Append(Top(t), f), tsc, t1)  BY PushIs
  <1>2. ~entered => t1 = t  OBVIOUS
  <1>3. r = IF c = "return" THEN calltree_pop(t1, tsc) ELSE t1  BY DEF calltree_record
  <1> HIDE DEF t1
  <1>4. TreeInv(t1)
    <2>1. CASE entered  BY <1>1, <2>1 DEF Pushed
    <2>2. CASE ~entered  BY <1>2, <2>2
    <2> QED  BY <2>1, <2>2
  <1>5. c = "return" /\ t1.stack # <<>> => Popped(t1, tsc, r)  BY <1>3, <1>4, PopIs
  <1>6. c # "return" \/ t1.stack = <<>> => r = t1  BY <1>3 DEF calltree_pop
  <1>7. TreeInv(r)
    <2>1. CASE c = "return" /\ t1.stack # <<>>  BY <1>5, <2>1 DEF Popped
    <2>2. CASE c # "return" \/ t1.stack = <<>>  BY <1>4, <1>6, <2>2
    <2> QED  BY <2>1, <2>2
  <1> HIDE DEF r
  <1>8. Recorded(t, f, entered, c, tsc, t1, r)
    BY <1>1, <1>2, <1>4, <1>5, <1>6, <1>7 DEF Recorded
  <1> QED  BY <1>8 DEF r

LEMMA RecordedFinite ==
    ASSUME NEW t, IsFiniteSet(DOMAIN t.nodes), NEW f, NEW entered \in BOOLEAN, NEW c, NEW tsc,
           NEW t1, NEW r, Recorded(t, f, entered, c, tsc, t1, r)
    PROVE  IsFiniteSet(DOMAIN t1.nodes) /\ IsFiniteSet(DOMAIN r.nodes)
  <1>1. IsFiniteSet(DOMAIN t1.nodes)
    <2>1. CASE entered
      <3>1. DOMAIN t1.nodes = DOMAIN t.nodes \cup {Append(Top(t), f)}
        BY <2>1 DEF Recorded, Pushed
      <3> QED  BY <3>1, FS_AddElement
    <2>2. CASE ~entered  BY <2>2 DEF Recorded
    <2> QED  BY <2>1, <2>2
  <1>2. DOMAIN r.nodes = DOMAIN t1.nodes
    <2>1. CASE c = "return" /\ t1.stack # <<>>  BY <2>1 DEF Recorded, Popped
    <2>2. CASE c # "return" \/ t1.stack = <<>>  BY <2>2 DEF Recorded
    <2> QED  BY <2>1, <2>2
  <1> QED  BY <1>1, <1>2

-----------------------------------------------------------------------------
(* The calls made.                                                         *)

CallersSet == Symbols \cup {Root}
CallsTo(cs, f) == SumFunction([g \in CallersSet |-> cs[<<g, f>>]])
CallTable == [(Code \cup {Root}) \X Code -> Nat]

LEMMA CallsTyped ==
    ASSUME NEW cs \in CallTable, NEW f \in Symbols
    PROVE  /\ IsFiniteSet(CallersSet) /\ [g \in CallersSet |-> cs[<<g, f>>]] \in [CallersSet -> Nat]
           /\ CallsTo(cs, f) \in Nat
  <1>1. IsFiniteSet(CallersSet)  BY DecodeAssumption, FS_AddElement DEF CallersSet
  <1> DEFINE a == [g \in CallersSet |-> cs[<<g, f>>]]
  <1>2. a \in [CallersSet -> Nat]  BY DEF CallersSet, CallTable, Code
  <1>3. CallsTo(cs, f) = SumFunction(a)  BY DEF CallsTo
  <1> HIDE DEF a
  <1>4. SumFunction(a) \in Nat  BY <1>1, <1>2, SumType
  <1> QED  BY <1>1, <1>2, <1>3, <1>4 DEF a

(* One more call, from g0 to f0.                                           *)
CallMade(old, new, g0, f0) ==
    /\ new \in CallTable
    /\ \A f \in Symbols :
         /\ CallsTo(new, f) = CallsTo(old, f) + One(f = f0)
         /\ \A g \in CallersSet : new[<<g, f>>] = old[<<g, f>>] + One(g = g0 /\ f = f0)

LEMMA CallMadeIs ==
    ASSUME NEW cs \in CallTable, NEW g0 \in CallersSet, NEW f0 \in Symbols,
           NEW cs1, cs1 = [cs EXCEPT ![<<g0, f0>>] = @ + 1]
    PROVE  CallMade(cs, cs1, g0, f0)
  <1> DEFINE K == (Code \cup {Root}) \X Code
  <1>1. <<g0, f0>> \in K  BY DEF CallersSet, Code
  <1>2. cs1 \in CallTable  BY <1>1 DEF CallTable
  <1>3. ASSUME NEW f \in Symbols, NEW g \in CallersSet
        PROVE  cs1[<<g, f>>] = cs[<<g, f>>] + One(g = g0 /\ f = f0)
    <2>1. <<g, f>> \in K  BY DEF CallersSet, Code
    <2>2. cs[<<g, f>>] \in Nat  BY <2>1 DEF CallTable
    <2>3. CASE g = g0 /\ f = f0  BY <1>1, <2>3 DEF One, CallTable
    <2>4. CASE ~(g = g0 /\ f = f0)
      <3>1. <<g, f>> # <<g0, f0>>  BY <2>4
      <3>2. cs1[<<g, f>>] = cs[<<g, f>>]  BY <1>1, <2>1, <3>1 DEF CallTable
      <3> QED  BY <2>2, <2>4, <3>2 DEF One
    <2> QED  BY <2>3, <2>4
  <1>4. ASSUME NEW f \in Symbols PROVE CallsTo(cs1, f) = CallsTo(cs, f) + One(f = f0)
    <2> DEFINE a == [g \in CallersSet |-> cs[<<g, f>>]]
               a1 == [g \in CallersSet |-> cs1[<<g, f>>]]
    <2>1. IsFiniteSet(CallersSet) /\ a \in [CallersSet -> Nat] /\ a1 \in [CallersSet -> Nat]
      BY <1>2, CallsTyped
    <2>2. CallsTo(cs, f) = SumFunction(a) /\ CallsTo(cs1, f) = SumFunction(a1)  BY DEF CallsTo
    <2>3. CallsTo(cs, f) \in Nat  BY CallsTyped
    <2>4. CASE f = f0
      <3>1. \A g \in CallersSet : g # g0 => a1[g] = a[g]
        <4> TAKE g \in CallersSet
        <4>1. a[g] \in Nat  BY <2>1
        <4>2. a1[g] = a[g] + One(g = g0 /\ f = f0)  BY <1>3
        <4> HIDE DEF a, a1
        <4> QED  BY <4>1, <4>2 DEF One
      <3>2. a1[g0] = a[g0] + 1
        <4>1. a1[g0] = a[g0] + One(g0 = g0 /\ f = f0)  BY <1>3
        <4> QED  BY <2>4, <4>1 DEF One
      <3> HIDE DEF a, a1
      <3>3. SumFunction(a1) = SumFunction(a) + 1  BY <2>1, <3>1, <3>2, SumChanges
      <3> QED  BY <2>2, <2>4, <3>3 DEF One
    <2>5. CASE f # f0
      <3>1. \A g \in CallersSet : a1[g] = a[g]
        <4> TAKE g \in CallersSet
        <4>1. a[g] \in Nat  BY <2>1
        <4>2. a1[g] = a[g] + One(g = g0 /\ f = f0)  BY <1>3
        <4> HIDE DEF a, a1
        <4> QED  BY <2>5, <4>1, <4>2 DEF One
      <3>2. a1 = a  BY <3>1
      <3> HIDE DEF a, a1
      <3> QED  BY <2>2, <2>3, <2>5, <3>2 DEF One
    <2> QED  BY <2>4, <2>5
  <1> QED  BY <1>2, <1>3, <1>4 DEF CallMade

(* While nothing is lost and all have symbols: every function on the       *)
(* thread's stack has a symbol, and the nodes on the shadow stack carry    *)
(* the entry times of its frames.                                          *)
CallersInv == whole /\ known => Completed \in Seq(Symbols)

EntriesInv ==
    fmt = "tree" /\ timed /\ whole /\ known =>
      \A i \in 1..Len(ct.stack) :
        /\ ct.nodes[ct.stack[i].path].entry_tsc = frames[low + i].since
        /\ frames[low + i].since \in 1..executed

TablesInv ==
    calls \in CallTable /\ spent \in [Code -> Int] /\ IsFiniteSet(DOMAIN ct.nodes)

FiguresInv == TablesInv /\ CallersInv /\ EntriesInv /\ CallsCounted /\ TimesAddUp

(* What holds of an instruction if nothing is lost after it.               *)
LEMMA SeenNow ==
    ASSUME ThreadInv, ArrivalInv, NEW insn, Observe(insn), whole', known'
    PROVE  /\ whole /\ known /\ Here \in Symbols
           /\ Entered(Here, Start, prevClass) <=> Pending
           /\ Pending => Here = Last(frames).called
  <1>1. whole /\ known /\ Here \in Symbols  BY DEF Observe
  <1> QED  BY <1>1, EnteredIs

LEMMA CalledKnown ==
    ASSUME ThreadInv, CallersInv, whole, known, Here \in Symbols,
           Pending => Here = Last(frames).called
    PROVE  Called \in Seq(Symbols) /\ Completed \in Seq(Symbols)
  <1>1. Completed \in Seq(Symbols)  BY DEF CallersInv
  <1>2. CASE Pending
    <2>1. Called = Append(Completed, Here)  BY <1>2, CompletedIs
    <2> QED  BY <1>1, <2>1
  <1>3. CASE ~Pending
    <2>1. Called = Completed  BY <1>3, CompletedIs
    <2> QED  BY <1>1, <2>1
  <1> QED  BY <1>1, <1>2, <1>3

LEMMA CallersNext ==
    ASSUME ThreadInv, ThreadInv', ArrivalInv, CallersInv, [Next]_vars
    PROVE  CallersInv'
  <1>1. CASE \E insn \in Insns : Execute(insn) /\ Record(insn) /\ Observe(insn)
    <2>1. PICK insn \in Insns : Execute(insn) /\ Record(insn) /\ Observe(insn)  BY <1>1
    <2> SUFFICES ASSUME whole', known' PROVE Completed' \in Seq(Symbols)
      BY DEF CallersInv
    <2>2. whole /\ known /\ Here \in Symbols /\ (Pending => Here = Last(frames).called)
      BY <2>1, SeenNow
    <2>3. Called \in Seq(Symbols)  BY <2>2, CalledKnown
    <2>4. low' = Min({low, Len(frames')})  BY <2>1 DEF Observe
    <2>5. Completed' = IF insn.class = "return" THEN Shorter(Called) ELSE Called
      BY <2>1, <2>4, CompletedNext
    <2>6. Shorter(Called) \in Seq(Symbols)
      <3>1. Called # <<>> => Front(Called) \in Seq(Symbols)  BY <2>3, FrontIs
      <3> QED  BY <2>3, <3>1 DEF Shorter
    <2> QED  BY <2>3, <2>5, <2>6
  <1>2. CASE whole' = FALSE  BY <1>2 DEF CallersInv
  <1>3. CASE UNCHANGED <<fmt, timed, thread, recorders, history>>
    <2>1. UNCHANGED <<frames, arrival, low, whole, known>>
      BY <1>3 DEF thread, history
    <2>2. UNCHANGED Completed  BY <2>1 DEF Completed, Called, Pending
    <2> QED  BY <2>1, <2>2 DEF CallersInv
  <1> QED  BY <1>1, <1>2, <1>3, Steps

(* The caller of the frame being entered.                                  *)
LEMMA CallerIs ==
    ASSUME ThreadInv, CallersInv, whole, known, Pending
    PROVE  /\ Caller \in CallersSet
           /\ Caller = IF Completed = <<>> THEN Root ELSE Last(Completed)
  <1>1. Completed \in Seq(Symbols)  BY DEF CallersInv
  <1>2. Called = Append(Completed, Last(frames).called) /\ Len(Called) = Len(Completed) + 1
    BY CompletedIs
  <1>3. CASE Completed = <<>>
    <2>1. Len(<<>>) = 0  OBVIOUS
    <2>2. ~(Len(Called) > 1)  BY <1>2, <1>3, <2>1
    <2> QED  BY <1>3, <2>2 DEF Caller, CallersSet
  <1>4. CASE Completed # <<>>
    <2> DEFINE n == Len(Completed)
    <2>1. n \in Nat /\ n > 0 /\ Last(Completed) = Completed[n] /\ Last(Completed) \in Symbols
      BY <1>1, <1>4, FrontIs
    <2>2. Called[n] = Completed[n]  BY <1>1, <1>2, <2>1
    <2>3. Len(Called) > 1 /\ Len(Called) - 1 = n  BY <1>2, <2>1
    <2>4. Caller = Called[n]  BY <2>3 DEF Caller
    <2> QED  BY <1>4, <2>1, <2>2, <2>4 DEF CallersSet
  <1> QED  BY <1>3, <1>4

LEMMA TopName ==
    ASSUME TreeInv(ct), Treed, ShadowIsStack, whole, known
    PROVE  Name(Top(ct)) = IF Completed = <<>> THEN Root ELSE Last(Completed)
  <1>1. ShadowOf(ct) = Completed
    BY DEF ShadowIsStack, Shadow, ShadowOf, Fits
  <1> DEFINE n == Len(ct.stack)
  <1>2. /\ Completed \in Seq(Symbols) /\ Len(Completed) = n /\ n \in Nat
        /\ \A i \in 1..n : Completed[i] = Name(ct.stack[i].path)
        /\ Completed = <<>> <=> ct.stack = <<>>
    BY <1>1, ShadowOfIs, TopIs
  <1>3. CASE ct.stack = <<>>  BY <1>2, <1>3 DEF Top, Name
  <1>4. CASE ct.stack # <<>>
    <2>1. n > 0 /\ Top(ct) = ct.stack[n].path  BY <1>4, TopIs
    <2>2. Last(Completed) = Completed[n]  BY <1>2, <1>4, FrontIs
    <2>3. n \in 1..n  BY <1>2, <2>1
    <2> QED  BY <1>2, <1>4, <2>1, <2>2, <2>3
  <1> QED  BY <1>3, <1>4

CountsMatch(nodes, cs) ==
    \A f \in Symbols :
      /\ CountOver(nodes, NodesIn(nodes, f)) = CallsTo(cs, f)
      /\ \A g \in CallersSet : CountOver(nodes, EdgeIn(nodes, g, f)) = cs[<<g, f>>]

LEMMA SummaryCounts ==
    ASSUME NEW nodes, NEW cs
    PROVE  CountsMatch(nodes, cs) <=>
             \A f \in Symbols :
               /\ \A g \in Symbols \cup {Root} : Summary(nodes, f).callers[g] = cs[<<g, f>>]
               /\ Summary(nodes, f).total_calls
                     = SumFunction([g \in Symbols \cup {Root} |-> cs[<<g, f>>]])
  BY DEF CountsMatch, Summary, CallsTo, CallersSet

CallsMatch(format, w, k, nodes, p, cs) ==
    w /\ k => /\ format = "tree" => CountsMatch(nodes, cs)
              /\ format = "profile" => \A f \in Symbols : p[f].calls = CallsTo(cs, f)

LEMMA CallsCountedIs ==
    /\ CallsCounted <=> CallsMatch(fmt, whole, known, ct.nodes, prof, calls)
    /\ CallsCounted' <=> CallsMatch(fmt', whole', known', ct'.nodes, prof', calls')
  <1>1. \A cs : \A f : CallsTo(cs, f) = SumFunction([g \in Symbols \cup {Root} |-> cs[<<g, f>>]])
    BY DEF CallsTo, CallersSet
  <1>2. \A f : FuncSummary(f)' = Summary(ct'.nodes, f)
    BY DEF FuncSummary, Summary, Count, CountOver, TimeOver, NodesOf, NodesIn, Edge, EdgeIn
  <1>3. CallsCounted <=> CallsMatch(fmt, whole, known, ct.nodes, prof, calls)
    BY <1>1, SummaryIs, SummaryCounts DEF CallsCounted, CallsMatch
  <1>4. CallsCounted' <=> CallsMatch(fmt', whole', known', ct'.nodes, prof', calls')
    BY <1>1, <1>2, SummaryCounts DEF CallsCounted, CallsMatch
  <1> QED  BY <1>3, <1>4

LEMMA CountsKept ==
    ASSUME NEW t, TreeInv(t), IsFiniteSet(DOMAIN t.nodes), NEW f, NEW entered \in BOOLEAN,
           entered => f \in Symbols, NEW c, NEW tsc \in Nat, NEW t1, NEW r,
           Recorded(t, f, entered, c, tsc, t1, r),
           NEW cs \in CallTable, CountsMatch(t.nodes, cs), NEW cs1, NEW g0,
           entered => g0 = Name(Top(t)) /\ CallMade(cs, cs1, g0, f),
           ~entered => cs1 = cs
    PROVE  CountsMatch(r.nodes, cs1)
  <1>1. CountsMatch(t1.nodes, cs1)
    <2>1. CASE entered
      <3>1. Pushed(t, Append(Top(t), f), tsc, t1)  BY <2>1 DEF Recorded
      <3>2. CallAdded(t.nodes, t1.nodes, g0, f)  BY <2>1, <3>1, PushedFigures
      <3>3. CallMade(cs, cs1, g0, f)  BY <2>1
      <3> SUFFICES ASSUME NEW h \in Symbols
                   PROVE  /\ CountOver(t1.nodes, NodesIn(t1.nodes, h)) = CallsTo(cs1, h)
                          /\ \A g \in CallersSet :
                                CountOver(t1.nodes, EdgeIn(t1.nodes, g, h)) = cs1[<<g, h>>]
        BY DEF CountsMatch
      <3>4. CountOver(t1.nodes, NodesIn(t1.nodes, h)) = CallsTo(cs1, h)
        BY <3>2, <3>3 DEF CallAdded, CallMade, CountsMatch
      <3>5. ASSUME NEW g \in CallersSet
            PROVE  CountOver(t1.nodes, EdgeIn(t1.nodes, g, h)) = cs1[<<g, h>>]
        <4>1. CountOver(t1.nodes, EdgeIn(t1.nodes, g, h))
                = CountOver(t.nodes, EdgeIn(t.nodes, g, h)) + One(g = g0 /\ h = f)
          BY <3>2 DEF CallAdded, CallersSet
        <4>2. cs1[<<g, h>>] = cs[<<g, h>>] + One(g = g0 /\ h = f)  BY <3>3 DEF CallMade
        <4>3. CountOver(t.nodes, EdgeIn(t.nodes, g, h)) = cs[<<g, h>>]  BY DEF CountsMatch
        <4> QED  BY <4>1, <4>2, <4>3
      <3> QED  BY <3>4, <3>5
    <2>2. CASE ~entered
      <3>1. t1 = t /\ cs1 = cs  BY <2>2 DEF Recorded
      <3> QED  BY <3>1
    <2> QED  BY <2>1, <2>2
  <1>2. CASE c = "return" /\ t1.stack # <<>>
    <2>1. TreeInv(t1) /\ Popped(t1, tsc, r)  BY <1>2 DEF Recorded
    <2>2. IsFiniteSet(DOMAIN t1.nodes)  BY RecordedFinite
    <2> DEFINE took == IF /\ tsc > t1.nodes[Top(t1)].entry_tsc
                          /\ t1.nodes[Top(t1)].entry_tsc > 0
                       THEN tsc - t1.nodes[Top(t1)].entry_tsc ELSE 0
    <2>3. TimeAdded(t1.nodes, r.nodes, Name(Top(t1)), took)
      BY <1>2, <2>1, <2>2, PoppedFigures
    <2> HIDE DEF took
    <2> QED  BY <1>1, <2>3 DEF TimeAdded, CountsMatch, CallersSet
  <1>3. CASE c # "return" \/ t1.stack = <<>>
    <2>1. r = t1  BY <1>3 DEF Recorded
    <2> QED  BY <1>1, <2>1
  <1> QED  BY <1>2, <1>3

LEMMA ProfileCalls ==
    ASSUME NEW p \in [Symbols -> EntrySet], NEW g \in Symbols, NEW entered \in BOOLEAN,
           NEW c, NEW tsc \in Nat
    PROVE  \A f \in Symbols : profile_record(p, g, entered, c, tsc)[f].calls
                                = p[f].calls + One(entered /\ f = g)
  <1> DEFINE e0 == p[g]
             e1 == [e0 EXCEPT !.calls = IF entered THEN @ + 1 ELSE @,
                              !.entry_tsc = IF entered /\ tsc > 0 THEN tsc ELSE @]
             e2 == [e1 EXCEPT !.returns = @ + 1]
             e3 == [e2 EXCEPT !.cumulative_tsc = @ + (tsc - e1.entry_tsc), !.entry_tsc = 0]
             e4 == [e1 EXCEPT !.branches = @ + 1]
             new == CASE c = "return" -> IF tsc > e1.entry_tsc /\ e1.entry_tsc > 0 THEN e3 ELSE e2
                      [] c = "jump"   -> e4
                      [] OTHER        -> e1
             q == profile_record(p, g, entered, c, tsc)
             n == e0.calls + One(entered)
  <1>1. e0 \in EntrySet  OBVIOUS
  <1>2. q = [p EXCEPT ![g] = new]  BY DEF profile_record
  <1> HIDE DEF e0
  <1>3. e1 \in EntrySet /\ e1.calls = n
    <2> DEFINE m == IF entered THEN e0.calls + 1 ELSE e0.calls
               t == IF entered /\ tsc > 0 THEN tsc ELSE e0.entry_tsc
    <2>1. e0.calls \in Nat /\ e0.entry_tsc \in Nat  BY <1>1 DEF EntrySet
    <2>2. m \in Nat /\ t \in Nat /\ m = n  BY <2>1 DEF One
    <2>3. e1 = [e0 EXCEPT !.calls = m, !.entry_tsc = t]  OBVIOUS
    <2> HIDE DEF m, t, e1, n
    <2>4. e1 \in EntrySet /\ e1.calls = m  BY <1>1, <2>2, <2>3 DEF EntrySet
    <2> QED  BY <2>2, <2>4
  <1> HIDE DEF e1, n
  <1>4. e2.calls = n /\ e2 \in EntrySet  BY <1>3 DEF EntrySet
  <1>5. e4.calls = n  BY <1>3 DEF EntrySet
  <1> HIDE DEF e2
  <1>6. e3.calls = n
    <2> DEFINE sum == e2.cumulative_tsc + (tsc - e1.entry_tsc)
    <2>1. e3 = [e2 EXCEPT !.cumulative_tsc = sum, !.entry_tsc = 0]  OBVIOUS
    <2> HIDE DEF sum, e3
    <2> QED  BY <1>4, <2>1 DEF EntrySet
  <1> HIDE DEF e3, e4
  <1>7. new.calls = n
    <2>1. CASE c = "return"
      <3>1. new = IF tsc > e1.entry_tsc /\ e1.entry_tsc > 0 THEN e3 ELSE e2  BY <2>1
      <3> HIDE DEF new
      <3> QED  BY <1>4, <1>6, <3>1
    <2>2. CASE c = "jump"
      <3>1. new = e4  BY <2>2
      <3> QED  BY <1>5, <3>1
    <2>3. CASE c # "return" /\ c # "jump"
      <3>1. new = e1  BY <2>3
      <3> QED  BY <1>3, <3>1
    <2> QED  BY <2>1, <2>2, <2>3
  <1> HIDE DEF new, q
  <1>8. \A f \in Symbols : q[f] = IF f = g THEN new ELSE p[f]  BY <1>2
  <1>9. \A f \in Symbols : q[f].calls = p[f].calls + One(entered /\ f = g)
    <2> TAKE f \in Symbols
    <2>1. CASE f = g
      <3>1. q[f].calls = n  BY <1>7, <1>8, <2>1
      <3> QED  BY <2>1, <3>1 DEF n, e0, One
    <2>2. CASE f # g
      <3>1. q[f].calls = p[f].calls /\ p[f] \in EntrySet  BY <1>8, <2>2
      <3>2. p[f].calls \in Nat  BY <3>1 DEF EntrySet
      <3> QED  BY <2>2, <3>1, <3>2 DEF One
    <2> QED  BY <2>1, <2>2
  <1> QED  BY <1>9 DEF q

(* The instruction's call, if it is the first of a frame.                  *)
LEMMA CallObserved ==
    ASSUME ThreadInv, ArrivalInv, CallersInv, calls \in CallTable,
           NEW insn, Observe(insn), whole', known', fmt # "collapsed"
    PROVE  /\ Pending => CallMade(calls, calls', Caller, Here)
           /\ ~Pending => calls' = calls
  <1>1. /\ whole /\ known /\ Here \in Symbols
        /\ Pending => Here = Last(frames).called
    BY SeenNow
  <1>2. calls' = IF Pending THEN [calls EXCEPT ![<<Caller, Last(frames).called>>] = @ + 1]
                 ELSE calls
    BY <1>1 DEF Observe
  <1>3. ASSUME Pending PROVE CallMade(calls, calls', Caller, Here)
    <2>1. Caller \in CallersSet  BY <1>1, <1>3, CallerIs
    <2>2. calls' = [calls EXCEPT ![<<Caller, Here>>] = @ + 1]  BY <1>1, <1>2, <1>3
    <2> QED  BY <1>1, <2>1, <2>2, CallMadeIs
  <1> QED  BY <1>2, <1>3

LEMMA TablesNext ==
    ASSUME ThreadInv, ArrivalInv, TreeInv(ct), CallersInv, TablesInv, [Next]_vars
    PROVE  TablesInv'
  <1>1. CASE \E insn \in Insns : Execute(insn) /\ Record(insn) /\ Observe(insn)
    <2>1. PICK insn \in Insns : Execute(insn) /\ Record(insn) /\ Observe(insn)  BY <1>1
    <2>2. calls' \in CallTable
      <3>1. CASE whole /\ known' /\ fmt # "collapsed"
        <4>1. whole'  BY <2>1, <3>1 DEF Observe
        <4>2. CASE Pending
          <5>1. CallMade(calls, calls', Caller, Here)
            BY <2>1, <3>1, <4>1, <4>2, CallObserved DEF TablesInv
          <5> QED  BY <5>1 DEF CallMade
        <4>3. CASE ~Pending
          <5>1. calls' = calls  BY <2>1, <4>3 DEF Observe
          <5> QED  BY <5>1 DEF TablesInv
        <4> QED  BY <4>2, <4>3
      <3>2. CASE ~(whole /\ known' /\ fmt # "collapsed")
        <4>1. calls' = calls  BY <2>1, <3>2 DEF Observe
        <4> QED  BY <4>1 DEF TablesInv
      <3> QED  BY <3>1, <3>2
    <2>3. spent' \in [Code -> Int]
      <3> DEFINE f == Last(frames).called
                 d == executed + 1 - Since
      <3>1. Last(frames) \in FrameSet  BY StackNonempty
      <3>2. f \in Code /\ Last(frames).since \in Nat  BY <3>1 DEF FrameSet
      <3>3. executed \in Nat  BY DecodeAssumption DEF ThreadInv
      <3>4. d \in Int  BY <3>2, <3>3 DEF Since
      <3>5. spent' = spent \/ spent' = [spent EXCEPT ![f] = @ + d]  BY <2>1 DEF Observe
      <3> HIDE DEF f, d
      <3> QED  BY <3>2, <3>4, <3>5 DEF TablesInv
    <2>4. IsFiniteSet(DOMAIN ct'.nodes)
      <3> DEFINE f == IF Here \in Symbols THEN Here ELSE "none"
                 en == Entered(f, Start, prevClass)
      <3>1. ct' = IF fmt = "tree" THEN calltree_record(ct, f, en, insn.class, Tsc) ELSE ct
        BY <2>1 DEF Record
      <3>2. en \in BOOLEAN /\ (en => f \in Symbols)  BY DEF Entered
      <3>3. Tsc \in Nat  BY DecodeAssumption DEF Tsc, ThreadInv
      <3> HIDE DEF f, en
      <3>4. CASE fmt = "tree"
        <4>1. PICK t1 : Recorded(ct, f, en, insn.class, Tsc, t1, ct')
          BY <3>1, <3>2, <3>3, <3>4, RecordedIs
        <4> QED  BY <3>2, <4>1, RecordedFinite DEF TablesInv
      <3>5. CASE fmt # "tree"  BY <3>1, <3>5 DEF TablesInv
      <3> QED  BY <3>4, <3>5
    <2> QED  BY <2>2, <2>3, <2>4 DEF TablesInv
  <1>2. CASE UNCHANGED <<recorders, calls, spent>>
    <2>1. UNCHANGED <<ct, calls, spent>>  BY <1>2 DEF recorders
    <2> QED  BY <2>1 DEF TablesInv
  <1> QED  BY <1>1, <1>2, Steps DEF history

LEMMA CallsNext ==
    ASSUME ThreadInv, ThreadInv', ArrivalInv, ProfileInv, TreeInv(ct), ShadowIsStack,
           TablesInv, CallersInv, CallsCounted, [Next]_vars
    PROVE  CallsCounted'
  <1>1. CASE /\ \E insn \in Insns : Execute(insn) /\ Record(insn) /\ Observe(insn)
             /\ UNCHANGED <<fmt, timed, decoder, gaps>>
    <2>1. PICK insn \in Insns : Execute(insn) /\ Record(insn) /\ Observe(insn)  BY <1>1
    <2>f. fmt' = fmt  BY <1>1
    <2> SUFFICES ASSUME whole', known', fmt # "collapsed"
                 PROVE  /\ fmt = "tree" => CountsMatch(ct'.nodes, calls')
                        /\ fmt = "profile" =>
                             \A f \in Symbols : prof'[f].calls = CallsTo(calls', f)
      <3>1. CASE whole' /\ known' /\ fmt # "collapsed"
        <4>1. whole' /\ known' =>
                 /\ fmt' = "tree" => CountsMatch(ct'.nodes, calls')
                 /\ fmt' = "profile" => \A f \in Symbols : prof'[f].calls = CallsTo(calls', f)
          BY <2>f, <3>1
        <4> QED  BY <4>1, CallsCountedIs DEF CallsMatch
      <3>2. CASE ~(whole' /\ known' /\ fmt # "collapsed")
        BY <2>f, <3>2 DEF CallsCounted
      <3> QED  BY <3>1, <3>2
    <2> DEFINE en == Entered(Here, Start, prevClass)
               c == insn.class
    <2>2. whole /\ known /\ Here \in Symbols /\ (en <=> Pending)  BY <2>1, SeenNow
    <2>3. /\ Pending => CallMade(calls, calls', Caller, Here)
          /\ ~Pending => calls' = calls
      BY <2>1, CallObserved DEF TablesInv
    <2>4. en \in BOOLEAN  BY DEF Entered
    <2>5. Tsc \in Nat  BY DecodeAssumption DEF Tsc, ThreadInv
    <2>6. /\ fmt = "tree" => CountsMatch(ct.nodes, calls)
          /\ fmt = "profile" => \A f \in Symbols : prof[f].calls = CallsTo(calls, f)
      BY <2>2, CallsCountedIs DEF CallsMatch
    <2>7. CASE fmt = "tree"
      <3>1. ct' = calltree_record(ct, Here, en, c, Tsc)  BY <2>1, <2>2, <2>7 DEF Record
      <3> HIDE DEF en, c
      <3>2. PICK t1 : Recorded(ct, Here, en, c, Tsc, t1, ct')
        BY <2>2, <2>4, <2>5, <3>1, RecordedIs
      <3>3. Pending => Caller = Name(Top(ct))
        <4> SUFFICES ASSUME Pending PROVE Caller = Name(Top(ct))
          OBVIOUS
        <4>1. Caller = IF Completed = <<>> THEN Root ELSE Last(Completed)  BY <2>2, CallerIs
        <4>2. Name(Top(ct)) = IF Completed = <<>> THEN Root ELSE Last(Completed)
          BY <2>2, <2>7, TopName DEF Treed
        <4> QED  BY <4>1, <4>2
      <3>4. CountsMatch(ct'.nodes, calls')
        <4>1. IsFiniteSet(DOMAIN ct.nodes) /\ calls \in CallTable  BY DEF TablesInv
        <4>2. /\ en => Caller = Name(Top(ct)) /\ CallMade(calls, calls', Caller, Here)
              /\ ~en => calls' = calls
          BY <2>2, <2>3, <3>3
        <4>3. CountsMatch(ct.nodes, calls)  BY <2>6, <2>7
        <4> QED  BY <2>2, <2>4, <2>5, <3>2, <4>1, <4>2, <4>3, CountsKept
      <3> QED  BY <2>7, <3>4
    <2>8. CASE fmt = "profile"
      <3>1. prof' = profile_record(prof, Here, en, c, Tsc)  BY <2>1, <2>2, <2>8 DEF Record
      <3>2. prof \in [Symbols -> EntrySet]  BY DEF ProfileInv
      <3> HIDE DEF en, c
      <3>3. \A f \in Symbols : prof'[f].calls = prof[f].calls + One(en /\ f = Here)
        BY <2>2, <2>4, <2>5, <3>1, <3>2, ProfileCalls
      <3>4. ASSUME NEW f \in Symbols PROVE prof'[f].calls = CallsTo(calls', f)
        <4>1. prof[f].calls = CallsTo(calls, f) /\ prof[f].calls \in Nat
          BY <2>6, <2>8, <3>2 DEF EntrySet
        <4>2. prof'[f].calls = prof[f].calls + One(en /\ f = Here)  BY <3>3
        <4>3. CASE Pending
          <5>1. CallsTo(calls', f) = CallsTo(calls, f) + One(f = Here)
            BY <2>3, <4>3 DEF CallMade
          <5>2. One(en /\ f = Here) = One(f = Here)  BY <2>2, <4>3 DEF One
          <5> QED  BY <4>1, <4>2, <5>1, <5>2
        <4>4. CASE ~Pending
          <5>1. One(en /\ f = Here) = 0  BY <2>2, <4>4 DEF One
          <5> QED  BY <2>3, <4>1, <4>2, <4>4, <5>1
        <4> QED  BY <4>3, <4>4
      <3> QED  BY <2>8, <3>4
    <2>9. fmt \in {"tree", "profile"}  BY DecodeAssumption DEF ThreadInv, AllFormats
    <2> QED  BY <2>7, <2>8, <2>9
  <1>2. CASE whole' = FALSE  BY <1>2 DEF CallsCounted
  <1>3. CASE UNCHANGED <<fmt, timed, thread, recorders, history>>
    <2>1. UNCHANGED <<fmt, prof, ct, whole, known, calls>>  BY <1>3 DEF recorders, history
    <2> QED  BY <2>1, CallsCountedIs
  <1> QED  BY <1>1, <1>2, <1>3, Steps
-----------------------------------------------------------------------------
(* The times.                                                              *)

(* The time at which a frame of the thread's stack was entered.            *)
LEMMA ExecuteSince ==
    ASSUME ThreadInv, NEW insn \in Insns, Execute(insn)
    PROVE  \A j \in 1..Len(frames) : j <= Len(frames') =>
              frames'[j].since = IF j = Len(frames) THEN Since ELSE frames[j].since
  <1> DEFINE n == Len(frames)
             stack == [frames EXCEPT ![n].since = Since]
  <1>1. /\ n \in Nat /\ n > 0 /\ frames \in Seq(FrameSet)  BY StackNonempty DEF ThreadInv
  <1>2. executed \in Nat /\ Last(frames) \in FrameSet  BY StackNonempty, DecodeAssumption DEF ThreadInv
  <1>3. Since \in Nat  BY <1>2 DEF Since, FrameSet
  <1>4. /\ stack \in Seq(FrameSet) /\ Len(stack) = n
        /\ \A j \in 1..n : stack[j].since = IF j = n THEN Since ELSE frames[j].since
    <2>1. n \in 1..n /\ DOMAIN frames = 1..n  BY <1>1
    <2>2. \A j \in 1..n : stack[j] = IF j = n THEN [frames[n] EXCEPT !.since = Since] ELSE frames[j]
      BY <1>1, <2>1
    <2>3. frames[n] \in FrameSet  BY <1>1, <2>1
    <2>4. [frames[n] EXCEPT !.since = Since] \in FrameSet
          /\ [frames[n] EXCEPT !.since = Since].since = Since
      BY <1>3, <2>3 DEF FrameSet
    <2>5. stack \in Seq(FrameSet) /\ Len(stack) = n  BY <1>1, <2>1, <2>4
    <2> QED  BY <2>2, <2>4, <2>5
  <1>5. frames' = IF insn.class = "return" THEN Front(stack)
                  ELSE IF Calls(insn) THEN Append(stack, Frame(insn.to))
                  ELSE IF Targets(insn) THEN [stack EXCEPT ![Len(stack)].fn = insn.to]
                  ELSE stack
    BY DEF Execute
  <1> HIDE DEF stack
  <1>6. CASE insn.class = "return"
    <2>1. frames' = Front(stack) /\ stack # <<>>  BY <1>1, <1>4, <1>5, <1>6
    <2>2. Len(frames') = n - 1 /\ \A j \in 1..(n - 1) : frames'[j] = stack[j]
      BY <1>4, <2>1, FrontIs
    <2>3. \A j \in 1..n : j <= n - 1 => j \in 1..(n - 1)  BY <1>1
    <2> QED  BY <1>4, <2>2, <2>3
  <1>7. CASE insn.class # "return" /\ Calls(insn)
    <2>1. frames' = Append(stack, Frame(insn.to))  BY <1>5, <1>7
    <2>2. \A j \in 1..n : frames'[j] = stack[j]  BY <1>4, <2>1
    <2> QED  BY <1>4, <2>2
  <1>8. CASE insn.class # "return" /\ ~Calls(insn) /\ Targets(insn)
    <2> DEFINE last == [stack[n] EXCEPT !.fn = insn.to]
    <2>1. frames' = [stack EXCEPT ![n].fn = insn.to]  BY <1>4, <1>5, <1>8
    <2>2. stack[n] \in FrameSet /\ n \in 1..n /\ DOMAIN stack = 1..n  BY <1>1, <1>4
    <2>3. last.since = stack[n].since  BY <2>2 DEF FrameSet
    <2>4. \A j \in 1..n : frames'[j] = IF j = n THEN last ELSE stack[j]  BY <1>1, <2>1, <2>2
    <2> HIDE DEF last
    <2> QED  BY <1>4, <2>3, <2>4
  <1>9. CASE insn.class # "return" /\ ~Calls(insn) /\ ~Targets(insn)
    <2>1. frames' = stack  BY <1>5, <1>9
    <2> QED  BY <1>4, <2>1
  <1> QED  BY <1>6, <1>7, <1>8, <1>9

(* The shadow stack of the tree, when the function has been entered.       *)
LEMMA EnteredTree ==
    ASSUME ThreadInv, ArrivalInv, TreeInv(ct), ShadowIsStack, fmt = "tree", whole, known,
           Here \in Symbols, NEW en, en = Entered(Here, Start, prevClass),
           NEW c, NEW tsc, NEW t1, NEW r, Recorded(ct, Here, en, c, tsc, t1, r)
    PROVE  ShadowOf(t1) = Called /\ Len(t1.stack) = Len(frames) - low /\ TreeInv(t1)
  <1>1. ShadowOf(ct) = Shadow /\ Treed /\ Fits  BY DEF Shadow, ShadowOf, Treed, Fits
  <1>2. (IF en THEN Append(ShadowOf(ct), Here) ELSE ShadowOf(ct)) = Called
    BY <1>1, ShadowEntered
  <1>3. TreeInv(t1)  BY DEF Recorded
  <1>4. ShadowOf(t1) = Called
    <2>1. CASE en
      <3> DEFINE child == Append(Top(ct), Here)
      <3>1. Pushed(ct, child, tsc, t1)  BY <2>1 DEF Recorded
      <3>2. Last(child) = Here
        <4>1. Top(ct) \in Seq(Symbols)  BY TopIs DEF Paths
        <4> QED  BY <4>1, FrontOfAppend
      <3> HIDE DEF child
      <3>3. ShadowOf(t1) = Append(ShadowOf(ct), Here)  BY <3>1, <3>2, ShadowPushed
      <3> QED  BY <1>2, <2>1, <3>3
    <2>2. CASE ~en  BY <1>2, <2>2 DEF Recorded
    <2> QED  BY <2>1, <2>2
  <1>5. Len(t1.stack) = Len(ShadowOf(t1))  BY <1>3, ShadowOfIs
  <1>6. Len(Called) = Len(frames) - low  BY CalledIs
  <1> QED  BY <1>3, <1>4, <1>5, <1>6

(* The nodes on the shadow stack carry the entry times of the frames fr    *)
(* above the lowest depth l.                                               *)
Stamped(t, fr, l, ex) ==
    \A i \in 1..Len(t.stack) :
      /\ t.nodes[t.stack[i].path].entry_tsc = fr[l + i].since
      /\ fr[l + i].since \in 1..ex

Stamps == [j \in 1..Len(frames) |->
             [since |-> IF j = Len(frames) THEN Since ELSE frames[j].since]]

LEMMA EnteredStamped ==
    ASSUME ThreadInv, ArrivalInv, TreeInv(ct), ShadowIsStack, fmt = "tree", timed, whole, known,
           Here \in Symbols, NEW en, en = Entered(Here, Start, prevClass),
           Stamped(ct, frames, low, executed),
           NEW c, NEW t1, NEW r, Recorded(ct, Here, en, c, executed + 1, t1, r)
    PROVE  Stamped(t1, Stamps, low, executed + 1)
  <1> DEFINE n == Len(frames)
             m == Len(ct.stack)
             S == Stamps
  <1>1. n \in Nat /\ low \in Nat /\ 0 < low /\ low <= n  BY StackNonempty
  <1>2. executed \in Nat  BY DecodeAssumption DEF ThreadInv
  <1>3. Len(t1.stack) = n - low /\ TreeInv(t1)  BY EnteredTree
  <1>4. m \in Nat  BY TopIs
  <1>5. \A j \in 1..n : S[j].since = IF j = n THEN Since ELSE frames[j].since  BY DEF Stamps
  <1>6. en <=> Pending  BY EnteredIs
  <1>7. ASSUME NEW i \in 1..m, low + i \in 1..n, S[low + i].since = frames[low + i].since
        PROVE  /\ ct.nodes[ct.stack[i].path].entry_tsc = S[low + i].since
               /\ S[low + i].since \in 1..(executed + 1)
    <2>1. /\ ct.nodes[ct.stack[i].path].entry_tsc = frames[low + i].since
          /\ frames[low + i].since \in 1..executed
      BY DEF Stamped
    <2> HIDE DEF S, m
    <2> QED  BY <1>2, <1>7, <2>1
  <1> HIDE DEF S
  <1>8. CASE Pending
    <2> DEFINE child == Append(Top(ct), Here)
    <2>1. Pushed(ct, child, executed + 1, t1)  BY <1>6, <1>8 DEF Recorded
    <2>2. Len(t1.stack) = m + 1 /\ t1.stack[m + 1].path = child
          /\ \A i \in 1..m : t1.stack[i] = ct.stack[i]
      BY <2>1 DEF Pushed
    <2>3. Len(child) = m + 1
      <3>1. Top(ct) \in Seq(Symbols) /\ Len(Top(ct)) = m  BY TopIs DEF Paths
      <3> QED  BY <3>1, FrontOfAppend
    <2>4. Since = executed + 1  BY <1>8 DEF Since, Pending
    <2>5. low + (m + 1) = n  BY <1>1, <1>3, <1>4, <2>2
    <2>6. t1.nodes[child].entry_tsc = executed + 1  BY <2>1 DEF Pushed
    <2> HIDE DEF child, m
    <2>7. ASSUME NEW i \in 1..m
          PROVE  /\ t1.nodes[t1.stack[i].path].entry_tsc = S[low + i].since
                 /\ S[low + i].since \in 1..(executed + 1)
      <3>1. low + i \in 1..n /\ low + i # n  BY <1>1, <1>4, <2>5
      <3>2. S[low + i].since = frames[low + i].since  BY <1>5, <3>1
      <3>3. ct.stack[i].path \in DOMAIN ct.nodes /\ Len(ct.stack[i].path) = i
        BY TopIs DEF TreeInv, m
      <3>4. ct.stack[i].path # child  BY <1>4, <2>3, <3>3
      <3>5. t1.nodes[ct.stack[i].path].entry_tsc = ct.nodes[ct.stack[i].path].entry_tsc
        BY <2>1, <3>3, <3>4 DEF Pushed, SameFigures
      <3>6. t1.stack[i] = ct.stack[i]  BY <2>2
      <3> QED  BY <1>7, <3>1, <3>2, <3>5, <3>6
    <2>8. /\ t1.nodes[t1.stack[m + 1].path].entry_tsc = S[low + (m + 1)].since
          /\ S[low + (m + 1)].since \in 1..(executed + 1)
      <3>1. S[n].since = executed + 1  BY <1>1, <1>5, <2>4
      <3> QED  BY <1>2, <2>2, <2>5, <2>6, <3>1
    <2>9. \A i \in 1..(m + 1) : i \in 1..m \/ i = m + 1  BY <1>4
    <2> QED  BY <2>2, <2>7, <2>8, <2>9 DEF Stamped, S
  <1>9. CASE ~Pending
    <2>1. t1 = ct  BY <1>6, <1>9 DEF Recorded
    <2>2. m = n - low  BY <1>3, <2>1
    <2>3. ASSUME NEW i \in 1..m
          PROVE  /\ ct.nodes[ct.stack[i].path].entry_tsc = S[low + i].since
                 /\ S[low + i].since \in 1..(executed + 1)
      <3>1. low + i \in 1..n /\ n > low  BY <1>1, <2>2
      <3>2. Since = frames[n].since
        <4>1. arrival # "call"  BY <1>9, <3>1 DEF Pending
        <4>2. Last(frames) = frames[n]  BY StackNonempty
        <4> QED  BY <4>1, <4>2 DEF Since
      <3>3. S[low + i].since = frames[low + i].since  BY <1>5, <3>1, <3>2
      <3> QED  BY <1>7, <3>1, <3>3
    <2> QED  BY <2>1, <2>3 DEF Stamped, S
  <1> QED  BY <1>8, <1>9

LEMMA EntriesNext ==
    ASSUME ThreadInv, ThreadInv', ArrivalInv, TreeInv(ct), ShadowIsStack, EntriesInv,
           [Next]_vars
    PROVE  EntriesInv'
  <1>1. CASE /\ \E insn \in Insns : Execute(insn) /\ Record(insn) /\ Observe(insn)
             /\ UNCHANGED <<fmt, timed, decoder, gaps>>
    <2>1. PICK insn \in Insns : Execute(insn) /\ Record(insn) /\ Observe(insn)  BY <1>1
    <2> SUFFICES ASSUME fmt = "tree", timed, whole', known'
                 PROVE  Stamped(ct', frames', low', executed')
      BY <1>1 DEF EntriesInv, Stamped
    <2> DEFINE en == Entered(Here, Start, prevClass)
               c == insn.class
               n == Len(frames)
    <2>2. whole /\ known /\ Here \in Symbols  BY <2>1, SeenNow
    <2>3. ct' = calltree_record(ct, Here, en, c, executed + 1)  BY <2>1, <2>2 DEF Record, Tsc
    <2>4. en \in BOOLEAN /\ executed \in Nat  BY DecodeAssumption DEF Entered, ThreadInv
    <2>e. executed' = executed + 1  BY <2>1 DEF Execute
    <2>5. PICK t1 : Recorded(ct, Here, en, c, executed + 1, t1, ct')
      <3>1. executed + 1 \in Nat  BY <2>4
      <3> HIDE DEF en, c
      <3> QED  BY <2>2, <2>3, <2>4, <3>1, RecordedIs
    <2>6. Stamped(ct, frames, low, executed)  BY <2>2 DEF EntriesInv, Stamped
    <2>7. Stamped(t1, Stamps, low, executed + 1)
      BY <2>2, <2>5, <2>6, EnteredStamped
    <2>8. Len(t1.stack) = n - low /\ TreeInv(t1)  BY <2>2, <2>5, EnteredTree
    <2>9. n \in Nat /\ low \in Nat /\ 0 < low /\ low <= n  BY StackNonempty
    <2>10. Len(frames') \in 1..MaxFrames /\ Len(frames') \in Nat  BY <2>1, ExecuteIs, DecodeAssumption
    <2>11. low' = IF low <= Len(frames') THEN low ELSE Len(frames')
      BY <2>1, <2>10, LowIs DEF Observe
    <2>12. \A j \in 1..n : j <= Len(frames') => frames'[j].since = Stamps[j].since
      BY <2>1, ExecuteSince DEF Stamps
    <2>13. CASE c # "return"
      <3>1. ct' = t1  BY <2>5, <2>13 DEF Recorded
      <3>2. Len(frames') >= n  BY <2>1, <2>9, <2>13, ExecuteIs DEF Stays, Enters, Leaves
      <3>3. low' = low  BY <2>9, <2>10, <2>11, <3>2
      <3>4. ASSUME NEW i \in 1..Len(t1.stack)
            PROVE  frames'[low + i].since = Stamps[low + i].since
        <4>1. low + i \in 1..n  BY <2>8, <2>9
        <4>2. low + i <= Len(frames')  BY <2>9, <2>10, <3>2, <4>1
        <4> QED  BY <2>12, <4>1, <4>2
      <3> QED  BY <2>7, <2>e, <3>1, <3>3, <3>4 DEF Stamped
    <2>14. CASE c = "return" /\ t1.stack = <<>>
      <3>1. ct'.stack = <<>>  BY <2>5, <2>14 DEF Recorded
      <3>2. Len(<<>>) = 0 /\ 1..0 = {}  OBVIOUS
      <3> QED  BY <3>1, <3>2 DEF Stamped
    <2>15. CASE c = "return" /\ t1.stack # <<>>
      <3> DEFINE k == Len(t1.stack)
      <3>1. Popped(t1, executed + 1, ct')  BY <2>5, <2>15 DEF Recorded
      <3>2. k \in Nat /\ k > 0 /\ Len(Top(t1)) = k  BY <2>8, <2>15, TopIs
      <3>3. Len(frames') = n - 1  BY <2>1, <2>15, ExecuteIs DEF Leaves
      <3>4. low' = low /\ k = n - low  BY <2>8, <2>9, <2>11, <3>2, <3>3
      <3>5. Len(ct'.stack) = k - 1 /\ \A i \in 1..(k - 1) : ct'.stack[i] = t1.stack[i]
        BY <3>1 DEF Popped
      <3> HIDE DEF k
      <3>6. ASSUME NEW i \in 1..(k - 1)
            PROVE  /\ ct'.nodes[ct'.stack[i].path].entry_tsc = frames'[low + i].since
                   /\ frames'[low + i].since \in 1..(executed + 1)
        <4>1. i \in 1..k /\ i # k  BY <3>2
        <4>2. t1.stack[i].path \in DOMAIN t1.nodes /\ Len(t1.stack[i].path) = i
          BY <2>8, <4>1, TopIs DEF TreeInv, k
        <4>3. t1.stack[i].path # Top(t1)  BY <3>2, <4>1, <4>2
        <4>4. ct'.nodes[t1.stack[i].path] = t1.nodes[t1.stack[i].path]
          BY <3>1, <4>2, <4>3 DEF Popped
        <4>5. low + i \in 1..n /\ low + i <= Len(frames')  BY <2>9, <3>3, <3>4, <4>1
        <4>6. frames'[low + i].since = Stamps[low + i].since  BY <2>12, <4>5
        <4>7. /\ t1.nodes[t1.stack[i].path].entry_tsc = Stamps[low + i].since
              /\ Stamps[low + i].since \in 1..(executed + 1)
          BY <2>7, <4>1 DEF Stamped, k
        <4> QED  BY <3>5, <4>4, <4>6, <4>7
      <3> QED  BY <2>e, <3>4, <3>5, <3>6 DEF Stamped
    <2> QED  BY <2>13, <2>14, <2>15
  <1>2. CASE whole' = FALSE  BY <1>2 DEF EntriesInv
  <1>3. CASE UNCHANGED <<fmt, timed, thread, recorders, history>>
    <2>1. UNCHANGED <<fmt, timed, frames, executed, ct, low, whole, known>>
      BY <1>3 DEF thread, recorders, history
    <2> QED  BY <2>1 DEF EntriesInv
  <1> QED  BY <1>1, <1>2, <1>3, Steps

TimesMatch(nodes, sp) ==
    \A f \in Symbols : TimeOver(nodes, NodesIn(nodes, f)) = sp[f]

LEMMA TimesAddUpIs ==
    /\ TimesAddUp <=> (fmt = "tree" /\ timed /\ whole /\ known => TimesMatch(ct.nodes, spent))
    /\ TimesAddUp' <=> (fmt' = "tree" /\ timed' /\ whole' /\ known' => TimesMatch(ct'.nodes, spent'))
  <1>1. \A f : FuncSummary(f)' = Summary(ct'.nodes, f)
    BY DEF FuncSummary, Summary, Count, CountOver, TimeOver, NodesOf, NodesIn, Edge, EdgeIn
  <1>2. \A nodes, f : Summary(nodes, f).total_tsc = TimeOver(nodes, NodesIn(nodes, f))
    BY DEF Summary
  <1>3. TimesAddUp <=> (fmt = "tree" /\ timed /\ whole /\ known => TimesMatch(ct.nodes, spent))
    BY <1>2, SummaryIs DEF TimesAddUp, TimesMatch
  <1>4. TimesAddUp' <=> (fmt' = "tree" /\ timed' /\ whole' /\ known' => TimesMatch(ct'.nodes, spent'))
    BY <1>1, <1>2 DEF TimesAddUp, TimesMatch
  <1> QED  BY <1>3, <1>4

(* The name of the node that a return pops, and the time of its call.      *)
LEMMA ReturnsFrom ==
    ASSUME ThreadInv, ArrivalInv, TreeInv(ct), ShadowIsStack, CallersInv, EntriesInv,
           fmt = "tree", timed, whole, known, Here \in Symbols,
           Pending => Here = Last(frames).called,
           NEW en, en = Entered(Here, Start, prevClass),
           NEW c, NEW t1, NEW r, Recorded(ct, Here, en, c, executed + 1, t1, r)
    PROVE  /\ t1.stack # <<>> <=> Len(frames) > low
           /\ t1.stack # <<>> =>
                /\ Name(Top(t1)) = Last(frames).called /\ Last(frames).called \in Symbols
                /\ t1.nodes[Top(t1)].entry_tsc = Since /\ Since \in 1..(executed + 1)
  <1> DEFINE n == Len(frames)
             k == Len(t1.stack)
  <1>1. n \in Nat /\ low \in Nat /\ 0 < low /\ low <= n /\ Last(frames) = frames[n]
    BY StackNonempty
  <1>2. ShadowOf(t1) = Called /\ k = n - low /\ TreeInv(t1)  BY EnteredTree
  <1>3. t1.stack # <<>> <=> n > low
    <2>1. ShadowOf(t1) = <<>> <=> t1.stack = <<>>  BY <1>2, ShadowOfIs
    <2> QED  BY <1>2, <2>1, CalledIs
  <1>4. ASSUME t1.stack # <<>>
        PROVE  /\ Name(Top(t1)) = Last(frames).called /\ Last(frames).called \in Symbols
               /\ t1.nodes[Top(t1)].entry_tsc = Since /\ Since \in 1..(executed + 1)
    <2>1. k \in Nat /\ k > 0 /\ Top(t1) = t1.stack[k].path  BY <1>2, <1>4, TopIs
    <2>2. Called[k] = Name(Top(t1))  BY <1>2, <2>1, ShadowOfIs
    <2>3. low + k = n  BY <1>1, <1>2
    <2>4. Called[k] = frames[low + k].called
      <3>1. k \in 1..(n - low)  BY <1>2, <2>1
      <3> QED  BY <3>1, CalledIs
    <2>5. Called[k] \in Symbols
      <3>1. Called \in Seq(Symbols) /\ Len(Called) = k  BY <1>2, CalledKnown, CalledIs
      <3> HIDE DEF k
      <3> QED  BY <2>1, <3>1
    <2>6. Stamped(ct, frames, low, executed)  BY DEF EntriesInv, Stamped
    <2>7. Stamped(t1, Stamps, low, executed + 1)  BY <2>6, EnteredStamped
    <2>8. k \in 1..k  BY <2>1
    <2>9. /\ t1.nodes[t1.stack[k].path].entry_tsc = Stamps[low + k].since
          /\ Stamps[low + k].since \in 1..(executed + 1)
      BY <2>7, <2>8 DEF Stamped
    <2>10. Stamps[n].since = Since  BY <1>1 DEF Stamps
    <2> QED  BY <1>1, <2>1, <2>2, <2>3, <2>4, <2>5, <2>9, <2>10
  <1> QED  BY <1>3, <1>4

LEMMA TimesNext ==
    ASSUME ThreadInv, ThreadInv', ArrivalInv, TreeInv(ct), ShadowIsStack,
           TablesInv, CallersInv, EntriesInv, TimesAddUp, [Next]_vars
    PROVE  TimesAddUp'
  <1>1. CASE /\ \E insn \in Insns : Execute(insn) /\ Record(insn) /\ Observe(insn)
             /\ UNCHANGED <<fmt, timed, decoder, gaps>>
    <2>1. PICK insn \in Insns : Execute(insn) /\ Record(insn) /\ Observe(insn)  BY <1>1
    <2> SUFFICES ASSUME fmt = "tree", timed, whole', known'
                 PROVE  TimesMatch(ct'.nodes, spent')
      BY <1>1, TimesAddUpIs
    <2> DEFINE en == Entered(Here, Start, prevClass)
               c == insn.class
               f0 == Last(frames).called
               out == c = "return" /\ Len(frames) > low
    <2>2. whole /\ known /\ Here \in Symbols /\ (Pending => Here = Last(frames).called)
      BY <2>1, SeenNow
    <2>3. ct' = calltree_record(ct, Here, en, c, executed + 1)  BY <2>1, <2>2 DEF Record, Tsc
    <2>4. en \in BOOLEAN /\ executed \in Nat  BY DecodeAssumption DEF Entered, ThreadInv
    <2>5. PICK t1 : Recorded(ct, Here, en, c, executed + 1, t1, ct')
      <3>1. executed + 1 \in Nat  BY <2>4
      <3> HIDE DEF en, c
      <3> QED  BY <2>2, <2>3, <2>4, <3>1, RecordedIs
    <2>6. TimesMatch(ct.nodes, spent)  BY <2>2, TimesAddUpIs
    <2>7. /\ t1.stack # <<>> <=> Len(frames) > low
          /\ t1.stack # <<>> =>
                /\ Name(Top(t1)) = f0 /\ f0 \in Symbols
                /\ t1.nodes[Top(t1)].entry_tsc = Since /\ Since \in 1..(executed + 1)
      BY <2>2, <2>5, ReturnsFrom
    <2>8. spent' = IF out THEN [spent EXCEPT ![f0] = @ + (executed + 1 - Since)] ELSE spent
      BY <2>1, <2>2 DEF Observe
    <2>9. /\ TreeInv(t1) /\ IsFiniteSet(DOMAIN ct.nodes) /\ IsFiniteSet(DOMAIN t1.nodes)
          /\ spent \in [Code -> Int]
      <3>1. IsFiniteSet(DOMAIN ct.nodes)  BY DEF TablesInv
      <3>2. IsFiniteSet(DOMAIN t1.nodes)  BY <2>4, <2>5, <3>1, RecordedFinite
      <3> QED  BY <2>5, <3>1, <3>2 DEF Recorded, TablesInv
    <2> HIDE DEF en, c
    <2>10. TimesMatch(t1.nodes, spent)
      <3>1. CASE en
        <4>1. Pushed(ct, Append(Top(ct), Here), executed + 1, t1)  BY <2>5, <3>1 DEF Recorded
        <4>2. CallAdded(ct.nodes, t1.nodes, Name(Top(ct)), Here)
          BY <2>2, <2>9, <4>1, PushedFigures
        <4> QED  BY <2>6, <4>2 DEF CallAdded, TimesMatch
      <3>2. CASE ~en  BY <2>5, <2>6, <3>2 DEF Recorded
      <3> QED  BY <3>1, <3>2
    <2>11. CASE out
      <3> DEFINE tsc == executed + 1
                 took == IF /\ tsc > t1.nodes[Top(t1)].entry_tsc
                            /\ t1.nodes[Top(t1)].entry_tsc > 0
                         THEN tsc - t1.nodes[Top(t1)].entry_tsc ELSE 0
      <3>1. t1.stack # <<>> /\ Popped(t1, tsc, ct')  BY <2>5, <2>7, <2>11 DEF Recorded
      <3>2. took = executed + 1 - Since /\ took \in Nat  BY <2>4, <2>7, <3>1
      <3>3. tsc \in Nat  BY <2>4
      <3>4. TimeAdded(t1.nodes, ct'.nodes, Name(Top(t1)), took)
        BY <2>9, <3>1, <3>3, PoppedFigures
      <3> HIDE DEF took, tsc
      <3>5. spent' = [spent EXCEPT ![f0] = @ + took]  BY <2>8, <2>11, <3>2
      <3>6. f0 \in Symbols /\ Name(Top(t1)) = f0  BY <2>7, <3>1
      <3> HIDE DEF f0, out
      <3> SUFFICES ASSUME NEW f \in Symbols
                   PROVE  TimeOver(ct'.nodes, NodesIn(ct'.nodes, f)) = spent'[f]
        BY DEF TimesMatch
      <3>7. TimeOver(ct'.nodes, NodesIn(ct'.nodes, f)) = spent[f] + (IF f = f0 THEN took ELSE 0)
        BY <2>10, <3>4, <3>6 DEF TimeAdded, TimesMatch
      <3>8. f \in Code /\ f0 \in Code /\ spent[f] \in Int  BY <2>9, <3>6 DEF Code
      <3>9. spent'[f] = IF f = f0 THEN spent[f] + took ELSE spent[f]  BY <2>9, <3>5, <3>8
      <3> QED  BY <3>2, <3>7, <3>8, <3>9
    <2>12. CASE ~out
      <3>1. spent' = spent  BY <2>8, <2>12
      <3>2. ct' = t1  BY <2>5, <2>7, <2>12 DEF Recorded
      <3> QED  BY <2>10, <3>1, <3>2
    <2> QED  BY <2>11, <2>12
  <1>2. CASE whole' = FALSE  BY <1>2 DEF TimesAddUp
  <1>3. CASE UNCHANGED <<fmt, timed, thread, recorders, history>>
    <2>1. UNCHANGED <<fmt, timed, ct, spent, whole, known>>
      BY <1>3 DEF thread, recorders, history
    <2> QED  BY <2>1, TimesAddUpIs
  <1> QED  BY <1>1, <1>2, <1>3, Steps

LEMMA InitFigures == Init => FiguresInv
  <1> SUFFICES ASSUME Init PROVE FiguresInv
    OBVIOUS
  <1>1. ct.stack = <<>> /\ DOMAIN ct.nodes = {<<>>}
    <2>1. ct = [nodes |-> Put(NoEntries, <<>>, ct_node_init), stack |-> <<>>]
      BY DEF Init, calltree_init
    <2> DEFINE nodes == Put(NoEntries, <<>>, ct_node_init)
    <2>2. DOMAIN nodes = {<<>>}  BY DEF Put, NoEntries
    <2>3. ct.nodes = nodes /\ ct.stack = <<>>  BY <2>1
    <2> HIDE DEF nodes
    <2> QED  BY <2>2, <2>3
  <1>2. calls \in CallTable /\ \A g \in CallersSet, f \in Symbols : calls[<<g, f>>] = 0
    <2>1. calls = [e \in (Code \cup {Root}) \X Code |-> 0]  BY DEF Init
    <2> QED  BY <2>1 DEF CallTable, CallersSet, Code
  <1>3. spent \in [Code -> Int] /\ \A f \in Symbols : spent[f] = 0  BY DEF Init, Code
  <1>4. TablesInv
    <2>1. IsFiniteSet({<<>>})  BY FS_Singleton
    <2> QED  BY <1>1, <1>2, <1>3, <2>1 DEF TablesInv
  <1>5. CallersInv
    <2>1. ThreadInv /\ low = 2  BY InitThread DEF Init
    <2>2. Len(frames) = 2
      <3>1. PICK f \in Symbols : frames = <<Frame(f), Frame(f)>>  BY DEF Init
      <3> QED  BY <3>1
    <2>3. Called = <<>> /\ ~Pending  BY <2>1, <2>2, CalledIs DEF Pending
    <2>4. Completed = <<>>  BY <2>3 DEF Completed
    <2>5. <<>> \in Seq(Symbols)  OBVIOUS
    <2> QED  BY <2>4, <2>5 DEF CallersInv
  <1>6. EntriesInv
    <2>1. Len(ct.stack) = 0 /\ 1..0 = {}  BY <1>1
    <2> QED  BY <2>1 DEF EntriesInv
  <1>7. ASSUME NEW f \in Symbols PROVE NodesIn(ct.nodes, f) = {}
    <2>1. Name(<<>>) = Root /\ f # Root  BY DecodeAssumption DEF Name, Code
    <2> QED  BY <1>1, <2>1 DEF NodesIn
  <1>8. CountOver(ct.nodes, {}) = 0 /\ TimeOver(ct.nodes, {}) = 0
    <2> DEFINE a == [p \in {} |-> ct.nodes[p].count]
               b == [p \in {} |-> ct.nodes[p].total_tsc]
    <2>1. a \in [{} -> Nat] /\ b \in [{} -> Nat]  OBVIOUS
    <2>2. CountOver(ct.nodes, {}) = SumFunction(a) /\ TimeOver(ct.nodes, {}) = SumFunction(b)
      BY DEF CountOver, TimeOver
    <2> HIDE DEF a, b
    <2> QED  BY <2>1, <2>2, SumNothing
  <1>9. ASSUME NEW f \in Symbols PROVE CallsTo(calls, f) = 0
    <2> DEFINE a == [g \in CallersSet |-> calls[<<g, f>>]]
    <2>1. a \in [CallersSet -> {0}]  BY <1>2
    <2>2. IsFiniteSet(CallersSet) /\ CallsTo(calls, f) = SumFunction(a)
      BY <1>2, CallsTyped DEF CallsTo
    <2> HIDE DEF a
    <2> QED  BY <2>1, <2>2, SumOfZeros
  <1>10. CallsCounted
    <2>1. \A f \in Symbols : prof[f].calls = CallsTo(calls, f)
      <3>1. prof = profile_init  BY DEF Init
      <3>2. \A f \in Symbols : prof[f].calls = 0  BY <3>1 DEF profile_init
      <3> QED  BY <1>9, <3>2
    <2>2. \A f \in Symbols : \A g : EdgeIn(ct.nodes, g, f) = {}  BY <1>7 DEF EdgeIn
    <2>3. CountsMatch(ct.nodes, calls)
      BY <1>2, <1>7, <1>8, <1>9, <2>2 DEF CountsMatch
    <2> QED  BY <2>1, <2>3, CallsCountedIs DEF CallsMatch
  <1>11. TimesAddUp
    <2>1. TimesMatch(ct.nodes, spent)  BY <1>3, <1>7, <1>8 DEF TimesMatch
    <2> QED  BY <2>1, TimesAddUpIs
  <1> QED  BY <1>4, <1>5, <1>6, <1>10, <1>11 DEF FiguresInv

LEMMA FiguresHold == Spec => []FiguresInv
  <1>1. Init => FiguresInv  BY InitFigures
  <1>2. Inv /\ Inv' /\ FiguresInv /\ [Next]_vars => FiguresInv'
    <2> SUFFICES ASSUME Inv, Inv', FiguresInv, [Next]_vars PROVE FiguresInv'
      OBVIOUS
    <2>1. /\ ThreadInv /\ ThreadInv' /\ ArrivalInv /\ ProfileInv /\ TreeInv(ct)
          /\ ShadowIsStack
      BY DEF Inv
    <2>2. TablesInv /\ CallersInv /\ EntriesInv /\ CallsCounted /\ TimesAddUp
      BY DEF FiguresInv
    <2>3. TablesInv'  BY <2>1, <2>2, TablesNext
    <2>4. CallersInv'  BY <2>1, <2>2, CallersNext
    <2>5. EntriesInv'  BY <2>1, <2>2, EntriesNext
    <2>6. CallsCounted'  BY <2>1, <2>2, CallsNext
    <2>7. TimesAddUp'  BY <2>1, <2>2, TimesNext
    <2> QED  BY <2>3, <2>4, <2>5, <2>6, <2>7 DEF FiguresInv
  <1> QED  BY <1>1, <1>2, InvHolds, PTL DEF Spec

(* While nothing is lost and all have symbols, the calls that callers_print *)
(* and the profile report between two functions are the calls the thread    *)
(* made between them, at whatever places of the tree they are counted.      *)
THEOREM CallsAreCounted == Spec => []CallsCounted
  <1>1. FiguresInv => CallsCounted  BY DEF FiguresInv
  <1> QED  BY <1>1, FiguresHold, PTL

(* The time that callers_print gives a function is the sum of the times of  *)
(* its finished calls, nested calls of the same function included.          *)
THEOREM TimesAreAdded == Spec => []TimesAddUp
  <1>1. FiguresInv => TimesAddUp  BY DEF FiguresInv
  <1> QED  BY <1>1, FiguresHold, PTL
=============================================================================
