------------------------------ MODULE HwtlmProofs ------------------------------
(***************************************************************************)
(* Proofs about Hwtlm: the energies the sampler reports add up to the      *)
(* energy used, for any set of domains and any width of the counter.       *)
(***************************************************************************)
EXTENDS Hwtlm, TLAPS

-----------------------------------------------------------------------------
(* Remainders.                                                             *)

(* A number is its quotient times the divisor plus its remainder.          *)
LEMMA Division ==
    ASSUME NEW w \in Nat \ {0}, NEW x \in Int
    PROVE  /\ x % w \in 0..(w - 1) /\ x \div w \in Int
           /\ x = w * (x \div w) + (x % w)
  BY Z3

(* Only 0 is a multiple of w below w.                                      *)
LEMMA SmallMultiple ==
    ASSUME NEW w \in Nat \ {0}, NEW q \in Int, 0 <= w * q, w * q < w
    PROVE  q = 0
  <1>1. CASE q >= 1
    <2>1. w * q >= w  BY <1>1, Z3
    <2> QED  BY <2>1
  <1>2. CASE q <= -1
    <2>1. w * q <= -w  BY <1>2, Z3
    <2> QED  BY <2>1
  <1> QED  BY <1>1, <1>2

(* The remainder of a multiple is 0.                                       *)
LEMMA MultipleMod ==
    ASSUME NEW w \in Nat \ {0}, NEW q \in Int, NEW x \in Int, x = w * q
    PROVE  x % w = 0
  <1> DEFINE r == x % w
             p == x \div w
  <1>1. r \in 0..(w - 1) /\ p \in Int /\ x = w * p + r
    BY Division
  <1>2. r = w * (q - p)  BY <1>1, Z3
  <1>3. q - p = 0
    <2> HIDE DEF r, p
    <2>1. q - p \in Int /\ 0 <= w * (q - p) /\ w * (q - p) < w  BY <1>1, <1>2
    <2> QED  BY <2>1, SmallMultiple
  <1> QED  BY <1>2, <1>3, <1>1

(* The counter cannot tell x from 0.                                       *)
Multiple(x) == \E q \in Int : x = Width * q

LEMMA MultipleSum ==
    ASSUME NEW x \in Int, NEW y \in Int, Multiple(x), Multiple(y)
    PROVE  Multiple(x + y)
  <1>1. PICK p \in Int : x = Width * p  BY DEF Multiple
  <1>2. PICK q \in Int : y = Width * q  BY DEF Multiple
  <1>3. x + y = Width * (p + q)  BY <1>1, <1>2, HwtlmAssumption, Z3 DEF HwtlmAssumption
  <1> QED  BY <1>3 DEF Multiple

(* raplCounterDelta of two values of the counter: the energy used between  *)
(* them, less a multiple of the width, and all of it if it is below.       *)
LEMMA DeltaExact ==
    ASSUME NEW a \in Nat, NEW b \in Nat, a <= b
    PROVE  LET delta == raplCounterDelta(b % Width, a % Width)
           IN  /\ delta \in Nat /\ delta <= b - a
               /\ Multiple((b - a) - delta)
               /\ b - a < Width => delta = b - a
  <1> DEFINE ra == a % Width
             rb == b % Width
             qa == a \div Width
             qb == b \div Width
             delta == raplCounterDelta(rb, ra)
             q == IF rb >= ra THEN qb - qa ELSE (qb - qa) - 1
  <1>w. Width \in Nat \ {0}  BY HwtlmAssumption DEF HwtlmAssumption
  <1>a. ra \in 0..(Width - 1) /\ qa \in Int /\ a = Width * qa + ra  BY <1>w, Division
  <1>b. rb \in 0..(Width - 1) /\ qb \in Int /\ b = Width * qb + rb  BY <1>w, Division
  <1> HIDE DEF ra, rb, qa, qb
  <1>1. delta \in 0..(Width - 1)  BY <1>a, <1>b, <1>w DEF raplCounterDelta
  <1>2. q \in Int /\ (b - a) - delta = Width * q
    <2>1. CASE rb >= ra  BY <2>1, <1>a, <1>b, <1>w, Z3 DEF raplCounterDelta
    <2>2. CASE rb < ra   BY <2>2, <1>a, <1>b, <1>w, Z3 DEF raplCounterDelta
    <2> QED  BY <2>1, <2>2, <1>a, <1>b
  <1> HIDE DEF delta, q
  <1>3. q >= 0
    <2>1. SUFFICES ASSUME q <= -1 PROVE FALSE  BY <1>2
    <2>2. Width * q <= -Width  BY <2>1, <1>2, <1>w, Z3
    <2> QED  BY <2>2, <1>1, <1>2, <1>w
  <1>4. Width * q >= 0  BY <1>3, <1>2, <1>w, Z3
  <1>5. b - a < Width => q = 0
    <2> HAVE b - a < Width
    <2>1. Width * q < Width  BY <1>1, <1>2, <1>w
    <2> QED  BY <2>1, <1>2, <1>4, <1>w, SmallMultiple
  <1>6. delta \in Nat /\ delta <= b - a /\ Multiple((b - a) - delta)
           /\ (b - a < Width => delta = b - a)
    BY <1>1, <1>2, <1>4, <1>5, <1>w DEF Multiple
  <1> QED  BY <1>6 DEF delta, ra, rb

-----------------------------------------------------------------------------
(* The inductive invariant.                                                *)

(* Every energy is a natural number for every domain.                      *)
EnergyTypes ==
    /\ energy \in [Domains -> Nat] /\ reading \in [Domains -> Nat]
    /\ read \in [Domains -> Nat] /\ base \in [Domains -> Nat]
    /\ reported \in [Domains -> Nat] /\ counters \in [Domains -> Nat]

(* A value is read after those before it, and is the energy of that moment *)
(* modulo Width; until the command ends, the values kept for comparison    *)
(* are those of the last report.                                           *)
ReadingsOrdered ==
    \A d \in Domains :
      /\ base[d] <= read[d] /\ read[d] <= reading[d] /\ reading[d] <= energy[d]
      /\ counters[d] = reading[d] % Width
      /\ previous # <<>> /\ pc # "exit" => previous[d] = read[d] % Width

(* What is reported so far.                                                *)
ReportsExact ==
    \A d \in Domains :
      /\ previous = <<>> => reported[d] = 0 /\ base[d] = 0 /\ read[d] = 0
      /\ reported[d] <= read[d] - base[d]
      /\ Multiple((read[d] - base[d]) - reported[d])
      /\ d \notin wrapped => reported[d] = read[d] - base[d]

Inv == EnergyTypes /\ ReadingsOrdered /\ ReportsExact

LEMMA InvInit == Init => Inv
  <1> SUFFICES ASSUME Init PROVE Inv  OBVIOUS
  <1>w. Width \in Nat \ {0}  BY HwtlmAssumption DEF HwtlmAssumption
  <1>1. EnergyTypes  BY <1>w DEF Init, Zero, EnergyTypes
  <1>2. 0 % Width = 0  BY <1>w, MultipleMod
  <1>3. ReadingsOrdered  BY <1>w, <1>2 DEF Init, Zero, ReadingsOrdered
  <1>4. Multiple(0)  BY <1>w DEF Multiple
  <1>5. \A d \in Domains : (read[d] - base[d]) - reported[d] = 0  BY DEF Init, Zero
  <1>6. ReportsExact  BY <1>4, <1>5 DEF Init, Zero, ReportsExact
  <1> QED  BY <1>1, <1>3, <1>6 DEF Inv

(* A report adds what was used since the last one.                         *)
LEMMA ReportKeepsInv ==
    ASSUME Inv, previous # <<>>, pc # "exit", Report,
           UNCHANGED <<counters, energy, reading>>, pc' = "exit" \/ pc' = "sleep"
    PROVE  Inv'
  <1> DEFINE delta(d) == raplCounterDelta(counters[d], previous[d])
  <1>w. Width \in Nat \ {0}  BY HwtlmAssumption DEF HwtlmAssumption
  <1>1. ASSUME NEW d \in Domains
        PROVE  /\ delta(d) \in Nat /\ delta(d) <= reading[d] - read[d]
               /\ Multiple((reading[d] - read[d]) - delta(d))
               /\ reading[d] - read[d] < Width => delta(d) = reading[d] - read[d]
    <2>1. counters[d] = reading[d] % Width /\ previous[d] = read[d] % Width
      BY DEF Inv, ReadingsOrdered
    <2>2. reading[d] \in Nat /\ read[d] \in Nat /\ read[d] <= reading[d]
      BY DEF Inv, ReadingsOrdered, EnergyTypes
    <2> QED  BY <2>1, <2>2, DeltaExact
  <1> HIDE DEF delta
  <1>2. \A d \in Domains : reported'[d] = reported[d] + delta(d)
    BY DEF Report, delta
  <1>3. EnergyTypes'
    <2>1. reported' \in [Domains -> Nat]
      BY <1>1 DEF Report, delta, Inv, EnergyTypes
    <2> QED  BY <2>1 DEF Report, Inv, EnergyTypes
  <1>4. ReadingsOrdered'
    BY DEF Report, NextReading, Inv, EnergyTypes, ReadingsOrdered
  <1>5. ASSUME NEW d \in Domains
        PROVE  /\ previous' = <<>> => reported'[d] = 0 /\ base'[d] = 0 /\ read'[d] = 0
               /\ reported'[d] <= read'[d] - base'[d]
               /\ Multiple((read'[d] - base'[d]) - reported'[d])
               /\ d \notin wrapped' => reported'[d] = read'[d] - base'[d]
    <2> DEFINE before == (read[d] - base[d]) - reported[d]
               more   == (reading[d] - read[d]) - delta(d)
    <2>1. /\ reported[d] \in Nat /\ read[d] \in Nat /\ base[d] \in Nat
          /\ reading[d] \in Nat /\ delta(d) \in Nat
      BY <1>1, <1>5 DEF Inv, EnergyTypes
    <2>2. read'[d] = reading[d] /\ base'[d] = base[d]  BY DEF Report
    <2>3. Multiple(before + more)
      <3>1. before \in Int /\ more \in Int  BY <2>1
      <3>2. Multiple(before) /\ Multiple(more)
        BY <1>1, <1>5 DEF Inv, ReportsExact
      <3> HIDE DEF before, more
      <3> QED  BY <3>1, <3>2, MultipleSum
    <2>4. before + more = (read'[d] - base'[d]) - reported'[d]
      BY <2>1, <2>2, <1>2, <1>5
    <2>5. before >= 0 /\ more >= 0
      BY <2>1, <1>1, <1>5 DEF Inv, ReportsExact
    <2>6. d \notin wrapped' => before = 0 /\ more = 0
      BY <2>1, <1>1, <1>5, <1>w DEF Report, Inv, ReportsExact
    <2>7. DOMAIN previous' = Domains  BY DEF Report, NextReading, Inv, EnergyTypes
    <2>8. previous' # <<>>
      <3>1. DOMAIN << >> = {}  OBVIOUS
      <3> QED  BY <2>7, <3>1, <1>5
    <2> HIDE DEF before, more
    <2>9. before \in Int /\ more \in Int  BY <2>1 DEF before, more
    <2>10. reported'[d] \in Nat /\ read'[d] \in Nat /\ base'[d] \in Nat
      BY <1>3, <1>5 DEF EnergyTypes
    <2> QED  BY <2>3, <2>4, <2>5, <2>6, <2>8, <2>9, <2>10
  <1>6. ReportsExact'  BY <1>5 DEF ReportsExact
  <1> QED  BY <1>3, <1>4, <1>6 DEF Inv
(* Steps that read, report and use nothing.                                *)
LEMMA QuietKeepsInv ==
    ASSUME Inv, UNCHANGED <<counters, energy, reading, history>>,
           UNCHANGED previous \/ pc' = "exit", pc = "exit" => pc' = "exit",
           previous = <<>> <=> previous' = <<>>
    PROVE  Inv'
  <1>1. EnergyTypes'  BY DEF Inv, EnergyTypes, history
  <1>2. ReadingsOrdered'  BY DEF Inv, ReadingsOrdered, history
  <1>3. ReportsExact'  BY DEF Inv, ReportsExact, history
  <1> QED  BY <1>1, <1>2, <1>3 DEF Inv

LEMMA InvNext == Inv /\ [Next]_vars => Inv'
  <1> SUFFICES ASSUME Inv, [Next]_vars PROVE Inv'  OBVIOUS
  <1>w. Width \in Nat \ {0}  BY HwtlmAssumption DEF HwtlmAssumption
  <1>1. CASE ReadMSR
    <2>1. PICK d \in left :
              /\ counters' = [counters EXCEPT ![d] = energy[d] % Width]
              /\ reading' = [reading EXCEPT ![d] = energy[d]]
      BY <1>1 DEF ReadMSR
    <2>2. UNCHANGED <<previous, energy, pc, history>>  BY <1>1 DEF ReadMSR
    <2>3. \A x \in Nat : x % Width \in Nat  BY <1>w, Division
    <2>4. EnergyTypes'  BY <2>1, <2>2, <2>3 DEF Inv, EnergyTypes, history
    <2>5. ReadingsOrdered'
      BY <2>1, <2>2 DEF Inv, EnergyTypes, ReadingsOrdered, history
    <2>6. ReportsExact'  BY <2>2 DEF Inv, ReportsExact, history
    <2> QED  BY <2>4, <2>5, <2>6 DEF Inv
  <1>2. CASE Prime
    <2>1. EnergyTypes'  BY <1>2 DEF Prime, NextReading, Inv, EnergyTypes
    <2>2. ReadingsOrdered'
      BY <1>2 DEF Prime, NextReading, Inv, EnergyTypes, ReadingsOrdered
    <2>3. ASSUME NEW d \in Domains
          PROVE  /\ previous' # <<>> /\ reported'[d] = 0
                 /\ reported'[d] = read'[d] - base'[d]
                 /\ Multiple((read'[d] - base'[d]) - reported'[d])
      <3>1. reported'[d] = 0 /\ read'[d] = base'[d] /\ read'[d] \in Nat
        BY <1>2, <2>3 DEF Prime, Inv, ReportsExact, EnergyTypes
      <3>2. (read'[d] - base'[d]) - reported'[d] = Width * 0  BY <3>1, <1>w
      <3>3. DOMAIN previous' = Domains  BY <1>2 DEF Prime, NextReading, Inv, EnergyTypes
      <3>4. DOMAIN << >> = {}  OBVIOUS
      <3>5. previous' # <<>>  BY <3>3, <3>4, <2>3
      <3> QED  BY <3>1, <3>2, <3>5 DEF Multiple
    <2>4. ReportsExact'
      BY <2>3, <2>1 DEF ReportsExact, EnergyTypes
    <2> QED  BY <2>1, <2>2, <2>4 DEF Inv
  <1>3. CASE Sample
    <2>1. CASE Report /\ AfterSample
      BY <1>3, <2>1, ReportKeepsInv DEF Sample, AfterSample, Exit
    <2>2. CASE HandlerStops /\ Exit("success", Shutdown) /\ NextReading /\ UNCHANGED history
      <3>1. pc' = "exit" /\ UNCHANGED <<counters, energy, reading, history>>
        BY <1>3, <2>2 DEF Sample, Exit
      <3>2. EnergyTypes'  BY <3>1 DEF Inv, EnergyTypes, history
      <3>3. ReadingsOrdered'  BY <3>1 DEF Inv, ReadingsOrdered, history
      <3>4. ReportsExact'
        <4>1. ASSUME NEW d \in Domains PROVE previous' # <<>>
          <5>1. DOMAIN previous' = Domains  BY <2>2 DEF NextReading, Inv, EnergyTypes
          <5>2. DOMAIN << >> = {}  OBVIOUS
          <5> QED  BY <5>1, <5>2, <4>1
        <4> QED  BY <4>1, <3>1 DEF Inv, ReportsExact, history
      <3> QED  BY <3>2, <3>3, <3>4 DEF Inv
    <2> QED  BY <1>3, <2>1, <2>2 DEF Sample
  <1>4. CASE ExecReports
    <2>1. CASE previous = <<>>
      BY <1>4, <2>1, QuietKeepsInv DEF ExecReports, history
    <2>2. CASE previous # <<>>
      BY <1>4, <2>2, ReportKeepsInv DEF ExecReports
    <2> QED  BY <2>1, <2>2
  <1>5. CASE Use
    <2>1. PICK d \in Domains : energy' = [energy EXCEPT ![d] = @ + 1]
      BY <1>5 DEF Use
    <2>2. UNCHANGED <<counters, previous, reading, pc, history>>
      BY <1>5 DEF Use, sampler
    <2>3. EnergyTypes'  BY <2>1, <2>2 DEF Inv, EnergyTypes, history
    <2>4. ReadingsOrdered'
      BY <2>1, <2>2 DEF Inv, EnergyTypes, ReadingsOrdered, history
    <2>5. ReportsExact'  BY <2>2 DEF Inv, ReportsExact, history
    <2> QED  BY <2>3, <2>4, <2>5 DEF Inv
  <1>6. CASE Sleep \/ Interrupted \/ EmitSystem \/ WatchFails \/ Signal
    BY <1>6, QuietKeepsInv DEF Sleep, Interrupted, EmitSystem, WatchFails, Signal,
         AfterSample, Exit, sampler
  <1>7. CASE ReadFails \/ ChildEnds
    BY <1>7, QuietKeepsInv DEF ReadFails, ChildEnds, sampler
  <1>8. CASE Exited \/ UNCHANGED vars
    BY <1>8, QuietKeepsInv DEF Exited, vars, sampler
  <1> QED
    BY <1>1, <1>2, <1>3, <1>4, <1>5, <1>6, <1>7, <1>8 DEF Next, Command

(* The energies that watch and exec report add up to the energy each       *)
(* domain used, through any number of roll-overs of the counter and any    *)
(* interleaving of the reads with the hardware, unless a whole Width was   *)
(* used between two readings (RAPLSampler.sampleOnce, raplCounterDelta).   *)
THEOREM EnergyIsAccounted == Spec => []EnergyAccounted
  <1>w. Width \in Nat \ {0}  BY HwtlmAssumption DEF HwtlmAssumption
  <1>1. Inv => EnergyAccounted
    <2> SUFFICES ASSUME Inv, NEW d \in Domains
                 PROVE  /\ reported[d] <= read[d] - base[d]
                        /\ ((read[d] - base[d]) - reported[d]) % Width = 0
                        /\ d \notin wrapped => reported[d] = read[d] - base[d]
      BY DEF EnergyAccounted
    <2>1. PICK q \in Int : (read[d] - base[d]) - reported[d] = Width * q
      BY DEF Inv, ReportsExact, Multiple
    <2>2. (read[d] - base[d]) - reported[d] \in Int  BY DEF Inv, EnergyTypes
    <2>3. ((read[d] - base[d]) - reported[d]) % Width = 0
      BY <2>1, <2>2, <1>w, MultipleMod
    <2> QED  BY <2>3 DEF Inv, ReportsExact
  <1> QED  BY <1>1, InvInit, InvNext, PTL DEF Spec
=============================================================================
