--------------------------------- MODULE Hwtlm ---------------------------------
(***************************************************************************)
(* hwtlm: the RAPL sampler (RAPLSampler.swift) under `hwtlm watch` and     *)
(* `hwtlm exec`.                                                           *)
(*                                                                         *)
(* The hardware is external: the energy of a domain only grows and its     *)
(* counter shows it modulo Width, 2^32 in the code.  The domains are read  *)
(* one after the other, and any read can fail.  Energy is counted in units *)
(* of the counter; temperatures and frequencies are left out.              *)
(***************************************************************************)
EXTENDS Integers, FiniteSets

CONSTANTS
    Domains,    \* RAPL domains
    Width,      \* 2^32
    MaxEnergy,  \* bound: energy of a domain
    MaxTime     \* bound: time, in sampling intervals

ASSUME HwtlmAssumption ==
    /\ Width \in Nat \ {0} /\ MaxEnergy \in Nat /\ MaxTime \in Nat \ {0}
    /\ IsFiniteSet(Domains)

VARIABLES
    cmd,        \* "watch" or "exec"
    rapl,       \* RAPLSampler.init? succeeded
    deadline,   \* time at which watch stops, or -1
    exporter,   \* "none", "open" or "shut"
    pc,         \* where the command is
    left,       \* domains of this reading still to be read
    counters,   \* values read
    previous,   \* values of the last reading, or <<>>
    signalled,  \* signalReceived
    now,        \* time
    code,       \* exit code: "success", "failure" or "child"
    energy,     \* energy used so far (hardware)
    reading,    \* energy when each domain was last read
    read,       \*   and when it was read for the last report
    base,       \* energy when each domain was first read
    reported,   \* sum of the energies reported
    wrapped     \* domains that used Width or more between two readings

config   == <<cmd, rapl, deadline>>
sampler  == <<left, counters, previous>>
history  == <<read, base, reported, wrapped>>
vars     == <<config, exporter, pc, sampler, signalled, now, code, energy,
              reading, history>>

Zero == [d \in Domains |-> 0]

(* Mutant: the counter is taken to roll over one unit early.               *)
raplDeltaEarly(cur, prev) == IF cur >= prev THEN cur - prev ELSE (Width - 1 - prev) + cur

raplCounterDelta(cur, prev) == IF cur >= prev THEN cur - prev ELSE (Width - prev) + cur

Init ==
    /\ cmd \in {"watch", "exec"} /\ rapl \in BOOLEAN
    /\ deadline \in IF cmd = "watch" THEN {-1} \cup 1..MaxTime ELSE {-1}
    /\ exporter \in IF cmd = "watch" THEN {"none", "open"} ELSE {"none"}
    /\ pc = IF rapl THEN "read" ELSE IF cmd = "watch" THEN "sleep" ELSE "child"
    /\ left = Domains /\ counters = Zero /\ previous = <<>>
    /\ signalled = FALSE /\ now = 0 /\ code = "success"
    /\ energy \in [Domains -> 0..(Width - 1)]
    /\ reading = Zero /\ read = Zero /\ base = Zero /\ reported = Zero
    /\ wrapped = {}

-----------------------------------------------------------------------------
(* The environment.                                                        *)

(* A domain uses energy.                                                   *)
Use ==
    /\ pc # "exit"
    /\ \E d \in Domains :
          energy[d] < MaxEnergy /\ energy' = [energy EXCEPT ![d] = @ + 1]
    /\ UNCHANGED <<config, exporter, pc, sampler, signalled, now, code, reading, history>>

(* SIGINT or SIGTERM: watch installs a handler that only sets the flag.    *)
Signal ==
    /\ cmd = "watch" /\ pc # "exit"
    /\ ~signalled /\ signalled' = TRUE
    /\ UNCHANGED <<config, exporter, pc, sampler, now, code, energy, reading, history>>

-----------------------------------------------------------------------------
(* RAPLSampler.                                                            *)

(* readCounters, one domain.                                               *)
ReadMSR ==
    /\ pc = "read"
    /\ \E d \in left :
          /\ left' = left \ {d}
          /\ counters' = [counters EXCEPT ![d] = energy[d] % Width]
          /\ reading' = [reading EXCEPT ![d] = energy[d]]
    /\ UNCHANGED <<config, exporter, pc, previous, signalled, now, code, energy, history>>

(* A reading is complete: the next one is compared with it.                *)
NextReading ==
    /\ left' = Domains
    /\ previous' = counters

(* sampleOnce when it is the first: it primes the sampler.                 *)
Prime ==
    /\ pc = "read" /\ left = {} /\ previous = <<>> /\ now = 0
    /\ NextReading
    /\ base' = reading /\ read' = reading
    /\ pc' = IF cmd = "watch" THEN "sleep" ELSE "child"
    /\ UNCHANGED <<config, exporter, counters, signalled, now, code, energy, reading,
                   reported, wrapped>>

(* The energies of a snapshot are added up as they are reported.           *)
Report ==
    /\ reported' = [d \in Domains |-> reported[d] + raplCounterDelta(counters[d], previous[d])]
    /\ wrapped' = wrapped \cup {d \in Domains : reading[d] - read[d] >= Width}
    /\ read' = reading
    /\ NextReading
    /\ UNCHANGED base

-----------------------------------------------------------------------------
(* hwtlm watch.                                                            *)

(* Mutant: a signal is only noticed without RAPL.                          *)
HandlerStopsDeaf == ~rapl /\ signalled

(* The handler of a sample throws when the flag is set.                    *)
HandlerStops == signalled

Shutdown == IF exporter = "open" THEN "shut" ELSE exporter

Exit(c, e) == pc' = "exit" /\ code' = c /\ exporter' = e

(* After a sample, the deadline: the loop goes on or ends.                 *)
AfterSample ==
    IF deadline # -1 /\ now >= deadline THEN Exit("success", Shutdown)
    ELSE pc' = "sleep" /\ UNCHANGED <<code, exporter>>

(* The sleep of an interval; a signal ends it early.                       *)
Sleep ==
    /\ pc = "sleep"
    /\ now' = IF now < MaxTime THEN now + 1 ELSE now
    /\ pc' = IF rapl THEN "read" ELSE "emit"
    /\ UNCHANGED <<config, exporter, sampler, signalled, code, energy, reading, history>>

Interrupted ==
    /\ pc = "sleep" /\ signalled
    /\ pc' = IF rapl THEN "read" ELSE "emit"
    /\ UNCHANGED <<config, exporter, sampler, signalled, now, code, energy, reading, history>>

(* With RAPL: sampleOnce returns a snapshot and the handler emits it.      *)
Sample ==
    /\ cmd = "watch" /\ pc = "read" /\ left = {} /\ previous # <<>>
    /\ \/ /\ HandlerStops
          /\ Exit("success", Shutdown)
          /\ NextReading
          /\ UNCHANGED history
       \/ /\ ~HandlerStops
          /\ AfterSample
          /\ Report
    /\ UNCHANGED <<config, counters, signalled, now, energy, reading>>

(* Without RAPL there is nothing but temperatures to emit.                 *)
EmitSystem ==
    /\ pc = "emit"
    /\ \/ HandlerStops /\ Exit("success", Shutdown)
       \/ ~HandlerStops /\ AfterSample
    /\ UNCHANGED <<config, sampler, signalled, now, energy, reading, history>>

(* A read fails, or the exporter cannot take a sample: the loop ends.      *)
WatchFails ==
    /\ cmd = "watch"
    /\ \/ pc = "read" /\ left # {}
       \/ /\ exporter = "open" /\ ~HandlerStops
          /\ pc = "emit" \/ (pc = "read" /\ left = {} /\ previous # <<>>)
    /\ Exit("failure", Shutdown)
    /\ UNCHANGED <<config, sampler, signalled, now, energy, reading, history>>

-----------------------------------------------------------------------------
(* hwtlm exec.                                                             *)

(* A reading that fails is dropped, before the command and after it.       *)
ReadFails ==
    /\ cmd = "exec" /\ pc = "read" /\ left # {}
    /\ IF previous = <<>> /\ now = 0 THEN pc' = "child" /\ UNCHANGED code
       ELSE pc' = "exit" /\ code' = "child"
    /\ UNCHANGED <<config, exporter, sampler, signalled, now, energy, reading, history>>

(* The child ends; its code is the command's.                              *)
ChildEnds ==
    /\ pc = "child"
    /\ now' = now + 1
    /\ IF rapl THEN pc' = "read" /\ left' = Domains /\ UNCHANGED code
       ELSE pc' = "exit" /\ code' = "child" /\ UNCHANGED left
    /\ UNCHANGED <<config, exporter, counters, previous, signalled, energy, reading, history>>

(* The second reading: energies are reported when both succeeded.          *)
ExecReports ==
    /\ cmd = "exec" /\ pc = "read" /\ left = {} /\ now > 0
    /\ IF previous = <<>> THEN UNCHANGED <<left, previous, history>> ELSE Report
    /\ pc' = "exit" /\ code' = "child"
    /\ UNCHANGED <<config, exporter, counters, signalled, now, energy, reading>>

Exited == pc = "exit" /\ UNCHANGED vars

Command == \/ ReadMSR \/ Prime \/ Sleep \/ Interrupted \/ Sample \/ EmitSystem
           \/ WatchFails \/ ReadFails \/ ChildEnds \/ ExecReports

Next == Command \/ Use \/ Signal \/ Exited

(* The command runs whenever it can; a sleep ends.                         *)
Spec == Init /\ [][Next]_vars /\ WF_vars(Command)

-----------------------------------------------------------------------------
(* Properties.                                                             *)

(* The energies reported add up to the energy each domain used between its *)
(* first reading and the last report, across any number of roll-overs of   *)
(* the counter; a multiple of Width is missing only when a domain used     *)
(* that much between two readings.                                         *)
EnergyAccounted ==
    previous # <<>> =>
      \A d \in Domains :
        LET used == read[d] - base[d]
        IN  /\ reported[d] <= used /\ (used - reported[d]) % Width = 0
            /\ d \notin wrapped => reported[d] = used

(* Watch ends after a signal and at its deadline; and whenever it ends,    *)
(* after a failed read or a failed export too, the exporter it started is  *)
(* shut down.                                                              *)
WatchEnds ==
    cmd = "watch" /\ (signalled \/ deadline # -1 \/ pc = "exit")
      ~> pc = "exit" /\ exporter # "open"
=============================================================================
