---------------------------- MODULE MCTraceSession ----------------------------
(* TraceSession on small instances: the command lines each run considers.   *)
EXTENDS TraceSession

Plain == [command |-> "exec", tid |-> 0, all |-> FALSE, requested |-> {},
          pause |-> FALSE, dryrun |-> FALSE, kernel |-> FALSE, timed |-> FALSE,
          maxrecords |-> 0]
Trace == [Plain EXCEPT !.command = "trace"]

Under(bounds, options) == {[opt |-> o, load |-> bounds] : o \in options}

(* Mappings with pauses, limits, kernel tracing and a dry run; threads, all *)
(* of them and some; pages of trace.                                        *)
AllSessions ==
    Under([maps |-> 3, created |-> 0, written |-> 0],
          {[Plain EXCEPT !.pause = TRUE, !.maxrecords = 2],
           [Plain EXCEPT !.dryrun = TRUE],
           [Plain EXCEPT !.timed = TRUE, !.kernel = TRUE],
           [Trace EXCEPT !.pause = TRUE, !.maxrecords = 3]})
    \cup
    Under([maps |-> 2, created |-> 0, written |-> 0], {[Trace EXCEPT !.timed = TRUE]})
    \cup
    Under([maps |-> 1, created |-> 2, written |-> 0],
          {[Plain EXCEPT !.all = TRUE, !.kernel = TRUE],
           [Trace EXCEPT !.requested = {0, 2}]})
    \cup
    Under([maps |-> 0, created |-> 0, written |-> 4], {[Plain EXCEPT !.timed = TRUE]})
    \cup
    Under([maps |-> 0, created |-> 0, written |-> 3], {[Trace EXCEPT !.maxrecords = 3]})

(* Durations and pauses.                                                    *)
LiveSessions ==
    Under([maps |-> 2, created |-> 0, written |-> 0],
          {[Plain EXCEPT !.pause = TRUE, !.timed = TRUE]})
    \cup
    Under([maps |-> 1, created |-> 0, written |-> 0],
          {[Trace EXCEPT !.pause = TRUE, !.timed = TRUE],
           [Trace EXCEPT !.pause = TRUE]})

PausedTrace == Under([maps |-> 1, created |-> 0, written |-> 0],
                     {[Trace EXCEPT !.pause = TRUE]})
=============================================================================
