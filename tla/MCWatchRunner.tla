---------------------------- MODULE MCWatchRunner -----------------------------
(* Small instances of WatchRunner: command lines, profiles, aggregations.  *)
EXTENDS WatchRunner

Structured(stack, ustack) ==
    [backend |-> "structured", withStack |-> stack, withUstack |-> ustack]

(* Text output, and structured output without --with-ustack on its own.    *)
MarkedOptions ==
    {[backend |-> "text", withStack |-> FALSE, withUstack |-> FALSE]}
        \cup {Structured(stack, ustack) : <<stack, ustack>> \in
                  {<<FALSE, FALSE>>, <<TRUE, FALSE>>, <<TRUE, TRUE>>}}

BothStacks == {Structured(TRUE, TRUE)}
UserStack  == {Structured(FALSE, TRUE)}

Clause(bodies, kframes, uframes) ==
    [bodies |-> bodies, kernel |-> kframes, user |-> uframes]

(* Clauses that print: with both stacks, two lines without any, and with   *)
(* the user stack of a clause that has no kernel marker.                   *)
PrintingClauses == {Clause(1, 1, 2), Clause(2, 0, 0), Clause(1, 0, 1)}
OneClause       == {Clause(1, 1, 1)}

Aggregations == {<<"a", "count">>, <<"a", "max">>}
NoAggregations == {}
=============================================================================
