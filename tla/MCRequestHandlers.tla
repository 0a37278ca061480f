------------------------- MODULE MCRequestHandlers --------------------------
(***************************************************************************)
(* Instance of RequestHandlers for TLC: one gauge, one counter.            *)
(***************************************************************************)
EXTENDS RequestHandlers, TLC

CONSTANTS g, c, h1, h2

\* The handlers run the same code.
MCSymmetry == Permutations(Handlers)

MCNumbers == -1..2

MCUpdate(v, d) ==
    [set |-> [n \in GaugeNames |-> v], add |-> [n \in CounterNames |-> d], malformed |-> FALSE]

MCRequest(k, t, v, d) ==
    [kind |-> k, type |-> t, name |-> IF t = "gauge" THEN g ELSE c, update |-> MCUpdate(v, d)]

MCRead(k, t) ==
    [kind |-> k, type |-> t, name |-> IF t = "gauge" THEN g ELSE c, update |-> NoUpdate]

MCRequests ==
    {MCRequest("path", "gauge", -1, 0), MCRequest("path", "gauge", NaN, 0),
     MCRequest("json", "counter", Absent, 1),
     MCRequest("batch", "counter", 2, 1),
     MCRead("lookup", "gauge"), MCRead("page", "counter"), MCRead("ping", "counter")}

MCMode(b, s, ls) == [backend |-> b, saves |-> s, listeners |-> ls]

\* Both listeners, a database with the audit file, the synchronous mode.
MCModes ==
    {MCMode("memory", FALSE, <<"file", "url">>), MCMode("database", FALSE, <<"file">>),
     MCMode("memory", TRUE, <<>>)}
=============================================================================
