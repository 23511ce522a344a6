--------------------------- MODULE MCTransformChain ---------------------------
(***************************************************************************)
(* Chains of every kind, for TLC: each configuration is a different chain. *)
(***************************************************************************)
EXTENDS TransformChain

\* A sink that waits, no other transform; the configurations below change parts of it.
Plain ==
  [count |-> 0, millis |-> FALSE, upper |-> <<>>, denied |-> {"write"}, tail |-> "sink",
   sink |-> "valkey", subSink |-> "valkey", behaviour |-> "ignore", protocol |-> "valkey",
   ordered |-> TRUE, subCount |-> 0, timeout |-> FALSE, switches |-> FALSE, faults |-> FALSE,
   events |-> 0, requests |-> 3, batch |-> 2, kinds |-> {"read"}, contents |-> {"ok"}]

\* The same for another protocol.
PlainOf(protocol) == [Plain EXCEPT !.protocol = protocol, !.sink = protocol, !.subSink = protocol]

Coalescing ==
  {[Plain EXCEPT !.count = 2, !.millis = TRUE, !.faults = TRUE],
   [PlainOf("opensearch") EXCEPT !.millis = TRUE, !.upper = <<"count">>],
   [Plain EXCEPT !.count = 2, !.sink = "later"]}

Refusing ==
  {[Plain EXCEPT !.upper = <<"filter", "count">>, !.kinds = {"read", "write", Malformed}, !.sink = k] :
     k \in {"later", "loopback", "null"}} \cup
  {[PlainOf("kafka") EXCEPT !.upper = u, !.kinds = {"read", Malformed}, !.sink = "null"] :
     u \in {<<>>, <<"filter">>}} \cup
  {[PlainOf("cassandra") EXCEPT !.upper = <<"parse", "throttle", "count">>, !.sink = "later"],
   [PlainOf("cassandra") EXCEPT !.upper = <<"filter", "throttle">>, !.kinds = {"read", "write"}],
   [PlainOf("cassandra") EXCEPT !.upper = <<"throttle", "filter", "encode">>, !.kinds = {"read", "write"}]}

\* FailOnMismatch, for every protocol.
FailOnMismatch ==
  {[PlainOf(p) EXCEPT !.tail = "tee", !.behaviour = "fail", !.sink = "later", !.subSink = "later",
                      !.switches = TRUE, !.requests = 2, !.contents = {"ok", "stale"}, !.events = 1] :
     p \in {"valkey", "cassandra"}} \cup
  {[PlainOf(p) EXCEPT !.tail = "tee", !.behaviour = "fail", !.requests = 2, !.contents = {"ok", "stale"}] :
     p \in {"cassandra", "kafka", "opensearch"}} \cup
  {[Plain EXCEPT !.tail = "tee", !.behaviour = "fail", !.subSink = "returner",
                 !.upper = <<"filter">>, !.kinds = {"read", "write"}, !.requests = 2]}

Teeing ==
  {[PlainOf("kafka") EXCEPT !.tail = "tee", !.behaviour = b, !.switches = TRUE, !.requests = 2,
                            !.contents = {"ok", "brokers"}, !.faults = TRUE] : b \in {"log", "subchain"}} \cup
  {[Plain EXCEPT !.tail = "tee", !.timeout = t, !.switches = TRUE] : t \in BOOLEAN} \cup
  {[Plain EXCEPT !.tail = "tee", !.faults = TRUE, !.switches = TRUE]}

\* A ParallelMap whose chains coalesce.
ParallelCoalescing == [Plain EXCEPT !.tail = "parallel", !.subCount = 2, !.faults = TRUE]

Sharing ==
  {[Plain EXCEPT !.tail = "pool", !.requests = 2, !.faults = f] : f \in BOOLEAN} \cup
  {[Plain EXCEPT !.tail = "parallel"],
   [Plain EXCEPT !.tail = "parallel", !.ordered = FALSE, !.faults = TRUE],
   ParallelCoalescing}

AllChains == Coalescing \cup Refusing \cup FailOnMismatch \cup Teeing \cup Sharing

\* Coalesce above a cluster sink.
CoalesceAboveCluster == {[Plain EXCEPT !.count = 2, !.millis = TRUE, !.sink = "later"]}

\* RequestThrottling above a Cassandra sink.
Throttled == {[PlainOf("cassandra") EXCEPT !.upper = <<"throttle">>]}

\* The chains that do not keep to what the documentation says of transforms.
Undocumented == Throttled \cup FailOnMismatch \cup {ParallelCoalescing}
=============================================================================
