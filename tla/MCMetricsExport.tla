--------------------------- MODULE MCMetricsExport ---------------------------
(* TLC instances of MetricsExport: answers with names that need quotes, and  *)
(* answers with figures that compare in every way.                           *)
EXTENDS MetricsExport

A == 4
B == 5
TransportSuffixes == {<<"http">>, <<"ws">>, <<>>}

Provider(name, latency, calls, tail) ==
  [name |-> name, latency |-> latency, calls |-> calls, tail |-> tail]
Entry(name, suffix, providers) == [name |-> name, suffix |-> suffix, providers |-> providers]

Plain == {Provider(name, 10, 1, 2) : name \in {<<A>>, <<A, Comma>>, <<Quote, B>>, <<Newline>>}}
Named ==
  {Entry(name, suffix, providers) :
     name \in {<<A>>, <<B, Quote>>}, suffix \in TransportSuffixes,
     providers \in {<<>>} \cup {<<p>> : p \in Plain} \cup {<<p, q>> : p, q \in Plain}}

Measures(name) ==
  {Provider(name, latency, calls, tail) : latency \in {10, 30}, calls \in {1, 10}, tail \in {2, 4}}
Measured(method) ==
  {Entry(method, <<"ws">>, <<p, q>>) : p \in Measures(<<A>>), q \in Measures(<<B>>)}

MCAnswers ==
  {<<>>} \cup {<<e>> : e \in Named}
    \cup {<<e, f>> : e \in {n \in Named : Len(n.providers) = 2}, f \in {n \in Named : Len(n.providers) = 1}}
    \cup {<<e, f>> : e \in Measured(<<A>>), f \in Measured(<<B>>)}
=============================================================================
