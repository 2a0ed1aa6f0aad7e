------------------------------ MODULE MCOneCall ------------------------------
(* Scenarios and clock readings for module OneCall.                         *)
EXTENDS OneCall

Readings(n) == [sec : 1..n, ns : {0, 500000000, 999999999}]
MCClock == Readings(5)

IntV(n) == [type |-> "int", val |-> n]
StrV(s) == [type |-> "string", val |-> s]
Hello == StrV(<<104, 105>>)
Long  == StrV([i \in 1..40 |-> 120])      \* longer than the buffer so far
Vec(s) == [type |-> "vector", val |-> s]
Small(t, n) == [type |-> t, val |-> n]
Wide(n) == [type |-> "ull", val |-> [hi |-> 1, lo |-> n]]
Sig(args) == [i \in DOMAIN args |-> args[i].type]

Scenario(args, to, sig, res, rtype, prior) ==
  [args |-> args, to |-> to, sig |-> sig, b |-> 0, res |-> res,
   rtype |-> rtype, prior |-> prior]

\* A call both sides agree on.
Agreed(args, res, prior) == Scenario(args, 1000, Sig(args), res, res.type, prior)

Mixed == <<Small("bool", 1), Small("char", 77), Small("short", 300),
           Wide(5), Hello, Vec(<<4, 9>>)>>

\* What simple_tests of rpctest.cc does, and the types that the lock service
\* and the marshalling test use.
TypedScenarios ==
  {Agreed(<<Hello, Hello>>, Hello, <<>>),
   Agreed(<<Long, Hello>>, Long, <<>>),
   Agreed(<<IntV(70000), Wide(9)>>, Long, <<120>>),
   Agreed(Mixed, Small("bool", 1), 0),
   Agreed(<<IntV(-70000)>>, Vec(<<5, -6>>), <<8>>),
   Agreed(<<>>, Wide(3), [hi |-> 0, lo |-> 0]),
   \* too few arguments, too many, of the wrong type
   Scenario(<<Hello>>, 1000, <<"string", "string">>, Hello, "string", <<>>),
   Scenario(<<IntV(1001), IntV(1002)>>, 1000, <<"int">>, IntV(1002), "string", <<>>),
   Scenario(<<Hello, Hello>>, 1000, <<"int">>, IntV(1), "int", 0),
   Scenario(<<Vec(<<1>>)>>, 1000, <<"string">>, IntV(1), "int", 0),
   Scenario(<<IntV(3)>>, 1000, <<"bool", "short", "char">>, IntV(1), "int", 0),
   \* a size that wraps around, and one that is only too large
   Scenario(<<IntV(-16)>>, 1000, <<"string">>, IntV(1), "int", 0),
   Scenario(<<IntV(-32)>>, 1000, <<"string">>, IntV(1), "int", 0),
   Scenario(<<IntV(23)>>, 1000, <<"int">>, IntV(-16), "string", <<>>),
   \* a result read as another type
   Scenario(<<IntV(23)>>, 1000, <<"int">>, Hello, "int", 0),
   Scenario(<<IntV(23)>>, 1000, <<"int">>, IntV(7), "string", <<>>),
   Scenario(<<IntV(23)>>, 1000, <<"int">>, IntV(1), "vector", <<8>>)}

TimedScenarios ==
  {Scenario(<<IntV(1)>>, to, <<"int">>, IntV(2), "int", 0) : to \in {0, 999, 2500, 3000}}

MCScenarios == TypedScenarios \cup TimedScenarios
=============================================================================
