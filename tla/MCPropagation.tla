--------------------------- MODULE MCPropagation ---------------------------
(* An instance of Propagation for TLC. *)
EXTENDS Propagation

CONSTANTS k, K, j, empty

LowerCase == (k :> k) @@ (K :> k) @@ (j :> j) @@ (empty :> empty)

\* Texts of up to three of: % 0 f F z, a space and DEL.
Chars == {37, 48, 102, 70, 122, 32, 127}
Texts == UNION {[1 .. n -> Chars] : n \in 0 .. 3}

Context(high, low, span, flags, bs) ==
  [trace_id |-> [high |-> high, low |-> low], span_id |-> span, flags |-> flags,
   buckets |-> bs, jaeger |-> TRUE]

\* Every text as the only item; every id without baggage; two and three items
\* in one bucket and in two, with keys that differ in case; the key ""; not our
\* context.
Space == <<32>>
PercentSign == <<37>>
Arrangements ==
  {<<<<<<k, Space>>>>, <<<<j, PercentSign>>>>>>,
   <<<<<<k, Space>>, <<j, PercentSign>>>>, <<>>>>,
   <<<<<<K, Space>>, <<j, PercentSign>>>>, <<<<k, PercentSign>>>>>>,
   <<<<<<empty, Space>>, <<j, Space>>>>>>}
Contexts ==
  {Context(0, 1, 2, 1, <<<<<<k, t>>>>>>) : t \in Texts}
    \cup {Context(h, l, s, f, <<<<>>, <<>>>>) :
            h \in 0 .. 3, l \in 0 .. 3, s \in 0 .. 3, f \in 0 .. 3}
    \cup {Context(1, 2, 3, 1, bs) : bs \in Arrangements}
    \cup {Context(0, 0, 3, 1, <<<<<<empty, Space>>>>>>)}
    \cup {[Context(1, 1, 1, 1, <<<<>>>>) EXCEPT !.jaeger = FALSE]}
MCSources ==
  [format : {"text_map", "http_headers", "binary"}, context : Contexts]

\* Carriers of other processes.
Delete == <<127>>
ContextHeaders ==
  {ContextHeader(ts) :
     ts \in {<<>>, <<<<1>>>>, <<<<1>>, <<2>>, <<1>>>>, <<<<1>>, <<1, 0>>, <<1>>>>,
             <<<<1>>, <<1>>, <<0>>, <<1>>>>, <<<<1, 1, 1, 1, 1>>, <<1>>, <<1>>>>,
             <<<<1, 0, 1>>, <<1, 0, 0>>, <<1, 0, 0>>>>}}
    \cup {[ContextHeader(<<>>) EXCEPT !.text = Delete]}
MCForeign ==
  [format : TextFormats,
   wire : {<<h>> : h \in ContextHeaders} \cup {<<>>}
          \cup {<<ItemHeader(K, t)>> : t \in Texts}
          \cup {<<ItemHeader(empty, Delete)>>}]
  \cup [format : {"binary"},
        wire : {<<1, 1, 1, 255, n, "fits", k, "fits", Space>> : n \in 0 .. 2}
               \cup {<<1, 1, 1, 1, IntMax + 1>>,
                     <<1, 1, 1, 1, 1, "wraps", k, "fits", Space>>,
                     <<1, 1, 1, 1, 1, "fits", k, "wraps">>}]

MCExtras ==
  {<<>>, <<DebugHeader>>, <<[DebugHeader EXCEPT !.text = Delete]>>,
   <<OtherHeader, DebugHeader>>,
   <<BaggageHeader(<<<<k, Space>>, <<j, Space>>>>)>>,
   <<BaggageHeader(<<<<j, Space>>, <<k, NoValue>>>>)>>}

MCFaultSets == {{}, {"malloc"}, {"write"}, {"cut"}}
====
