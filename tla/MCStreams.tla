----------------------------- MODULE MCStreams ------------------------------
(***************************************************************************)
(* Small instances of Streams.  Every client has the types it works with,  *)
(* the build it runs in and a small budget of steps.                       *)
(***************************************************************************)
EXTENDS Streams

Leaf(class, bits, clocked) ==
    [class |-> class, bits |-> bits, clocked |-> clocked,
     names |-> <<>>, members |-> <<>>, element |-> "none"]
Compound(class, names, members, element) ==
    [class |-> class, bits |-> 0, clocked |-> FALSE,
     names |-> names, members |-> members, element |-> element]

Described ==
    [nibble |-> Leaf("integer", 4, FALSE),
     seven |-> Leaf("integer", 7, FALSE),
     byte |-> Leaf("integer", 8, FALSE),
     word |-> Leaf("integer", WordBits, FALSE),
     time |-> Leaf("integer", WordBits, TRUE),
     tick |-> Leaf("integer", 1, TRUE),
     text |-> Leaf("string", 8, FALSE),
     enum |-> Compound("enumeration", <<>>, <<"nibble">>, "none"),
     ticks |-> Compound("sequence", <<>>, <<>>, "tick"),
     lists |-> Compound("sequence", <<>>, <<>>, "ticks"),
     nibbles |-> Compound("array", <<>>, <<"nibble", "nibble">>, "none"),
     either |-> Compound("variant", <<"a", "b">>, <<"time", "text">>, "none"),
     packetHeader |-> Compound("structure", <<"magic", "stream_id">>, <<"word", "byte">>, "none"),
     idHeader |-> Compound("structure", <<"stream_id">>, <<"byte">>, "none"),
     full |-> Compound("structure",
                  <<"timestamp_begin", "timestamp_end", "packet_size", "content_size", "events_discarded">>,
                  <<"time", "time", "word", "word", "word">>, "none"),
     closing |-> Compound("structure", <<"packet_size", "timestamp_end">>, <<"word", "time">>, "none"),
     sizeOnly |-> Compound("structure", <<"packet_size">>, <<"word">>, "none"),
     marked |-> Compound("structure",
                  <<"mark", "packet_size", "content_size">>, <<"time", "word", "word">>, "none"),
     padded |-> Compound("structure", <<"id", "timestamp", "rest">>, <<"byte", "time", "seven">>, "none"),
     header |-> Compound("structure", <<"id", "timestamp">>, <<"byte", "time">>, "none"),
     named |-> Compound("structure", <<"id", "timestamp">>, <<"enum", "time">>, "none"),
     bare |-> Compound("structure", <<"timestamp">>, <<"time">>, "none"),
     empty |-> Compound("structure", <<>>, <<>>, "none"),
     compact |-> Compound("structure", <<"id", "timestamp">>, <<"nibble", "tick">>, "none"),
     number |-> Compound("structure", <<"n">>, <<"nibble">>, "none"),
     listed |-> Compound("structure", <<"list">>, <<"ticks">>, "none"),
     nested |-> Compound("structure", <<"lists">>, <<"lists">>, "none"),
     chosen |-> Compound("structure", <<"tag", "choice">>, <<"enum", "either">>, "none"),
     pair |-> Compound("structure", <<"pair">>, <<"nibbles">>, "none")]

Types(packetHeader, packetContext, eventHeader, context, clocked, payloads) ==
    [packetHeader |-> packetHeader, packetContext |-> packetContext,
     eventHeader |-> eventHeader, streamContext |-> "none", eventContext |-> context,
     clocked |-> clocked, payloads |-> payloads]

May(streams, events, puts, edits, ticks, flushes, faults) ==
    [streams |-> streams, events |-> events, puts |-> puts, edits |-> edits, ticks |-> ticks,
     flushes |-> flushes, faults |-> faults]

Client(builds, types, steps) ==
    {[dev |-> b, layout |-> types, budget |-> steps] : b \in builds}

(* A field has five members at most; the first two have two parts, and *)
(* the first of these has one.                                          *)
Ordered ==
    <<<<>>, <<1>>, <<1, 1>>, <<1, 1, 1>>, <<1, 2>>, <<2>>, <<2, 1>>, <<2, 2>>, <<3>>, <<4>>, <<5>>>>

(* TLC keeps the values of definitions, but not those of constants. *)
MCShape == Described
MCOrder == Ordered

Both == {TRUE, FALSE}

MCClients ==
    \* times: what the clock and the client tell
    Client({TRUE}, Types("none", "full", "header", "none", TRUE, <<"empty">>), May(1, 2, 0, 1, 1, 2, 0))
    \* times that no packet context can say, and times that the packet context tells
    \cup Client(Both, Types("none", "none", "padded", "none", TRUE, <<"empty">>), May(1, 1, 0, 1, 1, 1, 0))
    \cup Client(Both, Types("none", "marked", "header", "none", TRUE, <<"empty">>), May(1, 1, 0, 2, 2, 2, 0))
    \* flushes that fail
    \cup Client({FALSE}, Types("packetHeader", "full", "header", "none", TRUE, <<"number">>), May(1, 2, 1, 0, 0, 2, 1))
    \cup Client({FALSE}, Types("none", "full", "header", "none", TRUE, <<"empty">>), May(1, 1, 0, 0, 2, 3, 1))
    \* headers without an integer for the id of the event class
    \cup Client({FALSE}, Types("none", "full", "named", "none", TRUE, <<"empty">>), May(1, 1, 0, 1, 2, 2, 0))
    \cup Client(Both, Types("none", "full", "bare", "none", TRUE, <<"empty">>), May(1, 1, 0, 1, 1, 1, 0))
    \* no clock value has 64 bits
    \cup Client({FALSE}, Types("none", "full", "compact", "none", TRUE, <<"empty">>), May(1, 1, 0, 0, 4, 4, 0))
    \* sizes that cannot be told; identifiers
    \cup Client({FALSE}, Types("none", "sizeOnly", "none", "none", FALSE, <<"number", "none">>), May(1, 2, 2, 0, 0, 2, 1))
    \cup Client({FALSE}, Types("idHeader", "none", "none", "none", FALSE, <<"number">>), May(3, 2, 1, 0, 0, 2, 1))
    \* counts of discarded events
    \cup Client(Both, Types("none", "full", "none", "none", FALSE, <<"none">>), May(1, 0, 0, 2, 0, 3, 0))
    \* fields of every class
    \cup Client({TRUE}, Types("none", "closing", "none", "none", FALSE, <<"chosen">>), May(1, 1, 1, 3, 0, 1, 0))
    \cup Client({TRUE}, Types("none", "closing", "none", "number", FALSE, <<"listed">>), May(1, 1, 0, 3, 0, 1, 0))
    \cup Client({TRUE}, Types("none", "sizeOnly", "none", "none", FALSE, <<"nested">>), May(1, 1, 0, 4, 0, 1, 0))
    \cup Client({TRUE}, Types("none", "sizeOnly", "none", "none", FALSE, <<"pair">>), May(1, 1, 0, 3, 0, 1, 0))

MCFailSets == {{}, {1}, {5}, {12}}
=============================================================================
