--------------------------- MODULE MCGeyserStream ---------------------------
(***************************************************************************)
(* GeyserStream with each source; the mock serves the indexer's request, a *)
(* request for everything, and an empty one.                               *)
(***************************************************************************)
EXTENDS GeyserStream

MCEnvironments ==
    [kind : {"unset", "mock", "yellowstone", "other"}, endpoint : BOOLEAN]

NoBytes == [offset |-> 0, bytes |-> <<>>]

\* A size and two comparisons that overlap; a comparison alone, past the data.
Sized ==
    [name |-> "sized", account |-> {"key", Malformed}, owner |-> {},
     filters |-> <<[datasize |-> 4, memcmp |-> NoBytes],
                   [datasize |-> NoSize, memcmp |-> [offset |-> 0, bytes |-> <<"a", "b">>]],
                   [datasize |-> NoSize, memcmp |-> [offset |-> 1, bytes |-> <<"b", "c">>]]>>]

Unsized ==
    [name |-> "unsized", account |-> {}, owner |-> {"program"},
     filters |-> <<[datasize |-> NoSize, memcmp |-> [offset |-> 1, bytes |-> <<"d">>]]>>]

Everything ==
    [transactions |-> <<"flowback", "tx">>, transactionsStatus |-> <<"status">>,
     accounts |-> <<Sized, Unsized>>, blocks |-> <<"block">>, blocksMeta |-> <<"meta">>,
     slots |-> <<"slot">>]

Nothing ==
    [transactions |-> <<>>, transactionsStatus |-> <<>>, accounts |-> <<>>,
     blocks |-> <<>>, blocksMeta |-> <<>>, slots |-> <<>>]

MCRequests == {ProgramTxRequest, Everything, Nothing}
MCRandomSizes == {0, 2}
MCRandomBids == {7}
=============================================================================
