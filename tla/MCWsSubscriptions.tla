--------------------------- MODULE MCWsSubscriptions ---------------------------
(* The channels and the messages of the run on the WebSocket feed. *)
EXTENDS WsSubscriptions

\* The pair's first two channels; a third would repeat the second.
MCPairChannels == <<"book", "trades">>

\* A client may ask for a channel twice, send a bad name, or change over.
MCMessages ==
    {[subscribe |-> <<"bad!", "book">>, unsubscribe |-> <<>>],
     [subscribe |-> <<"trades">>, unsubscribe |-> <<"book">>]}
===============================================================================
