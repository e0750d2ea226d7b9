---------------------------- MODULE MCApplication ---------------------------
EXTENDS Application

CONSTANTS u1, u2, u3, u4

Alone(c, b) == [collectors |-> {c}, board |-> b, keys |-> c \in DomePowered, stream |-> FALSE, callers |-> {}]

\* Each collector by itself -- the one that reads pages meets several lists -- a stream by
\* itself, and a collector next to a stream (kalshi_collector, whose policy and client are
\* dome_market_collector's: it is not looked at alone as well).
MCDeployments ==
    {Alone(c, <<u1, u2>>) : c \in Collecting \ {"kalshi_collector"}}
    \cup {Alone("sports_collector", b) : b \in {<<u1, u2, u3>>, <<u1, u2, u3, u4>>}}
    \cup {[collectors |-> {}, board |-> <<>>, keys |-> TRUE, stream |-> TRUE, callers |-> Payload],
          [collectors |-> {"kalshi_collector"}, board |-> <<u1>>, keys |-> TRUE, stream |-> TRUE, callers |-> {}]}
=============================================================================
