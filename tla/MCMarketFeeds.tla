--------------------------- MODULE MCMarketFeeds ---------------------------
(* A small instance of MarketFeeds: days of two ticks, two chunks. *)
EXTENDS MarketFeeds, TLC

CONSTANTS q1, q2

TwoRequests == {q1, q2}
\* Different feeds share no key of the cache.
OneFeed == {[r \in TwoRequests |-> f] : f \in Feeds}
\* One detail that may fail and one that must not.
TwoDetails == {"commits", "package"}
FirstOnly == {1}
Symmetry == Permutations(TwoRequests)
=============================================================================
