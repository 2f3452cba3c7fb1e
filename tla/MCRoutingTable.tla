--------------------------- MODULE MCRoutingTable ---------------------------
EXTENDS RoutingTableCalls

\* Three ids, two of which share a slot, and one that is not an id.
SomeIds == 0..3
AnyHeap == {-1, 0}
=============================================================================
