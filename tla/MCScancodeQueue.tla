--------------------------- MODULE MCScancodeQueue ---------------------------
EXTENDS ScancodeQueue

CONSTANTS a, b, none

MCCode == {a, b}
MCNone == none

=============================================================================
