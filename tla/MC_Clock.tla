------------------------------- MODULE MC_Clock -------------------------------
EXTENDS ClockAdvance

MCGeometries == [bg : {TRUE}, win : {FALSE}, fine : {0, 1}, wy : {0}]
MCOam == {[l \in DrawnLines |-> 0], [l \in DrawnLines |-> 1]}
===============================================================================
