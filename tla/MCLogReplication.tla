--------------------------- MODULE MCLogReplication ---------------------------
EXTENDS LogReplication

\* A bound for the largest run: states with more messages under way are not explored.
ShortChannel == Len(channel) <= 3

MCCommands == {Put(1, 1), Delete(1)}
===============================================================================
