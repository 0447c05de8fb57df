--------------------------- MODULE MCSubAgentLoop ---------------------------
EXTENDS SubAgentLoop
CONSTANTS ls, rm

Plain(n) == [name |-> n, command |-> None]
Exec(c) == [name |-> "exec", command |-> c]

\* One call of each kind, pairs in which an approval or a failure matters, and one call too many.
SomeOffers ==
    {<<Plain("read")>>, <<Plain("file_write")>>, <<Plain("unknown")>>, <<Exec(ls)>>, <<Exec(rm)>>,
     <<Plain("read"), Exec(rm)>>, <<Plain("unknown"), Plain("read")>>,
     <<Exec(ls), Plain("file_write"), Exec(rm)>>}
=============================================================================
