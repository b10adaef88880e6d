----------------------------- MODULE MCHandles -----------------------------
EXTENDS Handles

MCPinned == {k \in Kind : k.pinned}
MCStreamer == {DataStreamer}

\* Pairs of kinds that differ in how they are closed or read.
MCPrograms == {{scan_query, sql_query}, {SetCursor, DataStreamer},
               {ContinuousQueryCursor, ComputeTask}}
MCStreamers == {MCStreamer}

\* Handles and addresses are interchangeable: the run checks invariants only.
HandleSymmetry == Permutations(Handle) \cup Permutations(Addr)
============================================================================
