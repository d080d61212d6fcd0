----------------------------- MODULE MCArchive ------------------------------
(* One conversation, one name that resolves to it, a message that grows    *)
(* old and an undated one, which an earlier build may have read.           *)
EXTENDS ArchiveSystem

CONSTANTS group, name, aged, undated

MCDateOf == [k \in {aged, undated} |-> IF k = aged THEN 0 ELSE Undated]
MCHomeOf == [n \in {name} |-> group]
MCPolicies ==
  {[messages |-> 1, transcripts |-> NoWindow, retracted |-> NoWindow],
   [messages |-> NoWindow, transcripts |-> 0, retracted |-> 0],
   [messages |-> 1, transcripts |-> 0, retracted |-> 1]}
=============================================================================
