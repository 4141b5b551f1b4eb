----------------------------- MODULE MCLiveTail ------------------------------
EXTENDS LiveTail, TLC

MCKeys == {"a1", "b1"}
MCLoopOf == "a1" :> "a" @@ "b1" :> "b"

MCEvents ==
  [kind : {"text"}, of : Keys] \cup [kind : {"big"}, of : {"b1"}]
  \cup [kind : {"enduring"}, of : {"a", "all"}]
  \cup [kind : {"tool", "uncommitted"}, of : {"none"}]
==============================================================================
