----------------------------- MODULE MCTraceMap -----------------------------
(* Two branches, a map of four bytes of two bits, and two runs of up to     *)
(* four branches, enough for a counter to wrap (hash 0).  HashPc            *)
(* gives one direction of each branch the same hash, so both meet in one    *)
(* byte, and ContextHash has collisions too.                                *)
EXTENDS TraceMap

MCPc == 1..2
MCHashPc == [b \in MCPc \X BOOLEAN |-> IF b[2] THEN b[1] - 1 ELSE 3]
MCContextHash == [p \in Index \X Index |-> (3 * p[1] + p[2]) % (MapSize * CharBit)]
=============================================================================
