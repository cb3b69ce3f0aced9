--------------------------- MODULE MCAflExecutor ----------------------------
(* Three instances: one file and two edges for what a stop leaves behind,   *)
(* two files and no new inputs for the order of the runs and the reports of *)
(* crashes, and the real timeouts.                                          *)
EXTENDS AflExecutor

MCFile == 1..1
MCFiles == 1..2
MCEdge == 1..2

(* An input that covers a part of what another covers, and a crash. *)
MCTest == {[cov |-> {1}, crash |-> FALSE], [cov |-> {1, 2}, crash |-> FALSE],
           [cov |-> {1}, crash |-> TRUE]}
=============================================================================
