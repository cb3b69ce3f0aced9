------------------------------ MODULE MCEflags ------------------------------
(* All kinds of operations, with all conditions or all but JZ.  From the     *)
(* fourth operation on they are rotations with a few others between them, so *)
(* that old writers stay in the ring while it goes round.                    *)
EXTENDS Eflags

MCAllKinds == OpKind
MCAllJcc == JccKind
MCJccNotZ == JccKind \ {"Z"}

MCShort == 3
MCOthers == 2

MCRing ==
    LET others == {s \in Slot : opKinds[s] \notin {NoKind, "ROR"}}
    IN  \/ sets <= MCShort
        \/ /\ Cardinality(others) <= MCOthers
           /\ \A s \in others : opKinds[s] \in {"ADD", "INC"}
=============================================================================
