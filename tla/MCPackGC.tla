------------------------------ MODULE MCPackGC ------------------------------
(***************************************************************************)
(* PackGC for TLC: the constants a configuration file cannot spell, and a  *)
(* repository that is already in use.                                      *)
(***************************************************************************)
EXTENDS PackGC, TLC

CONSTANTS OldPack, OldBlob, OldHeld, OldSnapshot

AnyContent == SUBSET Chunk \ {{}}
OtherChunks == {Chunk \ OldSnapshot}
SingleChunks == {{x} : x \in Chunk}
NoOffset == [c \in Client |-> 0]

\* A backup of OldHeld and one of OldSnapshot, a part of it, were made at
\* time 0, and the first of the two snapshots has been forgotten.
OldRepository ==
    /\ stored = [NoObject EXCEPT ![OldPack] = 0, ![OldBlob] = 0]
    /\ mark = NoObject
    /\ holds = [p \in Pack |-> IF p = OldPack THEN OldHeld ELSE {}]
    /\ made = {OldBlob}
    /\ lists = [b \in Blob |-> IF b = OldBlob THEN {OldPack} ELSE {}]
    /\ supersedes = [b \in Blob |-> {}]
    /\ snaps = {OldSnapshot}
    /\ Quiet
UsedInit ==
    now = PruneGrace /\ OldRepository /\ parity = (IF Parity THEN {OldPack} ELSE {})

UsedSpec == UsedInit /\ [][Next]_vars

Symmetry == Permutations(Blob \ {OldBlob})
=============================================================================
