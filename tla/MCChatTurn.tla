----------------------------- MODULE MCChatTurn -----------------------------
(* ChatTurn for TLC.  Slots and conversations are interchangeable, so both
   are symmetry sets in the safety runs.                                    *)
EXTENDS ChatTurn, TLC

Symmetry == Permutations(Turns) \cup Permutations(Conversations)
=============================================================================
