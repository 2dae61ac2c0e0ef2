-------------------------- MODULE MCMessageActions --------------------------
(* Small instances of MessageActions for TLC. *)
EXTENDS MessageActions, TLC

\* The callers are interchangeable; used where no liveness is checked.
Symmetry == Permutations(Caller)

OneOrNone == {{}, {"MOVE"}, {"UIDPLUS"}}
OldOrNew  == {{}, {"MOVE", "UIDPLUS"}}

\* Two messages share a Message-ID, or one has none.
Shared       == {[m \in Msg |-> 1]}
SharedOrNone == Shared \union {[m \in Msg |-> IF m = 1 THEN NoMsg ELSE m]}

=============================================================================
