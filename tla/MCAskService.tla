---------------------------- MODULE MCAskService ----------------------------
(* Instances of AskService for TLC.  Ids are interchangeable: the safety     *)
(* runs take the orbits of tickets, handlers and readers as one state.       *)
EXTENDS AskService, TLC

Symmetry == UNION {Permutations(S) : S \in {Oids, Cids, Tids, Handlers, Readers}}

=============================================================================
