-------------------------- MODULE MCKnowledgeIndex --------------------------
(* Two texts, two requests of every kind, model values.                    *)
EXTENDS KnowledgeIndex, TLC

Symmetry == Permutations(Contents) \cup Permutations(Uploads)
              \cup Permutations(Rebuilders)
=============================================================================
