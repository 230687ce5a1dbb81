--------------------------- MODULE MCWorkerMemory ---------------------------
(* WorkerMemory with the symmetry of its workers, tokens, keys and requests. *)
EXTENDS WorkerMemory, TLC

Symmetry ==
  Permutations(Workers) \cup Permutations(Tokens)
    \cup Permutations(Keys) \cup Permutations(Requests)

=============================================================================
