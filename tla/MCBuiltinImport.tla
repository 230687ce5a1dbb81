--------------------------- MODULE MCBuiltinImport ---------------------------
(* Two bundles: an algorithm with a checkpoint; its next version with a       *)
(* checkpoint trained from the first, and a second algorithm.                 *)
EXTENDS BuiltinImport

CONSTANTS a, b, m1, m2, w, c1, c2, h1, h2

MCAssetsOf == (c1 :> {w}) @@ (c2 :> {w})

MCParentOf == (c1 :> Nothing) @@ (c2 :> c1)

MCContent ==
  (h1 :> (a :> [versions |-> <<{m1}>>, checkpoints |-> <<c1>>]))
  @@ (h2 :> (a :> [versions |-> <<{m1}, {m2, w}>>, checkpoints |-> <<c1, c2>>]
             @@ b :> [versions |-> <<{m1, w}>>, checkpoints |-> <<>>]))

\* As trained: no checkpoint is shared.
ASSUME OwnersAssumption == Owners # {}

=============================================================================
