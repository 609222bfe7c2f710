------------------------------ MODULE MCCatalog -------------------------------
(***************************************************************************)
(* Small catalogs for TLC: one actor of each tier.                         *)
(***************************************************************************)
EXTENDS Catalog, TLC

OneOfEach ==
  [reader |-> TierReadOnly, agent |-> TierHumanInTheLoop, lead |-> TierAutonomous]

LeadAlone == [lead |-> TierAutonomous]

(* With two milliseconds in a minute: -1, which is refused, 1, and 8, which *)
(* is too large for a word of sixteen values.                               *)
EnteredRates == {-2, 2, 17}

(* Runs are interchangeable. *)
Interchangeable == Permutations(Runs)
===============================================================================
