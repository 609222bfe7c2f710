-------------------------------- MODULE Policy --------------------------------
(***************************************************************************)
(* The trust-tier gate: pkg/identity.Tier and policy.Check.  Tiers are the *)
(* integers the database stores; a value outside 1..3 is representable     *)
(* (Tier is an int) and fails closed.                                      *)
(***************************************************************************)
EXTENDS Integers

TierReadOnly == 1
TierHumanInTheLoop == 2
TierAutonomous == 3

Tiers == {TierReadOnly, TierHumanInTheLoop, TierAutonomous}

(* Tier.Valid *)
Valid(tier) == tier >= TierReadOnly /\ tier <= TierAutonomous

Decisions == {"allow", "requires_approval", "deny"}

(* policy.Check *)
Check(tier, mutating) ==
  CASE ~Valid(tier)               -> "deny"
    [] tier = TierReadOnly        -> IF mutating THEN "deny" ELSE "allow"
    [] tier = TierHumanInTheLoop  -> "requires_approval"
    [] tier = TierAutonomous      -> "allow"
===============================================================================
