--------------------------- MODULE MCAgentEnrolment ---------------------------
(***************************************************************************)
(* Small enrolments for TLC.  A word has 256 values, a second is 4 units   *)
(* and the limit is 2 seconds: 1 and 2 are within it, 3 is beyond, 40      *)
(* wraps around to a negative duration and 65 to one second.               *)
(***************************************************************************)
EXTENDS AgentEnrolment, TLC

Root == [actor |-> 1, type |-> "human", tier |-> 3,
         delegated |-> FALSE, environments |-> {}]
Lead == [actor |-> 2, type |-> "human", tier |-> 2,
         delegated |-> TRUE, environments |-> {"e1", "e2"}]
LeadNarrowed == [Lead EXCEPT !.environments = {"e1"}]
LeadLowered == [Lead EXCEPT !.tier = 1]

Body(tier, environments, ttlSeconds, key) ==
  [tier |-> tier, environments |-> environments, ttlSeconds |-> ttlSeconds, key |-> key]

(* Two orders with one key by a caller whose authority shrinks; bodies with *)
(* any ttl and with repeated or unknown environments, by root and Lead.     *)
Enrolling == {Root, Lead, LeadNarrowed, LeadLowered}

Bodies ==
  {Body(2, <<"e2", "e1">>, 1, "k"), Body(1, <<"e1">>, 2, "k")}
    \cup {Body(3, <<>>, t, NULL) : t \in {3, 40, 65}}
    \cup {Body(2, envs, 2, "k") : envs \in {<<"e1", "e1">>, <<"e3">>}}

(* Requests are interchangeable.                                          *)
Symmetric == Permutations(Requests)
===============================================================================
