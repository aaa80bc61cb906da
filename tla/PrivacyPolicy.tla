---------------------------- MODULE PrivacyPolicy ----------------------------
(***************************************************************************)
(* The release floors of mesh_privacy_policy.py: the order of the transport *)
(* tiers, the tier a lane has to reach before its sealed messages may leave *)
(* the node, and the reason the policy gives while a message has to wait.   *)
(* Pure operators.                                                          *)
(***************************************************************************)
EXTENDS Naturals

\* The transport tiers, weakest first (TRANSPORT_TIER_ORDER).
Tier == {"public_degraded", "private_control_only",
         "private_transitional", "private_strong"}

TierRank ==
  [t \in Tier |-> CASE t = "public_degraded"      -> 0
                    [] t = "private_control_only" -> 1
                    [] t = "private_transitional" -> 2
                    [] t = "private_strong"       -> 3]

\* The lanes whose messages go through the private outbox.
Lane == {"dm", "gate"}

\* transport_tier_is_sufficient; both arguments are normalised tiers here.
Sufficient(current, required) == TierRank[current] >= TierRank[required]

\* release_lane_required_tier: a Tor-only node (RNS not enabled) never reaches
\* private_strong, so its DM floor is lowered; gates keep theirs.
RequiredTier(lane, rnsEnabled) ==
  IF lane = "dm" /\ ~rnsEnabled THEN "private_transitional" ELSE "private_strong"

\* The verdict of evaluate_network_release.
Allowed(lane, current, rnsEnabled) ==
  Sufficient(current, RequiredTier(lane, rnsEnabled))

\* The reason evaluate_network_release gives for a refusal, without the lane's
\* prefix: "<lane>_release_waiting_for_<...>".
WaitingFor(lane, current, rnsEnabled) ==
  IF current = "public_degraded" THEN "private_lane"
                                 ELSE RequiredTier(lane, rnsEnabled)
=============================================================================
