------------------------------- MODULE Markets -------------------------------
(***************************************************************************)
(* The settlement of one prediction market (infonet/markets/resolution.py): *)
(* a function of the stakes and the evidence on the ledger, computed anew   *)
(* whenever somebody asks, whatever was written and whenever.  Markets of   *)
(* the bootstrap phase, which settle by votes, are left out.                *)
(*                                                                          *)
(* The stakes of a node on one side in one kind of reputation are added up: *)
(* every formula is linear in them.  A predictor and the identities it has  *)
(* rotated to are one node.  Amounts are whole numbers of a unit in which    *)
(* every share of the instance is whole; the code computes with floats.     *)
(***************************************************************************)
EXTENDS Integers, FiniteSets, FiniteSetsExt

CONSTANTS
  Stakers,      \* the nodes that stake and submit evidence
  Predictors,   \* those of them that the snapshot freezes as predictors
  StakeSize,    \* the amount of one stake
  Bond,         \* the bond every evidence comes with
  MinStake,     \* min_resolution_stake_total
  DecidePct,    \* resolution_supermajority, in percent
  DoubtPct,     \* data_unavailable_threshold
  LoserPct,     \* resolution_loser_burn_pct
  StalePct,     \* resolution_stalemate_burn_pct
  FirstBonus,   \* evidence_first_bonus
  MaxStakes,    \* bound on stakes
  MaxEvidence   \* bound on evidence

ASSUME MarketAssumption ==
  /\ IsFiniteSet(Stakers) /\ Predictors \subseteq Stakers
  /\ {Bond, StakeSize, MinStake, FirstBonus, MaxStakes, MaxEvidence} \subseteq Nat
  /\ DecidePct \in 51..95 /\ DoubtPct \in 10..50 /\ LoserPct \in 0..10 /\ StalePct \in 0..10

VARIABLES
  stakes,    \* what each node has on each side, in oracle and common rep
  evidence,  \* how many have submitted evidence for either answer
  frozen     \* the snapshot is on the ledger

mkVars == <<stakes, evidence, frozen>>

Answers == {"yes", "no"}
Sides == Answers \cup {"data_unavailable"}
RepTypes == {"oracle", "common"}
Positions == Stakers \X Sides \X RepTypes
Side(p) == p[2]
RepType(p) == p[3]

\* collect_resolution_stakes.
Amount(p) == IF frozen /\ p[1] \in Predictors THEN 0 ELSE stakes[p]
Amounts == [p \in Positions |-> Amount(p)]

SumOver(f, S) == MapThenSumSet(LAMBDA x : f[x], S)
Sum(f) == SumOver(f, DOMAIN f)
PoolOf(sides, reps) == SumOver(Amounts, Stakers \X sides \X reps)
Staked == PoolOf(Sides, RepTypes)
Bonds(sides) == Bond * SumOver(evidence, sides)
Burn(amount, pct) == (amount * pct) \div 100

\* What a settlement pays back, pays out and burns.
Settlement(back, won, bonds, bonus, burned) ==
  [back |-> back, won |-> won, bonds |-> bonds, bonus |-> bonus, burned |-> burned]
Nothing == [p \in Positions |-> 0]

\* Everybody gets everything back.
Refund == Settlement(Amounts, Nothing, Bonds(Answers), 0, 0)

\* stalemate_burn.apply_to_stakes, on the stakes of some sides.
AfterBurn(sides) ==
  [p \in Positions |-> Amount(p) - (IF Side(p) \in sides THEN Burn(Amount(p), StalePct) ELSE 0)]
StaleBurn(sides) == Staked - Sum(AfterBurn(sides))

\* Mutant of Doubted: the bonds are returned as in every other invalid market.
DoubtedReturnsBonds ==
  Settlement(AfterBurn(Answers), Nothing, Bonds(Answers), 0, StaleBurn(Answers) + Bonds(Answers))

\* The evidence cannot be verified: those who doubted it get all of their
\* stakes back, the others some, and the bonds are burned.
Doubted ==
  Settlement(AfterBurn(Answers), Nothing, 0, 0, StaleBurn(Answers) + Bonds(Answers))

\* No supermajority.
Stalemate == Settlement(AfterBurn(Sides), Nothing, Bonds(Answers), 0, StaleBurn(Sides))

Losing(side) == Answers \ {side}
Settles(side, rep) == PoolOf({side}, {rep}) > 0 /\ PoolOf(Losing(side), {rep}) > 0
LoserBurn(side, rep) == Burn(PoolOf(Losing(side), {rep}), LoserPct)
Shared(side, rep) == PoolOf(Losing(side), {rep}) - LoserBurn(side, rep)

\* The winners of each kind of reputation share what its losers staked, less
\* the burn; the first of those who submitted evidence for the winning
\* side gets a bonus out of the bonds of the others.
Decided(side) ==
  LET Burned(rep) == IF Settles(side, rep) THEN LoserBurn(side, rep) ELSE 0
      bonus == Min({FirstBonus, Bonds(Losing(side))})
  IN Settlement(
       [p \in Positions |-> IF Side(p) \in Losing(side) THEN 0 ELSE Amount(p)],
       [p \in Positions |->
          IF Side(p) = side /\ Settles(side, RepType(p))
          THEN (Amount(p) * Shared(side, RepType(p))) \div PoolOf({side}, {RepType(p)}) ELSE 0],
       Bonds({side}), bonus,
       Burned("oracle") + Burned("common") + Bonds(Losing(side)) - bonus)

OracleTotal == PoolOf(Answers, {"oracle"})
Winning == {side \in Answers :
              OracleTotal > 0 /\ 100 * PoolOf({side}, {"oracle"}) >= DecidePct * OracleTotal}
InDoubt ==
  LET all == PoolOf(Sides, {"oracle"})
  IN all > 0 /\ 100 * PoolOf({"data_unavailable"}, {"oracle"}) >= DoubtPct * all
Supported(side) == evidence[side] > 0
NoEvidence == \A side \in Answers : evidence[side] = 0

\* The side resolve_market settles the stakes for, if any.
Outcome ==
  IF NoEvidence \/ InDoubt \/ OracleTotal < MinStake THEN {}
  ELSE {side \in Winning : Supported(side)}

\* resolve_market.
Resolution ==
  IF NoEvidence THEN Refund
  ELSE IF InDoubt THEN Doubted
  ELSE IF OracleTotal < MinStake THEN Refund
  ELSE IF Winning = {} THEN Stalemate
  ELSE IF Outcome = {} THEN Refund
  ELSE Decided(CHOOSE side \in Outcome : TRUE)

-----------------------------------------------------------------------------
MKInit == stakes = Nothing /\ evidence = [side \in Answers |-> 0] /\ frozen = FALSE

Stake(p) ==
  /\ Sum(stakes) < MaxStakes * StakeSize
  /\ stakes' = [stakes EXCEPT ![p] = @ + StakeSize]
  /\ UNCHANGED <<evidence, frozen>>

SubmitEvidence(side) ==
  /\ Sum(evidence) < MaxEvidence
  /\ evidence' = [evidence EXCEPT ![side] = @ + 1]
  /\ UNCHANGED <<stakes, frozen>>

Snapshot == ~frozen /\ frozen' = TRUE /\ UNCHANGED <<stakes, evidence>>

MKNext ==
  \/ \E p \in Positions : Stake(p)
  \/ \E side \in Answers : SubmitEvidence(side)
  \/ Snapshot

MKSpec == MKInit /\ [][MKNext]_mkVars

-----------------------------------------------------------------------------
MKTypeOK ==
  /\ stakes \in [Positions -> 0..(MaxStakes * StakeSize)]
  /\ evidence \in [Answers -> 0..MaxEvidence]
  /\ frozen \in BOOLEAN /\ Cardinality(Outcome) <= 1

\* Reputation is neither made nor lost by a settlement, whichever of its seven
\* ways it goes: what was staked and bonded is returned, won, paid as a bonus or
\* burned, except the losers' stakes of a kind in which nobody won, which go
\* nowhere and are not counted as burned.
Lost(side, rep) == IF PoolOf({side}, {rep}) = 0 THEN PoolOf(Losing(side), {rep}) ELSE 0
Unclaimed ==
  IF Outcome = {} THEN 0
  ELSE LET side == CHOOSE s \in Outcome : TRUE IN Lost(side, "oracle") + Lost(side, "common")
Accounted ==
  LET r == Resolution
  IN Sum(r.back) + Sum(r.won) + r.bonds + r.bonus + r.burned + Unclaimed
MKConserved == Accounted = Staked + Bonds(Answers)

\* Where the unit is so small that no share is rounded, as with the code's floats.
SharesWhole ==
  \A side \in Outcome, p \in Positions :
    Side(p) = side /\ Settles(side, RepType(p)) =>
      (Amount(p) * Shared(side, RepType(p))) % PoolOf({side}, {RepType(p)}) = 0
=============================================================================
