------------------------------ MODULE MCLedger ------------------------------
(* The chain of a node, and what the nodes read off some ledger about a      *)
(* petition and a market: they share no state, and each behaviour exercises  *)
(* the one that "part" names.                                                *)
EXTENDS Hashchain, Petition, Markets, TLC

CONSTANTS alice, bob, api, sync

TwoAuthors == {alice, bob}
OneVoter == {alice}
Weights == [v \in Voters |-> IF v = alice THEN 3 ELSE 1]
OneAppender == {api}
OneIngester == {sync}

VARIABLE part

ledgerVars == <<part, hcVars, peVars, mkVars>>

LedgerInit ==
  /\ part \in {"chain", "petition", "market"}
  /\ HCInit /\ PEInit /\ MKInit

InChain(A) == part = "chain" /\ A /\ UNCHANGED <<part, peVars, mkVars>>
InPetition(A) == part = "petition" /\ A /\ UNCHANGED <<part, hcVars, mkVars>>
InMarket(A) == part = "market" /\ A /\ UNCHANGED <<part, hcVars, peVars>>

LedgerNext == InChain(HCNext) \/ InPetition(PENext) \/ InMarket(MKNext)

LedgerSpec == LedgerInit /\ [][LedgerNext]_ledgerVars

\* The invariants of the chain speak of behaviours whose writers take turns.
InTurns == ~overlapped

LedgerTypeOK ==
  CASE part = "chain" -> HCTypeOK [] part = "petition" -> PETypeOK [] part = "market" -> MKTypeOK

\* What resolve_market does with the stakes and the bonds of a market, at any
\* moment, neither makes nor loses reputation (MKConserved).
MarketConserved == part = "market" => MKConserved
=============================================================================
