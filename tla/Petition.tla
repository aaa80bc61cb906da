------------------------------- MODULE Petition -------------------------------
(***************************************************************************)
(* The status of one petition (infonet/governance/petition.py, challenge.py):*)
(* a function of the events on the ledger and of the time, computed anew    *)
(* whenever somebody asks.  Whoever may write to the ledger writes what he   *)
(* likes when he likes; what the function makes of it decides the status.   *)
(*                                                                          *)
(* A node's governance weight is a constant of the node, counted from its   *)
(* first event on; its decay and its growth are left out.                   *)
(***************************************************************************)
EXTENDS Integers, FiniteSets, FiniteSetsExt

CONSTANTS
  Voters,         \* the nodes with weight in the governance
  Weight,         \* compute_oracle_rep_active of each
  SignPct,        \* petition_signature_threshold, in percent
  QuorumPct,      \* petition_quorum
  MajorityPct,    \* petition_supermajority
  SignDays,       \* petition_signature_window_days
  VoteDays,       \* petition_vote_window_days
  ChallengeDays,  \* challenge_window_hours
  AnyTime,        \* events come also when the state diagram has no use for them
  MaxEntries,     \* bound on events
  MaxDay          \* bound on time

ASSUME PetitionAssumption ==
  /\ IsFiniteSet(Voters) /\ Weight \in [Voters -> Nat]
  /\ SignPct \in 1..100 /\ QuorumPct \in 1..100 /\ MajorityPct \in 51..100
  /\ SignDays \in Nat /\ VoteDays \in Nat /\ ChallengeDays \in Nat \ {0}
  /\ AnyTime \in BOOLEAN /\ MaxEntries \in Nat /\ MaxDay \in Nat \ {0}

VARIABLES
  entries,   \* the events on the ledger, each with its timestamp
  today      \* the time at which the status is asked for

peVars == <<entries, today>>

Of(type) == {e \in entries : e.type = type}
Filed == Min({e.at : e \in Of("petition_file")})
Within(from, days) == from..(from + days)
Total(nodes) == MapThenSumSet(LAMBDA n : Weight[n], nodes)
Acting(events) == {e.by : e \in events}
Network == Total(Acting(entries))
Share(part, pct, whole) == 100 * part >= pct * whole

InTime(type, days) == {e \in Of(type) : e.at \in days}

\* The nodes that chose this way in the first of their events that came in
\* time.  (A node writes one event of a type a day.)
First(events, n) ==
  LET mine == {e \in events : e.by = n}
  IN CHOOSE e \in mine : \A f \in mine : e.at <= f.at
For(events, choice) == {n \in Acting(events) : First(events, n).choice = choice}

\* A signer whose first signature comes too late is not counted.
Signers == Acting(InTime("petition_sign", 0..(Filed + SignDays)))
Signed == Network > 0 /\ Share(Total(Signers), SignPct, Network)

\* The voting starts with the latest of all signatures.
VotingStart == Max({e.at : e \in Of("petition_sign")})
VotingEnd == VotingStart + VoteDays

\* Mutant of VotingTime: a vote that comes after the deadline counts.
NoDeadline == VotingStart..MaxDay

VotingTime == Within(VotingStart, VoteDays)

Votes == InTime("petition_vote", VotingTime)
VotePassed ==
  LET for == Total(For(Votes, "for"))
      all == for + Total(For(Votes, "against"))
  IN all > 0 /\ Share(all, QuorumPct, Network) /\ Share(for, MajorityPct, all)

\* compute_challenge_state: the window of a challenge starts with its filing.
ChallengeFiled == Min({e.at : e \in Of("challenge_file")})
ChallengeVotes == InTime("challenge_vote", Within(ChallengeFiled, ChallengeDays))
Voided ==
  /\ Of("challenge_file") # {} /\ today > ChallengeFiled + ChallengeDays
  /\ Total(For(ChallengeVotes, "uphold")) > Total(For(ChallengeVotes, "void"))

Status ==
  IF Of("petition_file") = {} THEN "not_found"
  ELSE IF ~Signed THEN IF today > Filed + SignDays THEN "failed_signatures" ELSE "signatures"
  ELSE IF today <= VotingEnd THEN "voting"
  ELSE IF ~VotePassed THEN "failed_vote"
  ELSE IF Voided THEN "voided_challenge"
  ELSE IF today <= VotingEnd + ChallengeDays THEN "challenge"
  ELSE IF Of("petition_execute") = {} THEN "passed" ELSE "executed"

-----------------------------------------------------------------------------
PEInit == entries = {} /\ today = 1

\* What the diagram reckons with: nobody joins, nobody signs once it is
\* enough, a challenge that comes is filed before the vote is closed, and the
\* petition is executed when it has passed.
Regular(n, type) ==
  /\ type \notin {"other", "petition_file"} => \E e \in entries : e.by = n
  /\ type = "petition_sign" => Status = "signatures"
  /\ type = "challenge_file" => Status \in {"signatures", "voting"}
  /\ type = "petition_execute" => Status = "passed"

Write(n, type, choice) ==
  /\ Cardinality(entries) < MaxEntries /\ (AnyTime \/ Regular(n, type))
  /\ ~\E e \in entries : e.by = n /\ e.type = type /\ e.at = today
  /\ entries' = entries \cup {[type |-> type, by |-> n, at |-> today, choice |-> choice]}
  /\ UNCHANGED today

\* Any other event: what matters is that the node has written.
Join(n) == Status = "not_found" /\ Write(n, "other", "none")
FilePetition(n) == Status = "not_found" /\ Write(n, "petition_file", "none")
Sign(n) == Write(n, "petition_sign", "none")
Vote(n) == \E c \in {"for", "against"} : Write(n, "petition_vote", c)
FileChallenge(n) == Of("challenge_file") = {} /\ Write(n, "challenge_file", "none")
VoteOnChallenge(n) == \E c \in {"uphold", "void"} : Write(n, "challenge_vote", c)
Execute(n) == Status # "not_found" /\ Write(n, "petition_execute", "none")

DayPasses == today < MaxDay /\ today' = today + 1 /\ UNCHANGED entries

PENext ==
  \/ \E n \in Voters : \/ Join(n) \/ FilePetition(n) \/ Sign(n) \/ Vote(n)
                       \/ FileChallenge(n) \/ VoteOnChallenge(n) \/ Execute(n)
  \/ DayPasses

PESpec == PEInit /\ [][PENext]_peVars

-----------------------------------------------------------------------------
Outcomes == {"failed_signatures", "failed_vote", "voided_challenge", "executed"}
AllStatuses == Outcomes \cup {"not_found", "signatures", "voting", "challenge", "passed"}

PETypeOK ==
  /\ \A e \in entries : e.by \in Voters /\ e.at \in 1..today
  /\ today \in 1..MaxDay
  /\ Status \in AllStatuses

\* The edges of the state diagram (petition.py:5-25).
Edges ==
  {<<"not_found", "signatures">>, <<"signatures", "voting">>,
   <<"signatures", "failed_signatures">>, <<"voting", "challenge">>,
   <<"voting", "failed_vote">>, <<"voting", "voided_challenge">>,
   <<"challenge", "voided_challenge">>, <<"challenge", "passed">>, <<"passed", "executed">>}

\* As long as nothing comes that the diagram does not reckon with, the status,
\* computed from scratch at every moment, follows it: no phase is left out, no
\* outcome is ever revised.
PEOnward ==
  [][Status' = Status \/ <<Status, Status'>> \in Edges]_peVars

\* "if challenge passes -> voided_challenge, else -> passed; petition_execute
\* -> executed" (petition.py:22-25): what has passed is not voided any more.
PEPassedStands ==
  [][(Status \in {"passed", "executed"}) => (Status' # "voided_challenge")]_peVars
=============================================================================
