----------------------------- MODULE InfonetSync -----------------------------
(***************************************************************************)
(* How the nodes copy the Infonet ledger from one another: the loop that    *)
(* asks the peers of the peer store one by one when a sync is due, the kick *)
(* threads that do so at once, the endpoint that answers them, and the      *)
(* SyncWorkerState both threads write.  What a sync does to one node's chain*)
(* is ingest_events and reset_chain; its chain file is in Hashchain.        *)
(*                                                                          *)
(* An event is the history it was made on, itself at the end, and a history *)
(* is the sequence of its events' numbers.  Time is abstracted to what it   *)
(* decides: a sync is due, a run is stale, a cooldown is over.              *)
(***************************************************************************)
EXTENDS Integers, FiniteSets, Sequences, SequencesExt

CONSTANTS
  Nodes,
  Peers(_),      \* the sync peers in a node's store
  Syncing,       \* the nodes that sync; the others only write and answer
  Kicked,        \* the nodes where kick threads run
  Page,          \* page_limit
  Rounds,        \* max_rounds
  ResetBelow,    \* the chain length below which a fork resets the chain
  MaxMade,       \* bound on events
  MaxFailures,   \* bound on requests that fail
  MaxToggles     \* bound on changes of the node settings

ASSUME SyncAssumption ==
  /\ IsFiniteSet(Nodes) /\ Kicked \subseteq Syncing /\ Syncing \subseteq Nodes
  /\ \A n \in Nodes : Peers(n) \subseteq Nodes \ {n}
  /\ Page \in Nat \ {0} /\ Rounds \in Nat \ {0} /\ ResetBelow \in Nat
  /\ MaxMade \in Nat /\ MaxFailures \in Nat /\ MaxToggles \in Nat

VARIABLES
  made,      \* the histories of all events, by number
  chain,     \* Infonet.events of each node
  enabled,   \* _participant_node_enabled
  outcome,   \* SyncWorkerState.last_outcome
  ripe,      \* the sync is due, or has run for 300 s
  store,     \* the peer store's file
  run,       \* each thread's cycle
  failures,  \* requests that may still fail
  toggles    \* changes of the settings still to come

ledgers == <<made, chain>>
worker == <<enabled, outcome, ripe>>
syVars == <<ledgers, worker, store, run, failures, toggles>>

Loops == {<<n, "loop">> : n \in Syncing}
Kicks == {<<n, "kick">> : n \in Kicked}
Threads == Loops \cup Kicks
Node(t) == t[1]

\* What the peer store says of the peers: those that succeeded by
\* last_sync_ok_at, latest first, and those whose cooldown_until is to come.
NoMarks == [recent |-> <<>>, cooling |-> {}]
Known(marks) == SelectSeq(marks.recent, LAMBDA m : m \notin marks.cooling)
Succeeded(marks, m) ==
  [recent |-> <<m>> \o RemoveFirst(marks.recent, m),
   cooling |-> marks.cooling \ {m}]
Failed(marks, m) == [marks EXCEPT !.cooling = @ \cup {m}]

NoAnswer == [at |-> 0, forked |-> FALSE, events |-> <<>>]
Idle == [pc |-> "idle", left |-> <<>>, marks |-> NoMarks, rounds |-> 0, answer |-> NoAnswer]

Asked(t) == Head(run[t].left)
Goto(t, l) == run' = [run EXCEPT ![t].pc = l]
Set(f, n, v) == [f EXCEPT ![n] = v]

-----------------------------------------------------------------------------
SYInit ==
  /\ made = <<>>
  /\ chain = [n \in Nodes |-> <<>>]
  /\ enabled = [n \in Nodes |-> TRUE]
  /\ outcome = [n \in Nodes |-> "idle"]
  /\ ripe = [n \in Nodes |-> TRUE]
  /\ store = [n \in Nodes |-> NoMarks]
  /\ run = [t \in Threads |-> Idle]
  /\ failures = MaxFailures /\ toggles = MaxToggles

\* A user of node n writes.
SYAppend(n) ==
  /\ Len(made) < MaxMade
  /\ chain' = Set(chain, n, Append(chain[n], Len(made) + 1))
  /\ made' = Append(made, chain'[n])
  /\ UNCHANGED <<worker, store, run, failures, toggles>>

\* _set_participant_node_enabled.
Toggle(n) ==
  /\ toggles > 0 /\ toggles' = toggles - 1
  /\ enabled' = Set(enabled, n, ~enabled[n])
  /\ outcome' = Set(outcome, n, IF enabled[n] THEN "disabled" ELSE "idle")
  /\ ripe' = Set(ripe, n, TRUE)
  /\ UNCHANGED <<ledgers, store, run, failures>>

\* Mutant of SyncComesDue: a run is never stale.
NeverStale(n) ==
  /\ ~ripe[n] /\ outcome[n] # "running" /\ ripe' = Set(ripe, n, TRUE)
  /\ UNCHANGED <<ledgers, enabled, outcome, store, run, failures, toggles>>

\* Time passes.
SyncComesDue(n) ==
  /\ ~ripe[n] /\ ripe' = Set(ripe, n, TRUE)
  /\ UNCHANGED <<ledgers, enabled, outcome, store, run, failures, toggles>>

CooldownEnds(n) ==
  /\ \E m \in Peers(n) :
       /\ m \in store[n].cooling \/ \E t \in Threads : Node(t) = n /\ m \in run[t].marks.cooling
       /\ store' = [store EXCEPT ![n].cooling = @ \ {m}]
       /\ run' = [t \in Threads |-> IF Node(t) = n
                                     THEN [run[t] EXCEPT !.marks.cooling = @ \ {m}] ELSE run[t]]
  /\ UNCHANGED <<ledgers, worker, failures, toggles>>

\* Mutant of Disabled: the switch alone reports the node as disabled.
DisabledBefore(t) ==
  /\ run[t].pc = "idle" /\ ~enabled[Node(t)]
  /\ UNCHANGED syVars

\* The node does not take part.
Disabled(t) ==
  /\ run[t].pc = "idle" /\ ~enabled[Node(t)]
  /\ outcome' = Set(outcome, Node(t), "disabled")
  /\ ripe' = Set(ripe, Node(t), TRUE)
  /\ UNCHANGED <<ledgers, enabled, store, run, failures, toggles>>

\* eligible_sync_peers: the peer that succeeded last comes first, and those
\* that never did come last, in some order.
Eligible(n) ==
  {q \in SeqOf(Peers(n), Cardinality(Peers(n))) :
     /\ ToSet(q) = Peers(n) \ store[n].cooling /\ IsInjective(q)
     /\ IsPrefix(Known(store[n]), q)}

\* _run_public_sync_cycle: the loop when should_run_sync says so, a kick at
\* any time.  Without a peer the node is alone, which settles the cycle.
StartCycle(t) ==
  LET n == Node(t)
  IN /\ run[t].pc = "idle" /\ enabled[n]
     /\ t \in Loops => ripe[n]
     /\ \E peers \in Eligible(n) :
          IF peers = <<>>
          THEN /\ outcome' = Set(outcome, n, "alone") /\ UNCHANGED run
          ELSE /\ outcome' = Set(outcome, n, "running")
               /\ run' = [run EXCEPT ![t] = [Idle EXCEPT !.pc = "ask", !.left = peers,
                                                         !.marks = store[n]]]
     /\ ripe' = Set(ripe, n, FALSE)
     /\ UNCHANGED <<ledgers, enabled, store, failures, toggles>>

\* The peer's endpoint matches the locator against its chain: it answers with
\* what follows the latest event that both have, and reports a fork only if
\* they have none.  (A locator names the last ten events and a few before.)
Common(p, q) == Cardinality({k \in DOMAIN p : IsPrefix(SubSeq(p, 1, k), q)})

\* Mutant of Answer: the page is counted from genesis.
AnswerFromGenesis(asker, peer) ==
  LET base == Common(asker, peer)
      end == IF Page < Len(peer) THEN Page ELSE Len(peer)
  IN [at |-> base, forked |-> base = 0 /\ asker # <<>>, events |-> SubSeq(peer, 1, end)]

Answer(asker, peer) ==
  LET base == Common(asker, peer)
      end == IF base + Page < Len(peer) THEN base + Page ELSE Len(peer)
  IN [at |-> base, forked |-> base = 0 /\ asker # <<>>, events |-> SubSeq(peer, 1, end)]

Ask(t) ==
  /\ run[t].pc = "ask"
  /\ run' = [run EXCEPT ![t].pc = "answered",
                        ![t].answer = Answer(chain[Node(t)], chain[Asked(t)])]
  /\ UNCHANGED <<ledgers, worker, store, failures, toggles>>

\* The cycle ends well, and the peer becomes the first to be asked.  The
\* thread saves the peer store as it had loaded it, with its own marks.
Succeed(t) ==
  /\ outcome' = Set(outcome, Node(t), "ok")
  /\ ripe' = Set(ripe, Node(t), FALSE)
  /\ store' = Set(store, Node(t), Succeeded(run[t].marks, Asked(t)))
  /\ run' = [run EXCEPT ![t] = Idle]

\* The peer cools down, and the next one is asked unless there was a fork.
Fail(t, forked) ==
  LET left == IF forked THEN <<>> ELSE Tail(run[t].left)
      marks == Failed(run[t].marks, Asked(t))
  IN /\ outcome' = Set(outcome, Node(t),
                       IF left # <<>> THEN "running" ELSE IF forked THEN "fork" ELSE "error")
     /\ ripe' = Set(ripe, Node(t), FALSE)
     /\ store' = Set(store, Node(t), marks)
     /\ run' = [run EXCEPT ![t] = IF left = <<>> THEN Idle
                                  ELSE [Idle EXCEPT !.pc = "ask", !.left = left, !.marks = marks]]

\* The request times out, or the peer says 429 or something else.
RequestFails(t) ==
  /\ run[t].pc = "ask" /\ failures > 0 /\ failures' = failures - 1
  /\ Fail(t, FALSE)
  /\ UNCHANGED <<ledgers, enabled, toggles>>

\* The thread dies of an exception: the store cannot be saved.
Escapes(t) ==
  /\ run[t].pc = "ask" /\ failures > 0 /\ failures' = failures - 1
  /\ run' = [run EXCEPT ![t] = Idle]
  /\ UNCHANGED <<ledgers, worker, store, toggles>>

\* A reported fork resets a short chain and ends the cycle of a long one.
Forked(t) ==
  /\ run[t].pc = "answered" /\ run[t].answer.forked
  /\ IF Len(chain[Node(t)]) < ResetBelow
     THEN Goto(t, "reset") /\ UNCHANGED <<outcome, ripe, store>>
     ELSE Fail(t, TRUE)
  /\ UNCHANGED <<ledgers, enabled, failures, toggles>>

Reset(t) ==
  /\ run[t].pc = "reset"
  /\ chain' = Set(chain, Node(t), <<>>)
  /\ run' = [run EXCEPT ![t].pc = "ask", ![t].answer = NoAnswer]
  /\ UNCHANGED <<made, worker, store, failures, toggles>>

\* Mutant of Ingested: what the peer sent goes after what the node has.
IngestedAny(mine, answer) ==
  mine \o SubSeq(answer.events, answer.at + 1, Len(answer.events))

\* ingest_events: what the node has is skipped, and of the rest only what
\* continues its head is taken.
Ingested(mine, answer) ==
  IF Len(mine) >= answer.at /\ IsPrefix(mine, answer.events) THEN answer.events ELSE mine

NewEvents(t) == Len(run[t].answer.events) - run[t].answer.at

\* Mutant of MorePages: max_rounds is not looked at.
AnyPages(t) == NewEvents(t) = Page

\* The page is full, and max_rounds allows another.
MorePages(t) == NewEvents(t) = Page /\ run[t].rounds + 1 < Rounds

\* Whatever is refused fails the peer.
Ingest(t) ==
  LET n == Node(t)
      events == run[t].answer.events
  IN /\ run[t].pc = "answered" /\ ~run[t].answer.forked
     /\ chain' = IF NewEvents(t) = 0 THEN chain
                 ELSE Set(chain, n, Ingested(chain[n], run[t].answer))
     /\ IF NewEvents(t) > 0 /\ ~IsPrefix(events, chain'[n])
        THEN Fail(t, FALSE)
        ELSE IF MorePages(t) /\ chain'[n] # chain[n]
        THEN /\ run' = [run EXCEPT ![t].pc = "ask", ![t].rounds = @ + 1, ![t].answer = NoAnswer]
             /\ UNCHANGED <<outcome, ripe, store>>
        ELSE Succeed(t)
     /\ UNCHANGED <<made, enabled, failures, toggles>>

Turn(t) == Disabled(t) \/ StartCycle(t)
Step(t) == Ask(t) \/ Forked(t) \/ Reset(t) \/ Ingest(t)

SYNext ==
  \/ \E n \in Nodes : SYAppend(n)
  \/ \E n \in Syncing : Toggle(n) \/ SyncComesDue(n) \/ CooldownEnds(n)
  \/ \E t \in Threads : Turn(t) \/ Step(t) \/ RequestFails(t) \/ Escapes(t)

\* The loops run for as long as the process does and a request has a timeout;
\* time passes.  Nothing is assumed of users, kicks or failures, except that a
\* kick that has begun goes on.
SYFairness ==
  /\ \A t \in Loops : WF_syVars(Turn(t))
  /\ \A t \in Threads : WF_syVars(Step(t))
  /\ \A n \in Syncing : WF_syVars(SyncComesDue(n)) /\ WF_syVars(CooldownEnds(n))

SYSpec == SYInit /\ [][SYNext]_syVars /\ SYFairness

-----------------------------------------------------------------------------
SYTypeOK ==
  /\ made \in Seq(Seq(1..Len(made)))
  /\ \A n \in Nodes : chain[n] \in Seq(1..Len(made))
  /\ enabled \in [Nodes -> BOOLEAN] /\ ripe \in [Nodes -> BOOLEAN]
  /\ outcome \in [Nodes -> {"idle", "disabled", "alone", "running", "ok", "error", "fork"}]
  /\ \A n \in Nodes : /\ ToSet(store[n].recent) \subseteq Peers(n)
                      /\ store[n].cooling \subseteq Peers(n)
  /\ \A t \in Threads : /\ run[t].pc \in {"idle", "ask", "answered", "reset"}
                        /\ run[t].rounds \in 0..(Rounds - 1)

\* Whatever a node has of the ledger is what the author of its last event had
\* when he wrote it: appends of users and of the two threads that sync, in
\* between a request and its answer, never glue an event to another history.
SYHistory == \A n \in Nodes : chain[n] # <<>> => chain[n] = made[Last(chain[n])]

\* "running" never stays: even a cycle that an exception ended, or a kick, is
\* followed by another one.
SYRunningEnds == \A n \in Syncing : (outcome[n] = "running") ~> (outcome[n] # "running")

\* A node that is switched off is reported so, even if a cycle under way at
\* that moment reports its result afterwards.
SYDisabledSettles ==
  \A n \in Syncing : [](~enabled[n] => <>(enabled[n] \/ outcome[n] = "disabled"))

\* A node gets what all its peers have, if it has only the beginning of it,
\* whatever fails on the way: unless it is switched off, it and a peer write
\* different events, or a peer gives up its chain.
Has(n, k) == k \in ToSet(chain[n])
Behind(n, k) == \A m \in Peers(n) : Has(m, k) /\ IsPrefix(chain[n], chain[m])
Apart(n) ==
  \/ ~enabled[n]
  \/ \E m \in Peers(n) : ~IsPrefix(chain[n], chain[m]) /\ ~IsPrefix(chain[m], chain[n])
SYCatchUp ==
  \A n \in Syncing : \A k \in 1..MaxMade :
    Behind(n, k) ~> (Has(n, k) \/ Apart(n) \/ \E m \in Peers(n) : ~Has(m, k))
=============================================================================
