------------------------------ MODULE DMRelay ------------------------------
(***************************************************************************)
(* The mailboxes of DMRelay (mesh_dm_relay.py) on several nodes: deposits   *)
(* by the release worker and by the hydration from the chain, their         *)
(* replication to peers, the polls and counts of recipients with their      *)
(* mailbox bindings, blocks, expiry and restarts.                           *)
(*                                                                          *)
(* Every method runs under its relay's lock and the two-step ones run in    *)
(* the event loop, so each is one step.  A push to a peer is a step of its  *)
(* own, may fail, and may be processed while its answer is lost.            *)
(*                                                                          *)
(* Time is counted in ticks; clocks agree.  Ciphertexts, seals, tokens as   *)
(* strings and the size limit are left out.  A mailbox key is a tuple: the  *)
(* bucket of a recipient and an epoch, a request token of a recipient and   *)
(* an epoch (the client derives a new one per epoch), or a shared token.    *)
(***************************************************************************)
EXTENDS Integers, FiniteSets, FiniteSetsExt

CONSTANTS
  Nodes, Agents,
  Home,        \* the node each agent uses
  Msgs,        \* msg_ids
  Sender, Recipient,
  Class,       \* delivery_class of each message
  Scoped,      \* messages with an explicit peer to push to (the recipient's)
  MayBlock,    \* who may block whom in an instance
  OnChain,     \* messages whose dm_message event is on the hashchain
  TTL,         \* TTL_SECONDS
  EpochLen,    \* EPOCH_SECONDS
  BindIdle,    \* _mailbox_binding_idle_ttl_seconds
  Cap,         \* MESH_DM_PENDING_PER_SENDER_LIMIT
  BoxLimit,    \* MESH_DM_REQUEST_ and MESH_DM_SHARED_MAILBOX_LIMIT
  Batch,       \* DM_POLL_BATCH_LIMIT
  Attempts,    \* max_attempts of a push
  MaxTime,     \* bound on the clock
  MaxFaults    \* bound on lost answers and restarts together

ASSUME AgentsAssumption ==
  /\ Home \in [Agents -> Nodes]
  /\ Sender \in [Msgs -> Agents] /\ Recipient \in [Msgs -> Agents]
  /\ Class \in [Msgs -> {"request", "shared"}]
  /\ Scoped \subseteq Msgs /\ OnChain \subseteq Msgs /\ MayBlock \subseteq Agents \X Agents
ASSUME TimeAssumption ==
  /\ TTL \in Nat \ {0} /\ EpochLen \in Nat /\ TTL <= EpochLen
  /\ BindIdle \in Nat /\ EpochLen <= BindIdle /\ MaxTime \in Nat
ASSUME LimitsAssumption ==
  /\ Cap \in Nat \ {0} /\ BoxLimit \in [{"request", "shared"} -> Nat \ {0}]
  /\ Batch \in Nat \ {0} /\ Attempts \in Nat \ {0} /\ MaxFaults \in Nat

VARIABLES
  now,       \* the clock
  box,       \* _mailboxes of each node: copies of messages
  bound,     \* _mailbox_bindings of each agent at its home, for requests
  blocks,    \* _blocks of each agent at its home
  pushes,    \* replications under way
  released,  \* messages the sender's outbox is done with
  handed,    \* history: messages handed to their recipient
  refused,   \* history: messages the sender's node refused for the cap last
  faults     \* lost answers and restarts still to come

vars == <<now, box, bound, blocks, pushes, released, handed, refused, faults>>

Epochs == 0..MaxTime
Key == ({"bucket", "token"} \X Agents \X Epochs) \cup ({"shared"} \X Agents \X Agents)

\* `from` is the node whose pepper went into sender_block_ref.
Copy == [msg : Msgs, key : Key, ts : 0..MaxTime, from : Nodes]
Push == [copy : Copy, at : Nodes, to : Nodes, left : 1..Attempts, worker : BOOLEAN]

NoBinding == [token |-> -1, used |-> -1]
Binding == [token : Epochs, used : 0..MaxTime] \cup {NoBinding}

-----------------------------------------------------------------------------
\* Keys and time.

Epoch == now \div EpochLen

\* _cleanup_expired.
Live(copies) == {c \in copies : now - c.ts < TTL}

\* _prune_stale_mailbox_bindings and _bound_mailbox_key.
BindingOf(a) == IF now - bound[a].used > BindIdle THEN NoBinding ELSE bound[a]

Bucket(a, e) == <<"bucket", a, e>>
Token(a, e) == <<"token", a, e>>
BoundKeys(a, b) == IF b = NoBinding THEN {} ELSE {Token(a, b.token)}

\* Mutant of ClaimedKeys: the bucket of the last epoch is not claimed.
ClaimedThisEpoch(a, b) ==
  BoundKeys(a, b) \cup {Token(a, Epoch), Bucket(a, Epoch)}
  \cup {<<"shared", s, a>> : s \in Agents}

\* _mailbox_keys_for_claim: what a claim collects if the agent's binding was b.
ClaimedKeys(a, b) ==
  BoundKeys(a, b) \cup {Token(a, Epoch), Bucket(a, Epoch)}
  \cup {Bucket(a, e) : e \in {Epoch - 1} \cap Nat}
  \cup {<<"shared", s, a>> : s \in Agents}

\* _remember_mailbox_binding.
Rebound == [token |-> Epoch, used |-> now]

\* A local deposit of a request goes to the bucket, a replica to the bound
\* mailbox where there is one (mailbox_key_for_delivery).
DepositKey(m) ==
  IF Class[m] = "shared" THEN <<"shared", Sender[m], Recipient[m]>>
  ELSE Bucket(Recipient[m], Epoch)

ReplicaKey(n, m) ==
  LET b == IF Home[Recipient[m]] = n THEN BindingOf(Recipient[m]) ELSE NoBinding
  IN IF Class[m] = "shared" \/ b = NoBinding THEN DepositKey(m)
     ELSE Token(Recipient[m], b.token)

-----------------------------------------------------------------------------
\* What a relay answers.

Parked(copies, k) == {c \in copies : c.key = k}

\* _per_sender_pending_count: exact matches of sender_block_ref.
FromSender(copies, k, m, from) ==
  {c \in Parked(copies, k) : Sender[c.msg] = Sender[m] /\ c.from = from}

Full(copies, k, m) == Cardinality(Parked(copies, k)) >= BoxLimit[Class[m]]
Capped(copies, k, m, from) == Cardinality(FromSender(copies, k, m, from)) >= Cap
Duplicate(copies, k, m) == \E c \in Parked(copies, k) : c.msg = m

Blocked(n, m) == Home[Recipient[m]] = n /\ Sender[m] \in blocks[Recipient[m]]

\* Mutant of ReplicaVerdict: the cap is enforced where messages are deposited only.
ReplicaVerdictUncapped(n, c) ==
  LET B == Live(box[n])  k == ReplicaKey(n, c.msg) IN
  IF Duplicate(B, k, c.msg) THEN "duplicate"
  ELSE IF Full(B, k, c.msg) THEN "full"
  ELSE "stored"

\* deposit: the checks in the code's order ...
DepositVerdict(n, m) ==
  LET B == Live(box[n])  k == DepositKey(m) IN
  IF Blocked(n, m) THEN "blocked"
  ELSE IF Full(B, k, m) THEN "full"
  ELSE IF Capped(B, k, m, n) THEN "capped"
  ELSE IF Duplicate(B, k, m) THEN "duplicate"
  ELSE "stored"

\* ... and accept_replica, which asks for a duplicate first and for no block.
ReplicaVerdict(n, c) ==
  LET B == Live(box[n])  k == ReplicaKey(n, c.msg) IN
  IF Duplicate(B, k, c.msg) THEN "duplicate"
  ELSE IF Full(B, k, c.msg) THEN "full"
  ELSE IF Capped(B, k, c.msg, c.from) THEN "capped"
  ELSE "stored"

-----------------------------------------------------------------------------
Init ==
  /\ now = 0
  /\ box = [n \in Nodes |-> {}]
  /\ bound = [a \in Agents |-> NoBinding]
  /\ blocks = [a \in Agents |-> {}]
  /\ pushes = {} /\ released = {} /\ handed = {} /\ refused = {}
  /\ faults = MaxFaults

\* Whom a node pushes a message to: the peer of a scoped one, else every peer.
Peers(n, m) == (IF m \in Scoped THEN {Home[Recipient[m]]} ELSE Nodes) \ {n}

\* A block is answered before the cleanup; a stored or duplicate message is
\* pushed as the relay holds it.
Deposit(n, m, worker) ==
  LET v == DepositVerdict(n, m)
      k == DepositKey(m)
      new == [msg |-> m, key |-> k, ts |-> now, from |-> n]
      copies == Live(box[n]) \cup (IF v = "stored" THEN {new} ELSE {})
  IN /\ box' = [box EXCEPT ![n] = IF v = "blocked" THEN @ ELSE copies]
     /\ pushes' = IF v \notin {"stored", "duplicate"} THEN pushes
                  ELSE pushes \cup
                       {[copy |-> c, at |-> n, to |-> p, left |-> Attempts, worker |-> worker] :
                          c \in {d \in Parked(copies, k) : d.msg = m}, p \in Peers(n, m)}

\* The worker's thread waits for a scoped push.
Waiting(n) == \E p \in pushes : p.at = n /\ p.worker /\ p.copy.msg \in Scoped

\* _dispatch_dm hands a message to the sender's relay, again and again until
\* it is released.
Send(m) ==
  LET n == Home[Sender[m]]
      v == DepositVerdict(n, m)
  IN /\ m \notin released /\ ~Waiting(n)
     /\ Deposit(n, m, TRUE)
     /\ released' = IF v \in {"stored", "duplicate"} /\ m \notin Scoped
                    THEN released \cup {m} ELSE released
     /\ refused' = IF v = "capped" THEN refused \cup {m} ELSE refused \ {m}
     /\ UNCHANGED <<now, bound, blocks, handed, faults>>

\* _hydrate_dm_relay_from_chain: when events are synced and at every start.
Hydrate(n, m) ==
  /\ m \in OnChain
  /\ Deposit(n, m, FALSE)
  /\ UNCHANGED <<now, bound, blocks, released, handed, refused, faults>>

\* accept_replica at the peer.
Accept(n, c) ==
  LET new == [c EXCEPT !.key = ReplicaKey(n, c.msg)]
  IN box' = [box EXCEPT ![n] = Live(@) \cup
               (IF ReplicaVerdict(n, c) = "stored" THEN {new} ELSE {})]

\* Mutant of OneLess: the last attempt does not end the push.
OneLessForever(p) == pushes' = (pushes \ {p}) \cup {[p EXCEPT !.left = @ - 1]}

\* One attempt less; the last one ends the push.
OneLess(p) ==
  pushes' = (pushes \ {p}) \cup (IF p.left = 1 THEN {} ELSE {[p EXCEPT !.left = @ - 1]})

\* The peer takes the push and its answer arrives ...
Delivered(p) ==
  /\ Accept(p.to, p.copy)
  /\ pushes' = pushes \ {p}
  /\ released' = IF /\ p.worker /\ p.copy.msg \in Scoped
                    /\ ReplicaVerdict(p.to, p.copy) \in {"stored", "duplicate"}
                 THEN released \cup {p.copy.msg} ELSE released
  /\ UNCHANGED <<now, bound, blocks, handed, refused, faults>>

\* ... or is lost ...
AnswerLost(p) ==
  /\ faults > 0 /\ faults' = faults - 1
  /\ Accept(p.to, p.copy)
  /\ OneLess(p)
  /\ UNCHANGED <<now, bound, blocks, released, handed, refused>>

\* ... or the peer is not reached.
NotReached(p) ==
  /\ OneLess(p)
  /\ UNCHANGED <<now, box, bound, blocks, released, handed, refused, faults>>

\* Mutant of Kept: what a full batch leaves behind is dropped.
KeptNone(copies, keys, ids) == {c \in copies : c.key \notin keys}

\* _collect_from_keys: a poll takes one copy of each message it hands over,
\* drops the others and puts back what does not fit into the batch ...
Kept(copies, keys, ids) == {c \in copies : c.key \notin keys \/ c.msg \notin ids}

\* ... which is what came last.
OldestFirst(claimed, ids) ==
  \A c \in claimed : c.msg \notin ids =>
    \A i \in ids : \E d \in claimed, e \in claimed :
      d.msg = i /\ e.msg = c.msg /\ d.ts <= e.ts

\* _dm_poll: claim_mailbox_keys binds the client's token, and collect_claims
\* claims again, after that.
Poll(a) ==
  LET n == Home[a]
      B == Live(box[n])
      keys == ClaimedKeys(a, Rebound)
      claimed == {c \in B : c.key \in keys}
      found == {c.msg : c \in claimed}
  IN \E ids \in SUBSET found :
       /\ Cardinality(ids) = IF Cardinality(found) <= Batch THEN Cardinality(found) ELSE Batch
       /\ OldestFirst(claimed, ids)
       /\ box' = [box EXCEPT ![n] = Kept(B, keys, ids)]
       /\ handed' = handed \cup ids
       /\ bound' = [bound EXCEPT ![a] = Rebound]
       /\ UNCHANGED <<now, blocks, pushes, released, refused, faults>>

\* _dm_count: the same claims without collecting.
Count(a) ==
  /\ bound' = [bound EXCEPT ![a] = Rebound]
  /\ box' = [box EXCEPT ![Home[a]] = Live(@)]
  /\ UNCHANGED <<now, blocks, pushes, released, handed, refused, faults>>

\* Mutant of PurgedKeys: only the current bucket is purged.
PurgedThisEpoch(a) == BoundKeys(a, BindingOf(a)) \cup {Bucket(a, Epoch)}

\* The mailboxes that block looks through.
PurgedKeys(a) ==
  BoundKeys(a, BindingOf(a)) \cup {Bucket(a, Epoch)}
  \cup {Bucket(a, e) : e \in {Epoch - 1} \cap Nat}

\* block purges what the node itself took from the sender.
Block(a, s) ==
  /\ <<a, s>> \in MayBlock /\ s \notin blocks[a]
  /\ blocks' = [blocks EXCEPT ![a] = @ \cup {s}]
  /\ box' = [box EXCEPT ![Home[a]] =
               {c \in @ : ~(c.key \in PurgedKeys(a) /\ Sender[c.msg] = s /\ c.from = Home[a])}]
  /\ UNCHANGED <<now, bound, pushes, released, handed, refused, faults>>

Unblock(a, s) ==
  /\ s \in blocks[a]
  /\ blocks' = [blocks EXCEPT ![a] = @ \ {s}]
  /\ UNCHANGED <<now, box, bound, pushes, released, handed, refused, faults>>

\* The spool and the bindings are in memory only; the blocks are on disk, and
\* so are the sender's outbox and the chain.
Restart(n) ==
  /\ faults > 0 /\ faults' = faults - 1
  /\ box' = [box EXCEPT ![n] = {}]
  /\ bound' = [a \in Agents |-> IF Home[a] = n THEN NoBinding ELSE bound[a]]
  /\ pushes' = {p \in pushes : p.at # n}
  /\ UNCHANGED <<now, blocks, released, handed, refused>>

Tick ==
  /\ now < MaxTime
  /\ now' = now + 1
  /\ UNCHANGED <<box, bound, blocks, pushes, released, handed, refused, faults>>

\* Nothing waits for anybody else.
Readers == {Recipient[m] : m \in Msgs}

Next ==
  \/ \E m \in Msgs : Send(m)
  \/ \E n \in Nodes, m \in Msgs : Hydrate(n, m)
  \/ \E p \in pushes : Delivered(p) \/ AnswerLost(p) \/ NotReached(p)
  \/ \E a \in Readers : Poll(a) \/ Count(a)
  \/ \E a, s \in Agents : Block(a, s) \/ Unblock(a, s)
  \/ \E n \in Nodes : Restart(n)
  \/ Tick

Spec == Init /\ [][Next]_vars

-----------------------------------------------------------------------------
TypeOK ==
  /\ now \in 0..MaxTime
  /\ box \in [Nodes -> SUBSET Copy]
  /\ bound \in [Agents -> Binding]
  /\ blocks \in [Agents -> SUBSET Agents]
  /\ pushes \subseteq Push
  /\ released \subseteq Msgs /\ handed \subseteq Msgs /\ refused \subseteq Msgs
  /\ faults \in 0..MaxFaults

\* The network rule of accept_replica and deposit: in no mailbox of any node
\* are there more than Cap messages with the same sender_block_ref, however
\* deposits, pushes by several nodes, polls and restarts interleave.
CapHolds ==
  \A n \in Nodes, m \in Msgs, from \in Nodes :
    \A k \in {c.key : c \in box[n]} : Cardinality(FromSender(box[n], k, m, from)) <= Cap

\* The requests and shared messages a node took by itself can be claimed by
\* the next poll for as long as they live, although the bucket they are in
\* belongs to the epoch of the deposit.
DepositsAreClaimable ==
  \A n \in Nodes : \A c \in Live(box[n]) :
    c.key[1] # "token" => c.key \in ClaimedKeys(Recipient[c.msg], Rebound)

\* A poll that cannot hand over all it claims puts the rest back: what leaves
\* a mailbox by a poll has been handed over.
PollLosesNothing ==
  [][\A a \in Agents : Poll(a) =>
       \A c \in Live(box[Home[a]]) \ box'[Home[a]] : c.msg \in handed']_vars

\* While a sender is blocked nothing that the recipient's own node took from it
\* waits in the recipient's request mailboxes, whatever epoch it came in.  (What
\* a peer pushes is not asked for a block, and a peer that has a message from the
\* chain too may push back what the node itself had sent it.)
BlockHolds ==
  \A a \in Agents : \A c \in Live(box[Home[a]]) :
    /\ Class[c.msg] = "request" /\ Recipient[c.msg] = a
    /\ c.from = Home[a] /\ c.msg \notin OnChain
    => Sender[c.msg] \notin blocks[a]

\* "test_request_mailbox_binding_rotation_claims_previous_bound_once" and
\* previous_bound: when the client's token changes, what arrived under the old
\* one is still collected by the poll that presents the new one.
RotationLosesNothing ==
  [][\A a \in Agents : Poll(a) =>
       \A c \in Live(box'[Home[a]]) :
         c.key \notin BoundKeys(a, BindingOf(a)) \/ c.msg \in handed']_vars
=============================================================================
