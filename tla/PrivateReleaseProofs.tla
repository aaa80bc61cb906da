------------------------ MODULE PrivateReleaseProofs ------------------------
(***************************************************************************)
(* Theorems of PrivateRelease, for every set of messages, every assignment  *)
(* of lanes and recipients, every set of surroundings and every number of   *)
(* faults.                                                                  *)
(***************************************************************************)
EXTENDS PrivateRelease, TLAPS

\* A forgotten entry is a session entry.
LEMMA NoSessionType == NoSession \in SessionState
  BY DEF SessionState, NoSession

\* A noted failure leaves a session entry.
LEMMA NotedType ==
  ASSUME NEW s \in SessionState
  PROVE  Noted(s) \in SessionState
  BY DEF Noted, SessionState

\* Reloading the file gives every message a state of the outbox.
LEMMA LoadedType ==
  ASSUME NEW states \in [Msgs -> ReleaseState]
  PROVE  Loaded(states) \in [Msgs -> ReleaseState]
  BY DEF Loaded, ReleaseState

\* Whether the write succeeds or fails, memory, disk and the faults left keep
\* their types.
LEMMA SavedType ==
  ASSUME TypeOK, NEW m, NEW st \in ReleaseState, Saved(m, st) \/ SaveFailed
  PROVE  /\ items' \in [Msgs -> ReleaseState]
         /\ disk' \in [Msgs -> ReleaseState]
         /\ faults' \in Nat
  BY FaultsAssumption DEF TypeOK, Saved, SaveFailed, ReleaseState

\* Every variable keeps its type.
THEOREM TypeCorrect == Spec => []TypeOK
<1>1. Init => TypeOK
  <2> SUFFICES ASSUME Init PROVE TypeOK
    OBVIOUS
  <2>1. items \in [Msgs -> ReleaseState] /\ disk \in [Msgs -> ReleaseState]
    BY DEF Init, ReleaseState
  <2>2. session \in [Msgs -> SessionState]
    BY NoSessionType DEF Init
  <2>3. pc \in PC /\ wtier \in Tier /\ faults \in Nat
    BY FaultsAssumption DEF Init, PC, Tier
  <2>4. /\ alias \in [Msgs -> {"none", "pending", "committed"}]
        /\ carried \in [Msgs -> SUBSET Carrier]
    BY DEF Init
  <2>5. QED
    BY <2>1, <2>2, <2>3, <2>4 DEF Init, TypeOK
<1>2. TypeOK /\ [Next]_vars => TypeOK'
  <2> SUFFICES ASSUME TypeOK, [Next]_vars PROVE TypeOK'
    OBVIOUS
  <2>1. CASE \E m \in Msgs : Compose(m)
    BY <2>1 DEF Compose, TypeOK, outbox, worker
  <2>2. CASE \E m \in Msgs : Enqueue(m)
    <3>1. PICK m \in Msgs : Enqueue(m)
      BY <2>2
    <3>2. /\ items' \in [Msgs -> ReleaseState]
          /\ disk' \in [Msgs -> ReleaseState]
          /\ faults' \in Nat
      BY <3>1, SavedType DEF Enqueue, ReleaseState, TypeOK
    <3>3. QED
      BY <3>1, <3>2 DEF Enqueue, TypeOK, worker
  <2>3. CASE \E m \in Msgs : Approve(m)
    <3>1. PICK m \in Msgs : Approve(m)
      BY <2>3
    <3>2. session' \in [Msgs -> SessionState]
      <4>1. session' = [session EXCEPT ![m] = [session[m] EXCEPT !.approved = TRUE,
                                                !.wait = FALSE, !.required = FALSE]]
        BY <3>1 DEF Approve
      <4>2. [session[m] EXCEPT !.approved = TRUE, !.wait = FALSE, !.required = FALSE]
              \in SessionState
        BY DEF TypeOK, SessionState
      <4>3. QED
        BY <4>1, <4>2 DEF TypeOK
    <3>3. policy' \subseteq Contacts /\ consented' \subseteq Contacts
      <4>1. Recipient[m] \in Contacts
        BY RecipientAssumption
      <4>2. /\ policy' \in {policy, policy \cup {Recipient[m]}}
            /\ consented' \in {consented, consented \cup {Recipient[m]}}
        BY <3>1 DEF Approve
      <4>3. QED
        BY <4>1, <4>2 DEF TypeOK
    <3>4. QED
      BY <3>1, <3>2, <3>3 DEF Approve, TypeOK, worker
  <2>4. CASE \E m \in Msgs : KeepWaiting(m)
    <3>1. PICK m \in Msgs : KeepWaiting(m)
      BY <2>4
    <3>2. session' = [session EXCEPT ![m] = [session[m] EXCEPT !.approved = FALSE,
                                              !.wait = TRUE, !.required = FALSE]]
      BY <3>1 DEF KeepWaiting
    <3>3. [session[m] EXCEPT !.approved = FALSE, !.wait = TRUE, !.required = FALSE]
            \in SessionState
      BY DEF TypeOK, SessionState
    <3>4. session' \in [Msgs -> SessionState]
      BY <3>2, <3>3 DEF TypeOK
    <3>5. QED
      BY <3>1, <3>4 DEF KeepWaiting, TypeOK, worker
  <2>5. CASE \E c \in Contacts : GrantContact(c)
    BY <2>5 DEF GrantContact, TypeOK, outbox, worker
  <2>6. CASE EnsureStarted \/ BeginPass \/ ListPending \/ EndPass
    BY <2>6, EnvironmentsAssumption
       DEF EnsureStarted, BeginPass, ListPending, EndPass, TypeOK, PC, Environment, outbox
  <2>7. CASE \E m \in Msgs : Hold(m)
    <3>1. PICK m \in Msgs : Hold(m)
      BY <2>7
    <3>2. QueueAgain(m)
      BY <3>1 DEF Hold, HoldBelowFloor, HoldAnonymous, HoldForApproval
    <3>3. /\ items' \in [Msgs -> ReleaseState]
          /\ disk' \in [Msgs -> ReleaseState]
          /\ faults' \in Nat
      BY <3>2, SavedType DEF QueueAgain, ReleaseState
    <3>4. pc' \in PC /\ todo' \subseteq Msgs
      BY <3>2 DEF QueueAgain, PC, TypeOK
    <3>5. session' \in [Msgs -> SessionState]
      <4>1. session' = session \/ Note(m) \/ Clear(m)
        BY <3>1 DEF Hold, HoldBelowFloor, HoldAnonymous, HoldForApproval
      <4>2. QED
        BY <4>1, NotedType, NoSessionType DEF Note, Clear, TypeOK
    <3>6. QED
      BY <3>1, <3>3, <3>4, <3>5
         DEF Hold, HoldBelowFloor, HoldAnonymous, HoldForApproval, TypeOK
  <2>8. CASE \E m \in Msgs : TakeItem(m)
    <3>1. PICK m \in Msgs : TakeItem(m)
      BY <2>8
    <3>2. session' \in [Msgs -> SessionState]
      BY <3>1, NotedType, NoSessionType DEF TakeItem, Note, Clear, TypeOK
    <3>3. QED
      BY <3>1, <3>2 DEF TakeItem, TypeOK, PC
  <2>9. CASE HoldUnattested \/ Requeue
    <3>1. QueueAgain(cur) /\ LetGo
      BY <2>9 DEF HoldUnattested, Requeue
    <3>2. /\ items' \in [Msgs -> ReleaseState]
          /\ disk' \in [Msgs -> ReleaseState]
          /\ faults' \in Nat
      BY <3>1, SavedType DEF QueueAgain, ReleaseState
    <3>3. session' \in [Msgs -> SessionState]
      BY <2>9, NotedType, NoSessionType DEF HoldUnattested, Requeue, Note, TypeOK
    <3>4. QED
      BY <2>9, <3>1, <3>2, <3>3 DEF HoldUnattested, Requeue, QueueAgain, LetGo, TypeOK, PC
  <2>10. CASE MarkReleasing
    <3>1. /\ items' \in [Msgs -> ReleaseState]
          /\ disk' \in [Msgs -> ReleaseState]
          /\ faults' \in Nat
      BY <2>10, SavedType DEF MarkReleasing, ReleaseState
    <3>2. QED
      BY <2>10, <3>1 DEF MarkReleasing, TypeOK, PC, InFlight
  <2>11. CASE ReadConsent
    <3>1. consent' \in BOOLEAN
      BY <2>11 DEF ReadConsent
    <3>2. QED
      BY <2>11, <3>1 DEF ReadConsent, TypeOK, PC, InFlight, outbox
  <2>12. CASE Route
    <3>1. RouteOf \in {"refused", "unapproved", "gate", "hidden", "direct", "relay"}
      BY DEF RouteOf
    <3>2. QED
      BY <2>12, <3>1 DEF Route, TypeOK, PC, InFlight, outbox
  <2>13. CASE SendDirect
    <3>1. carried' \in [Msgs -> SUBSET Carrier] /\ pc' \in PC
      BY <2>13 DEF SendDirect, Carry, TypeOK, Carrier, PC, InFlight
    <3>2. retryNoted' \in BOOLEAN
      BY <2>13 DEF SendDirect, TypeOK
    <3>3. QED
      BY <2>13, <3>1, <3>2 DEF SendDirect, TypeOK, outbox
  <2>14. CASE DepositRelay
    <3>1. carried' \in [Msgs -> SUBSET Carrier] /\ pc' \in PC
      BY <2>14 DEF DepositRelay, Carry, TypeOK, Carrier, PC, InFlight
    <3>2. QED
      BY <2>14, <3>1 DEF DepositRelay, TypeOK, outbox
  <2>15. CASE PublishGate
    <3>1. carried' \in [Msgs -> SUBSET Carrier] /\ pc' \in PC
      BY <2>15 DEF PublishGate, Carry, TypeOK, Carrier, PC, InFlight
    <3>2. items' = items /\ disk' = disk /\ faults' \in Nat
      BY <2>15 DEF PublishGate, SaveFailed, TypeOK
    <3>3. QED
      BY <2>15, <3>1, <3>2 DEF PublishGate, TypeOK
  <2>16. CASE MarkDelivered
    <3>1. /\ items' \in [Msgs -> ReleaseState]
          /\ disk' \in [Msgs -> ReleaseState]
          /\ faults' \in Nat
      BY <2>16, SavedType DEF MarkDelivered, ReleaseState
    <3>2. session' \in [Msgs -> SessionState]
      BY <2>16, NotedType, NoSessionType DEF MarkDelivered, Clear, TypeOK
    <3>3. QED
      BY <2>16, <3>1, <3>2 DEF MarkDelivered, LetGo, TypeOK, PC
  <2>17. CASE CommitAlias
    <3>1. session' \in [Msgs -> SessionState]
      BY <2>17, NotedType, NoSessionType DEF CommitAlias, Clear, TypeOK
    <3>2. alias' \in [Msgs -> {"none", "pending", "committed"}] /\ faults' \in Nat
      BY <2>17 DEF CommitAlias, TypeOK
    <3>3. QED
      BY <2>17, <3>1, <3>2 DEF CommitAlias, LetGo, TypeOK, PC
  <2>18. CASE EnvChange
    BY <2>18 DEF EnvChange, TypeOK, outbox, worker
  <2>19. CASE Restart
    <3>1. items' \in [Msgs -> ReleaseState]
      BY <2>19, LoadedType DEF Restart, TypeOK
    <3>2. session' \in [Msgs -> SessionState]
      BY <2>19, NotedType, NoSessionType DEF Restart
    <3>3. alias' \in [Msgs -> {"none", "pending", "committed"}] /\ faults' \in Nat
      BY <2>19 DEF Restart, TypeOK
    <3>4. QED
      BY <2>19, <3>1, <3>2, <3>3 DEF Restart, LetGo, TypeOK, PC
  <2>20. CASE \E m \in Msgs : WindowPasses(m)
    BY <2>20 DEF WindowPasses, TypeOK, SessionState, worker
  <2>21. CASE \E m \in Msgs : RotationExpires(m)
    BY <2>21 DEF RotationExpires, TypeOK, outbox, worker
  <2>22. CASE \E c \in Contacts : PolicyLapses(c)
    BY <2>22 DEF PolicyLapses, TypeOK, outbox, worker
  <2>23. CASE UNCHANGED vars
    BY <2>23 DEF vars, TypeOK
  <2>24. QED
    BY <2>1, <2>2, <2>3, <2>4, <2>5, <2>6, <2>7, <2>8, <2>9, <2>10, <2>11, <2>12, <2>13,
       <2>14, <2>15, <2>16, <2>17, <2>18, <2>19, <2>20, <2>21, <2>22, <2>23
       DEF Next, Worker, InHand, Api, Surroundings
<1>3. QED
  BY <1>1, <1>2, PTL DEF Spec
-----------------------------------------------------------------------------
\* The inductive invariant: what WriteAhead, DiskMirrorsMemory and the other
\* invariants of PrivateRelease need to know of the worker's place in the pass.

\* The snapshot still holds only pending items, the item in hand is no longer in
\* it, and one about to be marked "releasing" is pending.
InHandInv ==
  /\ \A m \in todo : items[m] \in Pending
  /\ pc \in InFlight \cup {"ready", "commit"} => cur \in Msgs \ todo
  /\ pc = "ready" => items[cur] \in Pending

OutboxInv == InHandInv /\ DiskMirrorsMemory /\ WriteAhead

\* The dispatch succeeds only after a carrier took the item.
CarriedInv == DeliveredWasCarried /\ (pc = "deliver" => carried[cur] # {})

\* The rotation is committed only for the item just delivered.
RotationInv == RotationOnlyAfterRelease /\ (pc = "commit" => disk[cur] = "delivered")

\* A grant, an approved session entry and the consent in the worker's hands each
\* stem from an approval, and with secure DMs the relay is entered with consent.
ConsentInv ==
  /\ policy \subseteq consented
  /\ \A m \in DMs : session[m].approved => Recipient[m] \in consented
  /\ pc \in {"route", "direct", "relay"} /\ cur \in DMs /\ ApprovalOn /\ consent
       => Recipient[cur] \in consented
  /\ pc = "relay" /\ SecureDM => consent
  /\ RelayNeedsConsent
-----------------------------------------------------------------------------
\* Memory and disk: OutboxInv is inductive.

\* A step that leaves outbox and worker alone: the API's answers, time, grants.
LEMMA QuietStep ==
  ASSUME OutboxInv, UNCHANGED <<items, disk, worker>>
  PROVE  OutboxInv'
  BY DEF OutboxInv, InHandInv, DiskMirrorsMemory, WriteAhead, worker

\* A write that succeeds makes disk and memory equal; one that fails changes neither.
LEMMA SavedMirrors ==
  ASSUME TypeOK, DiskMirrorsMemory, NEW m, NEW st, Saved(m, st) \/ SaveFailed
  PROVE  DiskMirrorsMemory'
  BY DEF TypeOK, DiskMirrorsMemory, Saved, SaveFailed

\* Queueing a pending item again leaves the snapshot pending and nothing in hand.
LEMMA QueueAgainStep ==
  ASSUME TypeOK, OutboxInv, NEW m \in Msgs, QueueAgain(m)
  PROVE  OutboxInv'
<1>1. DiskMirrorsMemory'
  BY SavedMirrors DEF OutboxInv, QueueAgain
<1>2. pc' \notin InFlight \cup {"ready", "commit"}
  BY DEF QueueAgain, InFlight
<1>3. \A n \in todo' : items'[n] \in Pending
  BY DEF QueueAgain, Saved, SaveFailed, OutboxInv, InHandInv, TypeOK, Pending
<1>4. QED
  BY <1>1, <1>2, <1>3 DEF OutboxInv, InHandInv, WriteAhead, InFlight

THEOREM OutboxInvariant == Spec => []OutboxInv
<1>1. Init => OutboxInv
  BY DEF Init, OutboxInv, InHandInv, DiskMirrorsMemory, WriteAhead, InFlight
<1>2. TypeOK /\ OutboxInv /\ [Next]_vars => OutboxInv'
  <2> SUFFICES ASSUME TypeOK, OutboxInv, [Next]_vars PROVE OutboxInv'
    OBVIOUS
  <2>1. CASE \/ \E m \in Msgs : \/ Compose(m) \/ Approve(m) \/ KeepWaiting(m)
                              \/ WindowPasses(m) \/ RotationExpires(m)
             \/ \E c \in Contacts : GrantContact(c) \/ PolicyLapses(c)
             \/ EnvChange \/ UNCHANGED vars
    <3>1. UNCHANGED <<items, disk, worker>>
      BY <2>1 DEF Compose, Approve, KeepWaiting, WindowPasses, RotationExpires,
                  GrantContact, PolicyLapses, EnvChange, outbox, worker, vars
    <3>2. QED
      BY <3>1, QuietStep
  <2>2. CASE \E m \in Msgs : Enqueue(m)
    <3>1. PICK m \in Msgs : Enqueue(m)
      BY <2>2
    <3>2. DiskMirrorsMemory'
      BY <3>1, SavedMirrors DEF Enqueue, OutboxInv
    <3>3. InHandInv'
      BY <3>1 DEF Enqueue, Saved, SaveFailed, OutboxInv, InHandInv, TypeOK, worker, Pending
    <3>4. WriteAhead'
      BY <3>1 DEF Enqueue, Saved, SaveFailed, OutboxInv, InHandInv, WriteAhead, TypeOK, worker
    <3>5. QED
      BY <3>2, <3>3, <3>4 DEF OutboxInv
  <2>3. CASE EnsureStarted \/ BeginPass \/ ListPending \/ EndPass
    BY <2>3 DEF EnsureStarted, BeginPass, ListPending, EndPass, OutboxInv, InHandInv,
                DiskMirrorsMemory, WriteAhead, InFlight, TypeOK, outbox
  <2>4. CASE \E m \in Msgs : Hold(m)
    BY <2>4, QueueAgainStep DEF Hold, HoldBelowFloor, HoldAnonymous, HoldForApproval
  <2>5. CASE \E m \in Msgs : TakeItem(m)
    BY <2>5 DEF TakeItem, Turn, OutboxInv, InHandInv, DiskMirrorsMemory, WriteAhead,
                InFlight, TypeOK
  <2>6. CASE HoldUnattested \/ Requeue
    <3>1. cur \in Msgs /\ QueueAgain(cur)
      BY <2>6 DEF HoldUnattested, Requeue, OutboxInv, InHandInv, InFlight
    <3>2. QED
      BY <3>1, QueueAgainStep
  <2>7. CASE MarkReleasing
    <3>1. DiskMirrorsMemory'
      BY <2>7, SavedMirrors DEF MarkReleasing, OutboxInv
    <3>2. cur \in Msgs \ todo
      BY <2>7 DEF MarkReleasing, OutboxInv, InHandInv
    <3>3. CASE SaveFailed /\ pc' = "off" /\ todo' = {}
      BY <3>1, <3>3 DEF OutboxInv, InHandInv, WriteAhead, InFlight
    <3>4. CASE Saved(cur, "releasing") /\ pc' = "consent" /\ UNCHANGED <<todo, cur>>
      BY <3>1, <3>2, <3>4 DEF Saved, OutboxInv, InHandInv, WriteAhead, InFlight, TypeOK
    <3>5. QED
      BY <2>7, <3>3, <3>4 DEF MarkReleasing
  <2>8. CASE ReadConsent \/ Route \/ SendDirect \/ DepositRelay \/ PublishGate
    <3>1. UNCHANGED <<items, disk, todo, cur>>
      BY <2>8 DEF ReadConsent, Route, SendDirect, DepositRelay, PublishGate, SaveFailed, outbox
    <3>2. pc \in InFlight
      BY <2>8 DEF ReadConsent, Route, SendDirect, DepositRelay, PublishGate, InFlight
    <3>3. pc' \in InFlight
      <4>1. RouteOf \in {"refused", "unapproved", "gate", "hidden", "direct", "relay"}
        BY DEF RouteOf
      <4>2. QED
        BY <2>8, <4>1 DEF ReadConsent, Route, SendDirect, DepositRelay, PublishGate, Carry, InFlight
    <3>4. QED
      BY <3>1, <3>2, <3>3 DEF OutboxInv, InHandInv, DiskMirrorsMemory, WriteAhead, InFlight
  <2>9. CASE MarkDelivered
    <3>1. DiskMirrorsMemory'
      BY <2>9, SavedMirrors DEF MarkDelivered, OutboxInv
    <3>2. cur \in Msgs \ todo
      BY <2>9 DEF MarkDelivered, OutboxInv, InHandInv, InFlight
    <3>3. pc' \in {"off", "item", "commit"} /\ (pc' = "commit" => cur' = cur /\ todo' = todo)
      BY <2>9 DEF MarkDelivered
    <3>4. \A n \in todo' : items'[n] \in Pending
      BY <2>9, <3>2 DEF MarkDelivered, Saved, SaveFailed, OutboxInv, InHandInv, TypeOK
    <3>5. QED
      BY <3>1, <3>2, <3>3, <3>4 DEF OutboxInv, InHandInv, WriteAhead, InFlight
  <2>10. CASE CommitAlias
    BY <2>10 DEF CommitAlias, OutboxInv, InHandInv, DiskMirrorsMemory, WriteAhead, InFlight
  <2>11. CASE Restart
    BY <2>11 DEF Restart, Loaded, OutboxInv, InHandInv, DiskMirrorsMemory, WriteAhead, InFlight
  <2>12. QED
    BY <2>1, <2>2, <2>3, <2>4, <2>5, <2>6, <2>7, <2>8, <2>9, <2>10, <2>11
       DEF Next, Worker, InHand, Api, Surroundings
<1>3. QED
  BY <1>1, <1>2, TypeCorrect, PTL DEF Spec

\* Memory and disk differ at most in a release that a restart queued again.
THEOREM MirrorsCorrect == Spec => []DiskMirrorsMemory
<1>1. OutboxInv => DiskMirrorsMemory
  BY DEF OutboxInv
<1>2. QED
  BY <1>1, OutboxInvariant, PTL

\* While an item is in flight, its attempt is on disk.
THEOREM WriteAheadCorrect == Spec => []WriteAhead
<1>1. OutboxInv => WriteAhead
  BY DEF OutboxInv
<1>2. QED
  BY <1>1, OutboxInvariant, PTL
-----------------------------------------------------------------------------
\* A delivered message is final.

\* A pending item is pending on disk too, and a delivered one delivered.
LEMMA PendingOnDisk ==
  ASSUME OutboxInv, NEW m \in Msgs
  PROVE  /\ items[m] \in Pending => disk[m] \in Pending
         /\ disk[m] = "delivered" => items[m] = "delivered"
  BY DEF OutboxInv, DiskMirrorsMemory, Pending

\* Writing an item that is not delivered leaves the delivered ones as they are.
LEMMA SavedKeepsDelivered ==
  ASSUME TypeOK, OutboxInv, NEW n, NEW st, Saved(n, st) \/ SaveFailed,
         n \in Msgs => items[n] # "delivered" \/ st = "delivered",
         NEW m \in Msgs, disk[m] = "delivered"
  PROVE  disk'[m] = "delivered"
  BY PendingOnDisk DEF Saved, SaveFailed, TypeOK

\* No step takes a delivered item back, nor hands it to a carrier.
LEMMA DeliveredStep ==
  ASSUME TypeOK, OutboxInv, [Next]_vars, NEW m \in Msgs, disk[m] = "delivered"
  PROVE  disk'[m] = "delivered" /\ carried'[m] = carried[m]
<1>1. CASE UNCHANGED <<disk, carried>>
  BY <1>1
<1>2. CASE \E n \in Msgs : Enqueue(n)
  BY <1>2, SavedKeepsDelivered DEF Enqueue
<1>3. CASE \E n \in Msgs : Hold(n)
  <2>1. PICK n \in Msgs : Hold(n)
    BY <1>3
  <2>2. items[n] \in Pending /\ QueueAgain(n) /\ carried' = carried
    BY <2>1 DEF Hold, HoldBelowFloor, HoldAnonymous, HoldForApproval, Turn,
                      OutboxInv, InHandInv
  <2>3. QED
    BY <2>2, SavedKeepsDelivered DEF QueueAgain, Pending
<1>4. CASE HoldUnattested \/ Requeue \/ MarkReleasing
  <2>1. cur \in Msgs /\ items[cur] \in Pending
    BY <1>4 DEF HoldUnattested, Requeue, MarkReleasing, OutboxInv, InHandInv,
                      WriteAhead, InFlight, Pending
  <2>2. /\ carried' = carried
        /\ SaveFailed \/ Saved(cur, "queued") \/ Saved(cur, "releasing")
    BY <1>4 DEF HoldUnattested, Requeue, MarkReleasing, QueueAgain
  <2>3. QED
    BY <2>1, <2>2, SavedKeepsDelivered DEF Pending
<1>5. CASE SendDirect \/ DepositRelay \/ PublishGate
  <2>1. m # cur
    BY <1>5 DEF SendDirect, DepositRelay, PublishGate, OutboxInv, WriteAhead, InFlight
  <2>2. disk' = disk /\ \E by \in SUBSET Carrier, next \in PC : Carry(by, next)
    BY <1>5 DEF SendDirect, DepositRelay, PublishGate, SaveFailed, Carrier, PC, InFlight, outbox
  <2>3. QED
    BY <2>1, <2>2 DEF Carry, TypeOK
<1>6. CASE MarkDelivered
  BY <1>6, SavedKeepsDelivered DEF MarkDelivered
<1>7. QED
  BY <1>1, <1>2, <1>3, <1>4, <1>5, <1>6
     DEF Next, Worker, InHand, Api, Surroundings, vars, outbox, Compose, Approve,
         KeepWaiting, GrantContact, EnsureStarted, BeginPass, ListPending, EndPass,
         TakeItem, ReadConsent, Route, CommitAlias, EnvChange, Restart, WindowPasses,
         RotationExpires, PolicyLapses

\* What is delivered on disk stays so and no carrier takes it again.
THEOREM DeliveredCorrect == Spec => DeliveredIsFinal
<1>1. TypeOK /\ OutboxInv /\ [Next]_vars
        => [\A m \in Msgs : disk[m] = "delivered" =>
              disk'[m] = "delivered" /\ carried'[m] = carried[m]]_vars
  BY DeliveredStep
<1>2. QED
  BY <1>1, TypeCorrect, OutboxInvariant, PTL DEF Spec, DeliveredIsFinal

-----------------------------------------------------------------------------
\* Only what a carrier took is delivered.

\* Writing an item as anything but delivered delivers nothing new.
LEMMA SavedDeliversNothing ==
  ASSUME TypeOK, OutboxInv, NEW n, NEW st, Saved(n, st) \/ SaveFailed,
         n \in Msgs => st # "delivered", NEW m \in Msgs
  PROVE  "delivered" \in {items'[m], disk'[m]} => "delivered" \in {items[m], disk[m]}
  BY DEF Saved, SaveFailed, TypeOK

LEMMA CarriedInvariant == Spec => []CarriedInv
<1>1. Init => CarriedInv
  BY DEF Init, CarriedInv, DeliveredWasCarried
<1>2. TypeOK /\ OutboxInv /\ CarriedInv /\ [Next]_vars => CarriedInv'
  <2> SUFFICES ASSUME TypeOK, OutboxInv, CarriedInv, [Next]_vars PROVE CarriedInv'
    OBVIOUS
  <2>1. CASE UNCHANGED <<items, disk, carried, pc, cur>>
    BY <2>1 DEF CarriedInv, DeliveredWasCarried
  <2>2. CASE /\ UNCHANGED <<items, disk, carried>>
             /\ pc' # "deliver"
    BY <2>2 DEF CarriedInv, DeliveredWasCarried
  <2>3. CASE \E n \in Msgs : Enqueue(n)
    <3>1. PICK n \in Msgs : Enqueue(n)
      BY <2>3
    <3>2. \A m \in Msgs : "delivered" \in {items'[m], disk'[m]}
                            => "delivered" \in {items[m], disk[m]}
      BY <3>1, SavedDeliversNothing DEF Enqueue
    <3>3. QED
      BY <3>1, <3>2 DEF Enqueue, worker, CarriedInv, DeliveredWasCarried
  <2>4. CASE (\E n \in Msgs : Hold(n)) \/ HoldUnattested \/ Requeue \/ MarkReleasing
    <3>1. /\ \/ SaveFailed
             \/ \E n \in Msgs \cup {NoMsg}, st \in {"queued", "releasing"} : Saved(n, st)
          /\ carried' = carried
          /\ pc' # "deliver"
      BY <2>4 DEF Hold, HoldBelowFloor, HoldAnonymous, HoldForApproval, HoldUnattested,
                  Requeue, MarkReleasing, QueueAgain, TypeOK
    <3>2. \A m \in Msgs : "delivered" \in {items'[m], disk'[m]}
                            => "delivered" \in {items[m], disk[m]}
      BY <3>1, SavedDeliversNothing
    <3>3. QED
      BY <3>1, <3>2 DEF CarriedInv, DeliveredWasCarried
  <2>5. CASE SendDirect \/ DepositRelay \/ PublishGate
    <3>1. PICK by \in SUBSET Carrier, next \in PC :
            Carry(by, next) /\ (next = "deliver" => by # {})
      BY <2>5 DEF SendDirect, DepositRelay, PublishGate, Carrier, PC, InFlight
    <3>2. UNCHANGED <<items, disk, cur>> /\ cur \in Msgs
      BY <2>5 DEF SendDirect, DepositRelay, PublishGate, SaveFailed, outbox, OutboxInv,
                  InHandInv, InFlight
    <3>3. QED
      BY <3>1, <3>2 DEF Carry, CarriedInv, DeliveredWasCarried, TypeOK
  <2>6. CASE MarkDelivered
    <3>1. carried[cur] # {} /\ carried' = carried /\ pc' # "deliver"
      BY <2>6 DEF MarkDelivered, CarriedInv
    <3>2. \A m \in Msgs : m # cur /\ "delivered" \in {items'[m], disk'[m]}
                            => "delivered" \in {items[m], disk[m]}
      BY <2>6 DEF MarkDelivered, Saved, SaveFailed, TypeOK
    <3>3. QED
      BY <3>1, <3>2 DEF CarriedInv, DeliveredWasCarried
  <2>7. CASE Restart
    BY <2>7 DEF Restart, Loaded, CarriedInv, DeliveredWasCarried
  <2>8. CASE Route
    <3>1. RouteOf \in {"refused", "unapproved", "gate", "hidden", "direct", "relay"}
      BY DEF RouteOf
    <3>2. UNCHANGED <<items, disk, carried>> /\ pc' # "deliver"
      BY <2>8, <3>1 DEF Route, outbox
    <3>3. QED
      BY <2>2, <3>2
  <2>9. QED
    BY <2>1, <2>2, <2>3, <2>4, <2>5, <2>6, <2>7, <2>8
       DEF Next, Worker, InHand, Api, Surroundings, vars, outbox, worker, Compose, Approve,
           KeepWaiting, GrantContact, EnsureStarted, BeginPass, ListPending, EndPass,
           TakeItem, ReadConsent, CommitAlias, EnvChange, WindowPasses,
           RotationExpires, PolicyLapses
<1>3. QED
  BY <1>1, <1>2, TypeCorrect, OutboxInvariant, PTL DEF Spec

\* A message that counts as delivered, in memory or on disk, was taken by a carrier.
THEOREM CarriedCorrect == Spec => []DeliveredWasCarried
<1>1. CarriedInv => DeliveredWasCarried
  BY DEF CarriedInv
<1>2. QED
  BY <1>1, CarriedInvariant, PTL

-----------------------------------------------------------------------------
\* Alias rotations.

\* The rotation is committed by the one step that follows mark_delivered.
LEMMA RotationInvariant == Spec => []RotationInv
<1>1. Init => RotationInv
  BY DEF Init, RotationInv, RotationOnlyAfterRelease
<1>2. TypeOK /\ OutboxInv /\ RotationInv /\ [Next]_vars => RotationInv'
  <2> SUFFICES ASSUME TypeOK, OutboxInv, RotationInv, [Next]_vars PROVE RotationInv'
    OBVIOUS
  <2>1. \A m \in Msgs : alias'[m] = "committed"
                          => alias[m] = "committed" \/ (CommitAlias /\ m = cur)
    BY DEF Next, Worker, InHand, Api, Surroundings, vars, outbox, worker, Compose, Enqueue,
           Approve, KeepWaiting, GrantContact, EnsureStarted, BeginPass, ListPending,
           EndPass, Hold, HoldBelowFloor, HoldAnonymous, HoldForApproval, TakeItem,
           HoldUnattested, MarkReleasing, ReadConsent, Route, SendDirect, DepositRelay,
           PublishGate, MarkDelivered, CommitAlias, Requeue, EnvChange, Restart,
           WindowPasses, RotationExpires, PolicyLapses, TypeOK
  <2>2. CommitAlias => disk[cur] = "delivered"
    BY DEF CommitAlias, RotationInv
  <2>3. RotationOnlyAfterRelease'
    BY <2>1, <2>2, DeliveredStep DEF RotationInv, RotationOnlyAfterRelease
  <2>4. pc' = "commit" => disk'[cur'] = "delivered"
    <3>1. pc' = "commit" =>
            \/ pc = "commit" /\ cur' = cur /\ cur \in Msgs /\ disk[cur] = "delivered"
            \/ MarkDelivered
      <4>1. pc = "commit" => cur \in Msgs /\ disk[cur] = "delivered"
        BY DEF RotationInv, OutboxInv, InHandInv
      <4>2. RouteOf # "commit"
        BY DEF RouteOf
      <4>3. QED
        BY <4>1, <4>2
           DEF Next, Worker, InHand, Api, Surroundings, vars, worker, Compose, Enqueue,
               Approve, KeepWaiting, GrantContact, EnsureStarted, BeginPass, ListPending,
               EndPass, Hold, HoldBelowFloor, HoldAnonymous, HoldForApproval, QueueAgain,
               TakeItem, HoldUnattested, MarkReleasing, ReadConsent, Route, SendDirect,
               DepositRelay, PublishGate, Carry, CommitAlias, Requeue, EnvChange, Restart,
               WindowPasses, RotationExpires, PolicyLapses
    <3>2. MarkDelivered /\ pc' = "commit" => disk'[cur'] = "delivered"
      BY DEF MarkDelivered, Saved, OutboxInv, InHandInv, InFlight, TypeOK
    <3>3. QED
      BY <3>1, <3>2, DeliveredStep
  <2>5. QED
    BY <2>3, <2>4 DEF RotationInv
<1>3. QED
  BY <1>1, <1>2, TypeCorrect, OutboxInvariant, PTL DEF Spec

\* An alias rotation takes effect only once its message is delivered on disk.
THEOREM RotationCorrect == Spec => []RotationOnlyAfterRelease
<1>1. RotationInv => RotationOnlyAfterRelease
  BY DEF RotationInv
<1>2. QED
  BY <1>1, RotationInvariant, PTL
-----------------------------------------------------------------------------
\* Consent to the relay.

\* A step that adds no approval, no grant and no history, and leaves the worker
\* where it is, keeps the consent where it is.
LEMMA ConsentStep ==
  ASSUME TypeOK, ConsentInv,
         policy' \subseteq policy, consented' = consented,
         \A m \in DMs : session'[m].approved => session[m].approved,
         \A m \in DMs : "relay" \in carried'[m] => "relay" \in carried[m],
         \/ UNCHANGED <<pc, cur, consent>>
         \/ pc' \notin {"route", "direct", "relay"}
  PROVE  ConsentInv'
  BY DEF ConsentInv, RelayNeedsConsent

\* What the worker does with a session entry never approves it.
LEMMA SessionStep ==
  ASSUME TypeOK, NEW n, Note(n) \/ Clear(n) \/ UNCHANGED session
  PROVE  \A m \in DMs : session'[m].approved => session[m].approved
<1>1. \A s \in SessionState : Noted(s).approved = s.approved
  BY DEF Noted, SessionState
<1>2. NoSession.approved = FALSE
  BY DEF NoSession
<1>3. QED
  BY <1>1, <1>2 DEF Note, Clear, TypeOK, DMs

LEMMA ConsentInvariant == Spec => []ConsentInv
<1>1. Init => ConsentInv
  BY DEF Init, ConsentInv, NoSession, RelayNeedsConsent, DMs
<1>2. TypeOK /\ OutboxInv /\ ConsentInv /\ [Next]_vars => ConsentInv'
  <2> SUFFICES ASSUME TypeOK, OutboxInv, ConsentInv, [Next]_vars PROVE ConsentInv'
    OBVIOUS
  <2>1. CASE \/ \E m \in Msgs : Compose(m) \/ Enqueue(m) \/ RotationExpires(m)
             \/ EnvChange \/ UNCHANGED vars
    <3>1. UNCHANGED <<policy, consented, session, carried, pc, cur, consent>>
      BY <2>1 DEF Compose, Enqueue, RotationExpires, EnvChange, vars, outbox, worker
    <3>2. QED
      BY <3>1, ConsentStep
  <2>2. CASE \E m \in Msgs : Approve(m)
    <3>1. PICK m \in Msgs : Approve(m)
      BY <2>2
    <3>2. policy' \subseteq consented' /\ consented \subseteq consented'
      BY <3>1 DEF Approve, ConsentInv
    <3>3. \A n \in DMs : session'[n].approved => Recipient[n] \in consented'
      <4>1. \A n \in DMs : n # m => session'[n] = session[n]
        BY <3>1 DEF Approve, TypeOK, DMs
      <4>2. m \in DMs => Recipient[m] \in consented'
        BY <3>1 DEF Approve, DMs
      <4>3. QED
        BY <3>2, <4>1, <4>2 DEF ConsentInv
    <3>4. UNCHANGED <<carried, pc, cur, consent>>
      BY <3>1 DEF Approve, worker
    <3>5. QED
      BY <3>2, <3>3, <3>4 DEF ConsentInv, RelayNeedsConsent
  <2>3. CASE \E m \in Msgs : KeepWaiting(m) \/ WindowPasses(m)
    <3>1. \A n \in DMs : session'[n].approved => session[n].approved
      BY <2>3 DEF KeepWaiting, WindowPasses, TypeOK, SessionState, DMs
    <3>2. UNCHANGED <<policy, consented, carried, pc, cur, consent>>
      BY <2>3 DEF KeepWaiting, WindowPasses, worker
    <3>3. QED
      BY <3>1, <3>2, ConsentStep
  <2>4. CASE \E c \in Contacts : GrantContact(c)
    BY <2>4 DEF GrantContact, ConsentInv, RelayNeedsConsent, outbox, worker
  <2>5. CASE \E c \in Contacts : PolicyLapses(c)
    <3>1. policy' \subseteq policy /\ UNCHANGED <<session, consented, carried, pc, cur, consent>>
      BY <2>5 DEF PolicyLapses, outbox, worker
    <3>2. QED
      BY <3>1, ConsentStep
  <2>6. CASE EnsureStarted \/ BeginPass \/ ListPending \/ EndPass \/ MarkReleasing
    <3>1. /\ UNCHANGED <<policy, consented, session, carried>>
          /\ pc' \notin {"route", "direct", "relay"}
      BY <2>6 DEF EnsureStarted, BeginPass, ListPending, EndPass, MarkReleasing, outbox
    <3>2. QED
      BY <3>1, ConsentStep
  <2>7. CASE (\E n \in Msgs : Hold(n) \/ TakeItem(n)) \/ HoldUnattested \/ Requeue
             \/ MarkDelivered \/ CommitAlias
    <3>1. \E n \in Msgs \cup {NoMsg} : Note(n) \/ Clear(n) \/ UNCHANGED session
      BY <2>7 DEF Hold, HoldBelowFloor, HoldAnonymous, HoldForApproval, TakeItem,
                  HoldUnattested, Requeue, MarkDelivered, CommitAlias, TypeOK
    <3>2. /\ UNCHANGED <<policy, consented, carried>>
          /\ pc' \notin {"route", "direct", "relay"}
      BY <2>7 DEF Hold, HoldBelowFloor, HoldAnonymous, HoldForApproval, TakeItem,
                  HoldUnattested, Requeue, MarkDelivered, CommitAlias, QueueAgain
    <3>3. QED
      BY <3>1, <3>2, SessionStep, ConsentStep
  <2>8. CASE ReadConsent
    <3>1. UNCHANGED <<policy, consented, session, carried, cur>> /\ pc' = "route"
      BY <2>8 DEF ReadConsent, outbox
    <3>2. ApprovalOn /\ consent' /\ cur \in DMs => Recipient[cur] \in consented
      BY <2>8 DEF ReadConsent, PolicyGrants, ConsentInv
    <3>3. QED
      BY <3>1, <3>2 DEF ConsentInv, RelayNeedsConsent
  <2>9. CASE Route
    <3>1. UNCHANGED <<policy, consented, session, carried, cur, consent>> /\ pc = "route"
      BY <2>9 DEF Route, outbox
    <3>2. pc' = "relay" /\ SecureDM => consent
      <4>1. pc' = "relay" => RouteOf = "relay"
        BY <2>9 DEF Route
      <4>2. env.anon \in BOOLEAN /\ env.hidden \in BOOLEAN
        BY EnvironmentsAssumption DEF TypeOK, Environment
      <4>3. SecureDM /\ RouteOf = "relay" => consent
        BY <4>2, SettingsAssumption DEF RouteOf, AnonymousWaiting, AnonymousEnforced
      <4>4. QED
        BY <4>1, <4>3
    <3>3. QED
      BY <3>1, <3>2 DEF ConsentInv, RelayNeedsConsent
  <2>10. CASE SendDirect
    <3>1. UNCHANGED <<policy, consented, session, cur, consent>> /\ pc = "direct"
      BY <2>10 DEF SendDirect, outbox
    <3>2. /\ pc' \in {"deliver", "requeue"} \/ (pc' = "relay" /\ consent)
          /\ \A m \in DMs : "relay" \in carried'[m] => "relay" \in carried[m]
      BY <2>10 DEF SendDirect, Carry, TypeOK, DMs
    <3>3. QED
      BY <3>1, <3>2 DEF ConsentInv, RelayNeedsConsent
  <2>11. CASE DepositRelay
    <3>1. /\ UNCHANGED <<policy, consented, session>>
          /\ pc \in {"relay", "hidden"} /\ pc' \in {"deliver", "requeue"}
      BY <2>11 DEF DepositRelay, Carry, outbox
    <3>2. \A m \in DMs : "relay" \in carried'[m] =>
                            "relay" \in carried[m] \/ (m = cur /\ pc = "relay")
      BY <2>11 DEF DepositRelay, Carry, TypeOK, DMs
    <3>3. QED
      BY <3>1, <3>2 DEF ConsentInv, RelayNeedsConsent
  <2>12. CASE PublishGate
    <3>1. /\ UNCHANGED <<policy, consented, session>>
          /\ pc' \in {"deliver", "requeue"}
          /\ \A m \in DMs : "relay" \in carried'[m] => "relay" \in carried[m]
      BY <2>12 DEF PublishGate, Carry, TypeOK, DMs
    <3>2. QED
      BY <3>1, ConsentStep
  <2>13. CASE Restart
    <3>1. \A m \in DMs : ~session'[m].approved
      BY <2>13 DEF Restart, NoSession, DMs
    <3>2. UNCHANGED <<policy, consented, carried>> /\ pc' = "off"
      BY <2>13 DEF Restart
    <3>3. QED
      BY <3>1, <3>2, ConsentStep
  <2>14. QED
    BY <2>1, <2>2, <2>3, <2>4, <2>5, <2>6, <2>7, <2>8, <2>9, <2>10, <2>11, <2>12, <2>13
       DEF Next, Worker, InHand, Api, Surroundings
<1>3. QED
  BY <1>1, <1>2, TypeCorrect, OutboxInvariant, PTL DEF Spec

\* With approval switched on, no secure direct message is left with the relay for
\* a contact for which nobody approved it.
THEOREM ConsentCorrect == Spec => []RelayNeedsConsent
<1>1. ConsentInv => RelayNeedsConsent
  BY DEF ConsentInv
<1>2. QED
  BY <1>1, ConsentInvariant, PTL
-----------------------------------------------------------------------------
\* The prompt.

\* The prompt stands only with the window over and no answer given; each write of
\* a session entry keeps that, whoever makes it.
THEOREM PromptCorrect == Spec => []PromptIsDue
<1> DEFINE Due(s) == s.required => s.window = "over" /\ ~s.approved /\ ~s.wait
<1>1. Init => PromptIsDue
  BY DEF Init, PromptIsDue, NoSession
<1>2. TypeOK /\ PromptIsDue /\ [Next]_vars => PromptIsDue'
  <2> SUFFICES ASSUME TypeOK, PromptIsDue, [Next]_vars PROVE PromptIsDue'
    OBVIOUS
  <2>1. \A s \in SessionState : Due(Noted(s))
    BY DEF Noted, SessionState
  <2>2. Due(NoSession)
    BY DEF NoSession
  <2>3. CASE \E n \in Msgs \cup {NoMsg} : Note(n) \/ Clear(n) \/ UNCHANGED session
    BY <2>1, <2>2, <2>3 DEF Note, Clear, TypeOK, PromptIsDue
  <2>4. CASE \E m \in Msgs : Approve(m) \/ KeepWaiting(m) \/ WindowPasses(m)
    <3>1. PICK m \in Msgs : Approve(m) \/ KeepWaiting(m) \/ WindowPasses(m)
      BY <2>4
    <3>2. \A n \in Msgs : n # m => session'[n] = session[n]
      BY <3>1 DEF Approve, KeepWaiting, WindowPasses, TypeOK
    <3>3. Due(session'[m])
      <4>1. session[m] \in SessionState /\ Due(session[m])
        BY DEF TypeOK, PromptIsDue
      <4>2. CASE Approve(m) \/ KeepWaiting(m)
        BY <4>1, <4>2 DEF Approve, KeepWaiting, TypeOK, SessionState
      <4>3. CASE WindowPasses(m)
        BY <4>1, <4>3 DEF WindowPasses, TypeOK, SessionState
      <4>4. QED
        BY <3>1, <4>2, <4>3
    <3>4. QED
      BY <3>2, <3>3 DEF PromptIsDue
  <2>5. CASE Restart
    BY <2>2, <2>5 DEF Restart, PromptIsDue
  <2>6. QED
    BY <2>3, <2>4, <2>5
       DEF Next, Worker, InHand, Api, Surroundings, vars, outbox, Compose, Enqueue,
           GrantContact, EnsureStarted, BeginPass, ListPending, EndPass, Hold,
           HoldBelowFloor, HoldAnonymous, HoldForApproval, TakeItem, HoldUnattested,
           MarkReleasing, ReadConsent, Route, SendDirect, DepositRelay, PublishGate,
           MarkDelivered, CommitAlias, Requeue, EnvChange, RotationExpires,
           PolicyLapses, TypeOK
<1>3. QED
  BY <1>1, <1>2, TypeCorrect, PTL DEF Spec

-----------------------------------------------------------------------------
\* The outbox implements ReleaseLifecycle.

\* A restart's view of an interrupted attempt is the same stage as the disk's.
LEMMA MirrorsStage ==
  ASSUME OutboxInv, NEW m \in Msgs
  PROVE  StageOf(items[m]) = Stage[m]
<1>1. Stage[m] = StageOf(disk[m])
  BY DEF Stage
<1>2. StageOf("queued") = "accepted" /\ StageOf("releasing") = "accepted"
  BY DEF StageOf, Pending
<1>3. QED
  BY <1>1, <1>2 DEF OutboxInv, DiskMirrorsMemory

\* A write moves one message to the stage of its new state and no other.
LEMMA SavedStage ==
  ASSUME TypeOK, OutboxInv, NEW n \in Msgs, NEW st, Saved(n, st)
  PROVE  Stage' = [Stage EXCEPT ![n] = StageOf(st)]
<1>1. \A m \in Msgs : disk'[m] = IF m = n THEN st ELSE items[m]
  BY DEF Saved, TypeOK
<1>2. Stage' = [m \in Msgs |-> StageOf(disk'[m])]
  BY DEF Stage
<1>3. \A m \in Msgs : StageOf(disk'[m]) = IF m = n THEN StageOf(st) ELSE Stage[m]
  BY <1>1, MirrorsStage
<1>4. QED
  BY <1>2, <1>3 DEF Stage

\* The steps that do not move a message: stage and handed stay.
LEMMA Stutter ==
  ASSUME TypeOK, OutboxInv, carried' = carried,
         \/ disk' = disk
         \/ \E n \in Msgs, st \in Pending : items[n] \in Pending /\ Saved(n, st)
  PROVE  UNCHANGED Lifecycle!lifecycleVars
<1>1. Handed' = Handed
  BY DEF Handed
<1>2. Stage' = Stage
  <2>1. CASE disk' = disk
    BY <2>1 DEF Stage
  <2>2. ASSUME NEW n \in Msgs, NEW st \in Pending, items[n] \in Pending, Saved(n, st)
        PROVE  Stage' = Stage
    <3>1. StageOf(st) = Stage[n]
      BY <2>2, MirrorsStage DEF StageOf, Pending
    <3>2. QED
      BY <2>2, <3>1, SavedStage DEF Stage
  <2>3. QED
    BY <2>1, <2>2
<1>3. QED
  BY <1>1, <1>2 DEF Lifecycle!lifecycleVars

\* Every step of the outbox is one of the abstract steps, or none.
LEMMA LifecycleStep ==
  ASSUME TypeOK, OutboxInv, CarriedInv, [Next]_vars
  PROVE  [Lifecycle!Next]_(Lifecycle!lifecycleVars)
<1>1. CASE UNCHANGED <<disk, carried>>
  BY <1>1, Stutter
<1>2. CASE \E m \in Msgs : Enqueue(m)
  <2>1. PICK m \in Msgs : Enqueue(m)
    BY <1>2
  <2>2. CASE SaveFailed
    BY <2>1, <2>2, Stutter DEF Enqueue, SaveFailed
  <2>3. CASE items[m] \in Pending /\ Saved(m, items[m])
    BY <2>1, <2>3, Stutter DEF Enqueue
  <2>4. CASE items[m] = "absent" /\ Saved(m, "queued")
    <3>1. Stage[m] = "none" /\ StageOf("queued") = "accepted"
      BY <2>4, MirrorsStage DEF StageOf, Pending
    <3>2. Stage' = [Stage EXCEPT ![m] = "accepted"]
      BY <2>4, <3>1, SavedStage
    <3>3. Handed' = Handed
      BY <2>1 DEF Enqueue, Handed
    <3>4. QED
      BY <3>1, <3>2, <3>3 DEF Lifecycle!Next, Lifecycle!Accept
  <2>5. QED
    BY <2>1, <2>2, <2>3, <2>4 DEF Enqueue, TypeOK, ReleaseState, Pending
<1>3. CASE (\E n \in Msgs : Hold(n)) \/ HoldUnattested \/ Requeue \/ MarkReleasing
  <2>1. carried' = carried
    BY <1>3 DEF Hold, HoldBelowFloor, HoldAnonymous, HoldForApproval, HoldUnattested,
                Requeue, MarkReleasing
  <2>2. \/ cur \in Msgs /\ items[cur] \in Pending
        \/ \E n \in Msgs : Hold(n)
    BY <1>3 DEF HoldUnattested, Requeue, MarkReleasing, OutboxInv, InHandInv, WriteAhead,
                InFlight, Pending
  <2>3. \/ disk' = disk
        \/ \E n \in Msgs, st \in Pending : items[n] \in Pending /\ Saved(n, st)
    BY <1>3, <2>2 DEF Hold, HoldBelowFloor, HoldAnonymous, HoldForApproval, Turn,
                HoldUnattested, Requeue, MarkReleasing, QueueAgain, SaveFailed, OutboxInv,
                InHandInv, Pending
  <2>4. QED
    BY <2>1, <2>3, Stutter
<1>4. CASE SendDirect \/ DepositRelay \/ PublishGate
  <2>1. disk' = disk /\ \E by \in SUBSET Carrier, next \in PC : Carry(by, next)
    BY <1>4 DEF SendDirect, DepositRelay, PublishGate, SaveFailed, Carrier, PC, InFlight, outbox
  <2>2. cur \in Msgs /\ disk[cur] = "releasing"
    BY <1>4 DEF SendDirect, DepositRelay, PublishGate, OutboxInv, InHandInv, WriteAhead, InFlight
  <2>3. Stage' = Stage /\ Stage[cur] = "accepted"
    BY <2>1, <2>2 DEF Stage, StageOf, Pending
  <2>4. Handed' \in {Handed, Handed \cup {cur}}
    <3>1. \A m \in Msgs : m # cur => carried'[m] = carried[m]
      BY <2>1 DEF Carry, TypeOK
    <3>2. carried[cur] \subseteq carried'[cur]
      BY <2>1, <2>2 DEF Carry, TypeOK
    <3>3. QED
      BY <2>2, <3>1, <3>2 DEF Handed
  <2>5. QED
    BY <2>2, <2>3, <2>4 DEF Lifecycle!Next, Lifecycle!HandOver, Lifecycle!lifecycleVars
<1>5. CASE MarkDelivered
  <2>1. cur \in Msgs /\ items[cur] = "releasing" /\ carried[cur] # {}
    BY <1>5 DEF MarkDelivered, OutboxInv, InHandInv, WriteAhead, InFlight, CarriedInv
  <2>2. CASE SaveFailed
    BY <1>5, <2>2, Stutter DEF MarkDelivered, SaveFailed
  <2>3. CASE Saved(cur, "delivered")
    <3>1. Stage[cur] = "accepted" /\ StageOf("delivered") = "released"
      BY <2>1, MirrorsStage DEF StageOf, Pending
    <3>2. Stage' = [Stage EXCEPT ![cur] = "released"]
      BY <2>1, <2>3, <3>1, SavedStage
    <3>3. Handed' = Handed /\ cur \in Handed
      BY <1>5, <2>1 DEF MarkDelivered, Handed
    <3>4. QED
      BY <2>1, <3>1, <3>2, <3>3 DEF Lifecycle!Next, Lifecycle!Release
  <2>4. QED
    BY <1>5, <2>2, <2>3 DEF MarkDelivered
<1>6. QED
  BY <1>1, <1>2, <1>3, <1>4, <1>5
     DEF Next, Worker, InHand, Api, Surroundings, vars, outbox, worker, Compose, Approve,
         KeepWaiting, GrantContact, EnsureStarted, BeginPass, ListPending, EndPass,
         TakeItem, ReadConsent, Route, CommitAlias, EnvChange, Restart, WindowPasses,
         RotationExpires, PolicyLapses

\* The outbox, its worker, its carriers and its crashes together implement
\* ReleaseLifecycle.
THEOREM LifecycleCorrect == Spec => ImplementsLifecycle
<1>1. Init => Lifecycle!Init
  <2> SUFFICES ASSUME Init PROVE Lifecycle!Init
    OBVIOUS
  <2>1. Handed = {}
    BY DEF Init, Handed
  <2>2. \A m \in Msgs : disk[m] = "absent"
    BY DEF Init
  <2>3. StageOf("absent") = "none"
    BY DEF StageOf, Pending
  <2>4. Stage = [m \in Msgs |-> "none"]
    BY <2>2, <2>3 DEF Stage
  <2>5. QED
    BY <2>1, <2>4 DEF Lifecycle!Init
<1>2. TypeOK /\ OutboxInv /\ CarriedInv /\ [Next]_vars
        => [Lifecycle!Next]_(Lifecycle!lifecycleVars)
  BY LifecycleStep
<1>3. QED
  BY <1>1, <1>2, TypeCorrect, OutboxInvariant, CarriedInvariant, PTL
     DEF Spec, ImplementsLifecycle, Lifecycle!Spec


-----------------------------------------------------------------------------
\* "Keep waiting".

\* A session entry loses the answer only when it is approved or forgotten.
LEMMA WaitingForgotten ==
  ASSUME TypeOK, NEW m \in DMs, session[m].wait, ~session'[m].wait, Next
  PROVE  \/ session'[m].approved
         \/ Restart
         \/ HoldBelowFloor(m) \/ HoldAnonymous(m) \/ MarkDelivered \/ CommitAlias
         \/ NoApprovalNeeded(m)
<1>0. m \in Msgs /\ session[m] \in SessionState /\ session \in [Msgs -> SessionState]
  BY DEF TypeOK, DMs
<1>1. \A n : Note(n) => session'[m].wait
  <2>1. \A s \in SessionState : Noted(s).wait = s.wait
    BY DEF Noted, SessionState
  <2> QED
    BY <1>0, <2>1 DEF Note
<1>2. \A n : Clear(n) => n = m
  BY <1>0 DEF Clear
<1>3. session' # session
  OBVIOUS
<1>4. ASSUME NEW n \in Msgs, Approve(n) PROVE session'[m].approved
  BY <1>0, <1>4 DEF Approve, SessionState
<1>5. ASSUME NEW n \in Msgs, KeepWaiting(n) \/ WindowPasses(n) PROVE FALSE
  BY <1>0, <1>5 DEF KeepWaiting, WindowPasses, SessionState
<1>6. ASSUME NEW n \in Msgs, Hold(n)
      PROVE  HoldBelowFloor(m) \/ HoldAnonymous(m)
  <2>1. CASE HoldForApproval(n)
    BY <1>1, <2>1 DEF HoldForApproval
  <2>2. CASE HoldBelowFloor(n)
    <3>1. Note(n) \/ Clear(n) \/ UNCHANGED session
      BY <2>2 DEF HoldBelowFloor
    <3> QED
      BY <1>1, <1>2, <1>3, <2>2, <3>1
  <2>3. CASE HoldAnonymous(n)
    <3>1. Clear(n) \/ UNCHANGED session
      BY <2>3 DEF HoldAnonymous
    <3> QED
      BY <1>2, <1>3, <2>3, <3>1
  <2> QED
    BY <1>6, <2>1, <2>2, <2>3 DEF Hold
<1>7. ASSUME NEW n \in Msgs, TakeItem(n) PROVE NoApprovalNeeded(m)
  <2>1. UNCHANGED session \/ Note(n) \/ (NoApprovalNeeded(n) /\ Clear(n))
    BY <1>7 DEF TakeItem
  <2> QED
    BY <1>1, <1>2, <1>3, <2>1
<1>8. ASSUME Requeue PROVE FALSE
  BY <1>1, <1>3, <1>8 DEF Requeue
<1> QED
  BY <1>3, <1>4, <1>5, <1>6, <1>7, <1>8
     DEF Next, Worker, InHand, Api, Surroundings, outbox, Compose, Enqueue,
         GrantContact, EnsureStarted, BeginPass, ListPending, EndPass, HoldUnattested,
         MarkReleasing, ReadConsent, Route, SendDirect, DepositRelay, PublishGate,
         EnvChange, RotationExpires, PolicyLapses

\* What the code does of an answer once given, on a node that has RNS.
WithRNS == \A e \in Environments : e.rnsEnabled = TRUE
LEMMA WaitingStep ==
  ASSUME WithRNS, TypeOK, OutboxInv, RotationInv, Next, NEW m \in DMs,
         session[m].wait, ~session'[m].wait
  PROVE  WaitingEnds(m)
<1>0. m \in Msgs /\ session \in [Msgs -> SessionState] /\ session[m] \in SessionState /\ LaneOf[m] = "dm"
  BY DEF TypeOK, DMs
<1>1. session' # session
  OBVIOUS
<1>2. CASE Restart
  BY <1>2 DEF Restart, WaitingEnds, TypeOK
<1>3. CASE HoldBelowFloor(m)
  <2>1. env.rnsEnabled = TRUE
    BY DEF WithRNS, TypeOK
  <2>2. StartsWindow(WaitingFor("dm", wtier, env.rnsEnabled))
    BY <2>1 DEF StartsWindow, WaitingFor, RequiredTier
  <2>3. ~Note(m)
    <3>1. \A s \in SessionState : Noted(s).wait = s.wait
      BY DEF Noted, SessionState
    <3> QED
      BY <1>0, <3>1 DEF Note
  <2>4. pc' \in {"item", "off"}
    BY <1>3 DEF HoldBelowFloor, QueueAgain
  <2>5. ~ApprovalOn
    BY <1>0, <1>1, <1>3, <2>2, <2>3, <2>4 DEF HoldBelowFloor
  <2> QED
    BY <2>5 DEF WaitingEnds, NoApprovalNeeded
<1>4. CASE HoldAnonymous(m)
  BY <1>4 DEF HoldAnonymous, AnonymousWaiting, WaitingEnds, NoApprovalNeeded
<1>5. CASE MarkDelivered
  <2>1. Saved(cur, "delivered") /\ Clear(cur)
    BY <1>1, <1>5 DEF MarkDelivered
  <2>2. cur = m
    BY <1>0, <2>1 DEF Clear
  <2>3. items'[m] = "delivered"
    BY <1>0, <2>1, <2>2 DEF Saved, TypeOK
  <2> QED
    BY <2>3 DEF WaitingEnds
<1>6. CASE CommitAlias
  <2>1. Clear(cur) /\ pc = "commit" /\ items' = items
    BY <1>6 DEF CommitAlias
  <2>2. cur = m
    BY <1>0, <2>1 DEF Clear
  <2>3. disk[m] = "delivered"
    BY <2>1, <2>2 DEF RotationInv
  <2>4. items[m] = "delivered"
    BY <1>0, <2>3 DEF OutboxInv, DiskMirrorsMemory
  <2> QED
    BY <2>1, <2>4 DEF WaitingEnds
<1>7. CASE session'[m].approved \/ NoApprovalNeeded(m)
  BY <1>7 DEF WaitingEnds
<1> QED
  BY <1>2, <1>3, <1>4, <1>5, <1>6, <1>7, WaitingForgotten

\* On a node with RNS an answer to keep waiting stands as KeepsWaiting says,
\* whichever of the worker, the dispatcher and the API writes the session entry
\* next.  (Without RNS, a tier that is lost and found again forgets it.)
THEOREM WaitingStands == WithRNS => (Spec => KeepsWaiting)
<1> SUFFICES ASSUME WithRNS PROVE Spec => KeepsWaiting
  OBVIOUS
<1>1. TypeOK /\ OutboxInv /\ RotationInv /\ [Next]_vars =>
        [\A m \in DMs :
           session[m].wait /\ session[m].window = "over" /\ ~session'[m].wait
             => WaitingEnds(m)]_vars
  BY WaitingStep
<1> QED
  BY <1>1, TypeCorrect, OutboxInvariant, RotationInvariant, PTL DEF Spec, KeepsWaiting
=============================================================================
