--------------------------- MODULE PrivateRelease ---------------------------
(***************************************************************************)
(* The release of sealed messages: PrivateOutbox (mesh_private_outbox.py),  *)
(* the single thread of PrivateReleaseWorker (mesh_private_release_worker), *)
(* attempt_private_release (mesh_private_dispatcher.py), the scoped relay   *)
(* grants they read, and the API threads that enqueue, approve and wait.    *)
(*                                                                          *)
(* Every method of the outbox runs under its lock and writes the whole      *)
(* outbox to one file, so each is one atomic step here.  The worker takes   *)
(* several such steps per item, and everything it read in an earlier step   *)
(* (the tier of the pass, the user's consent) may be stale in a later one.  *)
(***************************************************************************)
EXTENDS PrivacyPolicy, FiniteSets

CONSTANTS
  Msgs,          \* release keys (msg_id / event_id), one outbox item each
  NoMsg,         \* the worker holds no item
  LaneOf,        \* the lane of each message
  Contacts,      \* recipients of direct messages
  Recipient,     \* the recipient of each message (any contact for a gate's)
  Blocking,      \* the recipients that block this sender
  Rotating,      \* the direct messages that embed an alias rotation
  Environments,  \* the states the node's surroundings may be in
  ApprovalOn,    \* MESH_PRIVATE_RELEASE_APPROVAL_ENABLE
  SecureDM,      \* MESH_DM_SECURE_MODE
  MaxFaults      \* bound on failed writes, lost commits and restarts together

\* What the worker, the policy and the dispatcher read of the node's
\* surroundings: the transport tier and rns_enabled of the Wormhole state,
\* the RNS bridge (`up`: enabled() holds; `direct`: private_dm_direct_ready),
\* anonymous mode and an effective hidden transport, the attestation, and
\* which carriers would accept a message now.
Environment ==
  [tier : Tier, rnsEnabled : BOOLEAN, up : BOOLEAN, direct : BOOLEAN,
   reach : BOOLEAN, anon : BOOLEAN, hidden : BOOLEAN, attested : BOOLEAN,
   relay : BOOLEAN, tor : BOOLEAN]

ASSUME NoMsgAssumption == NoMsg \notin Msgs
ASSUME LaneOfAssumption == LaneOf \in [Msgs -> Lane]
ASSUME RecipientAssumption == Recipient \in [Msgs -> Contacts]
ASSUME BlockingAssumption == Blocking \subseteq Contacts
ASSUME RotatingAssumption == Rotating \subseteq {m \in Msgs : LaneOf[m] = "dm"}
ASSUME EnvironmentsAssumption == Environments \subseteq Environment
ASSUME SettingsAssumption == ApprovalOn \in BOOLEAN /\ SecureDM \in BOOLEAN
ASSUME FaultsAssumption == MaxFaults \in Nat

VARIABLES
  items,      \* PrivateOutbox._items: the release_state of each message
  disk,       \* the same as last written to sealed_private_outbox.json
  session,    \* PrivateOutbox._session_release_state, memory only
  policy,     \* contacts with a live dm_contact relay grant (persisted)
  alias,      \* the alias rotation a message carries
  env,        \* the surroundings now
  pc,         \* where the worker thread is; "off" when there is none
  wtier,      \* current_tier as run_once read it at the start of the pass
  todo,       \* what is left of the pending_items() snapshot
  cur,        \* the item under the worker's hands
  consent,    \* relay_consent_granted, read before the dispatch
  retryNoted, \* the failed dispatch gave a reason that starts the window
  carried,    \* history: the carriers that took each message
  consented,  \* history: contacts for which someone approved the relay
  faults      \* failed writes, lost commits and restarts still to come

outbox == <<items, disk, session>>
worker == <<pc, wtier, todo, cur, consent, retryNoted>>
vars == <<items, disk, session, policy, alias, env, pc, wtier, todo, cur,
          consent, retryNoted, carried, consented, faults>>

DMs == {m \in Msgs : LaneOf[m] = "dm"}

\* "absent" is a message that was never enqueued.
ReleaseState == {"absent", "queued", "releasing", "delivered"}
Pending == {"queued", "releasing"}

\* One entry of _session_release_state.  `window` abstracts first_failure_at:
\* not set, set less than _RELAY_APPROVAL_WINDOW_S ago, or longer ago.
SessionState == [window : {"unset", "running", "over"}, approved : BOOLEAN,
                 wait : BOOLEAN, required : BOOLEAN]
NoSession == [window |-> "unset", approved |-> FALSE,
              wait |-> FALSE, required |-> FALSE]

Carrier == {"direct", "relay", "hidden", "store", "published"}

\* The worker holds an item it has marked "releasing".
InFlight == {"consent", "route", "direct", "relay", "hidden",
             "gate", "deliver", "requeue"}
PC == {"off", "idle", "list", "item", "ready", "commit"} \cup InFlight

-----------------------------------------------------------------------------
\* The outbox under its lock.

\* Mutants of Loaded: a state no other code knows, and every item anew.
LoadedAsRetry(states) ==
  [m \in Msgs |-> IF states[m] = "releasing" THEN "retry" ELSE states[m]]
LoadedAllQueued(states) ==
  [m \in Msgs |-> IF states[m] = "absent" THEN "absent" ELSE "queued"]

\* PrivateOutbox._load: an interrupted release is queued again.
Loaded(states) ==
  [m \in Msgs |-> IF states[m] = "releasing" THEN "queued" ELSE states[m]]

\* Mutant of Saved: a failed write goes unnoticed.
SavedOrNot(m, st) ==
  /\ items' = [items EXCEPT ![m] = st]
  /\ disk' \in {disk, items'}
  /\ UNCHANGED faults

\* A mutator sets one item and _save writes all of them ...
Saved(m, st) ==
  /\ items' = [items EXCEPT ![m] = st]
  /\ disk' = items'
  /\ UNCHANGED faults

\* ... or the write fails, the item is rolled back and the call raises.
SaveFailed ==
  /\ faults > 0
  /\ faults' = faults - 1
  /\ UNCHANGED <<items, disk>>

\* Mutant of Noted: every failure starts the window anew.
NotedAnew(s) == [s EXCEPT !.window = "running", !.required = FALSE]

\* note_release_revalidation_failure on an entry of the session state.
Noted(s) ==
  LET w == IF s.window = "unset" THEN "running" ELSE s.window
  IN [s EXCEPT !.window = w,
               !.required = ~s.approved /\ ~s.wait /\ w = "over"]

Note(m) == session' = [session EXCEPT ![m] = Noted(@)]
Clear(m) == session' = [session EXCEPT ![m] = NoSession]

\* _scoped_relay_policy_granted: the grant asks for a hidden transport.
PolicyGrants(m) == Recipient[m] \in policy /\ env.hidden
\* _rns_private_dm_ready and the two readings of anonymous mode.
DirectReady == env.up /\ env.direct
AnonymousEnforced == env.anon /\ env.hidden
AnonymousWaiting == env.anon /\ ~env.hidden

-----------------------------------------------------------------------------
\* The start of the process, with nothing queued and no grant.
Init ==
  /\ items = [m \in Msgs |-> "absent"]
  /\ disk = items
  /\ session = [m \in Msgs |-> NoSession]
  /\ policy = {}
  /\ alias = [m \in Msgs |-> "none"]
  /\ env \in Environments
  /\ pc = "off"
  /\ wtier = "public_degraded"
  /\ todo = {}
  /\ cur = NoMsg
  /\ consent = FALSE
  /\ retryNoted = FALSE
  /\ carried = [m \in Msgs |-> {}]
  /\ consented = {}
  /\ faults = MaxFaults

-----------------------------------------------------------------------------
\* The API threads.

\* compose_wormhole_dm: a message that embeds an alias rotation registers the
\* commit of that rotation, in memory and before it is queued.
Compose(m) ==
  /\ m \in Rotating
  /\ items[m] = "absent"
  /\ alias[m] = "none"
  /\ alias' = [alias EXCEPT ![m] = "pending"]
  /\ UNCHANGED <<outbox, policy, env, worker, carried, consented, faults>>

\* Mutant of Enqueue: a pending item is queued anew, releasing or not.
EnqueueAnew(m) ==
  /\ items[m] # "delivered"
  /\ Saved(m, "queued") \/ SaveFailed
  /\ UNCHANGED <<session, policy, alias, env, worker, carried, consented>>

\* _queue_dm_release, _queue_gate_release: a new item, the refreshed status of
\* a pending one, or nothing for one already delivered.
Enqueue(m) ==
  /\ items[m] # "delivered"
  /\ \/ Saved(m, IF items[m] = "absent" THEN "queued" ELSE items[m])
     \/ SaveFailed
  /\ UNCHANGED <<session, policy, alias, env, worker, carried, consented>>

\* Mutant of Approve: the pending prompt is not taken back.
ApproveKeepsPrompt(m) ==
  /\ items[m] # "absent"
  /\ session' = [session EXCEPT ![m].approved = TRUE, ![m].wait = FALSE]
  /\ IF LaneOf[m] = "dm"
       THEN /\ policy' \in {policy, policy \cup {Recipient[m]}}
            /\ consented' = consented \cup {Recipient[m]}
       ELSE UNCHANGED <<policy, consented>>
  /\ UNCHANGED <<items, disk, alias, env, worker, carried, faults>>

\* approve_relay_release, for the user's "relay" answer and for the automatic
\* release of invite-scoped traffic.  The caller's check that the item is still
\* pending is made before, outside the lock, so any known item may get here.
\* The grant for the contact is written to disk; a failure to is swallowed.
Approve(m) ==
  /\ items[m] # "absent"
  /\ session' = [session EXCEPT ![m].approved = TRUE, ![m].wait = FALSE,
                                ![m].required = FALSE]
  /\ IF LaneOf[m] = "dm"
       THEN /\ policy' \in {policy, policy \cup {Recipient[m]}}
            /\ consented' = consented \cup {Recipient[m]}
       ELSE UNCHANGED <<policy, consented>>
  /\ UNCHANGED <<items, disk, alias, env, worker, carried, faults>>

\* continue_waiting_for_release, the user's "wait" answer; a grant stays.
KeepWaiting(m) ==
  /\ items[m] # "absent"
  /\ session' = [session EXCEPT ![m].approved = FALSE, ![m].wait = TRUE,
                                ![m].required = FALSE]
  /\ UNCHANGED <<items, disk, policy, alias, env, worker, carried, consented, faults>>

\* grant_connect_relay_policy when a contact's invite is imported, and ahead of
\* the automatic release of invite-scoped traffic.
GrantContact(c) ==
  /\ policy' = policy \cup {c}
  /\ consented' = consented \cup {c}
  /\ UNCHANGED <<outbox, alias, env, worker, carried, faults>>

\* ensure_started: _wake_private_release_worker after an enqueue, and
\* _resume_private_delivery_background_work at start-up and on status polls.
EnsureStarted ==
  /\ pc = "off"
  /\ \E m \in Msgs : items[m] # "absent"
  /\ pc' = "idle"
  /\ UNCHANGED <<outbox, policy, alias, env, wtier, todo, cur, consent,
                 retryNoted, carried, consented, faults>>
-----------------------------------------------------------------------------
\* The worker thread: PrivateReleaseWorker.run_once, one item after the other.

\* run_once reads the tier once for the whole pass ...
BeginPass ==
  /\ pc = "idle"
  /\ wtier' = env.tier
  /\ pc' = "list"
  /\ UNCHANGED <<outbox, policy, alias, env, todo, cur, consent, retryNoted,
                 carried, consented, faults>>

\* Mutants of ListPending: delivered items too, and queued items only.
ListEverything ==
  /\ pc = "list"
  /\ todo' = {m \in Msgs : items[m] # "absent"}
  /\ pc' = "item"
  /\ UNCHANGED <<outbox, policy, alias, env, wtier, cur, consent, retryNoted,
                 carried, consented, faults>>
ListQueued ==
  /\ pc = "list"
  /\ todo' = {m \in Msgs : items[m] = "queued"}
  /\ pc' = "item"
  /\ UNCHANGED <<outbox, policy, alias, env, wtier, cur, consent, retryNoted,
                 carried, consented, faults>>

\* ... and then takes its snapshot of pending_items().
ListPending ==
  /\ pc = "list"
  /\ todo' = {m \in Msgs : items[m] \in Pending}
  /\ pc' = "item"
  /\ UNCHANGED <<outbox, policy, alias, env, wtier, cur, consent, retryNoted,
                 carried, consented, faults>>

EndPass ==
  /\ pc = "item"
  /\ todo = {}
  /\ pc' = "idle"
  /\ UNCHANGED <<outbox, policy, alias, env, wtier, todo, cur, consent,
                 retryNoted, carried, consented, faults>>

\* The snapshot is sorted by lane, then by creation time: direct messages go
\* first, and wall-clock times order the items of a lane in any way.
Turn(m) ==
  /\ pc = "item"
  /\ m \in todo
  /\ LaneOf[m] = "gate" => \A n \in todo : LaneOf[n] = "gate"

FloorMet(m) == Allowed(LaneOf[m], wtier, env.rnsEnabled)

\* mark_queued and on to the next item; no `try` surrounds the call, so a
\* failed write ends the thread.
QueueAgain(m) ==
  \/ /\ Saved(m, "queued")
     /\ todo' = todo \ {m}
     /\ pc' = "item"
  \/ /\ SaveFailed
     /\ todo' = {}
     /\ pc' = "off"

\* Mutant of StartsWindow: not the reason of a node that has lost every tier.
StartsWindowNoLane(waitingFor) == waitingFor = "private_strong"

\* The reasons in _RELAY_APPROVAL_TRIGGER_REASONS that evaluate_network_release
\* can give; "private_transitional", the floor of a Tor-only node, is not one.
StartsWindow(waitingFor) == waitingFor \in {"private_lane", "private_strong"}

\* The lane's floor is not met.  The session entry is touched only after the
\* item has been written.
HoldBelowFloor(m) ==
  /\ Turn(m)
  /\ ~FloorMet(m)
  /\ QueueAgain(m)
  /\ CASE pc' = "off" -> UNCHANGED session
       [] pc' = "item" /\ LaneOf[m] = "dm" /\ ApprovalOn
          /\ StartsWindow(WaitingFor("dm", wtier, env.rnsEnabled)) -> Note(m)
       [] OTHER -> Clear(m)
  /\ UNCHANGED <<policy, alias, env, wtier, cur, consent, retryNoted, carried, consented>>

\* Anonymous mode without its hidden transport.
HoldAnonymous(m) ==
  /\ Turn(m)
  /\ FloorMet(m)
  /\ LaneOf[m] = "dm"
  /\ AnonymousWaiting
  /\ QueueAgain(m)
  /\ IF pc' = "off" THEN UNCHANGED session ELSE Clear(m)
  /\ UNCHANGED <<policy, alias, env, wtier, cur, consent, retryNoted, carried, consented>>

\* _dm_release_approval_pending needs no answer and forgets the session entry.
NoApprovalNeeded(m) ==
  ~ApprovalOn \/ ~SecureDM \/ env.anon \/ DirectReady \/ PolicyGrants(m)

\* A direct message that would need the relay, without the user's approval.
HoldForApproval(m) ==
  /\ Turn(m)
  /\ FloorMet(m)
  /\ LaneOf[m] = "dm"
  /\ ~NoApprovalNeeded(m)
  /\ ~session[m].approved
  /\ Note(m)
  /\ QueueAgain(m)
  /\ UNCHANGED <<policy, alias, env, wtier, cur, consent, retryNoted, carried, consented>>

\* The item passes every check up to here and the worker takes it in hand.
TakeItem(m) ==
  /\ Turn(m)
  /\ FloorMet(m)
  /\ \/ LaneOf[m] = "gate" /\ UNCHANGED session
     \/ LaneOf[m] = "dm" /\ ~AnonymousWaiting /\ NoApprovalNeeded(m) /\ Clear(m)
     \/ /\ LaneOf[m] = "dm"
        /\ ~NoApprovalNeeded(m)
        /\ session[m].approved
        /\ Note(m)
  /\ cur' = m
  /\ todo' = todo \ {m}
  /\ pc' = "ready"
  /\ UNCHANGED <<items, disk, policy, alias, env, wtier, consent, retryNoted,
                 carried, consented, faults>>
\* The worker is done with the item in hand.
LetGo == cur' = NoMsg /\ consent' = FALSE /\ retryNoted' = FALSE

\* _strong_release_runtime_ready refuses.
HoldUnattested ==
  /\ pc = "ready"
  /\ ~env.attested
  /\ QueueAgain(cur)
  /\ LetGo
  /\ UNCHANGED <<session, policy, alias, env, wtier, carried, consented>>

\* mark_releasing: the attempt is on disk before the network sees the item.
MarkReleasing ==
  /\ pc = "ready"
  /\ env.attested
  /\ \/ Saved(cur, "releasing") /\ pc' = "consent" /\ UNCHANGED <<todo, cur>>
     \/ SaveFailed /\ pc' = "off" /\ todo' = {} /\ cur' = NoMsg
  /\ UNCHANGED <<session, policy, alias, env, wtier, consent, retryNoted,
                 carried, consented>>

\* Mutant of ReadConsent: an item that needs no answer counts as approved.
ReadConsentNotNeeded ==
  /\ pc = "consent"
  /\ consent' = (session[cur].approved \/ NoApprovalNeeded(cur))
  /\ pc' = "route"
  /\ UNCHANGED <<outbox, policy, alias, env, wtier, todo, cur, retryNoted,
                 carried, consented, faults>>

\* _relay_consent_granted, evaluated as an argument of attempt_private_release.
ReadConsent ==
  /\ pc = "consent"
  /\ consent' = (~ApprovalOn \/ session[cur].approved \/ PolicyGrants(cur))
  /\ pc' = "route"
  /\ UNCHANGED <<outbox, policy, alias, env, wtier, todo, cur, retryNoted,
                 carried, consented, faults>>

\* attempt_private_release and the choices at the head of _dispatch_dm.  The
\* floor is checked again, with the tier of the pass.
RouteOf ==
  CASE ~FloorMet(cur) -> "refused"
    [] FloorMet(cur) /\ LaneOf[cur] = "gate" -> "gate"
    [] OTHER -> CASE AnonymousWaiting -> "refused"
                  [] AnonymousEnforced -> "hidden"
                  [] ~env.anon /\ SecureDM /\ DirectReady -> "direct"
                  [] ~env.anon /\ SecureDM /\ ~DirectReady ->
                       IF consent THEN "relay" ELSE "unapproved"
                  [] OTHER -> "relay"

Route ==
  /\ pc = "route"
  /\ pc' = IF RouteOf \in {"refused", "unapproved"} THEN "requeue" ELSE RouteOf
  /\ retryNoted' = (RouteOf = "unapproved")
  /\ UNCHANGED <<outbox, policy, alias, env, wtier, todo, cur, consent,
                 carried, consented, faults>>

\* The carriers `by` take the item in hand and the dispatch goes on at `next`.
Carry(by, next) ==
  /\ carried' = [carried EXCEPT ![cur] = @ \cup by]
  /\ pc' = next

\* rns_bridge.send_private_dm, unless the recipient blocks the sender.  A send
\* that fails falls back to the relay on the consent read before the dispatch;
\* one that raises fails the dispatch without a fallback reason.
SendDirect ==
  /\ pc = "direct"
  /\ IF Recipient[cur] \in Blocking
       THEN Carry({}, "requeue") /\ retryNoted' = FALSE
       ELSE \/ env.reach /\ Carry({"direct"}, "deliver") /\ UNCHANGED retryNoted
            \/ /\ ~env.reach
               /\ Carry({}, IF consent THEN "relay" ELSE "requeue")
               /\ retryNoted' = ~consent
            \/ ~env.reach /\ Carry({}, "requeue") /\ retryNoted' = FALSE
  /\ UNCHANGED <<outbox, policy, alias, env, wtier, todo, cur, consent, consented, faults>>

\* Mutant of DepositRelay: the relay's refusal is not looked at.
DepositRelayUnchecked ==
  /\ pc \in {"relay", "hidden"}
  /\ \/ env.relay /\ Carry({pc}, "deliver")
     \/ ~env.relay /\ Carry({}, "deliver")
  /\ UNCHANGED <<outbox, policy, alias, env, wtier, todo, cur, consent,
                 retryNoted, consented, faults>>

\* DMRelay.deposit, over a hidden transport for anonymous senders.  With a
\* scoped push that does not arrive the message is parked here and the
\* dispatch fails all the same.
DepositRelay ==
  /\ pc \in {"relay", "hidden"}
  /\ CASE Recipient[cur] \in Blocking -> Carry({}, "requeue")
       [] Recipient[cur] \notin Blocking /\ env.relay -> Carry({pc}, "deliver")
       [] OTHER -> Carry({}, "requeue") \/ Carry({pc}, "requeue")
  /\ UNCHANGED <<outbox, policy, alias, env, wtier, todo, cur, consent,
                 retryNoted, consented, faults>>

\* _dispatch_gate: append to the local gate store, which may fail to write, then
\* push over Tor, else hand it to RNS.  publish_gate_event returns without a
\* word when the bridge is not up, and _gate_publish_via_rns fails only on an
\* exception.
PublishGate ==
  /\ pc = "gate"
  /\ \/ /\ \/ env.tor /\ Carry({"store", "published"}, "deliver")
           \/ ~env.tor /\ env.up /\ Carry({"store", "published"}, "deliver")
           \/ ~env.tor /\ ~env.up /\ Carry({"store"}, "deliver")
           \/ ~env.tor /\ env.up /\ Carry({"store"}, "requeue")
        /\ UNCHANGED <<items, disk, faults>>
     \/ SaveFailed /\ Carry({}, "requeue")
  /\ UNCHANGED <<session, policy, alias, env, wtier, todo, cur, consent,
                 retryNoted, consented>>

\* Mutant of MarkDelivered: a failed write is swallowed and the pass goes on.
MarkDeliveredAnyway ==
  /\ pc = "deliver"
  /\ \/ Saved(cur, "delivered") /\ Clear(cur)
     \/ SaveFailed /\ UNCHANGED session
  /\ pc' = IF LaneOf[cur] = "dm" THEN "commit" ELSE "item"
  /\ IF pc' = "commit" THEN UNCHANGED <<cur, consent, retryNoted>> ELSE LetGo
  /\ UNCHANGED <<todo, policy, alias, env, wtier, carried, consented>>

\* mark_delivered, which forgets the session entry once the item is written.
MarkDelivered ==
  /\ pc = "deliver"
  /\ \/ /\ Saved(cur, "delivered")
        /\ Clear(cur)
        /\ pc' = IF LaneOf[cur] = "dm" THEN "commit" ELSE "item"
        /\ UNCHANGED todo
     \/ SaveFailed /\ pc' = "off" /\ todo' = {} /\ UNCHANGED session
  /\ IF pc' = "commit" THEN UNCHANGED <<cur, consent, retryNoted>> ELSE LetGo
  /\ UNCHANGED <<policy, alias, env, wtier, carried, consented>>

\* commit_outbound_alias_rotation_if_present takes the pending commit out of
\* memory and writes the contact; a failed write is swallowed and the commit
\* is gone.  The session entry is forgotten once more.
CommitAlias ==
  /\ pc = "commit"
  /\ \/ /\ alias' = [alias EXCEPT ![cur] = IF @ = "pending" THEN "committed" ELSE @]
        /\ UNCHANGED faults
     \/ /\ alias[cur] = "pending"
        /\ alias' = [alias EXCEPT ![cur] = "none"]
        /\ faults > 0
        /\ faults' = faults - 1
  /\ Clear(cur)
  /\ pc' = "item"
  /\ LetGo
  /\ UNCHANGED <<items, disk, policy, env, wtier, todo, carried, consented>>

\* A dispatch that failed: the window starts before the item is written.
Requeue ==
  /\ pc = "requeue"
  /\ IF retryNoted /\ ApprovalOn THEN Note(cur) ELSE UNCHANGED session
  /\ QueueAgain(cur)
  /\ LetGo
  /\ UNCHANGED <<policy, alias, env, wtier, carried, consented>>

-----------------------------------------------------------------------------
\* Time, the surroundings and restarts.

EnvChange ==
  /\ env' \in Environments \ {env}
  /\ UNCHANGED <<outbox, policy, alias, worker, carried, consented, faults>>

\* _RELAY_APPROVAL_WINDOW_S has passed since the first failure.
WindowPasses(m) ==
  /\ session[m].window = "running"
  /\ session' = [session EXCEPT ![m].window = "over"]
  /\ UNCHANGED <<items, disk, policy, alias, env, worker, carried, consented, faults>>

\* A grant expires, or the contact is severed and it is revoked.
PolicyLapses(c) ==
  /\ c \in policy
  /\ policy' = policy \ {c}
  /\ UNCHANGED <<outbox, alias, env, worker, carried, consented, faults>>

\* PAIRWISE_ALIAS_PENDING_COMMIT_TTL_MS.
RotationExpires(m) ==
  /\ alias[m] = "pending"
  /\ alias' = [alias EXCEPT ![m] = "none"]
  /\ UNCHANGED <<outbox, policy, env, worker, carried, consented, faults>>

\* The process dies, anywhere, and starts again from the disk.
Restart ==
  /\ faults > 0
  /\ faults' = faults - 1
  /\ items' = Loaded(disk)
  /\ session' = [m \in Msgs |-> NoSession]
  /\ alias' = [m \in Msgs |-> IF alias[m] = "pending" THEN "none" ELSE alias[m]]
  /\ pc' = "off"
  /\ todo' = {}
  /\ LetGo
  /\ UNCHANGED <<disk, policy, env, wtier, carried, consented>>

-----------------------------------------------------------------------------
Hold(m) == HoldBelowFloor(m) \/ HoldAnonymous(m) \/ HoldForApproval(m)
InHand == HoldUnattested \/ MarkReleasing \/ ReadConsent \/ Route \/ SendDirect
            \/ DepositRelay \/ PublishGate \/ MarkDelivered \/ CommitAlias \/ Requeue
Worker == \/ BeginPass \/ ListPending \/ EndPass \/ InHand
          \/ \E m \in Msgs : Hold(m) \/ TakeItem(m)
Api == \/ \E m \in Msgs : Compose(m) \/ Enqueue(m) \/ Approve(m) \/ KeepWaiting(m)
       \/ \E c \in Contacts : GrantContact(c)
Surroundings == \/ EnvChange \/ Restart
                \/ \E m \in Msgs : WindowPasses(m) \/ RotationExpires(m)
                \/ \E c \in Contacts : PolicyLapses(c)

Next == Worker \/ EnsureStarted \/ Api \/ Surroundings

Spec == Init /\ [][Next]_vars

\* The thread runs while it exists, status polls and start-up resume it while
\* something is queued, and time passes; nothing makes users, networks or
\* grants do anything.
Fairness == /\ WF_vars(Worker)
            /\ WF_vars(EnsureStarted)
            /\ \A m \in Msgs : WF_vars(WindowPasses(m))
FairSpec == Spec /\ Fairness
-----------------------------------------------------------------------------
\* Properties.

\* Every variable has its type, on every state of the process.
TypeOK ==
  /\ items \in [Msgs -> ReleaseState]
  /\ disk \in [Msgs -> ReleaseState]
  /\ session \in [Msgs -> SessionState]
  /\ policy \subseteq Contacts
  /\ alias \in [Msgs -> {"none", "pending", "committed"}]
  /\ env \in Environments
  /\ pc \in PC
  /\ wtier \in Tier
  /\ todo \subseteq Msgs
  /\ cur \in Msgs \cup {NoMsg}
  /\ consent \in BOOLEAN
  /\ retryNoted \in BOOLEAN
  /\ carried \in [Msgs -> SUBSET Carrier]
  /\ consented \subseteq Contacts
  /\ faults \in Nat

\* Whatever write failed and wherever the process died, memory and disk differ
\* at most in a release that a restart queued again (_load, the rollbacks of
\* every mutator): no caller was told of a state the disk does not have.
DiskMirrorsMemory ==
  \A m \in Msgs : \/ items[m] = disk[m]
                  \/ items[m] = "queued" /\ disk[m] = "releasing"

\* The worker has an item in flight only while that item's attempt is on disk,
\* whatever the API threads write meanwhile: after a crash at any point of the
\* dispatch the item is retried, neither lost nor taken for delivered.
WriteAhead ==
  pc \in InFlight => items[cur] = "releasing" /\ disk[cur] = "releasing"

\* With approval switched on, a secure direct message reaches the weaker relay
\* only if somebody approved the relay for that contact, however the grant, the
\* session state, stale consent, restarts and failed sends interleave
\* (_relay_consent_granted, _dispatch_dm).
RelayNeedsConsent ==
  ApprovalOn /\ SecureDM =>
    \A m \in DMs : "relay" \in carried[m] => Recipient[m] \in consented

\* A message is reported delivered only if a carrier took it, on disk too
\* (run_once, mark_delivered).
DeliveredWasCarried ==
  \A m \in Msgs : "delivered" \in {items[m], disk[m]} => carried[m] # {}

\* An alias rotation takes effect only once the message that carries it has
\* left the node for good, through every failed send and crash in between
\* (_commit_dm_alias_rotation_if_present after mark_delivered).
RotationOnlyAfterRelease ==
  \A m \in Msgs : alias[m] = "committed" => disk[m] = "delivered"

\* The user is offered the weaker relay only after the whole window of trying,
\* and never while an answer stands (note_release_revalidation_failure).
PromptIsDue ==
  \A m \in Msgs : session[m].required =>
    session[m].window = "over" /\ ~session[m].approved /\ ~session[m].wait

\* A message the disk has as delivered stays so and is never handed to a
\* carrier again: not by a pass whose snapshot is old, not after a restart,
\* not when its sender queues it once more.
DeliveredIsFinal ==
  [][\A m \in Msgs : disk[m] = "delivered" =>
        disk'[m] = "delivered" /\ carried'[m] = carried[m]]_vars

\* The promise of ReleaseLifecycle is about what the disk has and who was handed
\* a message: "queued" and "releasing" are both "accepted" there.
StageOf(st) == CASE st = "absent" -> "none"
                 [] st \in Pending -> "accepted"
                 [] st = "delivered" -> "released"
Stage == [m \in Msgs |-> StageOf(disk[m])]
Handed == {m \in Msgs : carried[m] # {}}
Lifecycle == INSTANCE ReleaseLifecycle WITH stage <- Stage, handed <- Handed

\* The outbox keeps that promise: what a carrier was handed, a failed send, the
\* user's waiting or a crash never gives back.
ImplementsLifecycle == Lifecycle!Spec

\* A user who was asked and answered "keep waiting" (session entry `wait`) is
\* not asked again until another answer, the end of the release, a restart, or
\* a route that needs no relay: direct, granted or anonymous.
WaitingEnds(m) ==
  \/ session'[m].approved
  \/ items'[m] = "delivered"
  \/ faults' < faults
  \/ NoApprovalNeeded(m)
KeepsWaiting ==
  [][\A m \in DMs :
       session[m].wait /\ session[m].window = "over" /\ ~session'[m].wait
         => WaitingEnds(m)]_vars

\* A pass that finds the surroundings good for m gets it out: the floor is
\* met, the attestation is current, and a route that needs no answer is open.
Good(m) ==
  /\ Allowed(LaneOf[m], env.tier, env.rnsEnabled)
  /\ env.attested
  /\ CASE LaneOf[m] = "gate" -> env.tor
       [] LaneOf[m] = "dm" /\ AnonymousEnforced -> env.relay
       [] OTHER -> ~env.anon /\ DirectReady /\ env.reach /\ SecureDM
  /\ Recipient[m] \notin Blocking

\* A queued message is delivered once its surroundings stay good: whatever
\* write failed and ended the thread, whichever crash came between, and with
\* the API threads writing to the same items.
EventuallyReleased ==
  \A m \in Msgs : <>[]Good(m) => (items[m] \in Pending ~> items[m] = "delivered")

\* A direct message that cannot go out directly, the floor being met, and that
\* nobody has answered for, is brought before the user: it is not retried in
\* silence for ever.
NoRoute(m) ==
  /\ Allowed(LaneOf[m], env.tier, env.rnsEnabled)
  /\ ~env.anon
  /\ ~(DirectReady /\ env.reach)
  /\ Recipient[m] \notin policy
Unanswered(m) ==
  items[m] \in Pending /\ ~session[m].approved /\ ~session[m].wait
EventuallyAsked ==
  \A m \in DMs : <>[](NoRoute(m) /\ Unanswered(m)) => []<>session[m].required
=============================================================================
