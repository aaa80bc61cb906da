---------------------------- MODULE ThreadsProofs ----------------------------
(***************************************************************************)
(* What holds of RelayFlush and TransportLanes for any number of callers,    *)
(* changes, faults, bootstrap threads and requests, and of the threads of a  *)
(* node that run side by side.                                               *)
(*                                                                          *)
(* The invariant of the flush says what the payload of a flush under way     *)
(* holds (PayloadInv), that the file holds it before the mark is cleared     *)
(* (ClearInv), and which threads have an unmarked change (FreshInv).  The    *)
(* one of the lanes says when both can be on at once (BothInv), that whoever *)
(* turns the private lane off finds it disabled (LeavingInv), and what the   *)
(* holder of the lock has found (FoundInv).                                  *)
(***************************************************************************)
EXTENDS MCThreads, TLAPS

FreshInv == \A c \in Callers : pc[c] # "mark" => fresh[c] = {}

PayloadInv ==
  \A f \in Flushers : \A ch \in mem \ raced : Passed(f, ch) => ch \in snap[f]

ClearInv == \A f \in Flushers : pc[f] = "clear" => mem \ raced \subseteq disk

FlushInv == TypeOK /\ FreshInv /\ PayloadInv /\ ClearInv /\ NothingForgotten

USE DEF Flushers

\* Every step keeps the state within its types.
LEMMA TypeStep == TypeOK /\ [Next]_vars => TypeOK'
<1> SUFFICES ASSUME TypeOK, [Next]_vars PROVE TypeOK'
  OBVIOUS
<1> USE ChangesAssumption, ThreadsAssumption, FaultsAssumption
<1> USE DEF TypeOK, Goto, relay, file, PC
<1>1. ASSUME NEW c \in Callers, NEW ch \in Changes, Call(c, ch) PROVE TypeOK'
  BY <1>1 DEF Call
<1>2. ASSUME NEW c \in Callers, Mark(c) PROVE TypeOK'
  BY <1>2 DEF Mark
<1>3. ASSUME NEW c \in Callers, Test(c) PROVE TypeOK'
  BY <1>3 DEF Test
<1>4. ASSUME NEW c \in Callers, Schedule(c) PROVE TypeOK'
  BY <1>4 DEF Schedule
<1>5. ASSUME Wake \/ BeginExit PROVE TypeOK'
  BY <1>5 DEF Wake, BeginExit
<1>6. ASSUME NEW f \in Flushers, StartFlush(f) \/ Build(f) \/ Encode(f) PROVE TypeOK'
  BY <1>6 DEF StartFlush, Build, Encode
<1>7. ASSUME NEW f \in Flushers, Replace(f) \/ Clear(f) \/ FlushFails(f) PROVE TypeOK'
  <2>1. CASE Replace(f)
    BY <2>1 DEF Replace
  <2>2. CASE Clear(f)
    BY <2>2 DEF Clear
  <2>3. CASE FlushFails(f)
    BY <2>3 DEF FlushFails
  <2> QED
    BY <1>7, <2>1, <2>2, <2>3
<1>8. ASSUME NEW f \in Flushers, Return(f) PROVE TypeOK'
  <2>1. lock' \in Callers \cup {NoOne} /\ pc' \in [Flushers -> PC]
    BY <1>8 DEF Return, Released
  <2> QED
    BY <1>8, <2>1 DEF Return
<1>9. ASSUME EndExit \/ Kill PROVE TypeOK'
  <2>1. PICK changes \in {disk, {}} : Load(changes)
    BY <1>9 DEF EndExit, Kill
  <2>2. faults' \in Nat
    BY <1>9 DEF EndExit, Kill
  <2>3. dirty' \in BOOLEAN /\ lock' \in Callers \cup {NoOne}
    BY <2>1 DEF Load
  <2> QED
    BY <2>1, <2>2, <2>3 DEF Load
<1>10. CASE UNCHANGED vars
  BY <1>10 DEF vars
<1>11. CASE Next
  <2>1. \A c \in Callers, ch \in Changes : Call(c, ch) => TypeOK'
    BY <1>1
  <2>2. \A c \in Callers : Mark(c) \/ Test(c) \/ Schedule(c) => TypeOK'
    BY <1>2, <1>3, <1>4
  <2>3. \A f \in Flushers : Step(f) \/ FlushFails(f) => TypeOK'
    BY <1>6, <1>7, <1>8 DEF Step
  <2> HIDE DEF TypeOK
  <2> QED
    BY <1>5, <1>9, <1>11, <2>1, <2>2, <2>3 DEF Next, CallerStep
<1> QED
  BY <1>10, <1>11

\* A call adds a change that no payload under way could have held and that
\* its caller has yet to mark.
LEMMA CallStep ==
  ASSUME FlushInv, NEW c \in Callers, NEW ch \in Changes, Call(c, ch)
  PROVE  FreshInv' /\ PayloadInv' /\ ClearInv' /\ NothingForgotten'
<1> USE ThreadsAssumption DEF FlushInv, TypeOK, Call, Goto, file
<1>1. pc' = [pc EXCEPT ![c] = "mark"] /\ pc[c] = "idle" /\ fresh[c] = {}
  BY DEF FreshInv
<1>2. \A x \in mem' \ raced' : x = ch \/ x \in mem \ raced
  OBVIOUS
<1>3. \A f \in Flushers, x \in Changes : Passed(f, x)' => Passed(f, x)
  BY <1>1 DEF Passed
<1>4. ch \in mem' \ raced' => \A f \in Flushers : ~Passed(f, ch)
  OBVIOUS
<1>5. FreshInv'
  BY <1>1 DEF FreshInv
<1>6. PayloadInv'
  BY <1>2, <1>3, <1>4 DEF PayloadInv
<1>7. ClearInv'
  BY <1>1, <1>2, <1>4 DEF ClearInv, Passed
<1>8. Unmarked' = Unmarked \cup {ch}
  BY <1>1 DEF Unmarked
<1>9. NothingForgotten'
  BY <1>2, <1>8 DEF NothingForgotten
<1> QED
  BY <1>5, <1>6, <1>7, <1>9

\* The steps of _save touch neither payloads nor the file.
LEMMA SaveStep ==
  ASSUME FlushInv, NEW c \in Callers, Mark(c) \/ Test(c) \/ Schedule(c)
  PROVE  FreshInv' /\ PayloadInv' /\ ClearInv' /\ NothingForgotten'
<1> USE ThreadsAssumption DEF FlushInv, TypeOK, Goto, relay, file
<1>1. CASE Mark(c)
  BY <1>1 DEF Mark, FreshInv, PayloadInv, ClearInv, NothingForgotten, Passed
<1>2. CASE Test(c)
  BY <1>2 DEF Test, FreshInv, PayloadInv, ClearInv, NothingForgotten, Passed, Unmarked
<1>3. CASE Schedule(c)
  BY <1>3 DEF Schedule, FreshInv, PayloadInv, ClearInv, NothingForgotten, Passed, Unmarked
<1> QED
  BY <1>1, <1>2, <1>3

Begins(f) == (f = Timer /\ Wake) \/ (f = Exit /\ BeginExit)

\* Neither do the steps that begin or end a flush without writing.
LEMMA IdleStep ==
  ASSUME FlushInv, NEW f \in Flushers,
         StartFlush(f) \/ FlushFails(f) \/ Return(f) \/ Begins(f)
  PROVE  FreshInv' /\ PayloadInv' /\ ClearInv' /\ NothingForgotten'
<1> USE ThreadsAssumption DEF FlushInv, TypeOK, Goto, relay, file
<1>1. /\ UNCHANGED <<mem, file, dirty, fresh, snap, raced>>
      /\ pc[f] # "mark"
      /\ \E l \in {"flush", "build", "end", "idle"} : pc' = [pc EXCEPT ![f] = l]
  BY DEF StartFlush, FlushFails, Return, Begins, Wake, BeginExit
<1>2. \A g \in Flushers, x \in Changes : Passed(g, x)' => Passed(g, x)
  BY <1>1 DEF Passed
<1>3. FreshInv'
  BY <1>1 DEF FreshInv
<1>4. PayloadInv'
  BY <1>1, <1>2 DEF PayloadInv
<1>5. ClearInv'
  BY <1>1 DEF ClearInv
<1>6. NothingForgotten'
  BY <1>1 DEF NothingForgotten, Unmarked
<1> QED
  BY <1>3, <1>4, <1>5, <1>6

\* A flush takes in all of memory before it writes, and writes it all before
\* it clears the mark.
LEMMA WriteStep ==
  ASSUME FlushInv, NEW f \in Flushers,
         Build(f) \/ Encode(f) \/ Replace(f) \/ Clear(f)
  PROVE  FreshInv' /\ PayloadInv' /\ ClearInv' /\ NothingForgotten'
<1> USE ThreadsAssumption DEF FlushInv, TypeOK, Goto, relay, file
<1>1. FreshInv'
  BY DEF Build, Encode, Replace, Clear, FreshInv
<1>2. CASE Build(f)
  <2>1. PayloadInv'
    BY <1>2 DEF Build, PayloadInv, Passed
  <2> QED
    BY <1>1, <1>2, <2>1 DEF Build, ClearInv, NothingForgotten, Unmarked
<1>3. CASE Encode(f)
  <2>1. \A ch \in mem \ raced : ch \in snap'[f]
    BY <1>3 DEF Encode, PayloadInv, Passed
  <2>2. PayloadInv'
    BY <1>3, <2>1 DEF Encode, PayloadInv, Passed
  <2> QED
    BY <1>1, <1>3, <2>2 DEF Encode, ClearInv, NothingForgotten, Unmarked
<1>4. CASE Replace(f)
  <2>1. mem \ raced \subseteq disk'
    BY <1>4 DEF Replace, PayloadInv, Passed
  <2>2. PayloadInv'
    BY <1>4 DEF Replace, PayloadInv, Passed
  <2> QED
    BY <1>1, <1>4, <2>1, <2>2 DEF Replace, ClearInv, NothingForgotten, Unmarked
<1>5. CASE Clear(f)
  <2>1. mem \ raced \subseteq disk
    BY <1>5 DEF Clear, ClearInv
  <2>2. PayloadInv'
    BY <1>5 DEF Clear, PayloadInv, Passed
  <2> QED
    BY <1>1, <1>5, <2>1, <2>2 DEF Clear, ClearInv, NothingForgotten
<1> QED
  BY <1>2, <1>3, <1>4, <1>5

\* A new process reflects the file or nothing.
LEMMA LoadStep ==
  ASSUME FlushInv, EndExit \/ Kill
  PROVE  FreshInv' /\ PayloadInv' /\ ClearInv' /\ NothingForgotten'
<1>1. PICK changes \in {disk, {}} : Load(changes)
  BY DEF EndExit, Kill
<1> QED
  BY <1>1, ThreadsAssumption
  DEF Load, file, FreshInv, PayloadInv, Passed, ClearInv, NothingForgotten

LEMMA FlushStep == FlushInv /\ [Next]_vars => FlushInv'
<1> SUFFICES ASSUME FlushInv, [Next]_vars PROVE FlushInv'
  OBVIOUS
<1>1. TypeOK'
  BY TypeStep DEF FlushInv
<1>2. CASE UNCHANGED vars
  BY <1>1, <1>2
  DEF vars, FlushInv, FreshInv, PayloadInv, Passed, ClearInv, NothingForgotten, Unmarked
<1>3. CASE Next
  <2>1. ASSUME NEW c \in Callers, NEW ch \in Changes, Call(c, ch) PROVE FlushInv'
    BY <1>1, <2>1, CallStep DEF FlushInv
  <2>2. ASSUME NEW c \in Callers, Mark(c) \/ Test(c) \/ Schedule(c) PROVE FlushInv'
    BY <1>1, <2>2, SaveStep DEF FlushInv
  <2>3. ASSUME NEW f \in Flushers, Step(f) \/ FlushFails(f) PROVE FlushInv'
    BY <1>1, <2>3, IdleStep, WriteStep DEF FlushInv, Step
  <2>4. ASSUME Wake \/ BeginExit PROVE FlushInv'
    <3>1. Begins(Timer) \/ Begins(Exit)
      BY <2>4 DEF Begins
    <3> QED
      BY <1>1, <3>1, IdleStep DEF FlushInv
  <2>5. ASSUME EndExit \/ Kill PROVE FlushInv'
    BY <1>1, <2>5, LoadStep DEF FlushInv
  <2> QED
    BY <1>3, <2>1, <2>2, <2>3, <2>4, <2>5 DEF Next, CallerStep
<1> QED
  BY <1>2, <1>3

LEMMA FlushInit == Init => FlushInv
<1> USE ThreadsAssumption, FaultsAssumption DEF Init
<1>1. Init => TypeOK
  BY DEF TypeOK, PC
<1> QED
  BY <1>1 DEF FlushInv, FreshInv, PayloadInv, Passed, ClearInv, NothingForgotten

THEOREM FlushInvariant == Spec => []FlushInv
  BY FlushInit, FlushStep, PTL DEF Spec

\* Every variable of the flush keeps its type.
THEOREM FlushTypeCorrect == Spec => []TypeOK
<1>1. FlushInv => TypeOK
  BY DEF FlushInv
<1> QED
  BY <1>1, FlushInvariant, PTL

\* A relay that is not dirty has forgotten no change but those that a flush
\* under way overtook: _flush against _save, however they overlap.
THEOREM NothingForgottenAlways == Spec => []NothingForgotten
<1>1. FlushInv => NothingForgotten
  BY DEF FlushInv
<1> QED
  BY <1>1, FlushInvariant, PTL

\* Only Replace writes the file, and its payload holds all of memory that is
\* not raced.
LEMMA OlderStep ==
  FlushInv /\ [Next]_vars => [(disk \cap mem) \ raced \subseteq disk']_vars
<1> SUFFICES ASSUME FlushInv, Next PROVE (disk \cap mem) \ raced \subseteq disk'
  OBVIOUS
<1>1. CASE \E f \in Flushers : Replace(f)
  BY <1>1 DEF FlushInv, PayloadInv, Passed, Replace
<1>2. CASE ~\E f \in Flushers : Replace(f)
  <2>1. disk' = disk
    BY <1>2 DEF Next, CallerStep, Step, Call, Mark, Test, Schedule, Wake, BeginExit,
       EndExit, Kill, Load, StartFlush, Build, Encode, Clear, FlushFails, Return,
       relay, file
  <2> QED
    BY <2>1
<1> QED
  BY <1>1, <1>2

\* The older of two overlapping payloads of _flush, written last, takes no
\* change off the disk that was made before the payload was.
THEOREM OlderPayloadAlways == Spec => OlderPayloadIsHarmless
  BY FlushInvariant, OlderStep, PTL DEF Spec, OlderPayloadIsHarmless

HIDE DEF Flushers

-----------------------------------------------------------------------------
\* Every Timer that will start the bridge has cost the user a request.
Restarting == IF place[Loop] \in {"yield", "start"} THEN 1 ELSE 0
BudgetInv == requests \in Nat /\ delayed + requests + Restarting <= MaxRequests

\* The loop disables the private lane before it disconnects it.
LeavingInv == place[Loop] \in {"leave", "yield", "start"} => ~enabled

\* A join or a backend that starts has not come to its connect yet.
Opening ==
  \/ joining # "no" \/ place[Loop] \in {"connect", "restart"}
  \/ place[Startup] \in {"sync", "connect"}

\* While the private lane is enabled the public one is on only until a connect
\* that is under way turns it off, or since a Timer has come after it.
BothInv ==
  /\ enabled /\ public => Opening
  /\ enabled /\ bridge = "on" => late \/ Opening

\* What has been found under the lock is stored before it is released, and what
\* was found ready is still enabled, or will be disconnected.
FoundInv ==
  found => /\ \E t \in Threads : place[t] = "store"
           /\ enabled \/ place[Loop] \in {"leave", "yield"}

\* The start of a backend asks for a warm-up at one place only.
ResumeInv == asking[Startup] # "idle" => place[Startup] = "resume"

LanesInv ==
  /\ LNTypeOK /\ BudgetInv /\ LeavingInv /\ ResumeInv
  /\ BothInv /\ FoundInv /\ LNDisabledIsOff

-----------------------------------------------------------------------------
\* Every step keeps the transports within their types.
LEMMA LanesTypeStep == LNTypeOK /\ BudgetInv /\ [LNNext]_lnVars => LNTypeOK' /\ BudgetInv'
<1> SUFFICES ASSUME LNTypeOK, BudgetInv, [LNNext]_lnVars PROVE LNTypeOK' /\ BudgetInv'
  OBVIOUS
<1> USE LanesAssumption
<1> USE DEF LNTypeOK, BudgetInv, Restarting, Threads, Askers, Inside, Move,
        publicLane, settings, supervisor, manager, threads
<1>1. ASSUME NEW t \in Threads, Connecting(t) PROVE LNTypeOK' /\ BudgetInv'
  <2>1. CASE BeginConnect(t)
    BY <2>1 DEF BeginConnect, TurnPublicOff, StopBridge
  <2>2. CASE Check(t)
    BY <2>2 DEF Check, Returned
  <2>3. CASE Wait(t)
    BY <2>3 DEF Wait, Ready
  <2>4. CASE Store(t)
    BY <2>4 DEF Store, Returned
  <2> QED
    BY <1>1, <2>1, <2>2, <2>3, <2>4 DEF Connecting
<1>2. CASE Serving
  <2>1. CASE JoinConnects
    BY <2>1 DEF JoinConnects
  <2>2. CASE Left \/ Yielded
    BY <2>2 DEF Left, Yielded, Disconnect
  <2>3. CASE StartPublic
    <3>1. BudgetInv'
      BY <2>3 DEF StartPublic, RestartBridge, StartBridge, StopBridge
    <3>2. bridge' \in {"off", "on", "stopping"} /\ late' \in BOOLEAN
      BY <2>3 DEF StartPublic, RestartBridge, StartBridge, StopBridge
    <3> QED
      BY <2>3, <3>1, <3>2 DEF StartPublic, RestartBridge
  <2> QED
    BY <1>2, <2>1, <2>2, <2>3 DEF Serving
<1>3. CASE Starting
  <2>1. CASE StartupSync \/ NothingQueued
    BY <2>1 DEF StartupSync, NothingQueued, Disconnect
  <2>2. CASE StartupPrewarm
    BY <2>2 DEF StartupPrewarm, Spent
  <2> QED
    BY <1>3, <2>1, <2>2 DEF Starting
<1>4. CASE Activate \/ Join \/ Leave
  <2>1. CASE Activate
    BY <2>1 DEF Activate, Request, LoopFree
  <2>2. CASE Join
    BY <2>2 DEF Join, Request, LoopFree
  <2>3. CASE Leave
    <3>1. enabled' \in BOOLEAN
      BY <2>3, Zenon DEF Leave
    <3> QED
      BY <2>3, <3>1 DEF Leave, Request, LoopFree
  <2> QED
    BY <1>4, <2>1, <2>2, <2>3
<1>5. CASE EnablePublic \/ DisablePublic
  <2>1. CASE EnablePublic
    <3>1. enabled' \in BOOLEAN /\ public' \in BOOLEAN
      BY <2>1, Zenon DEF EnablePublic
    <3> QED
      BY <2>1, <3>1 DEF EnablePublic, Request, LoopFree
  <2>2. CASE DisablePublic
    <3>1. public' \in BOOLEAN /\ late' \in BOOLEAN
      BY <2>2, Zenon DEF DisablePublic, StopBridge
    <3> QED
      BY <2>2, <3>1 DEF DisablePublic, Request, LoopFree, StopBridge
  <2> QED
    BY <1>5, <2>1, <2>2
<1>6. CASE UpdatePublic
  <2>1. BudgetInv'
    BY <1>6 DEF UpdatePublic, Request, LoopFree, RestartBridge, StartBridge, StopBridge
  <2>2. bridge' \in {"off", "on", "stopping"} /\ late' \in BOOLEAN
    BY <1>6 DEF UpdatePublic, RestartBridge, StartBridge, StopBridge
  <2> QED
    BY <1>6, <2>1, <2>2 DEF UpdatePublic, RestartBridge, Request, StopBridge
<1>7. ASSUME NEW q \in Askers, Warmup(q) PROVE LNTypeOK' /\ BudgetInv'
  <2>1. CASE ReadTier(q)
    BY <2>1 DEF ReadTier, GetState
  <2>2. CASE Judge(q)
    BY <2>2 DEF Judge, Asked
  <2>3. CASE Ask(q)
    BY <2>3 DEF Ask, Kick, Spent, Deferred
  <2>4. CASE Conclude(q)
    BY <2>4 DEF Conclude, Asked
  <2> QED
    BY <1>7, <2>1, <2>2, <2>3, <2>4 DEF Warmup
<1>8. ASSUME NEW b \in Boots, Upgrade(b) \/ Scheduled(b) PROVE LNTypeOK' /\ BudgetInv'
  <2>1. CASE Upgrade(b)
    BY <2>1 DEF Upgrade, Kick
  <2>2. CASE Scheduled(b)
    BY <2>2 DEF Scheduled, Kick, Spent
  <2> QED
    BY <1>8, <2>1, <2>2
<1>9. CASE Observe \/ CooldownEnds \/ CadenceComesDue \/ CacheExpires
  BY <1>9 DEF Observe, GetState, CooldownEnds, CadenceComesDue, CacheExpires
<1>10. CASE ServerAnswers \/ ServerExits \/ BridgeEnds
  BY <1>10 DEF ServerAnswers, ServerExits, BridgeEnds
<1>11. CASE DelayedStart
  <2>1. late' \in BOOLEAN
    BY <1>11 DEF DelayedStart
  <2> QED
    BY <1>11, <2>1 DEF DelayedStart, StartBridge
<1>12. CASE UNCHANGED lnVars
  BY <1>12 DEF lnVars
<1> QED
  <2> HIDE DEF LNTypeOK, BudgetInv
  <2> QED
    BY <1>1, <1>2, <1>3, <1>4, <1>5, <1>6, <1>7, <1>8, <1>9, <1>10, <1>11,
       <1>12 DEF LNNext

\* What the lanes and the lock keep at a step.
Kept == LeavingInv' /\ ResumeInv' /\ BothInv' /\ FoundInv' /\ LNDisabledIsOff'

USE DEF Kept

\* connect_wormhole turns the public bridge off, finds under the lock whether the
\* server is ready, and stores what it has found before it lets anyone in.
LEMMA ConnectingStep ==
  ASSUME LanesInv, NEW t \in Threads, Connecting(t)
  PROVE  Kept
<1> USE LanesAssumption
<1> USE DEF LanesInv, LNTypeOK, LeavingInv, ResumeInv, BothInv, Opening, FoundInv, LNDisabledIsOff,
        Threads, Askers, Inside, Move, publicLane, settings, supervisor, manager, threads
<1>1. CASE BeginConnect(t)
  <2>1. /\ UNCHANGED <<enabled, joining, found, asking>> /\ cache' = "none"
        /\ place' = [place EXCEPT ![t] = "check"] /\ place[t] \in {"connect", "restart"}
    BY <1>1 DEF BeginConnect
  <2>2. LeavingInv' /\ ResumeInv' /\ FoundInv' /\ LNDisabledIsOff'
    BY <2>1
  <2>3. CASE Reason(t) = "scheduled" /\ public
    <3>1. t \in Boots /\ UNCHANGED <<public, bridge, late>>
      BY <1>1, <2>3 DEF BeginConnect, TurnPublicOff, Reason
    <3> QED
      BY <2>1, <2>2, <3>1
  <2>4. CASE ~(Reason(t) = "scheduled" /\ public)
    <3>1. ~public' /\ bridge' # "on"
      BY <1>1, <2>4 DEF BeginConnect, TurnPublicOff, StopBridge
    <3> QED
      BY <2>2, <3>1
  <2> QED
    BY <2>3, <2>4
<1>2. CASE Check(t)
  BY <1>2 DEF Check, Returned
<1>3. CASE Wait(t)
  BY <1>3 DEF Wait, Ready
<1>4. CASE Store(t)
  BY <1>4 DEF Store, Returned
<1> QED
  BY <1>1, <1>2, <1>3, <1>4 DEF Connecting

\* The event loop disconnects only when nobody is inside connect_wormhole.
LEMMA ServingStep ==
  ASSUME LanesInv, Serving
  PROVE  Kept
<1> USE LanesAssumption
<1> USE DEF LanesInv, LNTypeOK, LeavingInv, ResumeInv, BothInv, Opening, FoundInv, LNDisabledIsOff,
        Threads, Askers, Inside, Move, publicLane, settings, supervisor, manager, threads
<1>1. CASE JoinConnects
  BY <1>1 DEF JoinConnects, LoopFree
<1>2. CASE Left \/ Yielded
  <2>1. ~found
    BY <1>2 DEF Left, Yielded, Disconnect, Free
  <2> QED
    BY <1>2, <2>1 DEF Left, Yielded, Disconnect
<1>3. CASE StartPublic
  <2>1. ~enabled' /\ UNCHANGED <<enabled, cache, found, asking>>
        /\ place' = [place EXCEPT ![Loop] = "idle"] /\ place[Loop] = "start"
    BY <1>3 DEF StartPublic
  <2> QED
    BY <2>1
<1> QED
  BY <1>1, <1>2, <1>3 DEF Serving

\* What the user asks for either disables the private lane, or enables it and
\* connects, or touches the public one only.
LEMMA RequestStep ==
  ASSUME LanesInv,
         \/ Activate \/ Join \/ Leave
         \/ EnablePublic \/ DisablePublic \/ UpdatePublic
  PROVE  Kept
<1> USE LanesAssumption
<1> USE DEF LanesInv, LNTypeOK, LeavingInv, ResumeInv, BothInv, Opening, FoundInv, LNDisabledIsOff,
        Threads, Askers, Inside, Move, Request, LoopFree, publicLane, supervisor, manager
<1>1. CASE Activate
  BY <1>1 DEF Activate
<1>2. CASE Join
  BY <1>2 DEF Join
<1>3. CASE Leave
  BY <1>3 DEF Leave
<1>4. CASE EnablePublic
  BY <1>4 DEF EnablePublic
<1>5. CASE DisablePublic
  BY <1>5 DEF DisablePublic, StopBridge
<1>6. CASE UpdatePublic
  <2>1. enabled /\ bridge' = "on" => Opening
    BY <1>6 DEF UpdatePublic, RestartBridge, StopBridge
  <2> QED
    BY <1>6, <2>1 DEF UpdatePublic
<1> QED
  BY <1>1, <1>2, <1>3, <1>4, <1>5, <1>6

\* The manager, the prewarm service and the start of a backend change no lane,
\* and a kicked-off thread holds no lock yet.
LEMMA ManagerStep ==
  ASSUME LanesInv,
         \/ \E q \in Askers : Warmup(q)
         \/ \E b \in Boots : Upgrade(b) \/ Scheduled(b)
         \/ Observe \/ CooldownEnds \/ CadenceComesDue
  PROVE  Kept
<1> USE LanesAssumption
<1> USE DEF LanesInv, LNTypeOK, LeavingInv, ResumeInv, BothInv, Opening, FoundInv, LNDisabledIsOff,
        Threads, Askers, Inside, publicLane, settings, supervisor, manager, threads
<1>1. UNCHANGED <<enabled, joining, public, bridge, late, found>>
  BY DEF Warmup, ReadTier, Judge, Ask, Conclude, Upgrade, Scheduled, Observe,
         CooldownEnds, CadenceComesDue
<1>2. ~enabled /\ place[Loop] \notin {"leave", "yield"} => cache' # "ready"
  BY DEF Warmup, ReadTier, Judge, Ask, Conclude, Upgrade, Scheduled, Observe,
         CooldownEnds, CadenceComesDue, GetState, Reported, Ready
<1>3. /\ place'[Loop] = place[Loop]
      /\ place[Startup] \in {"sync", "connect"} => place'[Startup] = place[Startup]
      /\ \A t \in Threads : place[t] = "store" => place'[t] = "store"
      /\ ResumeInv'
  <2>1. CASE \E q \in Askers : Warmup(q)
    <3>1. PICK q \in Askers : Warmup(q)
      BY <2>1
    <3>2. CASE ReadTier(q)
      BY <3>2 DEF ReadTier
    <3>3. CASE Judge(q)
      BY <3>3 DEF Judge, Asked
    <3>4. CASE Ask(q)
      BY <3>4 DEF Ask, Kick, Move
    <3>5. CASE Conclude(q)
      BY <3>5 DEF Conclude, Asked
    <3> QED
      BY <3>1, <3>2, <3>3, <3>4, <3>5 DEF Warmup
  <2>2. CASE \E b \in Boots : Upgrade(b) \/ Scheduled(b)
    BY <2>2 DEF Upgrade, Scheduled, Kick, Move
  <2>3. CASE Observe \/ CooldownEnds \/ CadenceComesDue
    BY <2>3 DEF Observe, CooldownEnds, CadenceComesDue
  <2> QED
    BY <2>1, <2>2, <2>3
<1> QED
  BY <1>1, <1>2, <1>3

\* Neither do the start of a backend, the server's own steps and the bridge's; a
\* Timer that starts a bridge that was turned off leaves its trace.
LEMMA OwnStep ==
  ASSUME LanesInv,
         \/ Starting \/ CacheExpires \/ ServerAnswers \/ ServerExits
         \/ BridgeEnds \/ DelayedStart
  PROVE  Kept
<1> USE LanesAssumption
<1> USE DEF LanesInv, LNTypeOK, LeavingInv, ResumeInv, BothInv, Opening, FoundInv,
        LNDisabledIsOff, Threads, Askers, Inside, Move, publicLane, settings,
        supervisor, manager, threads
<1>1. CASE Starting
  <2>1. CASE StartupSync
    <3>1. CASE enabled
      BY <2>1, <3>1 DEF StartupSync
    <3>2. CASE ~enabled
      <4>1. ~found
        BY <2>1, <3>2 DEF StartupSync, Disconnect, Free
      <4> QED
        BY <2>1, <3>2, <4>1 DEF StartupSync, Disconnect
    <3> QED
      BY <3>1, <3>2
  <2>2. CASE NothingQueued
    BY <2>2 DEF NothingQueued
  <2>3. CASE StartupPrewarm
    BY <2>3 DEF StartupPrewarm
  <2> QED
    BY <1>1, <2>1, <2>2, <2>3 DEF Starting
<1>2. CASE CacheExpires \/ ServerAnswers \/ ServerExits
  BY <1>2 DEF CacheExpires, ServerAnswers, ServerExits
<1>3. CASE BridgeEnds
  BY <1>3 DEF BridgeEnds
<1>4. CASE DelayedStart
  BY <1>4 DEF DelayedStart
<1> QED
  BY <1>1, <1>2, <1>3, <1>4

LEMMA LanesStep == LanesInv /\ [LNNext]_lnVars => LanesInv'
<1> SUFFICES ASSUME LanesInv, [LNNext]_lnVars PROVE LanesInv'
  OBVIOUS
<1>1. LNTypeOK' /\ BudgetInv'
  BY LanesTypeStep DEF LanesInv
<1>2. CASE UNCHANGED lnVars
  BY <1>1, <1>2
  DEF lnVars, publicLane, settings, supervisor, manager, threads, LanesInv, LeavingInv,
      ResumeInv, BothInv, Opening, FoundInv, LNDisabledIsOff
<1>3. CASE LNNext
  <2>1. Kept
    BY <1>3, ConnectingStep, ServingStep, RequestStep, ManagerStep, OwnStep DEF LNNext
  <2> QED
    BY <1>1, <2>1 DEF LanesInv
<1> QED
  BY <1>2, <1>3

LEMMA LanesInit == LNInit => LanesInv
<1> SUFFICES ASSUME LNInit PROVE LanesInv
  OBVIOUS
<1> USE LanesAssumption DEF LNInit, Threads, Askers, Inside
<1>1. {enabled, anonymous, public, late, found, cooling} \subseteq BOOLEAN
  OBVIOUS
<1>2. LNTypeOK
  BY <1>1 DEF LNTypeOK
<1>3. place[Loop] = "idle" /\ place[Startup] = "sync"
  OBVIOUS
<1>4. BudgetInv
  BY <1>3 DEF BudgetInv, Restarting
<1> QED
  BY <1>2, <1>3, <1>4
  DEF LanesInv, LeavingInv, ResumeInv, BothInv, Opening, FoundInv, LNDisabledIsOff

THEOREM LanesInvariant == LNSpec => []LanesInv
  BY LanesInit, LanesStep, PTL DEF LNSpec

\* Every variable of the transports keeps its type; the Timers that will start
\* the bridge are never more than the user's requests.
THEOREM LanesTypeCorrect == LNSpec => []LNTypeOK
<1>1. LanesInv => LNTypeOK
  BY DEF LanesInv
<1> QED
  BY <1>1, LanesInvariant, PTL

\* connect_wormhole, the handlers of both lanes and the start of a backend, with
\* any number of threads: the private lane is not ready while the public bridge
\* runs, but for a join or a start that has not come to its connect and a Timer
\* that has come after it.
THEOREM LanesExclusive == LNSpec => []LNExclusive
<1>1. LanesInv => LNExclusive
  BY DEF LanesInv, BothInv, Opening, LNExclusive, Ready
<1> QED
  BY <1>1, LanesInvariant, PTL

\* What get_wormhole_state reports once a request that disables the private
\* lane has returned, whoever starts a server or holds the lock meanwhile.
THEOREM DisabledIsOff == LNSpec => []LNDisabledIsOff
<1>1. LanesInv => LNDisabledIsOff
  BY DEF LanesInv
<1> QED
  BY <1>1, LanesInvariant, PTL

-----------------------------------------------------------------------------
\* The threads of a node: each part of MCThreads behaves as it does alone.
LEMMA ThreadsInitParts == ThreadsInit => Init /\ LNInit
  BY DEF ThreadsInit

LEMMA ThreadsStepParts ==
  [ThreadsNext]_threadVars => [Next]_vars /\ [LNNext]_lnVars
<1> SUFFICES ASSUME [ThreadsNext]_threadVars PROVE [Next]_vars /\ [LNNext]_lnVars
  OBVIOUS
<1>1. CASE InFlush(Next)
  BY <1>1 DEF InFlush
<1>2. CASE InLanes(LNNext) \/ InWarmups(LNNext)
  BY <1>2 DEF InLanes, InWarmups
<1>3. CASE UNCHANGED threadVars
  BY <1>3 DEF threadVars
<1> QED
  BY <1>1, <1>2, <1>3 DEF ThreadsNext

\* The relay's flush and the transports, side by side, keep their types.
THEOREM ThreadsTypeCorrect == ThreadsSpec => []ThreadsTypeOK
<1>1. FlushInv /\ LanesInv => ThreadsTypeOK
  BY DEF FlushInv, LanesInv, ThreadsTypeOK
<1>2. ThreadsInit => FlushInv /\ LanesInv
  BY ThreadsInitParts, FlushInit, LanesInit
<1>3. FlushInv /\ LanesInv /\ [ThreadsNext]_threadVars => FlushInv' /\ LanesInv'
  BY ThreadsStepParts, FlushStep, LanesStep
<1> QED
  BY <1>1, <1>2, <1>3, PTL DEF ThreadsSpec
=============================================================================
