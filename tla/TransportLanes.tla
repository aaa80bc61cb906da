--------------------------- MODULE TransportLanes ---------------------------
(***************************************************************************)
(* The two transports of a node and who turns them on and off: the private  *)
(* one, a Wormhole server that wormhole_supervisor.py starts and stops under *)
(* its lock, and the public one, the Meshtastic bridge of sigint_bridge.py.  *)
(* The handlers of the API run on the event loop and block it while they     *)
(* wait for the lock; bootstrap threads are kicked off by the transport      *)
(* manager for whoever has a message queued or opens a private surface, and  *)
(* by the prewarm service at start-up and on a schedule.                     *)
(*                                                                          *)
(* A second server that is spawned while one lives cannot bind the port and  *)
(* exits; it is left out.  Times (cooldown, cadence, cache) are what has or  *)
(* has not passed.                                                           *)
(***************************************************************************)
EXTENDS Naturals

CONSTANTS
  Boots,        \* the bootstrap threads that may be alive at once
  Loop,         \* the event loop
  Startup,      \* the thread of _startup_wormhole_runtime
  Worker,       \* the release worker, with a message that waits
  Calls,        \* calls of the API that ask for a warm-up, on the event loop
  MaxRequests,  \* bound on the user's requests
  MaxExits      \* bound on exits of the server by itself

Askers == {Worker, Startup} \cup Calls
Threads == Boots \cup {Loop, Startup}

ASSUME LanesAssumption ==
  /\ Loop # Startup /\ {Loop, Startup} \cap Boots = {}
  /\ Worker # Startup /\ {Worker, Startup} \cap Calls = {}
  /\ MaxRequests \in Nat /\ MaxExits \in Nat

VARIABLES
  enabled,    \* "enabled" of wormhole.json
  anonymous,  \* anonymous_mode of wormhole.json
  public,     \* "enabled" of meshtastic_mqtt.json
  bridge,     \* the thread of the public bridge
  delayed,    \* Timers that will start the bridge
  late,       \* history: a Timer has started the bridge after it was turned off
  server,     \* the Wormhole process
  cache,      \* _STATE_CACHE: the reported state is or is not "ready"
  found,      \* what the holder of the lock has found the state to be
  place,      \* where each thread is
  why,        \* what a bootstrap thread was kicked off for
  joining,    \* what a join that waits for Tor will do
  asking,     \* where each request_warmup is
  enough,     \* whether the tier it goes by is sufficient
  cooling,    \* now < _cooldown_until
  cadence,    \* _next_anonymous_prewarm_at: not set, not reached, reached
  requests,   \* requests of the user still to come
  exits       \* exits of the server still to come

publicLane == <<public, bridge, delayed, late>>
settings == <<enabled, anonymous, requests, joining>>
supervisor == <<server, cache, found, exits>>
manager == <<asking, enough, cooling, cadence>>
threads == <<place, why>>
lnVars == <<publicLane, settings, supervisor, manager, threads>>

\* _LOCK is held by a thread inside connect_wormhole.
Inside == {"check", "wait", "store"}
Free == \A t \in Threads : place[t] \notin Inside
Move(t, l) == place' = [place EXCEPT ![t] = l]

\* Mutant of Ready: a server that answers is ready.
Answering == server = "up"

\* _current_runtime_state: what is disabled is never ready.
Ready == enabled /\ server = "up"

-----------------------------------------------------------------------------
\* A backend that starts: the settings are what they were, the bridge runs if
\* it is enabled, a server may have outlived the last backend.
LNInit ==
  /\ enabled \in BOOLEAN /\ anonymous \in BOOLEAN /\ public \in BOOLEAN
  /\ bridge = IF public THEN "on" ELSE "off"
  /\ delayed = 0 /\ late = FALSE
  /\ server \in {"down", "up"}
  /\ cache = "none" /\ found = FALSE /\ exits = MaxExits
  /\ place = [t \in Threads |-> IF t = Startup THEN "sync" ELSE "idle"]
  /\ why = [b \in Boots |-> "asked"]
  /\ joining = "no" /\ requests = MaxRequests
  /\ asking = [q \in Askers |-> "idle"] /\ enough = [q \in Askers |-> FALSE]
  /\ cooling = FALSE /\ cadence = "unset"

-----------------------------------------------------------------------------
\* The public bridge.  A start that finds the old thread still stopping waits
\* two seconds for it and then gives up.
StartBridge == bridge' \in IF bridge = "stopping" THEN {"on", "stopping"} ELSE {"on"}
StopBridge == /\ bridge' = IF bridge = "on" THEN "stopping" ELSE bridge
              /\ late' = FALSE

BridgeEnds ==
  /\ bridge = "stopping" /\ bridge' = "off"
  /\ UNCHANGED <<public, delayed, late, settings, supervisor, manager, threads>>

\* The end of api_set_meshtastic_mqtt_settings: a bridge that runs is stopped
\* and started again a second later.
RestartBridge ==
  IF bridge = "on"
  THEN StopBridge /\ delayed' = delayed + 1
  ELSE StartBridge /\ UNCHANGED <<delayed, late>>

DelayedStart ==
  /\ delayed > 0 /\ delayed' = delayed - 1
  /\ StartBridge
  /\ late' = (bridge' = "on" /\ (late \/ ~public))
  /\ UNCHANGED <<public, settings, supervisor, manager, threads>>

-----------------------------------------------------------------------------
\* Mutant of TurnPublicOff: a lane that is in use is always kept.
KeepUsed(t) ==
  IF public
  THEN UNCHANGED publicLane
  ELSE public' = FALSE /\ StopBridge /\ UNCHANGED delayed

\* What connect_wormhole is called for.
Reason(t) == IF t \in Boots THEN why[t] ELSE "asked"

\* connect_wormhole: the public lane is turned off first, unless the scheduled
\* prewarm finds it in use ...
TurnPublicOff(t) ==
  IF Reason(t) = "scheduled" /\ public
  THEN UNCHANGED publicLane
  ELSE public' = FALSE /\ StopBridge /\ UNCHANGED delayed

BeginConnect(t) ==
  /\ place[t] \in {"connect", "restart"} /\ Free
  /\ TurnPublicOff(t)
  /\ server' = IF place[t] = "restart" THEN "down" ELSE server
  /\ cache' = "none"
  /\ Move(t, "check")
  /\ UNCHANGED <<found, exits, settings, manager, why>>

\* ... then the server is started, enabled or not, unless it is ready ...
Returned(t) ==
  /\ Move(t, IF t = Startup THEN "resume" ELSE "idle")
  /\ why' = [b \in Boots |-> IF b = t THEN "asked" ELSE why[b]]

Check(t) ==
  /\ place[t] = "check"
  /\ IF Ready
     THEN Returned(t) /\ UNCHANGED server
     ELSE /\ Move(t, "wait") /\ UNCHANGED why
          /\ server' = IF server = "down" THEN "starting" ELSE server
  /\ UNCHANGED <<cache, found, exits, publicLane, settings, manager>>

\* ... and waited for until it answers, exits or a minute is over.
Wait(t) ==
  /\ place[t] = "wait"
  /\ found' = Ready
  /\ Move(t, "store")
  /\ UNCHANGED <<server, cache, exits, publicLane, settings, manager, why>>

Store(t) ==
  /\ place[t] = "store"
  /\ cache' = IF found THEN "ready" ELSE "not"
  /\ found' = FALSE
  /\ Returned(t)
  /\ UNCHANGED <<server, exits, publicLane, settings, manager>>

\* disconnect_wormhole.
Disconnect ==
  /\ Free
  /\ server' = "down" /\ cache' = "not"
  /\ UNCHANGED <<found, exits>>

\* get_wormhole_state.
Reported == IF cache = "none" THEN Ready ELSE cache = "ready"
GetState == Free /\ cache' = IF Reported THEN "ready" ELSE "not"

CacheExpires ==
  /\ cache # "none" /\ Free /\ cache' = "none"
  /\ UNCHANGED <<server, found, exits, publicLane, settings, manager, threads>>

ServerAnswers ==
  /\ server = "starting" /\ server' = "up"
  /\ UNCHANGED <<cache, found, exits, publicLane, settings, manager, threads>>

ServerExits ==
  /\ exits > 0 /\ exits' = exits - 1
  /\ server # "down" /\ server' = "down"
  /\ UNCHANGED <<cache, found, publicLane, settings, manager, threads>>

-----------------------------------------------------------------------------
\* The event loop is not blocked, and no call that asks for a warm-up is on it.
LoopFree == place[Loop] = "idle" /\ \A q \in Calls : asking[q] \notin {"ask", "conclude"}

\* What the user asks for, one request at a time on the event loop.
Request(next) ==
  /\ LoopFree /\ requests > 0 /\ requests' = requests - 1
  /\ Move(Loop, next)
  /\ UNCHANGED <<supervisor, manager, why>>

\* api_wormhole_connect and _restart, or api_set_wormhole_settings with
\* "enabled" on.
Activate == \E l \in {"connect", "restart"} :
  /\ Request(l) /\ enabled' = TRUE
  /\ anonymous' \in BOOLEAN
  /\ UNCHANGED <<joining, publicLane>>

\* api_wormhole_join waits for Tor before it connects, and the loop serves
\* others.  What changes the settings restarts the server.
Join ==
  /\ Request("idle") /\ joining = "no"
  /\ joining' \in {"restart"} \cup IF enabled /\ anonymous THEN {"connect"} ELSE {}
  /\ enabled' = TRUE /\ anonymous' = TRUE
  /\ UNCHANGED publicLane

JoinConnects ==
  /\ LoopFree /\ joining # "no"
  /\ Move(Loop, joining) /\ joining' = "no"
  /\ UNCHANGED <<enabled, anonymous, requests, publicLane, supervisor, manager, why>>

\* api_wormhole_leave and _disconnect, or the settings with "enabled" off.
Leave ==
  /\ Request("leave") /\ enabled' = FALSE
  /\ UNCHANGED <<anonymous, joining, publicLane>>

Left ==
  /\ place[Loop] = "leave" /\ Disconnect /\ Move(Loop, "idle")
  /\ UNCHANGED <<publicLane, settings, manager, why>>

\* api_set_meshtastic_mqtt_settings.  Enabling the public lane disables the
\* private one before it starts the bridge.
EnablePublic ==
  /\ Request("yield") /\ public' = TRUE /\ enabled' = FALSE
  /\ UNCHANGED <<anonymous, joining, bridge, delayed, late>>

Yielded ==
  /\ place[Loop] = "yield" /\ Disconnect /\ Move(Loop, "start")
  /\ UNCHANGED <<publicLane, settings, manager, why>>

StartPublic ==
  /\ place[Loop] = "start" /\ RestartBridge /\ Move(Loop, "idle")
  /\ UNCHANGED <<public, settings, supervisor, manager, why>>

\* The same with "enabled" off, or api_set_node_settings, which enables the
\* private node.
DisablePublic ==
  /\ Request("idle") /\ public' = FALSE /\ StopBridge
  /\ UNCHANGED <<enabled, anonymous, joining, delayed>>

\* Another broker or channel.
UpdatePublic ==
  /\ Request("idle")
  /\ IF public THEN RestartBridge ELSE StopBridge /\ UNCHANGED delayed
  /\ UNCHANGED <<enabled, anonymous, joining, public>>

-----------------------------------------------------------------------------
\* kickoff_wormhole_bootstrap.
Kick(b, reason) ==
  /\ place[b] = "idle" /\ Move(b, "connect")
  /\ why' = [why EXCEPT ![b] = reason]

\* _try_transparent_transport_upgrade and its like in the MLS modules.
Upgrade(b) ==
  /\ Kick(b, "asked")
  /\ UNCHANGED <<publicLane, settings, supervisor, manager>>

\* request_warmup: the tier is read, by a call of the API in another thread ...
ReadTier(q) ==
  /\ asking[q] = "idle" /\ GetState
  /\ q = Startup => place[q] = "resume"
  /\ \E ok \in {o \in BOOLEAN : o => Reported} : enough' = [enough EXCEPT ![q] = ok]
  /\ asking' = [asking EXCEPT ![q] = "read"]
  /\ UNCHANGED <<server, found, exits, publicLane, settings, cooling, cadence, threads>>

\* ... and judged in a first section of the manager's lock ...
Asked(q) ==
  /\ asking' = [asking EXCEPT ![q] = "idle"]
  /\ place' = IF q = Startup THEN [place EXCEPT ![q] = "prewarm"] ELSE place

Judge(q) ==
  /\ asking[q] = "read" /\ (q \in Calls => LoopFree)
  /\ cooling' = (cooling /\ ~enough[q])
  /\ IF enough[q] \/ cooling
     THEN Asked(q)
     ELSE asking' = [asking EXCEPT ![q] = "ask"] /\ UNCHANGED place
  /\ enough' = [enough EXCEPT ![q] = FALSE]
  /\ UNCHANGED <<why, cadence, publicLane, settings, supervisor>>

\* Mutant of Deferred: every action of the user puts the cadence off.
PutOff == "waiting"

\* ... between the sections the prewarm policy is asked.  For an anonymous user
\* it lets no action start the transport, and what resumes work only when the
\* cadence is due.  (A call resumes work, or opens a private surface.) ...
Allowed(resumes) == anonymous => resumes /\ cadence # "waiting"
Deferred == IF cadence = "unset" THEN "waiting" ELSE cadence
Spent == IF anonymous THEN "waiting" ELSE cadence
Resuming(q) == IF q = Worker THEN {FALSE} ELSE IF q = Startup THEN {TRUE} ELSE BOOLEAN

Ask(q) ==
  /\ asking[q] = "ask"
  /\ \E resumes \in Resuming(q) :
       IF Allowed(resumes)
       THEN (\E b \in Boots : Kick(b, "asked")) /\ cadence' = Spent
       ELSE /\ cadence' = IF resumes THEN cadence ELSE Deferred
            /\ UNCHANGED threads
  /\ asking' = [asking EXCEPT ![q] = "conclude"]
  /\ UNCHANGED <<enough, cooling, publicLane, settings, supervisor>>

\* ... and the cooldown is set in the second.
Conclude(q) ==
  /\ asking[q] = "conclude" /\ Asked(q)
  /\ cooling' = TRUE
  /\ UNCHANGED <<why, enough, cadence, publicLane, settings, supervisor>>

\* observe_state, in a status poll that finds the tier sufficient.
Observe ==
  /\ LoopFree /\ GetState /\ Reported /\ cooling' = FALSE
  /\ UNCHANGED <<server, found, exits, publicLane, settings, asking, enough, cadence, threads>>

CooldownEnds ==
  /\ cooling /\ cooling' = FALSE
  /\ UNCHANGED <<asking, enough, cadence, publicLane, settings, supervisor, threads>>

\* run_scheduled_once, on the schedule.
Scheduled(b) ==
  /\ place[Startup] \in {"prewarm", "idle"}
  /\ Allowed(TRUE) /\ cadence' = Spent
  /\ Kick(b, "scheduled")
  /\ UNCHANGED <<asking, enough, cooling, publicLane, settings, supervisor>>

CadenceComesDue ==
  /\ cadence = "waiting" /\ cadence' = "due"
  /\ UNCHANGED <<asking, enough, cooling, publicLane, settings, supervisor, threads>>

\* _startup_wormhole_runtime: what the settings say, a warm-up if something is
\* queued, and a prewarm.
StartupSync ==
  /\ place[Startup] = "sync"
  /\ IF enabled
     THEN Move(Startup, "connect") /\ UNCHANGED supervisor
     ELSE Move(Startup, "resume") /\ Disconnect
  /\ UNCHANGED <<why, publicLane, settings, manager>>

NothingQueued ==
  /\ place[Startup] = "resume" /\ asking[Startup] = "idle"
  /\ Move(Startup, "prewarm")
  /\ UNCHANGED <<why, publicLane, settings, supervisor, manager>>

StartupPrewarm ==
  /\ place[Startup] = "prewarm"
  /\ IF Allowed(TRUE)
     THEN \E b \in Boots : /\ place[b] = "idle"
                           /\ place' = [place EXCEPT ![Startup] = "idle", ![b] = "connect"]
                           /\ why' = [why EXCEPT ![b] = "startup"]
     ELSE Move(Startup, "idle") /\ UNCHANGED why
  /\ cadence' = Spent
  /\ UNCHANGED <<asking, enough, cooling, publicLane, settings, supervisor>>

-----------------------------------------------------------------------------
Connecting(t) == BeginConnect(t) \/ Check(t) \/ Wait(t) \/ Store(t)
Serving == JoinConnects \/ Left \/ Yielded \/ StartPublic
Warmup(q) == ReadTier(q) \/ Judge(q) \/ Ask(q) \/ Conclude(q)
Starting == StartupSync \/ NothingQueued \/ StartupPrewarm

LNNext ==
  \/ \E t \in Threads : Connecting(t)
  \/ Serving \/ Starting
  \/ Activate \/ Join \/ Leave
  \/ EnablePublic \/ DisablePublic \/ UpdatePublic
  \/ \E q \in Askers : Warmup(q)
  \/ \E b \in Boots : Upgrade(b) \/ Scheduled(b)
  \/ Observe \/ CooldownEnds \/ CadenceComesDue \/ CacheExpires
  \/ ServerAnswers \/ ServerExits \/ BridgeEnds \/ DelayedStart

LNSpec == LNInit /\ [][LNNext]_lnVars

-----------------------------------------------------------------------------
LNTypeOK ==
  /\ {enabled, anonymous, public, late, found, cooling} \subseteq BOOLEAN
  /\ bridge \in {"off", "on", "stopping"} /\ delayed \in 0..MaxRequests
  /\ server \in {"down", "starting", "up"} /\ cache \in {"none", "ready", "not"}
  /\ place \in [Threads -> Inside \cup {"idle", "connect", "restart", "leave", "yield",
                                     "start", "sync", "resume", "prewarm"}]
  /\ why \in [Boots -> {"asked", "scheduled", "startup"}]
  /\ joining \in {"no", "restart", "connect"}
  /\ asking \in [Askers -> {"idle", "read", "ask", "conclude"}]
  /\ enough \in [Askers -> BOOLEAN]
  /\ cadence \in {"unset", "waiting", "due"}

\* "Public MQTT and Wormhole are intentionally mutually exclusive lanes"
\* (admin.py:278): the private lane is never ready while the public bridge runs,
\* whatever threads start and stop, but for two windows: a join, or a backend
\* that starts, has not come to its connect yet, or a Timer has started the
\* bridge after a connect turned it off.
LNExclusive ==
  bridge = "on" /\ Ready =>
    late \/ joining # "no" \/ place[Loop] \in {"connect", "restart"}
         \/ place[Startup] \in {"sync", "connect"}

\* "Disabled private transport must stay disabled even if a stale local wormhole
\* process is still answering" (wormhole_supervisor.py:420): once a request that
\* disables it has returned, no cached state says "ready", although bootstrap
\* threads that were under way start a server.
LNDisabledIsOff ==
  ~enabled /\ place[Loop] \notin {"leave", "yield"} => cache # "ready"

\* While a message waits the transport is ready or is tried again and again, in
\* anonymous mode too, where no action of the user may start it.
LNWarms == []<>(Ready \/ \E t \in Threads : place[t] \in Inside)

\* "Scheduled Wormhole prewarm must not mutate the user's explicit public
\* MeshChat session" (transport_lane_isolation.py:18): what the prewarm service
\* starts by itself leaves the public lane as it is.
LNPublicStays ==
  [][\A b \in Boots : BeginConnect(b) /\ why[b] # "asked" =>
       (public => public' /\ bridge' = bridge)]_lnVars
=============================================================================
