--------------------------- MODULE CommandChannel ---------------------------
(***************************************************************************)
(* The queue between the agent and the node (openclaw_channel.py).  Commands *)
(* arrive on HTTP or WebSocket handlers, which call the channel without      *)
(* awaiting it: the event loop's thread submits, waits and answers, and runs *)
(* no other handler meanwhile.  The commands themselves run on a pool of     *)
(* worker threads that nothing interrupts.  Alerts come from the watchdog's  *)
(* thread, and the pollers of the loop take them.                            *)
(*                                                                          *)
(* What a command answers is abstracted to success or an exception; the      *)
(* clock to the two things it decides: a wait that times out, and a result   *)
(* or alert that outlives its TTL.                                           *)
(***************************************************************************)
EXTENDS Naturals, FiniteSets, Sequences, SequencesExt

CONSTANTS
  Commands,     \* the commands submitted, each once
  Alerts,       \* the tasks pushed to the agent, each once
  MaxPending,   \* MAX_PENDING_COMMANDS
  MaxAlerts,    \* MAX_PENDING_TASKS
  MaxBatch,     \* the longest batch
  Workers       \* threads of _executor

ASSUME ChannelAssumption ==
  /\ IsFiniteSet(Commands) /\ IsFiniteSet(Alerts) /\ Commands \cap Alerts = {}
  /\ MaxPending \in Nat /\ MaxAlerts \in Nat /\ MaxBatch \in Nat /\ Workers \in Nat

VARIABLES
  commands,  \* CommandChannel._commands: the ids it lists
  status,    \* CommandEntry.status, "new" before the command is submitted
  old,       \* finished commands past COMMAND_RESULT_TTL, alerts past TASK_TTL
  pool,      \* what _executor has queued, in order
  future,    \* the state of each command's future
  loop,      \* what the event loop's thread is doing
  awaited,   \* the commands of the call under way that have no result yet
  tasks,     \* CommandChannel._tasks
  taken,     \* alerts a push loop has polled and not sent yet
  pushed,    \* history: alerts the watchdog has pushed
  agent      \* history: how many times the agent got each result and alert

commandVars == <<commands, status, pool, future, loop, awaited>>
alertVars == <<tasks, taken, pushed>>
ccVars == <<commands, status, old, pool, future, loop, awaited, alertVars, agent>>

Finished == {c \in Commands : status[c] \in {"completed", "failed"}}
PendingCommands == {c \in commands : status[c] = "pending"}
Running == {c \in Commands : future[c] = "running"}
Unsubmitted == {c \in Commands : status[c] = "new"}

\* _prune_expired: results and alerts past their TTL go; a command that has
\* not finished stays, however old.
KeptCommands == commands \ (old \cap Finished)
KeptAlerts == tasks \ old

-----------------------------------------------------------------------------
CCInit ==
  /\ commands = {} /\ old = {} /\ tasks = {} /\ taken = {} /\ pushed = {}
  /\ status = [c \in Commands |-> "new"]
  /\ future = [c \in Commands |-> "none"]
  /\ pool = <<>> /\ loop = "idle" /\ awaited = {}
  /\ agent = [x \in Commands \cup Alerts |-> 0]

\* The entries of cs are listed and given to the pool, and the call waits for
\* them: a single command is marked "executing" first, those of a batch stay
\* "pending" until their turn to be collected comes.
Submit(cs, mark, wait, limit) ==
  /\ loop = "idle" /\ cs \subseteq Unsubmitted
  /\ tasks' = KeptAlerts
  /\ IF limit
     THEN /\ commands' = KeptCommands
          /\ UNCHANGED <<status, future, pool, loop, awaited>>
     ELSE /\ commands' = KeptCommands \cup cs
          /\ status' = [c \in Commands |-> IF c \in cs THEN mark ELSE status[c]]
          /\ future' = [c \in Commands |-> IF c \in cs THEN "queued" ELSE future[c]]
          /\ pool' = pool \o SetToSeq(cs)
          /\ loop' = wait /\ awaited' = cs
  /\ UNCHANGED <<old, taken, pushed, agent>>

SubmitCommand(c) ==
  Submit({c}, "executing", "command", Cardinality(PendingCommands) >= MaxPending)

SubmitBatch(cs) ==
  /\ Cardinality(cs) \in 1..MaxBatch
  /\ Submit(cs, "pending", "batch",
            Cardinality(PendingCommands) + Cardinality(cs) > MaxPending)

\* A worker is free and takes the command that has waited longest.
WorkerStarts ==
  /\ pool # <<>> /\ Cardinality(Running) < Workers
  /\ future' = [future EXCEPT ![Head(pool)] = "running"]
  /\ pool' = Tail(pool)
  /\ UNCHANGED <<commands, status, old, loop, awaited, alertVars, agent>>

\* _dispatch_command returns or raises, whether anybody still waits or not.
WorkerEnds(c) ==
  /\ future[c] = "running"
  /\ \E r \in {"ok", "raised"} : future' = [future EXCEPT ![c] = r]
  /\ UNCHANGED <<commands, status, old, pool, loop, awaited, alertVars, agent>>

Resolve(c, outcome) ==
  /\ c \in awaited
  /\ status' = [status EXCEPT ![c] = outcome]
  /\ awaited' = awaited \ {c}
  /\ loop' = IF awaited = {c} THEN "idle" ELSE loop
  /\ UNCHANGED <<commands, old, pool, future, alertVars, agent>>

\* The result or the exception of a command the call waits for, in the order
\* they come.
Collect(c) ==
  \/ future[c] = "ok" /\ Resolve(c, "completed")
  \/ future[c] = "raised" /\ Resolve(c, "failed")

\* Mutant of CommandTimesOut: a wait without a timeout.
NeverTimesOut == FALSE /\ UNCHANGED ccVars

\* COMMAND_TIMEOUT: the command is reported as failed and is left in the pool.
CommandTimesOut ==
  /\ loop = "command"
  /\ \E c \in awaited : future[c] \in {"queued", "running"} /\ Resolve(c, "failed")

\* COMMAND_TIMEOUT + 5: as_completed raises, out of submit_batch.
BatchTimesOut ==
  /\ loop = "batch" /\ \E c \in awaited : future[c] \in {"queued", "running"}
  /\ loop' = "idle" /\ awaited' = {}
  /\ UNCHANGED <<commands, status, old, pool, future, alertVars, agent>>

\* POST /channel/poll: results and alerts are handed over and forgotten.
Poll ==
  /\ loop = "idle"
  /\ LET results == KeptCommands \cap Finished
     IN /\ commands' = KeptCommands \ results
        /\ agent' = [x \in DOMAIN agent |->
                       IF x \in results \cup KeptAlerts THEN agent[x] + 1 ELSE agent[x]]
  /\ tasks' = {}
  /\ UNCHANGED <<status, old, pool, future, loop, awaited, taken, pushed>>

\* The push loop of a WebSocket, or a stream, polls for alerts ...
PushLoopPolls ==
  /\ loop = "idle" /\ taken = {}
  /\ commands' = KeptCommands
  /\ taken' = KeptAlerts /\ tasks' = {}
  /\ UNCHANGED <<status, old, pool, future, loop, awaited, pushed, agent>>

\* ... and sends them one by one ...
PushLoopSends(a) ==
  /\ loop = "idle" /\ a \in taken
  /\ taken' = taken \ {a}
  /\ agent' = [agent EXCEPT ![a] = @ + 1]
  /\ UNCHANGED <<commandVars, old, tasks, pushed>>

\* ... unless the connection is gone, and the rest with it.
ConnectionCloses ==
  /\ loop = "idle" /\ taken # {}
  /\ taken' = {}
  /\ UNCHANGED <<commandVars, old, tasks, pushed, agent>>

\* The watchdog's thread, at any time.
PushTask(a) ==
  /\ a \notin pushed /\ pushed' = pushed \cup {a}
  /\ commands' = KeptCommands
  /\ tasks' = IF Cardinality(KeptAlerts) >= MaxAlerts THEN KeptAlerts ELSE KeptAlerts \cup {a}
  /\ UNCHANGED <<status, old, pool, future, loop, awaited, taken, agent>>

\* A finished command or an alert outlives its TTL.
Outlives(x) ==
  /\ x \in ((Finished \cap commands) \cup tasks) \ old
  /\ old' = old \cup {x}
  /\ UNCHANGED <<commandVars, alertVars, agent>>

LoopWaits ==
  \/ \E c \in Commands : Collect(c)
  \/ CommandTimesOut
  \/ BatchTimesOut

CCNext ==
  \/ \E c \in Commands : SubmitCommand(c) \/ WorkerEnds(c)
  \/ \E cs \in SUBSET Unsubmitted : SubmitBatch(cs)
  \/ LoopWaits \/ WorkerStarts
  \/ Poll \/ PushLoopPolls \/ ConnectionCloses
  \/ \E a \in Alerts : PushLoopSends(a) \/ PushTask(a)
  \/ \E x \in Commands \cup Alerts : Outlives(x)

-----------------------------------------------------------------------------
CCTypeOK ==
  /\ commands \subseteq Commands
  /\ pushed \subseteq Alerts /\ tasks \subseteq pushed /\ taken \subseteq pushed
  /\ old \subseteq Commands \cup Alerts
  /\ status \in [Commands -> {"new", "pending", "executing", "completed", "failed"}]
  /\ future \in [Commands -> {"none", "queued", "running", "ok", "raised"}]
  /\ pool \in Seq(Commands) /\ awaited \subseteq Commands
  /\ loop \in {"idle", "command", "batch"} /\ (loop = "idle") = (awaited = {})
  /\ agent \in [Commands \cup Alerts -> 0..1]

\* The event loop gets out of every command and batch it waits for, and with
\* it every other handler of the node, even if the workers are stuck for good
\* in commands that never end.
CCLoopReturns == (loop # "idle") ~> (loop = "idle")
=============================================================================
