------------------------------ MODULE TaskQueue ------------------------------
(***************************************************************************)
(* IntelligenceTaskQueue (intelligence_core/task_queue.py): background jobs *)
(* as tasks of the event loop, throttled by a semaphore that a new limit    *)
(* replaces.  Nothing runs in parallel, so each action is the code between  *)
(* two awaits.  The semaphore is asyncio's: waiters are served in order and  *)
(* nobody overtakes them.                                                   *)
(***************************************************************************)
EXTENDS Integers, FiniteSets, Sequences, SequencesExt

CONSTANTS
  Jobs,         \* the jobs, each submitted once
  History,      \* maxlen of _order
  Limits,       \* the limits set_max_concurrency is called with
  MaxChanges    \* bound on the calls that change the limit

ASSUME TaskQueueAssumption ==
  /\ IsFiniteSet(Jobs) /\ History \in Nat \ {0}
  /\ Limits \subseteq Nat \ {0} /\ MaxChanges \in Nat

VARIABLES
  jobs,     \* _jobs: the jobs with a record
  order,    \* _order
  live,     \* _tasks: the jobs whose task is still registered
  state,    \* Job.state
  at,       \* where the job's runner is
  sem,      \* the semaphore it waits for or holds
  cancels,  \* the jobs that have been cancelled
  limits,   \* the limit of every semaphore so far; _sem is the last one
  permits,  \* what each semaphore has left
  waiters   \* who waits for each semaphore, in order

tqVars == <<jobs, order, live, state, at, sem, cancels, limits, permits, waiters>>
semVars == <<sem, limits, permits, waiters>>

Current == Len(limits)
Sems == 1..Current
RunningOn(g) == {j \in Jobs : at[j] = "running" /\ sem[j] = g}

\* Mutant of Appended: a plain list.
AppendedAlways(q, j) == Append(q, j)

\* deque(maxlen = History).
Appended(q, j) == IF Len(q) < History THEN Append(q, j) ELSE Append(Tail(q), j)

-----------------------------------------------------------------------------
TQInit ==
  /\ jobs = {} /\ order = <<>> /\ live = {} /\ cancels = {}
  /\ state = [j \in Jobs |-> "new"] /\ at = [j \in Jobs |-> "new"]
  /\ sem = [j \in Jobs |-> 0]
  /\ \E n \in Limits : limits = <<n>> /\ permits = <<n>>
  /\ waiters = <<(<<>>)>>

\* The record of the id the deque is about to drop goes unless its task is
\* registered.
Evicted ==
  IF Len(order) >= History /\ Head(order) \notin live THEN {Head(order)} ELSE {}

TQSubmit(j) ==
  /\ at[j] = "new"
  /\ jobs' = (jobs \ Evicted) \cup {j}
  /\ order' = Appended(order, j)
  /\ live' = live \cup {j}
  /\ state' = [state EXCEPT ![j] = "queued"]
  /\ at' = [at EXCEPT ![j] = "created"]
  /\ UNCHANGED <<cancels, semVars>>

Runs(j, g) ==
  /\ permits' = [permits EXCEPT ![g] = @ - 1]
  /\ at' = [at EXCEPT ![j] = "running"]
  /\ state' = [state EXCEPT ![j] = "running"]

\* The runner's first step: it enters the semaphore of that moment, or waits.
TQStart(j) ==
  /\ at[j] = "created" /\ j \notin cancels
  /\ sem' = [sem EXCEPT ![j] = Current]
  /\ IF permits[Current] > 0 /\ waiters[Current] = <<>>
     THEN Runs(j, Current) /\ UNCHANGED waiters
     ELSE /\ at' = [at EXCEPT ![j] = "waiting"]
          /\ waiters' = [waiters EXCEPT ![Current] = Append(@, j)]
          /\ UNCHANGED <<state, permits>>
  /\ UNCHANGED <<jobs, order, live, cancels, limits>>

\* Mutant of TQWake: the waiters of the current semaphore only.
WakeCurrent(g) ==
  /\ g = Current
  /\ waiters[g] # <<>> /\ permits[g] > 0
  /\ Runs(Head(waiters[g]), g)
  /\ waiters' = [waiters EXCEPT ![g] = Tail(@)]
  /\ UNCHANGED <<jobs, order, live, cancels, sem, limits>>

\* A released permit goes to the first waiter.
TQWake(g) ==
  /\ waiters[g] # <<>> /\ permits[g] > 0
  /\ Runs(Head(waiters[g]), g)
  /\ waiters' = [waiters EXCEPT ![g] = Tail(@)]
  /\ UNCHANGED <<jobs, order, live, cancels, sem, limits>>

\* The finally clause, and the exit from the semaphore it entered.
Ends(j, outcome) ==
  /\ at[j] = "running"
  /\ state' = [state EXCEPT ![j] = outcome]
  /\ at' = [at EXCEPT ![j] = "over"]
  /\ live' = live \ {j}
  /\ permits' = [permits EXCEPT ![sem[j]] = @ + 1]
  /\ UNCHANGED <<jobs, order, cancels, sem, limits, waiters>>

TQFinish(j) == j \notin cancels /\ \E r \in {"succeeded", "failed"} : Ends(j, r)

TQCancel(j) ==
  /\ j \in live \ cancels
  /\ cancels' = cancels \cup {j}
  /\ UNCHANGED <<jobs, order, live, state, at, semVars>>

LeavesQueue(j) ==
  \E i \in DOMAIN waiters[sem[j]] :
    /\ waiters[sem[j]][i] = j
    /\ waiters' = [waiters EXCEPT ![sem[j]] = RemoveAt(@, i)]

\* A cancellation before the try leaves the record "queued" and the task
\* registered.
NeverRuns(j) ==
  /\ at[j] \in {"created", "waiting"}
  /\ at' = [at EXCEPT ![j] = "over"]
  /\ IF at[j] = "waiting" THEN LeavesQueue(j) ELSE UNCHANGED waiters
  /\ UNCHANGED <<jobs, order, live, state, cancels, sem, limits, permits>>

\* Mutant of TQUnwind: a cancelled job keeps its permit.
UnwindKeepsPermit(j) ==
  /\ j \in cancels
  /\ \/ /\ at[j] = "running"
        /\ at' = [at EXCEPT ![j] = "over"]
        /\ UNCHANGED <<jobs, order, live, state, cancels, semVars>>
     \/ NeverRuns(j)

\* The task meets its cancellation, in the job or before it.
TQUnwind(j) == j \in cancels /\ (Ends(j, "cancelled") \/ NeverRuns(j))

TQSetLimit(n) ==
  /\ n # limits[Current] /\ Current <= MaxChanges
  /\ limits' = Append(limits, n)
  /\ permits' = Append(permits, n)
  /\ waiters' = Append(waiters, <<>>)
  /\ UNCHANGED <<jobs, order, live, state, at, sem, cancels>>

TQNext ==
  \/ \E j \in Jobs :
       TQSubmit(j) \/ TQStart(j) \/ TQFinish(j) \/ TQCancel(j) \/ TQUnwind(j)
  \/ \E g \in Sems : TQWake(g)
  \/ \E n \in Limits : TQSetLimit(n)

TQSpec == TQInit /\ [][TQNext]_tqVars

-----------------------------------------------------------------------------
TQTypeOK ==
  /\ jobs \subseteq Jobs /\ live \subseteq Jobs /\ cancels \subseteq Jobs
  /\ order \in Seq(Jobs) /\ Len(order) <= History
  /\ state \in [Jobs -> {"new", "queued", "running", "succeeded", "failed", "cancelled"}]
  /\ at \in [Jobs -> {"new", "created", "waiting", "running", "over"}]
  /\ limits \in Seq(Limits) /\ Len(limits) >= 1
  /\ permits \in Seq(Nat) /\ Len(permits) = Len(limits)
  /\ waiters \in Seq(Seq(Jobs)) /\ Len(waiters) = Len(limits)
  /\ sem \in [Jobs -> 0..Len(limits)]

\* Every semaphore has back what its jobs do not hold, however they ended and
\* whichever semaphore is in use by then: no limit is ever exceeded, and none
\* shrinks.
TQPermits ==
  \A g \in Sems : permits[g] + Cardinality(RunningOn(g)) = limits[g]

\* A job that nobody cancels is run to its end, under the semaphore it met,
\* even when the limit changes while it waits.
TQServed ==
  \A j \in Jobs : (at[j] = "created") ~> (j \in cancels \/ state[j] \in {"succeeded", "failed"})
=============================================================================
