----------------------------- MODULE NodeProofs -----------------------------
(***************************************************************************)
(* What holds of TaskQueue and CommandChannel for any jobs, limits, commands *)
(* and alerts, and of the components of a node side by side.                 *)
(*                                                                          *)
(* The invariant of the queue adds to TQTypeOK and TQPermits who waits where:*)
(* each entry of a queue is a job that waits for that semaphore, and no job *)
(* is in it twice (QueuesHold), so that a job that is woken or gives up     *)
(* leaves no second entry behind that could run it again.  The one of the   *)
(* channel says what the agent cannot have got yet (Undelivered).            *)
(***************************************************************************)
EXTENDS MCNode, RatchetProofs, InfonetSyncProofs

Entered == \A j \in Jobs : at[j] \in {"waiting", "running"} => sem[j] \in Sems

QueuesHold ==
  \A g \in Sems : \A i \in 1..Len(waiters[g]) :
    /\ at[waiters[g][i]] = "waiting" /\ sem[waiters[g][i]] = g
    /\ \A k \in 1..Len(waiters[g]) : waiters[g][i] = waiters[g][k] => i = k

TQInv == TQTypeOK /\ TQPermits /\ Entered /\ QueuesHold

-----------------------------------------------------------------------------
\* A sequence of sequences in which one of them is replaced.
LEMMA Replaced ==
  ASSUME NEW S, NEW q \in Seq(S), NEW g \in 1..Len(q), NEW e \in S
  PROVE  LET r == [q EXCEPT ![g] = e]
         IN r \in Seq(S) /\ Len(r) = Len(q) /\ \A h \in 1..Len(q) : r[h] = IF h = g THEN e ELSE q[h]
  BY ExceptSeq

\* RemoveAt takes one entry out and keeps the others in order.
LEMMA RemoveAtProperties ==
  ASSUME NEW S, NEW s \in Seq(S), NEW i \in 1..Len(s)
  PROVE  /\ RemoveAt(s, i) \in Seq(S)
         /\ Len(RemoveAt(s, i)) = Len(s) - 1
         /\ \A k \in 1..(Len(s) - 1) : RemoveAt(s, i)[k] = IF k < i THEN s[k] ELSE s[k + 1]
<1> DEFINE front == SubSeq(s, 1, i - 1)
           back == SubSeq(s, i + 1, Len(s))
<1>1. front \in Seq(S) /\ Len(front) = i - 1 /\ \A k \in 1..(i - 1) : front[k] = s[k]
  OBVIOUS
<1>2. /\ back \in Seq(S) /\ Len(back) = Len(s) - i
      /\ \A k \in 1..(Len(s) - i) : back[k] = s[k + i]
  OBVIOUS
<1>3. RemoveAt(s, i) = front \o back
  BY DEF RemoveAt
<1> HIDE DEF front, back
<1>4. /\ front \o back \in Seq(S) /\ Len(front \o back) = Len(front) + Len(back)
      /\ \A k \in 1..(Len(front) + Len(back)) :
           (front \o back)[k] = IF k <= Len(front) THEN front[k] ELSE back[k - Len(front)]
  BY <1>1, <1>2, ConcatProperties
<1>5. \A k \in 1..(Len(s) - 1) : RemoveAt(s, i)[k] = IF k < i THEN s[k] ELSE s[k + 1]
  <2> SUFFICES ASSUME NEW k \in 1..(Len(s) - 1)
               PROVE  RemoveAt(s, i)[k] = IF k < i THEN s[k] ELSE s[k + 1]
    OBVIOUS
  <2>1. CASE k < i
    BY <1>1, <1>2, <1>3, <1>4, <2>1
  <2>2. CASE ~(k < i)
    <3>1. (front \o back)[k] = back[k - (i - 1)]
      BY <1>1, <1>2, <1>4, <2>2
    <3>2. back[k - (i - 1)] = s[k - (i - 1) + i]
      BY <1>2, <2>2
    <3> QED
      BY <1>3, <2>2, <3>1, <3>2
  <2> QED
    BY <2>1, <2>2
<1> QED
  BY <1>1, <1>2, <1>3, <1>4, <1>5

\* The jobs that hold a permit can be counted.
LEMMA RunningFinite ==
  \A g : IsFiniteSet(RunningOn(g)) /\ Cardinality(RunningOn(g)) \in Nat
<1> SUFFICES ASSUME NEW g PROVE IsFiniteSet(RunningOn(g)) /\ Cardinality(RunningOn(g)) \in Nat
  OBVIOUS
<1>1. RunningOn(g) \subseteq Jobs
  BY DEF RunningOn
<1>2. IsFiniteSet(RunningOn(g))
  BY <1>1, TaskQueueAssumption, FS_Subset DEF TaskQueueAssumption
<1> QED
  BY <1>2, FS_CardinalityType

\* One permit less for one job more.
LEMMA OneMoreRuns ==
  ASSUME NEW g, NEW j \in Jobs, at[j] # "running",
         RunningOn(g)' = RunningOn(g) \cup {j}
  PROVE  Cardinality(RunningOn(g)') = Cardinality(RunningOn(g)) + 1
<1>1. j \notin RunningOn(g)
  BY DEF RunningOn
<1> QED
  BY <1>1, RunningFinite, FS_AddElement

\* One permit more for one job less.
LEMMA OneLessRuns ==
  ASSUME NEW g, NEW j \in RunningOn(g), RunningOn(g)' = RunningOn(g) \ {j}
  PROVE  Cardinality(RunningOn(g)') = Cardinality(RunningOn(g)) - 1
  BY RunningFinite, FS_RemoveElement

-----------------------------------------------------------------------------
\* The semaphores number the permits and the queues.
LEMMA SemsIndex ==
  ASSUME TQTypeOK
  PROVE  /\ Current \in Sems /\ Sems = 1..Len(permits) /\ Sems = 1..Len(waiters)
         /\ Sems \subseteq 1..Len(limits)
         /\ \A g \in Sems : permits[g] \in Nat /\ waiters[g] \in Seq(Jobs)
<1>1. Len(limits) \in Nat /\ Current \in Sems /\ Sems = 1..Len(limits)
  BY DEF TQTypeOK, Sems, Current
<1>2. Len(permits) = Len(limits) /\ Len(waiters) = Len(limits)
  BY DEF TQTypeOK
<1>3. permits \in Seq(Nat) /\ waiters \in Seq(Seq(Jobs))
  BY DEF TQTypeOK
<1> QED
  BY <1>1, <1>2, <1>3, ElementOfSeq

\* A job that begins to run takes one permit.
LEMMA RunsPermits ==
  ASSUME TQTypeOK, NEW g \in Sems, NEW j \in Jobs, permits[g] > 0, Runs(j, g)
  PROVE  /\ permits' \in Seq(Nat) /\ Len(permits') = Len(permits)
         /\ \A h \in Sems : permits'[h] = IF h = g THEN permits[g] - 1 ELSE permits[h]
<1>1. permits[g] - 1 \in Nat
  BY SemsIndex
<1>2. permits \in Seq(Nat) /\ permits' = [permits EXCEPT ![g] = permits[g] - 1]
  BY DEF TQTypeOK, Runs
<1> QED
  BY <1>1, <1>2, SemsIndex, Replaced

\* Every step keeps the state within its types.
LEMMA QueueTyped == TQInv /\ [TQNext]_tqVars => TQTypeOK'
<1> SUFFICES ASSUME TQInv, [TQNext]_tqVars PROVE TQTypeOK'
  OBVIOUS
<1> USE TaskQueueAssumption DEF TaskQueueAssumption, TQTypeOK, TQInv
<1>1. ASSUME NEW j \in Jobs, TQSubmit(j) PROVE TQTypeOK'
  <2>1. order' \in Seq(Jobs) /\ Len(order') <= History
    BY <1>1 DEF TQSubmit, Appended
  <2> QED
    BY <1>1, <2>1 DEF TQSubmit, Evicted, semVars
<1>2. ASSUME NEW j \in Jobs, TQStart(j) PROVE TQTypeOK'
  <2>1. sem' \in [Jobs -> 0..Len(limits)]
    BY <1>2 DEF TQStart, Current
  <2>2. CASE permits[Current] > 0 /\ waiters[Current] = <<>>
    <3>1. Runs(j, Current) /\ UNCHANGED waiters
      BY <1>2, <2>2 DEF TQStart
    <3> QED
      BY <1>2, <2>1, <2>2, <3>1, RunsPermits, SemsIndex DEF TQStart, Runs
  <2>3. CASE ~(permits[Current] > 0 /\ waiters[Current] = <<>>)
    <3>1. /\ waiters' = [waiters EXCEPT ![Current] = Append(waiters[Current], j)]
          /\ at' = [at EXCEPT ![j] = "waiting"]
          /\ UNCHANGED <<jobs, order, live, cancels, limits, state, permits>>
      BY <1>2, <2>3 DEF TQStart
    <3>2. Append(waiters[Current], j) \in Seq(Jobs)
      BY SemsIndex
    <3>3. waiters' \in Seq(Seq(Jobs)) /\ Len(waiters') = Len(waiters)
      BY <3>1, <3>2, SemsIndex, Replaced
    <3> QED
      BY <2>1, <3>1, <3>3
  <2> QED
    BY <2>2, <2>3
<1>3. ASSUME NEW g \in Sems, TQWake(g) PROVE TQTypeOK'
  <2>1. Head(waiters[g]) \in Jobs /\ Tail(waiters[g]) \in Seq(Jobs)
    BY <1>3, SemsIndex, HeadTailProperties DEF TQWake
  <2>2. waiters' \in Seq(Seq(Jobs)) /\ Len(waiters') = Len(waiters)
    BY <1>3, <2>1, SemsIndex, Replaced DEF TQWake
  <2> QED
    BY <1>3, <2>1, <2>2, RunsPermits DEF TQWake, Runs
<1>4. ASSUME NEW j \in Jobs, NEW r \in {"succeeded", "failed", "cancelled"}, Ends(j, r)
      PROVE  TQTypeOK'
  <2>1. sem[j] \in 1..Len(permits)
    BY <1>4 DEF Ends, Entered, Sems, Current
  <2>2. permits' \in Seq(Nat) /\ Len(permits') = Len(limits)
    BY <1>4, <2>1, ExceptSeq, ElementOfSeq DEF Ends
  <2> QED
    BY <1>4, <2>2 DEF Ends
<1>5. ASSUME NEW j \in Jobs, NeverRuns(j) PROVE TQTypeOK'
  <2>1. waiters' \in Seq(Seq(Jobs)) /\ Len(waiters') = Len(limits)
    <3>1. CASE at[j] = "waiting"
      <4>1. PICK i \in DOMAIN waiters[sem[j]] :
              waiters' = [waiters EXCEPT ![sem[j]] = RemoveAt(@, i)]
        BY <1>5, <3>1 DEF NeverRuns, LeavesQueue
      <4>2. sem[j] \in 1..Len(waiters) /\ waiters[sem[j]] \in Seq(Jobs)
        BY <3>1, ElementOfSeq DEF Entered, Sems, Current
      <4>3. i \in 1..Len(waiters[sem[j]])
        BY <4>2, LenProperties
      <4>4. RemoveAt(waiters[sem[j]], i) \in Seq(Jobs)
        BY <4>2, <4>3, RemoveAtProperties
      <4> QED
        BY <4>1, <4>2, <4>4, Replaced
    <3>2. CASE at[j] # "waiting"
      BY <1>5, <3>2 DEF NeverRuns
    <3> QED
      BY <3>1, <3>2
  <2> QED
    BY <1>5, <2>1 DEF NeverRuns
<1>6. ASSUME NEW j \in Jobs, TQCancel(j) PROVE TQTypeOK'
  BY <1>6 DEF TQCancel, semVars
<1>7. ASSUME NEW n \in Limits, TQSetLimit(n) PROVE TQTypeOK'
  <2>1. limits' \in Seq(Limits) /\ Len(limits') = Len(limits) + 1
    BY <1>7 DEF TQSetLimit
  <2>2. permits' \in Seq(Nat) /\ Len(permits') = Len(permits) + 1
    BY <1>7 DEF TQSetLimit
  <2>3. waiters' \in Seq(Seq(Jobs)) /\ Len(waiters') = Len(waiters) + 1
    BY <1>7, EmptySeq, AppendProperties DEF TQSetLimit
  <2> QED
    BY <1>7, <2>1, <2>2, <2>3 DEF TQSetLimit
<1>8. CASE UNCHANGED tqVars
  BY <1>8 DEF tqVars
<1> QED
  BY <1>1, <1>2, <1>3, <1>4, <1>5, <1>6, <1>7, <1>8 DEF TQNext, TQFinish, TQUnwind

-----------------------------------------------------------------------------
\* A job that waits or runs has entered a semaphore.
LEMMA EnteredStep == TQInv /\ [TQNext]_tqVars => Entered'
<1> SUFFICES ASSUME TQInv, [TQNext]_tqVars PROVE Entered'
  OBVIOUS
<1> USE DEF TQInv, Entered
<1>1. TQTypeOK /\ Current \in Sems
  BY SemsIndex
<1>2. /\ at \in [Jobs -> {"new", "created", "waiting", "running", "over"}]
      /\ sem \in [Jobs -> 0..Len(limits)]
  BY <1>1 DEF TQTypeOK
<1>3. ASSUME NEW j \in Jobs, TQSubmit(j) PROVE Entered'
  BY <1>2, <1>3 DEF TQSubmit, semVars, Sems, Current
<1>4. ASSUME NEW j \in Jobs, TQStart(j) PROVE Entered'
  BY <1>1, <1>2, <1>4 DEF TQStart, Runs, Sems, Current
<1>5. ASSUME NEW g \in Sems, TQWake(g) PROVE Entered'
  <2>1. waiters[g] # <<>> /\ waiters[g] \in Seq(Jobs)
    BY <1>1, <1>5, SemsIndex DEF TQWake
  <2>2. 1 \in 1..Len(waiters[g]) /\ Head(waiters[g]) = waiters[g][1]
    BY <2>1
  <2>3. Head(waiters[g]) \in Jobs /\ sem[Head(waiters[g])] = g
    BY <2>1, <2>2, ElementOfSeq DEF QueuesHold
  <2> QED
    BY <1>2, <1>5, <2>3 DEF TQWake, Runs, Sems, Current
<1>6. ASSUME NEW j \in Jobs, NEW r, Ends(j, r) PROVE Entered'
  BY <1>2, <1>6 DEF Ends, Sems, Current
<1>7. ASSUME NEW j \in Jobs, NeverRuns(j) PROVE Entered'
  BY <1>2, <1>7 DEF NeverRuns, Sems, Current
<1>8. ASSUME NEW j \in Jobs, TQCancel(j) PROVE Entered'
  BY <1>8 DEF TQCancel, semVars, Sems, Current
<1>9. ASSUME NEW n \in Limits, TQSetLimit(n) PROVE Entered'
  <2>1. Len(limits') = Len(limits) + 1 /\ Len(limits) \in Nat
    BY <1>1, <1>9 DEF TQSetLimit, TQTypeOK
  <2> QED
    BY <1>9, <2>1 DEF TQSetLimit, Sems, Current
<1>10. CASE UNCHANGED tqVars
  BY <1>10 DEF tqVars, Sems, Current
<1> QED
  BY <1>3, <1>4, <1>5, <1>6, <1>7, <1>8, <1>9, <1>10 DEF TQNext, TQFinish, TQUnwind

\* When a job leaves a queue for good, the others stay in it.
LEMMA OneLeaves ==
  ASSUME TQTypeOK, QueuesHold, NEW g \in Sems, NEW i \in 1..Len(waiters[g]), NEW l,
         at' = [at EXCEPT ![waiters[g][i]] = l], UNCHANGED <<sem, limits>>,
         \A h \in Sems : h # g => waiters'[h] = waiters[h],
         Len(waiters'[g]) = Len(waiters[g]) - 1,
         \A k \in 1..(Len(waiters[g]) - 1) :
           waiters'[g][k] = IF k < i THEN waiters[g][k] ELSE waiters[g][k + 1]
  PROVE  QueuesHold'
<1> DEFINE j == waiters[g][i]
           From(k) == IF k < i THEN k ELSE k + 1
<1>1. \A h \in Sems : waiters[h] \in Seq(Jobs) /\ \A k \in 1..Len(waiters[h]) : waiters[h][k] \in Jobs
  BY SemsIndex, ElementOfSeq
<1>2. Sems' = Sems /\ at \in [Jobs -> {"new", "created", "waiting", "running", "over"}]
  BY DEF Sems, Current, TQTypeOK
<1>3. sem[j] = g /\ \A k \in 1..Len(waiters[g]) : k # i => waiters[g][k] # j
  BY DEF QueuesHold
<1>4. \A k \in 1..Len(waiters'[g]) :
        From(k) \in 1..Len(waiters[g]) /\ From(k) # i /\ waiters'[g][k] = waiters[g][From(k)]
  BY <1>1
<1>5. \A k, m \in 1..Len(waiters'[g]) : From(k) = From(m) => k = m
  OBVIOUS
<1> HIDE DEF j, From
<1>6. at' = [at EXCEPT ![j] = l]
  BY DEF j
<1>7. ASSUME NEW h \in Sems, h # g, NEW k \in 1..Len(waiters'[h])
      PROVE  /\ at'[waiters'[h][k]] = "waiting" /\ sem'[waiters'[h][k]] = h
             /\ \A m \in 1..Len(waiters'[h]) : waiters'[h][k] = waiters'[h][m] => k = m
  <2>1. waiters'[h] = waiters[h] /\ waiters[h][k] \in Jobs /\ sem[waiters[h][k]] = h
    BY <1>1, <1>7 DEF QueuesHold
  <2>2. waiters[h][k] # j
    BY <1>3, <1>7, <2>1
  <2> QED
    BY <1>2, <1>6, <2>1, <2>2 DEF QueuesHold
<1>8. ASSUME NEW k \in 1..Len(waiters'[g])
      PROVE  /\ at'[waiters'[g][k]] = "waiting" /\ sem'[waiters'[g][k]] = g
             /\ \A m \in 1..Len(waiters'[g]) : waiters'[g][k] = waiters'[g][m] => k = m
  <2>1. waiters[g][From(k)] \in Jobs /\ waiters[g][From(k)] # j
    BY <1>1, <1>3, <1>4
  <2>2. at[waiters[g][From(k)]] = "waiting" /\ sem[waiters[g][From(k)]] = g
    BY <1>4 DEF QueuesHold
  <2>3. at'[waiters'[g][k]] = "waiting" /\ sem'[waiters'[g][k]] = g
    BY <1>2, <1>4, <1>6, <2>1, <2>2
  <2>4. ASSUME NEW m \in 1..Len(waiters'[g]), waiters'[g][k] = waiters'[g][m] PROVE k = m
    <3>1. waiters[g][From(k)] = waiters[g][From(m)]
      BY <1>4, <2>4
    <3>2. From(k) = From(m)
      BY <1>4, <3>1 DEF QueuesHold
    <3> QED
      BY <1>5, <3>2
  <2> QED
    BY <2>3, <2>4
<1>9. ASSUME NEW h \in Sems, NEW k \in 1..Len(waiters'[h])
      PROVE  /\ at'[waiters'[h][k]] = "waiting" /\ sem'[waiters'[h][k]] = h
             /\ \A m \in 1..Len(waiters'[h]) : waiters'[h][k] = waiters'[h][m] => k = m
  <2>1. CASE h = g
    <3>1. k \in 1..Len(waiters'[g])
      BY <1>9, <2>1
    <3> QED
      BY <1>8, <2>1, <3>1
  <2>2. CASE h # g
    BY <1>7, <1>9, <2>2
  <2> QED
    BY <2>1, <2>2
<1> QED
  BY <1>2, <1>9 DEF QueuesHold

\* A queue holds the jobs that wait for its semaphore, each once.
LEMMA QueuesStep == TQInv /\ [TQNext]_tqVars => QueuesHold'
<1> SUFFICES ASSUME TQInv, [TQNext]_tqVars PROVE QueuesHold'
  OBVIOUS
<1>1. TQTypeOK /\ QueuesHold /\ Entered
  BY DEF TQInv
<1>2. /\ at \in [Jobs -> {"new", "created", "waiting", "running", "over"}]
      /\ sem \in [Jobs -> 0..Len(limits)]
  BY <1>1 DEF TQTypeOK
<1>3. \A g \in Sems : waiters[g] \in Seq(Jobs) /\ \A i \in 1..Len(waiters[g]) : waiters[g][i] \in Jobs
  BY <1>1, SemsIndex, ElementOfSeq
<1>4. ASSUME NEW j \in Jobs, at[j] # "waiting", at' = [at EXCEPT ![j] = at'[j]],
             \A k \in Jobs \ {j} : sem'[k] = sem[k], UNCHANGED <<limits, waiters>>
      PROVE  QueuesHold'
  BY <1>1, <1>2, <1>3, <1>4 DEF QueuesHold, Sems, Current
<1>5. ASSUME NEW j \in Jobs, TQSubmit(j) PROVE QueuesHold'
  BY <1>2, <1>4, <1>5 DEF TQSubmit, semVars
<1>6. ASSUME NEW j \in Jobs, TQStart(j) PROVE QueuesHold'
  <2>1. at[j] = "created" /\ Current \in Sems
    BY <1>1, <1>6, SemsIndex DEF TQStart
  <2>2. CASE permits[Current] > 0 /\ waiters[Current] = <<>>
    <3>1. Runs(j, Current) /\ UNCHANGED <<limits, waiters>> /\ sem' = [sem EXCEPT ![j] = Current]
      BY <1>6, <2>2 DEF TQStart
    <3> QED
      BY <1>2, <1>4, <2>1, <3>1 DEF Runs
  <2>3. CASE ~(permits[Current] > 0 /\ waiters[Current] = <<>>)
    <3>1. /\ waiters' = [waiters EXCEPT ![Current] = Append(waiters[Current], j)]
          /\ at' = [at EXCEPT ![j] = "waiting"] /\ sem' = [sem EXCEPT ![j] = Current]
          /\ UNCHANGED limits
      BY <1>6, <2>3 DEF TQStart
    <3>2. \A g \in Sems : waiters'[g] = IF g = Current THEN Append(waiters[g], j) ELSE waiters[g]
      BY <1>1, <2>1, <3>1, SemsIndex
    <3>3. \A g \in Sems : \A i \in 1..Len(waiters[g]) : waiters[g][i] # j
      BY <1>1, <2>1 DEF QueuesHold
    <3> QED
      BY <1>1, <1>2, <1>3, <3>1, <3>2, <3>3 DEF QueuesHold, Sems, Current
  <2> QED
    BY <2>2, <2>3
<1>7. ASSUME NEW g \in Sems, TQWake(g) PROVE QueuesHold'
  <2>1. waiters[g] # <<>> /\ waiters[g] \in Seq(Jobs)
    BY <1>3, <1>7 DEF TQWake
  <2>2. /\ 1 \in 1..Len(waiters[g]) /\ Head(waiters[g]) = waiters[g][1]
        /\ Len(Tail(waiters[g])) = Len(waiters[g]) - 1
        /\ \A k \in 1..(Len(waiters[g]) - 1) : Tail(waiters[g])[k] = waiters[g][k + 1]
    BY <2>1, HeadTailProperties
  <2>3. \A h \in Sems : waiters'[h] = IF h = g THEN Tail(waiters[h]) ELSE waiters[h]
    BY <1>1, <1>7, SemsIndex DEF TQWake
  <2>4. at' = [at EXCEPT ![waiters[g][1]] = "running"] /\ UNCHANGED <<sem, limits>>
    BY <1>7, <2>2 DEF TQWake, Runs
  <2>5. Len(waiters'[g]) = Len(waiters[g]) - 1
    BY <2>2, <2>3
  <2>6. \A k \in 1..(Len(waiters[g]) - 1) :
          waiters'[g][k] = IF k < 1 THEN waiters[g][k] ELSE waiters[g][k + 1]
    <3> TAKE k \in 1..(Len(waiters[g]) - 1)
    <3>1. ~(k < 1)
      BY <2>1
    <3>2. waiters'[g] = Tail(waiters[g])
      BY <2>3
    <3> QED
      BY <2>2, <3>1, <3>2
  <2>7. \A h \in Sems : h # g => waiters'[h] = waiters[h]
    BY <2>3
  <2> QED
    BY <1>1, <2>2, <2>4, <2>5, <2>6, <2>7, OneLeaves
<1>8. ASSUME NEW j \in Jobs, NEW r, Ends(j, r) PROVE QueuesHold'
  BY <1>2, <1>4, <1>8 DEF Ends
<1>9. ASSUME NEW j \in Jobs, NeverRuns(j) PROVE QueuesHold'
  <2>1. CASE at[j] = "waiting"
    <3>1. PICK i \in DOMAIN waiters[sem[j]] :
            /\ waiters[sem[j]][i] = j
            /\ waiters' = [waiters EXCEPT ![sem[j]] = RemoveAt(@, i)]
      BY <1>9, <2>1 DEF NeverRuns, LeavesQueue
    <3>2. sem[j] \in Sems /\ waiters[sem[j]] \in Seq(Jobs) /\ i \in 1..Len(waiters[sem[j]])
      BY <1>1, <1>3, <2>1, <3>1 DEF Entered
    <3>3. \A h \in Sems :
            waiters'[h] = IF h = sem[j] THEN RemoveAt(waiters[h], i) ELSE waiters[h]
      BY <1>1, <3>1, SemsIndex
    <3>4. /\ Len(waiters'[sem[j]]) = Len(waiters[sem[j]]) - 1
          /\ \A k \in 1..(Len(waiters[sem[j]]) - 1) :
               waiters'[sem[j]][k] =
                 IF k < i THEN waiters[sem[j]][k] ELSE waiters[sem[j]][k + 1]
      <4> DEFINE s == waiters[sem[j]]
      <4>1. waiters'[sem[j]] = RemoveAt(s, i) /\ s \in Seq(Jobs) /\ i \in 1..Len(s)
        BY <3>2, <3>3
      <4> HIDE DEF s
      <4>2. /\ Len(RemoveAt(s, i)) = Len(s) - 1
            /\ \A k \in 1..(Len(s) - 1) : RemoveAt(s, i)[k] = IF k < i THEN s[k] ELSE s[k + 1]
        BY <4>1, RemoveAtProperties
      <4> QED
        BY <4>1, <4>2 DEF s
    <3>5. at' = [at EXCEPT ![waiters[sem[j]][i]] = "over"] /\ UNCHANGED <<sem, limits>>
      BY <1>9, <3>1 DEF NeverRuns
    <3>6. \A h \in Sems : h # sem[j] => waiters'[h] = waiters[h]
      BY <3>3
    <3> QED
      BY <1>1, <3>2, <3>4, <3>5, <3>6, OneLeaves
  <2>2. CASE at[j] # "waiting"
    BY <1>2, <1>4, <1>9, <2>2 DEF NeverRuns
  <2> QED
    BY <2>1, <2>2
<1>10. ASSUME NEW j \in Jobs, TQCancel(j) PROVE QueuesHold'
  BY <1>1, <1>10 DEF TQCancel, semVars, QueuesHold, Sems, Current
<1>11. ASSUME NEW n \in Limits, TQSetLimit(n) PROVE QueuesHold'
  <2>1. Len(limits') = Len(limits) + 1 /\ Len(limits) \in Nat
    BY <1>1, <1>11 DEF TQSetLimit, TQTypeOK
  <2>2. waiters \in Seq(Seq(Jobs)) /\ Len(waiters) = Len(limits)
    BY <1>1 DEF TQTypeOK
  <2>3. /\ \A g \in Sems : waiters'[g] = waiters[g]
        /\ waiters'[Len(limits) + 1] = <<>>
    BY <1>11, <2>2, EmptySeq, AppendProperties DEF TQSetLimit, Sems, Current
  <2>4. \A g \in Sems' : g \in Sems \/ g = Len(limits) + 1
    BY <2>1 DEF Sems, Current
  <2> SUFFICES ASSUME NEW g \in Sems', NEW i \in 1..Len(waiters'[g])
               PROVE  /\ at'[waiters'[g][i]] = "waiting" /\ sem'[waiters'[g][i]] = g
                      /\ \A k \in 1..Len(waiters'[g]) : waiters'[g][i] = waiters'[g][k] => i = k
    BY DEF QueuesHold
  <2>5. CASE g \in Sems
    <3>1. waiters'[g] = waiters[g] /\ at' = at /\ sem' = sem
      BY <1>11, <2>3, <2>5 DEF TQSetLimit
    <3> QED
      BY <1>1, <2>5, <3>1 DEF QueuesHold
  <2>6. CASE g = Len(limits) + 1
    BY <2>3, <2>6
  <2> QED
    BY <2>4, <2>5, <2>6
<1>12. CASE UNCHANGED tqVars
  BY <1>1, <1>12 DEF tqVars, QueuesHold, Sems, Current
<1> QED
  BY <1>5, <1>6, <1>7, <1>8, <1>9, <1>10, <1>11, <1>12 DEF TQNext, TQFinish, TQUnwind
-----------------------------------------------------------------------------
\* What a semaphore has left changes with the jobs that run under it.
LEMMA PermitsStep == TQInv /\ [TQNext]_tqVars => TQPermits'
<1> SUFFICES ASSUME TQInv, [TQNext]_tqVars PROVE TQPermits'
  OBVIOUS
<1>1. TQTypeOK /\ TQPermits /\ Entered /\ QueuesHold
  BY DEF TQInv
<1>2. /\ at \in [Jobs -> {"new", "created", "waiting", "running", "over"}]
      /\ sem \in [Jobs -> 0..Len(limits)]
      /\ Current \in Sems
  BY <1>1, SemsIndex DEF TQTypeOK
<1>3. ASSUME UNCHANGED <<limits, permits>>, \A g \in Sems : RunningOn(g)' = RunningOn(g)
      PROVE  TQPermits'
  BY <1>1, <1>3 DEF TQPermits, Sems, Current
<1>4. ASSUME NEW j \in Jobs, at[j] # "running", at'[j] # "running",
             at' = [at EXCEPT ![j] = at'[j]], \A k \in Jobs \ {j} : sem'[k] = sem[k]
      PROVE  \A g \in Sems : RunningOn(g)' = RunningOn(g)
  BY <1>2, <1>4 DEF RunningOn
<1>5. ASSUME NEW g \in Sems, NEW j \in Jobs, Runs(j, g), permits[g] > 0, at[j] # "running",
             sem'[j] = g, \A k \in Jobs \ {j} : sem'[k] = sem[k], UNCHANGED limits
      PROVE  TQPermits'
  <2>1. RunningOn(g)' = RunningOn(g) \cup {j}
    BY <1>2, <1>5 DEF Runs, RunningOn
  <2>2. ASSUME NEW h \in Sems, h # g PROVE RunningOn(h)' = RunningOn(h)
    BY <1>2, <1>5, <2>2 DEF Runs, RunningOn
  <2>3. Cardinality(RunningOn(g)') = Cardinality(RunningOn(g)) + 1
    BY <1>5, <2>1, OneMoreRuns
  <2>4. \A h \in Sems : permits'[h] = IF h = g THEN permits[g] - 1 ELSE permits[h]
    BY <1>1, <1>5, RunsPermits
  <2>5. \A h \in Sems : permits[h] \in Nat /\ Cardinality(RunningOn(h)) \in Nat
    BY <1>1, SemsIndex, RunningFinite
  <2>6. Sems' = Sems
    BY <1>5 DEF Sems, Current
  <2> SUFFICES ASSUME NEW h \in Sems
               PROVE  permits'[h] + Cardinality(RunningOn(h)') = limits'[h]
    BY <2>6 DEF TQPermits
  <2>7. CASE h = g
    BY <1>1, <1>5, <2>3, <2>4, <2>5, <2>7 DEF TQPermits
  <2>8. CASE h # g
    BY <1>1, <1>5, <2>2, <2>4, <2>8 DEF TQPermits
  <2> QED
    BY <2>7, <2>8
<1>6. ASSUME NEW j \in Jobs, TQSubmit(j) PROVE TQPermits'
  <2>1. /\ at[j] # "running" /\ at'[j] # "running" /\ at' = [at EXCEPT ![j] = at'[j]]
        /\ UNCHANGED <<sem, limits, permits>>
    BY <1>2, <1>6 DEF TQSubmit, semVars
  <2> QED
    BY <1>3, <1>4, <2>1
<1>7. ASSUME NEW j \in Jobs, TQStart(j) PROVE TQPermits'
  <2>1. /\ at[j] # "running" /\ sem'[j] = Current
        /\ \A k \in Jobs \ {j} : sem'[k] = sem[k]
        /\ UNCHANGED limits
    BY <1>2, <1>7 DEF TQStart
  <2>2. CASE permits[Current] > 0 /\ waiters[Current] = <<>>
    <3>1. Runs(j, Current)
      BY <1>7, <2>2 DEF TQStart
    <3> QED
      BY <1>2, <1>5, <2>1, <2>2, <3>1
  <2>3. CASE ~(permits[Current] > 0 /\ waiters[Current] = <<>>)
    <3>1. at' = [at EXCEPT ![j] = "waiting"] /\ UNCHANGED permits
      BY <1>7, <2>3 DEF TQStart
    <3>2. at'[j] # "running" /\ at' = [at EXCEPT ![j] = at'[j]]
      BY <1>2, <3>1
    <3> QED
      BY <1>3, <1>4, <2>1, <3>1, <3>2
  <2> QED
    BY <2>2, <2>3
<1>8. ASSUME NEW g \in Sems, TQWake(g) PROVE TQPermits'
  <2> DEFINE j == Head(waiters[g])
  <2>1. waiters[g] # <<>> /\ waiters[g] \in Seq(Jobs)
    BY <1>1, <1>8, SemsIndex DEF TQWake
  <2>2. 1 \in 1..Len(waiters[g]) /\ j = waiters[g][1]
    BY <2>1
  <2>3. j \in Jobs /\ at[j] = "waiting" /\ sem[j] = g
    BY <1>1, <2>1, <2>2, ElementOfSeq DEF QueuesHold
  <2>4. Runs(j, g) /\ permits[g] > 0 /\ UNCHANGED <<sem, limits>>
    BY <1>8 DEF TQWake
  <2> HIDE DEF j
  <2> QED
    BY <1>5, <2>3, <2>4
<1>9. ASSUME NEW j \in Jobs, NEW r, Ends(j, r) PROVE TQPermits'
  <2> PICK g \in Sems : g = sem[j]
    BY <1>1, <1>9 DEF Ends, Entered
  <2>1. g \in Sems /\ j \in RunningOn(g)
    BY <1>9 DEF Ends, RunningOn
  <2>2. permits' = [permits EXCEPT ![g] = permits[g] + 1] /\ UNCHANGED <<sem, limits>>
    BY <1>9 DEF Ends
  <2>3. RunningOn(g)' = RunningOn(g) \ {j}
    BY <1>2, <1>9 DEF Ends, RunningOn
  <2>4. ASSUME NEW h \in Sems, h # g PROVE RunningOn(h)' = RunningOn(h)
    BY <1>2, <1>9, <2>4 DEF Ends, RunningOn
  <2>5. Cardinality(RunningOn(g)') = Cardinality(RunningOn(g)) - 1
    BY <2>1, <2>3, OneLessRuns
  <2>6. \A h \in Sems : permits'[h] = IF h = g THEN permits[g] + 1 ELSE permits[h]
    BY <1>1, <2>1, <2>2, SemsIndex DEF TQTypeOK
  <2>7. \A h \in Sems : permits[h] \in Nat /\ Cardinality(RunningOn(h)) \in Nat
    BY <1>1, SemsIndex, RunningFinite
  <2>8. Sems' = Sems
    BY <2>2 DEF Sems, Current
  <2> SUFFICES ASSUME NEW h \in Sems
               PROVE  permits'[h] + Cardinality(RunningOn(h)') = limits'[h]
    BY <2>8 DEF TQPermits
  <2>9. CASE h = g
    BY <1>1, <2>2, <2>5, <2>6, <2>7, <2>9 DEF TQPermits
  <2>10. CASE h # g
    BY <1>1, <2>2, <2>4, <2>6, <2>10 DEF TQPermits
  <2> QED
    BY <2>9, <2>10
<1>10. ASSUME NEW j \in Jobs, NeverRuns(j) PROVE TQPermits'
  <2>1. /\ at[j] # "running" /\ at'[j] # "running" /\ at' = [at EXCEPT ![j] = at'[j]]
        /\ UNCHANGED <<sem, limits, permits>>
    BY <1>2, <1>10 DEF NeverRuns
  <2> QED
    BY <1>3, <1>4, <2>1
<1>11. ASSUME NEW j \in Jobs, TQCancel(j) PROVE TQPermits'
  BY <1>3, <1>11 DEF TQCancel, semVars, RunningOn
<1>12. ASSUME NEW n \in Limits, TQSetLimit(n) PROVE TQPermits'
  <2> DEFINE new == Len(limits) + 1
  <2>1. limits \in Seq(Limits) /\ permits \in Seq(Nat) /\ Len(permits) = Len(limits)
    BY <1>1 DEF TQTypeOK
  <2>2. /\ limits' = Append(limits, n) /\ permits' = Append(permits, n)
        /\ at' = at /\ sem' = sem /\ n \in Nat
    BY <1>12, TaskQueueAssumption DEF TQSetLimit, TaskQueueAssumption
  <2>3. \A g \in Sems : limits'[g] = limits[g] /\ permits'[g] = permits[g]
    BY <2>1, <2>2 DEF Sems, Current
  <2>4. limits'[new] = n /\ permits'[new] = n /\ Len(limits') = new
    BY <2>1, <2>2
  <2>5. \A g : RunningOn(g)' = RunningOn(g)
    BY <2>2 DEF RunningOn
  <2>6. RunningOn(new) = {}
    BY <1>1, <2>1 DEF RunningOn, Entered, Sems, Current
  <2>7. \A g \in Sems' : g \in Sems \/ g = new
    BY <2>1, <2>4 DEF Sems, Current
  <2> SUFFICES ASSUME NEW g \in Sems'
               PROVE  permits'[g] + Cardinality(RunningOn(g)') = limits'[g]
    BY DEF TQPermits
  <2>8. CASE g \in Sems
    BY <1>1, <2>3, <2>5, <2>8 DEF TQPermits
  <2>9. CASE g = new
    <3>1. Cardinality(RunningOn(g)') = 0
      BY <2>5, <2>6, <2>9, FS_EmptySet
    <3>2. permits'[g] = n /\ limits'[g] = n
      BY <2>4, <2>9
    <3>3. n \in Nat
      BY <2>2
    <3> QED
      BY <3>1, <3>2, <3>3
  <2> QED
    BY <2>7, <2>8, <2>9
<1>13. CASE UNCHANGED tqVars
  BY <1>3, <1>13 DEF tqVars, RunningOn
<1> QED
  BY <1>6, <1>7, <1>8, <1>9, <1>10, <1>11, <1>12, <1>13 DEF TQNext, TQFinish, TQUnwind

\* A queue that has just been created.
LEMMA QueueStarts == TQInit => TQInv
<1> SUFFICES ASSUME TQInit PROVE TQInv
  OBVIOUS
<1>1. PICK n \in Limits : limits = <<n>> /\ permits = <<n>>
  BY DEF TQInit
<1>2. waiters = <<(<<>>)>> /\ \A j \in Jobs : at[j] = "new"
  BY DEF TQInit
<1>3. n \in Nat /\ History \in Nat
  BY TaskQueueAssumption DEF TaskQueueAssumption
<1>4. /\ limits \in Seq(Limits) /\ permits \in Seq(Nat) /\ waiters \in Seq(Seq(Jobs))
      /\ Len(limits) = 1 /\ Len(permits) = 1 /\ Len(waiters) = 1
      /\ limits[1] = n /\ permits[1] = n /\ waiters[1] = <<>>
  <2>1. n \in Limits /\ <<>> \in Seq(Jobs)
    OBVIOUS
  <2>2. \A S, e : e \in S => <<e>> \in Seq(S) /\ Len(<<e>>) = 1 /\ <<e>>[1] = e
    OBVIOUS
  <2> QED
    BY <1>1, <1>2, <1>3, <2>1, <2>2
<1>5. Sems = {1}
  BY <1>4 DEF Sems, Current
<1>6. TQTypeOK
  BY <1>3, <1>4 DEF TQInit, TQTypeOK
<1>7. TQPermits
  <2>1. RunningOn(1) = {}
    BY <1>2 DEF RunningOn
  <2>2. Cardinality(RunningOn(1)) = 0
    BY <2>1, FS_EmptySet
  <2> QED
    BY <1>3, <1>4, <1>5, <2>2 DEF TQPermits
<1>8. Entered
  BY <1>2 DEF Entered
<1>9. QueuesHold
  BY <1>4, <1>5 DEF QueuesHold
<1> QED
  BY <1>6, <1>7, <1>8, <1>9 DEF TQInv

-----------------------------------------------------------------------------
\* The invariant holds in every state the task queue reaches.
THEOREM TQInvariant == TQSpec => []TQInv
<1>1. TQInv /\ [TQNext]_tqVars => TQInv'
  BY QueueTyped, PermitsStep, EnteredStep, QueuesStep DEF TQInv
<1> QED
  BY <1>1, QueueStarts, PTL DEF TQSpec

\* Every field of the task queue keeps its type: its history never outgrows
\* the deque, and each semaphore keeps its permits and its queue.
THEOREM TQTypeCorrect == TQSpec => []TQTypeOK
<1>1. TQInv => TQTypeOK
  BY DEF TQInv
<1> QED
  BY <1>1, TQInvariant, PTL

\* No limit is ever exceeded and none shrinks, whatever is cancelled and
\* however often the semaphore is replaced.
THEOREM PermitsKept == TQSpec => []TQPermits
<1>1. TQInv => TQPermits
  BY DEF TQInv
<1> QED
  BY <1>1, TQInvariant, PTL

\* A job waits in one queue at most, and in it once.
THEOREM NobodyWaitsTwice == TQSpec => []QueuesHold
<1>1. TQInv => QueuesHold
  BY DEF TQInv
<1> QED
  BY <1>1, TQInvariant, PTL


-----------------------------------------------------------------------------
\* Nobody has got the result of a command that is listed or still to come, nor
\* an alert that waits, is about to be sent, or has not been pushed.
Undelivered ==
  /\ \A c \in commands : status[c] # "new"
  /\ \A c \in Commands : c \in commands \/ status[c] = "new" => agent[c] = 0
  /\ tasks \cap taken = {}
  /\ \A a \in Alerts : a \in tasks \cup taken \/ a \notin pushed => agent[a] = 0

ChannelInv == CCTypeOK /\ Undelivered

\* A finite set has a sequence of its elements.
LEMMA ListedOnce == ASSUME NEW S, IsFiniteSet(S) PROVE SetToSeq(S) \in Seq(S)
<1>1. Cardinality(S) \in Nat /\ ExistsBijection(1..Cardinality(S), S)
  BY FS_CardinalityType
<1>2. PICK f \in [1..Cardinality(S) -> S] : IsInjective(f)
  BY <1>1 DEF ExistsBijection, Bijection, Injection, IsInjective
<1>3. SetToSeq(S) \in [1..Cardinality(S) -> S]
  BY <1>2 DEF SetToSeq
<1> QED
  BY <1>1, <1>3

\* What has not been submitted is not listed, so that it can be added to it.
LEMMA SubmitKeeps ==
  ASSUME ChannelInv, NEW cs \in SUBSET Commands, cs # {}, NEW mark \in {"pending", "executing"},
         NEW wait \in {"command", "batch"}, NEW limit, Submit(cs, mark, wait, limit)
  PROVE  ChannelInv'
<1>1. CASE limit
  BY <1>1 DEF Submit, ChannelInv, CCTypeOK, Undelivered, KeptAlerts, KeptCommands
<1>2. CASE ~limit
  <2>1. SetToSeq(cs) \in Seq(Commands)
    <3>1. IsFiniteSet(cs)
      BY ChannelAssumption, FS_Subset DEF ChannelAssumption
    <3>2. SetToSeq(cs) \in Seq(cs)
      BY <3>1, ListedOnce
    <3> QED
      BY <3>2
  <2>2. pool' \in Seq(Commands)
    <3>1. pool' = pool \o SetToSeq(cs) /\ pool \in Seq(Commands)
      BY <1>2 DEF Submit, ChannelInv, CCTypeOK
    <3> QED
      BY <2>1, <3>1
  <2>3. CCTypeOK'
    BY <1>2, <2>2 DEF Submit, ChannelInv, CCTypeOK, KeptAlerts, KeptCommands
  <2>4. Undelivered'
    BY <1>2 DEF Submit, ChannelInv, CCTypeOK, Undelivered, KeptAlerts, KeptCommands, Unsubmitted
  <2> QED
    BY <2>3, <2>4 DEF ChannelInv
<1> QED
  BY <1>1, <1>2

\* A command ends for the loop when its result comes or is given up.
LEMMA ResolveKeeps ==
  ASSUME ChannelInv, NEW c, NEW o \in {"completed", "failed"}, Resolve(c, o)
  PROVE  ChannelInv'
<1>1. CCTypeOK'
  <2>1. awaited' = awaited \ {c} /\ loop' = (IF awaited = {c} THEN "idle" ELSE loop) /\ c \in awaited
    BY DEF Resolve
  <2>2. loop \in {"idle", "command", "batch"} /\ loop # "idle"
    BY <2>1 DEF ChannelInv, CCTypeOK
  <2>3. awaited' = {} <=> awaited = {c}
    BY <2>1
  <2>4. loop' \in {"idle", "command", "batch"} /\ (loop' = "idle") = (awaited' = {})
    <3>1. CASE awaited = {c}
      BY <2>1, <2>3, <3>1
    <3>2. CASE awaited # {c}
      BY <2>1, <2>2, <2>3, <3>2
    <3> QED
      BY <3>1, <3>2
  <2>5. /\ UNCHANGED <<commands, old, pool, future, tasks, taken, pushed, agent>>
        /\ status' = [status EXCEPT ![c] = o]
    BY DEF Resolve, alertVars
  <2> QED
    BY <2>1, <2>4, <2>5 DEF ChannelInv, CCTypeOK
<1>2. Undelivered'
  BY DEF Resolve, ChannelInv, CCTypeOK, Undelivered, alertVars
<1> QED
  BY <1>1, <1>2 DEF ChannelInv

\* Whatever is handed over is forgotten in the same step.
LEMMA PollKeeps == ASSUME ChannelInv, Poll PROVE ChannelInv'
<1> DEFINE results == KeptCommands \cap Finished
<1>1. /\ commands' = KeptCommands \ results /\ tasks' = {}
      /\ agent' = [x \in DOMAIN agent |->
                     IF x \in results \cup KeptAlerts THEN agent[x] + 1 ELSE agent[x]]
      /\ UNCHANGED <<status, old, pool, future, loop, awaited, taken, pushed>>
  BY DEF Poll
<1>2. /\ results \subseteq commands /\ KeptAlerts \subseteq tasks
      /\ \A c \in results : status[c] # "new" /\ c \in Commands
  BY DEF Finished, KeptCommands, KeptAlerts
<1>3. commands \subseteq Commands /\ tasks \subseteq Alerts /\ agent \in [Commands \cup Alerts -> 0..1]
      /\ Commands \cap Alerts = {} /\ KeptCommands \subseteq commands
  BY ChannelAssumption DEF ChannelInv, CCTypeOK, ChannelAssumption, KeptCommands
<1> HIDE DEF results
<1>4. \A x \in results \cup KeptAlerts : agent[x] = 0
  BY <1>2, <1>3 DEF ChannelInv, Undelivered
<1>5. agent' \in [Commands \cup Alerts -> 0..1]
  BY <1>1, <1>3, <1>4
<1>6. CCTypeOK'
  BY <1>1, <1>3, <1>5 DEF ChannelInv, CCTypeOK
<1>7. \A x \in Commands \cup Alerts : x \notin results \cup KeptAlerts => agent'[x] = agent[x]
  BY <1>1, <1>3
<1>8. Undelivered'
  <2>1. \A c \in commands' : status'[c] # "new"
    BY <1>1, <1>3 DEF ChannelInv, Undelivered
  <2>2. ASSUME NEW c \in Commands, c \in commands' \/ status'[c] = "new" PROVE agent'[c] = 0
    <3>1. c \notin results \cup KeptAlerts /\ (c \in commands \/ status[c] = "new")
      BY <1>1, <1>2, <1>3, <2>2
    <3> QED
      BY <1>7, <3>1 DEF ChannelInv, Undelivered
  <2>3. ASSUME NEW a \in Alerts, a \in tasks' \cup taken' \/ a \notin pushed' PROVE agent'[a] = 0
    <3>1. a \notin tasks /\ (a \in taken \/ a \notin pushed)
      BY <1>1, <2>3 DEF ChannelInv, Undelivered, CCTypeOK
    <3>2. a \notin results \cup KeptAlerts
      BY <1>2, <1>3, <3>1
    <3> QED
      BY <1>7, <3>1, <3>2 DEF ChannelInv, Undelivered
  <2> QED
    BY <1>1, <2>1, <2>2, <2>3 DEF Undelivered
<1> QED
  BY <1>6, <1>8 DEF ChannelInv

\* An alert a push loop has polled is sent once.
LEMMA PushKeeps ==
  ASSUME ChannelInv, NEW a \in Alerts, PushLoopSends(a) \/ PushTask(a)
  PROVE  ChannelInv'
<1>1. Commands \cap Alerts = {}
  BY ChannelAssumption DEF ChannelAssumption
<1>2. CASE PushLoopSends(a)
  <2>1. agent[a] = 0 /\ agent' = [agent EXCEPT ![a] = @ + 1] /\ taken' = taken \ {a} /\ a \in taken
        /\ UNCHANGED <<commands, status, pool, future, loop, awaited, old, tasks, pushed>>
    BY <1>2 DEF PushLoopSends, ChannelInv, Undelivered, commandVars
  <2>2. agent' \in [Commands \cup Alerts -> 0..1]
    BY <2>1 DEF ChannelInv, CCTypeOK
  <2>3. CCTypeOK'
    BY <2>1, <2>2 DEF ChannelInv, CCTypeOK
  <2>4. \A x \in Commands \cup Alerts : x # a => agent'[x] = agent[x]
    BY <2>1 DEF ChannelInv, CCTypeOK
  <2>5. Undelivered'
    BY <1>1, <2>1, <2>4 DEF ChannelInv, CCTypeOK, Undelivered
  <2> QED
    BY <2>3, <2>5 DEF ChannelInv
<1>3. CASE PushTask(a)
  <2>1. /\ a \notin pushed /\ pushed' = pushed \cup {a}
        /\ commands' = KeptCommands /\ tasks' \subseteq KeptAlerts \cup {a}
        /\ UNCHANGED <<status, old, pool, future, loop, awaited, taken, agent>>
    BY <1>3 DEF PushTask
  <2>2. CCTypeOK'
    BY <2>1 DEF ChannelInv, CCTypeOK, KeptCommands, KeptAlerts
  <2>3. Undelivered'
    BY <2>1 DEF ChannelInv, CCTypeOK, Undelivered, KeptCommands, KeptAlerts
  <2> QED
    BY <2>2, <2>3 DEF ChannelInv
<1> QED
  BY <1>2, <1>3

LEMMA ChannelStep == ChannelInv /\ [CCNext]_ccVars => ChannelInv'
<1> SUFFICES ASSUME ChannelInv, [CCNext]_ccVars PROVE ChannelInv'
  OBVIOUS
<1>1. ASSUME NEW c \in Commands, SubmitCommand(c) PROVE ChannelInv'
  <2>1. {c} \in SUBSET Commands /\ {c} # {}
    OBVIOUS
  <2>2. PICK limit : Submit({c}, "executing", "command", limit)
    BY <1>1, Zenon DEF SubmitCommand
  <2> QED
    BY <2>1, <2>2, SubmitKeeps
<1>2. ASSUME NEW cs \in SUBSET Unsubmitted, SubmitBatch(cs) PROVE ChannelInv'
  <2>1. cs \in SUBSET Commands
    BY DEF Unsubmitted
  <2>2. Cardinality(cs) \in 1..MaxBatch /\ MaxBatch \in Nat
    BY <1>2, ChannelAssumption DEF SubmitBatch, ChannelAssumption
  <2>3. cs # {}
    BY <2>2, FS_EmptySet
  <2>4. PICK limit : Submit(cs, "pending", "batch", limit)
    BY <1>2, Zenon DEF SubmitBatch
  <2> QED
    BY <2>1, <2>3, <2>4, SubmitKeeps
<1>3. ASSUME WorkerStarts PROVE ChannelInv'
  <2>1. Head(pool) \in Commands /\ Tail(pool) \in Seq(Commands)
    BY <1>3 DEF WorkerStarts, ChannelInv, CCTypeOK
  <2> QED
    BY <1>3, <2>1 DEF WorkerStarts, alertVars, ChannelInv, CCTypeOK, Undelivered
<1>4. ASSUME NEW c \in Commands, WorkerEnds(c) PROVE ChannelInv'
  BY <1>4 DEF WorkerEnds, alertVars, ChannelInv, CCTypeOK, Undelivered
<1>5. ASSUME LoopWaits PROVE ChannelInv'
  <2>1. ASSUME NEW c \in Commands, Collect(c) PROVE ChannelInv'
    BY <2>1, ResolveKeeps DEF Collect
  <2>2. ASSUME CommandTimesOut PROVE ChannelInv'
    BY <2>2, ResolveKeeps DEF CommandTimesOut
  <2>3. ASSUME BatchTimesOut PROVE ChannelInv'
    BY <2>3 DEF BatchTimesOut, alertVars, ChannelInv, CCTypeOK, Undelivered
  <2> QED
    BY <1>5, <2>1, <2>2, <2>3 DEF LoopWaits
<1>6. ASSUME PushLoopPolls PROVE ChannelInv'
  BY <1>6 DEF PushLoopPolls, ChannelInv, CCTypeOK, Undelivered, KeptCommands, KeptAlerts
<1>7. ASSUME ConnectionCloses PROVE ChannelInv'
  BY <1>7 DEF ConnectionCloses, commandVars, ChannelInv, CCTypeOK, Undelivered
<1>8. ASSUME NEW x \in Commands \cup Alerts, Outlives(x) PROVE ChannelInv'
  BY <1>8 DEF Outlives, commandVars, alertVars, ChannelInv, CCTypeOK, Undelivered
<1>9. CASE UNCHANGED ccVars
  BY <1>9 DEF ccVars, alertVars, ChannelInv, CCTypeOK, Undelivered
<1> QED
  BY <1>1, <1>2, <1>3, <1>4, <1>5, <1>6, <1>7, <1>8, <1>9, PollKeeps, PushKeeps DEF CCNext

LEMMA ChannelStarts == CCInit => ChannelInv
<1> SUFFICES ASSUME CCInit PROVE ChannelInv
  OBVIOUS
<1>1. CCTypeOK
  BY DEF CCInit, CCTypeOK
<1>2. Undelivered
  BY DEF CCInit, Undelivered
<1> QED
  BY <1>1, <1>2 DEF ChannelInv


-----------------------------------------------------------------------------
\* A step of the node is one of a single component, and leaves the others alone.
LEMMA OneComponentSteps ==
  [NodeNext]_nodeVars =>
    [CCNext]_ccVars /\ [TQNext]_tqVars /\ [RTNext]_rtVars /\ [SYNext]_syVars
<1> SUFFICES ASSUME [NodeNext]_nodeVars
             PROVE  [CCNext]_ccVars /\ [TQNext]_tqVars /\ [RTNext]_rtVars /\ [SYNext]_syVars
  OBVIOUS
<1>1. CASE InChannel(CCNext)
  BY <1>1 DEF InChannel
<1>2. CASE InQueue(TQNext)
  BY <1>2 DEF InQueue
<1>3. CASE InRatchet(RTNext)
  BY <1>3 DEF InRatchet
<1>4. CASE InSync(SYNext)
  BY <1>4 DEF InSync
<1>5. CASE UNCHANGED nodeVars
  BY <1>5 DEF nodeVars
<1> QED
  BY <1>1, <1>2, <1>3, <1>4, <1>5 DEF NodeNext

NodeInv == ChannelInv /\ TQInv /\ RTInv /\ SyncInv /\ SyncTyped

LEMMA QueueStep == TQInv /\ [TQNext]_tqVars => TQInv'
  BY QueueTyped, PermitsStep, EnteredStep, QueuesStep DEF TQInv

\* The invariants of the components hold side by side.
THEOREM NodeInvariant == NodeSpec => []NodeInv
<1>1. NodeInit => NodeInv
  BY ChannelStarts, QueueStarts, TogetherStarts, SyncStarts, SyncTypedStarts DEF NodeInit, NodeInv
<1>2. NodeInv /\ [NodeNext]_nodeVars => NodeInv'
  BY OneComponentSteps, ChannelStep, QueueStep, TogetherStep, SyncStep, SyncTypedStep DEF NodeInv
<1> QED
  BY <1>1, <1>2, PTL DEF NodeSpec

\* Every component of the node keeps its types.  Of the channel that says more:
\* whatever commands end or time out, and in whatever order alerts are pushed,
\* polled and sent, the agent gets no result and no alert twice.
THEOREM NodeTypeCorrect == NodeSpec => []NodeTypeOK
<1>1. NodeInv => NodeTypeOK
  BY RatchetTypes, SyncTypes DEF NodeInv, NodeTypeOK, ChannelInv, TQInv, RTInv
<1> QED
  BY <1>1, NodeInvariant, PTL

\* In a node, too, no limit on jobs is exceeded or shrinks, messages are read but
\* for the exceptions of RTReads, and what the node has of the ledger is a history
\* that somebody wrote.
THEOREM NodeSound == NodeSpec => [](TQPermits /\ RTReads /\ SYHistory)
<1>1. NodeInv => TQPermits /\ RTReads /\ SYHistory
  BY HistoryOfLast DEF NodeInv, TQInv, RTInv, SyncInv, Genuine, SYHistory
<1> QED
  BY <1>1, NodeInvariant, PTL
=============================================================================
