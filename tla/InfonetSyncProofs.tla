-------------------------- MODULE InfonetSyncProofs --------------------------
(***************************************************************************)
(* Whatever nodes, peers and threads there are, a node never has anything    *)
(* but a history that somebody wrote.  The inductive invariant says so of    *)
(* every prefix of a chain, because a page of an answer is one, and of the   *)
(* answers under way, because they are ingested into a chain that may have  *)
(* changed since they were asked for.                                        *)
(***************************************************************************)
EXTENDS InfonetSync, FiniteSetTheorems, SequenceTheorems, WellFoundedInduction, TLAPS

\* A history all of whose prefixes are the histories of their last events.
IsHistory(p, histories) ==
  /\ p \in Seq(1..Len(histories))
  /\ \A k \in 1..Len(p) :
       /\ Len(histories[p[k]]) = k
       /\ \A i \in 1..k : histories[p[k]][i] = p[i]

\* A thread's cycle has these parts, and as long as it runs a peer to ask.
Fields == {"pc", "left", "marks", "rounds", "answer"}
IsRun(r) ==
  /\ r = [f \in Fields |-> r[f]]
  /\ r.left \in Seq(Nodes) /\ (r.pc # "idle" => r.left # <<>>)

Genuine ==
  /\ made \in Seq(Seq(Nat))
  /\ chain = [n \in Nodes |-> chain[n]]
  /\ \A n \in Nodes : IsHistory(chain[n], made)

RunsHold ==
  /\ run = [t \in Threads |-> run[t]]
  /\ \A t \in Threads : IsRun(run[t]) /\ IsHistory(run[t].answer.events, made)

SyncInv == Genuine /\ RunsHold

-----------------------------------------------------------------------------
\* The beginning of a history is one.
LEMMA PrefixIsHistory ==
  ASSUME NEW h, NEW p, IsHistory(p, h), NEW e \in 0..Len(p)
  PROVE  IsHistory(SubSeq(p, 1, e), h)
<1> DEFINE q == SubSeq(p, 1, e)
<1>1. p \in Seq(1..Len(h))
  BY DEF IsHistory
<1>2. q \in Seq(1..Len(h)) /\ Len(q) = e /\ \A k \in 1..e : q[k] = p[k]
  BY <1>1, SubSeqProperties
<1> HIDE DEF q
<1>3. IsHistory(q, h)
  <2>1. 1..e \subseteq 1..Len(p) /\ e \in Nat
    BY <1>1
  <2>2. ASSUME NEW k \in 1..Len(q)
        PROVE  Len(h[q[k]]) = k /\ \A i \in 1..k : h[q[k]][i] = q[i]
    <3>1. k \in 1..Len(p) /\ q[k] = p[k] /\ \A i \in 1..k : i \in 1..e /\ q[i] = p[i]
      BY <1>2, <2>1
    <3> QED
      BY <3>1 DEF IsHistory
  <2> QED
    BY <1>2, <2>2 DEF IsHistory
<1> QED
  BY <1>3 DEF q

\* A history stays one when somebody writes.
LEMMA HistoryStays ==
  ASSUME NEW h \in Seq(Seq(Nat)), NEW e \in Seq(Nat), NEW p, IsHistory(p, h)
  PROVE  IsHistory(p, Append(h, e))
<1> DEFINE g == Append(h, e)
<1>1. Len(g) = Len(h) + 1 /\ Len(h) \in Nat /\ \A i \in 1..Len(h) : g[i] = h[i]
  OBVIOUS
<1> HIDE DEF g
<1>2. p \in Seq(1..Len(h))
  BY DEF IsHistory
<1>3. p \in Seq(1..Len(g))
  BY <1>1, <1>2
<1>4. \A k \in 1..Len(p) : p[k] \in 1..Len(h)
  BY <1>2, ElementOfSeq
<1>5. IsHistory(p, g)
  BY <1>1, <1>3, <1>4 DEF IsHistory
<1> QED
  BY <1>5 DEF g

\* What somebody writes on a history is the history of the new event.
LEMMA NewHistory ==
  ASSUME NEW h \in Seq(Seq(Nat)), NEW p, IsHistory(p, h)
  PROVE  LET q == Append(p, Len(h) + 1) IN q \in Seq(Nat) /\ IsHistory(q, Append(h, q))
<1> DEFINE q == Append(p, Len(h) + 1)
           g == Append(h, q)
<1>1. p \in Seq(1..Len(h)) /\ Len(h) \in Nat /\ Len(p) \in Nat
  BY DEF IsHistory
<1>2. p \in Seq(1..(Len(h) + 1)) /\ p \in Seq(Nat)
  BY <1>1
<1>3. /\ q \in Seq(1..(Len(h) + 1)) /\ q \in Seq(Nat)
      /\ Len(q) = Len(p) + 1 /\ q[Len(p) + 1] = Len(h) + 1
      /\ \A k \in 1..Len(p) : q[k] = p[k]
  BY <1>1, <1>2
<1> HIDE DEF q
<1>4. Len(g) = Len(h) + 1 /\ g[Len(h) + 1] = q /\ \A i \in 1..Len(h) : g[i] = h[i]
  BY <1>3
<1> HIDE DEF g
<1>5. \A k \in 1..Len(p) : p[k] \in 1..Len(h)
  BY <1>1, ElementOfSeq
<1>6. ASSUME NEW k \in 1..Len(q)
      PROVE  Len(g[q[k]]) = k /\ \A i \in 1..k : g[q[k]][i] = q[i]
  <2>1. CASE k \in 1..Len(p)
    <3>0. q[k] = p[k] /\ p[k] \in 1..Len(h)
      BY <1>3, <1>5, <2>1
    <3>3. ASSUME NEW i \in 1..k PROVE i \in 1..Len(p) /\ q[i] = p[i]
      <4>1. i \in 1..Len(p)
        BY <1>1, <2>1
      <4> QED
        BY <1>3, <4>1
    <3>1. g[q[k]] = h[p[k]]
      BY <1>4, <3>0
    <3>2. Len(h[p[k]]) = k /\ \A i \in 1..k : h[p[k]][i] = p[i]
      BY <2>1 DEF IsHistory
    <3> QED
      BY <3>1, <3>2, <3>3
  <2>2. CASE k = Len(p) + 1
    BY <1>3, <1>4, <2>2
  <2> QED
    BY <1>1, <1>3, <2>1, <2>2
<1>7. q \in Seq(Nat) /\ IsHistory(q, g)
  BY <1>3, <1>4, <1>6 DEF IsHistory
<1> QED
  BY <1>7 DEF q, g

\* A history is that of its last event.
LEMMA HistoryOfLast ==
  ASSUME NEW h \in Seq(Seq(Nat)), NEW p, IsHistory(p, h), p # <<>>
  PROVE  p = h[Last(p)]
<1>1. p \in Seq(1..Len(h)) /\ Len(p) \in 1..Len(p)
  BY DEF IsHistory
<1>2. Last(p) = p[Len(p)] /\ p[Len(p)] \in 1..Len(h)
  BY <1>1, ElementOfSeq DEF Last
<1> DEFINE g == h[Last(p)]
<1>3. g \in Seq(Nat)
  BY <1>2, ElementOfSeq
<1>4. Len(g) = Len(p) /\ \A i \in 1..Len(p) : g[i] = p[i]
  BY <1>1, <1>2 DEF IsHistory
<1> HIDE DEF g
<1>5. p \in Seq(Nat)
  BY <1>1
<1>6. p = g
  BY <1>3, <1>4, <1>5, SeqEqual
<1> QED
  BY <1>6 DEF g

\* The empty chain.
LEMMA EmptyIsHistory == \A h : IsHistory(<<>>, h)
  BY EmptySeq DEF IsHistory

-----------------------------------------------------------------------------
\* What two chains have in common can be counted.
LEMMA CommonNat == ASSUME NEW p \in Seq(Nat), NEW q PROVE Common(p, q) \in Nat
<1>1. IsFiniteSet(DOMAIN p)
  BY LenProperties, FS_Interval
<1>2. IsFiniteSet({k \in DOMAIN p : IsPrefix(SubSeq(p, 1, k), q)})
  BY <1>1, FS_Subset
<1> QED
  BY <1>2, FS_CardinalityType DEF Common

\* An answer is the beginning of the peer's chain.
LEMMA AnswerIsHistory ==
  ASSUME NEW h, NEW p, IsHistory(p, h), NEW q, IsHistory(q, h)
  PROVE  IsHistory(Answer(p, q).events, h)
<1>1. p \in Seq(Nat) /\ q \in Seq(1..Len(h)) /\ Len(q) \in Nat
  BY DEF IsHistory
<1>2. Common(p, q) \in Nat /\ Page \in Nat
  BY <1>1, CommonNat, SyncAssumption DEF SyncAssumption
<1> DEFINE end == IF Common(p, q) + Page < Len(q) THEN Common(p, q) + Page ELSE Len(q)
<1>3. end \in 0..Len(q)
  BY <1>1, <1>2
<1>4. Answer(p, q).events = SubSeq(q, 1, end)
  BY DEF Answer
<1> QED
  BY <1>3, <1>4, PrefixIsHistory

\* What a node has after it ingested an answer is what it had, or the answer.
LEMMA IngestedIsOld == \A p, a : Ingested(p, a) \in {p, a.events}
  BY DEF Ingested

\* The node of a thread is one that syncs, and its peers are nodes.
LEMMA NodeOfThread ==
  \A t \in Threads : Node(t) \in Nodes /\ Peers(Node(t)) \subseteq Nodes
  BY SyncAssumption DEF SyncAssumption, Threads, Loops, Kicks, Node

-----------------------------------------------------------------------------
\* A cycle that begins, goes on, goes on with another answer, or cools a peer.
LEMMA IdleIsRun == IsRun(Idle) /\ \A h : IsHistory(Idle.answer.events, h)
  BY EmptyIsHistory DEF IsRun, Fields, Idle, NoAnswer

LEMMA BegunIsRun ==
  ASSUME NEW q \in Seq(Nodes), q # <<>>, NEW m
  PROVE  LET r == [Idle EXCEPT !.pc = "ask", !.left = q, !.marks = m]
         IN IsRun(r) /\ r.answer = Idle.answer
  BY DEF IsRun, Fields, Idle

LEMMA MovedIsRun ==
  ASSUME NEW r, IsRun(r), r.pc # "idle", NEW c
  PROVE  IsRun([r EXCEPT !.pc = c]) /\ [r EXCEPT !.pc = c].answer = r.answer
  BY DEF IsRun, Fields

LEMMA NextRoundIsRun ==
  ASSUME NEW r, IsRun(r), r.pc # "idle", NEW c, NEW a
  PROVE  LET s == [r EXCEPT !.pc = c, !.rounds = @ + 1, !.answer = a] IN IsRun(s) /\ s.answer = a
  BY DEF IsRun, Fields

LEMMA CooledIsRun ==
  ASSUME NEW r, IsRun(r), NEW m
  PROVE  LET s == [r EXCEPT !.marks.cooling = @ \ {m}] IN IsRun(s) /\ s.answer = r.answer
  BY DEF IsRun, Fields

\* A step that writes nothing and takes its answers from nowhere else.
LEMMA RunsStep ==
  ASSUME SyncInv, NEW t \in Threads, NEW r, run' = [run EXCEPT ![t] = r],
         IsRun(r), IsHistory(r.answer.events, made), made' = made
  PROVE  RunsHold'
  BY DEF SyncInv, RunsHold

\* A cycle that fails goes on with the next peer, or ends.
LEMMA FailStep ==
  ASSUME SyncInv, NEW t \in Threads, run[t].pc # "idle", NEW f \in BOOLEAN, Fail(t, f),
         UNCHANGED made
  PROVE  RunsHold'
<1>1. run[t].left \in Seq(Nodes) /\ run[t].left # <<>>
  BY DEF SyncInv, RunsHold, IsRun
<1> DEFINE left == IF f THEN <<>> ELSE Tail(run[t].left)
           marks == Failed(run[t].marks, Asked(t))
           r == IF left = <<>> THEN Idle
                ELSE [Idle EXCEPT !.pc = "ask", !.left = left, !.marks = marks]
<1>2. left \in Seq(Nodes)
  BY <1>1, HeadTailProperties, EmptySeq
<1>3. run' = [run EXCEPT ![t] = r]
  BY DEF Fail
<1>4. IsRun(r) /\ IsHistory(r.answer.events, made)
  BY <1>2, IdleIsRun, BegunIsRun
<1> HIDE DEF r
<1> QED
  BY <1>3, <1>4, RunsStep

\* Every step keeps to what has been written.
LEMMA SyncStep == SyncInv /\ [SYNext]_syVars => SyncInv'
<1> SUFFICES ASSUME SyncInv, [SYNext]_syVars PROVE SyncInv'
  OBVIOUS
<1>1. Genuine /\ RunsHold
  BY DEF SyncInv
<1>2. ASSUME UNCHANGED ledgers PROVE Genuine'
  BY <1>1, <1>2 DEF ledgers, Genuine
<1>3. ASSUME UNCHANGED <<ledgers, run>> PROVE SyncInv'
  BY <1>1, <1>3 DEF ledgers, Genuine, RunsHold, SyncInv
<1>4. ASSUME NEW n \in Nodes, SYAppend(n) PROVE SyncInv'
  <2>1. made \in Seq(Seq(Nat)) /\ chain = [m \in Nodes |-> chain[m]] /\ IsHistory(chain[n], made)
    BY <1>1 DEF Genuine
  <2> DEFINE q == Append(chain[n], Len(made) + 1)
  <2>2. chain' = [chain EXCEPT ![n] = q] /\ made' = Append(made, chain'[n]) /\ run' = run
    BY <1>4 DEF SYAppend, Set
  <2>3. q \in Seq(Nat) /\ IsHistory(q, Append(made, q))
    BY <2>1, NewHistory
  <2> HIDE DEF q
  <2>4. chain'[n] = q /\ made' = Append(made, q) /\ made' \in Seq(Seq(Nat))
    BY <2>1, <2>2, <2>3
  <2>5. \A p : IsHistory(p, made) => IsHistory(p, made')
    BY <2>1, <2>3, <2>4, HistoryStays
  <2>6. Genuine'
    BY <1>1, <2>1, <2>2, <2>3, <2>4, <2>5 DEF Genuine
  <2>7. RunsHold'
    BY <1>1, <2>2, <2>5 DEF RunsHold
  <2> QED
    BY <2>6, <2>7 DEF SyncInv
<1>5. ASSUME NEW n \in Nodes, Toggle(n) \/ SyncComesDue(n) PROVE SyncInv'
  BY <1>3, <1>5 DEF Toggle, SyncComesDue
<1>6. ASSUME NEW n \in Nodes, CooldownEnds(n) PROVE SyncInv'
  <2>1. UNCHANGED ledgers
    BY <1>6 DEF CooldownEnds
  <2>2. PICK m : run' = [t \in Threads |-> IF Node(t) = n
                          THEN [run[t] EXCEPT !.marks.cooling = @ \ {m}] ELSE run[t]]
    BY <1>6 DEF CooldownEnds
  <2>3. \A t \in Threads : IsRun(run'[t]) /\ run'[t].answer = run[t].answer
    BY <1>1, <2>2, CooledIsRun DEF RunsHold
  <2>4. RunsHold'
    BY <1>1, <2>1, <2>2, <2>3 DEF RunsHold, ledgers
  <2> QED
    BY <1>2, <2>1, <2>4 DEF SyncInv
<1>7. ASSUME NEW t \in Threads, Disabled(t) PROVE SyncInv'
  BY <1>3, <1>7 DEF Disabled
<1>8. ASSUME NEW t \in Threads, StartCycle(t) PROVE SyncInv'
  <2>1. UNCHANGED ledgers
    BY <1>8 DEF StartCycle
  <2>2. CASE run' = run
    BY <1>3, <2>1, <2>2
  <2>3. CASE run' # run
    <3>1. PICK peers \in Eligible(Node(t)) :
            /\ peers # <<>>
            /\ run' = [run EXCEPT ![t] = [Idle EXCEPT !.pc = "ask", !.left = peers,
                                                     !.marks = store[Node(t)]]]
      BY <1>8, <2>3 DEF StartCycle
    <3>2. peers \in Seq(Nodes)
      BY NodeOfThread DEF Eligible, SeqOf
    <3> DEFINE r == [Idle EXCEPT !.pc = "ask", !.left = peers, !.marks = store[Node(t)]]
    <3>3. IsRun(r) /\ IsHistory(r.answer.events, made)
      BY <3>1, <3>2, BegunIsRun, IdleIsRun
    <3>4. run' = [run EXCEPT ![t] = r]
      BY <3>1
    <3> HIDE DEF r
    <3>5. RunsHold'
      BY <2>1, <3>3, <3>4, RunsStep DEF ledgers
    <3> QED
      BY <1>2, <2>1, <3>5 DEF SyncInv
  <2> QED
    BY <2>2, <2>3
<1>9. ASSUME NEW t \in Threads, Ask(t) PROVE SyncInv'
  <2>1. UNCHANGED ledgers /\ run[t].pc = "ask"
    BY <1>9 DEF Ask
  <2>2. IsRun(run[t]) /\ run[t].left \in Seq(Nodes) /\ run[t].left # <<>>
    BY <1>1, <2>1 DEF RunsHold, IsRun
  <2>3. Asked(t) \in Nodes
    BY <2>2, HeadTailProperties DEF Asked
  <2> DEFINE a == Answer(chain[Node(t)], chain[Asked(t)])
             r == [run[t] EXCEPT !.pc = "answered", !.answer = a]
  <2>4. IsHistory(a.events, made)
    BY <1>1, <2>3, NodeOfThread, AnswerIsHistory DEF Genuine
  <2>0. run' = [run EXCEPT ![t].pc = "answered", ![t].answer = a]
    BY <1>9 DEF Ask
  <2> HIDE DEF a
  <2>5. run' = [run EXCEPT ![t] = r]
    BY <1>1, <2>0 DEF RunsHold
  <2>6. IsRun(r) /\ r.answer = a
    BY <2>1, <2>2 DEF IsRun, Fields
  <2> HIDE DEF r
  <2>7. RunsHold'
    BY <2>1, <2>4, <2>5, <2>6, RunsStep DEF ledgers
  <2> QED
    BY <1>2, <2>1, <2>7 DEF SyncInv
<1>10. ASSUME NEW t \in Threads, RequestFails(t) PROVE SyncInv'
  <2>1. UNCHANGED ledgers /\ run[t].pc # "idle" /\ Fail(t, FALSE)
    BY <1>10 DEF RequestFails, Fail
  <2> QED
    BY <1>2, <2>1, FailStep DEF SyncInv, ledgers
<1>11. ASSUME NEW t \in Threads, Escapes(t) PROVE SyncInv'
  <2>1. UNCHANGED ledgers /\ run' = [run EXCEPT ![t] = Idle]
    BY <1>11 DEF Escapes
  <2>3. RunsHold'
    BY <2>1, IdleIsRun, RunsStep DEF ledgers
  <2> QED
    BY <1>2, <2>1, <2>3 DEF SyncInv
<1>12. ASSUME NEW t \in Threads, Forked(t) PROVE SyncInv'
  <2>1. UNCHANGED ledgers /\ run[t].pc = "answered"
    BY <1>12 DEF Forked
  <2>2. CASE Fail(t, TRUE)
    BY <1>2, <2>1, <2>2, FailStep DEF SyncInv, ledgers
  <2>3. CASE Goto(t, "reset")
    <3> DEFINE r == [run[t] EXCEPT !.pc = "reset"]
    <3>1. run' = [run EXCEPT ![t] = r]
      BY <1>1, <2>3 DEF Goto, RunsHold
    <3>2. IsRun(r) /\ r.answer = run[t].answer
      BY <1>1, <2>1, MovedIsRun DEF RunsHold
    <3> HIDE DEF r
    <3>3. RunsHold'
      BY <1>1, <2>1, <3>1, <3>2, RunsStep DEF RunsHold, ledgers
    <3> QED
      BY <1>2, <2>1, <3>3 DEF SyncInv
  <2> QED
    BY <1>12, <2>2, <2>3 DEF Forked
<1>13. ASSUME NEW t \in Threads, Reset(t) PROVE SyncInv'
  <2>1. chain' = [chain EXCEPT ![Node(t)] = <<>>] /\ UNCHANGED made
    BY <1>13 DEF Reset, Set
  <2>2. Genuine'
    BY <1>1, <2>1, EmptyIsHistory, NodeOfThread DEF Genuine
  <2> DEFINE r == [run[t] EXCEPT !.pc = "ask", !.answer = NoAnswer]
  <2>3. run' = [run EXCEPT ![t] = r]
    BY <1>1, <1>13 DEF Reset, RunsHold
  <2>0. IsRun(run[t]) /\ run[t].pc # "idle"
    BY <1>1, <1>13 DEF Reset, RunsHold
  <2>4. IsRun(r) /\ r.answer = NoAnswer
    BY <2>0 DEF IsRun, Fields
  <2> HIDE DEF r
  <2>5. IsHistory(r.answer.events, made)
    BY <2>4, EmptyIsHistory DEF NoAnswer
  <2>6. RunsHold'
    BY <2>1, <2>3, <2>4, <2>5, RunsStep
  <2> QED
    BY <2>2, <2>6 DEF SyncInv
<1>14. ASSUME NEW t \in Threads, Ingest(t) PROVE SyncInv'
  <2>1. run[t].pc # "idle" /\ made' = made
    BY <1>14 DEF Ingest
  <2>2. IsHistory(chain[Node(t)], made) /\ IsHistory(run[t].answer.events, made)
    BY <1>1, NodeOfThread DEF Genuine, RunsHold
  <2>3. IsHistory(Ingested(chain[Node(t)], run[t].answer), made)
    BY <2>2, IngestedIsOld
  <2>4. \/ chain' = chain
        \/ chain' = [chain EXCEPT ![Node(t)] = Ingested(chain[Node(t)], run[t].answer)]
    BY <1>14 DEF Ingest, Set
  <2>5. Genuine'
    BY <1>1, <2>1, <2>3, <2>4, NodeOfThread DEF Genuine
  <2>6. CASE Fail(t, FALSE)
    BY <2>1, <2>5, <2>6, FailStep DEF SyncInv
  <2>7. CASE Succeed(t)
    <3>1. run' = [run EXCEPT ![t] = Idle]
      BY <2>7 DEF Succeed
    <3> QED
      BY <2>1, <2>5, <3>1, IdleIsRun, RunsStep DEF SyncInv
  <2>8. CASE run' = [run EXCEPT ![t].pc = "ask", ![t].rounds = @ + 1, ![t].answer = NoAnswer]
    <3> DEFINE r == [run[t] EXCEPT !.pc = "ask", !.rounds = @ + 1, !.answer = NoAnswer]
    <3>1. run' = [run EXCEPT ![t] = r]
      BY <1>1, <2>8 DEF RunsHold
    <3>2. IsRun(r) /\ r.answer = NoAnswer
      BY <1>1, <2>1, NextRoundIsRun DEF RunsHold
    <3> HIDE DEF r
    <3>3. IsHistory(r.answer.events, made)
      BY <3>2, EmptyIsHistory DEF NoAnswer
    <3>4. RunsHold'
      BY <2>1, <3>1, <3>2, <3>3, RunsStep
    <3> QED
      BY <2>5, <3>4 DEF SyncInv
  <2> QED
    BY <1>14, <2>6, <2>7, <2>8 DEF Ingest
<1>15. CASE UNCHANGED syVars
  BY <1>3, <1>15 DEF syVars
<1>16. Syncing \subseteq Nodes
  BY SyncAssumption DEF SyncAssumption
<1> QED
  BY <1>4, <1>5, <1>6, <1>7, <1>8, <1>9, <1>10, <1>11, <1>12, <1>13, <1>14, <1>15, <1>16
  DEF SYNext, Turn, Step

\* Nobody has written yet.
LEMMA SyncStarts == SYInit => SyncInv
<1> SUFFICES ASSUME SYInit PROVE SyncInv
  OBVIOUS
<1>1. made \in Seq(Seq(Nat))
  BY DEF SYInit
<1>2. Genuine
  BY <1>1, EmptyIsHistory DEF SYInit, Genuine
<1>3. RunsHold
  BY IdleIsRun DEF SYInit, RunsHold
<1> QED
  BY <1>2, <1>3 DEF SyncInv

-----------------------------------------------------------------------------
\* The invariant holds in every state that syncing nodes reach.
THEOREM SyncInvariant == SYSpec => []SyncInv
  BY SyncStarts, SyncStep, PTL DEF SYSpec

\* Whatever a node has of the ledger is what the author of its last event had
\* when he wrote it.
THEOREM HistoryCorrect == SYSpec => []SYHistory
<1>1. SyncInv => SYHistory
  BY HistoryOfLast DEF SyncInv, Genuine, SYHistory
<1> QED
  BY <1>1, SyncInvariant, PTL


-----------------------------------------------------------------------------
\* The peers that a node or a thread remembers and has left to ask are peers of
\* its store, and no cycle goes on for more than max_rounds.
Marks(n) == [recent : Seq(Peers(n)), cooling : SUBSET Peers(n)]
RunTyped(t, r) ==
  /\ r.pc \in {"idle", "ask", "answered", "reset"} /\ r.rounds \in 0..(Rounds - 1)
  /\ r.marks \in Marks(Node(t)) /\ r.left \in Seq(Peers(Node(t)))

WorkerTyped ==
  /\ enabled \in [Nodes -> BOOLEAN] /\ ripe \in [Nodes -> BOOLEAN]
  /\ outcome \in [Nodes -> {"idle", "disabled", "alone", "running", "ok", "error", "fork"}]
StoreTyped == store = [n \in Nodes |-> store[n]] /\ \A n \in Nodes : store[n] \in Marks(n)
MadeTyped == made \in Seq(Seq(1..Len(made)))
SyncTyped ==
  MadeTyped /\ WorkerTyped /\ StoreTyped /\ \A t \in Threads : RunTyped(t, run[t])

\* A peer that succeeds again leaves its former place.
LEMMA RemovedTyped == ASSUME NEW S, NEW q \in Seq(S), NEW e PROVE RemoveFirst(q, e) \in Seq(S)
<1>1. CASE \E i \in 1..Len(q) : q[i] = e
  <2> DEFINE I == {i \in 1..Len(q) : q[i] = e}
  <2>1. \E x \in I : \A y \in I : x =< y
    <3>1. I # {} /\ I \subseteq Nat
      BY <1>1
    <3>2. PICK x \in I : \A y \in I : ~(<<y, x>> \in OpToRel(<, Nat))
      BY <3>1, NatLessThanWellFounded, WFMin, Zenon
    <3>3. \A y \in I : ~(y < x)
      BY <3>1, <3>2, Zenon DEF OpToRel
    <3> QED
      BY <3>3
  <2>2. Min(I) \in I
    BY <2>1 DEF Min
  <2>3. RemoveFirst(q, e) = RemoveAt(q, Min(I))
    BY <1>1 DEF RemoveFirst, SelectInSeq
  <2>4. PICK i \in 1..Len(q) : i = Min(I)
    BY <2>2
  <2>5. RemoveFirst(q, e) = SubSeq(q, 1, i - 1) \o SubSeq(q, i + 1, Len(q))
    BY <2>3, <2>4 DEF RemoveAt
  <2>6. SubSeq(q, 1, i - 1) \in Seq(S) /\ SubSeq(q, i + 1, Len(q)) \in Seq(S)
    BY SubSeqProperties
  <2> QED
    BY <2>5, <2>6
<1>2. CASE ~\E i \in 1..Len(q) : q[i] = e
  BY <1>2 DEF RemoveFirst
<1> QED
  BY <1>1, <1>2

LEMMA MarksKept ==
  ASSUME NEW n \in Nodes, NEW marks \in Marks(n)
  PROVE  /\ \A m \in Peers(n) : Succeeded(marks, m) \in Marks(n) /\ Failed(marks, m) \in Marks(n)
         /\ \A m : [marks EXCEPT !.cooling = @ \ {m}] \in Marks(n)
<1>1. marks.recent \in Seq(Peers(n)) /\ marks.cooling \subseteq Peers(n)
  BY DEF Marks
<1>2. ASSUME NEW m \in Peers(n) PROVE Succeeded(marks, m) \in Marks(n)
  <2>1. RemoveFirst(marks.recent, m) \in Seq(Peers(n)) /\ <<m>> \in Seq(Peers(n))
    BY <1>1, RemovedTyped
  <2>2. <<m>> \o RemoveFirst(marks.recent, m) \in Seq(Peers(n))
    BY <2>1
  <2> QED
    BY <1>1, <2>2 DEF Succeeded, Marks
<1>3. ASSUME NEW m \in Peers(n) PROVE Failed(marks, m) \in Marks(n)
  BY <1>1 DEF Failed, Marks
<1> QED
  BY <1>2, <1>3 DEF Marks

LEMMA IdleTyped == \A t \in Threads : RunTyped(t, Idle) /\ NoMarks \in Marks(Node(t))
<1> SUFFICES ASSUME NEW t \in Threads PROVE RunTyped(t, Idle) /\ NoMarks \in Marks(Node(t))
  OBVIOUS
<1>1. NoMarks \in Marks(Node(t))
  BY DEF NoMarks, Marks
<1> QED
  BY <1>1, SyncAssumption DEF RunTyped, Idle, SyncAssumption

LEMMA AskedIsPeer ==
  ASSUME SyncInv, SyncTyped, NEW t \in Threads, run[t].pc # "idle"
  PROVE  Asked(t) \in Peers(Node(t)) /\ Tail(run[t].left) \in Seq(Peers(Node(t)))
<1>1. run[t].left # <<>> /\ run[t].left \in Seq(Peers(Node(t)))
  BY DEF SyncInv, RunsHold, IsRun, SyncTyped, RunTyped
<1> QED
  BY <1>1 DEF Asked

\* A step that changes the cycle of one thread, and at most its node's worker
\* and marks.
LEMMA TypedStep ==
  ASSUME SyncInv, SyncTyped, NEW t \in Threads, NEW r, RunTyped(t, r),
         run' = [run EXCEPT ![t] = r], made' = made, WorkerTyped',
         store' = store \/ \E m \in Marks(Node(t)) : store' = [store EXCEPT ![Node(t)] = m]
  PROVE  SyncTyped'
<1>1. MadeTyped'
  BY DEF SyncTyped, MadeTyped
<1>2. StoreTyped'
  BY NodeOfThread DEF SyncTyped, StoreTyped
<1>3. \A u \in Threads : RunTyped(u, run'[u])
  BY DEF SyncInv, RunsHold, SyncTyped
<1> QED
  BY <1>1, <1>2, <1>3 DEF SyncTyped, RunTyped

LEMMA FailTyped ==
  ASSUME SyncInv, SyncTyped, NEW t \in Threads, run[t].pc # "idle", NEW f \in BOOLEAN, Fail(t, f),
         UNCHANGED <<made, enabled>>
  PROVE  SyncTyped'
<1> DEFINE left == IF f THEN <<>> ELSE Tail(run[t].left)
           marks == Failed(run[t].marks, Asked(t))
           r == IF left = <<>> THEN Idle
                ELSE [Idle EXCEPT !.pc = "ask", !.left = left, !.marks = marks]
<1>1. left \in Seq(Peers(Node(t))) /\ marks \in Marks(Node(t))
  <2>1. run[t].marks \in Marks(Node(t))
    BY DEF SyncTyped, RunTyped
  <2> QED
    BY <2>1, AskedIsPeer, MarksKept, NodeOfThread
<1>2. /\ run' = [run EXCEPT ![t] = r] /\ store' = [store EXCEPT ![Node(t)] = marks]
      /\ ripe' = [ripe EXCEPT ![Node(t)] = FALSE]
      /\ \E o \in {"running", "fork", "error"} : outcome' = [outcome EXCEPT ![Node(t)] = o]
  BY DEF Fail, Set
<1> HIDE DEF left, marks
<1>3. RunTyped(t, r)
  <2>1. CASE left = <<>>
    BY <2>1, IdleTyped
  <2>2. CASE left # <<>>
    <3>1. r = [Idle EXCEPT !.pc = "ask", !.left = left, !.marks = marks]
      BY <2>2
    <3>2. r.pc = "ask" /\ r.left = left /\ r.marks = marks /\ r.rounds = 0
      BY <3>1 DEF Idle
    <3> HIDE DEF r
    <3> QED
      BY <1>1, <3>2, SyncAssumption DEF RunTyped, SyncAssumption
  <2> QED
    BY <2>1, <2>2
<1>4. WorkerTyped'
  BY <1>2 DEF SyncTyped, WorkerTyped
<1> HIDE DEF r
<1> QED
  BY <1>1, <1>2, <1>3, <1>4, TypedStep


\* A cycle that goes on with the same peers.
GoesOn(t, c, k, a) ==
  run' = [run EXCEPT ![t] = [run[t] EXCEPT !.pc = c, !.rounds = k, !.answer = a]]
LEMMA GoesOnTyped ==
  ASSUME SyncInv, SyncTyped, NEW t \in Threads, NEW c \in {"answered", "reset", "ask"},
         NEW k \in 0..(Rounds - 1), NEW a, GoesOn(t, c, k, a),
         UNCHANGED <<made, enabled, outcome, ripe, store>>
  PROVE  SyncTyped'
<1> DEFINE r == [run[t] EXCEPT !.pc = c, !.rounds = k, !.answer = a]
<1>1. IsRun(run[t]) /\ RunTyped(t, run[t])
  BY DEF SyncInv, RunsHold, SyncTyped
<1>2. r.pc = c /\ r.rounds = k /\ r.marks = run[t].marks /\ r.left = run[t].left
  BY <1>1 DEF IsRun, Fields
<1>3. run' = [run EXCEPT ![t] = r]
  BY DEF GoesOn
<1> HIDE DEF r
<1>4. RunTyped(t, r)
  BY <1>1, <1>2 DEF RunTyped
<1>5. WorkerTyped'
  BY DEF SyncTyped, WorkerTyped
<1> QED
  BY <1>3, <1>4, <1>5, TypedStep

\* Every step keeps the types.
LEMMA SyncTypedStep == SyncInv /\ SyncTyped /\ [SYNext]_syVars => SyncTyped'
<1> SUFFICES ASSUME SyncInv, SyncTyped, [SYNext]_syVars PROVE SyncTyped'
  OBVIOUS
<1>1. MadeTyped /\ WorkerTyped /\ StoreTyped /\ \A t \in Threads : RunTyped(t, run[t])
  BY DEF SyncTyped
<1>2. ASSUME UNCHANGED <<made, store, run>>, WorkerTyped' PROVE SyncTyped'
  BY <1>1, <1>2 DEF SyncTyped, MadeTyped, StoreTyped, RunTyped
<1>3. ASSUME UNCHANGED worker PROVE WorkerTyped'
  BY <1>1, <1>3 DEF worker, WorkerTyped
<1>4. ASSUME NEW n \in Nodes, SYAppend(n) PROVE SyncTyped'
  <2>1. chain[n] \in Seq(1..Len(made)) /\ Len(made) \in Nat /\ chain = [m \in Nodes |-> chain[m]]
    BY <1>1 DEF SyncInv, Genuine, IsHistory, MadeTyped
  <2>2. /\ chain' = [chain EXCEPT ![n] = Append(chain[n], Len(made) + 1)]
        /\ made' = Append(made, chain'[n]) /\ UNCHANGED <<worker, store, run>>
    BY <1>4 DEF SYAppend, Set
  <2>3. chain'[n] = Append(chain[n], Len(made) + 1)
    BY <2>1, <2>2
  <2>4. PICK l \in Nat : l = Len(made)
    BY <2>1
  <2>5. chain'[n] \in Seq(1..(l + 1))
    <3>1. chain[n] \in Seq(1..(l + 1))
      BY <2>1, <2>4
    <3> QED
      BY <2>3, <2>4, <3>1
  <2>6. made \in Seq(Seq(1..(l + 1)))
    BY <1>1, <2>4 DEF MadeTyped
  <2>7. made' \in Seq(Seq(1..(l + 1))) /\ Len(made') = l + 1
    BY <2>2, <2>4, <2>5, <2>6
  <2>8. MadeTyped' /\ WorkerTyped'
    BY <1>3, <2>2, <2>7 DEF MadeTyped
  <2> QED
    BY <1>1, <2>2, <2>8 DEF SyncTyped, StoreTyped, RunTyped
<1>5. ASSUME NEW n \in Nodes, Toggle(n) \/ SyncComesDue(n) PROVE SyncTyped'
  <2>1. UNCHANGED <<made, store, run>> /\ WorkerTyped'
    BY <1>1, <1>5 DEF Toggle, SyncComesDue, WorkerTyped, ledgers, Set
  <2> QED
    BY <1>2, <2>1
<1>6. ASSUME NEW n \in Nodes, CooldownEnds(n) PROVE SyncTyped'
  <2>1. PICK m \in Peers(n) :
          /\ store' = [store EXCEPT ![n].cooling = @ \ {m}]
          /\ run' = [t \in Threads |-> IF Node(t) = n
                                        THEN [run[t] EXCEPT !.marks.cooling = @ \ {m}] ELSE run[t]]
    BY <1>6 DEF CooldownEnds
  <2>2. UNCHANGED <<made, worker>>
    BY <1>6 DEF CooldownEnds, ledgers
  <2>3. store' = [store EXCEPT ![n] = [store[n] EXCEPT !.cooling = @ \ {m}]]
    BY <1>1, <2>1 DEF StoreTyped
  <2>4. StoreTyped'
    <3>1. [store[n] EXCEPT !.cooling = @ \ {m}] \in Marks(n)
      BY <1>1, MarksKept DEF StoreTyped
    <3> QED
      BY <1>1, <2>3, <3>1 DEF StoreTyped
  <2>5. ASSUME NEW t \in Threads PROVE RunTyped(t, run'[t])
    <3>1. CASE Node(t) # n
      BY <1>1, <2>1, <3>1
    <3>2. CASE Node(t) = n
      <4>1. [run[t].marks EXCEPT !.cooling = @ \ {m}] \in Marks(Node(t))
        BY <1>1, MarksKept, NodeOfThread DEF RunTyped
      <4>2. run'[t] = [run[t] EXCEPT !.marks = [run[t].marks EXCEPT !.cooling = @ \ {m}]]
        BY <2>1, <3>2
      <4>3. IsRun(run[t])
        BY DEF SyncInv, RunsHold
      <4>4. /\ run'[t].marks = [run[t].marks EXCEPT !.cooling = @ \ {m}]
            /\ run'[t].pc = run[t].pc /\ run'[t].rounds = run[t].rounds /\ run'[t].left = run[t].left
        BY <4>2, <4>3 DEF IsRun, Fields
      <4> QED
        BY <1>1, <4>1, <4>4 DEF RunTyped
    <3> QED
      BY <3>1, <3>2
  <2> QED
    BY <1>1, <1>3, <2>2, <2>4, <2>5 DEF SyncTyped, MadeTyped, RunTyped
<1>7. ASSUME NEW t \in Threads, Disabled(t) PROVE SyncTyped'
  <2>1. UNCHANGED <<made, store, run>> /\ WorkerTyped'
    BY <1>1, <1>7 DEF Disabled, WorkerTyped, ledgers, Set
  <2> QED
    BY <1>2, <2>1
<1>8. ASSUME NEW t \in Threads, StartCycle(t) PROVE SyncTyped'
  <2>1. /\ UNCHANGED <<made, enabled, store>> /\ ripe' = [ripe EXCEPT ![Node(t)] = FALSE]
        /\ \E o \in {"alone", "running"} : outcome' = [outcome EXCEPT ![Node(t)] = o]
    BY <1>8 DEF StartCycle, ledgers, Set
  <2>2. WorkerTyped'
    BY <1>1, <2>1 DEF WorkerTyped
  <2>3. CASE run' = run
    BY <1>2, <2>1, <2>2, <2>3
  <2>4. CASE run' # run
    <3> DEFINE r(q) == [Idle EXCEPT !.pc = "ask", !.left = q, !.marks = store[Node(t)]]
    <3>1. PICK peers \in Eligible(Node(t)) : run' = [run EXCEPT ![t] = r(peers)]
      BY <1>8, <2>4 DEF StartCycle
    <3>2. peers \in Seq(Peers(Node(t))) /\ store[Node(t)] \in Marks(Node(t))
      BY <1>1, NodeOfThread DEF Eligible, SeqOf, StoreTyped
    <3>3. /\ r(peers).pc = "ask" /\ r(peers).left = peers /\ r(peers).rounds = 0
          /\ r(peers).marks = store[Node(t)]
      BY DEF Idle
    <3>4. RunTyped(t, r(peers))
      BY <3>2, <3>3, SyncAssumption DEF RunTyped, SyncAssumption
    <3> HIDE DEF r
    <3> QED
      BY <2>1, <2>2, <3>1, <3>4, TypedStep
  <2> QED
    BY <2>3, <2>4
<1>10. ASSUME NEW t \in Threads
       PROVE  /\ run[t] = [f \in Fields |-> run[t][f]] /\ run = [u \in Threads |-> run[u]]
              /\ run[t].rounds \in 0..(Rounds - 1)
  BY <1>1 DEF SyncInv, RunsHold, IsRun, RunTyped
<1>11. ASSUME NEW t \in Threads, Ask(t) PROVE SyncTyped'
  <2> DEFINE a == Answer(chain[Node(t)], chain[Asked(t)])
  <2>1. run' = [run EXCEPT ![t].pc = "answered", ![t].answer = a] /\ UNCHANGED <<made, worker, store>>
    BY <1>11 DEF Ask, ledgers
  <2> HIDE DEF a
  <2>2. GoesOn(t, "answered", run[t].rounds, a)
    BY <1>10, <2>1 DEF Fields, GoesOn
  <2> QED
    BY <1>10, <2>1, <2>2, GoesOnTyped DEF worker
<1>12. ASSUME NEW t \in Threads, RequestFails(t) PROVE SyncTyped'
  <2>1. run[t].pc # "idle" /\ Fail(t, FALSE) /\ UNCHANGED <<made, enabled>>
    BY <1>12 DEF RequestFails, ledgers
  <2> QED
    BY <2>1, FailTyped
<1>13. ASSUME NEW t \in Threads, Escapes(t) PROVE SyncTyped'
  <2>1. run' = [run EXCEPT ![t] = Idle] /\ UNCHANGED <<made, worker, store>>
    BY <1>13 DEF Escapes, ledgers
  <2> QED
    BY <1>3, <2>1, IdleTyped, TypedStep
<1>14. ASSUME NEW t \in Threads, Forked(t) PROVE SyncTyped'
  <2>1. UNCHANGED <<made, enabled>> /\ run[t].pc # "idle"
    BY <1>14 DEF Forked, ledgers
  <2>2. CASE Fail(t, TRUE)
    BY <2>1, <2>2, FailTyped
  <2>3. CASE Goto(t, "reset") /\ UNCHANGED <<outcome, ripe, store>>
    <3>1. GoesOn(t, "reset", run[t].rounds, run[t].answer)
      BY <1>10, <2>3 DEF Goto, Fields, GoesOn
    <3> QED
      BY <1>10, <2>1, <2>3, <3>1, GoesOnTyped
  <2> QED
    BY <1>14, <2>2, <2>3 DEF Forked
<1>15. ASSUME NEW t \in Threads, Reset(t) PROVE SyncTyped'
  <2>1. run' = [run EXCEPT ![t].pc = "ask", ![t].answer = NoAnswer] /\ UNCHANGED <<made, worker, store>>
    BY <1>15 DEF Reset
  <2>2. GoesOn(t, "ask", run[t].rounds, NoAnswer)
    BY <1>10, <2>1 DEF Fields, GoesOn
  <2> QED
    BY <1>10, <2>1, <2>2, GoesOnTyped DEF worker
<1>16. ASSUME NEW t \in Threads, Ingest(t) PROVE SyncTyped'
  <2>1. run[t].pc # "idle" /\ UNCHANGED <<made, enabled>>
    BY <1>16 DEF Ingest
  <2>2. CASE Fail(t, FALSE)
    BY <2>1, <2>2, FailTyped
  <2>3. CASE Succeed(t)
    <3> DEFINE m == Succeeded(run[t].marks, Asked(t))
    <3>1. /\ run' = [run EXCEPT ![t] = Idle] /\ store' = [store EXCEPT ![Node(t)] = m]
          /\ outcome' = [outcome EXCEPT ![Node(t)] = "ok"] /\ ripe' = [ripe EXCEPT ![Node(t)] = FALSE]
      BY <2>3 DEF Succeed, Set
    <3>2. m \in Marks(Node(t))
      <4>1. run[t].marks \in Marks(Node(t))
        BY <1>1 DEF RunTyped
      <4> QED
        BY <2>1, <4>1, AskedIsPeer, MarksKept, NodeOfThread
    <3> HIDE DEF m
    <3>3. WorkerTyped'
      BY <1>1, <2>1, <3>1 DEF WorkerTyped
    <3> QED
      BY <2>1, <3>1, <3>2, <3>3, IdleTyped, TypedStep
  <2>4. CASE /\ MorePages(t)
             /\ run' = [run EXCEPT ![t].pc = "ask", ![t].rounds = @ + 1, ![t].answer = NoAnswer]
             /\ UNCHANGED <<outcome, ripe, store>>
    <3>1. GoesOn(t, "ask", run[t].rounds + 1, NoAnswer)
      BY <1>10, <2>4 DEF Fields, GoesOn
    <3>2. run[t].rounds + 1 \in 0..(Rounds - 1)
      <4>1. run[t].rounds + 1 < Rounds
        BY <2>4 DEF MorePages
      <4>2. Rounds \in Nat
        BY SyncAssumption DEF SyncAssumption
      <4>3. \A k \in 0..(Rounds - 1) : k + 1 < Rounds => k + 1 \in 0..(Rounds - 1)
        BY <4>2
      <4> QED
        BY <1>10, <4>1, <4>3
    <3> QED
      BY <2>1, <2>4, <3>1, <3>2, GoesOnTyped
  <2> QED
    BY <1>16, <2>2, <2>3, <2>4 DEF Ingest
<1>17. CASE UNCHANGED syVars
  BY <1>2, <1>3, <1>17 DEF syVars, ledgers
<1>18. Syncing \subseteq Nodes
  BY SyncAssumption DEF SyncAssumption
<1> QED
  BY <1>4, <1>5, <1>6, <1>7, <1>8, <1>11, <1>12, <1>13, <1>14, <1>15, <1>16, <1>17, <1>18
  DEF SYNext, Turn, Step

LEMMA SyncTypedStarts == SYInit => SyncTyped
<1> SUFFICES ASSUME SYInit PROVE SyncTyped
  OBVIOUS
<1>1. MadeTyped /\ WorkerTyped
  BY DEF SYInit, MadeTyped, WorkerTyped
<1>2. StoreTyped
  BY DEF SYInit, StoreTyped, NoMarks, Marks
<1>3. \A t \in Threads : RunTyped(t, run[t])
  BY IdleTyped DEF SYInit
<1> QED
  BY <1>1, <1>2, <1>3 DEF SyncTyped

LEMMA SyncTypes == SyncInv /\ SyncTyped => SYTypeOK
<1> SUFFICES ASSUME SyncInv, SyncTyped PROVE SYTypeOK
  OBVIOUS
<1>1. \A n \in Nodes : chain[n] \in Seq(1..Len(made))
  BY DEF SyncInv, Genuine, IsHistory
<1>2. ASSUME NEW n \in Nodes
      PROVE  ToSet(store[n].recent) \subseteq Peers(n) /\ store[n].cooling \subseteq Peers(n)
  <2>1. store[n].recent \in Seq(Peers(n)) /\ store[n].cooling \subseteq Peers(n)
    BY DEF SyncTyped, StoreTyped, Marks
  <2> QED
    BY <2>1 DEF ToSet
<1> QED
  BY <1>1, <1>2 DEF SyncTyped, MadeTyped, WorkerTyped, RunTyped, SYTypeOK

-----------------------------------------------------------------------------
\* Every part of the sync keeps its type: a node asks and remembers only peers
\* of its store, and no cycle goes on for more than max_rounds.
THEOREM SyncTypeCorrect == SYSpec => []SYTypeOK
  BY SyncStarts, SyncStep, SyncTypedStarts, SyncTypedStep, SyncTypes, PTL DEF SYSpec
=============================================================================
