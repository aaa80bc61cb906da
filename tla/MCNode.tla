------------------------------- MODULE MCNode -------------------------------
(* The components of a node that share no state, and its sync with another    *)
(* node, side by side: each behaviour exercises the one that "part" names,   *)
(* and the others stay at their initial states.                              *)
EXTENDS CommandChannel, TaskQueue, Ratchet, InfonetSync, TLC

CONSTANTS k1, k2, k3, al1, al2, j1, j2, j3, alice, bob, n1, n2

ThreeCommands == {k1, k2, k3}
TwoAlerts == {al1, al2}
ThreeJobs == {j1, j2, j3}
TwoAgents == {alice, bob}
TwoNodes == {n1, n2}
OneNode == {n1}
Others(n) == TwoNodes \ {n}

VARIABLE part

nodeVars == <<part, ccVars, tqVars, rtVars, syVars>>

NodeInit ==
  /\ part \in {"commands", "alerts", "jobs", "messages", "sync"}
  /\ CCInit /\ TQInit /\ RTInit /\ SYInit
  /\ part # "jobs" => limits = <<CHOOSE n \in Limits : TRUE>>

\* Commands without alerts, and alerts beside a single command.
Alone ==
  /\ part = "commands" => pushed' = {}
  /\ part = "alerts" => \A c \in Commands \ {k1} : status'[c] = "new"

InChannel(A) ==
  part \in {"commands", "alerts"} /\ A /\ Alone /\ UNCHANGED <<part, tqVars, rtVars, syVars>>
InQueue(A) == part = "jobs" /\ A /\ UNCHANGED <<part, ccVars, rtVars, syVars>>

\* Five messages in sessions that nobody resets, three in those that are.
Few == resets' < MaxResets => Len(sent') <= 3 /\ receipts' >= MaxReceipts - 3
InRatchet(A) == part = "messages" /\ A /\ Few /\ UNCHANGED <<part, ccVars, tqVars, syVars>>

InSync(A) == part = "sync" /\ A /\ UNCHANGED <<part, ccVars, tqVars, rtVars>>

NodeNext == InChannel(CCNext) \/ InQueue(TQNext) \/ InRatchet(RTNext) \/ InSync(SYNext)

\* Nothing is assumed of the commands of the channel: a worker may be stuck in
\* one.  Jobs are assumed to end, and the event loop to get to every task.  The
\* sync has the fairness of SYSpec.
NodeFairness ==
  /\ WF_nodeVars(InChannel(LoopWaits))
  /\ \A j \in Jobs : WF_nodeVars(InQueue(TQStart(j) \/ TQFinish(j) \/ TQUnwind(j)))
  /\ WF_nodeVars(InQueue(\E g \in Sems : TQWake(g)))
  /\ \A t \in Loops : WF_nodeVars(InSync(Turn(t)))
  /\ \A t \in Threads : WF_nodeVars(InSync(Step(t)))
  /\ \A n \in Syncing : /\ WF_nodeVars(InSync(SyncComesDue(n)))
                        /\ WF_nodeVars(InSync(CooldownEnds(n)))

NodeSpec == NodeInit /\ [][NodeNext]_nodeVars /\ NodeFairness

NodeTypeOK == CCTypeOK /\ TQTypeOK /\ RTTypeOK /\ SYTypeOK
=============================================================================
