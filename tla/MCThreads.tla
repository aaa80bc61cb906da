----------------------------- MODULE MCThreads -----------------------------
(* Two places where the threads of a node meet around a lock, side by side:  *)
(* the file of the relay and the transports.  Each behaviour exercises the   *)
(* one that "part" names.                                                    *)
EXTENDS RelayFlush, TransportLanes, TLC

CONSTANTS c1, c2, nonce, key, bundle, boot, poll

TwoCallers == {c1, c2}
NonceOnly == {nonce}
BundleOnly == {bundle}
AllKinds == {nonce, key, bundle}
OneBoot == {boot}
OnePoll == {poll}

VARIABLE part

threadVars == <<part, vars, lnVars>>

ThreadsInit ==
  /\ part \in {"flush", "lanes", "warmups"}
  /\ Init /\ LNInit
  /\ part # "flush" => exists /\ ~dirty
  /\ part # "warmups" => ~anonymous
  /\ part # "lanes" => ~public
  /\ part = "flush" => ~enabled /\ server = "down"

InFlush(A) == part = "flush" /\ A /\ UNCHANGED <<part, lnVars>>

\* What users ask for, while others kick bootstraps off; and the manager and the
\* prewarm, without users, a public lane or exits of the server.
InLanes(A) ==
  /\ part = "lanes" /\ A /\ UNCHANGED <<part, vars, manager>>
  /\ anonymous' = (anonymous \/ joining' # "no")
InWarmups(A) == part = "warmups" /\ A /\ UNCHANGED <<part, vars, requests, public, exits>>

ThreadsNext == InFlush(Next) \/ InLanes(LNNext) \/ InWarmups(LNNext)

\* The threads keep running; the worker asks for as long as something is queued,
\* the scheduler goes round, and time passes.
ThreadsFairness ==
  /\ \A c \in Callers : WF_threadVars(InFlush(CallerStep(c)))
  /\ WF_threadVars(InFlush(Wake \/ Step(Timer)))
  /\ WF_threadVars(InFlush(EndExit \/ Step(Exit)))
  /\ \A t \in Threads : WF_threadVars(InWarmups(Connecting(t)))
  /\ WF_threadVars(InWarmups(Starting \/ Warmup(Startup)))
  /\ WF_threadVars(InWarmups(Warmup(Worker)))
  /\ WF_threadVars(InWarmups(\E b \in Boots : Scheduled(b)))
  /\ WF_threadVars(InWarmups(CooldownEnds)) /\ WF_threadVars(InWarmups(CadenceComesDue))

ThreadsSpec == ThreadsInit /\ [][ThreadsNext]_threadVars /\ ThreadsFairness

ThreadsTypeOK == TypeOK /\ LNTypeOK

\* While a message waits the transport is ready or tried again (LNWarms).
KeepsWarming == part = "warmups" => LNWarms
=============================================================================
