------------------------------ MODULE Hashchain ------------------------------
(***************************************************************************)
(* One node's copy of the Infonet ledger (mesh_hashchain.py, class Infonet): *)
(* the events in memory, the segments it archives when memory is full, the  *)
(* chain file a Timer writes some seconds after a change, and the one-event *)
(* write-ahead log of append.  The API's threads append, the sync and RNS   *)
(* threads ingest, apply forks and reset, a Timer flushes; no lock is held. *)
(*                                                                          *)
(* An event's id is a hash over its content and its prev_hash, so an id      *)
(* stands for the whole history it was made on: here an event is the        *)
(* sequence of the entries <<author, sequence>> from genesis to itself.      *)
(* Signatures, payload rules, quotas and key bindings are left out: every    *)
(* event that arrives is one its author signed.                              *)
(***************************************************************************)
EXTENDS Integers, FiniteSets, Sequences, SequencesExt

CONSTANTS
  Authors,      \* the nodes that sign events
  MaxSeq,       \* bound on their sequence numbers
  MaxEvents,    \* bound on the length of a history
  Appenders,    \* the threads that call append
  Ingesters,    \* the threads that ingest, apply forks and reset
  Timer,        \* the thread of _save_timer
  MaxMemory,    \* MAX_CHAIN_MEMORY
  LockDepth,    \* CHAIN_LOCK_DEPTH
  ResetBelow,   \* the length from which a fork no longer resets the chain
  MaxFaults     \* bound on crashes

ASSUME HashchainAssumption ==
  /\ IsFiniteSet(Authors) /\ MaxSeq \in Nat /\ MaxEvents \in Nat /\ MaxFaults \in Nat
  /\ LockDepth \in Nat /\ ResetBelow \in Nat /\ MaxMemory \in Nat \ {0}
  /\ ResetBelow <= MaxMemory
  /\ Appenders \cap Ingesters = {} /\ Timer \notin Appenders \cup Ingesters

Writers == Appenders \cup Ingesters
Threads == Writers \cup {Timer}

VARIABLES
  hot,         \* Infonet.events
  cold,        \* the events in cold segments
  seqs,        \* Infonet.node_sequences
  file,        \* the chain file: what it has of cold and hot
  wal,         \* the event in the WAL, Genesis if there is none
  dirty,       \* Infonet._dirty
  pc,          \* where each thread is
  work,        \* the event each writer is about to add
  dump,        \* the payload of each flush, or the chain a fork will install
  faults,      \* crashes still to come
  acked,       \* history: what append has returned for and no fork replaced
  overlapped,  \* history: two writers have been at work at the same time
  raced,       \* history: an event was on its way while a flush was under way
  forgot       \* history: sequences of archived events have been forgotten

ledger == <<hot, cold, seqs>>
disk == <<file, wal>>
history == <<acked, overlapped, raced, forgot>>
hcVars == <<hot, cold, seqs, file, wal, dirty, pc, work, dump, faults, history>>

Genesis == <<>>
Empty == [cold |-> <<>>, hot |-> <<>>]
Entries == Authors \X (1..MaxSeq)
By(e) == Last(e)[1]
Sequence(e) == Last(e)[2]
HeadOf(chain) == IF chain = <<>> THEN Genesis ELSE Last(chain)

\* The events of chain, each linked to the one before, onto prev.
LinkedFrom(prev, chain) ==
  \A n \in DOMAIN chain : Front(chain[n]) = IF n = 1 THEN prev ELSE chain[n - 1]

\* The events that a history adds to prev.
EventsAfter(prev, path) ==
  [n \in 1..(Len(path) - Len(prev)) |-> SubSeq(path, 1, Len(prev) + n)]

\* _rebuild_state: the last sequence of each author on the hot chain.
Rebuilt(chain) ==
  [a \in Authors |->
     LET mine == {Sequence(e) : e \in {f \in ToSet(chain) : By(f) = a}}
     IN IF mine = {} THEN 0 ELSE CHOOSE s \in mine : \A r \in mine : r <= s]

Overflow(chain) == IF Len(chain) > MaxMemory THEN Len(chain) - MaxMemory ELSE 0
Archived(chain) == SubSeq(chain, 1, Overflow(chain))
Capped(chain) == SubSeq(chain, Overflow(chain) + 1, Len(chain))

Busy(t) == pc[t] \in {"log", "push", "save", "fork"}
UnderWay == \E f \in Threads : pc[f] \in {"write", "clear", "unlog"}
Goto(t, l) == pc' = [pc EXCEPT ![t] = l]

-----------------------------------------------------------------------------
HCInit ==
  /\ hot = <<>> /\ cold = <<>> /\ wal = Genesis
  /\ file = Empty
  /\ seqs = [a \in Authors |-> 0]
  /\ dirty = FALSE
  /\ pc = [t \in Threads |-> "idle"]
  /\ work = [t \in Writers |-> Genesis] /\ dump = [t \in Threads |-> Empty]
  /\ faults = MaxFaults
  /\ acked = {} /\ overlapped = FALSE /\ raced = FALSE /\ forgot = FALSE

Begin(t, next) ==
  /\ pc[t] = "idle"
  /\ overlapped' = (overlapped \/ \E u \in Writers : Busy(u))
  /\ Goto(t, next)
  /\ UNCHANGED <<ledger, disk, dirty, faults, acked, raced, forgot>>

Start(t, next, path) ==
  /\ Len(path) <= MaxEvents
  /\ work' = [work EXCEPT ![t] = path]
  /\ Begin(t, next) /\ UNCHANGED dump

\* Mutant of BeginAppend: no sequence is refused.
BeginAppendAny(t, entry) == Start(t, "log", Append(HeadOf(hot), entry))

\* append: the sequence is checked and the event is made on the head of the
\* moment ...
BeginAppend(t, entry) ==
  /\ entry[2] > seqs[entry[1]]
  /\ Start(t, "log", Append(HeadOf(hot), entry))

\* ... logged ...
WriteWal(t) ==
  /\ pc[t] = "log"
  /\ wal' = work[t]
  /\ raced' = (raced \/ UnderWay)
  /\ Goto(t, "push")
  /\ UNCHANGED <<ledger, file, dirty, work, dump, faults, acked, overlapped, forgot>>

\* ingest_events: an event that continues the head and its author's sequence.
BeginIngest(t, entry) ==
  /\ entry[2] > seqs[entry[1]]
  /\ Start(t, "push", Append(HeadOf(hot), entry))

\* ... and put at the end of the chain.
Push(t) ==
  /\ pc[t] = "push"
  /\ hot' = Append(hot, work[t])
  /\ seqs' = [seqs EXCEPT ![By(work[t])] = Sequence(work[t])]
  /\ raced' = (raced \/ UnderWay)
  /\ Goto(t, "save")
  /\ UNCHANGED <<cold, disk, dirty, work, dump, faults, acked, overlapped, forgot>>

Returned(t) ==
  /\ pc' = [pc EXCEPT ![t] = "idle", ![Timer] = IF @ = "idle" THEN "sleep" ELSE @]
  /\ acked' = IF t \in Appenders THEN acked \cup {work[t]} ELSE acked
  /\ work' = [work EXCEPT ![t] = Genesis]

\* Mutant of Save: the WAL is cleared before the chain file is written.
SaveClearsWal(t) ==
  /\ pc[t] = "save"
  /\ hot' = Capped(hot) /\ cold' = cold \o Archived(hot)
  /\ dirty' = TRUE /\ wal' = Genesis
  /\ Returned(t)
  /\ UNCHANGED <<seqs, file, dump, faults, overlapped, raced, forgot>>

\* Mutant of Save: what memory cannot hold is not archived.
SaveDrops(t) ==
  /\ pc[t] = "save"
  /\ hot' = Capped(hot)
  /\ dirty' = TRUE
  /\ Returned(t)
  /\ UNCHANGED <<seqs, cold, disk, dump, faults, overlapped, raced, forgot>>

\* Mutant of Save: memory holds whatever comes.
SaveKeepsAll(t) ==
  /\ pc[t] = "save"
  /\ dirty' = TRUE
  /\ Returned(t)
  /\ UNCHANGED <<ledger, disk, dump, faults, overlapped, raced, forgot>>

\* _save: the overflow is archived, the change is marked and a Timer is armed
\* unless one is alive.
Save(t) ==
  /\ pc[t] = "save"
  /\ hot' = Capped(hot) /\ cold' = cold \o Archived(hot)
  /\ dirty' = TRUE
  /\ Returned(t)
  /\ UNCHANGED <<seqs, disk, dump, faults, overlapped, raced, forgot>>

\* apply_fork: a longer continuation of an event of the hot chain, not deeper
\* than the chain lock, in which every author's sequence grows ...
BeginFork(t, n, entries) ==
  LET forked == SubSeq(hot, 1, n) \o EventsAfter(hot[n], hot[n] \o entries)
  IN /\ Len(hot) - n <= LockDepth /\ Len(entries) > Len(hot) - n
     /\ \A i \in DOMAIN entries :
          entries[i][2] > Rebuilt(SubSeq(forked, 1, n + i - 1))[entries[i][1]]
     /\ dump' = [dump EXCEPT ![t] = [cold |-> cold, hot |-> forked]]
     /\ Begin(t, "fork") /\ UNCHANGED work

\* ... replaces the chain, with whatever has been added to it meanwhile.
ApplyFork(t) ==
  /\ pc[t] = "fork"
  /\ hot' = dump[t].hot /\ dump' = [dump EXCEPT ![t] = Empty]
  /\ seqs' = Rebuilt(hot')
  /\ acked' = acked \ (ToSet(hot) \ ToSet(hot'))
  /\ raced' = (raced \/ UnderWay)
  /\ forgot' = (forgot \/ cold # <<>>)
  /\ Goto(t, "save")
  /\ UNCHANGED <<cold, disk, dirty, work, faults, overlapped>>

\* reset_chain, when a peer has nothing in common with a short chain: the
\* thread flushes the empty chain itself.
ResetChain(t) ==
  /\ pc[t] = "idle" /\ hot # <<>> /\ Len(hot) < ResetBelow
  /\ hot' = <<>> /\ seqs' = [a \in Authors |-> 0]
  /\ dirty' = TRUE /\ acked' = acked \ ToSet(hot)
  /\ overlapped' = (overlapped \/ \E u \in Writers : Busy(u))
  /\ raced' = (raced \/ UnderWay)
  /\ forgot' = (forgot \/ cold # <<>>)
  /\ Goto(t, "flush")
  /\ UNCHANGED <<cold, disk, work, dump, faults>>

\* _flush, in the Timer's thread or at a reset.
Wake == pc[Timer] = "sleep" /\ Goto(Timer, "flush")
        /\ UNCHANGED <<ledger, disk, dirty, work, dump, faults, history>>

StartFlush(t) ==
  /\ pc[t] = "flush"
  /\ dump' = [dump EXCEPT ![t] = IF dirty THEN [cold |-> cold, hot |-> hot] ELSE Empty]
  /\ raced' = (raced \/ \E u \in Writers : pc[u] = "push")
  /\ Goto(t, IF dirty THEN "write" ELSE "idle")
  /\ UNCHANGED <<ledger, disk, dirty, work, faults, acked, overlapped, forgot>>

WriteFile(t) ==
  /\ pc[t] = "write"
  /\ file' = dump[t] /\ dump' = [dump EXCEPT ![t] = Empty]
  /\ Goto(t, "clear")
  /\ UNCHANGED <<ledger, wal, dirty, work, faults, history>>

ClearDirty(t) ==
  /\ pc[t] = "clear"
  /\ dirty' = FALSE
  /\ Goto(t, "unlog")
  /\ UNCHANGED <<ledger, disk, work, dump, faults, history>>

ClearWal(t) ==
  /\ pc[t] = "unlog"
  /\ wal' = Genesis
  /\ Goto(t, "idle")
  /\ UNCHANGED <<ledger, file, dirty, work, dump, faults, history>>

\* _replay_wal: the event is on the chain file already or does not continue
\* it, and is dropped; or it is ingested, unless it has grown too old.  A chain
\* file of more than memory holds is rewritten first, and the log cleared.
Replayable ==
  /\ wal # Genesis /\ wal \notin ToSet(file.hot) /\ Front(wal) = HeadOf(file.hot)
  /\ Overflow(file.hot) = 0
Recovered == IF Replayable THEN Append(file.hot, wal) ELSE file.hot

\* _load, in a new process.  An event of the log that ingest refuses, because
\* its timestamp has left the freshness window, sends the node to genesis.
Load(chain) ==
  /\ hot' = Capped(chain) /\ cold' = file.cold \o Archived(chain)
  /\ seqs' = Rebuilt(chain)
  /\ file' = IF chain = <<>> THEN file ELSE [cold |-> cold', hot |-> hot']
  /\ wal' = Genesis
  /\ dirty' = FALSE
  /\ pc' = [t \in Threads |->
             IF t = Timer /\ Len(chain) > Len(file.hot) THEN "sleep" ELSE "idle"]
  /\ work' = [t \in Writers |-> Genesis] /\ dump' = [t \in Threads |-> Empty]

Crash ==
  /\ faults > 0 /\ faults' = faults - 1
  /\ \/ Load(Recovered)
     \/ Replayable /\ Load(<<>>)
  /\ acked' = acked \cap ToSet(cold' \o hot')
  /\ raced' = FALSE /\ UNCHANGED overlapped
  /\ forgot' = (forgot \/ cold' # <<>>)

Flush(t) == StartFlush(t) \/ WriteFile(t) \/ ClearDirty(t) \/ ClearWal(t)

HCNext ==
  \/ \E t \in Appenders : WriteWal(t) \/ \E entry \in Entries : BeginAppend(t, entry)
  \/ \E t \in Ingesters :
       \/ ApplyFork(t) \/ ResetChain(t)
       \/ \E entry \in Entries : BeginIngest(t, entry)
       \/ \E n \in DOMAIN hot : \E k \in 1..(MaxEvents - Len(hot[n])) :
            \E entries \in [1..k -> Entries] : BeginFork(t, n, entries)
  \/ \E t \in Writers : Push(t) \/ Save(t)
  \/ \E t \in Threads : Flush(t)
  \/ Wake \/ Crash

HCSpec == HCInit /\ [][HCNext]_hcVars

-----------------------------------------------------------------------------
Events == UNION {[1..n -> Entries] : n \in 1..MaxEvents}

HCTypeOK ==
  /\ hot \in Seq(Events) /\ cold \in Seq(Events) /\ wal \in Events \cup {Genesis}
  /\ file \in [cold : Seq(Events), hot : Seq(Events)]
  /\ seqs \in [Authors -> 0..MaxSeq]
  /\ acked \subseteq Events
  /\ dirty \in BOOLEAN /\ overlapped \in BOOLEAN /\ raced \in BOOLEAN /\ forgot \in BOOLEAN
  /\ \A t \in Threads : pc[t] \in {"idle", "log", "push", "save", "fork", "sleep",
                                   "flush", "write", "clear", "unlog"}
  /\ (\A t \in Writers : ~Busy(t)) => Len(hot) <= MaxMemory

\* As long as no two threads write at once, the chain in memory is linked and
\* uses no author's sequence twice, and so is the whole ledger, archived
\* segments included, until something makes the node forget the archive:
\* through appends, ingests, forks, resets, spills, crashes and replays.
Increasing(chain) ==
  \A m, n \in DOMAIN chain :
    (m < n /\ By(chain[m]) = By(chain[n])) => Sequence(chain[m]) < Sequence(chain[n])
HCLedgerWhole ==
  ~overlapped =>
    /\ hot = <<>> \/ (LinkedFrom(Front(hot[1]), hot) /\ Increasing(hot))
    /\ ~forgot => LinkedFrom(Genesis, cold \o hot) /\ Increasing(cold \o hot)

\* The log does what it is kept for: when the last append is all that the
\* chain file lacks, a crash at any moment does not lose it, unless it came
\* while a flush was writing, another append has taken its place in the log, or
\* the file holds more than memory does, because it was written between the
\* step that extends the chain and the _save that archives the overflow.
HCLastAppendSurvives ==
  (/\ ~overlapped /\ ~raced
   /\ \A t \in Appenders : pc[t] # "push"
   /\ Overflow(file.hot) = 0
   /\ \E e \in acked \ ToSet(file.cold) : cold \o hot = Append(file.cold \o file.hot, e))
  => Recovered # <<>> /\ Last(Recovered) = Last(hot)

\* "The user never gets a silent data-loss window" (mesh_hashchain.py:1734):
\* a crash at any moment leaves every append that has returned.
HCAppendsSurvive == acked \subseteq ToSet(file.cold \o Recovered)
=============================================================================
