----------------------------- MODULE RelayFlush -----------------------------
(***************************************************************************)
(* How DMRelay (mesh_dm_relay.py) keeps its state on disk.  A call changes  *)
(* memory under the relay's lock and ends in _save, which marks the relay   *)
(* dirty and arms a Timer unless one is alive.  _flush runs in the Timer's  *)
(* thread, at exit or, while there is no file yet, in the caller, and takes *)
(* no lock: it copies some parts of the state, serialises the others later, *)
(* replaces the file and then clears the dirty mark.                        *)
(*                                                                          *)
(* A "change" is one effect of a call on a persisted part of the state (a   *)
(* nonce consumed, a block added or lifted, a key registered); memory and   *)
(* file are the sets of changes they reflect.  What a flush prunes because  *)
(* it has expired is pruned again by every load and is left out.            *)
(***************************************************************************)
EXTENDS Naturals, FiniteSets

CONSTANTS
  Changes,    \* what callers do to the relay's state
  Copied,     \* those to parts _flush copies (nonces, blocks, mailboxes)
  Late,       \* those saved after the lock is released (prekeys, aliases)
  Callers,    \* the API threads
  Timer,      \* the thread of _save_timer
  Exit,       \* the main thread running the atexit handler
  NoOne,      \* the lock is free
  MaxFaults   \* bound on failed flushes, unreadable files and kills together

ASSUME ChangesAssumption == Copied \subseteq Changes /\ Late \subseteq Changes \ Copied
ASSUME ThreadsAssumption ==
  /\ Timer \notin Callers /\ Exit \notin Callers /\ Timer # Exit
  /\ NoOne \notin Callers
ASSUME FaultsAssumption == MaxFaults \in Nat

Flushers == Callers \cup {Timer, Exit}

VARIABLES
  mem,     \* the changes memory reflects
  disk,    \* the changes the relay file reflects
  exists,  \* there is a relay file
  dirty,   \* DMRelay._dirty
  lock,    \* who holds DMRelay._lock
  pc,      \* where each thread is; a Timer that is "idle" is not alive
  fresh,   \* what each caller has changed and not marked yet
  snap,    \* what the payload of each flush reflects so far
  raced,   \* history: changes that came too late for a flush under way
  faults   \* failed flushes, unreadable files and kills still to come

relay == <<mem, dirty, lock, raced>>
file == <<disk, exists>>
vars == <<mem, disk, exists, dirty, lock, pc, fresh, snap, raced, faults>>

PC == {"idle", "mark", "test", "schedule", "sleep",
       "flush", "build", "encode", "replace", "clear", "end"}

\* The payload of f reflects the part ch belongs to and is still to be
\* followed by f's clearing of the dirty mark.
Passed(f, ch) ==
  \/ pc[f] \in {"replace", "clear"}
  \/ pc[f] = "encode" /\ ch \in Copied

Goto(t, l) == pc' = [pc EXCEPT ![t] = l]
Released(c) == IF lock = c THEN NoOne ELSE lock

-----------------------------------------------------------------------------
Init ==
  /\ mem = {} /\ disk = {}
  /\ exists \in BOOLEAN
  /\ dirty \in {FALSE, exists}
  /\ lock = NoOne
  /\ pc = [t \in Flushers |-> "idle"]
  /\ fresh = [c \in Callers |-> {}]
  /\ snap = [t \in Flushers |-> {}]
  /\ raced = {}
  /\ faults = MaxFaults

\* consume_nonce, block, register_prekey_bundle ...: the change to memory.
Call(c, ch) ==
  /\ pc[c] = "idle" /\ pc[Exit] = "idle" /\ lock = NoOne
  /\ ch \notin mem
  /\ mem' = mem \cup {ch}
  /\ lock' = IF ch \in Late THEN NoOne ELSE c
  /\ fresh' = [fresh EXCEPT ![c] = {ch}]
  /\ raced' = IF \E f \in Flushers : Passed(f, ch) THEN raced \cup {ch} ELSE raced \ {ch}
  /\ Goto(c, "mark")
  /\ UNCHANGED <<file, dirty, snap, faults>>

\* Mutant of Mark: no mark when a Timer is alive.
MarkUnlessTimer(c) ==
  /\ pc[c] = "mark"
  /\ dirty' = (dirty \/ pc[Timer] = "idle")
  /\ fresh' = [fresh EXCEPT ![c] = {}]
  /\ Goto(c, "test")
  /\ UNCHANGED <<mem, file, lock, snap, raced, faults>>

\* _save marks the relay dirty ...
Mark(c) ==
  /\ pc[c] = "mark"
  /\ dirty' = TRUE
  /\ fresh' = [fresh EXCEPT ![c] = {}]
  /\ Goto(c, "test")
  /\ UNCHANGED <<mem, file, lock, snap, raced, faults>>

\* ... writes at once if there is no file to update ...
Test(c) ==
  /\ pc[c] = "test"
  /\ Goto(c, IF exists THEN "schedule" ELSE "flush")
  /\ UNCHANGED <<relay, file, fresh, snap, faults>>

\* ... and arms a Timer unless one is alive.
Schedule(c) ==
  /\ pc[c] = "schedule" /\ lock \in {NoOne, c}
  /\ lock' = NoOne
  /\ pc' = [pc EXCEPT ![c] = "idle", ![Timer] = IF @ = "idle" THEN "sleep" ELSE @]
  /\ UNCHANGED <<mem, file, dirty, fresh, snap, raced, faults>>

Wake ==
  /\ pc[Timer] = "sleep"
  /\ Goto(Timer, "flush")
  /\ UNCHANGED <<relay, file, fresh, snap, faults>>

\* The interpreter joins the API threads before it runs the handler.
BeginExit ==
  /\ pc[Exit] = "idle" /\ \A c \in Callers : pc[c] = "idle"
  /\ Goto(Exit, "flush")
  /\ UNCHANGED <<relay, file, fresh, snap, faults>>

\* Mutant of StartFlush: a flush that finds the lock taken gives up.
StartFlushIfFree(f) ==
  /\ pc[f] = "flush"
  /\ Goto(f, IF dirty /\ lock \in {NoOne, f} THEN "build" ELSE "end")
  /\ UNCHANGED <<relay, file, fresh, snap, faults>>

\* _flush, by any of the threads, with no lock of its own.
StartFlush(f) ==
  /\ pc[f] = "flush"
  /\ Goto(f, IF dirty THEN "build" ELSE "end")
  /\ UNCHANGED <<relay, file, fresh, snap, faults>>

\* Mutant of Build: the flush takes the lock and forgets to release it.
BuildLocked(f) ==
  /\ pc[f] = "build" /\ lock \in {NoOne, f}
  /\ lock' = f
  /\ snap' = [snap EXCEPT ![f] = mem \cap Copied]
  /\ Goto(f, "encode")
  /\ UNCHANGED <<mem, file, dirty, fresh, raced, faults>>

\* The payload is built with copies of some parts and references to others.
Build(f) ==
  /\ pc[f] = "build"
  /\ snap' = [snap EXCEPT ![f] = mem \cap Copied]
  /\ Goto(f, "encode")
  /\ UNCHANGED <<relay, file, fresh, faults>>

\* write_secure_json serialises it ...
Encode(f) ==
  /\ pc[f] = "encode"
  /\ snap' = [snap EXCEPT ![f] = @ \cup (mem \ Copied)]
  /\ Goto(f, "replace")
  /\ UNCHANGED <<relay, file, fresh, faults>>

\* Mutant of Replace: the file gets what is new since the last one.
ReplaceByDelta(f) ==
  /\ pc[f] = "replace"
  /\ disk' = snap[f] \ disk /\ exists' = TRUE
  /\ Goto(f, "clear")
  /\ UNCHANGED <<relay, fresh, snap, faults>>

\* ... and replaces the file in one step.
Replace(f) ==
  /\ pc[f] = "replace"
  /\ disk' = snap[f] /\ exists' = TRUE
  /\ Goto(f, "clear")
  /\ UNCHANGED <<relay, fresh, snap, faults>>

Clear(f) ==
  /\ pc[f] = "clear"
  /\ dirty' = FALSE
  /\ Goto(f, "end")
  /\ UNCHANGED <<mem, file, lock, fresh, snap, raced, faults>>

\* A disk error, or a dictionary that changes while the build iterates it:
\* the failure is logged, the relay stays dirty and no Timer is armed.
FlushFails(f) ==
  /\ pc[f] \in {"build", "encode", "replace"}
  /\ faults > 0 /\ faults' = faults - 1
  /\ Goto(f, "end")
  /\ UNCHANGED <<relay, file, fresh, snap>>

\* The call returns, or the Timer's thread ends.
Return(f) ==
  /\ f # Exit /\ pc[f] = "end"
  /\ lock' = Released(f)
  /\ Goto(f, "idle")
  /\ UNCHANGED <<mem, file, dirty, fresh, snap, raced, faults>>

\* A new process: _load marks the relay dirty if it migrated or pruned
\* something, and starts empty if the file cannot be read.
Load(changes) ==
  /\ mem' = changes
  /\ dirty' \in {FALSE, exists}
  /\ lock' = NoOne
  /\ pc' = [t \in Flushers |-> "idle"]
  /\ snap' = [t \in Flushers |-> {}]
  /\ fresh' = [c \in Callers |-> {}]
  /\ UNCHANGED <<file, raced>>

EndExit == pc[Exit] = "end" /\ Load(disk) /\ UNCHANGED faults

\* The process is killed, or its successor cannot read the file.
Kill ==
  /\ faults > 0 /\ faults' = faults - 1
  /\ \E changes \in {disk, {}} : Load(changes)

Step(f) ==
  \/ StartFlush(f) \/ Build(f) \/ Encode(f) \/ Replace(f) \/ Clear(f)
  \/ Return(f)
CallerStep(c) == Mark(c) \/ Test(c) \/ Schedule(c) \/ Step(c)

Next ==
  \/ \E c \in Callers : CallerStep(c) \/ \E ch \in Changes : Call(c, ch)
  \/ Wake \/ BeginExit \/ EndExit \/ Kill
  \/ \E f \in {Timer, Exit} : Step(f)
  \/ \E f \in Flushers : FlushFails(f)

Spec == Init /\ [][Next]_vars

\* Threads keep running; nobody has to call or to shut down.
FairSpec ==
  /\ Spec
  /\ \A c \in Callers : WF_vars(CallerStep(c))
  /\ WF_vars(Wake \/ Step(Timer))
  /\ WF_vars(EndExit \/ Step(Exit))

-----------------------------------------------------------------------------
TypeOK ==
  /\ mem \subseteq Changes /\ disk \subseteq Changes /\ raced \subseteq Changes
  /\ exists \in BOOLEAN /\ dirty \in BOOLEAN
  /\ lock \in Callers \cup {NoOne}
  /\ pc \in [Flushers -> PC]
  /\ fresh \in [Callers -> SUBSET Changes]
  /\ snap \in [Flushers -> SUBSET Changes]
  /\ faults \in Nat

\* The changes that their callers are about to mark.
Unmarked == UNION {fresh[c] : c \in Callers}

\* A relay that is not marked dirty has everything on disk, but for the
\* changes that came between a flush's payload and its clearing of the mark:
\* however the unlocked flushes of the Timer, the exit handler and the callers
\* overlap, no other change is forgotten.
NothingForgotten == ~dirty => mem \ (raced \cup Unmarked) \subseteq disk

\* Of two flushes that overlap the one with the older payload may write last:
\* of what memory still holds it takes only those changes off the disk that
\* were made after its payload was.
OlderPayloadIsHarmless == [][(disk \cap mem) \ raced \subseteq disk']_vars

\* The change will be or is being taken care of by a Timer that is still
\* waiting for its 5 seconds, or by the exit handler.
Covered(ch) ==
  /\ dirty /\ pc[Timer] = "sleep" /\ pc[Exit] \in {"idle", "flush"}
  /\ ch \in mem \ (raced \cup Unmarked)

\* What is dirty while a Timer waits gets to the disk, whoever else flushes or
\* shuts the process down meanwhile, unless a flush fails or the process is
\* killed.
TimerSaves ==
  \A ch \in Changes, n \in 0..MaxFaults :
    (Covered(ch) /\ faults = n) ~> (ch \in disk \/ faults < n)
=============================================================================
