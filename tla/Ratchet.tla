------------------------------- MODULE Ratchet -------------------------------
(***************************************************************************)
(* The double ratchet of the legacy DM format (mesh_wormhole_ratchet.py),   *)
(* as two agents who write to each other run it.  The handlers call it from *)
(* the event loop without awaiting, so a call is one action; the state is   *)
(* saved before the message is known to decrypt, and kept if it does not.   *)
(*                                                                          *)
(* Keys are symbolic: a DH key is <<agent, number>>, the long-term one has  *)
(* number 0; a DH secret is the set of two such keys; a root key, and the   *)
(* first key of a chain, is the sequence of the secrets that went into it;  *)
(* a message key is a chain and a place in it.                              *)
(***************************************************************************)
EXTENDS Integers, FiniteSets, Sequences, SequencesExt

CONSTANTS
  Agents,       \* the two agents
  MaxSkip,      \* MAX_SKIP
  MaxSent,      \* bound on messages
  MaxReceipts,  \* bound on arrivals, duplicates included
  MaxResets     \* bound on resets

ASSUME RatchetAssumption ==
  /\ IsFiniteSet(Agents) /\ Cardinality(Agents) = 2
  /\ {MaxSkip, MaxSent, MaxReceipts, MaxResets} \subseteq Nat

VARIABLES
  session,   \* each agent's state for the other, NoSession if there is none
  keys,      \* how many DH keys each agent has made
  sent,      \* the messages, in the order they were made
  receipts,  \* arrivals still to come
  resets,    \* resets still to come
  received,  \* history: the messages that have arrived
  failed,    \* history: those that did not decrypt at some arrival
  disturbed, \* history: those that arrived when a failure had to be expected
  spoiled,   \* history: the chains of which a key may be lost
  era,       \* history: how often both agents have started anew
  broken     \* history: the two roots may differ

rtHistory == <<received, failed, disturbed, spoiled, era, broken>>
rtVars == <<session, keys, sent, receipts, resets, rtHistory>>

Peer(a) == CHOOSE b \in Agents : b # a
LongTerm(a) == <<a, 0>>
NoChain == <<>>
NoSession == [root |-> NoChain]
Fresh(a) == <<a, keys[a] + 1>>
DH(k, l) == {k, l}

-----------------------------------------------------------------------------
\* _init_sender_state.
SenderState(a) ==
  LET root == <<DH(Fresh(a), LongTerm(Peer(a)))>>
  IN [root |-> root, sending |-> root, receiving |-> NoChain, self |-> Fresh(a),
      remote |-> LongTerm(Peer(a)), ns |-> 0, nr |-> 0, pn |-> 0, skipped |-> {}]

\* _init_receiver_state.
ReceiverState(a, dh) ==
  LET root == <<DH(LongTerm(a), dh)>>
  IN [root |-> root, sending |-> NoChain, receiving |-> root, self |-> Fresh(a),
      remote |-> dh, ns |-> 0, nr |-> 0, pn |-> 0, skipped |-> {}]

\* _ensure_send_chain.
WithSendChain(s) ==
  LET root == Append(s.root, DH(s.self, s.remote))
  IN IF s.sending # NoChain THEN s ELSE [s EXCEPT !.root = root, !.sending = root]

\* Mutant of Skip: the keys of messages that have not come are not kept.
SkipForgets(s, until) ==
  IF s.receiving = NoChain \/ s.nr >= until THEN s ELSE [s EXCEPT !.nr = until]

\* What is kept once the receiving chain has passed the keys before m.
KeysUpTo(s, m) ==
  LET passed == {[at |-> <<s.remote, n>>, key |-> <<s.receiving, n>>] : n \in s.nr..(m - 1)}
  IN {k \in s.skipped : \A p \in passed : k.at # p.at} \cup passed
Room(s, m) == Cardinality(KeysUpTo(s, m)) < MaxSkip

\* _skip_message_keys: the receiving chain advances to "until", and the keys it
\* passes are kept while there is room.
Skip(s, until) ==
  LET last == CHOOSE m \in s.nr..until : /\ \A n \in s.nr..(m - 1) : Room(s, n)
                                         /\ m < until => ~Room(s, m)
  IN IF s.receiving = NoChain \/ s.nr >= until THEN s
     ELSE [s EXCEPT !.nr = until, !.skipped = KeysUpTo(s, last)]

\* _dh_ratchet: what is missing of the previous chain is skipped, and the root
\* takes two steps.
DHRatchet(s, dh, pn, fresh) ==
  LET from == Append(s.root, DH(s.self, dh))
      to == Append(from, DH(fresh, dh))
  IN [Skip(s, pn) EXCEPT !.pn = s.ns, !.ns = 0, !.nr = 0, !.remote = dh,
                         !.receiving = from, !.self = fresh, !.root = to, !.sending = to]

-----------------------------------------------------------------------------
RTInit ==
  /\ session = [a \in Agents |-> NoSession]
  /\ keys = [a \in Agents |-> 0]
  /\ sent = <<>> /\ receipts = MaxReceipts /\ resets = MaxResets
  /\ received = {} /\ failed = {} /\ disturbed = {} /\ spoiled = {}
  /\ era = 0 /\ broken = FALSE

\* encrypt_wormhole_dm.  Two agents who both write first have different roots.
Encrypt(a) ==
  LET new == session[a] = NoSession
      s == WithSendChain(IF new THEN SenderState(a) ELSE session[a])
  IN /\ Len(sent) < MaxSent
     /\ sent' = Append(sent, [from |-> a, dh |-> s.self, pn |-> s.pn, n |-> s.ns,
                              key |-> <<s.sending, s.ns>>, era |-> era])
     /\ session' = [session EXCEPT ![a] = [s EXCEPT !.ns = @ + 1]]
     /\ keys' = IF new THEN [keys EXCEPT ![a] = @ + 1] ELSE keys
     /\ broken' = (broken \/ (new /\ session[Peer(a)] # NoSession))
     /\ UNCHANGED <<receipts, resets, received, failed, disturbed, spoiled, era>>

\* The messages to a of which m is aware and that have not come when it has.
Missing(m) ==
  {k \in (1..m) \ (received \cup {m}) : sent[k].from = sent[m].from /\ sent[k].era = era}

\* The message is of an earlier chain than one that has come, or of a session
\* that has been reset.
Late(m) ==
  \/ sent[m].era # era
  \/ \E k \in received : sent[k].from = sent[m].from /\ sent[k].dh[2] > sent[m].dh[2]

\* decrypt_wormhole_dm: message m comes to its recipient, perhaps again.
Decrypt(m) ==
  LET a == Peer(sent[m].from)
      msg == sent[m]
      new == session[a] = NoSession
      s == IF new THEN ReceiverState(a, msg.dh) ELSE session[a]
      turns == msg.dh # s.remote
      t == IF turns THEN DHRatchet(s, msg.dh, msg.pn, Fresh(a)) ELSE s
      kept == {k \in t.skipped : k.at = <<msg.dh, msg.n>>}
      u == Skip(t, msg.n)
      ok == IF kept # {} THEN \E k \in kept : k.key = msg.key
            ELSE <<u.receiving, u.nr>> = msg.key
      lost == IF Cardinality(Missing(m)) > MaxSkip THEN {sent[k].dh : k \in Missing(m)} ELSE {}
  IN /\ receipts > 0 /\ receipts' = receipts - 1
     /\ session' = [session EXCEPT ![a] =
                      IF kept # {} THEN [t EXCEPT !.skipped = @ \ kept]
                      ELSE [u EXCEPT !.nr = @ + 1]]
     /\ keys' = IF new \/ turns THEN [keys EXCEPT ![a] = @ + 1] ELSE keys
     /\ received' = received \cup {m}
     /\ failed' = IF ok THEN failed ELSE failed \cup {m}
     /\ broken' = (broken \/ Late(m))
     /\ spoiled' = spoiled \cup lost \cup (IF m \in received THEN {msg.dh} ELSE {})
     /\ disturbed' = IF broken \/ msg.era # era \/ msg.dh \in spoiled' THEN disturbed \cup {m} ELSE disturbed
     /\ UNCHANGED <<sent, resets, era>>

\* reset_wormhole_dm_ratchet, or a state file that cannot be read any more.
ResetSession(a) ==
  /\ resets > 0 /\ session[a] # NoSession /\ resets' = resets - 1
  /\ session' = [session EXCEPT ![a] = NoSession]
  /\ broken' = (session[Peer(a)] # NoSession)
  /\ era' = IF broken' THEN era ELSE era + 1
  /\ UNCHANGED <<keys, sent, receipts, received, failed, disturbed, spoiled>>

RTNext ==
  \/ \E a \in Agents : Encrypt(a) \/ ResetSession(a)
  \/ \E m \in DOMAIN sent : Decrypt(m)

RTSpec == RTInit /\ [][RTNext]_rtVars

-----------------------------------------------------------------------------
RTTypeOK ==
  /\ keys \in [Agents -> Nat]
  /\ \A a \in Agents : session[a] # NoSession =>
       /\ session[a].root \in Seq(SUBSET (Agents \X Nat))
       /\ session[a].self = <<a, keys[a]>>
       /\ session[a].ns \in 0..MaxSent /\ session[a].nr \in Nat
       /\ Cardinality(session[a].skipped) <= MaxSkip
  /\ failed \subseteq received /\ received \subseteq DOMAIN sent
  /\ spoiled \subseteq Agents \X Nat

\* Messages may be lost, and those of one chain may come in any order: each is
\* read when it comes, also in the sessions after both agents have reset,
\* except in a chain of which a message came twice or more messages were
\* missing than are kept, and in a session in which both wrote first, only one
\* has reset, or a message has come after one of a later chain.
RTReads == failed \subseteq disturbed
=============================================================================
