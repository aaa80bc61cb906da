---------------------------- MODULE RatchetProofs ----------------------------
(***************************************************************************)
(* What holds of Ratchet for any two agents, and any number of messages,    *)
(* arrivals and resets.  The types are inductive once a session's skipped   *)
(* keys are known to be finitely many and no more than MaxSkip, which is    *)
(* what SkipAdvances says of _skip_message_keys.                            *)
(*                                                                          *)
(* That messages are read (RTReads) rests on Together: while no exception   *)
(* has arisen, either neither agent has a session, or one has written and   *)
(* nothing has come (WroteFirst), or both have a session and form a Pair.   *)
(* In a Pair each agent reads one of the other's chains (Listens), holds    *)
(* the keys of exactly what it has passed and not received (Keeps), and one *)
(* of the two is at most one chain ahead of what the other reads (Linked,   *)
(* Ahead, Answering).                                                       *)
(***************************************************************************)
EXTENDS Ratchet, FiniteSetTheorems, SequenceTheorems, WellFoundedInduction, TLAPS

Secrets == SUBSET (Agents \X Nat)
Chains == Seq(Secrets)
Places == (Agents \X Nat) \X Nat
Skipped == [at : Places, key : Chains \X Nat]
State ==
  [root : Chains, sending : Chains, receiving : Chains, self : Agents \X Nat,
   remote : Agents \X Nat, ns : Nat, nr : Nat, pn : Nat, skipped : SUBSET Skipped]
Message == [from : Agents, dh : Agents \X Nat, pn : Nat, n : Nat, key : Chains \X Nat, era : Nat]

\* A session holds the key its agent made last, and counts what it has sent.
Held(s) == IsFiniteSet(s.skipped) /\ Cardinality(s.skipped) <= MaxSkip
RTSessions ==
  /\ session \in [Agents -> State \cup {NoSession}]
  /\ keys \in [Agents -> Nat]
  /\ \A a \in Agents : session[a] # NoSession =>
       session[a].self = <<a, keys[a]>> /\ session[a].ns <= Len(sent) /\ Held(session[a])
RTMessages == sent \in Seq(Message) /\ Len(sent) <= MaxSent /\ era \in Nat
RTMarks == failed \subseteq received /\ received \subseteq DOMAIN sent /\ spoiled \subseteq Agents \X Nat
RTTypes == RTSessions /\ RTMessages /\ RTMarks

-----------------------------------------------------------------------------
\* The other agent is one of the two.
LEMMA PeerIsOther == \A a \in Agents : Peer(a) \in Agents /\ Peer(a) # a
<1> SUFFICES ASSUME NEW a \in Agents PROVE \E b \in Agents : b # a
  BY DEF Peer
<1>1. Cardinality(Agents) = 2 /\ Cardinality({a}) = 1
  BY FS_Singleton, RatchetAssumption DEF RatchetAssumption
<1> QED
  BY <1>1

\* There is a first number that is not in a set, if there is one at all.
LEMMA FirstExists ==
  ASSUME NEW S \in SUBSET Nat, S # {}
  PROVE  \E n \in S : \A k \in S : n <= k
<1>1. PICK n \in S : \A k \in S : ~(<<k, n>> \in OpToRel(<, Nat))
  BY NatLessThanWellFounded, WFMin, Zenon
<1>2. \A k \in S : ~(k < n)
  BY <1>1, Zenon DEF OpToRel
<1> QED
  BY <1>2

\* Passing one more key adds at most that key to those that are kept.
Passed(s, m) == {[at |-> <<s.remote, n>>, key |-> <<s.receiving, n>>] : n \in s.nr..(m - 1)}
LEMMA KeysAre ==
  ASSUME NEW s, NEW m
  PROVE  KeysUpTo(s, m) =
           {k \in s.skipped : \A p \in Passed(s, m) : k.at # p.at} \cup Passed(s, m)
  BY DEF KeysUpTo, Passed

LEMMA OneMorePassed ==
  ASSUME NEW s \in State, IsFiniteSet(s.skipped), NEW m \in Nat, s.nr <= m
  PROVE  /\ IsFiniteSet(KeysUpTo(s, m)) /\ KeysUpTo(s, m) \subseteq Skipped
         /\ Cardinality(KeysUpTo(s, m)) \in Nat
         /\ Cardinality(KeysUpTo(s, m + 1)) <= Cardinality(KeysUpTo(s, m)) + 1
<1> DEFINE key(n) == [at |-> <<s.remote, n>>, key |-> <<s.receiving, n>>]
<1>0. s.nr \in Nat /\ s.skipped \subseteq Skipped /\ s.remote \in Agents \X Nat /\ s.receiving \in Chains
  BY DEF State
<1>1. ASSUME NEW i \in Nat, s.nr <= i
      PROVE  IsFiniteSet(KeysUpTo(s, i)) /\ KeysUpTo(s, i) \subseteq Skipped
  <2> DEFINE f == [n \in s.nr..(i - 1) |-> key(n)]
  <2>1. IsFiniteSet(s.nr..(i - 1))
    <3>1. \A b, e \in Int : IsFiniteSet(b..e)
      BY FS_Interval
    <3>2. s.nr \in Int /\ i - 1 \in Int
      BY <1>0
    <3> QED
      BY <3>1, <3>2, Zenon
  <2>2. IsFiniteSet(Passed(s, i))
    <3>1. f \in Surjection(s.nr..(i - 1), Passed(s, i))
      BY DEF Surjection, Passed
    <3> QED
      BY <2>1, <3>1, FS_Surjection
  <2>3. IsFiniteSet(s.skipped \cup Passed(s, i))
    BY <2>2, FS_Union
  <2>4. KeysUpTo(s, i) \subseteq s.skipped \cup Passed(s, i)
    BY KeysAre
  <2>5. Passed(s, i) \subseteq Skipped
    <3>1. \A n \in s.nr..(i - 1) : n \in Nat
      BY <1>0
    <3> QED
      BY <1>0, <3>1 DEF Passed, Skipped, Places
  <2> QED
    BY <1>0, <2>3, <2>4, <2>5, FS_Subset
<1>2. Passed(s, m + 1) = Passed(s, m) \cup {key(m)}
  <2>1. s.nr..((m + 1) - 1) = (s.nr..(m - 1)) \cup {m}
    BY <1>0
  <2> QED
    BY <2>1 DEF Passed
<1>3. KeysUpTo(s, m + 1) \subseteq KeysUpTo(s, m) \cup {key(m)}
  BY <1>2, KeysAre
<1>7. PICK next : next = key(m)
  OBVIOUS
<1> HIDE DEF key
<1>4. /\ IsFiniteSet(KeysUpTo(s, m) \cup {key(m)})
      /\ Cardinality(KeysUpTo(s, m) \cup {key(m)}) <= Cardinality(KeysUpTo(s, m)) + 1
  <2>1. IsFiniteSet(KeysUpTo(s, m)) /\ Cardinality(KeysUpTo(s, m)) \in Nat
    BY <1>1, FS_CardinalityType
  <2>2. /\ IsFiniteSet(KeysUpTo(s, m) \cup {next})
        /\ Cardinality(KeysUpTo(s, m) \cup {next}) =
             IF next \in KeysUpTo(s, m) THEN Cardinality(KeysUpTo(s, m))
             ELSE Cardinality(KeysUpTo(s, m)) + 1
    BY <2>1, FS_AddElement
  <2> QED
    BY <1>7, <2>1, <2>2
<1>5. Cardinality(KeysUpTo(s, m + 1)) <= Cardinality(KeysUpTo(s, m) \cup {key(m)})
  BY <1>3, <1>4, FS_Subset
<1>6. Cardinality(KeysUpTo(s, m)) \in Nat /\ Cardinality(KeysUpTo(s, m + 1)) \in Nat
      /\ Cardinality(KeysUpTo(s, m) \cup {key(m)}) \in Nat
  <2>1. m + 1 \in Nat /\ s.nr <= m + 1
    BY <1>0
  <2>2. IsFiniteSet(KeysUpTo(s, m)) /\ IsFiniteSet(KeysUpTo(s, m + 1))
    BY <1>1, <2>1
  <2> QED
    BY <1>4, <2>2, FS_CardinalityType
<1> QED
  BY <1>1, <1>4, <1>5, <1>6

\* _skip_message_keys never keeps more than MAX_SKIP keys, and changes nothing
\* but the keys and the counter.
Advanced(s, t, until) ==
  /\ t \in State /\ Held(t) /\ (t = s \/ t.nr = until)
  /\ t = [s EXCEPT !.nr = t.nr, !.skipped = t.skipped]
LEMMA SkipAdvances ==
  ASSUME NEW s \in State, Held(s), NEW until \in Nat
  PROVE  Advanced(s, Skip(s, until), until)
<1>0. s.nr \in Nat /\ IsFiniteSet(s.skipped) /\ Cardinality(s.skipped) <= MaxSkip /\ MaxSkip \in Nat
  BY RatchetAssumption DEF RatchetAssumption, Held, State
<1>1. CASE s.receiving = NoChain \/ s.nr >= until
  BY <1>1 DEF Skip, Advanced, State
<1>2. CASE ~(s.receiving = NoChain \/ s.nr >= until)
  <2> DEFINE Stops(m) == (\A n \in s.nr..(m - 1) : Room(s, n)) /\ (m < until => ~Room(s, m))
             last == CHOOSE m \in s.nr..until : Stops(m)
             full == {m \in Nat : m \in s.nr..until /\ ~Room(s, m)}
  <2>1. \E m \in s.nr..until : Stops(m)
    <3>1. CASE full = {}
      <4>1. \A n \in s.nr..(until - 1) : Room(s, n)
        BY <1>0, <3>1
      <4> QED
        BY <1>0, <1>2, <4>1
    <3>2. CASE full # {}
      <4>1. PICK m \in full : \A k \in full : m <= k
        BY <3>2, FirstExists
      <4>2. \A n \in s.nr..(m - 1) : n \in Nat /\ n \in s.nr..until /\ n < m
        BY <1>0, <4>1
      <4>3. \A n \in s.nr..(m - 1) : Room(s, n)
        BY <4>1, <4>2
      <4> QED
        BY <4>1, <4>3
    <3> QED
      BY <3>1, <3>2
  <2>2. last \in s.nr..until /\ Stops(last)
    BY <2>1
  <2>3. Skip(s, until) = [s EXCEPT !.nr = until, !.skipped = KeysUpTo(s, last)]
    BY <1>2 DEF Skip
  <2> HIDE DEF last
  <2>4. last \in Nat /\ s.nr <= last
    BY <1>0, <2>2
  <2>5. IsFiniteSet(KeysUpTo(s, last)) /\ KeysUpTo(s, last) \subseteq Skipped
    BY <1>0, <2>4, OneMorePassed
  <2>6. Cardinality(KeysUpTo(s, last)) <= MaxSkip
    <3>1. CASE last = s.nr
      <4>1. Passed(s, last) = {}
        BY <1>0, <3>1 DEF Passed
      <4>2. KeysUpTo(s, last) = s.skipped
        BY <4>1, KeysAre
      <4> QED
        BY <1>0, <4>2
    <3>2. CASE last # s.nr
      <4>1. last - 1 \in Nat /\ s.nr <= last - 1 /\ (last - 1) + 1 = last /\ last - 1 \in s.nr..(last - 1)
        BY <1>0, <2>4, <3>2
      <4>2. Cardinality(KeysUpTo(s, last - 1)) < MaxSkip
        BY <2>2, <4>1 DEF Room
      <4>3. PICK p : p = last - 1
        OBVIOUS
      <4>4. /\ Cardinality(KeysUpTo(s, p)) \in Nat
            /\ Cardinality(KeysUpTo(s, p + 1)) <= Cardinality(KeysUpTo(s, p)) + 1
        BY <1>0, <4>1, <4>3, OneMorePassed
      <4>5. Cardinality(KeysUpTo(s, last)) \in Nat
        BY <2>5, FS_CardinalityType
      <4> QED
        BY <1>0, <4>1, <4>2, <4>3, <4>4, <4>5
    <3> QED
      BY <3>1, <3>2
  <2> QED
    BY <2>3, <2>5, <2>6 DEF Advanced, State, Held
<1> QED
  BY <1>1, <1>2


-----------------------------------------------------------------------------
\* What the functions of the ratchet return are states that keep to the bound.
LEMMA NothingHeld == IsFiniteSet({}) /\ Cardinality({}) <= MaxSkip
  BY FS_EmptySet, RatchetAssumption DEF RatchetAssumption

LEMMA SecretTyped == \A k, l \in Agents \X Nat : DH(k, l) \in Secrets
  BY DEF DH, Secrets

LEMMA OneSecret == \A x \in Secrets : <<x>> \in Chains
  BY DEF Chains

LEMMA SenderTyped ==
  ASSUME keys \in [Agents -> Nat], NEW a \in Agents
  PROVE  LET s == SenderState(a) IN s \in State /\ Held(s) /\ s.self = Fresh(a) /\ s.ns = 0
<1>1. Fresh(a) \in Agents \X Nat /\ LongTerm(Peer(a)) \in Agents \X Nat
  BY PeerIsOther DEF Fresh, LongTerm
<1>2. <<DH(Fresh(a), LongTerm(Peer(a)))>> \in Chains /\ NoChain \in Chains
  BY <1>1, SecretTyped, OneSecret DEF Chains, NoChain
<1> QED
  BY <1>1, <1>2, NothingHeld DEF SenderState, State, Held

LEMMA ReceiverTyped ==
  ASSUME keys \in [Agents -> Nat], NEW a \in Agents, NEW dh \in Agents \X Nat
  PROVE  LET s == ReceiverState(a, dh)
         IN s \in State /\ Held(s) /\ s.self = Fresh(a) /\ s.ns = 0 /\ s.remote = dh
<1>1. Fresh(a) \in Agents \X Nat /\ LongTerm(a) \in Agents \X Nat
  BY DEF Fresh, LongTerm
<1>2. <<DH(LongTerm(a), dh)>> \in Chains /\ NoChain \in Chains
  BY <1>1, SecretTyped, OneSecret DEF Chains, NoChain
<1> QED
  BY <1>1, <1>2, NothingHeld DEF ReceiverState, State, Held

LEMMA SendChainTyped ==
  ASSUME NEW s \in State
  PROVE  LET t == WithSendChain(s)
         IN t \in State /\ t = [s EXCEPT !.root = t.root, !.sending = t.sending]
<1>1. DH(s.self, s.remote) \in Secrets /\ s.root \in Chains
  BY SecretTyped DEF State
<1>2. Append(s.root, DH(s.self, s.remote)) \in Chains
  BY <1>1 DEF Chains
<1> QED
  BY <1>2 DEF WithSendChain, State

Turned(t, fresh) == t \in State /\ Held(t) /\ t.self = fresh /\ t.ns = 0
LEMMA RatchetTyped ==
  ASSUME NEW s \in State, Held(s), NEW dh \in Agents \X Nat, NEW pn \in Nat,
         NEW fresh \in Agents \X Nat
  PROVE  Turned(DHRatchet(s, dh, pn, fresh), fresh)
<1> DEFINE from == Append(s.root, DH(s.self, dh))
           to == Append(from, DH(fresh, dh))
           p == Skip(s, pn)
<1>1. s.root \in Chains /\ s.ns \in Nat /\ DH(s.self, dh) \in Secrets /\ DH(fresh, dh) \in Secrets
  BY SecretTyped DEF State
<1>2. from \in Chains /\ to \in Chains
  BY <1>1 DEF Chains
<1>3. p \in State /\ Held(p)
  BY SkipAdvances DEF Advanced
<1>4. DHRatchet(s, dh, pn, fresh) =
        [p EXCEPT !.pn = s.ns, !.ns = 0, !.nr = 0, !.remote = dh,
                  !.receiving = from, !.self = fresh, !.root = to, !.sending = to]
  BY DEF DHRatchet
<1> HIDE DEF from, to, p
<1>5. PICK t : t = DHRatchet(s, dh, pn, fresh)
  OBVIOUS
<1>6. p.skipped \subseteq Skipped
  BY <1>3 DEF State
<1>7. t = [root |-> to, sending |-> to, receiving |-> from, self |-> fresh, remote |-> dh,
           ns |-> 0, nr |-> 0, pn |-> s.ns, skipped |-> p.skipped]
  BY <1>3, <1>4, <1>5 DEF State
<1>8. t \in State /\ t.self = fresh /\ t.ns = 0 /\ t.skipped = p.skipped
  BY <1>1, <1>2, <1>6, <1>7 DEF State
<1> QED
  BY <1>3, <1>5, <1>8 DEF Held, Turned

-----------------------------------------------------------------------------
\* Every step keeps the state within its types.
LEMMA EncryptTyped ==
  ASSUME RTTypes, NEW a \in Agents, Encrypt(a)
  PROVE  RTTypes'
<1> DEFINE new == session[a] = NoSession
           base == IF new THEN SenderState(a) ELSE session[a]
           s == WithSendChain(base)
           msg == [from |-> a, dh |-> s.self, pn |-> s.pn, n |-> s.ns,
                   key |-> <<s.sending, s.ns>>, era |-> era]
<1>0. keys \in [Agents -> Nat] /\ session \in [Agents -> State \cup {NoSession}] /\ Len(sent) \in Nat
  BY DEF RTTypes, RTSessions, RTMessages
<1>1. /\ base \in State /\ Held(base) /\ base.ns \in Nat /\ base.ns <= Len(sent)
      /\ base.self = <<a, IF new THEN keys[a] + 1 ELSE keys[a]>>
  <2>1. CASE new
    BY <1>0, <2>1, SenderTyped DEF Fresh
  <2>2. CASE ~new
    <3>1. base = session[a] /\ base \in State
      BY <1>0, <2>2
    <3> QED
      BY <2>2, <3>1 DEF RTTypes, RTSessions, State
  <2> QED
    BY <2>1, <2>2
<1>2. s \in State /\ s = [base EXCEPT !.root = s.root, !.sending = s.sending]
  BY <1>1, SendChainTyped
<1>3. /\ Len(sent) < MaxSent /\ sent' = Append(sent, msg)
      /\ session' = [session EXCEPT ![a] = [s EXCEPT !.ns = @ + 1]]
      /\ keys' = IF new THEN [keys EXCEPT ![a] = @ + 1] ELSE keys
      /\ UNCHANGED <<receipts, resets, received, failed, disturbed, spoiled, era>>
  BY DEF Encrypt
<1> HIDE DEF s, base
<1>4. s.self = base.self /\ s.ns = base.ns /\ s.skipped = base.skipped
  BY <1>1, <1>2 DEF State
<1>5. RTMessages'
  <2>1. msg \in Message /\ sent \in Seq(Message) /\ era' = era /\ era \in Nat
    BY <1>2, <1>3 DEF Message, State, RTTypes, RTMessages
  <2> HIDE DEF msg
  <2>2. sent' \in Seq(Message) /\ Len(sent') = Len(sent) + 1
    BY <1>3, <2>1
  <2>3. MaxSent \in Nat
    BY RatchetAssumption DEF RatchetAssumption
  <2> QED
    BY <1>0, <1>3, <2>1, <2>2, <2>3 DEF RTMessages
<1>6. sent \in Seq(Message) /\ Len(sent') = Len(sent) + 1 /\ DOMAIN sent \subseteq DOMAIN sent'
  <2>1. sent \in Seq(Message) /\ sent' \in Seq(Message)
    BY <1>5 DEF RTTypes, RTMessages
  <2>2. Len(sent') = Len(sent) + 1
    BY <1>3, <2>1
  <2> QED
    BY <2>1, <2>2
<1>7. RTSessions'
  <2> DEFINE t == [s EXCEPT !.ns = @ + 1]
  <2>1. t \in State /\ t.self = base.self /\ t.ns = base.ns + 1 /\ t.skipped = base.skipped
    BY <1>1, <1>2, <1>4 DEF State
  <2>2. session' = [session EXCEPT ![a] = t]
    BY <1>3
  <2> HIDE DEF t
  <2>3. Held(t)
    BY <1>1, <2>1 DEF Held
  <2>4. session' \in [Agents -> State \cup {NoSession}] /\ keys' \in [Agents -> Nat]
    <3>1. session' \in [Agents -> State \cup {NoSession}]
      BY <1>0, <2>1, <2>2
    <3>2. keys' \in [Agents -> Nat]
      BY <1>0, <1>3
    <3> QED
      BY <3>1, <3>2
  <2>5. t.self = <<a, keys'[a]>> /\ t.ns <= Len(sent')
    BY <1>0, <1>1, <1>3, <1>6, <2>1
  <2>6. ASSUME NEW b \in Agents, session'[b] # NoSession
        PROVE  session'[b].self = <<b, keys'[b]>> /\ session'[b].ns <= Len(sent') /\ Held(session'[b])
    <3>1. CASE b = a
      BY <1>0, <2>2, <2>3, <2>5, <3>1
    <3>2. CASE b # a
      <4>1. session'[b] = session[b] /\ keys'[b] = keys[b]
        BY <1>0, <1>3, <2>2, <3>2
      <4>2. session[b] \in State
        BY <1>0, <2>6, <4>1
      <4>3. session[b].self = <<b, keys[b]>> /\ session[b].ns <= Len(sent) /\ Held(session[b])
        BY <2>6, <4>1 DEF RTTypes, RTSessions
      <4>4. session[b].ns \in Nat
        BY <4>2 DEF State
      <4> QED
        BY <1>0, <1>6, <4>1, <4>3, <4>4
    <3> QED
      BY <3>1, <3>2
  <2> QED
    BY <2>4, <2>6 DEF RTSessions, Held
<1>8. RTMarks'
  BY <1>3, <1>6 DEF RTTypes, RTMarks
<1> QED
  BY <1>5, <1>7, <1>8 DEF RTTypes


LEMMA DecryptTyped ==
  ASSUME RTTypes, NEW m \in DOMAIN sent, Decrypt(m)
  PROVE  RTTypes'
<1> DEFINE a == Peer(sent[m].from)
           msg == sent[m]
           new == session[a] = NoSession
           s == IF new THEN ReceiverState(a, msg.dh) ELSE session[a]
           turns == msg.dh # s.remote
           t == IF turns THEN DHRatchet(s, msg.dh, msg.pn, Fresh(a)) ELSE s
           kept == {k \in t.skipped : k.at = <<msg.dh, msg.n>>}
           u == Skip(t, msg.n)
           lost == IF Cardinality(Missing(m)) > MaxSkip THEN {sent[k].dh : k \in Missing(m)} ELSE {}
           next == IF kept # {} THEN [t EXCEPT !.skipped = @ \ kept] ELSE [u EXCEPT !.nr = @ + 1]
<1>0. /\ keys \in [Agents -> Nat] /\ session \in [Agents -> State \cup {NoSession}]
      /\ sent \in Seq(Message) /\ Len(sent) \in Nat
  BY DEF RTTypes, RTSessions, RTMessages
<1>1. msg \in Message /\ msg.from \in Agents /\ msg.dh \in Agents \X Nat /\ msg.pn \in Nat /\ msg.n \in Nat
  <2>1. msg \in Message
    BY <1>0
  <2> QED
    BY <2>1 DEF Message
<1>2. a \in Agents
  BY <1>1, PeerIsOther
<1>3. /\ session' = [session EXCEPT ![a] = next]
      /\ keys' = IF new \/ turns THEN [keys EXCEPT ![a] = @ + 1] ELSE keys
      /\ received' = received \cup {m}
      /\ failed' \subseteq failed \cup {m}
      /\ spoiled' \subseteq spoiled \cup lost \cup {msg.dh}
      /\ UNCHANGED <<sent, resets, era>>
  BY DEF Decrypt
<1> HIDE DEF a, msg
<1>4. /\ s \in State /\ Held(s) /\ s.ns \in Nat /\ s.ns <= Len(sent)
      /\ s.self = <<a, IF new THEN keys[a] + 1 ELSE keys[a]>> /\ (new => ~turns)
  <2>1. CASE new
    BY <1>0, <1>1, <1>2, <2>1, ReceiverTyped DEF Fresh
  <2>2. CASE ~new
    <3>1. s = session[a] /\ s \in State
      BY <1>0, <1>2, <2>2
    <3> QED
      BY <1>2, <2>2, <3>1 DEF RTTypes, RTSessions, State
  <2> QED
    BY <2>1, <2>2
<1> HIDE DEF s
<1>5. /\ t \in State /\ Held(t) /\ t.ns \in Nat /\ t.ns <= Len(sent)
      /\ t.self = <<a, keys'[a]>>
  <2>1. CASE turns
    <3>1. Fresh(a) \in Agents \X Nat
      BY <1>0, <1>2 DEF Fresh
    <3>2. t = DHRatchet(s, msg.dh, msg.pn, Fresh(a))
      BY <2>1
    <3> HIDE DEF t
    <3>3. t \in State /\ Held(t) /\ t.self = Fresh(a) /\ t.ns = 0
      <4>1. Turned(DHRatchet(s, msg.dh, msg.pn, Fresh(a)), Fresh(a))
        BY <1>1, <1>4, <3>1, RatchetTyped
      <4> QED
        BY <3>2, <4>1 DEF Turned
    <3>4. keys'[a] = keys[a] + 1
      BY <1>0, <1>2, <1>3, <2>1
    <3> QED
      BY <1>0, <3>3, <3>4 DEF Fresh
  <2>2. CASE ~turns
    <3>1. t = s
      BY <2>2
    <3>2. keys'[a] = IF new THEN keys[a] + 1 ELSE keys[a]
      BY <1>0, <1>2, <1>3, <2>2
    <3> QED
      BY <1>4, <3>1, <3>2
  <2> QED
    BY <2>1, <2>2
<1> HIDE DEF t
<1>6. next \in State /\ Held(next) /\ next.ns = t.ns /\ next.self = t.self
  <2>1. CASE kept # {}
    <3>1. next = [t EXCEPT !.skipped = @ \ kept]
      BY <2>1
    <3>2. PICK n : n = next
      OBVIOUS
    <3>3. n \in State /\ n.ns = t.ns /\ n.self = t.self /\ n.skipped \in SUBSET t.skipped
      BY <1>5, <3>1, <3>2 DEF State
    <3>4. IsFiniteSet(n.skipped) /\ Cardinality(n.skipped) <= Cardinality(t.skipped)
      BY <1>5, <3>3, FS_Subset DEF Held
    <3>5. Cardinality(n.skipped) \in Nat /\ Cardinality(t.skipped) \in Nat /\ MaxSkip \in Nat
      BY <1>5, <3>4, FS_CardinalityType, RatchetAssumption DEF Held, RatchetAssumption
    <3> QED
      BY <1>5, <3>2, <3>3, <3>4, <3>5 DEF Held
  <2>2. CASE kept = {}
    <3>1. next = [u EXCEPT !.nr = @ + 1]
      BY <2>2
    <3>2. Advanced(t, u, msg.n)
      BY <1>1, <1>5, SkipAdvances
    <3> HIDE DEF u
    <3>3. u \in State /\ Held(u) /\ u.ns = t.ns /\ u.self = t.self
      BY <1>5, <3>2 DEF Advanced, State
    <3>4. PICK n : n = next
      OBVIOUS
    <3>5. n \in State /\ n.ns = u.ns /\ n.self = u.self /\ n.skipped = u.skipped
      BY <3>1, <3>3, <3>4 DEF State
    <3> QED
      BY <3>3, <3>4, <3>5 DEF Held
  <2> QED
    BY <2>1, <2>2
<1> HIDE DEF next
<1>7. RTSessions'
  <2>1. session' \in [Agents -> State \cup {NoSession}]
    BY <1>0, <1>3, <1>6
  <2>2. keys' \in [Agents -> Nat]
    <3> HIDE DEF new, turns
    <3>1. keys' = keys \/ keys' = [keys EXCEPT ![a] = @ + 1]
      BY <1>3
    <3>2. [keys EXCEPT ![a] = @ + 1] \in [Agents -> Nat]
      BY <1>0, <1>2
    <3> QED
      BY <1>0, <3>1, <3>2
  <2>3. ASSUME NEW b \in Agents, session'[b] # NoSession
        PROVE  session'[b].self = <<b, keys'[b]>> /\ session'[b].ns <= Len(sent') /\ Held(session'[b])
    <3>1. CASE b = a
      BY <1>0, <1>3, <1>5, <1>6, <3>1
    <3>2. CASE b # a
      <4>1. session'[b] = session[b] /\ keys'[b] = keys[b]
        BY <1>0, <1>3, <3>2
      <4>2. session[b].self = <<b, keys[b]>> /\ session[b].ns <= Len(sent) /\ Held(session[b])
        BY <2>3, <4>1 DEF RTTypes, RTSessions
      <4> QED
        BY <1>3, <4>1, <4>2
    <3> QED
      BY <3>1, <3>2
  <2> QED
    BY <2>1, <2>2, <2>3 DEF RTSessions, Held
<1>8. RTMessages'
  BY <1>3 DEF RTTypes, RTMessages
<1>9. RTMarks'
  <2>1. ASSUME NEW k \in Missing(m) PROVE sent[k].dh \in Agents \X Nat
    <3>1. k \in DOMAIN sent
      BY <1>0 DEF Missing
    <3>2. sent[k] \in Message
      BY <1>0, <3>1
    <3> QED
      BY <3>2 DEF Message
  <2>2. lost \subseteq Agents \X Nat
    BY <2>1
  <2> HIDE DEF lost
  <2> QED
    BY <1>1, <1>3, <2>2 DEF RTTypes, RTMarks
<1> QED
  BY <1>7, <1>8, <1>9 DEF RTTypes

LEMMA ResetTyped ==
  ASSUME RTTypes, NEW a \in Agents, ResetSession(a)
  PROVE  RTTypes'
<1>1. /\ session' = [session EXCEPT ![a] = NoSession]
      /\ era' \in {era, era + 1}
      /\ UNCHANGED <<keys, sent, received, failed, spoiled>>
  BY DEF ResetSession
<1>2. RTSessions'
  BY <1>1 DEF RTTypes, RTSessions, Held
<1>3. RTMessages' /\ RTMarks'
  BY <1>1 DEF RTTypes, RTMessages, RTMarks
<1> QED
  BY <1>2, <1>3 DEF RTTypes

LEMMA RatchetStep == RTTypes /\ [RTNext]_rtVars => RTTypes'
<1> SUFFICES ASSUME RTTypes, [RTNext]_rtVars PROVE RTTypes'
  OBVIOUS
<1>1. CASE UNCHANGED rtVars
  BY <1>1 DEF rtVars, rtHistory, RTTypes, RTSessions, RTMessages, RTMarks, Held
<1> QED
  BY <1>1, EncryptTyped, DecryptTyped, ResetTyped DEF RTNext

LEMMA RatchetStarts == RTInit => RTTypes
<1> SUFFICES ASSUME RTInit PROVE RTTypes
  OBVIOUS
<1>1. RTMessages
  BY RatchetAssumption DEF RTInit, RTMessages, RatchetAssumption
<1>2. RTSessions
  BY DEF RTInit, RTSessions
<1>3. RTMarks
  BY DEF RTInit, RTMarks
<1> QED
  BY <1>1, <1>2, <1>3 DEF RTTypes

LEMMA RatchetTypes == RTTypes => RTTypeOK
<1> SUFFICES ASSUME RTTypes PROVE RTTypeOK
  OBVIOUS
<1>1. ASSUME NEW a \in Agents, session[a] # NoSession
      PROVE  /\ session[a].root \in Seq(SUBSET (Agents \X Nat))
             /\ session[a].self = <<a, keys[a]>>
             /\ session[a].ns \in 0..MaxSent /\ session[a].nr \in Nat
             /\ Cardinality(session[a].skipped) <= MaxSkip
  <2>1. session[a] \in State
    BY <1>1 DEF RTTypes, RTSessions
  <2>2. /\ session[a].root \in Seq(SUBSET (Agents \X Nat))
        /\ session[a].ns \in Nat /\ session[a].nr \in Nat
    BY <2>1 DEF State, Chains, Secrets
  <2>3. session[a].self = <<a, keys[a]>> /\ session[a].ns <= Len(sent) /\ Held(session[a])
    BY <1>1 DEF RTTypes, RTSessions
  <2>4. Len(sent) \in Nat /\ Len(sent) <= MaxSent /\ MaxSent \in Nat
    BY RatchetAssumption DEF RTTypes, RTMessages, RatchetAssumption
  <2> QED
    BY <2>2, <2>3, <2>4 DEF Held
<1> QED
  BY <1>1 DEF RTTypes, RTSessions, RTMarks, RTTypeOK

-----------------------------------------------------------------------------
\* The sessions of the two agents keep to their types: no agent keeps more than
\* MAX_SKIP keys, whatever comes and in whatever order, and each holds the DH
\* key it made last.
THEOREM RatchetTypeCorrect == RTSpec => []RTTypeOK
  BY RatchetStarts, RatchetStep, RatchetTypes, PTL DEF RTSpec

-----------------------------------------------------------------------------
\* Where an agent keeps the key of a message, and which messages it has passed:
\* those of the chains before the one it reads, and on that one those up to nr.
KeyOf(l) == [at |-> <<l.dh, l.n>>, key |-> l.key]
Passes(s, l) == l.dh[2] < s.remote[2] \/ (l.dh = s.remote /\ l.n < s.nr)
PassesUpTo(s, l, until) == l.dh[2] < s.remote[2] \/ (l.dh = s.remote /\ l.n < until)

\* mail[k], for each k in L, is a message that x has written, in a chain of its
\* own; its chains follow one another, each without gaps.
Mail(x, mail, L) ==
  \A k \in L : k \in Nat /\ mail[k] \in Message /\ mail[k].dh[1] = x /\ mail[k].dh[2] > 0
InOrder(mail, L) ==
  /\ \A k \in L : \A n \in 0..(mail[k].n - 1) :
       \E j \in L : mail[j].dh = mail[k].dh /\ mail[j].n = n
  /\ \A j, k \in L :
       j < k => mail[j].dh[2] < mail[k].dh[2] \/ (mail[j].dh = mail[k].dh /\ mail[j].n < mail[k].n)

\* The writer's side: w has written L, the last of it in its sending chain.
Writes(w, mail, L) ==
  /\ \A k \in L :
       /\ mail[k].dh[2] <= w.self[2]
       /\ mail[k].dh = w.self =>
            mail[k].key = <<w.sending, mail[k].n>> /\ mail[k].n < w.ns /\ mail[k].pn = w.pn
  /\ \A n \in 0..(w.ns - 1) : \E k \in L : mail[k].dh = w.self /\ mail[k].n = n

\* The reader's side: s reads one of the chains of x, of which only the present
\* one (own) can be new to it; it is not ahead of that chain ...
Listens(s, x, own, mail, L, bad) ==
  /\ s.remote[1] = x
  /\ s.receiving = NoChain => s.remote[2] = 0
  /\ s.remote \notin bad =>
       \A n \in 0..(s.nr - 1) : \E k \in L : mail[k].dh = s.remote /\ mail[k].n = n
  /\ \A k \in L :
       /\ mail[k].dh = s.remote => mail[k].key = <<s.receiving, mail[k].n>>
       /\ mail[k].dh[2] > s.remote[2] => mail[k].dh = own

\* ... and holds the keys of what it has passed and not received (R), and no
\* others, but for the chains that are spoiled (bad).
Keeps(s, mail, L, R, bad) ==
  /\ \A k \in L :
       /\ k \in R => Passes(s, mail[k])
       /\ k \notin R /\ Passes(s, mail[k]) /\ mail[k].dh \notin bad =>
            KeyOf(mail[k]) \in s.skipped
  /\ \A h \in s.skipped : \E k \in L \ R : h = KeyOf(mail[k]) /\ Passes(s, mail[k])

\* What _skip_message_keys returns.
SkipsTo(s, u, until, l) ==
  /\ s.receiving # NoChain /\ s.nr < until
  /\ l \in Nat /\ s.nr <= l /\ l <= until /\ (l < until => ~Room(s, l))
  /\ u.remote = s.remote /\ u.receiving = s.receiving
  /\ u.nr = until /\ u.skipped = KeysUpTo(s, l)
LEMMA SkipGives ==
  ASSUME NEW s \in State, NEW until \in Nat
  PROVE  LET u == Skip(s, until)
         IN \/ u = s /\ (s.receiving = NoChain \/ until <= s.nr)
            \/ \E l \in Nat : SkipsTo(s, u, until, l)
<1>0. s.nr \in Nat
  BY DEF State
<1>1. CASE s.receiving = NoChain \/ s.nr >= until
  BY <1>0, <1>1 DEF Skip
<1>2. CASE ~(s.receiving = NoChain \/ s.nr >= until)
  <2> DEFINE Stops(m) == (\A n \in s.nr..(m - 1) : Room(s, n)) /\ (m < until => ~Room(s, m))
             last == CHOOSE m \in s.nr..until : Stops(m)
             full == {m \in Nat : m \in s.nr..until /\ ~Room(s, m)}
  <2>1. \E m \in s.nr..until : Stops(m)
    <3>1. CASE full = {}
      <4>1. \A n \in s.nr..(until - 1) : Room(s, n)
        BY <1>0, <3>1
      <4> QED
        BY <1>0, <1>2, <4>1
    <3>2. CASE full # {}
      <4>1. PICK m \in full : \A k \in full : m <= k
        BY <3>2, FirstExists
      <4>2. \A n \in s.nr..(m - 1) : n \in Nat /\ n \in s.nr..until /\ n < m
        BY <1>0, <4>1
      <4>3. \A n \in s.nr..(m - 1) : Room(s, n)
        BY <4>1, <4>2
      <4> QED
        BY <4>1, <4>3
    <3> QED
      BY <3>1, <3>2
  <2>2. last \in s.nr..until /\ Stops(last)
    BY <2>1
  <2>3. Skip(s, until) = [s EXCEPT !.nr = until, !.skipped = KeysUpTo(s, last)]
    BY <1>2 DEF Skip
  <2> HIDE DEF last
  <2>4. last \in Nat /\ s.nr <= last /\ last <= until /\ (last < until => ~Room(s, last))
    BY <1>0, <2>2
  <2>5. PICK u : u = Skip(s, until)
    OBVIOUS
  <2>6. u.remote = s.remote /\ u.receiving = s.receiving /\ u.nr = until /\ u.skipped = KeysUpTo(s, last)
    BY <2>3, <2>5 DEF State
  <2> QED
    BY <1>0, <1>2, <2>4, <2>5, <2>6 DEF SkipsTo
<1> QED
  BY <1>1, <1>2

\* What a reader keeps when it passes more of the chain it reads.
LEMMA KeysSplit ==
  ASSUME NEW s \in State, NEW mail, NEW L, NEW R, NEW bad, Keeps(s, mail, L, R, bad),
         NEW l \in Nat
  PROVE  KeysUpTo(s, l) = s.skipped \cup Passed(s, l)
<1>1. ASSUME NEW h \in s.skipped, NEW n \in s.nr..(l - 1), h.at = <<s.remote, n>> PROVE FALSE
  <2>1. PICK k \in L : h = KeyOf(mail[k]) /\ Passes(s, mail[k])
    BY DEF Keeps
  <2>2. mail[k].dh = s.remote /\ mail[k].n = n
    BY <1>1, <2>1 DEF KeyOf
  <2>3. s.remote[2] \in Nat /\ s.nr \in Nat
    BY DEF State
  <2> QED
    BY <2>1, <2>2, <2>3 DEF Passes
<1>2. \A h \in s.skipped : \A p \in Passed(s, l) : h.at # p.at
  BY <1>1 DEF Passed
<1> QED
  BY <1>2, KeysAre

\* If the letters that will have been passed and not received (at most T) are no
\* more than MAX_SKIP, there is room for all their keys.
Unread(s, until, mail, L, R) == {k \in L \ R : PassesUpTo(s, mail[k], until)}
Full(s, until, mail, L) ==
  \A n \in s.nr..(until - 1) : \E k \in L : mail[k].dh = s.remote /\ mail[k].n = n
LEMMA RoomForAll ==
  ASSUME NEW s \in State, NEW until \in Nat, NEW x, NEW own, NEW mail, NEW L, NEW R, NEW bad,
         Mail(x, mail, L), Listens(s, x, own, mail, L, bad), Keeps(s, mail, L, R, bad),
         Full(s, until, mail, L),
         NEW T, IsFiniteSet(T), Unread(s, until, mail, L, R) \subseteq T, Cardinality(T) <= MaxSkip,
         NEW l \in Nat, s.nr <= l, l < until
  PROVE  Room(s, l)
<1>0. s.nr \in Nat /\ s.remote[2] \in Nat
  BY DEF State
<1>1. PICK j \in L : mail[j].dh = s.remote /\ mail[j].n = l
  BY <1>0 DEF Full
<1>2. j \notin R
  BY <1>0, <1>1 DEF Keeps, Passes
<1>3. j \in T
  BY <1>0, <1>1, <1>2 DEF Unread, PassesUpTo
<1> DEFINE f == [k \in T \ {j} |-> KeyOf(mail[k])]
           img == {f[k] : k \in T \ {j}}
<1>4. IsFiniteSet(T \ {j}) /\ Cardinality(T \ {j}) = Cardinality(T) - 1
  BY <1>3, FS_RemoveElement
<1>5. IsFiniteSet(img) /\ Cardinality(img) <= Cardinality(T \ {j})
  <2>1. f \in Surjection(T \ {j}, img)
    BY DEF Surjection
  <2> HIDE DEF f, img
  <2> QED
    BY <1>4, <2>1, FS_Surjection
<1>6. KeysUpTo(s, l) \subseteq img
  <2> SUFFICES ASSUME NEW h \in KeysUpTo(s, l) PROVE \E k \in T \ {j} : h = KeyOf(mail[k])
    OBVIOUS
  <2>1. CASE h \in s.skipped
    <3>1. PICK k \in L \ R : h = KeyOf(mail[k]) /\ Passes(s, mail[k])
      BY <2>1 DEF Keeps
    <3>2. mail[k].n \in Nat /\ mail[k].dh[2] \in Nat
      BY <3>1 DEF Mail, Message
    <3>3. k \in T
      BY <1>0, <3>1, <3>2 DEF Unread, PassesUpTo, Passes
    <3>4. k # j
      BY <1>0, <1>1, <3>1 DEF Passes
    <3> QED
      BY <3>1, <3>3, <3>4
  <2>2. CASE h \in Passed(s, l)
    <3>1. PICK n \in s.nr..(l - 1) : h = [at |-> <<s.remote, n>>, key |-> <<s.receiving, n>>]
      BY <2>2 DEF Passed
    <3>2. n \in s.nr..(until - 1) /\ n \in Nat
      BY <1>0
    <3>3. PICK k \in L : mail[k].dh = s.remote /\ mail[k].n = n
      BY <3>2 DEF Full
    <3>4. mail[k].key = <<s.receiving, n>>
      BY <3>3 DEF Listens
    <3>5. k \notin R
      BY <1>0, <3>2, <3>3 DEF Keeps, Passes
    <3>6. k \in T
      BY <1>0, <3>2, <3>3, <3>5 DEF Unread, PassesUpTo
    <3>7. k # j
      BY <1>0, <1>1, <3>1, <3>3
    <3>8. h = KeyOf(mail[k])
      BY <3>1, <3>3, <3>4 DEF KeyOf
    <3> QED
      BY <3>6, <3>7, <3>8
  <2> QED
    BY <2>1, <2>2, KeysSplit
<1>7. Cardinality(KeysUpTo(s, l)) <= Cardinality(img) /\ IsFiniteSet(KeysUpTo(s, l))
  BY <1>5, <1>6, FS_Subset
<1>8. /\ Cardinality(KeysUpTo(s, l)) \in Nat /\ Cardinality(img) \in Nat
      /\ Cardinality(T) \in Nat /\ MaxSkip \in Nat
  BY <1>5, <1>7, FS_CardinalityType, RatchetAssumption DEF RatchetAssumption
<1> HIDE DEF img
<1> QED
  BY <1>4, <1>5, <1>7, <1>8 DEF Room

\* More chains may be spoiled, and what x writes on may change when its reader
\* has nothing of x to come to.
LEMMA StillListens ==
  ASSUME NEW s, NEW x, NEW own, NEW own2, NEW mail, NEW L, NEW bad, NEW worse,
         Listens(s, x, own, mail, L, bad), bad \subseteq worse,
         own2 = own \/ \A k \in L : ~(mail[k].dh[2] > s.remote[2])
  PROVE  Listens(s, x, own2, mail, L, worse)
BY DEF Listens

LEMMA StillKeeps ==
  ASSUME NEW s, NEW mail, NEW L, NEW R, NEW R2, NEW bad, NEW worse,
         Keeps(s, mail, L, R, bad), bad \subseteq worse, L \cap R = L \cap R2
  PROVE  Keeps(s, mail, L, R2, worse)
<1>1. \A k \in L : k \in R <=> k \in R2
  BY Zenon
<1>2. \A h \in s.skipped : \E k \in L \ R2 : h = KeyOf(mail[k]) /\ Passes(s, mail[k])
  <2> TAKE h \in s.skipped
  <2>1. PICK k \in L \ R : h = KeyOf(mail[k]) /\ Passes(s, mail[k])
    BY DEF Keeps
  <2> QED
    BY <1>1, <2>1
<1>3. ASSUME NEW k \in L
      PROVE  /\ k \in R2 => Passes(s, mail[k])
             /\ k \notin R2 /\ Passes(s, mail[k]) /\ mail[k].dh \notin worse => KeyOf(mail[k]) \in s.skipped
  BY <1>1 DEF Keeps
<1> QED
  BY <1>2, <1>3 DEF Keeps

\* Passing the next messages of the chain it reads, a reader still keeps what it
\* has not received, or all of that is spoiled.
LEMMA SkipFollows ==
  ASSUME NEW s \in State, NEW until \in Nat, NEW x, NEW own, NEW mail, NEW L, NEW R,
         NEW bad, NEW worse, bad \subseteq worse,
         Mail(x, mail, L), Listens(s, x, own, mail, L, bad), Keeps(s, mail, L, R, bad),
         Full(s, until, mail, L),
         NEW T, IsFiniteSet(T), Unread(s, until, mail, L, R) \subseteq T,
         Cardinality(T) <= MaxSkip \/ \A k \in T : mail[k].dh \in worse
  PROVE  LET u == Skip(s, until)
         IN Listens(u, x, own, mail, L, worse) /\ Keeps(u, mail, L, R, worse)
<1> DEFINE u == Skip(s, until)
<1>0. s.nr \in Nat /\ s.remote[2] \in Nat
  BY DEF State
<1>1. CASE u = s
  BY <1>1, StillListens, StillKeeps
<1>2. ASSUME NEW l \in Nat, SkipsTo(s, u, until, l)
      PROVE  Listens(u, x, own, mail, L, worse) /\ Keeps(u, mail, L, R, worse)
  <2> HIDE DEF u
  <2>1. l = until \/ \A k \in T : mail[k].dh \in worse
    <3>1. ASSUME Cardinality(T) <= MaxSkip PROVE l = until
      <4>1. l < until => Room(s, l)
        BY <1>2, <3>1, RoomForAll DEF SkipsTo
      <4> QED
        BY <1>2, <4>1 DEF SkipsTo
    <3> QED
      BY <3>1
  <2>2. u.skipped = s.skipped \cup Passed(s, l)
    BY <1>2, KeysSplit DEF SkipsTo
  <2>3. /\ u.remote = s.remote /\ u.receiving = s.receiving /\ u.nr = until
        /\ s.nr < until /\ s.nr <= l /\ l <= until /\ s.receiving # NoChain
    BY <1>2 DEF SkipsTo
  <2>4. ASSUME s.remote \notin worse, NEW n \in 0..(until - 1)
        PROVE  \E k \in L : mail[k].dh = s.remote /\ mail[k].n = n
    <3>1. n \in 0..(s.nr - 1) \/ n \in s.nr..(until - 1)
      BY <1>0
    <3>2. s.remote \notin bad
      BY <2>4
    <3> QED
      BY <3>1, <3>2 DEF Listens, Full
  <2>5. Listens(u, x, own, mail, L, worse)
    BY <2>3, <2>4 DEF Listens
  <2>6. ASSUME NEW k \in L, k \in R PROVE Passes(u, mail[k])
    <3>1. Passes(s, mail[k]) /\ mail[k].n \in Nat
      BY <2>6 DEF Keeps, Mail, Message
    <3> QED
      BY <1>0, <2>3, <3>1 DEF Passes
  <2>7. ASSUME NEW k \in L, k \notin R, Passes(u, mail[k]), mail[k].dh \notin worse
        PROVE  KeyOf(mail[k]) \in u.skipped
    <3>0. mail[k].n \in Nat /\ mail[k].dh[2] \in Nat
      BY DEF Mail, Message
    <3>1. k \in T
      BY <2>3, <2>7 DEF Unread, PassesUpTo, Passes
    <3>2. l = until
      BY <2>1, <2>7, <3>1
    <3>3. CASE Passes(s, mail[k])
      <4>1. mail[k].dh \notin bad
        BY <2>7
      <4> QED
        BY <2>2, <2>7, <3>3, <4>1 DEF Keeps
    <3>4. CASE ~Passes(s, mail[k])
      <4>1. mail[k].dh = s.remote /\ mail[k].n \in s.nr..(l - 1)
        BY <1>0, <2>3, <2>7, <3>0, <3>2, <3>4 DEF Passes
      <4>2. mail[k].key = <<s.receiving, mail[k].n>>
        BY <4>1 DEF Listens
      <4>3. KeyOf(mail[k]) \in Passed(s, l)
        BY <4>1, <4>2 DEF KeyOf, Passed
      <4> QED
        BY <2>2, <4>3
    <3> QED
      BY <3>3, <3>4
  <2>8. ASSUME NEW h \in u.skipped
        PROVE  \E k \in L \ R : h = KeyOf(mail[k]) /\ Passes(u, mail[k])
    <3>1. CASE h \in s.skipped
      <4>1. PICK k \in L \ R : h = KeyOf(mail[k]) /\ Passes(s, mail[k])
        BY <3>1 DEF Keeps
      <4>2. mail[k].n \in Nat
        BY <4>1 DEF Mail, Message
      <4>3. Passes(u, mail[k])
        BY <1>0, <2>3, <4>1, <4>2 DEF Passes
      <4> QED
        BY <4>1, <4>3
    <3>2. CASE h \in Passed(s, l)
      <4>1. PICK n \in s.nr..(l - 1) : h = [at |-> <<s.remote, n>>, key |-> <<s.receiving, n>>]
        BY <3>2 DEF Passed
      <4>2. n \in s.nr..(until - 1) /\ n \in Nat /\ s.nr <= n /\ n < until
        BY <1>0, <2>3
      <4>3. PICK k \in L : mail[k].dh = s.remote /\ mail[k].n = n
        BY <4>2 DEF Full
      <4>4. mail[k].key = <<s.receiving, n>>
        BY <4>3 DEF Listens
      <4>5. k \notin R
        BY <1>0, <4>2, <4>3 DEF Keeps, Passes
      <4>6. h = KeyOf(mail[k]) /\ Passes(u, mail[k])
        BY <2>3, <4>1, <4>2, <4>3, <4>4 DEF KeyOf, Passes
      <4> QED
        BY <4>5, <4>6
    <3> QED
      BY <2>2, <3>1, <3>2
  <2> QED
    BY <2>5, <2>6, <2>7, <2>8 DEF Keeps
<1> QED
  BY <1>1, <1>2, SkipGives

\* A reader that has passed all of a chain and comes to the next.
LEMMA TurnFollows ==
  ASSUME NEW p, NEW t, NEW x, NEW own, NEW mail, NEW L, NEW R, NEW bad, NEW pn \in Nat,
         p.remote \in Agents \X Nat, p.nr \in Nat, own \in Agents \X Nat, own[1] = x,
         Mail(x, mail, L), Listens(p, x, own, mail, L, bad), Keeps(p, mail, L, R, bad),
         p.remote[2] < own[2], p.nr >= pn \/ p.remote[2] = 0,
         \A k \in L : /\ mail[k].dh = p.remote => mail[k].n < pn
                      /\ mail[k].dh[2] <= own[2]
                      /\ mail[k].dh = own => mail[k].key = <<t.receiving, mail[k].n>>,
         t.remote = own, t.nr = 0, t.receiving # NoChain, t.skipped = p.skipped
  PROVE  Listens(t, x, own, mail, L, bad) /\ Keeps(t, mail, L, R, bad)
<1>1. Listens(t, x, own, mail, L, bad)
  <2>1. ASSUME NEW k \in L PROVE ~(mail[k].dh[2] > own[2])
    <3>1. mail[k].dh[2] \in Nat /\ own[2] \in Nat
      BY DEF Mail, Message
    <3> QED
      BY <3>1
  <2>2. \A n \in 0..(t.nr - 1) : FALSE
    OBVIOUS
  <2> QED
    BY <2>1, <2>2 DEF Listens
<1>2. ASSUME NEW k \in L PROVE Passes(t, mail[k]) <=> mail[k].dh[2] < own[2]
  <2>1. mail[k].n \in Nat
    BY DEF Mail, Message
  <2> QED
    BY <2>1 DEF Passes
<1>3. ASSUME NEW k \in L PROVE Passes(p, mail[k]) => mail[k].dh[2] < own[2]
  BY DEF Passes, Mail, Message
<1>4. ASSUME NEW k \in L, mail[k].dh[2] < own[2] PROVE Passes(p, mail[k])
  <2>0. mail[k].dh \in Agents \X Nat /\ mail[k].dh[1] = x /\ mail[k].n \in Nat /\ mail[k].dh[2] > 0
    BY DEF Mail, Message
  <2>1. ~(mail[k].dh[2] > p.remote[2])
    BY <1>4, <2>0 DEF Listens
  <2>2. CASE mail[k].dh[2] < p.remote[2]
    BY <2>2 DEF Passes
  <2>3. CASE mail[k].dh[2] = p.remote[2]
    <3>1. p.remote[1] = x
      BY DEF Listens
    <3>2. mail[k].dh = p.remote
      BY <2>0, <2>3, <3>1
    <3>3. p.nr >= pn
      BY <2>0, <2>3
    <3> QED
      BY <2>0, <3>2, <3>3 DEF Passes
  <2> QED
    BY <2>0, <2>1, <2>2, <2>3
<1>5. ASSUME NEW h \in t.skipped
      PROVE  \E k \in L \ R : h = KeyOf(mail[k]) /\ Passes(t, mail[k])
  <2>1. PICK k \in L \ R : h = KeyOf(mail[k]) /\ Passes(p, mail[k])
    BY DEF Keeps
  <2> QED
    BY <1>2, <1>3, <2>1
<1> QED
  BY <1>1, <1>2, <1>3, <1>4, <1>5 DEF Keeps

LEMMA OneLetter ==
  ASSUME NEW x, NEW mail, NEW L, Mail(x, mail, L), InOrder(mail, L),
         NEW j \in L, NEW k \in L, mail[j].dh = mail[k].dh, mail[j].n = mail[k].n
  PROVE  j = k
<1>1. /\ j \in Nat /\ k \in Nat /\ mail[j].n \in Nat /\ mail[k].n \in Nat
      /\ mail[j].dh[2] \in Nat /\ mail[k].dh[2] \in Nat
  BY DEF Mail, Message
<1>2. ~(j < k)
  BY <1>1 DEF InOrder
<1>3. ~(k < j)
  BY <1>1 DEF InOrder
<1> QED
  BY <1>1, <1>2, <1>3

\* A message of the chain that a reader reads: it decrypts, or its chain is
\* spoiled, and the reader holds what it has to hold when the message has come.
Takes(t, u, kept) ==
  IF kept # {} THEN [t EXCEPT !.skipped = @ \ kept] ELSE [u EXCEPT !.nr = @ + 1]
Opens(u, kept, l) ==
  IF kept # {} THEN \E k \in kept : k.key = l.key ELSE <<u.receiving, u.nr>> = l.key
Kept(t, l) == {k \in t.skipped : k.at = <<l.dh, l.n>>}
After(t, l) == Takes(t, Skip(t, l.n), Kept(t, l))
IsRead(t, l) == Opens(Skip(t, l.n), Kept(t, l), l)
LEMMA TakeFollows ==
  ASSUME NEW t \in State, NEW x, NEW own, NEW mail, NEW L, NEW R, NEW bad, NEW worse,
         bad \subseteq worse, NEW m \in L, mail[m].dh = t.remote,
         Mail(x, mail, L), InOrder(mail, L),
         Listens(t, x, own, mail, L, bad), Keeps(t, mail, L, R, bad),
         NEW T, IsFiniteSet(T), Unread(t, mail[m].n, mail, L, R) \subseteq T,
         Cardinality(T) <= MaxSkip \/ \A k \in T : mail[k].dh \in worse,
         m \in R => mail[m].dh \in worse
  PROVE  /\ Listens(After(t, mail[m]), x, own, mail, L, worse)
         /\ Keeps(After(t, mail[m]), mail, L, R \cup {m}, worse)
         /\ IsRead(t, mail[m]) \/ mail[m].dh \in worse
<1> SUFFICES LET u == Skip(t, mail[m].n)
                 kept == {k \in t.skipped : k.at = <<mail[m].dh, mail[m].n>>}
                 next == Takes(t, u, kept)
             IN /\ Listens(next, x, own, mail, L, worse) /\ Keeps(next, mail, L, R \cup {m}, worse)
                /\ Opens(u, kept, mail[m]) \/ mail[m].dh \in worse
  BY DEF After, IsRead, Kept
<1> DEFINE u == Skip(t, mail[m].n)
           kept == {k \in t.skipped : k.at = <<mail[m].dh, mail[m].n>>}
           next == Takes(t, u, kept)
<1>0. /\ t.nr \in Nat /\ t.remote[2] \in Nat /\ mail[m] \in Message /\ mail[m].n \in Nat
      /\ mail[m].dh[2] \in Nat /\ mail[m].dh[2] > 0
      /\ \A k \in L : mail[k].n \in Nat /\ mail[k].dh[2] \in Nat
  BY DEF State, Mail, Message
<1>1. Full(t, mail[m].n, mail, L)
  <2>1. \A n \in t.nr..(mail[m].n - 1) : n \in 0..(mail[m].n - 1)
    BY <1>0
  <2> QED
    BY <2>1 DEF Full, InOrder
<1>2. Listens(u, x, own, mail, L, worse) /\ Keeps(u, mail, L, R, worse)
  BY <1>0, <1>1, SkipFollows
<1>3. Listens(t, x, own, mail, L, worse) /\ Keeps(t, mail, L, R, worse)
  BY StillListens, StillKeeps
<1>4. \A k \in L : mail[k].dh = mail[m].dh /\ mail[k].n = mail[m].n => k = m
  BY OneLetter
<1>5. CASE kept # {}
  <2>1. ASSUME NEW h \in kept PROVE m \notin R /\ h = KeyOf(mail[m]) /\ Passes(t, mail[m])
    <3>1. PICK k \in L \ R : h = KeyOf(mail[k]) /\ Passes(t, mail[k])
      BY DEF Keeps
    <3>2. k = m
      BY <1>4, <3>1 DEF KeyOf
    <3> QED
      BY <3>1, <3>2
  <2>2. PICK h \in kept : TRUE
    BY <1>5
  <2>3. Opens(u, kept, mail[m])
    BY <1>5, <2>1, <2>2 DEF Opens, KeyOf
  <2>4. PICK r : r = next
    OBVIOUS
  <2>5. r.remote = t.remote /\ r.receiving = t.receiving /\ r.nr = t.nr /\ r.skipped = t.skipped \ kept
    BY <1>5, <2>4 DEF Takes, State
  <2>6. Listens(r, x, own, mail, L, worse)
    BY <1>3, <2>5 DEF Listens
  <2>7. \A k \in L : Passes(r, mail[k]) <=> Passes(t, mail[k])
    BY <2>5 DEF Passes
  <2>8. ASSUME NEW k \in L, k \in R \cup {m} PROVE Passes(r, mail[k])
    BY <1>3, <2>1, <2>2, <2>7, <2>8 DEF Keeps
  <2>9. ASSUME NEW k \in L, k \notin R \cup {m}, Passes(r, mail[k]), mail[k].dh \notin worse
        PROVE  KeyOf(mail[k]) \in r.skipped
    <3>1. KeyOf(mail[k]) \in t.skipped
      BY <1>3, <2>7, <2>9 DEF Keeps
    <3>2. KeyOf(mail[k]) \notin kept
      BY <1>4, <2>9 DEF KeyOf
    <3> QED
      BY <2>5, <3>1, <3>2
  <2>10. ASSUME NEW g \in r.skipped
         PROVE  \E k \in L \ (R \cup {m}) : g = KeyOf(mail[k]) /\ Passes(r, mail[k])
    <3>1. g \in t.skipped /\ g \notin kept
      BY <2>5
    <3>2. PICK k \in L \ R : g = KeyOf(mail[k]) /\ Passes(t, mail[k])
      BY <3>1 DEF Keeps
    <3>3. k # m
      BY <3>1, <3>2 DEF KeyOf
    <3> QED
      BY <2>7, <3>2, <3>3
  <2>11. Keeps(r, mail, L, R \cup {m}, worse)
    BY <2>8, <2>9, <2>10 DEF Keeps
  <2> QED
    BY <2>3, <2>4, <2>6, <2>11
<1>6. CASE kept = {} /\ mail[m].n < t.nr
  <2>1. u = t
    <3>1. \A l \in Nat : ~SkipsTo(t, u, mail[m].n, l)
      BY <1>0, <1>6 DEF SkipsTo
    <3> QED
      BY <1>0, <3>1, SkipGives
  <2>2. Passes(t, mail[m])
    BY <1>6 DEF Passes
  <2>3. mail[m].dh \in worse
    <3>1. ASSUME m \notin R, mail[m].dh \notin worse PROVE FALSE
      <4>1. KeyOf(mail[m]) \in t.skipped
        BY <1>3, <2>2, <3>1 DEF Keeps
      <4> QED
        BY <1>6, <4>1 DEF KeyOf
    <3> QED
      BY <3>1
  <2>4. PICK r : r = next
    OBVIOUS
  <2>5. r.remote = t.remote /\ r.receiving = t.receiving /\ r.nr = t.nr + 1 /\ r.skipped = t.skipped
    BY <1>6, <2>1, <2>4 DEF Takes, State
  <2>6. Listens(r, x, own, mail, L, worse)
    BY <1>3, <2>3, <2>5 DEF Listens
  <2>7. \A k \in L : Passes(t, mail[k]) => Passes(r, mail[k])
    BY <1>0, <2>5 DEF Passes
  <2>8. ASSUME NEW k \in L, Passes(r, mail[k]), mail[k].dh \notin worse PROVE Passes(t, mail[k])
    <3>1. mail[k].dh # t.remote
      BY <2>3, <2>8
    <3> QED
      BY <2>5, <2>8, <3>1 DEF Passes
  <2>9. ASSUME NEW g \in r.skipped
        PROVE  \E k \in L \ (R \cup {m}) : g = KeyOf(mail[k]) /\ Passes(r, mail[k])
    <3>1. PICK k \in L \ R : g = KeyOf(mail[k]) /\ Passes(t, mail[k])
      BY <2>5 DEF Keeps
    <3>2. k # m
      BY <1>6, <2>5, <3>1 DEF KeyOf
    <3> QED
      BY <2>7, <3>1, <3>2
  <2>10. ASSUME NEW k \in L, k \in R \cup {m} PROVE Passes(r, mail[k])
    BY <1>3, <2>2, <2>7, <2>10 DEF Keeps
  <2>11. ASSUME NEW k \in L, k \notin R \cup {m}, Passes(r, mail[k]), mail[k].dh \notin worse
         PROVE  KeyOf(mail[k]) \in r.skipped
    BY <1>3, <2>5, <2>8, <2>11 DEF Keeps
  <2>12. Keeps(r, mail, L, R \cup {m}, worse)
    BY <2>9, <2>10, <2>11 DEF Keeps
  <2> QED
    BY <2>3, <2>4, <2>6, <2>12
<1>7. CASE kept = {} /\ t.nr <= mail[m].n
  <2>1. t.receiving # NoChain
    BY <1>0 DEF Listens
  <2>2. u \in State /\ u.remote = t.remote /\ u.receiving = t.receiving /\ u.nr = mail[m].n
    <3>1. CASE u = t /\ mail[m].n <= t.nr
      BY <1>0, <1>7, <3>1
    <3>2. ASSUME NEW l \in Nat, SkipsTo(t, u, mail[m].n, l)
          PROVE  u.remote = t.remote /\ u.receiving = t.receiving /\ u.nr = mail[m].n
      BY <3>2 DEF SkipsTo
    <3>3. u \in State
      <4>1. CASE u = t
        BY <4>1
      <4>2. CASE ~(t.receiving = NoChain \/ t.nr >= mail[m].n)
        <5>1. PICK l \in Nat : SkipsTo(t, u, mail[m].n, l)
          BY <1>0, <4>2, SkipGives
        <5>2. KeysUpTo(t, l) = t.skipped \cup Passed(t, l)
          BY KeysSplit
        <5>3. Passed(t, l) \subseteq Skipped
          <6>1. \A n \in t.nr..(l - 1) : n \in Nat
            BY <1>0
          <6>2. t.remote \in Agents \X Nat /\ t.receiving \in Chains
            BY DEF State
          <6> QED
            BY <6>1, <6>2 DEF Passed, Skipped, Places
        <5>4. u.skipped \subseteq Skipped
          BY <5>1, <5>2, <5>3 DEF SkipsTo, State
        <5>5. \E S : u = [t EXCEPT !.nr = mail[m].n, !.skipped = S]
          BY <4>2 DEF Skip
        <5>6. PICK S : u = [t EXCEPT !.nr = mail[m].n, !.skipped = S]
          BY <5>5
        <5>7. u.skipped = S
          BY <5>6 DEF State
        <5> QED
          BY <1>0, <5>4, <5>6, <5>7 DEF State
      <4> QED
        BY <1>0, <4>1, <4>2, SkipGives DEF SkipsTo
    <3> QED
      BY <1>0, <2>1, <3>1, <3>2, <3>3, SkipGives
  <2> HIDE DEF u
  <2>3. mail[m].key = <<t.receiving, mail[m].n>>
    BY DEF Listens
  <2>4. Opens(u, kept, mail[m])
    BY <1>7, <2>2, <2>3 DEF Opens
  <2>5. PICK r : r = next
    OBVIOUS
  <2>6. r.remote = t.remote /\ r.receiving = t.receiving /\ r.nr = mail[m].n + 1 /\ r.skipped = u.skipped
    BY <1>7, <2>2, <2>5 DEF Takes, State
  <2>7. \A k \in L : Passes(u, mail[k]) => Passes(r, mail[k])
    BY <1>0, <2>2, <2>6 DEF Passes
  <2>8. ASSUME NEW k \in L, Passes(r, mail[k]), k # m PROVE Passes(u, mail[k])
    BY <1>0, <1>4, <2>2, <2>6, <2>8 DEF Passes
  <2>9. Passes(r, mail[m]) /\ ~Passes(u, mail[m])
    BY <1>0, <2>2, <2>6 DEF Passes
  <2>10. ASSUME r.remote \notin worse, NEW n \in 0..(r.nr - 1)
         PROVE  \E k \in L : mail[k].dh = r.remote /\ mail[k].n = n
    <3>1. n \in 0..(u.nr - 1) \/ n = mail[m].n
      BY <1>0, <2>2, <2>6, <2>10
    <3> QED
      BY <1>2, <2>2, <2>6, <2>10, <3>1 DEF Listens
  <2>11. Listens(r, x, own, mail, L, worse)
    BY <1>2, <2>2, <2>6, <2>10 DEF Listens
  <2>12. ASSUME NEW g \in r.skipped
        PROVE  \E k \in L \ (R \cup {m}) : g = KeyOf(mail[k]) /\ Passes(r, mail[k])
    <3>1. PICK k \in L \ R : g = KeyOf(mail[k]) /\ Passes(u, mail[k])
      BY <1>2, <2>6 DEF Keeps
    <3> QED
      BY <2>7, <2>9, <3>1
  <2>13. ASSUME NEW k \in L, k \in R \cup {m} PROVE Passes(r, mail[k])
    BY <1>2, <2>7, <2>9, <2>13 DEF Keeps
  <2>14. ASSUME NEW k \in L, k \notin R \cup {m}, Passes(r, mail[k]), mail[k].dh \notin worse
         PROVE  KeyOf(mail[k]) \in r.skipped
    BY <1>2, <2>6, <2>8, <2>14 DEF Keeps
  <2>15. Keeps(r, mail, L, R \cup {m}, worse)
    BY <2>12, <2>13, <2>14 DEF Keeps
  <2> QED
    BY <2>4, <2>5, <2>11, <2>15 DEF u
<1> HIDE DEF u, kept, next
<1> QED
  BY <1>0, <1>5, <1>6, <1>7

-----------------------------------------------------------------------------
\* w, the session of x, has written the letters L.
Wrote(x, w, mail, L) ==
  /\ Mail(x, mail, L) /\ InOrder(mail, L) /\ Writes(w, mail, L)
  /\ w.self[1] = x /\ w.self[2] > 0

\* s has read, of the letters that x writes in w, those in R.
Heard(s, mail, L, R) == s.remote[2] = 0 \/ \E k \in L : k \in R /\ mail[k].dh = s.remote
Reads(s, x, w, mail, L, R, bad) ==
  /\ Listens(s, x, w.self, mail, L, bad) /\ Keeps(s, mail, L, R, bad)
  /\ Heard(s, mail, L, R)

\* One of two agents, w, reads what the other, s, writes at present, and has
\* either gone on to a chain of its own that s has not read yet or has not
\* written at all.
Linked(w, s) ==
  /\ w.remote = s.self /\ w.receiving = s.sending
  /\ s.sending = s.root /\ s.sending # NoChain
  /\ s.remote[2] < w.self[2]
Ahead(w, s, mail, L) ==
  /\ w.sending = w.root /\ w.root = Append(s.root, DH(s.self, w.self))
  /\ \A k \in L : mail[k].dh = s.remote => mail[k].n < w.pn
  /\ \A n \in 0..(w.pn - 1) : \E k \in L : mail[k].dh = s.remote /\ mail[k].n = n
Answering(w, s, L) ==
  L = {} /\ w.sending = NoChain /\ w.ns = 0 /\ w.pn = 0 /\ w.root = s.root
Pair(x, w, A, y, s, B, mail, R, bad) ==
  /\ Wrote(x, w, mail, A) /\ Wrote(y, s, mail, B)
  /\ Reads(s, x, w, mail, A, R, bad) /\ Reads(w, y, s, mail, B, R, bad)
  /\ Linked(w, s) /\ (Ahead(w, s, mail, A) \/ Answering(w, s, A))

\* x has written to y, and nothing of it has come.
First(x, y, w, mail, L, R) ==
  /\ Wrote(x, w, mail, L)
  /\ \A k \in L : mail[k].dh = w.self /\ k \notin R
  /\ w.root = <<DH(w.self, LongTerm(y))>> /\ w.sending = w.root /\ w.receiving = NoChain
  /\ w.remote = LongTerm(y) /\ w.nr = 0 /\ w.pn = 0 /\ w.skipped = {}

\* The messages of the present era, and how the two agents then stand.
Letters(x) == {k \in DOMAIN sent : sent[k].from = x /\ sent[k].era = era}
Strangers == \A a \in Agents : session[a] = NoSession /\ Letters(a) = {}
WroteFirst(x) ==
  /\ session[x] # NoSession /\ session[Peer(x)] = NoSession /\ Letters(Peer(x)) = {}
  /\ First(x, Peer(x), session[x], sent, Letters(x), received)
Both(x, y) ==
  /\ session[x] # NoSession /\ session[y] # NoSession
  /\ Pair(x, session[x], Letters(x), y, session[y], Letters(y), sent, received, spoiled)
Together == Strangers \/ \E x \in Agents : WroteFirst(x) \/ Both(x, Peer(x))
Eras == \A k \in DOMAIN sent : sent[k].era <= era
RTInv == RTTypes /\ Eras /\ (~broken => Together) /\ RTReads

-----------------------------------------------------------------------------
\* There are two agents, and a session is not the absence of one.
LEMMA OtherIsPeer == \A a, b \in Agents : b # a => b = Peer(a)
<1> SUFFICES ASSUME NEW a \in Agents, NEW b \in Agents, b # a, b # Peer(a) PROVE FALSE
  OBVIOUS
<1>1. Peer(a) \in Agents /\ Peer(a) # a
  BY PeerIsOther
<1>2. PICK p : p = Peer(a)
  OBVIOUS
<1>3. IsFiniteSet(Agents) /\ Cardinality(Agents) = 2
  BY RatchetAssumption DEF RatchetAssumption
<1>4. IsFiniteSet({a}) /\ Cardinality({a}) = 1
  BY FS_Singleton
<1>5. IsFiniteSet({a} \cup {p}) /\ Cardinality({a} \cup {p}) = 2
  BY <1>1, <1>2, <1>4, FS_AddElement
<1>6. {a} \cup {p} \in SUBSET Agents
  BY <1>1, <1>2
<1>7. Agents = {a} \cup {p}
  BY <1>3, <1>5, <1>6, FS_Subset
<1> QED
  BY <1>2, <1>7

LEMMA PeerOfPeer == \A a \in Agents : Peer(Peer(a)) = a
  BY PeerIsOther, OtherIsPeer

LEMMA NoSessionIsNone == NoSession \notin State
<1> SUFFICES ASSUME NoSession \in State PROVE FALSE
  OBVIOUS
<1>1. DOMAIN NoSession = {"root"}
  BY DEF NoSession
<1>2. "self" \in DOMAIN NoSession
  BY DEF State
<1> QED
  BY <1>1, <1>2

\* A new letter of x, in the chain it writes.
Adds(w, v, mail, to, L, q) ==
  /\ q \in Nat /\ q \notin L
  /\ \A k \in L : to[k] = mail[k] /\ k < q
  /\ to[q] \in Message /\ to[q].dh = w.self /\ to[q].pn = w.pn /\ to[q].n = w.ns
  /\ to[q].key = <<w.sending, w.ns>>
  /\ v.ns = w.ns + 1 /\ v.self = w.self /\ v.sending = w.sending /\ v.pn = w.pn

LEMMA OneMoreWritten ==
  ASSUME NEW w \in State, NEW v, NEW x, NEW mail, NEW to, NEW L, NEW q,
         Wrote(x, w, mail, L), Adds(w, v, mail, to, L, q)
  PROVE  Wrote(x, v, to, L \cup {q})
<1>0. /\ w.ns \in Nat /\ w.self \in Agents \X Nat /\ w.self[2] \in Nat
      /\ \A k \in L : /\ mail[k].n \in Nat /\ mail[k].dh \in Agents \X Nat
                      /\ mail[k].dh[2] \in Nat /\ mail[k].dh[1] = x /\ k \in Nat /\ k < q
  BY DEF State, Wrote, Mail, Message, Adds
<1>1. Mail(x, to, L \cup {q})
  BY DEF Wrote, Mail, Adds
<1>2. ASSUME NEW n \in 0..(w.ns - 1) PROVE \E k \in L : to[k].dh = w.self /\ to[k].n = n
  BY DEF Wrote, Writes, Adds
<1>3. ASSUME NEW j \in L PROVE to[j].dh[2] < w.self[2] \/ (to[j].dh = w.self /\ to[j].n < w.ns)
  <2>1. to[j] = mail[j] /\ mail[j].dh[2] <= w.self[2] /\ (mail[j].dh = w.self => mail[j].n < w.ns)
    BY DEF Wrote, Writes, Adds
  <2>2. mail[j].dh[2] = w.self[2] => mail[j].dh = w.self
    BY <1>0 DEF Wrote
  <2> QED
    BY <1>0, <2>1, <2>2
<1>4. InOrder(to, L \cup {q})
  <2>1. ASSUME NEW k \in L \cup {q}, NEW n \in 0..(to[k].n - 1)
        PROVE  \E j \in L \cup {q} : to[j].dh = to[k].dh /\ to[j].n = n
    <3>1. CASE k \in L
      <4>1. n \in 0..(mail[k].n - 1)
        BY <2>1, <3>1 DEF Adds
      <4>2. PICK j \in L : mail[j].dh = mail[k].dh /\ mail[j].n = n
        BY <3>1, <4>1 DEF Wrote, InOrder
      <4>3. to[j].dh = to[k].dh /\ to[j].n = n
        BY <3>1, <4>2 DEF Adds
      <4> QED
        BY <4>3
    <3>2. CASE k = q
      <4>1. n \in 0..(w.ns - 1) /\ to[k].dh = w.self
        BY <2>1, <3>2 DEF Adds
      <4> QED
        BY <1>2, <4>1
    <3> QED
      BY <3>1, <3>2
  <2>2. ASSUME NEW j \in L \cup {q}, NEW k \in L \cup {q}, j < k
        PROVE  to[j].dh[2] < to[k].dh[2] \/ (to[j].dh = to[k].dh /\ to[j].n < to[k].n)
    <3>1. CASE j \in L /\ k \in L
      BY <2>2, <3>1 DEF Wrote, InOrder, Adds
    <3>2. CASE j \in L /\ k = q
      BY <1>3, <3>2 DEF Adds
    <3>3. CASE j = q
      <4>1. FALSE
        BY <1>0, <2>2, <3>3 DEF Adds
      <4> QED
        BY <4>1
    <3> QED
      BY <3>1, <3>2, <3>3
  <2> QED
    BY <2>1, <2>2 DEF InOrder
<1>5. Writes(v, to, L \cup {q})
  <2>1. ASSUME NEW k \in L \cup {q}
        PROVE  /\ to[k].dh[2] <= v.self[2]
               /\ to[k].dh = v.self =>
                    to[k].key = <<v.sending, to[k].n>> /\ to[k].n < v.ns /\ to[k].pn = v.pn
    <3>1. CASE k \in L
      <4>1. /\ mail[k].dh[2] <= w.self[2]
            /\ mail[k].dh = w.self =>
                 mail[k].key = <<w.sending, mail[k].n>> /\ mail[k].n < w.ns /\ mail[k].pn = w.pn
        BY <3>1 DEF Wrote, Writes
      <4> QED
        BY <1>0, <3>1, <4>1 DEF Adds
    <3>2. CASE k = q
      BY <1>0, <3>2 DEF Adds
    <3> QED
      BY <3>1, <3>2
  <2>2. ASSUME NEW n \in 0..(v.ns - 1)
        PROVE  \E k \in L \cup {q} : to[k].dh = v.self /\ to[k].n = n
    <3>1. n \in 0..(w.ns - 1) \/ n = w.ns
      BY <1>0 DEF Adds
    <3>2. v.self = w.self /\ to[q].dh = w.self /\ to[q].n = w.ns
      BY DEF Adds
    <3> QED
      BY <1>2, <3>1, <3>2
  <2> QED
    BY <2>1, <2>2 DEF Writes
<1> QED
  BY <1>1, <1>4, <1>5 DEF Wrote, Adds

LEMMA OneMoreToRead ==
  ASSUME NEW w \in State, NEW v, NEW s \in State, NEW x, NEW mail, NEW to, NEW L, NEW q, NEW R, NEW bad,
         Wrote(x, w, mail, L), Adds(w, v, mail, to, L, q), Reads(s, x, w, mail, L, R, bad),
         q \notin R, s.remote[2] <= w.self[2], s.remote = w.self => s.receiving = w.sending
  PROVE  Reads(s, x, v, to, L \cup {q}, R, bad)
<1>0. /\ w.ns \in Nat /\ w.self \in Agents \X Nat /\ w.self[2] \in Nat
      /\ s.remote \in Agents \X Nat /\ s.remote[2] \in Nat /\ s.nr \in Nat
      /\ \A k \in L : to[k] = mail[k]
      /\ to[q].dh = w.self /\ to[q].n = w.ns /\ to[q].key = <<w.sending, w.ns>> /\ v.self = w.self
  BY DEF State, Adds
<1>1. Listens(s, x, v.self, to, L \cup {q}, bad)
  <2>1. /\ s.remote[1] = x
        /\ s.receiving = NoChain => s.remote[2] = 0
    BY DEF Reads, Listens
  <2>2. ASSUME s.remote \notin bad, NEW n \in 0..(s.nr - 1)
        PROVE  \E k \in L \cup {q} : to[k].dh = s.remote /\ to[k].n = n
    <3>1. PICK k \in L : mail[k].dh = s.remote /\ mail[k].n = n
      BY <2>2 DEF Reads, Listens
    <3> QED
      BY <1>0, <3>1
  <2>3. ASSUME NEW k \in L \cup {q}
        PROVE  /\ to[k].dh = s.remote => to[k].key = <<s.receiving, to[k].n>>
               /\ to[k].dh[2] > s.remote[2] => to[k].dh = v.self
    <3>1. CASE k \in L
      <4>1. /\ mail[k].dh = s.remote => mail[k].key = <<s.receiving, mail[k].n>>
            /\ mail[k].dh[2] > s.remote[2] => mail[k].dh = w.self
        BY <3>1 DEF Reads, Listens
      <4> QED
        BY <1>0, <3>1, <4>1
    <3>2. CASE k = q
      BY <1>0, <3>2
    <3> QED
      BY <3>1, <3>2
  <2> QED
    BY <2>1, <2>2, <2>3 DEF Listens
<1>2. Keeps(s, to, L \cup {q}, R, bad)
  <2>1. Passes(s, to[q]) => s.remote \in bad /\ to[q].dh = s.remote
    <3>1. SUFFICES ASSUME Passes(s, to[q]), s.remote \notin bad \/ to[q].dh # s.remote PROVE FALSE
      OBVIOUS
    <3>2. to[q].dh = s.remote /\ w.ns < s.nr /\ s.remote \notin bad
      BY <1>0, <3>1 DEF Passes
    <3>3. w.ns \in 0..(s.nr - 1)
      BY <1>0, <3>2
    <3>4. PICK k \in L : mail[k].dh = s.remote /\ mail[k].n = w.ns
      BY <3>2, <3>3 DEF Reads, Listens
    <3>5. mail[k].n < w.ns
      BY <1>0, <3>2, <3>4 DEF Wrote, Writes
    <3> QED
      BY <1>0, <3>4, <3>5
  <2>2. ASSUME NEW k \in L \cup {q}
        PROVE  /\ k \in R => Passes(s, to[k])
               /\ k \notin R /\ Passes(s, to[k]) /\ to[k].dh \notin bad => KeyOf(to[k]) \in s.skipped
    <3>1. CASE k = q
      BY <2>1, <3>1
    <3>2. CASE k \in L
      BY <1>0, <3>2 DEF Reads, Keeps
    <3> QED
      BY <3>1, <3>2
  <2>3. ASSUME NEW h \in s.skipped
        PROVE  \E k \in (L \cup {q}) \ R : h = KeyOf(to[k]) /\ Passes(s, to[k])
    <3>1. PICK k \in L \ R : h = KeyOf(mail[k]) /\ Passes(s, mail[k])
      BY DEF Reads, Keeps
    <3> QED
      BY <1>0, <3>1
  <2> QED
    BY <2>2, <2>3 DEF Keeps
<1>3. Heard(s, to, L \cup {q}, R)
  BY <1>0 DEF Reads, Heard
<1> QED
  BY <1>1, <1>2, <1>3 DEF Reads

\* The letters of the other agent are what they were, and a session reads as it
\* did if what it reads by is unchanged.
LEMMA SameLetters ==
  ASSUME NEW w, NEW x, NEW mail, NEW to, NEW L, \A k \in L : to[k] = mail[k], Wrote(x, w, mail, L)
  PROVE  Wrote(x, w, to, L)
<1>1. Mail(x, to, L)
  BY DEF Wrote, Mail
<1>2. InOrder(to, L)
  <2>1. ASSUME NEW k \in L, NEW n \in 0..(to[k].n - 1)
        PROVE  \E j \in L : to[j].dh = to[k].dh /\ to[j].n = n
    <3>1. PICK j \in L : mail[j].dh = mail[k].dh /\ mail[j].n = n
      BY <2>1 DEF Wrote, InOrder
    <3> QED
      BY <3>1
  <2> QED
    BY <2>1 DEF Wrote, InOrder
<1>3. Writes(w, to, L)
  BY DEF Wrote, Writes
<1> QED
  BY <1>1, <1>2, <1>3 DEF Wrote

LEMMA SameReading ==
  ASSUME NEW s, NEW r, NEW x, NEW w, NEW v, NEW mail, NEW to, NEW L, NEW R, NEW bad,
         \A k \in L : to[k] = mail[k], Reads(s, x, w, mail, L, R, bad), v.self = w.self,
         r.remote = s.remote, r.receiving = s.receiving, r.nr = s.nr, r.skipped = s.skipped
  PROVE  Reads(r, x, v, to, L, R, bad)
<1>1. \A k \in L : Passes(r, to[k]) <=> Passes(s, mail[k])
  BY DEF Passes
<1>2. Listens(r, x, v.self, to, L, bad)
  BY DEF Reads, Listens
<1>3. Keeps(r, to, L, R, bad)
  <2>1. ASSUME NEW h \in r.skipped
        PROVE  \E k \in L \ R : h = KeyOf(to[k]) /\ Passes(r, to[k])
    <3>1. PICK k \in L \ R : h = KeyOf(mail[k]) /\ Passes(s, mail[k])
      BY DEF Reads, Keeps
    <3> QED
      BY <1>1, <3>1
  <2> QED
    BY <1>1, <2>1 DEF Reads, Keeps
<1>4. Heard(r, to, L, R)
  BY DEF Reads, Heard
<1> QED
  BY <1>2, <1>3, <1>4 DEF Reads

\* Two agents stay together when one of them writes.
SameBut(v, w) ==
  /\ v.root = w.root /\ v.sending = w.sending /\ v.receiving = w.receiving
  /\ v.self = w.self /\ v.remote = w.remote /\ v.pn = w.pn
SameReader(v, w) == v.nr = w.nr /\ v.skipped = w.skipped

LEMMA FirstOfPairWrites ==
  ASSUME NEW w \in State, NEW v, NEW s \in State, NEW x, NEW y, NEW mail, NEW to, NEW A, NEW B,
         NEW R, NEW bad, NEW q,
         Pair(x, w, A, y, s, B, mail, R, bad), Ahead(w, s, mail, A),
         Adds(w, v, mail, to, A, q), SameBut(v, w), SameReader(v, w),
         \A k \in B : to[k] = mail[k], q \notin R
  PROVE  Pair(x, v, A \cup {q}, y, s, B, to, R, bad)
<1>0. /\ w.self \in Agents \X Nat /\ w.self[2] \in Nat /\ w.pn \in Nat
      /\ s.remote \in Agents \X Nat /\ s.remote[2] \in Nat /\ \A k \in A : to[k] = mail[k]
  BY DEF State, Adds
<1>1. s.remote[2] < w.self[2] /\ s.remote # w.self
  BY <1>0 DEF Pair, Linked
<1>2. Wrote(x, v, to, A \cup {q})
  BY OneMoreWritten DEF Pair
<1>3. Wrote(y, s, to, B)
  BY SameLetters DEF Pair
<1>4. Reads(s, x, v, to, A \cup {q}, R, bad)
  BY <1>0, <1>1, OneMoreToRead DEF Pair
<1>5. Reads(v, y, s, to, B, R, bad)
  BY SameReading DEF Pair, SameBut, SameReader
<1>6. Linked(v, s)
  BY DEF Pair, Linked, SameBut
<1>7. Ahead(v, s, to, A \cup {q})
  <2>1. ASSUME NEW k \in A \cup {q}, to[k].dh = s.remote PROVE to[k].n < v.pn
    <3>1. k \in A
      BY <1>1, <2>1 DEF Adds
    <3> QED
      BY <1>0, <2>1, <3>1 DEF Ahead, SameBut
  <2>2. ASSUME NEW n \in 0..(v.pn - 1)
        PROVE  \E k \in A \cup {q} : to[k].dh = s.remote /\ to[k].n = n
    <3>1. PICK k \in A : mail[k].dh = s.remote /\ mail[k].n = n
      BY <2>2 DEF Ahead, SameBut
    <3> QED
      BY <1>0, <3>1
  <2> QED
    BY <2>1, <2>2 DEF Ahead, SameBut
<1> QED
  BY <1>2, <1>3, <1>4, <1>5, <1>6, <1>7 DEF Pair

LEMMA SecondOfPairWrites ==
  ASSUME NEW w \in State, NEW v, NEW s \in State, NEW x, NEW y, NEW mail, NEW to, NEW A, NEW B,
         NEW R, NEW bad, NEW q,
         Pair(x, w, A, y, s, B, mail, R, bad),
         Adds(s, v, mail, to, B, q), SameBut(v, s), SameReader(v, s),
         \A k \in A : to[k] = mail[k], q \notin R
  PROVE  Pair(x, w, A, y, v, B \cup {q}, to, R, bad)
<1>0. s.self \in Agents \X Nat /\ s.self[2] \in Nat
  BY DEF State
<1>1. w.remote = s.self /\ w.receiving = s.sending
  BY DEF Pair, Linked
<1>2. Wrote(x, w, to, A)
  BY SameLetters DEF Pair
<1>3. Wrote(y, v, to, B \cup {q})
  BY OneMoreWritten DEF Pair
<1>4. Reads(v, x, w, to, A, R, bad)
  BY SameReading DEF Pair, SameBut, SameReader
<1>5. w.remote[2] <= s.self[2]
  BY <1>0, <1>1
<1>6. Reads(w, y, v, to, B \cup {q}, R, bad)
  BY <1>1, <1>5, OneMoreToRead DEF Pair
<1>7. Linked(w, v)
  BY DEF Pair, Linked, SameBut
<1>8. CASE Answering(w, s, A)
  <2>1. Answering(w, v, A)
    BY <1>8 DEF Answering, SameBut
  <2> QED
    BY <1>2, <1>3, <1>4, <1>6, <1>7, <2>1 DEF Pair
<1>9. CASE Ahead(w, s, mail, A)
  <2>1. ASSUME NEW n \in 0..(w.pn - 1) PROVE \E k \in A : to[k].dh = v.remote /\ to[k].n = n
    <3>1. PICK k \in A : mail[k].dh = s.remote /\ mail[k].n = n
      BY <1>9 DEF Ahead
    <3> QED
      BY <3>1 DEF SameBut
  <2>2. Ahead(w, v, to, A)
    BY <1>9, <2>1 DEF Ahead, SameBut
  <2> QED
    BY <1>2, <1>3, <1>4, <1>6, <1>7, <2>2 DEF Pair
<1> QED
  BY <1>8, <1>9 DEF Pair

LEMMA LongerIsChain == \A c \in Chains : \A d \in Secrets : Append(c, d) \in Chains /\ Append(c, d) # NoChain
<1> SUFFICES ASSUME NEW c \in Chains, NEW d \in Secrets PROVE Append(c, d) \in Chains /\ Append(c, d) # NoChain
  OBVIOUS
<1>1. c \in Seq(Secrets)
  BY DEF Chains
<1>2. PICK e : e = Append(c, d)
  OBVIOUS
<1>3. e \in Seq(Secrets) /\ Len(e) = Len(c) + 1 /\ Len(c) \in Nat
  BY <1>1, <1>2
<1>4. e # NoChain
  <2>1. Len(NoChain) = 0
    BY DEF NoChain
  <2> QED
    BY <1>3, <2>1
<1> QED
  BY <1>2, <1>3, <1>4 DEF Chains

\* The first letter of the one who has not written begins its sending chain.
LEMMA AnswerStarts ==
  ASSUME NEW w \in State, NEW s \in State, NEW x, NEW y, NEW mail, NEW A, NEW B, NEW R, NEW bad,
         Pair(x, w, A, y, s, B, mail, R, bad)
  PROVE  LET v == WithSendChain(w)
         IN /\ Pair(x, v, A, y, s, B, mail, R, bad) /\ Ahead(v, s, mail, A) /\ v.sending # NoChain
<1> DEFINE root == Append(w.root, DH(w.self, w.remote))
<1>1. root # NoChain
  <2>1. w.root \in Chains /\ DH(w.self, w.remote) \in Secrets
    BY SecretTyped DEF State
  <2> QED
    BY <2>1, LongerIsChain
<1>2. CASE Ahead(w, s, mail, A)
  <2>1. w.sending # NoChain
    <3>1. w.root = Append(s.root, DH(s.self, w.self)) /\ w.sending = w.root
      BY <1>2 DEF Ahead
    <3>2. s.root \in Chains /\ DH(s.self, w.self) \in Secrets
      BY SecretTyped DEF State
    <3> QED
      BY <3>1, <3>2, LongerIsChain
  <2>2. WithSendChain(w) = w
    BY <2>1 DEF WithSendChain
  <2> QED
    BY <1>2, <2>1, <2>2
<1>3. CASE Answering(w, s, A)
  <2>1. WithSendChain(w) = [w EXCEPT !.root = root, !.sending = root]
    BY <1>3 DEF WithSendChain, Answering
  <2> HIDE DEF root
  <2>2. PICK v : v = WithSendChain(w)
    OBVIOUS
  <2>3. /\ v.root = root /\ v.sending = root /\ v.receiving = w.receiving /\ v.self = w.self
        /\ v.remote = w.remote /\ v.pn = w.pn /\ v.ns = w.ns /\ v.nr = w.nr /\ v.skipped = w.skipped
    BY <2>1, <2>2 DEF State
  <2>4. A = {} /\ w.ns = 0 /\ w.pn = 0 /\ w.root = s.root
    BY <1>3 DEF Answering
  <2>5. Wrote(x, v, mail, A)
    BY <2>3, <2>4 DEF Pair, Wrote, Writes
  <2>6. Reads(s, x, v, mail, A, R, bad) /\ Reads(v, y, s, mail, B, R, bad)
    BY <2>3, SameReading DEF Pair
  <2>7. Linked(v, s)
    BY <2>3 DEF Pair, Linked
  <2>8. Ahead(v, s, mail, A)
    <3>1. w.remote = s.self
      BY DEF Pair, Linked
    <3>2. root = Append(s.root, DH(s.self, w.self))
      BY <2>4, <3>1 DEF root, DH
    <3> QED
      BY <2>3, <2>4, <3>2 DEF Ahead
  <2> QED
    BY <1>1, <2>2, <2>3, <2>5, <2>6, <2>7, <2>8 DEF Pair
<1> QED
  BY <1>2, <1>3 DEF Pair

-----------------------------------------------------------------------------
\* What is unread before message m, when it comes, is what it misses.
LEMMA UnreadIsMissing ==
  ASSUME RTTypes, NEW m \in DOMAIN sent, sent[m].era = era, NEW x, x = sent[m].from,
         Mail(x, sent, Letters(x)), InOrder(sent, Letters(x)),
         NEW s, s.remote \in Agents \X Nat, NEW until \in Nat,
         s.remote[2] < sent[m].dh[2] \/ (s.remote = sent[m].dh /\ until <= sent[m].n)
  PROVE  IsFiniteSet(Missing(m)) /\ Unread(s, until, sent, Letters(x), received) \subseteq Missing(m)
<1>0. sent \in Seq(Message) /\ Len(sent) \in Nat /\ DOMAIN sent = 1..Len(sent) /\ m \in Nat
  BY DEF RTTypes, RTMessages
<1>1. IsFiniteSet(Missing(m))
  <2>1. IsFiniteSet(1..m)
    <3>1. \A b, e \in Int : IsFiniteSet(b..e)
      BY FS_Interval
    <3>2. 1 \in Int /\ m \in Int
      BY <1>0
    <3> QED
      BY <3>1, <3>2, Zenon
  <2>2. Missing(m) \subseteq 1..m
    BY DEF Missing
  <2> QED
    BY <2>1, <2>2, FS_Subset
<1>2. ASSUME NEW k \in Unread(s, until, sent, Letters(x), received) PROVE k \in Missing(m)
  <2>1. k \in Letters(x) /\ k \notin received /\ PassesUpTo(s, sent[k], until) /\ m \in Letters(x)
    BY <1>2 DEF Unread, Letters
  <2>2. /\ k \in Nat /\ sent[k].dh \in Agents \X Nat /\ sent[k].dh[2] \in Nat /\ sent[k].n \in Nat
        /\ sent[m].dh[2] \in Nat /\ sent[m].n \in Nat /\ s.remote[2] \in Nat
    BY <2>1 DEF Mail, Message
  <2>3. \/ sent[k].dh[2] < sent[m].dh[2]
        \/ sent[k].dh = sent[m].dh /\ sent[k].n < sent[m].n
    BY <2>1, <2>2 DEF PassesUpTo
  <2>4. ASSUME m < k PROVE FALSE
    <3>1. \A i, j \in Letters(x) :
            i < j => sent[i].dh[2] < sent[j].dh[2] \/ (sent[i].dh = sent[j].dh /\ sent[i].n < sent[j].n)
      BY DEF InOrder
    <3>2. sent[m].dh[2] < sent[k].dh[2] \/ (sent[m].dh = sent[k].dh /\ sent[m].n < sent[k].n)
      BY <2>1, <2>4, <3>1
    <3> QED
      BY <2>2, <2>3, <3>2
  <2>5. k # m
    BY <2>2, <2>3
  <2>6. k \in 1..m
    BY <1>0, <2>1, <2>2, <2>4 DEF Letters
  <2> QED
    BY <2>1, <2>5, <2>6 DEF Missing, Letters
<1> QED
  BY <1>1, <1>2

\* Taking a message changes only how far the session has read.
LEMMA TakeKeeps ==
  ASSUME NEW t \in State, Held(t), NEW n \in Nat, NEW kept
  PROVE  LET v == Takes(t, Skip(t, n), kept) IN SameBut(v, t) /\ v.ns = t.ns
<1>1. PICK u : u = Skip(t, n)
  OBVIOUS
<1>2. u \in State /\ u = [t EXCEPT !.nr = u.nr, !.skipped = u.skipped]
  BY <1>1, SkipAdvances DEF Advanced
<1>3. SameBut(u, t) /\ u.ns = t.ns
  BY <1>2 DEF SameBut, State
<1>4. PICK v : v = Takes(t, u, kept)
  OBVIOUS
<1>5. CASE kept # {}
  BY <1>1, <1>4, <1>5 DEF Takes, SameBut, State
<1>6. CASE kept = {}
  <2>1. v = [u EXCEPT !.nr = @ + 1]
    BY <1>4, <1>6 DEF Takes
  <2>2. SameBut(v, u) /\ v.ns = u.ns
    BY <1>2, <2>1 DEF SameBut, State
  <2> QED
    BY <1>1, <1>3, <1>4, <2>2 DEF SameBut
<1> QED
  BY <1>5, <1>6

\* Two agents stay together when one of them takes a message of the chain it reads.
LEMMA FirstOfPairTakes ==
  ASSUME NEW w, NEW v, NEW s, NEW x, NEW y, NEW mail, NEW A, NEW B, NEW R, NEW bad, NEW worse, NEW m,
         Pair(x, w, A, y, s, B, mail, R, bad), SameBut(v, w), v.ns = w.ns, bad \subseteq worse,
         m \in B, m \notin A, mail[m].dh = w.remote,
         Listens(v, y, s.self, mail, B, worse), Keeps(v, mail, B, R \cup {m}, worse)
  PROVE  Pair(x, v, A, y, s, B, mail, R \cup {m}, worse)
<1>1. Wrote(x, v, mail, A) /\ Wrote(y, s, mail, B)
  BY DEF Pair, Wrote, Writes, SameBut
<1>2. Reads(v, y, s, mail, B, R \cup {m}, worse)
  BY DEF Reads, Heard, SameBut
<1>3. Reads(s, x, v, mail, A, R \cup {m}, worse)
  <2>1. Listens(s, x, v.self, mail, A, worse)
    BY StillListens DEF Pair, Reads, SameBut
  <2>2. A \cap R = A \cap (R \cup {m})
    OBVIOUS
  <2>3. Keeps(s, mail, A, R \cup {m}, worse)
    BY <2>2, StillKeeps DEF Pair, Reads
  <2>4. Heard(s, mail, A, R \cup {m})
    BY DEF Pair, Reads, Heard
  <2> QED
    BY <2>1, <2>3, <2>4 DEF Reads
<1>4. Linked(v, s) /\ (Ahead(v, s, mail, A) \/ Answering(v, s, A))
  BY DEF Pair, Linked, Ahead, Answering, SameBut
<1> QED
  BY <1>1, <1>2, <1>3, <1>4 DEF Pair

LEMMA SecondOfPairTakes ==
  ASSUME NEW w, NEW v, NEW s, NEW x, NEW y, NEW mail, NEW A, NEW B, NEW R, NEW bad, NEW worse, NEW m,
         Pair(x, w, A, y, s, B, mail, R, bad), SameBut(v, s), v.ns = s.ns, bad \subseteq worse,
         m \in A, m \notin B, mail[m].dh = s.remote,
         Listens(v, x, w.self, mail, A, worse), Keeps(v, mail, A, R \cup {m}, worse)
  PROVE  Pair(x, w, A, y, v, B, mail, R \cup {m}, worse)
<1>1. Wrote(x, w, mail, A) /\ Wrote(y, v, mail, B)
  BY DEF Pair, Wrote, Writes, SameBut
<1>2. Reads(v, x, w, mail, A, R \cup {m}, worse)
  BY DEF Reads, Heard, SameBut
<1>3. Reads(w, y, v, mail, B, R \cup {m}, worse)
  <2>1. Listens(w, y, v.self, mail, B, worse)
    BY StillListens DEF Pair, Reads, SameBut
  <2>2. B \cap R = B \cap (R \cup {m})
    OBVIOUS
  <2>3. Keeps(w, mail, B, R \cup {m}, worse)
    BY <2>2, StillKeeps DEF Pair, Reads
  <2>4. Heard(w, mail, B, R \cup {m})
    BY DEF Pair, Reads, Heard
  <2> QED
    BY <2>1, <2>3, <2>4 DEF Reads
<1>4. Linked(w, v) /\ (Ahead(w, v, mail, A) \/ Answering(w, v, A))
  BY DEF Pair, Linked, Ahead, Answering, SameBut
<1> QED
  BY <1>1, <1>2, <1>3, <1>4 DEF Pair

\* The other one's next chain: a session that passes to it holds what it has to,
\* and the two have changed places.
TurnsTo(t, w, s, fresh) ==
  /\ t.remote = w.self /\ t.receiving = w.sending /\ t.self = fresh
  /\ t.root = Append(w.root, DH(w.self, fresh)) /\ t.sending = t.root /\ t.ns = 0 /\ t.pn = s.ns

LEMMA PairTurns ==
  ASSUME NEW w \in State, NEW s \in State, Held(s), NEW x, NEW y, NEW mail, NEW A, NEW B, NEW R,
         NEW bad, NEW worse, bad \subseteq worse, NEW fresh \in Agents \X Nat,
         Pair(x, w, A, y, s, B, mail, R, bad), Ahead(w, s, mail, A),
         NEW T, IsFiniteSet(T), Unread(s, w.pn, mail, A, R) \subseteq T,
         Cardinality(T) <= MaxSkip \/ \A k \in T : mail[k].dh \in worse
  PROVE  LET t == DHRatchet(s, w.self, w.pn, fresh)
         IN /\ t \in State /\ Held(t) /\ TurnsTo(t, w, s, fresh)
            /\ Listens(t, x, w.self, mail, A, worse) /\ Keeps(t, mail, A, R, worse)
<1> DEFINE from == Append(s.root, DH(s.self, w.self))
           to == Append(from, DH(fresh, w.self))
<1>0. /\ w.self \in Agents \X Nat /\ w.self[2] \in Nat /\ w.pn \in Nat
      /\ s.remote \in Agents \X Nat /\ s.remote[2] \in Nat /\ s.nr \in Nat
  BY DEF State
<1>1. PICK p : p = Skip(s, w.pn)
  OBVIOUS
<1>2. p \in State /\ Held(p) /\ p.remote = s.remote /\ p.receiving = s.receiving
  <2>1. Advanced(s, p, w.pn)
    BY <1>0, <1>1, SkipAdvances
  <2> QED
    BY <2>1 DEF Advanced, State
<1>3. Listens(p, x, w.self, mail, A, worse) /\ Keeps(p, mail, A, R, worse)
  <2>1. \A n \in s.nr..(w.pn - 1) : n \in 0..(w.pn - 1)
    BY <1>0
  <2>2. Full(s, w.pn, mail, A)
    BY <2>1 DEF Full, Ahead
  <2>3. /\ Mail(x, mail, A) /\ Listens(s, x, w.self, mail, A, bad) /\ Keeps(s, mail, A, R, bad)
    BY DEF Pair, Wrote, Reads
  <2> QED
    BY <1>0, <1>1, <2>2, <2>3, SkipFollows
<1>4. p.nr >= w.pn \/ p.remote[2] = 0
  <2>1. CASE p = s /\ s.receiving = NoChain
    BY <2>1 DEF Pair, Reads, Listens
  <2>2. CASE p = s /\ w.pn <= s.nr
    BY <1>0, <2>2
  <2>3. CASE \E l \in Nat : SkipsTo(s, p, w.pn, l)
    BY <1>0, <2>3 DEF SkipsTo
  <2> QED
    BY <1>0, <1>1, <2>1, <2>2, <2>3, SkipGives
<1>5. PICK t : t = DHRatchet(s, w.self, w.pn, fresh)
  OBVIOUS
<1>6. t = [p EXCEPT !.pn = s.ns, !.ns = 0, !.nr = 0, !.remote = w.self,
                    !.receiving = from, !.self = fresh, !.root = to, !.sending = to]
  BY <1>1, <1>5 DEF DHRatchet
<1>7. t \in State /\ Held(t)
  BY <1>0, <1>5, RatchetTyped DEF Turned
<1>8. w.sending = w.root /\ w.root = from
  BY DEF Ahead
<1>9. to = Append(w.root, DH(w.self, fresh))
  BY <1>8 DEF DH
<1> HIDE DEF from, to
<1>10. /\ t.pn = s.ns /\ t.ns = 0 /\ t.nr = 0 /\ t.remote = w.self /\ t.receiving = from
       /\ t.self = fresh /\ t.root = to /\ t.sending = to /\ t.skipped = p.skipped
  BY <1>2, <1>6 DEF State
<1>11. TurnsTo(t, w, s, fresh)
  BY <1>8, <1>9, <1>10 DEF TurnsTo
<1>12. t.receiving # NoChain
  <2>1. s.root \in Chains /\ DH(s.self, w.self) \in Secrets
    BY SecretTyped DEF State
  <2> QED
    BY <1>10, <2>1, LongerIsChain DEF from
<1>13. ASSUME NEW k \in A
       PROVE  /\ mail[k].dh = p.remote => mail[k].n < w.pn
              /\ mail[k].dh[2] <= w.self[2]
              /\ mail[k].dh = w.self => mail[k].key = <<t.receiving, mail[k].n>>
  <2>1. mail[k].dh = s.remote => mail[k].n < w.pn
    BY DEF Ahead
  <2>2. mail[k].dh[2] <= w.self[2] /\ (mail[k].dh = w.self => mail[k].key = <<w.sending, mail[k].n>>)
    BY DEF Pair, Wrote, Writes
  <2> QED
    BY <1>2, <1>8, <1>10, <2>1, <2>2
<1>14. p.remote[2] < w.self[2] /\ w.self[1] = x /\ Mail(x, mail, A)
  BY <1>2 DEF Pair, Linked, Wrote
<1>15. p.remote \in Agents \X Nat /\ p.nr \in Nat
  BY <1>2 DEF State
<1>16. Listens(t, x, w.self, mail, A, worse) /\ Keeps(t, mail, A, R, worse)
  <2>1. PICK own : own = w.self
    OBVIOUS
  <2>2. /\ own \in Agents \X Nat /\ own[1] = x /\ p.remote[2] < own[2]
        /\ Listens(p, x, own, mail, A, worse) /\ t.remote = own
        /\ \A k \in A : /\ mail[k].dh = p.remote => mail[k].n < w.pn
                        /\ mail[k].dh[2] <= own[2]
                        /\ mail[k].dh = own => mail[k].key = <<t.receiving, mail[k].n>>
    BY <1>0, <1>3, <1>10, <1>13, <1>14, <2>1
  <2>3. Listens(t, x, own, mail, A, worse) /\ Keeps(t, mail, A, R, worse)
    BY <1>0, <1>3, <1>4, <1>10, <1>12, <1>14, <1>15, <2>2, TurnFollows
  <2> QED
    BY <2>1, <2>3
<1> QED
  BY <1>5, <1>7, <1>11, <1>16

LEMMA TurnTaken ==
  ASSUME NEW w \in State, NEW s \in State, NEW x, NEW y, NEW mail, NEW A, NEW B, NEW R, NEW bad,
         NEW worse, NEW t, NEW v, NEW m, NEW fresh \in Agents \X Nat,
         bad \subseteq worse, fresh[1] = y, s.self[2] < fresh[2],
         Pair(x, w, A, y, s, B, mail, R, bad), Ahead(w, s, mail, A),
         TurnsTo(t, w, s, fresh), SameBut(v, t), v.ns = t.ns,
         m \in A, m \notin B, mail[m].dh = w.self,
         Listens(v, x, w.self, mail, A, worse), Keeps(v, mail, A, R \cup {m}, worse)
  PROVE  Pair(y, v, B, x, w, A, mail, R \cup {m}, worse)
<1>0. /\ v.remote = w.self /\ v.receiving = w.sending /\ v.self = fresh
      /\ v.root = Append(w.root, DH(w.self, fresh)) /\ v.sending = v.root /\ v.ns = 0 /\ v.pn = s.ns
  BY DEF TurnsTo, SameBut
<1>1. /\ s.self \in Agents \X Nat /\ s.self[2] \in Nat /\ fresh[2] \in Nat /\ s.ns \in Nat
      /\ w.remote = s.self /\ s.self[2] > 0 /\ s.self[1] = y
  BY DEF State, Pair, Linked, Wrote
<1>2. ASSUME NEW k \in B PROVE mail[k].dh[2] <= s.self[2] /\ mail[k].dh[2] \in Nat
  BY DEF Pair, Wrote, Writes, Mail, Message
<1>3. Wrote(y, v, mail, B)
  <2>1. \A k \in B : mail[k].dh[2] <= v.self[2] /\ mail[k].dh # v.self
    BY <1>0, <1>1, <1>2
  <2>2. \A n \in 0..(v.ns - 1) : FALSE
    BY <1>0
  <2>3. Writes(v, mail, B)
    BY <2>1, <2>2 DEF Writes
  <2> QED
    BY <1>0, <1>1, <2>3 DEF Pair, Wrote
<1>4. Wrote(x, w, mail, A)
  BY DEF Pair
<1>5. Reads(w, y, v, mail, B, R \cup {m}, worse)
  <2>1. \A k \in B : ~(mail[k].dh[2] > w.remote[2])
    BY <1>1, <1>2
  <2>2. Listens(w, y, v.self, mail, B, worse)
    BY <2>1, StillListens DEF Pair, Reads
  <2>3. B \cap R = B \cap (R \cup {m})
    OBVIOUS
  <2>4. Keeps(w, mail, B, R \cup {m}, worse)
    BY <2>3, StillKeeps DEF Pair, Reads
  <2>5. Heard(w, mail, B, R \cup {m})
    BY DEF Pair, Reads, Heard
  <2> QED
    BY <2>2, <2>4, <2>5 DEF Reads
<1>6. Reads(v, x, w, mail, A, R \cup {m}, worse)
  BY <1>0 DEF Reads, Heard
<1>7. Linked(v, w)
  <2>1. w.sending = w.root /\ w.sending # NoChain
    <3>1. w.root = Append(s.root, DH(s.self, w.self)) /\ w.sending = w.root
      BY DEF Ahead
    <3>2. s.root \in Chains /\ DH(s.self, w.self) \in Secrets
      BY SecretTyped DEF State
    <3> QED
      BY <3>1, <3>2, LongerIsChain
  <2> QED
    BY <1>0, <1>1, <2>1 DEF Linked
<1>8. Ahead(v, w, mail, B)
  <2>1. \A k \in B : mail[k].dh = w.remote => mail[k].n < v.pn
    BY <1>0, <1>1 DEF Pair, Wrote, Writes
  <2>2. \A n \in 0..(v.pn - 1) : \E k \in B : mail[k].dh = w.remote /\ mail[k].n = n
    BY <1>0, <1>1 DEF Pair, Wrote, Writes
  <2> QED
    BY <1>0, <2>1, <2>2 DEF Ahead
<1> QED
  BY <1>3, <1>4, <1>5, <1>6, <1>7, <1>8 DEF Pair

\* The first message that comes at all.
LEMMA FirstIsRead ==
  ASSUME NEW w \in State, NEW x, NEW y \in Agents, NEW mail, NEW L, NEW R, NEW bad,
         First(x, y, w, mail, L, R), ReceiverState(y, w.self) \in State
  PROVE  LET s == ReceiverState(y, w.self)
         IN Listens(s, x, w.self, mail, L, bad) /\ Keeps(s, mail, L, R, bad)
<1>1. PICK s : s = ReceiverState(y, w.self)
  OBVIOUS
<1>2. /\ s.root = <<DH(LongTerm(y), w.self)>> /\ s.receiving = s.root
      /\ s.remote = w.self /\ s.nr = 0 /\ s.skipped = {}
  BY <1>1 DEF ReceiverState
<1>3. s.receiving = w.sending
  BY <1>2 DEF First, DH
<1>4. s.receiving # NoChain
  BY <1>2 DEF NoChain
<1>5. w.self \in Agents \X Nat /\ w.self[2] \in Nat /\ w.self[1] = x
  BY DEF State, First, Wrote
<1>6. ASSUME NEW k \in L
      PROVE  /\ mail[k].dh = w.self /\ mail[k].key = <<w.sending, mail[k].n>>
             /\ mail[k].n \in Nat /\ k \notin R
  BY DEF First, Wrote, Writes, Mail, Message
<1>7. \A n \in 0..(s.nr - 1) : FALSE
  BY <1>2
<1>8. Listens(s, x, w.self, mail, L, bad)
  BY <1>2, <1>3, <1>4, <1>5, <1>6, <1>7 DEF Listens
<1>9. \A k \in L : ~Passes(s, mail[k])
  BY <1>2, <1>5, <1>6 DEF Passes
<1>10. Keeps(s, mail, L, R, bad)
  BY <1>2, <1>6, <1>9 DEF Keeps
<1> QED
  BY <1>1, <1>8, <1>10

LEMMA FirstIsTaken ==
  ASSUME keys \in [Agents -> Nat],
         NEW w \in State, NEW x, NEW y \in Agents, NEW mail, NEW L, NEW R, NEW worse, NEW m, NEW v,
         First(x, y, w, mail, L, R), SameBut(v, ReceiverState(y, w.self)), v.ns = 0,
         m \in L, mail[m].dh = w.self,
         Listens(v, x, w.self, mail, L, worse), Keeps(v, mail, L, R \cup {m}, worse)
  PROVE  Pair(y, v, {}, x, w, L, mail, R \cup {m}, worse)
<1>1. /\ v.root = <<DH(LongTerm(y), w.self)>> /\ v.receiving = v.root /\ v.sending = NoChain
      /\ v.remote = w.self /\ v.self = Fresh(y) /\ v.pn = 0 /\ v.ns = 0
  BY DEF ReceiverState, SameBut
<1>2. v.self[1] = y /\ v.self[2] > 0
  BY <1>1 DEF Fresh
<1>3. Wrote(y, v, mail, {})
  <2>1. \A n \in 0..(v.ns - 1) : FALSE
    BY <1>1
  <2> QED
    BY <1>2, <2>1 DEF Wrote, Mail, InOrder, Writes
<1>4. Wrote(x, w, mail, L)
  BY DEF First
<1>5. Reads(w, y, v, mail, {}, R \cup {m}, worse)
  <2>1. \A n \in 0..(w.nr - 1) : FALSE
    BY DEF First
  <2> QED
    BY <2>1 DEF First, LongTerm, Reads, Listens, Keeps, Heard
<1>6. Reads(v, x, w, mail, L, R \cup {m}, worse)
  BY <1>1 DEF Reads, Heard
<1>7. Linked(v, w)
  <2>1. v.receiving = w.sending /\ w.sending = w.root /\ w.sending # NoChain
    BY <1>1 DEF First, DH, NoChain
  <2>2. w.remote[2] = 0
    BY DEF First, LongTerm
  <2> QED
    BY <1>1, <1>2, <2>1, <2>2 DEF Linked
<1>8. Answering(v, w, {})
  BY <1>1 DEF Answering, First, DH
<1> QED
  BY <1>3, <1>4, <1>5, <1>6, <1>7, <1>8 DEF Pair

-----------------------------------------------------------------------------
\* Encrypt keeps two agents together, unless both write first.
LEMMA EncryptTogether ==
  ASSUME RTTypes, Eras, ~broken => Together, NEW a \in Agents, Encrypt(a)
  PROVE  Eras' /\ (~broken' => Together')
<1> DEFINE new == session[a] = NoSession
           base == IF new THEN SenderState(a) ELSE session[a]
           s == WithSendChain(base)
           msg == [from |-> a, dh |-> s.self, pn |-> s.pn, n |-> s.ns,
                   key |-> <<s.sending, s.ns>>, era |-> era]
           q == Len(sent) + 1
<1>0. /\ keys \in [Agents -> Nat] /\ session \in [Agents -> State \cup {NoSession}]
      /\ sent \in Seq(Message) /\ Len(sent) \in Nat /\ DOMAIN sent = 1..Len(sent)
      /\ received \subseteq DOMAIN sent /\ era \in Nat
  BY DEF RTTypes, RTSessions, RTMessages, RTMarks
<1>1. base \in State
  BY <1>0, SenderTyped
<1>2. s \in State
  BY <1>1, SendChainTyped
<1>3. /\ sent' = Append(sent, msg) /\ session' = [session EXCEPT ![a] = [s EXCEPT !.ns = @ + 1]]
      /\ (broken' <=> (broken \/ (new /\ session[Peer(a)] # NoSession)))
      /\ received' = received /\ spoiled' = spoiled /\ era' = era
  BY DEF Encrypt
<1>4. PICK v : v = [s EXCEPT !.ns = @ + 1]
  OBVIOUS
<1> HIDE DEF s, base
<1>5. v \in State /\ v.ns = s.ns + 1 /\ SameBut(v, s) /\ SameReader(v, s)
  BY <1>2, <1>4 DEF State, SameBut, SameReader
<1>6. msg \in Message
  BY <1>0, <1>2 DEF Message, State
<1>7. PICK g : g = msg
  OBVIOUS
<1>8. /\ g \in Message /\ g.from = a /\ g.dh = s.self /\ g.pn = s.pn /\ g.n = s.ns
      /\ g.key = <<s.sending, s.ns>> /\ g.era = era
  BY <1>6, <1>7
<1> HIDE DEF msg
<1>9. /\ DOMAIN sent' = DOMAIN sent \cup {q} /\ q \notin DOMAIN sent /\ q \in Nat /\ sent'[q] = g
      /\ \A k \in DOMAIN sent : sent'[k] = sent[k] /\ k < q
  <2>1. sent' = Append(sent, g)
    BY <1>3, <1>7
  <2>2. Len(sent') = Len(sent) + 1 /\ sent' \in Seq(Message)
    BY <1>0, <1>8, <2>1
  <2>3. DOMAIN sent' = 1..(Len(sent) + 1)
    BY <1>0, <2>2
  <2> QED
    BY <1>0, <2>1, <2>3
<1>10. PICK d : d = q
  OBVIOUS
<1> HIDE DEF q
<1>11. /\ Letters(a)' = Letters(a) \cup {d} /\ d \notin Letters(a) /\ d \notin received
       /\ \A b \in Agents : b # a => Letters(b)' = Letters(b)
  BY <1>0, <1>3, <1>8, <1>9, <1>10 DEF Letters
<1>12. /\ \A b \in Agents : \A k \in Letters(b) : sent'[k] = sent[k]
       /\ Adds(s, v, sent, sent', Letters(a), d)
  BY <1>5, <1>8, <1>9, <1>10 DEF Letters, Adds, SameBut
<1>13. session'[a] = v /\ v # NoSession /\ \A b \in Agents : b # a => session'[b] = session[b]
  BY <1>0, <1>3, <1>4, <1>5, NoSessionIsNone
<1>14. Eras'
  BY <1>0, <1>3, <1>8, <1>9 DEF Eras
<1>15. ASSUME ~broken' PROVE Together'
  <2>1. ~broken /\ Together /\ (new => session[Peer(a)] = NoSession)
    BY <1>3, <1>15
  <2>2. CASE Strangers
    <3>1. new /\ Letters(a) = {} /\ session[Peer(a)] = NoSession /\ Letters(Peer(a)) = {}
      BY <2>2, PeerIsOther DEF Strangers
    <3>2. PICK r : r = SenderState(a)
      OBVIOUS
    <3>3. /\ r.root = <<DH(Fresh(a), LongTerm(Peer(a)))>> /\ r.sending = r.root
          /\ r.receiving = NoChain /\ r.self = Fresh(a) /\ r.remote = LongTerm(Peer(a))
          /\ r.ns = 0 /\ r.nr = 0 /\ r.pn = 0 /\ r.skipped = {}
      BY <3>2 DEF SenderState
    <3>4. s = r
      <4>1. r.sending # NoChain
        BY <3>3 DEF NoChain
      <4> QED
        BY <3>1, <3>2, <4>1 DEF s, base, WithSendChain
    <3>5. Wrote(a, s, sent, Letters(a))
      <4>1. s.self[1] = a /\ s.self[2] > 0
        BY <1>0, <3>3, <3>4 DEF Fresh
      <4>2. \A n \in 0..(s.ns - 1) : FALSE
        BY <3>3, <3>4
      <4> QED
        BY <3>1, <4>1, <4>2 DEF Wrote, Mail, InOrder, Writes
    <3>6. Wrote(a, v, sent', Letters(a) \cup {d})
      BY <1>2, <1>12, <3>5, OneMoreWritten
    <3>7. First(a, Peer(a), v, sent', Letters(a) \cup {d}, received)
      <4>1. /\ v.root = <<DH(v.self, LongTerm(Peer(a)))>> /\ v.sending = v.root /\ v.receiving = NoChain
            /\ v.remote = LongTerm(Peer(a)) /\ v.nr = 0 /\ v.pn = 0 /\ v.skipped = {}
        BY <1>5, <3>3, <3>4 DEF SameBut, SameReader
      <4>2. \A k \in Letters(a) \cup {d} : sent'[k].dh = v.self /\ k \notin received
        BY <1>5, <1>8, <1>9, <1>10, <1>11, <3>1 DEF SameBut
      <4> QED
        BY <3>6, <4>1, <4>2 DEF First
    <3>8. /\ session'[a] # NoSession /\ session'[Peer(a)] = NoSession /\ Letters(Peer(a))' = {}
      BY <1>11, <1>13, <3>1, PeerIsOther
    <3>9. WroteFirst(a)'
      <4>1. First(a, Peer(a), session'[a], sent', Letters(a)', received')
        BY <1>3, <1>11, <1>13, <3>7
      <4> QED
        BY <3>8, <4>1 DEF WroteFirst
    <3> QED
      BY <3>9 DEF Together
  <2>3. ASSUME NEW x \in Agents, WroteFirst(x) PROVE Together'
    <3>1. a = x
      <4>1. CASE a = Peer(x)
        <5>1. new /\ session[x] # NoSession /\ Peer(a) = x
          BY <2>3, <4>1, PeerOfPeer DEF WroteFirst
        <5> QED
          BY <2>1, <5>1
      <4> QED
        BY <4>1, OtherIsPeer
    <3>2. First(a, Peer(a), session[a], sent, Letters(a), received) /\ ~new
      BY <2>3, <3>1 DEF WroteFirst
    <3>3. s = session[a]
      <4>1. session[a].sending # NoChain
        BY <3>2 DEF First, NoChain
      <4> QED
        BY <3>2, <4>1 DEF s, base, WithSendChain
    <3>4. Wrote(a, v, sent', Letters(a) \cup {d})
      BY <1>2, <1>12, <3>2, <3>3, OneMoreWritten DEF First
    <3>5. First(a, Peer(a), v, sent', Letters(a) \cup {d}, received)
      <4>1. /\ v.root = <<DH(v.self, LongTerm(Peer(a)))>> /\ v.sending = v.root /\ v.receiving = NoChain
            /\ v.remote = LongTerm(Peer(a)) /\ v.nr = 0 /\ v.pn = 0 /\ v.skipped = {}
        BY <1>5, <3>2, <3>3 DEF First, SameBut, SameReader
      <4>2. ASSUME NEW k \in Letters(a) \cup {d} PROVE sent'[k].dh = v.self /\ k \notin received
        <5>1. CASE k = d
          BY <1>5, <1>8, <1>9, <1>10, <1>11, <5>1 DEF SameBut
        <5>2. CASE k \in Letters(a)
          BY <1>5, <1>12, <3>2, <3>3, <5>2 DEF First, SameBut
        <5> QED
          BY <5>1, <5>2
      <4> QED
        BY <3>4, <4>1, <4>2 DEF First
    <3>6. session'[a] # NoSession /\ session'[Peer(a)] = NoSession /\ Letters(Peer(a))' = {}
      BY <1>11, <1>13, <2>3, <3>1, PeerIsOther DEF WroteFirst
    <3>7. WroteFirst(a)'
      <4>1. First(a, Peer(a), session'[a], sent', Letters(a)', received')
        BY <1>3, <1>11, <1>13, <3>5
      <4> QED
        BY <3>6, <4>1 DEF WroteFirst
    <3> QED
      BY <3>7 DEF Together
  <2>4. ASSUME NEW x \in Agents, Both(x, Peer(x)) PROVE Together'
    <3> DEFINE y == Peer(x)
    <3>0. y \in Agents /\ y # x
      BY PeerIsOther
    <3>1. /\ session[x] # NoSession /\ session[y] # NoSession
          /\ Pair(x, session[x], Letters(x), y, session[y], Letters(y), sent, received, spoiled)
      BY <2>4 DEF Both
    <3>2. session[x] \in State /\ session[y] \in State
      BY <1>0, <3>0, <3>1
    <3>3. a \in {x, y}
      BY OtherIsPeer
    <3> HIDE DEF y
    <3>4. CASE a = x
      <4>1. s = WithSendChain(session[x])
        BY <3>1, <3>4 DEF s, base
      <4>2. /\ Pair(x, s, Letters(x), y, session[y], Letters(y), sent, received, spoiled)
            /\ Ahead(s, session[y], sent, Letters(x))
        BY <3>1, <3>2, <4>1, AnswerStarts
      <4>3. Pair(x, v, Letters(x) \cup {d}, y, session[y], Letters(y), sent', received, spoiled)
        <5>1. \A k \in Letters(y) : sent'[k] = sent[k]
          BY <1>12, <3>0
        <5>2. Adds(s, v, sent, sent', Letters(x), d) /\ d \notin received
          BY <1>11, <1>12, <3>4
        <5> QED
          BY <1>2, <1>5, <3>2, <4>2, <5>1, <5>2, FirstOfPairWrites
      <4>4. /\ session'[x] = v /\ session'[y] = session[y] /\ Letters(x)' = Letters(x) \cup {d}
            /\ Letters(y)' = Letters(y)
        BY <1>11, <1>13, <3>0, <3>4
      <4>5. Both(x, y)'
        BY <1>3, <1>13, <3>1, <4>3, <4>4 DEF Both
      <4> QED
        BY <4>5 DEF Together, y
    <3>5. CASE a = y
      <4>1. s = session[y]
        <5>1. session[y].sending # NoChain
          BY <3>1 DEF Pair, Linked
        <5> QED
          BY <3>1, <3>5, <5>1 DEF s, base, WithSendChain
      <4>2. Pair(x, session[x], Letters(x), y, v, Letters(y) \cup {d}, sent', received, spoiled)
        <5>1. \A k \in Letters(x) : sent'[k] = sent[k]
          BY <1>12, <3>0
        <5>2. Adds(session[y], v, sent, sent', Letters(y), d) /\ d \notin received
          BY <1>11, <1>12, <3>5, <4>1
        <5>3. SameBut(v, session[y]) /\ SameReader(v, session[y])
          BY <1>5, <4>1
        <5> QED
          BY <3>1, <3>2, <5>1, <5>2, <5>3, SecondOfPairWrites
      <4>3. /\ session'[y] = v /\ session'[x] = session[x] /\ Letters(y)' = Letters(y) \cup {d}
            /\ Letters(x)' = Letters(x)
        BY <1>11, <1>13, <3>0, <3>5
      <4>4. Both(x, y)'
        BY <1>3, <1>13, <3>1, <4>2, <4>3 DEF Both
      <4> QED
        BY <4>4 DEF Together, y
    <3> QED
      BY <3>3, <3>4, <3>5
  <2> QED
    BY <2>1, <2>2, <2>3, <2>4 DEF Together
<1> QED
  BY <1>14, <1>15

-----------------------------------------------------------------------------
\* What is spoiled when message m has come (at least).
Spoils(m, worse) ==
  /\ spoiled \subseteq worse /\ (m \in received => sent[m].dh \in worse)
  /\ Cardinality(Missing(m)) <= MaxSkip \/ \A k \in Missing(m) : sent[k].dh \in worse

LEMMA Arrives ==
  ASSUME RTTypes, NEW m \in DOMAIN sent, sent[m].era = era, NEW x, x = sent[m].from,
         Mail(x, sent, Letters(x)), InOrder(sent, Letters(x)), NEW worse, Spoils(m, worse),
         NEW t \in State, Held(t), t.remote = sent[m].dh, NEW own, NEW bad, bad \subseteq worse,
         Listens(t, x, own, sent, Letters(x), bad), Keeps(t, sent, Letters(x), received, bad)
  PROVE  /\ SameBut(After(t, sent[m]), t) /\ After(t, sent[m]).ns = t.ns
         /\ Listens(After(t, sent[m]), x, own, sent, Letters(x), worse)
         /\ Keeps(After(t, sent[m]), sent, Letters(x), received \cup {m}, worse)
         /\ IsRead(t, sent[m]) \/ sent[m].dh \in worse
<1>1. m \in Letters(x)
  BY DEF Letters
<1>2. sent[m].n \in Nat /\ sent[m].dh \in Agents \X Nat
  BY <1>1 DEF Mail, Message
<1>3. SameBut(After(t, sent[m]), t) /\ After(t, sent[m]).ns = t.ns
  BY <1>2, TakeKeeps DEF After
<1>4. /\ IsFiniteSet(Missing(m))
      /\ Unread(t, sent[m].n, sent, Letters(x), received) \subseteq Missing(m)
  BY <1>2, UnreadIsMissing
<1>5. /\ Cardinality(Missing(m)) <= MaxSkip \/ \A k \in Missing(m) : sent[k].dh \in worse
      /\ m \in received => sent[m].dh \in worse
  BY DEF Spoils
<1>6. PICK mail, L, R, T : mail = sent /\ L = Letters(x) /\ R = received /\ T = Missing(m)
  OBVIOUS
<1>7. /\ Listens(After(t, mail[m]), x, own, mail, L, worse)
      /\ Keeps(After(t, mail[m]), mail, L, R \cup {m}, worse)
      /\ IsRead(t, mail[m]) \/ mail[m].dh \in worse
  <2>1. /\ m \in L /\ mail[m].dh = t.remote /\ Mail(x, mail, L) /\ InOrder(mail, L)
        /\ Listens(t, x, own, mail, L, bad) /\ Keeps(t, mail, L, R, bad)
        /\ IsFiniteSet(T) /\ Unread(t, mail[m].n, mail, L, R) \subseteq T
        /\ Cardinality(T) <= MaxSkip \/ \A k \in T : mail[k].dh \in worse
        /\ m \in R => mail[m].dh \in worse
    BY <1>1, <1>4, <1>5, <1>6
  <2> QED
    BY <2>1, TakeFollows
<1> QED
  BY <1>3, <1>6, <1>7

\* The first message of x that comes to an agent that has no session.
LEMMA FirstMessageArrives ==
  ASSUME RTTypes, NEW m \in DOMAIN sent, sent[m].era = era, NEW worse, Spoils(m, worse),
         NEW x \in Agents, WroteFirst(x), sent[m].from \in Agents
  PROVE  LET y == Peer(x)
             t == ReceiverState(y, sent[m].dh)
         IN /\ sent[m].from = x /\ session[y] = NoSession
            /\ Pair(y, After(t, sent[m]), {}, x, session[x], Letters(x), sent, received \cup {m}, worse)
            /\ IsRead(t, sent[m]) \/ sent[m].dh \in worse
<1> DEFINE y == Peer(x)
           t == ReceiverState(y, sent[m].dh)
<1>0. /\ keys \in [Agents -> Nat] /\ session[x] \in State /\ y \in Agents
      /\ First(x, y, session[x], sent, Letters(x), received) /\ session[y] = NoSession
      /\ Letters(y) = {}
  BY PeerIsOther DEF RTTypes, RTSessions, WroteFirst
<1> HIDE DEF y
<1>1. sent[m].from = x
  BY <1>0, OtherIsPeer DEF Letters, y
<1>2. m \in Letters(x)
  BY <1>1 DEF Letters
<1>3. sent[m].dh = session[x].self
  BY <1>0, <1>2 DEF First
<1>4. sent[m].dh \in Agents \X Nat
  BY <1>2, <1>0 DEF First, Wrote, Mail, Message
<1>5. PICK r : r = t
  OBVIOUS
<1>6. r \in State /\ Held(r) /\ r.remote = sent[m].dh /\ r.ns = 0
  BY <1>0, <1>4, <1>5, ReceiverTyped
<1>7. r = ReceiverState(y, session[x].self)
  BY <1>3, <1>5
<1> HIDE DEF t
<1>8. /\ Listens(r, x, session[x].self, sent, Letters(x), worse)
      /\ Keeps(r, sent, Letters(x), received, worse)
  BY <1>0, <1>6, <1>7, FirstIsRead
<1>9. Mail(x, sent, Letters(x)) /\ InOrder(sent, Letters(x))
  BY <1>0 DEF First, Wrote
<1>10. /\ SameBut(After(r, sent[m]), r) /\ After(r, sent[m]).ns = r.ns
       /\ Listens(After(r, sent[m]), x, session[x].self, sent, Letters(x), worse)
       /\ Keeps(After(r, sent[m]), sent, Letters(x), received \cup {m}, worse)
       /\ IsRead(r, sent[m]) \/ sent[m].dh \in worse
  BY <1>1, <1>6, <1>8, <1>9, Arrives
<1>11. Pair(y, After(r, sent[m]), {}, x, session[x], Letters(x), sent, received \cup {m}, worse)
  BY <1>0, <1>2, <1>3, <1>6, <1>7, <1>10, FirstIsTaken
<1> QED
  BY <1>0, <1>1, <1>5, <1>10, <1>11 DEF y, t

\* A message of the chain that its reader reads.
LEMMA FirstArrives ==
  ASSUME RTTypes, NEW m \in DOMAIN sent, sent[m].era = era, NEW worse, Spoils(m, worse),
         NEW x \in Agents, NEW y \in Agents, x # y, Both(x, y), sent[m].from = y,
         sent[m].dh = session[x].remote
  PROVE  /\ Pair(x, After(session[x], sent[m]), Letters(x), y, session[y], Letters(y),
                 sent, received \cup {m}, worse)
         /\ IsRead(session[x], sent[m]) \/ sent[m].dh \in worse
<1>0. /\ session[x] \in State /\ Held(session[x])
      /\ Pair(x, session[x], Letters(x), y, session[y], Letters(y), sent, received, spoiled)
  BY DEF RTTypes, RTSessions, Both
<1>1. m \in Letters(y) /\ m \notin Letters(x) /\ spoiled \subseteq worse
  BY DEF Letters, Spoils
<1>2. /\ Mail(y, sent, Letters(y)) /\ InOrder(sent, Letters(y))
      /\ Listens(session[x], y, session[y].self, sent, Letters(y), spoiled)
      /\ Keeps(session[x], sent, Letters(y), received, spoiled)
  BY <1>0 DEF Pair, Wrote, Reads
<1>3. /\ SameBut(After(session[x], sent[m]), session[x]) /\ After(session[x], sent[m]).ns = session[x].ns
      /\ Listens(After(session[x], sent[m]), y, session[y].self, sent, Letters(y), worse)
      /\ Keeps(After(session[x], sent[m]), sent, Letters(y), received \cup {m}, worse)
      /\ IsRead(session[x], sent[m]) \/ sent[m].dh \in worse
  BY <1>0, <1>1, <1>2, Arrives
<1> QED
  BY <1>0, <1>1, <1>3, FirstOfPairTakes

LEMMA SecondArrives ==
  ASSUME RTTypes, NEW m \in DOMAIN sent, sent[m].era = era, NEW worse, Spoils(m, worse),
         NEW x \in Agents, NEW y \in Agents, x # y, Both(x, y), sent[m].from = x,
         sent[m].dh = session[y].remote
  PROVE  /\ Pair(x, session[x], Letters(x), y, After(session[y], sent[m]), Letters(y),
                 sent, received \cup {m}, worse)
         /\ IsRead(session[y], sent[m]) \/ sent[m].dh \in worse
<1>0. /\ session[y] \in State /\ Held(session[y])
      /\ Pair(x, session[x], Letters(x), y, session[y], Letters(y), sent, received, spoiled)
  BY DEF RTTypes, RTSessions, Both
<1>1. m \in Letters(x) /\ m \notin Letters(y) /\ spoiled \subseteq worse
  BY DEF Letters, Spoils
<1>2. /\ Mail(x, sent, Letters(x)) /\ InOrder(sent, Letters(x))
      /\ Listens(session[y], x, session[x].self, sent, Letters(x), spoiled)
      /\ Keeps(session[y], sent, Letters(x), received, spoiled)
  BY <1>0 DEF Pair, Wrote, Reads
<1>3. /\ SameBut(After(session[y], sent[m]), session[y]) /\ After(session[y], sent[m]).ns = session[y].ns
      /\ Listens(After(session[y], sent[m]), x, session[x].self, sent, Letters(x), worse)
      /\ Keeps(After(session[y], sent[m]), sent, Letters(x), received \cup {m}, worse)
      /\ IsRead(session[y], sent[m]) \/ sent[m].dh \in worse
  BY <1>0, <1>1, <1>2, Arrives
<1> QED
  BY <1>0, <1>1, <1>3, SecondOfPairTakes

\* A message of the next chain.
LEMMA NextArrives ==
  ASSUME RTTypes, NEW m \in DOMAIN sent, sent[m].era = era, NEW worse, Spoils(m, worse),
         NEW x \in Agents, NEW y \in Agents, x # y, Both(x, y), sent[m].from = x,
         sent[m].dh[2] > session[y].remote[2]
  PROVE  LET t == DHRatchet(session[y], sent[m].dh, sent[m].pn, Fresh(y))
         IN /\ Pair(y, After(t, sent[m]), Letters(y), x, session[x], Letters(x),
                    sent, received \cup {m}, worse)
            /\ IsRead(t, sent[m]) \/ sent[m].dh \in worse
<1> DEFINE w == session[x]
           s == session[y]
<1>0. /\ w \in State /\ s \in State /\ Held(s) /\ keys \in [Agents -> Nat] /\ s.self = <<y, keys[y]>>
      /\ Pair(x, w, Letters(x), y, s, Letters(y), sent, received, spoiled)
  BY DEF RTTypes, RTSessions, Both
<1> HIDE DEF w, s
<1>1. m \in Letters(x) /\ m \notin Letters(y) /\ spoiled \subseteq worse
  BY DEF Letters, Spoils
<1>2. sent[m].dh = w.self
  BY <1>0, <1>1 DEF Pair, Reads, Listens, s
<1>3. sent[m].pn = w.pn /\ Mail(x, sent, Letters(x)) /\ InOrder(sent, Letters(x))
  BY <1>0, <1>1, <1>2 DEF Pair, Wrote, Writes
<1>4. Ahead(w, s, sent, Letters(x))
  BY <1>0, <1>1 DEF Pair, Answering
<1>5. /\ s.remote \in Agents \X Nat /\ s.remote[2] < sent[m].dh[2] /\ w.pn \in Nat
  BY <1>0, <1>2 DEF State, Pair, Linked
<1>6. /\ IsFiniteSet(Missing(m))
      /\ Unread(s, w.pn, sent, Letters(x), received) \subseteq Missing(m)
  BY <1>3, <1>5, UnreadIsMissing
<1>7. Cardinality(Missing(m)) <= MaxSkip \/ \A k \in Missing(m) : sent[k].dh \in worse
  BY DEF Spoils
<1>8. PICK fresh : fresh = Fresh(y)
  OBVIOUS
<1>9. fresh \in Agents \X Nat /\ fresh[1] = y /\ s.self[2] < fresh[2]
  BY <1>0, <1>8 DEF Fresh
<1>10. PICK t : t = DHRatchet(s, w.self, w.pn, fresh)
  OBVIOUS
<1>11. /\ t \in State /\ Held(t) /\ TurnsTo(t, w, s, fresh)
       /\ Listens(t, x, w.self, sent, Letters(x), worse) /\ Keeps(t, sent, Letters(x), received, worse)
  BY <1>0, <1>1, <1>4, <1>6, <1>7, <1>9, <1>10, PairTurns
<1>12. t.remote = sent[m].dh
  BY <1>2, <1>11 DEF TurnsTo
<1>13. /\ SameBut(After(t, sent[m]), t) /\ After(t, sent[m]).ns = t.ns
       /\ Listens(After(t, sent[m]), x, w.self, sent, Letters(x), worse)
       /\ Keeps(After(t, sent[m]), sent, Letters(x), received \cup {m}, worse)
       /\ IsRead(t, sent[m]) \/ sent[m].dh \in worse
  BY <1>3, <1>11, <1>12, Arrives
<1>14. Pair(y, After(t, sent[m]), Letters(y), x, w, Letters(x), sent, received \cup {m}, worse)
  BY <1>0, <1>1, <1>2, <1>4, <1>9, <1>11, <1>13, TurnTaken
<1> QED
  BY <1>2, <1>3, <1>8, <1>10, <1>13, <1>14 DEF w, s

\* A message of an earlier chain: its key has been kept, though the session that
\* reads it is lost to the two.
LEMMA LateIsRead ==
  ASSUME NEW m \in DOMAIN sent, NEW worse, Spoils(m, worse), NEW x, NEW L, m \in L,
         NEW s \in State, Held(s), Keeps(s, sent, L, received, spoiled),
         sent[m].dh[2] < s.remote[2], sent[m].dh \in Agents \X Nat, sent[m].pn \in Nat,
         NEW fresh \in Agents \X Nat
  PROVE  LET t == DHRatchet(s, sent[m].dh, sent[m].pn, fresh)
         IN IsRead(t, sent[m]) \/ sent[m].dh \in worse
<1> SUFFICES ASSUME sent[m].dh \notin worse
             PROVE  IsRead(DHRatchet(s, sent[m].dh, sent[m].pn, fresh), sent[m])
  OBVIOUS
<1>1. m \notin received /\ sent[m].dh \notin spoiled
  BY DEF Spoils
<1>2. KeyOf(sent[m]) \in s.skipped
  BY <1>1 DEF Keeps, Passes
<1>3. PICK p : p = Skip(s, sent[m].pn)
  OBVIOUS
<1>4. KeyOf(sent[m]) \in p.skipped
  <2>1. CASE p = s
    BY <1>2, <2>1
  <2>2. ASSUME NEW l \in Nat, SkipsTo(s, p, sent[m].pn, l) PROVE KeyOf(sent[m]) \in p.skipped
    BY <1>2, <2>2, KeysSplit DEF SkipsTo
  <2> QED
    BY <1>3, <2>1, <2>2, SkipGives
<1>5. PICK t : t = DHRatchet(s, sent[m].dh, sent[m].pn, fresh)
  OBVIOUS
<1>6. t.skipped = p.skipped
  <2>1. p \in State
    BY <1>3, SkipAdvances DEF Advanced
  <2>2. \E f, g : t = [p EXCEPT !.pn = s.ns, !.ns = 0, !.nr = 0, !.remote = sent[m].dh,
                                !.receiving = f, !.self = fresh, !.root = g, !.sending = g]
    BY <1>3, <1>5 DEF DHRatchet
  <2> QED
    BY <2>1, <2>2 DEF State
<1>7. KeyOf(sent[m]) \in Kept(t, sent[m]) /\ KeyOf(sent[m]).key = sent[m].key
  BY <1>4, <1>6 DEF Kept, KeyOf
<1>8. IsRead(t, sent[m])
  BY <1>7 DEF IsRead, Opens
<1> QED
  BY <1>5, <1>8

\* The session that takes message m is its recipient's, made anew or advanced to
\* the chain of m if need be.
Taker(a, m) ==
  LET s == IF session[a] = NoSession THEN ReceiverState(a, sent[m].dh) ELSE session[a]
  IN IF sent[m].dh # s.remote THEN DHRatchet(s, sent[m].dh, sent[m].pn, Fresh(a)) ELSE s

LEMMA AfterTyped ==
  ASSUME NEW t \in State, Held(t), NEW l, l.n \in Nat
  PROVE  After(t, l) \in State
<1>1. PICK u : u = Skip(t, l.n)
  OBVIOUS
<1>2. Advanced(t, u, l.n)
  BY <1>1, SkipAdvances
<1>3. u \in State /\ u.nr \in Nat /\ t.skipped \subseteq Skipped
  BY <1>2 DEF Advanced, State
<1>4. CASE Kept(t, l) # {}
  <2>1. After(t, l) = [t EXCEPT !.skipped = @ \ Kept(t, l)]
    BY <1>4 DEF After, Takes
  <2>2. t.skipped \ Kept(t, l) \subseteq Skipped
    BY <1>3
  <2> QED
    BY <2>1, <2>2 DEF State
<1>5. CASE Kept(t, l) = {}
  <2>1. After(t, l) = [u EXCEPT !.nr = @ + 1]
    BY <1>1, <1>5 DEF After, Takes
  <2> QED
    BY <1>3, <2>1 DEF State
<1> QED
  BY <1>4, <1>5

LEMMA TakerTyped ==
  ASSUME RTTypes, NEW a \in Agents, NEW m, sent[m].dh \in Agents \X Nat, sent[m].pn \in Nat
  PROVE  Taker(a, m) \in State /\ Held(Taker(a, m))
<1>0. keys \in [Agents -> Nat] /\ session \in [Agents -> State \cup {NoSession}]
  BY DEF RTTypes, RTSessions
<1>1. PICK s : s = IF session[a] = NoSession THEN ReceiverState(a, sent[m].dh) ELSE session[a]
  OBVIOUS
<1>2. s \in State /\ Held(s)
  <2>1. CASE session[a] = NoSession
    BY <1>0, <1>1, <2>1, ReceiverTyped
  <2>2. CASE session[a] # NoSession
    BY <1>0, <1>1, <2>2 DEF RTTypes, RTSessions
  <2> QED
    BY <2>1, <2>2
<1>3. Fresh(a) \in Agents \X Nat
  BY <1>0 DEF Fresh
<1>4. PICK t : t = DHRatchet(s, sent[m].dh, sent[m].pn, Fresh(a))
  OBVIOUS
<1>5. t \in State /\ Held(t)
  BY <1>2, <1>3, <1>4, RatchetTyped DEF Turned
<1> QED
  BY <1>1, <1>2, <1>4, <1>5 DEF Taker

\* Decrypt keeps two agents together, unless the message is late, and reads each
\* message that is not disturbed.
LEMMA DecryptTogether ==
  ASSUME RTTypes, Eras, ~broken => Together, RTReads, NEW m \in DOMAIN sent, Decrypt(m)
  PROVE  Eras' /\ (~broken' => Together') /\ RTReads'
<1> DEFINE f == sent[m].from
           a == Peer(f)
           t == Taker(a, m)
           lost == IF Cardinality(Missing(m)) > MaxSkip THEN {sent[k].dh : k \in Missing(m)} ELSE {}
<1>0. /\ keys \in [Agents -> Nat] /\ session \in [Agents -> State \cup {NoSession}]
      /\ sent \in Seq(Message) /\ received \subseteq DOMAIN sent
  BY DEF RTTypes, RTSessions, RTMessages, RTMarks
<1>1. /\ sent[m] \in Message /\ f \in Agents /\ sent[m].dh \in Agents \X Nat
      /\ sent[m].pn \in Nat /\ sent[m].n \in Nat
  <2>1. sent[m] \in Message
    BY <1>0
  <2> QED
    BY <2>1 DEF Message
<1>2. a \in Agents /\ a # f /\ Peer(a) = f
  BY <1>1, PeerIsOther, PeerOfPeer
<1>3. /\ session' = [session EXCEPT ![a] = After(t, sent[m])]
      /\ received' = received \cup {m}
      /\ failed' = IF IsRead(t, sent[m]) THEN failed ELSE failed \cup {m}
      /\ broken' = (broken \/ Late(m))
      /\ spoiled' = spoiled \cup lost \cup (IF m \in received THEN {sent[m].dh} ELSE {})
      /\ disturbed' = IF broken \/ sent[m].era # era \/ sent[m].dh \in spoiled'
                      THEN disturbed \cup {m} ELSE disturbed
      /\ sent' = sent /\ era' = era
  BY DEF Decrypt, Taker, After, IsRead, Kept, Takes, Opens
<1>4. Spoils(m, spoiled')
  <2>1. Cardinality(Missing(m)) <= MaxSkip \/ Cardinality(Missing(m)) > MaxSkip
    <3>1. IsFiniteSet(Missing(m))
      <4>1. IsFiniteSet(1..m)
        <5>1. \A b, e \in Int : IsFiniteSet(b..e)
          BY FS_Interval
        <5>2. 1 \in Int /\ m \in Int
          BY <1>0
        <5> QED
          BY <5>1, <5>2, Zenon
      <4>2. Missing(m) \subseteq 1..m
        BY DEF Missing
      <4> QED
        BY <4>1, <4>2, FS_Subset
    <3>2. Cardinality(Missing(m)) \in Nat /\ MaxSkip \in Nat
      BY <3>1, FS_CardinalityType, RatchetAssumption DEF RatchetAssumption
    <3> QED
      BY <3>2
  <2>2. CASE Cardinality(Missing(m)) > MaxSkip
    <3>1. \A k \in Missing(m) : sent[k].dh \in lost
      BY <2>2
    <3> HIDE DEF lost
    <3> QED
      BY <1>3, <3>1 DEF Spoils
  <2>3. CASE Cardinality(Missing(m)) <= MaxSkip
    <3> HIDE DEF lost
    <3> QED
      BY <1>3, <2>3 DEF Spoils
  <2> QED
    BY <2>1, <2>2, <2>3
<1> HIDE DEF f, a, t, lost
<1>5. Eras' /\ \A b \in Agents : Letters(b)' = Letters(b)
  BY <1>3 DEF Eras, Letters
<1>6. /\ session'[a] = After(t, sent[m]) /\ session'[a] # NoSession
      /\ \A b \in Agents : b # a => session'[b] = session[b]
  <2>1. t \in State /\ Held(t)
    BY <1>1, <1>2, TakerTyped DEF t
  <2>2. After(t, sent[m]) \in State
    BY <1>1, <2>1, AfterTyped
  <2> QED
    BY <1>0, <1>2, <1>3, <2>2, NoSessionIsNone
<1>7. CASE broken \/ sent[m].era # era
  <2>1. broken'
    BY <1>3, <1>7 DEF Late
  <2>2. RTReads'
    BY <1>3, <1>7 DEF RTReads
  <2> QED
    BY <1>5, <2>1, <2>2
<1>8. ASSUME NEW x \in Agents, NEW y \in Agents, y = Peer(x),
             session'[x] # NoSession, session'[y] # NoSession,
             Pair(x, session'[x], Letters(x), y, session'[y], Letters(y), sent,
                  received \cup {m}, spoiled')
      PROVE  Together'
  <2>1. Letters(x)' = Letters(x) /\ Letters(y)' = Letters(y)
    BY <1>5
  <2>2. Pair(x, session'[x], Letters(x)', y, session'[y], Letters(y)', sent', received', spoiled')
    BY <1>3, <1>8, <2>1
  <2>3. Both(x, y)'
    BY <1>8, <2>2 DEF Both
  <2> QED
    BY <1>8, <2>3 DEF Together
<1>9. CASE ~broken /\ sent[m].era = era
  <2>0. m \in Letters(f) /\ Together /\ sent[m].from = f
    BY <1>9 DEF Letters, f
  <2> DEFINE Goal == (IsRead(t, sent[m]) \/ sent[m].dh \in spoiled') /\ (~broken' => Together')
  <2> SUFFICES Goal
    <3>1. (IsRead(t, sent[m]) \/ sent[m].dh \in spoiled') => RTReads'
      BY <1>3 DEF RTReads
    <3> QED
      BY <1>5, <3>1
  <2>1. CASE Strangers
    BY <1>1, <2>0, <2>1 DEF Strangers
  <2>2. ASSUME NEW x \in Agents, WroteFirst(x) PROVE Goal
    <3>1. PICK r : r = ReceiverState(Peer(x), sent[m].dh)
      OBVIOUS
    <3>2. /\ f = x /\ session[Peer(x)] = NoSession
          /\ Pair(Peer(x), After(r, sent[m]), {}, x, session[x], Letters(x), sent,
                  received \cup {m}, spoiled')
          /\ IsRead(r, sent[m]) \/ sent[m].dh \in spoiled'
      BY <1>1, <1>4, <1>9, <2>0, <2>2, <3>1, FirstMessageArrives
    <3>3. a = Peer(x) /\ t = r
      <4>1. a = Peer(x)
        BY <3>2 DEF a
      <4>2. r.remote = sent[m].dh
        BY <3>1 DEF ReceiverState
      <4> QED
        BY <3>1, <3>2, <4>1, <4>2 DEF t, Taker
    <3>4. /\ Letters(a) = {} /\ session'[x] = session[x] /\ session[x] # NoSession /\ Peer(a) = x
      BY <1>1, <1>2, <1>6, <2>2, <3>2, <3>3 DEF WroteFirst
    <3>5. Together'
      BY <1>2, <1>6, <1>8, <3>2, <3>3, <3>4
    <3> QED
      BY <3>2, <3>3, <3>5
  <2>3. ASSUME NEW x \in Agents, Both(x, Peer(x)) PROVE Goal
    <3> DEFINE y == Peer(x)
    <3>0. y \in Agents /\ y # x /\ Peer(y) = x
      BY PeerIsOther, PeerOfPeer
    <3>1. Both(x, y)
      BY <2>3
    <3>2. /\ session[x] # NoSession /\ session[y] # NoSession
          /\ Pair(x, session[x], Letters(x), y, session[y], Letters(y), sent, received, spoiled)
      BY <3>1 DEF Both
    <3>3. f = x \/ f = y
      BY <1>1, OtherIsPeer
    <3>4. PICK r : r = session[a]
      OBVIOUS
    <3> HIDE DEF y
    <3>5. r \in State /\ Held(r) /\ r # NoSession
      <4>1. a = x \/ a = y
        BY <3>0, <3>3 DEF a, y
      <4> QED
        BY <1>2, <3>2, <3>4, <4>1 DEF RTTypes, RTSessions
    <3>6. /\ \E own : Listens(r, f, own, sent, Letters(f), spoiled)
          /\ Keeps(r, sent, Letters(f), received, spoiled) /\ Heard(r, sent, Letters(f), received)
          /\ sent[m].dh[1] = f /\ sent[m].dh[2] > 0
      <4>1. CASE f = x
        <5>1. a = y
          BY <4>1 DEF a, y
        <5> QED
          BY <2>0, <3>2, <3>4, <4>1, <5>1 DEF Pair, Reads, Wrote, Mail
      <4>2. CASE f = y
        <5>1. a = x
          BY <3>0, <4>2 DEF a
        <5> QED
          BY <2>0, <3>2, <3>4, <4>2, <5>1 DEF Pair, Reads, Wrote, Mail
      <4> QED
        BY <3>3, <4>1, <4>2
    <3>7. r.remote \in Agents \X Nat /\ r.remote[1] = f
      BY <3>5, <3>6 DEF State, Listens
    <3>8. t = IF sent[m].dh # r.remote THEN DHRatchet(r, sent[m].dh, sent[m].pn, Fresh(a)) ELSE r
      BY <3>4, <3>5 DEF t, Taker
    <3>9. CASE sent[m].dh[2] < r.remote[2]
      <4>1. IsRead(t, sent[m]) \/ sent[m].dh \in spoiled'
        <5>1. Fresh(a) \in Agents \X Nat
          BY <1>0, <1>2 DEF Fresh
        <5>2. sent[m].dh # r.remote
          BY <1>1, <3>7, <3>9
        <5> QED
          BY <1>1, <1>4, <2>0, <3>5, <3>6, <3>8, <3>9, <5>1, <5>2, LateIsRead
      <4>2. broken'
        <5>1. PICK k \in Letters(f) : k \in received /\ sent[k].dh = r.remote
          BY <1>1, <3>6, <3>7, <3>9 DEF Heard
        <5>2. Late(m)
          BY <2>0, <3>9, <5>1 DEF Late, Letters
        <5> QED
          BY <1>3, <5>2
      <4> QED
        BY <4>1, <4>2
    <3>10. CASE sent[m].dh[2] = r.remote[2]
      <4>1. sent[m].dh = r.remote /\ t = r
        BY <1>1, <3>6, <3>7, <3>8, <3>10
      <4>2. CASE f = y
        <5>1. a = x /\ r = session[x]
          BY <3>0, <3>4, <4>2 DEF a
        <5>2. /\ Pair(x, After(r, sent[m]), Letters(x), y, session[y], Letters(y),
                      sent, received \cup {m}, spoiled')
              /\ IsRead(r, sent[m]) \/ sent[m].dh \in spoiled'
          BY <1>4, <1>9, <2>0, <3>0, <3>1, <4>1, <4>2, <5>1, FirstArrives
        <5>3. Together'
          BY <1>6, <1>8, <3>0, <3>2, <4>1, <5>1, <5>2 DEF y
        <5> QED
          BY <4>1, <5>2, <5>3
      <4>3. CASE f = x
        <5>1. a = y /\ r = session[y]
          BY <3>4, <4>3 DEF a, y
        <5>2. /\ Pair(x, session[x], Letters(x), y, After(r, sent[m]), Letters(y),
                      sent, received \cup {m}, spoiled')
              /\ IsRead(r, sent[m]) \/ sent[m].dh \in spoiled'
          BY <1>4, <1>9, <2>0, <3>0, <3>1, <4>1, <4>3, <5>1, SecondArrives
        <5>3. Together'
          BY <1>6, <1>8, <3>0, <3>2, <4>1, <5>1, <5>2 DEF y
        <5> QED
          BY <4>1, <5>2, <5>3
      <4> QED
        BY <3>3, <4>2, <4>3
    <3>11. CASE sent[m].dh[2] > r.remote[2]
      <4>1. f = x /\ a = y /\ r = session[y]
        <5>1. f # y
          <6>1. ASSUME f = y PROVE FALSE
            <7>1. a = x /\ r = session[x]
              BY <3>0, <3>4, <6>1 DEF a
            <7>2. sent[m].dh[2] <= session[y].self[2] /\ session[x].remote = session[y].self
              BY <2>0, <3>2, <6>1 DEF Pair, Wrote, Writes, Linked
            <7> QED
              BY <1>1, <3>7, <3>11, <7>1, <7>2
          <6> QED
            BY <6>1
        <5> QED
          BY <3>3, <3>4, <5>1 DEF a, y
      <4>2. t = DHRatchet(r, sent[m].dh, sent[m].pn, Fresh(a))
        BY <1>1, <3>7, <3>8, <3>11
      <4>3. /\ Pair(y, After(t, sent[m]), Letters(y), x, session[x], Letters(x),
                    sent, received \cup {m}, spoiled')
            /\ IsRead(t, sent[m]) \/ sent[m].dh \in spoiled'
        BY <1>4, <1>9, <2>0, <3>0, <3>1, <3>11, <4>1, <4>2, NextArrives
      <4>4. Together'
        BY <1>6, <1>8, <3>0, <3>2, <4>1, <4>3
      <4> QED
        BY <4>3, <4>4
    <3> QED
      <4>1. sent[m].dh[2] \in Nat /\ r.remote[2] \in Nat
        BY <1>1, <3>7
      <4> QED
        BY <3>9, <3>10, <3>11, <4>1
  <2> QED
    BY <2>0, <2>1, <2>2, <2>3 DEF Together
<1> QED
  BY <1>7, <1>9

\* When both have started anew, no message of the present era has been written.
LEMMA ResetTogether ==
  ASSUME RTTypes, Eras, NEW a \in Agents, ResetSession(a)
  PROVE  Eras' /\ (~broken' => Together')
<1>0. /\ session \in [Agents -> State \cup {NoSession}] /\ sent \in Seq(Message) /\ era \in Nat
      /\ \A k \in DOMAIN sent : sent[k].era \in Nat
  <2>1. session \in [Agents -> State \cup {NoSession}] /\ sent \in Seq(Message) /\ era \in Nat
    BY DEF RTTypes, RTSessions, RTMessages
  <2>2. \A k \in DOMAIN sent : sent[k] \in Message
    BY <2>1
  <2> QED
    BY <2>1, <2>2 DEF Message
<1>1. /\ session' = [session EXCEPT ![a] = NoSession] /\ sent' = sent
      /\ broken' = (session[Peer(a)] # NoSession) /\ era' = IF broken' THEN era ELSE era + 1
  BY DEF ResetSession
<1>2. Eras'
  BY <1>0, <1>1 DEF Eras
<1>3. ASSUME ~broken' PROVE Together'
  <2>1. \A b \in Agents : session'[b] = NoSession
    BY <1>0, <1>1, <1>3, OtherIsPeer
  <2>2. \A k \in DOMAIN sent : sent[k].era # era'
    BY <1>0, <1>1, <1>3 DEF Eras
  <2>3. \A b \in Agents : Letters(b)' = {}
    BY <1>1, <2>2 DEF Letters
  <2>4. Strangers'
    BY <2>1, <2>3 DEF Strangers
  <2> QED
    BY <2>4 DEF Together
<1> QED
  BY <1>2, <1>3

LEMMA TogetherStarts == RTInit => RTInv
<1> SUFFICES ASSUME RTInit PROVE RTInv
  OBVIOUS
<1>1. Eras /\ RTReads /\ \A b \in Agents : Letters(b) = {} /\ session[b] = NoSession
  BY DEF RTInit, Eras, RTReads, Letters
<1>2. Strangers
  BY <1>1 DEF Strangers
<1> QED
  BY <1>1, <1>2, RatchetStarts DEF Together, RTInv

LEMMA TogetherStep == RTInv /\ [RTNext]_rtVars => RTInv'
<1> SUFFICES ASSUME RTInv, [RTNext]_rtVars PROVE RTInv'
  OBVIOUS
<1>1. RTTypes /\ Eras /\ (~broken => Together) /\ RTReads
  BY DEF RTInv
<1>2. RTTypes'
  BY <1>1, RatchetStep
<1>3. ASSUME NEW a \in Agents, Encrypt(a) PROVE RTInv'
  <2>1. RTReads'
    BY <1>1, <1>3 DEF Encrypt, RTReads
  <2> QED
    BY <1>1, <1>2, <1>3, <2>1, EncryptTogether DEF RTInv
<1>4. ASSUME NEW a \in Agents, ResetSession(a) PROVE RTInv'
  <2>1. RTReads'
    BY <1>1, <1>4 DEF ResetSession, RTReads
  <2> QED
    BY <1>1, <1>2, <1>4, <2>1, ResetTogether DEF RTInv
<1>5. ASSUME NEW m \in DOMAIN sent, Decrypt(m) PROVE RTInv'
  BY <1>1, <1>2, <1>5, DecryptTogether DEF RTInv
<1>6. CASE UNCHANGED rtVars
  <2>1. /\ session' = session /\ sent' = sent /\ received' = received /\ failed' = failed
        /\ disturbed' = disturbed /\ spoiled' = spoiled /\ era' = era /\ broken' = broken
    BY <1>6 DEF rtVars, rtHistory
  <2>2. Together' <=> Together
    BY <2>1 DEF Together, Strangers, WroteFirst, Both, Letters
  <2>3. Eras' /\ RTReads'
    BY <1>1, <2>1 DEF Eras, RTReads
  <2> QED
    BY <1>1, <1>2, <2>1, <2>2, <2>3 DEF RTInv
<1> QED
  BY <1>3, <1>4, <1>5, <1>6 DEF RTNext

\* Each message is read when it comes, whatever was lost and in whatever order
\* those of one chain come, but for the exceptions that RTReads names.
THEOREM MessagesAreRead == RTSpec => []RTReads
<1>1. RTInv => RTReads
  BY DEF RTInv
<1> QED
  BY <1>1, TogetherStarts, TogetherStep, PTL DEF RTSpec
=============================================================================
