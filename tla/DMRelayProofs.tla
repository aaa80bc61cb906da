---------------------------- MODULE DMRelayProofs ----------------------------
(***************************************************************************)
(* What the relays keep to, whatever nodes, agents, messages, limits and     *)
(* times there are.  A step changes a mailbox in one of three ways: it takes *)
(* copies out, it deposits one, or it accepts one that a peer pushed; the    *)
(* invariants are proved along these.                                        *)
(***************************************************************************)
EXTENDS DMRelay, FiniteSetTheorems, TLAPS

-----------------------------------------------------------------------------
\* Division, by which epochs are numbered.
LEMMA DivNat ==
  ASSUME NEW n \in Nat \ {0}, NEW a \in Nat
  PROVE  a \div n \in Nat /\ n * (a \div n) <= a /\ a < n * (a \div n) + n
  BY SMTT(20)

LEMMA DivGrows ==
  ASSUME NEW n \in Nat \ {0}, NEW a \in Nat, NEW b \in Nat, a <= b
  PROVE  a \div n <= b \div n
<1> DEFINE x == a \div n
           y == b \div n
<1>1. x \in Nat /\ y \in Nat /\ n * x <= a /\ b < n * y + n
  BY DivNat
<1> HIDE DEF x, y
<1>2. n * x < n * (y + 1)
  BY <1>1
<1>3. x < y + 1
  BY <1>1, <1>2
<1> QED
  BY <1>1, <1>3 DEF x, y

LEMMA DivNext ==
  ASSUME NEW n \in Nat \ {0}, NEW a \in Nat, NEW b \in Nat, b - a < n
  PROVE  b \div n <= a \div n + 1
<1> DEFINE x == a \div n
           y == b \div n
<1>1. x \in Nat /\ y \in Nat /\ a < n * x + n /\ n * y <= b
  BY DivNat
<1> HIDE DEF x, y
<1>2. n * y < n * (x + 2)
  BY <1>1
<1>3. y < x + 2
  BY <1>1, <1>2
<1> QED
  BY <1>1, <1>3 DEF x, y

LEMMA DivAtMost ==
  ASSUME NEW n \in Nat \ {0}, NEW a \in Nat
  PROVE  a \div n <= a
<1> DEFINE x == a \div n
<1>1. x \in Nat /\ n * x <= a
  BY DivNat
<1> HIDE DEF x
<1>2. x <= n * x
  BY <1>1
<1> QED
  BY <1>1, <1>2 DEF x

-----------------------------------------------------------------------------
\* Epochs, keys and bindings.
LEMMA EpochType == ASSUME TypeOK PROVE Epoch \in Epochs /\ EpochLen \in Nat \ {0}
  BY TimeAssumption, DivNat, DivAtMost DEF TypeOK, TimeAssumption, Epoch, Epochs

LEMMA DepositKeyType == ASSUME TypeOK, NEW m \in Msgs PROVE DepositKey(m) \in Key
  BY EpochType, AgentsAssumption DEF AgentsAssumption, DepositKey, Bucket, Key

LEMMA BindingType ==
  ASSUME TypeOK, NEW a \in Agents
  PROVE  /\ BindingOf(a) \in Binding /\ Rebound \in Binding
         /\ BindingOf(a) # NoBinding => BindingOf(a).token \in Epochs
<1>1. BindingOf(a) \in Binding
  BY DEF TypeOK, BindingOf, Binding
<1>2. Rebound \in Binding
  BY EpochType DEF TypeOK, Rebound, Binding
<1> QED
  BY <1>1, <1>2 DEF Binding

LEMMA ReplicaKeyType ==
  ASSUME TypeOK, NEW n \in Nodes, NEW m \in Msgs
  PROVE  ReplicaKey(n, m) \in Key
<1>1. Recipient[m] \in Agents
  BY AgentsAssumption DEF AgentsAssumption
<1> QED
  BY <1>1, BindingType, DepositKeyType DEF ReplicaKey, Token, Key

LEMMA PeersAreNodes == \A n \in Nodes, m \in Msgs : Peers(n, m) \subseteq Nodes \ {n}
  BY AgentsAssumption DEF AgentsAssumption, Peers

-----------------------------------------------------------------------------
\* The three ways in which a step changes mailboxes and pushes.
Deposited(n, m) == [msg |-> m, key |-> DepositKey(m), ts |-> now, from |-> n]
Accepted(p) == [p.copy EXCEPT !.key = ReplicaKey(p.to, p.copy.msg)]

OthersStay(n) == box' = [o \in Nodes |-> IF o = n THEN box'[n] ELSE box[o]]

TakesOut == box' = [n \in Nodes |-> box'[n]] /\ \A n \in Nodes : box'[n] \subseteq box[n]

PutsIn(n, m) ==
  /\ OthersStay(n)
  /\ \/ box'[n] \subseteq box[n]
     \/ DepositVerdict(n, m) = "stored" /\ box'[n] = Live(box[n]) \cup {Deposited(n, m)}

TakesIn(p) ==
  /\ OthersStay(p.to)
  /\ \/ box'[p.to] \subseteq box[p.to]
     \/ ReplicaVerdict(p.to, p.copy) = "stored" /\ box'[p.to] = Live(box[p.to]) \cup {Accepted(p)}

\* A push that goes on is the same but for the attempts it has left.
SamePush(q, p) == q.copy = p.copy /\ q.at = p.at /\ q.to = p.to
NoNewPush == pushes' \subseteq Push /\ \A q \in pushes' : \E p \in pushes : SamePush(q, p)
NewPushes(n, m) ==
  /\ pushes' \subseteq Push
  /\ \A q \in pushes' : q \in pushes \/ (/\ q.at = n /\ q.to \in Peers(n, m)
                                         /\ q.copy.msg = m /\ q.copy \in box'[n])

LEMMA DepositKind ==
  ASSUME TypeOK, NEW n \in Nodes, NEW m \in Msgs, NEW w \in BOOLEAN, Deposit(n, m, w)
  PROVE  PutsIn(n, m) /\ NewPushes(n, m) /\ box' \in [Nodes -> SUBSET Copy]
<1> DEFINE v == DepositVerdict(n, m)
           copies == Live(box[n]) \cup (IF v = "stored" THEN {Deposited(n, m)} ELSE {})
<1>1. box' = [box EXCEPT ![n] = IF v = "blocked" THEN @ ELSE copies]
  BY DEF Deposit, Deposited
<1>2. Deposited(n, m) \in Copy
  BY DepositKeyType DEF Deposited, Copy, TypeOK
<1>3. Live(box[n]) \subseteq box[n] /\ box \in [Nodes -> SUBSET Copy]
  BY DEF Live, TypeOK
<1>4. box' \in [Nodes -> SUBSET Copy]
  BY <1>1, <1>2, <1>3
<1>5. PutsIn(n, m)
  BY <1>1, <1>3 DEF PutsIn, OthersStay
<1>6. NewPushes(n, m)
  <2>1. CASE v \notin {"stored", "duplicate"}
    BY <2>1 DEF Deposit, NewPushes, TypeOK
  <2>2. CASE v \in {"stored", "duplicate"}
    <3>1. box'[n] = copies
      BY <1>1, <1>3, <2>2
    <3>2. \A q \in pushes' : q \in pushes \/
            \E c \in copies, p \in Peers(n, m) :
              c.msg = m /\ q = [copy |-> c, at |-> n, to |-> p, left |-> Attempts, worker |-> w]
      BY <2>2 DEF Deposit, Deposited, Parked
    <3>3. Attempts \in 1..Attempts
      BY LimitsAssumption DEF LimitsAssumption
    <3>4. copies \subseteq Copy
      BY <1>2, <1>3
    <3> HIDE DEF copies
    <3>5. \A q \in pushes' : q \in pushes \/ (q \in Push /\ q.at = n /\ q.to \in Peers(n, m)
                                                /\ q.copy.msg = m /\ q.copy \in copies)
      BY <3>2, <3>3, <3>4, PeersAreNodes DEF Push
    <3> QED
      BY <3>1, <3>5 DEF NewPushes, TypeOK
  <2> QED
    BY <2>1, <2>2
<1> QED
  BY <1>4, <1>5, <1>6

LEMMA AcceptKind ==
  ASSUME TypeOK, NEW p \in pushes, Accept(p.to, p.copy)
  PROVE  TakesIn(p) /\ box' \in [Nodes -> SUBSET Copy]
<1>1. p.to \in Nodes /\ p.copy \in Copy /\ p.copy.msg \in Msgs
  BY DEF TypeOK, Push, Copy
<1>2. Accepted(p) \in Copy
  BY <1>1, ReplicaKeyType DEF Accepted, Copy
<1>3. Live(box[p.to]) \subseteq box[p.to] /\ box \in [Nodes -> SUBSET Copy]
  BY DEF Live, TypeOK
<1>4. box' = [box EXCEPT ![p.to] = Live(@) \cup
                (IF ReplicaVerdict(p.to, p.copy) = "stored" THEN {Accepted(p)} ELSE {})]
  BY DEF Accept, Accepted
<1> QED
  BY <1>1, <1>2, <1>3, <1>4 DEF TakesIn, OthersStay

LEMMA OneLessKind == ASSUME TypeOK, NEW p \in pushes, OneLess(p) PROVE NoNewPush
<1> DEFINE q == [p EXCEPT !.left = @ - 1]
<1>1. p \in Push /\ Attempts \in Nat
  BY LimitsAssumption DEF TypeOK, LimitsAssumption
<1>2. p.left # 1 => q \in Push
  BY <1>1 DEF Push
<1>3. SamePush(q, p) /\ \A o \in pushes : SamePush(o, o)
  BY <1>1 DEF SamePush, Push
<1>4. pushes' = (pushes \ {p}) \cup (IF p.left = 1 THEN {} ELSE {q})
  BY DEF OneLess
<1> QED
  BY <1>2, <1>3, <1>4 DEF NoNewPush, TypeOK

-----------------------------------------------------------------------------
\* Every step is of one of the three kinds, and keeps the types.
StepKind ==
  /\ now' >= now
  /\ \/ TakesOut /\ NoNewPush
     \/ \E n \in Nodes, m \in Msgs :
          /\ PutsIn(n, m) /\ NewPushes(n, m) /\ UNCHANGED <<now, blocks>>
          /\ m \in OnChain \/ n = Home[Sender[m]]
     \/ \E p \in pushes : TakesIn(p) /\ NoNewPush /\ UNCHANGED <<now, blocks>>

LEMMA Reflexive == TypeOK /\ pushes' \subseteq pushes => NoNewPush
  BY DEF NoNewPush, SamePush, TypeOK

LEMMA Shrunk ==
  ASSUME TypeOK, NEW n \in Nodes, NEW S, S \subseteq box[n], box' = [box EXCEPT ![n] = S]
  PROVE  TakesOut /\ box' \in [Nodes -> SUBSET Copy]
  BY DEF TypeOK, TakesOut

LEMMA StepKinds == TypeOK /\ [Next]_vars => TypeOK' /\ (StepKind \/ UNCHANGED vars)
<1> SUFFICES ASSUME TypeOK, [Next]_vars PROVE TypeOK' /\ (StepKind \/ UNCHANGED vars)
  OBVIOUS
<1> USE DEF TypeOK
<1>0. now' = now => now' >= now
  OBVIOUS
<1>1. ASSUME NEW m \in Msgs, Send(m) PROVE TypeOK' /\ StepKind
  <2> DEFINE n == Home[Sender[m]]
  <2>1. n \in Nodes
    BY AgentsAssumption DEF AgentsAssumption
  <2>2. Deposit(n, m, TRUE) /\ UNCHANGED <<now, bound, blocks, handed, faults>>
    BY <1>1 DEF Send
  <2>3. released' \subseteq Msgs /\ refused' \subseteq Msgs
    BY <1>1 DEF Send
  <2> HIDE DEF n
  <2>4. PutsIn(n, m) /\ NewPushes(n, m) /\ box' \in [Nodes -> SUBSET Copy]
    BY <2>1, <2>2, DepositKind
  <2>5. TypeOK'
    BY <2>2, <2>3, <2>4 DEF NewPushes
  <2> QED
    BY <1>0, <2>1, <2>2, <2>4, <2>5 DEF StepKind, n
<1>2. ASSUME NEW n \in Nodes, NEW m \in Msgs, Hydrate(n, m) PROVE TypeOK' /\ StepKind
  <2>1. m \in OnChain /\ Deposit(n, m, FALSE)
        /\ UNCHANGED <<now, bound, blocks, released, handed, refused, faults>>
    BY <1>2 DEF Hydrate
  <2>2. PutsIn(n, m) /\ NewPushes(n, m) /\ box' \in [Nodes -> SUBSET Copy]
    BY <2>1, DepositKind
  <2>3. TypeOK'
    BY <2>1, <2>2 DEF NewPushes
  <2> QED
    BY <1>0, <2>1, <2>2, <2>3 DEF StepKind
<1>3. ASSUME NEW p \in pushes, Delivered(p) PROVE TypeOK' /\ StepKind
  <2>1. /\ Accept(p.to, p.copy) /\ pushes' \subseteq pushes
        /\ UNCHANGED <<now, bound, blocks, handed, refused, faults>>
    BY <1>3 DEF Delivered
  <2>2. p.copy.msg \in Msgs
    BY DEF Push, Copy
  <2>3. released' \subseteq Msgs
    BY <1>3, <2>2 DEF Delivered
  <2>4. TakesIn(p) /\ NoNewPush /\ box' \in [Nodes -> SUBSET Copy]
    BY <2>1, AcceptKind, Reflexive
  <2>5. TypeOK'
    BY <2>1, <2>3, <2>4
  <2> QED
    BY <1>0, <2>1, <2>4, <2>5 DEF StepKind
<1>4. ASSUME NEW p \in pushes, AnswerLost(p) PROVE TypeOK' /\ StepKind
  <2>1. /\ Accept(p.to, p.copy) /\ OneLess(p) /\ faults' \in 0..MaxFaults
        /\ UNCHANGED <<now, bound, blocks, released, handed, refused>>
    BY <1>4, LimitsAssumption DEF AnswerLost, LimitsAssumption
  <2>2. TakesIn(p) /\ NoNewPush /\ box' \in [Nodes -> SUBSET Copy]
    BY <2>1, AcceptKind, OneLessKind
  <2>3. TypeOK'
    BY <2>1, <2>2 DEF NoNewPush
  <2> QED
    BY <1>0, <2>1, <2>2, <2>3 DEF StepKind
<1>5. ASSUME NEW p \in pushes, NotReached(p) PROVE TypeOK' /\ StepKind
  <2>1. OneLess(p) /\ UNCHANGED <<now, box, bound, blocks, released, handed, refused, faults>>
    BY <1>5 DEF NotReached
  <2>2. NoNewPush
    BY <2>1, OneLessKind
  <2>3. TypeOK' /\ TakesOut
    BY <2>1, <2>2 DEF NoNewPush, TakesOut
  <2> QED
    BY <1>0, <2>1, <2>2, <2>3 DEF StepKind
<1>6. ASSUME NEW a \in Readers, Poll(a) PROVE TypeOK' /\ StepKind
  <2>1. a \in Agents /\ Home[a] \in Nodes
    BY AgentsAssumption DEF AgentsAssumption, Readers
  <2>2. PICK ids \in SUBSET Msgs :
          /\ box' = [box EXCEPT ![Home[a]] = Kept(Live(box[Home[a]]), ClaimedKeys(a, Rebound), ids)]
          /\ handed' = handed \cup ids
    BY <1>6, <2>1 DEF Poll, Live, Copy
  <2>3. UNCHANGED <<now, blocks, pushes, released, refused, faults>>
        /\ bound' = [bound EXCEPT ![a] = Rebound]
    BY <1>6 DEF Poll
  <2>4. TakesOut /\ box' \in [Nodes -> SUBSET Copy]
    BY <2>1, <2>2, Shrunk DEF Kept, Live
  <2>5. TypeOK'
    BY <2>1, <2>2, <2>3, <2>4, BindingType
  <2> QED
    BY <1>0, <2>3, <2>4, <2>5, Reflexive DEF StepKind
<1>7. ASSUME NEW a \in Readers, Count(a) PROVE TypeOK' /\ StepKind
  <2>1. a \in Agents /\ Home[a] \in Nodes
    BY AgentsAssumption DEF AgentsAssumption, Readers
  <2>2. /\ UNCHANGED <<now, blocks, pushes, released, handed, refused, faults>>
        /\ bound' = [bound EXCEPT ![a] = Rebound]
        /\ box' = [box EXCEPT ![Home[a]] = Live(box[Home[a]])]
    BY <1>7 DEF Count
  <2>3. TakesOut /\ box' \in [Nodes -> SUBSET Copy]
    BY <2>1, <2>2, Shrunk DEF Live
  <2>4. TypeOK'
    BY <2>1, <2>2, <2>3, BindingType
  <2> QED
    BY <1>0, <2>2, <2>3, <2>4, Reflexive DEF StepKind
<1>8. ASSUME NEW a \in Agents, NEW s \in Agents, Block(a, s) PROVE TypeOK' /\ StepKind
  <2> DEFINE S == {c \in box[Home[a]] :
                     ~(c.key \in PurgedKeys(a) /\ Sender[c.msg] = s /\ c.from = Home[a])}
  <2>1. Home[a] \in Nodes /\ S \subseteq box[Home[a]]
    BY AgentsAssumption DEF AgentsAssumption
  <2>2. /\ UNCHANGED <<now, bound, pushes, released, handed, refused, faults>>
        /\ blocks' = [blocks EXCEPT ![a] = @ \cup {s}]
        /\ box' = [box EXCEPT ![Home[a]] = S]
    BY <1>8 DEF Block
  <2> HIDE DEF S
  <2>3. TakesOut /\ box' \in [Nodes -> SUBSET Copy]
    BY <2>1, <2>2, Shrunk
  <2>4. TypeOK'
    BY <2>2, <2>3
  <2> QED
    BY <1>0, <2>2, <2>3, <2>4, Reflexive DEF StepKind
<1>9. ASSUME NEW a \in Agents, NEW s \in Agents, Unblock(a, s) PROVE TypeOK' /\ StepKind
  <2>1. /\ UNCHANGED <<now, box, bound, pushes, released, handed, refused, faults>>
        /\ blocks' = [blocks EXCEPT ![a] = @ \ {s}]
    BY <1>9 DEF Unblock
  <2>2. TypeOK' /\ TakesOut
    BY <2>1 DEF TakesOut
  <2> QED
    BY <1>0, <2>1, <2>2, Reflexive DEF StepKind
<1>10. ASSUME NEW n \in Nodes, Restart(n) PROVE TypeOK' /\ StepKind
  <2>1. /\ UNCHANGED <<now, blocks, released, handed, refused>>
        /\ faults' \in 0..MaxFaults /\ pushes' \subseteq pushes
        /\ box' = [box EXCEPT ![n] = {}]
        /\ bound' = [a \in Agents |-> IF Home[a] = n THEN NoBinding ELSE bound[a]]
    BY <1>10, LimitsAssumption DEF Restart, LimitsAssumption
  <2>2. TakesOut /\ box' \in [Nodes -> SUBSET Copy]
    BY <2>1 DEF TakesOut
  <2>3. bound' \in [Agents -> Binding]
    BY <2>1 DEF Binding
  <2>4. TypeOK'
    BY <2>1, <2>2, <2>3
  <2> QED
    BY <1>0, <2>1, <2>2, <2>4, Reflexive DEF StepKind
<1>11. ASSUME Tick PROVE TypeOK' /\ StepKind
  <2>1. TypeOK' /\ TakesOut /\ now' >= now
    BY <1>11, TimeAssumption DEF Tick, TakesOut, TimeAssumption
  <2> QED
    BY <1>11, <2>1, Reflexive DEF Tick, StepKind
<1>12. CASE UNCHANGED vars
  BY <1>12 DEF vars
<1> QED
  BY <1>1, <1>2, <1>3, <1>4, <1>5, <1>6, <1>7, <1>8, <1>9, <1>10, <1>11, <1>12 DEF Next

LEMMA TypeStarts == Init => TypeOK
  BY TimeAssumption, LimitsAssumption
  DEF Init, TypeOK, TimeAssumption, LimitsAssumption, Binding

\* Everything keeps its type.
THEOREM TypeCorrect == Spec => []TypeOK
  BY TypeStarts, StepKinds, PTL DEF Spec

-----------------------------------------------------------------------------
\* The cap.  In no mailbox do more than Cap copies have one sender_block_ref.
CapInv ==
  \A n \in Nodes :
    /\ IsFiniteSet(box[n])
    /\ \A k \in Key, m \in Msgs, from \in Nodes : Cardinality(FromSender(box[n], k, m, from)) <= Cap

LEMMA FewerFromSender ==
  ASSUME NEW B, IsFiniteSet(B), NEW S, S \subseteq B, NEW k, NEW m, NEW from
  PROVE  /\ IsFiniteSet(S) /\ Cardinality(FromSender(S, k, m, from)) \in Nat
         /\ Cardinality(FromSender(S, k, m, from)) <= Cardinality(FromSender(B, k, m, from))
         /\ Cardinality(FromSender(B, k, m, from)) \in Nat
<1>1. IsFiniteSet(S)
  BY FS_Subset
<1>2. /\ FromSender(S, k, m, from) \subseteq FromSender(B, k, m, from)
      /\ FromSender(B, k, m, from) \subseteq B
  BY DEF FromSender, Parked
<1>3. IsFiniteSet(FromSender(B, k, m, from)) /\ IsFiniteSet(FromSender(S, k, m, from))
  BY <1>2, FS_Subset
<1> QED
  BY <1>1, <1>2, <1>3, FS_Subset, FS_CardinalityType

\* A copy that comes where there was room for it.
LEMMA OneMoreFromSender ==
  ASSUME NEW B, IsFiniteSet(B), NEW c, Cap \in Nat,
         \A k \in Key, m \in Msgs, from \in Nodes : Cardinality(FromSender(B, k, m, from)) <= Cap,
         Cardinality(FromSender(B, c.key, c.msg, c.from)) < Cap
  PROVE  /\ IsFiniteSet(B \cup {c})
         /\ \A k \in Key, m \in Msgs, from \in Nodes :
              Cardinality(FromSender(B \cup {c}, k, m, from)) <= Cap
<1>1. IsFiniteSet(B \cup {c})
  BY FS_AddElement
<1>2. ASSUME NEW k \in Key, NEW m \in Msgs, NEW from \in Nodes
      PROVE  Cardinality(FromSender(B \cup {c}, k, m, from)) <= Cap
  <2> DEFINE F == FromSender(B, k, m, from)
  <2>1. F \subseteq B
    BY DEF FromSender, Parked
  <2>2. IsFiniteSet(F) /\ Cardinality(F) \in Nat
    BY <2>1, FS_Subset, FS_CardinalityType
  <2>3. CASE c.key = k /\ Sender[c.msg] = Sender[m] /\ c.from = from
    <3>1. F = FromSender(B, c.key, c.msg, c.from) /\ FromSender(B \cup {c}, k, m, from) = F \cup {c}
      BY <2>3 DEF FromSender, Parked
    <3> HIDE DEF F
    <3>2. Cardinality(F) < Cap
      BY <3>1
    <3>3. Cardinality(F \cup {c}) = IF c \in F THEN Cardinality(F) ELSE Cardinality(F) + 1
      BY <2>2, FS_AddElement, Zenon
    <3>4. Cardinality(F \cup {c}) <= Cap
      BY <2>2, <3>2, <3>3
    <3> QED
      BY <3>1, <3>4
  <2>4. CASE ~(c.key = k /\ Sender[c.msg] = Sender[m] /\ c.from = from)
    <3>1. FromSender(B \cup {c}, k, m, from) = F
      BY <2>4 DEF FromSender, Parked
    <3> QED
      BY <3>1
  <2> QED
    BY <2>3, <2>4
<1> QED
  BY <1>1, <1>2

LEMMA CapStep == TypeOK /\ CapInv /\ [Next]_vars => CapInv'
<1> SUFFICES ASSUME TypeOK, CapInv, [Next]_vars PROVE CapInv'
  OBVIOUS
<1> DEFINE Kept_(B) == /\ IsFiniteSet(B)
                       /\ \A k \in Key, m \in Msgs, from \in Nodes :
                            Cardinality(FromSender(B, k, m, from)) <= Cap
<1>1. Cap \in Nat
  BY LimitsAssumption DEF LimitsAssumption
<1>2. \A n \in Nodes : Kept_(box[n])
  BY DEF CapInv
<1>3. ASSUME NEW B, Kept_(B), NEW S, S \subseteq B PROVE Kept_(S)
  <2>1. IsFiniteSet(S)
    BY <1>3, FS_Subset
  <2>2. ASSUME NEW k \in Key, NEW m \in Msgs, NEW from \in Nodes
        PROVE  Cardinality(FromSender(S, k, m, from)) <= Cap
    <3>1. Cardinality(FromSender(B, k, m, from)) <= Cap
      BY <1>3
    <3>2. /\ Cardinality(FromSender(S, k, m, from)) \in Nat
          /\ Cardinality(FromSender(S, k, m, from)) <= Cardinality(FromSender(B, k, m, from))
          /\ Cardinality(FromSender(B, k, m, from)) \in Nat
      BY <1>3, FewerFromSender
    <3> QED
      BY <1>1, <3>1, <3>2
  <2> QED
    BY <2>1, <2>2
<1>4. \A n \in Nodes : Kept_(Live(box[n]))
  BY <1>2, <1>3 DEF Live
<1>5. ASSUME NEW n \in Nodes, NEW c,
             Cardinality(FromSender(Live(box[n]), c.key, c.msg, c.from)) < Cap
      PROVE  Kept_(Live(box[n]) \cup {c})
  BY <1>1, <1>4, <1>5, OneMoreFromSender
<1>6. \A n \in Nodes : \A k, m, from : Cardinality(FromSender(Live(box[n]), k, m, from)) \in Nat
  BY <1>4, FewerFromSender
<1>7. CASE TakesOut
  <2>1. \A n \in Nodes : Kept_(box'[n])
    BY <1>2, <1>3, <1>7 DEF TakesOut
  <2> QED
    BY <2>1 DEF CapInv
<1>8. ASSUME NEW n \in Nodes, NEW m \in Msgs, PutsIn(n, m) PROVE CapInv'
  <2>1. CASE box'[n] \subseteq box[n]
    <3>1. \A o \in Nodes : Kept_(box'[o])
      BY <1>2, <1>3, <1>8, <2>1 DEF PutsIn, OthersStay
    <3> QED
      BY <3>1 DEF CapInv
  <2>2. CASE DepositVerdict(n, m) = "stored" /\ box'[n] = Live(box[n]) \cup {Deposited(n, m)}
    <3>1. ~Capped(Live(box[n]), DepositKey(m), m, n)
      BY <2>2 DEF DepositVerdict
    <3>2. Cardinality(FromSender(Live(box[n]), DepositKey(m), m, n)) < Cap
      BY <1>1, <1>6, <3>1 DEF Capped
    <3>3. Deposited(n, m).key = DepositKey(m) /\ Deposited(n, m).msg = m /\ Deposited(n, m).from = n
      BY DEF Deposited
    <3>4. Kept_(box'[n])
      BY <1>5, <2>2, <3>2, <3>3
    <3>5. \A o \in Nodes : Kept_(box'[o])
      BY <1>2, <1>8, <3>4 DEF PutsIn, OthersStay
    <3> QED
      BY <3>5 DEF CapInv
  <2> QED
    BY <1>8, <2>1, <2>2 DEF PutsIn
<1>9. ASSUME NEW p \in pushes, TakesIn(p) PROVE CapInv'
  <2>0. p.to \in Nodes /\ p.copy \in Copy
    BY DEF TypeOK, Push
  <2>1. CASE box'[p.to] \subseteq box[p.to]
    <3>1. \A o \in Nodes : Kept_(box'[o])
      BY <1>2, <1>3, <1>9, <2>0, <2>1 DEF TakesIn, OthersStay
    <3> QED
      BY <3>1 DEF CapInv
  <2>2. CASE /\ ReplicaVerdict(p.to, p.copy) = "stored"
             /\ box'[p.to] = Live(box[p.to]) \cup {Accepted(p)}
    <3>1. ~Capped(Live(box[p.to]), ReplicaKey(p.to, p.copy.msg), p.copy.msg, p.copy.from)
      BY <2>2 DEF ReplicaVerdict
    <3>2. Cardinality(FromSender(Live(box[p.to]), ReplicaKey(p.to, p.copy.msg), p.copy.msg, p.copy.from)) < Cap
      BY <1>1, <1>6, <2>0, <3>1 DEF Capped
    <3>3. /\ Accepted(p).key = ReplicaKey(p.to, p.copy.msg)
          /\ Accepted(p).msg = p.copy.msg /\ Accepted(p).from = p.copy.from
      BY <2>0 DEF Accepted, Copy
    <3>4. Kept_(box'[p.to])
      BY <1>5, <2>0, <2>2, <3>2, <3>3
    <3>5. \A o \in Nodes : Kept_(box'[o])
      BY <1>2, <1>9, <3>4 DEF TakesIn, OthersStay
    <3> QED
      BY <3>5 DEF CapInv
  <2> QED
    BY <1>9, <2>1, <2>2 DEF TakesIn
<1>10. CASE UNCHANGED vars
  BY <1>10 DEF vars, CapInv
<1> QED
  BY <1>7, <1>8, <1>9, <1>10, StepKinds DEF StepKind

LEMMA CapStarts == Init => CapInv
<1> SUFFICES ASSUME Init, NEW n \in Nodes, NEW k, NEW m, NEW from
             PROVE  IsFiniteSet(box[n]) /\ Cardinality(FromSender(box[n], k, m, from)) <= Cap
  BY DEF CapInv
<1>1. box[n] = {} /\ FromSender(box[n], k, m, from) = {}
  BY DEF Init, FromSender, Parked
<1> QED
  BY <1>1, FS_EmptySet, LimitsAssumption DEF LimitsAssumption

\* In no mailbox of any node are there ever more than Cap messages with one
\* sender_block_ref, however deposits, pushes, polls and restarts interleave.
THEOREM CapCorrect == Spec => []CapHolds
<1>1. TypeOK /\ CapInv => CapHolds
  BY DEF TypeOK, CapInv, CapHolds, Copy
<1> QED
  BY <1>1, TypeStarts, StepKinds, CapStarts, CapStep, PTL DEF Spec

-----------------------------------------------------------------------------
\* Where copies are.  A bucket is that of the recipient, of an epoch between the
\* deposit of the message and now; a message is not from the future.
Placed(c) ==
  /\ c.ts <= now
  /\ c.key[1] = "bucket" => /\ c.key[2] = Recipient[c.msg]
                            /\ c.ts \div EpochLen <= c.key[3] /\ c.key[3] <= Epoch
  /\ c.key[1] = "shared" => c.key = <<"shared", Sender[c.msg], Recipient[c.msg]>>

PlacedInv ==
  /\ \A n \in Nodes : \A c \in box[n] : Placed(c)
  /\ \A p \in pushes : p.copy.ts <= now

\* A bucket stays in its place as time goes on.
LEMMA StaysPlaced ==
  ASSUME TypeOK, TypeOK', now' >= now, NEW c \in Copy, Placed(c)
  PROVE  Placed(c)'
<1>1. EpochLen \in Nat \ {0} /\ now \in Nat /\ now' \in Nat /\ c.ts \in Nat
  BY TimeAssumption DEF TimeAssumption, TypeOK, Copy
<1>2. Epoch <= Epoch' /\ Epoch \in Nat /\ Epoch' \in Nat
  BY <1>1, DivGrows, DivNat DEF Epoch
<1>3. c.key[1] = "bucket" => c.key[3] \in Nat
  BY DEF Copy, Key, Epochs
<1>4. c.ts \div EpochLen \in Nat
  BY <1>1, DivNat
<1> QED
  BY <1>1, <1>2, <1>3, <1>4 DEF Placed

\* What is deposited or accepted now is in its place.
LEMMA KeyPlaced ==
  ASSUME TypeOK, NEW c \in Copy, c.ts <= now,
         \/ c.key = DepositKey(c.msg) \/ \E e : c.key = Token(Recipient[c.msg], e)
  PROVE  Placed(c)
<1>1. c.ts \div EpochLen <= Epoch
  BY TimeAssumption, DivGrows DEF TimeAssumption, TypeOK, Copy, Epoch
<1>2. Epoch <= Epoch
  BY EpochType DEF Epochs
<1> QED
  BY <1>1, <1>2 DEF Placed, DepositKey, Bucket, Token

LEMMA PlacedStep == TypeOK /\ PlacedInv /\ [Next]_vars => PlacedInv'
<1> SUFFICES ASSUME TypeOK, PlacedInv, [Next]_vars PROVE PlacedInv'
  OBVIOUS
<1>0. TypeOK'
  BY StepKinds
<1>1. now \in Nat /\ now' \in Nat
  BY <1>0, TimeAssumption DEF TypeOK, TimeAssumption
<1>2. ASSUME now' >= now, NEW n \in Nodes, NEW c \in box[n] PROVE Placed(c)'
  <2>1. c \in Copy /\ Placed(c)
    BY DEF TypeOK, PlacedInv
  <2> QED
    BY <1>0, <1>2, <2>1, StaysPlaced
<1>3. ASSUME NoNewPush, now' >= now PROVE \A q \in pushes' : q.copy.ts <= now'
  <2> SUFFICES ASSUME NEW q \in pushes' PROVE q.copy.ts <= now'
    OBVIOUS
  <2>1. PICK p \in pushes : q.copy = p.copy
    BY <1>3 DEF NoNewPush, SamePush
  <2>2. p.copy.ts <= now /\ p.copy.ts \in Nat
    BY DEF PlacedInv, TypeOK, Push, Copy
  <2> QED
    BY <1>1, <1>3, <2>1, <2>2
<1>4. CASE TakesOut /\ NoNewPush /\ now' >= now
  BY <1>2, <1>3, <1>4 DEF TakesOut, PlacedInv
<1>5. ASSUME NEW n \in Nodes, NEW m \in Msgs, PutsIn(n, m), NewPushes(n, m), now' = now
      PROVE  PlacedInv'
  <2>0. PICK d : d = Deposited(n, m)
    OBVIOUS
  <2>1. d \in Copy /\ d.ts = now /\ d.msg = m /\ d.key = DepositKey(m)
    BY <2>0, DepositKeyType DEF Deposited, Copy, TypeOK
  <2>2. Placed(d) /\ now' >= now
    BY <1>1, <1>5, <2>1, KeyPlaced
  <2>3. Placed(d)'
    BY <1>0, <2>1, <2>2, StaysPlaced
  <2>4. ASSUME NEW o \in Nodes, NEW c \in box'[o] PROVE Placed(c)'
    <3>1. c \in box[o] \/ c = d
      BY <1>5, <2>0 DEF PutsIn, OthersStay, Live
    <3> QED
      BY <1>2, <2>2, <2>3, <3>1
  <2>5. ASSUME NEW q \in pushes' PROVE q.copy.ts <= now'
    <3>1. CASE q \in pushes
      BY <1>5, <3>1 DEF PlacedInv
    <3>2. CASE q.copy \in box'[n]
      BY <2>4, <3>2 DEF Placed
    <3> QED
      BY <1>5, <3>1, <3>2 DEF NewPushes
  <2> QED
    BY <2>4, <2>5 DEF PlacedInv
<1>6. ASSUME NEW p \in pushes, TakesIn(p), NoNewPush, now' = now PROVE PlacedInv'
  <2>1. p.to \in Nodes /\ p.copy \in Copy /\ p.copy.msg \in Msgs /\ p.copy.ts <= now
    BY DEF TypeOK, Push, Copy, PlacedInv
  <2> DEFINE c == Accepted(p)
  <2>2. c \in Copy /\ c.ts = p.copy.ts /\ c.msg = p.copy.msg
        /\ c.key = ReplicaKey(p.to, p.copy.msg)
    BY <2>1, ReplicaKeyType DEF Accepted, Copy
  <2> HIDE DEF c
  <2>3. Placed(c)
    BY <2>1, <2>2, KeyPlaced DEF ReplicaKey
  <2>4. now' >= now
    BY <1>1, <1>6
  <2>5. ASSUME NEW o \in Nodes, NEW d \in box'[o] PROVE Placed(d)'
    <3>1. CASE d \in box[o]
      BY <1>2, <2>4, <3>1
    <3>2. CASE d = c
      <4>1. d \in Copy /\ Placed(d)
        BY <2>2, <2>3, <3>2
      <4> QED
        BY <1>0, <2>4, <4>1, StaysPlaced
    <3> QED
      BY <1>6, <2>1, <3>1, <3>2 DEF TakesIn, OthersStay, Live, c
  <2> QED
    BY <1>3, <1>6, <2>4, <2>5 DEF PlacedInv
<1>7. CASE UNCHANGED vars
  BY <1>7 DEF vars, PlacedInv, Placed, Epoch
<1> QED
  BY <1>1, <1>4, <1>5, <1>6, <1>7, StepKinds DEF StepKind

LEMMA PlacedStarts == Init => PlacedInv
  BY DEF Init, PlacedInv

\* A bucket with a message that lives is that of this epoch or of the last.
LEMMA LiveBucket ==
  ASSUME TypeOK, PlacedInv, NEW n \in Nodes, NEW c \in Live(box[n]), c.key[1] = "bucket"
  PROVE  \/ c.key = Bucket(Recipient[c.msg], Epoch)
         \/ \E e \in {Epoch - 1} \cap Nat : c.key = Bucket(Recipient[c.msg], e)
<1>1. c \in Copy /\ Placed(c) /\ now - c.ts < TTL
  BY DEF TypeOK, PlacedInv, Live
<1>2. c.ts \in Nat /\ now \in Nat /\ EpochLen \in Nat \ {0} /\ now - c.ts < EpochLen
  BY <1>1, TimeAssumption DEF TimeAssumption, TypeOK, Copy
<1>3. Epoch <= c.ts \div EpochLen + 1 /\ c.ts \div EpochLen \in Nat /\ Epoch \in Nat
  BY <1>2, DivNext, DivNat DEF Epoch
<1>4. PICK a \in Agents, e \in Epochs : c.key = <<"bucket", a, e>>
  BY <1>1 DEF Copy, Key
<1>5. e \in Nat /\ a = Recipient[c.msg] /\ c.ts \div EpochLen <= e /\ e <= Epoch
  BY <1>1, <1>4 DEF Placed, Epochs
<1>6. e = Epoch \/ (e = Epoch - 1 /\ Epoch - 1 \in Nat)
  BY <1>3, <1>5
<1> QED
  BY <1>4, <1>5, <1>6 DEF Bucket

\* The requests and shared messages that are in no token's mailbox are among
\* what the next poll claims, for as long as they live.
THEOREM ClaimableCorrect == Spec => []DepositsAreClaimable
<1>1. TypeOK /\ PlacedInv => DepositsAreClaimable
  <2> SUFFICES ASSUME TypeOK, PlacedInv, NEW n \in Nodes, NEW c \in Live(box[n]), c.key[1] # "token"
               PROVE  c.key \in ClaimedKeys(Recipient[c.msg], Rebound)
    BY DEF DepositsAreClaimable
  <2>1. c \in Copy /\ Placed(c) /\ Sender[c.msg] \in Agents
    BY AgentsAssumption DEF AgentsAssumption, TypeOK, PlacedInv, Live, Copy
  <2>2. c.key[1] \in {"bucket", "shared"}
    BY <2>1 DEF Copy, Key
  <2>3. CASE c.key[1] = "bucket"
    BY <2>3, LiveBucket DEF ClaimedKeys
  <2>4. CASE c.key[1] = "shared"
    BY <2>1, <2>4 DEF Placed, ClaimedKeys
  <2> QED
    BY <2>2, <2>3, <2>4
<1> QED
  BY <1>1, TypeStarts, StepKinds, PlacedStarts, PlacedStep, PTL DEF Spec

\* What leaves a mailbox by a poll has been handed over.
THEOREM PollCorrect == Spec => PollLosesNothing
<1>1. ASSUME TypeOK, NEW a \in Agents, Poll(a), NEW c \in Live(box[Home[a]]) \ box'[Home[a]]
      PROVE  c.msg \in handed'
  <2>1. Home[a] \in Nodes
    BY AgentsAssumption DEF AgentsAssumption
  <2>2. PICK ids :
          /\ box' = [box EXCEPT ![Home[a]] = Kept(Live(box[Home[a]]), ClaimedKeys(a, Rebound), ids)]
          /\ handed' = handed \cup ids
    BY <1>1 DEF Poll
  <2> QED
    BY <1>1, <2>1, <2>2 DEF TypeOK, Kept
<1>2. TypeOK => [\A a \in Agents : Poll(a) =>
                   \A c \in Live(box[Home[a]]) \ box'[Home[a]] : c.msg \in handed']_vars
  BY <1>1
<1> QED
  BY <1>2, TypeCorrect, PTL DEF PollLosesNothing

-----------------------------------------------------------------------------
\* Where messages come from.  One that is not on the chain is deposited at its
\* sender's node alone and pushed from there alone, so it never comes back, and
\* at that node a request is in a bucket.
FromHome(n, c) ==
  c.msg \notin OnChain =>
    /\ c.from = Home[Sender[c.msg]]
    /\ (c.from = n /\ Class[c.msg] = "request") => c.key[1] = "bucket"

PushedFromHome(p) ==
  /\ p.to # p.at
  /\ p.copy.msg \notin OnChain => p.copy.from = p.at /\ p.at = Home[Sender[p.copy.msg]]

OriginInv ==
  /\ \A n \in Nodes : \A c \in box[n] : FromHome(n, c)
  /\ \A p \in pushes : PushedFromHome(p)

LEMMA OriginStep == TypeOK /\ OriginInv /\ [Next]_vars => OriginInv'
<1> SUFFICES ASSUME TypeOK, OriginInv, [Next]_vars PROVE OriginInv'
  OBVIOUS
<1>1. ASSUME NoNewPush PROVE \A q \in pushes' : PushedFromHome(q)
  BY <1>1 DEF NoNewPush, SamePush, PushedFromHome, OriginInv
<1>2. CASE TakesOut /\ NoNewPush
  BY <1>1, <1>2 DEF TakesOut, OriginInv
<1>3. ASSUME NEW n \in Nodes, NEW m \in Msgs, PutsIn(n, m), NewPushes(n, m),
             m \in OnChain \/ n = Home[Sender[m]]
      PROVE  OriginInv'
  <2>1. PICK d : d = Deposited(n, m)
    OBVIOUS
  <2>2. FromHome(n, d)
    BY <1>3, <2>1 DEF Deposited, FromHome, DepositKey, Bucket
  <2>3. ASSUME NEW o \in Nodes, NEW c \in box'[o] PROVE FromHome(o, c)
    <3>1. c \in box[o] \/ (o = n /\ c = d)
      BY <1>3, <2>1 DEF PutsIn, OthersStay, Live
    <3> QED
      BY <2>2, <3>1 DEF OriginInv
  <2>4. ASSUME NEW q \in pushes' PROVE PushedFromHome(q)
    <3>1. CASE q \in pushes
      BY <3>1 DEF OriginInv
    <3>2. CASE q.at = n /\ q.to \in Peers(n, m) /\ q.copy.msg = m /\ q.copy \in box'[n]
      <4>1. q.to # n
        BY <3>2, PeersAreNodes
      <4>2. FromHome(n, q.copy)
        BY <2>3, <3>2
      <4> QED
        BY <1>3, <3>2, <4>1, <4>2 DEF FromHome, PushedFromHome
    <3> QED
      BY <1>3, <3>1, <3>2 DEF NewPushes
  <2> QED
    BY <2>3, <2>4 DEF OriginInv
<1>4. ASSUME NEW p \in pushes, TakesIn(p), NoNewPush PROVE OriginInv'
  <2>1. PICK d : d = Accepted(p)
    OBVIOUS
  <2>2. p.to \in Nodes /\ d.msg = p.copy.msg /\ d.from = p.copy.from
    BY <2>1 DEF TypeOK, Push, Copy, Accepted
  <2>3. FromHome(p.to, d)
    BY <2>2 DEF OriginInv, PushedFromHome, FromHome
  <2>4. ASSUME NEW o \in Nodes, NEW c \in box'[o] PROVE FromHome(o, c)
    <3>1. c \in box[o] \/ (o = p.to /\ c = d)
      BY <1>4, <2>1, <2>2 DEF TakesIn, OthersStay, Live
    <3> QED
      BY <2>3, <3>1 DEF OriginInv
  <2> QED
    BY <1>1, <1>4, <2>4 DEF OriginInv
<1>5. CASE UNCHANGED vars
  BY <1>5 DEF vars, OriginInv
<1> QED
  BY <1>2, <1>3, <1>4, <1>5, StepKinds DEF StepKind

LEMMA OriginStarts == Init => OriginInv
  BY DEF Init, OriginInv

\* Who is blocked changes by a block and its end alone.
LEMMA BlocksChange ==
  TypeOK /\ [Next]_vars => \/ \A a \in Agents : blocks'[a] \subseteq blocks[a]
                         \/ \E a, s \in Agents : Block(a, s)
  BY DEF TypeOK, Next, vars, Send, Hydrate, Delivered, AnswerLost, NotReached, Poll, Count,
         Unblock, Restart, Tick

BlockInv == PlacedInv /\ OriginInv /\ BlockHolds

LEMMA BlockStep == TypeOK /\ BlockInv /\ [Next]_vars => BlockHolds'
<1> SUFFICES ASSUME TypeOK, BlockInv, [Next]_vars,
                    NEW a \in Agents, NEW c \in Live(box[Home[a]])',
                    Class[c.msg] = "request", Recipient[c.msg] = a,
                    c.from = Home[a], c.msg \notin OnChain
             PROVE  Sender[c.msg] \notin blocks'[a]
  BY DEF BlockHolds
<1>0. TypeOK' /\ now \in Nat /\ now' \in Nat
  BY StepKinds, TimeAssumption DEF TypeOK, TimeAssumption
<1>1. Home[a] \in Nodes /\ c \in box'[Home[a]] /\ c \in Copy /\ now' - c.ts < TTL
  BY <1>0, AgentsAssumption DEF AgentsAssumption, Live, TypeOK
<1>2. ASSUME now' >= now, c \in box[Home[a]]
      PROVE  c \in Live(box[Home[a]]) /\ Sender[c.msg] \notin blocks[a]
  <2>1. now - c.ts < TTL
    BY <1>0, <1>1, <1>2, TimeAssumption DEF TimeAssumption, Copy
  <2>2. c \in Live(box[Home[a]])
    BY <1>2, <2>1 DEF Live
  <2> QED
    BY <2>2 DEF BlockInv, BlockHolds
<1>3. CASE TakesOut /\ now' >= now
  <2>1. c \in box[Home[a]]
    BY <1>1, <1>3 DEF TakesOut
  <2>2. CASE \A b \in Agents : blocks'[b] \subseteq blocks[b]
    BY <1>2, <1>3, <2>1, <2>2
  <2>3. ASSUME NEW b \in Agents, NEW s \in Agents, Block(b, s) PROVE Sender[c.msg] \notin blocks'[a]
    <3>1. /\ blocks' = [blocks EXCEPT ![b] = @ \cup {s}] /\ UNCHANGED <<now, bound>>
          /\ box' = [box EXCEPT ![Home[b]] =
                {d \in @ : ~(d.key \in PurgedKeys(b) /\ Sender[d.msg] = s /\ d.from = Home[b])}]
      BY <2>3 DEF Block
    <3>2. CASE a # b \/ Sender[c.msg] # s
      BY <1>2, <1>3, <2>1, <3>1, <3>2 DEF TypeOK
    <3>3. CASE a = b /\ Sender[c.msg] = s
      <4>1. c.key \notin PurgedKeys(a)
        BY <1>1, <3>1, <3>3 DEF TypeOK
      <4>2. c.key[1] = "bucket" /\ c \in Live(box[Home[a]])
        BY <1>1, <1>2, <1>3, <2>1 DEF BlockInv, OriginInv, FromHome
      <4>3. PlacedInv
        BY DEF BlockInv
      <4>4. c.key \in PurgedKeys(a)
        BY <1>1, <4>2, <4>3, LiveBucket DEF PurgedKeys
      <4> QED
        BY <4>1, <4>4
    <3> QED
      BY <3>2, <3>3
  <2> QED
    BY <2>2, <2>3, BlocksChange
<1>4. ASSUME NEW n \in Nodes, NEW m \in Msgs, PutsIn(n, m), UNCHANGED <<now, blocks>>
      PROVE  Sender[c.msg] \notin blocks'[a]
  <2>1. CASE c \in box[Home[a]]
    BY <1>0, <1>2, <1>4, <2>1
  <2>2. CASE c \notin box[Home[a]]
    <3>1. DepositVerdict(n, m) = "stored" /\ n = Home[a] /\ c = Deposited(n, m)
      BY <1>1, <1>4, <2>2 DEF PutsIn, OthersStay, Live
    <3>2. ~Blocked(n, m) /\ c.msg = m
      BY <3>1 DEF DepositVerdict, Deposited
    <3> QED
      BY <1>4, <3>1, <3>2 DEF Blocked
  <2> QED
    BY <2>1, <2>2
<1>5. ASSUME NEW p \in pushes, TakesIn(p), UNCHANGED <<now, blocks>>
      PROVE  Sender[c.msg] \notin blocks'[a]
  <2>1. p.copy \in Copy /\ PushedFromHome(p)
    BY DEF TypeOK, Push, BlockInv, OriginInv
  <2>2. Accepted(p).msg = p.copy.msg /\ Accepted(p).from = p.copy.from
    BY <2>1 DEF Accepted, Copy
  <2>3. c \in box[Home[a]] \/ (Home[a] = p.to /\ c = Accepted(p))
    BY <1>1, <1>5 DEF TakesIn, OthersStay, Live
  <2>4. c # Accepted(p) \/ Home[a] # p.to
    BY <2>1, <2>2 DEF PushedFromHome
  <2> QED
    BY <1>0, <1>2, <1>5, <2>3, <2>4
<1>6. CASE UNCHANGED vars
  BY <1>0, <1>1, <1>2, <1>6 DEF vars
<1> QED
  BY <1>3, <1>4, <1>5, <1>6, StepKinds DEF StepKind

\* While a sender is blocked, nothing that the recipient's own node took from it
\* waits in the recipient's request mailboxes, whatever epoch it came in.
THEOREM BlockCorrect == Spec => []BlockHolds
<1>1. Init => TypeOK /\ BlockInv
  BY TypeStarts, PlacedStarts, OriginStarts, AgentsAssumption
  DEF AgentsAssumption, BlockInv, BlockHolds, Init, Live
<1>2. TypeOK /\ BlockInv /\ [Next]_vars => (TypeOK /\ BlockInv)'
  BY StepKinds, PlacedStep, OriginStep, BlockStep DEF BlockInv
<1>3. BlockInv => BlockHolds
  BY DEF BlockInv
<1> QED
  BY <1>1, <1>2, <1>3, PTL DEF Spec
=============================================================================
