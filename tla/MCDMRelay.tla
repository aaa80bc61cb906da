----------------------------- MODULE MCDMRelay -----------------------------
(* Instances of DMRelay: alice and carol at node s, bob at node r.         *)
EXTENDS DMRelay

CONSTANTS s, r, alice, bob, carol, m1, m2, m3

TwoNodes == {s, r}
TwoAgents == {alice, bob}
ThreeAgents == {alice, bob, carol}
MCHome == [a \in Agents |-> IF a = bob THEN r ELSE s]
One == {m1}
Two == {m1, m2}
FromAlice == [m \in Msgs |-> alice]
ToBob == [m \in Msgs |-> bob]
\* m1 and m2 go to bob, m3 to carol at the sender's own node.
ToBoth == [m \in Msgs |-> IF m = m3 THEN carol ELSE bob]
Three == {m1, m2, m3}
Requests == [m \in Msgs |-> "request"]
SmallBoxes == [c \in {"request", "shared"} |-> 2]
None == {}
CarolBlocksAlice == {<<carol, alice>>}

Touched ==
  released \cup handed \cup refused \cup {p.copy.msg : p \in pushes}
  \cup {c.msg : c \in UNION {box[n] : n \in Nodes}}

\* bob's mail from the other node and carol's from her own share nothing but
\* the clock: a behaviour is about one of them.
Apart ==
  \/ m3 \notin Touched /\ bound[carol] = NoBinding /\ \A a \in Agents : blocks[a] = {}
  \/ Touched \subseteq {m3} /\ bound[bob] = NoBinding
=============================================================================
