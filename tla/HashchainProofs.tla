--------------------------- MODULE HashchainProofs ---------------------------
(***************************************************************************)
(* What holds of Hashchain for any number of authors, threads and events.   *)
(*                                                                          *)
(* ChainInv holds always: the types, and that what is archived, in memory   *)
(* and on disk are sequences of events.  TurnsInv holds while writers take  *)
(* turns: every chain that is in memory, about to be installed or on disk   *)
(* is linked and not ahead of the archive it is put after.  LogInv holds    *)
(* while in addition no flush runs into an event on its way: the log, the   *)
(* file and the flushes under way hold what append has returned for last.   *)
(***************************************************************************)
EXTENDS Hashchain, FiniteSetTheorems, SequenceTheorems, WellFoundedInduction, TLAPS

-----------------------------------------------------------------------------
\* A bounded set of numbers has a greatest one.
LEMMA GreatestExists ==
  ASSUME NEW m \in Nat, NEW S \in SUBSET (0..m), S # {}
  PROVE  \E s \in S : \A r \in S : r <= s
<1> DEFINE T == {t \in Nat : \A s \in S : s <= t}
<1>1. T \subseteq Nat /\ T # {}
  <2>1. m \in T
    OBVIOUS
  <2> QED
    BY <2>1
<1>2. PICK t \in T : \A u \in T : ~(<<u, t>> \in OpToRel(<, Nat))
  BY <1>1, NatLessThanWellFounded, WFMin, Zenon
<1>3. \A u \in T : ~(u < t)
  BY <1>1, <1>2, Zenon DEF OpToRel
<1>4. t \in Nat /\ \A s \in S : s <= t
  OBVIOUS
<1>5. t \in S
  <2>1. SUFFICES ASSUME t \notin S PROVE FALSE
    OBVIOUS
  <2>2. \A s \in S : s \in Nat /\ s <= t - 1
    BY <1>4, <2>1
  <2>3. t - 1 \in Nat
    <3>1. PICK s \in S : TRUE
      OBVIOUS
    <3> QED
      BY <1>4, <2>2, <3>1
  <2>4. t - 1 \in T
    BY <2>2, <2>3
  <2> QED
    BY <1>3, <1>4, <2>4
<1> QED
  BY <1>4, <1>5

\* The beginning and the end of a sequence.
LEMMA Beginning ==
  ASSUME NEW S, NEW s \in Seq(S), NEW n \in 0..Len(s)
  PROVE  /\ SubSeq(s, 1, n) \in Seq(S) /\ Len(SubSeq(s, 1, n)) = n
         /\ \A i \in 1..n : SubSeq(s, 1, n)[i] = s[i]
<1>1. \A i \in 1..n : s[i] \in S
  BY ElementOfSeq, LenProperties
<1>2. n \in Nat /\ n \in Int /\ 1 \in Int
  BY LenProperties
<1> QED
  BY <1>1, <1>2, SubSeqProperties

LEMMA Ending ==
  ASSUME NEW S, NEW s \in Seq(S), NEW n \in 0..Len(s)
  PROVE  /\ SubSeq(s, n + 1, Len(s)) \in Seq(S) /\ Len(SubSeq(s, n + 1, Len(s))) = Len(s) - n
         /\ \A i \in 1..(Len(s) - n) : SubSeq(s, n + 1, Len(s))[i] = s[n + i]
<1>1. PICK m \in Nat : m = Len(s)
  BY LenProperties
<1>2. \A i \in (n + 1)..m : s[i] \in S
  BY <1>1, ElementOfSeq
<1>3. PICK l \in Int : l = n + 1
  BY <1>1
<1>4. /\ SubSeq(s, l, m) \in Seq(S) /\ Len(SubSeq(s, l, m)) = IF l <= m THEN m - l + 1 ELSE 0
      /\ \A i \in 1..(m - l + 1) : SubSeq(s, l, m)[i] = s[l + i - 1]
  BY <1>1, <1>2, <1>3, SubSeqProperties
<1>5. \A i \in 1..(m - n) : SubSeq(s, l, m)[i] = s[n + i]
  BY <1>1, <1>3, <1>4
<1> QED
  BY <1>1, <1>3, <1>4, <1>5

\* An event is a history that is not empty and not longer than the bound.
LEMMA EventIsHistory ==
  \A e : e \in Events <=> e \in Seq(Entries) /\ Len(e) \in 1..MaxEvents
<1>1. ASSUME NEW e \in Events PROVE e \in Seq(Entries) /\ Len(e) \in 1..MaxEvents
  <2>1. PICK n \in 1..MaxEvents : e \in [1..n -> Entries]
    BY DEF Events
  <2> QED
    BY <2>1, HashchainAssumption, LenProperties, IsASeq
<1>2. ASSUME NEW e \in Seq(Entries), Len(e) \in 1..MaxEvents PROVE e \in Events
  BY <1>2, LenProperties DEF Events
<1> QED
  BY <1>1, <1>2

\* The last entry of an event, and the history it was made on.
LEMMA EventEntry ==
  ASSUME NEW e \in Events
  PROVE  /\ e \in Seq(Entries) /\ Len(e) \in 1..MaxEvents /\ Len(e) \in Nat /\ e # Genesis
         /\ Last(e) = e[Len(e)] /\ Last(e) \in Entries
         /\ By(e) \in Authors /\ Sequence(e) \in 1..MaxSeq
         /\ Front(e) \in Seq(Entries) /\ Len(Front(e)) = Len(e) - 1
         /\ \A i \in 1..(Len(e) - 1) : Front(e)[i] = e[i]
<1>1. e \in Seq(Entries) /\ Len(e) \in 1..MaxEvents
  BY EventIsHistory
<1>2. e # <<>> /\ Len(e) \in Nat /\ MaxEvents \in Nat
  BY <1>1, HashchainAssumption, EmptySeq
<1>3. e[Len(e)] \in Entries
  BY <1>1, <1>2, ElementOfSeq
<1>4. Len(e) - 1 \in 0..Len(e)
  BY <1>1
<1>5. /\ SubSeq(e, 1, Len(e) - 1) \in Seq(Entries)
      /\ Len(SubSeq(e, 1, Len(e) - 1)) = Len(e) - 1
      /\ \A i \in 1..(Len(e) - 1) : SubSeq(e, 1, Len(e) - 1)[i] = e[i]
  BY <1>1, <1>4, Beginning
<1>6. Last(e) = e[Len(e)] /\ Last(e) \in Entries
  BY <1>3 DEF Last
<1>7. By(e) \in Authors /\ Sequence(e) \in 1..MaxSeq
  BY <1>6 DEF By, Sequence, Entries
<1> QED
  BY <1>1, <1>2, <1>5, <1>6, <1>7 DEF Front, Genesis

\* The author's last sequence on a chain is at least that of each of its events.
LEMMA RebuiltCovers ==
  ASSUME NEW c \in Seq(Events)
  PROVE  /\ Rebuilt(c) \in [Authors -> 0..MaxSeq]
         /\ \A i \in 1..Len(c) : Sequence(c[i]) <= Rebuilt(c)[By(c[i])]
<1> DEFINE Mine(a) == {Sequence(e) : e \in {f \in ToSet(c) : By(f) = a}}
           Greatest(a) == CHOOSE s \in Mine(a) : \A r \in Mine(a) : r <= s
<1>1. \A e \in ToSet(c) : e \in Events
  BY LenProperties, ElementOfSeq DEF ToSet
<1>2. ASSUME NEW a \in Authors PROVE Mine(a) \subseteq 0..MaxSeq
  BY <1>1, EventEntry
<1>3. ASSUME NEW a \in Authors, Mine(a) # {}
      PROVE  Greatest(a) \in Mine(a) /\ \A r \in Mine(a) : r <= Greatest(a)
  <2>1. \E s \in Mine(a) : \A r \in Mine(a) : r <= s
    BY <1>2, <1>3, GreatestExists, HashchainAssumption
  <2> QED
    BY <2>1
<1>4. Rebuilt(c) = [a \in Authors |-> IF Mine(a) = {} THEN 0 ELSE Greatest(a)]
  BY DEF Rebuilt
<1>5. Rebuilt(c) \in [Authors -> 0..MaxSeq]
  <2> HIDE DEF Mine, Greatest
  <2> QED
    BY <1>2, <1>3, <1>4, HashchainAssumption
<1>6. ASSUME NEW i \in 1..Len(c) PROVE Sequence(c[i]) <= Rebuilt(c)[By(c[i])]
  <2>1. c[i] \in ToSet(c) /\ By(c[i]) \in Authors
    BY LenProperties, ElementOfSeq, EventEntry DEF ToSet
  <2>2. Sequence(c[i]) \in Mine(By(c[i]))
    BY <2>1
  <2> HIDE DEF Mine, Greatest
  <2> QED
    BY <1>3, <1>4, <2>1, <2>2
<1> QED
  BY <1>5, <1>6

-----------------------------------------------------------------------------
\* A chain in memory is the end of one history: its events are the beginnings
\* of that history that are longer than Base, and use no sequence twice; only
\* a chain that fills memory has lost its beginning to the archive.
Base(chain) == Len(HeadOf(chain)) - Len(chain)
Beginnings(chain, head, b) ==
  \A i \in 1..Len(chain) :
    Len(chain[i]) = b + i /\ \A j \in 1..(b + i) : chain[i][j] = head[j]
Rising(chain) ==
  \A i, j \in 1..Len(chain) :
    i < j /\ By(chain[i]) = By(chain[j]) => Sequence(chain[i]) < Sequence(chain[j])
Sound(chain) ==
  /\ Base(chain) \in Nat
  /\ Beginnings(chain, HeadOf(chain), Base(chain))
  /\ Rising(chain)
  /\ Len(chain) < MaxMemory => Base(chain) = 0

LEMMA SoundEmpty ==
  Sound(<<>>) /\ Base(<<>>) = 0 /\ HeadOf(<<>>) = Genesis /\ <<>> \in Seq(Events)
<1>1. Len(<<>>) = 0 /\ HeadOf(<<>>) = Genesis /\ Genesis = <<>> /\ <<>> \in Seq(Events)
  BY EmptySeq DEF HeadOf, Genesis
<1>2. Base(<<>>) = 0
  BY <1>1 DEF Base
<1> QED
  BY <1>1, <1>2 DEF Sound, Beginnings, Rising

LEMMA ChainFacts ==
  ASSUME NEW c \in Seq(Events)
  PROVE  /\ Len(c) \in Nat /\ DOMAIN c = 1..Len(c) /\ (c = <<>> <=> Len(c) = 0)
         /\ \A i \in 1..Len(c) : c[i] \in Events
         /\ c # <<>> => HeadOf(c) = c[Len(c)] /\ HeadOf(c) \in Events
<1>1. Len(c) \in Nat /\ DOMAIN c = 1..Len(c) /\ (c = <<>> <=> Len(c) = 0)
  BY LenProperties, EmptySeq
<1>2. \A i \in 1..Len(c) : c[i] \in Events
  BY ElementOfSeq
<1> QED
  BY <1>1, <1>2 DEF HeadOf, Last

\* It is enough that all are beginnings of the last.
LEMMA BaseIs ==
  ASSUME NEW c \in Seq(Events), c # <<>>, NEW b \in Nat, Beginnings(c, HeadOf(c), b)
  PROVE  Base(c) = b
BY ChainFacts DEF Beginnings, Base

\* Each event is made on the one before it.
LEMMA SoundLinks ==
  ASSUME NEW c \in Seq(Events), c # <<>>, Sound(c)
  PROVE  /\ Len(c[1]) = Base(c) + 1 /\ Len(Front(c[1])) = Base(c)
         /\ Len(HeadOf(c)) = Base(c) + Len(c)
         /\ \A i \in 1..Len(c) : i # 1 => Front(c[i]) = c[i - 1]
<1> DEFINE b == Base(c)
<1>1. b \in Nat /\ Beginnings(c, HeadOf(c), b)
  BY DEF Sound
<1> HIDE DEF b
<1>2. Len(c) \in Nat \ {0} /\ HeadOf(c) = c[Len(c)]
  BY ChainFacts
<1>3. Len(c[1]) = b + 1 /\ Len(HeadOf(c)) = b + Len(c)
  BY <1>1, <1>2 DEF Beginnings
<1>4. Len(Front(c[1])) = b
  <2>1. c[1] \in Events
    BY <1>2, ChainFacts
  <2>2. Len(Front(c[1])) = Len(c[1]) - 1
    BY <2>1, EventEntry
  <2> QED
    BY <1>1, <1>3, <2>2
<1>5. ASSUME NEW i \in 1..Len(c), i # 1 PROVE Front(c[i]) = c[i - 1]
  <2>1. i - 1 \in 1..Len(c) /\ i \in Nat
    BY <1>2, <1>5
  <2>2. PICK k \in 1..Len(c) : k = i - 1
    BY <2>1
  <2>3. PICK e \in Events, f \in Events : e = c[i] /\ f = c[k]
    BY ChainFacts
  <2>4. Len(e) = b + i /\ Len(f) = b + i - 1
        /\ \A j \in 1..(b + i - 1) : e[j] = HeadOf(c)[j] /\ f[j] = HeadOf(c)[j]
    <3>1. Len(e) = b + i /\ \A j \in 1..(b + i) : e[j] = HeadOf(c)[j]
      BY <1>1, <2>3 DEF Beginnings
    <3>2. Len(f) = b + k /\ \A j \in 1..(b + k) : f[j] = HeadOf(c)[j]
      BY <1>1, <2>3 DEF Beginnings
    <3>3. b + k = b + i - 1 /\ \A j \in 1..(b + i - 1) : j \in 1..(b + i)
      BY <1>1, <2>1, <2>2
    <3> QED
      BY <3>1, <3>2, <3>3
  <2>5. f \in Seq(Entries) /\ Front(e) \in Seq(Entries) /\ Len(Front(e)) = Len(e) - 1
        /\ \A j \in 1..(Len(e) - 1) : Front(e)[j] = e[j]
    BY EventEntry
  <2>6. Len(Front(e)) = Len(f) /\ \A j \in 1..Len(Front(e)) : Front(e)[j] = f[j]
    BY <1>1, <2>1, <2>4, <2>5
  <2>7. Front(e) = f
    BY <2>5, <2>6, SeqEqual
  <2> QED
    BY <2>2, <2>3, <2>7
<1> QED
  BY <1>3, <1>4, <1>5 DEF b

\* The event e continues the chain c and its author's sequence.
Continues(e, c) ==
  /\ Front(e) = HeadOf(c)
  /\ \A i \in 1..Len(c) : By(c[i]) = By(e) => Sequence(c[i]) < Sequence(e)

LEMMA SoundAppend ==
  ASSUME NEW c \in Seq(Events), Sound(c), NEW e \in Events, Continues(e, c)
  PROVE  /\ Append(c, e) \in Seq(Events) /\ Append(c, e) # <<>>
         /\ Len(Append(c, e)) = Len(c) + 1
         /\ \A i \in 1..Len(c) : Append(c, e)[i] = c[i]
         /\ Append(c, e)[Len(c) + 1] = e
         /\ HeadOf(Append(c, e)) = e /\ Base(Append(c, e)) = Base(c)
         /\ Sound(Append(c, e))
<1> DEFINE d == Append(c, e)
           b == Base(c)
<1>1. d \in Seq(Events) /\ d # <<>> /\ Len(d) = Len(c) + 1 /\ Len(c) \in Nat
      /\ (\A i \in 1..Len(c) : d[i] = c[i]) /\ d[Len(c) + 1] = e
  BY AppendProperties, LenProperties
<1>2. HeadOf(d) = e
  BY <1>1 DEF HeadOf, Last
<1>3. b \in Nat /\ Beginnings(c, HeadOf(c), b) /\ Rising(c) /\ (Len(c) < MaxMemory => b = 0)
  BY DEF Sound
<1> HIDE DEF d, b
<1>4. Len(e) = b + Len(c) + 1
  <2>1. Len(HeadOf(c)) = Len(e) - 1 /\ Len(e) \in Nat
    BY EventEntry DEF Continues
  <2>2. b = Len(HeadOf(c)) - Len(c)
    BY DEF b, Base
  <2> QED
    BY <1>1, <1>3, <2>1, <2>2
<1>5. Beginnings(d, e, b)
  <2> SUFFICES ASSUME NEW i \in 1..Len(d)
               PROVE  Len(d[i]) = b + i /\ \A j \in 1..(b + i) : d[i][j] = e[j]
    BY DEF Beginnings
  <2>1. CASE i = Len(c) + 1
    BY <1>1, <1>3, <1>4, <2>1
  <2>2. CASE i # Len(c) + 1
    <3>1. i \in 1..Len(c) /\ d[i] = c[i]
      BY <1>1, <2>2
    <3>2. Len(c[i]) = b + i /\ \A j \in 1..(b + i) : c[i][j] = HeadOf(c)[j]
      BY <1>3, <3>1 DEF Beginnings
    <3>3. \A j \in 1..(b + i) : HeadOf(c)[j] = e[j]
      <4>1. \A j \in 1..(Len(e) - 1) : HeadOf(c)[j] = e[j]
        BY EventEntry DEF Continues
      <4> QED
        BY <1>1, <1>3, <1>4, <3>1, <4>1
    <3> QED
      BY <3>1, <3>2, <3>3
  <2> QED
    BY <2>1, <2>2
<1>6. Base(d) = b
  BY <1>1, <1>2, <1>3, <1>5, BaseIs
<1>7. Rising(d)
  <2> SUFFICES ASSUME NEW i \in 1..Len(d), NEW j \in 1..Len(d), i < j, By(d[i]) = By(d[j])
               PROVE  Sequence(d[i]) < Sequence(d[j])
    BY DEF Rising
  <2>1. i \in 1..Len(c) /\ d[i] = c[i]
    BY <1>1
  <2>2. CASE j = Len(c) + 1
    BY <1>1, <2>1, <2>2 DEF Continues
  <2>3. CASE j # Len(c) + 1
    <3>1. j \in 1..Len(c) /\ d[j] = c[j]
      BY <1>1, <2>3
    <3> QED
      BY <1>3, <2>1, <3>1 DEF Rising
  <2> QED
    BY <2>2, <2>3
<1>8. Len(d) < MaxMemory => b = 0
  BY <1>1, <1>3, HashchainAssumption
<1>9. Sound(d)
  BY <1>2, <1>3, <1>5, <1>6, <1>7, <1>8 DEF Sound
<1> QED
  BY <1>1, <1>2, <1>6, <1>9 DEF d, b

\* What memory keeps of a chain and what it archives.
LEMMA CappedFacts ==
  ASSUME NEW c \in Seq(Events)
  PROVE  /\ Overflow(c) \in 0..Len(c) /\ Len(c) - Overflow(c) <= MaxMemory
         /\ Overflow(c) > 0 => Len(c) - Overflow(c) = MaxMemory
         /\ Capped(c) \in Seq(Events) /\ Len(Capped(c)) = Len(c) - Overflow(c)
         /\ Archived(c) \in Seq(Events) /\ Len(Archived(c)) = Overflow(c)
         /\ \A i \in 1..(Len(c) - Overflow(c)) : Capped(c)[i] = c[Overflow(c) + i]
         /\ \A i \in 1..Overflow(c) : Archived(c)[i] = c[i]
         /\ c # <<>> => Capped(c) # <<>>
         /\ HeadOf(Capped(c)) = HeadOf(c)
         /\ Archived(c) \o Capped(c) = c
         /\ Overflow(c) = 0 => Capped(c) = c /\ Archived(c) = <<>>
<1> DEFINE o == Overflow(c)
<1>1. Len(c) \in Nat /\ MaxMemory \in Nat \ {0}
  BY ChainFacts, HashchainAssumption
<1>2. o \in 0..Len(c) /\ Len(c) - o <= MaxMemory /\ (o > 0 => Len(c) - o = MaxMemory)
      /\ (Len(c) > 0 => Len(c) - o > 0)
  BY <1>1 DEF Overflow
<1> HIDE DEF o
<1>3. Capped(c) \in Seq(Events) /\ Len(Capped(c)) = Len(c) - o
      /\ \A i \in 1..(Len(c) - o) : Capped(c)[i] = c[o + i]
  BY <1>2, Ending DEF Capped, o
<1>4. Archived(c) \in Seq(Events) /\ Len(Archived(c)) = o
      /\ \A i \in 1..o : Archived(c)[i] = c[i]
  BY <1>2, Beginning DEF Archived, o
<1>5. c # <<>> => Capped(c) # <<>>
  BY <1>1, <1>2, <1>3, ChainFacts
<1>6. HeadOf(Capped(c)) = HeadOf(c)
  <2>1. CASE c = <<>>
    <3>1. Len(c) = 0
      BY <2>1, ChainFacts
    <3>2. o = 0
      BY <1>2, <3>1
    <3>3. Len(Capped(c)) = 0
      BY <1>3, <3>1, <3>2
    <3>4. Capped(c) = <<>>
      BY <1>3, <3>3, ChainFacts
    <3> QED
      BY <2>1, <3>4
  <2>2. CASE c # <<>>
    <3>1. HeadOf(Capped(c)) = Capped(c)[Len(c) - o] /\ HeadOf(c) = c[Len(c)]
      BY <1>3, <1>5, <2>2, ChainFacts
    <3>2. Len(c) - o \in 1..(Len(c) - o) /\ o + (Len(c) - o) = Len(c)
      BY <1>1, <1>2, <2>2, ChainFacts
    <3>3. Capped(c)[Len(c) - o] = c[o + (Len(c) - o)]
      BY <1>3, <3>2
    <3> QED
      BY <3>1, <3>2, <3>3
  <2> QED
    BY <2>1, <2>2
<1>7. Archived(c) \o Capped(c) = c
  <2> DEFINE d == Archived(c) \o Capped(c)
  <2>1. d \in Seq(Events) /\ Len(d) = o + (Len(c) - o)
        /\ \A i \in 1..(o + (Len(c) - o)) : d[i] = IF i <= o THEN Archived(c)[i] ELSE Capped(c)[i - o]
    BY <1>3, <1>4, ConcatProperties
  <2> HIDE DEF d
  <2>2. Len(d) = Len(c)
    BY <1>1, <1>2, <2>1
  <2>3. ASSUME NEW i \in 1..Len(d) PROVE d[i] = c[i]
    <3>1. CASE i <= o
      BY <1>1, <1>2, <1>4, <2>1, <2>2, <3>1
    <3>2. CASE i > o
      <4>1. i - o \in 1..(Len(c) - o) /\ o + (i - o) = i /\ d[i] = Capped(c)[i - o]
        BY <1>1, <1>2, <2>1, <2>2, <3>2
      <4> QED
        BY <1>3, <4>1
    <3> QED
      BY <3>1, <3>2, <1>1, <1>2, <2>2
  <2>4. d = c
    BY <2>1, <2>2, <2>3, SeqEqual
  <2> QED
    BY <2>4 DEF d
<1>8. o = 0 => Capped(c) = c /\ Archived(c) = <<>>
  <2> HAVE o = 0
  <2>1. Archived(c) = <<>>
    BY <1>4, ChainFacts
  <2> QED
    BY <1>3, <1>7, <2>1, ConcatEmptySeq
<1> QED
  BY <1>2, <1>3, <1>4, <1>5, <1>6, <1>7, <1>8 DEF o

LEMMA SoundCapped ==
  ASSUME NEW c \in Seq(Events), Sound(c)
  PROVE  Base(Capped(c)) = Base(c) + Overflow(c) /\ Sound(Capped(c))
<1> DEFINE d == Capped(c)
           o == Overflow(c)
           b == Base(c)
<1>1. o \in 0..Len(c) /\ Len(c) \in Nat /\ (o > 0 => Len(c) - o = MaxMemory)
      /\ d \in Seq(Events) /\ Len(d) = Len(c) - o /\ HeadOf(d) = HeadOf(c)
      /\ \A i \in 1..(Len(c) - o) : d[i] = c[o + i]
  BY CappedFacts, ChainFacts
<1>2. b \in Nat /\ Beginnings(c, HeadOf(c), b) /\ Rising(c) /\ (Len(c) < MaxMemory => b = 0)
  BY DEF Sound
<1>3. Base(d) = b + o
  BY <1>1, <1>2 DEF Base
<1> HIDE DEF d, o, b
<1>4. Beginnings(d, HeadOf(d), b + o)
  <2> SUFFICES ASSUME NEW i \in 1..Len(d)
               PROVE  /\ Len(d[i]) = b + o + i
                      /\ \A j \in 1..(b + o + i) : d[i][j] = HeadOf(d)[j]
    BY DEF Beginnings
  <2>1. PICK k \in 1..Len(c) : k = o + i
    BY <1>1
  <2>2. Len(c[k]) = b + k /\ (\A j \in 1..(b + k) : c[k][j] = HeadOf(c)[j]) /\ d[i] = c[k]
    BY <1>1, <1>2, <2>1 DEF Beginnings
  <2>3. b + k = b + o + i
    BY <1>1, <1>2, <2>1
  <2> QED
    BY <1>1, <2>2, <2>3
<1>5. Rising(d)
  <2> SUFFICES ASSUME NEW i \in 1..Len(d), NEW j \in 1..Len(d), i < j, By(d[i]) = By(d[j])
               PROVE  Sequence(d[i]) < Sequence(d[j])
    BY DEF Rising
  <2>1. PICK k \in 1..Len(c), l \in 1..Len(c) : k = o + i /\ l = o + j
    BY <1>1
  <2>2. k < l /\ d[i] = c[k] /\ d[j] = c[l]
    BY <1>1, <2>1
  <2> QED
    BY <1>2, <2>2 DEF Rising
<1>6. Len(d) < MaxMemory => b + o = 0
  BY <1>1, <1>2, HashchainAssumption
<1>7. Sound(d)
  BY <1>1, <1>2, <1>3, <1>4, <1>5, <1>6 DEF Sound
<1> QED
  BY <1>3, <1>7 DEF d, o, b

\* apply_fork: the chain c up to its n-th event, and the events of the fork.
Forked(c, n, new) == SubSeq(c, 1, n) \o EventsAfter(c[n], c[n] \o new)

ForkShape(f, path, c, n, k, new) ==
  /\ f \in Seq(Events) /\ Len(f) = n + k
  /\ path \in Events /\ Len(path) = Len(c[n]) + k
  /\ \A i \in 1..Len(c[n]) : path[i] = c[n][i]
  /\ \A i \in 1..n : f[i] = c[i]
  /\ \A i \in 1..k : f[n + i] = SubSeq(path, 1, Len(c[n]) + i)
  /\ \A i \in 1..k : Last(f[n + i]) = new[i]
  /\ HeadOf(f) = path

Joined(l, c, d) ==
  /\ l \in Seq(Events) /\ Len(l) = Len(c) + Len(d)
  /\ \A i \in 1..Len(l) : l[i] = IF i <= Len(c) THEN c[i] ELSE d[i - Len(c)]
LEMMA Concatenated ==
  ASSUME NEW c \in Seq(Events), NEW d \in Seq(Events), NEW l, l = c \o d
  PROVE  Joined(l, c, d)
BY ConcatProperties DEF Joined

LEMMA ForkedFacts ==
  ASSUME NEW c \in Seq(Events), NEW n \in 1..Len(c), NEW k \in Nat \ {0},
         NEW entries \in [1..k -> Entries], Len(c[n]) + k <= MaxEvents,
         NEW f, f = Forked(c, n, entries), NEW path, path = c[n] \o entries
  PROVE  ForkShape(f, path, c, n, k, entries)
<1> DEFINE added == EventsAfter(c[n], path)
           kept == SubSeq(c, 1, n)
           m == Len(c[n])
<1>1. c[n] \in Events /\ c[n] \in Seq(Entries) /\ m \in Nat \ {0} /\ n \in Nat
  <2>1. c[n] \in Events /\ n \in Nat
    BY ChainFacts
  <2> QED
    BY <2>1, EventEntry
<1>2. entries \in Seq(Entries) /\ Len(entries) = k
  BY IsASeq, LenProperties
<1>3. path \in Seq(Entries) /\ Len(path) = m + k
      /\ \A i \in 1..(m + k) : path[i] = IF i <= m THEN c[n][i] ELSE entries[i - m]
  BY <1>1, <1>2, ConcatProperties
<1>4. path \in Events
  <2>1. Len(path) \in 1..MaxEvents
    BY <1>1, <1>3, HashchainAssumption
  <2> QED
    BY <1>3, <2>1, EventIsHistory
<1>5. added = [i \in 1..k |-> SubSeq(path, 1, m + i)]
  <2>1. Len(path) - m = k
    BY <1>1, <1>3
  <2> QED
    BY <2>1 DEF EventsAfter
<1> HIDE DEF added
<1>6. ASSUME NEW i \in 1..k
      PROVE  /\ SubSeq(path, 1, m + i) \in Events
             /\ Last(SubSeq(path, 1, m + i)) = entries[i]
  <2>1. m + i \in 0..Len(path) /\ m + i \in 1..MaxEvents /\ m + i \in 1..(m + k)
    BY <1>1, <1>3, HashchainAssumption
  <2>2. /\ SubSeq(path, 1, m + i) \in Seq(Entries) /\ Len(SubSeq(path, 1, m + i)) = m + i
        /\ SubSeq(path, 1, m + i)[m + i] = path[m + i]
    BY <1>3, <2>1, Beginning
  <2>3. path[m + i] = entries[i]
    BY <1>1, <1>3, <2>1
  <2> QED
    BY <2>1, <2>2, <2>3, EventIsHistory DEF Last
<1>7. added \in Seq(Events) /\ Len(added) = k /\ \A i \in 1..k : added[i] = SubSeq(path, 1, m + i)
  <2>1. added \in [1..k -> Events] /\ \A i \in 1..k : added[i] = SubSeq(path, 1, m + i)
    BY <1>5, <1>6
  <2> QED
    BY <2>1
<1>8. kept \in Seq(Events) /\ Len(kept) = n /\ \A i \in 1..n : kept[i] = c[i]
  BY <1>1, ChainFacts, Beginning
<1> HIDE DEF kept, m
<1>9. f \in Seq(Events) /\ Len(f) = n + k
      /\ \A i \in 1..(n + k) : f[i] = IF i <= n THEN kept[i] ELSE added[i - n]
  <2>1. f = kept \o added
    BY DEF Forked, kept, added
  <2>2. Joined(f, kept, added)
    BY <1>7, <1>8, <2>1, Concatenated
  <2> QED
    BY <1>7, <1>8, <2>2 DEF Joined
<1>10. \A i \in 1..n : f[i] = c[i]
  BY <1>1, <1>8, <1>9
<1>11. ASSUME NEW i \in 1..k
       PROVE  f[n + i] = SubSeq(path, 1, m + i) /\ Last(f[n + i]) = entries[i]
  <2>1. n + i \in 1..(n + k) /\ ~(n + i <= n) /\ (n + i) - n = i
    BY <1>1
  <2> QED
    BY <1>6, <1>7, <1>9, <2>1
<1>12. HeadOf(f) = path
  <2>1. f # <<>> /\ HeadOf(f) = f[n + k]
    <3>1. n + k # 0 /\ Len(f) = n + k
      BY <1>1, <1>9
    <3> QED
      BY <1>9, <3>1, ChainFacts
  <2>2. f[n + k] = SubSeq(path, 1, m + k)
    <3>1. k \in 1..k
      OBVIOUS
    <3> QED
      BY <1>11, <3>1
  <2> QED
    BY <1>3, <2>1, <2>2, SubSeqFull
<1>13. \A i \in 1..m : path[i] = c[n][i]
  BY <1>1, <1>3
<1> QED
  BY <1>3, <1>4, <1>9, <1>10, <1>11, <1>12, <1>13 DEF m, ForkShape

\* Every author's sequence grows along the events of the fork.
Grows(f, n, new) ==
  \A i \in DOMAIN new : new[i][2] > Rebuilt(SubSeq(f, 1, n + i - 1))[new[i][1]]

LEMMA ForkedSound ==
  ASSUME NEW c \in Seq(Events), Sound(c), NEW n \in 1..Len(c), NEW k \in Nat \ {0},
         NEW entries \in [1..k -> Entries], Len(c[n]) + k <= MaxEvents, k > Len(c) - n,
         NEW f, f = Forked(c, n, entries),
         Grows(f, n, entries)
  PROVE  /\ Sound(f) /\ Base(f) = Base(c)
         /\ Len(f) > Len(c) /\ Len(HeadOf(f)) > Len(HeadOf(c))
         /\ f # <<>> /\ f[1] = c[1]
<1> DEFINE b == Base(c)
<1>1. PICK path : path = c[n] \o entries
  OBVIOUS
<1>2. /\ f \in Seq(Events) /\ Len(f) = n + k
      /\ path \in Events /\ Len(path) = Len(c[n]) + k
      /\ \A i \in 1..Len(c[n]) : path[i] = c[n][i]
      /\ \A i \in 1..n : f[i] = c[i]
      /\ \A i \in 1..k : f[n + i] = SubSeq(path, 1, Len(c[n]) + i)
      /\ \A i \in 1..k : Last(f[n + i]) = entries[i]
      /\ HeadOf(f) = path
  <2>1. ForkShape(f, path, c, n, k, entries)
    BY <1>1, ForkedFacts
  <2> QED
    BY <2>1 DEF ForkShape
<1>3. b \in Nat /\ Beginnings(c, HeadOf(c), b) /\ Rising(c) /\ (Len(c) < MaxMemory => b = 0)
  BY DEF Sound
<1>4. n \in Nat \ {0} /\ Len(c) \in Nat /\ n <= Len(c) /\ c # <<>>
  BY ChainFacts
<1>5. b = Len(HeadOf(c)) - Len(c)
  BY DEF Base
<1> HIDE DEF b
<1>6. Len(c[n]) = b + n /\ Len(HeadOf(c)) = b + Len(c)
      /\ \A i \in 1..(b + n) : c[n][i] = HeadOf(c)[i]
  <2>1. Len(c[Len(c)]) = b + Len(c) /\ HeadOf(c) = c[Len(c)]
    BY <1>3, <1>4, ChainFacts DEF Beginnings
  <2> QED
    BY <1>3, <2>1 DEF Beginnings
<1>7. path \in Seq(Entries) /\ Len(path) = b + n + k
  BY <1>2, <1>6, EventEntry
<1>8. Beginnings(f, path, b)
  <2> SUFFICES ASSUME NEW i \in 1..Len(f)
               PROVE  Len(f[i]) = b + i /\ \A j \in 1..(b + i) : f[i][j] = path[j]
    BY DEF Beginnings
  <2>1. CASE i <= n
    <3>1. i \in 1..n /\ i \in 1..Len(c) /\ f[i] = c[i]
      BY <1>2, <1>4, <2>1
    <3>2. Len(c[i]) = b + i /\ \A j \in 1..(b + i) : c[i][j] = HeadOf(c)[j]
      BY <1>3, <3>1 DEF Beginnings
    <3>3. ASSUME NEW j \in 1..(b + i) PROVE HeadOf(c)[j] = path[j]
      <4>1. j \in 1..(b + n)
        BY <1>3, <1>4, <3>1
      <4> QED
        BY <1>2, <1>6, <4>1
    <3> QED
      BY <3>1, <3>2, <3>3
  <2>2. CASE ~(i <= n)
    <3>1. PICK l \in 1..k : i = n + l
      BY <1>2, <1>4, <2>2
    <3>2. b + n + l = b + i /\ b + i \in 0..Len(path)
      BY <1>3, <1>4, <1>7, <3>1
    <3>3. f[i] = SubSeq(path, 1, b + i)
      <4>1. f[i] = SubSeq(path, 1, Len(c[n]) + l)
        BY <1>2, <3>1
      <4> QED
        BY <1>6, <3>2, <4>1
    <3> QED
      BY <1>7, <3>2, <3>3, Beginning
  <2> QED
    BY <2>1, <2>2
<1>9. f # <<>> /\ f[1] = c[1]
  <2>1. Len(f) # 0 /\ 1 \in 1..n
    BY <1>2, <1>4
  <2> QED
    BY <1>2, <2>1, ChainFacts
<1>10. Base(f) = b
  BY <1>2, <1>3, <1>8, <1>9, BaseIs
<1>11. Len(f) > Len(c) /\ Len(HeadOf(f)) > Len(HeadOf(c))
  BY <1>2, <1>3, <1>4, <1>6, <1>7
<1>12. Rising(f)
  <2> SUFFICES ASSUME NEW i \in 1..Len(f), NEW j \in 1..Len(f), i < j, By(f[i]) = By(f[j])
               PROVE  Sequence(f[i]) < Sequence(f[j])
    BY DEF Rising
  <2>1. CASE j <= n
    <3>1. i \in 1..Len(c) /\ j \in 1..Len(c) /\ f[i] = c[i] /\ f[j] = c[j]
      BY <1>2, <1>4, <2>1
    <3> QED
      BY <1>3, <3>1 DEF Rising
  <2>2. CASE ~(j <= n)
    <3>1. PICK l \in 1..k : j = n + l
      BY <1>2, <1>4, <2>2
    <3>2. Last(f[j]) = entries[l]
      BY <1>2, <3>1
    <3>3. PICK p : p = SubSeq(f, 1, n + l - 1)
      OBVIOUS
    <3>4. j - 1 = n + l - 1 /\ j - 1 \in 0..Len(f) /\ i \in 1..(j - 1)
      BY <3>1, <1>2, <1>4
    <3>5. p \in Seq(Events) /\ Len(p) = j - 1 /\ p[i] = f[i]
      BY <1>2, <3>3, <3>4, Beginning
    <3>6. Sequence(p[i]) <= Rebuilt(p)[By(p[i])] /\ Rebuilt(p) \in [Authors -> 0..MaxSeq]
      BY <3>4, <3>5, RebuiltCovers
    <3>7. entries[l][2] > Rebuilt(p)[entries[l][1]]
      BY <3>3 DEF Grows
    <3>8. f[i] \in Events /\ f[j] \in Events
      BY <1>2, ChainFacts
    <3>9. By(f[i]) \in Authors /\ Sequence(f[i]) \in 1..MaxSeq /\ Sequence(f[j]) \in 1..MaxSeq
      BY <3>8, EventEntry
    <3>10. Sequence(f[j]) > Rebuilt(p)[By(f[j])]
      BY <3>2, <3>7 DEF By, Sequence
    <3>11. Rebuilt(p)[By(f[i])] \in 0..MaxSeq
      BY <3>6, <3>9
    <3> QED
      BY <3>5, <3>6, <3>9, <3>10, <3>11, HashchainAssumption
  <2> QED
    BY <2>1, <2>2
<1>13. Len(f) < MaxMemory => b = 0
  BY <1>2, <1>3, <1>4, <1>11, HashchainAssumption
<1>14. Sound(f)
  BY <1>2, <1>3, <1>8, <1>10, <1>12, <1>13 DEF Sound
<1> QED
  BY <1>9, <1>10, <1>11, <1>14 DEF b

\* An event made on the head of a chain.
LEMMA NewEvent ==
  ASSUME NEW c \in Seq(Events), NEW entry \in Entries, NEW e, e = Append(HeadOf(c), entry),
         Len(e) <= MaxEvents
  PROVE  e \in Events /\ Front(e) = HeadOf(c) /\ Last(e) = entry
<1>1. PICK h \in Seq(Entries) : h = HeadOf(c)
  <2>1. CASE c = <<>>
    BY <2>1, EmptySeq DEF HeadOf, Genesis
  <2>2. CASE c # <<>>
    BY <2>2, ChainFacts, EventEntry
  <2> QED
    BY <2>1, <2>2
<1>2. e \in Seq(Entries) /\ Len(e) = Len(h) + 1 /\ Len(h) \in Nat
      /\ (\A i \in 1..Len(h) : e[i] = h[i]) /\ e[Len(h) + 1] = entry
  BY <1>1, AppendProperties, LenProperties
<1>3. e \in Events
  <2>1. Len(e) \in 1..MaxEvents
    BY <1>2, HashchainAssumption
  <2> QED
    BY <1>2, <2>1, EventIsHistory
<1>4. Last(e) = entry
  BY <1>2 DEF Last
<1>5. Front(e) = h
  <2>1. Front(e) \in Seq(Entries) /\ Len(Front(e)) = Len(h) /\ \A i \in 1..Len(h) : Front(e)[i] = h[i]
    <3>1. Front(e) \in Seq(Entries) /\ Len(Front(e)) = Len(e) - 1
          /\ \A i \in 1..(Len(e) - 1) : Front(e)[i] = e[i]
      BY <1>3, EventEntry
    <3>2. Len(e) - 1 = Len(h)
      BY <1>2
    <3> QED
      BY <1>2, <3>1, <3>2
  <2> QED
    BY <2>1, SeqEqual
<1> QED
  BY <1>1, <1>3, <1>4, <1>5

-----------------------------------------------------------------------------
\* The types of all variables, those of the threads included; which event a
\* thread holds; and that only a writer about to archive leaves more on the
\* chain than memory may hold.
Labels == {"idle", "log", "push", "save", "fork", "sleep", "flush", "write", "clear", "unlog"}
Ledgers == [cold : Seq(Events), hot : Seq(Events)]
ChainTypes ==
  /\ hot \in Seq(Events) /\ cold \in Seq(Events) /\ wal \in Events \cup {Genesis}
  /\ file \in Ledgers /\ seqs \in [Authors -> 0..MaxSeq] /\ acked \subseteq Events
  /\ dirty \in BOOLEAN /\ overlapped \in BOOLEAN /\ raced \in BOOLEAN /\ forgot \in BOOLEAN
  /\ pc \in [Threads -> Labels] /\ dump \in [Threads -> Ledgers]
  /\ work \in [Writers -> Events \cup {Genesis}]
HeldInv ==
  /\ \A t \in Writers : pc[t] \in {"log", "push"} => work[t] \in Events
  /\ \A t \in Appenders : pc[t] # "fork" /\ (pc[t] = "save" => work[t] \in Events)
RoomInv == Len(hot) > MaxMemory => \E t \in Writers : pc[t] = "save"
ChainInv == ChainTypes /\ HeldInv /\ RoomInv

LEMMA ThreadKinds ==
  /\ Writers \subseteq Threads /\ Appenders \subseteq Writers /\ Ingesters \subseteq Writers
  /\ Timer \in Threads /\ Timer \notin Writers /\ Appenders \cap Ingesters = {}
BY HashchainAssumption DEF Threads, Writers

LEMMA EmptyLedger ==
  Empty \in Ledgers /\ Empty.cold = <<>> /\ Empty.hot = <<>> /\ Genesis = <<>>
BY EmptySeq DEF Empty, Ledgers, Genesis

LEMMA ChainInit == HCInit => ChainInv
<1> SUFFICES ASSUME HCInit PROVE ChainInv
  OBVIOUS
<1>1. ChainTypes
  <2>1. <<>> \in Seq(Events) /\ 0 \in 0..MaxSeq /\ Empty \in Ledgers
    BY EmptyLedger, EmptySeq, HashchainAssumption
  <2>2. /\ hot \in Seq(Events) /\ cold \in Seq(Events) /\ wal \in Events \cup {Genesis}
        /\ file \in Ledgers /\ acked \subseteq Events
    BY <2>1 DEF HCInit
  <2>3. pc \in [Threads -> Labels] /\ dump \in [Threads -> Ledgers]
    BY <2>1 DEF HCInit, Labels
  <2>4. work \in [Writers -> Events \cup {Genesis}] /\ seqs \in [Authors -> 0..MaxSeq]
    BY <2>1 DEF HCInit
  <2>5. dirty \in BOOLEAN /\ overlapped \in BOOLEAN /\ raced \in BOOLEAN /\ forgot \in BOOLEAN
    BY DEF HCInit
  <2> QED
    BY <2>2, <2>3, <2>4, <2>5 DEF ChainTypes
<1>2. HeldInv
  BY ThreadKinds DEF HCInit, HeldInv
<1>3. RoomInv
  BY EmptySeq, HashchainAssumption DEF HCInit, RoomInv
<1> QED
  BY <1>1, <1>2, <1>3 DEF ChainInv

\* What begins with a path or with a fork.
LEMMA StartsWith ==
  ASSUME ChainTypes, NEW entry \in Entries, NEW t \in Writers, NEW next,
         Start(t, next, Append(HeadOf(hot), entry))
  PROVE  \E e \in Events : /\ work' = [work EXCEPT ![t] = e]
                           /\ Front(e) = HeadOf(hot) /\ Last(e) = entry
<1>1. PICK e : e = Append(HeadOf(hot), entry)
  OBVIOUS
<1>2. hot \in Seq(Events) /\ Len(e) <= MaxEvents /\ work' = [work EXCEPT ![t] = e]
  BY <1>1 DEF ChainTypes, Start
<1>3. e \in Events /\ Front(e) = HeadOf(hot) /\ Last(e) = entry
  BY <1>1, <1>2, NewEvent
<1> QED
  BY <1>2, <1>3

LEMMA ForksWith ==
  ASSUME ChainTypes, NEW t \in Ingesters, NEW n \in DOMAIN hot,
         NEW k \in 1..(MaxEvents - Len(hot[n])), NEW entries \in [1..k -> Entries],
         BeginFork(t, n, entries)
  PROVE  \E f \in Seq(Events) : /\ dump' = [dump EXCEPT ![t] = [cold |-> cold, hot |-> f]]
                                /\ f = Forked(hot, n, entries) /\ Grows(f, n, entries)
                                /\ n \in 1..Len(hot) /\ k \in Nat \ {0} /\ k > Len(hot) - n
                                /\ Len(hot[n]) + k <= MaxEvents
<1>1. PICK f : f = Forked(hot, n, entries)
  OBVIOUS
<1>2. hot \in Seq(Events) /\ n \in 1..Len(hot)
  <2>1. hot \in Seq(Events)
    BY DEF ChainTypes
  <2> QED
    BY <2>1, ChainFacts
<1>3. Len(hot[n]) \in Nat
  <2>1. hot[n] \in Events
    BY <1>2, ChainFacts
  <2> QED
    BY <2>1, EventEntry
<1>4. k \in Nat \ {0} /\ Len(hot[n]) + k <= MaxEvents
  BY <1>3, HashchainAssumption
<1>5. f \in Seq(Events)
  <2>1. ForkShape(f, hot[n] \o entries, hot, n, k, entries)
    BY <1>1, <1>2, <1>4, ForkedFacts
  <2> QED
    BY <2>1 DEF ForkShape
<1>6. Len(entries) = k
  BY <1>4, LenProperties, IsASeq
<1>7. k > Len(hot) - n /\ Grows(f, n, entries) /\ dump' = [dump EXCEPT ![t] = [cold |-> cold, hot |-> f]]
  BY <1>1, <1>6 DEF BeginFork, Forked, Grows
<1> QED
  BY <1>1, <1>2, <1>4, <1>5, <1>7

\* What a Load leaves, for the chain it is given.
LEMMA LoadFacts ==
  ASSUME ChainTypes, NEW chain \in Seq(Events), Load(chain)
  PROVE  /\ hot' = Capped(chain) /\ cold' = file.cold \o Archived(chain)
         /\ hot' \in Seq(Events) /\ cold' \in Seq(Events) /\ Len(hot') <= MaxMemory
         /\ wal' = Genesis /\ seqs' = Rebuilt(chain) /\ dirty' = FALSE
         /\ file' \in Ledgers
         /\ IF chain = <<>> THEN file' = file ELSE file'.cold = cold' /\ file'.hot = hot'
         /\ \A t \in Threads : pc'[t] \in {"idle", "sleep"}
         /\ pc' \in [Threads -> Labels]
         /\ work' = [t \in Writers |-> Genesis] /\ dump' = [t \in Threads |-> Empty]
<1>1. hot' \in Seq(Events) /\ Len(hot') <= MaxMemory /\ hot' = Capped(chain)
      /\ Archived(chain) \in Seq(Events)
  BY CappedFacts DEF Load
<1>2. cold' = file.cold \o Archived(chain) /\ cold' \in Seq(Events)
  BY <1>1, ConcatProperties DEF Load, ChainTypes, Ledgers
<1>3. file' \in Ledgers /\ IF chain = <<>> THEN file' = file ELSE file'.cold = cold' /\ file'.hot = hot'
  BY <1>1, <1>2 DEF Load, ChainTypes, Ledgers
<1>4. (\A t \in Threads : pc'[t] \in {"idle", "sleep"}) /\ pc' \in [Threads -> Labels]
  BY DEF Load, Labels
<1> QED
  BY <1>1, <1>2, <1>3, <1>4 DEF Load

LEMMA RecoveredFacts ==
  ASSUME ChainTypes
  PROVE  Recovered \in Seq(Events)
<1>1. file.hot \in Seq(Events) /\ (wal # Genesis => wal \in Events)
  BY DEF ChainTypes, Ledgers
<1> QED
  BY <1>1, AppendProperties DEF Recovered, Replayable

\* What a new process finds: the chain file, with or without the event of the
\* log, or nothing.
LEMMA CrashLoads ==
  ASSUME ChainTypes, Crash
  PROVE  \E chain \in Seq(Events) : Load(chain) /\ (chain = Recovered \/ chain = <<>>)
BY RecoveredFacts, EmptySeq DEF Crash

LEMMA TypesStep ==
  ASSUME ChainTypes, HeldInv, HCNext
  PROVE  ChainTypes'
<1> USE ThreadKinds
<1>1. ASSUME NEW t \in Writers, NEW entry \in Entries, NEW next \in {"log", "push"},
             Start(t, next, Append(HeadOf(hot), entry))
      PROVE  ChainTypes'
  <2>1. PICK e \in Events : work' = [work EXCEPT ![t] = e]
    BY <1>1, StartsWith
  <2> QED
    BY <1>1, <2>1 DEF Start, Begin, Goto, ChainTypes, Labels, ledger, disk
<1>2. ASSUME NEW t \in Appenders, WriteWal(t) PROVE ChainTypes'
  BY <1>2 DEF WriteWal, Goto, ChainTypes, HeldInv, Labels, ledger
<1>3. ASSUME NEW t \in Writers, Push(t) PROVE ChainTypes'
  BY <1>3, AppendProperties, EventEntry DEF Push, Goto, ChainTypes, HeldInv, Labels, disk
<1>4. ASSUME NEW t \in Writers, Save(t) PROVE ChainTypes'
  BY <1>4, CappedFacts, ConcatProperties
     DEF Save, Returned, ChainTypes, HeldInv, Labels, disk
<1>5. ASSUME NEW t \in Ingesters, NEW n \in DOMAIN hot, NEW k \in 1..(MaxEvents - Len(hot[n])),
             NEW entries \in [1..k -> Entries], BeginFork(t, n, entries)
      PROVE  ChainTypes'
  <2>1. PICK f \in Seq(Events) : dump' = [dump EXCEPT ![t] = [cold |-> cold, hot |-> f]]
    BY <1>5, ForksWith
  <2>2. [cold |-> cold, hot |-> f] \in Ledgers
    BY DEF ChainTypes, Ledgers
  <2> QED
    BY <1>5, <2>1, <2>2 DEF BeginFork, Begin, Goto, ChainTypes, Labels, ledger, disk
<1>6. ASSUME NEW t \in Ingesters, ApplyFork(t) PROVE ChainTypes'
  <2>1. hot' \in Seq(Events) /\ seqs' \in [Authors -> 0..MaxSeq]
    BY <1>6, RebuiltCovers DEF ApplyFork, ChainTypes, Ledgers
  <2> QED
    BY <1>6, <2>1, EmptyLedger DEF ApplyFork, Goto, ChainTypes, Labels, disk
<1>7. ASSUME NEW t \in Ingesters, ResetChain(t) PROVE ChainTypes'
  <2>1. hot' \in Seq(Events) /\ seqs' \in [Authors -> 0..MaxSeq]
    BY <1>7, EmptySeq, HashchainAssumption DEF ResetChain
  <2> QED
    BY <1>7, <2>1 DEF ResetChain, Goto, ChainTypes, Labels, disk
<1>8. ASSUME NEW t \in Threads, StartFlush(t) PROVE ChainTypes'
  <2>1. [cold |-> cold, hot |-> hot] \in Ledgers
    BY DEF ChainTypes, Ledgers
  <2> QED
    BY <1>8, <2>1, EmptyLedger DEF StartFlush, Goto, ChainTypes, Labels, ledger, disk
<1>9. ASSUME NEW t \in Threads, WriteFile(t) PROVE ChainTypes'
  BY <1>9, EmptyLedger DEF WriteFile, Goto, ChainTypes, Labels, ledger, history
<1>10. ASSUME NEW t \in Threads, ClearDirty(t) \/ ClearWal(t) PROVE ChainTypes'
  BY <1>10 DEF ClearDirty, ClearWal, Goto, ChainTypes, Labels, ledger, disk, history
<1>11. ASSUME Wake PROVE ChainTypes'
  BY <1>11 DEF Wake, Goto, ChainTypes, Labels, ledger, disk, history
<1>12. ASSUME Crash PROVE ChainTypes'
  <2>1. PICK chain \in Seq(Events) : Load(chain)
    BY <1>12, CrashLoads
  <2>2. seqs' \in [Authors -> 0..MaxSeq]
    BY <2>1, LoadFacts, RebuiltCovers
  <2>3. dump' \in [Threads -> Ledgers] /\ work' \in [Writers -> Events \cup {Genesis}]
    BY <2>1, LoadFacts, EmptyLedger
  <2> QED
    BY <1>12, <2>1, <2>2, <2>3, LoadFacts DEF Crash, ChainTypes
<1> QED
  BY <1>1, <1>2, <1>3, <1>4, <1>5, <1>6, <1>7, <1>8, <1>9, <1>10, <1>11, <1>12
     DEF HCNext, BeginAppend, BeginIngest, Flush

LEMMA PlacesStep ==
  ASSUME ChainTypes, HeldInv, HCNext
  PROVE  HeldInv'
<1> USE ThreadKinds DEF HeldInv
<1>1. ASSUME NEW t \in Writers, NEW entry \in Entries, NEW next \in {"log", "push"},
             Start(t, next, Append(HeadOf(hot), entry))
      PROVE  HeldInv'
  <2>1. PICK e \in Events : work' = [work EXCEPT ![t] = e]
    BY <1>1, StartsWith
  <2> QED
    BY <1>1, <2>1 DEF Start, Begin, Goto, ChainTypes
<1>2. ASSUME NEW t \in Appenders, WriteWal(t) PROVE HeldInv'
  BY <1>2 DEF WriteWal, Goto, ChainTypes
<1>3. ASSUME NEW t \in Writers, Push(t) PROVE HeldInv'
  BY <1>3 DEF Push, Goto, ChainTypes
<1>4. ASSUME NEW t \in Writers, Save(t) PROVE HeldInv'
  <2>1. pc' = [pc EXCEPT ![t] = "idle", ![Timer] = IF @ = "idle" THEN "sleep" ELSE @]
    BY <1>4 DEF Save, Returned
  <2>2. \A u \in Writers : pc'[u] = IF u = t THEN "idle" ELSE pc[u]
    BY <2>1 DEF ChainTypes
  <2>3. \A u \in Writers : u # t => work'[u] = work[u]
    BY <1>4 DEF Save, Returned, ChainTypes
  <2> QED
    BY <2>2, <2>3
<1>5. ASSUME NEW t \in Ingesters, NEW n \in DOMAIN hot, NEW entries, BeginFork(t, n, entries)
      PROVE  HeldInv'
  BY <1>5 DEF BeginFork, Begin, Goto, ChainTypes
<1>6. ASSUME NEW t \in Ingesters, ApplyFork(t) \/ ResetChain(t) PROVE HeldInv'
  BY <1>6 DEF ApplyFork, ResetChain, Goto, ChainTypes
<1>7. ASSUME NEW t \in Threads, Flush(t) PROVE HeldInv'
  BY <1>7 DEF Flush, StartFlush, WriteFile, ClearDirty, ClearWal, Goto, ChainTypes
<1>8. ASSUME Wake PROVE HeldInv'
  BY <1>8 DEF Wake, Goto, ChainTypes
<1>9. ASSUME Crash PROVE HeldInv'
  <2>1. \A t \in Threads : pc'[t] \in {"idle", "sleep"}
    BY <1>9, CrashLoads, LoadFacts
  <2> QED
    BY <2>1
<1> QED
  BY <1>1, <1>2, <1>3, <1>4, <1>5, <1>6, <1>7, <1>8, <1>9 DEF HCNext, BeginAppend, BeginIngest

LEMMA RoomStep ==
  ASSUME ChainTypes, RoomInv, HCNext
  PROVE  RoomInv'
<1> USE ThreadKinds DEF RoomInv
<1>1. ASSUME NEW t \in Writers, NEW next \in {"log", "push", "fork"}, Begin(t, next) PROVE RoomInv'
  BY <1>1 DEF Begin, Goto, ChainTypes, ledger
<1>2. ASSUME NEW t \in Appenders, WriteWal(t) PROVE RoomInv'
  BY <1>2 DEF WriteWal, Goto, ChainTypes, ledger
<1>3. ASSUME NEW t \in Writers, Push(t) PROVE RoomInv'
  BY <1>3 DEF Push, Goto, ChainTypes
<1>4. ASSUME NEW t \in Writers, Save(t) PROVE RoomInv'
  <2>1. hot' = Capped(hot) /\ hot \in Seq(Events)
    BY <1>4 DEF Save, ChainTypes
  <2>2. Len(hot') <= MaxMemory /\ Len(hot') \in Nat
    BY <2>1, CappedFacts, ChainFacts
  <2> QED
    BY <2>2, HashchainAssumption
<1>5. ASSUME NEW t \in Ingesters, ApplyFork(t) PROVE RoomInv'
  BY <1>5 DEF ApplyFork, Goto, ChainTypes
<1>6. ASSUME NEW t \in Ingesters, ResetChain(t) PROVE RoomInv'
  <2>1. Len(hot') = 0
    BY <1>6, EmptySeq DEF ResetChain
  <2> QED
    BY <2>1, HashchainAssumption
<1>7. ASSUME NEW t \in Threads, Flush(t) PROVE RoomInv'
  BY <1>7 DEF Flush, StartFlush, WriteFile, ClearDirty, ClearWal, Goto, ChainTypes, ledger
<1>8. ASSUME Wake PROVE RoomInv'
  BY <1>8 DEF Wake, Goto, ChainTypes, ledger
<1>9. ASSUME Crash PROVE RoomInv'
  <2>1. Len(hot') <= MaxMemory /\ hot' \in Seq(Events)
    BY <1>9, CrashLoads, LoadFacts
  <2> QED
    BY <2>1, ChainFacts, HashchainAssumption
<1> QED
  BY <1>1, <1>2, <1>3, <1>4, <1>5, <1>6, <1>7, <1>8, <1>9
     DEF HCNext, BeginAppend, BeginIngest, BeginFork, Start

LEMMA ChainStep == ChainInv /\ [HCNext]_hcVars => ChainInv'
<1> SUFFICES ASSUME ChainInv, [HCNext]_hcVars PROVE ChainInv'
  OBVIOUS
<1>1. CASE HCNext
  BY <1>1, TypesStep, PlacesStep, RoomStep DEF ChainInv
<1>2. CASE UNCHANGED hcVars
  BY <1>2 DEF hcVars, history, ChainInv, ChainTypes, HeldInv, RoomInv
<1> QED
  BY <1>1, <1>2

LEMMA ChainInvType == ChainInv => HCTypeOK
<1> SUFFICES ASSUME ChainInv PROVE HCTypeOK
  OBVIOUS
<1>1. (\A t \in Writers : ~Busy(t)) => Len(hot) <= MaxMemory
  <2>1. Len(hot) \in Nat
    BY LenProperties DEF ChainInv, ChainTypes
  <2> QED
    BY <2>1, HashchainAssumption DEF ChainInv, RoomInv, Busy
<1>2. \A t \in Threads : pc[t] \in Labels
  BY DEF ChainInv, ChainTypes
<1> QED
  BY <1>1, <1>2 DEF ChainInv, ChainTypes, HCTypeOK, Ledgers, Labels

\* Every variable of the chain stays in its type, and only a thread that has
\* pushed an event or a fork and not yet archived leaves memory over its cap.
THEOREM ChainTypeCorrect == HCSpec => []HCTypeOK
<1> QED
  BY ChainInit, ChainStep, ChainInvType, PTL DEF HCSpec

-----------------------------------------------------------------------------
\* A ledger whose archive is c and whose chain in memory is h: the archive ends
\* where the chain begins; it is one linked history; a number covers, for each
\* author, the sequences on a chain.
Anchored(c, h) == Base(h) > 0 => c # <<>> /\ Last(c) = Front(h[1])
Entire(c, h) ==
  LinkedFrom(Genesis, c \o h) /\ Rising(c \o h) /\ (h = <<>> => c = <<>>)
Covers(s, c) == \A i \in 1..Len(c) : Sequence(c[i]) <= s[By(c[i])]

LEMMA AnchoredAppend ==
  ASSUME NEW c \in Seq(Events), NEW h \in Seq(Events), Sound(h), Anchored(c, h),
         NEW e \in Events, Continues(e, h)
  PROVE  Anchored(c, Append(h, e))
<1>1. Base(Append(h, e)) = Base(h) /\ Len(h) \in Nat
      /\ \A i \in 1..Len(h) : Append(h, e)[i] = h[i]
  BY SoundAppend, ChainFacts
<1>2. CASE h = <<>>
  BY <1>1, <1>2, SoundEmpty DEF Anchored
<1>3. CASE h # <<>>
  <2>1. 1 \in 1..Len(h)
    BY <1>1, <1>3, ChainFacts
  <2> QED
    BY <1>1, <2>1 DEF Anchored
<1> QED
  BY <1>2, <1>3

LEMMA AnchoredCapped ==
  ASSUME NEW c \in Seq(Events), NEW h \in Seq(Events), Sound(h), Anchored(c, h)
  PROVE  Anchored(c \o Archived(h), Capped(h))
<1> DEFINE o == Overflow(h)
           a == Archived(h)
           k == Capped(h)
<1>1. o \in 0..Len(h) /\ Len(h) \in Nat /\ (o > 0 => Len(h) - o = MaxMemory)
      /\ a \in Seq(Events) /\ Len(a) = o /\ (\A i \in 1..o : a[i] = h[i])
      /\ (\A i \in 1..(Len(h) - o) : k[i] = h[o + i]) /\ (o = 0 => k = h /\ a = <<>>)
  BY CappedFacts, ChainFacts
<1>2. CASE o = 0
  BY <1>1, <1>2, ConcatEmptySeq
<1>3. CASE o # 0
  <2> HIDE DEF o, a, k
  <2>1. o \in Nat \ {0} /\ 1 \in 1..(Len(h) - o) /\ o + 1 \in 1..Len(h) /\ h # <<>>
    BY <1>1, <1>3, HashchainAssumption, ChainFacts
  <2>2. k[1] = h[o + 1] /\ Front(h[o + 1]) = h[o] /\ a[o] = h[o]
    <3>1. k[1] = h[o + 1] /\ a[o] = h[o]
      BY <1>1, <2>1
    <3>2. Front(h[o + 1]) = h[(o + 1) - 1]
      BY <2>1, SoundLinks
    <3> QED
      BY <2>1, <3>1, <3>2
  <2>3. Len(c) \in Nat /\ c \o a \in Seq(Events) /\ Len(c \o a) = Len(c) + o
        /\ (c \o a)[Len(c) + o] = a[o]
    <3>1. Len(c) \in Nat
      BY LenProperties
    <3>2. Len(c) + o \in 1..(Len(c) + o) /\ ~(Len(c) + o <= Len(c)) /\ (Len(c) + o) - Len(c) = o
      BY <2>1, <3>1
    <3>3. c \o a \in Seq(Events) /\ Len(c \o a) = Len(c) + Len(a)
          /\ \A i \in 1..(Len(c) + Len(a)) : (c \o a)[i] = IF i <= Len(c) THEN c[i] ELSE a[i - Len(c)]
      <4>1. a \in Seq(Events)
        BY <1>1
      <4> QED
        BY <4>1, ConcatProperties
    <3> QED
      BY <1>1, <3>1, <3>2, <3>3
  <2>4. Last(c \o a) = h[o] /\ c \o a # <<>>
    BY <2>1, <2>2, <2>3, EmptySeq DEF Last
  <2> QED
    BY <2>2, <2>4 DEF Anchored, k, a
<1> QED
  BY <1>2, <1>3

LEMMA CoversCapped ==
  ASSUME NEW s, NEW h \in Seq(Events), Covers(s, h)
  PROVE  Covers(s, Archived(h)) /\ Covers(s, Capped(h))
<1>1. Overflow(h) \in 0..Len(h) /\ Len(h) \in Nat
      /\ Len(Archived(h)) = Overflow(h) /\ (\A i \in 1..Overflow(h) : Archived(h)[i] = h[i])
      /\ Len(Capped(h)) = Len(h) - Overflow(h)
      /\ (\A i \in 1..(Len(h) - Overflow(h)) : Capped(h)[i] = h[Overflow(h) + i])
  BY CappedFacts, ChainFacts
<1>2. Covers(s, Archived(h))
  <2> SUFFICES ASSUME NEW i \in 1..Len(Archived(h))
               PROVE  Sequence(Archived(h)[i]) <= s[By(Archived(h)[i])]
    BY DEF Covers
  <2>1. i \in 1..Len(h) /\ Archived(h)[i] = h[i]
    BY <1>1
  <2> QED
    BY <2>1 DEF Covers
<1>3. Covers(s, Capped(h))
  <2> SUFFICES ASSUME NEW i \in 1..Len(Capped(h))
               PROVE  Sequence(Capped(h)[i]) <= s[By(Capped(h)[i])]
    BY DEF Covers
  <2>1. Overflow(h) + i \in 1..Len(h) /\ Capped(h)[i] = h[Overflow(h) + i]
    BY <1>1
  <2> QED
    BY <2>1 DEF Covers
<1> QED
  BY <1>2, <1>3

LEMMA CoversConcat ==
  ASSUME NEW s, NEW c \in Seq(Events), NEW h \in Seq(Events)
  PROVE  Covers(s, c \o h) <=> Covers(s, c) /\ Covers(s, h)
<1>1. Len(c) \in Nat /\ Len(h) \in Nat /\ Len(c \o h) = Len(c) + Len(h)
      /\ \A i \in 1..(Len(c) + Len(h)) : (c \o h)[i] = IF i <= Len(c) THEN c[i] ELSE h[i - Len(c)]
  BY LenProperties, ConcatProperties
<1>2. ASSUME Covers(s, c \o h) PROVE Covers(s, c) /\ Covers(s, h)
  <2>1. ASSUME NEW i \in 1..Len(c) PROVE Sequence(c[i]) <= s[By(c[i])]
    <3>1. i \in 1..Len(c \o h) /\ (c \o h)[i] = c[i]
      BY <1>1
    <3> QED
      BY <1>2, <3>1 DEF Covers
  <2>2. ASSUME NEW i \in 1..Len(h) PROVE Sequence(h[i]) <= s[By(h[i])]
    <3>1. Len(c) + i \in 1..Len(c \o h) /\ (c \o h)[Len(c) + i] = h[i]
      <4>1. Len(c) + i \in 1..(Len(c) + Len(h)) /\ ~(Len(c) + i <= Len(c)) /\ (Len(c) + i) - Len(c) = i
        BY <1>1
      <4> QED
        BY <1>1, <4>1
    <3> QED
      BY <1>2, <3>1 DEF Covers
  <2> QED
    BY <2>1, <2>2 DEF Covers
<1>3. ASSUME Covers(s, c), Covers(s, h) PROVE Covers(s, c \o h)
  <2> SUFFICES ASSUME NEW i \in 1..Len(c \o h)
               PROVE  Sequence((c \o h)[i]) <= s[By((c \o h)[i])]
    BY DEF Covers
  <2>1. CASE i <= Len(c)
    BY <1>1, <1>3, <2>1 DEF Covers
  <2>2. CASE ~(i <= Len(c))
    <3>1. i - Len(c) \in 1..Len(h) /\ (c \o h)[i] = h[i - Len(c)]
      BY <1>1, <2>2
    <3> QED
      BY <1>3, <3>1 DEF Covers
  <2> QED
    BY <2>1, <2>2
<1> QED
  BY <1>2, <1>3

\* An event whose sequence is past what s covers goes on the chain.
LEMMA CoversContinues ==
  ASSUME NEW s \in [Authors -> 0..MaxSeq], NEW c \in Seq(Events), Covers(s, c),
         NEW e \in Events, Sequence(e) > s[By(e)]
  PROVE  \A i \in 1..Len(c) : By(c[i]) = By(e) => Sequence(c[i]) < Sequence(e)
<1> SUFFICES ASSUME NEW i \in 1..Len(c), By(c[i]) = By(e)
             PROVE  Sequence(c[i]) < Sequence(e)
  OBVIOUS
<1>1. c[i] \in Events
  BY ChainFacts
<1>2. Sequence(c[i]) \in 1..MaxSeq /\ Sequence(e) \in 1..MaxSeq /\ s[By(e)] \in 0..MaxSeq
  BY <1>1, EventEntry
<1> QED
  BY <1>2, HashchainAssumption DEF Covers

LEMMA EntireAppend ==
  ASSUME NEW c \in Seq(Events), NEW h \in Seq(Events), Entire(c, h),
         NEW e \in Events, Front(e) = HeadOf(h),
         \A i \in 1..Len(c \o h) : By((c \o h)[i]) = By(e) => Sequence((c \o h)[i]) < Sequence(e)
  PROVE  Entire(c, Append(h, e))
<1>1. PICK l \in Seq(Events) : l = c \o h
  BY ConcatProperties
<1>2. PICK d \in Seq(Events) : d = Append(l, e)
  BY AppendProperties
<1>3. c \o Append(h, e) = d
  <2>1. Append(h, e) = h \o <<e>> /\ d = l \o <<e>> /\ <<e>> \in Seq(Events)
    BY <1>1, <1>2, AppendIsConcat
  <2> QED
    BY <1>1, <2>1, ConcatAssociative
<1>4. Len(l) \in Nat /\ Len(d) = Len(l) + 1 /\ (\A i \in 1..Len(l) : d[i] = l[i]) /\ d[Len(l) + 1] = e
      /\ DOMAIN d = 1..Len(d) /\ DOMAIN l = 1..Len(l) /\ Append(h, e) # <<>>
  <2>1. Len(d) = Len(l) + 1 /\ (\A i \in 1..Len(l) : d[i] = l[i]) /\ d[Len(l) + 1] = e
    BY <1>2, AppendProperties
  <2>2. Append(h, e) # <<>>
    BY AppendProperties
  <2> QED
    BY <2>1, <2>2, LenProperties
<1>5. HeadOf(h) = IF Len(l) = 0 THEN Genesis ELSE l[Len(l)]
  <2>1. CASE h = <<>>
    <3>1. c = <<>>
      BY <2>1 DEF Entire
    <3>2. l = <<>>
      BY <1>1, <2>1, <3>1, ConcatEmptySeq
    <3> QED
      BY <2>1, <3>2, EmptySeq DEF HeadOf
  <2>2. CASE h # <<>>
    <3>1. Len(h) \in Nat \ {0} /\ Len(c) \in Nat /\ HeadOf(h) = h[Len(h)]
      BY <2>2, ChainFacts
    <3>2. Len(l) = Len(c) + Len(h)
          /\ \A i \in 1..(Len(c) + Len(h)) : l[i] = IF i <= Len(c) THEN c[i] ELSE h[i - Len(c)]
      BY <1>1, ConcatProperties
    <3>3. Len(l) \in 1..(Len(c) + Len(h)) /\ ~(Len(l) <= Len(c)) /\ Len(l) - Len(c) = Len(h)
      BY <3>1, <3>2
    <3> QED
      BY <3>1, <3>2, <3>3
  <2> QED
    BY <2>1, <2>2
<1>6. LinkedFrom(Genesis, d)
  <2> SUFFICES ASSUME NEW n \in 1..(Len(l) + 1)
               PROVE  Front(d[n]) = IF n = 1 THEN Genesis ELSE d[n - 1]
    BY <1>4 DEF LinkedFrom
  <2>1. CASE n = Len(l) + 1
    <3>1. Front(d[n]) = HeadOf(h)
      BY <1>4, <2>1
    <3>2. CASE Len(l) = 0
      BY <1>5, <2>1, <3>1, <3>2
    <3>3. CASE Len(l) # 0
      <4>1. n # 1 /\ n - 1 = Len(l) /\ Len(l) \in 1..Len(l)
        BY <1>4, <2>1, <3>3
      <4> QED
        BY <1>4, <1>5, <3>1, <3>3, <4>1
    <3> QED
      BY <3>2, <3>3
  <2>2. CASE n # Len(l) + 1
    <3>1. n \in 1..Len(l) /\ d[n] = l[n] /\ (n # 1 => n - 1 \in 1..Len(l) /\ d[n - 1] = l[n - 1])
      BY <1>4, <2>2
    <3>2. Front(l[n]) = IF n = 1 THEN Genesis ELSE l[n - 1]
      BY <1>1, <1>4, <3>1 DEF Entire, LinkedFrom
    <3> QED
      BY <3>1, <3>2
  <2> QED
    BY <2>1, <2>2
<1>7. Rising(d)
  <2> SUFFICES ASSUME NEW i \in 1..Len(d), NEW j \in 1..Len(d), i < j, By(d[i]) = By(d[j])
               PROVE  Sequence(d[i]) < Sequence(d[j])
    BY DEF Rising
  <2>1. i \in 1..Len(l) /\ d[i] = l[i]
    BY <1>4
  <2>2. CASE j = Len(l) + 1
    <3>1. d[j] = e
      BY <1>4, <2>2
    <3> QED
      BY <1>1, <2>1, <3>1
  <2>3. CASE j # Len(l) + 1
    <3>1. j \in 1..Len(l) /\ d[j] = l[j]
      BY <1>4, <2>3
    <3> QED
      BY <1>1, <2>1, <3>1 DEF Entire, Rising
  <2> QED
    BY <2>2, <2>3
<1> QED
  BY <1>3, <1>4, <1>6, <1>7 DEF Entire

LEMMA EntireCapped ==
  ASSUME NEW c \in Seq(Events), NEW h \in Seq(Events), Entire(c, h)
  PROVE  Entire(c \o Archived(h), Capped(h))
<1>1. Archived(h) \in Seq(Events) /\ Capped(h) \in Seq(Events) /\ Archived(h) \o Capped(h) = h
      /\ (h # <<>> => Capped(h) # <<>>)
  BY CappedFacts
<1>2. (c \o Archived(h)) \o Capped(h) = c \o h
  <2>1. PICK a \in Seq(Events), k \in Seq(Events) : a = Archived(h) /\ k = Capped(h)
    BY <1>1
  <2>2. (c \o a) \o k = c \o (a \o k)
    BY ConcatAssociative
  <2> QED
    BY <1>1, <2>1, <2>2
<1>3. ASSUME Capped(h) = <<>> PROVE c \o Archived(h) = <<>>
  <2>1. h = <<>> /\ c = <<>>
    BY <1>1, <1>3 DEF Entire
  <2>2. Archived(h) = <<>>
    BY <1>1, <1>3, <2>1, ConcatEmptySeq
  <2> QED
    BY <2>1, <2>2, EmptySeq, ConcatEmptySeq
<1> QED
  BY <1>2, <1>3 DEF Entire

LEMMA EntireEmpty == Entire(<<>>, <<>>)
<1>1. <<>> \o <<>> = <<>> /\ Len(<<>>) = 0 /\ DOMAIN <<>> = 1..0
  BY EmptySeq, ConcatEmptySeq, LenProperties
<1> QED
  BY <1>1 DEF Entire, LinkedFrom, Rising

\* A chain that has kept its beginning is entire without an archive.
LEMMA EntireAlone ==
  ASSUME NEW h \in Seq(Events), Sound(h), h = <<>> \/ Base(h) = 0
  PROVE  Entire(<<>>, h)
<1>1. CASE h = <<>>
  BY <1>1, EntireEmpty
<1>2. CASE h # <<>>
  <2>1. <<>> \o h = h
    BY ConcatEmptySeq
  <2>2. 1 \in 1..Len(h) /\ DOMAIN h = 1..Len(h) /\ h[1] \in Events
    BY <1>2, ChainFacts
  <2>3. Front(h[1]) = Genesis
    <3>1. Len(Front(h[1])) = 0 /\ Front(h[1]) \in Seq(Entries)
      BY <1>2, <2>2, SoundLinks, EventEntry
    <3> QED
      BY <3>1, EmptySeq, EmptyLedger
  <2>4. LinkedFrom(Genesis, h)
    BY <1>2, <2>2, <2>3, SoundLinks DEF LinkedFrom
  <2>5. Rising(h)
    BY DEF Sound
  <2> QED
    BY <1>2, <2>1, <2>4, <2>5 DEF Entire
<1> QED
  BY <1>1, <1>2

LEMMA EntireBase ==
  ASSUME NEW h \in Seq(Events), Sound(h), Entire(<<>>, h)
  PROVE  Base(h) = 0
<1>1. CASE h = <<>>
  BY <1>1, SoundEmpty
<1>2. CASE h # <<>>
  <2>1. <<>> \o h = h /\ 1 \in DOMAIN h
    BY <1>2, ConcatEmptySeq, ChainFacts
  <2>2. Front(h[1]) = Genesis
    BY <2>1 DEF Entire, LinkedFrom
  <2> QED
    BY <1>2, <2>2, SoundLinks, EmptyLedger, EmptySeq
<1> QED
  BY <1>1, <1>2

-----------------------------------------------------------------------------
\* Among the entries of an event that memory may still hold, none of its author
\* has reached its sequence: whatever chain it continues, it may be replayed.
Recent(e) ==
  \A i \in 1..(Len(e) - 1) :
    i >= Len(e) - MaxMemory /\ e[i][1] = By(e) => e[i][2] < Sequence(e)

\* The k-th event of a chain is the entry of its head at Base + k.
LEMMA SoundEntries ==
  ASSUME NEW c \in Seq(Events), Sound(c), NEW e \in Events, Front(e) = HeadOf(c)
  PROVE  /\ Len(e) = Base(c) + Len(c) + 1 /\ Base(c) \in Nat /\ Len(c) \in Nat
         /\ \A k \in 1..Len(c) : Base(c) + k \in 1..(Len(e) - 1) /\ Last(c[k]) = e[Base(c) + k]
<1>1. Len(HeadOf(c)) = Len(e) - 1 /\ Len(e) \in Nat /\ \A i \in 1..(Len(e) - 1) : HeadOf(c)[i] = e[i]
  BY EventEntry
<1>2. Base(c) \in Nat /\ Beginnings(c, HeadOf(c), Base(c)) /\ Base(c) = Len(HeadOf(c)) - Len(c)
      /\ Len(c) \in Nat
  BY ChainFacts DEF Sound, Base
<1>3. Len(e) = Base(c) + Len(c) + 1
  BY <1>1, <1>2
<1>4. ASSUME NEW k \in 1..Len(c)
      PROVE  Base(c) + k \in 1..(Len(e) - 1) /\ Last(c[k]) = e[Base(c) + k]
  <2>1. Base(c) + k \in 1..(Len(e) - 1) /\ Base(c) + k \in 1..(Base(c) + k)
    BY <1>2, <1>3
  <2>2. Len(c[k]) = Base(c) + k /\ c[k][Base(c) + k] = HeadOf(c)[Base(c) + k]
    BY <1>2, <2>1 DEF Beginnings
  <2> QED
    BY <1>1, <2>1, <2>2 DEF Last
<1> QED
  BY <1>2, <1>3, <1>4

LEMMA RecentFrom ==
  ASSUME NEW c \in Seq(Events), Sound(c), NEW e \in Events, Continues(e, c)
  PROVE  Recent(e)
<1>1. Len(e) = Base(c) + Len(c) + 1 /\ Base(c) \in Nat /\ Len(c) \in Nat
      /\ \A k \in 1..Len(c) : Last(c[k]) = e[Base(c) + k]
  BY SoundEntries DEF Continues
<1>2. Len(c) < MaxMemory => Base(c) = 0
  BY DEF Sound
<1> SUFFICES ASSUME NEW i \in 1..(Len(e) - 1), i >= Len(e) - MaxMemory, e[i][1] = By(e)
             PROVE  e[i][2] < Sequence(e)
  BY DEF Recent
<1>3. i - Base(c) \in 1..Len(c) /\ Base(c) + (i - Base(c)) = i
  BY <1>1, <1>2, HashchainAssumption
<1>4. Last(c[i - Base(c)]) = e[i]
  BY <1>1, <1>3
<1>5. By(c[i - Base(c)]) = e[i][1] /\ Sequence(c[i - Base(c)]) = e[i][2]
  BY <1>4 DEF By, Sequence
<1> QED
  BY <1>3, <1>5 DEF Continues

LEMMA RecentContinues ==
  ASSUME NEW c \in Seq(Events), Sound(c), Len(c) <= MaxMemory,
         NEW e \in Events, Front(e) = HeadOf(c), Recent(e)
  PROVE  Continues(e, c)
<1>1. Len(e) = Base(c) + Len(c) + 1 /\ Base(c) \in Nat /\ Len(c) \in Nat
      /\ \A k \in 1..Len(c) : Base(c) + k \in 1..(Len(e) - 1) /\ Last(c[k]) = e[Base(c) + k]
  BY SoundEntries
<1> SUFFICES ASSUME NEW k \in 1..Len(c), By(c[k]) = By(e)
             PROVE  Sequence(c[k]) < Sequence(e)
  BY DEF Continues
<1>2. Base(c) + k \in 1..(Len(e) - 1) /\ Base(c) + k >= Len(e) - MaxMemory
  BY <1>1, HashchainAssumption
<1>3. e[Base(c) + k][1] = By(c[k]) /\ e[Base(c) + k][2] = Sequence(c[k])
  BY <1>1 DEF By, Sequence
<1> QED
  BY <1>2, <1>3 DEF Recent

-----------------------------------------------------------------------------
\* While writers take turns.  The ledger in memory, the chain file, and each
\* payload on its way to the file are sound; seqs covers the chain, and the
\* archive until it is forgotten; the event a thread is about to push continues
\* the chain, the one in the log could; a fork about to be applied begins where
\* the chain begins and ends later; and a file, or a payload, has the archive
\* that memory has, unless memory has archived more since.
OneWriter == \A t, u \in Writers : Busy(t) /\ Busy(u) => t = u
Good(c, h, lost) == Sound(h) /\ Anchored(c, h) /\ (~lost => Entire(c, h))
CoherentInv ==
  /\ Good(cold, hot, forgot) /\ Good(file.cold, file.hot, forgot)
  /\ \A f \in Threads : pc[f] = "write" => Good(dump[f].cold, dump[f].hot, forgot)
CoveredInv == Covers(seqs, hot) /\ (~forgot => Covers(seqs, cold))
PendingInv ==
  \A t \in Writers : pc[t] \in {"log", "push"} =>
    Front(work[t]) = HeadOf(hot) /\ Sequence(work[t]) > seqs[By(work[t])]
RecentInv == wal # Genesis => Recent(wal)
ForkInv ==
  \A t \in Writers : pc[t] = "fork" =>
    /\ hot # <<>> /\ dump[t].hot # <<>> /\ dump[t].hot[1] = hot[1]
    /\ Sound(dump[t].hot) /\ Base(dump[t].hot) = Base(hot)
    /\ Len(HeadOf(dump[t].hot)) > Len(HeadOf(hot))
Behind(c, h) ==
  /\ Base(hot) = 0 => c = cold
  /\ h = <<>> => Len(cold) = Len(c) + Base(hot)
BehindInv ==
  /\ Behind(file.cold, file.hot)
  /\ \A f \in Threads : pc[f] = "write" => Behind(dump[f].cold, dump[f].hot)
Turns ==
  /\ OneWriter /\ CoherentInv /\ CoveredInv /\ PendingInv
  /\ RecentInv /\ ForkInv /\ BehindInv
TurnsInv == ~overlapped => Turns

\* While in addition no flush runs into an event on its way.  A flush writes the
\* whole ledger; an append has its event in the log until the file has it; and
\* an append that has returned and is not on the file is the one in the log, if
\* it is still the last.
Logged(e) == e \in ToSet(file.cold \o file.hot)
FlushedInv ==
  \A f \in Threads :
    /\ pc[f] = "write" => dump[f].cold \o dump[f].hot = cold \o hot
    /\ pc[f] \in {"clear", "unlog"} => file.cold \o file.hot = cold \o hot
LoggedInv ==
  \A t \in Appenders :
    /\ pc[t] = "push" => wal = work[t] /\ ~UnderWay
    /\ pc[t] = "save" => HeadOf(hot) = work[t] /\ (wal = work[t] \/ Logged(work[t]))
AckedInv ==
  /\ acked \subseteq ToSet(cold \o hot)
  /\ \A e \in acked : ~Logged(e) =>
       /\ Len(e) <= Len(HeadOf(hot))
       /\ e = HeadOf(hot) => wal = e \/ \E t \in Appenders : pc[t] = "push"
Logs == FlushedInv /\ LoggedInv /\ AckedInv
LogInv == ~overlapped /\ ~raced => Logs

LEMMA GoodAppend ==
  ASSUME NEW c \in Seq(Events), NEW h \in Seq(Events), NEW lost, Good(c, h, lost),
         NEW e \in Events, Continues(e, h),
         ~lost => \A i \in 1..Len(c \o h) :
                    By((c \o h)[i]) = By(e) => Sequence((c \o h)[i]) < Sequence(e)
  PROVE  Good(c, Append(h, e), lost)
<1>1. Sound(h) /\ Anchored(c, h) /\ (~lost => Entire(c, h)) /\ Front(e) = HeadOf(h)
  BY DEF Good, Continues
<1>2. Sound(Append(h, e))
  BY <1>1, SoundAppend
<1>3. Anchored(c, Append(h, e))
  BY <1>1, AnchoredAppend
<1>4. ~lost => Entire(c, Append(h, e))
  BY <1>1, EntireAppend
<1> QED
  BY <1>2, <1>3, <1>4 DEF Good

LEMMA GoodCapped ==
  ASSUME NEW c \in Seq(Events), NEW h \in Seq(Events), NEW lost, Good(c, h, lost)
  PROVE  Good(c \o Archived(h), Capped(h), lost)
BY SoundCapped, AnchoredCapped, EntireCapped DEF Good

LEMMA GoodEmpty ==
  ASSUME NEW c, NEW lost, ~lost => c = <<>>
  PROVE  Good(c, <<>>, lost)
<1>1. ~(Base(<<>>) > 0)
  BY SoundEmpty
<1> QED
  BY <1>1, SoundEmpty, EntireEmpty DEF Good, Anchored

\* A chain that begins where h begins, after which nothing archived is
\* remembered.
LEMMA GoodForked ==
  ASSUME NEW c \in Seq(Events), NEW h \in Seq(Events), NEW lost, Good(c, h, lost), h # <<>>,
         NEW g \in Seq(Events), Sound(g), g # <<>>, g[1] = h[1], Base(g) = Base(h)
  PROVE  Good(c, g, lost \/ c # <<>>)
<1>1. Sound(h) /\ Anchored(c, h) /\ (~lost => Entire(c, h))
  BY DEF Good
<1>2. Anchored(c, g)
  BY <1>1 DEF Anchored
<1>3. ASSUME ~(lost \/ c # <<>>) PROVE Entire(c, g)
  <2>1. c = <<>> /\ Entire(<<>>, h)
    BY <1>1, <1>3
  <2> QED
    BY <1>1, <2>1, EntireBase, EntireAlone
<1> QED
  BY <1>2, <1>3 DEF Good

LEMMA GoodWeaker ==
  ASSUME NEW c, NEW h, NEW lost, NEW more, Good(c, h, lost), lost => more
  PROVE  Good(c, h, more)
BY DEF Good

\* The event about to be pushed continues the whole ledger.
LEMMA PendingContinues ==
  ASSUME ChainTypes, HeldInv, CoveredInv, PendingInv, NEW t \in Writers, pc[t] \in {"log", "push"}
  PROVE  /\ work[t] \in Events /\ Continues(work[t], hot)
         /\ ~forgot => \A i \in 1..Len(cold \o hot) :
               By((cold \o hot)[i]) = By(work[t]) => Sequence((cold \o hot)[i]) < Sequence(work[t])
<1>1. work[t] \in Events /\ Front(work[t]) = HeadOf(hot) /\ Sequence(work[t]) > seqs[By(work[t])]
  BY DEF HeldInv, PendingInv
<1>2. hot \in Seq(Events) /\ cold \in Seq(Events) /\ cold \o hot \in Seq(Events)
      /\ seqs \in [Authors -> 0..MaxSeq]
  BY ConcatProperties DEF ChainTypes
<1>3. Continues(work[t], hot)
  <2>1. Covers(seqs, hot)
    BY DEF CoveredInv
  <2> QED
    BY <1>1, <1>2, <2>1, CoversContinues DEF Continues
<1>4. ASSUME ~forgot
      PROVE \A i \in 1..Len(cold \o hot) :
               By((cold \o hot)[i]) = By(work[t]) => Sequence((cold \o hot)[i]) < Sequence(work[t])
  <2>1. Covers(seqs, cold \o hot)
    BY <1>2, <1>4, CoversConcat DEF CoveredInv
  <2>2. PICK l \in Seq(Events) : l = cold \o hot
    BY <1>2
  <2> QED
    BY <1>1, <1>2, <2>1, <2>2, CoversContinues
<1> QED
  BY <1>1, <1>3, <1>4

LEMMA ConcatOfNone ==
  ASSUME NEW c \in Seq(Events), NEW d \in Seq(Events), c \o d = <<>>
  PROVE  c = <<>> /\ d = <<>>
<1>1. Len(c) + Len(d) = 0 /\ Len(c) \in Nat /\ Len(d) \in Nat
  BY ConcatProperties, ChainFacts, EmptySeq
<1> QED
  BY <1>1, ChainFacts

\* What a crash recovers is sound, whatever was in the log.
LEMMA RecoveredGood ==
  ASSUME ChainTypes, Good(file.cold, file.hot, forgot), RecentInv
  PROVE  /\ Recovered \in Seq(Events) /\ Sound(Recovered) /\ Anchored(file.cold, Recovered)
         /\ Base(Recovered) = Base(file.hot)
<1>1. file.hot \in Seq(Events) /\ file.cold \in Seq(Events) /\ Sound(file.hot)
      /\ Anchored(file.cold, file.hot) /\ Len(file.hot) \in Nat
  BY ChainFacts DEF ChainTypes, Ledgers, Good
<1>2. CASE Replayable
  <2>1. PICK e \in Events : e = wal
    BY <1>2 DEF Replayable, ChainTypes
  <2>2. Front(e) = HeadOf(file.hot) /\ Recent(e) /\ Recovered = Append(file.hot, e)
    BY <1>2, <2>1 DEF Replayable, Recovered, RecentInv
  <2>3. Len(file.hot) <= MaxMemory
    BY <1>1, <1>2, HashchainAssumption DEF Replayable, Overflow
  <2>4. Continues(e, file.hot)
    BY <1>1, <2>2, <2>3, RecentContinues
  <2> QED
    BY <1>1, <2>2, <2>4, SoundAppend, AnchoredAppend
<1>3. CASE ~Replayable
  BY <1>1, <1>3 DEF Recovered
<1> QED
  BY <1>2, <1>3

LEMMA CoherentStep ==
  ASSUME ChainTypes, HeldInv, Turns, HCNext
  PROVE  CoherentInv'
<1>1. Good(cold, hot, forgot) /\ Good(file.cold, file.hot, forgot)
      /\ \A f \in Threads : pc[f] = "write" => Good(dump[f].cold, dump[f].hot, forgot)
  BY DEF Turns, CoherentInv
<1>2. hot \in Seq(Events) /\ cold \in Seq(Events) /\ pc \in [Threads -> Labels]
      /\ dump \in [Threads -> Ledgers]
  BY DEF ChainTypes
<1> USE ThreadKinds
<1>3. ASSUME NEW t \in Threads, UNCHANGED <<cold, hot, file, forgot>>, pc'[t] # "write",
             \A f \in Threads : f # t => pc'[f] = pc[f] /\ dump'[f] = dump[f]
      PROVE  CoherentInv'
  BY <1>1, <1>3 DEF CoherentInv
<1>4. ASSUME NEW t \in Threads, file' = file, forgot => forgot', pc'[t] # "write", dump' = dump,
             \A f \in Threads : pc'[f] = "write" => pc[f] = "write",
             Good(cold', hot', forgot')
      PROVE  CoherentInv'
  BY <1>1, <1>4, GoodWeaker DEF CoherentInv
<1>5. ASSUME NEW t \in Writers, NEW next \in {"log", "push"}, NEW path, Start(t, next, path)
      PROVE  CoherentInv'
  BY <1>2, <1>3, <1>5 DEF Start, Begin, Goto, ledger, disk
<1>6. ASSUME NEW t \in Appenders, WriteWal(t) PROVE CoherentInv'
  BY <1>2, <1>3, <1>6 DEF WriteWal, Goto, ledger
<1>7. ASSUME NEW t \in Writers, Push(t) PROVE CoherentInv'
  <2>1. work[t] \in Events /\ hot' = Append(hot, work[t]) /\ cold' = cold /\ forgot' = forgot
        /\ pc[t] = "push"
    BY <1>7 DEF Push, HeldInv
  <2>2. Good(cold, Append(hot, work[t]), forgot)
    BY <1>1, <1>2, <2>1, PendingContinues, GoodAppend DEF Turns
  <2> QED
    BY <1>2, <1>4, <1>7, <2>1, <2>2 DEF Push, Goto, disk
<1>8. ASSUME NEW t \in Writers, Save(t) PROVE CoherentInv'
  <2>1. Good(cold', hot', forgot')
    BY <1>1, <1>2, <1>8, GoodCapped DEF Save
  <2>2. pc'[t] # "write" /\ \A f \in Threads : pc'[f] = "write" => pc[f] = "write"
    BY <1>2, <1>8 DEF Save, Returned
  <2> QED
    BY <1>4, <1>8, <2>1, <2>2 DEF Save, disk
<1>9. ASSUME NEW t \in Ingesters, NEW n \in DOMAIN hot, NEW entries, BeginFork(t, n, entries)
      PROVE  CoherentInv'
  BY <1>2, <1>3, <1>9 DEF BeginFork, Begin, Goto, ledger, disk
<1>10. ASSUME NEW t \in Ingesters, ApplyFork(t) PROVE CoherentInv'
  <2>1. dump[t].hot \in Seq(Events) /\ hot' = dump[t].hot /\ cold' = cold
        /\ forgot' = (forgot \/ cold # <<>>) /\ file' = file
    BY <1>2, <1>10 DEF ApplyFork, Ledgers, disk
  <2>2. Good(cold', hot', forgot')
    BY <1>1, <1>2, <1>10, <2>1, GoodForked DEF ApplyFork, Turns, ForkInv
  <2>3. \A f \in Threads : pc'[f] = "write" => pc[f] = "write" /\ dump'[f] = dump[f]
    BY <1>2, <1>10 DEF ApplyFork, Goto
  <2>4. forgot => forgot'
    BY <2>1, Zenon
  <2>5. Good(file'.cold, file'.hot, forgot')
    BY <1>1, <2>1, <2>4, GoodWeaker
  <2>6. ASSUME NEW f \in Threads, pc'[f] = "write"
        PROVE  Good(dump'[f].cold, dump'[f].hot, forgot')
    BY <1>1, <2>3, <2>4, <2>6, GoodWeaker
  <2> QED
    BY <2>2, <2>5, <2>6 DEF CoherentInv
<1>11. ASSUME NEW t \in Ingesters, ResetChain(t) PROVE CoherentInv'
  <2>1. hot' = <<>> /\ cold' = cold /\ forgot' = (forgot \/ cold # <<>>)
    BY <1>11 DEF ResetChain
  <2>2. Good(cold', hot', forgot')
    BY <2>1, GoodEmpty
  <2> QED
    BY <1>2, <1>4, <1>11, <2>1, <2>2 DEF ResetChain, Goto, disk
<1>12. ASSUME NEW t \in Threads, StartFlush(t) PROVE CoherentInv'
  <2>1. UNCHANGED <<cold, hot, file, forgot>>
        /\ \A f \in Threads : f # t => pc'[f] = pc[f] /\ dump'[f] = dump[f]
    BY <1>2, <1>12 DEF StartFlush, Goto, ledger, disk
  <2>2. pc'[t] = "write" => dump'[t].cold = cold /\ dump'[t].hot = hot
    BY <1>2, <1>12 DEF StartFlush, Goto
  <2> QED
    BY <1>1, <2>1, <2>2 DEF CoherentInv
<1>13. ASSUME NEW t \in Threads, WriteFile(t) PROVE CoherentInv'
  <2>1. UNCHANGED <<cold, hot, forgot>> /\ file' = dump[t] /\ pc[t] = "write" /\ pc'[t] = "clear"
        /\ \A f \in Threads : f # t => pc'[f] = pc[f] /\ dump'[f] = dump[f]
    BY <1>2, <1>13 DEF WriteFile, Goto, ledger, history
  <2> QED
    BY <1>1, <2>1 DEF CoherentInv
<1>14. ASSUME NEW t \in Threads, ClearDirty(t) \/ ClearWal(t) PROVE CoherentInv'
  BY <1>2, <1>3, <1>14 DEF ClearDirty, ClearWal, Goto, ledger, disk, history
<1>15. ASSUME Wake PROVE CoherentInv'
  BY <1>2, <1>3, <1>15 DEF Wake, Goto, ledger, disk, history
<1>16. ASSUME Crash PROVE CoherentInv'
  <2>1. PICK chain \in Seq(Events) : Load(chain) /\ (chain = Recovered \/ chain = <<>>)
    BY <1>16, CrashLoads
  <2>2. forgot' = (forgot \/ cold' # <<>>)
    BY <1>16 DEF Crash
  <2>3. file.cold \in Seq(Events) /\ file.hot \in Seq(Events) /\ RecentInv
    BY DEF ChainTypes, Ledgers, Turns
  <2>4. Sound(chain) /\ Anchored(file.cold, chain)
        /\ (chain # <<>> => Base(chain) = Base(file.hot))
    <3>1. CASE chain = Recovered
      BY <1>1, <2>3, <3>1, RecoveredGood
    <3>2. CASE chain = <<>>
      BY <3>2, SoundEmpty DEF Anchored
    <3> QED
      BY <2>1, <3>1, <3>2
  <2>5. hot' = Capped(chain) /\ cold' = file.cold \o Archived(chain)
        /\ (IF chain = <<>> THEN file' = file ELSE file'.cold = cold' /\ file'.hot = hot')
        /\ \A f \in Threads : pc'[f] # "write"
    BY <2>1, LoadFacts
  <2>6. Archived(chain) \in Seq(Events)
    BY CappedFacts
  <2>7. Sound(hot') /\ Anchored(cold', hot')
    BY <2>3, <2>4, <2>5, SoundCapped, AnchoredCapped
  <2>8. ASSUME ~forgot' PROVE Entire(cold', hot')
    <3>1. file.cold = <<>> /\ Archived(chain) = <<>> /\ cold' = <<>> /\ ~forgot
      <4>1. cold' = <<>> /\ ~forgot
        BY <2>2, <2>8, Zenon
      <4> QED
        BY <2>3, <2>5, <2>6, <4>1, ConcatOfNone
    <3>2. hot' = chain
      BY <2>5, <3>1, CappedFacts, ConcatEmptySeq
    <3>3. chain = <<>> \/ Base(chain) = 0
      BY <1>1, <2>3, <2>4, <3>1, EntireBase DEF Good
    <3> QED
      BY <2>4, <3>1, <3>2, <3>3, EntireAlone
  <2>9. Good(cold', hot', forgot')
    BY <2>7, <2>8 DEF Good
  <2>10. Good(file'.cold, file'.hot, forgot')
    <3>1. CASE chain = <<>>
      <4>1. forgot => forgot'
        BY <2>2, Zenon
      <4>2. file' = file
        BY <2>5, <3>1
      <4> QED
        BY <1>1, <4>1, <4>2, GoodWeaker
    <3>2. CASE chain # <<>>
      BY <2>5, <2>9, <3>2
    <3> QED
      BY <3>1, <3>2
  <2> QED
    BY <2>5, <2>9, <2>10 DEF CoherentInv
<1> QED
  BY <1>5, <1>6, <1>7, <1>8, <1>9, <1>10, <1>11, <1>12, <1>13, <1>14, <1>15, <1>16
     DEF HCNext, BeginAppend, BeginIngest, Flush

LEMMA OneWriterStep ==
  ASSUME ChainTypes, OneWriter, HCNext, ~overlapped'
  PROVE  OneWriter'
<1> USE ThreadKinds DEF OneWriter, Busy, ChainTypes
<1>1. ASSUME NEW t \in Writers, NEW next, Begin(t, next) PROVE OneWriter'
  <2>1. \A u \in Writers : ~Busy(u)
    BY <1>1 DEF Begin
  <2> QED
    BY <1>1, <2>1 DEF Begin, Goto
<1>2. ASSUME NEW t \in Appenders, WriteWal(t) PROVE OneWriter'
  BY <1>2 DEF WriteWal, Goto
<1>3. ASSUME NEW t \in Writers, Push(t) PROVE OneWriter'
  BY <1>3 DEF Push, Goto
<1>4. ASSUME NEW t \in Writers, Save(t) PROVE OneWriter'
  BY <1>4 DEF Save, Returned
<1>5. ASSUME NEW t \in Ingesters, ApplyFork(t) PROVE OneWriter'
  BY <1>5 DEF ApplyFork, Goto
<1>6. ASSUME NEW t \in Ingesters, ResetChain(t) PROVE OneWriter'
  BY <1>6 DEF ResetChain, Goto
<1>7. ASSUME NEW t \in Threads, Flush(t) PROVE OneWriter'
  BY <1>7 DEF Flush, StartFlush, WriteFile, ClearDirty, ClearWal, Goto
<1>8. ASSUME Wake PROVE OneWriter'
  BY <1>8 DEF Wake, Goto
<1>9. ASSUME Crash PROVE OneWriter'
  <2>1. \A t \in Threads : pc'[t] \in {"idle", "sleep"}
    BY <1>9, CrashLoads, LoadFacts
  <2> QED
    BY <2>1
<1> QED
  BY <1>1, <1>2, <1>3, <1>4, <1>5, <1>6, <1>7, <1>8, <1>9
     DEF HCNext, BeginAppend, BeginIngest, BeginFork, Start

LEMMA CoveredStep ==
  ASSUME ChainTypes, HeldInv, Turns, HCNext
  PROVE  CoveredInv'
<1>1. Covers(seqs, hot) /\ (~forgot => Covers(seqs, cold))
  BY DEF Turns, CoveredInv
<1>2. hot \in Seq(Events) /\ cold \in Seq(Events) /\ seqs \in [Authors -> 0..MaxSeq]
  BY DEF ChainTypes
<1>3. \A s : Covers(s, <<>>)
  BY EmptySeq DEF Covers
<1> USE ThreadKinds
<1>4. ASSUME UNCHANGED <<cold, hot, seqs, forgot>> PROVE CoveredInv'
  BY <1>1, <1>4 DEF CoveredInv
<1>5. ASSUME NEW t \in Writers, Push(t) PROVE CoveredInv'
  <2>1. PICK e \in Events : e = work[t]
    BY <1>5 DEF Push, HeldInv
  <2>2. Sequence(e) > seqs[By(e)] /\ hot' = Append(hot, e) /\ cold' = cold /\ forgot' = forgot
        /\ seqs' = [seqs EXCEPT ![By(e)] = Sequence(e)]
    BY <1>5, <2>1 DEF Push, Turns, PendingInv
  <2>3. \A a \in Authors : seqs[a] <= seqs'[a] /\ seqs[a] \in 0..MaxSeq /\ seqs'[a] \in 0..MaxSeq
    BY <1>2, <2>2, EventEntry, HashchainAssumption
  <2>4. ASSUME NEW c \in Seq(Events), Covers(seqs, c) PROVE Covers(seqs', c)
    <3> SUFFICES ASSUME NEW i \in 1..Len(c) PROVE Sequence(c[i]) <= seqs'[By(c[i])]
      BY DEF Covers
    <3>1. By(c[i]) \in Authors /\ Sequence(c[i]) \in 1..MaxSeq /\ Sequence(c[i]) <= seqs[By(c[i])]
      <4>1. c[i] \in Events
        BY ChainFacts
      <4> QED
        BY <2>4, <4>1, EventEntry DEF Covers
    <3> QED
      BY <2>3, <3>1, HashchainAssumption
  <2>5. Covers(seqs', hot')
    <3>1. Len(hot) \in Nat /\ Len(hot') = Len(hot) + 1 /\ (\A i \in 1..Len(hot) : hot'[i] = hot[i])
          /\ hot'[Len(hot) + 1] = e
      BY <1>2, <2>2, AppendProperties, ChainFacts
    <3>2. Sequence(e) <= seqs'[By(e)]
      BY <1>2, <2>2, EventEntry
    <3>3. Covers(seqs', hot)
      BY <1>1, <1>2, <2>4
    <3> QED
      BY <3>1, <3>2, <3>3 DEF Covers
  <2> QED
    BY <1>1, <1>2, <2>2, <2>4, <2>5 DEF CoveredInv
<1>6. ASSUME NEW t \in Writers, Save(t) PROVE CoveredInv'
  <2>1. hot' = Capped(hot) /\ cold' = cold \o Archived(hot) /\ UNCHANGED <<seqs, forgot>>
    BY <1>6 DEF Save
  <2>2. Covers(seqs, Capped(hot)) /\ Covers(seqs, Archived(hot)) /\ Archived(hot) \in Seq(Events)
    BY <1>1, <1>2, CoversCapped, CappedFacts
  <2>3. ~forgot => Covers(seqs, cold \o Archived(hot))
    BY <1>1, <1>2, <2>2, CoversConcat
  <2> QED
    BY <2>1, <2>2, <2>3 DEF CoveredInv
<1>7. ASSUME NEW t \in Ingesters, ApplyFork(t) PROVE CoveredInv'
  <2>1. hot' \in Seq(Events) /\ seqs' = Rebuilt(hot') /\ cold' = cold /\ (~forgot' => cold = <<>>)
    BY <1>7 DEF ApplyFork, ChainTypes, Ledgers
  <2>2. Covers(seqs', hot')
    BY <2>1, RebuiltCovers DEF Covers
  <2> QED
    BY <1>3, <2>1, <2>2 DEF CoveredInv
<1>8. ASSUME NEW t \in Ingesters, ResetChain(t) PROVE CoveredInv'
  BY <1>3, <1>8 DEF ResetChain, CoveredInv
<1>9. ASSUME Crash PROVE CoveredInv'
  <2>1. PICK chain \in Seq(Events) : Load(chain)
    BY <1>9, CrashLoads
  <2>2. hot' = Capped(chain) /\ seqs' = Rebuilt(chain)
    BY <2>1, LoadFacts
  <2>3. Covers(seqs', chain)
    BY <2>2, RebuiltCovers DEF Covers
  <2>4. Covers(seqs', hot')
    BY <2>2, <2>3, CoversCapped
  <2>5. ~forgot' => cold' = <<>>
    BY <1>9 DEF Crash
  <2> QED
    BY <1>3, <2>4, <2>5 DEF CoveredInv
<1> QED
  BY <1>4, <1>5, <1>6, <1>7, <1>8, <1>9
     DEF HCNext, BeginAppend, BeginIngest, BeginFork, Start, Begin, WriteWal, Wake, Flush,
         StartFlush, WriteFile, ClearDirty, ClearWal, ledger, history

LEMMA PendingStep ==
  ASSUME ChainTypes, HeldInv, Turns, HCNext, ~overlapped'
  PROVE  PendingInv'
<1>1. OneWriter /\ PendingInv /\ pc \in [Threads -> Labels]
      /\ work \in [Writers -> Events \cup {Genesis}]
  BY DEF Turns, ChainTypes
<1> USE ThreadKinds
<1>2. ASSUME NEW t \in Writers, NEW entry \in Entries, NEW next \in {"log", "push"},
             Start(t, next, Append(HeadOf(hot), entry)), entry[2] > seqs[entry[1]]
      PROVE  PendingInv'
  <2>1. PICK e \in Events : /\ work' = [work EXCEPT ![t] = e]
                            /\ Front(e) = HeadOf(hot) /\ Last(e) = entry
    BY <1>2, StartsWith
  <2>2. Sequence(e) > seqs[By(e)] /\ UNCHANGED <<hot, seqs>>
    BY <1>2, <2>1 DEF Sequence, By, Start, Begin, ledger
  <2> QED
    BY <1>1, <1>2, <2>1, <2>2 DEF PendingInv, Start, Begin, Goto
<1>3. ASSUME NEW t \in Appenders, WriteWal(t) PROVE PendingInv'
  BY <1>1, <1>3 DEF WriteWal, Goto, PendingInv, ledger
<1>4. ASSUME NEW t \in Writers, Push(t) \/ Save(t) \/ ApplyFork(t) PROVE PendingInv'
  <2>1. Busy(t) /\ pc'[t] \notin {"log", "push"}
    BY <1>1, <1>4 DEF Push, Save, ApplyFork, Busy, Goto, Returned
  <2>2. ASSUME NEW u \in Writers, u # t PROVE pc'[u] \notin {"log", "push"}
    <3>1. pc[u] \notin {"log", "push"}
      BY <1>1, <2>1, <2>2 DEF OneWriter, Busy
    <3>2. pc'[u] = pc[u]
      BY <1>1, <1>4, <2>2 DEF Push, Save, ApplyFork, Goto, Returned
    <3> QED
      BY <3>1, <3>2
  <2> QED
    BY <2>1, <2>2 DEF PendingInv
<1>5. ASSUME NEW t \in Ingesters, ResetChain(t) PROVE PendingInv'
  <2>1. \A u \in Writers : pc[u] \notin {"log", "push"}
    BY <1>5 DEF ResetChain, Busy
  <2> QED
    BY <1>1, <1>5, <2>1 DEF ResetChain, Goto, PendingInv
<1>6. ASSUME NEW t \in Ingesters, NEW n \in DOMAIN hot, NEW entries, BeginFork(t, n, entries)
      PROVE  PendingInv'
  BY <1>1, <1>6 DEF BeginFork, Begin, Goto, PendingInv, ledger
<1>7. ASSUME NEW t \in Threads, Flush(t) PROVE PendingInv'
  BY <1>1, <1>7 DEF Flush, StartFlush, WriteFile, ClearDirty, ClearWal, Goto, PendingInv, ledger
<1>8. ASSUME Wake PROVE PendingInv'
  BY <1>1, <1>8 DEF Wake, Goto, PendingInv, ledger
<1>9. ASSUME Crash PROVE PendingInv'
  <2>1. \A t \in Threads : pc'[t] \in {"idle", "sleep"}
    BY <1>9, CrashLoads, LoadFacts
  <2> QED
    BY <2>1 DEF PendingInv
<1> QED
  BY <1>2, <1>3, <1>4, <1>5, <1>6, <1>7, <1>8, <1>9 DEF HCNext, BeginAppend, BeginIngest

LEMMA RecentStep ==
  ASSUME ChainTypes, HeldInv, Turns, HCNext
  PROVE  RecentInv'
<1> USE ThreadKinds DEF RecentInv
<1>1. RecentInv
  BY DEF Turns
<1>2. ASSUME wal' = wal \/ wal' = Genesis PROVE RecentInv'
  BY <1>1, <1>2
<1>3. ASSUME NEW t \in Appenders, WriteWal(t) PROVE RecentInv'
  <2>1. work[t] \in Events /\ Continues(work[t], hot) /\ wal' = work[t]
    BY <1>3, PendingContinues DEF WriteWal, Turns
  <2>2. hot \in Seq(Events) /\ Sound(hot)
    BY DEF ChainTypes, Turns, CoherentInv, Good
  <2> QED
    BY <2>1, <2>2, RecentFrom
<1>4. ASSUME Crash PROVE RecentInv'
  BY <1>2, <1>4, CrashLoads, LoadFacts
<1> QED
  BY <1>2, <1>3, <1>4
     DEF HCNext, BeginAppend, BeginIngest, BeginFork, Start, Begin, Push, Save, ApplyFork,
         ResetChain, Wake, Flush, StartFlush, WriteFile, ClearDirty, ClearWal, disk, ledger

LEMMA ForkStep ==
  ASSUME ChainTypes, HeldInv, Turns, HCNext, ~overlapped'
  PROVE  ForkInv'
<1>1. OneWriter /\ ForkInv /\ Sound(hot)
  BY DEF Turns, CoherentInv, Good
<1>2. pc \in [Threads -> Labels] /\ dump \in [Threads -> Ledgers] /\ hot \in Seq(Events)
  BY DEF ChainTypes
<1> USE ThreadKinds
<1>3. ASSUME hot' = hot, \A u \in Writers : pc'[u] = "fork" => pc[u] = "fork" /\ dump'[u] = dump[u]
      PROVE  ForkInv'
  BY <1>1, <1>3 DEF ForkInv
<1>4. ASSUME NEW t \in Writers, NEW next \in {"log", "push"}, NEW path, Start(t, next, path)
      PROVE  ForkInv'
  BY <1>2, <1>3, <1>4 DEF Start, Begin, Goto, ledger
<1>5. ASSUME NEW t \in Appenders, WriteWal(t) PROVE ForkInv'
  BY <1>2, <1>3, <1>5 DEF WriteWal, Goto, ledger
<1>6. ASSUME NEW t \in Writers, Push(t) \/ Save(t) \/ ApplyFork(t) PROVE ForkInv'
  <2>1. Busy(t) /\ pc'[t] # "fork"
    BY <1>2, <1>6 DEF Push, Save, ApplyFork, Busy, Goto, Returned
  <2>2. ASSUME NEW u \in Writers, u # t PROVE pc'[u] # "fork"
    <3>1. pc[u] # "fork"
      BY <1>1, <2>1, <2>2 DEF OneWriter, Busy
    <3>2. pc'[u] = pc[u]
      BY <1>2, <1>6, <2>2 DEF Push, Save, ApplyFork, Goto, Returned
    <3> QED
      BY <3>1, <3>2
  <2> QED
    BY <2>1, <2>2 DEF ForkInv
<1>7. ASSUME NEW t \in Ingesters, ResetChain(t) PROVE ForkInv'
  <2>1. \A u \in Writers : pc[u] # "fork"
    BY <1>7 DEF ResetChain, Busy
  <2> QED
    BY <1>2, <1>7, <2>1 DEF ResetChain, Goto, ForkInv
<1>8. ASSUME NEW t \in Ingesters, NEW n \in DOMAIN hot, NEW k \in 1..(MaxEvents - Len(hot[n])),
             NEW entries \in [1..k -> Entries], BeginFork(t, n, entries)
      PROVE  ForkInv'
  <2>1. PICK f \in Seq(Events) : /\ dump' = [dump EXCEPT ![t] = [cold |-> cold, hot |-> f]]
                                 /\ f = Forked(hot, n, entries) /\ Grows(f, n, entries)
                                 /\ n \in 1..Len(hot) /\ k \in Nat \ {0} /\ k > Len(hot) - n
                                 /\ Len(hot[n]) + k <= MaxEvents
    BY <1>8, ForksWith
  <2>2. Sound(f) /\ Base(f) = Base(hot) /\ Len(HeadOf(f)) > Len(HeadOf(hot))
        /\ f # <<>> /\ f[1] = hot[1]
    BY <1>1, <1>2, <2>1, ForkedSound
  <2>3. hot # <<>>
    BY <1>2, <2>1, ChainFacts
  <2>4. hot' = hot /\ dump'[t].hot = f
        /\ \A u \in Writers : u # t => pc'[u] = pc[u] /\ dump'[u] = dump[u]
    <3>1. pc' = [pc EXCEPT ![t] = "fork"] /\ hot' = hot
      BY <1>8 DEF BeginFork, Begin, Goto, ledger
    <3> QED
      BY <1>2, <2>1, <3>1
  <2> QED
    BY <1>1, <2>2, <2>3, <2>4 DEF ForkInv
<1>9. ASSUME NEW t \in Threads, Flush(t) PROVE ForkInv'
  <2>1. hot' = hot /\ pc'[t] # "fork"
        /\ \A u \in Threads : u # t => pc'[u] = pc[u] /\ dump'[u] = dump[u]
    BY <1>2, <1>9 DEF Flush, StartFlush, WriteFile, ClearDirty, ClearWal, Goto, ledger
  <2> QED
    BY <1>3, <2>1
<1>10. ASSUME Wake PROVE ForkInv'
  BY <1>2, <1>3, <1>10 DEF Wake, Goto, ledger
<1>11. ASSUME Crash PROVE ForkInv'
  <2>1. \A t \in Threads : pc'[t] \in {"idle", "sleep"}
    BY <1>11, CrashLoads, LoadFacts
  <2> QED
    BY <2>1 DEF ForkInv
<1> QED
  BY <1>4, <1>5, <1>6, <1>7, <1>8, <1>9, <1>10, <1>11 DEF HCNext, BeginAppend, BeginIngest

LEMMA BehindStep ==
  ASSUME ChainTypes, HeldInv, Turns, HCNext
  PROVE  BehindInv'
<1>1. Behind(file.cold, file.hot) /\ \A f \in Threads : pc[f] = "write" => Behind(dump[f].cold, dump[f].hot)
  BY DEF Turns, BehindInv
<1>2. pc \in [Threads -> Labels] /\ dump \in [Threads -> Ledgers] /\ file \in Ledgers
      /\ hot \in Seq(Events) /\ cold \in Seq(Events) /\ Sound(hot)
  BY DEF ChainTypes, Turns, CoherentInv, Good
<1> USE ThreadKinds
\* What is behind stays behind as long as Base and the archive grow together.
<1>3. ASSUME file' = file, \A f \in Threads : pc'[f] = "write" => pc[f] = "write" /\ dump'[f] = dump[f],
             \A c \in Seq(Events) : \A h : Behind(c, h) => Behind(c, h)'
      PROVE  BehindInv'
  BY <1>1, <1>2, <1>3 DEF BehindInv, Ledgers
<1>4. ASSUME cold' = cold, Base(hot') = Base(hot)
      PROVE  \A c \in Seq(Events) : \A h : Behind(c, h) => Behind(c, h)'
  BY <1>4 DEF Behind
<1>5. ASSUME NEW t \in Writers, NEW next \in {"log", "push"}, NEW path, Start(t, next, path)
      PROVE  BehindInv'
  BY <1>2, <1>3, <1>4, <1>5 DEF Start, Begin, Goto, ledger, disk
<1>6. ASSUME NEW t \in Appenders, WriteWal(t) PROVE BehindInv'
  BY <1>2, <1>3, <1>4, <1>6 DEF WriteWal, Goto, ledger
<1>7. ASSUME NEW t \in Writers, Push(t) PROVE BehindInv'
  <2>1. work[t] \in Events /\ Continues(work[t], hot) /\ hot' = Append(hot, work[t])
    BY <1>7, PendingContinues DEF Push, Turns
  <2>2. Base(hot') = Base(hot)
    BY <1>2, <2>1, SoundAppend
  <2> QED
    BY <1>2, <1>3, <1>4, <1>7, <2>2 DEF Push, Goto, disk
<1>8. ASSUME NEW t \in Writers, Save(t) PROVE BehindInv'
  <2>1. hot' = Capped(hot) /\ cold' = cold \o Archived(hot)
    BY <1>8 DEF Save
  <2>2. Overflow(hot) \in Nat /\ Archived(hot) \in Seq(Events) /\ Len(Archived(hot)) = Overflow(hot)
        /\ (Overflow(hot) = 0 => Archived(hot) = <<>>)
    BY <1>2, CappedFacts, ChainFacts
  <2>3. Base(hot') = Base(hot) + Overflow(hot) /\ Base(hot) \in Nat
    BY <1>2, <2>1, SoundCapped DEF Sound
  <2>4. Len(cold') = Len(cold) + Overflow(hot) /\ Len(cold) \in Nat
        /\ (Overflow(hot) = 0 => cold' = cold)
    <3>1. PICK a \in Seq(Events) : a = Archived(hot)
      BY <2>2
    <3>2. Len(cold \o a) = Len(cold) + Len(a) /\ Len(cold) \in Nat /\ cold \o <<>> = cold
      BY <1>2, ConcatProperties, ConcatEmptySeq, ChainFacts
    <3> QED
      BY <2>1, <2>2, <3>1, <3>2
  <2>5. ASSUME NEW c \in Seq(Events), NEW h, Behind(c, h) PROVE Behind(c, h)'
    <3>1. Len(c) \in Nat
      BY ChainFacts
    <3>2. Base(hot') = 0 => c = cold'
      BY <2>2, <2>3, <2>4, <2>5 DEF Behind
    <3>3. h = <<>> => Len(cold') = Len(c) + Base(hot')
      BY <2>2, <2>3, <2>4, <2>5, <3>1 DEF Behind
    <3> QED
      BY <3>2, <3>3 DEF Behind
  <2>6. \A f \in Threads : pc'[f] = "write" => pc[f] = "write" /\ dump'[f] = dump[f]
    BY <1>2, <1>8 DEF Save, Returned
  <2> QED
    BY <1>3, <1>8, <2>5, <2>6 DEF Save, disk
<1>9. ASSUME NEW t \in Ingesters, NEW n \in DOMAIN hot, NEW entries, BeginFork(t, n, entries)
      PROVE  BehindInv'
  BY <1>2, <1>3, <1>4, <1>9 DEF BeginFork, Begin, Goto, ledger, disk
<1>10. ASSUME NEW t \in Ingesters, ApplyFork(t) PROVE BehindInv'
  <2>1. Base(hot') = Base(hot)
    BY <1>10 DEF ApplyFork, Turns, ForkInv
  <2>2. \A f \in Threads : pc'[f] = "write" => pc[f] = "write" /\ dump'[f] = dump[f]
    BY <1>2, <1>10 DEF ApplyFork, Goto
  <2> QED
    BY <1>3, <1>4, <1>10, <2>1, <2>2 DEF ApplyFork, disk
<1>11. ASSUME NEW t \in Ingesters, ResetChain(t) PROVE BehindInv'
  <2>1. Base(hot) = 0
    <3>1. Len(hot) < MaxMemory
      BY <1>2, <1>11, ChainFacts, HashchainAssumption DEF ResetChain
    <3> QED
      BY <1>2, <3>1 DEF Sound
  <2>2. Base(hot') = Base(hot) /\ cold' = cold
    BY <1>11, <2>1, SoundEmpty DEF ResetChain
  <2> QED
    BY <1>2, <1>3, <1>4, <1>11, <2>2 DEF ResetChain, Goto, disk
<1>12. ASSUME NEW t \in Threads, StartFlush(t) PROVE BehindInv'
  <2>1. UNCHANGED <<hot, cold, file>> /\ (pc'[t] = "write" => dump'[t].cold = cold /\ dump'[t].hot = hot)
        /\ \A f \in Threads : f # t => pc'[f] = pc[f] /\ dump'[f] = dump[f]
    BY <1>2, <1>12 DEF StartFlush, Goto, ledger, disk
  <2>2. Behind(cold, hot)
    <3>1. Len(cold) \in Nat
      BY <1>2, ChainFacts
    <3> QED
      BY <3>1, SoundEmpty DEF Behind
  <2> QED
    BY <1>1, <2>1, <2>2 DEF BehindInv, Behind
<1>13. ASSUME NEW t \in Threads, WriteFile(t) PROVE BehindInv'
  <2>1. UNCHANGED <<hot, cold>> /\ file' = dump[t] /\ pc[t] = "write" /\ pc'[t] = "clear"
        /\ \A f \in Threads : f # t => pc'[f] = pc[f] /\ dump'[f] = dump[f]
    BY <1>2, <1>13 DEF WriteFile, Goto, ledger
  <2> QED
    BY <1>1, <2>1 DEF BehindInv, Behind
<1>14. ASSUME NEW t \in Threads, ClearDirty(t) \/ ClearWal(t) PROVE BehindInv'
  BY <1>2, <1>3, <1>4, <1>14 DEF ClearDirty, ClearWal, Goto, ledger, disk
<1>15. ASSUME Wake PROVE BehindInv'
  BY <1>2, <1>3, <1>4, <1>15 DEF Wake, Goto, ledger, disk
<1>16. ASSUME Crash PROVE BehindInv'
  <2>1. PICK chain \in Seq(Events) : Load(chain)
    BY <1>16, CrashLoads
  <2>2. hot' = Capped(chain) /\ cold' = file.cold \o Archived(chain) /\ cold' \in Seq(Events)
        /\ (IF chain = <<>> THEN file' = file ELSE file'.cold = cold' /\ file'.hot = hot')
        /\ \A f \in Threads : pc'[f] # "write"
    BY <2>1, LoadFacts
  <2>3. Behind(file.cold, file.hot)' \/ chain # <<>>
    <3> SUFFICES ASSUME chain = <<>> PROVE Behind(file.cold, file.hot)'
      OBVIOUS
    <3>1. Capped(chain) = <<>> /\ Archived(chain) = <<>>
      <4>1. Overflow(chain) = 0
        BY EmptySeq, HashchainAssumption DEF Overflow
      <4> QED
        BY <4>1, CappedFacts
    <3>2. hot' = <<>> /\ cold' = file.cold /\ file' = file
      BY <1>2, <2>2, <3>1, ConcatEmptySeq DEF Ledgers
    <3> QED
      BY <2>2, <3>2, SoundEmpty, ChainFacts DEF Behind
  <2>4. Behind(file.cold, file.hot)'
    <3>1. CASE chain = <<>>
      BY <2>3, <3>1
    <3>2. CASE chain # <<>>
      <4>1. hot' # <<>>
        BY <2>2, <3>2, CappedFacts
      <4> QED
        BY <2>2, <3>2, <4>1 DEF Behind
    <3> QED
      BY <3>1, <3>2
  <2> QED
    BY <2>2, <2>4 DEF BehindInv
<1> QED
  BY <1>5, <1>6, <1>7, <1>8, <1>9, <1>10, <1>11, <1>12, <1>13, <1>14, <1>15, <1>16
     DEF HCNext, BeginAppend, BeginIngest, Flush

LEMMA TurnsInit == HCInit => TurnsInv
<1> SUFFICES ASSUME HCInit PROVE Turns
  BY DEF TurnsInv
<1> USE ThreadKinds
<1>1. hot = <<>> /\ cold = <<>> /\ file.hot = <<>> /\ file.cold = <<>> /\ wal = Genesis
      /\ \A t \in Threads : pc[t] = "idle"
  BY EmptyLedger DEF HCInit
<1>2. OneWriter
  BY <1>1 DEF OneWriter, Busy
<1>3. CoherentInv
  BY <1>1, GoodEmpty DEF CoherentInv
<1>4. CoveredInv
  BY <1>1, EmptySeq DEF CoveredInv, Covers
<1>5. PendingInv /\ ForkInv
  BY <1>1 DEF PendingInv, ForkInv
<1>6. RecentInv
  BY <1>1 DEF RecentInv
<1>7. BehindInv
  BY <1>1, EmptySeq, SoundEmpty DEF BehindInv, Behind
<1> QED
  BY <1>2, <1>3, <1>4, <1>5, <1>6, <1>7 DEF Turns

LEMMA OverlapStays ==
  ASSUME ChainTypes, HCNext, overlapped
  PROVE  overlapped'
BY DEF HCNext, BeginAppend, BeginIngest, BeginFork, Start, Begin, WriteWal, Push, Save, ApplyFork,
       ResetChain, Wake, Flush, StartFlush, WriteFile, ClearDirty, ClearWal, Crash, history

LEMMA TurnsStep == ChainInv /\ TurnsInv /\ [HCNext]_hcVars => TurnsInv'
<1> SUFFICES ASSUME ChainInv, TurnsInv, [HCNext]_hcVars, ~overlapped' PROVE Turns'
  BY DEF TurnsInv
<1>1. CASE HCNext
  <2>1. ChainTypes /\ HeldInv
    BY DEF ChainInv
  <2>2. Turns
    BY <1>1, <2>1, OverlapStays DEF TurnsInv
  <2>3. OneWriter' /\ CoherentInv' /\ CoveredInv'
    BY <1>1, <2>1, <2>2, OneWriterStep, CoherentStep, CoveredStep DEF Turns
  <2>4. PendingInv' /\ RecentInv' /\ ForkInv' /\ BehindInv'
    BY <1>1, <2>1, <2>2, PendingStep, RecentStep, ForkStep, BehindStep
  <2> QED
    BY <2>3, <2>4 DEF Turns
<1>2. CASE UNCHANGED hcVars
  BY <1>2 DEF hcVars, history, TurnsInv, Turns, OneWriter, Busy, CoherentInv, CoveredInv,
              PendingInv, RecentInv, ForkInv, BehindInv, Behind
<1> QED
  BY <1>1, <1>2

LEMMA TurnsWhole == ChainInv /\ TurnsInv => HCLedgerWhole
<1> SUFFICES ASSUME ChainInv, Turns
             PROVE  /\ hot = <<>> \/ (LinkedFrom(Front(hot[1]), hot) /\ Increasing(hot))
                    /\ ~forgot => LinkedFrom(Genesis, cold \o hot) /\ Increasing(cold \o hot)
  BY DEF TurnsInv, HCLedgerWhole
<1>1. hot \in Seq(Events) /\ cold \in Seq(Events) /\ Good(cold, hot, forgot)
  BY DEF ChainInv, ChainTypes, Turns, CoherentInv
<1>2. Sound(hot) /\ (~forgot => Entire(cold, hot))
  BY <1>1 DEF Good
<1>3. \A c \in Seq(Events) : Rising(c) => Increasing(c)
  BY LenProperties DEF Rising, Increasing
<1>4. ASSUME hot # <<>> PROVE LinkedFrom(Front(hot[1]), hot) /\ Increasing(hot)
  <2>1. DOMAIN hot = 1..Len(hot)
    BY <1>1, ChainFacts
  <2>2. LinkedFrom(Front(hot[1]), hot)
    BY <1>1, <1>2, <1>4, <2>1, SoundLinks DEF LinkedFrom
  <2> QED
    BY <1>1, <1>2, <1>3, <2>2 DEF Sound
<1>5. ASSUME ~forgot PROVE LinkedFrom(Genesis, cold \o hot) /\ Increasing(cold \o hot)
  <2>1. PICK l \in Seq(Events) : l = cold \o hot
    BY <1>1, ConcatProperties
  <2> QED
    BY <1>2, <1>3, <1>5, <2>1 DEF Entire
<1> QED
  BY <1>4, <1>5

\* As long as no two threads write at once, the chain in memory is linked and
\* uses no author's sequence twice, and so is the whole ledger until something
\* makes the node forget the archive: for any number of authors and threads, and
\* through appends, ingests, forks, resets, spills, crashes and replays.
THEOREM LedgerIsWhole == HCSpec => []HCLedgerWhole
<1>1. ChainInv /\ TurnsInv /\ [HCNext]_hcVars => (ChainInv /\ TurnsInv)'
  BY ChainStep, TurnsStep
<1> QED
  BY <1>1, ChainInit, TurnsInit, TurnsWhole, PTL DEF HCSpec

-----------------------------------------------------------------------------
LEMMA ToSetIs ==
  ASSUME NEW c \in Seq(Events)
  PROVE  \A e : e \in ToSet(c) <=> \E i \in 1..Len(c) : e = c[i]
BY LenProperties DEF ToSet

LEMMA ToSetConcat ==
  ASSUME NEW c \in Seq(Events), NEW d \in Seq(Events)
  PROVE  \A e : e \in ToSet(c \o d) <=> e \in ToSet(c) \/ e \in ToSet(d)
<1>1. PICK l \in Seq(Events) : l = c \o d
  BY ConcatProperties
<1>2. Len(l) = Len(c) + Len(d) /\ Len(c) \in Nat /\ Len(d) \in Nat
      /\ \A i \in 1..(Len(c) + Len(d)) : l[i] = IF i <= Len(c) THEN c[i] ELSE d[i - Len(c)]
  BY <1>1, ConcatProperties, LenProperties
<1>3. ASSUME NEW e, e \in ToSet(l) PROVE e \in ToSet(c) \/ e \in ToSet(d)
  <2>1. PICK i \in 1..Len(l) : e = l[i]
    BY <1>3, ToSetIs
  <2>2. CASE i <= Len(c)
    <3>1. i \in 1..Len(c) /\ e = c[i]
      BY <1>2, <2>1, <2>2
    <3> QED
      BY <3>1, ToSetIs
  <2>3. CASE ~(i <= Len(c))
    <3>1. i - Len(c) \in 1..Len(d) /\ e = d[i - Len(c)]
      BY <1>2, <2>1, <2>3
    <3> QED
      BY <3>1, ToSetIs
  <2> QED
    BY <2>2, <2>3
<1>4. ASSUME NEW e, e \in ToSet(c) PROVE e \in ToSet(l)
  <2>1. PICK i \in 1..Len(c) : e = c[i]
    BY <1>4, ToSetIs
  <2>2. i \in 1..Len(l) /\ l[i] = e
    BY <1>2, <2>1
  <2> QED
    BY <2>2, ToSetIs
<1>5. ASSUME NEW e, e \in ToSet(d) PROVE e \in ToSet(l)
  <2>1. PICK i \in 1..Len(d) : e = d[i]
    BY <1>5, ToSetIs
  <2>2. PICK j \in 1..Len(l) : j = Len(c) + i
    BY <1>2
  <2>3. ~(j <= Len(c)) /\ j - Len(c) = i
    BY <1>2, <2>2
  <2>4. l[j] = e
    BY <1>2, <2>1, <2>3
  <2> QED
    BY <2>4, ToSetIs
<1> QED
  BY <1>1, <1>3, <1>4, <1>5

LEMMA ToSetAppend ==
  ASSUME NEW c \in Seq(Events), NEW e \in Events
  PROVE  \A f \in ToSet(c) : f \in ToSet(Append(c, e))
<1>1. PICK d \in Seq(Events) : d = Append(c, e)
  BY AppendProperties
<1>2. Len(d) = Len(c) + 1 /\ Len(c) \in Nat /\ \A i \in 1..Len(c) : d[i] = c[i]
  BY <1>1, AppendProperties, LenProperties
<1>3. ASSUME NEW f, f \in ToSet(c) PROVE f \in ToSet(d)
  <2>1. PICK i \in 1..Len(c) : f = c[i]
    BY <1>3, ToSetIs
  <2>2. i \in 1..Len(d) /\ d[i] = f
    BY <1>2, <2>1
  <2> QED
    BY <2>2, ToSetIs
<1> QED
  BY <1>1, <1>3

LEMMA HeadIsIn ==
  ASSUME NEW c \in Seq(Events), c # <<>>
  PROVE  HeadOf(c) \in ToSet(c)
BY ChainFacts, ToSetIs

\* Archiving the overflow leaves the whole ledger as it is.
LEMMA SpillKeeps ==
  ASSUME NEW c \in Seq(Events), NEW h \in Seq(Events)
  PROVE  (c \o Archived(h)) \o Capped(h) = c \o h
<1>1. PICK a \in Seq(Events), k \in Seq(Events) : a = Archived(h) /\ k = Capped(h) /\ a \o k = h
  BY CappedFacts
<1>2. (c \o a) \o k = c \o (a \o k)
  BY ConcatAssociative
<1> QED
  BY <1>1, <1>2

LEMMA FlushedStep ==
  ASSUME ChainTypes, FlushedInv, HCNext, ~Crash, ~raced'
  PROVE  FlushedInv'
<1> USE ThreadKinds
<1>1. pc \in [Threads -> Labels] /\ dump \in [Threads -> Ledgers] /\ hot \in Seq(Events)
      /\ cold \in Seq(Events)
  BY DEF ChainTypes
<1>2. ASSUME cold' \o hot' = cold \o hot, file' = file,
             \A f \in Threads : /\ pc'[f] = "write" => pc[f] = "write" /\ dump'[f] = dump[f]
                                /\ pc'[f] \in {"clear", "unlog"} => pc[f] \in {"clear", "unlog"}
      PROVE  FlushedInv'
  BY <1>2 DEF FlushedInv
<1>3. ASSUME ~UnderWay, \A f \in Threads : pc'[f] \in {"write", "clear", "unlog"} => pc'[f] = pc[f]
      PROVE  FlushedInv'
  BY <1>3 DEF FlushedInv, UnderWay
<1>4. ASSUME NEW t \in Writers, NEW next \in {"log", "push"}, NEW path, Start(t, next, path)
      PROVE  FlushedInv'
  BY <1>1, <1>2, <1>4 DEF Start, Begin, Goto, ledger, disk
<1>5. ASSUME NEW t \in Appenders, WriteWal(t) PROVE FlushedInv'
  BY <1>1, <1>2, <1>5 DEF WriteWal, Goto, ledger
<1>6. ASSUME NEW t \in Writers, Push(t) \/ ApplyFork(t) \/ ResetChain(t) PROVE FlushedInv'
  <2>1. ~UnderWay
    BY <1>6 DEF Push, ApplyFork, ResetChain
  <2> QED
    BY <1>1, <1>3, <1>6, <2>1 DEF Push, ApplyFork, ResetChain, Goto
<1>7. ASSUME NEW t \in Writers, Save(t) PROVE FlushedInv'
  <2>1. cold' \o hot' = cold \o hot
    BY <1>1, <1>7, SpillKeeps DEF Save
  <2> QED
    BY <1>1, <1>2, <1>7, <2>1 DEF Save, Returned, disk
<1>8. ASSUME NEW t \in Ingesters, NEW n \in DOMAIN hot, NEW entries, BeginFork(t, n, entries)
      PROVE  FlushedInv'
  BY <1>1, <1>2, <1>8 DEF BeginFork, Begin, Goto, ledger, disk
<1>9. ASSUME NEW t \in Threads, StartFlush(t) PROVE FlushedInv'
  <2>1. UNCHANGED <<cold, hot, file>> /\ (pc'[t] = "write" => dump'[t].cold = cold /\ dump'[t].hot = hot)
        /\ pc'[t] \notin {"clear", "unlog"}
        /\ \A f \in Threads : f # t => pc'[f] = pc[f] /\ dump'[f] = dump[f]
    BY <1>1, <1>9 DEF StartFlush, Goto, ledger, disk
  <2> QED
    BY <2>1 DEF FlushedInv
<1>10. ASSUME NEW t \in Threads, WriteFile(t) PROVE FlushedInv'
  <2>1. UNCHANGED <<cold, hot>> /\ file' = dump[t] /\ pc[t] = "write" /\ pc'[t] = "clear"
        /\ \A f \in Threads : f # t => pc'[f] = pc[f] /\ dump'[f] = dump[f]
    BY <1>1, <1>10 DEF WriteFile, Goto, ledger
  <2>2. file'.cold \o file'.hot = cold \o hot
    BY <2>1 DEF FlushedInv
  <2> QED
    BY <2>1, <2>2 DEF FlushedInv
<1>11. ASSUME NEW t \in Threads, ClearDirty(t) \/ ClearWal(t) PROVE FlushedInv'
  BY <1>1, <1>2, <1>11 DEF ClearDirty, ClearWal, Goto, ledger, disk
<1>12. ASSUME Wake PROVE FlushedInv'
  BY <1>1, <1>2, <1>12 DEF Wake, Goto, ledger, disk
<1> QED
  BY <1>4, <1>5, <1>6, <1>7, <1>8, <1>9, <1>10, <1>11, <1>12
     DEF HCNext, BeginAppend, BeginIngest, Flush

LEMMA LoggedStep ==
  ASSUME ChainTypes, HeldInv, Turns, Logs, HCNext, ~Crash, ~overlapped', ~raced'
  PROVE  LoggedInv'
<1> USE ThreadKinds
<1>1. pc \in [Threads -> Labels] /\ work \in [Writers -> Events \cup {Genesis}]
      /\ hot \in Seq(Events) /\ cold \in Seq(Events)
  BY DEF ChainTypes
<1>2. OneWriter /\ LoggedInv /\ FlushedInv
  BY DEF Turns, Logs
\* Nothing to show where no append is under way.
<1>3. ASSUME \A u \in Appenders : pc'[u] \notin {"push", "save"} PROVE LoggedInv'
  BY <1>3 DEF LoggedInv
<1>4. ASSUME UNCHANGED <<hot, wal, file, work>>,
             \A u \in Appenders : pc'[u] \in {"push", "save"} => pc'[u] = pc[u],
             \A u \in Appenders : pc[u] = "push" => (UnderWay' => UnderWay)
      PROVE  LoggedInv'
  BY <1>2, <1>4 DEF LoggedInv, Logged
<1>5. ASSUME NEW t \in Writers, NEW next, t \in Appenders => next \notin {"push", "save"}, Begin(t, next)
      PROVE  LoggedInv'
  <2>1. \A u \in Writers : ~Busy(u)
    BY <1>5 DEF Begin
  <2>2. \A u \in Appenders : pc'[u] \notin {"push", "save"}
    BY <1>1, <1>5, <2>1 DEF Begin, Goto, Busy
  <2> QED
    BY <1>3, <2>2
<1>6. ASSUME NEW t \in Appenders, WriteWal(t) PROVE LoggedInv'
  <2>1. ~UnderWay /\ pc[t] = "log" /\ wal' = work[t] /\ work' = work /\ pc' = [pc EXCEPT ![t] = "push"]
    BY <1>6 DEF WriteWal, Goto
  <2>2. ~UnderWay'
    BY <1>1, <2>1 DEF UnderWay
  <2>3. \A u \in Appenders : u # t => pc'[u] \notin {"push", "save"}
    BY <1>1, <1>2, <2>1 DEF OneWriter, Busy
  <2> QED
    BY <1>1, <2>1, <2>2, <2>3 DEF LoggedInv
<1>7. ASSUME NEW t \in Writers, Push(t) PROVE LoggedInv'
  <2>1. pc[t] = "push" /\ pc' = [pc EXCEPT ![t] = "save"] /\ hot' = Append(hot, work[t])
        /\ wal' = wal /\ work' = work /\ work[t] \in Events
    BY <1>7 DEF Push, Goto, disk, HeldInv
  <2>2. HeadOf(hot') = work[t]
    BY <1>1, <1>7, <2>1, PendingContinues, SoundAppend DEF Turns, CoherentInv, Good
  <2>3. \A u \in Appenders : u # t => pc'[u] \notin {"push", "save"}
    BY <1>1, <1>2, <2>1 DEF OneWriter, Busy
  <2>4. t \in Appenders => wal = work[t]
    BY <1>2, <2>1 DEF LoggedInv
  <2> QED
    BY <1>1, <2>1, <2>2, <2>3, <2>4 DEF LoggedInv
<1>8. ASSUME NEW t \in Writers, Save(t) PROVE LoggedInv'
  <2>1. pc[t] = "save" /\ \A u \in Writers : pc'[u] = IF u = t THEN "idle" ELSE pc[u]
    BY <1>1, <1>8 DEF Save, Returned
  <2>2. \A u \in Appenders : pc'[u] \notin {"push", "save"}
    BY <1>2, <2>1 DEF OneWriter, Busy
  <2> QED
    BY <1>3, <2>2
<1>9. ASSUME NEW t \in Ingesters, ApplyFork(t) PROVE LoggedInv'
  <2>1. pc[t] = "fork" /\ pc' = [pc EXCEPT ![t] = "save"]
    BY <1>9 DEF ApplyFork, Goto
  <2>2. \A u \in Appenders : pc'[u] \notin {"push", "save"}
    BY <1>1, <1>2, <2>1 DEF OneWriter, Busy
  <2> QED
    BY <1>3, <2>2
<1>10. ASSUME NEW t \in Ingesters, ResetChain(t) PROVE LoggedInv'
  <2>1. \A u \in Writers : ~Busy(u)
    BY <1>10 DEF ResetChain
  <2>2. \A u \in Appenders : pc'[u] \notin {"push", "save"}
    BY <1>1, <1>10, <2>1 DEF ResetChain, Goto, Busy
  <2> QED
    BY <1>3, <2>2
<1>11. ASSUME NEW t \in Threads, StartFlush(t) PROVE LoggedInv'
  <2>1. \A u \in Writers : pc[u] # "push"
    BY <1>11 DEF StartFlush
  <2>2. \A u \in Threads : pc'[u] \in {"push", "save"} => pc'[u] = pc[u]
    BY <1>1, <1>11 DEF StartFlush, Goto
  <2> QED
    BY <1>4, <1>11, <2>1, <2>2 DEF StartFlush, ledger, disk
<1>12. ASSUME NEW t \in Threads, WriteFile(t) PROVE LoggedInv'
  <2>1. UNCHANGED <<hot, wal, work>> /\ file' = dump[t] /\ pc[t] = "write" /\ pc'[t] = "clear"
        /\ \A f \in Threads : f # t => pc'[f] = pc[f]
    BY <1>1, <1>12 DEF WriteFile, Goto, ledger
  <2>2. file'.cold \o file'.hot = cold \o hot /\ UnderWay
    BY <1>2, <2>1 DEF FlushedInv, UnderWay
  <2>3. ASSUME NEW u \in Appenders, pc'[u] = "push" PROVE FALSE
    BY <1>2, <2>1, <2>2, <2>3 DEF LoggedInv
  <2>4. ASSUME NEW u \in Appenders, pc'[u] = "save" PROVE HeadOf(hot') = work'[u] /\ work'[u] \in ToSet(file'.cold \o file'.hot)
    <3>1. pc[u] = "save" /\ HeadOf(hot) = work[u] /\ work[u] \in Events
      BY <1>2, <2>1, <2>4 DEF LoggedInv, HeldInv
    <3>2. hot # <<>>
      BY <3>1, EventEntry DEF HeadOf
    <3>3. work[u] \in ToSet(cold \o hot)
      BY <1>1, <3>1, <3>2, HeadIsIn, ToSetConcat
    <3> QED
      BY <2>1, <2>2, <3>1, <3>3
  <2> QED
    BY <2>3, <2>4 DEF LoggedInv, Logged
<1>13. ASSUME NEW t \in Threads, ClearDirty(t) PROVE LoggedInv'
  <2>1. \A f \in Threads : pc'[f] = IF f = t THEN "unlog" ELSE pc[f]
    BY <1>1, <1>13 DEF ClearDirty, Goto
  <2>2. pc[t] = "clear"
    BY <1>13 DEF ClearDirty
  <2>3. UnderWay
    BY <2>2 DEF UnderWay
  <2> QED
    BY <1>4, <1>13, <2>1, <2>3 DEF ClearDirty, ledger, disk
<1>14. ASSUME NEW t \in Threads, ClearWal(t) PROVE LoggedInv'
  <2>1. UNCHANGED <<hot, file, work>> /\ pc[t] = "unlog" /\ \A f \in Threads : pc'[f] = IF f = t THEN "idle" ELSE pc[f]
    BY <1>1, <1>14 DEF ClearWal, Goto, ledger
  <2>2. file.cold \o file.hot = cold \o hot /\ UnderWay
    BY <1>2, <2>1 DEF FlushedInv, UnderWay
  <2>3. ASSUME NEW u \in Appenders, pc'[u] = "push" PROVE FALSE
    BY <1>2, <2>1, <2>2, <2>3 DEF LoggedInv
  <2>4. ASSUME NEW u \in Appenders, pc'[u] = "save" PROVE HeadOf(hot') = work'[u] /\ work'[u] \in ToSet(file'.cold \o file'.hot)
    <3>1. pc[u] = "save" /\ HeadOf(hot) = work[u] /\ work[u] \in Events
      BY <1>2, <2>1, <2>4 DEF LoggedInv, HeldInv
    <3>2. hot # <<>>
      BY <3>1, EventEntry DEF HeadOf
    <3>3. work[u] \in ToSet(cold \o hot)
      BY <1>1, <3>1, <3>2, HeadIsIn, ToSetConcat
    <3> QED
      BY <2>1, <2>2, <3>1, <3>3
  <2> QED
    BY <2>3, <2>4 DEF LoggedInv, Logged
<1>15. ASSUME Wake PROVE LoggedInv'
  <2>1. \A f \in Threads : pc'[f] = IF f = Timer THEN "flush" ELSE pc[f]
    BY <1>1, <1>15 DEF Wake, Goto
  <2>2. UnderWay' => UnderWay
    BY <2>1 DEF UnderWay
  <2> QED
    BY <1>4, <1>15, <2>1, <2>2 DEF Wake, ledger, disk
<1> QED
  BY <1>5, <1>6, <1>7, <1>8, <1>9, <1>10, <1>11, <1>12, <1>13, <1>14, <1>15
     DEF HCNext, BeginAppend, BeginIngest, BeginFork, Start, Flush

LEMMA AckedStep ==
  ASSUME ChainTypes, HeldInv, Turns, Logs, HCNext, ~Crash
  PROVE  AckedInv'
<1> USE ThreadKinds
<1>1. pc \in [Threads -> Labels] /\ work \in [Writers -> Events \cup {Genesis}]
      /\ hot \in Seq(Events) /\ cold \in Seq(Events) /\ acked \subseteq Events
  BY DEF ChainTypes
<1>2. OneWriter /\ AckedInv /\ LoggedInv /\ FlushedInv /\ Sound(hot)
  BY DEF Turns, Logs, CoherentInv, Good
<1>3. ASSUME UNCHANGED <<hot, cold, wal, file, acked>>,
             \A u \in Appenders : pc[u] = "push" => pc'[u] = "push"
      PROVE  AckedInv'
  BY <1>2, <1>3 DEF AckedInv, Logged
<1>4. ASSUME acked' \subseteq ToSet(cold' \o hot'), \A e \in acked' : e \in ToSet(file'.cold \o file'.hot)
      PROVE  AckedInv'
  BY <1>4 DEF AckedInv, Logged
<1>5. ASSUME NEW t \in Writers, NEW next, Begin(t, next) PROVE AckedInv'
  BY <1>1, <1>3, <1>5 DEF Begin, Goto, ledger, disk
<1>6. ASSUME NEW t \in Appenders, WriteWal(t) PROVE AckedInv'
  <2>1. UNCHANGED <<hot, cold, file, acked>> /\ pc'[t] = "push"
    BY <1>1, <1>6 DEF WriteWal, Goto, ledger
  <2> QED
    BY <1>2, <2>1 DEF AckedInv, Logged
<1>7. ASSUME NEW t \in Writers, Push(t) PROVE AckedInv'
  <2>1. PICK w \in Events : w = work[t]
    BY <1>7 DEF Push, HeldInv
  <2>2. hot' = Append(hot, w) /\ UNCHANGED <<cold, file, acked>>
    BY <1>7, <2>1 DEF Push, disk
  <2>3. Continues(w, hot)
    BY <1>7, <2>1, PendingContinues DEF Push, Turns
  <2>4. HeadOf(hot') = w /\ hot' \in Seq(Events) /\ Len(w) = Len(HeadOf(hot)) + 1 /\ Len(HeadOf(hot)) \in Nat
    <3>1. Len(HeadOf(hot)) = Len(w) - 1 /\ Len(w) \in Nat /\ Len(w) - 1 \in Nat
      BY <2>3, EventEntry DEF Continues
    <3> QED
      BY <1>1, <1>2, <2>2, <2>3, <3>1, SoundAppend
  <2>5. acked' \subseteq ToSet(cold' \o hot')
    <3>1. \A e \in acked : e \in ToSet(cold) \/ e \in ToSet(hot)
      BY <1>1, <1>2, ToSetConcat DEF AckedInv
    <3>2. \A e \in ToSet(hot) : e \in ToSet(hot')
      BY <1>1, <2>2, ToSetAppend
    <3> QED
      BY <1>1, <2>2, <2>4, <3>1, <3>2, ToSetConcat
  <2>6. ASSUME NEW e \in acked', e \notin ToSet(file'.cold \o file'.hot)
        PROVE  Len(e) < Len(HeadOf(hot'))
    <3>1. e \in Events /\ Len(e) \in Nat /\ Len(e) <= Len(HeadOf(hot))
      BY <1>1, <1>2, <2>2, <2>6, EventEntry DEF AckedInv, Logged
    <3> QED
      BY <2>4, <3>1
  <2>7. \A e \in acked' : Len(e) \in Nat /\ Len(HeadOf(hot')) \in Nat
    BY <1>1, <2>2, <2>4, EventEntry
  <2>8. ASSUME NEW e \in acked', e \notin ToSet(file'.cold \o file'.hot)
        PROVE  Len(e) <= Len(HeadOf(hot')) /\ e # HeadOf(hot')
    BY <2>6, <2>7, <2>8
  <2> QED
    BY <2>5, <2>8 DEF AckedInv, Logged
<1>8. ASSUME NEW t \in Writers, Save(t) PROVE AckedInv'
  <2>1. pc[t] = "save" /\ UNCHANGED <<file, wal>> /\ hot' = Capped(hot)
        /\ acked' = IF t \in Appenders THEN acked \cup {work[t]} ELSE acked
    BY <1>8 DEF Save, Returned, disk
  <2>2. cold' \o hot' = cold \o hot
    BY <1>1, <1>8, SpillKeeps DEF Save
  <2>3. HeadOf(hot') = HeadOf(hot)
    BY <1>1, <2>1, CappedFacts
  <2>4. ASSUME NEW e \in acked
        PROVE  /\ e \in ToSet(cold' \o hot')
               /\ e \notin ToSet(file'.cold \o file'.hot) =>
                    Len(e) <= Len(HeadOf(hot')) /\ (e = HeadOf(hot') => wal' = e)
    <3>1. \A u \in Appenders : pc[u] # "push"
      BY <1>2, <1>8, <2>1 DEF OneWriter, Busy
    <3> QED
      BY <1>2, <2>1, <2>2, <2>3, <3>1 DEF AckedInv, Logged
  <2>5. ASSUME t \in Appenders
        PROVE  /\ work[t] \in ToSet(cold' \o hot') /\ work[t] = HeadOf(hot')
               /\ work[t] \notin ToSet(file'.cold \o file'.hot) => wal' = work[t]
    <3>1. HeadOf(hot) = work[t] /\ work[t] \in Events /\ (wal = work[t] \/ Logged(work[t]))
      BY <1>2, <2>1, <2>5 DEF LoggedInv, HeldInv
    <3>2. hot # <<>>
      BY <3>1, EventEntry DEF HeadOf
    <3>3. work[t] \in ToSet(cold \o hot)
      BY <1>1, <3>1, <3>2, HeadIsIn, ToSetConcat
    <3> QED
      BY <2>1, <2>2, <2>3, <3>1, <3>3 DEF Logged
  <2>6. t \in Appenders => work[t] \in Events /\ Len(work[t]) \in Nat
    BY <2>1, EventEntry DEF HeldInv
  <2>7. ASSUME NEW e \in acked'
        PROVE  /\ e \in ToSet(cold' \o hot')
               /\ e \notin ToSet(file'.cold \o file'.hot) =>
                    Len(e) <= Len(HeadOf(hot')) /\ (e = HeadOf(hot') => wal' = e)
    <3>1. CASE e \in acked
      BY <2>4, <3>1
    <3>2. CASE e \notin acked
      <4>1. t \in Appenders /\ e = work[t]
        BY <2>1, <2>7, <3>2
      <4>2. Len(e) <= Len(HeadOf(hot'))
        BY <2>5, <2>6, <4>1
      <4> QED
        BY <2>5, <4>1, <4>2
    <3> QED
      BY <3>1, <3>2
  <2> QED
    BY <2>7 DEF AckedInv, Logged
<1>9. ASSUME NEW t \in Ingesters, ApplyFork(t) PROVE AckedInv'
  <2>1. pc[t] = "fork" /\ UNCHANGED <<cold, file>> /\ acked' = acked \ (ToSet(hot) \ ToSet(hot'))
        /\ hot' = dump[t].hot /\ hot' \in Seq(Events)
    BY <1>9 DEF ApplyFork, disk, ChainTypes, Ledgers
  <2>2. hot # <<>> /\ hot' # <<>> /\ Len(HeadOf(hot')) > Len(HeadOf(hot))
    BY <1>9, <2>1 DEF Turns, ForkInv
  <2>3. Len(HeadOf(hot')) \in Nat /\ Len(HeadOf(hot)) \in Nat
    BY <1>1, <2>1, <2>2, ChainFacts, EventEntry
  <2>4. ASSUME NEW e \in acked'
        PROVE  /\ e \in ToSet(cold' \o hot')
               /\ e \notin ToSet(file'.cold \o file'.hot) => Len(e) < Len(HeadOf(hot'))
    <3>1. e \in acked /\ (e \in ToSet(hot) => e \in ToSet(hot')) /\ e \in Events /\ Len(e) \in Nat
      BY <1>1, <2>1, <2>4, EventEntry
    <3>2. e \in ToSet(cold) \/ e \in ToSet(hot')
      BY <1>1, <1>2, <3>1, ToSetConcat DEF AckedInv
    <3>3. e \in ToSet(cold' \o hot')
      BY <1>1, <2>1, <3>2, ToSetConcat
    <3>4. e \notin ToSet(file'.cold \o file'.hot) => Len(e) <= Len(HeadOf(hot))
      BY <1>2, <2>1, <3>1 DEF AckedInv, Logged
    <3> QED
      BY <2>2, <2>3, <3>1, <3>3, <3>4
  <2>5. ASSUME NEW e \in acked', e \notin ToSet(file'.cold \o file'.hot)
        PROVE  Len(e) <= Len(HeadOf(hot')) /\ e # HeadOf(hot')
    <3>1. Len(e) \in Nat
      BY <1>1, <2>1, EventEntry
    <3> QED
      BY <2>3, <2>4, <2>5, <3>1
  <2> QED
    BY <2>4, <2>5 DEF AckedInv, Logged
<1>10. ASSUME NEW t \in Ingesters, ResetChain(t) PROVE AckedInv'
  <2>1. hot' = <<>> /\ UNCHANGED <<cold, file>> /\ acked' = acked \ ToSet(hot)
    BY <1>10 DEF ResetChain, disk
  <2>2. file.cold = cold
    <3>1. Len(hot) < MaxMemory
      BY <1>1, <1>10, ChainFacts, HashchainAssumption DEF ResetChain
    <3> QED
      BY <1>2, <3>1 DEF Sound, Turns, BehindInv, Behind
  <2>3. ASSUME NEW e \in acked' PROVE e \in ToSet(cold)
    BY <1>1, <1>2, <2>1, <2>3, ToSetConcat DEF AckedInv
  <2>4. \A e \in ToSet(cold) : e \in ToSet(cold \o <<>>) /\ e \in ToSet(cold \o file.hot)
    BY <1>1, ToSetConcat, EmptySeq DEF ChainTypes, Ledgers
  <2> QED
    BY <1>4, <2>1, <2>2, <2>3, <2>4
<1>11. ASSUME NEW t \in Threads, StartFlush(t) PROVE AckedInv'
  BY <1>1, <1>3, <1>11 DEF StartFlush, Goto, ledger, disk
<1>12. ASSUME NEW t \in Threads, WriteFile(t) PROVE AckedInv'
  <2>1. UNCHANGED <<hot, cold, acked>> /\ file' = dump[t] /\ pc[t] = "write"
    BY <1>12 DEF WriteFile, ledger, history
  <2>2. file'.cold \o file'.hot = cold \o hot
    BY <1>2, <2>1 DEF FlushedInv
  <2> QED
    BY <1>2, <1>4, <2>1, <2>2 DEF AckedInv
<1>13. ASSUME NEW t \in Threads, ClearDirty(t) PROVE AckedInv'
  BY <1>1, <1>3, <1>13 DEF ClearDirty, Goto, ledger, disk, history
<1>14. ASSUME NEW t \in Threads, ClearWal(t) PROVE AckedInv'
  <2>1. UNCHANGED <<hot, cold, acked, file>> /\ pc[t] = "unlog"
    BY <1>14 DEF ClearWal, ledger, history
  <2>2. file.cold \o file.hot = cold \o hot
    BY <1>2, <2>1 DEF FlushedInv
  <2> QED
    BY <1>2, <1>4, <2>1, <2>2 DEF AckedInv
<1>15. ASSUME Wake PROVE AckedInv'
  BY <1>1, <1>3, <1>15 DEF Wake, Goto, ledger, disk, history
<1> QED
  BY <1>5, <1>6, <1>7, <1>8, <1>9, <1>10, <1>11, <1>12, <1>13, <1>14, <1>15
     DEF HCNext, BeginAppend, BeginIngest, BeginFork, Start, Flush

\* What a crash leaves is on the file.
LEMMA CrashLogs ==
  ASSUME ChainTypes, Crash
  PROVE  Logs'
<1>1. PICK chain \in Seq(Events) : Load(chain)
  BY CrashLoads
<1>2. /\ hot' = Capped(chain) /\ cold' = file.cold \o Archived(chain) /\ hot' \in Seq(Events)
      /\ IF chain = <<>> THEN file' = file ELSE file'.cold = cold' /\ file'.hot = hot'
      /\ \A t \in Threads : pc'[t] \in {"idle", "sleep"}
  BY <1>1, LoadFacts
<1>3. FlushedInv' /\ LoggedInv'
  BY <1>2, ThreadKinds DEF FlushedInv, LoggedInv
<1>4. acked' \subseteq ToSet(cold' \o hot')
  BY DEF Crash
<1>5. ASSUME NEW e \in acked' PROVE e \in ToSet(file'.cold \o file'.hot)
  <2>1. CASE chain # <<>>
    BY <1>2, <1>4, <1>5, <2>1
  <2>2. CASE chain = <<>>
    <3>1. Overflow(chain) = 0
      BY <2>2, EmptySeq, HashchainAssumption DEF Overflow
    <3>2. Capped(chain) = <<>> /\ Archived(chain) = <<>>
      BY <2>2, <3>1, CappedFacts
    <3>3. file.cold \in Seq(Events) /\ file.hot \in Seq(Events) /\ <<>> \in Seq(Events)
      BY EmptySeq DEF ChainTypes, Ledgers
    <3>4. cold' = file.cold /\ hot' = <<>> /\ file' = file
      BY <1>2, <2>2, <3>2, <3>3, ConcatEmptySeq
    <3>5. e \in ToSet(file.cold)
      <4>1. e \in ToSet(file.cold) \/ e \in ToSet(<<>>)
        BY <1>4, <1>5, <3>3, <3>4, ToSetConcat
      <4>2. Len(<<>>) = 0 /\ \A i \in 1..0 : FALSE
        BY EmptySeq
      <4>3. e \notin ToSet(<<>>)
        BY <3>3, <4>2, ToSetIs
      <4> QED
        BY <4>1, <4>3
    <3> QED
      BY <3>3, <3>4, <3>5, ToSetConcat
  <2> QED
    BY <2>1, <2>2
<1> QED
  BY <1>3, <1>4, <1>5 DEF Logs, AckedInv, Logged

LEMMA RaceStays ==
  ASSUME ChainTypes, HCNext, ~Crash, raced
  PROVE  raced'
BY DEF HCNext, BeginAppend, BeginIngest, BeginFork, Start, Begin, WriteWal, Push, Save, ApplyFork,
       ResetChain, Wake, Flush, StartFlush, WriteFile, ClearDirty, ClearWal, history

LEMMA LogInit == HCInit => LogInv
<1> SUFFICES ASSUME HCInit PROVE Logs
  BY DEF LogInv
<1>1. acked = {} /\ \A t \in Threads : pc[t] = "idle"
  BY DEF HCInit
<1> QED
  BY <1>1, ThreadKinds DEF Logs, FlushedInv, LoggedInv, AckedInv

LEMMA LogStep == ChainInv /\ TurnsInv /\ LogInv /\ [HCNext]_hcVars => LogInv'
<1> SUFFICES ASSUME ChainInv, TurnsInv, LogInv, [HCNext]_hcVars, ~overlapped', ~raced' PROVE Logs'
  BY DEF LogInv
<1>1. ChainTypes /\ HeldInv
  BY DEF ChainInv
<1>2. CASE Crash
  BY <1>1, <1>2, CrashLogs
<1>3. CASE HCNext /\ ~Crash
  <2>1. Turns /\ Logs
    BY <1>1, <1>3, OverlapStays, RaceStays DEF TurnsInv, LogInv
  <2> QED
    BY <1>1, <1>3, <2>1, FlushedStep, LoggedStep, AckedStep DEF Logs
<1>4. CASE UNCHANGED hcVars
  BY <1>4 DEF hcVars, history, LogInv, Logs, FlushedInv, LoggedInv, AckedInv, Logged, UnderWay
<1> QED
  BY <1>2, <1>3, <1>4

\* When one event is all that the file lacks, it is the head of memory and was
\* made on the head of the file.
LEMMA LackingOne ==
  ASSUME ChainTypes, Turns, NEW e \in Events, cold \o hot = Append(file.cold \o file.hot, e)
  PROVE  hot # <<>> /\ HeadOf(hot) = e /\ Front(e) = HeadOf(file.hot)
<1>1. PICK c \in Seq(Events), h \in Seq(Events), fc \in Seq(Events), fh \in Seq(Events) :
         c = cold /\ h = hot /\ fc = file.cold /\ fh = file.hot
  BY DEF ChainTypes, Ledgers
<1>2. PICK l \in Seq(Events), fl \in Seq(Events) :
         l = c \o h /\ fl = fc \o fh /\ l = Append(fl, e)
  BY <1>1, ConcatProperties
<1>3. Sound(h) /\ Anchored(c, h) /\ (Base(h) = 0 => fc = c)
      /\ (fh = <<>> => Len(c) = Len(fc) + Base(h)) /\ Base(h) \in Nat
  BY <1>1 DEF Turns, CoherentInv, Good, BehindInv, Behind, Sound
<1>4. Len(c) \in Nat /\ Len(h) \in Nat /\ Len(fc) \in Nat /\ Len(fh) \in Nat
  BY ChainFacts
<1>5. Len(l) = Len(c) + Len(h)
      /\ \A i \in 1..Len(l) : l[i] = IF i <= Len(c) THEN c[i] ELSE h[i - Len(c)]
  <2>1. Joined(l, c, h)
    BY <1>2, Concatenated
  <2> QED
    BY <2>1 DEF Joined
<1>6. Len(fl) = Len(fc) + Len(fh)
      /\ \A i \in 1..Len(fl) : fl[i] = IF i <= Len(fc) THEN fc[i] ELSE fh[i - Len(fc)]
  <2>1. Joined(fl, fc, fh)
    BY <1>2, Concatenated
  <2> QED
    BY <2>1 DEF Joined
<1>7. Len(l) = Len(fl) + 1 /\ l[Len(l)] = e /\ \A i \in 1..Len(fl) : l[i] = fl[i]
  <2>1. Len(Append(fl, e)) = Len(fl) + 1 /\ Append(fl, e)[Len(fl) + 1] = e
        /\ \A i \in 1..Len(fl) : Append(fl, e)[i] = fl[i]
    BY AppendProperties
  <2> QED
    BY <1>2, <2>1
<1>8. h # <<>> /\ Len(h) > 0
  <2> SUFFICES ASSUME h = <<>> PROVE FALSE
    BY <1>4, ChainFacts
  <2>1. fc = c /\ Len(h) = 0
    BY <1>3, SoundEmpty, EmptySeq
  <2>2. Len(l) = Len(c) /\ Len(l) = Len(c) + Len(fh) + 1
    BY <1>4, <1>5, <1>6, <1>7, <2>1
  <2> QED
    BY <1>4, <2>2
<1>9. HeadOf(h) = e /\ h[Len(h)] = e
  <2>1. PICK n \in 1..Len(l) : n = Len(l)
    BY <1>4, <1>5, <1>8
  <2>2. ~(n <= Len(c)) /\ n - Len(c) = Len(h)
    BY <1>4, <1>5, <1>8, <2>1
  <2>3. h[Len(h)] = e
    BY <1>7, <1>5, <2>1, <2>2
  <2> QED
    BY <1>8, <2>3, ChainFacts
<1>10. Len(h[1]) = Base(h) + 1 /\ Len(Front(h[1])) = Base(h)
       /\ \A i \in 1..Len(h) : i # 1 => Front(h[i]) = h[i - 1]
  BY <1>3, <1>8, SoundLinks
<1>11. CASE fh = <<>>
  <2>1. Len(h) = 1 /\ Base(h) = 0
    <3>1. Len(fh) = 0
      BY <1>11, EmptySeq
    <3>2. Len(c) + Len(h) = Len(fc) + 1 /\ Len(c) = Len(fc) + Base(h)
      BY <1>3, <1>4, <1>5, <1>6, <1>7, <1>11, <3>1
    <3>3. PICK b \in Nat, k \in Nat : b = Base(h) /\ k = Len(h)
      BY <1>3, <1>4
    <3>4. b + k = 1 /\ k > 0
      BY <1>4, <1>8, <3>2, <3>3
    <3>5. b = 0 /\ k = 1
      BY <3>4
    <3> QED
      BY <3>3, <3>5
  <2>2. Len(Front(e)) = 0 /\ Front(e) \in Seq(Entries)
    BY <1>9, <1>10, <2>1, EventEntry
  <2>3. Front(e) = <<>>
    BY <2>2, EmptySeq
  <2> QED
    BY <1>1, <1>8, <1>9, <1>11, <2>3, SoundEmpty DEF Genesis
<1>12. CASE fh # <<>>
  <2>1. PICK n \in 1..Len(fl) : n = Len(fl)
    BY <1>4, <1>6, <1>12, ChainFacts
  <2>2. fl[n] = HeadOf(fh)
    <3>1. ~(n <= Len(fc)) /\ n - Len(fc) = Len(fh)
      BY <1>4, <1>6, <1>12, <2>1, ChainFacts
    <3>2. fl[n] = fh[Len(fh)]
      BY <1>6, <3>1
    <3> QED
      BY <1>12, <3>2, ChainFacts
  <2>3. l[n] = HeadOf(fh) /\ n \in 1..Len(l) /\ n = Len(c) + Len(h) - 1
    BY <1>4, <1>5, <1>7, <2>1, <2>2
  <2>4. CASE Len(h) = 1
    <3>1. n = Len(c) /\ n <= Len(c)
      BY <1>4, <2>3, <2>4
    <3>2. c[Len(c)] = HeadOf(fh)
      BY <1>5, <2>3, <3>1
    <3>3. Base(h) > 0
      <4> SUFFICES ASSUME Base(h) = 0 PROVE FALSE
        BY <1>3
      <4>1. fc = c
        BY <1>3
      <4>2. Len(fh) = 0
        BY <1>4, <1>5, <1>6, <1>7, <2>4, <4>1
      <4> QED
        BY <1>12, <4>2, ChainFacts
    <3>4. Last(c) = Front(h[1])
      BY <1>3, <3>3 DEF Anchored
    <3> QED
      BY <1>1, <1>8, <1>9, <2>4, <3>2, <3>4 DEF Last
  <2>5. CASE Len(h) # 1
    <3>1. PICK k \in 1..Len(h) : k = Len(h) /\ k # 1
      <4>1. Len(h) \in 1..Len(h)
        BY <1>4, <1>8
      <4> QED
        BY <2>5, <4>1
    <3>2. Front(h[k]) = h[k - 1]
      BY <1>10, <3>1
    <3>3. ~(n <= Len(c)) /\ n - Len(c) = k - 1
      BY <1>4, <2>3, <3>1
    <3>4. l[n] = h[k - 1]
      BY <1>5, <2>3, <3>3
    <3> QED
      BY <1>1, <1>8, <1>9, <2>3, <3>1, <3>2, <3>4
  <2> QED
    BY <2>4, <2>5
<1> QED
  BY <1>11, <1>12

LEMMA LogReplays == ChainInv /\ TurnsInv /\ LogInv => HCLastAppendSurvives
<1> SUFFICES ASSUME ChainInv, Turns, Logs, \A t \in Appenders : pc[t] # "push",
                    Overflow(file.hot) = 0, NEW e \in acked \ ToSet(file.cold),
                    cold \o hot = Append(file.cold \o file.hot, e)
             PROVE  Recovered # <<>> /\ Last(Recovered) = Last(hot)
  BY DEF TurnsInv, LogInv, HCLastAppendSurvives
<1>1. PICK fc \in Seq(Events), fh \in Seq(Events) : fc = file.cold /\ fh = file.hot
  BY DEF ChainInv, ChainTypes, Ledgers
<1>2. e \in Events /\ hot \in Seq(Events)
  BY DEF ChainInv, ChainTypes
<1>3. hot # <<>> /\ HeadOf(hot) = e /\ Front(e) = HeadOf(fh)
  BY <1>1, <1>2, LackingOne DEF ChainInv
\* No event of the file was made on the head of the file.
<1>4. e \notin ToSet(fh)
  <2> SUFFICES ASSUME e \in ToSet(fh) PROVE FALSE
    OBVIOUS
  <2>1. PICK i \in 1..Len(fh) : e = fh[i]
    BY ToSetIs
  <2>2. Sound(fh) /\ fh # <<>> /\ Len(fh) \in Nat
    BY <1>1, <2>1, ChainFacts DEF Turns, CoherentInv, Good
  <2>3. Base(fh) \in Nat /\ Len(e) = Base(fh) + i
    BY <2>1, <2>2 DEF Sound, Beginnings
  <2>4. Len(HeadOf(fh)) = Base(fh) + Len(fh)
    BY <2>2, SoundLinks
  <2>5. Len(HeadOf(fh)) = Len(e) - 1
    BY <1>2, <1>3, EventEntry
  <2> QED
    BY <2>2, <2>3, <2>4, <2>5
<1>5. wal = e
  <2>1. ~Logged(e)
    BY <1>1, <1>4, ToSetConcat DEF Logged
  <2> QED
    BY <1>3, <2>1 DEF Logs, AckedInv
<1>6. Recovered = Append(fh, e)
  BY <1>1, <1>2, <1>3, <1>4, <1>5, EventEntry DEF Recovered, Replayable
<1>7. Append(fh, e) # <<>> /\ Last(Append(fh, e)) = e
  <2>1. Len(Append(fh, e)) = Len(fh) + 1 /\ Append(fh, e)[Len(fh) + 1] = e /\ Len(fh) \in Nat
    BY <1>2, AppendProperties, ChainFacts
  <2> QED
    BY <2>1, EmptySeq DEF Last
<1> QED
  BY <1>3, <1>6, <1>7 DEF HeadOf

\* The log does what it is kept for, as long as no two threads write at once and
\* no event is on its way while a flush is: a last append that is all that the
\* chain file lacks is what a crash recovers.
THEOREM LastAppendSurvives == HCSpec => []HCLastAppendSurvives
<1> DEFINE Inv == ChainInv /\ TurnsInv /\ LogInv
<1>1. HCInit => Inv
  BY ChainInit, TurnsInit, LogInit
<1>2. Inv /\ [HCNext]_hcVars => Inv'
  BY ChainStep, TurnsStep, LogStep
<1>3. Inv => HCLastAppendSurvives
  BY LogReplays
<1> QED
  BY <1>1, <1>2, <1>3, PTL DEF HCSpec
=============================================================================
