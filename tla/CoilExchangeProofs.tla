------------------------- MODULE CoilExchangeProofs -------------------------
(***************************************************************************)
(* Theorems about CoilExchange, for any channels, addresses and pieces:    *)
(* the types; that the chains end and are whole; that no frame sets a coil *)
(* of a stranger; and that the reader stays in step with the replies.      *)
(*                                                                         *)
(* A link always goes from a channel to a later child of the slave, so     *)
(* that walks end.  What a chain holds is shown by two facts about walks:  *)
(* they stay in every set that is closed under links, and what they pass   *)
(* is such a set (ChainClosed, ChainLeast).                                *)
(***************************************************************************)
EXTENDS CoilExchange, SequenceTheorems, FiniteSetTheorems, SetInduction

-----------------------------------------------------------------------------
(* Walks along the links.                                                  *)

Links == [Channel -> Channel \cup {None}]

\* Child c comes before child d.
Before(ch, c, d) == \E i, j \in DOMAIN ch : i < j /\ ch[i] = c /\ ch[j] = d

Ordered(ch, nx) == \A c \in Channel : nx[c] # None => Before(ch, c, nx[c])
OneParent(nx) == \A c, d \in Channel : nx[c] = nx[d] /\ nx[c] # None => c = d
Distinct(ch) == \A i, j \in DOMAIN ch : ch[i] = ch[j] => i = j
Children(ch) == ch \in Seq(Channel) /\ Distinct(ch)

\* The channels of a chain.
Reached(nx, c) == {d \in Channel : Contains(ChainFrom(nx, c), d)}

\* A set that no link leaves.
Closed(nx, S) == \A c \in S : nx[c] = None \/ nx[c] \in S

Walk == {s \in Seq(Channel) : s # <<>>}
Onward(nx, s) == IF nx[Last(s)] = None THEN s ELSE Append(s, nx[Last(s)])
IsWalk(nx, c, f) ==
  /\ f \in [0..NumChannel -> Walk] /\ f[0] = <<c>>
  /\ \A n \in 1..NumChannel : f[n] = Onward(nx, f[n - 1])

LEMMA ChannelsAre == NumChannel \in Nat /\ Channel = 1..NumChannel /\ None \notin Channel
BY ChannelAssumption DEF Channel, None

LEMMA OnwardType ==
  ASSUME NEW nx \in Links, NEW s \in Walk
  PROVE  Onward(nx, s) \in Walk
<1>1. s \in Seq(Channel) /\ Len(s) \in 1..Len(s) /\ Last(s) \in Channel
  BY DEF Walk, Last
<1>2. CASE nx[Last(s)] = None
  BY <1>2 DEF Onward
<1>3. CASE nx[Last(s)] # None
  <2>1. nx[Last(s)] \in Channel
    BY <1>1, <1>3 DEF Links
  <2>2. Append(s, nx[Last(s)]) \in Walk
    BY <1>1, <2>1 DEF Walk
  <2> QED BY <1>3, <2>2 DEF Onward
<1> QED BY <1>2, <1>3

\* ChainFrom takes NumChannel steps.
LEMMA ChainSteps ==
  ASSUME NEW nx \in Links, NEW c \in Channel
  PROVE  \E f : IsWalk(nx, c, f) /\ ChainFrom(nx, c) = f[NumChannel]
<1> DEFINE step == [p \in Walk \X (1..NumChannel) |-> Onward(nx, p[1])]
           IsChain(f) == f = [n \in 0..NumChannel |->
                 IF n = 0 THEN <<c>>
                 ELSE LET s == f[n - 1] IN
                      IF nx[Last(s)] = None THEN s ELSE Append(s, nx[Last(s)])]
           chain == CHOOSE f : IsChain(f)
<1>1. NumChannel \in Nat /\ <<c>> \in Walk
  BY ChannelsAre DEF Walk
<1>2. PICK f : IsIteration(f, Walk, <<c>>, NumChannel, step)
  <2>1. step \in [Walk \X (1..NumChannel) -> Walk]
    BY OnwardType
  <2> HIDE DEF step
  <2> QED BY <1>1, <2>1, Iterates, Zenon
<1>3. IsWalk(nx, c, f)
  <2>1. f \in [0..NumChannel -> Walk] /\ f[0] = <<c>>
    BY <1>2 DEF IsIteration
  <2>2. ASSUME NEW n \in 1..NumChannel PROVE f[n] = Onward(nx, f[n - 1])
    <3>1. n - 1 \in 0..NumChannel
      BY <1>1
    <3>2. f[n - 1] \in Walk
      BY <2>1, <3>1
    <3>3. f[n] = step[<<f[n - 1], n>>]
      <4> HIDE DEF step
      <4> QED BY <1>2 DEF IsIteration
    <3> QED BY <3>2, <3>3
  <2> QED BY <2>1, <2>2 DEF IsWalk
<1>4. IsChain(f)
  <2>1. \A n \in 0..NumChannel : f[n] = IF n = 0 THEN <<c>> ELSE Onward(nx, f[n - 1])
    BY <1>1, <1>3 DEF IsWalk
  <2> QED BY <1>3, <2>1 DEF IsWalk, Onward
<1>5. IsChain(chain)
  <2> HIDE DEF IsChain
  <2> QED BY <1>4
<1>6. IsWalk(nx, c, chain)
  <2>0. DOMAIN chain = 0..NumChannel /\ \A n \in 0..NumChannel :
          chain[n] = IF n = 0 THEN <<c>> ELSE Onward(nx, chain[n - 1])
    <3> HIDE DEF chain
    <3> QED BY <1>5 DEF Onward
  <2> DEFINE T == {n \in 0..NumChannel : chain[n] = f[n]}
  <2>1. 0 \in T /\ \A n \in 1..NumChannel : n - 1 \in T => n \in T
    <3> HIDE DEF chain
    <3> QED BY <1>1, <1>3, <2>0 DEF IsWalk
  <2>2. 0..NumChannel \subseteq T
    <3> HIDE DEF T
    <3> QED BY <1>1, <2>1, UpTo
  <2>3. \A n \in 0..NumChannel : chain[n] = f[n]
    BY <2>2
  <2>4. chain \in [0..NumChannel -> Walk] /\ chain[0] = <<c>>
    <3> HIDE DEF chain
    <3>1. chain = [n \in 0..NumChannel |-> chain[n]]
      BY <1>5
    <3> QED BY <1>1, <1>3, <2>3, <3>1 DEF IsWalk
  <2> HIDE DEF chain
  <2> QED BY <1>1, <2>0, <2>4 DEF IsWalk
<1>7. ChainFrom(nx, c) = chain[NumChannel]
  BY DEF ChainFrom
<1> HIDE DEF chain
<1> QED BY <1>6, <1>7

\* There are no more children than channels.
LEMMA ChildrenFit ==
  ASSUME NEW ch, Children(ch)
  PROVE  Len(ch) \in 0..NumChannel
<1>1. ch \in Injection(1..Len(ch), Channel)
  BY DEF Children, Distinct, Injection, IsInjective
<1>2. Len(ch) \in Nat /\ NumChannel \in Nat
  BY ChannelsAre DEF Children
<1>3. IsFiniteSet(Channel) /\ Cardinality(Channel) = NumChannel
  BY <1>2, FS_Interval, ChannelsAre
<1>4. Cardinality(1..Len(ch)) <= NumChannel
  BY <1>1, <1>3, FS_Injection
<1>5. Cardinality(1..Len(ch)) = Len(ch)
  <2>1. 1 \in Int /\ Len(ch) \in Int
    BY <1>2
  <2>2. Cardinality(1..Len(ch)) = IF 1 > Len(ch) THEN 0 ELSE Len(ch) - 1 + 1
    BY <2>1, FS_Interval, Zenon
  <2> QED BY <1>2, <2>2
<1> QED BY <1>2, <1>4, <1>5

\* A sequence that follows the links from c to a channel without one.
Follows(nx, c, s) ==
  /\ s \in Seq(Channel) /\ Len(s) \in 1..NumChannel /\ s[1] = c
  /\ \A i \in 1..Len(s) - 1 : nx[s[i]] = s[i + 1]
  /\ nx[s[Len(s)]] = None

\* Links that go to later children end.
LEMMA ChainEnds ==
  ASSUME NEW ch, Children(ch), NEW nx \in Links, Ordered(ch, nx),
         NEW c \in Channel, Contains(ch, c)
  PROVE  Follows(nx, c, ChainFrom(nx, c))
<1>1. PICK f : IsWalk(nx, c, f) /\ ChainFrom(nx, c) = f[NumChannel]
  BY ChainSteps
<1> DEFINE Goes(s) == \A i \in 1..Len(s) - 1 : nx[s[i]] = s[i + 1]
           Late(s) == \E k \in DOMAIN ch : k >= Len(s) /\ ch[k] = s[Len(s)]
           T == {n \in 0..NumChannel : /\ f[n][1] = c /\ Goes(f[n]) /\ Late(f[n])
                                       /\ Len(f[n]) = n + 1 \/ nx[f[n][Len(f[n])]] = None}
<1>2. NumChannel \in Nat /\ None \notin Channel /\ ch \in Seq(Channel) /\ Len(ch) \in 0..NumChannel
  BY ChannelsAre, ChildrenFit DEF Children
<1>3. 0 \in T
  <2>1. f[0] = <<c>> /\ Len(f[0]) = 1 /\ f[0][1] = c
    BY <1>1 DEF IsWalk
  <2>2. Late(f[0])
    BY <1>2, <2>1 DEF Contains
  <2>3. Goes(f[0])
    BY <2>1
  <2> HIDE DEF Late, Goes
  <2> QED BY <1>2, <2>1, <2>2, <2>3
<1>4. ASSUME NEW n \in 1..NumChannel, n - 1 \in T PROVE n \in T
  <2> DEFINE s == f[n - 1]
  <2>1. /\ s \in Seq(Channel) /\ Len(s) \in Nat /\ Len(s) >= 1 /\ f[n] = Onward(nx, s)
        /\ s[Len(s)] \in Channel
    BY <1>1, <1>2 DEF IsWalk, Walk
  <2>2. /\ s[1] = c /\ Goes(s) /\ Late(s)
        /\ Len(s) = n \/ nx[s[Len(s)]] = None
    BY <1>4
  <2> DEFINE d == nx[s[Len(s)]]
  <2>3. CASE d = None
    BY <2>1, <2>2, <2>3 DEF Onward, Last
  <2>4. CASE d # None
    <3>1. d \in Channel /\ f[n] = Append(s, d)
      BY <2>1, <2>4 DEF Links, Onward, Last
    <3>2. /\ Len(f[n]) = Len(s) + 1 /\ f[n][Len(s) + 1] = d
          /\ \A i \in 1..Len(s) : f[n][i] = s[i]
      BY <2>1, <3>1
    <3>3. PICK k \in DOMAIN ch : k >= Len(s) /\ ch[k] = s[Len(s)]
      BY <2>2
    <3>4. PICK i, j \in DOMAIN ch : i < j /\ ch[i] = s[Len(s)] /\ ch[j] = d
      BY <2>1, <2>4 DEF Ordered, Before
    <3>5. i = k
      BY <3>3, <3>4 DEF Children, Distinct
    <3>6. Late(f[n])
      BY <1>2, <2>1, <3>2, <3>3, <3>4, <3>5
    <3>7. Goes(f[n])
      <4>1. ASSUME NEW m \in 1..Len(f[n]) - 1 PROVE nx[f[n][m]] = f[n][m + 1]
        <5>1. CASE m = Len(s)
          BY <2>1, <3>2, <5>1
        <5>2. CASE m \in 1..Len(s) - 1
          <6>1. nx[s[m]] = s[m + 1] /\ m \in 1..Len(s) /\ m + 1 \in 1..Len(s)
            BY <2>1, <2>2, <5>2
          <6> QED BY <3>2, <6>1
        <5> QED BY <2>1, <3>2, <5>1, <5>2
      <4> QED BY <4>1
    <3>8. f[n][1] = c /\ Len(f[n]) = n + 1
      BY <2>1, <2>2, <2>4, <3>2
    <3> HIDE DEF Late, Goes
    <3> QED BY <3>6, <3>7, <3>8
  <2> QED BY <2>3, <2>4
<1>5. NumChannel \in T
  <2>1. 0..NumChannel \subseteq T
    <3> HIDE DEF T
    <3> QED BY <1>2, <1>3, <1>4, UpTo
  <2> QED BY <1>2, <2>1
<1> DEFINE s == f[NumChannel]
<1>6. s \in Seq(Channel) /\ Len(s) \in Nat /\ Len(s) >= 1
  BY <1>1, <1>2 DEF IsWalk, Walk
<1>7. Len(s) <= NumChannel
  BY <1>2, <1>5, <1>6
<1> QED BY <1>1, <1>2, <1>5, <1>6, <1>7 DEF Follows

\* What a walk passes is a closed set.
LEMMA ChainClosed ==
  ASSUME NEW ch, Children(ch), NEW nx \in Links, Ordered(ch, nx),
         NEW c \in Channel, Contains(ch, c)
  PROVE  c \in Reached(nx, c) /\ Closed(nx, Reached(nx, c))
<1> DEFINE s == ChainFrom(nx, c)
<1>1. Follows(nx, c, s)
  BY ChainEnds
<1> HIDE DEF s
<1>2. s \in Seq(Channel) /\ Len(s) \in Nat /\ Len(s) >= 1 /\ NumChannel \in Nat /\ s[1] = c
  BY <1>1, ChannelsAre DEF Follows
<1>3. c \in Reached(nx, c)
  BY <1>2 DEF Reached, Contains, s
<1>4. ASSUME NEW d \in Reached(nx, c), nx[d] # None PROVE nx[d] \in Reached(nx, c)
  <2>1. PICK i \in 1..Len(s) : s[i] = d
    BY DEF Reached, Contains, s
  <2>2. i \in 1..Len(s) - 1
    BY <1>1, <1>2, <1>4, <2>1 DEF Follows
  <2>3. nx[d] = s[i + 1] /\ i + 1 \in 1..Len(s) /\ nx[d] \in Channel
    BY <1>1, <1>2, <1>4, <2>1, <2>2 DEF Follows
  <2> QED BY <2>3 DEF Reached, Contains, s
<1> QED BY <1>3, <1>4 DEF Closed

\* A walk stays in any closed set it starts in.
LEMMA ChainLeast ==
  ASSUME NEW ch, Children(ch), NEW nx \in Links, Ordered(ch, nx),
         NEW c \in Channel, Contains(ch, c), NEW S, c \in S, Closed(nx, S)
  PROVE  Reached(nx, c) \subseteq S
<1> DEFINE s == ChainFrom(nx, c)
           T == {i \in 0..Len(s) : i = 0 \/ s[i] \in S}
<1>1. Follows(nx, c, s)
  BY ChainEnds
<1> HIDE DEF s
<1>2. s \in Seq(Channel) /\ Len(s) \in Nat /\ Len(s) >= 1 /\ s[1] = c
  BY <1>1 DEF Follows
<1>3. 0 \in T
  BY <1>2
<1>4. ASSUME NEW i \in 1..Len(s), i - 1 \in T PROVE i \in T
  <2>1. CASE i = 1
    BY <1>2, <2>1
  <2>2. CASE i > 1
    <3> DEFINE k == i - 1
    <3>1. k \in 1..Len(s) - 1 /\ i = k + 1 /\ s[k] \in S
      BY <1>2, <1>4, <2>2
    <3> HIDE DEF k
    <3>2. nx[s[k]] = s[i] /\ s[i] \in Channel
      BY <1>1, <1>2, <3>1 DEF Follows
    <3>3. s[i] # None
      BY <3>2, ChannelsAre
    <3> QED BY <3>1, <3>2, <3>3 DEF Closed
  <2> QED BY <1>2, <2>1, <2>2
<1>5. 0..Len(s) \subseteq T
  <2> HIDE DEF T
  <2> QED BY <1>2, <1>3, <1>4, UpTo
<1>6. \A i \in 1..Len(s) : s[i] \in S
  BY <1>2, <1>5
<1> QED BY <1>6 DEF Reached, Contains, s

-----------------------------------------------------------------------------
(* Chains whose heads are F: taking one away, prolonging one, a new one.   *)

Sound(ch, nx, F) ==
  /\ nx \in Links /\ Ordered(ch, nx) /\ OneParent(nx)
  /\ F \subseteq Channel /\ \A f \in F : Contains(ch, f)
  /\ \A c \in Channel : nx[c] \notin F

\* Whatever is linked is in one of the chains.
Whole(nx, F) ==
  \A c \in Channel :
    c \in F \/ (\E d \in Channel : nx[d] = c) => \E f \in F : c \in Reached(nx, f)

\* The links without those behind the channels of S.
Cut(nx, S) == [c \in Channel |-> IF c \in S THEN None ELSE nx[c]]

LEMMA SoundChain ==
  ASSUME NEW ch, Children(ch), NEW nx, NEW F, Sound(ch, nx, F), NEW f \in F
  PROVE  /\ f \in Channel /\ f \in Reached(nx, f) /\ Closed(nx, Reached(nx, f))
         /\ \A S : f \in S /\ Closed(nx, S) => Reached(nx, f) \subseteq S
<1>1. f \in Channel /\ Contains(ch, f) /\ nx \in Links /\ Ordered(ch, nx)
  BY DEF Sound
<1>2. f \in Reached(nx, f) /\ Closed(nx, Reached(nx, f))
  BY <1>1, ChainClosed
<1>3. ASSUME NEW S, f \in S, Closed(nx, S) PROVE Reached(nx, f) \subseteq S
  BY <1>1, <1>3, ChainLeast
<1> QED BY <1>1, <1>2, <1>3

\* In a chain everything but its head has its parent there.
LEMMA ParentInChain ==
  ASSUME NEW ch, Children(ch), NEW nx, NEW F, Sound(ch, nx, F), NEW f \in F,
         NEW c \in Reached(nx, f), NEW d \in Channel, nx[d] = c
  PROVE  d \in Reached(nx, f)
<1> DEFINE R == Reached(nx, f)
           S == {x \in R : x = f \/ \E e \in R : nx[e] = x}
<1>1. f \in Channel /\ f \in R /\ Closed(nx, R) /\ (f \in S /\ Closed(nx, S) => R \subseteq S)
  BY SoundChain
<1>2. f \in S /\ Closed(nx, S)
  <2> HIDE DEF R
  <2> QED BY <1>1 DEF Closed
<1>3. c = f \/ \E e \in R : nx[e] = c
  BY <1>1, <1>2
<1>4. c # f
  BY DEF Sound
<1>5. PICK e \in R : nx[e] = c
  BY <1>3, <1>4
<1>6. e \in Channel /\ c \in Channel /\ c # None
  BY <1>5, ChannelsAre DEF Reached
<1>7. e = d
  BY <1>5, <1>6 DEF Sound, OneParent
<1> QED BY <1>5, <1>7

\* When every chain is whole, a channel that is linked from nowhere links to none.
LEMMA FreeLinksNone ==
  ASSUME NEW ch, Children(ch), NEW nx, NEW F, Sound(ch, nx, F), Whole(nx, F),
         NEW c \in Channel, c \notin F, \A d \in Channel : nx[d] # c
  PROVE  nx[c] = None
<1> SUFFICES ASSUME nx[c] # None PROVE FALSE
  OBVIOUS
<1>1. nx[c] \in Channel
  BY DEF Sound, Links
<1>2. PICK f \in F : nx[c] \in Reached(nx, f)
  BY <1>1 DEF Whole
<1> DEFINE R == Reached(nx, f)
           S == R \ {c}
<1>3. c \in R
  BY <1>1, <1>2, ParentInChain
<1>4. f \in R /\ Closed(nx, R) /\ (f \in S /\ Closed(nx, S) => R \subseteq S)
  BY SoundChain
<1>5. R \subseteq Channel
  BY DEF Reached
<1>6. f \in S /\ Closed(nx, S)
  <2> HIDE DEF R
  <2> QED BY <1>4, <1>5 DEF Closed
<1> QED BY <1>3, <1>4, <1>6

LEMMA CutKeeps ==
  ASSUME NEW ch, Children(ch), NEW nx, NEW F, Sound(ch, nx, F), NEW f \in F
  PROVE  /\ Sound(ch, Cut(nx, Reached(nx, f)), F \ {f})
         /\ Whole(nx, F) => Whole(Cut(nx, Reached(nx, f)), F \ {f})
<1> DEFINE R == Reached(nx, f)
           cut == Cut(nx, R)
<1>1. /\ nx \in Links /\ Ordered(ch, nx) /\ OneParent(nx)
      /\ F \subseteq Channel /\ \A g \in F : Contains(ch, g)
      /\ \A c \in Channel : nx[c] \notin F
  BY DEF Sound
<1>2. \A c \in Channel : cut[c] = IF c \in R THEN None ELSE nx[c]
  BY DEF Cut
<1>3. cut \in Links
  BY <1>1 DEF Cut, Links
<1>4. None \notin F
  BY <1>1, ChannelsAre
<1>5. Sound(ch, cut, F \ {f})
  <2> HIDE DEF cut, R
  <2>1. Ordered(ch, cut)
    BY <1>1, <1>2 DEF Ordered
  <2>2. OneParent(cut)
    BY <1>1, <1>2 DEF OneParent
  <2> QED BY <1>1, <1>2, <1>3, <1>4, <2>1, <2>2 DEF Sound
<1>6. ASSUME Whole(nx, F), NEW c \in Channel, c \in F \ {f} \/ \E d \in Channel : cut[d] = c
      PROVE  \E g \in F \ {f} : c \in Reached(cut, g)
  <2>1. CASE c \in F \ {f}
    BY <1>5, <2>1, SoundChain
  <2>2. CASE \E d \in Channel : cut[d] = c
    <3>1. PICK d \in Channel : cut[d] = c
      BY <2>2
    <3>2. d \notin R /\ nx[d] = c
      <4> HIDE DEF cut, R
      <4> QED BY <1>2, <3>1, ChannelsAre
    <3>3. PICK g \in F : c \in Reached(nx, g)
      BY <1>6, <3>2 DEF Whole
    <3>4. d \in Reached(nx, g)
      BY <3>2, <3>3, ParentInChain
    <3>5. g # f
      BY <3>2, <3>4
    <3> DEFINE G == Reached(nx, g)
               H == Reached(cut, g)
               S == Channel \ R
    <3>6. /\ g \in Channel /\ g \in G /\ Closed(nx, G)
          /\ \A U : g \in U /\ Closed(nx, U) => G \subseteq U
      BY SoundChain
    <3>7. g \in H /\ Closed(cut, H)
      BY <1>5, <3>5, SoundChain
    <3>8. f \in R /\ Closed(nx, R)
      BY SoundChain
    <3>9. g \notin R
      <4> DEFINE V == {x \in R : x = f \/ \E e \in Channel : nx[e] = x}
      <4>1. R \subseteq Channel
        BY DEF Reached
      <4>2. f \in V /\ Closed(nx, V)
        <5> HIDE DEF R
        <5> QED BY <3>8, <4>1 DEF Closed
      <4>3. R \subseteq V
        BY <4>2, SoundChain
      <4> HIDE DEF R
      <4> QED BY <1>1, <3>5, <4>3
    <3>10. Closed(nx, S)
      <4>1. ASSUME NEW x \in Channel, x \notin R, nx[x] \in R PROVE FALSE
        BY <4>1, ParentInChain
      <4>2. \A x \in Channel : nx[x] \in Channel \cup {None}
        BY <1>1 DEF Links
      <4> HIDE DEF R
      <4> QED BY <4>1, <4>2 DEF Closed
    <3>11. G \subseteq S
      <4> HIDE DEF R, G
      <4> QED BY <3>6, <3>9, <3>10
    <3>12. Closed(nx, G \cap H)
      <4> HIDE DEF R, G, H, cut
      <4> QED BY <1>2, <3>6, <3>7, <3>11 DEF Closed
    <3>13. G \subseteq H
      <4> HIDE DEF G, H
      <4> QED BY <3>6, <3>7, <3>12
    <3> QED BY <3>3, <3>5, <3>13
  <2> QED BY <1>6, <2>1, <2>2
<1>7. Whole(nx, F) => Whole(cut, F \ {f})
  <2> HIDE DEF cut
  <2> QED BY <1>6 DEF Whole
<1> QED BY <1>5, <1>7

\* A channel that is linked from nowhere comes behind an earlier one.
LEMMA LinkKeeps ==
  ASSUME NEW ch, Children(ch), NEW nx, NEW F, Sound(ch, nx, F),
         NEW p \in Channel, nx[p] = None, NEW c \in Channel, Before(ch, p, c),
         c \notin F, \A d \in Channel : nx[d] # c,
         NEW f \in F, p \in Reached(nx, f)
  PROVE  LET new == [nx EXCEPT ![p] = c] IN
         /\ Sound(ch, new, F) /\ c \in Reached(new, f)
         /\ Whole(nx, F) => Whole(new, F)
<1> DEFINE new == [nx EXCEPT ![p] = c]
<1>1. /\ nx \in Links /\ Ordered(ch, nx) /\ OneParent(nx)
      /\ F \subseteq Channel /\ \A g \in F : Contains(ch, g)
      /\ \A d \in Channel : nx[d] \notin F
  BY DEF Sound
<1>2. new \in Links /\ \A d \in Channel : new[d] = IF d = p THEN c ELSE nx[d]
  BY <1>1 DEF Links
<1>3. c # None
  BY ChannelsAre
<1> HIDE DEF new
<1>4. Sound(ch, new, F)
  <2>1. Ordered(ch, new)
    BY <1>1, <1>2 DEF Ordered
  <2>2. OneParent(new)
    BY <1>1, <1>2 DEF OneParent
  <2> QED BY <1>1, <1>2, <2>1, <2>2 DEF Sound
<1>5. ASSUME NEW g \in F PROVE Reached(nx, g) \subseteq Reached(new, g)
  <2> DEFINE H == Reached(new, g)
  <2>1. g \in H /\ Closed(new, H)
    BY <1>4, SoundChain
  <2>2. Closed(nx, H)
    <3>1. H \subseteq Channel
      BY DEF Reached
    <3> HIDE DEF H
    <3> QED BY <1>2, <2>1, <3>1 DEF Closed
  <2> QED BY <2>1, <2>2, SoundChain
<1>6. c \in Reached(new, f)
  <2> DEFINE H == Reached(new, f)
  <2>1. p \in H /\ Closed(new, H)
    BY <1>4, <1>5, SoundChain
  <2> HIDE DEF H
  <2>2. new[p] = c
    BY <1>2
  <2>3. c \in H
    BY <1>3, <2>1, <2>2 DEF Closed
  <2> QED BY <2>3 DEF H
<1>7. Whole(nx, F) => Whole(new, F)
  BY <1>2, <1>5, <1>6 DEF Whole
<1> QED BY <1>4, <1>6, <1>7 DEF new

\* A channel that is linked from nowhere heads a chain of its own.
LEMMA HeadKeeps ==
  ASSUME NEW ch, Children(ch), NEW nx, NEW F, Sound(ch, nx, F), NEW c \in Channel,
         Contains(ch, c), \A d \in Channel : nx[d] # c
  PROVE  /\ Sound(ch, nx, F \cup {c}) /\ c \in Reached(nx, c)
         /\ Whole(nx, F) => Whole(nx, F \cup {c})
<1>1. Sound(ch, nx, F \cup {c})
  BY DEF Sound
<1>2. c \in Reached(nx, c)
  BY <1>1, SoundChain
<1> QED BY <1>1, <1>2 DEF Whole

-----------------------------------------------------------------------------
(* The chains of the requests.                                             *)

Firsts(reqs) == {reqs[i].first : i \in DOMAIN reqs} \ {None}
FirstsApart(reqs) ==
  \A i, j \in DOMAIN reqs : reqs[i].first = reqs[j].first /\ reqs[i].first # None => i = j

\* The invariant of the chains: every walk begins at a request and goes on to
\* later children; unless a channel was deleted, nothing else is linked.
ChainsKept ==
  /\ Children(children)
  /\ requests \in Seq(Request)
  /\ Sound(children, next, Firsts(requests)) /\ FirstsApart(requests)
  /\ changes = 0 => Whole(next, Firsts(requests))

\* Unlinking a request is taking its chain away.
LEMMA UnlinkIs ==
  ASSUME NEW nx \in Links, NEW r \in Request
  PROVE  Unlink(nx, r) = IF r.first = None THEN nx ELSE Cut(nx, Reached(nx, r.first))
<1>1. r.first = None => \A c \in Channel : ~Contains(ChainOf(nx, r), c)
  BY DEF ChainOf, Contains
<1>2. nx = [c \in Channel |-> nx[c]]
  BY DEF Links
<1>3. CASE r.first = None
  BY <1>1, <1>2, <1>3 DEF Unlink
<1>4. CASE r.first # None
  <2>1. \A c \in Channel : Contains(ChainOf(nx, r), c) <=> c \in Reached(nx, r.first)
    BY <1>4 DEF ChainOf, Reached
  <2> QED BY <1>4, <2>1 DEF Unlink, Cut
<1> QED BY <1>3, <1>4

LEMMA UnlinkType ==
  ASSUME NEW nx \in Links, NEW r
  PROVE  Unlink(nx, r) \in Links
BY DEF Unlink, Links

\* So it leaves the other chains as they are.
LEMMA UnlinkKeeps ==
  ASSUME NEW ch, Children(ch), NEW nx, NEW F, Sound(ch, nx, F),
         NEW r \in Request, r.first \in F \cup {None}
  PROVE  /\ Sound(ch, Unlink(nx, r), F \ {r.first})
         /\ Whole(nx, F) => Whole(Unlink(nx, r), F \ {r.first})
<1>1. nx \in Links /\ None \notin F
  BY ChannelsAre DEF Sound
<1>2. CASE r.first = None
  <2>1. F \ {r.first} = F /\ Unlink(nx, r) = nx
    BY <1>1, <1>2, UnlinkIs
  <2> QED BY <2>1
<1>3. CASE r.first # None
  <2>1. r.first \in F /\ Unlink(nx, r) = Cut(nx, Reached(nx, r.first))
    BY <1>1, <1>3, UnlinkIs
  <2> QED BY <2>1, CutKeeps
<1> QED BY <1>2, <1>3

\* What WalksEnd and ChainsWhole say follows.
LEMMA ChainsKeptSound == ChainsKept => WalksEnd /\ ChainsWhole
<1> SUFFICES ASSUME ChainsKept PROVE WalksEnd /\ ChainsWhole
  OBVIOUS
<1> DEFINE F == Firsts(requests)
<1>1. /\ Children(children) /\ requests \in Seq(Request)
      /\ Sound(children, next, F) /\ FirstsApart(requests)
      /\ next \in Links /\ Ordered(children, next) /\ OneParent(next)
      /\ \A f \in F : Contains(children, f)
      /\ \A c \in Channel : next[c] \notin F
  BY DEF ChainsKept, Sound
<1>2. \A c \in Channel, i \in DOMAIN requests : next[c] = requests[i].first => next[c] = None
  BY <1>1 DEF Firsts
<1>3. ASSUME NEW c \in Channel PROVE Len(ChainFrom(next, c)) <= NumChannel
  <2>1. CASE Contains(children, c)
    <3>1. Len(ChainFrom(next, c)) \in 1..NumChannel
      BY <1>1, <2>1, ChainEnds DEF Follows
    <3> QED BY <3>1, ChannelsAre
  <2>2. CASE ~Contains(children, c)
    <3>1. next[c] = None
      BY <1>1, <2>2 DEF Ordered, Before, Contains, Children
    <3>2. PICK f : IsWalk(next, c, f) /\ ChainFrom(next, c) = f[NumChannel]
      BY <1>1, ChainSteps
    <3> DEFINE T == {n \in 0..NumChannel : f[n] = <<c>>}
    <3>3. 0 \in T /\ \A n \in 1..NumChannel : n - 1 \in T => n \in T
      <4>1. Onward(next, <<c>>) = <<c>>
        BY <3>1 DEF Onward, Last
      <4>2. f[0] = <<c>> /\ \A n \in 1..NumChannel : f[n] = Onward(next, f[n - 1])
        BY <3>2 DEF IsWalk
      <4>3. NumChannel \in Nat
        BY ChannelsAre
      <4>4. ASSUME NEW n \in 1..NumChannel, n - 1 \in T PROVE n \in T
        <5>1. f[n - 1] = <<c>>
          BY <4>4
        <5>2. f[n] = Onward(next, <<c>>)
          BY <4>2, <5>1
        <5> QED BY <4>1, <4>3, <5>2
      <4> QED BY <4>2, <4>3, <4>4
    <3>4. 0..NumChannel \subseteq T
      <4> HIDE DEF T
      <4> QED BY <3>3, UpTo, ChannelsAre
    <3>5. ChainFrom(next, c) = <<c>>
      BY <3>2, <3>4, ChannelsAre
    <3> QED BY <3>5, ChannelsAre
  <2> QED BY <2>1, <2>2
<1>4. WalksEnd
  BY <1>1, <1>2, <1>3 DEF WalksEnd, OneParent, FirstsApart
<1>5. ChainsWhole
  <2> SUFFICES ASSUME changes = 0, NEW c \in Channel, Linked(next, requests, c)
               PROVE  \E i \in DOMAIN requests : Contains(ChainOf(next, requests[i]), c)
    BY DEF ChainsWhole
  <2>1. c \in F \/ \E d \in Channel : next[d] = c
    BY ChannelsAre DEF Linked, Firsts
  <2>2. PICK f \in F : c \in Reached(next, f)
    BY <2>1 DEF ChainsKept, Whole
  <2>3. PICK i \in DOMAIN requests : requests[i].first = f /\ f # None
    BY DEF Firsts
  <2> QED BY <2>2, <2>3 DEF Reached, ChainOf
<1> QED BY <1>4, <1>5

-----------------------------------------------------------------------------
(* The foreach over the requests.                                          *)

PurgeState == [next : Links, requests : Seq(Request)]
PurgeStep(s, r) ==
  IF r.late THEN [s EXCEPT !.next = Unlink(@, r)] ELSE [s EXCEPT !.requests = Append(@, r)]
IsPurge(nx, reqs, f) ==
  /\ DOMAIN f = 0..Len(reqs) /\ f[0] = [next |-> nx, requests |-> <<>>]
  /\ \A n \in 1..Len(reqs) : f[n] = PurgeStep(f[n - 1], reqs[n])

LEMMA PurgeStepIs ==
  ASSUME NEW s \in PurgeState, NEW r \in Request
  PROVE  /\ PurgeStep(s, r) \in PurgeState
         /\ r.late => PurgeStep(s, r).next = Unlink(s.next, r) /\ PurgeStep(s, r).requests = s.requests
         /\ ~r.late => PurgeStep(s, r).next = s.next /\ PurgeStep(s, r).requests = Append(s.requests, r)
<1>1. s.next \in Links /\ s.requests \in Seq(Request)
  BY DEF PurgeState
<1>2. CASE r.late
  <2>1. Unlink(s.next, r) \in Links
    BY <1>1, UnlinkType
  <2>2. PurgeStep(s, r) = [next |-> Unlink(s.next, r), requests |-> s.requests]
    BY <1>2 DEF PurgeStep, PurgeState
  <2> QED BY <1>1, <1>2, <2>1, <2>2 DEF PurgeState
<1>3. CASE ~r.late
  <2>1. Append(s.requests, r) \in Seq(Request)
    BY <1>1
  <2>2. PurgeStep(s, r) = [next |-> s.next, requests |-> Append(s.requests, r)]
    BY <1>3 DEF PurgeStep, PurgeState
  <2> QED BY <1>1, <1>3, <2>1, <2>2 DEF PurgeState
<1> QED BY <1>2, <1>3

LEMMA PurgeSteps ==
  ASSUME NEW nx \in Links, NEW reqs \in Seq(Request)
  PROVE  \E f : IsPurge(nx, reqs, f) /\ Purged(nx, reqs) = f[Len(reqs)]
<1> DEFINE L == Len(reqs)
           start == [next |-> nx, requests |-> <<>>]
           step == [p \in PurgeState \X (1..L) |-> PurgeStep(p[1], reqs[p[2]])]
           Is(f) == f = [n \in 0..L |->
                 IF n = 0 THEN [next |-> nx, requests |-> <<>>]
                 ELSE LET s == f[n - 1] IN
                      IF reqs[n].late THEN [s EXCEPT !.next = Unlink(@, reqs[n])]
                                      ELSE [s EXCEPT !.requests = Append(@, reqs[n])]]
           after == CHOOSE f : Is(f)
<1>1. L \in Nat /\ start \in PurgeState /\ \A n \in 1..L : reqs[n] \in Request
  BY DEF PurgeState
<1>2. PICK f : IsIteration(f, PurgeState, start, L, step)
  <2>1. step \in [PurgeState \X (1..L) -> PurgeState]
    BY <1>1, PurgeStepIs
  <2> HIDE DEF step, start, L
  <2> QED BY <1>1, <2>1, Iterates, Zenon
<1>3. Is(f)
  <2>1. f \in [0..L -> PurgeState] /\ f[0] = start
    BY <1>2 DEF IsIteration
  <2>2. ASSUME NEW n \in 1..L PROVE f[n] = PurgeStep(f[n - 1], reqs[n])
    <3>1. n - 1 \in 0..L
      BY <1>1
    <3>2. f[n - 1] \in PurgeState
      BY <2>1, <3>1
    <3>3. f[n] = step[<<f[n - 1], n>>]
      <4> HIDE DEF step
      <4> QED BY <1>2 DEF IsIteration
    <3> HIDE DEF L
    <3> QED BY <3>2, <3>3
  <2>3. \A n \in 0..L : f[n] = IF n = 0 THEN start ELSE PurgeStep(f[n - 1], reqs[n])
    BY <1>1, <2>1, <2>2
  <2> QED BY <2>1, <2>3 DEF PurgeStep
<1>4. Is(after)
  <2> HIDE DEF Is
  <2> QED BY <1>3
<1>5. IsPurge(nx, reqs, after)
  <2>1. DOMAIN after = 0..L /\ \A n \in 0..L :
          after[n] = IF n = 0 THEN start ELSE PurgeStep(after[n - 1], reqs[n])
    <3> HIDE DEF after
    <3> QED BY <1>4 DEF PurgeStep
  <2> HIDE DEF after
  <2> QED BY <1>1, <2>1 DEF IsPurge
<1>6. Purged(nx, reqs) = after[L]
  BY DEF Purged
<1> HIDE DEF after
<1> QED BY <1>5, <1>6

\* The heads of the requests that are left when n have been looked at.
FirstsLeft(reqs, n) == {reqs[i].first : i \in {j \in DOMAIN reqs : j > n \/ ~reqs[j].late}} \ {None}
FirstsKept(reqs, n) == {reqs[i].first : i \in {j \in 1..n : ~reqs[j].late}} \ {None}

\* What the foreach leaves is sound and has lost no chain of a request it keeps.
LEMMA PurgeKeeps ==
  ASSUME NEW ch, Children(ch), NEW nx, NEW reqs \in Seq(Request),
         Sound(ch, nx, Firsts(reqs)), FirstsApart(reqs)
  PROVE  LET p == Purged(nx, reqs) IN
         /\ p.requests \in Seq(Request) /\ FirstsApart(p.requests)
         /\ Sound(ch, p.next, Firsts(p.requests))
         /\ Whole(nx, Firsts(reqs)) => Whole(p.next, Firsts(p.requests))
<1>0. nx \in Links
  BY DEF Sound
<1>1. PICK f : IsPurge(nx, reqs, f) /\ Purged(nx, reqs) = f[Len(reqs)]
  BY <1>0, PurgeSteps
<1> DEFINE L == Len(reqs)
           Good(n, s) ==
             /\ s \in PurgeState /\ FirstsApart(s.requests)
             /\ Firsts(s.requests) = FirstsKept(reqs, n)
             /\ Sound(ch, s.next, FirstsLeft(reqs, n))
             /\ Whole(nx, Firsts(reqs)) => Whole(s.next, FirstsLeft(reqs, n))
           T == {n \in 0..L : Good(n, f[n])}
<1>2. L \in Nat /\ DOMAIN reqs = 1..L /\ \A n \in 1..L : reqs[n] \in Request
  OBVIOUS
<1>3. 0 \in T
  <2>1. f[0].next = nx /\ f[0].requests = <<>> /\ f[0] \in PurgeState
    BY <1>0, <1>1 DEF IsPurge, PurgeState
  <2>2. FirstsLeft(reqs, 0) = Firsts(reqs)
    BY <1>2 DEF FirstsLeft, Firsts
  <2>3. Firsts(<<>>) = FirstsKept(reqs, 0) /\ FirstsApart(<<>>)
    BY DEF FirstsKept, Firsts, FirstsApart
  <2>4. Good(0, f[0])
    BY <2>1, <2>2, <2>3
  <2> HIDE DEF Good
  <2> QED BY <1>2, <2>4
<1>4. ASSUME NEW n \in 1..L, n - 1 \in T PROVE n \in T
  <2> DEFINE k == n - 1
             s == f[k]
             r == reqs[n]
  <2>0. k \in Nat /\ n = k + 1 /\ n > k
    BY <1>2
  <2>1. Good(k, s)
    <3> HIDE DEF Good, s
    <3> QED BY <1>4 DEF s
  <2>2. f[n] = PurgeStep(s, r) /\ r \in Request
    BY <1>1, <1>2 DEF IsPurge
  <2> HIDE DEF k, s
  <2>3. r.first \in FirstsLeft(reqs, k) \cup {None}
    BY <1>2, <2>0 DEF FirstsLeft
  <2>4. \A i \in 1..k : reqs[i].first = r.first => r.first = None
    BY <1>2, <2>0 DEF FirstsApart
  <2>5. CASE r.late
    <3>1. f[n].next = Unlink(s.next, r) /\ f[n].requests = s.requests /\ f[n] \in PurgeState
      BY <2>1, <2>2, <2>5, PurgeStepIs
    <3>2. FirstsLeft(reqs, n) = FirstsLeft(reqs, k) \ {r.first}
      <4>1. ASSUME NEW i \in DOMAIN reqs, i > k \/ ~reqs[i].late, i # n, reqs[i].first # None
            PROVE  reqs[i].first # r.first /\ (i > n \/ ~reqs[i].late)
        BY <1>2, <2>0, <4>1 DEF FirstsApart
      <4> QED BY <1>2, <2>0, <2>5, <4>1 DEF FirstsLeft
    <3>3. FirstsKept(reqs, n) = FirstsKept(reqs, k)
      BY <1>2, <2>0, <2>5 DEF FirstsKept
    <3>4. /\ Sound(ch, Unlink(s.next, r), FirstsLeft(reqs, k) \ {r.first})
          /\ Whole(s.next, FirstsLeft(reqs, k)) =>
               Whole(Unlink(s.next, r), FirstsLeft(reqs, k) \ {r.first})
      BY <2>1, <2>2, <2>3, UnlinkKeeps
    <3>5. Good(n, f[n])
      BY <2>1, <3>1, <3>2, <3>3, <3>4
    <3> HIDE DEF Good
    <3> QED BY <3>5
  <2>6. CASE ~r.late
    <3>1. f[n].next = s.next /\ f[n].requests = Append(s.requests, r) /\ f[n] \in PurgeState
      BY <2>1, <2>2, <2>6, PurgeStepIs
    <3>2. FirstsLeft(reqs, n) = FirstsLeft(reqs, k)
      BY <1>2, <2>0, <2>6 DEF FirstsLeft
    <3>3. FirstsKept(reqs, n) = FirstsKept(reqs, k) \cup ({r.first} \ {None})
      BY <1>2, <2>0, <2>6 DEF FirstsKept
    <3>4. s.requests \in Seq(Request)
      BY <2>1 DEF PurgeState
    <3> DEFINE q == s.requests
               app == Append(q, r)
    <3>5. /\ DOMAIN app = 1..Len(q) + 1 /\ app[Len(q) + 1] = r
          /\ \A i \in 1..Len(q) : app[i] = q[i]
          /\ DOMAIN q = 1..Len(q) /\ Len(q) \in Nat
      BY <2>2, <3>4
    <3> HIDE DEF app, q
    <3>6. Firsts(app) = Firsts(q) \cup ({r.first} \ {None})
      BY <3>5 DEF Firsts
    <3>7. r.first # None => r.first \notin Firsts(q)
      BY <1>2, <2>0, <2>1, <2>4 DEF FirstsKept, q
    <3>8. FirstsApart(q)
      BY <2>1 DEF q
    <3>9. FirstsApart(app)
      BY <3>5, <3>7, <3>8 DEF FirstsApart, Firsts
    <3>10. Firsts(app) = FirstsKept(reqs, n)
      BY <2>1, <3>3, <3>6 DEF q
    <3>11. Good(n, f[n])
      BY <2>1, <3>1, <3>2, <3>9, <3>10 DEF app, q
    <3> HIDE DEF Good
    <3> QED BY <3>11
  <2> QED BY <2>5, <2>6
<1>5. Good(L, f[L])
  <2>1. 0..L \subseteq T
    <3> HIDE DEF T
    <3> QED BY <1>2, <1>3, <1>4, UpTo
  <2> HIDE DEF Good
  <2> QED BY <1>2, <2>1
<1>6. FirstsKept(reqs, L) = FirstsLeft(reqs, L)
  BY <1>2 DEF FirstsKept, FirstsLeft
<1> QED BY <1>1, <1>5, <1>6 DEF PurgeState

-----------------------------------------------------------------------------
(* The loop over the channels.                                             *)

OneOrNone == {<<>>} \cup {<<r>> : r \in Request}
ScanState == [next : Links, req : OneOrNone, prev : Channel \cup {None}, broken : BOOLEAN]

\* The request that a visit adds to, and the channel before.
TheRequest(s, c) ==
  IF s.req = <<>> THEN [id |-> requestId, start |-> NoStart, items |-> 0,
                        first |-> c, late |-> TRUE]
  ELSE s.req[1]
ThePrevious(s, c) == IF s.req = <<>> THEN c ELSE s.prev

LEMMA OneOrNoneIs ==
  ASSUME NEW q \in OneOrNone
  PROVE  /\ q \in Seq(Request)
         /\ q = <<>> \/ (Len(q) = 1 /\ q[1] \in Request /\ q = <<q[1]>>)
<1>1. CASE q = <<>>
  BY <1>1
<1>2. CASE q # <<>>
  <2>1. PICK r \in Request : q = <<r>>
    BY <1>2 DEF OneOrNone
  <2>2. Len(<<r>>) = 1 /\ <<r>>[1] = r /\ <<r>> \in Seq(Request)
    OBVIOUS
  <2> QED BY <2>1, <2>2, Zenon
<1> QED BY <1>1, <1>2

\* The range of a request grows; nothing else about it changes.
LEMMA AddItemIs ==
  ASSUME NEW r \in Request, NEW a \in Nat
  PROVE  /\ AddItem(r, a) \in Request /\ AddItem(r, a).start \in Nat
         /\ AddItem(r, a).first = r.first /\ AddItem(r, a).id = r.id
<1>1. /\ r.items \in Nat /\ r.start \in Nat \cup {NoStart} /\ NoStart \notin Nat
      /\ r = [id |-> r.id, start |-> r.start, items |-> r.items, first |-> r.first, late |-> r.late]
  BY DEF Request, NoStart
<1>2. CASE r.start = NoStart
  BY <1>1, <1>2 DEF AddItem, Request
<1>3. CASE r.start # NoStart
  <2>1. r.start \in Nat
    BY <1>1, <1>3
  <2>2. CASE a < r.start
    <3>1. r.items + (r.start - a) + 1 \in Nat
      BY <1>1, <2>1, <2>2
    <3> QED BY <1>1, <1>3, <2>1, <2>2, <3>1 DEF AddItem, Request
  <2>3. CASE ~(a < r.start) /\ a >= r.start + r.items
    <3>1. (a - r.start) + 1 \in Nat
      BY <1>1, <2>1, <2>3
    <3> QED BY <1>1, <1>3, <2>1, <2>3, <3>1 DEF AddItem, Request
  <2>4. CASE ~(a < r.start) /\ ~(a >= r.start + r.items)
    BY <1>3, <2>1, <2>4 DEF AddItem
  <2> QED BY <2>2, <2>3, <2>4
<1> QED BY <1>2, <1>3

InRange(r, a) == r.start <= a /\ a < r.start + r.items

\* It takes the new address in and loses none.
LEMMA RangeGrows ==
  ASSUME NEW r \in Request, NEW a \in Nat
  PROVE  /\ InRange(AddItem(r, a), a)
         /\ r.start # NoStart =>
              \A b \in Nat : InRange(r, b) => InRange(AddItem(r, a), b)
<1>1. /\ r.items \in Nat /\ r.start \in Nat \cup {NoStart}
      /\ r = [id |-> r.id, start |-> r.start, items |-> r.items, first |-> r.first, late |-> r.late]
  BY DEF Request
<1> DEFINE With(b, i) == [id |-> r.id, start |-> b, items |-> i, first |-> r.first, late |-> r.late]
<1>2. CASE r.start = NoStart
  <2>1. AddItem(r, a) = With(a, 1)
    BY <1>1, <1>2 DEF AddItem
  <2> QED BY <1>2, <2>1 DEF InRange
<1>3. CASE r.start # NoStart
  <2>1. r.start \in Nat
    BY <1>1, <1>3
  <2>2. CASE a < r.start
    <3>1. AddItem(r, a) = With(a, r.items + (r.start - a) + 1)
      BY <1>1, <1>3, <2>2 DEF AddItem
    <3> QED BY <1>1, <2>1, <2>2, <3>1 DEF InRange
  <2>3. CASE ~(a < r.start) /\ a >= r.start + r.items
    <3>1. AddItem(r, a) = With(r.start, (a - r.start) + 1)
      BY <1>1, <1>3, <2>3 DEF AddItem
    <3> QED BY <1>1, <2>1, <2>3, <3>1 DEF InRange
  <2>4. CASE ~(a < r.start) /\ ~(a >= r.start + r.items)
    <3>1. AddItem(r, a) = r
      BY <1>3, <2>4 DEF AddItem
    <3> QED BY <1>1, <2>1, <2>4, <3>1 DEF InRange
  <2> QED BY <2>2, <2>3, <2>4
<1> QED BY <1>2, <1>3

LEMMA AddressType == \A c \in Channel : AddressOf[c] \in Nat
BY ChannelAssumption, SizeAssumption

\* The four outcomes of a visit.
LEMMA VisitIs ==
  ASSUME requestId \in 0..IdWrap - 1, NEW reqs, NEW s \in ScanState, NEW c \in Channel
  PROVE  LET r == TheRequest(s, c)
             p == ThePrevious(s, c)
             more == <<AddItem(r, AddressOf[c])>>
         IN /\ r \in Request /\ p \in Channel \cup {None} /\ more \in OneOrNone
            /\ Visit(reqs, s, c) \in ScanState
            /\ \/ Visit(reqs, s, c) = s
               \/ /\ ~Linked(s.next, reqs \o s.req, c)
                  /\ \/ /\ s.req # <<>> /\ Visit(reqs, s, c) = s
                     \/ /\ p # c /\ s.next[p] # None
                        /\ Visit(reqs, s, c) = [next |-> s.next, req |-> more, prev |-> p, broken |-> TRUE]
                     \/ /\ p = c \/ s.next[p] = None
                        /\ Visit(reqs, s, c) = [next |-> IF p = c THEN s.next ELSE [s.next EXCEPT ![p] = c],
                                                req |-> more, prev |-> c, broken |-> s.broken]
<1> DEFINE r == TheRequest(s, c)
           p == ThePrevious(s, c)
           more == <<AddItem(r, AddressOf[c])>>
           v == Visit(reqs, s, c)
<1>1. /\ s.next \in Links /\ s.req \in OneOrNone /\ s.prev \in Channel \cup {None}
      /\ s.broken \in BOOLEAN
      /\ s = [next |-> s.next, req |-> s.req, prev |-> s.prev, broken |-> s.broken]
  BY DEF ScanState
<1>2. r \in Request
  <2>1. CASE s.req = <<>>
    BY <2>1 DEF TheRequest, Request
  <2>2. CASE s.req # <<>>
    BY <1>1, <2>2, OneOrNoneIs DEF TheRequest
  <2> QED BY <2>1, <2>2
<1>3. p \in Channel \cup {None}
  BY <1>1 DEF ThePrevious
<1>4. more \in OneOrNone
  <2>1. AddItem(r, AddressOf[c]) \in Request
    <3> HIDE DEF r
    <3> QED BY <1>2, AddItemIs, AddressType
  <2> HIDE DEF r
  <2> QED BY <2>1 DEF OneOrNone
<1>5. CASE s.broken \/ Linked(s.next, reqs \o s.req, c)
  <2>1. v = s
    BY <1>5 DEF Visit
  <2> HIDE DEF v, r, p, more
  <2> QED BY <1>2, <1>3, <1>4, <2>1 DEF r, p, more, v
<1>6. CASE ~s.broken /\ ~Linked(s.next, reqs \o s.req, c)
  <2>1. v = IF ~InWindow(r, AddressOf[c], Limit)
            THEN [s EXCEPT !.req = <<r>>, !.prev = p]
            ELSE IF p # c /\ s.next[p] # None
            THEN [s EXCEPT !.req = more, !.broken = TRUE, !.prev = s.prev]
            ELSE [s EXCEPT !.req = more, !.prev = c,
                           !.next = IF p = c THEN @ ELSE [@ EXCEPT ![p] = c]]
    BY <1>1, <1>6 DEF Visit, TheRequest, ThePrevious
  <2>2. CASE ~InWindow(r, AddressOf[c], Limit)
    <3>1. r.start # NoStart
      BY <2>2 DEF InWindow
    <3>2. s.req # <<>>
      BY <3>1 DEF TheRequest
    <3>3. <<r>> = s.req /\ p = s.prev
      BY <1>1, <3>2, OneOrNoneIs DEF TheRequest, ThePrevious
    <3> HIDE DEF r, p, more, v
    <3>4. v = s
      BY <1>1, <2>1, <2>2, <3>3
    <3> QED BY <1>2, <1>3, <1>4, <1>6, <3>2, <3>4 DEF r, p, more, v
  <2>3. CASE InWindow(r, AddressOf[c], Limit) /\ p # c /\ s.next[p] # None
    <3>1. p = s.prev
      BY <2>3 DEF ThePrevious
    <3> HIDE DEF r, p, more, v
    <3>2. v = [next |-> s.next, req |-> more, prev |-> p, broken |-> TRUE]
      BY <1>1, <2>1, <2>3, <3>1
    <3>3. v \in ScanState
      BY <1>1, <1>3, <1>4, <3>2 DEF ScanState
    <3> QED BY <1>2, <1>3, <1>4, <1>6, <2>3, <3>2, <3>3 DEF r, p, more, v
  <2>4. CASE InWindow(r, AddressOf[c], Limit) /\ (p = c \/ s.next[p] = None)
    <3> DEFINE nx == IF p = c THEN s.next ELSE [s.next EXCEPT ![p] = c]
    <3> HIDE DEF r, p, more, v
    <3>1. nx \in Links
      BY <1>1 DEF Links
    <3>2. v = [next |-> nx, req |-> more, prev |-> c, broken |-> s.broken]
      BY <1>1, <2>1, <2>4
    <3>3. v \in ScanState
      <4> HIDE DEF nx
      <4> QED BY <1>1, <1>4, <3>1, <3>2 DEF ScanState
    <3> QED BY <1>2, <1>3, <1>4, <1>6, <2>4, <3>2, <3>3 DEF r, p, more, v
  <2> QED BY <2>2, <2>3, <2>4
<1> QED BY <1>5, <1>6

\* Linked, with the heads as a set.
LEMMA LinkedIs ==
  ASSUME NEW nx, NEW reqs \in Seq(Request), NEW q \in OneOrNone, NEW c \in Channel
  PROVE  /\ Firsts(reqs \o q) = Firsts(reqs) \cup Firsts(q)
         /\ Linked(nx, reqs \o q, c) <=>
              c \in Firsts(reqs) \cup Firsts(q) \/ \E d \in Channel : nx[d] = c
<1>1. q \in Seq(Request)
  BY OneOrNoneIs
<1> DEFINE both == reqs \o q
<1>2. /\ DOMAIN both = 1..Len(reqs) + Len(q)
      /\ \A i \in 1..Len(reqs) + Len(q) :
           both[i] = IF i <= Len(reqs) THEN reqs[i] ELSE q[i - Len(reqs)]
      /\ Len(reqs) \in Nat /\ Len(q) \in Nat /\ DOMAIN reqs = 1..Len(reqs) /\ DOMAIN q = 1..Len(q)
  BY <1>1
<1> HIDE DEF both
<1>3. \A i \in DOMAIN reqs : i \in DOMAIN both /\ both[i] = reqs[i]
  BY <1>2
<1>4. \A i \in DOMAIN q : i + Len(reqs) \in DOMAIN both /\ both[i + Len(reqs)] = q[i]
  BY <1>2
<1>5. \A i \in DOMAIN both : \/ i \in DOMAIN reqs /\ both[i] = reqs[i]
                             \/ i - Len(reqs) \in DOMAIN q /\ both[i] = q[i - Len(reqs)]
  BY <1>2
<1>6. Firsts(both) = Firsts(reqs) \cup Firsts(q)
  BY <1>3, <1>4, <1>5 DEF Firsts
<1>7. c \in Firsts(both) <=> \E i \in DOMAIN both : both[i].first = c
  BY ChannelsAre DEF Firsts
<1> QED BY <1>6, <1>7 DEF Linked, both

\* The request in the making: a chain from its head to the channel linked last,
\* which has been visited.
Filling(s, reqs, n) ==
  s.req # <<>> =>
    /\ s.req[1].first \in Channel /\ s.req[1].first \notin Firsts(reqs)
    /\ s.req[1].id = requestId /\ s.req[1].start \in Nat
    /\ s.prev \in Reached(s.next, s.req[1].first)
    /\ \E i \in 1..n : children[i] = s.prev

\* The range of the request covers its chain.
Covers(s) ==
  s.req # <<>> => \A c \in Reached(s.next, s.req[1].first) : InRange(s.req[1], AddressOf[c])

ScanKept(nx, s, reqs, n) ==
  /\ s \in ScanState
  /\ Sound(children, s.next, Firsts(reqs) \cup Firsts(s.req))
  /\ Whole(nx, Firsts(reqs)) => Whole(s.next, Firsts(reqs) \cup Firsts(s.req)) /\ Covers(s)
  /\ Filling(s, reqs, n)

LEMMA FirstsOne ==
  /\ Firsts(<<>>) = {}
  /\ \A r \in Request : r.first \in Channel => Firsts(<<r>>) = {r.first}
BY ChannelsAre DEF Firsts

LEMMA VisitKeeps ==
  ASSUME Children(children), requestId \in 0..IdWrap - 1, NEW nx, NEW reqs \in Seq(Request),
         NEW n \in 1..Len(children), NEW s, ScanKept(nx, s, reqs, n - 1)
  PROVE  ScanKept(nx, Visit(reqs, s, children[n]), reqs, n)
<1> DEFINE c == children[n]
           r == TheRequest(s, c)
           p == ThePrevious(s, c)
           a == AddItem(r, AddressOf[c])
           v == Visit(reqs, s, c)
           F == Firsts(reqs) \cup Firsts(s.req)
<1>1. /\ children \in Seq(Channel) /\ c \in Channel /\ Contains(children, c)
      /\ Len(children) \in Nat /\ \A i \in 1..n - 1 : i \in DOMAIN children /\ i < n
  BY DEF Children, Contains
<1>2. /\ s \in ScanState /\ s.next \in Links /\ s.req \in OneOrNone
      /\ Sound(children, s.next, F)
      /\ Whole(nx, Firsts(reqs)) => Whole(s.next, F) /\ Covers(s)
      /\ Filling(s, reqs, n - 1)
  BY DEF ScanKept, ScanState
<1>3. Filling(s, reqs, n)
  BY <1>1, <1>2 DEF Filling
<1>4. CASE v = s
  BY <1>2, <1>3, <1>4 DEF ScanKept
<1>5. CASE v # s
  <2>1. /\ r \in Request /\ v \in ScanState /\ ~Linked(s.next, reqs \o s.req, c)
        /\ \/ /\ p # c /\ s.next[p] # None
              /\ v = [next |-> s.next, req |-> <<a>>, prev |-> p, broken |-> TRUE]
           \/ /\ p = c \/ s.next[p] = None
              /\ v = [next |-> IF p = c THEN s.next ELSE [s.next EXCEPT ![p] = c],
                      req |-> <<a>>, prev |-> c, broken |-> s.broken]
    <3> HIDE DEF c
    <3> QED BY <1>1, <1>2, <1>5, VisitIs
  <2>2. c \notin F /\ \A d \in Channel : s.next[d] # c
    BY <1>1, <1>2, <2>1, LinkedIs
  <2>3. a \in Request /\ a.start \in Nat /\ a.first = r.first /\ a.id = r.id
    BY <1>1, <2>1, AddItemIs, AddressType
  <2>6. /\ InRange(a, AddressOf[c])
        /\ r.start \in Nat => \A d \in Channel : InRange(r, AddressOf[d]) => InRange(a, AddressOf[d])
    <3>1. r.start \in Nat => r.start # NoStart
      BY DEF NoStart
    <3> HIDE DEF r
    <3> QED BY <1>1, <2>1, <3>1, RangeGrows, AddressType
  <2>7. Whole(nx, Firsts(reqs)) => s.next[c] = None
    BY <1>1, <1>2, <2>2, FreeLinksNone
  <2>4. CASE s.req = <<>>
    <3>1. p = c /\ r.first = c /\ r.id = requestId
      BY <2>4 DEF TheRequest, ThePrevious
    <3>2. v.next = s.next /\ v.req = <<a>> /\ v.prev = c
      BY <2>1, <3>1
    <3>3. F = Firsts(reqs) /\ Firsts(<<a>>) = {c}
      BY <1>1, <2>3, <2>4, <3>1, FirstsOne
    <3>4. /\ Sound(children, s.next, F \cup {c}) /\ c \in Reached(s.next, c)
          /\ Whole(s.next, F) => Whole(s.next, F \cup {c})
      BY <1>1, <1>2, <2>2, HeadKeeps
    <3>5. /\ <<a>>[1] = a /\ a.first = c /\ a.id = requestId /\ c \notin Firsts(reqs)
          /\ n \in 1..n
      BY <1>1, <2>2, <2>3, <3>1, <3>3
    <3>6. Filling(v, reqs, n)
      <4> HIDE DEF v, a
      <4> QED BY <1>1, <2>3, <3>2, <3>4, <3>5 DEF Filling, c
    <3>8. ASSUME Whole(nx, Firsts(reqs)) PROVE Covers(v)
      <4>1. Closed(s.next, {c})
        BY <2>7, <3>8 DEF Closed
      <4>2. Reached(s.next, c) \subseteq {c}
        BY <3>4, <4>1, SoundChain
      <4> HIDE DEF v, a
      <4> QED BY <2>6, <3>2, <3>5, <4>2 DEF Covers
    <3>7. ScanKept(nx, v, reqs, n)
      <4> HIDE DEF v, a
      <4> QED BY <1>2, <2>1, <3>2, <3>3, <3>4, <3>6, <3>8 DEF ScanKept
    <3> QED BY <3>7
  <2>5. CASE s.req # <<>>
    <3> DEFINE f == s.req[1].first
    <3>1. /\ p = s.prev /\ r = s.req[1] /\ f \in Channel /\ f \notin Firsts(reqs)
          /\ r.id = requestId /\ r.start \in Nat /\ p \in Reached(s.next, f)
          /\ s.req = <<s.req[1]>>
      BY <1>2, <2>5, OneOrNoneIs DEF Filling, TheRequest, ThePrevious
    <3>2. PICK i \in 1..n - 1 : children[i] = p
      BY <1>2, <2>5, <3>1 DEF Filling
    <3>3. Before(children, p, c) /\ p # c
      BY <1>1, <3>2 DEF Before, Children, Distinct
    <3>4. Firsts(<<a>>) = {f} /\ Firsts(s.req) = {f} /\ f \in F
      <4>1. Firsts(<<s.req[1]>>) = {f}
        BY <2>1, <3>1, FirstsOne
      <4>2. Firsts(<<a>>) = {f}
        BY <2>3, <3>1, FirstsOne
      <4> QED BY <3>1, <4>1, <4>2
    <3>5. <<a>>[1] = a /\ a.first = f /\ a.id = requestId
      BY <2>3, <3>1
    <3>8. Whole(nx, Firsts(reqs)) => \A d \in Reached(s.next, f) : InRange(a, AddressOf[d])
      <4> HIDE DEF a
      <4> QED BY <1>2, <2>5, <2>6, <3>1 DEF Covers, Reached
    <3>6. CASE s.next[p] # None
      <4>1. v.next = s.next /\ v.req = <<a>> /\ v.prev = p
        BY <2>1, <3>3, <3>6
      <4>2. Filling(v, reqs, n)
        <5> HIDE DEF v, a
        <5>1. i \in 1..n
          BY <1>1
        <5> QED BY <2>3, <3>1, <3>2, <3>5, <4>1, <5>1 DEF Filling
      <4>3. Whole(nx, Firsts(reqs)) => Covers(v)
        <5> HIDE DEF v, a
        <5> QED BY <3>5, <3>8, <4>1 DEF Covers
      <4>4. ScanKept(nx, v, reqs, n)
        <5> HIDE DEF v, a
        <5> QED BY <1>2, <2>1, <3>4, <4>1, <4>2, <4>3 DEF ScanKept
      <4> QED BY <4>4
    <3>7. CASE s.next[p] = None
      <4> DEFINE new == [s.next EXCEPT ![p] = c]
      <4>1. v.next = new /\ v.req = <<a>> /\ v.prev = c
        BY <2>1, <3>3, <3>7
      <4>2. p \in Channel
        BY <3>1 DEF Reached
      <4>3. /\ Sound(children, new, F) /\ c \in Reached(new, f)
            /\ Whole(s.next, F) => Whole(new, F)
        BY <1>1, <1>2, <2>2, <3>1, <3>3, <3>4, <3>7, <4>2, LinkKeeps
      <4>4. Filling(v, reqs, n)
        <5> HIDE DEF v, a, new
        <5> QED BY <1>1, <2>3, <3>1, <3>5, <4>1, <4>3 DEF Filling, c
      <4>5. ASSUME Whole(nx, Firsts(reqs)) PROVE Covers(v)
        <5> DEFINE R == Reached(s.next, f)
        <5>1. f \in R /\ Closed(s.next, R)
          BY <1>2, <3>4, SoundChain
        <5>2. \A d \in Channel : new[d] = IF d = p THEN c ELSE s.next[d]
          BY <1>2 DEF Links
        <5>3. R \subseteq Channel
          BY DEF Reached
        <5>4. Closed(new, R \cup {c})
          <6> HIDE DEF R, new
          <6> QED BY <1>1, <2>7, <3>3, <4>5, <5>1, <5>2, <5>3 DEF Closed
        <5>5. Reached(new, f) \subseteq R \cup {c}
          <6> HIDE DEF R, new
          <6> QED BY <3>4, <4>3, <5>1, <5>4, SoundChain
        <5> HIDE DEF v, a, new
        <5> QED BY <2>6, <3>5, <3>8, <4>1, <4>5, <5>5 DEF Covers
      <4>6. ScanKept(nx, v, reqs, n)
        <5> HIDE DEF v, a, new
        <5> QED BY <1>2, <2>1, <3>4, <4>1, <4>3, <4>4, <4>5 DEF ScanKept
      <4> QED BY <4>6
    <3> QED BY <3>6, <3>7
  <2> QED BY <2>4, <2>5
<1> QED BY <1>4, <1>5

LEMMA ScanKeeps ==
  ASSUME Children(children), requestId \in 0..IdWrap - 1, NEW nx, NEW reqs \in Seq(Request),
         Sound(children, nx, Firsts(reqs))
  PROVE  ScanKept(nx, Scanned(reqs, nx), reqs, Len(children))
<1> DEFINE L == Len(children)
           start == [next |-> nx, req |-> <<>>, prev |-> None, broken |-> FALSE]
           step == [p \in ScanState \X (1..L) |-> Visit(reqs, p[1], children[p[2]])]
           Is(f) == f = [n \in 0..L |->
                 IF n = 0 THEN [next |-> nx, req |-> <<>>, prev |-> None, broken |-> FALSE]
                 ELSE Visit(reqs, f[n - 1], children[n])]
           after == CHOOSE f : Is(f)
           T == {n \in 0..L : ScanKept(nx, after[n], reqs, n)}
<1>1. L \in Nat /\ \A n \in 1..L : children[n] \in Channel
  BY DEF Children
<1>2. nx \in Links /\ start \in ScanState
  BY DEF Sound, ScanState, OneOrNone
<1>3. PICK f : IsIteration(f, ScanState, start, L, step)
  <2>1. \A s \in ScanState, n \in 1..L : Visit(reqs, s, children[n]) \in ScanState
    BY <1>1, VisitIs
  <2>2. step \in [ScanState \X (1..L) -> ScanState]
    BY <2>1
  <2> HIDE DEF step, start, L
  <2> QED BY <1>1, <1>2, <2>2, Iterates, Zenon
<1>4. Is(f)
  <2>1. f \in [0..L -> ScanState] /\ f[0] = start
    BY <1>3 DEF IsIteration
  <2>2. ASSUME NEW n \in 1..L PROVE f[n] = Visit(reqs, f[n - 1], children[n])
    <3>1. n - 1 \in 0..L
      BY <1>1
    <3>2. f[n - 1] \in ScanState
      BY <2>1, <3>1
    <3>3. f[n] = step[<<f[n - 1], n>>]
      <4> HIDE DEF step
      <4> QED BY <1>3 DEF IsIteration
    <3> HIDE DEF L
    <3> QED BY <3>2, <3>3
  <2>3. \A n \in 0..L : f[n] = IF n = 0 THEN start ELSE Visit(reqs, f[n - 1], children[n])
    BY <1>1, <2>1, <2>2
  <2> QED BY <2>1, <2>3
<1>5. Is(after)
  <2> HIDE DEF Is
  <2> QED BY <1>4
<1>6. \A n \in 0..L : after[n] = IF n = 0 THEN start ELSE Visit(reqs, after[n - 1], children[n])
  <2> HIDE DEF after
  <2> QED BY <1>5
<1> HIDE DEF after
<1>7. 0 \in T
  <2>1. after[0] = start /\ start.next = nx /\ start.req = <<>>
    <3>1. 0 \in 0..L
      BY <1>1
    <3> HIDE DEF L
    <3> QED BY <1>6, <3>1
  <2>2. Firsts(reqs) \cup Firsts(<<>>) = Firsts(reqs)
    BY FirstsOne
  <2>3. ScanKept(nx, start, reqs, 0)
    <3> HIDE DEF start
    <3> QED BY <1>2, <2>1, <2>2 DEF ScanKept, Filling, Covers
  <2> HIDE DEF start
  <2> QED BY <1>1, <2>1, <2>3
<1>8. ASSUME NEW n \in 1..L, n - 1 \in T PROVE n \in T
  <2>1. ScanKept(nx, after[n - 1], reqs, n - 1) /\ after[n] = Visit(reqs, after[n - 1], children[n])
    BY <1>1, <1>6, <1>8
  <2>2. ScanKept(nx, Visit(reqs, after[n - 1], children[n]), reqs, n)
    BY <2>1, VisitKeeps
  <2> QED BY <2>1, <2>2
<1>9. L \in T
  <2>1. 0..L \subseteq T
    <3> HIDE DEF T
    <3> QED BY <1>1, <1>7, <1>8, UpTo
  <2> QED BY <1>1, <2>1
<1>10. Scanned(reqs, nx) = after[L]
  BY DEF Scanned, after
<1> QED BY <1>9, <1>10

-----------------------------------------------------------------------------
(* typemethod.                                                             *)

\* typemethod leaves the chains sound, and what it sends goes behind a request
\* whose chain consists of children.
LEMMA ExecuteChains ==
  ASSUME ChainsKept, requestId \in 0..IdWrap - 1, Execute
  PROVE  /\ ChainsKept'
         /\ requests' \in Seq(Request)
         /\ \/ UNCHANGED <<pc, requestId, error, errorLink, toDevice>>
            \/ \E r \in Request, nx \in Links :
                 /\ r.id = requestId /\ r.start \in Nat /\ r.first \in Channel
                 /\ requestId' = (requestId + 1) % IdWrap
                 /\ Ordered(children, nx) /\ Contains(children, r.first)
                 /\ changes = 0 => \A c \in Channel :
                      Contains(ChainOf(nx, r), c) => InRange(r, AddressOf[c])
                 /\ Send(r, ChainOf(nx, r))
<1> DEFINE purged == Purged(next, requests)
           kept == purged.requests
           s == Scanned(kept, purged.next)
<1>1. /\ Children(children) /\ requests \in Seq(Request)
      /\ Sound(children, next, Firsts(requests)) /\ FirstsApart(requests)
      /\ changes = 0 => Whole(next, Firsts(requests))
  BY DEF ChainsKept
<1>2. /\ next' = s.next /\ children' = children /\ changes' = changes
      /\ \/ /\ s.req = <<>> /\ requests' = kept
            /\ UNCHANGED <<pc, requestId, error, errorLink, toDevice>>
         \/ /\ s.req # <<>> /\ requests' = Append(kept, [s.req[1] EXCEPT !.late = FALSE])
            /\ requestId' = (requestId + 1) % IdWrap
            /\ Send(s.req[1], ChainOf(s.next, s.req[1]))
  BY DEF Execute
<1>3. /\ kept \in Seq(Request) /\ FirstsApart(kept)
      /\ Sound(children, purged.next, Firsts(kept))
      /\ changes = 0 => Whole(purged.next, Firsts(kept))
  BY <1>1, PurgeKeeps
<1> HIDE DEF purged, kept
<1>4. ScanKept(purged.next, s, kept, Len(children))
  BY <1>1, <1>3, ScanKeeps
<1> HIDE DEF s
<1> DEFINE F == Firsts(kept) \cup Firsts(s.req)
<1>5. /\ s \in ScanState /\ s.next \in Links /\ s.req \in OneOrNone
      /\ Sound(children, s.next, F) /\ (changes = 0 => Whole(s.next, F) /\ Covers(s))
      /\ Filling(s, kept, Len(children))
  BY <1>3, <1>4 DEF ScanKept, ScanState
<1>6. CASE s.req = <<>>
  <2>1. F = Firsts(kept)
    BY <1>6, FirstsOne
  <2>2. requests' = kept /\ UNCHANGED <<pc, requestId, error, errorLink, toDevice>>
    BY <1>2, <1>6
  <2>3. ChainsKept'
    BY <1>1, <1>2, <1>3, <1>5, <2>1, <2>2 DEF ChainsKept
  <2> QED BY <1>3, <2>2, <2>3
<1>7. CASE s.req # <<>>
  <2> DEFINE r == s.req[1]
             q == [r EXCEPT !.late = FALSE]
             app == Append(kept, q)
  <2>1. /\ r \in Request /\ r.first \in Channel /\ r.first \notin Firsts(kept)
        /\ r.id = requestId /\ r.start \in Nat /\ s.req = <<r>>
    BY <1>5, <1>7, OneOrNoneIs DEF Filling
  <2> HIDE DEF r
  <2>2. q \in Request /\ q.first = r.first
    BY <2>1 DEF Request
  <2> HIDE DEF q
  <2>3. /\ app \in Seq(Request) /\ DOMAIN app = 1..Len(kept) + 1 /\ app[Len(kept) + 1] = q
        /\ \A i \in 1..Len(kept) : app[i] = kept[i]
        /\ Len(kept) \in Nat /\ DOMAIN kept = 1..Len(kept)
    BY <1>3, <2>2
  <2>4. requests' = app /\ requestId' = (requestId + 1) % IdWrap /\ Send(r, ChainOf(s.next, r))
    BY <1>2, <1>7 DEF r, q
  <2> HIDE DEF app
  <2>5. Firsts(s.req) = {r.first}
    BY <2>1, FirstsOne
  <2>6. Firsts(app) = F
    <3>1. Firsts(app) = Firsts(kept) \cup {r.first}
      BY <2>1, <2>2, <2>3, ChannelsAre DEF Firsts
    <3> QED BY <2>5, <3>1
  <2>7. FirstsApart(app)
    BY <1>3, <2>1, <2>2, <2>3 DEF FirstsApart, Firsts
  <2>8. ChainsKept'
    BY <1>1, <1>2, <1>5, <2>3, <2>4, <2>6, <2>7 DEF ChainsKept
  <2>9. Ordered(children, s.next) /\ Contains(children, r.first)
    BY <1>5, <2>5 DEF Sound
  <2>10. ASSUME changes = 0, NEW c \in Channel, Contains(ChainOf(s.next, r), c)
         PROVE  InRange(r, AddressOf[c])
    <3>1. c \in Reached(s.next, r.first)
      BY <2>1, <2>10, ChannelsAre DEF ChainOf, Reached
    <3> QED BY <1>5, <1>7, <2>10, <3>1 DEF Covers, r
  <2> QED BY <1>5, <2>1, <2>3, <2>4, <2>8, <2>9, <2>10
<1> QED BY <1>6, <1>7

-----------------------------------------------------------------------------
(* HandleData.                                                             *)

Byte == 0..255

LEMMA RemoveAtIs ==
  ASSUME NEW S, NEW s \in Seq(S), NEW i \in 1..Len(s)
  PROVE  /\ RemoveAt(s, i) \in Seq(S)
         /\ Len(RemoveAt(s, i)) = Len(s) - 1
         /\ \A k \in 1..Len(s) - 1 : RemoveAt(s, i)[k] = IF k < i THEN s[k] ELSE s[k + 1]
<1> DEFINE a == SubSeq(s, 1, i - 1)
           b == SubSeq(s, i + 1, Len(s))
<1>1. Len(s) \in Nat /\ \A k \in 1..Len(s) : s[k] \in S
  OBVIOUS
<1>2. /\ a \in Seq(S) /\ Len(a) = i - 1 /\ \A k \in 1..i - 1 : a[k] = s[k]
  <2>1. \A k \in 1..i - 1 : s[k] \in S
    BY <1>1
  <2>2. 1 \in Int /\ i - 1 \in Int
    BY <1>1
  <2>3. /\ a \in Seq(S) /\ Len(a) = (IF 1 <= i - 1 THEN i - 1 - 1 + 1 ELSE 0)
        /\ \A k \in 1..i - 1 - 1 + 1 : a[k] = s[1 + k - 1]
    BY <2>1, <2>2, SubSeqProperties
  <2> HIDE DEF a
  <2> QED BY <1>1, <2>3
<1>3. /\ b \in Seq(S) /\ Len(b) = Len(s) - i /\ \A k \in 1..Len(s) - i : b[k] = s[i + k]
  <2>1. \A k \in i + 1..Len(s) : s[k] \in S
    BY <1>1
  <2>2. i + 1 \in Int /\ Len(s) \in Int
    BY <1>1
  <2>3. /\ b \in Seq(S) /\ Len(b) = (IF i + 1 <= Len(s) THEN Len(s) - (i + 1) + 1 ELSE 0)
        /\ \A k \in 1..Len(s) - (i + 1) + 1 : b[k] = s[i + 1 + k - 1]
    BY <2>1, <2>2, SubSeqProperties
  <2> HIDE DEF b
  <2> QED BY <1>1, <2>3
<1> HIDE DEF a, b
<1>4. /\ a \o b \in Seq(S) /\ Len(a \o b) = Len(a) + Len(b)
      /\ \A k \in 1..Len(a) + Len(b) : (a \o b)[k] = IF k <= Len(a) THEN a[k] ELSE b[k - Len(a)]
  BY <1>2, <1>3, ConcatProperties
<1>5. RemoveAt(s, i) = a \o b
  BY DEF RemoveAt, a, b
<1>6. \A k \in 1..Len(s) - 1 : (a \o b)[k] = IF k < i THEN s[k] ELSE s[k + 1]
  <2> TAKE k \in 1..Len(s) - 1
  <2>1. CASE k < i
    BY <1>1, <1>2, <1>3, <1>4, <2>1
  <2>2. CASE ~(k < i)
    <3>1. (a \o b)[k] = b[k - (i - 1)] /\ k - (i - 1) \in 1..Len(s) - i
      BY <1>1, <1>2, <1>3, <1>4, <2>2
    <3>2. i + (k - (i - 1)) = k + 1
      BY <1>1
    <3> QED BY <1>3, <2>2, <3>1, <3>2
  <2> QED BY <2>1, <2>2
<1> QED BY <1>1, <1>2, <1>3, <1>4, <1>5, <1>6

LEMMA WordType ==
  ASSUME NEW s \in Seq(Byte), NEW i \in 1..Len(s), i + 1 <= Len(s)
  PROVE  Word(s, i) \in Nat
<1>1. Len(s) \in Nat /\ i + 1 \in 1..Len(s)
  OBVIOUS
<1>2. s[i] \in Byte /\ s[i + 1] \in Byte
  BY <1>1, ElementOfSeq
<1>3. \A x, y \in 0..255 : 256 * x + y \in Nat
  OBVIOUS
<1> QED BY <1>2, <1>3 DEF Word, Byte

\* What is left behind a reply.
LEMMA BehindIs ==
  ASSUME NEW s \in Seq(Byte), Complete(s)
  PROVE  /\ Word(s, 5) \in Nat /\ Len(s) \in Nat /\ Len(s) >= 9 /\ Len(s) >= Word(s, 5) + 6
         /\ BehindReply(s) \in Seq(Byte)
         /\ Len(BehindReply(s)) = Len(s) - (Word(s, 5) + 6)
         /\ \A k \in 1..Len(s) - (Word(s, 5) + 6) : BehindReply(s)[k] = s[k + (Word(s, 5) + 6)]
<1>1. Len(s) \in Nat /\ Len(s) >= 9 /\ Len(s) >= Word(s, 5) + 6
  BY DEF Complete
<1>2. Word(s, 5) \in Nat
  BY <1>1, WordType
<1> DEFINE w == Word(s, 5)
           m == w + 7
           b == SubSeq(s, m, Len(s))
<1>3. b = BehindReply(s)
  <2>1. 6 + 1 + (w - 1) + 1 = m
    BY <1>2
  <2> QED BY <2>1 DEF BehindReply
<1> HIDE DEF w
<1>4. /\ b \in Seq(Byte) /\ Len(b) = Len(s) - (w + 6)
      /\ \A k \in 1..Len(s) - (w + 6) : b[k] = s[k + (w + 6)]
  <2>1. \A k \in m..Len(s) : s[k] \in Byte
    BY <1>1, <1>2 DEF w
  <2>2. m \in Int /\ Len(s) \in Int
    BY <1>1, <1>2 DEF w
  <2>3. /\ b \in Seq(Byte) /\ Len(b) = (IF m <= Len(s) THEN Len(s) - m + 1 ELSE 0)
        /\ \A k \in 1..Len(s) - m + 1 : b[k] = s[m + k - 1]
    BY <2>1, <2>2, SubSeqProperties
  <2>4. /\ w \in Nat /\ m = w + 7 /\ Len(s) >= w + 6
    BY <1>1, <1>2 DEF w
  <2> HIDE DEF b, m
  <2>5. Len(b) = Len(s) - (w + 6)
    BY <1>1, <2>3, <2>4
  <2>6. \A k \in 1..Len(s) - (w + 6) : k \in 1..Len(s) - m + 1 /\ m + k - 1 = k + (w + 6)
    BY <1>1, <2>4
  <2> QED BY <2>3, <2>5, <2>6
<1> QED BY <1>1, <1>2, <1>3, <1>4 DEF w

HandleState == [data : Seq(Byte), requests : Seq(Request), next : Links]
HandleStep(t) == IF Complete(t.data) THEN HandleReply(t) ELSE t
IsHandle(s, f) ==
  /\ f \in [0..Len(s.data) -> HandleState] /\ f[0] = s
  /\ \A n \in 1..Len(s.data) : f[n] = HandleStep(f[n - 1])

\* A reply ends one request or none.
LEMMA HandleIs ==
  ASSUME NEW t \in HandleState, Complete(t.data)
  PROVE  /\ HandleReply(t) \in HandleState
         /\ HandleReply(t).data = BehindReply(t.data)
         /\ \/ HandleReply(t).requests = t.requests /\ HandleReply(t).next = t.next
            \/ \E i \in 1..Len(t.requests) :
                 /\ HandleReply(t).requests = RemoveAt(t.requests, i)
                 /\ HandleReply(t).next = Unlink(t.next, t.requests[i])
<1> DEFINE mine == {i \in DOMAIN t.requests : t.requests[i].id = Word(t.data, 1)}
           i == CHOOSE j \in mine : \A k \in mine : j <= k
           mineToo == mine # {} /\ Word(t.data, 3) = 0 /\ t.data[7] = Unit
<1>1. /\ t.data \in Seq(Byte) /\ t.requests \in Seq(Request) /\ t.next \in Links
      /\ t = [data |-> t.data, requests |-> t.requests, next |-> t.next]
      /\ BehindReply(t.data) \in Seq(Byte)
  BY BehindIs DEF HandleState
<1>2. HandleReply(t) = IF mineToo
                       THEN [data |-> BehindReply(t.data), requests |-> RemoveAt(t.requests, i),
                             next |-> Unlink(t.next, t.requests[i])]
                       ELSE [data |-> BehindReply(t.data), requests |-> t.requests, next |-> t.next]
  <2>1. HandleReply(t) = IF mineToo
                         THEN [data |-> BehindReply(t.data), requests |-> RemoveAt(t.requests, i),
                               next |-> Unlink(t.next, t.requests[i])]
                         ELSE [t EXCEPT !.data = BehindReply(t.data)]
    BY DEF HandleReply
  <2>2. [t EXCEPT !.data = BehindReply(t.data)]
          = [data |-> BehindReply(t.data), requests |-> t.requests, next |-> t.next]
    BY <1>1
  <2> HIDE DEF mineToo, i
  <2> QED BY <2>1, <2>2
<1>3. CASE mineToo
  <2>1. mine \subseteq Nat /\ mine # {} /\ mine \subseteq 1..Len(t.requests)
    BY <1>1, <1>3
  <2>2. \E j \in mine : \A k \in mine : j <= k
    <3> HIDE DEF mine
    <3> QED BY <2>1, Smallest
  <2>3. i \in 1..Len(t.requests)
    <3> HIDE DEF mine
    <3> QED BY <2>1, <2>2
  <2> HIDE DEF i, mineToo
  <2>4. RemoveAt(t.requests, i) \in Seq(Request) /\ Unlink(t.next, t.requests[i]) \in Links
    BY <1>1, <2>3, RemoveAtIs, UnlinkType
  <2> QED BY <1>1, <1>2, <1>3, <2>3, <2>4 DEF HandleState
<1>4. CASE ~mineToo
  <2> HIDE DEF mineToo
  <2> QED BY <1>1, <1>2, <1>4 DEF HandleState
<1> QED BY <1>3, <1>4

LEMMA HandleSteps ==
  ASSUME NEW s \in HandleState
  PROVE  \E f : IsHandle(s, f) /\ HandleAll(s) = f[Len(s.data) \div 9]
<1> DEFINE L == Len(s.data)
           step == [p \in HandleState \X (1..L) |-> HandleStep(p[1])]
           Is(f) == f = [n \in 0..L |->
                 IF n = 0 THEN s
                 ELSE LET t == f[n - 1] IN IF Complete(t.data) THEN HandleReply(t) ELSE t]
           after == CHOOSE f : Is(f)
           T == {n \in 0..L : after[n] \in HandleState}
<1>1. L \in Nat
  BY DEF HandleState
<1>2. \A t \in HandleState : HandleStep(t) \in HandleState
  BY HandleIs DEF HandleStep
<1>3. PICK f : IsIteration(f, HandleState, s, L, step)
  <2>1. step \in [HandleState \X (1..L) -> HandleState]
    BY <1>2
  <2> HIDE DEF step, L
  <2> QED BY <1>1, <2>1, Iterates, Zenon
<1>4. Is(f)
  <2>1. f \in [0..L -> HandleState] /\ f[0] = s
    BY <1>3 DEF IsIteration
  <2>2. ASSUME NEW n \in 1..L PROVE f[n] = HandleStep(f[n - 1])
    <3>1. n - 1 \in 0..L
      BY <1>1
    <3>2. f[n - 1] \in HandleState
      BY <2>1, <3>1
    <3>3. f[n] = step[<<f[n - 1], n>>]
      <4> HIDE DEF step
      <4> QED BY <1>3 DEF IsIteration
    <3> HIDE DEF L
    <3> QED BY <3>2, <3>3
  <2>3. \A n \in 0..L : f[n] = IF n = 0 THEN s ELSE HandleStep(f[n - 1])
    BY <1>1, <2>1, <2>2
  <2> QED BY <2>1, <2>3 DEF HandleStep
<1>5. Is(after)
  <2> HIDE DEF Is
  <2> QED BY <1>4
<1>6. DOMAIN after = 0..L /\ \A n \in 0..L : after[n] = IF n = 0 THEN s ELSE HandleStep(after[n - 1])
  <2> HIDE DEF after
  <2> QED BY <1>5 DEF HandleStep
<1>7. after = [n \in 0..L |-> after[n]]
  <2> HIDE DEF after
  <2> QED BY <1>5
<1> HIDE DEF after
<1>8. 0 \in T /\ \A n \in 1..L : n - 1 \in T => n \in T
  <2> HIDE DEF L
  <2> QED BY <1>1, <1>2, <1>6
<1>9. 0..L \subseteq T
  <2> HIDE DEF T, L
  <2> QED BY <1>1, <1>8, UpTo
<1>10. after \in [0..L -> HandleState]
  <2> HIDE DEF L
  <2> QED BY <1>7, <1>9
<1>11. IsHandle(s, after)
  <2>1. 0 \in 0..L /\ \A n \in 1..L : n \in 0..L /\ n # 0
    BY <1>1
  <2> QED BY <1>6, <1>10, <2>1 DEF IsHandle
<1>12. HandleAll(s) = after[L \div 9]
  BY DEF HandleAll, after
<1> QED BY <1>11, <1>12

LEMMA FirstsRemoved ==
  ASSUME NEW reqs \in Seq(Request), FirstsApart(reqs), NEW i \in 1..Len(reqs)
  PROVE  /\ FirstsApart(RemoveAt(reqs, i))
         /\ Firsts(RemoveAt(reqs, i)) = Firsts(reqs) \ {reqs[i].first}
<1> DEFINE q == RemoveAt(reqs, i)
           Old(k) == IF k < i THEN k ELSE k + 1
<1>1. /\ DOMAIN q = 1..Len(reqs) - 1 /\ Len(reqs) \in Nat /\ DOMAIN reqs = 1..Len(reqs)
      /\ \A k \in 1..Len(reqs) - 1 : q[k] = reqs[Old(k)]
  <2>1. q \in Seq(Request) /\ Len(q) = Len(reqs) - 1 /\ Len(reqs) \in Nat
    BY RemoveAtIs
  <2>2. \A k \in 1..Len(reqs) - 1 : q[k] = reqs[Old(k)]
    BY RemoveAtIs
  <2> HIDE DEF q, Old
  <2> QED BY <2>1, <2>2
<1> HIDE DEF q
<1>2. \A k \in DOMAIN q : Old(k) \in DOMAIN reqs /\ Old(k) # i /\ q[k] = reqs[Old(k)]
  BY <1>1
<1>3. \A j \in DOMAIN reqs : j # i => \E k \in DOMAIN q : Old(k) = j
  <2> TAKE j \in DOMAIN reqs
  <2>1. CASE j < i
    <3>1. j \in DOMAIN q /\ Old(j) = j
      BY <1>1, <2>1
    <3> QED BY <3>1
  <2>2. CASE j > i
    <3>1. j - 1 \in DOMAIN q /\ Old(j - 1) = j
      BY <1>1, <2>2
    <3> QED BY <3>1
  <2> QED BY <1>1, <2>1, <2>2
<1>4. \A k, l \in DOMAIN q : Old(k) = Old(l) => k = l
  BY <1>1
<1> HIDE DEF Old
<1>5. FirstsApart(q)
  BY <1>2, <1>4 DEF FirstsApart
<1>6. Firsts(q) \subseteq Firsts(reqs) \ {reqs[i].first}
  BY <1>1, <1>2 DEF Firsts, FirstsApart
<1>7. Firsts(reqs) \ {reqs[i].first} \subseteq Firsts(q)
  <2> SUFFICES ASSUME NEW j \in DOMAIN reqs, reqs[j].first # None, reqs[j].first # reqs[i].first
               PROVE  reqs[j].first \in Firsts(q)
    BY DEF Firsts
  <2>1. PICK k \in DOMAIN q : Old(k) = j
    BY <1>3
  <2> QED BY <1>2, <2>1 DEF Firsts
<1> QED BY <1>5, <1>6, <1>7 DEF q

\* The chains while replies are handled.
ChainsHandled(t) ==
  /\ t \in HandleState
  /\ Sound(children, t.next, Firsts(t.requests)) /\ FirstsApart(t.requests)
  /\ changes = 0 => Whole(t.next, Firsts(t.requests))

LEMMA HandleStepKeeps ==
  ASSUME Children(children), NEW t, ChainsHandled(t)
  PROVE  ChainsHandled(HandleStep(t))
<1>1. CASE ~Complete(t.data)
  BY <1>1 DEF HandleStep
<1>2. CASE Complete(t.data)
  <2> DEFINE u == HandleReply(t)
  <2>1. HandleStep(t) = u
    BY <1>2 DEF HandleStep
  <2>2. /\ u \in HandleState
        /\ \/ u.requests = t.requests /\ u.next = t.next
           \/ \E i \in 1..Len(t.requests) : /\ u.requests = RemoveAt(t.requests, i)
                                            /\ u.next = Unlink(t.next, t.requests[i])
    BY <1>2, HandleIs DEF ChainsHandled
  <2> HIDE DEF u
  <2>3. CASE u.requests = t.requests /\ u.next = t.next
    BY <2>1, <2>2, <2>3 DEF ChainsHandled
  <2>4. ASSUME NEW i \in 1..Len(t.requests), u.requests = RemoveAt(t.requests, i),
               u.next = Unlink(t.next, t.requests[i])
        PROVE  ChainsHandled(u)
    <3> DEFINE F == Firsts(t.requests)
               r == t.requests[i]
    <3>1. /\ t.requests \in Seq(Request) /\ Sound(children, t.next, F) /\ FirstsApart(t.requests)
          /\ changes = 0 => Whole(t.next, F)
      BY DEF ChainsHandled, HandleState
    <3>2. r \in Request /\ r.first \in F \cup {None}
      BY <3>1 DEF Firsts
    <3>3. FirstsApart(u.requests) /\ Firsts(u.requests) = F \ {r.first}
      BY <2>4, <3>1, FirstsRemoved
    <3> HIDE DEF F, r
    <3>4. /\ Sound(children, Unlink(t.next, r), F \ {r.first})
          /\ Whole(t.next, F) => Whole(Unlink(t.next, r), F \ {r.first})
      BY <3>1, <3>2, UnlinkKeeps
    <3>5. u.next = Unlink(t.next, r)
      BY <2>4 DEF r
    <3> QED BY <2>2, <3>1, <3>3, <3>4, <3>5 DEF ChainsHandled
  <2> QED BY <2>1, <2>2, <2>3, <2>4
<1> QED BY <1>1, <1>2

LEMMA NineIs ==
  ASSUME NEW n \in Nat
  PROVE  n \div 9 \in 0..n /\ n - 9 * (n \div 9) \in 0..8
OBVIOUS

LEMMA HandleKeeps ==
  ASSUME Children(children), NEW s, ChainsHandled(s)
  PROVE  ChainsHandled(HandleAll(s))
<1>1. PICK f : IsHandle(s, f) /\ HandleAll(s) = f[Len(s.data) \div 9]
  BY HandleSteps DEF ChainsHandled
<1> DEFINE L == Len(s.data)
           T == {n \in 0..L : ChainsHandled(f[n])}
<1>2. L \in Nat
  BY DEF ChainsHandled, HandleState
<1>3. 0 \in T /\ \A n \in 1..L : n - 1 \in T => n \in T
  <2>1. f[0] = s /\ \A n \in 1..L : f[n] = HandleStep(f[n - 1])
    BY <1>1 DEF IsHandle
  <2> HIDE DEF L
  <2> QED BY <1>2, <2>1, HandleStepKeeps
<1>4. 0..L \subseteq T
  <2> HIDE DEF T, L
  <2> QED BY <1>2, <1>3, UpTo
<1>5. L \div 9 \in 0..L
  <2> HIDE DEF L
  <2> QED BY <1>2, NineIs
<1>6. ChainsHandled(f[L \div 9])
  <2> HIDE DEF L
  <2> QED BY <1>4, <1>5
<1> QED BY <1>1, <1>6

LEMMA ReceiveChains ==
  ASSUME ChainsKept, inData \in Seq(Byte), toSlave \in Seq(Byte), Receive
  PROVE  ChainsKept' /\ inData' \in Seq(Byte) /\ toSlave' \in Seq(Byte)
<1>1. PICK n \in Pieces :
        LET piece == SubSeq(toSlave, 1, IF n < Len(toSlave) THEN n ELSE Len(toSlave))
            s == HandleAll([data |-> inData \o piece, requests |-> requests, next |-> next])
        IN /\ inData' = s.data /\ requests' = s.requests /\ next' = s.next
           /\ toSlave' = SubSeq(toSlave, n + 1, Len(toSlave))
  BY DEF Receive
<1> DEFINE m == IF n < Len(toSlave) THEN n ELSE Len(toSlave)
           piece == SubSeq(toSlave, 1, m)
           t == [data |-> inData \o piece, requests |-> requests, next |-> next]
           s == HandleAll(t)
<1>2. n \in Nat \ {0} /\ Len(toSlave) \in Nat
  BY SizeAssumption
<1>3. piece \in Seq(Byte)
  BY <1>2
<1>4. SubSeq(toSlave, n + 1, Len(toSlave)) \in Seq(Byte)
  BY <1>2
<1>5. ChainsHandled(t)
  <2>1. inData \o piece \in Seq(Byte)
    BY <1>3
  <2> HIDE DEF piece
  <2> QED BY <2>1 DEF ChainsHandled, ChainsKept, HandleState, Sound
<1>6. ChainsHandled(s)
  <2> HIDE DEF t
  <2> QED BY <1>5, HandleKeeps DEF ChainsKept
<1>7. inData' = s.data /\ requests' = s.requests /\ next' = s.next
  BY <1>1
<1>8. changes' = changes /\ children' = children
  BY DEF Receive
<1> HIDE DEF s
<1>9. ChainsKept'
  BY <1>6, <1>7, <1>8 DEF ChainsKept, ChainsHandled, HandleState
<1> QED BY <1>1, <1>4, <1>6, <1>7, <1>9 DEF ChainsHandled, HandleState

-----------------------------------------------------------------------------
(* Channels that go and come.                                              *)

\* A child that is taken away leaves the others in their order.
LEMMA ChildRemoved ==
  ASSUME NEW ch, Children(ch), NEW m \in DOMAIN ch
  PROVE  /\ Children(RemoveAt(ch, m))
         /\ \A c \in Channel : c # ch[m] /\ Contains(ch, c) => Contains(RemoveAt(ch, m), c)
         /\ \A c, d \in Channel : c # ch[m] /\ d # ch[m] /\ Before(ch, c, d) => Before(RemoveAt(ch, m), c, d)
<1> DEFINE q == RemoveAt(ch, m)
           New(i) == IF i < m THEN i ELSE i - 1
<1>1. /\ ch \in Seq(Channel) /\ Len(ch) \in Nat /\ DOMAIN ch = 1..Len(ch) /\ m \in 1..Len(ch)
      /\ \A i, j \in DOMAIN ch : ch[i] = ch[j] => i = j
  BY DEF Children, Distinct
<1>2. /\ q \in Seq(Channel) /\ DOMAIN q = 1..Len(ch) - 1 /\ Len(q) = Len(ch) - 1
      /\ \A k \in 1..Len(ch) - 1 : q[k] = IF k < m THEN ch[k] ELSE ch[k + 1]
  <2>1. /\ q \in Seq(Channel) /\ Len(q) = Len(ch) - 1
        /\ \A k \in 1..Len(ch) - 1 : q[k] = IF k < m THEN ch[k] ELSE ch[k + 1]
    <3>1. ch \in Seq(Channel) /\ m \in 1..Len(ch)
      BY <1>1
    <3> QED BY <3>1, RemoveAtIs, Zenon
  <2> HIDE DEF q
  <2> QED BY <1>1, <2>1
<1> HIDE DEF q
<1>3. Children(q)
  BY <1>1, <1>2 DEF Children, Distinct
<1>4. ASSUME NEW i \in DOMAIN ch, i # m
      PROVE  New(i) \in DOMAIN q /\ q[New(i)] = ch[i]
  <2>1. CASE i < m
    BY <1>1, <1>2, <2>1
  <2>2. CASE i > m
    <3> DEFINE k == i - 1
    <3>1. k \in 1..Len(ch) - 1 /\ ~(k < m) /\ k + 1 = i
      BY <1>1, <2>2
    <3>2. New(i) = k
      BY <1>1, <2>2
    <3> HIDE DEF k, New
    <3> QED BY <1>2, <3>1, <3>2
  <2> QED BY <1>1, <1>4, <2>1, <2>2
<1>5. \A i, j \in DOMAIN ch : i < j /\ i # m /\ j # m => New(i) < New(j)
  BY <1>1
<1> HIDE DEF New
<1>6. \A c \in Channel : c # ch[m] /\ Contains(ch, c) => Contains(q, c)
  BY <1>1, <1>2, <1>4 DEF Contains
<1>7. \A c, d \in Channel : c # ch[m] /\ d # ch[m] /\ Before(ch, c, d) => Before(q, c, d)
  BY <1>4, <1>5 DEF Before
<1> QED BY <1>3, <1>6, <1>7 DEF q

LEMMA DeleteChains ==
  ASSUME ChainsKept, changes \in Nat, DeleteChannel
  PROVE  ChainsKept'
<1>1. PICK m \in DOMAIN children :
        /\ children' = RemoveAt(children, m)
        /\ next' = [d \in Channel |->
                      IF d = children[m] \/ next[d] = children[m] THEN None ELSE next[d]]
        /\ requests' = [k \in DOMAIN requests |->
                          [requests[k] EXCEPT !.first = IF @ = children[m] THEN None ELSE @]]
  BY DEF DeleteChannel
<1> DEFINE c == children[m]
           F == Firsts(requests)
<1>2. /\ Children(children) /\ requests \in Seq(Request) /\ FirstsApart(requests)
      /\ next \in Links /\ Ordered(children, next) /\ OneParent(next)
      /\ F \subseteq Channel /\ \A f \in F : Contains(children, f)
      /\ \A d \in Channel : next[d] \notin F
  BY DEF ChainsKept, Sound
<1>3. changes' # 0
  BY DEF DeleteChannel
<1>4. /\ Children(children')
      /\ \A d \in Channel : d # c /\ Contains(children, d) => Contains(children', d)
      /\ \A d, e \in Channel : d # c /\ e # c /\ Before(children, d, e) => Before(children', d, e)
  BY <1>1, <1>2, ChildRemoved
<1>5. c \in Channel /\ c # None
  BY <1>2, ChannelsAre DEF Children
<1> HIDE DEF c
<1>6. \A d \in Channel : next'[d] = IF d = c \/ next[d] = c THEN None ELSE next[d]
  BY <1>1 DEF c
<1>7. next' \in Links
  BY <1>1, <1>2 DEF Links, c
<1>8. Ordered(children', next')
  <2>1. \A d \in Channel : next[d] \in Channel \cup {None}
    BY <1>2 DEF Links
  <2> QED BY <1>2, <1>4, <1>6, <2>1 DEF Ordered
<1>9. OneParent(next')
  BY <1>2, <1>6 DEF OneParent
<1>10. /\ DOMAIN requests' = DOMAIN requests /\ DOMAIN requests = 1..Len(requests)
       /\ Len(requests) \in Nat
       /\ \A k \in DOMAIN requests :
            /\ requests'[k] \in Request
            /\ requests'[k].first = IF requests[k].first = c THEN None ELSE requests[k].first
  <2>1. DOMAIN requests = 1..Len(requests) /\ Len(requests) \in Nat
    BY <1>2
  <2>2. ASSUME NEW k \in DOMAIN requests
        PROVE  /\ requests'[k] \in Request
               /\ requests'[k].first = IF requests[k].first = c THEN None ELSE requests[k].first
    <3>1. requests[k] \in Request
      BY <1>2
    <3>2. requests'[k] = [requests[k] EXCEPT !.first = IF requests[k].first = c THEN None
                                                       ELSE requests[k].first]
      BY <1>1 DEF c
    <3> QED BY <3>1, <3>2 DEF Request
  <2> QED BY <1>1, <2>1, <2>2
<1>11. requests' \in Seq(Request)
  <2>1. requests' = [k \in 1..Len(requests) |-> requests'[k]]
    BY <1>1, <1>10
  <2>2. requests' \in [1..Len(requests) -> Request]
    BY <1>10, <2>1
  <2> QED BY <1>10, <2>2, SeqDef
<1>12. Firsts(requests') = F \ {c}
  BY <1>10 DEF Firsts
<1>13. FirstsApart(requests')
  BY <1>2, <1>10 DEF FirstsApart
<1>14. Sound(children', next', Firsts(requests'))
  <2>1. None \notin F
    BY DEF Firsts
  <2> HIDE DEF F
  <2> QED BY <1>2, <1>4, <1>6, <1>7, <1>8, <1>9, <1>12, <2>1 DEF Sound
<1>15. Firsts(requests)' = Firsts(requests')
  BY DEF Firsts
<1> QED BY <1>3, <1>4, <1>11, <1>13, <1>14, <1>15 DEF ChainsKept

LEMMA CreateChains ==
  ASSUME ChainsKept, changes \in Nat, CreateChannel, Replaceable \subseteq Channel
  PROVE  ChainsKept'
<1>1. PICK c \in Replaceable : ~Contains(children, c) /\ children' = Append(children, c)
  BY DEF CreateChannel
<1>2. /\ next' = next /\ requests' = requests /\ changes' # 0
  BY DEF CreateChannel
<1>3. children \in Seq(Channel) /\ Distinct(children) /\ c \in Channel
  BY DEF ChainsKept, Children
<1>4. /\ children' \in Seq(Channel) /\ DOMAIN children' = 1..Len(children) + 1
      /\ Len(children) \in Nat /\ DOMAIN children = 1..Len(children)
      /\ Len(children') = Len(children) + 1
      /\ children'[Len(children) + 1] = c /\ \A i \in 1..Len(children) : children'[i] = children[i]
  BY <1>1, <1>3
<1>5. Distinct(children')
  BY <1>1, <1>3, <1>4 DEF Distinct, Contains
<1>6. \A d \in Channel : Contains(children, d) => Contains(children', d)
  BY <1>4 DEF Contains
<1>7. \A d, e \in Channel : Before(children, d, e) => Before(children', d, e)
  BY <1>4 DEF Before
<1>8. Sound(children', next, Firsts(requests))
  <2>1. next \in Links
    BY DEF ChainsKept, Sound
  <2>2. Ordered(children', next)
    BY <1>7, <2>1 DEF ChainsKept, Sound, Ordered, Links
  <2> QED BY <1>6, <2>2 DEF ChainsKept, Sound
<1>9. FirstsApart(requests) /\ requests \in Seq(Request)
  BY DEF ChainsKept
<1>10. Children(children')
  BY <1>4, <1>5 DEF Children
<1> QED BY <1>2, <1>8, <1>9, <1>10 DEF ChainsKept

\* Actions that do not touch the chains; the time of a request is none of it.
LEMMA QuietChains ==
  ASSUME ChainsKept, UNCHANGED <<links, requests, changes>>
  PROVE  ChainsKept'
BY DEF ChainsKept, links

LEMMA ExpireChains ==
  ASSUME ChainsKept, NEW id, ExpireRequest(id)
  PROVE  ChainsKept'
<1>1. PICK i \in DOMAIN requests : requests' = [requests EXCEPT ![i].late = TRUE]
  BY DEF ExpireRequest
<1>2. UNCHANGED <<children, next, changes>>
  BY DEF ExpireRequest, links
<1>3. requests \in Seq(Request)
  BY DEF ChainsKept
<1>4. /\ requests' \in Seq(Request) /\ DOMAIN requests' = DOMAIN requests
      /\ \A k \in DOMAIN requests : requests'[k].first = requests[k].first
  <2>1. [requests[i] EXCEPT !.late = TRUE] \in Request
    <3>1. requests[i] \in Request
      BY <1>3
    <3> QED BY <3>1 DEF Request
  <2>2. requests' = [requests EXCEPT ![i] = [requests[i] EXCEPT !.late = TRUE]]
    BY <1>1
  <2> QED BY <1>3, <2>1, <2>2 DEF Request
<1>5. Firsts(requests') = Firsts(requests)
  BY <1>4 DEF Firsts
<1>6. FirstsApart(requests')
  <2>1. FirstsApart(requests)
    BY DEF ChainsKept
  <2> QED BY <1>4, <2>1 DEF FirstsApart
<1> QED BY <1>2, <1>4, <1>5, <1>6 DEF ChainsKept

-----------------------------------------------------------------------------
(* Types.                                                                  *)

\* A bit is the set point of a channel of the chain, or 0.
LEMMA BitAtIs ==
  ASSUME sp \in [Channel -> Bit], NEW r, NEW chain \in Seq(Channel), NEW k
  PROVE  /\ BitAt(r, chain, k) \in Bit
         /\ BitAt(r, chain, k) = 1 =>
              \E c \in Channel : Contains(chain, c) /\ Offset(r, c) = k /\ sp[c] = 1
<1> DEFINE at == {i \in DOMAIN chain : Offset(r, chain[i]) = k}
           last == CHOOSE i \in at : \A j \in at : j <= i
<1>1. BitAt(r, chain, k) = IF at = {} THEN 0 ELSE sp[chain[last]]
  BY DEF BitAt
<1>2. CASE at = {}
  <2> HIDE DEF at, last
  <2> QED BY <1>1, <1>2 DEF Bit
<1>3. CASE at # {}
  <2>1. Len(chain) \in Nat /\ at \subseteq 0..Len(chain)
    OBVIOUS
  <2>2. \E i \in at : \A j \in at : j <= i
    <3> HIDE DEF at
    <3> QED BY <1>3, <2>1, Largest
  <2>3. last \in at
    <3> HIDE DEF at
    <3> QED BY <2>2
  <2> HIDE DEF last
  <2>4. /\ last \in 1..Len(chain) /\ chain[last] \in Channel
        /\ Offset(r, chain[last]) = k /\ Contains(chain, chain[last])
    BY <2>3 DEF Contains
  <2> HIDE DEF at
  <2> QED BY <1>1, <1>3, <2>4
<1> QED BY <1>2, <1>3

\* What a request sends and marks.
LEMMA SendTypes ==
  ASSUME TypeOK, NEW r \in Request, r.start \in Nat, NEW chain \in Seq(Channel), Send(r, chain)
  PROVE  /\ pc' \in {"idle", "crashed"} /\ error' \in [Channel -> BOOLEAN]
         /\ errorLink' \in Channel \cup {None} /\ toDevice' \in Seq(Frame)
         /\ toDevice' = toDevice \/ toDevice' = Append(toDevice, FrameOf(r, chain))
         /\ FrameOf(r, chain) \in Frame
<1> DEFINE outside == {c \in Channel : Contains(chain, c) /\ ~Written(r, c)}
           at == {i \in DOMAIN chain : chain[i] \in outside}
           first == CHOOSE i \in at : \A j \in at : i <= j
<1>1. /\ pc' \in {"idle", "crashed"} /\ error' \in [Channel -> BOOLEAN]
  BY DEF TypeOK, Send
<1>2. errorLink' = errorLink \/ (outside # {} /\ errorLink' = chain[first])
  BY DEF Send
<1>3. ASSUME outside # {} PROVE chain[first] \in Channel
  <2>1. PICK c \in outside : Contains(chain, c)
    BY <1>3
  <2>2. at # {} /\ at \subseteq Nat /\ at \subseteq 1..Len(chain)
    BY <2>1 DEF Contains
  <2>3. \E i \in at : \A j \in at : i <= j
    <3> HIDE DEF at
    <3> QED BY <2>2, Smallest
  <2>4. first \in at
    <3> HIDE DEF at
    <3> QED BY <2>3
  <2> HIDE DEF at, first
  <2> QED BY <2>2, <2>4
<1>4. errorLink' \in Channel \cup {None}
  <2> HIDE DEF outside, first
  <2> QED BY <1>2, <1>3 DEF TypeOK
<1>5. FrameOf(r, chain) \in Frame
  <2>1. r.items \in Nat /\ r.id \in 0..IdWrap - 1
    BY DEF Request
  <2>2. \A k \in 1..r.items : BitAt(r, chain, k - 1) \in Bit
    BY BitAtIs DEF TypeOK
  <2>3. [k \in 1..r.items |-> BitAt(r, chain, k - 1)] \in Seq(Bit)
    <3>1. [k \in 1..r.items |-> BitAt(r, chain, k - 1)] \in [1..r.items -> Bit]
      BY <2>2
    <3> QED BY <2>1, <3>1, SeqDef
  <2> QED BY <2>1, <2>3 DEF FrameOf, Frame
<1>6. toDevice' = toDevice \/ toDevice' = Append(toDevice, FrameOf(r, chain))
  BY DEF Send
<1>7. toDevice' \in Seq(Frame)
  <2>1. toDevice \in Seq(Frame)
    BY DEF TypeOK
  <2>2. Append(toDevice, FrameOf(r, chain)) \in Seq(Frame)
    BY <1>5, <2>1, AppendProperties
  <2> QED BY <1>6, <2>1, <2>2
<1> QED BY <1>1, <1>4, <1>5, <1>6, <1>7

\* A reply is as long as it says.
LEMMA ReplyIs ==
  ASSUME NEW id \in 0..IdWrap - 1, NEW ok \in BOOLEAN
  PROVE  LET f == ReplyFrame(id, ok) IN
         /\ f \in Seq(Byte)
         /\ Len(f) = IF ok THEN 12 ELSE 9
         /\ f[5] = 0 /\ f[6] = IF ok THEN 6 ELSE 3
<1> DEFINE w == WriteWord(id)
           t == IF ok THEN <<0, 0, 0, 6, Unit, 15, 0, 0, 0, 0>> ELSE <<0, 0, 0, 3, Unit, 143, 4>>
<1>1. w \in Seq(Byte) /\ Len(w) = 2
  <2>1. id \div 256 \in Byte /\ id % 256 \in Byte
    BY SizeAssumption DEF Byte
  <2> QED BY <2>1 DEF WriteWord
<1>2. \A n \in {0, 1, 3, 4, 6, 15, 143} : n \in Byte
  BY DEF Byte
<1>3. /\ t \in Seq(Byte) /\ Len(t) = (IF ok THEN 10 ELSE 7)
      /\ t[3] = 0 /\ t[4] = IF ok THEN 6 ELSE 3
  <2>1. CASE ok
    <3>1. <<0, 0, 0, 6, 1, 15, 0, 0, 0, 0>> \in Seq(Byte)
      BY <1>2
    <3>2. t = <<0, 0, 0, 6, 1, 15, 0, 0, 0, 0>>
      BY <2>1 DEF Unit
    <3> QED BY <2>1, <3>1, <3>2
  <2>2. CASE ~ok
    <3>1. <<0, 0, 0, 3, 1, 143, 4>> \in Seq(Byte)
      BY <1>2
    <3>2. t = <<0, 0, 0, 3, 1, 143, 4>>
      BY <2>2 DEF Unit
    <3> QED BY <2>2, <3>1, <3>2
  <2> QED BY <2>1, <2>2
<1>4. ReplyFrame(id, ok) = w \o t
  BY DEF ReplyFrame
<1> HIDE DEF w, t
<1>5. /\ w \o t \in Seq(Byte) /\ Len(w \o t) = Len(w) + Len(t)
      /\ \A i \in 1..Len(w) + Len(t) : (w \o t)[i] = IF i <= Len(w) THEN w[i] ELSE t[i - Len(w)]
  BY <1>1, <1>3, ConcatProperties
<1>6. Len(w \o t) = IF ok THEN 12 ELSE 9
  BY <1>1, <1>3, <1>5
<1>7. (w \o t)[5] = t[3] /\ (w \o t)[6] = t[4]
  <2>1. 5 \in 1..Len(w) + Len(t) /\ 6 \in 1..Len(w) + Len(t)
    BY <1>1, <1>3
  <2> QED BY <1>1, <1>5, <2>1
<1> QED BY <1>3, <1>4, <1>5, <1>6, <1>7

-----------------------------------------------------------------------------
(* Types and chains, step by step.                                         *)

Inv == TypeOK /\ ChainsKept

LEMMA InitInv == Init => Inv
<1> SUFFICES ASSUME Init PROVE Inv
  OBVIOUS
<1>1. /\ children \in Seq(Channel) /\ DOMAIN children = 1..NumChannel
      /\ \A i \in 1..NumChannel : children[i] = i
  <2>1. NumChannel \in Nat /\ children = [i \in 1..NumChannel |-> i] /\ Channel = 1..NumChannel
    BY ChannelsAre DEF Init
  <2>2. children \in [1..NumChannel -> Channel]
    BY <2>1
  <2> QED BY <2>1, <2>2, SeqDef
<1>2. Children(children)
  BY <1>1 DEF Children, Distinct
<1>3. requests = <<>> /\ Firsts(requests) = {} /\ FirstsApart(requests)
  BY DEF Init, Firsts, FirstsApart
<1>4. next \in Links /\ \A c \in Channel : next[c] = None
  BY DEF Init, Links
<1>5. Sound(children, next, {})
  BY <1>4 DEF Sound, Ordered, OneParent
<1>6. Whole(next, {})
  BY <1>4, ChannelsAre DEF Whole
<1>7. ChainsKept
  BY <1>2, <1>3, <1>5, <1>6 DEF ChainsKept
<1>8. TypeOK
  <2>1. 0 \in 0..IdWrap - 1 /\ 0 \in 0..MaxChanges
    BY SizeAssumption
  <2>2. /\ sp \in [Channel -> Bit] /\ error \in [Channel -> BOOLEAN]
        /\ coils \in [0..NumCoil - 1 -> Bit]
    BY DEF Init, Bit
  <2>3. toDevice \in Seq(Frame) /\ toSlave \in Seq(0..255) /\ inData \in Seq(0..255)
    BY DEF Init
  <2> QED BY <1>1, <1>3, <1>4, <2>1, <2>2, <2>3 DEF Init, TypeOK, Links, None
<1> QED BY <1>7, <1>8 DEF Inv

\* What the types of the chains give.
LEMMA ChainTypes ==
  ASSUME ChainsKept
  PROVE  /\ children \in Seq(Channel) /\ next \in [Channel -> Channel \cup {None}]
         /\ requests \in Seq(Request)
BY DEF ChainsKept, Children, Sound, Links

LEMMA IdType ==
  ASSUME requestId \in 0..IdWrap - 1
  PROVE  (requestId + 1) % IdWrap \in 0..IdWrap - 1
BY SizeAssumption

\* A chain that begins at a child consists of children.
LEMMA ChainOfChildren ==
  ASSUME NEW ch, Children(ch), NEW nx \in Links, Ordered(ch, nx), NEW r \in Request,
         r.first \in Channel, Contains(ch, r.first)
  PROVE  /\ ChainOf(nx, r) \in Seq(Channel)
         /\ \A c \in Channel : Contains(ChainOf(nx, r), c) => Contains(ch, c)
<1> DEFINE S == {c \in Channel : Contains(ch, c)}
<1>1. ChainOf(nx, r) = ChainFrom(nx, r.first)
  BY ChannelsAre DEF ChainOf
<1>2. ChainFrom(nx, r.first) \in Seq(Channel)
  BY ChainEnds DEF Follows
<1>3. Closed(nx, S)
  BY DEF Closed, Ordered, Before, Contains, Links, Children
<1>4. Reached(nx, r.first) \subseteq S
  <2>1. r.first \in S
    OBVIOUS
  <2> HIDE DEF S
  <2> QED BY <1>3, <2>1, ChainLeast
<1> QED BY <1>1, <1>2, <1>4 DEF Reached

LEMMA ExecuteInv ==
  ASSUME Inv, Execute
  PROVE  /\ Inv'
         /\ toDevice' = toDevice \/
            \E r \in Request, chain \in Seq(Channel) :
              /\ r.start \in Nat /\ toDevice' = Append(toDevice, FrameOf(r, chain))
              /\ \A c \in Channel : Contains(chain, c) => Contains(children, c)
<1>1. /\ UNCHANGED <<children, sp, coils, toSlave, inData, changes>>
      /\ requestId \in 0..IdWrap - 1 /\ TypeOK /\ ChainsKept
  BY DEF Execute, Inv, TypeOK
<1>2. /\ ChainsKept' /\ requests' \in Seq(Request)
      /\ \/ UNCHANGED <<pc, requestId, error, errorLink, toDevice>>
         \/ \E r \in Request, nx \in Links :
              /\ r.id = requestId /\ r.start \in Nat /\ r.first \in Channel
              /\ requestId' = (requestId + 1) % IdWrap
              /\ Ordered(children, nx) /\ Contains(children, r.first)
              /\ Send(r, ChainOf(nx, r))
  BY <1>1, ExecuteChains, Zenon
<1>3. /\ children' \in Seq(Channel) /\ next' \in [Channel -> Channel \cup {None}]
  BY <1>2, ChainTypes DEF ChainsKept, Children, Sound, Links
<1>4. CASE UNCHANGED <<pc, requestId, error, errorLink, toDevice>>
  BY <1>1, <1>2, <1>3, <1>4 DEF Inv, TypeOK
<1>5. ASSUME NEW r \in Request, NEW nx \in Links,
             r.start \in Nat, r.first \in Channel, requestId' = (requestId + 1) % IdWrap,
             Ordered(children, nx), Contains(children, r.first), Send(r, ChainOf(nx, r))
      PROVE  /\ Inv'
             /\ toDevice' = toDevice \/
                \E q \in Request, chain \in Seq(Channel) :
                  /\ q.start \in Nat /\ toDevice' = Append(toDevice, FrameOf(q, chain))
                  /\ \A c \in Channel : Contains(chain, c) => Contains(children, c)
  <2> DEFINE chain == ChainOf(nx, r)
  <2>1. /\ chain \in Seq(Channel)
        /\ \A c \in Channel : Contains(chain, c) => Contains(children, c)
    BY <1>1, <1>5, ChainOfChildren DEF ChainsKept
  <2>2. Send(r, chain)
    BY <1>5
  <2> HIDE DEF chain
  <2>3. /\ pc' \in {"idle", "crashed"} /\ error' \in [Channel -> BOOLEAN]
        /\ errorLink' \in Channel \cup {None} /\ toDevice' \in Seq(Frame)
        /\ toDevice' = toDevice \/ toDevice' = Append(toDevice, FrameOf(r, chain))
    BY <1>1, <1>5, <2>1, <2>2, SendTypes
  <2>4. requestId' \in 0..IdWrap - 1
    BY <1>1, <1>5, IdType
  <2>5. TypeOK'
    BY <1>1, <1>2, <1>3, <2>3, <2>4 DEF TypeOK
  <2> QED BY <1>2, <1>5, <2>1, <2>3, <2>5 DEF Inv
<1> QED BY <1>2, <1>4, <1>5

LEMMA NextInv == Inv /\ [Next]_vars => Inv'
<1> SUFFICES ASSUME Inv, [Next]_vars PROVE Inv'
  OBVIOUS
<1> USE DEF Inv
<1>0. /\ TypeOK /\ ChainsKept /\ changes \in Nat
      /\ toSlave \in Seq(Byte) /\ inData \in Seq(Byte) /\ toDevice \in Seq(Frame)
  BY SizeAssumption DEF TypeOK, Byte
<1>1. CASE Execute
  BY <1>1, ExecuteInv
<1>2. CASE Receive
  <2>1. ChainsKept' /\ inData' \in Seq(Byte) /\ toSlave' \in Seq(Byte)
    BY <1>0, <1>2, ReceiveChains
  <2>2. /\ children' \in Seq(Channel) /\ next' \in [Channel -> Channel \cup {None}]
        /\ requests' \in Seq(Request)
    BY <2>1 DEF ChainsKept, Children, Sound, Links
  <2>3. UNCHANGED <<pc, children, requestId, flags, device, changes>>
    BY <1>2 DEF Receive
  <2> QED BY <1>0, <2>1, <2>2, <2>3 DEF TypeOK, Byte, flags, device
<1>3. CASE SetSP
  <2>1. UNCHANGED <<pc, links, requests, requestId, error, errorLink, device, toSlave, inData, changes>>
    BY <1>3 DEF SetSP
  <2>2. ChainsKept'
    BY <1>0, <2>1, QuietChains
  <2>3. sp' \in [Channel -> Bit]
    BY <1>0, <1>3 DEF SetSP, TypeOK
  <2> QED BY <1>0, <2>1, <2>2, <2>3 DEF TypeOK, links, device
<1>4. CASE DeleteChannel
  <2>1. ChainsKept'
    BY <1>0, <1>4, DeleteChains
  <2>2. /\ children' \in Seq(Channel) /\ next' \in [Channel -> Channel \cup {None}]
        /\ requests' \in Seq(Request)
    BY <2>1 DEF ChainsKept, Children, Sound, Links
  <2>3. /\ UNCHANGED <<pc, requestId, sp, error, device, toSlave, inData>>
        /\ changes' \in 0..MaxChanges /\ errorLink' \in Channel \cup {None}
    BY <1>0, <1>4, SizeAssumption DEF DeleteChannel, TypeOK
  <2> QED BY <1>0, <2>1, <2>2, <2>3 DEF TypeOK, device
<1>5. CASE CreateChannel
  <2>1. ChainsKept'
    BY <1>0, <1>5, CreateChains, ChannelAssumption
  <2>2. /\ children' \in Seq(Channel) /\ next' \in [Channel -> Channel \cup {None}]
        /\ requests' \in Seq(Request)
    BY <2>1 DEF ChainsKept, Children, Sound, Links
  <2>3. /\ UNCHANGED <<pc, next, requests, requestId, errorLink, device, toSlave, inData>>
        /\ changes' \in 0..MaxChanges
        /\ sp' \in [Channel -> Bit] /\ error' \in [Channel -> BOOLEAN]
    <3>1. PICK c \in Replaceable : sp' = [sp EXCEPT ![c] = 0] /\ error' = [error EXCEPT ![c] = FALSE]
      BY <1>5 DEF CreateChannel
    <3>2. sp \in [Channel -> Bit] /\ error \in [Channel -> BOOLEAN] /\ 0 \in Bit /\ FALSE \in BOOLEAN
      BY DEF TypeOK, Bit
    <3>3. sp' \in [Channel -> Bit] /\ error' \in [Channel -> BOOLEAN]
      BY <3>1, <3>2, Zenon
    <3>4. changes' \in 0..MaxChanges
      BY <1>0, <1>5, SizeAssumption DEF CreateChannel
    <3>5. UNCHANGED <<pc, next, requests, requestId, errorLink, device, toSlave, inData>>
      BY <1>5 DEF CreateChannel
    <3> QED BY <3>3, <3>4, <3>5
  <2> QED BY <1>0, <2>1, <2>2, <2>3 DEF TypeOK, device
<1>6. CASE DeviceWrites
  <2> DEFINE f == Head(toDevice)
  <2>1. /\ UNCHANGED <<pc, links, requests, requestId, flags, inData, changes>>
        /\ toDevice # <<>> /\ Write(f) /\ toDevice' = Tail(toDevice)
        /\ toSlave' = toSlave \o ReplyFrame(f.id, TRUE)
    BY <1>6 DEF DeviceWrites
  <2>2. ChainsKept'
    BY <1>0, <2>1, QuietChains
  <2>3. f \in Frame /\ toDevice' \in Seq(Frame)
    BY <1>0, <2>1, HeadTailProperties
  <2>4. f.id \in 0..IdWrap - 1 /\ f.start \in Nat /\ f.bits \in Seq(Bit)
    BY <2>3 DEF Frame
  <2> HIDE DEF f
  <2>5. toSlave' \in Seq(Byte)
    <3>1. ReplyFrame(f.id, TRUE) \in Seq(Byte)
      BY <2>4, ReplyIs
    <3> QED BY <1>0, <2>1, <3>1, ConcatProperties
  <2>6. coils' \in [0..NumCoil - 1 -> Bit]
    <3>1. DOMAIN coils = 0..NumCoil - 1 /\ \A a \in 0..NumCoil - 1 : coils[a] \in Bit
      BY <1>0 DEF TypeOK
    <3>2. ASSUME NEW a \in 0..NumCoil - 1, InFrame(f, a) PROVE f.bits[a - f.start + 1] \in Bit
      <4>1. a - f.start + 1 \in 1..Len(f.bits)
        BY <2>4, <3>2, SizeAssumption DEF InFrame
      <4> QED BY <2>4, <4>1
    <3> QED BY <2>1, <3>1, <3>2 DEF Write
  <2> QED BY <1>0, <2>1, <2>2, <2>3, <2>5, <2>6 DEF TypeOK, Byte, links, flags
<1>7. CASE DeviceRefuses
  <2> DEFINE f == Head(toDevice)
  <2>1. /\ UNCHANGED <<pc, links, requests, requestId, flags, coils, inData, changes>>
        /\ toDevice # <<>> /\ toDevice' = Tail(toDevice)
        /\ toSlave' = toSlave \o ReplyFrame(f.id, FALSE) \/ toSlave' = toSlave
    BY <1>7 DEF DeviceRefuses
  <2>2. ChainsKept'
    BY <1>0, <2>1, QuietChains
  <2>3. f \in Frame /\ toDevice' \in Seq(Frame)
    BY <1>0, <2>1, HeadTailProperties
  <2>4. f.id \in 0..IdWrap - 1
    BY <2>3 DEF Frame
  <2> HIDE DEF f
  <2>5. toSlave' \in Seq(Byte)
    <3>1. ReplyFrame(f.id, FALSE) \in Seq(Byte)
      BY <2>4, ReplyIs
    <3> QED BY <1>0, <2>1, <3>1, ConcatProperties
  <2> QED BY <1>0, <2>1, <2>2, <2>3, <2>5 DEF TypeOK, Byte, links, flags
<1>8. CASE \E id \in 0..IdWrap - 1 : ExpireRequest(id)
  <2>1. ChainsKept' /\ UNCHANGED <<pc, links, requestId, flags, device, toSlave, inData, changes>>
    BY <1>0, <1>8, ExpireChains DEF ExpireRequest
  <2>2. requests' \in Seq(Request)
    BY <2>1 DEF ChainsKept
  <2> QED BY <1>0, <2>1, <2>2 DEF TypeOK, links, flags, device
<1>9. CASE UNCHANGED vars
  <2>1. ChainsKept'
    BY <1>0, <1>9, QuietChains DEF vars
  <2> QED BY <1>0, <1>9, <2>1 DEF vars, links, flags, device, TypeOK
<1> QED BY <1>1, <1>2, <1>3, <1>4, <1>5, <1>6, <1>7, <1>8, <1>9 DEF Next

\* The types of the model: what chains, frames and replies may hold.
THEOREM CoilTypes == Spec => []TypeOK
<1>1. Spec => []Inv
  BY InitInv, NextInv, PTL DEF Spec
<1>2. Inv => TypeOK
  BY DEF Inv
<1> QED BY <1>1, <1>2, PTL

-----------------------------------------------------------------------------
(* The memory of a request.                                                *)

\* The bytes of a request hold all its items.
LEMMA BytesHold ==
  ASSUME NEW n \in Nat
  PROVE  ByteBits * Bytes(n) \in Nat /\ ByteBits * Bytes(n) >= n
<1> DEFINE m == n + ByteBits - 1
           q == m \div ByteBits
<1>1. ByteBits \in Nat /\ ByteBits > 0 /\ m \in Nat
  BY SizeAssumption
<1>2. q \in Nat /\ ByteBits * q \in Nat /\ ByteBits * q > m - ByteBits
  <2> HIDE DEF m
  <2> QED BY <1>1
<1> QED BY <1>1, <1>2 DEF Bytes

\* A channel in the range has its bit there.
LEMMA InRangeFits ==
  ASSUME NEW r \in Request, r.start \in Nat, NEW c \in Channel, InRange(r, AddressOf[c])
  PROVE  Written(r, c) /\ ~Overruns(r, c)
<1>1. r.items \in Nat /\ AddressOf[c] \in Nat
  BY AddressType DEF Request
<1> DEFINE room == ByteBits * Bytes(r.items)
<1>2. room \in Nat /\ room >= r.items
  BY <1>1, BytesHold
<1>3. Offset(r, c) \in Nat /\ Offset(r, c) < r.items
  BY <1>1 DEF InRange, Offset
<1>4. Offset(r, c) <= r.items /\ Offset(r, c) \in 0..room - 1
  <2> HIDE DEF room
  <2> QED BY <1>1, <1>2, <1>3
<1> QED BY <1>4 DEF Written, Overruns

LEMMA ExecuteFits ==
  ASSUME Inv, ChainsFit, Execute
  PROVE  ChainsFit'
<1> SUFFICES ASSUME changes = 0 PROVE pc' = "idle" /\ \A c \in Channel : ~error'[c]
  BY DEF Execute, ChainsFit
<1>1. pc = "idle" /\ (\A c \in Channel : ~error[c]) /\ requestId \in 0..IdWrap - 1 /\ ChainsKept
  BY DEF ChainsFit, Inv, TypeOK
<1>2. \/ UNCHANGED <<pc, error>>
      \/ \E r \in Request, nx \in Links :
           /\ r.start \in Nat
           /\ \A c \in Channel : Contains(ChainOf(nx, r), c) => InRange(r, AddressOf[c])
           /\ Send(r, ChainOf(nx, r))
  BY <1>1, ExecuteChains
<1>3. CASE UNCHANGED <<pc, error>>
  BY <1>1, <1>3
<1>4. ASSUME NEW r \in Request, r.start \in Nat, NEW chain, Send(r, chain),
             \A c \in Channel : Contains(chain, c) => InRange(r, AddressOf[c])
      PROVE  pc' = "idle" /\ \A c \in Channel : ~error'[c]
  <2>1. \A c \in Channel : Contains(chain, c) => Written(r, c) /\ ~Overruns(r, c)
    BY <1>4, InRangeFits
  <2>2. pc' = pc
    BY <1>4, <2>1 DEF Send
  <2>3. error' = [c \in Channel |-> (Contains(chain, c) /\ ~Written(r, c)) \/ error[c]]
    BY <1>4 DEF Send
  <2> QED BY <1>1, <2>1, <2>2, <2>3
<1> QED BY <1>2, <1>3, <1>4

LEMMA FitsStep == Inv /\ ChainsFit /\ [Next]_vars => ChainsFit'
<1> SUFFICES ASSUME Inv, ChainsFit, [Next]_vars PROVE ChainsFit'
  OBVIOUS
<1>1. CASE Execute
  BY <1>1, ExecuteFits
<1>2. CASE DeleteChannel \/ CreateChannel
  <2>1. changes \in Nat /\ changes' = changes + 1
    BY <1>2, SizeAssumption DEF DeleteChannel, CreateChannel, Inv, TypeOK
  <2>2. changes' # 0
    BY <2>1
  <2> QED BY <2>2 DEF ChainsFit
<1>3. CASE \/ Receive \/ SetSP \/ DeviceWrites \/ DeviceRefuses
           \/ (\E id \in 0..IdWrap - 1 : ExpireRequest(id)) \/ UNCHANGED vars
  <2>1. UNCHANGED <<pc, error, changes>>
    BY <1>3 DEF Receive, SetSP, DeviceWrites, DeviceRefuses, ExpireRequest, vars, flags
  <2> QED BY <2>1 DEF ChainsFit
<1> QED BY <1>1, <1>2, <1>3 DEF Next

\* However channels come and go, requests end and replies arrive: every walk along
\* toNextChannel (sendRequest, HandleData, the destructor of a request) ends and no
\* channel is linked from two places.  Unless a channel was deleted, every linked
\* channel is in the chain of a request that will let it go, and sendRequest writes
\* no bit outside of the memory it allocates.
THEOREM ChainsEnd == Spec => []ChainsSound
<1>1. Init => ChainsFit
  BY DEF Init, ChainsFit
<1>2. Spec => [](Inv /\ ChainsFit)
  BY <1>1, InitInv, NextInv, FitsStep, PTL DEF Spec
<1>3. Inv /\ ChainsFit => ChainsSound
  BY ChainsKeptSound DEF Inv, ChainsSound
<1> QED BY <1>2, <1>3, PTL

-----------------------------------------------------------------------------
(* What a frame sets.                                                      *)

\* Every bit a frame sets is that of a channel below the slave that is on.
LEMMA FrameSets ==
  ASSUME sp \in [Channel -> Bit], NEW r \in Request, r.start \in Nat,
         NEW chain \in Seq(Channel),
         NEW k \in DOMAIN FrameOf(r, chain).bits, FrameOf(r, chain).bits[k] = 1
  PROVE  \E c \in Channel : /\ Contains(chain, c) /\ sp[c] = 1
                            /\ AddressOf[c] = FrameOf(r, chain).start + k - 1
<1>1. r.items \in Nat
  BY DEF Request
<1>2. /\ FrameOf(r, chain).start = r.start
      /\ FrameOf(r, chain).bits = [j \in 1..r.items |-> BitAt(r, chain, j - 1)]
  BY DEF FrameOf
<1>3. k \in 1..r.items /\ BitAt(r, chain, k - 1) = 1
  BY <1>2
<1>4. PICK c \in Channel : Contains(chain, c) /\ Offset(r, c) = k - 1 /\ sp[c] = 1
  BY <1>3, BitAtIs
<1>5. AddressOf[c] = r.start + k - 1
  BY <1>1, <1>3, <1>4, AddressType DEF Offset
<1> QED BY <1>2, <1>4, <1>5

\* Which frames a step sends: none, or one for a chain of children.
LEMMA OneFrame ==
  ASSUME Inv, [Next]_vars, Len(toDevice') > Len(toDevice)
  PROVE  Execute
<1>1. toDevice \in Seq(Frame) /\ Len(toDevice) \in Nat
  BY DEF Inv, TypeOK
<1>2. CASE toDevice' = toDevice
  BY <1>1, <1>2
<1>3. CASE DeviceWrites \/ DeviceRefuses
  <2>1. toDevice # <<>> /\ toDevice' = Tail(toDevice)
    BY <1>3 DEF DeviceWrites, DeviceRefuses
  <2>2. Len(toDevice') = Len(toDevice) - 1
    BY <1>1, <2>1, HeadTailProperties
  <2> QED BY <1>1, <2>2
<1>4. CASE Receive \/ SetSP \/ DeleteChannel \/ CreateChannel
           \/ (\E id \in 0..IdWrap - 1 : ExpireRequest(id)) \/ UNCHANGED vars
  <2>1. toDevice' = toDevice
    BY <1>4 DEF Receive, SetSP, DeleteChannel, CreateChannel, ExpireRequest, vars, device
  <2> QED BY <1>2, <2>1
<1> QED BY <1>3, <1>4 DEF Next

\* A frame sets a coil only for a channel below the slave that has its address and
\* is on, also with gaps between the addresses, after channels were deleted, and
\* for channels whose link failed.
THEOREM StrangersNeverSet == Spec => NeverSetsStrangers
<1> DEFINE Own == Len(toDevice') > Len(toDevice) =>
             LET f == Last(toDevice') IN
             \A k \in DOMAIN f.bits :
               f.bits[k] = 1 => \E c \in Channel : /\ Contains(children, c)
                                                   /\ AddressOf[c] = f.start + k - 1
                                                   /\ sp[c] = 1
<1>1. ASSUME Inv, [Next]_vars PROVE Own
  <2> SUFFICES ASSUME Len(toDevice') > Len(toDevice),
                      NEW k \in DOMAIN Last(toDevice').bits, Last(toDevice').bits[k] = 1
               PROVE  \E c \in Channel : /\ Contains(children, c)
                                         /\ AddressOf[c] = Last(toDevice').start + k - 1
                                         /\ sp[c] = 1
    OBVIOUS
  <2>1. toDevice \in Seq(Frame) /\ sp \in [Channel -> Bit] /\ Len(toDevice) \in Nat
    BY <1>1 DEF Inv, TypeOK
  <2>2. Execute
    BY <1>1, OneFrame
  <2>3. toDevice' # toDevice
    BY <2>1
  <2>4. PICK r \in Request, chain \in Seq(Channel) :
          /\ r.start \in Nat /\ toDevice' = Append(toDevice, FrameOf(r, chain))
          /\ \A c \in Channel : Contains(chain, c) => Contains(children, c)
    BY <1>1, <2>2, <2>3, ExecuteInv
  <2> DEFINE f == FrameOf(r, chain)
  <2>5. Last(toDevice') = f
    <3> HIDE DEF f
    <3> QED BY <2>1, <2>4, AppendProperties DEF Last, f
  <2>6. PICK c \in Channel : Contains(chain, c) /\ sp[c] = 1 /\ AddressOf[c] = f.start + k - 1
    BY <2>1, <2>4, <2>5, FrameSets
  <2> QED BY <2>4, <2>5, <2>6
<1>2. Spec => []Inv
  BY InitInv, NextInv, PTL DEF Spec
<1> QED BY <1>1, <1>2, PTL DEF Spec, NeverSetsStrangers

-----------------------------------------------------------------------------
(* Replies in the stream.                                                  *)

\* Where the reply behind the one at p begins, and whether the one at p is there.
Behind(s, p) == p + 6 + Word(s, p + 4)
There(s, p) == ~(p + 8 > Len(s) \/ Behind(s, p) > Len(s) + 1)

\* A set of places that goes on wherever a reply is there.
GoesOn(s, S) == \A p \in S : There(s, p) => Behind(s, p) \in S
IsBegins(s, f) ==
  f = [p \in 1..Len(s) + 1 |->
         IF p + 8 > Len(s) \/ p + 6 + Word(s, p + 4) > Len(s) + 1 THEN {p}
         ELSE {p} \cup f[p + 6 + Word(s, p + 4)]]

LEMMA BehindType ==
  ASSUME NEW s \in Seq(Byte), NEW p \in 1..Len(s) + 1, There(s, p)
  PROVE  Word(s, p + 4) \in Nat /\ Behind(s, p) \in 1..Len(s) + 1 /\ Behind(s, p) > p
<1>1. Len(s) \in Nat /\ p + 8 <= Len(s)
  BY DEF There
<1>2. Word(s, p + 4) \in Nat
  <2>1. p + 4 \in 1..Len(s) /\ (p + 4) + 1 <= Len(s)
    BY <1>1
  <2> QED BY <2>1, WordType
<1> QED BY <1>1, <1>2 DEF There, Behind

\* The places from p on are the least set with p that goes on: so the recursive
\* function of Begins exists.
LEMMA BeginsIs ==
  ASSUME NEW s \in Seq(Byte)
  PROVE  \E f : IsBegins(s, f) /\ Begins(s) = f[1]
<1> DEFINE L == Len(s)
           P == 1..L + 1
           Sets(p) == {S \in SUBSET P : p \in S /\ GoesOn(s, S)}
           From(p) == {q \in P : \A S \in Sets(p) : q \in S}
           F == [p \in P |-> From(p)]
<1>1. L \in Nat
  OBVIOUS
<1>2. \A p \in P : There(s, p) => Behind(s, p) \in P
  BY BehindType
<1>3. ASSUME NEW p \in P, ~There(s, p) PROVE F[p] = {p}
  <2>1. {p} \in Sets(p)
    BY <1>3 DEF GoesOn
  <2>2. From(p) \subseteq {p}
    BY <2>1
  <2>3. p \in From(p)
    OBVIOUS
  <2> HIDE DEF From, P
  <2> QED BY <2>2, <2>3
<1>4. ASSUME NEW p \in P, There(s, p) PROVE F[p] = {p} \cup F[Behind(s, p)]
  <2> DEFINE b == Behind(s, p)
  <2>1. b \in P
    BY <1>2, <1>4
  <2>2. {p} \cup From(b) \in Sets(p)
    <3>1. ASSUME NEW q \in From(b), There(s, q) PROVE Behind(s, q) \in From(b)
      <4>1. Behind(s, q) \in P
        BY <1>2, <3>1
      <4>2. \A S \in Sets(b) : Behind(s, q) \in S
        BY <3>1 DEF GoesOn
      <4> HIDE DEF Sets, P
      <4> QED BY <4>1, <4>2
    <3>2. b \in From(b)
      BY <2>1
    <3>3. {p} \cup From(b) \subseteq P
      OBVIOUS
    <3> HIDE DEF From, P
    <3> QED BY <3>1, <3>2, <3>3 DEF GoesOn
  <2>3. ASSUME NEW S \in Sets(p) PROVE S \in Sets(b)
    BY <1>4 DEF GoesOn
  <2>4. From(p) = {p} \cup From(b)
    <3> HIDE DEF P, b
    <3>1. From(p) \subseteq {p} \cup From(b)
      BY <2>2
    <3>2. From(b) \subseteq From(p)
      BY <2>3
    <3>3. p \in From(p)
      OBVIOUS
    <3> HIDE DEF From
    <3> QED BY <3>1, <3>2, <3>3
  <2> HIDE DEF From, P
  <2> QED BY <2>1, <2>4
<1>5. IsBegins(s, F)
  <2> DEFINE Body(p) == IF p + 8 > Len(s) \/ p + 6 + Word(s, p + 4) > Len(s) + 1 THEN {p}
                        ELSE {p} \cup F[p + 6 + Word(s, p + 4)]
  <2>1. ASSUME NEW p \in P PROVE F[p] = Body(p)
    <3> HIDE DEF F, P
    <3> QED BY <1>3, <1>4 DEF There, Behind
  <2>2. F = [p \in P |-> F[p]]
    OBVIOUS
  <2> HIDE DEF F
  <2> QED BY <2>1, <2>2 DEF IsBegins
<1> DEFINE from == CHOOSE f : IsBegins(s, f)
<1>6. IsBegins(s, from)
  <2> HIDE DEF F
  <2> QED BY <1>5, Zenon
<1>7. Begins(s) = from[1]
  BY DEF Begins, IsBegins
<1> HIDE DEF from
<1> QED BY <1>6, <1>7

\* Where no reply is whole nothing begins but what is in front.
LEMMA BeginsFirst ==
  ASSUME NEW s \in Seq(Byte), ~Complete(s)
  PROVE  Begins(s) = {1}
<1>1. PICK f : IsBegins(s, f) /\ Begins(s) = f[1]
  BY BeginsIs
<1>2. Len(s) \in Nat /\ 1 \in 1..Len(s) + 1
  OBVIOUS
<1>3. f[1] = IF 1 + 8 > Len(s) \/ 1 + 6 + Word(s, 1 + 4) > Len(s) + 1 THEN {1}
             ELSE {1} \cup f[1 + 6 + Word(s, 1 + 4)]
  BY <1>1, <1>2 DEF IsBegins
<1>4. 1 + 8 > Len(s) \/ 1 + 6 + Word(s, 1 + 4) > Len(s) + 1
  <2>1. CASE ~(Len(s) >= 9)
    BY <1>2, <2>1
  <2>2. CASE Len(s) >= 9 /\ ~(Len(s) >= Word(s, 5) + 6)
    <3>1. Word(s, 5) \in Nat
      BY <1>2, <2>2, WordType
    <3>2. 1 + 4 = 5
      OBVIOUS
    <3> QED BY <1>2, <2>2, <3>1, <3>2
  <2> QED BY <2>1, <2>2 DEF Complete
<1> QED BY <1>1, <1>3, <1>4

\* The stream is cut into replies of nine and of twelve bytes, from its first byte
\* to its last: P holds where they begin, and the place behind the last one.
IsCut(s, P) ==
  /\ P \subseteq 1..Len(s) + 1 /\ 1 \in P /\ Len(s) + 1 \in P
  /\ \A p \in P : p # Len(s) + 1 =>
       /\ p + 8 <= Len(s) /\ Word(s, p + 4) \in {3, 6}
       /\ Behind(s, p) \in P
InStep(s) == \E P : IsCut(s, P)

\* All of these are met from the first byte on.
LEMMA InStepBegins ==
  ASSUME NEW s \in Seq(Byte), InStep(s)
  PROVE  Len(s) + 1 \in Begins(s)
<1> DEFINE L == Len(s)
<1>1. PICK P : IsCut(s, P)
  BY DEF InStep
<1>2. PICK f : IsBegins(s, f) /\ Begins(s) = f[1]
  BY BeginsIs
<1>3. L \in Nat
  OBVIOUS
<1> DEFINE S == {n \in Nat : \A p \in P : p = L + 1 - n => L + 1 \in f[p]}
<1>4. ASSUME NEW n \in Nat, \A m \in Nat : m < n => m \in S PROVE n \in S
  <2> SUFFICES ASSUME NEW p \in P, p = L + 1 - n PROVE L + 1 \in f[p]
    OBVIOUS
  <2>1. p \in 1..L + 1
    BY <1>1 DEF IsCut
  <2>2. f[p] = IF p + 8 > L \/ Behind(s, p) > L + 1 THEN {p} ELSE {p} \cup f[Behind(s, p)]
    BY <1>2, <2>1 DEF IsBegins, Behind
  <2>3. CASE p = L + 1
    BY <2>2, <2>3
  <2>4. CASE p # L + 1
    <3>1. p + 8 <= L /\ Word(s, p + 4) \in {3, 6} /\ Behind(s, p) \in P
      BY <1>1, <2>4 DEF IsCut
    <3>2. Behind(s, p) \in 1..L + 1
      BY <1>1, <3>1 DEF IsCut
    <3>3. Behind(s, p) > p
      BY <2>1, <3>1 DEF Behind
    <3> DEFINE b == Behind(s, p)
    <3> HIDE DEF b
    <3>4. b \in P /\ b \in 1..L + 1 /\ b > p
      BY <3>1, <3>2, <3>3 DEF b
    <3>5. L + 1 - b \in Nat /\ L + 1 - b < n /\ b = L + 1 - (L + 1 - b)
      BY <1>3, <2>1, <3>4
    <3>6. L + 1 \in f[b]
      BY <1>4, <3>4, <3>5
    <3>7. ~(p + 8 > L \/ b > L + 1)
      BY <1>3, <2>1, <3>1, <3>4
    <3>8. f[p] = {p} \cup f[b]
      BY <2>2, <3>7 DEF b
    <3> QED BY <3>6, <3>8
  <2> QED BY <2>3, <2>4
<1>5. Nat \subseteq S
  <2> HIDE DEF S
  <2> QED BY <1>4, AllNumbers
<1>6. L \in S /\ 1 \in P /\ 1 = L + 1 - L
  BY <1>1, <1>3, <1>5 DEF IsCut
<1> QED BY <1>2, <1>6

\* A reply of the device behind the others.
LEMMA AppendInStep ==
  ASSUME NEW s \in Seq(Byte), InStep(s), NEW r \in Seq(Byte),
         Len(r) \in {9, 12}, r[5] = 0, r[6] = Len(r) - 6
  PROVE  InStep(s \o r)
<1> DEFINE L == Len(s)
           n == Len(r)
           t == s \o r
<1>1. PICK P : IsCut(s, P)
  BY DEF InStep
<1>2. /\ L \in Nat /\ n \in {9, 12} /\ t \in Seq(Byte) /\ Len(t) = L + n
      /\ \A k \in 1..L + n : t[k] = IF k <= L THEN s[k] ELSE r[k - L]
  BY ConcatProperties
<1> DEFINE Q == P \cup {L + n + 1}
<1>3. P \subseteq 1..L + 1 /\ L + 1 \in P /\ 1 \in P
  BY <1>1 DEF IsCut
<1>4. Q \subseteq 1..L + n + 1 /\ 1 \in Q /\ L + n + 1 \in Q
  <2> HIDE DEF L, n, t
  <2> QED BY <1>2, <1>3
<1>5. ASSUME NEW p \in P, p # L + 1
      PROVE  p + 8 <= L + n /\ Word(t, p + 4) \in {3, 6} /\ Behind(t, p) \in Q
  <2>1. p + 8 <= L /\ Word(s, p + 4) \in {3, 6} /\ Behind(s, p) \in P /\ p \in 1..L + 1
    BY <1>1, <1>3, <1>5 DEF IsCut
  <2>2. p + 4 \in 1..L + n /\ p + 4 <= L /\ p + 4 + 1 \in 1..L + n /\ p + 4 + 1 <= L
    BY <1>2, <2>1
  <2> HIDE DEF L, n, t
  <2>3. t[p + 4] = s[p + 4] /\ t[p + 4 + 1] = s[p + 4 + 1]
    BY <1>2, <2>2
  <2>4. Word(t, p + 4) = Word(s, p + 4)
    BY <2>3 DEF Word
  <2> QED BY <1>2, <2>1, <2>4 DEF Behind
<1>6. /\ L + 1 + 8 <= L + n /\ Word(t, L + 1 + 4) \in {3, 6}
      /\ Behind(t, L + 1) \in Q
  <2>1. L + 1 + 4 = L + 5 /\ L + 5 \in 1..L + n /\ L + 5 + 1 \in 1..L + n
        /\ ~(L + 5 <= L) /\ ~(L + 5 + 1 <= L) /\ L + 5 - L = 5 /\ L + 5 + 1 - L = 6
    BY <1>2
  <2>2. t[L + 5] = 0 /\ t[L + 5 + 1] = n - 6
    <3> HIDE DEF L, t
    <3> QED BY <1>2, <2>1
  <2> HIDE DEF L, n, t
  <2>3. Word(t, L + 5) = n - 6
    BY <1>2, <2>2 DEF Word
  <2>4. Behind(t, L + 1) = L + n + 1
    BY <1>2, <2>1, <2>3 DEF Behind
  <2> QED BY <1>2, <2>1, <2>3, <2>4
<1>7. IsCut(t, Q)
  <2>1. Len(t) + 1 = L + n + 1
    BY <1>2
  <2>2. ASSUME NEW p \in Q, p # L + n + 1
        PROVE  p + 8 <= L + n /\ Word(t, p + 4) \in {3, 6} /\ Behind(t, p) \in Q
    <3>1. p \in P
      BY <2>2
    <3> HIDE DEF Q, t, L, n
    <3> QED BY <1>5, <1>6, <3>1
  <2> HIDE DEF Q, t
  <2> QED BY <1>2, <1>4, <2>1, <2>2 DEF IsCut
<1> QED BY <1>7 DEF InStep

\* A whole reply in front is taken away, e is what is still on its way.
LEMMA DropInStep ==
  ASSUME NEW d \in Seq(Byte), NEW e \in Seq(Byte), InStep(d \o e), Complete(d)
  PROVE  Word(d, 5) \in {3, 6} /\ InStep(BehindReply(d) \o e)
<1> DEFINE s == d \o e
           b == BehindReply(d)
           h == Word(d, 5) + 6
           t == b \o e
<1>1. PICK P : IsCut(s, P)
  BY DEF InStep
<1>2. /\ Word(d, 5) \in Nat /\ Len(d) \in Nat /\ Len(d) >= 9 /\ Len(d) >= h
      /\ b \in Seq(Byte) /\ Len(b) = Len(d) - h
      /\ \A k \in 1..Len(d) - h : b[k] = d[k + h]
  BY BehindIs
<1>3. /\ Len(e) \in Nat /\ s \in Seq(Byte) /\ Len(s) = Len(d) + Len(e)
      /\ \A k \in 1..Len(d) + Len(e) : s[k] = IF k <= Len(d) THEN d[k] ELSE e[k - Len(d)]
  BY ConcatProperties
<1>4. /\ t \in Seq(Byte) /\ Len(t) = Len(b) + Len(e)
      /\ \A k \in 1..Len(b) + Len(e) : t[k] = IF k <= Len(b) THEN b[k] ELSE e[k - Len(b)]
  <2> HIDE DEF b
  <2> QED BY <1>2, ConcatProperties
<1>5. h \in Nat /\ h >= 6 /\ Len(t) = Len(s) - h /\ h <= Len(s)
  <2> HIDE DEF b, t, s
  <2> QED BY <1>2, <1>3, <1>4
<1>6. ASSUME NEW k \in 1..Len(t) PROVE t[k] = s[k + h]
  <2> HIDE DEF b, t, s, h
  <2>1. k \in 1..Len(b) + Len(e) /\ k + h \in 1..Len(d) + Len(e)
    BY <1>2, <1>3, <1>4, <1>5
  <2>2. CASE k <= Len(b)
    <3>1. t[k] = b[k] /\ k \in 1..Len(d) - h /\ k + h <= Len(d)
      BY <1>2, <1>4, <1>5, <2>1, <2>2
    <3> QED BY <1>2, <1>3, <2>1, <3>1
  <2>3. CASE ~(k <= Len(b))
    <3>1. t[k] = e[k - Len(b)] /\ ~(k + h <= Len(d)) /\ k - Len(b) = k + h - Len(d)
      BY <1>2, <1>4, <1>5, <2>1, <2>3
    <3> DEFINE j == k + h
    <3>2. j \in 1..Len(d) + Len(e) /\ ~(j <= Len(d)) /\ t[k] = e[j - Len(d)]
      <4>1. t[k] = e[k - Len(b)] /\ k - Len(b) = j - Len(d) /\ ~(j <= Len(d))
        BY <1>2, <1>3, <1>5, <2>1, <3>1
      <4>2. j \in 1..Len(d) + Len(e)
        BY <2>1
      <4> HIDE DEF j
      <4> QED BY <4>1, <4>2
    <3> HIDE DEF j
    <3>3. s[j] = e[j - Len(d)]
      BY <1>3, <3>2
    <3> QED BY <3>2, <3>3 DEF j
  <2> QED BY <2>2, <2>3
<1>7. P \subseteq 1..Len(s) + 1 /\ 1 \in P /\ Len(s) + 1 \in P
  BY <1>1 DEF IsCut
<1>8. Word(d, 5) \in {3, 6} /\ 1 + h \in P
  <2>1. 1 # Len(s) + 1
    BY <1>2, <1>3
  <2>2. Word(s, 1 + 4) \in {3, 6} /\ Behind(s, 1) \in P
    BY <1>1, <1>7, <2>1 DEF IsCut
  <2>3. 1 + 4 = 5 /\ s[5] = d[5] /\ s[5 + 1] = d[5 + 1]
    BY <1>2, <1>3
  <2>4. Word(s, 5) = Word(d, 5)
    BY <2>3 DEF Word
  <2>5. Behind(s, 1) = 1 + h
    BY <1>2, <2>3, <2>4 DEF Behind
  <2> QED BY <2>2, <2>3, <2>4, <2>5
<1> DEFINE Q == {q \in 1..Len(t) + 1 : q + h \in P}
<1>9. Q \subseteq 1..Len(t) + 1 /\ 1 \in Q /\ Len(t) + 1 \in Q
  <2> HIDE DEF t, s, h
  <2> QED BY <1>3, <1>5, <1>7, <1>8
<1>10. ASSUME NEW q \in Q, q # Len(t) + 1
       PROVE  q + 8 <= Len(t) /\ Word(t, q + 4) \in {3, 6} /\ Behind(t, q) \in Q
  <2> DEFINE p == q + h
  <2> HIDE DEF t, s, h
  <2>1. p \in P /\ q \in 1..Len(t) + 1 /\ p # Len(s) + 1 /\ Len(s) \in Nat
    BY <1>3, <1>5, <1>10
  <2>2. p + 8 <= Len(s) /\ Word(s, p + 4) \in {3, 6} /\ Behind(s, p) \in P
    BY <1>1, <2>1 DEF IsCut
  <2>3. q + 8 <= Len(t)
    BY <1>5, <2>1, <2>2
  <2>4. /\ q + 4 \in 1..Len(t) /\ q + 4 + 1 \in 1..Len(t)
        /\ q + 4 + h = p + 4 /\ q + 4 + 1 + h = p + 4 + 1
    BY <1>5, <2>1, <2>3
  <2>5. t[q + 4] = s[p + 4] /\ t[q + 4 + 1] = s[p + 4 + 1]
    <3> HIDE DEF p
    <3> QED BY <1>6, <2>4
  <2>6. Word(t, q + 4) = Word(s, p + 4)
    BY <2>5 DEF Word
  <2>7. Behind(t, q) + h = Behind(s, p) /\ Behind(s, p) \in 1..Len(s) + 1
        /\ Behind(t, q) > q /\ Behind(t, q) \in Int
    <3>1. Behind(s, p) \in 1..Len(s) + 1
      BY <1>7, <2>2
    <3>2. Behind(t, q) = q + 6 + Word(s, p + 4) /\ Behind(s, p) = p + 6 + Word(s, p + 4)
      BY <2>6 DEF Behind
    <3> DEFINE w == Word(s, p + 4)
    <3>3. w \in {3, 6} /\ Behind(t, q) = q + 6 + w /\ Behind(s, p) = p + 6 + w
      BY <2>2, <3>2
    <3> HIDE DEF w
    <3> QED BY <1>5, <2>1, <3>1, <3>3
  <2>8. Behind(t, q) \in 1..Len(t) + 1
    BY <1>5, <2>1, <2>7
  <2> HIDE DEF p
  <2> QED BY <2>2, <2>3, <2>6, <2>7, <2>8
<1>11. IsCut(t, Q)
  <2> HIDE DEF t, Q
  <2> QED BY <1>9, <1>10 DEF IsCut
<1> QED BY <1>8, <1>11 DEF InStep

\* The loop of HandleData takes replies away until none is whole.
LEMMA HandleInStep ==
  ASSUME NEW s \in HandleState, NEW e \in Seq(Byte), InStep(s.data \o e)
  PROVE  /\ HandleAll(s).data \in Seq(Byte) /\ ~Complete(HandleAll(s).data)
         /\ InStep(HandleAll(s).data \o e)
<1> DEFINE L == Len(s.data)
<1>1. PICK f : IsHandle(s, f) /\ HandleAll(s) = f[L \div 9]
  BY HandleSteps
<1>2. L \in Nat /\ s.data \in Seq(Byte)
  BY DEF HandleState
<1> DEFINE Left(t, n) ==
             /\ t \in HandleState /\ InStep(t.data \o e)
             /\ ~Complete(t.data) \/ Len(t.data) <= L - 9 * n
           T == {n \in 0..L : Left(f[n], n)}
<1>3. 0 \in T
  BY <1>1, <1>2 DEF IsHandle
<1>4. ASSUME NEW n \in 1..L, n - 1 \in T PROVE n \in T
  <2> DEFINE t == f[n - 1]
  <2>1. f[n] = HandleStep(t) /\ Left(t, n - 1) /\ t.data \in Seq(Byte)
    BY <1>1, <1>4 DEF IsHandle, HandleState
  <2>2. CASE ~Complete(t.data)
    <3>1. f[n] = t
      BY <2>1, <2>2 DEF HandleStep
    <3>2. Left(f[n], n)
      <4> HIDE DEF t
      <4> QED BY <2>1, <2>2, <3>1
    <3> HIDE DEF Left
    <3> QED BY <3>2
  <2>3. CASE Complete(t.data)
    <3>1. f[n] = HandleReply(t) /\ Len(t.data) <= L - 9 * (n - 1)
      BY <2>1, <2>3 DEF HandleStep
    <3>2. f[n] \in HandleState /\ f[n].data = BehindReply(t.data)
      BY <2>1, <2>3, <3>1, HandleIs
    <3>3. Word(t.data, 5) \in {3, 6} /\ InStep(f[n].data \o e)
      BY <2>1, <2>3, <3>2, DropInStep
    <3>4. Len(f[n].data) = Len(t.data) - (Word(t.data, 5) + 6) /\ Len(t.data) \in Nat
      BY <2>1, <2>3, <3>2, BehindIs
    <3> DEFINE w == Word(t.data, 5)
               m == Len(t.data)
    <3>5. m \in Nat /\ w \in {3, 6} /\ m <= L - 9 * (n - 1) /\ Len(f[n].data) = m - (w + 6)
      BY <3>1, <3>3, <3>4
    <3> HIDE DEF w, m, L
    <3>6. Len(f[n].data) <= L - 9 * n
      BY <1>2, <3>5
    <3> QED BY <3>2, <3>3, <3>6
  <2> QED BY <2>2, <2>3
<1>5. 0..L \subseteq T
  <2> HIDE DEF T, L
  <2> QED BY <1>2, <1>3, <1>4, UpTo
<1>6. L \div 9 \in 0..L /\ L - 9 * (L \div 9) \in 0..8
  <2> HIDE DEF L
  <2> QED BY <1>2, NineIs
<1>7. Left(f[L \div 9], L \div 9)
  BY <1>5, <1>6
<1>8. ASSUME NEW t \in HandleState, Len(t.data) <= L - 9 * (L \div 9) PROVE ~Complete(t.data)
  <2>1. Len(t.data) \in Nat
    BY DEF HandleState
  <2> HIDE DEF L
  <2> QED BY <1>6, <1>8, <2>1 DEF Complete
<1> HIDE DEF L
<1> QED BY <1>1, <1>7, <1>8 DEF HandleState

\* Between two calls of HandleData no whole reply waits, and the bytes that are
\* there and those on their way are cut into replies.
StreamKept == InStep(inData \o toSlave) /\ ~Complete(inData)

LEMMA ReceiveStream ==
  ASSUME Inv, StreamKept, Receive
  PROVE  StreamKept'
<1>1. PICK n \in Pieces :
        LET piece == SubSeq(toSlave, 1, IF n < Len(toSlave) THEN n ELSE Len(toSlave))
            s == HandleAll([data |-> inData \o piece, requests |-> requests, next |-> next])
        IN /\ inData' = s.data
           /\ toSlave' = SubSeq(toSlave, n + 1, Len(toSlave))
  BY DEF Receive
<1> DEFINE m == IF n < Len(toSlave) THEN n ELSE Len(toSlave)
           piece == SubSeq(toSlave, 1, m)
           rest == SubSeq(toSlave, n + 1, Len(toSlave))
           t == [data |-> inData \o piece, requests |-> requests, next |-> next]
<1>2. /\ n \in Nat \ {0} /\ Len(toSlave) \in Nat
      /\ inData \in Seq(Byte) /\ toSlave \in Seq(Byte)
      /\ requests \in Seq(Request) /\ next \in Links
  BY SizeAssumption DEF Inv, TypeOK, Byte, Links
<1>3. /\ piece \in Seq(Byte) /\ rest \in Seq(Byte)
      /\ toSlave = piece \o rest
  <2>1. /\ m \in 0..Len(toSlave)
        /\ n < Len(toSlave) => m = n
        /\ ~(n < Len(toSlave)) => m = Len(toSlave)
    BY <1>2
  <2> DEFINE k == Len(toSlave) - m
  <2>2. /\ piece \in Seq(Byte) /\ Len(piece) = m
        /\ \A i \in 1..m : piece[i] = toSlave[i]
    <3> HIDE DEF m
    <3> QED BY <1>2, <2>1
  <2>3. /\ rest \in Seq(Byte) /\ Len(rest) = k
        /\ \A i \in 1..k : rest[i] = toSlave[i + m]
    <3> HIDE DEF m
    <3>1. CASE n < Len(toSlave)
      BY <1>2, <2>1, <3>1
    <3>2. CASE ~(n < Len(toSlave))
      BY <1>2, <2>1, <3>2
    <3> QED BY <3>1, <3>2
  <2> HIDE DEF piece, rest, m
  <2>4. /\ piece \o rest \in Seq(Byte) /\ Len(piece \o rest) = Len(toSlave)
        /\ \A i \in 1..Len(toSlave) :
             (piece \o rest)[i] = IF i <= m THEN piece[i] ELSE rest[i - m]
    <3>1. m + k = Len(toSlave)
      BY <1>2, <2>1
    <3> HIDE DEF k
    <3>2. /\ piece \o rest \in Seq(Byte) /\ Len(piece \o rest) = Len(piece) + Len(rest)
          /\ \A i \in 1..Len(piece) + Len(rest) :
               (piece \o rest)[i] = IF i <= Len(piece) THEN piece[i] ELSE rest[i - Len(piece)]
      BY <2>2, <2>3, ConcatProperties
    <3> QED BY <2>2, <2>3, <3>1, <3>2
  <2>5. ASSUME NEW i \in 1..Len(toSlave) PROVE (piece \o rest)[i] = toSlave[i]
    <3>1. CASE i <= m
      BY <2>1, <2>2, <2>4, <3>1
    <3>2. CASE ~(i <= m)
      <4>1. i - m \in 1..k /\ (i - m) + m = i
        BY <1>2, <2>1, <3>2
      <4> QED BY <2>3, <2>4, <3>2, <4>1
    <3> QED BY <3>1, <3>2
  <2> QED BY <1>2, <2>2, <2>3, <2>4, <2>5, SeqEqual
<1>4. inData \o toSlave = (inData \o piece) \o rest
  <2> HIDE DEF piece, rest
  <2> QED BY <1>2, <1>3
<1>5. t \in HandleState
  <2> HIDE DEF piece
  <2>1. inData \o piece \in Seq(Byte)
    BY <1>2, <1>3, ConcatProperties
  <2> QED BY <1>2, <2>1 DEF HandleState
<1>6. InStep(t.data \o rest)
  BY <1>4 DEF StreamKept
<1>7. inData' = HandleAll(t).data /\ toSlave' = rest
  BY <1>1
<1> HIDE DEF t, rest
<1> QED BY <1>3, <1>5, <1>6, <1>7, HandleInStep DEF StreamKept

LEMMA JoinJoin ==
  ASSUME NEW x \in Seq(Byte), NEW y \in Seq(Byte), NEW z \in Seq(Byte)
  PROVE  x \o (y \o z) = (x \o y) \o z
OBVIOUS

LEMMA ReplyStream ==
  ASSUME Inv, StreamKept, NEW id \in 0..IdWrap - 1, NEW ok \in BOOLEAN,
         inData' = inData, toSlave' = toSlave \o ReplyFrame(id, ok)
  PROVE  StreamKept'
<1> DEFINE r == ReplyFrame(id, ok)
<1>1. inData \in Seq(Byte) /\ toSlave \in Seq(Byte) /\ inData \o toSlave \in Seq(Byte)
  BY ConcatProperties DEF Inv, TypeOK, Byte
<1>2. r \in Seq(Byte) /\ Len(r) \in {9, 12} /\ r[5] = 0 /\ r[6] = Len(r) - 6
  <2>1. r \in Seq(Byte) /\ Len(r) = (IF ok THEN 12 ELSE 9) /\ r[5] = 0 /\ r[6] = IF ok THEN 6 ELSE 3
    BY ReplyIs
  <2> HIDE DEF r
  <2> QED BY <2>1
<1>3. toSlave' = toSlave \o r
  OBVIOUS
<1> HIDE DEF r
<1>4. InStep((inData \o toSlave) \o r)
  BY <1>1, <1>2, AppendInStep DEF StreamKept
<1>5. inData' \o toSlave' = (inData \o toSlave) \o r
  <2>1. r \in Seq(Byte) /\ inData \in Seq(Byte) /\ toSlave \in Seq(Byte)
    BY <1>1, <1>2
  <2>2. inData \o (toSlave \o r) = (inData \o toSlave) \o r
    BY <2>1, JoinJoin, Zenon
  <2>3. inData' = inData
    OBVIOUS
  <2> QED BY <1>3, <2>2, <2>3, Zenon
<1> QED BY <1>4, <1>5 DEF StreamKept

LEMMA StreamStep == Inv /\ StreamKept /\ [Next]_vars => StreamKept'
<1> SUFFICES ASSUME Inv, StreamKept, [Next]_vars PROVE StreamKept'
  OBVIOUS
<1>1. CASE Receive
  BY <1>1, ReceiveStream
<1>2. CASE DeviceWrites \/ DeviceRefuses
  <2>1. toDevice # <<>> /\ toDevice \in Seq(Frame)
    BY <1>2 DEF DeviceWrites, DeviceRefuses, Inv, TypeOK
  <2>2. Head(toDevice) \in Frame
    BY <2>1, HeadTailProperties
  <2>3. Head(toDevice).id \in 0..IdWrap - 1
    BY <2>2 DEF Frame
  <2>4. /\ inData' = inData
        /\ \/ toSlave' = toSlave
           \/ \E ok \in BOOLEAN : toSlave' = toSlave \o ReplyFrame(Head(toDevice).id, ok)
    BY <1>2 DEF DeviceWrites, DeviceRefuses
  <2>5. CASE toSlave' = toSlave
    BY <2>4, <2>5 DEF StreamKept
  <2>6. CASE \E ok \in BOOLEAN : toSlave' = toSlave \o ReplyFrame(Head(toDevice).id, ok)
    BY <2>3, <2>4, <2>6, ReplyStream
  <2> QED BY <2>4, <2>5, <2>6
<1>3. CASE Execute \/ SetSP \/ DeleteChannel \/ CreateChannel
           \/ (\E id \in 0..IdWrap - 1 : ExpireRequest(id)) \/ UNCHANGED vars
  <2>1. inData' = inData /\ toSlave' = toSlave
    BY <1>3 DEF Execute, SetSP, DeleteChannel, CreateChannel, ExpireRequest, vars
  <2> QED BY <2>1 DEF StreamKept
<1> QED BY <1>1, <1>2, <1>3 DEF Next

LEMMA StreamInit == Init => StreamKept
<1> SUFFICES ASSUME Init PROVE StreamKept
  OBVIOUS
<1>1. inData = <<>> /\ toSlave = <<>>
  BY DEF Init
<1>2. inData \o toSlave = <<>> /\ Len(inData) = 0
  BY <1>1
<1>3. IsCut(<<>>, {1})
  <2>1. Len(<<>>) = 0 /\ 0 + 1 = 1
    OBVIOUS
  <2> QED BY <2>1 DEF IsCut
<1> QED BY <1>2, <1>3 DEF StreamKept, InStep, Complete

\* However TCP cuts the replies into pieces: readPT stays where a reply begins, from
\* there to the last byte on its way there are whole replies and nothing else, and
\* HandleData leaves no whole reply behind.
THEOREM RepliesInStep == Spec => []StreamInStep
<1>1. ASSUME Inv, StreamKept PROVE StreamInStep
  <2>1. inData \in Seq(Byte) /\ toSlave \in Seq(Byte) /\ inData \o toSlave \in Seq(Byte)
    BY <1>1, ConcatProperties DEF Inv, TypeOK, Byte
  <2>2. Len(inData \o toSlave) + 1 \in Begins(inData \o toSlave)
    BY <1>1, <2>1, InStepBegins DEF StreamKept
  <2>3. Begins(inData) = {1}
    BY <1>1, <2>1, BeginsFirst DEF StreamKept
  <2> QED BY <2>2, <2>3 DEF StreamInStep
<1>2. Inv /\ StreamKept => StreamInStep
  BY <1>1
<1>3. Spec => [](Inv /\ StreamKept)
  BY InitInv, NextInv, StreamInit, StreamStep, PTL DEF Spec
<1> QED BY <1>2, <1>3, PTL
=============================================================================
