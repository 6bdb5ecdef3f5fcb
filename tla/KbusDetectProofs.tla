-------------------------- MODULE KbusDetectProofs --------------------------
(***************************************************************************)
(* Proofs about KbusDetect, for every rack: the clamps are apart and, when *)
(* a detection has succeeded, cover the rack; the com block, slots and     *)
(* numbers are right.                                                      *)
(***************************************************************************)
EXTENDS KbusDetect, FiniteSetTheorems, TLAPS

\* The record a rack holds for a terminal.
IsTerminal(t) ==
  /\ t.in \in Nat /\ t.inSize \in Nat /\ t.out \in Nat /\ t.outSize \in Nat
  /\ t.channels \in Nat

Images == {"in", "out"}

-----------------------------------------------------------------------------
(* Arithmetic.                                                             *)

\* Shares of a number of bytes add up to no more than that number.
LEMMA SharesFit ==
  ASSUME NEW a \in Nat, NEW b \in Nat, b > 0
  PROVE  (a \div b) \in Nat /\ (a \div b) * b <= a
  OBVIOUS

\* A multiple of a smaller number is smaller by a whole share.
LEMMA StepsGrow ==
  ASSUME NEW j \in Nat, NEW l \in Nat, j < l, NEW s \in Nat
  PROVE  j * s \in Nat /\ j * s + s <= l * s
<1>1. (j + 1) * s <= l * s
  OBVIOUS
<1> QED
  BY <1>1

\* A bit address, put together from its byte and its bit, is the position.
LEMMA BitAddress ==
  ASSUME NEW pos \in Nat, NEW j \in Nat, NEW class
  PROVE  /\ DigitalClamp(class, pos, j).byte \in Nat
         /\ DigitalClamp(class, pos, j).bit \in 0..7
         /\ 8 * DigitalClamp(class, pos, j).byte + DigitalClamp(class, pos, j).bit = pos + j
  BY DEF DigitalClamp, NewClamp

-----------------------------------------------------------------------------
(* One clamp: the bits it stands for.                                      *)

\* A digital clamp stands for one bit of the image of its class.
LEMMA DigitalBits ==
  ASSUME NEW pos \in Nat, NEW j \in Nat, NEW image \in Images
  PROVE  /\ BitsOf(DigitalClamp("DI", pos, j), image) = IF image = "in" THEN {pos + j} ELSE {}
         /\ BitsOf(DigitalClamp("DO", pos, j), image) = IF image = "in" THEN {} ELSE {pos + j}
<1>1. 8 * DigitalClamp("DI", pos, j).byte + DigitalClamp("DI", pos, j).bit = pos + j
  BY BitAddress
<1>2. 8 * DigitalClamp("DO", pos, j).byte + DigitalClamp("DO", pos, j).bit = pos + j
  BY BitAddress
<1>3. DigitalClamp("DI", pos, j).class = "DI" /\ DigitalClamp("DO", pos, j).class = "DO"
  BY DEF DigitalClamp, NewClamp
<1>4. CASE image = "in"
  BY <1>1, <1>2, <1>3, <1>4 DEF BitsOf
<1>5. CASE image = "out"
  BY <1>1, <1>2, <1>3, <1>5 DEF BitsOf
<1> QED
  BY <1>4, <1>5 DEF Images

\* The word of an analog channel, of a terminal that begins with a word.
LEMMA WordBits ==
  ASSUME NEW pos \in Nat, pos % 16 = 0, NEW j \in Nat, NEW image \in Images
  PROVE  /\ \A class \in {"AI", "HARTAI"} :
              BitsOf(WordClamp(class, pos, j), image) =
                IF image = "in" THEN pos + 16 * j..pos + 16 * j + 15 ELSE {}
         /\ BitsOf(WordClamp("AO", pos, j), image) =
              IF image = "in" THEN {} ELSE pos + 16 * j..pos + 16 * j + 15
<1> DEFINE byte == pos \div 8 + 2 * j
<1>1. byte \in Nat /\ 8 * (2 * (byte \div 2)) = pos + 16 * j
  OBVIOUS
<1>2. 8 * (2 * (byte \div 2) + 2) - 1 = pos + 16 * j + 15
  BY <1>1
<1>3. \A class : /\ WordClamp(class, pos, j).class = class
                 /\ WordClamp(class, pos, j).byte = byte
  BY DEF WordClamp, NewClamp
<1> HIDE DEF byte
<1>4. CASE image = "in"
  BY <1>1, <1>2, <1>3, <1>4 DEF BitsOf
<1>5. CASE image = "out"
  BY <1>1, <1>2, <1>3, <1>5 DEF BitsOf
<1> QED
  BY <1>4, <1>5 DEF Images

\* The part of a terminal that a channel of it is given.
Part(pos, size, channels, j) ==
  LET share == IF channels = 0 THEN size \div 8 ELSE (size \div 8) \div channels
      first == IF channels = 0 THEN 0 ELSE j * share
  IN pos + 8 * first..pos + 8 * (first + share) - 1

\* The bytes of a special clamp.
LEMMA SpecialBits ==
  ASSUME NEW pos \in Nat, pos % 16 = 0, NEW size \in Nat, NEW channels \in Nat,
         NEW j \in Nat, NEW image \in Images
  PROVE  /\ BitsOf(SpecialClamp("SI", pos, size, channels, j), image) =
              IF image = "in" THEN Part(pos, size, channels, j) ELSE {}
         /\ BitsOf(SpecialClamp("SO", pos, size, channels, j), image) =
              IF image = "in" THEN {} ELSE Part(pos, size, channels, j)
<1> DEFINE share == IF channels = 0 THEN size \div 8 ELSE (size \div 8) \div channels
           first == IF channels = 0 THEN 0 ELSE j * share
<1>1. share \in Nat
  OBVIOUS
<1>2. first \in Nat
  BY <1>1, SMT
<1>3. \A class : /\ SpecialClamp(class, pos, size, channels, j).class = class
                 /\ SpecialClamp(class, pos, size, channels, j).byte = pos \div 8 + first
                 /\ SpecialClamp(class, pos, size, channels, j).width = share
  BY DEF SpecialClamp, NewClamp
<1>4. Part(pos, size, channels, j) = pos + 8 * first..pos + 8 * (first + share) - 1
  BY DEF Part
<1> HIDE DEF share, first
<1>5. 8 * (pos \div 8 + first) = pos + 8 * first
  BY <1>2
<1>6. 8 * (pos \div 8 + first + share) - 1 = pos + 8 * (first + share) - 1
  BY <1>1, <1>2
<1>7. CASE image = "in"
  BY <1>3, <1>4, <1>5, <1>6, <1>7 DEF BitsOf
<1>8. CASE image = "out"
  BY <1>3, <1>4, <1>5, <1>6, <1>8 DEF BitsOf
<1> QED
  BY <1>7, <1>8 DEF Images

\* The parts of a terminal lie inside it.
LEMMA PartInside ==
  ASSUME NEW pos \in Nat, NEW size \in Nat, NEW channels \in Nat,
         NEW j \in Nat, channels = 0 \/ j < channels
  PROVE  Part(pos, size, channels, j) \subseteq pos..pos + size - 1
<1>1. CASE channels = 0
  BY <1>1 DEF Part
<1>2. CASE channels > 0 /\ j < channels
  <2> DEFINE share == (size \div 8) \div channels
  <2>1. share \in Nat /\ share * channels <= size \div 8 /\ size \div 8 \in Nat
    BY <1>2, SharesFit
  <2>2. j * share \in Nat /\ j * share + share <= channels * share
    BY <1>2, <2>1, StepsGrow
  <2>3. channels * share = share * channels
    BY <2>1
  <2>4. Part(pos, size, channels, j) = pos + 8 * (j * share)..pos + 8 * (j * share + share) - 1
    BY <1>2 DEF Part
  <2> DEFINE last == j * share + share
  <2>5. last \in Nat /\ last <= size \div 8
    BY <2>1, <2>2, <2>3
  <2>6. 8 * (size \div 8) <= size
    OBVIOUS
  <2>7. 8 * last <= size
    <3> HIDE DEF last
    <3> QED BY <2>1, <2>5, <2>6
  <2> DEFINE begin == j * share
  <2>8. begin \in Nat /\ Part(pos, size, channels, j) = pos + 8 * begin..pos + 8 * last - 1
    BY <2>2, <2>4
  <2> HIDE DEF begin, last
  <2> QED
    BY <2>5, <2>7, <2>8
<1> QED
  BY <1>1, <1>2

\* Two of them do not meet.
LEMMA PartsApart ==
  ASSUME NEW pos \in Nat, NEW size \in Nat, NEW channels \in Nat,
         NEW j \in Nat, NEW l \in Nat, j < l, l < channels
  PROVE  Part(pos, size, channels, j) \cap Part(pos, size, channels, l) = {}
<1> DEFINE share == (size \div 8) \div channels
           begin == j * share
           next == l * share
<1>1. share \in Nat
  BY SharesFit
<1>2. begin \in Nat /\ next \in Nat /\ begin + share <= next
  BY <1>1, StepsGrow
<1>3. Part(pos, size, channels, j) = pos + 8 * begin..pos + 8 * (begin + share) - 1
  BY DEF Part
<1>4. Part(pos, size, channels, l) = pos + 8 * next..pos + 8 * (next + share) - 1
  BY DEF Part
<1> HIDE DEF share, begin, next
<1> QED
  BY <1>1, <1>2, <1>3, <1>4

-----------------------------------------------------------------------------
(* The clamps of one terminal.                                             *)

\* The channel that the k-th clamp of a special terminal belongs to.
Round(t, k) ==
  IF t.inSize > 0 /\ t.outSize > 0 THEN (IF k % 2 = 1 THEN k \div 2 ELSE k \div 2 - 1)
  ELSE k - 1

\* Every clamp of a special terminal is the input or the output of its round.
LEMMA SpecialForm ==
  ASSUME NEW t, IsTerminal(t), NEW k \in DOMAIN SpecialClamps(t)
  PROVE  /\ k \in Nat \ {0}
         /\ Round(t, k) \in 0..Rounds(t) - 1
         /\ \/ SpecialClamps(t)[k] = SpecialClamp("SI", t.in, t.inSize, t.channels, Round(t, k))
               /\ t.inSize > 0 /\ (t.outSize > 0 => k % 2 = 1)
            \/ SpecialClamps(t)[k] = SpecialClamp("SO", t.out, t.outSize, t.channels, Round(t, k))
               /\ t.outSize > 0 /\ (t.inSize > 0 => k % 2 = 0)
<1>1. Rounds(t) \in Nat \ {0}
  BY DEF IsTerminal, Rounds
<1>2. CASE t.inSize > 0 /\ t.outSize > 0
  <2>1. k \in 1..2 * Rounds(t)
    BY <1>1, <1>2 DEF SpecialClamps
  <2>2. CASE k % 2 = 1
    BY <1>1, <1>2, <2>1, <2>2 DEF SpecialClamps, Round
  <2>3. CASE k % 2 = 0
    BY <1>1, <1>2, <2>1, <2>3 DEF SpecialClamps, Round
  <2> QED
    BY <1>1, <2>1, <2>2, <2>3
<1>3. CASE t.inSize > 0 /\ t.outSize = 0
  BY <1>1, <1>3 DEF SpecialClamps, Round
<1>4. CASE t.inSize = 0 /\ t.outSize > 0
  BY <1>1, <1>4 DEF SpecialClamps, Round
<1>5. CASE t.inSize = 0 /\ t.outSize = 0
  BY <1>5 DEF SpecialClamps
<1> QED
  BY <1>2, <1>3, <1>4, <1>5 DEF IsTerminal

\* The kinds that a manager tells apart.
LEMMA KindType ==
  ASSUME NEW m \in {"IPC", "FBK"}, NEW t
  PROVE  Kind(m, t) \in {"DI", "DO", "DIO", "AI", "AO", "HART", "special", "none"}
  BY DEF Kind, KindIPC, KindFBK

\* What a clamp of a HART terminal stands for.
LEMMA HartBits ==
  ASSUME NEW t, IsTerminal(t), t.in % 16 = 0, t.out % 16 = 0, NEW image \in Images
  PROVE  /\ BitsOf(HartClamps(t)[1], image) =
              IF image = "in" THEN t.in + 16..t.in + 63 ELSE t.out + 16..t.out + 63
         /\ BitsOf(HartClamps(t)[2], image) = IF image = "in" THEN t.in + 64..t.in + 79 ELSE {}
         /\ BitsOf(HartClamps(t)[3], image) = IF image = "in" THEN t.in + 80..t.in + 95 ELSE {}
<1> USE DEF IsTerminal
<1>1. HartClamps(t)[1] = NewClamp("MailBox", t.in \div 8 + 2, 0, 6, t.out \div 8 + 2)
  BY DEF HartClamps
<1>2. /\ HartClamps(t)[1].class = "MailBox" /\ HartClamps(t)[1].byte = t.in \div 8 + 2
      /\ HartClamps(t)[1].width = 6 /\ HartClamps(t)[1].out = t.out \div 8 + 2
  BY <1>1 DEF NewClamp
<1>3. /\ 8 * (t.in \div 8 + 2) = t.in + 16 /\ 8 * (t.in \div 8 + 2 + 6) - 1 = t.in + 63
      /\ 8 * (t.out \div 8 + 2) = t.out + 16 /\ 8 * (t.out \div 8 + 2 + 6) - 1 = t.out + 63
  OBVIOUS
<1>4. BitsOf(HartClamps(t)[1], image) =
        IF image = "in" THEN t.in + 16..t.in + 63 ELSE t.out + 16..t.out + 63
  BY <1>2, <1>3 DEF BitsOf, Images
<1>5. /\ HartClamps(t)[2] = WordClamp("HARTAI", t.in + 64, 0)
      /\ HartClamps(t)[3] = WordClamp("HARTAI", t.in + 64, 1)
  BY DEF HartClamps
<1>6. (t.in + 64) % 16 = 0 /\ t.in + 64 \in Nat
  OBVIOUS
<1> DEFINE inputs == t.in + 64
<1>7. BitsOf(HartClamps(t)[2], image) = IF image = "in" THEN t.in + 64..t.in + 79 ELSE {}
  <2>1. BitsOf(WordClamp("HARTAI", inputs, 0), image) =
          IF image = "in" THEN inputs + 16 * 0..inputs + 16 * 0 + 15 ELSE {}
    BY <1>6, WordBits
  <2>2. inputs + 16 * 0 = t.in + 64 /\ inputs + 16 * 0 + 15 = t.in + 79
    OBVIOUS
  <2> QED BY <1>5, <2>1, <2>2
<1>8. BitsOf(HartClamps(t)[3], image) = IF image = "in" THEN t.in + 80..t.in + 95 ELSE {}
  <2>1. BitsOf(WordClamp("HARTAI", inputs, 1), image) =
          IF image = "in" THEN inputs + 16 * 1..inputs + 16 * 1 + 15 ELSE {}
    BY <1>6, WordBits
  <2>2. inputs + 16 * 1 = t.in + 80 /\ inputs + 16 * 1 + 15 = t.in + 95
    OBVIOUS
  <2> QED BY <1>5, <2>1, <2>2
<1> QED
  BY <1>4, <1>7, <1>8

\* The clamps of a terminal lie in its area.
LEMMA Inside ==
  ASSUME NEW m \in {"IPC", "FBK"}, NEW t, IsTerminal(t), WellFormed(m, t),
         NEW k \in DOMAIN ClampsOf(m, t), NEW image \in Images
  PROVE  BitsOf(ClampsOf(m, t)[k], image) \subseteq Area(t, image)
<1> USE DEF IsTerminal
<1>1. CASE Kind(m, t) = "DI"
  <2>1. k - 1 \in 0..t.inSize - 1 /\ ClampsOf(m, t)[k] = DigitalClamp("DI", t.in, k - 1)
    BY <1>1 DEF ClampsOf
  <2> QED BY <2>1, DigitalBits DEF Area, Images
<1>2. CASE Kind(m, t) = "DO"
  <2>1. k - 1 \in 0..t.outSize - 1 /\ ClampsOf(m, t)[k] = DigitalClamp("DO", t.out, k - 1)
    BY <1>2 DEF ClampsOf
  <2> QED BY <2>1, DigitalBits DEF Area, Images
<1>3. CASE Kind(m, t) = "DIO"
  <2>1. /\ k \in 1..t.inSize + t.outSize
        /\ ClampsOf(m, t)[k] = IF k <= t.inSize THEN DigitalClamp("DI", t.in, k - 1)
                               ELSE DigitalClamp("DO", t.out, k - t.inSize - 1)
    BY <1>3 DEF ClampsOf, MixedClamps
  <2>2. CASE k <= t.inSize
    BY <2>1, <2>2, DigitalBits DEF Area, Images
  <2>3. CASE k > t.inSize
    <3>1. k - t.inSize - 1 \in 0..t.outSize - 1
      BY <2>1, <2>3
    <3> QED BY <2>1, <2>3, <3>1, DigitalBits DEF Area, Images
  <2> QED BY <2>1, <2>2, <2>3
<1>4. CASE Kind(m, t) = "AI"
  <2>1. /\ k - 1 \in 0..t.channels - 1 /\ ClampsOf(m, t)[k] = WordClamp("AI", t.in, k - 1)
        /\ t.in % 16 = 0 /\ t.inSize = 16 * t.channels
    BY <1>4 DEF ClampsOf, WellFormed
  <2>2. PICK j \in Nat : j < t.channels /\ ClampsOf(m, t)[k] = WordClamp("AI", t.in, j)
    BY <2>1
  <2>3. BitsOf(WordClamp("AI", t.in, j), image) =
          IF image = "in" THEN t.in + 16 * j..t.in + 16 * j + 15
          ELSE {}
    BY <2>1, WordBits
  <2>4. t.in + 16 * j..t.in + 16 * j + 15 \subseteq t.in..t.in + t.inSize - 1
    BY <2>1, <2>2
  <2> QED BY <2>2, <2>3, <2>4 DEF Area, Images
<1>5. CASE Kind(m, t) = "AO"
  <2>1. /\ k - 1 \in 0..t.channels - 1 /\ ClampsOf(m, t)[k] = WordClamp("AO", t.out, k - 1)
        /\ t.out % 16 = 0 /\ t.outSize = 16 * t.channels
    BY <1>5 DEF ClampsOf, WellFormed
  <2>2. PICK j \in Nat : j < t.channels /\ ClampsOf(m, t)[k] = WordClamp("AO", t.out, j)
    BY <2>1
  <2>3. BitsOf(WordClamp("AO", t.out, j), image) =
          IF image = "in" THEN {}
          ELSE t.out + 16 * j..t.out + 16 * j + 15
    BY <2>1, WordBits
  <2>4. t.out + 16 * j..t.out + 16 * j + 15 \subseteq t.out..t.out + t.outSize - 1
    BY <2>1, <2>2
  <2> QED BY <2>2, <2>3, <2>4 DEF Area, Images
<1>6. CASE Kind(m, t) = "HART"
  <2>1. /\ k \in 1..3 /\ ClampsOf(m, t)[k] = HartClamps(t)[k]
        /\ t.in % 16 = 0 /\ t.out % 16 = 0 /\ t.inSize >= 96 /\ t.outSize >= 64
    BY <1>6 DEF ClampsOf, WellFormed, HartClamps
  <2> DEFINE clamp == HartClamps(t)
  <2>2. CASE image = "in"
    <3>1. /\ BitsOf(clamp[1], image) = t.in + 16..t.in + 63
          /\ BitsOf(clamp[2], image) = t.in + 64..t.in + 79
          /\ BitsOf(clamp[3], image) = t.in + 80..t.in + 95
      BY <2>1, <2>2, HartBits
    <3>2. k = 1 \/ k = 2 \/ k = 3
      BY <2>1
    <3> HIDE DEF clamp
    <3>3. /\ t.in + 16..t.in + 63 \subseteq t.in..t.in + t.inSize - 1
          /\ t.in + 64..t.in + 79 \subseteq t.in..t.in + t.inSize - 1
          /\ t.in + 80..t.in + 95 \subseteq t.in..t.in + t.inSize - 1
      BY <2>1
    <3>4. BitsOf(clamp[k], image) \subseteq t.in..t.in + t.inSize - 1
      BY <3>1, <3>2, <3>3, Zenon
    <3> QED BY <2>1, <2>2, <3>4 DEF Area, clamp
  <2>3. CASE image = "out"
    <3>1. /\ BitsOf(clamp[1], image) = t.out + 16..t.out + 63
          /\ BitsOf(clamp[2], image) = {} /\ BitsOf(clamp[3], image) = {}
      BY <2>1, <2>3, HartBits
    <3>2. k = 1 \/ k = 2 \/ k = 3
      BY <2>1
    <3> HIDE DEF clamp
    <3>3. t.out + 16..t.out + 63 \subseteq t.out..t.out + t.outSize - 1
      BY <2>1
    <3>4. BitsOf(clamp[k], image) \subseteq t.out..t.out + t.outSize - 1
      BY <3>1, <3>2, <3>3, Zenon
    <3> QED BY <2>1, <2>3, <3>4 DEF Area, clamp
  <2> QED BY <2>2, <2>3 DEF Images
<1>7. CASE Kind(m, t) = "special"
  <2>1. k \in DOMAIN SpecialClamps(t) /\ ClampsOf(m, t)[k] = SpecialClamps(t)[k]
    BY <1>7 DEF ClampsOf
  <2>2. t.in % 16 = 0 /\ t.out % 16 = 0
    BY <1>7 DEF WellFormed
  <2> DEFINE j == Round(t, k)
  <2>3. j \in Nat /\ (t.channels = 0 \/ j < t.channels)
    BY <2>1, SpecialForm DEF Rounds
  <2>4. \/ ClampsOf(m, t)[k] = SpecialClamp("SI", t.in, t.inSize, t.channels, j)
        \/ ClampsOf(m, t)[k] = SpecialClamp("SO", t.out, t.outSize, t.channels, j)
    BY <2>1, SpecialForm
  <2> HIDE DEF j
  <2>5. Part(t.in, t.inSize, t.channels, j) \subseteq t.in..t.in + t.inSize - 1
    BY <2>3, PartInside
  <2>6. Part(t.out, t.outSize, t.channels, j) \subseteq t.out..t.out + t.outSize - 1
    BY <2>3, PartInside
  <2>7. CASE ClampsOf(m, t)[k] = SpecialClamp("SI", t.in, t.inSize, t.channels, j)
    BY <2>2, <2>3, <2>5, <2>7, SpecialBits DEF Area, Images
  <2>8. CASE ClampsOf(m, t)[k] = SpecialClamp("SO", t.out, t.outSize, t.channels, j)
    BY <2>2, <2>3, <2>6, <2>8, SpecialBits DEF Area, Images
  <2> QED BY <2>4, <2>7, <2>8
<1>8. CASE Kind(m, t) = "none"
  BY <1>8 DEF ClampsOf
<1> QED
  BY <1>1, <1>2, <1>3, <1>4, <1>5, <1>6, <1>7, <1>8, KindType

\* Two clamps of a terminal do not meet.
LEMMA ClampsOfApart ==
  ASSUME NEW m \in {"IPC", "FBK"}, NEW t, IsTerminal(t), WellFormed(m, t),
         NEW k \in DOMAIN ClampsOf(m, t), NEW l \in DOMAIN ClampsOf(m, t), k # l,
         NEW image \in Images
  PROVE  BitsOf(ClampsOf(m, t)[k], image) \cap BitsOf(ClampsOf(m, t)[l], image) = {}
<1> USE DEF IsTerminal
<1>1. CASE Kind(m, t) = "DI"
  <2>1. PICK i \in Nat : k = i + 1 /\ ClampsOf(m, t)[k] = DigitalClamp("DI", t.in, i)
    <3>1. /\ k - 1 \in Nat /\ k = (k - 1) + 1
          /\ ClampsOf(m, t)[k] = DigitalClamp("DI", t.in, k - 1)
      BY <1>1 DEF ClampsOf
    <3> QED BY <3>1
  <2>2. PICK j \in Nat : l = j + 1 /\ ClampsOf(m, t)[l] = DigitalClamp("DI", t.in, j)
    <3>1. /\ l - 1 \in Nat /\ l = (l - 1) + 1
          /\ ClampsOf(m, t)[l] = DigitalClamp("DI", t.in, l - 1)
      BY <1>1 DEF ClampsOf
    <3> QED BY <3>1
  <2> QED BY <2>1, <2>2, DigitalBits
<1>2. CASE Kind(m, t) = "DO"
  <2>1. PICK i \in Nat : k = i + 1 /\ ClampsOf(m, t)[k] = DigitalClamp("DO", t.out, i)
    <3>1. /\ k - 1 \in Nat /\ k = (k - 1) + 1
          /\ ClampsOf(m, t)[k] = DigitalClamp("DO", t.out, k - 1)
      BY <1>2 DEF ClampsOf
    <3> QED BY <3>1
  <2>2. PICK j \in Nat : l = j + 1 /\ ClampsOf(m, t)[l] = DigitalClamp("DO", t.out, j)
    <3>1. /\ l - 1 \in Nat /\ l = (l - 1) + 1
          /\ ClampsOf(m, t)[l] = DigitalClamp("DO", t.out, l - 1)
      BY <1>2 DEF ClampsOf
    <3> QED BY <3>1
  <2> QED BY <2>1, <2>2, DigitalBits
<1>3. CASE Kind(m, t) = "DIO"
  <2>1. PICK i \in Nat :
          \/ k = i + 1 /\ ClampsOf(m, t)[k] = DigitalClamp("DI", t.in, i)
          \/ k = i + 1 + t.inSize /\ ClampsOf(m, t)[k] = DigitalClamp("DO", t.out, i)
    BY <1>3 DEF ClampsOf, MixedClamps
  <2>2. PICK j \in Nat :
          \/ l = j + 1 /\ ClampsOf(m, t)[l] = DigitalClamp("DI", t.in, j)
          \/ l = j + 1 + t.inSize /\ ClampsOf(m, t)[l] = DigitalClamp("DO", t.out, j)
    BY <1>3 DEF ClampsOf, MixedClamps
  <2>3. BitsOf(ClampsOf(m, t)[k], image) = {}
        \/ (image = "in" /\ k = i + 1 /\ BitsOf(ClampsOf(m, t)[k], image) = {t.in + i})
        \/ (image = "out" /\ k = i + 1 + t.inSize /\ BitsOf(ClampsOf(m, t)[k], image) = {t.out + i})
    BY <2>1, DigitalBits DEF Images
  <2>4. BitsOf(ClampsOf(m, t)[l], image) = {}
        \/ (image = "in" /\ l = j + 1 /\ BitsOf(ClampsOf(m, t)[l], image) = {t.in + j})
        \/ (image = "out" /\ l = j + 1 + t.inSize /\ BitsOf(ClampsOf(m, t)[l], image) = {t.out + j})
    BY <2>2, DigitalBits DEF Images
  <2> QED BY <2>3, <2>4
<1>4. CASE Kind(m, t) = "AI"
  <2>0. t.in % 16 = 0
    BY <1>4 DEF WellFormed
  <2>1. PICK i \in Nat : k = i + 1 /\ ClampsOf(m, t)[k] = WordClamp("AI", t.in, i)
    <3>1. /\ k - 1 \in Nat /\ k = (k - 1) + 1
          /\ ClampsOf(m, t)[k] = WordClamp("AI", t.in, k - 1)
      BY <1>4 DEF ClampsOf
    <3> QED BY <3>1
  <2>2. PICK j \in Nat : l = j + 1 /\ ClampsOf(m, t)[l] = WordClamp("AI", t.in, j)
    <3>1. /\ l - 1 \in Nat /\ l = (l - 1) + 1
          /\ ClampsOf(m, t)[l] = WordClamp("AI", t.in, l - 1)
      BY <1>4 DEF ClampsOf
    <3> QED BY <3>1
  <2>3. BitsOf(ClampsOf(m, t)[k], image) \subseteq t.in + 16 * i..t.in + 16 * i + 15
    <3>1. BitsOf(WordClamp("AI", t.in, i), image) =
            IF image = "in" THEN t.in + 16 * i..t.in + 16 * i + 15 ELSE {}
      BY <2>0, WordBits
    <3> QED BY <2>1, <3>1
  <2>4. BitsOf(ClampsOf(m, t)[l], image) \subseteq t.in + 16 * j..t.in + 16 * j + 15
    <3>1. BitsOf(WordClamp("AI", t.in, j), image) =
            IF image = "in" THEN t.in + 16 * j..t.in + 16 * j + 15 ELSE {}
      BY <2>0, WordBits
    <3> QED BY <2>2, <3>1
  <2>5. (t.in + 16 * i..t.in + 16 * i + 15) \cap (t.in + 16 * j..t.in + 16 * j + 15) = {}
    <3>1. i # j
      BY <2>1, <2>2
    <3> QED BY <3>1
  <2> QED BY <2>3, <2>4, <2>5
<1>5. CASE Kind(m, t) = "AO"
  <2>0. t.out % 16 = 0
    BY <1>5 DEF WellFormed
  <2>1. PICK i \in Nat : k = i + 1 /\ ClampsOf(m, t)[k] = WordClamp("AO", t.out, i)
    <3>1. /\ k - 1 \in Nat /\ k = (k - 1) + 1
          /\ ClampsOf(m, t)[k] = WordClamp("AO", t.out, k - 1)
      BY <1>5 DEF ClampsOf
    <3> QED BY <3>1
  <2>2. PICK j \in Nat : l = j + 1 /\ ClampsOf(m, t)[l] = WordClamp("AO", t.out, j)
    <3>1. /\ l - 1 \in Nat /\ l = (l - 1) + 1
          /\ ClampsOf(m, t)[l] = WordClamp("AO", t.out, l - 1)
      BY <1>5 DEF ClampsOf
    <3> QED BY <3>1
  <2>3. BitsOf(ClampsOf(m, t)[k], image) \subseteq t.out + 16 * i..t.out + 16 * i + 15
    <3>1. BitsOf(WordClamp("AO", t.out, i), image) =
            IF image = "in" THEN {} ELSE t.out + 16 * i..t.out + 16 * i + 15
      BY <2>0, WordBits
    <3> QED BY <2>1, <3>1
  <2>4. BitsOf(ClampsOf(m, t)[l], image) \subseteq t.out + 16 * j..t.out + 16 * j + 15
    <3>1. BitsOf(WordClamp("AO", t.out, j), image) =
            IF image = "in" THEN {} ELSE t.out + 16 * j..t.out + 16 * j + 15
      BY <2>0, WordBits
    <3> QED BY <2>2, <3>1
  <2>5. (t.out + 16 * i..t.out + 16 * i + 15) \cap (t.out + 16 * j..t.out + 16 * j + 15) = {}
    <3>1. i # j
      BY <2>1, <2>2
    <3> QED BY <3>1
  <2> QED BY <2>3, <2>4, <2>5
<1>6. CASE Kind(m, t) = "HART"
  <2>1. /\ k \in 1..3 /\ ClampsOf(m, t)[k] = HartClamps(t)[k]
        /\ l \in 1..3 /\ ClampsOf(m, t)[l] = HartClamps(t)[l]
        /\ t.in % 16 = 0 /\ t.out % 16 = 0
    BY <1>6 DEF ClampsOf, WellFormed, HartClamps
  <2> DEFINE bits(n) == BitsOf(HartClamps(t)[n], image)
  <2>2. /\ bits(1) = IF image = "in" THEN t.in + 16..t.in + 63 ELSE t.out + 16..t.out + 63
        /\ bits(2) = IF image = "in" THEN t.in + 64..t.in + 79 ELSE {}
        /\ bits(3) = IF image = "in" THEN t.in + 80..t.in + 95 ELSE {}
    BY <2>1, HartBits
  <2> HIDE DEF bits
  <2>3. /\ bits(1) \cap bits(2) = {} /\ bits(1) \cap bits(3) = {} /\ bits(2) \cap bits(3) = {}
        /\ bits(2) \cap bits(1) = {} /\ bits(3) \cap bits(1) = {} /\ bits(3) \cap bits(2) = {}
    <3>1. bits(1) \cap bits(2) = {} /\ bits(1) \cap bits(3) = {} /\ bits(2) \cap bits(3) = {}
      BY <2>2
    <3> QED BY <3>1
  <2>4. bits(k) \cap bits(l) = {}
    <3>1. (k = 1 \/ k = 2 \/ k = 3) /\ (l = 1 \/ l = 2 \/ l = 3)
      BY <2>1
    <3> QED BY <2>3, <3>1, Zenon
  <2> QED BY <2>1, <2>4 DEF bits
<1>7. CASE Kind(m, t) = "special"
  <2>1. /\ k \in DOMAIN SpecialClamps(t) /\ ClampsOf(m, t)[k] = SpecialClamps(t)[k]
        /\ l \in DOMAIN SpecialClamps(t) /\ ClampsOf(m, t)[l] = SpecialClamps(t)[l]
        /\ t.in % 16 = 0 /\ t.out % 16 = 0
    BY <1>7 DEF ClampsOf, WellFormed
  <2> DEFINE i == Round(t, k)
             j == Round(t, l)
             inPart(r) == Part(t.in, t.inSize, t.channels, r)
             outPart(r) == Part(t.out, t.outSize, t.channels, r)
             bits(n) == BitsOf(SpecialClamps(t)[n], image)
  <2>2. i \in 0..Rounds(t) - 1 /\ j \in 0..Rounds(t) - 1
    BY <2>1, SpecialForm
  <2>3. i \in Nat /\ j \in Nat /\ i < Rounds(t) /\ j < Rounds(t)
    BY <2>2 DEF Rounds
  <2>4. ASSUME NEW n \in DOMAIN SpecialClamps(t), Round(t, n) \in Nat
        PROVE  \/ bits(n) = {}
               \/ /\ image = "in" /\ t.inSize > 0 /\ (t.outSize > 0 => n % 2 = 1)
                  /\ bits(n) = inPart(Round(t, n))
               \/ /\ image = "out" /\ t.outSize > 0 /\ (t.inSize > 0 => n % 2 = 0)
                  /\ bits(n) = outPart(Round(t, n))
    <3>1. CASE /\ SpecialClamps(t)[n] = SpecialClamp("SI", t.in, t.inSize, t.channels, Round(t, n))
               /\ t.inSize > 0 /\ (t.outSize > 0 => n % 2 = 1)
      BY <2>1, <2>4, <3>1, SpecialBits DEF Images
    <3>2. CASE /\ SpecialClamps(t)[n] = SpecialClamp("SO", t.out, t.outSize, t.channels, Round(t, n))
               /\ t.outSize > 0 /\ (t.inSize > 0 => n % 2 = 0)
      BY <2>1, <2>4, <3>2, SpecialBits DEF Images
    <3> QED BY <3>1, <3>2, SpecialForm
  <2>5. k \in Nat /\ l \in Nat
    BY <2>1, SpecialForm
  <2>6. ASSUME bits(k) # {}, bits(l) # {}
        PROVE  /\ i # j
               /\ \/ bits(k) = inPart(i) /\ bits(l) = inPart(j)
                  \/ bits(k) = outPart(i) /\ bits(l) = outPart(j)
    <3>1. \/ /\ t.inSize > 0 /\ (t.outSize > 0 => k % 2 = 1 /\ l % 2 = 1)
             /\ bits(k) = inPart(i) /\ bits(l) = inPart(j)
          \/ /\ t.outSize > 0 /\ (t.inSize > 0 => k % 2 = 0 /\ l % 2 = 0)
             /\ bits(k) = outPart(i) /\ bits(l) = outPart(j)
      <4> HIDE DEF bits, inPart, outPart
      <4> QED BY <2>1, <2>3, <2>4, <2>6
    <3>2. i # j
      BY <2>5, <3>1 DEF Round
    <3> QED BY <3>1, <3>2
  <2>7. i # j => t.channels = Rounds(t)
    BY <2>2 DEF Rounds
  <2>8. i # j => inPart(i) \cap inPart(j) = {} /\ outPart(i) \cap outPart(j) = {}
    <3> HIDE DEF i, j
    <3>1. CASE i < j
      <4>1. j < t.channels
        BY <2>3, <2>7, <3>1
      <4> QED BY <2>3, <3>1, <4>1, PartsApart
    <3>2. CASE j < i
      <4>1. i < t.channels
        BY <2>3, <2>7, <3>2
      <4>2. inPart(j) \cap inPart(i) = {} /\ outPart(j) \cap outPart(i) = {}
        BY <2>3, <3>2, <4>1, PartsApart
      <4> QED BY <4>2
    <3> QED BY <2>3, <3>1, <3>2
  <2>9. bits(k) \cap bits(l) = {}
    <3> HIDE DEF bits, inPart, outPart, i, j
    <3> QED BY <2>6, <2>8
  <2> QED BY <2>1, <2>9
<1>8. CASE Kind(m, t) = "none"
  BY <1>8 DEF ClampsOf
<1> QED
  BY <1>1, <1>2, <1>3, <1>4, <1>5, <1>6, <1>7, <1>8, KindType

-----------------------------------------------------------------------------
(* The clamps of a rack.                                                   *)

\* What is assumed of the racks.
RackOf(m, r) ==
  /\ \A i \in DOMAIN r : IsTerminal(r[i]) /\ WellFormed(m, r[i])
  /\ Apart(r)

LEMMA RacksAreRacks ==
  ASSUME NEW m \in Class, NEW r \in Racks[m]
  PROVE  m \in {"IPC", "FBK"} /\ RackOf(m, r)
  BY RackAssumption, DetectAssumption DEF RackOf, IsTerminal

\* The clamps of a rack are apart, whichever terminals they belong to.
LEMMA RackApart ==
  ASSUME NEW m \in {"IPC", "FBK"}, NEW r, RackOf(m, r),
         NEW i \in DOMAIN r, NEW k \in DOMAIN ClampsOf(m, r[i]),
         NEW j \in DOMAIN r, NEW l \in DOMAIN ClampsOf(m, r[j]),
         i # j \/ k # l, NEW image \in Images
  PROVE  BitsOf(ClampsOf(m, r[i])[k], image) \cap BitsOf(ClampsOf(m, r[j])[l], image) = {}
<1>1. CASE i = j
  BY <1>1, ClampsOfApart DEF RackOf
<1>2. CASE i # j
  <2>1. BitsOf(ClampsOf(m, r[i])[k], image) \subseteq Area(r[i], image)
    BY Inside DEF RackOf
  <2>2. BitsOf(ClampsOf(m, r[j])[l], image) \subseteq Area(r[j], image)
    BY Inside DEF RackOf
  <2>3. Area(r[i], image) \cap Area(r[j], image) = {}
    BY <1>2 DEF RackOf, Apart, Images
  <2> QED BY <2>1, <2>2, <2>3
<1> QED
  BY <1>1, <1>2

-----------------------------------------------------------------------------
(* The inductive invariant.                                                *)

\* There is one manager at most, and nothing without it.
OneManager ==
  /\ manager \in [Class -> {0, 1}]
  /\ \A m, n \in Managed : m = n
  /\ Managed = {} => clamps = {} /\ ~autodetect /\ pc = "idle" /\ rack = <<>>
  /\ \A m \in Managed : rack \in Racks[m]

\* Every clamp is one that the rack the detection read calls for.
FromTheRack ==
  /\ clamps # {} \/ pc \in {"terminal", "clamp"} => \A m \in Managed : seen \in Racks[m]
  /\ \A c \in clamps : \A m \in Managed :
       /\ c.at \in DOMAIN seen
       /\ c.nr \in DOMAIN ClampsOf(m, seen[c.at])
       /\ c.shape = ClampsOf(m, seen[c.at])[c.nr]

\* No clamp is created twice: those there are lie before the one that is next.
OneByOne ==
  /\ at \in Nat /\ nr \in Nat /\ pc \in {"idle", "terminal", "clamp", "crashed"}
  /\ pc = "clamp" => at \in DOMAIN seen
  /\ \A c, d \in clamps : c.at = d.at /\ c.nr = d.nr => c = d
  /\ \A c \in clamps : c.at \in Nat /\ c.nr \in Nat
  /\ pc = "terminal" => \A c \in clamps : c.at < at
  /\ pc = "clamp" => \A c \in clamps : c.at < at \/ (c.at = at /\ c.nr < nr)

Inv == OneManager /\ FromTheRack /\ OneByOne

\* It holds initially.
LEMMA InitInv == Init => Inv
<1> SUFFICES ASSUME Init PROVE Inv
  OBVIOUS
<1>1. Managed = {}
  BY DEF Init, Managed
<1> QED
  BY <1>1 DEF Init, Inv, OneManager, FromTheRack, OneByOne, Managed

\* It keeps the clamps apart.
LEMMA InvApart == Inv => ClampsApart
<1> SUFFICES ASSUME Inv, NEW c \in clamps, NEW d \in clamps, c # d, NEW image \in Images
             PROVE  BitsOf(c.shape, image) \cap BitsOf(d.shape, image) = {}
  BY DEF ClampsApart, Images
<1>1. PICK m \in Managed : TRUE
  BY DEF Inv, OneManager
<1>2. m \in {"IPC", "FBK"} /\ RackOf(m, seen)
  BY <1>1, RacksAreRacks DEF Inv, FromTheRack, Managed
<1>3. /\ c.at \in DOMAIN seen /\ c.nr \in DOMAIN ClampsOf(m, seen[c.at])
      /\ c.shape = ClampsOf(m, seen[c.at])[c.nr]
      /\ d.at \in DOMAIN seen /\ d.nr \in DOMAIN ClampsOf(m, seen[d.at])
      /\ d.shape = ClampsOf(m, seen[d.at])[d.nr]
  BY <1>1 DEF Inv, FromTheRack
<1>4. c.at # d.at \/ c.nr # d.nr
  BY DEF Inv, OneByOne
<1> QED
  BY <1>2, <1>3, <1>4, RackApart

\* It keeps each clamp in its terminal.
LEMMA InvInside == Inv => ClampsInside
<1> SUFFICES ASSUME Inv, NEW c \in clamps, NEW image \in Images
             PROVE  c.at \in DOMAIN seen /\ BitsOf(c.shape, image) \subseteq Area(seen[c.at], image)
  BY DEF ClampsInside, Images
<1>1. PICK m \in Managed : TRUE
  BY DEF Inv, OneManager
<1>2. m \in {"IPC", "FBK"} /\ RackOf(m, seen)
  BY <1>1, RacksAreRacks DEF Inv, FromTheRack, Managed
<1>3. /\ c.at \in DOMAIN seen /\ c.nr \in DOMAIN ClampsOf(m, seen[c.at])
      /\ c.shape = ClampsOf(m, seen[c.at])[c.nr]
  BY <1>1 DEF Inv, FromTheRack
<1> QED
  BY <1>2, <1>3, Inside DEF RackOf

\* The manager that works is the only one.
LEMMA TheOne ==
  ASSUME OneManager, NEW m \in Managed
  PROVE  TheManager = m
  BY DEF OneManager, TheManager

\* Steps that leave clamps and what is known of them alone.
LEMMA SameClampsKeep ==
  ASSUME Inv, UNCHANGED <<manager, rack, seen, clamps>>,
         pc' \in {"idle", "crashed"} \/ (pc' = pc /\ UNCHANGED <<at, nr>>),
         at' \in Nat, nr' \in Nat,
         Managed = {} => ~autodetect' /\ pc' = "idle"
  PROVE  Inv'
<1>1. Managed' = Managed
  BY DEF Managed
<1>2. OneManager'
  BY <1>1 DEF Inv, OneManager
<1>3. FromTheRack'
  BY <1>1 DEF Inv, FromTheRack, OneByOne
<1>4. OneByOne'
  BY DEF Inv, OneByOne
<1> QED
  BY <1>2, <1>3, <1>4 DEF Inv

\* The steps between the cycles, and those of a cycle that end it at once.
LEMMA CreateManagerKeeps == Inv /\ CreateManager => Inv'
<1> SUFFICES ASSUME Inv, CreateManager PROVE Inv'
  OBVIOUS
<1>1. PICK m \in Class : /\ CheckInit([manager EXCEPT ![m] = @ + 1])
                         /\ manager' = [manager EXCEPT ![m] = @ + 1]
                         /\ rack' \in Racks[m]
  BY DEF CreateManager
<1>2. /\ manager' \in [Class -> {0, 1}]
      /\ \A n \in Class : manager'[n] > 0 => n = m
  BY <1>1 DEF Inv, OneManager, CheckInit
<1>3. Managed' = {m}
  BY <1>1, <1>2 DEF Managed, Inv, OneManager
<1>4. Managed = {}
  <2> SUFFICES ASSUME NEW n \in Managed PROVE FALSE
    OBVIOUS
  <2>1. manager[n] = 1 /\ n \in Class
    BY DEF Managed, Inv, OneManager
  <2>2. manager'[n] > 0
    BY <1>1, <2>1 DEF Inv, OneManager
  <2>3. n = m
    BY <1>2, <2>1, <2>2
  <2>4. manager'[m] = 2
    BY <1>1, <2>1, <2>3 DEF Inv, OneManager
  <2> QED BY <1>2, <2>4
<1>5. clamps' = {} /\ pc' = "idle" /\ at' = at /\ nr' = nr
  BY <1>4 DEF CreateManager, Inv, OneManager, place
<1> QED
  BY <1>1, <1>2, <1>3, <1>5 DEF Inv, OneManager, FromTheRack, OneByOne

LEMMA DeleteManagerKeeps == Inv /\ DeleteManager => Inv'
<1> SUFFICES ASSUME Inv, DeleteManager PROVE Inv'
  OBVIOUS
<1>1. PICK m \in Managed : manager' = [manager EXCEPT ![m] = @ - 1]
  BY DEF DeleteManager
<1>2. manager' \in [Class -> {0, 1}] /\ \A n \in Class : manager'[n] = 0
  BY <1>1 DEF Inv, OneManager, Managed
<1>3. Managed' = {}
  BY <1>2 DEF Managed
<1> QED
  BY <1>2, <1>3 DEF DeleteManager, Inv, OneManager, FromTheRack, OneByOne, place

LEMMA RestartKeeps == Inv /\ (Restart \/ PowerFails) => Inv'
<1> SUFFICES ASSUME Inv, Restart \/ PowerFails PROVE Inv'
  OBVIOUS
<1>1. Managed' = Managed /\ Managed # {}
  BY DEF Restart, PowerFails, Managed
<1>2. OneManager'
  BY <1>1 DEF Restart, PowerFails, Inv, OneManager
<1> QED
  BY <1>1, <1>2 DEF Restart, PowerFails, Inv, FromTheRack, OneByOne

LEMMA QuietKeeps ==
  Inv /\ (Ask \/ DeleteCom \/ ExecuteWithout \/ ReadFails \/ CreationFails \/ ReadBreaksOff
         \/ Finish \/ Crash \/ UNCHANGED vars) => Inv'
<1> SUFFICES ASSUME Inv,
                    Ask \/ DeleteCom \/ ExecuteWithout \/ ReadFails \/ CreationFails
                      \/ ReadBreaksOff \/ Finish \/ Crash \/ UNCHANGED vars
             PROVE  Inv'
  OBVIOUS
<1>1. UNCHANGED <<manager, rack, seen, clamps, at, nr>>
  BY DEF Ask, DeleteCom, ExecuteWithout, ReadFails, CreationFails, GiveUp, ReadBreaksOff, Finish,
         Done, Crash, vars, place
<1>2. pc' \in {"idle", "crashed"} \/ pc' = pc
  BY DEF Ask, DeleteCom, ExecuteWithout, ReadFails, CreationFails, GiveUp, ReadBreaksOff, Finish,
         Done, Crash, vars, place
<1>3. Managed = {} => ~autodetect' /\ pc' = "idle"
  BY DEF Ask, DeleteCom, ExecuteWithout, ReadFails, CreationFails, GiveUp, ReadBreaksOff, Finish,
         Done, Crash, vars, place, Inv, OneManager
<1> QED
  BY <1>1, <1>2, <1>3, SameClampsKeep DEF Inv, OneByOne

LEMMA DeletionFailsKeeps == Inv /\ DeletionFails => Inv'
<1> SUFFICES ASSUME Inv, DeletionFails PROVE Inv'
  OBVIOUS
<1>1. clamps' \subseteq clamps /\ UNCHANGED <<manager, rack, seen, at, nr>>
  BY DEF DeletionFails
<1>2. pc' = "idle" /\ ~autodetect' /\ Managed' = Managed
  BY DEF DeletionFails, GiveUp, Managed
<1>3. clamps # {}
  BY DEF DeletionFails
<1>4. OneManager'
  BY <1>1, <1>2 DEF Inv, OneManager
<1>5. FromTheRack'
  BY <1>1, <1>2, <1>3 DEF Inv, FromTheRack
<1>6. OneByOne'
  BY <1>1, <1>2 DEF Inv, OneByOne
<1> QED
  BY <1>4, <1>5, <1>6 DEF Inv

LEMMA OpenFailsKeeps == Inv /\ OpenFails => Inv'
<1> SUFFICES ASSUME Inv, OpenFails PROVE Inv'
  OBVIOUS
<1>1. Managed' = Managed
  BY DEF OpenFails, Managed
<1> QED
  BY <1>1 DEF OpenFails, place, Inv, OneManager, FromTheRack, OneByOne

\* The steps of a detection.
LEMMA ExecuteKeeps == Inv /\ Execute => Inv'
<1> SUFFICES ASSUME Inv, Execute PROVE Inv'
  OBVIOUS
<1>1. Managed' = Managed /\ Managed # {}
  BY DEF Execute, Managed, Inv, OneManager
<1>2. clamps' = {} /\ seen' = rack /\ pc' = "terminal" /\ at' = 1 /\ nr' = 1
  BY DEF Execute, DeleteClamps
<1>3. OneManager'
  BY <1>1 DEF Execute, Inv, OneManager
<1>4. FromTheRack'
  BY <1>1, <1>2 DEF Inv, OneManager, FromTheRack
<1>5. OneByOne'
  BY <1>2 DEF OneByOne
<1> QED
  BY <1>3, <1>4, <1>5 DEF Inv

LEMMA ReadTerminalKeeps == Inv /\ ReadTerminal => Inv'
<1> SUFFICES ASSUME Inv, ReadTerminal PROVE Inv'
  OBVIOUS
<1>1. Managed' = Managed /\ Managed # {}
  BY DEF ReadTerminal, Managed, Inv, OneManager
<1>2. UNCHANGED <<manager, rack, seen, clamps, at, autodetect>> /\ pc' = "clamp" /\ nr' = 1
  BY DEF ReadTerminal
<1>3. at \in DOMAIN seen /\ pc = "terminal"
  BY DEF ReadTerminal
<1>4. OneManager'
  BY <1>1, <1>2 DEF Inv, OneManager
<1>5. FromTheRack'
  BY <1>1, <1>2, <1>3 DEF Inv, FromTheRack
<1>6. OneByOne'
  BY <1>2, <1>3 DEF Inv, OneByOne
<1> QED
  BY <1>4, <1>5, <1>6 DEF Inv

LEMMA NextTerminalKeeps == Inv /\ NextTerminal => Inv'
<1> SUFFICES ASSUME Inv, NextTerminal PROVE Inv'
  OBVIOUS
<1>1. Managed' = Managed /\ Managed # {}
  BY DEF NextTerminal, Managed, Inv, OneManager
<1>2. /\ UNCHANGED <<manager, rack, seen, clamps, nr, autodetect>>
      /\ pc = "clamp" /\ pc' = "terminal" /\ at' = at + 1
  BY DEF NextTerminal
<1>3. OneManager'
  BY <1>1, <1>2 DEF Inv, OneManager
<1>4. FromTheRack'
  BY <1>1, <1>2 DEF Inv, FromTheRack
<1>5. OneByOne'
  BY <1>2 DEF Inv, OneByOne
<1> QED
  BY <1>3, <1>4, <1>5 DEF Inv

LEMMA CreateClampKeeps == Inv /\ CreateClamp => Inv'
<1> SUFFICES ASSUME Inv, CreateClamp PROVE Inv'
  OBVIOUS
<1>1. PICK m \in Managed : Managed' = Managed /\ TheManager = m
  BY TheOne DEF CreateClamp, Managed, Inv, OneManager
<1>2. /\ pc = "clamp" /\ UNCHANGED <<manager, rack, seen, at, pc, autodetect>>
      /\ nr' = nr + 1 /\ nr \in DOMAIN ClampsOf(m, seen[at])
  BY <1>1 DEF CreateClamp, Clamps, Terminal
<1>3. PICK c : /\ clamps' = clamps \cup {c} /\ c.at = at /\ c.nr = nr
               /\ c.shape = ClampsOf(m, seen[at])[nr]
  <2>1. PICK slot : clamps' = clamps \cup {[at |-> at, nr |-> nr, shape |-> Clamps[nr], slot |-> slot]}
    BY DEF CreateClamp
  <2>2. Clamps = ClampsOf(m, seen[at])
    BY <1>1 DEF Clamps, Terminal
  <2> WITNESS [at |-> at, nr |-> nr, shape |-> Clamps[nr], slot |-> slot]
  <2> QED BY <2>1, <2>2
<1>4. \A d \in clamps : d.at < at \/ (d.at = at /\ d.nr < nr)
  BY <1>2 DEF Inv, OneByOne
<1>5. at \in Nat /\ nr \in Nat /\ at \in DOMAIN seen
  BY <1>2 DEF Inv, OneByOne
<1>6. OneManager'
  BY <1>1, <1>2 DEF Inv, OneManager
<1>7. \A n \in Managed : n = m
  BY <1>1 DEF Inv, OneManager
<1>8. FromTheRack'
  BY <1>1, <1>2, <1>3, <1>5, <1>7 DEF Inv, FromTheRack
<1>9. OneByOne'
  <2>1. \A d \in clamps : ~(d.at = at /\ d.nr = nr)
    BY <1>4, <1>5 DEF Inv, OneByOne
  <2>2. \A b, d \in clamps' : b.at = d.at /\ b.nr = d.nr => b = d
    BY <1>3, <2>1 DEF Inv, OneByOne
  <2>3. \A d \in clamps' : d.at < at \/ (d.at = at /\ d.nr < nr + 1)
    BY <1>3, <1>4, <1>5 DEF Inv, OneByOne
  <2>4. \A d \in clamps' : d.at \in Nat /\ d.nr \in Nat
    BY <1>3, <1>5 DEF Inv, OneByOne
  <2> QED BY <1>2, <1>5, <2>2, <2>3, <2>4 DEF OneByOne
<1> QED
  BY <1>6, <1>8, <1>9 DEF Inv

\* Every step keeps it.
LEMMA NextInv == Inv /\ [Next]_vars => Inv'
<1> QED
  BY CreateManagerKeeps, DeleteManagerKeeps, RestartKeeps, QuietKeeps, DeletionFailsKeeps,
     OpenFailsKeeps, ExecuteKeeps, ReadTerminalKeeps, NextTerminalKeeps, CreateClampKeeps
  DEF Next, Detection

\* Whatever is plugged in and wherever a detection fails, no two clamps of the
\* manager share a bit of a process image, and none leaves the area of its terminal.
THEOREM DetectedPlaced == Spec => []ClampsPlaced
<1>1. Spec => []Inv
  BY InitInv, NextInv, PTL DEF Spec
<1>2. Inv => ClampsPlaced
  BY InvApart, InvInside DEF ClampsPlaced
<1> QED
  BY <1>1, <1>2, PTL

-----------------------------------------------------------------------------
(* Types.                                                                  *)

\* A clamp that a terminal is given has the type of one.
LEMMA ClampTyped ==
  ASSUME NEW m \in {"IPC", "FBK"}, NEW t, IsTerminal(t), NEW k \in DOMAIN ClampsOf(m, t)
  PROVE  ClampsOf(m, t)[k] \in Shape
<1> USE DEF IsTerminal
<1>1. \A pos, j \in Nat : \A class \in {"DI", "DO"} : DigitalClamp(class, pos, j) \in Shape
  BY BitAddress DEF DigitalClamp, NewClamp, Shape
<1>2. \A pos, j \in Nat : \A class \in {"AI", "AO", "HARTAI"} : WordClamp(class, pos, j) \in Shape
  BY DEF WordClamp, NewClamp, Shape
<1>3. ASSUME NEW pos \in Nat, NEW size \in Nat, NEW channels \in Nat, NEW j \in Nat,
             NEW class \in {"SI", "SO"}
      PROVE  SpecialClamp(class, pos, size, channels, j) \in Shape
  <2> DEFINE share == IF channels = 0 THEN size \div 8 ELSE (size \div 8) \div channels
             first == IF channels = 0 THEN 0 ELSE j * share
  <2>1. share \in Nat
    OBVIOUS
  <2>2. first \in Nat
    BY <2>1, SMT
  <2>3. SpecialClamp(class, pos, size, channels, j) =
          [class |-> class, byte |-> pos \div 8 + first, bit |-> 0, width |-> share, out |-> 0]
    BY DEF SpecialClamp, NewClamp
  <2> HIDE DEF share, first
  <2> QED BY <2>1, <2>2, <2>3 DEF Shape
<1>4. CASE Kind(m, t) = "DI"
  BY <1>1, <1>4 DEF ClampsOf
<1>5. CASE Kind(m, t) = "DO"
  BY <1>1, <1>5 DEF ClampsOf
<1>6. CASE Kind(m, t) = "DIO"
  <2>1. /\ k \in 1..t.inSize + t.outSize
        /\ ClampsOf(m, t)[k] = IF k <= t.inSize THEN DigitalClamp("DI", t.in, k - 1)
                               ELSE DigitalClamp("DO", t.out, k - t.inSize - 1)
    BY <1>6 DEF ClampsOf, MixedClamps
  <2> QED BY <1>1, <2>1
<1>7. CASE Kind(m, t) = "AI"
  BY <1>2, <1>7 DEF ClampsOf
<1>8. CASE Kind(m, t) = "AO"
  BY <1>2, <1>8 DEF ClampsOf
<1>9. CASE Kind(m, t) = "HART"
  <2>1. k \in 1..3 /\ ClampsOf(m, t)[k] = HartClamps(t)[k]
    BY <1>9 DEF ClampsOf, HartClamps
  <2>2. CASE k = 1
    BY <2>1, <2>2 DEF HartClamps, NewClamp, Shape
  <2>3. CASE k > 1
    BY <1>2, <2>1, <2>3 DEF HartClamps
  <2> QED BY <2>1, <2>2, <2>3
<1>10. CASE Kind(m, t) = "special"
  <2>1. k \in DOMAIN SpecialClamps(t) /\ ClampsOf(m, t)[k] = SpecialClamps(t)[k]
    BY <1>10 DEF ClampsOf
  <2>2. Round(t, k) \in Nat
    BY <2>1, SpecialForm DEF Rounds
  <2> QED BY <1>3, <2>1, <2>2, SpecialForm
<1>11. CASE Kind(m, t) = "none"
  BY <1>11 DEF ClampsOf
<1> QED
  BY <1>4, <1>5, <1>6, <1>7, <1>8, <1>9, <1>10, <1>11, KindType

\* Counting keeps the type of the numbers.
LEMMA CountTyped ==
  ASSUME TypeOK, NEW what \in {"DI", "DO", "AI", "AO", "SP", "none"}, NEW n \in Nat,
         Count(what, n)
  PROVE  number' \in [{"DI", "DO", "AI", "AO", "SP"} -> Nat]
  BY DEF TypeOK, Count

\* The clamp that is next, and its terminal.
LEMMA NextTyped ==
  ASSUME Inv, NEW m \in Managed, at \in DOMAIN seen, pc \in {"terminal", "clamp"}
  PROVE  /\ TheManager = m /\ m \in {"IPC", "FBK"}
         /\ Clamps = ClampsOf(m, Terminal) /\ IsTerminal(Terminal)
<1>1. TheManager = m
  BY TheOne DEF Inv
<1>2. m \in Class /\ seen \in Racks[m]
  BY DEF Inv, FromTheRack, Managed
<1> QED
  BY <1>1, <1>2, RacksAreRacks DEF RackOf, Clamps, Terminal

\* Every step keeps the types.
LEMMA NextTypes == Inv /\ Inv' /\ TypeOK /\ [Next]_vars => TypeOK'
<1> SUFFICES ASSUME Inv, Inv', TypeOK, [Next]_vars PROVE TypeOK'
  OBVIOUS
<1> USE DEF TypeOK
<1>0. manager' \in [Class -> {0, 1}] /\ (\A m, n \in Managed' : m = n) /\ MaxFiles \in Nat
  BY DetectAssumption DEF Inv, OneManager
<1>1. CASE CreateManager
  BY <1>0, <1>1 DEF CreateManager, place
<1>2. CASE DeleteManager
  BY <1>0, <1>2 DEF DeleteManager, place, NoClamps
<1>3. CASE Ask
  BY <1>0, <1>3 DEF Ask, place
<1>4. CASE DeleteCom
  BY <1>0, <1>4 DEF DeleteCom, place
<1>5. CASE Restart \/ PowerFails
  BY <1>0, <1>5 DEF Restart, PowerFails
<1>6. CASE ExecuteWithout
  BY <1>0, <1>6 DEF ExecuteWithout, place
<1>7. CASE DeletionFails
  BY <1>0, <1>7 DEF DeletionFails, GiveUp, ResetNumbers, NoClamps
<1>8. CASE OpenFails
  BY <1>0, <1>8 DEF OpenFails, ResetNumbers, NoClamps, place
<1>9. CASE Execute
  BY <1>0, <1>9 DEF Execute, ResetNumbers, NoClamps, DeleteClamps
<1>10. CASE ReadTerminal
  <2>1. number' \in [{"DI", "DO", "AI", "AO", "SP"} -> Nat]
    <3>1. PICK m \in Managed : TRUE
      BY <1>10 DEF ReadTerminal, Inv, OneManager
    <3>2. IsTerminal(Terminal)
      BY <1>10, <3>1, NextTyped DEF ReadTerminal
    <3>3. Terminal.channels \in Nat /\ Rounds(Terminal) \in Nat
      BY <3>2 DEF IsTerminal, Rounds
    <3>4. PICK what \in {"DI", "DO", "AI", "AO", "SP", "none"}, n \in Nat : Count(what, n)
      BY <1>10, <3>3 DEF ReadTerminal
    <3> QED BY <3>4, CountTyped
  <2> QED BY <1>0, <1>10, <2>1 DEF ReadTerminal
<1>11. CASE ReadFails
  BY <1>0, <1>11 DEF ReadFails
<1>12. CASE CreateClamp \/ CreationFails
  <2>1. PICK m \in Managed : TRUE
    BY <1>12 DEF CreateClamp, CreationFails, Inv, OneManager
  <2>2. at \in DOMAIN seen /\ pc = "clamp" /\ nr \in DOMAIN Clamps
    BY <1>12 DEF CreateClamp, CreationFails, Inv, OneByOne
  <2>3. Clamps[nr] \in Shape
    BY <2>1, <2>2, NextTyped, ClampTyped
  <2>4. Count(Adds(Terminal, Clamps[nr]), 1)
    BY <1>12 DEF CreateClamp, CreationFails
  <2>5. Adds(Terminal, Clamps[nr]) \in {"DI", "DO", "AI", "AO", "SP", "none"}
    BY <2>3 DEF Adds, Shape
  <2>6. number' \in [{"DI", "DO", "AI", "AO", "SP"} -> Nat]
    BY <2>4, <2>5, CountTyped
  <2>7. CASE CreateClamp
    <3>1. PICK slot \in Nat :
            clamps' = clamps \cup {[at |-> at, nr |-> nr, shape |-> Clamps[nr], slot |-> slot]}
      BY <2>7 DEF CreateClamp, Slot
    <3>2. clamps' \subseteq [at : Nat, nr : Nat, shape : Shape, slot : Nat]
      BY <2>3, <3>1
    <3> QED BY <1>0, <2>6, <2>7, <3>2 DEF CreateClamp
  <2>8. CASE CreationFails
    BY <1>0, <2>6, <2>8 DEF CreationFails, GiveUp
  <2> QED BY <1>12, <2>7, <2>8
<1>13. CASE NextTerminal
  BY <1>0, <1>13 DEF NextTerminal
<1>14. CASE Finish \/ ReadBreaksOff
  BY <1>0, <1>14 DEF Finish, ReadBreaksOff, Done, IPC
<1>15. CASE Crash
  BY <1>0, <1>15 DEF Crash
<1>16. CASE UNCHANGED vars
  BY <1>0, <1>16 DEF vars, place
<1> QED
  BY <1>1, <1>2, <1>3, <1>4, <1>5, <1>6, <1>7, <1>8, <1>9, <1>10, <1>11, <1>12, <1>13,
     <1>14, <1>15, <1>16 DEF Next, Detection

\* The variables keep their types and the database one manager, whatever
\* the classes of manager and whatever is plugged in.
THEOREM DetectTypes == Spec => []TypeOK
<1>1. Init => TypeOK
  <2> SUFFICES ASSUME Init PROVE TypeOK
    OBVIOUS
  <2>1. manager \in [Class -> {0, 1}] /\ Managed = {}
    BY DEF Init, Managed
  <2>2. number \in [{"DI", "DO", "AI", "AO", "SP"} -> Nat]
    BY DEF Init, NoClamps
  <2>3. files \in 0..MaxFiles
    BY DetectAssumption DEF Init
  <2> QED BY <2>1, <2>2, <2>3 DEF Init, TypeOK
<1>2. Spec => [](Inv /\ TypeOK)
  BY InitInv, NextInv, NextTypes, <1>1, PTL DEF Spec
<1> QED
  BY <1>2, PTL

-----------------------------------------------------------------------------
(* The com block.                                                          *)

\* The count of HART terminals is not zero once one has been passed.
HartCounted ==
  /\ hartCount \in Nat /\ at \in Nat \ {0} /\ nr \in Nat \ {0}
  /\ pc \in {"terminal", "clamp"} =>
       \A m \in Managed : \A i \in DOMAIN seen :
         i < at /\ Kind(m, seen[i]) = "HART" => hartCount > 0
  /\ pc = "clamp" =>
       \A m \in Managed : Kind(m, seen[at]) = "HART" /\ nr > 1 => hartCount > 0
  /\ pc = "crashed" /\ com =>
       \A m \in Managed : \A i \in DOMAIN seen : Kind(m, seen[i]) # "HART"

\* A HART terminal begins with its mailbox and has two clamps more.
LEMMA HartDomain ==
  ASSUME NEW m, NEW t, Kind(m, t) = "HART"
  PROVE  DOMAIN ClampsOf(m, t) = 1..3 /\ ClampsOf(m, t)[1].class = "MailBox"
  BY DEF ClampsOf, HartClamps, NewClamp

\* Every step keeps the count right.
LEMMA NextHart == Inv /\ HartCounted /\ [Next]_vars => HartCounted'
<1> SUFFICES ASSUME Inv, HartCounted, [Next]_vars PROVE HartCounted'
  OBVIOUS
<1> USE DEF HartCounted
<1>1. CASE CreateManager
  BY <1>1 DEF CreateManager, place
<1>2. CASE DeleteManager
  BY <1>2 DEF DeleteManager, place
<1>3. CASE Ask \/ DeleteCom \/ ExecuteWithout \/ DeletionFails \/ OpenFails
  BY <1>3 DEF Ask, DeleteCom, ExecuteWithout, DeletionFails, GiveUp, OpenFails, place
<1>4. CASE Restart \/ PowerFails
  BY <1>4 DEF Restart, PowerFails
<1>5. CASE Execute
  <2>1. /\ pc' = "terminal" /\ at' = 1 /\ nr' = 1 /\ hartCount' = 0 /\ seen' = rack
        /\ manager' = manager
    BY <1>5 DEF Execute
  <2>2. \A m \in Managed' : DOMAIN seen' \subseteq Nat \ {0}
    BY <2>1, RackAssumption DEF Managed, Inv, OneManager
  <2> QED BY <2>1, <2>2
<1>6. CASE ReadTerminal
  BY <1>6 DEF ReadTerminal, Managed
<1>7. CASE ReadFails \/ CreationFails \/ ReadBreaksOff \/ Finish
  BY <1>7 DEF ReadFails, CreationFails, GiveUp, ReadBreaksOff, Finish, Done
<1>8. CASE CreateClamp
  <2>1. PICK m \in Managed : Managed' = Managed /\ TheManager = m /\ \A n \in Managed : n = m
    BY <1>8, TheOne DEF CreateClamp, Managed, Inv, OneManager
  <2>2. /\ pc = "clamp" /\ nr \in DOMAIN ClampsOf(m, seen[at])
        /\ UNCHANGED <<seen, com, pc, at>> /\ nr' = nr + 1
        /\ hartCount' = IF ClampsOf(m, seen[at])[nr].class = "MailBox" THEN hartCount + 1
                        ELSE hartCount
    BY <1>8, <2>1 DEF CreateClamp, Clamps, Terminal
  <2>3. hartCount' \in Nat /\ (hartCount > 0 => hartCount' > 0)
    BY <2>2
  <2>4. Kind(m, seen[at]) = "HART" => hartCount' > 0
    <3> SUFFICES ASSUME Kind(m, seen[at]) = "HART" PROVE hartCount' > 0
      OBVIOUS
    <3>1. CASE nr = 1
      BY <2>2, <3>1, HartDomain
    <3>2. CASE nr > 1
      BY <2>1, <2>2, <2>3, <3>2
    <3> QED BY <3>1, <3>2
  <2> QED BY <2>1, <2>2, <2>3, <2>4
<1>9. CASE NextTerminal
  <2>1. PICK m \in Managed : Managed' = Managed /\ TheManager = m /\ \A n \in Managed : n = m
    BY <1>9, TheOne DEF NextTerminal, Managed, Inv, OneManager
  <2>2. /\ pc = "clamp" /\ pc' = "terminal" /\ nr \notin DOMAIN ClampsOf(m, seen[at])
        /\ UNCHANGED <<seen, com, nr, hartCount>> /\ at' = at + 1
    BY <1>9, <2>1 DEF NextTerminal, Clamps, Terminal
  <2>3. Kind(m, seen[at]) = "HART" => hartCount > 0
    <3> SUFFICES ASSUME Kind(m, seen[at]) = "HART" PROVE hartCount > 0
      OBVIOUS
    <3>1. nr > 1
      BY <2>2, HartDomain
    <3> QED BY <2>1, <2>2, <3>1
  <2>4. DOMAIN seen \subseteq Nat
    BY <2>1, <2>2, RackAssumption DEF Inv, FromTheRack, Managed
  <2>5. \A i \in DOMAIN seen : i < at + 1 => i < at \/ i = at
    BY <2>4
  <2> QED BY <2>1, <2>2, <2>3, <2>5
<1>10. CASE Crash
  <2>1. PICK m \in Managed : Managed' = Managed /\ \A n \in Managed : n = m
    BY <1>10 DEF Crash, IPC, Managed, Inv, OneManager
  <2>2. /\ pc = "terminal" /\ at \notin DOMAIN seen /\ ~(com /\ hartCount > 0)
        /\ pc' = "crashed" /\ UNCHANGED <<seen, com, at, nr, hartCount>>
    BY <1>10 DEF Crash, ComFound
  <2>3. DOMAIN seen = 1..Len(seen) /\ Len(seen) \in Nat
    BY <2>1, <2>2, RackAssumption DEF Inv, FromTheRack, Managed
  <2>4. \A i \in DOMAIN seen : i < at
    BY <2>2, <2>3
  <2> QED BY <2>1, <2>2, <2>4
<1>11. CASE UNCHANGED vars
  BY <1>11 DEF vars, place, Managed
<1> QED
  BY <1>1, <1>2, <1>3, <1>4, <1>5, <1>6, <1>7, <1>8, <1>9, <1>10, <1>11 DEF Next, Detection

\* A detection that finds a HART terminal does not crash the server on account
\* of a com block that is already there.
THEOREM HartRepeats == Spec => []RepeatsWithHart
<1>1. Init => HartCounted
  BY DEF Init, HartCounted
<1>2. Inv /\ HartCounted => RepeatsWithHart
  <2> SUFFICES ASSUME Inv, HartCounted, pc = "crashed"
               PROVE  com => \A i \in DOMAIN seen : Kind(TheManager, seen[i]) # "HART"
    BY DEF RepeatsWithHart
  <2>1. TheManager \in Managed
    BY TheOne DEF Inv, OneManager
  <2> QED BY <2>1 DEF HartCounted
<1>3. Spec => [](Inv /\ HartCounted)
  BY InitInv, NextInv, NextHart, <1>1, PTL DEF Spec
<1> QED
  BY <1>2, <1>3, PTL

-----------------------------------------------------------------------------
(* The clamps of a terminal cover it.                                      *)

\* A special terminal has whole bytes, and its channels the same number of them.
Divides(n, size) == size % 8 = 0 /\ (n > 0 => (size \div 8) % n = 0)
Divisible ==
  \A m \in Class : \A r \in Racks[m] : \A i \in DOMAIN r :
    Kind(m, r[i]) = "special" => /\ Divides(r[i].channels, r[i].inSize)
                                 /\ Divides(r[i].channels, r[i].outSize)

\* The clamps of a terminal are numbered from 1 on.
LEMMA ClampsDomain ==
  ASSUME NEW m \in {"IPC", "FBK"}, NEW t, IsTerminal(t)
  PROVE  \E n \in Nat : DOMAIN ClampsOf(m, t) = 1..n
<1> USE DEF IsTerminal
<1>1. CASE Kind(m, t) = "DI"
  BY <1>1 DEF ClampsOf
<1>2. CASE Kind(m, t) = "DO"
  BY <1>2 DEF ClampsOf
<1>3. CASE Kind(m, t) = "DIO"
  BY <1>3 DEF ClampsOf, MixedClamps
<1>4. CASE Kind(m, t) = "AI"
  BY <1>4 DEF ClampsOf
<1>5. CASE Kind(m, t) = "AO"
  BY <1>5 DEF ClampsOf
<1>6. CASE Kind(m, t) = "HART"
  BY <1>6 DEF ClampsOf, HartClamps
<1>7. CASE Kind(m, t) = "special"
  <2>1. ClampsOf(m, t) = SpecialClamps(t) /\ Rounds(t) \in Nat
    BY <1>7 DEF ClampsOf, Rounds
  <2>2. CASE t.inSize > 0 /\ t.outSize > 0
    <3>1. DOMAIN SpecialClamps(t) = 1..2 * Rounds(t)
      BY <2>2 DEF SpecialClamps
    <3> QED BY <2>1, <3>1
  <2>3. CASE t.inSize > 0 /\ t.outSize = 0
    BY <2>1, <2>3 DEF SpecialClamps
  <2>4. CASE t.inSize = 0 /\ t.outSize > 0
    BY <2>1, <2>4 DEF SpecialClamps
  <2>5. CASE t.inSize = 0 /\ t.outSize = 0
    <3>1. DOMAIN SpecialClamps(t) = 1..0
      BY <2>5 DEF SpecialClamps
    <3> QED BY <2>1, <3>1
  <2> QED BY <2>2, <2>3, <2>4, <2>5
<1>8. CASE Kind(m, t) = "none"
  <2>1. DOMAIN ClampsOf(m, t) = 1..0
    BY <1>8 DEF ClampsOf
  <2> QED BY <2>1
<1> QED
  BY <1>1, <1>2, <1>3, <1>4, <1>5, <1>6, <1>7, <1>8, KindType

\* Every byte of a number of bytes is in one of the shares it is divided into.
LEMMA InAShare ==
  ASSUME NEW b \in Nat, NEW n \in Nat \ {0}, b % n = 0, NEW x \in 0..b - 1
  PROVE  \E j \in 0..n - 1 : j * (b \div n) <= x /\ x < j * (b \div n) + (b \div n)
<1> DEFINE s == b \div n
           j == x \div s
<1>1. s \in Nat /\ s * n = b
  OBVIOUS
<1>2. s > 0
  BY <1>1
<1> HIDE DEF s
<1>3. j \in Nat /\ j * s <= x /\ x < j * s + s
  BY <1>1, <1>2
<1> HIDE DEF j
<1>4. j < n
  <2> SUFFICES ASSUME j >= n PROVE FALSE
    BY <1>3
  <2>1. n * s <= j * s
    BY <1>1, <1>3
  <2>2. n * s = s * n
    BY <1>1
  <2> QED BY <1>1, <1>3, <2>1, <2>2
<1> QED BY <1>3, <1>4 DEF s

\* Every bit of a terminal that can be divided belongs to a channel.
LEMMA InAPart ==
  ASSUME NEW pos \in Nat, NEW size \in Nat, NEW channels \in Nat, Divides(channels, size),
         NEW bit \in pos..pos + size - 1
  PROVE  \E j \in 0..(IF channels = 0 THEN 1 ELSE channels) - 1 : bit \in Part(pos, size, channels, j)
<1>1. CASE channels = 0
  <2>1. 8 * (size \div 8) = size
    BY DEF Divides
  <2>2. Part(pos, size, channels, 0) = pos + 8 * 0..pos + 8 * (0 + size \div 8) - 1
    BY <1>1 DEF Part
  <2>3. bit \in Part(pos, size, channels, 0)
    BY <2>1, <2>2
  <2> QED BY <1>1, <2>3
<1>2. CASE channels > 0
  <2> DEFINE b == size \div 8
             x == (bit - pos) \div 8
             share == b \div channels
  <2>1. b \in Nat /\ 8 * b = size /\ b % channels = 0 /\ channels \in Nat \ {0}
    BY <1>2 DEF Divides
  <2>2. x \in 0..b - 1 /\ 8 * x <= bit - pos /\ bit - pos < 8 * x + 8
    <3>1. bit - pos \in 0..size - 1
      OBVIOUS
    <3> QED BY <2>1, <3>1
  <2> HIDE DEF x, b
  <2>3. PICK j \in 0..channels - 1 : j * (b \div channels) <= x /\ x < j * (b \div channels) + (b \div channels)
    BY <2>1, <2>2, InAShare
  <2> DEFINE begin == j * share
  <2>4. share \in Nat
    BY <2>1
  <2>5. begin \in Nat /\ begin <= x /\ x < begin + share
    BY <2>3, <2>4
  <2>6. Part(pos, size, channels, j) = pos + 8 * begin..pos + 8 * (begin + share) - 1
    BY <1>2 DEF Part, b
  <2> HIDE DEF begin, share
  <2>7. bit \in Part(pos, size, channels, j)
    BY <2>2, <2>4, <2>5, <2>6
  <2> QED BY <1>2, <2>7
<1> QED BY <1>1, <1>2

\* The bytes of a special output.
LEMMA OutputBits ==
  ASSUME NEW pos \in Nat, pos % 16 = 0, NEW size \in Nat, NEW channels \in Nat,
         NEW j \in Nat
  PROVE  BitsOf(SpecialClamp("SO", pos, size, channels, j), "out") =
           Part(pos, size, channels, j)
BY SpecialBits DEF Images

\* Every bit of a number of words belongs to one of them.
LEMMA InAWord ==
  ASSUME NEW pos \in Nat, NEW n \in Nat, NEW size, size = 16 * n, NEW bit \in pos..pos + size - 1
  PROVE  \E j \in Nat : j < n /\ bit \in pos + 16 * j..pos + 16 * j + 15
<1> DEFINE j == (bit - pos) \div 16
<1>1. bit - pos \in 0..16 * n - 1
  OBVIOUS
<1>2. j \in Nat /\ j < n /\ 16 * j <= bit - pos /\ bit - pos <= 16 * j + 15
  BY <1>1
<1> HIDE DEF j
<1> QED BY <1>2

\* Every bit of a terminal that carries a value belongs to a clamp of it, if it is
\* of a kind the code knows.
LEMMA Covers ==
  ASSUME NEW m \in {"IPC", "FBK"}, NEW t, IsTerminal(t), WellFormed(m, t),
         Kind(m, t) = "special" => Divides(t.channels, t.inSize) /\ Divides(t.channels, t.outSize),
         Kind(m, t) # "none",
         NEW image \in Images, NEW bit \in ValueBits(m, t, image)
  PROVE  \E k \in DOMAIN ClampsOf(m, t) : bit \in BitsOf(ClampsOf(m, t)[k], image)
<1> USE DEF IsTerminal
<1>1. CASE Kind(m, t) = "DI"
  <2>1. image = "in" /\ bit \in t.in..t.in + t.inSize - 1
    BY <1>1 DEF ValueBits, Area
  <2> DEFINE k == bit - t.in + 1
  <2>2. k \in 1..t.inSize /\ t.in + (k - 1) = bit /\ k - 1 \in Nat
    BY <2>1
  <2>3. k \in DOMAIN ClampsOf(m, t) /\ ClampsOf(m, t)[k] = DigitalClamp("DI", t.in, k - 1)
    BY <1>1, <2>2 DEF ClampsOf
  <2> HIDE DEF k
  <2>4. BitsOf(DigitalClamp("DI", t.in, k - 1), image) = {bit}
    BY <2>1, <2>2, DigitalBits
  <2> QED BY <2>3, <2>4
<1>2. CASE Kind(m, t) = "DO"
  <2>1. image = "out" /\ bit \in t.out..t.out + t.outSize - 1
    BY <1>2 DEF ValueBits, Area, Images
  <2> DEFINE k == bit - t.out + 1
  <2>2. k \in 1..t.outSize /\ t.out + (k - 1) = bit /\ k - 1 \in Nat
    BY <2>1
  <2>3. k \in DOMAIN ClampsOf(m, t) /\ ClampsOf(m, t)[k] = DigitalClamp("DO", t.out, k - 1)
    BY <1>2, <2>2 DEF ClampsOf
  <2> HIDE DEF k
  <2>4. BitsOf(DigitalClamp("DO", t.out, k - 1), image) = {bit}
    BY <2>1, <2>2, DigitalBits
  <2> QED BY <2>3, <2>4
<1>3. CASE Kind(m, t) = "DIO"
  <2>0. ClampsOf(m, t) = MixedClamps(t)
    BY <1>3 DEF ClampsOf
  <2>1. CASE image = "in"
    <3>1. bit \in t.in..t.in + t.inSize - 1
      BY <1>3, <2>1 DEF ValueBits, Area
    <3> DEFINE k == bit - t.in + 1
    <3>2. k \in 1..t.inSize /\ t.in + (k - 1) = bit /\ k - 1 \in Nat
      BY <3>1
    <3>3. k \in DOMAIN MixedClamps(t) /\ MixedClamps(t)[k] = DigitalClamp("DI", t.in, k - 1)
      BY <3>2 DEF MixedClamps
    <3> HIDE DEF k
    <3>4. BitsOf(DigitalClamp("DI", t.in, k - 1), image) = {bit}
      BY <2>1, <3>2, DigitalBits
    <3> QED BY <2>0, <3>3, <3>4
  <2>2. CASE image = "out"
    <3>1. bit \in t.out..t.out + t.outSize - 1
      BY <1>3, <2>2 DEF ValueBits, Area
    <3> DEFINE j == bit - t.out
               k == t.inSize + 1 + j
    <3>2. j \in 0..t.outSize - 1 /\ t.out + j = bit /\ j \in Nat
      BY <3>1
    <3> HIDE DEF j
    <3>3. k \in 1..t.inSize + t.outSize /\ ~(k <= t.inSize) /\ k - t.inSize - 1 = j
      BY <3>2
    <3>4. k \in DOMAIN MixedClamps(t) /\ MixedClamps(t)[k] = DigitalClamp("DO", t.out, j)
      BY <3>3 DEF MixedClamps
    <3>5. BitsOf(DigitalClamp("DO", t.out, j), image) = {bit}
      BY <2>2, <3>2, DigitalBits
    <3> HIDE DEF k
    <3> QED BY <2>0, <3>4, <3>5
  <2> QED BY <2>1, <2>2 DEF Images
<1>4. CASE Kind(m, t) = "AI"
  <2>1. /\ image = "in" /\ bit \in t.in..t.in + t.inSize - 1
        /\ t.in % 16 = 0 /\ t.inSize = 16 * t.channels
    BY <1>4 DEF ValueBits, Area, WellFormed
  <2>2. PICK j \in Nat : j < t.channels /\ bit \in t.in + 16 * j..t.in + 16 * j + 15
    BY <2>1, InAWord
  <2> DEFINE k == j + 1
  <2>0. k \in 1..t.channels /\ k - 1 = j
    BY <2>2
  <2> HIDE DEF k
  <2>3. k \in DOMAIN ClampsOf(m, t) /\ ClampsOf(m, t)[k] = WordClamp("AI", t.in, j)
    BY <1>4, <2>0 DEF ClampsOf
  <2>4. BitsOf(WordClamp("AI", t.in, j), image) = t.in + 16 * j..t.in + 16 * j + 15
    BY <2>1, <2>2, WordBits
  <2> QED BY <2>2, <2>3, <2>4
<1>5. CASE Kind(m, t) = "AO"
  <2>1. /\ image = "out" /\ bit \in t.out..t.out + t.outSize - 1
        /\ t.out % 16 = 0 /\ t.outSize = 16 * t.channels
    BY <1>5 DEF ValueBits, Area, WellFormed, Images
  <2>2. PICK j \in Nat : j < t.channels /\ bit \in t.out + 16 * j..t.out + 16 * j + 15
    BY <2>1, InAWord
  <2> DEFINE k == j + 1
  <2>0. k \in 1..t.channels /\ k - 1 = j
    BY <2>2
  <2> HIDE DEF k
  <2>3. k \in DOMAIN ClampsOf(m, t) /\ ClampsOf(m, t)[k] = WordClamp("AO", t.out, j)
    BY <1>5, <2>0 DEF ClampsOf
  <2>4. BitsOf(WordClamp("AO", t.out, j), image) = t.out + 16 * j..t.out + 16 * j + 15
    BY <2>1, <2>2, WordBits
  <2> QED BY <2>2, <2>3, <2>4
<1>6. CASE Kind(m, t) = "HART"
  <2>1. /\ DOMAIN ClampsOf(m, t) = 1..3 /\ ClampsOf(m, t) = HartClamps(t)
        /\ t.in % 16 = 0 /\ t.out % 16 = 0
    BY <1>6 DEF ClampsOf, WellFormed, HartClamps
  <2>2. CASE image = "in"
    <3>1. bit \in t.in + 16..t.in + 95
      BY <1>6, <2>2 DEF ValueBits
    <3>2. /\ BitsOf(HartClamps(t)[1], image) = t.in + 16..t.in + 63
          /\ BitsOf(HartClamps(t)[2], image) = t.in + 64..t.in + 79
          /\ BitsOf(HartClamps(t)[3], image) = t.in + 80..t.in + 95
      BY <2>1, <2>2, HartBits
    <3>3. \/ bit \in t.in + 16..t.in + 63 \/ bit \in t.in + 64..t.in + 79
          \/ bit \in t.in + 80..t.in + 95
      BY <3>1
    <3>4. \A k \in {1, 2, 3} : k \in DOMAIN ClampsOf(m, t) /\ ClampsOf(m, t)[k] = HartClamps(t)[k]
      BY <2>1
    <3>5. CASE bit \in t.in + 16..t.in + 63
      BY <3>2, <3>4, <3>5, Zenon
    <3>6. CASE bit \in t.in + 64..t.in + 79
      BY <3>2, <3>4, <3>6, Zenon
    <3>7. CASE bit \in t.in + 80..t.in + 95
      BY <3>2, <3>4, <3>7, Zenon
    <3> QED BY <3>3, <3>5, <3>6, <3>7
  <2>3. CASE image = "out"
    <3>1. bit \in t.out + 16..t.out + 63
      BY <1>6, <2>3 DEF ValueBits
    <3>2. BitsOf(HartClamps(t)[1], image) = t.out + 16..t.out + 63
      BY <2>1, <2>3, HartBits
    <3> QED BY <2>1, <3>1, <3>2
  <2> QED BY <2>2, <2>3 DEF Images
<1>7. CASE Kind(m, t) = "special"
  <2>0. /\ ClampsOf(m, t) = SpecialClamps(t) /\ t.in % 16 = 0 /\ t.out % 16 = 0
        /\ Rounds(t) = (IF t.channels = 0 THEN 1 ELSE t.channels) /\ Rounds(t) \in Nat
    BY <1>7 DEF ClampsOf, WellFormed, Rounds
  <2>1. CASE image = "in"
    <3>1. bit \in t.in..t.in + t.inSize - 1 /\ t.inSize > 0
      BY <1>7, <2>1 DEF ValueBits, Area
    <3>2. PICK j \in 0..Rounds(t) - 1 : bit \in Part(t.in, t.inSize, t.channels, j)
      BY <1>7, <2>0, <3>1, InAPart
    <3>3. BitsOf(SpecialClamp("SI", t.in, t.inSize, t.channels, j), image) =
            Part(t.in, t.inSize, t.channels, j)
      <4>1. j \in Nat
        BY <2>0
      <4>2. t.in \in Nat /\ t.inSize \in Nat /\ t.channels \in Nat
        OBVIOUS
      <4>3. BitsOf(SpecialClamp("SI", t.in, t.inSize, t.channels, j), image) =
              IF image = "in" THEN Part(t.in, t.inSize, t.channels, j) ELSE {}
        BY <2>0, <4>1, <4>2, SpecialBits, Zenon
      <4> QED BY <2>1, <4>3
    <3>4. \E k \in DOMAIN SpecialClamps(t) :
            SpecialClamps(t)[k] = SpecialClamp("SI", t.in, t.inSize, t.channels, j)
      <4>1. CASE t.outSize > 0
        <5> DEFINE k == 2 * j + 1
        <5>1. k \in 1..2 * Rounds(t) /\ k % 2 = 1 /\ k \div 2 = j
          BY <2>0, <3>2
        <5> HIDE DEF k
        <5>2. /\ k \in DOMAIN SpecialClamps(t)
              /\ SpecialClamps(t)[k] = SpecialClamp("SI", t.in, t.inSize, t.channels, j)
          BY <3>1, <4>1, <5>1 DEF SpecialClamps
        <5> QED BY <5>2
      <4>2. CASE t.outSize = 0
        <5> DEFINE k == j + 1
        <5>1. k \in 1..Rounds(t) /\ k - 1 = j
          BY <2>0, <3>2
        <5> HIDE DEF k
        <5>2. /\ k \in DOMAIN SpecialClamps(t)
              /\ SpecialClamps(t)[k] = SpecialClamp("SI", t.in, t.inSize, t.channels, j)
          BY <3>1, <4>2, <5>1 DEF SpecialClamps
        <5> QED BY <5>2
      <4> QED BY <4>1, <4>2
    <3> QED BY <2>0, <3>2, <3>3, <3>4
  <2>2. CASE image = "out"
    <3>1. bit \in t.out..t.out + t.outSize - 1 /\ t.outSize > 0
      BY <1>7, <2>2 DEF ValueBits, Area
    <3>2. PICK j \in 0..Rounds(t) - 1 : bit \in Part(t.out, t.outSize, t.channels, j)
      BY <1>7, <2>0, <3>1, InAPart
    <3>3. BitsOf(SpecialClamp("SO", t.out, t.outSize, t.channels, j), image) =
            Part(t.out, t.outSize, t.channels, j)
      <4>1. j \in Nat
        BY <2>0
      <4>2. t.out \in Nat /\ t.outSize \in Nat /\ t.channels \in Nat
        OBVIOUS
      <4> QED BY <2>0, <2>2, <4>1, <4>2, OutputBits
    <3>4. \E k \in DOMAIN SpecialClamps(t) :
            SpecialClamps(t)[k] = SpecialClamp("SO", t.out, t.outSize, t.channels, j)
      <4>1. CASE t.inSize > 0
        <5> DEFINE k == 2 * j + 2
        <5>1. k \in 1..2 * Rounds(t) /\ k % 2 # 1 /\ k \div 2 - 1 = j
          BY <2>0, <3>2
        <5> HIDE DEF k
        <5>2. /\ k \in DOMAIN SpecialClamps(t)
              /\ SpecialClamps(t)[k] = SpecialClamp("SO", t.out, t.outSize, t.channels, j)
          BY <3>1, <4>1, <5>1 DEF SpecialClamps
        <5> QED BY <5>2
      <4>2. CASE t.inSize = 0
        <5> DEFINE k == j + 1
        <5>1. k \in 1..Rounds(t) /\ k - 1 = j
          BY <2>0, <3>2
        <5> HIDE DEF k
        <5>2. /\ k \in DOMAIN SpecialClamps(t)
              /\ SpecialClamps(t)[k] = SpecialClamp("SO", t.out, t.outSize, t.channels, j)
          BY <3>1, <4>2, <5>1 DEF SpecialClamps
        <5> QED BY <5>2
      <4> QED BY <4>1, <4>2
    <3> QED BY <2>0, <3>2, <3>3, <3>4
  <2> QED BY <2>1, <2>2 DEF Images
<1>8. CASE Kind(m, t) = "none"
  BY <1>8 DEF ValueBits
<1> QED
  BY <1>1, <1>2, <1>3, <1>4, <1>5, <1>6, <1>7, <1>8, KindType

-----------------------------------------------------------------------------
(* What a detection has created.                                           *)

\* The k-th clamp of the i-th terminal has been created.
Passed(i, k) == i < at \/ (pc = "clamp" /\ i = at /\ k < nr)

\* A detection has created every clamp it has passed, of the rack as it is.
Built ==
  pc # "idle" =>
    /\ error = "none" /\ rack = seen
    /\ pc = "crashed" => at \notin DOMAIN seen
    /\ \A m \in Managed : \A i \in DOMAIN seen : \A k \in DOMAIN ClampsOf(m, seen[i]) :
         Passed(i, k) => \E c \in clamps : c.at = i /\ c.nr = k

\* The slots of the mailboxes created so far, and the mailbox of a HART input.
SlotsKept ==
  pc # "idle" =>
    /\ IsFiniteSet(clamps) /\ Cardinality(Made("MailBox")) = hartCount
    /\ {c.slot : c \in Made("MailBox")} = 1..hartCount
    /\ \A c \in Made("HARTAI") : \E b \in Made("MailBox") : b.at = c.at /\ b.slot = c.slot
    /\ pc = "clamp" /\ nr > 1 =>
         \A m \in Managed : Kind(m, seen[at]) = "HART" =>
           \E b \in Made("MailBox") : b.at = at /\ b.slot = hartCount

\* The analog channels that are counted and not created yet.
ToCome(class) ==
  IF pc = "clamp" /\ class \in {"AI", "AO"} /\ Kind("FBK", Terminal) = class
  THEN Terminal.channels - (nr - 1) ELSE 0

\* The classes whose clamps have a number of their own.
Numbered == {"DI", "DO", "AI", "AO"}

\* The numbers of WagoFBKManager are those of the clamps created and to come.
NumbersKept ==
  pc # "idle" =>
    /\ pc = "clamp" => \A m \in Managed : nr = 1 \/ nr - 1 \in DOMAIN ClampsOf(m, seen[at])
    /\ FBK => \A class \in Numbered : number[class] = Cardinality(Made(class)) + ToCome(class)

\* While it works there is one manager, and the rack is one of its.
LEMMA Working ==
  ASSUME Inv, pc # "idle"
  PROVE  \E m \in Managed : /\ Managed = {m} /\ TheManager = m /\ m \in {"IPC", "FBK"}
                            /\ rack \in Racks[m] /\ RackOf(m, rack)
                            /\ DOMAIN rack = 1..Len(rack) /\ Len(rack) \in Nat
<1>1. PICK m \in Managed : TRUE
  BY DEF Inv, OneManager
<1>2. Managed = {m} /\ TheManager = m
  BY <1>1, TheOne DEF Inv, OneManager
<1>3. m \in Class /\ rack \in Racks[m]
  BY <1>1 DEF Inv, OneManager, Managed
<1> QED BY <1>2, <1>3, RacksAreRacks, RackAssumption

\* The steps of a detection that goes on.
LEMMA GoesOn ==
  ASSUME Inv, [Next]_vars, pc' # "idle"
  PROVE  /\ Execute \/ (pc # "idle" /\ (ReadTerminal \/ CreateClamp \/ NextTerminal \/ Crash
                                         \/ UNCHANGED vars))
         /\ UNCHANGED <<manager, rack>>
  BY DEF Next, Detection, CreateManager, DeleteManager, Ask, DeleteCom, Restart, PowerFails,
         ExecuteWithout, DeletionFails, OpenFails, GiveUp, Execute, ReadTerminal, ReadFails,
         CreateClamp, CreationFails, NextTerminal, ReadBreaksOff, Finish, Done, Crash, place, vars

\* What a detection adds to the clamps.
LEMMA Creates ==
  ASSUME Inv, CreateClamp, NEW m, TheManager = m
  PROVE  \E c : /\ clamps' = clamps \cup {c} /\ c \notin clamps
                /\ c.at = at /\ c.nr = nr /\ c.shape = ClampsOf(m, seen[at])[nr]
                /\ c.shape.class = "MailBox" => c.slot = hartCount + 1 /\ hartCount' = hartCount + 1
                /\ c.shape.class # "MailBox" => hartCount' = hartCount
                /\ c.shape.class = "HARTAI" => c.slot = hartCount
<1> DEFINE shape == ClampsOf(m, seen[at])[nr]
           slot == CASE shape.class = "MailBox" -> hartCount + 1
                     [] shape.class = "HARTAI" -> hartCount
                     [] OTHER -> 0
           c == [at |-> at, nr |-> nr, shape |-> shape, slot |-> slot]
<1>1. Clamps[nr] = shape /\ pc = "clamp"
  BY DEF Clamps, Terminal, CreateClamp
<1>2. /\ clamps' = clamps \cup {c}
      /\ hartCount' = IF shape.class = "MailBox" THEN hartCount + 1 ELSE hartCount
  <2> HIDE DEF shape
  <2> QED BY <1>1 DEF CreateClamp, Slot
<1>3. c.at = at /\ c.nr = nr /\ c.shape = shape /\ c.slot = slot
  OBVIOUS
<1>4. /\ shape.class = "MailBox" => slot = hartCount + 1
      /\ shape.class = "HARTAI" => slot = hartCount
  <2> HIDE DEF shape
  <2> QED OBVIOUS
<1> HIDE DEF c, slot
<1>5. c \notin clamps
  <2>1. at \in Nat /\ nr \in Nat
    BY DEF Inv, OneByOne
  <2>2. ASSUME c \in clamps PROVE FALSE
    <3>1. c.at < at \/ (c.at = at /\ c.nr < nr)
      BY <1>1, <2>2 DEF Inv, OneByOne
    <3> QED BY <1>3, <2>1, <3>1
  <2> QED BY <2>2
<1> WITNESS c
<1> QED
  <2> HIDE DEF shape
  <2>1. c.shape = ClampsOf(m, seen[at])[nr]
    BY <1>3 DEF shape
  <2> QED BY <1>2, <1>3, <1>4, <1>5, <2>1

\* Every step of a detection keeps to this.
LEMMA NextBuilt == Inv /\ HartCounted /\ Built /\ [Next]_vars => Built'
<1> SUFFICES ASSUME Inv, HartCounted, Built, [Next]_vars, pc' # "idle"
             PROVE  /\ error' = "none" /\ rack' = seen'
                    /\ pc' = "crashed" => at' \notin DOMAIN seen'
                    /\ \A m \in Managed' : \A i \in DOMAIN seen' : \A k \in DOMAIN ClampsOf(m, seen'[i]) :
                         Passed(i, k)' => \E c \in clamps' : c.at = i /\ c.nr = k
  BY DEF Built
<1>0. /\ Execute \/ (pc # "idle" /\ (ReadTerminal \/ CreateClamp \/ NextTerminal \/ Crash
                                     \/ UNCHANGED vars))
      /\ UNCHANGED <<manager, rack>> /\ Managed' = Managed
  BY GoesOn DEF Managed
<1>1. CASE Execute
  <2>1. /\ pc' = "terminal" /\ at' = 1 /\ error' = "none" /\ seen' = rack
    BY <1>1 DEF Execute
  <2>2. \A m \in Managed : DOMAIN rack \subseteq Nat \ {0}
    BY RackAssumption DEF Managed, Inv, OneManager
  <2>3. \A m \in Managed : \A i \in DOMAIN rack : ~(i < 1)
    BY <2>2
  <2> QED BY <1>0, <2>1, <2>3 DEF Passed
<1> SUFFICES ASSUME pc # "idle", ReadTerminal \/ CreateClamp \/ NextTerminal \/ Crash \/ UNCHANGED vars
             PROVE  /\ error' = "none" /\ rack' = seen'
                    /\ pc' = "crashed" => at' \notin DOMAIN seen'
                    /\ \A m \in Managed' : \A i \in DOMAIN seen' : \A k \in DOMAIN ClampsOf(m, seen'[i]) :
                         Passed(i, k)' => \E c \in clamps' : c.at = i /\ c.nr = k
  BY <1>0, <1>1
<1>2. PICK m \in Managed : /\ Managed = {m} /\ TheManager = m /\ m \in {"IPC", "FBK"}
                           /\ RackOf(m, rack) /\ DOMAIN rack = 1..Len(rack) /\ Len(rack) \in Nat
  BY Working
<1>3. /\ error = "none" /\ rack = seen /\ (pc = "crashed" => at \notin DOMAIN seen)
      /\ \A i \in DOMAIN seen : \A k \in DOMAIN ClampsOf(m, seen[i]) :
           Passed(i, k) => \E c \in clamps : c.at = i /\ c.nr = k
  BY <1>2 DEF Built
<1>4. UNCHANGED <<error, seen>>
  BY DEF ReadTerminal, CreateClamp, NextTerminal, Crash, vars
<1>5. ASSUME NEW i \in DOMAIN seen
      PROVE  /\ i \in Nat /\ \E n \in Nat : DOMAIN ClampsOf(m, seen[i]) = 1..n
  BY <1>2, <1>3, ClampsDomain DEF RackOf
<1>6. at \in Nat /\ nr \in Nat \ {0}
  BY DEF HartCounted
<1>7. ASSUME NEW i \in DOMAIN seen, NEW k \in DOMAIN ClampsOf(m, seen[i]), Passed(i, k)'
      PROVE  \E c \in clamps' : c.at = i /\ c.nr = k
  <2>1. i \in Nat /\ k \in Nat \ {0}
    BY <1>5
  <2>2. CASE Passed(i, k)
    <3>1. PICK c \in clamps : c.at = i /\ c.nr = k
      BY <1>3, <2>2
    <3>2. clamps \subseteq clamps'
      BY DEF ReadTerminal, CreateClamp, NextTerminal, Crash, vars
    <3> QED BY <3>1, <3>2
  <2>3. CASE ~Passed(i, k)
    <3>1. CASE ReadTerminal
      <4>1. pc = "terminal" /\ pc' = "clamp" /\ nr' = 1 /\ at' = at
        BY <3>1 DEF ReadTerminal
      <4> QED BY <1>7, <2>1, <2>3, <4>1 DEF Passed
    <3>2. CASE CreateClamp
      <4>1. pc = "clamp" /\ pc' = pc /\ at' = at /\ nr' = nr + 1
        BY <3>2 DEF CreateClamp
      <4>2. i = at /\ k = nr
        BY <1>6, <1>7, <2>1, <2>3, <4>1 DEF Passed
      <4>3. PICK c : clamps' = clamps \cup {c} /\ c.at = at /\ c.nr = nr
        BY <1>2, <3>2, Creates
      <4> QED BY <4>2, <4>3
    <3>3. CASE NextTerminal
      <4>1. /\ pc = "clamp" /\ pc' = "terminal" /\ at' = at + 1
            /\ nr \notin DOMAIN ClampsOf(m, seen[at])
        BY <1>2, <3>3 DEF NextTerminal, Clamps, Terminal
      <4>2. i = at
        BY <1>6, <1>7, <2>1, <2>3, <4>1 DEF Passed
      <4>3. PICK n \in Nat : DOMAIN ClampsOf(m, seen[i]) = 1..n
        BY <1>5
      <4>4. k < nr
        BY <1>6, <4>1, <4>2, <4>3
      <4> QED BY <2>3, <4>1, <4>2, <4>4 DEF Passed
    <3>4. CASE Crash
      BY <1>7, <2>3, <3>4 DEF Crash, Passed
    <3>5. CASE UNCHANGED vars
      BY <1>7, <2>3, <3>5 DEF vars, place, Passed
    <3> QED BY <3>1, <3>2, <3>3, <3>4, <3>5
  <2> QED BY <2>2, <2>3
<1>8. pc' = "crashed" => at' \notin DOMAIN seen'
  BY <1>3, <1>4 DEF ReadTerminal, CreateClamp, NextTerminal, Crash, vars, place
<1> QED BY <1>0, <1>2, <1>3, <1>4, <1>7, <1>8

\* A detection that ends has passed every clamp of every terminal it has read, and
\* unless the file could not be read those are all.
LEMMA AllBuilt ==
  ASSUME Inv, HartCounted, Built, [Next]_vars, Succeeds
  PROVE  /\ pc = "terminal" /\ UNCHANGED <<clamps, number>> /\ rack = seen
         /\ \A i \in DOMAIN rack : i < at \/ (FBK /\ i >= at)
         /\ \A m \in Managed : \A i \in DOMAIN rack : \A k \in DOMAIN ClampsOf(m, rack[i]) :
              i < at => \E c \in clamps : c.at = i /\ c.nr = k
<1>1. pc # "idle" /\ error = "none" /\ rack = seen
  BY DEF Succeeds, Built
<1>2. Finish \/ ReadBreaksOff
  BY <1>1 DEF Succeeds, Next, Detection, CreateManager, DeleteManager, Ask, DeleteCom, Restart,
     PowerFails, ExecuteWithout, DeletionFails, OpenFails, GiveUp, Execute, ReadTerminal, ReadFails,
     CreateClamp, CreationFails, NextTerminal, Crash, place, vars
<1>3. /\ pc = "terminal" /\ UNCHANGED <<clamps, number>>
      /\ at \notin DOMAIN seen \/ FBK
  BY <1>2 DEF Finish, ReadBreaksOff
<1>4. DOMAIN rack = 1..Len(rack) /\ Len(rack) \in Nat /\ at \in Nat \ {0}
  BY <1>1, Working DEF HartCounted
<1>5. \A i \in DOMAIN rack : i < at \/ (FBK /\ i >= at)
  BY <1>1, <1>3, <1>4
<1> QED BY <1>1, <1>3, <1>5 DEF Built, Passed

\* When it has succeeded, the clamps cover each terminal but those left out.
LEMMA CoveredStep ==
  ASSUME Divisible, Inv, HartCounted, Built, [Next]_vars, Succeeds,
         NEW i \in DOMAIN rack
  PROVE  LeftOut(i) \/ HasClamps(i, clamps')
<1> SUFFICES ASSUME ~LeftOut(i), NEW image \in {"in", "out"}
             PROVE  ValueBits(TheManager, rack[i], image) \subseteq
                      UNION {BitsOf(c.shape, image) : c \in clamps'}
  BY DEF HasClamps
<1>1. PICK m \in Managed : /\ Managed = {m} /\ TheManager = m /\ m \in {"IPC", "FBK"}
                           /\ rack \in Racks[m] /\ RackOf(m, rack)
  BY Working DEF Succeeds
<1>2. m \in Class /\ IsTerminal(rack[i]) /\ WellFormed(m, rack[i])
  BY <1>1 DEF Managed, RackOf
<1>3. Kind(m, rack[i]) = "special" =>
        Divides(rack[i].channels, rack[i].inSize) /\ Divides(rack[i].channels, rack[i].outSize)
  BY <1>1, <1>2 DEF Divisible
<1>4. Kind(m, rack[i]) # "none"
  <2>1. CASE m = "FBK"
    BY <1>1, <2>1 DEF LeftOut, FBK, Kind
  <2>2. CASE m = "IPC"
    BY <2>2 DEF Kind, KindIPC
  <2> QED BY <1>1, <2>1, <2>2
<1>5. /\ clamps' = clamps /\ rack = seen
      /\ \A k \in DOMAIN ClampsOf(m, rack[i]) : \E c \in clamps : c.at = i /\ c.nr = k
  BY <1>1, AllBuilt DEF LeftOut
<1>6. ASSUME NEW bit \in ValueBits(m, rack[i], image)
      PROVE  \E c \in clamps : bit \in BitsOf(c.shape, image)
  <2>1. image \in Images
    BY DEF Images
  <2>2. PICK k \in DOMAIN ClampsOf(m, rack[i]) : bit \in BitsOf(ClampsOf(m, rack[i])[k], image)
    BY <1>1, <1>2, <1>3, <1>4, <2>1, Covers
  <2>3. PICK c \in clamps : c.at = i /\ c.nr = k
    BY <1>5
  <2>4. c.shape = ClampsOf(m, rack[i])[k]
    BY <1>1, <1>5, <2>3 DEF Inv, FromTheRack
  <2> QED BY <2>2, <2>4
<1> QED BY <1>1, <1>5, <1>6

\* Theorem: a detection that ends without an error has a clamp for every bit of
\* the rack that carries a value - with WagoFBKManager for every bit of the known
\* terminals that could be read - if the bytes of its special terminals can be
\* divided among their channels; the code drops the remainder (AllCovered).
THEOREM DetectedAll ==
  ASSUME Divisible
  PROVE  Spec => AllCovered
<1>1. Init => HartCounted /\ Built
  BY DEF Init, HartCounted, Built
<1>2. Spec => [](Inv /\ HartCounted /\ Built)
  BY InitInv, NextInv, NextHart, NextBuilt, <1>1, PTL DEF Spec
<1>3. Inv /\ HartCounted /\ Built /\ [Next]_vars =>
        [Succeeds => \A i \in DOMAIN rack : LeftOut(i) \/ HasClamps(i, clamps')]_vars
  BY CoveredStep
<1> QED BY <1>2, <1>3, PTL DEF Spec, AllCovered

-----------------------------------------------------------------------------
(* Slots and numbers.                                                      *)

\* Which clamps a terminal of a kind is given.
LEMMA ClassOf ==
  ASSUME NEW m \in {"IPC", "FBK"}, NEW t, IsTerminal(t), NEW k \in DOMAIN ClampsOf(m, t)
  PROVE  LET class == ClampsOf(m, t)[k].class
         IN /\ k \in Nat \ {0}
            /\ \A a \in {"AI", "AO"} : class = a <=> Kind(m, t) = a
            /\ Kind(m, t) \in {"AI", "AO"} => k <= t.channels
            /\ Kind(m, t) = "HART" /\ k = 1 <=> class = "MailBox"
            /\ Kind(m, t) = "HART" /\ k > 1 <=> class = "HARTAI"
            /\ class \in {"DI", "DO", "AI", "AO", "SI", "SO", "MailBox", "HARTAI"}
<1> USE DEF IsTerminal
<1>1. CASE Kind(m, t) = "DI"
  BY <1>1 DEF ClampsOf, DigitalClamp, NewClamp
<1>2. CASE Kind(m, t) = "DO"
  BY <1>2 DEF ClampsOf, DigitalClamp, NewClamp
<1>3. CASE Kind(m, t) = "DIO"
  <2>1. /\ k \in 1..t.inSize + t.outSize
        /\ ClampsOf(m, t)[k] = IF k <= t.inSize THEN DigitalClamp("DI", t.in, k - 1)
                               ELSE DigitalClamp("DO", t.out, k - t.inSize - 1)
    BY <1>3 DEF ClampsOf, MixedClamps
  <2>2. ClampsOf(m, t)[k].class \in {"DI", "DO"}
    BY <2>1 DEF DigitalClamp, NewClamp
  <2> QED BY <1>3, <2>1, <2>2
<1>4. CASE Kind(m, t) = "AI"
  BY <1>4 DEF ClampsOf, WordClamp, NewClamp
<1>5. CASE Kind(m, t) = "AO"
  BY <1>5 DEF ClampsOf, WordClamp, NewClamp
<1>6. CASE Kind(m, t) = "HART"
  <2>1. k \in 1..3 /\ ClampsOf(m, t)[k] = HartClamps(t)[k]
    BY <1>6 DEF ClampsOf, HartClamps
  <2>2. CASE k = 1
    BY <1>6, <2>1, <2>2 DEF HartClamps, NewClamp
  <2>3. CASE k > 1
    <3>1. ClampsOf(m, t)[k].class = "HARTAI"
      BY <2>1, <2>3 DEF HartClamps, WordClamp, NewClamp
    <3> QED BY <1>6, <2>1, <2>3, <3>1
  <2> QED BY <2>1, <2>2, <2>3
<1>7. CASE Kind(m, t) = "special"
  <2>1. k \in DOMAIN SpecialClamps(t) /\ ClampsOf(m, t)[k] = SpecialClamps(t)[k]
    BY <1>7 DEF ClampsOf
  <2>2. k \in Nat \ {0} /\ ClampsOf(m, t)[k].class \in {"SI", "SO"}
    BY <2>1, SpecialForm DEF SpecialClamp, NewClamp
  <2> QED BY <1>7, <2>2
<1>8. CASE Kind(m, t) = "none"
  BY <1>8 DEF ClampsOf
<1> QED
  BY <1>1, <1>2, <1>3, <1>4, <1>5, <1>6, <1>7, <1>8, KindType

\* A clamp more is one more of its class.
LEMMA OneMore ==
  ASSUME IsFiniteSet(clamps), NEW c, c \notin clamps, clamps' = clamps \cup {c}
  PROVE  /\ IsFiniteSet(clamps')
         /\ \A class : /\ Made(class)' = IF c.shape.class = class THEN Made(class) \cup {c} ELSE Made(class)
                       /\ Cardinality(Made(class)) \in Nat
                       /\ Cardinality(Made(class)') =
                            IF c.shape.class = class THEN Cardinality(Made(class)) + 1
                            ELSE Cardinality(Made(class))
<1>1. IsFiniteSet(clamps')
  BY FS_AddElement
<1>2. ASSUME NEW class
      PROVE  /\ Made(class)' = IF c.shape.class = class THEN Made(class) \cup {c} ELSE Made(class)
             /\ Cardinality(Made(class)) \in Nat
             /\ Cardinality(Made(class)') =
                  IF c.shape.class = class THEN Cardinality(Made(class)) + 1
                  ELSE Cardinality(Made(class))
  <2>1. Made(class)' = IF c.shape.class = class THEN Made(class) \cup {c} ELSE Made(class)
    BY DEF Made
  <2>2. IsFiniteSet(Made(class)) /\ c \notin Made(class)
    <3>1. Made(class) \in SUBSET clamps /\ c \notin Made(class)
      BY DEF Made
    <3> QED BY <3>1, FS_Subset
  <2>3. Cardinality(Made(class)) \in Nat
    BY <2>2, FS_CardinalityType
  <2>4. Cardinality(Made(class) \cup {c}) = Cardinality(Made(class)) + 1
    BY <2>2, FS_AddElement
  <2> QED BY <2>1, <2>3, <2>4
<1> QED BY <1>1, <1>2

\* Where there are no clamps there are none of any class.
LEMMA NoneMade ==
  ASSUME clamps' = {}
  PROVE  IsFiniteSet(clamps') /\ \A class : Made(class)' = {} /\ Cardinality(Made(class)') = 0
<1>1. \A class : Made(class)' = {}
  BY DEF Made
<1> QED BY <1>1, FS_EmptySet

\* The step that creates the next clamp.
LEMMA CreateStep ==
  ASSUME Inv, HartCounted, Built, CreateClamp
  PROVE  \E m \in Managed : \E c :
           /\ Managed = {m} /\ m \in {"IPC", "FBK"} /\ TheManager = m
           /\ nr \in DOMAIN ClampsOf(m, seen[at]) /\ IsTerminal(seen[at])
           /\ at \in DOMAIN seen
           /\ clamps' = clamps \cup {c} /\ c \notin clamps
           /\ c.at = at /\ c.nr = nr /\ c.shape = ClampsOf(m, seen[at])[nr]
           /\ c.shape.class = "MailBox" => c.slot = hartCount + 1 /\ hartCount' = hartCount + 1
           /\ c.shape.class # "MailBox" => hartCount' = hartCount
           /\ c.shape.class = "HARTAI" => c.slot = hartCount
<1>1. pc = "clamp"
  BY DEF CreateClamp
<1>2. PICK m \in Managed : /\ Managed = {m} /\ TheManager = m /\ m \in {"IPC", "FBK"}
                           /\ RackOf(m, rack)
  BY <1>1, Working
<1>3. PICK c : /\ clamps' = clamps \cup {c} /\ c \notin clamps
               /\ c.at = at /\ c.nr = nr /\ c.shape = ClampsOf(m, seen[at])[nr]
               /\ c.shape.class = "MailBox" => c.slot = hartCount + 1 /\ hartCount' = hartCount + 1
               /\ c.shape.class # "MailBox" => hartCount' = hartCount
               /\ c.shape.class = "HARTAI" => c.slot = hartCount
  BY <1>2, Creates
<1>4. at \in DOMAIN seen /\ IsTerminal(seen[at])
  BY <1>1, <1>2 DEF Inv, OneByOne, Built, RackOf
<1>5. nr \in DOMAIN ClampsOf(m, seen[at])
  BY <1>2 DEF CreateClamp, Clamps, Terminal
<1> QED BY <1>2, <1>3, <1>4, <1>5

\* Every step keeps the slots.
LEMMA NextSlots == Inv /\ HartCounted /\ Built /\ SlotsKept /\ [Next]_vars => SlotsKept'
<1> SUFFICES ASSUME Inv, HartCounted, Built, SlotsKept, [Next]_vars, pc' # "idle"
             PROVE  SlotsKept'
  BY DEF SlotsKept
<1>0. /\ Execute \/ (pc # "idle" /\ (ReadTerminal \/ CreateClamp \/ NextTerminal \/ Crash
                                     \/ UNCHANGED vars))
      /\ UNCHANGED <<manager, rack>> /\ Managed' = Managed
  BY GoesOn DEF Managed
<1>1. CASE Execute
  <2>1. clamps' = {} /\ hartCount' = 0 /\ pc' = "terminal"
    BY <1>1 DEF Execute, DeleteClamps
  <2>2. /\ IsFiniteSet(clamps') /\ Cardinality(Made("MailBox")') = 0
        /\ Made("MailBox")' = {} /\ Made("HARTAI")' = {}
    BY <2>1, NoneMade
  <2>3. {c.slot : c \in Made("MailBox")'} = 1..0
    BY <2>2
  <2> QED BY <2>1, <2>2, <2>3 DEF SlotsKept
<1> SUFFICES ASSUME pc # "idle", ReadTerminal \/ CreateClamp \/ NextTerminal \/ Crash \/ UNCHANGED vars
             PROVE  SlotsKept'
  BY <1>0, <1>1
<1>2. /\ IsFiniteSet(clamps) /\ Cardinality(Made("MailBox")) = hartCount
      /\ {c.slot : c \in Made("MailBox")} = 1..hartCount
      /\ \A c \in Made("HARTAI") : \E b \in Made("MailBox") : b.at = c.at /\ b.slot = c.slot
  BY DEF SlotsKept
<1>3. CASE CreateClamp
  <2>0. PICK m \in Managed : /\ Managed = {m} /\ m \in {"IPC", "FBK"}
    BY <1>3, CreateStep
  <2>1. PICK c :
           /\ nr \in DOMAIN ClampsOf(m, seen[at]) /\ IsTerminal(seen[at])
           /\ clamps' = clamps \cup {c} /\ c \notin clamps
           /\ c.at = at /\ c.nr = nr /\ c.shape = ClampsOf(m, seen[at])[nr]
           /\ c.shape.class = "MailBox" => c.slot = hartCount + 1 /\ hartCount' = hartCount + 1
           /\ c.shape.class # "MailBox" => hartCount' = hartCount
           /\ c.shape.class = "HARTAI" => c.slot = hartCount
    BY <1>3, <2>0, CreateStep
  <2>2. /\ pc = "clamp" /\ pc' = pc /\ at' = at /\ nr' = nr + 1 /\ seen' = seen
        /\ hartCount \in Nat /\ nr \in Nat \ {0}
    BY <1>3 DEF CreateClamp, HartCounted
  <2>3. /\ Kind(m, seen[at]) = "HART" /\ nr = 1 <=> c.shape.class = "MailBox"
        /\ Kind(m, seen[at]) = "HART" /\ nr > 1 <=> c.shape.class = "HARTAI"
    BY <2>0, <2>1, ClassOf
  <2>4. /\ IsFiniteSet(clamps')
        /\ Made("MailBox")' = (IF c.shape.class = "MailBox" THEN Made("MailBox") \cup {c} ELSE Made("MailBox"))
        /\ Made("HARTAI")' = (IF c.shape.class = "HARTAI" THEN Made("HARTAI") \cup {c} ELSE Made("HARTAI"))
        /\ Cardinality(Made("MailBox")') = IF c.shape.class = "MailBox" THEN Cardinality(Made("MailBox")) + 1
                                           ELSE Cardinality(Made("MailBox"))
    BY <1>2, <2>1, OneMore
  <2>5. CASE c.shape.class = "MailBox"
    <3>1. Made("MailBox")' = Made("MailBox") \cup {c} /\ Made("HARTAI")' = Made("HARTAI")
      BY <2>4, <2>5
    <3>2. c.slot = hartCount + 1 /\ hartCount' = hartCount + 1 /\ Cardinality(Made("MailBox")') = hartCount'
      BY <1>2, <2>1, <2>4, <2>5
    <3>3. {b.slot : b \in Made("MailBox")'} = 1..hartCount'
      <4>1. {b.slot : b \in Made("MailBox")'} = {b.slot : b \in Made("MailBox")} \cup {c.slot}
        BY <3>1
      <4> QED BY <1>2, <2>2, <3>2, <4>1
    <3>4. \A d \in Made("HARTAI")' : \E b \in Made("MailBox")' : b.at = d.at /\ b.slot = d.slot
      BY <1>2, <3>1
    <3>5. \E b \in Made("MailBox")' : b.at = at' /\ b.slot = hartCount'
      BY <2>1, <2>2, <3>1, <3>2
    <3> QED BY <2>4, <3>2, <3>3, <3>4, <3>5 DEF SlotsKept
  <2>6. CASE c.shape.class # "MailBox"
    <3>1. Made("MailBox")' = Made("MailBox") /\ hartCount' = hartCount
          /\ Cardinality(Made("MailBox")') = hartCount'
      BY <1>2, <2>1, <2>4, <2>6
    <3>2. Kind(m, seen[at]) = "HART" => nr > 1
      BY <2>2, <2>3, <2>6
    <3>3. Kind(m, seen[at]) = "HART" => \E b \in Made("MailBox") : b.at = at /\ b.slot = hartCount
      BY <2>1, <2>2, <3>2 DEF SlotsKept
    <3>4. \A d \in Made("HARTAI")' : \E b \in Made("MailBox") : b.at = d.at /\ b.slot = d.slot
      <4>1. CASE c.shape.class = "HARTAI"
        BY <1>2, <2>1, <2>3, <2>4, <3>3, <4>1
      <4>2. CASE c.shape.class # "HARTAI"
        BY <1>2, <2>4, <4>2
      <4> QED BY <4>1, <4>2
    <3>5. {d.slot : d \in Made("MailBox")'} = 1..hartCount'
      BY <1>2, <3>1
    <3>6. \A n \in Managed' : Kind(n, seen'[at']) = "HART" =>
            \E b \in Made("MailBox")' : b.at = at' /\ b.slot = hartCount'
      BY <1>0, <2>0, <2>1, <2>2, <3>1, <3>3
    <3>7. \A d \in Made("HARTAI")' : \E b \in Made("MailBox")' : b.at = d.at /\ b.slot = d.slot
      BY <3>1, <3>4
    <3> QED BY <2>4, <3>1, <3>5, <3>6, <3>7 DEF SlotsKept
  <2> QED BY <2>5, <2>6
<1>4. CASE ~CreateClamp
  <2>1. UNCHANGED <<clamps, seen, hartCount>>
    BY <1>4 DEF ReadTerminal, NextTerminal, Crash, vars, place
  <2>2. Made("MailBox")' = Made("MailBox") /\ Made("HARTAI")' = Made("HARTAI")
    BY <2>1 DEF Made
  <2>3. pc' = "clamp" /\ nr' > 1 => pc = "clamp" /\ nr > 1 /\ at' = at
    BY <1>4 DEF ReadTerminal, NextTerminal, Crash, vars, place
  <2>4. pc' = "clamp" /\ nr' > 1 => \A m \in Managed' : Kind(m, seen'[at']) = "HART" =>
          \E b \in Made("MailBox")' : b.at = at' /\ b.slot = hartCount'
    BY <1>0, <2>1, <2>2, <2>3 DEF SlotsKept
  <2> QED BY <1>2, <2>1, <2>2, <2>4 DEF SlotsKept
<1> QED BY <1>3, <1>4

\* The analog clamps of a terminal are as many as its channels.
LEMMA AnalogDomain ==
  ASSUME NEW m, NEW t, Kind(m, t) \in {"AI", "AO"}
  PROVE  DOMAIN ClampsOf(m, t) = 1..t.channels
  BY DEF ClampsOf

\* Every step keeps the numbers of WagoFBKManager.
LEMMA NextNumbers ==
  Inv /\ HartCounted /\ Built /\ SlotsKept /\ TypeOK /\ NumbersKept /\ [Next]_vars => NumbersKept'
<1> SUFFICES ASSUME Inv, HartCounted, Built, SlotsKept, TypeOK, NumbersKept, [Next]_vars, pc' # "idle"
             PROVE  NumbersKept'
  BY DEF NumbersKept
<1>0. /\ Execute \/ (pc # "idle" /\ (ReadTerminal \/ CreateClamp \/ NextTerminal \/ Crash
                                     \/ UNCHANGED vars))
      /\ UNCHANGED <<manager, rack>> /\ Managed' = Managed
  BY GoesOn DEF Managed
<1>1. CASE Execute
  <2>1. clamps' = {} /\ pc' = "terminal" /\ number' = IF FBK THEN NoClamps ELSE number
    BY <1>1 DEF Execute, DeleteClamps, ResetNumbers
  <2>2. ASSUME FBK, NEW class \in Numbered
        PROVE  number'[class] = Cardinality(Made(class)') + ToCome(class)'
    <3>1. Cardinality(Made(class)') = 0
      BY <2>1, NoneMade
    <3>2. ToCome(class)' = 0
      BY <2>1 DEF ToCome
    <3>3. number'[class] = 0
      BY <2>1, <2>2 DEF NoClamps, Numbered
    <3> QED BY <3>1, <3>2, <3>3
  <2>3. FBK' <=> FBK
    BY <1>0 DEF FBK
  <2> QED BY <2>1, <2>2, <2>3 DEF NumbersKept
<1> SUFFICES ASSUME pc # "idle", ReadTerminal \/ CreateClamp \/ NextTerminal \/ Crash \/ UNCHANGED vars
             PROVE  NumbersKept'
  BY <1>0, <1>1
<1>2. PICK m \in Managed : /\ Managed = {m} /\ TheManager = m /\ m \in {"IPC", "FBK"} /\ RackOf(m, rack)
  BY Working
<1>3. /\ FBK <=> m = "FBK"
      /\ FBK' <=> m = "FBK"
  BY <1>0, <1>2 DEF FBK
<1>4. /\ pc = "clamp" => nr = 1 \/ nr - 1 \in DOMAIN ClampsOf(m, seen[at])
      /\ FBK => \A class \in Numbered : number[class] = Cardinality(Made(class)) + ToCome(class)
  BY <1>2 DEF NumbersKept
<1>5. /\ number \in [{"DI", "DO", "AI", "AO", "SP"} -> Nat] /\ nr \in Nat \ {0} /\ rack = seen
      /\ \A i \in DOMAIN seen : IsTerminal(seen[i])
      /\ seen' = seen
  BY <1>2 DEF TypeOK, HartCounted, Built, RackOf, ReadTerminal, CreateClamp, NextTerminal, Crash, vars
<1>6. SUFFICES /\ pc' = "clamp" => nr' = 1 \/ nr' - 1 \in DOMAIN ClampsOf(m, seen[at'])
               /\ \A class \in Numbered : m = "FBK" =>
                    number'[class] = Cardinality(Made(class)') + ToCome(class)'
  BY <1>0, <1>2, <1>3, <1>5 DEF NumbersKept
<1>7. CASE ReadTerminal
  <2>1. /\ pc = "terminal" /\ pc' = "clamp" /\ nr' = 1 /\ at \in DOMAIN seen /\ at' = at
        /\ clamps' = clamps
    BY <1>7 DEF ReadTerminal
  <2> DEFINE kind == Kind(m, Terminal)
             channels == Terminal.channels
  <2>2. ASSUME NEW class \in Numbered, m = "FBK"
        PROVE  number'[class] = Cardinality(Made(class)') + ToCome(class)'
    <3>1. number[class] = Cardinality(Made(class)')
      <4>1. ToCome(class) = 0 /\ Made(class)' = Made(class)
        BY <2>1 DEF ToCome, Made
      <4>2. number[class] \in Nat
        BY <1>5 DEF Numbered
      <4>3. Cardinality(Made(class)) \in Nat
        <5>1. Made(class) \in SUBSET clamps /\ IsFiniteSet(clamps)
          BY DEF Made, SlotsKept
        <5> QED BY <5>1, FS_Subset, FS_CardinalityType
      <4> QED BY <1>3, <1>4, <2>2, <4>1, <4>2, <4>3
    <3>2. channels \in Nat
      BY <1>5, <2>1 DEF Terminal, IsTerminal
    <3>3. ToCome(class)' = IF class \in {"AI", "AO"} /\ kind = class THEN channels ELSE 0
      <4>1. Terminal' = Terminal
        BY <1>5, <2>1 DEF Terminal
      <4> HIDE DEF channels
      <4>2. channels - (1 - 1) = channels
        BY <3>2
      <4> QED BY <2>1, <2>2, <4>1, <4>2 DEF ToCome, channels
    <3>4. number'[class] = IF class \in {"AI", "AO"} /\ kind = class THEN number[class] + channels
                           ELSE number[class]
      <4>1. CASE kind \in {"AI", "AO"}
        <5>1. Count(kind, channels)
          BY <1>2, <1>7, <4>1 DEF ReadTerminal
        <5>2. number' = [number EXCEPT ![kind] = @ + channels]
          BY <1>3, <2>2, <4>1, <5>1 DEF Count
        <5> HIDE DEF kind, channels
        <5> QED BY <1>5, <4>1, <5>2 DEF Numbered
      <4>2. CASE kind \notin {"AI", "AO"}
        <5>1. PICK n : Count("SP", n) \/ Count("none", 0)
          BY <1>2, <1>7, <4>2 DEF ReadTerminal
        <5>2. number' = [number EXCEPT !["SP"] = @ + n] \/ number' = number
          BY <5>1 DEF Count
        <5> HIDE DEF kind, channels
        <5>3. number'[class] = number[class]
          BY <1>5, <5>2 DEF Numbered
        <5> QED BY <4>2, <5>3
      <4> QED BY <4>1, <4>2
    <3>5. number[class] \in Nat
      BY <1>5 DEF Numbered
    <3> HIDE DEF kind, channels
    <3> QED BY <3>1, <3>2, <3>3, <3>4, <3>5
  <2> QED BY <2>1, <2>2
<1>8. CASE CreateClamp
  <2>1. PICK c :
           /\ nr \in DOMAIN ClampsOf(m, seen[at]) /\ IsTerminal(seen[at]) /\ at \in DOMAIN seen
           /\ clamps' = clamps \cup {c} /\ c \notin clamps
           /\ c.shape = ClampsOf(m, seen[at])[nr]
    BY <1>2, <1>8, CreateStep
  <2>2. /\ pc = "clamp" /\ pc' = pc /\ at' = at /\ nr' = nr + 1 /\ seen' = seen
        /\ Clamps[nr] = c.shape
    BY <1>2, <1>8, <2>1 DEF CreateClamp, Clamps, Terminal
  <2> DEFINE kind == Kind(m, seen[at])
             channels == seen[at].channels
             made == c.shape.class
  <2>3. /\ \A a \in {"AI", "AO"} : made = a <=> kind = a
        /\ kind \in {"AI", "AO"} => nr <= channels
        /\ made \in {"DI", "DO", "AI", "AO", "SI", "SO", "MailBox", "HARTAI"}
    BY <1>2, <2>1, ClassOf
  <2>4. ASSUME NEW class \in Numbered, m = "FBK"
        PROVE  number'[class] = Cardinality(Made(class)') + ToCome(class)'
    <3>1. /\ Cardinality(Made(class)) \in Nat
          /\ Cardinality(Made(class)') =
               IF made = class THEN Cardinality(Made(class)) + 1 ELSE Cardinality(Made(class))
      BY <2>1, OneMore DEF SlotsKept
    <3>2. /\ channels \in Nat
          /\ ToCome(class) = (IF class \in {"AI", "AO"} /\ kind = class THEN channels - (nr - 1) ELSE 0)
          /\ ToCome(class)' = (IF class \in {"AI", "AO"} /\ kind = class THEN channels - nr ELSE 0)
      <4>1. Terminal = seen[at] /\ Terminal' = seen[at] /\ channels \in Nat
        BY <2>1, <2>2 DEF Terminal, IsTerminal
      <4>2. (nr + 1) - 1 = nr
        BY <1>5
      <4> HIDE DEF channels
      <4> QED BY <2>2, <2>4, <4>1, <4>2 DEF ToCome, channels
    <3>3. number'[class] = IF class \in {"DI", "DO"} /\ made = class THEN number[class] + 1
                           ELSE number[class]
      <4>1. Count(Adds(Terminal, c.shape), 1)
        BY <1>8, <2>2 DEF CreateClamp
      <4>2. number' = IF Adds(Terminal, c.shape) # "none"
                      THEN [number EXCEPT ![Adds(Terminal, c.shape)] = @ + 1] ELSE number
        BY <1>3, <2>4, <4>1 DEF Count
      <4>3. CASE made \in {"DI", "DO"}
        <5>1. Adds(Terminal, c.shape) = made
          BY <4>3 DEF Adds
        <5> HIDE DEF made
        <5>2. number' = [number EXCEPT ![made] = @ + 1]
          BY <4>2, <4>3, <5>1
        <5> QED BY <1>5, <4>3, <5>2 DEF Numbered
      <4>4. CASE made \notin {"DI", "DO"}
        <5>1. Adds(Terminal, c.shape) \in {"SP", "none"}
          BY <4>4 DEF Adds
        <5>2. number' = [number EXCEPT !["SP"] = @ + 1] \/ number' = number
          BY <4>2, <5>1
        <5>3. number'[class] = number[class]
          BY <1>5, <5>2 DEF Numbered
        <5> HIDE DEF made
        <5> QED BY <4>4, <5>3
      <4> QED BY <4>3, <4>4
    <3>4. number[class] \in Nat /\ number[class] = Cardinality(Made(class)) + ToCome(class)
      BY <1>3, <1>4, <1>5, <2>4 DEF Numbered
    <3> HIDE DEF kind, channels, made
    <3>5. CASE class \in {"AI", "AO"}
      BY <1>5, <2>3, <3>1, <3>2, <3>3, <3>4, <3>5
    <3>6. CASE class \in {"DI", "DO"}
      BY <2>3, <3>1, <3>2, <3>3, <3>4, <3>6
    <3> QED BY <3>5, <3>6 DEF Numbered
  <2>5. nr' - 1 \in DOMAIN ClampsOf(m, seen[at'])
    BY <1>5, <2>1, <2>2
  <2> QED BY <2>4, <2>5
<1>9. CASE NextTerminal
  <2>1. /\ pc = "clamp" /\ pc' = "terminal" /\ clamps' = clamps /\ number' = number
        /\ nr \notin DOMAIN ClampsOf(m, seen[at]) /\ at \in DOMAIN seen
    BY <1>2, <1>9 DEF NextTerminal, Clamps, Terminal, Inv, OneByOne
  <2>2. ASSUME NEW class \in Numbered, m = "FBK"
        PROVE  number'[class] = Cardinality(Made(class)') + ToCome(class)'
    <3>1. ToCome(class)' = 0 /\ Made(class)' = Made(class)
      BY <2>1 DEF ToCome, Made
    <3>2. ToCome(class) = 0
      <4>1. CASE class \in {"AI", "AO"} /\ Kind("FBK", Terminal) = class
        <5>1. DOMAIN ClampsOf(m, seen[at]) = 1..seen[at].channels /\ seen[at].channels \in Nat
          BY <1>5, <2>1, <2>2, <4>1, AnalogDomain DEF Terminal, IsTerminal
        <5>2. seen[at].channels - (nr - 1) = 0
          BY <1>4, <1>5, <2>1, <5>1
        <5> QED BY <5>2 DEF ToCome, Terminal
      <4>2. CASE ~(class \in {"AI", "AO"} /\ Kind("FBK", Terminal) = class)
        BY <4>2 DEF ToCome
      <4> QED BY <4>1, <4>2
    <3> QED BY <1>3, <1>4, <2>1, <2>2, <3>1, <3>2
  <2> QED BY <2>1, <2>2
<1>10. CASE Crash \/ UNCHANGED vars
  <2>1. \A class : Made(class)' = Made(class) /\ ToCome(class)' = ToCome(class)
    BY <1>10 DEF Crash, vars, place, Made, ToCome, Terminal
  <2>2. number' = number /\ (pc' = "clamp" => pc = "clamp" /\ nr' = nr /\ at' = at)
    BY <1>10 DEF Crash, vars, place
  <2> QED BY <1>3, <1>4, <2>1, <2>2
<1> QED BY <1>7, <1>8, <1>9, <1>10

\* When a detection has ended without an error, slots and numbers are right.
LEMMA NumbersStep ==
  ASSUME Inv, HartCounted, Built, SlotsKept, TypeOK, NumbersKept, [Next]_vars, Succeeds
  PROVE  /\ {c.slot : c \in Made("MailBox")'} = 1..Cardinality(Made("MailBox")')
         /\ \A c \in Made("HARTAI")' : \E b \in Made("MailBox")' : b.at = c.at /\ b.slot = c.slot
         /\ FBK => \A class \in {"DI", "DO", "AI", "AO"} :
                    number'[class] = Cardinality(Made(class)')
<1>1. pc = "terminal" /\ clamps' = clamps /\ number' = number
  BY AllBuilt
<1>2. \A class : Made(class)' = Made(class)
  BY <1>1 DEF Made
<1>4. /\ {c.slot : c \in Made("MailBox")} = 1..hartCount /\ Cardinality(Made("MailBox")) = hartCount
      /\ \A c \in Made("HARTAI") : \E b \in Made("MailBox") : b.at = c.at /\ b.slot = c.slot
      /\ IsFiniteSet(clamps)
  BY <1>1 DEF SlotsKept
<1>5. ASSUME FBK, NEW class \in Numbered
      PROVE  number[class] = Cardinality(Made(class))
  <2>1. pc # "clamp"
    BY <1>1
  <2>2. ToCome(class) = 0 /\ number[class] = Cardinality(Made(class)) + ToCome(class)
    BY <1>1, <1>5, <2>1 DEF ToCome, NumbersKept
  <2>3. Made(class) \in SUBSET clamps
    BY DEF Made
  <2>4. Cardinality(Made(class)) \in Nat
    BY <1>4, <2>3, FS_Subset, FS_CardinalityType
  <2> QED BY <2>2, <2>4
<1> QED BY <1>1, <1>2, <1>4, <1>5 DEF Numbered

\* Theorem: after a detection without an error the mailboxes have the slots 1,
\* 2, ..., each HART input asks the mailbox of its own terminal, and the numbers
\* of WagoFBKManager are those of its clamps (NumbersMatch).
THEOREM DetectedNumbers == Spec => NumbersMatch
<1>1. Init => HartCounted /\ Built /\ SlotsKept /\ NumbersKept
  BY DEF Init, HartCounted, Built, SlotsKept, NumbersKept
<1>2. Spec => [](Inv /\ HartCounted /\ Built /\ SlotsKept /\ TypeOK /\ NumbersKept)
  BY InitInv, NextInv, NextHart, NextBuilt, NextSlots, NextNumbers, DetectTypes, <1>1, PTL DEF Spec
<1>3. Inv /\ HartCounted /\ Built /\ SlotsKept /\ TypeOK /\ NumbersKept /\ [Next]_vars =>
        [Succeeds =>
           /\ {c.slot : c \in Made("MailBox")'} = 1..Cardinality(Made("MailBox")')
           /\ \A c \in Made("HARTAI")' : \E b \in Made("MailBox")' : b.at = c.at /\ b.slot = c.slot
           /\ FBK => \A class \in {"DI", "DO", "AI", "AO"} :
                      number'[class] = Cardinality(Made(class)')]_vars
  BY NumbersStep
<1> QED BY <1>2, <1>3, PTL DEF Spec, NumbersMatch
=============================================================================
