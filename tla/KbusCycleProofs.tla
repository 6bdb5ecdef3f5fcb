-------------------------- MODULE KbusCycleProofs --------------------------
(***************************************************************************)
(* What holds of the cycle of a bus manager for every plant, image and     *)
(* configuration: outputs reach the field, nothing else of it changes, a   *)
(* good value comes from it, and moves keep outputs apart.                 *)
(***************************************************************************)
EXTENDS KbusCycle, TLAPS

Value == Bit \cup Seq(Byte)
State3 == {"unknown", "bad", "good"}
Reading == [val : Value, state : State3]
Codes == {"none", "disabled", "noClamp", "exists", "badParam", "notAllowed"}

\* What clients have set, and the accessors let pass.
Configured ==
  /\ address \in [Clamp -> 0..Size - 1]
  /\ \A c \in Clamp : address[c] \in AddressOf[c]
  /\ width \in [Clamp -> Nat]
  /\ \A c \in Clamp : /\ c \in Special => width[c] \in WidthOf[c]
                      /\ c \in Analog => width[c] = 2
  /\ bitOffset \in [Clamp -> 0..Bits - 1]
  /\ enabled \in [Clamp -> BOOLEAN] /\ readBackOnly \in [Clamp -> BOOLEAN]
  /\ value \in [Clamp -> Value]
  /\ \A c \in Outputs :
       /\ c \in Digital => value[c] \in Bit
       /\ c \notin Digital => value[c] \in Seq(Byte)
       /\ c \in Analog => Len(value[c]) = 2
       /\ c \in Special => value[c] = <<>> \/ \A w \in WidthOf[c] : w <= Len(value[c])

\* What the clamps show; only AI and DI ever call a value good.
Shown ==
  /\ clampError \in [Clamp -> Codes]
  /\ reading \in [Clamp -> Reading]
  /\ \A c \in Clamp : KindOf[c] \notin {"AI", "DI"} => reading[c].state = "unknown"

\* Each manager has phases of its own.
Phases ==
  /\ manager \in Manager /\ events \in 0..MaxEvents
  /\ manager = "IPC" => pc \in {"idle", "readInput", "readOutput", "clamps"}
  /\ manager = "FBK" => pc \in {"idle", "outputs", "inputs"}
  /\ pos \in 1..NumClamp + 1
  /\ write \in BOOLEAN /\ actimode \in BOOLEAN /\ error \in BOOLEAN

Images ==
  imageIn \in Image /\ imageOut \in Image /\ fieldIn \in Image /\ fieldOut \in Image

Types == Configured /\ Shown /\ Phases /\ Images

-----------------------------------------------------------------------------
(* Places.                                                                 *)

\* Every class of clamp is one of three sorts.
LEMMA Sorts ==
  ASSUME NEW c \in Clamp
  PROVE  /\ c \in Digital \/ c \in Analog \/ c \in Special
         /\ ~(c \in Digital /\ c \in Analog) /\ ~(c \in Digital /\ c \in Special)
         /\ ~(c \in Analog /\ c \in Special)
         /\ c \in Outputs <=> KindOf[c] \notin {"AI", "SI", "DI"}
BY ClampAssumption DEF Digital, Analog, Special, Outputs, Kind

\* The bytes of a clamp are bytes of the image.
LEMMA BytesInside ==
  ASSUME Configured, NEW c \in Clamp, c \notin Digital
  PROVE  /\ FirstByte(c) \in Nat /\ width[c] \in Nat
         /\ FirstByte(c) + width[c] <= Size
         /\ Bytes(c) \subseteq 0..Size - 1
<1>1. address[c] \in AddressOf[c] /\ address[c] \in 0..Size - 1 /\ width[c] \in Nat /\ Size \in Nat
  BY ImageAssumption DEF Configured
<1>2. CASE c \in Analog
  <2>1. 2 * (address[c] \div 2) + 2 <= Size /\ width[c] = 2
    BY <1>1, <1>2, PlaceAssumption DEF Configured
  <2>2. FirstByte(c) = 2 * (address[c] \div 2) /\ FirstByte(c) \in Nat
    BY <1>1, <1>2 DEF FirstByte
  <2>. QED BY <2>1, <2>2, <1>1 DEF Bytes
<1>3. CASE c \in Special
  <2>1. address[c] + width[c] <= Size
    BY <1>1, <1>3, PlaceAssumption DEF Configured
  <2>2. FirstByte(c) = address[c]
    BY <1>3, Sorts DEF FirstByte
  <2>. QED BY <2>1, <2>2, <1>1 DEF Bytes
<1>. QED BY <1>2, <1>3, Sorts

\* A clamp stands for positions of the image.
LEMMA PlaceInside ==
  ASSUME Configured, NEW c \in Clamp
  PROVE  Place(c) \subseteq Position
<1>1. CASE c \in Digital
  BY <1>1 DEF Place, Position, Configured
<1>2. CASE c \notin Digital
  BY <1>2, BytesInside DEF Place, Position
<1>. QED BY <1>1, <1>2

\* What is fetched at a place is a value.
LEMMA FetchType ==
  ASSUME Configured, NEW c \in Clamp, NEW image \in Image
  PROVE  Fetch(c, image) \in Value
<1>1. CASE c \in Digital
  BY <1>1 DEF Fetch, Value, Configured, Image, Byte
<1>2. CASE c \notin Digital
  <2>1. \A i \in 1..width[c] : image[FirstByte(c) + i - 1] \in Byte
    <3>. SUFFICES ASSUME NEW i \in 1..width[c] PROVE image[FirstByte(c) + i - 1] \in Byte
      OBVIOUS
    <3>1. FirstByte(c) + i - 1 \in 0..Size - 1
      BY <1>2, BytesInside, ImageAssumption
    <3>. QED BY <3>1 DEF Image
  <2>2. width[c] \in Nat
    BY <1>2, BytesInside
  <2>3. [i \in 1..width[c] |-> image[FirstByte(c) + i - 1]] \in Seq(Byte)
    BY <2>1, <2>2
  <2>. QED BY <1>2, <2>3 DEF Fetch, Value
<1>. QED BY <1>1, <1>2

\* An output has something to store, unless it is a special one that is unset.
Set(c) == c \in Special => value[c] # <<>>

\* What an output that is set wants at its bytes is a byte.
LEMMA WantedByte ==
  ASSUME Configured, NEW c \in Outputs, c \notin Digital, Set(c), NEW a \in Bytes(c)
  PROVE  value[c][a - FirstByte(c) + 1] \in Byte
<1>2. c \in Clamp
  BY DEF Outputs
<1>1. value[c] \in Seq(Byte) /\ width[c] <= Len(value[c]) /\ width[c] \in Nat
  <2>1. value[c] \in Seq(Byte) /\ width[c] \in Nat
    BY <1>2 DEF Configured
  <2>2. CASE c \in Analog
    <3>1. width[c] = 2 /\ Len(value[c]) = 2
      BY <1>2, <2>2 DEF Configured
    <3>. QED BY <2>1, <3>1
  <2>3. CASE c \in Special
    BY <1>2, <2>3 DEF Configured, Set
  <2>. QED BY <1>2, <2>1, <2>2, <2>3, Sorts
<1>3. FirstByte(c) \in Nat /\ a \in FirstByte(c)..(FirstByte(c) + width[c] - 1)
  BY <1>2, BytesInside DEF Bytes
<1>4. a - FirstByte(c) + 1 \in 1..Len(value[c])
  BY <1>1, <1>3
<1>. QED BY <1>1, <1>4

\* Storing keeps an image an image.
LEMMA StoreType ==
  ASSUME Configured, NEW c \in Outputs, NEW image \in Image
  PROVE  Store(c, image) \in Image
<1>0. c \in Clamp
  BY DEF Outputs
<1>1. CASE c \in Digital
  <2>1. address[c] \in 0..Size - 1 /\ bitOffset[c] \in 0..Bits - 1 /\ value[c] \in Bit
    BY <1>0, <1>1 DEF Configured
  <2>2. image[address[c]] \in [0..Bits - 1 -> Bit]
    BY <2>1 DEF Image, Byte
  <2>3. [image[address[c]] EXCEPT ![bitOffset[c]] = value[c]] \in [0..Bits - 1 -> Bit]
    BY <2>1, <2>2
  <2>4. [image EXCEPT ![address[c]] = [image[address[c]] EXCEPT ![bitOffset[c]] = value[c]]] \in Image
    BY <2>1, <2>3 DEF Image, Byte
  <2>. QED BY <1>1, <2>4 DEF Store
<1>2. CASE c \notin Digital /\ value[c] # <<>>
  <2>1. \A a \in 0..Size - 1 :
          (IF a \in Bytes(c) THEN value[c][a - FirstByte(c) + 1] ELSE image[a]) \in Byte
    BY <1>2, WantedByte DEF Set, Image
  <2>. QED BY <1>2, <2>1 DEF Store, Image
<1>3. CASE c \notin Digital /\ value[c] = <<>>
  BY <1>3 DEF Store
<1>. QED BY <1>1, <1>2, <1>3

\* Outside its place, or if it is unset, an output changes nothing of an image.
LEMMA StoreElsewhere ==
  ASSUME Configured, NEW c \in Outputs, NEW image \in Image, NEW p \in Position,
         p \notin Place(c) \/ ~Set(c)
  PROVE  Store(c, image)[p[1]][p[2]] = image[p[1]][p[2]]
<1>0. c \in Clamp /\ p[1] \in 0..Size - 1 /\ p[2] \in 0..Bits - 1 /\ p = <<p[1], p[2]>>
  BY DEF Outputs, Position
<1>1. CASE c \in Digital
  <2>1. p # <<address[c], bitOffset[c]>>
    BY <1>0, <1>1, Sorts DEF Place, Set
  <2>2. p[1] # address[c] \/ p[2] # bitOffset[c]
    BY <2>1, <1>0
  <2>3. address[c] \in 0..Size - 1 /\ bitOffset[c] \in 0..Bits - 1
    BY <1>0 DEF Configured
  <2>4. image[address[c]] \in [0..Bits - 1 -> Bit]
    BY <2>3 DEF Image, Byte
  <2>5. Store(c, image) = [image EXCEPT ![address[c]] = [image[address[c]] EXCEPT ![bitOffset[c]] = value[c]]]
    BY <1>1 DEF Store
  <2>. QED BY <1>0, <2>2, <2>3, <2>4, <2>5 DEF Image
<1>2. CASE c \notin Digital /\ value[c] = <<>>
  BY <1>2 DEF Store
<1>3. CASE c \notin Digital /\ value[c] # <<>>
  <2>1. p[1] \notin Bytes(c)
    BY <1>0, <1>3 DEF Place, Set
  <2>2. Store(c, image)[p[1]] = image[p[1]]
    BY <1>0, <1>3, <2>1 DEF Store
  <2>. QED BY <2>2
<1>. QED BY <1>1, <1>2, <1>3

\* At its place an output that is set leaves what it wants.
LEMMA StoreAtPlace ==
  ASSUME Configured, NEW c \in Outputs, NEW image \in Image, NEW p \in Place(c), Set(c)
  PROVE  Store(c, image)[p[1]][p[2]] = Wanted(c, p)
<1>0. c \in Clamp /\ p \in Position
  BY PlaceInside DEF Outputs
<1>1. CASE c \in Digital
  <2>1. p = <<address[c], bitOffset[c]>>
    BY <1>1 DEF Place
  <2>3. address[c] \in 0..Size - 1 /\ bitOffset[c] \in 0..Bits - 1
    BY <1>0 DEF Configured
  <2>4. image[address[c]] \in [0..Bits - 1 -> Bit]
    BY <2>3 DEF Image, Byte
  <2>5. Store(c, image) = [image EXCEPT ![address[c]] = [image[address[c]] EXCEPT ![bitOffset[c]] = value[c]]]
    BY <1>1 DEF Store
  <2>. QED BY <1>1, <2>1, <2>3, <2>4, <2>5 DEF Image, Wanted
<1>2. CASE c \notin Digital
  <2>1. p[1] \in Bytes(c) /\ p[1] \in 0..Size - 1
    BY <1>0, <1>2, BytesInside DEF Place
  <2>2. value[c] # <<>>
    <3>1. CASE c \in Special
      BY <3>1 DEF Set
    <3>2. CASE c \in Analog
      <4>1. Len(value[c]) = 2
        BY <3>2 DEF Configured
      <4>. QED BY <4>1
    <3>. QED BY <1>0, <1>2, <3>1, <3>2, Sorts
  <2>3. Store(c, image)[p[1]] = value[c][p[1] - FirstByte(c) + 1]
    BY <1>2, <2>1, <2>2 DEF Store
  <2>. QED BY <1>2, <2>3 DEF Wanted
<1>. QED BY <1>1, <1>2

-----------------------------------------------------------------------------
(* Types.                                                                  *)

\* A setting of every clamp is one of those it may have.
LEMMA SettingsType ==
  ASSUME NEW Of, NEW f \in Settings(Of)
  PROVE  /\ DOMAIN f = Clamp /\ f = [c \in Clamp |-> f[c]]
         /\ \A c \in Clamp : f[c] \in Of[c]
BY DEF Settings

LEMMA ZeroTypes ==
  /\ ZeroByte \in Byte /\ ZeroImage \in Image
  /\ \A c \in Clamp : Zero(c) \in Value
  /\ \A c \in Clamp : /\ c \in Digital => Zero(c) \in Bit
                      /\ c \notin Digital => Zero(c) \in Seq(Byte)
                      /\ c \in Special => Zero(c) = <<>>
                      /\ c \in Analog => Len(Zero(c)) = 2
<1>1. ZeroByte \in Byte
  BY DEF ZeroByte, Byte, Bit
<1>2. ZeroImage \in Image
  BY <1>1 DEF ZeroImage, Image
<1>3. <<ZeroByte, ZeroByte>> \in Seq(Byte) /\ Len(<<ZeroByte, ZeroByte>>) = 2
  BY <1>1
<1>4. ASSUME NEW c \in Clamp
      PROVE  /\ c \in Digital => Zero(c) \in Bit
             /\ c \notin Digital => Zero(c) \in Seq(Byte)
             /\ c \in Special => Zero(c) = <<>>
             /\ c \in Analog => Len(Zero(c)) = 2
  <2>1. <<>> \in Seq(Byte)
    OBVIOUS
  <2>. QED BY <1>3, <2>1, Sorts DEF Zero, Bit
<1>5. \A c \in Clamp : Zero(c) \in Value
  BY <1>4, Sorts DEF Value
<1>. QED BY <1>1, <1>2, <1>4, <1>5

LEMMA InitTypes == Init => Types
<1>. SUFFICES ASSUME Init PROVE Types
  OBVIOUS
<1>. USE DEF Init, InitClamps
<1>1. Configured
  <2>1. address \in [Clamp -> 0..Size - 1] /\ \A c \in Clamp : address[c] \in AddressOf[c]
    BY SettingsType, PlaceAssumption
  <2>2. /\ DOMAIN width = Clamp /\ width = [c \in Clamp |-> width[c]]
        /\ \A c \in Clamp : width[c] \in WidthOf[c]
        /\ \A c \in Clamp \ Special : width[c] = IF c \in Digital THEN 0 ELSE 2
    BY SettingsType
  <2>3. \A c \in Clamp : /\ width[c] \in Nat
                         /\ c \in Special => width[c] \in WidthOf[c]
                         /\ c \in Analog => width[c] = 2
    <3>. SUFFICES ASSUME NEW c \in Clamp
                  PROVE  /\ width[c] \in Nat
                         /\ c \in Special => width[c] \in WidthOf[c]
                         /\ c \in Analog => width[c] = 2
      OBVIOUS
    <3>1. c \in Special => width[c] \in Nat
      BY <2>1, <2>2, PlaceAssumption
    <3>. QED BY <2>2, <3>1, Sorts
  <2>4. bitOffset \in [Clamp -> 0..Bits - 1] /\ enabled \in [Clamp -> BOOLEAN]
        /\ readBackOnly \in [Clamp -> BOOLEAN]
    BY ImageAssumption
  <2>5. value \in [Clamp -> Value] /\ \A c \in Outputs :
          /\ c \in Digital => value[c] \in Bit
          /\ c \notin Digital => value[c] \in Seq(Byte)
          /\ c \in Analog => Len(value[c]) = 2
          /\ c \in Special => value[c] = <<>>
    BY ZeroTypes, Sorts DEF Outputs
  <2>6. width \in [Clamp -> Nat]
    BY ONLY <2>2, <2>3
  <2>7. \A c \in Clamp : /\ c \in Special => width[c] \in WidthOf[c]
                         /\ c \in Analog => width[c] = 2
    BY ONLY <2>3
  <2>8. \A c \in Outputs :
          /\ c \in Digital => value[c] \in Bit
          /\ c \notin Digital => value[c] \in Seq(Byte)
          /\ c \in Analog => Len(value[c]) = 2
          /\ c \in Special => value[c] = <<>> \/ \A w \in WidthOf[c] : w <= Len(value[c])
    BY ONLY <2>5
  <2>. QED BY ONLY <2>1, <2>4, <2>5, <2>6, <2>7, <2>8 DEF Configured
<1>2. Shown
  BY ZeroTypes DEF Shown, Reading, State3, Codes
<1>3. Phases
  <2>1. events \in 0..MaxEvents /\ pos \in 1..NumClamp + 1
    BY ClampAssumption, CycleAssumption
  <2>2. manager \in Manager /\ pc = "idle"
    OBVIOUS
  <2>3. write \in BOOLEAN /\ actimode \in BOOLEAN /\ error \in BOOLEAN
    OBVIOUS
  <2>. QED BY ONLY <2>1, <2>2, <2>3 DEF Phases
<1>4. Images
  BY CycleAssumption, ZeroTypes DEF Images
<1>. QED BY <1>1, <1>2, <1>3, <1>4 DEF Types

\* An accessor leaves a configuration that it lets pass.
LEMMA ConfigureTypes ==
  ASSUME Configured, Shown, NEW c \in Clamp, Configure(c)
  PROVE  Configured' /\ Shown'
<1>1. CASE SetByteAddress(c)
  <2>1. \/ UNCHANGED address /\ Fails(c, "exists")
        \/ /\ UNCHANGED clampError
           /\ \E a \in AddressOf[c] : address' = [address EXCEPT ![c] = a]
    BY <1>1 DEF SetByteAddress
  <2>2. address' \in [Clamp -> 0..Size - 1] /\ \A d \in Clamp : address'[d] \in AddressOf[d]
    BY <2>1, PlaceAssumption DEF Configured
  <2>3. clampError' \in [Clamp -> Codes]
    BY <2>1 DEF Shown, Fails, Codes
  <2>. QED BY <1>1, <2>2, <2>3 DEF SetByteAddress, Configured, Shown
<1>2. CASE SetByteWidth(c)
  <2>1. \/ UNCHANGED width /\ Fails(c, "notAllowed")
        \/ UNCHANGED width /\ Fails(c, "badParam")
        \/ /\ UNCHANGED clampError /\ c \in Special
           /\ \E w \in WidthOf[c] : width' = [width EXCEPT ![c] = w]
    BY <1>2 DEF SetByteWidth
  <2>2. c \in Special => \A w \in WidthOf[c] : w \in Nat
    BY PlaceAssumption DEF Configured
  <2>3. width' \in [Clamp -> Nat]
        /\ \A d \in Clamp : /\ d \in Special => width'[d] \in WidthOf[d]
                            /\ d \in Analog => width'[d] = 2
    BY <2>1, <2>2, Sorts DEF Configured
  <2>4. clampError' \in [Clamp -> Codes]
    BY <2>1 DEF Shown, Fails, Codes
  <2>. QED BY <1>2, <2>3, <2>4 DEF SetByteWidth, Configured, Shown
<1>3. CASE SetBitOffset(c)
  <2>1. \/ /\ UNCHANGED clampError
           /\ \E b \in BitOf[c] : b < Bits /\ bitOffset' = [bitOffset EXCEPT ![c] = b]
        \/ UNCHANGED bitOffset /\ Fails(c, "badParam")
        \/ bitOffset' = [bitOffset EXCEPT ![c] = 0] /\ Fails(c, "notAllowed")
    BY <1>3 DEF SetBitOffset
  <2>2. bitOffset' \in [Clamp -> 0..Bits - 1]
    BY <2>1, FlagAssumption, ImageAssumption DEF Configured
  <2>3. clampError' \in [Clamp -> Codes]
    BY <2>1 DEF Shown, Fails, Codes
  <2>. QED BY <1>3, <2>2, <2>3 DEF SetBitOffset, Configured, Shown
<1>4. CASE SetFlags(c)
  <2>1. enabled' \in [Clamp -> BOOLEAN] /\ readBackOnly' \in [Clamp -> BOOLEAN]
    <3>1. EnabledOf[c] \subseteq BOOLEAN /\ ReadBackOf[c] \subseteq BOOLEAN
      BY FlagAssumption
    <3>2. enabled \in [Clamp -> BOOLEAN] /\ readBackOnly \in [Clamp -> BOOLEAN]
      BY DEF Configured
    <3>. QED BY ONLY <3>1, <3>2, <1>4 DEF SetFlags
  <2>. QED BY <1>4, <2>1 DEF SetFlags, Configured, Shown
<1>5. CASE SetValue(c)
  <2>1. PICK v \in ValueOf[c] : value' = [value EXCEPT ![c] = v]
    BY <1>5 DEF SetValue
  <2>2. /\ v \in Value
        /\ c \in Digital => v \in Bit
        /\ c \notin Digital => v \in Seq(Byte)
        /\ c \in Analog => Len(v) = 2
        /\ c \in Special => v = <<>> \/ \A w \in WidthOf[c] : w <= Len(v)
    BY ValueAssumption, Sorts DEF Value
  <2>3. value' \in [Clamp -> Value]
    BY <2>1, <2>2 DEF Configured
  <2>4. ASSUME NEW d \in Outputs
        PROVE  /\ d \in Digital => value'[d] \in Bit
               /\ d \notin Digital => value'[d] \in Seq(Byte)
               /\ d \in Analog => Len(value'[d]) = 2
               /\ d \in Special => value'[d] = <<>> \/ \A w \in WidthOf[d] : w <= Len(value'[d])
    <3>1. d \in Clamp /\ value'[d] = IF d = c THEN v ELSE value[d]
      BY <2>1 DEF Configured, Outputs
    <3>2. CASE d = c
      BY <3>1, <3>2, <2>2
    <3>3. CASE d # c
      BY <3>1, <3>3 DEF Configured
    <3>. QED BY <3>2, <3>3
  <2>. QED BY <1>5, <2>3, <2>4 DEF SetValue, Configured, Shown
<1>. QED BY <1>1, <1>2, <1>3, <1>4, <1>5 DEF Configure

\* What does not touch the configuration leaves it typed.
LEMMA SameConfigured == Configured /\ UNCHANGED config => Configured'
BY DEF Configured, config

LEMMA SameShown == Shown /\ UNCHANGED <<clampError, reading>> => Shown'
BY DEF Shown

\* startup keeps what was configured, but for the values of special clamps.
LEMMA StartTypes ==
  ASSUME Configured, Shown, StartClamps
  PROVE  Configured' /\ Shown'
<1>1. width' \in [Clamp -> Nat] /\ \A c \in Clamp : width'[c] = IF c \in Analog THEN 2 ELSE width[c]
  BY DEF StartClamps, Configured
<1>2. \A c \in Clamp : /\ c \in Special => width'[c] \in WidthOf[c]
                       /\ c \in Analog => width'[c] = 2
  BY <1>1, Sorts DEF Configured
<1>3. <<>> \in Seq(Byte)
  OBVIOUS
<1>4. value' \in [Clamp -> Value] /\ \A c \in Clamp : value'[c] = IF c \in Special THEN <<>> ELSE value[c]
  BY <1>3 DEF StartClamps, Configured, Value
<1>5. ASSUME NEW c \in Outputs
      PROVE  /\ c \in Digital => value'[c] \in Bit
             /\ c \notin Digital => value'[c] \in Seq(Byte)
             /\ c \in Analog => Len(value'[c]) = 2
             /\ c \in Special => value'[c] = <<>>
  <2>0. c \in Clamp
    BY DEF Outputs
  <2>1. CASE c \in Special
    BY <2>0, <2>1, <1>3, <1>4, Sorts
  <2>2. CASE c \notin Special
    BY <2>0, <2>2, <1>4, Sorts DEF Configured
  <2>. QED BY <2>1, <2>2
<1>6. Configured'
  BY <1>1, <1>2, <1>4, <1>5 DEF StartClamps, Configured
<1>7. clampError' \in [Clamp -> Codes]
  BY DEF StartClamps, Codes
<1>8. \A c \in Clamp : [val |-> Zero(c), state |-> "unknown"] \in Reading
  BY ZeroTypes DEF Reading, State3
<1>9. reading' \in [Clamp -> Reading]
        /\ \A c \in Clamp : reading'[c] = reading[c] \/ reading'[c].state = "unknown"
  BY <1>8 DEF StartClamps, Shown
<1>. QED BY <1>6, <1>7, <1>9 DEF Shown

\* Leaving a clamp out shows an error, and an AI or DI is good no longer.
LEMMA LeaveOutShown ==
  ASSUME Shown, NEW c \in Clamp, NEW code \in Codes, LeaveOut(c, code)
  PROVE  /\ Shown' /\ clampError'[c] = code /\ reading'[c].state # "good"
         /\ \A d \in Clamp \ {c} : clampError'[d] = clampError[d] /\ reading'[d] = reading[d]
<1>1. clampError' = [clampError EXCEPT ![c] = code]
  BY DEF LeaveOut, Fails
<1>2. PICK s \in State3 : /\ reading' = [reading EXCEPT ![c].state = s]
                          /\ s = IF KindOf[c] \in {"AI", "DI"} THEN "bad" ELSE reading[c].state
  BY DEF LeaveOut, Shown, Reading, State3
<1>3. reading' \in [Clamp -> Reading] /\ reading'[c].state = s
        /\ \A d \in Clamp \ {c} : reading'[d] = reading[d]
  BY <1>2 DEF Shown, Reading
<1>4. KindOf[c] \notin {"AI", "DI"} => s = "unknown"
  BY <1>2 DEF Shown
<1>5. clampError' \in [Clamp -> Codes] /\ clampError'[c] = code
        /\ \A d \in Clamp \ {c} : clampError'[d] = clampError[d]
  BY <1>1 DEF Shown
<1>6. Shown'
  BY <1>3, <1>4, <1>5 DEF Shown
<1>7. s # "good"
  BY <1>2, <1>4
<1>. QED BY <1>3, <1>5, <1>6, <1>7

\* Reading a clamp shows what the image holds at its place.
LEMMA ReadShown ==
  ASSUME Configured, Shown, NEW c \in Clamp, NEW image \in Image, NEW s \in State3,
         KindOf[c] \notin {"AI", "DI"} => s = "unknown", Read(c, image, s)
  PROVE  /\ Shown' /\ clampError'[c] = "none"
         /\ reading'[c] = [val |-> Fetch(c, image), state |-> s]
         /\ \A d \in Clamp \ {c} : clampError'[d] = clampError[d] /\ reading'[d] = reading[d]
<1>1. clampError' = [clampError EXCEPT ![c] = "none"]
      /\ reading' = [reading EXCEPT ![c] = [val |-> Fetch(c, image), state |-> s]]
  BY DEF Read, Clear
<1>2. [val |-> Fetch(c, image), state |-> s] \in Reading
  BY FetchType DEF Reading
<1>3. clampError' \in [Clamp -> Codes] /\ reading' \in [Clamp -> Reading]
  BY <1>1, <1>2 DEF Shown, Codes
<1>. QED BY <1>1, <1>3 DEF Shown

-----------------------------------------------------------------------------
(* The progress of a cycle.                                                *)

At(image, p) == image[p[1]][p[2]]

\* An output that has nothing to complain of and is meant to be driven.
Asked(c) == clampError[c] = "none" /\ ~readBackOnly[c] /\ Set(c)

\* How far the outputs are done.
Reached == IF pc = "inputs" THEN NumClamp + 1 ELSE pos

\* The output image holds what c wants, but where a later clamp drove a bit.
Won(c) ==
  \A p \in Place(c) : \/ \E d \in Clamp : c < d /\ d < Reached /\ Drives(d) /\ p \in Place(d)
                      \/ At(imageOut, p) = Wanted(c, p)

\* A bit of the output image is the field's, or a clamp drove it.
Kept(p) ==
  \/ \E d \in Clamp : d < pos /\ Drives(d) /\ p \in Place(d)
  \/ At(imageOut, p) = At(fieldOut, p)

\* A clamp that was fed shows the image.
Fed(c) == reading[c].state = "good" => enabled[c] /\ reading[c].val = Fetch(c, imageIn)

\* What holds in the midst of a cycle, of the clamps done so far.
Progress ==
  /\ pc \in {"readOutput", "clamps"} => imageIn = fieldIn
  /\ pc = "inputs" /\ ~error => imageIn = fieldIn /\ fieldOut = imageOut
  /\ pc \in {"clamps", "inputs"} => \A c \in Clamp : c < pos => Fed(c)
  /\ pc = "clamps" => \A p \in Position : Kept(p)
  /\ pc \in {"clamps", "outputs", "inputs"} =>
       \A c \in Outputs : c < Reached /\ Asked(c) => Won(c)
  /\ pc = "clamps" => \A c \in Outputs : c < pos /\ Asked(c) => write

IInv == Types /\ Progress

\* In a cycle the configuration is one: so are places and what is driven.
LEMMA SamePlaces ==
  ASSUME UNCHANGED <<config, manager>>
  PROVE  \A c \in Clamp : /\ Place(c)' = Place(c)
                          /\ Drives(c)' <=> Drives(c)
                          /\ Set(c)' <=> Set(c)
                          /\ \A p : Wanted(c, p)' = Wanted(c, p)
BY DEF config, Place, Bytes, FirstByte, Drives, InPlace, Set, Wanted

\* The foreach goes on by one clamp: what holds of those before it holds of it.
LEMMA Advance ==
  ASSUME Types, Progress, NEW e \in Clamp, pos = e, pos' = pos + 1,
         pc \in {"clamps", "outputs", "inputs"},
         UNCHANGED <<config, manager, pc, error, imageIn, fieldIn, fieldOut>>,
         \A d \in Clamp \ {e} : reading'[d] = reading[d] /\ clampError'[d] = clampError[d],
         pc # "outputs" /\ reading'[e].state = "good"
           => enabled[e] /\ reading'[e].val = Fetch(e, imageIn),
         \A p \in Position : ~(Drives(e) /\ p \in Place(e)) => At(imageOut', p) = At(imageOut, p),
         pc # "inputs" /\ e \in Outputs /\ Asked(e)'
           => /\ Drives(e) /\ (pc = "clamps" => write')
              /\ \A p \in Place(e) : At(imageOut', p) = Wanted(e, p),
         pc = "clamps" /\ write => write',
         pc = "inputs" => /\ imageOut' = imageOut
                          /\ e \in Outputs => clampError'[e] = clampError[e]
  PROVE  Progress'
<1>. USE DEF Progress
<1>0. pos = e /\ e \in Nat /\ NumClamp \in Nat /\ Clamp = 1..NumClamp
  BY ClampAssumption DEF Clamp
<1>1. \A c \in Clamp : /\ Place(c)' = Place(c) /\ Place(c) \subseteq Position
                       /\ Drives(c)' <=> Drives(c)
                       /\ Set(c)' <=> Set(c)
                       /\ \A p : Wanted(c, p)' = Wanted(c, p)
  BY SamePlaces, PlaceInside DEF Types
<1>2. \A c \in Clamp : Fetch(c, imageIn)' = Fetch(c, imageIn)
  BY DEF Fetch, FirstByte, config
<1>3. ASSUME pc \in {"clamps", "inputs"}, NEW c \in Clamp, c < pos'
      PROVE  Fed(c)'
  <2>1. CASE c = e
    BY <1>2, <1>3, <2>1 DEF Fed, config
  <2>2. CASE c # e
    <3>1. c < pos
      BY <1>0, <1>3, <2>2
    <3>2. Fed(c)
      BY <1>3, <3>1
    <3>3. reading'[c] = reading[c]
      BY <2>2
    <3>. QED BY <3>2, <3>3, <1>2 DEF Fed, config
  <2>. QED BY <2>1, <2>2
<1>4. ASSUME pc = "clamps", NEW p \in Position
      PROVE  Kept(p)'
  <2>1. CASE Drives(e) /\ p \in Place(e)
    <3>1. e < pos' /\ Drives(e)' /\ p \in Place(e)'
      BY <1>0, <1>1, <2>1
    <3>. QED BY <3>1 DEF Kept
  <2>2. CASE ~(Drives(e) /\ p \in Place(e))
    <3>1. At(imageOut', p) = At(imageOut, p) /\ At(fieldOut', p) = At(fieldOut, p)
      BY <2>2 DEF At
    <3>2. Kept(p)
      BY <1>4
    <3>3. \A d \in Clamp : d < pos => d < pos'
      BY <1>0
    <3>. QED BY <1>1, <3>1, <3>2, <3>3 DEF Kept
  <2>. QED BY <2>1, <2>2
<1>5. ASSUME NEW c \in Outputs, c < Reached', Asked(c)'
      PROVE  Won(c)' /\ (pc = "clamps" => write')
  <2>0. c \in Clamp
    BY DEF Outputs
  <2>1. CASE pc # "inputs" /\ c = e
    <3>1. Drives(c) /\ \A p \in Place(c) : At(imageOut', p) = Wanted(c, p)
      BY <1>5, <2>1
    <3>. QED BY <1>1, <1>5, <2>0, <2>1, <3>1 DEF Won, At
  <2>2. CASE pc = "inputs" \/ c # e
    <3>1. clampError'[c] = clampError[c]
      BY <2>0, <2>2
    <3>2. Asked(c)
      BY <1>1, <1>5, <2>0, <3>1 DEF Asked, config
    <3>3. c < Reached /\ (pc = "clamps" => c < pos)
      BY <1>0, <1>5, <2>0, <2>2 DEF Reached
    <3>4. Won(c) /\ (pc = "clamps" => write)
      BY <3>2, <3>3
    <3>5. ASSUME NEW p \in Place(c)
          PROVE  \/ \E d \in Clamp : c < d /\ d < Reached' /\ Drives(d) /\ p \in Place(d)
                 \/ At(imageOut', p) = Wanted(c, p)
      <4>0. p \in Position
        BY <1>1, <2>0
      <4>1. CASE \E d \in Clamp : c < d /\ d < Reached /\ Drives(d) /\ p \in Place(d)
        <5>1. \A d \in Clamp : d < Reached => d < Reached'
          BY <1>0 DEF Reached
        <5>. QED BY <4>1, <5>1
      <4>2. CASE At(imageOut, p) = Wanted(c, p)
        <5>1. CASE pc # "inputs" /\ Drives(e) /\ p \in Place(e)
          <6>1. c < e /\ e < Reached'
            BY <1>0, <2>0, <2>2, <3>3, <5>1 DEF Reached
          <6>. QED BY <5>1, <6>1
        <5>2. CASE pc = "inputs" \/ ~(Drives(e) /\ p \in Place(e))
          <6>1. At(imageOut', p) = At(imageOut, p)
            BY <4>0, <5>2
          <6>. QED BY <4>2, <6>1
        <5>. QED BY <5>1, <5>2
      <4>. QED BY <3>4, <4>1, <4>2 DEF Won
    <3>6. Won(c)'
      BY <1>1, <2>0, <3>5 DEF Won, At
    <3>. QED BY <3>4, <3>6
  <2>. QED BY <2>1, <2>2
<1>6. /\ pc' \in {"readOutput", "clamps"} => imageIn' = fieldIn'
      /\ pc' = "inputs" /\ ~error' => imageIn' = fieldIn' /\ fieldOut' = imageOut'
  OBVIOUS
<1>7. pc = "clamps" => Reached' = pos'
  BY DEF Reached
<1>. QED BY ONLY pc' = pc, <1>3, <1>4, <1>5, <1>6, <1>7 DEF Progress

-----------------------------------------------------------------------------
(* Every step keeps the invariant.                                         *)

\* What each way to pass a clamp has in common.
LEMMA TurnTypes ==
  ASSUME Types, NEW c \in Clamp, Turn(c), Shown', imageOut' \in Image, write' \in BOOLEAN
  PROVE  /\ Types' /\ pos = c /\ pc \in {"clamps", "outputs", "inputs"}
         /\ UNCHANGED <<config, manager, pc, error, imageIn, fieldIn, fieldOut>>
         /\ pc = "outputs" => c \in Outputs
         /\ pc = "inputs" => c \notin Outputs
<1>1. UNCHANGED config /\ UNCHANGED context /\ pos = c /\ pos' = pos + 1 /\ pc' = pc
      /\ UNCHANGED <<actimode, error, imageIn, fieldIn, fieldOut>>
  BY DEF Turn
<1>2. Configured'
  BY <1>1, SameConfigured DEF Types
<1>3. pos' \in 1..NumClamp + 1
  BY <1>1, ClampAssumption DEF Clamp
<1>4. Phases'
  BY <1>1, <1>3 DEF Phases, Types, context
<1>5. Images'
  BY <1>1 DEF Images, Types
<1>6. /\ pc \in {"clamps", "outputs", "inputs"}
      /\ pc = "outputs" => c \in Outputs
      /\ pc = "inputs" => c \notin Outputs
  BY DEF Turn
<1>. QED BY <1>1, <1>2, <1>4, <1>5, <1>6 DEF Types, context

LEMMA LeaveKeeps ==
  ASSUME IInv, NEW c \in Clamp, LeaveDisabled(c) \/ LeaveMisplaced(c)
  PROVE  IInv'
<1>1. PICK code \in {"disabled", "noClamp"} : Turn(c) /\ LeaveOut(c, code) /\ Unchanged
  BY DEF LeaveDisabled, LeaveMisplaced
<1>2. write' = write /\ imageOut' = imageOut
  BY <1>1 DEF Unchanged
<1>3. /\ Shown' /\ clampError'[c] = code /\ reading'[c].state # "good"
      /\ \A d \in Clamp \ {c} : clampError'[d] = clampError[d] /\ reading'[d] = reading[d]
  BY <1>1, LeaveOutShown DEF IInv, Types, Codes
<1>4. /\ Types' /\ pos = c /\ pos' = pos + 1 /\ pc \in {"clamps", "outputs", "inputs"}
      /\ UNCHANGED <<config, manager, pc, error, imageIn, fieldIn, fieldOut>>
      /\ pc = "inputs" => c \notin Outputs
  <2>1. imageOut' \in Image /\ write' \in BOOLEAN
    BY <1>2 DEF IInv, Types, Images, Phases
  <2>. QED BY <1>1, <1>3, <2>1, TurnTypes DEF IInv, Turn
<1>5. ~Asked(c)'
  BY <1>3 DEF Asked
<1>6. Progress'
  BY <1>2, <1>3, <1>4, <1>5, Advance DEF IInv, At
<1>. QED BY <1>4, <1>6 DEF IInv

LEMMA FeedInputKeeps ==
  ASSUME IInv, NEW c \in Clamp, FeedInput(c)
  PROVE  IInv'
<1>1. Turn(c) /\ c \notin Outputs /\ enabled[c] /\ Read(c, imageIn, State(c)) /\ Unchanged
  BY DEF FeedInput
<1>2. write' = write /\ imageOut' = imageOut
  BY <1>1 DEF Unchanged
<1>3. State(c) \in State3 /\ (KindOf[c] \notin {"AI", "DI"} => State(c) = "unknown")
  BY <1>1, Sorts DEF State, State3
<1>4. /\ Shown' /\ reading'[c] = [val |-> Fetch(c, imageIn), state |-> State(c)]
      /\ \A d \in Clamp \ {c} : clampError'[d] = clampError[d] /\ reading'[d] = reading[d]
  BY <1>1, <1>3, ReadShown DEF IInv, Types, Images
<1>5. /\ Types' /\ pos = c /\ pos' = pos + 1 /\ pc \in {"clamps", "outputs", "inputs"}
      /\ UNCHANGED <<config, manager, pc, error, imageIn, fieldIn, fieldOut>>
  <2>1. imageOut' \in Image /\ write' \in BOOLEAN
    BY <1>2 DEF IInv, Types, Images, Phases
  <2>. QED BY <1>1, <1>4, <2>1, TurnTypes DEF IInv, Turn
<1>6. Progress'
  BY <1>1, <1>2, <1>4, <1>5, Advance DEF IInv, At
<1>. QED BY <1>5, <1>6 DEF IInv

\* What an output does to the image in memory.
LEMMA FeedOutputImage ==
  ASSUME Types, NEW c \in Outputs, FeedOutput(c)
  PROVE  /\ imageOut' \in Image /\ write' \in BOOLEAN
         /\ \A p \in Position : ~(Drives(c) /\ p \in Place(c)) => At(imageOut', p) = At(imageOut, p)
         /\ ~readBackOnly[c] /\ Set(c)
              => /\ Drives(c) /\ (manager = "IPC" => write')
                 /\ \A p \in Place(c) : At(imageOut', p) = Wanted(c, p)
         /\ manager = "IPC" /\ write => write'
<1>1. enabled[c] /\ InPlace(c)
  BY DEF FeedOutput
<1>2. Drives(c) <=> ~readBackOnly[c] /\ Set(c)
  BY <1>1 DEF Drives, Set
<1>3. CASE readBackOnly[c]
  <2>1. write' = write /\ imageOut' = imageOut
    BY <1>3 DEF FeedOutput, Unchanged
  <2>. QED BY <1>3, <2>1 DEF Types, Images, Phases
<1>4. CASE ~readBackOnly[c]
  <2>1. write' = (manager = "IPC") /\ imageOut' = Store(c, imageOut)
    BY <1>4 DEF FeedOutput
  <2>2. imageOut \in Image /\ Configured
    BY DEF Types, Images
  <2>3. imageOut' \in Image
    BY <2>1, <2>2, StoreType
  <2>4. \A p \in Position : ~(Drives(c) /\ p \in Place(c)) => At(imageOut', p) = At(imageOut, p)
    BY <1>2, <1>4, <2>1, <2>2, StoreElsewhere DEF At
  <2>5. Set(c) => \A p \in Place(c) : At(imageOut', p) = Wanted(c, p)
    BY <2>1, <2>2, StoreAtPlace DEF At
  <2>. QED BY <1>2, <1>4, <2>1, <2>3, <2>4, <2>5
<1>. QED BY <1>3, <1>4

LEMMA FeedOutputKeeps ==
  ASSUME IInv, NEW c \in Clamp, FeedOutput(c)
  PROVE  IInv'
<1>1. Turn(c) /\ c \in Outputs /\ Read(c, imageOut, "unknown")
  BY DEF FeedOutput
<1>2. KindOf[c] \notin {"AI", "DI"}
  BY <1>1, Sorts
<1>3. /\ Shown' /\ reading'[c] = [val |-> Fetch(c, imageOut), state |-> "unknown"]
      /\ \A d \in Clamp \ {c} : clampError'[d] = clampError[d] /\ reading'[d] = reading[d]
  BY <1>1, <1>2, ReadShown DEF IInv, Types, Images, State3
<1>4. /\ imageOut' \in Image /\ write' \in BOOLEAN
      /\ \A p \in Position : ~(Drives(c) /\ p \in Place(c)) => At(imageOut', p) = At(imageOut, p)
      /\ ~readBackOnly[c] /\ Set(c)
           => /\ Drives(c) /\ (manager = "IPC" => write')
              /\ \A p \in Place(c) : At(imageOut', p) = Wanted(c, p)
      /\ manager = "IPC" /\ write => write'
  BY <1>1, FeedOutputImage DEF IInv
<1>5. /\ Types' /\ pos = c /\ pos' = pos + 1 /\ pc \in {"clamps", "outputs", "inputs"}
      /\ UNCHANGED <<config, manager, pc, error, imageIn, fieldIn, fieldOut>>
      /\ pc = "inputs" => c \notin Outputs
  BY <1>1, <1>3, <1>4, TurnTypes DEF IInv, Turn
<1>6. pc = "clamps" => manager = "IPC"
  BY CycleAssumption DEF IInv, Types, Phases
<1>7. Asked(c)' => ~readBackOnly[c] /\ Set(c)
  BY <1>5, SamePlaces DEF Asked, config
<1>8. Progress'
  BY <1>1, <1>3, <1>4, <1>5, <1>6, <1>7, Advance DEF IInv
<1>. QED BY <1>5, <1>8 DEF IInv

LEMMA PassByKeeps ==
  ASSUME IInv, PassBy
  PROVE  IInv'
<1>1. /\ pos \in Clamp /\ pos' = pos + 1 /\ pc \in {"outputs", "inputs"}
      /\ pc = "outputs" => pos \notin Outputs
      /\ pc = "inputs" => pos \in Outputs
      /\ UNCHANGED <<clampVars, context, pc, write, actimode, error, images, fieldIn, fieldOut>>
  BY DEF PassBy
<1>2. UNCHANGED <<config, clampError, reading, manager, events, imageIn, imageOut>>
  BY <1>1 DEF clampVars, context, images
<1>3. Configured' /\ Shown'
  BY <1>2, SameConfigured, SameShown DEF IInv, Types
<1>4. pos' \in 1..NumClamp + 1
  BY <1>1, ClampAssumption DEF Clamp
<1>5. Phases' /\ Images'
  BY <1>1, <1>2, <1>4 DEF IInv, Types, Phases, Images
<1>6. pc = "inputs" => reading[pos].state = "unknown"
  BY <1>1, Sorts DEF IInv, Types, Shown
<1>7. PICK e \in Clamp : pos = e
  BY <1>1
<1>8. Progress'
  BY <1>1, <1>2, <1>6, <1>7, Advance DEF IInv, At
<1>. QED BY <1>3, <1>5, <1>8 DEF IInv, Types

LEMMA VisitKeeps == IInv /\ Visit => IInv'
BY LeaveKeeps, FeedInputKeeps, FeedOutputKeeps, PassByKeeps DEF Visit

LEMMA SameClamps ==
  ASSUME Types, UNCHANGED clampVars
  PROVE  /\ Configured' /\ Shown' /\ UNCHANGED <<config, clampError, reading>>
         /\ \A c \in Clamp : Asked(c)' <=> Asked(c)
BY SameConfigured, SameShown DEF Types, clampVars, config, Asked, Set

\* No clamp comes before the first.
LEMMA NoneBefore == \A c \in Clamp : ~(c < 1)
BY ClampAssumption DEF Clamp

\* At the start of a foreach nothing is done yet.
LEMMA StartsAnew ==
  ASSUME pos' = 1, pc' \in {"idle", "readInput", "readOutput", "clamps", "outputs"},
         pc' \in {"readOutput", "clamps"} => imageIn' = fieldIn',
         pc' = "clamps" => imageOut' = fieldOut'
  PROVE  Progress'
<1>1. Reached' = 1
  BY DEF Reached
<1>2. \A c \in Outputs : c \in Clamp
  BY DEF Outputs
<1>3. pc' = "clamps" => \A p \in Position : Kept(p)'
  BY DEF Kept, At
<1>. QED BY <1>1, <1>2, <1>3, NoneBefore DEF Progress

\* Nothing is claimed between two cycles, and before the images are read.
LEMMA NothingClaimed ==
  ASSUME pc' \in {"idle", "readInput"}
  PROVE  Progress'
BY DEF Progress

\* A phase of the same manager follows a phase.
LEMMA PhasesFollow ==
  ASSUME Phases, manager' = manager, events' \in 0..MaxEvents,
         pos' \in {pos, 1}, write' \in {write, FALSE}, actimode' \in BOOLEAN, error' \in BOOLEAN,
         manager = "IPC" => pc' \in {"idle", "readInput", "readOutput", "clamps"},
         manager = "FBK" => pc' \in {"idle", "outputs", "inputs"}
  PROVE  Phases'
<1>1. pos' \in 1..NumClamp + 1
  BY ClampAssumption DEF Phases
<1>2. write' \in BOOLEAN
  BY DEF Phases
<1>. QED BY <1>1, <1>2 DEF Phases

\* The steps of WagoIPCManager around its foreach.
LEMMA IPCKeeps ==
  ASSUME IInv, ExecuteIPC \/ ReadInput \/ ReadOutput \/ WriteBack
  PROVE  IInv'
<1>1. UNCHANGED clampVars /\ UNCHANGED context
  BY DEF ExecuteIPC, ReadInput, ReadOutput, WriteBack, Stop
<1>2. manager = "IPC" /\ manager' = manager /\ events' \in 0..MaxEvents
  BY <1>1, CycleAssumption DEF IInv, Types, Phases, context, ExecuteIPC, ReadInput, ReadOutput, WriteBack
<1>3. Configured' /\ Shown'
  BY <1>1, SameClamps DEF IInv
<1>4. pos' \in {pos, 1} /\ write' \in {write, FALSE} /\ actimode' \in BOOLEAN /\ error' \in BOOLEAN
      /\ pc' \in {"idle", "readInput", "readOutput", "clamps"}
  BY <1>2 DEF IInv, Types, Phases, ExecuteIPC, ReadInput, ReadOutput, WriteBack, Stop
<1>5. Phases'
  BY <1>2, <1>4, PhasesFollow DEF IInv, Types
<1>6. Images'
  BY DEF IInv, Types, Images, ExecuteIPC, ReadInput, ReadOutput, WriteBack, Stop, images
<1>7. Progress'
  <2>1. CASE pc' \in {"idle", "readInput"}
    BY <2>1, NothingClaimed
  <2>2. CASE pc' \notin {"idle", "readInput"} /\ ReadInput
    BY <2>2 DEF Progress, ReadInput, Stop
  <2>3. CASE pc' \notin {"idle", "readInput"} /\ ReadOutput
    <3>1. /\ pos' = 1 /\ pc' = "clamps" /\ imageOut' = fieldOut' /\ imageIn' = imageIn
          /\ fieldIn' = fieldIn /\ pc = "readOutput"
      BY <2>3 DEF ReadOutput, Stop
    <3>2. imageIn' = fieldIn'
      BY <3>1 DEF IInv, Progress
    <3>. QED BY <3>1, <3>2, StartsAnew
  <2>4. CASE ExecuteIPC
    BY <2>4, NothingClaimed DEF ExecuteIPC
  <2>5. CASE WriteBack
    BY <2>5, NothingClaimed DEF WriteBack, Stop
  <2>. QED BY <2>1, <2>2, <2>3, <2>4, <2>5
<1>. QED BY <1>3, <1>5, <1>6, <1>7 DEF IInv, Types

\* The steps of WagoFBKManager around its two.
LEMMA FBKKeeps ==
  ASSUME IInv, ExecuteFBK \/ Update \/ Return
  PROVE  IInv'
<1>1. UNCHANGED clampVars /\ UNCHANGED context
  BY DEF ExecuteFBK, Update, Return
<1>2. manager = "FBK" /\ manager' = manager /\ events' \in 0..MaxEvents
  BY <1>1, CycleAssumption DEF IInv, Types, Phases, context, ExecuteFBK, Update, Return
<1>3. Configured' /\ Shown' /\ UNCHANGED config /\ \A c \in Clamp : Asked(c)' <=> Asked(c)
  BY <1>1, SameClamps DEF IInv
<1>4. pos' \in {pos, 1} /\ write' \in {write, FALSE} /\ actimode' \in BOOLEAN /\ error' \in BOOLEAN
      /\ pc' \in {"idle", "outputs", "inputs"}
  BY <1>2 DEF IInv, Types, Phases, ExecuteFBK, Update, Return
<1>5. Phases'
  BY <1>2, <1>4, PhasesFollow DEF IInv, Types
<1>6. Images'
  BY DEF IInv, Types, Images, ExecuteFBK, Update, Return, images
<1>7. Progress'
  <2>1. CASE ExecuteFBK
    BY <2>1, StartsAnew DEF ExecuteFBK
  <2>2. CASE Return
    BY <2>2, NothingClaimed DEF Return
  <2>3. CASE Update
    <3>1. /\ pc = "outputs" /\ pc' = "inputs" /\ pos' = 1 /\ pos > NumClamp
          /\ imageOut' = imageOut /\ fieldIn' = fieldIn
          /\ ~error' => imageIn' = fieldIn /\ fieldOut' = imageOut
      BY <2>3 DEF Update
    <3>2. Reached = NumClamp + 1 /\ Reached' = NumClamp + 1
      BY <3>1, ClampAssumption DEF Reached, IInv, Types, Phases
    <3>3. ASSUME NEW c \in Outputs, Asked(c)'
          PROVE  Won(c)'
      <4>1. c \in Clamp /\ c < Reached
        BY <3>2, ClampAssumption DEF Outputs, Clamp
      <4>2. Won(c)
        BY <1>3, <3>1, <3>3, <4>1 DEF IInv, Progress
      <4>. QED BY <1>2, <1>3, <3>1, <3>2, <4>1, <4>2, SamePlaces DEF Won, At
    <3>. QED BY <3>1, <3>3, NoneBefore DEF Progress
  <2>. QED BY <2>1, <2>2, <2>3
<1>. QED BY <1>3, <1>5, <1>6, <1>7 DEF IInv, Types

\* What happens between two cycles.
LEMMA OutsideKeeps ==
  ASSUME IInv, Client \/ Com \/ Field \/ Restart
  PROVE  IInv'
<1>1. manager' = manager /\ events' \in 0..MaxEvents
  <2>1. events \in 0..MaxEvents /\ MaxEvents \in Nat
    BY CycleAssumption DEF IInv, Types, Phases
  <2>2. Event => manager' = manager /\ events' \in 0..MaxEvents
    BY <2>1 DEF Event
  <2>3. UNCHANGED context => manager' = manager /\ events' \in 0..MaxEvents
    BY <2>1 DEF context
  <2>. QED BY <2>2, <2>3 DEF Client, Com, Field, Restart
<1>2. pc' = "idle" /\ pos' \in {pos, 1} /\ write' \in {write, FALSE}
      /\ actimode' \in BOOLEAN /\ error' \in BOOLEAN
  BY DEF IInv, Types, Phases, Client, Com, Field, Restart, cycle
<1>3. Phases'
  BY <1>1, <1>2, PhasesFollow DEF IInv, Types
<1>4. Configured' /\ Shown'
  <2>1. CASE Client
    BY <2>1, ConfigureTypes, SameClamps DEF Client, IInv, Types
  <2>2. CASE Com \/ Field
    BY <2>2, SameClamps DEF Com, Field, IInv
  <2>3. CASE Restart
    BY <2>3, StartTypes DEF Restart, IInv, Types
  <2>. QED BY <2>1, <2>2, <2>3
<1>5. Images'
  <2>1. CASE Client
    BY <2>1 DEF Client, IInv, Types, Images, images
  <2>2. CASE Com
    <3>1. PICK command \in Byte : imageOut' = [fieldOut EXCEPT ![MailBoxByte] = command]
      <4>1. fieldOut[MailBoxByte] \in Byte /\ ZeroByte \in Byte
        BY CycleAssumption, ZeroTypes DEF IInv, Types, Images, Image
      <4>2. [b \in 0..Bits - 1 |-> 1] \in Byte
        BY DEF Byte, Bit
      <4>. QED BY <2>2, <4>1, <4>2 DEF Com
    <3>2. imageOut' \in Image
      BY <3>1 DEF IInv, Types, Images, Image
    <3>. QED BY <2>2, <3>2 DEF Com, IInv, Types, Images
  <2>3. CASE Field
    BY <2>3, CycleAssumption DEF Field, IInv, Types, Images, images
  <2>4. CASE Restart
    BY <2>4, ZeroTypes DEF Restart, IInv, Types, Images
  <2>. QED BY <2>1, <2>2, <2>3, <2>4
<1>6. Progress'
  BY <1>2, NothingClaimed
<1>. QED BY <1>3, <1>4, <1>5, <1>6 DEF IInv, Types

LEMMA StutterKeeps == IInv /\ UNCHANGED vars => IInv'
<1>. SUFFICES ASSUME IInv, UNCHANGED vars PROVE IInv'
  OBVIOUS
<1>1. UNCHANGED <<clampVars, manager, events, pc, pos, write, actimode, error, imageIn,
                  imageOut, fieldIn, fieldOut>>
  BY DEF vars, context, cycle, images
<1>2. Types'
  BY <1>1, SameClamps DEF IInv, Types, Phases, Images
<1>3. Progress'
  BY <1>1 DEF IInv, Progress, Reached, Fed, Kept, Won, Asked, Set, At, Place, Bytes, FirstByte,
              Drives, InPlace, Wanted, Fetch, clampVars, config
<1>. QED BY <1>2, <1>3 DEF IInv

LEMMA NextKeeps == IInv /\ [Next]_vars => IInv'
BY VisitKeeps, IPCKeeps, FBKKeeps, OutsideKeeps, StutterKeeps DEF Next, Typemethod

LEMMA Invariance == Spec => []IInv
<1>1. Init => IInv
  <2>1. Init => pc = "idle"
    BY DEF Init
  <2>. QED BY <2>1, InitTypes DEF IInv, Progress
<1>. QED BY <1>1, NextKeeps, PTL DEF Spec

-----------------------------------------------------------------------------
(* The properties.                                                         *)

\* Every variable has its type, and every clamp stands for bits of the image:
\* the accessors and startup keep it there.
THEOREM CycleTypes == Spec => []TypeOK
<1>1. IInv => TypeOK
  <2>. SUFFICES ASSUME IInv PROVE TypeOK
    OBVIOUS
  <2>1. \A c \in Clamp : Place(c) \subseteq Position /\ reading[c].state \in State3
    BY PlaceInside DEF IInv, Types, Shown, Reading
  <2>2. manager \in {"IPC", "FBK"}
    BY CycleAssumption DEF IInv, Types, Phases
  <2>3. pc \in {"idle", "readInput", "readOutput", "clamps", "outputs", "inputs"}
    BY <2>2 DEF IInv, Types, Phases
  <2>4. clampError \in [Clamp -> Codes] /\ Images
        /\ enabled \in [Clamp -> BOOLEAN] /\ readBackOnly \in [Clamp -> BOOLEAN]
    BY DEF IInv, Types, Shown, Configured
  <2>5. /\ manager \in Manager /\ events \in 0..MaxEvents /\ pos \in 1..NumClamp + 1
        /\ write \in BOOLEAN /\ actimode \in BOOLEAN /\ error \in BOOLEAN
    BY DEF IInv, Types, Phases
  <2>. QED BY <2>1, <2>3, <2>4, <2>5 DEF TypeOK, Codes, State3, Images
<1>. QED BY <1>1, Invariance, PTL

\* When a cycle ends every clamp is done, and the field has what was read and
\* driven, unless the manager's error says that it has not.
LEMMA AtTheEnd ==
  ASSUME IInv, CycleEnds
  PROVE  /\ UNCHANGED <<clampVars, fieldIn>> /\ Reached = NumClamp + 1
         /\ manager = "IPC" => \A p \in Position : Kept(p)
         /\ manager = "IPC" => fieldOut' \in {fieldOut, imageOut} /\ pos = NumClamp + 1
         /\ ~error' => /\ imageIn = fieldIn
                       /\ \A c \in Clamp : Fed(c)
                       /\ \A c \in Outputs : Asked(c) => Won(c) /\ fieldOut' = imageOut
<1>0. /\ pos \in 1..NumClamp + 1 /\ NumClamp \in Nat /\ pos > NumClamp
      /\ \A c \in Clamp : c < NumClamp + 1
      /\ Outputs \subseteq Clamp
  BY ClampAssumption DEF IInv, Types, Phases, CycleEnds, WriteBack, Return, Clamp, Outputs
<1>1. pos = NumClamp + 1 /\ Reached = NumClamp + 1
  BY <1>0 DEF Reached
<1>2. CASE WriteBack
  <2>1. /\ pc = "clamps" /\ UNCHANGED <<clampVars, fieldIn>>
        /\ \/ fieldOut' = IF write THEN imageOut ELSE fieldOut
           \/ fieldOut' = fieldOut /\ error' = TRUE
    BY <1>2 DEF WriteBack, Stop
  <2>2. \A c \in Outputs : Asked(c) => Won(c) /\ write
    BY <1>0, <1>1, <2>1 DEF IInv, Progress
  <2>3. imageIn = fieldIn /\ (\A c \in Clamp : Fed(c)) /\ (\A p \in Position : Kept(p))
    BY <1>0, <1>1, <2>1 DEF IInv, Progress
  <2>. QED BY <1>1, <2>1, <2>2, <2>3
<1>3. CASE Return
  <2>1. /\ pc = "inputs" /\ UNCHANGED <<clampVars, fieldIn>> /\ fieldOut' = fieldOut
        /\ error' = error
    BY <1>3 DEF Return
  <2>2. manager # "IPC"
    BY <2>1 DEF IInv, Types, Phases
  <2>3. \A c \in Outputs : Asked(c) => Won(c)
    BY <1>0, <1>1, <2>1 DEF IInv, Progress
  <2>4. \A c \in Clamp : Fed(c)
    BY <1>0, <1>1, <2>1 DEF IInv, Progress
  <2>5. ~error' => imageIn = fieldIn /\ fieldOut' = imageOut
    BY <2>1 DEF IInv, Progress
  <2>. QED BY <1>1, <2>1, <2>2, <2>3, <2>4, <2>5
<1>. QED BY <1>2, <1>3 DEF CycleEnds

\* A value that an output shows no error for is in the field when typemethod
\* returns without an error, for both managers and any overlap of clamps.
THEOREM OutputsArrive == Spec => OutputsFollow
<1>1. ASSUME IInv, CycleEnds, ~error', NEW c \in Outputs, clampError'[c] = "none",
             ~readBackOnly[c], c \in Special => value[c] # <<>>, NEW p \in Place(c)
      PROVE  \/ \E d \in Clamp : d > c /\ Drives(d) /\ p \in Place(d)
             \/ fieldOut'[p[1]][p[2]] = Wanted(c, p)
  <2>1. Asked(c)
    BY <1>1, AtTheEnd DEF Asked, Set, clampVars
  <2>2. Won(c) /\ fieldOut' = imageOut
    BY <1>1, <2>1, AtTheEnd
  <2>3. \A d \in Clamp : c < d => d > c
    BY ClampAssumption DEF Clamp, Outputs
  <2>. QED BY <2>2, <2>3 DEF Won, At
<1>2. IInv /\ [Next]_vars =>
        [CycleEnds /\ ~error' =>
          \A c \in Outputs :
            clampError'[c] = "none" /\ ~readBackOnly[c] /\ (c \in Special => value[c] # <<>>) =>
              \A p \in Place(c) :
                \/ \E d \in Clamp : d > c /\ Drives(d) /\ p \in Place(d)
                \/ fieldOut'[p[1]][p[2]] = Wanted(c, p)]_vars
  BY <1>1
<1>. QED BY <1>2, Invariance, PTL DEF Spec, OutputsFollow

\* WagoIPCManager changes no bit of the field that no clamp drives, for any
\* plant, and whatever failed in the cycles before.
THEOREM OthersStay == Spec => OthersKept
<1>1. ASSUME IInv, CycleEnds, manager = "IPC", NEW p \in Position
      PROVE  \/ \E c \in Clamp : Drives(c) /\ p \in Place(c)
             \/ fieldOut'[p[1]][p[2]] = fieldOut[p[1]][p[2]]
  BY <1>1, AtTheEnd DEF Kept, At
<1>2. IInv /\ [Next]_vars =>
        [CycleEnds /\ manager = "IPC" =>
          \A p \in Position :
            \/ \E c \in Clamp : Drives(c) /\ p \in Place(c)
            \/ fieldOut'[p[1]][p[2]] = fieldOut[p[1]][p[2]]]_vars
  BY <1>1
<1>. QED BY <1>2, Invariance, PTL DEF Spec, OthersKept

\* A value called good in a cycle without an error is the field's.
THEOREM GoodIsGenuine == Spec => GoodIsField
<1>1. ASSUME IInv, CycleEnds, ~error', NEW c \in Clamp, reading[c].state = "good"
      PROVE  enabled[c] /\ reading[c].val = Fetch(c, fieldIn)
  <2>1. Fed(c) /\ imageIn = fieldIn
    BY <1>1, AtTheEnd
  <2>. QED BY <1>1, <2>1 DEF Fed
<1>2. IInv /\ [Next]_vars =>
        [CycleEnds /\ ~error' =>
          \A c \in Clamp : reading[c].state = "good" =>
            enabled[c] /\ reading[c].val = Fetch(c, fieldIn)]_vars
  BY <1>1
<1>. QED BY <1>2, Invariance, PTL DEF Spec, GoodIsField

\* The last byte, when neither the sum nor the difference leaves the OV_UINTs.
LEMMA LastByteIs ==
  ASSUME NEW a \in Nat, NEW w \in Nat, a + w <= UintWrap
  PROVE  LastByte(a, w) = IF a + w = 0 THEN UintWrap - 1 ELSE a + w - 1
<1>1. UintWrap \in Nat /\ UintWrap > 0
  BY ImageAssumption
<1>2. CASE a + w = 0
  <2>1. a + w - 1 = UintWrap * (-1) + (UintWrap - 1)
    BY <1>1, <1>2
  <2>. QED BY <1>1, <1>2, <2>1 DEF LastByte
<1>3. CASE a + w > 0
  BY <1>1, <1>3 DEF LastByte
<1>. QED BY <1>2, <1>3

\* What the overlap test of the accessors lets through: places that are apart,
\* or one inside a wider one.
LEMMA NotMet ==
  ASSUME NEW a \in Nat, NEW w \in Nat, a + w <= UintWrap,
         NEW o \in Clamp, address[o] \in Nat, width[o] \in Nat, address[o] + width[o] <= UintWrap,
         ~Meets(o, a, w)
  PROVE  \/ a + w <= address[o] \/ address[o] + width[o] <= a
         \/ address[o] < a /\ a + w < address[o] + width[o]
BY LastByteIs, ImageAssumption DEF Meets

\* A byte output does not reach beyond the OV_UINTs.
LEMMA WithinUint ==
  ASSUME Configured, NEW c \in ByteOutputs
  PROVE  /\ c \in Clamp /\ address[c] \in Nat /\ width[c] \in Nat
         /\ address[c] + width[c] <= UintWrap
<1>1. c \in Clamp /\ address[c] \in 0..Size - 1 /\ width[c] \in Nat /\ address[c] \in AddressOf[c]
  BY DEF Configured, ByteOutputs, Outputs
<1>2. CASE c \in Analog
  BY <1>1, <1>2, ImageAssumption DEF Configured
<1>3. CASE c \in Special
  <2>1. width[c] \in WidthOf[c]
    BY <1>1, <1>3 DEF Configured
  <2>2. address[c] + width[c] <= Size
    BY <1>1, <1>3, <2>1, PlaceAssumption
  <2>. QED BY <1>1, <2>2, ImageAssumption
<1>. QED BY <1>1, <1>2, <1>3, Sorts DEF ByteOutputs

\* A byte output is moved or widened only to where it shares no byte with another
\* one, but for the byte below an odd address, or inside it, for any addresses and
\* widths of OV_UINT.
THEOREM MovesClear == Spec => MovesAreClear
<1>1. ASSUME IInv, [Next]_vars, NEW c \in ByteOutputs,
             Moved(c), NEW o \in ByteOutputs \ {c}
      PROVE  (Bytes(c) \cap Bytes(o) \subseteq Below(c) \cup Below(o))' \/ Inside(c, o)'
  <2>0. Configured /\ Configured' /\ c \in Clamp /\ o \in Clamp
    BY <1>1, NextKeeps DEF IInv, Types, ByteOutputs, Outputs
  <2>1. PICK e \in Clamp : SetByteAddress(e) \/ SetByteWidth(e)
    <3>1. CASE Client
      BY <1>1, <3>1 DEF Moved, Client, Configure, SetBitOffset, SetFlags, SetValue, clampVars, config
    <3>2. CASE Restart
      BY <1>1, <2>0, <3>2 DEF Moved, Restart, StartClamps, Configured
    <3>3. CASE Typemethod \/ Com \/ Field \/ UNCHANGED vars
      BY <1>1, <3>3 DEF Moved, Typemethod, ExecuteIPC, ReadInput, ReadOutput, WriteBack, Stop, ExecuteFBK,
        Update, Return, Visit, PassBy, LeaveDisabled, LeaveMisplaced, FeedInput, FeedOutput, Turn,
        Com, Field, vars, clampVars, config
    <3>. QED BY <1>1, <3>1, <3>2, <3>3 DEF Next
  <2>2. e = c /\ address'[o] = address[o] /\ width'[o] = width[o]
    BY <1>1, <2>0, <2>1 DEF Moved, SetByteAddress, SetByteWidth, Configured
  <2>3. ~Meets(o, address'[c], width'[c])
    <3>1. CASE SetByteAddress(c)
      BY <1>1, <2>0, <3>1 DEF Moved, SetByteAddress, Configured
    <3>2. CASE SetByteWidth(c)
      <4>1. c \in Special => KindOf[c] = "SO"
        BY <2>0, Sorts DEF ByteOutputs, Outputs, Special
      <4>. QED BY <1>1, <2>0, <3>2, <4>1 DEF Moved, SetByteWidth, Configured
    <3>. QED BY <2>1, <2>2, <3>1, <3>2
  <2>4. /\ address'[c] \in Nat /\ width'[c] \in Nat /\ address'[c] + width'[c] <= UintWrap
        /\ address[o] \in Nat /\ width[o] \in Nat /\ address[o] + width[o] <= UintWrap
    <3>1. (address[c] \in Nat /\ width[c] \in Nat /\ address[c] + width[c] <= UintWrap)'
      BY <2>0, WithinUint, PTL
    <3>2. address[o] \in Nat /\ width[o] \in Nat /\ address[o] + width[o] <= UintWrap
      BY <2>0, WithinUint
    <3>. QED BY <3>1, <3>2
  <2>5. (c \in Analog => width[c] = 2)' /\ (o \in Analog => width[o] = 2)'
    BY <2>0 DEF Configured
  <2>6. ASSUME NEW d \in {c, o}, NEW b \in (Bytes(d) \ Below(d))'
        PROVE  b \in Int /\ address'[d] <= b /\ b < address'[d] + width'[d]
    <3>1. address'[d] \in Nat /\ width'[d] \in Nat /\ (d \in Analog => width'[d] = 2)
      BY <2>2, <2>4, <2>5
    <3>2. CASE d \in Analog
      BY <3>1, <3>2, <2>6 DEF Bytes, FirstByte, Below
    <3>3. CASE d \notin Analog
      BY <3>1, <3>3, <2>6 DEF Bytes, FirstByte, Below
    <3>. QED BY <3>2, <3>3
  <2>7. CASE address'[c] + width'[c] <= address[o] \/ address[o] + width[o] <= address'[c]
    <3>1. ASSUME NEW b \in (Bytes(c) \cap Bytes(o))', b \notin (Below(c) \cup Below(o))'
          PROVE  FALSE
      <4>1. address'[c] <= b /\ b < address'[c] + width'[c] /\ b \in Int
        BY <3>1, <2>6
      <4>2. address[o] <= b /\ b < address[o] + width[o]
        BY <3>1, <2>2, <2>6
      <4>. QED BY <2>4, <2>7, <4>1, <4>2
    <3>. QED BY <3>1
  <2>. QED BY <2>0, <2>2, <2>3, <2>4, <2>7, NotMet DEF Inside
<1>2. IInv /\ [Next]_vars =>
        [\A c \in ByteOutputs : Moved(c) =>
          \A o \in ByteOutputs \ {c} :
            (Bytes(c) \cap Bytes(o) \subseteq Below(c) \cup Below(o))' \/ Inside(c, o)']_vars
  BY <1>1
<1>. QED BY <1>2, Invariance, PTL DEF Spec, MovesAreClear
=============================================================================
