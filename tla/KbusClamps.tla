----------------------------- MODULE KbusClamps -----------------------------
(***************************************************************************)
(* The clamps of kbuslib: what a client configures, the checks of the      *)
(* accessors (Clamp.c), and how a clamp and a process image exchange a     *)
(* value.  A process image is a sequence of bytes, a byte a few bits; the  *)
(* value of a clamp is the bytes or the bit it stands for in the image,    *)
(* the scaling to 0.0 .. 1.0 is left out.                                  *)
(***************************************************************************)
EXTENDS Integers, Sequences

CONSTANTS
  NumClamp,      \* clamps of the manager, in the order they were created
  KindOf,        \* class of each clamp
  Size,          \* bytes of the input and of the output image
  Bits,          \* bits of a byte (8)
  UintWrap,      \* values of an OV_UINT (2^32)
  AddressOf, WidthOf, BitOf, EnabledOf, ReadBackOf, ValueOf
                 \* what a client may set for each clamp

Clamp == 1..NumClamp
Kind == {"AI", "SI", "DI", "AO", "SO", "DO"}
Digital == {c \in Clamp : KindOf[c] \in {"DI", "DO"}}
Special == {c \in Clamp : KindOf[c] \in {"SI", "SO"}}
Analog == {c \in Clamp : KindOf[c] \in {"AI", "AO"}}
Outputs == {c \in Clamp : KindOf[c] \in {"AO", "SO", "DO"}}
\* Outputs that own whole bytes; only their places are checked.
ByteOutputs == Outputs \ Digital

Bit == {0, 1}
Byte == [0..Bits - 1 -> Bit]
Image == [0..Size - 1 -> Byte]
ZeroByte == [b \in 0..Bits - 1 |-> 0]
ZeroImage == [a \in 0..Size - 1 |-> ZeroByte]
Position == (0..Size - 1) \X (0..Bits - 1)

ASSUME ClampAssumption ==
  /\ NumClamp \in Nat
  /\ KindOf \in [Clamp -> Kind]
ASSUME ImageAssumption ==
  Size \in Nat /\ Bits \in Nat \ {0, 1} /\ UintWrap \in Nat /\ UintWrap > Size

\* A byte vector is unset or long enough for every width of its clamp.  That is
\* up to the clients: Value_set looks at the type only, and the cycle copies as
\* many bytes as the clamp is wide, beyond the end of a shorter vector.
ASSUME ValueAssumption ==
  \A c \in Clamp : \A v \in ValueOf[c] :
    CASE c \in Digital -> v \in Bit
      [] c \in Analog  -> v \in Seq(Byte) /\ Len(v) = 2
      [] c \in Special -> v \in Seq(Byte) /\ (v = <<>> \/ \A w \in WidthOf[c] : w <= Len(v))

\* Nothing compares a place with the size of an image: whoever configures a
\* clamp keeps it inside.  An analog clamp is the word its address lies in.
ASSUME PlaceAssumption ==
  \A c \in Clamp : \A a \in AddressOf[c] :
    /\ a \in 0..Size - 1
    /\ c \in Analog => 2 * (a \div 2) + 2 <= Size
    /\ c \in Special => \A w \in WidthOf[c] : w \in Nat /\ a + w <= Size
ASSUME FlagAssumption ==
  \A c \in Clamp : BitOf[c] \subseteq Nat /\ EnabledOf[c] \subseteq BOOLEAN /\ ReadBackOf[c] \subseteq BOOLEAN

VARIABLES
  address, width, bitOffset,  \* v_ByteAddress, v_ByteWidth, v_BitOffset
  enabled, readBackOnly,
  value,        \* v_Value of an output
  clampError,   \* v_ErrorCode; v_Error is FALSE unless it is "none" or "disabled"
  reading       \* an input's v_ValuePV, an output's v_RBValue (without state)

config == <<address, width, bitOffset, enabled, readBackOnly, value>>
clampVars == <<config, clampError, reading>>

-----------------------------------------------------------------------------
(* A clamp and an image.                                                   *)

\* Analog clamps index the image as words: an odd address is rounded down.
FirstByte(c) == IF c \in Analog THEN 2 * (address[c] \div 2) ELSE address[c]
Bytes(c) == FirstByte(c)..(FirstByte(c) + width[c] - 1)

\* The positions of the image a clamp stands for.
Place(c) ==
  IF c \in Digital THEN {<<address[c], bitOffset[c]>>}
  ELSE Bytes(c) \X (0..Bits - 1)

\* The value at the place of a clamp.
Fetch(c, image) ==
  IF c \in Digital THEN image[address[c]][bitOffset[c]]
  ELSE [i \in 1..width[c] |-> image[FirstByte(c) + i - 1]]

\* Slip: a digital output sets its whole byte.
StoreByte(c, image) ==
  IF c \in Digital THEN [image EXCEPT ![address[c]] = [b \in 0..Bits - 1 |-> value[c]]]
  ELSE IF value[c] = <<>> THEN image
  ELSE [a \in 0..Size - 1 |->
          IF a \in Bytes(c) THEN value[c][a - FirstByte(c) + 1] ELSE image[a]]

\* The image with the value of an output in its place.  A digital output takes
\* the byte, alters its bit and puts it back.  An unset byte vector of a
\* special output is not written.
Store(c, image) ==
  IF c \in Digital THEN [image EXCEPT ![address[c]][bitOffset[c]] = value[c]]
  ELSE IF value[c] = <<>> THEN image
  ELSE [a \in 0..Size - 1 |->
          IF a \in Bytes(c) THEN value[c][a - FirstByte(c) + 1] ELSE image[a]]

Zero(c) ==
  IF c \in Digital THEN 0 ELSE IF c \in Special THEN <<>> ELSE <<ZeroByte, ZeroByte>>

\* One setting of every clamp out of those it may have.
Settings(SettingsOf) ==
  {f \in [Clamp -> UNION {SettingsOf[c] : c \in Clamp}] : \A c \in Clamp : f[c] \in SettingsOf[c]}

\* A plant that was configured, or detected, before.
InitClamps ==
  /\ address \in Settings(AddressOf)
  /\ width \in {w \in Settings(WidthOf) :
                  \A c \in Clamp \ Special : w[c] = IF c \in Digital THEN 0 ELSE 2}
  /\ bitOffset = [c \in Clamp |-> 0]
  /\ enabled = [c \in Clamp |-> TRUE]
  /\ readBackOnly = [c \in Clamp |-> FALSE]
  /\ value = [c \in Clamp |-> Zero(c)]
  /\ clampError = [c \in Clamp |-> "none"]
  /\ reading = [c \in Clamp |-> [val |-> Zero(c), state |-> "unknown"]]

-----------------------------------------------------------------------------
(* The accessors of Clamp.c.                                               *)

\* OV_UINT arithmetic: one below zero is the largest number.
LastByte(a, w) == (a + w - 1) % UintWrap

\* Slip: only the first byte of the other clamp is looked at.
MeetsFirst(o, a, w) == address[o] >= a /\ address[o] <= LastByte(a, w)

\* The first or the last byte of clamp o is one of the w bytes from a on.
Meets(o, a, w) ==
  LET end == LastByte(address[o], width[o]) IN
  \/ address[o] >= a /\ address[o] <= LastByte(a, w)
  \/ end >= a /\ end <= LastByte(a, w)

Fails(c, code) == clampError' = [clampError EXCEPT ![c] = code]

\* The clamp itself is among those looked at: a move by less than its width is
\* refused as well.
SetByteAddress(c) ==
  \E a \in AddressOf[c] \ {address[c]} :
    LET served == c \in ByteOutputs /\ \E o \in ByteOutputs : Meets(o, a, width[c]) IN
    /\ \/ served /\ Fails(c, "exists") /\ UNCHANGED address
       \/ ~served /\ address' = [address EXCEPT ![c] = a] /\ UNCHANGED clampError
    /\ UNCHANGED <<width, bitOffset, enabled, readBackOnly, value, reading>>

\* Only special clamps have a width to choose; other clients' values are refused.
SetByteWidth(c) ==
  \E w \in WidthOf[c] \ {width[c]} :
    LET served == KindOf[c] = "SO" /\ \E o \in ByteOutputs \ {c} : Meets(o, address[c], w) IN
    /\ \/ c \notin Special /\ Fails(c, "notAllowed") /\ UNCHANGED width
       \/ c \in Special /\ served /\ Fails(c, "badParam") /\ UNCHANGED width
       \/ c \in Special /\ ~served /\ width' = [width EXCEPT ![c] = w] /\ UNCHANGED clampError
    /\ UNCHANGED <<address, bitOffset, enabled, readBackOnly, value, reading>>

\* Slip: the bits of a byte are counted from one.
SetBitOffsetFromOne(c) ==
  \E b \in BitOf[c] :
    /\ \/ c \in Digital /\ b <= Bits /\ UNCHANGED clampError
          /\ bitOffset' = [bitOffset EXCEPT ![c] = b]
       \/ c \in Digital /\ b > Bits /\ Fails(c, "badParam") /\ UNCHANGED bitOffset
       \/ c \notin Digital /\ b # 0 /\ Fails(c, "notAllowed")
          /\ bitOffset' = [bitOffset EXCEPT ![c] = 0]
    /\ UNCHANGED <<address, width, enabled, readBackOnly, value, reading>>

SetBitOffset(c) ==
  \E b \in BitOf[c] :
    /\ \/ c \in Digital /\ b < Bits /\ UNCHANGED clampError
          /\ bitOffset' = [bitOffset EXCEPT ![c] = b]
       \/ c \in Digital /\ b >= Bits /\ Fails(c, "badParam") /\ UNCHANGED bitOffset
       \/ c \notin Digital /\ b # 0 /\ Fails(c, "notAllowed")
          /\ bitOffset' = [bitOffset EXCEPT ![c] = 0]
    /\ UNCHANGED <<address, width, enabled, readBackOnly, value, reading>>

\* Variables without an accessor, and Value, whose range is checked.
SetFlags(c) ==
  /\ \/ \E e \in EnabledOf[c] \ {enabled[c]} :
          enabled' = [enabled EXCEPT ![c] = e] /\ UNCHANGED readBackOnly
     \/ \E r \in ReadBackOf[c] \ {readBackOnly[c]} :
          readBackOnly' = [readBackOnly EXCEPT ![c] = r] /\ UNCHANGED enabled
  /\ UNCHANGED <<address, width, bitOffset, value, clampError, reading>>

SetValue(c) ==
  /\ c \in Outputs
  /\ \E v \in ValueOf[c] \ {value[c]} : value' = [value EXCEPT ![c] = v]
  /\ UNCHANGED <<address, width, bitOffset, enabled, readBackOnly, clampError, reading>>

Configure(c) ==
  \/ SetByteAddress(c) \/ SetByteWidth(c) \/ SetBitOffset(c)
  \/ SetFlags(c) \/ SetValue(c)

\* startup of every clamp: the configuration is kept in the database, inputs are
\* unknown, the width of analog clamps is two bytes, byte vectors are unset.
StartClamps ==
  /\ clampError' = [c \in Clamp |-> "none"]
  /\ width' = [c \in Clamp |-> IF c \in Analog THEN 2 ELSE width[c]]
  /\ value' = [c \in Clamp |-> IF c \in Special THEN <<>> ELSE value[c]]
  /\ reading' = [c \in Clamp |->
                   IF c \in Outputs \ Special THEN reading[c]
                   ELSE [val |-> Zero(c), state |-> "unknown"]]
  /\ UNCHANGED <<address, bitOffset, enabled, readBackOnly>>

-----------------------------------------------------------------------------
(* What a manager does with one clamp in its cycle.                        *)

\* A clamp that takes part loses the error it had.
Clear(c) == clampError' = [clampError EXCEPT ![c] = "none"]

\* A clamp left out, because it is disabled or its place is wrong: the value
\* and the time of an input stay, its state becomes bad.
LeaveOut(c, code) ==
  /\ Fails(c, code)
  /\ reading' = [reading EXCEPT ![c].state = IF KindOf[c] \in {"AI", "DI"} THEN "bad" ELSE @]

Read(c, image, state) ==
  /\ Clear(c)
  /\ reading' = [reading EXCEPT ![c] = [val |-> Fetch(c, image), state |-> state]]
=============================================================================
