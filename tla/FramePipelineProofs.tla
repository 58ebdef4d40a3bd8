------------------------ MODULE FramePipelineProofs ------------------------
(* The invariants of a frame, for every size, window and image.  First that *)
(* base64_encode_impl computes the standard encoding of every input,        *)
(* although its accumulator overflows: the loop only ever looks at the last *)
(* twelve bits of val, and those are the last bytes whatever the sign.      *)
(* Then the rest, from what each step of the capture holds.                 *)
EXTENDS FramePipeline, TLAPS

-----------------------------------------------------------------------------
(* The encoder.                                                             *)

EncodeTypeOK ==
    /\ data \in Seq(Byte) /\ pos \in 0 .. Len(data)
    /\ val \in Int32 /\ valb \in {-6, -4, -2}
    /\ out \in Seq(0 .. Pad)
    /\ coding \in BOOLEAN

(* While the loop runs: how many bits are pending, which they are, and the  *)
(* characters of the bytes taken so far.                                    *)
SoFar ==
    coding =>
      /\ valb = 2 * (pos % 3) - 6
      /\ Len(out) = pos + pos \div 3
      /\ pos % 3 = 1 => val % 4 = data[pos] % 4
      /\ pos % 3 = 2 => val % 16 = data[pos] % 16
      /\ \A j \in 1 .. Len(out) : out[j] = Standard(data, j)

EncodeInv == EncodeTypeOK /\ SoFar /\ EncodedCorrectly

-----------------------------------------------------------------------------
LEMMA Int32Ints == Int32 \subseteq Int
<1>1. MaxInt \in Int
  BY SMT DEF MaxInt
<1> QED
  BY <1>1, SMT DEF Int32

LEMMA ZeroInt32 == 0 \in Int32
<1>1. MaxInt \in Int /\ MaxInt >= 0
  BY SMT DEF MaxInt
<1> QED
  BY <1>1, SMT DEF Int32

(* What is left of val above the byte that is appended.                     *)
Upper(v) == IF v % 16777216 >= 8388608 THEN (v % 16777216) - 16777216 ELSE v % 16777216

(* Appending a byte keeps val an int and moves its low bits up, whatever    *)
(* the overflow does to the others (ImageProcessor.cpp:17).                 *)
LEMMA AppendedSplits ==
    ASSUME NEW v \in Int, NEW c \in Byte
    PROVE  /\ Appended(v, c) = Upper(v) * 256 + c
           /\ Upper(v) % 16 = v % 16 /\ Upper(v) % 4 = v % 4
           /\ Upper(v) \in Int /\ -8388608 <= Upper(v) /\ Upper(v) <= 8388607
<1>1. SUFFICES ASSUME NEW low \in Int, low = v % 16777216
               PROVE  /\ Appended(v, c) = Upper(v) * 256 + c
                      /\ Upper(v) % 16 = v % 16 /\ Upper(v) % 4 = v % 4
                      /\ Upper(v) \in Int /\ -8388608 <= Upper(v) /\ Upper(v) <= 8388607
  <2>1. v % 16777216 \in Int
    BY SMT
  <2> QED
    BY <2>1, SMT
<1>2. 0 <= low /\ low <= 16777215
  BY <1>1, SMT
<1>3. low % 16 = v % 16 /\ low % 4 = v % 4
  BY <1>1, SMT
<1>4. (low - 16777216) % 16 = low % 16 /\ (low - 16777216) % 4 = low % 4
  BY SMT
<1>5. Upper(v) = IF low >= 8388608 THEN low - 16777216 ELSE low
  BY <1>1, SMT DEF Upper
<1>6. Appended(v, c) = Upper(v) * 256 + c
  BY <1>1, <1>5, SMT DEF Appended
<1>7. Upper(v) \in Int /\ -8388608 <= Upper(v) /\ Upper(v) <= 8388607
  BY <1>2, <1>5, SMT
<1>8. Upper(v) % 16 = v % 16 /\ Upper(v) % 4 = v % 4
  BY <1>3, <1>4, <1>5, SMT
<1> QED
  BY <1>6, <1>7, <1>8, SMT

(* What the last twelve bits of x are if it is w * 256 + c.                 *)
LowBits(x, w, c) ==
    /\ x % 4 = c % 4
    /\ x % 16 = c % 16
    /\ (x \div 4) % 64 = c \div 4
    /\ (x \div 16) % 64 = (w % 4) * 16 + c \div 16
    /\ (x \div 64) % 64 = (w % 16) * 4 + c \div 64
    /\ (x \div 1) % 64 = c % 64

LEMMA Bits ==
    ASSUME NEW w \in Int, NEW c \in 0 .. 255
    PROVE  LowBits(w * 256 + c, w, c)
<1>1. (w * 256 + c) % 4 = c % 4 /\ (w * 256 + c) % 16 = c % 16
  BY SMT
<1>2. ((w * 256 + c) \div 4) % 64 = c \div 4
  BY SMT
<1>3. ((w * 256 + c) \div 16) % 64 = (w % 4) * 16 + c \div 16
  BY SMT
<1>4. ((w * 256 + c) \div 64) % 64 = (w % 16) * 4 + c \div 64
  BY SMT
<1>5. ((w * 256 + c) \div 1) % 64 = c % 64
  BY SMT
<1> QED
  BY <1>1, <1>2, <1>3, <1>4, <1>5, Zenon DEF LowBits

(* The characters that TakeByte and Finish read off the accumulator.        *)
LEMMA AppendedBits ==
    ASSUME NEW v \in Int, NEW c \in Byte
    PROVE  /\ Appended(v, c) \in Int32
           /\ Appended(v, c) % 4 = c % 4
           /\ Appended(v, c) % 16 = c % 16
           /\ Sextet(Appended(v, c), 2) = c \div 4
           /\ Sextet(Appended(v, c), 4) = (v % 4) * 16 + c \div 16
           /\ Sextet(Appended(v, c), 6) = (v % 16) * 4 + c \div 64
           /\ Sextet(Appended(v, c), 0) = c % 64
<1>1. /\ Appended(v, c) = Upper(v) * 256 + c
      /\ Upper(v) % 16 = v % 16 /\ Upper(v) % 4 = v % 4
      /\ Upper(v) \in Int /\ -8388608 <= Upper(v) /\ Upper(v) <= 8388607
  BY AppendedSplits, SMT
<1>2. c \in 0 .. 255 /\ Upper(v) \in Int
  BY <1>1, SMT DEF Byte
<1>e. Appended(v, c) = Upper(v) * 256 + c /\ Upper(v) % 16 = v % 16 /\ Upper(v) % 4 = v % 4
  BY <1>1, SMT
<1>3. Appended(v, c) \in Int32 /\ Appended(v, c) \in Int
  <2>1. MaxInt \in Int /\ -MaxInt - 1 <= Appended(v, c) /\ Appended(v, c) <= MaxInt
    BY <1>1, <1>2, SMT DEF MaxInt
  <2> QED
    BY <1>1, <1>2, <2>1, SMT DEF Int32
<1>4. \A x \in Int : /\ Sextet(x, 0) = (x \div 1) % 64 /\ Sextet(x, 2) = (x \div 4) % 64
                     /\ Sextet(x, 4) = (x \div 16) % 64 /\ Sextet(x, 6) = (x \div 64) % 64
  BY SMT DEF Sextet
<1>5. /\ Appended(v, c) % 4 = c % 4
      /\ Appended(v, c) % 16 = c % 16
      /\ (Appended(v, c) \div 4) % 64 = c \div 4
      /\ (Appended(v, c) \div 16) % 64 = (v % 4) * 16 + c \div 16
      /\ (Appended(v, c) \div 64) % 64 = (v % 16) * 4 + c \div 64
      /\ (Appended(v, c) \div 1) % 64 = c % 64
  <2>1. LowBits(Upper(v) * 256 + c, Upper(v), c)
    BY <1>2, Bits
  <2>2. LowBits(Appended(v, c), Upper(v), c)
    BY <1>e, <2>1, Zenon
  <2> QED
    BY <1>e, <2>2, Zenon DEF LowBits
<1> QED
  BY <1>3, <1>4, <1>5, Zenon

(* The four characters of the k-th group of three bytes.                    *)
LEMMA StandardGroup ==
    ASSUME NEW in \in Seq(Byte), NEW k \in Nat
    PROVE  /\ Standard(in, 4 * k + 1) = ByteAt(in, 3 * k + 1) \div 4
           /\ Standard(in, 4 * k + 2) =
                (ByteAt(in, 3 * k + 1) % 4) * 16 + ByteAt(in, 3 * k + 2) \div 16
           /\ Standard(in, 4 * k + 3) =
                IF 3 * k + 2 <= Len(in)
                THEN (ByteAt(in, 3 * k + 2) % 16) * 4 + ByteAt(in, 3 * k + 3) \div 64 ELSE Pad
           /\ Standard(in, 4 * k + 4) =
                IF 3 * k + 3 <= Len(in) THEN ByteAt(in, 3 * k + 3) % 64 ELSE Pad
<1> DEFINE g(i) == ByteAt(in, 3 * k + i)
<1>1. ASSUME NEW j \in Nat, j = 4 * k + 1
      PROVE  Standard(in, j) = g(1) \div 4
  <2>1. (j - 1) % 4 = 0 /\ (j - 1) \div 4 = k
    BY <1>1
  <2> QED
    BY <2>1, SMT DEF Standard
<1>2. ASSUME NEW j \in Nat, j = 4 * k + 2
      PROVE  Standard(in, j) = (g(1) % 4) * 16 + g(2) \div 16
  <2>1. (j - 1) % 4 = 1 /\ (j - 1) \div 4 = k
    BY <1>2
  <2> QED
    BY <2>1, SMT DEF Standard
<1>3. ASSUME NEW j \in Nat, j = 4 * k + 3
      PROVE  Standard(in, j) = IF 3 * k + 2 <= Len(in)
                               THEN (g(2) % 16) * 4 + g(3) \div 64 ELSE Pad
  <2>1. (j - 1) % 4 = 2 /\ (j - 1) \div 4 = k
    BY <1>3
  <2> QED
    BY <2>1, SMT DEF Standard
<1>4. ASSUME NEW j \in Nat, j = 4 * k + 4
      PROVE  Standard(in, j) = IF 3 * k + 3 <= Len(in) THEN g(3) % 64 ELSE Pad
  <2>1. (j - 1) % 4 = 3 /\ (j - 1) \div 4 = k
    BY <1>4
  <2> QED
    BY <2>1, SMT DEF Standard
<1> HIDE DEF g
<1>5. 4 * k + 1 \in Nat /\ 4 * k + 2 \in Nat /\ 4 * k + 3 \in Nat /\ 4 * k + 4 \in Nat
  OBVIOUS
<1> QED
  BY <1>1, <1>2, <1>3, <1>4, <1>5, Zenon DEF g

LEMMA ByteInside ==
    ASSUME NEW in \in Seq(Byte), NEW i \in 1 .. Len(in)
    PROVE  ByteAt(in, i) = in[i] /\ in[i] \in Byte
  BY DEF ByteAt

LEMMA ByteOutside ==
    ASSUME NEW in \in Seq(Byte), NEW i \in Int, i > Len(in)
    PROVE  ByteAt(in, i) = 0
  BY DEF ByteAt

(* One character more of the right ones.                                    *)
LEMMA OneMore ==
    ASSUME NEW in, NEW s \in Seq(0 .. Pad), NEW c \in 0 .. Pad,
           \A j \in 1 .. Len(s) : s[j] = Standard(in, j),
           c = Standard(in, Len(s) + 1)
    PROVE  /\ s \o <<c>> \in Seq(0 .. Pad)
           /\ Len(s \o <<c>>) = Len(s) + 1
           /\ \A j \in 1 .. Len(s \o <<c>>) : (s \o <<c>>)[j] = Standard(in, j)
<1>1. <<c>> \in Seq(0 .. Pad) /\ Len(<<c>>) = 1 /\ <<c>>[1] = c
  OBVIOUS
<1>2. s \o <<c>> \in Seq(0 .. Pad) /\ Len(s \o <<c>>) = Len(s) + 1
  BY <1>1
<1>3. ASSUME NEW j \in 1 .. Len(s) + 1
      PROVE  (s \o <<c>>)[j] = Standard(in, j)
  BY <1>1
<1> QED
  BY <1>2, <1>3
LEMMA OnePad ==
    ASSUME NEW in, NEW s \in Seq(0 .. Pad),
           \A j \in 1 .. Len(s) : s[j] = Standard(in, j),
           Pad = Standard(in, Len(s) + 1)
    PROVE  /\ s \o <<Pad>> \in Seq(0 .. Pad)
           /\ Len(s \o <<Pad>>) = Len(s) + 1
           /\ \A j \in 1 .. Len(s \o <<Pad>>) : (s \o <<Pad>>)[j] = Standard(in, j)
<1>1. ASSUME NEW c, c = Pad
      PROVE  /\ s \o <<c>> \in Seq(0 .. Pad)
             /\ Len(s \o <<c>>) = Len(s) + 1
             /\ \A j \in 1 .. Len(s \o <<c>>) : (s \o <<c>>)[j] = Standard(in, j)
  <2>1. c \in 0 .. Pad
    BY <1>1 DEF Pad
  <2>2. c = Standard(in, Len(s) + 1)
    BY <1>1, Zenon
  <2> QED
    BY <2>1, <2>2, OneMore, Zenon
<1> QED
  BY <1>1, Zenon

LEMMA TwoMore ==
    ASSUME NEW S, NEW s \in Seq(S), NEW x \in S, NEW y \in S
    PROVE  s \o <<x, y>> = (s \o <<x>>) \o <<y>>
<1>1. s \o <<x, y>> = Append(Append(s, x), y)
  OBVIOUS
<1>2. s \o <<x>> = Append(s, x) /\ Append(s, x) \in Seq(S)
  OBVIOUS
<1>3. Append(s, x) \o <<y>> = Append(Append(s, x), y)
  BY <1>2
<1> QED
  BY <1>1, <1>2, <1>3, Zenon

LEMMA Lengths == \A x, y : Len(<<x>>) = 1 /\ Len(<<x, y>>) = 2
  OBVIOUS

LEMMA SextetRange ==
    ASSUME NEW v \in Int, NEW n \in 0 .. 6
    PROVE  Sextet(v, n) \in 0 .. Pad
<1>1. PICK m \in {1, 2, 4, 8, 16, 32, 64} : Sextet(v, n) = (v \div m) % 64
  BY SMT DEF Sextet
<1> QED
  BY <1>1 DEF Pad
-----------------------------------------------------------------------------
LEMMA EncodeInitOK == EncodeInit => EncodeInv
<1> SUFFICES ASSUME EncodeInit
             PROVE  EncodeInv
  OBVIOUS
<1>1. EncodeTypeOK
  <2>1. << >> \in Seq(Byte) /\ << >> \in Seq(0 .. Pad) /\ 0 \in 0 .. Len(<< >>)
    OBVIOUS
  <2> QED
    BY <2>1, ZeroInt32, Zenon DEF EncodeInit, EncodeTypeOK
<1>2. SoFar /\ EncodedCorrectly
  BY DEF EncodeInit, SoFar, EncodedCorrectly
<1> QED
  BY <1>1, <1>2 DEF EncodeInv

LEMMA BeginOK ==
    ASSUME EncodeInv, NEW in \in Seq(Byte), Begin(in)
    PROVE  EncodeInv'
<1>1. /\ coding' = TRUE /\ data' = in /\ out' = << >>
      /\ pos' = 0 /\ val' = 0 /\ valb' = -6
  BY DEF Begin
<1>2. EncodeTypeOK'
  BY <1>1, ZeroInt32 DEF EncodeTypeOK, Byte, Pad
<1>3. SoFar' /\ EncodedCorrectly'
  BY <1>1 DEF SoFar, EncodedCorrectly
<1> QED
  BY <1>2, <1>3 DEF EncodeInv

LEMMA TakeByteOK ==
    ASSUME EncodeInv, TakeByte
    PROVE  EncodeInv'
<1> DEFINE c == data[pos + 1]
           k == pos \div 3
           v == Appended(val, c)
<1>1. /\ coding /\ pos < Len(data) /\ pos' = pos + 1 /\ val' = v
      /\ out' = out \o Pushed(v, valb + 8)
      /\ valb' = valb + 8 - 6 * Len(Pushed(v, valb + 8))
      /\ data' = data /\ coding' = coding
  BY DEF TakeByte
<1>t. /\ data \in Seq(Byte) /\ pos \in 0 .. Len(data) /\ val \in Int
      /\ out \in Seq(0 .. Pad) /\ valb \in Int
  BY Int32Ints DEF EncodeInv, EncodeTypeOK
<1>s. /\ valb = 2 * (pos % 3) - 6
      /\ Len(out) = pos + pos \div 3
      /\ pos % 3 = 1 => val % 4 = data[pos] % 4
      /\ pos % 3 = 2 => val % 16 = data[pos] % 16
      /\ \A j \in 1 .. Len(out) : out[j] = Standard(data, j)
  BY <1>1, Zenon DEF EncodeInv, SoFar
<1>2. /\ data \in Seq(Byte) /\ pos \in 0 .. Len(data) /\ val \in Int
      /\ out \in Seq(0 .. Pad) /\ valb \in Int
      /\ valb = 2 * (pos % 3) - 6
      /\ Len(out) = pos + pos \div 3
      /\ pos % 3 = 1 => val % 4 = data[pos] % 4
      /\ pos % 3 = 2 => val % 16 = data[pos] % 16
      /\ \A j \in 1 .. Len(out) : out[j] = Standard(data, j)
  BY <1>t, <1>s, Zenon
<1>3. c \in Byte /\ c \in 0 .. 255 /\ ByteAt(data, pos + 1) = c
  <2>1. pos + 1 \in 1 .. Len(data)
    BY <1>1, <1>t
  <2>2. ByteAt(data, pos + 1) = c /\ c \in Byte
    BY <1>t, <2>1, ByteInside, Zenon
  <2> QED
    BY <2>2 DEF Byte
<1>n. /\ pos \in Nat /\ Len(out) \in Nat /\ val \in Int
      /\ valb = 2 * (pos % 3) - 6
      /\ Len(out) = pos + pos \div 3
  BY <1>t, <1>s
<1>v. v \in Int /\ \A n \in 0 .. 6 : Sextet(v, n) \in 0 .. Pad
  <2>1. v \in Int
    BY <1>t, <1>3, AppendedBits, Int32Ints, Zenon
  <2> QED
    BY <2>1, SextetRange, Zenon
<1>4. /\ v \in Int32 /\ v % 4 = c % 4 /\ v % 16 = c % 16
      /\ Sextet(v, 2) = c \div 4
      /\ Sextet(v, 4) = (val % 4) * 16 + c \div 16
      /\ Sextet(v, 6) = (val % 16) * 4 + c \div 64
      /\ Sextet(v, 0) = c % 64
  BY <1>2, <1>3, AppendedBits, ZenonT(60)
<1>5. k \in Nat /\ pos = 3 * k + (pos % 3) /\ pos % 3 \in 0 .. 2
  BY <1>2
<1>g. /\ Standard(data, 4 * k + 1) = ByteAt(data, 3 * k + 1) \div 4
      /\ Standard(data, 4 * k + 2) =
           (ByteAt(data, 3 * k + 1) % 4) * 16 + ByteAt(data, 3 * k + 2) \div 16
      /\ 3 * k + 2 <= Len(data) =>
           Standard(data, 4 * k + 3) =
             (ByteAt(data, 3 * k + 2) % 16) * 4 + ByteAt(data, 3 * k + 3) \div 64
      /\ 3 * k + 3 <= Len(data) =>
           Standard(data, 4 * k + 4) = ByteAt(data, 3 * k + 3) % 64
  BY <1>2, <1>5, StandardGroup, Zenon
<1> HIDE DEF c, k, v
<1>6. SUFFICES /\ valb' = 2 * ((pos + 1) % 3) - 6
               /\ out' \in Seq(0 .. Pad)
               /\ Len(out') = (pos + 1) + (pos + 1) \div 3
               /\ \A j \in 1 .. Len(out') : out'[j] = Standard(data, j)
  <2>1. EncodeTypeOK'
    <3>1. pos' \in 0 .. Len(data')
      <4>1. pos' = pos + 1 /\ data' = data /\ pos < Len(data)
        BY <1>1, Zenon
      <4>2. pos \in Nat /\ Len(data) \in Nat
        BY <1>t
      <4>3. pos + 1 \in 0 .. Len(data)
        BY <4>1, <4>2
      <4> QED
        BY <4>1, <4>3, Zenon
    <3>2. valb' \in {-6, -4, -2}
      BY <1>t, <1>6
    <3> QED
      BY <1>1, <1>2, <1>4, <1>6, <3>1, <3>2 DEF EncodeTypeOK
  <2>2. SoFar'
    BY <1>1, <1>4, <1>6 DEF SoFar, c
  <2>3. EncodedCorrectly'
    BY <1>1 DEF EncodedCorrectly
  <2> QED
    BY <2>1, <2>2, <2>3 DEF EncodeInv
<1>7. CASE pos % 3 = 0
  <2>1. valb + 8 = 2
    BY <1>n, <1>7
  <2>2. Pushed(v, valb + 8) = << Sextet(v, 2) >>
    BY <2>1 DEF Pushed
  <2>3. Len(out) = 4 * k /\ pos = 3 * k
    BY <1>n, <1>5, <1>7 DEF k
  <2>4. Standard(data, Len(out) + 1) = c \div 4
    BY <1>3, <1>g, <2>3, Zenon
  <2>5. Sextet(v, 2) = Standard(data, Len(out) + 1) /\ Sextet(v, 2) \in 0 .. Pad
    <3>1. 2 \in 0 .. 6
      OBVIOUS
    <3> QED
      BY <1>4, <1>v, <2>4, <3>1, Zenon
  <2>6. /\ out' \in Seq(0 .. Pad) /\ Len(out') = Len(out) + 1
        /\ \A j \in 1 .. Len(out') : out'[j] = Standard(data, j)
    <3>1. out' = out \o << Sextet(v, 2) >>
      BY <1>1, <2>2, Zenon
    <3> QED
      BY <1>t, <1>s, <2>5, <3>1, OneMore, Zenon
  <2>7. valb' = -4
    <3>1. Len(Pushed(v, valb + 8)) = 1
      BY <2>2, Lengths, Zenon
    <3>2. valb' = valb + 8 - 6 * Len(Pushed(v, valb + 8))
      BY <1>1, Zenon
    <3> HIDE <2>1
    <3>3. ASSUME NEW n, n = Len(Pushed(v, valb + 8))
          PROVE  valb' = valb + 8 - 6 * n
      BY <3>2, <3>3, Zenon
    <3>4. valb' = valb + 8 - 6 * 1
      BY <3>1, <3>3, Zenon
    <3> QED
      BY <1>t, <2>1, <3>4
  <2> QED
    BY <1>5, <2>3, <2>6, <2>7
<1>8. CASE pos % 3 = 1
  <2>1. valb + 8 = 4
    BY <1>n, <1>8
  <2>2. Pushed(v, valb + 8) = << Sextet(v, 4) >>
    BY <2>1 DEF Pushed
  <2>3. Len(out) = 4 * k + 1 /\ pos = 3 * k + 1 /\ pos + 1 = 3 * k + 2 /\ Len(out) + 1 = 4 * k + 2
    BY <1>n, <1>5, <1>8 DEF k
  <2>4. ByteAt(data, pos) = data[pos] /\ data[pos] \in Byte
    <3>1. pos \in 1 .. Len(data)
      BY <1>t, <1>8
    <3> QED
      BY <1>t, <3>1, ByteInside, Zenon
  <2>5. Standard(data, Len(out) + 1) = (data[pos] % 4) * 16 + c \div 16
    BY <1>3, <1>g, <2>3, <2>4, Zenon
  <2>6. Sextet(v, 4) = Standard(data, Len(out) + 1)
    BY <1>4, <1>s, <1>8, <2>5, Zenon
  <2>7. Sextet(v, 4) \in 0 .. Pad
    BY <1>v, SMT
  <2>8. /\ out' \in Seq(0 .. Pad) /\ Len(out') = Len(out) + 1
        /\ \A j \in 1 .. Len(out') : out'[j] = Standard(data, j)
    <3>1. out' = out \o << Sextet(v, 4) >>
      BY <1>1, <2>2, Zenon
    <3> QED
      BY <1>t, <1>s, <2>6, <2>7, <3>1, OneMore, Zenon
  <2>9. valb' = -2
    <3>1. Len(Pushed(v, valb + 8)) = 1
      BY <2>2, Lengths, Zenon
    <3>2. valb' = valb + 8 - 6 * Len(Pushed(v, valb + 8))
      BY <1>1, Zenon
    <3> HIDE <2>1
    <3>3. ASSUME NEW n, n = Len(Pushed(v, valb + 8))
          PROVE  valb' = valb + 8 - 6 * n
      BY <3>2, <3>3, Zenon
    <3>4. valb' = valb + 8 - 6 * 1
      BY <3>1, <3>3, Zenon
    <3> QED
      BY <1>t, <2>1, <3>4
  <2> QED
    BY <1>5, <2>3, <2>8, <2>9
<1>9. CASE pos % 3 = 2
  <2>1. valb + 8 = 6
    BY <1>n, <1>9
  <2>2. Pushed(v, valb + 8) = << Sextet(v, 6), Sextet(v, 0) >>
    BY <2>1 DEF Pushed
  <2>3. /\ Len(out) = 4 * k + 2 /\ pos = 3 * k + 2 /\ pos + 1 = 3 * k + 3
        /\ Len(out) + 1 = 4 * k + 3 /\ (Len(out) + 1) + 1 = 4 * k + 4
    BY <1>n, <1>5, <1>9 DEF k
  <2>4. ByteAt(data, pos) = data[pos] /\ data[pos] \in Byte
    <3>1. pos \in 1 .. Len(data)
      BY <1>t, <1>9
    <3> QED
      BY <1>t, <3>1, ByteInside, Zenon
  <2>5. 3 * k + 2 <= Len(data) /\ 3 * k + 3 <= Len(data)
    BY <1>1, <1>t, <1>5, <2>3
  <2>6. Standard(data, Len(out) + 1) = (data[pos] % 16) * 4 + c \div 64
    BY <1>3, <1>g, <2>3, <2>4, <2>5, Zenon
  <2>7. Sextet(v, 6) = Standard(data, Len(out) + 1)
    BY <1>4, <1>s, <1>9, <2>6, Zenon
  <2>8. Sextet(v, 0) = Standard(data, (Len(out) + 1) + 1)
    BY <1>3, <1>4, <1>g, <2>3, <2>5, Zenon
  <2>9. Sextet(v, 6) \in 0 .. Pad /\ Sextet(v, 0) \in 0 .. Pad
    BY <1>v, SMT
  <2> DEFINE s == out \o << Sextet(v, 6) >>
  <2>10. /\ s \in Seq(0 .. Pad) /\ Len(s) = Len(out) + 1
         /\ \A j \in 1 .. Len(s) : s[j] = Standard(data, j)
    BY <1>t, <1>s, <2>7, <2>9, OneMore, Zenon
  <2>11. out' = s \o << Sextet(v, 0) >>
    <3>1. out' = out \o << Sextet(v, 6), Sextet(v, 0) >>
      BY <1>1, <2>2, Zenon
    <3>2. ASSUME NEW x \in 0 .. Pad, NEW y \in 0 .. Pad
          PROVE  out \o << x, y >> = (out \o << x >>) \o << y >>
      <4> DEFINE S == 0 .. Pad
      <4>1. x \in S /\ y \in S /\ out \in Seq(S)
        BY <1>t
      <4> HIDE DEF S
      <4> QED
        BY <4>1, TwoMore
    <3> QED
      BY <2>9, <3>1, <3>2, Zenon
  <2> HIDE DEF s
  <2>12. /\ out' \in Seq(0 .. Pad) /\ Len(out') = Len(s) + 1
         /\ \A j \in 1 .. Len(out') : out'[j] = Standard(data, j)
    <3>1. Sextet(v, 0) = Standard(data, Len(s) + 1)
      BY <2>8, <2>10, Zenon
    <3>2. ASSUME NEW x \in 0 .. Pad, x = Standard(data, Len(s) + 1)
          PROVE  /\ s \o <<x>> \in Seq(0 .. Pad) /\ Len(s \o <<x>>) = Len(s) + 1
                 /\ \A j \in 1 .. Len(s \o <<x>>) : (s \o <<x>>)[j] = Standard(data, j)
      BY <2>10, <3>2, OneMore, ZenonT(60)
    <3> QED
      BY <2>9, <2>11, <3>1, <3>2, Zenon
  <2>13. valb' = -6
    <3>1. Len(Pushed(v, valb + 8)) = 2
      BY <2>2, Lengths, Zenon
    <3>2. valb' = valb + 8 - 6 * Len(Pushed(v, valb + 8))
      BY <1>1, Zenon
    <3> HIDE <2>1
    <3>3. ASSUME NEW n, n = Len(Pushed(v, valb + 8))
          PROVE  valb' = valb + 8 - 6 * n
      BY <3>2, <3>3, Zenon
    <3>4. valb' = valb + 8 - 6 * 2
      BY <3>1, <3>3, Zenon
    <3> QED
      BY <1>t, <2>1, <3>4
  <2> QED
    BY <1>5, <2>3, <2>10, <2>12, <2>13
<1> QED
  BY <1>5, <1>7, <1>8, <1>9

LEMMA FinishOK ==
    ASSUME EncodeInv, Finish
    PROVE  EncodeInv'
<1> DEFINE k == pos \div 3
           chars == out \o Last(val, valb)
<1>1. /\ coding /\ pos = Len(data) /\ out' = chars \o Padding(Len(chars)) /\ coding' = FALSE
      /\ data' = data /\ pos' = pos /\ val' = val /\ valb' = valb
  BY DEF Finish
<1>t. /\ data \in Seq(Byte) /\ pos \in Nat /\ val \in Int
      /\ out \in Seq(0 .. Pad)
  BY Int32Ints DEF EncodeInv, EncodeTypeOK
<1>s. /\ valb = 2 * (pos % 3) - 6
      /\ Len(out) = pos + pos \div 3
      /\ pos % 3 = 1 => val % 4 = data[pos] % 4
      /\ pos % 3 = 2 => val % 16 = data[pos] % 16
      /\ \A j \in 1 .. Len(out) : out[j] = Standard(data, j)
  BY <1>1, Zenon DEF EncodeInv, SoFar
<1>2. /\ data \in Seq(Byte) /\ pos \in Nat /\ val \in Int
      /\ out \in Seq(0 .. Pad)
      /\ valb = 2 * (pos % 3) - 6
      /\ Len(out) = pos + pos \div 3
      /\ pos % 3 = 1 => val % 4 = data[pos] % 4
      /\ pos % 3 = 2 => val % 16 = data[pos] % 16
      /\ \A j \in 1 .. Len(out) : out[j] = Standard(data, j)
  BY <1>t, <1>s, Zenon
<1>3. k \in Nat /\ pos = 3 * k + (pos % 3) /\ pos % 3 \in 0 .. 2
  BY <1>2
<1>4. SUFFICES /\ out' \in Seq(0 .. Pad)
               /\ Len(out') = 4 * ((pos + 2) \div 3)
               /\ \A j \in 1 .. Len(out') : out'[j] = Standard(data, j)
  <2>1. EncodeTypeOK'
    BY <1>1, <1>4 DEF EncodeInv, EncodeTypeOK
  <2>2. SoFar' /\ EncodedCorrectly'
    BY <1>1, <1>4 DEF SoFar, EncodedCorrectly
  <2> QED
    BY <2>1, <2>2 DEF EncodeInv
<1>5. /\ Sextet(Appended(val, 0), 4) = (val % 4) * 16
      /\ Sextet(Appended(val, 0), 6) = (val % 16) * 4
  <2>1. 0 \in Byte
    BY DEF Byte
  <2>2. /\ Sextet(Appended(val, 0), 4) = (val % 4) * 16 + 0 \div 16
        /\ Sextet(Appended(val, 0), 6) = (val % 16) * 4 + 0 \div 64
    BY <1>t, <2>1, AppendedBits, Zenon
  <2>3. /\ (val % 4) * 16 + 0 \div 16 = (val % 4) * 16
        /\ (val % 16) * 4 + 0 \div 64 = (val % 16) * 4
    BY <1>t
  <2> QED
    BY <2>2, <2>3, Zenon
<1>g. /\ Standard(data, 4 * k + 2) =
           (ByteAt(data, 3 * k + 1) % 4) * 16 + ByteAt(data, 3 * k + 2) \div 16
      /\ Standard(data, 4 * k + 3) =
           IF 3 * k + 2 <= Len(data)
           THEN (ByteAt(data, 3 * k + 2) % 16) * 4 + ByteAt(data, 3 * k + 3) \div 64 ELSE Pad
      /\ Standard(data, 4 * k + 4) =
           IF 3 * k + 3 <= Len(data) THEN ByteAt(data, 3 * k + 3) % 64 ELSE Pad
  BY <1>2, <1>3, StandardGroup, Zenon
<1>n. /\ pos \in Nat /\ Len(out) \in Nat /\ valb = 2 * (pos % 3) - 6 /\ Len(out) = pos + pos \div 3
  BY <1>t, <1>s
<1>v. /\ Sextet(Appended(val, 0), 4) \in 0 .. Pad
      /\ Sextet(Appended(val, 0), 6) \in 0 .. Pad
      /\ Pad \in 0 .. Pad
  <2>1. 0 \in Byte
    BY DEF Byte
  <2>2. Appended(val, 0) \in Int
    BY <1>t, <2>1, AppendedBits, Int32Ints, Zenon
  <2>3. 4 \in 0 .. 6 /\ 6 \in 0 .. 6
    OBVIOUS
  <2>4. Pad \in 0 .. Pad
    BY DEF Pad
  <2> QED
    BY <2>2, <2>3, <2>4, SextetRange, Zenon
<1>p. Pad \in 0 .. Pad
  BY <1>v, Zenon
<1> HIDE DEF k
<1>6. CASE pos % 3 = 0
  <2>1. Last(val, valb) = << >>
    BY <1>n, <1>6 DEF Last
  <2>2. out \o << >> = out
    BY <1>t
  <2>3. chars = out
    BY <2>1, <2>2, Zenon
  <2>4. Len(out) = 4 * k /\ (4 - (Len(out) % 4)) % 4 = 0
    BY <1>n, <1>3, <1>6 DEF k
  <2>5. Padding(Len(out)) = << >>
    BY <2>4 DEF Padding
  <2>6. out' = out
    BY <1>1, <2>2, <2>3, <2>5, Zenon
  <2>7. Len(out) = 4 * ((pos + 2) \div 3)
    BY <1>3, <1>6, <2>4
  <2> QED
    BY <1>t, <1>s, <2>6, <2>7, Zenon
<1>7. CASE pos % 3 = 1
  <2> DEFINE x == Sextet(Appended(val, 0), 4)
  <2>1. Last(val, valb) = << x >>
    <3>1. valb > -6 /\ valb + 8 = 4
      BY <1>n, <1>7
    <3> QED
      BY <3>1 DEF Last
  <2>2. /\ Len(out) = 4 * k + 1 /\ pos = 3 * k + 1 /\ pos + 1 = 3 * k + 2
        /\ Len(out) + 1 = 4 * k + 2 /\ (Len(out) + 1) + 1 = 4 * k + 3
        /\ ((Len(out) + 1) + 1) + 1 = 4 * k + 4
    BY <1>n, <1>3, <1>7 DEF k
  <2>3. ByteAt(data, pos) = data[pos] /\ data[pos] \in 0 .. 255
    <3>1. pos \in 1 .. Len(data)
      BY <1>1, <1>t, <1>7
    <3> QED
      BY <1>t, <3>1, ByteInside, Zenon DEF Byte
  <2>4. ByteAt(data, pos + 1) = 0
    BY <1>1, <1>t, ByteOutside
  <2>5. Standard(data, Len(out) + 1) = (data[pos] % 4) * 16 + 0 \div 16
    BY <1>g, <2>2, <2>3, <2>4, Zenon
  <2>6. x = Standard(data, Len(out) + 1)
    <3>1. (data[pos] % 4) * 16 + 0 \div 16 = (data[pos] % 4) * 16
      BY <2>3
    <3> QED
      BY <1>5, <1>s, <1>7, <2>5, <3>1, Zenon
  <2>7. ~(3 * k + 2 <= Len(data)) /\ ~(3 * k + 3 <= Len(data))
    BY <1>1, <1>3, <2>2
  <2>8. /\ Pad = Standard(data, (Len(out) + 1) + 1)
        /\ Pad = Standard(data, ((Len(out) + 1) + 1) + 1)
    BY <1>g, <2>2, <2>7, Zenon
  <2>9. x \in 0 .. Pad
    BY <1>v, Zenon
  <2> HIDE DEF x
  <2> DEFINE s == out \o << x >>
             t == s \o << Pad >>
  <2>10. /\ s \in Seq(0 .. Pad) /\ Len(s) = Len(out) + 1
         /\ \A j \in 1 .. Len(s) : s[j] = Standard(data, j)
    BY <1>t, <1>s, <2>6, <2>9, OneMore, Zenon
  <2>11. chars = s
    BY <2>1, Zenon
  <2>12. Padding(Len(s)) = << Pad, Pad >>
    <3>1. (4 - (Len(s) % 4)) % 4 = 2
      BY <1>3, <2>2, <2>10
    <3> QED
      BY <3>1 DEF Padding
  <2> HIDE DEF s
  <2>13. out' = t \o << Pad >>
    <3>1. s \o << Pad, Pad >> = (s \o << Pad >>) \o << Pad >>
      <4> DEFINE S == 0 .. Pad
      <4>1. Pad \in S /\ s \in Seq(S)
        BY <1>p, <2>10, Zenon
      <4> HIDE DEF S
      <4> QED
        BY <4>1, TwoMore
    <3> QED
      BY <1>1, <2>11, <2>12, <3>1, Zenon
  <2>14. /\ t \in Seq(0 .. Pad) /\ Len(t) = Len(s) + 1
         /\ \A j \in 1 .. Len(t) : t[j] = Standard(data, j)
    <3>1. Pad = Standard(data, Len(s) + 1)
      BY <2>8, <2>10, Zenon
    <3> QED
      BY <2>10, <3>1, OnePad, Zenon
  <2> HIDE DEF t
  <2>15. /\ out' \in Seq(0 .. Pad) /\ Len(out') = Len(t) + 1
         /\ \A j \in 1 .. Len(out') : out'[j] = Standard(data, j)
    <3>1. Pad = Standard(data, Len(t) + 1)
      BY <2>8, <2>10, <2>14, Zenon
    <3> QED
      BY <2>13, <2>14, <3>1, OnePad, Zenon
  <2>16. Len(out') = 4 * ((pos + 2) \div 3)
    BY <1>3, <2>2, <2>10, <2>14, <2>15
  <2> QED
    BY <2>15, <2>16, Zenon
<1>8. CASE pos % 3 = 2
  <2> DEFINE x == Sextet(Appended(val, 0), 6)
  <2>1. Last(val, valb) = << x >>
    <3>1. valb > -6 /\ valb + 8 = 6
      BY <1>n, <1>8
    <3> QED
      BY <3>1 DEF Last
  <2>2. /\ Len(out) = 4 * k + 2 /\ pos = 3 * k + 2 /\ pos + 1 = 3 * k + 3
        /\ Len(out) + 1 = 4 * k + 3 /\ (Len(out) + 1) + 1 = 4 * k + 4
    BY <1>n, <1>3, <1>8 DEF k
  <2>3. ByteAt(data, pos) = data[pos] /\ data[pos] \in 0 .. 255
    <3>1. pos \in 1 .. Len(data)
      BY <1>1, <1>t, <1>8
    <3> QED
      BY <1>t, <3>1, ByteInside, Zenon DEF Byte
  <2>4. ByteAt(data, pos + 1) = 0
    BY <1>1, <1>t, ByteOutside
  <2>5. 3 * k + 2 <= Len(data) /\ ~(3 * k + 3 <= Len(data))
    BY <1>1, <1>3, <2>2
  <2>6. Standard(data, Len(out) + 1) = (data[pos] % 16) * 4 + 0 \div 64
    BY <1>g, <2>2, <2>3, <2>4, <2>5, Zenon
  <2>7. x = Standard(data, Len(out) + 1)
    <3>1. (data[pos] % 16) * 4 + 0 \div 64 = (data[pos] % 16) * 4
      BY <2>3
    <3> QED
      BY <1>5, <1>s, <1>8, <2>6, <3>1, Zenon
  <2>8. Pad = Standard(data, (Len(out) + 1) + 1)
    BY <1>g, <2>2, <2>5, Zenon
  <2>9. x \in 0 .. Pad
    BY <1>v, Zenon
  <2> HIDE DEF x
  <2> DEFINE s == out \o << x >>
  <2>10. /\ s \in Seq(0 .. Pad) /\ Len(s) = Len(out) + 1
         /\ \A j \in 1 .. Len(s) : s[j] = Standard(data, j)
    BY <1>t, <1>s, <2>7, <2>9, OneMore, Zenon
  <2>11. chars = s
    BY <2>1, Zenon
  <2>12. Padding(Len(s)) = << Pad >>
    <3>1. (4 - (Len(s) % 4)) % 4 = 1
      BY <1>3, <2>2, <2>10
    <3> QED
      BY <3>1 DEF Padding
  <2> HIDE DEF s
  <2>13. out' = s \o << Pad >>
    BY <1>1, <2>11, <2>12, Zenon
  <2>14. /\ out' \in Seq(0 .. Pad) /\ Len(out') = Len(s) + 1
         /\ \A j \in 1 .. Len(out') : out'[j] = Standard(data, j)
    <3>1. Pad = Standard(data, Len(s) + 1)
      BY <2>8, <2>10, Zenon
    <3> QED
      BY <2>10, <2>13, <3>1, OnePad, Zenon
  <2>15. Len(out') = 4 * ((pos + 2) \div 3)
    BY <1>3, <2>2, <2>10, <2>14
  <2> QED
    BY <2>14, <2>15, Zenon
<1> QED
  BY <1>3, <1>6, <1>7, <1>8

LEMMA EncodeStutters ==
    ASSUME EncodeInv, UNCHANGED encodeVars
    PROVE  EncodeInv'
  BY DEF EncodeInv, EncodeTypeOK, SoFar, EncodedCorrectly, encodeVars

(* base64_encode_impl returns the standard encoding of every vector of      *)
(* bytes, of whatever length, one call after another                        *)
(* (ImageProcessor.cpp:13-31).                                              *)
THEOREM EncoderIsStandard == EncodeSpec => []EncodedCorrectly
<1>1. EncodeInit => EncodeInv
  BY EncodeInitOK
<1>2. EncodeInv /\ [(\E in \in Seq(Byte) : Begin(in)) \/ TakeByte \/ Finish]_encodeVars => EncodeInv'
  BY BeginOK, TakeByteOK, FinishOK, EncodeStutters
<1>3. EncodeInv => EncodedCorrectly
  BY DEF EncodeInv
<1> QED
  BY <1>1, <1>2, <1>3, PTL DEF EncodeSpec

-----------------------------------------------------------------------------
(* The frame.                                                               *)

PipelineTypeOK ==
    /\ step \in Steps
    /\ hwnd \in {NULL, Window} /\ target \in {NULL, Window}
    /\ size \in Nat \X Nat /\ pixels \in Nat
    /\ held \subseteq Handles \cup {"refused"}
    /\ buffer \in BOOLEAN /\ compressor \in BOOLEAN
    /\ shown \in {"none", "screen", "window", "area"}
    /\ closed \in BOOLEAN /\ exposures \in Nat

(* Which handles a capture may hold at each of its steps: each return's own *)
(* list releases just those.  The output buffer is there from the           *)
(* compression to the copy.                                                 *)
HoldingInv ==
    /\ step \in {"measure", "memory"} => held \cap Handles \subseteq {"screen"}
    /\ step = "bitmap" => held \cap Handles \subseteq {"screen", "memory"}
    /\ step \notin {"measure", "memory", "bitmap", "draw", "read", "release"} =>
         held \cap Handles = {}
    /\ step \notin {"compressed", "failed"} => buffer = FALSE
    /\ step = "end" => compressor = FALSE

(* The buffer belongs to the size it is kept with: sizes change only while  *)
(* it is empty.                                                             *)
LayoutInv ==
    /\ step \in {"open", "measure", "memory", "bitmap", "draw", "read", "reread"} =>
         pixels = 0
    /\ pixels = 0 \/ pixels = RowPitch(Width) * Height
    /\ step = "compress" => pixels # 0 /\ Height # 0

(* A capture without a window goes on only with the full screen selected,   *)
(* and the size of a closed window is measured no more: a capture that drew *)
(* it once has no successor that gets as far.                               *)
SelectionInv ==
    /\ step \in {"open", "measure", "memory", "bitmap", "draw"} /\ target = NULL => hwnd = NULL
    /\ step \in {"start", "waiting"} => shown = "none"
    /\ exposures > 0 => closed
    /\ exposures = 1 /\ target # NULL => step \notin {"memory", "bitmap", "draw"}
    /\ OnlyWhatIsSelected

IInv == PipelineTypeOK /\ HoldingInv /\ LayoutInv /\ SelectionInv /\ EncodeInv

-----------------------------------------------------------------------------
(* A row as GetDIBits writes it fits the pitch of line 152, and is that     *)
(* pitch exactly (CaptureManager.cpp:152).                                  *)
LEMMA PitchIsStride ==
    ASSUME NEW w \in Nat
    PROVE  RowPitch(w) = Stride(w) /\ RowPitch(w) \in Nat /\ w * 3 <= RowPitch(w)
  BY SMT DEF RowPitch, Stride

LEMMA RowsFit ==
    ASSUME NEW a \in Nat, NEW b \in Nat, NEW h \in Nat, a <= b
    PROVE  h * a <= h * b
  BY SMT

LEMMA LayoutMeans ==
    ASSUME PipelineTypeOK, LayoutInv
    PROVE  BufferLayout
<1>1. Width \in Nat /\ Height \in Nat /\ pixels \in Nat
  BY DEF PipelineTypeOK, Width, Height
<1>2. RowPitch(Width) = Stride(Width) /\ RowPitch(Width) \in Nat /\ Width * 3 <= RowPitch(Width)
  BY <1>1, PitchIsStride
<1>3. pixels > 0 => Stride(Width) * Height <= pixels
  <2>1. pixels = 0 \/ pixels = RowPitch(Width) * Height
    BY DEF LayoutInv
  <2> QED
    BY <1>1, <1>2, <2>1
<1>4. ASSUME step = "compress"
      PROVE  /\ (Height - 1) * CompressorPitch(Width) + 3 * Width <= pixels
             /\ Width % 4 = 0 => CompressorPitch(Width) = Stride(Width)
  <2>1. pixels = RowPitch(Width) * Height
    BY <1>4 DEF LayoutInv
  <2>2. Width * 3 \in Nat /\ Height * (Width * 3) <= Height * RowPitch(Width)
    BY <1>1, <1>2, RowsFit
  <2>3. (Height - 1) * (Width * 3) + 3 * Width = Height * (Width * 3)
    BY <1>1, SMT
  <2>4. Height * RowPitch(Width) = RowPitch(Width) * Height
    BY <1>1, <1>2
  <2>5. (Height - 1) * CompressorPitch(Width) + 3 * Width <= pixels
    <3>1. (Height - 1) * (Width * 3) + 3 * Width <= pixels
      BY <1>1, <1>2, <2>1, <2>2, <2>3, <2>4
    <3> QED
      BY <3>1 DEF CompressorPitch
  <2>6. Width % 4 = 0 => Width * 3 = ((Width * 24 + 31) \div 32) * 4
    BY <1>1, SMT
  <2> QED
    BY <2>5, <2>6 DEF CompressorPitch, Stride
<1> QED
  BY <1>3, <1>4 DEF BufferLayout

LEMMA InvMeans == IInv => TypeOK /\ NothingHeld /\ BufferLayout /\ OnlyWhatIsSelected /\ EncodedCorrectly
<1> SUFFICES ASSUME IInv
             PROVE  TypeOK /\ NothingHeld /\ BufferLayout /\ OnlyWhatIsSelected /\ EncodedCorrectly
  OBVIOUS
<1>1. TypeOK
  BY Zenon DEF IInv, PipelineTypeOK, EncodeInv, EncodeTypeOK, TypeOK
<1>2. NothingHeld
  BY DEF IInv, HoldingInv, NothingHeld
<1>3. BufferLayout
  BY LayoutMeans DEF IInv
<1> QED
  BY <1>1, <1>2, <1>3 DEF IInv, SelectionInv, EncodeInv
-----------------------------------------------------------------------------
LEMMA InitOK == Init => IInv
<1> SUFFICES ASSUME Init
             PROVE  IInv
  OBVIOUS
<1>1. EncodeInv
  BY EncodeInitOK DEF Init
<1>2. PipelineTypeOK
  BY DEF Init, PipelineTypeOK, Steps, Handles
<1>3. HoldingInv /\ LayoutInv /\ SelectionInv
  BY DEF Init, HoldingInv, LayoutInv, SelectionInv, OnlyWhatIsSelected
<1> QED
  BY <1>1, <1>2, <1>3 DEF IInv

(* Every action but Encode and Encoding leaves the encoder alone.           *)
LEMMA EncoderOK ==
    ASSUME IInv, [Next]_vars
    PROVE  EncodeInv'
<1>1. EncodeInv
  BY DEF IInv
<1>2. UNCHANGED encodeVars => EncodeInv'
  BY <1>1, EncodeStutters
<1>3. CASE Encode
  <2>1. PICK jpeg \in Jpegs : Begin(jpeg)
    BY <1>3 DEF Encode
  <2>2. jpeg \in Seq(Byte)
    BY PipelineAssumption
  <2> QED
    BY <1>1, <2>1, <2>2, BeginOK
<1>4. CASE Encoding
  BY <1>1, <1>4, TakeByteOK, FinishOK DEF Encoding
<1>5. CASE InitializeCompressor \/ GiveUp \/ Select \/ ToggleFullscreen \/ TestSelection \/ ReadSelection
  BY <1>2, <1>5, Zenon DEF InitializeCompressor, GiveUp, Select, ToggleFullscreen, TestSelection, ReadSelection
<1>6. CASE GetDC \/ GetDCFails \/ Measure \/ GetClientRectFails \/ CreateCompatibleDC \/ CreateCompatibleDCFails
  BY <1>2, <1>6, Zenon DEF GetDC, GetDCFails, Measure, GetClientRectFails, WindowOnly,
     CreateCompatibleDC, CreateCompatibleDCFails, Abandon
<1>7. CASE CreateCompatibleBitmap \/ CreateCompatibleBitmapFails \/ GetDIBits \/ ReleaseAll
  BY <1>2, <1>7, Zenon DEF CreateCompatibleBitmap, CreateCompatibleBitmapFails, GetDIBits, ReleaseAll, Abandon
<1>8. CASE Compress \/ CompressFails \/ Send \/ CloseWindow \/ Draw
  BY <1>2, <1>8, Zenon DEF Compress, CompressFails, Send, CloseWindow, Draw
<1>9. CASE UNCHANGED vars
  BY <1>2, <1>9, Zenon DEF vars
<1> QED
  BY <1>3, <1>4, <1>5, <1>6, <1>7, <1>8, <1>9, Zenon DEF Next

(* One step for each action of the capture.                                 *)
LEMMA PipelineOK ==
    ASSUME IInv, [Next]_vars
    PROVE  (PipelineTypeOK /\ HoldingInv /\ LayoutInv /\ SelectionInv)'
<1> USE DEF PipelineTypeOK, HoldingInv, LayoutInv, SelectionInv, OnlyWhatIsSelected,
            Steps, Handles, captureVars, windowVars, Width, Height
<1>1. PipelineTypeOK /\ HoldingInv /\ LayoutInv /\ SelectionInv
  BY DEF IInv
<1>2. CASE InitializeCompressor
  BY <1>1, <1>2 DEF InitializeCompressor
<1>3. CASE GiveUp
  BY <1>1, <1>3 DEF GiveUp
<1>4. CASE Select
  BY <1>1, <1>4 DEF Select
<1>5. CASE ToggleFullscreen
  BY <1>1, <1>5 DEF ToggleFullscreen
<1>6. CASE TestSelection
  BY <1>1, <1>6 DEF TestSelection
<1>7. CASE ReadSelection
  BY <1>1, <1>7 DEF ReadSelection
<1>8. CASE GetDC
  BY <1>1, <1>8 DEF GetDC
<1>9. CASE GetDCFails
  BY <1>1, <1>9 DEF GetDCFails, Abandon
<1>10. CASE Measure
  BY <1>1, <1>10, PipelineAssumption DEF Measure
<1>11. CASE GetClientRectFails
  BY <1>1, <1>11 DEF GetClientRectFails, WindowOnly, Abandon
<1>12. CASE CreateCompatibleDC
  BY <1>1, <1>12 DEF CreateCompatibleDC
<1>13. CASE CreateCompatibleDCFails
  BY <1>1, <1>13 DEF CreateCompatibleDCFails, Abandon
<1>14. CASE CreateCompatibleBitmap
  BY <1>1, <1>14 DEF CreateCompatibleBitmap
<1>15. CASE CreateCompatibleBitmapFails
  BY <1>1, <1>15 DEF CreateCompatibleBitmapFails, Abandon
<1>16. CASE GetDIBits
  <2>1. RowPitch(size[1]) \in Nat /\ size[1] \in Nat /\ size[2] \in Nat
    BY <1>1, PitchIsStride
  <2>2. RowPitch(size[1]) * size[2] \in Nat
    BY <2>1
  <2> QED
    BY <1>1, <1>16, <2>2 DEF GetDIBits
<1>17. CASE ReleaseAll
  BY <1>1, <1>17 DEF ReleaseAll, EmptyPicture
<1>18. CASE Compress
  BY <1>1, <1>18 DEF Compress
<1>19. CASE CompressFails
  BY <1>1, <1>19 DEF CompressFails
<1>20. CASE Encode
  BY <1>1, <1>20 DEF Encode
<1>21. CASE Encoding
  BY <1>1, <1>21 DEF Encoding, pipelineVars
<1>22. CASE Send
  BY <1>1, <1>22 DEF Send
<1>23. CASE CloseWindow
  BY <1>1, <1>23 DEF CloseWindow
<1>24. CASE Draw
  <2>1. /\ step = "draw" /\ step' = "read"
        /\ UNCHANGED <<hwnd, target, size, held, pixels, buffer, compressor, closed>>
    BY <1>24 DEF Draw
  <2>2. CASE DrawScreen
    BY <1>1, <2>1, <2>2 DEF DrawScreen
  <2>3. CASE DrawWindow
    BY <1>1, <2>1, <2>3 DEF DrawWindow
  <2>4. CASE DrawArea
    <3>1. exposures = 0
      BY <1>1, <2>1, <2>4 DEF DrawArea
    <3>2. exposures' = (IF closed THEN 1 ELSE 0) /\ shown' = "area"
      BY <2>4, <3>1 DEF DrawArea
    <3> QED
      BY <1>1, <2>1, <3>2
  <2> QED
    BY <1>24, <2>2, <2>3, <2>4 DEF Draw
<1>25. CASE UNCHANGED vars
  BY <1>1, <1>25 DEF vars, pipelineVars
<1> QED
  BY <1>2, <1>3, <1>4, <1>5, <1>6, <1>7, <1>8, <1>9, <1>10, <1>11, <1>12, <1>13, <1>14,
     <1>15, <1>16, <1>17, <1>18, <1>19, <1>20, <1>21, <1>22, <1>23, <1>24, <1>25, Zenon DEF Next

LEMMA Invariance == Spec => []IInv
<1>1. IInv /\ [Next]_vars => IInv'
  BY EncoderOK, PipelineOK, Zenon DEF IInv
<1> QED
  BY InitOK, <1>1, PTL DEF Spec
-----------------------------------------------------------------------------
(* The agent's registers stay in their types, val an int although it         *)
(* overflows (ImageProcessor.cpp:15-23).                                     *)
THEOREM FrameTypeCorrect == Spec => []TypeOK
  BY Invariance, InvMeans, PTL

(* Whatever Windows answers, the releases of each return are all that this   *)
(* capture took, and a main that returns has destroyed the compressor        *)
(* (CaptureManager.cpp:35-170).                                              *)
THEOREM NothingLeaks == Spec => []NothingHeld
  BY Invariance, InvMeans, PTL

(* For every size, what GetDIBits writes and what tjCompress2 reads lie in   *)
(* the buffer (CaptureManager.cpp:151-156, ImageProcessor.cpp:70-75).        *)
THEOREM BufferSuffices == Spec => []BufferLayout
  BY Invariance, InvMeans, PTL

(* Nobody who selected a window is ever captured with the full screen, and   *)
(* of a window that is closed at most one picture more is drawn              *)
(* (main.cpp:208-210, CaptureManager.cpp:19-134).                            *)
THEOREM SelectionRespected == Spec => []OnlyWhatIsSelected
  BY Invariance, InvMeans, PTL

(* Every frame's text is the standard Base64 of its image                    *)
(* (ImageProcessor.cpp:13-31, 95-97).                                        *)
THEOREM FramesEncoded == Spec => []EncodedCorrectly
  BY Invariance, InvMeans, PTL
=============================================================================
