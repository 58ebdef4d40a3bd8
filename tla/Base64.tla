------------------------------- MODULE Base64 -------------------------------
(* ImageProcessor::base64_encode_impl (Agent/src/ImageProcessor.cpp:13-31), *)
(* one action for each round of its loop and one for what follows it.       *)
(* A character is its index in base64_chars, '=' is Pad.  `val' is an int   *)
(* that nobody masks: it overflows from the fourth byte on, and is shifted  *)
(* as a negative number when bit 31 is set.  The compilers the agent is     *)
(* built with wrap the left shift and sign-extend the right one.            *)
EXTENDS Integers, Sequences

VARIABLES data,   \* the vector `in'
          pos,    \* how many of its bytes the loop has taken
          val,    \* 32 bits, signed
          valb,   \* how many bits of val are pending, minus 6
          out,    \* the characters so far
          coding  \* the call is in progress

encodeVars == <<data, pos, val, valb, out, coding>>

Byte == 0 .. 255
MaxInt == 2147483647
Int32 == -MaxInt - 1 .. MaxInt
Pad == 64

(* (val << 8) + c in 32 bits: the low 24 bits move up, bit 23 is the sign. *)
Appended(v, c) ==
    LET low == v % 16777216
    IN (IF low >= 8388608 THEN low - 16777216 ELSE low) * 256 + c

(* base64_chars[(v >> n) & 0x3F], the shift keeping the sign. *)
Sextet(v, n) == (v \div <<1, 2, 4, 8, 16, 32, 64>>[n + 1]) % 64

(* The inner loop: one character for each six bits pending. *)
PushedOnce(v, b) == IF b < 0 THEN << >> ELSE << Sextet(v, b) >>  \* Faulty: `if'.
Pushed(v, b) == IF b < 0 THEN << >>
                ELSE IF b < 6 THEN << Sextet(v, b) >>
                ELSE << Sextet(v, b), Sextet(v, b - 6) >>

(* Line 25: the bits that are left, filled up with zeros.  val << 8 drops *)
(* the top byte as Appended does.                                          *)
LastFromVal(v, b) ==  \* Faulty: no zeros are shifted in.
    IF b > -6 THEN << Sextet(v, b + 6) >> ELSE << >>
Last(v, b) == IF b > -6 THEN << Sextet(Appended(v, 0), b + 8) >> ELSE << >>

(* Line 27: '=' up to a multiple of four. *)
Padding(n) == [i \in 1 .. (4 - (n % 4)) % 4 |-> Pad]

EncodeInit == /\ data = << >> /\ out = << >>
              /\ pos = 0 /\ val = 0 /\ valb = -6
              /\ coding = FALSE

Begin(in) ==
    /\ ~coding
    /\ coding' = TRUE
    /\ data' = in /\ out' = << >>
    /\ pos' = 0 /\ val' = 0 /\ valb' = -6

TakeByte ==
    /\ coding /\ pos < Len(data)
    /\ pos' = pos + 1
    /\ val' = Appended(val, data[pos + 1])
    /\ out' = out \o Pushed(val', valb + 8)
    /\ valb' = valb + 8 - 6 * Len(Pushed(val', valb + 8))
    /\ UNCHANGED <<data, coding>>

Finish ==
    /\ coding /\ pos = Len(data)
    /\ LET chars == out \o Last(val, valb)
       IN out' = chars \o Padding(Len(chars))
    /\ coding' = FALSE
    /\ UNCHANGED <<data, pos, val, valb>>

EncodeSpec == EncodeInit /\ [][(\E in \in Seq(Byte) : Begin(in)) \/ TakeByte \/ Finish]_encodeVars

-----------------------------------------------------------------------------
(* What RFC 4648 promises, stated from the bytes alone: three bytes are the *)
(* four characters 765432 10|7654 3210|76 543210, missing bytes are zeros,  *)
(* and a character that holds no bit of any byte is '='.                    *)
ByteAt(in, i) == IF i \in 1 .. Len(in) THEN in[i] ELSE 0

Standard(in, j) ==
    LET g == 3 * ((j - 1) \div 4)
        a == ByteAt(in, g + 1)
        b == ByteAt(in, g + 2)
        c == ByteAt(in, g + 3)
    IN << a \div 4,
          (a % 4) * 16 + b \div 16,
          IF g + 2 <= Len(in) THEN (b % 16) * 4 + c \div 64 ELSE Pad,
          IF g + 3 <= Len(in) THEN c % 64 ELSE Pad >>[((j - 1) % 4) + 1]

(* The text of an image is the standard encoding of exactly its bytes, for  *)
(* every length and although val overflows (ImageProcessor.cpp:15-30).      *)
EncodedCorrectly ==
    ~coding => /\ Len(out) = 4 * ((Len(data) + 2) \div 3)
               /\ \A j \in 1 .. Len(out) : out[j] = Standard(data, j)
=============================================================================
