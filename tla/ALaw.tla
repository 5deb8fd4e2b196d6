-------------------------------- MODULE ALaw --------------------------------
(***************************************************************************)
(* The A-law codec of src/internal/codec/g711/alaw.go, sample by sample,   *)
(* and G.711 itself, which its comments name.  MediaStages uses the codec. *)
(***************************************************************************)
EXTENDS Integers

Int16 == -32768 .. 32767
Byte == 0 .. 255

alawSegmentBias == 264     \* 0x108
alawLinearThreshold == 256
alawMaxSegment == 8

Flip(v, bit) ==
  IF (v \div 2^bit) % 2 = 0 THEN v + 2^bit ELSE v - 2^bit

(* The exclusive or of a byte with alawToggleMask, 0x55, and with           *)
(* alawSignBit, 0x80; alawPositiveMask, 0xD5, is both.                      *)
Toggled == [v \in Byte |-> Flip(Flip(Flip(Flip(v, 0), 2), 4), 6)]
FlipSign(v) == Flip(v, 7)

-----------------------------------------------------------------------------
ToInt16(n) == ((n + 32768) % 65536) - 32768

(* The switch of alawToLinear: the magnitude of a byte, in an int16. *)
Expand(segment, quant) ==
  CASE segment = 0 -> 16 * quant + alawMaxSegment
    [] segment = 1 -> 16 * quant + alawSegmentBias
    [] OTHER -> ToInt16((16 * quant + alawSegmentBias) * 2^(segment - 1))

alawToLinear(aVal) ==
  LET v == Toggled[aVal]
      t == Expand((v \div 16) % 8, v % 16)
  IN IF v >= 128 THEN ToInt16(-t) ELSE t

alawSegmentEnds == <<31, 63, 127, 255, 511, 1023, 2047, 4095>>

searchSegment(pcm) ==
  IF \A i \in 1 .. 8 : pcm > alawSegmentEnds[i]
  THEN alawMaxSegment
  ELSE (CHOOSE i \in 1 .. 8 :
          /\ pcm <= alawSegmentEnds[i]
          /\ \A j \in 1 .. i - 1 : pcm > alawSegmentEnds[j]) - 1

(* byte(seg << 4) | byte(pcm >> (seg + 3) & 0x0F), or byte(pcm >> 4). *)
Compress(pcm) ==
  IF pcm >= alawLinearThreshold
  THEN LET seg == searchSegment(pcm) IN
       16 * seg + ((pcm \div 2^(seg + 3)) % 16)
  ELSE pcm \div 16

(* Fault: the magnitude of a negative sample is -pcm. *)
LinearToALawNegated(sample) ==
  IF sample < 0 THEN Toggled[Compress(-sample)]
                ELSE FlipSign(Toggled[Compress(sample)])

(* -pcm - 1 never exceeds alawMax, so its clamp is without effect. *)
linearToALaw(sample) ==
  IF sample < 0 THEN Toggled[Compress(-sample - 1)]
                ELSE FlipSign(Toggled[Compress(sample)])

-----------------------------------------------------------------------------
(* G.711 itself. *)

StandardSegment(c) == (Toggled[c] \div 16) % 8

(* The 16-bit value of A-law byte c: positive iff the sign bit is set. *)
StandardLinear(c) ==
  LET v == Toggled[c]
      s == StandardSegment(c)
      q == v % 16
      m == IF s = 0 THEN 16 * q + 8 ELSE (16 * q + 264) * 2^(s - 1)
  IN IF v >= 128 THEN m ELSE -m

(* Half the distance of two neighbours in the segment of c. *)
HalfStep(c) ==
  IF StandardSegment(c) = 0 THEN 8 ELSE 8 * 2^(StandardSegment(c) - 1)

Abs(n) == IF n < 0 THEN -n ELSE n

=============================================================================
