-------------------------- MODULE MediaStages_proofs --------------------------
(***************************************************************************)
(* Theorems about MediaStages: for frames of any rate, channel count and   *)
(* length, the stages of both chains fit together, the service gets what   *)
(* was saved, no frame changes its duration, the echo canceller is given   *)
(* the samples of the right time and the client hears them, and the codec  *)
(* treats both signs alike.  Of the mixer: the samples fit into 16 bits    *)
(* and have no bias, by induction over the channels.                       *)
(***************************************************************************)
EXTENDS MediaStages, FiniteSetTheorems, TLAPS

(* The codec in which a frame reaches each stage after the first. *)
CodecAt ==
  /\ stage \in {"alaw_decode", "base64_encode"} => frame.codec = "g711_alaw"
  /\ stage \in {"enhancement", "vad", "service",
                "reference_tap", "alaw_encode"} =>
       frame.codec = "pcm16le"
  /\ stage = "client" => frame.codec = "base64"

(* Frames are records with the fields of Frame. *)
IsFrame(f) ==
  f = Frame(f.codec, f.rate, f.channels, f.broken, f.payload)

CodecInv == IsFrame(frame) /\ CodecAt

LEMMA CodecInit == Init => CodecInv
<1> SUFFICES ASSUME Init PROVE CodecInv
  OBVIOUS
<1>1. IsFrame(frame)
  BY DEF Init, IsFrame, Frame, InTargetFormat
<1>2. stage \in {"base64_decode", "pcm_normalize"}
  BY DEF Init, Uplink, Downlink
<1> QED
  BY <1>1, <1>2 DEF CodecInv, CodecAt

LEMMA CodecStep == CodecInv /\ [Next]_vars => CodecInv'
<1> SUFFICES ASSUME CodecInv, [Next]_vars PROVE CodecInv'
  OBVIOUS
<1> USE DEF CodecInv, CodecAt, IsFrame, Frame
<1>1. CASE Refuse
  BY <1>1 DEF Refuse
<1>2. CASE Base64Decode
  BY <1>2 DEF Base64Decode, Passes
<1>3. CASE ALawDecode
  BY <1>3 DEF ALawDecode, Passes, InTargetFormat
<1>4. CASE Enhance
  BY <1>4 DEF Enhance, Passes
<1>5. CASE EnhanceFails
  BY <1>5 DEF EnhanceFails
<1>6. CASE DetectVoice
  BY <1>6 DEF DetectVoice, Passes
<1>7. CASE SendToService
  BY <1>7 DEF SendToService, Passes
<1>8. CASE Normalize
  BY <1>8 DEF Normalize, Passes, InTargetFormat
<1>9. CASE Tap
  BY <1>9 DEF Tap, Passes
<1>10. CASE ALawEncode
  BY <1>10 DEF ALawEncode, Passes
<1>11. CASE Base64Encode
  BY <1>11 DEF Base64Encode, Passes
<1>12. CASE SendToClient
  BY <1>12 DEF SendToClient, Passes
<1>13. CASE SendFails
  BY <1>13 DEF SendFails, Passes
<1>14. CASE UNCHANGED vars
  BY <1>14 DEF vars
<1> QED
  BY <1>1, <1>2, <1>3, <1>4, <1>5, <1>6, <1>7, <1>8, <1>9, <1>10, <1>11,
     <1>12, <1>13, <1>14 DEF Next

LEMMA CodecFits == CodecInv => RefusedAtEdge
  BY DEF CodecInv, CodecAt, RefusedAtEdge, Refuses, Uplink, Downlink

(* No stage behind the first of its chain, and no connector, refuses a      *)
(* frame for its format (session.go:152-163, server.go:496).                *)
THEOREM ChainsFit == Spec => []RefusedAtEdge
<1>1. Spec => []CodecInv
  BY CodecInit, CodecStep, PTL DEF Spec
<1> QED
  BY <1>1, CodecFits, PTL

-----------------------------------------------------------------------------
(* ServiceGetsSaved, stage by stage: before the enhancement nothing is      *)
(* saved, behind it the frame is, if it has samples; before the VAD stage   *)
(* nothing was heard, behind it what was saved.                             *)
SavedIsFrame ==
  /\ frame.payload # << >> => saved = <<frame.payload>>
  /\ frame.payload = << >> => saved = << >>

SavedInv ==
  /\ stage \in {"base64_decode", "alaw_decode", "enhancement"} => saved = << >>
  /\ stage \in {"vad", "service"} => SavedIsFrame
  /\ stage \in {"base64_decode", "alaw_decode", "enhancement", "vad"} => ~speech
  /\ stage = "service" => speech = (saved # << >>)
  /\ speech \in BOOLEAN
  /\ speech => saved # << >>

LEMMA SavedInit == Init => SavedInv
  BY DEF Init, SavedInv, Uplink, Downlink

LEMMA SavedStep == SavedInv /\ CodecInv /\ [Next]_vars => SavedInv'
<1> SUFFICES ASSUME SavedInv, CodecInv, [Next]_vars PROVE SavedInv'
  OBVIOUS
<1> USE DEF SavedInv, SavedIsFrame
<1>1. CASE Refuse
  BY <1>1 DEF Refuse
<1>2. CASE Base64Decode
  BY <1>2 DEF Base64Decode, Passes
<1>3. CASE ALawDecode
  BY <1>3 DEF ALawDecode, Passes
<1>4. CASE Enhance
  <2>1. stage = "enhancement" /\ stage' = "vad" /\ ~speech /\ speech' = speech
    BY <1>4 DEF Enhance, Passes
  <2>2. frame' = frame /\ frame.codec = "pcm16le" /\ saved = << >>
    BY <1>4, <2>1 DEF Enhance, CodecInv, CodecAt
  <2>3. frame.payload # << >> => saved' = <<frame.payload>>
    BY <1>4, <2>2 DEF Enhance, HasPCM
  <2>4. frame.payload = << >> => saved' = << >>
    BY <1>4, <2>2 DEF Enhance, HasPCM
  <2> QED
    BY <2>1, <2>2, <2>3, <2>4
<1>5. CASE EnhanceFails
  BY <1>5 DEF EnhanceFails
<1>6. CASE DetectVoice
  <2>1. stage = "vad" /\ stage' = "service" /\ ~speech
        /\ frame' = frame /\ saved' = saved
    BY <1>6 DEF DetectVoice, Passes
  <2>2. speech' = (frame.payload # << >>)
    BY <1>6, <2>1 DEF DetectVoice, HasPCM, CodecInv, CodecAt
  <2> QED
    BY <2>1, <2>2
<1>7. CASE SendToService
  BY <1>7 DEF SendToService, Passes
<1>8. CASE Normalize
  BY <1>8 DEF Normalize, Passes
<1>9. CASE Tap
  BY <1>9 DEF Tap, Passes
<1>10. CASE ALawEncode
  BY <1>10 DEF ALawEncode, Passes
<1>11. CASE Base64Encode
  BY <1>11 DEF Base64Encode, Passes
<1>12. CASE SendToClient
  BY <1>12 DEF SendToClient, Passes
<1>13. CASE SendFails
  BY <1>13 DEF SendFails, Passes
<1>14. CASE UNCHANGED vars
  BY <1>14 DEF vars
<1> QED
  BY <1>1, <1>2, <1>3, <1>4, <1>5, <1>6, <1>7, <1>8, <1>9, <1>10, <1>11,
     <1>12, <1>13, <1>14 DEF Next

(* What the service gets was saved, and speech is reported for exactly that *)
(* (audioenhancement/mock.go:68-100, vad/mock.go:67-91).                    *)
THEOREM SavedBeforeService == Spec => []ServiceGetsSaved
<1>1. Spec => [](CodecInv /\ SavedInv)
  BY CodecInit, CodecStep, SavedInit, SavedStep, PTL DEF Spec
<1>2. SavedInv => ServiceGetsSaved
  BY DEF SavedInv, SavedIsFrame, ServiceGetsSaved
<1> QED
  BY <1>1, <1>2, PTL

-----------------------------------------------------------------------------
(* The arithmetic of the A-law codec. *)

(* The bounds of int16; 32768 numbers are too many to be put in a set. *)
LEMMA Int16Is ==
  \A x : x \in Int16 <=> x \in Int /\ -32768 <= x /\ x <= 32767
<1> DEFINE a == -32768
           b == 32767
<1>1. a \in Int /\ b \in Int
  BY SMT
<1>2. Int16 = a .. b
  BY DEF Int16
<1>3. a = -32768 /\ b = 32767
  OBVIOUS
<1> HIDE DEF a, b
<1>4. \A x : x \in a .. b <=> x \in Int /\ a <= x /\ x <= b
  BY <1>1, SMT
<1>5. \A x : x \in Int16 <=> x \in Int /\ a <= x /\ x <= b
  BY <1>2, <1>4
<1> QED
  BY <1>3, <1>5, SMT

LEMMA PowerOf ==
  ASSUME NEW k \in 0 .. 11
  PROVE  /\ 2^k \in Nat \ {0}
         /\ k <= 6 => 2^k \in {1, 2, 4, 8, 16, 32, 64}
<1>1. CASE k = 0
  BY <1>1, SMT
<1>2. CASE k = 1
  BY <1>2, SMT
<1>3. CASE k = 2
  BY <1>3, SMT
<1>4. CASE k = 3
  BY <1>4, SMT
<1>5. CASE k = 4
  BY <1>5, SMT
<1>6. CASE k = 5
  BY <1>6, SMT
<1>7. CASE k = 6
  BY <1>7, SMT
<1>8. CASE k = 7
  BY <1>8, SMT
<1>9. CASE k = 8
  BY <1>9, SMT
<1>10. CASE k = 9
  BY <1>10, SMT
<1>11. CASE k = 10
  BY <1>11, SMT
<1>12. CASE k = 11
  BY <1>12, SMT
<1> QED
  BY <1>1, <1>2, <1>3, <1>4, <1>5, <1>6, <1>7, <1>8, <1>9, <1>10, <1>11, <1>12

Bits == {0, 2, 4, 6, 7}

LEMMA FlipTwice ==
  ASSUME NEW v \in Byte, NEW k \in Bits
  PROVE  Flip(v, k) \in Byte /\ Flip(Flip(v, k), k) = v
<1>1. CASE k = 0
  BY <1>1, SMT DEF Byte, Flip
<1>2. CASE k = 2
  BY <1>2, SMT DEF Byte, Flip
<1>3. CASE k = 4
  BY <1>3, SMT DEF Byte, Flip
<1>4. CASE k = 6
  BY <1>4, SMT DEF Byte, Flip
<1>5. CASE k = 7
  BY <1>5, SMT DEF Byte, Flip
<1> QED
  BY <1>1, <1>2, <1>3, <1>4, <1>5 DEF Bits

LEMMA FlipsCommute ==
  ASSUME NEW v \in Byte, NEW j \in Bits, NEW k \in Bits
  PROVE  Flip(Flip(v, j), k) = Flip(Flip(v, k), j)
<1>1. Flip(Flip(v, 0), 2) = Flip(Flip(v, 2), 0)
  BY SMT DEF Byte, Flip
<1>2. Flip(Flip(v, 0), 4) = Flip(Flip(v, 4), 0)
  BY SMT DEF Byte, Flip
<1>3. Flip(Flip(v, 0), 6) = Flip(Flip(v, 6), 0)
  BY SMT DEF Byte, Flip
<1>4. Flip(Flip(v, 0), 7) = Flip(Flip(v, 7), 0)
  BY SMT DEF Byte, Flip
<1>5. Flip(Flip(v, 2), 4) = Flip(Flip(v, 4), 2)
  BY SMT DEF Byte, Flip
<1>6. Flip(Flip(v, 2), 6) = Flip(Flip(v, 6), 2)
  BY SMT DEF Byte, Flip
<1>7. Flip(Flip(v, 2), 7) = Flip(Flip(v, 7), 2)
  BY SMT DEF Byte, Flip
<1>8. Flip(Flip(v, 4), 6) = Flip(Flip(v, 6), 4)
  BY SMT DEF Byte, Flip
<1>9. Flip(Flip(v, 4), 7) = Flip(Flip(v, 7), 4)
  BY SMT DEF Byte, Flip
<1>10. Flip(Flip(v, 6), 7) = Flip(Flip(v, 7), 6)
  BY SMT DEF Byte, Flip
<1> QED
  BY <1>1, <1>2, <1>3, <1>4, <1>5, <1>6, <1>7, <1>8, <1>9, <1>10 DEF Bits

LEMMA ToggleTwice ==
  ASSUME NEW v \in Byte
  PROVE  Toggled[v] \in Byte /\ Toggled[Toggled[v]] = v
<1> DEFINE a == Flip(v, 0)
           b == Flip(a, 2)
           c == Flip(b, 4)
           d == Flip(c, 6)
<1>0. 0 \in Bits /\ 2 \in Bits /\ 4 \in Bits /\ 6 \in Bits
  BY DEF Bits
<1>1. a \in Byte /\ b \in Byte /\ c \in Byte /\ d \in Byte
  <2>1. a \in Byte
    BY <1>0, FlipTwice
  <2>2. b \in Byte
    BY <1>0, <2>1, FlipTwice
  <2>3. c \in Byte
    BY <1>0, <2>2, FlipTwice
  <2>4. d \in Byte
    BY <1>0, <2>3, FlipTwice
  <2> QED
    BY <2>1, <2>2, <2>3, <2>4
<1>2. Toggled[v] = d
  BY DEF Toggled
<1>3. Toggled[d] = Flip(Flip(Flip(Flip(d, 0), 2), 4), 6)
  BY <1>1 DEF Toggled
<1>4. Flip(d, 0) = Flip(Flip(Flip(v, 2), 4), 6)
  <2>1. Flip(v, 2) \in Byte /\ Flip(Flip(v, 2), 4) \in Byte
    BY <1>0, FlipTwice
  <2>2. b = Flip(Flip(v, 2), 0)
    BY <1>0, FlipsCommute
  <2>3. c = Flip(Flip(Flip(v, 2), 4), 0)
    BY <1>0, <2>1, <2>2, FlipsCommute
  <2>4. d = Flip(Flip(Flip(Flip(v, 2), 4), 6), 0)
    BY <1>0, <2>1, <2>3, FlipsCommute
  <2>5. Flip(Flip(Flip(v, 2), 4), 6) \in Byte
    BY <1>0, <2>1, FlipTwice
  <2> HIDE DEF d
  <2> QED
    BY <1>0, <2>4, <2>5, FlipTwice
<1>5. Flip(Flip(d, 0), 2) = Flip(Flip(v, 4), 6)
  <2>1. Flip(v, 4) \in Byte /\ Flip(Flip(v, 4), 6) \in Byte
    BY <1>0, FlipTwice
  <2>2. Flip(Flip(v, 2), 4) = Flip(Flip(v, 4), 2)
    BY <1>0, FlipsCommute
  <2>3. Flip(Flip(Flip(v, 2), 4), 6) = Flip(Flip(Flip(v, 4), 6), 2)
    BY <1>0, <2>1, <2>2, FlipsCommute
  <2> HIDE DEF d
  <2> QED
    BY <1>0, <1>4, <2>1, <2>3, FlipTwice
<1>6. Flip(Flip(Flip(d, 0), 2), 4) = Flip(v, 6)
  <2>1. Flip(v, 6) \in Byte
    BY <1>0, FlipTwice
  <2>2. Flip(Flip(v, 4), 6) = Flip(Flip(v, 6), 4)
    BY <1>0, FlipsCommute
  <2> HIDE DEF d
  <2> QED
    BY <1>0, <1>5, <2>1, <2>2, FlipTwice
<1>7. Toggled[d] = v
  <2> HIDE DEF d
  <2> QED
  BY <1>0, <1>3, <1>6, FlipTwice
<1> HIDE DEF d
<1> QED
  BY <1>1, <1>2, <1>7

LEMMA ToggleSign ==
  ASSUME NEW v \in Byte
  PROVE  FlipSign(v) \in Byte /\ Toggled[FlipSign(v)] = FlipSign(Toggled[v])
         /\ FlipSign(FlipSign(v)) = v
<1>1. FlipSign(v) \in Byte /\ FlipSign(FlipSign(v)) = v
  BY FlipTwice DEF FlipSign, Bits
<1>2. Toggled[FlipSign(v)] = FlipSign(Toggled[v])
  <2> DEFINE a == Flip(v, 0)
             b == Flip(a, 2)
             c == Flip(b, 4)
  <2>1. 0 \in Bits /\ 2 \in Bits /\ 4 \in Bits /\ 6 \in Bits /\ 7 \in Bits
    BY DEF Bits
  <2>2. a \in Byte
    BY <2>1, FlipTwice
  <2>3. b \in Byte
    BY <2>1, <2>2, FlipTwice
  <2>4. c \in Byte
    BY <2>1, <2>3, FlipTwice
  <2>5. Flip(Flip(v, 7), 0) = Flip(a, 7)
    BY <2>1, FlipsCommute
  <2>6. Flip(Flip(a, 7), 2) = Flip(b, 7)
    BY <2>1, <2>2, FlipsCommute
  <2>7. Flip(Flip(b, 7), 4) = Flip(c, 7)
    BY <2>1, <2>3, FlipsCommute
  <2>8. Flip(Flip(c, 7), 6) = Flip(Flip(c, 6), 7)
    BY <2>1, <2>4, FlipsCommute
  <2>9. Toggled[v] = Flip(c, 6)
    BY DEF Toggled
  <2>10. Toggled[FlipSign(v)] = Flip(Flip(Flip(Flip(FlipSign(v), 0), 2), 4), 6)
    BY <1>1 DEF Toggled
  <2> HIDE DEF a, b, c
  <2> QED
    BY <2>5, <2>6, <2>7, <2>8, <2>9, <2>10 DEF FlipSign
<1> QED
  BY <1>1, <1>2

LEMMA SegmentRange ==
  ASSUME NEW pcm \in Nat
  PROVE  searchSegment(pcm) \in 0 .. 8
<1>1. CASE \A i \in 1 .. 8 : pcm > alawSegmentEnds[i]
  BY <1>1 DEF searchSegment, alawMaxSegment
<1>2. CASE ~ \A i \in 1 .. 8 : pcm > alawSegmentEnds[i]
  <2>1. \E i \in 1 .. 8 : /\ pcm <= alawSegmentEnds[i]
                          /\ \A j \in 1 .. i - 1 : pcm > alawSegmentEnds[j]
    <3> DEFINE P(i) == /\ pcm <= alawSegmentEnds[i]
                       /\ \A j \in 1 .. i - 1 : pcm > alawSegmentEnds[j]
    <3>1. CASE pcm <= 31
      <4>1. P(1)
        BY <3>1 DEF alawSegmentEnds
      <4> QED BY <4>1
    <3>2. CASE pcm > 31 /\ pcm <= 63
      <4>1. P(2)
        BY <3>2 DEF alawSegmentEnds
      <4> QED BY <4>1
    <3>3. CASE pcm > 63 /\ pcm <= 127
      <4>1. P(3)
        BY <3>3 DEF alawSegmentEnds
      <4> QED BY <4>1
    <3>4. CASE pcm > 127 /\ pcm <= 255
      <4>1. P(4)
        BY <3>4 DEF alawSegmentEnds
      <4> QED BY <4>1
    <3>5. CASE pcm > 255 /\ pcm <= 511
      <4>1. P(5)
        BY <3>5 DEF alawSegmentEnds
      <4> QED BY <4>1
    <3>6. CASE pcm > 511 /\ pcm <= 1023
      <4>1. P(6)
        BY <3>6 DEF alawSegmentEnds
      <4> QED BY <4>1
    <3>7. CASE pcm > 1023 /\ pcm <= 2047
      <4>1. P(7)
        BY <3>7 DEF alawSegmentEnds
      <4> QED BY <4>1
    <3>8. CASE pcm > 2047 /\ pcm <= 4095
      <4>1. P(8)
        BY <3>8 DEF alawSegmentEnds
      <4> QED BY <4>1
    <3>9. pcm <= 4095
      BY <1>2 DEF alawSegmentEnds
    <3> QED
      BY <3>1, <3>2, <3>3, <3>4, <3>5, <3>6, <3>7, <3>8, <3>9
  <2> DEFINE k == CHOOSE i \in 1 .. 8 :
                    /\ pcm <= alawSegmentEnds[i]
                    /\ \A j \in 1 .. i - 1 : pcm > alawSegmentEnds[j]
  <2>2. k \in 1 .. 8
    BY <2>1
  <2>3. searchSegment(pcm) = k - 1
    BY <1>2 DEF searchSegment
  <2> HIDE DEF k
  <2> QED
    BY <2>2, <2>3
<1> QED
  BY <1>1, <1>2

LEMMA CompressRange ==
  ASSUME NEW pcm \in Nat
  PROVE  Compress(pcm) \in Byte
<1>1. CASE pcm >= 256
  <2>1. PICK seg \in 0 .. 8 : seg = searchSegment(pcm)
    BY SegmentRange
  <2>2. seg + 3 \in 0 .. 11
    OBVIOUS
  <2>3. 2^(seg + 3) \in Nat \ {0}
    BY <2>2, PowerOf
  <2>4. \A w \in Nat \ {0} : (pcm \div w) % 16 \in 0 .. 15
    OBVIOUS
  <2>5. (pcm \div 2^(seg + 3)) % 16 \in 0 .. 15
    BY <2>3, <2>4
  <2>6. Compress(pcm) = 16 * seg + ((pcm \div 2^(seg + 3)) % 16)
    BY <1>1, <2>1 DEF Compress, alawLinearThreshold
  <2> QED
    BY <1>1, <2>5, <2>6 DEF Byte
<1>2. CASE pcm < 256
  BY <1>2 DEF Compress, alawLinearThreshold, Byte
<1> QED
  BY <1>1, <1>2

LEMMA EncoderMirrors ==
  ASSUME NEW x \in Int16
  PROVE  /\ linearToALaw(x) \in Byte
         /\ linearToALaw(-x - 1) = FlipSign(linearToALaw(x))
<1>1. CASE x >= 0
  <2>1. x \in Nat /\ x <= 32767
    BY <1>1, Int16Is
  <2>2. Toggled[Compress(x)] \in Byte
    BY <2>1, CompressRange, ToggleTwice
  <2>3. linearToALaw(x) = FlipSign(Toggled[Compress(x)])
    BY <2>1 DEF linearToALaw
  <2>4. linearToALaw(-x - 1) = Toggled[Compress(x)]
    <3>1. -x - 1 < 0 /\ -(-x - 1) - 1 = x
      BY <2>1
    <3> QED
      BY <3>1 DEF linearToALaw
  <2> QED
    BY <2>2, <2>3, <2>4, ToggleSign
<1>2. CASE x < 0
  <2>1. x \in Int /\ -x - 1 \in Nat /\ -x - 1 <= 32767
    BY <1>2, Int16Is
  <2>2. Toggled[Compress(-x - 1)] \in Byte
    BY <2>1, CompressRange, ToggleTwice
  <2>3. linearToALaw(x) = Toggled[Compress(-x - 1)]
    BY <1>2 DEF linearToALaw
  <2>4. linearToALaw(-x - 1) = FlipSign(Toggled[Compress(-x - 1)])
    <3>1. ~(-x - 1 < 0)
      BY <2>1
    <3> QED
      BY <3>1 DEF linearToALaw
  <2> QED
    BY <2>2, <2>3, <2>4, ToggleSign
<1> QED
  BY <1>1, <1>2, Int16Is

(* The sign bit, the segment and the quantisation of a byte. *)
LEMMA Fields ==
  ASSUME NEW v \in Byte
  PROVE  /\ (v \div 16) % 8 \in 0 .. 7 /\ v % 16 \in 0 .. 15
         /\ (FlipSign(v) \div 16) % 8 = (v \div 16) % 8
         /\ FlipSign(v) % 16 = v % 16
         /\ (FlipSign(v) >= 128) <=> (v < 128)
  BY SMT DEF Byte, FlipSign, Flip

LEMMA NoWrap ==
  \A n \in Int : -32768 <= n /\ n <= 32767 => ToInt16(n) = n
  BY DEF ToInt16

(* What G.711 has as magnitude of the segment and the quantisation. *)
Scaled(s, q) == IF s = 0 THEN 16 * q + 8 ELSE (16 * q + 264) * 2^(s - 1)

LEMMA ScaledRange ==
  ASSUME NEW s \in 0 .. 7, NEW q \in 0 .. 15
  PROVE  /\ Scaled(s, q) \in Nat
         /\ Scaled(s, q) >= 1 /\ Scaled(s, q) <= 32767
<1>1. CASE s = 0
  BY <1>1 DEF Scaled
<1>2. CASE s # 0
  <2>1. s - 1 \in 0 .. 11 /\ s - 1 <= 6
    BY <1>2
  <2>2. 2^(s - 1) \in {1, 2, 4, 8, 16, 32, 64}
    BY <2>1, PowerOf
  <2>3. \A w \in {1, 2, 4, 8, 16, 32, 64} :
          /\ (16 * q + 264) * w \in Nat
          /\ (16 * q + 264) * w >= 1 /\ (16 * q + 264) * w <= 32767
    OBVIOUS
  <2>4. Scaled(s, q) = (16 * q + 264) * 2^(s - 1)
    BY <1>2 DEF Scaled
  <2> QED
    BY <2>2, <2>3, <2>4
<1> QED
  BY <1>1, <1>2

LEMMA ExpandIsScaled ==
  ASSUME NEW s \in 0 .. 7, NEW q \in 0 .. 15
  PROVE  Expand(s, q) = Scaled(s, q)
<1>1. CASE s = 0
  BY <1>1 DEF Expand, Scaled, alawMaxSegment
<1>2. CASE s = 1
  <2>1. s - 1 = 0
    BY <1>2
  <2>2. Scaled(s, q) = (16 * q + 264) * 1
    BY <1>2, <2>1 DEF Scaled
  <2>3. Expand(s, q) = 16 * q + 264
    BY <1>2 DEF Expand, alawSegmentBias
  <2> QED
    BY <2>2, <2>3
<1>3. CASE s # 0 /\ s # 1
  <2>1. Expand(s, q) = ToInt16(Scaled(s, q))
    BY <1>3 DEF Expand, Scaled, alawSegmentBias
  <2> QED
    BY <2>1, ScaledRange, NoWrap
<1> QED
  BY <1>1, <1>2, <1>3

LEMMA DecoderMirrors ==
  ASSUME NEW b \in Byte
  PROVE  /\ alawToLinear(b) \in Int16
         /\ alawToLinear(b) = -StandardLinear(b)
         /\ alawToLinear(b) = -alawToLinear(FlipSign(b))
         /\ Abs(alawToLinear(b)) = Abs(StandardLinear(b))
<1>1. PICK v \in Byte : v = Toggled[b]
  BY ToggleTwice
<1>2. Toggled[FlipSign(b)] = FlipSign(v)
  BY <1>1, ToggleSign
<1>3. PICK s \in 0 .. 7 : s = (v \div 16) % 8
  BY Fields
<1>4. PICK q \in 0 .. 15 : q = v % 16
  BY Fields
<1>5. PICK t \in Nat : /\ t = Scaled(s, q) /\ t = Expand(s, q)
                       /\ t >= 1 /\ t <= 32767
  BY ScaledRange, ExpandIsScaled
<1>10. ToInt16(-t) = -t
  BY <1>5, NoWrap
<1>6. alawToLinear(b) = IF v >= 128 THEN -t ELSE t
  BY <1>1, <1>3, <1>4, <1>5, <1>10 DEF alawToLinear
<1>7. alawToLinear(FlipSign(b)) = IF FlipSign(v) >= 128 THEN -t ELSE t
  BY <1>2, <1>3, <1>4, <1>5, <1>10, Fields DEF alawToLinear
<1>8. StandardLinear(b) = IF v >= 128 THEN t ELSE -t
  BY <1>1, <1>3, <1>4, <1>5 DEF StandardLinear, StandardSegment, Scaled
<1>9. (FlipSign(v) >= 128) <=> (v < 128)
  BY Fields
<1> QED
  BY <1>5, <1>6, <1>7, <1>8, <1>9, Int16Is DEF Abs, Byte

(* The code of a quiet sample is decoded to its quantisation step's middle. *)
LEMMA QuietRoundTrip ==
  ASSUME NEW x \in Int, -256 <= x, x <= 255
  PROVE  Abs(Abs(alawToLinear(linearToALaw(x))) - Abs(x)) <= 8
<1> DEFINE p == IF x < 0 THEN -x - 1 ELSE x
           c == p \div 16
           b == linearToALaw(x)
<1>1. p \in 0 .. 255 /\ c \in 0 .. 15
  OBVIOUS
<1>2. Compress(p) = c /\ c \in Byte
  BY <1>1 DEF Compress, alawLinearThreshold, Byte
<1>3. b = IF x < 0 THEN Toggled[c] ELSE FlipSign(Toggled[c])
  BY <1>2 DEF linearToALaw
<1>4. Toggled[b] \in {c, FlipSign(c)}
  <2>1. Toggled[c] \in Byte /\ Toggled[Toggled[c]] = c
    BY <1>2, ToggleTwice
  <2>2. Toggled[FlipSign(Toggled[c])] = FlipSign(c)
    BY <2>1, ToggleSign
  <2> HIDE DEF c, b
  <2> QED
    BY <1>3, <2>1, <2>2
<1>5. (Toggled[b] \div 16) % 8 = 0 /\ Toggled[b] % 16 = c
  <2>1. (c \div 16) % 8 = 0 /\ c % 16 = c
    BY <1>1
  <2>2. (FlipSign(c) \div 16) % 8 = 0 /\ FlipSign(c) % 16 = c
    BY <1>2, <2>1, Fields
  <2> HIDE DEF c, b
  <2> QED
    BY <1>4, <2>1, <2>2
<1>6. /\ Expand(0, c) = 16 * c + 8
      /\ ToInt16(-Expand(0, c)) = -(16 * c + 8)
  <2>1. 0 \in 0 .. 7 /\ c \in 0 .. 15
    BY <1>1
  <2> QED
    BY <2>1, ExpandIsScaled, NoWrap DEF Scaled
<1>7. alawToLinear(b) \in {16 * c + 8, -(16 * c + 8)}
  <2> HIDE DEF b, c
  <2> QED
    BY <1>5, <1>6 DEF alawToLinear
<1>8. Abs(alawToLinear(b)) = 16 * c + 8
  <2> HIDE DEF b, c
  <2> QED
    BY <1>1, <1>7 DEF Abs
<1>9. Abs((16 * c + 8) - Abs(x)) <= 8
  BY DEF Abs
<1> HIDE DEF c, b
<1> QED
  BY <1>8, <1>9 DEF b

(* The segment of a sample that is neither quiet nor beyond the table: the  *)
(* table is for samples of 13 bits, so it begins with the fifth.            *)
LEMMA LoudSegment ==
  ASSUME NEW pcm \in Nat, 256 <= pcm, pcm <= 4095
  PROVE  \/ searchSegment(pcm) = 4 /\ pcm <= 511
         \/ searchSegment(pcm) = 5 /\ 512 <= pcm /\ pcm <= 1023
         \/ searchSegment(pcm) = 6 /\ 1024 <= pcm /\ pcm <= 2047
         \/ searchSegment(pcm) = 7 /\ 2048 <= pcm
<1> DEFINE P(i) == /\ pcm <= alawSegmentEnds[i]
                   /\ \A j \in 1 .. i - 1 : pcm > alawSegmentEnds[j]
<1>1. /\ alawSegmentEnds[1] = 31 /\ alawSegmentEnds[2] = 63
      /\ alawSegmentEnds[3] = 127 /\ alawSegmentEnds[4] = 255
      /\ alawSegmentEnds[5] = 511 /\ alawSegmentEnds[6] = 1023
      /\ alawSegmentEnds[7] = 2047 /\ alawSegmentEnds[8] = 4095
  BY DEF alawSegmentEnds
<1>2. ASSUME NEW i \in 1 .. 8, P(i)
      PROVE  /\ i >= 5
             /\ i > 5 => pcm > 511
             /\ i > 6 => pcm > 1023
             /\ i > 7 => pcm > 2047
             /\ i = 5 => pcm <= 511
             /\ i = 6 => pcm <= 1023
             /\ i = 7 => pcm <= 2047
  <2>1. i = 1 \/ i = 2 \/ i = 3 \/ i = 4 \/ i >= 5
    OBVIOUS
  <2>2. i >= 5
    BY <1>1, <1>2, <2>1
  <2>3. /\ i > 5 => 5 \in 1 .. i - 1
        /\ i > 6 => 6 \in 1 .. i - 1
        /\ i > 7 => 7 \in 1 .. i - 1
    OBVIOUS
  <2> QED
    BY <1>1, <1>2, <2>2, <2>3
<1>3. \E i \in 1 .. 8 : P(i)
  <2>1. CASE pcm <= 511
    <3>1. P(5)
      BY <1>1, <2>1
    <3> QED
      BY <3>1
  <2>2. CASE pcm > 511 /\ pcm <= 1023
    <3>1. P(6)
      BY <1>1, <2>2
    <3> QED
      BY <3>1
  <2>3. CASE pcm > 1023 /\ pcm <= 2047
    <3>1. P(7)
      BY <1>1, <2>3
    <3> QED
      BY <3>1
  <2>4. CASE pcm > 2047
    <3>1. P(8)
      BY <1>1, <2>4
    <3> QED
      BY <3>1
  <2> QED
    BY <2>1, <2>2, <2>3, <2>4
<1> DEFINE k == CHOOSE i \in 1 .. 8 : P(i)
<1>4. k \in 1 .. 8 /\ P(k)
  BY <1>3
<1>5. searchSegment(pcm) = k - 1
  <2>1. ~ \A i \in 1 .. 8 : pcm > alawSegmentEnds[i]
    BY <1>1
  <2> QED
    BY <2>1 DEF searchSegment
<1>6. /\ k >= 5
      /\ k > 5 => pcm > 511
      /\ k > 6 => pcm > 1023
      /\ k > 7 => pcm > 2047
      /\ k = 5 => pcm <= 511
      /\ k = 6 => pcm <= 1023
      /\ k = 7 => pcm <= 2047
  <2> HIDE DEF k, P
  <2> QED
    BY <1>2, <1>4
<1> HIDE DEF k, P
<1> QED
  BY <1>4, <1>5, <1>6

(* Its code has the second half of a segment that is too high by three.     *)
LEMMA LoudCode ==
  ASSUME NEW pcm \in Nat, 256 <= pcm, pcm <= 4095
  PROVE  \E s \in 4 .. 7, q \in {2, 3} :
           /\ Compress(pcm) = 16 * s + q
           /\ pcm < 64 * 2^(s - 1) /\ 2^(s - 1) \in {8, 16, 32, 64}
<1>1. Compress(pcm) = LET seg == searchSegment(pcm) IN
                      16 * seg + ((pcm \div 2^(seg + 3)) % 16)
  BY DEF Compress, alawLinearThreshold
<1>2. CASE searchSegment(pcm) = 4 /\ pcm <= 511
  <2>1. 2^(4 + 3) = 128 /\ 2^(4 - 1) = 8
    BY SMT
  <2>2. (pcm \div 128) % 16 \in {2, 3}
    BY <1>2
  <2>3. Compress(pcm) = 16 * 4 + ((pcm \div 128) % 16)
    BY <1>1, <1>2, <2>1
  <2>4. pcm < 64 * 8
    BY <1>2
  <2> QED
    BY <2>1, <2>2, <2>3, <2>4
<1>3. CASE searchSegment(pcm) = 5 /\ 512 <= pcm /\ pcm <= 1023
  <2>1. 2^(5 + 3) = 256 /\ 2^(5 - 1) = 16
    BY SMT
  <2>2. (pcm \div 256) % 16 \in {2, 3}
    BY <1>3
  <2>3. Compress(pcm) = 16 * 5 + ((pcm \div 256) % 16)
    BY <1>1, <1>3, <2>1
  <2>4. pcm < 64 * 16
    BY <1>3
  <2> QED
    BY <2>1, <2>2, <2>3, <2>4
<1>4. CASE searchSegment(pcm) = 6 /\ 1024 <= pcm /\ pcm <= 2047
  <2>1. 2^(6 + 3) = 512 /\ 2^(6 - 1) = 32
    BY SMT
  <2>2. (pcm \div 512) % 16 \in {2, 3}
    BY <1>4
  <2>3. Compress(pcm) = 16 * 6 + ((pcm \div 512) % 16)
    BY <1>1, <1>4, <2>1
  <2>4. pcm < 64 * 32
    BY <1>4
  <2> QED
    BY <2>1, <2>2, <2>3, <2>4
<1>5. CASE searchSegment(pcm) = 7 /\ 2048 <= pcm
  <2>1. 2^(7 + 3) = 1024 /\ 2^(7 - 1) = 64
    BY SMT
  <2>2. (pcm \div 1024) % 16 \in {2, 3}
    BY <1>5
  <2>3. Compress(pcm) = 16 * 7 + ((pcm \div 1024) % 16)
    BY <1>1, <1>5, <2>1
  <2>4. pcm < 64 * 64
    BY <1>5
  <2> QED
    BY <2>1, <2>2, <2>3, <2>4
<1> QED
  BY <1>2, <1>3, <1>4, <1>5, LoudSegment

(* Beyond the table the segment spills over into the sign bit. *)
LEMMA LoudestCode ==
  ASSUME NEW pcm \in Nat, 4096 <= pcm
  PROVE  \E q \in 0 .. 15 : Compress(pcm) = 128 + q
<1>1. \A i \in 1 .. 8 : pcm > alawSegmentEnds[i]
  BY DEF alawSegmentEnds
<1>2. searchSegment(pcm) = 8
  BY <1>1 DEF searchSegment, alawMaxSegment
<1>3. Compress(pcm) = 16 * 8 + ((pcm \div 2^(8 + 3)) % 16)
  BY <1>2 DEF Compress, alawLinearThreshold
<1>4. 2^(8 + 3) = 2048
  BY SMT
<1>5. (pcm \div 2048) % 16 \in 0 .. 15
  OBVIOUS
<1> QED
  BY <1>3, <1>4, <1>5

(* A byte by the sign bit, the segment and the quantisation of G.711. *)
LEMMA StandardOf ==
  ASSUME NEW b \in Byte, NEW c \in Byte, NEW s, NEW q,
         Toggled[b] \in {c, FlipSign(c)}, s = (c \div 16) % 8, q = c % 16
  PROVE  /\ StandardLinear(b)
              = IF Toggled[b] >= 128 THEN Scaled(s, q) ELSE -Scaled(s, q)
         /\ HalfStep(b) = IF s = 0 THEN 8 ELSE 8 * 2^(s - 1)
<1>1. (Toggled[b] \div 16) % 8 = s /\ Toggled[b] % 16 = q
  BY Fields
<1> QED
  BY <1>1 DEF StandardLinear, StandardSegment, HalfStep, Scaled

(* The encoder follows the standard for the quiet samples, and for no other *)
(* sample: of those it misses more than half the step.                      *)
LEMMA OnlyQuiet ==
  ASSUME NEW x \in Int16
  PROVE  LET b == linearToALaw(x)
         IN  /\ -256 <= x /\ x <= 255 =>
                  Abs(StandardLinear(b) - x) <= HalfStep(b)
             /\ Abs(StandardLinear(b) - x) <= HalfStep(b) =>
                  -256 <= x /\ x <= 255
<1> DEFINE p == IF x < 0 THEN -x - 1 ELSE x
           c == Compress(p)
           b == linearToALaw(x)
           s == (c \div 16) % 8
           q == c % 16
           m == Scaled(s, q)
           half == IF s = 0 THEN 8 ELSE 8 * 2^(s - 1)
<1>1. /\ x \in Int /\ p \in Nat
      /\ x >= 0 => x = p
      /\ x < 0 => x = -p - 1
  BY Int16Is
<1>2. c \in Byte
  BY <1>1, CompressRange
<1> HIDE DEF p
<1>3. b = IF x < 0 THEN Toggled[c] ELSE FlipSign(Toggled[c])
  BY DEF linearToALaw, p
<1>4. /\ b \in Byte
      /\ Toggled[b] = IF x < 0 THEN c ELSE FlipSign(c)
  <2>1. Toggled[c] \in Byte /\ Toggled[Toggled[c]] = c
    BY <1>2, ToggleTwice
  <2>2. /\ FlipSign(Toggled[c]) \in Byte
        /\ Toggled[FlipSign(Toggled[c])] = FlipSign(c)
    BY <2>1, ToggleSign
  <2> HIDE DEF b, c
  <2> QED
    BY <1>3, <2>1, <2>2
<1>5. Toggled[b] >= 128 <=> (x >= 0 /\ c < 128) \/ (x < 0 /\ c >= 128)
  <2>1. (FlipSign(c) >= 128) <=> (c < 128)
    BY <1>2, Fields
  <2>2. c \in Int
    BY <1>2 DEF Byte
  <2> HIDE DEF b, c
  <2> QED
    BY <1>1, <1>4, <2>1, <2>2
<1>6. /\ StandardLinear(b) = IF Toggled[b] >= 128 THEN m ELSE -m
      /\ HalfStep(b) = half
  <2> HIDE DEF b, c
  <2> QED
    BY <1>2, <1>4, StandardOf
<1> HIDE DEF b, c
<1>7. CASE p <= 255
  <2>1. c = p \div 16 /\ 16 * c <= p /\ p <= 16 * c + 15 /\ c \in 0 .. 15
    BY <1>1, <1>7 DEF c, Compress, alawLinearThreshold
  <2>2. s = 0 /\ q = c
    BY <2>1
  <2>3. m = 16 * c + 8 /\ half = 8 /\ c < 128
    BY <2>1, <2>2 DEF Scaled
  <2> HIDE DEF m, half
  <2>4. StandardLinear(b) = (IF x >= 0 THEN 16 * c + 8 ELSE -(16 * c + 8))
    BY <1>1, <1>5, <1>6, <2>1, <2>3
  <2>5. Abs(StandardLinear(b) - x) <= 8
    BY <1>1, <2>1, <2>4 DEF Abs
  <2>6. -256 <= x /\ x <= 255
    BY <1>1, <1>7
  <2> QED
    BY <1>6, <2>3, <2>5, <2>6 DEF b
<1>8. CASE 256 <= p /\ p <= 4095
  <2>1. PICK k \in 4 .. 7, r \in {2, 3} :
          /\ c = 16 * k + r
          /\ p < 64 * 2^(k - 1) /\ 2^(k - 1) \in {8, 16, 32, 64}
    BY <1>1, <1>8, LoudCode DEF c
  <2>2. s = k /\ q = r /\ c < 128
    BY <2>1
  <2> DEFINE w == 2^(k - 1)
  <2>3. m = (16 * r + 264) * w /\ half = 8 * w
    <3> HIDE DEF c
    <3> QED
      BY <2>2 DEF Scaled
  <2>4. p < 64 * w /\ w \in {8, 16, 32, 64}
    BY <2>1
  <2> HIDE DEF m, half, w, s, q
  <2>5. m \in Nat /\ m >= 296 * w /\ w \in Nat /\ w >= 8
    BY <2>1, <2>3, <2>4
  <2>6. StandardLinear(b) = (IF x >= 0 THEN m ELSE -m)
    <3>1. c \in Int
      BY <1>2 DEF Byte
    <3> QED
      BY <1>1, <1>5, <1>6, <2>2, <3>1
  <2>7. ~ (Abs(StandardLinear(b) - x) <= half)
    BY <1>1, <2>3, <2>4, <2>5, <2>6 DEF Abs
  <2>8. ~ (-256 <= x /\ x <= 255)
    BY <1>1, <1>8
  <2> QED
    BY <1>6, <2>7, <2>8 DEF b
<1>9. CASE 4096 <= p
  <2>1. PICK r \in 0 .. 15 : c = 128 + r
    BY <1>1, <1>9, LoudestCode DEF c
  <2>2. s = 0 /\ q = r /\ c >= 128
    BY <2>1
  <2>3. m = 16 * r + 8 /\ half = 8
    BY <2>2 DEF Scaled
  <2> HIDE DEF m, half, s, q
  <2>4. StandardLinear(b) = (IF x >= 0 THEN -m ELSE m)
    BY <1>1, <1>5, <1>6, <2>1, <2>2
  <2>5. ~ (Abs(StandardLinear(b) - x) <= 8)
    BY <1>1, <1>9, <2>1, <2>3, <2>4 DEF Abs
  <2>6. ~ (-256 <= x /\ x <= 255)
    BY <1>1, <1>9
  <2> QED
    BY <1>6, <2>3, <2>5, <2>6 DEF b
<1> QED
  BY <1>1, <1>7, <1>8, <1>9

-----------------------------------------------------------------------------
(* The arithmetic of the normalizer. *)

(* Division of natural numbers. *)
LEMMA DivFacts ==
  ASSUME NEW a \in Nat, NEW b \in Nat \ {0}
  PROVE  a \div b \in Nat /\ (a \div b) * b <= a /\ a < (a \div b) * b + b
BY SMT

LEMMA Times ==
  ASSUME NEW a \in Nat, NEW b \in Nat, NEW c \in Nat \ {0}
  PROVE  /\ a * c \in Nat /\ (a + 1) * c = a * c + c
         /\ a <= b => a * c <= b * c
         /\ a * c < b * c => a < b
         /\ a * c = 0 <=> a = 0
BY SMT

(* A function on 1 .. k is a sequence of length k. *)
LEMMA FnLen ==
  ASSUME NEW k \in Nat, NEW f, f = [i \in 1 .. k |-> f[i]]
  PROVE  Len(f) = k /\ DOMAIN f = 1 .. k
<1> DEFINE S == {f[i] : i \in 1 .. k}
<1>1. f \in [1 .. k -> S]
  OBVIOUS
<1>2. f \in Seq(S)
  BY <1>1
<1> QED
  BY <1>1, <1>2

LEMMA MixLen ==
  ASSUME NEW S, NEW samples \in Seq(S), NEW channels \in Nat \ {0}
  PROVE  LET mono == downmixToMono(samples, channels)
             m == Len(samples) \div channels
         IN  m \in Nat /\ Len(mono) = m /\ DOMAIN mono = 1 .. m
<1> DEFINE mono == downmixToMono(samples, channels)
           m == Len(samples) \div channels
<1>1. Len(samples) \in Nat /\ DOMAIN samples = 1 .. Len(samples)
  OBVIOUS
<1>2. m \in Nat
  BY <1>1, DivFacts
<1>3. CASE channels = 1
  <2>1. m = Len(samples)
    <3>1. \A a \in Nat : a \div 1 = a
      OBVIOUS
    <3> QED
      BY <1>1, <1>3, <3>1
  <2>2. mono = samples
    <3>1. mono = IF channels = 1 THEN samples ELSE mono
      BY DEF downmixToMono
    <3> HIDE DEF mono
    <3> QED
      BY <1>3, <3>1
  <2> QED
    BY <1>1, <1>2, <2>1, <2>2
<1>4. CASE channels # 1
  <2>1. mono = [i \in 1 .. m |-> mono[i]]
    BY <1>4 DEF downmixToMono
  <2> HIDE DEF mono, m
  <2>2. Len(mono) = m /\ DOMAIN mono = 1 .. m
    BY <1>2, <2>1, FnLen
  <2> QED
    BY <1>2, <2>2 DEF mono, m
<1> QED
  BY <1>3, <1>4

-----------------------------------------------------------------------------
(* Sums over the channels.  SumFunction is the choice of a function on the  *)
(* subsets of its domain that fulfils a recursive equation; SomethingAdds   *)
(* says that there is one, with a closed form for it, and what holds of the *)
(* sum then follows by induction over the subsets.                          *)

(* The element that the folds take from a set. *)
Pick(s) == CHOOSE e \in s : TRUE

(* What holds of {}, and of a set if of the set without its Pick, holds of  *)
(* all subsets of a finite set: they are well-founded under inclusion.      *)
LEMMA FiniteInduction ==
  ASSUME NEW S, IsFiniteSet(S), NEW F \in SUBSET (SUBSET S), {} \in F,
         \A s \in SUBSET S : s # {} /\ s \ {Pick(s)} \in F => s \in F
  PROVE  F = SUBSET S
<1> SUFFICES ASSUME F # SUBSET S PROVE FALSE
  OBVIOUS
<1> DEFINE R == StrictSubsetOrdering(S)
           Bad == (SUBSET S) \ F
<1>1. IsWellFoundedOn(R, SUBSET S)
  <2>1. IsWellFoundedOn(R, FiniteSubsetsOf(S))
    BY FS_StrictSubsetOrderingWellFounded
  <2>2. FiniteSubsetsOf(S) = SUBSET S
    BY FS_FiniteSubsetsOfFinite
  <2> QED
    BY <2>1, <2>2
<1>2. Bad # {} /\ Bad \subseteq SUBSET S
  OBVIOUS
<1>3. \E x \in Bad : \A y \in Bad : ~ (<<y, x>> \in R)
  <2> HIDE DEF R, Bad
  <2> QED
    BY <1>1, <1>2, WFMin
<1>4. PICK x \in Bad : \A y \in Bad : ~ (<<y, x>> \in R)
  BY <1>3
<1>5. x # {} /\ Pick(x) \in x
  BY DEF Pick
<1>6. x \ {Pick(x)} \in SUBSET S /\ <<x \ {Pick(x)}, x>> \in R
  BY <1>5 DEF StrictSubsetOrdering
<1> QED
  BY <1>4, <1>5, <1>6

(* x has integer values between lo and hi on the finite set S. *)
Bounded(S, x, lo, hi) ==
  /\ IsFiniteSet(S) /\ x \in [S -> Int] /\ lo \in Int /\ hi \in Int
  /\ \A e \in S : lo <= x[e] /\ x[e] <= hi

LEMMA OneLess ==
  ASSUME NEW S, IsFiniteSet(S), NEW s \in SUBSET S, NEW e \in s
  PROVE  /\ IsFiniteSet(s) /\ IsFiniteSet(s \ {e})
         /\ Cardinality(s) \in Nat /\ Cardinality(s \ {e}) \in Nat
         /\ Cardinality(s) = Cardinality(s \ {e}) + 1
<1>1. /\ IsFiniteSet(s) /\ IsFiniteSet(s \ {e})
      /\ Cardinality(s \ {e}) = Cardinality(s) - 1
  BY FS_Subset, FS_RemoveElement
<1>2. Cardinality(s) \in Nat /\ Cardinality(s \ {e}) \in Nat
  BY <1>1, FS_CardinalityType
<1> QED
  BY <1>1, <1>2

(* The sum over s of x[e] - lo, as a set with as many elements: a column of *)
(* x[e] - lo pairs over each e.                                             *)
Column(s, x, lo, hi) == {p \in s \X (1 .. hi - lo) : p[2] <= x[p[1]] - lo}

LEMMA ColumnGrows ==
  ASSUME NEW S, NEW x, NEW lo, NEW hi, Bounded(S, x, lo, hi),
         NEW s \in SUBSET S, NEW e \in s
  PROVE  /\ IsFiniteSet(s) /\ Cardinality(s) \in Nat
         /\ Cardinality(s \ {e}) \in Nat
         /\ Cardinality(s) = Cardinality(s \ {e}) + 1
         /\ Cardinality(Column(s, x, lo, hi)) \in Nat
         /\ Cardinality(Column(s \ {e}, x, lo, hi)) \in Nat
         /\ Cardinality(Column(s, x, lo, hi))
              = Cardinality(Column(s \ {e}, x, lo, hi)) + (x[e] - lo)
<1>0. /\ IsFiniteSet(S) /\ lo \in Int /\ hi \in Int /\ x[e] \in Int
      /\ lo <= x[e] /\ x[e] <= hi
  BY DEF Bounded
<1>1. /\ IsFiniteSet(s) /\ IsFiniteSet(s \ {e})
      /\ Cardinality(s \ {e}) = Cardinality(s) - 1
  BY <1>0, FS_Subset, FS_RemoveElement
<1>2. Cardinality(s) \in Nat /\ Cardinality(s \ {e}) \in Nat
  BY <1>1, FS_CardinalityType
<1> DEFINE A == Column(s \ {e}, x, lo, hi)
           k == x[e] - lo
           B == {e} \X (1 .. k)
<1>3. k \in Nat /\ k <= hi - lo /\ hi - lo \in Int
  BY <1>0
<1>4. /\ IsFiniteSet(1 .. hi - lo) /\ IsFiniteSet(1 .. k)
      /\ Cardinality(1 .. k) = k
  <2> HIDE DEF k
  <2>1. 1 \in Int
    OBVIOUS
  <2>2. IsFiniteSet(1 .. hi - lo)
    BY <1>3, <2>1, FS_Interval
  <2>3. /\ IsFiniteSet(1 .. k)
        /\ Cardinality(1 .. k) = IF 1 > k THEN 0 ELSE k - 1 + 1
    BY <1>3, <2>1, FS_Interval
  <2> QED
    BY <1>3, <2>2, <2>3
<1>5. IsFiniteSet(A)
  <2>1. IsFiniteSet((s \ {e}) \X (1 .. hi - lo))
    BY <1>1, <1>4, FS_Product
  <2>2. A \in SUBSET ((s \ {e}) \X (1 .. hi - lo))
    BY DEF Column
  <2> QED
    BY <2>1, <2>2, FS_Subset
<1>6. IsFiniteSet(B) /\ Cardinality(B) = k
  <2>1. IsFiniteSet({e}) /\ Cardinality({e}) = 1
    BY FS_Singleton
  <2>2. /\ IsFiniteSet(B)
        /\ Cardinality(B) = Cardinality({e}) * Cardinality(1 .. k)
    BY <1>4, <2>1, FS_Product
  <2> HIDE DEF k, B
  <2> QED
    BY <1>3, <1>4, <2>1, <2>2
<1>7. Column(s, x, lo, hi) = A \union B
  <2>1. ASSUME NEW p \in Column(s, x, lo, hi) PROVE p \in A \union B
    <3>1. /\ p \in s \X (1 .. hi - lo) /\ p[2] <= x[p[1]] - lo
      BY DEF Column
    <3>2. CASE p[1] = e
      BY <3>1, <3>2
    <3>3. CASE p[1] # e
      BY <3>1, <3>3 DEF Column
    <3> QED
      BY <3>2, <3>3
  <2>2. ASSUME NEW p \in A PROVE p \in Column(s, x, lo, hi)
    BY DEF Column
  <2>3. ASSUME NEW p \in B PROVE p \in Column(s, x, lo, hi)
    BY <1>3 DEF Column
  <2> QED
    BY <2>1, <2>2, <2>3
<1>8. A \intersect B = {}
  BY DEF Column
<1>9. Cardinality(A) \in Nat
  BY <1>5, FS_CardinalityType
<1>10. Cardinality(A \union B) = Cardinality(A) + k
  <2> HIDE DEF A, B, k
  <2>1. Cardinality(A \union B)
          = Cardinality(A) + Cardinality(B) - Cardinality(A \intersect B)
    BY <1>5, <1>6, FS_Union
  <2>2. Cardinality(A \intersect B) = 0
    BY <1>8, FS_EmptySet
  <2>3. Cardinality(B) = k
    BY <1>6
  <2> QED
    BY <1>3, <1>9, <2>1, <2>2, <2>3
<1> HIDE DEF A, B
<1> QED
  BY <1>1, <1>2, <1>3, <1>7, <1>9, <1>10 DEF A

(* The sum over s of x[e], by cardinalities. *)
Total(s, x, lo, hi) ==
  Cardinality(Column(s, x, lo, hi)) + lo * Cardinality(s)

LEMMA TotalGrows ==
  ASSUME NEW S, NEW x, NEW lo, NEW hi, Bounded(S, x, lo, hi),
         NEW s \in SUBSET S, NEW e \in s
  PROVE  Total(s, x, lo, hi) = x[e] + Total(s \ {e}, x, lo, hi)
<1> DEFINE c == Cardinality(Column(s, x, lo, hi))
           d == Cardinality(Column(s \ {e}, x, lo, hi))
           m == Cardinality(s)
           n == Cardinality(s \ {e})
<1>1. m = n + 1 /\ n \in Nat /\ m \in Nat /\ c \in Nat /\ d \in Nat
      /\ c = d + (x[e] - lo)
  BY ColumnGrows
<1>2. x[e] \in Int /\ lo \in Int
  BY DEF Bounded
<1> HIDE DEF c, d, m, n
<1>3. lo * m = lo * n + lo /\ lo * n \in Int
  BY <1>1, <1>2
<1>4. c + lo * m = x[e] + (d + lo * n)
  BY <1>1, <1>2, <1>3
<1> QED
  BY <1>4 DEF Total, c, d, m, n

(* The equation of SumFunction on S. *)
Adds(it, S, x) ==
  it = [s \in SUBSET S |-> IF s = {} THEN 0
          ELSE LET e == CHOOSE e \in s : TRUE IN x[e] + it[s \ {e}]]

LEMMA SomethingAdds ==
  ASSUME NEW S, NEW x, NEW lo, NEW hi, Bounded(S, x, lo, hi)
  PROVE  \E it : Adds(it, S, x)
<1> DEFINE h == [s \in SUBSET S |-> Total(s, x, lo, hi)]
           step == [s \in SUBSET S |-> IF s = {} THEN 0
                      ELSE LET e == CHOOSE e \in s : TRUE IN x[e] + h[s \ {e}]]
<1>1. ASSUME NEW s \in SUBSET S PROVE h[s] = step[s]
  <2>1. CASE s = {}
    <3>1. Column({}, x, lo, hi) = {}
      BY DEF Column
    <3>2. Cardinality({}) = 0
      BY FS_EmptySet
    <3>3. lo * 0 = 0
      BY DEF Bounded
    <3> QED
      BY <2>1, <3>1, <3>2, <3>3 DEF Total
  <2>2. CASE s # {}
    <3> DEFINE e == CHOOSE e \in s : TRUE
    <3>1. e \in s /\ s \ {e} \in SUBSET S
      BY <2>2
    <3>2. step[s] = x[e] + h[s \ {e}]
      BY <2>2
    <3> HIDE DEF e
    <3>3. Total(s, x, lo, hi) = x[e] + Total(s \ {e}, x, lo, hi)
      BY <3>1, TotalGrows
    <3> QED
      BY <3>1, <3>2, <3>3
  <2> QED
    BY <2>1, <2>2
<1>2. h = step
  BY <1>1
<1>3. Adds(h, S, x)
  BY <1>2 DEF Adds
<1> QED
  BY <1>3

(* The sum of x over S, taken element by element. *)
LEMMA SumAdds ==
  ASSUME NEW S, NEW x, NEW lo, NEW hi, Bounded(S, x, lo, hi)
  PROVE  \E it :
           /\ it[{}] = 0
           /\ \A s \in SUBSET S :
                s # {} => it[s] = x[Pick(s)] + it[s \ {Pick(s)}]
           /\ SumFunction(x) = it[S]
<1> DEFINE it == CHOOSE it : Adds(it, S, x)
<1>1. Adds(it, S, x)
  BY SomethingAdds
<1>2. SumFunction(x) = it[S]
  <2>1. DOMAIN x = S
    BY DEF Bounded
  <2> QED
    BY <2>1 DEF SumFunction, SumFunctionOnSet, FoldFunctionOnSet,
                MapThenFoldSet, Adds
<1> HIDE DEF it
<1>3. it[{}] = 0
  BY <1>1 DEF Adds
<1>4. ASSUME NEW s \in SUBSET S, s # {}
      PROVE  it[s] = x[Pick(s)] + it[s \ {Pick(s)}]
  BY <1>1, <1>4 DEF Adds, Pick
<1> QED
  BY <1>2, <1>3, <1>4

(* The sum is between as many times the lower and the upper bound. *)
LEMMA SumBetween ==
  ASSUME NEW S, NEW x, NEW lo, NEW hi, Bounded(S, x, lo, hi)
  PROVE  /\ SumFunction(x) \in Int
         /\ lo * Cardinality(S) <= SumFunction(x)
         /\ SumFunction(x) <= hi * Cardinality(S)
<1>1. PICK it : /\ it[{}] = 0
                /\ \A s \in SUBSET S :
                     s # {} => it[s] = x[Pick(s)] + it[s \ {Pick(s)}]
                /\ SumFunction(x) = it[S]
  BY SumAdds
<1> DEFINE F == {s \in SUBSET S : /\ it[s] \in Int
                                  /\ lo * Cardinality(s) <= it[s]
                                  /\ it[s] <= hi * Cardinality(s)}
<1>2. {} \in F
  <2>1. Cardinality({}) = 0
    BY FS_EmptySet
  <2>2. lo * 0 = 0 /\ hi * 0 = 0
    BY DEF Bounded
  <2> QED
    BY <1>1, <2>1, <2>2
<1>3. ASSUME NEW s \in SUBSET S, s # {}, s \ {Pick(s)} \in F PROVE s \in F
  <2> DEFINE e == Pick(s)
             m == Cardinality(s)
             n == Cardinality(s \ {e})
             u == it[s \ {e}]
  <2>1. e \in s
    BY <1>3 DEF Pick
  <2>2. it[s] = x[e] + u
    BY <1>1, <1>3
  <2>3. u \in Int /\ lo * n <= u /\ u <= hi * n
    BY <1>3
  <2> HIDE DEF e
  <2>4. m \in Nat /\ n \in Nat /\ m = n + 1
    <3>1. IsFiniteSet(S)
      BY DEF Bounded
    <3> QED
      BY <2>1, <3>1, OneLess
  <2>5. /\ lo \in Int /\ hi \in Int /\ x[e] \in Int
        /\ lo <= x[e] /\ x[e] <= hi
    BY <2>1 DEF Bounded
  <2> HIDE DEF m, n, u
  <2>6. lo * m = lo * n + lo /\ hi * m = hi * n + hi
        /\ lo * n \in Int /\ hi * n \in Int
    BY <2>4, <2>5
  <2>7. it[s] \in Int /\ lo * m <= it[s] /\ it[s] <= hi * m
    BY <2>2, <2>3, <2>5, <2>6
  <2> QED
    BY <2>7 DEF m
<1>4. F = SUBSET S
  <2>1. IsFiniteSet(S)
    BY DEF Bounded
  <2>2. F \in SUBSET (SUBSET S)
    OBVIOUS
  <2> HIDE DEF F
  <2> QED
    BY <1>2, <1>3, <2>1, <2>2, FiniteInduction
<1>5. S \in F
  BY <1>4
<1> QED
  BY <1>1, <1>5

(* The sum of the inverse values is the inverse sum. *)
LEMMA SumInverse ==
  ASSUME NEW S, NEW x, NEW lo, NEW hi, Bounded(S, x, lo, hi)
  PROVE  SumFunction([e \in S |-> -x[e]]) = -SumFunction(x)
<1> DEFINE y == [e \in S |-> -x[e]]
<1>1. Bounded(S, y, -hi, -lo)
  BY DEF Bounded
<1>2. PICK it : /\ it[{}] = 0
                /\ \A s \in SUBSET S :
                     s # {} => it[s] = x[Pick(s)] + it[s \ {Pick(s)}]
                /\ SumFunction(x) = it[S]
  BY SumAdds
<1>3. PICK jt : /\ jt[{}] = 0
                /\ \A s \in SUBSET S :
                     s # {} => jt[s] = y[Pick(s)] + jt[s \ {Pick(s)}]
                /\ SumFunction(y) = jt[S]
  <2> HIDE DEF y
  <2> QED
    BY <1>1, SumAdds
<1> DEFINE F == {s \in SUBSET S : it[s] \in Int /\ jt[s] = -it[s]}
<1>4. {} \in F
  BY <1>2, <1>3
<1>5. ASSUME NEW s \in SUBSET S, s # {}, s \ {Pick(s)} \in F PROVE s \in F
  <2> DEFINE e == Pick(s)
             u == it[s \ {e}]
             v == jt[s \ {e}]
  <2>1. e \in s
    BY <1>5 DEF Pick
  <2>2. it[s] = x[e] + u
    BY <1>2, <1>5
  <2>3. jt[s] = y[e] + v
    BY <1>3, <1>5
  <2>4. u \in Int /\ v = -u
    BY <1>5
  <2> HIDE DEF e
  <2>5. x[e] \in Int /\ y[e] = -x[e]
    BY <2>1 DEF Bounded
  <2> HIDE DEF u, v, y
  <2>6. it[s] \in Int /\ jt[s] = -it[s]
    BY <2>2, <2>3, <2>4, <2>5
  <2> QED
    BY <2>6
<1>6. F = SUBSET S
  <2>1. IsFiniteSet(S)
    BY DEF Bounded
  <2>2. F \in SUBSET (SUBSET S)
    OBVIOUS
  <2> HIDE DEF F
  <2> QED
    BY <1>4, <1>5, <2>1, <2>2, FiniteInduction
<1>7. S \in F
  BY <1>6
<1> QED
  BY <1>2, <1>3, <1>7

(* The quotient towards zero is less than one off, and odd. *)
LEMMA QuotFacts ==
  ASSUME NEW a \in Int, NEW c \in Nat \ {0}
  PROVE  /\ Quot(a, c) \in Int /\ Quot(-a, c) = -Quot(a, c)
         /\ (Quot(a, c) - 1) * c < a /\ a < (Quot(a, c) + 1) * c
<1>1. ASSUME NEW b \in Nat
      PROVE  /\ Quot(b, c) \in Int /\ Quot(-b, c) = -Quot(b, c)
             /\ (Quot(b, c) - 1) * c < b /\ b < (Quot(b, c) + 1) * c
             /\ (-Quot(b, c) - 1) * c < -b /\ -b < (-Quot(b, c) + 1) * c
  <2> DEFINE q == b \div c
  <2>1. q \in Nat /\ q * c <= b /\ b < q * c + c
    BY DivFacts
  <2>2. Quot(b, c) = q
    BY DEF Quot
  <2>3. Quot(-b, c) = -q
    <3>1. CASE b <= 0
      <4>1. \A k \in Int : k <= 0 /\ k >= 0 => -k = k
        OBVIOUS
      <4>2. -b = b /\ b = 0
        BY <3>1, <4>1
      <4>3. q = 0
        BY <4>2
      <4>4. Quot(-b, c) = q
        BY <2>2, <4>2
      <4>5. -q = q
        <5>1. q <= 0 /\ q >= 0 /\ q \in Int
          BY <4>3
        <5> HIDE DEF q
        <5> QED
          BY <5>1, <4>1
      <4> QED
        BY <4>4, <4>5
    <3>2. CASE b > 0
      <4>1. ~(-b >= 0) /\ -(-b) = b
        BY <3>2
      <4> QED
        BY <4>1 DEF Quot
    <3> QED
      BY <3>1, <3>2
  <2> HIDE DEF q
  <2>4. /\ (q - 1) * c = q * c - c /\ (q + 1) * c = q * c + c
        /\ (-q - 1) * c = -(q * c) - c /\ (-q + 1) * c = -(q * c) + c
        /\ q * c \in Int
    BY <2>1
  <2> QED
    BY <2>1, <2>2, <2>3, <2>4
<1>2. CASE a \in Nat
  BY <1>1, <1>2
<1>3. CASE a \notin Nat
  <2>1. -a \in Nat /\ -(-a) = a
    BY <1>3
  <2> DEFINE b == -a
  <2>2. /\ b \in Nat /\ a = -b
    BY <2>1
  <2> HIDE DEF b
  <2>3. /\ Quot(b, c) \in Int /\ Quot(a, c) = -Quot(b, c)
        /\ (-Quot(b, c) - 1) * c < a /\ a < (-Quot(b, c) + 1) * c
    BY <1>1, <2>2
  <2>4. Quot(b, c) = -Quot(a, c)
    BY <2>3
  <2> QED
    BY <2>3, <2>4 DEF b
<1> QED
  BY <1>2, <1>3

-----------------------------------------------------------------------------
(* The mixer: the mean of the channels, rounded towards zero. *)

Mean(x, c) == Quot(SumFunction(x), c)

(* The mean has the bounds of the values. *)
LEMMA MeanBetween ==
  ASSUME NEW c \in Nat \ {0}, NEW x, NEW lo, NEW hi,
         Bounded(1 .. c, x, lo, hi)
  PROVE  Mean(x, c) \in Int /\ lo <= Mean(x, c) /\ Mean(x, c) <= hi
<1> DEFINE s == SumFunction(x)
           q == Mean(x, c)
<1>1. Cardinality(1 .. c) = c
  <2>1. 1 \in Int /\ c \in Int /\ c >= 1
    OBVIOUS
  <2>2. Cardinality(1 .. c) = IF 1 > c THEN 0 ELSE c - 1 + 1
    BY <2>1, FS_Interval
  <2> QED
    BY <2>1, <2>2
<1>2. s \in Int /\ lo * c <= s /\ s <= hi * c
  BY <1>1, SumBetween
<1>3. q \in Int /\ (q - 1) * c < s /\ s < (q + 1) * c
  BY <1>2, QuotFacts DEF Mean
<1>4. lo \in Int /\ hi \in Int
  BY DEF Bounded
<1> HIDE DEF s, q
<1>5. ASSUME NEW a \in Int, NEW b \in Int, a * c < b * c PROVE a < b
  <2> SUFFICES ASSUME b <= a PROVE FALSE
    BY <1>5
  <2>1. b * c <= a * c
    BY SMT
  <2> QED
    BY <1>5, <2>1
<1>6. lo < q + 1
  <2>1. q + 1 \in Int /\ lo * c \in Int /\ (q + 1) * c \in Int
    BY <1>3, <1>4
  <2>2. lo * c < (q + 1) * c
    BY <1>2, <1>3, <2>1
  <2> QED
    BY <1>4, <1>5, <2>1, <2>2
<1>7. q - 1 < hi
  <2>1. q - 1 \in Int /\ hi * c \in Int /\ (q - 1) * c \in Int
    BY <1>3, <1>4
  <2>2. (q - 1) * c < hi * c
    BY <1>2, <1>3, <2>1
  <2> QED
    BY <1>4, <1>5, <2>1, <2>2
<1> QED
  BY <1>3, <1>4, <1>6, <1>7 DEF q

(* The mean of the inverse values is the inverse mean, and there are values *)
(* on both sides of it: else one more or less would be a bound of them all. *)
LEMMA MeanIsFair ==
  ASSUME NEW c \in Nat \ {0}, NEW x, NEW lo, NEW hi,
         Bounded(1 .. c, x, lo, hi)
  PROVE  /\ Mean([e \in 1 .. c |-> -x[e]], c) = -Mean(x, c)
         /\ \E e \in 1 .. c : x[e] <= Mean(x, c)
         /\ \E e \in 1 .. c : x[e] >= Mean(x, c)
<1> DEFINE q == Mean(x, c)
<1>1. q \in Int
  BY MeanBetween
<1>2. /\ IsFiniteSet(1 .. c) /\ x \in [1 .. c -> Int]
      /\ lo \in Int /\ hi \in Int
      /\ \A e \in 1 .. c : x[e] \in Int /\ lo <= x[e] /\ x[e] <= hi
  BY DEF Bounded
<1>3. Mean([e \in 1 .. c |-> -x[e]], c) = -q
  <2>1. SumFunction(x) \in Int
    BY SumBetween
  <2>2. SumFunction([e \in 1 .. c |-> -x[e]]) = -SumFunction(x)
    BY SumInverse
  <2> QED
    BY <2>1, <2>2, QuotFacts DEF Mean
<1>4. \E e \in 1 .. c : x[e] <= q
  <2> SUFFICES ASSUME \A e \in 1 .. c : ~(x[e] <= q) PROVE FALSE
    OBVIOUS
  <2> HIDE DEF q
  <2>1. q + 1 \in Int /\ \A e \in 1 .. c : q + 1 <= x[e]
    BY <1>1, <1>2
  <2>2. Bounded(1 .. c, x, q + 1, hi)
    BY <1>2, <2>1 DEF Bounded
  <2>3. q + 1 <= Mean(x, c)
    BY <2>2, MeanBetween
  <2> QED
    BY <1>1, <2>3 DEF q
<1>5. \E e \in 1 .. c : x[e] >= q
  <2> SUFFICES ASSUME \A e \in 1 .. c : ~(x[e] >= q) PROVE FALSE
    OBVIOUS
  <2> HIDE DEF q
  <2>1. q - 1 \in Int /\ \A e \in 1 .. c : x[e] <= q - 1
    BY <1>1, <1>2
  <2>2. Bounded(1 .. c, x, lo, q - 1)
    BY <1>2, <2>1 DEF Bounded
  <2>3. Mean(x, c) <= q - 1
    BY <2>2, MeanBetween
  <2> QED
    BY <1>1, <2>3 DEF q
<1> QED
  BY <1>3, <1>4, <1>5

(* The samples of all channels at moment t. *)
Moment(samples, c, t) == [ch \in 1 .. c |-> samples[t * c + ch]]

LEMMA MomentInside ==
  ASSUME NEW n \in Nat, NEW c \in Nat \ {0}, NEW t \in 0 .. n \div c - 1,
         NEW ch \in 1 .. c
  PROVE  /\ t * c + ch \in 1 .. n
         /\ t * c + ch \in t * c + 1 .. (t + 1) * c
<1> DEFINE m == n \div c
<1>1. m \in Nat /\ m * c <= n /\ t \in Nat /\ t + 1 <= m
  <2>1. m \in Nat /\ m * c <= n
    BY DivFacts
  <2> HIDE DEF m
  <2>2. t \in 0 .. m - 1
    BY DEF m
  <2> QED
    BY <2>1, <2>2
<1> HIDE DEF m
<1>2. /\ (t + 1) * c = t * c + c /\ (t + 1) * c <= m * c
      /\ t * c \in Nat /\ m * c \in Nat
  BY <1>1, SMT
<1> QED
  BY <1>1, <1>2

LEMMA MixedMoment ==
  ASSUME NEW samples \in Seq(Int16), NEW c \in Nat \ {0}, c # 1,
         NEW t \in 0 .. Len(samples) \div c - 1
  PROVE  /\ downmixToMono(samples, c)[t + 1] = Mean(Moment(samples, c, t), c)
         /\ Bounded(1 .. c, Moment(samples, c, t), -32768, 32767)
<1> DEFINE m == Len(samples) \div c
<1>1. Len(samples) \in Nat /\ m \in Nat
  <2>1. Len(samples) \in Nat
    OBVIOUS
  <2> QED
    BY <2>1, DivFacts
<1>2. downmixToMono(samples, c)
        = [i \in 1 .. m |->
             Mean([ch \in 1 .. c |-> samples[(i - 1) * c + ch]], c)]
  BY DEF downmixToMono, Mean
<1>3. t \in 0 .. m - 1
  OBVIOUS
<1> HIDE DEF m
<1>4. t + 1 \in 1 .. m /\ t + 1 - 1 = t
  BY <1>1, <1>3
<1>5. downmixToMono(samples, c)[t + 1] = Mean(Moment(samples, c, t), c)
  BY <1>2, <1>4 DEF Moment
<1>6. ASSUME NEW ch \in 1 .. c
      PROVE  /\ samples[t * c + ch] \in Int
             /\ -32768 <= samples[t * c + ch] /\ samples[t * c + ch] <= 32767
  <2>1. t * c + ch \in 1 .. Len(samples)
    BY <1>1, MomentInside
  <2>2. samples[t * c + ch] \in Int16
    BY <2>1
  <2> QED
    BY <2>2, Int16Is
<1>7. IsFiniteSet(1 .. c)
  BY FS_Interval
<1>8. -32768 \in Int /\ 32767 \in Int
  OBVIOUS
<1> DEFINE x == Moment(samples, c, t)
<1>9. /\ x = [ch \in 1 .. c |-> x[ch]]
      /\ \A ch \in 1 .. c : x[ch] = samples[t * c + ch]
  BY DEF Moment
<1> HIDE DEF x
<1>10. \A ch \in 1 .. c :
         x[ch] \in Int /\ -32768 <= x[ch] /\ x[ch] <= 32767
  BY <1>6, <1>9
<1>11. Bounded(1 .. c, x, -32768, 32767)
  <2>1. x \in [1 .. c -> Int]
    BY <1>9, <1>10
  <2> QED
    BY <1>7, <1>8, <1>10, <2>1 DEF Bounded
<1> QED
  BY <1>5, <1>11 DEF x

(* The sample mixed for moment t is a 16-bit one and has no bias. *)
MixedFairly(samples, c, t) ==
  LET mixed == downmixToMono(samples, c)[t + 1]
      inverse == [i \in DOMAIN samples |-> -samples[i]]
      of == t * c + 1 .. (t + 1) * c
  IN /\ mixed \in Int16
     /\ downmixToMono(inverse, c)[t + 1] = -mixed
     /\ \E i \in of : samples[i] <= mixed
     /\ \E i \in of : samples[i] >= mixed

LEMMA MonoIsFair ==
  ASSUME NEW samples \in Seq(Int16), NEW t \in 0 .. Len(samples) \div 1 - 1
  PROVE  MixedFairly(samples, 1, t)
<1> DEFINE n == Len(samples)
<1>1. n \in Nat /\ DOMAIN samples = 1 .. n
  OBVIOUS
<1>2. t \in Nat /\ t + 1 \in 1 .. n
  <2>1. \A a \in Nat : a \div 1 = a
    OBVIOUS
  <2>2. t \in 0 .. n - 1
    BY <1>1, <2>1
  <2> HIDE DEF n
  <2> QED
    BY <1>1, <2>2
<1>3. samples[t + 1] \in Int16
  BY <1>2
<1>4. samples[t + 1] \in Int
  BY <1>3, Int16Is
<1>5. t + 1 \in t * 1 + 1 .. (t + 1) * 1
  BY <1>2
<1>6. \A s : downmixToMono(s, 1) = s
  BY DEF downmixToMono
<1>7. [i \in DOMAIN samples |-> -samples[i]][t + 1] = -samples[t + 1]
  BY <1>1, <1>2
<1>8. samples[t + 1] <= samples[t + 1] /\ samples[t + 1] >= samples[t + 1]
  BY <1>4
<1> QED
  BY <1>3, <1>5, <1>6, <1>7, <1>8 DEF MixedFairly

LEMMA ChannelsAreFair ==
  ASSUME NEW samples \in Seq(Int16), NEW c \in Nat \ {0}, c # 1,
         NEW t \in 0 .. Len(samples) \div c - 1
  PROVE  MixedFairly(samples, c, t)
<1> DEFINE x == Moment(samples, c, t)
           inverse == [i \in DOMAIN samples |-> -samples[i]]
           mixed == downmixToMono(samples, c)[t + 1]
<1>1. mixed = Mean(x, c) /\ Bounded(1 .. c, x, -32768, 32767)
  BY MixedMoment
<1>2. Len(samples) \in Nat /\ DOMAIN samples = 1 .. Len(samples)
  OBVIOUS
<1>3. \A ch \in 1 .. c : /\ t * c + ch \in DOMAIN samples
                         /\ t * c + ch \in t * c + 1 .. (t + 1) * c
  BY <1>2, MomentInside
<1>4. \A ch \in 1 .. c : x[ch] = samples[t * c + ch]
  BY DEF Moment
<1>5. downmixToMono(inverse, c)[t + 1] = Mean([ch \in 1 .. c |-> -x[ch]], c)
  <2> DEFINE m == Len(samples) \div c
  <2>1. m \in Nat
    BY <1>2, DivFacts
  <2>2. Len(inverse) = Len(samples)
    <3>1. inverse = [i \in 1 .. Len(samples) |-> inverse[i]]
      BY <1>2
    <3> HIDE DEF inverse
    <3> QED
      BY <1>2, <3>1, FnLen
  <2>3. t \in 0 .. m - 1
    OBVIOUS
  <2>4. downmixToMono(inverse, c)
          = [i \in 1 .. m |->
               Mean([ch \in 1 .. c |-> inverse[(i - 1) * c + ch]], c)]
    <3> HIDE DEF inverse
    <3> QED
      BY <2>2 DEF downmixToMono, Mean
  <2> HIDE DEF m
  <2>5. t + 1 \in 1 .. m /\ t + 1 - 1 = t
    BY <2>1, <2>3
  <2>6. downmixToMono(inverse, c)[t + 1]
          = Mean([ch \in 1 .. c |-> inverse[t * c + ch]], c)
    <3> HIDE DEF inverse
    <3> QED
      BY <2>4, <2>5
  <2>7. \A ch \in 1 .. c : inverse[t * c + ch] = -x[ch]
    BY <1>3, <1>4
  <2>8. [ch \in 1 .. c |-> inverse[t * c + ch]] = [ch \in 1 .. c |-> -x[ch]]
    <3> HIDE DEF inverse, x
    <3> QED
      BY <2>7
  <2> QED
    BY <2>6, <2>8
<1> HIDE DEF x, inverse, mixed
<1>6. mixed \in Int16
  <2>1. Mean(x, c) \in Int /\ -32768 <= Mean(x, c) /\ Mean(x, c) <= 32767
    BY <1>1, MeanBetween
  <2> QED
    BY <1>1, <2>1, Int16Is
<1>7. /\ Mean([e \in 1 .. c |-> -x[e]], c) = -Mean(x, c)
      /\ \E e \in 1 .. c : x[e] <= Mean(x, c)
      /\ \E e \in 1 .. c : x[e] >= Mean(x, c)
  BY <1>1, MeanIsFair
<1>8. /\ \E i \in t * c + 1 .. (t + 1) * c : samples[i] <= mixed
      /\ \E i \in t * c + 1 .. (t + 1) * c : samples[i] >= mixed
  <2>1. PICK low \in 1 .. c : x[low] <= mixed
    BY <1>1, <1>7
  <2>2. PICK high \in 1 .. c : x[high] >= mixed
    BY <1>1, <1>7
  <2>3. samples[t * c + low] <= mixed /\ samples[t * c + high] >= mixed
    BY <1>4, <2>1, <2>2
  <2>4. /\ t * c + low \in t * c + 1 .. (t + 1) * c
        /\ t * c + high \in t * c + 1 .. (t + 1) * c
    BY <1>3
  <2> QED
    BY <2>3, <2>4
<1> QED
  BY <1>1, <1>5, <1>6, <1>7, <1>8 DEF MixedFairly, inverse, mixed

LEMMA EveryMoment ==
  ASSUME NEW samples \in Seq(Int16), NEW c \in Nat \ {0},
         NEW t \in 0 .. Len(samples) \div c - 1
  PROVE  MixedFairly(samples, c, t)
BY MonoIsFair, ChannelsAreFair

(* int16(sum / channels) is the mean itself (pcm_normalizer.go:97). *)
LEMMA MixIsInt16 ==
  ASSUME NEW samples \in Seq(Int16), NEW c \in Nat \ {0}
  PROVE  downmixToMono(samples, c) \in Seq(Int16)
<1> DEFINE mono == downmixToMono(samples, c)
           m == Len(samples) \div c
<1>1. m \in Nat /\ Len(mono) = m /\ DOMAIN mono = 1 .. m
  BY MixLen
<1>2. ASSUME NEW t \in 0 .. m - 1 PROVE mono[t + 1] \in Int16
  BY EveryMoment DEF MixedFairly
<1>3. mono = [i \in 1 .. m |-> mono[i]]
  <2>1. CASE c = 1
    <3>1. mono = samples
      BY <2>1 DEF downmixToMono
    <3>2. samples = [i \in DOMAIN samples |-> samples[i]]
      OBVIOUS
    <3> HIDE DEF mono, m
    <3> QED
      BY <1>1, <3>1, <3>2
  <2>2. CASE c # 1
    BY <2>2 DEF downmixToMono
  <2> QED
    BY <2>1, <2>2
<1> HIDE DEF mono, m
<1>4. ASSUME NEW i \in 1 .. m PROVE mono[i] \in Int16
  <2>1. i - 1 \in 0 .. m - 1 /\ (i - 1) + 1 = i
    BY <1>1
  <2> QED
    BY <1>2, <2>1
<1> QED
  BY <1>1, <1>3, <1>4 DEF mono

(* Nearest-neighbour resampling of m samples: how many come out, and which  *)
(* of the m each of them is.                                                *)
LEMMA ResampleTimes ==
  ASSUME NEW m \in Nat, NEW mono, Len(mono) = m, DOMAIN mono = 1 .. m,
         NEW r \in Nat \ {0}, NEW T \in Nat \ {0}
  PROVE  LET out == resampleNearest(mono, r, T)
             n == Len(out)
         IN  /\ n \in Nat /\ DOMAIN out = 1 .. n
             /\ m * T = 0 => n = 0
             /\ m * T # 0 => \/ n * r <= m * T /\ m * T < n * r + r
                             \/ n = 1 /\ m * T < r
             /\ \A i \in 0 .. n - 1 : \E t \in 0 .. m - 1 :
                  /\ t * T <= i * r /\ i * r < (t + 1) * T
                  /\ out[i + 1] = mono[t + 1]
<1> DEFINE out == resampleNearest(mono, r, T)
           n == Len(out)
<1>1. CASE m = 0
  <2>1. out = mono
    BY <1>1 DEF resampleNearest
  <2> HIDE DEF out
  <2>2. n = 0 /\ DOMAIN out = 1 .. n /\ m * T = 0
    BY <1>1, <2>1
  <2> QED
    BY <2>2 DEF out
<1>2. CASE m # 0 /\ r = T
  <2>1. out = mono
    BY <1>2 DEF resampleNearest
  <2> HIDE DEF out
  <2>2. n = m /\ DOMAIN out = 1 .. n /\ n * r = m * T /\ m * T # 0
        /\ n * r \in Nat
    BY <1>2, <2>1, Times
  <2>3. ASSUME NEW i \in 0 .. n - 1
        PROVE  \E t \in 0 .. m - 1 :
                  /\ t * T <= i * r /\ i * r < (t + 1) * T
                  /\ out[i + 1] = mono[t + 1]
    <3>1. i \in 0 .. m - 1 /\ i \in Nat
      BY <2>2
    <3>2. i * T <= i * r /\ i * r < (i + 1) * T
      BY <1>2, <3>1, Times
    <3> QED
      BY <2>1, <3>1, <3>2
  <2> QED
    BY <2>2, <2>3 DEF out
<1>3. CASE m # 0 /\ r # T
  <2> DEFINE q == (m * T) \div r
             L == OutLen(m, r, T)
  <2>1. /\ m * T \in Nat /\ m * T # 0
        /\ q \in Nat /\ q * r <= m * T /\ m * T < q * r + r
    BY <1>3, Times, DivFacts
  <2>2. L \in Nat /\ L = (IF q >= 1 THEN q ELSE 1)
    BY <2>1 DEF OutLen, Higher
  <2>3. out = [i \in 1 .. L |-> mono[Source(i - 1, m, r, T) + 1]]
    BY <1>3 DEF resampleNearest
  <2> HIDE DEF out, q, L
  <2>4. n = L /\ DOMAIN out = 1 .. n
    BY <2>2, <2>3, FnLen
  <2>5. \/ n * r <= m * T /\ m * T < n * r + r
        \/ n = 1 /\ m * T < r
    <3>1. CASE q >= 1
      BY <2>1, <2>2, <2>4, <3>1
    <3>2. CASE q = 0
      BY <2>1, <2>2, <2>4, <3>2
    <3> QED
      BY <2>1, <3>1, <3>2
  <2>6. ASSUME NEW i \in 0 .. n - 1
        PROVE  \E t \in 0 .. m - 1 :
                  /\ t * T <= i * r /\ i * r < (t + 1) * T
                  /\ out[i + 1] = mono[t + 1]
    <3> DEFINE t == (i * r) \div T
    <3>1. i \in Nat /\ i + 1 \in 1 .. L /\ i + 1 - 1 = i
      BY <2>2, <2>4
    <3>2. i * r \in Nat /\ i * r < m * T
      <4>1. i * r \in Nat /\ (i + 1) * r = i * r + r
        BY <3>1, Times
      <4>2. CASE q >= 1
        <5>1. i + 1 <= q
          BY <2>2, <3>1, <4>2
        <5>2. (i + 1) * r <= q * r
          BY <2>1, <3>1, <5>1, Times
        <5> QED
          BY <2>1, <4>1, <5>2
      <4>3. CASE q = 0
        <5>1. i = 0
          BY <2>2, <3>1, <4>3
        <5> QED
          BY <2>1, <5>1
      <4> QED
        BY <2>1, <4>2, <4>3
    <3>3. t \in Nat /\ t * T <= i * r /\ i * r < t * T + T
      BY <3>2, DivFacts
    <3> HIDE DEF t
    <3>4. (t + 1) * T = t * T + T /\ t * T \in Nat
      BY <3>3, Times
    <3>5. t < m
      <4>1. t * T < m * T
        BY <2>1, <3>2, <3>3, <3>4
      <4> QED
        BY <3>3, <4>1, Times
    <3>6. Source(i, m, r, T) = t
      BY <3>3, <3>5 DEF Source, Lower, t
    <3>7. out[i + 1] = mono[t + 1]
      BY <2>3, <3>1, <3>6
    <3>8. t \in 0 .. m - 1
      BY <3>3, <3>5
    <3> QED
      BY <3>3, <3>4, <3>7, <3>8
  <2> QED
    BY <2>1, <2>4, <2>5, <2>6 DEF out
<1> QED
  BY <1>1, <1>2, <1>3

(* Resampled from rate r to rate T, each sample is the one of its time. *)
Plays(mono, r, T) ==
  \A i \in 0 .. Len(resampleNearest(mono, r, T)) - 1 :
    \E t \in 0 .. Len(mono) - 1 :
      /\ t * T <= i * r /\ i * r < (t + 1) * T
      /\ resampleNearest(mono, r, T)[i + 1] = mono[t + 1]

LEMMA ResamplePlays ==
  ASSUME NEW m \in Nat, NEW mono, Len(mono) = m, DOMAIN mono = 1 .. m,
         NEW r \in Nat \ {0}, NEW T \in Nat \ {0}
  PROVE  Plays(mono, r, T)
<1> DEFINE out == resampleNearest(mono, r, T)
<1>1. \A i \in 0 .. Len(out) - 1 : \E t \in 0 .. m - 1 :
        /\ t * T <= i * r /\ i * r < (t + 1) * T
        /\ out[i + 1] = mono[t + 1]
  BY ResampleTimes, SMTT(30)
<1> HIDE DEF out
<1>2. \A i \in 0 .. Len(out) - 1 : \E t \in 0 .. Len(mono) - 1 :
        /\ t * T <= i * r /\ i * r < (t + 1) * T
        /\ out[i + 1] = mono[t + 1]
  BY <1>1, Len(mono) = m
<1> QED
  BY <1>2 DEF Plays, out

-----------------------------------------------------------------------------
(* What became of the samples of the given frame when it reaches a stage.   *)

Resampled ==
  resampleNearest(downmixToMono(given.payload, given.channels),
                  given.rate, TargetRate)
Decoded == [i \in DOMAIN given.payload |-> alawToLinear(given.payload[i])]
Encoded == [i \in DOMAIN Resampled |-> linearToALaw(Resampled[i])]

UpStages == {"base64_decode", "alaw_decode", "enhancement", "vad", "service"}
DownStages == {"pcm_normalize", "reference_tap", "alaw_encode",
               "base64_encode", "client"}

(* The frame was fit for the normalizer. *)
Normalizable == given.rate \in Nat \ {0} /\ given.channels \in Nat \ {0}

UplinkInv ==
  /\ stage \in UpStages =>
       /\ given.payload \in Seq(Byte)
       /\ given.rate = StreamRate /\ given.channels = StreamChannels
       /\ references = << >>
  /\ stage \in {"base64_decode", "alaw_decode"} =>
       frame.payload = given.payload
  /\ stage \in {"enhancement", "vad", "service"} => frame.payload = Decoded

DownlinkInv ==
  /\ stage \in DownStages =>
       /\ given.payload \in Seq(Int16)
       /\ given.rate \in Int /\ given.channels \in Int
  /\ stage = "pcm_normalize" => frame = given
  /\ stage \in DownStages \ {"pcm_normalize"} => Normalizable
  /\ stage \in {"reference_tap", "alaw_encode"} => frame.payload = Resampled
  /\ stage \in {"base64_encode", "client"} => frame.payload = Encoded

(* The copies of the tap outlive the frame. *)
ReferencesInv ==
  /\ stage \in {"pcm_normalize", "reference_tap"} => references = << >>
  /\ stage \in {"alaw_encode", "base64_encode", "client"} =>
       Len(references) = 1 /\ DOMAIN references = {1}
  /\ \A k \in DOMAIN references :
       /\ given.payload \in Seq(Int16) /\ Normalizable
       /\ references[k].payload = Resampled

LEMMA PayloadsAre ==
  ASSUME NEW S, NEW n \in Nat, NEW p \in Payloads(S, n)
  PROVE  p \in Seq(S)
<1>1. PICK k \in 0 .. n : p \in [1 .. k -> S]
  BY DEF Payloads
<1> QED
  BY <1>1

LEMMA SamplesInit == Init => UplinkInv /\ DownlinkInv /\ ReferencesInv
<1> SUFFICES ASSUME Init PROVE UplinkInv /\ DownlinkInv /\ ReferencesInv
  OBVIOUS
<1>0. references = << >> /\ frame = given /\ DOMAIN references = {}
  BY DEF Init
<1>1. CASE stage = "base64_decode"
  <2>1. PICK broken \in BOOLEAN,
             p \in Payloads(Byte, 1) \union {<<b, b>> : b \in Byte} :
          given = Frame("base64", StreamRate, StreamChannels, broken, p)
    BY <1>1 DEF Init, Uplink, Downlink
  <2>2. p \in Seq(Byte)
    <3>1. CASE p \in Payloads(Byte, 1)
      BY <3>1, PayloadsAre
    <3>2. ASSUME NEW b \in Byte, p = <<b, b>> PROVE p \in Seq(Byte)
      <4>1. <<b, b>> \in Seq(Byte)
        OBVIOUS
      <4> QED
        BY <3>2, <4>1
    <3> QED
      BY <3>1, <3>2
  <2>3. given.payload = p /\ given.rate = StreamRate
        /\ given.channels = StreamChannels
    BY <2>1 DEF Frame
  <2> QED
    BY <1>0, <1>1, <2>2, <2>3
       DEF UplinkInv, DownlinkInv, ReferencesInv, DownStages
<1>2. CASE stage = "pcm_normalize"
  <2>1. /\ given.payload \in Seq(Int16)
        /\ given.rate \in Int /\ given.channels \in Int
    <3>1. CASE \E codec \in Codecs, rate \in Rates, channels \in Channels,
                  broken \in BOOLEAN, p \in Payloads(Levels, MaxSamples) :
                 given = Frame(codec, rate, channels, broken, p)
      <4>1. PICK codec \in Codecs, rate \in Rates, channels \in Channels,
                 broken \in BOOLEAN, p \in Payloads(Levels, MaxSamples) :
                 given = Frame(codec, rate, channels, broken, p)
        BY <3>1
      <4>2. p \in Seq(Levels) /\ Levels \subseteq Int16
        BY MSAssumption, PayloadsAre
      <4>3. p \in Seq(Int16)
        BY <4>2
      <4> QED
        BY <4>1, <4>3, MSAssumption DEF Frame
    <3>2. CASE \E s \in Samples : given = InTargetFormat(<<s>>)
      <4>1. PICK s \in Samples : given = InTargetFormat(<<s>>)
        BY <3>2
      <4>2. <<s>> \in Seq(Int16)
        BY MSAssumption
      <4> QED
        BY <4>1, <4>2, MSAssumption DEF InTargetFormat, Frame
    <3> QED
      BY <1>2, <3>1, <3>2 DEF Init, Uplink, Downlink
  <2> QED
    BY <1>0, <1>2, <2>1
       DEF UplinkInv, DownlinkInv, ReferencesInv, UpStages, DownStages
<1> QED
  BY <1>1, <1>2 DEF Init, Uplink, Downlink

SamplesInv == UplinkInv /\ DownlinkInv /\ ReferencesInv

(* The samples in the three formats are sequences of the same length. *)
LEMMA Lengths ==
  ASSUME Normalizable, NEW S, given.payload \in Seq(S)
  PROVE  /\ Moments \in Nat
         /\ Len(downmixToMono(given.payload, given.channels)) = Moments
         /\ DOMAIN downmixToMono(given.payload, given.channels) = 1 .. Moments
         /\ Len(Resampled) \in Nat /\ DOMAIN Resampled = 1 .. Len(Resampled)
         /\ Len(Encoded) = Len(Resampled) /\ DOMAIN Encoded = DOMAIN Resampled
<1> DEFINE mono == downmixToMono(given.payload, given.channels)
<1>1. /\ Moments \in Nat /\ Len(mono) = Moments /\ DOMAIN mono = 1 .. Moments
  BY MixLen DEF Normalizable, Moments
<1> HIDE DEF mono
<1>2. LET out == resampleNearest(mono, given.rate, TargetRate)
      IN  Len(out) \in Nat /\ DOMAIN out = 1 .. Len(out)
  BY <1>1, ResampleTimes, MSAssumption DEF Normalizable
<1>3. Len(Resampled) \in Nat /\ DOMAIN Resampled = 1 .. Len(Resampled)
  BY <1>2 DEF Resampled, mono
<1>4. Encoded = [i \in 1 .. Len(Resampled) |-> Encoded[i]]
  BY <1>3 DEF Encoded
<1>5. Len(Encoded) = Len(Resampled) /\ DOMAIN Encoded = DOMAIN Resampled
  BY <1>3, <1>4, FnLen
<1> QED
  BY <1>1, <1>3, <1>5 DEF mono

LEMMA SameGiven ==
  ASSUME given' = given
  PROVE  /\ Resampled' = Resampled /\ Decoded' = Decoded /\ Encoded' = Encoded
         /\ Normalizable' = Normalizable
BY DEF Resampled, Decoded, Encoded, Normalizable

(* A step of the uplink, or the end of a frame on either way. *)
LEMMA UplinkStep ==
  ASSUME SamplesInv, CodecInv,
         \/ Refuse \/ Base64Decode \/ ALawDecode \/ Enhance \/ EnhanceFails
         \/ DetectVoice \/ SendToService \/ SendToClient \/ SendFails
         \/ UNCHANGED vars
  PROVE  SamplesInv'
<1> USE SameGiven
    DEF SamplesInv, UplinkInv, DownlinkInv, ReferencesInv, UpStages, DownStages
<1>1. CASE Refuse \/ SendToService \/ SendToClient \/ SendFails \/ EnhanceFails
  <2>1. /\ stage' \in {"failed", "sent"}
        /\ given' = given /\ references' = references
    BY <1>1 DEF Refuse, SendToService, SendToClient, SendFails, EnhanceFails,
                Passes
  <2> QED
    BY <2>1
<1>2. CASE Base64Decode
  <2>1. /\ stage = "base64_decode" /\ stage' = "alaw_decode"
        /\ given' = given /\ references' = references
        /\ frame' = [frame EXCEPT !.codec = "g711_alaw"]
    BY <1>2 DEF Base64Decode, Passes
  <2>2. frame'.payload = frame.payload
    BY <2>1 DEF CodecInv, IsFrame, Frame
  <2> QED
    BY <2>1, <2>2
<1>3. CASE ALawDecode
  <2>1. /\ stage = "alaw_decode" /\ stage' = "enhancement"
        /\ given' = given /\ references' = references
    BY <1>3 DEF ALawDecode, Passes
  <2>2. frame'.payload = Decoded
    BY <1>3, <2>1 DEF ALawDecode, Decoded, InTargetFormat, Frame
  <2> QED
    BY <2>1, <2>2
<1>4. CASE Enhance \/ DetectVoice
  <2>1. /\ \/ stage = "enhancement" /\ stage' = "vad"
           \/ stage = "vad" /\ stage' = "service"
        /\ given' = given /\ references' = references /\ frame' = frame
    BY <1>4 DEF Enhance, DetectVoice, Passes
  <2> QED
    BY <2>1
<1>5. CASE UNCHANGED vars
  BY <1>5 DEF vars
<1> QED
  BY <1>1, <1>2, <1>3, <1>4, <1>5

LEMMA DownlinkStep ==
  ASSUME SamplesInv, CodecInv, Normalize \/ Tap \/ ALawEncode \/ Base64Encode
  PROVE  SamplesInv'
<1> USE SameGiven
    DEF SamplesInv, UplinkInv, DownlinkInv, ReferencesInv, UpStages, DownStages
<1>1. CASE Normalize
  <2>1. /\ stage = "pcm_normalize" /\ stage' = "reference_tap"
        /\ given' = given /\ references' = references /\ frame = given
        /\ Acceptable(frame)
    BY <1>1 DEF Normalize, Passes, Refuses
  <2>2. Normalizable
    <3>1. given.rate \in Int /\ given.channels \in Int
      BY <2>1
    <3>2. given.rate > 0 /\ given.channels > 0
      BY <2>1 DEF Acceptable
    <3> QED
      BY <3>1, <3>2 DEF Normalizable
  <2>3. frame'.payload = Resampled
    BY <1>1, <2>1 DEF Normalize, Resampled, InTargetFormat, Frame
  <2> QED
    BY <2>1, <2>2, <2>3
<1>2. CASE Tap
  <2>1. /\ stage = "reference_tap" /\ stage' = "alaw_encode"
        /\ given' = given /\ frame' = frame
        /\ references = << >> /\ references' = Append(references, frame)
    BY <1>2 DEF Tap, Passes
  <2>2. /\ Len(references') = 1 /\ DOMAIN references' = {1}
        /\ references'[1] = frame
    BY <2>1
  <2> QED
    BY <2>1, <2>2
<1>3. CASE ALawEncode
  <2>1. /\ stage = "alaw_encode" /\ stage' = "base64_encode"
        /\ given' = given /\ references' = references
        /\ frame.payload = Resampled
    BY <1>3 DEF ALawEncode, Passes
  <2>2. frame'.payload = [i \in DOMAIN frame.payload |->
                            linearToALaw(frame.payload[i])]
    BY <1>3 DEF ALawEncode, CodecInv, IsFrame, Frame
  <2>3. frame'.payload = Encoded
    BY <2>1, <2>2 DEF Encoded
  <2> QED
    BY <2>1, <2>3
<1>4. CASE Base64Encode
  <2>1. /\ stage = "base64_encode" /\ stage' = "client"
        /\ given' = given /\ references' = references
        /\ frame' = [frame EXCEPT !.codec = "base64"]
    BY <1>4 DEF Base64Encode, Passes
  <2>2. frame'.payload = frame.payload
    BY <2>1 DEF CodecInv, IsFrame, Frame
  <2> QED
    BY <2>1, <2>2
<1> QED
  BY <1>1, <1>2, <1>3, <1>4

LEMMA SamplesAlways == Spec => [](CodecInv /\ SamplesInv)
<1>1. Init => SamplesInv
  BY SamplesInit DEF SamplesInv
<1>2. CodecInv /\ SamplesInv /\ [Next]_vars => SamplesInv'
  BY UplinkStep, DownlinkStep DEF Next
<1> QED
  BY <1>1, <1>2, CodecInit, CodecStep, PTL DEF Spec

-----------------------------------------------------------------------------
(* The types, with what the samples of each stage are. *)

LEMMA ByteIsInt16 ==
  \A b \in Byte : b \in Int16
<1> SUFFICES ASSUME NEW b \in Byte PROVE b \in Int16
  OBVIOUS
<1>1. b \in Int /\ 0 <= b /\ b <= 255
  BY DEF Byte
<1> QED
  BY <1>1, Int16Is

LEMMA ResampledIsInt16 ==
  ASSUME Normalizable, given.payload \in Seq(Int16)
  PROVE  Resampled \in Seq(Int16)
<1> DEFINE mono == downmixToMono(given.payload, given.channels)
           n == Len(Resampled)
<1>1. mono \in Seq(Int16)
  BY MixIsInt16 DEF Normalizable
<1>2. Len(mono) \in Nat /\ DOMAIN mono = 1 .. Len(mono)
  <2> HIDE DEF mono
  <2> QED
    BY <1>1
<1>3. n \in Nat /\ DOMAIN Resampled = 1 .. n
  BY Lengths
<1>4. Resampled = [i \in DOMAIN Resampled |-> Resampled[i]]
  <2>1. CASE given.rate = TargetRate \/ Len(mono) = 0
    <3>1. Resampled = mono
      BY <2>1 DEF Resampled, resampleNearest
    <3>2. mono = [i \in DOMAIN mono |-> mono[i]]
      <4> HIDE DEF mono
      <4> QED
        BY <1>1
    <3> QED
      BY <3>1, <3>2
  <2>2. CASE ~(given.rate = TargetRate \/ Len(mono) = 0)
    BY <2>2 DEF Resampled, resampleNearest
  <2> QED
    BY <2>1, <2>2
<1>5. Plays(mono, given.rate, TargetRate)
  <2> HIDE DEF mono
  <2>1. \A r \in Nat \ {0} : Plays(mono, r, TargetRate)
    BY <1>2, ResamplePlays, MSAssumption
  <2> QED
    BY <2>1 DEF Normalizable
<1>6. Resampled = resampleNearest(mono, given.rate, TargetRate)
  BY DEF Resampled
<1> HIDE DEF mono, n
<1>7. ASSUME NEW i \in 1 .. n PROVE Resampled[i] \in Int16
  <2>1. i - 1 \in 0 .. n - 1 /\ (i - 1) + 1 = i
    BY <1>3
  <2>2. PICK t \in 0 .. Len(mono) - 1 : Resampled[(i - 1) + 1] = mono[t + 1]
    BY <1>5, <1>6, <2>1 DEF Plays, n
  <2>3. mono[t + 1] \in Int16
    BY <1>1, <1>2
  <2> QED
    BY <2>1, <2>2, <2>3
<1> QED
  BY <1>3, <1>4, <1>7

LEMMA EncodedIsByte ==
  ASSUME Normalizable, given.payload \in Seq(Int16)
  PROVE  Encoded \in Seq(Byte)
<1> DEFINE n == Len(Resampled)
<1>1. Resampled \in Seq(Int16)
  BY ResampledIsInt16
<1>2. n \in Nat /\ DOMAIN Resampled = 1 .. n
  BY <1>1
<1>3. \A i \in 1 .. n : linearToALaw(Resampled[i]) \in Byte
  BY <1>1, <1>2, EncoderMirrors
<1>4. Encoded = [i \in 1 .. n |-> linearToALaw(Resampled[i])]
  BY <1>2 DEF Encoded
<1> QED
  BY <1>2, <1>3, <1>4

LEMMA DecodedIsInt16 ==
  ASSUME given.payload \in Seq(Byte)
  PROVE  Decoded \in Seq(Int16)
<1> DEFINE n == Len(given.payload)
<1>1. n \in Nat /\ DOMAIN given.payload = 1 .. n
  OBVIOUS
<1>2. \A i \in 1 .. n : alawToLinear(given.payload[i]) \in Int16
  BY <1>1, DecoderMirrors
<1>3. Decoded = [i \in 1 .. n |-> alawToLinear(given.payload[i])]
  BY <1>1 DEF Decoded
<1> QED
  BY <1>1, <1>2, <1>3

Typed(f) ==
  /\ f.codec \in Codecs /\ f.rate \in Int /\ f.channels \in Int
  /\ f.broken \in BOOLEAN
  /\ f.payload \in Seq(Int16)

(* TypeOK, but for the payloads that are bytes: where these are is said by  *)
(* SamplesInv.                                                              *)
TypesInv ==
  /\ stage \in Stages \union {"sent", "failed"}
  /\ Typed(given) /\ Typed(frame)
  /\ \A k \in DOMAIN references : Typed(references[k])
  /\ saved \in Seq(Seq(Int16))
  /\ speech \in BOOLEAN

(* What the steps say of types: the stage is one of the names, no payload   *)
(* gets other samples than those of SamplesInv.                             *)
LEMMA StagesAre ==
  Stages = {"base64_decode", "alaw_decode", "enhancement", "vad", "service",
            "pcm_normalize", "reference_tap", "alaw_encode", "base64_encode",
            "client"}
<1>1. ToSet(Uplink) = {Uplink[1], Uplink[2], Uplink[3], Uplink[4], Uplink[5]}
  BY DEF ToSet, Uplink
<1>2. ToSet(Downlink) = {Downlink[1], Downlink[2], Downlink[3], Downlink[4],
                         Downlink[5]}
  BY DEF ToSet, Downlink
<1> QED
  BY <1>1, <1>2 DEF Stages, Uplink, Downlink

LEMMA TypesInit == Init => TypesInv
<1> SUFFICES ASSUME Init PROVE TypesInv
  OBVIOUS
<1>0. stage \in {"base64_decode", "pcm_normalize"}
  BY DEF Init, Uplink, Downlink
<1>1. frame = given /\ DOMAIN references = {}
  BY DEF Init
<1>2. speech \in BOOLEAN
  BY Zenon DEF Init
<1>3. saved \in Seq(Seq(Int16))
  <2>1. \A S : << >> \in Seq(S)
    OBVIOUS
  <2> QED
    BY <2>1 DEF Init
<1>4. /\ given.codec \in Codecs /\ given.broken \in BOOLEAN
      /\ given.rate \in Int /\ given.channels \in Int
  <2>1. \A p : \A c \in Codecs, r \in Int, n \in Int, b \in BOOLEAN :
          LET f == Frame(c, r, n, b, p)
          IN  /\ f.codec \in Codecs /\ f.broken \in BOOLEAN
              /\ f.rate \in Int /\ f.channels \in Int
    BY DEF Frame
  <2>2. \A p : /\ InTargetFormat(p).codec \in Codecs
               /\ InTargetFormat(p).broken \in BOOLEAN
               /\ InTargetFormat(p).rate \in Int
               /\ InTargetFormat(p).channels \in Int
    BY MSAssumption DEF InTargetFormat, Frame, Codecs
  <2>3. /\ StreamRate \in Int /\ StreamChannels \in Int
        /\ \A r \in Rates : r \in Int
        /\ \A n \in Channels : n \in Int
        /\ "base64" \in Codecs
    BY MSAssumption DEF Codecs
  <2>4. CASE \E p : \E broken \in BOOLEAN :
               given = Frame("base64", StreamRate, StreamChannels, broken, p)
    BY <2>1, <2>3, <2>4
  <2>5. CASE \E p : \E codec \in Codecs, rate \in Rates, channels \in Channels,
                      broken \in BOOLEAN :
               given = Frame(codec, rate, channels, broken, p)
    BY <2>1, <2>3, <2>5
  <2>6. CASE \E p : given = InTargetFormat(p)
    BY <2>2, <2>6
  <2> QED
    BY <2>4, <2>5, <2>6 DEF Init
<1>5. given.payload \in Seq(Int16)
  <2>1. UplinkInv /\ DownlinkInv
    BY SamplesInit
  <2>2. CASE stage = "base64_decode"
    BY <2>1, <2>2, ByteIsInt16 DEF UplinkInv, UpStages
  <2>3. CASE stage = "pcm_normalize"
    BY <2>1, <2>3 DEF DownlinkInv, DownStages
  <2> QED
    BY <1>0, <2>2, <2>3
<1> QED
  BY <1>0, <1>1, <1>3, <1>5, <1>4, <1>2, StagesAre DEF TypesInv, Typed

LEMMA TypesStep ==
  TypesInv /\ CodecInv /\ SamplesInv /\ [Next]_vars => TypesInv'
<1> SUFFICES ASSUME TypesInv, CodecInv, SamplesInv, [Next]_vars
             PROVE  TypesInv'
  OBVIOUS
<1> USE StagesAre DEF TypesInv
<1>1. CASE \/ Refuse \/ EnhanceFails \/ DetectVoice \/ SendToService
           \/ SendToClient \/ SendFails
  <2>1. /\ stage' \in {"failed", "sent", "service"} /\ speech' \in BOOLEAN
        /\ given' = given /\ frame' = frame /\ references' = references
        /\ saved' = saved
    BY <1>1 DEF Refuse, EnhanceFails, DetectVoice, SendToService,
                SendToClient, SendFails, Passes
  <2> QED
    BY <2>1 DEF Typed
<1>2. CASE Enhance
  <2>1. /\ stage' = "vad" /\ given' = given /\ frame' = frame
        /\ references' = references /\ speech' = speech
        /\ saved' \in {saved, Append(saved, frame.payload)}
    BY <1>2 DEF Enhance, Passes
  <2>2. saved' \in Seq(Seq(Int16))
    <3>1. \A q \in Seq(Seq(Int16)), p \in Seq(Int16) :
            Append(q, p) \in Seq(Seq(Int16))
      OBVIOUS
    <3>2. saved \in Seq(Seq(Int16)) /\ frame.payload \in Seq(Int16)
      BY DEF Typed
    <3> QED
      BY <2>1, <3>1, <3>2
  <2> QED
    BY <2>1, <2>2 DEF Typed
<1>3. CASE Base64Decode \/ Base64Encode
  <2>1. /\ stage' \in {"alaw_decode", "client"} /\ given' = given
        /\ references' = references /\ saved' = saved /\ speech' = speech
        /\ \E codec \in Codecs : frame' = [frame EXCEPT !.codec = codec]
    BY <1>3 DEF Base64Decode, Base64Encode, Passes, Codecs
  <2>2. Typed(frame)'
    BY <2>1 DEF Typed, CodecInv, IsFrame, Frame
  <2> QED
    BY <2>1, <2>2 DEF Typed
<1>4. CASE ALawDecode \/ Normalize
  <2>1. /\ stage' \in {"enhancement", "reference_tap"} /\ given' = given
        /\ references' = references /\ saved' = saved /\ speech' = speech
        /\ \E p : frame' = InTargetFormat(p)
    BY <1>4 DEF ALawDecode, Normalize, Passes
  <2>2. frame'.payload \in Seq(Int16)
    <3>1. CASE ALawDecode
      <4>1. stage = "alaw_decode" /\ given.payload \in Seq(Byte)
            /\ frame.payload = given.payload
        BY <3>1 DEF ALawDecode, Passes, SamplesInv, UplinkInv, UpStages
      <4>2. frame'.payload = Decoded
        BY <3>1, <4>1 DEF ALawDecode, Decoded, InTargetFormat, Frame
      <4> QED
        BY <4>1, <4>2, DecodedIsInt16
    <3>2. CASE Normalize
      <4>1. stage = "pcm_normalize" /\ given.payload \in Seq(Int16)
            /\ frame = given /\ Acceptable(frame)
            /\ given.rate \in Int /\ given.channels \in Int
        BY <3>2 DEF Normalize, Passes, Refuses, SamplesInv, DownlinkInv,
                    DownStages
      <4>2. Normalizable
        <5>1. given.rate > 0 /\ given.channels > 0
          BY <4>1 DEF Acceptable
        <5>2. \A n \in Int : n > 0 => n \in Nat \ {0}
          OBVIOUS
        <5> QED
          BY <4>1, <5>1, <5>2 DEF Normalizable
      <4>3. frame'.payload = Resampled
        BY <3>2, <4>1 DEF Normalize, Resampled, InTargetFormat, Frame
      <4> QED
        BY <4>1, <4>2, <4>3, ResampledIsInt16
    <3> QED
      BY <1>4, <3>1, <3>2
  <2>3. Typed(frame)'
    <3>1. TargetRate \in Int
      BY MSAssumption
    <3>2. /\ frame'.codec \in Codecs /\ frame'.broken \in BOOLEAN
          /\ frame'.rate = TargetRate /\ frame'.channels = 1
      BY <2>1 DEF InTargetFormat, Frame, Codecs
    <3> QED
      BY <2>2, <3>1, <3>2 DEF Typed
  <2> QED
    BY <2>1, <2>3 DEF Typed
<1>5. CASE Tap
  <2>1. /\ stage' = "alaw_encode" /\ given' = given /\ frame' = frame
        /\ references = << >> /\ references' = Append(references, frame)
        /\ saved' = saved /\ speech' = speech
    BY <1>5 DEF Tap, Passes, SamplesInv, ReferencesInv
  <2>2. DOMAIN references' = {1} /\ references'[1] = frame
    BY <2>1
  <2> QED
    BY <2>1, <2>2 DEF Typed
<1>6. CASE ALawEncode
  <2>1. /\ stage = "alaw_encode" /\ stage' = "base64_encode"
        /\ given' = given /\ references' = references
        /\ saved' = saved /\ speech' = speech
        /\ frame' = [frame EXCEPT
                       !.codec = "g711_alaw",
                       !.payload = [i \in DOMAIN frame.payload |->
                                      linearToALaw(frame.payload[i])]]
    BY <1>6 DEF ALawEncode, Passes
  <2>2. /\ given.payload \in Seq(Int16) /\ Normalizable
        /\ frame.payload = Resampled
    BY <2>1 DEF SamplesInv, DownlinkInv, DownStages
  <2>3. /\ frame'.payload = Encoded /\ frame'.codec = "g711_alaw"
        /\ frame'.rate = frame.rate /\ frame'.channels = frame.channels
        /\ frame'.broken = frame.broken
    BY <2>1, <2>2 DEF Encoded, CodecInv, IsFrame, Frame
  <2>4. Encoded \in Seq(Int16)
    BY <2>2, EncodedIsByte, ByteIsInt16
  <2>5. Typed(frame)'
    BY <2>3, <2>4 DEF Typed, Codecs
  <2> QED
    BY <2>1, <2>5 DEF Typed
<1>7. CASE UNCHANGED vars
  BY <1>7 DEF vars, Typed
<1> QED
  BY <1>1, <1>2, <1>3, <1>4, <1>5, <1>6, <1>7 DEF Next

LEMMA TypesSuffice == TypesInv /\ SamplesInv => TypeOK
<1> SUFFICES ASSUME TypesInv, SamplesInv PROVE TypeOK
  OBVIOUS
<1>1. \A f \in {given, frame} \union ToSet(references) : Typed(f)
  BY DEF TypesInv, ToSet
<1>2. stage = "alaw_decode" => frame.payload \in Seq(Byte)
  BY DEF SamplesInv, UplinkInv, UpStages
<1>3. stage \in {"base64_encode", "client"} => frame.payload \in Seq(Byte)
  BY EncodedIsByte DEF SamplesInv, DownlinkInv, DownStages
<1> QED
  BY <1>1, <1>2, <1>3 DEF TypesInv, Typed, TypeOK

LEMMA TypesAlways == Spec => [](SamplesInv /\ TypesInv)
BY SamplesAlways, TypesInit, TypesStep, PTL DEF Spec

(* Every sample of every frame is a 16-bit one, whatever the service sent:  *)
(* the mean of the channels fits into int16, so that its conversion wraps   *)
(* nothing (pcm_normalizer.go:97), and so does what the decoder computes;   *)
(* the encoder's byte loses nothing of its code (alaw.go:52-86).            *)
THEOREM TypeCorrect == Spec => []TypeOK
BY TypesAlways, TypesSuffice, PTL

-----------------------------------------------------------------------------
(* The properties of the samples. *)

LEMMA TimesKept == ReferencesInv => SamplesInTime
<1> SUFFICES ASSUME ReferencesInv, NEW k \in DOMAIN references,
                    NEW i \in 0 .. Len(references[k].payload) - 1
             PROVE  \E t \in 0 .. Moments - 1 :
                      /\ t * TargetRate <= i * given.rate
                      /\ i * given.rate < (t + 1) * TargetRate
                      /\ references[k].payload[i + 1] = Mono(t)
  BY DEF SamplesInTime
<1> DEFINE mono == downmixToMono(given.payload, given.channels)
<1>1. given.payload \in Seq(Int16) /\ Normalizable
      /\ references[k].payload = Resampled
  BY DEF ReferencesInv
<1>2. Moments \in Nat /\ Len(mono) = Moments /\ DOMAIN mono = 1 .. Moments
  BY <1>1, Lengths
<1>3. Resampled = resampleNearest(mono, given.rate, TargetRate)
  BY DEF Resampled
<1>4. \A t : Mono(t) = mono[t + 1]
  BY DEF Mono
<1> HIDE DEF mono
<1>5. given.rate \in Nat \ {0} /\ TargetRate \in Nat \ {0}
  BY <1>1, MSAssumption DEF Normalizable
<1>6. \A r \in Nat \ {0} : Plays(mono, r, TargetRate)
  BY <1>2, <1>5, ResamplePlays
<1>7. Plays(mono, given.rate, TargetRate)
  BY <1>5, <1>6
<1> QED
  BY <1>1, <1>2, <1>3, <1>4, <1>7 DEF Plays

(* Every sample the echo canceller is given is the mixed sample of the      *)
(* service that plays at its time, for all rates, channel counts and        *)
(* lengths: no index of resampleNearest is off by one                       *)
(* (pcm_normalizer.go:103-122).                                             *)
THEOREM ReferenceInTime == Spec => []SamplesInTime
<1>1. SamplesInv => SamplesInTime
  BY TimesKept DEF SamplesInv
<1> QED
  BY <1>1, SamplesAlways, PTL

LEMMA FairWhenMixed == ReferencesInv => MixUnbiased
<1> SUFFICES ASSUME ReferencesInv, references # << >>,
                    NEW t \in 0 .. Moments - 1
             PROVE  LET inverse == [i \in DOMAIN given.payload |->
                                      -given.payload[i]]
                        of == t * given.channels + 1 ..
                                (t + 1) * given.channels
                    IN /\ downmixToMono(inverse, given.channels)[t + 1]
                            = -Mono(t)
                       /\ \E i \in of : given.payload[i] <= Mono(t)
                       /\ \E i \in of : given.payload[i] >= Mono(t)
  BY DEF MixUnbiased
<1>1. given.payload \in Seq(Int16) /\ given.channels \in Nat \ {0}
  <2>1. CASE DOMAIN references # {}
    BY <2>1 DEF ReferencesInv, Normalizable
  <2>2. CASE DOMAIN references = {}
    BY <2>2 DEF ReferencesInv
  <2> QED
    BY <2>1, <2>2
<1>2. MixedFairly(given.payload, given.channels, t)
  BY <1>1, EveryMoment DEF Moments
<1> QED
  BY <1>2 DEF MixedFairly, Mono

(* The mixer has no bias for any number of channels: a frame and its        *)
(* inverse mix to inverse frames, and each mixed sample lies between two    *)
(* samples of its channels (pcm_normalizer.go:86-100).                      *)
THEOREM MixIsFair == Spec => []MixUnbiased
<1>1. SamplesInv => MixUnbiased
  BY FairWhenMixed DEF SamplesInv
<1> QED
  BY <1>1, SamplesAlways, PTL

(* n samples at rate r last as long as was offered, to within one sample.   *)
Lasts(n, offered, r) ==
  /\ offered = 0 => n = 0
  /\ offered # 0 => \/ n * r <= offered /\ offered < n * r + r
                    \/ n = 1 /\ offered < r

LEMMA ResampleLasts ==
  ASSUME NEW m \in Nat, NEW mono, Len(mono) = m, DOMAIN mono = 1 .. m,
         NEW r \in Nat \ {0}, NEW T \in Nat \ {0}
  PROVE  Lasts(Len(resampleNearest(mono, r, T)), m * T, r)
BY ResampleTimes DEF Lasts

LEMMA DownlinkDuration ==
  ASSUME DownlinkInv, stage = "client"
  PROVE  LastsAsGiven
<1>1. given.payload \in Seq(Int16) /\ Normalizable /\ frame.payload = Encoded
  BY DEF DownlinkInv, DownStages
<1>2. /\ Moments \in Nat
      /\ Len(Encoded) = Len(Resampled) /\ Len(Resampled) \in Nat
  BY <1>1, Lengths
<1> DEFINE m == Moments
           mono == downmixToMono(given.payload, given.channels)
<1>3. Len(mono) = m /\ DOMAIN mono = 1 .. m
  BY <1>1, Lengths
<1>4. Resampled = resampleNearest(mono, given.rate, TargetRate)
  BY DEF Resampled
<1> HIDE DEF mono
<1>5. Lasts(Len(Resampled), m * TargetRate, given.rate)
  <2>1. given.rate \in Nat \ {0} /\ TargetRate \in Nat \ {0}
    BY <1>1, MSAssumption DEF Normalizable
  <2>2. m \in Nat
    BY <1>2
  <2> QED
    BY <1>3, <1>4, <2>1, <2>2, ResampleLasts
<1> QED
  BY <1>1, <1>2, <1>5 DEF LastsAsGiven, Lasts

(* The service gets one sample for every byte of the client.                *)
LEMMA SampleForByte ==
  ASSUME UplinkInv, stage = "service"
  PROVE  /\ given.rate = StreamRate /\ given.channels = StreamChannels
         /\ Len(given.payload) \in Nat
         /\ Len(frame.payload) = Len(given.payload)
<1>1. /\ given.payload \in Seq(Byte) /\ frame.payload = Decoded
      /\ given.rate = StreamRate /\ given.channels = StreamChannels
  BY DEF UplinkInv, UpStages
<1>2. Len(given.payload) \in Nat
      /\ DOMAIN given.payload = 1 .. Len(given.payload)
  BY <1>1
<1>3. Decoded = [i \in 1 .. Len(given.payload) |-> Decoded[i]]
  BY <1>2 DEF Decoded
<1>4. Len(frame.payload) = Len(given.payload)
  BY <1>1, <1>2, <1>3, FnLen
<1> QED
  BY <1>1, <1>2, <1>4

LEMMA UplinkDuration ==
  ASSUME UplinkInv, stage = "service",
         given.rate = TargetRate, given.channels = 1
  PROVE  LastsAsGiven
<1>1. given.rate = TargetRate /\ given.channels = 1
  OBVIOUS
<1>2. Len(given.payload) \in Nat
  BY SampleForByte
<1>4. Len(frame.payload) = Len(given.payload)
  BY SampleForByte
<1>5. Moments = Len(given.payload)
  <2>1. \A k \in Nat : k \div 1 = k
    OBVIOUS
  <2> QED
    BY <1>1, <1>2, <2>1 DEF Moments
<1>6. TargetRate \in Nat /\ TargetRate > 0
  BY MSAssumption
<1> DEFINE n == Len(given.payload)
           T == TargetRate
<1>7. n \in Nat /\ n * T \in Nat /\ n * T < n * T + T /\ (n * T = 0 => n = 0)
  BY <1>2, <1>6, Times
<1> QED
  BY <1>1, <1>4, <1>5, <1>6, <1>7 DEF LastsAsGiven

(* The downlink shortens or stretches no frame by a sample or more,         *)
(* whatever its length and the service's rate and channels                  *)
(* (pcm_normalizer.go:103-113), and the uplink none that is in the target   *)
(* format (alaw.go:27-37).                                                  *)
THEOREM DurationIsKept == Spec => []DurationKept
<1>1. SamplesInv => DurationKept
  BY UplinkDuration, DownlinkDuration DEF SamplesInv, DurationKept
<1> QED
  BY <1>1, SamplesAlways, PTL

(* n bytes claimed at a rate r not below T, but not at T with one channel,  *)
(* are offered less time than n samples take.                               *)
LEMMA ClaimedShorter ==
  ASSUME NEW n \in Nat, n > 1, NEW c \in Nat \ {0},
         NEW r \in Nat \ {0}, NEW T \in Nat \ {0}, r >= T, r # T \/ c # 1
  PROVE  (n \div c) * T < n * r
<1>1. n * T <= n * r /\ (T < r => n * T < n * r)
  BY SMT
<1>2. CASE c = 1
  <2>1. n \div 1 = n
    OBVIOUS
  <2> QED
    BY <1>1, <1>2, <2>1
<1>3. CASE c # 1
  <2> DEFINE m == n \div c
  <2>1. m \in Nat /\ m * c <= n
    BY DivFacts
  <2>2. m * 2 <= m * c
    BY <1>3, <2>1, SMT
  <2> HIDE DEF m
  <2>3. m < n
    BY <2>1, <2>2
  <2>4. m * T < n * T
    BY <2>1, <2>3, SMT
  <2> QED
    BY <1>1, <2>1, <2>4 DEF m
<1> QED
  BY <1>2, <1>3

(* A stream that is claimed faster than the target, or in several channels  *)
(* and no slower, is mislabelled on its way: no frame of it of more than    *)
(* one sample keeps its duration.                                           *)
StreamMislabelled ==
  /\ stage = "service"
  /\ given.rate >= TargetRate
  /\ given.rate # TargetRate \/ given.channels # 1
  /\ Len(given.payload) > 1
  => ~LastsAsGiven

(* What becomes of a stream that is not in the target format: config.go:375 *)
(* takes every positive rate and channel count, alaw_decode replaces them   *)
(* (alaw.go:33), and the service gets frames longer than they were.         *)
THEOREM UplinkMislabels == Spec => []StreamMislabelled
<1>1. SamplesInv => StreamMislabelled
  <2> SUFFICES ASSUME SamplesInv, stage = "service",
                      given.rate >= TargetRate,
                      given.rate # TargetRate \/ given.channels # 1,
                      Len(given.payload) > 1
               PROVE  ~LastsAsGiven
    BY DEF StreamMislabelled
  <2> DEFINE n == Len(given.payload)
             r == given.rate
             c == given.channels
             T == TargetRate
  <2>1. n \in Nat /\ Len(frame.payload) = n
    BY SampleForByte DEF SamplesInv
  <2>2. r \in Nat \ {0} /\ c \in Nat \ {0} /\ T \in Nat \ {0}
    BY SampleForByte, MSAssumption DEF SamplesInv
  <2>3. Moments * T < n * r
    BY <2>1, <2>2, ClaimedShorter DEF Moments
  <2>4. Moments \in Nat /\ Moments * T \in Nat /\ n * r \in Nat
    <3>1. Moments \in Nat
      BY <2>1, <2>2, DivFacts DEF Moments
    <3> QED
      BY <2>1, <2>2, <3>1, Times
  <2>5. /\ Len(frame.payload) # 0 /\ Len(frame.payload) # 1
        /\ ~(Len(frame.payload) * given.rate <= Moments * TargetRate)
    <3>1. \A a, b \in Nat : a < b => ~(b <= a)
      OBVIOUS
    <3>2. \A a \in Nat : a > 1 => a # 0 /\ a # 1
      OBVIOUS
    <3>3. n # 0 /\ n # 1
      BY <2>1, <3>2, Zenon
    <3>4. ~(n * r <= Moments * T)
      BY <2>3, <2>4, <3>1, Zenon
    <3> QED
      BY <2>1, <3>3, <3>4, Zenon
  <2> QED
    BY <2>5, Zenon DEF LastsAsGiven
<1> QED
  BY <1>1, SamplesAlways, PTL

LEMMA ReferenceHeard == SamplesInv => ClientHearsReference
<1> SUFFICES ASSUME SamplesInv, stage = "client" PROVE ClientHearsReference
  BY DEF ClientHearsReference
<1>1. /\ given.payload \in Seq(Int16) /\ Normalizable
      /\ frame.payload = Encoded
      /\ Len(references) = 1 /\ references[1].payload = Resampled
  BY DEF SamplesInv, DownlinkInv, ReferencesInv, DownStages
<1>2. Len(Encoded) = Len(Resampled) /\ DOMAIN Encoded = DOMAIN Resampled
  BY <1>1, Lengths
<1>3. ASSUME NEW i \in DOMAIN Encoded, Resampled[i] \in -256 .. 255
      PROVE  Abs(Abs(alawToLinear(Encoded[i])) - Abs(Resampled[i])) <= 8
  <2>1. Encoded[i] = linearToALaw(Resampled[i])
    BY <1>2, <1>3 DEF Encoded
  <2>2. Resampled[i] \in Int /\ -256 <= Resampled[i] /\ Resampled[i] <= 255
    BY <1>3
  <2> QED
    BY <2>1, <2>2, QuietRoundTrip
<1> QED
  BY <1>1, <1>2, <1>3 DEF ClientHearsReference

(* The echo canceller gets one frame for each frame that is sent, of its    *)
(* length, and a quiet sample of it is within half a quantisation step of   *)
(* what the client decodes, up to the sign (reference_tap.go:27-43,         *)
(* alaw.go:46-86).                                                          *)
THEOREM ReferenceIsHeard == Spec => []ClientHearsReference
BY SamplesAlways, ReferenceHeard, PTL

LEMMA DecodedMirrors ==
  ASSUME UplinkInv, stage = "enhancement", NEW i \in DOMAIN frame.payload
  PROVE  /\ frame.payload[i] = -alawToLinear(FlipSign(given.payload[i]))
         /\ Abs(frame.payload[i]) = Abs(StandardLinear(given.payload[i]))
<1>1. given.payload \in Seq(Byte) /\ frame.payload = Decoded
  BY DEF UplinkInv, UpStages
<1>2. /\ i \in DOMAIN given.payload
      /\ frame.payload[i] = alawToLinear(given.payload[i])
  BY <1>1 DEF Decoded
<1>3. given.payload[i] \in Byte
  BY <1>1, <1>2
<1> QED
  BY <1>2, <1>3, DecoderMirrors

LEMMA EncodedMirrors ==
  ASSUME SamplesInv, stage = "base64_encode",
         NEW i \in DOMAIN frame.payload
  PROVE  linearToALaw(-references[1].payload[i] - 1)
           = FlipSign(frame.payload[i])
<1>1. /\ given.payload \in Seq(Int16) /\ Normalizable
      /\ frame.payload = Encoded
      /\ DOMAIN references = {1} /\ Len(references) = 1
      /\ references[1].payload = Resampled
  BY DEF SamplesInv, DownlinkInv, ReferencesInv, DownStages
<1>2. DOMAIN Encoded = DOMAIN Resampled
  BY <1>1, Lengths
<1>3. Resampled \in Seq(Int16)
  BY <1>1, ResampledIsInt16
<1>4. Resampled[i] \in Int16 /\ Encoded[i] = linearToALaw(Resampled[i])
  BY <1>1, <1>2, <1>3 DEF Encoded
<1> QED
  BY <1>1, <1>4, EncoderMirrors

(* The codec treats both signs alike for every sample: the decoder for      *)
(* every byte, without a wrap of its 16-bit arithmetic (alaw.go:46-63), and *)
(* the encoder for every sample that the normalizer makes (alaw.go:66-86).  *)
THEOREM SignsMirror == Spec => []CodecMirrors
<1>1. SamplesInv => CodecMirrors
  BY DecodedMirrors, EncodedMirrors DEF SamplesInv, CodecMirrors
<1> QED
  BY <1>1, SamplesAlways, PTL

(* The decoded frame against the G.711 value of each of its bytes.          *)
InverseOfStandard ==
  stage = "enhancement" =>
    \A i \in DOMAIN frame.payload :
      frame.payload[i] = -StandardLinear(given.payload[i])

(* What the service hears is upside down, for every sample: the value that  *)
(* alawToLinear gives a byte is the inverse of the standard's, although its *)
(* comment says it expands by the standard (alaw.go:45-63).                 *)
THEOREM DecodesInverted == Spec => []InverseOfStandard
<1>1. UplinkInv => InverseOfStandard
  <2> SUFFICES ASSUME UplinkInv, stage = "enhancement",
                      NEW i \in DOMAIN frame.payload
               PROVE  frame.payload[i] = -StandardLinear(given.payload[i])
    BY DEF InverseOfStandard
  <2>1. given.payload \in Seq(Byte) /\ frame.payload = Decoded
    BY DEF UplinkInv, UpStages
  <2>2. /\ i \in DOMAIN given.payload
        /\ frame.payload[i] = alawToLinear(given.payload[i])
    BY <2>1 DEF Decoded
  <2>3. given.payload[i] \in Byte
    BY <2>1, <2>2
  <2> QED
    BY <2>2, <2>3, DecoderMirrors
<1>2. SamplesInv => UplinkInv
  BY DEF SamplesInv
<1> QED
  BY <1>1, <1>2, SamplesAlways, PTL

(* By the standard, byte b stands for the sample x exactly if x is quiet.   *)
StandardIffQuiet(x, b) ==
  (Abs(StandardLinear(b) - x) <= HalfStep(b)) <=> x \in -256 .. 255

LEMMA QuietAlone ==
  ASSUME NEW x \in Int16
  PROVE  StandardIffQuiet(x, linearToALaw(x))
<1>1. x \in Int
  BY Int16Is
<1>2. x \in -256 .. 255 <=> -256 <= x /\ x <= 255
  BY <1>1
<1>3. Abs(StandardLinear(linearToALaw(x)) - x) <= HalfStep(linearToALaw(x))
        <=> -256 <= x /\ x <= 255
  BY OnlyQuiet, Zenon
<1> QED
  BY <1>2, <1>3 DEF StandardIffQuiet

(* ... which holds of every sample of the frame on its way to the client.   *)
QuietByStandard ==
  stage = "base64_encode" =>
    \A i \in DOMAIN frame.payload :
      StandardIffQuiet(references[1].payload[i], frame.payload[i])

(* What the client hears by the standard is right for quiet samples, and    *)
(* for these only: a table of segments made for 13-bit samples is searched  *)
(* with 16-bit ones (alaw.go:20, 89-96), so that every other sample is      *)
(* encoded more than half a step off.                                       *)
THEOREM OnlyQuietByStandard == Spec => []QuietByStandard
<1>1. SamplesInv => QuietByStandard
  <2> SUFFICES ASSUME SamplesInv, stage = "base64_encode",
                      NEW i \in DOMAIN frame.payload
               PROVE  StandardIffQuiet(references[1].payload[i],
                                       frame.payload[i])
    BY DEF QuietByStandard
  <2>1. /\ given.payload \in Seq(Int16) /\ Normalizable
        /\ frame.payload = Encoded
        /\ Len(references) = 1 /\ references[1].payload = Resampled
    BY DEF SamplesInv, DownlinkInv, ReferencesInv, DownStages
  <2>2. DOMAIN Encoded = DOMAIN Resampled /\ Resampled \in Seq(Int16)
    BY <2>1, Lengths, ResampledIsInt16
  <2>3. Resampled[i] \in Int16 /\ Encoded[i] = linearToALaw(Resampled[i])
    BY <2>1, <2>2 DEF Encoded
  <2>4. StandardIffQuiet(Resampled[i], Encoded[i])
    BY <2>3, QuietAlone
  <2> QED
    BY <2>1, <2>4
<1> QED
  BY <1>1, SamplesAlways, PTL

=============================================================================
