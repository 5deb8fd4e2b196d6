------------------------------ MODULE MediaStages ------------------------------
(***************************************************************************)
(* What the stages of a Session's two pipelines do to one frame            *)
(* (src/internal/pipeline/stages, chained by NewSession,                   *)
(* src/internal/session/session.go:151-168), from the connector that made  *)
(* it to the connector that sends it on:                                   *)
(*                                                                         *)
(*   uplink    base64_decode, alaw_decode, enhancement, vad, service       *)
(*   downlink  pcm_normalize, reference_tap, alaw_encode, base64_encode,   *)
(*             client                                                      *)
(*                                                                         *)
(* Samples are integers, A-law codes bytes.  A base64 text stands for the  *)
(* bytes it encodes; a payload that its codec cannot divide, a text that   *)
(* is no base64 or PCM of odd length, is `broken`.  A stage that fails     *)
(* drops the frame, as the strategy of every stage here is                 *)
(* (QueuePipeline has the others).                                         *)
(***************************************************************************)
EXTENDS ALaw, PcmNormalizer, SequencesExt

CONSTANTS
  TargetRate,  \* cfg.TargetFormat.SampleRate: 8000
  StreamRate,  \* websocket.stream.sample_rate, claimed for the uplink
  StreamChannels,  \* websocket.stream.channels
  Rates,       \* sample rates the service may claim, 0 among them
  Channels,    \* channel counts it may claim, 0 among them
  Levels,      \* sample values of frames in any format
  Samples,     \* sample values of frames in the target format
  MaxSamples   \* bound: samples of a frame, all channels together

ASSUME MSAssumption ==
  /\ TargetRate \in Nat \ {0}
  /\ StreamRate \in Nat \ {0} /\ StreamChannels \in Nat \ {0}
  /\ Rates \subseteq Int /\ Channels \subseteq Int
  /\ Levels \subseteq Int16 /\ Samples \subseteq Int16
  /\ MaxSamples \in Nat

VARIABLES
  given,       \* history: the frame as the connector pushed it
  frame,       \* the frame between two stages
  stage,       \* the stage it waits for; "sent" or "failed" at the end
  references,  \* the copies the tap handed to the Controller
  saved,       \* the payloads the enhancement stage wrote to the PCM file
  speech       \* MockStage.speechEmitted of the VAD stage

vars == <<given, frame, stage, references, saved, speech>>

Uplink == <<"base64_decode", "alaw_decode", "enhancement", "vad", "service">>
Downlink == <<"pcm_normalize", "reference_tap", "alaw_encode",
              "base64_encode", "client">>
Stages == ToSet(Uplink) \union ToSet(Downlink)

Codecs == {"", "pcm16le", "g711_alaw", "base64"}

Frame(codec, rate, channels, broken, payload) ==
  [codec |-> codec, rate |-> rate, channels |-> channels,
   broken |-> broken, payload |-> payload]

(* DefaultPCM16Format, the TargetFormat of every Session. *)
InTargetFormat(payload) == Frame("pcm16le", TargetRate, 1, FALSE, payload)

Payloads(S, n) == UNION {[1 .. k -> S] : k \in 0 .. n}

TypeOK ==
  /\ stage \in Stages \union {"sent", "failed"}
  /\ \A f \in {given, frame} \union ToSet(references) :
       /\ f.codec \in Codecs /\ f.rate \in Int /\ f.channels \in Int
       /\ f.broken \in BOOLEAN
       /\ f.payload \in Seq(Int16)
  /\ stage \in {"alaw_decode", "base64_encode", "client"} =>
       frame.payload \in Seq(Byte)
  /\ saved \in Seq(Seq(Int16))
  /\ speech \in BOOLEAN

(* handleInputAudioAppend and the service connector make the frames.  An    *)
(* empty text makes none, but a text of line ends encodes no bytes.         *)
Init ==
  /\ \/ /\ stage = Uplink[1]
        /\ \E broken \in BOOLEAN,
              p \in Payloads(Byte, 1) \union {<<b, b>> : b \in Byte} :
             given = Frame("base64", StreamRate, StreamChannels, broken, p)
     \/ /\ stage = Downlink[1]
        /\ \/ \E codec \in Codecs, rate \in Rates, channels \in Channels,
                 broken \in BOOLEAN, p \in Payloads(Levels, MaxSamples) :
                given = Frame(codec, rate, channels, broken, p)
           \/ \E s \in Samples : given = InTargetFormat(<<s>>)
  /\ frame = given
  /\ references = << >>
  /\ saved = << >>
  /\ speech = FALSE

-----------------------------------------------------------------------------
(* The frame the normalizer takes.  An empty codec is PCM16LE to it. *)
Acceptable(f) ==
  /\ f.codec \in {"", "pcm16le"}
  /\ f.rate > 0
  /\ f.channels > 0
  /\ ~f.broken

(* The error each stage, or the connector behind the last one, returns for  *)
(* a frame that it cannot treat.                                            *)
Refuses ==
  \/ stage = "base64_decode" /\ (frame.codec # "base64" \/ frame.broken)
  \/ stage \in {"alaw_decode", "base64_encode"} /\ frame.codec # "g711_alaw"
  \/ stage = "pcm_normalize" /\ ~Acceptable(frame)
  \/ stage \in {"reference_tap", "alaw_encode"} /\ frame.codec # "pcm16le"
  \/ stage = "client" /\ frame.codec # "base64"

Refuse ==
  /\ Refuses
  /\ stage' = "failed"
  /\ UNCHANGED <<given, frame, references, saved, speech>>

(* The frame passes from stage `from` to stage `to`. *)
Passes(from, to) ==
  /\ stage = from
  /\ ~Refuses
  /\ stage' = to

-----------------------------------------------------------------------------
(* The uplink. *)

Base64Decode ==
  /\ Passes("base64_decode", "alaw_decode")
  /\ frame' = [frame EXCEPT !.codec = "g711_alaw"]
  /\ UNCHANGED <<given, references, saved, speech>>

ALawDecode ==
  /\ Passes("alaw_decode", "enhancement")
  /\ frame' = InTargetFormat(
                [i \in DOMAIN frame.payload |-> alawToLinear(frame.payload[i])])
  /\ UNCHANGED <<given, references, saved, speech>>

(* SavePCM and its early return. *)
HasPCM == frame.codec = "pcm16le" /\ frame.payload # << >>

Enhance ==
  /\ Passes("enhancement", "vad")
  /\ saved' = IF HasPCM THEN Append(saved, frame.payload) ELSE saved
  /\ UNCHANGED <<given, frame, references, speech>>

(* Fault: an error of SavePCM is logged and the frame passed on. *)
EnhanceSwallowsError ==
  /\ Passes("enhancement", "vad")
  /\ HasPCM
  /\ UNCHANGED <<given, frame, references, saved, speech>>

(* The file cannot be opened or written. *)
EnhanceFails ==
  /\ stage = "enhancement"
  /\ HasPCM
  /\ stage' = "failed"
  /\ UNCHANGED <<given, frame, references, saved, speech>>

DetectVoice ==
  /\ Passes("vad", "service")
  /\ speech' = (speech \/ HasPCM)
  /\ UNCHANGED <<given, frame, references, saved>>

SendToService ==
  /\ Passes("service", "sent")
  /\ UNCHANGED <<given, frame, references, saved, speech>>

-----------------------------------------------------------------------------
(* The downlink. *)

(* Fault: the format of the frame is kept, as far as it was given. *)
NormalizeKeepingCodec ==
  /\ Passes("pcm_normalize", "reference_tap")
  /\ frame' = [InTargetFormat(
                 resampleNearest(downmixToMono(frame.payload, frame.channels),
                                 frame.rate, TargetRate))
               EXCEPT !.codec = frame.codec]
  /\ UNCHANGED <<given, references, saved, speech>>

Normalize ==
  /\ Passes("pcm_normalize", "reference_tap")
  /\ frame' = InTargetFormat(
                resampleNearest(downmixToMono(frame.payload, frame.channels),
                                frame.rate, TargetRate))
  /\ UNCHANGED <<given, references, saved, speech>>

(* Fault: the copy is taken of the frame as it was received. *)
TapGiven ==
  /\ Passes("reference_tap", "alaw_encode")
  /\ references' = Append(references, given)
  /\ UNCHANGED <<given, frame, saved, speech>>

Tap ==
  /\ Passes("reference_tap", "alaw_encode")
  /\ references' = Append(references, frame)
  /\ UNCHANGED <<given, frame, saved, speech>>

(* Fault: the samples are not encoded. *)
ALawEncodeNothing ==
  /\ Passes("alaw_encode", "base64_encode")
  /\ frame' = [frame EXCEPT !.codec = "g711_alaw"]
  /\ UNCHANGED <<given, references, saved, speech>>

ALawEncode ==
  /\ Passes("alaw_encode", "base64_encode")
  /\ frame' = [frame EXCEPT
                 !.codec = "g711_alaw",
                 !.payload = [i \in DOMAIN frame.payload |->
                                linearToALaw(frame.payload[i])]]
  /\ UNCHANGED <<given, references, saved, speech>>

Base64Encode ==
  /\ Passes("base64_encode", "client")
  /\ frame' = [frame EXCEPT !.codec = "base64"]
  /\ UNCHANGED <<given, references, saved, speech>>

SendToClient ==
  /\ Passes("client", "sent")
  /\ UNCHANGED <<given, frame, references, saved, speech>>

(* The connection is gone or the write fails. *)
SendFails ==
  /\ Passes("client", "failed")
  /\ UNCHANGED <<given, frame, references, saved, speech>>

-----------------------------------------------------------------------------
Next ==
  \/ Refuse
  \/ Base64Decode \/ ALawDecode \/ Enhance \/ EnhanceFails \/ DetectVoice
  \/ SendToService
  \/ Normalize \/ Tap \/ ALawEncode \/ Base64Encode \/ SendToClient
  \/ SendFails

Spec == Init /\ [][Next]_vars

-----------------------------------------------------------------------------
(* Properties. *)

Moments == Len(given.payload) \div given.channels  \* samples per channel

(* The chains are put together by hand and each stage checks the codec its  *)
(* predecessor left: a frame that the first stage took is never refused by  *)
(* a later one, nor by the connector at the end (session.go:152-163,        *)
(* server.go:496).                                                          *)
RefusedAtEdge == Refuses => stage \in {Uplink[1], Downlink[1]}

(* The frame lasts as long as the given one, short of one sample; only less *)
(* than one sample is stretched to one, and nothing stays nothing.          *)
LastsAsGiven ==
  LET n == Len(frame.payload)
      played == n * given.rate
      offered == Moments * TargetRate
  IN IF offered = 0 THEN n = 0
     ELSE \/ played <= offered /\ offered < played + given.rate
          \/ n = 1 /\ offered < given.rate

(* The client is sent what lasts as long as what the service pushed,        *)
(* whatever its rate and channels (pcm_normalizer.go:103-113).  The service *)
(* gets what lasts as long as what the client claimed if that is in the     *)
(* target format: alaw_decode puts the target in the place of the rate and  *)
(* the channels the frame carried and resamples nothing (alaw.go:33).       *)
DurationKept ==
  \/ stage = "client"
  \/ stage = "service" /\ given.rate = TargetRate /\ given.channels = 1
  => LastsAsGiven

Mono(t) == downmixToMono(given.payload, given.channels)[t + 1]

(* Every sample of the reference signal is the sample of the service that   *)
(* plays at its time; the guard against an index behind the end             *)
(* (pcm_normalizer.go:117) is never needed.                                 *)
SamplesInTime ==
  \A k \in DOMAIN references :
    \A i \in 0 .. Len(references[k].payload) - 1 :
      \E t \in 0 .. Moments - 1 :
        /\ t * TargetRate <= i * given.rate
        /\ i * given.rate < (t + 1) * TargetRate
        /\ references[k].payload[i + 1] = Mono(t)

(* Mixing has no bias: a frame and its inverse mix to inverse frames, and   *)
(* no mixed sample is louder than the loudest of its channels               *)
(* (pcm_normalizer.go:86-100).                                              *)
MixUnbiased ==
  references # << >> =>
    \A t \in 0 .. Moments - 1 :
      LET inverse == [i \in DOMAIN given.payload |-> -given.payload[i]]
          of == t * given.channels + 1 .. (t + 1) * given.channels
      IN /\ downmixToMono(inverse, given.channels)[t + 1] = -Mono(t)
         /\ \E i \in of : given.payload[i] <= Mono(t)
         /\ \E i \in of : given.payload[i] >= Mono(t)

(* The echo canceller is told what the client is to play: one reference     *)
(* frame for a frame that is sent, as long as its A-law payload, and a      *)
(* quiet sample of it within half a quantisation step of what the code      *)
(* decodes to, up to its sign (reference_tap.go:27-43, alaw.go:52-59).      *)
ClientHearsReference ==
  stage = "client" =>
    /\ Len(references) = 1
    /\ Len(frame.payload) = Len(references[1].payload)
    /\ \A i \in DOMAIN frame.payload :
         references[1].payload[i] \in -256 .. 255 =>
           Abs(Abs(alawToLinear(frame.payload[i]))
               - Abs(references[1].payload[i])) <= 8

(* What the service gets has been saved, the same samples once, and speech  *)
(* is reported exactly for that: a frame the file refused is neither sent   *)
(* on nor heard (audioenhancement/mock.go:68-100, vad/mock.go:67-91).       *)
ServiceGetsSaved ==
  /\ stage = "service" => /\ frame.payload # << >> => saved = <<frame.payload>>
                          /\ frame.payload = << >> => saved = << >>
                          /\ speech = (saved # << >>)
  /\ speech => saved # << >>

(* The codec treats both signs alike.  The encoder to the ends of int16:    *)
(* the samples x and -x-1 differ in the sign bit of their code alone,       *)
(* although the eighth segment spills over into that bit (alaw.go:66-86).   *)
(* The decoder without a wrap of its int16 arithmetic: the magnitude is the *)
(* standard's for every byte (alaw.go:46-63).                               *)
CodecMirrors ==
  /\ stage = "base64_encode" =>
       \A i \in DOMAIN frame.payload :
         linearToALaw(-references[1].payload[i] - 1) = FlipSign(frame.payload[i])
  /\ stage = "enhancement" =>
       \A i \in DOMAIN frame.payload :
         /\ frame.payload[i] = -alawToLinear(FlipSign(given.payload[i]))
         /\ Abs(frame.payload[i]) = Abs(StandardLinear(given.payload[i]))

(* The value of a byte is the standard one. *)
DecodesByStandard ==
  stage = "enhancement" =>
    \A i \in DOMAIN frame.payload :
      frame.payload[i] = StandardLinear(given.payload[i])

(* The standard value of the byte is the sample, within half a step. *)
EncodesByStandard ==
  stage = "base64_encode" =>
    \A i \in DOMAIN frame.payload :
      Abs(StandardLinear(frame.payload[i]) - references[1].payload[i])
        <= HalfStep(frame.payload[i])

(* alaw.go:45 and 65: alawToLinear expands a byte, linearToALaw compresses  *)
(* a sample "by the G.711 A-law standard".                                  *)
FollowsStandard == DecodesByStandard /\ EncodesByStandard

=============================================================================
