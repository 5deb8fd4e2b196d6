---------------------------- MODULE PcmNormalizer ----------------------------
(***************************************************************************)
(* The arithmetic of the first downlink stage, pcm_normalize               *)
(* (src/internal/pipeline/stages/pcm_normalizer.go): samples of any rate   *)
(* and channel count are brought to one channel and the target rate.       *)
(***************************************************************************)
EXTENDS Integers, Sequences, FiniteSetsExt

(* Fault: a division that rounds down instead of towards zero. *)
QuotFloor(a, b) == a \div b

(* The division of Go: towards zero.  b > 0. *)
Quot(a, b) == IF a >= 0 THEN a \div b ELSE -((-a) \div b)

Lower(a, b) == IF a <= b THEN a ELSE b
Higher(a, b) == IF a >= b THEN a ELSE b

(* Samples that do not fill all channels are left out. *)
downmixToMono(samples, channels) ==
  IF channels = 1 THEN samples
  ELSE [i \in 1 .. Len(samples) \div channels |->
          Quot(SumFunction([ch \in 1 .. channels |->
                              samples[(i - 1) * channels + ch]]),
               channels)]

(* Fault: the length is rounded up. *)
OutLenRoundedUp(n, fromRate, toRate) ==
  (n * toRate + fromRate - 1) \div fromRate

OutLen(n, fromRate, toRate) == Higher((n * toRate) \div fromRate, 1)

(* Fault: the rates are swapped. *)
SourceSwapped(i, n, fromRate, toRate) ==
  Lower((i * toRate) \div fromRate, n - 1)

(* The input sample, counted from 0, that output sample i repeats. *)
Source(i, n, fromRate, toRate) == Lower((i * fromRate) \div toRate, n - 1)

resampleNearest(samples, fromRate, toRate) ==
  LET n == Len(samples) IN
  IF fromRate = toRate \/ n = 0 THEN samples
  ELSE [i \in 1 .. OutLen(n, fromRate, toRate) |->
          samples[Source(i - 1, n, fromRate, toRate) + 1]]

=============================================================================
