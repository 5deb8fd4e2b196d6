---------------------------- MODULE MCMediaStages ----------------------------
(* MediaStages for TLC: the target rate 3 stands for 8000; the others are   *)
(* slower and faster, with and without a whole ratio.  Frames in the target *)
(* format have every 16-bit sample (MS_chains) or a few (MS_standard).      *)
EXTENDS MediaStages

MCRates == {0, 1, 2, 3, 4, 6, 7}
MCChannels == {0, 1, 2, 3}
MCLevels == {-3, 0, 2}
MCAllSamples == Int16
MCSomeSamples == {-32768, -4097, -4096, -256, -1, 0, 255, 256, 4095, 4096, 32767}
==============================================================================
