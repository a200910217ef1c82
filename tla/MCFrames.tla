------------------------------ MODULE MCFrames ------------------------------
(* Instances of Frames for TLC.                                             *)
EXTENDS Frames

\* Product information, the Wi-Fi state, and two points, the second of which
\* carries the bytes of a frame's head.
Sent(type, data, means) == [bytes |-> WifiFrame(type, data), means |-> means]
WifiFrames == {
  Sent(1, <<>>, << <<1>> >>),
  Sent(3, <<85>>, << <<3, 85>> >>),
  Sent(12, <<6, 2, 0, 1, 5, 8, 2, 0, 2, 85, 170>>, << <<6, 5>>, <<8, 85, 170>> >>) }

Reading(hi, lo) == [bytes |-> TdsFrame(hi, lo), means |-> << <<hi, lo>> >>]
TdsFrames == { Reading(1, 44), Reading(0, 85) }

MCFrames(l) == IF l = "wifi" THEN WifiFrames ELSE TdsFrames

\* A length of 13 just fits the Wi-Fi buffer and 14 does not, 20 just fits that
\* of the TDS sensor and 21 does not; 85 and 170 are the head of a frame.
MCNoise == {0, 13, 14, 20, 21, 85, 170, 255}
=============================================================================
