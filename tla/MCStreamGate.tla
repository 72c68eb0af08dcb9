----------------------------- MODULE MCStreamGate -----------------------------
(* Instances of StreamGate for TLC.                                         *)
EXTENDS StreamGate

\* A device with a stored position, powered up together with its receiver.
PositionedInit == Init /\ nvs = {"pos_valid", "ntrip_on"} /\ output = "none"

PositionedSpec == PositionedInit /\ [][Next]_vars

\* The same device, which was collecting raw observations when it went down;
\* the WiFi network comes up later.
ResumingInit == Init /\ nvs = NvsKeys /\ output = "none" /\ wifi = "down"

ResumingSpec == ResumingInit /\ [][Next]_vars

\* Any stored position and switches, WiFi up, scheduled fairly.
LiveInit == Init /\ wifi = "up" /\ output = "none"

LiveSpec == LiveInit /\ [][Next]_vars /\ Fairness
=============================================================================
