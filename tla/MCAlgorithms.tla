------------------------------- MODULE MCAlgorithms -------------------------------
(* The pure algorithms, one per behaviour (see MCCase). *)
EXTENDS MCNumbers, MCPayloads, MCReports, MCSources, MCSynthetic, MCTraces, MCWire

Algorithms == UNION {NumberAlgorithms, PayloadAlgorithms, ReportAlgorithms, SourcesAlgorithms, SyntheticAlgorithms, TraceAlgorithms, TurnsAlgorithms, WireAlgorithms}
Init == \E alg \in Algorithms : Idle(alg)
Next == \/ NumberCases \/ PayloadCases \/ ReportCases \/ SourcesCases \/ SyntheticCases \/ TraceCases \/ TurnsCases \/ WireCases \/ Forget
Spec == Init /\ [][Next]_case
=============================================================================
