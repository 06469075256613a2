---------------------------- MODULE MCAlgorithms ----------------------------
EXTENDS MCReports, MCTranscripts, MCPlans, MCScores, MCAdapters

Init == asked = [topic |-> "none"]
Next == asked.topic = "none" /\ (AskReports \/ AskTranscripts \/ AskPlans \/ AskScores \/ AskAdapters)
Spec == Init /\ [][Next]_asked
=============================================================================
