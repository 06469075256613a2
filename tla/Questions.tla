----------------------------- MODULE Questions -----------------------------
(***************************************************************************)
(* What the modules of pure functions are checked with: one question at a   *)
(* time, [topic, ...], whose fields are the inputs of the functions that    *)
(* the topic is about.  The promises of a topic are about what these answer *)
(* when the question is asked.                                             *)
(***************************************************************************)
VARIABLE asked

Ask(question) == asked' = question
About(topic, Promise(_)) == asked'.topic = topic => Promise(asked')
=============================================================================
