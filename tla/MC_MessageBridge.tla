-------------------------- MODULE MC_MessageBridge --------------------------
(* Two distinct prompts, four pushes: enough for two buffered messages     *)
(* behind one in flight, and for the same content to be sent twice.        *)
EXTENDS MessageBridge

MCPrompts == {"hello", "again"}
=============================================================================
