------------------------- MODULE MCAssistantWidget -------------------------
(***************************************************************************)
(* One widget that may name two assistants, and two exchanges: one that    *)
(* was abandoned may still run when the next question is asked. Two        *)
(* questions, or one and its retries, are asked in one conversation.       *)
(***************************************************************************)
EXTENDS AssistantWidget
=============================================================================
