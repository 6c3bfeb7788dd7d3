-------------------------- MODULE MCConversations --------------------------
(* Conversations for TLC: the chat of the terminal and two of the web.       *)
EXTENDS Conversations
=============================================================================
