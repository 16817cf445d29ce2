---------------------------- MODULE MCAgentSession ----------------------------
(* Two requests, two interruptions and two turns of one session. *)
EXTENDS AgentSession, TLC
================================================================================
