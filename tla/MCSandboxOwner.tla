---------------------------- MODULE MCSandboxOwner ----------------------------
(* One sandbox, whose cleanup may fail three times. *)
EXTENDS SandboxOwner
================================================================================
