------------------------------ MODULE MCAcpClient ------------------------------
(* Two ids; frames of one byte and more against a buffer of two frames. *)
EXTENDS AcpClient

MCFrames ==
  ({"request", "response", "refusal"} \X Ids) \cup {<<"notice", 1>>}
MCBytes == [f \in MCFrames |-> IF f[1] = "response" THEN 2 ELSE 1]
================================================================================
