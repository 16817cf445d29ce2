------------------------------ MODULE MCAcpWriter ------------------------------
(* Frames of one, two and three bytes against a buffer of four. *)
EXTENDS AcpWriter

CONSTANTS f1, f2, f3
MCFrames == {f1, f2, f3}
MCBytes == [f \in MCFrames |-> IF f = f1 THEN 1 ELSE IF f = f2 THEN 2 ELSE 3]
================================================================================
