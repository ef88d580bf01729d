----------------------------- MODULE MCRecorder -----------------------------
(* Recorder for TLC: a key or two, and enough output to overrun a buffer that has shrunk. *)
EXTENDS Recorder

MCMaxBytes == [d \in Dir |-> IF d = "Input" THEN 1 ELSE 4]
=============================================================================
