------------------------------- MODULE MCPipe -------------------------------
(* Instances of the pipe for TLC. *)
EXTENDS Pipe

\* A short write, and one longer than the pipe.
MCChunks == {<<0>>, <<1, 0, 1>>}
=============================================================================
