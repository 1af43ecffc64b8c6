---------------------------- MODULE MCPipeReader ----------------------------
(* PipeReader on small buffers.  Kernel buffers are interchangeable.       *)
EXTENDS PipeReader, TLC

Symmetry == Permutations(Buffers)
=============================================================================
