----------------------------- MODULE MCXcpCore ------------------------------
(* Model-checking instance of XcpCore: buffers are interchangeable.        *)
EXTENDS XcpCore, TLC

BufferSymmetry == Permutations(Buffers)
=============================================================================
