---------------------------- MODULE MCNonCachedIo ----------------------------
(* Small instances of NonCachedIo for TLC, and the keystream on bounded buffers. *)
EXTENDS NonCachedIo, Keystream

\* Two files whose sectors lie between each other's.
Layout == [u |-> <<2, 4, 6>>, d |-> <<1, 3>>]

\* Buffers of up to three blocks of plaintext at every offset in the first blocks.
ASSUME CutsDoNotMatterHere ==
    \A length \in 0 .. 3 * GridSize, streamOffset \in 0 .. 2 * GridSize :
        CutsDoNotMatter([i \in 1 .. length |-> {}], "seed", streamOffset)
=============================================================================
