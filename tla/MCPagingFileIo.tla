--------------------------- MODULE MCPagingFileIo ---------------------------
(* Small instances of PagingFileIo for TLC. *)
EXTENDS PagingFileIo, TLC

\* One run, and two of which one does not fit in the reserve MDL.
ManyShapes == {<<1>>, <<2, 1>>, <<1, 2>>}
TwoRuns == {<<2, 1>>}
=============================================================================
