---------------------------- MODULE MCMemSearch ----------------------------
(* A heap mapping of one chunk and a half, and a mapping of one byte in    *)
(* the game's program; a request for everything, for either of them, and   *)
(* for a range of the client's own that begins in the middle of a mapping  *)
(* and leaves it. At a request everything can be read, or the heap is not  *)
(* mapped any more, or the game ends when the first chunk has been read.   *)
EXTENDS MemSearch

HeapRegion == [base |-> 4, size |-> 3, scannable |-> TRUE, part |-> "heap"]
MainRegion == [base |-> 8, size |-> 1, scannable |-> TRUE, part |-> "main"]

MCRegions == {HeapRegion, MainRegion}
MCByteValues == {0, 1}
MCRequests ==
    {[explicit |-> {}, region |-> name] : name \in {"", "heap", "main"}}
    \cup {[explicit |-> {[base |-> 5, size |-> 4]}, region |-> ""]}
MCGones == {{}, {HeapRegion}, {[base |-> 6, size |-> 3]}}
=============================================================================
