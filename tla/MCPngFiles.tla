----------------------------- MODULE MCPngFiles -----------------------------
(* PngFiles with formats in which blocks, rows and buffers end at the same *)
(* place, next to each other and apart.                                    *)
EXTENDS PngFiles

Formats ==
  {[width |-> 2, height |-> 2, block |-> 3, buffer |-> 4],
   [width |-> 2, height |-> 2, block |-> 4, buffer |-> 3],
   [width |-> 3, height |-> 2, block |-> 4, buffer |-> 5],
   [width |-> 1, height |-> 3, block |-> 9, buffer |-> 2]}
=============================================================================
