-------------------------------- MODULE MCSim --------------------------------
(* The simulator's threads over a few tiles; the sizes are in the .cfg     *)
(* files: a pair of threads with a column, or two pairs with a tile each   *)
(* and no barrier between kernels.  Another two pairs are in MCThreads.    *)
EXTENDS SimThreads

(* A task sends to one tile, any.                                          *)
OneTile == {{t} : t \in Tile}
=============================================================================
