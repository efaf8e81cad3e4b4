---------------------------- MODULE MCPieceBlocks ----------------------------
(* Model-checking instances of PieceBlocks: words of three bits.           *)
EXTENDS PieceBlocks

MCTorrent == [length : 0 .. 28, piece : 1 .. 18]
=============================================================================
