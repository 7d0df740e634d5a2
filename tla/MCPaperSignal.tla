---------------------------- MODULE MCPaperSignal ----------------------------
(* Candles that touch nothing, one level, and two of them. *)
EXTENDS PaperSignal

MCRanges == { <<5, 5>>, <<4, 5>>, <<5, 6>>, <<1, 2>>, <<4, 6>> }
=============================================================================
