---------------------------- MODULE MCMainBook ----------------------------
(***************************************************************************)
(* MainBook for TLC: prices one below and one above the entry price, room  *)
(* for two positions under the exposure cap.                               *)
(***************************************************************************)
EXTENDS MainBook, TLC

MCPrices == {1, 3}
MCLossLimit == -2
MCSymmetry == Permutations(Tickers)
=============================================================================
