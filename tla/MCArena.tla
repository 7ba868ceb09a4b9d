------------------------------- MODULE MCArena -------------------------------
(* Sizes with and without padding, one that fills a page with another, and  *)
(* one that is too large.                                                   *)
EXTENDS Arena

MCRequests == [size : {1, 3, 4, 5, 6}, alignment : {1, 2, 4}]
=============================================================================
