------------------------- MODULE MCDarkMarketServer -------------------------
(***************************************************************************)
(* The backend for TLC.  Requests and wallets are interchangeable: no      *)
(* definition names one, so runs that check only safety may treat states   *)
(* that differ in a permutation of them as the same.                       *)
(***************************************************************************)
EXTENDS DarkMarketServer, TLC

Symmetry == Permutations(Clients) \union Permutations(Wallets)

=============================================================================
