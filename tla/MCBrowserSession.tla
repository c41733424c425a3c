--------------------------- MODULE MCBrowserSession ---------------------------
(***************************************************************************)
(* One tab, one user with an expired access token, one sign-in.            *)
(***************************************************************************)
EXTENDS BrowserSession

TwoClubs == [u \in Users |-> <<"k1", "k2">>]
SigningInOnly == {"login"}
=============================================================================
