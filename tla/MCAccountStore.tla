--------------------------- MODULE MCAccountStore ---------------------------
(***************************************************************************)
(* AccountStore for TLC.  Two account types share a redirect URL, so that  *)
(* one redirect can reach both.                                            *)
(***************************************************************************)
EXTENDS AccountStore, TLC

StoreSymmetry == Permutations(Account) \cup Permutations(Type) \cup Permutations(Data)

SharedRedirect == {Type}
=============================================================================
