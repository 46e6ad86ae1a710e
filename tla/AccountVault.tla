---------------------------- MODULE AccountVault ----------------------------
(***************************************************************************)
(* What NXOAuth2AccountStore promises about the accounts that survive the  *)
(* program: the durable set changes by one account at a time, and only a   *)
(* process that dies while it saves can lose the rest.                     *)
(***************************************************************************)
CONSTANT Account

VARIABLES
    vault,      \* the accounts that a new launch would find
    up          \* "up" or "down"

vaultVars == <<vault, up>>

VaultInit == vault = {} /\ up = "up"

Put(a) == up = "up" /\ vault' = vault \cup {a} /\ UNCHANGED up

Drop(a) == up = "up" /\ vault' = vault \ {a} /\ UNCHANGED up

\* The process ends: between operations, right after a removal was saved, or in
\* the middle of a save.
Die ==
    /\ up = "up"
    /\ up' = "down"
    /\ vault' \in {vault, {}} \cup {vault \ {a} : a \in Account}

Start == up = "down" /\ up' = "up" /\ UNCHANGED vault

VaultNext == Die \/ Start \/ \E a \in Account : Put(a) \/ Drop(a)

VaultSpec == VaultInit /\ [][VaultNext]_vaultVars
=============================================================================
