----------------------------- MODULE MCAccounts -----------------------------
(* Accounts for TLC: a few requests, tokens and sockets of one account.     *)
EXTENDS Accounts, TLC

Symmetry == Permutations(Requests) \cup Permutations(Sockets)

(* Bound: sockets are opened in behaviours that have issued one token, the  *)
(* longer histories of tokens are explored without them.                    *)
TokensOrSockets == Cardinality(Issued) > 1 => \A s \in Sockets : socket[s] = "off"
=============================================================================
