------------------------------ MODULE MCAccounts ------------------------------
(* Instances of Accounts and Provisioning for TLC.  They share nothing; a      *)
(* behaviour runs one of them.                                                 *)
EXTENDS Accounts, Provisioning, TLC

VARIABLE part

MCInit ==
  /\ part \in {"accounts", "pages"} /\ Init /\ PvInit
  /\ part # "pages" => slots = [s \in SlotIds |-> FALSE]

MCNext ==
  /\ UNCHANGED part
  /\ \/ part = "accounts" /\ Next /\ UNCHANGED pvVars
     \/ part = "pages" /\ PvNext /\ UNCHANGED vars

MCSpec == MCInit /\ [][MCNext]_<<part, vars, pvVars>>

\* Links, sessions and requests are interchangeable in every definition.
Symmetry == Permutations(Links) \cup Permutations(Sessions) \cup Permutations(Requests)
=============================================================================
