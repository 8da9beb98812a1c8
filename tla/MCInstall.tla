------------------------------- MODULE MCInstall -------------------------------
(* A layout of five roles: a standard directory that may exist, the product's *)
(* directory in it, the directory of the journals, a file in a directory that *)
(* always exists and a file in the product's directory.                       *)
EXTENDS InstallTransaction

MCParent == [r \in Role |-> CASE r = 2 -> 1 [] r = 5 -> 2 [] OTHER -> 0]
===============================================================================
