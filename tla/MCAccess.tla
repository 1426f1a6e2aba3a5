------------------------------ MODULE MCAccess ------------------------------
(* A small instance of Access for the last owner.                           *)
EXTENDS Access
=============================================================================
