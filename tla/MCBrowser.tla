----------------------------- MODULE MCBrowser -----------------------------
(***************************************************************************)
(* Browser for TLC: an uploader of each of two tenants, or one and an        *)
(* account that may not upload.                                              *)
(***************************************************************************)
EXTENDS Browser

CONSTANTS kb, acme, guest   (* accounts                                     *)

MCTenant == [a \in Accounts |-> IF a = acme THEN "acme" ELSE "kb"]

=============================================================================
