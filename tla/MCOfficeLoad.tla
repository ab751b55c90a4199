---------------------------- MODULE MCOfficeLoad ----------------------------
(* OfficeLoad with one VM per connection. *)
EXTENDS OfficeLoad

CONSTANTS v1, v2, v3
=============================================================================
