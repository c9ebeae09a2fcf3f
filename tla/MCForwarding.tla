---------------------------- MODULE MCForwarding ----------------------------
(* Small instances of Forwarding: an administrator beside the unit, and     *)
(* two forward-to-addresses, one of which cannot be parsed.               *)
EXTENDS Forwarding, TLC

CONSTANTS admin, hostA, wrong, account

Administrators == {admin}
Addresses == {hostA, wrong}
Wrong == {wrong}
Accounts == {account}
=============================================================================
