---------------------------- MODULE MCLifecycle ----------------------------
(* Sessions for Lifecycle: one of each protocol.                             *)
EXTENDS Lifecycle

TwoSessions == <<"RSSL", "SSLED">>
=============================================================================
