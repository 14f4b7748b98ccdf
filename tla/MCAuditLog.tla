----------------------------- MODULE MCAuditLog -----------------------------
(* Instances of AuditLog for TLC.                                          *)
EXTENDS AuditLog

CONSTANTS p1, p2, r1, e1

TwoAppenders == {p1, p2}
OneReader == {r1}
OneType == {e1}
=============================================================================
