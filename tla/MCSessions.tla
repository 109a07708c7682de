----------------------------- MODULE MCSessions -----------------------------
(* Sessions on small instances. *)
EXTENDS Sessions

(* The statuses the paths of the code tell apart, and one this version     *)
(* does not know.                                                          *)
KnownStatuses == {"STARTING", "STOPPED", "SCAN_QR_CODE", "WORKING"}
WithUnknown == KnownStatuses \cup {"BANNED"}
=============================================================================
