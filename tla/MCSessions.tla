----------------------------- MODULE MCSessions -----------------------------
(* Instances of Sessions for TLC. *)
EXTENDS Sessions

(* A password is like a role that stays the same; deactivate has a run of its
   own, and the user may be inactive from the start. *)
OverlapKinds ==
  LoginKinds \cup {"suspend", "restore", "delete"} \cup {"role"} \cup TokenKinds
=============================================================================
