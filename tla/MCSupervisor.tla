---------------------------- MODULE MCSupervisor ----------------------------
(* One profile, so the commands differ in what they do and not in what for. *)
EXTENDS Supervisor
=============================================================================
