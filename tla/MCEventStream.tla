----------------------------- MODULE MCEventStream ----------------------------
(* A ring of two events and a journal of two events or three size units, so     *)
(* that lag, expiry by count, expiry by bytes and too-large events all occur. *)
(* Clients only read shared state, so one client that connects, drops and     *)
(* reconnects at will stands for any number of them.                          *)
EXTENDS EventStream
===============================================================================
