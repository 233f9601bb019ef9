------------------------------ MODULE MCRequests ------------------------------
(* Instances of Requests for TLC. *)
EXTENDS Requests

\* Every type at the very size of the cap, one body that passes it by one, and
\* one of more than a chunk past it.
MCBodies ==
  [size: {MaxBytes}, file: Files] \cup [size: {MaxBytes + 1, 8}, file: {"pdf"}]
===============================================================================
