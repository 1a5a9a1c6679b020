-------------------------- MODULE MCDynamicBuffer --------------------------
(* A buffer that starts with two bytes and grows. *)
EXTENDS DynamicBuffer
=============================================================================
