-------------------------- MODULE MCServiceManager --------------------------
(* ServiceManager with two service processes and two names. *)
EXTENDS ServiceManager

CONSTANTS p1, p2, n1, n2

=============================================================================
