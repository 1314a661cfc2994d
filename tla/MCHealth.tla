------------------------------ MODULE MCHealth ------------------------------
(***************************************************************************)
(* Instances of Health for TLC.                                            *)
(***************************************************************************)
EXTENDS Health

\* The defaults with both providers, and one provider that is told of every
\* status, also on a terminal.
MCPolicies ==
  { [destinations |-> Provider,  notifyOn |-> {"degraded", "unhealthy", "failed"},
     sendFor |-> {"doctor", "verify"}, interactive |-> FALSE],
    [destinations |-> {"ntfy"},  notifyOn |-> {"unhealthy", "succeeded"},
     sendFor |-> Command, interactive |-> TRUE] }
=============================================================================
