--------------------------- MODULE MCFindingsRouting ---------------------------
(* Three nights that differ in what they say about the labels, two syncs that may *)
(* overlap, and a repository in which the label "schema-drift" cannot be made and *)
(* the calls for "audit-finding" hang; "dns-rebinding" comes after that one.      *)
EXTENDS FindingsRouting

MCKeys == {"schema-drift", "redteam", "audit-finding", "dns-rebinding"}

Clean == [gates |-> [g \in GateNames |-> 0], tests |-> 1, graded |-> TRUE,
          pf |-> [written |-> TRUE, results |-> {}]]
With(g, code) == [Clean EXCEPT !.gates = [@ EXCEPT ![g] = code]]

\* All clean; drifted schemas and a red-team hit; and a determ-only run of a target
\* that has neither a lockfile nor a host allow-list.
MCAudits == [clean   |-> Clean,
             red     |-> [With("promptfoo_rc", 100) EXCEPT
                            !.gates.schema_drift = 2,
                            !.pf.results = {[error |-> FALSE, success |-> FALSE,
                                             redteam |-> TRUE, contract |-> FALSE]}],
             partial |-> [With("lockfile", 3) EXCEPT !.gates.host_allowlist = 3, !.graded = FALSE]]

MCUnroutable == {"schema-drift"}
MCStalling == {"audit-finding"}
================================================================================
