-------------------------- MODULE MCCaseLifecycle --------------------------
(* Small instances of CaseLifecycle: one service with one mandatory, one    *)
(* conditional and one type-specific document, or a subset of these.        *)
EXTENDS CaseLifecycle

MCServices == {"aid"}
MCDocs == {"id"}
MCProgramDocs == [s \in MCServices |-> {"id"}]
NoDocs == [s \in MCServices |-> {}]
None == {}
=============================================================================
