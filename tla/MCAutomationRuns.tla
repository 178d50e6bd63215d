-------------------------- MODULE MCAutomationRuns --------------------------
(* Small instances of AutomationRuns.                                        *)
EXTENDS AutomationRuns
=============================================================================
