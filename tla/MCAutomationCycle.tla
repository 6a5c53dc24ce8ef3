--------------------------- MODULE MCAutomationCycle ---------------------------
EXTENDS AutomationCycle
=============================================================================
