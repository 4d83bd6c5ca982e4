----------------------------- MODULE MCDashboard -----------------------------
EXTENDS Dashboard

\* A port that is closed, Tor's own, and one that greets before any command.
MCControls == {"refuses", "silent", "greets"}
==============================================================================
