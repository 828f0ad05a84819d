---------------------------- MODULE MCDashboard -----------------------------
EXTENDS Dashboard

\* The canvases of index.html; two more are commented out.
MCCanvases == {"barChart", "missChart"}
=============================================================================
