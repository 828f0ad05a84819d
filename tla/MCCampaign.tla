----------------------------- MODULE MCCampaign -----------------------------
EXTENDS Campaign

\* The canvases of index.html; two more are commented out.
MCCanvases == {"barChart", "missChart"}
=============================================================================
