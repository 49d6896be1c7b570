----------------------------- MODULE MCOverlays -----------------------------
EXTENDS Overlays

MCAction == {"pause", "add", "remove"}
=============================================================================
