--------------------------- MODULE MCSessionLog ---------------------------
\* A small instance of SessionLog for TLC.
EXTENDS SessionLog

MCStoppable == {"daemon"}

============================================================================
