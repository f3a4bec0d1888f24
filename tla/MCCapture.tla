------------------------------ MODULE MCCapture ------------------------------
EXTENDS Capture

=============================================================================
