--------------------------- MODULE MCMonitorOutput ---------------------------
EXTENDS MonitorOutput

=============================================================================
