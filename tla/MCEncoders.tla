----------------------------- MODULE MCEncoders -----------------------------
EXTENDS Encoders

=============================================================================
