----------------------------- MODULE MCSubmitter -----------------------------
EXTENDS Submitter

=============================================================================
