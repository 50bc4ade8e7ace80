---------------------------- MODULE MCIdempotency ----------------------------
EXTENDS Idempotency

=============================================================================
