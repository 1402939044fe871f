-------------------------- MODULE MCCheckpointing --------------------------
EXTENDS Checkpointing
============================================================================
