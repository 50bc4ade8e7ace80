-------------------------- MODULE MCAccountErasure --------------------------
EXTENDS AccountErasure

CONSTANT first

\* Accounts are interchangeable, so that the first one to be deleted may be taken to
\* be the account named first.  The constraint takes the place of SYMMETRY, which TLC
\* does not support for liveness; no fair action is cut off by it.
FirstDeletedFirst == Requested # {} => first \in Requested

=============================================================================
