--------------------------- MODULE MCSnapshotStore ---------------------------
EXTENDS SnapshotStore, FiniteSetsExt, TLC

CONSTANT s1

\* One snapshot of two units among unit ones.
MCSize == [s \in Snapshots |-> IF s = s1 THEN 2 ELSE 1]
MCTotal(S) == MapThenSumSet(LAMBDA s : MCSize[s], S)

\* Bounds: overlapping uploads are explored without hook, faults and purge, and
\* only they get to the fourth snapshot.
Explored ==
  /\ "overlap" \in marks => marks = {"overlap"} /\ expired = {}
  /\ Cardinality(rows \cup blob \cup acked) > 3 => "overlap" \in marks

Interchangeable == Permutations(Requests) \cup Permutations(Snapshots \ {s1})

=============================================================================
