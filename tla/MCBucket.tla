------------------------------ MODULE MCBucket ------------------------------
(* Two runs under one prefix, with the same id or different ones.  No step  *)
(* tells two runs or two ids apart except by equality.                     *)
EXTENDS Bucket, TLC

CONSTANTS run1, run2, pinned, fresh

TwoRuns == {run1, run2}
TwoIds == {pinned, fresh}
AllModes == {"keep", "stale", "force"}
Alike == {p @@ q : p \in Permutations(TwoRuns), q \in Permutations(TwoIds)}
=============================================================================
