-------------------------- MODULE MCMemoryMaintenance --------------------------
(***************************************************************************)
(* Instance of MemoryMaintenance for TLC.                                  *)
(***************************************************************************)
EXTENDS MemoryMaintenance

OneFact == {CHOOSE f \in Fact : TRUE}
SameFact  == [m \in Memory |-> OneFact]
\* Facts are alike: the first one stored may as well be this one.
SomeFacts == [m \in Memory |-> IF m = 1 THEN OneFact ELSE Fact]

MCSettings == {
  \* All actors, one at a time.
  [concurrency |-> 1, alone |-> TRUE, stores |-> 3, facts |-> SomeFacts, faults |-> 0,
   failures |-> 0, strays |-> 0, deletes |-> 1, scans |-> 1, downs |-> 1],
  \* An answer that names no candidate, beside a user's delete.
  [concurrency |-> 1, alone |-> TRUE, stores |-> 3, facts |-> SomeFacts, faults |-> 0,
   failures |-> 0, strays |-> 1, deletes |-> 1, scans |-> 0, downs |-> 1],
  \* Two runners and ingest at once, with two tasks a chunk.
  [concurrency |-> 2, alone |-> FALSE, stores |-> 2, facts |-> SomeFacts, faults |-> 1,
   failures |-> 1, strays |-> 0, deletes |-> 0, scans |-> 0, downs |-> 1],
  \* A failing memory and two others: one more than a batch holds.
  [concurrency |-> 1, alone |-> TRUE, stores |-> 4, facts |-> SameFact, faults |-> 1,
   failures |-> 1, strays |-> 0, deletes |-> 0, scans |-> 0, downs |-> 0]}

\* One actor at a time, with the tasks of a chunk side by side.
MCChunks == {
  [concurrency |-> 2, alone |-> TRUE, stores |-> 3, facts |-> SomeFacts, faults |-> 0,
   failures |-> 0, strays |-> 0, deletes |-> 0, scans |-> 0, downs |-> 0]}
================================================================================
