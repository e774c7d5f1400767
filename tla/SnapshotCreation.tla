---------------------------- MODULE SnapshotCreation ----------------------------
(***************************************************************************)
(* The strategies that decide after an append whether a snapshot of the    *)
(* new version is created (controller/snapshot_creation_strategy.cc), as   *)
(* operators over the measures of the chain that the controller keeps      *)
(* (CreationStrategyMetadata).                                             *)
(*                                                                         *)
(* The program compares doubles.  A double that is a quotient is the pair  *)
(* of its two numbers here, <<0, 0>> is not a number and <<n, 0>> infinite.*)
(***************************************************************************)
EXTENDS Integers, Sequences, SequencesExt

NoMeasures ==
  [patchId |-> -1, ingestions |-> 0, lastSnapshotSize |-> 0,
   deltaSizes |-> <<>>, aggDeltaSizes |-> <<>>, versionSizes |-> <<>>,
   changeRatios |-> <<>>, locChangeRatios |-> <<>>]

Exceeds(a, b) == a[1] * b[2] > b[1] * a[2]
Reaches(a, b) == a # <<0, 0>> /\ a[1] * b[2] >= b[1] * a[2]

Plus(a, b) == <<a[1] * b[2] + b[1] * a[2], a[2] * b[2]>>
SumOfRatios(ratios) == FoldLeft(Plus, <<0, 1>>, ratios)
SumOf(numbers) == FoldLeft(LAMBDA a, b : a + b, 0, numbers)

(***************************************************************************)
(* doCreate of the strategies of get_strategy.  The mean of "size" is cut  *)
(* to an integer, which may be 0.  slower is the outcome of "time", how    *)
(* the last ingestion compares to the second one of the chain.             *)
(***************************************************************************)
CreatesSimple(strategy, m, slower) ==
  CASE strategy.kind = "never" -> FALSE
    [] strategy.kind = "always" -> TRUE
    [] strategy.kind = "interval" -> m.patchId % strategy.step = 0
    [] strategy.kind = "size" ->
         Exceeds(<<Last(m.aggDeltaSizes), SumOf(m.deltaSizes) \div Len(m.deltaSizes)>>,
                 strategy.threshold)
    [] strategy.kind = "size2" ->
         Exceeds(<<Last(m.aggDeltaSizes), m.lastSnapshotSize>>, strategy.threshold)
    [] strategy.kind = "time" -> m.ingestions >= 3 /\ slower
    [] strategy.kind = "change" -> Exceeds(Last(m.changeRatios), strategy.threshold)
    [] strategy.kind = "aggchange" -> Reaches(SumOfRatios(m.changeRatios), strategy.threshold)
    [] strategy.kind = "locaggchange" ->
         Reaches(SumOfRatios(m.locChangeRatios), strategy.threshold)

\* The composite strategies, of any number of simple ones.
DoCreate(strategy, m, slower) ==
  CASE strategy.kind = "and" -> \A s \in strategy.parts : CreatesSimple(s, m, slower)
    [] strategy.kind = "or" -> \E s \in strategy.parts : CreatesSimple(s, m, slower)
    [] OTHER -> CreatesSimple(strategy, m, slower)

(***************************************************************************)
(* The part of append that stores the measures of a patch under the        *)
(* snapshot of its chain and returns what is stored there by now           *)
(* (MetadataManager): passed elements of the patch, additions and          *)
(* deletions of the version relative to the snapshot.                      *)
(***************************************************************************)
Measured(m, id, snapshotSize, passed, added, deleted) ==
  LET previous == m.versionSizes
      local == IF previous = <<>> THEN <<0, 1>>
               ELSE <<passed, Last(previous) + passed>>
  IN [patchId          |-> id,
      ingestions       |-> m.ingestions + 1,
      lastSnapshotSize |-> snapshotSize,
      deltaSizes       |-> Append(m.deltaSizes, passed),
      aggDeltaSizes    |-> Append(m.aggDeltaSizes, added + deleted),
      versionSizes     |-> Append(m.versionSizes, snapshotSize - deleted + added),
      changeRatios     |-> Append(m.changeRatios, <<added + deleted, snapshotSize + added>>),
      locChangeRatios  |-> Append(m.locChangeRatios, local)]
===============================================================================
