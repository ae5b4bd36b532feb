---------------------------- MODULE JobStrategy ----------------------------
(***************************************************************************)
(* How a bulk job is cut into waves: normalizeStrategy,                    *)
(* calculateBatchSize and chunkArray of                                    *)
(* src/server/src/lib/orchestrator.js.                                     *)
(*                                                                         *)
(* The numbers of a strategy may be fractions: they are counted in Grains  *)
(* of one, and so is the size of a wave.  A field that is missing, zero or *)
(* not a number is Missing, as JavaScript's || and ?: treat all three.     *)
(***************************************************************************)
EXTENDS Integers, Sequences, SequencesExt

CONSTANTS MAX_GLOBAL_CONCURRENCY,
          Grain   \* as many of them are one

ASSUME ConcurrencyAssumption == MAX_GLOBAL_CONCURRENCY \in Nat \ {0}
ASSUME GrainAssumption == Grain \in Nat \ {0}

Missing == 0

Least(a, b) == IF a <= b THEN a ELSE b
Greatest(a, b) == IF a >= b THEN a ELSE b

Bounded(low, n, high) == Least(high, Greatest(low, n))

normalizeStrategy(s) ==
  [concurrency |->
     Bounded(Grain, IF s.concurrency = Missing THEN MAX_GLOBAL_CONCURRENCY * Grain
                    ELSE s.concurrency, MAX_GLOBAL_CONCURRENCY * Grain),
   batchSize |-> IF s.batchSize = Missing THEN Missing ELSE Greatest(Grain, s.batchSize),
   batchPercent |-> IF s.batchPercent = Missing THEN Missing
                    ELSE Bounded(Grain, s.batchPercent, 100 * Grain)]


\* Only a share is rounded.
calculateBatchSize(total, batchSize, batchPercent) ==
  IF batchSize # Missing THEN Least(total * Grain, Greatest(Grain, batchSize))
  ELSE IF batchPercent # Missing
         THEN Least(total, Greatest(1, (total * batchPercent) \div (100 * Grain))) * Grain
         ELSE Grain

\* Where slice cuts a list for the w-th time: it leaves out what a number has
\* behind its point.
Cut(list, size, w) == Least((w * size) \div Grain, Len(list))

\* slice(i, i + size) for i = 0, size, 2 * size, ... below the length.
chunkArray(list, size) ==
  LET waves == (Len(list) * Grain + size - 1) \div size
  IN  [w \in 1..waves |-> SubSeq(list, Cut(list, size, w - 1) + 1, Cut(list, size, w))]

\* The waves of a rolling job.
Waves(targets, strategy) ==
  LET s == normalizeStrategy(strategy)
  IN  chunkArray(targets, calculateBatchSize(Len(targets), s.batchSize, s.batchPercent))

-----------------------------------------------------------------------------
(* The reference: what the waves of a job have to be.                      *)

\* What was asked for, which is one target at least.
NotLarger(wave, total, strategy) ==
  /\ strategy.batchSize > 0 => Len(wave) * Grain < Greatest(strategy.batchSize, Grain) + Grain
  /\ strategy.batchSize = Missing /\ strategy.batchPercent \in Grain..(100 * Grain) =>
       Len(wave) = 1 \/ Len(wave) * 100 * Grain <= total * strategy.batchPercent

\* No wave is empty, and none is larger than what was asked for, rounded up;
\* none is larger than an earlier one if that is a whole number, and otherwise
\* by one target at most.
ProperSizes(targets, strategy) ==
  LET waves == Waves(targets, strategy)
  IN  /\ \A w \in DOMAIN waves :
           Len(waves[w]) \in Nat \ {0} /\ NotLarger(waves[w], Len(targets), strategy)
      /\ \A v, w \in DOMAIN waves : v < Len(waves) =>
           /\ Len(waves[w]) <= Len(waves[v]) + 1
           /\ strategy.batchSize % Grain = 0 => Len(waves[w]) <= Len(waves[v])

\* Every wave begins behind the one before it, the first with the first target,
\* and the last ends with the last: every target is in one wave.
InTheirOrder(targets, waves) ==
  \E ends \in [0..Len(waves) -> Nat] :
    /\ ends[0] = 0 /\ ends[Len(waves)] = Len(targets)
    /\ \A w \in 1..Len(waves) : /\ ends[w - 1] < ends[w]
                                /\ waves[w] = SubSeq(targets, ends[w - 1] + 1, ends[w])

\* Together the waves are the targets in their order.
ProperWaves(targets, strategy) ==
  FlattenSeq(Waves(targets, strategy)) = targets /\ ProperSizes(targets, strategy)

=============================================================================
