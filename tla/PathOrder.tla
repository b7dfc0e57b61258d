------------------------------ MODULE PathOrder ------------------------------
(***************************************************************************)
(* The sort of packages/cli/src/tools/execution/FileLockManager.ts,        *)
(* acquireLocks. Paths are numbers, so that localeCompare is <.            *)
(***************************************************************************)
EXTENDS Integers, FiniteSets

\* A finite set of numbers as a sequence, the smallest first.
Ascending(S) ==
  LET n == Cardinality(S)
  IN  CHOOSE s \in [1 .. n -> S] : \A i, j \in 1 .. n : i < j => s[i] < s[j]
=============================================================================
