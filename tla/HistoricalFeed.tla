---------------------------- MODULE HistoricalFeed ----------------------------
(***************************************************************************)
(* HistoricalFeed of src/edrader/replay/historical_feed.py: the rows of a  *)
(* file become events in the order of their times.  A row is represented   *)
(* by the event it would make.                                             *)
(***************************************************************************)
EXTENDS Naturals, FiniteSets, Sequences

CONSTANTS Events,
          Time,     (* event -> the time its row shows; 0 for one that cannot be read *)
          Garbled   (* those with a price or a volume that is not a number            *)

ASSUME FeedAssumption == Time \in [Events -> Nat] /\ Garbled \subseteq Events

(* list.sort and sorted(), by time: those of the same time keep the order  *)
(* they came in.                                                           *)
Before(list, i, j) ==
  Time[list[i]] < Time[list[j]] \/ (Time[list[i]] = Time[list[j]] /\ i < j)

(* The elements of list at the places in kept: the n-th of them is the one *)
(* that n - 1 come before.                                                 *)
Sorted(list, kept) ==
  LET Place(n) == CHOOSE i \in kept :
                    Cardinality({j \in kept : Before(list, j, i)}) = n - 1
  IN [n \in 1..Cardinality(kept) |-> list[Place(n)]]

SortedByTime(list) == Sorted(list, DOMAIN list)

(* load_csv and load_tick_csv of the rows from start to end: those that    *)
(* cannot be read are left out without a word.                             *)
LoadCsv(rows, range) ==
  Sorted(rows, {n \in DOMAIN rows :
                  Time[rows[n]] \in range \ {0} /\ rows[n] \notin Garbled})
=============================================================================
