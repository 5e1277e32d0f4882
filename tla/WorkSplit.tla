------------------------------ MODULE WorkSplit ------------------------------
(***************************************************************************)
(* parallel.rs: how many workers a phase gets, and how whole items (panels,*)
(* groups of rows, columns, blocks) are dealt to them: contiguous parts    *)
(* whose lengths differ by at most one, in the order of the items.         *)
(***************************************************************************)
EXTENDS Integers

CeilDiv(a, b) == (a + b - 1) \div b
Least(a, b) == IF a < b THEN a ELSE b
Most(a, b) == IF a < b THEN b ELSE a
Clamp(x, lo, hi) == Least(Most(x, lo), hi)

(* A phase's worker count: its own budget if set (0 is not set), else the base
   budget, never above the natural parallelism of the call. *)
WorkerBudget(own, base, cap) ==
  IF cap <= 1 THEN 1 ELSE Clamp(IF own > 0 THEN own ELSE base, 1, cap)

PartLen(total, parts, i) ==
  total \div parts + IF i < total % parts THEN 1 ELSE 0

(* Where part i starts: the lengths of the parts before it, added up *)
PartStart(total, parts, i) == i * (total \div parts) + Least(i, total % parts)

Part(total, parts, i) ==
  PartStart(total, parts, i) .. PartStart(total, parts, i) + PartLen(total, parts, i) - 1

(* The panels of worker i; without panels there is no worker. *)
PanelWorkers(panels, threads) ==
  IF panels = 0 THEN {} ELSE 0 .. Clamp(threads, 1, panels) - 1

AssignPanels(panels, threads) ==
  [i \in PanelWorkers(panels, threads) |-> Part(panels, Clamp(threads, 1, panels), i)]
=============================================================================
