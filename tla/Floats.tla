------------------------------- MODULE Floats --------------------------------
(***************************************************************************)
(* The arithmetic of float64 that the metrics make their scores with, and  *)
(* the decimals that are read into it.                                     *)
(*                                                                         *)
(* A float that is not negative is held as the number of times 2^-Scale    *)
(* is in it, has Precision significant bits, and is the nearest there is   *)
(* to the exact result of every operation, ties going to the even one.     *)
(* float64 has Precision 53 and Scale 1074; nothing here is large enough   *)
(* for the greatest float64 to matter.                                     *)
(***************************************************************************)
EXTENDS Integers

CONSTANTS
  Precision,  \* significant bits of a float
  Scale,      \* bits below the point of the finest float
  Unit        \* decimals are counted in 1 / Unit

\* 0.7, the default threshold, is a decimal.
ASSUME FloatsAssumption ==
  /\ Precision \in Nat \ {0, 1}
  /\ Scale \in Nat
  /\ Precision <= Scale
  /\ Unit \in Nat \ {0}
  /\ Unit % 10 = 0

\* 2^k
TwoTo[k \in Nat] == IF k = 0 THEN 1 ELSE 2 * TwoTo[k - 1]

\* Integers below it have no more bits than a float.
Resolution == TwoTo[Precision]

One == TwoTo[Scale]

\* How far apart floats are around whole.
Grid[whole \in Nat] == IF whole < Resolution THEN 1 ELSE 2 * Grid[whole \div 2]

\* num / den as a float, for natural num and positive den.
Round(num, den) ==
  LET grid  == Grid[num \div den]
      down  == num \div (den * grid)
      twice == 2 * (num - down * den * grid)
      up    == \/ twice > den * grid
               \/ twice = den * grid /\ down % 2 = 1
  IN  grid * IF up THEN down + 1 ELSE down

\* A literal or a JSON number.
Float(number) ==
  IF number < 0 THEN -Round((-number) * One, Unit) ELSE Round(number * One, Unit)

\* It is in [0,1], as a float: a number that rounds to 0 or 1 counts as in it.
InUnit(number) == Float(number) \in 0 .. One
=============================================================================
