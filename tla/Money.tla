------------------------------- MODULE Money -------------------------------
(***************************************************************************)
(* internal/domain/money.go: an amount in sen, held in a signed machine    *)
(* integer.  Go's + wraps silently; Add and Sub detect it and answer an    *)
(* error.  The width is a parameter: HalfRange is 2^63 in the program.     *)
(*                                                                         *)
(* An operation that returns (Money, error) in Go returns a record         *)
(* [val, err] here, with err = "nil" on success.                           *)
(***************************************************************************)
EXTENDS Integers

CONSTANTS
  HalfRange,       \* 2^(width-1)
  MaxSafeAmount    \* maxSafeAmount, the largest single amount NewMoney admits

ASSUME MoneyAssumption ==
  /\ HalfRange \in Nat \ {0}
  /\ MaxSafeAmount \in 1..(HalfRange - 1)

\* type Money int64
Int64 == (-HalfRange)..(HalfRange - 1)

\* The machine's result for a mathematical result at most one period away.
Wrap(x) == IF x >= HalfRange THEN x - 2 * HalfRange
           ELSE IF x < -HalfRange THEN x + 2 * HalfRange
           ELSE x

Value(x) == [val |-> x, err |-> "nil"]
Error(e) == [val |-> 0, err |-> e]

----------------------------------------------------------------------------

NewMoney(sen) ==
  IF sen <= 0 THEN Error("ErrAmountNotPositive")
  ELSE IF sen > MaxSafeAmount THEN Error("ErrAmountOverflow")
  ELSE Value(sen)

\* The test of Add that misses sums below the range.
OverflowsUpOnly(m, o, sum) == o > 0 /\ sum < m

\* The test of Add, on the wrapped sum.
Overflows(m, o, sum) == (o > 0 /\ sum < m) \/ (o < 0 /\ sum > m)

Add(m, o) == LET sum == Wrap(m + o)
             IN  IF Overflows(m, o, sum) THEN Error("ErrAmountOverflow")
                                         ELSE Value(sum)

\* -o is computed in machine arithmetic too.
Sub(m, o) == IF o = -HalfRange THEN Error("ErrAmountOverflow")
                               ELSE Add(m, Wrap(-o))

IsPositive(m) == m > 0

----------------------------------------------------------------------------

(* What the operations promise, in mathematical integers: a result is given
   exactly when it can be represented, and then it is the exact one.
   Sub also refuses the subtrahend -2^63, whatever the minuend.            *)

\* Add(m, o) is the exact sum, or ErrAmountOverflow when there is none.
AddIsExact(m, o) ==
  Add(m, o) = IF m + o \in Int64 THEN Value(m + o) ELSE Error("ErrAmountOverflow")

\* Sub(m, o) is the exact difference, or an error.
SubIsExact(m, o) ==
  Sub(m, o) = IF o # -HalfRange /\ m - o \in Int64
              THEN Value(m - o) ELSE Error("ErrAmountOverflow")
============================================================================
