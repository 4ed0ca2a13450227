---------------------------- MODULE AtomicLedger ----------------------------
(***************************************************************************)
(* What the ledger promises its callers, without sessions, locks, rows or  *)
(* ids: claims are settled one at a time, each at most once, each by a     *)
(* balanced set of lines that moves all its accounts in one step, keeps    *)
(* every wallet at zero or above, and is announced.  A settlement may undo *)
(* an earlier one, once, line by line.                                     *)
(***************************************************************************)
EXTENDS Integers, FiniteSetsExt

CONSTANTS
  Accounts, Wallets,   \* Wallets are the accounts that may not go below zero
  GrowsOn,             \* the side an account grows on
  Claims               \* what a caller asks to have done exactly once

VARIABLES balance, active, settled, announced

avars == <<balance, active, settled, announced>>

\* A line is <<account, side, amount>>.
SideOf(lines, side) == {l \in lines : l[2] = side}
TotalOf(lines) == MapThenSumSet(LAMBDA l : l[3], lines)
Other(side) == IF side = "DEBIT" THEN "CREDIT" ELSE "DEBIT"
Mirror(lines) == {<<l[1], Other(l[2]), l[3]>> : l \in lines}

Balanced(lines) ==
  /\ lines # {}
  /\ \A l, n \in lines : l[1] = n[1] => l = n
  /\ \A l \in lines : l[1] \in Accounts /\ l[3] > 0
  /\ TotalOf(SideOf(lines, "DEBIT")) = TotalOf(SideOf(lines, "CREDIT"))

\* What a line does to the balance of its account, which has no other (Balanced).
Effect(l) == IF l[2] = GrowsOn[l[1]] THEN l[3] ELSE -l[3]

Moved(lines, a) ==
  IF \E l \in lines : l[1] = a THEN Effect(CHOOSE l \in lines : l[1] = a) ELSE 0

\* A settlement is its lines and the claim it undoes, if any: a set of at most one.
NoSettlement == [lines |-> {}, undoes |-> {}]
Settled(c) == settled[c] # NoSettlement

Undoable(new) ==
  \A c \in new.undoes :
    /\ new.undoes = {c}
    /\ c \in Claims /\ Settled(c)
    /\ settled[c].undoes = {}
    /\ \A d \in Claims : c \notin settled[d].undoes
    /\ new.lines = Mirror(settled[c].lines)

Init ==
  /\ balance = [a \in Accounts |-> 0]
  /\ active = Accounts
  /\ settled = [c \in Claims |-> NoSettlement]
  /\ announced = {}

\* The lines of the settlement are the caller's: any that meet the conditions.
Settle(c) ==
  /\ ~Settled(c)
  /\ settled' = [settled EXCEPT ![c] = settled'[c]]
  /\ LET new == settled'[c]
     IN  /\ Balanced(new.lines)
         /\ Undoable(new)
         /\ {l[1] : l \in new.lines} \subseteq active
         /\ balance' = [a \in Accounts |-> balance[a] + Moved(new.lines, a)]
  /\ \A a \in Wallets : balance'[a] >= 0
  /\ announced' = announced \union {c}
  /\ UNCHANGED active

SetActive ==
  /\ active' \in SUBSET Accounts
  /\ UNCHANGED <<balance, settled, announced>>

Next == SetActive \/ \E c \in Claims : Settle(c)

Spec == Init /\ [][Next]_avars
============================================================================
