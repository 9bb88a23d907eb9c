--------------------------- MODULE InterestIndex ---------------------------
(***************************************************************************)
(* The interest arithmetic of contracts/core/EnhancedLendingProtocol.sol:  *)
(* an index per token that grows once per whole five-minute interval, and  *)
(* debts that are scaled by the ratio of two values of that index.  All    *)
(* divisions truncate, as in Solidity.  The 2^256 wrap-around guard of     *)
(* SafeMath is not modelled: the numbers here are unbounded naturals.      *)
(***************************************************************************)
EXTENDS Integers

CONSTANTS
  SCALE,                   (* the 1e18 fixed-point unit of an index        *)
  INITIAL_INTEREST_INDEX,  (* the index of a market that never accrued     *)
  SECONDS_PER_INTERVAL,    (* five minutes                                 *)
  SECONDS_PER_YEAR

ASSUME InterestConstants ==
  /\ SCALE \in Nat \ {0}
  /\ INITIAL_INTEREST_INDEX \in Nat \ {0}
  /\ SECONDS_PER_INTERVAL \in Nat \ {0}
  /\ SECONDS_PER_YEAR \in Nat \ {0}

BASIS_POINTS == 10000

(* Interest, in units of SCALE, of the whole intervals among elapsed       *)
(* seconds; the started interval counts for nothing.                       *)
ScaledInterestRate(rate, elapsed) ==
  LET fullIntervals     == elapsed \div SECONDS_PER_INTERVAL
      actualTimeElapsed == fullIntervals * SECONDS_PER_INTERVAL
  IN  ((rate * actualTimeElapsed * SCALE) \div SECONDS_PER_YEAR) \div 100

(* The value of an index after elapsed seconds.                            *)
GrownIndex(index, rate, elapsed) ==
  (index * (SCALE + ScaledInterestRate(rate, elapsed))) \div SCALE

(* What a debt of amount, last charged at userIndex, is worth at index.    *)
DebtAt(amount, userIndex, index) == (amount * index) \div userIndex
=============================================================================
