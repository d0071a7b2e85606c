-------------------------- MODULE StakingContract --------------------------
(***************************************************************************)
(* Abstract specification of what PredeployStakingSC promises: the genesis *)
(* staking account holds the high-level state of the staking contract      *)
(* after each validator of the input list has been registered in input     *)
(* order with one fixed stake (spec.md, sections 3 and 4.4), followed by   *)
(* the minimum and maximum validator counts and a balance that backs the   *)
(* total stake.  No storage keys appear here; PredeployStaking maps its    *)
(* raw storage onto these variables through the Solidity layout.           *)
(***************************************************************************)
EXTENDS Integers, Sequences

CONSTANTS
  Addr,    \* validator addresses
  Inputs,  \* the validator lists a caller may pass
  Counts,  \* the minimum/maximum validator counts a caller may pass
  Stake    \* the fixed per-validator deposit

VARIABLES
  input,              \* the validator list being registered
  requested,          \* the PredeployParams of the call
  validatorSet,       \* _validators: the array of registered validators
  isValidator,        \* _addressToIsValidator
  stakedAmountOf,     \* _addressToStakedAmount
  validatorIndexOf,   \* _addressToValidatorIndex
  stakedTotal,        \* _stakedAmount
  minCount,           \* _minimumNumValidators
  maxCount,           \* _maximumNumValidators
  balance             \* the native balance of the contract account

vars == <<input, requested, validatorSet, isValidator, stakedAmountOf,
          validatorIndexOf, stakedTotal, minCount, maxCount, balance>>

Init ==
  /\ input \in Inputs
  /\ requested \in [MinValidatorCount : Counts, MaxValidatorCount : Counts]
  /\ validatorSet = <<>>
  /\ isValidator = [a \in Addr |-> FALSE]
  /\ stakedAmountOf = [a \in Addr |-> 0]
  /\ validatorIndexOf = [a \in Addr |-> 0]
  /\ stakedTotal = 0
  /\ minCount = 0
  /\ maxCount = 0
  /\ balance = 0

\* The next validator of the list is appended to the array and its mapping
\* entries are set; the deposit is fixed, never accumulated per address.
Register ==
  /\ Len(validatorSet) < Len(input)
  /\ LET v == input[Len(validatorSet) + 1] IN
       /\ validatorSet' = Append(validatorSet, v)
       /\ isValidator' = [isValidator EXCEPT ![v] = TRUE]
       /\ stakedAmountOf' = [stakedAmountOf EXCEPT ![v] = Stake]
       /\ validatorIndexOf' = [validatorIndexOf EXCEPT ![v] = Len(validatorSet)]
       /\ stakedTotal' = stakedTotal + Stake
  /\ UNCHANGED <<input, requested, minCount, maxCount, balance>>

\* Once the whole list is registered: the requested counts are stored and
\* the account balance is set to the total stake.
Configure ==
  /\ Len(validatorSet) = Len(input)
  /\ minCount' = requested.MinValidatorCount
  /\ maxCount' = requested.MaxValidatorCount
  /\ balance' = stakedTotal
  /\ UNCHANGED <<input, requested, validatorSet, isValidator, stakedAmountOf,
                 validatorIndexOf, stakedTotal>>

Next == Register \/ Configure

Spec == Init /\ [][Next]_vars
=============================================================================
