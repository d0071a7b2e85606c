------------------------- MODULE PredeployStaking -------------------------
(***************************************************************************)
(* PredeployStakingSC (helper/staking/staking.go): the builder of the      *)
(* genesis account of the staking contract.  One step per iteration of its *)
(* loop over the validator list, and one step for what follows the loop    *)
(* (the two count slots, the saved storage map and the balance).  The      *)
(* storage map is total over the words; Empty stands for a key the Go map  *)
(* does not hold, which the EVM reads as zero.                             *)
(***************************************************************************)
EXTENDS StakingLayout, Integers, Sequences, FiniteSets

CONSTANTS
  Inputs,                \* the validator lists a caller may pass
  Counts,                \* the values PredeployParams counts may take
  CountBits,             \* width of the count fields (uint64 / int64: 64)
  DefaultStakedBalance,  \* the parsed value of the DefaultStakedBalance literal
  Empty,                 \* no entry at this key in the storage map
  NoAccount              \* the account has not been returned yet

ASSUME BuilderAssumption ==
  /\ Inputs # {}
  /\ \A s \in Inputs : s \in Seq(Addr) /\ Len(s) <= MaxValidators
  /\ CountBits \in Nat \ {0}
  /\ Counts \subseteq Nat
  /\ Counts # {}
  /\ \A c \in Counts : c < 2^CountBits
  /\ DefaultStakedBalance \in Nat
  /\ Empty \notin Word \cup Addr
  /\ NoAccount \notin [Balance : Nat, Storage : [Word -> Word \cup Addr \cup {Empty}]]

StorageValue == Word \cup Addr
Params == [MinValidatorCount : Counts, MaxValidatorCount : Counts]

VARIABLES
  validators,    \* the validators argument
  params,        \* the params argument (PredeployParams)
  indx,          \* the loop index: validators[1 .. indx] have been written
  stakedAmount,  \* the running total stake (a *big.Int, unbounded)
  storageMap,    \* storageMap: types.Hash -> types.Hash
  account        \* the returned stakingAccount, NoAccount until the return

vars == <<validators, params, indx, stakedAmount, storageMap, account>>

(***************************************************************************)
(* int64(u) of a uint64 u is the two's complement reinterpretation, and    *)
(* big.Int.Bytes() is the big-endian magnitude: the sign is dropped.       *)
(***************************************************************************)
ToInt64(u) == IF u < 2^(CountBits - 1) THEN u ELSE u - 2^CountBits
BigBytes(i) == IF i < 0 THEN -i ELSE i

\* Faulty accumulation (Sub in place of Add), a mutant of AddStake.
AddStakeSub(total, amount) == total - amount

\* stakedAmount.Add(stakedAmount, bigDefaultStakedBalance)
AddStake(total, amount) == total + amount

\* storageMap[key] = value
Put(m, key, value) == [m EXCEPT ![key] = value]

(***************************************************************************)
(* The state after the setup of the call: the bytecode and the default     *)
(* stake have been decoded (the stake literal is a constant, so its parse  *)
(* never fails), the storage map is empty and the total is zero.          *)
(***************************************************************************)
Init ==
  /\ validators \in Inputs
  /\ params \in Params
  /\ indx = 0
  /\ stakedAmount = 0
  /\ storageMap = [k \in Word |-> Empty]
  /\ account = NoAccount

(***************************************************************************)
(* One iteration of the loop over validators: add the stake to the total,  *)
(* resolve the validator's storage indexes, then the six writes in the     *)
(* order of the code, a later write to a key replacing an earlier one.     *)
(***************************************************************************)
StakeValidator ==
  /\ account = NoAccount
  /\ indx < Len(validators)
  /\ LET validator == validators[indx + 1]
         total     == AddStake(stakedAmount, DefaultStakedBalance)
         si        == getStorageIndexes(validator, indx)
         m1 == Put(storageMap, BytesToHash(si.ValidatorsIndex), validator)
         m2 == Put(m1, BytesToHash(si.AddressToIsValidatorIndex), BytesToHash(1))
         m3 == Put(m2, BytesToHash(si.AddressToStakedAmountIndex),
                   BytesToHash(DefaultStakedBalance))
         m4 == Put(m3, BytesToHash(si.AddressToValidatorIndexIndex), BytesToHash(indx))
         m5 == Put(m4, BytesToHash(si.StakedAmountIndex), BytesToHash(total))
         m6 == Put(m5, BytesToHash(si.ValidatorsArraySizeIndex), BytesToHash(indx + 1))
     IN /\ stakedAmount' = total
        /\ storageMap' = m6
        /\ indx' = indx + 1
  /\ UNCHANGED <<validators, params, account>>

\* Faulty return (balance set to one deposit), a mutant of Finish.
FinishSingleStake ==
  /\ account = NoAccount
  /\ indx = Len(validators)
  /\ LET m == Put(Put(storageMap,
                 BytesToHash(minNumValidatorSlot),
                 BytesToHash(BigBytes(ToInt64(params.MinValidatorCount)))),
               BytesToHash(maxNumValidatorSlot),
               BytesToHash(BigBytes(ToInt64(params.MaxValidatorCount))))
     IN /\ storageMap' = m
        /\ account' = [Balance |-> DefaultStakedBalance, Storage |-> m]
  /\ UNCHANGED <<validators, params, indx, stakedAmount>>

\* Faulty return (each count stored at the other's slot), a mutant of Finish.
FinishSwappedCounts ==
  /\ account = NoAccount
  /\ indx = Len(validators)
  /\ LET m == Put(Put(storageMap,
                 BytesToHash(minNumValidatorSlot),
                 BytesToHash(BigBytes(ToInt64(params.MaxValidatorCount)))),
               BytesToHash(maxNumValidatorSlot),
               BytesToHash(BigBytes(ToInt64(params.MinValidatorCount))))
     IN /\ storageMap' = m
        /\ account' = [Balance |-> stakedAmount, Storage |-> m]
  /\ UNCHANGED <<validators, params, indx, stakedAmount>>

(***************************************************************************)
(* After the loop: the minimum and maximum counts, each converted with     *)
(* big.NewInt(int64(count)), at their scalar slots; the storage map is     *)
(* saved into the account and the balance is the total stake.             *)
(***************************************************************************)
Finish ==
  /\ account = NoAccount
  /\ indx = Len(validators)
  /\ LET m == Put(Put(storageMap,
                 BytesToHash(minNumValidatorSlot),
                 BytesToHash(BigBytes(ToInt64(params.MinValidatorCount)))),
               BytesToHash(maxNumValidatorSlot),
               BytesToHash(BigBytes(ToInt64(params.MaxValidatorCount))))
     IN /\ storageMap' = m
        /\ account' = [Balance |-> stakedAmount, Storage |-> m]
  /\ UNCHANGED <<validators, params, indx, stakedAmount>>

Next == StakeValidator \/ Finish

Spec == Init /\ [][Next]_vars

-----------------------------------------------------------------------------
(***************************************************************************)
(* Reading the storage back as the contract does: a missing key is zero.   *)
(***************************************************************************)
Read(k) == IF storageMap[k] = Empty THEN 0 ELSE storageMap[k]

\* The validators the loop has written so far, by position.
Written == 0 .. indx - 1

\* Position j holds the last occurrence of its validator among those written.
LastOccurrence(j) == \A k \in j + 1 .. indx - 1 : validators[k + 1] # validators[j + 1]

\* Every key the builder may have written in the current state.
WrittenKeys ==
     (IF indx > 0 THEN {LengthKey, TotalStakeKey} ELSE {})
  \cup {ElemKey(j) : j \in Written}
  \cup {IsValidatorKey(validators[j + 1]) : j \in Written}
  \cup {StakedAmountKey(validators[j + 1]) : j \in Written}
  \cup {ValidatorIndexKey(validators[j + 1]) : j \in Written}
  \cup (IF account # NoAccount THEN {MinKey, MaxKey} ELSE {})

\* Type invariant.
TypeOK ==
  /\ validators \in Inputs
  /\ params \in Params
  /\ indx \in 0 .. Len(validators)
  /\ stakedAmount \in Nat
  /\ storageMap \in [Word -> StorageValue \cup {Empty}]
  /\ account \in {NoAccount} \cup [Balance : Nat, Storage : [Word -> StorageValue \cup {Empty}]]

(***************************************************************************)
(* The snapshot invariant of spec.md section 3, for every prefix of the    *)
(* list and at the keys of the Solidity layout: after the loop body has    *)
(* run for validators[1 .. indx], the array length is indx, the total      *)
(* stake is indx deposits, element j holds validator j, each written       *)
(* validator is flagged and holds one deposit, its index entry is the      *)
(* position of its last occurrence, and no other key has been written.     *)
(* It fails if a key of the loop (getStorageIndexes, getIndexWithOffset)   *)
(* or the order of accumulation and writes in PredeployStakingSC drifts    *)
(* from the layout.                                                        *)
(***************************************************************************)
PrefixSnapshot ==
  /\ indx > 0 => /\ storageMap[LengthKey] = BytesToHash(indx)
                 /\ storageMap[TotalStakeKey] = BytesToHash(indx * DefaultStakedBalance)
  /\ \A j \in Written :
        /\ storageMap[ElemKey(j)] = validators[j + 1]
        /\ storageMap[IsValidatorKey(validators[j + 1])] = BytesToHash(1)
        /\ storageMap[StakedAmountKey(validators[j + 1])] = BytesToHash(DefaultStakedBalance)
        /\ LastOccurrence(j) =>
              storageMap[ValidatorIndexKey(validators[j + 1])] = BytesToHash(j)
  /\ \A k \in Word \ WrittenKeys : storageMap[k] = Empty

(***************************************************************************)
(* The decoded storage is a consistent staking contract state, the one     *)
(* Staking.sol relies on when it removes a validator by its index: every   *)
(* array element is a flagged validator whose index entry points back at   *)
(* that element, and every flagged address sits in the array at its index. *)
(* A duplicate in the validators argument of PredeployStakingSC breaks it. *)
(***************************************************************************)
ContractStateConsistent ==
  /\ \A i \in 0 .. Read(LengthKey) - 1 :
        LET v == Read(ElemKey(i)) IN
          /\ v \in Addr
          /\ Read(ValidatorIndexKey(v)) = i
          /\ Read(IsValidatorKey(v)) = 1
  /\ \A a \in Addr :
        Read(IsValidatorKey(a)) = 1 =>
          /\ Read(ValidatorIndexKey(a)) < Read(LengthKey)
          /\ Read(ElemKey(Read(ValidatorIndexKey(a)))) = a

(***************************************************************************)
(* The inductive strengthening of PrefixSnapshot: the running total is     *)
(* indx deposits, and the account is only returned after the last          *)
(* iteration.                                                              *)
(***************************************************************************)
SnapshotInv ==
  /\ TypeOK
  /\ stakedAmount = indx * DefaultStakedBalance
  /\ account # NoAccount => indx = Len(validators)
  /\ PrefixSnapshot

(***************************************************************************)
(* Action property: a loop iteration or the return never changes a key     *)
(* that already holds a value, except the two aggregates (array length and *)
(* total stake) that every iteration rewrites (spec.md 4.4, step 4).  A    *)
(* key of one validator that coincides with a key of another breaks it.    *)
(***************************************************************************)
OnlyAggregatesRewritten ==
  [][\A k \in Word :
        storageMap[k] # Empty /\ storageMap'[k] # storageMap[k] =>
          k \in {LengthKey, TotalStakeKey}]_vars

(***************************************************************************)
(* Refinement: the storage, decoded through the Solidity layout, and the   *)
(* account balance behave as the abstract StakingContract: each loop       *)
(* iteration registers the next validator, the return stores the counts    *)
(* and the balance.                                                        *)
(***************************************************************************)
\* The refinement mapping: each abstract variable read from its layout keys.
DArray == [i \in 1 .. Read(LengthKey) |-> Read(ElemKey(i - 1))]
DFlag == [a \in Addr |-> Read(IsValidatorKey(a)) = 1]
DStake == [a \in Addr |-> Read(StakedAmountKey(a))]
DIndex == [a \in Addr |-> Read(ValidatorIndexKey(a))]
DBalance == IF account = NoAccount THEN 0 ELSE account.Balance

Contract == INSTANCE StakingContract WITH
  Stake            <- DefaultStakedBalance,
  input            <- validators,
  requested        <- params,
  validatorSet     <- DArray,
  isValidator      <- DFlag,
  stakedAmountOf   <- DStake,
  validatorIndexOf <- DIndex,
  stakedTotal      <- Read(TotalStakeKey),
  minCount         <- Read(MinKey),
  maxCount         <- Read(MaxKey),
  balance          <- DBalance

\* The builder implements the abstract contract state machine.
ContractRefinement == Contract!Spec

(***************************************************************************)
(* The counts the account stores are the counts the caller asked for.      *)
(* spec.md 4.4: after the loop, write the min and max validator counts.    *)
(***************************************************************************)
StoredCountsMatch ==
  account # NoAccount =>
    /\ Read(MinKey) = params.MinValidatorCount
    /\ Read(MaxKey) = params.MaxValidatorCount
=============================================================================
