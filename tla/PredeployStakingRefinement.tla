--------------------- MODULE PredeployStakingRefinement ---------------------
(***************************************************************************)
(* The builder implements the abstract staking contract: decoded through  *)
(* the Solidity layout, every loop iteration of PredeployStakingSC is a   *)
(* Register step of StakingContract, the return is its Configure step,   *)
(* and the initial storage decodes to the empty contract state.           *)
(***************************************************************************)
EXTENDS PredeployStakingProofs, SequenceTheorems

USE KeyLayoutAssumption, BuilderAssumption

(***************************************************************************)
(* The decoding is exact only while the numbers fit in a word and the      *)
(* counts keep their sign through int64: the total of MaxValidators        *)
(* deposits is below 2^WordBits (2^256 in the code, against 10 ETH each), *)
(* and every count is below 2^(CountBits-1) (the genesis command's counts *)
(* are at most MaxSafeJSInt).  counts_sign_boundary shows the second is   *)
(* needed.                                                                 *)
(***************************************************************************)
SafeConstants ==
  /\ MaxValidators * DefaultStakedBalance < WordSize
  /\ DefaultStakedBalance < WordSize
  /\ \A c \in Counts : c < 2^(CountBits - 1) /\ c < WordSize

\* What a storage word reads back as: a stored value, or zero.
ReadValue == StorageValue \cup {0}

\* Reading a key of a well-typed storage map yields a ReadValue.
LEMMA ReadType ==
  ASSUME NEW m \in [Word -> StorageValue \cup {Empty}], NEW k \in Word
  PROVE  (IF m[k] = Empty THEN 0 ELSE m[k]) \in ReadValue
BY DEF ReadValue

\* The six keys one iteration writes.
SixKeys(v, i) == {LengthKey, TotalStakeKey, ElemKey(i), IsValidatorKey(v),
                  StakedAmountKey(v), ValidatorIndexKey(v)}

\* Which keys an iteration for validator v at position i leaves alone:
\* earlier elements, the entries of other addresses, and the counts.
LEMMA UntouchedKeys ==
  ASSUME NEW v \in Addr, NEW i \in 0 .. MaxValidators - 1
  PROVE  /\ \A j \in 0 .. i - 1 : ElemKey(j) \in Word \ SixKeys(v, i)
         /\ \A a \in Addr \ {v} :
               /\ IsValidatorKey(a) \in Word \ SixKeys(v, i)
               /\ StakedAmountKey(a) \in Word \ SixKeys(v, i)
               /\ ValidatorIndexKey(a) \in Word \ SixKeys(v, i)
         /\ MinKey \in Word \ SixKeys(v, i)
         /\ MaxKey \in Word \ SixKeys(v, i)
<1>1. /\ addressToIsValidatorSlot \in MappingSlots
      /\ addressToStakedAmountSlot \in MappingSlots
      /\ addressToValidatorIndexSlot \in MappingSlots
  BY DEF MappingSlots
<1>2. /\ ElemKey(i) \in Word /\ ElemKey(i) \notin ScalarKeys /\ ElemKey(i) \notin MappingKeys
  BY ElemKeyFacts
<1>3. /\ IsValidatorKey(v) \in MappingKeys /\ IsValidatorKey(v) \notin ScalarKeys
      /\ StakedAmountKey(v) \in MappingKeys /\ StakedAmountKey(v) \notin ScalarKeys
      /\ ValidatorIndexKey(v) \in MappingKeys /\ ValidatorIndexKey(v) \notin ScalarKeys
  BY <1>1, MappingKeyFacts DEF IsValidatorKey, StakedAmountKey, ValidatorIndexKey
<1>4. ASSUME NEW j \in 0 .. i - 1 PROVE ElemKey(j) \in Word \ SixKeys(v, i)
  <2>1. j \in 0 .. MaxValidators - 1 /\ j # i
    OBVIOUS
  <2>2. ElemKey(j) \in Word /\ ElemKey(j) \notin ScalarKeys /\ ElemKey(j) \notin MappingKeys
    BY <2>1, ElemKeyFacts
  <2>3. ElemKey(j) # ElemKey(i)
    BY <2>1, ElemKeyInjective
  <2> QED
    BY <1>3, <2>2, <2>3, ScalarKeyFacts DEF SixKeys
<1>5. ASSUME NEW a \in Addr \ {v}, NEW s \in MappingSlots
      PROVE  Keccak256[<<a, s>>] \in Word \ SixKeys(v, i)
  <2>1. Keccak256[<<a, s>>] \in Word /\ Keccak256[<<a, s>>] \in MappingKeys
        /\ Keccak256[<<a, s>>] \notin ScalarKeys
    BY MappingKeyFacts
  <2>2. \A t \in MappingSlots : Keccak256[<<a, s>>] # Keccak256[<<v, t>>]
    BY MappingKeyInjective
  <2> QED
    BY <1>1, <1>2, <2>1, <2>2, ScalarKeyFacts
       DEF SixKeys, IsValidatorKey, StakedAmountKey, ValidatorIndexKey
<1>6. MinKey \in Word \ SixKeys(v, i) /\ MaxKey \in Word \ SixKeys(v, i)
  BY <1>2, <1>3, ScalarKeyFacts DEF SixKeys
<1> QED
  BY <1>1, <1>4, <1>5, <1>6 DEF IsValidatorKey, StakedAmountKey, ValidatorIndexKey
\* The mapping keys of every address are words.
LEMMA AddrKeysWords ==
  ASSUME NEW a \in Addr
  PROVE  /\ IsValidatorKey(a) \in Word
         /\ StakedAmountKey(a) \in Word
         /\ ValidatorIndexKey(a) \in Word
<1>1. /\ addressToIsValidatorSlot \in MappingSlots
      /\ addressToStakedAmountSlot \in MappingSlots
      /\ addressToValidatorIndexSlot \in MappingSlots
  BY DEF MappingSlots
<1> QED
  BY <1>1, MappingKeyFacts DEF IsValidatorKey, StakedAmountKey, ValidatorIndexKey

\* The empty storage map decodes to the empty contract: Init is mapped to
\* the abstract Init.
LEMMA InitRefines == Init => Contract!Init
<1> SUFFICES ASSUME Init PROVE Contract!Init
  OBVIOUS
<1>1. \A k \in Word : Read(k) = 0
  BY DEF Init, Read
<1>2. /\ Read(LengthKey) = 0 /\ Read(TotalStakeKey) = 0
      /\ Read(MinKey) = 0 /\ Read(MaxKey) = 0
  BY <1>1, ScalarKeyFacts
<1>3. DArray = <<>>
  BY <1>2 DEF DArray
<1>4. /\ DFlag = [a \in Addr |-> FALSE]
      /\ DStake = [a \in Addr |-> 0]
      /\ DIndex = [a \in Addr |-> 0]
  <2>1. ASSUME NEW a \in Addr
        PROVE  /\ Read(IsValidatorKey(a)) = 0
               /\ Read(StakedAmountKey(a)) = 0
               /\ Read(ValidatorIndexKey(a)) = 0
               /\ Read(IsValidatorKey(a)) # 1
    <3>1. /\ IsValidatorKey(a) \in Word
          /\ StakedAmountKey(a) \in Word
          /\ ValidatorIndexKey(a) \in Word
      BY AddrKeysWords
    <3> QED
      BY <3>1, <1>1
  <2>2. \A a \in Addr : Read(IsValidatorKey(a)) # 1
    BY <2>1, Zenon
  <2>3. DFlag = [a \in Addr |-> FALSE]
    BY <2>2, Zenon DEF DFlag
  <2>4. DStake = [a \in Addr |-> 0] /\ DIndex = [a \in Addr |-> 0]
    BY <2>1 DEF DStake, DIndex
  <2> QED
    BY <2>3, <2>4
<1>5. DBalance = 0
  BY DEF Init, DBalance
<1> QED
  BY <1>2, <1>3, <1>4, <1>5 DEF Init, Contract!Init, Params

\* Under SafeConstants the values one iteration writes are words, so they
\* read back unreduced.
LEMMA IterationWords ==
  ASSUME SafeConstants, NEW n \in 0 .. MaxValidators
  PROVE  /\ n \in Word
         /\ n * DefaultStakedBalance \in Word
         /\ DefaultStakedBalance \in Word
         /\ 1 \in Word
<1>1. n \in Word
  BY SmallIndexWord
<1>2. n * DefaultStakedBalance <= MaxValidators * DefaultStakedBalance
  BY DEF SafeConstants
<1>3. n * DefaultStakedBalance \in Word
  BY <1>2 DEF SafeConstants, Word
<1>4. DefaultStakedBalance \in Word /\ 1 \in Word
  BY DEF SafeConstants, Word, maxNumValidatorSlot
<1> QED
  BY <1>1, <1>3, <1>4

\* One loop iteration is mapped to Register of the next validator.
LEMMA StakeValidatorRefines ==
  ASSUME SafeConstants, SnapshotInv, StakeValidator
  PROVE  Contract!Register
<1> DEFINE v == validators[indx + 1]
           R1(k) == IF storageMap'[k] = Empty THEN 0 ELSE storageMap'[k]
<1>1. /\ validators \in Seq(Addr)
      /\ indx \in 0 .. Len(validators) - 1
      /\ Len(validators) <= MaxValidators
      /\ v \in Addr
      /\ indx \in 0 .. MaxValidators - 1
      /\ indx + 1 \in 0 .. MaxValidators
      /\ stakedAmount = indx * DefaultStakedBalance
  BY InputType DEF SnapshotInv, TypeOK, StakeValidator
<1>2. /\ storageMap'[LengthKey] = BytesToHash(indx + 1)
      /\ storageMap'[TotalStakeKey] = BytesToHash(stakedAmount + DefaultStakedBalance)
      /\ storageMap'[ElemKey(indx)] = v
      /\ storageMap'[IsValidatorKey(v)] = BytesToHash(1)
      /\ storageMap'[StakedAmountKey(v)] = BytesToHash(DefaultStakedBalance)
      /\ storageMap'[ValidatorIndexKey(v)] = BytesToHash(indx)
      /\ \A x \in Word \ SixKeys(v, indx) : storageMap'[x] = storageMap[x]
  BY StakeValidatorStorage DEF SnapshotInv, SixKeys
<1>3. /\ Read(LengthKey) = indx
      /\ Read(TotalStakeKey) = BytesToHash(indx * DefaultStakedBalance)
  BY AggregateReads
<1>4. /\ indx \in Word /\ indx + 1 \in Word
      /\ indx * DefaultStakedBalance \in Word
      /\ (indx + 1) * DefaultStakedBalance \in Word
      /\ DefaultStakedBalance \in Word /\ 1 \in Word
  BY <1>1, IterationWords
<1>5. stakedAmount + DefaultStakedBalance = (indx + 1) * DefaultStakedBalance
  BY <1>1
<1>6. /\ R1(LengthKey) = indx + 1
      /\ R1(TotalStakeKey) = Read(TotalStakeKey) + DefaultStakedBalance
      /\ R1(ElemKey(indx)) = v
      /\ R1(IsValidatorKey(v)) = 1
      /\ R1(StakedAmountKey(v)) = DefaultStakedBalance
      /\ R1(ValidatorIndexKey(v)) = indx
  <2>1. Empty \notin Word /\ v # Empty
    BY <1>1
  <2>2. /\ BytesToHash(indx + 1) = indx + 1
        /\ BytesToHash((indx + 1) * DefaultStakedBalance) = (indx + 1) * DefaultStakedBalance
        /\ BytesToHash(indx * DefaultStakedBalance) = indx * DefaultStakedBalance
        /\ BytesToHash(1) = 1
        /\ BytesToHash(DefaultStakedBalance) = DefaultStakedBalance
        /\ BytesToHash(indx) = indx
    BY <1>4, BytesToHashWord
  <2>3. R1(LengthKey) = indx + 1
    BY <1>2, <1>4, <2>1, <2>2 DEF Read, R1
  <2>4. R1(TotalStakeKey) = (indx + 1) * DefaultStakedBalance
    BY <1>2, <1>4, <1>5, <2>1, <2>2 DEF Read, R1
  <2>5. (indx + 1) * DefaultStakedBalance = indx * DefaultStakedBalance + DefaultStakedBalance
    BY <1>1
  <2>6. R1(TotalStakeKey) = Read(TotalStakeKey) + DefaultStakedBalance
    BY <1>3, <2>2, <2>4, <2>5
  <2>7. R1(ElemKey(indx)) = v
    BY <1>2, <2>1 DEF Read, R1
  <2>8. R1(IsValidatorKey(v)) = 1
    BY <1>2, <1>4, <2>1, <2>2 DEF Read, R1
  <2>9. R1(StakedAmountKey(v)) = DefaultStakedBalance
    BY <1>2, <1>4, <2>1, <2>2 DEF Read, R1
  <2>10. R1(ValidatorIndexKey(v)) = indx
    BY <1>2, <1>4, <2>1, <2>2 DEF Read, R1
  <2> QED
    BY <2>3, <2>6, <2>7, <2>8, <2>9, <2>10
<1>7. ASSUME NEW k \in Word \ SixKeys(v, indx) PROVE R1(k) = Read(k)
  BY <1>2 DEF Read, R1
<1>8. DArray' = Append(DArray, v)
  <2>1. \A i \in 1 .. indx : R1(ElemKey(i - 1)) = Read(ElemKey(i - 1))
    <3> SUFFICES ASSUME NEW i \in 1 .. indx PROVE R1(ElemKey(i - 1)) = Read(ElemKey(i - 1))
      OBVIOUS
    <3>1. i - 1 \in 0 .. indx - 1
      BY <1>1
    <3>2. ElemKey(i - 1) \in Word \ SixKeys(v, indx)
      BY <1>1, <3>1, UntouchedKeys
    <3> QED
      BY <3>2, <1>7
  <2>2. DArray' = [i \in 1 .. indx + 1 |-> R1(ElemKey(i - 1))]
    BY <1>6 DEF DArray, Read, R1
  <2>3. DArray = [i \in 1 .. indx |-> Read(ElemKey(i - 1))]
    BY <1>3 DEF DArray
  <2>4. ASSUME NEW i \in 1 .. indx + 1
        PROVE  /\ ElemKey(i - 1) \in Word
               /\ Read(ElemKey(i - 1)) \in ReadValue
               /\ R1(ElemKey(i - 1)) \in ReadValue
    <3>1. i - 1 \in 0 .. MaxValidators - 1
      BY <1>1
    <3>2. ElemKey(i - 1) \in Word
      BY <3>1, ElemKeyFacts
    <3>3. storageMap' \in [Word -> StorageValue \cup {Empty}]
      BY StakeValidatorTypeOK DEF SnapshotInv, TypeOK
    <3>4. storageMap \in [Word -> StorageValue \cup {Empty}]
      BY DEF SnapshotInv, TypeOK
    <3>5. Read(ElemKey(i - 1)) \in ReadValue
      <4>1. (IF storageMap[ElemKey(i - 1)] = Empty THEN 0 ELSE storageMap[ElemKey(i - 1)])
              \in ReadValue
        BY <3>2, <3>4, ReadType
      <4> QED
        BY <4>1 DEF Read, R1
    <3>6. R1(ElemKey(i - 1)) \in ReadValue
      <4>1. (IF storageMap'[ElemKey(i - 1)] = Empty THEN 0 ELSE storageMap'[ElemKey(i - 1)])
              \in ReadValue
        BY <3>2, <3>3, ReadType
      <4> QED
        BY <4>1 DEF R1
    <3> QED
      BY <3>2, <3>5, <3>6
  <2>5. DArray \in Seq(ReadValue) /\ Len(DArray) = indx
    BY <1>1, <2>3, <2>4
  <2>6. DArray' \in Seq(ReadValue) /\ Len(DArray') = indx + 1
    BY <1>1, <2>2, <2>4
  <2>7. v \in ReadValue
    BY <1>1 DEF ReadValue, StorageValue
  <2>8. /\ Append(DArray, v) \in Seq(ReadValue)
        /\ Len(Append(DArray, v)) = indx + 1
        /\ \A i \in 1 .. indx : Append(DArray, v)[i] = DArray[i]
        /\ Append(DArray, v)[indx + 1] = v
    BY <2>5, <2>7, AppendProperties
  <2>9. \A i \in 1 .. indx + 1 : DArray'[i] = Append(DArray, v)[i]
    <3>1. ASSUME NEW i \in 1 .. indx PROVE DArray'[i] = Append(DArray, v)[i]
      <4>1. DArray'[i] = R1(ElemKey(i - 1)) /\ DArray[i] = Read(ElemKey(i - 1))
        BY <1>1, <2>2, <2>3
      <4> QED
        BY <2>1, <2>8, <4>1
    <3>2. DArray'[indx + 1] = Append(DArray, v)[indx + 1]
      <4>1. DArray'[indx + 1] = R1(ElemKey(indx))
        BY <1>1, <2>2
      <4> QED
        BY <1>6, <2>8, <4>1
    <3>3. \A i \in 1 .. indx + 1 : i \in 1 .. indx \/ i = indx + 1
      BY <1>1
    <3> QED
      BY <3>1, <3>2, <3>3
  <2> QED
    BY <2>5, <2>6, <2>8, <2>9, SeqEqual
<1>9. ASSUME NEW a \in Addr \ {v}
      PROVE  /\ R1(IsValidatorKey(a)) = Read(IsValidatorKey(a))
             /\ R1(StakedAmountKey(a)) = Read(StakedAmountKey(a))
             /\ R1(ValidatorIndexKey(a)) = Read(ValidatorIndexKey(a))
  <2>1. /\ IsValidatorKey(a) \in Word \ SixKeys(v, indx)
        /\ StakedAmountKey(a) \in Word \ SixKeys(v, indx)
        /\ ValidatorIndexKey(a) \in Word \ SixKeys(v, indx)
    BY <1>1, UntouchedKeys
  <2> QED
    BY <2>1, <1>7
<1>10. /\ DFlag' = [DFlag EXCEPT ![v] = TRUE]
       /\ DStake' = [DStake EXCEPT ![v] = DefaultStakedBalance]
       /\ DIndex' = [DIndex EXCEPT ![v] = indx]
  <2>1. /\ IsValidatorKey(v) \in Word
        /\ StakedAmountKey(v) \in Word
        /\ ValidatorIndexKey(v) \in Word
    BY <1>1, AddrKeysWords
  <2>2. DFlag' = [DFlag EXCEPT ![v] = TRUE]
    <3>1. \A a \in Addr : DFlag'[a] = IF a = v THEN TRUE ELSE DFlag[a]
      BY <1>6, <1>9 DEF DFlag, Read, R1
    <3> QED
      BY <1>1, <3>1 DEF DFlag, Read, R1
  <2>3. DStake' = [DStake EXCEPT ![v] = DefaultStakedBalance]
    <3>1. \A a \in Addr : DStake'[a] = IF a = v THEN DefaultStakedBalance ELSE DStake[a]
      BY <1>6, <1>9 DEF DStake, Read, R1
    <3> QED
      BY <1>1, <3>1 DEF DStake, Read, R1
  <2>4. DIndex' = [DIndex EXCEPT ![v] = indx]
    <3>1. \A a \in Addr : DIndex'[a] = IF a = v THEN indx ELSE DIndex[a]
      BY <1>6, <1>9 DEF DIndex, Read, R1
    <3> QED
      BY <1>1, <3>1 DEF DIndex, Read, R1
  <2> QED
    BY <2>2, <2>3, <2>4
<1>11. /\ R1(MinKey) = Read(MinKey) /\ R1(MaxKey) = Read(MaxKey)
  BY <1>1, <1>7, UntouchedKeys
<1>12. /\ Len(DArray) = indx
       /\ DBalance' = DBalance
  BY <1>1, <1>3 DEF DArray, DBalance, StakeValidator
<1>13. /\ Read(TotalStakeKey)' = R1(TotalStakeKey)
       /\ Read(MinKey)' = R1(MinKey) /\ Read(MaxKey)' = R1(MaxKey)
  BY DEF Read, R1
<1>14. UNCHANGED <<validators, params>>
  BY DEF StakeValidator
<1> QED
  BY <1>1, <1>6, <1>8, <1>10, <1>11, <1>12, <1>13, <1>14 DEF Contract!Register

\* A count below the int64 sign boundary and below 2^WordBits survives
\* BytesToHash(big.NewInt(int64(c)).Bytes()) unchanged.
LEMMA CountRoundTrip ==
  ASSUME SafeConstants, NEW c \in Counts
  PROVE  /\ BytesToHash(BigBytes(ToInt64(c))) = c
         /\ c \in Word
<1>1. c \in Nat /\ c < 2^(CountBits - 1) /\ c < WordSize
  BY DEF SafeConstants
<1>2. BigBytes(ToInt64(c)) = c
  BY <1>1 DEF ToInt64, BigBytes
<1>3. c \in Word
  BY <1>1 DEF Word
<1> QED
  BY <1>2, <1>3, BytesToHashWord

\* The return is mapped to Configure: the counts land at their slots and
\* the balance is the stored total.
LEMMA FinishRefines ==
  ASSUME SafeConstants, SnapshotInv, Finish
  PROVE  Contract!Configure
<1>1. /\ validators \in Seq(Addr)
      /\ indx = Len(validators)
      /\ indx \in 0 .. MaxValidators
      /\ stakedAmount = indx * DefaultStakedBalance
      /\ params \in Params
      /\ storageMap \in [Word -> StorageValue \cup {Empty}]
  BY InputType DEF SnapshotInv, TypeOK, Finish
<1>2. /\ \A x \in Word \ {MinKey, MaxKey} : storageMap'[x] = storageMap[x]
      /\ account' = [Balance |-> stakedAmount, Storage |-> storageMap']
  BY FinishStorage DEF SnapshotInv, Finish
<1>3. /\ storageMap'[MinKey] = BytesToHash(BigBytes(ToInt64(params.MinValidatorCount)))
      /\ storageMap'[MaxKey] = BytesToHash(BigBytes(ToInt64(params.MaxValidatorCount)))
  <2>1. /\ BytesToHash(minNumValidatorSlot) = MinKey
        /\ BytesToHash(maxNumValidatorSlot) = MaxKey
        /\ MinKey \in Word /\ MaxKey \in Word /\ MinKey # MaxKey
    <3>1. minNumValidatorSlot \in Word /\ maxNumValidatorSlot \in Word
      BY ScalarKeyFacts DEF MinKey, MaxKey
    <3> QED
      BY <3>1, ScalarKeyFacts, BytesToHashWord DEF MinKey, MaxKey
  <2> QED
    BY <1>1, <2>1 DEF Finish, Put
<1>4. /\ Read(MinKey)' = params.MinValidatorCount
      /\ Read(MaxKey)' = params.MaxValidatorCount
  <2>1. /\ params.MinValidatorCount \in Counts /\ params.MaxValidatorCount \in Counts
    BY <1>1 DEF Params
  <2>2. /\ BytesToHash(BigBytes(ToInt64(params.MinValidatorCount))) = params.MinValidatorCount
        /\ BytesToHash(BigBytes(ToInt64(params.MaxValidatorCount))) = params.MaxValidatorCount
        /\ params.MinValidatorCount \in Word /\ params.MaxValidatorCount \in Word
    BY <2>1, CountRoundTrip
  <2> QED
    BY <1>3, <2>2 DEF Read
<1>5. DBalance' = Read(TotalStakeKey)
  <2>1. Read(TotalStakeKey) = BytesToHash(indx * DefaultStakedBalance)
    BY AggregateReads
  <2>2. indx * DefaultStakedBalance \in Word
    BY <1>1, IterationWords
  <2>3. account' # NoAccount
    BY FinishStorage DEF SnapshotInv
  <2> QED
    BY <1>1, <1>2, <2>1, <2>2, <2>3, BytesToHashWord DEF DBalance
<1>6. ASSUME NEW k \in Word \ {MinKey, MaxKey} PROVE Read(k)' = Read(k)
  BY <1>2 DEF Read
<1>7. /\ Read(LengthKey)' = Read(LengthKey)
      /\ Read(TotalStakeKey)' = Read(TotalStakeKey)
  BY <1>6, ScalarKeyFacts
<1>8. DArray' = DArray
  <2>1. Read(LengthKey) = indx
    BY AggregateReads
  <2>2. ASSUME NEW i \in 1 .. indx PROVE Read(ElemKey(i - 1))' = Read(ElemKey(i - 1))
    <3>1. i - 1 \in 0 .. MaxValidators - 1
      BY <1>1
    <3>2. ElemKey(i - 1) \in Word /\ ElemKey(i - 1) \notin ScalarKeys
      BY <3>1, ElemKeyFacts
    <3> QED
      BY <3>2, <1>6, ScalarKeyFacts
  <2> QED
    BY <1>7, <2>1, <2>2 DEF DArray
<1>9. /\ DFlag' = DFlag /\ DStake' = DStake /\ DIndex' = DIndex
  <2>1. ASSUME NEW a \in Addr
        PROVE  /\ Read(IsValidatorKey(a))' = Read(IsValidatorKey(a))
               /\ Read(StakedAmountKey(a))' = Read(StakedAmountKey(a))
               /\ Read(ValidatorIndexKey(a))' = Read(ValidatorIndexKey(a))
    <3>1. /\ addressToIsValidatorSlot \in MappingSlots
          /\ addressToStakedAmountSlot \in MappingSlots
          /\ addressToValidatorIndexSlot \in MappingSlots
      BY DEF MappingSlots
    <3>2. /\ IsValidatorKey(a) \in Word /\ IsValidatorKey(a) \notin ScalarKeys
          /\ StakedAmountKey(a) \in Word /\ StakedAmountKey(a) \notin ScalarKeys
          /\ ValidatorIndexKey(a) \in Word /\ ValidatorIndexKey(a) \notin ScalarKeys
      BY <3>1, MappingKeyFacts DEF IsValidatorKey, StakedAmountKey, ValidatorIndexKey
    <3> QED
      BY <3>2, <1>6, ScalarKeyFacts
  <2> QED
    BY <2>1 DEF DFlag, DStake, DIndex
<1>10. Len(DArray) = Len(validators)
  <2>1. Read(LengthKey) = indx
    BY AggregateReads
  <2> QED
    BY <1>1, <2>1 DEF DArray
<1> QED
  BY <1>4, <1>5, <1>7, <1>8, <1>9, <1>10 DEF Contract!Configure, Finish

\* A stuttering step of the builder is a stuttering step of the contract.
LEMMA StutterRefines ==
  ASSUME UNCHANGED vars
  PROVE  UNCHANGED Contract!vars
BY DEF vars, Contract!vars, DArray, DFlag, DStake, DIndex, DBalance, Read

\* Every step of the builder, from a state of SnapshotInv, is a step of the
\* contract or leaves the decoded state alone.
LEMMA NextRefines ==
  ASSUME SafeConstants, SnapshotInv, [Next]_vars
  PROVE  [Contract!Next]_(Contract!vars)
<1>1. CASE StakeValidator
  BY <1>1, StakeValidatorRefines DEF Contract!Next
<1>2. CASE Finish
  BY <1>2, FinishRefines DEF Contract!Next
<1>3. CASE UNCHANGED vars
  BY <1>3, StutterRefines
<1> QED
  BY <1>1, <1>2, <1>3 DEF Next

(***************************************************************************)
(* PredeployStakingSC implements the abstract staking contract: for every  *)
(* validator list (duplicates included), deposit, word width and counts    *)
(* that satisfy SafeConstants, and any hash collision-free on the keys, the *)
(* storage the loop and the return write, decoded through the Solidity     *)
(* layout, registers the validators in input order with one deposit each  *)
(* and then stores the requested counts and a balance equal to the total. *)
(***************************************************************************)
THEOREM ContractRefinementHolds ==
  ASSUME SafeConstants
  PROVE  Spec => ContractRefinement
<1>1. Init => Contract!Init
  BY InitRefines
<1>2. SnapshotInv /\ [Next]_vars => [Contract!Next]_(Contract!vars)
  BY NextRefines
<1>3. Spec => []SnapshotInv
  BY SnapshotInvariant
<1> QED
  BY <1>1, <1>2, <1>3, PTL DEF Spec, ContractRefinement, Contract!Spec
-----------------------------------------------------------------------------
(***************************************************************************)
(* The counts as the return stored them: once the account exists, each     *)
(* count slot holds the count converted by BytesToHash(big.NewInt(int64(c)) *)
(* .Bytes()).  No step after the return touches the storage, so this is    *)
(* inductive on its own, for every count.                                  *)
(***************************************************************************)
CountsInv ==
  account # NoAccount =>
    /\ storageMap[MinKey] = BytesToHash(BigBytes(ToInt64(params.MinValidatorCount)))
    /\ storageMap[MaxKey] = BytesToHash(BigBytes(ToInt64(params.MaxValidatorCount)))

\* Every step of a well-typed state keeps CountsInv: the loop runs only before the return, the
\* return writes the two slots, and nothing runs after it.
LEMMA CountsInvStep ==
  ASSUME TypeOK, CountsInv, [Next]_vars
  PROVE  CountsInv'
<1>1. CASE StakeValidator
  BY <1>1 DEF StakeValidator, CountsInv
<1>2. CASE Finish
  <2>1. /\ BytesToHash(minNumValidatorSlot) = MinKey
        /\ BytesToHash(maxNumValidatorSlot) = MaxKey
        /\ MinKey \in Word /\ MaxKey \in Word /\ MinKey # MaxKey
    <3>1. minNumValidatorSlot \in Word /\ maxNumValidatorSlot \in Word
      BY ScalarKeyFacts DEF MinKey, MaxKey
    <3> QED
      BY <3>1, ScalarKeyFacts, BytesToHashWord DEF MinKey, MaxKey
  <2> QED
    BY <1>2, <2>1 DEF Finish, Put, CountsInv, TypeOK
<1>3. CASE UNCHANGED vars
  BY <1>3 DEF vars, CountsInv
<1> QED
  BY <1>1, <1>2, <1>3 DEF Next

\* CountsInv holds in every reachable state of the builder.
LEMMA CountsInvariant == Spec => []CountsInv
<1>1. Init => CountsInv
  BY DEF Init, CountsInv
<1>2. TypeOK /\ CountsInv /\ [Next]_vars => CountsInv'
  BY CountsInvStep
<1> QED
  BY <1>1, <1>2, TypeCorrect, PTL DEF Spec

(***************************************************************************)
(* For every count below the int64 sign boundary and below 2^WordBits,     *)
(* the account PredeployStakingSC returns stores exactly the minimum and   *)
(* maximum validator counts the caller passed in PredeployParams; the run  *)
(* counts_sign_boundary shows a count past the boundary is stored as its   *)
(* magnitude after the sign flip.                                          *)
(***************************************************************************)
THEOREM StoredCountsMatchHolds ==
  ASSUME SafeConstants
  PROVE  Spec => []StoredCountsMatch
<1>1. TypeOK /\ CountsInv => StoredCountsMatch
  <2> SUFFICES ASSUME TypeOK, CountsInv, account # NoAccount
               PROVE  /\ Read(MinKey) = params.MinValidatorCount
                      /\ Read(MaxKey) = params.MaxValidatorCount
    BY DEF StoredCountsMatch
  <2>1. params.MinValidatorCount \in Counts /\ params.MaxValidatorCount \in Counts
    BY DEF TypeOK, Params
  <2>2. /\ BytesToHash(BigBytes(ToInt64(params.MinValidatorCount))) = params.MinValidatorCount
        /\ BytesToHash(BigBytes(ToInt64(params.MaxValidatorCount))) = params.MaxValidatorCount
        /\ params.MinValidatorCount \in Word /\ params.MaxValidatorCount \in Word
    BY <2>1, CountRoundTrip
  <2> QED
    BY <2>2 DEF CountsInv, Read
<1>2. Spec => []TypeOK
  BY TypeCorrect
<1> QED
  BY <1>1, <1>2, CountsInvariant, PTL
=============================================================================
