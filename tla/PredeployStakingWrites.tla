----------------------- MODULE PredeployStakingWrites -----------------------
(***************************************************************************)
(* Proof of the action property OnlyAggregatesRewritten: for validator     *)
(* lists without repeats, no step of PredeployStakingSC overwrites a key   *)
(* that already holds a value, except the array length and the total      *)
(* stake.  The argument reuses SnapshotInv: a key holding a value is a key *)
(* the builder wrote, and the keys one step writes are fresh.              *)
(***************************************************************************)
EXTENDS PredeployStakingProofs

USE KeyLayoutAssumption, BuilderAssumption

\* The step formula of OnlyAggregatesRewritten.
AggregatesOnlyStep ==
  \A k \in Word :
    storageMap[k] # Empty /\ storageMap'[k] # storageMap[k] =>
      k \in {LengthKey, TotalStakeKey}

\* A written mapping key belongs to an address the loop has visited.
LEMMA WrittenMappingKey ==
  ASSUME SnapshotInv, NEW a \in Addr, NEW s \in MappingSlots,
         Keccak256[<<a, s>>] \in WrittenKeys
  PROVE  \E j \in Written : validators[j + 1] = a
<1> DEFINE k == Keccak256[<<a, s>>]
<1>1. /\ validators \in Seq(Addr)
      /\ indx \in 0 .. Len(validators)
      /\ Len(validators) \in 0 .. MaxValidators
  BY InputType DEF SnapshotInv, TypeOK
<1>2. \A j \in Written : j \in 0 .. MaxValidators - 1 /\ validators[j + 1] \in Addr
  BY <1>1 DEF Written
<1>3. /\ addressToIsValidatorSlot \in MappingSlots
      /\ addressToStakedAmountSlot \in MappingSlots
      /\ addressToValidatorIndexSlot \in MappingSlots
  BY DEF MappingSlots
<1>4. k \in Word /\ k \in MappingKeys /\ k \notin ScalarKeys
  BY MappingKeyFacts
<1>5. k \notin {LengthKey, TotalStakeKey, MinKey, MaxKey}
  BY <1>4, ScalarKeyFacts
<1>6. \A j \in Written : k # ElemKey(j)
  BY <1>2, <1>4, ElemKeyFacts
<1>7. \A j \in Written :
        k \in {IsValidatorKey(validators[j + 1]), StakedAmountKey(validators[j + 1]),
               ValidatorIndexKey(validators[j + 1])} => validators[j + 1] = a
  BY <1>2, <1>3, MappingKeyInjective DEF IsValidatorKey, StakedAmountKey, ValidatorIndexKey
<1> QED
  BY <1>5, <1>6, <1>7 DEF WrittenKeys

(***************************************************************************)
(* The keys an iteration writes for a validator not met before, other than *)
(* the two aggregates, hold no value yet.                                  *)
(***************************************************************************)
LEMMA FreshIterationKeys ==
  ASSUME DistinctInputs, SnapshotInv, StakeValidator
  PROVE  LET v == validators[indx + 1] IN
           \A k \in {ElemKey(indx), IsValidatorKey(v), StakedAmountKey(v),
                     ValidatorIndexKey(v)} :
             k \in Word /\ storageMap[k] = Empty
<1> DEFINE v == validators[indx + 1]
<1>1. /\ validators \in Seq(Addr)
      /\ validators \in Inputs
      /\ indx \in 0 .. Len(validators) - 1
      /\ Len(validators) \in 0 .. MaxValidators
      /\ v \in Addr
      /\ indx \in 0 .. MaxValidators - 1
      /\ account = NoAccount
  BY InputType DEF SnapshotInv, TypeOK, StakeValidator
<1>2. \A j \in Written : j \in 0 .. MaxValidators - 1 /\ j # indx
  BY <1>1 DEF Written
<1>3. ElemKey(indx) \in Word /\ ElemKey(indx) \notin WrittenKeys
  <2>1. ElemKey(indx) \in Word /\ ElemKey(indx) \notin ScalarKeys
        /\ ElemKey(indx) \notin MappingKeys
    BY <1>1, ElemKeyFacts
  <2>2. \A j \in Written : ElemKey(indx) # ElemKey(j)
    BY <1>1, <1>2, ElemKeyInjective
  <2>3. \A j \in Written : /\ IsValidatorKey(validators[j + 1]) \in MappingKeys
                           /\ StakedAmountKey(validators[j + 1]) \in MappingKeys
                           /\ ValidatorIndexKey(validators[j + 1]) \in MappingKeys
    <3>1. \A j \in Written : validators[j + 1] \in Addr
      BY <1>1 DEF Written
    <3> QED
      BY <3>1, MappingKeyFacts DEF IsValidatorKey, StakedAmountKey, ValidatorIndexKey,
         MappingSlots
  <2> QED
    BY <1>1, <2>1, <2>2, <2>3, ScalarKeyFacts DEF WrittenKeys
<1>4. \A j \in Written : validators[j + 1] # v
  BY <1>1 DEF Written, DistinctInputs
<1>5. ASSUME NEW s \in MappingSlots
      PROVE  Keccak256[<<v, s>>] \in Word /\ Keccak256[<<v, s>>] \notin WrittenKeys
  <2>1. Keccak256[<<v, s>>] \in Word
    BY <1>1, MappingKeyFacts
  <2>2. Keccak256[<<v, s>>] \notin WrittenKeys
    BY <1>1, <1>4, WrittenMappingKey
  <2> QED
    BY <2>1, <2>2
<1>6. /\ addressToIsValidatorSlot \in MappingSlots
      /\ addressToStakedAmountSlot \in MappingSlots
      /\ addressToValidatorIndexSlot \in MappingSlots
  BY DEF MappingSlots
<1>7. \A k \in Word \ WrittenKeys : storageMap[k] = Empty
  BY DEF SnapshotInv, PrefixSnapshot
<1> QED
  BY <1>3, <1>5, <1>6, <1>7 DEF IsValidatorKey, StakedAmountKey, ValidatorIndexKey

\* Until the return, the count slots hold no value.
LEMMA CountSlotsFresh ==
  ASSUME SnapshotInv, account = NoAccount
  PROVE  storageMap[MinKey] = Empty /\ storageMap[MaxKey] = Empty
<1>1. /\ validators \in Seq(Addr)
      /\ indx \in 0 .. Len(validators)
      /\ Len(validators) \in 0 .. MaxValidators
  BY InputType DEF SnapshotInv, TypeOK
<1>2. \A j \in Written : j \in 0 .. MaxValidators - 1 /\ validators[j + 1] \in Addr
  BY <1>1 DEF Written
<1>3. \A j \in Written : /\ ElemKey(j) \notin ScalarKeys
                         /\ IsValidatorKey(validators[j + 1]) \notin ScalarKeys
                         /\ StakedAmountKey(validators[j + 1]) \notin ScalarKeys
                         /\ ValidatorIndexKey(validators[j + 1]) \notin ScalarKeys
  BY <1>2, ElemKeyFacts, MappingKeyFacts
     DEF IsValidatorKey, StakedAmountKey, ValidatorIndexKey, MappingSlots
<1>4. MinKey \notin WrittenKeys /\ MaxKey \notin WrittenKeys
  BY <1>3, ScalarKeyFacts DEF WrittenKeys
<1>5. MinKey \in Word /\ MaxKey \in Word
  BY ScalarKeyFacts
<1> QED
  BY <1>4, <1>5 DEF SnapshotInv, PrefixSnapshot

\* Every step of the builder, from a state of SnapshotInv and for lists
\* without repeats, rewrites no held key but the two aggregates.
LEMMA StepAggregatesOnly ==
  ASSUME DistinctInputs, SnapshotInv, [Next]_vars
  PROVE  AggregatesOnlyStep
<1> SUFFICES ASSUME NEW k \in Word, storageMap[k] # Empty, storageMap'[k] # storageMap[k]
             PROVE  k \in {LengthKey, TotalStakeKey}
  BY DEF AggregatesOnlyStep
<1>1. CASE StakeValidator
  <2> DEFINE v == validators[indx + 1]
  <2>1. k \in {LengthKey, TotalStakeKey, ElemKey(indx), IsValidatorKey(v),
               StakedAmountKey(v), ValidatorIndexKey(v)}
    BY <1>1, StakeValidatorStorage DEF SnapshotInv
  <2>2. k \notin {ElemKey(indx), IsValidatorKey(v), StakedAmountKey(v), ValidatorIndexKey(v)}
    BY <1>1, FreshIterationKeys
  <2> QED
    BY <2>1, <2>2
<1>2. CASE Finish
  <2>1. k \in {MinKey, MaxKey}
    BY <1>2, FinishStorage DEF SnapshotInv
  <2>2. storageMap[MinKey] = Empty /\ storageMap[MaxKey] = Empty
    BY <1>2, CountSlotsFresh DEF Finish
  <2> QED
    BY <2>1, <2>2
<1>3. CASE UNCHANGED vars
  BY <1>3 DEF vars
<1> QED
  BY <1>1, <1>2, <1>3 DEF Next

(***************************************************************************)
(* For every family of validator lists without a repeated address, every   *)
(* deposit and word width, and any hash collision-free on the keys, no     *)
(* loop iteration of PredeployStakingSC and not its return overwrites a    *)
(* storage key that already holds a value, except the array length and    *)
(* the total stake that every iteration rewrites.                          *)
(***************************************************************************)
THEOREM OnlyAggregatesRewrittenHolds ==
  ASSUME DistinctInputs
  PROVE  Spec => OnlyAggregatesRewritten
<1>1. SnapshotInv /\ [Next]_vars => [AggregatesOnlyStep]_vars
  BY StepAggregatesOnly
<1>2. Spec => []SnapshotInv
  BY SnapshotInvariant
<1> QED
  BY <1>1, <1>2, PTL DEF Spec, OnlyAggregatesRewritten, AggregatesOnlyStep
=============================================================================
