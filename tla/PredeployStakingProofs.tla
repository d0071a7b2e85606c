---------------------- MODULE PredeployStakingProofs ----------------------
(***************************************************************************)
(* Proofs about PredeployStaking for every value of the constants that    *)
(* satisfies KeyLayoutAssumption and BuilderAssumption.                    *)
(***************************************************************************)
EXTENDS PredeployStaking, TLAPS

USE KeyLayoutAssumption, BuilderAssumption

(***************************************************************************)
(* Lemmas on the helpers the builder is made of.                           *)
(***************************************************************************)

\* BytesToHash always yields a storage word.
LEMMA BytesToHashType ==
  ASSUME NEW n \in Int
  PROVE  BytesToHash(n) \in Word
BY DEF BytesToHash, Word, maxNumValidatorSlot

\* A word is its own BytesToHash.
LEMMA BytesToHashWord ==
  ASSUME NEW n \in Word
  PROVE  BytesToHash(n) = n
BY DEF BytesToHash, Word, maxNumValidatorSlot

\* A write to the storage map keeps it a map from words to values of T.
LEMMA PutType ==
  ASSUME NEW T, NEW m \in [Word -> T], NEW k, NEW v \in T
  PROVE  Put(m, k, v) \in [Word -> T]
BY DEF Put

\* Every input is a list of addresses.
LEMMA InputType ==
  ASSUME NEW s \in Inputs
  PROVE  s \in Seq(Addr) /\ Len(s) \in 0 .. MaxValidators
OBVIOUS

\* The keys a mapping entry is stored at are words.
LEMMA MappingKeyType ==
  ASSUME NEW a \in Addr, NEW s \in MappingSlots
  PROVE  getAddressMapping(a, s) \in Word
BY DEF getAddressMapping, Preimage

(***************************************************************************)
(* Lemmas on the layout: distinct variables never share a key.            *)
(***************************************************************************)

\* The first MaxValidators array elements sit at keccak(0) + i, unwrapped,
\* away from every scalar and mapping key.
LEMMA ElemKeyFacts ==
  ASSUME NEW i \in 0 .. MaxValidators - 1
  PROVE  /\ ElemKey(i) = ArrayBase + i
         /\ ElemKey(i) \in Word
         /\ ElemKey(i) \notin ScalarKeys
         /\ ElemKey(i) \notin MappingKeys
<1>1. ArrayBase \in Word
  BY DEF ArrayBase, Preimage, validatorsSlot
<1>2. ArrayBase + i \in 0 .. WordSize - 1
  BY <1>1 DEF Word
<1>3. ElemKey(i) = ArrayBase + i /\ ElemKey(i) \in Word
  <2>1. WordSize \in Nat \ {0}
    BY DEF maxNumValidatorSlot
  <2>2. \A x \in 0 .. WordSize - 1 : x % WordSize = x
    BY <2>1
  <2> QED
    BY <1>2, <2>2 DEF ElemKey, Word
<1>4. ElemKey(i) \in ElemKeys
  BY DEF ElemKeys
<1> QED
  BY <1>3, <1>4

\* Distinct array positions have distinct keys.
LEMMA ElemKeyInjective ==
  ASSUME NEW i \in 0 .. MaxValidators - 1, NEW j \in 0 .. MaxValidators - 1, i # j
  PROVE  ElemKey(i) # ElemKey(j)
<1>1. ElemKey(i) = ArrayBase + i
  BY ElemKeyFacts
<1>2. ElemKey(j) = ArrayBase + j
  BY ElemKeyFacts
<1>3. ArrayBase \in Int
  BY DEF ArrayBase, Preimage, validatorsSlot, Word
<1> QED
  BY <1>1, <1>2, <1>3

\* A mapping entry's key is a word, a mapping key and no scalar key.
LEMMA MappingKeyFacts ==
  ASSUME NEW a \in Addr, NEW s \in MappingSlots
  PROVE  /\ Keccak256[<<a, s>>] \in Word
         /\ Keccak256[<<a, s>>] \in MappingKeys
         /\ Keccak256[<<a, s>>] \notin ScalarKeys
<1>1. <<a, s>> \in Addr \X MappingSlots /\ <<a, s>> \in Preimage
  BY DEF Preimage
<1> QED
  BY <1>1 DEF MappingKeys

\* Two mapping entries share a key only if they are the same entry.
LEMMA MappingKeyInjective ==
  ASSUME NEW a \in Addr, NEW b \in Addr, NEW s \in MappingSlots, NEW t \in MappingSlots,
         Keccak256[<<a, s>>] = Keccak256[<<b, t>>]
  PROVE  a = b /\ s = t
<1>1. <<a, s>> \in Addr \X MappingSlots /\ <<b, t>> \in Addr \X MappingSlots
  OBVIOUS
<1> QED
  BY <1>1

\* The four scalar keys are the raw slot numbers 0, 4, 5, 6.
LEMMA ScalarKeyFacts ==
  /\ LengthKey = 0 /\ TotalStakeKey = 4 /\ MinKey = 5 /\ MaxKey = 6
  /\ ScalarKeys = {LengthKey, TotalStakeKey, MinKey, MaxKey}
  /\ ScalarKeys \subseteq Word
BY DEF LengthKey, TotalStakeKey, MinKey, MaxKey, ScalarKeys, Word, validatorsSlot,
       stakedAmountSlot, minNumValidatorSlot, maxNumValidatorSlot

(***************************************************************************)
(* The code's keys are the layout's keys: getStorageIndexes followed by    *)
(* BytesToHash yields, for each of the six writes, the Solidity key of the *)
(* variable the write is meant for; so do the two count slots.             *)
(***************************************************************************)
LEMMA CodeKeysAreLayoutKeys ==
  ASSUME NEW a \in Addr, NEW i \in 0 .. MaxValidators - 1
  PROVE  LET si == getStorageIndexes(a, i) IN
           /\ BytesToHash(si.ValidatorsIndex) = ElemKey(i)
           /\ BytesToHash(si.AddressToIsValidatorIndex) = IsValidatorKey(a)
           /\ BytesToHash(si.AddressToStakedAmountIndex) = StakedAmountKey(a)
           /\ BytesToHash(si.AddressToValidatorIndexIndex) = ValidatorIndexKey(a)
           /\ BytesToHash(si.StakedAmountIndex) = TotalStakeKey
           /\ BytesToHash(si.ValidatorsArraySizeIndex) = LengthKey
           /\ BytesToHash(minNumValidatorSlot) = MinKey
           /\ BytesToHash(maxNumValidatorSlot) = MaxKey
<1> DEFINE si == getStorageIndexes(a, i)
<1>1. BytesToHash(si.ValidatorsIndex) = ElemKey(i)
  BY DEF getStorageIndexes, getIndexWithOffset, BytesToHash, ElemKey, ArrayBase
<1>2. /\ addressToIsValidatorSlot \in MappingSlots
      /\ addressToStakedAmountSlot \in MappingSlots
      /\ addressToValidatorIndexSlot \in MappingSlots
  BY DEF MappingSlots
<1>3. /\ BytesToHash(si.AddressToIsValidatorIndex) = IsValidatorKey(a)
      /\ BytesToHash(si.AddressToStakedAmountIndex) = StakedAmountKey(a)
      /\ BytesToHash(si.AddressToValidatorIndexIndex) = ValidatorIndexKey(a)
  BY <1>2, MappingKeyFacts, BytesToHashWord
     DEF getStorageIndexes, getAddressMapping, IsValidatorKey, StakedAmountKey,
         ValidatorIndexKey
<1>4. /\ BytesToHash(si.StakedAmountIndex) = TotalStakeKey
      /\ BytesToHash(si.ValidatorsArraySizeIndex) = LengthKey
      /\ BytesToHash(minNumValidatorSlot) = MinKey
      /\ BytesToHash(maxNumValidatorSlot) = MaxKey
  BY ScalarKeyFacts, BytesToHashWord
     DEF getStorageIndexes, validatorsSlot, stakedAmountSlot, minNumValidatorSlot,
         maxNumValidatorSlot, LengthKey, TotalStakeKey, MinKey, MaxKey
<1> QED
  BY <1>1, <1>3, <1>4

-----------------------------------------------------------------------------
(***************************************************************************)
(* Type correctness of the builder.                                        *)
(***************************************************************************)

LEMMA InitTypeOK == Init => TypeOK
<1> SUFFICES ASSUME Init PROVE TypeOK
  OBVIOUS
<1>1. Len(validators) \in Nat
  BY InputType DEF Init
<1>2. [k \in Word |-> Empty] \in [Word -> StorageValue \cup {Empty}]
  OBVIOUS
<1> QED
  BY <1>1, <1>2 DEF Init, TypeOK

LEMMA StakeValidatorTypeOK == TypeOK /\ StakeValidator => TypeOK'
<1> SUFFICES ASSUME TypeOK, StakeValidator PROVE TypeOK'
  OBVIOUS
<1> DEFINE T == StorageValue \cup {Empty}
           validator == validators[indx + 1]
           si == getStorageIndexes(validator, indx)
<1>1. validators \in Seq(Addr) /\ indx \in 0 .. Len(validators) - 1
  BY InputType DEF TypeOK, StakeValidator
<1>2. validator \in Addr
  BY <1>1
<1>3. /\ BytesToHash(1) \in T
      /\ BytesToHash(DefaultStakedBalance) \in T
      /\ BytesToHash(indx) \in T
      /\ BytesToHash(indx + 1) \in T
      /\ BytesToHash(stakedAmount + DefaultStakedBalance) \in T
  BY <1>1, BytesToHashType DEF TypeOK, StorageValue
<1>4. validator \in T
  BY <1>2 DEF StorageValue
<1>5. storageMap' \in [Word -> T]
  <2> DEFINE m1 == Put(storageMap, BytesToHash(si.ValidatorsIndex), validator)
             m2 == Put(m1, BytesToHash(si.AddressToIsValidatorIndex), BytesToHash(1))
             m3 == Put(m2, BytesToHash(si.AddressToStakedAmountIndex),
                       BytesToHash(DefaultStakedBalance))
             m4 == Put(m3, BytesToHash(si.AddressToValidatorIndexIndex), BytesToHash(indx))
             m5 == Put(m4, BytesToHash(si.StakedAmountIndex),
                       BytesToHash(AddStake(stakedAmount, DefaultStakedBalance)))
             m6 == Put(m5, BytesToHash(si.ValidatorsArraySizeIndex), BytesToHash(indx + 1))
  <2>1. storageMap' = m6
    BY DEF StakeValidator
  <2>2. m1 \in [Word -> T]  BY <1>4, PutType DEF TypeOK
  <2>3. m2 \in [Word -> T]  BY <2>2, <1>3, PutType
  <2>4. m3 \in [Word -> T]  BY <2>3, <1>3, PutType
  <2>5. m4 \in [Word -> T]  BY <2>4, <1>3, PutType
  <2>6. m5 \in [Word -> T]  BY <2>5, <1>3, PutType DEF AddStake
  <2>7. m6 \in [Word -> T]  BY <2>6, <1>3, PutType
  <2> QED  BY <2>1, <2>7
<1>6. /\ indx' \in 0 .. Len(validators')
      /\ stakedAmount' \in Nat
      /\ UNCHANGED <<validators, params, account>>
  BY <1>1 DEF StakeValidator, AddStake, TypeOK
<1> QED
  BY <1>5, <1>6 DEF TypeOK

LEMMA FinishTypeOK == TypeOK /\ Finish => TypeOK'
<1> SUFFICES ASSUME TypeOK, Finish PROVE TypeOK'
  OBVIOUS
<1> DEFINE T == StorageValue \cup {Empty}
           minv == BytesToHash(BigBytes(ToInt64(params.MinValidatorCount)))
           maxv == BytesToHash(BigBytes(ToInt64(params.MaxValidatorCount)))
           m == Put(Put(storageMap, BytesToHash(minNumValidatorSlot), minv),
                    BytesToHash(maxNumValidatorSlot), maxv)
<1>1. params.MinValidatorCount \in Int /\ params.MaxValidatorCount \in Int
  <2>1. params \in [MinValidatorCount : Counts, MaxValidatorCount : Counts]
    BY DEF TypeOK, Params
  <2>2. Counts \subseteq Int
    OBVIOUS
  <2> QED  BY <2>1, <2>2, Zenon
<1>2. minv \in T /\ maxv \in T
  BY <1>1, BytesToHashType DEF BigBytes, ToInt64, StorageValue
<1>3. m \in [Word -> T]
  BY <1>2, PutType DEF TypeOK
<1>4. storageMap' = m /\ account' = [Balance |-> stakedAmount, Storage |-> m]
  BY DEF Finish
<1> QED
  BY <1>3, <1>4 DEF Finish, TypeOK

(***************************************************************************)
(* What one loop iteration does to the storage map: the six keys of the    *)
(* validator get their values and every other word is left alone.  The six *)
(* keys are distinct, so no write of the iteration hides another.          *)
(***************************************************************************)
LEMMA StakeValidatorStorage ==
  ASSUME TypeOK, StakeValidator
  PROVE  LET v == validators[indx + 1]
             Six == {LengthKey, TotalStakeKey, ElemKey(indx), IsValidatorKey(v),
                     StakedAmountKey(v), ValidatorIndexKey(v)}
         IN  /\ storageMap'[LengthKey] = BytesToHash(indx + 1)
             /\ storageMap'[TotalStakeKey] = BytesToHash(stakedAmount + DefaultStakedBalance)
             /\ storageMap'[ElemKey(indx)] = v
             /\ storageMap'[IsValidatorKey(v)] = BytesToHash(1)
             /\ storageMap'[StakedAmountKey(v)] = BytesToHash(DefaultStakedBalance)
             /\ storageMap'[ValidatorIndexKey(v)] = BytesToHash(indx)
             /\ \A x \in Word \ Six : storageMap'[x] = storageMap[x]
<1> DEFINE v == validators[indx + 1]
           si == getStorageIndexes(v, indx)
           E == ElemKey(indx)
           F == IsValidatorKey(v)
           S == StakedAmountKey(v)
           I == ValidatorIndexKey(v)
           L == LengthKey
           T == TotalStakeKey
<1>1. validators \in Seq(Addr) /\ indx \in 0 .. Len(validators) - 1
      /\ Len(validators) <= MaxValidators
  BY InputType DEF TypeOK, StakeValidator
<1>2. v \in Addr /\ indx \in 0 .. MaxValidators - 1
  BY <1>1
<1>3. /\ BytesToHash(si.ValidatorsIndex) = E
      /\ BytesToHash(si.AddressToIsValidatorIndex) = F
      /\ BytesToHash(si.AddressToStakedAmountIndex) = S
      /\ BytesToHash(si.AddressToValidatorIndexIndex) = I
      /\ BytesToHash(si.StakedAmountIndex) = T
      /\ BytesToHash(si.ValidatorsArraySizeIndex) = L
  BY <1>2, CodeKeysAreLayoutKeys
<1>4. storageMap' =
        Put(Put(Put(Put(Put(Put(storageMap, E, v), F, BytesToHash(1)),
            S, BytesToHash(DefaultStakedBalance)), I, BytesToHash(indx)),
            T, BytesToHash(AddStake(stakedAmount, DefaultStakedBalance))),
            L, BytesToHash(indx + 1))
  BY <1>3 DEF StakeValidator
<1>5. /\ E \in Word /\ E \notin ScalarKeys /\ E \notin MappingKeys
  BY <1>2, ElemKeyFacts
<1>6. /\ F \in Word /\ F \in MappingKeys /\ F \notin ScalarKeys
      /\ S \in Word /\ S \in MappingKeys /\ S \notin ScalarKeys
      /\ I \in Word /\ I \in MappingKeys /\ I \notin ScalarKeys
  BY <1>2, MappingKeyFacts DEF IsValidatorKey, StakedAmountKey, ValidatorIndexKey,
                             MappingSlots
<1>7. F # S /\ F # I /\ S # I
  BY <1>2, MappingKeyInjective DEF IsValidatorKey, StakedAmountKey, ValidatorIndexKey,
     MappingSlots, addressToIsValidatorSlot, addressToStakedAmountSlot,
     addressToValidatorIndexSlot
<1>8. L \in ScalarKeys /\ T \in ScalarKeys /\ L # T /\ L \in Word /\ T \in Word
  BY ScalarKeyFacts
<1>9. storageMap \in [Word -> StorageValue \cup {Empty}]
  BY DEF TypeOK
<1> QED
  BY <1>4, <1>5, <1>6, <1>7, <1>8, <1>9 DEF Put, AddStake

\* What the return does to the storage map: the two count slots only.
LEMMA FinishStorage ==
  ASSUME TypeOK, Finish
  PROVE  /\ \A x \in Word \ {MinKey, MaxKey} : storageMap'[x] = storageMap[x]
         /\ account' # NoAccount
<1>1. /\ BytesToHash(minNumValidatorSlot) = MinKey
      /\ BytesToHash(maxNumValidatorSlot) = MaxKey
  <2>1. minNumValidatorSlot \in Word /\ maxNumValidatorSlot \in Word
    BY ScalarKeyFacts DEF MinKey, MaxKey
  <2> QED
    BY <2>1, BytesToHashWord DEF MinKey, MaxKey
<1>2. storageMap \in [Word -> StorageValue \cup {Empty}]
  BY DEF TypeOK
<1>3. \A x \in Word \ {MinKey, MaxKey} : storageMap'[x] = storageMap[x]
  BY <1>1, <1>2 DEF Finish, Put
<1>4. account' \in [Balance : Nat, Storage : [Word -> Word \cup Addr \cup {Empty}]]
  BY FinishTypeOK DEF TypeOK, StorageValue, Finish
<1> QED
  BY <1>3, <1>4

\* The type invariant holds in every reachable state of the builder.
THEOREM TypeCorrect == Spec => []TypeOK
<1>1. Init => TypeOK
  BY InitTypeOK
<1>2. TypeOK /\ [Next]_vars => TypeOK'
  BY StakeValidatorTypeOK, FinishTypeOK DEF Next, vars, TypeOK
<1> QED
  BY <1>1, <1>2, PTL DEF Spec

-----------------------------------------------------------------------------
(***************************************************************************)
(* The prefix snapshot of spec.md section 3.  SnapshotInv adds to it that  *)
(* the running total is indx deposits (the value the next iteration        *)
(* writes) and that the account exists only after the last iteration (so  *)
(* the count slots are written after every validator key).                *)
(***************************************************************************)

LEMMA InitSnapshot == Init => SnapshotInv
<1> SUFFICES ASSUME Init PROVE SnapshotInv
  OBVIOUS
<1>1. TypeOK
  BY InitTypeOK
<1>2. WrittenKeys = {}
  BY DEF Init, WrittenKeys, Written
<1> QED
  BY <1>1, <1>2 DEF Init, SnapshotInv, PrefixSnapshot, Written

\* A loop iteration keeps the snapshot of the prefix, one longer.
LEMMA StakeValidatorSnapshot == SnapshotInv /\ StakeValidator => SnapshotInv'
<1> SUFFICES ASSUME SnapshotInv, StakeValidator PROVE SnapshotInv'
  OBVIOUS
<1> DEFINE v == validators[indx + 1]
           Six == {LengthKey, TotalStakeKey, ElemKey(indx), IsValidatorKey(v),
                   StakedAmountKey(v), ValidatorIndexKey(v)}
<1>1. TypeOK /\ TypeOK'
  BY StakeValidatorTypeOK DEF SnapshotInv
<1>2. /\ validators \in Seq(Addr) /\ Len(validators) <= MaxValidators
      /\ indx \in 0 .. Len(validators) - 1
      /\ indx' = indx + 1 /\ validators' = validators /\ account' = account
      /\ stakedAmount' = stakedAmount + DefaultStakedBalance
  BY <1>1, InputType DEF TypeOK, StakeValidator, AddStake
<1>3. /\ storageMap'[LengthKey] = BytesToHash(indx + 1)
      /\ storageMap'[TotalStakeKey] = BytesToHash(stakedAmount + DefaultStakedBalance)
      /\ storageMap'[ElemKey(indx)] = v
      /\ storageMap'[IsValidatorKey(v)] = BytesToHash(1)
      /\ storageMap'[StakedAmountKey(v)] = BytesToHash(DefaultStakedBalance)
      /\ storageMap'[ValidatorIndexKey(v)] = BytesToHash(indx)
      /\ \A x \in Word \ Six : storageMap'[x] = storageMap[x]
  BY <1>1, StakeValidatorStorage
<1>4. stakedAmount' = indx' * DefaultStakedBalance
  BY <1>2 DEF SnapshotInv
<1>5. account' # NoAccount => indx' = Len(validators')
  BY <1>2 DEF SnapshotInv, StakeValidator
<1>6. v \in Addr /\ indx \in 0 .. MaxValidators - 1
  BY <1>2
\* Keys of a validator written before stay out of reach of this iteration,
\* except the mapping keys of v itself.
<1>7. ASSUME NEW j \in 0 .. indx - 1
      PROVE  /\ ElemKey(j) \notin Six
             /\ validators[j + 1] \in Addr
             /\ validators[j + 1] # v =>
                   /\ IsValidatorKey(validators[j + 1]) \notin Six
                   /\ StakedAmountKey(validators[j + 1]) \notin Six
                   /\ ValidatorIndexKey(validators[j + 1]) \notin Six
  <2> DEFINE w == validators[j + 1]
  <2>1. j \in 0 .. MaxValidators - 1 /\ w \in Addr
    BY <1>2
  <2>2. ElemKey(j) # ElemKey(indx)
    BY <2>1, <1>6, ElemKeyInjective
  <2>3. ElemKey(j) \notin ScalarKeys /\ ElemKey(j) \notin MappingKeys
    BY <2>1, ElemKeyFacts
  <2>4. /\ IsValidatorKey(v) \in MappingKeys /\ StakedAmountKey(v) \in MappingKeys
        /\ ValidatorIndexKey(v) \in MappingKeys
    BY <1>6, MappingKeyFacts DEF IsValidatorKey, StakedAmountKey, ValidatorIndexKey,
                               MappingSlots
  <2>5. ElemKey(j) \notin Six
    BY <2>2, <2>3, <2>4, ScalarKeyFacts
  <2>6. ASSUME w # v
        PROVE  /\ IsValidatorKey(w) \notin Six
               /\ StakedAmountKey(w) \notin Six
               /\ ValidatorIndexKey(w) \notin Six
    <3>1. \A s, t \in MappingSlots : Keccak256[<<w, s>>] # Keccak256[<<v, t>>]
      BY <2>1, <1>6, <2>6, MappingKeyInjective
    <3>2. \A s \in MappingSlots : /\ Keccak256[<<w, s>>] \notin ScalarKeys
                                 /\ Keccak256[<<w, s>>] # ElemKey(indx)
      BY <2>1, <1>6, MappingKeyFacts, ElemKeyFacts
    <3> QED
      BY <3>1, <3>2, ScalarKeyFacts
         DEF IsValidatorKey, StakedAmountKey, ValidatorIndexKey, MappingSlots
  <2> QED
    BY <2>1, <2>5, <2>6
<1>8. PrefixSnapshot'
  <2>1. indx' > 0 => /\ storageMap'[LengthKey] = BytesToHash(indx')
                     /\ storageMap'[TotalStakeKey] = BytesToHash(indx' * DefaultStakedBalance)
    BY <1>2, <1>3, <1>4
  <2>2. ASSUME NEW j \in 0 .. indx' - 1
        PROVE  /\ storageMap'[ElemKey(j)] = validators'[j + 1]
               /\ storageMap'[IsValidatorKey(validators'[j + 1])] = BytesToHash(1)
               /\ storageMap'[StakedAmountKey(validators'[j + 1])] =
                     BytesToHash(DefaultStakedBalance)
               /\ LastOccurrence(j)' =>
                     storageMap'[ValidatorIndexKey(validators'[j + 1])] = BytesToHash(j)
    <3>1. CASE j = indx
      BY <3>1, <1>2, <1>3 DEF LastOccurrence
    <3>2. CASE j # indx
      <4> DEFINE w == validators[j + 1]
      <4>1. j \in 0 .. indx - 1
        BY <3>2, <1>2
      <4>2. /\ storageMap[ElemKey(j)] = w
            /\ storageMap[IsValidatorKey(w)] = BytesToHash(1)
            /\ storageMap[StakedAmountKey(w)] = BytesToHash(DefaultStakedBalance)
            /\ LastOccurrence(j) => storageMap[ValidatorIndexKey(w)] = BytesToHash(j)
        BY <4>1 DEF SnapshotInv, PrefixSnapshot, Written
      <4>3. ElemKey(j) \in Word /\ w \in Addr
        BY <4>1, <1>2, ElemKeyFacts
      <4>4. storageMap'[ElemKey(j)] = w
        BY <4>1, <4>2, <4>3, <1>3, <1>7
      <4>5. /\ IsValidatorKey(w) \in Word /\ StakedAmountKey(w) \in Word
            /\ ValidatorIndexKey(w) \in Word
        BY <4>3, MappingKeyFacts DEF IsValidatorKey, StakedAmountKey, ValidatorIndexKey,
                                   MappingSlots
      <4>6. /\ storageMap'[IsValidatorKey(w)] = BytesToHash(1)
            /\ storageMap'[StakedAmountKey(w)] = BytesToHash(DefaultStakedBalance)
        <5>1. CASE w = v
          BY <5>1, <1>3
        <5>2. CASE w # v
          BY <5>2, <4>1, <4>2, <4>5, <1>3, <1>7
        <5> QED
          BY <5>1, <5>2
      <4>7. LastOccurrence(j)' => storageMap'[ValidatorIndexKey(w)] = BytesToHash(j)
        <5> SUFFICES ASSUME LastOccurrence(j)'
                     PROVE  storageMap'[ValidatorIndexKey(w)] = BytesToHash(j)
          OBVIOUS
        <5>1. w # v /\ LastOccurrence(j)
          BY <1>2, <4>1 DEF LastOccurrence
        <5> QED
          BY <5>1, <4>1, <4>2, <4>5, <1>3, <1>7
      <4> QED
        BY <4>4, <4>6, <4>7, <1>2
    <3> QED
      BY <3>1, <3>2
  <2>3. \A k \in Word \ WrittenKeys' : storageMap'[k] = Empty
    <3>1. Six \subseteq WrittenKeys'
      BY <1>2 DEF WrittenKeys, Written
    <3>2. WrittenKeys \subseteq WrittenKeys'
      BY <1>2 DEF WrittenKeys, Written
    <3>3. \A k \in Word \ WrittenKeys : storageMap[k] = Empty
      BY DEF SnapshotInv, PrefixSnapshot
    <3> QED
      BY <3>1, <3>2, <3>3, <1>3
  <2> QED
    BY <2>1, <2>2, <2>3 DEF PrefixSnapshot, Written
<1> QED
  BY <1>1, <1>4, <1>5, <1>8 DEF SnapshotInv

\* The return writes only the count slots, which no validator key reaches.
LEMMA FinishSnapshot == SnapshotInv /\ Finish => SnapshotInv'
<1> SUFFICES ASSUME SnapshotInv, Finish PROVE SnapshotInv'
  OBVIOUS
<1>1. TypeOK /\ TypeOK'
  BY FinishTypeOK DEF SnapshotInv
<1>2. /\ \A x \in Word \ {MinKey, MaxKey} : storageMap'[x] = storageMap[x]
      /\ account' # NoAccount
  BY <1>1, FinishStorage DEF SnapshotInv
<1>3. /\ validators \in Seq(Addr) /\ Len(validators) <= MaxValidators
      /\ indx = Len(validators)
      /\ UNCHANGED <<validators, params, indx, stakedAmount>>
  BY <1>1, InputType DEF TypeOK, Finish
\* Every key a validator owns is neither count slot.
<1>4. ASSUME NEW j \in 0 .. indx - 1
      PROVE  LET w == validators[j + 1] IN
               /\ ElemKey(j) \in Word \ {MinKey, MaxKey}
               /\ IsValidatorKey(w) \in Word \ {MinKey, MaxKey}
               /\ StakedAmountKey(w) \in Word \ {MinKey, MaxKey}
               /\ ValidatorIndexKey(w) \in Word \ {MinKey, MaxKey}
  <2>1. j \in 0 .. MaxValidators - 1 /\ validators[j + 1] \in Addr
    BY <1>3
  <2>2. ElemKey(j) \in Word \ {MinKey, MaxKey}
    BY <2>1, ElemKeyFacts, ScalarKeyFacts
  <2>3. \A s \in MappingSlots : Keccak256[<<validators[j + 1], s>>] \in Word \ {MinKey, MaxKey}
    BY <2>1, MappingKeyFacts, ScalarKeyFacts
  <2> QED
    BY <2>2, <2>3 DEF IsValidatorKey, StakedAmountKey, ValidatorIndexKey, MappingSlots
<1>5. LengthKey \in Word \ {MinKey, MaxKey} /\ TotalStakeKey \in Word \ {MinKey, MaxKey}
  BY ScalarKeyFacts
<1>6. PrefixSnapshot'
  <2>1. indx' > 0 => /\ storageMap'[LengthKey] = BytesToHash(indx')
                     /\ storageMap'[TotalStakeKey] = BytesToHash(indx' * DefaultStakedBalance)
    BY <1>2, <1>3, <1>5 DEF SnapshotInv, PrefixSnapshot
  <2>2. ASSUME NEW j \in Written'
        PROVE  /\ storageMap'[ElemKey(j)] = validators'[j + 1]
               /\ storageMap'[IsValidatorKey(validators'[j + 1])] = BytesToHash(1)
               /\ storageMap'[StakedAmountKey(validators'[j + 1])] =
                     BytesToHash(DefaultStakedBalance)
               /\ LastOccurrence(j)' =>
                     storageMap'[ValidatorIndexKey(validators'[j + 1])] = BytesToHash(j)
    <3> DEFINE w == validators[j + 1]
    <3>1. j \in 0 .. indx - 1 /\ LastOccurrence(j)' = LastOccurrence(j)
      BY <1>3 DEF Written, LastOccurrence
    <3>2. /\ storageMap[ElemKey(j)] = w
          /\ storageMap[IsValidatorKey(w)] = BytesToHash(1)
          /\ storageMap[StakedAmountKey(w)] = BytesToHash(DefaultStakedBalance)
          /\ LastOccurrence(j) => storageMap[ValidatorIndexKey(w)] = BytesToHash(j)
      BY <3>1 DEF SnapshotInv, PrefixSnapshot, Written
    <3>3. /\ ElemKey(j) \in Word \ {MinKey, MaxKey}
          /\ IsValidatorKey(w) \in Word \ {MinKey, MaxKey}
          /\ StakedAmountKey(w) \in Word \ {MinKey, MaxKey}
          /\ ValidatorIndexKey(w) \in Word \ {MinKey, MaxKey}
      BY <3>1, <1>4
    <3> QED
      BY <3>1, <3>2, <3>3, <1>2, <1>3
  <2>3. \A k \in Word \ WrittenKeys' : storageMap'[k] = Empty
    <3>1. WrittenKeys' = WrittenKeys \cup {MinKey, MaxKey}
      BY <1>2, <1>3, ScalarKeyFacts DEF WrittenKeys, Written, SnapshotInv
    <3> QED
      BY <3>1, <1>2 DEF SnapshotInv, PrefixSnapshot
  <2> QED
    BY <2>1, <2>2, <2>3 DEF PrefixSnapshot
<1> QED
  BY <1>1, <1>3, <1>6 DEF SnapshotInv

(***************************************************************************)
(* A stuttering step keeps the snapshot invariant: every variable, so      *)
(* every key the invariant reads, is unchanged.                            *)
(***************************************************************************)
LEMMA StutterSnapshot == SnapshotInv /\ UNCHANGED vars => SnapshotInv'
<1> SUFFICES ASSUME SnapshotInv, UNCHANGED vars PROVE SnapshotInv'
  OBVIOUS
<1>1. /\ validators' = validators /\ params' = params /\ indx' = indx
      /\ stakedAmount' = stakedAmount /\ storageMap' = storageMap
      /\ account' = account
  BY DEF vars
<1>2. TypeOK'
  BY <1>1 DEF SnapshotInv, TypeOK
<1>3. Written' = Written /\ WrittenKeys' = WrittenKeys
  BY <1>1 DEF WrittenKeys, Written
<1>4. \A j \in Written : LastOccurrence(j)' = LastOccurrence(j)
  BY <1>1 DEF LastOccurrence, Written
<1>5. PrefixSnapshot'
  BY <1>1, <1>3, <1>4 DEF SnapshotInv, PrefixSnapshot
<1> QED
  BY <1>1, <1>2, <1>5 DEF SnapshotInv

\* Every reachable state of the builder satisfies SnapshotInv.
LEMMA SnapshotInvariant == Spec => []SnapshotInv
<1>1. Init => SnapshotInv
  BY InitSnapshot
<1>2. SnapshotInv /\ [Next]_vars => SnapshotInv'
  <2> SUFFICES ASSUME SnapshotInv, [Next]_vars PROVE SnapshotInv'
    OBVIOUS
  <2>1. CASE StakeValidator
    BY <2>1, StakeValidatorSnapshot
  <2>2. CASE Finish
    BY <2>2, FinishSnapshot
  <2>3. CASE UNCHANGED vars
    BY <2>3, StutterSnapshot
  <2> QED
    BY <2>1, <2>2, <2>3 DEF Next
<1> QED
  BY <1>1, <1>2, PTL DEF Spec

(***************************************************************************)
(* Every reachable state of the builder holds the prefix snapshot, for     *)
(* every list of validators (duplicates included), every deposit and every *)
(* word width, given a collision-free hash on the keys (KeyLayoutAssumption).*)
(***************************************************************************)
THEOREM PrefixSnapshotHolds == Spec => []PrefixSnapshot
<1>1. SnapshotInv => PrefixSnapshot
  BY DEF SnapshotInv
<1> QED
  BY SnapshotInvariant, <1>1, PTL

-----------------------------------------------------------------------------
(***************************************************************************)
(* The decoded state is consistent when no address is listed twice.       *)
(***************************************************************************)

\* No list the caller may pass repeats an address.
DistinctInputs == \A s \in Inputs : \A i, j \in 1 .. Len(s) : i # j => s[i] # s[j]

\* Positions up to MaxValidators are storage words: the array base is not
\* slot 0, so MaxValidators elements above it fit below 2^WordBits.
LEMMA SmallIndexWord ==
  ASSUME NEW i \in 0 .. MaxValidators
  PROVE  i \in Word
<1>1. CASE MaxValidators = 0
  BY <1>1 DEF Word, maxNumValidatorSlot
<1>2. CASE MaxValidators > 0
  <2>0. 0 \in 0 .. MaxValidators - 1
    BY <1>2
  <2>1. ElemKey(0) = ArrayBase /\ ElemKey(0) \notin ScalarKeys
    <3>1. ElemKey(0) = ArrayBase + 0 /\ ElemKey(0) \notin ScalarKeys
      BY <2>0, ElemKeyFacts
    <3>2. ArrayBase \in Int
      BY DEF ArrayBase, Preimage, validatorsSlot, Word
    <3> QED
      BY <3>1, <3>2
  <2>2. ArrayBase # 0
    BY <2>1, ScalarKeyFacts
  <2>3. ArrayBase \in Word
    BY DEF ArrayBase, Preimage, validatorsSlot
  <2> QED
    BY <2>2, <2>3 DEF Word
<1> QED
  BY <1>1, <1>2
\* What a written key reads back as: the stored value, since no written
\* value is Empty.
LEMMA ReadStored ==
  ASSUME TypeOK, NEW k \in Word, storageMap[k] # Empty
  PROVE  Read(k) = storageMap[k]
BY DEF Read

\* The aggregate and count slots read back as the snapshot says: the
\* length is indx, the total is indx deposits (reduced to a word), and the
\* counts are zero until the return.
LEMMA AggregateReads ==
  ASSUME SnapshotInv
  PROVE  /\ Read(LengthKey) = indx
         /\ Read(TotalStakeKey) = BytesToHash(indx * DefaultStakedBalance)
         /\ account = NoAccount => Read(MinKey) = 0 /\ Read(MaxKey) = 0
<1> USE DEF SnapshotInv
<1>1. /\ indx \in 0 .. Len(validators)
      /\ Len(validators) \in 0 .. MaxValidators
  BY InputType DEF TypeOK
<1>2. /\ LengthKey \in Word /\ TotalStakeKey \in Word
      /\ MinKey \in Word /\ MaxKey \in Word
      /\ Empty \notin Word
      /\ BytesToHash(0) = 0
  BY ScalarKeyFacts, BytesToHashWord DEF Word, maxNumValidatorSlot
<1>3. CASE indx = 0
  <2>1. WrittenKeys \subseteq {MinKey, MaxKey}
    BY <1>3 DEF WrittenKeys, Written
  <2>2. /\ LengthKey \notin {MinKey, MaxKey}
        /\ TotalStakeKey \notin {MinKey, MaxKey}
    BY ScalarKeyFacts
  <2>3. storageMap[LengthKey] = Empty /\ storageMap[TotalStakeKey] = Empty
    BY <1>2, <2>1, <2>2 DEF PrefixSnapshot
  <2>4. BytesToHash(indx * DefaultStakedBalance) = 0
    BY <1>3, <1>2
  <2>5. account = NoAccount => storageMap[MinKey] = Empty /\ storageMap[MaxKey] = Empty
    <3>1. account = NoAccount => WrittenKeys = {}
      BY <1>3 DEF WrittenKeys, Written
    <3> QED
      BY <1>2, <3>1 DEF PrefixSnapshot
  <2> QED
    BY <1>3, <2>3, <2>4, <2>5 DEF Read
<1>4. CASE indx > 0
  <2>1. indx \in Word
    BY <1>1, SmallIndexWord
  <2>2. /\ storageMap[LengthKey] = indx
        /\ storageMap[TotalStakeKey] = BytesToHash(indx * DefaultStakedBalance)
    BY <1>4, <2>1, BytesToHashWord DEF PrefixSnapshot
  <2>3. BytesToHash(indx * DefaultStakedBalance) \in Word
    BY <1>1, BytesToHashType
  <2>4. account = NoAccount => MinKey \notin WrittenKeys /\ MaxKey \notin WrittenKeys
    <3>1. MinKey \notin ScalarKeys \ {MinKey, MaxKey} /\ MaxKey \notin ScalarKeys \ {MinKey, MaxKey}
      BY ScalarKeyFacts
    <3>2. \A j \in Written : j \in 0 .. MaxValidators - 1 /\ validators[j + 1] \in Addr
      BY <1>1, InputType DEF Written, TypeOK
    <3>3. \A j \in Written : /\ ElemKey(j) \notin ScalarKeys
                             /\ IsValidatorKey(validators[j + 1]) \notin ScalarKeys
                             /\ StakedAmountKey(validators[j + 1]) \notin ScalarKeys
                             /\ ValidatorIndexKey(validators[j + 1]) \notin ScalarKeys
      BY <3>2, ElemKeyFacts, MappingKeyFacts
         DEF IsValidatorKey, StakedAmountKey, ValidatorIndexKey, MappingSlots
    <3> QED
      BY <3>1, <3>3, ScalarKeyFacts DEF WrittenKeys
  <2> QED
    BY <1>2, <2>1, <2>2, <2>3, <2>4 DEF Read, PrefixSnapshot
<1> QED
  BY <1>1, <1>3, <1>4

\* The keys of the snapshot, for a list without repeats, read back as the
\* prefix of the contract state: the length, and each written element with
\* its flag and index entry.
LEMMA SnapshotReads ==
  ASSUME DistinctInputs, SnapshotInv
  PROVE  /\ Read(LengthKey) = indx
         /\ \A i \in 0 .. indx - 1 :
               /\ validators[i + 1] \in Addr
               /\ Read(ElemKey(i)) = validators[i + 1]
               /\ Read(IsValidatorKey(validators[i + 1])) = 1
               /\ Read(ValidatorIndexKey(validators[i + 1])) = i
<1> USE DEF SnapshotInv
<1>1. /\ validators \in Seq(Addr)
      /\ indx \in 0 .. Len(validators)
      /\ Len(validators) \in 0 .. MaxValidators
  BY InputType DEF TypeOK
<1>2. /\ LengthKey \in Word /\ Empty \notin Word /\ Empty \notin Addr
  BY ScalarKeyFacts
<1>3. Read(LengthKey) = indx
  BY AggregateReads
<1>4. ASSUME NEW i \in 0 .. indx - 1
      PROVE  /\ validators[i + 1] \in Addr
             /\ Read(ElemKey(i)) = validators[i + 1]
             /\ Read(IsValidatorKey(validators[i + 1])) = 1
             /\ Read(ValidatorIndexKey(validators[i + 1])) = i
  <2> DEFINE v == validators[i + 1]
  <2>1. v \in Addr /\ i \in 0 .. MaxValidators - 1 /\ i \in Word /\ 1 \in Word
    <3>1. i \in 0 .. MaxValidators /\ i \in 0 .. MaxValidators - 1
      BY <1>1
    <3>2. i \in Word
      BY <3>1, SmallIndexWord
    <3>3. 1 \in Word
      BY DEF Word, maxNumValidatorSlot
    <3>4. i + 1 \in 1 .. Len(validators)
      BY <1>1
    <3>5. v \in Addr
      BY <1>1, <3>4
    <3> QED
      BY <3>1, <3>2, <3>3, <3>5
  <2>2. LastOccurrence(i)
    <3>1. validators \in Inputs
      BY DEF TypeOK
    <3> QED
      BY <1>1, <3>1 DEF DistinctInputs, LastOccurrence
  <2>3. /\ storageMap[ElemKey(i)] = v
        /\ storageMap[IsValidatorKey(v)] = 1
        /\ storageMap[ValidatorIndexKey(v)] = i
    BY <2>1, <2>2, BytesToHashWord DEF PrefixSnapshot, Written
  <2>4. /\ ElemKey(i) \in Word
        /\ IsValidatorKey(v) \in Word
        /\ ValidatorIndexKey(v) \in Word
    BY <2>1, ElemKeyFacts, MappingKeyFacts
       DEF IsValidatorKey, ValidatorIndexKey, MappingSlots
  <2> QED
    BY <1>2, <2>1, <2>3, <2>4 DEF Read
<1> QED
  BY <1>3, <1>4
\* An address flagged as a validator is one the loop has written.
LEMMA FlaggedIsListed ==
  ASSUME SnapshotInv, NEW a \in Addr, Read(IsValidatorKey(a)) = 1
  PROVE  \E j \in 0 .. indx - 1 : validators[j + 1] = a
<1> DEFINE k == IsValidatorKey(a)
<1>1. /\ validators \in Seq(Addr)
      /\ indx \in 0 .. Len(validators)
      /\ Len(validators) \in 0 .. MaxValidators
  BY InputType DEF SnapshotInv, TypeOK
<1>2. \A j \in Written : j \in 0 .. MaxValidators - 1 /\ validators[j + 1] \in Addr
  BY <1>1 DEF Written
<1>3. /\ addressToIsValidatorSlot \in MappingSlots
      /\ addressToStakedAmountSlot \in MappingSlots
      /\ addressToValidatorIndexSlot \in MappingSlots
      /\ addressToIsValidatorSlot # addressToStakedAmountSlot
      /\ addressToIsValidatorSlot # addressToValidatorIndexSlot
  BY DEF MappingSlots, addressToIsValidatorSlot, addressToStakedAmountSlot,
         addressToValidatorIndexSlot
<1>4. k \in Word /\ k \in MappingKeys /\ k \notin ScalarKeys
  BY <1>3, MappingKeyFacts DEF IsValidatorKey
<1>5. k \in WrittenKeys
  <2> SUFFICES ASSUME k \notin WrittenKeys PROVE FALSE
    OBVIOUS
  <2>1. storageMap[k] = Empty
    BY <1>4 DEF SnapshotInv, PrefixSnapshot
  <2> QED
    BY <2>1 DEF Read
<1>6. k \notin {LengthKey, TotalStakeKey, MinKey, MaxKey}
  BY <1>4, ScalarKeyFacts
<1>7. \A j \in Written : k # ElemKey(j)
  BY <1>2, <1>4, ElemKeyFacts
<1>8. \A j \in Written : k # StakedAmountKey(validators[j + 1])
                         /\ k # ValidatorIndexKey(validators[j + 1])
  BY <1>2, <1>3, MappingKeyInjective
     DEF IsValidatorKey, StakedAmountKey, ValidatorIndexKey
<1>9. \E j \in Written : k = IsValidatorKey(validators[j + 1])
  BY <1>5, <1>6, <1>7, <1>8 DEF WrittenKeys
<1>10. \A j \in Written : k = IsValidatorKey(validators[j + 1]) => validators[j + 1] = a
  BY <1>2, <1>3, MappingKeyInjective DEF IsValidatorKey
<1> QED
  BY <1>9, <1>10 DEF Written

\* For a list without repeats, the snapshot decodes to a consistent state.
LEMMA ConsistentFromSnapshot ==
  ASSUME DistinctInputs, SnapshotInv
  PROVE  ContractStateConsistent
<1>1. Read(LengthKey) = indx
  BY SnapshotReads
<1>2. \A i \in 0 .. Read(LengthKey) - 1 :
        LET v == Read(ElemKey(i)) IN
          /\ v \in Addr
          /\ Read(ValidatorIndexKey(v)) = i
          /\ Read(IsValidatorKey(v)) = 1
  BY <1>1, SnapshotReads
<1>3. ASSUME NEW a \in Addr, Read(IsValidatorKey(a)) = 1
      PROVE  /\ Read(ValidatorIndexKey(a)) < Read(LengthKey)
             /\ Read(ElemKey(Read(ValidatorIndexKey(a)))) = a
  <2>1. PICK j \in 0 .. indx - 1 : validators[j + 1] = a
    BY <1>3, FlaggedIsListed
  <2>2. Read(ValidatorIndexKey(a)) = j /\ Read(ElemKey(j)) = a
    BY <2>1, SnapshotReads
  <2>3. indx \in Nat /\ j < indx
    BY <2>1 DEF SnapshotInv, TypeOK
  <2>4. Read(ElemKey(Read(ValidatorIndexKey(a)))) = a
    BY <2>2
  <2> QED
    BY <1>1, <2>2, <2>3, <2>4
<1> QED
  BY <1>2, <1>3 DEF ContractStateConsistent

(***************************************************************************)
(* When no list the caller may pass repeats an address, every state of     *)
(* the builder decodes to a contract state Staking.sol can rely on: the    *)
(* validator array and the index mapping are inverse to each other and     *)
(* agree with the flags.  The hypothesis is needed: duplicate_validators   *)
(* shows the property failing for <<a1, a1>>.                              *)
(***************************************************************************)
THEOREM ContractStateConsistentHolds ==
  ASSUME DistinctInputs
  PROVE  Spec => []ContractStateConsistent
<1>1. SnapshotInv => ContractStateConsistent
  BY ConsistentFromSnapshot
<1> QED
  BY SnapshotInvariant, <1>1, PTL
=============================================================================
