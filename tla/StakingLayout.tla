--------------------------- MODULE StakingLayout ---------------------------
(***************************************************************************)
(* Storage addressing of the staking contract, as helper/staking computes *)
(* it outside the EVM (staking.go, getAddressMapping, getIndexWithOffset,  *)
(* getStorageIndexes and the slot constants), next to the reference rule   *)
(* of the Solidity storage layout that the contract bytecode follows.      *)
(*                                                                         *)
(* Data abstraction.  A storage key or value is a WordBits-bit unsigned    *)
(* integer (256 bits in the code: types.Hash is 32 bytes).  The 32-byte    *)
(* left padding of a big-endian integer is the integer itself, so a padded *)
(* preimage is a tuple of words: keccak(pad32(address) . pad32(slot)) is   *)
(* Keccak256[<<address, slot>>] and keccak(pad32(slot)) is                 *)
(* Keccak256[<<slot>>].  Keccak-256 itself is a constant function; the     *)
(* only thing the layout needs of it is stated in KeyLayoutAssumption.     *)
(***************************************************************************)
EXTENDS Integers

CONSTANTS
  Addr,          \* validator addresses (20-byte account identifiers)
  WordBits,      \* bit width of a storage word (256 in the code)
  Keccak256,     \* the hash, as a function from padded preimages to words
  MaxValidators  \* bound on the length of the validator list

WordSize == 2^WordBits
Word == 0 .. WordSize - 1

(***************************************************************************)
(* Slot definitions for SC storage (declaration order in the contract).    *)
(***************************************************************************)
validatorsSlot              == 0
addressToIsValidatorSlot    == 1
addressToStakedAmountSlot   == 2
addressToValidatorIndexSlot == 3
stakedAmountSlot            == 4
minNumValidatorSlot         == 5
maxNumValidatorSlot         == 6

MappingSlots ==
  {addressToIsValidatorSlot, addressToStakedAmountSlot, addressToValidatorIndexSlot}

\* The inputs the code ever hashes: an (address, mapping slot) pair, or the
\* slot of the dynamic array alone.
Preimage == (Addr \X MappingSlots) \cup {<<validatorsSlot>>}

(***************************************************************************)
(* types.BytesToHash: a big-endian byte string longer than 32 bytes keeps  *)
(* its last 32 bytes, a shorter one is left-padded; as an integer that is  *)
(* the value modulo 2^256.  types.StringToHash of hex.EncodeBig(n) or of   *)
(* hex.EncodeUint64(n) decodes the hex digits back to the same big-endian  *)
(* bytes (an odd digit count gets a leading 0), so it is the same          *)
(* reduction.                                                              *)
(***************************************************************************)
BytesToHash(n) == n % WordSize

(***************************************************************************)
(* getAddressMapping: keccak(pad32(address) . pad32(slot)).                *)
(***************************************************************************)
getAddressMapping(address, slot) == Keccak256[<<address, slot>>]

\* Faulty offsets (a 1-based index; the offset dropped), mutants of
\* getIndexWithOffset.
getIndexWithOffsetOneBased(keccakHash, offset) == keccakHash + offset + 1
getIndexWithOffsetDropped(keccakHash, offset) == keccakHash

(***************************************************************************)
(* getIndexWithOffset: the hash read as an unsigned big integer plus the  *)
(* offset; big.Int.Bytes() of the sum is not truncated here, BytesToHash   *)
(* does that when the key is stored.                                       *)
(***************************************************************************)
getIndexWithOffset(keccakHash, offset) == keccakHash + offset

\* Faulty resolver (the index mapping keyed with the flag's slot, a
\* copy-paste slip), a mutant of getStorageIndexes.
getStorageIndexesSlotMix(address, index) ==
  [ AddressToIsValidatorIndex    |-> getAddressMapping(address, addressToIsValidatorSlot),
    AddressToStakedAmountIndex   |-> getAddressMapping(address, addressToStakedAmountSlot),
    AddressToValidatorIndexIndex |-> getAddressMapping(address, addressToIsValidatorSlot),
    StakedAmountIndex            |-> stakedAmountSlot,
    ValidatorsIndex              |-> getIndexWithOffset(Keccak256[<<validatorsSlot>>], index),
    ValidatorsArraySizeIndex     |-> validatorsSlot % 256 ]

(***************************************************************************)
(* getStorageIndexes: the keys one validator's bootstrap writes touch.     *)
(* StakedAmountIndex is big.NewInt(stakedAmountSlot).Bytes(); the array    *)
(* size key is []byte{byte(validatorsSlot)}, a one-byte truncation.        *)
(***************************************************************************)
getStorageIndexes(address, index) ==
  [ AddressToIsValidatorIndex    |-> getAddressMapping(address, addressToIsValidatorSlot),
    AddressToStakedAmountIndex   |-> getAddressMapping(address, addressToStakedAmountSlot),
    AddressToValidatorIndexIndex |-> getAddressMapping(address, addressToValidatorIndexSlot),
    StakedAmountIndex            |-> stakedAmountSlot,
    ValidatorsIndex              |-> getIndexWithOffset(Keccak256[<<validatorsSlot>>], index),
    ValidatorsArraySizeIndex     |-> validatorsSlot % 256 ]

(***************************************************************************)
(* Reference: where the Solidity storage layout puts each variable of the  *)
(* contract.  A value type lives at its slot; mapping(address => T) m at   *)
(* slot p keeps m[a] at keccak(a . p); a dynamic array at slot p keeps its *)
(* length at p and element i at keccak(p) + i, modulo 2^256.  These are    *)
(* the keys the contract bytecode reads, and the properties of the builder *)
(* are stated in terms of them, never of the code's helpers.               *)
(***************************************************************************)
ArrayBase               == Keccak256[<<validatorsSlot>>]
LengthKey               == validatorsSlot
ElemKey(i)              == (ArrayBase + i) % WordSize
IsValidatorKey(a)       == Keccak256[<<a, addressToIsValidatorSlot>>]
StakedAmountKey(a)      == Keccak256[<<a, addressToStakedAmountSlot>>]
ValidatorIndexKey(a)    == Keccak256[<<a, addressToValidatorIndexSlot>>]
TotalStakeKey           == stakedAmountSlot
MinKey                  == minNumValidatorSlot
MaxKey                  == maxNumValidatorSlot

ScalarKeys == {LengthKey, TotalStakeKey, MinKey, MaxKey}
MappingKeys == {Keccak256[p] : p \in Addr \X MappingSlots}
ElemKeys == {ElemKey(i) : i \in 0 .. MaxValidators - 1}

(***************************************************************************)
(* What the layout takes from Keccak-256: no collision among the keys one  *)
(* genesis can touch.  Two mapping entries never share a key, no mapping   *)
(* key is a small scalar slot, and the first MaxValidators array elements  *)
(* neither wrap around 2^256 nor hit a scalar or a mapping key.  For the   *)
(* real hash, keccak(0) = 0x290d...e563 is far from both ends of the word. *)
(***************************************************************************)
ASSUME KeyLayoutAssumption ==
  /\ WordBits \in Nat
  /\ WordSize \in Nat
  /\ WordSize > maxNumValidatorSlot
  /\ MaxValidators \in Nat
  /\ Keccak256 \in [Preimage -> Word]
  /\ \A p, q \in Addr \X MappingSlots : Keccak256[p] = Keccak256[q] => p = q
  /\ MappingKeys \cap ScalarKeys = {}
  /\ ArrayBase + MaxValidators <= WordSize
  /\ ElemKeys \cap (ScalarKeys \cup MappingKeys) = {}
=============================================================================
