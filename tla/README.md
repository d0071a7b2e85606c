# Verification of helper/staking (polygon-edge)

TLA+ models, TLC runs and TLAPS proofs for `src/helper/staking/staking.go`.
This is the code that builds the genesis account of the PoS staking contract.
It writes, without running the contract, the raw storage words that the
contract's bytecode will later read as its state.

## 1. Inventory

### Components

| Component | Code | State | Operations |
|---|---|---|---|
| Slot constants | `staking.go:105-114` | none (seven slot numbers) | none |
| Mapping-slot hasher | `getAddressMapping`, 28-42 | none | `keccak(pad32(addr) . pad32(slot))` |
| Array-slot hasher | `getIndexWithOffset`, 44-52 | none | `keccak(pad32(slot)) + index` as a big integer |
| Storage-index resolver | `getStorageIndexes`, 54-103 | none | the six keys of one validator |
| Genesis storage builder | `PredeployStakingSC`, 286-363 | `storageMap`, `stakedAmount`, the loop index, `stakingAccount` | setup; one loop iteration per validator; the count slots and return |
| Artifact loader | `loadFromFile`, `setABI`, `setBytecode`, `setDeployedBytecode`, `generateContractArtifact`, 122-244 | `contractArtifact{ABI, Bytecode, DeployedBytecode}`, the open file | open, read, unmarshal, three field setters |
| Constructor encoder / account from file | `encodeCustomConstructor`, `GenerateGenesisAccountFromFile`, 215-284 | none of its own | encode the constructor arguments, then call `state.GenerateContractAccount` |
| External collaborators | not in `src/` | | Keccak-256, hex, ABI, JSON, the trie and `state.GenerateContractAccount` |

### How the parts interact

Everything is plain synchronous calls, in one goroutine. `PredeployStakingSC`
calls `getStorageIndexes` once per validator. `getStorageIndexes` calls the two
hashers, and they read the slot constants. The writes all go to one Go map
(`storageMap`). After the loop the map is saved into the returned
`chain.GenesisAccount`, together with the balance. `GenerateGenesisAccountFromFile`
is a separate entry point. It chains the loader, the encoder and the external
`state.GenerateContractAccount`.

### What is hard here

Nothing runs concurrently, so the difficulty is not interleaving. It is exact
agreement with a layout fixed elsewhere (the Solidity storage rules):

* **Key derivation.** Each key must be the one the bytecode reads. Scalar keys
  are built two different ways (`[]byte{byte(slot)}` and
  `big.NewInt(slot).Bytes()`). Element keys are unbounded sums, reduced only
  when `BytesToHash` stores them.
* **Ordering in the loop.** The two aggregate slots (array length, total stake)
  are rewritten on every iteration. Each write must be the latest cumulative
  value, so the accumulation must come before the write.
* **Inputs nobody validates.** Duplicate addresses are not rejected. Counts are
  `uint64` values passed through `int64`.
* **Error paths of the loader.** Errors are swallowed (`encodeCustomConstructor`
  returns `nil`), missing fields cause panics, and the opened file is never
  closed.

### What makes each component correct

* Hashers and resolver: every key equals the Solidity layout key of the same
  variable. Keys of distinct variables never collide (given a collision-free
  hash).
* Builder: after each iteration, storage holds a consistent snapshot of the
  contract state for the prefix processed so far (spec.md section 3). The
  decoded state is a state the contract can rely on (array and index mapping
  form a bijection). The stored counts are the requested ones. The balance backs
  the total stake.
* Loader and encoder: a failure is returned as an error, never a panic and
  never a partial result. Every opened file is closed.

## 2. Plan

Ordered by importance. Items marked (done) are on disk.

1. **StakingLayout** (done): slot constants, the two hashers, the resolver,
   `BytesToHash`, and the reference Solidity layout (`ElemKey`,
   `IsValidatorKey`, ...). `KeyLayoutAssumption` holds what the layout needs of
   Keccak-256.
2. **PredeployStaking** (done): the builder as a state machine.
   **StakingContract** (done): the abstract contract state it promises.
   **MCPredeployStaking** with four cfgs (done).
3. **PredeployStakingProofs** (done for `TypeOK`, `PrefixSnapshot` and, for
   lists without repeats, `ContractStateConsistent`) and
   **PredeployStakingRefinement** (done: `Spec => Contract!Spec` and
   `StoredCountsMatch` under `SafeConstants`) and **PredeployStakingWrites**
   (done: the action property `OnlyAggregatesRewritten` for lists without
   repeats).
4. **ContractArtifact** (done) and **ContractArtifactProofs** (done): the
   loader and encoder control flow, over every file and collaborator outcome.
   The pass run checks that an account comes only from a fully loaded artifact,
   and that every call terminates. Three violation runs show the panics
   (lines 170/186/202), the swallowed encoding error (line 258) and the
   unclosed file (line 134).
5. **ByteEncoding** (not yet, TLC only). Byte-level models of
   `big.Int.Bytes`, `PadLeftOrTrim`, `byte(...)`, `BytesToHash`,
   `hex.EncodeUint64` / `StringToHash` over small inputs. These are checked
   against the word-level `BytesToHash` used by the other modules, so that the
   word abstraction is itself checked.

## 3. Modules

* `StakingLayout.tla`: constants `Addr`, `WordBits`, `Keccak256`,
  `MaxValidators`. `getAddressMapping`, `getIndexWithOffset` and
  `getStorageIndexes` translate the Go helpers. A 64-byte padded preimage is the
  tuple `<<address, slot>>` of the words it encodes. `ArrayBase`, `ElemKey`,
  `IsValidatorKey`, `StakedAmountKey`, `ValidatorIndexKey`, `LengthKey`,
  `TotalStakeKey`, `MinKey` and `MaxKey` are the Solidity layout rule, written
  independently of the code's helpers. The properties are stated with these.
* `PredeployStaking.tla`: variables `validators`, `params` (the arguments),
  `indx` (loop index), `stakedAmount`, `storageMap` (total over words, `Empty`
  for a missing key), `account` (`NoAccount` until the return).
  * `Init`: the state after lines 294-312.
  * `StakeValidator`: one loop iteration (lines 314-346). It accumulates, then
    makes the six writes in code order through `Put`, so a later write to the
    same key wins.
  * `Finish`: lines 348-362. The count slots go through `ToInt64` and
    `BigBytes`, then the account is built.
  * The stake literal is a constant whose parse cannot fail, so that error
    return is not an action.
* `StakingContract.tla`: the abstract contract state (`validatorSet`,
  `isValidator`, `stakedAmountOf`, `validatorIndexOf`, `stakedTotal`, counts,
  `balance`), with `Register` (the next list entry) and `Configure`.
  `PredeployStaking` maps its storage onto it by decoding the Solidity keys
  (`Contract == INSTANCE StakingContract WITH ...`).
* `MCPredeployStaking.tla`: a collision-free `MCKeccak256` table (mapping keys
  8..16, array from 20) and the input sets.
* `PredeployStakingProofs.tla`: lemmas and theorems.
* `PredeployStakingRefinement.tla`: the proof that the builder refines
  `StakingContract`, and that it stores the requested counts, under
  `SafeConstants`.
* `PredeployStakingWrites.tla`: the proof of the action property
  `OnlyAggregatesRewritten`.
* `ContractArtifact.tla`: `GenerateGenesisAccountFromFile` with the loader and
  encoder it calls. `pc` is the next step of the call. The other variables:
  * `fileOpen`: the `*os.File`;
  * `artifact`: the `contractArtifact` being filled;
  * `customBytecode`: the encoder's result;
  * `result`: the returned `(account, error)`;
  * `file`: fixed at `Init`. It records what each collaborator does with this
    file: `os.Open`, `ReadAll`, `json.Unmarshal`, the shape of each field,
    `abi.NewABI`, `abi.Encode` and `GenerateContractAccount`.

  `Init` is the state after `new(contractArtifact)`.

  Actions, in code order:
  * `Open`, `ReadAll` and `Unmarshal` (lines 134-147);
  * `SetABI` (167-181);
  * `SetBytecode` and `SetDeployedBytecode`, through `SetHexField` (183-213);
  * `Encode` (215-235);
  * `GenerateAccount` (257-284).

  Each action's error branch is the code's early return (`ReturnError`), or
  `Panic` where the code panics. A byte slice is a sequence of tokens, with
  nil as `<<>>`, so `append` is `\o`.
* `ContractArtifactProofs.tla`: its theorems.

## 4. Runs

The four builder runs use: 3 addresses, lists of at most 3, 5-bit words, 4-bit counts,
and a deposit of 3.

| Run | cfg | Expect | Shows |
|---|---|---|---|
| builder_any_list | PredeployStaking.cfg | pass | `TypeOK`, `PrefixSnapshot`, `StoredCountsMatch` and `ContractRefinement` hold for all lists, duplicates included, with counts below the int64 sign boundary |
| builder_distinct_list | DistinctValidators.cfg | pass | `ContractStateConsistent` and `OnlyAggregatesRewritten` hold for lists without duplicates |
| duplicate_validators | DuplicateValidators.cfg | violation | `<<a1, a1>>` leaves slot 0 holding a1 while its index entry says 1 |
| counts_sign_boundary | CountsSignBoundary.cfg | violation | count 15 (the 4-bit analogue of 2^64-1) is stored as 1 |
| artifact_loader | ContractArtifact.cfg | pass | `TypeOK`, `AccountFromCompleteArtifact` over all 1152 file outcomes (3424 states) |
| artifact_panics | ArtifactPanics.cfg | violation | a file without `contractABI` panics (`NoPanic`) |
| artifact_file_leak | ArtifactFileLeak.cfg | violation | the call returns with the file open (`FileClosedOnReturn`) |
| encoding_error_swallowed | EncodingErrorSwallowed.cfg | violation | a failed `abi.Encode` still yields an account with nil code (`NoAccountFromFailedEncoding`) |

The loader runs have no bound to choose. `Files` enumerates every
combination of collaborator outcomes:
* each of `os.Open`, `ReadAll` and `Unmarshal` succeeds or fails;
* `contractABI` is present or missing;
* each hex field is missing, bad hex, or hex;
* each of `abi.NewABI`, `abi.Encode` and the account creation succeeds or
  fails.

**Bounds.** Three addresses and lists of three cover every pattern of
repetition: no repeat, an adjacent repeat, a repeat at distance two, and a
triple. The 4-bit counts play the role of `uint64`. The pass runs take counts
below the sign bit, as the genesis command supplies (at most `MaxSafeJSInt`);
they include the largest such count, 7. The violation run takes counts on both
sides of the sign bit. Words are 5 bits so that all 4 scalar keys, 9 mapping
keys and 3 element keys fit without collision. Totals stay below 2^5, as
realistic totals stay below 2^256.

**Fairness.** The builder runs assume none: all their properties are safety
properties, and the builder is a terminating loop. The runs disable deadlock
checking because the function returns.

`ContractArtifact` assumes none either. The call is straight-line code in one
goroutine, so that it ends is plain from the code and is not checked. Deadlock
checking is off because the returned and panicked states are final.

**Mutants.** Each property of the pass runs is violated by one plausible slip:

* subtracting the deposit (`TypeOK`);
* a 1-based array offset (`PrefixSnapshot`);
* the balance set to one deposit (`ContractRefinement`);
* the two counts stored at each other's slot (`StoredCountsMatch`);
* the index mapping keyed with the flag's slot (`ContractStateConsistent`);
* the array offset dropped (`OnlyAggregatesRewritten`);
* the constructor arguments not appended (`TypeOK` of `ContractArtifact`);
* `setDeployedBytecode`'s error ignored (`AccountFromCompleteArtifact`).

## 5. Findings

* **Duplicate validators (spec gap).** The code accepts a list with a repeated
  address and produces storage where an array element's index entry points
  elsewhere, and the total stake counts two deposits for one staked address.
  `Staking.sol` removes a validator by its index entry, so the stale slot would
  survive an unstake. spec.md section 9 says each validator must occupy exactly
  one array slot; the code neither rejects nor deduplicates.
* **Counts at or above 2^63.** `big.NewInt(int64(count)).Bytes()` keeps the
  magnitude of the negative reinterpretation. The genesis command's default
  (`MaxSafeJSInt`) is safe, but `PredeployStakingSC` accepts any `uint64`.

* **Missing artifact field (spec divergence).** `setABI`, `setBytecode` and
  `setDeployedBytecode` panic when their key is absent or not a string. spec.md
  sections 6, 7 and 9 require a recoverable error.
* **Unclosed artifact file (code bug).** `loadFromFile` never closes the file it
  opens, on any path.
* **Swallowed encoding error (spec divergence).** `encodeCustomConstructor`
  returns nil on an ABI or encoding error. `GenerateGenesisAccountFromFile`
  then creates an account from the nil bytecode. spec.md section 7 says the
  error is propagated and no partial account is returned.
  `GenerateContractAccount` is external, so the model lets it succeed or fail
  on nil code. With empty init code, EVM contract creation succeeds.

## 6. Proofs

`PredeployStakingProofs` assumes `KeyLayoutAssumption` and
`BuilderAssumption`.

* `TypeCorrect` proves `Spec => []TypeOK` from `Init => TypeOK`, one lemma per
  action, and the lemmas `BytesToHashType` and `PutType`.
* `PrefixSnapshotHolds` proves `Spec => []PrefixSnapshot`. It holds for every
  list, duplicates included, every deposit and every word width.
  * `PrefixSnapshot` alone is not inductive. An iteration writes the running
    total, so the invariant must say that total is `indx` deposits. The count
    slots are written by `Finish`, so it must say that the account exists only
    once `indx` has reached the end of the list. `SnapshotInv` adds both
    conjuncts (TLC checks it too).
  * The argument rests on layout lemmas:
    * `CodeKeysAreLayoutKeys`: `getStorageIndexes` then `BytesToHash` gives
      exactly the Solidity key of each variable. `byte(0)` and the unhashed
      slot numbers normalise to the raw slots.
    * `ElemKeyFacts`, `ElemKeyInjective`, `MappingKeyFacts`,
      `MappingKeyInjective`, `ScalarKeyFacts`: keys of distinct variables
      differ.
  * `StakeValidatorStorage` follows: the six writes of one iteration land on
    six distinct keys and leave every other word alone. Then
    `StakeValidatorSnapshot` and `FinishSnapshot` make one step per action.
    Under each, one step per conjunct the action can disturb: the aggregates,
    the entries of earlier validators (untouched unless the same address
    recurs), and the keys nobody wrote.
* `ContractStateConsistentHolds` proves `Spec => []ContractStateConsistent`
  under the hypothesis `DistinctInputs`: no list in `Inputs` repeats an
  address. The run `duplicate_validators` shows the hypothesis cannot be
  dropped. The proof reuses `SnapshotInv`, through the lemma
  `SnapshotInvariant`, and decodes it:
  * `SmallIndexWord`: positions up to `MaxValidators` are words, because the
    array base is not slot 0.
  * `SnapshotReads`: the length reads back as `indx`, and each written
    position reads back as its element, flag and index. Without repeats every
    position is the last occurrence of its address.
  * `FlaggedIsListed`: a flagged address is in the list. The flag's key is
    written, and by the layout lemmas it can only be the flag key of a listed
    address.
* `ContractRefinementHolds`, in `PredeployStakingRefinement`, proves
  `Spec => ContractRefinement`: the builder implements `StakingContract`
  under the mapping `DArray`, `DFlag`, `DStake`, `DIndex`, `DBalance` and
  the reads of the scalar slots (all defined in `PredeployStaking`). It holds
  for every list, duplicates included. Its hypothesis `SafeConstants` says
  the numbers fit. `MaxValidators` deposits fit in a word, so the stored total
  is not reduced. Every count is below 2^(CountBits-1) and below 2^WordBits,
  so `int64` and `BytesToHash` keep it. The run `counts_sign_boundary` shows
  that the count bound cannot be dropped. The proof has one lemma per step
  kind, all from `SnapshotInv`:
  * `InitRefines`: the empty map decodes to the empty contract.
  * `StakeValidatorRefines`: an iteration is `Register`. `UntouchedKeys`
    shows that it leaves alone the earlier elements, the entries of other
    addresses and the count slots. `StakeValidatorStorage` gives the six
    written keys. `AggregateReads` and `IterationWords` give the decoded
    length and total. Together they make the array an `Append` and the
    mappings `EXCEPT`s.
  * `FinishRefines`: the return is `Configure`. `CountRoundTrip` takes a
    count through `BigBytes(ToInt64(c))`, and the balance is the stored
    total.
  * `StutterRefines`: a stuttering step maps to a stuttering step.
* The only hypothesis on Keccak-256 is `KeyLayoutAssumption`. It is collision
  freedom on the keys one genesis touches: the mapping keys of distinct
  (address, slot) pairs, the scalar slots 0, 4, 5 and 6, and the first
  `MaxValidators` array elements, with no wrap past 2^256.

`PredeployStakingWrites` proves the action property.
* `OnlyAggregatesRewrittenHolds` proves `Spec => OnlyAggregatesRewritten`
  under `DistinctInputs`. The run `builder_distinct_list` checks the same
  property. With a repeated address, the second iteration rewrites that
  address's index entry, so the hypothesis is needed. The argument is one
  step lemma, `StepAggregatesOnly`, from `SnapshotInv`:
  * a key that holds a value is in `WrittenKeys`, by `PrefixSnapshot`;
  * `FreshIterationKeys`: an iteration writes six keys. Apart from the two
    aggregates, none of them is in `WrittenKeys`. The element key is past
    every written position. By `WrittenMappingKey`, a written mapping key
    belongs to an address already visited, and the new validator is not
    one of those;
  * `CountSlotsFresh`: the count slots are empty until the return.
  The last step joins `[]SnapshotInv` with the step lemma, by PTL.

`PredeployStakingRefinement` also proves `StoredCountsMatchHolds`:
`Spec => []StoredCountsMatch` under `SafeConstants`.
* The inductive invariant `CountsInv` says that, once the account exists,
  each count slot holds `BytesToHash(BigBytes(ToInt64(c)))`. It is
  inductive given `TypeOK`, because nothing runs after the return.
* `CountRoundTrip` then reduces that expression to `c`.
* The violation run `counts_sign_boundary` shows that the int64 bound in
  `SafeConstants` cannot be dropped.

`ContractArtifactProofs` needs no assumption.
* `ArtifactTypeCorrect` proves `Spec => []TypeOK`.
* `AccountFromCompleteArtifactHolds` proves
  `Spec => []AccountFromCompleteArtifact`, through `ArtifactInv`. That
  invariant ties each `pc` to the fields already set, and to the shapes of the
  file that let the call get there. `NextInv` has one case per action.
  `StutterSnapshot`, in `PredeployStakingProofs`, does the same for the
  builder's stuttering step.

No liveness property is checked, and none is needed. Out of the prover's
reach, and left to TLC: anything about RECURSIVE operators (none in the
proved modules). Every
safety invariant and action property of the pass runs is now also a
theorem. Each theorem holds for every value of the constants that satisfies
its stated hypothesis (`DistinctInputs`, `SafeConstants`).

## 7. Not modelled

* The contract bytecode blob: opaque, passed through unchanged.
* Keccak-256, hex, ABI and JSON codecs, and the trie: external; Keccak-256 is
  the constant `Keccak256`.
* What `abi.Encode` makes of the wrapped argument list (line 258 passes
  `constructorParams` without `...`): the encoder is external, so only its
  success or failure is modelled.
