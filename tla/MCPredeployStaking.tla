------------------------ MODULE MCPredeployStaking ------------------------
(***************************************************************************)
(* Model-checking instance of PredeployStaking: three addresses, lists of *)
(* up to three validators, 5-bit words and 4-bit counts.                   *)
(***************************************************************************)
EXTENDS PredeployStaking

\* A numbering of the addresses, used only to lay out the hash table.
AddrNumber ==
  CHOOSE f \in [Addr -> 0 .. Cardinality(Addr) - 1] :
    \A x, y \in Addr : f[x] = f[y] => x = y

(***************************************************************************)
(* A collision-free Keccak256 on the preimages: mapping keys 8 .. 16,      *)
(* the array at 20 .. 20 + MaxValidators - 1, away from the scalar slots.  *)
(***************************************************************************)
MCKeccak256 ==
  [p \in Preimage |->
     IF p = <<validatorsSlot>> THEN 20
     ELSE 8 + 3 * AddrNumber[p[1]] + (p[2] - addressToIsValidatorSlot)]

\* Every list of at most MaxValidators addresses.
MCAllInputs == UNION {[1 .. n -> Addr] : n \in 0 .. MaxValidators}

\* The lists without a repeated address.
MCDistinctInputs ==
  {s \in MCAllInputs : \A i, j \in DOMAIN s : s[i] = s[j] => i = j}

\* Counts below 2^(CountBits-1), as the genesis command passes (at most
\* MaxSafeJSInt < 2^63), including the largest one.
MCSafeCounts == {0, 1, 2^(CountBits - 1) - 1}

\* Counts on both sides of the int64 sign boundary.
MCAllCounts == {1, 2^(CountBits - 1) - 1, 2^(CountBits - 1), 2^CountBits - 1}
=============================================================================
