----------------------- MODULE ContractArtifactProofs -----------------------
(***************************************************************************)
(* Proofs about GenerateGenesisAccountFromFile (ContractArtifact): the     *)
(* type invariant, and that an account is only ever returned from an      *)
(* artifact whose three fields were all decoded and stored.                *)
(***************************************************************************)
EXTENDS ContractArtifact, TLAPS

\* Decoded blobs and the appended bytecode are distinct from nil.
LEMMA BlobFacts ==
  /\ Appended(Decoded.Bytecode) # Nil
  /\ \A f \in Fields : Decoded[f] # Nil
  /\ Appended(Decoded.Bytecode) \in Codes
  /\ Nil \in Codes
  BY DEF Appended, Decoded, Nil, Constructor, Codes, Fields

\* Storing a decoded field keeps the artifact's type.
LEMMA FieldUpdateType ==
  ASSUME NEW a \in [Fields -> {Nil} \cup {Decoded[g] : g \in Fields}],
         NEW f \in Fields
  PROVE  [a EXCEPT ![f] = Decoded[f]] \in [Fields -> {Nil} \cup {Decoded[g] : g \in Fields}]
  OBVIOUS

\* The result records are told apart by their kind.
LEMMA ResultFacts ==
  /\ ~IsAccount(NoResult) /\ ~IsAccount(ErrResult)
  /\ \A c : IsAccount(Account(c)) /\ Account(c).code = c
  BY DEF IsAccount, NoResult, ErrResult, Account

\* Every step of the call keeps ArtifactInv.
LEMMA NextInv == ArtifactInv /\ [Next]_vars => ArtifactInv'
<1> SUFFICES ASSUME ArtifactInv, [Next]_vars PROVE ArtifactInv'
  OBVIOUS
<1> USE BlobFacts
<1> USE ResultFacts
<1> USE DEF ArtifactInv, TypeOK, Labels, Files, FieldShapes, ReturnError, Panic
<1>1. CASE Open
  <2>1. CASE file.opens /\ fileOpen' = TRUE /\ pc' = "read" /\ UNCHANGED result
    BY <1>1, <2>1 DEF Open
  <2>2. CASE ~file.opens /\ ReturnError /\ UNCHANGED fileOpen
    BY <1>1, <2>2 DEF Open
  <2> QED
    BY <1>1, <2>1, <2>2 DEF Open
<1>2. CASE ReadAll
  BY <1>2 DEF ReadAll
<1>3. CASE Unmarshal
  BY <1>3 DEF Unmarshal
<1>4. CASE SetABI
  <2>1. "ABI" \in Fields
    BY DEF Fields
  <2> QED
    BY <1>4, <2>1, FieldUpdateType DEF SetABI
<1>5. CASE SetBytecode
  BY <1>5 DEF SetBytecode, SetHexField, Fields, Decoded
<1>6. CASE SetDeployedBytecode
  BY <1>6 DEF SetDeployedBytecode, SetHexField, Fields, Decoded
<1>7. CASE Encode
  BY <1>7 DEF Encode
<1>8. CASE GenerateAccount
  <2>1. result' \in {ErrResult, NoResult} \cup {Account(c) : c \in Codes}
    BY <1>8 DEF GenerateAccount
  <2>2. IsAccount(result') => result'.code = customBytecode
    BY <1>8, ResultFacts DEF GenerateAccount
  <2>3. \A f \in Fields : artifact[f] = Decoded[f]
    BY <1>8 DEF GenerateAccount, Fields
  <2> QED
    BY <1>8, <2>1, <2>2, <2>3 DEF GenerateAccount
<1>9. CASE UNCHANGED vars
  BY <1>9 DEF vars
<1> QED
  BY <1>1, <1>2, <1>3, <1>4, <1>5, <1>6, <1>7, <1>8, <1>9 DEF Next

\* The initial state satisfies ArtifactInv.
LEMMA InitInv == Init => ArtifactInv
<1> SUFFICES ASSUME Init PROVE ArtifactInv
  OBVIOUS
<1>1. TypeOK
  BY BlobFacts DEF Init, TypeOK, Labels
<1>2. ~IsAccount(result)
  BY ResultFacts DEF Init
<1> QED
  BY <1>1, <1>2, BlobFacts DEF Init, ArtifactInv

(***************************************************************************)
(* Type correctness of the call's state, for every file outcome.           *)
(***************************************************************************)
THEOREM ArtifactTypeCorrect == Spec => []TypeOK
<1>1. ArtifactInv => TypeOK
  BY DEF ArtifactInv
<1> QED
  BY InitInv, NextInv, <1>1, PTL DEF Spec

(***************************************************************************)
(* GenerateGenesisAccountFromFile returns an account only from a fully     *)
(* loaded artifact, with the deployment bytecode (plus the constructor     *)
(* arguments, or nil) as its code: no error of the loader is lost.         *)
(***************************************************************************)
THEOREM AccountFromCompleteArtifactHolds == Spec => []AccountFromCompleteArtifact
<1>1. ArtifactInv => AccountFromCompleteArtifact
  BY DEF ArtifactInv, AccountFromCompleteArtifact
<1> QED
  BY InitInv, NextInv, <1>1, PTL DEF Spec
=============================================================================
