-------------------------- MODULE ContractArtifact --------------------------
(***************************************************************************)
(* GenerateGenesisAccountFromFile (helper/staking/staking.go): load a      *)
(* contract artifact from a JSON file (loadFromFile and its three field    *)
(* setters), append the ABI-encoded constructor arguments to its bytecode  *)
(* (encodeCustomConstructor), and create the genesis account from that     *)
(* bytecode (state.GenerateContractAccount).  One action per step of the   *)
(* call, in the order of the code; pc names the step about to run.         *)
(*                                                                         *)
(* Data abstraction.  The file and the external codecs are the variable    *)
(* file, fixed for the call: what os.Open, ioutil.ReadAll, json.Unmarshal, *)
(* the two hex decodes, abi.NewABI, abi.Encode and GenerateContractAccount *)
(* will do with it.  A byte slice is a sequence of tokens: a decoded field *)
(* is Decoded[f], the encoded constructor arguments are Constructor, and   *)
(* nil is the empty sequence.                                              *)
(***************************************************************************)
EXTENDS Sequences

\* The fields of contractArtifact and what each holds once it is set.
Fields == {"ABI", "Bytecode", "DeployedBytecode"}
Nil == <<>>
Decoded == [ABI |-> <<"abi">>, Bytecode |-> <<"initcode">>,
            DeployedBytecode |-> <<"runtime">>]
Constructor == <<"ctor">>
\* append(c.Bytecode, constructor...)
Appended(b) == b \o Constructor

\* jsonMap[key].(string) for a hex field: absent or not a string, a string
\* hex.DecodeString rejects, or a hex string.
FieldShapes == {"missing", "badHex", "hex"}

\* Everything the call's outcome depends on.
Files ==
  [ opens       : BOOLEAN,               \* os.Open succeeds
    readable    : BOOLEAN,               \* ioutil.ReadAll succeeds
    json        : BOOLEAN,               \* json.Unmarshal into a map succeeds
    contractABI : {"missing", "present"},
    bytecode    : FieldShapes,
    deployed    : FieldShapes,           \* the "deployedBytecode" key
    abiParses   : BOOLEAN,               \* abi.NewABI(string(c.ABI)) succeeds
    argsEncode  : BOOLEAN,               \* abi.Encode(params, ...) succeeds
    accountOk   : BOOLEAN ]              \* state.GenerateContractAccount succeeds

\* The returned (account, error) pair.
NoResult == [kind |-> "none", code |-> Nil]
ErrResult == [kind |-> "err", code |-> Nil]
Account(code) == [kind |-> "account", code |-> code]
IsAccount(r) == r.kind = "account"

Labels == {"open", "read", "unmarshal", "setABI", "setBytecode",
           "setDeployedBytecode", "encode", "generate", "returned", "panicked"}

VARIABLES
  file,            \* the artifact file and the collaborators' behaviour on it
  pc,              \* the next step of the call
  fileOpen,        \* the *os.File of loadFromFile is open
  artifact,        \* the contractArtifact being filled
  customBytecode,  \* the result of encodeCustomConstructor
  result           \* what GenerateGenesisAccountFromFile returned

vars == <<file, pc, fileOpen, artifact, customBytecode, result>>

Init ==
  /\ file \in Files
  /\ pc = "open"
  /\ fileOpen = FALSE
  /\ artifact = [f \in Fields |-> Nil]
  /\ customBytecode = Nil
  /\ result = NoResult

\* An error return that travels up to GenerateGenesisAccountFromFile, which
\* returns nil and the error.
ReturnError == result' = ErrResult /\ pc' = "returned"

\* panic("bad"): the goroutine, and with it the process, stops.
Panic == pc' = "panicked" /\ UNCHANGED result

\* os.Open(filepath); on success the file stays open (no Close anywhere).
Open ==
  /\ pc = "open"
  /\ \/ file.opens /\ fileOpen' = TRUE /\ pc' = "read" /\ UNCHANGED result
     \/ ~file.opens /\ ReturnError /\ UNCHANGED fileOpen
  /\ UNCHANGED <<file, artifact, customBytecode>>

\* ioutil.ReadAll(file)
ReadAll ==
  /\ pc = "read"
  /\ \/ file.readable /\ pc' = "unmarshal" /\ UNCHANGED result
     \/ ~file.readable /\ ReturnError
  /\ UNCHANGED <<file, fileOpen, artifact, customBytecode>>

\* json.Unmarshal(bytes, &fileJSON)
Unmarshal ==
  /\ pc = "unmarshal"
  /\ \/ file.json /\ pc' = "setABI" /\ UNCHANGED result
     \/ ~file.json /\ ReturnError
  /\ UNCHANGED <<file, fileOpen, artifact, customBytecode>>

(***************************************************************************)
(* setABI: a missing "contractABI" key panics.  json.Marshal of a value    *)
(* json.Unmarshal produced cannot fail, so its error return is not taken.  *)
(***************************************************************************)
SetABI ==
  /\ pc = "setABI"
  /\ \/ file.contractABI = "missing" /\ Panic /\ UNCHANGED artifact
     \/ /\ file.contractABI = "present"
        /\ artifact' = [artifact EXCEPT !.ABI = Decoded.ABI]
        /\ pc' = "setBytecode"
        /\ UNCHANGED result
  /\ UNCHANGED <<file, fileOpen, customBytecode>>

(***************************************************************************)
(* setBytecode and setDeployedBytecode: the type assertion to string       *)
(* panics when the key is absent or not a string; a failed hex decode is   *)
(* returned; otherwise the decoded bytes are stored in field f.            *)
(***************************************************************************)
SetHexField(shape, f, next) ==
  \/ shape = "missing" /\ Panic /\ UNCHANGED artifact
  \/ shape = "badHex" /\ ReturnError /\ UNCHANGED artifact
  \/ /\ shape = "hex"
     /\ artifact' = [artifact EXCEPT ![f] = Decoded[f]]
     /\ pc' = next
     /\ UNCHANGED result

SetBytecode ==
  /\ pc = "setBytecode"
  /\ SetHexField(file.bytecode, "Bytecode", "setDeployedBytecode")
  /\ UNCHANGED <<file, fileOpen, customBytecode>>

\* Faulty loader (the error of setDeployedBytecode dropped), a mutant of
\* SetDeployedBytecode.
SetDeployedBytecodeIgnoreError ==
  /\ pc = "setDeployedBytecode"
  /\ \/ SetHexField(file.deployed, "DeployedBytecode", "encode")
     \/ file.deployed = "badHex" /\ pc' = "encode" /\ UNCHANGED <<artifact, result>>
  /\ UNCHANGED <<file, fileOpen, customBytecode>>

\* The last setter; on success loadFromFile returns nil and
\* generateContractArtifact returns the artifact.
SetDeployedBytecode ==
  /\ pc = "setDeployedBytecode"
  /\ SetHexField(file.deployed, "DeployedBytecode", "encode")
  /\ UNCHANGED <<file, fileOpen, customBytecode>>

\* Faulty encoder (the constructor arguments not appended), a mutant of
\* Encode.
EncodeNoAppend ==
  /\ pc = "encode"
  /\ customBytecode' = IF file.abiParses /\ file.argsEncode
                         THEN artifact.Bytecode ELSE Nil
  /\ pc' = "generate"
  /\ UNCHANGED <<file, fileOpen, artifact, result>>

(***************************************************************************)
(* encodeCustomConstructor: either failure (abi.NewABI, abi.Encode) is     *)
(* swallowed and nil returned; otherwise the bytecode with the encoded     *)
(* arguments appended.                                                     *)
(***************************************************************************)
Encode ==
  /\ pc = "encode"
  /\ \/ ~(file.abiParses /\ file.argsEncode) /\ customBytecode' = Nil
     \/ file.abiParses /\ file.argsEncode
        /\ customBytecode' = Appended(artifact.Bytecode)
  /\ pc' = "generate"
  /\ UNCHANGED <<file, fileOpen, artifact, result>>

\* state.GenerateContractAccount(config, ..., customBytecode) and return.
GenerateAccount ==
  /\ pc = "generate"
  /\ \/ file.accountOk /\ result' = Account(customBytecode)
     \/ ~file.accountOk /\ result' = ErrResult
  /\ pc' = "returned"
  /\ UNCHANGED <<file, fileOpen, artifact, customBytecode>>

Next ==
  \/ Open \/ ReadAll \/ Unmarshal
  \/ SetABI \/ SetBytecode \/ SetDeployedBytecode
  \/ Encode \/ GenerateAccount

\* The call as a single goroutine runs it; only safety is checked.
Spec == Init /\ [][Next]_vars

-----------------------------------------------------------------------------
\* What encodeCustomConstructor may return: nil, or a bytecode with the
\* constructor arguments appended.
Codes == {Nil} \cup {Appended(b) : b \in {Nil, Decoded.Bytecode}}

\* Type invariant.
TypeOK ==
  /\ file \in Files
  /\ pc \in Labels
  /\ fileOpen \in BOOLEAN
  /\ artifact \in [Fields -> {Nil} \cup {Decoded[f] : f \in Fields}]
  /\ customBytecode \in Codes
  /\ result \in {ErrResult, NoResult} \cup {Account(c) : c \in Codes}

(***************************************************************************)
(* An account is returned only from a completely loaded artifact: all      *)
(* three fields of the file decoded and stored, and the account's code     *)
(* either the deployment bytecode (not the deployed one) followed by the   *)
(* constructor arguments, or nil.  It fails if an error of loadFromFile or *)
(* of a setter is lost, or encodeCustomConstructor uses the wrong field.   *)
(***************************************************************************)
AccountFromCompleteArtifact ==
  IsAccount(result) =>
    /\ file.bytecode = "hex" /\ file.deployed = "hex"
    /\ \A f \in Fields : artifact[f] = Decoded[f]
    /\ result.code \in {Nil, Appended(Decoded.Bytecode)}

(***************************************************************************)
(* spec.md section 7: artifact-loading errors are recoverable errors and   *)
(* never abort the process.  setABI, setBytecode and setDeployedBytecode   *)
(* panic on a missing field.                                               *)
(***************************************************************************)
NoPanic == pc # "panicked"

(***************************************************************************)
(* The file loadFromFile opens is closed by the time the call returns;     *)
(* loadFromFile has no Close, so each call leaks a descriptor.             *)
(***************************************************************************)
FileClosedOnReturn == pc = "returned" => ~fileOpen

(***************************************************************************)
(* spec.md section 7: an encoding error is propagated and no partial       *)
(* account is returned.  encodeCustomConstructor returns nil on an ABI or  *)
(* encoding error and GenerateGenesisAccountFromFile goes on with it.     *)
(***************************************************************************)
NoAccountFromFailedEncoding ==
  IsAccount(result) => result.code # Nil

(***************************************************************************)
(* Inductive strengthening of AccountFromCompleteArtifact: the fields are  *)
(* filled in the order of the setters, each from a well-formed value, and *)
(* the encoded bytecode is built from the loaded deployment bytecode.      *)
(***************************************************************************)
ArtifactInv ==
  /\ TypeOK
  /\ pc \in {"setBytecode", "setDeployedBytecode", "encode", "generate"} =>
        artifact.ABI = Decoded.ABI
  /\ pc \in {"setDeployedBytecode", "encode", "generate"} =>
        artifact.Bytecode = Decoded.Bytecode /\ file.bytecode = "hex"
  /\ pc \in {"encode", "generate"} =>
        artifact.DeployedBytecode = Decoded.DeployedBytecode /\ file.deployed = "hex"
  /\ customBytecode \in {Nil, Appended(Decoded.Bytecode)}
  /\ IsAccount(result) =>
        pc = "returned" /\ result.code = customBytecode /\
        file.bytecode = "hex" /\ file.deployed = "hex" /\
        \A f \in Fields : artifact[f] = Decoded[f]
=============================================================================
