--------------------------- MODULE SigningProofs ---------------------------
(***************************************************************************)
(* Proofs about Signing for any set of processes and any number of         *)
(* crashes: types, that the key file settles, and that every document is   *)
(* accepted everywhere if no two first starts raced.  That a document is   *)
(* read back as it was signed is a theorem of MultibaseProofs.             *)
(***************************************************************************)
EXTENDS Signing, MultibaseProofs

\* A process that has got that far has one of the keys generated.
KeysOwned ==
  \A p \in Workers : Creates(p) \/ Writes(p) \/ Serves(p) => worker[p].key \in 1..generated

\* What is written in a document is its signature.
Readable == \A d \in documents : Decode(d.value) = d.bytes

\* Without a race, the one process that makes the key file is alone with it, and
\* everything else has the key that is in the file.
MakerAlone ==
  \A p \in Workers :
    /\ Creates(p) => keyFile = Missing /\ \A q \in Workers \ {p} : ~Creates(q)
    /\ Writes(p) => keyFile = Torn
    /\ Writes(p) => \A q \in Workers \ {p} : ~Creates(q) /\ ~Writes(q)

OneKey ==
  /\ \A p \in Workers : Serves(p) => worker[p].key = keyFile
  /\ \A d \in documents : d.signer = keyFile

\* TypeOK without the documents.
StartTypes ==
  /\ tables \subseteq Tables
  /\ keyFile \in {Missing, Torn} \cup 1..generated
  /\ generated \in Nat
  /\ worker \in [Workers -> Worker]
  /\ crashes \in 0..MaxCrashes
  /\ raced \in BOOLEAN
  /\ cutShort \in BOOLEAN

StartInv == StartTypes /\ KeysOwned

Inv == TypeOK /\ KeysOwned /\ Readable /\ (raced \/ (MakerAlone /\ OneKey))

-----------------------------------------------------------------------------
(* Types *)

\* What a start step leaves in the process that takes it is a state of a process.
LEMMA WorkerStates ==
  ASSUME NEW t \in SUBSET Tables, NEW k \in Nat
  PROVE  /\ Down \in Worker
         /\ [Down EXCEPT !.step = "tables", !.todo = t] \in Worker
         /\ [Down EXCEPT !.step = "serving", !.key = k] \in Worker
         /\ [Down EXCEPT !.step = "creating", !.key = k] \in Worker
BY DEF Down, Worker, Steps, Missing

LEMMA StartTypesKept ==
  ASSUME StartTypes, KeysOwned, [Next]_vars
  PROVE  StartTypes'
<1>1. ASSUME NEW p \in Workers, Boot(p) PROVE StartTypes'
  <2>1. TablesToDo(tables) \in SUBSET Tables
    BY DEF TablesToDo
  <2>2. QED
    BY <1>1, <2>1, WorkerStates DEF Boot, StartTypes
<1>2. ASSUME NEW p \in Workers, CreateTable(p) PROVE StartTypes'
  <2>1. PICK table \in worker[p].todo :
          /\ tables' = tables \cup {table}
          /\ worker' = [worker EXCEPT ![p] =
               IF table \in tables THEN Down
               ELSE [worker[p] EXCEPT !.todo = worker[p].todo \ {table}]]
    BY <1>2 DEF CreateTable
  <2>2. worker[p] \in Worker /\ table \in Tables
    BY DEF Worker, StartTypes
  <2>3. [worker[p] EXCEPT !.todo = worker[p].todo \ {table}] \in Worker
    BY <2>2 DEF Worker
  <2>4. Down \in Worker
    BY DEF Down, Worker, Steps, Missing
  <2>5. worker' \in [Workers -> Worker]
    BY <2>1, <2>3, <2>4 DEF StartTypes
  <2>6. QED
    BY <1>2, <2>1, <2>2, <2>5 DEF CreateTable, StartTypes
<1>3. ASSUME NEW p \in Workers, LoadKey(p) PROVE StartTypes'
  <2>1. keyFile # Torn => keyFile \in Nat
    BY <1>3 DEF StartTypes, Missing
  <2>2. worker' \in [Workers -> Worker]
    <3>1. CASE keyFile = Torn
      BY <1>3, <3>1, WorkerStates DEF LoadKey, StartTypes
    <3>2. CASE keyFile # Torn
      BY <1>3, <3>2, <2>1, WorkerStates DEF LoadKey, StartTypes
    <3>3. QED
      BY <3>1, <3>2
  <2>3. QED
    BY <1>3, <2>2 DEF LoadKey, StartTypes
<1>4. ASSUME NEW p \in Workers, GenerateKey(p) PROVE StartTypes'
  <2>1. generated + 1 \in Nat /\ 1..generated \subseteq 1..(generated + 1)
    BY DEF StartTypes
  <2>2. worker' \in [Workers -> Worker]
    BY <1>4, <2>1, WorkerStates DEF GenerateKey, StartTypes
  <2>3. raced' \in BOOLEAN
    BY <1>4 DEF GenerateKey, StartTypes
  <2>4. QED
    BY <1>4, <2>1, <2>2, <2>3 DEF GenerateKey, StartTypes
<1>5. ASSUME NEW p \in Workers, TruncateKeyFile(p) PROVE StartTypes'
  BY <1>5 DEF TruncateKeyFile, StartTypes, Worker, Steps
<1>6. ASSUME NEW p \in Workers, WriteKeyFile(p) PROVE StartTypes'
  BY <1>6 DEF WriteKeyFile, StartTypes, KeysOwned, Writes, Worker, Steps
<1>7. ASSUME NEW p \in Workers, Crash(p) PROVE StartTypes'
  <2>1. worker' \in [Workers -> Worker]
    BY <1>7, WorkerStates DEF Crash, StartTypes
  <2>2. cutShort' \in BOOLEAN
    BY <1>7 DEF Crash, StartTypes
  <2>3. crashes' \in 0..MaxCrashes
    BY <1>7, SigningAssumption DEF Crash, StartTypes
  <2>4. QED
    BY <1>7, <2>1, <2>2, <2>3 DEF Crash, StartTypes
<1>8. ASSUME NEW p \in Workers, Sign(p) PROVE StartTypes'
  BY <1>8 DEF Sign, StartTypes
<1>9. CASE UNCHANGED vars
  BY <1>9 DEF vars, StartTypes
<1>q. QED
  BY <1>1, <1>2, <1>3, <1>4, <1>5, <1>6, <1>7, <1>8, <1>9 DEF Next, Start

\* What is written in a signed document is a value.
LEMMA DocumentsKept ==
  ASSUME KeysOwned, generated \in Nat, documents \subseteq Document, [Next]_vars
  PROVE  (documents \subseteq Document)'
<1>1. ASSUME NEW p \in Workers, Sign(p) PROVE documents' \subseteq Document
  <2>1. PICK form \in Forms, bytes \in Signatures :
          documents' = documents \cup
            {[signer |-> worker[p].key, bytes |-> bytes, value |-> Encode(form, bytes)]}
    BY <1>1 DEF Sign
  <2>2. Encode(form, bytes) \in Value
    BY SigningAssumption, EncodingsRoundTrip
  <2>3. worker[p].key \in Nat \ {0}
    BY <1>1 DEF Sign, KeysOwned
  <2>4. QED
    BY <2>1, <2>2, <2>3 DEF Document
<1>2. QED
  BY <1>1 DEF Next, Start, Boot, CreateTable, LoadKey, GenerateKey, TruncateKeyFile,
              WriteKeyFile, Crash, vars

-----------------------------------------------------------------------------
(* The key of a process, and the documents *)

\* Only the process that moves changes its state, and to what.
LEMMA Moves ==
  ASSUME StartTypes, NEW p \in Workers, Start(p) \/ Crash(p) \/ Sign(p)
  PROVE  /\ \A q \in Workers \ {p} : worker'[q] = worker[q]
         /\ Sign(p) => worker'[p] = worker[p]
         /\ Boot(p) => worker'[p].step = "tables"
         /\ CreateTable(p) => worker'[p].step \in {"tables", "down"}
         /\ LoadKey(p) => \/ worker'[p].step = "down"
                          \/ keyFile # Torn /\ worker'[p].step = "serving"
                                            /\ worker'[p].key = keyFile
         /\ GenerateKey(p) => worker'[p].step = "creating" /\ worker'[p].key = generated + 1
         /\ TruncateKeyFile(p) => worker'[p].step = "writing" /\ worker'[p].key = worker[p].key
         /\ WriteKeyFile(p) => worker'[p].step = "serving" /\ worker'[p].key = worker[p].key
         /\ Crash(p) => worker'[p].step = "down"
<1> USE DEF StartTypes
<1>1. worker[p] \in Worker
  OBVIOUS
<1>2. CASE Boot(p)
  BY <1>2 DEF Boot, CreateTable, LoadKey, GenerateKey, TruncateKeyFile, WriteKeyFile,
              Crash, Sign, Creates, Writes, Serves, Down
<1>3. CASE CreateTable(p)
  BY <1>1, <1>3 DEF Boot, CreateTable, LoadKey, GenerateKey, TruncateKeyFile, WriteKeyFile,
              Crash, Sign, Creates, Writes, Serves, Down, Worker
<1>4. CASE LoadKey(p)
  BY <1>4 DEF Boot, CreateTable, LoadKey, GenerateKey, TruncateKeyFile, WriteKeyFile,
              Crash, Sign, Creates, Writes, Serves, Down
<1>5. CASE GenerateKey(p)
  BY <1>5 DEF Boot, CreateTable, LoadKey, GenerateKey, TruncateKeyFile, WriteKeyFile,
              Crash, Sign, Creates, Writes, Serves, Down
<1>6. CASE TruncateKeyFile(p)
  BY <1>1, <1>6 DEF Boot, CreateTable, LoadKey, GenerateKey, TruncateKeyFile, WriteKeyFile,
              Crash, Sign, Creates, Writes, Serves, Down, Worker
<1>7. CASE WriteKeyFile(p)
  BY <1>1, <1>7 DEF Boot, CreateTable, LoadKey, GenerateKey, TruncateKeyFile, WriteKeyFile,
              Crash, Sign, Creates, Writes, Serves, Down, Worker
<1>8. CASE Crash(p)
  BY <1>8 DEF Crash, Down, Boot, CreateTable, LoadKey, GenerateKey, TruncateKeyFile,
              WriteKeyFile, Sign
<1>9. CASE Sign(p)
  BY <1>9 DEF Boot, CreateTable, LoadKey, GenerateKey, TruncateKeyFile, WriteKeyFile,
              Crash, Sign, Creates, Writes, Serves, Down
<1>q. QED
  BY <1>2, <1>3, <1>4, <1>5, <1>6, <1>7, <1>8, <1>9 DEF Start

LEMMA KeysOwnedKept ==
  ASSUME StartTypes, KeysOwned, [Next]_vars
  PROVE  KeysOwned'
<1>1. CASE UNCHANGED vars
  BY <1>1 DEF vars, KeysOwned, Creates, Writes, Serves
<1>2. ASSUME NEW p \in Workers, Start(p) \/ Crash(p) \/ Sign(p) PROVE KeysOwned'
  <2>1. generated' \in Nat /\ 1..generated \subseteq 1..generated'
    BY <1>2 DEF Start, Boot, CreateTable, LoadKey, GenerateKey, TruncateKeyFile,
                WriteKeyFile, Crash, Sign, StartTypes
  <2>2. \A q \in Workers \ {p} : worker'[q] = worker[q]
    BY <1>2, Moves
  <2>3. Creates(p)' \/ Writes(p)' \/ Serves(p)' => worker'[p].key \in 1..generated'
    <3>1. CASE Boot(p) \/ CreateTable(p) \/ Crash(p)
      BY <1>2, <3>1, Moves DEF Creates, Writes, Serves
    <3>2. CASE LoadKey(p)
      BY <1>2, <3>2, <2>1, Moves DEF Creates, Writes, Serves, LoadKey, Exists, StartTypes
    <3>3. CASE GenerateKey(p)
      <4>1. worker'[p].key = generated + 1 /\ generated' = generated + 1
        BY <1>2, <3>3, Moves DEF GenerateKey
      <4>2. QED
        BY <4>1 DEF StartTypes
    <3>4. CASE TruncateKeyFile(p) \/ WriteKeyFile(p)
      <4>1. worker'[p].key = worker[p].key /\ (Creates(p) \/ Writes(p))
        BY <1>2, <3>4, Moves DEF TruncateKeyFile, WriteKeyFile
      <4>2. QED
        BY <4>1, <2>1 DEF KeysOwned
    <3>5. CASE Sign(p)
      BY <1>2, <3>5, <2>1, Moves DEF KeysOwned, Creates, Writes, Serves
    <3>6. QED
      BY <1>2, <3>1, <3>2, <3>3, <3>4, <3>5 DEF Start
  <2>4. QED
    BY <2>1, <2>2, <2>3 DEF KeysOwned, Creates, Writes, Serves
<1>3. QED
  BY <1>1, <1>2 DEF Next

LEMMA ReadableKept ==
  ASSUME Readable, [Next]_vars
  PROVE  Readable'
<1>1. CASE UNCHANGED documents
  BY <1>1 DEF Readable
<1>2. ASSUME NEW p \in Workers, Sign(p) PROVE Readable'
  <2>1. PICK form \in Forms, bytes \in Signatures :
          documents' = documents \cup
            {[signer |-> worker[p].key, bytes |-> bytes, value |-> Encode(form, bytes)]}
    BY <1>2 DEF Sign
  <2>2. Decode(Encode(form, bytes)) = bytes
    BY SigningAssumption, EncodingsRoundTrip
  <2>3. QED
    BY <2>1, <2>2 DEF Readable
<1>3. QED
  BY <1>1, <1>2 DEF Next, Start, Boot, CreateTable, LoadKey, GenerateKey, TruncateKeyFile,
                    WriteKeyFile, Crash, vars

-----------------------------------------------------------------------------
(* One key *)

\* The step of one process, by what it does to the file and to its own state.
LEMMA OneKeyKept ==
  ASSUME Inv, [Next]_vars, ~raced'
  PROVE  MakerAlone' /\ OneKey'
<1>r. ~raced
  BY DEF Next, Start, Boot, CreateTable, LoadKey, GenerateKey, TruncateKeyFile,
         WriteKeyFile, Crash, Sign, vars
<1>a. MakerAlone /\ OneKey /\ TypeOK /\ KeysOwned /\ StartTypes
  BY <1>r DEF Inv, TypeOK, StartTypes
<1>1. CASE UNCHANGED vars
  BY <1>1, <1>a DEF vars, MakerAlone, OneKey, Creates, Writes, Serves
<1>2. ASSUME NEW p \in Workers, Start(p) \/ Crash(p) \/ Sign(p)
      PROVE  MakerAlone' /\ OneKey'
  <2> USE <1>a, <1>2
  <2>s. \A q \in Workers \ {p} : worker'[q] = worker[q]
    BY Moves
  <2>k. \A q \in Workers : Serves(q) => worker[q].key \in 1..generated
    BY DEF KeysOwned
  <2>n. keyFile \in {Missing, Torn} => documents = {} /\ \A q \in Workers : ~Serves(q)
    <3>1. Missing \notin 1..generated /\ Torn \notin 1..generated
          /\ Missing \notin Nat \ {0} /\ Torn \notin Nat \ {0}
      BY DEF Missing, Torn, TypeOK
    <3>2. \A d \in documents : d.signer \in Nat \ {0}
      BY DEF TypeOK, Document
    <3>3. QED
      BY <2>k, <3>1, <3>2 DEF OneKey
  <2>1. CASE Boot(p) \/ CreateTable(p) \/ Crash(p)
    <3>1. worker'[p].step \in {"tables", "down"}
      BY <2>1, Moves
    <3>2. UNCHANGED <<keyFile, documents>>
      BY <2>1 DEF Boot, CreateTable, Crash
    <3>3. QED
      BY <2>s, <3>1, <3>2 DEF MakerAlone, OneKey, Creates, Writes, Serves
  <2>2. CASE LoadKey(p)
    <3>1. worker'[p].step = "serving" => worker'[p].key = keyFile
      BY <2>2, Moves
    <3>2. worker'[p].step \in {"down", "serving"} /\ UNCHANGED <<keyFile, documents>>
      BY <2>2, Moves DEF LoadKey
    <3>3. QED
      BY <2>s, <3>1, <3>2 DEF MakerAlone, OneKey, Creates, Writes, Serves
  <2>3. CASE GenerateKey(p)
    <3>1. keyFile = Missing /\ \A q \in Workers : ~Creates(q)
      BY <2>3, <1>r DEF GenerateKey, Exists
    <3>2. \A q \in Workers : ~Writes(q)
      BY <3>1 DEF MakerAlone, Missing, Torn
    <3>3. worker'[p].step = "creating" /\ UNCHANGED <<keyFile, documents>>
      BY <2>3, Moves DEF GenerateKey
    <3>4. QED
      BY <2>s, <2>n, <3>1, <3>2, <3>3 DEF MakerAlone, OneKey, Creates, Writes, Serves
  <2>4. CASE TruncateKeyFile(p)
    <3>1. Creates(p) /\ keyFile' = Torn /\ worker'[p].step = "writing"
          /\ UNCHANGED documents
      BY <2>4, Moves DEF TruncateKeyFile
    <3>2. keyFile = Missing /\ \A q \in Workers \ {p} : ~Creates(q)
      BY <3>1 DEF MakerAlone
    <3>3. \A q \in Workers : ~Writes(q)
      BY <3>2 DEF MakerAlone, Missing, Torn
    <3>4. QED
      BY <2>s, <2>n, <3>1, <3>2, <3>3 DEF MakerAlone, OneKey, Creates, Writes, Serves
  <2>5. CASE WriteKeyFile(p)
    <3>1. Writes(p) /\ keyFile' = worker[p].key /\ worker'[p].step = "serving"
          /\ worker'[p].key = worker[p].key /\ UNCHANGED documents
      BY <2>5, Moves DEF WriteKeyFile
    <3>2. keyFile = Torn /\ \A q \in Workers \ {p} : ~Creates(q) /\ ~Writes(q)
      BY <3>1 DEF MakerAlone
    <3>3. QED
      BY <2>s, <2>n, <3>1, <3>2 DEF MakerAlone, OneKey, Creates, Writes, Serves
  <2>6. CASE Sign(p)
    <3>1. worker'[p] = worker[p] /\ UNCHANGED keyFile /\ Serves(p)
      BY <2>6, Moves DEF Sign
    <3>2. \A d \in documents' : d \in documents \/ d.signer = worker[p].key
      BY <2>6 DEF Sign
    <3>3. QED
      BY <2>s, <3>1, <3>2 DEF MakerAlone, OneKey, Creates, Writes, Serves
  <2>7. QED
    BY <2>1, <2>2, <2>3, <2>4, <2>5, <2>6 DEF Start
<1>3. QED
  BY <1>1, <1>2 DEF Next

LEMMA Initially == ASSUME Init PROVE Inv
<1> USE DEF Init
<1>1. Down \in Worker
  BY DEF Down, Worker, Steps, Missing
<1>2. TypeOK
  <2>1. crashes \in 0..MaxCrashes /\ generated \in Nat
    BY SigningAssumption
  <2>2. worker \in [Workers -> Worker] /\ tables \subseteq Tables /\ documents \subseteq Document
    BY <1>1
  <2>3. QED
    BY <2>1, <2>2 DEF TypeOK
<1>3. \A p \in Workers : ~Creates(p) /\ ~Writes(p) /\ ~Serves(p)
  BY DEF Creates, Writes, Serves, Down
<1>4. QED
  BY <1>2, <1>3 DEF Inv, KeysOwned, Readable, MakerAlone, OneKey

LEMMA Invariance == Spec => []Inv
<1>1. Init => Inv
  BY Initially
<1>2. Inv /\ [Next]_vars => Inv'
  <2> SUFFICES ASSUME Inv, [Next]_vars PROVE Inv'
    OBVIOUS
  <2>1. StartTypes' /\ KeysOwned'
    BY StartTypesKept, KeysOwnedKept DEF Inv, TypeOK, StartTypes
  <2>2. TypeOK' /\ Readable'
    BY <2>1, DocumentsKept, ReadableKept DEF Inv, TypeOK, StartTypes
  <2>3. raced' \/ (MakerAlone' /\ OneKey')
    BY OneKeyKept
  <2>4. QED
    BY <2>1, <2>2, <2>3 DEF Inv
<1>3. QED
  BY <1>1, <1>2, PTL DEF Spec

\* Of the start nothing depends on what the encodings do.
LEMMA StartInvariance == Spec => []StartInv
<1>1. Init => StartInv
  BY Initially DEF Inv, TypeOK, StartInv, StartTypes
<1>2. StartInv /\ [Next]_vars => StartInv'
  BY StartTypesKept, KeysOwnedKept DEF StartInv
<1>3. QED
  BY <1>1, <1>2, PTL DEF Spec

-----------------------------------------------------------------------------
(* Theorems *)

\* Types: in particular a process that serves has a key, and a document is signed
\* with one and has a value written in it, for any processes, crashes and signatures.
THEOREM Types == Spec => []TypeOK
<1>1. Inv => TypeOK
  BY DEF Inv
<1>2. QED
  BY <1>1, Invariance, PTL

\* Whatever any process has signed, every process accepts, whenever each of them
\* started and however often they ended, unless two starts found no key file
\* (load_or_create_private_key, verify_document_proof).
THEOREM Acceptance == Spec => []AllAccept
<1>1. Inv => AllAccept
  BY DEF Inv, AllAccept, OneKey, Readable, Accepts, Verifies
<1>2. QED
  BY <1>1, Invariance, PTL

\* The key file, once there with nobody about to write it, is never written again,
\* also not after a race, and not if it is torn (the exists() of the start).
THEOREM KeyFileStays == Spec => KeyFileSettles
<1>1. StartInv /\ [Next]_vars => [Settled => Settled' /\ UNCHANGED keyFile]_vars
  <2> SUFFICES ASSUME StartInv, Next, Settled PROVE Settled' /\ UNCHANGED keyFile
    BY DEF vars, Settled, Creates, Writes
  <2>1. PICK p \in Workers : Start(p) \/ Crash(p) \/ Sign(p)
    BY DEF Next
  <2>2. StartTypes /\ ~Creates(p) /\ ~Writes(p) /\ keyFile # Missing
    BY DEF Settled, StartInv
  <2>3. UNCHANGED keyFile
    BY <2>1, <2>2 DEF Start, Boot, CreateTable, LoadKey, GenerateKey, TruncateKeyFile,
                      WriteKeyFile, Crash, Sign
  <2>4. ~GenerateKey(p) /\ ~TruncateKeyFile(p) /\ ~WriteKeyFile(p)
    BY <2>2 DEF GenerateKey, Exists, TruncateKeyFile, WriteKeyFile
  <2>5. ~Creates(p)' /\ ~Writes(p)'
    BY <2>1, <2>2, <2>4, Moves DEF Start, Creates, Writes
  <2>6. \A q \in Workers \ {p} : worker'[q] = worker[q]
    BY <2>1, <2>2, Moves
  <2>7. QED
    BY <2>3, <2>5, <2>6 DEF Settled, Creates, Writes
<1>2. QED
  BY <1>1, StartInvariance, PTL DEF Spec, KeyFileSettles
=============================================================================
