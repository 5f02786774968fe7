------------------------------ MODULE Signing ------------------------------
(***************************************************************************)
(* The start of the registry's processes, which share one key file and one *)
(* database: the tables that create_all makes, the key that is loaded or   *)
(* else made and saved, and the documents signed with it afterwards.       *)
(*                                                                         *)
(* A process may end at any step and is started again.  Nothing holds a    *)
(* lock: two processes may find the file missing, and a file may be read   *)
(* between its truncation and its writing.                                 *)
(***************************************************************************)
EXTENDS Multibase, FiniteSets

CONSTANTS
  Workers,       \* processes of the registry
  Signatures,    \* what a signature may be, as bytes
  MaxDocuments,  \* bound: documents signed
  MaxCrashes     \* bound: processes that end

ASSUME SigningAssumption ==
  /\ IsFiniteSet(Workers)
  /\ Signatures \subseteq Seq(Byte)
  /\ MaxDocuments \in Nat /\ MaxCrashes \in Nat

VARIABLES
  tables,     \* tables of the database
  keyFile,    \* REGISTRY_KEY_PATH
  generated,  \* number of keys made so far, which are numbered from 1
  worker,     \* where each process is
  documents,  \* what the registry has signed and handed out
  crashes,    \* number of processes that have ended
  raced,      \* history: two processes have found no key file
  cutShort    \* history: a process has ended between truncation and write

vars == <<tables, keyFile, generated, worker, documents, crashes, raced, cutShort>>

Tables == {"agent", "consumedvoucher"}

\* Contents of the key file that are no key.
Missing == 0
Torn == -1

Steps == {"down", "tables", "creating", "writing", "serving"}

\* todo are the tables it is about to create, key the key in its memory.
Worker == [step : Steps, todo : SUBSET Tables, key : Nat]

Down == [step |-> "down", todo |-> {}, key |-> Missing]

\* A signed document: by which key, its signature, and what is written in it.
Document == [signer : Nat \ {0}, bytes : Signatures, value : Value]

Init ==
  /\ tables = {}
  /\ keyFile = Missing
  /\ generated = 0
  /\ worker = [p \in Workers |-> Down]
  /\ documents = {}
  /\ crashes = 0
  /\ raced = FALSE
  /\ cutShort = FALSE

-----------------------------------------------------------------------------
(* lifespan *)

Creates(p) == worker[p].step = "creating"
Writes(p) == worker[p].step = "writing"
Serves(p) == worker[p].step = "serving"

\* create_all first looks which tables are there, or does not.
TablesUnseen(present) == Tables
TablesToDo(present) == Tables \ present

Boot(p) ==
  /\ worker[p].step = "down"
  /\ worker' = [worker EXCEPT ![p] = [Down EXCEPT !.step = "tables",
                                                  !.todo = TablesToDo(tables)]]
  /\ UNCHANGED <<tables, keyFile, generated, documents, crashes, raced, cutShort>>

\* CREATE TABLE fails, and the start with it, if another process was faster.
CreateTable(p) ==
  /\ worker[p].step = "tables"
  /\ \E table \in worker[p].todo :
       /\ tables' = tables \cup {table}
       /\ worker' = [worker EXCEPT ![p] =
            IF table \in tables THEN Down
            ELSE [worker[p] EXCEPT !.todo = worker[p].todo \ {table}]]
  /\ UNCHANGED <<keyFile, generated, documents, crashes, raced, cutShort>>

\* path.exists()
ExistsComplete(file) == file \notin {Missing, Torn}
Exists(file) == file # Missing

\* There is a file: it is loaded, and if it is torn the start fails.
LoadKey(p) ==
  /\ worker[p].step = "tables" /\ worker[p].todo = {}
  /\ Exists(keyFile)
  /\ worker' = [worker EXCEPT ![p] =
       IF keyFile = Torn THEN Down
       ELSE [Down EXCEPT !.step = "serving", !.key = keyFile]]
  /\ UNCHANGED <<tables, keyFile, generated, documents, crashes, raced, cutShort>>

\* There is none: a new key.
GenerateKey(p) ==
  /\ worker[p].step = "tables" /\ worker[p].todo = {}
  /\ ~Exists(keyFile)
  /\ generated' = generated + 1
  /\ worker' = [worker EXCEPT ![p] = [Down EXCEPT !.step = "creating",
                                                  !.key = generated + 1]]
  /\ raced' = (raced \/ \E q \in Workers : Creates(q))
  /\ UNCHANGED <<tables, keyFile, documents, crashes, cutShort>>

\* write_bytes truncates the file, whatever is in it now, and then writes it.
TruncateKeyFile(p) ==
  /\ Creates(p)
  /\ keyFile' = Torn
  /\ worker' = [worker EXCEPT ![p].step = "writing"]
  /\ UNCHANGED <<tables, generated, documents, crashes, raced, cutShort>>

WriteKeyFile(p) ==
  /\ Writes(p)
  /\ keyFile' = worker[p].key
  /\ worker' = [worker EXCEPT ![p].step = "serving"]
  /\ UNCHANGED <<tables, generated, documents, crashes, raced, cutShort>>

Start(p) ==
  \/ Boot(p) \/ CreateTable(p)
  \/ LoadKey(p) \/ GenerateKey(p) \/ TruncateKeyFile(p) \/ WriteKeyFile(p)

Crash(p) ==
  /\ worker[p].step # "down"
  /\ crashes < MaxCrashes
  /\ crashes' = crashes + 1
  /\ cutShort' = (cutShort \/ Writes(p))
  /\ worker' = [worker EXCEPT ![p] = Down]
  /\ UNCHANGED <<tables, keyFile, generated, documents, raced>>

-----------------------------------------------------------------------------
(* Documents *)

\* A charter, a status list or a token; an earlier version wrote its proofs
\* in the legacy form.
Sign(p) ==
  /\ Serves(p)
  /\ Cardinality(documents) < MaxDocuments
  /\ \E form \in Forms, bytes \in Signatures :
       documents' = documents \cup
         {[signer |-> worker[p].key, bytes |-> bytes, value |-> Encode(form, bytes)]}
  /\ UNCHANGED <<tables, keyFile, generated, worker, crashes, raced, cutShort>>

\* A document verifies with a key if what its value decodes to is the signature the
\* key made.  Process p uses its key in POST /verify and publishes it in did.json.
Verifies(key, d) == d.signer = key /\ Decode(d.value) = d.bytes
Accepts(p, d) == Verifies(worker[p].key, d)

Next == \E p \in Workers : Start(p) \/ Crash(p) \/ Sign(p)

Spec == Init /\ [][Next]_vars

\* A process that is down is started again, and a start goes on until it fails or
\* serves: nothing in it waits for another process.
FairSpec == Spec /\ \A p \in Workers : WF_vars(Start(p))

-----------------------------------------------------------------------------
(* Correctness *)

TypeOK ==
  /\ tables \subseteq Tables
  /\ keyFile \in {Missing, Torn} \cup 1..generated
  /\ generated \in Nat
  /\ worker \in [Workers -> Worker]
  /\ documents \subseteq Document
  /\ crashes \in 0..MaxCrashes
  /\ raced \in BOOLEAN
  /\ cutShort \in BOOLEAN

\* Whatever any process has signed, every process accepts, and so does everyone who
\* has the DID document from one, also after restarts: unless two starts have found
\* no key file ("the root of all trust ... auto-generation can race", README).
AllAccept ==
  \/ raced
  \/ \A p \in Workers, d \in documents : Serves(p) => Accepts(p, d)

\* Without a start under way that found no file, the file stays as it is for good,
\* a key or the half of one: no later start replaces the registry's key.
Settled == keyFile # Missing /\ \A p \in Workers : ~Creates(p) /\ ~Writes(p)
KeyFileSettles == [][Settled => Settled' /\ UNCHANGED keyFile]_vars

\* In the end every process serves, however they got in each other's way when they
\* created tables and read a key file being written; unless one of them ended in the
\* middle of writing it, after which no start succeeds any more.
ServesAgain ==
  \/ <>[](\A p \in Workers : Serves(p))
  \/ <>[](keyFile = Torn /\ cutShort)
=============================================================================
