------------------------------ MODULE RagCache ------------------------------
(***************************************************************************)
(* The document server of the action module                                *)
(* (code/Reasoning/Action_mcp/rag_server.py): at start it loads its vector *)
(* index from the storage directory when the signature saved there is that *)
(* of the documents, and otherwise builds it and saves index and           *)
(* signature.                                                              *)
(*                                                                         *)
(* Servers share one storage directory (nothing passes --persist-dir), can *)
(* be killed at any point, and the user edits the documents and settings   *)
(* at any time.  Documents and settings are abstracted to a version: two   *)
(* signatures are equal exactly when the versions are.                     *)
(***************************************************************************)
EXTENDS Integers

CONSTANTS
    Servers,
    Reverts,            \* may the user go back to an earlier version?
    MaxVersion          \* bound on the versions of the documents

Versions == 0..MaxVersion
Missing == -1           \* a file that does not exist
Torn == -2              \* a file cut off in the middle of a write

ASSUME BoundAssumption == MaxVersion \in Nat
ASSUME RevertsAssumption == Reverts \in BOOLEAN

VARIABLES
    source,             \* source[s]: version of the documents of s
    docstore, vectors,  \* the two halves of the persisted index
    metadata,           \* the signature in cache_metadata.json
    pc, sig,            \* where each server is; its current_signature
    rag_index,          \* the index in memory: its documents and vectors
    seen,               \* versions the documents have had since it started
    answer              \* the index the last answer of the server came from

disk == <<docstore, vectors, metadata>>
vars == <<source, disk, pc, sig, rag_index, seen, answer>>

NoIndex == [docs |-> Missing, vecs |-> Missing]

Init ==
    /\ source = [s \in Servers |-> 0]
    /\ docstore = Missing /\ vectors = Missing /\ metadata = Missing
    /\ pc = [s \in Servers |-> "down"]
    /\ sig = [s \in Servers |-> Missing]
    /\ rag_index = [s \in Servers |-> NoIndex]
    /\ seen = [s \in Servers |-> {}]
    /\ answer = [s \in Servers |-> NoIndex]

-----------------------------------------------------------------------------
(* initialize_rag_resources, step by step.                                 *)

Goto(s, from, to) == pc[s] = from /\ pc' = [pc EXCEPT ![s] = to]

Start(s) ==
    /\ Goto(s, "down", "sign")
    /\ seen' = [seen EXCEPT ![s] = {source[s]}]
    /\ rag_index' = [rag_index EXCEPT ![s] = NoIndex]
    /\ answer' = [answer EXCEPT ![s] = NoIndex]
    /\ UNCHANGED <<source, disk, sig>>

(* _generate_cache_signature.                                              *)
Sign(s) ==
    /\ Goto(s, "sign", "validate")
    /\ sig' = [sig EXCEPT ![s] = source[s]]
    /\ UNCHANGED <<source, disk, rag_index, seen, answer>>

(* is_cache_valid: a missing or unreadable file is no valid cache.         *)
AnyMetadata(s) == metadata >= 0                                 \* mutant
CacheValid(s) == metadata = sig[s]

AwaitMetadata(s) ==                                             \* mutant
    /\ metadata # Torn
    /\ Goto(s, "validate", IF CacheValid(s) THEN "load" ELSE "build")
    /\ UNCHANGED <<source, disk, sig, rag_index, seen, answer>>

Validate(s) ==
    /\ Goto(s, "validate", IF CacheValid(s) THEN "load" ELSE "build")
    /\ UNCHANGED <<source, disk, sig, rag_index, seen, answer>>

(* Loading checks neither half of the index against the other.             *)
Load(s) ==
    /\ docstore >= 0 /\ vectors >= 0
    /\ Goto(s, "load", "serving")
    /\ rag_index' = [rag_index EXCEPT ![s] = [docs |-> docstore,
                                              vecs |-> vectors]]
    /\ UNCHANGED <<source, disk, sig, seen, answer>>

LoadFails(s) ==         \* an index that is incomplete, or any other reason
    /\ Goto(s, "load", "build")
    /\ UNCHANGED <<source, disk, sig, rag_index, seen, answer>>

Build(s) ==             \* read the documents, make the index
    /\ Goto(s, "build", "persist")
    /\ rag_index' = [rag_index EXCEPT ![s] = [docs |-> source[s],
                                              vecs |-> source[s]]]
    /\ UNCHANGED <<source, disk, sig, seen, answer>>

(* storage_context.persist writes one file after the other.                *)
PersistDocs(s) ==
    /\ Goto(s, "persist", "vectors")
    /\ docstore' = rag_index[s].docs
    /\ UNCHANGED <<source, vectors, metadata, sig, rag_index, seen, answer>>

PersistVectors(s) ==
    /\ Goto(s, "vectors", "truncate")
    /\ vectors' = rag_index[s].vecs
    /\ UNCHANGED <<source, docstore, metadata, sig, rag_index, seen, answer>>

Truncate(s) ==          \* open(metadata_path, 'w')
    /\ Goto(s, "truncate", "dump")
    /\ metadata' = Torn
    /\ UNCHANGED <<source, docstore, vectors, sig, rag_index, seen, answer>>

DumpSignature(s) ==     \* json.dump, and run_server_main_logic goes on
    /\ Goto(s, "dump", "serving")
    /\ metadata' = sig[s]
    /\ UNCHANGED <<source, docstore, vectors, sig, rag_index, seen, answer>>

-----------------------------------------------------------------------------
(* The tool of a running server, its end, and the user.                    *)

retrieve_document_chunks(s) ==
    /\ pc[s] = "serving"
    /\ answer' = [answer EXCEPT ![s] = rag_index[s]]
    /\ UNCHANGED <<source, disk, pc, sig, rag_index, seen>>

(* The client closes the server, it is killed, or an exception ends it     *)
(* (documents that cannot be read, a full disk).  A file that it was       *)
(* writing may be torn.                                                    *)
Stop(s) ==
    /\ pc[s] # "down"
    /\ pc' = [pc EXCEPT ![s] = "down"]
    /\ docstore' = docstore \/ (pc[s] = "persist" /\ docstore' = Torn)
    /\ vectors' = vectors \/ (pc[s] = "vectors" /\ vectors' = Torn)
    /\ UNCHANGED <<source, metadata, sig, rag_index, seen, answer>>

Edit(s) ==
    /\ \E v \in Versions :
           /\ v > source[s] \/ (Reverts /\ v # source[s])
           /\ source' = [source EXCEPT ![s] = v]
           /\ seen' = [seen EXCEPT ![s] = @ \cup {v}]
    /\ UNCHANGED <<disk, pc, sig, rag_index, answer>>

Initialize(s) == \/ Sign(s) \/ Validate(s) \/ Load(s) \/ LoadFails(s)
                 \/ Build(s) \/ PersistDocs(s) \/ PersistVectors(s)
                 \/ Truncate(s) \/ DumpSignature(s)

Next == \E s \in Servers : \/ Start(s) \/ Initialize(s)
                           \/ retrieve_document_chunks(s)
                           \/ Stop(s) \/ Edit(s)

Spec == Init /\ [][Next]_vars

(* A server that is not stopped goes on with its initialization.           *)
FairSpec == Spec /\ \A s \in Servers : WF_vars(Initialize(s))

-----------------------------------------------------------------------------
(* Properties.                                                             *)

Files == Versions \cup {Missing, Torn}
Index == [docs : Versions \cup {Missing}, vecs : Versions \cup {Missing}]
Labels == {"down", "sign", "validate", "load", "build", "persist", "vectors",
           "truncate", "dump", "serving"}

(* Every variable has its type.                                            *)
TypeOK ==
    /\ source \in [Servers -> Versions]
    /\ docstore \in Files /\ vectors \in Files /\ metadata \in Files
    /\ pc \in [Servers -> Labels]
    /\ sig \in [Servers -> Versions \cup {Missing}]
    /\ rag_index \in [Servers -> Index]
    /\ seen \in [Servers -> SUBSET Versions]
    /\ answer \in [Servers -> Index]

(* Every answer of a server comes from documents that it has had since it  *)
(* started: an edit before the start, or a crash of an earlier server at   *)
(* any point of saving its index, never makes it answer from an old index. *)
(* (One server at a time, and the documents never return to an earlier     *)
(* version.)                                                               *)
FreshAnswers ==
    \A s \in Servers : answer[s] # NoIndex =>
        answer[s].docs \in seen[s] /\ answer[s].vecs = answer[s].docs

(* A server that has started comes to serve, unless it is stopped: a cache *)
(* it cannot load never keeps it from building the index.                  *)
Settles == \A s \in Servers : pc[s] = "sign" ~> pc[s] \in {"serving", "down"}

-----------------------------------------------------------------------------
(* Inductive strengthening of FreshAnswers, for one server and no reverts. *)

(* What the index holds, when the saved signature names version v.         *)
IndexIs(v) == docstore \in {v, Torn} /\ vectors \in {v, Torn}

(* A saved signature never names a later version than the documents have,  *)
(* and if it names the version they have, so do both halves of the index,  *)
(* unless torn.                                                            *)
CacheInv(s) ==
    /\ metadata <= source[s]
    /\ metadata = source[s] => IndexIs(metadata)

(* What a server knows at each step of its initialization.                 *)
StepInv(s) ==
    /\ pc[s] \in {"validate", "load"} =>
           /\ sig[s] \in seen[s]
           /\ metadata = sig[s] => IndexIs(sig[s])
    /\ pc[s] = "load" => metadata = sig[s]
    /\ pc[s] \in {"validate", "load", "build", "persist", "vectors",
                  "truncate", "dump"} =>
           sig[s] \in 0..source[s] /\ metadata <= sig[s]
    /\ pc[s] \in {"persist", "vectors", "truncate", "dump", "serving"} =>
           /\ rag_index[s].docs \in seen[s]
           /\ rag_index[s].vecs = rag_index[s].docs
    /\ pc[s] \in {"persist", "vectors", "truncate", "dump"} =>
           rag_index[s].docs \in sig[s]..source[s]
    /\ pc[s] \in {"vectors", "truncate", "dump"} =>
           docstore = rag_index[s].docs
    /\ pc[s] \in {"truncate", "dump"} => vectors = rag_index[s].vecs
    /\ pc[s] # "down" => source[s] \in seen[s]

IndInv == TypeOK /\ FreshAnswers /\ \A s \in Servers : CacheInv(s) /\ StepInv(s)
=============================================================================
