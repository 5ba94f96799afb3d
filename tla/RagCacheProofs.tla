---------------------------- MODULE RagCacheProofs ----------------------------
(***************************************************************************)
(* Proofs about RagCache, for any number of versions of the documents.     *)
(***************************************************************************)
EXTENDS RagCache, TLAPS

(* An index in memory: Load and Build make one, the rest keep it.          *)
LEMMA IndexType ==
    ASSUME NEW d \in Versions \cup {Missing}, NEW v \in Versions \cup {Missing}
    PROVE  [docs |-> d, vecs |-> v] \in Index
BY DEF Index

LEMMA InitType == Init => TypeOK
<1> SUFFICES ASSUME Init PROVE TypeOK
    OBVIOUS
<1>1. NoIndex \in Index
    BY IndexType DEF NoIndex
<1>2. QED
    BY <1>1, BoundAssumption DEF Init, TypeOK, Versions, Files, Labels

(* The steps of a server, one by one.                                      *)
LEMMA StepType == TypeOK /\ [Next]_vars => TypeOK'
<1> SUFFICES ASSUME TypeOK, [Next]_vars PROVE TypeOK'
    OBVIOUS
<1>0. NoIndex \in Index
    BY IndexType DEF NoIndex
<1> USE DEF TypeOK, Goto, disk, Labels
<1>1. ASSUME NEW s \in Servers, Start(s) PROVE TypeOK'
    BY <1>0, <1>1 DEF Start
<1>2. ASSUME NEW s \in Servers, Sign(s) PROVE TypeOK'
    BY <1>2 DEF Sign
<1>3. ASSUME NEW s \in Servers, Validate(s) PROVE TypeOK'
    BY <1>3 DEF Validate
<1>4. ASSUME NEW s \in Servers, Load(s) PROVE TypeOK'
  <2>1. docstore \in Versions /\ vectors \in Versions
    BY <1>4 DEF Load, Files, Missing, Torn
  <2>2. [docs |-> docstore, vecs |-> vectors] \in Index
    BY <2>1, IndexType
  <2>3. QED
    BY <1>4, <2>2 DEF Load
<1>5. ASSUME NEW s \in Servers, LoadFails(s) PROVE TypeOK'
    BY <1>5 DEF LoadFails
<1>6. ASSUME NEW s \in Servers, Build(s) PROVE TypeOK'
  <2>1. [docs |-> source[s], vecs |-> source[s]] \in Index
    BY IndexType
  <2>2. QED
    BY <1>6, <2>1 DEF Build
<1>7. ASSUME NEW s \in Servers, PersistDocs(s) PROVE TypeOK'
    BY <1>7 DEF PersistDocs, Files, Index
<1>8. ASSUME NEW s \in Servers, PersistVectors(s) PROVE TypeOK'
    BY <1>8 DEF PersistVectors, Files, Index
<1>9. ASSUME NEW s \in Servers, Truncate(s) PROVE TypeOK'
    BY <1>9 DEF Truncate, Files
<1>10. ASSUME NEW s \in Servers, DumpSignature(s) PROVE TypeOK'
    BY <1>10 DEF DumpSignature, Files
<1>11. ASSUME NEW s \in Servers, retrieve_document_chunks(s) PROVE TypeOK'
    BY <1>11 DEF retrieve_document_chunks
<1>12. ASSUME NEW s \in Servers, Stop(s) PROVE TypeOK'
    BY <1>12 DEF Stop, Files
<1>13. ASSUME NEW s \in Servers, Edit(s) PROVE TypeOK'
    BY <1>13 DEF Edit
<1>14. CASE UNCHANGED vars
    BY <1>14 DEF vars
<1> QED
    BY <1>1, <1>2, <1>3, <1>4, <1>5, <1>6, <1>7, <1>8, <1>9, <1>10, <1>11,
       <1>12, <1>13, <1>14 DEF Next, Initialize

(* Every variable keeps its type, with any number of servers.              *)
THEOREM TypeCorrect == Spec => []TypeOK
BY InitType, StepType, PTL DEF Spec

-----------------------------------------------------------------------------
(* One server, documents that never return to an earlier version.          *)

Fresh(s) == answer[s] # NoIndex =>
                answer[s].docs \in seen[s] /\ answer[s].vecs = answer[s].docs
ServerInv(s) == CacheInv(s) /\ StepInv(s) /\ Fresh(s)

(* The parts of TypeOK about one server.                                   *)
LEMMA Typed ==
    ASSUME TypeOK, NEW s \in Servers
    PROVE  /\ source[s] \in Nat /\ source[s] \in Versions
           /\ metadata \in Int /\ docstore \in Int /\ vectors \in Int
           /\ metadata \in Nat \/ metadata = Missing \/ metadata = Torn
           /\ sig[s] \in Int /\ rag_index[s].docs \in Int
           /\ rag_index[s].vecs \in Int
BY BoundAssumption DEF TypeOK, Versions, Files, Index, Missing, Torn

LEMMA ServerStep ==
    ASSUME TypeOK, NEW s \in Servers, ServerInv(s), ~Reverts,
           \/ Start(s) \/ Initialize(s) \/ retrieve_document_chunks(s)
           \/ Stop(s) \/ Edit(s)
    PROVE  ServerInv(s)'
<1> USE Typed DEF ServerInv, CacheInv, StepInv, Fresh, IndexIs, Goto
<1>0. /\ pc \in [Servers -> Labels] /\ DOMAIN sig = Servers
      /\ sig \in [Servers -> Versions \cup {Missing}]
      /\ source \in [Servers -> Versions]
      /\ rag_index \in [Servers -> Index]
      /\ seen \in [Servers -> SUBSET Versions]
      /\ answer \in [Servers -> Index]
    BY DEF TypeOK
<1>1. CASE Start(s)
  <2>1. /\ pc'[s] = "sign" /\ seen'[s] = {source[s]} /\ answer'[s] = NoIndex
        /\ UNCHANGED <<source, disk>>
    BY <1>0, <1>1 DEF Start
  <2>2. QED
    BY <2>1 DEF disk
<1>2. CASE Sign(s)
  <2>1. /\ pc[s] = "sign" /\ pc'[s] = "validate" /\ sig'[s] = source[s]
        /\ UNCHANGED <<source, disk, seen, answer>>
    BY <1>0, <1>2 DEF Sign
  <2>2. QED
    BY <2>1 DEF disk
<1>3. CASE Validate(s)
  <2>1. /\ pc[s] = "validate" /\ pc'[s] \in {"load", "build"}
        /\ pc'[s] = "load" => metadata = sig[s]
        /\ UNCHANGED <<source, disk, sig, rag_index, seen, answer>>
    BY <1>0, <1>3 DEF Validate, CacheValid
  <2>2. QED
    BY <2>1 DEF disk
<1>4. CASE Load(s)
  <2>1. /\ pc[s] = "load" /\ pc'[s] = "serving"
        /\ docstore >= 0 /\ vectors >= 0
        /\ rag_index'[s] = [docs |-> docstore, vecs |-> vectors]
        /\ UNCHANGED <<source, disk, sig, seen, answer>>
    BY <1>0, <1>4 DEF Load
  <2>2. rag_index'[s].docs = docstore /\ rag_index'[s].vecs = vectors
    BY <2>1
  <2>3. docstore = sig[s] /\ vectors = sig[s] /\ sig[s] \in seen[s]
    BY <2>1 DEF Torn
  <2>4. QED
    BY <2>1, <2>2, <2>3 DEF disk
<1>5. CASE LoadFails(s)
  <2>1. /\ pc[s] = "load" /\ pc'[s] = "build"
        /\ UNCHANGED <<source, disk, sig, rag_index, seen, answer>>
    BY <1>0, <1>5 DEF LoadFails
  <2>2. QED
    BY <2>1 DEF disk
<1>6. CASE Build(s)
  <2>1. /\ pc[s] = "build" /\ pc'[s] = "persist"
        /\ rag_index'[s] = [docs |-> source[s], vecs |-> source[s]]
        /\ UNCHANGED <<source, disk, sig, seen, answer>>
    BY <1>0, <1>6 DEF Build
  <2>2. rag_index'[s].docs = source[s] /\ rag_index'[s].vecs = source[s]
    BY <2>1
  <2>3. QED
    BY <2>1, <2>2 DEF disk
<1>7. CASE PersistDocs(s)
  <2>1. /\ pc[s] = "persist" /\ pc'[s] = "vectors"
        /\ docstore' = rag_index[s].docs
        /\ UNCHANGED <<source, vectors, metadata, sig, rag_index, seen, answer>>
    BY <1>0, <1>7 DEF PersistDocs
  <2>2. QED
    BY <2>1
<1>8. CASE PersistVectors(s)
  <2>1. /\ pc[s] = "vectors" /\ pc'[s] = "truncate"
        /\ vectors' = rag_index[s].vecs
        /\ UNCHANGED <<source, docstore, metadata, sig, rag_index, seen, answer>>
    BY <1>0, <1>8 DEF PersistVectors
  <2>2. QED
    BY <2>1
<1>9. CASE Truncate(s)
  <2>1. /\ pc[s] = "truncate" /\ pc'[s] = "dump" /\ metadata' = Torn
        /\ UNCHANGED <<source, docstore, vectors, sig, rag_index, seen, answer>>
    BY <1>0, <1>9 DEF Truncate
  <2>2. QED
    BY <2>1 DEF Torn
<1>10. CASE DumpSignature(s)
  <2>1. /\ pc[s] = "dump" /\ pc'[s] = "serving" /\ metadata' = sig[s]
        /\ UNCHANGED <<source, docstore, vectors, sig, rag_index, seen, answer>>
    BY <1>0, <1>10 DEF DumpSignature
  <2>2. QED
    BY <2>1
<1>11. CASE retrieve_document_chunks(s)
  <2>1. /\ pc[s] = "serving" /\ answer'[s] = rag_index[s]
        /\ UNCHANGED <<source, disk, pc, sig, rag_index, seen>>
    BY <1>0, <1>11 DEF retrieve_document_chunks
  <2>2. QED
    BY <2>1 DEF disk
<1>12. CASE Stop(s)
  <2>1. /\ pc'[s] = "down"
        /\ docstore' \in {docstore, Torn} /\ vectors' \in {vectors, Torn}
        /\ UNCHANGED <<source, metadata, sig, rag_index, seen, answer>>
    BY <1>0, <1>12 DEF Stop
  <2>2. QED
    BY <2>1
<1>13. CASE Edit(s)
  <2>1. /\ source'[s] \in Nat /\ source'[s] > source[s]
        /\ seen'[s] = seen[s] \cup {source'[s]}
        /\ UNCHANGED <<disk, pc, sig, rag_index, answer>>
    BY <1>0, <1>13, BoundAssumption DEF Edit, Versions
  <2>2. QED
    BY <2>1 DEF disk
<1> QED
    BY <1>1, <1>2, <1>3, <1>4, <1>5, <1>6, <1>7, <1>8, <1>9, <1>10, <1>11,
       <1>12, <1>13 DEF Initialize

LEMMA ServerInit ==
    ASSUME Init, NEW s \in Servers PROVE ServerInv(s)
BY BoundAssumption
   DEF Init, ServerInv, CacheInv, StepInv, Fresh, Missing, IndexIs, Versions

OneServer == \E s : Servers = {s}

(* A single server, killed at any point of any initialization, never       *)
(* answers from an index of documents that it did not have since it        *)
(* started, as long as the documents do not return to an earlier version.  *)
THEOREM Freshness == OneServer /\ ~Reverts /\ Spec => []FreshAnswers
<1> SUFFICES ASSUME OneServer, ~Reverts PROVE Spec => []FreshAnswers
    OBVIOUS
<1>0. PICK s : Servers = {s}
    BY DEF OneServer
<1> s \in Servers
    BY <1>0
<1>1. Init => TypeOK /\ ServerInv(s)
    BY InitType, ServerInit
<1>2. TypeOK /\ ServerInv(s) /\ [Next]_vars => TypeOK' /\ ServerInv(s)'
  <2>1. SUFFICES ASSUME TypeOK, ServerInv(s), [Next]_vars
                 PROVE  ServerInv(s)'
    BY StepType
  <2>2. CASE UNCHANGED vars
    BY <2>1, <2>2 DEF vars, disk, ServerInv, CacheInv, StepInv, Fresh, IndexIs
  <2>3. CASE Next
    BY <1>0, <2>1, <2>3, ServerStep DEF Next
  <2>4. QED
    BY <2>1, <2>2, <2>3
<1>3. ServerInv(s) => FreshAnswers
    BY <1>0 DEF ServerInv, Fresh, FreshAnswers
<1>4. QED
    BY <1>1, <1>2, <1>3, PTL DEF Spec
=============================================================================
