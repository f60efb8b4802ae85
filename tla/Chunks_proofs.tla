----------------------------- MODULE Chunks_proofs -----------------------------
(***************************************************************************)
(* Proofs about Chunks, for every set of rows and hashes and every         *)
(* interval that ChunksAssumption admits.                                  *)
(***************************************************************************)
EXTENDS Chunks, TLAPS

WritePhases == {"idle", "begun", "found", "upserted"}

ChunkTypeOK ==
  /\ time \in Nat \ {0}
  /\ chunks \in [Hashes -> Nat]
  /\ refs \in [Rows -> SUBSET Hashes]
  /\ writes \in [Rows -> [phase : WritePhases, began : Nat, hashes : SUBSET Hashes,
                          missing : SUBSET Hashes, upserted : SUBSET Hashes]]
  /\ sweep \in [phase : {"idle", "begun", "deleting"}, began : Nat, doomed : SUBSET Hashes]

(* A transaction began at most MaxTx ago, and writes what it did not find.  *)
WritesInTime ==
  \A r \in Rows :
    /\ writes[r].phase # "idle" =>
         1 <= writes[r].began /\ writes[r].began <= time /\ time <= writes[r].began + MaxTx
    /\ writes[r].phase = "idle" => writes[r] = NoWrite
    /\ writes[r].phase = "upserted" => writes[r].upserted = writes[r].missing

(* What a transaction reuses does not expire for as long as it may last.    *)
ReusedStayFresh ==
  \A r \in Rows :
    writes[r].phase \in {"found", "upserted"} =>
      \A h \in writes[r].hashes \ writes[r].missing :
        chunks[h] # Gone /\ chunks[h] + Grace >= writes[r].began + MaxTx

(* What a row references is stored, and spared by the sweep that runs even  *)
(* if its snapshot did not see the reference.                               *)
ReferencedAreSpared ==
  \A r \in Rows : \A h \in refs[r] :
    /\ chunks[h] # Gone
    /\ sweep.phase = "deleting" /\ h \in sweep.doomed => chunks[h] + Grace >= sweep.began

ChunkInv ==
  /\ ChunkTypeOK
  /\ WritesInTime
  /\ ReusedStayFresh
  /\ sweep.began <= time
  /\ ReferencedAreSpared
-----------------------------------------------------------------------------
(* The transaction of one row moves, the others stay as they were.          *)
LEMMA OneWriteMoves ==
  ASSUME ChunkInv, NEW r \in Rows, NEW write,
         write \in [phase : WritePhases, began : Nat, hashes : SUBSET Hashes,
                    missing : SUBSET Hashes, upserted : SUBSET Hashes],
         writes' = [writes EXCEPT ![r] = write],
         UNCHANGED time,
         write.phase # "idle" =>
           1 <= write.began /\ write.began <= time /\ time <= write.began + MaxTx,
         write.phase = "idle" => write = NoWrite,
         write.phase = "upserted" => write.upserted = write.missing
  PROVE  /\ writes' \in [Rows -> [phase : WritePhases, began : Nat, hashes : SUBSET Hashes,
                                  missing : SUBSET Hashes, upserted : SUBSET Hashes]]
         /\ WritesInTime'
         /\ writes'[r] = write
         /\ \A q \in Rows : q # r => writes'[q] = writes[q]
<1>1. /\ writes' \in [Rows -> [phase : WritePhases, began : Nat, hashes : SUBSET Hashes,
                               missing : SUBSET Hashes, upserted : SUBSET Hashes]]
      /\ writes'[r] = write
      /\ \A q \in Rows : q # r => writes'[q] = writes[q]
  BY DEF ChunkInv, ChunkTypeOK
<1>2. WritesInTime'
  <2> SUFFICES ASSUME NEW q \in Rows
               PROVE  /\ writes'[q].phase # "idle" =>
                           /\ 1 <= writes'[q].began /\ writes'[q].began <= time'
                           /\ time' <= writes'[q].began + MaxTx
                      /\ writes'[q].phase = "idle" => writes'[q] = NoWrite
                      /\ writes'[q].phase = "upserted" =>
                           writes'[q].upserted = writes'[q].missing
    BY DEF WritesInTime, NoWrite
  <2>1. CASE q = r
    BY <1>1, <2>1
  <2>2. CASE q # r
    BY <1>1, <2>2 DEF ChunkInv, WritesInTime
  <2> QED
    BY <2>1, <2>2
<1> QED
  BY <1>1, <1>2

LEMMA NoWriteTyped ==
  NoWrite \in [phase : WritePhases, began : Nat, hashes : SUBSET Hashes,
               missing : SUBSET Hashes, upserted : SUBSET Hashes]
  BY DEF NoWrite, WritePhases

LEMMA ChunkInit_Inv == ChunkInit => ChunkInv
<1> SUFFICES ASSUME ChunkInit PROVE ChunkInv
  OBVIOUS
<1>1. ChunkTypeOK
  BY NoWriteTyped DEF ChunkInit, ChunkTypeOK, NoSweep, Gone
<1>2. \A r \in Rows : writes[r] = NoWrite /\ refs[r] = {}
  BY DEF ChunkInit
<1>3. sweep.began <= time
  BY DEF ChunkInit, NoSweep
<1> QED
  BY <1>1, <1>2, <1>3
  DEF ChunkInv, WritesInTime, ReusedStayFresh, ReferencedAreSpared, NoWrite

LEMMA BeginWriteInv ==
  ASSUME ChunkInv, NEW r \in Rows, NEW hashes \in SUBSET Hashes, BeginWrite(r, hashes)
  PROVE  ChunkInv'
<1> DEFINE write == [NoWrite EXCEPT !.phase = "begun", !.began = time, !.hashes = hashes]
<1>1. /\ write \in [phase : WritePhases, began : Nat, hashes : SUBSET Hashes,
                    missing : SUBSET Hashes, upserted : SUBSET Hashes]
      /\ write.phase = "begun" /\ write.began = time
      /\ write.phase \notin {"idle", "upserted", "found"}
  BY DEF NoWrite, WritePhases, ChunkInv, ChunkTypeOK
<1>2. writes' = [writes EXCEPT ![r] = write] /\ UNCHANGED <<time, chunks, refs, sweep>>
  BY DEF BeginWrite
<1>3. 1 <= write.began /\ write.began <= time /\ time <= write.began + MaxTx
  BY <1>1, ChunksAssumption DEF ChunkInv, ChunkTypeOK
<1> HIDE DEF write
<1>4. /\ writes' \in [Rows -> [phase : WritePhases, began : Nat, hashes : SUBSET Hashes,
                               missing : SUBSET Hashes, upserted : SUBSET Hashes]]
      /\ WritesInTime'
      /\ writes'[r] = write
      /\ \A q \in Rows : q # r => writes'[q] = writes[q]
  BY <1>1, <1>2, <1>3, OneWriteMoves
<1>5. ReusedStayFresh'
  BY <1>1, <1>2, <1>4 DEF ChunkInv, ReusedStayFresh
<1> QED
  BY <1>2, <1>4, <1>5 DEF ChunkInv, ChunkTypeOK, ReferencedAreSpared

(* A chunk used within the touch interval outlives the transaction.         *)
LEMMA FindChunksInv ==
  ASSUME ChunkInv, NEW r \in Rows, FindChunks(r)
  PROVE  ChunkInv'
<1> DEFINE absent == {h \in writes[r].hashes : ~Reusable(r, h)}
           write == [writes[r] EXCEPT !.phase = "found", !.missing = absent]
<1>1. /\ writes[r] \in [phase : WritePhases, began : Nat, hashes : SUBSET Hashes,
                        missing : SUBSET Hashes, upserted : SUBSET Hashes]
      /\ writes[r].phase = "begun"
  BY DEF ChunkInv, ChunkTypeOK, FindChunks
<1>2. absent \in SUBSET Hashes
  BY <1>1
<1>3. writes' = [writes EXCEPT ![r] = write] /\ UNCHANGED <<time, chunks, refs, sweep>>
  BY DEF FindChunks, ChunkInv, ChunkTypeOK
<1>4. ASSUME NEW h \in writes[r].hashes \ absent
      PROVE  chunks[h] # Gone /\ chunks[h] + Grace >= writes[r].began + MaxTx
  <2>1. chunks[h] # Gone /\ chunks[h] + Touch > writes[r].began
    BY <1>4 DEF Reusable
  <2>2. chunks[h] \in Nat /\ writes[r].began \in Nat
    BY <1>1 DEF ChunkInv, ChunkTypeOK
  <2> QED
    BY <2>1, <2>2, ChunksAssumption
<1> HIDE DEF absent
<1>5. /\ write \in [phase : WritePhases, began : Nat, hashes : SUBSET Hashes,
                    missing : SUBSET Hashes, upserted : SUBSET Hashes]
      /\ write.phase = "found" /\ write.began = writes[r].began
      /\ write.hashes = writes[r].hashes /\ write.missing = absent
  BY <1>1, <1>2 DEF WritePhases
<1> HIDE DEF write
<1>6. 1 <= write.began /\ write.began <= time /\ time <= write.began + MaxTx
  BY <1>1, <1>5 DEF ChunkInv, WritesInTime
<1>7. /\ writes' \in [Rows -> [phase : WritePhases, began : Nat, hashes : SUBSET Hashes,
                               missing : SUBSET Hashes, upserted : SUBSET Hashes]]
      /\ WritesInTime'
      /\ writes'[r] = write
      /\ \A q \in Rows : q # r => writes'[q] = writes[q]
  BY <1>3, <1>5, <1>6, OneWriteMoves
<1>8. ReusedStayFresh'
  BY <1>3, <1>4, <1>5, <1>7 DEF ChunkInv, ReusedStayFresh
<1> QED
  BY <1>3, <1>7, <1>8 DEF ChunkInv, ChunkTypeOK, ReferencedAreSpared

LEMMA UpsertChunksInv ==
  ASSUME ChunkInv, NEW r \in Rows, UpsertChunks(r)
  PROVE  ChunkInv'
<1> DEFINE write == [writes[r] EXCEPT !.phase = "upserted", !.upserted = writes[r].missing]
<1>1. /\ writes[r] \in [phase : WritePhases, began : Nat, hashes : SUBSET Hashes,
                        missing : SUBSET Hashes, upserted : SUBSET Hashes]
      /\ writes[r].phase = "found"
  BY DEF ChunkInv, ChunkTypeOK, UpsertChunks
<1>2. writes' = [writes EXCEPT ![r] = write] /\ UNCHANGED <<time, chunks, refs, sweep>>
  BY DEF UpsertChunks, ChunkInv, ChunkTypeOK
<1>3. /\ write \in [phase : WritePhases, began : Nat, hashes : SUBSET Hashes,
                    missing : SUBSET Hashes, upserted : SUBSET Hashes]
      /\ write.phase = "upserted" /\ write.began = writes[r].began
      /\ write.hashes = writes[r].hashes
      /\ write.missing = writes[r].missing /\ write.upserted = writes[r].missing
  BY <1>1 DEF WritePhases
<1> HIDE DEF write
<1>4. 1 <= write.began /\ write.began <= time /\ time <= write.began + MaxTx
  BY <1>1, <1>3 DEF ChunkInv, WritesInTime
<1>5. /\ writes' \in [Rows -> [phase : WritePhases, began : Nat, hashes : SUBSET Hashes,
                               missing : SUBSET Hashes, upserted : SUBSET Hashes]]
      /\ WritesInTime'
      /\ writes'[r] = write
      /\ \A q \in Rows : q # r => writes'[q] = writes[q]
  BY <1>2, <1>3, <1>4, OneWriteMoves
<1>6. ReusedStayFresh'
  BY <1>1, <1>2, <1>3, <1>5 DEF ChunkInv, ReusedStayFresh
<1> QED
  BY <1>2, <1>5, <1>6 DEF ChunkInv, ChunkTypeOK, ReferencedAreSpared

(* The commit sets used_at to the instant the transaction began: late       *)
(* enough for the transactions that reused the chunk and for the sweep.     *)
LEMMA CommitWriteInv ==
  ASSUME ChunkInv, NEW r \in Rows, CommitWrite(r)
  PROVE  ChunkInv'
<1> DEFINE began == writes[r].began
<1>1. /\ writes[r] \in [phase : WritePhases, began : Nat, hashes : SUBSET Hashes,
                        missing : SUBSET Hashes, upserted : SUBSET Hashes]
      /\ writes[r].phase = "upserted"
      /\ writes[r].upserted = writes[r].missing
  BY DEF ChunkInv, ChunkTypeOK, WritesInTime, CommitWrite
<1>2. began \in Nat /\ 1 <= began /\ began <= time /\ time <= began + MaxTx
  BY <1>1 DEF ChunkInv, WritesInTime
<1>3. /\ \A h \in Hashes :
           chunks'[h] = IF h \in writes[r].upserted THEN began ELSE chunks[h]
      /\ chunks' \in [Hashes -> Nat]
  BY <1>1 DEF CommitWrite, ChunkInv, ChunkTypeOK
<1>4. writes' = [writes EXCEPT ![r] = NoWrite] /\ UNCHANGED <<time, sweep>>
  BY DEF CommitWrite
<1>5. /\ refs' \in [Rows -> SUBSET Hashes]
      /\ refs'[r] = writes[r].hashes
      /\ \A q \in Rows : q # r => refs'[q] = refs[q]
  BY <1>1 DEF CommitWrite, ChunkInv, ChunkTypeOK
<1>6. /\ writes' \in [Rows -> [phase : WritePhases, began : Nat, hashes : SUBSET Hashes,
                               missing : SUBSET Hashes, upserted : SUBSET Hashes]]
      /\ WritesInTime'
      /\ writes'[r] = NoWrite
      /\ \A q \in Rows : q # r => writes'[q] = writes[q]
  <2>1. NoWrite.phase = "idle"
    BY DEF NoWrite
  <2> QED
    BY <1>4, <2>1, NoWriteTyped, OneWriteMoves
<1>7. time \in Nat /\ sweep.began \in Nat /\ sweep.began <= time
  BY DEF ChunkInv, ChunkTypeOK
<1> HIDE DEF began
<1>8. ReusedStayFresh'
  <2> SUFFICES ASSUME NEW q \in Rows, writes'[q].phase \in {"found", "upserted"},
                      NEW h \in writes'[q].hashes \ writes'[q].missing
               PROVE  chunks'[h] # Gone /\ chunks'[h] + Grace >= writes'[q].began + MaxTx
    BY DEF ReusedStayFresh, Gone
  <2>1. q # r /\ writes'[q] = writes[q] /\ h \in Hashes /\ writes[q].began \in Nat
    BY <1>6 DEF NoWrite, ChunkInv, ChunkTypeOK
  <2>2. chunks[h] # Gone /\ chunks[h] + Grace >= writes[q].began + MaxTx
    BY <2>1 DEF ChunkInv, ReusedStayFresh
  <2>3. writes[q].began <= time
    BY <2>1 DEF ChunkInv, WritesInTime
  <2>4. began # Gone /\ began + Grace >= writes[q].began + MaxTx
    BY <1>2, <1>7, <2>1, <2>3, ChunksAssumption DEF Gone
  <2> QED
    BY <1>3, <2>1, <2>2, <2>4
<1>9. ReferencedAreSpared'
  <2> SUFFICES ASSUME NEW q \in Rows, NEW h \in refs'[q]
               PROVE  /\ chunks'[h] # Gone
                      /\ sweep.phase = "deleting" /\ h \in sweep.doomed =>
                           chunks'[h] + Grace >= sweep.began
    BY <1>4 DEF ReferencedAreSpared, Gone
  <2>1. h \in Hashes /\ chunks[h] \in Nat
    BY <1>5 DEF ChunkInv, ChunkTypeOK
  <2>2. began # Gone /\ began + Grace >= sweep.began
    BY <1>2, <1>7, ChunksAssumption DEF Gone
  <2>3. CASE h \in writes[r].upserted
    BY <1>3, <2>1, <2>2, <2>3
  <2>4. CASE h \notin writes[r].upserted /\ q # r
    BY <1>3, <1>5, <2>1, <2>4 DEF ChunkInv, ReferencedAreSpared
  <2>5. CASE h \notin writes[r].upserted /\ q = r
    <3>1. chunks[h] # Gone /\ chunks[h] + Grace >= began + MaxTx
      BY <1>1, <1>5, <2>5 DEF ChunkInv, ReusedStayFresh, began
    <3>2. chunks[h] + Grace >= sweep.began
      BY <1>2, <1>7, <2>1, <3>1, ChunksAssumption
    <3> QED
      BY <1>3, <2>1, <2>5, <3>1, <3>2
  <2> QED
    BY <2>3, <2>4, <2>5
<1> QED
  BY <1>3, <1>4, <1>5, <1>6, <1>7, <1>8, <1>9 DEF ChunkInv, ChunkTypeOK

LEMMA RollbackWriteInv ==
  ASSUME ChunkInv, NEW r \in Rows, RollbackWrite(r)
  PROVE  ChunkInv'
<1>1. writes' = [writes EXCEPT ![r] = NoWrite] /\ UNCHANGED <<time, chunks, refs, sweep>>
  BY DEF RollbackWrite
<1>2. NoWrite.phase = "idle"
  BY DEF NoWrite
<1>3. /\ writes' \in [Rows -> [phase : WritePhases, began : Nat, hashes : SUBSET Hashes,
                               missing : SUBSET Hashes, upserted : SUBSET Hashes]]
      /\ WritesInTime'
      /\ writes'[r] = NoWrite
      /\ \A q \in Rows : q # r => writes'[q] = writes[q]
  BY <1>1, <1>2, NoWriteTyped, OneWriteMoves
<1>4. ReusedStayFresh'
  BY <1>1, <1>2, <1>3 DEF ChunkInv, ReusedStayFresh
<1> QED
  BY <1>1, <1>3, <1>4 DEF ChunkInv, ChunkTypeOK, ReferencedAreSpared

LEMMA DropRowInv ==
  ASSUME ChunkInv, NEW r \in Rows, DropRow(r)
  PROVE  ChunkInv'
<1>1. refs' = [refs EXCEPT ![r] = {}] /\ UNCHANGED <<time, chunks, writes, sweep>>
  BY DEF DropRow
<1>2. \A q \in Rows : refs'[q] \subseteq refs[q] /\ refs'[q] \in SUBSET Hashes
  BY <1>1 DEF ChunkInv, ChunkTypeOK
<1>3. ChunkTypeOK'
  BY <1>1 DEF ChunkInv, ChunkTypeOK
<1>4. WritesInTime' /\ ReusedStayFresh'
  BY <1>1 DEF ChunkInv, WritesInTime, ReusedStayFresh
<1>5. ReferencedAreSpared'
  BY <1>1, <1>2 DEF ChunkInv, ReferencedAreSpared
<1> QED
  BY <1>1, <1>3, <1>4, <1>5 DEF ChunkInv

LEMMA BeginSweepInv ==
  ASSUME ChunkInv, BeginSweep
  PROVE  ChunkInv'
<1>1. /\ sweep' = [phase |-> "begun", began |-> time, doomed |-> {}]
      /\ UNCHANGED <<time, chunks, refs, writes>>
  BY DEF BeginSweep
<1>2. time \in Nat
  BY DEF ChunkInv, ChunkTypeOK
<1>3. ChunkTypeOK' /\ sweep'.began <= time'
  BY <1>1, <1>2 DEF ChunkInv, ChunkTypeOK
<1>4. WritesInTime' /\ ReusedStayFresh'
  BY <1>1 DEF ChunkInv, WritesInTime, ReusedStayFresh
<1>5. ReferencedAreSpared'
  BY <1>1 DEF ChunkInv, ReferencedAreSpared
<1> QED
  BY <1>3, <1>4, <1>5 DEF ChunkInv

LEMMA TakeSnapshotInv ==
  ASSUME ChunkInv, TakeSnapshot
  PROVE  ChunkInv'
<1> DEFINE doomed == {h \in Hashes : Expired(h, sweep.began) /\ ~Referenced(h)}
<1>1. /\ sweep' = [sweep EXCEPT !.phase = "deleting", !.doomed = doomed]
      /\ UNCHANGED <<time, chunks, refs, writes>>
  BY DEF TakeSnapshot
<1>2. \A r \in Rows : \A h \in refs[r] : h \notin doomed
  BY DEF Referenced
<1>3. doomed \in SUBSET Hashes
  OBVIOUS
<1> HIDE DEF doomed
<1>4. /\ sweep' \in [phase : {"idle", "begun", "deleting"}, began : Nat, doomed : SUBSET Hashes]
      /\ sweep'.began = sweep.began /\ sweep'.doomed = doomed
  BY <1>1, <1>3 DEF ChunkInv, ChunkTypeOK
<1>5. WritesInTime' /\ ReusedStayFresh'
  BY <1>1 DEF ChunkInv, WritesInTime, ReusedStayFresh
<1>6. ReferencedAreSpared'
  BY <1>1, <1>2, <1>4 DEF ChunkInv, ReferencedAreSpared
<1> QED
  BY <1>1, <1>4, <1>5, <1>6 DEF ChunkInv, ChunkTypeOK

(* Nothing that is referenced or being reused is expired for this sweep.    *)
LEMMA DeleteChunksInv ==
  ASSUME ChunkInv, DeleteChunks
  PROVE  ChunkInv'
<1>1. sweep' = NoSweep /\ sweep.phase = "deleting" /\ UNCHANGED <<time, refs, writes>>
  BY DEF DeleteChunks
<1>2. /\ chunks' \in [Hashes -> Nat]
      /\ \A h \in Hashes :
           chunks'[h] = IF h \in sweep.doomed /\ Expired(h, sweep.began) THEN Gone ELSE chunks[h]
  BY DEF DeleteChunks, ChunkInv, ChunkTypeOK, Gone
<1>3. time \in Nat /\ sweep.began \in Nat /\ sweep.began <= time
  BY DEF ChunkInv, ChunkTypeOK
<1>4. /\ ChunkTypeOK' /\ sweep'.began <= time' /\ sweep'.phase = "idle"
  BY <1>1, <1>2, <1>3 DEF ChunkInv, ChunkTypeOK, NoSweep
<1>5. WritesInTime'
  BY <1>1 DEF ChunkInv, WritesInTime
<1>6. ReusedStayFresh'
  <2> SUFFICES ASSUME NEW r \in Rows, writes[r].phase \in {"found", "upserted"},
                      NEW h \in writes[r].hashes \ writes[r].missing
               PROVE  chunks'[h] # Gone /\ chunks'[h] + Grace >= writes[r].began + MaxTx
    BY <1>1 DEF ReusedStayFresh, Gone
  <2>1. chunks[h] # Gone /\ chunks[h] + Grace >= writes[r].began + MaxTx
    BY DEF ChunkInv, ReusedStayFresh
  <2>2. time <= writes[r].began + MaxTx /\ writes[r].began \in Nat
    BY DEF ChunkInv, ChunkTypeOK, WritesInTime
  <2>3. h \in Hashes /\ chunks[h] \in Nat
    BY DEF ChunkInv, ChunkTypeOK
  <2>4. ~Expired(h, sweep.began)
    BY <1>3, <2>1, <2>2, <2>3, ChunksAssumption DEF Expired
  <2> QED
    BY <1>2, <2>1, <2>3, <2>4
<1>7. ReferencedAreSpared'
  <2> SUFFICES ASSUME NEW r \in Rows, NEW h \in refs[r]
               PROVE  chunks'[h] # Gone
    BY <1>1, <1>4 DEF ReferencedAreSpared, Gone
  <2>1. h \in Hashes /\ chunks[h] \in Nat
    BY DEF ChunkInv, ChunkTypeOK
  <2>2. /\ chunks[h] # Gone
        /\ h \in sweep.doomed => chunks[h] + Grace >= sweep.began
    BY <1>1 DEF ChunkInv, ReferencedAreSpared
  <2>3. h \in sweep.doomed => ~Expired(h, sweep.began)
    BY <1>3, <2>1, <2>2, ChunksAssumption DEF Expired
  <2> QED
    BY <1>2, <2>1, <2>2, <2>3
<1> QED
  BY <1>4, <1>5, <1>6, <1>7 DEF ChunkInv

LEMMA ElapseInv ==
  ASSUME ChunkInv, Elapse
  PROVE  ChunkInv'
<1>1. time' = time + 1 /\ UNCHANGED <<chunks, refs, writes, sweep>> /\ time \in Nat \ {0}
  BY DEF Elapse, ChunkInv, ChunkTypeOK
<1>2. ChunkTypeOK' /\ sweep'.began <= time'
  BY <1>1 DEF ChunkInv, ChunkTypeOK
<1>3. WritesInTime'
  <2> SUFFICES ASSUME NEW r \in Rows
               PROVE  /\ writes[r].phase # "idle" =>
                           /\ 1 <= writes[r].began /\ writes[r].began <= time + 1
                           /\ time + 1 <= writes[r].began + MaxTx
                      /\ writes[r].phase = "idle" => writes[r] = NoWrite
                      /\ writes[r].phase = "upserted" =>
                           writes[r].upserted = writes[r].missing
    BY <1>1 DEF WritesInTime, NoWrite
  <2>1. writes[r].began \in Nat
    BY DEF ChunkInv, ChunkTypeOK
  <2>2. writes[r].phase # "idle" => writes[r] # NoWrite
    BY DEF NoWrite
  <2>3. writes[r].phase # "idle" => time < writes[r].began + MaxTx
    BY <2>2 DEF Elapse
  <2>4. /\ writes[r].phase # "idle" => 1 <= writes[r].began /\ writes[r].began <= time
        /\ writes[r].phase = "idle" => writes[r] = NoWrite
        /\ writes[r].phase = "upserted" => writes[r].upserted = writes[r].missing
    BY DEF ChunkInv, WritesInTime
  <2> QED
    BY <1>1, <2>1, <2>3, <2>4, ChunksAssumption
<1>4. ReusedStayFresh' /\ ReferencedAreSpared'
  BY <1>1 DEF ChunkInv, ReusedStayFresh, ReferencedAreSpared
<1> QED
  BY <1>2, <1>3, <1>4 DEF ChunkInv

LEMMA ChunkNext_Inv == ChunkInv /\ [ChunkNext]_chunkVars => ChunkInv'
<1> SUFFICES ASSUME ChunkInv, [ChunkNext]_chunkVars PROVE ChunkInv'
  OBVIOUS
<1>1. CASE UNCHANGED chunkVars
  BY <1>1 DEF chunkVars, ChunkInv, ChunkTypeOK, WritesInTime, ReusedStayFresh, ReferencedAreSpared
<1>2. CASE \E r \in Rows : \E hashes \in SUBSET Hashes \ {{}} : BeginWrite(r, hashes)
  BY <1>2, BeginWriteInv
<1> QED
  BY <1>1, <1>2, FindChunksInv, UpsertChunksInv, CommitWriteInv, RollbackWriteInv, DropRowInv,
     BeginSweepInv, TakeSnapshotInv, DeleteChunksInv, ElapseInv DEF ChunkNext

(* Transactions and sweeps overlap as they like: a transaction's chunks are  *)
(* stored and do not expire before it ends.                                  *)
THEOREM ChunkInvariance == ChunkSpec => []ChunkInv
  BY ChunkInit_Inv, ChunkNext_Inv, PTL DEF ChunkSpec

(* The sweep never deletes a chunk that a committed row references, neither  *)
(* one that a transaction reused without writing it nor one whose reference  *)
(* was committed after the sweep's snapshot.                                 *)
THEOREM ReferencesSurviveSweep == ChunkSpec => []ReferencedChunksStored
<1>1. ChunkInv => ReferencedChunksStored
  BY DEF ChunkInv, ReferencedAreSpared, ReferencedChunksStored, Readable
<1> QED
  BY <1>1, ChunkInvariance, PTL
=============================================================================
