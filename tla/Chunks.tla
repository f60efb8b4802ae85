------------------------------- MODULE Chunks --------------------------------
(***************************************************************************)
(* Payload chunks shared by the rows that reference them                   *)
(* (store/postgres/chunks.go): a transaction that writes a payload does    *)
(* not touch a chunk used recently, while the retention sweep deletes the  *)
(* chunks that nothing references and nothing used for a grace period.     *)
(* now() is the instant at which a transaction began; its own writes are   *)
(* seen by others when it commits.                                         *)
(***************************************************************************)
EXTENDS Naturals

CONSTANTS
  Hashes, Rows,
  Touch, Grace, \* chunkTouchInterval and chunkGrace
  MaxTx,        \* bound: how long a transaction lasts
  LastInstant   \* bound: the clock

(* An hour and a day in the code: a transaction may last half a day.  The  *)
(* second bound is there because a commit sets used_at back to the instant *)
(* its transaction began, under a transaction that reused the chunk.       *)
ASSUME ChunksAssumption ==
  /\ Touch \in Nat /\ Grace \in Nat /\ MaxTx \in Nat /\ LastInstant \in Nat
  /\ Touch + MaxTx <= Grace
  /\ MaxTx + MaxTx <= Grace

VARIABLES
  time,
  chunks,       \* used_at of each stored chunk, or Gone
  refs,         \* the chunks each committed row references
  writes,       \* per row, the transaction that writes it
  sweep         \* the sweep's DELETE: what its snapshot would delete

chunkVars == <<time, chunks, refs, writes, sweep>>

Gone == 0
NoWrite == [phase |-> "idle", began |-> 0, hashes |-> {}, missing |-> {}, upserted |-> {}]
NoSweep == [phase |-> "idle", began |-> 0, doomed |-> {}]
RowLocks == UNION {writes[r].upserted : r \in Rows}

ChunkInit ==
  /\ time = 1
  /\ chunks = [h \in Hashes |-> Gone]
  /\ refs = [r \in Rows |-> {}]
  /\ writes = [r \in Rows |-> NoWrite]
  /\ sweep = NoSweep

BeginWrite(r, hashes) ==
  /\ writes[r] = NoWrite
  /\ writes' = [writes EXCEPT ![r] =
       [NoWrite EXCEPT !.phase = "begun", !.began = time, !.hashes = hashes]]
  /\ UNCHANGED <<time, chunks, refs, sweep>>

(* A chunk is reused however long ago it was used.                         *)
ReusableEver(r, h) == chunks[h] # Gone

(* used_at > now() - chunkTouchInterval                                    *)
Reusable(r, h) == chunks[h] # Gone /\ chunks[h] + Touch > writes[r].began

FindChunks(r) ==
  /\ writes[r].phase = "begun"
  /\ writes' = [writes EXCEPT ![r].phase = "found",
                              ![r].missing = {h \in writes[r].hashes : ~Reusable(r, h)}]
  /\ UNCHANGED <<time, chunks, refs, sweep>>

(* Waits for the transactions that write one of the same chunks.           *)
UpsertChunks(r) ==
  /\ writes[r].phase = "found" /\ writes[r].missing \cap RowLocks = {}
  /\ writes' = [writes EXCEPT ![r].phase = "upserted", ![r].upserted = writes[r].missing]
  /\ UNCHANGED <<time, chunks, refs, sweep>>

(* The row that references the chunks is written in the same transaction.  *)
CommitWrite(r) ==
  /\ writes[r].phase = "upserted"
  /\ refs' = [refs EXCEPT ![r] = writes[r].hashes]
  /\ chunks' = [h \in Hashes |-> IF h \in writes[r].upserted THEN writes[r].began ELSE chunks[h]]
  /\ writes' = [writes EXCEPT ![r] = NoWrite]
  /\ UNCHANGED <<time, sweep>>

RollbackWrite(r) ==
  /\ writes[r] # NoWrite
  /\ writes' = [writes EXCEPT ![r] = NoWrite]
  /\ UNCHANGED <<time, chunks, refs, sweep>>

DropRow(r) ==
  /\ refs[r] # {}
  /\ refs' = [refs EXCEPT ![r] = {}]
  /\ UNCHANGED <<time, chunks, writes, sweep>>

(* readChunks: the payload of a row, unless one of its chunks is missing.  *)
Readable(r) == \A h \in refs[r] : chunks[h] # Gone

-----------------------------------------------------------------------------
Expired(h, began) == chunks[h] # Gone /\ chunks[h] + Grace < began
Referenced(h) == \E r \in Rows : h \in refs[r]

BeginSweep ==
  /\ sweep = NoSweep
  /\ sweep' = [phase |-> "begun", began |-> time, doomed |-> {}]
  /\ UNCHANGED <<time, chunks, refs, writes>>

TakeSnapshot ==
  /\ sweep.phase = "begun"
  /\ sweep' = [sweep EXCEPT !.phase = "deleting",
                            !.doomed = {h \in Hashes : Expired(h, sweep.began) /\ ~Referenced(h)}]
  /\ UNCHANGED <<time, chunks, refs, writes>>

(* A chunk that was written since is waited for and looked at again, the   *)
(* references are not.                                                     *)
DeleteChunks ==
  /\ sweep.phase = "deleting" /\ sweep.doomed \cap RowLocks = {}
  /\ chunks' = [h \in Hashes |->
       IF h \in sweep.doomed /\ Expired(h, sweep.began) THEN Gone ELSE chunks[h]]
  /\ sweep' = NoSweep
  /\ UNCHANGED <<time, refs, writes>>

Elapse ==
  /\ time < LastInstant
  /\ \A r \in Rows : writes[r] # NoWrite => time < writes[r].began + MaxTx
  /\ time' = time + 1
  /\ UNCHANGED <<chunks, refs, writes, sweep>>

ChunkNext ==
  \/ \E r \in Rows :
       \/ \E hashes \in SUBSET Hashes \ {{}} : BeginWrite(r, hashes)
       \/ FindChunks(r) \/ UpsertChunks(r) \/ CommitWrite(r) \/ RollbackWrite(r) \/ DropRow(r)
  \/ BeginSweep \/ TakeSnapshot \/ DeleteChunks
  \/ Elapse

ChunkSpec == ChunkInit /\ [][ChunkNext]_chunkVars

-----------------------------------------------------------------------------
(* A committed row never misses a chunk: a transaction that reused a chunk *)
(* without writing it does not lose it to a sweep that ran meanwhile.      *)
ReferencedChunksStored == \A r \in Rows : Readable(r)
=============================================================================
