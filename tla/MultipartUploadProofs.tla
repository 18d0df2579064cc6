---------------------- MODULE MultipartUploadProofs ----------------------
(* The safety of the chunked upload, for every file size, chunk size and   *)
(* number of concurrent uploads.                                           *)
EXTENDS MultipartUpload, FiniteSetTheorems, TLAPS

(* What the batch says of the requests: those in flight are futures of the *)
(* current batch, which has room while the loop runs.                      *)
BatchInv ==
  /\ inFlight \subseteq chunks
  /\ IsFiniteSet(chunks)
  /\ Cardinality(chunks) <= MaxConcurrentUploads
  /\ pc = "loop" => Cardinality(chunks) < MaxConcurrentUploads

(* What the chunks sent say of the loop's position. *)
RangeInv ==
  /\ \A c \in Sent : c.start < c.end /\ c.end <= chunkStartByte
  /\ pc = "complete" => chunkStartByte = fileSize

IInv == TypeOK /\ BatchInv /\ RangeInv /\ CompleteAfterAllSettled /\ SentRangesTile
        /\ (pc \in {"start", "failed"} => inFlight = {})
        /\ (pc = "start" => chunks = {})

USE FileSizesAssumption, ChunkSizeAssumption, MaxConcurrentUploadsAssumption,
    ChunkUploadMinFileSizeAssumption

(* The chunk cut at a byte before the end of the file starts there, is not *)
(* empty and ends within the file.                                         *)
LEMMA NextChunkBounds ==
  ASSUME fileSize \in Nat, NEW s \in Nat, s < fileSize
  PROVE  /\ NextChunk(s) \in Chunk
         /\ NextChunk(s).start = s
         /\ s < NextChunk(s).end
         /\ NextChunk(s).end <= fileSize
BY DEF NextChunk, Chunk, Smaller

LEMMA InitIInv == Init => IInv
<1> SUFFICES ASSUME Init PROVE IInv
  OBVIOUS
<1>1. TypeOK
  BY DEF Init, TypeOK
<1>2. BatchInv
  BY FS_EmptySet DEF Init, BatchInv
<1>3. RangeInv /\ CompleteAfterAllSettled /\ SentRangesTile
  BY DEF Init, RangeInv, Sent, CompleteAfterAllSettled, SentRangesTile
<1>4. QED
  BY <1>1, <1>2, <1>3 DEF IInv, Init

(* Sending the next chunk extends the tiling by exactly its range and the  *)
(* batch by one future.                                                    *)
LEMMA SendChunkIInv == IInv /\ SendChunk => IInv'
<1> SUFFICES ASSUME IInv, SendChunk PROVE IInv'
  OBVIOUS
<1> DEFINE c == NextChunk(chunkStartByte)
<1>0. /\ fileSize \in Nat /\ chunkStartByte \in Nat /\ chunkStartByte < fileSize
      /\ c \in Chunk /\ c.start = chunkStartByte /\ chunkStartByte < c.end /\ c.end <= fileSize
  BY NextChunkBounds DEF IInv, TypeOK, SendChunk
<1>1. /\ chunks' = chunks \cup {c} /\ inFlight' = inFlight \cup {c}
      /\ chunkStartByte' = c.end
      /\ fileSize' = fileSize /\ stored' = stored /\ lost' = lost /\ bucket' = bucket
      /\ pc = "loop"
      /\ pc' = IF Cardinality(chunks') = MaxConcurrentUploads THEN "settle" ELSE "loop"
  BY DEF SendChunk
<1>c. pc' \in {"settle", "loop"}
  BY <1>1
<1> HIDE DEF c
<1>2. TypeOK'
  BY <1>0, <1>1, <1>c DEF IInv, TypeOK, Chunk
<1>3. BatchInv'
  <2>1. IsFiniteSet(chunks') /\ Cardinality(chunks') \in Nat
    BY <1>1, FS_AddElement, FS_CardinalityType DEF IInv, BatchInv
  <2>2. Cardinality(chunks') <= Cardinality(chunks) + 1 /\ Cardinality(chunks) \in Nat
    <3>1. IsFiniteSet(chunks) /\ Cardinality(chunks) \in Nat
      BY FS_CardinalityType DEF IInv, BatchInv
    <3>2. Cardinality(chunks \cup {c}) = IF c \in chunks THEN Cardinality(chunks) ELSE Cardinality(chunks) + 1
      BY <3>1, FS_AddElement
    <3>3. QED
      BY <1>1, <3>1, <3>2
  <2>3. Cardinality(chunks) < MaxConcurrentUploads
    BY <1>1 DEF IInv, BatchInv
  <2>4. Cardinality(chunks') <= MaxConcurrentUploads
    BY <2>1, <2>2, <2>3
  <2>5. pc' = "loop" => Cardinality(chunks') < MaxConcurrentUploads
    BY <1>1, <2>1, <2>4
  <2>6. QED
    BY <1>1, <2>1, <2>4, <2>5 DEF IInv, BatchInv
<1>4. Sent' = Sent \cup {c}
  BY <1>1 DEF Sent
<1>5. \A d \in Sent : d.start \in Nat /\ d.end \in Nat /\ d.start < d.end /\ d.end <= chunkStartByte
  BY DEF IInv, TypeOK, RangeInv, Sent, Chunk
<1>6. RangeInv'
  <2>1. ASSUME NEW d \in Sent' PROVE d.start < d.end /\ d.end <= c.end
    BY <1>0, <1>4, <1>5 DEF Chunk
  <2>2. QED
    BY <2>1, <1>1, <1>c DEF RangeInv
<1>7. SentRangesTile'
  <2>1. \A b \in 0 .. chunkStartByte' - 1 : \E d \in Sent' : d.start <= b /\ b < d.end
    <3> SUFFICES ASSUME NEW b \in 0 .. c.end - 1
                 PROVE  \E d \in Sent' : d.start <= b /\ b < d.end
      BY <1>1
    <3>1. CASE b < chunkStartByte
      <4>1. b \in 0 .. chunkStartByte - 1
        BY <3>1, <1>0 DEF Chunk
      <4>2. QED
        BY <4>1, <1>4 DEF IInv, SentRangesTile
    <3>2. CASE b >= chunkStartByte
      BY <3>2, <1>0, <1>4 DEF Chunk
    <3>3. QED
      BY <3>1, <3>2, <1>0 DEF Chunk
  <2>2. \A d, e \in Sent' : d = e \/ d.end <= e.start \/ e.end <= d.start
    BY <1>0, <1>4, <1>5 DEF IInv, SentRangesTile
  <2>3. c \notin stored /\ c \notin lost
    BY <1>0, <1>5 DEF Sent
  <2>4. inFlight' \cap stored' = {} /\ inFlight' \cap lost' = {} /\ stored' \cap lost' = {}
    BY <1>1, <2>3 DEF IInv, SentRangesTile
  <2>5. QED
    BY <2>1, <2>2, <2>4 DEF SentRangesTile
<1>8. CompleteAfterAllSettled'
  BY <1>c DEF CompleteAfterAllSettled
<1>9. QED
  BY <1>2, <1>3, <1>6, <1>7, <1>8, <1>c DEF IInv

(* A chunk that settles moves from the requests in flight to one of the    *)
(* two outcomes: the set of chunks sent does not change.                   *)
LEMMA SettleIInv == ASSUME NEW c \in inFlight PROVE IInv /\ Settle(c) => IInv'
<1> SUFFICES ASSUME IInv, Settle(c) PROVE IInv'
  OBVIOUS
<1>1. /\ inFlight' = inFlight \ {c}
      /\ UNCHANGED <<pc, fileSize, chunkStartByte, chunks, bucket>>
      /\ \/ stored' = stored \cup {c} /\ lost' = lost
         \/ lost' = lost \cup {c} /\ stored' = stored
  BY DEF Settle, ChunkStored, ChunkLost
<1>2. Sent' = Sent
  BY <1>1 DEF Sent
<1>3. TypeOK'
  BY <1>1 DEF IInv, TypeOK
<1>4. BatchInv'
  BY <1>1 DEF IInv, BatchInv
<1>5. RangeInv' /\ CompleteAfterAllSettled'
  BY <1>1, <1>2 DEF IInv, RangeInv, CompleteAfterAllSettled
<1>6. SentRangesTile'
  BY <1>1, <1>2 DEF IInv, SentRangesTile
<1>7. QED
  BY <1>1, <1>3, <1>4, <1>5, <1>6 DEF IInv

LEMMA NextIInv == IInv /\ [Next]_vars => IInv'
<1> SUFFICES ASSUME IInv, [Next]_vars PROVE IInv'
  OBVIOUS
<1> DEFINE Idle == UNCHANGED <<fileSize, chunkStartByte, chunks, inFlight, stored, lost>>
<1>1. CASE SendChunk
  BY <1>1, SendChunkIInv
<1>2. CASE \E c \in inFlight : Settle(c)
  BY <1>2, SettleIInv
<1>3. CASE BatchSettled
  <2>1. inFlight' = {} /\ chunks' = {} /\ pc' = "loop"
    BY <1>3 DEF IInv, BatchInv, BatchSettled
  <2>2. UNCHANGED <<fileSize, chunkStartByte, stored, lost, bucket, Sent>>
    BY <1>3 DEF BatchSettled, Sent
  <2>3. TypeOK' /\ BatchInv'
    BY <2>1, <2>2, FS_EmptySet DEF IInv, TypeOK, BatchInv
  <2>4. QED
    BY <2>1, <2>2, <2>3 DEF IInv, RangeInv, CompleteAfterAllSettled, SentRangesTile
<1>4. CASE LastBatchSettled
  <2>1. inFlight = {} /\ chunkStartByte = fileSize /\ pc' = "complete"
    BY <1>4 DEF IInv, BatchInv, TypeOK, LastBatchSettled
  <2>2. UNCHANGED <<fileSize, chunkStartByte, chunks, inFlight, stored, lost, bucket, Sent>>
    BY <1>4 DEF LastBatchSettled, Sent
  <2>3. QED
    BY <2>1, <2>2 DEF IInv, TypeOK, BatchInv, RangeInv, CompleteAfterAllSettled, SentRangesTile
<1>5. ASSUME Idle, UNCHANGED Sent, TypeOK', pc' # "start", pc' # "complete",
             pc' = "loop" => Cardinality(chunks) < MaxConcurrentUploads,
             pc' \in {"import", "done", "failed"} => inFlight = {}
      PROVE  IInv'
  BY <1>5 DEF IInv, BatchInv, RangeInv, CompleteAfterAllSettled, SentRangesTile
<1>6. CASE ImportDirectly \/ InitUpload \/ InitUploadFails \/ CompleteUpload
           \/ CompleteUploadFails \/ ImportUploadedProject
  <2>1. Idle /\ UNCHANGED Sent /\ pc \in {"start", "complete", "import"} /\ inFlight = {}
    BY <1>6 DEF ImportDirectly, InitUpload, InitUploadFails, CompleteUpload,
      CompleteUploadFails, ImportUploadedProject, Sent, IInv, CompleteAfterAllSettled
  <2>2. /\ pc' \in {"loop", "import", "done", "failed"} /\ bucket' \in {"none", "open", "complete"}
        /\ pc' = "loop" => pc = "start"
    BY <1>6 DEF ImportDirectly, InitUpload, InitUploadFails, CompleteUpload,
      CompleteUploadFails, ImportUploadedProject, IInv, TypeOK
  <2>3. TypeOK'
    BY <2>1, <2>2 DEF IInv, TypeOK
  <2>4. pc' = "loop" => Cardinality(chunks) < MaxConcurrentUploads
    BY <2>2, FS_EmptySet DEF IInv
  <2>5. QED
    BY <2>1, <2>2, <2>3, <2>4, <1>5
<1>7. CASE UNCHANGED vars
  BY <1>7 DEF vars, IInv, TypeOK, BatchInv, RangeInv, CompleteAfterAllSettled, SentRangesTile, Sent
<1>8. QED
  BY <1>1, <1>2, <1>3, <1>4, <1>6, <1>7 DEF Next, Fiber, Terminated

LEMMA SpecIInv == Spec => []IInv
BY InitIInv, NextIInv, PTL DEF Spec

(* The variables keep their types; in particular the loop never moves past *)
(* the end of the file.                                                    *)
THEOREM TypeCorrect == Spec => []TypeOK
<1>1. IInv => TypeOK
  BY DEF IInv
<1>2. QED
  BY <1>1, SpecIInv, PTL

(* No upload has more than MaxConcurrentUploads requests in flight: they   *)
(* are all futures of the current batch, which is never larger.            *)
THEOREM InFlightBounded == Spec => []AtMostMaxInFlight
<1>1. IInv => AtMostMaxInFlight
  <2> SUFFICES ASSUME IInv PROVE AtMostMaxInFlight
    OBVIOUS
  <2>1. Cardinality(inFlight) <= Cardinality(chunks)
    BY FS_Subset DEF IInv, BatchInv
  <2>2. Cardinality(inFlight) \in Nat /\ Cardinality(chunks) \in Nat
    BY FS_Subset, FS_CardinalityType DEF IInv, BatchInv
  <2>3. QED
    BY <2>1, <2>2 DEF IInv, BatchInv, AtMostMaxInFlight
<1>2. QED
  BY <1>1, SpecIInv, PTL

(* completeUpload is only ever sent when every chunk has settled. *)
THEOREM CompleteIsLast == Spec => []CompleteAfterAllSettled
<1>1. IInv => CompleteAfterAllSettled
  BY DEF IInv
<1>2. QED
  BY <1>1, SpecIInv, PTL

(* The ranges sent tile the file up to the loop's position. *)
THEOREM RangesTile == Spec => []SentRangesTile
<1>1. IInv => SentRangesTile
  BY DEF IInv
<1>2. QED
  BY <1>1, SpecIInv, PTL

(* If no request failed, completeUpload finds the whole file stored. *)
THEOREM NothingMissing == Spec => []NothingLostNothingMissing
<1>1. IInv => NothingLostNothingMissing
  <2> SUFFICES ASSUME IInv, pc = "complete", lost = {} PROVE WholeFileStored
    BY DEF NothingLostNothingMissing
  <2>1. Sent = stored /\ chunkStartByte = fileSize
    BY DEF IInv, Sent, CompleteAfterAllSettled, RangeInv
  <2>2. QED
    BY <2>1 DEF IInv, SentRangesTile, WholeFileStored
<1>2. QED
  BY <1>1, SpecIInv, PTL

==========================================================================
