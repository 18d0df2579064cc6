------------------------- MODULE MultipartUpload -------------------------
(***************************************************************************)
(* Uploading a project archive to the cloud: Project.importProject         *)
(* (lib/project.ts) and MultipartUploadService (multipart-upload.ts).      *)
(*                                                                         *)
(* A small archive goes up in one request.  A larger one is cut in chunks; *)
(* at most MaxConcurrentUploads requests are in flight, and the next batch *)
(* starts when the whole current one has settled.  Future.wait of the      *)
(* fibers library waits for every future of its array and rethrows no      *)
(* error, so a chunk whose request failed does not stop the upload: the    *)
(* server, which is asked to complete the upload and given the hash of the *)
(* whole file, is the only one who can notice.                             *)
(***************************************************************************)
EXTENDS Integers, FiniteSets

CONSTANTS
  FileSizes,             \* the archive sizes considered
  ChunkSize,             \* MultipartUploadService.CHUNK_SIZE
  MaxConcurrentUploads,  \* MultipartUploadService.MAX_CONCURRENT_UPLOADS
  ChunkUploadMinFileSize \* Project.CHUNK_UPLOAD_MIN_FILE_SIZE

ASSUME FileSizesAssumption == FileSizes \subseteq Nat
ASSUME ChunkSizeAssumption == ChunkSize \in Nat \ {0}
ASSUME MaxConcurrentUploadsAssumption == MaxConcurrentUploads \in Nat \ {0}
ASSUME ChunkUploadMinFileSizeAssumption == ChunkUploadMinFileSize \in Nat

VARIABLES
  pc,             \* where the importing fiber is
  fileSize,       \* size of the archive
  chunkStartByte, \* first byte not handed to a chunk yet
  chunks,         \* the current batch: the futures in the array `chunks`
  inFlight,       \* chunks whose request has not settled
  stored,         \* chunks the server has accepted
  lost,           \* chunks whose request ended in an error
  bucket          \* the server's view of the upload session

vars == <<pc, fileSize, chunkStartByte, chunks, inFlight, stored, lost, bucket>>

(* A chunk is its Content-Range: first byte, and first byte after it. *)
Chunk == [start : Nat, end : Nat]

Smaller(a, b) == IF a < b THEN a ELSE b

NextChunkUnclamped(start) == [start |-> start, end |-> start + ChunkSize]

(* The chunk uploadFileByChunks cuts at byte `start`. *)
NextChunk(start) == [start |-> start, end |-> Smaller(start + ChunkSize, fileSize)]

(* Content-Length of the request of chunk c. *)
ContentLength(c) == c.end - c.start

TypeOK ==
  /\ pc \in {"start", "loop", "settle", "complete", "import", "done", "failed"}
  /\ fileSize \in FileSizes
  /\ chunkStartByte \in 0 .. fileSize
  /\ chunks \subseteq Chunk
  /\ inFlight \subseteq Chunk
  /\ stored \subseteq Chunk
  /\ lost \subseteq Chunk
  /\ bucket \in {"none", "open", "complete"}

Init ==
  /\ pc = "start"
  /\ fileSize \in FileSizes
  /\ chunkStartByte = 0
  /\ chunks = {}
  /\ inFlight = {}
  /\ stored = {}
  /\ lost = {}
  /\ bucket = "none"

--------------------------------------------------------------------------
(* An archive of at most CHUNK_UPLOAD_MIN_FILE_SIZE bytes: one request,    *)
(* which succeeds or throws.                                               *)
ImportDirectly ==
  /\ pc = "start"
  /\ fileSize <= ChunkUploadMinFileSize
  /\ pc' \in {"done", "failed"}
  /\ UNCHANGED <<fileSize, chunkStartByte, chunks, inFlight, stored, lost, bucket>>

(* uploadFileByChunks starts: $server.upload.initUpload succeeds ... *)
InitUpload ==
  /\ pc = "start"
  /\ fileSize > ChunkUploadMinFileSize
  /\ bucket' = "open"
  /\ pc' = "loop"
  /\ UNCHANGED <<fileSize, chunkStartByte, chunks, inFlight, stored, lost>>

(* ... or throws out of the command. *)
InitUploadFails ==
  /\ pc = "start"
  /\ fileSize > ChunkUploadMinFileSize
  /\ pc' = "failed"
  /\ UNCHANGED <<fileSize, chunkStartByte, chunks, inFlight, stored, lost, bucket>>

(* Slips of the loop: the batch measured before the push, a start byte     *)
(* past an end byte taken as inclusive, a start byte that never advances.  *)
SendChunkBatchTooLarge ==
  LET c == NextChunk(chunkStartByte) IN
  /\ pc = "loop"
  /\ chunkStartByte < fileSize
  /\ chunks' = chunks \cup {c}
  /\ inFlight' = inFlight \cup {c}
  /\ chunkStartByte' = c.end
  /\ pc' = IF Cardinality(chunks) = MaxConcurrentUploads THEN "settle" ELSE "loop"
  /\ UNCHANGED <<fileSize, stored, lost, bucket>>

SendChunkFrom(next) ==
  LET c == NextChunk(chunkStartByte) IN
  /\ pc = "loop"
  /\ chunkStartByte < fileSize
  /\ chunks' = chunks \cup {c}
  /\ inFlight' = inFlight \cup {c}
  /\ chunkStartByte' = next
  /\ pc' = IF Cardinality(chunks') = MaxConcurrentUploads THEN "settle" ELSE "loop"
  /\ UNCHANGED <<fileSize, stored, lost, bucket>>

SendChunkSkipsByte == SendChunkFrom(Smaller(NextChunk(chunkStartByte).end + 1, fileSize))

SendChunkStandsStill == SendChunkFrom(chunkStartByte)

(* One turn of the loop: the request of the next chunk is started and its  *)
(* future pushed; when the batch is full the fiber waits for it.           *)
SendChunk ==
  LET c == NextChunk(chunkStartByte) IN
  /\ pc = "loop"
  /\ chunkStartByte < fileSize
  /\ chunks' = chunks \cup {c}
  /\ inFlight' = inFlight \cup {c}
  /\ chunkStartByte' = c.end
  /\ pc' = IF Cardinality(chunks') = MaxConcurrentUploads THEN "settle" ELSE "loop"
  /\ UNCHANGED <<fileSize, stored, lost, bucket>>

(* The request of chunk c ends, in any order: the server has it ... *)
ChunkStored(c) ==
  /\ c \in inFlight
  /\ inFlight' = inFlight \ {c}
  /\ stored' = stored \cup {c}
  /\ UNCHANGED <<pc, fileSize, chunkStartByte, chunks, lost, bucket>>

(* ... or it throws, into a future whose error nobody reads. *)
ChunkLost(c) ==
  /\ c \in inFlight
  /\ inFlight' = inFlight \ {c}
  /\ lost' = lost \cup {c}
  /\ UNCHANGED <<pc, fileSize, chunkStartByte, chunks, stored, bucket>>

(* Future.wait(chunks) on a full batch returns. *)
BatchSettled ==
  /\ pc = "settle"
  /\ chunks \cap inFlight = {}
  /\ chunks' = {}
  /\ pc' = "loop"
  /\ UNCHANGED <<fileSize, chunkStartByte, inFlight, stored, lost, bucket>>

LastBatchNotAwaited ==
  /\ pc = "loop"
  /\ chunkStartByte >= fileSize
  /\ pc' = "complete"
  /\ UNCHANGED <<fileSize, chunkStartByte, chunks, inFlight, stored, lost, bucket>>

(* The loop ends; a last, partial batch is waited for. *)
LastBatchSettled ==
  /\ pc = "loop"
  /\ chunkStartByte >= fileSize
  /\ chunks # {} => chunks \cap inFlight = {}
  /\ pc' = "complete"
  /\ UNCHANGED <<fileSize, chunkStartByte, chunks, inFlight, stored, lost, bucket>>

(* The bytes of the chunks the server has are the whole file. *)
WholeFileStored ==
  \A b \in 0 .. fileSize - 1 : \E c \in stored : c.start <= b /\ b < c.end

(* completeUpload with the hash of the file: the server compares it with   *)
(* the bytes it has and accepts ...                                        *)
CompleteUpload ==
  /\ pc = "complete"
  /\ WholeFileStored
  /\ bucket' = "complete"
  /\ pc' = "import"
  /\ UNCHANGED <<fileSize, chunkStartByte, chunks, inFlight, stored, lost>>

(* ... or refuses (and any request may fail): the command throws. *)
CompleteUploadFails ==
  /\ pc = "complete"
  /\ pc' = "failed"
  /\ UNCHANGED <<fileSize, chunkStartByte, chunks, inFlight, stored, lost, bucket>>

(* importLocalProject with the bucket just filled, or its failure. *)
ImportUploadedProject ==
  /\ pc = "import"
  /\ pc' \in {"done", "failed"}
  /\ UNCHANGED <<fileSize, chunkStartByte, chunks, inFlight, stored, lost, bucket>>

(* The command has ended: nothing is left to do. *)
Terminated ==
  /\ pc \in {"done", "failed"}
  /\ inFlight = {}
  /\ UNCHANGED vars

Fiber ==
  \/ ImportDirectly \/ InitUpload \/ InitUploadFails \/ SendChunk \/ BatchSettled
  \/ LastBatchSettled \/ CompleteUpload \/ CompleteUploadFails \/ ImportUploadedProject

Settle(c) == ChunkStored(c) \/ ChunkLost(c)

Next == Fiber \/ (\E c \in inFlight : Settle(c)) \/ Terminated

(* A fiber that can run does; a request ends, if only by a network error. *)
Fairness ==
  /\ WF_vars(Fiber)
  /\ WF_vars(\E c \in inFlight : Settle(c))

Spec == Init /\ [][Next]_vars

FairSpec == Spec /\ Fairness

--------------------------------------------------------------------------
(* Never more than MAX_CONCURRENT_UPLOADS requests of one upload are in    *)
(* flight, whatever the order in which they settle.                        *)
AtMostMaxInFlight == Cardinality(inFlight) <= MaxConcurrentUploads

(* completeUpload is sent, and the project imported, only when no chunk of *)
(* the file is still on its way: the last, partial batch is awaited too.   *)
CompleteAfterAllSettled == pc \in {"complete", "import", "done"} => inFlight = {}

Sent == inFlight \cup stored \cup lost

(* The Content-Ranges sent so far tile the file: each byte before          *)
(* chunkStartByte is in exactly one chunk, and a chunk settles one way.    *)
SentRangesTile ==
  /\ \A b \in 0 .. chunkStartByte - 1 :
       \E c \in Sent : c.start <= b /\ b < c.end
  /\ \A c, d \in Sent : c = d \/ c.end <= d.start \/ d.end <= c.start
  /\ inFlight \cap stored = {} /\ inFlight \cap lost = {} /\ stored \cap lost = {}

(* An upload none of whose requests failed hands the server every byte of  *)
(* the file: completeUpload cannot be refused for a missing one.           *)
NothingLostNothingMissing == pc = "complete" /\ lost = {} => WholeFileStored

(* The command ends: a lost chunk never blocks the wait for its batch.     *)
UploadTerminates == <>(pc \in {"done", "failed"})

==========================================================================
