----------------------- MODULE MCMultipartUpload -----------------------
(* Archives of 0 to 11 bytes, cut in chunks of 2: up to six chunks, two    *)
(* full batches of three or one full and one partial batch, and sizes that *)
(* are, and are not, multiples of the chunk size.                          *)
EXTENDS MultipartUpload

MCFileSizes == 0 .. 11

=========================================================================
