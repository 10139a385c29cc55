---------------------------- MODULE MCByteBuffer -----------------------------
(* A ring of three bytes; chunks of up to one byte too many. *)
EXTENDS ByteBuffer

ShortChunks == UNION {[1 .. n -> Byte] : n \in 0 .. Capacity + 1}

=============================================================================
