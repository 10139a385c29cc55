----------------------------- MODULE ByteBuffer ------------------------------
(***************************************************************************)
(* cByteBuffer, the ring that holds received packets and packets being     *)
(* built.  It is used by one thread at a time, and a call is one step.     *)
(* The typed Read and Write functions are NEEDBYTES or PUTBYTES followed   *)
(* by ReadBuf or WriteBuf of the size of the type: Read(n) and Write(s).   *)
(***************************************************************************)
EXTENDS Naturals, Sequences

CONSTANTS
  Byte,      \* the values of a byte
  More,      \* bytes that say a VarInt goes on (bit 7)
  Capacity,  \* a_BufferSize of the constructor
  Long,      \* strings of this length need a VarInt of two bytes (128)
  Chunks     \* byte sequences that are written

ASSUME CapacityAssumption == Capacity \in Nat

ASSUME BytesAssumption ==
  /\ More \subseteq Byte
  /\ Chunks \subseteq Seq(Byte)

ASSUME LongAssumption == Long \in Nat \ {0}

VARIABLES
  m_Buffer,
  m_DataStart,
  m_WritePos,
  m_ReadPos,
  ret          \* what the last call returned, and the bytes it produced

vars == <<m_Buffer, m_DataStart, m_WritePos, m_ReadPos, ret>>

\* One byte more than fits, so that full and empty differ.
m_BufferSize == Capacity + 1
Positions == 0 .. Capacity

-----------------------------------------------------------------------------
(* Positions on the ring *)

\* ReadBuf and WriteBuf: the position after n bytes from pos, where the part
\* till the end is moved first.  Mutant: one that ends there is not wrapped.
Advance_Mutant(pos, n) ==
  IF m_BufferSize - pos < n THEN n - (m_BufferSize - pos) ELSE pos + n
Advance(pos, n) ==
  IF m_BufferSize - pos <= n THEN n - (m_BufferSize - pos) ELSE pos + n

\* AdvanceReadPos, which only SkipRead uses.
AdvanceReadPos(n) ==
  IF m_ReadPos + n >= m_BufferSize THEN m_ReadPos + n - m_BufferSize
  ELSE m_ReadPos + n

\* How far pos is behind start, and the n bytes from start on.
Offset(start, pos) ==
  IF pos >= start THEN pos - start ELSE m_BufferSize - start + pos

At(start, k) == IF start + k < m_BufferSize THEN start + k ELSE start + k - m_BufferSize

Contents(start, n) == [i \in 1 .. n |-> m_Buffer[At(start, i - 1)]]

GetFreeSpace ==
  IF m_WritePos >= m_DataStart THEN m_BufferSize - m_WritePos + m_DataStart - 1
  ELSE m_DataStart - m_WritePos - 1

GetUsedSpace == m_BufferSize - GetFreeSpace - 1

GetReadableSpace ==
  IF m_ReadPos > m_WritePos THEN m_BufferSize - m_ReadPos + m_WritePos
  ELSE m_WritePos - m_ReadPos

\* The two memcpy()s of a write: from pos to the end, and the rest at 0.
Copied(pos, s) ==
  [k \in Positions |->
     IF Offset(pos, k) < Len(s) THEN s[Offset(pos, k) + 1] ELSE m_Buffer[k]]

-----------------------------------------------------------------------------
Return(ok, bytes) == ret' = [ok |-> ok, bytes |-> bytes]

\* NEEDBYTES and PUTBYTES: nothing is done.
Refuses ==
  /\ Return(FALSE, <<>>)
  /\ UNCHANGED <<m_Buffer, m_DataStart, m_WritePos, m_ReadPos>>

Puts(s) ==
  /\ m_Buffer' = Copied(m_WritePos, s)
  /\ m_WritePos' = Advance(m_WritePos, Len(s))
  /\ UNCHANGED <<m_DataStart, m_ReadPos>>

\* Write, WriteBuf
Write(s) ==
  \/ GetFreeSpace < Len(s) /\ Refuses
  \/ GetFreeSpace >= Len(s) /\ Puts(s) /\ Return(TRUE, <<>>)

\* The VarInt of a string's length.
IsLength(length, s) ==
  \/ Len(s) < Long /\ Len(length) = 1 /\ length[1] \notin More
  \/ Len(s) >= Long /\ Len(length) = 2 /\ length[1] \in More /\ length[2] \notin More

\* WriteVarUTF8String: the test counts one byte for the length.  Mutant: the
\* length is not counted.
StringFits_Mutant(s) == GetFreeSpace >= Len(s)
StringFits(s) == GetFreeSpace >= Len(s) + 1

WriteString(length, s) ==
  \/ ~StringFits(s) /\ Refuses
  \/ /\ StringFits(s) /\ GetFreeSpace < Len(length) + Len(s)
     /\ Puts(length) /\ Return(FALSE, <<>>)
  \/ /\ StringFits(s) /\ GetFreeSpace >= Len(length) + Len(s)
     /\ Puts(length \o s) /\ Return(TRUE, <<>>)

Takes(n) ==
  /\ m_ReadPos' = Advance(m_ReadPos, n)
  /\ UNCHANGED <<m_Buffer, m_DataStart, m_WritePos>>

\* ReadBuf, ReadString; ReadAll is Read(GetReadableSpace).
Read(n) ==
  \/ GetReadableSpace < n /\ Refuses
  \/ GetReadableSpace >= n /\ Takes(n) /\ Return(TRUE, Contents(m_ReadPos, n))

\* ReadVarInt32 and 64 read byte by byte; what they have read when the bytes
\* run out stays read.
GoesOn(n) == \A i \in 1 .. n : Contents(m_ReadPos, n)[i] \in More

ReadVarInt ==
  \/ \E n \in 1 .. GetReadableSpace :
       /\ GoesOn(n - 1) /\ ~GoesOn(n)
       /\ Takes(n) /\ Return(TRUE, Contents(m_ReadPos, n))
  \/ /\ GoesOn(GetReadableSpace)
     /\ Takes(GetReadableSpace) /\ Return(FALSE, <<>>)

SkipRead(n) ==
  \/ GetReadableSpace < n /\ Refuses
  \/ /\ GetReadableSpace >= n
     /\ m_ReadPos' = AdvanceReadPos(n)
     /\ Return(TRUE, <<>>)
     /\ UNCHANGED <<m_Buffer, m_DataStart, m_WritePos>>

\* Mutant: what has not been read yet goes too.
CommitRead_Mutant ==
  /\ m_DataStart' = m_WritePos
  /\ Return(TRUE, <<>>)
  /\ UNCHANGED <<m_Buffer, m_WritePos, m_ReadPos>>
CommitRead ==
  /\ m_DataStart' = m_ReadPos
  /\ Return(TRUE, <<>>)
  /\ UNCHANGED <<m_Buffer, m_WritePos, m_ReadPos>>

ResetRead ==
  /\ m_ReadPos' = m_DataStart
  /\ Return(TRUE, <<>>)
  /\ UNCHANGED <<m_Buffer, m_DataStart, m_WritePos>>

\* The bytes from m_DataStart to m_ReadPos.
ReadAgain ==
  /\ Return(TRUE, Contents(m_DataStart, Offset(m_DataStart, m_ReadPos)))
  /\ UNCHANGED <<m_Buffer, m_DataStart, m_WritePos, m_ReadPos>>

\* The memset() has a length of 0.
ClearAll ==
  /\ m_DataStart' = 0 /\ m_WritePos' = 0 /\ m_ReadPos' = 0
  /\ Return(TRUE, <<>>)
  /\ UNCHANGED m_Buffer

-----------------------------------------------------------------------------
\* The ring starts with whatever the memory holds.
Init ==
  /\ m_Buffer \in [Positions -> Byte]
  /\ m_DataStart = 0 /\ m_WritePos = 0 /\ m_ReadPos = 0
  /\ ret = [ok |-> TRUE, bytes |-> <<>>]

Next ==
  \/ \E s \in Chunks : Write(s)
  \/ \E s \in Chunks, length \in Chunks : IsLength(length, s) /\ WriteString(length, s)
  \/ \E n \in 0 .. Capacity + 1 : Read(n) \/ SkipRead(n)
  \/ ReadVarInt \/ CommitRead \/ ResetRead \/ ReadAgain \/ ClearAll

Spec == Init /\ [][Next]_vars

-----------------------------------------------------------------------------
\* What CheckValid() asserts in every call: the positions are on the ring.
TypeOK ==
  /\ m_Buffer \in [Positions -> Byte]
  /\ m_DataStart \in Positions
  /\ m_WritePos \in Positions
  /\ m_ReadPos \in Positions
  /\ ret \in [ok : BOOLEAN, bytes : Seq(Byte)]

\* The read position lies between the start of the data and the write position,
\* around the ring: however reads, resets, commits and wrapped writes follow
\* each other, no byte is both free and unread.
ReadWithinData == GetReadableSpace <= GetUsedSpace

Fifo == INSTANCE ByteFifo WITH
  data <- Contents(m_DataStart, GetUsedSpace),
  done <- GetUsedSpace - GetReadableSpace

\* The ring is a queue of Capacity bytes: what is read is what was written, in
\* order, and never what the memory held before.
IsFifo == Fifo!Spec

=============================================================================
