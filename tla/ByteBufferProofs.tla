-------------------------- MODULE ByteBufferProofs ---------------------------
(***************************************************************************)
(* For every capacity: the positions of a cByteBuffer stay on the ring,    *)
(* the read position stays within the data, and the ring is a queue.       *)
(***************************************************************************)
EXTENDS ByteBuffer, SequenceTheorems, TLAPS

-----------------------------------------------------------------------------
(* Positions on a ring, for any start, read and write position *)

\* Moving n bytes on is the same, whether the part till the end is copied first
\* (ReadBuf, WriteBuf) or the position is corrected afterwards (AdvanceReadPos).
LEMMA AdvanceIsAt ==
  ASSUME NEW start \in Positions, NEW n \in 0 .. Capacity
  PROVE  /\ Advance(start, n) = At(start, n)
         /\ At(start, n) \in Positions
  BY CapacityAssumption DEF Advance, At, Positions, m_BufferSize

\* Going on from where one is.
LEMMA AtAdds ==
  ASSUME NEW start \in Positions, NEW j \in 0 .. Capacity, NEW k \in 0 .. Capacity,
         j + k <= Capacity
  PROVE  At(At(start, j), k) = At(start, j + k)
  BY CapacityAssumption DEF At, Positions, m_BufferSize

\* Offset undoes At.
LEMMA OffsetOfAt ==
  ASSUME NEW start \in Positions, NEW k \in 0 .. Capacity
  PROVE  Offset(start, At(start, k)) = k
  BY CapacityAssumption DEF Offset, At, Positions, m_BufferSize

\* At undoes Offset.
LEMMA AtOfOffset ==
  ASSUME NEW start \in Positions, NEW pos \in Positions
  PROVE  /\ Offset(start, pos) \in 0 .. Capacity
         /\ At(start, Offset(start, pos)) = pos
  BY CapacityAssumption DEF Offset, At, Positions, m_BufferSize

\* The three spaces are distances on the ring.
LEMMA SpacesAreOffsets ==
  ASSUME m_DataStart \in Positions, m_WritePos \in Positions, m_ReadPos \in Positions
  PROVE  /\ GetUsedSpace = Offset(m_DataStart, m_WritePos)
         /\ GetReadableSpace = Offset(m_ReadPos, m_WritePos)
         /\ GetFreeSpace = Capacity - GetUsedSpace
         /\ GetUsedSpace \in 0 .. Capacity
         /\ GetReadableSpace \in 0 .. Capacity
         /\ GetFreeSpace \in 0 .. Capacity
  BY CapacityAssumption DEF GetUsedSpace, GetReadableSpace, GetFreeSpace, Offset,
     Positions, m_BufferSize

\* A write moves the write position away from both others, a read moves the
\* read position towards it.
LEMMA Moves ==
  ASSUME NEW start \in Positions, NEW read \in Positions, NEW write \in Positions,
         Offset(read, write) <= Offset(start, write),
         NEW n \in 0 .. Capacity
  PROVE  /\ n <= Capacity - Offset(start, write) =>
              /\ Offset(start, At(write, n)) = Offset(start, write) + n
              /\ Offset(read, At(write, n)) = Offset(read, write) + n
         /\ n <= Offset(read, write) =>
              Offset(At(read, n), write) = Offset(read, write) - n
         /\ Offset(start, read) = Offset(start, write) - Offset(read, write)
  BY CapacityAssumption DEF Offset, At, Positions, m_BufferSize

-----------------------------------------------------------------------------
(* Invariance *)

Inv == TypeOK /\ ReadWithinData

\* The spaces are distances, after a step as well.
LEMMA SpacesAreOffsetsNext ==
  ASSUME m_DataStart' \in Positions, m_WritePos' \in Positions, m_ReadPos' \in Positions
  PROVE  /\ GetUsedSpace' = Offset(m_DataStart', m_WritePos')
         /\ GetReadableSpace' = Offset(m_ReadPos', m_WritePos')
  BY CapacityAssumption DEF GetUsedSpace, GetReadableSpace, GetFreeSpace, Offset,
     Positions, m_BufferSize

\* What a write of s that fits does to the ring.
LEMMA PutsStep ==
  ASSUME Inv, NEW s \in Seq(Byte), Len(s) <= GetFreeSpace, Puts(s)
  PROVE  /\ m_Buffer' \in [Positions -> Byte]
         /\ m_WritePos' = At(m_WritePos, Len(s))
         /\ m_WritePos' \in Positions
         /\ GetUsedSpace' = GetUsedSpace + Len(s)
         /\ GetReadableSpace' = GetReadableSpace + Len(s)
<1> DEFINE n == Len(s)
<1>1. /\ m_DataStart \in Positions /\ m_WritePos \in Positions /\ m_ReadPos \in Positions
      /\ m_DataStart' = m_DataStart /\ m_ReadPos' = m_ReadPos
  BY DEF Inv, TypeOK, Puts
<1>2. n \in 0 .. Capacity
  BY <1>1, SpacesAreOffsets, CapacityAssumption
<1>3. m_WritePos' = At(m_WritePos, n) /\ m_WritePos' \in Positions
  BY <1>1, <1>2, AdvanceIsAt DEF Puts
<1>4. GetUsedSpace' = GetUsedSpace + n /\ GetReadableSpace' = GetReadableSpace + n
  <2>1. Offset(m_ReadPos, m_WritePos) <= Offset(m_DataStart, m_WritePos)
    BY <1>1, SpacesAreOffsets DEF Inv, ReadWithinData
  <2>2. n <= Capacity - Offset(m_DataStart, m_WritePos)
    BY <1>1, SpacesAreOffsets
  <2>3. /\ Offset(m_DataStart, At(m_WritePos, n)) = Offset(m_DataStart, m_WritePos) + n
        /\ Offset(m_ReadPos, At(m_WritePos, n)) = Offset(m_ReadPos, m_WritePos) + n
    BY <1>1, <1>2, <2>1, <2>2, Moves
  <2> QED BY <1>1, <1>3, <2>3, SpacesAreOffsets, SpacesAreOffsetsNext
<1>5. m_Buffer' \in [Positions -> Byte]
  <2>1. SUFFICES ASSUME NEW k \in Positions
                 PROVE  (IF Offset(m_WritePos, k) < n THEN s[Offset(m_WritePos, k) + 1]
                         ELSE m_Buffer[k]) \in Byte
    BY DEF Puts, Copied
  <2>2. Offset(m_WritePos, k) \in 0 .. Capacity
    BY <1>1, AtOfOffset
  <2>3. CASE Offset(m_WritePos, k) < n
    <3>1. Offset(m_WritePos, k) + 1 \in 1 .. Len(s)
      BY <2>2, <2>3, <1>2, CapacityAssumption
    <3> QED BY <2>3, <3>1
  <2>4. CASE ~(Offset(m_WritePos, k) < n)
    BY <2>4 DEF Inv, TypeOK
  <2> QED BY <2>3, <2>4
<1> QED BY <1>3, <1>4, <1>5

\* What taking n readable bytes does: the data stays, and is less by n to read.
LEMMA TakesStep ==
  ASSUME Inv, NEW n \in 0 .. Capacity, n <= GetReadableSpace,
         m_ReadPos' = Advance(m_ReadPos, n),
         UNCHANGED <<m_DataStart, m_WritePos>>
  PROVE  /\ m_ReadPos' \in Positions
         /\ GetUsedSpace' = GetUsedSpace
         /\ GetReadableSpace' = GetReadableSpace - n
<1>1. m_DataStart \in Positions /\ m_WritePos \in Positions /\ m_ReadPos \in Positions
  BY DEF Inv, TypeOK
<1>2. m_ReadPos' = At(m_ReadPos, n) /\ m_ReadPos' \in Positions
  BY <1>1, AdvanceIsAt
<1>3. Offset(m_ReadPos, m_WritePos) <= Offset(m_DataStart, m_WritePos)
  BY <1>1, SpacesAreOffsets DEF Inv, ReadWithinData
<1>4. n <= Offset(m_ReadPos, m_WritePos)
  BY <1>1, SpacesAreOffsets
<1>5. Offset(At(m_ReadPos, n), m_WritePos) = Offset(m_ReadPos, m_WritePos) - n
  BY <1>1, <1>3, <1>4, Moves
<1> QED BY <1>1, <1>2, <1>5, SpacesAreOffsets, SpacesAreOffsetsNext

\* AdvanceReadPos is another way to write Advance.
LEMMA AdvanceReadPosIsAdvance ==
  ASSUME m_ReadPos \in Positions, NEW n \in 0 .. Capacity
  PROVE  AdvanceReadPos(n) = Advance(m_ReadPos, n)
  BY CapacityAssumption DEF AdvanceReadPos, Advance, Positions, m_BufferSize

\* What is read from the ring is a sequence of bytes.
LEMMA ContentsType ==
  ASSUME m_Buffer \in [Positions -> Byte], NEW start \in Positions, NEW n \in 0 .. Capacity
  PROVE  /\ Contents(start, n) \in Seq(Byte)
         /\ Len(Contents(start, n)) = n
<1>1. \A i \in 1 .. n : m_Buffer[At(start, i - 1)] \in Byte
  <2> SUFFICES ASSUME NEW i \in 1 .. n PROVE m_Buffer[At(start, i - 1)] \in Byte
    OBVIOUS
  <2>1. i - 1 \in 0 .. Capacity
    BY CapacityAssumption
  <2> QED BY <2>1, AdvanceIsAt
<1> QED BY <1>1, CapacityAssumption DEF Contents

\* What a call returns is a result.
LEMMA ReturnType ==
  ASSUME NEW ok \in BOOLEAN, NEW bytes \in Seq(Byte), Return(ok, bytes)
  PROVE  ret' \in [ok : BOOLEAN, bytes : Seq(Byte)]
  BY DEF Return

\* A string and its length, written at once.
LEMMA LengthTypes ==
  ASSUME NEW s \in Chunks, NEW length \in Chunks
  PROVE  /\ s \in Seq(Byte) /\ length \in Seq(Byte)
         /\ length \o s \in Seq(Byte)
         /\ Len(length \o s) = Len(length) + Len(s)
         /\ Len(length) \in Nat /\ Len(s) \in Nat
  BY BytesAssumption

\* The VarInt of a string's length fits when the length and one byte do, as a
\* length of two bytes belongs to a string of at least one.
LEMMA LengthFits ==
  ASSUME NEW s \in Chunks, NEW length \in Chunks, IsLength(length, s), StringFits(s),
         GetFreeSpace \in Nat
  PROVE  Len(length) <= GetFreeSpace
<1>1. Len(length) \in Nat /\ Len(s) \in Nat
  BY LengthTypes
<1>2. CASE Len(length) = 1
  BY <1>1, <1>2 DEF StringFits
<1>3. CASE Len(s) >= Long /\ Len(length) = 2
  BY <1>1, <1>3, LongAssumption DEF StringFits
<1> QED BY <1>2, <1>3 DEF IsLength

\* A VarInt takes some of the readable bytes.
LEMMA VarIntTakes ==
  ASSUME Inv, ReadVarInt
  PROVE  \E n \in 0 .. GetReadableSpace, ok \in BOOLEAN, bytes \in Seq(Byte) :
           Takes(n) /\ Return(ok, bytes)
<1>1. /\ GetReadableSpace \in 0 .. Capacity
      /\ m_ReadPos \in Positions /\ m_Buffer \in [Positions -> Byte]
  BY SpacesAreOffsets DEF Inv, TypeOK
<1>2. CASE \E n \in 1 .. GetReadableSpace :
             /\ GoesOn(n - 1) /\ ~GoesOn(n)
             /\ Takes(n) /\ Return(TRUE, Contents(m_ReadPos, n))
  <2>1. PICK n \in 1 .. GetReadableSpace : Takes(n) /\ Return(TRUE, Contents(m_ReadPos, n))
    BY <1>2
  <2>2. n \in 0 .. Capacity /\ n \in 0 .. GetReadableSpace
    BY <1>1, CapacityAssumption
  <2>3. Contents(m_ReadPos, n) \in Seq(Byte)
    BY <1>1, <2>2, ContentsType
  <2> QED BY <2>1, <2>2, <2>3
<1>3. CASE Takes(GetReadableSpace) /\ Return(FALSE, <<>>)
  <2>1. GetReadableSpace \in 0 .. GetReadableSpace /\ <<>> \in Seq(Byte)
    BY <1>1, CapacityAssumption
  <2> QED BY <1>3, <2>1
<1> QED BY <1>2, <1>3 DEF ReadVarInt

\* An empty ring is valid, whatever the memory holds.
LEMMA InvInit == Init => Inv
<1> SUFFICES ASSUME Init PROVE Inv
  OBVIOUS
<1>1. TypeOK
  <2>1. <<>> \in Seq(Byte)
    OBVIOUS
  <2> QED BY <2>1, CapacityAssumption DEF Init, TypeOK, Positions
<1>2. GetUsedSpace = 0 /\ GetReadableSpace = 0
  BY CapacityAssumption DEF Init, GetUsedSpace, GetFreeSpace, GetReadableSpace, m_BufferSize
<1> QED BY <1>1, <1>2 DEF Inv, ReadWithinData

\* The steps of a call keep the invariant.
LEMMA PutsKeepsInv ==
  ASSUME Inv, NEW s \in Seq(Byte), Len(s) <= GetFreeSpace, Puts(s),
         NEW ok \in BOOLEAN, Return(ok, <<>>)
  PROVE  Inv'
<1>1. ret' \in [ok : BOOLEAN, bytes : Seq(Byte)]
  <2>1. <<>> \in Seq(Byte)
    OBVIOUS
  <2> QED BY <2>1, ReturnType
<1>2. /\ m_Buffer' \in [Positions -> Byte] /\ m_WritePos' \in Positions
      /\ GetUsedSpace' = GetUsedSpace + Len(s)
      /\ GetReadableSpace' = GetReadableSpace + Len(s)
  BY PutsStep
<1>3. /\ m_DataStart \in Positions /\ m_WritePos \in Positions /\ m_ReadPos \in Positions
      /\ m_DataStart' = m_DataStart /\ m_ReadPos' = m_ReadPos
  BY DEF Inv, TypeOK, Puts
<1>4. GetReadableSpace' <= GetUsedSpace'
  BY <1>2, <1>3, SpacesAreOffsets, CapacityAssumption DEF Inv, ReadWithinData
<1> QED BY <1>1, <1>2, <1>3, <1>4 DEF Inv, TypeOK, ReadWithinData

\* Reading or skipping readable bytes keeps the invariant.
LEMMA TakesKeepsInv ==
  ASSUME Inv, NEW n \in 0 .. Capacity, n <= GetReadableSpace,
         m_ReadPos' = Advance(m_ReadPos, n),
         UNCHANGED <<m_Buffer, m_DataStart, m_WritePos>>,
         ret' \in [ok : BOOLEAN, bytes : Seq(Byte)]
  PROVE  Inv'
<1>1. /\ m_ReadPos' \in Positions
      /\ GetUsedSpace' = GetUsedSpace
      /\ GetReadableSpace' = GetReadableSpace - n
  BY TakesStep
<1>2. m_DataStart \in Positions /\ m_WritePos \in Positions /\ m_ReadPos \in Positions
  BY DEF Inv, TypeOK
<1>3. GetReadableSpace' <= GetUsedSpace'
  BY <1>1, <1>2, SpacesAreOffsets, CapacityAssumption DEF Inv, ReadWithinData
<1> QED BY <1>1, <1>3 DEF Inv, TypeOK, ReadWithinData

\* So does a call that moves nothing.
LEMMA RefusesKeepsInv ==
  ASSUME Inv, UNCHANGED <<m_Buffer, m_DataStart, m_WritePos, m_ReadPos>>,
         ret' \in [ok : BOOLEAN, bytes : Seq(Byte)]
  PROVE  Inv'
  BY DEF Inv, TypeOK, ReadWithinData, GetReadableSpace, GetUsedSpace, GetFreeSpace

\* Every call keeps the invariant.
LEMMA InvNext == Inv /\ [Next]_vars => Inv'
<1> SUFFICES ASSUME Inv, [Next]_vars PROVE Inv'
  OBVIOUS
<1>t. /\ m_DataStart \in Positions /\ m_WritePos \in Positions /\ m_ReadPos \in Positions
      /\ m_Buffer \in [Positions -> Byte]
      /\ ret \in [ok : BOOLEAN, bytes : Seq(Byte)]
  BY DEF Inv, TypeOK
<1>s. /\ GetFreeSpace \in 0 .. Capacity
      /\ GetReadableSpace \in 0 .. Capacity
      /\ GetUsedSpace \in 0 .. Capacity
  BY <1>t, SpacesAreOffsets
<1>e. <<>> \in Seq(Byte)
  OBVIOUS
<1>r. ASSUME Refuses PROVE Inv'
  <2>1. ret' \in [ok : BOOLEAN, bytes : Seq(Byte)]
    BY <1>r, <1>e, ReturnType DEF Refuses
  <2> QED BY <1>r, <2>1, RefusesKeepsInv DEF Refuses
<1>1. ASSUME NEW s \in Chunks, Write(s) PROVE Inv'
  <2>1. s \in Seq(Byte) /\ Len(s) \in Nat
    BY LengthTypes
  <2>2. CASE Refuses
    BY <1>r, <2>2
  <2>3. CASE GetFreeSpace >= Len(s) /\ Puts(s) /\ Return(TRUE, <<>>)
    <3>1. Len(s) <= GetFreeSpace
      BY <2>1, <2>3, <1>s, CapacityAssumption
    <3> QED BY <2>1, <2>3, <3>1, PutsKeepsInv
  <2> QED BY <1>1, <2>2, <2>3 DEF Write
<1>2. ASSUME NEW s \in Chunks, NEW length \in Chunks, IsLength(length, s),
             WriteString(length, s)
      PROVE  Inv'
  <2>1. /\ s \in Seq(Byte) /\ length \in Seq(Byte) /\ length \o s \in Seq(Byte)
        /\ Len(length \o s) = Len(length) + Len(s)
        /\ Len(length) \in Nat /\ Len(s) \in Nat
    BY LengthTypes
  <2>2. CASE Refuses
    BY <1>r, <2>2
  <2>3. CASE /\ StringFits(s) /\ GetFreeSpace < Len(length) + Len(s)
             /\ Puts(length) /\ Return(FALSE, <<>>)
    <3>1. Len(length) <= GetFreeSpace
      BY <1>2, <2>1, <2>3, <1>s, LengthFits
    <3> QED BY <2>1, <2>3, <3>1, PutsKeepsInv
  <2>4. CASE /\ GetFreeSpace >= Len(length) + Len(s)
             /\ Puts(length \o s) /\ Return(TRUE, <<>>)
    <3>1. Len(length \o s) <= GetFreeSpace
      BY <2>1, <2>4, <1>s, CapacityAssumption
    <3> QED BY <2>1, <2>4, <3>1, PutsKeepsInv
  <2> QED BY <1>2, <2>2, <2>3, <2>4 DEF WriteString
<1>3. ASSUME NEW n \in 0 .. Capacity + 1, Read(n) PROVE Inv'
  <2>1. CASE Refuses
    BY <1>r, <2>1
  <2>2. CASE GetReadableSpace >= n /\ Takes(n) /\ Return(TRUE, Contents(m_ReadPos, n))
    <3>1. n \in 0 .. Capacity /\ n <= GetReadableSpace
      BY <2>2, <1>s, CapacityAssumption
    <3>2. ret' \in [ok : BOOLEAN, bytes : Seq(Byte)]
      BY <2>2, <3>1, <1>t, ContentsType, ReturnType
    <3> QED BY <2>2, <3>1, <3>2, TakesKeepsInv DEF Takes
  <2> QED BY <1>3, <2>1, <2>2 DEF Read
<1>4. ASSUME NEW n \in 0 .. Capacity + 1, SkipRead(n) PROVE Inv'
  <2>1. CASE Refuses
    BY <1>r, <2>1
  <2>2. CASE /\ GetReadableSpace >= n /\ m_ReadPos' = AdvanceReadPos(n)
             /\ Return(TRUE, <<>>) /\ UNCHANGED <<m_Buffer, m_DataStart, m_WritePos>>
    <3>1. n \in 0 .. Capacity /\ n <= GetReadableSpace
      BY <2>2, <1>s, CapacityAssumption
    <3>2. ret' \in [ok : BOOLEAN, bytes : Seq(Byte)]
      BY <2>2, <1>e, ReturnType
    <3>3. m_ReadPos' = Advance(m_ReadPos, n)
      BY <2>2, <3>1, <1>t, AdvanceReadPosIsAdvance
    <3> QED BY <2>2, <3>1, <3>2, <3>3, TakesKeepsInv
  <2> QED BY <1>4, <2>1, <2>2 DEF SkipRead
<1>5. ASSUME ReadVarInt PROVE Inv'
  <2>1. PICK n \in 0 .. GetReadableSpace, ok \in BOOLEAN, bytes \in Seq(Byte) :
          Takes(n) /\ Return(ok, bytes)
    BY <1>5, VarIntTakes
  <2>2. n \in 0 .. Capacity /\ n <= GetReadableSpace
    BY <1>s, CapacityAssumption
  <2>3. ret' \in [ok : BOOLEAN, bytes : Seq(Byte)]
    BY <2>1, ReturnType
  <2> QED BY <2>1, <2>2, <2>3, TakesKeepsInv DEF Takes
<1>6. ASSUME CommitRead PROVE Inv'
  <2>1. ret' \in [ok : BOOLEAN, bytes : Seq(Byte)]
    BY <1>6, <1>e, ReturnType DEF CommitRead
  <2>2. GetUsedSpace' = GetReadableSpace /\ GetReadableSpace' = GetReadableSpace
    BY <1>6, <1>t, SpacesAreOffsets, SpacesAreOffsetsNext DEF CommitRead
  <2>3. GetReadableSpace' <= GetUsedSpace'
    BY <2>2, <1>s, CapacityAssumption
  <2> QED BY <1>6, <1>t, <2>1, <2>3 DEF CommitRead, Inv, TypeOK, ReadWithinData
<1>7. ASSUME ResetRead PROVE Inv'
  <2>1. ret' \in [ok : BOOLEAN, bytes : Seq(Byte)]
    BY <1>7, <1>e, ReturnType DEF ResetRead
  <2>2. GetUsedSpace' = GetUsedSpace /\ GetReadableSpace' = GetUsedSpace
    BY <1>7, <1>t, SpacesAreOffsets, SpacesAreOffsetsNext DEF ResetRead
  <2>3. GetReadableSpace' <= GetUsedSpace'
    BY <2>2, <1>s, CapacityAssumption
  <2> QED BY <1>7, <1>t, <2>1, <2>3 DEF ResetRead, Inv, TypeOK, ReadWithinData
<1>8. ASSUME ReadAgain PROVE Inv'
  <2>1. Offset(m_DataStart, m_ReadPos) \in 0 .. Capacity
    BY <1>t, AtOfOffset
  <2>2. ret' \in [ok : BOOLEAN, bytes : Seq(Byte)]
    BY <1>8, <1>t, <2>1, ContentsType, ReturnType DEF ReadAgain
  <2> QED BY <1>8, <2>2, RefusesKeepsInv DEF ReadAgain
<1>9. ASSUME ClearAll PROVE Inv'
  <2>1. ret' \in [ok : BOOLEAN, bytes : Seq(Byte)]
    BY <1>9, <1>e, ReturnType DEF ClearAll
  <2>2. GetUsedSpace' = 0 /\ GetReadableSpace' = 0
    BY <1>9, CapacityAssumption
    DEF ClearAll, GetUsedSpace, GetReadableSpace, GetFreeSpace, m_BufferSize
  <2> QED BY <1>9, <1>t, <2>1, <2>2, CapacityAssumption
          DEF ClearAll, Inv, TypeOK, ReadWithinData, Positions
<1>10. CASE UNCHANGED vars
  BY <1>10, <1>t, RefusesKeepsInv DEF vars
<1> QED
  BY <1>1, <1>2, <1>3, <1>4, <1>5, <1>6, <1>7, <1>8, <1>9, <1>10 DEF Next

-----------------------------------------------------------------------------
(* The theorems *)

\* The invariant holds in every reachable state.
LEMMA Invariance == Spec => []Inv
  BY InvInit, InvNext, PTL DEF Spec

\* However calls follow each other, the positions stay on the ring: what
\* CheckValid() asserts at the start of every call.
THEOREM PositionsValid == Spec => []TypeOK
<1>1. Inv => TypeOK
  BY DEF Inv
<1> QED BY <1>1, Invariance, PTL

\* The read position never leaves the data: nothing is read that was not
\* written, or was committed.
THEOREM ReadStaysWithinData == Spec => []ReadWithinData
<1>1. Inv => ReadWithinData
  BY DEF Inv
<1> QED BY <1>1, Invariance, PTL

-----------------------------------------------------------------------------
(* The ring is a queue *)

Data == Contents(m_DataStart, GetUsedSpace)
Done == GetUsedSpace - GetReadableSpace

\* The types of the mapped variables, and where the read position is.
LEMMA DataAndDone ==
  ASSUME Inv
  PROVE  /\ Data \in Seq(Byte)
         /\ Len(Data) = GetUsedSpace
         /\ Done \in 0 .. GetUsedSpace
         /\ m_ReadPos = At(m_DataStart, Done)
         /\ Offset(m_DataStart, m_ReadPos) = Done
<1>1. m_DataStart \in Positions /\ m_WritePos \in Positions /\ m_ReadPos \in Positions
  BY DEF Inv, TypeOK
<1>2. /\ GetReadableSpace \in 0 .. Capacity /\ GetUsedSpace \in 0 .. Capacity
      /\ GetReadableSpace <= GetUsedSpace
  BY <1>1, SpacesAreOffsets DEF Inv, ReadWithinData
<1>3. Done \in 0 .. GetUsedSpace
  BY <1>2, CapacityAssumption DEF Done
<1>4. Offset(m_DataStart, m_ReadPos) = Done
  <2>1. Offset(m_ReadPos, m_WritePos) <= Offset(m_DataStart, m_WritePos) /\ 0 \in 0 .. Capacity
    BY <1>1, <1>2, SpacesAreOffsets, CapacityAssumption
  <2>2. Offset(m_DataStart, m_ReadPos)
          = Offset(m_DataStart, m_WritePos) - Offset(m_ReadPos, m_WritePos)
    BY <1>1, <2>1, Moves
  <2> QED BY <1>1, <2>2, SpacesAreOffsets DEF Done
<1>5. m_ReadPos = At(m_DataStart, Done)
  BY <1>1, <1>4, AtOfOffset
<1>6. Data \in Seq(Byte) /\ Len(Data) = GetUsedSpace
  BY <1>1, <1>2, ContentsType DEF Inv, TypeOK, Data
<1> QED BY <1>3, <1>4, <1>5, <1>6

\* A part of what lies on the ring.
LEMMA PartOfContents ==
  ASSUME m_Buffer \in [Positions -> Byte], NEW start \in Positions,
         NEW u \in 0 .. Capacity, NEW d \in 0 .. u, NEW n \in 0 .. u - d
  PROVE  Contents(At(start, d), n) = SubSeq(Contents(start, u), d + 1, d + n)
<1>1. \A i \in 1 .. n : Contents(At(start, d), n)[i] = Contents(start, u)[d + i]
  <2> SUFFICES ASSUME NEW i \in 1 .. n
               PROVE  Contents(At(start, d), n)[i] = Contents(start, u)[d + i]
    OBVIOUS
  <2>1. /\ d \in 0 .. Capacity /\ i - 1 \in 0 .. Capacity /\ d + (i - 1) <= Capacity
        /\ d + i \in 1 .. u /\ (d + i) - 1 = d + (i - 1)
    BY CapacityAssumption
  <2>2. At(At(start, d), i - 1) = At(start, d + (i - 1))
    BY <2>1, AtAdds
  <2> QED BY <2>1, <2>2 DEF Contents
<1>2. SubSeq(Contents(start, u), d + 1, d + n)
        = [i \in 1 .. n |-> Contents(start, u)[d + i]]
  <2>1. Contents(start, u) \in Seq(Byte) /\ Len(Contents(start, u)) = u
    BY ContentsType
  <2>2. /\ d + 1 \in Int /\ d + n \in Int /\ (d + n) - (d + 1) + 1 = n
        /\ \A i \in 1 .. n : (d + 1) + i - 1 = d + i
    BY CapacityAssumption
  <2> QED BY <2>1, <2>2, CapacityAssumption
<1> QED BY <1>1, <1>2 DEF Contents

\* Reading n bytes returns the next n of the data.
LEMMA ReadsNext ==
  ASSUME Inv, NEW n \in 0 .. GetReadableSpace
  PROVE  Contents(m_ReadPos, n) = SubSeq(Data, Done + 1, Done + n)
<1>1. m_DataStart \in Positions /\ m_WritePos \in Positions /\ m_ReadPos \in Positions
      /\ m_Buffer \in [Positions -> Byte]
  BY DEF Inv, TypeOK
<1>2. GetReadableSpace \in 0 .. Capacity /\ GetUsedSpace \in 0 .. Capacity
  BY <1>1, SpacesAreOffsets
<1>3. Done \in 0 .. GetUsedSpace /\ m_ReadPos = At(m_DataStart, Done)
  BY DataAndDone
<1>4. n \in 0 .. GetUsedSpace - Done
  BY <1>2, <1>3, CapacityAssumption DEF Done
<1> QED BY <1>1, <1>2, <1>3, <1>4, PartOfContents DEF Data

\* A write appends to the data.
LEMMA PutsAppends ==
  ASSUME Inv, NEW s \in Seq(Byte), Len(s) <= GetFreeSpace, Puts(s)
  PROVE  Data' = Data \o s /\ Done' = Done
<1>1. /\ m_DataStart \in Positions /\ m_WritePos \in Positions /\ m_ReadPos \in Positions
      /\ m_Buffer \in [Positions -> Byte] /\ m_DataStart' = m_DataStart
  BY DEF Inv, TypeOK, Puts
<1>2. /\ GetReadableSpace \in 0 .. Capacity /\ GetUsedSpace \in 0 .. Capacity
      /\ GetFreeSpace = Capacity - GetUsedSpace
      /\ GetUsedSpace = Offset(m_DataStart, m_WritePos)
  BY <1>1, SpacesAreOffsets
<1>3. /\ GetUsedSpace' = GetUsedSpace + Len(s)
      /\ GetReadableSpace' = GetReadableSpace + Len(s)
  BY PutsStep
<1>4. Len(s) \in Nat /\ GetUsedSpace + Len(s) <= Capacity
  BY <1>2, CapacityAssumption
<1>5. Done' = Done
  BY <1>2, <1>3, <1>4, CapacityAssumption DEF Done
<1>6. \A i \in 1 .. GetUsedSpace + Len(s) :
        m_Buffer'[At(m_DataStart, i - 1)]
          = IF i <= GetUsedSpace THEN m_Buffer[At(m_DataStart, i - 1)] ELSE s[i - GetUsedSpace]
  <2> SUFFICES ASSUME NEW i \in 1 .. GetUsedSpace + Len(s)
               PROVE  m_Buffer'[At(m_DataStart, i - 1)]
                        = IF i <= GetUsedSpace THEN m_Buffer[At(m_DataStart, i - 1)]
                          ELSE s[i - GetUsedSpace]
    OBVIOUS
  <2> DEFINE k == At(m_DataStart, i - 1)
  <2>1. i - 1 \in 0 .. Capacity
    BY <1>2, <1>4, CapacityAssumption
  <2>2. k \in Positions
    BY <1>1, <2>1, AdvanceIsAt
  <2>3. m_Buffer'[k] = IF Offset(m_WritePos, k) < Len(s) THEN s[Offset(m_WritePos, k) + 1]
                       ELSE m_Buffer[k]
    BY <2>2 DEF Puts, Copied
  <2>4. IF i <= GetUsedSpace THEN Offset(m_WritePos, k) >= Len(s)
        ELSE Offset(m_WritePos, k) = i - 1 - GetUsedSpace
    BY <1>1, <1>2, <1>4, <2>1, CapacityAssumption DEF Offset, At, Positions, m_BufferSize
  <2>5. Offset(m_WritePos, k) \in Nat
    BY <1>1, <2>2, AtOfOffset, CapacityAssumption
  <2>6. CASE i <= GetUsedSpace
    BY <2>3, <2>4, <2>5, <2>6, <1>4
  <2>7. CASE ~(i <= GetUsedSpace)
    <3>1. Offset(m_WritePos, k) < Len(s) /\ Offset(m_WritePos, k) + 1 = i - GetUsedSpace
      BY <2>4, <2>5, <2>7, <1>2, <1>4, CapacityAssumption
    <3> QED BY <2>3, <2>7, <3>1
  <2> QED BY <2>6, <2>7
<1>7. Data \in Seq(Byte) /\ Len(Data) = GetUsedSpace
  BY DataAndDone
<1>8. Data' = [i \in 1 .. GetUsedSpace + Len(s) |-> m_Buffer'[At(m_DataStart, i - 1)]]
  BY <1>1, <1>3 DEF Data, Contents
<1>9. Data' \in Seq(Byte) /\ Len(Data') = GetUsedSpace + Len(s)
  <2>1. \A i \in 1 .. GetUsedSpace + Len(s) : m_Buffer'[At(m_DataStart, i - 1)] \in Byte
    <3> SUFFICES ASSUME NEW i \in 1 .. GetUsedSpace + Len(s)
                 PROVE  m_Buffer'[At(m_DataStart, i - 1)] \in Byte
      OBVIOUS
    <3>1. i - 1 \in 0 .. Capacity
      BY <1>2, <1>4, CapacityAssumption
    <3>2. At(m_DataStart, i - 1) \in Positions
      BY <1>1, <3>1, AdvanceIsAt
    <3> QED BY <3>2, PutsStep
  <2>2. GetUsedSpace + Len(s) \in Nat
    BY <1>2, <1>4, CapacityAssumption
  <2> QED BY <1>8, <2>1, <2>2
<1>10. /\ Data \o s \in Seq(Byte) /\ Len(Data \o s) = GetUsedSpace + Len(s)
       /\ \A i \in 1 .. GetUsedSpace + Len(s) :
            (Data \o s)[i] = IF i <= GetUsedSpace THEN Data[i] ELSE s[i - GetUsedSpace]
  BY <1>7, ConcatProperties
<1>11. \A i \in 1 .. GetUsedSpace + Len(s) : Data'[i] = (Data \o s)[i]
  <2>1. \A i \in 1 .. GetUsedSpace + Len(s) :
          i <= GetUsedSpace => Data[i] = m_Buffer[At(m_DataStart, i - 1)]
    BY <1>2, <1>4, CapacityAssumption DEF Data, Contents
  <2>2. \A i \in 1 .. GetUsedSpace + Len(s) : Data'[i] = m_Buffer'[At(m_DataStart, i - 1)]
    BY <1>8
  <2> QED BY <1>6, <1>10, <2>1, <2>2
<1>12. Data' = Data \o s
  BY <1>9, <1>10, <1>11, SeqEqual
<1> QED BY <1>5, <1>12

\* What is known before and after every step.
LEMMA FifoFacts ==
  ASSUME Inv
  PROVE  /\ GetFreeSpace \in 0 .. Capacity /\ GetReadableSpace \in 0 .. Capacity
         /\ GetUsedSpace \in 0 .. Capacity /\ GetFreeSpace = Capacity - GetUsedSpace
         /\ Len(Data) = GetUsedSpace /\ Len(Data) - Done = GetReadableSpace
         /\ Done \in 0 .. GetUsedSpace
<1>1. m_DataStart \in Positions /\ m_WritePos \in Positions /\ m_ReadPos \in Positions
  BY DEF Inv, TypeOK
<1> QED BY <1>1, SpacesAreOffsets, DataAndDone, CapacityAssumption DEF Done

\* A call that leaves the positions and the bytes alone leaves the queue alone.
LEMMA NothingMoves ==
  ASSUME UNCHANGED <<m_Buffer, m_DataStart, m_WritePos, m_ReadPos>>
  PROVE  Data' = Data /\ Done' = Done
  BY DEF Data, Done, Contents, GetUsedSpace, GetReadableSpace, GetFreeSpace

\* A call that takes n bytes.
LEMMA TakesMovesDone ==
  ASSUME Inv, NEW n \in 0 .. GetReadableSpace,
         m_ReadPos' = Advance(m_ReadPos, n), UNCHANGED <<m_Buffer, m_DataStart, m_WritePos>>
  PROVE  Data' = Data /\ Done' = Done + n
<1>1. n \in 0 .. Capacity /\ n <= GetReadableSpace
  BY FifoFacts, CapacityAssumption
<1>2. GetUsedSpace' = GetUsedSpace /\ GetReadableSpace' = GetReadableSpace - n
  BY <1>1, TakesStep
<1>3. Done' = Done + n
  BY <1>1, <1>2, FifoFacts, CapacityAssumption DEF Done
<1> QED BY <1>2, <1>3 DEF Data, Contents

\* A refused call is refused by the queue.
LEMMA RefusesImplements == ASSUME Refuses PROVE Fifo!Refuses
  BY NothingMoves DEF Refuses, Return, Fifo!Refuses, Fifo!Return, Data, Done

\* A write appends all of its bytes to the queue, or none.
LEMMA WriteImplements ==
  ASSUME Inv, NEW s \in Chunks, Write(s) PROVE Fifo!Write(s)
<1>1. s \in Seq(Byte) /\ Len(s) \in Nat
  BY LengthTypes
<1>2. CASE GetFreeSpace < Len(s) /\ Refuses
  <2>1. Len(Data) + Len(s) > Capacity
    BY <1>1, <1>2, FifoFacts, CapacityAssumption
  <2> QED BY <1>2, <2>1, RefusesImplements DEF Fifo!Write, Data
<1>3. CASE GetFreeSpace >= Len(s) /\ Puts(s) /\ Return(TRUE, <<>>)
  <2>1. Len(s) <= GetFreeSpace /\ ~(Len(Data) + Len(s) > Capacity)
    BY <1>1, <1>3, FifoFacts, CapacityAssumption
  <2>2. Data' = Data \o s /\ Done' = Done
    BY <1>1, <1>3, <2>1, PutsAppends
  <2> QED BY <1>3, <2>1, <2>2 DEF Fifo!Write, Fifo!Return, Return, Data, Done
<1> QED BY <1>2, <1>3 DEF Write

\* A string is appended with its length, or the length alone, or nothing.
LEMMA WriteStringImplements ==
  ASSUME Inv, NEW s \in Chunks, NEW length \in Chunks, IsLength(length, s),
         WriteString(length, s)
  PROVE  Fifo!WriteString(length, s)
<1>1. /\ s \in Seq(Byte) /\ length \in Seq(Byte) /\ length \o s \in Seq(Byte)
      /\ Len(length \o s) = Len(length) + Len(s)
      /\ Len(length) \in Nat /\ Len(s) \in Nat
  BY LengthTypes
<1>2. CASE ~StringFits(s) /\ Refuses
  <2>1. Len(Data) + Len(s) + 1 > Capacity
    BY <1>1, <1>2, FifoFacts, CapacityAssumption DEF StringFits
  <2> QED BY <1>2, <2>1, RefusesImplements DEF Fifo!WriteString, Data
<1>3. CASE /\ StringFits(s) /\ GetFreeSpace < Len(length) + Len(s)
           /\ Puts(length) /\ Return(FALSE, <<>>)
  <2>1. /\ ~(Len(Data) + Len(s) + 1 > Capacity)
        /\ Len(Data) + Len(length) + Len(s) > Capacity
    BY <1>1, <1>3, FifoFacts, CapacityAssumption DEF StringFits
  <2>2. Len(length) <= GetFreeSpace
    BY <1>3, FifoFacts, LengthFits, CapacityAssumption
  <2>3. Data' = Data \o length /\ Done' = Done
    BY <1>1, <1>3, <2>2, PutsAppends
  <2> QED BY <1>3, <2>1, <2>3 DEF Fifo!WriteString, Fifo!Return, Return, Data, Done
<1>4. CASE /\ StringFits(s) /\ GetFreeSpace >= Len(length) + Len(s)
           /\ Puts(length \o s) /\ Return(TRUE, <<>>)
  <2>1. /\ ~(Len(Data) + Len(s) + 1 > Capacity)
        /\ ~(Len(Data) + Len(length) + Len(s) > Capacity)
        /\ Len(length \o s) <= GetFreeSpace
    BY <1>1, <1>4, FifoFacts, CapacityAssumption DEF StringFits
  <2>2. Data' = Data \o (length \o s) /\ Done' = Done
    BY <1>1, <1>4, <2>1, PutsAppends
  <2>3. Data \o (length \o s) = (Data \o length) \o s
    BY <1>1, DataAndDone, ConcatAssociative
  <2> QED BY <1>4, <2>1, <2>2, <2>3 DEF Fifo!WriteString, Fifo!Return, Return, Data, Done
<1> QED BY <1>2, <1>3, <1>4 DEF WriteString

\* A read returns the next bytes of the queue, or nothing.
LEMMA ReadImplements ==
  ASSUME Inv, NEW n \in 0 .. Capacity + 1, Read(n) PROVE Fifo!Read(n)
<1>1. CASE GetReadableSpace < n /\ Refuses
  <2>1. n > Len(Data) - Done
    BY <1>1, FifoFacts, CapacityAssumption
  <2> QED BY <1>1, <2>1, RefusesImplements DEF Fifo!Read, Fifo!Unread, Data, Done
<1>2. CASE GetReadableSpace >= n /\ Takes(n) /\ Return(TRUE, Contents(m_ReadPos, n))
  <2>1. ~(n > Len(Data) - Done) /\ n \in 0 .. GetReadableSpace
    BY <1>2, FifoFacts, CapacityAssumption
  <2>2. Data' = Data /\ Done' = Done + n
    BY <1>2, <2>1, TakesMovesDone DEF Takes
  <2>3. Contents(m_ReadPos, n) = SubSeq(Data, Done + 1, Done + n)
    BY <2>1, ReadsNext
  <2> QED BY <1>2, <2>1, <2>2, <2>3
          DEF Fifo!Read, Fifo!Unread, Fifo!Next, Fifo!Return, Return, Data, Done
<1> QED BY <1>1, <1>2 DEF Read

\* A skip passes over the next bytes of the queue, or none.
LEMMA SkipImplements ==
  ASSUME Inv, NEW n \in 0 .. Capacity + 1, SkipRead(n) PROVE Fifo!Skip(n)
<1>1. CASE GetReadableSpace < n /\ Refuses
  <2>1. n > Len(Data) - Done
    BY <1>1, FifoFacts, CapacityAssumption
  <2> QED BY <1>1, <2>1, RefusesImplements DEF Fifo!Skip, Fifo!Unread, Data, Done
<1>2. CASE /\ GetReadableSpace >= n /\ m_ReadPos' = AdvanceReadPos(n)
           /\ Return(TRUE, <<>>) /\ UNCHANGED <<m_Buffer, m_DataStart, m_WritePos>>
  <2>1. /\ ~(n > Len(Data) - Done) /\ n \in 0 .. GetReadableSpace /\ n \in 0 .. Capacity
        /\ m_ReadPos \in Positions
    BY <1>2, FifoFacts, CapacityAssumption DEF Inv, TypeOK
  <2>2. m_ReadPos' = Advance(m_ReadPos, n)
    BY <1>2, <2>1, AdvanceReadPosIsAdvance
  <2>3. Data' = Data /\ Done' = Done + n
    BY <1>2, <2>1, <2>2, TakesMovesDone
  <2> QED BY <1>2, <2>1, <2>3 DEF Fifo!Skip, Fifo!Unread, Fifo!Return, Return, Data, Done
<1> QED BY <1>1, <1>2 DEF SkipRead

\* A VarInt is the shortest run of unread bytes that ends in one without More.
LEMMA ReadVarIntImplements ==
  ASSUME Inv, ReadVarInt PROVE Fifo!ReadVarInt
<1> DEFINE Ahead(n) == SubSeq(Data, Done + 1, Done + n)
<1>1. \A n \in 0 .. GetReadableSpace :
        /\ Contents(m_ReadPos, n) = Ahead(n)
        /\ GoesOn(n) <=> \A i \in 1 .. n : Ahead(n)[i] \in More
  BY ReadsNext DEF GoesOn
<1>2. GetReadableSpace \in Nat /\ GetReadableSpace = Len(Data) - Done
  BY FifoFacts, CapacityAssumption
<1>3. \A n \in 1 .. GetReadableSpace : \A i \in 1 .. n - 1 : Ahead(n - 1)[i] = Ahead(n)[i]
  <2> SUFFICES ASSUME NEW n \in 1 .. GetReadableSpace, NEW i \in 1 .. n - 1
               PROVE  Ahead(n - 1)[i] = Ahead(n)[i]
    OBVIOUS
  <2>1. n - 1 \in 0 .. GetReadableSpace /\ n \in 0 .. GetReadableSpace /\ i \in 1 .. n
    BY <1>2
  <2> QED BY <1>1, <2>1 DEF Contents
<1>4. CASE \E n \in 1 .. GetReadableSpace :
             /\ GoesOn(n - 1) /\ ~GoesOn(n)
             /\ Takes(n) /\ Return(TRUE, Contents(m_ReadPos, n))
  <2>1. PICK n \in 1 .. GetReadableSpace :
               /\ GoesOn(n - 1) /\ ~GoesOn(n)
               /\ Takes(n) /\ Return(TRUE, Contents(m_ReadPos, n))
    BY <1>4
  <2>2. n \in 0 .. GetReadableSpace /\ n - 1 \in 0 .. GetReadableSpace
    BY <1>2
  <2>3. \A i \in 1 .. n - 1 : Ahead(n)[i] \in More
    BY <1>1, <1>3, <2>1, <2>2
  <2>4. Ahead(n)[n] \notin More
    <3>1. PICK i \in 1 .. n : Ahead(n)[i] \notin More
      BY <1>1, <2>1, <2>2
    <3>2. i # n => i \in 1 .. n - 1
      BY <1>2
    <3>3. i = n
      BY <2>3, <3>1, <3>2
    <3> QED BY <3>1, <3>3
  <2>5. Data' = Data /\ Done' = Done + n
    BY <2>1, <2>2, TakesMovesDone DEF Takes
  <2>6. ret' = [ok |-> TRUE, bytes |-> Ahead(n)]
    BY <1>1, <2>1, <2>2 DEF Return
  <2> QED BY <1>2, <2>3, <2>4, <2>5, <2>6
          DEF Fifo!ReadVarInt, Fifo!Unread, Fifo!Next, Fifo!Return, Data, Done
<1>5. CASE /\ GoesOn(GetReadableSpace)
           /\ Takes(GetReadableSpace) /\ Return(FALSE, <<>>)
  <2>1. GetReadableSpace \in 0 .. GetReadableSpace
    BY <1>2
  <2>2. \A i \in 1 .. GetReadableSpace : Ahead(GetReadableSpace)[i] \in More
    BY <1>1, <1>5, <2>1
  <2>3. Data' = Data /\ Done' = Len(Data)
    <3>1. Data' = Data /\ Done' = Done + GetReadableSpace
      BY <1>5, <2>1, TakesMovesDone DEF Takes
    <3> QED BY <3>1, FifoFacts, CapacityAssumption
  <2> QED BY <1>2, <1>5, <2>2, <2>3
          DEF Fifo!ReadVarInt, Fifo!Unread, Fifo!Next, Fifo!Return, Return, Data, Done
<1> QED BY <1>4, <1>5 DEF ReadVarInt

\* A commit drops the bytes that have been read, and no other.
LEMMA CommitReadImplements ==
  ASSUME Inv, CommitRead PROVE Fifo!CommitRead
<1>1. /\ m_DataStart \in Positions /\ m_WritePos \in Positions /\ m_ReadPos \in Positions
      /\ m_DataStart' = m_ReadPos
      /\ UNCHANGED <<m_Buffer, m_WritePos, m_ReadPos>>
  BY DEF Inv, TypeOK, CommitRead
<1>2. GetUsedSpace' = GetReadableSpace /\ GetReadableSpace' = GetReadableSpace
  BY <1>1, SpacesAreOffsets, SpacesAreOffsetsNext
<1>3. Done' = 0
  BY <1>2, FifoFacts, CapacityAssumption DEF Done
<1>4. Data' = Contents(m_ReadPos, GetReadableSpace)
  BY <1>1, <1>2 DEF Data, Contents
<1>5. Contents(m_ReadPos, GetReadableSpace) = SubSeq(Data, Done + 1, Len(Data))
  <2>1. /\ GetReadableSpace \in 0 .. GetReadableSpace
        /\ Done + GetReadableSpace = Len(Data)
    BY FifoFacts, CapacityAssumption
  <2> QED BY <2>1, ReadsNext
<1> QED BY <1>3, <1>4, <1>5 DEF CommitRead, Return, Fifo!CommitRead, Fifo!Return, Data, Done

\* A reset makes all of them unread again.
LEMMA ResetReadImplements ==
  ASSUME Inv, ResetRead PROVE Fifo!ResetRead
<1>1. /\ m_DataStart \in Positions /\ m_WritePos \in Positions /\ m_ReadPos \in Positions
      /\ m_ReadPos' = m_DataStart
      /\ UNCHANGED <<m_Buffer, m_WritePos, m_DataStart>>
  BY DEF Inv, TypeOK, ResetRead
<1>2. GetUsedSpace' = GetUsedSpace /\ GetReadableSpace' = GetUsedSpace
  BY <1>1, SpacesAreOffsets, SpacesAreOffsetsNext
<1>3. Data' = Data /\ Done' = 0
  BY <1>1, <1>2, FifoFacts, CapacityAssumption DEF Data, Done, Contents
<1> QED BY <1>3 DEF ResetRead, Return, Fifo!ResetRead, Fifo!Return, Data, Done

\* What ReadAgain returns is what has been read since the last commit.
LEMMA ReadAgainImplements ==
  ASSUME Inv, ReadAgain PROVE Fifo!ReadAgain
<1>1. m_DataStart \in Positions /\ m_Buffer \in [Positions -> Byte]
  BY DEF Inv, TypeOK
<1>2. /\ 0 \in 0 .. GetUsedSpace /\ Done \in 0 .. GetUsedSpace - 0
      /\ GetUsedSpace \in 0 .. Capacity /\ 0 + 1 = 1 /\ 0 + Done = Done
  BY FifoFacts, CapacityAssumption
<1>3. At(m_DataStart, 0) = m_DataStart
  BY <1>1, CapacityAssumption DEF At, Positions, m_BufferSize
<1>4. Contents(m_DataStart, Done) = SubSeq(Data, 1, Done)
  BY <1>1, <1>2, <1>3, PartOfContents DEF Data
<1>5. ret' = [ok |-> TRUE, bytes |-> SubSeq(Data, 1, Done)]
  BY <1>4, DataAndDone DEF ReadAgain, Return
<1> QED BY <1>5, NothingMoves DEF ReadAgain, Fifo!ReadAgain, Fifo!Return, Data, Done

\* ClearAll empties the queue.
LEMMA ClearAllImplements ==
  ASSUME ClearAll PROVE Fifo!ClearAll
<1>1. GetUsedSpace' = 0 /\ GetReadableSpace' = 0
  BY CapacityAssumption
  DEF ClearAll, GetUsedSpace, GetReadableSpace, GetFreeSpace, m_BufferSize
<1>2. Data' = <<>>
  BY <1>1 DEF Data, Contents
<1>3. Done' = 0
  BY <1>1 DEF Done
<1> QED BY <1>2, <1>3 DEF ClearAll, Return, Fifo!ClearAll, Fifo!Return, Data, Done

\* A new ring is an empty queue.
LEMMA InitImplements == Init => Fifo!Init
<1> SUFFICES ASSUME Init PROVE Fifo!Init
  OBVIOUS
<1>1. GetUsedSpace = 0 /\ GetReadableSpace = 0
  BY CapacityAssumption DEF Init, GetUsedSpace, GetFreeSpace, GetReadableSpace, m_BufferSize
<1>2. Data = <<>> /\ Done = 0
  BY <1>1 DEF Data, Done, Contents
<1> QED BY <1>2 DEF Init, Fifo!Init, Data, Done

\* Every call on the ring is a call on the queue.
LEMMA NextImplements == Inv /\ [Next]_vars => [Fifo!Call]_<<Data, Done, ret>>
<1> SUFFICES ASSUME Inv, [Next]_vars PROVE [Fifo!Call]_<<Data, Done, ret>>
  OBVIOUS
<1>1. ASSUME NEW s \in Chunks, Write(s) PROVE Fifo!Call
  BY <1>1, WriteImplements DEF Fifo!Call
<1>2. ASSUME NEW s \in Chunks, NEW length \in Chunks, IsLength(length, s),
             WriteString(length, s)
      PROVE  Fifo!Call
  BY <1>2, WriteStringImplements DEF Fifo!Call
<1>3. ASSUME NEW n \in 0 .. Capacity + 1, Read(n) PROVE Fifo!Call
  BY <1>3, ReadImplements DEF Fifo!Call
<1>4. ASSUME NEW n \in 0 .. Capacity + 1, SkipRead(n) PROVE Fifo!Call
  BY <1>4, SkipImplements DEF Fifo!Call
<1>5. ASSUME ReadVarInt \/ CommitRead \/ ResetRead \/ ReadAgain \/ ClearAll PROVE Fifo!Call
  BY <1>5, ReadVarIntImplements, CommitReadImplements, ResetReadImplements,
     ReadAgainImplements, ClearAllImplements DEF Fifo!Call
<1>6. CASE UNCHANGED vars
  BY <1>6, NothingMoves DEF vars
<1> QED BY <1>1, <1>2, <1>3, <1>4, <1>5, <1>6 DEF Next

\* The ring is a queue: whatever the capacity and however calls follow each
\* other, what a call returns is what the queue of the same bytes returns.
THEOREM RingIsFifo == Spec => IsFifo
<1>1. [Fifo!Call]_<<Data, Done, ret>> => [Fifo!Call]_(Fifo!fifoVars)
  BY DEF Fifo!fifoVars, Data, Done
<1> QED BY <1>1, InitImplements, NextImplements, Invariance, PTL DEF Spec, IsFifo, Fifo!Spec

=============================================================================
