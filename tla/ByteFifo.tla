------------------------------ MODULE ByteFifo -------------------------------
(***************************************************************************)
(* What cByteBuffer promises: a queue of at most Capacity bytes, of which  *)
(* the first "done" ones have been read and can be read again until        *)
(* CommitRead() drops them.                                                *)
(***************************************************************************)
EXTENDS Naturals, Sequences

CONSTANTS
  Byte,      \* the values of a byte
  More,      \* bytes that say a VarInt goes on
  Capacity,  \* bytes that fit
  Long,      \* strings of this length need a VarInt of two bytes (128)
  Chunks     \* byte sequences that are written

VARIABLES
  data,  \* bytes written and not committed
  done,  \* how many of them have been read
  ret    \* what the last call returned, and the bytes it produced

fifoVars == <<data, done, ret>>

Return(ok, bytes) == ret' = [ok |-> ok, bytes |-> bytes]

\* A call that returns false and has done nothing.
Refuses == Return(FALSE, <<>>) /\ UNCHANGED <<data, done>>

Unread == Len(data) - done
Next(n) == SubSeq(data, done + 1, done + n)

Init == data = <<>> /\ done = 0 /\ ret = [ok |-> TRUE, bytes |-> <<>>]

\* All of the bytes or none.
Write(s) ==
  IF Len(data) + Len(s) > Capacity THEN Refuses
  ELSE data' = data \o s /\ Return(TRUE, <<>>) /\ UNCHANGED done

\* The length, then the bytes: the length stays when the bytes do not fit.
WriteString(length, s) ==
  IF Len(data) + Len(s) + 1 > Capacity THEN Refuses
  ELSE /\ IF Len(data) + Len(length) + Len(s) > Capacity
          THEN data' = data \o length /\ Return(FALSE, <<>>)
          ELSE data' = data \o length \o s /\ Return(TRUE, <<>>)
       /\ UNCHANGED done

Read(n) ==
  IF n > Unread THEN Refuses
  ELSE Return(TRUE, Next(n)) /\ done' = done + n /\ UNCHANGED data

\* The shortest run of unread bytes that ends in one without More; without
\* any such byte everything has been read in vain.
ReadVarInt ==
  \/ \E n \in 1 .. Unread :
       /\ Next(n)[n] \notin More
       /\ \A i \in 1 .. n - 1 : Next(n)[i] \in More
       /\ Return(TRUE, Next(n)) /\ done' = done + n /\ UNCHANGED data
  \/ /\ \A i \in 1 .. Unread : Next(Unread)[i] \in More
     /\ Return(FALSE, <<>>) /\ done' = Len(data) /\ UNCHANGED data

Skip(n) ==
  IF n > Unread THEN Refuses
  ELSE Return(TRUE, <<>>) /\ done' = done + n /\ UNCHANGED data

CommitRead ==
  /\ data' = SubSeq(data, done + 1, Len(data)) /\ done' = 0
  /\ Return(TRUE, <<>>)

ResetRead == done' = 0 /\ Return(TRUE, <<>>) /\ UNCHANGED data

ReadAgain == Return(TRUE, SubSeq(data, 1, done)) /\ UNCHANGED <<data, done>>

ClearAll == data' = <<>> /\ done' = 0 /\ Return(TRUE, <<>>)

Call ==
  \/ \E s \in Chunks : Write(s)
  \/ \E s \in Chunks, length \in Chunks : WriteString(length, s)
  \/ \E n \in 0 .. Capacity + 1 : Read(n) \/ Skip(n)
  \/ ReadVarInt \/ CommitRead \/ ResetRead \/ ReadAgain \/ ClearAll

Spec == Init /\ [][Call]_fifoVars

=============================================================================
