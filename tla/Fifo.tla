-------------------------------- MODULE Fifo --------------------------------
(***************************************************************************)
(* The ring buffer, src/src/utility/fifo.c: a buffer of Capacity bytes, a  *)
(* read and a write position in it, and a count.  The pointers are         *)
(* positions, and the NULL checks are left out.  Each call is one action:  *)
(* a FIFO is used by one thread.                                           *)
(***************************************************************************)
EXTENDS Integers, Sequences

CONSTANTS
  Capacity,  \* size of the buffer
  Bytes,     \* values of a byte
  Zero,      \* the byte static buffers are filled with
  MaxData    \* bound of the checks: the longest array handed over

ASSUME CapacityAssumption == Capacity \in Nat \ {0}
ASSUME BytesAssumption == Zero \in Bytes
ASSUME MaxDataAssumption == MaxData \in Nat \ {0}

VARIABLES
  fifo,  \* struct fifo with its buffer
  ret,   \* return code of the last call, 0 for a call that returns none
  out    \* bytes the last call copied to its caller

vars == <<fifo, ret, out>>

OK == 0
EMPTY == -1
FULL == -2
NOMEM == -3

Positions == 0 .. Capacity - 1
Sizes == 0 .. MaxData
Data == UNION {[1 .. n -> Bytes] : n \in Sizes}

Init ==
  /\ fifo = [buffer |-> [p \in Positions |-> Zero], read |-> 0, write |-> 0, count |-> 0]
  /\ ret = OK /\ out = <<>>

(***************************************************************************)
(* The functions of fifo.c as operators on a FIFO.                         *)
(***************************************************************************)

MutPtrAddNoWrap(p, n) == IF p + n >= Capacity THEN 0 ELSE p + n

\* ptr_add
PtrAdd(p, n) == (p + n) % Capacity

\* memcpy into the buffer, and out of it
CopyIn(buffer, at, data) ==
  [p \in Positions |-> IF p \in at .. at + Len(data) - 1 THEN data[p - at + 1] ELSE buffer[p]]
CopyOut(buffer, at, n) == [i \in 1 .. n |-> buffer[at + i - 1]]

Reset(f) == [f EXCEPT !.read = 0, !.write = 0, !.count = 0]

\* fifo_drop
Dropped(f, n) ==
  IF n = 0 THEN f
  ELSE IF n >= f.count THEN Reset(f)
  ELSE [f EXCEPT !.read = PtrAdd(@, n), !.count = @ - n]

\* fifo_push, with room for the byte
Pushed(f, b) ==
  [f EXCEPT !.buffer[f.write] = b, !.write = PtrAdd(@, 1), !.count = @ + 1]

MutAppendedNoWrap(f, d) ==
  [f EXCEPT !.buffer = CopyIn(f.buffer, f.write, d), !.write = PtrAdd(@, Len(d)),
            !.count = @ + Len(d)]

\* fifo_push_range, with room for the data: up to the end of the buffer, and on from
\* its start.
Appended(f, d) ==
  LET tillWrap == Capacity - f.write
      filled == IF Len(d) <= tillWrap THEN CopyIn(f.buffer, f.write, d)
                ELSE CopyIn(CopyIn(f.buffer, f.write, SubSeq(d, 1, tillWrap)),
                            0, SubSeq(d, tillWrap + 1, Len(d)))
  IN  [f EXCEPT !.buffer = filled, !.write = PtrAdd(@, Len(d)), !.count = @ + Len(d)]

\* The bytes fifo_peek_range copies.
Peeked(f, n) ==
  LET tillWrap == Capacity - f.read
  IN  IF n <= tillWrap THEN CopyOut(f.buffer, f.read, n)
      ELSE CopyOut(f.buffer, f.read, tillWrap) \o CopyOut(f.buffer, 0, n - tillWrap)

MutOverwrittenExact(f, d) ==
  IF Len(d) > Capacity
    THEN Appended(Reset(f), SubSeq(d, Len(d) - Capacity + 1, Len(d)))
  ELSE IF Len(d) > Capacity - f.count
    THEN Appended(Dropped(f, Len(d) - Capacity), d)
  ELSE Appended(f, d)

\* fifo_push_range_overwrite: complete overflow, partial overflow, or none
Overwritten(f, d) ==
  IF Len(d) >= Capacity
    THEN Appended(Reset(f), SubSeq(d, Len(d) - Capacity + 1, Len(d)))
  ELSE IF Len(d) >= Capacity - f.count
    THEN Appended(Dropped(f, Len(d) - (Capacity - f.count)), d)
  ELSE Appended(f, d)

(***************************************************************************)
(* The calls.                                                              *)
(***************************************************************************)

Reply(f, code, bytes) == fifo' = f /\ ret' = code /\ out' = bytes

Push(b) ==
  IF fifo.count = Capacity THEN Reply(fifo, FULL, <<>>)
  ELSE Reply(Pushed(fifo, b), OK, <<>>)

PushOverwrite(b) ==
  IF fifo.count # Capacity THEN Reply(Pushed(fifo, b), OK, <<>>)
  ELSE Reply(Pushed(Dropped(fifo, 1), b), OK, <<>>)

PushRange(d) ==
  IF Capacity - fifo.count < Len(d) THEN Reply(fifo, NOMEM, <<>>)
  ELSE IF Len(d) = 0 THEN Reply(fifo, OK, <<>>)
  ELSE Reply(Appended(fifo, d), OK, <<>>)

PushRangeOverwrite(d) == Reply(Overwritten(fifo, d), OK, <<>>)

\* fifo_peek and fifo_pop; take distinguishes them, the result is the count after it
ReadByte(take) ==
  IF fifo.count = 0 THEN Reply(fifo, EMPTY, <<>>)
  ELSE LET f == IF take THEN Dropped(fifo, 1) ELSE fifo
       IN  Reply(f, f.count, <<fifo.buffer[fifo.read]>>)

\* fifo_peek_range and fifo_pop_range
ReadRange(n, size, take) ==
  IF fifo.count = 0 THEN Reply(fifo, EMPTY, <<>>)
  ELSE IF n > size \/ n > fifo.count \/ n > Capacity THEN Reply(fifo, NOMEM, <<>>)
  ELSE LET f == IF take THEN Dropped(fifo, n) ELSE fifo
       IN  Reply(f, f.count, Peeked(fifo, n))

Drop(n) == Reply(Dropped(fifo, n), OK, <<>>)

Next ==
  \/ \E b \in Bytes : Push(b) \/ PushOverwrite(b)
  \/ \E d \in Data : PushRange(d) \/ PushRangeOverwrite(d)
  \/ \E take \in BOOLEAN : ReadByte(take)
  \/ \E n, size \in Sizes, take \in BOOLEAN : ReadRange(n, size, take)
  \/ \E n \in Sizes : Drop(n)

Spec == Init /\ [][Next]_vars

(***************************************************************************)
(* Properties.                                                             *)
(***************************************************************************)

\* The bytes between the two positions, oldest first.
Contents(f) == [i \in 1 .. f.count |-> f.buffer[PtrAdd(f.read, i - 1)]]

FifoOK(f) ==
  /\ f \in [buffer : [Positions -> Bytes], read : Positions, write : Positions,
            count : 0 .. Capacity]
  /\ f.write = PtrAdd(f.read, f.count)

\* The inductive invariant: the positions stay inside the buffer and the write position
\* is the read position moved on by the count, so that a full and an empty buffer are
\* told apart by the count alone.
Inv == FifoOK(fifo)

\* Whatever the positions, the calls do to the buffer what Queue says.
Abstract == INSTANCE Queue WITH q <- Contents(fifo)
ImplementsQueue == Abstract!Spec
=============================================================================
