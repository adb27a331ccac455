------------------------------- MODULE Queue -------------------------------
(***************************************************************************)
(* What utility/fifo.h promises: a sequence of at most Capacity bytes.     *)
(* Every call leaves a return code and the bytes it hands out.             *)
(***************************************************************************)
EXTENDS Integers, Sequences

CONSTANTS Capacity, Bytes, MaxData

VARIABLES q, ret, out

OK == 0
EMPTY == -1
FULL == -2
NOMEM == -3

\* The arrays a caller may hand over, and their sizes.
Sizes == 0 .. MaxData
Data == UNION {[1 .. n -> Bytes] : n \in Sizes}

Init == q = <<>> /\ ret = OK /\ out = <<>>

Reply(contents, code, bytes) == q' = contents /\ ret' = code /\ out' = bytes

\* The bytes that stay when the oldest ones make room.
Newest(s) == IF Len(s) <= Capacity THEN s ELSE SubSeq(s, Len(s) - Capacity + 1, Len(s))

Rest(n) == SubSeq(q, n + 1, Len(q))

Push(b) ==
  IF Len(q) = Capacity THEN Reply(q, FULL, <<>>) ELSE Reply(Append(q, b), OK, <<>>)

PushRange(d) ==
  IF Capacity - Len(q) < Len(d) THEN Reply(q, NOMEM, <<>>) ELSE Reply(q \o d, OK, <<>>)

PushOverwrite(b) == Reply(Newest(Append(q, b)), OK, <<>>)
PushRangeOverwrite(d) == Reply(Newest(q \o d), OK, <<>>)

\* Popping and peeking n bytes into an array of the given size; take says whether the
\* bytes leave the queue.
Read(n, size, take) ==
  IF q = <<>> THEN Reply(q, EMPTY, <<>>)
  ELSE IF n > size \/ n > Len(q) THEN Reply(q, NOMEM, <<>>)
  ELSE IF take THEN Reply(Rest(n), Len(q) - n, SubSeq(q, 1, n))
  ELSE Reply(q, Len(q), SubSeq(q, 1, n))

Drop(n) == Reply(Rest(n), OK, <<>>)

Next ==
  \/ \E b \in Bytes : Push(b) \/ PushOverwrite(b)
  \/ \E d \in Data : PushRange(d) \/ PushRangeOverwrite(d)
  \/ \E n, size \in Sizes, take \in BOOLEAN : Read(n, size, take)
  \/ \E n \in Sizes : Drop(n)

Spec == Init /\ [][Next]_<<q, ret, out>>
=============================================================================
