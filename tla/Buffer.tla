------------------------------ MODULE Buffer -------------------------------
(***************************************************************************)
(* The growing byte buffer of src/buffer.c: what was written to it, and    *)
(* the capacity behind it.  sz is the length of data.  Memory for a growth *)
(* is assumed to be there.                                                 *)
(***************************************************************************)
EXTENDS Naturals, Sequences

BufferInit(capacity) == [data |-> <<>>, capacity |-> capacity]

\* buffer_resize doubles until the size fits.
BufferResize(capacity, needed) ==
    LET Doubled[c \in Nat] == IF c < needed THEN Doubled[2 * c] ELSE c
    IN  Doubled[capacity]

\* buffer_prepare_emplace and buffer_check_resize.
BufferPrepare(b, n) ==
    IF b.capacity <= Len(b.data) + n
    THEN [b EXCEPT !.capacity = BufferResize(@, Len(b.data) + n)]
    ELSE b

\* buffer_emplace_size, after something was written behind the data.
BufferEmplace(b, bytes) == [b EXCEPT !.data = @ \o bytes]

BufferAppend(b, bytes) == BufferEmplace(BufferPrepare(b, Len(bytes)), bytes)

BufferReset(b) == [b EXCEPT !.data = <<>>]

BufferRelease == BufferInit(0)

=============================================================================
