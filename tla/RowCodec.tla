------------------------------ MODULE RowCodec ------------------------------
(***************************************************************************)
(* The rows of an incremental table (encoding/v1/encode_inc_entry.go): one *)
(* byte of flags, zeros, the marker 0x01 and the body, which ends the row. *)
(* Every row of a table has the entry size and three bytes more, and a     *)
(* body may hold any byte, the marker's too. Bytes count from 1 here.      *)
(***************************************************************************)
EXTENDS Integers, Sequences

Byte == 0 .. 255
Marker == 1

RowLength(size) == size + 3

\* pos = total - len(body) - 1, counted from 0.
MarkerOf(size, body) == RowLength(size) - Len(body)

EncodeIncEntry(size, body) ==
    [i \in 1 .. RowLength(size) |->
        IF i < MarkerOf(size, body) THEN 0
        ELSE IF i = MarkerOf(size, body) THEN Marker
        ELSE body[i - MarkerOf(size, body)]]

\* bit0 of the flags. SetSkipIncEntry, which sets it, is called by nobody.
Skipped(row) == row[1] % 2 = 1

Markers(row) == {i \in 2 .. Len(row) : row[i] = Marker}

\* Variant: the scan goes on to the last marker.
LastMarker(row) == CHOOSE i \in Markers(row) : \A j \in Markers(row) : j <= i

\* The scan from raw[1] on.
FirstMarker(row) == CHOOSE i \in Markers(row) : \A j \in Markers(row) : i <= j

DecodeIncEntry(row) ==
    IF Skipped(row) \/ Markers(row) = {} THEN <<>>
    ELSE SubSeq(row, FirstMarker(row) + 1, Len(row))
=============================================================================
