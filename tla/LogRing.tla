------------------------------ MODULE LogRing ------------------------------
(***************************************************************************)
(* The bytes of a log: Logger's ring buffer, the records LogThread writes  *)
(* into it and the flush that moves them to the card (logging/Logger.cpp,  *)
(* Logger.hpp, LogThread in threads.cpp).  LogThread is the only user, so a*)
(* step is one logger.write() or one flush().                              *)
(*                                                                         *)
(* A byte is named <<record, position>>: records are numbered in the order *)
(* LogThread writes them, and the FMT records of the schema are 0.         *)
(***************************************************************************)
EXTENDS Integers, Sequences

CONSTANTS
  BUF_SIZE,      \* ring size (32768)
  FLUSH_CHUNK,   \* most bytes one flush moves (4096)
  SYNC_INTERVAL, \* flushes between two f_sync (100)
  HDR,           \* header bytes of a record (3)
  Schema,        \* where each FMT record ends in the schema (89, 178, ... 979)
  Pass,          \* where each record ends in a pass (11 of them, 344 bytes in all)
  MaxPasses,     \* bound: passes of the 50 Hz loop
  MaxFills       \* bound: how often the card runs full

\* Bytes of the first k records of a layout.
End(layout, k) == IF k = 0 THEN 0 ELSE layout[k]
Size(layout) == End(layout, Len(layout))

SizesAssumption ==
  /\ {BUF_SIZE, FLUSH_CHUNK, HDR} \subseteq Nat /\ Schema \in Seq(Nat) /\ Pass \in Seq(Nat)
  /\ \A j, k \in 0 .. Len(Pass) : j < k => End(Pass, j) + HDR <= End(Pass, k)

\* The rates of this firmware: schema and one pass fit the ring and one flush.
RatesFit == Size(Schema) + Size(Pass) < BUF_SIZE /\ Size(Schema) + Size(Pass) <= FLUSH_CHUNK

VARIABLES
  _buf, _head, _tail,   \* the ring
  _open, _sync_count,
  next,                 \* the record of the pass that is written next
  passes,
  count,                \* records handed to the logger so far
  file, synced,         \* bytes written to the card; how many f_sync has secured
  full, fills,          \* the card has no free cluster; how often it ran out
  stream, ends,         \* history: all bytes handed over; where each record ends
  from                  \* history: where in the stream each byte of file comes from

vars == <<_buf, _head, _tail, _open, _sync_count, next, passes, count, file,
          synced, full, fills, stream, ends, from>>

Slot == 0 .. BUF_SIZE - 1
Record(r, n) == [i \in 1 .. n |-> <<r, i>>]

-----------------------------------------------------------------------------
\* memcpy(b + at, s)
Copy(b, at, s) ==
  [i \in Slot |-> IF i >= at /\ i < at + Len(s) THEN s[i - at + 1] ELSE b[i]]

free_space(head, tail) ==
  IF head >= tail THEN BUF_SIZE - head + tail - 1 ELSE tail - head - 1

\* Mutant: a write that ends at the end of the buffer does not wrap the head.
ring_write_NoWrap(r, s) ==
  IF Len(s) > free_space(r.head, _tail) THEN [r EXCEPT !.ok = FALSE]
  ELSE [ok |-> TRUE, buf |-> Copy(r.buf, r.head, s), head |-> r.head + Len(s)]

\* Logger::ring_write on ring r: refused whole, or copied in one or two parts.
ring_write(r, s) ==
  LET n     == Len(s)
      first == BUF_SIZE - r.head
  IN  IF n > free_space(r.head, _tail) THEN [r EXCEPT !.ok = FALSE]
      ELSE IF r.head + n <= BUF_SIZE
      THEN [ok |-> TRUE, buf |-> Copy(r.buf, r.head, s), head |-> (r.head + n) % BUF_SIZE]
      ELSE [ok |-> TRUE,
            buf |-> Copy(Copy(r.buf, r.head, SubSeq(s, 1, first)), 0, SubSeq(s, first + 1, n)),
            head |-> n - first]

\* Logger::write: header and body are two ring writes; a body that is refused
\* leaves its header behind.
logger_write(s) ==
  LET h == ring_write([ok |-> TRUE, buf |-> _buf, head |-> _head], SubSeq(s, 1, HDR))
  IN  IF h.ok THEN ring_write(h, SubSeq(s, HDR + 1, Len(s))) ELSE h

avail == IF _head >= _tail THEN _head - _tail ELSE BUF_SIZE - _tail + _head

Bytes(at, n) == [i \in 1 .. n |-> _buf[at + i - 1]]

\* Logger::ring_read: the bytes taken and the new tail.
ring_read(max_n) ==
  LET n     == IF avail < max_n THEN avail ELSE max_n
      first == BUF_SIZE - _tail
  IN  IF _tail + n <= BUF_SIZE
      THEN [out |-> Bytes(_tail, n), tail |-> (_tail + n) % BUF_SIZE]
      ELSE [out |-> Bytes(_tail, first) \o Bytes(0, n - first), tail |-> n - first]

\* One logger.write() of the pass.
Write ==
  /\ next <= Len(Pass)
  /\ passes < MaxPasses
  /\ IF _open
     THEN LET s == Record(count + 1, End(Pass, next) - End(Pass, next - 1))
              w == logger_write(s)
          IN  /\ _buf' = w.buf
              /\ _head' = w.head
              /\ stream' = stream \o s
              /\ ends' = ends \cup {Len(stream) + Len(s)}
              /\ count' = count + 1
     ELSE UNCHANGED <<_buf, _head, stream, ends, count>>
  /\ next' = next + 1
  /\ UNCHANGED <<_tail, _open, _sync_count, passes, file, synced, full, fills, from>>

\* External: f_write() puts k of n bytes on the card.  FR_OK is all of them,
\* unless there is no cluster for the rest: then it stops there, and its next
\* calls at once.  A failed one may have written any part.
f_write(n, k, ok) ==
  \/ /\ IF full THEN k = 0 ELSE ~ok \/ k = n
     /\ UNCHANGED <<full, fills>>
  \/ /\ ok /\ ~full /\ k < n /\ fills < MaxFills
     /\ full' = TRUE /\ fills' = fills + 1

\* Logger::flush, moving at most chunk bytes, and the end of the pass.  It looks
\* at f_write's result, not at `written`, and not at f_sync's result; an error
\* closes the log for good.
FlushUpTo(chunk, ok) ==
  /\ next = Len(Pass) + 1
  /\ next' = 1 /\ passes' = passes + 1
  /\ LET r == ring_read(chunk)
     IN  IF ~_open \/ r.out = <<>>
         THEN UNCHANGED <<_tail, _open, _sync_count, file, synced, full, fills, from>>
         ELSE /\ _tail' = r.tail
              /\ \E k \in 0 .. Len(r.out) :
                   /\ f_write(Len(r.out), k, ok)
                   /\ file' = file \o SubSeq(r.out, 1, k)
                   /\ from' = from \o [i \in 1 .. k |-> Len(stream) - avail + i]
              /\ _open' = ok
              /\ _sync_count' = IF ok THEN (_sync_count + 1) % SYNC_INTERVAL ELSE _sync_count
              /\ synced' \in IF ok /\ _sync_count' = 0 THEN {synced, Len(file')} ELSE {synced}
  /\ UNCHANGED <<_buf, _head, count, stream, ends>>

\* LOG,erase, of other logs: there are free clusters again.
Erase ==
  /\ full /\ full' = FALSE
  /\ UNCHANGED <<_buf, _head, _tail, _open, _sync_count, next, passes, count, file,
                 synced, fills, stream, ends, from>>

\* Mutant: the flush buffer is half the size.
Flush_HalfChunk(ok) == FlushUpTo(FLUSH_CHUNK \div 2, ok)

Flush(ok) == FlushUpTo(FLUSH_CHUNK, ok)

\* What write_schema_header leaves behind when init() succeeds: the FMT
\* records, in order, at the start of the ring.
Init ==
  /\ stream = Record(0, Size(Schema))
  /\ ends = {End(Schema, k) : k \in 0 .. Len(Schema)}
  /\ count = 0
  /\ _buf = Copy([i \in Slot |-> <<0, 0>>], 0, stream)
  /\ _head = Size(Schema) /\ _tail = 0
  /\ _open = TRUE /\ _sync_count = 0
  /\ next = 1 /\ passes = 0
  /\ file = <<>> /\ synced = 0 /\ from = <<>>
  /\ full = FALSE /\ fills = 0

Next == Write \/ (\E ok \in BOOLEAN : Flush(ok)) \/ Erase

Spec == Init /\ [][Next]_vars

-----------------------------------------------------------------------------
\* The bytes the ring holds, oldest first.
Contents == [i \in 1 .. avail |-> _buf[(_tail + i - 1) % BUF_SIZE]]

(***************************************************************************)
(* Until the card first runs full, the file followed by the ring is what   *)
(* LogThread wrote, header and body of every record: nothing is refused,   *)
(* lost, repeated or reordered, wherever the wrap falls; after a failed    *)
(* write the file is still a prefix of it.  A full card, which flush() does*)
(* not notice, loses bytes, but what is in the file stays in order and     *)
(* comes from the stream, and the ring still holds the stream's end.       *)
(***************************************************************************)
LogIsStream ==
  /\ fills = 0 => /\ _open => file \o Contents = stream
                  /\ SubSeq(stream, 1, Len(file)) = file
  /\ Contents = SubSeq(stream, Len(stream) - avail + 1, Len(stream))
  /\ \A i \in 1 .. Len(file) : file[i] = stream[from[i]]
  /\ \A i \in 2 .. Len(file) : from[i - 1] < from[i]

\* The stream position before that of byte i of the file, if nothing was lost.
Before(i) == IF i = 1 THEN 0 ELSE from[i - 1]

(***************************************************************************)
(* A power cut costs whole records only, until the card first runs full:   *)
(* what f_sync has secured ends on a record boundary, and is a prefix of   *)
(* what was written.  Each time the card runs full costs part of one       *)
(* record: if the log goes on, it goes on with the first byte of a record. *)
(***************************************************************************)
SyncedAreRecords ==
  /\ fills = 0 => /\ synced \in ends
                  /\ SubSeq(file, 1, synced) = SubSeq(stream, 1, synced)
  /\ \A i \in 1 .. Len(file) : from[i] = Before(i) + 1 \/ from[i] - 1 \in ends
=============================================================================
