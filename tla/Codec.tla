------------------------------- MODULE Codec -------------------------------
(***************************************************************************)
(* Reading messages off a connection: Codec::read (p2p/src/codec.rs) with  *)
(* the message headers of msg.rs, and the part of the reader loop of       *)
(* conn.rs that starts an attachment.  The bytes on the wire are pairs     *)
(* <<message, offset>>, so that a message put together from the wrong      *)
(* bytes is told from the one that was written.  A header is HeaderLen     *)
(* bytes; its contents are the type and length of the message whose first  *)
(* HeaderLen bytes it is, and anything else fails the magic check.         *)
(***************************************************************************)
EXTENDS Integers, Sequences, SequencesExt, FiniteSetsExt

CONSTANTS Shapes,        \* the messages a peer may write
          MaxMessages,   \* how many it writes
          HeaderLen,     \* MsgHeader::LEN
          CountLen,      \* bytes of the item count of a list of headers
          BatchSize,     \* HEADER_BATCH_SIZE
          MaxItem,       \* header_size_bytes(63), the largest block header
          ChunkLen,      \* bytes of an attachment read at once
          MaxMsgLen,     \* 4 * max_msg_size(type)
          MaxTimeouts,   \* read timeouts in a behaviour
          Partial        \* may a read time out with part of its bytes read?

VARIABLES sent,       \* the messages written, in order
          wire,       \* bytes not yet read
          buffer,     \* Codec::buffer
          state,      \* Codec::state
          out,        \* the messages handed to the reader loop
          closed,     \* the reader loop has ended
          timeouts

vars == <<sent, wire, buffer, state, out, closed, timeouts>>

\* A shape is the type, and for a list of headers the item count and the sizes
\* of the items, for the others the length of the body, and the length of the
\* attachment that follows an archive
Body(s) == IF s.type = "Headers" THEN CountLen + FoldSeq(LAMBDA x, y : x + y, 0, s.items)
           ELSE s.len

Bytes(i) == [k \in 1 .. HeaderLen + Body(sent[i]) + sent[i].attached |-> <<i, k>>]

\* write_message: header, body and attachment of one message after the other
Written == FlattenSeq([i \in DOMAIN sent |-> Bytes(i)])

NoState == [at |-> "None"]

Init == /\ sent \in UNION {[1 .. n -> Shapes] : n \in 1 .. MaxMessages}
        /\ wire = Written
        /\ buffer = <<>>
        /\ state = NoState
        /\ out = <<>>
        /\ closed = FALSE
        /\ timeouts = 0


\* Codec::next_len
next_len ==
    CASE state.at = "None" -> HeaderLen
      [] state.at = "Known" -> IF sent[state.msg].type = "Headers"
                               THEN Min({Body(sent[state.msg]), CountLen})
                               ELSE Body(sent[state.msg])
      [] state.at = "Unknown" -> Body(sent[state.msg])
      [] state.at = "BlockHeaders" -> Min({state.bytes_left, MaxItem})
      [] state.at = "Attachment" -> Min({state.left, ChunkLen})

to_read == Max({next_len - Len(buffer), 0})

\* The buffer after the missing bytes were read, the bytes of the next item
\* and what follows them
filled == buffer \o SubSeq(wire, 1, to_read)
raw == SubSeq(filled, 1, next_len)
rest == SubSeq(filled, next_len + 1, Len(filled))

\* read_exact gets all it asks for
Read == /\ ~closed /\ Len(wire) >= to_read
        /\ wire' = SubSeq(wire, to_read + 1, Len(wire))
        /\ UNCHANGED <<sent, timeouts>>

Fail == closed' = TRUE /\ UNCHANGED <<buffer, state, out>>

\* The bytes from offset k on belong together: they are those of one message
Aligned(bytes, k) == /\ bytes # <<>>
                     /\ \A j \in DOMAIN bytes : bytes[j] = <<bytes[1][1], k + j - 1>>

\* MsgHeaderWrapper::read: magic, type and length
read_header ==
    /\ state.at = "None" /\ Read
    /\ IF Aligned(raw, 1) /\ Body(sent[raw[1][1]]) <= MaxMsgLen
       THEN /\ state' = [at |-> IF sent[raw[1][1]].type = "Strange" THEN "Unknown" ELSE "Known",
                         msg |-> raw[1][1]]
            /\ buffer' = rest
            /\ UNCHANGED <<out, closed>>
       ELSE Fail

\* A list of headers: its item count
read_count ==
    /\ state.at = "Known" /\ Read
    /\ sent[state.msg].type = "Headers"
    /\ IF Len(raw) = CountLen
       THEN /\ state' = [at |-> "BlockHeaders", msg |-> state.msg, batch |-> <<>>,
                         bytes_left |-> Body(sent[state.msg]) - CountLen,
                         items_left |-> sent[state.msg].count]
            /\ buffer' = rest
            /\ UNCHANGED <<out, closed>>
       ELSE Fail

\* Any other message is decoded from its whole body; an archive that the
\* handler accepts makes the reader loop expect its attachment
read_body ==
    /\ state.at = "Known" /\ Read
    /\ sent[state.msg].type # "Headers"
    /\ out' = Append(out, <<sent[state.msg].type, raw>>)
    /\ buffer' = rest
    /\ state' = IF sent[state.msg].type = "TxHashSetArchive" /\ sent[state.msg].attached > 0
                THEN [at |-> "Attachment", msg |-> state.msg, left |-> sent[state.msg].attached]
                ELSE NoState
    /\ UNCHANGED closed

\* The body of a message of unknown type is dropped
discard ==
    /\ state.at = "Unknown" /\ Read
    /\ out' = Append(out, <<"Unknown", state.msg>>)
    /\ buffer' = rest
    /\ state' = NoState
    /\ UNCHANGED closed

\* The offset in its message where item n of a list of headers begins, and the
\* item that begins at an offset
Start(i, n) == HeaderLen + CountLen + 1
                 + FoldSeq(LAMBDA x, y : x + y, 0, SubSeq(sent[i].items, 1, n - 1))

ItemAt(byte) == {n \in DOMAIN sent[byte[1]].items : Start(byte[1], n) = byte[2]}

\* One block header off the front of the buffer: full batches, and the last
\* one, are handed out; the count and the length have to agree
read_block_header ==
    /\ state.at = "BlockHeaders" /\ Read
    /\ IF state.bytes_left = 0 \/ filled = <<>> \/ ItemAt(filled[1]) = {}
       THEN Fail
       ELSE LET n == CHOOSE k \in ItemAt(filled[1]) : TRUE
                size == sent[filled[1][1]].items[n]
                batch == Append(state.batch, SubSeq(filled, 1, size))
                left == Max({state.bytes_left - size, 0})
                remaining == state.items_left - 1
            IN  IF size > Len(filled) \/ (remaining = 0 /\ left > 0)
                THEN Fail
                ELSE /\ buffer' = SubSeq(filled, size + 1, Len(filled))
                     /\ state' = IF remaining = 0 THEN NoState
                                 ELSE [state EXCEPT !.bytes_left = left, !.items_left = remaining,
                                          !.batch = IF Len(batch) = BatchSize THEN <<>> ELSE batch]
                     /\ out' = IF Len(batch) = BatchSize \/ remaining = 0
                               THEN Append(out, <<"Headers", FlattenSeq(batch)>>) ELSE out
                     /\ UNCHANGED closed

\* A chunk of an attachment
read_attachment ==
    /\ state.at = "Attachment" /\ Read
    /\ out' = Append(out, <<"Attachment", raw>>)
    /\ buffer' = rest
    /\ state' = IF state.left = next_len THEN NoState
                ELSE [state EXCEPT !.left = @ - next_len]
    /\ UNCHANGED closed

\* A read times out.  The buffer is cut back to what it held; the bytes that
\* read_exact had taken from the socket, if any, are gone.  The reader loop
\* calls read again (try_break!).
TimedOut ==
    /\ ~closed /\ timeouts < MaxTimeouts /\ to_read > 0
    /\ \E k \in 0 .. IF Partial THEN Min({to_read - 1, Len(wire)}) ELSE 0 :
          wire' = SubSeq(wire, k + 1, Len(wire))
    /\ timeouts' = timeouts + 1
    /\ UNCHANGED <<sent, buffer, state, out, closed>>

\* The peer has nothing more to say
Quiet == /\ wire = <<>> \/ closed
         /\ UNCHANGED vars

Next == \/ read_header \/ read_count \/ read_body \/ discard
        \/ read_block_header \/ read_attachment \/ TimedOut \/ Quiet

Spec == Init /\ [][Next]_vars

-----------------------------------------------------------------------------
WellFormed(s) == /\ Body(s) <= MaxMsgLen
                 /\ s.type = "Headers" => s.count = Len(s.items)

\* The bytes of a message, a block header or an attachment that were written
Part(i, from, to) == [k \in 1 .. to - from + 1 |-> <<i, from + k - 1>>]

\* What the reader loop is to be handed for message i
Expected(i) ==
    LET s == sent[i]
        last == HeaderLen + Body(s)
        items == Len(s.items)
        batches == (items + BatchSize - 1) \div BatchSize
        chunks == (s.attached + ChunkLen - 1) \div ChunkLen
    IN  IF s.type = "Strange" THEN << <<"Unknown", i>> >>
        ELSE IF s.type = "Headers"
        THEN [b \in 1 .. batches |->
                <<"Headers", Part(i, Start(i, (b - 1) * BatchSize + 1),
                                  Start(i, Min({b * BatchSize, items}) + 1) - 1)>>]
        ELSE << <<s.type, Part(i, HeaderLen + 1, last)>> >>
               \o [c \in 1 .. chunks |->
                     <<"Attachment", Part(i, last + (c - 1) * ChunkLen + 1,
                                          last + Min({c * ChunkLen, s.attached}))>>]

=============================================================================
