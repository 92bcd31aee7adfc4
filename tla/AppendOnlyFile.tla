--------------------------- MODULE AppendOnlyFile ---------------------------
(***************************************************************************)
(* AppendOnlyFile (store/src/types.rs) for elements of different sizes: a  *)
(* data file of bytes and a size file with the offset and the size of each *)
(* element, itself an AppendOnlyFile with entries of one size.  Appends    *)
(* wait in a buffer, a rewind only moves buffer_start_pos, flush cuts and  *)
(* writes the size file and then the data file.  The process may stop      *)
(* between any two of these writes and inside one; the file is then opened *)
(* and, as setup_head does, rewound one block (here: one element) after    *)
(* the other until the part both branches share is reached.                *)
(***************************************************************************)
EXTENDS Integers, SequencesExt, FiniteSetsExt

CONSTANTS
    Elem,
    Size(_),       \* the serialized size of an element, in bytes
    Zero,          \* the byte set_len fills a file up with
    MaxLen,        \* bound of the runs on the number of elements
    MaxRewind,     \* bound of the runs on the elements a reorganisation undoes
    MaxCrashes     \* bound of the runs on the number of crashes

SizeAssumption == \A e \in Elem : Size(e) \in Nat \ {0}

VARIABLES
    data,          \* the data file: bytes <<element, number of the byte>>
    sizes,         \* the size file: [offset, size]
    mem,           \* the open data file: its buffer, buffer_start_pos and ..._bak
    smem,          \* the same of the size file
    step,          \* "ready", what flush does next, "down", or "repair"
    todo,          \* the position the repair rewinds to next
    view,          \* history: the elements a reader must see
    synced,        \* history: the elements at the last completed flush
    keep,          \* history: how many of them the flush in progress keeps
    crashes

vars == <<data, sizes, mem, smem, step, todo, view, synced, keep, crashes>>

Empty == [buf |-> <<>>, start |-> 0, bak |-> 0]

Bytes(e) == [i \in 1..Size(e) |-> <<e, i>>]

\* The file of a chain that has its genesis block.
Init ==
    \E e \in Elem :
        /\ data = Bytes(e)
        /\ sizes = <<[offset |-> 0, size |-> Size(e)]>>
        /\ mem = [Empty EXCEPT !.start = 1]
        /\ smem = [Empty EXCEPT !.start = 1]
        /\ step = "ready"
        /\ todo = 0
        /\ view = <<e>>
        /\ synced = <<e>>
        /\ keep = 1
        /\ crashes = 0

\* set_len, with what it fills up with
SetLen(f, n, zero) == [i \in 1..n |-> IF i <= Len(f) THEN f[i] ELSE zero]
ZeroEntry == [offset |-> 0, size |-> 0]

\* offset_and_size: read_as_elmt of the size file, from the file or from its buffer.
size_unsync_in_elmts == smem.start + Len(smem.buf)
offset_and_size(pos) ==
    IF pos < smem.start
    THEN IF pos < Len(sizes) THEN sizes[pos + 1] ELSE ZeroEntry
    ELSE smem.buf[pos - smem.start + 1]

\* read: from the file below buffer_start_pos, from the buffer above.
read(pos) ==
    LET e == offset_and_size(pos)
        from == IF pos < mem.start THEN data ELSE mem.buf
        offset == IF pos < mem.start THEN e.offset ELSE e.offset - offset_and_size(mem.start).offset
    IN  IF offset + e.size <= Len(from) THEN SubSeq(from, offset + 1, offset + e.size) ELSE <<>>

append(e) ==
    LET next_pos == size_unsync_in_elmts
        prev == offset_and_size(next_pos - 1)
        offset == IF next_pos = 0 THEN 0 ELSE prev.offset + prev.size
    IN  /\ step = "ready"
        /\ Len(view) < MaxLen
        /\ smem' = [smem EXCEPT !.buf = Append(@, [offset |-> offset, size |-> Size(e)])]
        /\ mem' = [mem EXCEPT !.buf = @ \o Bytes(e)]
        /\ view' = Append(view, e)
        /\ UNCHANGED <<data, sizes, step, todo, synced, keep, crashes>>

Rewound(m, pos) == [m EXCEPT !.bak = IF @ = 0 THEN m.start ELSE @, !.start = pos]

\* Not "within the buffer itself": the buffer is empty.
rewind(pos) ==
    /\ step = "ready"
    /\ mem.buf = <<>>
    /\ pos <= mem.start
    /\ pos >= Len(synced) - MaxRewind
    /\ mem' = Rewound(mem, pos)
    /\ smem' = Rewound(smem, pos)
    /\ view' = SubSeq(view, 1, pos)
    /\ keep' = Min({keep, pos})
    /\ UNCHANGED <<data, sizes, step, todo, synced, crashes>>


Discarded(m) == [buf |-> <<>>, start |-> IF m.bak > 0 THEN m.bak ELSE m.start, bak |-> 0]

discard ==
    /\ step = "ready"
    /\ mem' = Discarded(mem)
    /\ smem' = Discarded(smem)
    /\ view' = synced
    /\ keep' = Len(synced)
    /\ UNCHANGED <<data, sizes, step, todo, synced, crashes>>
-----------------------------------------------------------------------------
\* flush: the size file is cut and written,
flush ==
    /\ step = "ready"
    /\ step' = "write sizes"
    /\ sizes' = IF smem.bak > 0 THEN SetLen(sizes, smem.start, ZeroEntry) ELSE sizes
    /\ UNCHANGED <<data, mem, smem, todo, view, synced, keep, crashes>>

WriteSizes ==
    /\ step = "write sizes"
    /\ step' = "cut data"
    /\ sizes' = sizes \o smem.buf
    /\ smem' = [buf |-> <<>>, start |-> Len(sizes'), bak |-> 0]
    /\ UNCHANGED <<data, mem, todo, view, synced, keep, crashes>>

\* then the data file, to the length the size file gives for the last element.
CutData ==
    LET last == offset_and_size(mem.start - 1)
    IN  /\ step = "cut data"
        /\ step' = "write data"
        /\ data' = IF mem.bak = 0 THEN data
                   ELSE IF mem.start = 0 THEN <<>>
                   ELSE SetLen(data, last.offset + last.size, <<Zero, 1>>)
        /\ UNCHANGED <<sizes, mem, smem, todo, view, synced, keep, crashes>>

WriteData ==
    /\ step = "write data"
    /\ data' = data \o mem.buf
    /\ mem' = [buf |-> <<>>, start |-> Len(sizes), bak |-> 0]
    /\ IF todo > keep
       THEN step' = "repair" /\ todo' = todo - 1 /\ UNCHANGED <<synced, keep>>
       ELSE step' = "ready" /\ todo' = 0 /\ synced' = view /\ keep' = Len(view)
    /\ UNCHANGED <<sizes, smem, view, crashes>>

\* The process stops; a write in progress may have got some way.
Crash ==
    /\ step # "down"
    /\ crashes < MaxCrashes
    /\ crashes' = crashes + 1
    /\ step' = "down"
    /\ \/ UNCHANGED <<data, sizes>>
       \/ /\ step = "write sizes"
          /\ \E n \in 1..Len(smem.buf) : sizes' = sizes \o SubSeq(smem.buf, 1, n)
          /\ UNCHANGED data
       \/ /\ step = "write data"
          /\ \E n \in 1..Len(mem.buf) : data' = data \o SubSeq(mem.buf, 1, n)
          /\ UNCHANGED sizes
    /\ mem' = Empty
    /\ smem' = Empty
    /\ todo' = 0
    /\ view' = SubSeq(synced, 1, keep)
    /\ UNCHANGED <<synced, keep>>

\* rebuild_size_file: one entry per element that can be read from the data file.
ElementsOf(f) ==
    SetToSortSeq({k \in 1..Len(f) : f[k][2] = 1 /\ k + Size(f[k][1]) - 1 <= Len(f)}, <)

rebuild_size_file(f) ==
    [i \in 1..Len(ElementsOf(f)) |-> [offset |-> ElementsOf(f)[i] - 1, size |-> Size(f[ElementsOf(f)[i]][1])]]

sum_sizes(entries) == FoldSeq(LAMBDA e, n : e.size + n, 0, entries)

\* open: the size file is rebuilt if its sizes do not add up to the data file's.
OpenSizes == IF sum_sizes(sizes) # Len(data) THEN rebuild_size_file(data) ELSE sizes

open ==
    /\ step = "down"
    /\ step' = "repair"
    /\ sizes' = OpenSizes
    /\ mem' = [Empty EXCEPT !.start = Len(sizes')]
    /\ smem' = [Empty EXCEPT !.start = Len(sizes')]
    /\ todo' = IF keep = Len(synced) THEN keep ELSE Len(synced) - 1
    /\ UNCHANGED <<data, view, synced, keep, crashes>>

\* setup_head: an extension rewound to the head, or to the block before one whose
\* roots do not validate, and written.
Repair ==
    /\ step = "repair"
    /\ mem' = Rewound(mem, todo)
    /\ smem' = Rewound(smem, todo)
    /\ step' = "write sizes"
    /\ sizes' = IF smem'.bak > 0 THEN SetLen(sizes, smem'.start, ZeroEntry) ELSE sizes
    /\ UNCHANGED <<data, todo, view, synced, keep, crashes>>

Next ==
    \/ \E e \in Elem : append(e)
    \/ \E pos \in 1..MaxLen : rewind(pos)
    \/ discard
    \/ flush
    \/ WriteSizes
    \/ CutData
    \/ WriteData
    \/ Crash
    \/ open
    \/ Repair

Spec == Init /\ [][Next]_vars
-----------------------------------------------------------------------------
\* Between two calls every position reads as the element that was appended there,
\* from the file or from the buffer, after rewinds, discards, flushes and repairs;
\* there are no others.
ReadsBack ==
    step = "ready" =>
        /\ size_unsync_in_elmts = Len(view)
        /\ \A pos \in 1..Len(view) : read(pos - 1) = Bytes(view[pos])

\* The elements both branches have are readable after every open, also between the
\* rewinds of a repair.
SharedPartKept ==
    step = "repair" =>
        /\ Len(sizes) >= keep
        /\ \A pos \in 1..keep : read(pos - 1) = Bytes(synced[pos])

\* A flushed file ends with its last element: what a torn write or a rewind left is cut.
NoTrailingBytes == step = "ready" => Len(data) = sum_sizes(sizes)
=============================================================================
