----------------------------- MODULE HeaderMmr ------------------------------
(***************************************************************************)
(* The header MMR (PMMRHandle<BlockHeader>, HeaderExtension,               *)
(* header_extending of chain/src/txhashset/txhashset.rs) and the header    *)
(* part of the pipeline (chain/src/pipe.rs).  The MMR is two files, the    *)
(* hashes and the data, written one after the other when an extension      *)
(* succeeds; header_head and the headers are in the database, whose batch  *)
(* the caller commits after both.  The process may stop in between, and    *)
(* setup_head then makes the MMR agree with header_head again.             *)
(*                                                                         *)
(* A file is a sequence with one entry per header.  An entry of the hash   *)
(* file stands for the leaf and the parents written with it, so the root   *)
(* over the first k entries is the right one for a chain exactly when      *)
(* these entries are the chain's first k headers.                          *)
(***************************************************************************)
EXTENDS Integers, Sequences

CONSTANTS
    Header,
    Genesis,
    ChainOf,        \* ChainOf[h]: the headers from genesis to h
    Work(_),        \* total_difficulty
    Resets,         \* the headers reset_chain_head is called with
    MaxCrashes      \* bound of the runs on the number of crashes

\* A chain starts at Genesis, ends with its own header, and its first k headers are
\* the chain of the k-th: what hash links guarantee.
ASSUME HeaderAssumption ==
    /\ Genesis \in Header
    /\ ChainOf \in [Header -> Seq(Header)]
    /\ \A h \in Header :
        /\ Len(ChainOf[h]) >= 1
        /\ h # Genesis => Len(ChainOf[h]) >= 2
        /\ ChainOf[h][1] = Genesis
        /\ ChainOf[h][Len(ChainOf[h])] = h
        /\ \A k \in 1..Len(ChainOf[h]) : ChainOf[ChainOf[h][k]] = SubSeq(ChainOf[h], 1, k)
        /\ Work(h) \in Nat
    /\ Resets \subseteq Header

height(h) == Len(ChainOf[h]) - 1
Parent(h) == ChainOf[h][height(h)]

\* validate_header makes total_difficulty grow strictly along a chain.
ASSUME HeaderWorkAssumption == \A h \in Header \ {Genesis} : Work(h) > Work(Parent(h))

VARIABLES
    headers,        \* db: the stored headers
    header_head,    \* db: the head of the header chain
    hash_file,
    data_file,
    size,           \* PMMRHandle::size, in headers
    batch,          \* the batch of the current call: [headers, header_head]
    ext,            \* the extension being written: [keep, new]
    pc,
    crashes,
    torn            \* auxiliary: a crash has interrupted the writing of a reorganisation

headerVars == <<headers, header_head, hash_file, data_file, size, batch, ext, pc, crashes, torn>>
db == <<headers, header_head>>
files == <<hash_file, data_file>>

has_more_work(h, head) == Work(h) > Work(head)

NoBatch == [headers |-> {}, header_head |-> Genesis]

NoExt == [keep |-> 0, new |-> <<>>]

HeaderInit ==
    /\ headers = {Genesis}
    /\ header_head = Genesis
    /\ hash_file = <<Genesis>>
    /\ data_file = <<Genesis>>
    /\ size = 1
    /\ batch = NoBatch
    /\ ext = NoExt
    /\ pc = "ready"
    /\ crashes = 0
    /\ torn = FALSE
-----------------------------------------------------------------------------

\* is_on_current_chain, of an extension whose head is the last of the first n headers
is_on_current_chain(h, n) == height(h) < n /\ data_file[height(h) + 1] = h

\* rewind_and_apply_header_fork: k headers are kept, the rest of h's chain is applied.
ForkPoint(h, k) ==
    /\ k > 1 => is_on_current_chain(ChainOf[h][k], size)
    /\ \A i \in (k + 1)..Len(ChainOf[h]) : ~is_on_current_chain(ChainOf[h][i], size)

\* ext.validate_root of a header applied on top of the first k
validate_root(h, k) == SubSeq(hash_file, 1, k) = SubSeq(ChainOf[h], 1, k)

\* flush starts with set_len to what the rewind kept.
Cut(f, k) == SubSeq(f, 1, k)

\* header_extending with the headers up to h applied: the files are written unless
\* the extension is rolled back, and the batch of the caller is then committed.
header_extending(h, rollback, b) ==
    \E k \in 1..Len(ChainOf[h]) :
        /\ ForkPoint(h, k)
        /\ k < Len(ChainOf[h]) => validate_root(h, k)
        /\ batch' = b
        /\ ext' = [keep |-> k, new |-> SubSeq(ChainOf[h], k + 1, Len(ChainOf[h]))]
        /\ IF rollback
           THEN pc' = "commit" /\ UNCHANGED hash_file
           ELSE pc' = "write_hashes" /\ hash_file' = Cut(hash_file, k)
        /\ UNCHANGED <<db, data_file, size, crashes, torn>>

Chunk(first, last) == {ChainOf[last][i] : i \in (height(first) + 1)..Len(ChainOf[last])}

\* process_block_headers: a chunk of consecutive headers that ends with last.
process_block_headers(first, last) ==
    LET more == has_more_work(last, header_head)
    IN  /\ pc = "ready"
        /\ first # Genesis /\ height(first) <= height(last) /\ ChainOf[last][height(first) + 1] = first
        /\ Parent(first) \in headers
        /\ header_extending(last, ~more,
               [headers |-> headers \cup Chunk(first, last), header_head |-> IF more THEN last ELSE header_head])

\* process_block_header: a header that is known is done unless it has more work.
process_block_header(h) ==
    LET more == has_more_work(h, header_head)
    IN  /\ pc = "ready"
        /\ h # Genesis
        /\ Parent(h) \in headers
        /\ h \in headers => more
        /\ header_extending(h, ~more,
               [headers |-> headers \cup {h}, header_head |-> IF more THEN h ELSE header_head])

\* reset_chain_head with rewind_headers
reset_chain_head(h) ==
    /\ pc = "ready"
    /\ h \in headers
    /\ header_extending(h, FALSE, [headers |-> headers, header_head |-> h])
-----------------------------------------------------------------------------
\* PMMRBackend::sync: the hash file, then the data file.
WriteHashes ==
    /\ pc = "write_hashes"
    /\ pc' = "cut_data"
    /\ hash_file' = hash_file \o ext.new
    /\ UNCHANGED <<db, data_file, size, batch, ext, crashes, torn>>

CutData ==
    /\ pc = "cut_data"
    /\ pc' = "write_data"
    /\ data_file' = Cut(data_file, ext.keep)
    /\ UNCHANGED <<db, hash_file, size, batch, ext, crashes, torn>>

\* sync and "handle.size = size"
WriteData ==
    /\ pc = "write_data"
    /\ pc' = "commit"
    /\ data_file' = data_file \o ext.new
    /\ size' = Len(hash_file)
    /\ UNCHANGED <<db, hash_file, batch, ext, crashes, torn>>

\* batch.commit() of the caller
commit ==
    /\ pc = "commit"
    /\ pc' = "ready"
    /\ headers' = batch.headers
    /\ header_head' = batch.header_head
    /\ batch' = NoBatch
    /\ ext' = NoExt
    /\ UNCHANGED <<files, size, crashes, torn>>

Reorganising ==
    /\ ext # NoExt
    /\ batch.header_head # header_head
    /\ ext.keep <= height(header_head)

\* The process stops; the write in progress may have got some way.
Crash ==
    /\ pc \notin {"down", "failed"}
    /\ crashes < MaxCrashes
    /\ crashes' = crashes + 1
    /\ torn' = (torn \/ Reorganising)
    /\ pc' = "down"
    /\ \/ UNCHANGED files
       \/ /\ pc = "write_hashes"
          /\ \E n \in 1..Len(ext.new) : hash_file' = hash_file \o SubSeq(ext.new, 1, n)
          /\ UNCHANGED data_file
       \/ /\ pc = "write_data"
          /\ \E n \in 1..Len(ext.new) : data_file' = data_file \o SubSeq(ext.new, 1, n)
          /\ UNCHANGED hash_file
    /\ size' = 0
    /\ batch' = NoBatch
    /\ ext' = NoExt
    /\ UNCHANGED db

\* PMMRHandle::new: the size is that of the hash file.
new ==
    /\ pc = "down"
    /\ pc' = "start"
    /\ size' = Len(hash_file)
    /\ UNCHANGED <<db, files, batch, ext, crashes, torn>>

\* Mutant: the header at that height is not compared.
MutHeadFits ==
    /\ height(header_head) + 1 <= size
    /\ height(header_head) + 1 <= Len(data_file)

HeadFits ==
    /\ height(header_head) + 1 <= size
    /\ height(header_head) + 1 <= Len(data_file)
    /\ data_file[height(header_head) + 1] = header_head

\* setup_head: init_head and an extension rewound to header_head,
init_head ==
    /\ pc = "start"
    /\ HeadFits
    /\ LET n == height(header_head) + 1
       IN  /\ size' = n
           /\ ext' = [keep |-> n, new |-> <<>>]
           /\ hash_file' = Cut(hash_file, n)
    /\ batch' = [headers |-> headers, header_head |-> header_head]
    /\ pc' = "write_hashes"
    /\ UNCHANGED <<db, data_file, crashes, torn>>

\* or the error "header PMMR inconsistent", with which Chain::init returns.
InitHeadFails ==
    /\ pc = "start"
    /\ ~HeadFits
    /\ pc' = "failed"
    /\ UNCHANGED <<db, files, size, batch, ext, crashes, torn>>

HeaderNext ==
    \/ \E first, last \in Header : process_block_headers(first, last)
    \/ \E h \in Header : process_block_header(h)
    \/ \E h \in Resets : reset_chain_head(h)
    \/ WriteHashes
    \/ CutData
    \/ WriteData
    \/ commit
    \/ Crash
    \/ new
    \/ init_head
    \/ InitHeadFails

HeaderSpec == HeaderInit /\ [][HeaderNext]_headerVars
-----------------------------------------------------------------------------
\* Between two calls the data file holds the chain of header_head and nothing else,
\* whatever of an extension was written before a crash: what init_head accepts and
\* setup_head rewinds is the chain get_header_by_height must find.
DataIsHeaderChain ==
    pc = "ready" => data_file = ChainOf[header_head] /\ size = Len(data_file)

\* The hash file, from which the roots of new headers are computed and which setup_head
\* never looks at, has the same headers, also after crashes, as long as they did not
\* interrupt a reorganisation of the header chain.
HashesAreHeaderChain == pc = "ready" /\ ~torn => hash_file = ChainOf[header_head]

\* Every header of the MMR can be looked up in the database, as is_on_current_chain
\* and header_extending (for its head) do with "?".
MmrHeadersStored ==
    pc = "ready" => \A i \in 1..Len(data_file) : data_file[i] \in headers

\* A node that stopped at any point of a header write starts again ("Recover from a crash
\* or restart during header sync", says init_head), with the same exception.
HeaderStartSucceeds == pc = "failed" => torn

\* The files of the header MMR recover from a crash at any point of a write: they hold
\* the chain of header_head, whose headers are all stored, and the node starts.
HeaderFilesRecover ==
    DataIsHeaderChain /\ HashesAreHeaderChain /\ MmrHeadersStored /\ HeaderStartSucceeds
=============================================================================
