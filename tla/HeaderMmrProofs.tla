-------------------------- MODULE HeaderMmrProofs ---------------------------
(***************************************************************************)
(* The files of the header MMR hold the chain of header_head again after a *)
(* crash at any point, for any tree of headers and any number of crashes   *)
(* (HeaderMmr!HeaderFilesRecover).                                         *)
(*                                                                         *)
(* The data file is always some header's chain.  While an extension is     *)
(* written, the files agree with the chain of the head to be up to what    *)
(* the extension keeps, and this agrees with the chain of the present      *)
(* head; only a reorganisation keeps less than all of it, so after any     *)
(* other crash both files still have the present head.                     *)
(***************************************************************************)
EXTENDS HeaderMmr, TLAPS

\* The provers of a leaf that names none, in this order.
USE SMTT(30), ZenonT(30), SMTT(60)

Chains == {ChainOf[y] : y \in Header}
HeadChain == ChainOf[header_head]
NewChain == ChainOf[batch.header_head]      \* what the extension writes

Agree(f, w, k) == k <= Len(f) /\ k <= Len(w) /\ \A i \in 1..k : f[i] = w[i]
Closed(hs) == \A x \in hs : \A i \in 1..Len(ChainOf[x]) : ChainOf[x][i] \in hs

Calm == {"ready", "down", "start", "failed"}
Writes == {"write_hashes", "cut_data", "write_data"}

HeaderTypeOK ==
  /\ headers \subseteq Header /\ header_head \in headers /\ Closed(headers)
  /\ hash_file \in Seq(Header) /\ data_file \in Chains
  /\ pc \in Calm \union Writes \union {"commit"} /\ torn \in BOOLEAN
  /\ pc \in Calm => ext = NoExt
  /\ pc \notin Calm =>
       /\ batch.headers \subseteq Header /\ batch.header_head \in batch.headers /\ Closed(batch.headers)
       /\ ext.keep \in Nat \ {0}

WritesInv ==
  pc \in Writes =>
    /\ ext.keep <= Len(NewChain) /\ ext.new = SubSeq(NewChain, ext.keep + 1, Len(NewChain))
    /\ Agree(HeadChain, NewChain, ext.keep)
    /\ batch.header_head = header_head => ext.keep = Len(HeadChain)
    /\ IF pc = "write_hashes"
       THEN Len(hash_file) = ext.keep /\ (~ torn => Agree(hash_file, NewChain, ext.keep))
       ELSE Len(hash_file) = Len(NewChain) /\ (~ torn => hash_file = NewChain)
    /\ Agree(data_file, NewChain, ext.keep)
    /\ IF pc = "write_data" THEN Len(data_file) = ext.keep ELSE Agree(data_file, HeadChain, Len(HeadChain))

CommitInv ==
  pc = "commit" =>
    /\ data_file = NewChain /\ size = Len(NewChain) /\ Len(hash_file) = Len(NewChain)
    /\ ~ torn => hash_file = NewChain
    /\ batch.header_head # header_head /\ ext.keep >= Len(HeadChain) => Agree(NewChain, HeadChain, Len(HeadChain))

ReadyInv ==
  pc = "ready" =>
    /\ data_file = HeadChain /\ size = Len(HeadChain) /\ Len(hash_file) = Len(HeadChain)
    /\ ~ torn => hash_file = HeadChain

DownInv ==
  /\ pc \in {"down", "start"} /\ ~ torn => Agree(hash_file, HeadChain, Len(HeadChain)) /\ Agree(data_file, HeadChain, Len(HeadChain))
  /\ pc = "start" => size = Len(hash_file)
  /\ pc = "failed" => torn

HeaderInv == HeaderTypeOK /\ WritesInv /\ CommitInv /\ ReadyInv /\ DownInv

\* set_len keeps the first entries of a file.
LEMMA CutFacts ==
  ASSUME NEW S, NEW f \in Seq(S), NEW k \in Nat, k <= Len(f)
  PROVE  Cut(f, k) \in Seq(S) /\ Len(Cut(f, k)) = k /\ \A i \in 1..k : Cut(f, k)[i] = f[i]
BY DEF Cut

\* An extension appends to what it kept.
Appended(S, f, d, r) ==
  /\ r \in Seq(S) /\ Len(r) = Len(f) + Len(d)
  /\ \A i \in 1..Len(f) : r[i] = f[i]
  /\ \A i \in 1..Len(d) : r[Len(f) + i] = d[i]

\* That is what the concatenation is.
LEMMA ConcatFacts ==
  ASSUME NEW S, NEW f \in Seq(S), NEW d \in Seq(S)
  PROVE  Appended(S, f, d, f \o d)
BY DEF Appended

\* What HeaderAssumption says of one chain (the prev_hash links of a header).
LEMMA ChainFacts ==
  ASSUME NEW h \in Header
  PROVE  /\ ChainOf[h] \in Seq(Header) /\ Len(ChainOf[h]) \in Nat \ {0}
         /\ ChainOf[h][1] = Genesis /\ ChainOf[h][Len(ChainOf[h])] = h
         /\ \A k \in 1..Len(ChainOf[h]) :
              /\ ChainOf[h][k] \in Header /\ ChainOf[ChainOf[h][k]] = SubSeq(ChainOf[h], 1, k)
              /\ Len(ChainOf[ChainOf[h][k]]) = k
              /\ \A i \in 1..k : ChainOf[ChainOf[h][k]][i] = ChainOf[h][i]
<1>1. ChainOf[h] \in Seq(Header) /\ Len(ChainOf[h]) >= 1
  BY HeaderAssumption
<1>2. Len(ChainOf[h]) \in Nat \ {0} /\ ChainOf[h][1] = Genesis /\ ChainOf[h][Len(ChainOf[h])] = h
  BY <1>1, HeaderAssumption
<1>3. ASSUME NEW k \in 1..Len(ChainOf[h])
      PROVE  /\ ChainOf[h][k] \in Header /\ ChainOf[ChainOf[h][k]] = SubSeq(ChainOf[h], 1, k)
             /\ Len(ChainOf[ChainOf[h][k]]) = k
             /\ \A i \in 1..k : ChainOf[ChainOf[h][k]][i] = ChainOf[h][i]
  <2>1. ChainOf[h][k] \in Header
    BY <1>1
  <2>2. ChainOf[ChainOf[h][k]] = SubSeq(ChainOf[h], 1, k)
    BY HeaderAssumption
  <2>3. Len(SubSeq(ChainOf[h], 1, k)) = k /\ \A i \in 1..k : SubSeq(ChainOf[h], 1, k)[i] = ChainOf[h][i]
    <3>1. k \in Nat /\ k <= Len(ChainOf[h])
      BY <1>2
    <3> QED BY ZenonT(30), <1>1, <3>1, CutFacts DEF Cut
  <2> QED BY ZenonT(30), <2>1, <2>2, <2>3
<1> QED BY <1>1, <1>2, <1>3

\* Two chains with the same header at one height agree up to it.
LEMMA ChainsAgree ==
  ASSUME NEW x \in Header, NEW y \in Header, NEW k \in 1..Len(ChainOf[x]), k <= Len(ChainOf[y]),
         ChainOf[x][k] = ChainOf[y][k]
  PROVE  Agree(ChainOf[x], ChainOf[y], k)
<1>1. k \in 1..Len(ChainOf[y]) /\ k \in Nat
  BY ChainFacts
<1>2. \A i \in 1..k : ChainOf[ChainOf[x][k]][i] = ChainOf[x][i]
  BY ChainFacts
<1>3. \A i \in 1..k : ChainOf[ChainOf[y][k]][i] = ChainOf[y][i]
  BY <1>1, ChainFacts
<1>4. k <= Len(ChainOf[x])
  BY ChainFacts
<1> QED BY <1>2, <1>3, <1>4 DEF Agree

\* Two lists of headers that agree on all their entries are the same.
LEMMA AgreeEqual ==
  ASSUME NEW S, NEW f \in Seq(S), NEW w \in Seq(S), Len(f) = Len(w), Agree(f, w, Len(w))
  PROVE  f = w
BY DEF Agree

\* A chain that is cut is the chain of a header of it.
LEMMA CutChain ==
  ASSUME NEW f \in Chains, NEW k \in 1..Len(f)
  PROVE  Cut(f, k) \in Chains
<1>1. PICK y \in Header : f = ChainOf[y]
  BY DEF Chains
<1>2. ChainOf[y][k] \in Header /\ ChainOf[ChainOf[y][k]] = SubSeq(ChainOf[y], 1, k)
  BY <1>1, ChainFacts
<1> QED BY <1>1, <1>2 DEF Chains, Cut

\* header_extending, called with a batch that stores the headers it applies.
LEMMA ExtendingStep ==
  ASSUME HeaderInv, pc = "ready", NEW h \in Header, NEW back \in BOOLEAN, NEW hs \in SUBSET Header, NEW t \in hs,
         Closed(hs), t = IF back THEN header_head ELSE h,
         header_extending(h, back, [headers |-> hs, header_head |-> t])
  PROVE  HeaderInv'
<1>1. PICK k \in 1..Len(ChainOf[h]) :
        /\ ForkPoint(h, k)
        /\ ext' = [keep |-> k, new |-> SubSeq(ChainOf[h], k + 1, Len(ChainOf[h]))]
        /\ IF back THEN pc' = "commit" /\ UNCHANGED hash_file
           ELSE pc' = "write_hashes" /\ hash_file' = Cut(hash_file, k)
  BY ZenonT(30) DEF header_extending
<1>2. /\ batch' = [headers |-> hs, header_head |-> t]
      /\ UNCHANGED <<headers, header_head, data_file, size, torn>>
  BY DEF header_extending, db
<1>3. /\ header_head \in Header /\ data_file = HeadChain /\ size = Len(HeadChain)
      /\ Len(hash_file) = Len(HeadChain) /\ hash_file \in Seq(Header) /\ (~ torn => hash_file = HeadChain)
  BY DEF HeaderInv, HeaderTypeOK, ReadyInv
<1>4. /\ HeadChain \in Seq(Header) /\ Len(HeadChain) \in Nat \ {0}
      /\ HeadChain[1] = Genesis /\ HeadChain[Len(HeadChain)] = header_head
  BY <1>3, ChainFacts DEF HeadChain
<1>5. /\ k \in Nat \ {0} /\ k <= Len(ChainOf[h]) /\ Len(ChainOf[h]) \in Nat /\ ChainOf[h][k] \in Header
      /\ Len(ChainOf[ChainOf[h][k]]) = k /\ ChainOf[h][1] = Genesis /\ ChainOf[h][Len(ChainOf[h])] = h
  BY ChainFacts
<1>6. k <= Len(HeadChain) /\ HeadChain[k] = ChainOf[h][k]
  <2>1. CASE k = 1
    BY <1>4, <1>5, <2>1
  <2>2. CASE k > 1
    <3>1. is_on_current_chain(ChainOf[h][k], size)
      BY <1>1, <2>2 DEF ForkPoint
    <3> QED BY <1>3, <1>4, <1>5, <3>1 DEF is_on_current_chain, height
  <2> QED BY <1>5, <2>1, <2>2
<1>7. Agree(HeadChain, ChainOf[h], k)
  <2>1. k \in 1..Len(HeadChain)
    BY <1>4, <1>5, <1>6
  <2> QED BY <1>3, <1>5, <1>6, <2>1, ChainsAgree DEF HeadChain
<1>8. h = header_head => k = Len(HeadChain)
  <2> SUFFICES ASSUME h = header_head, k # Len(HeadChain) PROVE FALSE
    OBVIOUS
  <2>1. Len(HeadChain) \in (k + 1)..Len(ChainOf[h])
    BY <1>4, <1>5, <1>6 DEF HeadChain
  <2>2. ~ is_on_current_chain(ChainOf[h][Len(HeadChain)], size)
    BY <1>1, <2>1 DEF ForkPoint
  <2>3. is_on_current_chain(h, size)
    BY <1>3, <1>4 DEF is_on_current_chain, height, HeadChain
  <2> QED BY <1>5, <2>2, <2>3 DEF HeadChain
<1>9. HeadChain' = HeadChain /\ (Closed(headers))' /\ (Closed(batch.headers))'
  BY <1>2 DEF HeadChain, Closed, HeaderInv, HeaderTypeOK
<1>10. CASE back
  <2>1. pc' = "commit" /\ hash_file' = hash_file /\ NewChain' = HeadChain /\ t = header_head
    BY <1>1, <1>2, <1>10 DEF NewChain, HeadChain
  <2>2. HeaderTypeOK'
    BY <1>1, <1>2, <1>5, <1>9, <2>1 DEF HeaderInv, HeaderTypeOK, Calm, Writes
  <2>3. CommitInv'
    BY <1>2, <1>3, <1>9, <2>1 DEF CommitInv
  <2> QED BY <2>1, <2>2, <2>3 DEF HeaderInv, WritesInv, ReadyInv, DownInv, Writes
<1>11. CASE ~ back
  <2>1. pc' = "write_hashes" /\ hash_file' = Cut(hash_file, k) /\ NewChain' = ChainOf[h] /\ t = h
    BY <1>1, <1>2, <1>11 DEF NewChain
  <2>2. /\ hash_file' \in Seq(Header) /\ Len(hash_file') = k
        /\ \A i \in 1..k : hash_file'[i] = hash_file[i]
    BY <1>3, <1>5, <1>6, <2>1, CutFacts
  <2>3. HeaderTypeOK'
    BY <1>1, <1>2, <1>5, <1>9, <2>1, <2>2 DEF HeaderInv, HeaderTypeOK, Calm, Writes
  <2>4. ext.keep' = k /\ ext.new' = SubSeq(ChainOf[h], k + 1, Len(ChainOf[h])) /\ batch.header_head' = h
    BY <1>1, <1>2, <2>1
  <2>5. ~ torn => Agree(hash_file', ChainOf[h], k)
    BY <1>3, <1>5, <1>7, <2>2 DEF Agree
  <2>6. Agree(data_file, ChainOf[h], k) /\ Agree(data_file, HeadChain, Len(HeadChain))
    BY <1>3, <1>4, <1>7 DEF Agree
  <2>7. WritesInv'
    BY <1>2, <1>5, <1>7, <1>8, <1>9, <2>1, <2>2, <2>4, <2>5, <2>6 DEF WritesInv
  <2> QED BY <2>1, <2>3, <2>7 DEF HeaderInv, CommitInv, ReadyInv, DownInv, Writes
<1> QED BY <1>10, <1>11

\* process_block_headers: with the parent of the first header the rest of the chunk's
\* chain is stored as well.
LEMMA ChunkClosed ==
  ASSUME NEW hs \in SUBSET Header, Closed(hs), NEW first \in Header \ {Genesis}, NEW last \in Header,
         height(first) <= height(last), ChainOf[last][height(first) + 1] = first, Parent(first) \in hs
  PROVE  /\ Chunk(first, last) \subseteq Header /\ last \in Chunk(first, last)
         /\ Closed(hs \union Chunk(first, last))
<1> DEFINE m == Len(ChainOf[first])
           n == Len(ChainOf[last])
<1>1. m \in Nat /\ m >= 2 /\ n \in Nat \ {0} /\ m <= n /\ ChainOf[last][m] = first /\ ChainOf[last][n] = last
  BY ChainFacts, HeaderAssumption DEF height
<1>2. Chunk(first, last) = {ChainOf[last][i] : i \in m..n}
  BY <1>1 DEF Chunk, height
<1>3. \A i \in 1..n : /\ ChainOf[last][i] \in Header /\ Len(ChainOf[ChainOf[last][i]]) = i
                      /\ \A j \in 1..i : ChainOf[ChainOf[last][i]][j] = ChainOf[last][j]
  BY ChainFacts
<1> HIDE DEF m, n
<1>4. Parent(first) = ChainOf[last][m - 1]
  <2>1. m \in 1..n /\ m - 1 \in 1..m
    BY <1>1
  <2>2. ChainOf[first][m - 1] = ChainOf[last][m - 1]
    BY ZenonT(30), <1>1, <1>3, <2>1
  <2> QED BY <2>2 DEF Parent, height, m
<1>5. \A j \in 1..(m - 1) : ChainOf[last][j] \in hs
  <2>1. m - 1 \in 1..n
    BY <1>1
  <2>2. /\ Len(ChainOf[ChainOf[last][m - 1]]) = m - 1 /\ ChainOf[last][m - 1] \in hs
        /\ \A j \in 1..(m - 1) : ChainOf[ChainOf[last][m - 1]][j] = ChainOf[last][j]
    BY ZenonT(30), <1>3, <1>4, <2>1
  <2> QED BY ZenonT(30), <2>2 DEF Closed
<1>6. \A j \in 1..n : ChainOf[last][j] \in hs \union Chunk(first, last)
  <2> SUFFICES ASSUME NEW j \in 1..n PROVE ChainOf[last][j] \in hs \union Chunk(first, last)
    OBVIOUS
  <2>1. j \in 1..(m - 1) \/ j \in m..n
    BY <1>1
  <2> QED BY <1>2, <1>5, <2>1
<1>7. Chunk(first, last) \subseteq Header /\ last \in Chunk(first, last)
  BY <1>1, <1>2, <1>3
<1>8. ASSUME NEW x \in hs \union Chunk(first, last), NEW i \in 1..Len(ChainOf[x])
      PROVE  ChainOf[x][i] \in hs \union Chunk(first, last)
  <2>1. CASE x \in hs
    BY <2>1 DEF Closed
  <2>2. CASE x \in Chunk(first, last)
    <3>1. PICK l \in m..n : x = ChainOf[last][l]
      BY <1>2, <2>2
    <3>2. l \in 1..n /\ i \in 1..l /\ i \in 1..n
      BY <1>1, <1>3, <3>1
    <3> QED BY <1>3, <1>6, <3>1, <3>2
  <2> QED BY <2>1, <2>2
<1> QED BY <1>7, <1>8 DEF Closed

\* What is known in the middle of an extension of the chains it is about.
LEMMA WritesFacts ==
  ASSUME HeaderInv, pc \in Writes
  PROVE  /\ header_head \in Header /\ batch.header_head \in Header
         /\ HeadChain \in Seq(Header) /\ Len(HeadChain) \in Nat \ {0}
         /\ NewChain \in Seq(Header) /\ Len(NewChain) \in Nat \ {0} /\ NewChain \in Chains
         /\ ext.keep \in Nat \ {0} /\ ext.keep <= Len(NewChain)
         /\ ext.new = SubSeq(NewChain, ext.keep + 1, Len(NewChain))
         /\ hash_file \in Seq(Header) /\ data_file \in Seq(Header) /\ Len(data_file) \in Nat
         /\ Len(ext.new) \in Nat /\ pc \notin Calm
<1>1. /\ header_head \in Header /\ batch.header_head \in Header /\ pc \notin Calm
      /\ ext.keep \in Nat \ {0} /\ hash_file \in Seq(Header) /\ data_file \in Chains
  BY DEF HeaderInv, HeaderTypeOK, Calm, Writes
<1>2. data_file \in Seq(Header) /\ Len(data_file) \in Nat
  BY <1>1, ChainFacts DEF Chains
<1>3. /\ HeadChain \in Seq(Header) /\ Len(HeadChain) \in Nat \ {0}
      /\ NewChain \in Seq(Header) /\ Len(NewChain) \in Nat \ {0} /\ NewChain \in Chains
  BY <1>1, ChainFacts DEF HeadChain, NewChain, Chains
<1>4. ext.keep <= Len(NewChain) /\ ext.new = SubSeq(NewChain, ext.keep + 1, Len(NewChain))
  BY DEF HeaderInv, WritesInv
<1>5. Len(ext.new) \in Nat
  BY <1>1, <1>3, <1>4
<1> QED BY ZenonT(30), <1>1, <1>2, <1>3, <1>4, <1>5

\* r is f, which has what an extension keeps, with the first n headers it applies.
Joined(f, n, r) ==
  /\ r \in Seq(Header) /\ Len(r) = ext.keep + n /\ n \in Nat
  /\ ext.keep + n \in 1..Len(NewChain)
  /\ \A i \in 1..ext.keep : r[i] = f[i]
  /\ \A i \in (ext.keep + 1)..(ext.keep + n) : r[i] = NewChain[i]
  /\ n = Len(ext.new) => f \o ext.new = r /\ ext.keep + n = Len(NewChain)

\* A write of n headers does that.
LEMMA NewEntries ==
  ASSUME HeaderInv, pc \in Writes, NEW f \in Seq(Header), Len(f) = ext.keep, NEW n \in 0..Len(ext.new)
  PROVE  Joined(f, n, f \o SubSeq(ext.new, 1, n))
<1> DEFINE w == NewChain
           k == ext.keep
           e == ext.new
           d == SubSeq(e, 1, n)
           r == f \o d
<1>1. k \in Nat \ {0} /\ k <= Len(w) /\ w \in Seq(Header) /\ Len(w) \in Nat
  BY ZenonT(30), WritesFacts
<1>2. e = SubSeq(w, k + 1, Len(w)) /\ Len(f) = k /\ n \in 0..Len(e)
  BY ZenonT(30), WritesFacts
<1> HIDE DEF w, k, e
<1>3. e \in Seq(Header) /\ Len(e) = Len(w) - k /\ \A i \in 1..(Len(w) - k) : e[i] = w[k + i]
  BY <1>1, <1>2
<1>4. n \in Nat /\ n <= Len(w) - k /\ k + n \in 1..Len(w) /\ (n = Len(e) => k + n = Len(w))
  BY <1>1, <1>2, <1>3
<1>5. d \in Seq(Header) /\ Len(d) = n /\ \A i \in 1..n : d[i] = e[i]
  BY <1>3, <1>4
<1>6. n = Len(e) => d = e
  BY <1>3, <1>5
<1> HIDE DEF d
<1>7. d \in Seq(Header) /\ Len(d) = n
  BY <1>5
<1>8. Appended(Header, f, d, r)
  BY ZenonT(30), <1>7, ConcatFacts
<1>9. r \in Seq(Header) /\ Len(r) = k + n /\ \A i \in 1..k : r[i] = f[i]
  BY ZenonT(30), <1>2, <1>7, <1>8 DEF Appended
<1>10. \A i \in 1..n : r[k + i] = d[i]
  BY ZenonT(30), <1>2, <1>7, <1>8 DEF Appended
<1>11. ASSUME NEW i \in (k + 1)..(k + n) PROVE r[i] = w[i]
  <2>1. i - k \in 1..n /\ k + (i - k) = i /\ i - k \in 1..(Len(w) - k)
    BY <1>1, <1>4
  <2>2. r[k + (i - k)] = d[i - k] /\ d[i - k] = e[i - k] /\ e[i - k] = w[k + (i - k)]
    BY ZenonT(30), <1>3, <1>5, <1>10, <2>1
  <2> QED BY ZenonT(30), <2>1, <2>2
<1> HIDE DEF r
<1>12. n = Len(e) => f \o e = r /\ k + n = Len(w)
  BY ZenonT(30), <1>4, <1>6 DEF r
<1>13. Joined(f, n, r)
  BY ZenonT(30), <1>4, <1>9, <1>11, <1>12 DEF Joined, w, k, e
<1> QED BY ZenonT(30), <1>13 DEF r, d, e

\* Steps of PMMRBackend::sync: the hash file, then the data file.
LEMMA SyncStep ==
  ASSUME HeaderInv, WriteHashes \/ CutData \/ WriteData
  PROVE  HeaderInv'
<1> DEFINE k == ext.keep
<1>0. /\ pc \in Writes
      /\ UNCHANGED <<headers, header_head, batch, ext, torn>>
  BY DEF WriteHashes, CutData, WriteData, Writes, db
<1>1. HeadChain' = HeadChain /\ NewChain' = NewChain
  BY <1>0 DEF HeadChain, NewChain
<1>2. (Closed(headers))' /\ (Closed(batch.headers))'
  BY <1>0, WritesFacts DEF Closed, HeaderInv, HeaderTypeOK
<1>3. /\ Agree(HeadChain, NewChain, k) /\ (batch.header_head = header_head => k = Len(HeadChain))
      /\ Agree(data_file, NewChain, k)
  BY <1>0 DEF HeaderInv, WritesInv
<1>5. ASSUME NEW f \in Seq(Header), Len(f) = k
      PROVE  /\ f \o ext.new \in Seq(Header) /\ Len(f \o ext.new) = Len(NewChain)
             /\ Agree(f, NewChain, k) => f \o ext.new = NewChain
  <2> DEFINE r == f \o ext.new
             n == Len(ext.new)
             q == f \o SubSeq(ext.new, 1, n)
  <2>1. n \in 0..n
    <3>1. n \in Nat
      BY ZenonT(30), <1>0, WritesFacts
    <3> HIDE DEF n
    <3> QED BY <3>1
  <2>2. /\ r \in Seq(Header) /\ Len(r) = Len(NewChain)
        /\ \A i \in 1..k : r[i] = f[i]
        /\ \A i \in (k + 1)..Len(NewChain) : r[i] = NewChain[i]
    <3>1. /\ q \in Seq(Header) /\ Len(q) = k + n
          /\ \A i \in 1..k : q[i] = f[i]
          /\ \A i \in (k + 1)..(k + n) : q[i] = NewChain[i]
          /\ r = q /\ k + n = Len(NewChain)
      <4>1. Joined(f, n, q)
        BY ZenonT(30), <1>0, <1>5, <2>1, NewEntries
      <4> QED BY ZenonT(30), <4>1 DEF Joined
    <3> HIDE DEF k, n, q, r
    <3> QED BY ZenonT(30), <3>1
  <2>3. NewChain \in Seq(Header) /\ Len(NewChain) \in Nat /\ k \in Nat
    BY ZenonT(30), <1>0, WritesFacts
  <2> HIDE DEF k, r
  <2>4. ASSUME Agree(f, NewChain, k) PROVE r = NewChain
    <3>1. \A i \in 1..k : r[i] = NewChain[i]
      BY ZenonT(30), <2>2, <2>4 DEF Agree
    <3>2. \A i \in 1..Len(NewChain) : i \in 1..k \/ i \in (k + 1)..Len(NewChain)
      BY <2>3
    <3>3. Agree(r, NewChain, Len(NewChain))
      <4>1. Len(NewChain) <= Len(NewChain)
        BY <2>3
      <4> QED BY ZenonT(30), <2>2, <3>1, <3>2, <4>1 DEF Agree
    <3> QED BY ZenonT(30), <2>2, <2>3, <3>3, AgreeEqual
  <2> QED BY ZenonT(30), <2>2, <2>4 DEF r
<1> HIDE DEF k
<1>6. CASE WriteHashes
  <2>1. pc = "write_hashes" /\ pc' = "cut_data" /\ hash_file' = hash_file \o ext.new /\ UNCHANGED <<data_file, size>>
    BY <1>6 DEF WriteHashes
  <2>2. Len(hash_file) = k /\ (~ torn => Agree(hash_file, NewChain, k)) /\ Agree(data_file, HeadChain, Len(HeadChain))
    BY <1>0, <2>1 DEF HeaderInv, WritesInv, k
  <2>3. hash_file' \in Seq(Header) /\ Len(hash_file') = Len(NewChain) /\ (~ torn => hash_file' = NewChain)
    BY <1>0, <1>5, <2>1, <2>2, WritesFacts
  <2>4. HeaderTypeOK'
    BY <1>0, <1>2, <2>1, <2>3 DEF HeaderInv, HeaderTypeOK, Calm, Writes
  <2>5. WritesInv'
    BY <1>0, <1>1, <1>3, <2>1, <2>2, <2>3, WritesFacts DEF WritesInv, k
  <2> QED BY <2>1, <2>4, <2>5 DEF HeaderInv, CommitInv, ReadyInv, DownInv
<1>7. CASE CutData
  <2>1. pc = "cut_data" /\ pc' = "write_data" /\ data_file' = Cut(data_file, k) /\ UNCHANGED <<hash_file, size>>
    BY <1>7 DEF CutData, k
  <2>2. Len(hash_file) = Len(NewChain) /\ (~ torn => hash_file = NewChain)
    BY <1>0, <2>1 DEF HeaderInv, WritesInv
  <2>3. k \in Nat \ {0} /\ k <= Len(data_file)
    BY <1>0, <1>3, WritesFacts DEF Agree, k
  <2>4. data_file' \in Chains
    BY <1>0, <2>1, <2>3, WritesFacts, CutChain DEF HeaderInv, HeaderTypeOK
  <2>5. Len(data_file') = k /\ \A i \in 1..k : data_file'[i] = data_file[i]
    <3>1. data_file \in Seq(Header) /\ k \in Nat
      BY ZenonT(30), <1>0, <2>3, WritesFacts
    <3> QED BY ZenonT(30), <2>1, <2>3, <3>1, CutFacts
  <2>6. Agree(data_file', NewChain, k)
    BY <1>3, <2>3, <2>5 DEF Agree
  <2>7. HeaderTypeOK'
    BY <1>0, <1>2, <2>1, <2>4 DEF HeaderInv, HeaderTypeOK, Calm, Writes
  <2>8. WritesInv'
    BY <1>0, <1>1, <1>3, <2>1, <2>2, <2>5, <2>6, WritesFacts DEF WritesInv, k
  <2> QED BY <2>1, <2>7, <2>8 DEF HeaderInv, CommitInv, ReadyInv, DownInv
<1>8. CASE WriteData
  <2>1. /\ pc = "write_data" /\ pc' = "commit" /\ data_file' = data_file \o ext.new
        /\ size' = Len(hash_file) /\ UNCHANGED hash_file
    BY <1>8 DEF WriteData
  <2>2. Len(hash_file) = Len(NewChain) /\ (~ torn => hash_file = NewChain) /\ Len(data_file) = k
    BY <1>0, <2>1 DEF HeaderInv, WritesInv, k
  <2>3. data_file' = NewChain
    BY <1>0, <1>3, <1>5, <2>1, <2>2, WritesFacts
  <2>4. HeaderTypeOK'
    BY <1>0, <1>2, <2>1, <2>3, WritesFacts DEF HeaderInv, HeaderTypeOK, Calm, Writes
  <2>5. k >= Len(HeadChain) => Agree(NewChain, HeadChain, Len(HeadChain))
    BY <1>0, <1>3, WritesFacts DEF Agree, k
  <2>6. CommitInv'
    BY <1>0, <1>1, <2>1, <2>2, <2>3, <2>5 DEF CommitInv, k
  <2> QED BY <2>1, <2>4, <2>6 DEF HeaderInv, WritesInv, ReadyInv, DownInv, Writes
<1> QED BY <1>6, <1>7, <1>8

\* A crash, at any point of a call: what was written of an extension that kept the
\* present head leaves the head where it was in both files.
LEMMA CrashStep ==
  ASSUME HeaderInv, Crash
  PROVE  HeaderInv'
<1>1. /\ pc' = "down" /\ ext' = NoExt /\ UNCHANGED <<headers, header_head>> /\ torn' = (torn \/ Reorganising)
      /\ pc \notin {"down", "failed"}
  BY DEF Crash, db
<1>2. HeadChain' = HeadChain /\ (Closed(headers))' /\ torn' \in BOOLEAN
  BY <1>1 DEF HeadChain, Closed, HeaderInv, HeaderTypeOK, Reorganising
<1>3. header_head \in Header /\ HeadChain \in Seq(Header) /\ Len(HeadChain) \in Nat \ {0}
  BY ChainFacts DEF HeaderInv, HeaderTypeOK, HeadChain
<1> DEFINE Both == /\ hash_file' \in Seq(Header) /\ data_file' \in Chains
                   /\ ~ torn' => Agree(hash_file', HeadChain, Len(HeadChain)) /\ Agree(data_file', HeadChain, Len(HeadChain))
<1>4. SUFFICES Both
  <2>1. HeaderTypeOK'
    BY <1>1, <1>2, <1>4 DEF HeaderInv, HeaderTypeOK, Calm
  <2> QED BY <1>1, <1>2, <1>4, <2>1 DEF HeaderInv, WritesInv, CommitInv, ReadyInv, DownInv, Writes
<1>5. hash_file \in Seq(Header) /\ data_file \in Chains /\ torn \in BOOLEAN
  BY DEF HeaderInv, HeaderTypeOK
<1>6. CASE pc = "ready"
  <2>1. UNCHANGED files /\ data_file = HeadChain /\ (~ torn => hash_file = HeadChain)
    BY <1>6 DEF Crash, HeaderInv, ReadyInv
  <2> QED BY <1>1, <1>3, <1>5, <2>1 DEF files, Agree
<1>7. CASE pc = "start"
  <2>1. UNCHANGED files
    BY <1>7 DEF Crash
  <2> QED BY <1>1, <1>5, <1>7, <2>1 DEF files, HeaderInv, DownInv
<1>8. CASE pc = "commit"
  <2>1. /\ UNCHANGED files /\ data_file = NewChain /\ (~ torn => hash_file = NewChain)
        /\ ext.keep \in Nat \ {0}
    BY <1>8 DEF Crash, HeaderInv, CommitInv, HeaderTypeOK, Calm
  <2>2. ASSUME ~ torn' PROVE Agree(NewChain, HeadChain, Len(HeadChain))
    <3>1. batch.header_head = header_head \/ ext.keep > height(header_head)
      <4>1. ext # NoExt
        BY <2>1 DEF NoExt
      <4>2. batch.header_head = header_head \/ ~ (ext.keep <= height(header_head))
        BY ZenonT(30), <1>1, <2>2, <4>1 DEF Reorganising
      <4> QED BY <1>3, <2>1, <4>2 DEF height, HeadChain
    <3>2. CASE batch.header_head = header_head
      BY <1>3, <3>2 DEF NewChain, HeadChain, Agree
    <3>3. CASE batch.header_head # header_head
      BY <1>3, <1>8, <2>1, <3>1, <3>3 DEF HeaderInv, CommitInv, height, HeadChain
    <3> QED BY <3>2, <3>3
  <2> QED BY <1>1, <1>5, <2>1, <2>2 DEF files
<1>9. CASE pc \in Writes
  <2> DEFINE k == ext.keep
  <2>1. ASSUME ~ torn' PROVE ~ torn /\ k = Len(HeadChain) /\ Agree(NewChain, HeadChain, Len(HeadChain))
    <3>1. ~ torn /\ (batch.header_head = header_head \/ k > height(header_head))
      <4>1. k \in Nat \ {0}
        BY ZenonT(30), <1>9, WritesFacts
      <4>2. ext # NoExt
        BY <4>1 DEF NoExt
      <4>3. ~ torn /\ (batch.header_head = header_head \/ ~ (k <= height(header_head)))
        BY ZenonT(30), <1>1, <2>1, <4>2 DEF Reorganising
      <4> QED BY <1>3, <4>1, <4>3 DEF height, HeadChain
    <3>2. Agree(HeadChain, NewChain, k) /\ (batch.header_head = header_head => k = Len(HeadChain))
      BY <1>9 DEF HeaderInv, WritesInv
    <3>3. k = Len(HeadChain)
      BY <1>3, <1>9, <3>1, <3>2, WritesFacts DEF Agree, height, HeadChain
    <3> QED BY <3>1, <3>2, <3>3 DEF Agree
  <2>2. Agree(data_file, NewChain, k)
    BY <1>9 DEF HeaderInv, WritesInv
  <2>3. CASE UNCHANGED files
    <3>1. ASSUME ~ torn' PROVE Agree(hash_file, HeadChain, Len(HeadChain))
      BY <1>3, <1>9, <2>1, <3>1, WritesFacts DEF HeaderInv, WritesInv, Agree
    <3>2. ASSUME ~ torn' PROVE Agree(data_file, HeadChain, Len(HeadChain))
      BY <1>3, <2>1, <2>2, <3>2 DEF Agree
    <3> QED BY <1>5, <2>3, <3>1, <3>2 DEF files
  <2>4. ASSUME NEW n \in 1..Len(ext.new), NEW f \in Seq(Header), Len(f) = k
        PROVE  Joined(f, n, f \o SubSeq(ext.new, 1, n))
    <3>1. n \in 0..Len(ext.new)
      <4>1. Len(ext.new) \in Nat
        BY ZenonT(30), <1>9, WritesFacts
      <4> QED BY <4>1
    <3> QED BY ZenonT(30), <1>9, <2>4, <3>1, NewEntries
  <2>5. CASE /\ pc = "write_hashes" /\ UNCHANGED data_file
             /\ \E n \in 1..Len(ext.new) : hash_file' = hash_file \o SubSeq(ext.new, 1, n)
    <3>1. PICK n \in 1..Len(ext.new) : hash_file' = hash_file \o SubSeq(ext.new, 1, n)
      BY ZenonT(30), <2>5
    <3>2. Len(hash_file) = k /\ (~ torn => Agree(hash_file, NewChain, k))
      BY <1>9, <2>5 DEF HeaderInv, WritesInv
    <3>3. /\ hash_file' \in Seq(Header) /\ Len(hash_file') = k + n /\ n \in Nat
          /\ \A i \in 1..k : hash_file'[i] = hash_file[i]
      <4>1. Joined(hash_file, n, hash_file')
        BY ZenonT(30), <1>5, <2>4, <3>1, <3>2
      <4> QED BY ZenonT(30), <4>1 DEF Joined
    <3>4. ASSUME ~ torn' PROVE Agree(hash_file', HeadChain, Len(HeadChain))
      BY <1>3, <2>1, <3>2, <3>3, <3>4 DEF Agree
    <3>5. ASSUME ~ torn' PROVE Agree(data_file, HeadChain, Len(HeadChain))
      BY <1>3, <2>1, <2>2, <3>5 DEF Agree
    <3> QED BY <1>5, <2>5, <3>3, <3>4, <3>5
  <2>6. CASE /\ pc = "write_data" /\ UNCHANGED hash_file
             /\ \E n \in 1..Len(ext.new) : data_file' = data_file \o SubSeq(ext.new, 1, n)
    <3>1. PICK n \in 1..Len(ext.new) : data_file' = data_file \o SubSeq(ext.new, 1, n)
      BY ZenonT(30), <2>6
    <3>2. /\ Len(data_file) = k /\ (~ torn => hash_file = NewChain) /\ data_file \in Seq(Header)
          /\ k \in Nat \ {0} /\ NewChain \in Chains /\ NewChain \in Seq(Header) /\ Len(NewChain) \in Nat
      BY <1>9, <2>6, WritesFacts DEF HeaderInv, WritesInv
    <3>3. /\ data_file' \in Seq(Header) /\ Len(data_file') = k + n /\ n \in Nat /\ k + n \in 1..Len(NewChain)
          /\ \A i \in 1..k : data_file'[i] = data_file[i]
          /\ \A i \in (k + 1)..(k + n) : data_file'[i] = NewChain[i]
      <4>1. Joined(data_file, n, data_file')
        BY ZenonT(30), <2>4, <3>1, <3>2
      <4> QED BY ZenonT(30), <4>1 DEF Joined
    <3>4. data_file' \in Chains
      <4>1. /\ Cut(NewChain, k + n) \in Seq(Header) /\ Len(Cut(NewChain, k + n)) = k + n
            /\ \A i \in 1..(k + n) : Cut(NewChain, k + n)[i] = NewChain[i]
        <5>1. k + n \in Nat /\ k + n <= Len(NewChain)
          BY <3>2, <3>3
        <5> QED BY ZenonT(30), <3>2, <5>1, CutFacts
      <4>2. Agree(data_file', Cut(NewChain, k + n), k + n)
        BY <2>2, <3>2, <3>3, <4>1 DEF Agree
      <4>3. data_file' = Cut(NewChain, k + n)
        BY <3>3, <4>1, <4>2, AgreeEqual
      <4> QED BY <3>2, <3>3, <4>3, CutChain
    <3>5. ASSUME ~ torn' PROVE Agree(hash_file, HeadChain, Len(HeadChain))
      BY <2>1, <3>2, <3>5
    <3>6. ASSUME ~ torn' PROVE Agree(data_file', HeadChain, Len(HeadChain))
      BY <1>3, <2>1, <2>2, <3>2, <3>3, <3>6 DEF Agree
    <3> QED BY <1>5, <2>6, <3>4, <3>5, <3>6
  <2> QED BY ZenonT(30), <2>3, <2>5, <2>6 DEF Crash
<1> QED BY <1>1, <1>6, <1>7, <1>8, <1>9 DEF HeaderInv, HeaderTypeOK, Calm

\* Every step of the header MMR, calls, crashes and restarts, keeps the invariant.
LEMMA HeaderStep ==
  ASSUME HeaderInv, [HeaderNext]_headerVars
  PROVE  HeaderInv'
<1>0. headers \in SUBSET Header /\ header_head \in headers /\ Closed(headers) /\ header_head \in Header
  BY DEF HeaderInv, HeaderTypeOK
<1>1. ASSUME NEW first \in Header, NEW last \in Header, process_block_headers(first, last)
      PROVE  HeaderInv'
  <2> DEFINE back == ~ has_more_work(last, header_head)
             hs == headers \union Chunk(first, last)
             t == IF has_more_work(last, header_head) THEN last ELSE header_head
  <2>1. pc = "ready" /\ header_extending(last, back, [headers |-> hs, header_head |-> t])
    BY <1>1 DEF process_block_headers
  <2>2. hs \in SUBSET Header /\ last \in hs /\ Closed(hs)
    BY <1>0, <1>1, ChunkClosed DEF process_block_headers
  <2>3. t \in hs /\ t = (IF back THEN header_head ELSE last) /\ back \in BOOLEAN
    BY <1>0, <2>2
  <2> HIDE DEF back, hs, t
  <2> QED BY <2>1, <2>2, <2>3, ExtendingStep
<1>2. ASSUME NEW h \in Header, process_block_header(h)
      PROVE  HeaderInv'
  <2> DEFINE back == ~ has_more_work(h, header_head)
             hs == headers \union {h}
             t == IF has_more_work(h, header_head) THEN h ELSE header_head
  <2>1. /\ pc = "ready" /\ header_extending(h, back, [headers |-> hs, header_head |-> t])
        /\ h # Genesis /\ Parent(h) \in headers
    BY <1>2 DEF process_block_header
  <2>2. Len(ChainOf[h]) \in Nat \ {0} /\ ChainOf[h][Len(ChainOf[h])] = h
    BY ChainFacts
  <2>3. Chunk(h, h) = {h} /\ height(h) <= height(h) /\ ChainOf[h][height(h) + 1] = h
    BY <2>2 DEF Chunk, height
  <2>4. hs \in SUBSET Header /\ h \in hs /\ Closed(hs)
    BY <1>0, <2>1, <2>3, ChunkClosed
  <2>5. t \in hs /\ t = (IF back THEN header_head ELSE h) /\ back \in BOOLEAN
    BY <1>0, <2>4
  <2> HIDE DEF back, hs, t
  <2> QED BY <2>1, <2>4, <2>5, ExtendingStep
<1>3. ASSUME NEW h \in Resets, reset_chain_head(h)
      PROVE  HeaderInv'
  <2>1. pc = "ready" /\ h \in headers /\ header_extending(h, FALSE, [headers |-> headers, header_head |-> h])
    BY ZenonT(30), <1>3 DEF reset_chain_head
  <2>2. h \in Header /\ FALSE \in BOOLEAN /\ h = IF FALSE THEN header_head ELSE h
    BY <1>0, <2>1
  <2> QED BY ZenonT(30), <1>0, <2>1, <2>2, ExtendingStep
<1>4. CASE WriteHashes \/ CutData \/ WriteData
  BY <1>4, SyncStep
<1>5. CASE commit
  <2>1. /\ pc = "commit" /\ pc' = "ready" /\ headers' = batch.headers /\ header_head' = batch.header_head
        /\ ext' = NoExt /\ UNCHANGED <<hash_file, data_file, size, torn>>
    BY <1>5 DEF commit, files
  <2>2. HeadChain' = NewChain
    BY <2>1 DEF HeadChain, NewChain
  <2>3. HeaderTypeOK'
    BY <2>1 DEF HeaderInv, HeaderTypeOK, Calm, Closed
  <2>4. ReadyInv'
    BY <2>1, <2>2 DEF HeaderInv, CommitInv, ReadyInv
  <2> QED BY <2>1, <2>3, <2>4 DEF HeaderInv, WritesInv, CommitInv, DownInv, Writes
<1>6. CASE Crash
  BY <1>6, CrashStep
<1>7. CASE new
  <2>1. /\ pc = "down" /\ pc' = "start" /\ size' = Len(hash_file)
        /\ UNCHANGED <<headers, header_head, hash_file, data_file, batch, ext, torn>>
    BY <1>7 DEF new, db, files
  <2>2. HeaderTypeOK'
    BY <2>1 DEF HeaderInv, HeaderTypeOK, Calm, Closed
  <2>3. DownInv'
    BY <2>1 DEF HeaderInv, DownInv, HeadChain, Agree
  <2> QED BY <2>1, <2>2, <2>3 DEF HeaderInv, WritesInv, CommitInv, ReadyInv, Writes
<1>8. CASE init_head
  <2> DEFINE n == Len(HeadChain)
  <2>1. /\ pc = "start" /\ HeadFits /\ pc' = "write_hashes"
        /\ UNCHANGED <<headers, header_head, data_file, torn>>
        /\ batch' = [headers |-> headers, header_head |-> header_head]
    BY <1>8 DEF init_head, db
  <2>2. /\ HeadChain \in Seq(Header) /\ n \in Nat \ {0} /\ HeadChain[n] = header_head
        /\ height(header_head) + 1 = n
    BY <1>0, ChainFacts DEF HeadChain, height
  <2>3. hash_file' = Cut(hash_file, n) /\ ext' = [keep |-> n, new |-> <<>>]
    BY <1>8, <2>2 DEF init_head
  <2>4. /\ n <= Len(hash_file) /\ n <= Len(data_file) /\ data_file[n] = header_head
        /\ hash_file \in Seq(Header) /\ data_file \in Chains
        /\ ~ torn => Agree(hash_file, HeadChain, n)
    BY <2>1, <2>2 DEF HeadFits, HeaderInv, HeaderTypeOK, DownInv
  <2>5. Agree(data_file, HeadChain, n)
    <3>1. PICK y \in Header : data_file = ChainOf[y]
      BY <2>4 DEF Chains
    <3>2. n \in 1..Len(ChainOf[y])
      BY <2>2, <2>4, <3>1, ChainFacts
    <3> QED BY <1>0, <2>2, <2>4, <3>1, <3>2, ChainsAgree DEF HeadChain
  <2>6. /\ hash_file' \in Seq(Header) /\ Len(hash_file') = n
        /\ \A i \in 1..n : hash_file'[i] = hash_file[i]
    <3>1. n \in Nat
      BY <2>2
    <3> HIDE DEF n
    <3> QED BY ZenonT(30), <2>3, <2>4, <3>1, CutFacts
  <2>7. HeadChain' = HeadChain /\ NewChain' = HeadChain
    BY <2>1 DEF HeadChain, NewChain
  <2>8. /\ SubSeq(HeadChain, n + 1, n) = <<>>
        /\ Agree(HeadChain, HeadChain, n) /\ (~ torn => Agree(hash_file', HeadChain, n))
    BY <2>2, <2>4, <2>6 DEF Agree
  <2>9. (Closed(headers))' /\ (Closed(batch.headers))'
    BY <1>0, <2>1 DEF Closed
  <2>10. HeaderTypeOK'
    BY <1>0, <2>1, <2>2, <2>3, <2>4, <2>6, <2>9 DEF HeaderInv, HeaderTypeOK, Calm, Writes
  <2>11. WritesInv'
    BY <2>1, <2>2, <2>3, <2>5, <2>6, <2>7, <2>8 DEF WritesInv
  <2> QED BY <2>1, <2>10, <2>11 DEF HeaderInv, CommitInv, ReadyInv, DownInv
<1>9. CASE InitHeadFails
  <2>1. /\ pc = "start" /\ ~ HeadFits /\ pc' = "failed"
        /\ UNCHANGED <<headers, header_head, hash_file, data_file, size, batch, ext, torn>>
    BY <1>9 DEF InitHeadFails, db, files
  <2>2. torn
    <3>1. /\ Len(HeadChain) \in Nat \ {0} /\ HeadChain[Len(HeadChain)] = header_head
          /\ height(header_head) + 1 = Len(HeadChain)
      BY <1>0, ChainFacts DEF HeadChain, height
    <3> QED BY <2>1, <3>1 DEF HeadFits, HeaderInv, DownInv, Agree, HeaderTypeOK
  <2>3. HeaderTypeOK'
    BY <2>1 DEF HeaderInv, HeaderTypeOK, Calm, Closed
  <2> QED BY <2>1, <2>2, <2>3 DEF HeaderInv, WritesInv, CommitInv, ReadyInv, DownInv, Writes
<1>10. CASE UNCHANGED headerVars
  BY <1>10 DEF headerVars, HeaderInv, HeaderTypeOK, WritesInv, CommitInv, ReadyInv, DownInv,
               HeadChain, NewChain, Closed, Agree
<1> QED BY <1>1, <1>2, <1>3, <1>4, <1>5, <1>6, <1>7, <1>8, <1>9, <1>10 DEF HeaderNext

\* header_extending, PMMRBackend::sync and init_head (chain/src/txhashset/txhashset.rs,
\* store/src/pmmr.rs): after a crash at any point of a write, and any number of them,
\* the header MMR is the chain of header_head again and the node starts, unless the
\* crash interrupted a reorganisation, after which the hash file may keep the old branch.
THEOREM HeaderFilesCorrect == HeaderSpec => []HeaderFilesRecover
<1>1. HeaderInit => HeaderInv
  <2> SUFFICES ASSUME HeaderInit PROVE HeaderInv
    OBVIOUS
  <2>1. ChainOf[Genesis] = <<Genesis>> /\ Genesis \in Header
    <3>1. Genesis \in Header
      BY HeaderAssumption
    <3>2. ChainOf[Genesis] \in Seq(Header) /\ Len(ChainOf[Genesis]) \in Nat \ {0} /\ ChainOf[Genesis][1] = Genesis
      BY <3>1, ChainFacts
    <3>3. 1 \in 1..Len(ChainOf[Genesis])
      BY <3>2
    <3>4. Len(ChainOf[Genesis]) = 1
      <4>0. \A i \in 1..Len(ChainOf[Genesis]) : Len(ChainOf[ChainOf[Genesis][i]]) = i
        BY ZenonT(30), <3>1, ChainFacts
      <4>1. Len(ChainOf[ChainOf[Genesis][1]]) = 1
        BY ZenonT(30), <3>3, <4>0
      <4> QED BY ZenonT(30), <3>2, <4>1
    <3>5. Agree(ChainOf[Genesis], <<Genesis>>, 1) /\ Len(<<Genesis>>) = 1 /\ <<Genesis>> \in Seq(Header)
      BY <3>1, <3>2, <3>4 DEF Agree
    <3> QED BY ZenonT(30), <3>1, <3>2, <3>4, <3>5, AgreeEqual
  <2>2. HeaderTypeOK
    <3>1. data_file \in Chains
      BY ZenonT(30), <2>1 DEF HeaderInit, Chains
    <3>2. hash_file \in Seq(Header)
      BY <2>1 DEF HeaderInit
    <3>3. Closed({Genesis})
      <4>1. \A i \in 1..Len(<<Genesis>>) : <<Genesis>>[i] = Genesis
        OBVIOUS
      <4> QED BY <2>1, <4>1 DEF Closed
    <3> QED BY ZenonT(30), <2>1, <3>1, <3>2, <3>3 DEF HeaderInit, HeaderTypeOK, Calm
  <2>3. ReadyInv
    BY <2>1 DEF HeaderInit, ReadyInv, HeadChain
  <2> QED BY <2>2, <2>3 DEF HeaderInit, HeaderInv, WritesInv, CommitInv, DownInv, Writes
<1>2. HeaderInv /\ [HeaderNext]_headerVars => HeaderInv'
  BY HeaderStep
<1>3. HeaderInv => HeaderFilesRecover
  <2> SUFFICES ASSUME HeaderInv PROVE HeaderFilesRecover
    OBVIOUS
  <2>1. DataIsHeaderChain /\ HashesAreHeaderChain /\ HeaderStartSucceeds
    BY DEF HeaderInv, ReadyInv, DownInv, HeadChain, DataIsHeaderChain, HashesAreHeaderChain, HeaderStartSucceeds
  <2>2. MmrHeadersStored
    BY DEF HeaderInv, HeaderTypeOK, ReadyInv, HeadChain, MmrHeadersStored, Closed
  <2> QED BY <2>1, <2>2 DEF HeaderFilesRecover
<1> QED BY <1>1, <1>2, <1>3, PTL DEF HeaderSpec

=============================================================================
