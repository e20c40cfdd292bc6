---------------------------- MODULE BufferProofs -----------------------------
(***************************************************************************)
(* Proofs about Buffer, for buffers of every size and bytes of every kind: *)
(* the indexes stay in order, and the buffer is a queue of bytes.          *)
(*                                                                         *)
(* Each operation on a buffer has a lemma saying that it keeps a buffer a  *)
(* buffer and what it does to the readable bytes.                          *)
(***************************************************************************)
EXTENDS Buffer, SequenceTheorems, TLAPS

(* A function on 1..n is a sequence of length n. *)
LEMMA FunctionIsSeq ==
  ASSUME NEW S, NEW n \in Nat, NEW f \in [1..n -> S]
  PROVE  f \in Seq(S) /\ Len(f) = n
  BY SMT

(* A sequence that starts with s and goes on with t is their               *)
(* concatenation.                                                          *)
LEMMA IsConcat ==
  ASSUME NEW S, NEW s \in Seq(S), NEW t \in Seq(S), NEW u \in Seq(S),
         Len(u) = Len(s) + Len(t),
         \A i \in 1..Len(s) : u[i] = s[i],
         \A i \in 1..Len(t) : u[Len(s) + i] = t[i]
  PROVE  u = s \o t
  <1>1. Len(s) \in Nat /\ Len(t) \in Nat
    BY LenProperties
  <1>2. s \o t \in Seq(S) /\ Len(s \o t) = Len(u)
    BY ConcatProperties
  <1>3. ASSUME NEW i \in 1..Len(u) PROVE u[i] = (s \o t)[i]
    <2>1. (s \o t)[i] = IF i <= Len(s) THEN s[i] ELSE t[i - Len(s)]
      BY ConcatProperties
    <2>2. CASE i <= Len(s)
      BY <1>1, <2>1, <2>2, SMT
    <2>3. CASE ~(i <= Len(s))
      <3>1. i - Len(s) \in 1..Len(t) /\ Len(s) + (i - Len(s)) = i
        BY <1>1, <2>3, SMT
      <3>2. u[Len(s) + (i - Len(s))] = t[i - Len(s)]
        BY <3>1
      <3> QED
        BY <2>1, <2>3, <3>1, <3>2
    <2> QED
      BY <2>2, <2>3
  <1> QED
    BY <1>2, <1>3, SeqEqual

(* std::copy inside a vector changes neither its size nor its type. *)
LEMMA OverwriteSeq ==
  ASSUME NEW data \in Seq(Byte), NEW at \in Nat, NEW bytes \in Seq(Byte)
  PROVE  /\ Overwrite(data, at, bytes) \in Seq(Byte)
         /\ Len(Overwrite(data, at, bytes)) = Len(data)
         /\ \A i \in 1..Len(bytes) : at + i <= Len(data) => Overwrite(data, at, bytes)[at + i] = bytes[i]
         /\ \A i \in 1..Len(data) : i <= at => Overwrite(data, at, bytes)[i] = data[i]
  <1>1. Len(data) \in Nat
    BY SMT
  <1>2. Overwrite(data, at, bytes) \in [1..Len(data) -> Byte]
    BY SMT DEF Overwrite
  <1>3. ASSUME NEW i \in 1..Len(bytes), at + i <= Len(data)
        PROVE  Overwrite(data, at, bytes)[at + i] = bytes[i]
    <2>1. /\ at + i \in 1..Len(data)
          /\ at + i > at /\ at + i <= at + Len(bytes)
          /\ at + i - at = i
      BY <1>1, <1>3, SMT
    <2> QED
      BY <2>1 DEF Overwrite
  <1>4. ASSUME NEW i \in 1..Len(data), i <= at
        PROVE  Overwrite(data, at, bytes)[i] = data[i]
    <2>1. ~(i > at)
      BY <1>1, <1>4, SMT
    <2> QED
      BY <2>1 DEF Overwrite
  <1> QED
    BY <1>1, <1>2, <1>3, <1>4, FunctionIsSeq

(* resize() to a larger size keeps what is there. *)
LEMMA ResizeSeq ==
  ASSUME NEW data \in Seq(Byte), NEW n \in Nat, Len(data) <= n
  PROVE  /\ resize(data, n) \in Seq(Byte)
         /\ Len(resize(data, n)) = n
         /\ \A i \in 1..Len(data) : resize(data, n)[i] = data[i]
  <1>1. resize(data, n) \in [1..n -> Byte]
    BY SMT, BufferAssumption DEF resize
  <1>2. \A i \in 1..Len(data) : resize(data, n)[i] = data[i]
    BY SMT DEF resize
  <1> QED
    BY <1>1, <1>2, FunctionIsSeq

(* The readable bytes are a sequence of readableBytes() bytes. *)
LEMMA ContentsSeq ==
  ASSUME NEW k, IsBuffer(k)
  PROVE  /\ readableBytes(k) \in Nat
         /\ Contents(k) \in Seq(Byte)
         /\ Len(Contents(k)) = readableBytes(k)
         /\ \A i \in 1..readableBytes(k) : Contents(k)[i] = k.data[k.readerIndex_ + i]
  <1>1. readableBytes(k) \in Nat
    BY SMT DEF IsBuffer, readableBytes
  <1>2. \A i \in 1..readableBytes(k) : k.readerIndex_ + i \in 1..Len(k.data)
    BY SMT DEF IsBuffer, readableBytes
  <1>3. Contents(k) \in [1..readableBytes(k) -> Byte]
    BY <1>1, <1>2, SMT DEF Contents, IsBuffer
  <1> QED
    BY <1>1, <1>3, FunctionIsSeq, SMT DEF Contents

(* Filling the room behind the write index appends the bytes. *)
LEMMA FillAppends ==
  ASSUME NEW k, IsBuffer(k), NEW bytes \in Seq(Byte), Len(bytes) <= wirteableBytes(k)
  PROVE  /\ IsBuffer(Fill(k, bytes))
         /\ Contents(Fill(k, bytes)) = Contents(k) \o bytes
         /\ Len(Fill(k, bytes).data) = Len(k.data)
         /\ readableBytes(Fill(k, bytes)) = readableBytes(k) + Len(bytes)
         /\ Fill(k, bytes).writerIndex_ = k.writerIndex_ + Len(bytes)
         /\ Fill(k, bytes).readerIndex_ = k.readerIndex_
  <1> DEFINE f == Fill(k, bytes)
             d == Overwrite(k.data, k.writerIndex_, bytes)
  <1>1. /\ k.data \in Seq(Byte) /\ k.writerIndex_ \in Nat /\ k.readerIndex_ \in Nat
        /\ Len(bytes) \in Nat /\ Len(k.data) \in Nat
        /\ k.writerIndex_ + Len(bytes) <= Len(k.data)
    BY SMT DEF IsBuffer, wirteableBytes
  <1>2. d \in Seq(Byte) /\ Len(d) = Len(k.data)
    BY <1>1, OverwriteSeq
  <1>3. /\ f \in [data : Seq(Byte), readerIndex_ : Nat, writerIndex_ : Nat]
        /\ f.data = d
        /\ f.readerIndex_ = k.readerIndex_
        /\ f.writerIndex_ = k.writerIndex_ + Len(bytes)
    <2>1. f = [data |-> d, readerIndex_ |-> k.readerIndex_, writerIndex_ |-> k.writerIndex_ + Len(bytes)]
      BY DEF Fill
    <2> HIDE DEF d, f
    <2> QED
      BY <1>1, <1>2, <2>1, SMT
  <1>4. IsBuffer(f)
    <2> HIDE DEF f, d
    <2> QED
      BY <1>1, <1>2, <1>3, SMT DEF IsBuffer, wirteableBytes
  <1>5. readableBytes(f) = readableBytes(k) + Len(bytes)
    BY <1>1, <1>3, SMT DEF readableBytes
  <1>6. Contents(f) = Contents(k) \o bytes
    <2>1. /\ Contents(k) \in Seq(Byte) /\ Len(Contents(k)) = readableBytes(k)
          /\ readableBytes(k) \in Nat
          /\ \A i \in 1..readableBytes(k) : Contents(k)[i] = k.data[k.readerIndex_ + i]
      BY ContentsSeq
    <2>2. /\ Contents(f) \in Seq(Byte) /\ Len(Contents(f)) = readableBytes(k) + Len(bytes)
          /\ \A i \in 1..readableBytes(f) : Contents(f)[i] = f.data[f.readerIndex_ + i]
      BY <1>4, <1>5, ContentsSeq
    <2>3. /\ \A i \in 1..Len(bytes) : k.writerIndex_ + i <= Len(k.data) => d[k.writerIndex_ + i] = bytes[i]
          /\ \A i \in 1..Len(k.data) : i <= k.writerIndex_ => d[i] = k.data[i]
      BY <1>1, OverwriteSeq
    <2> HIDE DEF d, f
    <2>4. ASSUME NEW i \in 1..readableBytes(k) PROVE Contents(f)[i] = Contents(k)[i]
      <3>1. /\ k.readerIndex_ + i \in 1..Len(k.data)
            /\ k.readerIndex_ + i <= k.writerIndex_
            /\ i \in 1..readableBytes(f)
        BY <1>1, <1>5, <2>1, SMT DEF IsBuffer, readableBytes, wirteableBytes
      <3> QED
        BY <1>3, <2>1, <2>2, <2>3, <3>1
    <2>5. ASSUME NEW i \in 1..Len(bytes) PROVE Contents(f)[readableBytes(k) + i] = bytes[i]
      <3>1. /\ k.writerIndex_ + i <= Len(k.data)
            /\ k.readerIndex_ + (readableBytes(k) + i) = k.writerIndex_ + i
            /\ readableBytes(k) + i \in 1..readableBytes(f)
        <4>1. readableBytes(k) = k.writerIndex_ - k.readerIndex_
          BY DEF readableBytes
        <4>2. readableBytes(k) \in Nat /\ i \in Nat /\ 1 <= i /\ i <= Len(bytes)
          BY <1>1, <2>1, SMT
        <4>3. /\ k.writerIndex_ + i <= Len(k.data)
              /\ k.readerIndex_ + (readableBytes(k) + i) = k.writerIndex_ + i
          BY <1>1, <4>1, <4>2, SMTT(30)
        <4>4. readableBytes(k) + i \in 1..(readableBytes(k) + Len(bytes))
          BY <1>1, <4>2, SMT
        <4> QED
          BY <1>5, <4>3, <4>4
      <3>2. d[k.writerIndex_ + i] = bytes[i]
        BY <2>3, <3>1
      <3>3. Contents(f)[readableBytes(k) + i] = f.data[f.readerIndex_ + (readableBytes(k) + i)]
        BY <2>2, <3>1
      <3> QED
        BY <1>3, <3>1, <3>2, <3>3
    <2>6. /\ Len(Contents(f)) = Len(Contents(k)) + Len(bytes)
          /\ \A i \in 1..Len(Contents(k)) : Contents(f)[i] = Contents(k)[i]
          /\ \A i \in 1..Len(bytes) : Contents(f)[Len(Contents(k)) + i] = bytes[i]
      BY <2>1, <2>2, <2>4, <2>5
    <2> QED
      BY <2>1, <2>2, <2>6, IsConcat
  <1> QED
    BY <1>2, <1>3, <1>4, <1>5, <1>6

(* Bytes moved to the front are the same bytes. *)
LEMMA MoveKeepsContents ==
  ASSUME NEW k, IsBuffer(k)
  PROVE  /\ IsBuffer(MovedToFront(k))
         /\ Contents(MovedToFront(k)) = Contents(k)
         /\ Len(MovedToFront(k).data) = Len(k.data)
         /\ MovedToFront(k).writerIndex_ = kCheapPrepend + readableBytes(k)
         /\ readableBytes(MovedToFront(k)) = readableBytes(k)
  <1> DEFINE m == MovedToFront(k)
             d == Overwrite(k.data, kCheapPrepend, Contents(k))
  <1>1. /\ k.data \in Seq(Byte) /\ k.writerIndex_ \in Nat /\ k.readerIndex_ \in Nat
        /\ kCheapPrepend \in Nat /\ Len(k.data) \in Nat
        /\ kCheapPrepend <= k.readerIndex_ /\ k.writerIndex_ <= Len(k.data)
    BY BufferAssumption, SMT DEF IsBuffer
  <1>2. /\ Contents(k) \in Seq(Byte) /\ Len(Contents(k)) = readableBytes(k)
        /\ readableBytes(k) \in Nat
    BY ContentsSeq
  <1>3. /\ d \in Seq(Byte) /\ Len(d) = Len(k.data)
        /\ \A i \in 1..Len(Contents(k)) :
             kCheapPrepend + i <= Len(k.data) => d[kCheapPrepend + i] = Contents(k)[i]
    BY <1>1, <1>2, OverwriteSeq
  <1>4. m = [data |-> d, readerIndex_ |-> kCheapPrepend, writerIndex_ |-> kCheapPrepend + readableBytes(k)]
    BY DEF MovedToFront
  <1>5. readableBytes(k) = k.writerIndex_ - k.readerIndex_
    BY DEF readableBytes
  <1> HIDE DEF d, m
  <1>6. /\ IsBuffer(m)
        /\ m.data = d /\ m.readerIndex_ = kCheapPrepend
        /\ m.writerIndex_ = kCheapPrepend + readableBytes(k)
    BY <1>1, <1>2, <1>3, <1>4, <1>5, SMT DEF IsBuffer
  <1>7. readableBytes(m) = readableBytes(k)
    <2>1. readableBytes(m) = m.writerIndex_ - m.readerIndex_
      BY DEF readableBytes
    <2> QED
      BY <1>1, <1>2, <1>6, <2>1, SMT
  <1>8. /\ Contents(m) \in Seq(Byte) /\ Len(Contents(m)) = readableBytes(k)
        /\ \A i \in 1..readableBytes(k) : Contents(m)[i] = d[kCheapPrepend + i]
    <2>1. /\ Contents(m) \in Seq(Byte) /\ Len(Contents(m)) = readableBytes(m)
          /\ \A i \in 1..readableBytes(m) : Contents(m)[i] = m.data[m.readerIndex_ + i]
      BY <1>6, ContentsSeq
    <2> QED
      BY <1>6, <1>7, <2>1
  <1>9. ASSUME NEW i \in 1..readableBytes(k) PROVE d[kCheapPrepend + i] = Contents(k)[i]
    <2>1. kCheapPrepend + i <= Len(k.data)
      BY <1>1, <1>2, <1>5, SMT
    <2> QED
      BY <1>2, <1>3, <2>1
  <1>10. Contents(m) = Contents(k)
    BY <1>2, <1>8, <1>9, SeqEqual
  <1> QED
    BY <1>3, <1>6, <1>7, <1>10 DEF m

(* Growing keeps the readable bytes, and makes room for len more. *)
LEMMA GrowKeepsContents ==
  ASSUME NEW k, IsBuffer(k), NEW len \in Nat, wirteableBytes(k) < len,
         NEW g, g = [k EXCEPT !.data = resize(@, k.writerIndex_ + len)]
  PROVE  /\ IsBuffer(g)
         /\ Contents(g) = Contents(k)
         /\ Len(g.data) = k.writerIndex_ + len
         /\ g.writerIndex_ = k.writerIndex_
         /\ readableBytes(g) = readableBytes(k)
  <1> DEFINE n == k.writerIndex_ + len
             d == resize(k.data, n)
  <1>1. /\ k.data \in Seq(Byte) /\ k.writerIndex_ \in Nat /\ k.readerIndex_ \in Nat
        /\ Len(k.data) \in Nat /\ n \in Nat /\ Len(k.data) <= n
    BY SMT DEF IsBuffer, wirteableBytes
  <1>2. d \in Seq(Byte) /\ Len(d) = n /\ \A i \in 1..Len(k.data) : d[i] = k.data[i]
    BY <1>1, ResizeSeq
  <1>3. g = [k EXCEPT !.data = d]
    OBVIOUS
  <1> HIDE DEF d
  <1>4. /\ IsBuffer(g)
        /\ g.data = d /\ g.readerIndex_ = k.readerIndex_ /\ g.writerIndex_ = k.writerIndex_
    BY <1>1, <1>2, <1>3, SMT DEF IsBuffer
  <1>5. readableBytes(g) = readableBytes(k)
    BY <1>4 DEF readableBytes
  <1>6. /\ Contents(k) \in Seq(Byte) /\ Len(Contents(k)) = readableBytes(k)
        /\ readableBytes(k) \in Nat
        /\ \A i \in 1..readableBytes(k) : Contents(k)[i] = k.data[k.readerIndex_ + i]
    BY ContentsSeq
  <1>7. /\ Contents(g) \in Seq(Byte) /\ Len(Contents(g)) = readableBytes(g)
        /\ \A i \in 1..readableBytes(g) : Contents(g)[i] = g.data[g.readerIndex_ + i]
    BY <1>4, ContentsSeq
  <1>8. \A i \in 1..readableBytes(k) : k.readerIndex_ + i \in 1..Len(k.data)
    BY <1>1, SMT DEF IsBuffer, readableBytes
  <1>9. ASSUME NEW i \in 1..readableBytes(k) PROVE Contents(g)[i] = Contents(k)[i]
    <2>1. Contents(g)[i] = d[k.readerIndex_ + i]
      BY <1>4, <1>5, <1>7
    <2>2. d[k.readerIndex_ + i] = k.data[k.readerIndex_ + i]
      BY <1>2, <1>8
    <2> QED
      BY <1>6, <2>1, <2>2
  <1>10. Contents(g) = Contents(k)
    BY <1>5, <1>6, <1>7, <1>9, SeqEqual
  <1> QED
    BY <1>2, <1>4, <1>5, <1>10

(* ensureWriteableBytes makes room for len bytes without touching the      *)
(* readable ones, and grows the vector only if they would not fit.         *)
LEMMA EnsureMakesRoom ==
  ASSUME NEW k, IsBuffer(k), NEW len \in Nat
  PROVE  LET e == ensureWriteableBytes(k, len)
         IN /\ IsBuffer(e)
            /\ Contents(e) = Contents(k)
            /\ readableBytes(e) = readableBytes(k)
            /\ len <= wirteableBytes(e)
            /\ Len(e.data) > Len(k.data) => kCheapPrepend + (readableBytes(k) + len) > Len(k.data)
  <1> DEFINE e == ensureWriteableBytes(k, len)
  <1>1. /\ k.writerIndex_ \in Nat /\ k.readerIndex_ \in Nat /\ Len(k.data) \in Nat
        /\ kCheapPrepend \in Nat
        /\ wirteableBytes(k) = Len(k.data) - k.writerIndex_
        /\ readableBytes(k) = k.writerIndex_ - k.readerIndex_
        /\ prependableBytes(k) = k.readerIndex_
    BY BufferAssumption, SMT DEF IsBuffer, wirteableBytes, readableBytes, prependableBytes
  <1>2. CASE ~(wirteableBytes(k) < len)
    <2>1. e = k
      BY <1>2 DEF ensureWriteableBytes
    <2> QED
      BY <1>1, <1>2, <2>1, SMT
  <1>3. CASE wirteableBytes(k) < len /\ MustGrow(k, len)
    <2>1. e = [k EXCEPT !.data = resize(@, k.writerIndex_ + len)]
      BY <1>3 DEF ensureWriteableBytes, makeSpace
    <2> HIDE DEF e
    <2>2. /\ IsBuffer(e) /\ Contents(e) = Contents(k) /\ Len(e.data) = k.writerIndex_ + len
          /\ e.writerIndex_ = k.writerIndex_ /\ readableBytes(e) = readableBytes(k)
      BY <1>3, <2>1, GrowKeepsContents
    <2>3. wirteableBytes(e) = Len(e.data) - e.writerIndex_
      BY DEF wirteableBytes
    <2>4. len <= wirteableBytes(e)
      BY <1>1, <2>2, <2>3, SMT
    <2>5. kCheapPrepend + (readableBytes(k) + len) > Len(k.data)
      <3>1. wirteableBytes(k) + prependableBytes(k) < len + kCheapPrepend
        BY <1>3 DEF MustGrow
      <3> QED
        BY <1>1, <3>1, SMT
    <2> QED
      BY <2>2, <2>4, <2>5 DEF e
  <1>4. CASE wirteableBytes(k) < len /\ ~MustGrow(k, len)
    <2>1. e = MovedToFront(k)
      BY <1>4 DEF ensureWriteableBytes, makeSpace
    <2> HIDE DEF e
    <2>2. /\ IsBuffer(e) /\ Contents(e) = Contents(k) /\ Len(e.data) = Len(k.data)
          /\ e.writerIndex_ = kCheapPrepend + readableBytes(k) /\ readableBytes(e) = readableBytes(k)
      BY <2>1, MoveKeepsContents
    <2>3. wirteableBytes(e) = Len(e.data) - e.writerIndex_
      BY DEF wirteableBytes
    <2>4. len <= wirteableBytes(e)
      <3>1. ~(wirteableBytes(k) + prependableBytes(k) < len + kCheapPrepend)
        BY <1>4 DEF MustGrow
      <3> QED
        BY <1>1, <2>2, <2>3, <3>1, SMT
    <2>5. ~(Len(e.data) > Len(k.data))
      BY <1>1, <2>2, SMT
    <2> QED
      BY <2>2, <2>4, <2>5 DEF e
  <1> QED
    BY <1>2, <1>3, <1>4

(* append adds its bytes at the end. *)
LEMMA AppendAppends ==
  ASSUME NEW k, IsBuffer(k), NEW bytes \in Seq(Byte)
  PROVE  LET a == append(k, bytes)
         IN /\ IsBuffer(a)
            /\ Contents(a) = Contents(k) \o bytes
            /\ readableBytes(a) = readableBytes(k) + Len(bytes)
            /\ Len(a.data) > Len(k.data) => kCheapPrepend + readableBytes(a) > Len(k.data)
  <1> DEFINE e == ensureWriteableBytes(k, Len(bytes))
  <1>1. Len(bytes) \in Nat
    BY SMT
  <1>2. /\ IsBuffer(e) /\ Contents(e) = Contents(k) /\ readableBytes(e) = readableBytes(k)
        /\ Len(bytes) <= wirteableBytes(e)
        /\ Len(e.data) > Len(k.data) => kCheapPrepend + (readableBytes(k) + Len(bytes)) > Len(k.data)
    BY <1>1, EnsureMakesRoom
  <1> HIDE DEF e
  <1>3. /\ IsBuffer(Fill(e, bytes)) /\ Contents(Fill(e, bytes)) = Contents(e) \o bytes
        /\ Len(Fill(e, bytes).data) = Len(e.data)
        /\ readableBytes(Fill(e, bytes)) = readableBytes(e) + Len(bytes)
    BY <1>2, FillAppends
  <1>4. append(k, bytes) = Fill(e, bytes)
    BY DEF append, e
  <1> QED
    BY <1>2, <1>3, <1>4

(* readFd adds what readv returned at the end, though part of it came by   *)
(* way of extrabuf.                                                        *)
LEMMA ReadAppends ==
  ASSUME NEW k, IsBuffer(k), NEW bytes \in Seq(Byte)
  PROVE  LET r == readFd(k, bytes)
         IN /\ IsBuffer(r)
            /\ Contents(r) = Contents(k) \o bytes
            /\ readableBytes(r) = readableBytes(k) + Len(bytes)
            /\ Len(r.data) > Len(k.data) => kCheapPrepend + readableBytes(r) > Len(k.data)
  <1> DEFINE w == wirteableBytes(k)
             first == SubSeq(bytes, 1, w)
             rest  == SubSeq(bytes, w + 1, Len(bytes))
             f == Fill(k, first)
  <1>1. w \in Nat /\ Len(bytes) \in Nat /\ Len(k.data) \in Nat /\ readableBytes(k) \in Nat
    BY ContentsSeq, SMT DEF IsBuffer, wirteableBytes
  <1>2. CASE Len(bytes) <= w
    <2>1. readFd(k, bytes) = Fill(k, bytes)
      BY <1>2 DEF readFd
    <2>2. /\ IsBuffer(Fill(k, bytes)) /\ Contents(Fill(k, bytes)) = Contents(k) \o bytes
          /\ Len(Fill(k, bytes).data) = Len(k.data)
          /\ readableBytes(Fill(k, bytes)) = readableBytes(k) + Len(bytes)
      BY <1>2, FillAppends
    <2>3. ~(Len(k.data) > Len(k.data))
      BY <1>1, SMT
    <2> QED
      BY <2>1, <2>2, <2>3
  <1>3. CASE ~(Len(bytes) <= w)
    <2>1. readFd(k, bytes) = append(f, rest)
      BY <1>3 DEF readFd
    <2>2. \A i \in 1..Len(bytes) : bytes[i] \in Byte
      BY ElementOfSeq
    <2>3. /\ first \in Seq(Byte) /\ Len(first) = w
          /\ \A i \in 1..w : first[i] = bytes[i]
      <3> HIDE DEF w
      <3>1. \A i \in 1..w : bytes[i] \in Byte
        BY <1>1, <1>3, <2>2, SMT
      <3> QED
        BY <1>1, <3>1, SMT
    <2>4. /\ rest \in Seq(Byte) /\ Len(rest) = Len(bytes) - w
          /\ \A i \in 1..(Len(bytes) - w) : rest[i] = bytes[w + i]
      <3> HIDE DEF w
      <3>1. \A i \in (w + 1)..Len(bytes) : bytes[i] \in Byte
        BY <1>1, <1>3, <2>2, SMT
      <3> QED
        BY <1>1, <1>3, <3>1, SMT
    <2> HIDE DEF first, rest, w
    <2>5. bytes = first \o rest
      <3>1. /\ Len(bytes) = Len(first) + Len(rest)
            /\ \A i \in 1..Len(first) : bytes[i] = first[i]
            /\ \A i \in 1..Len(rest) : bytes[Len(first) + i] = rest[i]
        BY <1>1, <2>3, <2>4, SMT
      <3> QED
        BY <2>3, <2>4, <3>1, IsConcat
    <2>6. /\ IsBuffer(f) /\ Contents(f) = Contents(k) \o first /\ Len(f.data) = Len(k.data)
          /\ readableBytes(f) = readableBytes(k) + Len(first)
      <3>1. Len(first) <= wirteableBytes(k)
        BY <1>1, <2>3, SMT DEF w
      <3> QED
        BY <2>3, <3>1, FillAppends
    <2> HIDE DEF f
    <2>7. /\ IsBuffer(append(f, rest)) /\ Contents(append(f, rest)) = Contents(f) \o rest
          /\ readableBytes(append(f, rest)) = readableBytes(f) + Len(rest)
          /\ Len(append(f, rest).data) > Len(f.data)
               => kCheapPrepend + readableBytes(append(f, rest)) > Len(f.data)
      BY <2>4, <2>6, AppendAppends
    <2>8. (Contents(k) \o first) \o rest = Contents(k) \o bytes
      <3>1. Contents(k) \in Seq(Byte)
        BY ContentsSeq
      <3>2. \A s, t, u \in Seq(Byte) : (s \o t) \o u = s \o (t \o u)
        BY ConcatAssociative, SMTT(30)
      <3>3. (Contents(k) \o first) \o rest = Contents(k) \o (first \o rest)
        BY <2>3, <2>4, <3>1, <3>2, Zenon
      <3> QED
        BY <2>5, <3>3, Zenon
    <2>9. readableBytes(append(f, rest)) = readableBytes(k) + Len(bytes)
      BY <1>1, <2>3, <2>4, <2>6, <2>7, SMT
    <2> QED
      BY <2>1, <2>6, <2>7, <2>8, <2>9
  <1> QED
    BY <1>2, <1>3

(* retrieveAsString takes its bytes from the front. *)
LEMMA RetrieveTakes ==
  ASSUME NEW k, IsBuffer(k), NEW len \in 0..readableBytes(k)
  PROVE  LET r == retrieve(k, len)
             taken == [i \in 1..len |-> k.data[k.readerIndex_ + i]]
         IN /\ IsBuffer(r)
            /\ Contents(k) = taken \o Contents(r)
            /\ Len(r.data) = Len(k.data)
  <1> DEFINE r == retrieve(k, len)
             taken == [i \in 1..len |-> k.data[k.readerIndex_ + i]]
  <1>1. /\ k.data \in Seq(Byte) /\ k.writerIndex_ \in Nat /\ k.readerIndex_ \in Nat
        /\ Len(k.data) \in Nat /\ kCheapPrepend \in Nat
        /\ kCheapPrepend <= k.readerIndex_ /\ k.writerIndex_ <= Len(k.data)
    BY BufferAssumption, SMT DEF IsBuffer
  <1>2. /\ Contents(k) \in Seq(Byte) /\ Len(Contents(k)) = readableBytes(k)
        /\ \A i \in 1..readableBytes(k) : Contents(k)[i] = k.data[k.readerIndex_ + i]
    BY ContentsSeq
  <1>3. /\ readableBytes(k) \in Nat /\ readableBytes(k) = k.writerIndex_ - k.readerIndex_
        /\ len \in Nat /\ len <= readableBytes(k)
    <2>1. readableBytes(k) \in Nat
      BY ContentsSeq
    <2>2. len \in Nat /\ len <= readableBytes(k)
      BY <2>1, SMT
    <2> QED
      BY <2>1, <2>2 DEF readableBytes
  <1>4. /\ taken \in Seq(Byte) /\ Len(taken) = len
        /\ \A i \in 1..len : taken[i] = k.data[k.readerIndex_ + i]
    <2>1. \A i \in 1..len : k.readerIndex_ + i \in 1..Len(k.data)
      BY <1>1, <1>3, SMTT(30)
    <2>2. taken \in [1..len -> Byte]
      BY <1>1, <2>1, ElementOfSeq
    <2> QED
      BY <1>3, <2>2, FunctionIsSeq
  <1>5. CASE len < readableBytes(k)
    <2>1. r = [k EXCEPT !.readerIndex_ = k.readerIndex_ + len]
      BY <1>5 DEF retrieve
    <2> HIDE DEF r, taken
    <2>2. /\ IsBuffer(r) /\ r.data = k.data
          /\ r.readerIndex_ = k.readerIndex_ + len /\ r.writerIndex_ = k.writerIndex_
      BY <1>1, <1>3, <1>5, <2>1, SMT DEF IsBuffer
    <2>3. readableBytes(r) = readableBytes(k) - len
      <3>1. readableBytes(r) = r.writerIndex_ - r.readerIndex_
        BY DEF readableBytes
      <3> QED
        BY <1>1, <1>3, <2>2, <3>1, SMT
    <2>4. /\ Contents(r) \in Seq(Byte) /\ Len(Contents(r)) = readableBytes(k) - len
          /\ \A i \in 1..(readableBytes(k) - len) : Contents(r)[i] = k.data[(k.readerIndex_ + len) + i]
      <3>1. /\ Contents(r) \in Seq(Byte) /\ Len(Contents(r)) = readableBytes(r)
            /\ \A i \in 1..readableBytes(r) : Contents(r)[i] = r.data[r.readerIndex_ + i]
        BY <2>2, ContentsSeq
      <3> QED
        BY <2>2, <2>3, <3>1
    <2>5. Len(Contents(k)) = Len(taken) + Len(Contents(r))
      BY <1>2, <1>3, <1>4, <2>4, SMT
    <2>6. ASSUME NEW i \in 1..Len(taken) PROVE Contents(k)[i] = taken[i]
      <3>1. i \in 1..len /\ i \in 1..readableBytes(k)
        BY <1>3, <1>4, SMT
      <3> QED
        BY <1>2, <1>4, <3>1
    <2>7. ASSUME NEW i \in 1..Len(Contents(r)) PROVE Contents(k)[Len(taken) + i] = Contents(r)[i]
      <3>1. /\ i \in 1..(readableBytes(k) - len)
            /\ len + i \in 1..readableBytes(k)
            /\ k.readerIndex_ + (len + i) = (k.readerIndex_ + len) + i
        BY <1>1, <1>3, <2>4, SMT
      <3>2. Contents(k)[len + i] = k.data[k.readerIndex_ + (len + i)]
        BY <1>2, <3>1
      <3> QED
        BY <1>4, <2>4, <3>1, <3>2
    <2>8. Contents(k) = taken \o Contents(r)
      BY <1>2, <1>4, <2>4, <2>5, <2>6, <2>7, IsConcat
    <2> QED
      BY <2>2, <2>8 DEF r, taken
  <1>6. CASE ~(len < readableBytes(k))
    <2>1. len = readableBytes(k)
      BY <1>3, <1>6, SMT
    <2>2. r = [data |-> k.data, readerIndex_ |-> kCheapPrepend, writerIndex_ |-> kCheapPrepend]
      BY <1>6 DEF retrieve, retrieveAll
    <2> HIDE DEF r, taken
    <2>3. IsBuffer(r) /\ r.data = k.data /\ r.readerIndex_ = kCheapPrepend /\ r.writerIndex_ = kCheapPrepend
      BY <1>1, <1>3, <2>2, SMT DEF IsBuffer
    <2>4. Contents(r) \in Seq(Byte) /\ Len(Contents(r)) = 0
      <3>1. readableBytes(r) = 0
        BY <1>1, <2>3, SMT DEF readableBytes
      <3> QED
        BY <2>3, <3>1, ContentsSeq
    <2>5. Contents(r) = <<>>
      BY <2>4, EmptySeq, SMT
    <2>6. Contents(k) = taken
      <3>1. \A i \in 1..Len(Contents(k)) : Contents(k)[i] = taken[i]
        BY <1>2, <1>4, <2>1
      <3>2. Len(Contents(k)) = Len(taken)
        BY <1>2, <1>4, <2>1
      <3> QED
        BY <1>2, <1>4, <3>1, <3>2, SeqEqual
    <2>7. taken \o <<>> = taken
      BY <1>4, ConcatEmptySeq
    <2> QED
      BY <2>3, <2>5, <2>6, <2>7 DEF r, taken
  <1> QED
    BY <1>5, <1>6

-----------------------------------------------------------------------------
(* A new buffer is empty. *)
LEMMA NewIsEmpty == IsBuffer(NewBuffer) /\ Contents(NewBuffer) = <<>>
  <1> DEFINE n == kCheapPrepend + kInitialSize
             d == [i \in 1..n |-> Zero]
  <1>1. kCheapPrepend \in Nat /\ kInitialSize \in Nat /\ n \in Nat /\ Zero \in Byte
    BY BufferAssumption, SMT
  <1>2. d \in Seq(Byte) /\ Len(d) = n
    <2>1. d \in [1..n -> Byte]
      BY <1>1
    <2> QED
      BY <1>1, <2>1, FunctionIsSeq
  <1>3. NewBuffer = [data |-> d, readerIndex_ |-> kCheapPrepend, writerIndex_ |-> kCheapPrepend]
    BY DEF NewBuffer
  <1> HIDE DEF d
  <1>4. IsBuffer(NewBuffer) /\ readableBytes(NewBuffer) = 0
    BY <1>1, <1>2, <1>3, SMT DEF IsBuffer, readableBytes
  <1>5. Contents(NewBuffer) \in Seq(Byte) /\ Len(Contents(NewBuffer)) = 0
    BY <1>4, ContentsSeq
  <1> QED
    BY <1>4, <1>5, EmptySeq, SMT

(* The strings a step appends are sequences of bytes. *)
LEMMA StringsAreSeqs == ASSUME NEW n \in Nat, NEW s \in Strings(n) PROVE s \in Seq(Byte)
  <1>1. PICK m \in 0..n : s \in [1..m -> Byte]
    BY DEF Strings
  <1>2. m \in Nat
    BY SMT
  <1> QED
    BY <1>1, <1>2, FunctionIsSeq

(* One step: the buffer stays a buffer, behaves as the queue does, and     *)
(* grows only when it is full.                                             *)
LEMMA BufferStep ==
  ASSUME TypeOK, Next
  PROVE  /\ TypeOK'
         /\ Queue!Next
         /\ Len(b'.data) > Len(b.data) => kCheapPrepend + readableBytes(b)' > Len(b.data)
  <1>1. IsBuffer(b) /\ MaxLen \in Nat
    BY BufferAssumption DEF TypeOK
  <1>2. CASE AppendBytes
    <2>1. PICK bytes \in Strings(MaxLen) : b' = append(b, bytes) /\ call' = [op |-> "put", bytes |-> bytes]
      BY <1>2 DEF AppendBytes
    <2>2. bytes \in Seq(Byte)
      BY <1>1, StringsAreSeqs
    <2>3. /\ IsBuffer(b') /\ Contents(b') = Contents(b) \o bytes
          /\ Len(b'.data) > Len(b.data) => kCheapPrepend + readableBytes(b') > Len(b.data)
      BY <1>1, <2>1, <2>2, AppendAppends
    <2> QED
      BY <2>1, <2>3 DEF TypeOK, IsBuffer, Contents, readableBytes, Queue!Next, Queue!Put
  <1>3. CASE ReadFd
    <2>1. PICK bytes \in Strings(MaxLen) : b' = readFd(b, bytes) /\ call' = [op |-> "put", bytes |-> bytes]
      BY <1>3 DEF ReadFd
    <2>2. bytes \in Seq(Byte)
      BY <1>1, StringsAreSeqs
    <2>3. /\ IsBuffer(b') /\ Contents(b') = Contents(b) \o bytes
          /\ Len(b'.data) > Len(b.data) => kCheapPrepend + readableBytes(b') > Len(b.data)
      BY <1>1, <2>1, <2>2, ReadAppends
    <2> QED
      BY <2>1, <2>3 DEF TypeOK, IsBuffer, Contents, readableBytes, Queue!Next, Queue!Put
  <1>4. CASE Retrieve
    <2>1. PICK len \in 0..readableBytes(b) :
            /\ b' = retrieve(b, len)
            /\ call' = [op |-> "get", bytes |-> [i \in 1..len |-> b.data[b.readerIndex_ + i]]]
      BY <1>4 DEF Retrieve
    <2> DEFINE taken == [i \in 1..len |-> b.data[b.readerIndex_ + i]]
    <2>2. IsBuffer(b') /\ Contents(b) = taken \o Contents(b') /\ Len(b'.data) = Len(b.data)
      BY <1>1, <2>1, RetrieveTakes
    <2>3. ~(Len(b'.data) > Len(b.data))
      BY <1>1, <2>2, SMT DEF IsBuffer
    <2>4. call'.op = "get" /\ call'.bytes = taken
      BY <2>1
    <2> HIDE DEF taken
    <2> QED
      BY <2>2, <2>3, <2>4 DEF TypeOK, IsBuffer, Contents, readableBytes, Queue!Next, Queue!Get
  <1> QED
    BY <1>2, <1>3, <1>4 DEF Next

(* For every kCheapPrepend, kInitialSize and extrabuf size the indexes of  *)
(* a Buffer stay in order and inside the vector.                           *)
THEOREM IndexesInOrder == Spec => []TypeOK
  <1>1. Init => TypeOK
    BY NewIsEmpty DEF Init, TypeOK
  <1>2. TypeOK /\ [Next]_vars => TypeOK'
    <2>1. CASE Next
      BY <2>1, BufferStep
    <2>2. CASE UNCHANGED vars
      BY <2>2 DEF vars, TypeOK, IsBuffer
    <2> QED
      BY <2>1, <2>2
  <1> QED
    BY <1>1, <1>2, PTL DEF Spec

(* Buffer implements a queue of bytes. *)
THEOREM BufferIsByteQueue == Spec => ByteFifo
  <1>1. Init => Queue!Init
    BY NewIsEmpty DEF Init, Queue!Init
  <1>2. TypeOK /\ [Next]_vars => [Queue!Next]_<<Contents(b), call>>
    <2>1. CASE Next
      BY <2>1, BufferStep
    <2>2. CASE UNCHANGED vars
      BY <2>2 DEF vars, Contents, readableBytes
    <2> QED
      BY <2>1, <2>2
  <1> QED
    BY <1>1, <1>2, IndexesInOrder, PTL DEF Spec, ByteFifo, Queue!Spec

(* makeSpace allocates only when compacting would not do. *)
THEOREM GrowthIsNeeded == Spec => GrowsOnlyWhenFull
  <1>1. TypeOK /\ [Next]_vars =>
          [Len(b'.data) > Len(b.data) => kCheapPrepend + readableBytes(b)' > Len(b.data)]_vars
    BY BufferStep
  <1> QED
    BY <1>1, IndexesInOrder, PTL DEF Spec, GrowsOnlyWhenFull
=============================================================================
