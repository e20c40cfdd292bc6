-------------------------------- MODULE Buffer -------------------------------
(***************************************************************************)
(* src/src/net/Buffer.h and Buffer.cc: the input and output buffer of a    *)
(* connection, a vector with a read and a write index.                     *)
(*                                                                         *)
(*   0 <= kCheapPrepend <= readerIndex_ <= writerIndex_ <= buffer_.size()  *)
(*                                                                         *)
(* A buffer is a record; offset i of the vector is element i + 1 of data.  *)
(***************************************************************************)
EXTENDS Naturals, Sequences

CONSTANTS
  Byte, Zero,      \* the bytes, and the one resize() fills with
  kCheapPrepend, kInitialSize,
  ExtraBuf,        \* sizeof extrabuf of readFd
  MaxLen,          \* bound on the bytes of one append or read
  MaxReadable      \* bound on the bytes kept unread

ASSUME BufferAssumption ==
  /\ Zero \in Byte
  /\ {kCheapPrepend, kInitialSize, ExtraBuf, MaxLen, MaxReadable} \subseteq Nat

VARIABLES b, call

vars == <<b, call>>

Strings(n) == UNION {[1..m -> Byte] : m \in 0..n}

readableBytes(k)    == k.writerIndex_ - k.readerIndex_
wirteableBytes(k)   == Len(k.data) - k.writerIndex_
prependableBytes(k) == k.readerIndex_

(* The readable bytes. *)
Contents(k) == [i \in 1..readableBytes(k) |-> k.data[k.readerIndex_ + i]]

(* std::copy of bytes to offset at. *)
Overwrite(data, at, bytes) ==
  [i \in 1..Len(data) |-> IF i > at /\ i <= at + Len(bytes) THEN bytes[i - at] ELSE data[i]]

resize(data, n) == [i \in 1..n |-> IF i <= Len(data) THEN data[i] ELSE Zero]

-----------------------------------------------------------------------------
retrieveAll(k) ==
  [data |-> k.data, readerIndex_ |-> kCheapPrepend, writerIndex_ |-> kCheapPrepend]

retrieve(k, len) ==
  IF len < readableBytes(k) THEN [k EXCEPT !.readerIndex_ = @ + len] ELSE retrieveAll(k)

(* makeSpace: grow when the room in front and behind is not enough, else   *)
(* move the readable bytes to the front.                                   *)
MustGrow(k, len) == wirteableBytes(k) + prependableBytes(k) < len + kCheapPrepend

MovedToFront_IndexesOnly(k) ==
  [data         |-> k.data,
   readerIndex_ |-> kCheapPrepend,
   writerIndex_ |-> kCheapPrepend + readableBytes(k)]

MovedToFront(k) ==
  [data         |-> Overwrite(k.data, kCheapPrepend, Contents(k)),
   readerIndex_ |-> kCheapPrepend,
   writerIndex_ |-> kCheapPrepend + readableBytes(k)]

makeSpace(k, len) ==
  IF MustGrow(k, len) THEN [k EXCEPT !.data = resize(@, k.writerIndex_ + len)] ELSE MovedToFront(k)

ensureWriteableBytes(k, len) == IF wirteableBytes(k) < len THEN makeSpace(k, len) ELSE k

(* std::copy to beginWrite(), and the write index moves on. *)
Fill(k, bytes) ==
  [data         |-> Overwrite(k.data, k.writerIndex_, bytes),
   readerIndex_ |-> k.readerIndex_,
   writerIndex_ |-> k.writerIndex_ + Len(bytes)]

append(k, bytes) == Fill(ensureWriteableBytes(k, Len(bytes)), bytes)

(* readFd: readv fills the room behind the write index first, then         *)
(* extrabuf, which is appended.                                            *)
ReadLimit(k) == wirteableBytes(k) + (IF wirteableBytes(k) < ExtraBuf THEN ExtraBuf ELSE 0)

readFd(k, bytes) ==
  LET w == wirteableBytes(k)
  IN IF Len(bytes) <= w THEN Fill(k, bytes)
     ELSE append(Fill(k, SubSeq(bytes, 1, w)), SubSeq(bytes, w + 1, Len(bytes)))

-----------------------------------------------------------------------------
NewBuffer ==
  [data |-> [i \in 1..(kCheapPrepend + kInitialSize) |-> Zero],
   readerIndex_ |-> kCheapPrepend, writerIndex_ |-> kCheapPrepend]

Init == b = NewBuffer /\ call = [op |-> "new", bytes |-> <<>>]

AppendBytes ==
  \E bytes \in Strings(MaxLen) :
    /\ readableBytes(b) + Len(bytes) <= MaxReadable
    /\ b' = append(b, bytes)
    /\ call' = [op |-> "put", bytes |-> bytes]

ReadFd ==
  \E bytes \in Strings(MaxLen) :
    /\ Len(bytes) <= ReadLimit(b)
    /\ readableBytes(b) + Len(bytes) <= MaxReadable
    /\ b' = readFd(b, bytes)
    /\ call' = [op |-> "put", bytes |-> bytes]

(* retrieveAsString; with all the bytes it is retrieveAllAsString, and     *)
(* writeFd followed by retrieve takes the same way.                        *)
Retrieve ==
  \E len \in 0..readableBytes(b) :
    /\ b' = retrieve(b, len)
    /\ call' = [op |-> "get", bytes |-> [i \in 1..len |-> b.data[b.readerIndex_ + i]]]

Next == AppendBytes \/ ReadFd \/ Retrieve

Spec == Init /\ [][Next]_vars

-----------------------------------------------------------------------------
IsBuffer(k) ==
  /\ k \in [data : Seq(Byte), readerIndex_ : Nat, writerIndex_ : Nat]
  /\ kCheapPrepend <= k.readerIndex_
  /\ k.readerIndex_ <= k.writerIndex_
  /\ k.writerIndex_ <= Len(k.data)

(* The type of the state: the indexes never leave the vector, so no copy   *)
(* of append, makeSpace or readFd does, and the room in front is kept.     *)
TypeOK == IsBuffer(b)

(* Bytes come out as they went in: whatever was moved, grown or spilled    *)
(* into extrabuf on the way, append and readFd add their bytes at the end  *)
(* and retrieveAsString takes its from the front.                          *)
Queue == INSTANCE ByteQueue WITH contents <- Contents(b), call <- call

ByteFifo == Queue!Spec

(* The vector grows only when the bytes to keep and the room in front do   *)
(* not fit into it: makeSpace uses the space retrieve left before it       *)
(* allocates.                                                              *)
GrowsOnlyWhenFull ==
  [][Len(b'.data) > Len(b.data) => kCheapPrepend + readableBytes(b)' > Len(b.data)]_vars
=============================================================================
