------------------------------ MODULE IoBuffer ------------------------------
(***************************************************************************)
(* The streaming buffer of src/util/iobuffer.rs: two of them, between which *)
(* append_from and split_at move bytes.  Every byte written is a number of *)
(* its own, so that a byte lost, doubled or out of its place can be told.  *)
(***************************************************************************)
EXTENDS Naturals, Sequences, TLAPS

CONSTANTS
  IbBytes,              \* bound: bytes written in one behaviour
  IbMoves,              \* bound: moves from one buffer to the other
  IbDefault,            \* DEFAULT_CAPACITY_LIMIT
  IbLimits              \* limits an application sets; one above IbBytes is None

ASSUME IbAssumption ==
  IbBytes \in Nat /\ IbMoves \in Nat /\ IbDefault \in Nat /\ IbLimits \subseteq Nat

VARIABLES
  ibBuffer,             \* the buffers: data, limit, highest limit so far, counters of stats()
  ibMade,               \* bytes written so far; the next one is ibMade + 1
  ibTaken,              \* history: bytes the application consumed
  ibGone,               \* history: bytes cleared, and bytes lost by calls that failed
  ibMixed,              \* history: bytes were appended behind younger ones
  ibMoved               \* moves so far

ibVars == <<ibBuffer, ibMade, ibTaken, ibGone, ibMixed, ibMoved>>

IbNames == {"head", "tail"}

(* IoBuffer::new and with_capacity; unlimited() has another limit.         *)
NewBuffer(limit) == [data |-> <<>>, limit |-> limit, high |-> limit, written |-> 0, consumed |-> 0]

IbInit ==
  /\ \E limit \in IbLimits :
       ibBuffer = [b \in IbNames |-> NewBuffer(IF b = "head" THEN limit ELSE IbDefault)]
  /\ ibMade = 0 /\ ibTaken = <<>> /\ ibGone = [cleared |-> <<>>, lost |-> <<>>]
  /\ ibMixed = FALSE /\ ibMoved = 0

-----------------------------------------------------------------------------
(* try_reserve.                                                            *)
Room(buffer, n) == Len(buffer.data) + n <= buffer.limit

(* The bytes written next.                                                 *)
Fresh(n) == [i \in 1..n |-> ibMade + i]

(* What write and consume do to a buffer they do not refuse.               *)
Written(buffer, bytes) == [buffer EXCEPT !.data = @ \o bytes, !.written = @ + Len(bytes)]
Drawn(buffer, n) == [buffer EXCEPT !.data = SubSeq(@, n + 1, Len(@)), !.consumed = @ + n]

(* write and write_byte: all of it or nothing.                             *)
Write(b, n) ==
  /\ Room(ibBuffer[b], n) /\ ibMade + n <= IbBytes
  /\ ibBuffer' = [ibBuffer EXCEPT ![b] = Written(@, Fresh(n))]
  /\ ibMade' = ibMade + n
  /\ UNCHANGED <<ibTaken, ibGone, ibMixed, ibMoved>>

(* consume of up to n bytes, and consume_exact of so many as there are.    *)
Consume(b, n) ==
  LET k == IF n < Len(ibBuffer[b].data) THEN n ELSE Len(ibBuffer[b].data) IN
  /\ ibBuffer' = [ibBuffer EXCEPT ![b] = Drawn(@, k)]
  /\ ibTaken' = ibTaken \o SubSeq(ibBuffer[b].data, 1, k)
  /\ UNCHANGED <<ibMade, ibGone, ibMixed, ibMoved>>

(* clear: the counters are left as they are.                               *)
ClearBuffer(b) ==
  /\ ibGone' = [ibGone EXCEPT !.cleared = @ \o ibBuffer[b].data]
  /\ ibBuffer' = [ibBuffer EXCEPT ![b].data = <<>>]
  /\ UNCHANGED <<ibMade, ibTaken, ibMixed, ibMoved>>

(* set_capacity_limit, below what is in the buffer if it has to be.        *)
SetCapacityLimit(b, limit) ==
  /\ ibBuffer' = [ibBuffer EXCEPT ![b].limit = limit,
                                  ![b].high = IF limit > @ THEN limit ELSE @]
  /\ UNCHANGED <<ibMade, ibTaken, ibGone, ibMixed, ibMoved>>

(* Mutant of AppendFrom: the other buffer keeps what was appended.         *)
AppendFromCopying(b, from) ==
  LET bytes == ibBuffer[from].data IN
  /\ b # from /\ ibMoved < IbMoves /\ Room(ibBuffer[b], Len(bytes))
  /\ ibBuffer' = [ibBuffer EXCEPT ![b] = Written(@, bytes)]
  /\ ibMoved' = ibMoved + 1 /\ ibMixed' = TRUE
  /\ UNCHANGED <<ibMade, ibTaken, ibGone>>

(* append_from: the other buffer is consumed before write has its say, and  *)
(* what write refuses is dropped.                                          *)
AppendFrom(b, from) ==
  LET bytes == ibBuffer[from].data
      mine  == ibBuffer[b].data
      room  == Room(ibBuffer[b], Len(bytes))
  IN  /\ b # from /\ ibMoved < IbMoves
      /\ ibBuffer' = [ibBuffer EXCEPT ![from] = Drawn(@, Len(bytes)),
                                      ![b] = IF room THEN Written(@, bytes) ELSE @]
      /\ ibGone' = [ibGone EXCEPT !.lost = IF room THEN @ ELSE @ \o bytes]
      /\ ibMixed' = (ibMixed \/ (room /\ mine # <<>> /\ bytes # <<>> /\ mine[Len(mine)] > bytes[1]))
      /\ ibMoved' = ibMoved + 1
      /\ UNCHANGED <<ibMade, ibTaken>>

(* split_at: the tail goes to a new buffer of the default limit, whose write *)
(* panics if the tail is longer; the head has been cut by then.  The        *)
(* application puts it in the place of a buffer it has emptied.            *)
SplitAt(b, at, pos) ==
  LET data == ibBuffer[b].data
      rest == SubSeq(data, pos + 1, Len(data))
      new  == NewBuffer(IbDefault)
      fits == Room(new, Len(rest))
  IN  /\ b # at /\ ibBuffer[at].data = <<>> /\ pos <= Len(data) /\ ibMoved < IbMoves
      /\ ibBuffer' = [ibBuffer EXCEPT ![b].data = SubSeq(@, 1, pos),
                                      ![at] = IF fits THEN Written(new, rest) ELSE @]
      /\ ibGone' = [ibGone EXCEPT !.lost = IF fits THEN @ ELSE @ \o rest]
      /\ ibMoved' = ibMoved + 1
      /\ UNCHANGED <<ibMade, ibTaken, ibMixed>>

IbNext ==
  \/ \E b \in IbNames, n \in 1..2 : Write(b, n) \/ Consume(b, n)
  \/ \E b \in IbNames : ClearBuffer(b)
  \/ \E b \in IbNames, limit \in IbLimits : SetCapacityLimit(b, limit)
  \/ \E b, from \in IbNames : AppendFrom(b, from)
  \/ \E b, at \in IbNames, pos \in 0..IbBytes : SplitAt(b, at, pos)

-----------------------------------------------------------------------------
Places == <<ibTaken, ibBuffer["head"].data, ibBuffer["tail"].data, ibGone.cleared, ibGone.lost>>

(* Every byte written is in one place: taken by the application, in one of  *)
(* the buffers, cleared, or lost in a call that failed.                    *)
Count(b) == Len(ibBuffer[b].data)
BytesHeld == Count("head") + Count("tail")
ByteCount == ibMade = Len(ibTaken) + BytesHeld + Len(ibGone.cleared) + Len(ibGone.lost)
BytesKept ==
  /\ ByteCount
  /\ \A k \in 1..ibMade : \E p \in DOMAIN Places : \E i \in DOMAIN Places[p] : Places[p][i] = k

(* No buffer ever holds more than the highest limit it has had, and stats()  *)
(* never tells more bytes consumed and left than were written.             *)
StatsHold(b) ==
  /\ Len(ibBuffer[b].data) <= ibBuffer[b].high
  /\ ibBuffer[b].consumed + Len(ibBuffer[b].data) <= ibBuffer[b].written

(* A buffer gives its bytes back in the order they were written in, across   *)
(* any splitting and joining, unless some were appended behind younger ones. *)
OrderKept ==
  ~ibMixed => \A b \in IbNames : \A i, j \in DOMAIN ibBuffer[b].data :
                i < j => ibBuffer[b].data[i] < ibBuffer[b].data[j]

BufferFaithful == BytesKept /\ (\A b \in IbNames : StatsHold(b)) /\ OrderKept
-----------------------------------------------------------------------------
(* The buffers keep their bytes, for every limit and every number of bytes. *)

Buffer == [data : Seq(Nat), limit : Nat, high : Nat, written : Nat, consumed : Nat]

IbTypeOK ==
  /\ ibBuffer \in [IbNames -> Buffer]
  /\ ibMade \in Nat /\ ibTaken \in Seq(Nat)
  /\ ibGone \in [cleared : Seq(Nat), lost : Seq(Nat)]

(* Length and type of a part of a sequence, of two joined, and of new bytes. *)
LEMMA PartOfSequence ==
  ASSUME NEW s \in Seq(Nat), NEW m \in Nat, NEW n \in Nat, m >= 1, n <= Len(s)
  PROVE  /\ SubSeq(s, m, n) \in Seq(Nat)
         /\ Len(SubSeq(s, m, n)) = IF m <= n THEN n - m + 1 ELSE 0
  OBVIOUS

LEMMA Joined ==
  ASSUME NEW s \in Seq(Nat), NEW t \in Seq(Nat)
  PROVE  s \o t \in Seq(Nat) /\ Len(s \o t) = Len(s) + Len(t)
  OBVIOUS

LEMMA FreshBytes ==
  ASSUME NEW n \in Nat, ibMade \in Nat
  PROVE  Fresh(n) \in Seq(Nat) /\ Len(Fresh(n)) = n
  BY DEF Fresh

(* What writing and drawing do to one buffer that was in order: a type, the  *)
(* limit below its highest value, and what StatsHold says.                 *)
InOrder(buffer) ==
  /\ buffer \in Buffer /\ buffer.limit <= buffer.high
  /\ Len(buffer.data) <= buffer.high
  /\ buffer.consumed + Len(buffer.data) <= buffer.written

LEMMA WrittenInOrder ==
  ASSUME NEW buffer, InOrder(buffer), NEW bytes \in Seq(Nat), Room(buffer, Len(bytes))
  PROVE  /\ InOrder(Written(buffer, bytes))
         /\ Len(Written(buffer, bytes).data) = Len(buffer.data) + Len(bytes)
<1> DEFINE data == buffer.data \o bytes
           n    == buffer.written + Len(bytes)
<1>1. /\ data \in Seq(Nat) /\ Len(data) = Len(buffer.data) + Len(bytes) /\ n \in Nat
      /\ Len(bytes) \in Nat /\ Len(buffer.data) \in Nat /\ buffer \in Buffer
  BY Joined DEF InOrder, Buffer
<1>2. Written(buffer, bytes) = [buffer EXCEPT !.data = data, !.written = n]
  BY DEF Written
<1> HIDE DEF data, n
<1>3. /\ Written(buffer, bytes) \in Buffer /\ Written(buffer, bytes).data = data
      /\ Written(buffer, bytes).written = n /\ Written(buffer, bytes).consumed = buffer.consumed
      /\ Written(buffer, bytes).limit = buffer.limit /\ Written(buffer, bytes).high = buffer.high
  BY <1>1, <1>2 DEF Buffer
<1> QED  BY <1>1, <1>3 DEF InOrder, Buffer, Room, n

LEMMA DrawnInOrder ==
  ASSUME NEW buffer, InOrder(buffer), NEW n \in Nat, n <= Len(buffer.data)
  PROVE  /\ InOrder(Drawn(buffer, n))
         /\ Len(Drawn(buffer, n).data) = Len(buffer.data) - n
<1> DEFINE data == SubSeq(buffer.data, n + 1, Len(buffer.data))
           m    == buffer.consumed + n
<1>1. /\ data \in Seq(Nat) /\ Len(data) = Len(buffer.data) - n /\ m \in Nat
      /\ Len(buffer.data) \in Nat /\ buffer \in Buffer
  BY PartOfSequence DEF InOrder, Buffer
<1>2. Drawn(buffer, n) = [buffer EXCEPT !.data = data, !.consumed = m]
  BY DEF Drawn
<1> HIDE DEF data, m
<1>3. /\ Drawn(buffer, n) \in Buffer /\ Drawn(buffer, n).data = data
      /\ Drawn(buffer, n).consumed = m /\ Drawn(buffer, n).written = buffer.written
      /\ Drawn(buffer, n).limit = buffer.limit /\ Drawn(buffer, n).high = buffer.high
  BY <1>1, <1>2 DEF Buffer
<1> QED  BY <1>1, <1>3 DEF InOrder, Buffer, m

IbInv == IbTypeOK /\ (\A b \in IbNames : InOrder(ibBuffer[b])) /\ ByteCount

LEMMA InvBegins == ASSUME IbInit PROVE IbInv
<1>1. \A limit \in Nat : InOrder(NewBuffer(limit))
  BY DEF InOrder, NewBuffer, Buffer
<1>2. PICK limit \in IbLimits :
        ibBuffer = [b \in IbNames |-> NewBuffer(IF b = "head" THEN limit ELSE IbDefault)]
  BY DEF IbInit
<1>3. limit \in Nat /\ IbDefault \in Nat
  BY IbAssumption
<1>4. /\ ibBuffer["head"] = NewBuffer(limit) /\ ibBuffer["tail"] = NewBuffer(IbDefault)
      /\ ibBuffer \in [IbNames -> Buffer]
  BY <1>1, <1>2, <1>3 DEF IbNames, InOrder
<1>5. \A b \in IbNames : InOrder(ibBuffer[b])
  BY <1>1, <1>3, <1>4 DEF IbNames
<1>6. /\ ibMade = 0 /\ ibTaken = <<>> /\ ibGone = [cleared |-> <<>>, lost |-> <<>>]
      /\ ibBuffer["head"].data = <<>> /\ ibBuffer["tail"].data = <<>>
  BY <1>4 DEF IbInit, NewBuffer
<1>7. Count("head") = 0 /\ Count("tail") = 0
  BY <1>6 DEF Count
<1>8. /\ ByteCount /\ ibMade \in Nat /\ ibTaken \in Seq(Nat)
      /\ ibGone \in [cleared : Seq(Nat), lost : Seq(Nat)]
  BY <1>6, <1>7 DEF ByteCount, BytesHeld
<1> QED  BY <1>4, <1>5, <1>8 DEF IbInv, IbTypeOK

(* The invariant in terms of what the buffers hold, and back.               *)
LEMMA InvUnfolded ==
  ASSUME IbInv
  PROVE  /\ ibMade \in Nat /\ ibTaken \in Seq(Nat) /\ Len(ibTaken) \in Nat
         /\ ibGone.cleared \in Seq(Nat) /\ ibGone.lost \in Seq(Nat)
         /\ ibGone = [cleared |-> ibGone.cleared, lost |-> ibGone.lost]
         /\ Len(ibGone.cleared) \in Nat /\ Len(ibGone.lost) \in Nat
         /\ ibBuffer \in [IbNames -> Buffer]
         /\ \A b \in IbNames : /\ ibBuffer[b] \in Buffer /\ InOrder(ibBuffer[b])
                               /\ ibBuffer[b].data \in Seq(Nat) /\ Count(b) \in Nat
         /\ BytesHeld \in Nat
         /\ ibMade = Len(ibTaken) + BytesHeld + Len(ibGone.cleared) + Len(ibGone.lost)
<1>1. ibBuffer \in [IbNames -> Buffer] /\ ibGone \in [cleared : Seq(Nat), lost : Seq(Nat)]
  BY DEF IbInv, IbTypeOK
<1>2. \A b \in IbNames : /\ ibBuffer[b] \in Buffer
                         /\ ibBuffer[b].data \in Seq(Nat) /\ Count(b) \in Nat
  BY <1>1 DEF Buffer, Count
<1>3. /\ ibMade \in Nat /\ ibTaken \in Seq(Nat) /\ Len(ibTaken) \in Nat
      /\ Len(ibGone.cleared) \in Nat /\ Len(ibGone.lost) \in Nat
      /\ ibGone.cleared \in Seq(Nat) /\ ibGone.lost \in Seq(Nat)
      /\ ibGone = [cleared |-> ibGone.cleared, lost |-> ibGone.lost]
  BY <1>1 DEF IbInv, IbTypeOK
<1>4. \A b \in IbNames : InOrder(ibBuffer[b])
  BY DEF IbInv
<1>5. Count("head") \in Nat /\ Count("tail") \in Nat
  BY <1>2 DEF IbNames
<1>6. BytesHeld \in Nat
  BY <1>5 DEF BytesHeld
<1>7. ibMade = Len(ibTaken) + BytesHeld + Len(ibGone.cleared) + Len(ibGone.lost)
  BY DEF IbInv, ByteCount
<1> QED  BY <1>1, <1>2, <1>3, <1>4, <1>6, <1>7

LEMMA InvFolded ==
  ASSUME /\ ibBuffer' \in [IbNames -> Buffer] /\ \A b \in IbNames : InOrder(ibBuffer'[b])
         /\ ibMade' \in Nat /\ ibTaken' \in Seq(Nat)
         /\ ibGone' \in [cleared : Seq(Nat), lost : Seq(Nat)]
         /\ ibMade' = Len(ibTaken') + BytesHeld' + Len(ibGone'.cleared) + Len(ibGone'.lost)
  PROVE  IbInv'
<1>1. ByteCount'
  BY DEF ByteCount
<1>2. IbTypeOK'
  BY DEF IbTypeOK
<1>3. (\A b \in IbNames : InOrder(ibBuffer[b]))'
  OBVIOUS
<1> QED  BY <1>1, <1>2, <1>3 DEF IbInv

(* What the buffers hold when one of them, or both, are replaced.           *)
LEMMA OneReplaced ==
  ASSUME IbInv, NEW b \in IbNames, NEW new, InOrder(new), ibBuffer' = [ibBuffer EXCEPT ![b] = new]
  PROVE  /\ ibBuffer' \in [IbNames -> Buffer] /\ \A c \in IbNames : InOrder(ibBuffer'[c])
         /\ BytesHeld' \in Nat /\ Len(new.data) \in Nat /\ BytesHeld' = BytesHeld + Len(new.data) - Count(b)
<1>1. new \in Buffer /\ Len(new.data) \in Nat
  BY DEF InOrder, Buffer
<1>2. /\ ibBuffer' \in [IbNames -> Buffer] /\ ibBuffer'[b] = new
      /\ \A c \in IbNames \ {b} : ibBuffer'[c] = ibBuffer[c]
  BY <1>1, InvUnfolded
<1>3. \A c \in IbNames : InOrder(ibBuffer'[c])
  BY <1>2, InvUnfolded
<1>4. Count(b)' = Len(new.data) /\ \A c \in IbNames \ {b} : Count(c)' = Count(c)
  BY <1>2 DEF Count
<1>5. /\ "head" \in IbNames /\ "tail" \in IbNames /\ "head" # "tail"
      /\ Count("head") \in Nat /\ Count("tail") \in Nat
  BY InvUnfolded DEF IbNames
<1>6. BytesHeld' = BytesHeld + Len(new.data) - Count(b) /\ BytesHeld' \in Nat
  <2>1. CASE b = "head"
    <3>1. Count("head")' = Len(new.data) /\ Count("tail")' = Count("tail")
      BY <1>4, <1>5, <2>1
    <3> QED  BY <1>1, <1>5, <2>1, <3>1 DEF BytesHeld
  <2>2. CASE b = "tail"
    <3>1. Count("tail")' = Len(new.data) /\ Count("head")' = Count("head")
      BY <1>4, <1>5, <2>2
    <3> QED  BY <1>1, <1>5, <2>2, <3>1 DEF BytesHeld
  <2> QED  BY <2>1, <2>2 DEF IbNames
<1> QED  BY <1>1, <1>2, <1>3, <1>6

LEMMA BothReplaced ==
  ASSUME IbInv, NEW b \in IbNames, NEW from \in IbNames, b # from,
         NEW x, InOrder(x), NEW y, InOrder(y), ibBuffer' = [ibBuffer EXCEPT ![from] = x, ![b] = y]
  PROVE  /\ ibBuffer' \in [IbNames -> Buffer] /\ \A c \in IbNames : InOrder(ibBuffer'[c])
         /\ BytesHeld = Count(b) + Count(from) /\ BytesHeld' \in Nat
         /\ BytesHeld' = Len(x.data) + Len(y.data) /\ Len(x.data) \in Nat /\ Len(y.data) \in Nat
<1>1. x \in Buffer /\ y \in Buffer /\ Len(x.data) \in Nat /\ Len(y.data) \in Nat
  BY DEF InOrder, Buffer
<1>2. ibBuffer' \in [IbNames -> Buffer] /\ ibBuffer'[b] = y /\ ibBuffer'[from] = x
  BY <1>1, InvUnfolded
<1>3. \A c \in IbNames : c = b \/ c = from
  BY DEF IbNames
<1>4. \A c \in IbNames : InOrder(ibBuffer'[c])
  BY <1>2, <1>3
<1>5. Count(b)' = Len(y.data) /\ Count(from)' = Len(x.data)
  BY <1>2 DEF Count
<1>6. /\ Count("head") \in Nat /\ Count("tail") \in Nat
      /\ (b = "head" /\ from = "tail") \/ (b = "tail" /\ from = "head")
  BY InvUnfolded DEF IbNames
<1>7. /\ BytesHeld = Count(b) + Count(from)
      /\ BytesHeld' = Len(x.data) + Len(y.data) /\ BytesHeld' \in Nat
  <2>1. CASE b = "head" /\ from = "tail"
    <3>1. Count("head")' = Len(y.data) /\ Count("tail")' = Len(x.data)
      BY <1>5, <2>1
    <3>2. Count("head") = Count(b) /\ Count("tail") = Count(from)
      BY <2>1
    <3>3. BytesHeld = Count("head") + Count("tail") /\ BytesHeld' = Count("head")' + Count("tail")'
      BY DEF BytesHeld
    <3> HIDE DEF BytesHeld
    <3> DEFINE m == Len(x.data)
               n == Len(y.data)
    <3>a. m \in Nat /\ n \in Nat /\ (BytesHeld' = m + n \/ BytesHeld' = n + m)
      BY <1>1, <3>1, <3>3
    <3> HIDE DEF m, n
    <3>b. BytesHeld' = m + n /\ BytesHeld' \in Nat
      BY <3>a
    <3>4. BytesHeld' = Len(x.data) + Len(y.data) /\ BytesHeld' \in Nat
      BY <3>b DEF m, n
    <3>5. BytesHeld = Count(b) + Count(from)
      BY <1>6, <3>2, <3>3
    <3> QED  BY <3>4, <3>5
  <2>2. CASE b = "tail" /\ from = "head"
    <3>1. Count("tail")' = Len(y.data) /\ Count("head")' = Len(x.data)
      BY <1>5, <2>2
    <3>2. Count("tail") = Count(b) /\ Count("head") = Count(from)
      BY <2>2
    <3>3. BytesHeld = Count("head") + Count("tail") /\ BytesHeld' = Count("head")' + Count("tail")'
      BY DEF BytesHeld
    <3> HIDE DEF BytesHeld
    <3> DEFINE m == Len(x.data)
               n == Len(y.data)
    <3>a. m \in Nat /\ n \in Nat /\ (BytesHeld' = m + n \/ BytesHeld' = n + m)
      BY <1>1, <3>1, <3>3
    <3> HIDE DEF m, n
    <3>b. BytesHeld' = m + n /\ BytesHeld' \in Nat
      BY <3>a
    <3>4. BytesHeld' = Len(x.data) + Len(y.data) /\ BytesHeld' \in Nat
      BY <3>b DEF m, n
    <3>5. BytesHeld = Count(b) + Count(from)
      BY <1>6, <3>2, <3>3
    <3> QED  BY <3>4, <3>5
  <2> QED  BY <1>6, <2>1, <2>2
<1> QED  BY <1>1, <1>2, <1>4, <1>7

(* Every action keeps the invariant.                                       *)
LEMMA WriteKeeps == ASSUME IbInv, NEW b \in IbNames, NEW n \in 1..2, Write(b, n) PROVE IbInv'
<1> DEFINE new == Written(ibBuffer[b], Fresh(n))
<1>0. ibMade \in Nat /\ InOrder(ibBuffer[b]) /\ Count(b) \in Nat /\ n \in Nat
  BY InvUnfolded
<1>1. Fresh(n) \in Seq(Nat) /\ Len(Fresh(n)) = n
  BY <1>0, FreshBytes
<1>2. /\ Room(ibBuffer[b], n) /\ ibBuffer' = [ibBuffer EXCEPT ![b] = new]
      /\ ibMade' = ibMade + n /\ ibTaken' = ibTaken /\ ibGone' = ibGone
  BY DEF Write
<1>3. InOrder(new) /\ Len(new.data) = Count(b) + n
  BY <1>0, <1>1, <1>2, WrittenInOrder DEF Count
<1> HIDE DEF new
<1>4. /\ ibBuffer' \in [IbNames -> Buffer] /\ \A c \in IbNames : InOrder(ibBuffer'[c])
      /\ BytesHeld' = BytesHeld + Len(new.data) - Count(b)
  BY <1>2, <1>3, OneReplaced
<1>5. BytesHeld' = BytesHeld + n /\ BytesHeld \in Nat
  BY <1>0, <1>3, <1>4, InvUnfolded
<1>6. ibMade' = Len(ibTaken') + BytesHeld' + Len(ibGone'.cleared) + Len(ibGone'.lost)
  BY <1>0, <1>2, <1>5, InvUnfolded
<1>7. /\ ibMade' \in Nat /\ ibTaken' \in Seq(Nat)
      /\ ibGone' \in [cleared : Seq(Nat), lost : Seq(Nat)]
  BY <1>0, <1>2, InvUnfolded
<1> QED  BY <1>4, <1>6, <1>7, InvFolded

LEMMA ConsumeKeeps == ASSUME IbInv, NEW b \in IbNames, NEW n \in 1..2, Consume(b, n) PROVE IbInv'
<1> DEFINE k     == IF n < Count(b) THEN n ELSE Count(b)
           new   == Drawn(ibBuffer[b], k)
           taken == SubSeq(ibBuffer[b].data, 1, k)
<1>0. /\ InOrder(ibBuffer[b]) /\ Count(b) \in Nat /\ n \in Nat
      /\ ibBuffer[b].data \in Seq(Nat) /\ ibTaken \in Seq(Nat)
  BY InvUnfolded
<1>1. k \in Nat /\ k <= Count(b)
  BY <1>0
<1>2. /\ ibBuffer' = [ibBuffer EXCEPT ![b] = new] /\ ibTaken' = ibTaken \o taken
      /\ ibMade' = ibMade /\ ibGone' = ibGone
  BY DEF Consume, Count
<1> HIDE DEF k
<1>3. InOrder(new) /\ Len(new.data) = Count(b) - k
  BY <1>0, <1>1, DrawnInOrder DEF Count
<1>4. taken \in Seq(Nat) /\ Len(taken) = k
  BY <1>0, <1>1, PartOfSequence DEF Count
<1> HIDE DEF new, taken
<1>5. /\ ibBuffer' \in [IbNames -> Buffer] /\ \A c \in IbNames : InOrder(ibBuffer'[c])
      /\ BytesHeld' \in Nat /\ BytesHeld' = BytesHeld + Len(new.data) - Count(b)
  BY <1>2, <1>3, OneReplaced
<1>6. BytesHeld' = BytesHeld - k /\ BytesHeld \in Nat
  BY <1>0, <1>1, <1>3, <1>5, InvUnfolded
<1>7. ibTaken' \in Seq(Nat) /\ Len(ibTaken') = Len(ibTaken) + k
  BY <1>0, <1>2, <1>4, Joined
<1>8. ibMade' = Len(ibTaken') + BytesHeld' + Len(ibGone'.cleared) + Len(ibGone'.lost)
  BY <1>1, <1>2, <1>6, <1>7, InvUnfolded
<1>9. ibMade' \in Nat /\ ibGone' \in [cleared : Seq(Nat), lost : Seq(Nat)]
  BY <1>2, InvUnfolded
<1> QED  BY <1>5, <1>7, <1>8, <1>9, InvFolded

LEMMA ClearKeeps == ASSUME IbInv, NEW b \in IbNames, ClearBuffer(b) PROVE IbInv'
<1> DEFINE none    == <<>>
           new     == [ibBuffer[b] EXCEPT !.data = none]
           cleared == ibGone.cleared \o ibBuffer[b].data
<1>0. /\ InOrder(ibBuffer[b]) /\ ibBuffer[b] \in Buffer /\ Count(b) \in Nat
      /\ ibBuffer[b].data \in Seq(Nat) /\ ibGone.cleared \in Seq(Nat)
      /\ none \in Seq(Nat) /\ Len(none) = 0
  BY InvUnfolded
<1>2. /\ ibBuffer' = [ibBuffer EXCEPT ![b] = new] /\ ibGone' = [ibGone EXCEPT !.cleared = cleared]
      /\ ibMade' = ibMade /\ ibTaken' = ibTaken
  BY DEF ClearBuffer
<1> HIDE DEF none
<1>1. /\ new \in Buffer /\ new.data = none /\ Len(new.data) = 0
      /\ new.limit = ibBuffer[b].limit /\ new.high = ibBuffer[b].high
      /\ new.written = ibBuffer[b].written /\ new.consumed = ibBuffer[b].consumed
  BY <1>0 DEF Buffer
<1> HIDE DEF new
<1>3. InOrder(new)
  BY <1>0, <1>1 DEF InOrder, Buffer, Count
<1>4. cleared \in Seq(Nat) /\ Len(cleared) = Len(ibGone.cleared) + Count(b)
  BY <1>0, Joined DEF Count
<1> HIDE DEF cleared
<1>5. /\ ibBuffer' \in [IbNames -> Buffer] /\ \A c \in IbNames : InOrder(ibBuffer'[c])
      /\ BytesHeld' \in Nat /\ BytesHeld' = BytesHeld + Len(new.data) - Count(b)
  BY <1>2, <1>3, OneReplaced
<1>6. /\ ibGone' \in [cleared : Seq(Nat), lost : Seq(Nat)]
      /\ ibGone'.cleared = cleared /\ ibGone'.lost = ibGone.lost
  BY <1>2, <1>4, InvUnfolded
<1>7. ibMade' = Len(ibTaken') + BytesHeld' + Len(ibGone'.cleared) + Len(ibGone'.lost)
  <2>1. /\ Len(ibGone'.cleared) = Len(ibGone.cleared) + Count(b) /\ Len(ibGone'.lost) = Len(ibGone.lost)
        /\ Len(ibTaken') = Len(ibTaken)
    BY <1>2, <1>4, <1>6
  <2> QED  BY <1>0, <1>1, <1>2, <1>5, <2>1, InvUnfolded
<1>8. ibMade' \in Nat /\ ibTaken' \in Seq(Nat)
  BY <1>2, InvUnfolded
<1> QED  BY <1>5, <1>6, <1>7, <1>8, InvFolded

LEMMA LimitKeeps ==
  ASSUME IbInv, NEW b \in IbNames, NEW limit \in IbLimits, SetCapacityLimit(b, limit) PROVE IbInv'
<1> DEFINE high == IF limit > ibBuffer[b].high THEN limit ELSE ibBuffer[b].high
           new  == [ibBuffer[b] EXCEPT !.limit = limit, !.high = high]
<1>0. /\ InOrder(ibBuffer[b]) /\ ibBuffer[b] \in Buffer /\ Count(b) \in Nat /\ limit \in Nat
      /\ ibBuffer[b].high \in Nat
  BY InvUnfolded, IbAssumption DEF Buffer
<1>1. high \in Nat /\ high >= limit /\ high >= ibBuffer[b].high
  BY <1>0
<1>2. ibBuffer' = [ibBuffer EXCEPT ![b] = new]
      /\ ibMade' = ibMade /\ ibTaken' = ibTaken /\ ibGone' = ibGone
  BY DEF SetCapacityLimit
<1> HIDE DEF high
<1>3. /\ new \in Buffer /\ new.data = ibBuffer[b].data /\ new.limit = limit /\ new.high = high
      /\ new.written = ibBuffer[b].written /\ new.consumed = ibBuffer[b].consumed
  BY <1>0, <1>1 DEF Buffer
<1> HIDE DEF new
<1>4. InOrder(new) /\ Len(new.data) = Count(b)
  BY <1>0, <1>1, <1>3 DEF InOrder, Buffer, Count
<1>5. /\ ibBuffer' \in [IbNames -> Buffer] /\ \A c \in IbNames : InOrder(ibBuffer'[c])
      /\ BytesHeld' \in Nat /\ BytesHeld' = BytesHeld + Len(new.data) - Count(b)
  BY <1>2, <1>4, OneReplaced
<1>6. BytesHeld' = BytesHeld
  BY <1>0, <1>4, <1>5, InvUnfolded
<1>7. ibMade' = Len(ibTaken') + BytesHeld' + Len(ibGone'.cleared) + Len(ibGone'.lost)
  BY <1>2, <1>6, InvUnfolded
<1>8. /\ ibMade' \in Nat /\ ibTaken' \in Seq(Nat)
      /\ ibGone' \in [cleared : Seq(Nat), lost : Seq(Nat)]
  BY <1>2, InvUnfolded
<1> QED  BY <1>5, <1>7, <1>8, InvFolded

LEMMA AppendKeeps ==
  ASSUME IbInv, NEW b \in IbNames, NEW from \in IbNames, AppendFrom(b, from) PROVE IbInv'
<1> DEFINE bytes == ibBuffer[from].data
           room  == Room(ibBuffer[b], Len(bytes))
           x     == Drawn(ibBuffer[from], Len(bytes))
           y     == IF room THEN Written(ibBuffer[b], bytes) ELSE ibBuffer[b]
           lost  == IF room THEN ibGone.lost ELSE ibGone.lost \o bytes
<1>0. /\ InOrder(ibBuffer[b]) /\ InOrder(ibBuffer[from]) /\ Count(b) \in Nat /\ Count(from) \in Nat
      /\ bytes \in Seq(Nat) /\ ibGone.lost \in Seq(Nat) /\ Len(bytes) \in Nat
      /\ Len(bytes) = Count(from) /\ Len(ibBuffer[b].data) = Count(b) /\ Len(ibGone.lost) \in Nat
  BY InvUnfolded DEF Count
<1>1. /\ b # from /\ ibBuffer' = [ibBuffer EXCEPT ![from] = x, ![b] = y]
      /\ ibGone' = [ibGone EXCEPT !.lost = lost] /\ ibMade' = ibMade /\ ibTaken' = ibTaken
  BY DEF AppendFrom
<1>2. InOrder(x) /\ Len(x.data) = 0
  BY <1>0, DrawnInOrder
<1>3. InOrder(y) /\ Len(y.data) = (IF room THEN Count(b) + Count(from) ELSE Count(b))
  BY <1>0, WrittenInOrder
<1>4. lost \in Seq(Nat) /\ Len(lost) = (IF room THEN Len(ibGone.lost) ELSE Len(ibGone.lost) + Count(from))
  BY <1>0, Joined
<1> HIDE DEF bytes, room, x, y, lost
<1>5. /\ ibBuffer' \in [IbNames -> Buffer] /\ \A c \in IbNames : InOrder(ibBuffer'[c])
      /\ BytesHeld = Count(b) + Count(from) /\ BytesHeld' = Len(x.data) + Len(y.data)
  BY <1>1, <1>2, <1>3, BothReplaced
<1>6. /\ ibGone' \in [cleared : Seq(Nat), lost : Seq(Nat)]
      /\ ibGone'.cleared = ibGone.cleared /\ ibGone'.lost = lost
  BY <1>1, <1>4, InvUnfolded
<1>7. BytesHeld' + Len(lost) = BytesHeld + Len(ibGone.lost) /\ BytesHeld' \in Nat /\ Len(lost) \in Nat
  BY <1>0, <1>2, <1>3, <1>4, <1>5
<1>8. ibMade' = Len(ibTaken') + BytesHeld' + Len(ibGone'.cleared) + Len(ibGone'.lost)
  <2>1. Len(ibTaken') = Len(ibTaken) /\ Len(ibGone'.cleared) = Len(ibGone.cleared) /\ Len(ibGone'.lost) = Len(lost)
    BY <1>1, <1>6
  <2>2. Len(ibTaken) \in Nat /\ Len(ibGone.cleared) \in Nat /\ Len(ibGone.lost) \in Nat /\ BytesHeld \in Nat
    BY InvUnfolded
  <2>3. ibMade = Len(ibTaken) + Len(ibGone.cleared) + (BytesHeld + Len(ibGone.lost))
    BY <2>2, InvUnfolded
  <2>4. ibMade' = Len(ibTaken) + Len(ibGone.cleared) + (BytesHeld' + Len(lost))
    BY <1>1, <1>7, <2>3
  <2> QED  BY <1>7, <2>1, <2>2, <2>4
<1>9. ibMade' \in Nat /\ ibTaken' \in Seq(Nat)
  BY <1>1, InvUnfolded
<1> QED  BY <1>5, <1>6, <1>8, <1>9, InvFolded

LEMMA SplitKeeps ==
  ASSUME IbInv, NEW b \in IbNames, NEW at \in IbNames, NEW pos \in 0..IbBytes, SplitAt(b, at, pos)
  PROVE  IbInv'
<1> DEFINE data == ibBuffer[b].data
           head == SubSeq(data, 1, pos)
           rest == SubSeq(data, pos + 1, Len(data))
           new  == NewBuffer(IbDefault)
           fits == Room(new, Len(rest))
           x    == [ibBuffer[b] EXCEPT !.data = head]
           y    == IF fits THEN Written(new, rest) ELSE ibBuffer[at]
           lost == IF fits THEN ibGone.lost ELSE ibGone.lost \o rest
<1>0. /\ InOrder(ibBuffer[b]) /\ InOrder(ibBuffer[at]) /\ Count(b) \in Nat /\ ibBuffer[b] \in Buffer
      /\ data \in Seq(Nat) /\ Len(data) = Count(b) /\ ibGone.lost \in Seq(Nat) /\ Len(ibGone.lost) \in Nat
      /\ pos \in Nat
  BY InvUnfolded, IbAssumption DEF Count
<1>1. /\ b # at /\ ibBuffer[at].data = <<>> /\ pos <= Len(data)
      /\ ibBuffer' = [ibBuffer EXCEPT ![b] = x, ![at] = y]
      /\ ibGone' = [ibGone EXCEPT !.lost = lost] /\ ibMade' = ibMade /\ ibTaken' = ibTaken
  BY DEF SplitAt
<1>2. /\ head \in Seq(Nat) /\ Len(head) = pos /\ rest \in Seq(Nat) /\ Len(rest) = Count(b) - pos
      /\ Len(ibBuffer[at].data) = 0 /\ Count(at) = 0
  <2>1. Len(ibBuffer[at].data) = 0 /\ Count(at) = 0
    BY <1>1 DEF Count
  <2> HIDE DEF data
  <2>2. head \in Seq(Nat) /\ Len(head) = pos
    BY <1>0, <1>1, PartOfSequence
  <2>3. rest \in Seq(Nat) /\ Len(rest) = Count(b) - pos
    BY <1>0, <1>1, PartOfSequence
  <2> QED  BY <2>1, <2>2, <2>3
<1>3. InOrder(new) /\ Len(new.data) = 0
  BY IbAssumption DEF InOrder, NewBuffer, Buffer
<1> HIDE DEF head, rest, new, data
<1>4. InOrder(y) /\ Len(y.data) = (IF fits THEN Count(b) - pos ELSE 0)
  BY <1>0, <1>2, <1>3, WrittenInOrder
<1>5. lost \in Seq(Nat) /\ Len(lost) = (IF fits THEN Len(ibGone.lost) ELSE Len(ibGone.lost) + Count(b) - pos)
  BY <1>0, <1>1, <1>2, Joined
<1> HIDE DEF fits, y, lost
<1>6. /\ x \in Buffer /\ x.data = head /\ x.limit = ibBuffer[b].limit /\ x.high = ibBuffer[b].high
      /\ x.written = ibBuffer[b].written /\ x.consumed = ibBuffer[b].consumed
  BY <1>0, <1>2 DEF Buffer
<1> HIDE DEF x
<1>7. InOrder(x) /\ Len(x.data) = pos
  <2>1. /\ ibBuffer[b].limit <= ibBuffer[b].high /\ Count(b) <= ibBuffer[b].high
        /\ ibBuffer[b].consumed + Count(b) <= ibBuffer[b].written
        /\ ibBuffer[b].high \in Nat /\ ibBuffer[b].consumed \in Nat /\ ibBuffer[b].written \in Nat
    BY <1>0 DEF InOrder, Buffer, Count
  <2>2. pos <= Count(b) /\ pos \in Nat /\ Count(b) \in Nat
    BY <1>0, <1>1
  <2>3. pos <= ibBuffer[b].high /\ ibBuffer[b].consumed + pos <= ibBuffer[b].written
    BY <2>1, <2>2
  <2>4. Len(x.data) = pos
    BY <1>2, <1>6
  <2> QED  BY <1>6, <2>1, <2>3, <2>4 DEF InOrder
<1>8. /\ ibBuffer' \in [IbNames -> Buffer] /\ \A c \in IbNames : InOrder(ibBuffer'[c])
      /\ BytesHeld = Count(at) + Count(b) /\ BytesHeld' = Len(x.data) + Len(y.data)
  <2>1. at # b /\ ibBuffer' = [ibBuffer EXCEPT ![b] = x, ![at] = y] /\ InOrder(x) /\ InOrder(y)
    BY <1>1, <1>4, <1>7
  <2> QED  BY <2>1, BothReplaced
<1>9. /\ ibGone' \in [cleared : Seq(Nat), lost : Seq(Nat)]
      /\ ibGone'.cleared = ibGone.cleared /\ ibGone'.lost = lost
  BY <1>1, <1>5, InvUnfolded
<1>10. BytesHeld' + Len(lost) = BytesHeld + Len(ibGone.lost) /\ BytesHeld' \in Nat /\ Len(lost) \in Nat
  BY <1>0, <1>1, <1>2, <1>4, <1>5, <1>7, <1>8
<1>11. ibMade' = Len(ibTaken') + BytesHeld' + Len(ibGone'.cleared) + Len(ibGone'.lost)
  <2>1. Len(ibTaken') = Len(ibTaken) /\ Len(ibGone'.cleared) = Len(ibGone.cleared) /\ Len(ibGone'.lost) = Len(lost)
    BY <1>1, <1>9
  <2>2. Len(ibTaken) \in Nat /\ Len(ibGone.cleared) \in Nat /\ Len(ibGone.lost) \in Nat /\ BytesHeld \in Nat
    BY InvUnfolded
  <2>3. ibMade = Len(ibTaken) + Len(ibGone.cleared) + (BytesHeld + Len(ibGone.lost))
    BY <2>2, InvUnfolded
  <2>4. ibMade' = Len(ibTaken) + Len(ibGone.cleared) + (BytesHeld' + Len(lost))
    BY <1>1, <1>10, <2>3
  <2> QED  BY <1>10, <2>1, <2>2, <2>4
<1>12. ibMade' \in Nat /\ ibTaken' \in Seq(Nat)
  BY <1>1, InvUnfolded
<1> QED  BY <1>8, <1>9, <1>11, <1>12, InvFolded

LEMMA InvSteps == IbInv /\ [IbNext]_ibVars => IbInv'
<1> SUFFICES ASSUME IbInv, [IbNext]_ibVars PROVE IbInv'
  OBVIOUS
<1>1. CASE \E b \in IbNames, n \in 1..2 : Write(b, n) \/ Consume(b, n)
  BY <1>1, WriteKeeps, ConsumeKeeps
<1>2. CASE \E b \in IbNames : ClearBuffer(b)
  BY <1>2, ClearKeeps
<1>3. CASE \E b \in IbNames, limit \in IbLimits : SetCapacityLimit(b, limit)
  BY <1>3, LimitKeeps
<1>4. CASE \E b, from \in IbNames : AppendFrom(b, from)
  BY <1>4, AppendKeeps
<1>5. CASE \E b, at \in IbNames, pos \in 0..IbBytes : SplitAt(b, at, pos)
  BY <1>5, SplitKeeps
<1>6. CASE UNCHANGED ibVars
  <2>1. /\ ibBuffer' = ibBuffer /\ ibMade' = ibMade /\ ibTaken' = ibTaken /\ ibGone' = ibGone
    BY <1>6 DEF ibVars
  <2> QED  BY <2>1 DEF IbInv, IbTypeOK, ByteCount, BytesHeld, Count
<1> QED  BY <1>1, <1>2, <1>3, <1>4, <1>5, <1>6 DEF IbNext

-----------------------------------------------------------------------------
(* Where the bytes are, and in which order.                                 *)

BytesOf(s)  == {s[i] : i \in 1..Len(s)}
Distinct(s) == \A i, j \in 1..Len(s) : s[i] = s[j] => i = j
Rising(s)   == \A i, j \in 1..Len(s) : i < j => s[i] < s[j]

LEMMA JoinedIndexes ==
  ASSUME NEW s \in Seq(Nat), NEW t \in Seq(Nat)
  PROVE  /\ Len(s \o t) = Len(s) + Len(t) /\ Len(s) \in Nat /\ Len(t) \in Nat
         /\ \A i \in 1..Len(s) : (s \o t)[i] = s[i]
         /\ \A i \in 1..Len(t) : (s \o t)[Len(s) + i] = t[i]
OBVIOUS

LEMMA JoinedElements ==
  ASSUME NEW s \in Seq(Nat), NEW t \in Seq(Nat)
  PROVE  /\ BytesOf(s \o t) = BytesOf(s) \cup BytesOf(t)
         /\ Distinct(s) /\ Distinct(t) /\ BytesOf(s) \cap BytesOf(t) = {} => Distinct(s \o t)
         /\ Rising(s) /\ Rising(t) /\ (\A x \in BytesOf(s), y \in BytesOf(t) : x < y) => Rising(s \o t)
<1> DEFINE r == s \o t
           m == Len(s)
           n == Len(t)
<1>1. /\ Len(r) = m + n /\ m \in Nat /\ n \in Nat
      /\ \A i \in 1..m : r[i] = s[i]
      /\ \A i \in 1..n : r[m + i] = t[i]
  BY JoinedIndexes
<1> HIDE DEF r, m, n
<1>2. \A i \in 1..m + n : i \in 1..m \/ \E k \in 1..n : i = m + k
  <2> SUFFICES ASSUME NEW i \in 1..m + n, i \notin 1..m PROVE \E k \in 1..n : i = m + k
    OBVIOUS
  <2>1. i - m \in 1..n /\ i = m + (i - m)
    BY <1>1
  <2> QED BY <2>1
<1>3. \A i \in 1..m : i \in 1..m + n
  BY <1>1
<1>4. \A k \in 1..n : m + k \in 1..m + n
  BY <1>1
<1>5. BytesOf(s) = {s[i] : i \in 1..m} /\ BytesOf(t) = {t[i] : i \in 1..n} /\ BytesOf(r) = {r[i] : i \in 1..m + n}
  BY <1>1 DEF BytesOf, m, n
<1>6. BytesOf(r) = BytesOf(s) \cup BytesOf(t)
  <2>1. ASSUME NEW x \in BytesOf(r) PROVE x \in BytesOf(s) \cup BytesOf(t)
    <3>1. PICK i \in 1..m + n : x = r[i]
      BY <1>5
    <3>2. CASE i \in 1..m
      BY <1>1, <1>5, <3>1, <3>2
    <3>3. ASSUME NEW k \in 1..n, i = m + k PROVE x \in BytesOf(t)
      BY <1>1, <1>5, <3>1, <3>3
    <3> QED BY <1>2, <3>2, <3>3
  <2>2. ASSUME NEW x \in BytesOf(s) PROVE x \in BytesOf(r)
    BY <1>1, <1>3, <1>5
  <2>3. ASSUME NEW x \in BytesOf(t) PROVE x \in BytesOf(r)
    <3>1. PICK k \in 1..n : x = t[k]
      BY <1>5
    <3>2. m + k \in 1..m + n /\ r[m + k] = x
      BY <1>1, <1>4, <3>1
    <3> QED BY <1>5, <3>2
  <2> QED BY <2>1, <2>2, <2>3
<1>7. ASSUME Distinct(s), Distinct(t), BytesOf(s) \cap BytesOf(t) = {} PROVE Distinct(r)
  <2> SUFFICES ASSUME NEW i \in 1..m + n, NEW j \in 1..m + n, r[i] = r[j] PROVE i = j
    BY <1>1 DEF Distinct
  <2>1. CASE i \in 1..m /\ j \in 1..m
    BY <1>1, <1>7, <2>1 DEF Distinct, m
  <2>2. ASSUME NEW k \in 1..n, NEW l \in 1..n, i = m + k, j = m + l PROVE i = j
    <3>1. t[k] = t[l]
      BY <1>1, <2>2
    <3> QED BY <1>7, <2>2, <3>1 DEF Distinct, n
  <2>3. ASSUME NEW a \in 1..m, NEW k \in 1..n, r[a] = r[m + k] PROVE FALSE
    <3>1. s[a] = t[k] /\ s[a] \in BytesOf(s) /\ t[k] \in BytesOf(t)
      BY <1>1, <1>5, <2>3
    <3> QED BY <1>7, <3>1
  <2> QED BY <1>2, <2>1, <2>2, <2>3
<1>8. ASSUME Rising(s), Rising(t), \A x \in BytesOf(s), y \in BytesOf(t) : x < y PROVE Rising(r)
  <2> SUFFICES ASSUME NEW i \in 1..m + n, NEW j \in 1..m + n, i < j PROVE r[i] < r[j]
    BY <1>1 DEF Rising
  <2>1. CASE j \in 1..m
    <3>1. i \in 1..m
      BY <1>1, <2>1
    <3> QED BY <1>1, <1>8, <2>1, <3>1 DEF Rising, m
  <2>2. ASSUME NEW l \in 1..n, j = m + l, i \in 1..m PROVE r[i] < r[j]
    <3>1. r[i] = s[i] /\ r[j] = t[l] /\ s[i] \in BytesOf(s) /\ t[l] \in BytesOf(t)
      BY <1>1, <1>5, <2>2
    <3> QED BY <1>8, <3>1
  <2>3. ASSUME NEW k \in 1..n, NEW l \in 1..n, i = m + k, j = m + l PROVE r[i] < r[j]
    <3>1. k < l /\ r[i] = t[k] /\ r[j] = t[l]
      BY <1>1, <2>3
    <3> QED BY <1>8, <3>1 DEF Rising, n
  <2> QED BY <1>2, <2>1, <2>2, <2>3
<1> QED BY <1>6, <1>7, <1>8 DEF r

LEMMA PartIndexes ==
  ASSUME NEW s \in Seq(Nat), NEW k \in 0..Len(s)
  PROVE  /\ Len(s) \in Nat /\ Len(SubSeq(s, 1, k)) = k /\ Len(SubSeq(s, k + 1, Len(s))) = Len(s) - k
         /\ \A i \in 1..k : SubSeq(s, 1, k)[i] = s[i]
         /\ \A i \in 1..Len(s) - k : SubSeq(s, k + 1, Len(s))[i] = s[k + i]
<1>1. Len(s) \in Nat /\ k \in Nat /\ k <= Len(s)
  OBVIOUS
<1>2. Len(SubSeq(s, 1, k)) = k /\ \A i \in 1..k : SubSeq(s, 1, k)[i] = s[i]
  BY <1>1
<1>3. Len(SubSeq(s, k + 1, Len(s))) = Len(s) - k
  BY <1>1
<1>4. \A i \in 1..Len(s) - k : SubSeq(s, k + 1, Len(s))[i] = s[k + i]
  BY <1>1
<1> QED BY <1>1, <1>2, <1>3, <1>4

LEMMA PartElements ==
  ASSUME NEW s \in Seq(Nat), NEW k \in 0..Len(s)
  PROVE  LET a == SubSeq(s, 1, k)
             b == SubSeq(s, k + 1, Len(s))
         IN  /\ BytesOf(s) = BytesOf(a) \cup BytesOf(b)
             /\ Distinct(s) => Distinct(a) /\ Distinct(b) /\ BytesOf(a) \cap BytesOf(b) = {}
             /\ Rising(s) => Rising(a) /\ Rising(b)
<1> DEFINE a == SubSeq(s, 1, k)
           b == SubSeq(s, k + 1, Len(s))
           n == Len(s)
<1>1. /\ n \in Nat /\ k \in 0..n /\ Len(a) = k /\ Len(b) = n - k
      /\ \A i \in 1..k : a[i] = s[i]
      /\ \A i \in 1..n - k : b[i] = s[k + i]
  BY PartIndexes
<1> HIDE DEF a, b, n
<1>2. \A i \in 1..n : i \in 1..k \/ \E j \in 1..n - k : i = k + j
  <2> SUFFICES ASSUME NEW i \in 1..n, i \notin 1..k PROVE \E j \in 1..n - k : i = k + j
    OBVIOUS
  <2>1. i - k \in 1..n - k /\ i = k + (i - k)
    BY <1>1
  <2> QED BY <2>1
<1>3. (\A i \in 1..k : i \in 1..n) /\ \A j \in 1..n - k : k + j \in 1..n
  BY <1>1
<1>4. BytesOf(s) = {s[i] : i \in 1..n} /\ BytesOf(a) = {a[i] : i \in 1..k} /\ BytesOf(b) = {b[i] : i \in 1..n - k}
  BY <1>1 DEF BytesOf, n
<1>5. BytesOf(s) = BytesOf(a) \cup BytesOf(b)
  <2>1. ASSUME NEW x \in BytesOf(s) PROVE x \in BytesOf(a) \cup BytesOf(b)
    <3>1. PICK i \in 1..n : x = s[i]
      BY <1>4
    <3>2. CASE i \in 1..k
      BY <1>1, <1>4, <3>1, <3>2
    <3>3. ASSUME NEW j \in 1..n - k, i = k + j PROVE x \in BytesOf(b)
      BY <1>1, <1>4, <3>1, <3>3
    <3> QED BY <1>2, <3>2, <3>3
  <2>2. ASSUME NEW x \in BytesOf(a) PROVE x \in BytesOf(s)
    BY <1>1, <1>3, <1>4
  <2>3. ASSUME NEW x \in BytesOf(b) PROVE x \in BytesOf(s)
    <3>1. PICK j \in 1..n - k : x = b[j]
      BY <1>4
    <3>2. k + j \in 1..n /\ s[k + j] = x
      BY <1>1, <1>3, <3>1
    <3> QED BY <1>4, <3>2
  <2> QED BY <2>1, <2>2, <2>3
<1>6. ASSUME Distinct(s) PROVE Distinct(a) /\ Distinct(b) /\ BytesOf(a) \cap BytesOf(b) = {}
  <2>1. \A i, j \in 1..n : s[i] = s[j] => i = j
    BY <1>6 DEF Distinct, n
  <2>2. Distinct(a)
    BY <1>1, <1>3, <2>1 DEF Distinct
  <2>3. Distinct(b)
    <3> SUFFICES ASSUME NEW i \in 1..n - k, NEW j \in 1..n - k, b[i] = b[j] PROVE i = j
      BY <1>1 DEF Distinct
    <3>1. k + i = k + j
      BY <1>1, <1>3, <2>1
    <3> QED BY <1>1, <3>1
  <2>4. ASSUME NEW i \in 1..k, NEW j \in 1..n - k, a[i] = b[j] PROVE FALSE
    <3>1. a[i] = s[i] /\ b[j] = s[k + j]
      BY <1>1
    <3>2. i \in 1..n /\ k + j \in 1..n /\ i < k + j
      BY <1>1
    <3>3. i = k + j
      BY <2>1, <2>4, <3>1, <3>2
    <3> QED BY <3>2, <3>3
  <2> QED BY <1>4, <2>2, <2>3, <2>4
<1>7. ASSUME Rising(s) PROVE Rising(a) /\ Rising(b)
  <2>1. \A i, j \in 1..n : i < j => s[i] < s[j]
    BY <1>7 DEF Rising, n
  <2>2. Rising(a)
    BY <1>1, <1>3, <2>1 DEF Rising
  <2>3. Rising(b)
    <3> SUFFICES ASSUME NEW i \in 1..n - k, NEW j \in 1..n - k, i < j PROVE b[i] < b[j]
      BY <1>1 DEF Rising
    <3>1. k + i < k + j /\ k + i \in 1..n /\ k + j \in 1..n
      BY <1>1, <1>3
    <3> QED BY <1>1, <2>1, <3>1
  <2> QED BY <2>2, <2>3
<1> QED BY <1>5, <1>6, <1>7 DEF a, b

LEMMA NoElements == BytesOf(<<>>) = {} /\ Distinct(<<>>) /\ Rising(<<>>)
<1>1. Len(<<>>) = 0
  OBVIOUS
<1> QED BY <1>1 DEF BytesOf, Distinct, Rising

LEMMA FreshElements ==
  ASSUME NEW n \in Nat, ibMade \in Nat
  PROVE  BytesOf(Fresh(n)) = ibMade + 1..ibMade + n /\ Distinct(Fresh(n)) /\ Rising(Fresh(n))
<1>1. Len(Fresh(n)) = n /\ \A i \in 1..n : Fresh(n)[i] = ibMade + i
  BY FreshBytes DEF Fresh
<1>2. \A x \in ibMade + 1..ibMade + n : x - ibMade \in 1..n /\ x = ibMade + (x - ibMade)
  OBVIOUS
<1>3. \A i \in 1..n : ibMade + i \in ibMade + 1..ibMade + n
  OBVIOUS
<1>4. BytesOf(Fresh(n)) = ibMade + 1..ibMade + n
  BY <1>1, <1>2, <1>3 DEF BytesOf
<1> QED BY <1>1, <1>4 DEF Distinct, Rising

(* The places of all bytes, told of the buffers in either order: every byte  *)
(* is somewhere, none is held twice, and a buffer that got none behind      *)
(* younger ones is in order.                                               *)
Placed(b, c) ==
  /\ BytesOf(ibTaken) \cup BytesOf(ibBuffer[b].data) \cup BytesOf(ibBuffer[c].data)
       \cup BytesOf(ibGone.cleared) \cup BytesOf(ibGone.lost) = 1..ibMade
  /\ BytesOf(ibBuffer[b].data) \cap BytesOf(ibBuffer[c].data) = {}
  /\ Distinct(ibBuffer[b].data) /\ Distinct(ibBuffer[c].data)
  /\ ~ibMixed => Rising(ibBuffer[b].data) /\ Rising(ibBuffer[c].data)

LEMMA PlacedEither ==
  ASSUME NEW b, NEW c, Placed(b, c)
  PROVE  Placed(c, b)
BY DEF Placed

LEMMA PlacedTyped ==
  ASSUME IbInv, NEW b \in IbNames
  PROVE  /\ ibBuffer \in [IbNames -> Buffer] /\ ibBuffer[b] \in Buffer /\ ibBuffer[b].data \in Seq(Nat)
         /\ ibTaken \in Seq(Nat) /\ ibGone.cleared \in Seq(Nat) /\ ibGone.lost \in Seq(Nat) /\ ibMade \in Nat
         /\ Len(ibBuffer[b].data) \in Nat /\ ibGone = [cleared |-> ibGone.cleared, lost |-> ibGone.lost]
BY InvUnfolded DEF Count

(* Taking, clearing or losing bytes of a buffer, and keeping the rest.       *)
LEMMA WritePlaces ==
  ASSUME IbInv, NEW b \in IbNames, NEW c \in IbNames, b # c, Placed(b, c), NEW n \in 1..2, Write(b, n)
  PROVE  Placed(b, c)'
<1> DEFINE s == ibBuffer[b].data
           t == ibBuffer[c].data
           new == s \o Fresh(n)
<1>1. s \in Seq(Nat) /\ t \in Seq(Nat) /\ ibMade \in Nat /\ n \in Nat /\ Fresh(n) \in Seq(Nat)
  <2>1. s \in Seq(Nat) /\ t \in Seq(Nat) /\ ibMade \in Nat
    BY PlacedTyped
  <2>2. n \in Nat
    OBVIOUS
  <2> QED BY <2>1, <2>2, FreshBytes
<1>2. ibBuffer'[b].data = new /\ ibBuffer'[c].data = t
  <2>1. ibBuffer' = [ibBuffer EXCEPT ![b] = Written(ibBuffer[b], Fresh(n))]
    BY DEF Write
  <2>2. Written(ibBuffer[b], Fresh(n)).data = new
    BY PlacedTyped DEF Written, Buffer
  <2> QED BY <2>1, <2>2, PlacedTyped
<1>3. ibMade' = ibMade + n /\ ibTaken' = ibTaken /\ ibGone' = ibGone /\ ibMixed' = ibMixed
  BY DEF Write
<1>4. /\ BytesOf(ibTaken) \cup BytesOf(s) \cup BytesOf(t) \cup BytesOf(ibGone.cleared) \cup BytesOf(ibGone.lost) = 1..ibMade
      /\ BytesOf(s) \cap BytesOf(t) = {} /\ Distinct(s) /\ Distinct(t) /\ (~ibMixed => Rising(s) /\ Rising(t))
  BY DEF Placed
<1>5. BytesOf(Fresh(n)) = ibMade + 1..ibMade + n /\ Distinct(Fresh(n)) /\ Rising(Fresh(n))
  BY <1>1, FreshElements
<1>6. \A x \in 1..ibMade, y \in ibMade + 1..ibMade + n : x < y
  BY <1>1
<1> HIDE DEF s, t
<1>7. BytesOf(s) \cap BytesOf(Fresh(n)) = {} /\ BytesOf(t) \cap BytesOf(Fresh(n)) = {}
      /\ \A x \in BytesOf(s), y \in BytesOf(Fresh(n)) : x < y
  <2>1. BytesOf(s) \subseteq 1..ibMade /\ BytesOf(t) \subseteq 1..ibMade
    BY <1>4
  <2>2. (1..ibMade) \cap (ibMade + 1..ibMade + n) = {}
    BY <1>1
  <2> QED BY <1>5, <1>6, <2>1, <2>2
<1>8. /\ BytesOf(new) = BytesOf(s) \cup BytesOf(Fresh(n)) /\ Distinct(new)
      /\ ~ibMixed => Rising(new)
  BY <1>1, <1>4, <1>5, <1>7, JoinedElements
<1> HIDE DEF new
<1>9. 1..ibMade + n = (1..ibMade) \cup (ibMade + 1..ibMade + n)
  BY <1>1
<1> DEFINE before == 1..ibMade
           fresh  == ibMade + 1..ibMade + n
<1>10. BytesOf(new) = BytesOf(s) \cup fresh /\ 1..ibMade' = before \cup fresh /\ BytesOf(t) \cap fresh = {}
       /\ BytesOf(ibTaken) \cup BytesOf(s) \cup BytesOf(t) \cup BytesOf(ibGone.cleared) \cup BytesOf(ibGone.lost) = before
  BY <1>3, <1>4, <1>5, <1>7, <1>8, <1>9
<1> HIDE DEF before, fresh
<1>11. /\ BytesOf(ibTaken) \cup BytesOf(new) \cup BytesOf(t) \cup BytesOf(ibGone.cleared) \cup BytesOf(ibGone.lost) = 1..ibMade'
       /\ BytesOf(new) \cap BytesOf(t) = {}
  BY <1>4, <1>10
<1> QED BY <1>2, <1>3, <1>4, <1>8, <1>11 DEF Placed

(* Bytes that leave buffer b for one of the histories.                      *)
LEMMA ConsumePlaces ==
  ASSUME IbInv, NEW b \in IbNames, NEW c \in IbNames, b # c, Placed(b, c), NEW n \in 1..2, Consume(b, n)
  PROVE  Placed(b, c)'
<1> DEFINE s == ibBuffer[b].data
           t == ibBuffer[c].data
           k == IF n < Len(s) THEN n ELSE Len(s)
           old == SubSeq(s, 1, k)
           new == SubSeq(s, k + 1, Len(s))
<1>1. s \in Seq(Nat) /\ t \in Seq(Nat) /\ ibTaken \in Seq(Nat) /\ k \in 0..Len(s) /\ Len(s) \in Nat
  BY PlacedTyped
<1> HIDE DEF k
<1>2. ibBuffer'[b].data = new /\ ibBuffer'[c].data = t
  <2>1. ibBuffer' = [ibBuffer EXCEPT ![b] = Drawn(ibBuffer[b], k)]
    BY DEF Consume, k
  <2>2. Drawn(ibBuffer[b], k).data = new
    BY PlacedTyped DEF Drawn, Buffer
  <2> QED BY <2>1, <2>2, PlacedTyped
<1>3. ibMade' = ibMade /\ ibTaken' = ibTaken \o old /\ ibGone' = ibGone /\ ibMixed' = ibMixed
  BY DEF Consume, k
<1>4. /\ BytesOf(ibTaken) \cup BytesOf(s) \cup BytesOf(t) \cup BytesOf(ibGone.cleared) \cup BytesOf(ibGone.lost) = 1..ibMade
      /\ BytesOf(s) \cap BytesOf(t) = {} /\ Distinct(s) /\ Distinct(t) /\ (~ibMixed => Rising(s) /\ Rising(t))
  BY DEF Placed
<1> HIDE DEF s, t
<1>5. old \in Seq(Nat)
  BY <1>1, PartOfSequence
<1>6. /\ BytesOf(s) = BytesOf(old) \cup BytesOf(new)
      /\ Distinct(s) => Distinct(new)
      /\ Rising(s) => Rising(new)
  BY <1>1, PartElements
<1> HIDE DEF old, new
<1>7. BytesOf(ibTaken \o old) = BytesOf(ibTaken) \cup BytesOf(old)
  BY <1>1, <1>5, JoinedElements
<1>8. /\ BytesOf(ibTaken \o old) \cup BytesOf(new) \cup BytesOf(t) \cup BytesOf(ibGone.cleared) \cup BytesOf(ibGone.lost) = 1..ibMade
      /\ BytesOf(new) \cap BytesOf(t) = {}
  BY <1>4, <1>6, <1>7
<1> QED BY <1>2, <1>3, <1>4, <1>6, <1>8 DEF Placed

LEMMA ClearPlaces ==
  ASSUME IbInv, NEW b \in IbNames, NEW c \in IbNames, b # c, Placed(b, c), ClearBuffer(b)
  PROVE  Placed(b, c)'
<1> DEFINE s == ibBuffer[b].data
           t == ibBuffer[c].data
           gone == ibGone.cleared
<1>1. s \in Seq(Nat) /\ t \in Seq(Nat) /\ gone \in Seq(Nat)
  BY PlacedTyped
<1>2. ibBuffer'[b].data = <<>> /\ ibBuffer'[c].data = t
  BY PlacedTyped DEF ClearBuffer, Buffer
<1>3. ibMade' = ibMade /\ ibTaken' = ibTaken /\ ibMixed' = ibMixed
      /\ ibGone'.cleared = gone \o s /\ ibGone'.lost = ibGone.lost
  BY PlacedTyped DEF ClearBuffer
<1>4. /\ BytesOf(ibTaken) \cup BytesOf(s) \cup BytesOf(t) \cup BytesOf(gone) \cup BytesOf(ibGone.lost) = 1..ibMade
      /\ Distinct(t) /\ (~ibMixed => Rising(t))
  BY DEF Placed
<1> HIDE DEF s, t, gone
<1>5. BytesOf(gone \o s) = BytesOf(gone) \cup BytesOf(s)
  BY <1>1, JoinedElements
<1>6. BytesOf(ibTaken) \cup BytesOf(<<>>) \cup BytesOf(t) \cup BytesOf(gone \o s) \cup BytesOf(ibGone.lost) = 1..ibMade
  BY <1>4, <1>5, NoElements
<1> QED BY <1>2, <1>3, <1>4, <1>6, NoElements DEF Placed

LEMMA LimitPlaces ==
  ASSUME IbInv, NEW b \in IbNames, NEW c \in IbNames, b # c, Placed(b, c),
         NEW limit \in IbLimits, SetCapacityLimit(b, limit)
  PROVE  Placed(b, c)'
<1>1. ibBuffer'[b].data = ibBuffer[b].data /\ ibBuffer'[c].data = ibBuffer[c].data
  BY PlacedTyped DEF SetCapacityLimit, Buffer
<1>2. ibMade' = ibMade /\ ibTaken' = ibTaken /\ ibMixed' = ibMixed /\ ibGone' = ibGone
  BY DEF SetCapacityLimit
<1> QED BY <1>1, <1>2 DEF Placed

LEMMA AppendPlaces ==
  ASSUME IbInv, NEW b \in IbNames, NEW c \in IbNames, b # c, Placed(b, c), AppendFrom(b, c)
  PROVE  Placed(b, c)'
<1> DEFINE s == ibBuffer[b].data
           t == ibBuffer[c].data
           room == Room(ibBuffer[b], Len(t))
           behind == s # <<>> /\ t # <<>> /\ s[Len(s)] > t[1]
<1>1. s \in Seq(Nat) /\ t \in Seq(Nat) /\ ibGone.lost \in Seq(Nat) /\ Len(t) \in Nat /\ Len(s) \in Nat
  BY PlacedTyped
<1>2. ibBuffer'[b].data = (IF room THEN s \o t ELSE s) /\ ibBuffer'[c].data = SubSeq(t, Len(t) + 1, Len(t))
  <2>1. ibBuffer' = [ibBuffer EXCEPT ![c] = Drawn(ibBuffer[c], Len(t)),
                                     ![b] = IF room THEN Written(ibBuffer[b], t) ELSE ibBuffer[b]]
    BY DEF AppendFrom
  <2>2. Drawn(ibBuffer[c], Len(t)).data = SubSeq(t, Len(t) + 1, Len(t)) /\ Written(ibBuffer[b], t).data = s \o t
    BY PlacedTyped DEF Drawn, Written, Buffer
  <2>3. ibBuffer'[c] = Drawn(ibBuffer[c], Len(t)) /\ ibBuffer'[b] = IF room THEN Written(ibBuffer[b], t) ELSE ibBuffer[b]
    BY <2>1, PlacedTyped
  <2> QED BY <2>2, <2>3
<1>3. /\ ibMade' = ibMade /\ ibTaken' = ibTaken /\ ibMixed' = (ibMixed \/ (room /\ behind))
      /\ ibGone'.cleared = ibGone.cleared
      /\ ibGone'.lost = (IF room THEN ibGone.lost ELSE ibGone.lost \o t)
  BY PlacedTyped DEF AppendFrom
<1>4. /\ BytesOf(ibTaken) \cup BytesOf(s) \cup BytesOf(t) \cup BytesOf(ibGone.cleared) \cup BytesOf(ibGone.lost) = 1..ibMade
      /\ BytesOf(s) \cap BytesOf(t) = {} /\ Distinct(s) /\ Distinct(t) /\ (~ibMixed => Rising(s) /\ Rising(t))
  BY DEF Placed
<1> HIDE DEF s, t, room
<1>5. SubSeq(t, Len(t) + 1, Len(t)) = <<>>
  BY <1>1
<1>6. BytesOf(s \o t) = BytesOf(s) \cup BytesOf(t) /\ Distinct(s \o t) /\ BytesOf(ibGone.lost \o t) = BytesOf(ibGone.lost) \cup BytesOf(t)
  BY <1>1, <1>4, JoinedElements
<1>7. ASSUME ~ibMixed, ~behind PROVE Rising(s \o t)
  <2>1. \A x \in BytesOf(s), y \in BytesOf(t) : x < y
    <3> SUFFICES ASSUME NEW i \in 1..Len(s), NEW j \in 1..Len(t) PROVE s[i] < t[j]
      BY DEF BytesOf
    <3>1. Len(s) \in 1..Len(s) /\ 1 \in 1..Len(t) /\ s # <<>> /\ t # <<>>
      BY <1>1
    <3>2. s[Len(s)] \in Nat /\ t[1] \in Nat /\ s[i] \in Nat /\ t[j] \in Nat
      <4>1. \A q \in Seq(Nat) : \A m \in 1..Len(q) : q[m] \in Nat
        OBVIOUS
      <4> QED BY <1>1, <3>1, <4>1
    <3>3. s[Len(s)] # t[1]
      <4>1. s[Len(s)] \in BytesOf(s) /\ t[1] \in BytesOf(t)
        BY <3>1 DEF BytesOf
      <4> QED BY <1>4, <4>1
    <3>4. s[Len(s)] < t[1]
      BY <1>7, <3>1, <3>2, <3>3
    <3>5. s[i] <= s[Len(s)]
      <4>1. i = Len(s) \/ i < Len(s)
        BY <1>1
      <4> QED BY <1>4, <1>7, <3>1, <3>2, <4>1 DEF Rising
    <3>6. t[1] <= t[j]
      <4>1. j = 1 \/ 1 < j
        BY <1>1
      <4> QED BY <1>4, <1>7, <3>1, <3>2, <4>1 DEF Rising
    <3> QED BY <3>2, <3>4, <3>5, <3>6
  <2> QED BY <1>1, <1>4, <1>7, <2>1, JoinedElements
<1> HIDE DEF behind
<1>8. CASE room
  <2>1. BytesOf(ibTaken) \cup BytesOf(s \o t) \cup BytesOf(<<>>) \cup BytesOf(ibGone.cleared) \cup BytesOf(ibGone.lost) = 1..ibMade
    BY <1>4, <1>6, NoElements
  <2> QED BY <1>2, <1>3, <1>5, <1>6, <1>7, <1>8, <2>1, NoElements DEF Placed
<1>9. CASE ~room
  <2>1. BytesOf(ibTaken) \cup BytesOf(s) \cup BytesOf(<<>>) \cup BytesOf(ibGone.cleared) \cup BytesOf(ibGone.lost \o t) = 1..ibMade
    BY <1>4, <1>6, NoElements
  <2> QED BY <1>2, <1>3, <1>4, <1>5, <1>9, <2>1, NoElements DEF Placed
<1> QED BY <1>8, <1>9

LEMMA SplitPlaces ==
  ASSUME IbInv, NEW b \in IbNames, NEW c \in IbNames, b # c, Placed(b, c),
         NEW pos \in 0..IbBytes, SplitAt(b, c, pos)
  PROVE  Placed(b, c)'
<1> DEFINE s == ibBuffer[b].data
           head == SubSeq(s, 1, pos)
           rest == SubSeq(s, pos + 1, Len(s))
           new  == NewBuffer(IbDefault)
           fits == Room(new, Len(rest))
<1>1. s \in Seq(Nat) /\ Len(s) \in Nat /\ ibGone.lost \in Seq(Nat) /\ pos \in 0..Len(s) /\ ibBuffer[c].data = <<>>
  <2>1. pos <= Len(s) /\ ibBuffer[c].data = <<>>
    BY DEF SplitAt
  <2> QED BY <2>1, PlacedTyped
<1>2. rest \in Seq(Nat)
  BY <1>1, PartOfSequence
<1>3. ibBuffer'[b].data = head /\ ibBuffer'[c].data = (IF fits THEN <<>> \o rest ELSE <<>>)
  <2>1. /\ ibBuffer'[b] = [ibBuffer[b] EXCEPT !.data = head]
        /\ ibBuffer'[c] = IF fits THEN Written(new, rest) ELSE ibBuffer[c]
    BY PlacedTyped DEF SplitAt
  <2>2. Written(new, rest).data = <<>> \o rest
    BY DEF Written, NewBuffer
  <2>3. [ibBuffer[b] EXCEPT !.data = head].data = head
    BY PlacedTyped DEF Buffer
  <2> QED BY <1>1, <2>1, <2>2, <2>3
<1>4. /\ ibMade' = ibMade /\ ibTaken' = ibTaken /\ ibMixed' = ibMixed /\ ibGone'.cleared = ibGone.cleared
      /\ ibGone'.lost = (IF fits THEN ibGone.lost ELSE ibGone.lost \o rest)
  BY PlacedTyped DEF SplitAt
<1>5. /\ BytesOf(ibTaken) \cup BytesOf(s) \cup BytesOf(<<>>) \cup BytesOf(ibGone.cleared) \cup BytesOf(ibGone.lost) = 1..ibMade
      /\ Distinct(s) /\ (~ibMixed => Rising(s))
  BY <1>1 DEF Placed
<1> HIDE DEF s, fits
<1>6. /\ BytesOf(s) = BytesOf(head) \cup BytesOf(rest)
      /\ Distinct(s) => Distinct(head) /\ Distinct(rest) /\ BytesOf(head) \cap BytesOf(rest) = {}
      /\ Rising(s) => Rising(head) /\ Rising(rest)
  BY <1>1, PartElements
<1> HIDE DEF head, rest
<1>7. <<>> \o rest = rest /\ BytesOf(ibGone.lost \o rest) = BytesOf(ibGone.lost) \cup BytesOf(rest)
  BY <1>1, <1>2, JoinedElements
<1>8. CASE fits
  <2>1. BytesOf(ibTaken) \cup BytesOf(head) \cup BytesOf(rest) \cup BytesOf(ibGone.cleared) \cup BytesOf(ibGone.lost) = 1..ibMade
    BY <1>5, <1>6, NoElements
  <2> QED BY <1>3, <1>4, <1>5, <1>6, <1>7, <1>8, <2>1 DEF Placed
<1>9. CASE ~fits
  <2>1. BytesOf(ibTaken) \cup BytesOf(head) \cup BytesOf(<<>>) \cup BytesOf(ibGone.cleared) \cup BytesOf(ibGone.lost \o rest) = 1..ibMade
    BY <1>5, <1>6, <1>7, NoElements
  <2> QED BY <1>3, <1>4, <1>5, <1>6, <1>9, <2>1, NoElements DEF Placed
<1> QED BY <1>8, <1>9

PlaceInv == Placed("head", "tail")

LEMMA PlaceOther ==
  ASSUME NEW b \in IbNames, PlaceInv
  PROVE  \E c \in IbNames : b # c /\ Placed(b, c)
<1>1. "head" \in IbNames /\ "tail" \in IbNames /\ "head" # "tail" /\ (b = "head" \/ b = "tail")
  BY DEF IbNames
<1>2. Placed("head", "tail") /\ Placed("tail", "head")
  BY PlacedEither DEF PlaceInv
<1> QED BY <1>1, <1>2

LEMMA PlaceFolded ==
  ASSUME NEW b \in IbNames, NEW c \in IbNames, b # c, Placed(b, c)'
  PROVE  PlaceInv'
<1>1. (b = "head" /\ c = "tail") \/ (b = "tail" /\ c = "head")
  BY DEF IbNames
<1>2. Placed(b, c)' => Placed(c, b)'
  BY DEF Placed
<1> QED BY <1>1, <1>2 DEF PlaceInv

LEMMA PlaceBegins == IbInit => PlaceInv
<1> SUFFICES ASSUME IbInit PROVE PlaceInv
  OBVIOUS
<1>1. ibBuffer["head"].data = <<>> /\ ibBuffer["tail"].data = <<>>
  BY DEF IbInit, NewBuffer, IbNames
<1>2. ibMade = 0 /\ ibTaken = <<>> /\ ibGone.cleared = <<>> /\ ibGone.lost = <<>>
  BY DEF IbInit
<1>3. 1..0 = {}
  OBVIOUS
<1> QED BY <1>1, <1>2, <1>3, NoElements DEF PlaceInv, Placed

LEMMA PlaceSteps == IbInv /\ PlaceInv /\ [IbNext]_ibVars => PlaceInv'
<1> SUFFICES ASSUME IbInv, PlaceInv, [IbNext]_ibVars PROVE PlaceInv'
  OBVIOUS
<1>1. ASSUME NEW b \in IbNames, NEW n \in 1..2, Write(b, n) \/ Consume(b, n) PROVE PlaceInv'
  BY <1>1, PlaceOther, PlaceFolded, WritePlaces, ConsumePlaces
<1>2. ASSUME NEW b \in IbNames, ClearBuffer(b) PROVE PlaceInv'
  BY <1>2, PlaceOther, PlaceFolded, ClearPlaces
<1>3. ASSUME NEW b \in IbNames, NEW limit \in IbLimits, SetCapacityLimit(b, limit) PROVE PlaceInv'
  BY <1>3, PlaceOther, PlaceFolded, LimitPlaces
<1>4. ASSUME NEW b \in IbNames, NEW from \in IbNames, AppendFrom(b, from) PROVE PlaceInv'
  <2>1. b # from
    BY <1>4 DEF AppendFrom
  <2>2. Placed(b, from)
    BY <2>1, PlaceOther DEF IbNames
  <2> QED BY <1>4, <2>1, <2>2, PlaceFolded, AppendPlaces
<1>5. ASSUME NEW b \in IbNames, NEW at \in IbNames, NEW pos \in 0..IbBytes, SplitAt(b, at, pos) PROVE PlaceInv'
  <2>1. b # at
    BY <1>5 DEF SplitAt
  <2>2. Placed(b, at)
    BY <2>1, PlaceOther DEF IbNames
  <2> QED BY <1>5, <2>1, <2>2, PlaceFolded, SplitPlaces
<1>6. CASE UNCHANGED ibVars
  BY <1>6 DEF ibVars, PlaceInv, Placed
<1> QED BY <1>1, <1>2, <1>3, <1>4, <1>5, <1>6 DEF IbNext

LEMMA PlacesHold == IbInv /\ PlaceInv => BufferFaithful
<1> SUFFICES ASSUME IbInv, PlaceInv PROVE BufferFaithful
  OBVIOUS
<1>1. \A b \in IbNames : ibBuffer[b].data \in Seq(Nat) /\ DOMAIN ibBuffer[b].data = 1..Len(ibBuffer[b].data)
  BY PlacedTyped
<1>2. /\ ibTaken \in Seq(Nat) /\ ibGone.cleared \in Seq(Nat) /\ ibGone.lost \in Seq(Nat)
  BY PlacedTyped DEF IbNames
<1>3. BytesKept
  <2>1. ASSUME NEW k \in 1..ibMade PROVE \E p \in DOMAIN Places : \E i \in DOMAIN Places[p] : Places[p][i] = k
    <3>1. k \in BytesOf(ibTaken) \/ k \in BytesOf(ibBuffer["head"].data) \/ k \in BytesOf(ibBuffer["tail"].data)
          \/ k \in BytesOf(ibGone.cleared) \/ k \in BytesOf(ibGone.lost)
      BY DEF PlaceInv, Placed
    <3>2. ASSUME NEW p \in 1..5, Places[p] \in Seq(Nat), k \in BytesOf(Places[p])
          PROVE  \E q \in DOMAIN Places : \E i \in DOMAIN Places[q] : Places[q][i] = k
      <4>1. DOMAIN Places = 1..5
        BY DEF Places
      <4>2. DOMAIN Places[p] = 1..Len(Places[p])
        BY <3>2
      <4> QED BY <3>2, <4>1, <4>2 DEF BytesOf
    <3>3. /\ Places[1] = ibTaken /\ Places[2] = ibBuffer["head"].data /\ Places[3] = ibBuffer["tail"].data
          /\ Places[4] = ibGone.cleared /\ Places[5] = ibGone.lost
      BY DEF Places
    <3>4. "head" \in IbNames /\ "tail" \in IbNames /\ 1 \in 1..5 /\ 2 \in 1..5 /\ 3 \in 1..5 /\ 4 \in 1..5 /\ 5 \in 1..5
      BY DEF IbNames
    <3> HIDE DEF Places
    <3> QED BY <1>1, <1>2, <3>1, <3>2, <3>3, <3>4
  <2> QED BY <2>1 DEF BytesKept, IbInv
<1>4. \A b \in IbNames : StatsHold(b)
  BY DEF IbInv, InOrder, StatsHold
<1>5. OrderKept
  <2>1. ~ibMixed => \A b \in IbNames : Rising(ibBuffer[b].data)
    BY DEF PlaceInv, Placed, IbNames
  <2> QED BY <1>1, <2>1 DEF OrderKept, Rising
<1> QED BY <1>3, <1>4, <1>5 DEF BufferFaithful

=============================================================================
