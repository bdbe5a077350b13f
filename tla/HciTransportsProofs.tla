------------------------ MODULE HciTransportsProofs ------------------------
(***************************************************************************)
(* Proofs about HciTransports, for any packets, any cut of the bytes into  *)
(* reads and writes, and any number of packets: both transports implement  *)
(* PacketLink (but for its fairness), no read or write goes beyond the     *)
(* buffer it is for, and packets go out whole and in order.                *)
(*                                                                         *)
(* Receiving, the argument is about one stream of bytes: all the packets   *)
(* the controller has sent, one behind the other.  Where the reader is in  *)
(* it tells what the packetizer holds, and the wire holds what follows.    *)
(***************************************************************************)
EXTENDS HciTransports, SequenceTheorems, WellFoundedInduction, TLAPS

Byte == 0..(ByteMod - 1)
Carries == {ACL_DATA, SCO_DATA, EVENT}

(***************************************************************************)
(* The stream.  An f bytes long frame (the type byte of H4, or nothing)    *)
(* precedes each packet; start[i] bytes precede packet i and its frame.    *)
(***************************************************************************)
Laid(stream, start, packets, f) ==
    /\ stream \in Seq(Byte)
    /\ start \in [1..(Len(packets) + 1) -> 0..Len(stream)]
    /\ start[1] = 0 /\ start[Len(packets) + 1] = Len(stream)
    /\ \A i \in 1..Len(packets) :
        /\ start[i + 1] = start[i] + f + Len(packets[i].data)
        /\ f = 1 => stream[start[i] + 1] = packets[i].type
        /\ \A j \in 1..Len(packets[i].data) : stream[start[i] + f + j] = packets[i].data[j]

\* The wire holds the stream from pos on, to its end as long as the line is up.
OnWire(stream, pos, bytes, isUp) ==
    /\ pos \in 0..Len(stream) /\ bytes \in Seq(Byte)
    /\ pos + Len(bytes) <= Len(stream)
    /\ \A j \in 1..Len(bytes) : bytes[j] = stream[pos + j]
    /\ isUp => pos + Len(bytes) = Len(stream)

\* A packetizer that has read r bytes of a packet.
HasRead(p, type, data, r) ==
    \/ /\ r \in 0..(PreambleSize[type] - 1)
       /\ p = [NewPacketizer EXCEPT !.preamble = SubSeq(data, 1, r)]
    \/ /\ r \in PreambleSize[type]..Len(data)
       /\ r < Len(data) \/ r = PreambleSize[type]
       /\ p = [state |-> "payload", preamble |-> SubSeq(data, 1, PreambleSize[type]),
               packet |-> SubSeq(data, 1, r), remaining |-> Len(data) - r]

\* The first packets of a sequence.
Starts(first, all) ==
    Len(first) <= Len(all) /\ \A i \in 1..Len(first) : first[i] = all[i]

LEMMA Sizes ==
  /\ ACL_DATA = 2 /\ SCO_DATA = 3 /\ EVENT = 4 /\ UNKNOWN = 0
  /\ PreambleSize[ACL_DATA] = 4 /\ PreambleSize[SCO_DATA] = 3 /\ PreambleSize[EVENT] = 2
  /\ LengthOffset[ACL_DATA] = 2 /\ LengthOffset[SCO_DATA] = 2 /\ LengthOffset[EVENT] = 1
BY DEF ACL_DATA, SCO_DATA, EVENT, UNKNOWN, COMMAND, PreambleSize, LengthOffset

LEMMA PacketFields ==
  ASSUME NEW p \in Packets
  PROVE  /\ p.type \in Carries /\ p.data \in Seq(Byte)
         /\ p = [type |-> p.type, data |-> p.data]
         /\ PreambleSize[p.type] \in Nat \ {0} /\ Len(p.data) >= PreambleSize[p.type]
<1>1. p \in [type : Carries, data : Seq(Byte)] /\ WellFormed(p)
  BY PacketsAssumption DEF Carries, Byte
<1>2. PreambleSize[p.type] \in Nat \ {0}
  BY <1>1, Sizes DEF Carries
<1> QED BY <1>1, <1>2 DEF WellFormed

\* The two bytes of an ACL length are put together as the controller took them apart.
LEMMA LengthIsRight ==
  ASSUME NEW p \in Packets
  PROVE  PayloadLength(p.type, SubSeq(p.data, 1, PreambleSize[p.type]))
            = Len(p.data) - PreambleSize[p.type]
<1> DEFINE size == PreambleSize[p.type]
           head == SubSeq(p.data, 1, size)
<1>1. p.type \in Carries /\ p.data \in Seq(Byte) /\ size \in Nat \ {0} /\ Len(p.data) >= size
  BY PacketFields
<1>2. \A i \in 1..size : head[i] = p.data[i]
  BY <1>1
<1>3. WellFormed(p)
  BY PacketsAssumption
<1>4. \A i \in 1..Len(p.data) : p.data[i] \in Int
  BY <1>1, ByteModAssumption DEF Byte
<1>5. CASE p.type = EVENT
  <2>1. head[2] = p.data[2] /\ size = 2
    BY <1>2, <1>5, Sizes
  <2> QED BY <1>3, <1>5, <2>1, Sizes DEF WellFormed, PayloadLength
<1>6. CASE p.type = SCO_DATA
  <2>1. head[3] = p.data[3] /\ size = 3
    BY <1>2, <1>6, Sizes
  <2> QED BY <1>3, <1>6, <2>1, Sizes DEF WellFormed, PayloadLength
<1>7. CASE p.type = ACL_DATA
  <2>1. head[3] = p.data[3] /\ head[4] = p.data[4] /\ size = 4
    BY <1>2, <1>7, Sizes
  <2>2. p.data[3] \in Int /\ p.data[4] \in Int
    BY <1>1, <1>4, <2>1
  <2>3. Len(p.data) - 4 = p.data[3] + ByteMod * p.data[4]
    BY <1>3, <1>7, <2>1, Sizes DEF WellFormed
  <2>4. PayloadLength(p.type, head) = head[4] * ByteMod + head[3]
    BY <1>7, Sizes DEF PayloadLength
  <2>5. ByteMod * p.data[4] = p.data[4] * ByteMod
    BY <2>2, ByteModAssumption
  <2>6. p.data[4] * ByteMod \in Int
    BY <2>2, ByteModAssumption
  <2> QED BY <2>1, <2>2, <2>3, <2>4, <2>5, <2>6
<1> QED BY <1>1, <1>5, <1>6, <1>7 DEF Carries

\* A packet that the controller sends goes behind the others.
Longer(longer, starts, stream, start, packets, f, p) ==
    /\ Laid(longer, starts, Append(packets, p), f)
    /\ \A i \in 1..(Len(packets) + 1) : starts[i] = start[i]
    /\ Len(longer) = Len(stream) + f + Len(p.data)
    /\ \A i \in 1..Len(stream) : longer[i] = stream[i]
    /\ f = 1 => longer[Len(stream) + 1] = p.type
    /\ \A j \in 1..Len(p.data) : longer[Len(stream) + f + j] = p.data[j]

LEMMA StreamGrows ==
  ASSUME NEW stream, NEW start, NEW packets \in Seq(Packets), NEW f \in {0, 1},
         Laid(stream, start, packets, f), NEW p \in Packets
  PROVE  \E longer, starts : Longer(longer, starts, stream, start, packets, f, p)
<1>f. f \in Nat
  OBVIOUS
<1>1. PICK n \in Nat, m \in Nat, k \in Nat :
        n = Len(stream) /\ m = Len(p.data) /\ k = Len(packets)
  <2>1. stream \in Seq(Byte) /\ p.data \in Seq(Byte)
    BY PacketFields DEF Laid
  <2>2. Len(stream) \in Nat /\ Len(p.data) \in Nat /\ Len(packets) \in Nat
    BY <2>1
  <2> QED BY <2>2
<1>2. p.type \in Byte /\ p.data \in [1..m -> Byte] /\ stream \in [1..n -> Byte]
  <2>1. p.type \in Carries /\ p.data \in Seq(Byte) /\ stream \in Seq(Byte)
    BY PacketFields DEF Laid
  <2>2. p.type \in Byte
    BY <2>1, ByteModAssumption, Sizes DEF Byte, Carries
  <2>3. p.data \in [1..m -> Byte] /\ stream \in [1..n -> Byte]
    BY <1>1, <2>1
  <2> QED BY <2>2, <2>3
<1>3. start \in [1..(k + 1) -> 0..n] /\ start[1] = 0 /\ start[k + 1] = n
  BY <1>1 DEF Laid
<1> DEFINE longer == [i \in 1..(n + f + m) |-> IF i <= n THEN stream[i]
                                               ELSE IF i <= n + f THEN p.type ELSE p.data[i - n - f]]
           starts == [i \in 1..(k + 2) |-> IF i <= k + 1 THEN start[i] ELSE n + f + m]
<1>4. longer \in Seq(Byte) /\ Len(longer) = n + f + m
  <2>1. ASSUME NEW i \in 1..(n + f + m) PROVE longer[i] \in Byte
    BY <1>2
  <2>2. n + f + m \in Nat
    OBVIOUS
  <2>3. longer \in [1..(n + f + m) -> Byte]
    BY <2>1
  <2> HIDE DEF longer
  <2> QED BY <2>2, <2>3
<1>5. /\ \A i \in 1..n : longer[i] = stream[i]
      /\ f = 1 => longer[n + 1] = p.type
      /\ \A j \in 1..m : longer[n + f + j] = p.data[j]
  <2>1. ASSUME NEW j \in 1..m PROVE longer[n + f + j] = p.data[j]
    <3>1. n + f + j \in 1..(n + f + m) /\ ~(n + f + j <= n) /\ ~(n + f + j <= n + f)
      BY <1>f
    <3>2. n + f + j - n - f = j
      BY <1>f
    <3> QED BY <3>1, <3>2
  <2> QED BY <2>1
<1>6. starts \in [1..(k + 2) -> 0..(n + f + m)]
  BY <1>3
<1>7. \A i \in 1..(k + 1) : starts[i] = start[i]
  OBVIOUS
<1>8. starts[k + 2] = n + f + m /\ starts[k + 1] = n /\ starts[1] = 0
  BY <1>3
<1> HIDE DEF longer, starts
<1>9. PICK all : all = Append(packets, p)
  OBVIOUS
<1>10. Len(all) = k + 1 /\ all[k + 1] = p /\ \A i \in 1..k : all[i] = packets[i]
  BY <1>1, <1>9
<1>11. ASSUME NEW i \in 1..(k + 1)
       PROVE  /\ starts[i + 1] = starts[i] + f + Len(all[i].data)
              /\ f = 1 => longer[starts[i] + 1] = all[i].type
              /\ \A j \in 1..Len(all[i].data) : longer[starts[i] + f + j] = all[i].data[j]
  <2>1. CASE i = k + 1
    BY <1>1, <1>5, <1>8, <1>10, <2>1
  <2>2. CASE i # k + 1
    <3>1. i \in 1..k /\ i + 1 \in 1..(k + 1)
      BY <2>2
    <3>2. all[i] = packets[i] /\ starts[i] = start[i] /\ starts[i + 1] = start[i + 1]
      BY <1>7, <1>10, <3>1
    <3>3. /\ start[i + 1] = start[i] + f + Len(packets[i].data)
          /\ f = 1 => stream[start[i] + 1] = packets[i].type
          /\ \A j \in 1..Len(packets[i].data) : stream[start[i] + f + j] = packets[i].data[j]
      BY <1>1, <3>1 DEF Laid
    <3>4. start[i] \in 0..n /\ start[i + 1] \in 0..n
      BY <1>3, <3>1
    <3>5. Len(packets[i].data) \in Nat
      BY <1>1, <3>1, PacketFields
    <3>6. PICK l \in Nat, at \in Nat : l = Len(packets[i].data) /\ at = start[i]
      BY <3>4, <3>5
    <3>7. at + f + l <= n
      BY <3>3, <3>4, <3>6
    <3>8. /\ f = 1 => at + 1 \in 1..n
          /\ \A j \in 1..l : at + f + j \in 1..n
      <4>1. f = 1 => at + 1 \in 1..n
        BY <3>7
      <4>2. ASSUME NEW j \in 1..l PROVE at + f + j \in 1..n
        BY <1>f, <3>7
      <4> QED BY <4>1, <4>2
    <3>9. starts[i + 1] = starts[i] + f + Len(all[i].data)
      BY <3>2, <3>3
    <3>10. f = 1 => longer[starts[i] + 1] = all[i].type
      BY <1>5, <3>2, <3>3, <3>6, <3>8
    <3>11. ASSUME NEW j \in 1..l PROVE longer[at + f + j] = all[i].data[j]
      <4>1. stream[at + f + j] = packets[i].data[j]
        BY <3>3, <3>6
      <4>2. longer[at + f + j] = stream[at + f + j]
        BY <1>5, <3>8
      <4> QED BY <3>2, <4>1, <4>2
    <3> QED BY <3>2, <3>6, <3>9, <3>10, <3>11
  <2> QED BY <2>1, <2>2
<1>12. Laid(longer, starts, all, f)
  <2>1. k + 2 = Len(all) + 1 /\ k + 1 = Len(all)
    BY <1>10
  <2>2. starts \in [1..(Len(all) + 1) -> 0..Len(longer)]
    BY <1>4, <1>6, <2>1
  <2>3. starts[1] = 0 /\ starts[Len(all) + 1] = Len(longer)
    BY <1>4, <1>8, <2>1
  <2>4. \A i \in 1..Len(all) :
          /\ starts[i + 1] = starts[i] + f + Len(all[i].data)
          /\ f = 1 => longer[starts[i] + 1] = all[i].type
          /\ \A j \in 1..Len(all[i].data) : longer[starts[i] + f + j] = all[i].data[j]
    <3>1. TAKE i \in 1..Len(all)
    <3>2. i \in 1..(k + 1)
      BY <2>1
    <3> QED BY <1>11, <3>2
  <2> QED BY <1>4, <2>2, <2>3, <2>4 DEF Laid
<1>13. Longer(longer, starts, stream, start, packets, f, p)
  BY <1>1, <1>4, <1>5, <1>7, <1>9, <1>12 DEF Longer
<1> QED BY <1>13

(***************************************************************************)
(* The wire.                                                               *)
(***************************************************************************)
\* The controller's bytes come behind those that have not been read.
LEMMA WireGrows ==
  ASSUME NEW stream, NEW pos, NEW wired, OnWire(stream, pos, wired, TRUE),
         stream \in Seq(Byte), NEW longer \in Seq(Byte), NEW bytes \in Seq(Byte),
         Len(longer) = Len(stream) + Len(bytes),
         \A i \in 1..Len(stream) : longer[i] = stream[i],
         \A i \in 1..Len(bytes) : longer[Len(stream) + i] = bytes[i]
  PROVE  OnWire(longer, pos, wired \o bytes, TRUE)
<1>1. wired \in Seq(Byte)
  BY DEF OnWire
<1>2. PICK n \in Nat, m \in Nat, k \in Nat : n = Len(stream) /\ m = Len(bytes) /\ k = Len(wired)
  <2>1. Len(stream) \in Nat /\ Len(bytes) \in Nat /\ Len(wired) \in Nat
    BY <1>1
  <2> QED BY <2>1
<1>3. PICK all : all = wired \o bytes
  OBVIOUS
<1>4. /\ all \in Seq(Byte) /\ Len(all) = k + m
      /\ \A i \in 1..(k + m) : all[i] = IF i <= k THEN wired[i] ELSE bytes[i - k]
  BY <1>1, <1>2, <1>3
<1>5. pos \in 0..n /\ pos + k = n
  BY <1>2 DEF OnWire
<1>6. ASSUME NEW i \in 1..(k + m) PROVE all[i] = longer[pos + i]
  <2>1. CASE i <= k
    <3>1. pos + i \in 1..n
      BY <1>5, <2>1
    <3>2. wired[i] = stream[pos + i]
      BY <1>2, <2>1 DEF OnWire
    <3> QED BY <1>2, <1>4, <2>1, <3>1, <3>2
  <2>2. CASE ~(i <= k)
    <3>1. i - k \in 1..m /\ n + (i - k) = pos + i
      BY <1>5, <2>2
    <3>2. longer[n + (i - k)] = bytes[i - k]
      BY <1>2, <3>1
    <3> QED BY <1>4, <2>2, <3>1, <3>2
  <2> QED BY <2>1, <2>2
<1>7. pos \in 0..Len(longer) /\ pos + Len(all) = Len(longer)
  <2>1. Len(longer) = n + m /\ Len(all) = k + m
    BY <1>2, <1>4
  <2>2. pos \in 0..(n + m) /\ pos + (k + m) = n + m
    BY <1>5
  <2> QED BY <2>1, <2>2
<1>8. \A i \in 1..Len(all) : all[i] = longer[pos + i]
  BY <1>4, <1>6
<1> HIDE DEF OnWire
<1> QED BY <1>3, <1>4, <1>7, <1>8 DEF OnWire

\* A line that breaks may lose bytes at its end.
LEMMA WireCut ==
  ASSUME NEW stream, NEW pos, NEW wired, NEW isUp, OnWire(stream, pos, wired, isUp),
         stream \in Seq(Byte), NEW n \in 0..Len(wired)
  PROVE  OnWire(stream, pos, SubSeq(wired, 1, n), FALSE)
<1>1. wired \in Seq(Byte) /\ Len(wired) \in Nat /\ Len(stream) \in Nat
  BY DEF OnWire
<1>2. PICK rest : rest = SubSeq(wired, 1, n)
  OBVIOUS
<1>3. rest \in Seq(Byte) /\ Len(rest) = n /\ \A i \in 1..n : rest[i] = wired[i]
  BY <1>1, <1>2
<1>4. pos + Len(rest) <= Len(stream)
  BY <1>1, <1>3 DEF OnWire
<1>5. \A i \in 1..Len(rest) : rest[i] = stream[pos + i]
  BY <1>1, <1>3 DEF OnWire
<1> QED BY <1>2, <1>3, <1>4, <1>5 DEF OnWire

\* A read takes bytes off the start of the wire.
LEMMA WireRead ==
  ASSUME NEW stream, NEW pos, NEW wired, NEW isUp, OnWire(stream, pos, wired, isUp),
         stream \in Seq(Byte), NEW n \in 1..Len(wired)
  PROVE  /\ OnWire(stream, pos + n, SubSeq(wired, n + 1, Len(wired)), isUp)
         /\ SubSeq(wired, 1, n) \in Seq(Byte) /\ Len(SubSeq(wired, 1, n)) = n
         /\ \A i \in 1..n : SubSeq(wired, 1, n)[i] = stream[pos + i]
<1>1. PICK m \in Nat, k \in Nat : m = Len(wired) /\ k = Len(stream)
  <2>1. Len(wired) \in Nat /\ Len(stream) \in Nat
    BY DEF OnWire
  <2> QED BY <2>1
<1>2. wired \in Seq(Byte) /\ pos \in 0..k /\ pos + m <= k /\ (isUp => pos + m = k)
  BY <1>1 DEF OnWire
<1>3. \A i \in 1..m : wired[i] = stream[pos + i]
  BY <1>1 DEF OnWire
<1>4. PICK rest : rest = SubSeq(wired, n + 1, m)
  OBVIOUS
<1>5. rest \in Seq(Byte) /\ Len(rest) = m - n /\ \A i \in 1..(m - n) : rest[i] = wired[n + i]
  BY <1>1, <1>2, <1>4
<1>6. ASSUME NEW i \in 1..(m - n) PROVE rest[i] = stream[(pos + n) + i]
  <2>1. n + i \in 1..m /\ pos + (n + i) = (pos + n) + i
    BY <1>1, <1>2
  <2> QED BY <1>3, <1>5, <2>1
<1>7. OnWire(stream, pos + n, rest, isUp)
  <2>1. pos + n \in 0..k /\ pos + n + (m - n) <= k /\ (isUp => pos + n + (m - n) = k)
    BY <1>1, <1>2
  <2> QED BY <1>1, <1>5, <1>6, <2>1 DEF OnWire
<1>8. /\ SubSeq(wired, 1, n) \in Seq(Byte) /\ Len(SubSeq(wired, 1, n)) = n
      /\ \A i \in 1..n : SubSeq(wired, 1, n)[i] = wired[i]
  BY <1>1, <1>2
<1> QED BY <1>1, <1>3, <1>4, <1>7, <1>8

(***************************************************************************)
(* The packetizer.                                                         *)
(***************************************************************************)
\* It never reads beyond its buffers, and wants no byte of the next packet.
LEMMA ReadInBounds ==
  ASSUME NEW q \in Packets, NEW p, NEW r, HasRead(p, q.type, q.data, r)
  PROVE  /\ PacketizerOK(p, q.type)
         /\ r \in 0..Len(q.data) /\ Wanted(p, q.type) \in 0..(Len(q.data) - r)
         /\ Len(q.data) > PreambleSize[q.type] => Wanted(p, q.type) # 0
<1>1. PICK size \in Nat \ {0}, m \in Nat : size = PreambleSize[q.type] /\ m = Len(q.data) /\ m >= size
  <2>1. q.data \in Seq(Byte) /\ PreambleSize[q.type] \in Nat \ {0} /\ Len(q.data) >= PreambleSize[q.type]
    BY PacketFields
  <2>2. Len(q.data) \in Nat
    BY <2>1
  <2> QED BY <2>1, <2>2
<1>2. q.data \in Seq(Byte)
  BY PacketFields
<1>3. CASE r \in 0..(size - 1) /\ p = [NewPacketizer EXCEPT !.preamble = SubSeq(q.data, 1, r)]
  <2>1. p.state = "preamble" /\ p.preamble = SubSeq(q.data, 1, r)
    BY <1>3 DEF NewPacketizer
  <2>2. Len(p.preamble) = r
    BY <1>1, <1>2, <1>3, <2>1
  <2>3. PacketizerOK(p, q.type)
    BY <1>1, <1>3, <2>1, <2>2 DEF PacketizerOK
  <2>4. Wanted(p, q.type) = size - r
    BY <1>1, <2>1, <2>2 DEF Wanted
  <2> QED BY <1>1, <1>3, <2>3, <2>4
<1>4. CASE /\ r \in size..m /\ (r < m \/ r = size)
           /\ p = [state |-> "payload", preamble |-> SubSeq(q.data, 1, size),
                   packet |-> SubSeq(q.data, 1, r), remaining |-> m - r]
  <2>1. /\ p.state = "payload" /\ p.preamble = SubSeq(q.data, 1, size)
        /\ p.packet = SubSeq(q.data, 1, r) /\ p.remaining = m - r
    BY <1>4
  <2>2. Len(p.preamble) = size /\ Len(p.packet) = r
    BY <1>1, <1>2, <1>4, <2>1
  <2>3. PayloadLength(q.type, p.preamble) = m - size
    BY <1>1, <2>1, LengthIsRight
  <2>4. Len(p.packet) + p.remaining = Len(p.preamble) + PayloadLength(q.type, p.preamble)
    <3>1. Len(p.packet) + p.remaining = r + (m - r)
      BY <2>1, <2>2
    <3>2. Len(p.preamble) + PayloadLength(q.type, p.preamble) = size + (m - size)
      BY <2>2, <2>3
    <3>3. r + (m - r) = m /\ size + (m - size) = m
      BY <1>4
    <3> QED BY <3>1, <3>2, <3>3
  <2>5. PacketizerOK(p, q.type)
    BY <1>1, <2>1, <2>2, <2>4 DEF PacketizerOK
  <2>6. Wanted(p, q.type) = m - r
    BY <2>1 DEF Wanted
  <2> QED BY <1>1, <1>4, <2>5, <2>6
<1> QED BY <1>1, <1>3, <1>4 DEF HasRead

\* What it makes of bytes of the packet.
LEMMA PacketizerReads ==
  ASSUME NEW q \in Packets, NEW p, NEW r, HasRead(p, q.type, q.data, r),
         NEW bytes \in Seq(Byte), Len(bytes) \in 1..Wanted(p, q.type),
         \A i \in 1..Len(bytes) : bytes[i] = q.data[r + i]
  PROVE  IF Completes(p, bytes)
         THEN /\ r + Len(bytes) = Len(q.data) /\ Completed(p, bytes) = q.data
              /\ AfterRead(p, q.type, bytes) = NewPacketizer
         ELSE HasRead(AfterRead(p, q.type, bytes), q.type, q.data, r + Len(bytes))
<1>1. PICK size \in Nat \ {0}, m \in Nat : size = PreambleSize[q.type] /\ m = Len(q.data) /\ m >= size
  <2>1. q.data \in Seq(Byte) /\ PreambleSize[q.type] \in Nat \ {0} /\ Len(q.data) >= PreambleSize[q.type]
    BY PacketFields
  <2>2. Len(q.data) \in Nat
    BY <2>1
  <2> QED BY <2>1, <2>2
<1>2. q.data \in Seq(Byte)
  BY PacketFields
<1>3. PICK n \in Nat \ {0} : n = Len(bytes) /\ n <= Wanted(p, q.type)
  <2>1. Wanted(p, q.type) \in Nat
    <3>1. Wanted(p, q.type) \in 0..(m - r) /\ r \in 0..m
      BY <1>1, ReadInBounds
    <3> QED BY <3>1
  <2> QED BY <2>1
<1>4. ASSUME r \in 0..m, r + n <= m
      PROVE  SubSeq(q.data, 1, r) \o bytes = SubSeq(q.data, 1, r + n)
  <2>1. PICK a, b : a = SubSeq(q.data, 1, r) /\ b = SubSeq(q.data, 1, r + n)
    OBVIOUS
  <2>2. /\ a \in Seq(Byte) /\ Len(a) = r /\ \A i \in 1..r : a[i] = q.data[i]
        /\ b \in Seq(Byte) /\ Len(b) = r + n /\ \A i \in 1..(r + n) : b[i] = q.data[i]
    BY <1>1, <1>2, <1>3, <1>4, <2>1
  <2>3. a \o bytes \in Seq(Byte) /\ Len(a \o bytes) = r + n
    BY <1>3, <2>2
  <2>4. ASSUME NEW i \in 1..(r + n) PROVE (a \o bytes)[i] = b[i]
    <3>1. CASE i <= r
      BY <2>2, <3>1
    <3>2. CASE ~(i <= r)
      <4>1. (a \o bytes)[i] = bytes[i - r]
        <5>1. bytes \in Seq(Byte) /\ Len(bytes) = n /\ r \in Nat /\ r < i
          BY <1>3, <1>4, <3>2
        <5>2. i \in 1..(Len(a) + Len(bytes)) /\ i > Len(a)
          BY <2>2, <5>1
        <5> QED BY <2>2, <5>1, <5>2, ConcatProperties
      <4>2. i - r \in 1..n /\ r + (i - r) = i
        BY <1>4, <3>2
      <4> QED BY <1>3, <2>2, <4>1, <4>2
    <3> QED BY <3>1, <3>2
  <2> QED BY <2>1, <2>2, <2>3, <2>4, SeqEqual
<1>5. CASE r \in 0..(size - 1) /\ p = [NewPacketizer EXCEPT !.preamble = SubSeq(q.data, 1, r)]
  <2>1. p.state = "preamble" /\ p.preamble = SubSeq(q.data, 1, r) /\ ~Completes(p, bytes)
    BY <1>5 DEF NewPacketizer, Completes
  <2>2. Len(p.preamble) = r
    BY <1>1, <1>2, <1>5, <2>1
  <2>3. r + n <= size
    BY <1>1, <1>3, <1>5, <2>1, <2>2 DEF Wanted
  <2>4. p.preamble \o bytes = SubSeq(q.data, 1, r + n)
    BY <1>1, <1>4, <1>5, <2>1, <2>3
  <2>5. Len(p.preamble \o bytes) = r + n
    BY <1>1, <1>2, <1>5, <2>3, <2>4
  <2>6. CASE r + n < size
    <3>1. AfterRead(p, q.type, bytes) = [NewPacketizer EXCEPT !.preamble = SubSeq(q.data, 1, r + n)]
      <4>1. AfterRead(p, q.type, bytes) = [p EXCEPT !.preamble = SubSeq(q.data, 1, r + n)]
        BY <1>1, <2>1, <2>4, <2>5, <2>6 DEF AfterRead, AfterPreamble
      <4> QED BY <1>5, <4>1 DEF NewPacketizer
    <3>2. r + n \in 0..(size - 1)
      BY <1>3, <1>5, <2>6
    <3>3. HasRead(AfterRead(p, q.type, bytes), q.type, q.data, r + n)
      BY <1>1, <3>1, <3>2 DEF HasRead
    <3> QED BY <1>3, <2>1, <3>3
  <2>7. CASE r + n = size
    <3>1. AfterRead(p, q.type, bytes)
            = [state |-> "payload", preamble |-> SubSeq(q.data, 1, size),
               packet |-> SubSeq(q.data, 1, size), remaining |-> m - size]
      <4>1. PayloadLength(q.type, SubSeq(q.data, 1, size)) = m - size
        BY <1>1, LengthIsRight
      <4>2. p.preamble \o bytes = SubSeq(q.data, 1, size) /\ ~(Len(p.preamble \o bytes) < size)
        BY <2>4, <2>5, <2>7
      <4> QED BY <1>1, <2>1, <4>1, <4>2 DEF AfterRead, AfterPreamble
    <3>2. size \in size..m
      BY <1>1
    <3>3. HasRead(AfterRead(p, q.type, bytes), q.type, q.data, size)
      BY <1>1, <3>1, <3>2 DEF HasRead
    <3> QED BY <1>3, <2>1, <2>7, <3>3
  <2> QED BY <1>1, <1>3, <1>5, <2>3, <2>6, <2>7
<1>6. CASE /\ r \in size..m /\ (r < m \/ r = size)
           /\ p = [state |-> "payload", preamble |-> SubSeq(q.data, 1, size),
                   packet |-> SubSeq(q.data, 1, r), remaining |-> m - r]
  <2>1. /\ p.state = "payload" /\ p.preamble = SubSeq(q.data, 1, size)
        /\ p.packet = SubSeq(q.data, 1, r) /\ p.remaining = m - r
    BY <1>6
  <2>2. r + n <= m
    BY <1>3, <1>6, <2>1 DEF Wanted
  <2>3. p.packet \o bytes = SubSeq(q.data, 1, r + n)
    <3>1. r \in 0..m
      BY <1>6
    <3> QED BY <1>4, <2>1, <2>2, <3>1
  <2>4. CASE r + n = m
    <3>1. Completes(p, bytes) /\ ~(p.remaining > Len(bytes))
      BY <1>3, <1>6, <2>1, <2>4 DEF Completes
    <3>2. Completed(p, bytes) = q.data
      <4>1. SubSeq(q.data, 1, m) = q.data
        BY <1>1, <1>2, SubSeqFull
      <4> QED BY <2>3, <2>4, <4>1 DEF Completed
    <3>3. AfterRead(p, q.type, bytes) = NewPacketizer
      BY <2>1, <3>1 DEF AfterRead, AfterPayload
    <3> QED BY <1>1, <1>3, <2>4, <3>1, <3>2, <3>3
  <2>5. CASE r + n < m
    <3>1. ~Completes(p, bytes) /\ p.remaining > Len(bytes)
      BY <1>3, <1>6, <2>1, <2>5 DEF Completes
    <3>2. AfterRead(p, q.type, bytes)
            = [state |-> "payload", preamble |-> SubSeq(q.data, 1, size),
               packet |-> SubSeq(q.data, 1, r + n), remaining |-> m - (r + n)]
      <4>1. AfterRead(p, q.type, bytes)
              = [p EXCEPT !.packet = SubSeq(q.data, 1, r + n), !.remaining = m - r - n]
        BY <1>3, <2>1, <2>3, <3>1 DEF AfterRead, AfterPayload
      <4>2. m - r - n = m - (r + n)
        BY <1>6
      <4> QED BY <1>6, <4>1, <4>2
    <3>3. r + n \in size..m /\ r + n < m
      BY <1>1, <1>3, <1>6, <2>5
    <3> QED BY <1>1, <1>3, <3>1, <3>2, <3>3 DEF HasRead
  <2> QED BY <1>6, <2>2, <2>4, <2>5
<1> QED BY <1>1, <1>5, <1>6 DEF HasRead

\* It starts with nothing.
LEMMA NothingRead ==
  ASSUME NEW q \in Packets
  PROVE  HasRead(NewPacketizer, q.type, q.data, 0)
<1>1. q.data \in Seq(Byte) /\ PreambleSize[q.type] \in Nat \ {0}
  BY PacketFields
<1>2. SubSeq(q.data, 1, 0) = <<>>
  BY <1>1, SubSeqEmpty
<1>3. NewPacketizer = [NewPacketizer EXCEPT !.preamble = SubSeq(q.data, 1, 0)]
  BY <1>2 DEF NewPacketizer
<1>4. 0 \in 0..(PreambleSize[q.type] - 1)
  BY <1>1
<1> HIDE DEF NewPacketizer
<1> QED BY <1>3, <1>4 DEF HasRead

(***************************************************************************)
(* A step of a receiving transport: d packets are delivered, and the       *)
(* packetizer has read r bytes of the next.                                *)
(***************************************************************************)
Behind(longer, starts, start, packets, f, p, pos, wired) ==
    /\ Laid(longer, starts, Append(packets, p), f)
    /\ \A i \in 1..(Len(packets) + 1) : starts[i] = start[i]
    /\ f = 0 => OnWire(longer, pos, wired \o p.data, TRUE)
    /\ f = 1 => OnWire(longer, pos, wired \o <<p.type>> \o p.data, TRUE)

LEMMA MoreIsSent ==
  ASSUME NEW stream, NEW start, NEW packets \in Seq(Packets), NEW f \in {0, 1},
         Laid(stream, start, packets, f), NEW p \in Packets,
         NEW pos, NEW wired, OnWire(stream, pos, wired, TRUE)
  PROVE  \E longer, starts : Behind(longer, starts, start, packets, f, p, pos, wired)
<1>0. PICK longer, starts : Longer(longer, starts, stream, start, packets, f, p)
  BY StreamGrows
<1>1. /\ Laid(longer, starts, Append(packets, p), f)
      /\ \A i \in 1..(Len(packets) + 1) : starts[i] = start[i]
      /\ Len(longer) = Len(stream) + f + Len(p.data)
      /\ \A i \in 1..Len(stream) : longer[i] = stream[i]
      /\ f = 1 => longer[Len(stream) + 1] = p.type
      /\ \A j \in 1..Len(p.data) : longer[Len(stream) + f + j] = p.data[j]
  BY <1>0 DEF Longer
<1>2. stream \in Seq(Byte) /\ longer \in Seq(Byte) /\ wired \in Seq(Byte)
  BY <1>1 DEF Laid, OnWire
<1>3. p.data \in Seq(Byte) /\ p.type \in Byte
  BY PacketFields, ByteModAssumption, Sizes DEF Byte, Carries
<1>4. PICK n \in Nat, m \in Nat : n = Len(stream) /\ m = Len(p.data)
  <2>1. Len(stream) \in Nat /\ Len(p.data) \in Nat
    BY <1>2, <1>3
  <2> QED BY <2>1
<1>5. CASE f = 0
  <2>1. Len(longer) = Len(stream) + Len(p.data)
    BY <1>1, <1>4, <1>5
  <2>2. \A j \in 1..Len(p.data) : longer[Len(stream) + j] = p.data[j]
    BY <1>1, <1>4, <1>5
  <2>3. OnWire(longer, pos, wired \o p.data, TRUE)
    BY <1>1, <1>2, <1>3, <2>1, <2>2, WireGrows
  <2>4. f # 1
    BY <1>5
  <2>5. Behind(longer, starts, start, packets, f, p, pos, wired)
    BY <1>1, <2>3, <2>4, Zenon DEF Behind
  <2> QED BY <2>5
<1>6. CASE f = 1
  <2>1. PICK framed : framed = <<p.type>> \o p.data
    OBVIOUS
  <2>2. <<p.type>> \in Seq(Byte) /\ Len(<<p.type>>) = 1 /\ <<p.type>>[1] = p.type
    BY <1>3
  <2>3. framed \in Seq(Byte) /\ Len(framed) = 1 + m
    BY <1>3, <1>4, <2>1, <2>2
  <2>4. framed[1] = p.type /\ \A j \in 1..m : framed[j + 1] = p.data[j]
    BY <1>3, <1>4, <2>1, <2>2
  <2>5. Len(longer) = Len(stream) + Len(framed)
    <3>1. Len(longer) = n + 1 + m
      BY <1>1, <1>4, <1>6
    <3>2. n + 1 + m = n + (1 + m)
      OBVIOUS
    <3> QED BY <1>4, <2>3, <3>1, <3>2
  <2>6. ASSUME NEW j \in 1..Len(framed) PROVE longer[Len(stream) + j] = framed[j]
    <3>1. CASE j = 1
      BY <1>1, <1>6, <2>4, <3>1
    <3>2. CASE j # 1
      <4>1. j - 1 \in 1..m /\ (j - 1) + 1 = j /\ n + 1 + (j - 1) = n + j
        BY <1>4, <2>3, <3>2
      <4>2. longer[n + 1 + (j - 1)] = p.data[j - 1]
        BY <1>1, <1>4, <1>6, <4>1
      <4> QED BY <1>4, <2>4, <4>1, <4>2
    <3> QED BY <3>1, <3>2
  <2>7. OnWire(longer, pos, wired \o framed, TRUE)
    BY <1>1, <1>2, <2>3, <2>5, <2>6, WireGrows
  <2>8. wired \o <<p.type>> \o p.data = wired \o framed
    <3>1. PICK t \in Seq(Byte) : t = <<p.type>>
      BY <2>2
    <3>2. (wired \o t) \o p.data = wired \o (t \o p.data)
      <4>1. PICK data \in Seq(Byte) : data = p.data
        BY <1>3
      <4>2. (wired \o t) \o data = wired \o (t \o data)
        BY <1>2, <3>1, ConcatAssociative
      <4> QED BY <4>1, <4>2
    <3> QED BY <2>1, <3>1, <3>2
  <2>9. f # 0
    BY <1>6
  <2>10. OnWire(longer, pos, wired \o <<p.type>> \o p.data, TRUE)
    BY <2>7, <2>8
  <2>11. Behind(longer, starts, start, packets, f, p, pos, wired)
    BY <1>1, <2>9, <2>10, Zenon DEF Behind
  <2> QED BY <2>11
<1> QED BY <1>5, <1>6

\* Where bytes are on the wire there is a packet that is not delivered.
LEMMA SomeAreMissing ==
  ASSUME NEW stream, NEW start, NEW packets \in Seq(Packets), NEW f \in {0, 1},
         Laid(stream, start, packets, f), NEW d \in 0..Len(packets),
         NEW wired, wired # <<>>, NEW isUp, OnWire(stream, start[d + 1], wired, isUp)
  PROVE  d < Len(packets)
<1> SUFFICES ASSUME d = Len(packets) PROVE FALSE
  OBVIOUS
<1>1. start[d + 1] = Len(stream) /\ wired \in Seq(Byte) /\ stream \in Seq(Byte)
  BY DEF Laid, OnWire
<1>2. Len(stream) + Len(wired) <= Len(stream) /\ Len(stream) \in Nat /\ Len(wired) \in Nat
  BY <1>1 DEF OnWire
<1>3. Len(wired) = 0
  BY <1>2
<1> QED BY <1>1, <1>3

LEMMA BytesAreRead ==
  ASSUME NEW stream, NEW start, NEW packets \in Seq(Packets), NEW f \in {0, 1},
         Laid(stream, start, packets, f), NEW d \in 0..(Len(packets) - 1),
         NEW p, NEW r, HasRead(p, packets[d + 1].type, packets[d + 1].data, r),
         NEW wired, NEW isUp, OnWire(stream, start[d + 1] + f + r, wired, isUp),
         NEW n \in 1..Wanted(p, packets[d + 1].type), n <= Len(wired)
  PROVE  /\ Completes(p, SubSeq(wired, 1, n)) =>
              /\ Completed(p, SubSeq(wired, 1, n)) = packets[d + 1].data
              /\ AfterRead(p, packets[d + 1].type, SubSeq(wired, 1, n)) = NewPacketizer
              /\ OnWire(stream, start[d + 2], SubSeq(wired, n + 1, Len(wired)), isUp)
         /\ ~Completes(p, SubSeq(wired, 1, n)) =>
              /\ HasRead(AfterRead(p, packets[d + 1].type, SubSeq(wired, 1, n)),
                         packets[d + 1].type, packets[d + 1].data, r + n)
              /\ OnWire(stream, start[d + 1] + f + (r + n),
                        SubSeq(wired, n + 1, Len(wired)), isUp)
<1>1. PICK q \in Packets : q = packets[d + 1]
  OBVIOUS
<1>2. q.data \in Seq(Byte) /\ stream \in Seq(Byte) /\ wired \in Seq(Byte)
  BY PacketFields DEF Laid, OnWire
<1>3. PICK m \in Nat, k \in Nat, l \in Nat : m = Len(q.data) /\ k = Len(wired) /\ l = Len(stream)
  <2>1. Len(q.data) \in Nat /\ Len(wired) \in Nat /\ Len(stream) \in Nat
    BY <1>2
  <2> QED BY <2>1
<1>4. r \in 0..m /\ Wanted(p, q.type) \in 0..(m - r)
  BY <1>1, <1>3, ReadInBounds
<1>5. n \in Nat \ {0} /\ r + n <= m /\ n \in 1..k
  BY <1>1, <1>3, <1>4
<1>6. PICK here \in Nat : here = start[d + 1]
  <2>1. d + 1 \in 1..(Len(packets) + 1) /\ start \in [1..(Len(packets) + 1) -> 0..l]
    BY <1>3 DEF Laid
  <2> QED BY <2>1
<1>7. /\ start[d + 2] = here + f + m
      /\ \A j \in 1..m : stream[here + f + j] = q.data[j]
  <2>1. d + 1 \in 1..Len(packets) /\ d + 2 = (d + 1) + 1
    OBVIOUS
  <2>2. /\ start[(d + 1) + 1] = start[d + 1] + f + Len(packets[d + 1].data)
        /\ \A j \in 1..Len(packets[d + 1].data) :
              stream[start[d + 1] + f + j] = packets[d + 1].data[j]
    BY <2>1 DEF Laid
  <2> QED BY <1>1, <1>3, <1>6, <2>1, <2>2
<1>8. PICK bytes, rest : bytes = SubSeq(wired, 1, n) /\ rest = SubSeq(wired, n + 1, Len(wired))
  OBVIOUS
<1>9. /\ OnWire(stream, here + f + r + n, rest, isUp)
      /\ bytes \in Seq(Byte) /\ Len(bytes) = n
      /\ \A i \in 1..n : bytes[i] = stream[here + f + r + i]
  <2>1. PICK pos : pos = here + f + r
    OBVIOUS
  <2>2. OnWire(stream, pos, wired, isUp) /\ n \in 1..Len(wired)
    BY <1>3, <1>5, <1>6, <2>1
  <2>3. /\ OnWire(stream, pos + n, SubSeq(wired, n + 1, Len(wired)), isUp)
        /\ SubSeq(wired, 1, n) \in Seq(Byte) /\ Len(SubSeq(wired, 1, n)) = n
        /\ \A i \in 1..n : SubSeq(wired, 1, n)[i] = stream[pos + i]
    BY <1>2, <2>2, WireRead
  <2> QED BY <1>8, <2>1, <2>3
<1>10. \A i \in 1..n : bytes[i] = q.data[r + i]
  <2>1. TAKE i \in 1..n
  <2>2. r + i \in 1..m
    BY <1>4, <1>5
  <2>3. here + f + r + i = here + f + (r + i)
    BY <1>4
  <2> QED BY <1>7, <1>9, <2>2, <2>3
<1>11. Len(bytes) \in 1..Wanted(p, q.type)
  BY <1>1, <1>9
<1>12. IF Completes(p, bytes)
       THEN /\ r + n = m /\ Completed(p, bytes) = q.data
            /\ AfterRead(p, q.type, bytes) = NewPacketizer
       ELSE HasRead(AfterRead(p, q.type, bytes), q.type, q.data, r + n)
  BY <1>1, <1>3, <1>9, <1>10, <1>11, PacketizerReads
<1>f. f \in Nat
  OBVIOUS
<1>13. here + f + r + n = here + f + (r + n)
  BY <1>f, <1>4, <1>5, <1>6
<1>14. r + n = m => here + f + (r + n) = start[d + 2]
  BY <1>f, <1>6, <1>7
<1> QED BY <1>1, <1>6, <1>8, <1>9, <1>12, <1>13, <1>14

LEMMA NothingIsSent ==
  ASSUME NEW f \in {0, 1}
  PROVE  \E stream, start : /\ Laid(stream, start, <<>>, f)
                            /\ OnWire(stream, start[1], <<>>, TRUE)
<1>1. PICK stream, start : stream = <<>> /\ start = [i \in 1..1 |-> 0]
  OBVIOUS
<1>2. stream \in Seq(Byte) /\ <<>> \in Seq(Byte) /\ Len(stream) = 0 /\ Len(<<>>) = 0 /\ start[1] = 0
  BY <1>1
<1>3. start \in [1..1 -> 0..0]
  BY <1>1
<1>4. Laid(stream, start, <<>>, f)
  BY <1>2, <1>3 DEF Laid
<1>5. OnWire(stream, start[1], <<>>, TRUE)
  BY <1>2 DEF OnWire
<1> QED BY <1>4, <1>5

\* More is sent, or the next packet is delivered.
LEMMA StillStarts ==
  ASSUME NEW first \in Seq(Packets), NEW all \in Seq(Packets), Starts(first, all), NEW p \in Packets
  PROVE  /\ Starts(first, Append(all, p))
         /\ Len(first) < Len(all) => Starts(Append(first, all[Len(first) + 1]), all)
<1>1. PICK d \in Nat, n \in Nat : d = Len(first) /\ n = Len(all)
  <2>1. Len(first) \in Nat /\ Len(all) \in Nat
    OBVIOUS
  <2> QED BY <2>1
<1>2. d <= n /\ \A i \in 1..d : first[i] = all[i]
  BY <1>1 DEF Starts
<1>3. Starts(first, Append(all, p))
  <2>1. PICK more : more = Append(all, p)
    OBVIOUS
  <2>2. Len(more) = n + 1 /\ \A i \in 1..n : more[i] = all[i]
    BY <1>1, <2>1
  <2> QED BY <1>1, <1>2, <2>1, <2>2 DEF Starts
<1>4. ASSUME d < n
      PROVE  Starts(Append(first, all[d + 1]), all)
  <2>1. PICK more : more = Append(first, all[d + 1])
    OBVIOUS
  <2>2. Len(more) = d + 1 /\ more[d + 1] = all[d + 1] /\ \A i \in 1..d : more[i] = first[i]
    BY <1>1, <2>1
  <2>3. ASSUME NEW i \in 1..(d + 1) PROVE more[i] = all[i]
    <3>1. CASE i = d + 1
      BY <2>2, <3>1
    <3>2. CASE i # d + 1
      <4>1. i \in 1..d
        BY <3>2
      <4> QED BY <1>2, <2>2, <4>1
    <3> QED BY <3>1, <3>2
  <2>4. Len(more) <= Len(all)
    BY <1>1, <1>4, <2>2
  <2>5. Starts(more, all)
    BY <2>2, <2>3, <2>4 DEF Starts
  <2> QED BY <2>1, <2>5
<1> QED BY <1>1, <1>3, <1>4

(***************************************************************************)
(* H4.                                                                     *)
(***************************************************************************)
\* Every packet has something behind its preamble.
Payloads == \A p \in Packets : Len(p.data) > PreambleSize[p.type]

H4Typed == /\ sent \in Seq(Packets) /\ delivered \in Seq(Packets) /\ Starts(delivered, sent)
           /\ Len(sent) <= MaxPackets

\* The process does not end, and no end of the file is seen, while the line is up.
H4Ends == /\ up \in BOOLEAN /\ eof \in BOOLEAN /\ fatal \in BOOLEAN
          /\ fatal => ~up
          /\ Payloads /\ eof => ~up

\* The reader is before the type byte of the next packet, or inside the packet.
H4At(stream, start, r) ==
    /\ Laid(stream, start, sent, 1)
    /\ \/ /\ hciPacketType = UNKNOWN /\ packetizer = NewPacketizer
          /\ OnWire(stream, start[Len(delivered) + 1], wire, up)
       \/ /\ Len(delivered) < Len(sent)
          /\ hciPacketType = sent[Len(delivered) + 1].type
          /\ HasRead(packetizer, hciPacketType, sent[Len(delivered) + 1].data, r)
          /\ OnWire(stream, start[Len(delivered) + 1] + 1 + r, wire, up)

H4Inv == H4Typed /\ H4Ends /\ \E stream, start, r : H4At(stream, start, r)

\* H4Protocol and MctProtocol read with the packetizer of HciTransports.
LEMMA H4Packetizer ==
  /\ H4!UNKNOWN = UNKNOWN /\ H4!ACL_DATA = ACL_DATA /\ H4!SCO_DATA = SCO_DATA /\ H4!EVENT = EVENT
  /\ H4!NewPacketizer = NewPacketizer
  /\ \A p, type : H4!Wanted(p, type) = Wanted(p, type)
  /\ \A p, type, bytes : H4!AfterRead(p, type, bytes) = AfterRead(p, type, bytes)
  /\ \A p, bytes : /\ H4!Completes(p, bytes) <=> Completes(p, bytes)
                   /\ H4!Completed(p, bytes) = Completed(p, bytes)
  /\ \A p, type : H4!PacketizerOK(p, type) <=> PacketizerOK(p, type)
<1> USE DEF H4!UNKNOWN, UNKNOWN, H4!COMMAND, COMMAND, H4!ACL_DATA, ACL_DATA, H4!SCO_DATA, SCO_DATA,
        H4!EVENT, EVENT, H4!NewPacketizer, NewPacketizer, H4!PreambleSize, PreambleSize,
        H4!LengthOffset, LengthOffset, H4!PayloadLength, PayloadLength
<1>1. \A p, type : H4!Wanted(p, type) = Wanted(p, type)
  BY DEF H4!Wanted, Wanted
<1>2. \A p, type, bytes : H4!AfterRead(p, type, bytes) = AfterRead(p, type, bytes)
  BY DEF H4!AfterRead, AfterRead, H4!AfterPreamble, AfterPreamble, H4!AfterPayload, AfterPayload
<1>3. \A p, bytes : /\ H4!Completes(p, bytes) <=> Completes(p, bytes)
                    /\ H4!Completed(p, bytes) = Completed(p, bytes)
  BY DEF H4!Completes, Completes, H4!Completed, Completed
<1>4. \A p, type : H4!PacketizerOK(p, type) <=> PacketizerOK(p, type)
  BY DEF H4!PacketizerOK, PacketizerOK
<1> QED BY <1>1, <1>2, <1>3, <1>4

LEMMA MctPacketizer ==
  /\ Mct!ACL_DATA = ACL_DATA /\ Mct!EVENT = EVENT
  /\ Mct!NewPacketizer = NewPacketizer
  /\ \A p, type : Mct!Wanted(p, type) = Wanted(p, type)
  /\ \A p, type, bytes : Mct!AfterRead(p, type, bytes) = AfterRead(p, type, bytes)
  /\ \A p, bytes : /\ Mct!Completes(p, bytes) <=> Completes(p, bytes)
                   /\ Mct!Completed(p, bytes) = Completed(p, bytes)
  /\ \A p, type : Mct!PacketizerOK(p, type) <=> PacketizerOK(p, type)
<1> USE DEF Mct!COMMAND, COMMAND, Mct!ACL_DATA, ACL_DATA,
        Mct!EVENT, EVENT, Mct!NewPacketizer, NewPacketizer, Mct!PreambleSize, PreambleSize,
        Mct!LengthOffset, LengthOffset, Mct!PayloadLength, PayloadLength
<1>1. \A p, type : Mct!Wanted(p, type) = Wanted(p, type)
  BY DEF Mct!Wanted, Wanted
<1>2. \A p, type, bytes : Mct!AfterRead(p, type, bytes) = AfterRead(p, type, bytes)
  BY DEF Mct!AfterRead, AfterRead, Mct!AfterPreamble, AfterPreamble, Mct!AfterPayload, AfterPayload
<1>3. \A p, bytes : /\ Mct!Completes(p, bytes) <=> Completes(p, bytes)
                    /\ Mct!Completed(p, bytes) = Completed(p, bytes)
  BY DEF Mct!Completes, Completes, Mct!Completed, Completed
<1>4. \A p, type : Mct!PacketizerOK(p, type) <=> PacketizerOK(p, type)
  BY DEF Mct!PacketizerOK, PacketizerOK
<1> QED BY <1>1, <1>2, <1>3, <1>4

LEMMA H4Starts == H4!Init => H4Inv /\ H4!Link!Init
<1> SUFFICES ASSUME H4!Init PROVE H4Inv /\ H4!Link!Init
  OBVIOUS
<1>1. /\ sent = <<>> /\ delivered = <<>> /\ up = TRUE /\ wire = <<>> /\ hciPacketType = UNKNOWN
      /\ packetizer = NewPacketizer /\ eof = FALSE /\ fatal = FALSE
  BY H4Packetizer DEF H4!Init
<1>2. H4!Link!Init
  BY <1>1 DEF H4!Link!Init
<1>3. H4Ends
  BY <1>1 DEF H4Ends
<1>4. H4Typed
  BY <1>1, PacketsAssumption DEF H4Typed, Starts
<1>5. PICK stream, start : Laid(stream, start, <<>>, 1) /\ OnWire(stream, start[1], <<>>, TRUE)
  BY NothingIsSent
<1>6. H4At(stream, start, 0)
  <2>1. Len(delivered) + 1 = 1
    BY <1>1
  <2> QED BY <1>1, <1>5, <2>1 DEF H4At
<1> QED BY <1>2, <1>3, <1>4, <1>6 DEF H4Inv

LEMMA H4Controller ==
  ASSUME H4Inv, (\E p \in Packets : H4!ControllerSends(p)) \/ H4!Hangup
  PROVE  H4Inv' /\ H4!Link!Next
<1>1. PICK stream, start, r : H4At(stream, start, r)
  BY DEF H4Inv
<1>2. CASE \E p \in Packets : H4!ControllerSends(p)
  <2>1. PICK p \in Packets : H4!ControllerSends(p)
    BY <1>2
  <2>2. /\ up = TRUE /\ fatal = FALSE /\ Len(sent) < MaxPackets /\ sent' = Append(sent, p)
        /\ wire' = wire \o <<p.type>> \o p.data
        /\ UNCHANGED <<delivered, up, hciPacketType, packetizer, eof, fatal>>
    BY <2>1 DEF H4!ControllerSends, H4Inv, H4Ends
  <2>3. H4!Link!Next
    BY <2>2 DEF H4!Link!Next, H4!Link!Send
  <2>4. H4Ends'
    BY <2>2 DEF H4Inv, H4Ends
  <2>5. H4Typed'
    BY <2>2, StillStarts, PacketsAssumption DEF H4Inv, H4Typed
  <2>6. \E s, t, u : H4At(s, t, u)'
    <3>1. PICK pos : /\ OnWire(stream, pos, wire, TRUE)
                     /\ \/ /\ hciPacketType = UNKNOWN /\ packetizer = NewPacketizer
                           /\ pos = start[Len(delivered) + 1]
                        \/ /\ Len(delivered) < Len(sent)
                           /\ hciPacketType = sent[Len(delivered) + 1].type
                           /\ HasRead(packetizer, hciPacketType, sent[Len(delivered) + 1].data, r)
                           /\ pos = start[Len(delivered) + 1] + 1 + r
      BY <1>1, <2>2 DEF H4At
    <3>2. sent \in Seq(Packets) /\ Laid(stream, start, sent, 1)
      BY <1>1 DEF H4Inv, H4Typed, H4At
    <3>a. PICK longer, starts : Behind(longer, starts, start, sent, 1, p, pos, wire)
      BY <3>1, <3>2, MoreIsSent
    <3>3. /\ Laid(longer, starts, Append(sent, p), 1)
          /\ \A i \in 1..(Len(sent) + 1) : starts[i] = start[i]
          /\ OnWire(longer, pos, wire \o <<p.type>> \o p.data, TRUE)
      BY <3>a DEF Behind
    <3>4. Len(delivered) \in 0..Len(sent)
      BY DEF H4Inv, H4Typed, Starts
    <3>5. starts[Len(delivered) + 1] = start[Len(delivered) + 1]
      BY <3>2, <3>3, <3>4
    <3>6. Len(delivered) < Len(sent) =>
            Append(sent, p)[Len(delivered) + 1] = sent[Len(delivered) + 1]
            /\ Len(delivered) < Len(Append(sent, p))
      BY <3>2, <3>4
    <3>7. H4At(longer, starts, r)'
      BY <2>2, <3>1, <3>3, <3>5, <3>6 DEF H4At
    <3> QED BY <3>7
  <2> QED BY <2>3, <2>4, <2>5, <2>6 DEF H4Inv
<1>3. CASE H4!Hangup
  <2>1. PICK n \in 0..Len(wire) : wire' = SubSeq(wire, 1, n)
    BY <1>3 DEF H4!Hangup
  <2>2. up = TRUE /\ up' = FALSE /\ UNCHANGED <<sent, delivered, hciPacketType, packetizer, eof, fatal>>
    BY <1>3 DEF H4!Hangup, H4Inv, H4Ends
  <2>3. H4!Link!Next
    BY <2>2 DEF H4!Link!Next, H4!Link!Break
  <2>4. H4Ends'
    BY <2>2 DEF H4Inv, H4Ends
  <2>5. H4Typed'
    BY <2>2 DEF H4Inv, H4Typed
  <2>6. H4At(stream, start, r)'
    <3>1. stream \in Seq(Byte)
      BY <1>1 DEF H4At, Laid
    <3>2. \A pos : OnWire(stream, pos, wire, up) => OnWire(stream, pos, wire', FALSE)
      BY <2>1, <3>1, WireCut
    <3> QED BY <1>1, <2>2, <3>2 DEF H4At
  <2> QED BY <2>3, <2>4, <2>5, <2>6 DEF H4Inv
<1> QED BY <1>2, <1>3

LEMMA H4ReadsType ==
  ASSUME H4Inv, H4!ReadType
  PROVE  H4Inv' /\ UNCHANGED <<sent, delivered, up>>
<1>1. PICK stream, start, r : H4At(stream, start, r)
  BY DEF H4Inv
<1>2. /\ wire # <<>> /\ hciPacketType = UNKNOWN /\ wire' = Tail(wire)
      /\ UNCHANGED <<sent, delivered, up, packetizer, eof>>
      /\ IF Head(wire) \in Carries
         THEN hciPacketType' = Head(wire) /\ UNCHANGED fatal
         ELSE fatal' = TRUE /\ UNCHANGED hciPacketType
  BY H4Packetizer DEF H4!ReadType, Carries
<1>3. sent \in Seq(Packets) /\ Len(delivered) \in 0..Len(sent) /\ Laid(stream, start, sent, 1)
  BY <1>1 DEF H4Inv, H4Typed, H4At, Starts
<1>4. packetizer = NewPacketizer /\ OnWire(stream, start[Len(delivered) + 1], wire, up)
  <2>1. \A p \in Packets : p.type # UNKNOWN
    BY PacketFields, Sizes DEF Carries
  <2>2. Len(delivered) < Len(sent) => sent[Len(delivered) + 1] \in Packets
    BY <1>3
  <2> QED BY <1>1, <1>2, <2>1, <2>2 DEF H4At
<1>5. Len(delivered) < Len(sent)
  BY <1>2, <1>3, <1>4, SomeAreMissing
<1>6. PICK d \in Nat, q \in Packets : d = Len(delivered) /\ q = sent[d + 1]
  BY <1>3, <1>5
<1>7. PICK pos \in Nat : pos = start[d + 1] /\ stream[pos + 1] = q.type
  <2>1. d + 1 \in 1..Len(sent) /\ start[d + 1] \in Nat
    BY <1>3, <1>5, <1>6 DEF Laid
  <2> QED BY <1>3, <1>6, <2>1 DEF Laid
<1>8. wire \in Seq(Byte) /\ stream \in Seq(Byte) /\ 1 \in 1..Len(wire)
  BY <1>2, <1>3, <1>4 DEF OnWire, Laid
<1>9. Head(wire) = q.type /\ q.type \in Carries
  BY <1>4, <1>6, <1>7, <1>8, PacketFields DEF OnWire
<1>10. OnWire(stream, pos + 1, Tail(wire), up)
  <2>1. OnWire(stream, pos + 1, SubSeq(wire, 1 + 1, Len(wire)), up)
    BY <1>4, <1>6, <1>7, <1>8, WireRead
  <2>2. Tail(wire) = SubSeq(wire, 2, Len(wire))
    BY <1>2, <1>8, TailIsSubSeq
  <2>3. 1 + 1 = 2
    OBVIOUS
  <2> QED BY <2>1, <2>2, <2>3
<1>11. HasRead(NewPacketizer, q.type, q.data, 0)
  BY NothingRead
<1>12. hciPacketType' = q.type /\ fatal' = fatal
  BY <1>2, <1>9
<1>13. H4At(stream, start, 0)'
  <2>1. pos + 1 + 0 = pos + 1
    OBVIOUS
  <2> QED BY <1>2, <1>3, <1>4, <1>5, <1>6, <1>7, <1>10, <1>11, <1>12, <2>1 DEF H4At
<1>14. H4Typed'
  BY <1>2 DEF H4Inv, H4Typed
<1>15. H4Ends'
  BY <1>2, <1>12 DEF H4Inv, H4Ends
<1> QED BY <1>2, <1>13, <1>14, <1>15 DEF H4Inv

LEMMA H4ReadsPacket ==
  ASSUME H4Inv, H4!ReadPacket
  PROVE  H4Inv' /\ (H4!Link!Deliver \/ UNCHANGED <<sent, delivered, up>>)
<1>1. PICK stream, start, r : H4At(stream, start, r)
  BY DEF H4Inv
<1>2. PICK n \in 1..Wanted(packetizer, hciPacketType) :
        /\ n <= Len(wire)
        /\ wire' = SubSeq(wire, n + 1, Len(wire))
        /\ packetizer' = AfterRead(packetizer, hciPacketType, SubSeq(wire, 1, n))
        /\ IF Completes(packetizer, SubSeq(wire, 1, n))
           THEN /\ delivered' = Append(delivered,
                     [type |-> hciPacketType, data |-> Completed(packetizer, SubSeq(wire, 1, n))])
                /\ hciPacketType' = UNKNOWN
           ELSE UNCHANGED <<delivered, hciPacketType>>
  BY H4Packetizer DEF H4!ReadPacket, H4!OnPacketReady
<1>3. hciPacketType # UNKNOWN /\ UNCHANGED <<sent, up, eof, fatal>>
  BY H4Packetizer DEF H4!ReadPacket
<1>4. /\ sent \in Seq(Packets) /\ delivered \in Seq(Packets) /\ Len(delivered) \in 0..Len(sent)
      /\ Laid(stream, start, sent, 1) /\ Starts(delivered, sent)
  BY <1>1 DEF H4Inv, H4Typed, H4At, Starts
<1>5. PICK d \in 0..(Len(sent) - 1), q \in Packets :
        /\ d = Len(delivered) /\ q = sent[d + 1] /\ hciPacketType = q.type
        /\ HasRead(packetizer, q.type, q.data, r)
        /\ OnWire(stream, start[d + 1] + 1 + r, wire, up)
  BY <1>1, <1>3, <1>4 DEF H4At
<1>6. PICK bytes, rest : bytes = SubSeq(wire, 1, n) /\ rest = SubSeq(wire, n + 1, Len(wire))
  OBVIOUS
<1>7. /\ Completes(packetizer, bytes) =>
           /\ Completed(packetizer, bytes) = q.data
           /\ AfterRead(packetizer, q.type, bytes) = NewPacketizer
           /\ OnWire(stream, start[d + 2], rest, up)
      /\ ~Completes(packetizer, bytes) =>
           /\ HasRead(AfterRead(packetizer, q.type, bytes), q.type, q.data, r + n)
           /\ OnWire(stream, start[d + 1] + 1 + (r + n), rest, up)
  <2>1. n \in 1..Wanted(packetizer, sent[d + 1].type) /\ n <= Len(wire)
    BY <1>2, <1>5
  <2>2. /\ HasRead(packetizer, sent[d + 1].type, sent[d + 1].data, r)
        /\ OnWire(stream, start[d + 1] + 1 + r, wire, up)
    BY <1>5
  <2>3. /\ Completes(packetizer, SubSeq(wire, 1, n)) =>
             /\ Completed(packetizer, SubSeq(wire, 1, n)) = sent[d + 1].data
             /\ AfterRead(packetizer, sent[d + 1].type, SubSeq(wire, 1, n)) = NewPacketizer
             /\ OnWire(stream, start[d + 2], SubSeq(wire, n + 1, Len(wire)), up)
        /\ ~Completes(packetizer, SubSeq(wire, 1, n)) =>
             /\ HasRead(AfterRead(packetizer, sent[d + 1].type, SubSeq(wire, 1, n)),
                        sent[d + 1].type, sent[d + 1].data, r + n)
             /\ OnWire(stream, start[d + 1] + 1 + (r + n), SubSeq(wire, n + 1, Len(wire)), up)
    BY <1>4, <2>1, <2>2, BytesAreRead
  <2> QED BY <1>5, <1>6, <2>3
<1>8. H4Ends'
  BY <1>3 DEF H4Inv, H4Ends
<1>9. CASE Completes(packetizer, bytes)
  <2>1. delivered' = Append(delivered, sent[d + 1]) /\ hciPacketType' = UNKNOWN
    <3>1. q = [type |-> q.type, data |-> q.data]
      BY PacketFields
    <3> QED BY <1>2, <1>5, <1>6, <1>7, <1>9, <3>1
  <2>2. H4!Link!Deliver
    BY <1>3, <1>5, <2>1 DEF H4!Link!Deliver
  <2>3. H4Typed'
    <3>1. Starts(Append(delivered, sent[d + 1]), sent) /\ Append(delivered, sent[d + 1]) \in Seq(Packets)
      BY <1>4, <1>5, StillStarts
    <3> QED BY <1>3, <2>1, <3>1 DEF H4Inv, H4Typed
  <2>4. H4At(stream, start, r)'
    <3>1. Len(Append(delivered, sent[d + 1])) + 1 = d + 2
      BY <1>4, <1>5
    <3> QED BY <1>2, <1>3, <1>4, <1>5, <1>6, <1>7, <1>9, <2>1, <3>1 DEF H4At
  <2> QED BY <1>8, <2>2, <2>3, <2>4 DEF H4Inv
<1>10. CASE ~Completes(packetizer, bytes)
  <2>1. UNCHANGED <<delivered, hciPacketType>>
    BY <1>2, <1>6, <1>10
  <2>2. H4Typed'
    BY <1>3, <2>1 DEF H4Inv, H4Typed
  <2>3. H4At(stream, start, r + n)'
    BY <1>2, <1>3, <1>4, <1>5, <1>6, <1>7, <1>10, <2>1 DEF H4At
  <2> QED BY <1>3, <1>8, <2>1, <2>2, <2>3 DEF H4Inv
<1> QED BY <1>9, <1>10

LEMMA H4EndsReading ==
  ASSUME H4Inv, H4!ReadNothing \/ H4!ReadFails
  PROVE  H4Inv' /\ UNCHANGED <<sent, delivered, up>>
<1>1. PICK stream, start, r : H4At(stream, start, r)
  BY DEF H4Inv
<1>2. UNCHANGED <<sent, delivered, up, wire, hciPacketType, packetizer>>
  BY DEF H4!ReadNothing, H4!ReadFails
<1>3. H4Typed' /\ H4At(stream, start, r)'
  BY <1>1, <1>2 DEF H4Inv, H4Typed, H4At
<1>4. H4Ends'
  <2>1. CASE H4!ReadNothing
    <3>1. ASSUME Payloads, hciPacketType # UNKNOWN PROVE Wanted(packetizer, hciPacketType) # 0
      <4>1. sent \in Seq(Packets) /\ Len(delivered) \in Nat
        BY DEF H4Inv, H4Typed
      <4>2. /\ Len(delivered) < Len(sent)
            /\ hciPacketType = sent[Len(delivered) + 1].type
            /\ HasRead(packetizer, hciPacketType, sent[Len(delivered) + 1].data, r)
        BY <1>1, <3>1 DEF H4At
      <4>3. PICK q \in Packets : q = sent[Len(delivered) + 1]
        BY <4>1, <4>2
      <4> QED BY <3>1, <4>2, <4>3, ReadInBounds DEF Payloads
    <3>2. ASSUME Payloads PROVE ~up
      BY <2>1, <3>1, <3>2, H4Packetizer DEF H4!ReadNothing, H4!Readable
    <3>3. eof' = TRUE /\ fatal' = fatal
      BY <2>1 DEF H4!ReadNothing
    <3> QED BY <1>2, <3>2, <3>3 DEF H4Inv, H4Ends
  <2>2. CASE H4!ReadFails
    <3>1. fatal' = TRUE /\ up = FALSE /\ eof' = eof
      BY <2>2 DEF H4!ReadFails, H4Inv, H4Ends
    <3> QED BY <1>2, <3>1 DEF H4Inv, H4Ends
  <2> QED BY <2>1, <2>2
<1> QED BY <1>2, <1>3, <1>4 DEF H4Inv

LEMMA H4Step == H4Inv /\ [H4!Next]_h4Vars => H4Inv' /\ [H4!Link!Next]_(H4!Link!vars)
<1> SUFFICES ASSUME H4Inv, [H4!Next]_h4Vars
             PROVE  H4Inv' /\ [H4!Link!Next]_(H4!Link!vars)
  OBVIOUS
<1>1. UNCHANGED <<sent, delivered, up>> => UNCHANGED H4!Link!vars
  BY DEF H4!Link!vars
<1>2. CASE (\E p \in Packets : H4!ControllerSends(p)) \/ H4!Hangup
  BY <1>2, H4Controller
<1>3. CASE H4!OnDataReady \/ H4!ReadFails
  BY <1>1, <1>3, H4ReadsType, H4ReadsPacket, H4EndsReading DEF H4!OnDataReady, H4!Link!Next
<1>4. CASE UNCHANGED h4Vars
  <2>1. UNCHANGED <<sent, delivered, up>>
    BY <1>4 DEF h4Vars
  <2>2. H4Inv'
    BY <1>4 DEF h4Vars, H4Inv, H4Typed, H4Ends, H4At
  <2> QED BY <1>1, <2>1, <2>2
<1> QED BY <1>2, <1>3, <1>4 DEF H4!Next

(***************************************************************************)
(* MCT.                                                                    *)
(***************************************************************************)
MctTyped ==
    /\ mctSent \in [Mct!In -> Seq(Packets)] /\ mctDelivered \in [Mct!In -> Seq(Packets)]
    /\ mctWire \in [Mct!In -> Seq(Byte)]
    /\ mctPacketizer = [c \in Mct!In |-> mctPacketizer[c]]
    /\ \A c \in Mct!In : /\ Starts(mctDelivered[c], mctSent[c])
                         /\ \A i \in 1..Len(mctSent[c]) : mctSent[c][i].type = c

MctEnds == /\ mctUp \in BOOLEAN /\ mctEof \in BOOLEAN
           /\ Payloads /\ mctEof => ~mctUp

\* The reader of the channel has read r bytes of its next packet.
ChannelAt(c, stream, start, r) ==
    /\ Laid(stream, start, mctSent[c], 0)
    /\ OnWire(stream, start[Len(mctDelivered[c]) + 1] + 0 + r, mctWire[c], mctUp)
    /\ \/ r = 0 /\ mctPacketizer[c] = NewPacketizer
       \/ /\ Len(mctDelivered[c]) < Len(mctSent[c])
          /\ HasRead(mctPacketizer[c], c, mctSent[c][Len(mctDelivered[c]) + 1].data, r)

MctInv == /\ MctTyped /\ MctEnds
          /\ \A c \in Mct!In : \E stream, start, r : ChannelAt(c, stream, start, r)

\* What a step may do to the packets of a channel: that of PacketLink, or nothing.
ChannelStep(c) ==
    \/ /\ mctUp /\ \E p \in Packets : p.type = c /\ mctSent'[c] = Append(mctSent[c], p)
       /\ mctDelivered'[c] = mctDelivered[c] /\ mctUp' = mctUp
    \/ /\ Len(mctDelivered[c]) < Len(mctSent[c])
       /\ mctDelivered'[c] = Append(mctDelivered[c], mctSent[c][Len(mctDelivered[c]) + 1])
       /\ mctSent'[c] = mctSent[c] /\ mctUp' = mctUp
    \/ /\ mctUp /\ mctUp' = FALSE
       /\ mctSent'[c] = mctSent[c] /\ mctDelivered'[c] = mctDelivered[c]
    \/ mctSent'[c] = mctSent[c] /\ mctDelivered'[c] = mctDelivered[c] /\ mctUp' = mctUp

\* A channel that a step leaves alone.
Same(c) == /\ mctSent'[c] = mctSent[c] /\ mctDelivered'[c] = mctDelivered[c]
           /\ mctWire'[c] = mctWire[c] /\ mctPacketizer'[c] = mctPacketizer[c]

LEMMA SameChannel ==
  ASSUME NEW c, Same(c), mctUp' = mctUp
  PROVE  /\ ChannelStep(c)
         /\ \A stream, start, r : ChannelAt(c, stream, start, r) => ChannelAt(c, stream, start, r)'
<1>1. ChannelStep(c)
  BY DEF Same, ChannelStep
<1>2. ASSUME NEW stream, NEW start, NEW r, ChannelAt(c, stream, start, r)
      PROVE  ChannelAt(c, stream, start, r)'
  BY <1>2 DEF Same, ChannelAt
<1> QED BY <1>1, <1>2

LEMMA MctStarts == Mct!Init => MctInv /\ Mct!EventLink!Init /\ Mct!AclLink!Init
<1> SUFFICES ASSUME Mct!Init PROVE MctInv /\ Mct!EventLink!Init /\ Mct!AclLink!Init
  OBVIOUS
<1>1. /\ mctSent = [c \in Mct!In |-> <<>>] /\ mctDelivered = [c \in Mct!In |-> <<>>]
      /\ mctUp = TRUE /\ mctWire = [c \in Mct!In |-> <<>>] /\ mctEof = FALSE
      /\ mctPacketizer = [c \in Mct!In |-> NewPacketizer]
  BY MctPacketizer DEF Mct!Init
<1>2. Mct!EventLink!Init /\ Mct!AclLink!Init
  BY <1>1 DEF Mct!EventLink!Init, Mct!AclLink!Init, Mct!In
<1>3. MctEnds
  BY <1>1 DEF MctEnds
<1>4. MctTyped
  BY <1>1 DEF MctTyped, Starts
<1>5. ASSUME NEW c \in Mct!In
      PROVE  \E stream, start, r : ChannelAt(c, stream, start, r)
  <2>1. PICK stream, start : Laid(stream, start, <<>>, 0) /\ OnWire(stream, start[1], <<>>, TRUE)
    BY NothingIsSent
  <2>2. start[1] + 0 + 0 = start[1] /\ Len(mctDelivered[c]) + 1 = 1
    BY <1>1, <2>1 DEF Laid
  <2>3. ChannelAt(c, stream, start, 0)
    BY <1>1, <2>1, <2>2 DEF ChannelAt
  <2> QED BY <2>3
<1> QED BY <1>2, <1>3, <1>4, <1>5 DEF MctInv

\* Where bytes are on the channel the packetizer is in a packet that was sent.
LEMMA ChannelReading ==
  ASSUME MctInv, NEW c \in Mct!In, mctWire[c] # <<>>
  PROVE  \E stream, start, r :
            /\ Laid(stream, start, mctSent[c], 0)
            /\ OnWire(stream, start[Len(mctDelivered[c]) + 1] + 0 + r, mctWire[c], mctUp)
            /\ Len(mctDelivered[c]) < Len(mctSent[c])
            /\ mctSent[c][Len(mctDelivered[c]) + 1] \in Packets
            /\ mctSent[c][Len(mctDelivered[c]) + 1].type = c
            /\ HasRead(mctPacketizer[c], c, mctSent[c][Len(mctDelivered[c]) + 1].data, r)
<1>1. PICK stream, start, r : ChannelAt(c, stream, start, r)
  BY DEF MctInv
<1>2. /\ mctSent[c] \in Seq(Packets) /\ mctDelivered[c] \in Seq(Packets)
      /\ Len(mctDelivered[c]) \in 0..Len(mctSent[c])
      /\ \A i \in 1..Len(mctSent[c]) : mctSent[c][i].type = c
  BY DEF MctInv, MctTyped, Starts
<1>3. CASE r = 0 /\ mctPacketizer[c] = NewPacketizer
  <2>1. OnWire(stream, start[Len(mctDelivered[c]) + 1], mctWire[c], mctUp)
    <3>1. Len(mctDelivered[c]) + 1 \in 1..(Len(mctSent[c]) + 1)
      BY <1>2
    <3>2. start[Len(mctDelivered[c]) + 1] \in 0..Len(stream)
      BY <1>1, <3>1 DEF ChannelAt, Laid
    <3>3. start[Len(mctDelivered[c]) + 1] + 0 + r = start[Len(mctDelivered[c]) + 1]
      BY <1>3, <3>2
    <3> QED BY <1>1, <3>3 DEF ChannelAt
  <2>2. Len(mctDelivered[c]) < Len(mctSent[c])
    BY <1>1, <1>2, <2>1, SomeAreMissing DEF ChannelAt
  <2>3. PICK q \in Packets : q = mctSent[c][Len(mctDelivered[c]) + 1] /\ q.type = c
    BY <1>2, <2>2
  <2>4. HasRead(mctPacketizer[c], c, q.data, r)
    BY <1>3, <2>3, NothingRead
  <2> QED BY <1>1, <2>2, <2>3, <2>4 DEF ChannelAt
<1>4. CASE /\ Len(mctDelivered[c]) < Len(mctSent[c])
           /\ HasRead(mctPacketizer[c], c, mctSent[c][Len(mctDelivered[c]) + 1].data, r)
  <2>1. /\ mctSent[c][Len(mctDelivered[c]) + 1] \in Packets
        /\ mctSent[c][Len(mctDelivered[c]) + 1].type = c
    BY <1>2, <1>4
  <2> QED BY <1>1, <1>4, <2>1 DEF ChannelAt
<1> QED BY <1>1, <1>3, <1>4 DEF ChannelAt

LEMMA MctSends ==
  ASSUME MctInv, NEW p \in Packets, Mct!ControllerSends(p)
  PROVE  MctInv' /\ \A c \in Mct!In : ChannelStep(c)
<1>1. /\ mctUp = TRUE /\ p.type \in Mct!In /\ mctSent' = [mctSent EXCEPT ![p.type] = Append(@, p)]
      /\ mctWire' = [mctWire EXCEPT ![p.type] = @ \o p.data]
      /\ UNCHANGED <<mctDelivered, mctUp, mctPacketizer, mctEof>>
  BY DEF Mct!ControllerSends, MctInv, MctEnds
<1>2. PICK b \in Mct!In : b = p.type
  BY <1>1
<1>3. /\ mctSent'[b] = Append(mctSent[b], p) /\ mctWire'[b] = mctWire[b] \o p.data
      /\ \A c \in Mct!In : c # b => Same(c)
  BY <1>1, <1>2 DEF Same, MctInv, MctTyped
<1>4. /\ mctSent[b] \in Seq(Packets) /\ mctDelivered[b] \in Seq(Packets)
      /\ Starts(mctDelivered[b], mctSent[b]) /\ mctWire[b] \in Seq(Byte)
      /\ Len(mctDelivered[b]) \in 0..Len(mctSent[b])
      /\ \A i \in 1..Len(mctSent[b]) : mctSent[b][i].type = b
  BY <1>2 DEF MctInv, MctTyped, Starts
<1>5. MctTyped'
  <2>1. mctSent' \in [Mct!In -> Seq(Packets)]
    BY <1>1, <1>2, <1>4 DEF MctInv, MctTyped
  <2>2. mctWire' \in [Mct!In -> Seq(Byte)]
    <3>1. p.data \in Seq(Byte)
      BY PacketFields
    <3>2. mctWire[b] \o p.data \in Seq(Byte)
      BY <1>4, <3>1
    <3> QED BY <1>1, <1>2, <3>2 DEF MctInv, MctTyped
  <2>3. ASSUME NEW c \in Mct!In
        PROVE  /\ Starts(mctDelivered[c], mctSent'[c])
               /\ \A i \in 1..Len(mctSent'[c]) : mctSent'[c][i].type = c
    <3>1. CASE c = b
      <4>1. Starts(mctDelivered[b], Append(mctSent[b], p))
        BY <1>4, StillStarts
      <4>2. \A i \in 1..Len(Append(mctSent[b], p)) : Append(mctSent[b], p)[i].type = b
        <5>1. PICK n \in Nat, all \in Seq(Packets) : n = Len(mctSent[b]) /\ all = Append(mctSent[b], p)
          <6>1. Len(mctSent[b]) \in Nat /\ Append(mctSent[b], p) \in Seq(Packets)
            BY <1>4
          <6> QED BY <6>1
        <5>2. Len(all) = n + 1 /\ all[n + 1] = p /\ \A i \in 1..n : all[i] = mctSent[b][i]
          BY <1>4, <5>1
        <5>3. ASSUME NEW i \in 1..(n + 1) PROVE all[i].type = b
          <6>1. CASE i = n + 1
            BY <1>2, <5>2, <6>1
          <6>2. CASE i # n + 1
            <7>1. i \in 1..n
              BY <6>2
            <7> QED BY <1>4, <5>1, <5>2, <7>1
          <6> QED BY <6>1, <6>2
        <5> QED BY <5>1, <5>2, <5>3
      <4> QED BY <1>3, <3>1, <4>1, <4>2
    <3>2. CASE c # b
      BY <1>3, <3>2 DEF Same, MctInv, MctTyped
    <3> QED BY <3>1, <3>2
  <2> QED BY <1>1, <2>1, <2>2, <2>3 DEF MctInv, MctTyped
<1>6. MctEnds'
  BY <1>1 DEF MctInv, MctEnds
<1>7. \E stream, start, r : ChannelAt(b, stream, start, r)'
  <2>1. PICK stream, start, r : ChannelAt(b, stream, start, r)
    BY DEF MctInv
  <2>2. PICK pos : pos = start[Len(mctDelivered[b]) + 1] + 0 + r
    OBVIOUS
  <2>3. Laid(stream, start, mctSent[b], 0) /\ OnWire(stream, pos, mctWire[b], TRUE)
    BY <1>1, <2>1, <2>2 DEF ChannelAt
  <2>4. PICK longer, starts : Behind(longer, starts, start, mctSent[b], 0, p, pos, mctWire[b])
    BY <1>4, <2>3, MoreIsSent
  <2>5. /\ Laid(longer, starts, Append(mctSent[b], p), 0)
        /\ \A i \in 1..(Len(mctSent[b]) + 1) : starts[i] = start[i]
        /\ OnWire(longer, pos, mctWire[b] \o p.data, TRUE)
    BY <2>4 DEF Behind
  <2>6. starts[Len(mctDelivered[b]) + 1] = start[Len(mctDelivered[b]) + 1]
    <3>1. Len(mctDelivered[b]) + 1 \in 1..(Len(mctSent[b]) + 1)
      BY <1>4
    <3> QED BY <2>5, <3>1
  <2>7. Len(mctDelivered[b]) < Len(mctSent[b]) =>
          Append(mctSent[b], p)[Len(mctDelivered[b]) + 1] = mctSent[b][Len(mctDelivered[b]) + 1]
          /\ Len(mctDelivered[b]) < Len(Append(mctSent[b], p))
    BY <1>4
  <2>8. mctDelivered'[b] = mctDelivered[b] /\ mctPacketizer'[b] = mctPacketizer[b] /\ mctUp' = TRUE
    BY <1>1
  <2>9. ChannelAt(b, longer, starts, r)'
    BY <1>3, <2>1, <2>2, <2>5, <2>6, <2>7, <2>8 DEF ChannelAt
  <2> QED BY <2>9
<1>8. ASSUME NEW c \in Mct!In
      PROVE  ChannelStep(c) /\ \E stream, start, r : ChannelAt(c, stream, start, r)'
  <2>1. CASE c = b
    <3>1. ChannelStep(b)
      BY <1>1, <1>2, <1>3 DEF ChannelStep
    <3> QED BY <1>7, <2>1, <3>1
  <2>2. CASE c # b
    <3>1. PICK stream, start, r : ChannelAt(c, stream, start, r)
      BY DEF MctInv
    <3>2. Same(c) /\ mctUp' = mctUp
      BY <1>1, <1>3, <2>2
    <3> QED BY <3>1, <3>2, SameChannel
  <2> QED BY <2>1, <2>2
<1> QED BY <1>5, <1>6, <1>8 DEF MctInv

LEMMA MctHangsUp ==
  ASSUME MctInv, Mct!Hangup
  PROVE  MctInv' /\ \A c \in Mct!In : ChannelStep(c)
<1>1. mctUp = TRUE /\ mctUp' = FALSE /\ UNCHANGED <<mctSent, mctDelivered, mctPacketizer, mctEof>>
  BY DEF Mct!Hangup, MctInv, MctEnds
<1>2. PICK e \in 0..Len(mctWire[Mct!EVENT]), a \in 0..Len(mctWire[Mct!ACL_DATA]) :
        mctWire' = [mctWire EXCEPT ![Mct!EVENT] = SubSeq(@, 1, e), ![Mct!ACL_DATA] = SubSeq(@, 1, a)]
  BY DEF Mct!Hangup
<1>3. mctWire \in [Mct!In -> Seq(Byte)] /\ Mct!EVENT # Mct!ACL_DATA
  BY MctPacketizer, Sizes DEF MctInv, MctTyped
<1>4. ASSUME NEW c \in Mct!In
      PROVE  \E n \in 0..Len(mctWire[c]) : mctWire'[c] = SubSeq(mctWire[c], 1, n)
  <2>1. CASE c = Mct!EVENT
    BY <1>2, <1>3, <2>1
  <2>2. CASE c = Mct!ACL_DATA
    BY <1>2, <1>3, <2>2
  <2> QED BY <2>1, <2>2 DEF Mct!In
<1>5. mctWire' \in [Mct!In -> Seq(Byte)]
  <2>1. ASSUME NEW c \in Mct!In PROVE mctWire'[c] \in Seq(Byte)
    <3>1. PICK n \in 0..Len(mctWire[c]) : mctWire'[c] = SubSeq(mctWire[c], 1, n)
      BY <1>4
    <3> QED BY <1>3, <3>1
  <2>2. mctWire' = [c \in Mct!In |-> mctWire'[c]]
    BY <1>2, <1>3
  <2> QED BY <2>1, <2>2
<1>6. MctTyped' /\ MctEnds'
  BY <1>1, <1>5 DEF MctInv, MctTyped, MctEnds
<1>7. ASSUME NEW c \in Mct!In
      PROVE  ChannelStep(c) /\ \E stream, start, r : ChannelAt(c, stream, start, r)'
  <2>1. PICK stream, start, r : ChannelAt(c, stream, start, r)
    BY DEF MctInv
  <2>2. PICK n \in 0..Len(mctWire[c]) : mctWire'[c] = SubSeq(mctWire[c], 1, n)
    BY <1>4
  <2>3. stream \in Seq(Byte)
    BY <2>1 DEF ChannelAt, Laid
  <2>4. OnWire(stream, start[Len(mctDelivered[c]) + 1] + 0 + r, mctWire'[c], FALSE)
    BY <2>1, <2>2, <2>3, WireCut DEF ChannelAt
  <2>5. ChannelAt(c, stream, start, r)'
    BY <1>1, <2>1, <2>4 DEF ChannelAt
  <2>6. ChannelStep(c)
    BY <1>1 DEF ChannelStep
  <2> QED BY <2>5, <2>6
<1> QED BY <1>6, <1>7 DEF MctInv

LEMMA MctReads ==
  ASSUME MctInv, NEW b \in Mct!In, Mct!OnDataReady(b)
  PROVE  MctInv' /\ \A c \in Mct!In : ChannelStep(c)
<1>1. PICK n \in 1..Wanted(mctPacketizer[b], b) :
        /\ n <= Len(mctWire[b])
        /\ mctWire' = [mctWire EXCEPT ![b] = SubSeq(@, n + 1, Len(@))]
        /\ mctPacketizer' = [mctPacketizer EXCEPT ![b] = AfterRead(@, b, SubSeq(mctWire[b], 1, n))]
        /\ IF Completes(mctPacketizer[b], SubSeq(mctWire[b], 1, n))
           THEN mctDelivered' = [mctDelivered EXCEPT ![b] = Append(@,
                   [type |-> b, data |-> Completed(mctPacketizer[b], SubSeq(mctWire[b], 1, n))])]
           ELSE UNCHANGED mctDelivered
  BY MctPacketizer DEF Mct!OnDataReady, Mct!OnPacketReady
<1>2. UNCHANGED <<mctSent, mctUp, mctEof>>
  BY DEF Mct!OnDataReady
<1>3. /\ mctSent[b] \in Seq(Packets) /\ mctDelivered[b] \in Seq(Packets)
      /\ Starts(mctDelivered[b], mctSent[b]) /\ mctWire[b] \in Seq(Byte)
      /\ Len(mctDelivered[b]) \in 0..Len(mctSent[b])
  BY DEF MctInv, MctTyped, Starts
<1>4. mctWire[b] # <<>>
  BY <1>1
<1>5. PICK stream, start, r :
        /\ Laid(stream, start, mctSent[b], 0)
        /\ OnWire(stream, start[Len(mctDelivered[b]) + 1] + 0 + r, mctWire[b], mctUp)
        /\ Len(mctDelivered[b]) < Len(mctSent[b])
        /\ mctSent[b][Len(mctDelivered[b]) + 1] \in Packets
        /\ mctSent[b][Len(mctDelivered[b]) + 1].type = b
        /\ HasRead(mctPacketizer[b], b, mctSent[b][Len(mctDelivered[b]) + 1].data, r)
  BY <1>4, ChannelReading
<1>6. PICK d \in 0..(Len(mctSent[b]) - 1), q \in Packets :
        d = Len(mctDelivered[b]) /\ q = mctSent[b][d + 1] /\ q.type = b
  BY <1>3, <1>5
<1>7. PICK bytes, rest :
        bytes = SubSeq(mctWire[b], 1, n) /\ rest = SubSeq(mctWire[b], n + 1, Len(mctWire[b]))
  OBVIOUS
<1>8. /\ Completes(mctPacketizer[b], bytes) =>
           /\ Completed(mctPacketizer[b], bytes) = q.data
           /\ AfterRead(mctPacketizer[b], b, bytes) = NewPacketizer
           /\ OnWire(stream, start[d + 2], rest, mctUp)
      /\ ~Completes(mctPacketizer[b], bytes) =>
           /\ HasRead(AfterRead(mctPacketizer[b], b, bytes), b, q.data, r + n)
           /\ OnWire(stream, start[d + 1] + 0 + (r + n), rest, mctUp)
  <2>1. n \in 1..Wanted(mctPacketizer[b], mctSent[b][d + 1].type) /\ n <= Len(mctWire[b])
    BY <1>1, <1>6
  <2>2. /\ HasRead(mctPacketizer[b], mctSent[b][d + 1].type, mctSent[b][d + 1].data, r)
        /\ OnWire(stream, start[d + 1] + 0 + r, mctWire[b], mctUp)
    BY <1>5, <1>6
  <2>3. /\ Completes(mctPacketizer[b], SubSeq(mctWire[b], 1, n)) =>
             /\ Completed(mctPacketizer[b], SubSeq(mctWire[b], 1, n)) = mctSent[b][d + 1].data
             /\ AfterRead(mctPacketizer[b], mctSent[b][d + 1].type, SubSeq(mctWire[b], 1, n))
                  = NewPacketizer
             /\ OnWire(stream, start[d + 2], SubSeq(mctWire[b], n + 1, Len(mctWire[b])), mctUp)
        /\ ~Completes(mctPacketizer[b], SubSeq(mctWire[b], 1, n)) =>
             /\ HasRead(AfterRead(mctPacketizer[b], mctSent[b][d + 1].type, SubSeq(mctWire[b], 1, n)),
                        mctSent[b][d + 1].type, mctSent[b][d + 1].data, r + n)
             /\ OnWire(stream, start[d + 1] + 0 + (r + n),
                       SubSeq(mctWire[b], n + 1, Len(mctWire[b])), mctUp)
    BY <1>3, <1>5, <2>1, <2>2, BytesAreRead
  <2> QED BY <1>6, <1>7, <2>3
<1>9. /\ mctWire'[b] = rest /\ mctPacketizer'[b] = AfterRead(mctPacketizer[b], b, bytes)
      /\ \A c \in Mct!In : c # b => mctWire'[c] = mctWire[c] /\ mctPacketizer'[c] = mctPacketizer[c]
      /\ mctPacketizer' = [c \in Mct!In |-> mctPacketizer'[c]]
  BY <1>1, <1>7 DEF MctInv, MctTyped
<1>10. MctEnds'
  BY <1>2 DEF MctInv, MctEnds
<1>11. mctWire' \in [Mct!In -> Seq(Byte)]
  <2>1. SubSeq(mctWire[b], n + 1, Len(mctWire[b])) \in Seq(Byte)
    BY <1>1, <1>3
  <2> QED BY <1>1, <2>1 DEF MctInv, MctTyped
<1>12. /\ mctDelivered' \in [Mct!In -> Seq(Packets)]
       /\ \A c \in Mct!In : c # b => mctDelivered'[c] = mctDelivered[c]
       /\ Starts(mctDelivered'[b], mctSent[b])
       /\ ChannelStep(b)
       /\ \E s, t, u : ChannelAt(b, s, t, u)'
  <2>1. CASE Completes(mctPacketizer[b], bytes)
    <3>1. mctDelivered' = [mctDelivered EXCEPT ![b] = Append(@, q)]
      <4>1. q = [type |-> q.type, data |-> q.data]
        BY PacketFields
      <4> QED BY <1>1, <1>6, <1>7, <1>8, <2>1, <4>1
    <3>2. mctDelivered'[b] = Append(mctDelivered[b], q)
      BY <3>1 DEF MctInv, MctTyped
    <3>3. Append(mctDelivered[b], q) \in Seq(Packets) /\ Starts(Append(mctDelivered[b], q), mctSent[b])
      BY <1>3, <1>5, <1>6, StillStarts
    <3>4. Len(Append(mctDelivered[b], q)) + 1 = d + 2
      BY <1>3, <1>6
    <3>5. ChannelAt(b, stream, start, 0)'
      <4>1. start[d + 2] + 0 + 0 = start[d + 2]
        <5>1. d + 2 \in 1..(Len(mctSent[b]) + 1)
          BY <1>3
        <5>2. start[d + 2] \in 0..Len(stream)
          BY <1>5, <5>1 DEF Laid
        <5> QED BY <5>2
      <4> QED BY <1>2, <1>5, <1>8, <1>9, <2>1, <3>2, <3>4, <4>1 DEF ChannelAt
    <3>6. ChannelStep(b)
      BY <1>2, <1>5, <1>6, <3>2 DEF ChannelStep
    <3>7. mctDelivered' \in [Mct!In -> Seq(Packets)]
      BY <3>1, <3>3 DEF MctInv, MctTyped
    <3>8. \A c \in Mct!In : c # b => mctDelivered'[c] = mctDelivered[c]
      BY <3>1 DEF MctInv, MctTyped
    <3> QED BY <3>2, <3>3, <3>5, <3>6, <3>7, <3>8
  <2>2. CASE ~Completes(mctPacketizer[b], bytes)
    <3>1. mctDelivered' = mctDelivered
      BY <1>1, <1>7, <2>2
    <3>2. ChannelAt(b, stream, start, r + n)'
      BY <1>2, <1>5, <1>6, <1>8, <1>9, <2>2, <3>1 DEF ChannelAt
    <3>3. ChannelStep(b)
      BY <1>2, <3>1 DEF ChannelStep
    <3> QED BY <1>3, <3>1, <3>2, <3>3 DEF MctInv, MctTyped
  <2> QED BY <2>1, <2>2
<1>13. MctTyped'
  BY <1>2, <1>9, <1>11, <1>12 DEF MctInv, MctTyped
<1>14. ASSUME NEW c \in Mct!In
       PROVE  ChannelStep(c) /\ \E s, t, u : ChannelAt(c, s, t, u)'
  <2>1. CASE c = b
    BY <1>12, <2>1
  <2>2. CASE c # b
    <3>1. PICK s, t, u : ChannelAt(c, s, t, u)
      BY DEF MctInv
    <3>2. Same(c) /\ mctUp' = mctUp
      BY <1>2, <1>9, <1>12, <2>2 DEF Same
    <3> QED BY <3>1, <3>2, SameChannel
  <2> QED BY <2>1, <2>2
<1> QED BY <1>10, <1>13, <1>14 DEF MctInv

LEMMA MctEndsReading ==
  ASSUME MctInv, (\E c \in Mct!In : Mct!ReadNothing(c)) \/ Mct!ReadFails
  PROVE  MctInv' /\ \A c \in Mct!In : ChannelStep(c)
<1>1. UNCHANGED <<mctSent, mctDelivered, mctUp, mctWire, mctPacketizer>>
  BY DEF Mct!ReadNothing, Mct!ReadFails
<1>2. MctEnds'
  <2>1. CASE \E c \in Mct!In : Mct!ReadNothing(c)
    <3>1. PICK c \in Mct!In : Mct!ReadNothing(c)
      BY <2>1
    <3>2. ASSUME Payloads PROVE ~mctUp
      <4>1. CASE mctWire[c] # <<>> /\ Wanted(mctPacketizer[c], c) = 0
        <5>1. PICK r : \E q \in Packets : q.type = c /\ HasRead(mctPacketizer[c], c, q.data, r)
          BY <4>1, ChannelReading
        <5>2. Wanted(mctPacketizer[c], c) # 0
          BY <3>2, <5>1, ReadInBounds DEF Payloads
        <5> QED BY <4>1, <5>2
      <4> QED BY <3>1, <4>1, MctPacketizer DEF Mct!ReadNothing
    <3>3. mctEof' = TRUE
      BY <3>1 DEF Mct!ReadNothing
    <3> QED BY <1>1, <3>2, <3>3 DEF MctInv, MctEnds
  <2>2. CASE Mct!ReadFails
    BY <1>1, <2>2 DEF Mct!ReadFails, MctInv, MctEnds
  <2> QED BY <2>1, <2>2
<1>3. MctTyped'
  BY <1>1 DEF MctInv, MctTyped
<1>4. ASSUME NEW c \in Mct!In
      PROVE  ChannelStep(c) /\ \E s, t, u : ChannelAt(c, s, t, u)'
  <2>1. PICK s, t, u : ChannelAt(c, s, t, u)
    BY DEF MctInv
  <2>2. Same(c) /\ mctUp' = mctUp
    BY <1>1 DEF Same
  <2> QED BY <2>1, <2>2, SameChannel
<1> QED BY <1>2, <1>3, <1>4 DEF MctInv

LEMMA MctStep ==
  MctInv /\ [Mct!Next]_mctVars => /\ MctInv'
                                  /\ [Mct!EventLink!Next]_(Mct!EventLink!vars)
                                  /\ [Mct!AclLink!Next]_(Mct!AclLink!vars)
<1> SUFFICES ASSUME MctInv, [Mct!Next]_mctVars
             PROVE  /\ MctInv'
                    /\ [Mct!EventLink!Next]_(Mct!EventLink!vars)
                    /\ [Mct!AclLink!Next]_(Mct!AclLink!vars)
  OBVIOUS
<1>1. MctInv' /\ \A c \in Mct!In : ChannelStep(c)
  <2>1. CASE \E p \in Packets : Mct!ControllerSends(p)
    BY <2>1, MctSends
  <2>2. CASE Mct!Hangup
    BY <2>2, MctHangsUp
  <2>3. CASE \E c \in Mct!In : Mct!OnDataReady(c)
    BY <2>3, MctReads
  <2>4. CASE (\E c \in Mct!In : Mct!ReadNothing(c)) \/ Mct!ReadFails
    BY <2>4, MctEndsReading
  <2>5. CASE UNCHANGED mctVars
    <3>1. UNCHANGED <<mctSent, mctDelivered, mctUp, mctWire, mctPacketizer, mctEof>>
      BY <2>5 DEF mctVars
    <3>2. MctInv'
      BY <3>1 DEF MctInv, MctTyped, MctEnds, ChannelAt
    <3>3. \A c \in Mct!In : ChannelStep(c)
      BY <3>1 DEF ChannelStep
    <3> QED BY <3>2, <3>3
  <2> QED BY <2>1, <2>2, <2>3, <2>4, <2>5 DEF Mct!Next
<1>2. [Mct!EventLink!Next]_(Mct!EventLink!vars)
  <2>1. ChannelStep(Mct!EVENT)
    BY <1>1 DEF Mct!In
  <2> QED BY <2>1 DEF ChannelStep, Mct!EventLink!Next, Mct!EventLink!Send, Mct!EventLink!Deliver,
             Mct!EventLink!Break, Mct!EventLink!vars
<1>3. [Mct!AclLink!Next]_(Mct!AclLink!vars)
  <2>1. ChannelStep(Mct!ACL_DATA)
    BY <1>1 DEF Mct!In
  <2> QED BY <2>1 DEF ChannelStep, Mct!AclLink!Next, Mct!AclLink!Send, Mct!AclLink!Deliver,
             Mct!AclLink!Break, Mct!AclLink!vars
<1> QED BY <1>1, <1>2, <1>3

(***************************************************************************)
(* Sending.  The bytes of a sequence of packets are defined by recursion   *)
(* on its length, so what they are when a packet is added needs that the   *)
(* recursion has one solution: by induction, over a set of numbers.        *)
(***************************************************************************)
LEMMA AllNumbers ==
  ASSUME NEW S, 0 \in S, \A n \in Nat : n \in S => n + 1 \in S
  PROVE  \A n \in Nat : n \in S
<1> DEFINE T == {n \in Nat : n \notin S}
<1>1. SUFFICES ASSUME T # {} PROVE FALSE
  OBVIOUS
<1>2. IsWellFoundedOn(OpToRel(<, Nat), Nat)
  BY NatLessThanWellFounded
<1>3. PICK m \in T : \A n \in T : <<n, m>> \notin OpToRel(<, Nat)
  <2>1. T \subseteq Nat
    OBVIOUS
  <2> HIDE DEF T
  <2> QED BY <1>1, <1>2, <2>1, WFMin
<1>4. m \in Nat /\ m # 0 /\ m \notin S
  OBVIOUS
<1>5. m - 1 \in Nat /\ (m - 1) + 1 = m
  BY <1>4
<1>6. m - 1 \in T
  BY <1>4, <1>5
<1>7. <<m - 1, m>> \in OpToRel(<, Nat)
  BY <1>4, <1>5 DEF OpToRel
<1> QED BY <1>3, <1>6, <1>7

\* u[i] is the first i of the sequences e[1], ..., e[n], put together.
UpTo(u, e, n) == u = [i \in 0..n |-> IF i = 0 THEN <<>> ELSE u[i - 1] \o e[i]]

LEMMA UpToExists ==
  ASSUME NEW e
  PROVE  \A n \in Nat : \E u : UpTo(u, e, n)
<1> DEFINE S == {n \in Nat : \E u : UpTo(u, e, n)}
<1>1. 0 \in S
  <2>1. PICK u : u = [i \in 0..0 |-> <<>>]
    OBVIOUS
  <2>2. UpTo(u, e, 0)
    BY <2>1 DEF UpTo
  <2> QED BY <2>2
<1>2. ASSUME NEW n \in Nat, n \in S
      PROVE  n + 1 \in S
  <2>1. PICK u : UpTo(u, e, n)
    BY <1>2
  <2>2. PICK v : v = [i \in 0..(n + 1) |-> IF i <= n THEN u[i] ELSE u[n] \o e[n + 1]]
    OBVIOUS
  <2>3. ASSUME NEW i \in 0..(n + 1)
        PROVE  v[i] = IF i = 0 THEN <<>> ELSE v[i - 1] \o e[i]
    <3>1. CASE i = 0
      BY <2>1, <2>2, <3>1 DEF UpTo
    <3>2. CASE i # 0 /\ i <= n
      <4>1. v[i] = u[i] /\ v[i - 1] = u[i - 1] /\ i \in 0..n
        BY <2>2, <3>2
      <4>2. u[i] = u[i - 1] \o e[i]
        BY <2>1, <3>2, <4>1 DEF UpTo
      <4> QED BY <3>2, <4>1, <4>2
    <3>3. CASE i = n + 1
      <4>1. v[i] = u[n] \o e[n + 1] /\ v[i - 1] = u[n] /\ i # 0
        BY <2>2, <3>3
      <4> QED BY <3>3, <4>1
    <3> QED BY <3>1, <3>2, <3>3
  <2>4. UpTo(v, e, n + 1)
    BY <2>2, <2>3 DEF UpTo
  <2> QED BY <2>4
<1> HIDE DEF S
<1>3. \A n \in Nat : n \in S
  BY <1>1, <1>2, AllNumbers
<1> QED BY <1>3 DEF S

\* What is put together of the first n does not depend on what follows.
SameTo(e, f, n) == \A i \in 1..n : e[i] = f[i]

LEMMA UpToUnique ==
  ASSUME NEW e, NEW f, NEW n \in Nat, SameTo(e, f, n),
         NEW u, NEW v, UpTo(u, e, n), UpTo(v, f, n + 1)
  PROVE  u[n] = v[n]
<1> DEFINE S == {i \in Nat : i <= n => u[i] = v[i]}
<1>1. 0 \in S
  BY DEF UpTo
<1>2. ASSUME NEW i \in Nat, i \in S
      PROVE  i + 1 \in S
  <2>1. SUFFICES ASSUME i + 1 <= n PROVE u[i + 1] = v[i + 1]
    OBVIOUS
  <2>2. u[i] = v[i] /\ e[i + 1] = f[i + 1]
    BY <1>2, <2>1 DEF SameTo
  <2>a. i + 1 \in 0..n /\ i + 1 \in 0..(n + 1) /\ i + 1 # 0
    BY <2>1
  <2>3. u[i + 1] = u[(i + 1) - 1] \o e[i + 1]
    <3>1. \A j \in 0..n : u[j] = IF j = 0 THEN <<>> ELSE u[j - 1] \o e[j]
      BY DEF UpTo
    <3> QED BY <2>a, <3>1
  <2>4. v[i + 1] = v[(i + 1) - 1] \o f[i + 1]
    <3>1. \A j \in 0..(n + 1) : v[j] = IF j = 0 THEN <<>> ELSE v[j - 1] \o f[j]
      BY DEF UpTo
    <3> QED BY <2>a, <3>1
  <2>5. (i + 1) - 1 = i
    OBVIOUS
  <2> QED BY <2>2, <2>3, <2>4, <2>5
<1> HIDE DEF S
<1>3. n \in S
  BY <1>1, <1>2, AllNumbers
<1> QED BY <1>3 DEF S

LEMMA BytesUpTo ==
  ASSUME NEW packets, Len(packets) \in Nat, NEW e, \A i \in 1..Len(packets) : e[i] = Out!Encoding(packets[i])
  PROVE  \E u : UpTo(u, e, Len(packets)) /\ Out!Bytes(packets) = u[Len(packets)]
<1>1. PICK v : UpTo(v, e, Len(packets))
  BY UpToExists
<1>2. PICK u : u = CHOOSE w : w = [n \in 0..Len(packets) |->
                                     IF n = 0 THEN <<>> ELSE w[n - 1] \o Out!Encoding(packets[n])]
  OBVIOUS
<1>3. \A w : UpTo(w, e, Len(packets)) <=>
               w = [n \in 0..Len(packets) |->
                      IF n = 0 THEN <<>> ELSE w[n - 1] \o Out!Encoding(packets[n])]
  <2>1. TAKE w
  <2>2. PICK g, h :
          /\ g = [n \in 0..Len(packets) |-> IF n = 0 THEN <<>> ELSE w[n - 1] \o e[n]]
          /\ h = [n \in 0..Len(packets) |->
                    IF n = 0 THEN <<>> ELSE w[n - 1] \o Out!Encoding(packets[n])]
    OBVIOUS
  <2>3. ASSUME NEW n \in 0..Len(packets) PROVE g[n] = h[n]
    <3>1. CASE n = 0
      BY <2>2, <3>1
    <3>2. CASE n # 0
      <4>1. e[n] = Out!Encoding(packets[n])
        BY <3>2
      <4> QED BY <2>2, <3>2, <4>1
    <3> QED BY <3>1, <3>2
  <2>4. g = h
    BY <2>2, <2>3
  <2> QED BY <2>2, <2>4 DEF UpTo
<1>4. UpTo(u, e, Len(packets))
  BY <1>1, <1>2, <1>3
<1>5. Out!Bytes(packets) = u[Len(packets)]
  BY <1>2 DEF Out!Bytes
<1> QED BY <1>4, <1>5

LEMMA BytesJoin ==
  ASSUME NEW s \in Seq(Byte), NEW t \in Seq(Byte), NEW u \in Seq(Byte)
  PROVE  (s \o t) \o u = s \o (t \o u)
BY ConcatAssociative

LEMMA Encodings ==
  ASSUME NEW p \in OutPackets
  PROVE  /\ Out!Encoding(p) \in Seq(Byte) /\ Len(Out!Encoding(p)) \in Nat \ {0}
         /\ Out!FdOf(p) \in Out!Fds /\ p # Out!None
<1>1. /\ p \in [type : {1, 2, 3}, data : Seq(Byte)] /\ p.data # <<>>
  BY SenderAssumption DEF COMMAND, ACL_DATA, SCO_DATA, Byte
<1>2. p.type \in Byte /\ p.data \in Seq(Byte) /\ Len(p.data) \in Nat \ {0}
  <2>1. p.type \in {1, 2, 3} /\ p.data \in Seq(Byte)
    BY <1>1
  <2>2. p.type \in Byte
    BY <2>1, ByteModAssumption DEF Byte
  <2>3. Len(p.data) \in Nat /\ Len(p.data) # 0
    BY <1>1, <2>1
  <2> QED BY <2>1, <2>2, <2>3
<1>3. <<p.type>> \in Seq(Byte) /\ Len(<<p.type>>) = 1
  BY <1>2
<1>4. Out!Encoding(p) \in Seq(Byte) /\ Len(Out!Encoding(p)) \in Nat \ {0}
  BY <1>2, <1>3 DEF Out!Encoding
<1>5. Out!FdOf(p) \in Out!Fds
  BY DEF Out!FdOf, Out!Fds
<1>6. p # Out!None
  BY <1>1 DEF Out!None
<1> QED BY <1>4, <1>5, <1>6

LEMMA BytesOfNone == Out!Bytes(<<>>) = <<>>
<1>1. PICK e, packets : e = <<>> /\ packets = <<>>
  OBVIOUS
<1>2. Len(packets) = 0
  BY <1>1
<1>3. Len(packets) \in Nat /\ \A i \in 1..Len(packets) : e[i] = Out!Encoding(packets[i])
  BY <1>2
<1>4. PICK u : UpTo(u, e, Len(packets)) /\ Out!Bytes(packets) = u[Len(packets)]
  BY <1>3, BytesUpTo
<1>5. UpTo(u, e, 0) /\ Out!Bytes(packets) = u[0]
  BY <1>2, <1>4
<1>6. u[0] = <<>>
  BY <1>5 DEF UpTo
<1> QED BY <1>1, <1>5, <1>6

LEMMA BytesOfMore ==
  ASSUME NEW packets \in Seq(OutPackets), NEW p \in OutPackets
  PROVE  Out!Bytes(Append(packets, p)) = Out!Bytes(packets) \o Out!Encoding(p)
<1>1. PICK n \in Nat, all \in Seq(OutPackets) : n = Len(packets) /\ all = Append(packets, p)
  <2>1. Len(packets) \in Nat /\ Append(packets, p) \in Seq(OutPackets)
    OBVIOUS
  <2> QED BY <2>1
<1>2. Len(all) = n + 1 /\ all[n + 1] = p /\ \A i \in 1..n : all[i] = packets[i]
  BY <1>1
<1>3. PICK e, f : /\ e = [i \in 1..n |-> Out!Encoding(packets[i])]
                  /\ f = [i \in 1..(n + 1) |-> Out!Encoding(all[i])]
  OBVIOUS
<1>4. \A i \in 1..n : e[i] = Out!Encoding(packets[i])
  BY <1>3
<1>5. \A i \in 1..(n + 1) : f[i] = Out!Encoding(all[i])
  BY <1>3
<1>6. PICK u : UpTo(u, e, n) /\ Out!Bytes(packets) = u[n]
  BY <1>1, <1>4, BytesUpTo
<1>7. PICK v : UpTo(v, f, n + 1) /\ Out!Bytes(all) = v[n + 1]
  <2>1. Len(all) \in Nat /\ \A i \in 1..Len(all) : f[i] = Out!Encoding(all[i])
    BY <1>2, <1>5
  <2>2. \E v : UpTo(v, f, Len(all)) /\ Out!Bytes(all) = v[Len(all)]
    BY <2>1, BytesUpTo
  <2> QED BY <1>2, <2>2
<1>8. v[n + 1] = v[n] \o f[n + 1]
  <2>1. \A j \in 0..(n + 1) : v[j] = IF j = 0 THEN <<>> ELSE v[j - 1] \o f[j]
    BY <1>7 DEF UpTo
  <2>2. n + 1 \in 0..(n + 1) /\ n + 1 # 0 /\ (n + 1) - 1 = n
    OBVIOUS
  <2> QED BY <2>1, <2>2
<1>9. u[n] = v[n]
  <2>1. SameTo(e, f, n)
    <3> SUFFICES ASSUME NEW i \in 1..n PROVE e[i] = f[i]
      BY DEF SameTo
    <3>1. e[i] = Out!Encoding(packets[i]) /\ f[i] = Out!Encoding(all[i]) /\ all[i] = packets[i]
      BY <1>2, <1>4, <1>5
    <3> QED BY <3>1
  <2>2. UpTo(u, e, n) /\ UpTo(v, f, n + 1)
    BY <1>6, <1>7
  <2> QED BY <2>1, <2>2, UpToUnique
<1>10. f[n + 1] = Out!Encoding(p)
  BY <1>2, <1>5
<1> QED BY <1>1, <1>6, <1>7, <1>8, <1>9, <1>10

LEMMA BytesKept ==
  ASSUME NEW packets, transport' = transport
  PROVE  Out!Bytes(packets)' = Out!Bytes(packets)
BY DEF Out!Bytes, Out!Encoding

\* What is left of the packet being written to a descriptor.
Rest(fd) == IF sending # Out!None /\ Out!FdOf(sending) = fd
            THEN SubSeq(Out!Encoding(sending), written + 1, Len(Out!Encoding(sending)))
            ELSE <<>>

Whole(fd) == out[fd] \o Rest(fd) = Out!Bytes(asked[fd])

OutTyped ==
    /\ transport \in {"h4", "mct"}
    /\ asked \in [Out!Fds -> Seq(OutPackets)] /\ out \in [Out!Fds -> Seq(Byte)]
    /\ sending \in OutPackets \cup {Out!None}
    /\ sending = Out!None => written = 0
    /\ sending # Out!None => written \in 0..(Len(Out!Encoding(sending)) - 1)

OutInv == OutTyped /\ (~shortSend => \A fd \in Out!Fds : Whole(fd))

LEMMA OutStarts == transport \in {"h4", "mct"} /\ Out!Init => OutInv
<1> SUFFICES ASSUME transport \in {"h4", "mct"}, Out!Init PROVE OutInv
  OBVIOUS
<1>1. /\ asked = [fd \in Out!Fds |-> <<>>] /\ out = [fd \in Out!Fds |-> <<>>]
      /\ sending = Out!None /\ written = 0
  BY DEF Out!Init
<1>2. OutTyped
  BY <1>1 DEF OutTyped
<1>3. ASSUME NEW fd \in Out!Fds PROVE Whole(fd)
  <2>1. out[fd] = <<>> /\ Rest(fd) = <<>> /\ asked[fd] = <<>>
    BY <1>1 DEF Rest
  <2>2. <<>> \o <<>> = <<>>
    OBVIOUS
  <2> QED BY <2>1, <2>2, BytesOfNone DEF Whole
<1> QED BY <1>2, <1>3 DEF OutInv

LEMMA OutSends ==
  ASSUME OutInv, NEW p \in OutPackets, Out!Send(p)
  PROVE  OutInv'
<1>1. sending = Out!None /\ UNCHANGED <<transport, out, written, shortSend>>
  BY DEF Out!Send, Out!lineVars
<1>2. CASE UNCHANGED <<sending, asked>>
  <2>1. OutTyped'
    BY <1>1, <1>2 DEF OutInv, OutTyped, Out!Encoding
  <2>2. ASSUME NEW fd \in Out!Fds, Whole(fd) PROVE Whole(fd)'
    <3>1. Rest(fd) = <<>> /\ Rest(fd)' = <<>>
      BY <1>1, <1>2 DEF Rest, Out!None
    <3>2. PICK packets : packets = asked[fd]
      OBVIOUS
    <3>3. Out!Bytes(packets)' = Out!Bytes(packets)
      BY <1>1, BytesKept
    <3> QED BY <1>1, <1>2, <2>2, <3>1, <3>2, <3>3 DEF Whole
  <2> QED BY <1>1, <2>1, <2>2 DEF OutInv
<1>3. CASE sending' = p /\ asked' = [asked EXCEPT ![Out!FdOf(p)] = Append(@, p)]
  <2>1. PICK b \in Out!Fds, e \in Seq(Byte) : b = Out!FdOf(p) /\ e = Out!Encoding(p)
    BY Encodings
  <2>2. /\ Out!FdOf(p)' = b /\ Out!Encoding(p)' = e /\ Len(e) \in Nat \ {0}
        /\ p # Out!None /\ written = 0 /\ Out!None' = Out!None
    BY <1>1, <2>1, Encodings DEF Out!FdOf, Out!Encoding, OutInv, OutTyped, Out!None
  <2>3. /\ asked'[b] = Append(asked[b], p) /\ asked[b] \in Seq(OutPackets)
        /\ \A fd \in Out!Fds : fd # b => asked'[fd] = asked[fd]
    BY <1>3, <2>1 DEF OutInv, OutTyped
  <2>4. OutTyped'
    <3>1. asked' \in [Out!Fds -> Seq(OutPackets)]
      BY <1>3, <2>1, <2>3 DEF OutInv, OutTyped
    <3>2. Out!Encoding(sending)' = e /\ sending' # Out!None' /\ written' \in 0..(Len(e) - 1)
      BY <1>1, <1>3, <2>2
    <3> QED BY <1>1, <1>3, <3>1, <3>2 DEF OutInv, OutTyped, Out!None
  <2>5. ASSUME NEW fd \in Out!Fds, Whole(fd) PROVE Whole(fd)'
    <3>1. Rest(fd) = <<>> /\ out[fd] \in Seq(Byte)
      BY <1>1 DEF Rest, OutInv, OutTyped
    <3>2. out[fd] = Out!Bytes(asked[fd])
      BY <2>5, <3>1 DEF Whole
    <3>3. PICK packets : packets = asked[fd]
      OBVIOUS
    <3>4. CASE fd = b
      <4>1. Rest(fd)' = e
        <5>1. Rest(fd)' = SubSeq(e, 1, Len(e))
          BY <1>1, <1>3, <2>2, <3>4 DEF Rest
        <5> QED BY <5>1, SubSeqFull
      <4>2. Out!Bytes(Append(packets, p))' = Out!Bytes(packets) \o e
        BY <1>1, <2>1, <2>3, <3>3, <3>4, BytesKept, BytesOfMore
      <4> QED BY <1>1, <2>3, <3>2, <3>3, <3>4, <4>1, <4>2 DEF Whole
    <3>5. CASE fd # b
      <4>1. Rest(fd)' = <<>>
        BY <1>3, <2>2, <3>5 DEF Rest
      <4>2. Out!Bytes(packets)' = Out!Bytes(packets)
        BY <1>1, BytesKept
      <4> QED BY <1>1, <2>3, <3>1, <3>2, <3>3, <3>5, <4>1, <4>2 DEF Whole
    <3> QED BY <3>4, <3>5
  <2> QED BY <1>1, <2>4, <2>5 DEF OutInv
<1> QED BY <1>2, <1>3 DEF Out!Send

LEMMA OutWrites ==
  ASSUME OutInv, Out!Write
  PROVE  OutInv'
<1>1. PICK n \in 1..Out!Left :
        /\ out' = [out EXCEPT ![Out!FdOf(sending)] = @ \o Out!NextBytes(n)]
        /\ Out!AfterWrite(n)
  BY DEF Out!Write
<1>2. sending # Out!None /\ sending \in OutPackets /\ UNCHANGED <<transport, asked>>
  BY DEF Out!Write, Out!lineVars, OutInv, OutTyped
<1>3. PICK q \in OutPackets, b \in Out!Fds, e \in Seq(Byte), w \in Nat, l \in Nat :
        /\ q = sending /\ b = Out!FdOf(q) /\ e = Out!Encoding(q) /\ w = written /\ l = Len(e)
        /\ w < l
  <2>1. Out!Encoding(sending) \in Seq(Byte) /\ Out!FdOf(sending) \in Out!Fds
    BY <1>2, Encodings
  <2>2. written \in 0..(Len(Out!Encoding(sending)) - 1) /\ Len(Out!Encoding(sending)) \in Nat
    BY <1>2, <2>1 DEF OutInv, OutTyped
  <2>3. written \in Nat /\ written < Len(Out!Encoding(sending))
    BY <2>2
  <2> QED BY <1>2, <2>1, <2>2, <2>3
<1>4. Out!FdOf(q)' = b /\ Out!Encoding(q)' = e /\ Out!None' = Out!None
  BY <1>2, <1>3 DEF Out!FdOf, Out!Encoding, Out!None
<1>5. n \in 1..(l - w)
  BY <1>1, <1>3 DEF Out!Left
<1>6. PICK now, later : now = SubSeq(e, w + 1, w + n) /\ later = SubSeq(e, w + n + 1, l)
  OBVIOUS
<1>7. /\ now \in Seq(Byte) /\ later \in Seq(Byte)
      /\ now \o later = SubSeq(e, w + 1, l)
  <2>1. now \in Seq(Byte) /\ later \in Seq(Byte)
    BY <1>3, <1>5, <1>6
  <2>2. w + 1 \in 1..(Len(e) + 1) /\ w + n \in w..Len(e) /\ (w + 1) - 1 = w
    BY <1>3, <1>5
  <2>3. now \o later = SubSeq(e, w + 1, l)
    BY <1>3, <1>5, <1>6, <2>2, ConcatAdjacentSubSeq
  <2> QED BY <2>1, <2>3
<1>8. /\ out' \in [Out!Fds -> Seq(Byte)] /\ out[b] \in Seq(Byte)
      /\ out'[b] = out[b] \o now
      /\ \A fd \in Out!Fds : fd # b => out'[fd] = out[fd]
  <2>1. out' = [out EXCEPT ![b] = @ \o now]
    BY <1>1, <1>3, <1>6 DEF Out!NextBytes
  <2> QED BY <1>3, <1>7, <2>1 DEF OutInv, OutTyped
<1>9. \/ /\ sending' = Out!None /\ written' = 0
         /\ shortSend' = (shortSend \/ n < l - w)
      \/ /\ sending' = sending /\ written' = w + n /\ shortSend' = shortSend
         /\ n < l - w
  <2>1. CASE transport = "h4" \/ n = Out!Left
    BY <1>1, <1>3, <2>1 DEF Out!AfterWrite, Out!Return, Out!Left
  <2>2. CASE ~(transport = "h4" \/ n = Out!Left)
    BY <1>1, <1>3, <1>5, <2>2 DEF Out!AfterWrite, Out!Left
  <2> QED BY <2>1, <2>2
<1>10. OutTyped'
  <2>1. CASE sending' = Out!None /\ written' = 0
    BY <1>2, <1>4, <1>8, <2>1 DEF OutInv, OutTyped
  <2>2. CASE sending' = sending /\ written' = w + n /\ n < l - w
    <3>1. Out!Encoding(sending)' = e /\ written' \in 0..(l - 1)
      BY <1>3, <1>4, <1>5, <2>2
    <3> QED BY <1>2, <1>3, <1>4, <1>8, <2>2, <3>1 DEF OutInv, OutTyped
  <2> QED BY <1>9, <2>1, <2>2
<1>11. ASSUME ~shortSend', NEW fd \in Out!Fds
       PROVE  Whole(fd)'
  <2>1. Whole(fd)
    BY <1>9, <1>11 DEF OutInv
  <2>2. PICK packets : packets = asked[fd]
    OBVIOUS
  <2>3. Out!Bytes(packets)' = Out!Bytes(packets)
    BY <1>2, BytesKept
  <2>4. CASE fd # b
    <3>1. Rest(fd) = <<>>
      BY <1>3, <2>4 DEF Rest
    <3>2. Rest(fd)' = <<>>
      BY <1>3, <1>4, <1>9, <2>4 DEF Rest
    <3> QED BY <1>2, <1>8, <2>1, <2>2, <2>3, <2>4, <3>1, <3>2 DEF Whole
  <2>5. CASE fd = b
    <3>1. Rest(fd) = now \o later
      BY <1>2, <1>3, <1>7, <2>5 DEF Rest
    <3>2. Rest(fd)' = later
      <4>1. CASE sending' = Out!None
        <5>1. n = l - w
          <6>1. shortSend' = (shortSend \/ n < l - w)
            BY <1>2, <1>9, <4>1, Zenon
          <6>2. ~(n < l - w)
            BY <1>11, <6>1, Zenon
          <6> QED BY <1>3, <1>5, <6>2
        <5>2. w + n + 1 = l + 1 /\ Len(e) = l
          BY <1>3, <5>1
        <5>3. later = <<>>
          BY <1>6, <5>2, SubSeqEmpty
        <5>4. Rest(fd)' = <<>>
          BY <1>4, <4>1 DEF Rest
        <5> QED BY <5>3, <5>4
      <4>2. CASE sending' = sending /\ written' = w + n
        BY <1>2, <1>3, <1>4, <1>6, <2>5, <4>2 DEF Rest
      <4> QED BY <1>9, <4>1, <4>2
    <3>3. (out[b] \o now) \o later = out[b] \o (now \o later)
      <4>1. PICK o \in Seq(Byte) : o = out[b]
        BY <1>8
      <4>2. (o \o now) \o later = o \o (now \o later)
        BY <1>7, BytesJoin
      <4> QED BY <4>1, <4>2
    <3> QED BY <1>2, <1>8, <2>1, <2>2, <2>3, <2>5, <3>1, <3>2, <3>3 DEF Whole
  <2> QED BY <2>4, <2>5
<1> QED BY <1>10, <1>11 DEF OutInv

LEMMA OutStep == OutInv /\ [Out!Next]_<<transport, outVars>> => OutInv'
<1> SUFFICES ASSUME OutInv, [Out!Next]_<<transport, outVars>>
             PROVE  OutInv'
  OBVIOUS
<1>1. CASE UNCHANGED <<transport, asked, out, sending, written, shortSend>>
  <2>1. OutTyped'
    BY <1>1 DEF OutInv, OutTyped, Out!Encoding, Out!None
  <2>2. ASSUME NEW fd \in Out!Fds, Whole(fd) PROVE Whole(fd)'
    <3>1. Rest(fd)' = Rest(fd)
      BY <1>1 DEF Rest, Out!None, Out!FdOf, Out!Encoding
    <3>2. PICK packets : packets = asked[fd]
      OBVIOUS
    <3>3. Out!Bytes(packets)' = Out!Bytes(packets)
      BY <1>1, BytesKept
    <3> QED BY <1>1, <2>2, <3>1, <3>2, <3>3 DEF Whole
  <2> QED BY <1>1, <2>1, <2>2 DEF OutInv
<1>2. CASE Out!WriteFails
  <2>1. shortSend' = TRUE /\ sending' = Out!None /\ written' = 0 /\ UNCHANGED <<transport, asked, out>>
    BY <1>2 DEF Out!WriteFails, Out!Return, Out!lineVars
  <2>2. OutTyped'
    BY <2>1 DEF OutInv, OutTyped, Out!Encoding, Out!None
  <2> QED BY <2>1, <2>2 DEF OutInv
<1>3. CASE (\E fd \in Out!Fds : Out!ControllerTakes(fd)) \/ Out!Hangup \/ UNCHANGED <<transport, outVars>>
  BY <1>1, <1>3 DEF Out!ControllerTakes, Out!Hangup, Out!sendVars, outVars
<1>4. CASE (\E p \in OutPackets : Out!Send(p)) \/ Out!Write
  BY <1>4, OutSends, OutWrites
<1> QED BY <1>2, <1>3, <1>4 DEF Out!Next

\* What a descriptor has taken and the controller has not is what it has room for.
Fits == /\ direction \in {"in", "out"} /\ mctFatal \in BOOLEAN
        /\ outUp \in BOOLEAN /\ shortSend \in BOOLEAN /\ outFatal \in BOOLEAN
        /\ taken \in [Out!Fds -> Nat]
        /\ \A fd \in Out!Fds : Len(out[fd]) - taken[fd] \in 0..UartCapacity

LEMMA FitsStart == Init => Fits
<1> SUFFICES ASSUME Init PROVE Fits
  OBVIOUS
<1>1. /\ direction \in {"in", "out"} /\ mctFatal = FALSE
      /\ outUp = TRUE /\ shortSend = FALSE /\ outFatal = FALSE
      /\ taken = [fd \in Out!Fds |-> 0] /\ out = [fd \in Out!Fds |-> <<>>]
  BY DEF Init, Mct!Init, Out!Init
<1>2. ASSUME NEW fd \in Out!Fds PROVE Len(out[fd]) - taken[fd] \in 0..UartCapacity
  <2>1. Len(out[fd]) = 0 /\ taken[fd] = 0
    BY <1>1
  <2> QED BY <2>1, SenderAssumption
<1> QED BY <1>1, <1>2 DEF Fits

LEMMA WriteFits ==
  ASSUME OutInv, Fits, direction' = direction, mctFatal' \in BOOLEAN, Out!Write
  PROVE  Fits'
<1>1. PICK n \in 1..Out!Left :
        /\ n <= Out!Free(Out!FdOf(sending))
        /\ out' = [out EXCEPT ![Out!FdOf(sending)] = @ \o Out!NextBytes(n)]
        /\ Out!AfterWrite(n)
  BY DEF Out!Write
<1>2. /\ sending # Out!None /\ sending \in OutPackets
      /\ UNCHANGED <<transport, taken, outUp, outFatal>>
  BY DEF Out!Write, Out!lineVars, OutInv, OutTyped
<1>3. PICK b \in Out!Fds, e \in Seq(Byte), w \in Nat, l \in Nat :
        /\ b = Out!FdOf(sending) /\ e = Out!Encoding(sending) /\ w = written /\ l = Len(e)
        /\ w < l
  <2>1. Out!Encoding(sending) \in Seq(Byte) /\ Out!FdOf(sending) \in Out!Fds
    BY <1>2, Encodings
  <2>2. written \in 0..(Len(Out!Encoding(sending)) - 1) /\ Len(Out!Encoding(sending)) \in Nat
    BY <1>2, <2>1 DEF OutInv, OutTyped
  <2>3. written \in Nat /\ written < Len(Out!Encoding(sending))
    BY <2>2
  <2> QED BY <2>1, <2>2, <2>3
<1>4. n \in 1..(l - w) /\ n <= UartCapacity - (Len(out[b]) - taken[b])
  BY <1>1, <1>3 DEF Out!Left, Out!Free
<1>5. PICK now : now = SubSeq(e, w + 1, w + n)
  OBVIOUS
<1>6. now \in Seq(Byte) /\ Len(now) = n
  BY <1>3, <1>4, <1>5
<1>7. ASSUME NEW fd \in Out!Fds PROVE Len(out'[fd]) - taken'[fd] \in 0..UartCapacity
  <2>1. out[fd] \in Seq(Byte) /\ out \in [Out!Fds -> Seq(Byte)] /\ taken[fd] \in Nat
    BY DEF Fits, OutInv, OutTyped
  <2>2. Len(out[fd]) - taken[fd] \in 0..UartCapacity /\ Len(out[fd]) \in Nat /\ taken'[fd] = taken[fd]
    BY <1>2, <2>1 DEF Fits
  <2>3. out' = [out EXCEPT ![b] = @ \o now]
    BY <1>1, <1>3, <1>5 DEF Out!NextBytes
  <2>4. CASE fd = b
    <3>1. out'[fd] = out[fd] \o now
      BY <2>1, <2>3, <2>4
    <3>2. PICK o \in Seq(Byte) : o = out[fd]
      BY <2>1
    <3>3. Len(o \o now) = Len(o) + n
      BY <1>6
    <3>4. Len(out'[fd]) = Len(out[fd]) + n
      BY <3>1, <3>2, <3>3
    <3>5. PICK x \in Nat, y \in Nat : x = Len(out[fd]) /\ y = taken[fd]
      BY <2>1, <2>2
    <3>6. UartCapacity \in Nat /\ x - y \in 0..UartCapacity /\ n <= UartCapacity - (x - y)
      BY <1>4, <2>2, <2>4, <3>5, SenderAssumption
    <3>7. n \in Nat
      BY <1>4
    <3>8. (x + n) - y \in 0..UartCapacity
      BY <3>6, <3>7
    <3>9. Len(out'[fd]) - taken'[fd] = (x + n) - y
      BY <2>2, <3>4, <3>5
    <3> QED BY <3>8, <3>9
  <2>5. CASE fd # b
    BY <2>1, <2>2, <2>3, <2>5
  <2> QED BY <2>4, <2>5
<1>8. shortSend' \in BOOLEAN
  BY <1>1, Zenon DEF Fits, Out!AfterWrite, Out!Return
<1> QED BY <1>2, <1>7, <1>8 DEF Fits

LEMMA FitsStep ==
  ASSUME OutInv, Fits, direction' = direction, mctFatal' \in BOOLEAN,
         [Out!Next]_<<transport, outVars>>
  PROVE  Fits'
<1>1. CASE UNCHANGED <<out, taken>> /\ outUp' \in BOOLEAN /\ shortSend' \in BOOLEAN
           /\ outFatal' \in BOOLEAN
  BY <1>1 DEF Fits
<1>2. CASE UNCHANGED <<transport, outVars>> \/ Out!Hangup \/ Out!WriteFails
  BY <1>1, <1>2 DEF Fits, outVars, Out!Hangup, Out!WriteFails, Out!Return, Out!sendVars, Out!lineVars
<1>3. ASSUME NEW p \in OutPackets, Out!Send(p) PROVE Fits'
  BY <1>1, <1>3 DEF Fits, Out!Send, Out!lineVars
<1>4. ASSUME NEW fd \in Out!Fds, Out!ControllerTakes(fd) PROVE Fits'
  <2>1. /\ taken' = [taken EXCEPT ![fd] = Len(out[fd])]
        /\ UNCHANGED <<out, outUp, shortSend, outFatal>>
    BY <1>4 DEF Out!ControllerTakes, Out!sendVars
  <2>2. Len(out[fd]) \in Nat
    BY DEF OutInv, OutTyped
  <2>3. taken' \in [Out!Fds -> Nat]
    BY <2>1, <2>2 DEF Fits
  <2>4. ASSUME NEW g \in Out!Fds PROVE Len(out'[g]) - taken'[g] \in 0..UartCapacity
    <3>1. CASE g = fd
      BY <2>1, <2>2, <3>1, SenderAssumption DEF Fits
    <3>2. CASE g # fd
      BY <2>1, <3>2 DEF Fits
    <3> QED BY <3>1, <3>2
  <2> QED BY <2>1, <2>3, <2>4 DEF Fits
<1> QED BY <1>2, <1>3, <1>4, WriteFits DEF Out!Next

(***************************************************************************)
(* The theorems.                                                           *)
(***************************************************************************)
IInv == H4Inv /\ MctInv /\ OutInv /\ Fits

LEMMA InitIInv == Init => IInv
<1> SUFFICES ASSUME Init PROVE IInv
  OBVIOUS
<1>1. transport \in {"h4", "mct"}
  BY DEF Init, TransportFor
<1> QED BY <1>1, H4Starts, MctStarts, OutStarts, FitsStart DEF Init, IInv

LEMMA NextParts ==
  [Next]_vars => /\ [H4!Next]_h4Vars
                 /\ [Mct!Next]_mctVars
                 /\ [Out!Next]_<<transport, outVars>>
BY DEF Next, Receives, Sends, vars

LEMMA NextIInv == IInv /\ [Next]_vars => IInv'
<1> SUFFICES ASSUME IInv, [Next]_vars PROVE IInv'
  OBVIOUS
<1>1. H4Inv' /\ MctInv' /\ OutInv'
  BY NextParts, H4Step, MctStep, OutStep DEF IInv
<1>2. direction' = direction
  BY DEF Next, Receives, Sends, vars
<1>3. mctFatal' \in BOOLEAN
  BY NextParts DEF IInv, Fits, mctVars, Mct!Next, Mct!ControllerSends, Mct!Hangup, Mct!OnDataReady,
                   Mct!ReadNothing, Mct!ReadFails
<1>4. Fits'
  BY <1>2, <1>3, NextParts, FitsStep DEF IInv
<1> QED BY <1>1, <1>4 DEF IInv

\* What the transports have read and delivered, what is on the wires and what was
\* written agree in every reachable state, whatever the packets and the cuts.
THEOREM Invariance == Spec => []IInv
BY InitIInv, NextIInv, PTL DEF Spec

\* The fields of both transports keep their ranges: no read() goes beyond the buffer
\* it fills, no write() beyond its packet, nor does a descriptor take more than it
\* has room for.
THEOREM TypeCorrect == Spec => []TypeOK
<1>1. IInv => H4!TypeOK
  <2> SUFFICES ASSUME IInv PROVE H4!TypeOK
    OBVIOUS
  <2>1. PICK stream, start, r : H4At(stream, start, r)
    BY DEF IInv, H4Inv
  <2>2. CASE hciPacketType = UNKNOWN /\ packetizer = NewPacketizer
    BY <2>2, H4Packetizer DEF IInv, H4Inv, H4Typed, H4Ends, H4!TypeOK
  <2>3. CASE /\ Len(delivered) < Len(sent)
             /\ hciPacketType = sent[Len(delivered) + 1].type
             /\ HasRead(packetizer, hciPacketType, sent[Len(delivered) + 1].data, r)
    <3>1. PICK q \in Packets : q = sent[Len(delivered) + 1]
      <4>1. Len(delivered) + 1 \in 1..Len(sent)
        BY <2>3 DEF IInv, H4Inv, H4Typed
      <4> QED BY <4>1 DEF IInv, H4Inv, H4Typed
    <3>2. hciPacketType \in Carries /\ PacketizerOK(packetizer, hciPacketType)
      BY <2>3, <3>1, PacketFields, ReadInBounds
    <3>3. hciPacketType # UNKNOWN
      BY <3>2, Sizes DEF Carries
    <3> QED BY <3>2, <3>3, H4Packetizer DEF Carries, IInv, H4Inv, H4Typed, H4Ends, H4!TypeOK
  <2> QED BY <2>1, <2>2, <2>3 DEF H4At
<1>2. IInv => Mct!TypeOK
  <2> SUFFICES ASSUME IInv, NEW c \in Mct!In PROVE PacketizerOK(mctPacketizer[c], c)
    BY MctPacketizer DEF IInv, MctInv, MctEnds, Fits, Mct!TypeOK
  <2>1. PICK stream, start, r : ChannelAt(c, stream, start, r)
    BY DEF IInv, MctInv
  <2>2. CASE mctPacketizer[c] = NewPacketizer
    <3>1. c \in {ACL_DATA, EVENT}
      BY MctPacketizer DEF Mct!In
    <3>2. PreambleSize[c] \in {2, 4}
      BY <3>1, Sizes
    <3>3. mctPacketizer[c].state = "preamble" /\ Len(mctPacketizer[c].preamble) = 0
      BY <2>2 DEF NewPacketizer
    <3> QED BY <3>2, <3>3 DEF PacketizerOK
  <2>3. CASE /\ Len(mctDelivered[c]) < Len(mctSent[c])
             /\ HasRead(mctPacketizer[c], c, mctSent[c][Len(mctDelivered[c]) + 1].data, r)
    <3>1. /\ mctSent[c] \in Seq(Packets) /\ mctDelivered[c] \in Seq(Packets)
          /\ \A i \in 1..Len(mctSent[c]) : mctSent[c][i].type = c
      BY DEF IInv, MctInv, MctTyped
    <3>2. Len(mctDelivered[c]) + 1 \in 1..Len(mctSent[c])
      BY <2>3, <3>1
    <3>3. PICK q \in Packets : q = mctSent[c][Len(mctDelivered[c]) + 1] /\ q.type = c
      BY <3>1, <3>2
    <3> QED BY <2>3, <3>3, ReadInBounds
  <2> QED BY <2>1, <2>2, <2>3 DEF ChannelAt
<1>3. IInv => Out!TypeOK
  BY DEF IInv, OutInv, OutTyped, Fits, Out!TypeOK
<1>4. IInv => TypeOK
  BY <1>1, <1>2, <1>3 DEF IInv, Fits, TypeOK
<1> QED BY <1>4, Invariance, PTL

\* H4 hands over the packets of the controller whole and in order, whatever their
\* bytes look like: every step of it is one of PacketLink, or shows nothing.
THEOREM H4Refines == Spec => H4!Link!Spec
<1>1. Init => H4!Link!Init
  BY H4Starts DEF Init
<1>2. IInv /\ [Next]_vars => [H4!Link!Next]_(H4!Link!vars)
  BY NextParts, H4Step DEF IInv
<1> QED BY <1>1, <1>2, Invariance, PTL DEF Spec, H4!Link!Spec

\* So does each receiving channel of MCT.
THEOREM MctRefines == Spec => Mct!EventLink!Spec /\ Mct!AclLink!Spec
<1>1. Init => Mct!EventLink!Init /\ Mct!AclLink!Init
  BY MctStarts DEF Init
<1>2. IInv /\ [Next]_vars => [Mct!EventLink!Next]_(Mct!EventLink!vars) /\ [Mct!AclLink!Next]_(Mct!AclLink!vars)
  BY NextParts, MctStep DEF IInv
<1> QED BY <1>1, <1>2, Invariance, PTL DEF Spec, Mct!EventLink!Spec, Mct!AclLink!Spec

\* A line that is up is never taken for closed, nor a byte of a packet for a type
\* byte that is none, which would end the process: the end of the file is not seen
\* if every packet has a payload.
THEOREM LinesStay ==
  Spec => [](/\ fatal => ~up
             /\ Payloads => H4!EofOnlyWhenDown /\ Mct!EofOnlyWhenDown)
<1>1. IInv => /\ fatal => ~up
              /\ Payloads => H4!EofOnlyWhenDown /\ Mct!EofOnlyWhenDown
  BY DEF IInv, H4Inv, H4Ends, MctInv, MctEnds, H4!EofOnlyWhenDown, Mct!EofOnlyWhenDown
<1> QED BY <1>1, Invariance, PTL

\* What is written to a descriptor is the packets whole and in order while no Send
\* has returned short, through short writes and full descriptors.
THEOREM PacketsOutWhole == Spec => []OutgoingWhole
<1>1. IInv => OutgoingWhole
  BY DEF IInv, OutInv, Whole, Rest, OutgoingWhole, Out!OutgoingWhole
<1> QED BY <1>1, Invariance, PTL

=============================================================================
