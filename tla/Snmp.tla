-------------------------------- MODULE Snmp --------------------------------
(***************************************************************************)
(* nanosrv's SNMP: the builder of GET requests, the reader of ASN.1 and    *)
(* the parser of requests and responses (nanosoft/snmp), over UDP to a     *)
(* device, which is external, as BER has it.  A byte is a number; an int   *)
(* is its four bytes.  A reader is a function of a message m and of two    *)
(* positions in it where the code has pointers: p, where it reads, and     *)
(* limit, the first that it must not read.                                 *)
(***************************************************************************)
LOCAL INSTANCE Integers
LOCAL INSTANCE Sequences
LOCAL INSTANCE SequencesExt

CONSTANTS
  Communities,  \* bound: communities, as bytes,
  Oids,         \* object identifiers,
  Ids,          \* request ids
  DeviceValues, \* and values, as ints
  MaxOids,      \* bound: identifiers in a request
  MaxCut        \* bound: the size of a datagram that is cut

VARIABLES
  datagram,     \* what is on its way: its bytes, and what they are to say
  parsed        \* what the parser made of it: [datagram, result]

snmp_vars == <<datagram, parsed>>

NoDatagram == [whole |-> FALSE]

SnmpInit == datagram = NoDatagram /\ parsed = [datagram |-> NoDatagram]

-----------------------------------------------------------------------------
(* The builder. *)

Message == Seq(Nat)
Byte(n) == n % 256
SaveLen(n) == <<Byte(n \div 256), Byte(n)>>

RECURSIVE Digits(_)
Digits(value) ==
  IF value = 0 THEN <<>> ELSE <<value % 128>> \o Digits(value \div 128)

(* Mutant of SaveOIDItem: the last byte is marked as the others are. *)
SaveOIDItemMarked(value) ==
  IF value = 0 THEN <<0>>
  ELSE [i \in 1..Len(Digits(value)) - 1 |-> Digits(value)[i + 1] + 128]
         \o <<128 + (value % 128)>>

(* saveOIDItem(): the lowest digit goes last, but the others go lowest     *)
(* first as well.                                                          *)
SaveOIDItem(value) ==
  IF value = 0 THEN <<0>>
  ELSE [i \in 1..Len(Digits(value)) - 1 |-> Digits(value)[i + 1] + 128]
         \o <<value % 128>>

SaveOID(oid) ==
  LET items == SaveOIDItem(oid[1] * 40 + oid[2])
                 \o FlattenSeq([i \in 1..Len(oid) - 2 |-> SaveOIDItem(oid[i + 2])])
  IN <<6, Byte(Len(items))>> \o items

(* addNull(): one byte for the length, however long the identifier is.     *)
AddNull(oid) ==
  <<48, Byte(Len(SaveOID(oid)) + 2)>> \o SaveOID(oid) \o <<5, 0>>

(* reset(), setCommand(), setRequestID(), addNull() for each identifier    *)
(* and commit(), as sendGET() and des3028Stat() call them.                 *)
GetRequest(community, id, oids) ==
  LET bindings == FlattenSeq([i \in DOMAIN oids |-> AddNull(oids[i])])
      command == <<2, 4>> \o id \o <<2, 1, 0>> \o <<2, 1, 0>>
                   \o <<48, 130>> \o SaveLen(Len(bindings)) \o bindings
      body == <<2, 1, 1>> \o <<4, Len(community)>> \o community
                \o <<160, 130>> \o SaveLen(Len(command)) \o command
  IN <<48, 130>> \o SaveLen(Len(body)) \o body

-----------------------------------------------------------------------------
(* The device's part: BER with lengths as short as may be, or not.         *)

BerLen[n \in Nat, short \in BOOLEAN] ==
  CASE short /\ n < 128 -> <<n>>
    [] short /\ n \in 128..255 -> <<129, n>>
    [] OTHER -> <<130>> \o SaveLen(n)

Tlv[type \in Nat, bytes \in Message, short \in BOOLEAN] ==
  <<type>> \o BerLen[Len(bytes), short] \o bytes

BerItem[value \in Nat] ==
  IF value < 128 THEN <<value>>
  ELSE [i \in DOMAIN Digits(value) |->
          LET n == Len(Digits(value))
          IN Digits(value)[n + 1 - i] + (IF i < n THEN 128 ELSE 0)]

(* An int that is not negative, as few bytes as may be. *)
BerInt[type \in Nat, value \in Message, short \in BOOLEAN] ==
  LET zeros == CHOOSE n \in 0..3 : /\ \A i \in 1..n : value[i] = 0
                                   /\ n < 3 => value[n + 1] # 0
      bytes == SubSeq(value, zeros + 1, 4)
  IN Tlv[type, IF bytes[1] < 128 THEN bytes ELSE <<0>> \o bytes, short]

Response(d, values, short) ==
  LET Oid(oid) == BerItem[oid[1] * 40 + oid[2]]
                    \o FlattenSeq([i \in 1..Len(oid) - 2 |-> BerItem[oid[i + 2]]])
      Binding(i) ==
        Tlv[48, Tlv[6, Oid(d.oids[i]), short] \o BerInt[65, values[i], short], short]
      bindings == Tlv[48, FlattenSeq([i \in DOMAIN d.oids |-> Binding(i)]), short]
      zero == BerInt[2, <<0, 0, 0, 0>>, short]
      command == Tlv[162, BerInt[2, d.id, short] \o zero \o zero \o bindings, short]
      one == BerInt[2, <<0, 0, 0, 1>>, short]
  IN Tlv[48, one \o Tlv[4, d.community, short] \o command, short]

-----------------------------------------------------------------------------
(* The reader. *)

NotRead == [ok |-> FALSE]

(* readHeader(); a length is counted no further than what is too long.     *)
ReadHeader[m \in Message, p \in Nat, limit \in Nat] ==
  LET count == IF m[p + 1] < 128 THEN 0 ELSE m[p + 1] - 128
      data == p + 2 + count
      Number[i \in p + 1..data - 1] ==
        IF i = p + 1 THEN 0
        ELSE IF Number[i - 1] > Len(m) THEN Number[i - 1] ELSE Number[i - 1] * 256 + m[i]
      length == IF m[p + 1] < 128 THEN m[p + 1] ELSE Number[data - 1]
  IN IF p + 1 >= limit \/ count > 4 \/ data > limit \/ data + length > limit
     THEN NotRead
     ELSE [ok |-> TRUE, type |-> m[p], length |-> length,
           data |-> data, limit |-> data + length]

Value(h, value) == [ok |-> TRUE, value |-> value, next |-> h.limit]

(* readInt(): what an int keeps of the bytes, and no sign. *)
ReadInt[m \in Message, p \in Nat, limit \in Nat] ==
  LET h == ReadHeader[m, p, limit]
      Kept(q) == IF q < h.data THEN 0 ELSE m[q]
  IN IF ~h.ok \/ h.type \notin {2, 65} THEN NotRead
     ELSE Value(h, [i \in 1..4 |-> Kept(h.limit - 5 + i)])

ReadString[m \in Message, p \in Nat, limit \in Nat] ==
  LET h == ReadHeader[m, p, limit]
  IN IF ~h.ok \/ h.type # 4 \/ h.length > 255 THEN NotRead
     ELSE Value(h, SubSeq(m, h.data, h.limit - 1))

ReadNULL[m \in Message, p \in Nat, limit \in Nat] ==
  LET h == ReadHeader[m, p, limit]
  IN IF ~h.ok \/ h.type # 5 THEN NotRead ELSE Value(h, <<>>)

(* One loop of readOID(), up to a byte that is not marked or to the end.   *)
(* An int has 31 bits here, and no message of the other end has more.      *)
ReadItem[m \in Message, p \in Nat, end \in Nat] ==
  LET last == CHOOSE q \in p..end : /\ \A r \in p..q - 1 : m[r] >= 128
                                    /\ q < end => m[q] < 128
      next == IF last < end THEN last + 1 ELSE end
      Item[q \in p..next] ==
        IF q = p THEN 0 ELSE (Item[q - 1] % 16777216) * 128 + (m[q - 1] % 128)
  IN [value |-> Item[next], next |-> next]

(* readOID(): the first item is two, and the others are read up to limit,  *)
(* which may lie behind the identifier's own end.                          *)
ReadItems[m \in Message, p \in Nat, end \in Nat, limit \in Nat, oid \in Message] ==
  LET item == ReadItem[m, p, limit]
  IN IF p >= end THEN [ok |-> TRUE, oid |-> oid]
     ELSE IF Len(oid) > 128 THEN NotRead
     ELSE ReadItems[m, item.next, end, limit, Append(oid, item.value)]

ReadOID[m \in Message, p \in Nat, limit \in Nat] ==
  LET h == ReadHeader[m, p, limit]
      first == ReadItem[m, h.data, h.limit]
      pair == <<first.value \div 40, first.value % 40>>
      all == ReadItems[m, first.next, h.limit, limit, pair]
  IN IF ~h.ok \/ h.type # 6 THEN NotRead
     ELSE IF all.ok THEN Value(h, all.oid) ELSE NotRead

-----------------------------------------------------------------------------
(* The parser. *)

(* parseGetValue() and parseResponseValue(), for the value at p. *)
ParseValue[m \in Message, p \in Nat, limit \in Nat, type \in Nat] ==
  LET h == ReadHeader[m, p, limit]
      oid == ReadOID[m, h.data, h.limit]
      value == IF type = 160 THEN ReadNULL[m, oid.next, h.limit]
               ELSE ReadInt[m, oid.next, h.limit]
  IN IF h.ok /\ (type = 160 \/ h.type = 48) /\ oid.ok /\ value.ok
     THEN Value(h, <<oid.value, value.value>>) ELSE NotRead

(* The loops of parseGetBindings() and parseResponseBindings(): onGetValue *)
(* and onResponseValueInt are called before the rest is looked at.         *)
ParseValues[m \in Message, p \in Nat, end \in Nat, type \in Nat, calls \in Seq(Message \X Message)] ==
  LET value == ParseValue[m, p, end, type]
  IN IF p >= end THEN [ok |-> TRUE, calls |-> calls]
     ELSE IF ~value.ok THEN [ok |-> FALSE, calls |-> calls]
     ELSE ParseValues[m, value.next, end, type, Append(calls, value.value)]

ParseBindings(m, p, limit, type) ==
  LET h == ReadHeader[m, p, limit]
  IN IF h.ok /\ (type = 160 \/ h.type = 48)
     THEN ParseValues[m, h.data, h.limit, type, <<>>]
     ELSE [ok |-> FALSE, calls |-> <<>>]

(* parse(), with parseGetRequest() and parseResponse(). *)
Parse(m) ==
  LET limit == Len(m) + 1
      packet == ReadHeader[m, 1, limit]
      version == ReadInt[m, packet.data, limit]
      community == ReadString[m, version.next, limit]
      command == ReadHeader[m, community.next, limit]
      id == ReadInt[m, command.data, limit]
      status == ReadInt[m, id.next, limit]
      index == ReadInt[m, status.next, limit]
      bindings == ParseBindings(m, index.next, limit, command.type)
  IN IF /\ packet.ok /\ version.ok /\ version.value = <<0, 0, 0, 1>>
        /\ community.ok
        /\ command.ok /\ command.type \in {160, 162}
        /\ id.ok /\ status.ok /\ index.ok /\ bindings.ok
     THEN [ok |-> TRUE, id |-> id.value, community |-> community.value,
           calls |-> bindings.calls]
     ELSE [ok |-> FALSE]

-----------------------------------------------------------------------------

(* sendGET() for one identifier, des3028Stat() for many. *)
SendGET(community, id, oids) ==
  /\ datagram = NoDatagram
  /\ datagram' = [whole |-> TRUE, type |-> "get",
                  id |-> id, community |-> community, oids |-> oids,
                  values |-> [i \in DOMAIN oids |-> <<>>],
                  bytes |-> GetRequest(community, id, oids)]
  /\ parsed' = [datagram |-> NoDatagram]

Answers(values, short) ==
  /\ datagram # NoDatagram /\ datagram.whole /\ datagram.type = "get"
  /\ datagram' = [datagram EXCEPT !.type = "response", !.values = values,
                                  !.bytes = Response(datagram, values, short)]
  /\ UNCHANGED parsed

(* recv() takes no more than its buffer. *)
Cut(size) ==
  /\ datagram # NoDatagram /\ datagram.whole
  /\ size < Len(datagram.bytes)
  /\ datagram' = [datagram EXCEPT !.bytes = SubSeq(@, 1, size), !.whole = FALSE]
  /\ UNCHANGED parsed

(* onRead().  The byte that it writes behind a datagram of 4096 bytes or   *)
(* more, outside of its buffer, is left out: these are shorter.            *)
OnDatagram ==
  /\ datagram # NoDatagram
  /\ parsed' = [datagram |-> datagram, result |-> Parse(datagram.bytes)]
  /\ datagram' = NoDatagram

SnmpNext ==
  \/ \E community \in Communities, id \in Ids, n \in 1..MaxOids :
       \E oids \in [1..n -> Oids] : SendGET(community, id, oids)
  \/ /\ datagram # NoDatagram
     /\ \E values \in [DOMAIN datagram.oids -> DeviceValues], short \in BOOLEAN :
          Answers(values, short)
  \/ \E size \in 1..MaxCut : Cut(size)
  \/ OnDatagram

-----------------------------------------------------------------------------

(* What the builder and the reader have no way to say: the first two items *)
(* must fit in 40 each; and the builder's own are wrong from 2^14 on, and  *)
(* in a binding of 128 bytes.                                              *)
Sayable(d) ==
  \A i \in DOMAIN d.oids :
    /\ d.oids[i][2] < 40 /\ d.oids[i][1] * 40 + d.oids[i][2] < 16384
    /\ d.type = "get" => /\ \A j \in DOMAIN d.oids[i] : d.oids[i][j] < 16384
                         /\ Len(SaveOID(d.oids[i])) + 2 < 128

(* A request that the builder made, and a device's response with lengths   *)
(* of any form, are read as they were meant, with every identifier and     *)
(* counter in its place; of a datagram that was cut nothing is believed.   *)
SnmpUnderstood ==
  LET d == parsed.datagram
      r == parsed.result
  IN d # NoDatagram =>
       /\ ~d.whole => ~r.ok
       /\ d.whole /\ Sayable(d) =>
            r = [ok |-> TRUE, id |-> d.id, community |-> d.community,
                 calls |-> [i \in DOMAIN d.oids |-> <<d.oids[i], d.values[i]>>]]
=============================================================================
