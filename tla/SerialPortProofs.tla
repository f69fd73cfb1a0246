-------------------------- MODULE SerialPortProofs --------------------------
(***************************************************************************)
(* Proofs about the serial port and the memory cards, for every length of  *)
(* a sector, every set of sectors, frames, stray bytes and control words.  *)
(* The central invariant (Along) says what the state of a card's protocol  *)
(* has to do with the bytes that went over the bus: a card in the middle   *)
(* of a frame has just been sent the beginning of such a frame.            *)
(***************************************************************************)
EXTENDS SerialPort, TLAPS

(* A checksum is a byte by the closure of ByteXor, but that takes an       *)
(* induction over the sector: answers are typed by where they come from.   *)
Reply == Byte \cup {Checksum(a, b, d) : a \in Byte, b \in Byte, d \in Data}

Card == [state : CardStates, cmd : Byte, msb : Byte, lsb : Byte, data : Data,
         idx : 0..DataLen, checksum : Reply, flag : {0, NewCard}]

Exchange == [tx : Byte, rx : Reply, port : Slots]

(* The last n bytes went to s and begin with the select byte.              *)
Begun(h, n, s) ==
    /\ n <= Len(h)
    /\ \A k \in 1..n : Of(h, n, k).port = s
    /\ Of(h, n, 1).tx = CardSelect

Named(h, n, s, m) == Begun(h, n, s) /\ Of(h, n, 2).tx = m.cmd

Placed(h, n, s, m) ==
    Named(h, n, s, m) /\ Of(h, n, 5).tx = m.msb /\ Of(h, n, 6).tx = m.lsb

(* The card has the sector that was asked for, and sent its first bytes.   *)
Fetched(h, n, s, m, image) ==
    /\ Placed(h, n, s, m) /\ m.cmd = CmdRead
    /\ m.data = memcard_read_sector(image, m.msb, m.lsb)
    /\ m.checksum = Checksum(m.msb, m.lsb, m.data)

Delivered(h, n, m) == \A i \in 1..m.idx : Of(h, n, 10 + i).rx = m.data[i]

(* The card has the data that was sent.                                    *)
Received(h, n, s, m) ==
    /\ Placed(h, n, s, m) /\ m.cmd = CmdWrite
    /\ \A i \in 1..m.idx : Of(h, n, 6 + i).tx = m.data[i]

Along(h, s, m, image) ==
    /\ m.state = "cmd"   => Begun(h, 1, s)
    /\ m.state = "id1"   => Named(h, 2, s, m) /\ m.cmd \in Commands
    /\ m.state = "id2"   => Named(h, 3, s, m) /\ m.cmd \in Commands
    /\ m.state = "msb"   => Named(h, 4, s, m) /\ m.cmd \in {CmdRead, CmdWrite}
    /\ m.state = "lsb"   => /\ Named(h, 5, s, m) /\ m.cmd \in {CmdRead, CmdWrite}
                            /\ Of(h, 5, 5).tx = m.msb
    /\ m.state = "rack1" => Fetched(h, 6, s, m, image)
    /\ m.state = "rack2" => Fetched(h, 7, s, m, image)
    /\ m.state = "rmsb"  => Fetched(h, 8, s, m, image)
    /\ m.state = "rlsb"  => Fetched(h, 9, s, m, image)
    /\ m.state = "rdata" => /\ m.idx < DataLen /\ Fetched(h, 10 + m.idx, s, m, image)
                            /\ Delivered(h, 10 + m.idx, m)
    /\ m.state = "rchk"  => /\ m.idx = DataLen /\ Fetched(h, 10 + m.idx, s, m, image)
                            /\ Delivered(h, 10 + m.idx, m)
    /\ m.state = "rend"  => /\ m.idx = DataLen /\ Fetched(h, 11 + m.idx, s, m, image)
                            /\ Delivered(h, 11 + m.idx, m)
                            /\ Of(h, 11 + m.idx, 11 + m.idx).rx = m.checksum
    /\ m.state = "wlsb"  => m.idx = 0 /\ Received(h, 6, s, m)
    /\ m.state = "wdata" => m.idx < DataLen /\ Received(h, 6 + m.idx, s, m)
    /\ m.state = "wchk"  => m.idx = DataLen /\ Received(h, 6 + m.idx, s, m)

(* Leaves are Zenon's; one that needs arithmetic, records or sequences     *)
(* names SMT.                                                              *)
USE Zenon

-----------------------------------------------------------------------------
(* What one more exchange does to the last bytes.                          *)
LEMMA OneMore ==
    ASSUME NEW h \in Seq(Exchange), NEW e \in Exchange, NEW n \in Nat, n <= Len(h)
    PROVE  LET g == Append(h, e)
           IN  /\ g \in Seq(Exchange) /\ Len(g) = Len(h) + 1
               /\ \A k \in 1..n : Of(g, n + 1, k) = Of(h, n, k)
               /\ Of(g, n + 1, n + 1) = e
<1> DEFINE g == Append(h, e)
<1>1. g \in Seq(Exchange) /\ Len(g) = Len(h) + 1 /\ g[Len(h) + 1] = e
  BY SMT
<1>2. \A j \in 1..Len(h) : g[j] = h[j]
  BY SMT
<1> HIDE DEF g
<1>3. \A k \in 1..n : Of(g, n + 1, k) = Of(h, n, k)
  BY <1>1, <1>2, SMT DEF Of
<1>4. Of(g, n + 1, n + 1) = e
  BY <1>1, SMT DEF Of
<1> QED  BY <1>1, <1>3, <1>4 DEF g

(* One more byte to the same port continues a frame that has begun.        *)
LEMMA BegunGrows ==
    ASSUME NEW h \in Seq(Exchange), NEW e \in Exchange, NEW n \in Nat \ {0},
           NEW s \in Slots, Begun(h, n, s), e.port = s
    PROVE  Begun(Append(h, e), n + 1, s)
BY OneMore, SMT DEF Begun

(* The same, when the frame has its command.                               *)
LEMMA NamedGrows ==
    ASSUME NEW h \in Seq(Exchange), NEW e \in Exchange, NEW n \in Nat \ {0, 1},
           NEW s \in Slots, NEW m, Named(h, n, s, m), e.port = s
    PROVE  Named(Append(h, e), n + 1, s, m)
BY OneMore, BegunGrows, SMT DEF Named, Begun

(* The numbers of the bytes a frame begins with.                           *)
LEMMA Numbers ==
    /\ 2 \in Nat \ {0, 1} /\ 3 \in Nat \ {0, 1} /\ 4 \in Nat \ {0, 1}
    /\ 5 \in Nat \ {0, 1} /\ 6 \in Nat /\ 6 >= 6 /\ 7 \in Nat /\ 7 >= 6
    /\ 2 + 1 = 3 /\ 3 + 1 = 4 /\ 4 + 1 = 5 /\ 5 + 1 = 6 /\ 6 + 1 = 7 /\ 7 + 1 = 8
BY SMT

(* The same, when it has its address.                                      *)
LEMMA PlacedGrows ==
    ASSUME NEW h \in Seq(Exchange), NEW e \in Exchange, NEW n \in Nat, n >= 6,
           NEW s \in Slots, NEW m, Placed(h, n, s, m), e.port = s
    PROVE  Placed(Append(h, e), n + 1, s, m)
<1>1. n <= Len(h)
  BY DEF Placed, Named, Begun
<1>2. Named(Append(h, e), n + 1, s, m)
  BY NamedGrows, SMT DEF Placed
<1> QED  BY <1>1, <1>2, OneMore, SMT DEF Placed

-----------------------------------------------------------------------------
(* What a card answers, and the state it is in then.                       *)

Replies == [m : Card, rx : Reply, ack : BOOLEAN, stores : BOOLEAN]

(* The bytes of the protocol.                                              *)
LEMMA Bytes ==
    /\ {0, 4, 90, 92, 93, 128, 129, 1, 8, 255, 71, 78, 82, 87, 83} \subseteq Byte
    /\ Byte \subseteq Nat /\ Byte \subseteq Reply
    /\ DataLen \in Nat /\ DataLen > 1 /\ Blank \in Data
BY CardAssumption, SMT DEF CardSelect, PadSelect, NewCard, HighZ, Good, BadSum, Commands,
                      CmdRead, CmdWrite, CmdGetId, Reply

(* A checksum is an answer.                                                *)
LEMMA SumIsReply ==
    ASSUME NEW a \in Byte, NEW b \in Byte, NEW d \in Data
    PROVE  Checksum(a, b, d) \in Reply
BY SMT DEF Reply

(* What a read of a sector returns is as long as a sector.                 *)
LEMMA SectorIsData ==
    ASSUME NEW image \in Image, NEW a, NEW b
    PROVE  memcard_read_sector(image, a, b) \in Data
<1>1. HighZ \in Byte
  BY Bytes DEF HighZ
<1>2. Filler \in Data
  BY <1>1 DEF Filler, Data
<1> QED  BY <1>2 DEF memcard_read_sector, Image

(* Acknowledged or not, an answer is a reply.                              *)
LEMMA AcksIsReply ==
    ASSUME NEW m \in Card, NEW rx \in Reply
    PROVE  Acks(m, rx) \in Replies /\ Silent(m, rx) \in Replies
BY DEF Acks, Silent, Replies

(* The fields of a card have their types.                                  *)
LEMMA CardFields ==
    ASSUME NEW m \in Card
    PROVE  /\ m.state \in CardStates /\ m.cmd \in Byte /\ m.msb \in Byte
           /\ m.lsb \in Byte /\ m.data \in Data /\ m.idx \in 0..DataLen
           /\ m.checksum \in Reply /\ m.flag \in {0, NewCard}
BY DEF Card

(* The changes the states make to the record.                              *)
LEMMA StateChange ==
    ASSUME NEW m \in Card, NEW st \in CardStates
    PROVE  LET c == [m EXCEPT !.state = st]
           IN  /\ c \in Card /\ c.state = st /\ c.cmd = m.cmd /\ c.msb = m.msb
               /\ c.lsb = m.lsb /\ c.data = m.data /\ c.idx = m.idx
               /\ c.checksum = m.checksum
BY DEF Card

(* The bytes a card sends.                                                 *)
LEMMA Answers ==
    ASSUME NEW m \in Card
    PROVE  /\ 0 \in Reply /\ Good \in Reply /\ HighZ \in Reply /\ BadSum \in Reply
           /\ m.msb \in Reply /\ m.lsb \in Reply /\ m.checksum \in Reply
           /\ DataLen \in Nat /\ DataLen > 1
<1>1. 0 \in Reply /\ Good \in Reply /\ HighZ \in Reply /\ BadSum \in Reply
  BY Bytes, SMT DEF Good, HighZ, BadSum
<1>2. Byte \subseteq Reply
  BY Bytes
<1>3. DataLen \in Nat /\ DataLen > 1
  BY Bytes
<1> QED  BY <1>1, <1>2, <1>3, CardFields

(* The names of the states.                                                *)
LEMMA StateNames ==
    /\ DOMAIN Handshake = {"id1", "getid1", "getid2", "getid3",
                           "rack1", "rack2", "wack1", "wack2"}
    /\ CardStates = {"id1", "getid1", "getid2", "getid3", "rack1", "rack2", "wack1",
                     "wack2", "idle", "cmd", "id2", "getid4", "msb", "lsb", "rmsb",
                     "rlsb", "rdata", "rchk", "rend", "wlsb", "wdata", "wchk", "wend"}
BY DEF Handshake, CardStates

(* The table of the states that answer a fixed byte.                       *)
LEMMA HandshakeTable ==
    /\ Handshake["id1"].next = "id2" /\ Handshake["id1"].rx = 90
    /\ Handshake["getid1"].next = "getid2" /\ Handshake["getid1"].rx = 4
    /\ Handshake["getid2"].next = "getid3" /\ Handshake["getid2"].rx = 0
    /\ Handshake["getid3"].next = "getid4" /\ Handshake["getid3"].rx = 0
    /\ Handshake["rack1"].next = "rack2" /\ Handshake["rack1"].rx = 92
    /\ Handshake["rack2"].next = "rmsb" /\ Handshake["rack2"].rx = 93
    /\ Handshake["wack1"].next = "wack2" /\ Handshake["wack1"].rx = 92
    /\ Handshake["wack2"].next = "wend" /\ Handshake["wack2"].rx = 93
BY DEF Handshake

-----------------------------------------------------------------------------
(* A card in the middle of a frame stays along it.                         *)

Reaction(m, b, present, image) ==
    mc_process_byte(m, b, present, memcard_read_sector(image, m.msb, b))

(* The states that claim nothing.                                          *)
Apart == {"idle", "getid1", "getid2", "getid3", "getid4", "wack1", "wack2", "wend"}

(* A complete write frame that the card m is about to store.               *)
Complete(g, s, m) ==
    LET n == DataLen + 7
    IN  /\ IsFrame(g, n, s, CmdWrite) /\ Address(m) \in Sectors
        /\ Of(g, n, 5).tx = m.msb /\ Of(g, n, 6).tx = m.lsb
        /\ \A i \in 1..DataLen : Of(g, n, 6 + i).tx = m.data[i]
        /\ Of(g, n, n).tx = Checksum(m.msb, m.lsb, m.data)

OpeningStates    == {"idle", "cmd", "id2"}
AddressingStates == {"msb", "lsb"}
ReadingStates    == {"rmsb", "rlsb", "rdata", "rchk", "rend"}
WritingStates    == {"wlsb", "wdata", "wchk", "wend"}

(* What the lemmas below say of a byte b that the card m gets in slot s.   *)
Follows(h, s, m, b, present, image) ==
    LET r == Reaction(m, b, present, image)
        g == Append(h, [tx |-> b, rx |-> r.rx, port |-> s])
    IN  /\ r \in Replies
        /\ r.stores = TRUE => Complete(g, s, r.m) /\ r.m.state \in Apart
        /\ Along(g, s, r.m, image)

(* The states that claim nothing.                                          *)
LEMMA ApartIsAlong ==
    ASSUME NEW h, NEW s, NEW m, NEW image, m.state \in Apart
    PROVE  Along(h, s, m, image)
BY DEF Along, Apart

(* The states in which a card sends or receives its data.                  *)
LEMMA DataIsAlong ==
    ASSUME NEW h, NEW s, NEW m, NEW image,
           \/ /\ m.state = "rdata" /\ m.idx < DataLen
              /\ Fetched(h, 10 + m.idx, s, m, image) /\ Delivered(h, 10 + m.idx, m)
           \/ /\ m.state = "rchk" /\ m.idx = DataLen
              /\ Fetched(h, 10 + m.idx, s, m, image) /\ Delivered(h, 10 + m.idx, m)
           \/ m.state = "wdata" /\ m.idx < DataLen /\ Received(h, 6 + m.idx, s, m)
           \/ m.state = "wchk" /\ m.idx = DataLen /\ Received(h, 6 + m.idx, s, m)
    PROVE  Along(h, s, m, image)
BY DEF Along

(* An answer that stores nothing follows if its card is along.             *)
LEMMA AnswerFollows ==
    ASSUME NEW h, NEW s, NEW m, NEW image, NEW b, NEW present,
           NEW c \in Card, NEW rx \in Reply,
           Reaction(m, b, present, image) \in {Acks(c, rx), Silent(c, rx)},
           Along(Append(h, [tx |-> b, rx |-> rx, port |-> s]), s, c, image)
    PROVE  Follows(h, s, m, b, present, image)
<1> DEFINE r == Reaction(m, b, present, image)
<1>1. /\ Acks(c, rx).m = c /\ Acks(c, rx).rx = rx /\ Acks(c, rx).stores = FALSE
      /\ Silent(c, rx).m = c /\ Silent(c, rx).rx = rx /\ Silent(c, rx).stores = FALSE
  BY DEF Acks, Silent
<1>2. r \in Replies /\ r.m = c /\ r.rx = rx /\ r.stores = FALSE
  BY <1>1, AcksIsReply
<1> QED  BY <1>2 DEF Follows

(* The states of Handshake.                                                *)
LEMMA HandshakeStep ==
    ASSUME NEW h \in Seq(Exchange), NEW s \in Slots, NEW m \in Card,
           NEW image \in Image, NEW b \in Byte, NEW present,
           m.state \in DOMAIN Handshake, Along(h, s, m, image)
    PROVE  Follows(h, s, m, b, present, image)
<1> DEFINE st == Handshake[m.state].next
           rx == Handshake[m.state].rx
           c  == [m EXCEPT !.state = st]
           e  == [tx |-> b, rx |-> rx, port |-> s]
           g  == Append(h, e)
<1>1. Reaction(m, b, present, image) = Acks(c, rx)
  BY DEF Reaction, mc_process_byte
<1>2. st \in CardStates /\ rx \in Reply
  <2>1. m.state \in {"id1", "getid1", "getid2", "getid3",
                     "rack1", "rack2", "wack1", "wack2"}
    BY StateNames
  <2>2. st \in {"id2", "getid2", "getid3", "getid4", "rack2", "rmsb", "wack2", "wend"}
    BY <2>1, HandshakeTable, SMT
  <2>3. rx \in {0, 4, 90, 92, 93}
    BY <2>1, HandshakeTable, SMT
  <2> QED  BY <2>2, <2>3, StateNames, Bytes, SMT
<1>3. /\ c \in Card /\ c.state = st /\ c.cmd = m.cmd /\ c.msb = m.msb
      /\ c.lsb = m.lsb /\ c.data = m.data /\ c.idx = m.idx /\ c.checksum = m.checksum
  BY <1>2, StateChange
<1>4. e \in Exchange /\ e.port = s
  BY <1>2 DEF Exchange
<1>5. Acks(c, rx) \in Replies /\ Acks(c, rx).m = c /\ Acks(c, rx).rx = rx
      /\ Acks(c, rx).stores = FALSE
  BY <1>2, <1>3, AcksIsReply DEF Acks
<1> HIDE DEF c, e
<1>6. Along(g, s, c, image)
  <2>1. CASE m.state = "id1"
    <3>1. Named(h, 2, s, m) /\ m.cmd \in Commands
      BY <2>1 DEF Along
    <3>2. Named(g, 3, s, m)
      BY <3>1, <1>4, NamedGrows, Numbers
    <3>3. st = "id2"
      BY <2>1, HandshakeTable
    <3> HIDE DEF g, st
    <3> QED  BY <3>1, <3>2, <3>3, <1>3 DEF Along, Named
  <2>2. CASE m.state = "rack1"
    <3>1. Fetched(h, 6, s, m, image)
      BY <2>2 DEF Along
    <3>2. Placed(g, 7, s, m)
      BY <3>1, <1>4, PlacedGrows, Numbers DEF Fetched
    <3>3. st = "rack2"
      BY <2>2, HandshakeTable
    <3> HIDE DEF g, st
    <3> QED  BY <3>1, <3>2, <3>3, <1>3 DEF Along, Fetched, Placed, Named
  <2>3. CASE m.state = "rack2"
    <3>1. Fetched(h, 7, s, m, image)
      BY <2>3 DEF Along
    <3>2. Placed(g, 8, s, m)
      BY <3>1, <1>4, PlacedGrows, Numbers DEF Fetched
    <3>3. st = "rmsb"
      BY <2>3, HandshakeTable
    <3> HIDE DEF g, st
    <3> QED  BY <3>1, <3>2, <3>3, <1>3 DEF Along, Fetched, Placed, Named
  <2>4. CASE m.state \notin {"id1", "rack1", "rack2"}
    <3>1. st \in Apart
      BY <2>4, HandshakeTable, StateNames, SMT DEF Apart
    <3> QED  BY <3>1, <1>3, ApartIsAlong
  <2> QED  BY <2>1, <2>2, <2>3, <2>4
<1> QED  BY <1>1, <1>5, <1>6 DEF e, Follows

(* MC_IDLE, MC_CMD and MC_ID2.                                             *)
LEMMA OpeningStep ==
    ASSUME NEW h \in Seq(Exchange), NEW s \in Slots, NEW m \in Card,
           NEW image \in Image, NEW b \in Byte, NEW present,
           m.state \in OpeningStates, m.state = "idle" => b = CardSelect,
           Along(h, s, m, image)
    PROVE  Follows(h, s, m, b, present, image)
<1>1. Reaction(m, b, present, image) = Opening(m, b, present)
  BY StateNames DEF Reaction, mc_process_byte, OpeningStates
<1>2. HighZ \in Reply /\ 93 \in Reply /\ m.flag \in Reply
  BY Bytes, CardFields, SMT DEF HighZ, NewCard
<1> DEFINE Link(rx) == Append(h, [tx |-> b, rx |-> rx, port |-> s])
<1>3. ASSUME NEW rx \in Reply
      PROVE  /\ [tx |-> b, rx |-> rx, port |-> s] \in Exchange
             /\ [tx |-> b, rx |-> rx, port |-> s].port = s
             /\ [tx |-> b, rx |-> rx, port |-> s].tx = b
  BY DEF Exchange
<1>4. CASE m.state = "idle" /\ present
  <2> DEFINE c == [m EXCEPT !.state = "cmd"]
  <2>1. Opening(m, b, present) = Acks(c, HighZ)
    BY <1>4 DEF Opening
  <2>2. c \in Card /\ c.state = "cmd"
    <3>1. "cmd" \in CardStates
      BY StateNames
    <3> QED  BY <3>1, StateChange
  <2>3. Begun(Link(HighZ), 1, s)
    <3>1. 0 <= Len(h) /\ 0 \in Nat
      BY SMT
    <3>2. /\ Len(Link(HighZ)) = Len(h) + 1
          /\ Of(Link(HighZ), 0 + 1, 0 + 1) = [tx |-> b, rx |-> HighZ, port |-> s]
      BY <1>2, <1>3, <3>1, OneMore
    <3> HIDE DEF Link
    <3>3. \A k \in 1..1 : Of(Link(HighZ), 1, k) = [tx |-> b, rx |-> HighZ, port |-> s]
      BY <3>2, SMT
    <3> QED  BY <1>2, <1>3, <1>4, <3>1, <3>2, <3>3, SMT DEF Begun
  <2> HIDE DEF c
  <2>4. Along(Link(HighZ), s, c, image)
    BY <2>2, <2>3 DEF Along
  <2> QED  BY <1>1, <1>2, <2>1, <2>2, <2>4, AnswerFollows
<1>5. CASE m.state = "idle" /\ ~present
  <2>1. Opening(m, b, present) = Silent(m, HighZ)
    BY <1>5 DEF Opening
  <2>2. Along(Link(HighZ), s, m, image)
    BY <1>5, ApartIsAlong, SMT DEF Apart
  <2> QED  BY <1>1, <1>2, <2>1, <2>2, AnswerFollows
<1>6. CASE m.state = "cmd" /\ b \in Commands
  <2> DEFINE c == [m EXCEPT !.state = "id1", !.cmd = b, !.flag = 0]
  <2>1. Opening(m, b, present) = Acks(c, m.flag)
    BY <1>6 DEF Opening
  <2>2. c \in Card /\ c.state = "id1" /\ c.cmd = b
    BY StateNames DEF Card
  <2>3. Begun(h, 1, s)
    BY <1>6 DEF Along
  <2>4. Begun(Link(m.flag), 2, s) /\ Of(Link(m.flag), 2, 2).tx = b
    <3>1. 1 <= Len(h)
      BY <2>3 DEF Begun
    <3>2. Begun(Link(m.flag), 2, s)
      BY <2>3, <1>2, <1>3, BegunGrows, SMT
    <3>3. Of(Link(m.flag), 1 + 1, 1 + 1) = [tx |-> b, rx |-> m.flag, port |-> s]
      BY <3>1, <1>2, <1>3, OneMore, SMT
    <3> QED  BY <3>2, <3>3, SMT
  <2> HIDE DEF c, Link
  <2>5. Along(Link(m.flag), s, c, image)
    BY <2>2, <2>4, <1>6 DEF Along, Named
  <2> QED  BY <1>1, <1>2, <2>1, <2>2, <2>5, AnswerFollows DEF Link
<1>7. CASE m.state = "cmd" /\ b \notin Commands
  <2> DEFINE c == [m EXCEPT !.state = "idle", !.cmd = b]
  <2>1. Opening(m, b, present) = Silent(c, HighZ)
    BY <1>7 DEF Opening
  <2>2. c \in Card /\ c.state = "idle"
    BY StateNames DEF Card
  <2> HIDE DEF c
  <2>3. Along(Link(HighZ), s, c, image)
    BY <2>2, ApartIsAlong, SMT DEF Apart
  <2> QED  BY <1>1, <1>2, <2>1, <2>2, <2>3, AnswerFollows
<1>8. CASE m.state = "id2"
  <2> DEFINE st == IF m.cmd = CmdGetId THEN "getid1" ELSE "msb"
             c  == [m EXCEPT !.state = st]
  <2>1. Opening(m, b, present) = Acks(c, 93)
    BY <1>8 DEF Opening
  <2>2. /\ c \in Card /\ c.state = st /\ c.cmd = m.cmd
    <3>1. st \in CardStates
      BY StateNames
    <3> HIDE DEF st
    <3> QED  BY <3>1, StateChange
  <2>3. Named(h, 3, s, m) /\ m.cmd \in Commands
    BY <1>8 DEF Along
  <2>4. Named(Link(93), 4, s, m)
    BY <2>3, <1>2, <1>3, NamedGrows, Numbers
  <2> HIDE DEF c, Link
  <2>5. Along(Link(93), s, c, image)
    BY <2>2, <2>3, <2>4 DEF Along, Named, Commands
  <2> QED  BY <1>1, <1>2, <2>1, <2>2, <2>5, AnswerFollows DEF Link
<1> QED  BY <1>4, <1>5, <1>6, <1>7, <1>8 DEF OpeningStates

(* MC_ADDR_MSB and MC_ADDR_LSB.                                            *)
LEMMA AddressingStep ==
    ASSUME NEW h \in Seq(Exchange), NEW s \in Slots, NEW m \in Card,
           NEW image \in Image, NEW b \in Byte, NEW present,
           m.state \in AddressingStates, Along(h, s, m, image)
    PROVE  Follows(h, s, m, b, present, image)
<1> DEFINE sector == memcard_read_sector(image, m.msb, b)
           Link(rx) == Append(h, [tx |-> b, rx |-> rx, port |-> s])
<1>1. Reaction(m, b, present, image) = Addressing(m, b, sector)
  BY StateNames DEF Reaction, mc_process_byte, AddressingStates
<1>2. 0 \in Reply /\ m.msb \in Reply /\ sector \in Data /\ m.msb \in Byte
  BY Answers, CardFields, SectorIsData
<1>3. ASSUME NEW rx \in Reply
      PROVE  /\ [tx |-> b, rx |-> rx, port |-> s] \in Exchange
             /\ [tx |-> b, rx |-> rx, port |-> s].port = s
             /\ [tx |-> b, rx |-> rx, port |-> s].tx = b
  BY DEF Exchange
<1> HIDE DEF sector
<1>4. CASE m.state = "msb"
  <2> DEFINE c == [m EXCEPT !.state = "lsb", !.msb = b]
  <2>1. Addressing(m, b, sector) = Acks(c, 0)
    BY <1>4 DEF Addressing
  <2>2. c \in Card /\ c.state = "lsb" /\ c.cmd = m.cmd /\ c.msb = b
    BY StateNames DEF Card
  <2>3. Named(h, 4, s, m) /\ m.cmd \in {CmdRead, CmdWrite} /\ 4 <= Len(h)
    BY <1>4 DEF Along, Named, Begun
  <2>4. Named(Link(0), 5, s, m)
    BY <2>3, <1>2, <1>3, NamedGrows, Numbers
  <2>5. Of(Link(0), 4 + 1, 4 + 1) = [tx |-> b, rx |-> 0, port |-> s]
    BY <2>3, <1>2, <1>3, OneMore, SMT
  <2> HIDE DEF c, Link
  <2>6. Along(Link(0), s, c, image)
    BY <2>2, <2>3, <2>4, <2>5, SMT DEF Along, Named
  <2> QED  BY <1>1, <1>2, <2>1, <2>2, <2>6, AnswerFollows DEF Link
<1>5. CASE m.state = "lsb"
  <2>1. /\ Named(h, 5, s, m) /\ m.cmd \in {CmdRead, CmdWrite} /\ 5 <= Len(h)
        /\ Of(h, 5, 5).tx = m.msb
    BY <1>5 DEF Along, Named, Begun
  <2>2. ASSUME NEW rx \in Reply, NEW c, c.cmd = m.cmd, c.msb = m.msb, c.lsb = b
        PROVE  Placed(Link(rx), 6, s, c)
    <3>1. Named(Link(rx), 6, s, m)
      BY <2>1, <1>3, NamedGrows, Numbers
    <3>2. Of(Link(rx), 5 + 1, 5 + 1) = [tx |-> b, rx |-> rx, port |-> s]
      BY <2>1, <1>3, OneMore, SMT
    <3>3. Of(Link(rx), 5 + 1, 5) = Of(h, 5, 5)
      BY <2>1, <1>3, OneMore, SMT
    <3> HIDE DEF Link
    <3> QED  BY <2>1, <2>2, <3>1, <3>2, <3>3, SMT DEF Placed, Named
  <2>3. CASE m.cmd = CmdRead
    <3> DEFINE sum == Checksum(m.msb, b, sector)
               c   == [m EXCEPT !.state = "rack1", !.lsb = b, !.idx = 0,
                                !.data = sector, !.checksum = sum]
    <3>1. Addressing(m, b, sector) = Acks(c, 0)
      BY <1>5, <2>3 DEF Addressing
    <3>2. sum \in Reply
      BY <1>2, SumIsReply
    <3> HIDE DEF sum
    <3>3. /\ c \in Card /\ c.state = "rack1" /\ c.cmd = m.cmd /\ c.msb = m.msb
          /\ c.lsb = b /\ c.data = sector /\ c.checksum = sum
      <4>1. "rack1" \in CardStates /\ 0 \in 0..DataLen
        BY StateNames, Bytes, SMT
      <4> QED  BY <4>1, <1>2, <3>2 DEF Card
    <3> HIDE DEF c
    <3>4. Placed(Link(0), 6, s, c)
      BY <3>3, <1>2, <2>2
    <3> HIDE DEF Link
    <3>5. Along(Link(0), s, c, image)
      BY <3>3, <3>4, <2>3 DEF Along, Fetched, sum, sector
    <3> QED  BY <1>1, <1>2, <3>1, <3>3, <3>5, AnswerFollows DEF Link
  <2>4. CASE m.cmd # CmdRead
    <3> DEFINE c == [m EXCEPT !.state = "wlsb", !.lsb = b, !.idx = 0]
    <3>1. Addressing(m, b, sector) = Acks(c, m.msb)
      BY <1>5, <2>4 DEF Addressing
    <3>2. /\ c \in Card /\ c.state = "wlsb" /\ c.cmd = m.cmd /\ c.msb = m.msb
          /\ c.lsb = b /\ c.idx = 0
      <4>1. "wlsb" \in CardStates /\ 0 \in 0..DataLen
        BY StateNames, Bytes, SMT
      <4> QED  BY <4>1 DEF Card
    <3> HIDE DEF c
    <3>3. Placed(Link(m.msb), 6, s, c)
      BY <3>2, <1>2, <2>2
    <3> HIDE DEF Link
    <3>4. Along(Link(m.msb), s, c, image)
      BY <3>2, <3>3, <2>4, <2>1, SMT DEF Along, Received
    <3> QED  BY <1>1, <1>2, <3>1, <3>2, <3>4, AnswerFollows DEF Link
  <2> QED  BY <2>3, <2>4
<1> QED  BY <1>4, <1>5 DEF AddressingStates

(* MC_READ_MSB_ECHO to MC_READ_END.                                        *)
LEMMA ReadingStep ==
    ASSUME NEW h \in Seq(Exchange), NEW s \in Slots, NEW m \in Card,
           NEW image \in Image, NEW b \in Byte, NEW present,
           m.state \in ReadingStates, Along(h, s, m, image)
    PROVE  Follows(h, s, m, b, present, image)
<1> DEFINE Link(rx) == Append(h, [tx |-> b, rx |-> rx, port |-> s])
<1>1. Reaction(m, b, present, image) = Reading(m)
  BY StateNames DEF Reaction, mc_process_byte, ReadingStates
<1>2. /\ m.msb \in Reply /\ m.lsb \in Reply /\ m.checksum \in Reply
      /\ Good \in Reply /\ HighZ \in Reply /\ m.data \in Data /\ m.idx \in 0..DataLen
      /\ DataLen \in Nat /\ DataLen > 1
  BY Answers, CardFields
<1>3. ASSUME NEW rx \in Reply
      PROVE  /\ [tx |-> b, rx |-> rx, port |-> s] \in Exchange
             /\ [tx |-> b, rx |-> rx, port |-> s].port = s
             /\ [tx |-> b, rx |-> rx, port |-> s].rx = rx
  BY DEF Exchange
<1>4. ASSUME NEW rx \in Reply, NEW n \in Nat, n >= 6, Fetched(h, n, s, m, image),
             NEW c, c.cmd = m.cmd, c.msb = m.msb, c.lsb = m.lsb, c.data = m.data,
             c.checksum = m.checksum
      PROVE  Fetched(Link(rx), n + 1, s, c, image)
  <2>1. Placed(Link(rx), n + 1, s, m)
    BY <1>3, <1>4, PlacedGrows DEF Fetched
  <2> HIDE DEF Link
  <2> QED  BY <1>4, <2>1 DEF Fetched, Placed, Named
<1>5. ASSUME NEW rx \in Reply, NEW n \in Nat, n = 10 + m.idx, n <= Len(h),
             Delivered(h, n, m)
      PROVE  /\ \A i \in 1..m.idx : Of(Link(rx), n + 1, 10 + i).rx = m.data[i]
             /\ Of(Link(rx), n + 1, n + 1).rx = rx
  <2>1. \A k \in 1..n : Of(Link(rx), n + 1, k) = Of(h, n, k)
    BY <1>3, <1>5, OneMore, SMT
  <2>2. Of(Link(rx), n + 1, n + 1).rx = rx
    BY <1>3, <1>5, OneMore
  <2> HIDE DEF Link
  <2> QED  BY <1>2, <1>5, <2>1, <2>2, SMT DEF Delivered
<1>6. CASE m.state = "rmsb"
  <2> DEFINE c == [m EXCEPT !.state = "rlsb"]
  <2>1. Reading(m) = Acks(c, m.msb)
    BY <1>6 DEF Reading
  <2>2. /\ c \in Card /\ c.state = "rlsb" /\ c.cmd = m.cmd /\ c.msb = m.msb
        /\ c.lsb = m.lsb /\ c.data = m.data /\ c.checksum = m.checksum
    <3>1. "rlsb" \in CardStates
      BY StateNames
    <3> QED  BY <3>1, StateChange
  <2> HIDE DEF c
  <2>3. Fetched(h, 8, s, m, image)
    BY <1>6 DEF Along
  <2>4. Fetched(Link(m.msb), 8 + 1, s, c, image)
    BY <1>2, <1>4, <2>2, <2>3, SMT
  <2> HIDE DEF Link
  <2>5. Along(Link(m.msb), s, c, image)
    BY <2>2, <2>4, SMT DEF Along
  <2> QED  BY <1>1, <1>2, <2>1, <2>2, <2>5, AnswerFollows DEF Link
<1>7. CASE m.state = "rlsb"
  <2> DEFINE c == [m EXCEPT !.state = "rdata", !.idx = 0]
  <2>1. Reading(m) = Acks(c, m.lsb)
    BY <1>7 DEF Reading
  <2>2. /\ c \in Card /\ c.state = "rdata" /\ c.cmd = m.cmd /\ c.msb = m.msb
        /\ c.lsb = m.lsb /\ c.data = m.data /\ c.checksum = m.checksum /\ c.idx = 0
    <3>1. "rdata" \in CardStates /\ 0 \in 0..DataLen
      BY StateNames, <1>2, SMT
    <3> QED  BY <3>1 DEF Card
  <2> HIDE DEF c
  <2>3. Fetched(h, 9, s, m, image)
    BY <1>7 DEF Along
  <2>4. Fetched(Link(m.lsb), 9 + 1, s, c, image)
    BY <1>2, <1>4, <2>2, <2>3, SMT
  <2> HIDE DEF Link
  <2>5. Along(Link(m.lsb), s, c, image)
    BY <1>2, <2>2, <2>4, SMT DEF Along, Delivered
  <2> QED  BY <1>1, <1>2, <2>1, <2>2, <2>5, AnswerFollows DEF Link
<1>8. CASE m.state = "rdata"
  <2> DEFINE st == IF m.idx + 1 >= DataLen THEN "rchk" ELSE "rdata"
             c  == [m EXCEPT !.idx = m.idx + 1, !.state = st]
             rx == m.data[m.idx + 1]
  <2>1. Reading(m) = Acks(c, rx)
    BY <1>8 DEF Reading
  <2>2. /\ m.idx < DataLen /\ Fetched(h, 10 + m.idx, s, m, image)
        /\ Delivered(h, 10 + m.idx, m) /\ 10 + m.idx <= Len(h)
    BY <1>8 DEF Along, Fetched, Placed, Named, Begun
  <2>3. st \in CardStates /\ m.idx + 1 \in 0..DataLen
    BY <1>2, <2>2, StateNames, SMT
  <2>4. rx \in Reply
    <3>1. m.idx + 1 \in 1..DataLen
      BY <1>2, <2>2, SMT
    <3>2. rx \in Byte
      BY <1>2, <3>1 DEF Data
    <3> QED  BY <3>2, Bytes
  <2> HIDE DEF st
  <2>5. /\ c \in Card /\ c.state = st /\ c.cmd = m.cmd /\ c.msb = m.msb
        /\ c.lsb = m.lsb /\ c.data = m.data /\ c.checksum = m.checksum
        /\ c.idx = m.idx + 1
    BY <2>3 DEF Card
  <2> HIDE DEF c
  <2>6. Fetched(Link(rx), 10 + c.idx, s, c, image)
    <3>1. Fetched(Link(rx), (10 + m.idx) + 1, s, c, image)
      BY <1>2, <1>4, <2>2, <2>4, <2>5, SMT
    <3> QED  BY <1>2, <2>5, <3>1, SMT
  <2>7. Delivered(Link(rx), 10 + c.idx, c)
    <3>1. /\ \A i \in 1..m.idx : Of(Link(rx), (10 + m.idx) + 1, 10 + i).rx = m.data[i]
          /\ Of(Link(rx), (10 + m.idx) + 1, (10 + m.idx) + 1).rx = rx
      BY <1>2, <1>5, <2>2, <2>4, SMT
    <3> HIDE DEF Link
    <3> SUFFICES ASSUME NEW i \in 1..c.idx
                 PROVE  Of(Link(rx), 10 + c.idx, 10 + i).rx = c.data[i]
      BY DEF Delivered
    <3>2. 10 + c.idx = (10 + m.idx) + 1 /\ c.data = m.data
      BY <1>2, <2>5, SMT
    <3>3. CASE i \in 1..m.idx
      BY <3>1, <3>2, <3>3
    <3>4. CASE i = m.idx + 1
      <4>1. 10 + i = (10 + m.idx) + 1
        BY <1>2, <3>4, SMT
      <4> QED  BY <3>1, <3>2, <3>4, <4>1
    <3> QED  BY <1>2, <2>5, <3>3, <3>4, SMT
  <2> HIDE DEF Link, rx
  <2>8. Along(Link(rx), s, c, image)
    <3>1. \/ c.state = "rdata" /\ c.idx < DataLen
          \/ c.state = "rchk" /\ c.idx = DataLen
      BY <1>2, <2>2, <2>5, SMT DEF st
    <3> QED  BY <2>6, <2>7, <3>1, DataIsAlong
  <2>9. /\ Acks(c, rx) \in Replies /\ Acks(c, rx).m = c /\ Acks(c, rx).rx = rx
        /\ Acks(c, rx).stores = FALSE
    BY <2>4, <2>5, AcksIsReply DEF Acks
  <2> QED  BY <1>1, <2>1, <2>8, <2>9 DEF Link, Follows
<1>9. CASE m.state = "rchk"
  <2> DEFINE c == [m EXCEPT !.state = "rend"]
  <2>1. Reading(m) = Acks(c, m.checksum)
    BY <1>9 DEF Reading
  <2>2. /\ c \in Card /\ c.state = "rend" /\ c.cmd = m.cmd /\ c.msb = m.msb
        /\ c.lsb = m.lsb /\ c.data = m.data /\ c.checksum = m.checksum /\ c.idx = m.idx
    <3>1. "rend" \in CardStates
      BY StateNames
    <3> QED  BY <3>1, StateChange
  <2>3. /\ m.idx = DataLen /\ Fetched(h, 10 + m.idx, s, m, image)
        /\ Delivered(h, 10 + m.idx, m) /\ 10 + m.idx <= Len(h)
    BY <1>9 DEF Along, Fetched, Placed, Named, Begun
  <2> HIDE DEF c
  <2>4. Fetched(Link(m.checksum), (10 + m.idx) + 1, s, c, image)
    <3>1. 10 + m.idx \in Nat /\ 10 + m.idx >= 6
      BY <1>2, SMT
    <3> QED  BY <1>2, <1>4, <2>2, <2>3, <3>1
  <2>5. /\ \A i \in 1..m.idx : Of(Link(m.checksum), (10 + m.idx) + 1, 10 + i).rx = m.data[i]
        /\ Of(Link(m.checksum), (10 + m.idx) + 1, (10 + m.idx) + 1).rx = m.checksum
    BY <1>2, <1>5, <2>3, SMT
  <2>6. (10 + m.idx) + 1 = 11 + c.idx
    BY <1>2, <2>2, SMT
  <2> HIDE DEF Link
  <2>7. Along(Link(m.checksum), s, c, image)
    BY <2>2, <2>3, <2>4, <2>5, <2>6 DEF Along, Delivered
  <2> QED  BY <1>1, <1>2, <2>1, <2>2, <2>7, AnswerFollows DEF Link
<1>10. CASE m.state = "rend"
  <2> DEFINE c  == [m EXCEPT !.state = "idle"]
             rx == IF Address(m) \in Sectors THEN Good ELSE HighZ
  <2>1. Reading(m) = Silent(c, rx)
    BY <1>10 DEF Reading
  <2>2. c \in Card /\ c.state = "idle"
    <3>1. "idle" \in CardStates
      BY StateNames
    <3> QED  BY <3>1, StateChange
  <2>3. rx \in Reply
    BY <1>2
  <2> HIDE DEF c, rx
  <2>4. Along(Link(rx), s, c, image)
    BY <2>2, ApartIsAlong, SMT DEF Apart
  <2>5. Silent(c, rx) \in Replies /\ Silent(c, rx).m = c /\ Silent(c, rx).rx = rx
        /\ Silent(c, rx).stores = FALSE
    BY <2>2, <2>3, AcksIsReply DEF Silent
  <2> QED  BY <1>1, <2>1, <2>4, <2>5 DEF Follows
<1> QED  BY <1>6, <1>7, <1>8, <1>9, <1>10 DEF ReadingStates

(* MC_WRITE_LSB_ECHO to MC_WRITE_END.                                      *)
LEMMA WritingStep ==
    ASSUME NEW h \in Seq(Exchange), NEW s \in Slots, NEW m \in Card,
           NEW image \in Image, NEW b \in Byte, NEW present,
           m.state \in WritingStates, Along(h, s, m, image)
    PROVE  Follows(h, s, m, b, present, image)
<1> DEFINE Link(rx) == Append(h, [tx |-> b, rx |-> rx, port |-> s])
<1>1. Reaction(m, b, present, image) = Writing(m, b)
  BY StateNames DEF Reaction, mc_process_byte, WritingStates
<1>2. /\ m.lsb \in Reply /\ m.checksum \in Reply /\ 0 \in Reply
      /\ Good \in Reply /\ HighZ \in Reply /\ BadSum \in Reply
      /\ m.data \in Data /\ m.idx \in 0..DataLen /\ DataLen \in Nat /\ DataLen > 1
  BY Answers, CardFields
<1>3. ASSUME NEW rx \in Reply
      PROVE  /\ [tx |-> b, rx |-> rx, port |-> s] \in Exchange
             /\ [tx |-> b, rx |-> rx, port |-> s].port = s
             /\ [tx |-> b, rx |-> rx, port |-> s].tx = b
  BY DEF Exchange
<1>4. ASSUME NEW rx \in Reply, m.idx < DataLen, Received(h, 6 + m.idx, s, m),
             NEW c, c.cmd = m.cmd, c.msb = m.msb, c.lsb = m.lsb,
             c.data = [m.data EXCEPT ![m.idx + 1] = b], c.idx = m.idx + 1
      PROVE  Received(Link(rx), 6 + c.idx, s, c)
  <2> DEFINE n == 6 + m.idx
  <2>1. n \in Nat /\ n >= 6 /\ n <= Len(h) /\ n + 1 = 6 + c.idx
    BY <1>2, <1>4, SMT DEF Received, Placed, Named, Begun
  <2>2. Placed(Link(rx), n + 1, s, m)
    BY <1>3, <1>4, <2>1, PlacedGrows DEF Received
  <2>3. \A k \in 1..n : Of(Link(rx), n + 1, k) = Of(h, n, k)
    BY <1>3, <2>1, OneMore
  <2>4. Of(Link(rx), n + 1, n + 1).tx = b
    BY <1>3, <2>1, OneMore, SMT
  <2>5. /\ \A i \in 1..m.idx : c.data[i] = m.data[i]
        /\ c.data[m.idx + 1] = b
    BY <1>2, <1>4, SMT DEF Data
  <2>6. \A i \in 1..m.idx : Of(h, n, 6 + i).tx = m.data[i]
    BY <1>4 DEF Received
  <2> HIDE DEF Link
  <2>7. \A i \in 1..c.idx : Of(Link(rx), n + 1, 6 + i).tx = c.data[i]
    <3> TAKE i \in 1..c.idx
    <3>1. CASE i \in 1..m.idx
      BY <1>2, <2>3, <2>5, <2>6, <3>1, SMT
    <3>2. CASE i = m.idx + 1
      BY <1>2, <2>4, <2>5, <3>2, SMT
    <3> QED  BY <1>2, <1>4, <3>1, <3>2, SMT
  <2>8. Placed(Link(rx), n + 1, s, c) /\ c.cmd = CmdWrite
    BY <1>4, <2>2 DEF Placed, Named, Received
  <2> QED  BY <2>1, <2>7, <2>8 DEF Received
<1>5. ASSUME NEW st \in CardStates, m.idx < DataLen
      PROVE  LET c == [m EXCEPT !.data[m.idx + 1] = b, !.idx = m.idx + 1, !.state = st]
             IN  /\ c \in Card /\ c.state = st /\ c.cmd = m.cmd /\ c.msb = m.msb
                 /\ c.lsb = m.lsb /\ c.data = [m.data EXCEPT ![m.idx + 1] = b]
                 /\ c.idx = m.idx + 1
  <2> DEFINE d == [m.data EXCEPT ![m.idx + 1] = b]
  <2>1. d \in Data /\ m.idx + 1 \in 0..DataLen
    BY <1>2, <1>5, SMT DEF Data
  <2>2. [m EXCEPT !.data[m.idx + 1] = b, !.idx = m.idx + 1, !.state = st]
          = [m EXCEPT !.data = d, !.idx = m.idx + 1, !.state = st]
    OBVIOUS
  <2> HIDE DEF d
  <2>3. LET c == [m EXCEPT !.data = d, !.idx = m.idx + 1, !.state = st]
        IN  /\ c \in Card /\ c.state = st /\ c.cmd = m.cmd /\ c.msb = m.msb
            /\ c.lsb = m.lsb /\ c.data = d /\ c.idx = m.idx + 1
    BY <1>5, <2>1 DEF Card
  <2> QED  BY <2>2, <2>3 DEF d
<1>6. CASE m.state = "wlsb"
  <2> DEFINE st == "wdata"
             c  == [m EXCEPT !.data[m.idx + 1] = b, !.idx = m.idx + 1, !.state = st]
  <2>1. Writing(m, b) = Acks(c, m.lsb)
    BY <1>6 DEF Writing
  <2>2. /\ m.idx = 0 /\ m.idx < DataLen /\ Received(h, 6 + m.idx, s, m)
        /\ st \in CardStates
    BY <1>2, <1>6, StateNames, SMT DEF Along
  <2> HIDE DEF st
  <2>3. /\ c \in Card /\ c.state = st /\ c.cmd = m.cmd /\ c.msb = m.msb
        /\ c.lsb = m.lsb /\ c.data = [m.data EXCEPT ![m.idx + 1] = b]
        /\ c.idx = m.idx + 1
    BY <1>2, <1>5, <2>2
  <2> HIDE DEF c
  <2>4. Received(Link(m.lsb), 6 + c.idx, s, c)
    BY <1>2, <1>4, <2>2, <2>3
  <2> HIDE DEF Link
  <2>5. Along(Link(m.lsb), s, c, image)
    <3>1. c.state = "wdata" /\ c.idx < DataLen
      BY <1>2, <2>2, <2>3, SMT DEF st
    <3> QED  BY <2>4, <3>1, DataIsAlong
  <2> QED  BY <1>1, <1>2, <2>1, <2>3, <2>5, AnswerFollows DEF Link
<1>7. CASE m.state = "wdata"
  <2> DEFINE st == IF m.idx + 1 >= DataLen THEN "wchk" ELSE "wdata"
             c  == [m EXCEPT !.data[m.idx + 1] = b, !.idx = m.idx + 1, !.state = st]
  <2>1. Writing(m, b) = Acks(c, 0)
    BY <1>7 DEF Writing
  <2>2. m.idx < DataLen /\ Received(h, 6 + m.idx, s, m) /\ st \in CardStates
    BY <1>7, StateNames DEF Along
  <2> HIDE DEF st
  <2>3. /\ c \in Card /\ c.state = st /\ c.cmd = m.cmd /\ c.msb = m.msb
        /\ c.lsb = m.lsb /\ c.data = [m.data EXCEPT ![m.idx + 1] = b]
        /\ c.idx = m.idx + 1
    BY <1>2, <1>5, <2>2
  <2> HIDE DEF c
  <2>4. Received(Link(0), 6 + c.idx, s, c)
    BY <1>2, <1>4, <2>2, <2>3
  <2> HIDE DEF Link
  <2>5. Along(Link(0), s, c, image)
    <3>1. \/ c.state = "wdata" /\ c.idx < DataLen
          \/ c.state = "wchk" /\ c.idx = DataLen
      BY <1>2, <2>2, <2>3, SMT DEF st
    <3> QED  BY <2>4, <3>1, DataIsAlong
  <2> QED  BY <1>1, <1>2, <2>1, <2>3, <2>5, AnswerFollows DEF Link
<1>8. CASE m.state = "wchk"
  <2> DEFINE good == b = Checksum(m.msb, m.lsb, m.data) /\ Address(m) \in Sectors
             sum  == IF good THEN Good
                     ELSE IF Address(m) \notin Sectors THEN HighZ ELSE BadSum
             c    == [m EXCEPT !.state = "wack1", !.checksum = sum]
             r    == [m |-> c, rx |-> 0, ack |-> TRUE, stores |-> good]
  <2>1. Writing(m, b) = r
    BY <1>8 DEF Writing, Checked
  <2>2. m.idx = DataLen /\ Received(h, 6 + m.idx, s, m) /\ "wack1" \in CardStates
    BY <1>8, StateNames DEF Along
  <2>3. sum \in Reply /\ good \in BOOLEAN
    BY <1>2
  <2> HIDE DEF sum
  <2>4. /\ c \in Card /\ c.state = "wack1" /\ c.msb = m.msb /\ c.lsb = m.lsb
        /\ c.data = m.data
    BY <2>2, <2>3 DEF Card
  <2> HIDE DEF c
  <2>5. r \in Replies /\ r.m = c /\ r.rx = 0 /\ r.stores = good
    BY <1>2, <2>3, <2>4 DEF Replies
  <2>6. Along(Link(0), s, c, image)
    BY <2>4, ApartIsAlong, SMT DEF Apart
  <2>7. ASSUME good
        PROVE  Complete(Link(0), s, c)
    <3> DEFINE n == 6 + m.idx
    <3>1. n \in Nat /\ n >= 6 /\ n <= Len(h) /\ n + 1 = DataLen + 7
      BY <1>2, <2>2, SMT DEF Received, Placed, Named, Begun
    <3>2. Placed(Link(0), n + 1, s, m)
      BY <1>2, <1>3, <2>2, <3>1, PlacedGrows DEF Received
    <3>3. \A k \in 1..n : Of(Link(0), n + 1, k) = Of(h, n, k)
      BY <1>2, <1>3, <3>1, OneMore, SMT
    <3>4. Of(Link(0), n + 1, n + 1).tx = b
      BY <1>2, <1>3, <3>1, OneMore, SMT
    <3> HIDE DEF Link
    <3>5. \A i \in 1..DataLen : Of(Link(0), n + 1, 6 + i).tx = m.data[i]
      BY <1>2, <2>2, <3>1, <3>3, SMT DEF Received
    <3>6. IsFrame(Link(0), n + 1, s, CmdWrite)
      BY <2>2, <3>2 DEF IsFrame, Placed, Named, Begun, Received
    <3>7. Address(c) \in Sectors
      BY <2>4, <2>7 DEF Address
    <3> HIDE DEF n
    <3> QED  BY <2>4, <2>7, <3>1, <3>2, <3>4, <3>5, <3>6, <3>7 DEF Complete, Placed
  <2> HIDE DEF r, good, Link
  <2> QED  BY <1>1, <2>1, <2>4, <2>5, <2>6, <2>7 DEF Link, Apart, Follows
<1>9. CASE m.state = "wend"
  <2> DEFINE c == [m EXCEPT !.state = "idle", !.flag = 0]
  <2>1. Writing(m, b) = Silent(c, m.checksum)
    BY <1>9 DEF Writing
  <2>2. c \in Card /\ c.state = "idle"
    <3>1. "idle" \in CardStates
      BY StateNames
    <3> QED  BY <3>1 DEF Card
  <2> HIDE DEF c
  <2>3. Along(Link(m.checksum), s, c, image)
    BY <2>2, ApartIsAlong, SMT DEF Apart
  <2>4. /\ Silent(c, m.checksum) \in Replies /\ Silent(c, m.checksum).m = c
        /\ Silent(c, m.checksum).rx = m.checksum /\ Silent(c, m.checksum).stores = FALSE
    BY <1>2, <2>2, AcksIsReply DEF Silent
  <2> QED  BY <1>1, <2>1, <2>3, <2>4 DEF Follows
<1> QED  BY <1>6, <1>7, <1>8, <1>9 DEF WritingStates

(* mc_process_byte: whatever byte comes, the answer has its type, the card *)
(* stays along the frame, and it stores only a complete one.               *)
LEMMA CardStep ==
    ASSUME NEW h \in Seq(Exchange), NEW s \in Slots, NEW m \in Card,
           NEW image \in Image, NEW b \in Byte, NEW present,
           m.state = "idle" => b = CardSelect, Along(h, s, m, image)
    PROVE  Follows(h, s, m, b, present, image)
<1>1. CASE m.state \in DOMAIN Handshake
  BY <1>1, HandshakeStep
<1>2. CASE m.state \in OpeningStates
  BY <1>2, OpeningStep
<1>3. CASE m.state \in AddressingStates
  BY <1>3, AddressingStep
<1>4. CASE m.state \in ReadingStates
  BY <1>4, ReadingStep
<1>5. CASE m.state \in WritingStates
  BY <1>5, WritingStep
<1>6. CASE m.state = "getid4"
  <2> DEFINE c == [m EXCEPT !.state = "idle"]
             e == [tx |-> b, rx |-> 128, port |-> s]
  <2>1. Reaction(m, b, present, image) = Silent(c, 128)
    BY <1>6, StateNames DEF Reaction, mc_process_byte
  <2>2. "idle" \in CardStates /\ 128 \in Reply
    BY StateNames, Bytes
  <2>3. c \in Card /\ c.state = "idle"
    BY <2>2, StateChange
  <2> HIDE DEF c
  <2>4. Along(Append(h, e), s, c, image)
    BY <2>3, ApartIsAlong, SMT DEF Apart
  <2>5. /\ Silent(c, 128) \in Replies /\ Silent(c, 128).m = c
        /\ Silent(c, 128).rx = 128 /\ Silent(c, 128).stores = FALSE
    BY <2>2, <2>3, AcksIsReply DEF Silent
  <2> QED  BY <2>1, <2>4, <2>5, SMT DEF Follows
<1>7. m.state \in CardStates
  BY CardFields
<1> QED  BY <1>1, <1>2, <1>3, <1>4, <1>5, <1>6, <1>7, StateNames
         DEF OpeningStates, AddressingStates, ReadingStates, WritingStates

-----------------------------------------------------------------------------
(* The port.                                                               *)

Ports ==
    [txen : BOOLEAN, select : BOOLEAN, irqen : BOOLEAN, port : Slots,
     txrdy : BOOLEAN, ack : BOOLEAN, visible : 0..2,
     queue : Seq([byte : Byte, irqen : BOOLEAN]),
     acking : {"none", "quiet", "irq"}, timing : BOOLEAN, padowned : BOOLEAN,
     active : {"none", "pad", "card"}, slot : Slots, mcslot : Slots,
     mc : Card, slots : [Slots -> Card]]

CardsOK == cards \in [Slots -> [image : Image, present : BOOLEAN, dirty : BOOLEAN]]

(* The protocol state fits what was heard on the bus.                      *)
Device(x, h) ==
    /\ x.active # "card" => x.mc.state = "idle"
    /\ \A s \in Slots : x.slots[s].state = "idle"
    /\ x.active = "card" => /\ x.slot = x.port /\ x.mcslot = x.port
                            /\ Along(h, x.port, x.mc, cards[x.port].image)

(* Processing a byte leaves the registers and the shifter alone.           *)
SameRegisters(x, y) ==
    /\ y.txen = x.txen /\ y.select = x.select /\ y.irqen = x.irqen /\ y.port = x.port
    /\ y.visible = x.visible /\ y.queue = x.queue /\ y.acking = x.acking
    /\ y.timing = x.timing /\ y.padowned = x.padowned

Outcomes == [x : Ports, rx : Reply, stores : BOOLEAN]

Processed(x, o, h, b) ==
    LET g == Append(h, [tx |-> b, rx |-> o.rx, port |-> x.port])
    IN  /\ o \in Outcomes /\ SameRegisters(x, o.x)
        /\ g \in Seq(Exchange) /\ Device(o.x, g)
        /\ o.stores = TRUE =>
             /\ o.x.active = "card" /\ o.x.mcslot = x.port
             /\ Complete(g, x.port, o.x.mc) /\ o.x.mc.state \in Apart

(* The fields of a port have their types.                                  *)
LEMMA PortFields ==
    ASSUME NEW x \in Ports
    PROVE  /\ x.txen \in BOOLEAN /\ x.select \in BOOLEAN /\ x.irqen \in BOOLEAN
           /\ x.port \in Slots /\ x.txrdy \in BOOLEAN /\ x.ack \in BOOLEAN
           /\ x.visible \in 0..2 /\ x.queue \in Seq([byte : Byte, irqen : BOOLEAN])
           /\ x.acking \in {"none", "quiet", "irq"} /\ x.timing \in BOOLEAN
           /\ x.padowned \in BOOLEAN /\ x.active \in {"none", "pad", "card"}
           /\ x.slot \in Slots /\ x.mcslot \in Slots /\ x.mc \in Card
           /\ x.slots \in [Slots -> Card]
BY DEF Ports

(* A port that turns to the pad.                                           *)
LEMMA ToPad ==
    ASSUME NEW x \in Ports, NEW a \in BOOLEAN
    PROVE  LET y == [x EXCEPT !.active = "pad", !.txrdy = TRUE, !.ack = a]
           IN  /\ y \in Ports /\ SameRegisters(x, y) /\ y.active = "pad"
               /\ y.mc = x.mc /\ y.slots = x.slots
BY DEF Ports, SameRegisters

(* A port whose transmitter is ready.                                      *)
LEMMA ToReady ==
    ASSUME NEW x \in Ports
    PROVE  LET y == [x EXCEPT !.txrdy = TRUE]
           IN  /\ y \in Ports /\ SameRegisters(x, y) /\ y.active = x.active
               /\ y.mc = x.mc /\ y.slots = x.slots
BY DEF Ports, SameRegisters

(* A port that latches a slot.                                             *)
LEMMA ToSlot ==
    ASSUME NEW x \in Ports, NEW at \in Slots
    PROVE  LET y == [x EXCEPT !.slot = at]
           IN  /\ y \in Ports /\ SameRegisters(x, y) /\ y.active = x.active
               /\ y.slot = at /\ y.mc = x.mc /\ y.slots = x.slots
BY DEF Ports, SameRegisters

(* A port that lets its device go.                                         *)
LEMMA ToFree ==
    ASSUME NEW x \in Ports, NEW at \in Slots
    PROVE  LET y == [x EXCEPT !.active = "none", !.slot = at]
           IN  /\ y \in Ports /\ SameRegisters(x, y) /\ y.active = "none"
               /\ y.mc = x.mc /\ y.slots = x.slots
BY DEF Ports, SameRegisters

(* An exchange that no card takes part in.                                 *)
LEMMA ApartFromCards ==
    ASSUME NEW x \in Ports, NEW y \in Ports, NEW h \in Seq(Exchange), NEW b \in Byte,
           NEW rx \in Reply, SameRegisters(x, y), y.active # "card", y.mc.state = "idle",
           \A s \in Slots : y.slots[s].state = "idle"
    PROVE  Processed(x, Outcome(y, rx, FALSE), h, b)
<1> DEFINE o == Outcome(y, rx, FALSE)
           e == [tx |-> b, rx |-> rx, port |-> x.port]
<1>1. o \in Outcomes /\ o.x = y /\ o.rx = rx /\ o.stores = FALSE
  BY DEF Outcome, Outcomes
<1>2. e \in Exchange
  BY PortFields DEF Exchange
<1>3. Append(h, e) \in Seq(Exchange)
  BY <1>2, SMT
<1>4. Device(y, Append(h, e))
  BY DEF Device
<1> HIDE DEF o
<1> QED  BY <1>1, <1>3, <1>4 DEF Processed, o

(* A byte for the pad.                                                     *)
LEMMA PadStep ==
    ASSUME NEW x \in Ports, NEW y \in Ports, NEW h \in Seq(Exchange), NEW b \in Byte,
           NEW answers \in BOOLEAN, SameRegisters(x, y), y.mc.state = "idle",
           \A s \in Slots : y.slots[s].state = "idle"
    PROVE  Processed(x, PadByte(y, answers), h, b)
<1> DEFINE a == y.ack \/ answers
           z == [y EXCEPT !.active = "pad", !.txrdy = TRUE, !.ack = a]
<1>1. PadByte(y, answers) = Outcome(z, HighZ, FALSE)
  BY DEF PadByte
<1>2. a \in BOOLEAN
  BY PortFields
<1> HIDE DEF a
<1>3. /\ z \in Ports /\ SameRegisters(y, z) /\ z.active = "pad"
      /\ z.mc = y.mc /\ z.slots = y.slots
  BY <1>2, ToPad
<1> HIDE DEF z
<1>4. SameRegisters(x, z)
  BY <1>3 DEF SameRegisters
<1>5. HighZ \in Reply
  BY Bytes, SMT DEF HighZ
<1> QED  BY <1>1, <1>3, <1>4, <1>5, ApartFromCards

(* A byte that no device takes.                                            *)
LEMMA IgnoredStep ==
    ASSUME NEW x \in Ports, NEW y \in Ports, NEW h \in Seq(Exchange), NEW b \in Byte,
           SameRegisters(x, y), y.active # "card", y.mc.state = "idle",
           \A s \in Slots : y.slots[s].state = "idle"
    PROVE  Processed(x, Ignored(y), h, b)
<1> DEFINE z == [y EXCEPT !.txrdy = TRUE]
<1>1. Ignored(y) = Outcome(z, HighZ, FALSE)
  BY DEF Ignored
<1>2. /\ z \in Ports /\ SameRegisters(y, z) /\ z.active = y.active
      /\ z.mc = y.mc /\ z.slots = y.slots
  BY ToReady
<1> HIDE DEF z
<1>3. SameRegisters(x, z)
  BY <1>2 DEF SameRegisters
<1>4. HighZ \in Reply
  BY Bytes, SMT DEF HighZ
<1> QED  BY <1>1, <1>2, <1>3, <1>4, ApartFromCards

(* A byte for the card in the selected slot.                               *)
LEMMA CardByteStep ==
    ASSUME NEW x \in Ports, NEW y \in Ports, NEW h \in Seq(Exchange), NEW b \in Byte,
           CardsOK, SameRegisters(x, y), y.slot = y.port, y.mcslot = y.port,
           y.mc.state = "idle" => b = CardSelect,
           Along(h, y.port, y.mc, cards[y.port].image),
           \A s \in Slots : y.slots[s].state = "idle"
    PROVE  Processed(x, CardByte(y, b), h, b)
<1> DEFINE at == y.port
           im == cards[at].image
           r  == Reaction(y.mc, b, cards[at].present, im)
           a  == y.ack \/ r.ack
           z  == [y EXCEPT !.active = "card", !.mcslot = at, !.mc = r.m,
                           !.txrdy = TRUE, !.ack = a]
           g  == Append(h, [tx |-> b, rx |-> r.rx, port |-> at])
<1>1. CardByte(y, b) = Outcome(z, r.rx, r.stores)
  BY DEF CardByte, Reaction
<1>2. at \in Slots /\ im \in Image /\ y.mc \in Card
  BY PortFields DEF CardsOK
<1> HIDE DEF at, im
<1>3. Follows(h, at, y.mc, b, cards[at].present, im)
  BY <1>2, CardStep DEF at, im
<1>4. /\ r \in Replies /\ Along(g, at, r.m, im)
      /\ r.stores = TRUE => Complete(g, at, r.m) /\ r.m.state \in Apart
  BY <1>3 DEF Follows
<1> HIDE DEF r
<1>5. r.m \in Card /\ r.rx \in Reply /\ r.ack \in BOOLEAN /\ r.stores \in BOOLEAN
  BY <1>4 DEF Replies
<1>6. a \in BOOLEAN
  BY <1>5, PortFields
<1> HIDE DEF a
<1>7. /\ z \in Ports /\ SameRegisters(y, z) /\ z.active = "card"
      /\ z.mcslot = at /\ z.mc = r.m /\ z.slot = y.slot /\ z.slots = y.slots
  <2> DEFINE c == r.m
  <2>1. c \in Card
    BY <1>5
  <2> HIDE DEF c
  <2>2. LET u == [y EXCEPT !.active = "card", !.mcslot = at, !.mc = c,
                           !.txrdy = TRUE, !.ack = a]
        IN  /\ u \in Ports /\ SameRegisters(y, u) /\ u.active = "card"
            /\ u.mcslot = at /\ u.mc = c /\ u.slot = y.slot /\ u.slots = y.slots
    BY <1>2, <1>6, <2>1 DEF Ports, SameRegisters
  <2> QED  BY <2>2 DEF c
<1> HIDE DEF z
<1>8. SameRegisters(x, z) /\ x.port = at /\ z.port = at
  BY <1>7 DEF SameRegisters, at
<1>9. g \in Seq(Exchange)
  <2>1. [tx |-> b, rx |-> r.rx, port |-> at] \in Exchange
    BY <1>2, <1>5 DEF Exchange
  <2> QED  BY <2>1, SMT
<1> HIDE DEF g
<1>10. Device(z, g)
  BY <1>4, <1>7, <1>8 DEF Device, at, im
<1> DEFINE o == Outcome(z, r.rx, r.stores)
<1>11. o \in Outcomes /\ o.x = z /\ o.rx = r.rx /\ o.stores = r.stores
  BY <1>5, <1>7 DEF Outcome, Outcomes
<1> HIDE DEF o
<1>12. Processed(x, o, h, b)
  BY <1>4, <1>7, <1>8, <1>9, <1>10, <1>11 DEF Processed, g
<1> QED  BY <1>1, <1>12 DEF o

(* sio_process_byte with no device on the bus.                             *)
LEMMA FirstByteStep ==
    ASSUME NEW x \in Ports, NEW h \in Seq(Exchange), NEW b \in Byte,
           NEW answers \in BOOLEAN, CardsOK, Device(x, h), x.active = "none"
    PROVE  Processed(x, FirstByte(x, b, answers), h, b)
<1> DEFINE y == [x EXCEPT !.slot = x.port]
           l == mc_load_slot(y)
           m == [y.slots[y.slot] EXCEPT !.state = "idle"]
<1>1. x.port \in Slots
  BY PortFields
<1>2. /\ y \in Ports /\ SameRegisters(x, y) /\ y.active = "none" /\ y.slot = x.port
      /\ y.mc = x.mc /\ y.slots = x.slots
  BY <1>1, ToSlot
<1> HIDE DEF y
<1>3. /\ y.mc.state = "idle" /\ y.port = x.port
      /\ \A s \in Slots : y.slots[s].state = "idle"
  BY <1>2 DEF Device, SameRegisters
<1>4. y.slots[y.slot] \in Card /\ y.slots[y.slot].state = "idle"
  <2>1. y.slots \in [Slots -> Card]
    BY <1>2, PortFields
  <2> QED  BY <1>1, <1>2, <1>3, <2>1
<1>5. m \in Card /\ m.state = "idle"
  <2>1. "idle" \in CardStates
    BY StateNames
  <2> QED  BY <1>4, <2>1 DEF Card
<1>6. /\ l = [y EXCEPT !.mc = y.slots[y.slot]]
      /\ [l EXCEPT !.mc.state = "idle"] = [y EXCEPT !.mc = m]
      /\ [l EXCEPT !.mc.state = "idle", !.mcslot = y.slot]
           = [y EXCEPT !.mc = m, !.mcslot = y.slot]
  BY <1>2 DEF mc_load_slot, Ports
<1>7. l.mc.state = "idle"
  BY <1>2, <1>4, <1>6 DEF Ports
<1> HIDE DEF m
<1> DEFINE p == [y EXCEPT !.mc = m]
           q == [y EXCEPT !.mc = m, !.mcslot = y.slot]
<1>8. /\ p \in Ports /\ SameRegisters(y, p) /\ p.active = "none"
      /\ p.mc = m /\ p.slots = y.slots
      /\ q \in Ports /\ SameRegisters(y, q) /\ q.mc = m /\ q.slots = y.slots
      /\ q.mcslot = y.slot /\ q.slot = y.slot
  <2>1. y \in Ports /\ y.active = "none" /\ m \in Card /\ y.slot \in Slots
    BY <1>1, <1>2, <1>5
  <2>2. /\ p \in Ports /\ SameRegisters(y, p) /\ p.active = "none"
        /\ p.mc = m /\ p.slots = y.slots
    BY <2>1 DEF Ports, SameRegisters
  <2>3. /\ q \in Ports /\ SameRegisters(y, q) /\ q.mc = m /\ q.slots = y.slots
        /\ q.mcslot = y.slot /\ q.slot = y.slot
    BY <2>1 DEF Ports, SameRegisters
  <2> QED  BY <2>2, <2>3
<1> HIDE DEF p, q, l
<1>9. SameRegisters(x, p) /\ SameRegisters(x, q) /\ q.port = x.port
  BY <1>2, <1>8 DEF SameRegisters
<1>10. CASE b = PadSelect
  <2>1. FirstByte(x, b, answers) = PadByte(y, answers)
    BY <1>3, <1>10 DEF FirstByte, y
  <2> QED  BY <1>2, <1>3, <2>1, PadStep
<1>11. CASE b = CardSelect
  <2>1. FirstByte(x, b, answers) = CardByte(q, b)
    BY <1>6, <1>11, SMT DEF FirstByte, y, l, q, CardSelect, PadSelect
  <2>2. Along(h, q.port, q.mc, cards[q.port].image)
    BY <1>5, <1>8, ApartIsAlong, SMT DEF Apart
  <2>3. /\ q \in Ports /\ q.slot = q.port /\ q.mcslot = q.port
        /\ \A s \in Slots : q.slots[s].state = "idle"
    BY <1>2, <1>3, <1>8, <1>9
  <2> QED  BY <1>9, <1>11, <2>1, <2>2, <2>3, CardByteStep
<1>12. CASE b # PadSelect /\ b # CardSelect
  <2>1. FirstByte(x, b, answers) = Ignored(p)
    BY <1>6, <1>7, <1>12 DEF FirstByte, y, l, p
  <2>2. p.mc.state = "idle" /\ \A s \in Slots : p.slots[s].state = "idle"
    BY <1>3, <1>5, <1>8
  <2> QED  BY <1>8, <1>9, <2>1, <2>2, IgnoredStep
<1> QED  BY <1>10, <1>11, <1>12

(* sio_process_byte.                                                       *)
LEMMA ByteStep ==
    ASSUME NEW x \in Ports, NEW h \in Seq(Exchange), NEW b \in Byte,
           NEW answers \in BOOLEAN, CardsOK, Device(x, h)
    PROVE  Processed(x, sio_process_byte(x, b, answers), h, b)
<1>1. /\ \A s \in Slots : x.slots[s].state = "idle"
      /\ x.active \in {"none", "pad", "card"} /\ SameRegisters(x, x) /\ x.port \in Slots
  BY PortFields DEF Device, SameRegisters
<1>2. CASE x.active = "none"
  BY <1>2, FirstByteStep DEF sio_process_byte
<1>3. CASE x.active = "pad"
  <2>1. sio_process_byte(x, b, answers) = PadByte(x, answers) /\ x.mc.state = "idle"
    BY <1>3 DEF sio_process_byte, Device
  <2> QED  BY <1>1, <2>1, PadStep
<1>4. CASE x.active = "card" /\ (x.mc.state # "idle" \/ b = CardSelect)
  <2>1. sio_process_byte(x, b, answers) = CardByte(x, b)
    BY <1>4 DEF sio_process_byte
  <2>2. /\ x.slot = x.port /\ x.mcslot = x.port
        /\ Along(h, x.port, x.mc, cards[x.port].image)
    BY <1>4 DEF Device
  <2> QED  BY <1>1, <1>4, <2>1, <2>2, CardByteStep
<1>5. CASE x.active = "card" /\ x.mc.state = "idle" /\ b # CardSelect
  <2> DEFINE y == [x EXCEPT !.active = "none", !.slot = x.port]
  <2>1. sio_process_byte(x, b, answers) =
          IF b = PadSelect THEN PadByte(y, answers) ELSE Ignored(y)
    BY <1>5 DEF sio_process_byte
  <2>2. /\ y \in Ports /\ SameRegisters(x, y) /\ y.active = "none"
        /\ y.mc = x.mc /\ y.slots = x.slots
    BY <1>1, ToFree
  <2> HIDE DEF y
  <2>3. CASE b = PadSelect
    BY <1>1, <1>5, <2>1, <2>2, <2>3, PadStep
  <2>4. CASE b # PadSelect
    BY <1>1, <1>5, <2>1, <2>2, <2>4, IgnoredStep
  <2> QED  BY <2>3, <2>4
<1> QED  BY <1>1, <1>2, <1>3, <1>4, <1>5

(* What a card that ends a read sends last.                                *)
LEMMA EndOfRead ==
    ASSUME NEW x \in Ports, NEW b \in Byte, NEW answers,
           x.active = "card", x.mc.state = "rend",
           sio_process_byte(x, b, answers).rx = Good
    PROVE  Address(x.mc) \in Sectors
<1>1. sio_process_byte(x, b, answers) = CardByte(x, b)
  BY DEF sio_process_byte
<1>2. CardByte(x, b).rx = Reading(x.mc).rx
  BY StateNames DEF CardByte, Outcome, mc_process_byte
<1>3. Reading(x.mc).rx = IF Address(x.mc) \in Sectors THEN Good ELSE HighZ
  BY DEF Reading, Silent
<1> QED  BY <1>1, <1>2, <1>3, SMT DEF Good, HighZ

-----------------------------------------------------------------------------
(* The inductive invariant.                                                *)

NotStalled(x) == x.queue # <<>> \/ x.acking # "none" => x.timing = TRUE

Types ==
    /\ sio \in Ports /\ heard \in Seq(Exchange) /\ CardsOK
    /\ guest \in [prog : Seq(Byte), slack : Nat, left : Nat]
    /\ file \in [Slots -> [kind : Kinds, image : Image]]
    /\ session \in [selections : Nat, slack : Nat, faults : BOOLEAN]

Deselected(x) == x.select = FALSE => x.active = "none" /\ x.queue = <<>>

Saved(c, f) ==
    \A s \in Slots : c[s].present = TRUE /\ c[s].dirty = FALSE => f[s] = Whole(c[s].image)

IndInv ==
    /\ Types /\ Device(sio, heard) /\ NotStalled(sio) /\ Deselected(sio)
    /\ sio.select = FALSE => guest.prog = <<>>
    /\ Saved(cards, file)

(* There is a first slot.                                                  *)
LEMMA FirstSlotType == FirstSlot \in Slots
BY PortAssumption DEF FirstSlot

(* A card with no transfer is idle.                                        *)
LEMMA NoTransferType ==
    ASSUME NEW f \in {0, NewCard}
    PROVE  NoTransfer(f) \in Card /\ NoTransfer(f).state = "idle"
<1>1. "idle" \in CardStates /\ 0 \in Byte /\ 0 \in Reply /\ 0 \in 0..DataLen
  BY StateNames, Bytes, SMT
<1>2. [i \in 1..DataLen |-> 0] \in Data
  BY <1>1 DEF Data
<1> QED  BY <1>1, <1>2 DEF NoTransfer, Card

(* sio_init: no device and nothing due.                                    *)
LEMMA InitPort ==
    /\ sio_init \in Ports /\ Device(sio_init, <<>>) /\ NotStalled(sio_init)
    /\ Deselected(sio_init)
<1>1. FirstSlot \in Slots
  BY FirstSlotType
<1>2. NoTransfer(NewCard) \in Card /\ NoTransfer(NewCard).state = "idle"
  BY NoTransferType
<1>3. [s \in Slots |-> NoTransfer(NewCard)] \in [Slots -> Card]
  BY <1>2
<1>4. <<>> \in Seq([byte : Byte, irqen : BOOLEAN])
  BY SMT
<1>5. sio_init \in Ports
  BY <1>1, <1>2, <1>3, <1>4, SMT DEF sio_init, Ports
<1>6. /\ sio_init.active = "none" /\ sio_init.queue = <<>> /\ sio_init.acking = "none"
      /\ sio_init.mc = NoTransfer(NewCard)
      /\ sio_init.slots = [s \in Slots |-> NoTransfer(NewCard)]
  BY DEF sio_init
<1> QED  BY <1>2, <1>5, <1>6 DEF Device, NotStalled, Deselected

(* A formatted card has an image.                                          *)
LEMMA FormatType == Format \in Image
BY Bytes DEF Format, Image

-----------------------------------------------------------------------------
(* Writing the control register.                                           *)

(* The device is left alone, and at most the shifter is stopped.           *)
Turned(x, y) ==
    /\ y \in Ports /\ y.port = x.port /\ y.select = x.select
    /\ y.active = x.active /\ y.mc = x.mc /\ y.slots = x.slots
    /\ y.slot = x.slot /\ y.mcslot = x.mcslot
    /\ NotStalled(x) => NotStalled(y)
    /\ x.queue = <<>> => y.queue = <<>>

(* No device, no byte, nothing due.                                        *)
Freed(y) ==
    /\ y \in Ports /\ y.active = "none" /\ y.queue = <<>> /\ y.acking = "none"
    /\ y.mc.state = "idle" /\ \A s \in Slots : y.slots[s].state = "idle"

(* The acknowledge bit leaves the device and the shifter alone.            *)
LEMMA AckBitStep ==
    ASSUME NEW x \in Ports
    PROVE  Turned(x, AckBit(x))
<1> DEFINE y == AckBit(x)
<1>0. 0 \in 0..2
  BY SMT
<1>1. y \in Ports
  BY <1>0 DEF Ports, AckBit
<1>2. /\ y.port = x.port /\ y.select = x.select /\ y.active = x.active /\ y.mc = x.mc
      /\ y.slots = x.slots /\ y.slot = x.slot /\ y.mcslot = x.mcslot
      /\ y.queue = x.queue /\ y.acking = x.acking /\ y.timing = x.timing
  BY DEF Ports, AckBit
<1> HIDE DEF y
<1>3. Turned(x, y)
  BY <1>1, <1>2 DEF Turned, NotStalled
<1> QED  BY <1>3 DEF y

(* Clearing the shifter leaves nothing due.                                *)
LEMMA ClearedStep ==
    ASSUME NEW x \in Ports
    PROVE  /\ Turned(x, Cleared(x))
           /\ Cleared(x).queue = <<>> /\ Cleared(x).acking = "none"
<1>1. <<>> \in Seq([byte : Byte, irqen : BOOLEAN])
  BY SMT
<1> QED  BY <1>1 DEF Ports, Turned, Cleared, NotStalled

(* Disabling the transmitter leaves the device alone.                      *)
LEMMA TxDisabledStep ==
    ASSUME NEW x \in Ports, NEW w \in CtrlWord
    PROVE  Turned(x, TxDisabled(x, w))
<1>1. CASE x.queue = <<>> /\ x.acking = "none"
  BY <1>1 DEF Turned, TxDisabled
<1>2. CASE ~(x.queue = <<>> /\ x.acking = "none")
  <2> DEFINE c == Cleared(x)
             o == c.padowned /\ w.select
             y == [c EXCEPT !.txrdy = TRUE, !.padowned = o]
  <2>1. TxDisabled(x, w) = y
    BY <1>2 DEF TxDisabled
  <2>2. c \in Ports /\ Turned(x, c)
    BY ClearedStep DEF Turned
  <2>3. o \in BOOLEAN
    BY <2>2, PortFields DEF CtrlWord
  <2> HIDE DEF c, o
  <2>4. Turned(c, y)
    BY <2>2, <2>3 DEF Ports, Turned, NotStalled
  <2> HIDE DEF y
  <2> QED  BY <2>1, <2>2, <2>4 DEF Turned
<1> QED  BY <1>1, <1>2

(* A reset leaves no device and nothing due.                               *)
LEMMA ResetBitStep ==
    ASSUME NEW x \in Ports
    PROVE  Freed(ResetBit(x)) /\ ResetBit(x).select = FALSE
<1> DEFINE c == Cleared(x)
           q == [s \in Slots |-> [c.slots[s] EXCEPT !.state = "idle"]]
<1>1. c \in Ports /\ c.queue = <<>> /\ c.acking = "none" /\ c.slots \in [Slots -> Card]
  BY ClearedStep, PortFields DEF Turned
<1>2. "idle" \in CardStates
  BY StateNames
<1>3. \A s \in Slots : q[s] \in Card /\ q[s].state = "idle"
  BY <1>1, <1>2, StateChange
<1>4. NoTransfer(0) \in Card /\ NoTransfer(0).state = "idle"
  BY NoTransferType
<1>5. ResetBit(x) =
        [c EXCEPT !.txen = FALSE, !.select = FALSE, !.irqen = FALSE, !.port = FirstSlot,
                  !.txrdy = TRUE, !.ack = FALSE, !.visible = 0, !.padowned = FALSE,
                  !.active = "none", !.mc = NoTransfer(0), !.slots = q]
  BY <1>1 DEF ResetBit, Ports
<1>6. q \in [Slots -> Card]
  BY <1>3
<1> HIDE DEF c, q
<1> DEFINE n == NoTransfer(0)
           y == [c EXCEPT !.txen = FALSE, !.select = FALSE, !.irqen = FALSE,
                          !.port = FirstSlot, !.txrdy = TRUE, !.ack = FALSE,
                          !.visible = 0, !.padowned = FALSE, !.active = "none",
                          !.mc = n, !.slots = q]
<1>0. 0 \in 0..2 /\ n \in Card
  BY <1>4, SMT
<1> HIDE DEF n
<1>7. y \in Ports
  BY <1>0, <1>1, <1>6, FirstSlotType, ZenonT(40) DEF Ports
<1>8. /\ y.select = FALSE /\ y.active = "none" /\ y.mc = n /\ y.slots = q
      /\ y.queue = c.queue /\ y.acking = c.acking
  BY <1>1 DEF Ports
<1>9. ResetBit(x) = y
  BY <1>5 DEF n
<1> HIDE DEF y
<1> QED  BY <1>1, <1>3, <1>4, <1>7, <1>8, <1>9 DEF Freed, n

(* So does a release of the bus.                                           *)
LEMMA ReleasedStep ==
    ASSUME NEW x \in Ports
    PROVE  Freed(Released(x)) /\ Released(x).select = x.select
<1> DEFINE c == Cleared(x)
           f == IF x.active = "card" THEN [x.slots EXCEPT ![x.mcslot].flag = x.mc.flag]
                ELSE x.slots
           q == [s \in Slots |-> [NoTransfer(f[s].flag) EXCEPT !.data = f[s].data]]
<1>1. c \in Ports /\ c.queue = <<>> /\ c.acking = "none" /\ c.select = x.select
  BY ClearedStep DEF Turned
<1>2. x.slots \in [Slots -> Card] /\ x.mc.flag \in {0, NewCard} /\ x.mcslot \in Slots
  BY PortFields, CardFields
<1>3. \A s \in Slots : f[s].flag \in {0, NewCard} /\ f[s].data \in Data
  BY <1>2 DEF Card
<1> HIDE DEF f
<1>4. \A s \in Slots : q[s] \in Card /\ q[s].state = "idle"
  <2> SUFFICES ASSUME NEW s \in Slots PROVE q[s] \in Card /\ q[s].state = "idle"
    OBVIOUS
  <2>1. NoTransfer(f[s].flag) \in Card /\ NoTransfer(f[s].flag).state = "idle"
    BY <1>3, NoTransferType
  <2> QED  BY <1>3, <2>1 DEF Card
<1>5. NoTransfer(0) \in Card /\ NoTransfer(0).state = "idle"
  BY NoTransferType
<1>6. Released(x) =
        [c EXCEPT !.mc = NoTransfer(0), !.active = "none", !.padowned = FALSE,
                  !.txrdy = TRUE, !.slots = q]
  BY DEF Released, f
<1>7. q \in [Slots -> Card]
  BY <1>4
<1> HIDE DEF c, q
<1> DEFINE n == NoTransfer(0)
           y == [c EXCEPT !.mc = n, !.active = "none", !.padowned = FALSE,
                          !.txrdy = TRUE, !.slots = q]
<1> HIDE DEF n
<1>8. y \in Ports
  BY <1>1, <1>5, <1>7 DEF Ports, n
<1>9. /\ y.select = c.select /\ y.active = "none" /\ y.mc = n /\ y.slots = q
      /\ y.queue = c.queue /\ y.acking = c.acking
  BY <1>1 DEF Ports
<1>10. Released(x) = y
  BY <1>6 DEF n
<1> HIDE DEF y
<1> QED  BY <1>1, <1>4, <1>5, <1>8, <1>9, <1>10 DEF Freed, n

(* WriteCtrl: the device stays, with its port, or there is none.           *)
Governed(x, w, y) ==
    /\ y \in Ports /\ NotStalled(y) /\ Deselected(y)
    /\ y.active # "card" => y.mc.state = "idle"
    /\ \A s \in Slots : y.slots[s].state = "idle"
    /\ y.active # "none" =>
         /\ x.select = TRUE /\ y.select = TRUE /\ w.select = TRUE
         /\ y.active = x.active /\ y.mc = x.mc /\ y.slot = x.slot
         /\ y.mcslot = x.mcslot /\ y.port = w.port

(* The steps of sio_write of SIO_CTRL, one after the other.                *)
LEMMA CtrlStep ==
    ASSUME sio \in Ports, NEW w \in CtrlWord,
           sio.active # "card" => sio.mc.state = "idle",
           \A s \in Slots : sio.slots[s].state = "idle",
           NotStalled(sio), Deselected(sio)
    PROVE  Governed(sio, w, WriteCtrl(w))
<1> PICK x \in Ports : x = sio
  OBVIOUS
<1> DEFINE x0 == [x EXCEPT !.txen = w.txen, !.select = w.select,
                           !.irqen = w.irqen, !.port = w.port]
           x1 == IF w.ack THEN AckBit(x0) ELSE x0
           x2 == IF w.reset THEN ResetBit(x1) ELSE x1
           x3 == IF ~x.select /\ w.select THEN [x2 EXCEPT !.padowned = FALSE] ELSE x2
           x4 == IF x.txen /\ ~w.txen THEN TxDisabled(x3, w) ELSE x3
           y  == IF x.select /\ ~w.select THEN Released(x4) ELSE x4
<1>1. WriteCtrl(w) = y
  BY DEF WriteCtrl
<1>2. /\ w.select \in BOOLEAN /\ w.port \in Slots /\ w.ack \in BOOLEAN
      /\ w.reset \in BOOLEAN /\ w.txen \in BOOLEAN /\ w.irqen \in BOOLEAN
      /\ x.select \in BOOLEAN /\ x.txen \in BOOLEAN
  BY PortFields DEF CtrlWord
<1>3. x0 \in Ports
  BY <1>2 DEF Ports
<1>4. /\ x0.select = w.select /\ x0.port = w.port /\ x0.active = x.active
      /\ x0.mc = x.mc /\ x0.slots = x.slots /\ x0.slot = x.slot
      /\ x0.mcslot = x.mcslot /\ x0.queue = x.queue /\ x0.acking = x.acking
      /\ x0.timing = x.timing
  BY <1>2 DEF Ports
<1> HIDE DEF x0
<1>5. Turned(x0, x1)
  BY <1>3, AckBitStep DEF Turned
<1>6. /\ NotStalled(x1) /\ x1 \in Ports /\ x1.select = w.select /\ x1.port = w.port
      /\ x1.active = x.active /\ x1.mc = x.mc /\ x1.slots = x.slots
      /\ x1.slot = x.slot /\ x1.mcslot = x.mcslot
      /\ x.queue = <<>> => x1.queue = <<>>
  BY <1>4, <1>5 DEF Turned, NotStalled
<1> HIDE DEF x1
<1> DEFINE Kept(z) ==
             /\ z.select = w.select /\ z.port = w.port /\ z.active = x.active
             /\ z.mc = x.mc /\ z.slots = x.slots /\ z.slot = x.slot
             /\ z.mcslot = x.mcslot /\ (x.queue = <<>> => z.queue = <<>>)
           Off(z) == z.select = FALSE /\ z.active = "none" /\ z.queue = <<>>
                     /\ z.mc.state = "idle" /\ \A s \in Slots : z.slots[s].state = "idle"
           Fine(z) == z \in Ports /\ NotStalled(z) /\ (Kept(z) \/ Off(z))
<1>7. Fine(x2)
  <2>1. CASE w.reset = TRUE
    BY <1>6, <2>1, ResetBitStep DEF Freed, NotStalled
  <2>2. CASE w.reset = FALSE
    BY <1>6, <2>2
  <2> QED  BY <1>2, <2>1, <2>2
<1> HIDE DEF x2
<1>8. \A z, u : Fine(z) /\ Turned(z, u) => Fine(u)
  BY SMT DEF Turned
<1>9. Turned(x2, [x2 EXCEPT !.padowned = FALSE]) /\ Turned(x2, x2)
  BY <1>7 DEF Ports, Turned, NotStalled
<1> HIDE DEF Fine
<1>10. Fine(x3)
  BY <1>7, <1>8, <1>9
<1> HIDE DEF x3
<1>11. x3 \in Ports
  BY <1>10 DEF Fine
<1>12. Turned(x3, TxDisabled(x3, w))
  BY <1>11, TxDisabledStep
<1>13. Fine(x4)
  BY <1>8, <1>10, <1>12
<1> HIDE DEF x4
<1>14. CASE x.select = TRUE /\ w.select = FALSE
  <2>1. y = Released(x4) /\ x4 \in Ports
    BY <1>13, <1>14 DEF Fine
  <2>2. Freed(y)
    BY <2>1, ReleasedStep
  <2> HIDE DEF y
  <2> QED  BY <1>1, <2>2 DEF Governed, Freed, NotStalled, Deselected
<1>15. CASE ~(x.select = TRUE /\ w.select = FALSE)
  <2>1. y = x4
    BY <1>2, <1>15
  <2> HIDE DEF y
  <2>2. CASE Off(x4)
    BY <1>1, <1>13, <2>1, <2>2 DEF Governed, Fine, Deselected
  <2>3. CASE Kept(x4)
    BY <1>1, <1>2, <1>13, <1>15, <2>1, <2>3 DEF Governed, Fine, Deselected
  <2> QED  BY <1>13, <2>2, <2>3 DEF Fine
<1> QED  BY <1>14, <1>15

-----------------------------------------------------------------------------
(* The transmit register.                                                  *)

(* The state of the wire after a step that leaves the images alone.        *)
Wire(y, g) ==
    /\ y \in Ports /\ g \in Seq(Exchange) /\ Device(y, g)
    /\ NotStalled(y) /\ y.select = sio.select

(* A pad byte, processed at once.                                          *)
LEMMA FastByteStep ==
    ASSUME Types, Device(sio, heard), NEW b \in Byte, FastByte(b)
    PROVE  Wire(sio', heard')
<1> DEFINE c == [Cleared(sio) EXCEPT !.padowned = TRUE]
<1>1. sio \in Ports /\ heard \in Seq(Exchange) /\ CardsOK
  BY DEF Types
<1>2. Turned(sio, c) /\ c.queue = <<>> /\ c.acking = "none"
  <2> DEFINE d == Cleared(sio)
  <2>1. Turned(sio, d) /\ d.queue = <<>> /\ d.acking = "none"
    BY <1>1, ClearedStep
  <2>2. d \in Ports
    BY <2>1 DEF Turned
  <2> HIDE DEF d
  <2>3. Turned(d, [d EXCEPT !.padowned = TRUE])
    BY <2>2 DEF Ports, Turned, NotStalled
  <2>4. [d EXCEPT !.padowned = TRUE].acking = d.acking
    BY <2>2 DEF Ports
  <2> QED  BY <2>1, <2>3, <2>4 DEF Turned, d
<1> HIDE DEF c
<1>3. c \in Ports /\ c.port = sio.port /\ c.select = sio.select /\ Device(c, heard)
  BY <1>2 DEF Turned, Device
<1>4. PICK answers \in BOOLEAN :
        LET o == sio_process_byte(c, b, answers)
        IN  /\ sio' = IF o.x.ack /\ sio.irqen
                      THEN [o.x EXCEPT !.ack = FALSE, !.txrdy = FALSE,
                                       !.acking = "irq", !.timing = TRUE]
                      ELSE [o.x EXCEPT !.txrdy = TRUE]
            /\ heard' = Exchanged(b, o.rx)
  BY DEF FastByte, c
<1> DEFINE o == sio_process_byte(c, b, answers)
           z == o.x
<1>5. Processed(c, o, heard, b)
  BY <1>1, <1>3, ByteStep
<1>6. sio' = (IF z.ack /\ sio.irqen
              THEN [z EXCEPT !.ack = FALSE, !.txrdy = FALSE, !.acking = "irq", !.timing = TRUE]
              ELSE [z EXCEPT !.txrdy = TRUE])
      /\ heard' = Append(heard, [tx |-> b, rx |-> o.rx, port |-> c.port])
  BY <1>3, <1>4 DEF Exchanged
<1> HIDE DEF o
<1>7. z \in Ports /\ SameRegisters(c, z) /\ Device(z, heard') /\ heard' \in Seq(Exchange)
  BY <1>5, <1>6 DEF Processed, Outcomes
<1> HIDE DEF z
<1>8. CASE z.ack /\ sio.irqen
  <2> DEFINE y == [z EXCEPT !.ack = FALSE, !.txrdy = FALSE, !.acking = "irq", !.timing = TRUE]
  <2>1. y \in Ports
    BY <1>7 DEF Ports
  <2>2. /\ y.active = z.active /\ y.mc = z.mc /\ y.slots = z.slots /\ y.slot = z.slot
        /\ y.mcslot = z.mcslot /\ y.port = z.port /\ y.select = z.select /\ y.timing = TRUE
    BY <1>7 DEF Ports
  <2>3. sio' = y
    BY <1>6, <1>8
  <2> HIDE DEF y
  <2> QED  BY <1>3, <1>7, <2>1, <2>2, <2>3 DEF Wire, Device, NotStalled, SameRegisters
<1>9. CASE ~(z.ack /\ sio.irqen)
  <2> DEFINE y == [z EXCEPT !.txrdy = TRUE]
  <2>1. y \in Ports
    BY <1>7 DEF Ports
  <2>2. /\ y.active = z.active /\ y.mc = z.mc /\ y.slots = z.slots /\ y.slot = z.slot
        /\ y.mcslot = z.mcslot /\ y.port = z.port /\ y.select = z.select
        /\ y.queue = z.queue /\ y.acking = z.acking
    BY <1>7 DEF Ports
  <2>3. sio' = y
    BY <1>6, <1>9
  <2> HIDE DEF y
  <2> QED  BY <1>2, <1>3, <1>7, <2>1, <2>2, <2>3 DEF Wire, Device, NotStalled, SameRegisters
<1> QED  BY <1>8, <1>9

(* A byte for the shifter.                                                 *)
LEMMA QueueByteStep ==
    ASSUME Types, Device(sio, heard), NotStalled(sio), NEW b \in Byte, QueueByte(b)
    PROVE  Wire(sio', heard')
<1>1. sio \in Ports /\ heard \in Seq(Exchange)
  BY DEF Types
<1>2. heard' = heard
  BY DEF QueueByte
<1>3. CASE sio' = sio
  BY <1>1, <1>2, <1>3 DEF Wire
<1>4. CASE sio' # sio
  <2> DEFINE e == [byte |-> b, irqen |-> sio.irqen]
             q == Append(sio.queue, e)
             r == IF sio.queue = <<>> THEN FALSE ELSE sio.txrdy
             t == IF sio.queue = <<>> THEN TRUE ELSE sio.timing
             y == [sio EXCEPT !.queue = q, !.txrdy = r, !.timing = t]
  <2>1. sio' = y
    BY <1>1, <1>4 DEF QueueByte, Ports
  <2>2. /\ sio.queue \in Seq([byte : Byte, irqen : BOOLEAN]) /\ sio.irqen \in BOOLEAN
        /\ sio.txrdy \in BOOLEAN /\ sio.timing \in BOOLEAN
    BY <1>1, PortFields
  <2>3. e \in [byte : Byte, irqen : BOOLEAN]
    BY <2>2
  <2>4. r \in BOOLEAN /\ t = TRUE
    BY <2>2 DEF NotStalled
  <2> HIDE DEF e, r, t
  <2>5. q \in Seq([byte : Byte, irqen : BOOLEAN])
    BY <2>2, <2>3, SMT
  <2> HIDE DEF q
  <2>6. y \in Ports
    BY <1>1, <2>4, <2>5 DEF Ports
  <2>7. /\ y.active = sio.active /\ y.mc = sio.mc /\ y.slots = sio.slots
        /\ y.slot = sio.slot /\ y.mcslot = sio.mcslot /\ y.port = sio.port
        /\ y.select = sio.select /\ y.timing = t
    BY <1>1 DEF Ports
  <2> HIDE DEF y
  <2> QED  BY <1>1, <1>2, <2>1, <2>4, <2>6, <2>7 DEF Wire, Device, NotStalled
<1> QED  BY <1>3, <1>4

(* sio_write of SIO_TX_DATA.                                               *)
LEMMA WriteTxStep ==
    ASSUME Types, Device(sio, heard), NotStalled(sio), NEW b \in Byte, WriteTx(b)
    PROVE  Wire(sio', heard')
<1>1. CASE FastByte(b)
  BY <1>1, FastByteStep
<1>2. CASE QueueByte(b)
  BY <1>2, QueueByteStep
<1>3. CASE UNCHANGED <<sio, heard>>
  BY <1>3 DEF Wire, Types
<1> QED  BY <1>1, <1>2, <1>3 DEF WriteTx

-----------------------------------------------------------------------------
(* One lemma per action.                                                   *)

Guests == [prog : Seq(Byte), slack : Nat, left : Nat]

(* A step on the wire of a selected bus keeps the invariant.               *)
LEMMA OnTheWire ==
    ASSUME IndInv, sio.select = TRUE, Wire(sio', heard'), guest' \in Guests,
           UNCHANGED <<cards, file, session>>
    PROVE  IndInv'
<1>1. /\ sio' \in Ports /\ heard' \in Seq(Exchange) /\ Device(sio, heard)'
      /\ NotStalled(sio') /\ sio'.select = TRUE
  BY DEF Wire, Device
<1>2. Types'
  BY <1>1 DEF IndInv, Types, CardsOK, Guests
<1>3. Saved(cards', file')
  BY DEF IndInv, Saved
<1> QED  BY <1>1, <1>2, <1>3 DEF IndInv, Deselected, NotStalled, Saved

(* The next byte of a frame keeps the invariant.                           *)
LEMMA SendInv ==
    ASSUME IndInv, Send
    PROVE  IndInv'
<1>1. /\ guest.prog # <<>> /\ WriteTx(Head(guest.prog)) /\ UNCHANGED <<cards, file, session>>
  BY DEF Send
<1>2. PICK lost \in {0, 1} :
        /\ lost <= guest.slack
        /\ guest' = [guest EXCEPT !.prog = Tail(@), !.slack = @ - lost]
  BY DEF Send
<1>3. guest \in Guests /\ sio \in Ports
  BY DEF IndInv, Types, Guests
<1>4. sio.select = TRUE
  BY <1>1, <1>3, PortFields DEF IndInv
<1>5. Head(guest.prog) \in Byte /\ Tail(guest.prog) \in Seq(Byte)
  BY <1>1, <1>3, SMT DEF Guests
<1>6. guest.slack - lost \in Nat
  BY <1>2, <1>3, SMT DEF Guests
<1>7. guest' \in Guests
  BY <1>2, <1>3, <1>5, <1>6 DEF Guests
<1>8. Wire(sio', heard')
  BY <1>1, <1>5, WriteTxStep DEF IndInv
<1> QED  BY <1>1, <1>4, <1>7, <1>8, OnTheWire

(* A stray byte keeps it.                                                  *)
LEMMA StrayInv ==
    ASSUME IndInv, Stray
    PROVE  IndInv'
<1>1. PICK b \in Strays : WriteTx(b)
  BY DEF Stray
<1>2. /\ sio.select /\ guest.slack > 0 /\ UNCHANGED <<cards, file, session>>
      /\ guest' = [guest EXCEPT !.slack = @ - 1]
  BY DEF Stray
<1>3. guest \in Guests /\ sio \in Ports
  BY DEF IndInv, Types, Guests
<1>4. sio.select = TRUE
  BY <1>2, <1>3, PortFields
<1>5. guest.slack - 1 \in Nat
  BY <1>2, <1>3, SMT DEF Guests
<1>6. guest' \in Guests
  BY <1>2, <1>3, <1>5 DEF Guests
<1>7. b \in Byte
  BY <1>1, PortAssumption
<1>8. Wire(sio', heard')
  BY <1>1, <1>7, WriteTxStep DEF IndInv
<1> QED  BY <1>2, <1>4, <1>6, <1>8, OnTheWire

(* A new frame on the same selection keeps it.                             *)
LEMMA AgainInv ==
    ASSUME IndInv, Again
    PROVE  IndInv'
<1>1. sio \in Ports /\ guest \in Guests
  BY DEF IndInv, Types, Guests
<1>2. PICK p \in Programs[sio.port] : guest' = [guest EXCEPT !.prog = p, !.slack = @ - 1]
  BY DEF Again
<1>3. p \in Seq(Byte) /\ sio.select = TRUE
  BY <1>1, <1>2, PortAssumption, PortFields DEF Again
<1>4. guest.slack - 1 \in Nat
  BY <1>1, SMT DEF Again, Guests
<1>5. guest' \in Guests
  BY <1>1, <1>2, <1>3, <1>4 DEF Guests
<1>6. Wire(sio', heard')
  BY DEF Again, Wire, IndInv, Types
<1> QED  BY <1>3, <1>5, <1>6, OnTheWire DEF Again

(* A read of SIO_STAT keeps it.                                            *)
LEMMA ReadStatInv ==
    ASSUME IndInv, ReadStat
    PROVE  IndInv'
<1> DEFINE v == sio.visible - 1
           a == sio.ack /\ sio.visible > 1
           y == [sio EXCEPT !.visible = v, !.ack = a]
<1>1. sio \in Ports /\ sio.visible \in 0..2 /\ sio.visible > 0 /\ sio.ack \in BOOLEAN
  BY PortFields DEF IndInv, Types, ReadStat
<1>2. v \in 0..2
  BY <1>1, SMT
<1>3. a \in BOOLEAN
  OBVIOUS
<1>4. sio' = y
  BY <1>1 DEF ReadStat, Ports
<1> HIDE DEF v, a
<1>5. Turned(sio, y)
  <2>1. y \in Ports
    BY <1>1, <1>2, <1>3 DEF Ports
  <2>2. /\ y.port = sio.port /\ y.select = sio.select /\ y.active = sio.active
        /\ y.mc = sio.mc /\ y.slots = sio.slots /\ y.slot = sio.slot
        /\ y.mcslot = sio.mcslot /\ y.queue = sio.queue /\ y.acking = sio.acking
        /\ y.timing = sio.timing
    BY <1>1 DEF Ports
  <2> HIDE DEF y
  <2> QED  BY <2>1, <2>2 DEF Turned, NotStalled
<1> HIDE DEF y
<1>6. UNCHANGED <<guest, cards, file, heard, session>>
  BY DEF ReadStat
<1> QED  BY <1>4, <1>5, <1>6, SMT DEF IndInv, Types, CardsOK, Device, Turned, Deselected, Saved,
                                 NotStalled

(* sio_fire_ack_irq keeps it.                                              *)
LEMMA FireAckInv ==
    ASSUME IndInv, FireAck
    PROVE  IndInv'
<1> DEFINE t == IF sio.acking = "irq" \/ sio.irqen THEN sio.queue # <<>> ELSE sio.timing
           y == [sio EXCEPT !.acking = "none", !.ack = TRUE, !.visible = 2, !.timing = t]
<1>1. sio \in Ports /\ sio.timing \in BOOLEAN /\ sio.timing = TRUE /\ 2 \in 0..2
  BY PortFields, SMT DEF IndInv, Types, FireAck
<1>2. t \in BOOLEAN /\ (sio.queue # <<>> => t = TRUE)
  BY <1>1
<1>3. sio' = y
  BY <1>1 DEF FireAck, Ports
<1> HIDE DEF t
<1>4. Turned(sio, y)
  <2>1. y \in Ports
    BY <1>1, <1>2 DEF Ports
  <2>2. /\ y.port = sio.port /\ y.select = sio.select /\ y.active = sio.active
        /\ y.mc = sio.mc /\ y.slots = sio.slots /\ y.slot = sio.slot
        /\ y.mcslot = sio.mcslot /\ y.queue = sio.queue /\ y.acking = "none"
        /\ y.timing = t
    BY <1>1 DEF Ports
  <2> HIDE DEF y
  <2> QED  BY <1>2, <2>1, <2>2 DEF Turned, NotStalled
<1> HIDE DEF y
<1>5. UNCHANGED <<guest, cards, file, heard, session>>
  BY DEF FireAck
<1> QED  BY <1>3, <1>4, <1>5, SMT DEF IndInv, Types, CardsOK, Device, Turned, Deselected, Saved,
                                 NotStalled

(* A write of SIO_CTRL keeps it.                                           *)
LEMMA ControlInv ==
    ASSUME ~SlotFlips, IndInv, Control
    PROVE  IndInv'
<1>1. PICK w \in CtrlWords :
        /\ sio.select /\ w.select => w.port = sio.port \/ SlotFlips
        /\ sio' = WriteCtrl(w)
        /\ \/ /\ ~sio.select /\ sio'.select /\ guest.left > 0
              /\ \E p \in Programs[w.port] :
                   guest' = [prog |-> p, slack |-> session.slack, left |-> guest.left - 1]
           \/ ~sio'.select /\ guest' = Idle(guest.left)
           \/ /\ sio.select /\ sio'.select
              /\ \E departs \in {0, 1} :
                   departs <= guest.slack /\ guest' = [guest EXCEPT !.slack = @ - departs]
        /\ heard' = IF sio.select /\ sio'.select THEN heard ELSE <<>>
  BY DEF Control
<1>2. sio \in Ports /\ w \in CtrlWord /\ w.port \in Slots
  BY <1>1, PortAssumption DEF IndInv, Types, CtrlWord
<1>3. /\ sio' \in Ports /\ NotStalled(sio') /\ Deselected(sio')
      /\ sio'.active # "card" => sio'.mc.state = "idle"
      /\ \A s \in Slots : sio'.slots[s].state = "idle"
      /\ sio'.active # "none" =>
           /\ sio.select = TRUE /\ sio'.select = TRUE /\ w.select = TRUE
           /\ sio'.active = sio.active /\ sio'.mc = sio.mc /\ sio'.slot = sio.slot
           /\ sio'.mcslot = sio.mcslot /\ sio'.port = w.port
  <2>1. Governed(sio, w, WriteCtrl(w))
    BY <1>2, CtrlStep DEF IndInv, Device
  <2> QED  BY <1>1, <2>1 DEF Governed
<1>4. UNCHANGED <<cards, file, session>>
  BY DEF Control
<1>5. heard' \in Seq(Exchange)
  BY <1>1, SMT DEF IndInv, Types
<1>6. Device(sio, heard)'
  <2>1. CASE sio'.active = "card"
    <3>1. heard' = heard /\ sio'.port = sio.port
      BY <1>1, <1>3, <2>1
    <3> QED  BY <1>3, <1>4, <2>1, <3>1 DEF IndInv, Device
  <2>2. CASE sio'.active # "card"
    BY <1>3, <2>2 DEF Device
  <2> QED  BY <2>1, <2>2
<1>7. /\ guest \in Guests /\ session.slack \in Nat /\ sio'.select \in BOOLEAN
  BY <1>3, PortFields DEF IndInv, Types, Guests
<1>8. guest' \in Guests /\ (sio'.select = FALSE => guest'.prog = <<>>)
  <2>1. CASE /\ ~sio.select /\ sio'.select /\ guest.left > 0
             /\ \E p \in Programs[w.port] :
                  guest' = [prog |-> p, slack |-> session.slack, left |-> guest.left - 1]
    <3>1. PICK p \in Programs[w.port] :
            guest' = [prog |-> p, slack |-> session.slack, left |-> guest.left - 1]
      BY <2>1
    <3>2. p \in Seq(Byte) /\ guest.left - 1 \in Nat
      BY <1>2, <1>7, <2>1, PortAssumption, SMT DEF Guests
    <3>3. guest' \in Guests
      BY <1>7, <3>1, <3>2 DEF Guests
    <3> QED  BY <1>7, <2>1, <3>3
  <2>2. CASE ~sio'.select /\ guest' = Idle(guest.left)
    BY <1>7, <2>2, SMT DEF Idle, Guests
  <2>3. CASE /\ sio.select /\ sio'.select
             /\ \E departs \in {0, 1} :
                  departs <= guest.slack /\ guest' = [guest EXCEPT !.slack = @ - departs]
    <3>1. PICK departs \in {0, 1} :
            departs <= guest.slack /\ guest' = [guest EXCEPT !.slack = @ - departs]
      BY <2>3
    <3>2. guest.slack - departs \in Nat
      BY <1>7, <3>1, SMT DEF Guests
    <3>3. guest' \in Guests
      BY <1>7, <3>1, <3>2 DEF Guests
    <3> QED  BY <1>7, <2>3, <3>3
  <2> QED  BY <1>1, <2>1, <2>2, <2>3
<1>9. Types'
  BY <1>3, <1>4, <1>5, <1>8 DEF IndInv, Types, CardsOK, Guests
<1> QED  BY <1>3, <1>4, <1>6, <1>8, <1>9 DEF IndInv, Saved, NotStalled, Deselected

(* The process is over: the port and the guest start anew.                 *)
LEMMA OverInv ==
    ASSUME IndInv, Exit \/ Crash
    PROVE  IndInv'
<1>1. /\ sio' = sio_init /\ guest' = Idle(0) /\ heard' = <<>>
      /\ UNCHANGED <<cards, file, session>>
  BY DEF Exit, Crash
<1>2. guest' \in Guests /\ guest'.prog = <<>> /\ heard' \in Seq(Exchange)
  BY <1>1, SMT DEF Idle, Guests
<1>3. Types'
  BY <1>1, <1>2, InitPort DEF IndInv, Types, CardsOK, Guests
<1>4. Device(sio, heard)'
  BY <1>1, InitPort, NoTransferType DEF Device, sio_init
<1> QED  BY <1>1, <1>2, <1>3, <1>4, InitPort DEF IndInv, Saved, NotStalled, Deselected

(* A byte through the shifter.                                             *)
Shifted(b, o) ==
    /\ Processed(sio, o, heard, b)
    /\ heard' = Append(heard, [tx |-> b, rx |-> o.rx, port |-> sio.port])
    /\ sio' \in Ports /\ NotStalled(sio') /\ sio'.select = sio.select
    /\ sio'.port = sio.port /\ sio'.active = o.x.active /\ sio'.mc = o.x.mc
    /\ sio'.slots = o.x.slots /\ sio'.slot = o.x.slot /\ sio'.mcslot = o.x.mcslot
    /\ sio.queue # <<>>

Stores(o) ==
    cards' = IF ~o.stores THEN cards
             ELSE [cards EXCEPT ![o.x.mcslot].image = memcard_write_sector(@, o.x.mc),
                                ![o.x.mcslot].dirty = TRUE]

(* sio_handle_shift_complete processes the first byte of the queue.        *)
LEMMA ShiftStep ==
    ASSUME IndInv, ShiftDone
    PROVE  \E b \in Byte, answers \in BOOLEAN :
               LET o == sio_process_byte(sio, b, answers) IN Shifted(b, o) /\ Stores(o)
<1> DEFINE first == Head(sio.queue)
           rest  == Tail(sio.queue)
           b     == first.byte
           Entry == [byte : Byte, irqen : BOOLEAN]
<1>1. /\ sio \in Ports /\ heard \in Seq(Exchange) /\ CardsOK /\ sio.queue # <<>>
      /\ sio.queue \in Seq(Entry)
  BY PortFields DEF IndInv, Types, ShiftDone
<1> HIDE DEF Entry
<1>2. first \in Entry /\ rest \in Seq(Entry)
  BY <1>1, SMT
<1> USE DEF Entry
<1>3. b \in Byte
  BY <1>2
<1>4. PICK answers \in BOOLEAN :
        LET o == sio_process_byte(sio, b, answers)
            x == o.x
        IN  /\ sio' = [x EXCEPT
                         !.ack    = FALSE,
                         !.acking = IF ~x.ack THEN "none"
                                    ELSE IF first.irqen THEN "irq" ELSE "quiet",
                         !.queue  = rest,
                         !.timing = x.ack \/ rest # <<>>]
            /\ heard' = Exchanged(b, o.rx)
            /\ cards' = IF ~o.stores THEN cards
                        ELSE [cards EXCEPT
                                ![x.mcslot].image = memcard_write_sector(@, x.mc),
                                ![x.mcslot].dirty = TRUE]
  BY DEF ShiftDone
<1> DEFINE o == sio_process_byte(sio, b, answers)
           x == o.x
           a == IF ~x.ack THEN "none" ELSE IF first.irqen THEN "irq" ELSE "quiet"
           t == x.ack \/ rest # <<>>
           y == [x EXCEPT !.ack = FALSE, !.acking = a, !.queue = rest, !.timing = t]
<1>5. Processed(sio, o, heard, b)
  BY <1>1, <1>3, ByteStep DEF IndInv
<1>6. /\ sio' = y /\ Stores(o)
      /\ heard' = Append(heard, [tx |-> b, rx |-> o.rx, port |-> sio.port])
  BY <1>4 DEF Exchanged, Stores
<1> HIDE DEF o
<1>7. x \in Ports /\ SameRegisters(sio, x) /\ x.ack \in BOOLEAN
  BY <1>5, PortFields DEF Processed, Outcomes
<1> HIDE DEF x
<1>8. a \in {"none", "quiet", "irq"} /\ t \in BOOLEAN
  OBVIOUS
<1>9. rest # <<>> \/ a # "none" => t = TRUE
  BY <1>7
<1> HIDE DEF a, t, rest
<1>10. y \in Ports
  BY <1>2, <1>7, <1>8 DEF Ports
<1>11. /\ y.queue = rest /\ y.acking = a /\ y.timing = t /\ y.select = x.select
       /\ y.port = x.port /\ y.active = x.active /\ y.mc = x.mc /\ y.slots = x.slots
       /\ y.slot = x.slot /\ y.mcslot = x.mcslot
  BY <1>7 DEF Ports
<1> HIDE DEF y
<1>12. Shifted(b, o)
  BY <1>1, <1>5, <1>6, <1>7, <1>9, <1>10, <1>11
     DEF Shifted, NotStalled, SameRegisters, x
<1> QED  BY <1>3, <1>6, <1>12 DEF o

(* memcard_write_sector returns an image.                                  *)
LEMMA StoredImage ==
    ASSUME NEW image \in Image, NEW m \in Card
    PROVE  memcard_write_sector(image, m) \in Image
BY CardFields DEF memcard_write_sector, Image

(* sio_handle_shift_complete keeps the invariant.                          *)
LEMMA ShiftDoneInv ==
    ASSUME IndInv, ShiftDone
    PROVE  IndInv'
<1>1. PICK b \in Byte, answers \in BOOLEAN :
        LET o == sio_process_byte(sio, b, answers) IN Shifted(b, o) /\ Stores(o)
  BY ShiftStep
<1> DEFINE o == sio_process_byte(sio, b, answers)
           x == o.x
<1>2. Shifted(b, o) /\ Stores(o)
  BY <1>1
<1> HIDE DEF o
<1>3. /\ sio \in Ports /\ sio.select \in BOOLEAN /\ CardsOK
      /\ UNCHANGED <<guest, file, session>>
  BY PortFields DEF IndInv, Types, ShiftDone
<1>4. sio.select = TRUE /\ sio'.select = TRUE
  BY <1>2, <1>3 DEF IndInv, Deselected, Shifted
<1>5. /\ x \in Ports /\ o.stores \in BOOLEAN /\ Device(x, heard') /\ heard' \in Seq(Exchange)
      /\ o.stores = TRUE => /\ x.active = "card" /\ x.mcslot = sio.port
                            /\ x.mc.state \in Apart
      /\ x.port = sio.port
  BY <1>2 DEF Shifted, Processed, Outcomes, SameRegisters
<1>6. sio.port \in Slots /\ x.mc \in Card
  BY <1>3, <1>5, PortFields
<1>7. CASE o.stores = FALSE
  <2>1. cards' = cards
    BY <1>2, <1>7 DEF Stores
  <2>2. Wire(sio', heard')
    BY <1>2, <1>5 DEF Wire, Shifted, Device
  <2> QED  BY <1>3, <1>4, <2>1, <2>2, OnTheWire DEF IndInv, Types, Guests
<1>8. CASE o.stores = TRUE
  <2> DEFINE s == sio.port
             i == memcard_write_sector(cards[s].image, x.mc)
  <2>1. cards' = [cards EXCEPT ![s].image = i, ![s].dirty = TRUE]
    BY <1>2, <1>5, <1>8 DEF Stores
  <2>2. i \in Image
    BY <1>3, <1>6, StoredImage DEF CardsOK
  <2> HIDE DEF i
  <2>3. CardsOK'
    BY <1>3, <1>6, <2>1, <2>2 DEF CardsOK
  <2>4. Saved(cards', file')
    <3> SUFFICES ASSUME NEW u \in Slots, cards'[u].present = TRUE, cards'[u].dirty = FALSE
                 PROVE  file'[u] = Whole(cards'[u].image)
      BY DEF Saved
    <3>1. cards'[s].dirty = TRUE
      BY <1>3, <1>6, <2>1 DEF CardsOK
    <3>2. u # s
      BY <3>1
    <3>3. cards'[u] = cards[u]
      BY <1>3, <2>1, <3>2 DEF CardsOK
    <3> QED  BY <1>3, <3>3 DEF IndInv, Saved
  <2>5. Device(sio, heard)'
    BY <1>2, <1>5, <1>8, ApartIsAlong DEF Device, Shifted
  <2>6. Types'
    BY <1>2, <1>3, <1>5, <2>3 DEF IndInv, Types, Shifted
  <2> QED  BY <1>2, <1>4, <2>4, <2>5, <2>6 DEF IndInv, Shifted, Saved, NotStalled, Deselected
<1> QED  BY <1>5, <1>7, <1>8

(* memcard_init_slots: a card that is present is what its file holds.      *)
LEMMA LoadedStep ==
    ASSUME NEW s, NEW f \in [kind : Kinds, image : Image], NEW l \in Loaded(s, f)
    PROVE  /\ l[1] \in [kind : Kinds, image : Image]
           /\ l[2] \in [image : Image, present : BOOLEAN, dirty : BOOLEAN]
           /\ l[2].present = TRUE => l[1] = Whole(l[2].image)
<1>1. /\ Whole(Format) \in [kind : Kinds, image : Image]
      /\ Missing \in [kind : Kinds, image : Image] /\ Torn \in [kind : Kinds, image : Image]
      /\ Absent \in [image : Image, present : BOOLEAN, dirty : BOOLEAN]
      /\ Inserted(Format) \in [image : Image, present : BOOLEAN, dirty : BOOLEAN]
      /\ Inserted(f.image) \in [image : Image, present : BOOLEAN, dirty : BOOLEAN]
      /\ Absent.present = FALSE
      /\ Inserted(Format).image = Format /\ Inserted(f.image).image = f.image
  BY FormatType DEF Whole, Missing, Torn, Absent, Inserted, Kinds
<1>2. f.kind = "whole" => f = Whole(f.image)
  BY DEF Whole
<1>3. \/ l = <<f, Absent>>
      \/ f.kind = "whole" /\ l = <<f, Inserted(f.image)>>
      \/ l = <<Whole(Format), Inserted(Format)>>
      \/ \E g \in {Missing, Torn, Whole(Format)} : l = <<g, Absent>>
  BY DEF Loaded
<1> QED  BY <1>1, <1>2, <1>3, SMT

(* A start of the process keeps it.                                        *)
LEMMA StartInv ==
    ASSUME IndInv, Start
    PROVE  IndInv'
<1>1. PICK load \in [Slots -> UNION {Loaded(s, file[s]) : s \in Slots}] :
         /\ \A s \in Slots : load[s] \in Loaded(s, file[s])
         /\ file' = [s \in Slots |-> load[s][1]]
         /\ cards' = [s \in Slots |-> load[s][2]]
  BY DEF Start
<1>2. \A s \in Slots :
        /\ load[s][1] \in [kind : Kinds, image : Image]
        /\ load[s][2] \in [image : Image, present : BOOLEAN, dirty : BOOLEAN]
        /\ load[s][2].present = TRUE => load[s][1] = Whole(load[s][2].image)
  BY <1>1, LoadedStep DEF IndInv, Types
<1>3. file' \in [Slots -> [kind : Kinds, image : Image]] /\ CardsOK'
  BY <1>1, <1>2 DEF CardsOK
<1>4. Saved(cards', file')
  BY <1>1, <1>2 DEF Saved
<1>5. /\ sio' = sio_init /\ guest' = Idle(session.selections) /\ heard' = <<>>
      /\ session' = session
  BY DEF Start
<1>6. guest' \in Guests /\ guest'.prog = <<>> /\ heard' \in Seq(Exchange)
  BY <1>5, SMT DEF Idle, Guests, IndInv, Types
<1>7. Types'
  BY <1>3, <1>5, <1>6, InitPort DEF IndInv, Types, Guests
<1>8. Device(sio, heard)'
  BY <1>5, InitPort, NoTransferType DEF Device, sio_init
<1> QED  BY <1>4, <1>5, <1>6, <1>7, <1>8, InitPort DEF IndInv, Saved, NotStalled, Deselected

(* Opening a card file, which truncates it, keeps it.                      *)
LEMMA FlushOpenInv ==
    ASSUME IndInv, FlushOpen
    PROVE  IndInv'
<1>1. UNCHANGED <<sio, guest, cards, heard, session>> /\ CardsOK
  BY DEF FlushOpen, IndInv, Types
<1>2. \/ file' = file
      \/ \E s : cards[s].dirty /\ file' = [file EXCEPT ![s] = Torn]
  BY DEF FlushOpen
<1>3. file' \in [Slots -> [kind : Kinds, image : Image]]
  BY <1>2, FormatType, SMT DEF IndInv, Types, Torn, Kinds
<1>4. Saved(cards', file')
  <2> SUFFICES ASSUME NEW u \in Slots, cards'[u].present = TRUE, cards'[u].dirty = FALSE
               PROVE  file'[u] = file[u]
    BY <1>1 DEF IndInv, Saved
  <2>1. cards[u].dirty = FALSE
    BY <1>1
  <2> QED  BY <1>2, <2>1 DEF IndInv, Types
<1>5. Types'
  BY <1>1, <1>3 DEF IndInv, Types, CardsOK
<1> QED  BY <1>1, <1>4, <1>5 DEF IndInv, Device, Saved, NotStalled, Deselected

(* Writing a card file, or failing to, keeps it.                           *)
LEMMA FlushWriteInv ==
    ASSUME IndInv, FlushWrite
    PROVE  IndInv'
<1> DEFINE s     == Head(host.todo)
           all   == [file EXCEPT ![s] = Whole(cards[s].image)]
           clean == [cards EXCEPT ![s].dirty = FALSE]
           Files == [kind : Kinds, image : Image]
<1>1. /\ UNCHANGED <<sio, guest, heard, session>> /\ CardsOK /\ Saved(cards, file)
      /\ file \in [Slots -> Files]
  BY DEF FlushWrite, IndInv, Types
<1>2. file' \in {file, all} /\ (cards' = cards \/ (file' = all /\ cards' = clean))
  BY DEF FlushWrite
<1> HIDE DEF s
<1>3. /\ clean \in [Slots -> [image : Image, present : BOOLEAN, dirty : BOOLEAN]]
      /\ \A u \in Slots : /\ clean[u].image = cards[u].image
                          /\ clean[u].present = cards[u].present
      /\ \A u \in Slots : u # s => clean[u] = cards[u]
  BY <1>1 DEF CardsOK
<1>4. \A u \in Slots : Whole(cards[u].image) \in Files
  BY <1>1 DEF Whole, Kinds, CardsOK
<1> HIDE DEF Files
<1>5. /\ all \in [Slots -> Files]
      /\ \A u \in Slots : /\ u = s => all[u] = Whole(cards[u].image)
                          /\ u # s => all[u] = file[u]
  BY <1>1, <1>4
<1> HIDE DEF all, clean
<1>6. CardsOK'
  BY <1>1, <1>2, <1>3 DEF CardsOK
<1>7. Saved(cards', file')
  <2> SUFFICES ASSUME NEW u \in Slots, cards'[u].present = TRUE, cards'[u].dirty = FALSE
               PROVE  file'[u] = Whole(cards'[u].image)
    BY DEF Saved
  <2> QED  BY <1>1, <1>2, <1>3, <1>5, SMT DEF Saved
<1>8. Types'
  BY <1>1, <1>2, <1>5, <1>6 DEF IndInv, Types, Files
<1>9. Device(sio, heard)'
  <2>1. sio.port \in Slots
    BY PortFields DEF IndInv, Types
  <2>2. cards'[sio.port].image = cards[sio.port].image
    BY <1>2, <1>3, <2>1
  <2> QED  BY <1>1, <2>2 DEF IndInv, Device
<1> QED  BY <1>1, <1>7, <1>8, <1>9 DEF IndInv, Saved, NotStalled, Deselected

(* The invariant holds initially.                                          *)
LEMMA InitInv == Init => IndInv
<1> SUFFICES ASSUME Init PROVE IndInv
  OBVIOUS
<1>1. /\ sio = sio_init /\ guest = Idle(0) /\ heard = <<>>
      /\ cards = [s \in Slots |-> Absent] /\ session \in Sessions
      /\ file = [s \in Slots |-> IF s \in OnDisk THEN Whole(Format) ELSE Missing]
  BY DEF Init
<1>2. guest \in Guests /\ guest.prog = <<>> /\ heard \in Seq(Exchange)
  BY <1>1, SMT DEF Idle, Guests
<1>3. CardsOK /\ \A s \in Slots : cards[s].present = FALSE
  BY <1>1, FormatType DEF CardsOK, Absent
<1>4. file \in [Slots -> [kind : Kinds, image : Image]]
  BY <1>1, FormatType DEF Whole, Missing, Kinds
<1>5. Types
  BY <1>1, <1>2, <1>3, <1>4, InitPort, PortAssumption DEF Types, Guests
<1> QED  BY <1>1, <1>2, <1>3, <1>5, InitPort DEF IndInv, Saved

(* Every step keeps the invariant.                                         *)
LEMMA NextInv ==
    ASSUME ~SlotFlips, IndInv, [Next]_vars
    PROVE  IndInv'
<1>1. CASE UNCHANGED vars
  BY <1>1 DEF vars, IndInv, Types, CardsOK, Device, Saved, NotStalled, Deselected
<1>2. CASE Next
  BY <1>2, StartInv, OverInv, FlushOpenInv, FlushWriteInv, SendInv, StrayInv, AgainInv,
     ControlInv, ReadStatInv, FireAckInv, ShiftDoneInv DEF Next, Advance
<1> QED  BY <1>1, <1>2

-----------------------------------------------------------------------------
(* What the properties say of one step.                                    *)

(* A card that stores has been sent a whole write frame.                   *)
LEMMA StoresAFrame ==
    ASSUME IndInv, ShiftDone, NEW s \in Slots, cards'[s].image # cards[s].image
    PROVE  ByWholeFrame(s)
<1>1. PICK b \in Byte, answers \in BOOLEAN :
        LET o == sio_process_byte(sio, b, answers) IN Shifted(b, o) /\ Stores(o)
  BY ShiftStep
<1> DEFINE o == sio_process_byte(sio, b, answers)
           m == o.x.mc
           i == memcard_write_sector(cards[s].image, m)
           n == DataLen + 7
           at == Addressed(heard', n)
           data == [k \in 1..DataLen |-> Of(heard', n, 6 + k).tx]
<1>2. Shifted(b, o) /\ Stores(o)
  BY <1>1
<1> HIDE DEF o
<1>3. /\ CardsOK /\ o.stores \in BOOLEAN /\ o.x \in Ports
      /\ o.stores = TRUE => o.x.mcslot = sio.port /\ Complete(heard', sio.port, m)
  BY <1>2 DEF IndInv, Types, Shifted, Processed, Outcomes
<1>4. o.stores = TRUE
  BY <1>2, <1>3 DEF Stores
<1>5. s = sio.port /\ cards'[s].image = i
  BY <1>2, <1>3, <1>4 DEF Stores, CardsOK
<1>6. /\ IsFrame(heard', n, s, CmdWrite) /\ Address(m) \in Sectors
      /\ Of(heard', n, 5).tx = m.msb /\ Of(heard', n, 6).tx = m.lsb
      /\ \A k \in 1..DataLen : Of(heard', n, 6 + k).tx = m.data[k]
      /\ Of(heard', n, n).tx = Checksum(m.msb, m.lsb, m.data)
  BY <1>3, <1>4, <1>5 DEF Complete
<1>7. m.data \in [1..DataLen -> Byte]
  BY <1>3, PortFields, CardFields DEF Data
<1>8. data = m.data
  BY <1>6, <1>7
<1>9. at = Address(m) /\ at[1] = m.msb /\ at[2] = m.lsb
  BY <1>6 DEF Addressed, Address
<1> QED  BY <1>5, <1>6, <1>8, <1>9 DEF ByWholeFrame, memcard_write_sector

(* Nothing else changes an image.                                          *)
LEMMA OnlyFramesStore ==
    ASSUME IndInv, [Next]_vars, host.phase # "down", NEW s \in Slots,
           cards'[s].image # cards[s].image
    PROVE  ByWholeFrame(s)
<1>1. CASE ShiftDone
  BY <1>1, StoresAFrame
<1>2. CASE FlushWrite
  <2>1. cards' = cards \/ \E u : cards' = [cards EXCEPT ![u].dirty = FALSE]
    BY <1>2 DEF FlushWrite
  <2>2. cards \in [Slots -> [image : Image, present : BOOLEAN, dirty : BOOLEAN]]
    BY DEF IndInv, Types, CardsOK
  <2>3. ASSUME NEW u, cards' = [cards EXCEPT ![u].dirty = FALSE]
        PROVE  cards'[s].image = cards[s].image
    BY <2>2, <2>3
  <2> QED  BY <2>1, <2>3
<1>3. CASE cards' = cards
  BY <1>3
<1>4. ShiftDone \/ FlushWrite \/ cards' = cards
  BY DEF Next, vars, Start, Exit, Crash, FlushOpen, Send, Stray, Again, Control,
         ReadStat, Advance, FireAck
<1> QED  BY <1>1, <1>2, <1>3, <1>4

(* A card that ends a read has sent a whole sector.                        *)
LEMMA SendsASector ==
    ASSUME IndInv, ShiftDone, ReadEnds
    PROVE  SentWholeSector(sio.port)
<1>1. PICK b \in Byte, answers \in BOOLEAN :
        LET o == sio_process_byte(sio, b, answers) IN Shifted(b, o) /\ Stores(o)
  BY ShiftStep
<1> DEFINE o == sio_process_byte(sio, b, answers)
           e == [tx |-> b, rx |-> o.rx, port |-> sio.port]
           m == sio.mc
           s == sio.port
           n == DataLen + 12
           at == Addressed(heard', n)
           is == cards[s].image[at]
<1>2. /\ sio \in Ports /\ heard \in Seq(Exchange) /\ heard' \in Seq(Exchange)
      /\ heard' = Append(heard, e) /\ o.rx \in Reply /\ m.state = "rend"
      /\ sio.active = "card"
  BY <1>1 DEF IndInv, Types, Shifted, Processed, Outcomes, ReadEnds
<1>3. heard'[Len(heard')] = e
  BY <1>2, SMT
<1>4. o.rx = Good
  BY <1>3, SMT DEF ReadEnds
<1>5. Address(m) \in Sectors
  BY <1>2, <1>4, EndOfRead
<1> HIDE DEF o
<1>6. e \in Exchange /\ DataLen \in Nat
  BY <1>2, PortFields, Bytes DEF Exchange
<1> HIDE DEF e
<1>7. Along(heard, s, m, cards[s].image)
  BY <1>2 DEF IndInv, Device
<1>8. /\ m.idx = DataLen /\ Fetched(heard, 11 + DataLen, s, m, cards[s].image)
      /\ Delivered(heard, 11 + DataLen, m)
      /\ Of(heard, 11 + DataLen, 11 + DataLen).rx = m.checksum
  BY <1>2, <1>7 DEF Along
<1>9. /\ m.cmd = CmdRead /\ 11 + DataLen <= Len(heard)
      /\ \A k \in 1..(11 + DataLen) : Of(heard, 11 + DataLen, k).port = s
      /\ Of(heard, 11 + DataLen, 1).tx = CardSelect
      /\ Of(heard, 11 + DataLen, 2).tx = m.cmd
      /\ Of(heard, 11 + DataLen, 5).tx = m.msb
      /\ Of(heard, 11 + DataLen, 6).tx = m.lsb
      /\ m.data = cards[s].image[Address(m)]
      /\ m.checksum = Checksum(m.msb, m.lsb, m.data)
  BY <1>5, <1>8 DEF Fetched, Placed, Named, Begun, memcard_read_sector, Address
<1>10. /\ Len(heard') = Len(heard) + 1
       /\ \A k \in 1..(11 + DataLen) : Of(heard', n, k) = Of(heard, 11 + DataLen, k)
       /\ Of(heard', n, n) = e
  BY <1>2, <1>6, <1>9, OneMore, SMT
<1>11. e.port = s
  BY DEF e
<1>12. IsFrame(heard', n, s, CmdRead)
  BY <1>6, <1>9, <1>10, <1>11, SMT DEF IsFrame
<1>13. at = Address(m) /\ at[1] = m.msb /\ at[2] = m.lsb
  BY <1>6, <1>9, <1>10, SMT DEF Addressed, Address
<1>14. is = m.data
  BY <1>9, <1>13
<1>15. \A i \in 1..DataLen : Of(heard', n, 10 + i).rx = m.data[i]
  <2>1. \A i \in 1..DataLen : 10 + i \in 1..(11 + DataLen)
    BY <1>6, SMT
  <2> QED  BY <1>8, <1>10, <2>1 DEF Delivered
<1>16. Of(heard', n, n - 1).rx = m.checksum
  BY <1>6, <1>8, <1>10, SMT
<1> HIDE DEF at, is
<1> QED  BY <1>5, <1>9, <1>12, <1>13, <1>14, <1>15, <1>16 DEF SentWholeSector, at, is

(* Nothing else ends a read.                                               *)
LEMMA OnlySectorsAreSent ==
    ASSUME IndInv, [Next]_vars, ReadEnds
    PROVE  SentWholeSector(sio.port)
<1>1. heard' # heard /\ sio.active = "card" /\ sio'.active = "card"
  BY DEF ReadEnds
<1>2. CASE ShiftDone
  BY <1>2, SendsASector
<1>3. ASSUME NEW b, WriteTx(b) PROVE FALSE
  BY <1>1, <1>3 DEF WriteTx, PadFastPath, QueueByte
<1>4. ~(Send \/ Stray)
  BY <1>3 DEF Send, Stray
<1>5. ~Control
  <2> SUFFICES ASSUME Control PROVE FALSE
    OBVIOUS
  <2>1. PICK w \in CtrlWords :
          /\ sio' = WriteCtrl(w)
          /\ heard' = IF sio.select /\ sio'.select THEN heard ELSE <<>>
    BY DEF Control
  <2>2. sio \in Ports /\ w \in CtrlWord
    BY <2>1, PortAssumption DEF IndInv, Types
  <2>3. Governed(sio, w, sio')
    BY <2>1, <2>2, CtrlStep DEF IndInv, Device
  <2> QED  BY <1>1, <2>1, <2>3 DEF Governed
<1>6. ~(Start \/ Exit \/ Crash)
  BY <1>1, SMT DEF Start, Exit, Crash, sio_init
<1>7. ~(FlushOpen \/ FlushWrite \/ Again \/ ReadStat \/ FireAck \/ UNCHANGED vars)
  BY <1>1 DEF FlushOpen, FlushWrite, Again, ReadStat, FireAck, vars
<1> QED  BY <1>2, <1>4, <1>5, <1>6, <1>7 DEF Next, Advance

-----------------------------------------------------------------------------
(* In the theorems, ~SlotFlips says that the guest releases the bus before *)
(* it turns to the other port, as the BIOS and the games do.               *)

(* The invariant: the state of a card's protocol fits the bytes that were  *)
(* exchanged, an unselected bus is idle, the shifter is never stalled and  *)
(* a clean card is in its file.                                            *)
THEOREM InvariantHolds == ~SlotFlips => (Spec => []IndInv)
<1> SUFFICES ASSUME ~SlotFlips PROVE Spec => []IndInv
  OBVIOUS
<1>1. Init => IndInv
  BY InitInv
<1>2. IndInv /\ [Next]_vars => IndInv'
  BY NextInv
<1> QED  BY <1>1, <1>2, PTL DEF Spec

(* mc_process_byte and sio_process_byte: a card's image changes only at    *)
(* the end of a whole write frame with the right checksum, and by what it  *)
(* says, for any length of a sector, any frames and any stray bytes.       *)
THEOREM WritesAreWhole == ~SlotFlips => (Spec => WholeWrites)
<1> SUFFICES ASSUME ~SlotFlips PROVE Spec => WholeWrites
  OBVIOUS
<1> DEFINE A == host.phase # "down" =>
                  \A s \in Slots : cards'[s].image # cards[s].image => ByWholeFrame(s)
<1>1. IndInv /\ [Next]_vars => [A]_vars
  BY OnlyFramesStore
<1>2. Spec => []IndInv
  BY InvariantHolds
<1> QED  BY <1>1, <1>2, PTL DEF Spec, WholeWrites

(* MC_READ_END: a read that ends with 'G' has sent the sector it was asked *)
(* for and its checksum.                                                   *)
THEOREM ReadsAreWhole == ~SlotFlips => (Spec => WholeReads)
<1> SUFFICES ASSUME ~SlotFlips PROVE Spec => WholeReads
  OBVIOUS
<1>1. IndInv /\ [Next]_vars => [ReadEnds => SentWholeSector(sio.port)]_vars
  BY OnlySectorsAreSent
<1>2. Spec => []IndInv
  BY InvariantHolds
<1> QED  BY <1>1, <1>2, PTL DEF Spec, WholeReads

(* memcard_flush: a card that is not dirty is what its file holds, after   *)
(* any failures of the host and any number of restarts.                    *)
THEOREM CleanCardsAreSaved == ~SlotFlips => (Spec => []CleanIsSaved)
<1> SUFFICES ASSUME ~SlotFlips PROVE Spec => []CleanIsSaved
  OBVIOUS
<1>1. IndInv => CleanIsSaved
  BY DEF IndInv, Types, CardsOK, Saved, CleanIsSaved
<1>2. Spec => []IndInv
  BY InvariantHolds
<1> QED  BY <1>1, <1>2, PTL

(* g_sio_timing_active stays set while a byte or an acknowledge is due.    *)
THEOREM ShifterNeverStalls == ~SlotFlips => (Spec => []NeverStalls)
<1> SUFFICES ASSUME ~SlotFlips PROVE Spec => []NeverStalls
  OBVIOUS
<1>1. IndInv => NeverStalls
  BY DEF IndInv, NotStalled, NeverStalls
<1>2. Spec => []IndInv
  BY InvariantHolds
<1> QED  BY <1>1, <1>2, PTL
=============================================================================
