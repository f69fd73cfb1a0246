---------------------------- MODULE MemoryCard -----------------------------
(***************************************************************************)
(* What a memory card does with a byte it receives (mc_process_byte in     *)
(* runtime/src/sio.c) and the two operations it uses of its image          *)
(* (runtime/src/memcard.c).  A card is the record of the mc_ variables; a  *)
(* reply is that record afterwards, the byte sent back, whether the card   *)
(* acknowledges, and whether it stores the sector it has received.         *)
(***************************************************************************)
EXTENDS Naturals, Sequences

CONSTANTS
    Byte,       \* the bytes that occur on the bus
    ByteXor(_, _),  \* exclusive or of two bytes
    Sectors,    \* the addresses <<msb, lsb>> below MEMCARD_SECTORS
    DataLen,    \* MEMCARD_SECTOR_SIZE
    Blank       \* a sector of a formatted card

CardSelect == 129  \* 0x81
PadSelect  == 1    \* 0x01
CmdRead    == 82   \* 0x52
CmdWrite   == 87   \* 0x57
CmdGetId   == 83   \* 0x53
Commands   == {CmdRead, CmdWrite, CmdGetId}

HighZ  == 255
NewCard == 8
Good   == 71   \* 'G'
BadSum == 78   \* 'N'

Data == [1..DataLen -> Byte]

ASSUME CardAssumption ==
    /\ {0, 4, 90, 92, 93, 128, CardSelect, PadSelect, NewCard, HighZ, Good, BadSum}
         \cup Commands \subseteq Byte
    /\ Byte \subseteq Nat
    /\ \A a, b \in Byte : ByteXor(a, b) \in Byte
    /\ Sectors \subseteq Byte \X Byte
    /\ DataLen \in Nat \ {0, 1} /\ Blank \in Data

(* mc_state, and the byte and next state of those that do nothing else.    *)
Handshake ==
    [id1    |-> [next |-> "id2",    rx |-> 90],
     getid1 |-> [next |-> "getid2", rx |-> 4],
     getid2 |-> [next |-> "getid3", rx |-> 0],
     getid3 |-> [next |-> "getid4", rx |-> 0],
     rack1  |-> [next |-> "rack2",  rx |-> 92],
     rack2  |-> [next |-> "rmsb",   rx |-> 93],
     wack1  |-> [next |-> "wack2",  rx |-> 92],
     wack2  |-> [next |-> "wend",   rx |-> 93]]

CardStates == DOMAIN Handshake \cup
    {"idle", "cmd", "id2", "getid4", "msb", "lsb",
     "rmsb", "rlsb", "rdata", "rchk", "rend", "wlsb", "wdata", "wchk", "wend"}

CardRecord ==
    [state : CardStates, cmd : Byte, msb : Byte, lsb : Byte, data : Data,
     idx : 0..DataLen, checksum : Byte, flag : {0, NewCard}]

NoTransfer(flag) ==
    [state |-> "idle", cmd |-> 0, msb |-> 0, lsb |-> 0,
     data |-> [i \in 1..DataLen |-> 0], idx |-> 0, checksum |-> 0, flag |-> flag]

Acks(m, rx)   == [m |-> m, rx |-> rx, ack |-> TRUE,  stores |-> FALSE]
Silent(m, rx) == [m |-> m, rx |-> rx, ack |-> FALSE, stores |-> FALSE]

(* The checksum both directions use: the address and every data byte.      *)
Checksum(msb, lsb, data) ==
    LET sum[i \in 0..DataLen] == IF i = 0 THEN ByteXor(msb, lsb) ELSE ByteXor(sum[i - 1], data[i])
    IN  sum[DataLen]

Address(m) == <<m.msb, m.lsb>>

(* MC_IDLE to MC_ID2: a present card answers the select byte; the flag is  *)
(* reported and cleared with the command.                                  *)
Opening(m, b, present) ==
    IF m.state = "idle"
    THEN IF present THEN Acks([m EXCEPT !.state = "cmd"], HighZ) ELSE Silent(m, HighZ)
    ELSE IF m.state = "cmd"
    THEN IF b \in Commands
         THEN Acks([m EXCEPT !.state = "id1", !.cmd = b, !.flag = 0], m.flag)
         ELSE Silent([m EXCEPT !.state = "idle", !.cmd = b], HighZ)
    ELSE Acks([m EXCEPT !.state = IF m.cmd = CmdGetId THEN "getid1" ELSE "msb"], 93)

BugAddressing(m, b, sector) ==
    IF m.state = "msb" THEN Acks([m EXCEPT !.state = "lsb", !.msb = b], 0)
    ELSE IF m.cmd = CmdRead
    THEN Acks([m EXCEPT !.state = "rack1", !.lsb = b, !.idx = 0, !.data = sector,
                        !.checksum = Checksum(m.msb, b, m.data)], 0)
    ELSE Acks([m EXCEPT !.state = "wlsb", !.lsb = b, !.idx = 0], m.msb)

(* MC_ADDR_MSB and MC_ADDR_LSB; a read fetches its sector here, `sector`   *)
(* being what memcard_read_sector returns.                                 *)
Addressing(m, b, sector) ==
    IF m.state = "msb" THEN Acks([m EXCEPT !.state = "lsb", !.msb = b], 0)
    ELSE IF m.cmd = CmdRead
    THEN Acks([m EXCEPT !.state = "rack1", !.lsb = b, !.idx = 0, !.data = sector,
                        !.checksum = Checksum(m.msb, b, sector)], 0)
    ELSE Acks([m EXCEPT !.state = "wlsb", !.lsb = b, !.idx = 0], m.msb)

(* MC_READ_MSB_ECHO to MC_READ_END.                                        *)
Reading(m) ==
    IF m.state = "rmsb" THEN Acks([m EXCEPT !.state = "rlsb"], m.msb)
    ELSE IF m.state = "rlsb" THEN Acks([m EXCEPT !.state = "rdata", !.idx = 0], m.lsb)
    ELSE IF m.state = "rdata"
    THEN Acks([m EXCEPT !.idx = @ + 1,
                        !.state = IF m.idx + 1 >= DataLen THEN "rchk" ELSE "rdata"],
              m.data[m.idx + 1])
    ELSE IF m.state = "rchk" THEN Acks([m EXCEPT !.state = "rend"], m.checksum)
    ELSE Silent([m EXCEPT !.state = "idle"], IF Address(m) \in Sectors THEN Good ELSE HighZ)

BugChecked(m, b) ==
    LET good == Address(m) \in Sectors
    IN  [m      |-> [m EXCEPT !.state = "wack1",
                              !.checksum = IF good THEN Good ELSE HighZ],
         rx     |-> 0,
         ack    |-> TRUE,
         stores |-> good]

(* MC_WRITE_CHK: the sector is stored if the checksum is right.            *)
Checked(m, b) ==
    LET good == b = Checksum(m.msb, m.lsb, m.data) /\ Address(m) \in Sectors
    IN  [m      |-> [m EXCEPT !.state = "wack1",
                              !.checksum = IF good THEN Good
                                           ELSE IF Address(m) \notin Sectors THEN HighZ
                                           ELSE BadSum],
         rx     |-> 0,
         ack    |-> TRUE,
         stores |-> good]

(* MC_WRITE_LSB_ECHO to MC_WRITE_END.                                      *)
Writing(m, b) ==
    IF m.state = "wlsb"
    THEN Acks([m EXCEPT !.state = "wdata", !.data[m.idx + 1] = b, !.idx = @ + 1], m.lsb)
    ELSE IF m.state = "wdata"
    THEN Acks([m EXCEPT !.data[m.idx + 1] = b, !.idx = @ + 1,
                        !.state = IF m.idx + 1 >= DataLen THEN "wchk" ELSE "wdata"], 0)
    ELSE IF m.state = "wchk" THEN Checked(m, b)
    ELSE Silent([m EXCEPT !.state = "idle", !.flag = 0], m.checksum)

(* mc_process_byte.                                                        *)
mc_process_byte(m, b, present, sector) ==
    IF m.state \in DOMAIN Handshake
    THEN Acks([m EXCEPT !.state = Handshake[m.state].next], Handshake[m.state].rx)
    ELSE IF m.state \in {"idle", "cmd", "id2"} THEN Opening(m, b, present)
    ELSE IF m.state \in {"msb", "lsb"} THEN Addressing(m, b, sector)
    ELSE IF m.state \in {"rmsb", "rlsb", "rdata", "rchk", "rend"} THEN Reading(m)
    ELSE IF m.state = "getid4" THEN Silent([m EXCEPT !.state = "idle"], 128)
    ELSE Writing(m, b)

-----------------------------------------------------------------------------
(* The images.  Filler is what a read of an address beyond the card gets.  *)
Image  == [Sectors -> Data]
Format == [a \in Sectors |-> Blank]
Filler == [i \in 1..DataLen |-> HighZ]

memcard_read_sector(image, msb, lsb) ==
    IF <<msb, lsb>> \in Sectors THEN image[<<msb, lsb>>] ELSE Filler

memcard_write_sector(image, m) == [image EXCEPT ![Address(m)] = m.data]
=============================================================================
