---------------------------- MODULE SerialPort -----------------------------
(***************************************************************************)
(* The serial port (runtime/src/sio.c) with its memory cards and their     *)
(* files (runtime/src/memcard.c), driven by a guest that sends frames,     *)
(* sometimes sends something else or gives up half way, on a host that may *)
(* fail to write a file, exit, crash and start again.                      *)
(*                                                                         *)
(* The shifter and its one-byte buffer are a queue of at most two bytes.   *)
(* A byte takes SIO_BAUD_CYCLES_DEFAULT to shift and its acknowledge       *)
(* SIO_ACK_CYCLES_DEFAULT after that, which is less: an acknowledge comes  *)
(* before the next byte is through, and only this order is kept of time    *)
(* (DeviceClock has the countdowns).  A pad is any device that             *)
(* acknowledges or does not.                                               *)
(***************************************************************************)
EXTENDS MemoryCard, FiniteSets

CONSTANTS
    Slots,     \* the two ports
    Enabled,   \* those with a card configured
    OnDisk,    \* those whose card file exists already
    Programs,  \* for each port, the frames the guest may want to send
    Strays,    \* bytes it may send instead
    Sessions,  \* the kinds of session to consider: how often the guest selects
               \* a device, how often it departs from its frame in a selection,
               \* and whether the host fails
    CtrlWords, \* the control words it writes
    SlotFlips  \* may it turn to the other port without releasing the bus

CtrlWord == [txen : BOOLEAN, select : BOOLEAN, irqen : BOOLEAN, port : Slots,
             ack : BOOLEAN, reset : BOOLEAN]

ASSUME PortAssumption ==
    /\ IsFiniteSet(Slots) /\ Slots # {}
    /\ Enabled \subseteq Slots /\ OnDisk \subseteq Slots
    /\ Programs \in [Slots -> SUBSET Seq(Byte)] /\ Strays \subseteq Byte
    /\ Sessions \subseteq [selections : Nat, slack : Nat, faults : BOOLEAN]
    /\ CtrlWords \subseteq CtrlWord /\ SlotFlips \in BOOLEAN

VARIABLES
    sio,    \* the port: registers, queue, acknowledge, protocol state
    guest,  \* the rest of the frame it is sending, its slack, selections left
    cards,  \* memcard.c: image, present, dirty
    file,   \* the card files
    host,   \* what the host is doing: run, open or write a file, down
    heard,  \* the bytes exchanged since the bus was selected
    session \* the kind of this session

vars == <<sio, guest, cards, file, host, heard, session>>

-----------------------------------------------------------------------------
FirstSlot == CHOOSE s \in Slots : TRUE

(* sio_init.                                                               *)
sio_init ==
    [txen |-> FALSE, select |-> FALSE, irqen |-> FALSE, port |-> FirstSlot,
     txrdy |-> TRUE, ack |-> FALSE, visible |-> 0,
     queue |-> <<>>, acking |-> "none", timing |-> FALSE, padowned |-> FALSE,
     active |-> "none", slot |-> FirstSlot, mcslot |-> FirstSlot,
     mc |-> NoTransfer(NewCard), slots |-> [s \in Slots |-> NoTransfer(NewCard)]]

Missing  == [kind |-> "missing", image |-> Format]
Torn     == [kind |-> "torn", image |-> Format]
Whole(i) == [kind |-> "whole", image |-> i]

Absent     == [image |-> Format, present |-> FALSE, dirty |-> FALSE]
Inserted(i) == [image |-> i, present |-> TRUE, dirty |-> FALSE]

(* memcard_init_slots for one slot: the outcomes <<file, card>>.  A file   *)
(* that is not there is created, which may fail at any point; one that has *)
(* not the size of a card leaves the slot empty.                           *)
Loaded(s, f) ==
    IF s \notin Enabled \/ f.kind = "torn" THEN {<<f, Absent>>}
    ELSE IF f.kind = "whole" THEN {<<f, Inserted(f.image)>>}
    ELSE {<<Whole(Format), Inserted(Format)>>}
           \cup {<<g, Absent>> : g \in IF session.faults THEN {Missing, Torn, Whole(Format)}
                                      ELSE {}}

Down == [phase |-> "down", todo |-> <<>>, exiting |-> FALSE]
Run  == [phase |-> "run", todo |-> <<>>, exiting |-> FALSE]

Idle(n) == [prog |-> <<>>, slack |-> 0, left |-> n]

Init ==
    /\ sio = sio_init /\ guest = Idle(0) /\ heard = <<>>
    /\ cards = [s \in Slots |-> Absent]
    /\ file = [s \in Slots |-> IF s \in OnDisk THEN Whole(Format) ELSE Missing]
    /\ host = Down
    /\ session \in Sessions

(* The process starts.                                                     *)
Start ==
    /\ host.phase = "down"
    /\ \E load \in [Slots -> UNION {Loaded(s, file[s]) : s \in Slots}] :
         /\ \A s \in Slots : load[s] \in Loaded(s, file[s])
         /\ file' = [s \in Slots |-> load[s][1]]
         /\ cards' = [s \in Slots |-> load[s][2]]
    /\ sio' = sio_init /\ guest' = Idle(session.selections) /\ heard' = <<>>
    /\ host' = Run
    /\ UNCHANGED session

-----------------------------------------------------------------------------
(* Processing a byte.  Each operator maps the port x to the port after it; *)
(* the outcome also has the answer and whether a card stores its sector.   *)

mc_save_slot(x) == [x EXCEPT !.slots[x.mcslot] = x.mc]
mc_load_slot(x) == [x EXCEPT !.mc = x.slots[x.slot]]

Outcome(x, rx, stores) == [x |-> x, rx |-> rx, stores |-> stores]

Ignored(x) == Outcome([x EXCEPT !.txrdy = TRUE], HighZ, FALSE)

PadByte(x, answers) ==
    Outcome([x EXCEPT !.active = "pad", !.txrdy = TRUE, !.ack = @ \/ answers], HighZ, FALSE)

CardByte(x, b) ==
    LET at == IF x.mc.state = "idle" THEN x.slot ELSE x.mcslot
        r  == mc_process_byte(x.mc, b, cards[at].present,
                              memcard_read_sector(cards[at].image, x.mc.msb, b))
    IN  Outcome([x EXCEPT !.active = "card", !.mcslot = at, !.mc = r.m,
                          !.txrdy = TRUE, !.ack = @ \/ r.ack], r.rx, r.stores)

(* sio_process_byte with no device on the bus: the select byte decides, at *)
(* the port CTRL names now.                                                *)
FirstByte(old, b, answers) ==
    LET x      == [old EXCEPT !.slot = old.port]
        loaded == mc_load_slot(x)
    IN  IF b = PadSelect
        THEN PadByte(IF x.mc.state = "idle" THEN x
                     ELSE [mc_save_slot(x) EXCEPT !.mc.state = "idle"], answers)
        ELSE IF b = CardSelect
        THEN CardByte([loaded EXCEPT !.mc.state = "idle", !.mcslot = x.slot], b)
        ELSE IF loaded.mc.state # "idle" /\ x.slot = x.mcslot THEN CardByte(loaded, b)
        ELSE Ignored([loaded EXCEPT !.mc.state = "idle"])

sio_process_byte(x, b, answers) ==
    IF x.active = "none" THEN FirstByte(x, b, answers)
    ELSE IF x.active = "pad" THEN PadByte(x, answers)
    ELSE IF x.mc.state # "idle" \/ b = CardSelect THEN CardByte(x, b)
    ELSE LET free == [x EXCEPT !.active = "none", !.slot = x.port]
         IN  IF b = PadSelect THEN PadByte(free, answers) ELSE Ignored(free)

Exchanged(b, rx) == Append(heard, [tx |-> b, rx |-> rx, port |-> sio.port])

-----------------------------------------------------------------------------
(* The guest's register accesses.                                          *)

Cleared(x) == [x EXCEPT !.queue = <<>>, !.acking = "none", !.timing = FALSE]

PadFastPath(b) == sio.active # "card" /\ (sio.active = "pad" \/ sio.padowned \/ b = PadSelect)

(* A pad byte is processed at once, and its acknowledge scheduled.         *)
FastByte(b) ==
    \E answers \in BOOLEAN :
        LET o == sio_process_byte([Cleared(sio) EXCEPT !.padowned = TRUE], b, answers)
        IN  /\ sio' = IF o.x.ack /\ sio.irqen
                      THEN [o.x EXCEPT !.ack = FALSE, !.txrdy = FALSE,
                                       !.acking = "irq", !.timing = TRUE]
                      ELSE [o.x EXCEPT !.txrdy = TRUE]
            /\ heard' = Exchanged(b, o.rx)

(* Any other byte goes to the shifter, or waits behind it, or is dropped.  *)
QueueByte(b) ==
    /\ sio' = IF Len(sio.queue) = 2 THEN sio
              ELSE [sio EXCEPT !.queue = Append(@, [byte |-> b, irqen |-> sio.irqen]),
                               !.txrdy = IF sio.queue = <<>> THEN FALSE ELSE @,
                               !.timing = IF sio.queue = <<>> THEN TRUE ELSE @]
    /\ UNCHANGED heard

(* sio_write of SIO_TX_DATA.                                               *)
WriteTx(b) ==
    IF ~sio.txen THEN UNCHANGED <<sio, heard>>
    ELSE IF PadFastPath(b) THEN FastByte(b) ELSE QueueByte(b)

(* The next byte of the frame; a guest in step sends none that is lost.    *)
Send ==
    LET lost == IF ~sio.txen \/ Len(sio.queue) = 2 THEN 1 ELSE 0
    IN  /\ host.phase = "run" /\ guest.prog # <<>> /\ lost <= guest.slack
        /\ WriteTx(Head(guest.prog))
        /\ guest' = [guest EXCEPT !.prog = Tail(@), !.slack = @ - lost]
        /\ UNCHANGED <<cards, file, host, session>>

(* Another byte, or another frame, on the same selection.                  *)
Stray ==
    /\ host.phase = "run" /\ sio.select /\ guest.slack > 0
    /\ \E b \in Strays : WriteTx(b)
    /\ guest' = [guest EXCEPT !.slack = @ - 1]
    /\ UNCHANGED <<cards, file, host, session>>

Again ==
    /\ host.phase = "run" /\ sio.select /\ guest.prog = <<>> /\ guest.slack > 0
    /\ \E p \in Programs[sio.port] : guest' = [guest EXCEPT !.prog = p, !.slack = @ - 1]
    /\ UNCHANGED <<sio, cards, file, host, heard, session>>

(* sio_write of SIO_CTRL, in the order of the code: acknowledge, reset,    *)
(* select, transmit disable, release.                                      *)
AckBit(x) == [x EXCEPT !.ack = FALSE, !.visible = 0]

(* The working mc variables are not used again before a select byte loads   *)
(* the slot's, so what a reset or a release leaves in them is not kept.     *)
ResetBit(x) ==
    [Cleared(x) EXCEPT
       !.txen = FALSE, !.select = FALSE, !.irqen = FALSE, !.port = FirstSlot,
       !.txrdy = TRUE, !.ack = FALSE, !.visible = 0, !.padowned = FALSE,
       !.active = "none", !.mc = NoTransfer(0),
       !.slots = [s \in Slots |-> [@[s] EXCEPT !.state = "idle"]]]

TxDisabled(x, w) ==
    IF x.queue = <<>> /\ x.acking = "none" THEN x
    ELSE [Cleared(x) EXCEPT !.txrdy = TRUE, !.padowned = @ /\ w.select]

Released(x) ==
    LET flags == IF x.active = "card" THEN [x.slots EXCEPT ![x.mcslot].flag = x.mc.flag]
                 ELSE x.slots
    IN  [Cleared(x) EXCEPT
           !.mc = NoTransfer(0), !.active = "none", !.padowned = FALSE, !.txrdy = TRUE,
           !.slots = [s \in Slots |->
                        [NoTransfer(flags[s].flag) EXCEPT !.data = flags[s].data]]]

WriteCtrl(w) ==
    LET x0 == [sio EXCEPT !.txen = w.txen, !.select = w.select,
                          !.irqen = w.irqen, !.port = w.port]
        x1 == IF w.ack THEN AckBit(x0) ELSE x0
        x2 == IF w.reset THEN ResetBit(x1) ELSE x1
        x3 == IF ~sio.select /\ w.select THEN [x2 EXCEPT !.padowned = FALSE] ELSE x2
        x4 == IF sio.txen /\ ~w.txen THEN TxDisabled(x3, w) ELSE x3
    IN  IF sio.select /\ ~w.select THEN Released(x4) ELSE x4

(* The guest selects a device for its next frame, acknowledges, gives up.  *)
Control ==
    /\ host.phase = "run"
    /\ \E w \in CtrlWords :
         /\ sio.select /\ w.select => w.port = sio.port \/ SlotFlips
         /\ sio' = WriteCtrl(w)
         /\ \/ /\ ~sio.select /\ sio'.select /\ guest.left > 0
               /\ \E p \in Programs[w.port] :
                    guest' = [prog |-> p, slack |-> session.slack, left |-> guest.left - 1]
            \/ ~sio'.select /\ guest' = Idle(guest.left)
            \/ /\ sio.select /\ sio'.select
               /\ LET departs == IF (sio.txen /\ ~w.txen) \/ w.port # sio.port
                                 THEN 1 ELSE 0
                  IN  /\ departs <= guest.slack
                      /\ guest' = [guest EXCEPT !.slack = @ - departs]
         /\ heard' = IF sio.select /\ sio'.select THEN heard ELSE <<>>
    /\ UNCHANGED <<cards, file, host, session>>

(* sio_read of SIO_STAT: the second read after an acknowledge clears it.   *)
ReadStat ==
    /\ host.phase = "run" /\ sio.visible > 0
    /\ sio' = [sio EXCEPT !.visible = @ - 1, !.ack = @ /\ sio.visible > 1]
    /\ UNCHANGED <<guest, cards, file, host, heard, session>>

-----------------------------------------------------------------------------
(* sio_advance.                                                            *)

BugFireAck ==
    /\ host.phase = "run" /\ sio.timing /\ sio.acking # "none"
    /\ sio' = [sio EXCEPT !.acking = "none", !.ack = TRUE, !.visible = 2,
                          !.timing = FALSE]
    /\ UNCHANGED <<guest, cards, file, host, heard, session>>

(* sio_fire_ack_irq.                                                       *)
FireAck ==
    /\ host.phase = "run" /\ sio.timing /\ sio.acking # "none"
    /\ sio' = [sio EXCEPT !.acking = "none", !.ack = TRUE, !.visible = 2,
                          !.timing = IF sio.acking = "irq" \/ sio.irqen
                                     THEN sio.queue # <<>> ELSE @]
    /\ UNCHANGED <<guest, cards, file, host, heard, session>>

(* sio_handle_shift_complete.  A card that stores its sector has the image *)
(* changed and the file written before the handler goes on.                *)
ShiftDone ==
    /\ host.phase = "run" /\ sio.timing /\ sio.acking = "none" /\ sio.queue # <<>>
    /\ \E answers \in BOOLEAN :
        LET first == Head(sio.queue)
            rest  == Tail(sio.queue)
            o     == sio_process_byte(sio, first.byte, answers)
            x     == o.x
        IN  /\ sio' = [x EXCEPT
                         !.ack    = FALSE,
                         !.acking = IF ~x.ack THEN "none"
                                    ELSE IF first.irqen THEN "irq" ELSE "quiet",
                         !.queue  = rest,
                         !.timing = x.ack \/ rest # <<>>]
            /\ heard' = Exchanged(first.byte, o.rx)
            /\ cards' = IF ~o.stores THEN cards
                        ELSE [cards EXCEPT
                                ![x.mcslot].image = memcard_write_sector(@, x.mc),
                                ![x.mcslot].dirty = TRUE]
            /\ host' = IF o.stores THEN [host EXCEPT !.phase = "open", !.todo = <<x.mcslot>>]
                       ELSE host
    /\ UNCHANGED <<guest, file, session>>

-----------------------------------------------------------------------------
(* memcard_flush.                                                          *)

Flushed ==
    LET rest == Tail(host.todo)
    IN  IF rest # <<>> THEN [host EXCEPT !.phase = "open", !.todo = rest]
        ELSE IF host.exiting THEN Down ELSE Run

(* The file is truncated, unless there is nothing to write or no file to   *)
(* be had.                                                                 *)
FlushOpen ==
    /\ host.phase = "open"
    /\ LET s == Head(host.todo)
       IN  \/ /\ cards[s].dirty => session.faults
              /\ host' = Flushed /\ UNCHANGED file
           \/ /\ cards[s].dirty
              /\ file' = [file EXCEPT ![s] = Torn]
              /\ host' = [host EXCEPT !.phase = "write"]
    /\ UNCHANGED <<sio, guest, cards, heard, session>>

BugFlushWrite ==
    /\ host.phase = "write"
    /\ LET s == Head(host.todo)
       IN  /\ \/ file' = [file EXCEPT ![s] = Whole(cards[s].image)]
              \/ session.faults /\ file' = file
           /\ cards' = [cards EXCEPT ![s].dirty = FALSE]
    /\ host' = Flushed
    /\ UNCHANGED <<sio, guest, heard, session>>

(* Only a write that is known to be complete cleans the card.              *)
FlushWrite ==
    /\ host.phase = "write"
    /\ LET s == Head(host.todo)
           all == [file EXCEPT ![s] = Whole(cards[s].image)]
       IN  \/ file' = all /\ cards' = [cards EXCEPT ![s].dirty = FALSE]
           \/ session.faults /\ file' \in {file, all} /\ cards' = cards
    /\ host' = Flushed
    /\ UNCHANGED <<sio, guest, heard, session>>

InOrder == CHOOSE q \in [1..Cardinality(Slots) -> Slots] :
               \A s \in Slots : \E i \in DOMAIN q : q[i] = s

(* memcard_flush_all at exit: every card, once or twice.                   *)
Exit ==
    /\ host.phase = "run"
    /\ \E pass \in {InOrder, InOrder \o InOrder} :
         host' = [phase |-> "open", todo |-> pass, exiting |-> TRUE]
    /\ sio' = sio_init /\ guest' = Idle(0) /\ heard' = <<>>
    /\ UNCHANGED <<cards, file, session>>

(* The process dies, perhaps in the middle of a flush.                     *)
Crash ==
    /\ session.faults /\ host.phase # "down"
    /\ host' = Down
    /\ sio' = sio_init /\ guest' = Idle(0) /\ heard' = <<>>
    /\ UNCHANGED <<cards, file, session>>

-----------------------------------------------------------------------------
Advance == FireAck \/ ShiftDone

Next ==
    \/ Start \/ Exit \/ Crash \/ FlushOpen \/ FlushWrite
    \/ Send \/ Stray \/ Again \/ Control \/ ReadStat
    \/ Advance

Spec == Init /\ [][Next]_vars

(* psx_advance_cycles runs as long as the guest does, and a flush returns. *)
FairSpec == Spec /\ WF_vars(Advance) /\ WF_vars(FlushOpen \/ FlushWrite)

-----------------------------------------------------------------------------
Kinds == {"missing", "torn", "whole"}
Port ==
    [txen : BOOLEAN, select : BOOLEAN, irqen : BOOLEAN, port : Slots,
     txrdy : BOOLEAN, ack : BOOLEAN, visible : 0..2,
     queue : Seq([byte : Byte, irqen : BOOLEAN]),
     acking : {"none", "quiet", "irq"}, timing : BOOLEAN, padowned : BOOLEAN,
     active : {"none", "pad", "card"}, slot : Slots, mcslot : Slots,
     mc : CardRecord, slots : [Slots -> CardRecord]]

(* Types of the port, the guest, the cards, the files and the host.        *)
TypeOK ==
    /\ sio \in Port /\ Len(sio.queue) <= 2
    /\ guest \in [prog : Seq(Byte), slack : Nat, left : Nat]
    /\ cards \in [Slots -> [image : Image, present : BOOLEAN, dirty : BOOLEAN]]
    /\ file \in [Slots -> [kind : Kinds, image : Image]]
    /\ host \in [phase : {"run", "open", "write", "down"}, todo : Seq(Slots),
                 exiting : BOOLEAN]
    /\ heard \in Seq([tx : Byte, rx : Byte, port : Slots])

(* The byte k of the last n exchanged.                                     *)
Of(h, n, k) == h[Len(h) - n + k]

(* The last n bytes are a frame for slot s with this command.              *)
IsFrame(h, n, s, cmd) ==
    /\ n <= Len(h)
    /\ \A k \in 1..n : Of(h, n, k).port = s
    /\ Of(h, n, 1).tx = CardSelect /\ Of(h, n, 2).tx = cmd

Addressed(h, n) == <<Of(h, n, 5).tx, Of(h, n, 6).tx>>

(* The last bytes are a whole write frame, and the image of s changes by   *)
(* what it says.                                                           *)
ByWholeFrame(s) ==
    LET n    == DataLen + 7
        at   == Addressed(heard', n)
        data == [i \in 1..DataLen |-> Of(heard', n, 6 + i).tx]
    IN  /\ IsFrame(heard', n, s, CmdWrite)
        /\ Of(heard', n, n).tx = Checksum(at[1], at[2], data)
        /\ at \in Sectors
        /\ cards'[s].image = [cards[s].image EXCEPT ![at] = data]

(* mc_process_byte and the selection logic of sio_process_byte: whatever   *)
(* the guest sends, a card's image changes only at the end of a complete   *)
(* write frame with the right checksum, sent in one selection to that      *)
(* card, and then exactly the addressed sector becomes the data sent.      *)
WholeWrites ==
    [][host.phase # "down" =>
         \A s \in Slots : cards'[s].image # cards[s].image => ByWholeFrame(s)]_vars

(* A card answers the last byte of a read frame with 'G'.                  *)
ReadEnds ==
    /\ heard' # heard /\ sio.active = "card" /\ sio.mc.state = "rend"
    /\ sio'.mc.state = "idle" /\ sio'.active = "card" /\ heard'[Len(heard')].rx = Good

(* The last bytes are a whole read frame, answered with the sector.        *)
SentWholeSector(s) ==
    LET n  == DataLen + 12
        at == Addressed(heard', n)
        is == cards[s].image[at]
    IN  /\ IsFrame(heard', n, s, CmdRead) /\ at \in Sectors
        /\ \A i \in 1..DataLen : Of(heard', n, 10 + i).rx = is[i]
        /\ Of(heard', n, n - 1).rx = Checksum(at[1], at[2], is)

(* A read that ends with 'G' (MC_READ_END) has sent the bytes and the      *)
(* checksum of the sector that was asked for, of the card it was asked of. *)
WholeReads == [][ReadEnds => SentWholeSector(sio.port)]_vars

(* memcard_flush clears `dirty` only when the file is complete, so a clean *)
(* card is what the next start will load, whatever writes failed before.   *)
CleanIsSaved ==
    \A s \in Slots : cards[s].present /\ ~cards[s].dirty =>
                        file[s] = Whole(cards[s].image)

(* sio_advance returns at once unless g_sio_timing_active: a byte in the   *)
(* shifter or behind it, or an acknowledge that is due, is never left with *)
(* the flag cleared, whatever path (write, acknowledge, shift, transmit    *)
(* disable, reset, release) cleared it last.                               *)
NeverStalls == sio.queue # <<>> \/ sio.acking # "none" => sio.timing

(* "This unblocks the BIOS pad polling loop that spins on TX_RDY before    *)
(* writing the next byte" (sio.c): the transmitter does not stay busy.     *)
ReadyAgain == []<>sio.txrdy

(* "FLAG should still be 0x08 since no successful WRITE has occurred"      *)
(* (test_sio_card_protocol.c): a card keeps its new-card flag until it has *)
(* been written.                                                           *)
FlagUntilWrite ==
    [][\A s \in Slots :
          host.phase = "run" /\ sio.slots[s].flag # 0 /\ sio'.slots[s].flag = 0 =>
              \E i \in 1..Len(heard) : heard[i].rx = Good]_vars

(* A card that is absent, or has ended its frame, does not acknowledge.    *)
IdleCardsAreSilent ==
    [][sio.acking = "none" /\ sio'.acking # "none" /\ sio'.active = "card" =>
          sio'.mc.state # "idle"]_vars
=============================================================================
