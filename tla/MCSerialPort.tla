--------------------------- MODULE MCSerialPort ----------------------------
(* The serial port with a card that is written in one slot and a card that *)
(* is read in the other.  The data bytes are the two select bytes.         *)
EXTENDS SerialPort, Bitwise, TLC

CONSTANTS left, right

MCByte == 0..255

MCXor(a, b) == a ^^ b

MCSectors == {<<0, 0>>}
MCBlank   == <<0, 0>>

WriteTo(lsb, data, sum) ==
    <<CardSelect, CmdWrite, 0, 0, 0, lsb>> \o data \o <<sum, 0, 0, 0>>
ReadFrom(lsb) ==
    <<CardSelect, CmdRead, 0, 0, 0, lsb>> \o [i \in 1..(DataLen + 6) |-> 0]
GetId  == <<CardSelect, CmdGetId>> \o [i \in 1..6 |-> 0]
Poll   == <<PadSelect, 66, 0>>

MCPrograms ==
    left  :> {WriteTo(0, <<1, 129>>, 128), WriteTo(0, <<129, 0>>, 128), ReadFrom(0), Poll} @@
    right :> {WriteTo(1, <<1, 129>>, 129), ReadFrom(0), ReadFrom(1), GetId}

Word(select, port, ack) ==
    [txen |-> TRUE, select |-> select, irqen |-> TRUE, port |-> port,
     ack |-> ack, reset |-> FALSE]

MCCtrlWords ==
    {Word(TRUE, s, a) : s \in {left, right}, a \in BOOLEAN}
      \cup {Word(FALSE, left, TRUE)}
      \cup {[Word(TRUE, s, TRUE) EXCEPT !.txen = FALSE] : s \in {left, right}}
      \cup {[Word(FALSE, left, FALSE) EXCEPT !.reset = TRUE]}

MCPlain == {[selections |-> 1, slack |-> 0, faults |-> FALSE]}
MCTwice == {[selections |-> 1, slack |-> 1, faults |-> FALSE]}
MCSessions ==
    {[selections |-> 1, slack |-> 1, faults |-> FALSE],
     [selections |-> 2, slack |-> 0, faults |-> TRUE]}
=============================================================================
