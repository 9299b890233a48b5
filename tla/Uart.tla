-------------------------------- MODULE Uart --------------------------------
(***************************************************************************)
(* The serial port and its driver, uart.rs.  The device decodes the        *)
(* register writes, as the 16550 does: while DLAB, bit 7 of LCR, is set,   *)
(* offsets 0 and 1 are the divisor latch, and the transmitter holds        *)
(* FIFO_DEPTH bytes once FCR enabled the FIFO and one byte before.  Of the *)
(* bytes in it only the number is kept.                                    *)
(***************************************************************************)
EXTENDS Naturals

CONSTANT FIFO_DEPTH    \* 16 in the device

ASSUME UartAssumption == FIFO_DEPTH \in Nat \ {0}

THR == 0
IER == 1
FCR == 2
LCR == 3

PowerOn == [lcr |-> 0, fcr |-> 0, ier |-> 0, dll |-> 0, dlm |-> 0, fifo |-> 0, lost |-> FALSE]

dlab(uart) == uart.lcr >= 128
Capacity(uart) == IF uart.fcr % 2 = 1 THEN FIFO_DEPTH ELSE 1

\* The device takes a byte to transmit; one too many is lost.
Transmit(uart) ==
  IF uart.fifo < Capacity(uart) THEN [uart EXCEPT !.fifo = @ + 1] ELSE [uart EXCEPT !.lost = TRUE]

\* A byte of a line is written to THR; behind an open latch it would become
\* part of the divisor.
WriteTHR(uart) == IF dlab(uart) THEN [uart EXCEPT !.lost = TRUE] ELSE Transmit(uart)

\* Another register, or the divisor latch, is written; offset 0 is written here
\* only with the latch open.
WriteRegister(uart, offset, value) ==
  CASE offset = LCR                -> [uart EXCEPT !.lcr = value]
    [] offset = FCR                -> [uart EXCEPT !.fcr = value]
    [] offset = IER /\ dlab(uart)  -> [uart EXCEPT !.dlm = value]
    [] offset = IER /\ ~dlab(uart) -> [uart EXCEPT !.ier = value]
    [] offset = THR /\ dlab(uart)  -> [uart EXCEPT !.dll = value]

\* LSR_TX_IDLE
tx_idle(uart) == uart.fifo = 0

divisor == 592

-----------------------------------------------------------------------------
(* Uart::init *)

SetWordLength(uart) == WriteRegister(uart, LCR, 3)    \* and closes the latch

EnableFifo_Forgotten(uart) == uart

EnableFifo(uart) == WriteRegister(uart, FCR, 1)

EnableInterrupts(uart) == WriteRegister(uart, IER, 1)
OpenLatch(uart) == WriteRegister(uart, LCR, 3 + 128)
SetDivisorLeast(uart) == WriteRegister(uart, THR, divisor % 256)
SetDivisorMost(uart) == WriteRegister(uart, IER, divisor \div 256)

Uart_init(uart) ==
  SetWordLength(SetDivisorMost(SetDivisorLeast(OpenLatch(
    EnableInterrupts(EnableFifo(SetWordLength(uart)))))))

\* what the program relies on once init returned
Configured(uart) ==
  ~dlab(uart) /\ uart.ier = 1 /\ uart.dll + 256 * uart.dlm = divisor
=============================================================================
