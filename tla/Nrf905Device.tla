---------------------------- MODULE Nrf905Device ----------------------------
(***************************************************************************)
(* The nRF905 transceiver and the driver that owns its pins                *)
(* (packet_predator/adapters/nrf905.py, nrf905_linux.py).                  *)
(*                                                                         *)
(* The driver's operations are given here as parts of actions; the module  *)
(* PhysicalCapture says which thread takes them and under which lock.  A   *)
(* line or SPI operation that raises stops the driver between two pin      *)
(* writes, so every failing form leaves the pins in one of the partial     *)
(* settings below.                                                         *)
(*                                                                         *)
(* The chip itself is external.  What it does is taken from how the driver *)
(* and the fake lines of tests/test_nrf905_adapter.py use it: DR rises     *)
(* when a valid frame is in the receive FIFO and when a transmission is    *)
(* complete; it falls when the FIFO is read and when TX_EN falls.          *)
(***************************************************************************)
EXTENDS Naturals

CONSTANT MaxFrames           \* bound: frames that reach the antenna

ASSUME MaxFramesAssumption == MaxFrames \in Nat

VARIABLES
  pins,        \* levels of TRX_CE, TX_EN and PWR_UP
  dataReady,   \* level of DR, which the receiver reads without any lock
  fifo,        \* frame in the receive FIFO (0: nothing was ever received)
  heard,       \* number of frames the chip has accepted so far
  air,         \* the transmission started last, as the chip sees it
  linesOpen,   \* GPIO and SPI are still requested from the kernel
  releases     \* calls of lines.close() on the device that was started

deviceVars ==
  <<pins, dataReady, fifo, heard, air, linesOpen, releases>>

(* No transmission yet; going on; going on while an unread frame keeps DR  *)
(* high; finished; given up before it was finished.                        *)
AirStates == {"none", "sending", "masked", "done", "cut"}

Pins == [trx_ce : BOOLEAN, tx_en : BOOLEAN, pwr_up : BOOLEAN]

ReceivePins == [trx_ce |-> TRUE, tx_en |-> FALSE, pwr_up |-> TRUE]
TransmitPins == [trx_ce |-> FALSE, tx_en |-> TRUE, pwr_up |-> TRUE]
PoweredDown == [trx_ce |-> FALSE, tx_en |-> FALSE, pwr_up |-> FALSE]

DeviceTypeOK ==
  /\ pins \in Pins
  /\ dataReady \in BOOLEAN
  /\ fifo \in 0..MaxFrames
  /\ heard \in 0..MaxFrames
  /\ air \in AirStates
  /\ linesOpen \in BOOLEAN
  /\ releases \in 0..2

(* Before the workbench opens the radio. *)
DeviceInit ==
  /\ pins = PoweredDown
  /\ dataReady = FALSE
  /\ fifo = 0
  /\ heard = 0
  /\ air = "none"
  /\ linesOpen = FALSE
  /\ releases = 0

-----------------------------------------------------------------------------
(* The chip. *)

(* A valid frame arrives.  It overwrites a frame software has not read.    *)
FrameArrives ==
  /\ pins = ReceivePins
  /\ heard < MaxFrames
  /\ heard' = heard + 1
  /\ fifo' = heard + 1
  /\ dataReady' = TRUE
  /\ UNCHANGED <<pins, air, linesOpen, releases>>

(* The chip finishes the packet it is sending and raises DR.               *)
TransmissionEnds ==
  /\ air \in {"sending", "masked"}
  /\ pins.tx_en
  /\ air' = "done"
  /\ dataReady' = TRUE
  /\ UNCHANGED <<pins, fifo, heard, linesOpen, releases>>

-----------------------------------------------------------------------------
(* The driver's pin sequences, complete or cut short by an exception.      *)

PartialReceiveMode(p) ==
  {p, [p EXCEPT !.tx_en = FALSE], [p EXCEPT !.tx_en = FALSE, !.pwr_up = TRUE]}

PartialTransmit(p) ==
  {p, [p EXCEPT !.trx_ce = FALSE], [p EXCEPT !.trx_ce = FALSE, !.tx_en = TRUE]}

PartialStandby(p) ==
  {p, [p EXCEPT !.trx_ce = FALSE], [p EXCEPT !.trx_ce = FALSE, !.tx_en = FALSE]}

(* Pins become p: TX_EN falling clears DR and abandons the transmission.   *)
SwitchPins(p) ==
  /\ pins' = p
  /\ dataReady' = (dataReady /\ ~(pins.tx_en /\ ~p.tx_en))
  /\ air' = IF air = "sending" /\ ~p.tx_en THEN "cut" ELSE air

(* The lines are requested and start() runs to its end: configured,        *)
(* powered and in receive mode.  Whether DR survives the power-down that   *)
(* start() begins with is up to the chip.                                  *)
OpenDevice ==
  /\ ~linesOpen
  /\ pins' = ReceivePins
  /\ dataReady' \in {dataReady, FALSE}
  /\ linesOpen' = TRUE
  /\ UNCHANGED <<fifo, heard, air, releases>>

(* Opening raises: the lines cannot be had, the register read-back         *)
(* differs, or a line write raises.  The caller closes this device again,  *)
(* and _standby may raise in turn and leave PWR_UP or TRX_CE high.         *)
OpenDeviceRaises ==
  /\ ~linesOpen
  /\ pins' \in {PoweredDown, [PoweredDown EXCEPT !.pwr_up = TRUE], ReceivePins}
  /\ dataReady' \in {dataReady, FALSE}
  /\ UNCHANGED <<fifo, heard, air, linesOpen, releases>>

(* _receive_mode, once it has run to its end.                              *)
EnterReceiveMode ==
  /\ SwitchPins(ReceivePins)
  /\ UNCHANGED <<fifo, heard, linesOpen, releases>>

(* _receive_mode when one of its three line writes raises.                 *)
ReceiveModeRaises ==
  /\ \E p \in PartialReceiveMode(pins) : SwitchPins(p)
  /\ UNCHANGED <<fifo, heard, linesOpen, releases>>

(* transmit up to the end of the TRX_CE pulse.  Whether DR keeps showing a *)
(* frame that nobody read when TX_EN rises is up to the chip.              *)
StartTransmission ==
  /\ pins' = TransmitPins
  /\ dataReady' \in {dataReady, FALSE}
  /\ air' = IF dataReady' THEN "masked" ELSE "sending"
  /\ UNCHANGED <<fifo, heard, linesOpen, releases>>

(* transmit when a line write or an SPI exchange raises before the pulse   *)
(* is over; in the last case the pulse was given and TRX_CE stays high.    *)
StartTransmissionRaises ==
  /\ \/ /\ pins' \in PartialTransmit(pins)
        /\ dataReady' \in {dataReady, FALSE}
        /\ UNCHANGED air
     \/ /\ pins' = [pins EXCEPT !.trx_ce = TRUE, !.tx_en = TRUE]
        /\ dataReady' \in {dataReady, FALSE}
        /\ air' = IF dataReady' THEN "masked" ELSE "sending"
  /\ UNCHANGED <<fifo, heard, linesOpen, releases>>

(* receive_with_timing with DR high: the FIFO read clears DR and the chip  *)
(* returns to receive mode.                                                *)
ReadFifo ==
  /\ pins' = ReceivePins
  /\ dataReady' = FALSE
  /\ UNCHANGED <<fifo, heard, air, linesOpen, releases>>

(* receive_with_timing when TRX_CE, the SPI read or the return to receive  *)
(* mode raises.  Nothing repairs the pins; after the read DR is low.       *)
ReadFifoRaises ==
  /\ LET standby == [pins EXCEPT !.trx_ce = FALSE]
     IN  \/ pins' \in {pins, standby} /\ UNCHANGED dataReady
         \/ pins' \in PartialReceiveMode(standby) /\ dataReady' = FALSE
  /\ UNCHANGED <<fifo, heard, air, linesOpen, releases>>

(* close: standby, then release GPIO and SPI.                              *)
CloseDevice ==
  /\ linesOpen
  /\ SwitchPins(PoweredDown)
  /\ linesOpen' = FALSE
  /\ releases' = releases + 1
  /\ UNCHANGED <<fifo, heard>>

(* close when _standby raises, as it does on lines already released: the   *)
(* finally block releases the hardware all the same.                       *)
CloseDeviceRaises ==
  /\ IF linesOpen THEN \E p \in PartialStandby(pins) : SwitchPins(p)
                  ELSE UNCHANGED <<pins, dataReady, air>>
  /\ linesOpen' = FALSE
  /\ releases' = releases + 1
  /\ UNCHANGED <<fifo, heard>>

=============================================================================
