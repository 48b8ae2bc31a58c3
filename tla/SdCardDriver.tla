---------------------------- MODULE SdCardDriver ----------------------------
(***************************************************************************)
(* The microSD driver of the firmware                                      *)
(* (drivers/sd_card/sd_card_driver.c) on its SPI device                    *)
(* (board_support/flightcomputer_v1/spi_devices.c), and the card.          *)
(*                                                                         *)
(* A call of the driver runs to its end in the main loop.  Each command    *)
(* with its selection, response and payload is one step: only the card and *)
(* the operator's hand can intervene between two of them.  Chip select is  *)
(* low exactly inside a step and between CMD55 and ACMD41 ("acmd41").      *)
(*                                                                         *)
(* The card is external.  It answers as far as the driver distinguishes    *)
(* its answers: a card just inserted hears only CMD0, an idle card only    *)
(* the commands of the initialization.  A counterfeit card has fewer       *)
(* places than it claims sectors.  The contents of a sector are the        *)
(* pattern of a test block, zeros, or anything older.                      *)
(***************************************************************************)
EXTENDS Integers, Sequences

CONSTANTS
  BlockCount,   \* SD_CARD_TEST_BLOCK_COUNT, 8
  Kinds,        \* the kinds of card the operator has
  Faults        \* whether SPI transfers, answers and data may be disturbed

Block == 0 .. BlockCount - 1

ASSUME DriverConstants ==
  /\ BlockCount \in Nat \ {0}
  /\ Kinds \subseteq [version : 1..2, high : BOOLEAN, places : 1..BlockCount]
  /\ Kinds # {}
  /\ Faults \in BOOLEAN

VARIABLES
  at,             \* the driver's next step, or "returned"
  outcome,        \* what the call returned: "none", "ok" or "failed"
  last_failure,   \* <<stage, reason>>
  version_two,    \* sd_card_driver_initialize: the card answered CMD8
  high_capacity,  \* the card is addressed by sectors
  write_checksum, \* the blocks summed up so far, as a sequence
  verify_checksum,
  device,         \* the driver has its SPI device
  ready,          \* SPI context: the peripheral is initialized
  prescaler,      \* SPI context: "slow" (256) or "fast" (4)
  socket,         \* the card in the socket
  illegal,        \* history: a command the card could not take was sent
  outside         \* history: a sector outside the test area was addressed

spiVars == <<device, ready, prescaler>>
driverVars == <<at, outcome, last_failure, version_two, high_capacity,
                write_checksum, verify_checksum>>
cardVars == <<socket, illegal, outside>>
allDriverVars == <<driverVars, spiVars, cardVars>>

NoFailure == <<"none", "none">>
-----------------------------------------------------------------------------
(***************************************************************************)
(* The card.                                                               *)
(***************************************************************************)
Old == -1
Erased == 0
SamePattern(block) == 1          \* fault: one pattern for all sectors
Pattern(block) == block + 1

FreshCard(kind) ==
  [kind |-> kind, mode |-> "native", app |-> FALSE,
   block_length |-> kind.high,
   data |-> [p \in 0 .. kind.places - 1 |-> Old]]

NoCard == [FreshCard(CHOOSE kind \in Kinds : TRUE) EXCEPT !.mode = "absent"]

BlockCommands == {"cmd17", "cmd24"}

\* The R1 answers of an undisturbed card.
Answers(command) ==
  CASE socket.mode = "absent" -> {"none"}
    [] socket.mode = "native" ->
         IF command = "cmd0" THEN {"idle"} ELSE {"none"}
    [] socket.mode = "idle" ->
         CASE command \in {"cmd0", "cmd55"} -> {"idle"}
           [] command = "cmd8" ->
                IF socket.kind.version = 2 THEN {"idle"} ELSE {"illegal"}
           [] command = "acmd41" ->
                IF socket.kind.high /\ ~version_two THEN {"idle"}
                ELSE {"idle", "ready"}
           [] OTHER -> {"illegal"}
    [] socket.mode = "ready" ->
         IF command = "cmd0" THEN {"idle"} ELSE {"ready"}

\* Commands the card may be sent in its present mode.
Legal(command) ==
  \/ socket.mode \in {"absent", "native"}
  \/ command \in {"cmd0", "cmd8", "cmd55"}
  \/ command = "acmd41" /\ socket.app
  \/ /\ socket.mode = "ready" /\ command # "acmd41"
     /\ command \in BlockCommands => socket.block_length

After(command, answer) ==
  IF answer \in {"none", "illegal"} THEN [socket EXCEPT !.app = FALSE]
  ELSE CASE command = "cmd0" ->
              [socket EXCEPT !.mode = "idle", !.app = FALSE,
                             !.block_length = @ \/ socket.kind.high]
         [] command = "acmd41" ->
              [socket EXCEPT !.mode = answer, !.app = FALSE]
         [] command = "cmd16" ->
              [socket EXCEPT !.block_length = TRUE, !.app = FALSE]
         [] OTHER -> [socket EXCEPT !.app = (command = "cmd55")]
-----------------------------------------------------------------------------
(***************************************************************************)
(* fail and fail_if_unset, which leaves an earlier failure in place; the   *)
(* call returns with the card deselected.                                  *)
(***************************************************************************)
IfUnset == {"spi_transfer_failed", "command_frame_transfer_failed",
            "card_select_failed", "card_busy_timeout", "no_r1_response",
            "unexpected_data_token"}

Fail(stage, reason) ==
  /\ at' = "returned"
  /\ outcome' = "failed"
  /\ last_failure' = IF reason \in IfUnset /\ last_failure # NoFailure
                     THEN last_failure ELSE <<stage, reason>>

Continue(next) ==
  /\ at' = next
  /\ outcome' = IF next = "returned" THEN "ok" ELSE outcome
  /\ UNCHANGED last_failure

(***************************************************************************)
(* select_card, wait_ready, command and transfer_byte: what may go wrong   *)
(* before the card's answer is there.  The selection can only fail in the  *)
(* initialization of a context that is not ready.                          *)
(***************************************************************************)
ExchangeFaults(command) ==
  IF ~Faults THEN {}
  ELSE {"command_frame_transfer_failed", "spi_transfer_failed"}
       \cup (IF command = "acmd41" \/ ready THEN {}
                                           ELSE {"card_select_failed"})
       \cup (IF command \in {"cmd0", "acmd41"} THEN {}
                                              ELSE {"card_busy_timeout"})

\* An answer may be lost, or arrive with error bits, but not as another one.
Received(answer) == IF Faults THEN {answer, "none", "error"} ELSE {answer}

(***************************************************************************)
(* One command: the driver goes on after an answer of the set accepted,    *)
(* and fails after any other, or when the command did not get so far.      *)
(***************************************************************************)
Exchange(command, received) ==
  \E answer \in Answers(command) :
    /\ received \in Received(answer)
    /\ illegal' = (illegal \/ ~Legal(command))
    /\ socket' = After(command, answer)
    /\ UNCHANGED outside

ExchangeFails(stage, command, accepted) ==
  /\ \/ /\ \E reason \in ExchangeFaults(command) : Fail(stage, reason)
        /\ UNCHANGED cardVars
     \/ \E received \in {"idle", "ready", "illegal", "none", "error"} \ accepted :
          /\ Exchange(command, received)
          /\ Fail(stage, IF received = "none" THEN "no_r1_response"
                         ELSE "unexpected_r1_response")
  /\ UNCHANGED <<version_two, high_capacity>>
-----------------------------------------------------------------------------
DriverInit ==
  /\ at = "returned"
  /\ outcome = "none"
  /\ last_failure = NoFailure
  /\ version_two = FALSE
  /\ high_capacity = FALSE
  /\ write_checksum = << >>
  /\ verify_checksum = << >>
  /\ device = FALSE
  /\ ready = FALSE
  /\ prescaler = "slow"
  /\ illegal = FALSE
  /\ outside = FALSE

checksums == <<write_checksum, verify_checksum>>

(***************************************************************************)
(* sd_card_driver_initialize, step by step.  The SPI context is left alone *)
(* when it is initialized already.                                         *)
(***************************************************************************)
SpiInitialization ==
  /\ at = "spi_initialization"
  /\ device' = TRUE
  /\ \/ /\ ready' = TRUE
        /\ Continue("initial_clocks")
     \/ /\ ~ready /\ Faults
        /\ Fail("spi_initialization", "spi_initialization_failed")
        /\ UNCHANGED ready
  /\ UNCHANGED <<prescaler, version_two, high_capacity, checksums, cardVars>>

InitialClocks ==
  /\ at = "initial_clocks"
  /\ \/ Continue("cmd0")
     \/ Faults /\ Fail("initial_clocks", "spi_transfer_failed")
  /\ UNCHANGED <<spiVars, version_two, high_capacity, checksums, cardVars>>

GoIdle ==
  /\ at = "cmd0"
  /\ \/ /\ Exchange("cmd0", "idle")
        /\ Continue("cmd8")
        /\ UNCHANGED <<version_two, high_capacity>>
     \/ ExchangeFails("cmd0_go_idle", "cmd0", {"idle"})
  /\ UNCHANGED <<spiVars, checksums>>

InterfaceCondition ==
  /\ at = "cmd8"
  /\ \/ \E received \in {"idle", "illegal"} :
          /\ Exchange("cmd8", received)
          /\ version_two' = (received = "idle")
          /\ \/ Continue("cmd55")
             \/ /\ Faults /\ received = "idle"
                /\ Fail("cmd8_interface_condition",
                        "invalid_r7_voltage_or_check_pattern")
          /\ UNCHANGED high_capacity
     \/ ExchangeFails("cmd8_interface_condition", "cmd8", {"idle", "illegal"})
  /\ UNCHANGED <<spiVars, checksums>>

ApplicationPrefix ==
  /\ at = "cmd55"
  /\ \/ /\ \E received \in {"idle", "ready"} : Exchange("cmd55", received)
        /\ Continue("acmd41")
        /\ UNCHANGED <<version_two, high_capacity>>
     \/ ExchangeFails("cmd55_application_prefix", "cmd55", {"idle", "ready"})
  /\ UNCHANGED <<spiVars, checksums>>

\* Fault: the prefix is not repeated.
SendOpCondAgain ==
  /\ at = "acmd41"
  /\ \/ /\ \/ Exchange("acmd41", "ready") /\ Continue("cmd58")
           \/ Exchange("acmd41", "idle") /\ Continue("acmd41")
        /\ UNCHANGED <<version_two, high_capacity>>
     \/ ExchangeFails("acmd41_initialize", "acmd41", {"idle", "ready"})
  /\ UNCHANGED <<spiVars, checksums>>

SendOpCond ==
  /\ at = "acmd41"
  /\ \/ /\ \/ Exchange("acmd41", "ready") /\ Continue("cmd58")
           \/ /\ Exchange("acmd41", "idle")
              /\ \/ Continue("cmd55")
                 \/ Fail("acmd41_initialize", "card_stayed_idle_until_timeout")
        /\ UNCHANGED <<version_two, high_capacity>>
     \/ ExchangeFails("acmd41_initialize", "acmd41", {"idle", "ready"})
  /\ UNCHANGED <<spiVars, checksums>>

ReadOcr ==
  /\ at = "cmd58"
  /\ \/ /\ Exchange("cmd58", "ready")
        /\ \/ /\ high_capacity' = (version_two /\ socket.kind.high)
              /\ Continue(IF high_capacity' THEN "cmd9" ELSE "cmd16")
           \/ /\ Faults /\ Fail("cmd58_read_ocr", "spi_transfer_failed")
              /\ UNCHANGED high_capacity
        /\ UNCHANGED version_two
     \/ ExchangeFails("cmd58_read_ocr", "cmd58", {"ready"})
  /\ UNCHANGED <<spiVars, checksums>>

SetBlockLength ==
  /\ at = "cmd16"
  /\ \/ /\ Exchange("cmd16", "ready")
        /\ Continue("cmd9")
        /\ UNCHANGED <<version_two, high_capacity>>
     \/ ExchangeFails("cmd16_set_block_length", "cmd16", {"ready"})
  /\ UNCHANGED <<spiVars, checksums>>

\* read_csd, with the reasons of a payload that does not come or is no use.
ReadCsd ==
  /\ at = "cmd9"
  /\ \/ /\ Exchange("cmd9", "ready")
        /\ \/ Continue("spi_high_speed")
           \/ /\ Faults
              /\ \E reason \in {"unexpected_data_token", "invalid_csd",
                                "spi_transfer_failed", "card_too_small"} :
                   Fail("cmd9_read_csd", reason)
        /\ UNCHANGED <<version_two, high_capacity>>
     \/ ExchangeFails("cmd9_read_csd", "cmd9", {"ready"})
  /\ UNCHANGED <<spiVars, checksums>>

\* set_prescaler: deinitialize, then initialize with the new prescaler.
HighSpeed ==
  /\ at = "spi_high_speed"
  /\ \/ /\ Continue("returned")
        /\ prescaler' = "fast" /\ UNCHANGED <<device, ready>>
     \/ /\ Faults
        /\ Fail("spi_high_speed", "spi_prescaler_change_failed")
        /\ \/ UNCHANGED spiVars
           \/ prescaler' = "fast" /\ ready' = FALSE /\ UNCHANGED device
  /\ UNCHANGED <<version_two, high_capacity, checksums, cardVars>>
-----------------------------------------------------------------------------
(***************************************************************************)
(* The place of a block on the card.  wire_address counts sectors or bytes *)
(* by high_capacity; the card, by its kind.                                *)
(***************************************************************************)
AddressFits == high_capacity = socket.kind.high
Place(block) == block % socket.kind.places

Stores(card, block, content) ==
  [card EXCEPT !.data[block % card.kind.places] = content, !.app = FALSE]

(***************************************************************************)
(* write_block: the card may reject the data, or take it and stay busy.    *)
(* Data that is disturbed on its way is stored as something else.          *)
(***************************************************************************)
WriteBlock(stage, block, content) ==
  \/ /\ \E reason \in ExchangeFaults("cmd24") : Fail(stage, reason)
     /\ UNCHANGED cardVars
  \/ \E answer \in Answers("cmd24") : \E received \in Received(answer) :
       /\ illegal' = (illegal \/ ~Legal("cmd24"))
       /\ IF received = "ready"
          THEN /\ outside' = (outside \/ ~AddressFits)
               /\ \/ /\ Continue("returned")
                     /\ \E stored \in IF Faults THEN {content, Old}
                                                ELSE {content} :
                          socket' = Stores(socket, block, stored)
                  \/ /\ Faults
                     /\ \E reason \in {"card_busy_timeout",
                                       "sector_data_transfer_failed",
                                       "spi_transfer_failed",
                                       "write_rejected_data_response"} :
                          Fail(stage, reason)
                     /\ socket' \in {socket, Stores(socket, block, content)}
          ELSE /\ Fail(stage, IF received = "none" THEN "no_r1_response"
                              ELSE "unexpected_r1_response")
               /\ UNCHANGED <<socket, outside>>

(***************************************************************************)
(* sd_card_driver_write_test_block, _verify_test_block, _clear_test_block. *)
(***************************************************************************)
Summed(checksum, block, content) ==
  (IF block = 0 THEN << >> ELSE checksum) \o <<content>>

ReadStage == "cmd17_read_test_sector"

CompareBlock(block, read) ==
  IF read # Pattern(block)
  THEN /\ Fail(ReadStage, "read_back_mismatch")
       /\ UNCHANGED verify_checksum
  ELSE /\ verify_checksum' = Summed(verify_checksum, block, read)
       /\ IF block = BlockCount - 1 /\ verify_checksum' # write_checksum
          THEN Fail(ReadStage, "checksum_mismatch")
          ELSE Continue("returned")

\* read_block, and what the caller does with the data in its buffer.
ReadBlock(block) ==
  \/ /\ \E reason \in ExchangeFaults("cmd17") : Fail(ReadStage, reason)
     /\ UNCHANGED <<cardVars, verify_checksum>>
  \/ \E answer \in Answers("cmd17") : \E received \in Received(answer) :
       /\ illegal' = (illegal \/ ~Legal("cmd17"))
       /\ UNCHANGED socket
       /\ IF received = "ready"
          THEN /\ outside' = (outside \/ ~AddressFits)
               /\ \/ \E read \in {socket.data[Place(block)]}
                                 \cup (IF Faults THEN {Old} ELSE {}) :
                       CompareBlock(block, read)
                  \/ /\ Faults
                     /\ \E reason \in {"unexpected_data_token",
                                       "spi_transfer_failed"} :
                          Fail(ReadStage, reason)
                     /\ UNCHANGED verify_checksum
          ELSE /\ Fail(ReadStage, IF received = "none" THEN "no_r1_response"
                                  ELSE "unexpected_r1_response")
               /\ UNCHANGED <<outside, verify_checksum>>

WriteTestBlock(block) ==
  /\ at = "write"
  /\ write_checksum' = Summed(write_checksum, block, Pattern(block))
  /\ WriteBlock("cmd24_write_test_sector", block, Pattern(block))
  /\ UNCHANGED <<verify_checksum, version_two, high_capacity, spiVars>>

VerifyTestBlock(block) ==
  /\ at = "verify"
  /\ ReadBlock(block)
  /\ UNCHANGED <<write_checksum, version_two, high_capacity, spiVars>>

ClearTestBlock(block) ==
  /\ at = "clear"
  /\ WriteBlock("cmd24_clear_test_sector", block, Erased)
  /\ UNCHANGED <<checksums, version_two, high_capacity, spiVars>>

DriverStep(block) ==
  \/ SpiInitialization \/ InitialClocks \/ GoIdle \/ InterfaceCondition
  \/ ApplicationPrefix \/ SendOpCond \/ ReadOcr \/ SetBlockLength \/ ReadCsd
  \/ HighSpeed
  \/ WriteTestBlock(block) \/ VerifyTestBlock(block) \/ ClearTestBlock(block)

(***************************************************************************)
(* A call enters with the failure of the call before cleared.              *)
(***************************************************************************)
\* Fault: it is not.
CallUncleared(step) ==
  /\ at' = step
  /\ outcome' = "none"
  /\ UNCHANGED <<last_failure, version_two, high_capacity, checksums>>

Call(step) ==
  /\ at' = step
  /\ outcome' = "none"
  /\ last_failure' = NoFailure
  /\ UNCHANGED <<version_two, high_capacity, checksums>>

(***************************************************************************)
(* sd_card_driver_shutdown: the separator byte initializes an SPI context  *)
(* that is not ready.                                                      *)
(***************************************************************************)
Shutdown ==
  /\ ready' \in {ready} \cup (IF device THEN {TRUE} ELSE {})
  /\ UNCHANGED <<device, prescaler, driverVars, cardVars>>
=============================================================================
