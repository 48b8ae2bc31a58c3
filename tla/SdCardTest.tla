----------------------------- MODULE SdCardTest -----------------------------
(***************************************************************************)
(* The automatic card test (components/sd_card/sd_card_test.c) with its    *)
(* driver, the card and the operator's hand.                               *)
(*                                                                         *)
(* The main loop calls process() until it reports a verdict, or stop().  A *)
(* call that needs the driver ends when the driver has returned            *)
(* (ProcessReturns).  The operator inserts and removes cards at any time,  *)
(* also inside a call; the card-detect contact may bounce until the card   *)
(* has settled.  The poll timer is abstracted to whether it is due.        *)
(***************************************************************************)
EXTENDS SdCardDriver, ComponentBehaviours

CONSTANTS
  StablePolls,  \* SD_CARD_STABLE_POLLS, 3
  MaxTests,     \* bound: how often the test is started
  MaxMoves      \* bound: how often a card is inserted or removed

ASSUME TestConstants ==
  /\ StablePolls \in Nat \ {0}
  /\ MaxTests \in Nat
  /\ MaxMoves \in Nat

VARIABLES
  active,          \* the runner's active test is this one
  state,           \* sd_card_test_state_t
  matching_polls,
  current_block,
  poll_due,        \* the time of next_poll_at has come
  result,          \* what process() returned last
  contact,         \* what flightcomputer_v1_sd_card_inserted reads
  inserted_polls,  \* history: polls in a row that found the card
  tests, moves     \* history: tests started, cards moved

testVars == <<active, state, matching_polls, current_block, poll_due, result,
              inserted_polls, tests>>
handVars == <<contact, moves>>
vars == <<allDriverVars, testVars, handVars>>

Init ==
  /\ DriverInit
  /\ socket \in {NoCard} \cup {FreshCard(kind) : kind \in Kinds}
  /\ contact = (socket # NoCard)
  /\ active = FALSE
  /\ state = "announce_removal"
  /\ matching_polls = 0
  /\ current_block = 0
  /\ poll_due = FALSE
  /\ result = "none"
  /\ inserted_polls = 0
  /\ tests = 0
  /\ moves = 0
-----------------------------------------------------------------------------
(***************************************************************************)
(* The operator's hand.                                                    *)
(***************************************************************************)
Insert ==
  /\ socket = NoCard
  /\ moves < MaxMoves
  /\ moves' = moves + 1
  /\ \E kind \in Kinds : socket' = FreshCard(kind)
  /\ contact' \in BOOLEAN
  /\ UNCHANGED <<driverVars, spiVars, illegal, outside, testVars>>

Remove ==
  /\ socket # NoCard
  /\ moves < MaxMoves
  /\ moves' = moves + 1
  /\ socket' = NoCard
  /\ contact' \in BOOLEAN
  /\ UNCHANGED <<driverVars, spiVars, illegal, outside, active, state,
                 matching_polls, current_block, poll_due, result,
                 inserted_polls, tests>>

Settle ==
  /\ contact # (socket # NoCard)
  /\ contact' = (socket # NoCard)
  /\ UNCHANGED <<allDriverVars, testVars, moves>>

Hand == Insert \/ Remove \/ Settle
-----------------------------------------------------------------------------
(***************************************************************************)
(* sd_card_test_start.                                                     *)
(***************************************************************************)
Start ==
  /\ ~active
  /\ tests < MaxTests
  /\ tests' = tests + 1
  /\ active' = TRUE
  /\ state' = IF contact THEN "announce_removal" ELSE "announce_insertion"
  /\ matching_polls' = 0
  /\ current_block' = 0
  /\ poll_due' = TRUE
  /\ result' = "none"
  /\ inserted_polls' = 0
  /\ UNCHANGED <<allDriverVars, handVars>>

(***************************************************************************)
(* What a call of process() returns and the state it leaves.               *)
(***************************************************************************)
Calls == active /\ at = "returned" /\ outcome = "none"

Returns(event, to) == result' = event /\ state' = to

Announce ==
  /\ Calls
  /\ \/ /\ state = "announce_removal"
        /\ Returns("sd_card_remove_required", "waiting_for_removal")
     \/ /\ state = "announce_insertion"
        /\ Returns("sd_card_insert_required", "waiting_for_insertion")
  /\ UNCHANGED <<allDriverVars, handVars, active, matching_polls,
                 current_block, poll_due, inserted_polls, tests>>

(***************************************************************************)
(* stable_card_state: when the timer has run out, the contact is read and  *)
(* the readings in a row are counted.                                      *)
(***************************************************************************)
PollTimer ==
  /\ active /\ ~poll_due
  /\ poll_due' = TRUE
  /\ UNCHANGED <<allDriverVars, handVars, active, state, matching_polls,
                 current_block, result, inserted_polls, tests>>

\* Fault: the readings are not counted.
MatchingOnce(inserted) == IF contact = inserted THEN 1 ELSE 0
Matching(inserted) == IF contact = inserted THEN matching_polls + 1 ELSE 0
Stable(inserted) == Matching(inserted) >= StablePolls

Poll ==
  /\ Calls
  /\ poll_due
  /\ poll_due' = FALSE
  /\ inserted_polls' =
       IF ~contact THEN 0
       ELSE IF inserted_polls < StablePolls THEN inserted_polls + 1
       ELSE inserted_polls

\* Fault: the readings of the removal count for the insertion.
ResetPollsForgotten == matching_polls' = Matching(FALSE)
ResetPolls == matching_polls' = 0

PollRemoval ==
  /\ state = "waiting_for_removal"
  /\ Poll
  /\ IF Stable(FALSE)
     THEN /\ ResetPolls
          /\ Returns("sd_card_removed", "announce_insertion")
     ELSE /\ matching_polls' = Matching(FALSE)
          /\ Returns("running", state)
  /\ UNCHANGED <<allDriverVars, handVars, active, current_block,
                 tests>>

PollInsertion ==
  /\ state = "waiting_for_insertion"
  /\ Poll
  /\ matching_polls' = Matching(TRUE)
  /\ IF Stable(TRUE) THEN Returns("sd_card_detected", "initializing")
                     ELSE Returns("running", state)
  /\ UNCHANGED <<allDriverVars, handVars, active, current_block,
                 tests>>

(***************************************************************************)
(* The states that work on the card look at the contact, then call the     *)
(* driver ...                                                              *)
(***************************************************************************)
Operation ==
  [initializing |-> "spi_initialization", writing |-> "write",
   verifying |-> "verify", cleaning_up |-> "clear"]

Working == DOMAIN Operation

Operate ==
  /\ Calls
  /\ state \in Working
  /\ IF contact
     THEN /\ Call(Operation[state])
          /\ UNCHANGED <<state, result>>
     ELSE /\ Returns("component_failure", "failed")
          /\ UNCHANGED driverVars
  /\ UNCHANGED <<spiVars, cardVars, handVars, active, matching_polls,
                 current_block, poll_due, inserted_polls, tests>>

Drive ==
  /\ DriverStep(current_block)
  /\ UNCHANGED <<testVars, handVars>>

(***************************************************************************)
(* ... and go on with what it returned: the next block, or the next state. *)
(***************************************************************************)
\* Fault: the verification is left out.
NextStateUnverified ==
  [initializing |-> "writing", writing |-> "cleaning_up",
   verifying |-> "cleaning_up", cleaning_up |-> "complete"]

NextState ==
  [initializing |-> "writing", writing |-> "verifying",
   verifying |-> "cleaning_up", cleaning_up |-> "complete"]

Completed ==
  [initializing |-> "sd_card_initialized", writing |-> "sd_card_written",
   verifying |-> "sd_card_verified", cleaning_up |-> "sd_card_cleaned_up"]

\* Fault: one block counts for all.
LastBlockFirst == TRUE

LastBlock == state = "initializing" \/ current_block = BlockCount - 1

ProcessReturns ==
  /\ active
  /\ at = "returned" /\ outcome # "none"
  /\ outcome' = "none"
  /\ \/ /\ outcome = "failed"
        /\ Returns("component_failure", "failed")
        /\ UNCHANGED current_block
     \/ /\ outcome = "ok" /\ LastBlock
        /\ Returns(Completed[state], NextState[state])
        /\ current_block' = IF state = "cleaning_up" THEN BlockCount ELSE 0
     \/ /\ outcome = "ok" /\ ~LastBlock
        /\ Returns("running", state)
        /\ current_block' = current_block + 1
  /\ UNCHANGED <<at, last_failure, version_two, high_capacity, checksums,
                 spiVars, cardVars, handVars, active, matching_polls,
                 poll_due, inserted_polls, tests>>

(***************************************************************************)
(* The verdict, after which the runner calls sd_card_test_stop.            *)
(***************************************************************************)
Verdict ==
  /\ Calls
  /\ state \in {"complete", "failed"}
  /\ Returns(IF state = "complete" THEN "passed" ELSE "failed", state)
  /\ active' = FALSE
  /\ Shutdown
  /\ UNCHANGED <<handVars, matching_polls, current_block, poll_due,
                 inserted_polls, tests>>

\* STOP_COMPONENT_TEST between two calls of process().
Stop ==
  /\ Calls
  /\ active' = FALSE
  /\ result' = "none"
  /\ Shutdown
  /\ UNCHANGED <<handVars, state, matching_polls, current_block, poll_due,
                 inserted_polls, tests>>

Process ==
  \/ Announce \/ PollRemoval \/ PollInsertion
  \/ Operate \/ Drive \/ ProcessReturns \/ Verdict

Next == Hand \/ Start \/ PollTimer \/ Process \/ Stop

Spec == Init /\ [][Next]_vars

(***************************************************************************)
(* The main loop calls process() for ever, the timer runs, a contact       *)
(* settles, and a card does not stay busy with its initialization: the     *)
(* loop of CMD55 and ACMD41 has a time limit.                              *)
(***************************************************************************)
InitializationEnds == SendOpCond /\ at' # "cmd55"

FairSpec ==
  /\ Spec
  /\ WF_vars(Process)
  /\ WF_vars(PollTimer)
  /\ WF_vars(Settle)
  /\ SF_vars(InitializationEnds /\ UNCHANGED <<testVars, handVars>>)
-----------------------------------------------------------------------------
\* A card that went through an initialization.
Initialized == socket.mode = "ready"
(***************************************************************************)
(* A test that passes was right about the card: while the cleaned card is  *)
(* in the socket, it has a place of its own for each test block (a         *)
(* counterfeit card or disturbed data were found out), and each block was  *)
(* erased or disturbed in the erasure, which the code does not verify.     *)
(***************************************************************************)
PassedMeansStored ==
  active /\ state = "complete" /\ Initialized
  => /\ socket.kind.places = BlockCount
     /\ \A block \in Block : socket.data[block] \in {Erased, Old}

(***************************************************************************)
(* Cards swapped behind the driver's back do not slip through: in the      *)
(* states after the initialization an initialized card in the socket is    *)
(* the very card the earlier blocks were verified and erased on.           *)
(***************************************************************************)
OneCardThroughout ==
  active /\ Initialized /\ at = "returned" /\ outcome = "none" =>
    CASE state = "verifying" ->
           \A block \in 0 .. current_block - 1 :
             socket.data[Place(block)] = Pattern(block)
      [] state = "cleaning_up" ->
           \A block \in current_block .. BlockCount - 1 :
             socket.data[Place(block)] = Pattern(block)
      [] OTHER -> TRUE

(***************************************************************************)
(* The cards only get commands that they accept in their state, and their  *)
(* data commands in their unit of address, whatever cards come and go and  *)
(* whichever transfers and answers are disturbed.                          *)
(***************************************************************************)
ProtocolFollowed == ~illegal /\ ~outside

(***************************************************************************)
(* The initialization starts only after the card was seen in as many polls *)
(* in a row as the code demands, although the contact may have bounced     *)
(* before and another card may have been removed first.                    *)
(***************************************************************************)
InsertionIsStable ==
  active /\ state \in Working => inserted_polls = StablePolls

(***************************************************************************)
(* The failure that an event is about to report is that of this call, not  *)
(* one that a call before it, perhaps of an earlier test, left behind.     *)
(***************************************************************************)
FailureIsNamed ==
  outcome = "failed" =>
       CASE state = "initializing" -> last_failure[1] \in
              {"spi_initialization", "initial_clocks", "cmd0_go_idle",
               "cmd8_interface_condition", "cmd55_application_prefix",
               "acmd41_initialize", "cmd58_read_ocr",
               "cmd16_set_block_length", "cmd9_read_csd", "spi_high_speed"}
         [] state = "writing" -> last_failure[1] = "cmd24_write_test_sector"
         [] state = "verifying" -> last_failure[1] = "cmd17_read_test_sector"
         [] OTHER -> last_failure[1] = "cmd24_clear_test_sector"

(***************************************************************************)
(* The card test behaves as its runner and SessionProtocol take it to.     *)
(***************************************************************************)
Lifecycle ==
  INSTANCE ComponentLifecycle
    WITH StartStates <- SdCardStarts,
         Behaviour <- SdCardSteps,
         component <- IF active THEN state ELSE Off,
         result <- result

ImplementsLifecycle == Lifecycle!Spec

(***************************************************************************)
(* Once a card stays in its socket, a test that waits for it comes to its  *)
(* end.                                                                    *)
(***************************************************************************)
TestEnds ==
  <>[](socket # NoCard)
  => ((active /\ state = "waiting_for_insertion") ~> ~active)

(***************************************************************************)
(* hardware-reference.md: "The manufacturing test initially clocks SPI1 at *)
(* 328.125 kHz for card initialization, then uses 21 MHz for data          *)
(* transfer": an initialization uses the slow clock.                       *)
(***************************************************************************)
InitializesSlowly ==
  at \in {"initial_clocks", "cmd0", "cmd8", "cmd55", "acmd41", "cmd58",
          "cmd16", "cmd9", "spi_high_speed"}
  => prescaler = "slow"
=============================================================================
