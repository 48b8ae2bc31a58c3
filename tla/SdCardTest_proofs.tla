-------------------------- MODULE SdCardTest_proofs --------------------------
(***************************************************************************)
(* Theorems about the card test for every number of blocks and of polls,   *)
(* every set of kinds of card, and any number of tests and moves.          *)
(***************************************************************************)
EXTENDS SdCardTest, TLAPS

(***************************************************************************)
(* The states of the test, the steps of the driver that each calls for,    *)
(* and the stages by which those name their failures.                      *)
(***************************************************************************)
InitializationSteps ==
  {"spi_initialization", "initial_clocks", "cmd0", "cmd8", "cmd55", "acmd41",
   "cmd58", "cmd16", "cmd9", "spi_high_speed"}

DriverSteps ==
  InitializationSteps \cup {"write", "verify", "clear", "returned"}

StepsOf ==
  [initializing |-> InitializationSteps, writing |-> {"write"},
   verifying |-> {"verify"}, cleaning_up |-> {"clear"}]

StagesOf ==
  [initializing |->
     {"spi_initialization", "initial_clocks", "cmd0_go_idle",
      "cmd8_interface_condition", "cmd55_application_prefix",
      "acmd41_initialize", "cmd58_read_ocr", "cmd16_set_block_length",
      "cmd9_read_csd", "spi_high_speed"},
   writing |-> {"cmd24_write_test_sector"},
   verifying |-> {"cmd17_read_test_sector"},
   cleaning_up |-> {"cmd24_clear_test_sector"}]

Stages == UNION {StagesOf[s] : s \in Working}

Reasons ==
  IfUnset \cup
  {"spi_initialization_failed", "unexpected_r1_response",
   "invalid_r7_voltage_or_check_pattern", "card_stayed_idle_until_timeout",
   "invalid_csd", "card_too_small", "spi_prescaler_change_failed",
   "sector_data_transfer_failed", "write_rejected_data_response",
   "read_back_mismatch", "checksum_mismatch"}

Before == {"announce_removal", "waiting_for_removal", "announce_insertion",
           "waiting_for_insertion"}
OnBlocks == {"writing", "verifying", "cleaning_up"}

(***************************************************************************)
(* A card, whatever became of it.                                          *)
(***************************************************************************)
Contents == Old .. BlockCount

Cards ==
  [kind : Kinds, mode : {"absent", "native", "idle", "ready"}, app : BOOLEAN,
   block_length : BOOLEAN,
   data : UNION {[0 .. places - 1 -> Contents] : places \in 1 .. BlockCount}]

CardOK ==
  /\ socket \in Cards
  /\ socket.data \in [0 .. socket.kind.places - 1 -> Contents]
  /\ socket.kind.high => socket.block_length

TypeOK ==
  /\ at \in DriverSteps
  /\ outcome \in {"none", "ok", "failed"}
  /\ last_failure \in {NoFailure} \cup (Stages \X Reasons)
  /\ version_two \in BOOLEAN /\ high_capacity \in BOOLEAN
  /\ write_checksum \in Seq(Int) /\ verify_checksum \in Seq(Int)
  /\ device \in BOOLEAN /\ ready \in BOOLEAN
  /\ prescaler \in {"slow", "fast"}
  /\ CardOK
  /\ illegal \in BOOLEAN /\ outside \in BOOLEAN
  /\ active \in BOOLEAN /\ poll_due \in BOOLEAN /\ contact \in BOOLEAN
  /\ state \in Before \cup Working \cup {"complete", "failed"}
  /\ matching_polls \in Nat
  /\ current_block \in 0 .. BlockCount
  /\ result \in {"none", "running", "passed", "failed", "component_failure",
                 "sd_card_remove_required", "sd_card_removed",
                 "sd_card_insert_required", "sd_card_detected",
                 "sd_card_initialized", "sd_card_written", "sd_card_verified",
                 "sd_card_cleaned_up"}
  /\ inserted_polls \in 0 .. StablePolls
  /\ tests \in 0 .. MaxTests /\ moves \in 0 .. MaxMoves

(***************************************************************************)
(* The driver works for the state that called it, and enters each call     *)
(* with its failure cleared; a failure is one of the stages of that call.  *)
(***************************************************************************)
CallAgrees ==
  /\ at # "returned" =>
       /\ active /\ outcome = "none" /\ last_failure = NoFailure
       /\ state \in Working /\ at \in StepsOf[state]
  /\ outcome # "none" => active /\ state \in Working
  /\ outcome = "failed" => last_failure[1] \in StagesOf[state]

BlocksAgree ==
  active =>
    /\ state \in Before \cup {"initializing"} => current_block = 0
    /\ state \in OnBlocks => current_block < BlockCount
    /\ state = "complete" => current_block = BlockCount

PollsAgree ==
  active =>
    /\ state \in {"announce_insertion", "waiting_for_insertion"} =>
         inserted_polls = matching_polls /\ matching_polls < StablePolls
    /\ state \in Working => inserted_polls = StablePolls

(***************************************************************************)
(* How far the initialization has brought the card, if the card in the     *)
(* socket is still the one it began with.                                  *)
(***************************************************************************)
Initialization ==
  \/ active /\ state \in OnBlocks
  \/ state = "initializing" /\ outcome = "ok"

CardReached ==
  /\ at \in {"cmd8", "cmd55", "acmd41"} => socket.mode # "ready"
  /\ at = "acmd41" /\ socket.mode = "idle" => socket.app
  /\ Initialization \/ at \in {"cmd58", "cmd16", "cmd9", "spi_high_speed"}
       => socket.mode # "idle"
  /\ at = "cmd58" /\ Initialized => (socket.kind.high => version_two)
  /\ /\ Initialized
     /\ Initialization \/ at \in {"cmd16", "cmd9", "spi_high_speed"}
     => AddressFits
  /\ /\ Initialized
     /\ Initialization \/ at \in {"cmd9", "spi_high_speed"}
     => socket.block_length

(***************************************************************************)
(* What the card holds.                                                    *)
(***************************************************************************)
Done == IF outcome = "ok" THEN current_block + 1 ELSE current_block

ContentsKnown ==
  active /\ Initialized =>
    /\ state = "verifying" =>
         \A block \in 0 .. Done - 1 :
           socket.data[Place(block)] = Pattern(block)
    /\ state = "cleaning_up" /\ outcome # "failed" =>
         /\ socket.kind.places = BlockCount
         /\ \A block \in Block :
              IF block < Done THEN socket.data[block] \in {Erased, Old}
                              ELSE socket.data[block] = Pattern(block)
    /\ state = "complete" =>
         /\ socket.kind.places = BlockCount
         /\ \A block \in Block : socket.data[block] \in {Erased, Old}

Inv ==
  /\ TypeOK
  /\ CallAgrees
  /\ BlocksAgree
  /\ PollsAgree
  /\ CardReached
  /\ ContentsKnown
  /\ illegal = FALSE /\ outside = FALSE
-----------------------------------------------------------------------------
(***************************************************************************)
(* Places.                                                                 *)
(***************************************************************************)
LEMMA PlaceOnCard ==
  ASSUME NEW places \in 1 .. BlockCount, NEW block \in Nat
  PROVE  block % places \in 0 .. places - 1
BY DriverConstants

LEMMA PlaceOfFirst ==
  ASSUME NEW places \in Nat \ {0}
  PROVE  /\ 0 % places = 0
         /\ places % places = 0
         /\ \A block \in 0 .. places - 1 : block % places = block
OBVIOUS

(***************************************************************************)
(* What a command makes of the card.                                       *)
(***************************************************************************)
LEMMA FreshCardOK ==
  ASSUME NEW kind \in Kinds
  PROVE  /\ FreshCard(kind) \in Cards
         /\ FreshCard(kind).kind = kind
         /\ FreshCard(kind).mode = "native"
         /\ FreshCard(kind).data \in [0 .. kind.places - 1 -> Contents]
         /\ kind.high => FreshCard(kind).block_length
BY DriverConstants DEF FreshCard, Cards, Contents, Old

LEMMA NoCardOK ==
  /\ NoCard \in Cards
  /\ NoCard.mode = "absent"
  /\ NoCard.data \in [0 .. NoCard.kind.places - 1 -> Contents]
  /\ NoCard.kind.high => NoCard.block_length
<1> DEFINE kind == CHOOSE k \in Kinds : TRUE
<1>1. kind \in Kinds
  BY DriverConstants
<1>2. NoCard = [FreshCard(kind) EXCEPT !.mode = "absent"]
  BY DEF NoCard
<1> HIDE DEF kind
<1> QED
  BY <1>1, <1>2, FreshCardOK DEF Cards

LEMMA AnswerModes ==
  ASSUME CardOK, NEW command, NEW answer \in Answers(command)
  PROVE  /\ answer \in {"none", "idle", "ready", "illegal"}
         /\ socket.mode = "absent" => answer = "none"
         /\ socket.mode = "native" /\ command # "cmd0" => answer = "none"
         /\ socket.mode = "ready" /\ command # "cmd0" => answer = "ready"
         /\ socket.mode = "idle" /\ answer = "ready" =>
              command = "acmd41" /\ (socket.kind.high => version_two)
BY DEF Answers, CardOK, Cards

LEMMA CardAfter ==
  ASSUME CardOK, NEW command, NEW answer \in Answers(command)
  PROVE  /\ After(command, answer) \in Cards
         /\ After(command, answer).kind = socket.kind
         /\ After(command, answer).data = socket.data
         /\ socket.block_length => After(command, answer).block_length
<1>1. answer \in {"none", "idle", "ready", "illegal"}
  BY AnswerModes
<1>2. command = "acmd41" /\ answer \notin {"none", "illegal"}
        => answer \in {"idle", "ready"}
  BY <1>1
<1> QED
  BY <1>1, <1>2 DEF After, CardOK, Cards

LEMMA ExchangeKnown ==
  ASSUME CardOK, illegal = FALSE, NEW command, NEW received, Legal(command),
         Exchange(command, received)
  PROVE  /\ CardOK'
         /\ socket'.kind = socket.kind
         /\ socket.block_length => socket'.block_length
         /\ illegal' = FALSE
         /\ outside' = outside
         /\ \E answer \in Answers(command) :
              /\ received \in {answer, "none", "error"}
              /\ socket' = After(command, answer)
<1>1. PICK answer \in Answers(command) :
        /\ received \in Received(answer)
        /\ illegal' = (illegal \/ ~Legal(command))
        /\ socket' = After(command, answer)
        /\ outside' = outside
  BY DEF Exchange
<1>2. CardOK'
  BY <1>1, CardAfter DEF CardOK
<1> QED
  BY <1>1, <1>2, CardAfter DEF Received

LEMMA FailNamed ==
  ASSUME last_failure = NoFailure, NEW stage,
         NEW reason, Fail(stage, reason)
  PROVE  /\ at' = "returned"
         /\ outcome' = "failed"
         /\ last_failure' = <<stage, reason>>
BY DEF Fail
-----------------------------------------------------------------------------
(***************************************************************************)
(* Steps of the initialization.                                            *)
(***************************************************************************)
Elsewhere == UNCHANGED <<testVars, handVars, checksums>>

Failed(stages) ==
  /\ at' = "returned"
  /\ outcome' = "failed"
  /\ last_failure' \in Stages \X Reasons
  /\ last_failure'[1] \in stages

DriverTypes ==
  /\ version_two \in BOOLEAN /\ high_capacity \in BOOLEAN
  /\ device \in BOOLEAN /\ ready \in BOOLEAN
  /\ prescaler \in {"slow", "fast"}

InitializationIn ==
  /\ active /\ state = "initializing" /\ current_block = 0
  /\ outcome = "none" /\ last_failure = NoFailure
  /\ CardOK /\ DriverTypes /\ illegal = FALSE /\ outside = FALSE

LEMMA InInitialization ==
  ASSUME Inv, at \in InitializationSteps
  PROVE  InitializationIn
<1>1. /\ active /\ outcome = "none" /\ last_failure = NoFailure
      /\ state \in Working /\ at \in StepsOf[state]
  BY DEF Inv, CallAgrees, InitializationSteps
<1>2. state = "initializing"
  BY <1>1 DEF Working, Operation, StepsOf, InitializationSteps
<1> QED
  BY <1>1, <1>2 DEF Inv, TypeOK, BlocksAgree, InitializationIn, DriverTypes

LEMMA InitializationFails ==
  ASSUME Inv, at \in InitializationSteps, Elsewhere, CardOK', DriverTypes',
         illegal' = FALSE, outside' = FALSE, Failed(StagesOf["initializing"])
  PROVE  Inv'
<1>1. InitializationIn
  BY InInitialization
<1>2. UNCHANGED <<active, state, matching_polls, current_block, poll_due,
                  result, contact, inserted_polls, tests, moves,
                  write_checksum, verify_checksum>>
  BY DEF Elsewhere, testVars, handVars, checksums
<1>3. TypeOK'
  <2>1. TypeOK
    BY DEF Inv
  <2>2. /\ at' \in DriverSteps
        /\ outcome' \in {"none", "ok", "failed"}
        /\ last_failure' \in {NoFailure} \cup (Stages \X Reasons)
    BY DEF Failed, DriverSteps
  <2> QED
    BY <1>2, <2>1, <2>2 DEF TypeOK, DriverTypes
<1>4. CallAgrees'
  BY <1>1, <1>2 DEF CallAgrees, Failed, InitializationIn, Working, Operation
<1>5. BlocksAgree' /\ PollsAgree'
  BY <1>2 DEF Inv, BlocksAgree, PollsAgree
<1>6. CardReached'
  BY <1>1, <1>2 DEF CardReached, Initialization, InitializationIn, Failed,
                    OnBlocks
<1>7. ContentsKnown'
  BY <1>1, <1>2 DEF ContentsKnown, InitializationIn
<1> QED
  BY <1>3, <1>4, <1>5, <1>6, <1>7 DEF Inv

LEMMA InitializationGoesOn ==
  ASSUME Inv, at \in InitializationSteps, Elsewhere, CardOK', DriverTypes',
         illegal' = FALSE, outside' = FALSE,
         NEW next \in InitializationSteps \cup {"returned"},
         Continue(next), CardReached'
  PROVE  Inv'
<1>1. InitializationIn
  BY InInitialization
<1>2. UNCHANGED <<active, state, matching_polls, current_block, poll_due,
                  result, contact, inserted_polls, tests, moves,
                  write_checksum, verify_checksum>>
  BY DEF Elsewhere, testVars, handVars, checksums
<1>3. /\ at' = next /\ last_failure' = last_failure
      /\ outcome' = IF next = "returned" THEN "ok" ELSE "none"
  BY <1>1 DEF Continue, InitializationIn
<1>4. TypeOK'
  <2>1. TypeOK
    BY DEF Inv
  <2>2. /\ at' \in DriverSteps
        /\ outcome' \in {"none", "ok", "failed"}
        /\ last_failure' \in {NoFailure} \cup (Stages \X Reasons)
    BY <1>3, <2>1 DEF DriverSteps, TypeOK
  <2> QED
    BY <1>2, <2>1, <2>2 DEF TypeOK, DriverTypes
<1>5. CallAgrees'
  BY <1>1, <1>2, <1>3
  DEF CallAgrees, InitializationIn, Working, Operation, StepsOf
<1>6. BlocksAgree' /\ PollsAgree'
  BY <1>2 DEF Inv, BlocksAgree, PollsAgree
<1>7. ContentsKnown'
  BY <1>1, <1>2 DEF ContentsKnown, InitializationIn
<1> QED
  BY <1>4, <1>5, <1>6, <1>7 DEF Inv

LEMMA ExchangeFailsKnown ==
  ASSUME Inv, at \in InitializationSteps, Elsewhere, UNCHANGED spiVars,
         NEW stage \in StagesOf["initializing"], NEW command, NEW accepted,
         Legal(command), ExchangeFails(stage, command, accepted)
  PROVE  Inv'
<1>1. InitializationIn
  BY InInitialization
<1>2. DriverTypes'
  BY <1>1 DEF ExchangeFails, DriverTypes, InitializationIn, spiVars
<1>3. stage \in Stages
  BY DEF Stages, StagesOf, Working, Operation
<1>4. CASE /\ \E reason \in ExchangeFaults(command) : Fail(stage, reason)
           /\ UNCHANGED cardVars
  <2>1. PICK reason \in ExchangeFaults(command) : Fail(stage, reason)
    BY <1>4
  <2>2. reason \in Reasons
    BY <2>1 DEF ExchangeFaults, Reasons, IfUnset
  <2>3. Failed(StagesOf["initializing"])
    BY <1>1, <1>3, <2>1, <2>2, FailNamed DEF InitializationIn, Failed
  <2>4. CardOK' /\ illegal' = FALSE /\ outside' = FALSE
    BY <1>1, <1>4 DEF cardVars, InitializationIn, CardOK
  <2> QED
    BY <1>2, <2>3, <2>4, InitializationFails
<1>5. CASE \E received \in
                {"idle", "ready", "illegal", "none", "error"} \ accepted :
             /\ Exchange(command, received)
             /\ Fail(stage, IF received = "none" THEN "no_r1_response"
                            ELSE "unexpected_r1_response")
  <2>1. PICK received :
          /\ Exchange(command, received)
          /\ Fail(stage, IF received = "none" THEN "no_r1_response"
                         ELSE "unexpected_r1_response")
    BY <1>5
  <2>2. Failed(StagesOf["initializing"])
    BY <1>1, <1>3, <2>1, FailNamed
    DEF InitializationIn, Failed, Reasons, IfUnset
  <2>3. CardOK' /\ illegal' = FALSE /\ outside' = FALSE
    BY <1>1, <2>1, ExchangeKnown DEF InitializationIn
  <2> QED
    BY <1>2, <2>2, <2>3, InitializationFails
<1> QED
  BY <1>4, <1>5 DEF ExchangeFails

LEMMA SpiInitializationStep ==
  ASSUME Inv, SpiInitialization, UNCHANGED <<testVars, handVars>>
  PROVE  Inv'
<1>1. at \in InitializationSteps /\ InitializationIn /\ Elsewhere
  BY InInitialization
  DEF SpiInitialization, InitializationSteps, Elsewhere, checksums
<1>2. /\ CardOK' /\ illegal' = FALSE /\ outside' = FALSE
  BY <1>1 DEF SpiInitialization, InitializationIn, CardOK, cardVars
<1>3. CASE ready' = TRUE /\ Continue("initial_clocks")
  <2>1. DriverTypes'
    BY <1>1, <1>3 DEF SpiInitialization, InitializationIn, DriverTypes
  <2>2. at' = "initial_clocks" /\ outcome' = "none"
    BY <1>1, <1>3 DEF Continue, InitializationIn
  <2>3. CardReached'
    BY <1>1, <2>2
    DEF CardReached, Initialization, Elsewhere, testVars, InitializationIn,
        OnBlocks
  <2>4. "initial_clocks" \in InitializationSteps
    BY DEF InitializationSteps
  <2> QED
    BY <1>1, <1>2, <1>3, <2>1, <2>3, <2>4, InitializationGoesOn
<1>4. CASE /\ Fail("spi_initialization", "spi_initialization_failed")
           /\ UNCHANGED ready
  <2>1. DriverTypes'
    BY <1>1, <1>4 DEF SpiInitialization, InitializationIn, DriverTypes
  <2>2. Failed(StagesOf["initializing"])
    BY <1>1, <1>4, FailNamed
    DEF InitializationIn, Failed, StagesOf, Stages, Reasons, Working, Operation
  <2> QED
    BY <1>1, <1>2, <2>1, <2>2, InitializationFails
<1> QED
  BY <1>3, <1>4 DEF SpiInitialization

LEMMA InitialClocksStep ==
  ASSUME Inv, InitialClocks, UNCHANGED <<testVars, handVars>>
  PROVE  Inv'
<1>1. at \in InitializationSteps /\ InitializationIn /\ Elsewhere
  BY InInitialization
  DEF InitialClocks, InitializationSteps, Elsewhere, checksums
<1>2. /\ CardOK' /\ illegal' = FALSE /\ outside' = FALSE
      /\ DriverTypes'
  BY <1>1
  DEF InitialClocks, InitializationIn, CardOK, cardVars, spiVars, DriverTypes
<1>3. CASE Continue("cmd0")
  <2>1. at' = "cmd0" /\ outcome' = "none"
    BY <1>1, <1>3 DEF Continue, InitializationIn
  <2>2. CardReached'
    BY <1>1, <2>1
    DEF CardReached, Initialization, Elsewhere, testVars, InitializationIn,
        OnBlocks
  <2>3. "cmd0" \in InitializationSteps
    BY DEF InitializationSteps
  <2> QED
    BY <1>1, <1>2, <1>3, <2>2, <2>3, InitializationGoesOn
<1>4. CASE Fail("initial_clocks", "spi_transfer_failed")
  <2>1. Failed(StagesOf["initializing"])
    BY <1>1, <1>4, FailNamed
    DEF InitializationIn, Failed, StagesOf, Stages, Reasons, IfUnset, Working,
        Operation
  <2> QED
    BY <1>1, <1>2, <2>1, InitializationFails
<1> QED
  BY <1>3, <1>4 DEF InitialClocks

LEMMA GoIdleStep ==
  ASSUME Inv, GoIdle, UNCHANGED <<testVars, handVars>>
  PROVE  Inv'
<1>1. /\ at = "cmd0" /\ at \in InitializationSteps
      /\ InitializationIn /\ Elsewhere
  BY InInitialization
  DEF GoIdle, InitializationSteps, Elsewhere, checksums
<1>2. Legal("cmd0")
  BY <1>1 DEF Legal, InitializationIn, Inv, CardReached, CardOK, Cards,
              Initialized, BlockCommands
<1>3. CASE /\ Exchange("cmd0", "idle")
           /\ Continue("cmd8")
           /\ UNCHANGED <<version_two, high_capacity>>
  <2>1. PICK answer \in Answers("cmd0") :
          /\ "idle" \in {answer, "none", "error"}
          /\ socket' = After("cmd0", answer)
    BY <1>1, <1>2, <1>3, ExchangeKnown DEF InitializationIn
  <2>2. socket'.mode = "idle"
    BY <1>1, <2>1 DEF After, InitializationIn, CardOK, Cards
  <2>3. /\ at' = "cmd8" /\ outcome' = "none"
        /\ CardOK' /\ illegal' = FALSE /\ outside' = FALSE
        /\ DriverTypes'
    BY <1>1, <1>2, <1>3, ExchangeKnown
    DEF GoIdle, Continue, InitializationIn, DriverTypes, spiVars
  <2>4. CardReached'
    BY <1>1, <2>2, <2>3
    DEF CardReached, Initialization, Elsewhere, testVars, InitializationIn,
        OnBlocks
  <2>5. "cmd8" \in InitializationSteps
    BY DEF InitializationSteps
  <2> QED
    BY <1>1, <1>3, <2>3, <2>4, <2>5, InitializationGoesOn
<1>4. CASE ExchangeFails("cmd0_go_idle", "cmd0", {"idle"})
  <2>1. "cmd0_go_idle" \in StagesOf["initializing"]
    BY DEF StagesOf
  <2> QED
    BY <1>1, <1>2, <1>4, <2>1, ExchangeFailsKnown DEF GoIdle
<1> QED
  BY <1>3, <1>4 DEF GoIdle

LEMMA InterfaceConditionStep ==
  ASSUME Inv, InterfaceCondition, UNCHANGED <<testVars, handVars>>
  PROVE  Inv'
<1>1. /\ at = "cmd8" /\ at \in InitializationSteps
      /\ InitializationIn /\ Elsewhere
  BY InInitialization
  DEF InterfaceCondition, InitializationSteps, Elsewhere, checksums
<1>2. Legal("cmd8")
  BY <1>1 DEF Legal, InitializationIn, Inv, CardReached, CardOK, Cards,
              Initialized, BlockCommands
<1>3. ASSUME NEW received \in {"idle", "illegal"}, Exchange("cmd8", received),
             version_two' = (received = "idle"), UNCHANGED high_capacity,
             \/ Continue("cmd55")
             \/ Fail("cmd8_interface_condition",
                     "invalid_r7_voltage_or_check_pattern")
      PROVE  Inv'
  <2>1. PICK answer \in Answers("cmd8") :
          /\ received \in {answer, "none", "error"}
          /\ socket' = After("cmd8", answer)
    BY <1>1, <1>2, <1>3, ExchangeKnown DEF InitializationIn
  <2>2. socket.mode # "ready"
    BY <1>1 DEF Inv, CardReached
  <2>3. socket'.mode # "ready"
    BY <1>1, <2>1, <2>2, AnswerModes DEF After, InitializationIn, CardOK, Cards
  <2>4. /\ CardOK' /\ illegal' = FALSE /\ outside' = FALSE
        /\ DriverTypes'
    BY <1>1, <1>2, <1>3, ExchangeKnown
    DEF InterfaceCondition, InitializationIn, DriverTypes, spiVars
  <2>5. CASE Continue("cmd55")
    <3>1. at' = "cmd55" /\ outcome' = "none"
      BY <1>1, <2>5 DEF Continue, InitializationIn
    <3>2. CardReached'
      BY <1>1, <2>3, <3>1
      DEF CardReached, Initialization, Elsewhere, testVars, InitializationIn,
          OnBlocks
    <3>3. "cmd55" \in InitializationSteps
      BY DEF InitializationSteps
    <3> QED
      BY <1>1, <2>4, <2>5, <3>2, <3>3, InitializationGoesOn
  <2>6. CASE Fail("cmd8_interface_condition",
                  "invalid_r7_voltage_or_check_pattern")
    <3>1. Failed(StagesOf["initializing"])
      BY <1>1, <2>6, FailNamed
      DEF InitializationIn, Failed, StagesOf, Stages, Reasons, Working,
          Operation
    <3> QED
      BY <1>1, <2>4, <3>1, InitializationFails
  <2> QED
    BY <1>3, <2>5, <2>6
<1>4. CASE ExchangeFails("cmd8_interface_condition", "cmd8",
                        {"idle", "illegal"})
  <2>1. "cmd8_interface_condition" \in StagesOf["initializing"]
    BY DEF StagesOf
  <2> QED
    BY <1>1, <1>2, <1>4, <2>1, ExchangeFailsKnown DEF InterfaceCondition
<1> QED
  BY <1>3, <1>4 DEF InterfaceCondition

LEMMA ApplicationPrefixStep ==
  ASSUME Inv, ApplicationPrefix, UNCHANGED <<testVars, handVars>>
  PROVE  Inv'
<1>1. /\ at = "cmd55" /\ at \in InitializationSteps
      /\ InitializationIn /\ Elsewhere
  BY InInitialization
  DEF ApplicationPrefix, InitializationSteps, Elsewhere, checksums
<1>2. Legal("cmd55")
  BY <1>1 DEF Legal, InitializationIn, Inv, CardReached, CardOK, Cards,
              Initialized, BlockCommands
<1>3. ASSUME NEW received \in {"idle", "ready"}, Exchange("cmd55", received),
             Continue("acmd41"), UNCHANGED <<version_two, high_capacity>>
      PROVE  Inv'
  <2>1. PICK answer \in Answers("cmd55") :
          /\ received \in {answer, "none", "error"}
          /\ socket' = After("cmd55", answer)
    BY <1>1, <1>2, <1>3, ExchangeKnown DEF InitializationIn
  <2>2. socket.mode = "idle" /\ answer = "idle"
    BY <1>1, <2>1, AnswerModes
    DEF Inv, CardReached, InitializationIn, CardOK, Cards
  <2>3. socket'.mode # "ready" /\ socket'.app
    BY <1>1, <2>1, <2>2 DEF After, InitializationIn, CardOK, Cards
  <2>4. /\ at' = "acmd41" /\ outcome' = "none"
        /\ CardOK' /\ illegal' = FALSE /\ outside' = FALSE
        /\ DriverTypes'
    BY <1>1, <1>2, <1>3, ExchangeKnown
    DEF ApplicationPrefix, Continue, InitializationIn, DriverTypes, spiVars
  <2>5. CardReached'
    BY <1>1, <2>3, <2>4
    DEF CardReached, Initialization, Elsewhere, testVars, InitializationIn,
        OnBlocks
  <2>6. "acmd41" \in InitializationSteps
    BY DEF InitializationSteps
  <2> QED
    BY <1>1, <1>3, <2>4, <2>5, <2>6, InitializationGoesOn
<1>4. CASE ExchangeFails("cmd55_application_prefix", "cmd55",
                        {"idle", "ready"})
  <2>1. "cmd55_application_prefix" \in StagesOf["initializing"]
    BY DEF StagesOf
  <2> QED
    BY <1>1, <1>2, <1>4, <2>1, ExchangeFailsKnown DEF ApplicationPrefix
<1> QED
  BY <1>3, <1>4 DEF ApplicationPrefix

LEMMA SendOpCondStep ==
  ASSUME Inv, SendOpCond, UNCHANGED <<testVars, handVars>>
  PROVE  Inv'
<1>1. /\ at = "acmd41" /\ at \in InitializationSteps
      /\ InitializationIn /\ Elsewhere
  BY InInitialization
  DEF SendOpCond, InitializationSteps, Elsewhere, checksums
<1>2. Legal("acmd41")
  BY <1>1 DEF Legal, InitializationIn, Inv, CardReached, CardOK, Cards,
              Initialized, BlockCommands
<1>3. CASE /\ Exchange("acmd41", "ready") /\ Continue("cmd58")
           /\ UNCHANGED <<version_two, high_capacity>>
  <2>1. PICK answer \in Answers("acmd41") :
          /\ "ready" \in {answer, "none", "error"}
          /\ socket' = After("acmd41", answer)
    BY <1>1, <1>2, <1>3, ExchangeKnown DEF InitializationIn
  <2>2. answer = "ready" /\ (socket.kind.high => version_two)
    BY <1>1, <2>1, AnswerModes
    DEF Inv, CardReached, InitializationIn, CardOK, Cards
  <2>3. socket'.mode = "ready" /\ socket'.kind = socket.kind
    BY <1>1, <2>1, <2>2 DEF After, InitializationIn, CardOK, Cards
  <2>4. /\ at' = "cmd58" /\ outcome' = "none"
        /\ CardOK' /\ illegal' = FALSE /\ outside' = FALSE
        /\ DriverTypes'
    BY <1>1, <1>2, <1>3, ExchangeKnown
    DEF SendOpCond, Continue, InitializationIn, DriverTypes, spiVars
  <2>5. CardReached'
    BY <1>1, <1>3, <2>2, <2>3, <2>4
    DEF CardReached, Initialization, Elsewhere, testVars, InitializationIn,
        OnBlocks
  <2>6. "cmd58" \in InitializationSteps
    BY DEF InitializationSteps
  <2> QED
    BY <1>1, <1>3, <2>4, <2>5, <2>6, InitializationGoesOn
<1>4. CASE /\ Exchange("acmd41", "idle")
           /\ \/ Continue("cmd55")
              \/ Fail("acmd41_initialize", "card_stayed_idle_until_timeout")
           /\ UNCHANGED <<version_two, high_capacity>>
  <2>1. PICK answer \in Answers("acmd41") :
          /\ "idle" \in {answer, "none", "error"}
          /\ socket' = After("acmd41", answer)
    BY <1>1, <1>2, <1>4, ExchangeKnown DEF InitializationIn
  <2>2. socket'.mode = "idle"
    BY <1>1, <2>1 DEF After, InitializationIn, CardOK, Cards
  <2>3. /\ CardOK' /\ illegal' = FALSE /\ outside' = FALSE
        /\ DriverTypes'
    BY <1>1, <1>2, <1>4, ExchangeKnown
    DEF SendOpCond, InitializationIn, DriverTypes, spiVars
  <2>4. CASE Continue("cmd55")
    <3>1. at' = "cmd55" /\ outcome' = "none"
      BY <1>1, <2>4 DEF Continue, InitializationIn
    <3>2. CardReached'
      BY <1>1, <2>2, <3>1
      DEF CardReached, Initialization, Elsewhere, testVars, InitializationIn,
          OnBlocks
    <3>3. "cmd55" \in InitializationSteps
      BY DEF InitializationSteps
    <3> QED
      BY <1>1, <2>3, <2>4, <3>2, <3>3, InitializationGoesOn
  <2>5. CASE Fail("acmd41_initialize", "card_stayed_idle_until_timeout")
    <3>1. Failed(StagesOf["initializing"])
      BY <1>1, <2>5, FailNamed
      DEF InitializationIn, Failed, StagesOf, Stages, Reasons, Working,
          Operation
    <3> QED
      BY <1>1, <2>3, <3>1, InitializationFails
  <2> QED
    BY <1>4, <2>4, <2>5
<1>5. CASE ExchangeFails("acmd41_initialize", "acmd41", {"idle", "ready"})
  <2>1. "acmd41_initialize" \in StagesOf["initializing"]
    BY DEF StagesOf
  <2> QED
    BY <1>1, <1>2, <1>5, <2>1, ExchangeFailsKnown DEF SendOpCond
<1> QED
  BY <1>3, <1>4, <1>5 DEF SendOpCond

LEMMA ReadOcrStep ==
  ASSUME Inv, ReadOcr, UNCHANGED <<testVars, handVars>>
  PROVE  Inv'
<1>1. /\ at = "cmd58" /\ at \in InitializationSteps
      /\ InitializationIn /\ Elsewhere
  BY InInitialization
  DEF ReadOcr, InitializationSteps, Elsewhere, checksums
<1>2. Legal("cmd58")
  BY <1>1 DEF Legal, InitializationIn, Inv, CardReached, CardOK, Cards,
              Initialized, BlockCommands
<1>3. ASSUME Exchange("cmd58", "ready"),
             high_capacity' = (version_two /\ socket.kind.high),
             Continue(IF high_capacity' THEN "cmd9" ELSE "cmd16"),
             UNCHANGED version_two
      PROVE  Inv'
  <2>1. PICK answer \in Answers("cmd58") :
          /\ "ready" \in {answer, "none", "error"}
          /\ socket' = After("cmd58", answer)
    BY <1>1, <1>2, <1>3, ExchangeKnown DEF InitializationIn
  <2>2. /\ answer = "ready" /\ socket.mode = "ready"
        /\ socket'.kind = socket.kind /\ socket'.mode = "ready"
    BY <1>1, <2>1, AnswerModes
    DEF After, InitializationIn, CardOK, Cards, Inv, CardReached
  <2>3. /\ CardOK' /\ illegal' = FALSE /\ outside' = FALSE
    BY <1>1, <1>2, <1>3, ExchangeKnown DEF InitializationIn
  <2>4. /\ socket.kind \in [version : 1..2, high : BOOLEAN,
                            places : 1..BlockCount]
        /\ socket.kind.high => version_two
    BY <1>1, <2>2, DriverConstants
    DEF Inv, CardReached, Initialized, InitializationIn, CardOK, Cards
  <2>5. high_capacity' = socket'.kind.high /\ DriverTypes'
    BY <1>1, <1>3, <2>2, <2>4
    DEF ReadOcr, InitializationIn, DriverTypes, spiVars
  <2>6. socket'.kind.high => socket'.block_length
    BY <2>3 DEF CardOK
  <2>7. /\ at' = IF high_capacity' THEN "cmd9" ELSE "cmd16"
        /\ outcome' = "none"
    BY <1>1, <1>3 DEF Continue, InitializationIn
  <2>8. CardReached'
    BY <1>1, <2>2, <2>5, <2>6, <2>7
    DEF CardReached, Initialization, Elsewhere, testVars, InitializationIn,
        OnBlocks, Initialized, AddressFits
  <2>9. (IF high_capacity' THEN "cmd9" ELSE "cmd16") \in InitializationSteps
    BY DEF InitializationSteps
  <2> QED
    BY <1>1, <1>3, <2>3, <2>5, <2>8, <2>9, InitializationGoesOn
<1>4. ASSUME Exchange("cmd58", "ready"),
             Fail("cmd58_read_ocr", "spi_transfer_failed"),
             UNCHANGED <<version_two, high_capacity>>
      PROVE  Inv'
  <2>1. /\ CardOK' /\ illegal' = FALSE /\ outside' = FALSE /\ DriverTypes'
    BY <1>1, <1>2, <1>4, ExchangeKnown
    DEF ReadOcr, InitializationIn, DriverTypes, spiVars
  <2>2. Failed(StagesOf["initializing"])
    BY <1>1, <1>4, FailNamed
    DEF InitializationIn, Failed, StagesOf, Stages, Reasons, IfUnset, Working,
        Operation
  <2> QED
    BY <1>1, <2>1, <2>2, InitializationFails
<1>5. CASE ExchangeFails("cmd58_read_ocr", "cmd58", {"ready"})
  <2>1. "cmd58_read_ocr" \in StagesOf["initializing"]
    BY DEF StagesOf
  <2> QED
    BY <1>1, <1>2, <1>5, <2>1, ExchangeFailsKnown DEF ReadOcr
<1> QED
  BY <1>3, <1>4, <1>5 DEF ReadOcr

LEMMA SetBlockLengthStep ==
  ASSUME Inv, SetBlockLength, UNCHANGED <<testVars, handVars>>
  PROVE  Inv'
<1>1. /\ at = "cmd16" /\ at \in InitializationSteps
      /\ InitializationIn /\ Elsewhere
  BY InInitialization
  DEF SetBlockLength, InitializationSteps, Elsewhere, checksums
<1>2. Legal("cmd16")
  BY <1>1 DEF Legal, InitializationIn, Inv, CardReached, CardOK, Cards,
              Initialized, BlockCommands
<1>3. CASE /\ Exchange("cmd16", "ready")
           /\ Continue("cmd9")
           /\ UNCHANGED <<version_two, high_capacity>>
  <2>1. PICK answer \in Answers("cmd16") :
          /\ "ready" \in {answer, "none", "error"}
          /\ socket' = After("cmd16", answer)
    BY <1>1, <1>2, <1>3, ExchangeKnown DEF InitializationIn
  <2>2. answer = "ready" /\ socket.mode = "ready"
    BY <1>1, <2>1, AnswerModes
    DEF InitializationIn, CardOK, Cards, Inv, CardReached
  <2>3. /\ socket'.kind = socket.kind /\ socket'.mode = "ready"
        /\ socket'.block_length = TRUE
    BY <1>1, <2>1, <2>2 DEF After, InitializationIn, CardOK, Cards
  <2>4. /\ at' = "cmd9" /\ outcome' = "none"
        /\ CardOK' /\ illegal' = FALSE /\ outside' = FALSE
        /\ DriverTypes'
    BY <1>1, <1>2, <1>3, ExchangeKnown
    DEF SetBlockLength, Continue, InitializationIn, DriverTypes, spiVars
  <2>5. CardReached'
    BY <1>1, <1>3, <2>2, <2>3, <2>4
    DEF CardReached, Initialization, Elsewhere, testVars, InitializationIn,
        OnBlocks, Inv, Initialized, AddressFits
  <2>6. "cmd9" \in InitializationSteps
    BY DEF InitializationSteps
  <2> QED
    BY <1>1, <1>3, <2>4, <2>5, <2>6, InitializationGoesOn
<1>4. CASE ExchangeFails("cmd16_set_block_length", "cmd16", {"ready"})
  <2>1. "cmd16_set_block_length" \in StagesOf["initializing"]
    BY DEF StagesOf
  <2> QED
    BY <1>1, <1>2, <1>4, <2>1, ExchangeFailsKnown DEF SetBlockLength
<1> QED
  BY <1>3, <1>4 DEF SetBlockLength

LEMMA ReadCsdStep ==
  ASSUME Inv, ReadCsd, UNCHANGED <<testVars, handVars>>
  PROVE  Inv'
<1>1. /\ at = "cmd9" /\ at \in InitializationSteps
      /\ InitializationIn /\ Elsewhere
  BY InInitialization
  DEF ReadCsd, InitializationSteps, Elsewhere, checksums
<1>2. Legal("cmd9")
  BY <1>1 DEF Legal, InitializationIn, Inv, CardReached, CardOK, Cards,
              Initialized, BlockCommands
<1>3. ASSUME Exchange("cmd9", "ready"),
             UNCHANGED <<version_two, high_capacity>>,
             \/ Continue("spi_high_speed")
             \/ \E reason \in {"unexpected_data_token", "invalid_csd",
                               "spi_transfer_failed", "card_too_small"} :
                  Fail("cmd9_read_csd", reason)
      PROVE  Inv'
  <2>1. PICK answer \in Answers("cmd9") :
          /\ "ready" \in {answer, "none", "error"}
          /\ socket' = After("cmd9", answer)
    BY <1>1, <1>2, <1>3, ExchangeKnown DEF InitializationIn
  <2>2. /\ answer = "ready" /\ socket.mode = "ready"
        /\ socket'.kind = socket.kind /\ socket'.mode = "ready"
    BY <1>1, <2>1, AnswerModes
    DEF After, InitializationIn, CardOK, Cards, Inv, CardReached
  <2>3. /\ CardOK' /\ illegal' = FALSE /\ outside' = FALSE
        /\ DriverTypes'
        /\ socket.block_length => socket'.block_length
    BY <1>1, <1>2, <1>3, ExchangeKnown
    DEF ReadCsd, InitializationIn, DriverTypes, spiVars
  <2>4. CASE Continue("spi_high_speed")
    <3>1. at' = "spi_high_speed" /\ outcome' = "none"
      BY <1>1, <2>4 DEF Continue, InitializationIn
    <3>2. CardReached'
      BY <1>1, <1>3, <2>2, <2>3, <3>1
      DEF CardReached, Initialization, Elsewhere, testVars, InitializationIn,
          OnBlocks, Inv, Initialized, AddressFits
    <3>3. "spi_high_speed" \in InitializationSteps
      BY DEF InitializationSteps
    <3> QED
      BY <1>1, <2>3, <2>4, <3>2, <3>3, InitializationGoesOn
  <2>5. ASSUME NEW reason \in {"unexpected_data_token", "invalid_csd",
                               "spi_transfer_failed", "card_too_small"},
               Fail("cmd9_read_csd", reason)
        PROVE  Inv'
    <3>1. Failed(StagesOf["initializing"])
      BY <1>1, <2>5, FailNamed
      DEF InitializationIn, Failed, StagesOf, Stages, Reasons, IfUnset,
          Working, Operation
    <3> QED
      BY <1>1, <2>3, <3>1, InitializationFails
  <2> QED
    BY <1>3, <2>4, <2>5
<1>4. CASE ExchangeFails("cmd9_read_csd", "cmd9", {"ready"})
  <2>1. "cmd9_read_csd" \in StagesOf["initializing"]
    BY DEF StagesOf
  <2> QED
    BY <1>1, <1>2, <1>4, <2>1, ExchangeFailsKnown DEF ReadCsd
<1> QED
  BY <1>3, <1>4 DEF ReadCsd

LEMMA HighSpeedStep ==
  ASSUME Inv, HighSpeed, UNCHANGED <<testVars, handVars>>
  PROVE  Inv'
<1>1. /\ at = "spi_high_speed" /\ at \in InitializationSteps
      /\ InitializationIn /\ Elsewhere
  BY InInitialization
  DEF HighSpeed, InitializationSteps, Elsewhere, checksums
<1>2. /\ CardOK' /\ illegal' = FALSE /\ outside' = FALSE /\ DriverTypes'
  BY <1>1
  DEF HighSpeed, InitializationIn, CardOK, cardVars, spiVars, DriverTypes
<1>3. CASE Continue("returned")
  <2>1. at' = "returned" /\ outcome' = "ok"
    BY <1>1, <1>3 DEF Continue, InitializationIn
  <2>2. CardReached'
    BY <1>1, <2>1
    DEF CardReached, Initialization, Elsewhere, testVars, InitializationIn,
        OnBlocks, Inv, Initialized, AddressFits, HighSpeed, cardVars
  <2> QED
    BY <1>1, <1>2, <1>3, <2>2, InitializationGoesOn
<1>4. CASE Fail("spi_high_speed", "spi_prescaler_change_failed")
  <2>1. Failed(StagesOf["initializing"])
    BY <1>1, <1>4, FailNamed
    DEF InitializationIn, Failed, StagesOf, Stages, Reasons, Working, Operation
  <2> QED
    BY <1>1, <1>2, <2>1, InitializationFails
<1> QED
  BY <1>3, <1>4 DEF HighSpeed
-----------------------------------------------------------------------------
(***************************************************************************)
(* Steps on a block.                                                       *)
(***************************************************************************)
BlockCall ==
  /\ active /\ state \in OnBlocks /\ at = Operation[state]
  /\ outcome = "none" /\ last_failure = NoFailure
  /\ current_block \in Block
  /\ CardOK /\ illegal = FALSE /\ outside = FALSE
  /\ socket.mode # "idle"
  /\ Initialized => AddressFits /\ socket.block_length

LEMMA InBlockCall ==
  ASSUME Inv, at \in {"write", "verify", "clear"}
  PROVE  BlockCall
<1>1. /\ active /\ outcome = "none" /\ last_failure = NoFailure
      /\ state \in Working /\ at \in StepsOf[state]
  BY DEF Inv, CallAgrees
<1>2. state \in OnBlocks /\ at = Operation[state]
  BY <1>1 DEF Working, Operation, StepsOf, InitializationSteps, OnBlocks
<1>3. Initialization
  BY <1>1, <1>2 DEF Initialization
<1>4. current_block \in Block
  BY <1>1, <1>2, DriverConstants DEF Inv, TypeOK, BlocksAgree, Block
<1> QED
  BY <1>1, <1>2, <1>3, <1>4 DEF Inv, TypeOK, CardReached, BlockCall

Recorded(names) ==
  \/ Failed(names)
  \/ at' = "returned" /\ outcome' = "ok" /\ last_failure' = NoFailure

LEMMA BlockCallEnds ==
  ASSUME Inv, BlockCall, UNCHANGED <<testVars, handVars, spiVars>>,
         UNCHANGED <<version_two, high_capacity>>,
         write_checksum' \in Seq(Int), verify_checksum' \in Seq(Int),
         CardOK', illegal' = FALSE, outside' = FALSE,
         socket'.kind = socket.kind, socket'.mode = socket.mode,
         socket'.block_length = socket.block_length,
         Recorded(StagesOf[state]), ContentsKnown'
  PROVE  Inv'
<1>1. UNCHANGED <<active, state, matching_polls, current_block, poll_due,
                  result, contact, inserted_polls, tests, moves, device,
                  ready, prescaler>>
  BY DEF testVars, handVars, spiVars
<1>2. /\ at' = "returned" /\ outcome' \in {"ok", "failed"}
      /\ last_failure' \in {NoFailure} \cup (Stages \X Reasons)
      /\ outcome' = "failed" => last_failure'[1] \in StagesOf[state]
  BY DEF Recorded, Failed
<1>3. TypeOK'
  <2>1. TypeOK
    BY DEF Inv
  <2>2. at' \in DriverSteps
    BY <1>2 DEF DriverSteps
  <2>3. outcome' \in {"none", "ok", "failed"}
    BY <1>2
  <2>4. /\ version_two' \in BOOLEAN /\ high_capacity' \in BOOLEAN
        /\ device' \in BOOLEAN /\ ready' \in BOOLEAN
        /\ prescaler' \in {"slow", "fast"}
    BY <1>1, <2>1 DEF TypeOK
  <2>5. /\ active' \in BOOLEAN /\ poll_due' \in BOOLEAN
        /\ contact' \in BOOLEAN
        /\ state' \in Before \cup Working \cup {"complete", "failed"}
        /\ matching_polls' \in Nat /\ current_block' \in 0 .. BlockCount
        /\ inserted_polls' \in 0 .. StablePolls
        /\ tests' \in 0 .. MaxTests /\ moves' \in 0 .. MaxMoves
    BY <1>1, <2>1 DEF TypeOK
  <2>6. illegal' \in BOOLEAN /\ outside' \in BOOLEAN
    OBVIOUS
  <2> QED
    BY <1>1, <1>2, <2>1, <2>2, <2>3, <2>4, <2>5, <2>6 DEF TypeOK
<1>4. CallAgrees'
  BY <1>1, <1>2 DEF CallAgrees, BlockCall, OnBlocks, Working, Operation
<1>5. BlocksAgree' /\ PollsAgree'
  BY <1>1 DEF Inv, BlocksAgree, PollsAgree
<1>6. CardReached'
  BY <1>1, <1>2
  DEF CardReached, BlockCall, Initialization, Initialized, AddressFits
<1> QED
  BY <1>3, <1>4, <1>5, <1>6 DEF Inv

LEMMA LegalOnBlock ==
  ASSUME BlockCall, NEW command \in BlockCommands,
         NEW answer \in Answers(command)
  PROVE  /\ Legal(command)
         /\ Initialized => answer = "ready"
         /\ ~Initialized => answer = "none"
<1>1. socket.mode \in {"absent", "native", "ready"}
  BY DEF BlockCall, CardOK, Cards
<1>2. command \notin {"cmd0", "acmd41"}
  BY DEF BlockCommands
<1> QED
  BY <1>1, <1>2, AnswerModes DEF BlockCall, Legal, Initialized

LEMMA CardStored ==
  ASSUME CardOK, NEW block \in Block, NEW content \in Contents
  PROVE  LET card == Stores(socket, block, content)
         IN  /\ card \in Cards
             /\ card.kind = socket.kind /\ card.mode = socket.mode
             /\ card.block_length = socket.block_length
             /\ card.data = [socket.data EXCEPT ![Place(block)] = content]
             /\ card.data \in [0 .. card.kind.places - 1 -> Contents]
<1>1. socket.kind.places \in 1 .. BlockCount
  BY DriverConstants DEF CardOK, Cards
<1>2. Place(block) \in 0 .. socket.kind.places - 1
  <2>1. block \in Nat
    BY DriverConstants DEF Block
  <2> QED
    BY <1>1, <2>1, PlaceOnCard DEF Place
<1>3. [socket.data EXCEPT ![Place(block)] = content]
        \in [0 .. socket.kind.places - 1 -> Contents]
  BY <1>2 DEF CardOK
<1>4. Stores(socket, block, content) =
        [socket EXCEPT !.data = [socket.data EXCEPT ![Place(block)] = content],
                       !.app = FALSE]
  BY DEF Stores, Place
<1> DEFINE data == [socket.data EXCEPT ![Place(block)] = content]
<1> HIDE DEF data
<1>5. /\ data \in [0 .. socket.kind.places - 1 -> Contents]
      /\ Stores(socket, block, content) =
           [socket EXCEPT !.data = data, !.app = FALSE]
  BY <1>3, <1>4 DEF data
<1>6. /\ Stores(socket, block, content) \in Cards
      /\ Stores(socket, block, content).kind = socket.kind
      /\ Stores(socket, block, content).mode = socket.mode
      /\ Stores(socket, block, content).block_length = socket.block_length
      /\ Stores(socket, block, content).data = data
  BY <1>1, <1>5 DEF CardOK, Cards
<1> QED
  BY <1>5, <1>6 DEF data

(***************************************************************************)
(* A block is written, or the call fails with its stage.                   *)
(***************************************************************************)
Written(content) ==
  \E stored \in {content, Old} :
    socket'.data = [socket.data EXCEPT ![Place(current_block)] = stored]

LEMMA WriteKnown ==
  ASSUME BlockCall, NEW stage \in StagesOf[state], NEW content \in Contents,
         WriteBlock(stage, current_block, content)
  PROVE  /\ CardOK' /\ illegal' = FALSE /\ outside' = FALSE
         /\ socket'.kind = socket.kind /\ socket'.mode = socket.mode
         /\ socket'.block_length = socket.block_length
         /\ Recorded(StagesOf[state])
         /\ outcome' = "ok" => Written(content)
<1> DEFINE Same(card) ==
      /\ card \in Cards
      /\ card.data \in [0 .. card.kind.places - 1 -> Contents]
      /\ card.kind = socket.kind /\ card.mode = socket.mode
      /\ card.block_length = socket.block_length
<1>1. /\ Same(socket)
      /\ \A stored \in Contents : Same(Stores(socket, current_block, stored))
  BY CardStored DEF BlockCall, CardOK
<1>2. ASSUME Same(socket')
      PROVE  /\ CardOK'
             /\ socket'.kind = socket.kind /\ socket'.mode = socket.mode
             /\ socket'.block_length = socket.block_length
  BY <1>2 DEF CardOK, BlockCall
<1>3. stage \in Stages
  BY DEF Stages, BlockCall, OnBlocks, Working, Operation
<1>4. ASSUME NEW reason \in Reasons, Fail(stage, reason)
      PROVE  Failed(StagesOf[state]) /\ outcome' # "ok"
  BY <1>3, <1>4, FailNamed DEF BlockCall, Failed
<1>5. ASSUME NEW reason \in ExchangeFaults("cmd24"), Fail(stage, reason),
             UNCHANGED cardVars
      PROVE  /\ Same(socket') /\ illegal' = FALSE /\ outside' = FALSE
             /\ Failed(StagesOf[state]) /\ outcome' # "ok"
  <2>1. reason \in Reasons
    BY <1>5 DEF ExchangeFaults, Reasons, IfUnset
  <2> QED
    BY <1>1, <1>4, <1>5, <2>1 DEF cardVars, BlockCall
<1>6. ASSUME NEW answer \in Answers("cmd24"),
             NEW received \in Received(answer),
             illegal' = (illegal \/ ~Legal("cmd24"))
      PROVE  /\ illegal' = FALSE
             /\ received = "ready" => Initialized
  <2>1. "cmd24" \in BlockCommands
    BY DEF BlockCommands
  <2> QED
    BY <1>6, <2>1, LegalOnBlock DEF BlockCall, Received
<1>7. ASSUME Initialized, outside' = (outside \/ ~AddressFits)
      PROVE  outside' = FALSE
  BY <1>7 DEF BlockCall
<1>8. ASSUME NEW stored \in {content, Old}, Continue("returned"),
             socket' = Stores(socket, current_block, stored)
      PROVE  /\ Same(socket') /\ Written(content)
             /\ Recorded(StagesOf[state])
  <2>1. stored \in Contents
    BY <1>8, DriverConstants DEF Contents, Old
  <2>2. socket'.data = [socket.data EXCEPT ![Place(current_block)] = stored]
    BY <1>8, <2>1, CardStored DEF BlockCall
  <2>3. Recorded(StagesOf[state])
    BY <1>8 DEF Continue, Recorded, BlockCall
  <2> QED
    BY <1>1, <1>8, <2>1, <2>2, <2>3 DEF Written
<1>9. ASSUME NEW answer \in Answers("cmd24"),
             NEW received \in Received(answer),
             illegal' = (illegal \/ ~Legal("cmd24")),
             IF received = "ready"
             THEN /\ outside' = (outside \/ ~AddressFits)
                  /\ \/ /\ Continue("returned")
                        /\ \E stored \in IF Faults THEN {content, Old}
                                                   ELSE {content} :
                             socket' = Stores(socket, current_block, stored)
                     \/ /\ \E reason \in {"card_busy_timeout",
                                          "sector_data_transfer_failed",
                                          "spi_transfer_failed",
                                          "write_rejected_data_response"} :
                             Fail(stage, reason)
                        /\ socket' \in
                             {socket, Stores(socket, current_block, content)}
             ELSE /\ Fail(stage, IF received = "none" THEN "no_r1_response"
                                 ELSE "unexpected_r1_response")
                  /\ UNCHANGED <<socket, outside>>
      PROVE  /\ Same(socket') /\ illegal' = FALSE /\ outside' = FALSE
             /\ Recorded(StagesOf[state])
             /\ outcome' = "ok" => Written(content)
  <2>1. CASE received # "ready"
    <3>1. /\ Fail(stage, IF received = "none" THEN "no_r1_response"
                         ELSE "unexpected_r1_response")
          /\ UNCHANGED <<socket, outside>>
      BY <1>9, <2>1
    <3>2. (IF received = "none" THEN "no_r1_response"
           ELSE "unexpected_r1_response") \in Reasons
      BY DEF Reasons, IfUnset
    <3>3. Failed(StagesOf[state]) /\ outcome' # "ok"
      BY <1>4, <3>1, <3>2
    <3> QED
      BY <1>1, <1>6, <1>9, <3>1, <3>3 DEF BlockCall, Recorded
  <2>2. CASE received = "ready"
    <3>1. outside' = FALSE /\ illegal' = FALSE
      BY <1>6, <1>7, <1>9, <2>2
    <3>2. ASSUME NEW reason \in {"card_busy_timeout",
                                 "sector_data_transfer_failed",
                                 "spi_transfer_failed",
                                 "write_rejected_data_response"},
                 Fail(stage, reason),
                 socket' \in {socket, Stores(socket, current_block, content)}
          PROVE  /\ Same(socket') /\ Recorded(StagesOf[state])
                 /\ outcome' # "ok"
      <4>1. reason \in Reasons
        BY <3>2 DEF Reasons, IfUnset
      <4> QED
        BY <1>1, <1>4, <3>2, <4>1 DEF Recorded
    <3> QED
      BY <1>8, <1>9, <2>2, <3>1, <3>2
  <2> QED
    BY <2>1, <2>2
<1> QED
  BY <1>2, <1>5, <1>9 DEF WriteBlock, Recorded

LEMMA SummedOK ==
  ASSUME NEW checksum \in Seq(Int), NEW block, NEW content \in Int
  PROVE  Summed(checksum, block, content) \in Seq(Int)
<1>1. << >> \in Seq(Int) /\ <<content>> \in Seq(Int)
  OBVIOUS
<1>2. (IF block = 0 THEN << >> ELSE checksum) \in Seq(Int)
  BY <1>1
<1> QED
  BY <1>1, <1>2 DEF Summed

LEMMA PatternOK ==
  ASSUME NEW block \in Block
  PROVE  /\ Pattern(block) \in Contents /\ Pattern(block) \in Int
         /\ Pattern(block) # Old /\ Pattern(block) # Erased
         /\ Erased \in Contents /\ Old \in Contents
BY DriverConstants DEF Pattern, Contents, Old, Erased, Block

LEMMA WriteTestBlockStep ==
  ASSUME Inv, WriteTestBlock(current_block), UNCHANGED <<testVars, handVars>>
  PROVE  Inv'
<1>1. BlockCall /\ state = "writing"
  BY InBlockCall
  DEF WriteTestBlock, BlockCall, OnBlocks, Operation
<1>2. /\ WriteBlock("cmd24_write_test_sector", current_block,
                    Pattern(current_block))
      /\ UNCHANGED <<version_two, high_capacity, spiVars>>
      /\ "cmd24_write_test_sector" \in StagesOf[state]
      /\ Pattern(current_block) \in Contents
      /\ Pattern(current_block) \in Int
  BY <1>1, PatternOK DEF WriteTestBlock, StagesOf, BlockCall
<1>3. write_checksum' \in Seq(Int) /\ verify_checksum' \in Seq(Int)
  BY <1>2, SummedOK DEF WriteTestBlock, Inv, TypeOK
<1>4. ContentsKnown'
  BY <1>1 DEF ContentsKnown, testVars
<1> QED
  BY <1>1, <1>2, <1>3, <1>4, WriteKnown, BlockCallEnds

LEMMA ClearTestBlockStep ==
  ASSUME Inv, ClearTestBlock(current_block), UNCHANGED <<testVars, handVars>>
  PROVE  Inv'
<1>1. BlockCall /\ state = "cleaning_up"
  BY InBlockCall
  DEF ClearTestBlock, BlockCall, OnBlocks, Operation
<1>2. /\ WriteBlock("cmd24_clear_test_sector", current_block, Erased)
      /\ UNCHANGED <<version_two, high_capacity, spiVars>>
      /\ "cmd24_clear_test_sector" \in StagesOf[state]
      /\ Erased \in Contents
  BY <1>1, PatternOK DEF ClearTestBlock, StagesOf, BlockCall
<1>3. write_checksum' \in Seq(Int) /\ verify_checksum' \in Seq(Int)
  BY DEF ClearTestBlock, checksums, Inv, TypeOK
<1>4. /\ CardOK' /\ illegal' = FALSE /\ outside' = FALSE
      /\ socket'.kind = socket.kind /\ socket'.mode = socket.mode
      /\ socket'.block_length = socket.block_length
      /\ Recorded(StagesOf[state])
      /\ outcome' = "ok" => Written(Erased)
  BY <1>1, <1>2, WriteKnown
<1>5. /\ active' = active /\ state' = state /\ current_block' = current_block
  BY DEF testVars
<1>6. ASSUME Initialized', outcome' = "ok"
      PROVE  /\ socket'.kind.places = BlockCount
             /\ \A block \in Block :
                  IF block < current_block + 1
                  THEN socket'.data[block] \in {Erased, Old}
                  ELSE socket'.data[block] = Pattern(block)
  <2>1. /\ socket.kind.places = BlockCount
        /\ \A block \in Block :
             IF block < current_block
             THEN socket.data[block] \in {Erased, Old}
             ELSE socket.data[block] = Pattern(block)
    BY <1>1, <1>4, <1>6
    DEF Inv, ContentsKnown, Done, BlockCall, Initialized
  <2>2. current_block \in Block /\ Place(current_block) = current_block
    BY <1>1, <2>1, PlaceOfFirst, DriverConstants DEF BlockCall, Place, Block
  <2>3. PICK stored \in {Erased, Old} :
          socket'.data = [socket.data EXCEPT ![current_block] = stored]
    BY <1>4, <1>6, <2>2 DEF Written
  <2>4. socket.data \in [Block -> Contents]
    BY <1>1, <2>1 DEF BlockCall, CardOK, Block
  <2>5. ASSUME NEW block \in Block
        PROVE  IF block < current_block + 1
               THEN socket'.data[block] \in {Erased, Old}
               ELSE socket'.data[block] = Pattern(block)
    <3>1. CASE block = current_block
      BY <2>2, <2>3, <2>4, <3>1, DriverConstants DEF Block
    <3>2. CASE block # current_block
      <4>1. socket'.data[block] = socket.data[block]
        BY <2>2, <2>3, <2>4, <3>2
      <4>2. block < current_block + 1 <=> block < current_block
        BY <2>2, <3>2, DriverConstants DEF Block
      <4> QED
        BY <2>1, <4>1, <4>2
    <3> QED
      BY <3>1, <3>2
  <2> QED
    BY <1>4, <2>1, <2>5
<1>7. outcome' \in {"ok", "failed"}
  BY <1>4 DEF Recorded, Failed
<1>8. ContentsKnown'
  BY <1>1, <1>5, <1>6, <1>7 DEF ContentsKnown, Done
<1> QED
  BY <1>1, <1>2, <1>3, <1>4, <1>8, BlockCallEnds

(***************************************************************************)
(* A block is compared, or the call fails with its stage.                  *)
(***************************************************************************)
LEMMA VerifyTestBlockStep ==
  ASSUME Inv, VerifyTestBlock(current_block), UNCHANGED <<testVars, handVars>>
  PROVE  Inv'
<1>1. BlockCall /\ state = "verifying"
  BY InBlockCall
  DEF VerifyTestBlock, BlockCall, OnBlocks, Operation
<1>2. /\ ReadBlock(current_block)
      /\ UNCHANGED <<write_checksum, version_two, high_capacity, spiVars>>
      /\ ReadStage \in StagesOf[state] /\ ReadStage \in Stages
  BY <1>1
  DEF VerifyTestBlock, StagesOf, ReadStage, Stages, Working, Operation
<1>3. write_checksum' \in Seq(Int) /\ verify_checksum \in Seq(Int)
  BY <1>2 DEF Inv, TypeOK
<1>4. ASSUME NEW reason \in Reasons, Fail(ReadStage, reason)
      PROVE  Failed(StagesOf[state]) /\ outcome' # "ok"
  BY <1>1, <1>2, <1>4, FailNamed DEF BlockCall, Failed
<1> DEFINE Right == socket.data[Place(current_block)] = Pattern(current_block)
<1>5. ASSUME NEW read \in {socket.data[Place(current_block)], Old},
             CompareBlock(current_block, read)
      PROVE  /\ verify_checksum' \in Seq(Int)
             /\ Recorded(StagesOf[state])
             /\ outcome' = "ok" => Right
  <2>1. Pattern(current_block) # Old /\ Pattern(current_block) \in Int
    BY <1>1, PatternOK DEF BlockCall
  <2>2. CASE read # Pattern(current_block)
    <3>1. /\ Fail(ReadStage, "read_back_mismatch")
          /\ UNCHANGED verify_checksum
      BY <1>5, <2>2 DEF CompareBlock
    <3>2. "read_back_mismatch" \in Reasons
      BY DEF Reasons
    <3> QED
      BY <1>3, <1>4, <3>1, <3>2 DEF Recorded
  <2>3. CASE read = Pattern(current_block)
    <3>1. verify_checksum' = Summed(verify_checksum, current_block, read)
      BY <1>5, <2>3 DEF CompareBlock
    <3>2. verify_checksum' \in Seq(Int)
      BY <1>3, <2>1, <2>3, <3>1, SummedOK
    <3>3. Right
      BY <1>5, <2>1, <2>3
    <3>4. Fail(ReadStage, "checksum_mismatch") \/ Continue("returned")
      BY <1>5, <2>3 DEF CompareBlock
    <3>5. "checksum_mismatch" \in Reasons
      BY DEF Reasons
    <3>6. Recorded(StagesOf[state])
      BY <1>1, <1>4, <3>4, <3>5 DEF Recorded, Continue, BlockCall
    <3> QED
      BY <3>2, <3>3, <3>6
  <2> QED
    BY <2>2, <2>3
<1>6. ASSUME NEW answer \in Answers("cmd17"),
             NEW received \in Received(answer),
             illegal' = (illegal \/ ~Legal("cmd17"))
      PROVE  /\ illegal' = FALSE
             /\ received = "ready" => Initialized
  <2>1. "cmd17" \in BlockCommands
    BY DEF BlockCommands
  <2> QED
    BY <1>1, <1>6, <2>1, LegalOnBlock DEF BlockCall, Received
<1>7. ASSUME Initialized, outside' = (outside \/ ~AddressFits)
      PROVE  outside' = FALSE
  BY <1>1, <1>7 DEF BlockCall
<1>8. /\ socket' = socket /\ illegal' = FALSE /\ outside' = FALSE
      /\ verify_checksum' \in Seq(Int)
      /\ Recorded(StagesOf[state])
      /\ outcome' = "ok" => Right
  <2>1. CASE /\ \E reason \in ExchangeFaults("cmd17") : Fail(ReadStage, reason)
             /\ UNCHANGED <<cardVars, verify_checksum>>
    <3>1. PICK reason \in ExchangeFaults("cmd17") : Fail(ReadStage, reason)
      BY <2>1
    <3>2. reason \in Reasons
      BY <3>1 DEF ExchangeFaults, Reasons, IfUnset
    <3> QED
      BY <1>1, <1>3, <1>4, <2>1, <3>1, <3>2 DEF cardVars, BlockCall, Recorded
  <2>2. ASSUME NEW answer \in Answers("cmd17"),
               NEW received \in Received(answer),
               illegal' = (illegal \/ ~Legal("cmd17")), UNCHANGED socket,
               IF received = "ready"
               THEN /\ outside' = (outside \/ ~AddressFits)
                    /\ \/ \E read \in {socket.data[Place(current_block)]}
                                      \cup (IF Faults THEN {Old} ELSE {}) :
                            CompareBlock(current_block, read)
                       \/ /\ \E reason \in {"unexpected_data_token",
                                            "spi_transfer_failed"} :
                               Fail(ReadStage, reason)
                          /\ UNCHANGED verify_checksum
               ELSE /\ Fail(ReadStage,
                            IF received = "none" THEN "no_r1_response"
                            ELSE "unexpected_r1_response")
                    /\ UNCHANGED <<outside, verify_checksum>>
        PROVE  /\ socket' = socket /\ illegal' = FALSE /\ outside' = FALSE
               /\ verify_checksum' \in Seq(Int)
               /\ Recorded(StagesOf[state])
               /\ outcome' = "ok" => Right
    <3>1. CASE received # "ready"
      <4>1. /\ Fail(ReadStage, IF received = "none" THEN "no_r1_response"
                               ELSE "unexpected_r1_response")
            /\ UNCHANGED <<outside, verify_checksum>>
        BY <2>2, <3>1
      <4>2. (IF received = "none" THEN "no_r1_response"
             ELSE "unexpected_r1_response") \in Reasons
        BY DEF Reasons, IfUnset
      <4>3. Failed(StagesOf[state]) /\ outcome' # "ok"
        BY <1>4, <4>1, <4>2
      <4> QED
        BY <1>1, <1>3, <1>6, <2>2, <4>1, <4>3 DEF BlockCall, Recorded
    <3>2. CASE received = "ready"
      <4>1. outside' = FALSE /\ illegal' = FALSE
        BY <1>6, <1>7, <2>2, <3>2
      <4>2. ASSUME NEW reason \in {"unexpected_data_token",
                                   "spi_transfer_failed"},
                   Fail(ReadStage, reason), UNCHANGED verify_checksum
            PROVE  /\ verify_checksum' \in Seq(Int)
                   /\ Recorded(StagesOf[state]) /\ outcome' # "ok"
        <5>1. reason \in Reasons
          BY <4>2 DEF Reasons, IfUnset
        <5> QED
          BY <1>3, <1>4, <4>2, <5>1 DEF Recorded
      <4> QED
        BY <1>5, <2>2, <3>2, <4>1, <4>2
    <3> QED
      BY <3>1, <3>2
  <2> QED
    BY <1>2, <2>1, <2>2 DEF ReadBlock
<1>9. /\ active' = active /\ state' = state /\ current_block' = current_block
  BY DEF testVars
<1>10. ContentsKnown'
  <2>1. CASE outcome' = "failed"
    BY <1>1, <1>8, <1>9, <2>1
    DEF ContentsKnown, Inv, Done, BlockCall, Initialized, Place
  <2>2. CASE outcome' = "ok"
    <3>1. ASSUME Initialized', NEW block \in 0 .. current_block
          PROVE  socket.data[Place(block)] = Pattern(block)
      <4>1. \A b \in 0 .. current_block - 1 :
              socket.data[Place(b)] = Pattern(b)
        BY <1>1, <1>8, <3>1
        DEF ContentsKnown, Inv, Done, BlockCall, Initialized
      <4>2. block \in 0 .. current_block - 1 \/ block = current_block
        BY <1>1, DriverConstants DEF BlockCall, Block
      <4> QED
        BY <1>8, <2>2, <4>1, <4>2
    <3>2. Done' - 1 = current_block
      BY <1>1, <1>9, <2>2, DriverConstants DEF BlockCall, Block, Done
    <3>3. ASSUME Initialized', NEW block \in 0 .. Done' - 1
          PROVE  socket'.data[Place(block)'] = Pattern(block)
      BY <1>8, <3>1, <3>2, <3>3 DEF Place
    <3> QED
      BY <1>1, <1>9, <3>3 DEF ContentsKnown
  <2>3. outcome' \in {"ok", "failed"}
    BY <1>8 DEF Recorded, Failed
  <2> QED
    BY <2>1, <2>2, <2>3
<1>11. CardOK'
  BY <1>1, <1>8 DEF BlockCall, CardOK
<1> QED
  BY <1>1, <1>2, <1>3, <1>8, <1>10, <1>11, BlockCallEnds

LEMMA DriveStep ==
  ASSUME Inv, Drive
  PROVE  Inv'
BY SpiInitializationStep, InitialClocksStep, GoIdleStep,
   InterfaceConditionStep, ApplicationPrefixStep, SendOpCondStep, ReadOcrStep,
   SetBlockLengthStep, ReadCsdStep, HighSpeedStep, WriteTestBlockStep,
   VerifyTestBlockStep, ClearTestBlockStep
DEF Drive, DriverStep
-----------------------------------------------------------------------------
(***************************************************************************)
(* The operator's hand.                                                    *)
(***************************************************************************)
LEMMA HandStep ==
  ASSUME Inv, Hand
  PROVE  Inv'
<1>1. /\ UNCHANGED <<at, outcome, last_failure, version_two, high_capacity,
                     write_checksum, verify_checksum, device, ready, prescaler,
                     illegal, outside, active, state, matching_polls,
                     current_block, poll_due, result, inserted_polls, tests>>
      /\ contact' \in BOOLEAN
      /\ moves' \in 0 .. MaxMoves
  <2>1. moves \in 0 .. MaxMoves /\ contact \in BOOLEAN
    BY DEF Inv, TypeOK
  <2>2. CASE Insert
    BY <2>1, <2>2, TestConstants
    DEF Insert, driverVars, spiVars, testVars
  <2>3. CASE Remove
    BY <2>1, <2>3, TestConstants DEF Remove, driverVars, spiVars
  <2>4. CASE Settle
    BY <2>1, <2>4
    DEF Settle, allDriverVars, cardVars, driverVars, spiVars, testVars
  <2> QED
    BY <2>2, <2>3, <2>4 DEF Hand
<1>2. CardOK' /\ (socket' = socket \/ socket'.mode \in {"absent", "native"})
  BY FreshCardOK, NoCardOK
  DEF Hand, Insert, Remove, Settle, allDriverVars, cardVars, CardOK, Inv,
      TypeOK
<1>3. TypeOK'
  BY <1>1, <1>2 DEF Inv, TypeOK
<1>4. CallAgrees' /\ BlocksAgree' /\ PollsAgree'
  BY <1>1 DEF Inv, CallAgrees, BlocksAgree, PollsAgree
<1>5. CardReached'
  BY <1>1, <1>2
  DEF Inv, CardReached, Initialization, Initialized, AddressFits
<1>6. ContentsKnown'
  BY <1>1, <1>2 DEF Inv, ContentsKnown, Initialized, Done, Place
<1> QED
  BY <1>1, <1>3, <1>4, <1>5, <1>6 DEF Inv
-----------------------------------------------------------------------------
(***************************************************************************)
(* Steps of the test between two calls of the driver.                      *)
(***************************************************************************)
LEMMA StartStep ==
  ASSUME Inv, Start
  PROVE  Inv'
<1>1. /\ UNCHANGED <<at, outcome, last_failure, version_two, high_capacity,
                     write_checksum, verify_checksum, device, ready, prescaler,
                     socket, illegal, outside, contact, moves>>
      /\ ~active /\ active' = TRUE /\ matching_polls' = 0 /\ current_block' = 0
      /\ poll_due' = TRUE /\ result' = "none" /\ inserted_polls' = 0
      /\ state' \in {"announce_removal", "announce_insertion"}
      /\ tests' \in 0 .. MaxTests
  BY TestConstants
  DEF Start, allDriverVars, driverVars, spiVars, cardVars, handVars, Inv,
      TypeOK
<1>2. at = "returned" /\ outcome = "none"
  BY <1>1 DEF Inv, CallAgrees, TypeOK
<1>3. TypeOK'
  <2>1. TypeOK
    BY DEF Inv
  <2>2. CardOK'
    BY <1>1, <2>1 DEF CardOK, TypeOK
  <2>3. /\ state' \in Before \cup Working \cup {"complete", "failed"}
        /\ current_block' \in 0 .. BlockCount
        /\ inserted_polls' \in 0 .. StablePolls
    BY <1>1, TestConstants, DriverConstants DEF Before
  <2> QED
    BY <1>1, <2>1, <2>2, <2>3 DEF TypeOK
<1>4. CallAgrees' /\ BlocksAgree' /\ PollsAgree'
  BY <1>1, <1>2, TestConstants
  DEF CallAgrees, BlocksAgree, PollsAgree, OnBlocks, Working, Operation
<1>5. CardReached'
  BY <1>1, <1>2 DEF CardReached, Initialization, OnBlocks
<1>6. ContentsKnown'
  BY <1>1 DEF ContentsKnown
<1> QED
  BY <1>1, <1>3, <1>4, <1>5, <1>6 DEF Inv

LEMMA PollTimerStep ==
  ASSUME Inv, PollTimer
  PROVE  Inv'
<1>1. /\ UNCHANGED <<at, outcome, last_failure, version_two, high_capacity,
                     write_checksum, verify_checksum, device, ready, prescaler,
                     socket, illegal, outside, contact, moves, active, state,
                     matching_polls, current_block, result, inserted_polls,
                     tests>>
      /\ poll_due' = TRUE
  BY DEF PollTimer, allDriverVars, driverVars, spiVars, cardVars, handVars
<1>2. TypeOK'
  BY <1>1 DEF Inv, TypeOK, CardOK
<1>3. CallAgrees' /\ BlocksAgree' /\ PollsAgree'
  BY <1>1 DEF Inv, CallAgrees, BlocksAgree, PollsAgree
<1>4. CardReached' /\ ContentsKnown'
  BY <1>1
  DEF Inv, CardReached, Initialization, Initialized, AddressFits,
      ContentsKnown, Done, Place
<1> QED
  BY <1>1, <1>2, <1>3, <1>4 DEF Inv

LEMMA AnnounceStep ==
  ASSUME Inv, Announce
  PROVE  Inv'
<1>1. /\ UNCHANGED <<at, outcome, last_failure, version_two, high_capacity,
                     write_checksum, verify_checksum, device, ready, prescaler,
                     socket, illegal, outside, contact, moves, active,
                     matching_polls, current_block, poll_due, inserted_polls,
                     tests>>
      /\ active /\ at = "returned" /\ outcome = "none"
      /\ \/ /\ state = "announce_removal" /\ state' = "waiting_for_removal"
            /\ result' = "sd_card_remove_required"
         \/ /\ state = "announce_insertion" /\ state' = "waiting_for_insertion"
            /\ result' = "sd_card_insert_required"
  BY DEF Announce, Calls, Returns, allDriverVars, driverVars, spiVars,
         cardVars, handVars
<1>2. TypeOK'
  BY <1>1 DEF Inv, TypeOK, CardOK, Before
<1>3. CallAgrees' /\ BlocksAgree' /\ PollsAgree'
  BY <1>1
  DEF Inv, CallAgrees, BlocksAgree, PollsAgree, Before, OnBlocks, Working,
      Operation
<1>4. CardReached' /\ ContentsKnown'
  BY <1>1 DEF CardReached, Initialization, ContentsKnown, OnBlocks
<1> QED
  BY <1>1, <1>2, <1>3, <1>4 DEF Inv

LEMMA PollsCounted ==
  ASSUME Inv, Poll
  PROVE  /\ poll_due' = FALSE
         /\ active /\ at = "returned" /\ outcome = "none"
         /\ inserted_polls' \in 0 .. StablePolls
         /\ ~contact => inserted_polls' = 0
         /\ contact /\ inserted_polls < StablePolls
              => inserted_polls' = inserted_polls + 1
BY TestConstants DEF Poll, Calls, Inv, TypeOK

LEMMA PollRemovalStep ==
  ASSUME Inv, PollRemoval
  PROVE  Inv'
<1>1. /\ UNCHANGED <<at, outcome, last_failure, version_two, high_capacity,
                     write_checksum, verify_checksum, device, ready, prescaler,
                     socket, illegal, outside, contact, moves, active,
                     current_block, tests>>
      /\ state = "waiting_for_removal"
      /\ active /\ at = "returned" /\ outcome = "none"
      /\ poll_due' = FALSE /\ inserted_polls' \in 0 .. StablePolls
  BY PollsCounted
  DEF PollRemoval, allDriverVars, driverVars, spiVars, cardVars, handVars
<1>2. \/ /\ state' = "announce_insertion" /\ result' = "sd_card_removed"
         /\ matching_polls' = 0 /\ inserted_polls' = 0
      \/ /\ state' = "waiting_for_removal" /\ result' = "running"
         /\ matching_polls' \in Nat
  <2>1. Stable(FALSE) => ~contact
    BY TestConstants DEF Stable, Matching, Inv, TypeOK
  <2>2. Matching(FALSE) \in Nat
    BY DEF Matching, Inv, TypeOK
  <2> QED
    BY <2>1, <2>2, PollsCounted DEF PollRemoval, ResetPolls, Returns
<1>3. TypeOK'
  <2>1. /\ state' \in Before \cup Working \cup {"complete", "failed"}
        /\ matching_polls' \in Nat
    BY <1>2 DEF Before
  <2>2. TypeOK
    BY DEF Inv
  <2>3. CardOK'
    BY <1>1, <2>2 DEF TypeOK, CardOK
  <2>4. result' \in {"none", "running", "passed", "failed",
                     "component_failure", "sd_card_remove_required",
                     "sd_card_removed", "sd_card_insert_required",
                     "sd_card_detected", "sd_card_initialized",
                     "sd_card_written", "sd_card_verified", "sd_card_cleaned_up"}
    BY <1>2
  <2> QED
    BY <1>1, <2>1, <2>2, <2>3, <2>4 DEF TypeOK
<1>4. CallAgrees' /\ BlocksAgree' /\ PollsAgree'
  BY <1>1, <1>2, TestConstants
  DEF Inv, CallAgrees, BlocksAgree, PollsAgree, Before, OnBlocks, Working,
      Operation
<1>5. CardReached' /\ ContentsKnown'
  BY <1>1, <1>2 DEF CardReached, Initialization, ContentsKnown, OnBlocks
<1> QED
  BY <1>1, <1>3, <1>4, <1>5 DEF Inv

LEMMA PollInsertionStep ==
  ASSUME Inv, PollInsertion
  PROVE  Inv'
<1>1. /\ UNCHANGED <<at, outcome, last_failure, version_two, high_capacity,
                     write_checksum, verify_checksum, device, ready, prescaler,
                     socket, illegal, outside, contact, moves, active,
                     current_block, tests>>
      /\ state = "waiting_for_insertion"
      /\ active /\ at = "returned" /\ outcome = "none"
      /\ poll_due' = FALSE /\ inserted_polls' \in 0 .. StablePolls
  BY PollsCounted
  DEF PollInsertion, allDriverVars, driverVars, spiVars, cardVars, handVars
<1>2. /\ matching_polls' \in Nat /\ inserted_polls' = matching_polls'
      /\ \/ /\ state' = "initializing" /\ result' = "sd_card_detected"
            /\ matching_polls' = StablePolls
         \/ /\ state' = "waiting_for_insertion" /\ result' = "running"
            /\ matching_polls' < StablePolls
  <2>1. /\ inserted_polls = matching_polls /\ matching_polls < StablePolls
        /\ matching_polls \in Nat /\ contact \in BOOLEAN
    BY <1>1 DEF Inv, PollsAgree, TypeOK
  <2>2. /\ Matching(TRUE) \in Nat /\ Matching(TRUE) <= StablePolls
        /\ Matching(TRUE) = IF contact THEN matching_polls + 1 ELSE 0
    BY <2>1, TestConstants DEF Matching
  <2>3. /\ matching_polls' = Matching(TRUE)
        /\ \/ /\ Matching(TRUE) >= StablePolls
              /\ state' = "initializing" /\ result' = "sd_card_detected"
           \/ /\ ~(Matching(TRUE) >= StablePolls)
              /\ state' = "waiting_for_insertion" /\ result' = "running"
    BY <1>1 DEF PollInsertion, Stable, Returns
  <2>4. inserted_polls' = Matching(TRUE)
    <3>1. Poll
      BY DEF PollInsertion
    <3>2. /\ ~contact => inserted_polls' = 0
          /\ contact /\ inserted_polls < StablePolls
               => inserted_polls' = inserted_polls + 1
      BY <3>1, PollsCounted
    <3> QED
      BY <2>1, <2>2, <3>2
  <2>5. /\ Matching(TRUE) >= StablePolls => Matching(TRUE) = StablePolls
        /\ ~(Matching(TRUE) >= StablePolls) => Matching(TRUE) < StablePolls
    <3> DEFINE n == Matching(TRUE)
    <3>1. n \in Nat /\ n <= StablePolls
      BY <2>2
    <3> HIDE DEF n
    <3>2. /\ n >= StablePolls => n = StablePolls
          /\ ~(n >= StablePolls) => n < StablePolls
      BY <3>1, TestConstants
    <3> QED
      BY <3>2 DEF n
  <2> QED
    BY <2>2, <2>3, <2>4, <2>5
<1>3. TypeOK'
  <2>1. state' \in Before \cup Working \cup {"complete", "failed"}
    BY <1>2 DEF Before, Working, Operation
  <2>2. TypeOK
    BY DEF Inv
  <2>3. CardOK'
    BY <1>1, <2>2 DEF TypeOK, CardOK
  <2>4. /\ result' \in {"none", "running", "passed", "failed",
                        "component_failure", "sd_card_remove_required",
                        "sd_card_removed", "sd_card_insert_required",
                        "sd_card_detected", "sd_card_initialized",
                        "sd_card_written", "sd_card_verified", "sd_card_cleaned_up"}
        /\ matching_polls' \in Nat /\ inserted_polls' \in 0 .. StablePolls
    BY <1>1, <1>2
  <2> QED
    BY <1>1, <2>1, <2>2, <2>3, <2>4 DEF TypeOK
<1>4. CallAgrees' /\ BlocksAgree' /\ PollsAgree'
  BY <1>1, <1>2, TestConstants
  DEF Inv, CallAgrees, BlocksAgree, PollsAgree, Before, OnBlocks, Working,
      Operation
<1>5. CardReached' /\ ContentsKnown'
  BY <1>1, <1>2 DEF CardReached, Initialization, ContentsKnown, OnBlocks
<1> QED
  BY <1>1, <1>3, <1>4, <1>5 DEF Inv

LEMMA OperateStep ==
  ASSUME Inv, Operate
  PROVE  Inv'
<1>1. /\ UNCHANGED <<version_two, high_capacity, write_checksum,
                     verify_checksum, device, ready, prescaler, socket,
                     illegal, outside, contact, moves, active, matching_polls,
                     current_block, poll_due, inserted_polls, tests>>
      /\ active /\ at = "returned" /\ outcome = "none" /\ state \in Working
      /\ outcome' = "none"
      /\ \/ /\ at' = Operation[state] /\ last_failure' = NoFailure
            /\ state' = state /\ result' = result
         \/ /\ at' = at /\ last_failure' = last_failure
            /\ state' = "failed" /\ result' = "component_failure"
  BY DEF Operate, Calls, Call, Returns, spiVars, cardVars, handVars,
         driverVars, checksums
<1>2. /\ Operation[state] \in
           {"spi_initialization", "write", "verify", "clear"}
      /\ Operation[state] \in StepsOf[state]
      /\ Operation[state] = "spi_initialization" <=> state = "initializing"
  BY <1>1 DEF Working, Operation, StepsOf, InitializationSteps
<1>3. TypeOK'
  <2>1. TypeOK
    BY DEF Inv
  <2>2. CardOK'
    BY <1>1, <2>1 DEF CardOK, TypeOK
  <2>3. /\ at' \in DriverSteps
        /\ state' \in Before \cup Working \cup {"complete", "failed"}
    BY <1>1, <1>2 DEF InitializationSteps, DriverSteps
  <2> QED
    BY <1>1, <2>1, <2>2, <2>3 DEF TypeOK
<1>4. CallAgrees'
  BY <1>1, <1>2 DEF CallAgrees
<1>5. BlocksAgree' /\ PollsAgree'
  BY <1>1
  DEF Inv, BlocksAgree, PollsAgree, Before, OnBlocks, Working, Operation
<1>6. CardReached'
  BY <1>1, <1>2
  DEF Inv, CardReached, Initialization, Initialized, AddressFits, OnBlocks
<1>7. ContentsKnown'
  BY <1>1 DEF Inv, ContentsKnown, Initialized, Done, Place
<1> QED
  BY <1>1, <1>3, <1>4, <1>5, <1>6, <1>7 DEF Inv

(***************************************************************************)
(* Two blocks cannot have read back their own pattern from one place.      *)
(***************************************************************************)
LEMMA AllBlocksFit ==
  ASSUME CardOK,
         \A block \in Block : socket.data[Place(block)] = Pattern(block)
  PROVE  /\ socket.kind.places = BlockCount
         /\ \A block \in Block : socket.data[block] = Pattern(block)
<1>1. socket.kind.places \in 1 .. BlockCount
  BY DriverConstants DEF CardOK, Cards
<1>2. socket.kind.places = BlockCount
  <2>1. SUFFICES ASSUME socket.kind.places \in Block
                 PROVE  FALSE
    BY <1>1, DriverConstants DEF Block
  <2>2. 0 \in Block
    BY DriverConstants DEF Block
  <2>3. Place(0) = 0 /\ Place(socket.kind.places) = 0
    BY <1>1, PlaceOfFirst DEF Place
  <2>4. Pattern(0) = Pattern(socket.kind.places)
    BY <2>1, <2>2, <2>3
  <2> QED
    BY <1>1, <2>4 DEF Pattern
<1>3. \A block \in Block : Place(block) = block
  BY <1>1, <1>2, PlaceOfFirst DEF Block, Place
<1> QED
  BY <1>2, <1>3

LEMMA ProcessReturnsStep ==
  ASSUME Inv, ProcessReturns
  PROVE  Inv'
<1>1. /\ UNCHANGED <<at, last_failure, version_two, high_capacity,
                     write_checksum, verify_checksum, device, ready, prescaler,
                     socket, illegal, outside, contact, moves, active,
                     matching_polls, poll_due, inserted_polls, tests>>
      /\ active /\ at = "returned" /\ outcome \in {"ok", "failed"}
      /\ outcome' = "none"
  BY DEF ProcessReturns, checksums, spiVars, cardVars, handVars, Inv, TypeOK
<1>2. /\ state \in Working /\ current_block \in Block
      /\ state = "initializing" => current_block = 0
  BY <1>1, DriverConstants
  DEF Inv, CallAgrees, BlocksAgree, OnBlocks, Working, Operation, Block,
      TypeOK
<1>3. \/ /\ outcome = "failed" /\ current_block' = current_block
         /\ state' = "failed" /\ result' = "component_failure"
      \/ /\ outcome = "ok" /\ LastBlock
         /\ state' = NextState[state] /\ result' = Completed[state]
         /\ current_block' = IF state = "cleaning_up" THEN BlockCount ELSE 0
      \/ /\ outcome = "ok" /\ ~LastBlock
         /\ state' = state /\ result' = "running"
         /\ current_block' = current_block + 1
  BY DEF ProcessReturns, Returns
<1>4. /\ ~LastBlock => /\ state \in OnBlocks
                       /\ current_block + 1 \in Block
      /\ LastBlock => state = "initializing" \/ current_block + 1 = BlockCount
  BY <1>2, DriverConstants DEF LastBlock, Block, Working, Operation, OnBlocks
<1>5. /\ NextState[state] \in OnBlocks \cup {"complete"}
      /\ NextState[state] = "verifying" <=> state = "writing"
      /\ NextState[state] = "cleaning_up" <=> state = "verifying"
      /\ NextState[state] = "complete" <=> state = "cleaning_up"
      /\ Completed[state] \in {"sd_card_initialized", "sd_card_written",
                               "sd_card_verified", "sd_card_cleaned_up"}
  BY <1>2 DEF Working, Operation, NextState, Completed, OnBlocks
<1>6. TypeOK'
  <2>1. TypeOK
    BY DEF Inv
  <2>2. CardOK'
    BY <1>1, <2>1 DEF CardOK, TypeOK
  <2>3. state' \in Before \cup Working \cup {"complete", "failed"}
    BY <1>2, <1>3, <1>5 DEF Working, Operation, OnBlocks
  <2>4. current_block' \in 0 .. BlockCount
    BY <1>2, <1>3, DriverConstants DEF Block
  <2>5. result' \in {"running", "component_failure", "sd_card_initialized",
                     "sd_card_written", "sd_card_verified",
                     "sd_card_cleaned_up"}
    BY <1>3, <1>5
  <2> QED
    BY <1>1, <2>1, <2>2, <2>3, <2>4, <2>5 DEF TypeOK
<1>7. CallAgrees'
  BY <1>1 DEF CallAgrees
<1>8. BlocksAgree'
  BY <1>2, <1>3, <1>4, <1>5, DriverConstants
  DEF BlocksAgree, Before, OnBlocks, Working, Operation, Block
<1>9. PollsAgree'
  BY <1>1, <1>2, <1>3, <1>5 DEF Inv, PollsAgree, Working, Operation, OnBlocks
<1>10. CardReached'
  BY <1>1, <1>2, <1>3, <1>4, <1>5
  DEF Inv, CardReached, Initialization, Initialized, AddressFits, OnBlocks,
      Working, Operation
<1>11. ContentsKnown'
  <2>1. SUFFICES ASSUME Initialized, outcome = "ok"
                 PROVE  ContentsKnown'
    BY <1>1, <1>3 DEF ContentsKnown, Initialized
  <2>2. CASE state \in {"initializing", "writing"}
    <3>1. CASE state' = "verifying"
      <4>1. Done' = 0
        BY <1>1, <1>3, <1>4, <1>5, <2>1, <2>2, <3>1 DEF Done, OnBlocks
      <4> QED
        BY <3>1, <4>1 DEF ContentsKnown
    <3>2. CASE state' # "verifying"
      BY <1>3, <1>5, <2>1, <2>2, <3>2 DEF ContentsKnown
    <3> QED
      BY <3>1, <3>2
  <2>3. CASE state = "verifying"
    <3>1. \A block \in 0 .. current_block :
            socket.data[Place(block)] = Pattern(block)
      <4>1. Done - 1 = current_block
        BY <1>2, <2>1, DriverConstants DEF Done, Block
      <4> QED
        BY <1>1, <2>1, <2>3, <4>1 DEF Inv, ContentsKnown
    <3>2. CASE ~LastBlock
      <4>1. /\ state' = "verifying" /\ Done' - 1 = current_block
        BY <1>1, <1>2, <1>3, <2>1, <2>3, <3>2, DriverConstants
        DEF Done, Block
      <4>2. \A block \in 0 .. Done' - 1 :
              socket'.data[Place(block)'] = Pattern(block)
        BY <1>1, <3>1, <4>1 DEF Place
      <4> QED
        BY <4>1, <4>2 DEF ContentsKnown
    <3>3. CASE LastBlock
      <4>1. 0 .. current_block = Block
        BY <1>2, <1>4, <2>3, <3>3, DriverConstants DEF Block
      <4>2. /\ socket.kind.places = BlockCount
            /\ \A block \in Block : socket.data[block] = Pattern(block)
        BY <3>1, <4>1, AllBlocksFit DEF Inv, TypeOK
      <4>3. state' = "cleaning_up" /\ Done' = 0
        BY <1>1, <1>3, <1>5, <2>1, <2>3, <3>3 DEF Done
      <4>4. \A block \in Block : ~(block < 0)
        BY DriverConstants DEF Block
      <4> QED
        BY <1>1, <4>2, <4>3, <4>4 DEF ContentsKnown
    <3> QED
      BY <3>2, <3>3
  <2>4. CASE state = "cleaning_up"
    <3>1. /\ socket.kind.places = BlockCount
          /\ \A block \in Block :
               IF block < current_block + 1
               THEN socket.data[block] \in {Erased, Old}
               ELSE socket.data[block] = Pattern(block)
      BY <1>1, <2>1, <2>4 DEF Inv, ContentsKnown, Done
    <3>2. CASE ~LastBlock
      <4>1. state' = "cleaning_up" /\ Done' = current_block + 1
        BY <1>1, <1>3, <2>1, <2>4, <3>2 DEF Done
      <4> QED
        BY <1>1, <3>1, <4>1 DEF ContentsKnown
    <3>3. CASE LastBlock
      <4>1. \A block \in Block : block < current_block + 1
        BY <1>2, <1>4, <2>4, <3>3, DriverConstants DEF Block
      <4>2. state' = "complete"
        BY <1>3, <1>5, <2>1, <2>4, <3>3
      <4> QED
        BY <1>1, <3>1, <4>1, <4>2 DEF ContentsKnown
    <3> QED
      BY <3>2, <3>3
  <2> QED
    BY <1>2, <2>2, <2>3, <2>4 DEF Working, Operation
<1> QED
  BY <1>1, <1>6, <1>7, <1>8, <1>9, <1>10, <1>11 DEF Inv

LEMMA EndStep ==
  ASSUME Inv, Verdict \/ Stop
  PROVE  Inv'
<1>1. /\ UNCHANGED <<at, outcome, last_failure, version_two, high_capacity,
                     write_checksum, verify_checksum, device, prescaler,
                     socket, illegal, outside, contact, moves, state,
                     matching_polls, current_block, poll_due, inserted_polls,
                     tests>>
      /\ active /\ at = "returned" /\ outcome = "none" /\ active' = FALSE
      /\ result' \in {"none", "passed", "failed"}
      /\ ready' \in {ready, TRUE}
  BY DEF Verdict, Stop, Calls, Returns, Shutdown, driverVars, cardVars,
         handVars
<1>2. TypeOK'
  <2>1. TypeOK
    BY DEF Inv
  <2>2. CardOK'
    BY <1>1, <2>1 DEF CardOK, TypeOK
  <2>3. ready' \in BOOLEAN /\ active' \in BOOLEAN
    BY <1>1, <2>1 DEF TypeOK
  <2> QED
    BY <1>1, <2>1, <2>2, <2>3 DEF TypeOK
<1>3. CallAgrees' /\ BlocksAgree' /\ PollsAgree'
  BY <1>1 DEF CallAgrees, BlocksAgree, PollsAgree
<1>4. CardReached' /\ ContentsKnown'
  BY <1>1 DEF CardReached, Initialization, ContentsKnown
<1> QED
  BY <1>1, <1>2, <1>3, <1>4 DEF Inv
-----------------------------------------------------------------------------
LEMMA InitInv == Init => Inv
<1> SUFFICES ASSUME Init
             PROVE  Inv
  OBVIOUS
<1>1. CardOK /\ (socket.mode \in {"absent", "native"})
  BY FreshCardOK, NoCardOK DEF Init, CardOK
<1>2. << >> \in Seq(Int)
  OBVIOUS
<1>3. TypeOK
  <2>1. /\ at = "returned" /\ outcome = "none" /\ last_failure = NoFailure
        /\ version_two = FALSE /\ high_capacity = FALSE
        /\ write_checksum = << >> /\ verify_checksum = << >>
        /\ device = FALSE /\ ready = FALSE /\ prescaler = "slow"
        /\ illegal = FALSE /\ outside = FALSE
    BY DEF Init, DriverInit
  <2>2. /\ contact \in BOOLEAN /\ active = FALSE
        /\ state \in Before /\ matching_polls = 0 /\ current_block = 0
        /\ poll_due = FALSE /\ result = "none" /\ inserted_polls = 0
        /\ tests = 0 /\ moves = 0
    BY DEF Init, Before
  <2>3. /\ 0 \in 0 .. BlockCount /\ 0 \in 0 .. StablePolls
        /\ 0 \in 0 .. MaxTests /\ 0 \in 0 .. MaxMoves /\ 0 \in Nat
    BY TestConstants, DriverConstants
  <2> QED
    BY <1>1, <1>2, <2>1, <2>2, <2>3 DEF TypeOK, DriverSteps
<1>4. CallAgrees /\ BlocksAgree /\ PollsAgree /\ ContentsKnown
  BY DEF Init, DriverInit, CallAgrees, BlocksAgree, PollsAgree, ContentsKnown
<1>5. CardReached
  BY DEF Init, DriverInit, CardReached, Initialization
<1> QED
  BY <1>3, <1>4, <1>5 DEF Inv, Init, DriverInit

LEMMA StutterStep ==
  ASSUME Inv, UNCHANGED vars
  PROVE  Inv'
<1>1. UNCHANGED <<at, outcome, last_failure, version_two, high_capacity,
                  write_checksum, verify_checksum, device, ready, prescaler,
                  socket, illegal, outside, contact, moves, active, state,
                  matching_polls, current_block, poll_due, result,
                  inserted_polls, tests>>
  BY DEF vars, allDriverVars, driverVars, spiVars, cardVars, testVars,
         handVars
<1>2. TypeOK'
  BY <1>1 DEF Inv, TypeOK, CardOK
<1>3. CallAgrees' /\ BlocksAgree' /\ PollsAgree'
  BY <1>1 DEF Inv, CallAgrees, BlocksAgree, PollsAgree
<1>4. CardReached' /\ ContentsKnown'
  BY <1>1
  DEF Inv, CardReached, Initialization, Initialized, AddressFits,
      ContentsKnown, Done, Place
<1> QED
  BY <1>1, <1>2, <1>3, <1>4 DEF Inv

LEMMA NextInv == Inv /\ [Next]_vars => Inv'
BY HandStep, StartStep, PollTimerStep, AnnounceStep, PollRemovalStep,
   PollInsertionStep, OperateStep, DriveStep, ProcessReturnsStep, EndStep,
   StutterStep
DEF Next, Process

LEMMA Invariant == Spec => []Inv
BY InitInv, NextInv, PTL DEF Spec
-----------------------------------------------------------------------------
(***************************************************************************)
(* The driver, the card and the test keep their types: a sector is only    *)
(* looked up where the card has a place for it, a failure is a stage and a *)
(* reason of the driver's tables.                                          *)
(***************************************************************************)
THEOREM TypeCorrect == Spec => []TypeOK
<1>1. Inv => TypeOK
  BY DEF Inv
<1> QED
  BY <1>1, Invariant, PTL

(***************************************************************************)
(* The test works on a card only after it was seen in StablePolls polls in *)
(* a row, however the contact bounced and the operator moved cards.        *)
(***************************************************************************)
THEOREM CardSeenStable == Spec => []InsertionIsStable
<1>1. Inv => InsertionIsStable
  BY DEF Inv, PollsAgree, InsertionIsStable
<1> QED
  BY <1>1, Invariant, PTL

(***************************************************************************)
(* A failure that is reported is a stage of the call that failed, never    *)
(* one left behind by an earlier call or an earlier test.                  *)
(***************************************************************************)
THEOREM FailuresAreNamed == Spec => []FailureIsNamed
<1>1. Inv => FailureIsNamed
  <2> SUFFICES ASSUME Inv, outcome = "failed"
               PROVE  FailureIsNamed
    BY DEF FailureIsNamed
  <2>1. state \in Working /\ last_failure[1] \in StagesOf[state]
    BY DEF Inv, CallAgrees
  <2> QED
    BY <2>1 DEF FailureIsNamed, StagesOf, Working, Operation
<1> QED
  BY <1>1, Invariant, PTL

(***************************************************************************)
(* For every kind of card, number of blocks and sequence of disturbances,  *)
(* removals and insertions, a card is only sent commands it accepts in its *)
(* mode, and blocks in its unit of address.                                *)
(***************************************************************************)
THEOREM CardsGetLegalCommands == Spec => []ProtocolFollowed
<1>1. Inv => ProtocolFollowed
  BY DEF Inv, ProtocolFollowed
<1> QED
  BY <1>1, Invariant, PTL

(***************************************************************************)
(* A card that is initialized while the test verifies or cleans up is the  *)
(* one on which the blocks before were verified, and still holds those     *)
(* that are not erased yet.                                                *)
(***************************************************************************)
THEOREM SameCardThroughout == Spec => []OneCardThroughout
<1>1. Inv => OneCardThroughout
  <2> SUFFICES ASSUME Inv, active, Initialized, at = "returned",
                      outcome = "none"
               PROVE  OneCardThroughout
    BY DEF OneCardThroughout
  <2>1. Done = current_block
    BY DEF Done
  <2>2. current_block \in 0 .. BlockCount
    BY DEF Inv, TypeOK
  <2>3. CASE state = "verifying"
    BY <2>1, <2>3 DEF Inv, ContentsKnown, OneCardThroughout
  <2>4. CASE state = "cleaning_up"
    <3>1. /\ socket.kind.places = BlockCount
          /\ \A block \in Block :
               ~(block < current_block) => socket.data[block] = Pattern(block)
      BY <2>1, <2>4 DEF Inv, ContentsKnown
    <3>2. ASSUME NEW block \in current_block .. BlockCount - 1
          PROVE  socket.data[Place(block)] = Pattern(block)
      <4>1. block \in Block /\ ~(block < current_block)
        BY <2>2, DriverConstants DEF Block
      <4>2. Place(block) = block
        BY <3>1, <4>1, PlaceOfFirst, DriverConstants DEF Place, Block
      <4> QED
        BY <3>1, <4>1, <4>2
    <3> QED
      BY <2>4, <3>2 DEF OneCardThroughout
  <2>5. CASE state \notin {"verifying", "cleaning_up"}
    BY <2>5 DEF OneCardThroughout
  <2> QED
    BY <2>3, <2>4, <2>5
<1> QED
  BY <1>1, Invariant, PTL

(***************************************************************************)
(* A test that passes has found a place of its own for each block on the   *)
(* card in the socket, whatever it claims to be: a counterfeit card never  *)
(* passes, for any number of blocks.                                       *)
(***************************************************************************)
THEOREM PassedCardStores == Spec => []PassedMeansStored
<1>1. Inv => PassedMeansStored
  BY DEF Inv, ContentsKnown, PassedMeansStored
<1> QED
  BY <1>1, Invariant, PTL
-----------------------------------------------------------------------------
(***************************************************************************)
(* What the runner sees of a step of the test.                             *)
(***************************************************************************)
RunnerSees ==
  \/ UNCHANGED <<active, state, result>>
  \/ ~active /\ active' /\ state' \in SdCardStarts /\ result' = "none"
  \/ active /\ ~active' /\ result' = "none"
  \/ /\ active
     /\ Step(state, result', state') \in SdCardSteps
     /\ IF result' \in Terminal THEN ~active' ELSE active'

LEMMA StepSeenByRunner ==
  ASSUME Inv, [Next]_vars
  PROVE  RunnerSees
<1> USE DEF RunnerSees
<1>1. CASE Start
  BY <1>1 DEF Start, SdCardStarts
<1>2. CASE Hand \/ PollTimer \/ Drive \/ UNCHANGED vars
  BY <1>2
  DEF Hand, Insert, Remove, Settle, PollTimer, Drive, vars, testVars
<1>3. CASE Announce
  <2>1. /\ active /\ active' = active
        /\ \/ /\ state = "announce_removal"
              /\ state' = "waiting_for_removal"
              /\ result' = "sd_card_remove_required"
           \/ /\ state = "announce_insertion"
              /\ state' = "waiting_for_insertion"
              /\ result' = "sd_card_insert_required"
    BY <1>3 DEF Announce, Calls, Returns
  <2> QED
    BY <2>1 DEF SdCardSteps, Terminal
<1>4. CASE PollRemoval
  <2>1. /\ active /\ active' = active /\ state = "waiting_for_removal"
        /\ \/ state' = "announce_insertion" /\ result' = "sd_card_removed"
           \/ state' = "waiting_for_removal" /\ result' = "running"
    BY <1>4 DEF PollRemoval, Poll, Calls, Returns
  <2> QED
    BY <2>1 DEF SdCardSteps, Terminal
<1>5. CASE PollInsertion
  <2>1. /\ active /\ active' = active /\ state = "waiting_for_insertion"
        /\ \/ state' = "initializing" /\ result' = "sd_card_detected"
           \/ state' = "waiting_for_insertion" /\ result' = "running"
    BY <1>5 DEF PollInsertion, Poll, Calls, Returns
  <2> QED
    BY <2>1 DEF SdCardSteps, Terminal
<1>6. CASE Operate
  <2>1. /\ active /\ active' = active /\ state \in Working
        /\ \/ state' = state /\ result' = result
           \/ state' = "failed" /\ result' = "component_failure"
    BY <1>6 DEF Operate, Calls, Returns
  <2> QED
    BY <2>1 DEF SdCardSteps, Terminal, Working, Operation
<1>7. CASE ProcessReturns
  <2>1. /\ active /\ active' = active
        /\ \/ state' = "failed" /\ result' = "component_failure"
           \/ state' = NextState[state] /\ result' = Completed[state]
           \/ state # "initializing" /\ state' = state /\ result' = "running"
    BY <1>7 DEF ProcessReturns, Returns, LastBlock
  <2>2. state \in {"initializing", "writing", "verifying", "cleaning_up"}
    BY <1>7 DEF ProcessReturns, Inv, CallAgrees, Working, Operation
  <2> QED
    BY <2>1, <2>2 DEF SdCardSteps, Terminal, NextState, Completed
<1>8. CASE Verdict
  <2>1. /\ active /\ ~active' /\ state' = state
        /\ \/ state = "complete" /\ result' = "passed"
           \/ state = "failed" /\ result' = "failed"
    BY <1>8 DEF Verdict, Calls, Returns
  <2> QED
    BY <2>1 DEF SdCardSteps, Terminal
<1>9. CASE Stop
  BY <1>9 DEF Stop, Calls
<1> QED
  BY <1>1, <1>2, <1>3, <1>4, <1>5, <1>6, <1>7, <1>8, <1>9 DEF Next, Process

(***************************************************************************)
(* What SessionProtocol takes the card test to do is what it does, with    *)
(* polls, blocks, bouncing contacts and every failure of the driver.       *)
(***************************************************************************)
THEOREM LifecycleImplemented == Spec => ImplementsLifecycle
<1> USE DEF Off, Lifecycle!Off
<1> DEFINE Component == IF active THEN state ELSE Off
<1>1. Init => Lifecycle!Init
  BY DEF Init, Lifecycle!Init
<1>2. ASSUME Inv, [Next]_vars
      PROVE  [Lifecycle!Next]_<<Component, result>>
  <2>0. /\ RunnerSees
        /\ state \in Before \cup Working \cup {"complete", "failed"}
    BY <1>2, StepSeenByRunner DEF Inv, TypeOK
  <2>1. state # Off
    BY <2>0 DEF Before, Working, Operation
  <2>2. CASE UNCHANGED <<active, state, result>>
    BY <2>2
  <2>3. CASE /\ ~active /\ active' /\ state' \in SdCardStarts
             /\ result' = "none"
    BY <2>3 DEF Lifecycle!Next, Lifecycle!Start
  <2>4. CASE active /\ ~active' /\ result' = "none"
    BY <2>1, <2>4 DEF Lifecycle!Next, Lifecycle!Stop
  <2>5. CASE /\ active
             /\ Step(state, result', state') \in SdCardSteps
             /\ IF result' \in Terminal THEN ~active' ELSE active'
    <3> DEFINE step == Step(state, result', state')
    <3>1. step.from = state /\ step.result = result' /\ step.to = state'
      BY DEF Step
    <3>2. step \in SdCardSteps
      BY <2>5
    <3> HIDE DEF step
    <3>3. Lifecycle!Process
      BY <2>5, <3>1, <3>2 DEF Lifecycle!Process, Lifecycle!Terminal, Terminal
    <3> QED
      BY <3>3 DEF Lifecycle!Next
  <2> QED
    BY <2>0, <2>2, <2>3, <2>4, <2>5 DEF RunnerSees
<1> QED
  BY <1>1, <1>2, Invariant, PTL DEF Spec, ImplementsLifecycle, Lifecycle!Spec
=============================================================================
