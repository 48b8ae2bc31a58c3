------------------------------- MODULE BoardRun -------------------------------
(***************************************************************************)
(* The run of RunReport with its preparation in full: the configuration is *)
(* loaded, the firmware built, one ST-Link chosen, the board behind it     *)
(* programmed, verified and reset, one USB port found and opened.          *)
(*                                                                         *)
(* The bench may hold more than one board.  Each has its own ST-Link and   *)
(* its own USB port, and comes and goes on the bus as it likes: a reset    *)
(* takes it off, and the operating system notices both later.  The run     *)
(* names the board twice, once by its probe and once by its port, and      *)
(* nothing but the order of events ties the two together.                  *)
(***************************************************************************)
EXTENDS RunReport, FiniteSets

CONSTANTS
  Boards,  \* boards on the bench, with their probes and ports
  Nobody   \* no board

ASSUME BenchConstants == IsFiniteSet(Boards) /\ Nobody \notin Boards

VARIABLES
  requested_serial,  \* --probe-serial: a board, or Nobody for automatic
  requested_port,    \* --port: a board, or Nobody for automatic
  preparing,         \* the step of the preparation
  probe,             \* the board whose ST-Link was selected
  port,              \* the board whose USB port was found
  image,             \* flash of each board: "other", "partial", "verified"
  listed,            \* boards whose port the operating system reports
  absent             \* history: the programmed board was not listed when
                     \* the port was found

requests == <<requested_serial, requested_port>>
choices == <<preparing, probe, port, absent>>
bench == <<image, listed>>
runVars == <<requests, choices, bench, vars>>

BoardInit ==
  /\ Init
  /\ requested_serial \in Boards \cup {Nobody}
  /\ requested_port \in Boards \cup {Nobody}
  /\ preparing = "configuration"
  /\ probe = Nobody
  /\ port = Nobody
  /\ image \in [Boards -> {"other", "partial"}]
  /\ listed \in SUBSET {board \in Boards : image[board] = "other"}
  /\ absent = FALSE
-----------------------------------------------------------------------------
(***************************************************************************)
(* How a step of the preparation ends: the next one follows, or the run    *)
(* is over with an exit code and a message.                                *)
(***************************************************************************)
GoOnWith(next) ==
  /\ pc = "prepare"
  /\ preparing' = next
  /\ UNCHANGED <<vars, requests>>

GiveUp(code) ==
  /\ Prepare
  /\ pc' = "exited" /\ exit' = code
  /\ UNCHANGED <<requests, preparing>>

LoadConfigurations ==
  /\ preparing = "configuration"
  /\ GoOnWith("build") \/ GiveUp("2")
  /\ UNCHANGED <<probe, port, absent, bench>>

\* The tools are looked for, the preset is configured and built, and the
\* image must exist.
BuildFirmware ==
  /\ preparing = "build"
  /\ GoOnWith("probes") \/ GiveUp("1")
  /\ UNCHANGED <<probe, port, absent, bench>>

(***************************************************************************)
(* A selection, of a probe or of a port: the named one, or the only one.   *)
(***************************************************************************)
\* Fault: the first one will do.
OneOf(found, requested) ==
  IF requested = Nobody THEN found ELSE found \cap {requested}

Matches(found, requested) ==
  LET named == IF requested = Nobody THEN found ELSE found \cap {requested}
  IN IF Cardinality(named) = 1 THEN named ELSE {}

\* The programmer is located and lists the probes it finds.
SelectProbe ==
  /\ preparing = "probes"
  /\ \E probes \in SUBSET Boards :
       \/ /\ probe' \in Matches(probes, requested_serial)
          /\ GoOnWith("program")
       \/ /\ GiveUp("1")
          /\ UNCHANGED probe
  /\ UNCHANGED <<port, absent, bench>>

(***************************************************************************)
(* program_and_verify and reset connect under reset: the board leaves the  *)
(* bus, at once or when the operating system notices.  A failure may leave *)
(* the image half written, or good and not verified.                       *)
(***************************************************************************)
UnderReset == listed' \in {listed, listed \ {probe}}

ProgramAndVerify ==
  /\ preparing = "program"
  /\ UnderReset
  /\ \/ /\ image' = [image EXCEPT ![probe] = "verified"]
        /\ GoOnWith("reset")
     \/ /\ \E left \in {image[probe], "partial", "verified"} :
             image' = [image EXCEPT ![probe] = left]
        /\ GiveUp("1")
  /\ UNCHANGED <<probe, port, absent>>

Reset ==
  /\ preparing = "reset"
  /\ UnderReset
  /\ \/ /\ Prepare /\ pc' = "connect"
        /\ preparing' = "done"
        /\ UNCHANGED requests
     \/ GiveUp("1")
  /\ UNCHANGED <<image, probe, port, absent>>
-----------------------------------------------------------------------------
(***************************************************************************)
(* wait_for_cdc_port: the ports are listed again and again until one       *)
(* matches.  Several matches end the wait, and so does the time limit; a   *)
(* listing without a match changes nothing.                                *)
(***************************************************************************)
FindPort ==
  /\ pc = "connect" /\ port = Nobody
  /\ port' \in Matches(listed, requested_port)
  /\ absent' = (probe \notin listed)
  /\ UNCHANGED <<vars, requests, preparing, probe, bench>>

NoPort ==
  /\ pc = "connect" /\ port = Nobody
  /\ Matches(listed, requested_port) = {}
  /\ Connect /\ pc' = "exited"
  /\ UNCHANGED <<requests, choices, bench>>

\* The port may be gone by now, or held by another program.
OpenPort ==
  /\ pc = "connect" /\ port # Nobody
  /\ Connect
  /\ pc' = "start_test" => port \in listed
  /\ UNCHANGED <<requests, choices, bench>>

(***************************************************************************)
(* The boards on the bus: one that holds a whole image enumerates in the   *)
(* end, and any board may be reset, unplugged or plugged in.               *)
(***************************************************************************)
Enumerate ==
  /\ Running
  /\ \E board \in Boards \ listed :
       /\ image[board] # "partial"
       /\ listed' = listed \cup {board}
  /\ UNCHANGED <<vars, requests, choices, image>>

LeaveBus ==
  /\ Running
  /\ \E board \in listed : listed' = listed \ {board}
  /\ UNCHANGED <<vars, requests, choices, image>>

(***************************************************************************)
(* Ctrl-C and kills reach the programmer too.                              *)
(***************************************************************************)
BreakOff ==
  /\ Interrupt \/ Kill
  /\ IF preparing = "program" /\ pc = "prepare"
     THEN /\ UnderReset
          /\ \E left \in {image[probe], "partial", "verified"} :
               image' = [image EXCEPT ![probe] = left]
     ELSE UNCHANGED bench
  /\ UNCHANGED <<requests, choices>>

\* A session begins with a board that answers.
BeginSession ==
  /\ StartTest
  /\ updating' = "create" => port \in listed
  /\ UNCHANGED <<requests, choices, bench>>

InSession ==
  /\ \/ ReadReport \/ KeepFailedReport \/ OpenTemporary \/ FillTemporary
     \/ ReplaceReport \/ ValidateSession \/ RunTest \/ CancelTest \/ StopTest
     \/ FinalizeRun \/ ClosePort \/ Finish
  /\ UNCHANGED <<requests, choices, bench>>

BoardNext ==
  \/ LoadConfigurations \/ BuildFirmware \/ SelectProbe \/ ProgramAndVerify
  \/ Reset \/ FindPort \/ NoPort \/ OpenPort
  \/ BeginSession \/ InSession
  \/ Enumerate \/ LeaveBus \/ BreakOff

BoardSpec == BoardInit /\ [][BoardNext]_runVars
-----------------------------------------------------------------------------
BenchOK ==
  /\ requested_serial \in Boards \cup {Nobody}
  /\ requested_port \in Boards \cup {Nobody}
  /\ preparing \in {"configuration", "build", "probes", "program", "reset",
                    "done"}
  /\ probe \in Boards \cup {Nobody}
  /\ port \in Boards \cup {Nobody}
  /\ image \in [Boards -> {"other", "partial", "verified"}]
  /\ listed \in SUBSET Boards
  /\ absent \in BOOLEAN

(***************************************************************************)
(* A report is about the board that was programmed, verified and reset in  *)
(* this run, unless the operator named another board's port, or that board *)
(* was still away when the only port there was another board's.  A failed  *)
(* or broken-off preparation never gets as far as a report.                *)
(***************************************************************************)
ReportIsOfFlashedBoard ==
  report # NoFile =>
    \/ port = probe /\ image[probe] = "verified"
    \/ requested_port \notin {probe, Nobody}
    \/ absent /\ requested_port = Nobody
=============================================================================
