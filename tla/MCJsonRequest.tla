---------------------------- MODULE MCJsonRequest ----------------------------
(***************************************************************************)
(* Instances of JsonRequest for TLC: the requests of the tester in the     *)
(* order of its encoders, and for each key the values at the edges of what *)
(* its parser takes.                                                       *)
(***************************************************************************)
EXTENDS JsonRequest

Heading(type, id) ==
  << Pair("protocol_version", Number(1)), Pair("type", Text(type)),
     Pair("command_id", Number(id)) >>

Colour(red, green, blue) ==
  << Pair("red", Number(red)), Pair("green", Number(green)),
     Pair("blue", Number(blue)) >>

TesterRequests ==
  { Heading("START_TEST", 1) \o << Pair("test_uuid", Text("uuid4")) >>,
    Heading("RUN_COMPONENT_TEST", 2) \o << Pair("test_type", Text("imu")) >>,
    Heading("RUN_COMPONENT_TEST", 2)
      \o << Pair("test_type", Text("rgb_led")),
            Parameters(Colour(0, 1, MaxUint8)) >>,
    Heading("STOP_COMPONENT_TEST", 2) }

Scalars ==
  {Number(0), Number(1), Number(MaxUint32), Number(MaxUint32 + 1),
   Text("imu"), Text("rgb_led"), Text("uuid4"), Text("STOP_COMPONENT_TEST"),
   Text("RESET_BOARD")}

Odd ==
  { Pair(key, value) :
      key \in {"protocol_version", "type", "command_id", "test_uuid",
               "test_type", "parameters", "red", "note"},
      value \in Scalars }
  \cup { Parameters(inner) :
           inner \in { << >>, Colour(0, 1, MaxUint8 + 1),
                       Reverse(Colour(0, 1, MaxUint8)),
                       Colour(0, 1, 2) \o << Pair("red", Number(1)) >>,
                       SubSeq(Colour(0, 1, 2), 1, 2)
                         \o << Pair("red", Number(1)) >>,
                       SubSeq(Colour(0, 1, 2), 1, 2) } }
  \cup {[key |-> "type", value |-> Open, inner |-> << >>]}
  \cup {Pair(key, Missing) : key \in {"test_type", "note"}}
=============================================================================
