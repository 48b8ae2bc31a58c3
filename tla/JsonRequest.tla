---------------------------- MODULE JsonRequest ----------------------------
(***************************************************************************)
(* From the bytes of a line to a request: what the host writes             *)
(* (protocol/connection.py and the encoders of the tester) and what        *)
(* json_protocol_parse_request makes of it (json_protocol.c on jsmn.h).    *)
(*                                                                         *)
(* A line is a sequence of lexemes.  A write that the host abandons        *)
(* (write_line timed out, Ctrl-C, a USB cable pulled) leaves a beginning   *)
(* without its LF in the firmware's framer, cut anywhere, and the next     *)
(* request continues the line.  Other programs write lines that are no     *)
(* request of the tester, reached here by edits of one.                    *)
(***************************************************************************)
EXTENDS Integers, SequencesExt, FiniteSets

CONSTANTS
  MaxUint32,      \* UINT32_MAX, scaled
  MaxUint8,       \* UINT8_MAX, scaled
  Requests,       \* the requests of the host, as sequences of pairs
  StrangePairs,   \* pairs that an edit puts into a request
  MaxEdits,       \* bound: edits of one request
  MaxCuts         \* bound: abandoned writes in one line

ASSUME NumberWidths == MaxUint8 \in Nat /\ MaxUint32 \in Nat /\ MaxUint8 < MaxUint32

VARIABLES
  line,      \* the lexemes of the line so far
  cuts,      \* history: abandoned writes in it
  pairs,     \* history: the request being written, its pairs in order
  edits,     \* history: how many pairs of it were replaced or swapped
  at,        \* "idle", "writing", "tokens", "pairs", "colour" or "done"
  tokens,    \* jsmntok_t tokens[]
  index,     \* the index of the loops, counted from 1
  object,    \* parse_rgb_parameters: the index of the object
  seen,      \* the ..._seen flags that are set
  request,   \* json_protocol_request_t
  accepted   \* what json_protocol_parse_request returned

hostVars == <<line, cuts, pairs, edits>>
parserVars == <<tokens, index, object, seen, request, accepted>>
vars == <<hostVars, at, parserVars>>
-----------------------------------------------------------------------------
(***************************************************************************)
(* Lexemes.  "ended": a comma or a brace follows, as it does on a value,   *)
(* and not the colon of a key.  "half" is a string without its closing     *)
(* quote, of no character at all or of some.                               *)
(***************************************************************************)
Lexeme(kind, text, number, ended) ==
  [kind |-> kind, text |-> text, number |-> number, ended |-> ended]

Open == Lexeme("open", "", 0, FALSE)
Close == Lexeme("close", "", 0, FALSE)
Key(text) == Lexeme("text", text, 0, FALSE)
Text(text) == Lexeme("text", text, 0, TRUE)
Number(n) == Lexeme("number", "", n, TRUE)

Missing == Lexeme("missing", "", 0, FALSE)

Pair(key, value) == [key |-> key, value |-> value, inner |-> << >>]
Parameters(inner) == [key |-> "parameters", value |-> Open, inner |-> inner]

(***************************************************************************)
(* Pairs as a JSON encoder writes them: a text, a number, or an object of  *)
(* such pairs.                                                             *)
(***************************************************************************)
Values ==
  [kind : {"text"}, text : STRING, number : {0}, ended : {TRUE}] \cup
  [kind : {"number"}, text : {""}, number : Int, ended : {TRUE}]
ScalarPairs == [key : STRING, value : Values, inner : {<< >>}]
ObjectPairs == [key : STRING, value : {Open}, inner : Seq(ScalarPairs)]
WholePairs == ScalarPairs \cup ObjectPairs

ASSUME RequestsAreWhole == Requests \subseteq Seq(WholePairs)

\* Texts the character checks of copy_test_uuid and copy_test_type accept.
Uuids == {"uuid4"}
Names == {"imu", "rgb_led", "type", "command_id", "red"}
Garbled == "{garbled}"

(***************************************************************************)
(* The frame of a request: json.dumps of a dictionary, in its order.       *)
(***************************************************************************)
Joined(parts) ==
  LET upto[n \in 0 .. Len(parts)] ==
        IF n = 0 THEN << >> ELSE upto[n - 1] \o parts[n]
  IN upto[Len(parts)]

Object(parts) == << Open >> \o Joined(parts) \o << Close >>

ScalarLexemes(pair) ==
  << Key(pair.key) >> \o (IF pair.value = Missing THEN << >> ELSE << pair.value >>)

InnerFrame(inner) == Object([i \in DOMAIN inner |-> ScalarLexemes(inner[i])])

PairLexemes(pair) ==
  IF pair.value = Open THEN << Key(pair.key) >> \o InnerFrame(pair.inner)
                       ELSE ScalarLexemes(pair)

Frame(ps) == Object([i \in DOMAIN ps |-> PairLexemes(ps[i])])

\* What an abandoned write may have sent of a frame.
CutLexemes(l) ==
  CASE l.kind = "text"   -> {l, Lexeme("half", "", 0, FALSE),
                             Lexeme("half", l.text, 0, FALSE)}
    [] l.kind = "number" -> {l, [l EXCEPT !.ended = FALSE]}
    [] OTHER             -> {l}

Beginnings(frame) ==
  UNION { {SubSeq(frame, 1, n - 1) \o << l >> : l \in CutLexemes(frame[n])} :
            n \in DOMAIN frame }
-----------------------------------------------------------------------------
(***************************************************************************)
(* jsmn_parse, lexeme by lexeme, with "tail" for what the scanner is in    *)
(* the middle of: a string that still wants its quote, or a primitive,     *)
(* which ends only at a comma, a closing brace or the end of the line and  *)
(* swallows quotes, colons and opening braces.                             *)
(***************************************************************************)
Token(type, l, position) ==
  [type |-> type, text |-> l.text, number |-> l.number,
   start |-> position, end |-> position]

GarbledToken(type, position) ==
  Token(type, Lexeme("text", Garbled, 0, FALSE), position)

InitialScanner ==
  [tokens |-> << >>, open |-> << >>, tail |-> "none", position |-> 1,
   invalid |-> FALSE]

ScanPlain(s, l) ==
  CASE l.kind = "open" ->
         [s EXCEPT !.tokens = Append(@, Token("object", l, s.position)),
                   !.open = Append(@, Len(s.tokens) + 1)]
    [] l.kind = "close" ->
         IF s.open = << >> THEN [s EXCEPT !.invalid = TRUE]
         ELSE [s EXCEPT !.tokens[Last(s.open)].end = s.position,
                        !.open = Front(@)]
    [] l.kind = "text" ->
         [s EXCEPT !.tokens = Append(@, Token("string", l, s.position))]
    [] l.kind = "number" ->
         [s EXCEPT !.tokens = Append(@, Token("primitive", l, s.position)),
                   !.tail = IF l.ended THEN "none" ELSE "primitive"]
    [] l.kind = "half" -> [s EXCEPT !.tail = "string"]

\* The next quote closes the string; the letters behind it are a primitive.
ScanString(s, l) ==
  IF l.kind \notin {"text", "half"} THEN s
  ELSE LET closed == Append(s.tokens, GarbledToken("string", s.position))
       IN IF l.text = ""
          THEN [s EXCEPT !.tokens = closed, !.tail = "none"]
          ELSE [s EXCEPT !.tokens = Append(closed,
                                      GarbledToken("primitive", s.position)),
                         !.tail = IF l.ended THEN "none" ELSE "primitive"]

ScanPrimitive(s, l) ==
  IF l.kind = "close" THEN ScanPlain([s EXCEPT !.tail = "none"], l)
  ELSE [s EXCEPT !.tokens[Len(s.tokens)].text = Garbled,
                 !.tail = IF l.ended THEN "none" ELSE "primitive"]

Scan(s, l) ==
  LET next == CASE s.tail = "none"      -> ScanPlain(s, l)
                [] s.tail = "string"    -> ScanString(s, l)
                [] s.tail = "primitive" -> ScanPrimitive(s, l)
  IN [next EXCEPT !.position = s.position + 1]

ScanAll(scanner, lexemes) ==
  LET after[n \in 0 .. Len(lexemes)] ==
        IF n = 0 THEN scanner ELSE Scan(after[n - 1], lexemes[n])
  IN after[Len(lexemes)]

Jsmn(lexemes) == ScanAll(InitialScanner, lexemes)

\* JSMN_ERROR_INVAL, JSMN_ERROR_PART.
JsmnFails(s) == s.invalid \/ s.tail = "string" \/ s.open # << >>
-----------------------------------------------------------------------------
InitialRequest ==
  [type |-> "INVALID", command_id |-> 0, test_uuid |-> "", test_type |-> "",
   rgb_colour_present |-> FALSE, red |-> 0, green |-> 0, blue |-> 0]

Init ==
  /\ line = << >>
  /\ cuts = 0
  /\ pairs = << >>
  /\ edits = 0
  /\ at = "idle"
  /\ tokens = << >>
  /\ index = 0
  /\ object = 0
  /\ seen = {}
  /\ request = InitialRequest
  /\ accepted = FALSE

(***************************************************************************)
(* The host: write_line of a request, whole or in part; the lines of other *)
(* programs.                                                               *)
(***************************************************************************)
Compose ==
  /\ at = "idle"
  /\ pairs' \in Requests
  /\ edits' = 0
  /\ at' = "writing"
  /\ UNCHANGED <<line, cuts, parserVars>>

Edit ==
  /\ at = "writing"
  /\ cuts = 0
  /\ edits < MaxEdits
  /\ edits' = edits + 1
  /\ \E i \in DOMAIN pairs :
       \/ \E strange \in StrangePairs : pairs' = [pairs EXCEPT ![i] = strange]
       \/ \E j \in DOMAIN pairs :
            pairs' = [pairs EXCEPT ![i] = pairs[j], ![j] = pairs[i]]
  /\ UNCHANGED <<line, cuts, at, parserVars>>

Abandon ==
  /\ at = "writing"
  /\ edits = 0
  /\ cuts < MaxCuts
  /\ cuts' = cuts + 1
  /\ \E beginning \in Beginnings(Frame(pairs)) : line' = line \o beginning
  /\ pairs' = << >>
  /\ at' = "idle"
  /\ UNCHANGED <<edits, parserVars>>

WriteLine ==
  /\ at = "writing"
  /\ line' = line \o Frame(pairs)
  /\ at' = "tokens"
  /\ UNCHANGED <<cuts, pairs, edits, parserVars>>
-----------------------------------------------------------------------------
(***************************************************************************)
(* json_protocol_parse_request.  The counts are those of the three shapes  *)
(* of a request, and odd: an object, and pairs.                            *)
(***************************************************************************)
Answer(result) ==
  /\ accepted' = result
  /\ at' = "done"

\* Fault: anything between the smallest and the largest shape.
CountInRange(count) == count >= 7 /\ count <= 17
CountFits(count) == count \in {7, 9, 17}

Tokenize ==
  /\ at = "tokens"
  /\ request' = InitialRequest
  /\ seen' = {}
  /\ LET scanned == Jsmn(line)
     IN /\ tokens' = scanned.tokens
        /\ \/ /\ ~JsmnFails(scanned)
              /\ CountFits(Len(tokens'))
              /\ tokens'[1].type = "object"
              /\ index' = 2
              /\ at' = "pairs"
              /\ UNCHANGED accepted
           \/ /\ \/ JsmnFails(scanned)
                 \/ ~CountFits(Len(tokens'))
                 \/ tokens'[1].type # "object"
              /\ Answer(FALSE)
              /\ UNCHANGED index
  /\ UNCHANGED <<hostVars, object>>

\* token_equals: the key of this turn, "" when the token is no string.
CurrentKey == IF tokens[index].type = "string" THEN tokens[index].text ELSE ""
CurrentValue == tokens[index + 1]

\* A token made of digits alone.
Digits(token) == token.type = "primitive" /\ token.text = ""
PositiveUint32(token) == Digits(token) /\ token.number \in 1 .. MaxUint32
Uint8(token) == Digits(token) /\ token.number \in 0 .. MaxUint8

RequestTypes == {"START_TEST", "RUN_COMPONENT_TEST", "STOP_COMPONENT_TEST"}

(***************************************************************************)
(* A turn of the loop: the values that a key takes, and what it makes of   *)
(* them.                                                                   *)
(***************************************************************************)
ValidScalar ==
  \/ /\ CurrentKey = "protocol_version"
     /\ PositiveUint32(CurrentValue) /\ CurrentValue.number = 1
  \/ CurrentKey = "type" /\ CurrentValue.type = "string"
  \/ CurrentKey = "command_id" /\ PositiveUint32(CurrentValue)
  \/ /\ CurrentKey = "test_uuid"
     /\ CurrentValue.type = "string" /\ CurrentValue.text \in Uuids
  \/ /\ CurrentKey = "test_type"
     /\ CurrentValue.type = "string" /\ CurrentValue.text \in Names

Taken ==
  CASE CurrentKey = "type" ->
         [request EXCEPT !.type = IF CurrentValue.text \in RequestTypes
                                  THEN CurrentValue.text ELSE "UNSUPPORTED"]
    [] CurrentKey = "command_id" ->
         [request EXCEPT !.command_id = CurrentValue.number]
    [] CurrentKey \in {"test_uuid", "test_type"} ->
         [request EXCEPT ![CurrentKey] = CurrentValue.text]
    [] OTHER -> request

ValidObject == CurrentKey = "parameters" /\ CurrentValue.type = "object"

NotSeen(key) == key \notin seen

TakePair ==
  /\ NotSeen(CurrentKey)
  /\ index' = index + 2
  /\ \/ /\ ValidScalar
        /\ seen' = seen \cup {CurrentKey}
        /\ request' = Taken
        /\ UNCHANGED <<at, object>>
     \/ /\ ValidObject
        /\ object' = index + 1
        /\ at' = "colour"
        /\ UNCHANGED <<seen, request>>
  /\ UNCHANGED accepted

RefusePair ==
  /\ NotSeen(CurrentKey) => ~ValidScalar /\ ~ValidObject
  /\ Answer(FALSE)
  /\ UNCHANGED <<index, object, seen, request>>

ParsePair ==
  /\ at = "pairs" /\ index <= Len(tokens)
  /\ TakePair \/ RefusePair
  /\ UNCHANGED <<hostVars, tokens>>

(***************************************************************************)
(* parse_rgb_parameters.  Its loop ends with the object, and its keys are  *)
(* never those of the request.                                             *)
(***************************************************************************)
Colours == {"red", "green", "blue"}

\* Fault: the loop goes on to the end of the line.
TokensLeft == index < Len(tokens)
InObject == index < Len(tokens) /\ tokens[index].start < tokens[object].end

ValidColour ==
  CurrentKey \in Colours /\ NotSeen(CurrentKey) /\ Uint8(CurrentValue)

ParseColour ==
  /\ at = "colour" /\ InObject
  /\ \/ /\ ValidColour
        /\ request' = [request EXCEPT ![CurrentKey] = CurrentValue.number]
        /\ seen' = seen \cup {CurrentKey}
        /\ index' = index + 2
        /\ UNCHANGED <<at, accepted>>
     \/ /\ ~ValidColour
        /\ Answer(FALSE)
        /\ UNCHANGED <<index, seen, request>>
  /\ UNCHANGED <<hostVars, tokens, object>>

ColourDone ==
  /\ at = "colour" /\ ~InObject
  /\ \/ /\ Colours \subseteq seen
        /\ index <= Len(tokens) + 1
        /\ request' = [request EXCEPT !.rgb_colour_present = TRUE]
        /\ seen' = seen \cup {"parameters"}
        /\ at' = "pairs"
        /\ UNCHANGED accepted
     \/ /\ ~(Colours \subseteq seen /\ index <= Len(tokens) + 1)
        /\ Answer(FALSE)
        /\ UNCHANGED <<seen, request>>
  /\ UNCHANGED <<hostVars, tokens, index, object>>

(***************************************************************************)
(* The checks behind the loop: the fields of a request of this type.       *)
(***************************************************************************)
FieldsFit ==
  /\ {"protocol_version", "type", "command_id"} \subseteq seen
  /\ CASE request.type = "START_TEST" ->
            /\ Len(tokens) = 9
            /\ "test_uuid" \in seen
            /\ {"test_type", "parameters"} \cap seen = {}
       [] request.type = "RUN_COMPONENT_TEST" ->
            /\ "test_type" \in seen /\ "test_uuid" \notin seen
            /\ IF request.test_type = "rgb_led"
               THEN Len(tokens) = 17 /\ "parameters" \in seen
               ELSE Len(tokens) = 9 /\ "parameters" \notin seen
       [] OTHER ->
            /\ request.type = "STOP_COMPONENT_TEST"
            /\ Len(tokens) = 7
            /\ {"test_uuid", "test_type", "parameters"} \cap seen = {}

CheckFields ==
  /\ at = "pairs" /\ index > Len(tokens)
  /\ Answer(FieldsFit)
  /\ UNCHANGED <<hostVars, tokens, index, object, seen, request>>

(***************************************************************************)
(* The answer is queued, and the buffers serve the next line.  The tokens  *)
(* are left on the stack.                                                  *)
(***************************************************************************)
NextLine ==
  /\ at = "done"
  /\ line' = << >> /\ cuts' = 0 /\ pairs' = << >> /\ edits' = 0
  /\ at' = "idle"
  /\ tokens' = << >> /\ index' = 0 /\ object' = 0 /\ seen' = {}
  /\ request' = InitialRequest /\ accepted' = FALSE

Host == Compose \/ Edit \/ Abandon \/ WriteLine
Parser == Tokenize \/ ParsePair \/ ParseColour \/ ColourDone \/ CheckFields
Next == Host \/ Parser \/ NextLine

Spec == Init /\ [][Next]_vars
-----------------------------------------------------------------------------
(***************************************************************************)
(* The grammar of the protocol, independent of the loops: which lists of   *)
(* pairs are a request, in whatever order, and what it means.              *)
(***************************************************************************)
Keys(ps) == {ps[i].key : i \in DOMAIN ps}
EachOnce(ps, keys) == Keys(ps) = keys /\ Len(ps) = Cardinality(keys)
At(ps, key) == ps[CHOOSE i \in DOMAIN ps : ps[i].key = key]
NumberAt(ps, key) == At(ps, key).value.number
TextAt(ps, key) == At(ps, key).value.text

Shape(ps) ==
  {"protocol_version", "type", "command_id"} \cup
  CASE TextAt(ps, "type") = "START_TEST" -> {"test_uuid"}
    [] TextAt(ps, "type") = "RUN_COMPONENT_TEST" ->
         IF \E i \in DOMAIN ps :
              ps[i].key = "test_type" /\ ps[i].value.text = "rgb_led"
         THEN {"test_type", "parameters"} ELSE {"test_type"}
    [] OTHER -> {}

ScalarFits(pair) ==
  CASE pair.key = "protocol_version" -> pair.value = Number(1)
    [] pair.key = "type" ->
         pair.value.kind = "text" /\ pair.value.text \in RequestTypes
    [] pair.key = "command_id" ->
         \E n \in 1 .. MaxUint32 : pair.value = Number(n)
    [] pair.key = "test_uuid" ->
         pair.value.kind = "text" /\ pair.value.text \in Uuids
    [] pair.key = "test_type" ->
         pair.value.kind = "text" /\ pair.value.text \in Names
    [] pair.key = "parameters" ->
         /\ pair.value = Open
         /\ EachOnce(pair.inner, Colours)
         /\ \A i \in DOMAIN pair.inner :
              \E n \in 0 .. MaxUint8 : pair.inner[i].value = Number(n)

IsRequest(ps) ==
  /\ "type" \in Keys(ps)
  /\ EachOnce(ps, Shape(ps))
  /\ \A i \in DOMAIN ps : ScalarFits(ps[i])

Meaning(ps) ==
  LET coloured == "parameters" \in Keys(ps)
      colour(c) == IF coloured
                   THEN NumberAt(At(ps, "parameters").inner, c) ELSE 0
  IN [type |-> TextAt(ps, "type"),
      command_id |-> NumberAt(ps, "command_id"),
      test_uuid |-> IF "test_uuid" \in Keys(ps)
                    THEN TextAt(ps, "test_uuid") ELSE "",
      test_type |-> IF "test_type" \in Keys(ps)
                    THEN TextAt(ps, "test_type") ELSE "",
      rgb_colour_present |-> coloured,
      red |-> colour("red"), green |-> colour("green"),
      blue |-> colour("blue")]

(***************************************************************************)
(* A line is accepted exactly if it is one request of the protocol,        *)
(* written in one piece, and the parser has understood what it means.  A   *)
(* request that continues the remains of another one is never carried out, *)
(* be it in part, and no request is accepted whose type the dispatcher of  *)
(* session_protocol.c does not know.                                       *)
(***************************************************************************)
AcceptedAsMeant ==
  at = "done" =>
    /\ accepted <=> cuts = 0 /\ IsRequest(pairs)
    /\ accepted => request = Meaning(pairs)

(***************************************************************************)
(* The parser reads no token that jsmn has not written: tokens[index + 1]  *)
(* is there whenever a turn begins, however the line was damaged.          *)
(***************************************************************************)
ReadsInitialised ==
  at = "pairs" /\ index <= Len(tokens) => index < Len(tokens)
=============================================================================
