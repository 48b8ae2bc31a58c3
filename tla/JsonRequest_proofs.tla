------------------------- MODULE JsonRequest_proofs -------------------------
(***************************************************************************)
(* What json_protocol_parse_request makes of a line.                       *)
(*                                                                         *)
(* The first part assumes nothing of what jsmn leaves in the array of      *)
(* tokens, so its theorems hold of every line of every host                *)
(* (TurnsReadWritten, AcceptedIsComplete).  The second part is about jsmn  *)
(* on the lines of the tester: induction on the lexemes shows what an      *)
(* abandoned write leaves behind (RemainsRefused) and where the pairs of a *)
(* whole request are among the tokens (FrameScanned).  The third part      *)
(* follows the parser through these tokens (RequestsUnderstood).           *)
(***************************************************************************)
EXTENDS JsonRequest, SequenceTheorems, FiniteSetTheorems,
        WellFoundedInduction, TLAPS

Parsing == at \in {"pairs", "colour"}

(***************************************************************************)
(* The loops go through the tokens in twos, from the second one on; the    *)
(* number of tokens is odd.                                                *)
(***************************************************************************)
InStep ==
  Parsing => /\ Len(tokens) \in {7, 9, 17}
             /\ \E turn \in Nat : index = 2 * turn
             /\ index >= 2 /\ index <= Len(tokens) + 1

LEMMA PairAhead ==
  ASSUME InStep, at = "pairs", index <= Len(tokens)
  PROVE  index < Len(tokens)
<1>1. PICK turn \in Nat : index = 2 * turn
  BY DEF InStep, Parsing
<1>2. Len(tokens) \in {7, 9, 17}
  BY DEF InStep, Parsing
<1>3. CASE Len(tokens) = 7
  BY <1>1, <1>3
<1>4. CASE Len(tokens) = 9
  BY <1>1, <1>4
<1>5. CASE Len(tokens) = 17
  BY <1>1, <1>5
<1>6. QED
  BY <1>2, <1>3, <1>4, <1>5

LEMMA InStepInit == Init => InStep
BY DEF Init, InStep, Parsing

LEMMA InStepKept == InStep /\ [Next]_vars => InStep'
<1> SUFFICES ASSUME InStep, [Next]_vars PROVE InStep'
  OBVIOUS
<1>1. CASE Host
  BY <1>1 DEF Host, Compose, Edit, Abandon, WriteLine, InStep, Parsing,
              parserVars
<1>2. CASE Tokenize
  <2>1. CASE at' # "pairs"
    BY <1>2, <2>1 DEF Tokenize, Answer, InStep, Parsing
  <2>2. CASE at' = "pairs"
    <3>1. Len(tokens') \in {7, 9, 17} /\ index' = 2
      BY <1>2, <2>2 DEF Tokenize, Answer, CountFits
    <3>2. 2 = 2 * 1 /\ 1 \in Nat
      OBVIOUS
    <3>3. QED
      BY <3>1, <3>2 DEF InStep
  <2>3. QED
    BY <2>1, <2>2
<1>3. ASSUME Parsing, index < Len(tokens), index' = index + 2,
             UNCHANGED tokens
      PROVE  InStep'
  <2>1. PICK turn \in Nat : index = 2 * turn
    BY <1>3 DEF InStep
  <2>2. index' = 2 * (turn + 1) /\ turn + 1 \in Nat
    BY <1>3, <2>1
  <2>3. Len(tokens) \in {7, 9, 17} /\ index >= 2
    BY <1>3 DEF InStep
  <2>4. index' >= 2 /\ index' <= Len(tokens) + 1
    BY <1>3, <2>1, <2>2, <2>3
  <2>5. QED
    BY <1>3, <2>2, <2>3, <2>4 DEF InStep
<1>4. CASE ParsePair
  <2>1. at = "pairs" /\ index <= Len(tokens) /\ UNCHANGED tokens
    BY <1>4 DEF ParsePair
  <2>2. index < Len(tokens)
    BY <2>1, PairAhead
  <2>3. CASE TakePair
    BY <1>3, <2>1, <2>2, <2>3 DEF TakePair, Parsing
  <2>4. CASE RefusePair
    BY <2>4 DEF RefusePair, Answer, InStep, Parsing
  <2>5. QED
    BY <1>4, <2>3, <2>4 DEF ParsePair
<1>5. CASE ParseColour
  <2>1. CASE at' = "done"
    BY <2>1 DEF InStep, Parsing
  <2>2. CASE at' # "done"
    BY <1>3, <1>5, <2>2 DEF ParseColour, InObject, Answer, Parsing
  <2>3. QED
    BY <2>1, <2>2
<1>6. CASE ColourDone
  BY <1>6 DEF ColourDone, Answer, InStep, Parsing
<1>7. CASE CheckFields \/ NextLine
  BY <1>7 DEF CheckFields, NextLine, Answer, InStep, Parsing
<1>8. CASE UNCHANGED vars
  BY <1>8 DEF vars, parserVars, InStep, Parsing
<1>9. QED
  BY <1>1, <1>2, <1>4, <1>5, <1>6, <1>7, <1>8 DEF Next, Parser

(***************************************************************************)
(* ReadsInitialised: a turn of the loop over the pairs always finds the    *)
(* value behind its key among the tokens that jsmn has written.            *)
(***************************************************************************)
THEOREM TurnsReadWritten == Spec => []ReadsInitialised
<1>1. Spec => []InStep
  BY InStepInit, InStepKept, PTL DEF Spec
<1>2. InStep => ReadsInitialised
  BY PairAhead DEF ReadsInitialised
<1>3. QED
  BY <1>1, <1>2, PTL
-----------------------------------------------------------------------------
(***************************************************************************)
(* Which requests the dispatcher of session_protocol.c can be given: for   *)
(* each type the fields it needs, in their range, and nothing in those of  *)
(* the other types.                                                        *)
(***************************************************************************)
Fields ==
  [type : RequestTypes \cup {"INVALID", "UNSUPPORTED"},
   command_id : 0 .. MaxUint32,
   test_uuid : Uuids \cup {""}, test_type : Names \cup {""},
   rgb_colour_present : BOOLEAN,
   red : 0 .. MaxUint8, green : 0 .. MaxUint8, blue : 0 .. MaxUint8]

NoColour(r) ==
  r.rgb_colour_present = FALSE /\ \A c \in Colours : r[c] = 0

Complete(r) ==
  /\ r \in Fields /\ r.command_id > 0
  /\ \/ /\ r.type = "START_TEST"
        /\ r.test_uuid \in Uuids /\ r.test_type = "" /\ NoColour(r)
     \/ /\ r.type = "RUN_COMPONENT_TEST"
        /\ r.test_uuid = "" /\ r.test_type \in Names
        /\ IF r.test_type = "rgb_led" THEN r.rgb_colour_present
                                      ELSE NoColour(r)
     \/ /\ r.type = "STOP_COMPONENT_TEST"
        /\ r.test_uuid = "" /\ r.test_type = "" /\ NoColour(r)

(***************************************************************************)
(* A field holds a value when its flag is set and is empty when it is not; *)
(* the colours are set between the flags of their own and "parameters".    *)
(***************************************************************************)
Holds ==
  /\ request \in Fields
  /\ "command_id" \in seen => request.command_id > 0
  /\ "test_uuid" \in seen => request.test_uuid \in Uuids
  /\ "test_uuid" \notin seen => request.test_uuid = ""
  /\ "test_type" \in seen => request.test_type \in Names
  /\ "test_type" \notin seen => request.test_type = ""
  /\ "parameters" \in seen => request.rgb_colour_present = TRUE
  /\ "parameters" \notin seen => request.rgb_colour_present = FALSE
  /\ at # "colour" /\ at # "done" /\ "parameters" \notin seen
       => \A c \in Colours : request[c] = 0

Answers ==
  /\ accepted \in BOOLEAN
  /\ accepted => at = "done" /\ Complete(request)

Inv == Holds /\ Answers

LEMMA EmptyRequest ==
  /\ InitialRequest \in Fields
  /\ \A c \in Colours : InitialRequest[c] = 0
  /\ InitialRequest.test_uuid = "" /\ InitialRequest.test_type = ""
  /\ InitialRequest.rgb_colour_present = FALSE
<1>1. 0 \in 0 .. MaxUint32 /\ 0 \in 0 .. MaxUint8
  BY NumberWidths
<1>2. InitialRequest \in Fields
  BY <1>1 DEF InitialRequest, Fields
<1>3. /\ InitialRequest["red"] = 0 /\ InitialRequest["green"] = 0
      /\ InitialRequest["blue"] = 0
  BY DEF InitialRequest
<1>4. \A c \in Colours : InitialRequest[c] = 0
  BY <1>3 DEF Colours
<1>5. QED
  BY <1>2, <1>4 DEF InitialRequest

LEMMA InitialFits ==
  ASSUME request' = InitialRequest, seen' = {}
  PROVE  Holds'
BY EmptyRequest DEF Holds

LEMMA InitInv == Init => Inv
<1> SUFFICES ASSUME Init PROVE Inv
  OBVIOUS
<1>1. request = InitialRequest /\ seen = {} /\ accepted = FALSE
  BY DEF Init
<1>2. QED
  BY <1>1, EmptyRequest DEF Inv, Holds, Answers

LEMMA RefusedHolds ==
  ASSUME Inv, Answer(FALSE), UNCHANGED <<request, seen>>
  PROVE  Inv'
BY DEF Inv, Holds, Answers, Answer

LEMMA ScalarTaken ==
  ASSUME Inv, at = "pairs", ValidScalar, NotSeen(CurrentKey),
         seen' = seen \cup {CurrentKey}, request' = Taken,
         UNCHANGED <<at, accepted>>
  PROVE  Inv'
<1>1. Answers'
  BY DEF Inv, Answers
<1>2. request \in Fields
  BY DEF Inv, Holds
<1>3. CASE CurrentKey = "protocol_version"
  BY <1>1, <1>3 DEF Taken, Inv, Holds
<1>4. CASE CurrentKey = "type"
  <2> DEFINE type == IF CurrentValue.text \in RequestTypes
                     THEN CurrentValue.text ELSE "UNSUPPORTED"
  <2>1. type \in RequestTypes \cup {"INVALID", "UNSUPPORTED"}
    OBVIOUS
  <2>2. request' = [request EXCEPT !.type = type]
    BY <1>4 DEF Taken
  <2> HIDE DEF type
  <2>3. request' \in Fields
    BY <1>2, <2>1, <2>2 DEF Fields
  <2>4. \A f \in DOMAIN request : f # "type" => request'[f] = request[f]
    BY <1>2, <2>2 DEF Fields
  <2>5. QED
    BY <1>1, <1>2, <1>4, <2>2, <2>3 DEF Inv, Holds, Fields, Colours
<1>5. CASE CurrentKey = "command_id"
  <2> DEFINE n == CurrentValue.number
  <2>1. n \in 1 .. MaxUint32 /\ request' = [request EXCEPT !.command_id = n]
    BY <1>5 DEF ValidScalar, PositiveUint32, Taken
  <2> HIDE DEF n
  <2>2. n \in 0 .. MaxUint32 /\ n > 0
    BY <2>1, NumberWidths
  <2>3. request' \in Fields /\ request'.command_id > 0
    BY <1>2, <2>1, <2>2 DEF Fields
  <2>4. QED
    BY <1>1, <1>2, <1>5, <2>1, <2>3 DEF Inv, Holds, Fields, Colours
<1>6. CASE CurrentKey = "test_uuid"
  <2> DEFINE t == CurrentValue.text
  <2>1. t \in Uuids /\ request' = [request EXCEPT !.test_uuid = t]
    BY <1>6 DEF ValidScalar, Taken
  <2> HIDE DEF t
  <2>2. request' \in Fields
    BY <1>2, <2>1 DEF Fields
  <2>3. QED
    BY <1>1, <1>2, <1>6, <2>1, <2>2 DEF Inv, Holds, Fields, Colours
<1>7. CASE CurrentKey = "test_type"
  <2> DEFINE t == CurrentValue.text
  <2>1. t \in Names /\ request' = [request EXCEPT !.test_type = t]
    BY <1>7 DEF ValidScalar, Taken
  <2> HIDE DEF t
  <2>2. request' \in Fields
    BY <1>2, <2>1 DEF Fields
  <2>3. QED
    BY <1>1, <1>2, <1>7, <2>1, <2>2 DEF Inv, Holds, Fields, Colours
<1>8. QED
  BY <1>3, <1>4, <1>5, <1>6, <1>7 DEF ValidScalar

LEMMA ColourTaken ==
  ASSUME Inv, at = "colour", ValidColour,
         seen' = seen \cup {CurrentKey},
         request' = [request EXCEPT ![CurrentKey] = CurrentValue.number],
         UNCHANGED <<at, accepted>>
  PROVE  Inv'
<1>1. Answers'
  BY DEF Inv, Answers
<1> DEFINE n == CurrentValue.number
           c == CurrentKey
<1>2. /\ request \in Fields /\ n \in 0 .. MaxUint8
      /\ c \in {"red", "green", "blue"}
  BY DEF Inv, Holds, ValidColour, Uint8, Colours
<1>3. request' = [request EXCEPT ![c] = n] /\ seen' = seen \cup {c}
  OBVIOUS
<1> HIDE DEF n, c
<1>4. request' \in Fields
  <2>1. CASE c = "red"
    BY <1>2, <1>3, <2>1 DEF Fields
  <2>2. CASE c = "green"
    BY <1>2, <1>3, <2>2 DEF Fields
  <2>3. CASE c = "blue"
    BY <1>2, <1>3, <2>3 DEF Fields
  <2>4. QED
    BY <1>2, <2>1, <2>2, <2>3
<1>5. QED
  BY <1>1, <1>2, <1>3, <1>4 DEF Inv, Holds, Fields

LEMMA ParametersTaken ==
  ASSUME Inv, at = "colour", at' = "pairs",
         request' = [request EXCEPT !.rgb_colour_present = TRUE],
         seen' = seen \cup {"parameters"}, UNCHANGED accepted
  PROVE  Inv'
<1>1. request \in Fields
  BY DEF Inv, Holds
<1>2. request' \in Fields
  BY <1>1 DEF Fields
<1>3. QED
  BY <1>1, <1>2 DEF Inv, Holds, Answers, Fields

LEMMA FittingIsComplete ==
  ASSUME Holds, at = "pairs", FieldsFit
  PROVE  Complete(request)
<1>1. request \in Fields /\ request.command_id > 0
  BY DEF FieldsFit, Holds
<1>2. "parameters" \notin seen => NoColour(request)
  BY DEF Holds, NoColour
<1>3. CASE request.type = "START_TEST"
  BY <1>1, <1>2, <1>3 DEF FieldsFit, Holds, Complete
<1>4. CASE request.type = "RUN_COMPONENT_TEST"
  BY <1>1, <1>2, <1>4 DEF FieldsFit, Holds, Complete
<1>5. CASE /\ request.type # "START_TEST"
           /\ request.type # "RUN_COMPONENT_TEST"
  BY <1>1, <1>2, <1>5 DEF FieldsFit, Holds, Complete
<1>6. QED
  BY <1>3, <1>4, <1>5

LEMMA InvKept == Inv /\ [Next]_vars => Inv'
<1> SUFFICES ASSUME Inv, [Next]_vars PROVE Inv'
  OBVIOUS
<1>1. CASE Host
  <2>1. /\ at \in {"idle", "writing"} /\ UNCHANGED parserVars
    BY <1>1 DEF Host, Compose, Edit, Abandon, WriteLine
  <2>2. UNCHANGED <<seen, request>> /\ accepted' = FALSE
    BY <2>1 DEF parserVars, Inv, Answers
  <2>3. QED
    BY <2>1, <2>2 DEF Inv, Holds, Answers
<1>2. CASE Tokenize
  <2>1. Holds'
    BY <1>2, InitialFits DEF Tokenize
  <2>2. accepted' = FALSE
    BY <1>2 DEF Tokenize, Answer, Inv, Answers
  <2>3. QED
    BY <2>1, <2>2 DEF Inv, Answers
<1>3. CASE ParsePair
  <2>1. CASE RefusePair
    BY <2>1, RefusedHolds DEF RefusePair
  <2>2. CASE TakePair
    <3>1. CASE ValidScalar /\ UNCHANGED <<at, object>>
                /\ seen' = seen \cup {CurrentKey} /\ request' = Taken
      BY <1>3, <2>2, <3>1, ScalarTaken DEF ParsePair, TakePair
    <3>2. CASE at' = "colour" /\ UNCHANGED <<seen, request>>
      BY <1>3, <2>2, <3>2 DEF ParsePair, TakePair, Inv, Holds, Answers
    <3>3. QED
      BY <2>2, <3>1, <3>2 DEF TakePair
  <2>3. QED
    BY <1>3, <2>1, <2>2 DEF ParsePair
<1>4. CASE ParseColour
  <2>1. CASE Answer(FALSE) /\ UNCHANGED <<seen, request>>
    BY <2>1, RefusedHolds
  <2>2. CASE /\ ValidColour /\ UNCHANGED <<at, accepted>>
             /\ request' = [request EXCEPT ![CurrentKey] = CurrentValue.number]
             /\ seen' = seen \cup {CurrentKey}
    BY <1>4, <2>2, ColourTaken DEF ParseColour
  <2>3. QED
    BY <1>4, <2>1, <2>2 DEF ParseColour
<1>5. CASE ColourDone
  <2>1. CASE Answer(FALSE) /\ UNCHANGED <<seen, request>>
    BY <2>1, RefusedHolds
  <2>2. CASE /\ at' = "pairs" /\ UNCHANGED accepted
             /\ request' = [request EXCEPT !.rgb_colour_present = TRUE]
             /\ seen' = seen \cup {"parameters"}
    BY <1>5, <2>2, ParametersTaken DEF ColourDone
  <2>3. QED
    BY <1>5, <2>1, <2>2 DEF ColourDone
<1>6. CASE CheckFields
  <2>1. /\ at = "pairs" /\ at' = "done" /\ accepted' = FieldsFit
        /\ UNCHANGED <<request, seen>>
    BY <1>6 DEF CheckFields, Answer
  <2>2. FieldsFit \in BOOLEAN
    BY DEF FieldsFit
  <2>3. accepted' => Complete(request)
    BY <2>1, FittingIsComplete DEF Inv
  <2>4. Complete(request)' <=> Complete(request)
    BY <2>1 DEF Complete, NoColour
  <2>5. QED
    BY <2>1, <2>2, <2>3, <2>4 DEF Inv, Holds, Answers
<1>7. CASE NextLine
  BY <1>7, InitialFits DEF NextLine, Inv, Answers
<1>8. CASE UNCHANGED vars
  BY <1>8 DEF vars, parserVars, Inv, Holds, Answers, Complete, NoColour
<1>9. QED
  BY <1>1, <1>2, <1>3, <1>4, <1>5, <1>6, <1>7, <1>8 DEF Next, Parser

(***************************************************************************)
(* An accepted request is one the dispatcher can carry out: of a type it   *)
(* knows, with a command_id above zero, with the fields of its type in     *)
(* their range and no others, whatever the line was.                       *)
(***************************************************************************)
THEOREM AcceptedIsComplete == Spec => [](accepted => Complete(request))
<1>1. Inv => (accepted => Complete(request))
  BY DEF Inv, Answers
<1>2. QED
  BY <1>1, InitInv, InvKept, PTL DEF Spec

-----------------------------------------------------------------------------
(***************************************************************************)
(* The second part.  Induction over 0 .. n, and what the recursive         *)
(* functions of the model compute from one step to the next.               *)
(***************************************************************************)
LEMMA Induction ==
  ASSUME NEW n \in Nat, NEW S, 0 \in S,
         \A i \in 1 .. n : i - 1 \in S => i \in S
  PROVE  \A i \in 0 .. n : i \in S
<1> DEFINE R == OpToRel(<, Nat)
           T == {i \in Nat : i \in 0 .. n /\ i \notin S}
<1> SUFFICES ASSUME T # {} PROVE FALSE
  OBVIOUS
<1>1. IsWellFoundedOn(R, Nat)
  BY NatLessThanWellFounded
<1>2. \A x, y \in Nat : x < y => <<x, y>> \in R
  BY DEF OpToRel
<1> HIDE DEF R
<1>3. PICK i \in T : \A y \in T : <<y, i>> \notin R
  <2>1. T \subseteq Nat
    OBVIOUS
  <2> HIDE DEF T
  <2> QED
    BY <1>1, <2>1, WFMin
<1>4. i \in 1 .. n /\ i - 1 \in Nat /\ i - 1 < i /\ i \in Nat
  BY <1>3
<1>5. i - 1 \in T
  BY <1>3, <1>4
<1> QED
  BY <1>2, <1>3, <1>4, <1>5

(***************************************************************************)
(* A recursive function over 0 .. n, each value made of the one before by  *)
(* a step G that stays in T, exists and stays in T.                        *)
(***************************************************************************)
Steps(f, T, n, base, G) ==
  /\ f \in [0 .. n -> T] /\ f[0] = base
  /\ \A i \in 1 .. n : f[i] = G[i][f[i - 1]]

\* A recursive function over 0 .. n exists, whatever its steps are.
LEMMA Recursion ==
  ASSUME NEW T, NEW n \in Nat, NEW base \in T,
         NEW G \in [1 .. n -> [T -> T]]
  PROVE  \E f : Steps(f, T, n, base, G)
<1> DEFINE Reads(k, f) == /\ f \in [0 .. k -> T] /\ f[0] = base
                          /\ \A i \in 1 .. k : f[i] = G[i][f[i - 1]]
           S == {k \in 0 .. n : \E f : Reads(k, f)}
<1>1. 0 \in S
  <2> DEFINE f == [i \in 0 .. 0 |-> base]
  <2>1. Reads(0, f)
    OBVIOUS
  <2> HIDE DEF f
  <2>2. \E g : Reads(0, g)
    BY <2>1
  <2> QED
    BY <2>2
<1>2. ASSUME NEW k \in 1 .. n, k - 1 \in S
      PROVE  k \in S
  <2>1. PICK g : Reads(k - 1, g)
    BY <1>2
  <2> DEFINE f == [i \in 0 .. k |-> IF i < k THEN g[i] ELSE G[k][g[k - 1]]]
  <2>2. k - 1 \in Nat /\ k \in Nat /\ k - 1 \in 0 .. k - 1
    OBVIOUS
  <2>3. g[k - 1] \in T /\ G[k][g[k - 1]] \in T
    BY <2>1, <2>2
  <2>4. f \in [0 .. k -> T] /\ f[0] = base
    BY <2>1, <2>2, <2>3
  <2>5. ASSUME NEW i \in 1 .. k PROVE f[i] = G[i][f[i - 1]]
    <3>1. f[i - 1] = g[i - 1]
      BY <2>2
    <3>2. CASE i = k
      <4>1. f[k] = G[k][g[k - 1]]
        BY <2>2
      <4> QED
        BY <3>1, <3>2, <4>1
    <3>3. CASE i # k
      <4>1. i \in 1 .. k - 1 /\ f[i] = g[i]
        BY <2>2, <3>3
      <4> QED
        BY <2>1, <3>1, <4>1
    <3> QED
      BY <3>2, <3>3
  <2>6. Reads(k, f)
    BY <2>4, <2>5
  <2> HIDE DEF f
  <2>7. \E h : Reads(k, h)
    BY <2>6
  <2> QED
    BY <2>2, <2>7
<1> HIDE DEF S
<1>3. \A i \in 0 .. n : i \in S
  BY <1>1, <1>2, Induction
<1>4. n \in S
  BY <1>3
<1> QED
  BY <1>4 DEF S, Steps

-----------------------------------------------------------------------------
(***************************************************************************)
(* The scanner: its types, and its steps outside of strings and            *)
(* primitives, field by field.                                             *)
(***************************************************************************)
Texts == STRING \cup {"", Garbled}

Lexemes ==
  [kind : {"open", "close", "text", "number", "half"},
   text : Texts, number : Int, ended : BOOLEAN]

TokenSet ==
  [type : {"object", "string", "primitive"}, text : Texts, number : Int,
   start : Nat, end : Nat]

Scanners ==
  [tokens : Seq(TokenSet), open : Seq(Nat),
   tail : {"none", "string", "primitive"}, position : Nat,
   invalid : BOOLEAN]

LEMMA TokenType ==
  ASSUME NEW type \in {"object", "string", "primitive"}, NEW l \in Lexemes,
         NEW position \in Nat
  PROVE  /\ Token(type, l, position) \in TokenSet
         /\ GarbledToken(type, position) \in TokenSet
<1>1. Garbled \in Texts
  BY DEF Texts
<1>2. Lexeme("text", Garbled, 0, FALSE) \in Lexemes
  BY <1>1 DEF Lexeme, Lexemes
<1> QED
  BY <1>2 DEF Token, GarbledToken, TokenSet, Lexemes

LEMMA ScanOpen ==
  ASSUME NEW s \in Scanners, s.tail = "none",
         NEW l \in Lexemes, l.kind = "open"
  PROVE  Scan(s, l) =
           [tokens |-> Append(s.tokens, Token("object", l, s.position)),
            open |-> Append(s.open, Len(s.tokens) + 1), tail |-> "none",
            position |-> s.position + 1, invalid |-> s.invalid]
<1>1. ScanPlain(s, l) =
         [s EXCEPT !.tokens = Append(s.tokens, Token("object", l, s.position)),
                       !.open = Append(s.open, Len(s.tokens) + 1)]
  BY DEF ScanPlain
<1>2. Scan(s, l) = [ScanPlain(s, l) EXCEPT !.position = s.position + 1]
  BY DEF Scan
<1> QED
  BY <1>1, <1>2 DEF Scanners

WithEnd(t, k, e) == [t EXCEPT ![k].end = e]

LEMMA ScanClose ==
  ASSUME NEW s \in Scanners, s.tail = "none", s.open # << >>,
         NEW l \in Lexemes, l.kind = "close"
  PROVE  Scan(s, l) =
           [tokens |-> WithEnd(s.tokens, Last(s.open), s.position),
            open |-> Front(s.open), tail |-> "none",
            position |-> s.position + 1, invalid |-> s.invalid]
<1>1. ScanPlain(s, l) =
         [s EXCEPT !.tokens = WithEnd(s.tokens, Last(s.open), s.position),
                   !.open = Front(s.open)]
  BY DEF ScanPlain, WithEnd
<1>2. Scan(s, l) = [ScanPlain(s, l) EXCEPT !.position = s.position + 1]
  BY DEF Scan
<1> QED
  BY <1>1, <1>2 DEF Scanners

LEMMA ScanText ==
  ASSUME NEW s \in Scanners, s.tail = "none",
         NEW l \in Lexemes, l.kind = "text"
  PROVE  Scan(s, l) =
           [tokens |-> Append(s.tokens, Token("string", l, s.position)),
            open |-> s.open, tail |-> "none",
            position |-> s.position + 1, invalid |-> s.invalid]
<1>1. ScanPlain(s, l) =
         [s EXCEPT !.tokens = Append(s.tokens, Token("string", l, s.position))]
  BY DEF ScanPlain
<1>2. Scan(s, l) = [ScanPlain(s, l) EXCEPT !.position = s.position + 1]
  BY DEF Scan
<1> QED
  BY <1>1, <1>2 DEF Scanners

LEMMA ScanNumber ==
  ASSUME NEW s \in Scanners, s.tail = "none",
         NEW l \in Lexemes, l.kind = "number"
  PROVE  Scan(s, l) =
           [tokens |-> Append(s.tokens, Token("primitive", l, s.position)),
            open |-> s.open,
            tail |-> IF l.ended THEN "none" ELSE "primitive",
            position |-> s.position + 1, invalid |-> s.invalid]
<1>1. ScanPlain(s, l) =
         [s EXCEPT !.tokens = Append(s.tokens, Token("primitive", l, s.position)),
                       !.tail = IF l.ended THEN "none" ELSE "primitive"]
  BY DEF ScanPlain
<1>2. Scan(s, l) = [ScanPlain(s, l) EXCEPT !.position = s.position + 1]
  BY DEF Scan
<1> QED
  BY <1>1, <1>2 DEF Scanners

LEMMA ScanHalf ==
  ASSUME NEW s \in Scanners, s.tail = "none",
         NEW l \in Lexemes, l.kind = "half"
  PROVE  Scan(s, l) =
           [tokens |-> s.tokens, open |-> s.open, tail |-> "string",
            position |-> s.position + 1, invalid |-> s.invalid]
<1>1. ScanPlain(s, l) =
         [s EXCEPT !.tail = "string"]
  BY DEF ScanPlain
<1>2. Scan(s, l) = [ScanPlain(s, l) EXCEPT !.position = s.position + 1]
  BY DEF Scan
<1> QED
  BY <1>1, <1>2 DEF Scanners

\* What is left of a stack when its top is taken off.
LEMMA FrontType ==
  ASSUME NEW S, NEW q \in Seq(S), q # << >>
  PROVE  /\ Front(q) \in Seq(S) /\ Len(Front(q)) = Len(q) - 1
         /\ \A i \in 1 .. Len(q) - 1 : Front(q)[i] = q[i]
         /\ Last(q) \in S
<1>1. /\ Len(q) \in Nat /\ Len(q) >= 1
      /\ \A i \in 1 .. Len(q) : q[i] \in S
  BY EmptySeq
<1>2. /\ SubSeq(q, 1, Len(q) - 1) \in Seq(S)
      /\ Len(SubSeq(q, 1, Len(q) - 1)) = Len(q) - 1
      /\ \A i \in 1 .. Len(q) - 1 : SubSeq(q, 1, Len(q) - 1)[i] = q[i]
  <2> DEFINE n == Len(q) - 1
  <2>1. n \in Nat /\ Len(q) = n + 1
    BY <1>1
  <2> HIDE DEF n
  <2>2. \A i \in 1 .. n : q[i] \in S
    BY <1>1, <2>1
  <2>3. /\ SubSeq(q, 1, n) \in Seq(S)
        /\ Len(SubSeq(q, 1, n)) = IF 1 <= n THEN n - 1 + 1 ELSE 0
        /\ \A i \in 1 .. n - 1 + 1 : SubSeq(q, 1, n)[i] = q[1 + i - 1]
    BY <2>1, <2>2, SubSeqProperties
  <2>4. Len(SubSeq(q, 1, n)) = n
    BY <2>1, <2>3
  <2>5. \A i \in 1 .. n : SubSeq(q, 1, n)[i] = q[i]
    BY <2>1, <2>3
  <2> QED
    BY <2>3, <2>4, <2>5 DEF n
<1> QED
  BY <1>1, <1>2 DEF Front, Last

LEMMA EndChanges ==
  ASSUME NEW t \in Seq(TokenSet), NEW k, NEW e \in Nat
  PROVE  /\ WithEnd(t, k, e) \in Seq(TokenSet)
         /\ Len(WithEnd(t, k, e)) = Len(t)
         /\ \A i \in 1 .. Len(t) :
              /\ WithEnd(t, k, e)[i].type = t[i].type
              /\ WithEnd(t, k, e)[i].text = t[i].text
              /\ WithEnd(t, k, e)[i].number = t[i].number
              /\ WithEnd(t, k, e)[i].start = t[i].start
              /\ i # k => WithEnd(t, k, e)[i] = t[i]
              /\ i = k => WithEnd(t, k, e)[i].end = e
<1> DEFINE u == [t EXCEPT ![k].end = e]
<1>1. /\ DOMAIN u = 1 .. Len(t)
      /\ \A i \in 1 .. Len(t) :
           u[i] = IF i = k THEN [t[i] EXCEPT !.end = e] ELSE t[i]
  OBVIOUS
<1>2. \A i \in 1 .. Len(t) : t[i] \in TokenSet
  OBVIOUS
<1>3. \A i \in 1 .. Len(t) :
        /\ u[i] \in TokenSet
        /\ u[i].type = t[i].type /\ u[i].text = t[i].text
        /\ u[i].number = t[i].number /\ u[i].start = t[i].start
        /\ i # k => u[i] = t[i]
        /\ i = k => u[i].end = e
  BY <1>1, <1>2 DEF TokenSet
<1>4. u \in Seq(TokenSet) /\ Len(u) = Len(t)
  <2>1. t \in [1 .. Len(t) -> TokenSet] /\ Len(t) \in Nat
    BY LenProperties
  <2>2. u = [i \in 1 .. Len(t) |-> u[i]]
    BY <2>1
  <2> HIDE DEF u
  <2>3. u \in [1 .. Len(t) -> TokenSet]
    BY <1>3, <2>2
  <2> QED
    BY <2>1, <2>3
<1> QED
  BY <1>3, <1>4 DEF WithEnd

LEMMA TextChanges ==
  ASSUME NEW t \in Seq(TokenSet), NEW k
  PROVE  /\ [t EXCEPT ![k].text = Garbled] \in Seq(TokenSet)
         /\ Len([t EXCEPT ![k].text = Garbled]) = Len(t)
         /\ \A i \in 1 .. Len(t) :
              /\ [t EXCEPT ![k].text = Garbled][i].type = t[i].type
              /\ [t EXCEPT ![k].text = Garbled][i].text
                   = IF i = k THEN Garbled ELSE t[i].text
<1> DEFINE u == [t EXCEPT ![k].text = Garbled]
<1>1. /\ DOMAIN u = 1 .. Len(t)
      /\ \A i \in 1 .. Len(t) :
           u[i] = IF i = k THEN [t[i] EXCEPT !.text = Garbled] ELSE t[i]
  OBVIOUS
<1>2. (\A i \in 1 .. Len(t) : t[i] \in TokenSet) /\ Garbled \in Texts
  BY DEF Texts
<1>3. \A i \in 1 .. Len(t) :
        /\ u[i] \in TokenSet
        /\ u[i].type = t[i].type
        /\ u[i].text = IF i = k THEN Garbled ELSE t[i].text
  BY <1>1, <1>2 DEF TokenSet
<1>4. u \in Seq(TokenSet) /\ Len(u) = Len(t)
  <2>1. t \in [1 .. Len(t) -> TokenSet] /\ Len(t) \in Nat
    BY LenProperties
  <2>2. u = [i \in 1 .. Len(t) |-> u[i]]
    BY <2>1
  <2> HIDE DEF u
  <2>3. u \in [1 .. Len(t) -> TokenSet]
    BY <1>3, <2>2
  <2> QED
    BY <2>1, <2>3
<1> QED
  BY <1>3, <1>4

(***************************************************************************)
(* No lexeme takes a token back, changes its type or repairs its text.     *)
(***************************************************************************)
Follows(s, t) ==
  /\ Len(s.tokens) <= Len(t.tokens)
  /\ \A i \in 1 .. Len(s.tokens) :
       /\ t.tokens[i].type = s.tokens[i].type
       /\ s.tokens[i].text = Garbled => t.tokens[i].text = Garbled

LEMMA Appended ==
  ASSUME NEW t \in Seq(TokenSet), NEW e \in TokenSet
  PROVE  /\ Append(t, e) \in Seq(TokenSet) /\ Len(Append(t, e)) = Len(t) + 1
         /\ \A i \in 1 .. Len(t) : Append(t, e)[i] = t[i]
         /\ Append(t, e)[Len(t) + 1] = e
         /\ Len(t) \in Nat /\ Append(t, e) # << >>
<1>1. /\ Append(t, e) \in Seq(TokenSet) /\ Len(Append(t, e)) = Len(t) + 1
      /\ \A i \in 1 .. Len(t) : Append(t, e)[i] = t[i]
      /\ Append(t, e)[Len(t) + 1] = e
      /\ Len(t) \in Nat
  BY AppendProperties, LenProperties
<1>2. Append(t, e) # << >>
  BY <1>1, EmptySeq
<1> QED
  BY <1>1, <1>2

\* A lexeme outside of strings and primitives keeps the tokens before it.
LEMMA PlainKeeps ==
  ASSUME NEW s \in Scanners, s.tail = "none", NEW l \in Lexemes,
         NEW t, t = Scan(s, l)
  PROVE  t \in Scanners /\ Follows(s, t)
<1>1. /\ s.tokens \in Seq(TokenSet) /\ s.open \in Seq(Nat)
      /\ s.position \in Nat /\ s.position + 1 \in Nat /\ s.invalid \in BOOLEAN
      /\ l.ended \in BOOLEAN /\ l.kind \in {"open", "close", "text", "number", "half"}
  BY DEF Scanners, Lexemes
<1>2. /\ Token("object", l, s.position) \in TokenSet
      /\ Token("string", l, s.position) \in TokenSet
      /\ Token("primitive", l, s.position) \in TokenSet
  BY <1>1, TokenType
<1>3. ASSUME NEW e \in TokenSet, t.tokens = Append(s.tokens, e)
      PROVE  t.tokens \in Seq(TokenSet) /\ Follows(s, t)
  <2>1. Len(s.tokens) <= Len(t.tokens)
    BY <1>1, <1>3, Appended
  <2>2. \A i \in 1 .. Len(s.tokens) : t.tokens[i] = s.tokens[i]
    BY <1>1, <1>3, Appended
  <2>3. t.tokens \in Seq(TokenSet)
    BY <1>1, <1>3, Appended
  <2> QED
    BY <2>1, <2>2, <2>3 DEF Follows
<1>4. ASSUME t.tokens = s.tokens
      PROVE  t.tokens \in Seq(TokenSet) /\ Follows(s, t)
  BY <1>1, <1>4 DEF Follows
<1>5. CASE l.kind = "open"
  <2>1. t = [tokens |-> Append(s.tokens, Token("object", l, s.position)),
            open |-> Append(s.open, Len(s.tokens) + 1), tail |-> "none",
            position |-> s.position + 1, invalid |-> s.invalid]
    BY <1>5, ScanOpen
  <2>2. Append(s.open, Len(s.tokens) + 1) \in Seq(Nat)
    <3>1. Len(s.tokens) + 1 \in Nat
      BY <1>1, LenProperties
    <3> QED
      BY <1>1, <3>1, AppendProperties
  <2>3. t.tokens = Append(s.tokens, Token("object", l, s.position))
    BY <2>1
  <2>4. t.tokens \in Seq(TokenSet) /\ Follows(s, t)
    BY <1>2, <1>3, <2>3
  <2> QED
    BY <1>1, <2>1, <2>2, <2>4 DEF Scanners
<1>6. CASE l.kind = "text"
  <2>1. t = [tokens |-> Append(s.tokens, Token("string", l, s.position)),
            open |-> s.open, tail |-> "none",
            position |-> s.position + 1, invalid |-> s.invalid]
    BY <1>6, ScanText
  <2>2. t.tokens = Append(s.tokens, Token("string", l, s.position))
    BY <2>1
  <2>3. t.tokens \in Seq(TokenSet) /\ Follows(s, t)
    BY <1>2, <1>3, <2>2
  <2> QED
    BY <1>1, <2>1, <2>3 DEF Scanners
<1>7. CASE l.kind = "number"
  <2>1. t = [tokens |-> Append(s.tokens, Token("primitive", l, s.position)),
            open |-> s.open,
            tail |-> IF l.ended THEN "none" ELSE "primitive",
            position |-> s.position + 1, invalid |-> s.invalid]
    BY <1>7, ScanNumber
  <2>2. t.tokens = Append(s.tokens, Token("primitive", l, s.position))
    BY <2>1
  <2>3. t.tokens \in Seq(TokenSet) /\ Follows(s, t)
    BY <1>2, <1>3, <2>2
  <2> QED
    BY <1>1, <2>1, <2>3 DEF Scanners
<1>8. CASE l.kind = "half"
  <2>1. t = [tokens |-> s.tokens, open |-> s.open, tail |-> "string",
            position |-> s.position + 1, invalid |-> s.invalid]
    BY <1>8, ScanHalf
  <2>2. t.tokens \in Seq(TokenSet) /\ Follows(s, t)
    BY <1>4, <2>1
  <2> QED
    BY <1>1, <2>1, <2>2 DEF Scanners
<1>9. CASE l.kind = "close" /\ s.open = << >>
  <2>1. ScanPlain(s, l) = [s EXCEPT !.invalid = TRUE]
    BY <1>9 DEF ScanPlain
  <2>2. t = [ScanPlain(s, l) EXCEPT !.position = s.position + 1]
    BY DEF Scan
  <2>3. t = [tokens |-> s.tokens, open |-> s.open, tail |-> s.tail,
             position |-> s.position + 1, invalid |-> TRUE]
    BY <2>1, <2>2 DEF Scanners
  <2>4. t.tokens \in Seq(TokenSet) /\ Follows(s, t)
    BY <1>4, <2>3
  <2> QED
    BY <1>1, <2>3, <2>4 DEF Scanners
<1>10. CASE l.kind = "close" /\ s.open # << >>
  <2> DEFINE u == WithEnd(s.tokens, Last(s.open), s.position)
  <2>1. t = [tokens |-> u, open |-> Front(s.open), tail |-> "none",
            position |-> s.position + 1, invalid |-> s.invalid]
    BY <1>10, ScanClose
  <2>2. /\ u \in Seq(TokenSet) /\ Len(u) = Len(s.tokens)
        /\ \A i \in 1 .. Len(s.tokens) :
             u[i].type = s.tokens[i].type /\ u[i].text = s.tokens[i].text
    BY <1>1, EndChanges
  <2> HIDE DEF u
  <2>3. Front(s.open) \in Seq(Nat)
    BY <1>1, <1>10, FrontType
  <2>4. t.tokens = u
    BY <2>1
  <2>5. Follows(s, t)
    BY <1>1, <2>2, <2>4, LenProperties DEF Follows
  <2> QED
    BY <1>1, <2>1, <2>2, <2>3, <2>5 DEF Scanners
<1> QED
  BY <1>1, <1>5, <1>6, <1>7, <1>8, <1>9, <1>10

\* Every lexeme does.
LEMMA ScanKeeps ==
  ASSUME NEW s \in Scanners, NEW l \in Lexemes
  PROVE  Scan(s, l) \in Scanners /\ Follows(s, Scan(s, l))
<1>1. /\ s.tokens \in Seq(TokenSet) /\ s.open \in Seq(Nat)
      /\ s.position \in Nat /\ s.position + 1 \in Nat /\ s.invalid \in BOOLEAN
      /\ s.tail \in {"none", "string", "primitive"} /\ l.ended \in BOOLEAN
      /\ Len(s.tokens) \in Nat
  BY LenProperties DEF Scanners, Lexemes
<1>2. CASE s.tail = "none"
  BY <1>2, PlainKeeps
<1>3. CASE s.tail = "string"
  <2>1. Scan(s, l) = [ScanString(s, l) EXCEPT !.position = s.position + 1]
    BY <1>3 DEF Scan
  <2>2. CASE l.kind \notin {"text", "half"}
    <3>1. ScanString(s, l) = s
      BY <2>2 DEF ScanString
    <3>2. Scan(s, l) = [s EXCEPT !.position = s.position + 1]
      BY <2>1, <3>1
    <3> QED
      BY <1>1, <3>2 DEF Scanners, Follows
  <2>3. CASE l.kind \in {"text", "half"} /\ l.text = ""
    <3> DEFINE q == Append(s.tokens, GarbledToken("string", s.position))
    <3>1. ScanString(s, l) = [s EXCEPT !.tokens = q, !.tail = "none"]
      BY <2>3 DEF ScanString
    <3>2. /\ q \in Seq(TokenSet) /\ Len(q) = Len(s.tokens) + 1
          /\ \A i \in 1 .. Len(s.tokens) : q[i] = s.tokens[i]
      BY <1>1, TokenType, Appended
    <3> HIDE DEF q
    <3>3. Scan(s, l) = [tokens |-> q, open |-> s.open, tail |-> "none",
                        position |-> s.position + 1, invalid |-> s.invalid]
      BY <2>1, <3>1 DEF Scanners
    <3> QED
      BY <1>1, <3>2, <3>3 DEF Scanners, Follows
  <2>4. CASE l.kind \in {"text", "half"} /\ l.text # ""
    <3> DEFINE q == Append(s.tokens, GarbledToken("string", s.position))
               r == Append(q, GarbledToken("primitive", s.position))
    <3>1. ScanString(s, l) =
            [s EXCEPT !.tokens = r,
                      !.tail = IF l.ended THEN "none" ELSE "primitive"]
      BY <2>4 DEF ScanString
    <3>2. /\ q \in Seq(TokenSet) /\ Len(q) = Len(s.tokens) + 1
          /\ \A i \in 1 .. Len(s.tokens) : q[i] = s.tokens[i]
      BY <1>1, TokenType, Appended
    <3> HIDE DEF q
    <3>3. /\ r \in Seq(TokenSet) /\ Len(r) = Len(q) + 1
          /\ \A i \in 1 .. Len(q) : r[i] = q[i]
      BY <1>1, <3>2, TokenType, Appended
    <3> HIDE DEF r
    <3>4. Scan(s, l) = [tokens |-> r, open |-> s.open,
                        tail |-> IF l.ended THEN "none" ELSE "primitive",
                        position |-> s.position + 1, invalid |-> s.invalid]
      BY <2>1, <3>1 DEF Scanners
    <3>5. \A i \in 1 .. Len(s.tokens) : r[i] = s.tokens[i]
      BY <1>1, <3>2, <3>3
    <3>6. Len(s.tokens) <= Len(r)
      BY <1>1, <3>2, <3>3
    <3> QED
      BY <1>1, <3>3, <3>4, <3>5, <3>6 DEF Scanners, Follows
  <2> QED
    BY <2>2, <2>3, <2>4
<1>4. CASE s.tail = "primitive"
  <2>1. Scan(s, l) = [ScanPrimitive(s, l) EXCEPT !.position = s.position + 1]
    BY <1>4 DEF Scan
  <2>2. CASE l.kind = "close"
    <3> DEFINE t == [s EXCEPT !.tail = "none"]
    <3>1. /\ t \in Scanners /\ t.tail = "none" /\ t.tokens = s.tokens
          /\ t.position = s.position
      BY DEF Scanners
    <3>2. ScanPrimitive(s, l) = ScanPlain(t, l)
      BY <2>2 DEF ScanPrimitive
    <3> HIDE DEF t
    <3>3. Scan(s, l) = Scan(t, l)
      BY <2>1, <3>1, <3>2 DEF Scan
    <3>4. Scan(t, l) \in Scanners /\ Follows(t, Scan(t, l))
      BY <3>1, PlainKeeps
    <3> QED
      BY <3>1, <3>3, <3>4 DEF Follows
  <2>3. CASE l.kind # "close"
    <3> DEFINE k == Len(s.tokens)
               v == s.tokens
               q == [v EXCEPT ![k].text = Garbled]
    <3>1. ScanPrimitive(s, l) =
            [s EXCEPT !.tokens = q,
                      !.tail = IF l.ended THEN "none" ELSE "primitive"]
      BY <2>3 DEF ScanPrimitive
    <3> HIDE DEF k
    <3>2. /\ q \in Seq(TokenSet) /\ Len(q) = Len(v)
          /\ \A i \in 1 .. Len(v) :
               /\ q[i].type = v[i].type
               /\ q[i].text = IF i = k THEN Garbled ELSE v[i].text
      <4>1. v \in Seq(TokenSet)
        BY <1>1
      <4> HIDE DEF v
      <4> QED
        BY <4>1, TextChanges
    <3> HIDE DEF q
    <3>3. Scan(s, l) = [tokens |-> q, open |-> s.open,
                        tail |-> IF l.ended THEN "none" ELSE "primitive",
                        position |-> s.position + 1, invalid |-> s.invalid]
      BY <2>1, <3>1 DEF Scanners
    <3> QED
      BY <1>1, <3>2, <3>3 DEF Scanners, Follows
  <2> QED
    BY <2>2, <2>3
<1> QED
  BY <1>1, <1>2, <1>3, <1>4

-----------------------------------------------------------------------------
(***************************************************************************)
(* What the scanner goes through on a sequence of lexemes.                 *)
(***************************************************************************)
Trace(s, f, r) ==
  r[0] = s /\ \A i \in 1 .. Len(f) : r[i] = Scan(r[i - 1], f[i])

LEMMA TraceTyped ==
  ASSUME NEW s \in Scanners, NEW f \in Seq(Lexemes), NEW r, Trace(s, f, r)
  PROVE  \A n \in 0 .. Len(f) : r[n] \in Scanners /\ Follows(s, r[n])
<1> DEFINE S == {n \in Nat : r[n] \in Scanners /\ Follows(s, r[n])}
<1>1. Len(f) \in Nat /\ \A i \in 1 .. Len(f) : f[i] \in Lexemes
  BY LenProperties
<1>2. 0 \in S
  BY LenProperties DEF Trace, Follows, Scanners
<1>3. ASSUME NEW i \in 1 .. Len(f), i - 1 \in S
      PROVE  i \in S
  <2>1. r[i] = Scan(r[i - 1], f[i])
    BY DEF Trace
  <2>2. r[i] \in Scanners /\ Follows(r[i - 1], r[i])
    BY <1>1, <1>3, <2>1, ScanKeeps
  <2>3. Follows(s, r[i])
    <3> DEFINE a == r[i - 1]
               b == r[i]
               x == Len(s.tokens)
               y == Len(a.tokens)
    <3>1. /\ a \in Scanners /\ b \in Scanners
          /\ Follows(s, a) /\ Follows(a, b)
      BY <1>3, <2>2
    <3> HIDE DEF a, b
    <3>2. x \in Nat /\ y \in Nat /\ Len(b.tokens) \in Nat
      BY <3>1, LenProperties DEF Scanners
    <3>3. x <= y /\ y <= Len(b.tokens)
      BY <3>1 DEF Follows
    <3> HIDE DEF x, y
    <3>4. (1 .. x) \subseteq (1 .. y) /\ x <= Len(b.tokens)
      BY <3>2, <3>3
    <3> QED
      BY <3>1, <3>4 DEF Follows, a, b, x, y
  <2> QED
    BY <1>1, <2>2, <2>3
<1> HIDE DEF S
<1>4. \A i \in 0 .. Len(f) : i \in S
  BY <1>1, <1>2, <1>3, Induction
<1> QED
  BY <1>4 DEF S

\* ScanAll is where the trace of its lexemes ends.
LEMMA TraceExists ==
  ASSUME NEW s \in Scanners, NEW f \in Seq(Lexemes)
  PROVE  \E r : Trace(s, f, r) /\ ScanAll(s, f) = r[Len(f)]
<1> DEFINE n == Len(f)
           Reads(r) == r = [i \in 0 .. n |->
                              IF i = 0 THEN s ELSE Scan(r[i - 1], f[i])]
           after == CHOOSE r : Reads(r)
<1>1. ScanAll(s, f) = after[n]
  BY DEF ScanAll
<1>2. n \in Nat /\ \A i \in 1 .. n : f[i] \in Lexemes
  BY LenProperties
<1>3. \E r : Reads(r)
  <2> DEFINE G == [i \in 1 .. n |-> [t \in Scanners |-> Scan(t, f[i])]]
  <2>1. G \in [1 .. n -> [Scanners -> Scanners]]
    BY <1>2, ScanKeeps
  <2>2. \A t \in Scanners, i \in 1 .. n : G[i][t] = Scan(t, f[i])
    OBVIOUS
  <2> HIDE DEF G, n
  <2>3. PICK r : Steps(r, Scanners, n, s, G)
    BY <1>2, <2>1, Recursion
  <2>4. \A i \in 1 .. n : r[i] = Scan(r[i - 1], f[i])
    <3> SUFFICES ASSUME NEW i \in 1 .. n PROVE r[i] = Scan(r[i - 1], f[i])
      OBVIOUS
    <3>1. i - 1 \in 0 .. n
      BY <1>2
    <3>2. r[i - 1] \in Scanners
      BY <2>3, <3>1 DEF Steps
    <3> QED
      BY <2>2, <2>3, <3>2 DEF Steps
  <2>5. r = [i \in 0 .. n |-> IF i = 0 THEN s ELSE Scan(r[i - 1], f[i])]
    <3>1. r = [i \in 0 .. n |-> r[i]]
      BY <2>3 DEF Steps
    <3>2. \A i \in 0 .. n : r[i] = IF i = 0 THEN s ELSE Scan(r[i - 1], f[i])
      BY <1>2, <2>3, <2>4 DEF Steps
    <3> QED
      BY <3>1, <3>2
  <2> QED
    BY <2>5 DEF n
<1>4. Reads(after)
  BY <1>3
<1> HIDE DEF after
<1>5. \A i \in 0 .. n : after[i] = IF i = 0 THEN s ELSE Scan(after[i - 1], f[i])
  BY <1>4
<1>6. after[0] = s /\ \A i \in 1 .. n : after[i] = Scan(after[i - 1], f[i])
  BY <1>2, <1>5
<1> HIDE DEF Reads
<1> QED
  BY <1>1, <1>6 DEF Trace

\* There is only one trace.
LEMMA TraceAgrees ==
  ASSUME NEW s \in Scanners, NEW f \in Seq(Lexemes), NEW r, Trace(s, f, r)
  PROVE  ScanAll(s, f) = r[Len(f)]
<1>1. PICK t : Trace(s, f, t) /\ ScanAll(s, f) = t[Len(f)]
  BY TraceExists
<1> DEFINE S == {i \in Nat : r[i] = t[i]}
           n == Len(f)
<1>2. n \in Nat /\ 0 \in S
  BY <1>1, LenProperties DEF Trace
<1>3. \A i \in 1 .. n : i - 1 \in S => i \in S
  <2>1. \A i \in 1 .. n : r[i] = Scan(r[i - 1], f[i]) /\ t[i] = Scan(t[i - 1], f[i])
    BY <1>1 DEF Trace
  <2> HIDE DEF n
  <2> QED
    BY <1>2, <2>1
<1> HIDE DEF S, n
<1>4. \A i \in 0 .. n : i \in S
  BY <1>2, <1>3, Induction
<1>5. n \in S
  BY <1>2, <1>4
<1> QED
  BY <1>1, <1>5 DEF S, n

LEMMA ScanAllKeeps ==
  ASSUME NEW s \in Scanners, NEW f \in Seq(Lexemes)
  PROVE  ScanAll(s, f) \in Scanners /\ Follows(s, ScanAll(s, f))
<1>1. PICK r : Trace(s, f, r) /\ ScanAll(s, f) = r[Len(f)]
  BY TraceExists
<1>2. Len(f) \in 0 .. Len(f)
  BY LenProperties
<1> QED
  BY <1>1, <1>2, TraceTyped

Later(r, n, m) == [i \in 0 .. m |-> r[n + i]]

\* A trace of two parts is a trace of each.
LEMMA TraceSplit ==
  ASSUME NEW s \in Scanners, NEW a \in Seq(Lexemes), NEW b \in Seq(Lexemes),
         NEW r, Trace(s, a \o b, r)
  PROVE  /\ Trace(s, a, r)
         /\ Trace(r[Len(a)], b, Later(r, Len(a), Len(b)))
<1> DEFINE n == Len(a)
           m == Len(b)
           q == [i \in 0 .. m |-> r[n + i]]
           f == a \o b
<1>1. /\ n \in Nat /\ m \in Nat /\ Len(f) = n + m
      /\ \A i \in 1 .. n : f[i] = a[i]
      /\ \A i \in 1 .. m : f[n + i] = b[i]
  <2>1. Len(f) = n + m
    BY ConcatProperties
  <2>2. \A i \in 1 .. n + m : f[i] = IF i <= n THEN a[i] ELSE b[i - n]
    BY ConcatProperties
  <2>3. n \in Nat /\ m \in Nat
    BY LenProperties
  <2> HIDE DEF n, m, f
  <2>4. \A i \in 1 .. n : f[i] = a[i]
    BY <2>2, <2>3
  <2>5. ASSUME NEW i \in 1 .. m PROVE f[n + i] = b[i]
    <3> DEFINE k == n + i
    <3>1. k \in 1 .. n + m /\ ~(k <= n) /\ k - n = i
      BY <2>3
    <3> HIDE DEF k
    <3>2. f[k] = IF k <= n THEN a[k] ELSE b[k - n]
      BY <2>2, <3>1
    <3>3. f[k] = b[i]
      BY <3>1, <3>2
    <3> QED
      BY <3>3 DEF k
  <2> QED
    BY <2>1, <2>3, <2>4, <2>5
<1>2. r[0] = s /\ \A i \in 1 .. n + m : r[i] = Scan(r[i - 1], f[i])
  BY <1>1 DEF Trace
<1> HIDE DEF n, m, f
<1>3. \A i \in 1 .. n : r[i] = Scan(r[i - 1], a[i])
  BY <1>1, <1>2
<1>4. q[0] = r[n]
  BY <1>1
<1>5. ASSUME NEW i \in 1 .. m PROVE q[i] = Scan(q[i - 1], b[i])
  <2>1. i \in 0 .. m /\ i - 1 \in 0 .. m
    BY <1>1
  <2>2. q[i] = r[n + i] /\ q[i - 1] = r[n + (i - 1)]
    BY <2>1
  <2>3. n + (i - 1) = n + i - 1 /\ n + i \in 1 .. n + m
    BY <1>1
  <2> HIDE DEF q
  <2> QED
    BY <1>1, <1>2, <2>2, <2>3
<1> HIDE DEF q
<1>6. Trace(s, a, r)
  BY <1>2, <1>3 DEF Trace, n
<1>7. Trace(r[n], b, q)
  BY <1>4, <1>5 DEF Trace, m
<1> QED
  BY <1>6, <1>7 DEF n, m, q, Later

\* jsmn goes on where it was: a line may be scanned in parts.
LEMMA ScanAllConcat ==
  ASSUME NEW s \in Scanners, NEW a \in Seq(Lexemes), NEW b \in Seq(Lexemes)
  PROVE  ScanAll(s, a \o b) = ScanAll(ScanAll(s, a), b)
<1> DEFINE f == a \o b
<1>1. f \in Seq(Lexemes) /\ Len(f) = Len(a) + Len(b)
  BY ConcatProperties
<1>2. PICK r : Trace(s, f, r) /\ ScanAll(s, f) = r[Len(f)]
  <2> HIDE DEF f
  <2> QED
    BY <1>1, TraceExists
<1> DEFINE q == Later(r, Len(a), Len(b))
<1>3. Trace(s, a, r) /\ Trace(r[Len(a)], b, q)
  BY <1>2, TraceSplit
<1>4. q[Len(b)] = r[Len(a) + Len(b)]
  BY LenProperties DEF Later
<1> HIDE DEF q, f
<1>5. ScanAll(s, a) = r[Len(a)]
  BY <1>3, TraceAgrees
<1>6. ScanAll(s, a) \in Scanners
  BY ScanAllKeeps
<1>7. ScanAll(r[Len(a)], b) = q[Len(b)]
  BY <1>3, <1>5, <1>6, TraceAgrees
<1> QED
  BY <1>1, <1>2, <1>4, <1>5, <1>7 DEF f

LEMMA ScanAllNone ==
  ASSUME NEW s \in Scanners
  PROVE  ScanAll(s, << >>) = s
<1> DEFINE none == << >>
<1>1. none \in Seq(Lexemes) /\ Len(none) = 0
  BY EmptySeq
<1> HIDE DEF none
<1>2. PICK r : Trace(s, none, r) /\ ScanAll(s, none) = r[Len(none)]
  BY <1>1, TraceExists
<1>3. ScanAll(s, none) = s
  BY <1>1, <1>2 DEF Trace
<1> QED
  BY <1>3 DEF none

LEMMA ScanAllOne ==
  ASSUME NEW s \in Scanners, NEW l \in Lexemes
  PROVE  ScanAll(s, << l >>) = Scan(s, l)
<1> DEFINE one == << l >>
<1>1. one \in Seq(Lexemes) /\ Len(one) = 1 /\ one[1] = l
  OBVIOUS
<1> HIDE DEF one
<1>2. PICK r : Trace(s, one, r) /\ ScanAll(s, one) = r[Len(one)]
  BY <1>1, TraceExists
<1>3. r[0] = s /\ r[1] = Scan(r[1 - 1], one[1])
  <2>1. 1 \in 1 .. Len(one)
    BY <1>1
  <2> QED
    BY <1>2, <2>1 DEF Trace
<1>4. ScanAll(s, one) = Scan(s, l)
  BY <1>1, <1>2, <1>3
<1> QED
  BY <1>4 DEF one

-----------------------------------------------------------------------------
(***************************************************************************)
(* The remains of an abandoned request.  A token that no turn of the       *)
(* parser takes is a garbled string or primitive, or an object where a key *)
(* is read.  It stays what it is, whatever follows it in the line.         *)
(***************************************************************************)
Even(n) == \E k \in Nat : n = 2 * k

Unreadable(t, i) ==
  \/ t[i].type # "object" /\ t[i].text = Garbled
  \/ t[i].type = "object" /\ Even(i)

Doomed(s) ==
  \/ s.tail = "string"
  \/ \E i \in 1 .. Len(s.tokens) : Unreadable(s.tokens, i)

\* What no turn takes is still there, whatever follows.
LEMMA DoomedFollows ==
  ASSUME NEW s \in Scanners, NEW t \in Scanners, Follows(s, t),
         \E i \in 1 .. Len(s.tokens) : Unreadable(s.tokens, i)
  PROVE  Doomed(t)
<1>1. PICK i \in 1 .. Len(s.tokens) : Unreadable(s.tokens, i)
  OBVIOUS
<1>2. Len(s.tokens) \in Nat /\ Len(t.tokens) \in Nat
  BY LenProperties DEF Scanners
<1>3. i \in 1 .. Len(t.tokens) /\ Unreadable(t.tokens, i)
  BY <1>1, <1>2 DEF Follows, Unreadable
<1> QED
  BY <1>3 DEF Doomed

\* The next quote ends the half of a string, with other letters in it.
LEMMA QuoteCloses ==
  ASSUME NEW s \in Scanners, s.tail = "string", NEW l \in Lexemes,
         l.kind \in {"text", "half"}
  PROVE  /\ Len(s.tokens) + 1 <= Len(Scan(s, l).tokens)
         /\ Scan(s, l).tokens[Len(s.tokens) + 1].type = "string"
         /\ Scan(s, l).tokens[Len(s.tokens) + 1].text = Garbled
<1> DEFINE g == GarbledToken("string", s.position)
           q == Append(s.tokens, g)
           h == GarbledToken("primitive", s.position)
           r == Append(q, h)
           n == Len(s.tokens)
<1>1. /\ g \in TokenSet /\ h \in TokenSet
      /\ g.type = "string" /\ g.text = Garbled
  <2>1. g.type = "string" /\ g.text = Garbled
    BY DEF GarbledToken, Token, Lexeme
  <2>2. s.position \in Nat
    BY DEF Scanners
  <2> QED
    BY <2>1, <2>2, TokenType
<1>2. s.tokens \in Seq(TokenSet) /\ n \in Nat
  BY LenProperties DEF Scanners
<1> HIDE DEF g, h
<1>3. q \in Seq(TokenSet) /\ Len(q) = n + 1 /\ q[n + 1] = g
  BY <1>1, <1>2, Appended
<1> HIDE DEF q
<1>4. r \in Seq(TokenSet) /\ Len(r) = n + 2 /\ r[n + 1] = g
  <2>1. /\ Len(r) = Len(q) + 1 /\ r \in Seq(TokenSet)
        /\ \A i \in 1 .. Len(q) : r[i] = q[i]
    BY <1>1, <1>3, Appended
  <2>2. n + 1 \in 1 .. Len(q)
    BY <1>2, <1>3
  <2> QED
    BY <1>2, <1>3, <2>1, <2>2
<1> HIDE DEF r
<1>5. Scan(s, l).tokens = q \/ Scan(s, l).tokens = r
  <2>1. Scan(s, l) = [ScanString(s, l) EXCEPT !.position = s.position + 1]
    BY DEF Scan
  <2>2. CASE l.text = ""
    <3>1. ScanString(s, l) = [s EXCEPT !.tokens = q, !.tail = "none"]
      BY <2>2 DEF ScanString, q, g
    <3> QED
      BY <2>1, <3>1 DEF Scanners
  <2>3. CASE l.text # ""
    <3>1. ScanString(s, l) =
            [s EXCEPT !.tokens = r,
                      !.tail = IF l.ended THEN "none" ELSE "primitive"]
      BY <2>3 DEF ScanString, q, g, r, h
    <3> QED
      BY <2>1, <3>1 DEF Scanners
  <2> QED
    BY <2>2, <2>3
<1> QED
  BY <1>1, <1>2, <1>3, <1>4, <1>5

\* No lexeme repairs what an abandoned write has spoilt.
LEMMA DoomedScanned ==
  ASSUME NEW s \in Scanners, Doomed(s), NEW l \in Lexemes
  PROVE  Doomed(Scan(s, l))
<1>1. Scan(s, l) \in Scanners /\ Follows(s, Scan(s, l))
  BY ScanKeeps
<1>2. CASE \E i \in 1 .. Len(s.tokens) : Unreadable(s.tokens, i)
  BY <1>1, <1>2, DoomedFollows
<1>3. CASE s.tail = "string" /\ l.kind \in {"text", "half"}
  <2> DEFINE n == Len(s.tokens)
             t == Scan(s, l)
  <2>1. /\ n + 1 <= Len(t.tokens) /\ t.tokens[n + 1].type = "string"
        /\ t.tokens[n + 1].text = Garbled
    BY <1>3, QuoteCloses
  <2>2. n \in Nat /\ Len(t.tokens) \in Nat
    BY <1>1, LenProperties DEF Scanners
  <2> HIDE DEF n, t
  <2>3. n + 1 \in 1 .. Len(t.tokens) /\ Unreadable(t.tokens, n + 1)
    BY <2>1, <2>2 DEF Unreadable
  <2> QED
    BY <2>3 DEF Doomed, t
<1>4. CASE s.tail = "string" /\ l.kind \notin {"text", "half"}
  <2>1. Scan(s, l) = [s EXCEPT !.position = s.position + 1]
    BY <1>4 DEF Scan, ScanString
  <2> QED
    BY <1>4, <2>1 DEF Doomed, Scanners
<1> QED
  BY <1>2, <1>3, <1>4 DEF Doomed

LEMMA DoomedStays ==
  ASSUME NEW s \in Scanners, NEW f \in Seq(Lexemes), Doomed(s)
  PROVE  Doomed(ScanAll(s, f))
<1>1. PICK r : Trace(s, f, r) /\ ScanAll(s, f) = r[Len(f)]
  BY TraceExists
<1> DEFINE S == {n \in 0 .. Len(f) : Doomed(r[n])}
<1>2. Len(f) \in Nat /\ \A i \in 1 .. Len(f) : f[i] \in Lexemes
  BY LenProperties
<1>3. 0 \in S
  BY <1>1, <1>2 DEF Trace
<1>4. ASSUME NEW i \in 1 .. Len(f), i - 1 \in S
      PROVE  i \in S
  <2>1. r[i] = Scan(r[i - 1], f[i]) /\ f[i] \in Lexemes
    BY <1>1, <1>2 DEF Trace
  <2>2. r[i - 1] \in Scanners
    BY <1>1, <1>4, TraceTyped
  <2> QED
    BY <1>2, <1>4, <2>1, <2>2, DoomedScanned
<1> HIDE DEF S
<1>5. \A n \in 0 .. Len(f) : n \in S
  BY <1>2, <1>3, <1>4, Induction
<1>6. Len(f) \in S
  BY <1>2, <1>5
<1> QED
  BY <1>1, <1>6 DEF S

(***************************************************************************)
(* What is left of a request lets no other one through: it is doomed, or   *)
(* it is in the middle of a primitive, or its object is still open, or it  *)
(* is whole, an odd number of tokens.                                      *)
(***************************************************************************)
InPrimitive(s) ==
  /\ s.tail = "primitive" /\ s.tokens # << >>
  /\ s.tokens[Len(s.tokens)].type = "primitive"

Unfinished(s) == s.tail = "none" /\ s.open # << >>

Finished(s) == s.tail = "none" /\ s.open = << >> /\ ~Even(Len(s.tokens))

Remains(s) == Doomed(s) \/ InPrimitive(s) \/ Unfinished(s) \/ Finished(s)

LEMMA OpenIsLexeme == Open \in Lexemes /\ Close \in Lexemes
BY DEF Open, Close, Lexeme, Lexemes, Texts

LEMMA EvenNext ==
  ASSUME NEW n \in Nat
  PROVE  /\ Even(n + 1) <=> ~Even(n)
         /\ \A k \in Nat : Even(n + 2 * k) <=> Even(n)
<1>1. \A x \in Nat : Even(x) <=> x % 2 = 0
  <2> SUFFICES ASSUME NEW x \in Nat PROVE Even(x) <=> x % 2 = 0
    OBVIOUS
  <2>1. ASSUME x % 2 = 0 PROVE Even(x)
    <3>1. x = 2 * (x \div 2) /\ x \div 2 \in Nat
      BY <2>1
    <3> QED
      BY <3>1 DEF Even
  <2>2. ASSUME Even(x) PROVE x % 2 = 0
    BY <2>2 DEF Even
  <2> QED
    BY <2>1, <2>2
<1>2. (n + 1) % 2 = 0 <=> ~(n % 2 = 0)
  OBVIOUS
<1>3. \A k \in Nat : (n + 2 * k) % 2 = n % 2 /\ n + 2 * k \in Nat
  OBVIOUS
<1> QED
  BY <1>1, <1>2, <1>3

\* The brace of the next request spoils what was whole until then.
LEMMA OpenDooms ==
  ASSUME NEW s \in Scanners, Doomed(s) \/ InPrimitive(s) \/ Finished(s)
  PROVE  Doomed(Scan(s, Open))
<1> DEFINE n == Len(s.tokens)
           t == Scan(s, Open)
<1>1. s.tokens \in Seq(TokenSet) /\ n \in Nat /\ s.position \in Nat
  BY LenProperties DEF Scanners
<1>2. CASE Doomed(s)
  BY <1>2, DoomedScanned, OpenIsLexeme
<1>3. CASE InPrimitive(s)
  <2> DEFINE q == [s.tokens EXCEPT ![n].text = Garbled]
  <2>1. t.tokens = q
    <3>1. ScanPrimitive(s, Open) =
            [s EXCEPT !.tokens = q, !.tail = "primitive"]
      BY DEF ScanPrimitive, Open, Lexeme
    <3>2. t = [ScanPrimitive(s, Open) EXCEPT !.position = s.position + 1]
      BY <1>3 DEF Scan, InPrimitive
    <3> QED
      BY <3>1, <3>2 DEF Scanners
  <2> HIDE DEF n
  <2>2. /\ Len(q) = Len(s.tokens)
        /\ \A i \in 1 .. Len(s.tokens) :
             /\ q[i].type = s.tokens[i].type
             /\ q[i].text = IF i = n THEN Garbled ELSE s.tokens[i].text
    BY <1>1, TextChanges
  <2>3. n \in 1 .. Len(s.tokens) /\ s.tokens[n].type = "primitive"
    BY <1>1, <1>3, EmptySeq DEF InPrimitive, n
  <2> HIDE DEF q, t
  <2>4. n \in 1 .. Len(t.tokens) /\ Unreadable(t.tokens, n)
    BY <2>1, <2>2, <2>3 DEF Unreadable
  <2> QED
    BY <2>4 DEF Doomed, t
<1>4. CASE Finished(s)
  <2> DEFINE e == Token("object", Open, s.position)
  <2>1. t.tokens = Append(s.tokens, e)
    <3>1. s.tail = "none" /\ Open.kind = "open" /\ Open \in Lexemes
      BY <1>4, OpenIsLexeme DEF Finished, Open, Lexeme
    <3> QED
      BY <3>1, ScanOpen
  <2>2. e \in TokenSet /\ e.type = "object"
    <3>1. e.type = "object"
      BY DEF Token
    <3> QED
      BY <1>1, <3>1, TokenType, OpenIsLexeme
  <2> HIDE DEF e, t
  <2>3. Len(t.tokens) = n + 1 /\ t.tokens[n + 1] = e
    BY <1>1, <2>1, <2>2, Appended
  <2>4. Even(n + 1)
    BY <1>1, <1>4, EvenNext DEF Finished
  <2> HIDE DEF n
  <2>5. n + 1 \in 1 .. Len(t.tokens) /\ Unreadable(t.tokens, n + 1)
    BY <1>1, <2>2, <2>3, <2>4 DEF Unreadable
  <2> QED
    BY <2>5 DEF Doomed, t
<1> QED
  BY <1>2, <1>3, <1>4

-----------------------------------------------------------------------------
(***************************************************************************)
(* Lexemes that leave the scanner outside of strings and primitives, close *)
(* what they open, and add k tokens.                                       *)
(***************************************************************************)
Steady(f, k) ==
  \A s \in Scanners : \A r :
    s.tail = "none" /\ Trace(s, f, r) =>
      /\ \A n \in 0 .. Len(f) :
           r[n].tail = "none" /\ Len(r[n].open) >= Len(s.open)
      /\ r[Len(f)].open = s.open
      /\ Len(r[Len(f)].tokens) = Len(s.tokens) + k

EvenlySteady(f) == \E k \in Nat : Steady(f, 2 * k)

LEMMA SteadyNone == Steady(<< >>, 0)
<1> DEFINE none == << >>
<1>1. none \in Seq(Lexemes) /\ Len(none) = 0
  BY EmptySeq
<1> HIDE DEF none
<1>2. Steady(none, 0)
  <2> SUFFICES ASSUME NEW s \in Scanners, NEW r, s.tail = "none",
                      Trace(s, none, r)
               PROVE  /\ \A n \in 0 .. Len(none) :
                           r[n].tail = "none" /\ Len(r[n].open) >= Len(s.open)
                      /\ r[Len(none)].open = s.open
                      /\ Len(r[Len(none)].tokens) = Len(s.tokens) + 0
    BY DEF Steady
  <2>1. r[0] = s
    BY DEF Trace
  <2>2. Len(s.open) \in Nat /\ Len(s.tokens) \in Nat
    BY LenProperties DEF Scanners
  <2> QED
    BY <1>1, <2>1, <2>2
<1> QED
  BY <1>2 DEF none

\* A text, or a number that ends, is a token.
LEMMA SteadyOne ==
  ASSUME NEW l \in Lexemes,
         l.kind = "text" \/ (l.kind = "number" /\ l.ended = TRUE)
  PROVE  Steady(<< l >>, 1)
<1> DEFINE one == << l >>
<1>1. one \in Seq(Lexemes) /\ Len(one) = 1 /\ one[1] = l
  OBVIOUS
<1> HIDE DEF one
<1>2. Steady(one, 1)
  <2> SUFFICES ASSUME NEW s \in Scanners, NEW r, s.tail = "none",
                      Trace(s, one, r)
               PROVE  /\ \A n \in 0 .. Len(one) :
                           r[n].tail = "none" /\ Len(r[n].open) >= Len(s.open)
                      /\ r[Len(one)].open = s.open
                      /\ Len(r[Len(one)].tokens) = Len(s.tokens) + 1
    BY DEF Steady
  <2>1. r[0] = s /\ r[1] = Scan(s, l)
    <3>1. 1 \in 1 .. Len(one) /\ 1 - 1 = 0
      BY <1>1
    <3> QED
      BY <1>1, <3>1 DEF Trace
  <2>2. /\ Len(s.open) \in Nat /\ s.tokens \in Seq(TokenSet)
        /\ s.position \in Nat
    BY LenProperties DEF Scanners
  <2>3. \E e \in TokenSet :
          /\ r[1].tokens = Append(s.tokens, e)
          /\ r[1].open = s.open /\ r[1].tail = "none"
    <3>1. /\ Token("string", l, s.position) \in TokenSet
          /\ Token("primitive", l, s.position) \in TokenSet
      BY <2>2, TokenType
    <3>2. CASE l.kind = "text"
      <4>1. r[1] = [tokens |-> Append(s.tokens, Token("string", l, s.position)),
                    open |-> s.open, tail |-> "none",
                    position |-> s.position + 1, invalid |-> s.invalid]
        BY <2>1, <3>2, ScanText
      <4> QED
        BY <3>1, <4>1
    <3>3. CASE l.kind = "number" /\ l.ended = TRUE
      <4>1. r[1] = [tokens |-> Append(s.tokens, Token("primitive", l, s.position)),
                    open |-> s.open,
                    tail |-> IF l.ended THEN "none" ELSE "primitive",
                    position |-> s.position + 1, invalid |-> s.invalid]
        BY <2>1, <3>3, ScanNumber
      <4> QED
        BY <3>1, <3>3, <4>1
    <3> QED
      BY <3>2, <3>3
  <2>4. Len(r[1].tokens) = Len(s.tokens) + 1
    BY <2>2, <2>3, Appended
  <2>5. \A n \in 0 .. Len(one) : n = 0 \/ n = 1
    BY <1>1
  <2> QED
    BY <1>1, <2>1, <2>2, <2>3, <2>4, <2>5
<1> QED
  BY <1>2 DEF one

\* Tokens of two parts add up.
LEMMA SteadyConcat ==
  ASSUME NEW a \in Seq(Lexemes), NEW b \in Seq(Lexemes),
         NEW k \in Nat, NEW m \in Nat, Steady(a, k), Steady(b, m)
  PROVE  Steady(a \o b, k + m)
<1> DEFINE f == a \o b
           x == Len(a)
           y == Len(b)
<1>1. Len(f) = x + y /\ f \in Seq(Lexemes) /\ x \in Nat /\ y \in Nat
  BY ConcatProperties, LenProperties
<1>2. Steady(f, k + m)
  <2> SUFFICES ASSUME NEW s \in Scanners, NEW r, s.tail = "none",
                      Trace(s, f, r)
               PROVE  /\ \A n \in 0 .. Len(f) :
                           r[n].tail = "none" /\ Len(r[n].open) >= Len(s.open)
                      /\ r[Len(f)].open = s.open
                      /\ Len(r[Len(f)].tokens) = Len(s.tokens) + (k + m)
    BY DEF Steady
  <2> DEFINE q == Later(r, x, y)
  <2>1. Trace(s, a, r) /\ Trace(r[x], b, q)
    BY TraceSplit
  <2> HIDE DEF f
  <2>2. /\ \A n \in 0 .. x : r[n].tail = "none" /\ Len(r[n].open) >= Len(s.open)
        /\ r[x].open = s.open /\ Len(r[x].tokens) = Len(s.tokens) + k
    BY <2>1 DEF Steady
  <2>3. r[x] \in Scanners /\ r[x].tail = "none"
    BY <1>1, <2>1, <2>2, TraceTyped
  <2>4. \A i \in 0 .. y : q[i] = r[x + i]
    BY DEF Later
  <2> HIDE DEF q
  <2>5. /\ \A i \in 0 .. y : q[i].tail = "none" /\ Len(q[i].open) >= Len(r[x].open)
        /\ q[y].open = r[x].open /\ Len(q[y].tokens) = Len(r[x].tokens) + m
    BY <2>1, <2>3 DEF Steady
  <2>6. ASSUME NEW n \in 0 .. Len(f)
        PROVE  r[n].tail = "none" /\ Len(r[n].open) >= Len(s.open)
    <3>1. CASE n <= x
      <4>1. n \in 0 .. x
        BY <1>1, <3>1
      <4> QED
        BY <2>2, <4>1
    <3>2. CASE ~(n <= x)
      <4> DEFINE i == n - x
      <4>1. i \in 0 .. y /\ x + i = n
        BY <1>1, <3>2
      <4> HIDE DEF i
      <4>2. q[i] = r[n]
        BY <2>4, <4>1
      <4>3. r[n].tail = "none" /\ Len(r[n].open) >= Len(r[x].open)
        BY <2>5, <4>1, <4>2
      <4> QED
        BY <2>2, <4>3
    <3> QED
      BY <3>1, <3>2
  <2>7. q[y] = r[Len(f)]
    BY <1>1, <2>4
  <2>8. Len(s.tokens) \in Nat
    BY LenProperties DEF Scanners
  <2>9. r[Len(f)].open = s.open
    BY <2>2, <2>5, <2>7
  <2>10. Len(r[Len(f)].tokens) = Len(s.tokens) + (k + m)
    <3> DEFINE u == Len(s.tokens)
               v == Len(r[x].tokens)
               w == Len(r[Len(f)].tokens)
    <3>1. u \in Nat /\ v = u + k /\ w = v + m
      BY <2>2, <2>5, <2>7, <2>8
    <3> HIDE DEF u, v, w
    <3>2. w = u + (k + m)
      BY <3>1
    <3> QED
      BY <3>2 DEF u, w
  <2> QED
    BY <2>6, <2>9, <2>10
<1> QED
  BY <1>2

LEMMA EvenlySteadyConcat ==
  ASSUME NEW a \in Seq(Lexemes), NEW b \in Seq(Lexemes),
         EvenlySteady(a), EvenlySteady(b)
  PROVE  EvenlySteady(a \o b)
<1>1. PICK k \in Nat : Steady(a, 2 * k)
  BY DEF EvenlySteady
<1>2. PICK m \in Nat : Steady(b, 2 * m)
  BY DEF EvenlySteady
<1>3. 2 * k \in Nat /\ 2 * m \in Nat /\ k + m \in Nat /\ 2 * k + 2 * m = 2 * (k + m)
  OBVIOUS
<1>4. Steady(a \o b, 2 * k + 2 * m)
  BY <1>1, <1>2, <1>3, SteadyConcat
<1> QED
  BY <1>3, <1>4 DEF EvenlySteady

(***************************************************************************)
(* Braces: what an object goes through.                                    *)
(***************************************************************************)
LEMMA FrontAppended ==
  ASSUME NEW q \in Seq(Nat), NEW e \in Nat
  PROVE  /\ Append(q, e) # << >> /\ Append(q, e) \in Seq(Nat)
         /\ Len(Append(q, e)) = Len(q) + 1
         /\ Front(Append(q, e)) = q /\ Last(Append(q, e)) = e
<1> DEFINE a == Append(q, e)
           n == Len(q)
<1>1. /\ a \in Seq(Nat) /\ Len(a) = n + 1 /\ n \in Nat
      /\ \A i \in 1 .. n : a[i] = q[i]
      /\ a[n + 1] = e
  BY AppendProperties, LenProperties
<1> HIDE DEF a
<1>2. a # << >>
  BY <1>1, EmptySeq
<1>3. /\ Front(a) \in Seq(Nat) /\ Len(Front(a)) = Len(a) - 1
      /\ \A i \in 1 .. Len(a) - 1 : Front(a)[i] = a[i]
  BY <1>1, <1>2, FrontType
<1>4. Len(Front(a)) = n /\ \A i \in 1 .. n : Front(a)[i] = q[i]
  BY <1>1, <1>3
<1>5. Front(a) = q
  BY <1>3, <1>4, SeqEqual
<1>6. Last(a) = e
  BY <1>1 DEF Last
<1> QED
  BY <1>1, <1>2, <1>5, <1>6 DEF a

LEMMA ObjectTrace ==
  ASSUME NEW s \in Scanners, NEW body \in Seq(Lexemes), NEW r,
         Trace(s, << Open >> \o body \o << Close >>, r)
  PROVE  /\ << Open >> \o body \o << Close >> \in Seq(Lexemes)
         /\ Len(<< Open >> \o body \o << Close >>) = Len(body) + 2
         /\ (<< Open >> \o body \o << Close >>)[1] = Open
         /\ (<< Open >> \o body \o << Close >>)[Len(body) + 2] = Close
         /\ r[0] = s /\ r[1] = Scan(s, Open)
         /\ Trace(r[1], body, Later(r, 1, Len(body)))
         /\ r[Len(body) + 2] = Scan(r[Len(body) + 1], Close)
<1> DEFINE x == << Open >>
           y == << Close >>
           a == x \o body
           f == a \o y
           n == Len(body)
<1>1. /\ x \in Seq(Lexemes) /\ Len(x) = 1 /\ x[1] = Open
      /\ y \in Seq(Lexemes) /\ Len(y) = 1 /\ y[1] = Close
      /\ n \in Nat
  BY OpenIsLexeme, LenProperties
<1> HIDE DEF x, y
<1>2. /\ a \in Seq(Lexemes) /\ Len(a) = n + 1 /\ a[1] = Open
  <2>1. /\ a \in Seq(Lexemes) /\ Len(a) = 1 + n
        /\ \A i \in 1 .. Len(x) + Len(body) :
             a[i] = IF i <= Len(x) THEN x[i] ELSE body[i - Len(x)]
    BY <1>1, ConcatProperties
  <2> HIDE DEF a, n
  <2> QED
    BY <1>1, <2>1 DEF n
<1>3. Trace(s, a \o y, r)
  BY DEF x, y
<1> HIDE DEF a
<1>4. /\ f \in Seq(Lexemes) /\ Len(f) = n + 2 /\ f[1] = Open
      /\ f[n + 2] = Close
  <2>1. /\ f \in Seq(Lexemes) /\ Len(f) = (n + 1) + 1
        /\ \A i \in 1 .. Len(a) + Len(y) :
             f[i] = IF i <= Len(a) THEN a[i] ELSE y[i - Len(a)]
    <3>1. /\ f \in Seq(Lexemes) /\ Len(f) = Len(a) + Len(y)
          /\ \A i \in 1 .. Len(a) + Len(y) :
               f[i] = IF i <= Len(a) THEN a[i] ELSE y[i - Len(a)]
      BY <1>1, <1>2, ConcatProperties
    <3> HIDE DEF f, n
    <3> QED
      BY <1>1, <1>2, <3>1
  <2> HIDE DEF f, n
  <2> QED
    BY <1>1, <1>2, <2>1
<1>5. /\ Trace(s, a, r)
      /\ Trace(r[n + 1], y, Later(r, Len(a), Len(y)))
  <2>1. /\ Trace(s, a, r)
        /\ Trace(r[Len(a)], y, Later(r, Len(a), Len(y)))
    BY <1>1, <1>2, <1>3, TraceSplit
  <2> QED
    BY <1>2, <2>1
<1>6. Trace(s, x \o body, r)
  BY <1>5 DEF a
<1>7. /\ Trace(s, x, r)
      /\ Trace(r[1], body, Later(r, 1, n))
  <2>1. /\ Trace(s, x, r)
        /\ Trace(r[Len(x)], body, Later(r, Len(x), n))
    BY <1>1, <1>6, TraceSplit
  <2> QED
    BY <1>1, <2>1
<1>8. r[0] = s /\ r[1] = Scan(s, Open)
  <2>1. 1 \in 1 .. Len(x) /\ 1 - 1 = 0
    BY <1>1
  <2> QED
    BY <1>1, <1>7, <2>1 DEF Trace
<1>9. r[n + 2] = Scan(r[n + 1], Close)
  <2> DEFINE q == Later(r, Len(a), Len(y))
  <2>1. q[0] = r[n + 1] /\ q[1] = r[n + 2]
    BY <1>1, <1>2 DEF Later
  <2>2. q[1] = Scan(q[0], y[1])
    <3>1. 1 \in 1 .. Len(y) /\ 1 - 1 = 0
      BY <1>1
    <3> HIDE DEF q
    <3> QED
      BY <1>5, <3>1 DEF Trace, q
  <2> HIDE DEF q
  <2> QED
    BY <1>1, <2>1, <2>2
<1>10. f = << Open >> \o body \o << Close >>
  BY DEF f, a, x, y
<1> HIDE DEF f
<1> QED
  BY <1>4, <1>7, <1>8, <1>9, <1>10

LEMMA ObjectSteps ==
  ASSUME NEW body \in Seq(Lexemes), NEW k \in Nat, Steady(body, k),
         NEW s \in Scanners, s.tail = "none", NEW r,
         Trace(s, << Open >> \o body \o << Close >>, r)
  PROVE  /\ \A n \in 1 .. Len(body) + 1 :
              r[n].tail = "none" /\ Len(r[n].open) >= Len(s.open) + 1
         /\ r[Len(body) + 2].tail = "none"
         /\ r[Len(body) + 2].open = s.open
         /\ Len(r[Len(body) + 2].tokens) = Len(s.tokens) + k + 1
<1> DEFINE m == Len(body)
           q == Later(r, 1, m)
<1>1. /\ r[0] = s /\ r[1] = Scan(s, Open) /\ Trace(r[1], body, q)
      /\ r[m + 2] = Scan(r[m + 1], Close)
  BY ObjectTrace
<1>2. /\ m \in Nat /\ s.tokens \in Seq(TokenSet) /\ s.open \in Seq(Nat)
      /\ Len(s.tokens) \in Nat /\ Len(s.open) \in Nat /\ s.position \in Nat
  BY LenProperties DEF Scanners
<1> DEFINE e == Token("object", Open, s.position)
           o == Len(s.tokens) + 1
<1>3. e \in TokenSet /\ o \in Nat
  BY <1>2, TokenType, OpenIsLexeme
<1>4. /\ r[1].tokens = Append(s.tokens, e) /\ r[1].open = Append(s.open, o)
      /\ r[1].tail = "none" /\ r[1] \in Scanners
  <2>1. Open.kind = "open" /\ Open \in Lexemes
    BY OpenIsLexeme DEF Open, Lexeme
  <2>2. r[1] = [tokens |-> Append(s.tokens, e), open |-> Append(s.open, o),
                tail |-> "none", position |-> s.position + 1,
                invalid |-> s.invalid]
    BY <1>1, <2>1, ScanOpen
  <2>3. r[1] \in Scanners
    BY <1>1, <2>1, ScanKeeps
  <2> QED
    BY <2>2, <2>3
<1> HIDE DEF e, o
<1>5. Len(r[1].tokens) = Len(s.tokens) + 1 /\ Len(r[1].open) = Len(s.open) + 1
  BY <1>2, <1>3, <1>4, Appended, FrontAppended
<1>6. \A i \in 0 .. m : q[i] = r[1 + i]
  BY DEF Later
<1> HIDE DEF q
<1>7. /\ \A i \in 0 .. m : q[i].tail = "none" /\ Len(q[i].open) >= Len(r[1].open)
      /\ q[m].open = r[1].open /\ Len(q[m].tokens) = Len(r[1].tokens) + k
      /\ q[m] \in Scanners
  <2>1. m \in 0 .. m
    BY <1>2
  <2> QED
    BY <1>1, <1>4, <2>1, TraceTyped DEF Steady
<1> HIDE DEF m
<1>8. ASSUME NEW n \in 1 .. m + 1
      PROVE  r[n].tail = "none" /\ Len(r[n].open) >= Len(s.open) + 1
  <2> DEFINE i == n - 1
  <2>1. i \in 0 .. m /\ 1 + i = n
    BY <1>2
  <2> HIDE DEF i
  <2>2. q[i] = r[n]
    BY <1>6, <2>1
  <2> QED
    BY <1>5, <1>7, <2>1, <2>2
<1>9. q[m] = r[m + 1]
  BY <1>2, <1>6
<1> DEFINE t == r[m + 1]
<1>10. /\ t \in Scanners /\ t.tail = "none" /\ t.open = Append(s.open, o)
       /\ Len(t.tokens) = Len(s.tokens) + 1 + k
  <2>1. m \in 0 .. m
    BY <1>2
  <2> QED
    BY <1>4, <1>5, <1>7, <1>9, <2>1
<1>11. t.open # << >> /\ Front(t.open) = s.open
  <2>1. /\ Append(s.open, o) # << >>
        /\ Front(Append(s.open, o)) = s.open
    BY <1>2, <1>3, FrontAppended
  <2> HIDE DEF t
  <2> QED
    BY <1>10, <2>1
<1>12. Close.kind = "close" /\ Close \in Lexemes
  BY OpenIsLexeme DEF Close, Lexeme
<1> HIDE DEF t
<1>13. Scan(t, Close) =
         [tokens |-> WithEnd(t.tokens, Last(t.open), t.position),
          open |-> Front(t.open), tail |-> "none",
          position |-> t.position + 1, invalid |-> t.invalid]
  BY <1>10, <1>11, <1>12, ScanClose
<1>14. Len(WithEnd(t.tokens, Last(t.open), t.position)) = Len(t.tokens)
  <2>1. t.tokens \in Seq(TokenSet) /\ t.position \in Nat
    BY <1>10 DEF Scanners
  <2> QED
    BY <2>1, EndChanges
<1>15. r[m + 2] = Scan(t, Close)
  BY <1>1 DEF t
<1>16. /\ r[m + 2].tail = "none" /\ r[m + 2].open = s.open
       /\ Len(r[m + 2].tokens) = Len(t.tokens)
  BY <1>11, <1>13, <1>14, <1>15
<1>17. Len(r[m + 2].tokens) = Len(s.tokens) + k + 1
  BY <1>2, <1>10, <1>16
<1> QED
  BY <1>8, <1>16, <1>17 DEF m

\* An object is one token more than its body.
LEMMA SteadyObject ==
  ASSUME NEW body \in Seq(Lexemes), NEW k \in Nat, Steady(body, k)
  PROVE  Steady(<< Open >> \o body \o << Close >>, k + 1)
<1> DEFINE f == << Open >> \o body \o << Close >>
           m == Len(body)
<1> SUFFICES ASSUME NEW s \in Scanners, NEW r, s.tail = "none", Trace(s, f, r)
             PROVE  /\ \A n \in 0 .. Len(f) :
                         r[n].tail = "none" /\ Len(r[n].open) >= Len(s.open)
                    /\ r[Len(f)].open = s.open
                    /\ Len(r[Len(f)].tokens) = Len(s.tokens) + (k + 1)
  BY DEF Steady
<1>0. Trace(s, f, r)
  OBVIOUS
<1>1. Len(f) = m + 2 /\ r[0] = s /\ f \in Seq(Lexemes)
  BY ObjectTrace
<1>2. /\ \A n \in 1 .. m + 1 :
           r[n].tail = "none" /\ Len(r[n].open) >= Len(s.open) + 1
      /\ r[m + 2].tail = "none" /\ r[m + 2].open = s.open
      /\ Len(r[m + 2].tokens) = Len(s.tokens) + k + 1
  BY ObjectSteps
<1>3. m \in Nat /\ Len(s.tokens) \in Nat /\ Len(s.open) \in Nat
  BY LenProperties DEF Scanners
<1> HIDE DEF f, m
<1>4. \A n \in 0 .. Len(f) : n = 0 \/ n \in 1 .. m + 1 \/ n = m + 2
  BY <1>1, <1>3
<1>5. \A n \in 1 .. m + 1 : r[n].tail = "none" /\ Len(r[n].open) >= Len(s.open)
  <2> SUFFICES ASSUME NEW n \in 1 .. m + 1
               PROVE  r[n].tail = "none" /\ Len(r[n].open) >= Len(s.open)
    OBVIOUS
  <2>1. n \in 0 .. Len(f) /\ f \in Seq(Lexemes)
    BY <1>1, <1>3
  <2>2. r[n] \in Scanners
    BY <1>0, <2>1, TraceTyped
  <2>3. Len(r[n].open) \in Nat
    BY <2>2, LenProperties DEF Scanners
  <2> QED
    BY <1>2, <1>3, <2>3
<1>6. ASSUME NEW n \in 0 .. Len(f)
      PROVE  r[n].tail = "none" /\ Len(r[n].open) >= Len(s.open)
  <2>1. CASE n = 0 \/ n = m + 2
    BY <1>1, <1>2, <1>3, <2>1
  <2>2. CASE n \in 1 .. m + 1
    BY <1>5, <2>2
  <2> QED
    BY <1>4, <2>1, <2>2
<1>7. Len(r[m + 2].tokens) = Len(s.tokens) + (k + 1)
  <2> DEFINE x == Len(s.tokens)
             y == Len(r[m + 2].tokens)
  <2>1. x \in Nat /\ y = x + k + 1
    BY <1>2, <1>3
  <2> HIDE DEF x, y
  <2>2. y = x + (k + 1)
    BY <2>1
  <2> QED
    BY <2>2 DEF x, y
<1> QED
  BY <1>1, <1>2, <1>6, <1>7

-----------------------------------------------------------------------------
(***************************************************************************)
(* The frame of a request is an object of whole pairs.                     *)
(***************************************************************************)
LEMMA JoinedRead ==
  ASSUME NEW S, NEW parts \in Seq(Seq(S))
  PROVE  \E u : /\ u[0] = << >>
                /\ \A i \in 1 .. Len(parts) :
                     u[i - 1] \in Seq(S) => u[i] = u[i - 1] \o parts[i]
                /\ \A i \in 0 .. Len(parts) : u[i] \in Seq(S)
                /\ Joined(parts) = u[Len(parts)]
<1> DEFINE n == Len(parts)
           Reads(u) == u = [i \in 0 .. n |->
                              IF i = 0 THEN << >> ELSE u[i - 1] \o parts[i]]
           upto == CHOOSE u : Reads(u)
           none == << >>
<1>1. Joined(parts) = upto[n]
  BY DEF Joined
<1>2. /\ n \in Nat /\ \A i \in 1 .. n : parts[i] \in Seq(S)
      /\ none \in Seq(S)
  BY LenProperties, EmptySeq
<1>3. \E u : Reads(u) /\ \A i \in 0 .. n : u[i] \in Seq(S)
  <2> DEFINE T == Seq(S)
             G == [i \in 1 .. n |-> [t \in T |-> t \o parts[i]]]
  <2>1. G \in [1 .. n -> [T -> T]]
    BY <1>2, ConcatProperties
  <2>2. \A t \in T, i \in 1 .. n : G[i][t] = t \o parts[i]
    OBVIOUS
  <2>3. none \in T
    BY <1>2
  <2> HIDE DEF G, n, none, T
  <2>4. PICK u : Steps(u, T, n, none, G)
    BY <1>2, <2>1, <2>3, Recursion
  <2>5. \A i \in 1 .. n : u[i] = u[i - 1] \o parts[i]
    <3> SUFFICES ASSUME NEW i \in 1 .. n PROVE u[i] = u[i - 1] \o parts[i]
      OBVIOUS
    <3>1. i - 1 \in 0 .. n
      BY <1>2
    <3>2. u[i - 1] \in T
      BY <2>4, <3>1 DEF Steps
    <3> QED
      BY <2>2, <2>4, <3>2 DEF Steps
  <2>6. u = [i \in 0 .. n |-> IF i = 0 THEN none ELSE u[i - 1] \o parts[i]]
    <3>1. u = [i \in 0 .. n |-> u[i]]
      BY <2>4 DEF Steps
    <3>2. \A i \in 0 .. n : u[i] = IF i = 0 THEN none ELSE u[i - 1] \o parts[i]
      <4> SUFFICES ASSUME NEW i \in 0 .. n
                   PROVE  u[i] = IF i = 0 THEN none ELSE u[i - 1] \o parts[i]
        OBVIOUS
      <4>1. CASE i = 0
        BY <2>4, <4>1 DEF Steps
      <4>2. CASE i # 0
        <5>1. i \in 1 .. n
          BY <1>2, <4>2
        <5> QED
          BY <2>5, <4>2, <5>1
      <4> QED
        BY <4>1, <4>2
    <3> QED
      BY <3>1, <3>2
  <2>7. \A i \in 0 .. n : u[i] \in T
    BY <2>4 DEF Steps
  <2> QED
    BY <2>6, <2>7 DEF n, none, T
<1>4. Reads(upto)
  BY <1>3
<1>5. PICK u : Reads(u) /\ \A i \in 0 .. n : u[i] \in Seq(S)
  BY <1>3
<1> HIDE DEF upto
<1>6. /\ \A i \in 0 .. n : u[i] = IF i = 0 THEN none ELSE u[i - 1] \o parts[i]
      /\ \A i \in 0 .. n : upto[i] = IF i = 0 THEN none ELSE upto[i - 1] \o parts[i]
  BY <1>4, <1>5
<1> HIDE DEF Reads, none
<1> DEFINE R == {i \in Nat : upto[i] = u[i]}
<1>7. 0 \in R
  BY <1>2, <1>6
<1>8. ASSUME NEW i \in 1 .. n, i - 1 \in R
      PROVE  i \in R
  <2>1. i \in 0 .. n /\ i # 0 /\ i \in Nat
    BY <1>2
  <2>2. upto[i - 1] = u[i - 1]
    BY <1>8
  <2>3. upto[i] = upto[i - 1] \o parts[i] /\ u[i] = u[i - 1] \o parts[i]
    BY <1>6, <2>1
  <2> QED
    BY <2>1, <2>2, <2>3
<1> HIDE DEF R, n
<1>9. \A i \in 0 .. n : i \in R
  BY <1>2, <1>7, <1>8, Induction
<1>10. upto[n] = u[n]
  <2>1. n \in R
    BY <1>2, <1>9
  <2> QED
    BY <2>1 DEF R
<1>11. u[0] = none /\ \A i \in 1 .. n : u[i] = u[i - 1] \o parts[i]
  <2>1. 0 \in 0 .. n /\ \A i \in 1 .. n : i \in 0 .. n /\ i # 0
    BY <1>2
  <2> QED
    BY <1>6, <2>1
<1>12. Joined(parts) = u[n]
  BY <1>1, <1>10
<1> QED
  BY <1>5, <1>11, <1>12 DEF n, none

\* Pairs written one after the other are an even number of tokens.
LEMMA JoinedSteady ==
  ASSUME NEW parts \in Seq(Seq(Lexemes)),
         \A i \in 1 .. Len(parts) : EvenlySteady(parts[i])
  PROVE  Joined(parts) \in Seq(Lexemes) /\ EvenlySteady(Joined(parts))
<1> DEFINE n == Len(parts)
<1>1. PICK u : /\ u[0] = << >>
               /\ \A i \in 1 .. n :
                    u[i - 1] \in Seq(Lexemes) => u[i] = u[i - 1] \o parts[i]
               /\ \A i \in 0 .. n : u[i] \in Seq(Lexemes)
               /\ Joined(parts) = u[n]
  BY JoinedRead
<1> DEFINE S == {i \in 0 .. n : EvenlySteady(u[i])}
<1>2. n \in Nat /\ \A i \in 1 .. n : parts[i] \in Seq(Lexemes)
  BY LenProperties
<1>3. 0 \in S
  <2>1. EvenlySteady(<< >>)
    <3>1. 0 \in Nat /\ 2 * 0 = 0
      OBVIOUS
    <3> QED
      BY <3>1, SteadyNone DEF EvenlySteady
  <2> QED
    BY <1>1, <1>2, <2>1
<1> HIDE DEF n
<1>4. ASSUME NEW i \in 1 .. n, i - 1 \in S
      PROVE  i \in S
  <2>1. i - 1 \in 0 .. n /\ i \in 0 .. n
    BY <1>2
  <2>2. u[i] = u[i - 1] \o parts[i] /\ u[i - 1] \in Seq(Lexemes)
    BY <1>1, <2>1
  <2>3. EvenlySteady(u[i - 1]) /\ EvenlySteady(parts[i])
    BY <1>4 DEF n
  <2>4. EvenlySteady(u[i])
    BY <1>2, <2>2, <2>3, EvenlySteadyConcat
  <2> QED
    BY <2>1, <2>4
<1> HIDE DEF S
<1>5. \A i \in 0 .. n : i \in S
  BY <1>2, <1>3, <1>4, Induction
<1>6. n \in S /\ n \in 0 .. n
  BY <1>2, <1>5
<1> QED
  BY <1>1, <1>6 DEF S

LEMMA ValueType ==
  ASSUME NEW v \in Values
  PROVE  /\ v \in Lexemes /\ v # Missing /\ v # Open
         /\ v.kind = "text" \/ (v.kind = "number" /\ v.ended = TRUE)
<1>1. v # Missing /\ v # Open
  <2>1. v.kind \in {"text", "number"}
    BY DEF Values
  <2>2. Missing.kind = "missing" /\ Open.kind = "open"
    BY DEF Missing, Open, Lexeme
  <2> QED
    BY <2>1, <2>2
<1>2. v \in Lexemes
  <2>1. "" \in Texts /\ \A x \in STRING : x \in Texts
    BY DEF Texts
  <2>2. CASE v \in [kind : {"text"}, text : STRING, number : {0}, ended : {TRUE}]
    <3> DEFINE x == v.text
    <3>1. /\ v = [kind |-> "text", text |-> x, number |-> 0, ended |-> TRUE]
          /\ x \in STRING
      BY <2>2
    <3> HIDE DEF x
    <3>2. x \in Texts
      BY <2>1, <3>1
    <3> QED
      BY <3>1, <3>2 DEF Lexemes
  <2>3. CASE v \in [kind : {"number"}, text : {""}, number : Int, ended : {TRUE}]
    BY <2>1, <2>3 DEF Lexemes
  <2> QED
    BY <2>2, <2>3 DEF Values
<1> QED
  BY <1>1, <1>2 DEF Values

LEMMA KeyType ==
  ASSUME NEW text \in STRING
  PROVE  Key(text) \in Lexemes /\ Key(text).kind = "text"
<1> DEFINE l == Key(text)
<1>1. text \in Texts
  BY DEF Texts
<1>2. l = [kind |-> "text", text |-> text, number |-> 0, ended |-> FALSE]
  BY DEF Key, Lexeme
<1> HIDE DEF l
<1>3. l \in Lexemes /\ l.kind = "text"
  BY <1>1, <1>2 DEF Lexemes
<1> QED
  BY <1>3 DEF l

\* A key and its value are two tokens.
LEMMA ScalarWritten ==
  ASSUME NEW p \in ScalarPairs
  PROVE  /\ ScalarLexemes(p) = << Key(p.key) >> \o << p.value >>
         /\ PairLexemes(p) = ScalarLexemes(p)
         /\ ScalarLexemes(p) \in Seq(Lexemes)
         /\ EvenlySteady(ScalarLexemes(p))
<1>1. p.value \in Values /\ p.key \in STRING
  BY DEF ScalarPairs
<1> DEFINE v == p.value
           x == Key(p.key)
           a == << x >>
           b == << v >>
<1>2. /\ v \in Lexemes /\ v # Missing /\ v # Open
      /\ v.kind = "text" \/ (v.kind = "number" /\ v.ended = TRUE)
  BY <1>1, ValueType
<1>3. x \in Lexemes /\ x.kind = "text"
  BY <1>1, KeyType
<1>4. ScalarLexemes(p) = a \o b /\ PairLexemes(p) = ScalarLexemes(p)
  BY <1>2 DEF ScalarLexemes, PairLexemes
<1> HIDE DEF v, x
<1>5. a \in Seq(Lexemes) /\ b \in Seq(Lexemes)
  BY <1>2, <1>3
<1>6. Steady(a, 1) /\ Steady(b, 1)
  BY <1>2, <1>3, SteadyOne
<1> HIDE DEF a, b
<1>7. a \o b \in Seq(Lexemes)
  BY <1>5, ConcatProperties
<1>8. EvenlySteady(a \o b)
  <2>1. Steady(a \o b, 1 + 1)
    BY <1>5, <1>6, SteadyConcat
  <2>2. 1 \in Nat /\ 1 + 1 = 2 * 1
    OBVIOUS
  <2> QED
    BY <2>1, <2>2 DEF EvenlySteady
<1> QED
  BY <1>4, <1>7, <1>8 DEF a, b, x, v

LEMMA ObjectWritten ==
  ASSUME NEW parts \in Seq(Seq(Lexemes)),
         \A i \in 1 .. Len(parts) : EvenlySteady(parts[i])
  PROVE  \E body \in Seq(Lexemes), k \in Nat :
           /\ Object(parts) = << Open >> \o body \o << Close >>
           /\ body = Joined(parts)
           /\ Object(parts) \in Seq(Lexemes)
           /\ Steady(body, 2 * k) /\ Steady(Object(parts), 2 * k + 1)
<1> DEFINE body == Joined(parts)
           f == << Open >> \o body \o << Close >>
<1>1. body \in Seq(Lexemes) /\ EvenlySteady(body)
  BY JoinedSteady
<1> HIDE DEF body
<1>2. PICK k \in Nat : Steady(body, 2 * k)
  BY <1>1 DEF EvenlySteady
<1>3. 2 * k \in Nat
  OBVIOUS
<1>4. Steady(f, 2 * k + 1)
  BY <1>1, <1>2, <1>3, SteadyObject
<1>5. f \in Seq(Lexemes)
  <2> DEFINE x == << Open >>
             y == << Close >>
             a == x \o body
  <2>1. x \in Seq(Lexemes) /\ y \in Seq(Lexemes)
    BY OpenIsLexeme
  <2> HIDE DEF x, y
  <2>2. a \in Seq(Lexemes)
    BY <1>1, <2>1, ConcatProperties
  <2> HIDE DEF a
  <2>3. a \o y \in Seq(Lexemes)
    BY <2>1, <2>2, ConcatProperties
  <2> QED
    BY <2>3 DEF a, x, y
<1>6. Object(parts) = f
  BY DEF Object, body
<1> QED
  BY <1>1, <1>2, <1>4, <1>5, <1>6 DEF body

LEMMA InnerWritten ==
  ASSUME NEW inner \in Seq(ScalarPairs)
  PROVE  \E k \in Nat : /\ InnerFrame(inner) \in Seq(Lexemes)
                        /\ Steady(InnerFrame(inner), 2 * k + 1)
<1> DEFINE parts == [i \in DOMAIN inner |-> ScalarLexemes(inner[i])]
<1>1. \A i \in 1 .. Len(inner) : inner[i] \in ScalarPairs
  BY LenProperties
<1>2. DOMAIN inner = 1 .. Len(inner)
  BY LenProperties
<1>3. \A i \in 1 .. Len(inner) : parts[i] = ScalarLexemes(inner[i])
  BY <1>2
<1>4. \A i \in 1 .. Len(inner) : parts[i] \in Seq(Lexemes) /\ EvenlySteady(parts[i])
  BY <1>1, <1>3, ScalarWritten
<1>5. parts \in [1 .. Len(inner) -> Seq(Lexemes)] /\ Len(inner) \in Nat
  BY <1>2, <1>4, LenProperties
<1>6. InnerFrame(inner) = Object(parts)
  BY DEF InnerFrame
<1> HIDE DEF parts
<1>7. parts \in Seq(Seq(Lexemes)) /\ Len(parts) = Len(inner)
  BY <1>5
<1> QED
  BY <1>4, <1>6, <1>7, ObjectWritten

\* A pair is an even number of tokens.
LEMMA PairWritten ==
  ASSUME NEW p \in WholePairs
  PROVE  PairLexemes(p) \in Seq(Lexemes) /\ EvenlySteady(PairLexemes(p))
<1>1. CASE p \in ScalarPairs
  BY <1>1, ScalarWritten
<1>2. CASE p \in ObjectPairs
  <2>1. p.value = Open /\ p.inner \in Seq(ScalarPairs) /\ p.key \in STRING
    BY <1>2 DEF ObjectPairs
  <2> DEFINE x == Key(p.key)
             a == << x >>
             b == InnerFrame(p.inner)
  <2>2. x \in Lexemes /\ x.kind = "text"
    BY <2>1, KeyType
  <2>3. PICK k \in Nat : b \in Seq(Lexemes) /\ Steady(b, 2 * k + 1)
    BY <2>1, InnerWritten
  <2>4. PairLexemes(p) = a \o b
    BY <2>1 DEF PairLexemes
  <2> HIDE DEF x, b
  <2>5a. a \in Seq(Lexemes)
    BY <2>2
  <2>5b. Steady(a, 1)
    BY <2>2, SteadyOne
  <2>5. a \in Seq(Lexemes) /\ Steady(a, 1)
    BY <2>5a, <2>5b
  <2> HIDE DEF a
  <2>6. a \o b \in Seq(Lexemes)
    BY <2>3, <2>5, ConcatProperties
  <2>7. 2 * k + 1 \in Nat /\ 1 + (2 * k + 1) = 2 * (k + 1) /\ k + 1 \in Nat
    OBVIOUS
  <2>8. Steady(a \o b, 1 + (2 * k + 1))
    BY <2>3, <2>5, <2>7, SteadyConcat
  <2> QED
    BY <2>4, <2>6, <2>7, <2>8 DEF EvenlySteady
<1> QED
  BY <1>1, <1>2 DEF WholePairs

\* So is the body of a request.
LEMMA FrameWritten ==
  ASSUME NEW ps \in Seq(WholePairs)
  PROVE  \E body \in Seq(Lexemes), k \in Nat :
           /\ Frame(ps) = << Open >> \o body \o << Close >>
           /\ Frame(ps) \in Seq(Lexemes) /\ Steady(body, 2 * k)
<1> DEFINE parts == [i \in DOMAIN ps |-> PairLexemes(ps[i])]
<1>1. \A i \in 1 .. Len(ps) : ps[i] \in WholePairs
  BY LenProperties
<1>2. DOMAIN ps = 1 .. Len(ps)
  BY LenProperties
<1>3. \A i \in 1 .. Len(ps) : parts[i] = PairLexemes(ps[i])
  BY <1>2
<1>4. \A i \in 1 .. Len(ps) : parts[i] \in Seq(Lexemes) /\ EvenlySteady(parts[i])
  BY <1>1, <1>3, PairWritten
<1>5. parts \in [1 .. Len(ps) -> Seq(Lexemes)] /\ Len(ps) \in Nat
  BY <1>2, <1>4, LenProperties
<1>6. Frame(ps) = Object(parts)
  BY DEF Frame
<1> HIDE DEF parts
<1>7. parts \in Seq(Seq(Lexemes)) /\ Len(parts) = Len(ps)
  BY <1>5
<1>8. PICK body \in Seq(Lexemes), k \in Nat :
        /\ Object(parts) = << Open >> \o body \o << Close >>
        /\ Object(parts) \in Seq(Lexemes) /\ Steady(body, 2 * k)
  BY <1>4, <1>7, ObjectWritten
<1> QED
  BY <1>6, <1>8

(***************************************************************************)
(* A beginning of a frame, cut anywhere.                                   *)
(***************************************************************************)
LEMMA CutTypes ==
  ASSUME NEW l \in Lexemes, NEW c \in CutLexemes(l)
  PROVE  /\ c \in Lexemes
         /\ \/ c = l
            \/ c.kind = "half"
            \/ c.kind = "number" /\ c.ended = FALSE
         /\ l = Open => c = Open
<1>1. CASE l.kind = "text"
  <2>1. c \in {l, Lexeme("half", "", 0, FALSE), Lexeme("half", l.text, 0, FALSE)}
    BY <1>1 DEF CutLexemes
  <2>2. "" \in Texts /\ l.text \in Texts
    BY DEF Texts, Lexemes
  <2>3. \A x \in Texts : Lexeme("half", x, 0, FALSE) \in Lexemes
    BY DEF Lexeme, Lexemes
  <2>4. \A x \in Texts : Lexeme("half", x, 0, FALSE).kind = "half"
    BY DEF Lexeme
  <2>5. l # Open
    <3>1. Open.kind = "open"
      BY DEF Open, Lexeme
    <3> QED
      BY <1>1, <3>1
  <2>6. /\ c = l \/ c.kind = "half"
        /\ c \in Lexemes
    BY <2>1, <2>2, <2>3, <2>4
  <2> QED
    BY <2>5, <2>6
<1>2. CASE l.kind = "number"
  <2>1. c \in {l, [l EXCEPT !.ended = FALSE]}
    BY <1>2 DEF CutLexemes
  <2>2. l # Open
    <3>1. Open.kind = "open"
      BY DEF Open, Lexeme
    <3> QED
      BY <1>2, <3>1
  <2> QED
    BY <1>2, <2>1, <2>2 DEF Lexemes
<1>3. CASE l.kind \notin {"text", "number"}
  BY <1>3 DEF CutLexemes
<1> QED
  BY <1>1, <1>2, <1>3

CutAt(f, b, n, c) ==
  /\ b = SubSeq(f, 1, n - 1) \o << c >>
  /\ SubSeq(f, 1, n - 1) \in Seq(Lexemes)
  /\ Len(SubSeq(f, 1, n - 1)) = n - 1
  /\ \A i \in 1 .. n - 1 : SubSeq(f, 1, n - 1)[i] = f[i]
  /\ c \in Lexemes

\* A beginning is cut inside one lexeme of the frame.
LEMMA BeginningShape ==
  ASSUME NEW f \in Seq(Lexemes), f # << >>, f[1] = Open,
         NEW b \in Beginnings(f)
  PROVE  /\ \E n \in 1 .. Len(f) : \E c \in CutLexemes(f[n]) : CutAt(f, b, n, c)
         /\ b \in Seq(Lexemes) /\ b # << >> /\ b[1] = Open
<1>1. DOMAIN f = 1 .. Len(f) /\ Len(f) \in Nat /\ \A i \in 1 .. Len(f) : f[i] \in Lexemes
  BY LenProperties
<1>2. PICK n \in DOMAIN f :
        b \in {SubSeq(f, 1, n - 1) \o << l >> : l \in CutLexemes(f[n])}
  BY DEF Beginnings
<1>3. PICK c \in CutLexemes(f[n]) : b = SubSeq(f, 1, n - 1) \o << c >>
  BY <1>2
<1>4. n \in 1 .. Len(f) /\ f[n] \in Lexemes
  BY <1>1
<1>5. c \in Lexemes /\ (f[n] = Open => c = Open)
  BY <1>3, <1>4, CutTypes
<1> DEFINE a == SubSeq(f, 1, n - 1)
           y == << c >>
           m == n - 1
<1>6. a \in Seq(Lexemes) /\ Len(a) = m /\ \A i \in 1 .. m : a[i] = f[i]
  <2>1. m \in Nat /\ n = m + 1
    BY <1>4
  <2>2. \A i \in 1 .. m : f[i] \in Lexemes
    BY <1>1, <1>4
  <2> HIDE DEF m
  <2>3. /\ SubSeq(f, 1, m) \in Seq(Lexemes)
        /\ Len(SubSeq(f, 1, m)) = IF 1 <= m THEN m - 1 + 1 ELSE 0
        /\ \A i \in 1 .. m - 1 + 1 : SubSeq(f, 1, m)[i] = f[1 + i - 1]
    BY <2>1, <2>2, SubSeqProperties
  <2>4. Len(SubSeq(f, 1, m)) = m
    BY <2>1, <2>3
  <2>5. \A i \in 1 .. m : SubSeq(f, 1, m)[i] = f[i]
    BY <2>1, <2>3
  <2> QED
    BY <2>3, <2>4, <2>5 DEF m
<1>7. y \in Seq(Lexemes) /\ Len(y) = 1 /\ y[1] = c
  BY <1>5
<1> HIDE DEF a, y
<1>8. /\ a \o y \in Seq(Lexemes) /\ Len(a \o y) = Len(a) + Len(y)
      /\ \A i \in 1 .. Len(a) + Len(y) :
           (a \o y)[i] = IF i <= Len(a) THEN a[i] ELSE y[i - Len(a)]
  BY <1>6, <1>7, ConcatProperties
<1>9. Len(a \o y) = n /\ n \in Nat /\ n >= 1
  BY <1>4, <1>6, <1>7, <1>8
<1>10. (a \o y)[1] = Open
  <2>1. (a \o y)[1] = IF 1 <= Len(a) THEN a[1] ELSE y[1 - Len(a)]
    <3>1. 1 \in 1 .. Len(a) + Len(y)
      BY <1>8, <1>9
    <3> QED
      BY <1>8, <3>1
  <2>2. CASE n = 1
    BY <1>5, <1>6, <1>7, <2>1, <2>2
  <2>3. CASE n # 1
    <3>1. 1 \in 1 .. m /\ 1 <= Len(a)
      BY <1>6, <1>9, <2>3
    <3> QED
      BY <1>6, <2>1, <3>1
  <2> QED
    BY <2>2, <2>3
<1>11. a \o y # << >>
  BY <1>8, <1>9, EmptySeq
<1>12. b = a \o y
  BY <1>3 DEF a, y
<1>13. CutAt(f, b, n, c)
  BY <1>5, <1>6, <1>12 DEF a, y, m, CutAt
<1> QED
  BY <1>3, <1>4, <1>8, <1>10, <1>11, <1>12, <1>13

LEMMA DoomedFromFirst ==
  ASSUME NEW s \in Scanners, Doomed(s) \/ InPrimitive(s) \/ Finished(s),
         NEW f \in Seq(Lexemes), f # << >>, f[1] = Open
  PROVE  Doomed(ScanAll(s, f))
<1> DEFINE x == << Open >>
           rest == Tail(f)
<1>1. /\ x \in Seq(Lexemes) /\ Len(x) = 1 /\ x[1] = Open
  BY OpenIsLexeme
<1> HIDE DEF x
<1>2. /\ rest \in Seq(Lexemes) /\ Len(rest) = Len(f) - 1
      /\ \A i \in 1 .. Len(rest) : rest[i] = f[i + 1]
      /\ Len(f) \in Nat /\ Len(f) >= 1
  BY HeadTailProperties, LenProperties, EmptySeq
<1> HIDE DEF rest
<1>3. f = x \o rest
  <2>1. /\ x \o rest \in Seq(Lexemes)
        /\ Len(x \o rest) = Len(x) + Len(rest)
        /\ \A i \in 1 .. Len(x) + Len(rest) :
             (x \o rest)[i] = IF i <= Len(x) THEN x[i] ELSE rest[i - Len(x)]
    <3>1. x \in Seq(Lexemes) /\ rest \in Seq(Lexemes)
      BY <1>1, <1>2
    <3> QED
      BY <3>1, ConcatProperties
  <2>2. Len(x \o rest) = Len(f)
    BY <1>1, <1>2, <2>1
  <2>3. ASSUME NEW i \in 1 .. Len(f) PROVE (x \o rest)[i] = f[i]
    <3>1. (x \o rest)[i] = IF i <= 1 THEN x[i] ELSE rest[i - 1]
      BY <1>1, <1>2, <2>1
    <3>2. CASE i = 1
      BY <1>1, <3>1, <3>2
    <3>3. CASE i # 1
      <4> DEFINE j == i - 1
      <4>1. j \in 1 .. Len(rest) /\ j + 1 = i /\ ~(i <= 1)
        BY <1>2, <3>3
      <4> HIDE DEF j
      <4>2. rest[j] = f[i]
        BY <1>2, <4>1
      <4> QED
        BY <3>1, <4>1, <4>2 DEF j
    <3> QED
      BY <3>2, <3>3
  <2> QED
    BY <2>1, <2>2, <2>3, SeqEqual
<1>4. ScanAll(s, x) = Scan(s, Open)
  BY ScanAllOne, OpenIsLexeme DEF x
<1>5. Scan(s, Open) \in Scanners /\ Doomed(Scan(s, Open))
  BY ScanKeeps, OpenIsLexeme, OpenDooms
<1>6. ScanAll(s, f) = ScanAll(Scan(s, Open), rest)
  BY <1>1, <1>2, <1>3, <1>4, ScanAllConcat
<1> QED
  BY <1>2, <1>5, <1>6, DoomedStays

\* An abandoned write leaves remains behind a fresh line or an open object.
LEMMA BeginningScanned ==
  ASSUME NEW s \in Scanners, s.tail = "none",
         s.open # << >> \/ Even(Len(s.tokens)),
         NEW ps \in Seq(WholePairs), NEW b \in Beginnings(Frame(ps))
  PROVE  Remains(ScanAll(s, b))
<1>1. PICK body \in Seq(Lexemes), k \in Nat :
        /\ Frame(ps) = << Open >> \o body \o << Close >>
        /\ Frame(ps) \in Seq(Lexemes) /\ Steady(body, 2 * k)
  BY FrameWritten
<1> DEFINE f == Frame(ps)
           m == Len(body)
<1>2. PICK r : Trace(s, f, r) /\ ScanAll(s, f) = r[Len(f)]
  BY <1>1, TraceExists
<1>3. Len(f) = m + 2 /\ f[1] = Open /\ m \in Nat /\ f # << >>
  <2>1. Len(f) = m + 2 /\ f[1] = Open /\ m \in Nat
    BY <1>1, <1>2, ObjectTrace, LenProperties
  <2> HIDE DEF f, m
  <2> QED
    BY <2>1, EmptySeq
<1>4. /\ \A n \in 1 .. m + 1 :
           r[n].tail = "none" /\ Len(r[n].open) >= Len(s.open) + 1
      /\ r[m + 2].tail = "none" /\ r[m + 2].open = s.open
      /\ Len(r[m + 2].tokens) = Len(s.tokens) + 2 * k + 1
  <2> DEFINE j == 2 * k
  <2>1. Trace(s, << Open >> \o body \o << Close >>, r)
    BY <1>1, <1>2
  <2>2. Steady(body, j) /\ j \in Nat
    BY <1>1
  <2> HIDE DEF j, f
  <2>3. /\ \A n \in 1 .. m + 1 :
             r[n].tail = "none" /\ Len(r[n].open) >= Len(s.open) + 1
        /\ r[m + 2].tail = "none" /\ r[m + 2].open = s.open
        /\ Len(r[m + 2].tokens) = Len(s.tokens) + j + 1
    BY <2>1, <2>2, ObjectSteps
  <2> QED
    BY <2>3 DEF j
<1>5. f \in Seq(Lexemes)
  BY <1>1
<1> HIDE DEF f, m
<1>5a. PICK n \in 1 .. Len(f) : \E c \in CutLexemes(f[n]) : CutAt(f, b, n, c)
  <2>1. b \in Beginnings(f)
    BY DEF f
  <2> QED
    BY <1>3, <1>5, <2>1, BeginningShape
<1>6. PICK c \in CutLexemes(f[n]) : CutAt(f, b, n, c)
  BY <1>5a
<1>6a. c \in Lexemes
  BY <1>6 DEF CutAt
<1> DEFINE a == SubSeq(f, 1, n - 1)
           t == r[n - 1]
<1>7. ScanAll(s, a) = t /\ t \in Scanners
  <2>1. n - 1 \in 0 .. Len(f) /\ (1 .. n - 1) \subseteq (1 .. Len(f))
    BY <1>3
  <2>2. Trace(s, a, r)
    BY <1>2, <1>6, <2>1 DEF Trace, CutAt
  <2> HIDE DEF a
  <2>3. t \in Scanners
    BY <1>2, <1>5, <2>1, TraceTyped
  <2>4. ScanAll(s, a) = r[Len(a)]
    BY <1>6, <2>2, TraceAgrees DEF a, CutAt
  <2> QED
    BY <1>6, <2>3, <2>4 DEF a, CutAt
<1>8. ScanAll(s, b) = Scan(t, c)
  <2> DEFINE y == << c >>
  <2>1. y \in Seq(Lexemes)
    BY <1>6a
  <2>2. ScanAll(t, y) = Scan(t, c)
    BY <1>6a, <1>7, ScanAllOne
  <2> HIDE DEF y, t
  <2>3. a \in Seq(Lexemes)
    BY <1>6 DEF CutAt
  <2>4. b = a \o y
    BY <1>6 DEF y, CutAt
  <2> HIDE DEF a
  <2>5. ScanAll(s, a \o y) = ScanAll(ScanAll(s, a), y)
    BY <2>1, <2>3, ScanAllConcat
  <2> QED
    BY <1>7, <2>2, <2>4, <2>5
<1>9. f[n] \in Lexemes /\ r[n] = Scan(t, f[n])
  BY <1>2, <1>5 DEF Trace
<1>10. t.tail = "none"
  <2>1. n = 1 \/ n - 1 \in 1 .. m + 1
    BY <1>3
  <2>2. r[0] = s
    BY <1>2 DEF Trace
  <2> QED
    BY <1>4, <2>1, <2>2
<1> HIDE DEF a, t
<1>11. CASE c = f[n]
  <2>1. ScanAll(s, b) = r[n]
    BY <1>8, <1>9, <1>11
  <2>2. Len(s.open) \in Nat /\ Len(s.tokens) \in Nat
    BY LenProperties DEF Scanners
  <2>3. CASE n \in 1 .. m + 1
    <3>1. r[n].tail = "none" /\ Len(r[n].open) >= Len(s.open) + 1
      BY <1>4, <2>3
    <3>2. r[n].open # << >>
      <4>1. Len(r[n].open) # 0
        BY <2>2, <3>1
      <4> QED
        BY <4>1, EmptySeq
    <3> QED
      BY <2>1, <3>1, <3>2 DEF Remains, Unfinished
  <2>4. CASE n = m + 2 /\ s.open # << >>
    BY <1>4, <2>1, <2>4 DEF Remains, Unfinished
  <2>5. CASE n = m + 2 /\ s.open = << >>
    <3> DEFINE x == Len(s.tokens)
    <3>1. Even(x) /\ x \in Nat
      BY <2>2, <2>5
    <3> HIDE DEF x
    <3>2. x + 2 * k \in Nat /\ Even(x + 2 * k)
      <4>1. \A j \in Nat : Even(x + 2 * j) <=> Even(x)
        BY <3>1, EvenNext
      <4> QED
        BY <3>1, <4>1
    <3>3. ~Even(x + 2 * k + 1)
      BY <3>2, EvenNext
    <3> QED
      BY <1>4, <2>1, <2>5, <3>3 DEF Remains, Finished, x
  <2> QED
    BY <1>3, <2>3, <2>4, <2>5
<1>12. CASE c.kind = "half"
  <2>1. Scan(t, c) = [tokens |-> t.tokens, open |-> t.open, tail |-> "string",
                      position |-> t.position + 1, invalid |-> t.invalid]
    BY <1>6a, <1>7, <1>10, <1>12, ScanHalf
  <2> QED
    BY <1>8, <2>1 DEF Remains, Doomed
<1>13. CASE c.kind = "number" /\ c.ended = FALSE
  <2> DEFINE e == Token("primitive", c, t.position)
  <2>1. t.tokens \in Seq(TokenSet) /\ t.position \in Nat
    BY <1>7 DEF Scanners
  <2>2. e \in TokenSet /\ e.type = "primitive"
    <3>1. e.type = "primitive"
      BY DEF Token
    <3> QED
      BY <1>6a, <2>1, <3>1, TokenType
  <2>3. Scan(t, c) =
           [tokens |-> Append(t.tokens, e),
            open |-> t.open,
            tail |-> IF c.ended THEN "none" ELSE "primitive",
            position |-> t.position + 1, invalid |-> t.invalid]
    BY <1>6a, <1>7, <1>10, <1>13, ScanNumber
  <2> HIDE DEF e
  <2>4. /\ Append(t.tokens, e) # << >>
        /\ Len(Append(t.tokens, e)) = Len(t.tokens) + 1
        /\ Append(t.tokens, e)[Len(t.tokens) + 1] = e
    <3>1. Append(t.tokens, e) # << >>
      BY <2>1, <2>2, Appended
    <3>2. /\ Len(Append(t.tokens, e)) = Len(t.tokens) + 1
          /\ Append(t.tokens, e)[Len(t.tokens) + 1] = e
      BY <2>1, <2>2, Appended
    <3> QED
      BY <3>1, <3>2
  <2>5. /\ Scan(t, c).tail = "primitive"
        /\ Scan(t, c).tokens = Append(t.tokens, e)
    BY <1>13, <2>3
  <2> QED
    BY <1>8, <2>2, <2>4, <2>5 DEF Remains, InPrimitive
<1> QED
  BY <1>9, <1>11, <1>12, <1>13, CutTypes

\* And behind the remains of another one.
LEMMA BeginningRemains ==
  ASSUME NEW s \in Scanners, Remains(s) \/ s = InitialScanner,
         NEW ps \in Seq(WholePairs), NEW b \in Beginnings(Frame(ps))
  PROVE  b \in Seq(Lexemes) /\ Remains(ScanAll(s, b))
<1>1. PICK body \in Seq(Lexemes), k \in Nat :
        /\ Frame(ps) = << Open >> \o body \o << Close >>
        /\ Frame(ps) \in Seq(Lexemes) /\ Steady(body, 2 * k)
  BY FrameWritten
<1> DEFINE f == Frame(ps)
<1>2. f \in Seq(Lexemes) /\ f # << >> /\ f[1] = Open
  <2>1. PICK r : Trace(s, f, r) /\ ScanAll(s, f) = r[Len(f)]
    BY <1>1, TraceExists
  <2>2. Len(f) = Len(body) + 2 /\ f[1] = Open /\ Len(body) \in Nat
    BY <1>1, <2>1, ObjectTrace, LenProperties
  <2>3. f \in Seq(Lexemes)
    BY <1>1
  <2> HIDE DEF f
  <2> QED
    BY <2>2, <2>3, EmptySeq
<1>3. b \in Beginnings(f)
  OBVIOUS
<1> HIDE DEF f
<1>4. b \in Seq(Lexemes) /\ b # << >> /\ b[1] = Open
  BY <1>2, <1>3, BeginningShape
<1>5. CASE Doomed(s) \/ InPrimitive(s) \/ Finished(s)
  BY <1>4, <1>5, DoomedFromFirst DEF Remains
<1>6. CASE Unfinished(s)
  BY <1>4, <1>6, BeginningScanned DEF Unfinished
<1>7. CASE s = InitialScanner
  <2>1. s.tail = "none" /\ s.tokens = << >>
    BY <1>7 DEF InitialScanner
  <2>2. Len(s.tokens) = 0 /\ Even(0)
    <3>1. 0 = 2 * 0 /\ 0 \in Nat
      OBVIOUS
    <3> QED
      BY <2>1, <3>1, EmptySeq DEF Even
  <2> QED
    BY <1>4, <2>1, <2>2, BeginningScanned
<1> QED
  BY <1>5, <1>6, <1>7 DEF Remains

(***************************************************************************)
(* A whole request behind the remains of others.                           *)
(***************************************************************************)
LEMMA RemainsRead ==
  ASSUME NEW s \in Scanners, Remains(s), NEW ps \in Seq(WholePairs)
  PROVE  LET t == ScanAll(s, Frame(ps)) IN
           JsmnFails(t) \/ \E i \in 1 .. Len(t.tokens) : Unreadable(t.tokens, i)
<1>1. PICK body \in Seq(Lexemes), k \in Nat :
        /\ Frame(ps) = << Open >> \o body \o << Close >>
        /\ Frame(ps) \in Seq(Lexemes) /\ Steady(body, 2 * k)
  BY FrameWritten
<1> DEFINE f == Frame(ps)
           m == Len(body)
           t == ScanAll(s, f)
<1>2. PICK r : Trace(s, f, r) /\ t = r[Len(f)]
  BY <1>1, TraceExists
<1>3. Len(f) = m + 2 /\ f[1] = Open /\ m \in Nat /\ f # << >> /\ f \in Seq(Lexemes)
  <2>1. Len(f) = m + 2 /\ f[1] = Open /\ m \in Nat /\ f \in Seq(Lexemes)
    BY <1>1, <1>2, ObjectTrace, LenProperties
  <2> HIDE DEF f, m
  <2> QED
    BY <2>1, EmptySeq
<1>4. CASE Unfinished(s)
  <2>1. s.tail = "none" /\ s.open # << >>
    BY <1>4 DEF Unfinished
  <2>2. r[m + 2].open = s.open
    <3>1. 2 * k \in Nat
      OBVIOUS
    <3> QED
      BY <1>1, <1>2, <2>1, <3>1, ObjectSteps
  <2>3. t.open # << >>
    BY <1>2, <1>3, <2>1, <2>2
  <2> QED
    BY <2>3 DEF JsmnFails
<1>5. CASE Doomed(s) \/ InPrimitive(s) \/ Finished(s)
  <2> HIDE DEF f
  <2>1. Doomed(t)
    BY <1>3, <1>5, DoomedFromFirst
  <2> QED
    BY <2>1 DEF Doomed, JsmnFails, f
<1> QED
  BY <1>4, <1>5 DEF Remains

-----------------------------------------------------------------------------
(***************************************************************************)
(* A line that begins with the remains of a request: while it is written,  *)
(* they let no request through; while it is parsed, a token is still ahead *)
(* that no turn takes, or the type was one that is not supported.          *)
(***************************************************************************)
Blocked ==
  \/ \E i \in index .. Len(tokens) : Unreadable(tokens, i)
  \/ "type" \in seen /\ request.type = "UNSUPPORTED"

Continues ==
  /\ cuts \in Nat /\ edits \in Nat
  /\ at \in {"idle", "writing"} /\ cuts = 0 => line = << >>
  /\ at \in {"idle", "writing"} /\ cuts # 0 =>
       edits = 0 /\ line \in Seq(Lexemes) /\ Remains(Jsmn(line))
  /\ at = "writing" /\ edits = 0 => pairs \in Requests
  /\ at = "tokens" /\ cuts # 0 =>
       \/ JsmnFails(Jsmn(line))
       \/ \E i \in 1 .. Len(Jsmn(line).tokens) :
            Unreadable(Jsmn(line).tokens, i)
  /\ Parsing /\ cuts # 0 => Blocked
  /\ at = "done" /\ cuts # 0 => accepted = FALSE

LEMMA InitialScannerType == InitialScanner \in Scanners
<1>1. << >> \in Seq(TokenSet) /\ << >> \in Seq(Nat) /\ 1 \in Nat
  OBVIOUS
<1> QED
  BY <1>1 DEF InitialScanner, Scanners

LEMMA InitContinues == Init => Continues
BY DEF Init, Continues, Parsing

\* What jsmn would make of the line before the next request.
LEMMA LineSoFar ==
  ASSUME Continues, at \in {"idle", "writing"}
  PROVE  /\ line \in Seq(Lexemes) /\ Jsmn(line) \in Scanners
         /\ cuts # 0 => Remains(Jsmn(line))
         /\ cuts = 0 => Jsmn(line) = InitialScanner
<1>1. << >> \in Seq(Lexemes)
  OBVIOUS
<1>2. line \in Seq(Lexemes)
  BY <1>1 DEF Continues
<1>3. Jsmn(line) \in Scanners
  BY <1>2, InitialScannerType, ScanAllKeeps DEF Jsmn
<1>4. Jsmn(<< >>) = InitialScanner
  BY InitialScannerType, ScanAllNone DEF Jsmn
<1> QED
  BY <1>2, <1>3, <1>4 DEF Continues

LEMMA LineGoesOn ==
  ASSUME Continues, at \in {"idle", "writing"}, NEW b \in Seq(Lexemes)
  PROVE  Jsmn(line \o b) = ScanAll(Jsmn(line), b)
BY LineSoFar, InitialScannerType, ScanAllConcat DEF Jsmn

LEMMA AbandonContinues ==
  ASSUME Continues, Abandon
  PROVE  Continues'
<1>1. /\ at = "writing" /\ edits = 0 /\ cuts' = cuts + 1 /\ at' = "idle"
      /\ edits' = edits /\ pairs \in Requests /\ cuts \in Nat
  BY DEF Abandon, Continues
<1>2. PICK b \in Beginnings(Frame(pairs)) : line' = line \o b
  BY DEF Abandon
<1>3. pairs \in Seq(WholePairs)
  BY <1>1, RequestsAreWhole
<1>4. /\ Jsmn(line) \in Scanners /\ line \in Seq(Lexemes)
      /\ Remains(Jsmn(line)) \/ Jsmn(line) = InitialScanner
  BY <1>1, LineSoFar
<1>5. b \in Seq(Lexemes) /\ Remains(ScanAll(Jsmn(line), b))
  BY <1>2, <1>3, <1>4, BeginningRemains
<1>6. Jsmn(line') = ScanAll(Jsmn(line), b)
  BY <1>1, <1>2, <1>5, LineGoesOn
<1>7. line' \in Seq(Lexemes) /\ Remains(Jsmn(line'))
  BY <1>2, <1>4, <1>5, <1>6, ConcatProperties
<1>8. cuts' \in Nat /\ cuts' # 0
  BY <1>1
<1> QED
  BY <1>1, <1>7, <1>8 DEF Continues, Parsing

LEMMA WriteContinues ==
  ASSUME Continues, WriteLine
  PROVE  Continues'
<1>1. /\ at = "writing" /\ at' = "tokens" /\ cuts' = cuts /\ edits' = edits
      /\ line' = line \o Frame(pairs) /\ cuts \in Nat
  BY DEF WriteLine, Continues
<1>2. ASSUME cuts # 0
      PROVE  \/ JsmnFails(Jsmn(line'))
             \/ \E i \in 1 .. Len(Jsmn(line').tokens) :
                  Unreadable(Jsmn(line').tokens, i)
  <2>1. pairs \in Seq(WholePairs)
    BY <1>1, <1>2, RequestsAreWhole DEF Continues
  <2>2. Jsmn(line) \in Scanners /\ Remains(Jsmn(line))
    BY <1>1, <1>2, LineSoFar
  <2>3. Frame(pairs) \in Seq(Lexemes)
    BY <2>1, FrameWritten
  <2>4. Jsmn(line') = ScanAll(Jsmn(line), Frame(pairs))
    BY <1>1, <2>3, LineGoesOn
  <2> QED
    BY <2>1, <2>2, <2>4, RemainsRead
<1> QED
  BY <1>1, <1>2 DEF Continues, Parsing

LEMMA TokenizeContinues ==
  ASSUME Continues, Tokenize
  PROVE  Continues'
<1> DEFINE t == Jsmn(line)
<1>1. /\ at = "tokens" /\ UNCHANGED <<cuts, edits>> /\ cuts \in Nat
      /\ tokens' = t.tokens
  BY DEF Tokenize, hostVars, Continues
<1>2. CASE at' = "done" /\ accepted' = FALSE
  BY <1>1, <1>2 DEF Continues, Parsing
<1>3. CASE /\ ~JsmnFails(t) /\ CountFits(Len(tokens'))
           /\ tokens'[1].type = "object" /\ index' = 2 /\ at' = "pairs"
  <2>1. ASSUME cuts # 0 PROVE \E i \in index' .. Len(tokens') : Unreadable(tokens', i)
    <3>1. PICK i \in 1 .. Len(tokens') : Unreadable(tokens', i)
      BY <1>1, <1>3, <2>1 DEF Continues
    <3>2. ~Even(1)
      BY DEF Even
    <3>3. i # 1
      BY <1>3, <3>1, <3>2 DEF Unreadable
    <3>4. Len(tokens') \in Nat
      BY <1>3 DEF CountFits
    <3>5. i \in index' .. Len(tokens')
      BY <1>3, <3>3, <3>4
    <3> QED
      BY <3>1, <3>5
  <2> QED
    BY <1>1, <1>3, <2>1 DEF Continues, Parsing, Blocked
<1> QED
  BY <1>2, <1>3 DEF Tokenize, Answer

LEMMA KeyReadable ==
  ASSUME InStep, Parsing, CurrentKey # "", CurrentKey # Garbled
  PROVE  ~Unreadable(tokens, index)
BY DEF CurrentKey, Unreadable

LEMMA OddValue ==
  ASSUME InStep, Parsing
  PROVE  index \in Nat /\ Even(index) /\ ~Even(index + 1)
<1>1. PICK turn \in Nat : index = 2 * turn
  BY DEF InStep
<1>2. index \in Nat /\ Even(index)
  BY <1>1 DEF Even
<1> QED
  BY <1>2, EvenNext

\* A turn that is taken leaves the token that blocks the line ahead of it.
LEMMA TurnContinues ==
  ASSUME InStep, Holds, Continues, Parsing, index < Len(tokens),
         ~Unreadable(tokens, index),
         \/ ~Unreadable(tokens, index + 1)
         \/ "type" \in seen' /\ request'.type = "UNSUPPORTED",
         "type" \in seen => "type" \in seen' /\ request'.type = request.type,
         index' = index + 2, Parsing', UNCHANGED <<hostVars, tokens>>
  PROVE  Continues'
<1>1. UNCHANGED <<cuts, edits, tokens>> /\ cuts \in Nat
  BY DEF hostVars, Continues
<1>2. index \in Nat /\ Len(tokens) \in {7, 9, 17}
  BY OddValue DEF InStep
<1>3. ASSUME cuts # 0 PROVE Blocked'
  <2>1. CASE "type" \in seen /\ request.type = "UNSUPPORTED"
    BY <2>1 DEF Blocked
  <2>2. CASE \E i \in index .. Len(tokens) : Unreadable(tokens, i)
    <3>1. PICK i \in index .. Len(tokens) : Unreadable(tokens, i)
      BY <2>2
    <3>2. CASE i = index + 1
      BY <3>1, <3>2 DEF Blocked
    <3>3. CASE i # index + 1
      <4>1. i # index
        BY <3>1
      <4>2. i \in index + 2 .. Len(tokens)
        BY <1>2, <3>3, <4>1
      <4> QED
        BY <1>1, <3>1, <4>2 DEF Blocked
    <3> QED
      BY <3>2, <3>3
  <2> QED
    BY <1>3, <2>1, <2>2 DEF Continues, Blocked
<1> QED
  BY <1>1, <1>3 DEF Continues, Parsing

LEMMA RefusedContinues ==
  ASSUME Continues, Answer(FALSE), UNCHANGED hostVars
  PROVE  Continues'
BY DEF Continues, Answer, hostVars, Parsing

LEMMA ValueReadable ==
  ASSUME InStep, Parsing,
         \/ CurrentValue.text # Garbled
         \/ CurrentValue.type = "object"
  PROVE  ~Unreadable(tokens, index + 1)
BY OddValue DEF CurrentValue, Unreadable

LEMMA PairContinues ==
  ASSUME InStep, Holds, Continues, ParsePair
  PROVE  Continues'
<1>1. /\ at = "pairs" /\ index <= Len(tokens) /\ UNCHANGED <<hostVars, tokens>>
      /\ Parsing
  BY DEF ParsePair, Parsing
<1>2. index < Len(tokens)
  BY <1>1, PairAhead
<1>3. CASE RefusePair
  BY <1>1, <1>3, RefusedContinues DEF RefusePair
<1>4. CASE TakePair
  <2>1. index' = index + 2 /\ NotSeen(CurrentKey)
    BY <1>4 DEF TakePair
  <2>2. CASE ValidObject /\ at' = "colour" /\ UNCHANGED <<seen, request>>
    <3>1. CurrentKey = "parameters" /\ CurrentValue.type = "object"
      BY <2>2 DEF ValidObject
    <3>2. ~Unreadable(tokens, index)
      BY <1>1, <3>1, KeyReadable DEF Garbled
    <3>3. ~Unreadable(tokens, index + 1)
      BY <1>1, <3>1, ValueReadable
    <3>4. Parsing'
      BY <2>2 DEF Parsing
    <3> QED
      BY <1>1, <1>2, <2>1, <2>2, <3>2, <3>3, <3>4, TurnContinues
  <2>3. CASE /\ ValidScalar /\ seen' = seen \cup {CurrentKey}
             /\ request' = Taken /\ at' = at
    <3>1. Parsing' /\ request \in Fields
      BY <1>1, <2>3 DEF Parsing, Holds
    <3>2. ~Unreadable(tokens, index)
      <4>1. CurrentKey # "" /\ CurrentKey # Garbled
        BY <2>3 DEF ValidScalar, Garbled
      <4> QED
        BY <1>1, <4>1, KeyReadable
    <3>3. "type" \in seen => "type" \in seen' /\ request'.type = request.type
      <4>1. ASSUME "type" \in seen PROVE request'.type = request.type
        <5>1. CurrentKey # "type"
          BY <2>1, <4>1 DEF NotSeen
        <5> QED
          BY <2>3, <3>1, <5>1 DEF Taken, Fields
      <4> QED
        BY <2>3, <4>1
    <3>4. \/ ~Unreadable(tokens, index + 1)
          \/ "type" \in seen' /\ request'.type = "UNSUPPORTED"
      <4>1. CASE CurrentKey = "type" /\ CurrentValue.text = Garbled
        <5>1. Garbled \notin RequestTypes
          BY DEF Garbled, RequestTypes
        <5>2. request' = [request EXCEPT !.type = "UNSUPPORTED"]
          BY <2>3, <4>1, <5>1 DEF Taken
        <5> QED
          BY <2>3, <3>1, <4>1, <5>2 DEF Fields
      <4>2. CASE CurrentValue.text # Garbled
        BY <1>1, <4>2, ValueReadable
      <4>3. CASE CurrentKey # "type"
        <5>1. CurrentValue.text # Garbled
          BY <2>3, <4>3 DEF ValidScalar, PositiveUint32, Digits, Uuids, Names,
                            Garbled
        <5> QED
          BY <1>1, <5>1, ValueReadable
      <4> QED
        BY <4>1, <4>2, <4>3
    <3> QED
      BY <1>1, <1>2, <2>1, <3>1, <3>2, <3>3, <3>4, TurnContinues
  <2> QED
    BY <1>4, <2>2, <2>3 DEF TakePair
<1> QED
  BY <1>3, <1>4 DEF ParsePair

LEMMA ColourContinues ==
  ASSUME InStep, Holds, Continues, ParseColour
  PROVE  Continues'
<1>1. /\ at = "colour" /\ index < Len(tokens) /\ UNCHANGED <<hostVars, tokens>>
      /\ Parsing
  BY DEF ParseColour, InObject, Parsing
<1>2. CASE Answer(FALSE)
  BY <1>1, <1>2, RefusedContinues
<1>3. CASE /\ ValidColour /\ seen' = seen \cup {CurrentKey}
           /\ request' = [request EXCEPT ![CurrentKey] = CurrentValue.number]
           /\ index' = index + 2 /\ at' = at
  <2>1. CurrentKey \in {"red", "green", "blue"} /\ CurrentValue.text = ""
    BY <1>3 DEF ValidColour, Colours, Uint8, Digits
  <2>2. ~Unreadable(tokens, index)
    BY <1>1, <2>1, KeyReadable DEF Garbled
  <2>3. ~Unreadable(tokens, index + 1)
    BY <1>1, <2>1, ValueReadable DEF Garbled
  <2>4. request'.type = request.type
    <3>1. request \in Fields /\ CurrentKey # "type"
      BY <2>1 DEF Holds
    <3> HIDE DEF CurrentKey, CurrentValue
    <3> QED
      BY <1>3, <3>1 DEF Fields
  <2>5. Parsing' /\ ("type" \in seen => "type" \in seen')
    BY <1>1, <1>3 DEF Parsing
  <2> QED
    BY <1>1, <1>3, <2>2, <2>3, <2>4, <2>5, TurnContinues
<1> QED
  BY <1>2, <1>3 DEF ParseColour

LEMMA ColourDoneContinues ==
  ASSUME InStep, Holds, Continues, ColourDone
  PROVE  Continues'
<1>1. at = "colour" /\ UNCHANGED <<hostVars, tokens, index>> /\ Parsing
  BY DEF ColourDone, Parsing
<1>2. CASE Answer(FALSE)
  BY <1>1, <1>2, RefusedContinues
<1>3. CASE /\ request' = [request EXCEPT !.rgb_colour_present = TRUE]
           /\ seen' = seen \cup {"parameters"} /\ at' = "pairs"
  <2>1. request \in Fields
    BY DEF Holds
  <2>2. request'.type = request.type
    BY <1>3, <2>1 DEF Fields
  <2>3. Blocked => Blocked'
    BY <1>1, <1>3, <2>2 DEF Blocked
  <2> QED
    BY <1>1, <1>3, <2>3 DEF Continues, hostVars, Parsing
<1> QED
  BY <1>2, <1>3 DEF ColourDone

LEMMA CheckContinues ==
  ASSUME InStep, Holds, Continues, CheckFields
  PROVE  Continues'
<1>1. /\ at = "pairs" /\ index > Len(tokens) /\ UNCHANGED hostVars /\ Parsing
      /\ at' = "done" /\ accepted' = FieldsFit
  BY DEF CheckFields, Parsing, Answer
<1>2. ASSUME cuts # 0 PROVE accepted' = FALSE
  <2>1. Blocked
    BY <1>1, <1>2 DEF Continues
  <2>2. ~ \E i \in index .. Len(tokens) : Unreadable(tokens, i)
    <3>1. index \in Nat /\ Len(tokens) \in {7, 9, 17}
      BY <1>1, OddValue DEF InStep
    <3>2. index .. Len(tokens) = {}
      BY <1>1, <3>1
    <3> QED
      BY <3>2
  <2>3. request.type = "UNSUPPORTED"
    BY <2>1, <2>2 DEF Blocked
  <2>4. ~FieldsFit
    BY <2>3 DEF FieldsFit
  <2>5. FieldsFit \in BOOLEAN
    BY DEF FieldsFit
  <2> QED
    BY <1>1, <2>4, <2>5
<1> QED
  BY <1>1, <1>2 DEF Continues, hostVars, Parsing

\* Continues, step by step.
LEMMA ContinuesKept ==
  ASSUME InStep, Inv, Continues, [Next]_vars
  PROVE  Continues'
<1>1. Holds
  BY DEF Inv
<1>2. CASE Compose
  BY <1>2 DEF Compose, Continues, Parsing
<1>3. CASE Edit
  <2>1. edits' \in Nat /\ edits' # 0
    BY <1>3 DEF Edit, Continues
  <2> QED
    BY <1>3, <2>1 DEF Edit, Continues, Parsing
<1>4. CASE NextLine
  BY <1>4 DEF NextLine, Continues, Parsing
<1>5. CASE UNCHANGED vars
  BY <1>5 DEF vars, hostVars, parserVars, Continues, Parsing, Blocked
<1> QED
  BY <1>1, <1>2, <1>3, <1>4, <1>5, AbandonContinues, WriteContinues,
     TokenizeContinues, PairContinues, ColourContinues, ColourDoneContinues,
     CheckContinues DEF Next, Host, Parser

(***************************************************************************)
(* A request that continues the remains of abandoned ones is refused:      *)
(* wherever the earlier writes were cut, json_protocol_parse_request       *)
(* returns false, and neither request is carried out.                      *)
(***************************************************************************)
THEOREM RemainsRefused ==
  Spec => [](at = "done" /\ cuts > 0 => accepted = FALSE)
<1>1. Init => InStep /\ Inv /\ Continues
  BY InStepInit, InitInv, InitContinues
<1>2. InStep /\ Inv /\ Continues /\ [Next]_vars => (InStep /\ Inv /\ Continues)'
  BY InStepKept, InvKept, ContinuesKept
<1>3. Continues => (at = "done" /\ cuts > 0 => accepted = FALSE)
  BY DEF Continues
<1> QED
  BY <1>1, <1>2, <1>3, PTL DEF Spec

-----------------------------------------------------------------------------
(***************************************************************************)
(* A request written in one piece: where its pairs are among the tokens.   *)
(***************************************************************************)
Width(p) == 2 + 2 * Len(p.inner)

ValueAt(e, v) ==
  /\ e.type = IF v.kind = "text" THEN "string" ELSE "primitive"
  /\ e.text = v.text /\ e.number = v.number

ScalarAt(t, i, p) ==
  /\ t[i].type = "string" /\ t[i].text = p.key
  /\ ValueAt(t[i + 1], p.value)

ObjectAt(t, i, p) ==
  /\ t[i].type = "string" /\ t[i].text = p.key
  /\ t[i + 1].type = "object"
  /\ \A j \in 1 .. Len(p.inner) : /\ ScalarAt(t, i + 2 * j, p.inner[j])
                                  /\ t[i + 2 * j].start < t[i + 1].end

Behind(t, i, p) ==
  \A j \in i + Width(p) .. Len(t) : t[i + 1].end <= t[j].start

PairAt(t, i, p) ==
  /\ p \in ScalarPairs => ScalarAt(t, i, p)
  /\ p \in ObjectPairs => ObjectAt(t, i, p) /\ Behind(t, i, p)

Offsets(o, ps) ==
  /\ o \in [0 .. Len(ps) -> Nat] /\ o[0] = 2
  /\ \A i \in 1 .. Len(ps) : o[i] = o[i - 1] + Width(ps[i])

Layout(t, o, ps) ==
  /\ Offsets(o, ps) /\ o[Len(ps)] = Len(t) + 1
  /\ \A i \in 1 .. Len(ps) : PairAt(t, o[i - 1], ps[i])

-----------------------------------------------------------------------------
(***************************************************************************)
(* Lexemes that leave the scanner where it was, k tokens later: what was   *)
(* written is not touched, and the new tokens are behind it and closed.    *)
(***************************************************************************)
Extends(s, t, k) ==
  /\ t \in Scanners /\ t.tail = "none"
  /\ t.open = s.open /\ t.invalid = s.invalid
  /\ s.position <= t.position
  /\ Len(t.tokens) = Len(s.tokens) + k
  /\ \A i \in 1 .. Len(s.tokens) : t.tokens[i] = s.tokens[i]
  /\ \A i \in Len(s.tokens) + 1 .. Len(t.tokens) :
       /\ s.position <= t.tokens[i].start
       /\ t.tokens[i].start < t.position /\ t.tokens[i].end < t.position

LEMMA ScannerParts ==
  ASSUME NEW s \in Scanners
  PROVE  /\ s.tokens \in Seq(TokenSet) /\ Len(s.tokens) \in Nat
         /\ s.open \in Seq(Nat) /\ s.position \in Nat
         /\ \A i \in 1 .. Len(s.tokens) :
              s.tokens[i] \in TokenSet /\ s.tokens[i].start \in Nat
              /\ s.tokens[i].end \in Nat
<1>1. /\ s.tokens \in Seq(TokenSet) /\ s.open \in Seq(Nat) /\ s.position \in Nat
  BY DEF Scanners
<1>2. Len(s.tokens) \in Nat /\ \A i \in 1 .. Len(s.tokens) : s.tokens[i] \in TokenSet
  BY <1>1, LenProperties
<1>3. \A e \in TokenSet : e.start \in Nat /\ e.end \in Nat
  BY DEF TokenSet
<1> QED
  BY <1>1, <1>2, <1>3

LEMMA ExtendsSelf ==
  ASSUME NEW s \in Scanners, s.tail = "none"
  PROVE  Extends(s, s, 0)
<1>1. Len(s.tokens) \in Nat /\ s.position \in Nat
  BY ScannerParts
<1>2. \A i \in Len(s.tokens) + 1 .. Len(s.tokens) : FALSE
  BY <1>1
<1> QED
  BY <1>1, <1>2 DEF Extends

\* What two parts add is what they add together.
LEMMA ExtendsOn ==
  ASSUME NEW s \in Scanners, NEW t, NEW u, NEW k \in Nat, NEW m \in Nat,
         Extends(s, t, k), Extends(t, u, m)
  PROVE  Extends(s, u, k + m)
<1> DEFINE a == Len(s.tokens)
           b == Len(t.tokens)
           c == Len(u.tokens)
<1>1. t \in Scanners /\ u \in Scanners
  BY DEF Extends
<1>2. /\ a \in Nat /\ s.position \in Nat /\ t.position \in Nat
      /\ u.position \in Nat
  BY <1>1, ScannerParts
<1>3. /\ b = a + k /\ c = b + m
      /\ s.position <= t.position /\ t.position <= u.position
      /\ \A i \in 1 .. a : t.tokens[i] = s.tokens[i]
      /\ \A i \in 1 .. b : u.tokens[i] = t.tokens[i]
      /\ \A i \in a + 1 .. b :
           /\ s.position <= t.tokens[i].start
           /\ t.tokens[i].start < t.position /\ t.tokens[i].end < t.position
      /\ \A i \in b + 1 .. c :
           /\ t.position <= u.tokens[i].start
           /\ u.tokens[i].start < u.position /\ u.tokens[i].end < u.position
  BY DEF Extends
<1>4. c = a + (k + m)
  <2> HIDE DEF a, b, c
  <2> QED
    BY <1>2, <1>3
<1>5. \A i \in 1 .. c : u.tokens[i].start \in Nat /\ u.tokens[i].end \in Nat
  BY <1>1, ScannerParts
<1> DEFINE x == s.position
           y == t.position
           z == u.position
           ut == u.tokens
<1>6. ASSUME NEW i \in a + 1 .. c
      PROVE  x <= ut[i].start /\ ut[i].start < z /\ ut[i].end < z
  <2>1. ut[i].start \in Nat /\ ut[i].end \in Nat
    <3>1. i \in 1 .. c
      BY <1>2
    <3> QED
      BY <1>5, <3>1
  <2>2. CASE i <= b
    <3>1. i \in a + 1 .. b /\ i \in 1 .. b
      <4> HIDE DEF a, b, c
      <4> QED
        BY <1>2, <1>3, <2>2
    <3>2. /\ ut[i] = t.tokens[i] /\ x <= t.tokens[i].start
          /\ t.tokens[i].start < y /\ t.tokens[i].end < y
      BY <1>3, <3>1
    <3>3. x <= ut[i].start /\ ut[i].start < y /\ ut[i].end < y /\ y <= z
      BY <1>3, <3>2
    <3> HIDE DEF x, y, z, ut
    <3> QED
      BY <1>2, <2>1, <3>3 DEF x, y, z
  <2>3. CASE ~(i <= b)
    <3>1. i \in b + 1 .. c
      <4> HIDE DEF a, b, c
      <4> QED
        BY <1>2, <1>3, <2>3
    <3>2. y <= ut[i].start /\ ut[i].start < z /\ ut[i].end < z /\ x <= y
      BY <1>3, <3>1
    <3> HIDE DEF x, y, z, ut
    <3> QED
      BY <1>2, <2>1, <3>2 DEF x, y, z
  <2> QED
    BY <2>2, <2>3
<1>7. \A i \in 1 .. a : u.tokens[i] = s.tokens[i]
  <2>1. \A i \in 1 .. a : i \in 1 .. b
    <3> HIDE DEF a, b
    <3> QED
      BY <1>2, <1>3
  <2> QED
    BY <1>3, <2>1
<1>8. x <= z
  <2> HIDE DEF x, y, z
  <2> QED
    BY <1>2, <1>3 DEF x, y, z
<1> QED
  BY <1>1, <1>4, <1>6, <1>7, <1>8 DEF Extends

\* A token is what was written.
LEMMA OneExtends ==
  ASSUME NEW s \in Scanners, s.tail = "none", NEW l \in Lexemes,
         l.kind = "text" \/ (l.kind = "number" /\ l.ended = TRUE)
  PROVE  /\ Extends(s, Scan(s, l), 1)
         /\ ValueAt(Scan(s, l).tokens[Len(s.tokens) + 1], l)
<1> DEFINE n == Len(s.tokens)
           type == IF l.kind = "text" THEN "string" ELSE "primitive"
           e == Token(type, l, s.position)
           q == Append(s.tokens, e)
           t == Scan(s, l)
<1>1. s.tokens \in Seq(TokenSet) /\ n \in Nat /\ s.position \in Nat
  BY ScannerParts
<1>2. type \in {"object", "string", "primitive"}
  OBVIOUS
<1>3. t = [tokens |-> q, open |-> s.open, tail |-> "none",
           position |-> s.position + 1, invalid |-> s.invalid]
  <2>1. CASE l.kind = "text"
    <3>1. t = [tokens |-> Append(s.tokens, Token("string", l, s.position)),
            open |-> s.open, tail |-> "none",
            position |-> s.position + 1, invalid |-> s.invalid]
      BY <2>1, ScanText
    <3> QED
      BY <2>1, <3>1
  <2>2. CASE l.kind = "number" /\ l.ended = TRUE
    <3>1. t = [tokens |-> Append(s.tokens, Token("primitive", l, s.position)),
            open |-> s.open,
            tail |-> IF l.ended THEN "none" ELSE "primitive",
            position |-> s.position + 1, invalid |-> s.invalid]
      BY <2>2, ScanNumber
    <3>2. type = "primitive"
      BY <2>2
    <3> QED
      BY <2>2, <3>1, <3>2
  <2> QED
    BY <2>1, <2>2
<1>4. t \in Scanners
  BY ScanKeeps
<1> HIDE DEF type
<1>5. /\ e \in TokenSet /\ e.type = type /\ e.text = l.text
      /\ e.number = l.number /\ e.start = s.position /\ e.end = s.position
  <2>1. /\ e.type = type /\ e.text = l.text
        /\ e.number = l.number /\ e.start = s.position /\ e.end = s.position
    BY DEF Token
  <2>2. e \in TokenSet
    BY <1>1, <1>2, TokenType
  <2> QED
    BY <2>1, <2>2
<1> HIDE DEF e
<1>6. /\ q \in Seq(TokenSet) /\ Len(q) = n + 1 /\ q[n + 1] = e
      /\ \A i \in 1 .. n : q[i] = s.tokens[i]
  BY <1>1, <1>5, Appended
<1> HIDE DEF q, t
<1>7. ASSUME NEW i \in n + 1 .. Len(t.tokens)
      PROVE  /\ s.position <= t.tokens[i].start
             /\ t.tokens[i].start < t.position /\ t.tokens[i].end < t.position
  <2>1. i = n + 1 /\ t.tokens[i] = e /\ t.position = s.position + 1
    BY <1>1, <1>3, <1>6
  <2> QED
    BY <1>1, <1>5, <2>1
<1>8. Extends(s, t, 1)
  BY <1>1, <1>3, <1>4, <1>6, <1>7 DEF Extends
<1>9. ValueAt(t.tokens[n + 1], l)
  BY <1>3, <1>5, <1>6 DEF ValueAt, type
<1> QED
  BY <1>8, <1>9 DEF t

LEMMA ScalarAtKept ==
  ASSUME NEW t, NEW u, NEW i, NEW p, ScalarAt(t, i, p),
         u[i] = t[i], u[i + 1] = t[i + 1]
  PROVE  ScalarAt(u, i, p)
BY DEF ScalarAt

LEMMA ScalarScanned ==
  ASSUME NEW s \in Scanners, s.tail = "none", NEW p \in ScalarPairs
  PROVE  LET t == ScanAll(s, ScalarLexemes(p))
         IN Extends(s, t, 2) /\ ScalarAt(t.tokens, Len(s.tokens) + 1, p)
<1> DEFINE x == Key(p.key)
           v == p.value
           a == Scan(s, x)
           b == Scan(a, v)
           n == Len(s.tokens)
<1>1. p.value \in Values /\ p.key \in STRING
  BY DEF ScalarPairs
<1>2. x \in Lexemes /\ x.kind = "text" /\ x.text = p.key
  BY <1>1, KeyType DEF Key, Lexeme
<1>3. /\ v \in Lexemes
      /\ v.kind = "text" \/ (v.kind = "number" /\ v.ended = TRUE)
  BY <1>1, ValueType
<1>4. ScanAll(s, ScalarLexemes(p)) = b
  <2> DEFINE c == << x >>
             d == << v >>
  <2>1. c \in Seq(Lexemes) /\ d \in Seq(Lexemes)
    BY <1>2, <1>3
  <2>2. ScanAll(s, c) = a
    BY <1>2, ScanAllOne
  <2>3. a \in Scanners
    BY <1>2, ScanKeeps
  <2> HIDE DEF a
  <2>4. ScanAll(a, d) = b
    BY <1>3, <2>3, ScanAllOne
  <2>5. ScalarLexemes(p) = c \o d
    BY ScalarWritten
  <2> HIDE DEF c, d
  <2>6. ScanAll(s, c \o d) = ScanAll(ScanAll(s, c), d)
    BY <2>1, ScanAllConcat
  <2> QED
    BY <2>2, <2>4, <2>5, <2>6
<1> HIDE DEF x, v
<1>5. Extends(s, a, 1) /\ ValueAt(a.tokens[n + 1], x)
  BY <1>2, OneExtends
<1>6. a \in Scanners /\ a.tail = "none" /\ Len(a.tokens) = n + 1 /\ n \in Nat
  BY <1>5, ScannerParts DEF Extends
<1> HIDE DEF a
<1>7. Extends(a, b, 1) /\ ValueAt(b.tokens[Len(a.tokens) + 1], v)
  BY <1>3, <1>6, OneExtends
<1> HIDE DEF b, n
<1>8. b.tokens[n + 1] = a.tokens[n + 1]
  <2>1. n + 1 \in 1 .. Len(a.tokens)
    BY <1>6
  <2> QED
    BY <1>7, <2>1 DEF Extends
<1>9. ScalarAt(b.tokens, n + 1, p)
  <2>1. b.tokens[n + 1].type = "string" /\ b.tokens[n + 1].text = p.key
    BY <1>2, <1>5, <1>8 DEF ValueAt
  <2>2. Len(a.tokens) + 1 = (n + 1) + 1
    BY <1>6
  <2>3. ValueAt(b.tokens[(n + 1) + 1], p.value)
    BY <1>7, <2>2 DEF v
  <2> QED
    BY <2>1, <2>3 DEF ScalarAt
<1>10. Extends(s, b, 2)
  <2>1. 1 \in Nat /\ 1 + 1 = 2
    OBVIOUS
  <2>2. Extends(s, b, 1 + 1)
    BY <1>5, <1>7, <2>1, ExtendsOn
  <2> QED
    BY <2>1, <2>2
<1> QED
  BY <1>4, <1>9, <1>10 DEF b, n, a, v

-----------------------------------------------------------------------------
(***************************************************************************)
(* An object that is opened behind s and closed behind t.                  *)
(***************************************************************************)
Opened(s) == Scan(s, Open)
Closed(s) == Scan(s, Close)

LEMMA OpenedParts ==
  ASSUME NEW s \in Scanners, s.tail = "none"
  PROVE  /\ Opened(s) \in Scanners /\ Opened(s).tail = "none"
         /\ Opened(s).open = Append(s.open, Len(s.tokens) + 1)
         /\ Opened(s).invalid = s.invalid
         /\ Opened(s).position = s.position + 1
         /\ Len(Opened(s).tokens) = Len(s.tokens) + 1
         /\ \A i \in 1 .. Len(s.tokens) : Opened(s).tokens[i] = s.tokens[i]
         /\ Opened(s).tokens[Len(s.tokens) + 1].type = "object"
         /\ Opened(s).tokens[Len(s.tokens) + 1].start = s.position
<1> DEFINE e == Token("object", Open, s.position)
           q == Append(s.tokens, e)
           t == Opened(s)
<1>1. Open.kind = "open" /\ Open \in Lexemes
  BY OpenIsLexeme DEF Open, Lexeme
<1>2. t = [tokens |-> q, open |-> Append(s.open, Len(s.tokens) + 1),
           tail |-> "none", position |-> s.position + 1,
           invalid |-> s.invalid]
  BY <1>1, ScanOpen DEF Opened
<1>3. s.tokens \in Seq(TokenSet) /\ s.position \in Nat
  BY ScannerParts
<1>4. e \in TokenSet /\ e.type = "object" /\ e.start = s.position
  <2>1. e.type = "object" /\ e.start = s.position
    BY DEF Token
  <2> QED
    BY <1>1, <1>3, <2>1, TokenType
<1> HIDE DEF e
<1>5. /\ Len(q) = Len(s.tokens) + 1 /\ q[Len(s.tokens) + 1] = e
      /\ \A i \in 1 .. Len(s.tokens) : q[i] = s.tokens[i]
  BY <1>3, <1>4, Appended
<1>6. t \in Scanners
  BY <1>1, ScanKeeps DEF Opened
<1> HIDE DEF q, t
<1>7. /\ t.tail = "none" /\ t.open = Append(s.open, Len(s.tokens) + 1)
      /\ t.invalid = s.invalid /\ t.position = s.position + 1
      /\ t.tokens = q
  BY <1>2
<1> QED
  BY <1>4, <1>5, <1>6, <1>7 DEF t

LEMMA ClosedParts ==
  ASSUME NEW s \in Scanners, s.tail = "none",
         NEW t, NEW k \in Nat, Extends(Opened(s), t, k)
  PROVE  /\ Closed(t) \in Scanners /\ Closed(t).tail = "none"
         /\ Closed(t).open = s.open /\ Closed(t).invalid = s.invalid
         /\ Closed(t).position = t.position + 1
         /\ Len(Closed(t).tokens) = Len(t.tokens)
         /\ Closed(t).tokens[Len(s.tokens) + 1].type = "object"
         /\ Closed(t).tokens[Len(s.tokens) + 1].start = s.position
         /\ Closed(t).tokens[Len(s.tokens) + 1].end = t.position
         /\ \A i \in 1 .. Len(t.tokens) :
              i # Len(s.tokens) + 1 => Closed(t).tokens[i] = t.tokens[i]
<1> DEFINE o == Len(s.tokens) + 1
           a == Opened(s)
           q == WithEnd(t.tokens, o, t.position)
           u == Closed(t)
<1>1. /\ a.open = Append(s.open, o) /\ a.invalid = s.invalid
      /\ Len(a.tokens) = o
      /\ a.tokens[o].type = "object" /\ a.tokens[o].start = s.position
  BY OpenedParts
<1> HIDE DEF a
<1>2. /\ t \in Scanners /\ t.tail = "none" /\ t.open = a.open
      /\ t.invalid = a.invalid /\ Len(t.tokens) = o + k
      /\ \A i \in 1 .. o : t.tokens[i] = a.tokens[i]
  BY <1>1 DEF Extends, a
<1>3. o \in Nat /\ o >= 1 /\ s.open \in Seq(Nat)
  BY ScannerParts
<1> HIDE DEF o
<1>4. t.open # << >> /\ Front(t.open) = s.open /\ Last(t.open) = o
  <2>1. /\ Append(s.open, o) # << >> /\ Front(Append(s.open, o)) = s.open
        /\ Last(Append(s.open, o)) = o
    BY <1>3, FrontAppended
  <2> QED
    BY <1>1, <1>2, <2>1
<1>5. Close.kind = "close" /\ Close \in Lexemes
  BY OpenIsLexeme DEF Close, Lexeme
<1>6. u = [tokens |-> q, open |-> s.open, tail |-> "none",
           position |-> t.position + 1, invalid |-> t.invalid]
  <2>1. u = [tokens |-> WithEnd(t.tokens, Last(t.open), t.position),
             open |-> Front(t.open), tail |-> "none",
             position |-> t.position + 1, invalid |-> t.invalid]
    BY <1>2, <1>4, <1>5, ScanClose DEF Closed
  <2> QED
    BY <1>4, <2>1
<1>7. t.tokens \in Seq(TokenSet) /\ t.position \in Nat
  BY <1>2, ScannerParts
<1>8. /\ Len(q) = Len(t.tokens)
      /\ \A i \in 1 .. Len(t.tokens) :
           /\ q[i].type = t.tokens[i].type /\ q[i].start = t.tokens[i].start
           /\ i # o => q[i] = t.tokens[i]
           /\ i = o => q[i].end = t.position
  BY <1>7, EndChanges
<1>9. u \in Scanners
  BY <1>2, <1>5, ScanKeeps DEF Closed
<1> HIDE DEF q, u
<1>10. /\ u.tail = "none" /\ u.open = s.open /\ u.invalid = s.invalid
       /\ u.position = t.position + 1 /\ u.tokens = q
  BY <1>1, <1>2, <1>6
<1>11. o \in 1 .. Len(t.tokens) /\ o \in 1 .. o
  BY <1>2, <1>3
<1>12. /\ q[o].type = "object" /\ q[o].start = s.position
       /\ q[o].end = t.position
  BY <1>1, <1>2, <1>8, <1>11
<1> QED
  BY <1>8, <1>9, <1>10, <1>12 DEF u, o

\* A closed object is finished: nothing that follows touches it.
LEMMA ObjectExtends ==
  ASSUME NEW s \in Scanners, s.tail = "none",
         NEW t, NEW k \in Nat, Extends(Opened(s), t, k)
  PROVE  Extends(s, Closed(t), k + 1)
<1> DEFINE n == Len(s.tokens)
           a == Opened(s)
           u == Closed(t)
<1>1. /\ a.position = s.position + 1
      /\ Len(a.tokens) = n + 1 /\ a \in Scanners
      /\ \A i \in 1 .. n : a.tokens[i] = s.tokens[i]
  BY OpenedParts
<1>2. /\ u \in Scanners /\ u.tail = "none"
      /\ u.open = s.open /\ u.invalid = s.invalid
      /\ u.position = t.position + 1
      /\ Len(u.tokens) = Len(t.tokens)
      /\ u.tokens[n + 1].start = s.position
      /\ u.tokens[n + 1].end = t.position
      /\ \A i \in 1 .. Len(t.tokens) :
           i # n + 1 => u.tokens[i] = t.tokens[i]
  BY ClosedParts
<1> HIDE DEF a, u
<1>3. /\ t \in Scanners /\ a.position <= t.position
      /\ Len(t.tokens) = Len(a.tokens) + k
      /\ \A i \in 1 .. Len(a.tokens) : t.tokens[i] = a.tokens[i]
      /\ \A i \in Len(a.tokens) + 1 .. Len(t.tokens) :
           /\ a.position <= t.tokens[i].start
           /\ t.tokens[i].start < t.position /\ t.tokens[i].end < t.position
  BY DEF Extends, a
<1>4. /\ n \in Nat /\ s.position \in Nat /\ t.position \in Nat
      /\ \A i \in 1 .. Len(t.tokens) :
           t.tokens[i].start \in Nat /\ t.tokens[i].end \in Nat
  BY <1>3, ScannerParts
<1> DEFINE x == s.position
           z == t.position
           ut == u.tokens
           m == Len(t.tokens)
<1>5. m = n + 1 + k
  BY <1>1, <1>3
<1>6. ASSUME NEW i \in 1 .. n PROVE ut[i] = s.tokens[i]
  <2>1. i \in 1 .. Len(a.tokens) /\ i \in 1 .. m /\ i # n + 1
    BY <1>1, <1>4, <1>5
  <2> QED
    BY <1>1, <1>2, <1>3, <2>1
<1>7. ASSUME NEW i \in n + 1 .. m
      PROVE  x <= ut[i].start /\ ut[i].start < z + 1 /\ ut[i].end < z + 1
  <2>1. x + 1 <= z /\ x \in Nat /\ z \in Nat
    BY <1>1, <1>3, <1>4
  <2>2. CASE i = n + 1
    <3>1. ut[i].start = x /\ ut[i].end = z
      BY <1>2, <2>2
    <3> HIDE DEF x, z, ut
    <3> QED
      BY <2>1, <3>1
  <2>3. CASE i # n + 1
    <3>1. i \in Len(a.tokens) + 1 .. m /\ i \in 1 .. m
      <4> HIDE DEF m, n
      <4> QED
        BY <1>1, <1>4, <1>5, <2>3 DEF n
    <3>2. /\ ut[i] = t.tokens[i] /\ x + 1 <= t.tokens[i].start
          /\ t.tokens[i].start < z /\ t.tokens[i].end < z
      BY <1>1, <1>2, <1>3, <2>3, <3>1
    <3>3. /\ x + 1 <= ut[i].start /\ ut[i].start < z /\ ut[i].end < z
          /\ ut[i].start \in Nat /\ ut[i].end \in Nat
      BY <1>4, <3>1, <3>2
    <3> HIDE DEF x, z, ut
    <3> QED
      BY <2>1, <3>3
  <2> QED
    BY <2>2, <2>3
<1>8. x <= z + 1
  BY <1>1, <1>3, <1>4
<1>9. Len(ut) = n + (k + 1) /\ Len(ut) = m
  <2>1. Len(ut) = m
    BY <1>2
  <2>2. n \in Nat
    BY <1>4
  <2> HIDE DEF ut, m, n
  <2>3. m = n + (k + 1)
    BY <1>5, <2>2
  <2> QED
    BY <2>1, <2>3
<1> QED
  BY <1>2, <1>6, <1>7, <1>8, <1>9 DEF Extends, u

\* An object is scanned as its braces and its body.
LEMMA ObjectScanned ==
  ASSUME NEW s \in Scanners, NEW body \in Seq(Lexemes)
  PROVE  ScanAll(s, << Open >> \o body \o << Close >>)
           = Closed(ScanAll(Opened(s), body))
<1> DEFINE x == << Open >>
           y == << Close >>
           a == x \o body
<1>1. x \in Seq(Lexemes) /\ y \in Seq(Lexemes)
  BY OpenIsLexeme
<1>2. ScanAll(s, x) = Opened(s) /\ Opened(s) \in Scanners
  BY ScanAllOne, ScanKeeps, OpenIsLexeme DEF Opened
<1> HIDE DEF x
<1>3. a \in Seq(Lexemes) /\ ScanAll(s, a) = ScanAll(Opened(s), body)
  BY <1>1, <1>2, ConcatProperties, ScanAllConcat
<1> DEFINE t == ScanAll(Opened(s), body)
<1>4. t \in Scanners
  BY <1>2, ScanAllKeeps
<1> HIDE DEF t
<1>5. ScanAll(t, y) = Closed(t)
  BY <1>4, ScanAllOne, OpenIsLexeme DEF Closed
<1> HIDE DEF a, y
<1>6. ScanAll(s, a \o y) = ScanAll(ScanAll(s, a), y)
  BY <1>1, <1>3, ScanAllConcat
<1>7. ScanAll(s, a \o y) = Closed(t)
  BY <1>3, <1>5, <1>6 DEF t
<1> QED
  BY <1>7 DEF a, x, y, t

-----------------------------------------------------------------------------
(***************************************************************************)
(* Offsets of pairs.                                                       *)
(***************************************************************************)
LEMMA PairShape ==
  ASSUME NEW p \in WholePairs
  PROVE  /\ p \in ScalarPairs => p.inner = << >> /\ Width(p) = 2
                                 /\ p \notin ObjectPairs
         /\ p \in ObjectPairs => p.inner \in Seq(ScalarPairs)
         /\ Len(p.inner) \in Nat /\ Width(p) \in Nat /\ Width(p) >= 2
<1>1. CASE p \in ScalarPairs
  <2>1. p.inner = << >> /\ p.value \in Values
    BY <1>1 DEF ScalarPairs
  <2>2. Len(p.inner) = 0
    BY <2>1, EmptySeq
  <2>3. p.value # Open
    BY <2>1, ValueType
  <2>4. p \notin ObjectPairs
    BY <2>3 DEF ObjectPairs
  <2> QED
    BY <1>1, <2>1, <2>2, <2>4 DEF Width
<1>2. CASE p \in ObjectPairs
  <2>1. p.inner \in Seq(ScalarPairs) /\ p.value = Open
    BY <1>2 DEF ObjectPairs
  <2>2. Len(p.inner) \in Nat
    BY <2>1, LenProperties
  <2>3. p \notin ScalarPairs
    <3>1. \A v \in Values : v # Open
      BY ValueType
    <3> QED
      BY <2>1, <3>1 DEF ScalarPairs
  <2> QED
    BY <1>2, <2>1, <2>2, <2>3 DEF Width
<1> QED
  BY <1>1, <1>2 DEF WholePairs

\* Where the pairs are is a sum over the pairs before.
LEMMA OffsetsExist ==
  ASSUME NEW ps \in Seq(WholePairs)
  PROVE  \E o : Offsets(o, ps)
<1> DEFINE n == Len(ps)
           G == [i \in 1 .. n |-> [x \in Nat |-> x + Width(ps[i])]]
<1>1. n \in Nat /\ \A i \in 1 .. n : ps[i] \in WholePairs
  BY LenProperties
<1>2. \A i \in 1 .. n : Width(ps[i]) \in Nat
  BY <1>1, PairShape
<1>3. G \in [1 .. n -> [Nat -> Nat]]
  BY <1>2
<1>4. \A x \in Nat, i \in 1 .. n : G[i][x] = x + Width(ps[i])
  OBVIOUS
<1> HIDE DEF G, n
<1>5. PICK o : Steps(o, Nat, n, 2, G)
  BY <1>1, <1>3, Recursion
<1>6. /\ o \in [0 .. n -> Nat] /\ o[0] = 2
      /\ \A i \in 1 .. n : o[i] = G[i][o[i - 1]]
  BY <1>5 DEF Steps
<1>7. ASSUME NEW i \in 1 .. n PROVE o[i] = o[i - 1] + Width(ps[i])
  <2>1. i - 1 \in 0 .. n
    BY <1>1
  <2>2. o[i - 1] \in Nat
    BY <1>6, <2>1
  <2> QED
    BY <1>4, <1>6, <2>2
<1> QED
  BY <1>6, <1>7 DEF Offsets, n

\* Each pair takes two tokens or more.
LEMMA OffsetsGrow ==
  ASSUME NEW ps \in Seq(WholePairs), NEW o, Offsets(o, ps)
  PROVE  \A i \in 0 .. Len(ps) :
           /\ o[i] \in Nat /\ o[i] >= 2
           /\ \A j \in 0 .. i : o[j] + 2 * (i - j) <= o[i]
<1> DEFINE n == Len(ps)
           S == {i \in 0 .. n : \A j \in 0 .. i : o[j] + 2 * (i - j) <= o[i]}
<1>1. n \in Nat /\ \A i \in 1 .. n : ps[i] \in WholePairs
  BY LenProperties
<1>2. /\ \A i \in 0 .. n : o[i] \in Nat
      /\ o[0] = 2 /\ \A i \in 1 .. n : o[i] = o[i - 1] + Width(ps[i])
  BY DEF Offsets
<1> HIDE DEF n
<1>3. 0 \in S
  <2>1. \A j \in 0 .. 0 : j = 0
    OBVIOUS
  <2>2. o[0] + 2 * (0 - 0) <= o[0]
    BY <1>2
  <2>3. 0 \in 0 .. n
    BY <1>1
  <2> QED
    BY <2>1, <2>2, <2>3
<1>4. ASSUME NEW i \in 1 .. n, i - 1 \in S
      PROVE  i \in S
  <2>1. i - 1 \in 0 .. n /\ i \in 0 .. n
    BY <1>1
  <2> DEFINE w == Width(ps[i])
             x == o[i - 1]
             y == o[i]
  <2>2. w \in Nat /\ w >= 2 /\ y = x + w /\ x \in Nat /\ y \in Nat
    BY <1>1, <1>2, <2>1, PairShape
  <2> HIDE DEF w
  <2>3. ASSUME NEW j \in 0 .. i PROVE o[j] + 2 * (i - j) <= y
    <3> DEFINE z == o[j]
    <3>1. z \in Nat
      BY <1>1, <1>2
    <3>2. CASE j = i
      BY <2>2, <3>2
    <3>3. CASE j # i
      <4>1. z + 2 * (i - 1 - j) <= x
        BY <1>4, <3>3
      <4> HIDE DEF x, y, z
      <4>2. z + 2 * (i - j) <= y
        BY <2>2, <3>1, <4>1
      <4> QED
        BY <4>2 DEF z
    <3> QED
      BY <3>2, <3>3
  <2> QED
    BY <2>1, <2>3
<1> HIDE DEF S
<1>5. \A i \in 0 .. n : i \in S
  BY <1>1, <1>3, <1>4, Induction
<1>6. ASSUME NEW i \in 0 .. n
      PROVE  /\ o[i] \in Nat /\ o[i] >= 2
             /\ \A j \in 0 .. i : o[j] + 2 * (i - j) <= o[i]
  <2>1. \A j \in 0 .. i : o[j] + 2 * (i - j) <= o[i]
    BY <1>5 DEF S
  <2>2. o[0] + 2 * (i - 0) <= o[i] /\ o[i] \in Nat /\ o[0] = 2
    BY <1>2, <2>1
  <2> QED
    BY <2>1, <2>2
<1> QED
  BY <1>6 DEF n

(***************************************************************************)
(* A pair stays where it is, whatever comes behind it.                     *)
(***************************************************************************)
LEMMA PairAtSame ==
  ASSUME NEW t, NEW u, NEW i \in Nat, NEW p \in WholePairs,
         PairAt(t, i, p), Len(t) \in Nat,
         \A x \in i .. i + Width(p) - 1 : u[x] = t[x],
         Behind(u, i, p)
  PROVE  PairAt(u, i, p)
<1>1. Width(p) \in Nat /\ Width(p) >= 2 /\ Len(p.inner) \in Nat
  BY PairShape
<1>2. u[i] = t[i] /\ u[i + 1] = t[i + 1]
  BY <1>1
<1>3. CASE p \in ScalarPairs
  <2>1. ScalarAt(u, i, p)
    BY <1>2, <1>3, ScalarAtKept DEF PairAt
  <2> QED
    BY <1>3, <2>1, PairShape DEF PairAt
<1>4. CASE p \in ObjectPairs
  <2>1. ObjectAt(t, i, p)
    BY <1>4 DEF PairAt
  <2>2. ASSUME NEW j \in 1 .. Len(p.inner)
        PROVE  /\ ScalarAt(u, i + 2 * j, p.inner[j])
               /\ u[i + 2 * j].start < u[i + 1].end
    <3> DEFINE k == i + 2 * j
               w == Width(p)
               l == Len(p.inner)
    <3>1. w = 2 + 2 * l /\ l \in Nat /\ j \in 1 .. l
      BY <1>1 DEF Width
    <3> HIDE DEF w, l
    <3>2. k \in i .. i + w - 1 /\ k + 1 \in i .. i + w - 1
      BY <3>1
    <3>3. ScalarAt(t, k, p.inner[j]) /\ t[k].start < t[i + 1].end
      BY <2>1 DEF ObjectAt
    <3>4. u[k] = t[k] /\ u[k + 1] = t[k + 1]
      BY <3>2 DEF w
    <3> HIDE DEF k
    <3>5. ScalarAt(u, k, p.inner[j]) /\ u[k].start < u[i + 1].end
      BY <1>2, <3>3, <3>4, ScalarAtKept
    <3> QED
      BY <3>5 DEF k
  <2>3. ObjectAt(u, i, p)
    BY <1>2, <2>1, <2>2 DEF ObjectAt
  <2> QED
    BY <1>4, <2>3, PairShape DEF PairAt
<1> QED
  BY <1>3, <1>4 DEF WholePairs

\* What follows a pair does not touch its tokens.
LEMMA PairAtKept ==
  ASSUME NEW a \in Scanners, NEW s \in Scanners, NEW k \in Nat,
         Extends(a, s, k), NEW t, NEW m \in Nat, Extends(s, t, m),
         NEW p \in WholePairs, NEW i \in Nat, Len(a.tokens) < i,
         i + Width(p) <= Len(s.tokens) + 1, PairAt(s.tokens, i, p)
  PROVE  PairAt(t.tokens, i, p)
<1> DEFINE w == Width(p)
           n == Len(s.tokens)
           st == s.tokens
           tt == t.tokens
<1>1. /\ w \in Nat /\ w >= 2 /\ n \in Nat /\ Len(a.tokens) \in Nat
      /\ t \in Scanners /\ s.position \in Nat
  BY PairShape, ScannerParts DEF Extends
<1>2. /\ Len(tt) = n + m /\ \A x \in 1 .. n : tt[x] = st[x]
      /\ \A x \in n + 1 .. Len(tt) : s.position <= tt[x].start
      /\ \A x \in Len(a.tokens) + 1 .. n : st[x].end < s.position
  BY DEF Extends
<1>3. /\ \A x \in 1 .. Len(tt) : tt[x].start \in Nat
      /\ \A x \in 1 .. n : st[x].end \in Nat
  BY <1>1, ScannerParts
<1> HIDE DEF w, n
<1>4. \A x \in i .. i + w - 1 : x \in 1 .. n /\ x \in Len(a.tokens) + 1 .. n
  <2> DEFINE b == Len(a.tokens)
  <2>1. b \in Nat /\ b < i /\ i + w <= n + 1
    BY <1>1 DEF w, n
  <2> HIDE DEF b
  <2>2. \A x \in i .. i + w - 1 : x \in 1 .. n /\ x \in b + 1 .. n
    BY <1>1, <2>1
  <2> QED
    BY <2>2 DEF b
<1>5. \A x \in i .. i + w - 1 : tt[x] = st[x]
  BY <1>2, <1>4
<1>6. i + 1 \in i .. i + w - 1
  BY <1>1
<1>7. CASE p \in ObjectPairs
  <2>1. Behind(st, i, p)
    BY <1>7 DEF PairAt
  <2>2. ASSUME NEW j \in i + w .. Len(tt)
        PROVE  tt[i + 1].end <= tt[j].start
    <3>1. tt[i + 1] = st[i + 1]
      BY <1>5, <1>6
    <3>2. CASE j <= n
      <4>1. j \in i + w .. n /\ j \in 1 .. n
        BY <1>1, <3>2
      <4>2. st[i + 1].end <= st[j].start
        BY <2>1, <4>1 DEF Behind, w, n
      <4> QED
        BY <1>2, <3>1, <4>1, <4>2
    <3>3. CASE ~(j <= n)
      <4>1. j \in n + 1 .. Len(tt) /\ j \in 1 .. Len(tt)
        BY <1>1, <1>2, <3>3
      <4> DEFINE x == st[i + 1].end
                 y == tt[j].start
                 z == s.position
      <4>2. x < z /\ z <= y /\ x \in Nat /\ y \in Nat /\ z \in Nat
        BY <1>1, <1>2, <1>3, <1>4, <1>6, <4>1
      <4> HIDE DEF x, y, z
      <4>3. x <= y
        BY <4>2
      <4> QED
        BY <3>1, <4>3 DEF x, y
    <3> QED
      BY <3>2, <3>3
  <2>3. Behind(tt, i, p)
    BY <2>2 DEF Behind, w
  <2>4. \A x \in i .. i + Width(p) - 1 : tt[x] = st[x]
    BY <1>5 DEF w
  <2>5. Len(st) \in Nat
    BY <1>1 DEF n
  <2> HIDE DEF st, tt
  <2>6. PairAt(st, i, p)
    BY DEF st
  <2>7. PairAt(tt, i, p)
    BY <2>3, <2>4, <2>5, <2>6, PairAtSame
  <2> QED
    BY <2>7 DEF tt
<1>8. CASE p \in ScalarPairs
  <2>1. ScalarAt(st, i, p)
    BY <1>8 DEF PairAt
  <2>2. tt[i] = st[i] /\ tt[i + 1] = st[i + 1]
    BY <1>1, <1>5
  <2> HIDE DEF st, tt
  <2>3. ScalarAt(tt, i, p)
    BY <2>1, <2>2, ScalarAtKept
  <2> QED
    BY <1>8, <2>3, PairShape DEF PairAt, tt
<1> QED
  BY <1>7, <1>8 DEF WholePairs

-----------------------------------------------------------------------------
(***************************************************************************)
(* Pairs that are written one after the other.                             *)
(***************************************************************************)
Scans(part, p) ==
  \A s \in Scanners : s.tail = "none" =>
    /\ Extends(s, ScanAll(s, part), Width(p))
    /\ PairAt(ScanAll(s, part).tokens, Len(s.tokens) + 1, p)

LEMMA ScalarScans ==
  ASSUME NEW p \in ScalarPairs
  PROVE  Scans(ScalarLexemes(p), p)
<1>1. Width(p) = 2 /\ p \notin ObjectPairs
  BY PairShape DEF WholePairs
<1>2. ASSUME NEW s \in Scanners, s.tail = "none"
      PROVE  /\ Extends(s, ScanAll(s, ScalarLexemes(p)), 2)
             /\ ScalarAt(ScanAll(s, ScalarLexemes(p)).tokens,
                         Len(s.tokens) + 1, p)
  BY <1>2, ScalarScanned
<1> QED
  BY <1>1, <1>2 DEF Scans, PairAt

\* What has been read of the first k pairs behind s.
Laid(s, t, o, ps, k) ==
  /\ Extends(s, t, o[k] - 2)
  /\ \A i \in 1 .. k : PairAt(t.tokens, Len(s.tokens) + o[i - 1] - 1, ps[i])

\* One more pair is written.
LEMMA LaidOn ==
  ASSUME NEW s \in Scanners, NEW ps \in Seq(WholePairs), NEW o, Offsets(o, ps),
         NEW k \in 1 .. Len(ps), NEW t, Laid(s, t, o, ps, k - 1),
         NEW part, Scans(part, ps[k])
  PROVE  Laid(s, ScanAll(t, part), o, ps, k)
<1> DEFINE u == ScanAll(t, part)
           n == Len(s.tokens)
           a == o[k - 1]
           b == o[k]
           w == Width(ps[k])
           tt == t.tokens
           ut == u.tokens
<1>1. /\ Len(ps) \in Nat /\ n \in Nat
      /\ \A i \in 1 .. Len(ps) : ps[i] \in WholePairs
  BY LenProperties, ScannerParts
<1>2. /\ a \in Nat /\ a >= 2 /\ b \in Nat /\ b >= 2 /\ w \in Nat /\ w >= 2
      /\ b = a + w
  <2>1. k - 1 \in 0 .. Len(ps) /\ k \in 0 .. Len(ps)
    BY <1>1
  <2>2. ps[k] \in WholePairs
    BY <1>1
  <2>3. w \in Nat /\ w >= 2
    BY <2>2, PairShape
  <2>4. a \in Nat /\ a >= 2 /\ b \in Nat /\ b >= 2
    BY <2>1, OffsetsGrow
  <2>5. b = a + w
    BY DEF Offsets
  <2> QED
    BY <2>3, <2>4, <2>5
<1>3. Extends(s, t, a - 2) /\ t \in Scanners /\ t.tail = "none"
  BY DEF Laid, Extends
<1>4. Len(tt) = n + (a - 2)
  BY <1>3 DEF Extends
<1>5. Extends(t, u, w) /\ PairAt(ut, Len(tt) + 1, ps[k])
  BY <1>3 DEF Scans
<1>6. Extends(s, u, b - 2)
  <2>1. a - 2 \in Nat /\ (a - 2) + w = b - 2 /\ w \in Nat
    <3> HIDE DEF a, b, w
    <3> QED
      BY <1>2
  <2> HIDE DEF a, b, w, u
  <2>2. Extends(s, u, (a - 2) + w)
    BY <1>3, <1>5, <2>1, ExtendsOn
  <2> QED
    BY <2>1, <2>2
<1>7. ASSUME NEW i \in 1 .. k
      PROVE  PairAt(ut, n + o[i - 1] - 1, ps[i])
  <2>1. CASE i = k
    <3>1. Len(tt) + 1 = n + a - 1
      <4> HIDE DEF a, n, tt
      <4> QED
        BY <1>1, <1>2, <1>4
    <3> QED
      BY <1>5, <2>1, <3>1
  <2>2. CASE i # k
    <3> DEFINE x == o[i - 1]
               y == o[i]
               v == Width(ps[i])
               z == n + x - 1
    <3>1. /\ i \in 1 .. k - 1 /\ i \in 0 .. k - 1 /\ i \in 1 .. Len(ps)
          /\ i - 1 \in 0 .. Len(ps) /\ k - 1 \in 0 .. Len(ps)
      BY <1>1, <2>2
    <3>2. x \in Nat /\ x >= 2 /\ y \in Nat /\ y + 2 * ((k - 1) - i) <= a
      <4>1. /\ \A j \in 0 .. Len(ps) : o[j] \in Nat /\ o[j] >= 2
            /\ \A j \in 0 .. k - 1 : o[j] + 2 * ((k - 1) - j) <= o[k - 1]
        BY <3>1, OffsetsGrow
      <4>2. i \in 0 .. Len(ps)
        BY <3>1
      <4> QED
        BY <3>1, <4>1, <4>2
    <3>3. y = x + v /\ ps[i] \in WholePairs
      BY <1>1, <3>1 DEF Offsets
    <3>4. v \in Nat /\ v >= 2
      BY <3>3, PairShape
    <3>5. z \in Nat /\ n < z /\ z + v <= Len(tt) + 1
      <4>1. y <= a
        <5> HIDE DEF a, y
        <5> QED
          BY <3>1, <3>2, <1>2
      <4> HIDE DEF a, x, y, v, n, tt
      <4> QED
        BY <1>1, <1>2, <1>4, <3>2, <3>3, <3>4, <4>1
    <3>6. PairAt(tt, z, ps[i])
      BY <3>1 DEF Laid
    <3>7. a - 2 \in Nat
      BY <1>2
    <3> HIDE DEF z, a, w, u
    <3>8. PairAt(u.tokens, z, ps[i])
      BY <1>2, <1>3, <1>5, <3>3, <3>5, <3>6, <3>7, PairAtKept DEF n, v, tt
    <3> QED
      BY <3>8 DEF u, z
  <2> QED
    BY <2>1, <2>2
<1> QED
  BY <1>6, <1>7 DEF Laid

LEMMA JoinedLexemes ==
  ASSUME NEW parts \in Seq(Seq(Lexemes))
  PROVE  \E u : /\ u[0] = << >>
                /\ \A i \in 1 .. Len(parts) :
                     u[i - 1] \in Seq(Lexemes) => u[i] = u[i - 1] \o parts[i]
                /\ \A i \in 0 .. Len(parts) : u[i] \in Seq(Lexemes)
                /\ Joined(parts) = u[Len(parts)]
BY JoinedRead

\* All pairs of an object, where their offsets say.
LEMMA PairsScanned ==
  ASSUME NEW s \in Scanners, s.tail = "none",
         NEW ps \in Seq(WholePairs), NEW o, Offsets(o, ps),
         NEW parts \in Seq(Seq(Lexemes)), Len(parts) = Len(ps),
         \A i \in 1 .. Len(ps) : Scans(parts[i], ps[i])
  PROVE  Laid(s, ScanAll(s, Joined(parts)), o, ps, Len(ps))
<1> DEFINE n == Len(ps)
<1>0. PICK u : /\ u[0] = << >>
               /\ \A i \in 1 .. Len(parts) :
                    u[i - 1] \in Seq(Lexemes) => u[i] = u[i - 1] \o parts[i]
               /\ \A i \in 0 .. Len(parts) : u[i] \in Seq(Lexemes)
               /\ Joined(parts) = u[Len(parts)]
  BY JoinedLexemes
<1>1. /\ u[0] = << >>
      /\ \A i \in 1 .. n :
           u[i - 1] \in Seq(Lexemes) => u[i] = u[i - 1] \o parts[i]
      /\ \A i \in 0 .. n : u[i] \in Seq(Lexemes)
      /\ Joined(parts) = u[n]
  BY <1>0
<1>2. n \in Nat /\ \A i \in 1 .. n : parts[i] \in Seq(Lexemes)
  BY LenProperties
<1> DEFINE S == {i \in 0 .. n : Laid(s, ScanAll(s, u[i]), o, ps, i)}
<1>3. 0 \in S
  <2>1. ScanAll(s, u[0]) = s
    BY <1>1, ScanAllNone
  <2>2. o[0] - 2 = 0
    BY DEF Offsets
  <2>3. Extends(s, s, o[0] - 2)
    BY <2>2, ExtendsSelf
  <2>4. Laid(s, s, o, ps, 0)
    BY <2>3 DEF Laid
  <2>5. 0 \in 0 .. n
    BY <1>2
  <2> QED
    BY <2>1, <2>4, <2>5
<1>4. ASSUME NEW i \in 1 .. n, i - 1 \in S
      PROVE  i \in S
  <2>1. i - 1 \in 0 .. n /\ i \in 0 .. n
    BY <1>2
  <2>2. u[i] = u[i - 1] \o parts[i] /\ u[i - 1] \in Seq(Lexemes)
    BY <1>1, <2>1
  <2>3. ScanAll(s, u[i]) = ScanAll(ScanAll(s, u[i - 1]), parts[i])
    BY <1>2, <2>2, ScanAllConcat
  <2> DEFINE t == ScanAll(s, u[i - 1])
  <2>4. Laid(s, t, o, ps, i - 1) /\ Scans(parts[i], ps[i])
    BY <1>4
  <2> HIDE DEF t
  <2>5. Laid(s, ScanAll(t, parts[i]), o, ps, i)
    BY <2>4, LaidOn
  <2> QED
    BY <2>1, <2>3, <2>5 DEF t
<1> HIDE DEF S
<1>5. n \in S
  <2>1. \A i \in 0 .. n : i \in S
    BY <1>2, <1>3, <1>4, Induction
  <2> QED
    BY <1>2, <2>1
<1> QED
  BY <1>1, <1>5 DEF S

LEMMA ScalarsAreWhole ==
  ASSUME NEW inner \in Seq(ScalarPairs)
  PROVE  inner \in Seq(WholePairs) /\ Len(inner) \in Nat
         /\ \A i \in 1 .. Len(inner) : inner[i] \in ScalarPairs
<1>1. Len(inner) \in Nat /\ \A i \in 1 .. Len(inner) : inner[i] \in ScalarPairs
  BY LenProperties
<1>2. \A p \in ScalarPairs : p \in WholePairs
  BY DEF WholePairs
<1>3. inner \in [1 .. Len(inner) -> WholePairs]
  <2>1. DOMAIN inner = 1 .. Len(inner) /\ inner = [i \in DOMAIN inner |-> inner[i]]
    BY LenProperties
  <2> QED
    BY <1>1, <1>2, <2>1
<1> QED
  BY <1>1, <1>3

LEMMA ScalarOffsets ==
  ASSUME NEW inner \in Seq(ScalarPairs), NEW o, Offsets(o, inner)
  PROVE  \A i \in 0 .. Len(inner) : o[i] = 2 + 2 * i
<1> DEFINE n == Len(inner)
           S == {i \in 0 .. n : o[i] = 2 + 2 * i}
<1>1. /\ n \in Nat /\ \A i \in 1 .. n : inner[i] \in ScalarPairs
  BY ScalarsAreWhole
<1>2. \A i \in 1 .. n : Width(inner[i]) = 2
  BY <1>1, PairShape DEF WholePairs
<1>3. o[0] = 2 /\ \A i \in 1 .. n : o[i] = o[i - 1] + Width(inner[i])
  BY DEF Offsets
<1> HIDE DEF n
<1>4. 0 \in S
  BY <1>1, <1>3
<1>5. ASSUME NEW i \in 1 .. n, i - 1 \in S
      PROVE  i \in S
  <2>1. o[i - 1] = 2 + 2 * (i - 1) /\ o[i] = o[i - 1] + 2
    BY <1>2, <1>3, <1>5
  <2>2. i \in 0 .. n
    BY <1>1
  <2> QED
    BY <2>1, <2>2
<1> HIDE DEF S
<1>6. \A i \in 0 .. n : i \in S
  BY <1>1, <1>4, <1>5, Induction
<1> QED
  BY <1>6 DEF S, n

(***************************************************************************)
(* The pairs of an object are read behind its opening brace.               *)
(***************************************************************************)
LEMMA BodyScanned ==
  ASSUME NEW s \in Scanners, s.tail = "none",
         NEW ps \in Seq(WholePairs), NEW o, Offsets(o, ps),
         NEW parts, DOMAIN parts = 1 .. Len(ps),
         parts = [i \in DOMAIN parts |-> parts[i]],
         \A i \in 1 .. Len(ps) : parts[i] \in Seq(Lexemes)
                                 /\ EvenlySteady(parts[i])
                                 /\ Scans(parts[i], ps[i])
  PROVE  /\ Object(parts) \in Seq(Lexemes)
         /\ Joined(parts) \in Seq(Lexemes)
         /\ Laid(Opened(s), ScanAll(Opened(s), Joined(parts)), o, ps, Len(ps))
         /\ ScanAll(s, Object(parts))
              = Closed(ScanAll(Opened(s), Joined(parts)))
<1>1. parts \in [1 .. Len(ps) -> Seq(Lexemes)] /\ Len(ps) \in Nat
  BY LenProperties
<1>2. parts \in Seq(Seq(Lexemes)) /\ Len(parts) = Len(ps)
  BY <1>1
<1> DEFINE body == Joined(parts)
<1>3. body \in Seq(Lexemes)
  BY <1>2, JoinedSteady
<1>4. Opened(s) \in Scanners /\ Opened(s).tail = "none"
  BY OpenedParts
<1>5. Laid(Opened(s), ScanAll(Opened(s), body), o, ps, Len(ps))
  BY <1>2, <1>4, PairsScanned
<1>6. Object(parts) = << Open >> \o body \o << Close >>
  BY DEF Object
<1> HIDE DEF body
<1>7. ScanAll(s, Object(parts)) = Closed(ScanAll(Opened(s), body))
  BY <1>3, <1>6, ObjectScanned
<1>8. \A i \in 1 .. Len(parts) : EvenlySteady(parts[i])
  BY <1>2
<1>9. Object(parts) \in Seq(Lexemes)
  BY <1>2, <1>8, ObjectWritten
<1> QED
  BY <1>3, <1>5, <1>7, <1>9 DEF body

LEMMA ObjectScans ==
  ASSUME NEW p \in ObjectPairs
  PROVE  Scans(PairLexemes(p), p)
<1> DEFINE inner == p.inner
           l == Len(inner)
           x == Key(p.key)
           parts == [i \in DOMAIN inner |-> ScalarLexemes(inner[i])]
           a == << x >>
           b == Object(parts)
<1>1. p.value = Open /\ inner \in Seq(ScalarPairs) /\ p.key \in STRING
  BY DEF ObjectPairs
<1>2. /\ inner \in Seq(WholePairs) /\ l \in Nat
      /\ \A i \in 1 .. l : inner[i] \in ScalarPairs
  BY <1>1, ScalarsAreWhole
<1>3. PICK o : Offsets(o, inner)
  BY <1>2, OffsetsExist
<1>4. \A i \in 0 .. l : o[i] = 2 + 2 * i
  BY <1>1, <1>3, ScalarOffsets
<1>5. x \in Lexemes /\ x.kind = "text" /\ x.text = p.key
  BY <1>1, KeyType DEF Key, Lexeme
<1>6. PairLexemes(p) = a \o b
  BY <1>1 DEF PairLexemes, InnerFrame
<1>7. /\ DOMAIN parts = 1 .. l
      /\ parts = [i \in DOMAIN parts |-> parts[i]]
      /\ \A i \in 1 .. l : parts[i] = ScalarLexemes(inner[i])
  <2>1. DOMAIN inner = 1 .. l
    BY <1>1, LenProperties
  <2> QED
    BY <2>1
<1> HIDE DEF inner, x, parts
<1>8. \A i \in 1 .. l : /\ parts[i] \in Seq(Lexemes)
                        /\ EvenlySteady(parts[i])
                        /\ Scans(parts[i], inner[i])
  BY <1>2, <1>7, ScalarWritten, ScalarScans
<1>9. ASSUME NEW s \in Scanners, s.tail = "none"
      PROVE  /\ Extends(s, ScanAll(s, PairLexemes(p)), Width(p))
             /\ PairAt(ScanAll(s, PairLexemes(p)).tokens, Len(s.tokens) + 1, p)
  <2> DEFINE n == Len(s.tokens)
             c == Scan(s, x)
             d == Opened(c)
             t == ScanAll(d, Joined(parts))
             u == Closed(t)
  <2>1. Extends(s, c, 1) /\ ValueAt(c.tokens[n + 1], x)
    BY <1>5, <1>9, OneExtends
  <2>2. /\ c \in Scanners /\ c.tail = "none" /\ Len(c.tokens) = n + 1
        /\ n \in Nat
    BY <2>1, ScannerParts DEF Extends
  <2> HIDE DEF c
  <2>3. /\ b \in Seq(Lexemes) /\ Laid(d, t, o, inner, l) /\ ScanAll(c, b) = u
    BY <1>2, <1>3, <1>7, <1>8, <2>2, BodyScanned
  <2>4. /\ Len(d.tokens) = n + 2
        /\ d.position \in Nat /\ d \in Scanners
    <3>1. Len(d.tokens) = Len(c.tokens) + 1 /\ d \in Scanners
      BY <2>2, OpenedParts
    <3>2. Len(d.tokens) = n + 2
      BY <2>2, <3>1
    <3> QED
      BY <3>1, <3>2, ScannerParts
  <2> HIDE DEF b, t
  <2>5. Extends(d, t, 2 * l)
    <3>1. l \in 0 .. l
      BY <1>2
    <3>2. o[l] - 2 = 2 * l
      BY <1>2, <1>4, <3>1
    <3> QED
      BY <2>3, <3>2 DEF Laid
  <2>6. 2 * l \in Nat
    BY <1>2
  <2>7. ScanAll(s, PairLexemes(p)) = u
    <3>1. a \in Seq(Lexemes)
      BY <1>5
    <3>2. ScanAll(s, a) = c
      BY <1>5, ScanAllOne DEF c
    <3> HIDE DEF a
    <3>3. ScanAll(s, a \o b) = ScanAll(ScanAll(s, a), b)
      BY <2>3, <3>1, ScanAllConcat
    <3> QED
      BY <1>6, <2>3, <3>2, <3>3
  <2>8. Extends(c, u, 2 * l + 1)
    BY <2>2, <2>5, <2>6, ObjectExtends
  <2>9. Extends(s, u, 1 + (2 * l + 1))
    <3>1. 2 * l + 1 \in Nat /\ 1 \in Nat
      BY <2>6
    <3> HIDE DEF u
    <3> QED
      BY <2>1, <2>8, <3>1, ExtendsOn
  <2>10. Width(p) = 1 + (2 * l + 1)
    <3>1. Width(p) = 2 + 2 * l
      BY DEF Width, inner
    <3> QED
      BY <1>2, <3>1
  <2>11. /\ u.tokens[n + 2].type = "object" /\ u.tokens[n + 2].end = t.position
         /\ Len(u.tokens) = Len(t.tokens)
         /\ \A i \in 1 .. Len(t.tokens) : i # n + 2 => u.tokens[i] = t.tokens[i]
    <3>1. Len(c.tokens) + 1 = n + 2
      BY <2>2
    <3> HIDE DEF n
    <3>2. /\ u.tokens[Len(c.tokens) + 1].type = "object"
          /\ u.tokens[Len(c.tokens) + 1].end = t.position
          /\ Len(u.tokens) = Len(t.tokens)
          /\ \A i \in 1 .. Len(t.tokens) :
               i # Len(c.tokens) + 1 => u.tokens[i] = t.tokens[i]
      BY <2>2, <2>5, <2>6, ClosedParts
    <3> QED
      BY <3>1, <3>2
  <2>12. Len(t.tokens) = n + 2 + 2 * l
    BY <2>4, <2>5 DEF Extends
  <2>13. u.tokens[n + 1] = c.tokens[n + 1]
    <3>1. n + 1 \in 1 .. Len(c.tokens)
      BY <2>2
    <3> QED
      BY <2>8, <3>1 DEF Extends
  <2> HIDE DEF u, n, d
  <2>14. ASSUME NEW j \in 1 .. l
         PROVE  /\ ScalarAt(u.tokens, (n + 1) + 2 * j, inner[j])
                /\ u.tokens[(n + 1) + 2 * j].start < u.tokens[n + 2].end
    <3> DEFINE k == (n + 1) + 2 * j
    <3>1. j - 1 \in 0 .. l /\ Len(d.tokens) + o[j - 1] - 1 = k
      <4>1. j - 1 \in 0 .. l
        BY <1>2
      <4>2. o[j - 1] = 2 + 2 * (j - 1)
        BY <1>4, <4>1
      <4>3. n + 2 + (2 + 2 * (j - 1)) - 1 = k
        <5>1. n \in Nat /\ j \in Int
          BY <1>2, <2>2 DEF n
        <5> QED
          BY <5>1
      <4> QED
        BY <2>4, <4>1, <4>2, <4>3
    <3>2. PairAt(t.tokens, k, inner[j])
      BY <2>3, <3>1 DEF Laid
    <3>3. ScalarAt(t.tokens, k, inner[j])
      BY <1>2, <3>2 DEF PairAt
    <3>4. /\ k \in 1 .. Len(t.tokens) /\ k # n + 2 /\ k + 1 # n + 2
          /\ k + 1 \in 1 .. Len(t.tokens)
          /\ k \in Len(d.tokens) + 1 .. Len(t.tokens)
      <4>1. n \in Nat /\ l \in Nat /\ j \in 1 .. l
        BY <1>2, <2>2 DEF n
      <4>2. /\ k \in 1 .. n + 2 + 2 * l /\ k # n + 2 /\ k + 1 # n + 2
            /\ k + 1 \in 1 .. n + 2 + 2 * l
            /\ k \in n + 2 + 1 .. n + 2 + 2 * l
        <5> HIDE DEF l
        <5> QED
          BY <4>1
      <4> QED
        BY <2>4, <2>12, <4>2
    <3> HIDE DEF k
    <3>5. u.tokens[k] = t.tokens[k] /\ u.tokens[k + 1] = t.tokens[k + 1]
      BY <2>11, <3>4
    <3>6. t.tokens[k].start < t.position
      BY <2>5, <3>4 DEF Extends
    <3>7. ScalarAt(u.tokens, k, inner[j])
      BY <3>3, <3>5, ScalarAtKept
    <3>8. u.tokens[k].start < u.tokens[n + 2].end
      BY <2>11, <3>5, <3>6
    <3> QED
      BY <3>7, <3>8 DEF k
  <2>15. (n + 1) + 1 = n + 2
    BY <2>2 DEF n
  <2>16. ObjectAt(u.tokens, n + 1, p)
    <3>1. u.tokens[n + 1].type = "string" /\ u.tokens[n + 1].text = p.key
      BY <1>5, <2>1, <2>13 DEF ValueAt, n
    <3> QED
      BY <2>11, <2>14, <2>15, <3>1 DEF ObjectAt, l, inner
  <2>17. Behind(u.tokens, n + 1, p)
    <3>1. \A j \in (n + 1) + Width(p) .. Len(u.tokens) : FALSE
      <4>1. n \in Nat /\ l \in Nat
        BY <1>2, <2>2 DEF n
      <4> HIDE DEF l
      <4>2. \A j \in (n + 1) + (1 + (2 * l + 1)) .. n + 2 + 2 * l : FALSE
        BY <4>1
      <4> QED
        BY <2>10, <2>11, <2>12, <4>2
    <3> QED
      BY <3>1 DEF Behind
  <2>18. p \notin ScalarPairs
    BY PairShape DEF WholePairs
  <2>19. PairAt(u.tokens, n + 1, p)
    BY <2>16, <2>17, <2>18 DEF PairAt
  <2> QED
    BY <2>7, <2>9, <2>10, <2>19 DEF n
<1> QED
  BY <1>9 DEF Scans

\* A pair is found behind whatever was scanned before it.
LEMMA PairScans ==
  ASSUME NEW p \in WholePairs
  PROVE  Scans(PairLexemes(p), p)
<1>1. CASE p \in ScalarPairs
  BY <1>1, ScalarScans, ScalarWritten
<1>2. CASE p \in ObjectPairs
  BY <1>2, ObjectScans
<1> QED
  BY <1>1, <1>2 DEF WholePairs

(***************************************************************************)
(* A frame that is a line of its own: jsmn does not fail, and every pair   *)
(* is where the parser looks for it.                                       *)
(***************************************************************************)
LEMMA FrameScanned ==
  ASSUME NEW ps \in Seq(WholePairs)
  PROVE  LET t == Jsmn(Frame(ps))
         IN /\ ~JsmnFails(t) /\ t.tokens[1].type = "object"
            /\ Len(t.tokens) \in Nat
            /\ \E o : Layout(t.tokens, o, ps)
<1> DEFINE s == InitialScanner
           d == Opened(s)
           parts == [i \in DOMAIN ps |-> PairLexemes(ps[i])]
           t == ScanAll(d, Joined(parts))
           u == Closed(t)
           n == Len(ps)
<1>1. /\ s \in Scanners /\ s.tail = "none" /\ s.open = << >>
      /\ s.invalid = FALSE /\ Len(s.tokens) = 0
  <2>1. Len(<< >>) = 0
    BY EmptySeq
  <2> QED
    BY <2>1, InitialScannerType DEF InitialScanner
<1>2. n \in Nat /\ \A i \in 1 .. n : ps[i] \in WholePairs
  BY LenProperties
<1>3. PICK o : Offsets(o, ps)
  BY OffsetsExist
<1>4. /\ DOMAIN parts = 1 .. n
      /\ parts = [i \in DOMAIN parts |-> parts[i]]
      /\ \A i \in 1 .. n : parts[i] = PairLexemes(ps[i])
  <2>1. DOMAIN ps = 1 .. n
    BY LenProperties
  <2> QED
    BY <2>1
<1>5. Frame(ps) = Object(parts)
  BY DEF Frame
<1> HIDE DEF parts, s
<1>6. \A i \in 1 .. n : /\ parts[i] \in Seq(Lexemes)
                        /\ EvenlySteady(parts[i])
                        /\ Scans(parts[i], ps[i])
  BY <1>2, <1>4, PairWritten, PairScans
<1>7. Laid(d, t, o, ps, n) /\ Jsmn(Frame(ps)) = u
  <2>1. Laid(d, t, o, ps, n) /\ ScanAll(s, Object(parts)) = u
    BY <1>1, <1>3, <1>4, <1>6, BodyScanned
  <2> QED
    BY <1>5, <2>1 DEF Jsmn, s
<1>8. d \in Scanners /\ Len(d.tokens) = 1
  <2>1. d \in Scanners /\ Len(d.tokens) = Len(s.tokens) + 1
    BY <1>1, OpenedParts
  <2> QED
    BY <1>1, <2>1
<1> HIDE DEF t
<1> DEFINE k == o[n] - 2
<1>9. k \in Nat /\ o[n] = k + 2
  <2>1. n \in 0 .. n
    BY <1>2
  <2>2. o[n] \in Nat /\ o[n] >= 2
    BY <1>3, <2>1, OffsetsGrow
  <2> QED
    BY <2>2
<1>10. Extends(d, t, k)
  BY <1>7 DEF Laid
<1> HIDE DEF k
<1>11. /\ u \in Scanners /\ u.tail = "none" /\ u.open = << >>
       /\ u.invalid = FALSE /\ Len(u.tokens) = Len(t.tokens)
       /\ u.tokens[1].type = "object"
       /\ \A i \in 1 .. Len(t.tokens) : i # 1 => u.tokens[i] = t.tokens[i]
  <2>1. Len(s.tokens) + 1 = 1
    BY <1>1
  <2>2. /\ u \in Scanners /\ u.tail = "none" /\ u.open = s.open
        /\ u.invalid = s.invalid /\ Len(u.tokens) = Len(t.tokens)
        /\ u.tokens[Len(s.tokens) + 1].type = "object"
        /\ \A i \in 1 .. Len(t.tokens) :
             i # Len(s.tokens) + 1 => u.tokens[i] = t.tokens[i]
    BY <1>1, <1>9, <1>10, ClosedParts
  <2> QED
    BY <1>1, <2>1, <2>2
<1> DEFINE m == Len(t.tokens)
<1>12. m = 1 + k /\ m \in Nat
  BY <1>8, <1>9, <1>10 DEF Extends
<1> HIDE DEF u, d
<1>13. ASSUME NEW i \in 1 .. n
       PROVE  PairAt(u.tokens, o[i - 1], ps[i])
  <2> DEFINE x == o[i - 1]
             y == o[i]
             w == Width(ps[i])
  <2>1. x \in Nat /\ x >= 2 /\ y \in Nat /\ y <= o[n]
    <3>1. i - 1 \in 0 .. n /\ i \in 0 .. n /\ n \in 0 .. n /\ i \in 0 .. n
      BY <1>2
    <3>2. \A j \in 0 .. n : o[j] \in Nat /\ o[j] >= 2
      BY <1>3, OffsetsGrow
    <3>3. y + 2 * (n - i) <= o[n]
      BY <1>3, <3>1, OffsetsGrow
    <3>4. x \in Nat /\ x >= 2 /\ y \in Nat /\ o[n] \in Nat
      BY <3>1, <3>2
    <3> HIDE DEF x, y
    <3>5. y <= o[n]
      BY <1>2, <3>3, <3>4
    <3> QED
      BY <3>4, <3>5
  <2>2. ps[i] \in WholePairs /\ w \in Nat /\ w >= 2 /\ y = x + w
    <3>1. ps[i] \in WholePairs
      BY <1>2
    <3> QED
      BY <1>3, <3>1, PairShape DEF Offsets
  <2>3. PairAt(t.tokens, x, ps[i])
    <3>1. PairAt(t.tokens, Len(d.tokens) + o[i - 1] - 1, ps[i])
      BY <1>7 DEF Laid
    <3>2. 1 + x - 1 = x
      BY <2>1
    <3> QED
      BY <1>8, <3>1, <3>2
  <2> HIDE DEF x, y, w
  <2>4. \A z \in x .. m : z \in 1 .. m /\ z # 1
    BY <2>1
  <2>5. \A z \in x .. m : u.tokens[z] = t.tokens[z]
    BY <1>11, <2>4
  <2>6. \A z \in x .. x + w - 1 : z \in x .. m
    BY <1>9, <1>12, <2>1, <2>2
  <2>7. x + 1 \in x .. m
    BY <2>1, <2>2, <2>6
  <2>8. CASE ps[i] \in ObjectPairs
    <3>1. Behind(t.tokens, x, ps[i])
      BY <2>3, <2>8 DEF PairAt
    <3>2. \A j \in x + w .. m : j \in x .. m
      BY <2>1, <2>2
    <3>3. Behind(u.tokens, x, ps[i])
      BY <1>11, <2>5, <2>7, <3>1, <3>2 DEF Behind, w
    <3>4. \A z \in x .. x + Width(ps[i]) - 1 : u.tokens[z] = t.tokens[z]
      BY <2>5, <2>6 DEF w
    <3> DEFINE tt == t.tokens
               ut == u.tokens
               p == ps[i]
    <3>5. /\ PairAt(tt, x, p) /\ Len(tt) \in Nat /\ Behind(ut, x, p)
          /\ \A z \in x .. x + Width(p) - 1 : ut[z] = tt[z]
          /\ p \in WholePairs /\ x \in Nat
      BY <1>12, <2>1, <2>2, <2>3, <3>3, <3>4
    <3> HIDE DEF tt, ut, p
    <3>6. PairAt(ut, x, p)
      BY <3>5, PairAtSame
    <3> QED
      BY <3>6 DEF x, ut, p
  <2>9. CASE ps[i] \in ScalarPairs
    <3>1. ScalarAt(t.tokens, x, ps[i])
      BY <2>3, <2>9 DEF PairAt
    <3>2. x \in x .. m
      BY <2>1, <2>7
    <3>3. u.tokens[x] = t.tokens[x] /\ u.tokens[x + 1] = t.tokens[x + 1]
      BY <2>5, <2>7, <3>2
    <3>4. ScalarAt(u.tokens, x, ps[i])
      BY <3>1, <3>3, ScalarAtKept
    <3> QED
      BY <2>2, <2>9, <3>4, PairShape DEF PairAt, x
  <2> QED
    BY <2>2, <2>8, <2>9 DEF WholePairs
<1>14. Len(u.tokens) = m /\ o[n] = m + 1
  BY <1>9, <1>11, <1>12
<1>15. Layout(u.tokens, o, ps)
  BY <1>3, <1>13, <1>14 DEF Layout
<1>16. ~JsmnFails(u)
  BY <1>11 DEF JsmnFails
<1> QED
  BY <1>7, <1>11, <1>12, <1>14, <1>15, <1>16

-----------------------------------------------------------------------------
(***************************************************************************)
(* What the parser has made of the first k pairs.                          *)
(***************************************************************************)
KnownKeys == {"protocol_version", "type", "command_id", "test_uuid",
              "test_type", "parameters"}

ReadFits(p) ==
  /\ p.key \in KnownKeys
  /\ p.key = "type" => p.value.kind = "text"
  /\ p.key # "type" => ScalarFits(p)

Supported(text) == IF text \in RequestTypes THEN text ELSE "UNSUPPORTED"

ColourFits(p) ==
  p.key \in Colours /\ \E n \in 0 .. MaxUint8 : p.value = Number(n)

FieldMeans(r, p) ==
  /\ p.key = "type" => r.type = Supported(p.value.text)
  /\ p.key = "command_id" => r.command_id = p.value.number
  /\ p.key = "test_uuid" => r.test_uuid = p.value.text
  /\ p.key = "test_type" => r.test_type = p.value.text
  /\ p.key = "parameters" =>
       /\ r.rgb_colour_present = TRUE
       /\ \A j \in 1 .. Len(p.inner) :
            r[p.inner[j].key] = p.inner[j].value.number

KeysUpto(ps, k) == {ps[i].key : i \in 1 .. k}
Distinct(ps, k) == \A i, j \in 1 .. k : ps[i].key = ps[j].key => i = j

Read(r, ps, k) ==
  /\ Distinct(ps, k)
  /\ \A i \in 1 .. k : ReadFits(ps[i]) /\ FieldMeans(r, ps[i])

SeenWith(keys) == keys \cup IF "parameters" \in keys THEN Colours ELSE {}

AtPair(o, k) ==
  /\ at = "pairs" /\ k \in 0 .. Len(pairs) /\ index = o[k]
  /\ Read(request, pairs, k) /\ seen = SeenWith(KeysUpto(pairs, k))

AtColour(o, k, j) ==
  /\ at = "colour" /\ k \in 1 .. Len(pairs) /\ object = o[k - 1] + 1
  /\ pairs[k] \in ObjectPairs /\ pairs[k].key = "parameters"
  /\ j \in 0 .. Len(pairs[k].inner) /\ index = o[k - 1] + 2 + 2 * j
  /\ Read(request, pairs, k - 1) /\ "parameters" \notin KeysUpto(pairs, k - 1)
  /\ seen = KeysUpto(pairs, k - 1) \cup KeysUpto(pairs[k].inner, j)
  /\ Distinct(pairs[k].inner, j)
  /\ \A i \in 1 .. j :
       /\ ColourFits(pairs[k].inner[i])
       /\ request[pairs[k].inner[i].key] = pairs[k].inner[i].value.number

Progress(o) ==
  \/ \E k \in 0 .. Len(pairs) : AtPair(o, k)
  \/ \E k \in 1 .. Len(pairs) : \E j \in 0 .. Len(pairs[k].inner) : AtColour(o, k, j)

Understood ==
  /\ accepted <=> IsRequest(pairs)
  /\ accepted => request = Meaning(pairs)

Understands ==
  /\ pairs \in Seq(WholePairs)
  /\ cuts = 0 =>
       /\ at = "tokens" => line = Frame(pairs)
       /\ Parsing => /\ tokens \in Seq(TokenSet)
                     /\ \E o : Layout(tokens, o, pairs) /\ Progress(o)
       /\ at = "done" => Understood

-----------------------------------------------------------------------------
(***************************************************************************)
(* Lists of pairs whose keys are all different.                            *)
(***************************************************************************)
LEMMA KeysCounted ==
  ASSUME NEW ps, Len(ps) \in Nat, DOMAIN ps = 1 .. Len(ps)
  PROVE  /\ Keys(ps) = KeysUpto(ps, Len(ps))
         /\ Len(ps) = Cardinality(Keys(ps)) <=> Distinct(ps, Len(ps))
<1> DEFINE n == Len(ps)
           K == Keys(ps)
           I == 1 .. n
           f == [i \in I |-> ps[i].key]
<1>1. n \in Nat /\ K = {ps[i].key : i \in I}
  BY DEF Keys
<1>2. IsFiniteSet(I) /\ Cardinality(I) = n
  <2>1. 1 \in Int /\ n \in Int /\ (IF 1 > n THEN 0 ELSE n - 1 + 1) = n
    <3> HIDE DEF n
    <3> QED
      BY <1>1
  <2> HIDE DEF n
  <2> QED
    BY <2>1, FS_Interval
<1>3. f \in Surjection(I, K)
  <2>1. f \in [I -> K]
    BY <1>1
  <2>2. \A key \in K : \E i \in I : f[i] = key
    BY <1>1
  <2> QED
    BY <2>1, <2>2 DEF Surjection
<1>4. f \in Injection(I, K) <=> Distinct(ps, n)
  <2>1. f \in [I -> K] /\ DOMAIN f = I
    BY <1>1
  <2>2. (\A i, j \in I : f[i] = f[j] => i = j) <=> Distinct(ps, n)
    BY DEF Distinct
  <2> HIDE DEF f, I, K
  <2> QED
    BY <2>1, <2>2 DEF Injection, IsInjective
<1> HIDE DEF n, K, I, f
<1>5. Cardinality(K) = Cardinality(I) <=> f \in Injection(I, K)
  BY <1>2, <1>3, FS_Surjection
<1> QED
  BY <1>1, <1>2, <1>4, <1>5 DEF n, K, I, KeysUpto

LEMMA WholeList ==
  ASSUME NEW ps \in Seq(WholePairs)
  PROVE  /\ Len(ps) \in Nat /\ DOMAIN ps = 1 .. Len(ps)
         /\ \A i \in 1 .. Len(ps) : ps[i] \in WholePairs
BY LenProperties

\* With distinct keys, At finds the pair that has the key.
LEMMA KeyFound ==
  ASSUME NEW ps \in Seq(WholePairs), Distinct(ps, Len(ps)),
         NEW i \in 1 .. Len(ps)
  PROVE  At(ps, ps[i].key) = ps[i]
<1>1. DOMAIN ps = 1 .. Len(ps)
  BY WholeList
<1> DEFINE j == CHOOSE x \in DOMAIN ps : ps[x].key = ps[i].key
<1>2. j \in 1 .. Len(ps) /\ ps[j].key = ps[i].key
  BY <1>1
<1> HIDE DEF j
<1>3. j = i
  BY <1>2 DEF Distinct
<1> QED
  BY <1>3 DEF At, j

LEMMA ThreeColours == Cardinality(Colours) = 3 /\ IsFiniteSet(Colours)
<1>1. IsFiniteSet({}) /\ Cardinality({}) = 0
  BY FS_EmptySet
<1> DEFINE a == {} \cup {"red"}
           b == a \cup {"green"}
           c == b \cup {"blue"}
<1>2. IsFiniteSet(a) /\ Cardinality(a) = 1
  BY <1>1, FS_AddElement
<1>3. "green" \notin a
  OBVIOUS
<1>4. "blue" \notin b /\ c = Colours
  BY DEF Colours
<1> HIDE DEF a
<1>5. IsFiniteSet(b) /\ Cardinality(b) = 2
  BY <1>2, <1>3, FS_AddElement
<1> HIDE DEF b
<1>6. IsFiniteSet(c) /\ Cardinality(c) = 3
  BY <1>4, <1>5, FS_AddElement
<1> QED
  BY <1>4, <1>6

LEMMA OpenIsNoValue ==
  /\ Open.kind = "open"
  /\ \A n : Number(n).kind = "number" /\ Number(n).text = ""
            /\ Number(n).number = n /\ Number(n).ended = TRUE
  /\ \A p \in WholePairs : p \in ObjectPairs <=> p.value = Open
<1>1. \A p \in ScalarPairs : p.value # Open
  BY ValueType DEF ScalarPairs
<1>2. \A p \in ObjectPairs : p.value = Open
  BY DEF ObjectPairs
<1> QED
  BY <1>1, <1>2 DEF WholePairs, Open, Number, Lexeme

LEMMA FittingPair ==
  ASSUME NEW p \in WholePairs, p.key \in KnownKeys, ScalarFits(p)
  PROVE  /\ ReadFits(p)
         /\ p.key = "parameters" <=> p \in ObjectPairs
         /\ Width(p) = IF p.key = "parameters" THEN 8 ELSE 2
<1>1. ReadFits(p)
  BY DEF ReadFits, ScalarFits
<1>2. CASE p.key = "parameters"
  <2>1. p \in ObjectPairs /\ EachOnce(p.inner, Colours)
    BY <1>2, OpenIsNoValue DEF ScalarFits
  <2>2. Len(p.inner) = 3
    BY <2>1, ThreeColours DEF EachOnce
  <2> QED
    BY <1>1, <1>2, <2>1, <2>2 DEF Width
<1>3. CASE p.key # "parameters"
  <2>1. p.value # Open
    BY <1>3, OpenIsNoValue DEF ScalarFits, KnownKeys
  <2>2. p \in ScalarPairs /\ p \notin ObjectPairs
    BY <2>1, OpenIsNoValue DEF WholePairs
  <2> QED
    BY <1>1, <1>3, <2>2, PairShape
<1> QED
  BY <1>2, <1>3

(***************************************************************************)
(* How many tokens a list of fitting pairs takes.                          *)
(***************************************************************************)
LEMMA FittingOffsets ==
  ASSUME NEW ps \in Seq(WholePairs), NEW o, Offsets(o, ps),
         Distinct(ps, Len(ps)),
         \A i \in 1 .. Len(ps) : ps[i].key \in KnownKeys /\ ScalarFits(ps[i])
  PROVE  \A i \in 0 .. Len(ps) :
           o[i] = IF "parameters" \in KeysUpto(ps, i) THEN 8 + 2 * i
                                                      ELSE 2 + 2 * i
<1> DEFINE n == Len(ps)
           Far(i) == "parameters" \in KeysUpto(ps, i)
           S == {i \in 0 .. n : o[i] = IF Far(i) THEN 8 + 2 * i ELSE 2 + 2 * i}
<1>1. n \in Nat /\ \A i \in 1 .. n : ps[i] \in WholePairs
  BY WholeList
<1>2. /\ o[0] = 2 /\ \A i \in 1 .. n : o[i] = o[i - 1] + Width(ps[i])
      /\ o \in [0 .. n -> Nat]
  BY DEF Offsets
<1>3. \A i \in 1 .. n :
        Width(ps[i]) = IF ps[i].key = "parameters" THEN 8 ELSE 2
  BY <1>1, FittingPair
<1>4. 0 \in S
  <2>1. ~Far(0)
    BY DEF KeysUpto
  <2>2. 0 \in 0 .. n
    BY <1>1
  <2> QED
    BY <1>2, <2>1, <2>2
<1>5. ASSUME NEW i \in 1 .. n, i - 1 \in S
      PROVE  i \in S
  <2>1. i \in 0 .. n /\ i - 1 \in 0 .. n /\ i \in Int
    BY <1>1
  <2>2. Far(i) <=> Far(i - 1) \/ ps[i].key = "parameters"
    <3>1. \A j : j \in 1 .. i <=> j \in 1 .. i - 1 \/ j = i
      BY <2>1
    <3> QED
      BY <3>1 DEF KeysUpto
  <2>3. ~(Far(i - 1) /\ ps[i].key = "parameters")
    <3>1. ASSUME NEW j \in 1 .. i - 1, ps[j].key = ps[i].key PROVE FALSE
      <4>1. j \in 1 .. n /\ j # i
        BY <1>1, <2>1
      <4> QED
        BY <3>1, <4>1 DEF Distinct
    <3> QED
      BY <3>1 DEF KeysUpto
  <2> DEFINE x == o[i - 1]
             y == o[i]
             w == Width(ps[i])
             A == Far(i - 1)
             B == Far(i)
             P == ps[i].key = "parameters"
  <2>4. /\ y = x + w /\ w = (IF P THEN 8 ELSE 2)
        /\ x = (IF A THEN 8 + 2 * (i - 1) ELSE 2 + 2 * (i - 1))
    BY <1>2, <1>3, <1>5
  <2>5. (B <=> A \/ P) /\ ~(A /\ P)
    BY <2>2, <2>3
  <2> HIDE DEF x, y, w, A, B, P
  <2>6. y = IF B THEN 8 + 2 * i ELSE 2 + 2 * i
    <3>1. CASE A
      BY <2>1, <2>4, <2>5, <3>1
    <3>2. CASE P
      BY <2>1, <2>4, <2>5, <3>2
    <3>3. CASE ~A /\ ~P
      BY <2>1, <2>4, <2>5, <3>3
    <3> QED
      BY <3>1, <3>2, <3>3
  <2> QED
    BY <2>1, <2>6 DEF y, B
<1> HIDE DEF S
<1>6. \A i \in 0 .. n : i \in S
  BY <1>1, <1>4, <1>5, Induction
<1> QED
  BY <1>6 DEF S, n

-----------------------------------------------------------------------------
(***************************************************************************)
(* A turn at a pair: what the parser takes is what fits.                   *)
(***************************************************************************)
LEMMA ValueRead ==
  ASSUME NEW v \in Values, NEW e, ValueAt(e, v)
  PROVE  /\ e.type \in {"string", "primitive"}
         /\ e.text = v.text /\ e.number = v.number
         /\ e.type = "string" <=> v.kind = "text"
         /\ Digits(e) <=> v.kind = "number"
         /\ \A n : v = Number(n) <=> Digits(e) /\ e.number = n
<1>1. CASE v.kind = "text"
  <2>1. e.type = "string" /\ e.text = v.text /\ e.number = v.number
    BY <1>1 DEF ValueAt
  <2>2. ~Digits(e)
    BY <2>1 DEF Digits
  <2>3. \A n : v # Number(n)
    BY <1>1, OpenIsNoValue
  <2> QED
    BY <1>1, <2>1, <2>2, <2>3
<1>2. CASE v.kind # "text"
  <2>1. v.kind = "number" /\ v.text = ""
    BY <1>2 DEF Values
  <2>2. e.type = "primitive" /\ e.text = "" /\ e.number = v.number
    BY <1>2, <2>1 DEF ValueAt
  <2>3. Digits(e)
    BY <2>2 DEF Digits
  <2>4. v = Number(v.number)
    BY <1>2 DEF Values, Number, Lexeme
  <2>5. \A n : Number(n).number = n
    BY OpenIsNoValue
  <2>6. ASSUME NEW n PROVE v = Number(n) <=> Digits(e) /\ e.number = n
    BY <2>2, <2>3, <2>4, <2>5
  <2> QED
    BY <1>2, <2>1, <2>2, <2>3, <2>6
<1> QED
  BY <1>1, <1>2

\* What a turn can know of a pair: the type may yet be unsupported.
LEMMA ReadFitsScalar ==
  ASSUME NEW p \in ScalarPairs
  PROVE  ReadFits(p) <=>
           \/ p.key = "protocol_version" /\ p.value = Number(1)
           \/ p.key = "type" /\ p.value.kind = "text"
           \/ /\ p.key = "command_id"
              /\ \E n \in 1 .. MaxUint32 : p.value = Number(n)
           \/ /\ p.key = "test_uuid"
              /\ p.value.kind = "text" /\ p.value.text \in Uuids
           \/ /\ p.key = "test_type"
              /\ p.value.kind = "text" /\ p.value.text \in Names
<1>1. CASE p.key = "protocol_version"
  BY <1>1 DEF ReadFits, ScalarFits, KnownKeys
<1>2. CASE p.key = "type"
  BY <1>2 DEF ReadFits, KnownKeys
<1>3. CASE p.key = "command_id"
  BY <1>3 DEF ReadFits, ScalarFits, KnownKeys
<1>4. CASE p.key = "test_uuid"
  BY <1>4 DEF ReadFits, ScalarFits, KnownKeys
<1>5. CASE p.key = "test_type"
  BY <1>5 DEF ReadFits, ScalarFits, KnownKeys
<1>6. CASE p.key = "parameters"
  <2>1. p.value # Open
    BY ValueType DEF ScalarPairs
  <2>2. ~ReadFits(p)
    BY <1>6, <2>1 DEF ReadFits, ScalarFits
  <2> QED
    BY <1>6, <2>2
<1>7. CASE p.key \notin KnownKeys
  BY <1>7 DEF ReadFits, KnownKeys
<1> QED
  BY <1>1, <1>2, <1>3, <1>4, <1>5, <1>6, <1>7 DEF KnownKeys

\* At a scalar pair, the turn takes the values that fit.
LEMMA ScalarTurn ==
  ASSUME NEW p \in ScalarPairs, ScalarAt(tokens, index, p)
  PROVE  /\ CurrentKey = p.key
         /\ CurrentValue.text = p.value.text
         /\ CurrentValue.number = p.value.number
         /\ ValidScalar <=> ReadFits(p)
         /\ ~ValidObject
         /\ Uint8(CurrentValue) <=> \E n \in 0 .. MaxUint8 : p.value = Number(n)
<1> DEFINE v == p.value
           e == tokens[index + 1]
<1>1. v \in Values
  BY DEF ScalarPairs
<1>2. CurrentKey = p.key /\ CurrentValue = e /\ ValueAt(e, v)
  BY DEF ScalarAt, CurrentKey, CurrentValue
<1> HIDE DEF v, e
<1>3. /\ e.type \in {"string", "primitive"}
      /\ e.text = v.text /\ e.number = v.number
      /\ e.type = "string" <=> v.kind = "text"
      /\ \A n : v = Number(n) <=> Digits(e) /\ e.number = n
  BY <1>1, <1>2, ValueRead
<1>4. ~ValidObject
  BY <1>2, <1>3 DEF ValidObject
<1>5. /\ PositiveUint32(e) <=> \E n \in 1 .. MaxUint32 : v = Number(n)
      /\ Uint8(e) <=> \E n \in 0 .. MaxUint8 : v = Number(n)
  BY <1>3 DEF PositiveUint32, Uint8
<1>6. PositiveUint32(e) /\ e.number = 1 <=> v = Number(1)
  <2>1. 1 \in 1 .. MaxUint32
    BY NumberWidths
  <2> QED
    BY <1>3, <2>1 DEF PositiveUint32
<1>7. ReadFits(p) <=>
        \/ p.key = "protocol_version" /\ v = Number(1)
        \/ p.key = "type" /\ v.kind = "text"
        \/ p.key = "command_id" /\ \E n \in 1 .. MaxUint32 : v = Number(n)
        \/ p.key = "test_uuid" /\ v.kind = "text" /\ v.text \in Uuids
        \/ p.key = "test_type" /\ v.kind = "text" /\ v.text \in Names
  BY ReadFitsScalar DEF v
<1>8. ValidScalar <=>
        \/ p.key = "protocol_version" /\ PositiveUint32(e) /\ e.number = 1
        \/ p.key = "type" /\ e.type = "string"
        \/ p.key = "command_id" /\ PositiveUint32(e)
        \/ p.key = "test_uuid" /\ e.type = "string" /\ e.text \in Uuids
        \/ p.key = "test_type" /\ e.type = "string" /\ e.text \in Names
  BY <1>2 DEF ValidScalar
<1>9. ValidScalar <=> ReadFits(p)
  BY <1>3, <1>5, <1>6, <1>7, <1>8
<1> QED
  BY <1>2, <1>3, <1>4, <1>5, <1>9 DEF v

\* At an object, it takes parameters.
LEMMA ObjectTurn ==
  ASSUME NEW p \in ObjectPairs, ObjectAt(tokens, index, p)
  PROVE  /\ CurrentKey = p.key /\ ~ValidScalar
         /\ ValidObject <=> p.key = "parameters"
<1>1. CurrentKey = p.key /\ CurrentValue.type = "object"
  BY DEF ObjectAt, CurrentKey, CurrentValue
<1>2. ~ValidScalar
  BY <1>1 DEF ValidScalar, PositiveUint32, Digits
<1> QED
  BY <1>1, <1>2 DEF ValidObject

(***************************************************************************)
(* The same in the layout of a request: the turn is at pair k + 1.         *)
(***************************************************************************)
LEMMA LayoutParts ==
  ASSUME NEW o, pairs \in Seq(WholePairs), Len(tokens) \in Nat,
         Layout(tokens, o, pairs)
  PROVE  /\ Len(pairs) \in Nat /\ Offsets(o, pairs)
         /\ \A i \in 1 .. Len(pairs) :
              /\ pairs[i] \in WholePairs
              /\ PairAt(tokens, o[i - 1], pairs[i])
              /\ o[i] = o[i - 1] + Width(pairs[i])
         /\ o[Len(pairs)] = Len(tokens) + 1
         /\ \A i \in 0 .. Len(pairs) : o[i] \in Nat /\ o[i] >= 2
         /\ \A i \in 0 .. Len(pairs) : i < Len(pairs) => o[i] < Len(tokens)
<1> DEFINE n == Len(pairs)
           m == Len(tokens)
<1>1. n \in Nat /\ \A i \in 1 .. n : pairs[i] \in WholePairs
  BY WholeList
<1>2. /\ Offsets(o, pairs) /\ o[n] = m + 1
      /\ \A i \in 1 .. n : PairAt(tokens, o[i - 1], pairs[i])
  BY DEF Layout
<1>3. \A i \in 1 .. n : o[i] = o[i - 1] + Width(pairs[i])
  BY <1>2 DEF Offsets
<1>4. \A i \in 0 .. n : /\ o[i] \in Nat /\ o[i] >= 2
                        /\ \A j \in 0 .. i : o[j] + 2 * (i - j) <= o[i]
  BY <1>2, OffsetsGrow
<1>5. ASSUME NEW i \in 0 .. n, i < n PROVE o[i] < m
  <2> DEFINE x == o[i]
             y == o[n]
  <2>1. n \in 0 .. n /\ i \in 0 .. n
    BY <1>1
  <2>2. x + 2 * (n - i) <= y /\ x \in Nat /\ y \in Nat /\ y = m + 1
    BY <1>2, <1>4, <2>1
  <2>3. m \in Nat
    OBVIOUS
  <2> HIDE DEF x, y, m
  <2> QED
    BY <1>1, <1>5, <2>2, <2>3 DEF x
<1> QED
  BY <1>1, <1>2, <1>3, <1>4, <1>5

-----------------------------------------------------------------------------
(***************************************************************************)
(* One more pair.                                                          *)
(***************************************************************************)
LEMMA KeysOn ==
  ASSUME NEW ps, NEW k \in Nat, k >= 1
  PROVE  KeysUpto(ps, k) = KeysUpto(ps, k - 1) \cup {ps[k].key}
<1>1. \A i : i \in 1 .. k <=> i \in 1 .. k - 1 \/ i = k
  OBVIOUS
<1> QED
  BY <1>1 DEF KeysUpto

LEMMA DistinctOn ==
  ASSUME NEW ps, NEW k \in Nat, k >= 1, Distinct(ps, k - 1),
         ps[k].key \notin KeysUpto(ps, k - 1)
  PROVE  Distinct(ps, k)
<1>1. \A i : i \in 1 .. k <=> i \in 1 .. k - 1 \/ i = k
  OBVIOUS
<1>2. \A i \in 1 .. k - 1 : ps[i].key # ps[k].key
  BY DEF KeysUpto
<1>3. \A i, j \in 1 .. k - 1 : ps[i].key = ps[j].key => i = j
  BY DEF Distinct
<1>4. \A i, j \in 1 .. k : ps[i].key = ps[j].key => i = j
  BY <1>1, <1>2, <1>3
<1> QED
  BY <1>4 DEF Distinct

LEMMA DistinctBefore ==
  ASSUME NEW ps, NEW n \in Nat, Distinct(ps, n), NEW k \in 1 .. n
  PROVE  ps[k].key \notin KeysUpto(ps, k - 1)
<1>1. \A i \in 1 .. k - 1 : i \in 1 .. n /\ i # k
  OBVIOUS
<1> QED
  BY <1>1 DEF Distinct, KeysUpto

\* The flags of the colours are no keys of the request.
LEMMA SeenKnown ==
  ASSUME NEW K
  PROVE  /\ \A x \in KnownKeys : x \in SeenWith(K) <=> x \in K
         /\ K \cap Colours = {} =>
              \A c \in Colours : c \in SeenWith(K) <=> "parameters" \in K
BY DEF SeenWith, KnownKeys, Colours

LEMMA ReadKeysKnown ==
  ASSUME NEW r, NEW ps, NEW k, Read(r, ps, k)
  PROVE  /\ KeysUpto(ps, k) \subseteq KnownKeys
         /\ KeysUpto(ps, k) \cap Colours = {}
<1>1. KeysUpto(ps, k) \subseteq KnownKeys
  BY DEF Read, ReadFits, KeysUpto
<1> QED
  BY <1>1 DEF KnownKeys, Colours

(***************************************************************************)
(* A pair that is read keeps its meaning while its fields are left alone.  *)
(***************************************************************************)
Alike(r, q, p) ==
  /\ p.key = "type" => q.type = r.type
  /\ p.key = "command_id" => q.command_id = r.command_id
  /\ p.key = "test_uuid" => q.test_uuid = r.test_uuid
  /\ p.key = "test_type" => q.test_type = r.test_type
  /\ p.key = "parameters" =>
       /\ q.rgb_colour_present = r.rgb_colour_present
       /\ \A c \in Colours : q[c] = r[c]

LEMMA MeansKept ==
  ASSUME NEW r, NEW q, NEW p \in WholePairs, ReadFits(p), FieldMeans(r, p),
         Alike(r, q, p)
  PROVE  FieldMeans(q, p)
<1>1. ASSUME p.key = "parameters", NEW j \in 1 .. Len(p.inner)
      PROVE  p.inner[j].key \in Colours
  <2>1. p.value = Open /\ EachOnce(p.inner, Colours)
    BY <1>1 DEF ReadFits, ScalarFits
  <2>2. p.inner \in Seq(ScalarPairs)
    BY <2>1, OpenIsNoValue, PairShape
  <2>3. j \in DOMAIN p.inner
    BY <1>1, <2>2, LenProperties
  <2> QED
    BY <2>1, <2>3 DEF EachOnce, Keys
<1> QED
  BY <1>1 DEF FieldMeans, Alike

\* A pair more has been read, and the ones before still mean the same.
LEMMA ReadOn ==
  ASSUME NEW r, NEW q, NEW ps \in Seq(WholePairs), NEW k \in 1 .. Len(ps),
         Read(r, ps, k - 1), ps[k].key \notin KeysUpto(ps, k - 1),
         ReadFits(ps[k]), FieldMeans(q, ps[k]),
         \A i \in 1 .. k - 1 : Alike(r, q, ps[i])
  PROVE  Read(q, ps, k)
<1>1. k \in Nat /\ k >= 1 /\ Len(ps) \in Nat
  BY WholeList
<1>2. Distinct(ps, k)
  BY <1>1, DistinctOn DEF Read
<1>3. ASSUME NEW i \in 1 .. k PROVE ReadFits(ps[i]) /\ FieldMeans(q, ps[i])
  <2>1. CASE i = k
    BY <2>1
  <2>2. CASE i # k
    <3>1. i \in 1 .. k - 1 /\ i \in 1 .. Len(ps)
      BY <1>1, <2>2
    <3>2. ReadFits(ps[i]) /\ FieldMeans(r, ps[i]) /\ Alike(r, q, ps[i])
      BY <3>1 DEF Read
    <3>3. ps[i] \in WholePairs
      BY <3>1, WholeList
    <3> QED
      BY <3>2, <3>3, MeansKept
  <2> QED
    BY <2>1, <2>2
<1> QED
  BY <1>2, <1>3 DEF Read

LEMMA TakenFields ==
  ASSUME request \in Fields,
         CurrentKey \in {"protocol_version", "type", "command_id",
                         "test_uuid", "test_type"}
  PROVE  /\ Taken.type = IF CurrentKey = "type"
                         THEN Supported(CurrentValue.text) ELSE request.type
         /\ Taken.command_id = IF CurrentKey = "command_id"
                               THEN CurrentValue.number ELSE request.command_id
         /\ Taken.test_uuid = IF CurrentKey = "test_uuid"
                              THEN CurrentValue.text ELSE request.test_uuid
         /\ Taken.test_type = IF CurrentKey = "test_type"
                              THEN CurrentValue.text ELSE request.test_type
         /\ Taken.rgb_colour_present = request.rgb_colour_present
         /\ \A c \in Colours : Taken[c] = request[c]
<1> DEFINE t == CurrentValue.text
           n == CurrentValue.number
           w == Supported(t)
<1>1. CASE CurrentKey = "protocol_version"
  BY <1>1 DEF Taken
<1>2. CASE CurrentKey = "type"
  <2>1. Taken = [request EXCEPT !.type = w]
    BY <1>2 DEF Taken, Supported
  <2> HIDE DEF w
  <2> QED
    BY <1>2, <2>1 DEF Fields, Colours, w
<1>3. CASE CurrentKey = "command_id"
  <2>1. Taken = [request EXCEPT !.command_id = n]
    BY <1>3 DEF Taken
  <2> HIDE DEF n
  <2> QED
    BY <1>3, <2>1 DEF Fields, Colours, n
<1>4. CASE CurrentKey = "test_uuid"
  <2>1. Taken = [request EXCEPT !.test_uuid = t]
    BY <1>4 DEF Taken
  <2> HIDE DEF t
  <2> QED
    BY <1>4, <2>1 DEF Fields, Colours, t
<1>5. CASE CurrentKey = "test_type"
  <2>1. Taken = [request EXCEPT !.test_type = t]
    BY <1>5 DEF Taken
  <2> HIDE DEF t
  <2> QED
    BY <1>5, <2>1 DEF Fields, Colours, t
<1> QED
  BY <1>1, <1>2, <1>3, <1>4, <1>5

-----------------------------------------------------------------------------
(***************************************************************************)
(* The turns of the loop over the pairs.                                   *)
(***************************************************************************)
LEMMA TurnFits ==
  ASSUME pairs \in Seq(WholePairs), Len(tokens) \in Nat,
         NEW o, Layout(tokens, o, pairs),
         NEW k \in 1 .. Len(pairs), AtPair(o, k - 1)
  PROVE  /\ CurrentKey = pairs[k].key
         /\ ValidScalar <=> pairs[k] \in ScalarPairs /\ ReadFits(pairs[k])
         /\ ValidObject <=>
              pairs[k] \in ObjectPairs /\ pairs[k].key = "parameters"
         /\ pairs[k] \in ScalarPairs =>
              /\ CurrentValue.text = pairs[k].value.text
              /\ CurrentValue.number = pairs[k].value.number
         /\ pairs[k].key \in KnownKeys =>
              (NotSeen(CurrentKey) <=>
                 pairs[k].key \notin KeysUpto(pairs, k - 1))
<1> DEFINE p == pairs[k]
           K == KeysUpto(pairs, k - 1)
<1>1. p \in WholePairs /\ PairAt(tokens, index, p)
  BY LayoutParts DEF AtPair
<1>2. seen = SeenWith(K)
  BY DEF AtPair
<1> HIDE DEF p, K
<1>3. \A x \in KnownKeys : x \in seen <=> x \in K
  BY <1>2, SeenKnown
<1>4. CASE p \in ScalarPairs
  <2>1. ScalarAt(tokens, index, p) /\ p \notin ObjectPairs
    BY <1>1, <1>4, PairShape DEF PairAt
  <2> QED
    BY <1>3, <1>4, <2>1, ScalarTurn DEF p, K, NotSeen
<1>5. CASE p \in ObjectPairs
  <2>1. ObjectAt(tokens, index, p) /\ p \notin ScalarPairs
    BY <1>1, <1>5, PairShape DEF PairAt
  <2> QED
    BY <1>3, <1>5, <2>1, ObjectTurn DEF p, K, NotSeen
<1> QED
  BY <1>1, <1>4, <1>5 DEF WholePairs

\* A scalar pair that is taken.
LEMMA ScalarUnderstood ==
  ASSUME pairs \in Seq(WholePairs), Len(tokens) \in Nat,
         NEW o, Layout(tokens, o, pairs), request \in Fields,
         NEW k \in 1 .. Len(pairs), AtPair(o, k - 1),
         NotSeen(CurrentKey), ValidScalar, index' = index + 2,
         seen' = seen \cup {CurrentKey}, request' = Taken,
         UNCHANGED <<at, pairs>>
  PROVE  AtPair(o, k)'
<1> DEFINE p == pairs[k]
           K == KeysUpto(pairs, k - 1)
           r == request
           q == Taken
<1>1. /\ p \in ScalarPairs /\ ReadFits(p) /\ CurrentKey = p.key
      /\ CurrentValue.text = p.value.text
      /\ CurrentValue.number = p.value.number
  BY TurnFits
<1>2. p.key \in {"protocol_version", "type", "command_id", "test_uuid",
                 "test_type"}
  BY <1>1, ReadFitsScalar
<1>3. p.key \notin K
  <2>1. p.key \in KnownKeys
    BY <1>1 DEF ReadFits
  <2> QED
    BY <2>1, TurnFits
<1>4. /\ q.type = IF p.key = "type" THEN Supported(p.value.text) ELSE r.type
      /\ q.command_id = IF p.key = "command_id"
                        THEN p.value.number ELSE r.command_id
      /\ q.test_uuid = IF p.key = "test_uuid" THEN p.value.text ELSE r.test_uuid
      /\ q.test_type = IF p.key = "test_type" THEN p.value.text ELSE r.test_type
      /\ q.rgb_colour_present = r.rgb_colour_present
      /\ \A c \in Colours : q[c] = r[c]
  BY <1>1, <1>2, TakenFields
<1>5. Len(pairs) \in Nat /\ p \in WholePairs /\ o[k] = index + 2
  <2>1. o[k] = o[k - 1] + Width(p) /\ p \in WholePairs /\ Len(pairs) \in Nat
    BY LayoutParts
  <2>2. Width(p) = 2
    BY <1>1, <2>1, PairShape
  <2> QED
    BY <2>1, <2>2 DEF AtPair
<1> HIDE DEF q
<1>6. FieldMeans(q, p)
  BY <1>2, <1>4 DEF FieldMeans
<1>7. ASSUME NEW i \in 1 .. k - 1 PROVE Alike(r, q, pairs[i])
  <2>1. pairs[i].key # p.key
    BY <1>3 DEF KeysUpto
  <2> HIDE DEF p, r
  <2> QED
    BY <1>4, <2>1 DEF Alike
<1>8. Read(q, pairs, k)
  <2>1. Read(r, pairs, k - 1)
    BY DEF AtPair
  <2> HIDE DEF r
  <2> QED
    BY <1>1, <1>3, <1>6, <1>7, <2>1, ReadOn
<1>9. seen' = SeenWith(KeysUpto(pairs, k))
  <2>1. k \in Nat /\ k >= 1
    BY <1>5
  <2>2. KeysUpto(pairs, k) = K \cup {p.key}
    BY <2>1, KeysOn
  <2>3. seen = SeenWith(K)
    BY DEF AtPair
  <2> HIDE DEF K, p
  <2> QED
    BY <1>1, <1>2, <2>2, <2>3 DEF SeenWith
<1>10. k \in 0 .. Len(pairs)
  BY <1>5
<1> QED
  BY <1>5, <1>8, <1>9, <1>10 DEF AtPair, q

\* The object of the parameters begins.
LEMMA ObjectUnderstood ==
  ASSUME pairs \in Seq(WholePairs), Len(tokens) \in Nat,
         NEW o, Layout(tokens, o, pairs),
         NEW k \in 1 .. Len(pairs), AtPair(o, k - 1),
         NotSeen(CurrentKey), ValidObject, index' = index + 2,
         object' = index + 1, at' = "colour", UNCHANGED <<seen, request, pairs>>
  PROVE  AtColour(o, k, 0)'
<1> DEFINE p == pairs[k]
           K == KeysUpto(pairs, k - 1)
<1>1. p \in ObjectPairs /\ p.key = "parameters" /\ CurrentKey = p.key
  BY TurnFits
<1>2. "parameters" \notin K
  <2>1. p.key \in KnownKeys
    BY <1>1 DEF KnownKeys
  <2> QED
    BY <1>1, <2>1, TurnFits
<1>3. seen = K \cup KeysUpto(p.inner, 0)
  <2>1. seen = SeenWith(K)
    BY DEF AtPair
  <2>2. KeysUpto(p.inner, 0) = {}
    BY DEF KeysUpto
  <2> HIDE DEF K, p
  <2> QED
    BY <1>2, <2>1, <2>2 DEF SeenWith
<1>4. index' = o[k - 1] + 2 + 2 * 0 /\ object' = o[k - 1] + 1
  <2>1. o[k - 1] \in Nat /\ index = o[k - 1]
    <3>1. k - 1 \in 0 .. Len(pairs)
      BY WholeList
    <3> QED
      BY <3>1, LayoutParts DEF AtPair
  <2> QED
    BY <2>1
<1>5. 0 \in 0 .. Len(p.inner)
  <2>1. p \in WholePairs
    BY WholeList
  <2>2. Len(p.inner) \in Nat
    BY <2>1, PairShape
  <2> QED
    BY <2>2
<1>6. Distinct(p.inner, 0)
  BY DEF Distinct
<1>7. Read(request, pairs, k - 1)
  BY DEF AtPair
<1> QED
  BY <1>1, <1>2, <1>3, <1>4, <1>5, <1>6, <1>7 DEF AtColour

(***************************************************************************)
(* What is refused is no request.                                          *)
(***************************************************************************)
LEMMA RequestKeys ==
  ASSUME NEW ps \in Seq(WholePairs), IsRequest(ps)
  PROVE  /\ Distinct(ps, Len(ps)) /\ Keys(ps) = Shape(ps)
         /\ Len(ps) = Cardinality(Shape(ps))
         /\ \A i \in 1 .. Len(ps) :
              ps[i].key \in KnownKeys /\ ScalarFits(ps[i])
<1>1. /\ Len(ps) \in Nat /\ DOMAIN ps = 1 .. Len(ps)
  BY WholeList
<1>2. Keys(ps) = Shape(ps) /\ Len(ps) = Cardinality(Shape(ps))
  BY DEF IsRequest, EachOnce
<1>3. Distinct(ps, Len(ps))
  BY <1>1, <1>2, KeysCounted
<1>4. Shape(ps) \subseteq KnownKeys
  BY DEF Shape, KnownKeys
<1>5. \A i \in 1 .. Len(ps) : ps[i].key \in Keys(ps)
  BY <1>1 DEF Keys
<1>6. \A i \in 1 .. Len(ps) : ScalarFits(ps[i])
  BY <1>1 DEF IsRequest
<1> QED
  BY <1>2, <1>3, <1>4, <1>5, <1>6

\* A pair that is refused is in no request.
LEMMA RefusedPair ==
  ASSUME pairs \in Seq(WholePairs), Len(tokens) \in Nat,
         NEW o, Layout(tokens, o, pairs),
         NEW k \in 1 .. Len(pairs), AtPair(o, k - 1),
         NotSeen(CurrentKey) => ~ValidScalar /\ ~ValidObject
  PROVE  ~IsRequest(pairs)
<1> SUFFICES ASSUME IsRequest(pairs) PROVE FALSE
  OBVIOUS
<1> DEFINE p == pairs[k]
<1>1. p \in WholePairs /\ Len(pairs) \in Nat
  BY WholeList
<1>2. /\ Distinct(pairs, Len(pairs))
      /\ p.key \in KnownKeys /\ ScalarFits(p)
  BY RequestKeys
<1>3. p.key \notin KeysUpto(pairs, k - 1)
  BY <1>1, <1>2, DistinctBefore
<1>4. NotSeen(CurrentKey)
  BY <1>2, <1>3, TurnFits
<1>5. ReadFits(p) /\ (p.key = "parameters" <=> p \in ObjectPairs)
  BY <1>1, <1>2, FittingPair
<1>6. ValidScalar \/ ValidObject
  BY <1>1, <1>5, TurnFits DEF WholePairs
<1> QED
  BY <1>4, <1>6

-----------------------------------------------------------------------------
(***************************************************************************)
(* The turns of parse_rgb_parameters: its loop ends where the object does. *)
(***************************************************************************)
LEMMA ObjectLayout ==
  ASSUME pairs \in Seq(WholePairs), Len(tokens) \in Nat,
         NEW o, Layout(tokens, o, pairs),
         NEW k \in 1 .. Len(pairs), pairs[k] \in ObjectPairs
  PROVE  /\ ObjectAt(tokens, o[k - 1], pairs[k])
         /\ Behind(tokens, o[k - 1], pairs[k])
         /\ pairs[k].inner \in Seq(ScalarPairs)
         /\ Len(pairs[k].inner) \in Nat
         /\ o[k - 1] \in Nat /\ o[k - 1] >= 2
         /\ o[k] = o[k - 1] + 2 + 2 * Len(pairs[k].inner)
         /\ o[k] <= Len(tokens) + 1
<1> DEFINE p == pairs[k]
           l == Len(p.inner)
<1>1. /\ Len(pairs) \in Nat /\ p \in WholePairs
      /\ PairAt(tokens, o[k - 1], p) /\ o[k] = o[k - 1] + Width(p)
      /\ o[Len(pairs)] = Len(tokens) + 1
  BY LayoutParts
<1>2. p.inner \in Seq(ScalarPairs) /\ l \in Nat /\ Width(p) = 2 + 2 * l
  BY <1>1, PairShape DEF Width
<1>3. k - 1 \in 0 .. Len(pairs) /\ k \in 0 .. Len(pairs)
  BY <1>1
<1>4. o[k - 1] \in Nat /\ o[k - 1] >= 2 /\ o[k] \in Nat
  BY <1>3, LayoutParts
<1>5. o[k] = o[k - 1] + 2 + 2 * l
  <2> HIDE DEF l, p
  <2> QED
    BY <1>1, <1>2, <1>4
<1>6. o[k] <= Len(tokens) + 1
  <2>1. k < Len(pairs) => o[k] < Len(tokens)
    BY <1>3, LayoutParts
  <2>2. k = Len(pairs) \/ k < Len(pairs)
    BY <1>1
  <2>3. CASE k = Len(pairs)
    <3>1. o[k] = Len(tokens) + 1
      BY <1>1, <2>3
    <3> QED
      BY <1>4, <3>1
  <2>4. CASE k < Len(pairs)
    BY <1>4, <2>1, <2>4
  <2> QED
    BY <2>2, <2>3, <2>4
<1>7. ObjectAt(tokens, o[k - 1], p) /\ Behind(tokens, o[k - 1], p)
  BY <1>1 DEF PairAt
<1> QED
  BY <1>2, <1>4, <1>5, <1>6, <1>7

\* parse_rgb_parameters goes on as long as the object has pairs, and no longer.
LEMMA InObjectWhile ==
  ASSUME pairs \in Seq(WholePairs), tokens \in Seq(TokenSet),
         NEW o, Layout(tokens, o, pairs),
         NEW k \in 1 .. Len(pairs), NEW j \in 0 .. Len(pairs[k].inner),
         AtColour(o, k, j)
  PROVE  InObject <=> j < Len(pairs[k].inner)
<1> DEFINE p == pairs[k]
           l == Len(p.inner)
           i == o[k - 1]
           m == Len(tokens)
<1>1. m \in Nat /\ \A x \in 1 .. m : tokens[x] \in TokenSet
  BY LenProperties
<1>2. /\ ObjectAt(tokens, i, p) /\ Behind(tokens, i, p)
      /\ l \in Nat /\ i \in Nat /\ i >= 2 /\ o[k] = i + 2 + 2 * l
      /\ o[k] <= m + 1
  BY <1>1, ObjectLayout DEF AtColour
<1>3. index = i + 2 + 2 * j /\ object = i + 1 /\ j \in 0 .. l
  BY DEF AtColour
<1>4. Width(p) = 2 + 2 * l
  BY DEF Width
<1> HIDE DEF p, l, i, m
<1>5. CASE j < l
  <2>1. j + 1 \in 1 .. l /\ i + 2 * (j + 1) = index /\ index < m
    BY <1>1, <1>2, <1>3, <1>5
  <2>2. tokens[i + 2 * (j + 1)].start < tokens[i + 1].end
    BY <1>2, <2>1 DEF ObjectAt, l
  <2> QED
    BY <1>3, <1>5, <2>1, <2>2 DEF InObject, m, l, p
<1>6. CASE ~(j < l)
  <2>1. j = l /\ index = i + 2 + 2 * l
    BY <1>2, <1>3, <1>6
  <2>2. ASSUME index < m PROVE ~(tokens[index].start < tokens[object].end)
    <3>1. /\ index \in i + (2 + 2 * l) .. m /\ index \in 1 .. m
          /\ object \in 1 .. m
      BY <1>1, <1>2, <1>3, <2>1, <2>2
    <3>2. tokens[object].end <= tokens[index].start
      BY <1>2, <1>3, <1>4, <3>1 DEF Behind, m
    <3>3. tokens[object] \in TokenSet /\ tokens[index] \in TokenSet
      BY <1>1, <3>1
    <3>4. tokens[object].end \in Nat /\ tokens[index].start \in Nat
      BY <3>3 DEF TokenSet
    <3> QED
      BY <3>2, <3>4
  <2> QED
    BY <1>6, <2>2 DEF InObject, m, l, p
<1> QED
  BY <1>5, <1>6

LEMMA ColourFacts ==
  ASSUME pairs \in Seq(WholePairs), tokens \in Seq(TokenSet),
         NEW o, Layout(tokens, o, pairs),
         NEW k \in 1 .. Len(pairs), NEW j \in 1 .. Len(pairs[k].inner),
         AtColour(o, k, j - 1)
  PROVE  LET q == pairs[k].inner[j]
         IN /\ CurrentKey = q.key /\ q \in ScalarPairs
            /\ CurrentValue.number = q.value.number
            /\ ValidColour <=>
                 ColourFits(q) /\ q.key \notin KeysUpto(pairs[k].inner, j - 1)
<1> DEFINE p == pairs[k]
           q == p.inner[j]
           i == o[k - 1]
           A == KeysUpto(pairs, k - 1)
           B == KeysUpto(p.inner, j - 1)
<1>1. Len(tokens) \in Nat
  BY LenProperties
<1>2. /\ ObjectAt(tokens, i, p) /\ p.inner \in Seq(ScalarPairs)
      /\ Len(p.inner) \in Nat /\ i \in Nat
  BY <1>1, ObjectLayout DEF AtColour
<1>3. index = i + 2 + 2 * (j - 1) /\ seen = A \cup B
  BY DEF AtColour
<1>4. ScalarAt(tokens, i + 2 * j, q)
  BY <1>2 DEF ObjectAt
<1>5. q \in ScalarPairs
  BY <1>2, LenProperties
<1>6. index = i + 2 * j
  <2>1. i \in Nat /\ j \in Int
    BY <1>2
  <2> HIDE DEF i
  <2> QED
    BY <1>3, <2>1
<1>7. A \cap Colours = {}
  BY ReadKeysKnown DEF AtColour
<1> HIDE DEF p, i, q, A, B
<1>8. /\ CurrentKey = q.key /\ CurrentValue.number = q.value.number
      /\ Uint8(CurrentValue) <=> \E n \in 0 .. MaxUint8 : q.value = Number(n)
  BY <1>4, <1>5, <1>6, ScalarTurn
<1>9. ValidColour <=> ColourFits(q) /\ q.key \notin B
  BY <1>3, <1>7, <1>8 DEF ValidColour, NotSeen, ColourFits
<1> QED
  BY <1>5, <1>8, <1>9 DEF q, B, p

\* A colour that is taken.
LEMMA ColourUnderstood ==
  ASSUME pairs \in Seq(WholePairs), tokens \in Seq(TokenSet),
         NEW o, Layout(tokens, o, pairs), request \in Fields,
         NEW k \in 1 .. Len(pairs), NEW j \in 1 .. Len(pairs[k].inner),
         AtColour(o, k, j - 1), ValidColour,
         request' = [request EXCEPT ![CurrentKey] = CurrentValue.number],
         seen' = seen \cup {CurrentKey}, index' = index + 2,
         UNCHANGED <<at, object, pairs>>
  PROVE  AtColour(o, k, j)'
<1> DEFINE inner == pairs[k].inner
           q == inner[j]
           c == q.key
           n == q.value.number
           A == KeysUpto(pairs, k - 1)
           B == KeysUpto(inner, j - 1)
<1>1. /\ CurrentKey = c /\ CurrentValue.number = n
      /\ ColourFits(q) /\ c \notin B
  BY ColourFacts
<1>2. c \in {"red", "green", "blue"}
  BY <1>1 DEF ColourFits, Colours
<1>3. /\ at = "colour" /\ object = o[k - 1] + 1
      /\ pairs[k] \in ObjectPairs /\ pairs[k].key = "parameters"
      /\ index = o[k - 1] + 2 + 2 * (j - 1)
      /\ Read(request, pairs, k - 1) /\ "parameters" \notin A
      /\ seen = A \cup B /\ Distinct(inner, j - 1)
      /\ \A i \in 1 .. j - 1 :
           ColourFits(inner[i]) /\ request[inner[i].key] = inner[i].value.number
  BY DEF AtColour
<1>4. Len(tokens) \in Nat
  BY LenProperties
<1>5. Len(inner) \in Nat /\ o[k - 1] \in Nat
  BY <1>3, <1>4, ObjectLayout
<1>6. j \in Nat /\ j >= 1 /\ j \in 0 .. Len(inner)
  BY <1>5
<1>7. KeysUpto(inner, j) = B \cup {c}
  BY <1>6, KeysOn
<1> HIDE DEF inner
<1>8. Distinct(inner, j)
  BY <1>1, <1>3, <1>6, DistinctOn
<1> HIDE DEF c, n, A, B
<1>9. request' = [request EXCEPT ![c] = n]
  BY <1>1
<1>10. /\ request'[c] = n
       /\ \A f \in DOMAIN request : f # c => request'[f] = request[f]
       /\ DOMAIN request = {"type", "command_id", "test_uuid", "test_type",
                            "rgb_colour_present", "red", "green", "blue"}
  BY <1>2, <1>9 DEF Fields
<1>11. Read(request', pairs, k - 1)
  <2>1. \A i \in 1 .. k - 1 : pairs[i].key # "parameters"
    BY <1>3 DEF A, KeysUpto
  <2>2. /\ request'.type = request.type
        /\ request'.command_id = request.command_id
        /\ request'.test_uuid = request.test_uuid
        /\ request'.test_type = request.test_type
    BY <1>2, <1>10
  <2>3. ASSUME NEW i \in 1 .. k - 1
        PROVE  ReadFits(pairs[i]) /\ FieldMeans(request', pairs[i])
    <3>1. ReadFits(pairs[i]) /\ FieldMeans(request, pairs[i])
      BY <1>3 DEF Read
    <3>2. pairs[i].key # "parameters"
      BY <2>1
    <3> QED
      BY <2>2, <3>1, <3>2 DEF FieldMeans
  <2>4. Distinct(pairs, k - 1)
    BY <1>3 DEF Read
  <2> QED
    BY <2>3, <2>4 DEF Read
<1>12. ASSUME NEW i \in 1 .. j
       PROVE  ColourFits(inner[i]) /\ request'[inner[i].key] = inner[i].value.number
  <2>1. CASE i = j
    BY <1>1, <1>10, <2>1 DEF c, n
  <2>2. CASE i # j
    <3>1. i \in 1 .. j - 1
      BY <1>6, <2>2
    <3>2. inner[i].key # c /\ inner[i].key \in {"red", "green", "blue"}
      BY <1>1, <1>3, <3>1 DEF B, KeysUpto, ColourFits, Colours
    <3> QED
      BY <1>3, <1>10, <3>1, <3>2
  <2> QED
    BY <2>1, <2>2
<1>13. index' = o[k - 1] + 2 + 2 * j
  <2> DEFINE x == o[k - 1]
  <2>1. x \in Nat /\ index' = (x + 2 + 2 * (j - 1)) + 2
    BY <1>3, <1>5
  <2> HIDE DEF x
  <2>2. 2 * (j - 1) = 2 * j - 2 /\ 2 * j \in Int
    BY <1>6
  <2> DEFINE y == 2 * j
  <2>3. y \in Int /\ index' = (x + 2 + (y - 2)) + 2
    BY <2>1, <2>2
  <2> HIDE DEF y
  <2>4. index' = x + 2 + y
    BY <2>1, <2>3
  <2> QED
    BY <2>4 DEF x, y
<1>14. seen' = A \cup KeysUpto(inner, j)
  BY <1>1, <1>3, <1>7
<1> QED
  BY <1>3, <1>6, <1>8, <1>11, <1>12, <1>13, <1>14 DEF AtColour, inner, A

\* A colour that is refused is in no request.
LEMMA RefusedColour ==
  ASSUME pairs \in Seq(WholePairs), tokens \in Seq(TokenSet),
         NEW o, Layout(tokens, o, pairs),
         NEW k \in 1 .. Len(pairs), NEW j \in 1 .. Len(pairs[k].inner),
         AtColour(o, k, j - 1), ~ValidColour
  PROVE  ~IsRequest(pairs)
<1> SUFFICES ASSUME IsRequest(pairs) PROVE FALSE
  OBVIOUS
<1> DEFINE p == pairs[k]
           inner == p.inner
           q == inner[j]
<1>1. p.key = "parameters" /\ p \in ObjectPairs
  BY DEF AtColour
<1>2. ScalarFits(p)
  BY RequestKeys
<1>3. /\ EachOnce(inner, Colours)
      /\ \A i \in DOMAIN inner : \E n \in 0 .. MaxUint8 : inner[i].value = Number(n)
  BY <1>1, <1>2 DEF ScalarFits
<1>4. inner \in Seq(ScalarPairs)
  BY <1>1 DEF ObjectPairs
<1>5. inner \in Seq(WholePairs) /\ Len(inner) \in Nat
  BY <1>4, ScalarsAreWhole
<1>6. DOMAIN inner = 1 .. Len(inner)
  BY <1>5, WholeList
<1> HIDE DEF inner
<1>7. Distinct(inner, Len(inner))
  BY <1>3, <1>5, <1>6, KeysCounted DEF EachOnce
<1>8. q.key \notin KeysUpto(inner, j - 1)
  <2>1. j \in 1 .. Len(inner)
    BY DEF inner
  <2> QED
    BY <1>5, <1>7, <2>1, DistinctBefore
<1>9. ColourFits(q)
  <2>1. j \in DOMAIN inner
    BY <1>6 DEF inner
  <2> QED
    BY <1>3, <2>1 DEF ColourFits, EachOnce, Keys
<1> QED
  BY <1>8, <1>9, ColourFacts DEF inner

\* The parameters end with all three colours.
LEMMA ColoursUnderstood ==
  ASSUME pairs \in Seq(WholePairs), tokens \in Seq(TokenSet),
         NEW o, Layout(tokens, o, pairs), request \in Fields,
         NEW k \in 1 .. Len(pairs), AtColour(o, k, Len(pairs[k].inner)),
         Colours \subseteq seen,
         request' = [request EXCEPT !.rgb_colour_present = TRUE],
         seen' = seen \cup {"parameters"}, at' = "pairs",
         UNCHANGED <<index, pairs>>
  PROVE  AtPair(o, k)'
<1> DEFINE p == pairs[k]
           inner == p.inner
           l == Len(inner)
           A == KeysUpto(pairs, k - 1)
           B == KeysUpto(inner, l)
<1>1. /\ p \in ObjectPairs /\ p.key = "parameters"
      /\ index = o[k - 1] + 2 + 2 * l
      /\ Read(request, pairs, k - 1) /\ "parameters" \notin A
      /\ seen = A \cup B /\ Distinct(inner, l)
      /\ \A i \in 1 .. l :
           ColourFits(inner[i]) /\ request[inner[i].key] = inner[i].value.number
  BY DEF AtColour
<1>2. Len(tokens) \in Nat /\ Len(pairs) \in Nat
  BY LenProperties, WholeList
<1>3. /\ inner \in Seq(ScalarPairs) /\ l \in Nat /\ o[k] = o[k - 1] + 2 + 2 * l
  BY <1>1, <1>2, ObjectLayout
<1>4. DOMAIN inner = 1 .. l
  BY <1>3, LenProperties
<1>5. A \cap Colours = {} /\ A \subseteq KnownKeys
  BY <1>1, ReadKeysKnown
<1>6. B = Colours
  <2>1. B \subseteq Colours
    BY <1>1 DEF KeysUpto, ColourFits
  <2> HIDE DEF A, B
  <2> QED
    BY <1>1, <1>5, <2>1
<1>7. EachOnce(inner, Colours)
  <2> HIDE DEF inner
  <2>1. Keys(inner) = B /\ (l = Cardinality(Keys(inner)) <=> Distinct(inner, l))
    BY <1>3, <1>4, KeysCounted
  <2> QED
    BY <1>1, <1>6, <2>1 DEF EachOnce
<1>8. ReadFits(p)
  <2>1. p.value = Open
    BY <1>1 DEF ObjectPairs
  <2>2. ScalarFits(p)
    BY <1>1, <1>4, <1>7, <2>1 DEF ScalarFits, ColourFits
  <2> QED
    BY <1>1, <2>2 DEF ReadFits, KnownKeys
<1>9. /\ request'.rgb_colour_present = TRUE
      /\ request'.type = request.type
      /\ request'.command_id = request.command_id
      /\ request'.test_uuid = request.test_uuid
      /\ request'.test_type = request.test_type
      /\ \A c \in Colours : request'[c] = request[c]
  BY DEF Fields, Colours
<1> HIDE DEF A, B, l
<1>10. FieldMeans(request', p)
  <2>1. ASSUME NEW i \in 1 .. l
        PROVE  request'[inner[i].key] = inner[i].value.number
    BY <1>1, <1>9 DEF ColourFits
  <2> QED
    BY <1>1, <1>9, <2>1 DEF FieldMeans, l
<1> HIDE DEF inner
<1>11. ASSUME NEW i \in 1 .. k - 1 PROVE Alike(request, request', pairs[i])
  <2>1. pairs[i].key # "parameters"
    BY <1>1 DEF A, KeysUpto
  <2> QED
    BY <1>9, <2>1 DEF Alike
<1>12. Read(request', pairs, k)
  BY <1>1, <1>8, <1>10, <1>11, ReadOn DEF A
<1>13. seen' = SeenWith(KeysUpto(pairs, k))
  <2>1. k \in Nat /\ k >= 1
    BY <1>2
  <2>2. KeysUpto(pairs, k) = A \cup {"parameters"}
    BY <1>1, <2>1, KeysOn DEF A
  <2> QED
    BY <1>1, <1>6, <2>2 DEF SeenWith
<1>14. index' = o[k] /\ k \in 0 .. Len(pairs)
  BY <1>1, <1>2, <1>3
<1> QED
  BY <1>12, <1>13, <1>14 DEF AtPair

\* Parameters that lack a colour are in no request.
LEMMA RefusedColours ==
  ASSUME pairs \in Seq(WholePairs), tokens \in Seq(TokenSet),
         NEW o, Layout(tokens, o, pairs),
         NEW k \in 1 .. Len(pairs), AtColour(o, k, Len(pairs[k].inner)),
         ~(Colours \subseteq seen /\ index <= Len(tokens) + 1)
  PROVE  ~IsRequest(pairs)
<1> SUFFICES ASSUME IsRequest(pairs) PROVE FALSE
  OBVIOUS
<1> DEFINE p == pairs[k]
           inner == p.inner
           l == Len(inner)
<1>1. /\ p \in ObjectPairs /\ p.key = "parameters"
      /\ index = o[k - 1] + 2 + 2 * l
      /\ seen = KeysUpto(pairs, k - 1) \cup KeysUpto(inner, l)
  BY DEF AtColour
<1>2. Len(tokens) \in Nat
  BY LenProperties
<1>3. /\ inner \in Seq(ScalarPairs) /\ l \in Nat /\ o[k] = o[k - 1] + 2 + 2 * l
      /\ o[k] <= Len(tokens) + 1
  BY <1>1, <1>2, ObjectLayout
<1>4. DOMAIN inner = 1 .. l
  BY <1>3, LenProperties
<1>5. ScalarFits(p)
  BY RequestKeys
<1>6. EachOnce(inner, Colours)
  BY <1>1, <1>5 DEF ScalarFits
<1> HIDE DEF inner
<1>7. KeysUpto(inner, l) = Colours
  BY <1>3, <1>4, <1>6, KeysCounted DEF EachOnce
<1> QED
  BY <1>1, <1>3, <1>7
-----------------------------------------------------------------------------
(***************************************************************************)
(* The checks behind the loop.                                             *)
(***************************************************************************)
\* The keys that every request has, and how many there are in each shape.
Common == {"protocol_version", "type", "command_id"}

LEMMA ShapeSizes ==
  /\ Cardinality(Common) = 3
  /\ Cardinality(Common \cup {"test_uuid"}) = 4
  /\ Cardinality(Common \cup {"test_type"}) = 4
  /\ Cardinality(Common \cup {"test_type", "parameters"}) = 5
<1> DEFINE a == {} \cup {"protocol_version"}
           b == a \cup {"type"}
           c == b \cup {"command_id"}
<1>1. IsFiniteSet({}) /\ Cardinality({}) = 0
  BY FS_EmptySet
<1>2. IsFiniteSet(a) /\ Cardinality(a) = 1
  BY <1>1, FS_AddElement
<1>3. "type" \notin a
  OBVIOUS
<1>4. "command_id" \notin b /\ c = Common
  BY DEF Common
<1>5. /\ "test_uuid" \notin Common /\ "test_type" \notin Common
      /\ "parameters" \notin Common \cup {"test_type"}
      /\ (Common \cup {"test_type"}) \cup {"parameters"}
           = Common \cup {"test_type", "parameters"}
  BY DEF Common
<1> HIDE DEF a
<1>6. IsFiniteSet(b) /\ Cardinality(b) = 2
  BY <1>2, <1>3, FS_AddElement
<1> HIDE DEF b
<1>7. IsFiniteSet(Common) /\ Cardinality(Common) = 3
  BY <1>4, <1>6, FS_AddElement
<1> HIDE DEF c
<1>8. Cardinality(Common \cup {"test_uuid"}) = 4
  BY <1>5, <1>7, FS_AddElement
<1> DEFINE d == Common \cup {"test_type"}
<1>9. IsFiniteSet(d) /\ Cardinality(d) = 4
  BY <1>5, <1>7, FS_AddElement
<1> HIDE DEF d
<1>10. "parameters" \notin d /\ d \cup {"parameters"} = Common \cup {"test_type", "parameters"}
  BY <1>5 DEF d
<1>11. Cardinality(d \cup {"parameters"}) = 5
  BY <1>9, <1>10, FS_AddElement
<1> QED
  BY <1>7, <1>8, <1>9, <1>10, <1>11 DEF d

\* The counts of the tokens are those of the requests.
LEMMA RefusedCount ==
  ASSUME NEW ps \in Seq(WholePairs), NEW m \in Nat,
         NEW o, Offsets(o, ps), o[Len(ps)] = m + 1, IsRequest(ps)
  PROVE  /\ CountFits(m)
         /\ TextAt(ps, "type") = "START_TEST" => m = 9
         /\ TextAt(ps, "type") = "RUN_COMPONENT_TEST" =>
              m = IF "parameters" \in Keys(ps) THEN 17 ELSE 9
         /\ TextAt(ps, "type") \notin {"START_TEST", "RUN_COMPONENT_TEST"} =>
              m = 7
<1> DEFINE n == Len(ps)
           type == TextAt(ps, "type")
           far == "parameters" \in Keys(ps)
<1>1. n \in Nat /\ DOMAIN ps = 1 .. n
  BY WholeList
<1>2. /\ Distinct(ps, n) /\ Keys(ps) = Shape(ps) /\ n = Cardinality(Shape(ps))
      /\ \A i \in 1 .. n : ps[i].key \in KnownKeys /\ ScalarFits(ps[i])
  BY RequestKeys
<1>3. Keys(ps) = KeysUpto(ps, n)
  BY <1>1, KeysCounted
<1>4. m + 1 = IF far THEN 8 + 2 * n ELSE 2 + 2 * n
  <2>1. n \in 0 .. n
    BY <1>1
  <2> QED
    BY <1>2, <1>3, <2>1, FittingOffsets
<1>5. CASE type = "START_TEST"
  <2>1. Shape(ps) = Common \cup {"test_uuid"}
    BY <1>5 DEF Shape, Common
  <2>2. n = 4 /\ ~far
    BY <1>2, <2>1, ShapeSizes DEF Common
  <2>3. m = 9
    BY <1>4, <2>2
  <2> QED
    BY <1>5, <2>3 DEF CountFits
<1>6. CASE type = "RUN_COMPONENT_TEST"
  <2>1. Shape(ps) = Common \cup {"test_type", "parameters"} \/ Shape(ps) = Common \cup {"test_type"}
    BY <1>6 DEF Shape, Common
  <2>2. CASE Shape(ps) = Common \cup {"test_type", "parameters"}
    <3>1. n = 5 /\ far
      BY <1>2, <2>2, ShapeSizes DEF Common
    <3>2. m = 17
      BY <1>4, <3>1
    <3> QED
      BY <1>6, <3>1, <3>2 DEF CountFits
  <2>3. CASE Shape(ps) = Common \cup {"test_type"}
    <3>1. n = 4 /\ ~far
      BY <1>2, <2>3, ShapeSizes DEF Common
    <3>2. m = 9
      BY <1>4, <3>1
    <3> QED
      BY <1>6, <3>1, <3>2 DEF CountFits
  <2> QED
    BY <2>1, <2>2, <2>3
<1>7. CASE type \notin {"START_TEST", "RUN_COMPONENT_TEST"}
  <2>1. Shape(ps) = Common
    BY <1>7 DEF Shape, Common
  <2>2. n = 3 /\ ~far
    BY <1>2, <2>1, ShapeSizes DEF Common
  <2>3. m = 7
    BY <1>4, <2>2
  <2> QED
    BY <1>7, <2>3 DEF CountFits
<1> QED
  BY <1>5, <1>6, <1>7

LEMMA FieldRead ==
  ASSUME NEW r, NEW ps \in Seq(WholePairs), Read(r, ps, Len(ps)),
         NEW x \in Keys(ps)
  PROVE  /\ At(ps, x).key = x /\ At(ps, x) \in WholePairs
         /\ ReadFits(At(ps, x)) /\ FieldMeans(r, At(ps, x))
         /\ \A i \in 1 .. Len(ps) : ps[i].key = x => ps[i] = At(ps, x)
<1>1. /\ DOMAIN ps = 1 .. Len(ps)
      /\ \A i \in 1 .. Len(ps) : ps[i] \in WholePairs
  BY WholeList
<1>2. Distinct(ps, Len(ps))
  BY DEF Read
<1>3. \A i \in 1 .. Len(ps) : ps[i].key = x => At(ps, x) = ps[i]
  BY <1>2, KeyFound
<1>4. PICK i \in 1 .. Len(ps) : ps[i].key = x
  BY <1>1 DEF Keys
<1>5. ReadFits(ps[i]) /\ FieldMeans(r, ps[i])
  BY DEF Read
<1> QED
  BY <1>1, <1>3, <1>4, <1>5

\* What the fields of the request are when all pairs have been read.
LEMMA FieldsRead ==
  ASSUME NEW r, NEW ps \in Seq(WholePairs), Read(r, ps, Len(ps))
  PROVE  /\ "type" \in Keys(ps) => r.type = Supported(TextAt(ps, "type"))
         /\ "command_id" \in Keys(ps) =>
              r.command_id = NumberAt(ps, "command_id")
         /\ "test_uuid" \in Keys(ps) => r.test_uuid = TextAt(ps, "test_uuid")
         /\ "test_type" \in Keys(ps) =>
              /\ r.test_type = TextAt(ps, "test_type")
              /\ (\E i \in DOMAIN ps : ps[i].key = "test_type"
                                       /\ ps[i].value.text = "rgb_led")
                   <=> r.test_type = "rgb_led"
         /\ "parameters" \in Keys(ps) =>
              \A c \in Colours : r[c] = NumberAt(At(ps, "parameters").inner, c)
<1>1. DOMAIN ps = 1 .. Len(ps)
  BY WholeList
<1>2. ASSUME "type" \in Keys(ps)
      PROVE  r.type = Supported(TextAt(ps, "type"))
  <2> DEFINE p == At(ps, "type")
  <2>1. p.key = "type" /\ FieldMeans(r, p)
    BY <1>2, FieldRead
  <2> HIDE DEF p
  <2>2. r.type = Supported(p.value.text)
    BY <2>1 DEF FieldMeans
  <2> QED
    BY <2>2 DEF p, TextAt
<1>3. ASSUME "command_id" \in Keys(ps)
      PROVE  r.command_id = NumberAt(ps, "command_id")
  <2> DEFINE p == At(ps, "command_id")
  <2>1. p.key = "command_id" /\ FieldMeans(r, p)
    BY <1>3, FieldRead
  <2> HIDE DEF p
  <2>2. r.command_id = p.value.number
    BY <2>1 DEF FieldMeans
  <2> QED
    BY <2>2 DEF p, NumberAt
<1>4. ASSUME "test_uuid" \in Keys(ps)
      PROVE  r.test_uuid = TextAt(ps, "test_uuid")
  <2> DEFINE p == At(ps, "test_uuid")
  <2>1. p.key = "test_uuid" /\ FieldMeans(r, p)
    BY <1>4, FieldRead
  <2> HIDE DEF p
  <2>2. r.test_uuid = p.value.text
    BY <2>1 DEF FieldMeans
  <2> QED
    BY <2>2 DEF p, TextAt
<1>5. ASSUME "test_type" \in Keys(ps)
      PROVE  /\ r.test_type = TextAt(ps, "test_type")
             /\ (\E i \in DOMAIN ps : ps[i].key = "test_type"
                                      /\ ps[i].value.text = "rgb_led")
                  <=> r.test_type = "rgb_led"
  <2> DEFINE p == At(ps, "test_type")
  <2>1. /\ p.key = "test_type" /\ FieldMeans(r, p)
        /\ \A i \in 1 .. Len(ps) : ps[i].key = "test_type" => ps[i] = p
    BY <1>5, FieldRead
  <2>2. r.test_type = p.value.text
    BY <2>1 DEF FieldMeans
  <2>3. \E i \in 1 .. Len(ps) : ps[i].key = "test_type"
    BY <1>1, <1>5 DEF Keys
  <2> HIDE DEF p
  <2> QED
    BY <1>1, <2>1, <2>2, <2>3 DEF TextAt, p
<1>6. ASSUME "parameters" \in Keys(ps), NEW c \in Colours
      PROVE  r[c] = NumberAt(At(ps, "parameters").inner, c)
  <2> DEFINE p == At(ps, "parameters")
             inner == p.inner
  <2>1. /\ p.key = "parameters" /\ p \in WholePairs /\ ReadFits(p)
        /\ FieldMeans(r, p)
    BY <1>6, FieldRead
  <2>2. p.value = Open /\ EachOnce(inner, Colours)
    BY <2>1 DEF ReadFits, ScalarFits
  <2>3. inner \in Seq(ScalarPairs)
    BY <2>1, <2>2, OpenIsNoValue, PairShape
  <2>4. inner \in Seq(WholePairs) /\ Len(inner) \in Nat
    BY <2>3, ScalarsAreWhole
  <2>5. \A j \in 1 .. Len(inner) : r[inner[j].key] = inner[j].value.number
    BY <2>1 DEF FieldMeans
  <2> HIDE DEF p, inner
  <2>6. DOMAIN inner = 1 .. Len(inner)
    BY <2>4, WholeList
  <2>7. Distinct(inner, Len(inner))
    BY <2>2, <2>4, <2>6, KeysCounted DEF EachOnce
  <2>8. PICK j \in 1 .. Len(inner) : inner[j].key = c
    BY <2>2, <2>6 DEF EachOnce, Keys
  <2>9. At(inner, c) = inner[j]
    BY <2>4, <2>7, <2>8, KeyFound
  <2>10. r[c] = NumberAt(inner, c)
    BY <2>5, <2>8, <2>9 DEF NumberAt
  <2> QED
    BY <2>10 DEF inner, p
<1> QED
  BY <1>2, <1>3, <1>4, <1>5, <1>6

LEMMA AllRead ==
  ASSUME pairs \in Seq(WholePairs), NEW o, AtPair(o, Len(pairs))
  PROVE  /\ Read(request, pairs, Len(pairs))
         /\ Keys(pairs) \subseteq KnownKeys
         /\ Len(pairs) = Cardinality(Keys(pairs))
         /\ \A x \in KnownKeys : x \in seen <=> x \in Keys(pairs)
<1>1. /\ Len(pairs) \in Nat /\ DOMAIN pairs = 1 .. Len(pairs)
  BY WholeList
<1>2. /\ Read(request, pairs, Len(pairs))
      /\ seen = SeenWith(KeysUpto(pairs, Len(pairs)))
  BY DEF AtPair
<1>3. Distinct(pairs, Len(pairs))
  BY <1>2 DEF Read
<1>4. Keys(pairs) = KeysUpto(pairs, Len(pairs))
      /\ Len(pairs) = Cardinality(Keys(pairs))
  BY <1>1, <1>3, KeysCounted
<1> QED
  BY <1>2, <1>4, SeenKnown, ReadKeysKnown

\* The checks behind the loop leave only requests ...
LEMMA FitIsRequest ==
  ASSUME pairs \in Seq(WholePairs), NEW o, AtPair(o, Len(pairs)), FieldsFit
  PROVE  IsRequest(pairs) /\ request.type = TextAt(pairs, "type")
<1> DEFINE K == Keys(pairs)
<1>1. /\ Read(request, pairs, Len(pairs)) /\ K \subseteq KnownKeys
      /\ Len(pairs) = Cardinality(K)
      /\ \A x \in KnownKeys : x \in seen <=> x \in K
  BY AllRead
<1>2. {"protocol_version", "type", "command_id"} \subseteq K
  BY <1>1 DEF FieldsFit, KnownKeys
<1>3. request.type \in RequestTypes
  BY DEF FieldsFit, RequestTypes
<1>4. request.type = TextAt(pairs, "type")
  <2>1. request.type = Supported(TextAt(pairs, "type"))
    BY <1>1, <1>2, FieldsRead
  <2> QED
    BY <1>3, <2>1 DEF Supported, RequestTypes
<1>5. K = Shape(pairs)
  <2>1. CASE request.type = "START_TEST"
    <3>1. "test_uuid" \in K /\ "test_type" \notin K /\ "parameters" \notin K
      BY <1>1, <2>1 DEF FieldsFit, KnownKeys
    <3>2. K = {"protocol_version", "type", "command_id", "test_uuid"}
      BY <1>1, <1>2, <3>1 DEF KnownKeys
    <3>3. Shape(pairs) = {"protocol_version", "type", "command_id", "test_uuid"}
      BY <1>4, <2>1 DEF Shape
    <3> QED
      BY <3>2, <3>3
  <2>2. CASE request.type = "RUN_COMPONENT_TEST"
    <3>1. /\ "test_type" \in K /\ "test_uuid" \notin K
          /\ "parameters" \in K <=> request.test_type = "rgb_led"
      BY <1>1, <2>2 DEF FieldsFit, KnownKeys
    <3>2. (\E i \in DOMAIN pairs : pairs[i].key = "test_type"
                                   /\ pairs[i].value.text = "rgb_led")
            <=> request.test_type = "rgb_led"
      BY <1>1, <3>1, FieldsRead
    <3>3. CASE request.test_type = "rgb_led"
      <4>1. K = {"protocol_version", "type", "command_id", "test_type",
                 "parameters"}
        BY <1>1, <1>2, <3>1, <3>3 DEF KnownKeys
      <4>2. Shape(pairs) = {"protocol_version", "type", "command_id",
                            "test_type", "parameters"}
        BY <1>4, <2>2, <3>2, <3>3 DEF Shape
      <4> QED
        BY <4>1, <4>2
    <3>4. CASE request.test_type # "rgb_led"
      <4>1. K = {"protocol_version", "type", "command_id", "test_type"}
        BY <1>1, <1>2, <3>1, <3>4 DEF KnownKeys
      <4>2. Shape(pairs) = {"protocol_version", "type", "command_id",
                            "test_type"}
        BY <1>4, <2>2, <3>2, <3>4 DEF Shape
      <4> QED
        BY <4>1, <4>2
    <3> QED
      BY <3>3, <3>4
  <2>3. CASE request.type = "STOP_COMPONENT_TEST"
    <3>1. /\ "test_uuid" \notin K /\ "test_type" \notin K
          /\ "parameters" \notin K
      BY <1>1, <2>3 DEF FieldsFit, KnownKeys
    <3>2. K = {"protocol_version", "type", "command_id"}
      BY <1>1, <1>2, <3>1 DEF KnownKeys
    <3>3. Shape(pairs) = {"protocol_version", "type", "command_id"}
      BY <1>4, <2>3 DEF Shape
    <3> QED
      BY <3>2, <3>3
  <2> QED
    BY <1>3, <2>1, <2>2, <2>3 DEF RequestTypes
<1>6. ASSUME NEW i \in DOMAIN pairs PROVE ScalarFits(pairs[i])
  <2>1. i \in 1 .. Len(pairs)
    BY WholeList
  <2>2. ReadFits(pairs[i])
    BY <1>1, <2>1 DEF Read
  <2>3. CASE pairs[i].key # "type"
    BY <2>2, <2>3 DEF ReadFits
  <2>4. CASE pairs[i].key = "type"
    <3>1. pairs[i] = At(pairs, "type")
      BY <1>1, <1>2, <2>1, <2>4, FieldRead
    <3>2. pairs[i].value.text \in RequestTypes
      BY <1>3, <1>4, <3>1 DEF TextAt
    <3>3. pairs[i].value.kind = "text"
      BY <2>2, <2>4 DEF ReadFits
    <3> QED
      BY <2>4, <3>2, <3>3 DEF ScalarFits
  <2> QED
    BY <2>3, <2>4
<1> QED
  BY <1>1, <1>2, <1>4, <1>5, <1>6 DEF IsRequest, EachOnce

\* ... and let every request through.
LEMMA RequestFits ==
  ASSUME pairs \in Seq(WholePairs), Len(tokens) \in Nat,
         NEW o, Layout(tokens, o, pairs), AtPair(o, Len(pairs)),
         IsRequest(pairs)
  PROVE  FieldsFit
<1> DEFINE K == Keys(pairs)
           type == TextAt(pairs, "type")
           m == Len(tokens)
<1>1. /\ Read(request, pairs, Len(pairs)) /\ K \subseteq KnownKeys
      /\ \A x \in KnownKeys : x \in seen <=> x \in K
  BY AllRead
<1>2. K = Shape(pairs) /\ "type" \in K
  BY DEF IsRequest, EachOnce
<1>3. /\ type = "START_TEST" => m = 9
      /\ type = "RUN_COMPONENT_TEST" => m = IF "parameters" \in K THEN 17 ELSE 9
      /\ type \notin {"START_TEST", "RUN_COMPONENT_TEST"} => m = 7
  <2>1. Offsets(o, pairs) /\ o[Len(pairs)] = m + 1
    BY DEF Layout
  <2> HIDE DEF m
  <2>2. m \in Nat
    BY DEF m
  <2> QED
    BY <2>1, <2>2, RefusedCount
<1> HIDE DEF m
<1>4. type \in RequestTypes
  <2> DEFINE p == At(pairs, "type")
  <2>1. PICK i \in 1 .. Len(pairs) : pairs[i].key = "type"
    BY <1>2, WholeList DEF Keys
  <2>2. pairs[i] = p /\ p.key = "type"
    BY <1>1, <1>2, <2>1, FieldRead
  <2>3. ScalarFits(p)
    BY <2>2, RequestKeys
  <2> HIDE DEF p
  <2>4. p.value.text \in RequestTypes
    BY <2>2, <2>3 DEF ScalarFits
  <2> QED
    BY <2>4 DEF TextAt, p
<1>5. request.type = type
  BY <1>1, <1>2, <1>4, FieldsRead DEF Supported
<1> HIDE DEF type
<1>6. /\ "test_type" \in K =>
           ((\E i \in DOMAIN pairs : pairs[i].key = "test_type"
                                     /\ pairs[i].value.text = "rgb_led")
              <=> request.test_type = "rgb_led")
  BY <1>1, FieldsRead
<1>7. {"protocol_version", "type", "command_id"} \subseteq seen
  <2>1. {"protocol_version", "type", "command_id"} \subseteq K
    BY <1>2 DEF Shape
  <2> QED
    BY <1>1, <2>1 DEF KnownKeys
<1>8. CASE type = "START_TEST"
  <2>1. K = {"protocol_version", "type", "command_id", "test_uuid"}
    BY <1>2, <1>8 DEF Shape, type
  <2>2. /\ "test_uuid" \in seen /\ "test_type" \notin seen
        /\ "parameters" \notin seen
    BY <1>1, <2>1 DEF KnownKeys
  <2>3. m = 9 /\ request.type = "START_TEST"
    BY <1>3, <1>5, <1>8
  <2> QED
    BY <1>7, <2>2, <2>3 DEF FieldsFit, m
<1>9. CASE type = "RUN_COMPONENT_TEST"
  <2> DEFINE led == \E i \in DOMAIN pairs : pairs[i].key = "test_type"
                                           /\ pairs[i].value.text = "rgb_led"
  <2>1. K = {"protocol_version", "type", "command_id"} \cup
              IF led THEN {"test_type", "parameters"} ELSE {"test_type"}
    BY <1>2, <1>9 DEF Shape, type
  <2> HIDE DEF led
  <2>2. "test_type" \in K /\ "test_uuid" \notin K /\ ("parameters" \in K <=> led)
    BY <2>1
  <2>3. led <=> request.test_type = "rgb_led"
    BY <1>6, <2>2 DEF led
  <2>4. /\ "test_type" \in seen /\ "test_uuid" \notin seen
        /\ "parameters" \in seen <=> request.test_type = "rgb_led"
    BY <1>1, <2>2, <2>3 DEF KnownKeys
  <2>5. m = (IF request.test_type = "rgb_led" THEN 17 ELSE 9)
    BY <1>3, <1>9, <2>2, <2>3
  <2>6. request.type = "RUN_COMPONENT_TEST"
    BY <1>5, <1>9
  <2>7. CASE request.test_type = "rgb_led"
    BY <1>7, <2>4, <2>5, <2>6, <2>7 DEF FieldsFit, m
  <2>8. CASE request.test_type # "rgb_led"
    BY <1>7, <2>4, <2>5, <2>6, <2>8 DEF FieldsFit, m
  <2> QED
    BY <2>7, <2>8
<1>10. CASE type = "STOP_COMPONENT_TEST"
  <2>1. K = {"protocol_version", "type", "command_id"}
    BY <1>2, <1>10 DEF Shape, type
  <2>2. /\ "test_uuid" \notin seen /\ "test_type" \notin seen
        /\ "parameters" \notin seen
    BY <1>1, <2>1 DEF KnownKeys
  <2>3. m = 7 /\ request.type = "STOP_COMPONENT_TEST"
    BY <1>3, <1>5, <1>10
  <2> QED
    BY <1>7, <2>2, <2>3 DEF FieldsFit, m
<1> QED
  BY <1>4, <1>8, <1>9, <1>10 DEF RequestTypes

\* What was taken is what the request means.
LEMMA FitMeans ==
  ASSUME pairs \in Seq(WholePairs), Holds,
         NEW o, AtPair(o, Len(pairs)), FieldsFit
  PROVE  request = Meaning(pairs)
<1> DEFINE K == Keys(pairs)
           colour(c) == IF "parameters" \in K
                        THEN NumberAt(At(pairs, "parameters").inner, c) ELSE 0
<1>1. /\ Read(request, pairs, Len(pairs))
      /\ \A x \in KnownKeys : x \in seen <=> x \in K
  BY AllRead
<1>2. request \in Fields /\ at = "pairs"
  BY DEF Holds, AtPair
<1>3. request.type = TextAt(pairs, "type")
  BY FitIsRequest
<1>4. request.command_id = NumberAt(pairs, "command_id")
  <2>1. "command_id" \in K
    BY <1>1 DEF FieldsFit, KnownKeys
  <2> QED
    BY <1>1, <2>1, FieldsRead
<1>5. request.test_uuid = IF "test_uuid" \in K
                          THEN TextAt(pairs, "test_uuid") ELSE ""
  <2>1. "test_uuid" \in seen <=> "test_uuid" \in K
    BY <1>1 DEF KnownKeys
  <2> QED
    BY <1>1, <2>1, FieldsRead DEF Holds
<1>6. request.test_type = IF "test_type" \in K
                          THEN TextAt(pairs, "test_type") ELSE ""
  <2>1. "test_type" \in seen <=> "test_type" \in K
    BY <1>1 DEF KnownKeys
  <2> QED
    BY <1>1, <2>1, FieldsRead DEF Holds
<1>7. "parameters" \in seen <=> "parameters" \in K
  BY <1>1 DEF KnownKeys
<1>8. request.rgb_colour_present = ("parameters" \in K)
  <2>1. request.rgb_colour_present \in BOOLEAN
    BY <1>2 DEF Fields
  <2>2. CASE "parameters" \in seen
    <3>1. request.rgb_colour_present = TRUE
      BY <2>2 DEF Holds
    <3> QED
      BY <1>7, <2>2, <3>1
  <2>3. CASE "parameters" \notin seen
    <3>1. request.rgb_colour_present = FALSE
      BY <2>3 DEF Holds
    <3>2. ("parameters" \in K) = FALSE
      BY <1>7, <2>3
    <3> QED
      BY <3>1, <3>2
  <2> QED
    BY <2>2, <2>3
<1>9. \A c \in Colours : request[c] = colour(c)
  BY <1>1, <1>2, <1>7, FieldsRead DEF Holds
<1>10. /\ request.red = colour("red") /\ request.green = colour("green")
       /\ request.blue = colour("blue")
  BY <1>9 DEF Colours
<1> HIDE DEF K, colour
<1>11. request = [type |-> TextAt(pairs, "type"),
                  command_id |-> NumberAt(pairs, "command_id"),
                  test_uuid |-> IF "test_uuid" \in K
                                THEN TextAt(pairs, "test_uuid") ELSE "",
                  test_type |-> IF "test_type" \in K
                                THEN TextAt(pairs, "test_type") ELSE "",
                  rgb_colour_present |-> "parameters" \in K,
                  red |-> colour("red"), green |-> colour("green"),
                  blue |-> colour("blue")]
  BY <1>2, <1>3, <1>4, <1>5, <1>6, <1>8, <1>10 DEF Fields
<1> QED
  BY <1>11 DEF Meaning, K, colour

-----------------------------------------------------------------------------
(***************************************************************************)
(* The parser understands the request, step by step.                       *)
(***************************************************************************)
LEMMA UnderstandsInit == Init => Understands
<1>1. << >> \in Seq(WholePairs)
  OBVIOUS
<1> QED
  BY <1>1 DEF Init, Understands, Parsing

\* What a turn starts from.
LEMMA TurnStarts ==
  ASSUME Understands, cuts = 0, Parsing
  PROVE  /\ pairs \in Seq(WholePairs) /\ tokens \in Seq(TokenSet)
         /\ Len(tokens) \in Nat
         /\ \E o : Layout(tokens, o, pairs) /\ Progress(o)
BY LenProperties DEF Understands

LEMMA TurnEnds ==
  ASSUME Understands, cuts = 0, Parsing, UNCHANGED <<hostVars, tokens>>,
         NEW o, Layout(tokens, o, pairs), Progress(o)', Parsing'
  PROVE  Understands'
BY DEF Understands, Parsing, hostVars

\* An answer of false is right if the line is no request.
LEMMA RefusalUnderstood ==
  ASSUME Understands, Answer(FALSE), UNCHANGED hostVars,
         cuts = 0 => ~IsRequest(pairs)
  PROVE  Understands'
<1>1. cuts' = cuts /\ pairs' = pairs /\ at' = "done" /\ accepted' = FALSE
  BY DEF Answer, hostVars
<1>2. pairs \in Seq(WholePairs)
  BY DEF Understands
<1>3. IsRequest(pairs)' <=> IsRequest(pairs)
  BY <1>1
<1>4. cuts = 0 => Understood'
  BY <1>1, <1>3 DEF Understood
<1> QED
  BY <1>1, <1>2, <1>4 DEF Understands, Parsing

\* Nothing is claimed of a line with remains in it.
LEMMA CutUnderstood ==
  ASSUME Understands, cuts # 0, UNCHANGED hostVars
  PROVE  Understands'
BY DEF Understands, hostVars

LEMMA TokenizeUnderstood ==
  ASSUME Understands, Tokenize
  PROVE  Understands'
<1> DEFINE t == Jsmn(line)
<1>1. /\ at = "tokens" /\ UNCHANGED hostVars /\ tokens' = t.tokens
      /\ request' = InitialRequest /\ seen' = {}
      /\ pairs \in Seq(WholePairs)
  BY DEF Tokenize, Understands
<1>2. ASSUME cuts = 0
      PROVE  /\ ~JsmnFails(t) /\ t.tokens[1].type = "object"
             /\ t.tokens \in Seq(TokenSet) /\ Len(t.tokens) \in Nat
             /\ \E o : Layout(t.tokens, o, pairs)
  <2>1. line = Frame(pairs)
    BY <1>1, <1>2 DEF Understands
  <2>2. /\ ~JsmnFails(t) /\ t.tokens[1].type = "object"
        /\ Len(t.tokens) \in Nat /\ \E o : Layout(t.tokens, o, pairs)
    BY <1>1, <2>1, FrameScanned
  <2>3. line \in Seq(Lexemes)
    BY <1>1, <2>1, FrameWritten
  <2>4. t \in Scanners
    BY <2>3, InitialScannerType, ScanAllKeeps DEF Jsmn
  <2> HIDE DEF t
  <2>5. t.tokens \in Seq(TokenSet)
    BY <2>4, ScannerParts
  <2> QED
    BY <2>2, <2>5
<1> HIDE DEF t
<1>3. CASE cuts # 0
  BY <1>1, <1>3, CutUnderstood
<1>4. CASE cuts = 0 /\ Answer(FALSE)
              /\ (JsmnFails(t) \/ ~CountFits(Len(tokens'))
                    \/ tokens'[1].type # "object")
  <2>1. ~CountFits(Len(t.tokens))
    BY <1>1, <1>2, <1>4
  <2>2. PICK o : Layout(t.tokens, o, pairs)
    BY <1>2, <1>4
  <2> DEFINE m == Len(t.tokens)
  <2>3. m \in Nat /\ Offsets(o, pairs) /\ o[Len(pairs)] = m + 1
    BY <1>2, <1>4, <2>2 DEF Layout
  <2> HIDE DEF m
  <2>4. IsRequest(pairs) => CountFits(m)
    BY <1>1, <2>3, RefusedCount
  <2>5. ~IsRequest(pairs)
    BY <2>1, <2>4 DEF m
  <2> QED
    BY <1>1, <1>4, <2>5, RefusalUnderstood
<1>5. CASE cuts = 0 /\ index' = 2 /\ at' = "pairs"
  <2>1. PICK o : Layout(t.tokens, o, pairs)
    BY <1>2, <1>5
  <2>2. pairs' = pairs /\ cuts' = cuts /\ Parsing'
    BY <1>1, <1>5 DEF hostVars, Parsing
  <2>3. Layout(tokens, o, pairs)'
    BY <1>1, <2>1, <2>2
  <2>4. AtPair(o, 0)'
    <3>1. 0 \in 0 .. Len(pairs)
      BY <1>1, WholeList
    <3>2. o[0] = 2
      BY <2>1 DEF Layout, Offsets
    <3>3. Read(InitialRequest, pairs, 0)
      BY DEF Read, Distinct
    <3>4. SeenWith(KeysUpto(pairs, 0)) = {}
      <4>1. KeysUpto(pairs, 0) = {}
        BY DEF KeysUpto
      <4> QED
        BY <4>1 DEF SeenWith
    <3> QED
      BY <1>1, <1>5, <2>2, <3>1, <3>2, <3>3, <3>4 DEF AtPair
  <2>5. Progress(o)'
    <3>1. 0 \in 0 .. Len(pairs')
      BY <1>1, <2>2, WholeList
    <3> QED
      BY <2>4, <3>1 DEF Progress
  <2>6. tokens' \in Seq(TokenSet)
    BY <1>1, <1>2, <1>5
  <2> QED
    BY <1>1, <1>5, <2>2, <2>3, <2>5, <2>6 DEF Understands, Parsing
<1> QED
  BY <1>3, <1>4, <1>5 DEF Tokenize, t

LEMMA PairUnderstood ==
  ASSUME InStep, Holds, Understands, ParsePair
  PROVE  Understands'
<1>1. /\ at = "pairs" /\ index <= Len(tokens) /\ UNCHANGED <<hostVars, tokens>>
      /\ Parsing
  BY DEF ParsePair, Parsing
<1>2. CASE cuts # 0
  BY <1>1, <1>2, CutUnderstood
<1>3. CASE cuts = 0
  <2>1. /\ pairs \in Seq(WholePairs) /\ Len(tokens) \in Nat
    BY <1>1, <1>3, TurnStarts
  <2>2. PICK o : Layout(tokens, o, pairs) /\ Progress(o)
    BY <1>1, <1>3, TurnStarts
  <2>3. PICK x \in 0 .. Len(pairs) : AtPair(o, x)
    BY <1>1, <2>2 DEF Progress, AtColour
  <2>4. PICK k \in 1 .. Len(pairs) : AtPair(o, k - 1)
    <3>1. x # Len(pairs)
      <4>1. o[Len(pairs)] = Len(tokens) + 1
        BY <2>2 DEF Layout
      <4>2. index = o[x]
        BY <2>3 DEF AtPair
      <4> QED
        BY <1>1, <2>1, <4>1, <4>2
    <3>2. Len(pairs) \in Nat
      BY <2>1, WholeList
    <3>3. x + 1 \in 1 .. Len(pairs) /\ (x + 1) - 1 = x
      BY <3>1, <3>2
    <3> QED
      BY <2>3, <3>3
  <2>5. pairs' = pairs /\ Len(pairs) \in Nat
    BY <1>1, <2>1, WholeList DEF hostVars
  <2>6. CASE RefusePair
    <3>1. ~IsRequest(pairs)
      BY <2>1, <2>2, <2>4, <2>6, RefusedPair DEF RefusePair
    <3> QED
      BY <1>1, <2>6, <3>1, RefusalUnderstood DEF RefusePair
  <2>7. CASE TakePair
    <3>1. NotSeen(CurrentKey) /\ index' = index + 2
      BY <2>7 DEF TakePair
    <3>2. CASE /\ ValidScalar /\ seen' = seen \cup {CurrentKey}
               /\ request' = Taken /\ at' = at
      <4>1. request \in Fields
        BY DEF Holds
      <4>2. AtPair(o, k)'
        BY <2>1, <2>2, <2>4, <2>5, <3>1, <3>2, <4>1, ScalarUnderstood
      <4>3. k \in 0 .. Len(pairs') /\ Parsing'
        BY <1>1, <2>5, <3>2 DEF Parsing
      <4>4. Progress(o)'
        BY <4>2, <4>3 DEF Progress
      <4> QED
        BY <1>1, <1>3, <2>2, <4>3, <4>4, TurnEnds
    <3>3. CASE /\ ValidObject /\ object' = index + 1 /\ at' = "colour"
               /\ UNCHANGED <<seen, request>>
      <4>1. AtColour(o, k, 0)'
        BY <2>1, <2>2, <2>4, <2>5, <3>1, <3>3, ObjectUnderstood
      <4>2. k \in 1 .. Len(pairs') /\ 0 \in 0 .. Len(pairs'[k].inner) /\ Parsing'
        BY <2>5, <3>3, <4>1 DEF AtColour, Parsing
      <4>3. Progress(o)'
        BY <4>1, <4>2 DEF Progress
      <4> QED
        BY <1>1, <1>3, <2>2, <4>2, <4>3, TurnEnds
    <3> QED
      BY <2>7, <3>2, <3>3 DEF TakePair
  <2> QED
    BY <2>6, <2>7 DEF ParsePair
<1> QED
  BY <1>2, <1>3

LEMMA ColourStepUnderstood ==
  ASSUME Holds, Understands, ParseColour
  PROVE  Understands'
<1>1. /\ at = "colour" /\ InObject /\ UNCHANGED <<hostVars, tokens, object>>
      /\ Parsing
  BY DEF ParseColour, Parsing
<1>2. CASE cuts # 0
  BY <1>1, <1>2, CutUnderstood
<1>3. CASE cuts = 0
  <2>1. /\ pairs \in Seq(WholePairs) /\ tokens \in Seq(TokenSet)
    BY <1>1, <1>3, TurnStarts
  <2>2. PICK o : Layout(tokens, o, pairs) /\ Progress(o)
    BY <1>1, <1>3, TurnStarts
  <2>3. PICK k \in 1 .. Len(pairs) :
          \E x \in 0 .. Len(pairs[k].inner) : AtColour(o, k, x)
    BY <1>1, <2>2 DEF Progress, AtPair
  <2>4. PICK x \in 0 .. Len(pairs[k].inner) : AtColour(o, k, x)
    BY <2>3
  <2>5. x < Len(pairs[k].inner)
    BY <1>1, <2>1, <2>2, <2>4, InObjectWhile
  <2> DEFINE j == x + 1
  <2>6. /\ j \in 1 .. Len(pairs[k].inner) /\ j - 1 = x
        /\ j \in 0 .. Len(pairs[k].inner)
    <3>1. pairs[k] \in WholePairs
      BY <2>1, WholeList
    <3>2. Len(pairs[k].inner) \in Nat
      BY <3>1, PairShape
    <3> QED
      BY <2>5, <3>2
  <2> HIDE DEF j
  <2>7. AtColour(o, k, j - 1)
    BY <2>4, <2>6
  <2>8. CASE ~ValidColour /\ Answer(FALSE)
    <3>1. ~IsRequest(pairs)
      BY <2>1, <2>2, <2>6, <2>7, <2>8, RefusedColour
    <3> QED
      BY <1>1, <2>8, <3>1, RefusalUnderstood
  <2>9. CASE /\ ValidColour /\ index' = index + 2 /\ at' = at
             /\ request' = [request EXCEPT ![CurrentKey] = CurrentValue.number]
             /\ seen' = seen \cup {CurrentKey}
    <3>1. request \in Fields
      BY DEF Holds
    <3>2. pairs' = pairs /\ object' = object
      BY <1>1 DEF hostVars
    <3>3. AtColour(o, k, j)'
      BY <2>1, <2>2, <2>6, <2>7, <2>9, <3>1, <3>2, ColourUnderstood
    <3>4. /\ k \in 1 .. Len(pairs') /\ j \in 0 .. Len(pairs'[k].inner)
          /\ Parsing'
      BY <1>1, <2>6, <2>9, <3>2 DEF Parsing
    <3>5. Progress(o)'
      BY <3>3, <3>4 DEF Progress
    <3> QED
      BY <1>1, <1>3, <2>2, <3>4, <3>5, TurnEnds
  <2> QED
    BY <2>8, <2>9 DEF ParseColour
<1> QED
  BY <1>2, <1>3

LEMMA ColourDoneUnderstood ==
  ASSUME Holds, Understands, ColourDone
  PROVE  Understands'
<1>1. /\ at = "colour" /\ ~InObject
      /\ UNCHANGED <<hostVars, tokens, index, object>> /\ Parsing
  BY DEF ColourDone, Parsing
<1>2. CASE cuts # 0
  BY <1>1, <1>2, CutUnderstood
<1>3. CASE cuts = 0
  <2>1. /\ pairs \in Seq(WholePairs) /\ tokens \in Seq(TokenSet)
    BY <1>1, <1>3, TurnStarts
  <2>2. PICK o : Layout(tokens, o, pairs) /\ Progress(o)
    BY <1>1, <1>3, TurnStarts
  <2>3. PICK k \in 1 .. Len(pairs) :
          \E x \in 0 .. Len(pairs[k].inner) : AtColour(o, k, x)
    BY <1>1, <2>2 DEF Progress, AtPair
  <2>4. AtColour(o, k, Len(pairs[k].inner))
    <3>1. PICK x \in 0 .. Len(pairs[k].inner) : AtColour(o, k, x)
      BY <2>3
    <3>2. ~(x < Len(pairs[k].inner))
      BY <1>1, <2>1, <2>2, <3>1, InObjectWhile
    <3>3. pairs[k] \in WholePairs
      BY <2>1, WholeList
    <3>4. Len(pairs[k].inner) \in Nat
      BY <3>3, PairShape
    <3>5. x = Len(pairs[k].inner)
      BY <3>2, <3>4
    <3> QED
      BY <3>1, <3>5
  <2>5. CASE /\ ~(Colours \subseteq seen /\ index <= Len(tokens) + 1)
             /\ Answer(FALSE)
    <3>1. ~IsRequest(pairs)
      BY <2>1, <2>2, <2>4, <2>5, RefusedColours
    <3> QED
      BY <1>1, <2>5, <3>1, RefusalUnderstood
  <2>6. CASE /\ Colours \subseteq seen /\ at' = "pairs"
             /\ request' = [request EXCEPT !.rgb_colour_present = TRUE]
             /\ seen' = seen \cup {"parameters"}
    <3>1. request \in Fields
      BY DEF Holds
    <3>2. pairs' = pairs /\ Len(pairs) \in Nat
      BY <1>1, <2>1, WholeList DEF hostVars
    <3>3. AtPair(o, k)'
      BY <1>1, <2>1, <2>2, <2>4, <2>6, <3>1, <3>2, ColoursUnderstood
    <3>4. k \in 0 .. Len(pairs') /\ Parsing'
      BY <2>6, <3>2 DEF Parsing
    <3>5. Progress(o)'
      BY <3>3, <3>4 DEF Progress
    <3> QED
      BY <1>1, <1>3, <2>2, <3>4, <3>5, TurnEnds
  <2> QED
    BY <2>5, <2>6 DEF ColourDone
<1> QED
  BY <1>2, <1>3

LEMMA CheckUnderstood ==
  ASSUME Holds, Understands, CheckFields
  PROVE  Understands'
<1>1. /\ at = "pairs" /\ index > Len(tokens) /\ UNCHANGED <<hostVars, request>>
      /\ Parsing /\ at' = "done" /\ accepted' = FieldsFit
  BY DEF CheckFields, Parsing, Answer
<1>2. CASE cuts # 0
  BY <1>1, <1>2, CutUnderstood
<1>3. CASE cuts = 0
  <2>1. /\ pairs \in Seq(WholePairs) /\ Len(tokens) \in Nat
    BY <1>1, <1>3, TurnStarts
  <2>2. PICK o : Layout(tokens, o, pairs) /\ Progress(o)
    BY <1>1, <1>3, TurnStarts
  <2>3. PICK x \in 0 .. Len(pairs) : AtPair(o, x)
    BY <1>1, <2>2 DEF Progress, AtColour
  <2>4. AtPair(o, Len(pairs))
    <3>1. Len(pairs) \in Nat
      BY <2>1, WholeList
    <3>2. x < Len(pairs) => o[x] < Len(tokens)
      BY <2>1, <2>2, LayoutParts
    <3>3. o[x] \in Nat
      BY <2>1, <2>2, LayoutParts
    <3>4. index = o[x]
      BY <2>3 DEF AtPair
    <3>5. x = Len(pairs)
      BY <1>1, <2>1, <3>1, <3>2, <3>3, <3>4
    <3> QED
      BY <2>3, <3>5
  <2>5. FieldsFit <=> IsRequest(pairs)
    BY <2>1, <2>2, <2>4, FitIsRequest, RequestFits
  <2>6. FieldsFit => request = Meaning(pairs)
    BY <2>1, <2>4, FitMeans
  <2>7. pairs' = pairs /\ request' = request /\ cuts' = cuts
    BY <1>1 DEF hostVars
  <2>8. Understood'
    BY <1>1, <2>5, <2>6, <2>7 DEF Understood
  <2> QED
    BY <1>1, <2>1, <2>7, <2>8 DEF Understands, Parsing
<1> QED
  BY <1>2, <1>3

LEMMA HostUnderstood ==
  ASSUME Continues, pairs \in Seq(WholePairs) => Understands, Host,
         pairs' \in Seq(WholePairs)
  PROVE  Understands'
<1>1. cuts \in Nat
  BY DEF Continues
<1>2. CASE Compose
  BY <1>2 DEF Compose, Understands, Parsing
<1>3. CASE Edit
  BY <1>3 DEF Edit, Understands, Parsing
<1>4. CASE Abandon
  <2>1. cuts' # 0
    BY <1>1, <1>4 DEF Abandon
  <2> QED
    BY <2>1 DEF Understands
<1>5. CASE WriteLine
  <2>1. /\ at = "writing" /\ at' = "tokens" /\ line' = line \o Frame(pairs)
        /\ cuts' = cuts /\ pairs' = pairs
    BY <1>5 DEF WriteLine
  <2>2. ASSUME cuts = 0 PROVE line' = Frame(pairs)
    <3>1. line = << >>
      BY <2>1, <2>2 DEF Continues
    <3>2. Frame(pairs) \in Seq(Lexemes)
      BY <2>1, FrameWritten
    <3> QED
      BY <2>1, <3>1, <3>2, ConcatEmptySeq
  <2> QED
    BY <2>1, <2>2 DEF Understands, Parsing
<1> QED
  BY <1>2, <1>3, <1>4, <1>5 DEF Host

\* Understands, step by step.
LEMMA UnderstandsKept ==
  ASSUME InStep, Inv, Continues, pairs \in Seq(WholePairs) => Understands,
         [Next]_vars, pairs' \in Seq(WholePairs)
  PROVE  Understands'
<1>1. Holds
  BY DEF Inv
<1>2. CASE NextLine
  BY <1>2 DEF NextLine, Understands, Parsing
<1>3. CASE Host
  BY <1>3, HostUnderstood
<1>4. CASE Parser
  <2>1. pairs' = pairs
    BY <1>4 DEF Parser, Tokenize, ParsePair, ParseColour, ColourDone,
                CheckFields, hostVars
  <2>2. Understands
    BY <2>1
  <2> QED
    BY <1>1, <1>4, <2>2, TokenizeUnderstood, PairUnderstood,
       ColourStepUnderstood, ColourDoneUnderstood, CheckUnderstood DEF Parser
<1>5. CASE UNCHANGED vars
  <2>1. /\ UNCHANGED <<pairs, cuts, line, at, tokens, accepted, request>>
        /\ UNCHANGED <<index, object, seen>>
    BY <1>5 DEF vars, hostVars, parserVars
  <2>2. Understood' <=> Understood
    BY <2>1 DEF Understood
  <2>3. ASSUME NEW o
        PROVE  /\ Layout(tokens, o, pairs)' <=> Layout(tokens, o, pairs)
               /\ Progress(o)' <=> Progress(o)
    BY <2>1 DEF Progress, AtPair, AtColour
  <2>4. Understands
    BY <2>1
  <2> QED
    BY <2>1, <2>2, <2>3, <2>4 DEF Understands, Parsing
<1> QED
  BY <1>2, <1>3, <1>4, <1>5 DEF Next

(***************************************************************************)
(* json_protocol_parse_request accepts exactly the requests of the         *)
(* protocol that are written in one piece, and what it hands to the        *)
(* dispatcher is what the request means, whatever encoder wrote its pairs  *)
(* and in whatever order: AcceptedAsMeant of every line whose pairs have a *)
(* value.                                                                  *)
(***************************************************************************)
THEOREM RequestsUnderstood ==
  Spec => [](pairs \in Seq(WholePairs) => AcceptedAsMeant)
<1> DEFINE I == pairs \in Seq(WholePairs) => Understands
<1>1. Init => InStep /\ Inv /\ Continues /\ I
  BY InStepInit, InitInv, InitContinues, UnderstandsInit
<1>2. InStep /\ Inv /\ Continues /\ I /\ [Next]_vars
        => (InStep /\ Inv /\ Continues /\ I)'
  BY InStepKept, InvKept, ContinuesKept, UnderstandsKept
<1>3. Continues /\ I => (pairs \in Seq(WholePairs) => AcceptedAsMeant)
  <2> SUFFICES ASSUME Continues, Understands, at = "done"
               PROVE  /\ accepted <=> cuts = 0 /\ IsRequest(pairs)
                      /\ accepted => request = Meaning(pairs)
    BY DEF AcceptedAsMeant
  <2>1. CASE cuts = 0
    BY <2>1 DEF Understands, Understood
  <2>2. CASE cuts # 0
    BY <2>2 DEF Continues
  <2> QED
    BY <2>1, <2>2
<1> HIDE DEF I
<1> QED
  BY <1>1, <1>2, <1>3, PTL DEF Spec

\* Whole pairs are exchanged for whole pairs.
LEMMA WholeKept ==
  ASSUME StrangePairs \subseteq WholePairs, pairs \in Seq(WholePairs),
         [Next]_vars
  PROVE  (pairs \in Seq(WholePairs))'
<1>1. << >> \in Seq(WholePairs)
  OBVIOUS
<1>2. CASE Edit
  <2>1. /\ DOMAIN pairs = 1 .. Len(pairs) /\ Len(pairs) \in Nat
        /\ \A i \in 1 .. Len(pairs) : pairs[i] \in WholePairs
        /\ pairs = [i \in 1 .. Len(pairs) |-> pairs[i]]
    BY LenProperties
  <2>2. ASSUME NEW i \in DOMAIN pairs, NEW p \in WholePairs,
               NEW j \in DOMAIN pairs, NEW q \in WholePairs
        PROVE  /\ [pairs EXCEPT ![i] = p] \in Seq(WholePairs)
               /\ [pairs EXCEPT ![i] = p, ![j] = q] \in Seq(WholePairs)
    <3>1. pairs \in [1 .. Len(pairs) -> WholePairs]
      BY <2>1
    <3>2. /\ [pairs EXCEPT ![i] = p] \in [1 .. Len(pairs) -> WholePairs]
          /\ [pairs EXCEPT ![i] = p, ![j] = q]
               \in [1 .. Len(pairs) -> WholePairs]
      BY <3>1
    <3> DEFINE n == Len(pairs)
    <3>3. \A s \in [1 .. n -> WholePairs] : s \in Seq(WholePairs)
      <4> HIDE DEF n
      <4>1. n \in Nat
        BY <2>1 DEF n
      <4> QED
        BY <4>1
    <3> QED
      BY <3>2, <3>3
  <2>3. PICK i \in DOMAIN pairs :
          \/ \E strange \in StrangePairs :
               pairs' = [pairs EXCEPT ![i] = strange]
          \/ \E j \in DOMAIN pairs :
               pairs' = [pairs EXCEPT ![i] = pairs[j], ![j] = pairs[i]]
    BY <1>2 DEF Edit
  <2>4. CASE \E strange \in StrangePairs :
               pairs' = [pairs EXCEPT ![i] = strange]
    BY <2>2, <2>4
  <2>5. CASE \E j \in DOMAIN pairs :
               pairs' = [pairs EXCEPT ![i] = pairs[j], ![j] = pairs[i]]
    <3>1. PICK j \in DOMAIN pairs :
            pairs' = [pairs EXCEPT ![i] = pairs[j], ![j] = pairs[i]]
      BY <2>5
    <3>2. pairs[i] \in WholePairs /\ pairs[j] \in WholePairs
      BY <2>1
    <3> QED
      BY <2>2, <3>1, <3>2
  <2> QED
    BY <2>3, <2>4, <2>5
<1>3. CASE ~Edit
  BY <1>1, <1>3, RequestsAreWhole
     DEF Next, Host, Compose, Abandon, WriteLine, Parser, Tokenize, ParsePair,
         ParseColour, ColourDone, CheckFields, NextLine, vars, hostVars
<1> QED
  BY <1>2, <1>3

(***************************************************************************)
(* AcceptedAsMeant without more ado, if the other programs write JSON too. *)
(***************************************************************************)
THEOREM AcceptedMeansMeant ==
  ASSUME StrangePairs \subseteq WholePairs
  PROVE  Spec => []AcceptedAsMeant
<1>1. Init => pairs \in Seq(WholePairs)
  BY DEF Init
<1>2. pairs \in Seq(WholePairs) /\ [Next]_vars => (pairs \in Seq(WholePairs))'
  BY WholeKept
<1> QED
  BY <1>1, <1>2, RequestsUnderstood, PTL DEF Spec

=============================================================================
