---------------------------- MODULE StatusDecoder ----------------------------
(***************************************************************************)
(* What a device's oneM2M messages do (src/server/mqtt_server.py): the     *)
(* switches and extended readings of its state file, the energy file, and  *)
(* the response the device waits for.  One thread handles a connection;    *)
(* what other threads write to the state file is the subject of the module *)
(* StateReports.                                                           *)
(*                                                                         *)
(* A message is a record:                                                  *)
(*   topic, rqi, create   a response or a request, its identifier ("none"  *)
(*             without one), whether it creates something                  *)
(*   status    the items of its cmd_report: the switches an item sets, its *)
(*             energy counter or Gone, whether it raises (an RSSI that is  *)
(*             no number, an item that is no object)                       *)
(*   v, i, w, t   the extended readings that come with them: the voltage   *)
(*             or Gone, sequences of currents (mA), meters (Wh) and        *)
(*             temperatures (hexadecimal digits and their value)           *)
(*   events    the items of its notification                               *)
(***************************************************************************)
EXTENDS Integers, Sequences, SequencesExt

CONSTANTS
  Channels,    \* 4
  IdleCurrent, \* 19 mA: what a socket draws by itself
  Message,     \* the messages a device may send
  Gone,        \* no such key
  MaxMessages

Channel == 1 .. Channels
Item == [switches : UNION {[some -> BOOLEAN] : some \in SUBSET Channel},
         energy : Nat \cup {Gone}, raises : BOOLEAN]
Totals == [current : Nat \cup {Gone}, meter : Nat \cup {Gone}, single : BOOLEAN]

ASSUME DecoderAssumption ==
  /\ Channels \in Nat /\ Channels > 1
  /\ IdleCurrent \in Nat /\ MaxMessages \in Nat
  /\ Gone \notin Nat /\ Gone \notin Totals

ASSUME MessageAssumption ==
  \A m \in Message :
    /\ m.status \in Seq(Item) /\ m.events \in Seq(Item)
    /\ m.i \in Seq(Nat) /\ m.w \in Seq(Nat)
    /\ m.t \in Seq([digits : 1 .. 8, value : Nat])

VARIABLES
  switch,     \* channels[n]["on"]
  reading,    \* channels[n]: its "current_a", "meter_kwh" and "temperature_c"
  extended,   \* `extended`: its totals, and whether one current is all it had
  energy,     \* energy/<mac>.json
  stage,      \* what the handler does next with its message
  message,    \* the message it read last, Gone before the first
  answered,   \* the response to it was sent
  writer,     \* what wrote the state file last: "status" or "events"
  taken       \* messages read

stateFile == <<switch, reading, extended, writer>>
decoderVars == <<stateFile, energy, stage, message, answered, taken>>

Family == {"current", "meter", "celsius"}
NoReadings == [f \in Family |-> [c \in Channel |-> Gone]]

DecoderTypeOK ==
  /\ switch \in [Channel -> BOOLEAN \cup {Gone}]
  /\ reading \in [Family -> [Channel -> Int \cup {Gone}]]
  /\ reading["current"] \in [Channel -> Nat \cup {Gone}]
  /\ extended \in Totals \cup {Gone}
  /\ energy \in Nat \cup {Gone}
  /\ stage \in {"read", "status", "events", "respond", "closed"}
  /\ message \in Message \cup {Gone} /\ answered \in BOOLEAN
  /\ writer \in {"status", "events"} /\ taken \in 0 .. MaxMessages

\* A connection of a device whose state file was just made
DecoderInit ==
  /\ switch = [c \in Channel |-> Gone]
  /\ reading = NoReadings /\ extended = Gone /\ energy = Gone
  /\ stage = "read" /\ message = Gone /\ answered = FALSE
  /\ writer = "events" /\ taken = 0

-----------------------------------------------------------------------------
(* What the fields of a report mean *)

Fits(parts, counts) == Len(parts) \in counts

\* _hex_values: the first of the numbers of parts that fits; anything else is
\* no reading at all
HasCurrents(m) == Fits(m.i, {1, Channels, Channels + 1})
HasMeters(m) == Fits(m.w, {Channels, Channels + 1})
HasTemperatures(m) == Fits(m.t, {Channels})
HasExtension(m) == m.v # Gone \/ HasCurrents(m) \/ HasMeters(m) \/ HasTemperatures(m)

\* _hex_value(signed=True): the first bit of the digits there are is the sign
Signed(t) == IF 2 * t.value >= 16 ^ t.digits THEN t.value - 16 ^ t.digits ELSE t.value

Total(parts) ==
  LET sum[n \in 0 .. Len(parts)] == IF n = 0 THEN 0 ELSE sum[n - 1] + parts[n]
  IN  sum[Len(parts)]

\* The switches after some items, one after the other: the last to set one decides
Setters(items, c) == {n \in DOMAIN items : c \in DOMAIN items[n].switches}
Switched(items) ==
  [c \in Channel |-> IF Setters(items, c) = {} THEN switch[c]
                     ELSE items[Max(Setters(items, c))].switches[c]]

Unfloored(m, on, c) == IF on[c] = TRUE THEN m.i[c] - IdleCurrent ELSE 0   \* mutant
\* What a socket that is on is said to draw, less what it draws by itself
Displayed(m, on, c) ==
  IF on[c] = TRUE /\ m.i[c] > IdleCurrent THEN m.i[c] - IdleCurrent ELSE 0

\* The channels a current report speaks of
Reported(m) == 1 .. (IF Len(m.i) > Channels THEN Channels ELSE Len(m.i))

NotCleared(m) == reading   \* mutant
\* Nothing extended: every channel loses what it had
Cleared(m) == NoReadings

\* _extended_status.  A family that is not in the report is removed from every
\* channel; a current report of one value leaves the other channels alone.
Readings(m, on) ==
  IF ~HasExtension(m) THEN Cleared(m)
  ELSE [current |-> [c \in Channel |->
                       IF ~HasCurrents(m) THEN Gone
                       ELSE IF c \in Reported(m) THEN Displayed(m, on, c)
                       ELSE reading["current"][c]],
        meter   |-> [c \in Channel |-> IF HasMeters(m) THEN m.w[c] ELSE Gone],
        celsius |-> [c \in Channel |-> IF HasTemperatures(m) THEN Signed(m.t[c]) ELSE Gone]]

Extension(m, on) ==
  IF ~HasExtension(m) THEN Gone
  ELSE [current |-> IF HasCurrents(m)
                    THEN Total([c \in Reported(m) |-> Displayed(m, on, c)]) ELSE Gone,
        meter   |-> IF ~HasMeters(m) THEN Gone
                    ELSE IF Len(m.w) > Channels THEN m.w[Channels + 1] ELSE Total(m.w),
        single  |-> Len(m.i) = 1]

\* The items up to one that raises, and what they leave in the energy file
Sound(items) == LET bad == SelectInSeq(items, LAMBDA item : item.raises)
                IN  IF bad = 0 THEN items ELSE SubSeq(items, 1, bad - 1)
Meters(items) == {n \in DOMAIN items : items[n].energy # Gone}
Metered(items) == IF Meters(items) = {} THEN energy ELSE items[Max(Meters(items))].energy

-----------------------------------------------------------------------------
(* The handler *)

\* A response is for a request that carries an identifier
Expects(m) == m.topic = "req" /\ m.rqi # "none"

ResponseFirst(m, done) ==   \* mutant
  CASE done = "read" /\ Expects(m) -> "respond"
    [] m.status # <<>> -> "status"
    [] m.events # <<>> -> "events"
    [] OTHER -> "read"
\* What a message asks for after a stage
After(m, done) ==
  CASE done = "read" /\ m.status # <<>> -> "status"
    [] (done = "status" \/ (done = "read" /\ m.status = <<>>)) /\ m.events # <<>> -> "events"
    [] OTHER -> IF Expects(m) THEN "respond" ELSE "read"

\* _onem2m is given the next message (one that is no JSON is dropped)
Receive(m) ==
  /\ stage = "read" /\ taken < MaxMessages
  /\ taken' = taken + 1
  /\ message' = m /\ answered' = FALSE
  /\ stage' = After(m, "read")
  /\ UNCHANGED <<stateFile, energy>>

\* JSON of another shape: a message, or the report in one, that is no object has
\* no fields to look at, and looking raises
Misshapen ==
  /\ stage = "read" /\ taken < MaxMessages
  /\ taken' = taken + 1
  /\ message' = Gone /\ answered' = FALSE
  /\ stage' = "closed"
  /\ UNCHANGED <<stateFile, energy>>

\* _status: the energy file is written while the items are read, the state file
\* after them, unless one of them raises
TakeStatus ==
  /\ stage = "status"
  /\ energy' = Metered(Sound(message.status))
  /\ IF Sound(message.status) # message.status
     THEN stage' = "closed" /\ UNCHANGED stateFile
     ELSE LET on == Switched(message.status)
          IN  /\ switch' = on
              /\ reading' = Readings(message, on)
              /\ extended' = Extension(message, on)
              /\ writer' = "status"
              /\ stage' = After(message, "status")
  /\ UNCHANGED <<message, answered, taken>>

\* _events: the same for switches and energy, no extended readings
TakeEvents ==
  /\ stage = "events"
  /\ energy' = Metered(Sound(message.events))
  /\ IF Sound(message.events) # message.events
     THEN stage' = "closed" /\ UNCHANGED <<switch, writer>>
     ELSE /\ switch' = Switched(message.events)
          /\ writer' = "events"
          /\ stage' = After(message, "events")
  /\ UNCHANGED <<reading, extended, message, answered, taken>>

\* The rest of _onem2m.  A bootstrap that creates nothing has no content to put
\* the answer in, and raises.
Respond ==
  /\ stage = "respond"
  /\ IF message.rqi = "bootstrap" /\ ~message.create
     THEN stage' = "closed" /\ UNCHANGED answered
     ELSE stage' = "read" /\ answered' = TRUE
  /\ UNCHANGED <<stateFile, energy, message, taken>>

\* The connection breaks before the response is out, or the program is killed,
\* perhaps between the energy file and the state file
Broken ==
  /\ stage \notin {"read", "closed"}
  /\ stage' = "closed"
  /\ \/ UNCHANGED energy
     \/ stage = "status" /\ energy' = Metered(Sound(message.status))
     \/ stage = "events" /\ energy' = Metered(Sound(message.events))
  /\ UNCHANGED <<stateFile, message, answered, taken>>

\* The device connects again
Reconnect ==
  /\ stage = "closed" /\ stage' = "read"
  /\ UNCHANGED <<stateFile, energy, message, answered, taken>>

DecoderNext ==
  \/ \E m \in Message : Receive(m)
  \/ Misshapen \/ TakeStatus \/ TakeEvents \/ Respond \/ Broken \/ Reconnect

DecoderSpec == DecoderInit /\ [][DecoderNext]_decoderVars

-----------------------------------------------------------------------------
(* Properties *)

\* The extended readings are those of one report, whatever reports and events of
\* other shapes came before: no total without the readings it sums up, no reading
\* of a family the report did not carry, no current for a socket the report itself
\* switches off.  A report of a single current is the exception: the other
\* channels keep what they had (mqtt_server.py:612).
OneReport ==
  /\ extended = Gone => reading = NoReadings
  /\ extended # Gone /\ ~extended.single =>
       IF extended.current = Gone THEN \A c \in Channel : reading["current"][c] = Gone
       ELSE /\ Total(reading["current"]) = extended.current
            /\ writer = "status" =>
                 \A c \in Channel : switch[c] # TRUE => reading["current"][c] = 0
  /\ extended # Gone /\ extended.meter = Gone =>
       \A c \in Channel : reading["meter"][c] = Gone

\* The device hears of success only when all its message says is on disk: the
\* switches and the energy counter it reported.  A connection that breaks, a
\* report that raises and a restart leave it without a response, to try again.
AnsweredIsKept ==
  answered => LET items == message.status \o message.events
              IN  Switched(items) = switch /\ Metered(items) = energy
=============================================================================
