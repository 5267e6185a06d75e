------------------------------ MODULE MCOutside ------------------------------
(***************************************************************************)
(* The parts around the session table, on small instances.  They share no  *)
(* state with each other, so that a behaviour of the program is one of     *)
(* each side by side, and nothing is gained from the order in which their  *)
(* steps alternate: `turn` picks the part that acts in a behaviour, the    *)
(* others stay where they begin.                                           *)
(***************************************************************************)
EXTENDS HAPublishing, DnatManager, FirmwareOta, StatusDecoder, MqttCodec

CONSTANTS blank, metered, w1, w2, a1, a2

VARIABLE turn

\* HAPublishing: a device that has not reported, and one with extended readings
TwoReadings == {blank, metered}
ExtendedReadings == {metered}

\* FirmwareOta and DnatManager: two web threads, two addresses
WebThreads == {w1, w2}
Addresses == {a1, a2}

\* StatusDecoder: reports of every shape, with two channels
Plain == [switches |-> <<>>, energy |-> Gone, raises |-> FALSE]
Sets(c, on) == [Plain EXCEPT !.switches = c :> on]
Meter(n) == [Plain EXCEPT !.energy = n]
Blanket == [topic |-> "req", rqi |-> "none", create |-> TRUE, status |-> <<>>, v |-> Gone,
            i |-> <<>>, w |-> <<>>, t |-> <<>>, events |-> <<>>]
Hex(n) == [digits |-> 1, value |-> n]

Statuses == { <<Sets(1, TRUE), Sets(2, TRUE), Plain>>,
              <<Sets(1, FALSE), Sets(2, TRUE), Meter(7)>>,
              <<Meter(8), [Plain EXCEPT !.raises = TRUE], Sets(1, TRUE)>> }
Notifications == { <<[Plain EXCEPT !.switches = [c \in 1 .. 2 |-> FALSE]], Meter(9)>>,
                   <<Sets(2, TRUE), Sets(2, FALSE), Sets(1, TRUE)>>,
                   <<Meter(6), [Plain EXCEPT !.raises = TRUE], Sets(2, TRUE)>> }

Messages ==
  {[Blanket EXCEPT !.rqi = "other", !.status = s, !.i = i, !.w = w,
                   !.t = IF w = <<>> THEN <<>> ELSE <<Hex(3), Hex(14)>>] :
     s \in Statuses, i \in {<<>>, <<30>>, <<10, 25>>, <<20, 30, 60>>, <<1, 2, 3, 4>>},
     w \in {<<>>, <<4, 5, 9>>}} \cup
  {[Blanket EXCEPT !.rqi = r, !.topic = t, !.create = FALSE, !.status = s, !.events = e, !.v = 230] :
     r \in {"none", "bootstrap", "other"}, t \in {"req", "resp"},
     s \in {<<>>, <<Sets(1, TRUE), Meter(7)>>}, e \in Notifications}

\* MqttCodec: bytes of 0 to 3 with a length of at most two digits.  Well-formed
\* packets of each kind, then packets that lie about a length within, one above the
\* limit and one whose length does not end.
Word(s) == <<0, Len(s)>> \o s
Hello == Frame(16, Word(<<1>>) \o <<4, 2, 0, 1>> \o Word(<<7, 7>>))
Packets ==
  { Frame(130, <<0, 1>> \o Word(<<5>>) \o <<1>> \o Word(<<6, 6>>) \o <<0>>),
    Frame(48, Word(<<2>>) \o <<9, 9, 9>>),
    Frame(50, Word(<<2>>) \o <<0, 3>> \o <<9>>),
    Frame(52, Word(<<2>>) \o <<0, 3>>),
    Frame(192, <<>>),
    Frame(16, Word(<<1>>)),
    Frame(48, <<0, 9, 1>>),
    Frame(48, [n \in 1 .. 15 |-> 0]),
    <<48, 6, 6, 6, 0>> }
Connections == {<<Hello, p, q>> : p, q \in Packets} \cup {<<p, Hello>> : p \in Packets}
Responses == {<<0, 1, 9>>, <<0, 1, 9, 9>>, [n \in 1 .. 14 |-> 0]}

-----------------------------------------------------------------------------
Parts == <<pubVars, dnatVars, otaVars, decoderVars, wireVars>>
vars == <<Parts, turn>>

Init ==
  /\ PubInit /\ DnatInit /\ OtaInit /\ DecoderInit /\ WireInit
  /\ turn \in {"publishing", "dnat", "ota", "decoder", "wire"}
  \* one of the initial states is enough for a part that does not act
  /\ turn # "dnat" => ip = a1
  /\ turn # "ota" => issues = <<>>

Next ==
  /\ \/ turn = "publishing" /\ PubNext /\ UNCHANGED <<dnatVars, otaVars, decoderVars, wireVars>>
     \/ turn = "dnat" /\ DnatNext /\ UNCHANGED <<pubVars, otaVars, decoderVars, wireVars>>
     \/ turn = "ota" /\ OtaNext /\ UNCHANGED <<pubVars, dnatVars, decoderVars, wireVars>>
     \/ turn = "decoder" /\ DecoderNext /\ UNCHANGED <<pubVars, dnatVars, otaVars, wireVars>>
     \/ turn = "wire" /\ WireNext /\ UNCHANGED <<pubVars, dnatVars, otaVars, decoderVars>>
  /\ UNCHANGED turn

\* Threads that have something to do go on, and a device keeps asking for updates.
\* Nothing says that a link comes back or that a request is made.
Spec ==
  /\ Init /\ [][Next]_vars
  /\ \A x \in Thread : WF_pubVars(turn = "publishing" /\ Progress(x))
  /\ \A x \in Web : WF_otaVars(turn = "ota" /\ Serve(x))
  /\ WF_otaVars(turn = "ota" /\ CheckVersion) /\ WF_otaVars(turn = "ota" /\ Fetch)

TypesOK == PubTypeOK /\ DnatTypeOK /\ OtaTypeOK /\ DecoderTypeOK /\ WireTypeOK
=============================================================================
