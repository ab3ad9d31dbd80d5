----------------------------- MODULE MCDataModel -----------------------------
(***************************************************************************)
(* Devices that between them have what the scan, the masks, the layout and *)
(* the blocks tell apart.                                                  *)
(***************************************************************************)
EXTENDS DataModel

F(dir, type, num, rest) == [dir |-> dir, type |-> type, num |-> num, rest |-> rest]
D(word) == F("none", "none", NoNum, <<word>>)
V(dir, num, word) == F(dir, "voltage", num, <<word>>)
T(sign, bits, length, shift) ==
    [be |-> FALSE, sign |-> sign, bits |-> bits, length |-> length, repeat |-> 0, shift |-> shift]
BE(t) == [t EXCEPT !.be = TRUE]
X(t, n) == [t EXCEPT !.repeat = n]
Stamp(word) == F("in", "timestamp", NoNum, <<word>>)
Ini == <<[key |-> "place", value |-> "lab"], [key |-> "uri", value |-> "ini"]>>

Empty == [attrs |-> {}, buffer |-> {}, scan |-> {}, debug |-> {}, content |-> <<>>,
          readonly |-> {}, ini |-> <<>>]

\* Input and output channels of one id, a shared scale, a channel without index.
Adc == [Empty EXCEPT
    !.attrs = {D("name"), D("sampling"), V("in", NoNum, "scale"), V("in", 0, "raw"),
               V("in", 1, "raw"), V("out", 0, "raw"), F("in", "temp", NoNum, <<"input">>)},
    !.buffer = {D("length"), D("data")}, !.debug = {D("direct")},
    !.scan = {V("in", 0, "index"), V("in", 0, "type"), V("in", 1, "index"), V("in", 1, "type")},
    !.content = D("name") :> "adc" @@ V("in", NoNum, "scale") :> 76293 @@
                V("in", 0, "index") :> 1 @@ V("in", 0, "type") :> T("s", 12, 16, 4) @@
                V("in", 1, "index") :> 0 @@ V("in", 1, "type") :> T("u", 8, 8, 0),
    !.readonly = {V("in", 0, "raw")}, !.ini = Ini]

\* Two modified channels in one byte, and a time stamp.
Iq(mod, word) == F("in", "voltage", 0, <<mod, word>>)
Receiver == [Empty EXCEPT
    !.attrs = {Iq("i", "raw"), Iq("q", "raw"), D("sampling")},
    !.scan = {Iq("i", "index"), Iq("i", "type"), Iq("q", "index"), Iq("q", "type"),
              Stamp("index"), Stamp("type")},
    !.content = Iq("i", "index") :> 0 @@ Iq("i", "type") :> T("s", 4, 8, 4) @@
                Iq("q", "index") :> 0 @@ Iq("q", "type") :> T("s", 4, 8, 0) @@
                Stamp("index") :> 1 @@ Stamp("type") :> T("s", 16, 16, 0)]

\* Extended names, and attributes of one name and of the type.
Vin(num, word) == F("in", "voltage", num, <<"vin", word>>)
Named == [Empty EXCEPT
    !.attrs = {Vin(0, "raw"), Vin(0, "offset"), V("in", 1, "raw"), V("in", 1, "offset"),
               Vin(NoNum, "bias"), V("in", NoNum, "scale")}]

\* Outputs of 1, 2 and 1 bytes: padding inside the sample and at its end.
Dac == [Empty EXCEPT
    !.scan = {V("out", n, w) : n \in 0..2, w \in {"index", "type"}},
    !.content = V("out", 0, "index") :> 0 @@ V("out", 0, "type") :> T("u", 8, 8, 0) @@
                V("out", 1, "index") :> 1 @@ V("out", 1, "type") :> BE(T("s", 12, 16, 4)) @@
                V("out", 2, "index") :> 2 @@ V("out", 2, "type") :> T("s", 6, 8, 0)]

\* A sample of two elements, then one of two bytes, numbered against the index.
Sensor == [Empty EXCEPT
    !.scan = {V("in", n, w) : n \in 0..2, w \in {"index", "type"}},
    !.content = V("in", 0, "index") :> 5 @@ V("in", 0, "type") :> T("u", 8, 8, 0) @@
                V("in", 1, "index") :> 3 @@ V("in", 1, "type") :> T("u", 10, 16, 6) @@
                V("in", 2, "index") :> 1 @@ V("in", 2, "type") :> X(T("s", 8, 8, 0), 2)]

NoName == [Empty EXCEPT !.attrs = {D("name"), D("sampling")}]
BadIndex == [Empty EXCEPT !.scan = {V("in", 0, "index"), V("in", 0, "type")},
    !.content = V("in", 0, "index") :> -1 @@ V("in", 0, "type") :> T("u", 8, 8, 0)]
LostIndex == [BadIndex EXCEPT !.content = V("in", 0, "type") :> T("u", 8, 8, 0)]
Labelled == [Empty EXCEPT !.attrs = {D("label"), V("in", 0, "raw")}, !.content = D("label") :> "a&b"]

MCDevices == {Adc, Receiver, Named, Dac, Sensor, NoName, BadIndex, LostIndex, Labelled}
ForeachDevices == {Dac}
MCModifiers == {"i", "q"}
MCWordOrder == <<"bias", "data", "direct", "i", "input", "label", "length", "name", "offset", "q",
                 "raw", "sampling", "scale", "vin">>
MCSampleValues == {1, 65535}
MCTexts == {-1, 0, 4, 5}
MCMarkup == {"a&b"}
=============================================================================
