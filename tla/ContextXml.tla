------------------------------ MODULE ContextXml ------------------------------
(***************************************************************************)
(* A context as its clients see it: the order iio_context_init() gives the *)
(* channels (context.c), the description that is written for clients       *)
(* (context.c, device.c, channel.c) and what a client makes of it (xml.c). *)
(* A position in the sequence of channels is the channel's number, the bit *)
(* it has in every mask.                                                   *)
(***************************************************************************)
EXTENDS DeviceScan

CONSTANT Markup     \* the names that hold a character XML reserves

\* Key of the order: index, then shift; channels without an index come last.
Misplaced(c1, c2) ==
    LET tied == c1.index = c2.index /\ c1.index >= 0
        k1 == IF tied THEN c1.format.shift ELSE c1.index
        k2 == IF tied THEN c2.format.shift ELSE c2.index
    IN  k2 >= 0 /\ (k1 > k2 \/ k1 < 0)

OnePass(chns) ==
    FoldLeft(LAMBDA s, i : IF Misplaced(s[i - 1], s[i])
                           THEN [s EXCEPT ![i - 1] = s[i], ![i] = s[i - 1]] ELSE s,
             chns, [i \in 1..Len(chns) - 1 |-> i + 1])

\* Mutant: a single pass.
reorder_channels_Once(chns) == IF chns = <<>> THEN chns ELSE OnePass(chns)

\* Bubble sort: the loop ends when a pass swaps nothing, after Len(chns) at most.
reorder_channels(chns) ==
    LET pass[k \in 0..Len(chns)] == IF k = 0 THEN chns ELSE OnePass(pass[k - 1])
    IN  pass[Len(chns)]

\* The scale attribute of a channel, in billionths; without one no scale.
init_data_scale(chn, content) ==
    LET found == {i \in 1..Len(chn.attrs) : chn.attrs[i].name = <<"scale">>}
        f == chn.attrs[CHOOSE i \in found : TRUE].filename
    IN  IF found # {} /\ f \in DOMAIN content
        THEN [chn EXCEPT !.format.scale = content[f]] ELSE chn

init_scan_elements(dev, content) ==
    [dev EXCEPT !.channels = [i \in 1..Len(@) |-> init_data_scale(@[i], content)]]

iio_context_init(dev) == [dev EXCEPT !.channels = reorder_channels(@)]

\* A value replaces the one its key had.
iio_context_add_attr(attrs, key, value) ==
    LET same == {i \in 1..Len(attrs) : attrs[i].key = key}
    IN  IF same = {} THEN Append(attrs, [key |-> key, value |-> value])
        ELSE [attrs EXCEPT ![CHOOSE i \in same : TRUE].value = value]

populate_context_attrs(ini) ==
    FoldLeft(LAMBDA s, p : iio_context_add_attr(s, p.key, p.value), <<>>, ini)

\* The kernel's release and the URI come after the pairs of the INI file.
ContextAttrs(ini) ==
    iio_context_add_attr(
        iio_context_add_attr(populate_context_attrs(ini), "local,kernel", "release"),
        "uri", "local:")

-----------------------------------------------------------------------------

\* <scan-element>: X only for a repeat above 1, the scale with six decimals.
iio_snprintf_scan_element_xml(chn) ==
    LET f == chn.format IN
    [index |-> chn.index, e |-> IF f.be THEN "b" ELSE "l",
     s |-> IF f.signed THEN (IF f.full THEN "S" ELSE "s") ELSE (IF f.full THEN "U" ELSE "u"),
     bits |-> f.bits, length |-> f.length,
     x |-> IF f.repeat > 1 THEN <<f.repeat>> ELSE <<>>, shift |-> f.shift,
     scale |-> IF f.scale = NoScale THEN <<>> ELSE <<(f.scale + 500) \div 1000>>]

iio_snprintf_channel_xml(chn) ==
    [id |-> chn.id, name |-> chn.name, type |-> IF chn.out THEN "output" ELSE "input",
     scan |-> IF chn.scan THEN <<iio_snprintf_scan_element_xml(chn)>> ELSE <<>>,
     attrs |-> chn.attrs]

iio_snprintf_device_xml(dev) ==
    [name |-> dev.name, label |-> dev.label,
     channels |-> [i \in 1..Len(dev.channels) |-> iio_snprintf_channel_xml(dev.channels[i])],
     attrs |-> dev.attrs, buffer_attrs |-> dev.buffer_attrs, debug_attrs |-> dev.debug_attrs]

iio_snprintf_context_xml(dev, attrs) ==
    [device |-> iio_snprintf_device_xml(dev), attrs |-> attrs]

-----------------------------------------------------------------------------

\* Names and labels of devices are written as they are: reserved characters
\* in them make a text no parser takes.
WellFormed(x) == x.device.name \notin Markup /\ x.device.label \notin Markup

setup_scan_element(chn, e) ==
    [chn EXCEPT !.scan = TRUE, !.index = e.index,
        !.format = [be |-> e.e = "b", signed |-> e.s \in {"s", "S"},
                    full |-> e.s \in {"S", "U"} \/ e.bits = e.length,
                    bits |-> e.bits, length |-> e.length,
                    repeat |-> IF e.x = <<>> THEN 1 ELSE e.x[1], shift |-> e.shift,
                    scale |-> IF e.scale = <<>> THEN NoScale ELSE 1000 * e.scale[1]]]

ChannelFromXml(x) ==
    LET chn == [id |-> x.id, out |-> x.type = "output", scan |-> FALSE, index |-> NoIndex,
                name |-> x.name, attrs |-> x.attrs, protected |-> <<>>,
                enable_fn |-> FALSE, format |-> NoFormat]
    IN  IF x.scan = <<>> THEN chn ELSE setup_scan_element(chn, x.scan[1])

\* A negative index is refused, and with it the context.
Refused(x) == \/ ~WellFormed(x)
              \/ \E i \in 1..Len(x.device.channels) :
                    LET s == x.device.channels[i].scan IN s # <<>> /\ s[1].index < 0

DeviceFromXml(x) ==
    [name |-> x.name, label |-> x.label, err |-> FALSE,
     channels |-> [i \in 1..Len(x.channels) |-> ChannelFromXml(x.channels[i])],
     attrs |-> x.attrs, buffer_attrs |-> x.buffer_attrs, debug_attrs |-> x.debug_attrs]

\* The client's device and context attributes, put in order as the server's were.
iio_populate_xml_context_helper(x) ==
    [device |-> iio_context_init(DeviceFromXml(x.device)),
     attrs |-> populate_context_attrs(x.attrs)]

\* By name; names that begin with the channel's extended name are tried without it.
iio_channel_find_attr(chn, name) ==
    LET Known(n) == \E i \in 1..Len(chn.attrs) : chn.attrs[i].name = n
    IN  CASE Known(name) -> <<name>>
          [] Leads(chn.name, name) /\ Known(Cut(name, Len(chn.name))) ->
                <<Cut(name, Len(chn.name))>>
          [] OTHER -> <<>>

get_filename(chn, name) ==
    chn.attrs[CHOOSE i \in 1..Len(chn.attrs) :
        /\ chn.attrs[i].name = name
        /\ \A j \in 1..i - 1 : chn.attrs[j].name # name].filename
=============================================================================
