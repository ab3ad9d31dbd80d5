------------------------------ MODULE DeviceScan ------------------------------
(***************************************************************************)
(* What the local backend makes of the files sysfs shows for a device      *)
(* (local.c): which are attributes of the device, which belong to a        *)
(* channel, which are shared by channels, and how a channel gets its       *)
(* extended name, its index and its format.                                *)
(*                                                                         *)
(* A file name is [dir, type, num, rest]: in_voltage0_vin_raw is           *)
(* [dir |-> "in", type |-> "voltage", num |-> 0, rest |-> <<"vin", "raw">>]*)
(* Names are sequences of the words between the underscores.  Not here:    *)
(* differential channels (voltage0-voltage1), hwmon devices (off in the    *)
(* default build) and failing allocations.                                 *)
(***************************************************************************)
EXTENDS Integers, SequencesExt

CONSTANTS Modifiers,   \* the words that are channel modifiers ("i", "q", ...)
          WordOrder    \* the words of attribute names in the order of strcmp

NoNum == -1       \* in_temp_..., in_voltage_...: no channel number
NoMod == "none"
NoIndex == -2     \* -ENOENT
NoScale == -1

NoFormat == [be |-> FALSE, signed |-> FALSE, full |-> FALSE, bits |-> 0, length |-> 0,
             repeat |-> 0, shift |-> 0, scale |-> NoScale]

NewDevice == [name |-> "", label |-> "", channels |-> <<>>, attrs |-> <<>>,
              buffer_attrs |-> <<>>, debug_attrs |-> <<>>, err |-> FALSE]

find_channel_modifier(rest) == rest # <<>> /\ Head(rest) \in Modifiers

is_channel(f, strict) ==
    \/ f.dir = "in" /\ f.type = "timestamp"
    \/ f.dir # "none" /\ (strict => f.num # NoNum \/ find_channel_modifier(f.rest))

get_channel_id(f) ==
    [type |-> f.type, num |-> f.num,
     mod |-> IF find_channel_modifier(f.rest) THEN Head(f.rest) ELSE NoMod]

\* The name is a proper prefix of the words: it ends before an underscore.
Leads(name, words) == name # <<>> /\ IsStrictPrefix(name, words)

Cut(words, n) == SubSeq(words, n + 1, Len(words))

get_short_attr_name(chn, f) ==
    LET words == IF find_channel_modifier(f.rest) THEN Tail(f.rest) ELSE f.rest
    IN  IF Leads(chn.name, words) THEN Cut(words, Len(chn.name)) ELSE words

add_attr_to_channel(chn, f, scan) ==
    LET a == [name |-> get_short_attr_name(chn, f), filename |-> f]
    IN  IF scan THEN [chn EXCEPT !.protected = Append(@, a)]
                ELSE [chn EXCEPT !.attrs = Append(@, a)]

create_channel(f, scan) ==
    add_attr_to_channel(
        [id |-> get_channel_id(f), out |-> f.dir = "out", scan |-> scan, index |-> NoIndex,
         name |-> <<>>, attrs |-> <<>>, protected |-> <<>>, enable_fn |-> FALSE,
         format |-> NoFormat], f, scan)

\* Mutant: channels are told apart by their id alone.
add_channel_AnyDirection(dev, f, scan) ==
    LET same == {i \in 1..Len(dev.channels) : dev.channels[i].id = get_channel_id(f)}
    IN  IF same = {} THEN [dev EXCEPT !.channels = Append(@, create_channel(f, scan))]
        ELSE LET i == CHOOSE i \in same : TRUE
                 chn == add_attr_to_channel(dev.channels[i], f, scan)
             IN  [dev EXCEPT !.channels[i] = [chn EXCEPT !.scan = @ \/ scan]]

add_channel(dev, f, scan) ==
    LET same == {i \in 1..Len(dev.channels) : /\ dev.channels[i].id = get_channel_id(f)
                                              /\ dev.channels[i].out = (f.dir = "out")}
    IN  IF same = {} THEN [dev EXCEPT !.channels = Append(@, create_channel(f, scan))]
        ELSE LET i == CHOOSE i \in same : TRUE
                 chn == add_attr_to_channel(dev.channels[i], f, scan)
             IN  [dev EXCEPT !.channels[i] = [chn EXCEPT !.scan = @ \/ scan]]

\* "dev" and "uevent" are left out; an unreadable name or label ends the scan.
add_attr_to_device(dev, f, content) ==
    CASE f.rest \in {<<"dev">>, <<"uevent">>} -> dev
      [] f.rest = <<"name">>  -> IF f \in DOMAIN content
                                 THEN [dev EXCEPT !.name = content[f]]
                                 ELSE [dev EXCEPT !.err = TRUE]
      [] f.rest = <<"label">> -> IF f \in DOMAIN content
                                 THEN [dev EXCEPT !.label = content[f]]
                                 ELSE [dev EXCEPT !.err = TRUE]
      [] OTHER -> [dev EXCEPT !.attrs = Append(@, f)]

add_attr_or_channel(dev, f, content) ==
    IF is_channel(f, TRUE) THEN add_channel(dev, f, FALSE)
                           ELSE add_attr_to_device(dev, f, content)

add_scan_element(dev, f) == add_channel(dev, f, TRUE)

add_buffer_attr(dev, f) ==
    IF f.rest \in {<<"length">>, <<"enable">>, <<"watermark">>} THEN dev
    ELSE [dev EXCEPT !.buffer_attrs = Append(@, f)]

add_debug_attr(dev, f) == [dev EXCEPT !.debug_attrs = Append(@, f)]

-----------------------------------------------------------------------------

\* The words all attributes of the channel begin with are its extended name
\* (one word at least stays of each); with a single attribute nothing is known.
set_channel_name(chn) ==
    LET all == chn.attrs \o chn.protected
        Common(k) == \A i \in 1..Len(all) :
            k < Len(all[i].name) /\ SubSeq(all[i].name, 1, k) = SubSeq(all[1].name, 1, k)
        n == Max({0} \cup {k \in 1..Len(all[1].name) : Common(k)})
        Shrunk(s) == [i \in 1..Len(s) |-> [s[i] EXCEPT !.name = Cut(@, n)]]
    IN  IF Len(all) < 2 \/ n = 0 THEN chn
        ELSE [chn EXCEPT !.name = SubSeq(all[1].name, 1, n),
                         !.attrs = Shrunk(@), !.protected = Shrunk(@)]

\* The type file: [be, sign, bits, length, repeat, shift], repeat 0 without an X.
ParsedType(fmt, t) ==
    [fmt EXCEPT !.be = t.be, !.bits = t.bits, !.length = t.length, !.shift = t.shift,
                !.repeat = IF t.repeat = 0 THEN 1 ELSE t.repeat,
                !.signed = t.sign \in {"s", "S"},
                !.full = t.sign \in {"S", "U"} \/ t.bits = t.length]

\* index, type and en of a scan element; a file that cannot be read is skipped.
handle_protected_scan_element_attr(chn, a, content) ==
    CASE a.name = <<"index">> /\ a.filename \in DOMAIN content ->
            [chn EXCEPT !.index = content[a.filename]]
      [] a.name = <<"type">> /\ a.filename \in DOMAIN content ->
            [chn EXCEPT !.format = ParsedType(@, content[a.filename])]
      [] a.name = <<"en">> -> [chn EXCEPT !.enable_fn = TRUE]
      [] OTHER -> chn

handle_scan_elements(chn, content) ==
    [FoldLeft(LAMBDA c, a : handle_protected_scan_element_attr(c, a, content),
              chn, chn.protected) EXCEPT !.protected = <<>>]

\* ... a bad index, an unknown name or a second "en" ends the scan.
ScanElementsRefused(chn, content) ==
    LET Named(w) == {i \in 1..Len(chn.protected) : chn.protected[i].name = <<w>>}
        Read(i) == chn.protected[i].filename \in DOMAIN content
    IN  \/ \E i \in Named("index") : Read(i) /\ content[chn.protected[i].filename] < 0
        \/ Named("index") \cup Named("type") \cup Named("en") # 1..Len(chn.protected)
        \/ \E i, j \in Named("en") : i # j

-----------------------------------------------------------------------------

\* 0: not the channel's, 1: shared by channels of its type, 2: by its name.
is_global_attr(chn, f) ==
    CASE f.dir # (IF chn.out THEN "out" ELSE "in") \/ f.type # chn.id.type -> 0
      [] chn.id.num # NoNum -> IF Leads(chn.name, f.rest) THEN 2 ELSE 1
      [] OTHER -> IF chn.id.mod # NoMod THEN 1 ELSE 0

Owners(dev, f, level) ==
    {i \in 1..Len(dev.channels) : is_global_attr(dev.channels[i], f) = level}

GivenTo(dev, f, owners) ==
    [dev EXCEPT !.channels = [i \in 1..Len(@) |->
        IF i \in owners THEN add_attr_to_channel(@[i], f, FALSE) ELSE @[i]]]

\* The channels of that name, or, when there is none, those of the type.
detect_global_attr(dev, f) ==
    GivenTo(dev, f, IF Owners(dev, f, 2) # {} THEN Owners(dev, f, 2) ELSE Owners(dev, f, 1))

\* Shared attributes go to their channels, what is left and names a channel
\* (in_temp_input) makes one without an index, the rest stays the device's.
detect_and_move_global_attrs(dev) ==
    LET Shared(f) == Owners(dev, f, 1) \cup Owners(dev, f, 2) # {}
        left == SelectSeq(dev.attrs, LAMBDA f : ~Shared(f))
        moved == FoldLeft(detect_global_attr, dev, SelectSeq(dev.attrs, Shared))
        added == FoldLeft(LAMBDA d, f : add_channel(d, f, FALSE), moved,
                          SelectSeq(left, LAMBDA f : is_channel(f, FALSE)))
    IN  [added EXCEPT !.attrs = SelectSeq(left, LAMBDA f : ~is_channel(f, FALSE))]

Rank(w) == CHOOSE i \in 1..Len(WordOrder) : WordOrder[i] = w

\* strcmp(a, b) < 0 for names that differ.
Before(a, b) ==
    \/ IsStrictPrefix(a, b)
    \/ \E k \in 1..Len(a) : /\ k <= Len(b) /\ Rank(a[k]) < Rank(b[k])
                            /\ SubSeq(a, 1, k - 1) = SubSeq(b, 1, k - 1)

SortedFiles(s) == SortSeq(s, LAMBDA f, g : Before(f.rest, g.rest))
SortedAttrs(s) == SortSeq(s, LAMBDA a, b : Before(a.name, b.name))

\* The rest of create_device() once the three directories have been read.
Completed(dev, content) ==
    LET named == [i \in 1..Len(dev.channels) |-> set_channel_name(dev.channels[i])]
        refused == \E i \in 1..Len(named) : ScanElementsRefused(named[i], content)
        read == [i \in 1..Len(named) |-> handle_scan_elements(named[i], content)]
        moved == detect_and_move_global_attrs([dev EXCEPT !.channels = read])
    IN  IF refused THEN [dev EXCEPT !.err = TRUE]
        ELSE [moved EXCEPT
                !.channels = [i \in 1..Len(@) |-> [@[i] EXCEPT !.attrs = SortedAttrs(@)]],
                !.attrs = SortedFiles(@), !.buffer_attrs = SortedFiles(@)]
=============================================================================
