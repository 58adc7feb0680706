----------------------------- MODULE RefleksFormat -----------------------------
(***************************************************************************)
(* ParseRefleksFile: how an uploaded .refleks file becomes the metadata of *)
(* a run.  A payload is a row of sections, each a length and as much data; *)
(* the parser reads them from a stream and never goes back, so a section   *)
(* that is not read to its end puts it out of step with all that follow.   *)
(*                                                                         *)
(* The stream is a sequence of atoms: words (32-bit lengths and counts),   *)
(* protobuf fields, mouse points and single bytes.  A length counts atoms, *)
(* and a payload that breaks off inside an atom lacks that atom.  The      *)
(* checksum has no collisions.  Points have one coordinate; the other is   *)
(* treated alike.  The time of the run is copied from the header and left  *)
(* out.                                                                    *)
(***************************************************************************)
EXTENDS Integers, Sequences, SequencesExt

CONSTANTS
    Files,          \* what clients write: the data of each section
    Strays,         \* atoms that may follow a payload
    Trim,           \* strings.TrimSpace: texts to texts
    None,           \* a nil pointer
    MaxFileName,    \* maxFileNameBytes
    MaxMousePoints,
    Half,           \* 2^31
    MaxSpelled,     \* bounds the number that misread bytes spell
    Garbled         \* the fields that misread bytes spell

Sections == {"filename", "stats", "performances", "mouse", "environment"}

\* What atoms consist of.  Of the fields, those of number 20 that are whole are
\* integers; it is the only number whose value is computed with.
IsAtom(a) ==
    /\ a.is = "word" => a.n \in Nat
    /\ a.is = "point" => a.ts \in Int /\ a.x \in Int
    /\ a.is = "field" /\ a.form = "whole" /\ a.num = 20 => a.val \in Int

Forms == {"whole", "other_type", "cut", "malformed", "bad_tag"}

\* A client writes fields into the statistics and the environment, and the
\* summary in the statistics consists of fields again.
ASSUME FormatAssumption ==
    /\ \A f \in Files : \A s \in Sections :
        f[s] \in Seq(Range(f[s])) /\ \A a \in Range(f[s]) : IsAtom(a)
    /\ \A f \in Files :
        /\ \A a \in Range(f.environment) : a.is = "field"
        /\ \A a \in Range(f.stats) :
            /\ a.is = "field" /\ a.form \in Forms
            /\ a.form = "whole" /\ a.num = 1 => a.val \in Seq(Range(a.val))
    /\ \A a \in Strays \cup Garbled : IsAtom(a)
    /\ \A a \in Garbled : a.is = "field"
    /\ MaxFileName \in Nat /\ MaxMousePoints \in Nat /\ MaxSpelled \in Nat
    /\ Half \in Nat \ {0}

VARIABLES
    stage,      \* the section about to be read, or how far the parser is else
    written,    \* the file as its client wrote it
    raw,        \* what arrived: header, compression, checksum, payload
    rest,       \* the part of the decoded payload that is still to be read
    parsed      \* the metadata found so far

vars == <<stage, written, raw, rest, parsed>>

-----------------------------------------------------------------------------
(* The file as it is written.                                              *)

Word(n) == [is |-> "word", n |-> n]

Section(data) == <<Word(Len(data))>> \o data

FromEnvironment(f) == Section(f.environment) \o <<>>
FromMouse(f) == Section(f.mouse) \o FromEnvironment(f)
FromPerformances(f) == Section(f.performances) \o FromMouse(f)
FromStats(f) == Section(f.stats) \o FromPerformances(f)
Encode(f) == Section(f.filename) \o FromStats(f)

\* A mouse section of the format: nothing, or a count and as many points.
MouseIsExact(f) ==
    f.mouse # <<>> =>
        /\ f.mouse[1] = Word(Len(f.mouse) - 1)
        /\ \A i \in 2 .. Len(f.mouse) : f.mouse[i].is = "point"

-----------------------------------------------------------------------------
(* Fields.  A field has a number, a value and a form: whole; of another    *)
(* wire type than the reader of its number expects; cut short (protowire   *)
(* answers -1); malformed (another negative answer); or its tag is bad.    *)

SummarySlots ==
    [n \in {19, 1, 44, 6, 45, 47, 46} |->
        CASE n = 19 -> "scenario" [] n = 1 -> "score" [] n = 44 -> "accuracy"
          [] n \in {6, 45} -> "avgTTK" [] n = 47 -> "duration" [] n = 46 -> "cm360"]

EnvironmentSlots ==
    [n \in {5, 6, 16, 17, 20} |->
        CASE n = 5 -> "steamID" [] n = 6 -> "personaName" [] n = 16 -> "mouseVID"
          [] n = 17 -> "mousePID" [] n = 20 -> "tracePoints"]

TextSlots == {"scenario", "steamID", "personaName", "mouseVID", "mousePID"}

Unset(slot) ==
    CASE slot \in TextSlots -> "" [] slot = "tracePoints" -> 0
      [] slot \notin TextSlots \cup {"tracePoints"} -> None

\* Slip: a count is taken as it is.
NotNarrowed(v) == v

\* int32(v): the low 32 bits, with their sign.
Narrow(v) == ((v + Half) % (2 * Half)) - Half

Stored(slot, v) ==
    CASE slot \in TextSlots -> Trim[v] [] slot = "tracePoints" -> Narrow(v)
      [] slot \notin TextSlots \cup {"tracePoints"} -> v

\* Slip: the answer -1 is not tested either.
CutPanics(slots, loop, field) ==
    IF loop.end # "no" THEN loop
    ELSE CASE field.form = "bad_tag" -> [loop EXCEPT !.end = "left"]
           [] field.form \in {"malformed", "cut"} -> [loop EXCEPT !.end = "panic"]
           [] field.form = "whole" /\ field.num \in DOMAIN slots ->
                [loop EXCEPT !.got[slots[field.num]] = Stored(slots[field.num], field.val)]
           [] OTHER -> loop

\* One round of the loop over the fields of a summary or an environment: the
\* loop leaves at a bad tag and at the answer -1, and any other negative answer
\* is used as a slice bound.
ReadField(slots, loop, field) ==
    IF loop.end # "no" THEN loop
    ELSE CASE field.form \in {"bad_tag", "cut"} -> [loop EXCEPT !.end = "left"]
           [] field.form = "malformed" -> [loop EXCEPT !.end = "panic"]
           [] field.form = "whole" /\ field.num \in DOMAIN slots ->
                LET slot == slots[field.num]
                IN  [loop EXCEPT !.got[slot] = Stored(slot, field.val)]
           [] OTHER -> loop

ReadFields(slots, fields) ==
    LET loop[i \in 0 .. Len(fields)] ==
            IF i = 0 THEN [end |-> "no", got |-> [s \in Range(slots) |-> Unset(s)]]
            ELSE ReadField(slots, loop[i - 1], fields[i])
    IN  loop[Len(fields)]

\* RunStatsData: the first summary is taken, and the loop leaves there or at
\* the first field that cannot be consumed, whatever the reason.
SummaryIn(fields) ==
    LET leaves == {i \in DOMAIN fields :
                    \/ fields[i].form \in {"bad_tag", "cut", "malformed"}
                    \/ fields[i].num = 1 /\ fields[i].form = "whole"}
    IN  IF leaves = {} THEN <<>>
        ELSE LET last == fields[CHOOSE i \in leaves : \A j \in leaves : i <= j]
             IN  IF last.form = "whole" THEN last.val ELSE <<>>

-----------------------------------------------------------------------------
(* Points.                                                                 *)

\* The distance of two points; x - prevX is computed in 32 bits.
Distance(p, q) == LET d == Narrow(q.x - p.x) IN IF d < 0 THEN -d ELSE d

\* From one point to the next: only a growing time counts.  Times are less than
\* 2^63 apart, so their difference does not wrap.
Move(way, p, q) ==
    IF q.ts > p.ts THEN [dist |-> way.dist + Distance(p, q),
                         millis |-> way.millis + q.ts - p.ts]
    ELSE way

\* The average speed over the points, as a distance and a time.
Speed(points) ==
    LET way[i \in 0 .. Len(points)] ==
            IF i < 2 THEN [dist |-> 0, millis |-> 0]
            ELSE Move(way[i - 1], points[i - 1], points[i])
        all == way[Len(points)]
    IN  IF all.millis > 0 THEN all ELSE None

-----------------------------------------------------------------------------
(* What arrives.                                                           *)

\* The file in one of the two packings, with a header that says which.
Intact(f, c) == [header |-> "good", packed |-> c, declared |-> c,
                 sum |-> TRUE, ends |-> TRUE, payload |-> Encode(f)]

Arrives(f, r) ==
    /\ stage' = "header" /\ written' = f /\ raw' = r
    /\ UNCHANGED <<rest, parsed>>

ArriveWhole == \E f \in Files, c \in {"none", "zstd"} : Arrives(f, Intact(f, c))

\* The header is not covered by the checksum: any byte of it may be wrong.
ArriveMislabelled ==
    \E f \in Files, p \in {"none", "zstd"} :
        \/ \E h \in {"small", "magic", "version"} :
            Arrives(f, [Intact(f, p) EXCEPT !.header = h])
        \/ \E c \in {"none", "zstd", "unknown"} \ {p} :
            Arrives(f, [Intact(f, p) EXCEPT !.declared = c])

\* The payload breaks off or has something behind it.  The checksum is that of
\* the original, or was computed afterwards.  A zstd stream that breaks off
\* ends in an error, and may do so when all atoms are decoded.
ArriveDamaged ==
    \E f \in Files, s \in BOOLEAN, c \in {"none", "zstd"} :
        \/ \E n \in 0 .. Len(Encode(f)) - 1 :
            Arrives(f, [Intact(f, c) EXCEPT !.sum = s, !.ends = (c = "none"),
                                            !.payload = SubSeq(Encode(f), 1, n)])
        \/ \E x \in Strays :
            Arrives(f, [Intact(f, c) EXCEPT !.sum = s, !.payload = Append(Encode(f), x)])
        \/ c = "zstd" /\ Arrives(f, [Intact(f, c) EXCEPT !.sum = s, !.ends = FALSE])

Arrive == stage = "idle" /\ (ArriveWhole \/ ArriveMislabelled \/ ArriveDamaged)

-----------------------------------------------------------------------------
(* The parser.                                                             *)

Blank ==
    [fileName |-> <<>>, trace |-> FALSE, speed |-> None,
     stats |-> ReadFields(SummarySlots, <<>>).got,
     environment |-> ReadFields(EnvironmentSlots, <<>>).got]

Reject ==
    /\ stage' = "rejected"
    /\ UNCHANGED <<written, raw, rest, parsed>>

CheckHeader ==
    /\ stage = "header"
    /\ IF raw.header = "good" /\ raw.sum
       THEN /\ stage' = "decoder"
            /\ UNCHANGED <<written, raw, rest, parsed>>
       ELSE Reject

\* zstd refuses plain bytes, and the first four bytes of a zstd stream, read as
\* the length of the file name, are beyond maxFileNameBytes.
OpenDecoder ==
    /\ stage = "decoder"
    /\ IF raw.declared = raw.packed
       THEN /\ stage' = "filename"
            /\ rest' = raw.payload
            /\ parsed' = Blank
            /\ UNCHANGED <<written, raw>>
       ELSE Reject

\* The numbers that the next word may be read as.
Lengths == IF rest = <<>> THEN {}
           ELSE IF rest[1].is = "word" THEN {rest[1].n} ELSE 0 .. MaxSpelled

Data(n) == SubSeq(rest, 2, n + 1)

\* The fields that data may be read as.
Readings(data) ==
    {fields \in [DOMAIN data -> Garbled \cup Range(data)] :
        \A i \in DOMAIN data : IF data[i].is = "field" THEN fields[i] = data[i]
                               ELSE fields[i] \in Garbled}

\* The section of n atoms is read to its end.
Advance(n, next) ==
    /\ stage' = next
    /\ rest' = SubSeq(rest, n + 2, Len(rest))
    /\ UNCHANGED <<written, raw>>

\* The length or the data are not all there.
SectionBreaksOff ==
    /\ stage \in Sections \ {"mouse"}
    /\ rest = <<>> \/ \E n \in Lengths : n >= Len(rest)
    /\ Reject

ReadName ==
    /\ stage = "filename"
    /\ \E n \in Lengths :
        /\ n < Len(rest)
        /\ IF n \in 1 .. MaxFileName
           THEN Advance(n, "stats") /\ parsed' = [parsed EXCEPT !.fileName = Data(n)]
           ELSE Reject

Panic ==
    /\ stage' = "panicked"
    /\ UNCHANGED <<written, raw, rest, parsed>>

ReadStats ==
    /\ stage = "stats"
    /\ \E n \in Lengths :
        /\ n < Len(rest)
        /\ \E fields \in Readings(Data(n)) :
            LET loop == ReadFields(SummarySlots, SummaryIn(fields))
            IN  IF loop.end = "panic" THEN Panic
                ELSE /\ Advance(n, "performances")
                     /\ parsed' = [parsed EXCEPT !.stats = loop.got]

\* Slip: the length is read and the data left where they are.
SkipLengthOnly ==
    /\ stage = "performances"
    /\ \E n \in Lengths : n < Len(rest) /\ Advance(0, "mouse")
    /\ UNCHANGED parsed

SkipPerformances ==
    /\ stage = "performances"
    /\ \E n \in Lengths : n < Len(rest) /\ Advance(n, "mouse")
    /\ UNCHANGED parsed

\* The points at the head of the section: no more than its length allows.
PointsAhead(size, count) ==
    \A i \in 1 .. count : i < size /\ i + 2 <= Len(rest) /\ rest[i + 2].is = "point"

\* The mouse section is left behind its last counted point, or behind a count
\* of zero, and not at its declared length.  Where something else stands in the
\* place of the count, its bytes are taken to spell one that MouseFails rejects.
ReadMouse ==
    /\ stage = "mouse"
    /\ \/ \E size \in Lengths :
            \/ /\ size = 0
               /\ Advance(0, "environment")
               /\ UNCHANGED parsed
            \/ /\ size > 0 /\ Len(rest) > 1 /\ rest[2].is = "word"
               /\ LET count == rest[2].n
                  IN  /\ count <= MaxMousePoints
                      /\ PointsAhead(size, count)
                      /\ Advance(count + 1, "environment")
                      /\ parsed' = [parsed EXCEPT
                            !.trace = count > 0,
                            !.speed = Speed(SubSeq(rest, 3, count + 2))]

\* No length, no room for a count, too many points, or too few of them there.
MouseFails ==
    /\ stage = "mouse"
    /\ \/ rest = <<>>
       \/ \E size \in Lengths \ {0} :
            Len(rest) > 1 /\ rest[2].is = "word" =>
                rest[2].n > MaxMousePoints \/ ~PointsAhead(size, rest[2].n)
    /\ Reject

ReadEnvironment ==
    /\ stage = "environment"
    /\ \E n \in Lengths :
        /\ n < Len(rest)
        /\ \E fields \in Readings(Data(n)) :
            LET loop == ReadFields(EnvironmentSlots, fields)
            IN  IF loop.end = "panic" THEN Panic
                ELSE /\ Advance(n, "eof")
                     /\ parsed' = [parsed EXCEPT !.environment = loop.got]

\* Slip: what follows the environment is not looked at.
AcceptAnyEnd ==
    /\ stage = "eof"
    /\ stage' = "accepted"
    /\ parsed' = [parsed EXCEPT !.trace = @ \/ parsed.environment.tracePoints > 0]
    /\ UNCHANGED <<written, raw, rest>>

EnsureEOF ==
    /\ stage = "eof"
    /\ IF rest = <<>> /\ raw.ends
       THEN /\ stage' = "accepted"
            /\ parsed' = [parsed EXCEPT !.trace = @ \/ parsed.environment.tracePoints > 0]
            /\ UNCHANGED <<written, raw, rest>>
       ELSE Reject

Answered == {"accepted", "rejected", "panicked"}

Return ==
    /\ stage \in Answered
    /\ stage' = "idle" /\ written' = None /\ raw' = None
    /\ rest' = <<>> /\ parsed' = Blank

Init ==
    /\ stage = "idle" /\ written = None /\ raw = None
    /\ rest = <<>> /\ parsed = Blank

ParsePayload ==
    \/ SectionBreaksOff \/ ReadName \/ ReadStats \/ SkipPerformances
    \/ ReadMouse \/ MouseFails \/ ReadEnvironment \/ EnsureEOF

ParseRefleksFile == CheckHeader \/ OpenDecoder \/ ParsePayload

Next == Arrive \/ ParseRefleksFile \/ Return

Spec == Init /\ [][Next]_vars

-----------------------------------------------------------------------------
(* What the parser promises.                                               *)

\* The type invariant; a count of trace points fits in 32 bits.
ParserTypeOK ==
    /\ stage \in Sections \cup Answered \cup {"idle", "header", "decoder", "eof"}
    /\ parsed.trace \in BOOLEAN
    /\ DOMAIN parsed.stats = Range(SummarySlots)
    /\ DOMAIN parsed.environment = Range(EnvironmentSlots)
    /\ parsed.environment.tracePoints \in -Half .. Half - 1

\* What lies ahead of the parser when it is about to read a section.
Ahead(f, s) ==
    CASE s = "filename" -> Encode(f)
      [] s = "stats" -> FromStats(f)
      [] s = "performances" -> FromPerformances(f)
      [] s = "mouse" -> FromMouse(f)
      [] s = "environment" -> FromEnvironment(f)
      [] s = "eof" -> <<>>

\* The parser is in step: before each section it has that section and those
\* behind it in front of it.  A mouse section that is longer than its count
\* says is not skipped to its end (refleks_format.go:306 and 357), so this
\* holds for files whose mouse section is exact.
SectionsInStep ==
    \A s \in Sections \cup {"eof"} :
        stage = s /\ raw.payload = Encode(written) /\ MouseIsExact(written) =>
            rest = Ahead(written, s)

\* The value of a slot: that of its last whole field, before the field that
\* ends the section, if one does.
ValueOf(fields, slots, s) ==
    LET reached == {i \in DOMAIN fields : \A j \in 1 .. i :
                        fields[j].form \notin {"bad_tag", "cut", "malformed"}}
        at == {i \in reached : /\ fields[i].form = "whole"
                               /\ fields[i].num \in DOMAIN slots
                               /\ slots[fields[i].num] = s}
    IN  IF at = {} THEN Unset(s)
        ELSE Stored(s, fields[CHOOSE i \in at : \A j \in at : j <= i].val)

Summary(fields) ==
    LET skipped(i) == \/ fields[i].form = "other_type"
                      \/ fields[i].form = "whole" /\ fields[i].num # 1
        summaries == {i \in DOMAIN fields : /\ fields[i].form = "whole"
                                            /\ fields[i].num = 1
                                            /\ \A j \in 1 .. i - 1 : skipped(j)}
    IN  IF summaries = {} THEN <<>> ELSE fields[CHOOSE i \in summaries : TRUE].val

Points(f) == IF f.mouse = <<>> THEN <<>> ELSE Tail(f.mouse)

\* The metadata of a file, told from what its client wrote.
Metadata(f) ==
    LET points == Points(f)
        grows == {i \in 1 .. Len(points) - 1 : points[i].ts < points[i + 1].ts}
        traces == ValueOf(f.environment, EnvironmentSlots, "tracePoints")
    IN  [fileName |-> f.filename,
         stats |-> [s \in Range(SummarySlots) |-> ValueOf(Summary(f.stats), SummarySlots, s)],
         environment |-> [s \in Range(EnvironmentSlots) |->
                            ValueOf(f.environment, EnvironmentSlots, s)],
         trace |-> points # <<>> \/ traces > 0,
         speed |-> IF grows = {} THEN None
                   ELSE [dist |-> SumFunction([i \in grows |-> Distance(points[i], points[i + 1])]),
                         millis |-> SumFunction([i \in grows |-> points[i + 1].ts - points[i].ts])]]

\* A file that is accepted arrived as it was written, even where the checksum
\* does not cover it (compression) or was computed after the damage, and its
\* metadata are those that its client wrote.
AcceptedAsWritten ==
    stage = "accepted" /\ MouseIsExact(written) =>
        /\ raw.payload = Encode(written) /\ raw.sum /\ raw.ends
        /\ raw.declared = raw.packed
        /\ parsed = Metadata(written)

Writable(f) ==
    /\ Len(f.filename) \in 1 .. MaxFileName
    /\ MouseIsExact(f) /\ Len(Points(f)) <= MaxMousePoints

\* A file that was written within the limits and arrived whole is not rejected.
GoodFilesAreTaken ==
    ~(/\ stage = "rejected" /\ Writable(written)
      /\ raw.header = "good" /\ raw.sum /\ raw.ends /\ raw.declared = raw.packed
      /\ raw.payload = Encode(written))

\* Only a malformed field of a summary or an environment makes the parser panic.
PanicsOnMalformedOnly ==
    stage = "panicked" /\ MouseIsExact(written) =>
        \E fields \in {written.environment, Summary(written.stats)} :
            \E i \in DOMAIN fields : fields[i].form = "malformed"

\* Every answer has its reason in the file or in its transport.
VerdictIsDue == GoodFilesAreTaken /\ PanicsOnMalformedOnly
=============================================================================
