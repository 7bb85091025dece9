----------------------------- MODULE TraceSources -----------------------------
(***************************************************************************)
(* Where replayed sessions come from: datagen/replay/trace_source.py,      *)
(* otel_trace_replay_datagen.py, and the slots, built on demand, of        *)
(* ReplayGraphSessionGeneratorBase.                                        *)
(*                                                                         *)
(* A file is [name, suffix, lines], and its document is one line if it is  *)
(* a .json.  A line is [kind, size, doc]: "blank", "broken" (no JSON),     *)
(* "other" (JSON, but no object) or "doc".  A document is [form, session,  *)
(* trace, spans]: an "otel" trace, one whose spans are no list             *)
(* ("strange"), a record on the "wire", a "probe" (a record that gives no  *)
(* span) or "none" of these.  A span is a call that is "sent", one without *)
(* messages ("mute") or no call ("other"), with its tokens.  An id is a    *)
(* sequence, empty for the empty string.                                   *)
(*                                                                         *)
(* What may be absent or fail is a sequence of at most one element.        *)
(***************************************************************************)
EXTENDS Integers, Sequences
LOCAL INSTANCE SequencesExt
LOCAL INSTANCE FiniteSets

Failed == <<>>
Nameless == <<>>
Given(id) == id \notin {<<>>, <<Nameless>>}

(* The rows of a file: its lines that are not blank.                       *)
Rows(file) == SelectSeq([k \in 1..Len(file.lines) |-> k], LAMBDA k : file.lines[k].kind # "blank")
RowLine(file, n) == file.lines[Rows(file)[n]]
Forms(file) == [n \in 1..Len(Rows(file)) |-> IF RowLine(file, n).kind = "doc" THEN RowLine(file, n).doc.form ELSE RowLine(file, n).kind]

(* detect_trace_format looks at the first row only.                        *)
Format(file) ==
    LET first == IF Rows(file) = <<>> THEN "blank" ELSE Forms(file)[1]
    IN CASE first \in {"otel", "strange"} -> <<IF file.suffix = ".jsonl" THEN "otel_jsonl" ELSE "otel_json">>
         [] first \in {"wire", "probe"} -> <<"wire">>
         [] OTHER -> Failed

(* derive_trace_id: the session of the first record's headers, else a hash *)
(* of the path.                                                            *)
TraceId(file) ==
    LET doc == RowLine(file, 1).doc IN IF Given(doc.session) THEN doc.session[1] ELSE <<"hash", file.name>>

(* iter_wire_spans: a row that is no object, or converts to no span, is    *)
(* left out; one that is no JSON fails the file.                           *)
WireSpans(file) ==
    IF \E n \in DOMAIN Forms(file) : Forms(file)[n] = "broken" THEN Failed
    ELSE <<FlattenSeq([n \in 1..Len(Rows(file)) |-> IF Forms(file)[n] = "wire" THEN RowLine(file, n).doc.spans ELSE <<>>])>>

ConvertWire(file) ==
    IF WireSpans(file) \in {Failed, <<<<>>>>} THEN Failed
    ELSE <<[form |-> "otel", session |-> <<>>, trace |-> <<TraceId(file)>>, spans |-> WireSpans(file)[1]]>>
-----------------------------------------------------------------------------
(* The index of a corpus *)

(* _otel_session_id *)
SessionId(doc, fallback) ==
    IF doc.session # <<>> THEN doc.session[1] ELSE IF Given(doc.trace) THEN doc.trace[1] ELSE fallback

(* Defect: blank lines are left out of the offsets too.                    *)
PackedOffset(file, n) == FoldLeft(+, 0, [k \in 1..(n - 1) |-> RowLine(file, k).size])

Offset(file, n) == FoldLeft(+, 0, [k \in 1..(Rows(file)[n] - 1) |-> file.lines[k].size])

(* _scan_jsonl_records: the byte ranges of the rows and, when they are     *)
(* validated, the ids in them.                                             *)
Scan(file, validate) ==
    IF validate /\ \E n \in DOMAIN Forms(file) : Forms(file)[n] # "otel" THEN Failed
    ELSE <<[n \in 1..Len(Rows(file)) |->
              [offset |-> Offset(file, n), length |-> RowLine(file, n).size,
               id |-> IF validate THEN SessionId(RowLine(file, n).doc, Nameless) ELSE Nameless]]>>

(* The fallback id of row n, counted from 1, of a file that has many.      *)
Stem(file, row) == IF row = <<>> THEN <<file.name>> ELSE <<file.name, row[1]>>
Row(count, n) == IF count > 1 THEN <<n - 1>> ELSE <<>>

Located(file, format, row, range, suffix) ==
    [file |-> file, format |-> format, row |-> row, range |-> range, suffix |-> suffix, source |-> <<file.name>> \o row]

(* _index_one *)
IndexOne(file, validate) ==
    LET rows == Scan(file, validate) IN
    CASE Format(file) = Failed -> Failed
      [] Format(file) = <<"otel_jsonl">> /\ rows # Failed ->
           <<[n \in 1..Len(rows[1]) |->
                LET row == Row(Len(rows[1]), n) IN
                Located(file, "otel_jsonl", row, <<rows[1][n].offset, rows[1][n].length>>,
                        IF rows[1][n].id = Nameless THEN Stem(file, row) ELSE rows[1][n].id)]>>
      [] Format(file) = <<"wire">> /\ (validate => ConvertWire(file) # Failed) ->
           <<<<Located(file, "wire", <<>>, <<>>, TraceId(file))>>>>
      [] Format(file) = <<"otel_json">> ->
           <<<<Located(file, "otel_json", <<>>, <<>>, SessionId(RowLine(file, 1).doc, Stem(file, <<>>)))>>>>
      [] OTHER -> Failed

(* A file that fails is left out, or fails the corpus.                     *)
Collected(made, skip) ==
    IF ~skip /\ \E k \in DOMAIN made : made[k] = Failed THEN Failed
    ELSE <<FlattenSeq([k \in DOMAIN made |-> IF made[k] = Failed THEN <<>> ELSE made[k][1]])>>
Index(files, validate, skip) == Collected([k \in DOMAIN files |-> IndexOne(files[k], validate)], skip)
-----------------------------------------------------------------------------
(* A record *)

(* _normalize_file_trace *)
SpanTokens(doc) == [k \in DOMAIN doc.spans |-> doc.spans[k].tokens]
Normalized(doc, file, row) ==
    [session |-> SessionId(doc, Stem(file, row)), source |-> file.name, spans |-> doc.spans,
     max_tokens |-> FoldLeft(LAMBDA a, b : IF b > a THEN b ELSE a, 0, SpanTokens(doc)),
     total_tokens |-> FoldLeft(+, 0, SpanTokens(doc))]

(* What is read from a byte range that is not a line is no JSON.           *)
LineAt(file, range) ==
    LET at == {k \in 1..Len(file.lines) :
                 FoldLeft(+, 0, [l \in 1..(k - 1) |-> file.lines[l].size]) = range[1] /\ file.lines[k].size = range[2]}
    IN IF at = {} THEN [kind |-> "broken"] ELSE file.lines[CHOOSE k \in at : TRUE]

(* _read_raw *)
ReadRaw(record) ==
    CASE record.format = "otel_jsonl" ->
           LET line == LineAt(record.file, record.range) IN IF line.kind = "doc" THEN <<line.doc>> ELSE Failed
      [] record.format = "wire" -> ConvertWire(record.file)
      [] record.format = "otel_json" -> <<RowLine(record.file, 1).doc>>

(* load_record *)
LoadRecord(record) ==
    LET raw == ReadRaw(record) IN
    IF raw = Failed \/ raw[1].form # "otel" THEN Failed ELSE <<Normalized(raw[1], record.file, record.row)>>

(* _filter_source and restrict_to, of a filter that asks for tokens *)
Filtered(records, least, skip) ==
    IF ~skip /\ \E k \in DOMAIN records : LoadRecord(records[k]) = Failed THEN Failed
    ELSE <<SelectSeq(records, LAMBDA r : LoadRecord(r) # Failed /\ LoadRecord(r)[1].total_tokens >= least)>>
-----------------------------------------------------------------------------
(* The sessions *)

(* Defect: every duplicate is of the first session.                        *)
OfTheFirst(n, count) == 1
SourceSlot(n, count) == ((n - 1) % count) + 1

(* __init__: the records in a shuffled order, and duplicates of them, one  *)
(* of each in turn, up to a target.                                        *)
Sessions(records, order, target) ==
    LET base == Len(order)
        count == IF target > base THEN target ELSE base
        Suffix(slot) == IF records[order[slot]].suffix = Nameless THEN <<"session", slot>> ELSE records[order[slot]].suffix
    IN [i \in 1..count |->
          LET dup == IF i > base THEN i - base ELSE 0
              slot == IF dup = 0 THEN i ELSE SourceSlot(dup, base)
          IN [id |-> [slot |-> slot, suffix |-> Suffix(slot), dup |-> dup],
              slot |-> slot, source |-> records[order[slot]].source]]

(* Defect: a slot is the record at its place.                              *)
InPlace(records, order, session) == records[session.slot]

RecordOf(records, order, session) == records[order[session.slot]]

(* The calls of a trace: its graph, which tells what is sent.              *)
Calls(row) == SelectSeq(row.spans, LAMBDA s : s.kind # "other")

(* _build_session and _process_trace_data: no session without a call.      *)
Built(session, row) ==
    IF row = Failed THEN <<>> ELSE IF Calls(row[1]) = <<>> THEN <<>> ELSE <<[id |-> session.id, source |-> session.source, row |-> row[1]]>>
BuildSession(records, order, session) == Built(session, LoadRecord(RecordOf(records, order, session)))

(* _build_session_schedule: a duplicate, and any session if that is asked  *)
(* for, gets a random string; a call without messages is no event.         *)
Schedule(built, inject) ==
    [random |-> inject \/ built.id.dup > 0, events |-> SelectSeq(Calls(built.row), LAMBDA s : s.kind = "sent")]

(* The slots: what each was built as, the schedule it has, how often a     *)
(* graph was asked for, and how many were skipped.                         *)
Slots(n) == [built |-> [i \in 1..n |-> <<>>], events |-> [i \in 1..n |-> <<>>], tries |-> [i \in 1..n |-> 0], skipped |-> 0]

(* Defect: a slot that came to nothing is built again.                     *)
OnlyIfBuilt(slots, i) == slots.built[i] # <<>>
Attempted(slots, i) == slots.built[i] # <<>> \/ slots.events[i] # <<>>

(* _ensure_session_built *)
EnsureBuilt(slots, i, made, inject) ==
    IF Attempted(slots, i) THEN slots
    ELSE IF made = <<>> THEN [slots EXCEPT !.events[i] = <<<<>>>>, !.skipped = @ + 1, !.tries[i] = @ + 1]
    ELSE [slots EXCEPT !.built[i] = made, !.events[i] = <<Schedule(made[1], inject).events>>, !.tries[i] = @ + 1]

(* is_session_buildable: a session without events is counted whenever it   *)
(* is looked at.                                                           *)
IsBuildable(slots, i) == slots.built[i] # <<>> /\ slots.events[i] # <<<<>>>>
Dispatched(slots, i, made, inject) ==
    LET after == EnsureBuilt(slots, i, made, inject)
    IN IF after.built[i] # <<>> /\ ~IsBuildable(after, i) THEN [after EXCEPT !.skipped = @ + 1] ELSE after

(* cleanup_session frees what was built, once a session has ended.         *)
Freed(slots, i) == IF slots.built[i] = <<>> THEN slots ELSE [slots EXCEPT !.built[i] = <<>>, !.events[i] = <<>>]
-----------------------------------------------------------------------------
(* Properties *)

(* _rows_for_file and _load_files_to_dataset: the eager reader, which      *)
(* tests keep as the reference of what a file holds.                       *)
EagerRows(file) ==
    LET count == Len(Rows(file)) IN
    CASE Format(file) = <<"otel_jsonl">> /\ (\A n \in 1..count : RowLine(file, n).kind = "doc") ->
           <<[n \in 1..count |-> Normalized(RowLine(file, n).doc, file, Row(count, n))]>>
      [] Format(file) = <<"wire">> /\ ConvertWire(file) # Failed -> <<<<Normalized(ConvertWire(file)[1], file, <<>>)>>>>
      [] Format(file) = <<"otel_json">> -> <<<<Normalized(RowLine(file, 1).doc, file, <<>>)>>>>
      [] OTHER -> Failed
EagerCorpus(files, skip) == Collected([k \in DOMAIN files |-> EagerRows(files[k])], skip)

(* The eager reader checks the schema of the first row of a corpus only.   *)
Regular(file) == Format(file) \in {<<"otel_json">>, <<"otel_jsonl">>} =>
    \A n \in DOMAIN Forms(file) : Forms(file)[n] \in {"otel", "broken", "other"}

(* What is read one record at a time, through an index, is what reading    *)
(* every file whole would give, in the same order, and fails with it       *)
(* (LocalTraceSource); so it is if nothing was validated when the index    *)
(* was made, and every file is sound.                                      *)
SameRows(index, eager) ==
    /\ (index = Failed) = (eager = Failed)
    /\ index # Failed => [k \in DOMAIN index[1] |-> LoadRecord(index[1][k])] = [k \in DOMAIN eager[1] |-> <<eager[1][k]>>]
LazyIsEager(files, validate, skip) ==
    (\A k \in DOMAIN files : Regular(files[k]) /\ (validate \/ EagerRows(files[k]) # Failed)) =>
        SameRows(Index(files, validate, skip), EagerCorpus(files, skip))

(* The id a session is scheduled under names the trace it replays.         *)
Labelled(row, record) ==
    row # Failed => (row[1].session # Nameless => row[1].session = record.suffix) /\ row[1].source = record.source[1]
LabelsAgree(index) ==
    index # Failed => \A k \in DOMAIN index[1] : Labelled(LoadRecord(index[1][k]), index[1][k])

(* A shuffled, filtered and duplicated corpus replays every accepted trace *)
(* that makes a call, from the trace a session is named for, and none that *)
(* was not accepted; no id is used twice, and no trace is replayed more    *)
(* often than another by more than one (OTelTraceReplayDataGenerator).     *)
Even(sessions, order) ==
    LET Times(slot) == Len(SelectSeq(sessions, LAMBDA s : s.slot = slot))
    IN /\ \A i, j \in DOMAIN sessions : i # j => sessions[i].id # sessions[j].id
       /\ \A k, l \in DOMAIN order : Times(k) <= Times(l) + 1
OfTheirTraces(made, loaded, least) ==
    /\ \A built \in made :
         /\ built.row.total_tokens >= least
         /\ built.row.source = built.source[1]
         /\ built.row.session # Nameless => built.row.session = built.id.suffix
    /\ {built.row : built \in made} = {raw[1] : raw \in {l \in loaded : l # Failed /\ Calls(l[1]) # <<>>}}
SessionsReplayTheirTraces(records, order, sessions, least) ==
    /\ Even(sessions, order)
    /\ OfTheirTraces(UNION {ToSet(BuildSession(records, order, sessions[i])) : i \in DOMAIN sessions},
                     {LoadRecord(r) : r \in ToSet(records)}, least)

(* Whatever is dispatched and cleaned up in whatever order, a dispatched   *)
(* session is there with its whole schedule; one that came to nothing is   *)
(* tried once, and one that did not whenever it is not there; and no       *)
(* skipped session goes uncounted (is_session_buildable).                  *)
SlotsAreBuiltOnDemand(ops, made) ==
    LET Step(slots, op) == IF op.op = "dispatch" THEN Dispatched(slots, op.slot, made[op.slot], FALSE) ELSE Freed(slots, op.slot)
        slots == FoldLeft(Step, Slots(Len(made)), ops)
        Ops(i, kind) == SelectSeq(ops, LAMBDA op : op.slot = i /\ op.op = kind)
        last == ops[Len(ops)].slot
    IN /\ \A i \in DOMAIN made : made[i] = <<>> => slots.tries[i] <= 1 /\ slots.built[i] = <<>>
       /\ \A i \in DOMAIN made : made[i] # <<>> => slots.tries[i] <= Len(Ops(i, "free")) + 1
       /\ ops # <<>> /\ ops[Len(ops)].op = "dispatch" /\ made[last] # <<>> =>
            slots.built[last] = made[last] /\ slots.events[last] = <<Schedule(made[last][1], FALSE).events>>
       /\ slots.skipped >= Cardinality({i \in DOMAIN made : Ops(i, "dispatch") # <<>> /\ (made[i] = <<>> \/ Schedule(made[i][1], FALSE).events = <<>>)})
=============================================================================
