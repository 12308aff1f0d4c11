-------------------------- MODULE GenericCollector --------------------------
(* The collector of one generic Job: a process of its own that, on a timer,  *)
(* calls the Job's Methods in order, decodes what they answer, transforms it *)
(* and appends it to the Machbase table through one stream.  JavaScript runs *)
(* a cycle to its end, so a signal to stop is heard between cycles only.     *)
EXTENDS Integers, Sequences, FiniteSets, Functions

CONSTANTS Jobs,        \* the Jobs it may be started with
          MaxCycles,   \* bound on the cycles
          MaxBuffered  \* maxBufferedRowsPerCycle

(* A Job has a savePolicy, calls, and perhaps a stringValueColumn.  A call   *)
(* names the bus it goes to (type and destination), the types its Method     *)
(* returns, and selections, or only tags when it is of the first version.    *)
(* A selection takes output src, as JSON text if json, and reads from it     *)
(* what type (and elem, for arrays) says; one of the first version has a     *)
(* mode instead.  A tag has a bias and a multiplier, in halves.              *)

VARIABLES job, stream, bus, cycle, at, buffer, counts, failed, table,
          results, last, failures, stopped,
          summary,  \* failures and retries since the last summary in the log
          told,     \* ghost: failures the log tells of
          unsure    \* ghost: cycles in which an append broke off
vars == <<job, stream, bus, cycle, at, buffer, counts, failed, table,
          results, last, failures, stopped, summary, told, unsure>>
reports == <<results, last, failures, summary, told>>

NumericTypes == {"double"}
StringTypes  == {"string"}
-----------------------------------------------------------------------------
(* Values and their decoding.  Since a selection has a tag at least, no      *)
(* values, and no rows, stand for a failure.                                *)

Num(n) == [k |-> "num", n |-> n]
Text   == [k |-> "str"]
Bool   == [k |-> "bool"]
List(s) == [k |-> "list", of |-> s]
Json(v) == [k |-> "json", of |-> v]     \* a string that is the JSON of v

IsText(v) == v.k \in {"str", "json"}

\* nativeValueType: "none" has no decoder of its own.
Native(type) == CASE type \in NumericTypes -> "numeric" [] type \in StringTypes -> "string"
                  [] type = "boolean" -> "json" [] OTHER -> "none"
Kind(sel, type) == IF sel.type = "none" THEN Native(type) ELSE sel.type

\* validateSelectedValue
Fits(v, kind) == \/ kind = "numeric" /\ v.k = "num"
                 \/ kind = "string" /\ IsText(v)
                 \/ kind = "json"

\* decodeSelection: the values of a selection, one for each of its tags.
Decoded(sel, body, types) ==
    LET raw == body[sel.src]
        bad == sel.json /\ raw.k # "json"
        v == IF sel.json THEN raw.of ELSE raw
        kind == Kind(sel, types[sel.src])
        vs == CASE bad -> << >>
                [] ~bad /\ sel.mode = "single" -> <<v>>
                [] ~bad /\ sel.mode = "each" -> IF v.k = "list" THEN v.of ELSE << >>
                [] ~bad /\ sel.mode = "none" /\ kind = "array" ->
                     IF v.k = "list" /\ \A i \in DOMAIN v.of : Fits(v.of[i], sel.elem) THEN v.of ELSE << >>
                [] OTHER -> IF Fits(v, kind) THEN <<v>> ELSE << >>
    IN IF Len(vs) = Len(sel.tags) THEN vs ELSE << >>

\* decodeOutput for calls of the first version: raw, of whatever shape.
DecodedOutput(body, n) ==
    LET v == IF Len(body) = 1 THEN body[1] ELSE List(body)
        vs == IF v.k = "list" THEN v.of ELSE <<v>>
    IN IF Len(vs) = n THEN vs ELSE << >>

\* transformValue, in quarters.
Transformed(n, tag) ==
    IF tag.first = "bias" THEN (2 * n + tag.bias) * tag.mult ELSE 2 * n * tag.mult + 2 * tag.bias
-----------------------------------------------------------------------------
(* Rows.                                                                    *)

RowKinds == {"num", "str", "odd"}
Row(i, tag, kind, n) == [call |-> i, tag |-> tag.name, kind |-> kind, n |-> n]

\* rowsFor: a value that is a string is stored as one.
Plain(i, tag, v) ==
    CASE v.k = "num" -> Row(i, tag, "num", Transformed(v.n, tag))
      [] IsText(v) -> Row(i, tag, "str", 0)
      [] OTHER -> Row(i, tag, "odd", 0)

\* selectionValueType
ValueType(sel, type) ==
    IF sel.type = "array" THEN sel.elem
    ELSE IF sel.type # "none" THEN sel.type
    ELSE IF type \in NumericTypes THEN "numeric"
    ELSE IF type \in StringTypes THEN "string" ELSE "json"

RowsOfSelection(i, sel, vs, type) ==
    {IF sel.mode # "none" \/ ValueType(sel, type) = "numeric"
     THEN Plain(i, sel.tags[t], vs[t]) ELSE Row(i, sel.tags[t], "str", 0) : t \in DOMAIN vs}

\* What a call's answer becomes, or nothing if it cannot be decoded.
RowsOf(i, call, body) ==
    IF call.sels = << >>
    THEN LET vs == DecodedOutput(body, Len(call.tags)) IN
         {Plain(i, call.tags[t], vs[t]) : t \in DOMAIN vs}
    ELSE LET vs(s) == Decoded(call.sels[s], body, call.types) IN
         IF \E s \in DOMAIN call.sels : vs(s) = << >> THEN {}
         ELSE UNION {RowsOfSelection(i, call.sels[s], vs(s), call.types[call.sels[s].src]) : s \in DOMAIN call.sels}

\* writableRows: without a column for strings they are left out.
Writable(rows) == IF job.strings THEN rows ELSE {r \in rows : r.kind # "str"}

Tags(call) == IF call.sels = << >> THEN Range(call.tags)
              ELSE UNION {Range(call.sels[s].tags) : s \in DOMAIN call.sels}

\* Mutant: what the Method declares decides, whatever the selection asks for.
StorageType_Declared(sel, type) == IF type \in NumericTypes THEN "numeric" ELSE "string"

\* selectionStorageType, jobNeedsStringValueColumn: asked when a Job is saved.
StorageType(sel, type) ==
    LET set == IF sel.type = "array" THEN sel.elem ELSE sel.type
    IN IF set # "none" THEN IF set = "numeric" THEN "numeric" ELSE "string"
       ELSE IF type \in NumericTypes THEN "numeric" ELSE "string"
NeedsStrings(calls) ==
    \E i \in DOMAIN calls :
      IF calls[i].sels = << >> THEN calls[i].types[1] \notin NumericTypes
      ELSE \E s \in DOMAIN calls[i].sels :
             StorageType(calls[i].sels[s], calls[i].types[calls[i].sels[s].src]) = "string"

\* tagMayProduceFractionalValue, jobMayProduceFractionalValue
MayBeFractional(tag) ==
    \/ tag.mult % 2 # 0
    \/ IF tag.first = "mult" THEN tag.bias % 2 # 0 ELSE (tag.bias * tag.mult) % 4 # 0
Fractional(calls) ==
    \E i \in DOMAIN calls : \E t \in Tags(calls[i]) : MayBeFractional(t)
-----------------------------------------------------------------------------
(* What the validator accepts as a Job, and what a Method may answer: the    *)
(* numbers are integers, and a Method that declares a number answers one.    *)

IsSeq(s) == s \in Seq(Range(s))
Whole(v) == v.k = "num" => v.n \in Int
Shaped(v) == Whole(v) /\ (v.k = "list" => IsSeq(v.of) /\ \A x \in Range(v.of) : Whole(x))
AnswerFits(v, type) == /\ Shaped(v) /\ (v.k = "json" => Shaped(v.of))
                       /\ type \in NumericTypes => v.k = "num"

\* validateMethodCall
SelectionFits(sel, types) ==
    /\ sel.src \in DOMAIN types /\ IsSeq(sel.tags) /\ sel.json \in BOOLEAN
    /\ sel.mode \in {"none", "single", "each"} /\ (sel.mode # "none" => sel.type = "none")
    /\ sel.type \in {"none", "numeric", "string", "json", "array"}
    /\ sel.type = "array" => sel.elem \in {"numeric", "string", "json"}
CallFits(call) ==
    /\ IsSeq(call.types) /\ call.types # << >> /\ IsSeq(call.sels) /\ IsSeq(call.tags)
    /\ \A sel \in Range(call.sels) : SelectionFits(sel, call.types)
    /\ \A t \in Tags(call) : t.bias \in Int /\ t.mult \in Int /\ t.first \in {"bias", "mult"}
    /\ \A o \in DOMAIN call.types : \A v \in call.answers[o] : AnswerFits(v, call.types[o])
ConstantsFit ==
    \A j \in Jobs : IsSeq(j.calls) /\ \A call \in Range(j.calls) : CallFits(call)
-----------------------------------------------------------------------------
(* A cycle.  cycle is its number and at the next call; 0 between cycles.    *)

Idle == at = 0
Calls == job.calls

\* flush: the first failure was told at once, the others here.
Flush(f, r) == IF f > 1 \/ r > 1 THEN IF f > 1 THEN f - 1 ELSE 0 ELSE 0

\* onResult and onSchedule, with a summary when it is due.
Report(status, c, n) ==
    LET bad == IF status = "success" THEN 0 ELSE 1
        f == summary.failed + bad
        first == IF bad = 1 /\ f = 1 THEN 1 ELSE 0
    IN /\ results' = Append(results, status)
       /\ last' = [run |-> c, error |-> bad = 1,
                   success |-> IF bad = 0 THEN c ELSE last.success,
                   stored |-> IF n > 0 THEN c ELSE last.stored]
       /\ failures' = IF bad = 0 THEN 0 ELSE failures + 1
       /\ \/ /\ told' = told + first + Flush(f, summary.retries)
             /\ summary' = [failed |-> 0, retries |-> bad]
          \/ /\ told' = told + first
             /\ summary' = [failed |-> f, retries |-> summary.retries + bad]

\* setupFailure
OpenFails ==
    /\ stream = "closed"
    /\ Report("failed", cycle + 1, 0)
    /\ cycle' = cycle + 1
    /\ UNCHANGED <<job, stream, bus, at, buffer, counts, failed, table, stopped, unsure>>

Begin ==
    /\ stream' = "open"
    /\ cycle' = cycle + 1 /\ at' = 1
    /\ buffer' = {} /\ counts' = [i \in DOMAIN Calls |-> 0] /\ failed' = 0
    /\ UNCHANGED <<job, bus, table, reports, stopped, unsure>>

Execute == Idle /\ ~stopped /\ cycle < MaxCycles /\ (OpenFails \/ Begin)

\* The adapter keeps one connection and closes it when a call goes wrong.
CallFails ==
    /\ at \in DOMAIN Calls /\ failed = 0
    /\ failed' = at /\ bus' = "none"
    /\ UNCHANGED <<job, stream, cycle, at, buffer, counts, table, reports, stopped, unsure>>

\* connected: one connection is kept; another bus gets another one.
Connected(call) == bus' = call.bus

\* What the Method may answer has the types it declares.
Answers(call) == {body \in [DOMAIN call.types -> UNION Range(call.answers)] :
                    \A i \in DOMAIN body : body[i] \in call.answers[i]}

Stamp(rows) == {[cycle |-> cycle, call |-> r.call, tag |-> r.tag, kind |-> r.kind, n |-> r.n] : r \in rows}

\* Row by row, then a flush; whatever fails, the stream is closed, and what of
\* the rows was stored is not known.
AppendRows(rows) ==
    \/ /\ table' = table \cup Stamp(rows) /\ UNCHANGED <<stream, unsure, failed>>
    \/ /\ rows # {}
       /\ \E kept \in SUBSET rows : table' = table \cup Stamp(kept)
       /\ stream' = "closed" /\ unsure' = unsure \cup {cycle} /\ failed' = at

Called ==
    /\ at \in DOMAIN Calls /\ failed = 0
    /\ Connected(Calls[at])
    /\ \E body \in Answers(Calls[at]) :
            LET got == RowsOf(at, Calls[at], body) IN
            IF got = {}
            THEN failed' = at /\ UNCHANGED <<at, stream, buffer, counts, table, unsure>>
            ELSE LET rows == Writable(got) IN
                 IF job.policy = "perMethod"
                 THEN /\ AppendRows(rows) /\ UNCHANGED buffer
                      /\ IF failed' = 0 THEN counts' = [counts EXCEPT ![at] = Cardinality(rows)] /\ at' = at + 1
                         ELSE UNCHANGED <<counts, at>>
                 ELSE IF Cardinality(buffer) + Cardinality(rows) > MaxBuffered
                 THEN failed' = at /\ UNCHANGED <<at, stream, buffer, counts, table, unsure>>
                 ELSE buffer' = buffer \cup rows /\ at' = at + 1
                      /\ UNCHANGED <<failed, stream, counts, table, unsure>>
    /\ UNCHANGED <<job, cycle, reports, stopped>>

Stored == {i \in DOMAIN counts : counts[i] > 0}

Status(n) == IF failed # 0 THEN IF n > 0 THEN "partial" ELSE "failed" ELSE "success"

\* The end of the calls: a buffer is appended now.
Finish ==
    /\ at = Len(Calls) + 1 /\ failed = 0 /\ job.policy = "afterAllMethods" /\ buffer # {}
    /\ AppendRows(buffer) /\ buffer' = {}
    /\ counts' = IF failed' = 0 THEN [i \in DOMAIN Calls |-> Cardinality({r \in buffer : r.call = i})] ELSE counts
    /\ UNCHANGED <<job, bus, cycle, at, reports, stopped>>

Complete ==
    /\ at # 0
    /\ failed # 0 \/ (at = Len(Calls) + 1 /\ (job.policy = "perMethod" \/ buffer = {}))
    /\ Report(Status(Cardinality(Stored)), cycle, Cardinality(Stored))
    /\ at' = 0 /\ buffer' = {}
    /\ UNCHANGED <<job, stream, bus, cycle, counts, failed, table, stopped, unsure>>

Shutdown ==
    /\ Idle /\ ~stopped
    /\ stopped' = TRUE /\ bus' = "none" /\ stream' = "closed"
    /\ told' = told + Flush(summary.failed, summary.retries)
    /\ summary' = [failed |-> 0, retries |-> 0]
    /\ UNCHANGED <<job, cycle, at, buffer, counts, failed, table, results, last, failures, unsure>>

Init ==
    /\ job \in Jobs
    /\ stream = "closed" /\ bus = "none" /\ cycle = 0 /\ at = 0
    /\ buffer = {} /\ counts = << >> /\ failed = 0 /\ table = {}
    /\ results = << >> /\ last = [run |-> 0, error |-> FALSE, success |-> 0, stored |-> 0]
    /\ failures = 0 /\ summary = [failed |-> 0, retries |-> 0] /\ told = 0 /\ stopped = FALSE /\ unsure = {}

Next == Execute \/ CallFails \/ Called \/ Finish \/ Complete \/ Shutdown
Spec == Init /\ [][Next]_vars
-----------------------------------------------------------------------------
RowsIn(c) == {r \in table : r.cycle = c}
AllTags == UNION {{<<i, t.name>> : t \in Tags(Calls[i])} : i \in DOMAIN Calls}

(* What a finished cycle reports is what it left in the table: nothing if it *)
(* failed, something but not all if partial, and partial only when each      *)
(* Method is stored on its own.  A broken append may leave any part.         *)
ResultTellsRows ==
    \A c \in DOMAIN results : c \notin unsure =>
      /\ results[c] = "failed" => RowsIn(c) = {}
      /\ results[c] = "partial" => RowsIn(c) # {} /\ job.policy = "perMethod"
      /\ (last.stored >= c \/ RowsIn(c) = {})

(* The log of a collector that was stopped tells of every failed cycle.      *)
FailuresTold == stopped => told = Cardinality({c \in DOMAIN results : results[c] # "success"})

(* A Job that was saved as needing no column for strings loses no value to   *)
(* the lack of it: each tag has a row in every successful cycle.  A call of  *)
(* the first version is asked about its first output only, so the others     *)
(* must be like it.                                                          *)
FirstSpeaks(call) ==
    call.sels = << >> /\ call.types[1] \in NumericTypes =>
      \A o \in DOMAIN call.types : call.types[o] \in NumericTypes
NothingDropped ==
    ~NeedsStrings(Calls) /\ (\A i \in DOMAIN Calls : FirstSpeaks(Calls[i])) =>
      \A c \in DOMAIN results : results[c] = "success" =>
        {<<r.call, r.tag>> : r \in RowsIn(c)} = AllTags

(* A Job that was saved as producing whole numbers only does not produce     *)
(* any other: its table may have an integer column.                          *)
WholeNumbersStayWhole ==
    ~Fractional(Calls) => \A r \in table : r.kind = "num" => r.n % 4 = 0
=============================================================================
