----------------------------- MODULE MethodCalls -----------------------------
(* The road of a D-Bus Method of the generic product: it is introspected or  *)
(* written by hand, saved as an Interface, called by a Job whose inputs the  *)
(* validator accepted, and called again by every cycle with the arguments    *)
(* built from them.  dbus/types.js holds the rules all four share;           *)
(* interfaces/manager.js, interfaces/references.js, jobs/validator.js and    *)
(* dbus/arguments.js each apply them on their own.                           *)
(*                                                                           *)
(* A signature is a sequence of tokens, a type a tagged tuple and a value a  *)
(* tagged tuple.  Widths are scaled down (Limits); the nesting limit is      *)
(* MaxDepth.  One Interface with one Method of one input is kept, and one    *)
(* Job with one Method Call: what is refused is refused per input and per    *)
(* call.                                                                     *)
EXTENDS Integers, Sequences, FiniteSets

CONSTANTS Signatures,  (* what a device may answer to Introspect             *)
          Manuals,     (* the parameters an operator may write down          *)
          Values,      (* what a client may send as an input                 *)
          MaxDepth,    (* 32 in types.js                                     *)
          MaxSteps     (* bound on the requests                              *)

VARIABLES
  iface,   (* the saved Interface: [origin, name, wire, input], or Nothing   *)
  job,     (* the stored Job: [shape, value], or Nothing                     *)
  sent,    (* the last call made: [by, said, value], or Nothing              *)
  steps

vars == <<iface, job, sent, steps>>

Nothing == [is |-> "nothing"]
None == <<"none">>        \* undefined, null or an input left out

-----------------------------------------------------------------------------
(* Types.                                                                    *)

Basic == [y |-> "byte", b |-> "boolean", x |-> "int64", d |-> "double",
          s |-> "string", h |-> "unix-fd", v |-> "variant"]
Limits == [byte |-> 0..7, int64 |-> -8..7]
Wrong == <<"wrong">>

\* parseType: the type that starts at a token, and the place after it
Parse(sig) ==
  LET At(o) == IF o \in DOMAIN sig THEN sig[o] ELSE "end"
      No == [type |-> Wrong, next |-> 0]
      p[what \in {"type", "fields"}, o \in 0..(Len(sig) + 4), d \in 0..(MaxDepth + 1)] ==
        IF what = "fields"
        THEN IF At(o) \in {")", "end"} THEN [type |-> << >>, next |-> o]
             ELSE LET one == p["type", o, d]
                      more == p["fields", one.next, d]
                  IN  IF one.next = 0 \/ more.next = 0 THEN No
                      ELSE [type |-> <<one.type>> \o more.type, next |-> more.next]
        ELSE IF d > MaxDepth THEN No
        ELSE IF At(o) \in DOMAIN Basic THEN [type |-> <<Basic[At(o)]>>, next |-> o + 1]
        ELSE IF At(o) = "a" /\ At(o + 1) = "{"
        THEN LET value == p["type", o + 3, d + 1]
             IN  IF At(o + 2) \notin DOMAIN Basic \ {"v"} \/ value.next = 0 \/ At(value.next) # "}"
                 THEN No
                 ELSE [type |-> <<"array", <<"dict-entry", Basic[At(o + 2)], value.type>>>>,
                       next |-> value.next + 1]
        ELSE IF At(o) = "a"
        THEN LET element == p["type", o + 1, d + 1]
             IN  IF element.next = 0 THEN No
                 ELSE [type |-> <<"array", element.type>>, next |-> element.next]
        ELSE IF At(o) = "("
        THEN LET fields == p["fields", o + 1, d + 1]
             IN  IF fields.type = << >> \/ At(fields.next) # ")" THEN No
                 ELSE [type |-> <<"struct", fields.type>>, next |-> fields.next + 1]
        ELSE No
  IN p["type", 1, 0]

\* typeFromSignature: exactly one complete type
TypeFrom(sig) == LET parsed == Parse(sig)
                 IN  IF parsed.next = Len(sig) + 1 THEN parsed.type ELSE Wrong

RECURSIVE Normal(_, _, _)
\* normalizeType(value, depth, allowDictEntry) # null
Normal(type, depth, entry) ==
  /\ depth <= MaxDepth
  /\ CASE type[1] = "array"      -> Normal(type[2], depth + 1, TRUE)
       [] type[1] = "struct"     -> /\ type[2] # << >>
                                    /\ \A i \in DOMAIN type[2] : Normal(type[2][i], depth + 1, FALSE)
       [] type[1] = "dict-entry" -> entry /\ type[2] # "variant" /\ Normal(type[3], depth + 1, FALSE)
       [] OTHER                  -> type # Wrong

RECURSIVE SignatureOf(_), FieldsOf(_)
SignatureOf(type) ==
  CASE type[1] = "array"      -> <<"a">> \o SignatureOf(type[2])
    [] type[1] = "struct"     -> <<"(">> \o FieldsOf(type[2]) \o <<")">>
    [] type[1] = "dict-entry" -> <<"{", CHOOSE c \in DOMAIN Basic : Basic[c] = type[2]>>
                                 \o SignatureOf(type[3]) \o <<"}">>
    [] OTHER                  -> <<CHOOSE c \in DOMAIN Basic : Basic[c] = type[1]>>
FieldsOf(fields) == IF fields = << >> THEN << >> ELSE SignatureOf(Head(fields)) \o FieldsOf(Tail(fields))

\* a value: <<"number", n>>, <<"half", n>> (n and a half), <<"digits", n>> (a
\* decimal string), <<"text">>, <<"flag", b>>, <<"list", values>>,
\* <<"pair", key, value>>, <<"typed", type, value>>
RECURSIVE Holds(_, _)
\* isValueValid
Holds(type, v) ==
  /\ v # None
  /\ CASE type[1] = "array"       -> v[1] = "list" /\ \A i \in DOMAIN v[2] : Holds(type[2], v[2][i])
       [] type[1] = "dict-entry"  -> v[1] = "pair" /\ Holds(<<type[2]>>, v[2]) /\ Holds(type[3], v[3])
       [] type[1] = "struct"      -> /\ v[1] = "list" /\ Len(v[2]) = Len(type[2])
                                     /\ \A i \in DOMAIN type[2] : Holds(type[2][i], v[2][i])
       [] type[1] \in DOMAIN Limits -> v[1] \in {"number", "digits"} /\ v[2] \in Limits[type[1]]
       [] type[1] = "double"      -> v[1] \in {"number", "half"}
       [] type[1] = "boolean"     -> v[1] = "flag"
       [] type[1] = "string"      -> v[1] \in {"text", "digits"}
       [] type[1] = "unix-fd"     -> v[1] = "number" /\ v[2] >= 0
       [] type[1] = "variant"     -> v[1] = "typed" /\ Normal(v[2], 0, FALSE) /\ Holds(v[2], v[3])
       [] OTHER                   -> FALSE

Sendable(type) == type[1] \notin {"array", "struct", "dict-entry", "variant", "unix-fd"}

-----------------------------------------------------------------------------
(* Inputs.  A parameter is [type, required, least, pattern]; least is a      *)
(* number or None, pattern "any" or "digits".                                *)

Matches(pattern, v) == \/ pattern = "any"
                       \/ v[1] = "digits" /\ v[2] >= 0
                       \/ v[1] = "number" /\ v[2] >= 0   \* RegExp.test("" + value)

\* validateInputValue
InputValid(input, v) ==
  LET kind == input.type[1] IN
  IF v = None THEN input.required = FALSE
  ELSE /\ Holds(input.type, v)
       /\ kind \notin {"array", "struct", "dict-entry"} =>
            /\ kind \in {"byte", "double"} => v[1] \in {"number", "half"}
            /\ kind = "byte" => v[1] = "number"
            /\ input.least # None /\ v[1] \in {"number", "half", "digits"} => v[2] >= input.least[2]
            /\ Matches(input.pattern, v)

\* typedValue
Judged(input, v) ==
  IF input.pattern # "any" /\ ~(v[1] \in {"text", "digits"} /\ Matches(input.pattern, v)) THEN "pattern"
  ELSE IF ~Holds(input.type, v) THEN "type"
  ELSE IF ~Sendable(input.type) THEN "unsupported"
  ELSE "called"

\* buildTypedArguments for the one input
Encoded(input, v) == IF v = None THEN "missing" ELSE Judged(input, v)

-----------------------------------------------------------------------------
(* The Job that references the Interface, as the reference analyzer reads it *)

\* validCall: exactly the fields of a Call with "tags"
ReadableShape == {"tags"}

\* Mutant: a document the analyzer cannot read references nothing.
References_Readable == IF job # Nothing /\ job.shape \in ReadableShape THEN {"call"} ELSE {}

References == IF job = Nothing THEN {}
              ELSE IF job.shape \in ReadableShape THEN {"call"} ELSE {"invalid"}

\* parameter, as validateMethod and validateInterface apply it before a save
Acceptable(input) == Normal(input.type, 0, FALSE)

-----------------------------------------------------------------------------
Init == iface = Nothing /\ job = Nothing /\ sent = Nothing /\ steps = 0

May == steps < MaxSteps /\ steps' = steps + 1

\* discover, then createInterface with what was found
Discover ==
  /\ May /\ iface = Nothing
  /\ \E sig \in Signatures :
       /\ Normal(TypeFrom(sig), 0, FALSE)
       /\ iface' = [origin |-> "discovered", name |-> "one", wire |-> sig,
                    input |-> [type |-> TypeFrom(sig), required |-> TRUE, least |-> None,
                               pattern |-> "any"]]
  /\ UNCHANGED <<job, sent>>

\* createInterface with a Method written by hand
Create ==
  /\ May /\ iface = Nothing
  /\ \E input \in Manuals :
       /\ Acceptable(input)
       /\ iface' = [origin |-> "manual", name |-> "one", wire |-> << >>, input |-> input]
  /\ UNCHANGED <<job, sent>>

\* updateInterface: the name always, the call only when nothing references it
Rename ==
  /\ May /\ iface # Nothing
  /\ iface' = [iface EXCEPT !.name = "two"]
  /\ UNCHANGED <<job, sent>>

\* updateMethod
UpdateMethod ==
  /\ May /\ iface # Nothing /\ iface.origin = "manual" /\ References = {}
  /\ \E input \in Manuals : Acceptable(input) /\ iface' = [iface EXCEPT !.input = input]
  /\ UNCHANGED <<job, sent>>

\* updateDiscoveredInterface with a newer introspection
Rediscover ==
  /\ May /\ iface # Nothing /\ iface.origin = "discovered" /\ References = {}
  /\ \E sig \in Signatures :
       /\ Normal(TypeFrom(sig), 0, FALSE)
       /\ iface' = [iface EXCEPT !.wire = sig, !.input.type = TypeFrom(sig)]
  /\ UNCHANGED <<job, sent>>

DeleteInterface ==
  /\ May /\ iface # Nothing /\ References = {}
  /\ iface' = Nothing
  /\ UNCHANGED <<job, sent>>

\* create or update of a Job: validateMethodCall, then the repository
SaveJob ==
  /\ May /\ iface # Nothing
  /\ \E shape \in {"tags", "selections"}, v \in Values \cup {None} :
       InputValid(iface.input, v) /\ job' = [shape |-> shape, value |-> v]
  /\ sent' = Nothing
  /\ UNCHANGED iface

DeleteJob == May /\ job # Nothing /\ job' = Nothing /\ sent' = Nothing /\ UNCHANGED iface

\* the call of a cycle
Cycle ==
  /\ job # Nothing /\ iface # Nothing
  /\ sent' = [by |-> "cycle", said |-> Encoded(iface.input, job.value), value |-> job.value]
  /\ UNCHANGED <<iface, job, steps>>

\* TestCallManager.call: the values of the form, saved or not
TestCall ==
  /\ May /\ iface # Nothing
  /\ \E v \in Values \cup {None} :
       sent' = [by |-> "test", said |-> Encoded(iface.input, v), value |-> v]
  /\ UNCHANGED <<iface, job>>

Next == Discover \/ Create \/ Rename \/ UpdateMethod \/ Rediscover \/ DeleteInterface
        \/ SaveJob \/ DeleteJob \/ Cycle \/ TestCall
Spec == Init /\ [][Next]_vars

-----------------------------------------------------------------------------
(* Properties.                                                               *)

\* dbus/types.js: the type an Interface was saved with from a device's
\* signature is the one the device meant: written back it is that signature.
SignatureKept ==
  iface # Nothing /\ iface.origin = "discovered" => SignatureOf(iface.input.type) = iface.wire

\* jobs/validator.js and dbus/arguments.js judge an input twice, and an
\* Interface may be edited between: the Interface of a stored Job is there,
\* and a cycle of it is refused for three reasons only - an optional input
\* left out, a type the Neo module cannot carry, a pattern on something else
\* than a string - and what it sends is what was saved.
StoredCanBeCalled ==
  job # Nothing =>
    /\ iface # Nothing
    /\ sent # Nothing /\ sent.by = "cycle" =>
         \/ sent.said = "called" /\ sent.value = job.value
         \/ sent.said = "missing" /\ iface.input.required = FALSE
         \/ sent.said = "unsupported" /\ ~Sendable(iface.input.type)
         \/ sent.said = "pattern" /\ iface.input.type[1] # "string"

\* interfaces/references.js: validCall tests the fields the Job validator
\* tests, so that a Job the validator accepted is read as a reference and not
\* as an invalid document.
StoredIsReadable == "invalid" \notin References
=============================================================================
