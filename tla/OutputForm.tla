----------------------------- MODULE OutputForm -----------------------------
(* The output mappings of a generic Job: what the form shows of a stored one *)
(* (hydrateJobConfig), the dialog that edits one of them, what is sent       *)
(* (serializeJobConfig) and what the server accepts and keeps                *)
(* (jobs/validator.js).  One Method Call stands for all.  The Interface may  *)
(* be edited by others as long as no Job refers to it.                       *)
EXTENDS Naturals, Sequences, FiniteSets, SequencesExt

CONSTANTS Interfaces,  \* what the Interface may be: Method |-> types it returns
          Jobs,        \* the Jobs there may be at first: [method, sels]
          TagNames,    \* prefixes the user generates Tags with; "TAG" is offered
          MaxTags,     \* maxGeneratedTagsPerCall
          MaxOps       \* bound on the user's operations

VARIABLES interface, \* the stored Interface
          stored,    \* the stored Job, or Nothing
          details,   \* the Interface as the form read it, or Nothing
          form,      \* the Job in the form, or Nothing
          dialog,    \* [at, draft]: the mapping in the dialog; at 0 is a new one
          touched,   \* ghost: the user changed the form
          ops
vars == <<interface, stored, details, form, dialog, touched, ops>>

Nothing == [is |-> "nothing"]

(* A selection takes output src, as JSON text if json.  type is its          *)
(* valueType and "none" when it has neither that nor a selector; elem is the *)
(* elementType of an array.  One of the first format has a mode instead.     *)
Scalars == {"double", "boolean", "string"}
NativeScalar(sel, types) ==
    ~sel.json /\ sel.src \in DOMAIN types /\ types[sel.src] \in Scalars
Plain(sel) == [sel EXCEPT !.type = "none", !.elem = "none"]
TypeAt(types, src) == IF src \in DOMAIN types THEN types[src] ELSE "none"
-----------------------------------------------------------------------------
(* The server: validateMethodCall.                                           *)

Types(job) == IF job.method \in DOMAIN interface THEN interface[job.method] ELSE <<>>

\* What is left of a selection: native scalars lose what does not apply.
Normalized(sel, types) == IF sel.mode = "none" /\ NativeScalar(sel, types) THEN Plain(sel) ELSE sel

WellFormed(sel, types) ==
    \/ sel.mode # "none"
    \/ NativeScalar(sel, types)
    \/ sel.type # "none" /\ (sel.type = "array" <=> sel.elem # "none")

\* Mutant: the index is not compared with the number of outputs.
FitsOutput_AnyIndex(sel, types) ==
    /\ sel.json => TypeAt(types, sel.src) = "string"
    /\ (sel.mode = "single" \/ (sel.mode = "none" /\ sel.type # "array")) => Len(sel.tags) = 1

FitsOutput(sel, types) ==
    /\ sel.src \in DOMAIN types
    /\ sel.json => types[sel.src] = "string"
    /\ (sel.mode = "single" \/ (sel.mode = "none" /\ sel.type # "array")) => Len(sel.tags) = 1

AllTags(job) == FlattenSeq([i \in DOMAIN job.sels |-> job.sels[i].tags])
ValidTags(job) == Len(AllTags(job)) <= MaxTags /\ IsInjective(AllTags(job))

Kept(job) == [job EXCEPT !.sels = [i \in DOMAIN @ |-> Normalized(@[i], Types(job))]]

Accepts(job) ==
    /\ job.method \in DOMAIN interface
    /\ \A i \in DOMAIN job.sels : WellFormed(job.sels[i], Types(job))
    /\ \A i \in DOMAIN job.sels : FitsOutput(Kept(job).sels[i], Types(job))
    /\ ValidTags(job)
-----------------------------------------------------------------------------
(* The form.                                                                 *)

\* hydrateJobConfig: a selection of the first format becomes one of the second.
Hydrated(sel) ==
    CASE sel.mode = "each"   -> [sel EXCEPT !.type = "array", !.elem = "json", !.mode = "none"]
      [] sel.mode = "single" -> [sel EXCEPT !.type = "json", !.mode = "none"]
      [] OTHER               -> sel

\* serializeJobConfig: every field of a selection, without those of the form.
Serialized(sel) == sel

ValueTypeFor(type) == CASE type = "double" -> "numeric" [] type = "string" -> "string"
                        [] type = "array" -> "array" [] OTHER -> "json"

\* tagRows
Rows(prefix, n) == [i \in 1..n |-> <<prefix, i>>]

\* outputSelectionFor
SelectionFor(types, src) ==
    LET type == ValueTypeFor(types[src])
        bare == [src |-> src, json |-> FALSE, mode |-> "none", type |-> type,
                 elem |-> IF type = "array" THEN "numeric" ELSE "none", tags |-> Rows("TAG", 1)]
    IN  IF types[src] \in Scalars THEN Plain(bare) ELSE bare

\* The effect run when the details arrive.
Cleaned(sel, types) == IF NativeScalar(sel, types) THEN Plain(sel) ELSE sel

Closed == [at |-> 0, draft |-> Nothing]
Open == dialog.draft # Nothing
User == ops < MaxOps /\ ops' = ops + 1
Outputs == IF details = Nothing \/ form.method = "none" THEN <<>> ELSE details.of[form.method]
-----------------------------------------------------------------------------
(* Opening and leaving the form.                                             *)

New ==
    /\ User /\ form = Nothing /\ stored = Nothing
    /\ form' = [method |-> "none", sels |-> <<>>]
    /\ details' = Nothing /\ touched' = TRUE
    /\ UNCHANGED <<interface, stored, dialog>>

Edit ==
    /\ User /\ form = Nothing /\ stored # Nothing
    /\ form' = [stored EXCEPT !.sels = [i \in DOMAIN @ |-> Hydrated(@[i])]]
    /\ details' = Nothing /\ touched' = FALSE
    /\ UNCHANGED <<interface, stored, dialog>>

DetailsArrive ==
    /\ form # Nothing /\ details = Nothing
    /\ details' = [is |-> "details", of |-> interface]
    /\ form' = IF form.method \notin DOMAIN interface THEN form
               ELSE [form EXCEPT !.sels = [i \in DOMAIN @ |-> Cleaned(@[i], interface[form.method])]]
    /\ UNCHANGED <<interface, stored, dialog, touched, ops>>

Leave ==
    /\ form # Nothing /\ ~Open
    /\ form' = Nothing /\ details' = Nothing
    /\ UNCHANGED <<interface, stored, dialog, touched, ops>>

\* createMethodCall: another Method starts without mappings.
ChooseMethod(m) ==
    /\ User /\ form # Nothing /\ ~Open /\ details # Nothing
    /\ m \in DOMAIN details.of
    /\ form' = [method |-> m, sels |-> <<>>] /\ touched' = TRUE
    /\ UNCHANGED <<interface, stored, details, dialog>>

RemoveOutput(k) ==
    /\ User /\ form # Nothing /\ ~Open /\ Outputs # <<>> /\ k \in DOMAIN form.sels
    /\ form' = [form EXCEPT !.sels = RemoveAt(@, k)] /\ touched' = TRUE
    /\ UNCHANGED <<interface, stored, details, dialog>>
-----------------------------------------------------------------------------
(* The dialog of one mapping.                                                *)

OpenDialog(k) ==
    /\ User /\ form # Nothing /\ ~Open /\ Outputs # <<>>
    /\ k \in {0} \cup DOMAIN form.sels
    /\ dialog' = [at |-> k, draft |-> IF k = 0 THEN SelectionFor(Outputs, 1) ELSE form.sels[k]]
    /\ UNCHANGED <<interface, stored, details, form, touched>>

Draft(new) ==
    /\ User /\ dialog' = [dialog EXCEPT !.draft = new]
    /\ UNCHANGED <<interface, stored, details, form, touched>>

DraftType == IF dialog.draft.type # "none" THEN dialog.draft.type
             ELSE ValueTypeFor(TypeAt(Outputs, dialog.draft.src))

\* Another output, or another reading of a string, keeps the Tags there are.
PickOutput(src) ==
    /\ Open /\ src \in DOMAIN Outputs /\ src # dialog.draft.src
    /\ Draft([SelectionFor(Outputs, src) EXCEPT !.tags = dialog.draft.tags])
Interpret(json) ==
    /\ Open /\ TypeAt(Outputs, dialog.draft.src) = "string" /\ json # dialog.draft.json
    /\ Draft(IF json THEN [dialog.draft EXCEPT !.json = TRUE, !.type = "numeric"]
             ELSE [SelectionFor(Outputs, dialog.draft.src) EXCEPT !.tags = dialog.draft.tags])
\* Another type starts with one Tag.
PickType(type) ==
    /\ Open /\ ~NativeScalar(dialog.draft, Outputs) /\ type # DraftType
    /\ Draft([dialog.draft EXCEPT !.type = type, !.tags = Rows("TAG", 1),
                !.elem = IF type # "array" THEN "none" ELSE IF @ = "none" THEN "numeric" ELSE @])
Generate(prefix, n) ==
    /\ Open /\ ~NativeScalar(dialog.draft, Outputs) /\ DraftType = "array"
    /\ Draft([dialog.draft EXCEPT !.tags = Rows(prefix, n)])
RemoveTag(i) ==
    /\ Open /\ i \in DOMAIN dialog.draft.tags
    /\ dialog.draft.type = "array" \/ Len(dialog.draft.tags) # 1
    /\ Draft([dialog.draft EXCEPT !.tags = RemoveAt(@, i)])

Confirm ==
    /\ Open /\ dialog' = Closed /\ touched' = TRUE
    /\ form' = [form EXCEPT !.sels = IF dialog.at = 0 THEN Append(@, dialog.draft)
                                     ELSE [@ EXCEPT ![dialog.at] = dialog.draft]]
    /\ UNCHANGED <<interface, stored, details, ops>>
Cancel ==
    /\ Open /\ dialog' = Closed
    /\ UNCHANGED <<interface, stored, details, form, touched, ops>>
-----------------------------------------------------------------------------
(* The save, checked by the form and by the server; and the other user.      *)

Payload == [form EXCEPT !.sels = [i \in DOMAIN @ |-> Serialized(@[i])]]

Save ==
    /\ User /\ form # Nothing /\ ~Open
    /\ form.method # "none" /\ ValidTags(form)
    /\ IF Accepts(Payload)
       THEN stored' = Kept(Payload) /\ form' = Nothing /\ details' = Nothing
       ELSE UNCHANGED <<stored, form, details>>
    /\ UNCHANGED <<interface, dialog, touched>>

DeleteJob ==
    /\ stored # Nothing /\ stored' = Nothing
    /\ form = Nothing
    /\ UNCHANGED <<interface, details, form, dialog, touched, ops>>

EditInterface(new) ==
    /\ stored = Nothing /\ new # interface /\ interface' = new
    /\ UNCHANGED <<stored, details, form, dialog, touched, ops>>
-----------------------------------------------------------------------------
\* Its outputs are there, only strings are read as JSON, and a single value
\* has a single Tag.
Decodable(job) ==
    \A i \in DOMAIN job.sels :
      LET sel == job.sels[i]
      IN  /\ sel.src \in DOMAIN Types(job)
          /\ sel.json => Types(job)[sel.src] = "string"
          /\ NativeScalar(sel, Types(job)) /\ sel.mode = "none" => Len(sel.tags) = 1

Init ==
    /\ interface \in Interfaces
    /\ stored \in {job \in Jobs : Decodable(job) /\ Accepts(job) /\ Kept(job) = job} \cup {Nothing}
    /\ details = Nothing /\ form = Nothing /\ dialog = Closed
    /\ touched = FALSE /\ ops = 0

Next ==
    \/ New \/ Edit \/ DetailsArrive \/ Leave \/ Confirm \/ Cancel \/ Save \/ DeleteJob
    \/ form # Nothing /\ \E m \in DOMAIN interface : ChooseMethod(m)
    \/ form # Nothing /\ \E k \in DOMAIN form.sels : RemoveOutput(k)
    \/ form # Nothing /\ \E k \in 0..Len(form.sels) : OpenDialog(k)
    \/ Open /\ \E src \in DOMAIN Outputs : PickOutput(src)
    \/ Open /\ \E json \in BOOLEAN : Interpret(json)
    \/ Open /\ \E type \in {"numeric", "json", "array"} : PickType(type)
    \/ Open /\ \E prefix \in TagNames, n \in 1..2 : Generate(prefix, n)
    \/ Open /\ \E i \in 1..Len(dialog.draft.tags) : RemoveTag(i)
    \/ \E new \in Interfaces : EditInterface(new)

Spec == Init /\ [][Next]_vars
-----------------------------------------------------------------------------
\* Whatever the dialog left of a mapping and however old the form's copy of the
\* Interface was, the collector can decode what is stored (validator.js; the
\* dialog itself lets a scalar have several Tags).
StoredFits == stored # Nothing => Decodable(stored)

\* A Job of the present format that is opened and saved without a change is
\* stored as it was, with the Interface read by the form or not yet
\* (hydrateJobConfig, the effect on interfaceDetails, serializeJobConfig and
\* the normalisation of the server together).
SavesItAsItWas ==
    stored # Nothing /\ stored' # stored /\ ~touched
        /\ (\A i \in DOMAIN stored.sels : stored.sels[i].mode = "none")
      => stored' = Nothing
SavedAsItWas == [][SavesItAsItWas]_vars
=============================================================================
