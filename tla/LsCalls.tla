-------------------------------- MODULE LsCalls --------------------------------
(* The Method Calls of an LS Job: the editor of the Job form, which keeps the *)
(* Tags of a Call in step with its address and count, the import of Tags     *)
(* from a CSV file, and what the server makes of the Calls on a save.  The   *)
(* bias, multiplier and order of a Tag go along with its other fields and    *)
(* are left out; of an address its data type and number are kept.            *)
EXTENDS Integers, Sequences, SequencesExt, FiniteSets

CONSTANTS Addresses,  \* [type |-> .., start |-> ..]
          Limit,      \* DATA_COUNT_LIMITS
          Reals,      \* the types that have a REAL conversion
          TypedNames, \* names the user may type
          MaxCalls, MaxOps   \* bounds on the Calls and on the edits

VARIABLES calls, selected,
          file,    \* the CSV file being read, with the Call it was chosen for
          stored,  \* the Calls the server has
          steps
vars == <<calls, selected, file, stored, steps>>

Types == {"X", "B", "W", "D", "L"}
NoFile == [open |-> FALSE]
-----------------------------------------------------------------------------
(* Tags.  conv is "none" or <<type, "INT" or "REAL">>; mode tells whether the *)
(* name was generated; typed is a ghost, the name the user gave it.          *)

Options(type) == IF type = "X" THEN << >>
                 ELSE IF type \in Reals THEN <<<<type, "INT">>, <<type, "REAL">>>> ELSE <<<<type, "INT">>>>
None == <<"-", "-">>
IsReal(conv) == conv[2] = "REAL"

\* normalizedTagConversion: nothing for a Bit, whose Tags keep what they have.
Converted(type, conv) ==
    LET o == Options(type) IN
    IF o = << >> \/ Contains(o, conv) THEN conv
    ELSE IF IsReal(conv) /\ Len(o) = 2 THEN o[2] ELSE o[1]

NoTag == [name |-> None, mode |-> "none", conv |-> None, signed |-> FALSE, typed |-> None]
Generated(addr, i) == <<addr.type, addr.start + i - 1>>

\* reconcileProductTags
Reconciled(addr, count, tags) ==
    [i \in 1..count |->
        LET t == IF i \in DOMAIN tags THEN tags[i] ELSE NoTag
            conv == Converted(addr.type, t.conv)
        IN [name |-> IF t.mode = "manual" THEN t.name ELSE Generated(addr, i),
            mode |-> IF t.mode = "manual" THEN "manual" ELSE "auto",
            conv |-> conv, signed |-> addr.type # "X" /\ ~IsReal(conv) /\ t.signed,
            typed |-> t.typed]]

\* Mutant: a saved Tag, which has no mode, is taken to be generated.
WithModes_Auto(call) == call.tags

\* updateInputs: Tags that came from a saved Job tell by their names what
\* was generated.
WithModes(call) ==
    [i \in DOMAIN call.tags |->
        LET t == call.tags[i] IN
        IF t.mode # "none" THEN t
        ELSE [t EXCEPT !.mode = IF i <= call.count /\ t.name = Generated(call.addr, i) THEN "auto" ELSE "manual"]]
-----------------------------------------------------------------------------
(* The editor.                                                              *)

\* nextCallIdentity: the least number that is free.
NextIdentity(cs) ==
    CHOOSE n \in 1..(Len(cs) + 1) : n \notin {cs[i].id : i \in DOMAIN cs}
                                    /\ \A m \in 1..(n - 1) : m \in {cs[i].id : i \in DOMAIN cs}

First == [type |-> "B", start |-> 0]
\* appendProductMethodCall, createInitialMethodCalls
WithCall(cs) == Append(cs, [id |-> NextIdentity(cs), addr |-> First, count |-> 1, tags |-> Reconciled(First, 1, << >>)])

Edit == steps < MaxOps /\ steps' = steps + 1
\* selectedIndex
At == LET is == {i \in DOMAIN calls : calls[i].id = selected}
      IN  IF is = {} THEN 1 ELSE CHOOSE i \in is : \A k \in is : i <= k
\* Without a Call there is nothing to edit but the list.
Call == IF calls = << >> THEN [id |-> 0, addr |-> First, count |-> 0, tags |-> << >>] ELSE calls[At]

SelectCall(i) == /\ Edit /\ calls[i].id # selected /\ selected' = calls[i].id
                 /\ UNCHANGED <<calls, file, stored>>

AddCall == /\ Edit /\ Len(calls) < MaxCalls
           /\ calls' = WithCall(calls) /\ selected' = calls'[Len(calls')].id
           /\ UNCHANGED <<file, stored>>

\* removeSelected: the last Call stays.
RemoveCall ==
    /\ Edit /\ Len(calls) > 1
    /\ calls' = SelectSeq(calls, LAMBDA c : c.id # Call.id)
    /\ selected' = IF At > 1 THEN calls[At - 1].id ELSE calls[2].id
    /\ UNCHANGED <<file, stored>>

\* moveCall
MoveCall(from, to) ==
    /\ Edit /\ from # to
    /\ calls' = InsertAt(RemoveAt(calls, from), to, calls[from])
    /\ UNCHANGED <<selected, file, stored>>

\* updateInputs: the count is kept within the limit of the address.
UpdateInputs(addr, count) ==
    LET n == IF count > Limit[addr.type] THEN Limit[addr.type] ELSE count
        call == Call
    IN /\ Edit /\ calls # << >> /\ <<addr, count>> # <<call.addr, call.count>>
       /\ calls' = [calls EXCEPT ![At] = [@ EXCEPT !.addr = addr, !.count = n,
                                                   !.tags = Reconciled(addr, n, WithModes(call))]]
       /\ UNCHANGED <<selected, file, stored>>

\* updateTag
UpdateTag(i, tag) ==
    /\ Edit /\ calls' = [calls EXCEPT ![At].tags[i] = tag]
    /\ UNCHANGED <<selected, file, stored>>
TypeName(i, n) == UpdateTag(i, [Call.tags[i] EXCEPT !.name = n, !.mode = "manual", !.typed = n])
\* The conversion and the sign that a row shows.
ShownConv(addr, t) == LET o == Options(addr.type) IN
                      IF o = << >> THEN None ELSE IF Contains(o, t.conv) THEN t.conv ELSE o[1]
ShownSign(addr, t) == ShownConv(addr, t) # None /\ ~IsReal(ShownConv(addr, t)) /\ t.signed
ChooseConv(i) ==
    \E c \in ToSet(Options(Call.addr.type)) \ {ShownConv(Call.addr, Call.tags[i])} :
        UpdateTag(i, [Call.tags[i] EXCEPT !.conv = c, !.signed = IF IsReal(c) THEN FALSE ELSE @])
ChooseSign(i) ==
    /\ ShownConv(Call.addr, Call.tags[i]) # None /\ ~IsReal(ShownConv(Call.addr, Call.tags[i]))
    /\ UpdateTag(i, [Call.tags[i] EXCEPT !.signed = ~@])

\* importTags: the file is read, and what it has goes to the Call that was
\* selected when it was chosen, as that Call was then.
ImportBegins == /\ Edit /\ calls # << >> /\ ~file.open /\ file' = [open |-> TRUE, at |-> At, call |-> Call]
                /\ UNCHANGED <<calls, selected, stored>>
\* applyLsTagCsv: a row for a Tag, from the first Tag on.
Imported(tags, rows) ==
    [i \in DOMAIN tags |-> IF i > Len(rows) THEN tags[i]
                           ELSE [tags[i] EXCEPT !.name = rows[i].name, !.typed = rows[i].name,
                                                !.mode = "manual", !.signed = rows[i].signed]]
ImportEnds(rows) ==
    /\ file.open /\ file' = NoFile
    /\ calls' = [i \in DOMAIN calls |-> IF i = file.at /\ rows # << >>
                    THEN [file.call EXCEPT !.tags = Imported(@, rows)] ELSE calls[i]]
    /\ UNCHANGED <<selected, stored, steps>>
-----------------------------------------------------------------------------
(* Saving.                                                                  *)

TagNames(cs) == FlattenSeq([i \in DOMAIN cs |-> [k \in DOMAIN cs[i].tags |-> cs[i].tags[k].name]])
\* save, validateJobTags: what the form checks itself.
FormAccepts(cs) == IsInjective(TagNames(cs)) /\ \A i \in DOMAIN cs : cs[i].count \in 1..Limit[cs[i].addr.type]

\* serializeTag: the mode is not part of a Job.
Serialized(t) == [t EXCEPT !.mode = "none"]

\* validateProductConfig of a Tag: the conversion it comes to, none for a
\* Bit; or "bad".
ServerConv(addr, t) ==
    IF addr.type = "X" THEN None
    ELSE LET c == IF t.conv = None THEN Options(addr.type)[1] ELSE t.conv
         IN IF Contains(Options(addr.type), c) THEN c ELSE <<"bad", "bad">>
ProductAccepts(cs) ==
    \A i \in DOMAIN cs : /\ Len(cs[i].tags) = cs[i].count
                         /\ \A k \in DOMAIN cs[i].tags : ServerConv(cs[i].addr, cs[i].tags[k])[1] # "bad"
ServerTag(addr, t) == LET c == ServerConv(addr, t) IN
                      [t EXCEPT !.conv = c, !.signed = c # None /\ ~IsReal(c) /\ t.signed]
\* validateMethodCall: every Call has an identity of its own.
ServerAccepts(cs) == ProductAccepts(cs) /\ \A i, k \in DOMAIN cs : cs[i].id = cs[k].id => i = k

Sent == [i \in DOMAIN calls |-> [calls[i] EXCEPT !.tags = [k \in DOMAIN @ |-> Serialized(@[k])]]]
Save ==
    /\ Edit /\ FormAccepts(calls) /\ ServerAccepts(Sent)
    /\ stored' = [i \in DOMAIN Sent |-> [Sent[i] EXCEPT !.tags = [k \in DOMAIN @ |-> ServerTag(Sent[i].addr, @[k])]]]
    /\ UNCHANGED <<calls, selected, file>>

\* A name that is the generated one is a generated one from then on.
Hydrated(addr, k, t) == IF t.name = Generated(addr, k) THEN [t EXCEPT !.typed = None] ELSE t

\* hydrateJobConfig: the form is opened again.
Reload ==
    /\ Edit /\ stored # << >> /\ file' = NoFile
    /\ calls' = [i \in DOMAIN stored |-> [stored[i] EXCEPT !.tags =
                    [k \in DOMAIN @ |-> Hydrated(stored[i].addr, k, @[k])]]]
    /\ selected' = stored[1].id
    /\ UNCHANGED stored

Init == /\ calls = WithCall(<< >>) /\ selected = 1 /\ file = NoFile /\ stored = << >> /\ steps = 0

Rows == {<<[name |-> n, signed |-> s]>> : n \in TypedNames, s \in BOOLEAN}
Next ==
    \/ \E i \in DOMAIN calls : SelectCall(i)
    \/ AddCall \/ RemoveCall \/ Save \/ Reload \/ ImportBegins
    \/ \E i, k \in DOMAIN calls : MoveCall(i, k)
    \/ \E a \in Addresses, n \in 1..2 : UpdateInputs(a, n)
    \/ \E i \in DOMAIN Call.tags : \/ \E n \in TypedNames : TypeName(i, n)
                                   \/ ChooseConv(i) \/ ChooseSign(i)
    \/ \E rows \in Rows \cup {<< >>} : ImportEnds(rows)
Spec == Init /\ [][Next]_vars
-----------------------------------------------------------------------------
(* Whatever the order of edits of addresses, counts, conversions and Tags,   *)
(* imports and reloads: what the form lets through the server's LS rules do  *)
(* not refuse (Tags as many as DataCount, conversions of the address's type).*)
FormSatisfiesProduct == FormAccepts(calls) => ProductAccepts(Sent)

(* A name that the user typed or imported stays with its Tag when the        *)
(* address or the count is changed, before and after the Job was saved.      *)
TypedNamesStay ==
    \A i \in DOMAIN calls, k \in 1..2 :
        (k \in DOMAIN calls[i].tags /\ calls[i].tags[k].typed # None) => calls[i].tags[k].name = calls[i].tags[k].typed

(* What a save stores is what the rows showed: names, conversions and signs, *)
(* also those that lie hidden in Tags of a Bit address or behind a REAL.     *)
StoresWhatIsShown ==
    stored' # stored => \A i \in DOMAIN calls, k \in 1..2 : k \in DOMAIN calls[i].tags =>
        LET t == calls[i].tags[k]  s == stored'[i].tags[k] IN
        /\ s.name = t.name /\ s.conv = ShownConv(calls[i].addr, t) /\ s.signed = ShownSign(calls[i].addr, t)
StoredAsShown == [][StoresWhatIsShown]_vars
=============================================================================
