-------------------------------- MODULE JobForm --------------------------------
(* The form of an LS Job: its configuration and the draft of it in a dialog,  *)
(* the cycle of the PLC that is asked for whenever the DBus destination       *)
(* changes, the validation with its warnings, and the save.  A destination    *)
(* stands for the Service Name and the Interface Prefix together, and a Tag   *)
(* for all the Method Calls.  Another user changes the Job meanwhile.         *)
EXTENDS Integers

CONSTANTS Destinations,  \* every one the user may type
          Standard,      \* the default one, which needs no confirmation
          Malformed,     \* those that are not a DBus name
          Cycle,         \* [Destinations -> the period of the PLC's task]
          MaxInterval,   \* MAX_INTERVAL_MS
          Intervals,     \* intervals the user may type
          Tags, Shared,  \* Tags; those another Job stores in the same table
          MaxOps, MaxOthers   \* bounds on the user's and on others' actions

VARIABLES stored,    \* the Job the server has
          form,      \* [config, base: ghost, the stored Job it was made from]
          draft,     \* of the dialog, or closed
          confirming,
          asked,     \* the destination a policy was asked for
          policy,    \* jobIntervalPolicy
          tables,    \* "pending", "listed", "failed"
          approval,  \* warningApprovalKey
          saving,
          shown,     \* ghost: configurations whose warnings were shown
          fitted,    \* ghost: the form's interval was applied to the PLC's cycle
          ops, others
vars == <<stored, form, draft, confirming, asked, policy, tables, approval, saving, shown, fitted, ops, others>>
dialog == <<draft, confirming, asked, policy>>
-----------------------------------------------------------------------------
(* The interval is a number of cycles.                                      *)

Larger(a, b) == IF a < b THEN b ELSE a
Smaller(a, b) == IF a < b THEN a ELSE b
\* taskPeriodMs, maxIntervalMultiplier
Period(cycle) == IF cycle \in 1..MaxInterval THEN cycle ELSE 1
MaxMultiplier(cycle) == Larger(1, MaxInterval \div Period(cycle))
\* intervalMultiplier, intervalMsFromMultiplier: up to the next cycle.
Multiplier(cycle, interval) ==
    Smaller(MaxMultiplier(cycle), Larger(1, (interval + Period(cycle) - 1) \div Period(cycle)))
Fitted(cycle, interval) == Period(cycle) * Multiplier(cycle, interval)

\* The least multiple that is 10 ms or more, in the unit of the model.
Default(cycle) == Fitted(cycle, 2)

\* resolveIntervalPolicy: 1 when the PLC does not answer.
Answers(dest) == {Cycle[dest], 1}
Accepts(config, cycle) == /\ config.dest \notin Malformed
                          /\ config.interval \in Larger(1, cycle)..MaxInterval
                          /\ config.interval % cycle = 0
-----------------------------------------------------------------------------
Closed == [open |-> FALSE]
NoPolicy == [known |-> FALSE]
NotSaving == [at |-> "idle"]
NoKey == [key |-> FALSE]

\* The draft's destination while there is one.
Selected == IF draft.open THEN draft.dest ELSE form.config.dest
Valid(dest) == dest \notin Malformed

\* intervalPolicyReady
Ready == Valid(Selected) /\ policy.known /\ policy.dest = Selected
\* intervalTaskPeriodMs; the settings were read while the PLC answered.
TaskPeriod == Period(IF Ready THEN policy.cycle ELSE IF Selected = Standard THEN Cycle[Standard] ELSE 1)

User == ops < MaxOps /\ ops' = ops + 1
\* The policy is asked for again when another destination is selected.
Select(dest) == asked' = IF dest = Selected THEN asked ELSE IF Valid(dest) THEN dest ELSE "none"

\* 250 ms later; a request that failed leaves cycles of 1 ms.
PolicyAnswer(cycle, known) ==
    /\ asked # "none" /\ asked' = "none"
    /\ policy' = [known |-> TRUE, dest |-> asked, cycle |-> IF known THEN cycle ELSE 1, read |-> known /\ cycle = Cycle[asked]]
    /\ UNCHANGED <<stored, form, draft, confirming, tables, approval, saving, shown, fitted, ops, others>>

Open ==
    /\ User /\ ~draft.open
    /\ draft' = [open |-> TRUE, dest |-> form.config.dest, interval |-> Fitted(TaskPeriod, form.config.interval)]
    /\ UNCHANGED <<confirming, asked>>
    /\ UNCHANGED <<stored, form, policy, tables, approval, saving, shown, fitted, others>>
Change(dest, interval) ==
    /\ User /\ draft.open /\ ~confirming /\ <<dest, interval>> # <<draft.dest, draft.interval>>
    /\ draft' = [draft EXCEPT !.dest = dest, !.interval = interval]
    /\ Select(dest)
    /\ UNCHANGED <<stored, form, confirming, policy, tables, approval, saving, shown, fitted, others>>
Cancel ==
    /\ User /\ draft.open /\ ~confirming /\ draft' = Closed /\ Select(form.config.dest)
    /\ UNCHANGED <<stored, form, confirming, policy, tables, approval, saving, shown, fitted, others>>

\* The button is disabled while the policy of a valid name is out.
CanApply == draft.open /\ (Valid(Selected) => Ready)
\* applyJobConfiguration; an unusual name has to be confirmed.
Apply ==
    /\ User /\ CanApply /\ ~confirming
    /\ IF ~Valid(draft.dest) THEN UNCHANGED <<form, draft, confirming, asked, fitted>>
       ELSE IF draft.dest # Standard THEN confirming' = TRUE /\ UNCHANGED <<form, draft, asked, fitted>>
       ELSE /\ form' = [form EXCEPT !.config.dest = draft.dest, !.config.interval = Fitted(TaskPeriod, draft.interval)]
            /\ fitted' = policy.read
            /\ draft' = Closed /\ UNCHANGED <<confirming, asked>>
    /\ UNCHANGED <<stored, policy, tables, approval, saving, shown, others>>
Confirm(yes) ==
    /\ User /\ confirming /\ confirming' = FALSE
    /\ IF yes THEN /\ form' = [form EXCEPT !.config.dest = draft.dest, !.config.interval = Fitted(TaskPeriod, draft.interval)]
                   /\ fitted' = (policy.known /\ policy.read)
                   /\ draft' = Closed
              ELSE UNCHANGED <<form, draft, fitted>>
    /\ UNCHANGED <<stored, asked, policy, tables, approval, saving, shown, others>>

EditTag(t) == /\ User /\ ~draft.open /\ t # form.config.tag /\ form' = [form EXCEPT !.config.tag = t]
              /\ UNCHANGED <<stored, dialog, tables, approval, saving, shown, fitted, others>>

TablesAnswer(ok) == /\ tables = "pending" /\ tables' = IF ok THEN "listed" ELSE "failed"
                    /\ UNCHANGED <<stored, form, dialog, approval, saving, shown, fitted, ops, others>>
-----------------------------------------------------------------------------
(* save: what is sent is the configuration when the button was pressed.  The *)
(* table is there, but a list that is not or could not be read does not have *)
(* it, and then it "will be created", without a validation.                  *)

WillBeCreated == tables # "listed"
Begin ==
    /\ User /\ saving.at = "idle" /\ ~draft.open
    /\ saving' = [at |-> IF WillBeCreated THEN "store" ELSE "validate", payload |-> form.config,
                  checked |-> ~WillBeCreated, approved |-> approval, base |-> form.base]
    /\ UNCHANGED <<stored, form, dialog, tables, approval, shown, fitted, others>>

Warned(config) == config.tag \in Shared

\* Mutant: the approval is not for one configuration.
Approved_Any(s) == s.approved.key

\* warningApprovalKey === approvalKey
Approved(s) == s.approved = [key |-> TRUE, of |-> s.payload]

\* api.jobs.validate: an error, warnings that were not shown yet, or nothing
\* in the way.
Validated(cycle) ==
    /\ saving.at = "validate"
    /\ IF ~Accepts(saving.payload, cycle) THEN saving' = NotSaving /\ UNCHANGED <<approval, shown>>
       ELSE IF Warned(saving.payload) /\ ~Approved(saving)
       THEN /\ saving' = NotSaving /\ approval' = [key |-> TRUE, of |-> saving.payload]
            /\ shown' = shown \cup {saving.payload}
       ELSE saving' = [saving EXCEPT !.at = "store"] /\ UNCHANGED <<approval, shown>>
    /\ UNCHANGED <<stored, form, dialog, tables, fitted, ops, others>>

\* api.jobs.update.  The revision that is sent is not looked at.
Store(cycle) ==
    /\ saving.at = "store" /\ Accepts(saving.payload, cycle)
    /\ stored' = saving.payload /\ saving' = NotSaving
    /\ form' = [form EXCEPT !.base = saving.payload]
    /\ UNCHANGED <<dialog, tables, approval, shown, fitted, ops, others>>
Refused(cycle) ==
    /\ saving.at = "store" /\ ~Accepts(saving.payload, cycle) /\ saving' = NotSaving
    /\ UNCHANGED <<stored, form, dialog, tables, approval, shown, fitted, ops, others>>

\* JOB_CONFLICT: the Job's lock was held.  What is stored by now replaces
\* what the form has.
Conflict ==
    /\ saving.at = "store" /\ saving' = NotSaving
    /\ form' = [config |-> stored, base |-> stored] /\ fitted' = FALSE
    /\ Select(IF draft.open THEN draft.dest ELSE stored.dest)
    /\ UNCHANGED <<stored, draft, confirming, policy, tables, approval, shown, ops, others>>

OtherSaves(config) ==
    /\ others < MaxOthers /\ others' = others + 1 /\ config # stored /\ stored' = config
    /\ UNCHANGED <<form, dialog, tables, approval, saving, shown, fitted, ops>>

\* The Job as it was stored when the form was opened.
Init == \E t \in Tags :
    LET first == [dest |-> Standard, interval |-> Default(Cycle[Standard]), tag |-> t] IN
    /\ stored = first /\ form = [config |-> first, base |-> first]
    /\ draft = Closed /\ confirming = FALSE /\ asked = Standard /\ policy = NoPolicy
    /\ tables = "pending" /\ approval = NoKey /\ saving = NotSaving
    /\ shown = {} /\ fitted = FALSE /\ ops = 0 /\ others = 0

Answer == \E known \in BOOLEAN : \E c \in (IF asked = "none" THEN {} ELSE Answers(asked)) : PolicyAnswer(c, known)
Serve == \/ \E c \in (IF saving.at = "idle" \/ ~Valid(saving.payload.dest) THEN {1} ELSE Answers(saving.payload.dest)) :
                Validated(c) \/ Store(c) \/ Refused(c)
         \/ Conflict
Next ==
    \/ Answer \/ Serve
    \/ Open \/ Cancel \/ Apply \/ Begin
    \/ \E d \in Destinations, i \in Intervals : Change(d, i)
    \/ \E yes \in BOOLEAN : Confirm(yes) \/ TablesAnswer(yes)
    \/ \E t \in Tags : EditTag(t)
    \/ OtherSaves([dest |-> Standard, interval |-> 4, tag |-> CHOOSE t \in Tags : TRUE])
Spec == Init /\ [][Next]_vars /\ WF_vars(Answer)
-----------------------------------------------------------------------------
(* However destinations and intervals were changed and answers came in       *)
(* between: an interval that was applied when the PLC had answered for the   *)
(* destination is one the server accepts.                                    *)
IntervalAccepted == fitted => Accepts(form.config, Cycle[form.config.dest])

(* A Job that passed the validation and whose Tags another Job uses too is   *)
(* stored only after the warnings were shown for what is stored.             *)
SavesWhatWasShown ==
    saving.at = "store" /\ saving.checked /\ stored' = saving.payload /\ Warned(saving.payload)
        => saving.payload \in shown \/ stored' = stored
SavedWasShown == [][SavesWhatWasShown]_vars

(* A dialog whose names are valid does not stay without its Apply button:    *)
(* the policy comes, or its failure does.                                    *)
Undecided == draft.open /\ ~CanApply
ApplyComes == Undecided ~> ~Undecided

(* A form made from an older version of the Job does not replace what was    *)
(* stored since.                                                             *)
StaleFormRefused ==
    [][saving.at = "store" /\ others' = others /\ stored' # stored => stored = saving.base]_vars
=============================================================================
