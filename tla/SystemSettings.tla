--------------------------- MODULE SystemSettings ---------------------------
(***************************************************************************)
(* system_config: the one configuration row, and administrators who change *)
(* it at once, by PATCH /api/settings or in the Django admin.  Both read   *)
(* the whole row, lay the fields of the request over it and save the whole *)
(* row, in two database statements and no transaction.                     *)
(*                                                                         *)
(* The row keeps its severity bands, the two thresholds a run freezes and  *)
(* updated_by; the formats, sizes and flags are left out.                  *)
(***************************************************************************)
EXTENDS Severity

CONSTANTS
  Admins,    \* administrators; each sends one change
  NoOne,     \* updated_by of a row nobody has changed
  Defaults,  \* the fields of a new row
  Bodies,    \* what a change can send: some fields with new values
  Channels   \* {"api", "form"} or less

ASSUME SettingsAssumption ==
  /\ NoOne \notin Admins
  /\ Channels \subseteq {"api", "form"}
  /\ Defaults \in [{"low", "moderate", "mask", "confidence"} -> 0..100]
  /\ Defaults.low < Defaults.moderate
  /\ \A body \in Bodies : /\ DOMAIN body \subseteq DOMAIN Defaults
                          /\ \A field \in DOMAIN body : body[field] \in 0..100

VARIABLES
  row,        \* SystemSetting's fields
  updatedBy,
  request,    \* each admin's change: [pc, channel, body, draft]
  formSaved   \* ghost: the Django admin saved something

settingsVars == <<row, updatedBy, request, formSaved>>

Fields == DOMAIN Defaults

Blank(step) == [pc |-> step, channel |-> "api", body |-> <<>>, draft |-> Defaults]

SettingsInit ==
  /\ row = Defaults /\ updatedBy = NoOne /\ formSaved = FALSE
  /\ request = [a \in Admins |-> Blank("idle")]

(* get_solo: the row as it is now.  The form is filled in with it.         *)
Fetch(a, channel, body) ==
  /\ request[a].pc = "idle"
  /\ request' = [request EXCEPT ![a] =
                   [pc |-> "fetched", channel |-> channel, body |-> body, draft |-> row]]
  /\ UNCHANGED <<row, updatedBy, formSaved>>

Laid(draft, body) ==
  [field \in Fields |-> IF field \in DOMAIN body THEN body[field] ELSE draft[field]]

(* SystemSettingSerializer.validate; the Django form has no such check.    *)
Valid(a) ==
  LET new == Laid(request[a].draft, request[a].body)
  IN request[a].channel = "form" \/ new.low < new.moderate

Over(a) == request' = [request EXCEPT ![a] = Blank("over")]

(* Invalid, or the database refuses.                                       *)
Refuse(a) ==
  /\ request[a].pc = "fetched"
  /\ Over(a)
  /\ UNCHANGED <<row, updatedBy, formSaved>>

(* A mutant: save(update_fields=...), so that two changes can be merged.   *)
SaveChangedFields(a) ==
  /\ request[a].pc = "fetched" /\ Valid(a)
  /\ row' = Laid(row, request[a].body)
  /\ updatedBy' = a
  /\ formSaved' = (formSaved \/ request[a].channel = "form")
  /\ Over(a)

(* instance.save(): every column of the row that was read.                 *)
Save(a) ==
  /\ request[a].pc = "fetched" /\ Valid(a)
  /\ row' = Laid(request[a].draft, request[a].body)
  /\ updatedBy' = a
  /\ formSaved' = (formSaved \/ request[a].channel = "form")
  /\ Over(a)

SettingsNext ==
  \E a \in Admins :
    \/ \E channel \in Channels, body \in Bodies : Fetch(a, channel, body)
    \/ Refuse(a)
    \/ Save(a)

SettingsSpec == SettingsInit /\ [][SettingsNext]_settingsVars

----------------------------------------------------------------------------
SettingsTypeOK ==
  /\ row \in [Fields -> 0..100]
  /\ updatedBy \in Admins \union {NoOne}
  /\ formSaved \in BOOLEAN
  /\ request \in [Admins -> [pc : {"idle", "fetched", "over"}, channel : {"api", "form"},
                            body : Bodies \union {<<>>}, draft : [Fields -> 0..100]]]

(***************************************************************************)
(* Whatever PATCHes overlap, the stored bands stay ordered: each request   *)
(* is checked against the row it read, and saves that whole row.  A change *)
(* in the Django admin, which checks nothing, is the one way out.          *)
(***************************************************************************)
OrderedBands == formSaved \/ row.low < row.moderate

=============================================================================
