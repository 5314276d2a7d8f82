----------------------------- MODULE PromptConfigs -----------------------------
(***************************************************************************)
(* The table prompt_configs and what a submission takes from it.           *)
(*                                                                         *)
(* A prompt config (a template) gives values to the fields a request left  *)
(* empty.  Empty and absent are one in a message: a field that is "" or 0  *)
(* counts as not sent, and is NULL in the table.  A key of the metadata    *)
(* map behaves as one more field, since mergeMetadata merges key by key    *)
(* and the request's value wins, "" included; "label" stands for such a    *)
(* key and "model" for the three fields like it.  The JSON schema is apart *)
(* because the provider adapter parses it.                                 *)
(***************************************************************************)
CONSTANTS
    Templates,   \* ids of prompt configs
    Values,      \* values of fields
    Unset,       \* "", 0, or no such key, in a message
    Null,        \* NULL, or no such key, in a column
    Contents,    \* what callers of UpsertPromptConfig may send: sets of fields
    NoConfig     \* no row

Fields == {"model", "schema", "label"}
FieldValues == [Fields -> Values \cup {Unset}]
ColumnValues == [Fields -> Values \cup {Null}]

ASSUME PromptAssumption ==
    /\ Unset \notin Values
    /\ Null \notin Values
    /\ Contents \subseteq FieldValues
    /\ NoConfig \notin [fields : ColumnValues, created : {"set", "zero"}]

VARIABLE configs  \* prompt_configs: configs[t], NoConfig where there is no row

\* models.PromptConfig; created is created_at, the time of the insert or Go's zero time.
Config == [fields : ColumnValues, created : {"set", "zero"}]

PromptInit == configs = [t \in Templates |-> NoConfig]

\* nullString, nullFloat64 and encodeMetadata: what was not sent is NULL.
Columns(sent) == [f \in Fields |-> IF sent[f] = Unset THEN Null ELSE sent[f]]

\* GORM's Save updates every column of row t, created_at with the zero time the
\* request left in it.  Where the update finds no row, Save inserts one, and if
\* one was inserted meanwhile it replaces that row's columns except created_at.
Saved(t, columns) ==
    \E created \in {"set", "zero"} :
        /\ configs[t] = NoConfig => created = "set"
        /\ configs[t] # NoConfig => created \in {"zero", configs[t].created}
        /\ configs' = [configs EXCEPT ![t] = [fields |-> columns, created |-> created]]

\* UpsertPromptConfig replaces a config, whatever it held.
UpsertPromptConfig_Merges(t) ==
    \E sent \in Contents :
        LET old == configs[t]
            new == Columns(sent)
        IN  configs' = [configs EXCEPT ![t] =
                [fields |-> IF old = NoConfig THEN new
                            ELSE [f \in Fields |-> IF new[f] = Null THEN old.fields[f] ELSE new[f]],
                 created |-> "set"]]
UpsertPromptConfig(t) == \E sent \in Contents : Saved(t, Columns(sent))

\* DeletePromptConfig; without such a row it answers NotFound.
DeletePromptConfig(t) ==
    /\ configs[t] # NoConfig
    /\ configs' = [configs EXCEPT ![t] = NoConfig]

\* promptConfigToProto: what UpsertPromptConfig and ListPromptConfigs answer.
Shown(row) == [f \in Fields |-> IF row.fields[f] = Null THEN Unset ELSE row.fields[f]]

PromptNext == \E t \in Templates : UpsertPromptConfig(t) \/ DeletePromptConfig(t)

\* applyPromptConfigDefaults: what the request has wins, field by field.
WithDefaults(own, cfg) ==
    [f \in Fields |-> IF own[f] = Unset /\ cfg.fields[f] # Null THEN cfg.fields[f] ELSE own[f]]

-----------------------------------------------------------------------------
\* created_at is when the config was created: replacing a config keeps it.
CreatedAtIsKept ==
    [][\A t \in Templates :
        configs[t] # NoConfig /\ configs'[t] # NoConfig
            => configs'[t].created = configs[t].created]_configs
=============================================================================
