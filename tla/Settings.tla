------------------------------ MODULE Settings ------------------------------
(***************************************************************************)
(* The preferences screen of the web UI (agent/lib/ui-api.ts,              *)
(* ui-settings.ts, env-file.ts): a save reads `.env`, checks every value   *)
(* of the batch, and replaces the file, by a rename or, where the file is  *)
(* a mount point, in place.  Two saves may overlap at every await: both    *)
(* use the same temporary path (the process id names it), and a write of   *)
(* one may meet the other's bytes.  The process may stop between any two.  *)
(***************************************************************************)
EXTENDS Naturals, FiniteSets

CONSTANTS Savers,      \* the requests that may be under way at once
          KindOf,      \* the editable settings and their kinds
          Initial,     \* the file as the operator wrote it
          Batches,     \* the batches a form may submit
          MaxSaves     \* bound: the saves asked for

VARIABLES env,      \* what `.env` says: a value for each key, or Unset
          tmp,      \* the shared temporary file, or NoFile
          saver,    \* each save: its step, batch, what it read, its text and open file
          crossed,  \* the saves that overlapped another (a history variable)
          saves     \* how many saves were asked for

settingVars == <<env, tmp, saver, crossed, saves>>

Keys == DOMAIN KindOf

\* A value as a form sends it: what it reads as, and what it contains.
Value(is, has) == [is |-> is, has |-> has]
Unset == Value("unset", {})
Torn == Value("torn", {})        \* a line cut where two writes met
Truncated == [k \in Keys |-> Unset]  \* a file just truncated
NoFile == [none |-> TRUE]
NoSave == [step |-> "idle"]

\* Whether a kind permits a value.
validateSetting(kind, value) ==
    /\ "break" \notin value.has
    /\ \/ kind \in {"secret", "text"}
       \/ value.is = "empty" /\ kind \notin {"boolean", "choice"}
       \/ kind = "boolean" /\ value.is \in {"true", "false"}
       \/ kind \in {"choice", "openChoice"} /\ value.is = "choice"
       \/ kind = "allowlist" /\ value.has \cap {"openQuote", "apostrophe"} = {}
       \/ kind = "list" /\ "strayComma" \notin value.has
       \/ kind \in {"days", "millis", "count"} /\ value.is = "number"
       \/ kind = "url" /\ value.is = "url"

\* Whether a value can be written so that every reader gives it back.
formatEnvValue(value) ==
    "break" \notin value.has /\ ~({"apostrophe", "quote"} \subseteq value.has)

\* The text with the lines of these keys replaced or appended.
setEnvValues(text, updates) ==
    [k \in Keys |-> IF k \in DOMAIN updates THEN updates[k] ELSE text[k]]

\* The values of a batch that would be refused.
RefusedKeys(updates) ==
    {k \in DOMAIN updates : \/ k \notin Keys
                           \/ ~validateSetting(KindOf[k], updates[k])
                           \/ ~formatEnvValue(updates[k])}

\* All or nothing: the new text, or none when a value is refused.
applySettings(text, updates) ==
    IF RefusedKeys(updates) = {} THEN {setEnvValues(text, updates)} ELSE {}

\* What a file holds when `text` is written over `was`: a write starts at
\* the first byte, so bytes of another writer survive past the shorter text
\* (a line cut, or a whole line that a reader takes for the last of its key).
Overwritten(was, text) ==
    IF was \in {Truncated, text} THEN {text}
    ELSE {m \in [Keys -> {was[k] : k \in Keys} \cup {text[k] : k \in Keys} \cup {Torn}] :
            \A k \in Keys : m[k] \in {was[k], text[k], Torn}}

\* The savers, after the files their handles named moved or went.
Reopened(to) == [s \in Savers |->
    IF saver[s].step \in {"tempOpen", "envOpen"}
    THEN [saver[s] EXCEPT !.file = to[@]] ELSE saver[s]]

SettingsInit ==
    /\ env = Initial /\ tmp = NoFile
    /\ saver = [s \in Savers |-> NoSave]
    /\ crossed = {} /\ saves = 0

\* The saves under way.
UnderWay == {s \in Savers : saver[s].step # "idle"}

\* POST /ui/api/preferences.
savePreferences(s, b) ==
    /\ saver[s].step = "idle" /\ saves < MaxSaves
    /\ saves' = saves + 1
    /\ saver' = [saver EXCEPT ![s] = [step |-> "asked", batch |-> b]]
    /\ crossed' = IF UnderWay = {} THEN crossed \ {s} ELSE crossed \cup UnderWay \cup {s}
    /\ UNCHANGED <<env, tmp>>

\* The file is read and the batch applied to what was read.
Applies(s) ==
    /\ saver[s].step = "asked"
    /\ \E text \in applySettings(env, saver[s].batch) :
          saver' = [saver EXCEPT ![s] =
                      [step |-> "begin", batch |-> saver[s].batch, read |-> env,
                       text |-> text, file |-> "closed"]]
    /\ UNCHANGED <<env, tmp, crossed, saves>>

\* No file is mounted or it cannot be read (409), or a value is refused (400).
Refuses(s) ==
    /\ saver[s].step = "asked"
    /\ saver' = [saver EXCEPT ![s] = NoSave]
    /\ UNCHANGED <<env, tmp, crossed, saves>>

\* Mutant of OpensTemp: what an earlier save left in the sibling stays.
OpensTempAsLeft(s) ==
    /\ saver[s].step = "begin"
    /\ tmp' = IF tmp = NoFile THEN Truncated ELSE tmp
    /\ saver' = [saver EXCEPT ![s].step = "tempOpen", ![s].file = "tmp"]
    /\ UNCHANGED <<env, crossed, saves>>

\* writeEnvFileSafely: the sibling is opened, and truncated.
OpensTemp(s) ==
    /\ saver[s].step = "begin"
    /\ tmp' = Truncated
    /\ saver' = [saver EXCEPT ![s].step = "tempOpen", ![s].file = "tmp"]
    /\ UNCHANGED <<env, crossed, saves>>

\* A write goes to the file the handle names, whatever its path is by now.
Lands(s) ==
    \/ /\ saver[s].file = "tmp" /\ tmp' \in Overwritten(tmp, saver[s].text)
       /\ UNCHANGED env
    \/ /\ saver[s].file = "env" /\ env' \in Overwritten(env, saver[s].text)
       /\ UNCHANGED tmp
    \/ saver[s].file = "gone" /\ UNCHANGED <<env, tmp>>

WritesTemp(s) ==
    /\ saver[s].step = "tempOpen" /\ Lands(s)
    /\ saver' = [saver EXCEPT ![s].step = "written", ![s].file = "closed"]
    /\ UNCHANGED <<crossed, saves>>

Renames(s) ==
    /\ saver[s].step = "written" /\ tmp # NoFile
    /\ env' = tmp /\ tmp' = NoFile
    /\ saver' = [Reopened([tmp |-> "env", env |-> "gone", gone |-> "gone"])
                   EXCEPT ![s] = NoSave]
    /\ UNCHANGED <<crossed, saves>>

\* A mount point (EBUSY), a full disk, or the other save took the sibling.
TempFails(s) ==
    /\ saver[s].step \in {"begin", "tempOpen", "written"}
    /\ saver' = [saver EXCEPT ![s].step = "fell", ![s].file = "closed"]
    /\ UNCHANGED <<env, tmp, crossed, saves>>

Unlinks(s) ==
    /\ saver[s].step = "fell"
    /\ tmp' = NoFile
    /\ saver' = [Reopened([tmp |-> "gone", env |-> "env", gone |-> "gone"])
                   EXCEPT ![s].step = "inPlace"]
    /\ UNCHANGED <<env, crossed, saves>>

OpensInPlace(s) ==
    /\ saver[s].step = "inPlace"
    /\ env' = Truncated
    /\ saver' = [saver EXCEPT ![s].step = "envOpen", ![s].file = "env"]
    /\ UNCHANGED <<tmp, crossed, saves>>

WritesInPlace(s) ==
    /\ saver[s].step = "envOpen" /\ Lands(s)
    /\ saver' = [saver EXCEPT ![s] = NoSave]
    /\ UNCHANGED <<crossed, saves>>

InPlaceFails(s) ==
    /\ saver[s].step \in {"inPlace", "envOpen"}
    /\ saver' = [saver EXCEPT ![s] = NoSave]
    /\ UNCHANGED <<env, tmp, crossed, saves>>

AgentStops ==
    /\ \E s \in Savers : saver[s] # NoSave
    /\ saver' = [s \in Savers |-> NoSave]
    /\ UNCHANGED <<env, tmp, crossed, saves>>

SettingsNext ==
    \/ \E s \in Savers : \/ \E b \in Batches : savePreferences(s, b)
                         \/ Applies(s) \/ Refuses(s) \/ OpensTemp(s) \/ WritesTemp(s)
                         \/ Renames(s) \/ TempFails(s) \/ Unlinks(s)
                         \/ OpensInPlace(s) \/ WritesInPlace(s) \/ InPlaceFails(s)
    \/ AgentStops

SettingsSpec == SettingsInit /\ [][SettingsNext]_settingVars

-----------------------------------------------------------------------------

\* The answer to s says that its batch was saved.
Saved(s) == Renames(s) \/ WritesInPlace(s)

\* A save that met no other lands whole, by a rename or in place, and touches
\* nothing else, whatever earlier saves that failed, overlapped or were cut off
\* left in the file and beside it: the file is what was read, with the values
\* of the batch (env-file.ts:22, "the line for a key is replaced, everything
\* else survives byte for byte").
AloneLandsWhole ==
    [][\A s \in Savers \ crossed : Saved(s) =>
          env' = [k \in Keys |-> IF k \in DOMAIN saver[s].batch
                                THEN saver[s].batch[k] ELSE saver[s].read[k]]]_settingVars
=============================================================================
