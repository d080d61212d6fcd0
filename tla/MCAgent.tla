------------------------------- MODULE MCAgent -------------------------------
(***************************************************************************)
(* One model of the machines behind the agent's tools and its web UI that  *)
(* share no state: the rules of the chat game, the sends, the self notes,  *)
(* the twin's passes, the preferences, the searches and the voice notes.   *)
(* A behaviour runs one of them.                                           *)
(***************************************************************************)
EXTENDS GameRules, Sends, SelfNotes, TwinPass, Settings, SearchPages, Voice

VARIABLE machine

agentVars == <<machine, current, sendVars, noteVars, twinVars, settingVars, searchVars,
               speech>>

AgentInit ==
    /\ machine \in {"rules", "sends", "notes", "twin", "settings", "search", "voice"}
    /\ GameInit /\ SendInit /\ NoteInit /\ TwinInit /\ SettingsInit
    /\ SearchInit /\ VoiceInit
    /\ machine = "sends" \/ roster = CHOOSE r \in Rosters : TRUE

AgentNext ==
    /\ UNCHANGED machine
    /\ \/ /\ machine = "rules" /\ GameNext
          /\ UNCHANGED <<sendVars, noteVars, twinVars, settingVars, searchVars, speech>>
       \/ /\ machine = "sends" /\ SendNext
          /\ UNCHANGED <<current, noteVars, twinVars, settingVars, searchVars, speech>>
       \/ /\ machine = "notes" /\ NoteNext
          /\ UNCHANGED <<current, sendVars, twinVars, settingVars, searchVars, speech>>
       \/ /\ machine = "twin" /\ TwinNext
          /\ UNCHANGED <<current, sendVars, noteVars, settingVars, searchVars, speech>>
       \/ /\ machine = "settings" /\ SettingsNext
          /\ UNCHANGED <<current, sendVars, noteVars, twinVars, searchVars, speech>>
       \/ /\ machine = "search" /\ SearchNext
          /\ UNCHANGED <<current, sendVars, noteVars, twinVars, settingVars, speech>>
       \/ /\ machine = "voice" /\ VoiceNext
          /\ UNCHANGED <<current, sendVars, noteVars, twinVars, settingVars, searchVars>>

AgentSpec == AgentInit /\ [][AgentNext]_agentVars /\ NoteFairness

-----------------------------------------------------------------------------
(* The instance.                                                           *)

MCNames == {<<"ana">>, <<"ana", "paula">>, <<"we">>}
MCAllowlist == {<<"ana">>, <<"we">>}
MCAliases == <<"ana", "paula">> :> <<"ana">>

\* Two spellings of one thread.
MCFormOf == "Trip" :> "trip" @@ "trip!" :> "trip"

MCKindOf == [WA_ALLOW_SEND |-> "boolean", WA_SEND_ALLOWLIST |-> "allowlist"]
MCInitial == [WA_ALLOW_SEND |-> Value("false", {}), WA_SEND_ALLOWLIST |-> Value("names", {})]

\* Two settings saved, one of two refused, and one setting saved.
MCBatches == {
    [WA_ALLOW_SEND |-> Value("true", {}), WA_SEND_ALLOWLIST |-> Value("others", {})],
    [WA_ALLOW_SEND |-> Value("maybe", {}), WA_SEND_ALLOWLIST |-> Value("friends", {})],
    [WA_SEND_ALLOWLIST |-> Value("family", {"quote"})] }

\* The characters of a text whose sentences have words of these lengths.
MCSpell(lengths) ==
    LET Word(n, acc) ==
            [next |-> acc.next + n,
             part |-> Spaced(acc.part, [i \in 1 .. n |-> acc.next + i])]
        Sentence(words, acc) ==
            LET one == FoldLeft(LAMBDA a, n : Word(n, a), [next |-> acc.next, part |-> <<>>], words)
            IN [next |-> one.next, text |-> Append(acc.text, one.part)]
    IN FoldLeft(LAMBDA a, words : Sentence(words, a), [next |-> 0, text |-> <<>>], lengths).text

MCSentences == UNION {[1 .. n -> {1, 3, 6}] : n \in 1 .. 2}
MCSpeeches == {MCSpell(lengths) : lengths \in UNION {[1 .. n -> MCSentences] : n \in 0 .. 2}
                                                \cup [1 .. 3 -> {<<1>>, <<3>>, <<6>>}]}
MCVoices == {[voice_id |-> "a", name |-> <<"ada">>], [voice_id |-> "b", name |-> <<"ada", "bo">>],
             [voice_id |-> "c", name |-> <<"eve", "x">>], [voice_id |-> "d", name |-> <<"eve", "y">>]}
MCVoicesAsked == {[kind |-> "id", name |-> <<>>], [kind |-> "name", name |-> <<"ada">>],
                  [kind |-> "name", name |-> <<"eve">>]}
MCEnvironments == {[explicit |-> "none", elevenlabs |-> TRUE, openai |-> TRUE],
                   [explicit |-> "none", elevenlabs |-> FALSE, openai |-> TRUE],
                   [explicit |-> "openai", elevenlabs |-> TRUE, openai |-> FALSE]}
=============================================================================
