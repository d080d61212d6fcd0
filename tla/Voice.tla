-------------------------------- MODULE Voice --------------------------------
(***************************************************************************)
(* Text into a voice note: speak of agent/lib/speech.ts.  The provider is  *)
(* chosen from configuration, a voice by id or by name; a text longer than *)
(* one request is cut at sentences, then at spaces, and spoken piece by    *)
(* piece, each request tried up to three times; what was heard is joined,  *)
(* encoded and measured.                                                   *)
(*                                                                         *)
(* A text is the sequence of its sentences, a sentence a sequence of       *)
(* characters, and a character a number, of which 0 is the space.          *)
(***************************************************************************)
EXTENDS Naturals, Sequences, SequencesExt, FiniteSets, FiniteSetsExt

CONSTANTS Speeches,        \* the texts
          CHUNK_CHARS,
          MAX_SPEECH_CHARS,
          Voices,          \* the account's voices: [voice_id, name]
          VoicesAsked,     \* a voice as given: [id] or [name]
          Environments     \* [explicit, elevenlabs, openai] of the configuration

Space == 0

\* What chunkText makes of the text between two boundaries: words, and one
\* space between any two.
IsSentence(part) ==
    /\ part # <<>> /\ part[1] # Space /\ part[Len(part)] # Space
    /\ \A k \in 1 .. Len(part) - 1 : part[k] # Space \/ part[k + 1] # Space

ASSUME VoiceAssumption ==
    /\ CHUNK_CHARS \in Nat \ {0} /\ MAX_SPEECH_CHARS \in Nat
    /\ Speeches \subseteq Seq(Seq(Nat))
    /\ \A text \in Speeches : \A k \in 1 .. Len(text) : IsSentence(text[k])

VARIABLE speech

voiceVars == <<speech>>

Spaced(left, right) == IF left = <<>> THEN right ELSE left \o <<Space>> \o right

\* A text up to each of its sentences.
UpTo(text) ==
    LET upTo[k \in 0 .. Len(text)] ==
            IF k = 0 THEN <<>> ELSE Spaced(upTo[k - 1], text[k])
    IN upTo

Body(text) == UpTo(text)[Len(text)]

-----------------------------------------------------------------------------
(* Cutting a text into requests.  Of the text so far, chunks are the       *)
(* requests that are full and current is the one in hand.                  *)

\* Where to cut the rest of a sentence: its last space within the limit, or
\* the limit when one word is longer.
Cut(part, from) ==
    LET spaces == {k \in 1 .. CHUNK_CHARS : part[from + k] = Space}
    IN IF spaces = {} THEN CHUNK_CHARS ELSE Max(spaces)

Pushed(chunks, current) == IF current = <<>> THEN chunks ELSE Append(chunks, current)

Fits(part, from) == Len(part) + 1 - from <= CHUNK_CHARS

\* A mutant: the request in hand is not pushed before the beginning of a
\* sentence that no request could hold.
CutsUnpushed(acc, part) ==
    LET next == acc.from + Cut(part, acc.from)
    IN [chunks  |-> Append(acc.chunks, SubSeq(part, acc.from, next - 1)),
        current |-> acc.current,
        from    |-> IF part[next] = Space THEN next + 1 ELSE next]

\* The sentence loses its beginning, from which it has not been taken yet.
Cuts(acc, part) ==
    LET next == acc.from + Cut(part, acc.from)
    IN [chunks  |-> Append(Pushed(acc.chunks, acc.current), SubSeq(part, acc.from, next - 1)),
        current |-> <<>>,
        from    |-> IF part[next] = Space THEN next + 1 ELSE next]

\* The turns of the loop over a sentence; each takes a character at least.
Turns(acc, part) ==
    LET turn[n \in 0 .. Len(part)] ==
            IF n = 0 THEN [chunks |-> acc.chunks, current |-> acc.current, from |-> 1]
            ELSE LET before == turn[n - 1] IN
                 IF Fits(part, before.from) THEN before ELSE Cuts(before, part)
    IN turn

Takes(acc, part) ==
    LET last == Turns(acc, part)[Len(part)]
        rest == SubSeq(part, last.from, Len(part))
    IN IF last.current # <<>> /\ Len(last.current) + 1 + Len(rest) > CHUNK_CHARS
       THEN [chunks |-> Append(last.chunks, last.current), current |-> rest]
       ELSE [chunks |-> last.chunks, current |-> Spaced(last.current, rest)]

\* The requests, and the one in hand, after each sentence of a text.
Taken(text) ==
    LET taken[k \in 0 .. Len(text)] ==
            IF k = 0 THEN [chunks |-> <<>>, current |-> <<>>] ELSE Takes(taken[k - 1], text[k])
    IN taken

chunkText(text) ==
    IF Len(Body(text)) <= CHUNK_CHARS
    THEN <<Body(text)>>
    ELSE LET all == Taken(text)[Len(text)] IN Pushed(all.chunks, all.current)

-----------------------------------------------------------------------------
(* Who speaks.                                                             *)

chooseProvider(env) ==
    IF env.explicit # "none" THEN env.explicit
    ELSE IF env.elevenlabs THEN "elevenlabs"
    ELSE IF env.openai THEN "openai"
    ELSE "none"

HasKey(env) ==
    \/ chooseProvider(env) = "elevenlabs" /\ env.elevenlabs
    \/ chooseProvider(env) = "openai" /\ env.openai

looksLikeVoiceId(asked) == asked.kind = "id"

\* The ids of the voices that match: by the whole name, failing that by its start.
pickVoice(asked) ==
    LET exact == {v \in Voices : v.name = asked.name}
        begun == {v \in Voices : IsPrefix(asked.name, v.name)}
    IN IF exact = {} THEN begun ELSE exact

\* What one request says, and what it tells ElevenLabs was said before and
\* comes after.
elevenLabsRequest(chunks, i, withContext) ==
    [text     |-> chunks[i],
     previous |-> IF withContext /\ i > 1 THEN chunks[i - 1] ELSE <<>>,
     next     |-> IF withContext /\ i < Len(chunks) THEN chunks[i + 1] ELSE <<>>]

ttsRequest(body) == [text |-> body, previous |-> <<>>, next |-> <<>>]

-----------------------------------------------------------------------------

Quiet == [pc |-> "quiet"]

VoiceInit == speech = Quiet

Failed == speech' = Quiet

\* speak up to its first request.  An eleven_v3 model takes no context.
Speaks ==
    /\ speech = Quiet
    /\ \E text \in Speeches, env \in Environments, asked \in VoicesAsked,
          withContext \in BOOLEAN :
          LET eleven == chooseProvider(env) = "elevenlabs" IN
          /\ Len(Body(text)) \in 1 .. MAX_SPEECH_CHARS
          /\ HasKey(env)
          /\ speech' = [pc |-> IF eleven /\ ~looksLikeVoiceId(asked) THEN "voices" ELSE "speaking",
                        text |-> text, eleven |-> eleven, asked |-> asked,
                        chunks |-> IF eleven THEN chunkText(text) ELSE <<Body(text)>>,
                        withContext |-> withContext, heard |-> <<>>, attempt |-> 1]

Requesting == speech.pc \in {"voices", "speaking"}

\* 429 and 5xx are tried again, twice.
RequestRetried ==
    /\ Requesting /\ speech.attempt < 3
    /\ speech' = [speech EXCEPT !.attempt = @ + 1]

\* Any other answer, or the third, is the answer.
RequestFails == Requesting /\ Failed

VoiceFound ==
    /\ speech.pc = "voices"
    /\ Cardinality(pickVoice(speech.asked)) = 1
    /\ speech' = [speech EXCEPT !.pc = "speaking", !.attempt = 1]

VoiceNotFound ==
    /\ speech.pc = "voices"
    /\ Cardinality(pickVoice(speech.asked)) # 1
    /\ Failed

ChunkSpoken ==
    LET i == Len(speech.heard) + 1
        heard == Append(speech.heard,
                     IF speech.eleven
                     THEN elevenLabsRequest(speech.chunks, i, speech.withContext)
                     ELSE ttsRequest(Body(speech.text)))
    IN
    /\ speech.pc = "speaking"
    /\ speech' = [speech EXCEPT !.heard = heard, !.attempt = 1,
                                !.pc = IF Len(heard) = Len(speech.chunks) THEN "encoding" ELSE @]

Encodes == speech.pc = "encoding" /\ speech' = [speech EXCEPT !.pc = "measuring"]

Measures == speech.pc = "measuring" /\ speech' = [speech EXCEPT !.pc = "note"]

\* ffmpeg or ffprobe fails, or there is no duration to read.
BinaryFails == speech.pc \in {"encoding", "measuring"} /\ Failed

NoteTaken == speech.pc = "note" /\ speech' = Quiet

VoiceNext ==
    \/ Speaks
    \/ RequestRetried \/ RequestFails \/ VoiceFound \/ VoiceNotFound \/ ChunkSpoken
    \/ Encodes \/ Measures \/ BinaryFails \/ NoteTaken

VoiceSpec == VoiceInit /\ [][VoiceNext]_voiceVars

-----------------------------------------------------------------------------

\* A break before this place is within a word longer than a request.
InLongWord(body, place) ==
    \E i, j \in DOMAIN body :
        /\ i < place /\ place <= j /\ j - i >= CHUNK_CHARS
        /\ \A k \in i .. j : body[k] # Space

\* Where in the text each request begins: where the one before it ended, or
\* past the space that was there.
Begins(body, said) ==
    LET begins[i \in 1 .. Len(said)] ==
            IF i = 1 THEN 1
            ELSE LET end == begins[i - 1] + Len(said[i - 1]) IN
                 IF end \in DOMAIN body /\ body[end] = Space THEN end + 1 ELSE end
    IN begins

\* Laid end to end along the text the requests are the text.
Says(body, said) ==
    LET begins == Begins(body, said)  past(i) == begins[i] + Len(said[i]) IN
    /\ Len(said) > 0 /\ past(Len(said)) = Len(body) + 1
    /\ \A i \in 1 .. Len(said) :
          /\ past(i) <= Len(body) + 1
          /\ said[i] = SubSeq(body, begins[i], past(i) - 1)
    /\ \A i \in 2 .. Len(said) : body[begins[i] - 1] = Space \/ InLongWord(body, begins[i])

\* A note that leaves speak says the whole text, every word once and in order,
\* each request to ElevenLabs within its limit and not empty, and told what
\* was said just before it or nothing; a word is broken only when no request
\* could hold it (speech.ts:124-130).
VoiceSaysItAll ==
    speech # Quiet =>
        LET chunks == speech.chunks  heard == speech.heard  body == Body(speech.text) IN
        /\ Says(body, chunks)
        /\ speech.pc \in {"encoding", "measuring", "note"} =>
              Says(body, [i \in 1 .. Len(heard) |-> heard[i].text])
        /\ \A i \in 2 .. Len(heard) : heard[i].previous \in {<<>>, heard[i - 1].text}
        /\ speech.eleven => \A i \in 1 .. Len(chunks) : Len(chunks[i]) \in 1 .. CHUNK_CHARS
=============================================================================
